--------------------------- MODULE MCSessionReplies ---------------------------
(***************************************************************************)
(* The instances of MCSessions, with the replies to the runs.              *)
(***************************************************************************)
EXTENDS MCSessions, SessionReplies
=============================================================================
