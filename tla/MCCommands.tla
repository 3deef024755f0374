------------------------------ MODULE MCCommands ------------------------------
(***************************************************************************)
(* Small instances of Commands for TLC: more threads than slots.           *)
(***************************************************************************)
EXTENDS Commands

CONSTANTS t1, t2, t3

MCPair == {t1, t2}
MCThreads == {t1, t2, t3}
=============================================================================
