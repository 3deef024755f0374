----------------------------- MODULE MCAuditLog -----------------------------
(***************************************************************************)
(* Small instances of AuditLog and its readers for TLC: entries of one or  *)
(* two bytes, files rotated at two, so that a backup may be of two or      *)
(* three bytes and a threshold of three compresses some of them.           *)
(***************************************************************************)
EXTENDS AuditReaders
=============================================================================
