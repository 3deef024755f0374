------------------------- MODULE MCProjectAllowlist -------------------------
(***************************************************************************)
(* Small instances of ProjectAllowlist for TLC: a directory inside the     *)
(* top, so that a walk ends at a file in either or finds none, with a cap  *)
(* on the hops beyond the top, as 32 is for most directories; and a chain  *)
(* that is longer than the cap, for files that move.                       *)
(***************************************************************************)
EXTENDS ProjectAllowlist, TLC

CONSTANTS t1, t2

MCCallers == {t1, t2}
MCSymmetry == Permutations(MCCallers)
MCCaller == {t1}
MCGlobalRoots == {0, 2}
MCContents ==
  {Malformed, [mode |-> "extend", roots |-> {Here}], [mode |-> "replace", roots |-> {}]}
MCRelative == {[mode |-> "replace", roots |-> {Here}]}
=============================================================================
