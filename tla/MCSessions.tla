----------------------------- MODULE MCSessions -----------------------------
(***************************************************************************)
(* Small instances of Sessions for TLC.                                    *)
(***************************************************************************)
EXTENDS SessionRefinement, TLC

CONSTANTS t1, t2, s1, home, tmp, X, Y, one

MCThreads == {t1, t2}
MCDirs == {home, tmp}
MCStartDirs == {home}
MCNames == {X, Y}
MCValues == {one}

Set(n) == [name |-> n, value |-> one]

(* A cd and an export; an export of another variable, which a cap of 1     *)
(* refuses once the first is set, and an unset of the first.               *)
MCCommands ==
  {[cd |-> tmp, exports |-> <<Set(X)>>, unsets |-> <<>>],
   [cd |-> Nil, exports |-> <<Set(Y)>>, unsets |-> <<X>>]}

(* A command that sets and unsets a variable, and one whose update raises. *)
MCSetUnset == [cd |-> Nil, exports |-> <<Set(X)>>, unsets |-> <<X>>]
MCRaise == [cd |-> Unreadable, exports |-> <<>>, unsets |-> <<>>]
MCLiveCommands == {MCSetUnset, MCRaise}

Symmetry == Permutations(MCThreads)
=============================================================================
