--------------------------- MODULE MCStateUpdate ---------------------------
(***************************************************************************)
(* Lines of up to three commands: cds to two allowed directories, to one   *)
(* that exists outside the allowed roots, to a missing one, to one below a *)
(* directory that may not be searched and to a relative path; two          *)
(* variables of two values under a cap of one, one of them handed down by  *)
(* the server; commands that only the shell or only the parser takes.      *)
(***************************************************************************)
EXTENDS StateUpdate

CONSTANTS home, tmp, etc, missing, secret, sub, X, Y, one, two

MCDirs == {home, tmp}
MCExisting == {home, tmp, etc}
MCAbsolute == {home, tmp, etc, missing, secret}
MCHidden == {secret}
MCRelative == {sub}
(* `sub` leads from home to tmp, and nowhere from elsewhere.               *)
MCUnder == [d \in MCExisting |-> [r \in MCRelative |-> IF d = home THEN tmp ELSE missing]]
MCNames == {X, Y}
MCValues == {one, two}
MCInherited == [n \in MCNames |-> IF n = Y THEN two ELSE Nil]

Both == {"shell", "parser"}
ACd(path, to, by, and) == [op |-> "cd", path |-> path, to |-> to, by |-> by, and |-> and]
AnExport(name, text, value, by, and) ==
  [op |-> "export", name |-> name, text |-> text, value |-> value, by |-> by, and |-> and]
AnUnset(name, by, and) == [op |-> "unset", name |-> name, by |-> by, and |-> and]
Another(ok, and) == [op |-> "other", ok |-> ok, by |-> {"shell"}, and |-> and]

(* The last of each are a cd after &&, a pushd, a cd in the background and *)
(* one that is expanded; an export after &&, one that is expanded, a       *)
(* second name and one in the background; an unset after && and a second   *)
(* name.                                                                   *)
MCCommands ==
  {ACd(p, p, Both, FALSE) : p \in MCAbsolute \cup MCRelative}
    \cup {ACd(tmp, tmp, Both, TRUE), ACd(tmp, tmp, {"shell"}, FALSE),
          ACd(tmp, tmp, {"parser"}, FALSE), ACd(sub, home, Both, FALSE)}
    \cup {AnExport(X, one, one, Both, FALSE), AnExport(X, two, two, Both, FALSE),
          AnExport(Y, one, one, Both, FALSE), AnExport(X, one, one, Both, TRUE),
          AnExport(X, one, two, Both, FALSE), AnExport(X, two, two, {"shell"}, FALSE),
          AnExport(X, two, two, {"parser"}, FALSE)}
    \cup {AnUnset(X, Both, FALSE), AnUnset(Y, Both, FALSE), AnUnset(X, Both, TRUE),
          AnUnset(X, {"shell"}, FALSE)}
    \cup {Another(ok, and) : ok \in BOOLEAN, and \in BOOLEAN}
=============================================================================
