----------------------------- MODULE StateUpdate -----------------------------
(***************************************************************************)
(* How apply_state_update reads a command line that succeeded, next to     *)
(* what the shell did when it ran that line.  The three parsers each       *)
(* collect their own kind of command, wherever it stands in the line, and  *)
(* the session is updated kind by kind.  They go by the text: of           *)
(* `unset A B` and `export A=1 B=2` they take the first name only, they    *)
(* miss what follows a newline, and of `export A="$HOME"` they keep the    *)
(* text.  The next line starts from what the session kept, over what the   *)
(* server's own environment hands down.                                    *)
(***************************************************************************)
EXTENDS SessionState

CONSTANTS
  Home,       \* expanduser("~"), where sessions are created
  Existing,   \* directories that exist, allowed or not
  Hidden,     \* places below directories the server may not search
  Absolute,   \* absolute paths a `cd` names
  Relative,   \* relative paths a `cd` names
  Under,      \* Under[dir][path] is the directory `path` leads to from `dir`
  Inherited,  \* os.environ, which every command inherits
  Commands,   \* the commands that callers' lines are made of
  MaxLength   \* bound on the commands in a line

ASSUME HomeAssumption == Home \in Dirs
ASSUME PlacesAssumption ==
  Dirs \subseteq Existing /\ Hidden \cap Existing = {} /\ Nil \notin Absolute \cup Relative
ASSUME LengthAssumption == MaxLength \in Nat

(* `by`: whether it is a command of the shell's (not of a subshell, of the *)
(* background or in a quotation), and one that the regular expressions     *)
(* find; a command with several names is one for each, and only the first  *)
(* is found.  `path` and `text` are what is written, `to` and `value` what *)
(* bash made of it.  `and`: joined to the previous command by &&, not by ;. *)
Takers == {{"shell"}, {"parser"}, {"shell", "parser"}}
Command ==
  [op : {"cd"}, path : Absolute \cup Relative, to : Absolute \cup Relative,
   by : Takers, and : BOOLEAN]
    \cup [op : {"export"}, name : Names, text : Values, value : Values,
          by : Takers, and : BOOLEAN]
    \cup [op : {"unset"}, name : Names, by : Takers, and : BOOLEAN]
    \cup [op : {"other"}, ok : BOOLEAN, by : Takers, and : BOOLEAN]

ASSUME InputsAssumption == Commands \subseteq Command /\ Inherited \in Env

VARIABLES
  session,  \* cwd and env of the session
  line,     \* the commands the shell has run of the line
  shell     \* the shell's cwd and env, and how it got there

vars == <<session, line, shell>>

-----------------------------------------------------------------------------
(* The parsers and _resolve_cwd.                                           *)

Found(op, c) == c.op = op /\ "parser" \in c.by
Collect(op, found, c) == IF Found(op, c) THEN Append(found, c) ELSE found
Only(l, op) == FoldLeft(LAMBDA found, c : Collect(op, found, c), <<>>, l)

(* Relative paths start from the home directory.                           *)
Resolve(path) == IF path \in Relative THEN Under[Home][path] ELSE path

(* A bug: the target need only exist.                                      *)
ValidateExisting(target) ==
  CASE target \in Hidden -> Unreadable
    [] target \in Existing -> target
    [] OTHER -> Nil

Validate(target) ==
  CASE target \in Hidden -> Unreadable
    [] target \in Dirs -> target
    [] OTHER -> Nil

(* A bug: the first of several cds wins.                                   *)
CdFirst(l) ==
  LET cds == Only(l, "cd")
  IN  IF cds = <<>> THEN Nil ELSE Validate(Resolve(Head(cds).path))

(* The last cd wins.                                                       *)
Cd(l) ==
  LET cds == Only(l, "cd")
  IN  IF cds = <<>> THEN Nil ELSE Validate(Resolve(Last(cds).path))

(* "no shell expansion": the text is the value.                            *)
Exports(l) ==
  LET found == Only(l, "export")
  IN  [i \in DOMAIN found |-> [name |-> found[i].name, value |-> found[i].text]]

(* A bug: only the first unset is seen.                                    *)
UnsetsFirst(l) ==
  LET found == Only(l, "unset") IN IF found = <<>> THEN <<>> ELSE <<Head(found).name>>

Unsets(l) ==
  LET found == Only(l, "unset") IN [i \in DOMAIN found |-> found[i].name]

Parse(l) == [cd |-> Cd(l), exports |-> Exports(l), unsets |-> Unsets(l)]
-----------------------------------------------------------------------------
(* The reference: bash runs the line from left to right.                   *)

ShellTarget(cwd, path) == IF path \in Relative THEN Under[cwd][path] ELSE path

Execute(s, c) ==
  CASE c.op = "cd" ->
         LET target == ShellTarget(s.cwd, c.to)
         IN  IF target \in Existing
               THEN [s EXCEPT !.cwd = target, !.ok = TRUE]
               ELSE [s EXCEPT !.ok = FALSE]
    [] c.op = "export" -> [s EXCEPT !.env[c.name] = c.value, !.ok = TRUE]
    [] c.op = "unset" -> [s EXCEPT !.env[c.name] = Nil, !.ok = TRUE]
    [] c.op = "other" -> [s EXCEPT !.ok = c.ok]

ShellStep(s, c) ==
  CASE c.and /\ ~s.ok -> [s EXCEPT !.skipped = TRUE]
    [] ~(c.and /\ ~s.ok) /\ "shell" \notin c.by -> s
    [] ~(c.and /\ ~s.ok) /\ "shell" \in c.by -> Execute(s, c)

(* The environment of a command is the session's over the server's.        *)
Over(env) == [x \in Names |-> IF env[x] = Nil THEN Inherited[x] ELSE env[x]]
Start(s) == [cwd |-> s.cwd, env |-> Over(s.env), ok |-> TRUE, skipped |-> FALSE]

RunCommand(c) ==
  /\ Len(line) < MaxLength
  /\ c.and => line # <<>>
  /\ line' = Append(line, c)
  /\ shell' = ShellStep(shell, c)
  /\ UNCHANGED session
-----------------------------------------------------------------------------
Init ==
  /\ session = [cwd |-> Home, env |-> EmptyEnv]
  /\ line = <<>> /\ shell = Start(session)

(* bash exits with the status of the last command it ran.                  *)
ApplyStateUpdate ==
  /\ line # <<>>
  /\ session' = IF shell.ok /\ Cd(line) # Unreadable
                 THEN After(session, Parse(line)) ELSE session
  /\ line' = <<>> /\ shell' = Start(session')

Next == (\E c \in Commands : RunCommand(c)) \/ ApplyStateUpdate

Spec == Init /\ [][Next]_vars
-----------------------------------------------------------------------------
(* Whatever is run, the session stays in an allowed directory.             *)
TypeOK ==
  /\ session \in [cwd : Dirs, env : Env]
  /\ line \in Seq(Command)
  /\ shell.env \in Env /\ shell.cwd \in Existing

(* The line succeeded, no && stopped a part of it from being run, and its  *)
(* last cd did not make the update raise.                                  *)
Applied ==
  /\ line # <<>> /\ line' = <<>>
  /\ shell.ok /\ ~shell.skipped
  /\ Cd(line) # Unreadable

Exported == {line[i].name : i \in {j \in DOMAIN line : Found("export", line[j])}}
UnderCap == Cardinality(Keys(session.env) \cup Exported) <= MaxEnvVars

Assigns(c, x) == c.op \in {"export", "unset"} /\ c.name = x

(* The shell and the parser take the command, for the same.                *)
Agreed(c) ==
  /\ c.by = {"shell", "parser"}
  /\ c.op = "cd" => c.path = c.to
  /\ c.op = "export" => c.text = c.value

(* The last command that assigns x, if any, is one of these: it is not, for *)
(* example, an expansion, a second name, or an unset in the background.    *)
LastAgreed(x) ==
  \A i \in DOMAIN line :
    Assigns(line[i], x) /\ (\A j \in DOMAIN line : j > i => ~Assigns(line[j], x))
      => Agreed(line[i])

(* The last cd, if any, is one, to an absolute path that is an allowed dir. *)
EndsInAllowedDir ==
  \A i \in DOMAIN line :
    line[i].op = "cd" /\ (\A j \in DOMAIN line : j > i => line[j].op # "cd")
      => Agreed(line[i]) /\ line[i].path \in Dirs \ Relative

Dropped == {line[i].name : i \in {j \in DOMAIN line : Found("unset", line[j])}}
UnsetThenExported(x) ==
  \E i, j \in DOMAIN line :
    /\ i < j /\ line[i].op = "unset" /\ line[j].op = "export"
    /\ Found("unset", line[i]) /\ line[i].name = x /\ line[j].name = x

(* No old value outlives its replacement or its unset, and none is made    *)
(* up: a name that the line leaves alone, or last assigns in a way the     *)
(* parser can read, has the shell's value in the session or none (the cap  *)
(* and the order of the updates may lose it), whatever the rest of the     *)
(* line is.  Set aside is what the parser misreads or misses: the text of  *)
(* `export X="$HOME"`, as documented, or the X of `unset A X`, whose old   *)
(* value does outlive it.                                                  *)
InventsNothing ==
  Applied => \A x \in Names : LastAgreed(x) => session'.env[x] \in {Nil, shell.env[x]}
NothingInvented == [][InventsNothing]_vars

(* The next line starts where this one ended.  In the directory, if the    *)
(* line's last cd is to an absolute path that is an allowed directory, or  *)
(* there is none; a last cd that failed or is relative may leave the two   *)
(* apart, as in `cd /tmp; cd /missing; true`.  And for each variable that  *)
(* the parser can read the last assignment of, if the line cannot fill the *)
(* session, does not export the variable after its unset, and does not     *)
(* unset one that the server itself hands down.                            *)
Tracked ==
  Applied =>
    /\ EndsInAllowedDir => shell'.cwd = shell.cwd
    /\ UnderCap =>
         \A x \in Names :
           /\ LastAgreed(x) /\ ~UnsetThenExported(x)
           /\ x \in Dropped => Inherited[x] = Nil
           => shell'.env[x] = shell.env[x]
TracksShell == [][Tracked]_vars

(* bash_mcp_session_run: "parses top-level `cd PATH`, `export VAR=value`,  *)
(* `unset VAR` and updates the session", in whatever order they are given. *)
Followed ==
  Applied /\ UnderCap =>
    \A x \in Names :
      LastAgreed(x) /\ (x \in Dropped => Inherited[x] = Nil)
        => shell'.env[x] = shell.env[x]
FollowsShell == [][Followed]_vars
=============================================================================
