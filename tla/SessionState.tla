---------------------------- MODULE SessionState ----------------------------
(***************************************************************************)
(* What one session keeps between calls, and the two ways its environment  *)
(* is edited: `SessionState` of sessions.py and the export and unset rules *)
(* of `apply_state_update`.  A name that is not set has the value Nil, so  *)
(* an environment is a total function and its keys are the names with a    *)
(* value.                                                                  *)
(***************************************************************************)
EXTENDS Integers, Sequences, FiniteSets, SequencesExt

CONSTANTS
  Dirs,        \* directories a session may be in (allowed and existing)
  Names,       \* names of environment variables
  Values,      \* values a variable may be given
  MaxEnvVars,  \* BASH_MCP_SESSION_MAX_ENV_VARS
  Unreadable,  \* a cd target that os.stat may not even look at
  Nil          \* absent: an unset variable, no cd, no lock holder

ASSUME CapAssumption == MaxEnvVars \in Nat
ASSUME NilAssumption == Nil \notin Values /\ Nil \notin Dirs
ASSUME UnreadableAssumption == Unreadable \notin Dirs \cup {Nil}

Env == [Names -> Values \cup {Nil}]
EmptyEnv == [n \in Names |-> Nil]
Keys(env) == {n \in Names : env[n] # Nil}

Assignment == [name : Names, value : Values]

(* What the three parsers leave of a command line: the directory of its    *)
(* last `cd` if that one is valid, and its exports and unsets in order.    *)
Update == [cd : Dirs \cup {Nil, Unreadable}, exports : Seq(Assignment), unsets : Seq(Names)]

(* A new name is refused at the cap, a name already set is not.            *)
AdmitsOneTooMany(env, n) == Cardinality(Keys(env)) <= MaxEnvVars \/ n \in Keys(env)
Admits(env, n) == Cardinality(Keys(env)) < MaxEnvVars \/ n \in Keys(env)

Export(env, a) ==
  IF Admits(env, a.name) THEN [env EXCEPT ![a.name] = a.value] ELSE env

Unset(env, n) == [env EXCEPT ![n] = Nil]

(* A session's cwd and env after an update: cd, then every export, then    *)
(* every unset.                                                            *)
After(s, u) ==
  [cwd |-> IF u.cd = Nil THEN s.cwd ELSE u.cd,
   env |-> FoldLeft(Unset, FoldLeft(Export, s.env, u.exports), u.unsets)]
=============================================================================
