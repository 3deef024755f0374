--------------------------- MODULE SessionRegistry ---------------------------
(***************************************************************************)
(* What the session store promises its callers, without locks, threads'    *)
(* steps or a janitor: a session is read at one instant, a successful      *)
(* command's cd, exports and unsets take effect at one later instant, as a *)
(* merge into whatever the session holds then, and a removed session       *)
(* neither changes nor comes back.                                         *)
(***************************************************************************)
EXTENDS SessionState

CONSTANTS Threads, Ids, Commands

VARIABLES
  live,   \* sessions that can be used
  gone,   \* sessions destroyed or evicted
  state,  \* cwd and env of every session ever created
  view    \* what each running command was given, Nil if the thread runs none

vars == <<live, gone, state, view>>

Init ==
  /\ live = {} /\ gone = {}
  /\ state = [id \in Ids |-> Nil]
  /\ view = [t \in Threads |-> Nil]

Create(id, dir) ==
  /\ id \notin live \cup gone
  /\ live' = live \cup {id}
  /\ state' = [state EXCEPT ![id] = [cwd |-> dir, env |-> EmptyEnv]]
  /\ UNCHANGED <<gone, view>>

Read(t, id) ==
  /\ id \in live
  /\ view' = [view EXCEPT ![t] = state[id]]
  /\ UNCHANGED <<live, gone, state>>

Forget(t) ==
  /\ view' = [view EXCEPT ![t] = Nil]
  /\ UNCHANGED <<live, gone, state>>

Merge(id, c) ==
  /\ id \in live /\ c.cd # Unreadable
  /\ state' = [state EXCEPT ![id] = After(state[id], c)]
  /\ UNCHANGED <<live, gone, view>>

Discard(S) ==
  /\ S \subseteq live
  /\ live' = live \ S
  /\ gone' = gone \cup S
  /\ UNCHANGED <<state, view>>

Next ==
  \/ \E id \in Ids, dir \in Dirs : Create(id, dir)
  \/ \E t \in Threads, id \in Ids : Read(t, id)
  \/ \E t \in Threads : Forget(t)
  \/ \E id \in Ids, c \in Commands : Merge(id, c)
  \/ \E S \in SUBSET Ids : Discard(S)

Spec == Init /\ [][Next]_vars
=============================================================================
