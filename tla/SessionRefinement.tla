-------------------------- MODULE SessionRefinement --------------------------
(***************************************************************************)
(* The session store with its locks, steps and janitor implements          *)
(* SessionRegistry.                                                        *)
(***************************************************************************)
EXTENDS Sessions

(* The refinement mapping.  An update takes effect in the store the moment *)
(* it gets the lock: what the lock's holder has still to write counts as   *)
(* written, so that its single writes are stuttering steps.                *)
Merged(id) ==
  LET writing == {t \in Threads : lock = t /\ call[t].sid = id}
      s == [cwd |-> object[id].cwd, env |-> object[id].env]
  IN  IF writing = {} THEN s ELSE After(s, call[CHOOSE t \in writing : TRUE].cmd)

Registry == INSTANCE SessionRegistry WITH
  live <- sessions,
  gone <- Removed,
  state <- [id \in Ids |-> IF id \in sessions \cup Removed THEN Merged(id) ELSE Nil],
  view <- [t \in Threads |-> call[t].view]

(* The locked, step-by-step store is a store whose reads and updates are   *)
(* atomic: no update is lost or half seen, and none reaches a removed      *)
(* session.                                                                *)
RefinesRegistry == Registry!Spec
=============================================================================
