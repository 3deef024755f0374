------------------------------ MODULE Sessions ------------------------------
(***************************************************************************)
(* The session store (sessions.py) and the session tools that drive it     *)
(* (server.py), called by the threads of the tool pool, next to the        *)
(* janitor thread.  `_LOCK` protects the store: a critical section that    *)
(* nobody can see into is one action (enabled while the lock is free), the *)
(* one of `apply_state_update` is one action per write, because the        *)
(* session object it edits is shared by reference.                         *)
(***************************************************************************)
EXTENDS SessionState

CONSTANTS
  Threads,       \* threads of the tool pool
  Ids,           \* session ids uuid4 will draw, all different
  StartDirs,     \* directories callers create sessions in
  Commands,      \* the commands callers send, as parsed updates
  IdleTimeout,   \* BASH_MCP_SESSION_IDLE_TIMEOUT_S, 0 disables the janitor
  MaxClock,      \* bound on the clock
  SpawnMayFail   \* whether Thread.start may raise (no more threads)

ASSUME TimeAssumption == IdleTimeout \in Nat /\ MaxClock \in Nat
ASSUME CommandsAssumption == Commands \subseteq Update /\ StartDirs \subseteq Dirs
ASSUME IdsAssumption == Nil \notin Ids /\ Nil \notin Commands /\ Nil \notin Threads
ASSUME SpawnAssumption == SpawnMayFail \in BOOLEAN

VARIABLES
  sessions,   \* keys of _SESSIONS
  object,     \* the SessionState of each id, which outlives its key
  allocated,  \* ids drawn so far
  lock,       \* who holds _LOCK across actions, or Nil
  started,    \* _JANITOR_STARTED
  janitors,   \* janitor threads running
  janitor,    \* locals of the janitor loop
  pc, call,   \* where each thread is, and its locals
  clock,      \* time.time()
  destroyed   \* per id: its DESTROYED reports, the env vars they say were
              \* freed, and whether the entry of an eviction was lost

vars == <<sessions, object, allocated, lock, started, janitors, janitor, pc,
          call, clock, destroyed>>

Session == [cwd : Dirs, env : Env, used : 0 .. MaxClock]
View == [cwd : Dirs, env : Env]
Call == [sid : Ids \cup {Nil}, cmd : Update \cup {Nil}, view : View \cup {Nil},
         ok : BOOLEAN, popped : BOOLEAN]
NoCall == [sid |-> Nil, cmd |-> Nil, view |-> Nil, ok |-> FALSE, popped |-> FALSE]
Labels == {"ready", "insert", "exec", "check", "apply", "update", "ensure",
           "start", "reget", "pop", "report"}

Init ==
  /\ sessions = {} /\ allocated = {} /\ lock = Nil
  /\ object = [id \in Ids |-> Nil]
  /\ started = FALSE /\ janitors = 0
  /\ janitor = [at |-> "sleep", cutoff |-> 0, evicted |-> {}]
  /\ pc = [t \in Threads |-> "ready"] /\ call = [t \in Threads |-> NoCall]
  /\ clock = 0
  /\ destroyed = [id \in Ids |-> [reports |-> 0, freed |-> 0, lost |-> FALSE]]

store == <<sessions, object, allocated>>
daemon == <<started, janitors, janitor>>

Goto(t, label) == pc' = [pc EXCEPT ![t] = label]

Finish(t) == Goto(t, "ready") /\ call' = [call EXCEPT ![t] = NoCall]

Free == lock = Nil
Size(id) == Cardinality(Keys(object[id].env))

-----------------------------------------------------------------------------
(* bash_mcp_session_list, the count in bash_mcp_status, and a run or a     *)
(* destroy of an unknown id: a look at the store under the lock.           *)

ReadOnly(t) == pc[t] = "ready" /\ Free /\ UNCHANGED vars

-----------------------------------------------------------------------------
(* bash_mcp_session_create: build the object, register it under the lock,  *)
(* then make sure the janitor runs.                                        *)

CreateBuild(t, id, dir) ==
  /\ pc[t] = "ready" /\ id \notin allocated
  /\ allocated' = allocated \cup {id}
  /\ object' = [object EXCEPT ![id] = [cwd |-> dir, env |-> EmptyEnv, used |-> clock]]
  /\ call' = [call EXCEPT ![t].sid = id]
  /\ Goto(t, "insert")
  /\ UNCHANGED <<sessions, lock, daemon, clock, destroyed>>

CreateInsert(t) ==
  /\ pc[t] = "insert" /\ Free
  /\ sessions' = sessions \cup {call[t].sid}
  /\ Goto(t, "ensure")
  /\ UNCHANGED <<object, allocated, lock, daemon, call, clock, destroyed>>

-----------------------------------------------------------------------------
(* bash_mcp_session_run: snapshot, refuse or execute, look again, apply.   *)

RunSnapshot(t, id, c) ==
  /\ pc[t] = "ready" /\ Free /\ id \in sessions
  /\ call' = [call EXCEPT ![t].sid = id, ![t].cmd = c,
                 ![t].view = [cwd |-> object[id].cwd, env |-> object[id].env]]
  /\ Goto(t, "exec")
  /\ UNCHANGED <<store, lock, daemon, clock, destroyed>>

(* Rejected, denied, or executor.run raised: the session is left alone.    *)
RunRefused(t) ==
  /\ pc[t] = "exec"
  /\ Finish(t)
  /\ UNCHANGED <<store, lock, daemon, clock, destroyed>>

RunExecute(t) ==
  /\ pc[t] = "exec"
  /\ \E ok \in BOOLEAN : call' = [call EXCEPT ![t].ok = ok]
  /\ Goto(t, "check")
  /\ UNCHANGED <<store, lock, daemon, clock, destroyed>>

RunCheck(t) ==
  /\ pc[t] = "check" /\ Free
  /\ IF call[t].sid \in sessions
       THEN Goto(t, "apply") /\ UNCHANGED call
       ELSE Finish(t)
  /\ UNCHANGED <<store, lock, daemon, clock, destroyed>>

RunReply(t) ==
  /\ pc[t] = "reget" /\ Free
  /\ Finish(t)
  /\ UNCHANGED <<store, lock, daemon, clock, destroyed>>

-----------------------------------------------------------------------------
(* apply_state_update *)

Touch(id) == object' = [object EXCEPT ![id].used = clock]

ApplyFailedCommand(t) ==
  /\ pc[t] = "apply" /\ ~call[t].ok /\ Free
  /\ IF call[t].sid \in sessions THEN Touch(call[t].sid) ELSE UNCHANGED object
  /\ Goto(t, "ensure")
  /\ UNCHANGED <<sessions, allocated, lock, daemon, call, clock, destroyed>>

ApplyToMissing(t) ==
  /\ pc[t] = "apply" /\ call[t].ok /\ Free /\ call[t].sid \notin sessions
  /\ Goto(t, "reget")
  /\ UNCHANGED <<store, lock, daemon, call, clock, destroyed>>

(* A bug: the session popped since the check is edited through a stale     *)
(* reference.                                                              *)
ApplyCdUnchecked(t) ==
  /\ pc[t] = "apply" /\ call[t].ok /\ Free
  /\ lock' = t
  /\ IF call[t].cmd.cd = Nil
       THEN UNCHANGED object
       ELSE object' = [object EXCEPT ![call[t].sid].cwd = call[t].cmd.cd]
  /\ Goto(t, "update")
  /\ UNCHANGED <<sessions, allocated, daemon, call, clock, destroyed>>

(* A bug: an invalid target is stored.                                     *)
ApplyCdInvalid(t) ==
  /\ pc[t] = "apply" /\ call[t].ok /\ Free /\ call[t].sid \in sessions
  /\ lock' = t
  /\ object' = [object EXCEPT ![call[t].sid].cwd = call[t].cmd.cd]
  /\ Goto(t, "update")
  /\ UNCHANGED <<sessions, allocated, daemon, call, clock, destroyed>>

(* A bug: the update starts from the snapshot the command ran with.        *)
ApplyCdToSnapshot(t) ==
  /\ pc[t] = "apply" /\ call[t].ok /\ Free /\ call[t].sid \in sessions
  /\ lock' = t
  /\ object' = [object EXCEPT ![call[t].sid].env = call[t].view.env]
  /\ Goto(t, "update")
  /\ UNCHANGED <<sessions, allocated, daemon, call, clock, destroyed>>

ApplyCd(t) ==
  /\ pc[t] = "apply" /\ call[t].ok /\ Free /\ call[t].sid \in sessions
  /\ call[t].cmd.cd # Unreadable
  /\ lock' = t
  /\ IF call[t].cmd.cd = Nil
       THEN UNCHANGED object
       ELSE object' = [object EXCEPT ![call[t].sid].cwd = call[t].cmd.cd]
  /\ Goto(t, "update")
  /\ UNCHANGED <<sessions, allocated, daemon, call, clock, destroyed>>

(* The look for a project allowlist in the target raises PermissionError,  *)
(* which nothing catches: the lock is released, the call fails.            *)
ApplyCdRaises(t) ==
  /\ pc[t] = "apply" /\ call[t].ok /\ Free /\ call[t].sid \in sessions
  /\ call[t].cmd.cd = Unreadable
  /\ Finish(t)
  /\ UNCHANGED <<store, lock, daemon, clock, destroyed>>

ApplyExport(t) ==
  /\ pc[t] = "update" /\ call[t].cmd.exports # <<>>
  /\ object' = [object EXCEPT ![call[t].sid].env =
                  Export(object[call[t].sid].env, Head(call[t].cmd.exports))]
  /\ call' = [call EXCEPT ![t].cmd.exports = Tail(call[t].cmd.exports)]
  /\ UNCHANGED <<sessions, allocated, lock, daemon, pc, clock, destroyed>>

ApplyUnset(t) ==
  /\ pc[t] = "update" /\ call[t].cmd.exports = <<>> /\ call[t].cmd.unsets # <<>>
  /\ object' = [object EXCEPT ![call[t].sid].env =
                  Unset(object[call[t].sid].env, Head(call[t].cmd.unsets))]
  /\ call' = [call EXCEPT ![t].cmd.unsets = Tail(call[t].cmd.unsets)]
  /\ UNCHANGED <<sessions, allocated, lock, daemon, pc, clock, destroyed>>

ApplyDone(t) ==
  /\ pc[t] = "update" /\ call[t].cmd.exports = <<>> /\ call[t].cmd.unsets = <<>>
  /\ Touch(call[t].sid)
  /\ lock' = Nil
  /\ Goto(t, "ensure")
  /\ UNCHANGED <<sessions, allocated, daemon, call, clock, destroyed>>

-----------------------------------------------------------------------------
(* _ensure_janitor, called last by create and by an update: an unlocked    *)
(* look at the flag, then a second one under _JANITOR_LOCK.                *)

AfterEnsure(t) ==
  IF call[t].cmd = Nil THEN Finish(t) ELSE Goto(t, "reget") /\ UNCHANGED call

EnsureCheck(t) ==
  /\ pc[t] = "ensure"
  /\ IF IdleTimeout = 0 \/ started
       THEN AfterEnsure(t)
       ELSE Goto(t, "start") /\ UNCHANGED call
  /\ UNCHANGED <<store, lock, daemon, clock, destroyed>>

(* A bug: who finds the flag set waits until the janitor is up.            *)
EnsureStartedWaits(t) ==
  /\ pc[t] = "start" /\ started /\ janitors > 0
  /\ AfterEnsure(t)
  /\ UNCHANGED <<store, lock, daemon, clock, destroyed>>

EnsureStarted(t) ==
  /\ pc[t] = "start" /\ started
  /\ AfterEnsure(t)
  /\ UNCHANGED <<store, lock, daemon, clock, destroyed>>

(* A bug: no second look at the flag under _JANITOR_LOCK.                  *)
EnsureStartAgain(t) ==
  /\ pc[t] = "start"
  /\ started' = TRUE /\ janitors' = janitors + 1
  /\ AfterEnsure(t)
  /\ UNCHANGED <<store, lock, janitor, clock, destroyed>>

EnsureStart(t) ==
  /\ pc[t] = "start" /\ ~started
  /\ started' = TRUE /\ janitors' = janitors + 1
  /\ AfterEnsure(t)
  /\ UNCHANGED <<store, lock, janitor, clock, destroyed>>

(* t.start() raises after the flag was set: the tool call fails.           *)
EnsureStartFails(t) ==
  /\ pc[t] = "start" /\ ~started /\ SpawnMayFail
  /\ started' = TRUE
  /\ Finish(t)
  /\ UNCHANGED <<store, lock, janitors, janitor, clock, destroyed>>

-----------------------------------------------------------------------------
(* bash_mcp_session_destroy: look the session up, pop it, report.          *)

DestroyLookup(t, id) ==
  /\ pc[t] = "ready" /\ Free /\ id \in sessions
  /\ call' = [call EXCEPT ![t].sid = id]
  /\ Goto(t, "pop")
  /\ UNCHANGED <<store, lock, daemon, clock, destroyed>>

DestroyPop(t) ==
  /\ pc[t] = "pop" /\ Free
  /\ sessions' = sessions \ {call[t].sid}
  /\ call' = [call EXCEPT ![t].popped = call[t].sid \in sessions]
  /\ Goto(t, "report")
  /\ UNCHANGED <<object, allocated, lock, daemon, clock, destroyed>>

Report(id, freed) ==
  destroyed' = [destroyed EXCEPT ![id].reports = @ + 1, ![id].freed = @ + freed]

(* A bug: the variables are counted on the session found before the pop.   *)
DestroyReportFound(t) ==
  /\ pc[t] = "report"
  /\ Report(call[t].sid, Size(call[t].sid))
  /\ Finish(t)
  /\ UNCHANGED <<store, lock, daemon, clock>>

DestroyReport(t) ==
  /\ pc[t] = "report"
  /\ Report(call[t].sid, IF call[t].popped THEN Size(call[t].sid) ELSE 0)
  /\ Finish(t)
  /\ UNCHANGED <<store, lock, daemon, clock>>

-----------------------------------------------------------------------------
(* _janitor_loop and _evict_idle: the cutoff is computed before the lock   *)
(* is taken, the evictions are audited after it is released.               *)

(* A bug: the cutoff is inclusive.                                         *)
StaleInclusive == {id \in sessions : object[id].used <= janitor.cutoff}
Stale == {id \in sessions : object[id].used < janitor.cutoff}

JanitorWake ==
  /\ janitors > 0 /\ janitor.at = "sleep"
  /\ janitor' = [janitor EXCEPT !.at = "sweep", !.cutoff = clock - IdleTimeout]
  /\ UNCHANGED <<store, lock, started, janitors, pc, call, clock, destroyed>>

(* A bug: an eviction that frees nothing is not reported.                  *)
JanitorSweepSilent ==
  /\ janitor.at = "sweep" /\ Free
  /\ sessions' = sessions \ Stale
  /\ janitor' = [at |-> "audit", cutoff |-> 0,
                 evicted |-> {<<id, Size(id)>> : id \in {i \in Stale : Size(i) > 0}}]
  /\ UNCHANGED <<object, allocated, lock, started, janitors, pc, call, clock, destroyed>>

JanitorSweep ==
  /\ janitor.at = "sweep" /\ Free
  /\ sessions' = sessions \ Stale
  /\ janitor' = [at |-> "audit", cutoff |-> 0,
                 evicted |-> {<<id, Size(id)>> : id \in Stale}]
  /\ UNCHANGED <<object, allocated, lock, started, janitors, pc, call, clock, destroyed>>

JanitorAudit ==
  /\ janitor.at = "audit"
  /\ \E e \in janitor.evicted :
       /\ Report(e[1], e[2])
       /\ janitor' = [janitor EXCEPT !.evicted = @ \ {e}]
  /\ UNCHANGED <<store, lock, started, janitors, pc, call, clock>>

(* The entry cannot be written: "audit is best-effort", nobody learns of   *)
(* the eviction.                                                           *)
JanitorAuditFails ==
  /\ janitor.at = "audit"
  /\ \E e \in janitor.evicted :
       /\ destroyed' = [destroyed EXCEPT ![e[1]].lost = TRUE]
       /\ janitor' = [janitor EXCEPT !.evicted = @ \ {e}]
  /\ UNCHANGED <<store, lock, started, janitors, pc, call, clock>>

(* A bug: the loop ends with the first sweep.                              *)
JanitorSleepLast ==
  /\ janitor.at = "audit" /\ janitor.evicted = {}
  /\ janitor' = [janitor EXCEPT !.at = "ended"]
  /\ UNCHANGED <<store, lock, started, janitors, pc, call, clock, destroyed>>

JanitorSleep ==
  /\ janitor.at = "audit" /\ janitor.evicted = {}
  /\ janitor' = [janitor EXCEPT !.at = "sleep"]
  /\ UNCHANGED <<store, lock, started, janitors, pc, call, clock, destroyed>>

Tick ==
  /\ clock < MaxClock
  /\ clock' = clock + 1
  /\ UNCHANGED <<store, lock, daemon, pc, call, destroyed>>
-----------------------------------------------------------------------------
Begin(t) ==
  \/ ReadOnly(t)
  \/ \E id \in Ids, dir \in StartDirs : CreateBuild(t, id, dir)
  \/ \E id \in Ids, c \in Commands : RunSnapshot(t, id, c)
  \/ \E id \in Ids : DestroyLookup(t, id)

Continue(t) ==
  \/ CreateInsert(t)
  \/ RunRefused(t) \/ RunExecute(t) \/ RunCheck(t) \/ RunReply(t)
  \/ ApplyFailedCommand(t) \/ ApplyToMissing(t) \/ ApplyCd(t) \/ ApplyCdRaises(t)
  \/ ApplyExport(t) \/ ApplyUnset(t) \/ ApplyDone(t)
  \/ EnsureCheck(t) \/ EnsureStarted(t) \/ EnsureStart(t) \/ EnsureStartFails(t)
  \/ DestroyPop(t) \/ DestroyReport(t)

Janitor ==
  JanitorWake \/ JanitorSweep \/ JanitorAudit \/ JanitorAuditFails \/ JanitorSleep

Next == (\E t \in Threads : Begin(t) \/ Continue(t)) \/ Janitor \/ Tick

Spec == Init /\ [][Next]_vars

(* A call in progress goes on, the janitor goes on, and whoever waits for  *)
(* a lock that keeps being released gets it.                               *)
FairSpec ==
  /\ Spec
  /\ \A t \in Threads : SF_vars(Continue(t))
  /\ SF_vars(Janitor)
-----------------------------------------------------------------------------
(* Every value stays in its range; in particular a session's cwd is always *)
(* a directory that was validated, whatever `cd` a command contained.      *)
TypeOK ==
  /\ sessions \subseteq allocated /\ allocated \subseteq Ids
  /\ object \in [Ids -> Session \cup {Nil}]
  /\ \A id \in allocated : object[id] \in Session
  /\ lock \in Threads \cup {Nil}
  /\ started \in BOOLEAN /\ janitors \in Nat
  /\ janitor \in [at : {"sleep", "sweep", "audit"}, cutoff : Int,
                 evicted : SUBSET (Ids \X Nat)]
  /\ pc \in [Threads -> Labels] /\ call \in [Threads -> Call]
  /\ clock \in 0 .. MaxClock
  /\ destroyed \in [Ids -> [reports : Nat, freed : Nat, lost : BOOLEAN]]

(* No sequence of runs, of any number of threads, fills a session beyond   *)
(* the cap: the check and the write are under one lock, against the live   *)
(* environment and not against the snapshot the command ran with.          *)
EnvWithinCap ==
  \A id \in allocated :
    /\ IsFiniteSet(Keys(object[id].env))
    /\ Size(id) <= MaxEnvVars

(* However many threads find the janitor not started, one janitor runs.    *)
OneJanitor == janitors <= 1

Removed ==
  {id \in allocated \ sessions : ~ \E t \in Threads : pc[t] = "insert" /\ call[t].sid = id}

Popper(t, id) == pc[t] = "report" /\ call[t].sid = id /\ call[t].popped
Evicted(id) == {e \in janitor.evicted : e[1] = id}

(* A session is reported DESTROYED only when it is gone, and whoever took  *)
(* it out of the store, be it a destroy call or the janitor, has reported  *)
(* it or is about to.  Only an eviction whose own audit entry could not be *)
(* written goes unreported; no destroy call does.                          *)
ReportsMatchRemovals ==
  /\ \A id \in Ids : destroyed[id].reports > 0 => id \in Removed
  /\ \A id \in Removed :
       \/ destroyed[id].reports > 0
       \/ \E t \in Threads : Popper(t, id)
       \/ Evicted(id) # {}
       \/ destroyed[id].lost

(* However many destroy calls and sweeps race for a session, together they *)
(* report its variables freed once, and all of them: only who popped it    *)
(* counts them, and nobody edits them after the pop.  They are reported    *)
(* not at all while that report is due, or if it is an eviction's that     *)
(* could not be written, and then no late destroy call makes up for it.    *)
FreedOnce ==
  \A id \in Removed :
    \/ destroyed[id].freed = Size(id)
    \/ /\ destroyed[id].freed = 0
       /\ (\E t \in Threads : Popper(t, id)) \/ Evicted(id) # {} \/ destroyed[id].lost

(* A session leaves the store because a destroy call pops it, or because   *)
(* it has been idle for longer than the timeout at that very moment, even  *)
(* though the janitor fixed its cutoff before it got the lock.             *)
DestroyedOrIdle ==
  \A id \in sessions \ sessions' :
    \/ clock - object[id].used > IdleTimeout
    \/ \E t \in Threads : pc[t] = "pop" /\ pc'[t] = "report" /\ call[t].sid = id
LeavesDestroyedOrIdle == [][DestroyedOrIdle]_vars

(* A command that outlives its session neither brings it back nor edits    *)
(* the object it left behind: apply_state_update looks again under the     *)
(* lock ("no-op if session is gone").                                      *)
RemovedUntouched == \A id \in Removed : id \in Removed' /\ object'[id] = object[id]
RemovedIsFinal == [][RemovedUntouched]_vars

(* Two callers are never told that they destroyed the same session: the    *)
(* docstring of bash_mcp_session_destroy promises SESSION_NOT_FOUND for a  *)
(* missing one.                                                            *)
ReportedOnce == \A id \in Ids : destroyed[id].reports <= 1

(* Every call returns, whoever holds or wants the lock.                    *)
CallsReturn == \A t \in Threads : pc[t] # "ready" ~> pc[t] = "ready"

(* With a timeout set, a session that stays idle is evicted, also when its *)
(* create was the first call and had to start the janitor; unless that one *)
(* start failed, which no later call repeats.                              *)
NeverStarted == started /\ janitors = 0
IdleIsEvicted ==
  \A id \in Ids :
    id \in sessions /\ IdleTimeout > 0 /\ clock - object[id].used > IdleTimeout
      ~> \/ id \notin sessions \/ clock - object[id].used <= IdleTimeout
         \/ NeverStarted
=============================================================================
