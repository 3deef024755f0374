--------------------------- MODULE SessionsProofs ---------------------------
(***************************************************************************)
(* Proofs about Sessions, for any threads, ids, commands, cap and timeout. *)
(***************************************************************************)
EXTENDS Sessions, FiniteSetTheorems, SequenceTheorems, TLAPS

(* A call names an allocated session, and one that runs a command has it.  *)
CallInv ==
  \A t \in Threads :
    /\ pc[t] # "ready" => call[t].sid \in allocated
    /\ pc[t] \in {"exec", "check", "apply", "update"} => call[t].cmd \in Update

(* Only the thread in the middle of an update holds the lock, so nobody    *)
(* removes the session it edits.                                           *)
LockInv ==
  /\ \A t \in Threads : pc[t] = "update" <=> lock = t
  /\ \A t \in Threads : pc[t] = "update" => call[t].sid \in sessions

(* A session that is not registered yet is known to its creator alone.     *)
InsertInv ==
  \A t \in Threads : pc[t] = "insert" =>
    /\ call[t].sid \notin sessions
    /\ \A u \in Threads \ {t} : pc[u] # "ready" => call[u].sid # call[t].sid

JanitorInv ==
  /\ janitors = 0 \/ (started /\ janitors = 1)
  /\ janitor.at = "sweep" => janitor.cutoff <= clock - IdleTimeout

IInv == TypeOK /\ CallInv /\ LockInv /\ InsertInv /\ EnvWithinCap /\ JanitorInv

-----------------------------------------------------------------------------
(* An export keeps an environment an environment, and never takes it past  *)
(* the cap.                                                                *)
LEMMA ExportKeepsCap ==
  ASSUME NEW env \in Env, NEW a \in Assignment,
         IsFiniteSet(Keys(env)), Cardinality(Keys(env)) <= MaxEnvVars
  PROVE  /\ Export(env, a) \in Env
         /\ IsFiniteSet(Keys(Export(env, a)))
         /\ Cardinality(Keys(Export(env, a))) <= MaxEnvVars
<1> DEFINE n == a.name
           new == [env EXCEPT ![n] = a.value]
<1>1. n \in Names /\ a.value \in Values /\ a.value # Nil
  BY NilAssumption DEF Assignment
<1>2. CASE ~Admits(env, n)
  BY <1>2 DEF Export
<1>3. CASE Admits(env, n)
  <2>1. Export(env, a) = new
    BY <1>3 DEF Export
  <2>2. new \in Env
    BY <1>1 DEF Env
  <2>3. Keys(new) = Keys(env) \cup {n}
    BY <1>1 DEF Env, Keys
  <2>4. /\ IsFiniteSet(Keys(env) \cup {n})
        /\ Cardinality(Keys(env) \cup {n}) =
             IF n \in Keys(env) THEN Cardinality(Keys(env)) ELSE Cardinality(Keys(env)) + 1
    BY FS_AddElement
  <2>5. Cardinality(Keys(env)) \in Nat
    BY FS_CardinalityType
  <2>6. Cardinality(Keys(env)) < MaxEnvVars \/ n \in Keys(env)
    BY <1>3 DEF Admits
  <2>7. Cardinality(Keys(env) \cup {n}) <= MaxEnvVars
    BY <2>4, <2>5, <2>6, CapAssumption
  <2>8. QED
    BY <2>1, <2>2, <2>3, <2>4, <2>7
<1>4. QED
  BY <1>2, <1>3

(* So does an unset.                                                       *)
LEMMA UnsetKeepsCap ==
  ASSUME NEW env \in Env, NEW n \in Names,
         IsFiniteSet(Keys(env)), Cardinality(Keys(env)) <= MaxEnvVars
  PROVE  /\ Unset(env, n) \in Env
         /\ IsFiniteSet(Keys(Unset(env, n)))
         /\ Cardinality(Keys(Unset(env, n))) <= MaxEnvVars
<1>1. Unset(env, n) \in Env
  BY DEF Unset, Env
<1>2. Keys(Unset(env, n)) \subseteq Keys(env)
  BY DEF Unset, Keys, Env
<1>3. /\ IsFiniteSet(Keys(Unset(env, n)))
      /\ Cardinality(Keys(Unset(env, n))) <= Cardinality(Keys(env))
  BY <1>2, FS_Subset
<1>4. Cardinality(Keys(Unset(env, n))) \in Nat /\ Cardinality(Keys(env)) \in Nat
  BY <1>3, FS_CardinalityType
<1>5. QED
  BY <1>1, <1>3, <1>4, CapAssumption

(* A fresh session has no variables.                                       *)
LEMMA EmptyEnvFits ==
  EmptyEnv \in Env /\ IsFiniteSet(Keys(EmptyEnv)) /\ Cardinality(Keys(EmptyEnv)) <= MaxEnvVars
<1>1. EmptyEnv \in Env
  BY DEF EmptyEnv, Env
<1>2. Keys(EmptyEnv) = {}
  BY DEF EmptyEnv, Keys
<1>3. QED
  BY <1>1, <1>2, FS_EmptySet, CapAssumption

-----------------------------------------------------------------------------
(* Shapes of the states a thread passes through.                           *)
LEMMA NoCallTyped == NoCall \in Call
  BY DEF NoCall, Call

LEMMA RestTyped ==
  ASSUME NEW c \in Update
  PROVE  /\ c.exports # <<>> => [c EXCEPT !.exports = Tail(c.exports)] \in Update
         /\ c.unsets # <<>> => [c EXCEPT !.unsets = Tail(c.unsets)] \in Update
  <1>1. c.exports # <<>> => Tail(c.exports) \in Seq(Assignment)
    BY DEF Update
  <1>2. c.unsets # <<>> => Tail(c.unsets) \in Seq(Names)
    BY DEF Update
  <1>3. QED
    BY <1>1, <1>2 DEF Update

LEMMA CmdTyped ==
  ASSUME NEW k \in Call, NEW c \in Update
  PROVE  /\ [k EXCEPT !.cmd = c] \in Call
         /\ [k EXCEPT !.cmd = c].cmd = c
         /\ [k EXCEPT !.cmd = c].sid = k.sid
  BY DEF Call

LEMMA PoppedTyped ==
  ASSUME NEW k \in Call, NEW b \in BOOLEAN
  PROVE  [k EXCEPT !.popped = b] \in Call
  BY DEF Call

LEMMA ObjectTyped ==
  ASSUME TypeOK, EnvWithinCap, NEW id \in allocated
  PROVE  /\ id \in Ids /\ object[id] \in Session
         /\ object[id].cwd \in Dirs /\ object[id].env \in Env /\ object[id].used \in 0 .. MaxClock
         /\ Size(id) \in Nat
  <1>1. id \in Ids /\ object[id] \in Session
    BY DEF TypeOK
  <1>2. Size(id) \in Nat
    BY FS_CardinalityType DEF EnvWithinCap, Size
  <1>3. QED
    BY <1>1, <1>2 DEF Session

LEMMA FinishTyped ==
  ASSUME TypeOK, NEW t \in Threads, Finish(t)
  PROVE  pc' \in [Threads -> Labels] /\ call' \in [Threads -> Call]
  BY NoCallTyped DEF TypeOK, Finish, Goto, Labels

LEMMA AfterEnsureTyped ==
  ASSUME TypeOK, NEW t \in Threads, AfterEnsure(t)
  PROVE  pc' \in [Threads -> Labels] /\ call' \in [Threads -> Call]
  BY FinishTyped DEF TypeOK, AfterEnsure, Goto, Labels

LEMMA ReportTyped ==
  ASSUME TypeOK, NEW id \in Ids, NEW freed \in Nat, Report(id, freed)
  PROVE  destroyed' \in [Ids -> [reports : Nat, freed : Nat, lost : BOOLEAN]]
  <1> DEFINE d == destroyed[id]
             new == [d EXCEPT !.reports = d.reports + 1, !.freed = d.freed + freed]
  <1>1. d \in [reports : Nat, freed : Nat, lost : BOOLEAN]
    BY DEF TypeOK
  <1>2. d.reports + 1 \in Nat /\ d.freed + freed \in Nat
    BY <1>1
  <1>3. new \in [reports : Nat, freed : Nat, lost : BOOLEAN]
    BY <1>1, <1>2
  <1>4. destroyed' = [destroyed EXCEPT ![id] = new]
    BY DEF Report, TypeOK
  <1>5. QED
    BY <1>3, <1>4 DEF TypeOK

LEMMA TypeStep ==
  ASSUME TypeOK, CallInv, LockInv, EnvWithinCap, Next
  PROVE  TypeOK'
<1>1. ASSUME NEW t \in Threads, NEW id \in Ids, NEW dir \in StartDirs, CreateBuild(t, id, dir)
      PROVE  TypeOK'
  <2>1. [cwd |-> dir, env |-> EmptyEnv, used |-> clock] \in Session
    BY EmptyEnvFits, CommandsAssumption DEF Session, TypeOK
  <2>2. object' \in [Ids -> Session \cup {Nil}] /\ \A i \in allocated' : object'[i] \in Session
    BY <1>1, <2>1 DEF CreateBuild, TypeOK
  <2>3. pc' \in [Threads -> Labels]
    BY <1>1 DEF CreateBuild, Goto, Labels, TypeOK
  <2>4. call' \in [Threads -> Call]
    BY <1>1 DEF CreateBuild, TypeOK, Call
  <2>5. QED
    BY <1>1, <2>2, <2>3, <2>4 DEF CreateBuild, TypeOK, daemon
<1>2. ASSUME NEW t \in Threads, CreateInsert(t)
      PROVE  TypeOK'
  BY <1>2 DEF CreateInsert, Goto, Labels, TypeOK, CallInv, daemon
<1>3. ASSUME NEW t \in Threads, NEW id \in Ids, NEW c \in Commands, RunSnapshot(t, id, c)
      PROVE  TypeOK'
  <2>1. id \in allocated
    BY <1>3 DEF RunSnapshot, TypeOK
  <2>2. [cwd |-> object[id].cwd, env |-> object[id].env] \in View
    BY <2>1, ObjectTyped DEF View
  <2>3. call' \in [Threads -> Call]
    <3> DEFINE v == [cwd |-> object[id].cwd, env |-> object[id].env]
               new == [call[t] EXCEPT !.sid = id, !.cmd = c, !.view = v]
    <3> HIDE DEF v
    <3>1. v \in View /\ c \in Update
      BY <2>2, CommandsAssumption DEF v
    <3>2. call' = [call EXCEPT ![t] = new]
      BY <1>3 DEF RunSnapshot, TypeOK, v
    <3>3. call[t] \in Call
      BY DEF TypeOK
    <3>4. new \in Call
      BY <3>1, <3>3 DEF Call
    <3>5. QED
      BY <3>2, <3>4 DEF TypeOK
  <2>4. QED
    BY <1>3, <2>3 DEF RunSnapshot, Goto, Labels, TypeOK, store, daemon
<1>4. ASSUME NEW t \in Threads, RunRefused(t) \/ ApplyCdRaises(t) \/ RunReply(t)
      PROVE  TypeOK'
  BY <1>4, FinishTyped DEF RunRefused, ApplyCdRaises, RunReply, TypeOK, store, daemon
<1>5. ASSUME NEW t \in Threads, RunExecute(t)
      PROVE  TypeOK'
  <2>1. call' \in [Threads -> Call]
    <3>1. PICK ok \in BOOLEAN : call' = [call EXCEPT ![t].ok = ok]
      BY <1>5 DEF RunExecute
    <3>2. call[t] \in Call
      BY DEF TypeOK
    <3>3. [call[t] EXCEPT !.ok = ok] \in Call
      BY <3>2 DEF Call
    <3>4. QED
      BY <3>1, <3>3 DEF TypeOK
  <2>2. QED
    BY <1>5, <2>1 DEF RunExecute, Goto, Labels, TypeOK, store, daemon
<1>6. ASSUME NEW t \in Threads, RunCheck(t)
      PROVE  TypeOK'
  <2>1. pc' \in [Threads -> Labels] /\ call' \in [Threads -> Call]
    BY <1>6, FinishTyped DEF RunCheck, Goto, Labels, TypeOK
  <2>2. QED
    BY <1>6, <2>1 DEF RunCheck, TypeOK, store, daemon
<1>7. ASSUME NEW t \in Threads, NEW id \in allocated, Touch(id)
      PROVE  object' \in [Ids -> Session \cup {Nil}] /\ \A i \in allocated : object'[i] \in Session
  BY <1>7 DEF Touch, TypeOK, Session
<1>8. ASSUME NEW t \in Threads, ApplyFailedCommand(t)
      PROVE  TypeOK'
  <2>1. object' \in [Ids -> Session \cup {Nil}] /\ \A i \in allocated : object'[i] \in Session
    BY <1>7, <1>8 DEF ApplyFailedCommand, TypeOK, CallInv
  <2>2. QED
    BY <1>8, <2>1 DEF ApplyFailedCommand, Goto, Labels, TypeOK, daemon
<1>9. ASSUME NEW t \in Threads, ApplyToMissing(t)
      PROVE  TypeOK'
  BY <1>9 DEF ApplyToMissing, Goto, Labels, TypeOK, store, daemon
<1>10. ASSUME NEW t \in Threads, ApplyCd(t)
      PROVE  TypeOK'
  <2>1. call[t].cmd \in Update /\ call[t].sid \in allocated
    BY <1>10 DEF ApplyCd, CallInv
  <2>2. object' \in [Ids -> Session \cup {Nil}] /\ \A i \in allocated : object'[i] \in Session
    <3>1. CASE call[t].cmd.cd = Nil
      BY <1>10, <3>1 DEF ApplyCd, TypeOK
    <3>2. CASE call[t].cmd.cd # Nil
      <4>1. call[t].cmd.cd \in Dirs
        BY <1>10, <2>1, <3>2 DEF ApplyCd, Update
      <4>2. object' = [object EXCEPT ![call[t].sid].cwd = call[t].cmd.cd]
        BY <1>10, <3>2 DEF ApplyCd
      <4>3. QED
        BY <2>1, <4>1, <4>2 DEF Session, TypeOK
    <3>3. QED
      BY <3>1, <3>2
  <2>3. QED
    BY <1>10, <2>2 DEF ApplyCd, Goto, Labels, TypeOK, daemon
<1>11. ASSUME NEW t \in Threads, ApplyExport(t)
      PROVE  TypeOK'
  <2>1. call[t].cmd \in Update /\ call[t].sid \in allocated
    BY <1>11 DEF ApplyExport, CallInv
  <2>2. Head(call[t].cmd.exports) \in Assignment /\ Tail(call[t].cmd.exports) \in Seq(Assignment)
    BY <1>11, <2>1 DEF ApplyExport, Update
  <2>3. Export(object[call[t].sid].env, Head(call[t].cmd.exports)) \in Env
    BY <2>1, <2>2, ObjectTyped, ExportKeepsCap DEF EnvWithinCap, Size
  <2>4. object' \in [Ids -> Session \cup {Nil}] /\ \A i \in allocated : object'[i] \in Session
    BY <1>11, <2>1, <2>3 DEF ApplyExport, Session, TypeOK
  <2>5. call' \in [Threads -> Call]
    <3> DEFINE rest == [call[t].cmd EXCEPT !.exports = Tail(call[t].cmd.exports)]
               new == [call[t] EXCEPT !.cmd = rest]
    <3>1. rest \in Update
      BY <2>1, <1>11, RestTyped DEF ApplyExport
    <3>2. call[t] \in Call
      BY DEF TypeOK
    <3>3. new \in Call
      BY <3>1, <3>2 DEF Call
    <3>4. call' = [call EXCEPT ![t] = new]
      BY <1>11 DEF ApplyExport, TypeOK
    <3>5. QED
      BY <3>3, <3>4 DEF TypeOK
  <2>6. QED
    BY <1>11, <2>4, <2>5 DEF ApplyExport, TypeOK, daemon
<1>12. ASSUME NEW t \in Threads, ApplyUnset(t)
      PROVE  TypeOK'
  <2>1. call[t].cmd \in Update /\ call[t].sid \in allocated
    BY <1>12 DEF ApplyUnset, CallInv
  <2>2. Head(call[t].cmd.unsets) \in Names /\ Tail(call[t].cmd.unsets) \in Seq(Names)
    BY <1>12, <2>1 DEF ApplyUnset, Update
  <2>3. Unset(object[call[t].sid].env, Head(call[t].cmd.unsets)) \in Env
    BY <2>1, <2>2, ObjectTyped, UnsetKeepsCap DEF EnvWithinCap, Size
  <2>4. object' \in [Ids -> Session \cup {Nil}] /\ \A i \in allocated : object'[i] \in Session
    BY <1>12, <2>1, <2>3 DEF ApplyUnset, Session, TypeOK
  <2>5. call' \in [Threads -> Call]
    <3> DEFINE rest == [call[t].cmd EXCEPT !.unsets = Tail(call[t].cmd.unsets)]
               new == [call[t] EXCEPT !.cmd = rest]
    <3>1. rest \in Update
      BY <2>1, <1>12, RestTyped DEF ApplyUnset
    <3>2. call[t] \in Call
      BY DEF TypeOK
    <3>3. new \in Call
      BY <3>1, <3>2 DEF Call
    <3>4. call' = [call EXCEPT ![t] = new]
      BY <1>12 DEF ApplyUnset, TypeOK
    <3>5. QED
      BY <3>3, <3>4 DEF TypeOK
  <2>6. QED
    BY <1>12, <2>4, <2>5 DEF ApplyUnset, TypeOK, daemon
<1>13. ASSUME NEW t \in Threads, ApplyDone(t)
      PROVE  TypeOK'
  <2>1. object' \in [Ids -> Session \cup {Nil}] /\ \A i \in allocated : object'[i] \in Session
    BY <1>7, <1>13 DEF ApplyDone, CallInv
  <2>2. QED
    BY <1>13, <2>1 DEF ApplyDone, Goto, Labels, TypeOK, daemon
<1>14. ASSUME NEW t \in Threads, EnsureCheck(t)
      PROVE  TypeOK'
  <2>1. pc' \in [Threads -> Labels] /\ call' \in [Threads -> Call]
    BY <1>14, AfterEnsureTyped DEF EnsureCheck, Goto, Labels, TypeOK
  <2>2. QED
    BY <1>14, <2>1 DEF EnsureCheck, TypeOK, store, daemon
<1>15. ASSUME NEW t \in Threads, EnsureStarted(t) \/ EnsureStart(t)
      PROVE  TypeOK'
  <2>1. pc' \in [Threads -> Labels] /\ call' \in [Threads -> Call]
    BY <1>15, AfterEnsureTyped DEF EnsureStarted, EnsureStart
  <2>2. started' \in BOOLEAN /\ janitors' \in Nat
    <3>1. CASE EnsureStarted(t)
      BY <3>1 DEF EnsureStarted, TypeOK, daemon
    <3>2. CASE EnsureStart(t)
      BY <3>2 DEF EnsureStart, TypeOK
    <3>3. QED
      BY <1>15, <3>1, <3>2
  <2>3. QED
    BY <1>15, <2>1, <2>2 DEF EnsureStarted, EnsureStart, TypeOK, store, daemon
<1>16. ASSUME NEW t \in Threads, EnsureStartFails(t)
      PROVE  TypeOK'
  BY <1>16, FinishTyped DEF EnsureStartFails, TypeOK, store
<1>17. ASSUME NEW t \in Threads, NEW id \in Ids, DestroyLookup(t, id)
      PROVE  TypeOK'
  <2>1. call' \in [Threads -> Call]
    BY <1>17 DEF DestroyLookup, TypeOK, Call
  <2>2. QED
    BY <1>17, <2>1 DEF DestroyLookup, Goto, Labels, TypeOK, store, daemon
<1>18. ASSUME NEW t \in Threads, DestroyPop(t)
      PROVE  TypeOK'
  <2>1. call' \in [Threads -> Call]
    <3>1. call[t] \in Call /\ (call[t].sid \in sessions) \in BOOLEAN
      BY DEF TypeOK
    <3>2. [call[t] EXCEPT !.popped = call[t].sid \in sessions] \in Call
      BY <3>1, PoppedTyped
    <3>3. call' = [call EXCEPT ![t] = [call[t] EXCEPT !.popped = call[t].sid \in sessions]]
      BY <1>18 DEF DestroyPop
    <3>4. QED
      BY <3>2, <3>3 DEF TypeOK
  <2>2. QED
    BY <1>18, <2>1 DEF DestroyPop, Goto, Labels, TypeOK, daemon
<1>19. ASSUME NEW t \in Threads, DestroyReport(t)
      PROVE  TypeOK'
  <2>1. call[t].sid \in allocated
    BY <1>19 DEF DestroyReport, CallInv
  <2>2. destroyed' \in [Ids -> [reports : Nat, freed : Nat, lost : BOOLEAN]]
    BY <1>19, <2>1, ObjectTyped, ReportTyped DEF DestroyReport
  <2>3. QED
    BY <1>19, <2>2, FinishTyped DEF DestroyReport, TypeOK, store, daemon
<1>20. CASE JanitorWake
  <2>1. janitor' \in [at : {"sleep", "sweep", "audit"}, cutoff : Int, evicted : SUBSET (Ids \X Nat)]
    <3>1. clock - IdleTimeout \in Int
      BY TimeAssumption DEF TypeOK
    <3>2. QED
      BY <1>20, <3>1 DEF JanitorWake, TypeOK
  <2>2. QED
    BY <1>20, <2>1 DEF JanitorWake, TypeOK, store
<1>21. CASE JanitorSweep
  <2>1. \A id \in Stale : id \in Ids /\ Size(id) \in Nat
    BY ObjectTyped DEF Stale, TypeOK
  <2>2. {<<id, Size(id)>> : id \in Stale} \in SUBSET (Ids \X Nat)
    BY <2>1
  <2>3. QED
    BY <1>21, <2>2 DEF JanitorSweep, TypeOK
<1>22. CASE JanitorAudit
  <2>1. PICK e \in janitor.evicted : /\ Report(e[1], e[2])
                                     /\ janitor' = [janitor EXCEPT !.evicted = @ \ {e}]
    BY <1>22 DEF JanitorAudit
  <2>2. e[1] \in Ids /\ e[2] \in Nat
    BY DEF TypeOK
  <2>3. destroyed' \in [Ids -> [reports : Nat, freed : Nat, lost : BOOLEAN]]
    BY <2>1, <2>2, ReportTyped
  <2>4. QED
    BY <1>22, <2>1, <2>3 DEF JanitorAudit, TypeOK, store
<1>23. CASE JanitorSleep
  BY <1>23 DEF JanitorSleep, TypeOK, store
<1>27. CASE JanitorAuditFails
  <2>1. PICK e \in janitor.evicted : /\ destroyed' = [destroyed EXCEPT ![e[1]].lost = TRUE]
                                     /\ janitor' = [janitor EXCEPT !.evicted = @ \ {e}]
    BY <1>27 DEF JanitorAuditFails
  <2>2. destroyed' \in [Ids -> [reports : Nat, freed : Nat, lost : BOOLEAN]]
    BY <2>1 DEF TypeOK
  <2>3. QED
    BY <1>27, <2>1, <2>2 DEF JanitorAuditFails, TypeOK, store
<1>24. CASE Tick
  BY <1>24, TimeAssumption DEF Tick, TypeOK, Session, store, daemon
<1>25. ASSUME NEW t \in Threads, ReadOnly(t)
       PROVE  TypeOK'
  BY <1>25 DEF ReadOnly, vars, TypeOK
<1>26. QED
  BY <1>1, <1>2, <1>3, <1>4, <1>5, <1>6, <1>8, <1>9, <1>10, <1>11, <1>12, <1>13, <1>14,
     <1>15, <1>16, <1>17, <1>18, <1>19, <1>20, <1>21, <1>22, <1>23, <1>24, <1>25,
     <1>27 DEF Next, Begin, Continue, Janitor

(* A call keeps its session and its command until it ends.                  *)
LEMMA CallStep ==
  ASSUME TypeOK, CallInv, Next
  PROVE  CallInv'
<1>1. ASSUME NEW t \in Threads, NEW id \in Ids, NEW dir \in StartDirs, CreateBuild(t, id, dir)
      PROVE  CallInv'
  BY <1>1 DEF CreateBuild, Goto, CallInv, TypeOK, Call
<1>2. ASSUME NEW t \in Threads, NEW id \in Ids, NEW c \in Commands, RunSnapshot(t, id, c)
      PROVE  CallInv'
  BY <1>2, CommandsAssumption DEF RunSnapshot, Goto, CallInv, TypeOK, Call, store
<1>3. ASSUME NEW t \in Threads, NEW id \in Ids, DestroyLookup(t, id)
      PROVE  CallInv'
  BY <1>3 DEF DestroyLookup, Goto, CallInv, TypeOK, Call, store
<1>4. ASSUME NEW t \in Threads,
             \/ CreateInsert(t) \/ ApplyFailedCommand(t) \/ ApplyToMissing(t) \/ ApplyCd(t)
             \/ ApplyDone(t)
      PROVE  CallInv'
  BY <1>4 DEF CreateInsert, ApplyFailedCommand, ApplyToMissing, ApplyCd, ApplyDone,
     Goto, CallInv, TypeOK, store
<1>5. ASSUME NEW t \in Threads,
             \/ RunRefused(t) \/ ApplyCdRaises(t) \/ RunReply(t) \/ DestroyReport(t)
             \/ EnsureStartFails(t)
      PROVE  CallInv'
  BY <1>5 DEF RunRefused, ApplyCdRaises, RunReply, DestroyReport, EnsureStartFails, Finish, Goto,
     CallInv, TypeOK, store
<1>6. ASSUME NEW t \in Threads, RunExecute(t)
      PROVE  CallInv'
  BY <1>6 DEF RunExecute, Goto, CallInv, TypeOK, Call, store
<1>7. ASSUME NEW t \in Threads, RunCheck(t)
      PROVE  CallInv'
  BY <1>7 DEF RunCheck, Finish, Goto, CallInv, TypeOK, store
<1>8. ASSUME NEW t \in Threads, EnsureCheck(t) \/ EnsureStarted(t) \/ EnsureStart(t)
      PROVE  CallInv'
  BY <1>8 DEF EnsureCheck, EnsureStarted, EnsureStart, AfterEnsure, Finish, Goto,
     CallInv, TypeOK, store
<1>9. ASSUME NEW t \in Threads, ApplyExport(t)
      PROVE  CallInv'
  <2>1. call[t].cmd \in Update
    BY <1>9 DEF ApplyExport, CallInv
  <2>2. [call[t].cmd EXCEPT !.exports = Tail(call[t].cmd.exports)] \in Update
    BY <1>9, <2>1, RestTyped DEF ApplyExport
  <2>3. call'[t].cmd \in Update /\ call'[t].sid = call[t].sid
    <3>1. call'[t] = [call[t] EXCEPT !.cmd = [call[t].cmd EXCEPT !.exports = Tail(call[t].cmd.exports)]]
      BY <1>9 DEF ApplyExport, TypeOK
    <3>2. call[t] \in Call
      BY DEF TypeOK
    <3>3. QED
      BY <2>2, <3>1, <3>2, CmdTyped
  <2>4. \A u \in Threads \ {t} : call'[u] = call[u]
    BY <1>9 DEF ApplyExport, TypeOK
  <2>5. pc' = pc /\ allocated' = allocated
    BY <1>9 DEF ApplyExport
  <2>6. QED
    BY <2>3, <2>4, <2>5 DEF CallInv
<1>10. ASSUME NEW t \in Threads, ApplyUnset(t)
      PROVE  CallInv'
  <2>1. call[t].cmd \in Update
    BY <1>10 DEF ApplyUnset, CallInv
  <2>2. [call[t].cmd EXCEPT !.unsets = Tail(call[t].cmd.unsets)] \in Update
    BY <1>10, <2>1, RestTyped DEF ApplyUnset
  <2>3. call'[t].cmd \in Update /\ call'[t].sid = call[t].sid
    <3>1. call'[t] = [call[t] EXCEPT !.cmd = [call[t].cmd EXCEPT !.unsets = Tail(call[t].cmd.unsets)]]
      BY <1>10 DEF ApplyUnset, TypeOK
    <3>2. call[t] \in Call
      BY DEF TypeOK
    <3>3. QED
      BY <2>2, <3>1, <3>2, CmdTyped
  <2>4. \A u \in Threads \ {t} : call'[u] = call[u]
    BY <1>10 DEF ApplyUnset, TypeOK
  <2>5. pc' = pc /\ allocated' = allocated
    BY <1>10 DEF ApplyUnset
  <2>6. QED
    BY <2>3, <2>4, <2>5 DEF CallInv
<1>11. ASSUME NEW t \in Threads, DestroyPop(t)
      PROVE  CallInv'
  BY <1>11 DEF DestroyPop, Goto, CallInv, TypeOK, Call
<1>12. ASSUME NEW t \in Threads, ReadOnly(t)
      PROVE  CallInv'
  BY <1>12 DEF ReadOnly, vars, CallInv
<1>13. CASE JanitorWake \/ JanitorSweep \/ JanitorAudit \/ JanitorAuditFails \/ JanitorSleep \/ Tick
  BY <1>13 DEF JanitorWake, JanitorSweep, JanitorAudit, JanitorAuditFails, JanitorSleep, Tick,
               CallInv, store
<1>14. QED
  BY <1>1, <1>2, <1>3, <1>4, <1>5, <1>6, <1>7, <1>8, <1>9, <1>10, <1>11, <1>12, <1>13
     DEF Next, Begin, Continue, Janitor

(* The lock is taken and released with the update it protects.              *)
LEMMA LockStep ==
  ASSUME TypeOK, CallInv, LockInv, Next
  PROVE  LockInv'
<1>1. ASSUME NEW t \in Threads, NEW id \in Ids, NEW dir \in StartDirs, CreateBuild(t, id, dir)
      PROVE  LockInv'
  BY <1>1 DEF CreateBuild, Goto, LockInv, TypeOK, Call
<1>2. ASSUME NEW t \in Threads, NEW id \in Ids, NEW c \in Commands, RunSnapshot(t, id, c)
      PROVE  LockInv'
  BY <1>2 DEF RunSnapshot, Goto, LockInv, TypeOK, Call, store, Free
<1>3. ASSUME NEW t \in Threads, NEW id \in Ids, DestroyLookup(t, id)
      PROVE  LockInv'
  BY <1>3 DEF DestroyLookup, Goto, LockInv, TypeOK, Call, store, Free
<1>4. ASSUME NEW t \in Threads, CreateInsert(t) \/ ApplyFailedCommand(t) \/ ApplyToMissing(t)
      PROVE  LockInv'
  BY <1>4 DEF CreateInsert, ApplyFailedCommand, ApplyToMissing, Goto, LockInv, TypeOK, store
<1>5. ASSUME NEW t \in Threads, ApplyCd(t)
      PROVE  LockInv'
  BY <1>5, IdsAssumption DEF ApplyCd, Goto, LockInv, TypeOK, Free
<1>6. ASSUME NEW t \in Threads, ApplyDone(t)
      PROVE  LockInv'
  BY <1>6, IdsAssumption DEF ApplyDone, Goto, LockInv, TypeOK
<1>7. ASSUME NEW t \in Threads,
             \/ RunRefused(t) \/ ApplyCdRaises(t) \/ RunReply(t) \/ DestroyReport(t)
             \/ EnsureStartFails(t)
      PROVE  LockInv'
  BY <1>7 DEF RunRefused, ApplyCdRaises, RunReply, DestroyReport, EnsureStartFails, Finish, Goto,
     LockInv, TypeOK, store
<1>8. ASSUME NEW t \in Threads, RunExecute(t)
      PROVE  LockInv'
  BY <1>8 DEF RunExecute, Goto, LockInv, TypeOK, Call, store
<1>9. ASSUME NEW t \in Threads, RunCheck(t)
      PROVE  LockInv'
  BY <1>9 DEF RunCheck, Finish, Goto, LockInv, TypeOK, store
<1>10. ASSUME NEW t \in Threads, EnsureCheck(t) \/ EnsureStarted(t) \/ EnsureStart(t)
      PROVE  LockInv'
  BY <1>10 DEF EnsureCheck, EnsureStarted, EnsureStart, AfterEnsure, Finish, Goto,
     LockInv, TypeOK, store
<1>11. ASSUME NEW t \in Threads, ApplyExport(t)
      PROVE  LockInv'
  BY <1>11 DEF ApplyExport, LockInv, TypeOK, Call
<1>12. ASSUME NEW t \in Threads, ApplyUnset(t)
      PROVE  LockInv'
  BY <1>12 DEF ApplyUnset, LockInv, TypeOK, Call
<1>13. ASSUME NEW t \in Threads, DestroyPop(t)
      PROVE  LockInv'
  BY <1>13, IdsAssumption DEF DestroyPop, Goto, LockInv, TypeOK, Call, Free
<1>14. ASSUME NEW t \in Threads, ReadOnly(t)
      PROVE  LockInv'
  BY <1>14 DEF ReadOnly, vars, LockInv
<1>15. CASE JanitorSweep
  BY <1>15, IdsAssumption DEF JanitorSweep, LockInv, Free, TypeOK
<1>16. CASE JanitorWake \/ JanitorAudit \/ JanitorAuditFails \/ JanitorSleep \/ Tick
  BY <1>16 DEF JanitorWake, JanitorAudit, JanitorAuditFails, JanitorSleep, Tick, LockInv, store
<1>17. QED
  BY <1>1, <1>2, <1>3, <1>4, <1>7, <1>8, <1>9, <1>10, <1>11, <1>12, <1>13, <1>14, <1>15, <1>5,
     <1>6, <1>16 DEF Next, Begin, Continue, Janitor

(* Nobody but its creator can name a session before it is registered.      *)
LEMMA InsertStep ==
  ASSUME TypeOK, CallInv, InsertInv, Next
  PROVE  InsertInv'
<1>1. ASSUME NEW t \in Threads, NEW id \in Ids, NEW dir \in StartDirs, CreateBuild(t, id, dir)
      PROVE  InsertInv'
  <2>1. call'[t].sid = id /\ pc'[t] = "insert" /\ id \notin allocated
    BY <1>1 DEF CreateBuild, Goto, TypeOK, Call
  <2>2. \A u \in Threads \ {t} : call'[u] = call[u] /\ pc'[u] = pc[u]
    BY <1>1 DEF CreateBuild, Goto, TypeOK
  <2>3. \A u \in Threads \ {t} : pc[u] # "ready" => call[u].sid # id
    BY <2>1 DEF CallInv
  <2>4. sessions' = sessions /\ id \notin sessions
    BY <1>1, <2>1 DEF CreateBuild, TypeOK
  <2>5. QED
    BY <2>1, <2>2, <2>3, <2>4 DEF InsertInv
<1>2. ASSUME NEW t \in Threads, NEW id \in Ids, NEW c \in Commands, RunSnapshot(t, id, c)
      PROVE  InsertInv'
  <2>1. call'[t].sid = id /\ pc'[t] = "exec" /\ id \in sessions
    BY <1>2 DEF RunSnapshot, Goto, TypeOK, Call
  <2>2. \A u \in Threads \ {t} : call'[u] = call[u] /\ pc'[u] = pc[u]
    BY <1>2 DEF RunSnapshot, Goto, TypeOK
  <2>3. QED
    <3>1. sessions' = sessions
      BY <1>2 DEF RunSnapshot, store
    <3>2. QED
      BY <2>1, <2>2, <3>1 DEF InsertInv
<1>3. ASSUME NEW t \in Threads, NEW id \in Ids, DestroyLookup(t, id)
      PROVE  InsertInv'
  <2>1. call'[t].sid = id /\ pc'[t] = "pop" /\ id \in sessions
    BY <1>3 DEF DestroyLookup, Goto, TypeOK, Call
  <2>2. \A u \in Threads \ {t} : call'[u] = call[u] /\ pc'[u] = pc[u]
    BY <1>3 DEF DestroyLookup, Goto, TypeOK
  <2>3. QED
    BY <1>3, <2>1, <2>2 DEF DestroyLookup, store, InsertInv
<1>4. ASSUME NEW t \in Threads, CreateInsert(t)
      PROVE  InsertInv'
  BY <1>4 DEF CreateInsert, Goto, InsertInv, TypeOK
<1>5. ASSUME NEW t \in Threads,
             \/ ApplyFailedCommand(t) \/ ApplyToMissing(t) \/ ApplyCd(t) \/ ApplyDone(t)
      PROVE  InsertInv'
  BY <1>5 DEF ApplyFailedCommand, ApplyToMissing, ApplyCd, ApplyDone, Goto, InsertInv,
     TypeOK, store
<1>6. ASSUME NEW t \in Threads,
             \/ RunRefused(t) \/ ApplyCdRaises(t) \/ RunReply(t) \/ DestroyReport(t)
             \/ EnsureStartFails(t)
      PROVE  InsertInv'
  BY <1>6 DEF RunRefused, ApplyCdRaises, RunReply, DestroyReport, EnsureStartFails, Finish, Goto,
     InsertInv, TypeOK, store
<1>7. ASSUME NEW t \in Threads, RunExecute(t)
      PROVE  InsertInv'
  BY <1>7 DEF RunExecute, Goto, InsertInv, TypeOK, Call, store
<1>8. ASSUME NEW t \in Threads, RunCheck(t)
      PROVE  InsertInv'
  BY <1>8 DEF RunCheck, Finish, Goto, InsertInv, TypeOK, store
<1>9. ASSUME NEW t \in Threads, EnsureCheck(t) \/ EnsureStarted(t) \/ EnsureStart(t)
      PROVE  InsertInv'
  BY <1>9 DEF EnsureCheck, EnsureStarted, EnsureStart, AfterEnsure, Finish, Goto,
     InsertInv, TypeOK, store
<1>10. ASSUME NEW t \in Threads, ApplyExport(t) \/ ApplyUnset(t)
       PROVE  InsertInv'
  <2>1. \A u \in Threads : call'[u].sid = call[u].sid
    <3>1. CASE ApplyExport(t)
      BY <3>1 DEF ApplyExport, TypeOK, Call
    <3>2. CASE ApplyUnset(t)
      BY <3>2 DEF ApplyUnset, TypeOK, Call
    <3>3. QED
      BY <1>10, <3>1, <3>2
  <2>2. QED
    BY <1>10, <2>1 DEF ApplyExport, ApplyUnset, InsertInv
<1>11. ASSUME NEW t \in Threads, DestroyPop(t)
       PROVE  InsertInv'
  BY <1>11 DEF DestroyPop, Goto, InsertInv, TypeOK, Call
<1>12. ASSUME NEW t \in Threads, ReadOnly(t)
       PROVE  InsertInv'
  BY <1>12 DEF ReadOnly, vars, InsertInv
<1>13. CASE JanitorWake \/ JanitorSweep \/ JanitorAudit \/ JanitorAuditFails \/ JanitorSleep \/ Tick
  BY <1>13 DEF JanitorWake, JanitorSweep, JanitorAudit, JanitorAuditFails, JanitorSleep, Tick,
               InsertInv, store
<1>14. QED
  BY <1>1, <1>2, <1>3, <1>4, <1>5, <1>6, <1>7, <1>8, <1>9, <1>10, <1>11, <1>12, <1>13
     DEF Next, Begin, Continue, Janitor

(* Only the three writers of an environment need a look: a new session,    *)
(* an export and an unset.                                                 *)
LEMMA CapStep ==
  ASSUME TypeOK, CallInv, LockInv, EnvWithinCap, Next
  PROVE  EnvWithinCap'
<1>1. ASSUME allocated' = allocated, \A id \in allocated : object'[id].env = object[id].env
      PROVE  EnvWithinCap'
  BY <1>1 DEF EnvWithinCap, Size
<1>2. ASSUME NEW t \in Threads, NEW id \in Ids, NEW dir \in StartDirs, CreateBuild(t, id, dir)
      PROVE  EnvWithinCap'
  <2>1. allocated' = allocated \cup {id} /\ object'[id].env = EmptyEnv
    BY <1>2 DEF CreateBuild, TypeOK
  <2>2. \A i \in allocated : object'[i].env = object[i].env
    BY <1>2 DEF CreateBuild, TypeOK
  <2>3. QED
    BY <2>1, <2>2, EmptyEnvFits DEF EnvWithinCap, Size
<1>3. ASSUME NEW t \in Threads, ApplyExport(t) \/ ApplyUnset(t)
      PROVE  EnvWithinCap'
  <2> DEFINE sid == call[t].sid
             new == object'[sid].env
  <2>1. call[t].cmd \in Update /\ sid \in allocated /\ sid \in Ids
    BY <1>3 DEF ApplyExport, ApplyUnset, CallInv, TypeOK
  <2>2. object[sid].env \in Env
    BY <2>1, ObjectTyped
  <2>3. IsFiniteSet(Keys(new)) /\ Cardinality(Keys(new)) <= MaxEnvVars
    <3>1. CASE ApplyExport(t)
      <4>1. new = Export(object[sid].env, Head(call[t].cmd.exports))
        BY <2>1, <3>1 DEF ApplyExport, TypeOK, Session
      <4>2. Head(call[t].cmd.exports) \in Assignment
        BY <2>1, <3>1 DEF ApplyExport, Update
      <4>3. QED
        BY <2>1, <2>2, <4>1, <4>2, ExportKeepsCap DEF EnvWithinCap, Size
    <3>2. CASE ApplyUnset(t)
      <4>1. new = Unset(object[sid].env, Head(call[t].cmd.unsets))
        BY <2>1, <3>2 DEF ApplyUnset, TypeOK, Session
      <4>2. Head(call[t].cmd.unsets) \in Names
        BY <2>1, <3>2 DEF ApplyUnset, Update
      <4>3. QED
        BY <2>1, <2>2, <4>1, <4>2, UnsetKeepsCap DEF EnvWithinCap, Size
    <3>3. QED
      BY <1>3, <3>1, <3>2
  <2>4. allocated' = allocated /\ \A i \in allocated \ {sid} : object'[i] = object[i]
    BY <1>3 DEF ApplyExport, ApplyUnset, TypeOK
  <2>5. QED
    BY <2>3, <2>4 DEF EnvWithinCap, Size
<1>4. ASSUME NEW t \in Threads, ApplyFailedCommand(t) \/ ApplyCd(t) \/ ApplyDone(t)
      PROVE  EnvWithinCap'
  <2>1. call[t].sid \in allocated
    BY <1>4 DEF ApplyFailedCommand, ApplyCd, ApplyDone, CallInv
  <2>2. allocated' = allocated /\ \A id \in allocated : object'[id].env = object[id].env
    <3>1. CASE ApplyFailedCommand(t) \/ ApplyDone(t)
      <4>1. allocated' = allocated /\ (Touch(call[t].sid) \/ object' = object)
        BY <3>1 DEF ApplyFailedCommand, ApplyDone
      <4>2. Touch(call[t].sid) => \A id \in allocated : object'[id].env = object[id].env
        BY <2>1 DEF Touch, TypeOK, Session
      <4>3. QED
        BY <4>1, <4>2
    <3>2. CASE ApplyCd(t)
      BY <2>1, <3>2 DEF ApplyCd, TypeOK, Session
    <3>3. QED
      BY <1>4, <3>1, <3>2
  <2>3. QED
    BY <1>1, <2>2
<1>5. ASSUME UNCHANGED <<allocated, object>>
      PROVE  EnvWithinCap'
  BY <1>1, <1>5
<1>6. QED
  BY <1>2, <1>3, <1>4, <1>5
     DEF Next, Begin, Continue, Janitor, ReadOnly, CreateInsert, RunSnapshot, RunRefused,
         ApplyCdRaises, RunExecute, RunCheck, RunReply, ApplyToMissing, EnsureCheck, EnsureStarted,
         EnsureStart, EnsureStartFails, DestroyLookup, DestroyPop, DestroyReport,
         JanitorWake, JanitorSweep, JanitorAudit, JanitorAuditFails, JanitorSleep, Tick, store, vars

(* The flag is set once, by the thread that starts the janitor; and a      *)
(* cutoff, once computed, only gets older.                                 *)
LEMMA JanitorStep ==
  ASSUME TypeOK, JanitorInv, Next
  PROVE  JanitorInv'
<1>1. ASSUME NEW t \in Threads, EnsureStart(t) \/ EnsureStartFails(t)
      PROVE  JanitorInv'
  BY <1>1 DEF EnsureStart, EnsureStartFails, JanitorInv
<1>2. CASE JanitorWake
  BY <1>2, TimeAssumption DEF JanitorWake, JanitorInv, TypeOK
<1>3. CASE JanitorSweep
  BY <1>3 DEF JanitorSweep, JanitorInv, TypeOK
<1>7. CASE JanitorAudit \/ JanitorAuditFails \/ JanitorSleep
  <2>1. /\ janitor'.cutoff = janitor.cutoff /\ janitor.at = "audit" /\ janitor'.at # "sweep"
        /\ UNCHANGED <<started, janitors, clock>>
    BY <1>7 DEF JanitorAudit, JanitorAuditFails, JanitorSleep, TypeOK
  <2>2. QED
    BY <2>1 DEF JanitorInv
<1>4. CASE Tick
  BY <1>4, TimeAssumption DEF Tick, JanitorInv, TypeOK, daemon
<1>5. ASSUME UNCHANGED <<started, janitors, janitor, clock>>
      PROVE  JanitorInv'
  BY <1>5 DEF JanitorInv
<1>6. QED
  BY <1>1, <1>2, <1>3, <1>4, <1>5, <1>7
     DEF Next, Begin, Continue, Janitor, ReadOnly, CreateBuild, CreateInsert, RunSnapshot,
         RunRefused, ApplyCdRaises, RunExecute, RunCheck, RunReply, ApplyFailedCommand,
         ApplyToMissing,
         ApplyCd, ApplyExport, ApplyUnset, ApplyDone, EnsureCheck, EnsureStarted,
         DestroyLookup, DestroyPop, DestroyReport, daemon, vars

LEMMA InitIInv == Init => IInv
<1> SUFFICES ASSUME Init PROVE IInv
  OBVIOUS
<1>1. TypeOK
  <2>1. object \in [Ids -> Session \cup {Nil}] /\ \A id \in allocated : object[id] \in Session
    BY DEF Init
  <2>2. pc \in [Threads -> Labels]
    BY DEF Init, Labels
  <2>3. call \in [Threads -> Call]
    <3>1. call = [t \in Threads |-> NoCall]
      BY DEF Init
    <3>2. QED
      BY <3>1, NoCallTyped
  <2>4. destroyed \in [Ids -> [reports : Nat, freed : Nat, lost : BOOLEAN]]
    BY DEF Init
  <2>5. janitor \in [at : {"sleep", "sweep", "audit"}, cutoff : Int, evicted : SUBSET (Ids \X Nat)]
    BY DEF Init
  <2>6. /\ sessions \subseteq allocated /\ allocated \subseteq Ids /\ lock \in Threads \cup {Nil}
        /\ started \in BOOLEAN /\ janitors \in Nat /\ clock \in 0 .. MaxClock
    <3>1. 0 \in 0 .. MaxClock
      BY TimeAssumption
    <3>2. FALSE \in BOOLEAN /\ 0 \in Nat
      OBVIOUS
    <3>3. QED
      BY <3>1, <3>2 DEF Init
  <2>7. QED
    BY <2>1, <2>2, <2>3, <2>4, <2>5, <2>6 DEF TypeOK
<1>2. CallInv /\ LockInv /\ InsertInv
  BY IdsAssumption DEF Init, CallInv, LockInv, InsertInv
<1>3. EnvWithinCap /\ JanitorInv
  BY DEF Init, EnvWithinCap, JanitorInv
<1>4. QED
  BY <1>1, <1>2, <1>3 DEF IInv

LEMMA NextIInv == IInv /\ [Next]_vars => IInv'
<1> SUFFICES ASSUME IInv, [Next]_vars PROVE IInv'
  OBVIOUS
<1>1. CASE Next
  BY <1>1, TypeStep, CallStep, LockStep, InsertStep, CapStep, JanitorStep DEF IInv
<1>2. CASE UNCHANGED vars
  BY <1>2 DEF vars, IInv, TypeOK, CallInv, LockInv, InsertInv, EnvWithinCap, Size, JanitorInv
<1>3. QED
  BY <1>1, <1>2

(* The strengthened invariant holds in every reachable state.              *)
THEOREM SessionsInvariant == Spec => []IInv
  BY InitIInv, NextIInv, PTL DEF Spec

(* Types are preserved: in particular a session's cwd is always a          *)
(* validated directory and its env an environment.                         *)
THEOREM TypeCorrect == Spec => []TypeOK
<1>1. IInv => TypeOK
  BY DEF IInv
<1>2. QED
  BY <1>1, SessionsInvariant, PTL

(* For any number of threads, commands and any cap, no session of          *)
(* sessions.py ever holds more variables than MAX_ENV_VARS.                *)
THEOREM CapHolds == Spec => []EnvWithinCap
<1>1. IInv => EnvWithinCap
  BY DEF IInv
<1>2. QED
  BY <1>1, SessionsInvariant, PTL

(* For any number of threads racing through _ensure_janitor, at most one   *)
(* janitor thread is started.                                              *)
THEOREM OneJanitorRuns == Spec => []OneJanitor
<1>1. IInv => OneJanitor
  BY DEF IInv, JanitorInv, OneJanitor
<1>2. QED
  BY <1>1, SessionsInvariant, PTL

-----------------------------------------------------------------------------
(* No thread is registering a removed session, and no action reaches one.  *)
LEMMA RemovedStep == IInv /\ [Next]_vars => [RemovedUntouched]_vars
<1> SUFFICES ASSUME IInv, Next, NEW id \in Removed
             PROVE  id \in Removed' /\ object'[id] = object[id]
  BY DEF RemovedUntouched
<1>1. /\ id \in allocated /\ id \notin sessions
      /\ \A t \in Threads : pc[t] = "insert" => call[t].sid # id
  BY DEF Removed
<1>2. ASSUME NEW t \in Threads, NEW i \in Ids, NEW dir \in StartDirs, CreateBuild(t, i, dir)
      PROVE  id \in Removed' /\ object'[id] = object[id]
  <2>1. i # id /\ call'[t].sid = i
    BY <1>1, <1>2 DEF CreateBuild, IInv, TypeOK, Call
  <2>2. \A u \in Threads \ {t} : call'[u] = call[u] /\ pc'[u] = pc[u]
    BY <1>2 DEF CreateBuild, Goto, IInv, TypeOK
  <2>3. id \in allocated' /\ id \notin sessions' /\ object'[id] = object[id]
    BY <1>1, <1>2, <2>1 DEF CreateBuild, IInv, TypeOK
  <2>4. QED
    BY <1>1, <2>1, <2>2, <2>3 DEF Removed
<1>3. ASSUME allocated' = allocated, id \notin sessions', object'[id] = object[id],
             \A t \in Threads : pc'[t] = "insert" => pc[t] = "insert" /\ call'[t] = call[t]
      PROVE  id \in Removed' /\ object'[id] = object[id]
  BY <1>1, <1>3 DEF Removed
<1>4. ASSUME NEW t \in Threads, CreateInsert(t)
      PROVE  id \in Removed' /\ object'[id] = object[id]
  <2>1. call[t].sid # id
    BY <1>1, <1>4 DEF CreateInsert
  <2>2. QED
    BY <1>1, <1>3, <1>4, <2>1 DEF CreateInsert, Goto, IInv, TypeOK
<1>5. ASSUME NEW t \in Threads, ApplyFailedCommand(t) \/ ApplyCd(t) \/ ApplyDone(t)
      PROVE  id \in Removed' /\ object'[id] = object[id]
  <2>1. object'[id] = object[id]
    BY <1>1, <1>5 DEF ApplyFailedCommand, ApplyCd, ApplyDone, Touch, IInv, TypeOK, LockInv
  <2>2. QED
    BY <1>1, <1>3, <1>5, <2>1 DEF ApplyFailedCommand, ApplyCd, ApplyDone, Goto, IInv, TypeOK
<1>6. ASSUME NEW t \in Threads, ApplyExport(t) \/ ApplyUnset(t)
      PROVE  id \in Removed' /\ object'[id] = object[id]
  <2>1. call[t].sid # id
    BY <1>1, <1>6 DEF ApplyExport, ApplyUnset, IInv, LockInv
  <2>2. object'[id] = object[id]
    <3>1. CASE ApplyExport(t)
      BY <2>1, <3>1 DEF ApplyExport, IInv, TypeOK
    <3>2. CASE ApplyUnset(t)
      BY <2>1, <3>2 DEF ApplyUnset, IInv, TypeOK
    <3>3. QED
      BY <1>6, <3>1, <3>2
  <2>3. \A u \in Threads : pc'[u] = "insert" => pc[u] = "insert" /\ call'[u] = call[u]
    BY <1>6 DEF ApplyExport, ApplyUnset, IInv, TypeOK
  <2>4. QED
    BY <1>1, <1>3, <1>6, <2>2, <2>3 DEF ApplyExport, ApplyUnset
<1>7. ASSUME NEW t \in Threads, NEW i \in Ids,
             (\E c \in Commands : RunSnapshot(t, i, c)) \/ DestroyLookup(t, i)
      PROVE  id \in Removed' /\ object'[id] = object[id]
  <2>1. \A u \in Threads : pc'[u] = "insert" => pc[u] = "insert" /\ call'[u] = call[u]
    BY <1>7 DEF RunSnapshot, DestroyLookup, Goto, IInv, TypeOK
  <2>2. QED
    BY <1>1, <1>3, <1>7, <2>1 DEF RunSnapshot, DestroyLookup, store
<1>8. ASSUME NEW t \in Threads,
             \/ RunRefused(t) \/ ApplyCdRaises(t) \/ RunExecute(t) \/ RunCheck(t) \/ RunReply(t)
             \/ ApplyToMissing(t) \/ DestroyPop(t) \/ DestroyReport(t)
      PROVE  id \in Removed' /\ object'[id] = object[id]
  <2>1. \A u \in Threads : pc'[u] = "insert" => pc[u] = "insert" /\ call'[u] = call[u]
    BY <1>8 DEF RunRefused, ApplyCdRaises, RunExecute, RunCheck, RunReply, ApplyToMissing,
                DestroyPop,
                DestroyReport, Finish, Goto, IInv, TypeOK
  <2>2. QED
    BY <1>1, <1>3, <1>8, <2>1
       DEF RunRefused, ApplyCdRaises, RunExecute, RunCheck, RunReply, ApplyToMissing, DestroyPop,
           DestroyReport, store
<1>9. ASSUME NEW t \in Threads,
             EnsureCheck(t) \/ EnsureStarted(t) \/ EnsureStart(t) \/ EnsureStartFails(t)
      PROVE  id \in Removed' /\ object'[id] = object[id]
  <2>1. \A u \in Threads : pc'[u] = "insert" => pc[u] = "insert" /\ call'[u] = call[u]
    BY <1>9 DEF EnsureCheck, EnsureStarted, EnsureStart, EnsureStartFails, AfterEnsure,
                Finish, Goto, IInv, TypeOK
  <2>2. QED
    BY <1>1, <1>3, <1>9, <2>1
       DEF EnsureCheck, EnsureStarted, EnsureStart, EnsureStartFails, store
<1>10. CASE Janitor \/ Tick \/ \E t \in Threads : ReadOnly(t)
  <2>1. UNCHANGED <<allocated, object, pc, call>> /\ sessions' \subseteq sessions
    BY <1>10
       DEF Janitor, JanitorWake, JanitorSweep, JanitorAudit, JanitorAuditFails, JanitorSleep,
           Tick, ReadOnly,
           store, vars
  <2>2. QED
    BY <1>1, <1>3, <2>1
<1>11. QED
  BY <1>2, <1>4, <1>5, <1>6, <1>7, <1>8, <1>9, <1>10 DEF Next, Begin, Continue

(* A destroyed or evicted session never comes back and its object is never *)
(* edited again, whatever commands were still running in it.               *)
THEOREM RemovedSessionsAreFinal == Spec => RemovedIsFinal
  BY SessionsInvariant, RemovedStep, PTL DEF Spec, RemovedIsFinal

(* Only a pop and a sweep shrink the store.                                *)
LEMMA LeavesStep == IInv /\ [Next]_vars => [DestroyedOrIdle]_vars
<1> SUFFICES ASSUME IInv, Next, NEW id \in sessions \ sessions'
             PROVE  \/ clock - object[id].used > IdleTimeout
                    \/ \E t \in Threads : pc[t] = "pop" /\ pc'[t] = "report" /\ call[t].sid = id
  BY DEF DestroyedOrIdle
<1>1. ASSUME NEW t \in Threads, DestroyPop(t)
      PROVE  pc[t] = "pop" /\ pc'[t] = "report" /\ call[t].sid = id
  BY <1>1 DEF DestroyPop, Goto, IInv, TypeOK
<1>2. CASE JanitorSweep
  <2>1. object[id].used < janitor.cutoff /\ janitor.cutoff <= clock - IdleTimeout
    BY <1>2 DEF JanitorSweep, Stale, IInv, JanitorInv
  <2>2. object[id].used \in Int /\ janitor.cutoff \in Int /\ clock \in Int
    BY TimeAssumption DEF IInv, TypeOK, Session
  <2>3. QED
    BY <2>1, <2>2, TimeAssumption
<1>3. CASE sessions' = sessions \/ \E t \in Threads : CreateInsert(t)
  BY <1>3 DEF CreateInsert
<1>4. QED
  BY <1>1, <1>2, <1>3
     DEF Next, Begin, Continue, Janitor, ReadOnly, CreateBuild, RunSnapshot, RunRefused,
         ApplyCdRaises,
         RunExecute, RunCheck, RunReply, ApplyFailedCommand, ApplyToMissing, ApplyCd,
         ApplyExport, ApplyUnset, ApplyDone, EnsureCheck, EnsureStarted, EnsureStart,
         EnsureStartFails, DestroyLookup, DestroyReport, JanitorWake, JanitorAudit,
         JanitorAuditFails, JanitorSleep, Tick, store, vars

(* The janitor takes only sessions idle for longer than the timeout when   *)
(* it takes them; every other removal is a destroy call's.                 *)
THEOREM OnlyIdleOrDestroyedLeave == Spec => LeavesDestroyedOrIdle
  BY SessionsInvariant, LeavesStep, PTL DEF Spec, LeavesDestroyedOrIdle

-----------------------------------------------------------------------------
(* A removed session has at most one who owes its report: the thread that  *)
(* popped it or the janitor that evicted it.  Until it is given none of    *)
(* its variables is reported freed, then all of them are; or none ever, if *)
(* it was the janitor's and was lost.                                      *)
Owed(id) == (\E t \in Threads : Popper(t, id)) \/ Evicted(id) # {}

Settled(id) ==
  IF destroyed[id].lost THEN destroyed[id].freed = 0
                        ELSE destroyed[id].freed = Size(id) /\ destroyed[id].reports > 0

OwedOnce(id) ==
  /\ \A t, u \in Threads : Popper(t, id) /\ Popper(u, id) => t = u
  /\ Evicted(id) # {} => \A t \in Threads : ~Popper(t, id)
  /\ Evicted(id) \subseteq {<<id, Size(id)>>}
  /\ \A t \in Threads : pc[t] = "report" /\ call[t].sid = id => id \in Removed
  /\ Evicted(id) # {} \/ destroyed[id].reports > 0 => id \in Removed
  /\ IF id \in Removed /\ ~Owed(id)
       THEN Settled(id)
       ELSE destroyed[id].freed = 0 /\ ~destroyed[id].lost

(* The janitor takes no more sessions before it has reported the last.     *)
SweepInv == janitor.at # "audit" => janitor.evicted = {}

ReportInv == SweepInv /\ \A id \in Ids : OwedOnce(id)

(* A thread's step moves no other thread.                                  *)
LEMMA OthersUnmoved ==
  ASSUME TypeOK, NEW t \in Threads, Begin(t) \/ Continue(t), NEW u \in Threads \ {t}
  PROVE  pc'[u] = pc[u] /\ call'[u] = call[u]
<1>1. ASSUME NEW label, Goto(t, label)
      PROVE  pc'[u] = pc[u]
  BY <1>1 DEF Goto, TypeOK
<1>2. CASE Finish(t)
  BY <1>2, <1>1 DEF Finish, TypeOK
<1>3. CASE Begin(t)
  BY <1>3 DEF Begin, ReadOnly, CreateBuild, RunSnapshot, DestroyLookup, Goto, TypeOK, vars
<1>4. CASE \/ CreateInsert(t) \/ ApplyFailedCommand(t) \/ ApplyToMissing(t) \/ ApplyCd(t)
           \/ ApplyDone(t) \/ RunExecute(t) \/ DestroyPop(t)
  BY <1>4, <1>1
     DEF CreateInsert, ApplyFailedCommand, ApplyToMissing, ApplyCd, ApplyDone, RunExecute,
         DestroyPop, TypeOK
<1>5. CASE ApplyExport(t) \/ ApplyUnset(t)
  BY <1>5 DEF ApplyExport, ApplyUnset, TypeOK
<1>6. CASE \/ RunRefused(t) \/ ApplyCdRaises(t) \/ RunReply(t) \/ DestroyReport(t)
           \/ EnsureStartFails(t) \/ RunCheck(t)
  BY <1>6, <1>1, <1>2
     DEF RunRefused, ApplyCdRaises, RunReply, DestroyReport, EnsureStartFails, RunCheck
<1>7. CASE EnsureCheck(t) \/ EnsureStarted(t) \/ EnsureStart(t)
  BY <1>7, <1>1, <1>2 DEF EnsureCheck, EnsureStarted, EnsureStart, AfterEnsure
<1>8. QED
  BY <1>3, <1>4, <1>5, <1>6, <1>7 DEF Continue

(* What becomes removed left the store in that very step.                  *)
LEMMA RemovedGrows ==
  ASSUME IInv, Next, NEW id \in Removed' \ Removed
  PROVE  id \in sessions \ sessions'
<1>1. /\ id \in allocated' /\ id \notin sessions'
      /\ \A t \in Threads : ~(pc'[t] = "insert" /\ call'[t].sid = id)
  BY DEF Removed
<1>2. CASE id \in sessions
  BY <1>1, <1>2
<1>3. CASE id \notin allocated
  <2>1. PICK t \in Threads, i \in Ids, dir \in StartDirs : CreateBuild(t, i, dir)
    BY <1>1, <1>3
       DEF Next, Begin, Continue, Janitor, ReadOnly, CreateInsert, RunSnapshot, RunRefused,
           ApplyCdRaises, RunExecute, RunCheck, RunReply, ApplyFailedCommand, ApplyToMissing,
           ApplyCd, ApplyExport, ApplyUnset, ApplyDone, EnsureCheck, EnsureStarted,
           EnsureStart, EnsureStartFails, DestroyLookup, DestroyPop, DestroyReport,
           JanitorWake, JanitorSweep, JanitorAudit, JanitorAuditFails, JanitorSleep, Tick,
           store, vars
  <2>2. i = id
    BY <1>1, <1>3, <2>1 DEF CreateBuild
  <2>3. pc'[t] = "insert" /\ call'[t].sid = id
    BY <2>1, <2>2 DEF CreateBuild, Goto, IInv, TypeOK, Call
  <2>4. QED
    BY <1>1, <2>3
<1>4. CASE id \in allocated /\ id \notin sessions
  <2>1. PICK t \in Threads : pc[t] = "insert" /\ call[t].sid = id
    BY <1>4 DEF Removed
  <2>2. ~CreateInsert(t)
    BY <1>1, <2>1 DEF CreateInsert
  <2>3. ~(Begin(t) \/ Continue(t)) \/ ReadOnly(t)
    BY <2>1, <2>2
       DEF Begin, Continue, CreateBuild, RunSnapshot, RunRefused,
           ApplyCdRaises, RunExecute, RunCheck, RunReply, ApplyFailedCommand, ApplyToMissing,
           ApplyCd, ApplyExport, ApplyUnset, ApplyDone, EnsureCheck, EnsureStarted,
           EnsureStart, EnsureStartFails, DestroyLookup, DestroyPop, DestroyReport, IInv, LockInv
  <2>4. CASE Janitor \/ Tick \/ ReadOnly(t)
    BY <1>1, <2>1, <2>4
       DEF Janitor, JanitorWake, JanitorSweep, JanitorAudit, JanitorAuditFails, JanitorSleep,
           Tick, ReadOnly, vars
  <2>5. ASSUME NEW u \in Threads \ {t}, Begin(u) \/ Continue(u)
        PROVE  pc'[t] = pc[t] /\ call'[t] = call[t]
    BY <2>5, OthersUnmoved DEF IInv
  <2>6. QED
    BY <1>1, <2>1, <2>3, <2>4, <2>5 DEF Next
<1>5. QED
  BY <1>2, <1>3, <1>4

LEMMA RemovedStays ==
  ASSUME IInv, Next, NEW id \in Removed
  PROVE  id \in Removed' /\ object'[id] = object[id] /\ Size(id)' = Size(id)
<1>1. CASE RemovedUntouched
  BY <1>1 DEF RemovedUntouched, Size
<1>2. CASE UNCHANGED vars
  BY <1>2 DEF vars, Removed, Size
<1>3. QED
  BY <1>1, <1>2, RemovedStep

(* A step that takes nothing out of the store and moves no report.         *)
LEMMA ReportsAlone ==
  ASSUME IInv, NEW id \in Ids, OwedOnce(id), Next, sessions \subseteq sessions',
         destroyed' = destroyed, janitor'.evicted = janitor.evicted,
         \A t \in Threads : IF pc[t] = "report" THEN pc'[t] = "report" /\ call'[t] = call[t]
                                                ELSE pc'[t] # "report"
  PROVE  OwedOnce(id)'
<1>1. id \in Removed' <=> id \in Removed
  BY RemovedGrows, RemovedStays
<1>2. id \in Removed => Size(id)' = Size(id)
  BY RemovedStays
<1>3. /\ \A t \in Threads : Popper(t, id)' <=> Popper(t, id)
      /\ Evicted(id)' = Evicted(id)
  BY DEF Popper, Evicted
<1>4. Owed(id)' <=> Owed(id)
  BY <1>3 DEF Owed
<1>5. \A t \in Threads :
        pc'[t] = "report" /\ call'[t].sid = id => pc[t] = "report" /\ call[t].sid = id
  OBVIOUS
<1>6. Evicted(id) # {} => id \in Removed
  BY DEF OwedOnce
<1>7. (Evicted(id) \subseteq {<<id, Size(id)>>})'
  BY <1>2, <1>3, <1>6 DEF OwedOnce
<1>8. (IF id \in Removed /\ ~Owed(id)
        THEN Settled(id) ELSE destroyed[id].freed = 0 /\ ~destroyed[id].lost)'
  BY <1>1, <1>2, <1>4 DEF OwedOnce, Settled
<1>9. QED
  BY <1>1, <1>3, <1>5, <1>7, <1>8 DEF OwedOnce

(* The pop is what makes the caller owe the report, if it took the session *)
(* out of the store itself.                                                *)
LEMMA PopOwes ==
  ASSUME IInv, NEW id \in Ids, OwedOnce(id), NEW t \in Threads, DestroyPop(t)
  PROVE  OwedOnce(id)'
<1> DEFINE sid == call[t].sid
<1>1. Next
  BY DEF Next, Continue
<1>2. sid \in allocated /\ sid \in Ids
  BY DEF DestroyPop, IInv, CallInv, TypeOK
<1>3. /\ pc'[t] = "report" /\ call'[t].sid = sid
      /\ call'[t].popped <=> sid \in sessions
  BY DEF DestroyPop, Goto, IInv, TypeOK, Call
<1>4. \A u \in Threads \ {t} : pc'[u] = pc[u] /\ call'[u] = call[u]
  BY OthersUnmoved DEF Continue, IInv
<1>5. pc[t] = "pop" /\ sessions' = sessions \ {sid} /\ allocated' = allocated
  BY DEF DestroyPop
<1>6. janitor' = janitor /\ destroyed' = destroyed /\ object' = object
  BY DEF DestroyPop, daemon
<1>7. sid \in Removed'
  <2>1. \A u \in Threads : ~(pc'[u] = "insert" /\ call'[u].sid = sid)
    <3>1. ASSUME NEW u \in Threads \ {t}, pc[u] = "insert" PROVE call[u].sid # sid
      BY <1>5, <3>1 DEF IInv, InsertInv
    <3>2. QED
      BY <1>3, <1>4, <3>1
  <2>2. QED
    BY <1>2, <1>5, <2>1 DEF Removed
<1>8. CASE id # sid
  <2>1. id \in Removed' <=> id \in Removed
    BY <1>1, <1>5, <1>8, RemovedGrows, RemovedStays
  <2>2. /\ \A u \in Threads : Popper(u, id)' <=> Popper(u, id)
        /\ Evicted(id)' = Evicted(id) /\ Size(id)' = Size(id)
    BY <1>3, <1>4, <1>5, <1>6, <1>8 DEF Popper, Evicted, Size
  <2>3. Owed(id)' <=> Owed(id)
    BY <2>2 DEF Owed
  <2>4. \A u \in Threads :
          pc'[u] = "report" /\ call'[u].sid = id => pc[u] = "report" /\ call[u].sid = id
    BY <1>3, <1>4, <1>8
  <2>5. QED
    BY <1>6, <2>1, <2>2, <2>3, <2>4 DEF OwedOnce, Settled
<1>9. CASE id = sid /\ id \in sessions
  <2>1. id \notin Removed
    BY <1>9 DEF Removed
  <2>2. /\ Evicted(id) = {} /\ destroyed[id].reports <= 0
        /\ destroyed[id].freed = 0 /\ ~destroyed[id].lost
    BY <2>1 DEF OwedOnce, IInv, TypeOK
  <2>3. \A u \in Threads : Popper(u, id)' <=> u = t
    BY <1>3, <1>4, <1>9, <2>1 DEF Popper, OwedOnce
  <2>4. Evicted(id)' = {} /\ Owed(id)'
    BY <1>6, <2>2, <2>3 DEF Evicted, Owed
  <2>5. QED
    BY <1>6, <1>7, <1>9, <2>2, <2>3, <2>4 DEF OwedOnce
<1>10. CASE id = sid /\ id \notin sessions
  <2>1. id \in Removed
    <3>1. \A u \in Threads \ {t} : ~(pc[u] = "insert" /\ call[u].sid = sid)
      BY <1>5 DEF IInv, InsertInv
    <3>2. QED
      BY <1>2, <1>5, <1>10, <3>1 DEF Removed
  <2>2. \A u \in Threads : Popper(u, id)' <=> Popper(u, id)
    BY <1>3, <1>4, <1>5, <1>10 DEF Popper
  <2>3. Evicted(id)' = Evicted(id) /\ Size(id)' = Size(id)
    BY <1>6 DEF Evicted, Size
  <2>4. Owed(id)' <=> Owed(id)
    BY <2>2, <2>3 DEF Owed
  <2>5. QED
    BY <1>6, <1>7, <1>10, <2>1, <2>2, <2>3, <2>4 DEF OwedOnce, Settled
<1>11. QED
  BY <1>8, <1>9, <1>10

(* The report settles what the pop made due, and nothing else.             *)
LEMMA ReportSettles ==
  ASSUME IInv, NEW id \in Ids, OwedOnce(id), NEW t \in Threads, DestroyReport(t)
  PROVE  OwedOnce(id)'
<1> DEFINE sid == call[t].sid
           freed == IF call[t].popped THEN Size(sid) ELSE 0
<1>1. pc[t] = "report" /\ pc'[t] = "ready" /\ janitor' = janitor
  BY DEF DestroyReport, Finish, Goto, IInv, TypeOK, daemon
<1>2. UNCHANGED <<sessions, object, allocated>>
  BY DEF DestroyReport, store
<1>3. \A u \in Threads \ {t} : pc'[u] = pc[u] /\ call'[u] = call[u]
  BY OthersUnmoved DEF Continue, IInv
<1>4. sid \in allocated /\ sid \in Ids
  BY <1>1 DEF IInv, CallInv, TypeOK
<1>5. id \in Removed' <=> id \in Removed
  <2>1. Next
    BY DEF Next, Continue
  <2>2. QED
    BY <1>2, <2>1, RemovedGrows, RemovedStays
<1>6. Evicted(id)' = Evicted(id) /\ Size(id)' = Size(id)
  BY <1>1, <1>2 DEF Evicted, Size
<1>7. \A u \in Threads : Popper(u, id)' <=> Popper(u, id) /\ u # t
  BY <1>1, <1>3 DEF Popper
<1>8. \A u \in Threads :
        pc'[u] = "report" /\ call'[u].sid = id => pc[u] = "report" /\ call[u].sid = id
  BY <1>1, <1>3
<1>9. destroyed[id].reports \in Nat /\ destroyed[id].freed \in Nat
  BY DEF IInv, TypeOK
<1>10. CASE id # sid
  <2>1. destroyed'[id] = destroyed[id]
    BY <1>4, <1>10 DEF DestroyReport, Report, IInv, TypeOK
  <2>2. \A u \in Threads : Popper(u, id)' <=> Popper(u, id)
    BY <1>7, <1>10 DEF Popper
  <2>3. Owed(id)' <=> Owed(id)
    BY <1>6, <2>2 DEF Owed
  <2>4. QED
    BY <1>5, <1>6, <1>8, <2>1, <2>2, <2>3 DEF OwedOnce, Settled
<1>11. CASE id = sid
  <2>1. /\ destroyed'[id].reports = destroyed[id].reports + 1
        /\ destroyed'[id].freed = destroyed[id].freed + freed
        /\ destroyed'[id].lost = destroyed[id].lost
    BY <1>4, <1>11 DEF DestroyReport, Report, IInv, TypeOK
  <2>2. id \in Removed
    BY <1>1, <1>11 DEF OwedOnce
  <2>3. Size(id) \in Nat
    BY <1>4, <1>11, ObjectTyped DEF IInv
  <2>4. CASE call[t].popped
    <3>1. Popper(t, id) /\ Owed(id)
      BY <1>1, <1>11, <2>4 DEF Popper, Owed
    <3>2. \A u \in Threads : ~Popper(u, id)'
      BY <1>7, <3>1 DEF OwedOnce
    <3>3. Evicted(id) = {} /\ destroyed[id].freed = 0 /\ ~destroyed[id].lost
      BY <3>1 DEF OwedOnce
    <3>4. ~Owed(id)'
      BY <1>6, <3>2, <3>3 DEF Owed
    <3>5. Settled(id)'
      BY <1>6, <1>9, <1>11, <2>1, <2>3, <2>4, <3>3 DEF Settled
    <3>6. QED
      BY <1>5, <1>6, <1>8, <2>2, <3>2, <3>3, <3>4, <3>5 DEF OwedOnce
  <2>5. CASE ~call[t].popped
    <3>1. \A u \in Threads : Popper(u, id)' <=> Popper(u, id)
      BY <1>7, <2>5 DEF Popper
    <3>2. Owed(id)' <=> Owed(id)
      BY <1>6, <3>1 DEF Owed
    <3>3. destroyed'[id].freed = destroyed[id].freed /\ destroyed'[id].reports > 0
      BY <1>9, <2>1, <2>5
    <3>4. QED
      BY <1>5, <1>6, <1>8, <2>1, <2>2, <3>1, <3>2, <3>3 DEF OwedOnce, Settled
  <2>6. QED
    BY <2>4, <2>5
<1>12. QED
  BY <1>10, <1>11

(* A sweep makes the janitor owe the reports of what it evicts.            *)
LEMMA SweepOwes ==
  ASSUME IInv, SweepInv, NEW id \in Ids, OwedOnce(id), JanitorSweep
  PROVE  OwedOnce(id)'
<1>1. /\ UNCHANGED <<object, allocated, pc, call, destroyed>>
      /\ sessions' = sessions \ Stale
      /\ Evicted(id) = {}
  BY DEF JanitorSweep, SweepInv, Evicted
<1>2. janitor'.evicted = {<<i, Size(i)>> : i \in Stale}
  BY DEF JanitorSweep
<1>3. /\ \A u \in Threads : Popper(u, id)' <=> Popper(u, id)
      /\ Size(id)' = Size(id)
  BY <1>1 DEF Popper, Size
<1>4. CASE id \in Stale
  <2>1. id \in sessions /\ id \in allocated
    BY <1>4 DEF Stale, IInv, TypeOK
  <2>2. id \notin Removed
    BY <2>1 DEF Removed
  <2>3. id \in Removed'
    BY <1>1, <1>4, <2>1 DEF Removed, IInv, InsertInv
  <2>4. Evicted(id)' = {<<id, Size(id)>>}
    BY <1>2, <1>4 DEF Evicted
  <2>5. \A u \in Threads : ~Popper(u, id) /\ ~(pc[u] = "report" /\ call[u].sid = id)
    BY <2>2 DEF OwedOnce, Popper
  <2>6. destroyed[id].freed = 0 /\ ~destroyed[id].lost
    BY <2>2 DEF OwedOnce
  <2>7. Owed(id)'
    BY <2>4 DEF Owed
  <2>8. QED
    BY <1>1, <1>3, <2>3, <2>4, <2>5, <2>6, <2>7 DEF OwedOnce
<1>5. CASE id \notin Stale
  <2>1. id \in Removed' <=> id \in Removed
    BY <1>1, <1>5 DEF Removed
  <2>2. Evicted(id)' = {}
    BY <1>2, <1>5 DEF Evicted
  <2>3. Owed(id)' <=> Owed(id)
    BY <1>1, <1>3, <2>2 DEF Owed
  <2>4. QED
    BY <1>1, <1>3, <2>1, <2>2, <2>3 DEF OwedOnce, Settled
<1>6. QED
  BY <1>4, <1>5

(* The audit pays them one by one, or loses the entry.                     *)
LEMMA AuditSettles ==
  ASSUME IInv, NEW id \in Ids, OwedOnce(id), JanitorAudit \/ JanitorAuditFails,
         \A i \in Ids : Evicted(i) \subseteq {<<i, Size(i)>>}
  PROVE  OwedOnce(id)'
<1>1. PICK e \in janitor.evicted :
        /\ Report(e[1], e[2]) \/ destroyed' = [destroyed EXCEPT ![e[1]].lost = TRUE]
        /\ janitor' = [janitor EXCEPT !.evicted = @ \ {e}]
  BY DEF JanitorAudit, JanitorAuditFails
<1>2. e \in Ids \X Nat /\ e[1] \in Ids /\ e[2] \in Nat /\ e = <<e[1], e[2]>>
  BY DEF IInv, TypeOK
<1>3. e[2] = Size(e[1])
  BY <1>2 DEF Evicted
<1>4. UNCHANGED <<sessions, object, allocated, pc, call>>
  BY DEF JanitorAudit, JanitorAuditFails, store
<1>5. /\ \A u \in Threads : Popper(u, id)' <=> Popper(u, id)
      /\ Size(id)' = Size(id) /\ (id \in Removed' <=> id \in Removed)
  BY <1>4 DEF Popper, Size, Removed
<1>6. janitor'.evicted = janitor.evicted \ {e}
  BY <1>1 DEF IInv, TypeOK
<1>7. destroyed[id].reports \in Nat /\ destroyed[id].freed \in Nat
  BY DEF IInv, TypeOK
<1>8. CASE id # e[1]
  <2>1. destroyed'[id] = destroyed[id]
    BY <1>1, <1>2, <1>8 DEF Report, IInv, TypeOK
  <2>2. Evicted(id)' = Evicted(id)
    BY <1>6, <1>8 DEF Evicted
  <2>3. Owed(id)' <=> Owed(id)
    BY <1>5, <2>2 DEF Owed
  <2>4. QED
    BY <1>4, <1>5, <2>1, <2>2, <2>3 DEF OwedOnce, Settled
<1>9. CASE id = e[1]
  <2>1. \/ /\ destroyed'[id].reports = destroyed[id].reports + 1
           /\ destroyed'[id].freed = destroyed[id].freed + Size(id)
           /\ destroyed'[id].lost = destroyed[id].lost
        \/ destroyed'[id].lost /\ destroyed'[id].freed = destroyed[id].freed
             /\ destroyed'[id].reports = destroyed[id].reports
    <3>1. CASE Report(e[1], e[2])
      BY <1>2, <1>3, <1>9, <3>1 DEF Report, IInv, TypeOK
    <3>2. CASE destroyed' = [destroyed EXCEPT ![e[1]].lost = TRUE]
      BY <1>2, <1>9, <3>2 DEF IInv, TypeOK
    <3>3. QED
      BY <1>1, <3>1, <3>2
  <2>2. e \in Evicted(id) /\ Owed(id)
    BY <1>9 DEF Evicted, Owed
  <2>3. Evicted(id)' = {}
    BY <1>6, <1>9, <2>2, <1>2, <1>3 DEF Evicted, OwedOnce
  <2>4. /\ id \in Removed /\ destroyed[id].freed = 0 /\ ~destroyed[id].lost
        /\ \A u \in Threads : ~Popper(u, id)
    BY <2>2 DEF OwedOnce
  <2>5. ~Owed(id)'
    BY <1>5, <2>3, <2>4 DEF Owed
  <2>6. Settled(id)'
    BY <1>2, <1>3, <1>5, <1>7, <1>9, <2>1, <2>4 DEF Settled
  <2>7. QED
    BY <1>4, <1>5, <2>3, <2>4, <2>5, <2>6 DEF OwedOnce
<1>10. QED
  BY <1>8, <1>9

LEMMA SweepStep == TypeOK /\ SweepInv /\ Next => SweepInv'
<1> SUFFICES ASSUME TypeOK, SweepInv, Next PROVE SweepInv'
  OBVIOUS
<1>1. CASE JanitorWake \/ JanitorSweep \/ JanitorAudit \/ JanitorAuditFails \/ JanitorSleep
  <2>1. janitor \in [at : {"sleep", "sweep", "audit"}, cutoff : Int, evicted : SUBSET (Ids \X Nat)]
    BY DEF TypeOK
  <2>2. CASE JanitorWake
    BY <2>1, <2>2 DEF JanitorWake, SweepInv
  <2>3. CASE JanitorSweep
    <3>1. janitor'.at = "audit"
      BY <2>3 DEF JanitorSweep
    <3>2. QED
      BY <3>1 DEF SweepInv
  <2>4. CASE JanitorAudit \/ JanitorAuditFails
    <3>1. janitor'.at = "audit"
      BY <2>1, <2>4 DEF JanitorAudit, JanitorAuditFails
    <3>2. QED
      BY <3>1 DEF SweepInv
  <2>5. CASE JanitorSleep
    BY <2>1, <2>5 DEF JanitorSleep, SweepInv
  <2>6. QED
    BY <1>1, <2>2, <2>3, <2>4, <2>5
<1>2. ASSUME janitor' = janitor
      PROVE  SweepInv'
  BY <1>2 DEF SweepInv
<1>3. ASSUME NEW t \in Threads, Begin(t) \/ Continue(t)
      PROVE  janitor' = janitor
  BY <1>3
     DEF Begin, Continue, ReadOnly, CreateBuild, CreateInsert, RunSnapshot, RunRefused,
         ApplyCdRaises, RunExecute, RunCheck, RunReply, ApplyFailedCommand,
         ApplyToMissing, ApplyCd, ApplyExport, ApplyUnset, ApplyDone, EnsureCheck,
         EnsureStarted, EnsureStart, EnsureStartFails, DestroyLookup, DestroyPop,
         DestroyReport, daemon, vars
<1>4. CASE Tick
  BY <1>2, <1>4 DEF Tick, daemon
<1>5. QED
  BY <1>1, <1>2, <1>3, <1>4 DEF Next, Janitor

LEMMA NextReportInv == IInv /\ ReportInv /\ [Next]_vars => ReportInv'
<1> SUFFICES ASSUME IInv, ReportInv, [Next]_vars PROVE ReportInv'
  OBVIOUS
<1>1. CASE UNCHANGED vars
  BY <1>1
     DEF vars, ReportInv, SweepInv, OwedOnce, Settled, Owed, Popper, Evicted, Removed, Size
<1>2. CASE Next
  <2> SUFFICES ASSUME NEW id \in Ids PROVE OwedOnce(id)'
    BY <1>2, SweepStep DEF ReportInv, IInv
  <2>1. OwedOnce(id) /\ SweepInv
    BY DEF ReportInv
  <2>2. ASSUME NEW t \in Threads, DestroyPop(t)
        PROVE  OwedOnce(id)'
    BY <2>1, <2>2, PopOwes
  <2>3. ASSUME NEW t \in Threads, DestroyReport(t)
        PROVE  OwedOnce(id)'
    BY <2>1, <2>3, ReportSettles
  <2>4. CASE JanitorSweep
    BY <2>1, <2>4, SweepOwes
  <2>5. CASE JanitorAudit \/ JanitorAuditFails
    BY <2>1, <2>5, AuditSettles DEF ReportInv, OwedOnce
  <2> DEFINE Kept == /\ sessions \subseteq sessions' /\ destroyed' = destroyed
                     /\ janitor'.evicted = janitor.evicted
             Still(u) == IF pc[u] = "report" THEN pc'[u] = "report" /\ call'[u] = call[u]
                                             ELSE pc'[u] # "report"
  <2>6. ASSUME Kept, \A u \in Threads : Still(u)
        PROVE  OwedOnce(id)'
    BY <1>2, <2>1, <2>6, ReportsAlone
  <2>7. CASE JanitorWake \/ JanitorSleep \/ Tick
    <3>1. Kept /\ pc' = pc /\ call' = call
      BY <2>7 DEF JanitorWake, JanitorSleep, Tick, store, daemon, IInv, TypeOK
    <3>2. QED
      BY <2>6, <3>1
  <2>8. ASSUME NEW t \in Threads, Begin(t) \/ Continue(t), ~DestroyPop(t), ~DestroyReport(t)
        PROVE  OwedOnce(id)'
    <3>1. Kept
      BY <2>8
         DEF Begin, Continue, ReadOnly, CreateBuild, CreateInsert, RunSnapshot, RunRefused,
             ApplyCdRaises, RunExecute, RunCheck, RunReply, ApplyFailedCommand,
             ApplyToMissing, ApplyCd, ApplyExport, ApplyUnset, ApplyDone, EnsureCheck,
             EnsureStarted, EnsureStart, EnsureStartFails, DestroyLookup, store, daemon, vars
    <3>2. \A u \in Threads \ {t} : Still(u)
      BY <2>8, OthersUnmoved DEF IInv
    <3>3. Still(t)
      <4>1. CASE ReadOnly(t)
        BY <4>1 DEF ReadOnly, vars
      <4>2. ASSUME pc[t] # "report", NEW label \in Labels \ {"report"}, Goto(t, label)
            PROVE  Still(t)
        BY <4>2 DEF Goto, IInv, TypeOK
      <4>3. ASSUME pc[t] # "report", Finish(t) PROVE Still(t)
        BY <4>2, <4>3 DEF Finish, Labels
      <4>4. ASSUME pc[t] # "report", AfterEnsure(t) PROVE Still(t)
        BY <4>2, <4>3, <4>4 DEF AfterEnsure, Labels
      <4>5. CASE ApplyExport(t) \/ ApplyUnset(t)
        BY <4>5 DEF ApplyExport, ApplyUnset
      <4>6. CASE \/ \E i \in Ids, dir \in StartDirs : CreateBuild(t, i, dir)
                 \/ \E i \in Ids, c \in Commands : RunSnapshot(t, i, c)
                 \/ \E i \in Ids : DestroyLookup(t, i)
                 \/ CreateInsert(t) \/ ApplyFailedCommand(t) \/ ApplyToMissing(t)
                 \/ ApplyCd(t) \/ ApplyDone(t) \/ RunExecute(t)
        BY <4>2, <4>6
           DEF CreateBuild, RunSnapshot, DestroyLookup, CreateInsert, ApplyFailedCommand,
               ApplyToMissing, ApplyCd, ApplyDone, RunExecute, Labels
      <4>7. CASE \/ RunRefused(t) \/ ApplyCdRaises(t) \/ RunReply(t)
                 \/ EnsureStartFails(t) \/ RunCheck(t)
        BY <4>2, <4>3, <4>7
           DEF RunRefused, ApplyCdRaises, RunReply, EnsureStartFails, RunCheck, Labels
      <4>8. CASE EnsureCheck(t) \/ EnsureStarted(t) \/ EnsureStart(t)
        BY <4>2, <4>4, <4>8 DEF EnsureCheck, EnsureStarted, EnsureStart, Labels
      <4>9. QED
        BY <2>8, <4>1, <4>5, <4>6, <4>7, <4>8 DEF Begin, Continue
    <3>4. QED
      BY <2>6, <3>1, <3>2, <3>3
  <2>9. QED
    BY <1>2, <2>2, <2>3, <2>4, <2>5, <2>7, <2>8 DEF Next, Janitor
<1>3. QED
  BY <1>1, <1>2

LEMMA InitReportInv == Init => ReportInv
<1> SUFFICES ASSUME Init PROVE ReportInv
  OBVIOUS
<1>1. SweepInv
  BY DEF Init, SweepInv
<1>2. ASSUME NEW id \in Ids PROVE OwedOnce(id)
  <2>1. /\ allocated = {} /\ janitor.evicted = {}
        /\ destroyed[id] = [reports |-> 0, freed |-> 0, lost |-> FALSE]
        /\ \A t \in Threads : pc[t] = "ready"
    BY DEF Init
  <2>2. \A i : i \notin Removed
    BY <2>1 DEF Removed
  <2>3. Evicted(id) = {}
    BY <2>1 DEF Evicted
  <2>4. QED
    BY <2>1, <2>2, <2>3 DEF OwedOnce, Popper
<1>3. QED
  BY <1>1, <1>2 DEF ReportInv

(* Who took a session out of the store owes one report of it, which is     *)
(* given or, the janitor's only, lost; nobody else adds to what it freed.  *)
THEOREM ReportsInvariant == Spec => []ReportInv
  BY InitReportInv, NextReportInv, SessionsInvariant, PTL DEF Spec

(* For any number of destroy calls racing with the janitor, what is        *)
(* reported DESTROYED is gone, and what is gone has been reported, has a   *)
(* report due, or was evicted with an audit entry that was lost.           *)
THEOREM EveryRemovalIsReported == Spec => []ReportsMatchRemovals
<1>1. IInv /\ ReportInv => ReportsMatchRemovals
  <2> SUFFICES ASSUME IInv, ReportInv, NEW id \in Ids
               PROVE  /\ destroyed[id].reports > 0 => id \in Removed
                      /\ id \in Removed =>
                           destroyed[id].reports > 0 \/ Owed(id) \/ destroyed[id].lost
    BY DEF ReportsMatchRemovals, Owed, Removed, IInv, TypeOK
  <2>1. QED
    BY DEF ReportInv, OwedOnce, Settled
<1>2. QED
  BY <1>1, SessionsInvariant, ReportsInvariant, PTL

(* However many calls report a session destroyed, together they say that   *)
(* each of its variables was freed once; or none of them, if the report is *)
(* still due or was an eviction's that got lost.                           *)
THEOREM VariablesFreedOnce == Spec => []FreedOnce
<1>1. IInv /\ ReportInv => FreedOnce
  <2> SUFFICES ASSUME IInv, ReportInv, NEW id \in Removed
               PROVE  \/ destroyed[id].freed = Size(id)
                      \/ destroyed[id].freed = 0 /\ (Owed(id) \/ destroyed[id].lost)
    BY DEF FreedOnce, Owed
  <2>1. id \in Ids
    BY DEF Removed, IInv, TypeOK
  <2>2. QED
    BY <2>1 DEF ReportInv, OwedOnce, Settled
<1>2. QED
  BY <1>1, SessionsInvariant, ReportsInvariant, PTL
=============================================================================
