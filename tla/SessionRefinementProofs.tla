------------------------ MODULE SessionRefinementProofs ------------------------
(***************************************************************************)
(* Two proofs about what callers see of the session store: that it         *)
(* implements SessionRegistry, where an update is one step, and that the   *)
(* reply of a session run confirms the update its own command made.  Both  *)
(* rest on one fact: what a session counts as (Merged) is changed by the   *)
(* cd write that begins an update, and by no other step.                   *)
(***************************************************************************)
EXTENDS SessionRefinement, SessionReplies, SessionsProofs, SessionStateProofs

(* A session being created is empty, a command in flight is the caller's,  *)
(* and an update begins with the cd.                                       *)
MappedThread(t) ==
  /\ pc[t] = "insert" => object[call[t].sid].env = EmptyEnv
  /\ pc[t] \in {"exec", "check", "apply"} => call[t].cmd \in Commands
  /\ pc[t] = "update" => call[t].cmd.cd \in {Nil, object[call[t].sid].cwd}

MappingInv == \A t \in Threads : MappedThread(t)

(* What the session is in the registry, while its writer is at work and    *)
(* otherwise.                                                              *)
LEMMA MergedWriting ==
  ASSUME TypeOK, NEW t \in Threads, lock = t, NEW id
  PROVE  Merged(id) = IF call[t].sid = id THEN After(Now(id), call[t].cmd) ELSE Now(id)
<1> DEFINE writing == {u \in Threads : lock = u /\ call[u].sid = id}
<1>1. CASE call[t].sid = id
  <2>1. writing = {t}
    BY <1>1
  <2>2. (CHOOSE u \in writing : TRUE) = t
    BY <2>1
  <2>3. QED
    BY <1>1, <2>1, <2>2 DEF Merged, Now
<1>2. CASE call[t].sid # id
  <2>1. writing = {}
    BY <1>2
  <2>2. QED
    BY <1>2, <2>1 DEF Merged, Now
<1>3. QED
  BY <1>1, <1>2

LEMMA MergedFree ==
  ASSUME lock = Nil, NEW id
  PROVE  Merged(id) = Now(id)
<1>1. {u \in Threads : lock = u /\ call[u].sid = id} = {}
  BY IdsAssumption
<1>2. QED
  BY <1>1 DEF Merged, Now

LEMMA MergedWritingNext ==
  ASSUME NEW t \in Threads, lock' = t, NEW id
  PROVE  Merged(id)' = IF call'[t].sid = id THEN After(Now(id)', call'[t].cmd) ELSE Now(id)'
<1> DEFINE writing == {u \in Threads : lock' = u /\ call'[u].sid = id}
<1>1. CASE call'[t].sid = id
  <2>1. writing = {t}
    BY <1>1
  <2>2. (CHOOSE u \in writing : TRUE) = t
    BY <2>1
  <2>3. QED
    BY <1>1, <2>1, <2>2 DEF Merged, Now
<1>2. CASE call'[t].sid # id
  <2>1. writing = {}
    BY <1>2
  <2>2. QED
    BY <1>2, <2>1 DEF Merged, Now
<1>3. QED
  BY <1>1, <1>2

LEMMA MergedFreeNext ==
  ASSUME lock' = Nil, NEW id
  PROVE  Merged(id)' = Now(id)'
<1>1. {u \in Threads : lock' = u /\ call'[u].sid = id} = {}
  BY IdsAssumption
<1>2. QED
  BY <1>1 DEF Merged, Now

(* The rest of an update can be folded after its next write.               *)
LEMMA AfterCd ==
  ASSUME NEW s, NEW r, NEW u, r.env = s.env, r.cwd = IF u.cd = Nil THEN s.cwd ELSE u.cd
  PROVE  After(r, u) = After(s, u)
  BY DEF After

LEMMA AfterExport ==
  ASSUME NEW s \in View, NEW r \in View, NEW u \in Update, u.exports # <<>>,
         r.cwd = s.cwd, r.env = Export(s.env, Head(u.exports))
  PROVE  After(r, [u EXCEPT !.exports = Tail(u.exports)]) = After(s, u)
<1> DEFINE rest == [u EXCEPT !.exports = Tail(u.exports)]
<1>1. s.env \in Env /\ u.exports \in Seq(Assignment)
  BY DEF View, Update
<1>2. rest.cd = u.cd /\ rest.exports = Tail(u.exports) /\ rest.unsets = u.unsets
  BY DEF Update
<1>3. FoldLeft(Export, s.env, u.exports) = FoldLeft(Export, r.env, rest.exports)
  BY <1>1, <1>2, ExportsUnfold
<1>4. QED
  BY <1>2, <1>3 DEF After

LEMMA AfterUnset ==
  ASSUME NEW s \in View, NEW r \in View, NEW u \in Update, u.exports = <<>>, u.unsets # <<>>,
         r.cwd = s.cwd, r.env = Unset(s.env, Head(u.unsets))
  PROVE  After(r, [u EXCEPT !.unsets = Tail(u.unsets)]) = After(s, u)
<1> DEFINE rest == [u EXCEPT !.unsets = Tail(u.unsets)]
<1>1. s.env \in Env /\ r.env \in Env /\ u.unsets \in Seq(Names) /\ u.exports \in Seq(Assignment)
  BY DEF View, Update
<1>2. rest.cd = u.cd /\ rest.exports = u.exports /\ rest.unsets = Tail(u.unsets)
  BY DEF Update
<1>3. FoldLeft(Export, s.env, u.exports) = s.env /\ FoldLeft(Export, r.env, rest.exports) = r.env
  BY <1>1, <1>2, ExportsUnfold
<1>4. FoldLeft(Unset, s.env, u.unsets) = FoldLeft(Unset, r.env, rest.unsets)
  BY <1>1, <1>2, UnsetsUnfold
<1>5. QED
  BY <1>2, <1>3, <1>4 DEF After

(* What is still to write starts from what the session holds.              *)
LEMMA AfterNothing ==
  ASSUME NEW s \in View, NEW u \in Update, u.exports = <<>>, u.unsets = <<>>,
         u.cd \in {Nil, s.cwd}
  PROVE  After(s, u) = s
<1>0. s.env \in Env
  BY DEF View
<1>1. FoldLeft(Export, s.env, u.exports) = s.env
  BY <1>0, ExportsUnfold DEF Update
<1>2. FoldLeft(Unset, s.env, u.unsets) = s.env
  BY <1>0, UnsetsUnfold DEF Update
<1>3. QED
  BY <1>1, <1>2 DEF After, View

-----------------------------------------------------------------------------
Updates(t) == ApplyCd(t) \/ ApplyExport(t) \/ ApplyUnset(t) \/ ApplyDone(t)

(* Nothing but an update writes cwd or environment of a session, takes or  *)
(* releases the lock, or moves the lock's holder.                          *)
LEMMA OnlyUpdatesWrite ==
  ASSUME IInv, Next, \A t \in Threads : ~Updates(t), NEW id \in allocated
  PROVE  /\ lock' = lock /\ Now(id)' = Now(id)
         /\ \A u \in Threads : lock = u => call'[u] = call[u] /\ pc'[u] = pc[u]
<1> DEFINE Quiet == /\ lock' = lock /\ Now(id)' = Now(id)
                    /\ \A u \in Threads : lock = u => call'[u] = call[u] /\ pc'[u] = pc[u]
<1>1. TypeOK /\ id \in Ids /\ object[id] \in Session
      /\ \A u \in Threads : lock = u => pc[u] = "update"
  BY DEF IInv, TypeOK, LockInv
<1>2. ASSUME NEW t \in Threads, Begin(t) \/ Continue(t), pc[t] # "update",
             lock' = lock, Now(id)' = Now(id)
      PROVE  Quiet
  <2>1. \A u \in Threads : lock = u => u \in Threads \ {t}
    BY <1>1, <1>2
  <2>2. QED
    BY <2>1, <1>1, <1>2, OthersUnmoved
<1>3. ASSUME NEW t \in Threads, Begin(t) PROVE Quiet
  <2>1. CASE ReadOnly(t)
    BY <2>1 DEF ReadOnly, vars, Now
  <2>2. ASSUME NEW i \in Ids, NEW dir \in StartDirs, CreateBuild(t, i, dir) PROVE Quiet
    <3>1. lock' = lock /\ pc[t] # "update" /\ Now(id)' = Now(id)
      BY <1>1, <2>2 DEF CreateBuild, Now, TypeOK
    <3>2. QED
      BY <1>2, <1>3, <3>1
  <2>3. ASSUME NEW i \in Ids, NEW c \in Commands, RunSnapshot(t, i, c) PROVE Quiet
    BY <1>2, <1>3, <2>3 DEF RunSnapshot, store, Now
  <2>4. ASSUME NEW i \in Ids, DestroyLookup(t, i) PROVE Quiet
    BY <1>2, <1>3, <2>4 DEF DestroyLookup, store, Now
  <2>5. QED
    BY <1>3, <2>1, <2>2, <2>3, <2>4 DEF Begin
<1>4. ASSUME NEW t \in Threads, Continue(t) PROVE Quiet
  <2>1. CASE ApplyFailedCommand(t)
    <3>1. lock' = lock /\ pc[t] # "update" /\ Now(id)' = Now(id)
      BY <1>1, <2>1 DEF ApplyFailedCommand, Touch, Now, TypeOK, Session
    <3>2. QED
      BY <1>2, <1>4, <3>1
  <2>2. CASE ~ApplyFailedCommand(t)
    <3>1. lock' = lock /\ pc[t] # "update" /\ object' = object
      BY <1>4, <2>2
         DEF Continue, Updates, CreateInsert, RunRefused, RunExecute, RunCheck, RunReply,
             ApplyToMissing, ApplyCdRaises, EnsureCheck, EnsureStarted, EnsureStart,
             EnsureStartFails, DestroyPop, DestroyReport, store
    <3>2. QED
      BY <1>2, <1>4, <3>1 DEF Now
  <2>3. QED
    BY <2>1, <2>2
<1>5. CASE Janitor \/ Tick
  BY <1>5 DEF Janitor, JanitorWake, JanitorSweep, JanitorAudit, JanitorAuditFails,
              JanitorSleep, Tick, store, Now
<1>6. QED
  BY <1>3, <1>4, <1>5 DEF Next

(* An updating thread edits a typed session with a typed command.          *)
LEMMA UpdateTyped ==
  ASSUME IInv, NEW t \in Threads, Updates(t)
  PROVE  /\ call[t].sid \in allocated /\ call[t].cmd \in Update
         /\ call[t].sid \in sessions /\ object[call[t].sid] \in Session
         /\ Now(call[t].sid) \in View
<1>1. pc[t] \in {"apply", "update"} /\ (pc[t] = "apply" => call[t].sid \in sessions)
  BY DEF Updates, ApplyCd, ApplyExport, ApplyUnset, ApplyDone
<1>2. call[t].sid \in allocated /\ call[t].cmd \in Update /\ call[t].sid \in sessions
  BY <1>1 DEF IInv, CallInv, LockInv
<1>3. object[call[t].sid] \in Session
  BY <1>2 DEF IInv, TypeOK
<1>4. QED
  BY <1>2, <1>3 DEF Now, View, Session

(* The write of the cd is the moment at which the whole update counts.     *)
LEMMA CdMerges ==
  ASSUME IInv, NEW t \in Threads, ApplyCd(t), NEW id \in allocated
  PROVE  /\ Merged(id) = Now(id)
         /\ Merged(id)' = IF id = call[t].sid THEN After(Now(id), call[t].cmd) ELSE Now(id)
<1>1. lock = Nil /\ lock' = t /\ call' = call
  BY DEF ApplyCd, Free
<1>2. Merged(id) = Now(id)
  BY <1>1, MergedFree
<1>3. Merged(id)' = IF call[t].sid = id THEN After(Now(id)', call[t].cmd) ELSE Now(id)'
  BY <1>1, MergedWritingNext
<1>4. CASE id = call[t].sid
  <2>1. Now(id)'.env = Now(id).env
        /\ Now(id)'.cwd = IF call[t].cmd.cd = Nil THEN Now(id).cwd ELSE call[t].cmd.cd
    BY <1>4, UpdateTyped DEF ApplyCd, Now, Updates, IInv, TypeOK, Session
  <2>2. After(Now(id)', call[t].cmd) = After(Now(id), call[t].cmd)
    BY <2>1, AfterCd
  <2>3. QED
    BY <1>2, <1>3, <1>4, <2>2
<1>5. CASE id # call[t].sid
  <2>1. object'[id] = object[id]
    BY <1>5 DEF ApplyCd, IInv, TypeOK
  <2>2. QED
    BY <1>2, <1>3, <1>5, <2>1 DEF Now
<1>6. QED
  BY <1>4, <1>5

(* No other step changes what a session counts as.                         *)
LEMMA MergedKept ==
  ASSUME IInv, MappingInv, Next, NEW id \in allocated,
         \A t \in Threads : ~(ApplyCd(t) /\ call[t].sid = id)
  PROVE  Merged(id)' = Merged(id)
<1>1. TypeOK /\ id \in Ids /\ object[id] \in Session /\ object \in [Ids -> Session \cup {Nil}]
      /\ lock \in Threads \cup {Nil}
  BY DEF IInv, TypeOK
<1>2. ASSUME NEW t \in Threads, ApplyCd(t) PROVE Merged(id)' = Merged(id)
  BY <1>2, CdMerges
<1>3. ASSUME NEW t \in Threads, ApplyExport(t) \/ ApplyUnset(t) PROVE Merged(id)' = Merged(id)
  <2> DEFINE sid == call[t].sid
             c == call[t].cmd
  <2>1. pc[t] = "update" /\ lock' = lock
    BY <1>3 DEF ApplyExport, ApplyUnset
  <2>2. lock = t /\ lock' = t
    BY <2>1 DEF IInv, LockInv
  <2>3. sid \in allocated /\ c \in Update /\ object[sid] \in Session /\ Now(sid) \in View
    BY <1>3, UpdateTyped DEF Updates
  <2>4. call[t] \in Call /\ call \in [Threads -> Call]
    BY <1>1 DEF TypeOK
  <2>5. call'[t].sid = sid
    BY <1>3, <2>4 DEF ApplyExport, ApplyUnset, Call
  <2>6. /\ Merged(id) = IF sid = id THEN After(Now(id), c) ELSE Now(id)
        /\ Merged(id)' = IF sid = id THEN After(Now(id)', call'[t].cmd) ELSE Now(id)'
    BY <1>1, <2>2, <2>5, MergedWriting, MergedWritingNext
  <2>7. CASE sid # id
    <3>1. object'[id] = object[id]
      BY <1>1, <1>3, <2>7 DEF ApplyExport, ApplyUnset
    <3>2. QED
      BY <2>6, <2>7, <3>1 DEF Now
  <2>8. CASE sid = id /\ ApplyExport(t)
    <3> DEFINE rest == [c EXCEPT !.exports = Tail(c.exports)]
               e == Export(object[id].env, Head(c.exports))
    <3>1. c.exports # <<>> /\ e \in Env
      <4>1. Head(c.exports) \in Assignment /\ c.exports # <<>>
        BY <2>3, <2>8 DEF ApplyExport, Update
      <4>2. QED
        BY <1>1, <4>1, ExportTyped DEF Session
    <3>2. call'[t].cmd = rest
      <4> HIDE DEF rest
      <4>1. call' = [call EXCEPT ![t].cmd = rest]
        BY <2>4, <2>8 DEF ApplyExport, rest
      <4>2. QED
        BY <2>4, <4>1 DEF Call
    <3>3. object'[id] = [object[id] EXCEPT !.env = e]
      BY <1>1, <2>8 DEF ApplyExport
    <3>4. Now(id)'.cwd = Now(id).cwd /\ Now(id)'.env = e /\ Now(id)' \in View
      <4> HIDE DEF e
      <4> QED BY <1>1, <3>1, <3>3 DEF Now, Session, View
    <3>5. After(Now(id)', rest) = After(Now(id), c)
      <4>1. e = Export(Now(id).env, Head(c.exports))
        BY DEF Now
      <4> HIDE DEF e
      <4> QED BY <2>3, <2>8, <3>1, <3>4, <4>1, AfterExport
    <3>6. QED
      BY <2>6, <2>8, <3>2, <3>5
  <2>9. CASE sid = id /\ ApplyUnset(t)
    <3> DEFINE rest == [c EXCEPT !.unsets = Tail(c.unsets)]
               e == Unset(object[id].env, Head(c.unsets))
    <3>1. c.exports = <<>> /\ c.unsets # <<>> /\ e \in Env
      <4>1. Head(c.unsets) \in Names /\ c.unsets # <<>> /\ c.exports = <<>>
        BY <2>3, <2>9 DEF ApplyUnset, Update
      <4>2. QED
        BY <1>1, <4>1, UnsetTyped DEF Session
    <3>2. call'[t].cmd = rest
      <4> HIDE DEF rest
      <4>1. call' = [call EXCEPT ![t].cmd = rest]
        BY <2>4, <2>9 DEF ApplyUnset, rest
      <4>2. QED
        BY <2>4, <4>1 DEF Call
    <3>3. object'[id] = [object[id] EXCEPT !.env = e]
      BY <1>1, <2>9 DEF ApplyUnset
    <3>4. Now(id)'.cwd = Now(id).cwd /\ Now(id)'.env = e /\ Now(id)' \in View
      <4> HIDE DEF e
      <4> QED BY <1>1, <3>1, <3>3 DEF Now, Session, View
    <3>5. After(Now(id)', rest) = After(Now(id), c)
      <4>1. e = Unset(Now(id).env, Head(c.unsets))
        BY DEF Now
      <4> HIDE DEF e
      <4> QED BY <2>3, <2>9, <3>1, <3>4, <4>1, AfterUnset
    <3>6. QED
      BY <2>6, <2>9, <3>2, <3>5
  <2>10. QED
    BY <1>3, <2>7, <2>8, <2>9
<1>4. ASSUME NEW t \in Threads, ApplyDone(t) PROVE Merged(id)' = Merged(id)
  <2>1. pc[t] = "update" /\ lock' = Nil /\ call[t].cmd.exports = <<>> /\ call[t].cmd.unsets = <<>>
    BY <1>4 DEF ApplyDone
  <2>2. lock = t
    BY <2>1 DEF IInv, LockInv
  <2>3. Now(id)' = Now(id)
    BY <1>1, <1>4 DEF ApplyDone, Touch, Now, Session
  <2>4. Merged(id)' = Now(id)
    BY <2>1, <2>3, MergedFreeNext
  <2>5. Merged(id) = IF call[t].sid = id THEN After(Now(id), call[t].cmd) ELSE Now(id)
    BY <1>1, <2>2, MergedWriting
  <2>6. call[t].sid = id => After(Now(id), call[t].cmd) = Now(id)
    <3>1. call[t].cmd \in Update /\ Now(call[t].sid) \in View
      BY <1>4, UpdateTyped DEF Updates
    <3>2. call[t].cmd.cd \in {Nil, Now(call[t].sid).cwd}
      BY <2>1 DEF MappingInv, MappedThread, Now
    <3>3. QED
      BY <2>1, <3>1, <3>2, AfterNothing
  <2>7. QED
    BY <2>4, <2>5, <2>6
<1>5. CASE \A t \in Threads : ~Updates(t)
  <2>1. lock' = lock /\ Now(id)' = Now(id) /\ \A u \in Threads : lock = u => call'[u] = call[u]
    BY <1>5, OnlyUpdatesWrite
  <2>2. CASE lock = Nil
    BY <2>1, <2>2, MergedFree, MergedFreeNext
  <2>3. CASE lock \in Threads
    BY <1>1, <2>1, <2>3, MergedWriting, MergedWritingNext
  <2>4. QED
    BY <1>1, <2>2, <2>3
<1>6. QED
  BY <1>2, <1>3, <1>4, <1>5 DEF Updates

(* What a session holds is written by the updates of its own callers.      *)
LEMMA OwnUpdatesWrite ==
  ASSUME IInv, Next, NEW id \in allocated, Now(id)' # Now(id)
  PROVE  \E t \in Threads : Updates(t) /\ call[t].sid = id
<1>1. PICK t \in Threads : Updates(t)
  BY OnlyUpdatesWrite
<1>2. id \in Ids /\ call[t].sid \in Ids
  BY <1>1, UpdateTyped DEF IInv, TypeOK
<1>3. call[t].sid # id => object'[id] = object[id]
  BY <1>1, <1>2 DEF Updates, ApplyCd, ApplyExport, ApplyUnset, ApplyDone, Touch, IInv, TypeOK
<1>4. QED
  BY <1>1, <1>3 DEF Now

(* A thread that does not move is where it was: nobody else writes the     *)
(* session it creates, or the one it updates under the lock.               *)
LEMMA MappedStays ==
  ASSUME IInv, Next, NEW u \in Threads, MappedThread(u), pc'[u] = pc[u], call'[u] = call[u],
         ~Updates(u)
  PROVE  MappedThread(u)'
<1>1. ASSUME pc[u] = "insert" \/ pc[u] = "update"
      PROVE  Now(call[u].sid)' = Now(call[u].sid)
  <2> SUFFICES ASSUME Now(call[u].sid)' # Now(call[u].sid) PROVE FALSE
    OBVIOUS
  <2>1. call[u].sid \in allocated
    BY <1>1 DEF IInv, CallInv
  <2>2. PICK t \in Threads : Updates(t) /\ call[t].sid = call[u].sid
    BY <2>1, OwnUpdatesWrite
  <2>3. t # u
    BY <2>2
  <2>4. pc[t] \in {"apply", "update"} /\ (pc[t] = "apply" => lock = Nil)
    BY <2>2 DEF Updates, ApplyCd, ApplyExport, ApplyUnset, ApplyDone, Free
  <2>5. CASE pc[u] = "insert"
    BY <2>2, <2>3, <2>4, <2>5 DEF IInv, InsertInv
  <2>6. CASE pc[u] = "update"
    BY <2>3, <2>4, <2>6, IdsAssumption DEF IInv, LockInv
  <2>7. QED
    BY <1>1, <2>5, <2>6
<1>2. ASSUME pc[u] = "insert" \/ pc[u] = "update"
      PROVE  object'[call[u].sid].cwd = object[call[u].sid].cwd
          /\ object'[call[u].sid].env = object[call[u].sid].env
  BY <1>1, <1>2 DEF Now
<1>3. QED
  BY <1>2 DEF MappedThread

LEMMA NextMappingInv == IInv /\ MappingInv /\ [Next]_vars => MappingInv'
<1> SUFFICES ASSUME IInv, MappingInv, [Next]_vars PROVE MappingInv'
  OBVIOUS
<1>1. \A t \in Threads : MappedThread(t)
  BY DEF MappingInv
<1>2. CASE UNCHANGED vars
  BY <1>2 DEF vars, MappingInv, MappedThread
<1>3. ASSUME NEW t \in Threads, Begin(t) \/ Continue(t) PROVE MappedThread(t)'
  <2>0. /\ TypeOK /\ pc \in [Threads -> Labels] /\ call \in [Threads -> Call]
        /\ object \in [Ids -> Session \cup {Nil}] /\ call[t] \in Call
    BY DEF IInv, TypeOK
  <2>1. CASE ReadOnly(t)
    BY <1>1, <2>1 DEF ReadOnly, vars, MappedThread
  <2>2. ASSUME NEW id \in Ids, NEW dir \in StartDirs, CreateBuild(t, id, dir) PROVE MappedThread(t)'
    <3>1. pc'[t] = "insert" /\ call'[t].sid = id
      BY <2>0, <2>2 DEF CreateBuild, Goto, Call
    <3>2. object'[id].env = EmptyEnv
      BY <2>0, <2>2 DEF CreateBuild
    <3>3. QED
      BY <3>1, <3>2 DEF MappedThread
  <2>3. ASSUME NEW id \in Ids, NEW c \in Commands, RunSnapshot(t, id, c) PROVE MappedThread(t)'
    <3>1. pc'[t] = "exec" /\ call'[t].cmd = c
      BY <2>0, <2>3 DEF RunSnapshot, Goto, Call
    <3>2. QED
      BY <3>1 DEF MappedThread
  <2>4. CASE RunExecute(t)
    <3>1. pc[t] = "exec" /\ pc'[t] = "check" /\ call'[t].cmd = call[t].cmd
      BY <2>0, <2>4 DEF RunExecute, Goto, Call
    <3>2. QED
      BY <1>1, <3>1 DEF MappedThread
  <2>5. CASE RunCheck(t)
    <3>1. pc[t] = "check" /\ (pc'[t] = "ready" \/ (pc'[t] = "apply" /\ call'[t].cmd = call[t].cmd))
      <4>1. CASE Finish(t)
        BY <2>0, <2>5, <4>1 DEF RunCheck, Goto, Finish
      <4>2. CASE Goto(t, "apply") /\ UNCHANGED call
        BY <2>0, <2>5, <4>2 DEF RunCheck, Goto
      <4>3. QED
        BY <2>5, <4>1, <4>2 DEF RunCheck
    <3>2. QED
      BY <1>1, <3>1 DEF MappedThread
  <2>6. CASE ApplyCd(t)
    <3>1. pc'[t] = "update" /\ call' = call /\ call[t].sid \in Ids /\ object[call[t].sid] \in Session
      BY <2>0, <2>6, UpdateTyped DEF ApplyCd, Goto, Updates, TypeOK
    <3>2. call[t].cmd.cd = Nil \/ object'[call[t].sid].cwd = call[t].cmd.cd
      BY <2>0, <2>6, <3>1 DEF ApplyCd, Session
    <3>3. QED
      BY <3>1, <3>2 DEF MappedThread
  <2>7. CASE ApplyExport(t) \/ ApplyUnset(t)
    <3>1. call[t].sid \in Ids /\ object[call[t].sid] \in Session /\ call[t].cmd \in Update
      BY <2>0, <2>7, UpdateTyped DEF Updates, TypeOK
    <3>2. call'[t].sid = call[t].sid /\ call'[t].cmd.cd = call[t].cmd.cd
      <4> DEFINE c == call[t].cmd
                 r1 == [c EXCEPT !.exports = Tail(c.exports)]
                 r2 == [c EXCEPT !.unsets = Tail(c.unsets)]
      <4>1. r1.cd = c.cd /\ r2.cd = c.cd
        BY <3>1 DEF Update
      <4>2. call' = [call EXCEPT ![t].cmd = r1] \/ call' = [call EXCEPT ![t].cmd = r2]
        BY <2>0, <2>7 DEF ApplyExport, ApplyUnset
      <4> HIDE DEF r1, r2
      <4>3. call'[t].sid = call[t].sid /\ call'[t].cmd \in {r1, r2}
        BY <2>0, <4>2 DEF Call
      <4>4. QED
        BY <4>1, <4>3
    <3>3. object'[call[t].sid].cwd = object[call[t].sid].cwd
      BY <2>0, <2>7, <3>1 DEF ApplyExport, ApplyUnset, Session
    <3>4. pc[t] = "update" /\ pc'[t] = "update"
      BY <2>7 DEF ApplyExport, ApplyUnset
    <3>5. QED
      BY <1>1, <3>2, <3>3, <3>4 DEF MappedThread
  <2>8. CASE /\ ~(ReadOnly(t) \/ RunExecute(t) \/ RunCheck(t) \/ ApplyCd(t))
             /\ ~(ApplyExport(t) \/ ApplyUnset(t)) /\ Continue(t)
    <3>1. pc'[t] \in {"ready", "ensure", "start", "reget", "pop", "report"}
      BY <2>0, <2>8
         DEF Continue, CreateInsert, RunRefused, RunReply, ApplyFailedCommand, ApplyToMissing,
             ApplyCdRaises, ApplyDone, EnsureCheck, EnsureStarted, EnsureStart,
             EnsureStartFails, DestroyPop, DestroyReport, AfterEnsure, Finish, Goto
    <3>2. QED
      BY <3>1 DEF MappedThread
  <2>9. ASSUME NEW id \in Ids, DestroyLookup(t, id) PROVE MappedThread(t)'
    <3>1. pc'[t] = "pop"
      BY <2>0, <2>9 DEF DestroyLookup, Goto
    <3>2. QED
      BY <3>1 DEF MappedThread
  <2>10. QED
    BY <1>3, <2>1, <2>2, <2>3, <2>4, <2>5, <2>6, <2>7, <2>8, <2>9 DEF Begin
<1>4. CASE Next
  <2> SUFFICES ASSUME NEW u \in Threads PROVE MappedThread(u)'
    BY DEF MappingInv
  <2>1. CASE Begin(u) \/ Continue(u)
    BY <1>3, <2>1
  <2>2. CASE ~(Begin(u) \/ Continue(u))
    <3>1. pc'[u] = pc[u] /\ call'[u] = call[u]
      <4>1. CASE \E t \in Threads : Begin(t) \/ Continue(t)
        BY <2>2, <4>1, OthersUnmoved DEF IInv
      <4>2. CASE Janitor \/ Tick
        BY <4>2 DEF Janitor, JanitorWake, JanitorSweep, JanitorAudit, JanitorAuditFails,
                    JanitorSleep, Tick
      <4>3. QED
        BY <1>4, <4>1, <4>2 DEF Next
    <3>2. ~Updates(u)
      BY <2>2 DEF Updates, Continue
    <3>3. QED
      BY <1>1, <1>4, <3>1, <3>2, MappedStays
  <2>3. QED
    BY <2>1, <2>2
<1>5. QED
  BY <1>2, <1>4

LEMMA MappingInvariant == Spec => []MappingInv
<1>1. Init => MappingInv
  BY DEF Init, MappingInv, MappedThread
<1>2. QED
  BY <1>1, NextMappingInv, SessionsInvariant, PTL DEF Spec

-----------------------------------------------------------------------------
(* The registry that the store stands for.                                 *)
RegistryState == [id \in Ids |-> IF id \in sessions \cup Removed THEN Merged(id) ELSE Nil]
RegistryView == [t \in Threads |-> call[t].view]

LEMMA RemovedExactly ==
  ASSUME IInv, Next
  PROVE  Removed' = Removed \cup (sessions \ sessions')
<1>1. Removed' \subseteq Removed \cup (sessions \ sessions')
  BY RemovedGrows
<1>2. Removed \subseteq Removed'
  BY RemovedStays
<1>3. sessions \ sessions' \subseteq Removed'
  <2> SUFFICES ASSUME NEW id \in sessions \ sessions' PROVE id \in Removed'
    OBVIOUS
  <2>1. id \in allocated /\ \A u \in Threads : ~(pc[u] = "insert" /\ call[u].sid = id)
    BY DEF IInv, TypeOK, InsertInv
  <2>2. ASSUME NEW t \in Threads, DestroyPop(t) PROVE id \in Removed'
    <3>1. pc'[t] = "report" /\ allocated' = allocated
      BY <2>2 DEF DestroyPop, Goto, IInv, TypeOK
    <3>2. \A u \in Threads \ {t} : pc'[u] = pc[u] /\ call'[u] = call[u]
      BY <2>2, OthersUnmoved DEF Continue, IInv
    <3>3. QED
      BY <2>1, <3>1, <3>2 DEF Removed
  <2>3. CASE JanitorSweep
    BY <2>1, <2>3 DEF JanitorSweep, Removed
  <2>4. ASSUME NEW t \in Threads, Begin(t) \/ Continue(t), ~DestroyPop(t) PROVE FALSE
    <3>1. CASE Begin(t)
      BY <3>1 DEF Begin, ReadOnly, CreateBuild, RunSnapshot, DestroyLookup, store, vars
    <3>2. CASE Continue(t)
      BY <2>4, <3>2
         DEF Continue, CreateInsert, RunRefused, RunExecute, RunCheck, RunReply,
             ApplyFailedCommand, ApplyToMissing, ApplyCd, ApplyCdRaises, ApplyExport,
             ApplyUnset, ApplyDone, EnsureCheck, EnsureStarted, EnsureStart,
             EnsureStartFails, DestroyReport, store
    <3>3. QED
      BY <2>4, <3>1, <3>2
  <2>5. CASE (Janitor /\ ~JanitorSweep) \/ Tick
    BY <2>5 DEF Janitor, JanitorWake, JanitorAudit, JanitorAuditFails, JanitorSleep, Tick, store
  <2>6. QED
    BY <2>2, <2>3, <2>4, <2>5 DEF Next
<1>4. QED
  BY <1>1, <1>2, <1>3

(* A step without a cd write, and without a new session, leaves every      *)
(* state as it is.                                                         *)
LEMMA StateKept ==
  ASSUME IInv, MappingInv, Next, sessions' \subseteq sessions, \A t \in Threads : ~ApplyCd(t)
  PROVE  RegistryState' = RegistryState
<1>1. sessions' \cup Removed' = sessions \cup Removed
  BY RemovedExactly
<1>2. sessions \cup Removed \subseteq allocated
  BY DEF Removed, IInv, TypeOK
<1>3. \A id \in sessions \cup Removed : Merged(id)' = Merged(id)
  BY <1>2, MergedKept
<1>4. QED
  BY <1>1, <1>3 DEF RegistryState

LEMMA ViewsKept ==
  ASSUME IInv, NEW t \in Threads, Begin(t) \/ Continue(t), call'[t].view = call[t].view
  PROVE  RegistryView' = RegistryView
  BY OthersUnmoved DEF RegistryView, IInv

LEMMA CreateMapped ==
  ASSUME IInv, MappingInv, NEW t \in Threads, CreateInsert(t)
  PROVE  Registry!Next
<1>0. PICK id \in Ids, dir \in Dirs : id = call[t].sid /\ dir = object[id].cwd
  BY DEF CreateInsert, IInv, CallInv, TypeOK, Session
<1>1. Next
  BY DEF Next, Continue
<1>2. /\ id \in allocated /\ id \in Ids /\ id \notin sessions \cup Removed
      /\ object[id] \in Session /\ object[id].env = EmptyEnv /\ lock = Nil
  BY <1>0 DEF CreateInsert, Free, IInv, CallInv, InsertInv, TypeOK, Removed, MappingInv,
              MappedThread
<1>3. sessions' = sessions \cup {id} /\ Removed' = Removed
  BY <1>0, <1>1, <1>2, RemovedExactly DEF CreateInsert
<1>4. Merged(id) = [cwd |-> dir, env |-> EmptyEnv]
  BY <1>0, <1>2, MergedFree DEF Now
<1>5. \A i \in allocated : Merged(i)' = Merged(i)
  BY <1>1, MergedKept DEF CreateInsert, ApplyCd, Free, Goto, IInv, TypeOK
<1>6. sessions \cup Removed \subseteq allocated
  BY DEF Removed, IInv, TypeOK
<1>7. RegistryState' = [RegistryState EXCEPT ![id] = [cwd |-> dir, env |-> EmptyEnv]]
  BY <1>2, <1>3, <1>4, <1>5, <1>6 DEF RegistryState
<1>8. RegistryView' = RegistryView
  BY DEF CreateInsert, RegistryView
<1>9. Registry!Create(id, dir)
  BY <1>2, <1>3, <1>7, <1>8 DEF Registry!Create, Registry!EmptyEnv, EmptyEnv, RegistryState,
                                RegistryView
<1>10. QED
  BY <1>9 DEF Registry!Next

LEMMA SnapshotMapped ==
  ASSUME IInv, MappingInv, NEW t \in Threads, NEW id \in Ids, NEW c \in Commands,
         RunSnapshot(t, id, c)
  PROVE  Registry!Next
<1>1. Next
  BY DEF Next, Begin
<1>2. id \in sessions /\ lock = Nil /\ sessions' = sessions /\ object' = object
  BY DEF RunSnapshot, Free, store
<1>3. Removed' = Removed
  BY <1>1, <1>2, RemovedExactly
<1>4. RegistryState' = RegistryState
  <2>1. pc'[t] = "exec" /\ lock' = lock
    BY DEF RunSnapshot, Goto, IInv, TypeOK
  <2>2. \A u \in Threads : ~ApplyCd(u)
    BY <1>2, <2>1, IdsAssumption DEF ApplyCd
  <2>3. QED
    BY <1>1, <1>2, <2>2, StateKept
<1>5. RegistryState[id] = Now(id)
  BY <1>2, MergedFree DEF RegistryState
<1>6. call'[t].view = Now(id)
  BY DEF RunSnapshot, Now, IInv, TypeOK, Call
<1>7. \A u \in Threads \ {t} : call'[u] = call[u]
  BY OthersUnmoved DEF Begin, IInv
<1>8. RegistryView' = [RegistryView EXCEPT ![t] = RegistryState[id]]
  BY <1>5, <1>6, <1>7 DEF RegistryView
<1>9. Registry!Read(t, id)
  BY <1>2, <1>3, <1>4, <1>8 DEF Registry!Read, RegistryState, RegistryView
<1>10. QED
  BY <1>9 DEF Registry!Next

(* The registry merges updates as the store does.                          *)
LEMMA SameAfter == \A s, u : Registry!After(s, u) = After(s, u)
  BY DEF Registry!After, After, Registry!FoldLeft, FoldLeft, Registry!MapThenFoldSet,
         MapThenFoldSet, Registry!Export, Export, Registry!Unset, Unset, Registry!Admits, Admits,
         Registry!Keys, Keys, Registry!Max, Max, Registry!Cardinality, Cardinality,
         Registry!IsFiniteSet, IsFiniteSet

LEMMA CdMapped ==
  ASSUME IInv, MappingInv, NEW t \in Threads, ApplyCd(t)
  PROVE  Registry!Next
<1>0. PICK id \in Ids, c \in Commands : id = call[t].sid /\ c = call[t].cmd
  BY DEF ApplyCd, MappingInv, MappedThread, IInv, CallInv, TypeOK
<1>1. Next
  BY DEF Next, Continue
<1>2. sessions' = sessions /\ call' = call /\ id \in sessions /\ c.cd # Unreadable
  BY <1>0 DEF ApplyCd
<1>3. Removed' = Removed
  BY <1>1, <1>2, RemovedExactly
<1>4. sessions \cup Removed \subseteq allocated
  BY DEF Removed, IInv, TypeOK
<1>5. \A i \in allocated : Merged(i)' = IF i = id THEN After(Merged(i), c) ELSE Merged(i)
  BY <1>0, CdMerges
<1>6. RegistryState' = [RegistryState EXCEPT ![id] = After(RegistryState[id], c)]
  BY <1>2, <1>3, <1>4, <1>5 DEF RegistryState
<1>7. Registry!Merge(id, c)
  BY <1>2, <1>3, <1>6, SameAfter DEF Registry!Merge, RegistryState, RegistryView
<1>8. QED
  BY <1>7 DEF Registry!Next

LEMMA RemovalMapped ==
  ASSUME IInv, MappingInv, Next, sessions' \subseteq sessions, RegistryView' = RegistryView,
         \A t \in Threads : ~ApplyCd(t)
  PROVE  Registry!Next
<1> DEFINE S == sessions \ sessions'
<1>1. sessions' = sessions \ S /\ Removed' = Removed \cup S /\ RegistryState' = RegistryState
  BY RemovedExactly, StateKept
<1>2. S \in SUBSET Ids
  BY DEF IInv, TypeOK
<1>3. Registry!Discard(S)
  BY <1>1 DEF Registry!Discard, RegistryState, RegistryView
<1>4. QED
  BY <1>2, <1>3 DEF Registry!Next

(* A call that ends gives up its snapshot; nothing else is seen of a step  *)
(* that leaves the store alone.                                            *)
LEMMA OtherMapped ==
  ASSUME IInv, MappingInv, Next, NEW t \in Threads, sessions' = sessions,
         \A u \in Threads : ~ApplyCd(u), RegistryView' = [RegistryView EXCEPT ![t] = Nil]
  PROVE  Registry!Next
<1>1. Removed' = Removed /\ RegistryState' = RegistryState
  BY RemovedExactly, StateKept
<1>2. Registry!Forget(t)
  BY <1>1 DEF Registry!Forget, RegistryState, RegistryView
<1>3. QED
  BY <1>2 DEF Registry!Next

LEMMA NextMapped == IInv /\ MappingInv /\ [Next]_vars => [Registry!Next]_(Registry!vars)
<1> SUFFICES ASSUME IInv, MappingInv, [Next]_vars
             PROVE  Registry!Next \/ UNCHANGED Registry!vars
  OBVIOUS
<1>1. CASE UNCHANGED vars
  <2>1. RegistryState' = RegistryState /\ RegistryView' = RegistryView /\ Removed' = Removed
    BY <1>1 DEF vars, RegistryState, RegistryView, Removed, Merged
  <2>2. QED
    BY <1>1, <2>1 DEF Registry!vars, vars, RegistryState, RegistryView
<1>2. TypeOK /\ call \in [Threads -> Call] /\ pc \in [Threads -> Labels]
  BY DEF IInv, TypeOK
<1>3. ASSUME lock' \in {lock, Nil} PROVE \A u \in Threads : ~ApplyCd(u)
  BY <1>3, IdsAssumption DEF ApplyCd, Free
<1>4. ASSUME NEW t \in Threads, Begin(t) PROVE Registry!Next \/ UNCHANGED Registry!vars
  <2>1. Next
    BY <1>4 DEF Next
  <2>2. CASE ReadOnly(t)
    BY <1>1, <2>2 DEF ReadOnly
  <2>3. ASSUME NEW id \in Ids, NEW dir \in StartDirs, CreateBuild(t, id, dir) PROVE Registry!Next
    <3>1. call'[t].view = call[t].view /\ sessions' = sessions /\ lock' = lock
      BY <1>2, <2>3 DEF CreateBuild, Call
    <3>2. QED
      BY <1>3, <1>4, <2>1, <3>1, ViewsKept, RemovalMapped
  <2>4. ASSUME NEW id \in Ids, NEW c \in Commands, RunSnapshot(t, id, c) PROVE Registry!Next
    BY <2>4, SnapshotMapped
  <2>5. ASSUME NEW id \in Ids, DestroyLookup(t, id) PROVE Registry!Next
    <3>1. call'[t].view = call[t].view /\ sessions' = sessions /\ lock' = lock
      BY <1>2, <2>5 DEF DestroyLookup, Call, store
    <3>2. QED
      BY <1>3, <1>4, <2>1, <3>1, ViewsKept, RemovalMapped
  <2>6. QED
    BY <1>4, <2>2, <2>3, <2>4, <2>5 DEF Begin
<1>5. ASSUME NEW t \in Threads, Continue(t) PROVE Registry!Next
  <2>1. Next
    BY <1>5 DEF Next
  <2>2. CASE CreateInsert(t)
    BY <2>2, CreateMapped
  <2>3. CASE ApplyCd(t)
    BY <2>3, CdMapped
  <2>4. ASSUME sessions' \subseteq sessions, lock' \in {lock, Nil}, call'[t].view = call[t].view
        PROVE  Registry!Next
    BY <1>3, <1>5, <2>1, <2>4, ViewsKept, RemovalMapped
  <2>5. ASSUME sessions' = sessions, lock' = lock, Finish(t)
        PROVE  Registry!Next
    <3>1. call' = [call EXCEPT ![t] = NoCall] /\ NoCall.view = Nil
      BY <2>5 DEF Finish, NoCall
    <3>2. RegistryView' = [RegistryView EXCEPT ![t] = Nil]
      BY <1>2, <3>1 DEF RegistryView
    <3>3. QED
      BY <1>3, <2>1, <2>5, <3>2, OtherMapped
  <2>6. CASE RunRefused(t) \/ RunReply(t) \/ ApplyCdRaises(t) \/ EnsureStartFails(t)
    BY <2>5, <2>6 DEF RunRefused, RunReply, ApplyCdRaises, EnsureStartFails, store
  <2>7. CASE DestroyReport(t)
    BY <2>5, <2>7 DEF DestroyReport, store
  <2>8. CASE RunCheck(t)
    BY <2>4, <2>5, <2>8 DEF RunCheck, store
  <2>9. CASE RunExecute(t)
    <3>1. call'[t].view = call[t].view
      BY <1>2, <2>9 DEF RunExecute, Call
    <3>2. QED
      BY <2>4, <2>9, <3>1 DEF RunExecute, store
  <2>10. CASE ApplyFailedCommand(t) \/ ApplyToMissing(t) \/ ApplyDone(t)
    BY <2>4, <2>10 DEF ApplyFailedCommand, ApplyToMissing, ApplyDone, store
  <2>11. CASE ApplyExport(t) \/ ApplyUnset(t)
    <3>1. call'[t].view = call[t].view
      BY <1>2, <2>11 DEF ApplyExport, ApplyUnset, Call
    <3>2. QED
      BY <2>4, <2>11, <3>1 DEF ApplyExport, ApplyUnset
  <2>12. CASE EnsureCheck(t) \/ EnsureStarted(t) \/ EnsureStart(t)
    <3>1. sessions' = sessions /\ lock' = lock /\ (call' = call \/ Finish(t))
      BY <2>12 DEF EnsureCheck, EnsureStarted, EnsureStart, AfterEnsure, store
    <3>2. QED
      BY <2>4, <2>5, <3>1
  <2>13. CASE DestroyPop(t)
    <3>1. call'[t].view = call[t].view
      BY <1>2, <2>13 DEF DestroyPop, Call
    <3>2. QED
      BY <2>4, <2>13, <3>1 DEF DestroyPop
  <2>14. QED
    BY <1>5, <2>2, <2>3, <2>6, <2>7, <2>8, <2>9, <2>10, <2>11, <2>12, <2>13 DEF Continue
<1>6. CASE Janitor \/ Tick
  <2>1. Next /\ sessions' \subseteq sessions /\ lock' = lock /\ call' = call
    BY <1>6
       DEF Next, Janitor, JanitorWake, JanitorSweep, JanitorAudit, JanitorAuditFails,
           JanitorSleep, Tick, store
  <2>2. RegistryView' = RegistryView
    BY <2>1 DEF RegistryView
  <2>3. QED
    BY <1>3, <2>1, <2>2, RemovalMapped
<1>7. QED
  BY <1>1, <1>4, <1>5, <1>6 DEF Next

(* For any threads, ids, commands, cap and timeout: callers of sessions.py *)
(* cannot tell the store with its locks, copies and janitor from one whose *)
(* reads and updates are atomic and whose removed sessions never change.   *)
THEOREM SessionsRefineRegistry == Spec => RefinesRegistry
<1>1. Init => Registry!Init
  <2> SUFFICES ASSUME Init PROVE Registry!Init
    OBVIOUS
  <2>1. sessions = {} /\ Removed = {}
    BY DEF Init, Removed
  <2>2. RegistryState = [id \in Ids |-> Nil] /\ RegistryView = [t \in Threads |-> Nil]
    BY <2>1 DEF Init, NoCall, RegistryState, RegistryView
  <2>3. QED
    BY <2>1, <2>2 DEF Registry!Init, RegistryState, RegistryView
<1>2. QED
  BY <1>1, NextMapped, SessionsInvariant, MappingInvariant, PTL
     DEF Spec, RefinesRegistry, Registry!Spec

-----------------------------------------------------------------------------
(* A session run that answers its caller takes the steps of a run without  *)
(* an answer, and reads of the live object that change nothing.            *)
LEMMA ReplyStep == [ReplyNext]_replyVars => [Next]_vars
<1> SUFFICES ASSUME [ReplyNext]_replyVars PROVE [Next]_vars
  OBVIOUS
<1>1. ASSUME NEW t \in Threads, Begin(t) PROVE Next
  BY <1>1 DEF Next
<1>2. ASSUME NEW t \in Threads, Elsewhere(t) PROVE Next
  BY <1>2 DEF Next, Elsewhere
<1>3. ASSUME NEW t \in Threads, Merge(t) \/ NoUpdate(t) PROVE Next
  BY <1>3 DEF Next, Continue, Merge, NoUpdate
<1>4. ASSUME NEW t \in Threads, Reget(t) \/ Fallback(t) PROVE Next
  BY <1>4 DEF Next, Continue, Reget, Fallback
<1>5. ASSUME NEW t \in Threads, Answering(t) PROVE UNCHANGED vars
  BY <1>5 DEF Answering, ReplyCwd, ReplyKeys, Return
<1>6. CASE Janitor \/ Tick
  BY <1>6 DEF Next
<1>7. CASE UNCHANGED replyVars
  BY <1>7 DEF replyVars
<1>8. QED
  BY <1>1, <1>2, <1>3, <1>4, <1>5, <1>6, <1>7 DEF ReplyNext

THEOREM RepliesImplementSessions == ReplySpec => Spec
<1>1. ReplyInit => Init
  BY DEF ReplyInit
<1>2. QED
  BY <1>1, ReplyStep, PTL DEF ReplySpec, Spec

(* Also while their caller is being answered, sessions stay within the     *)
(* cap, and a removed one neither comes back nor changes.                  *)
THEOREM RepliesKeepTheStore ==
  ReplySpec => [](TypeOK /\ EnvWithinCap /\ OneJanitor) /\ RemovedIsFinal
BY RepliesImplementSessions, TypeCorrect, CapHolds, OneJanitorRuns, RemovedSessionsAreFinal, PTL

(* As long as no other command updated the session, what a reply is to     *)
(* show is what the session counts as, until it is read; and nobody else   *)
(* is in the middle of writing it.                                         *)
Confirming(t) ==
  /\ reply[t].at \in {"none", "cwd", "keys", "done"}
  /\ reply[t].at # "none" => pc[t] = "ready"
  /\ reply[t].at \in {"cwd", "keys"} => reply[t].sid \in allocated
  /\ (due[t] # Nil /\ reply[t].at = "none") => pc[t] \in {"update", "ensure", "start", "reget"}
  /\ (due[t] # Nil /\ reply[t].at # "done") =>
       /\ due[t] = Merged(Subject(t))
       /\ \A u \in Threads \ {t} : lock = u => call[u].sid # Subject(t)
  /\ (due[t] # Nil /\ reply[t].at \in {"keys", "done"}) => reply[t].cwd = due[t].cwd
  /\ (due[t] # Nil /\ reply[t].at = "done") => reply[t].keys = Keys(due[t].env)

ReplyShape ==
  /\ due = [t \in Threads |-> due[t]]
  /\ reply = [t \in Threads |-> reply[t]]
  /\ \A t \in Threads : DOMAIN reply[t] = {"at", "sid", "cwd", "keys"}

ReplyInv == ReplyShape /\ \A t \in Threads : Confirming(t)

(* Who holds the lock after a step has just written the cd, or held it     *)
(* before for the same session.                                            *)
LEMMA LockMoves ==
  ASSUME IInv, Next, NEW u \in Threads, lock' = u
  PROVE  call'[u].sid = call[u].sid /\ (ApplyCd(u) \/ lock = u)
<1>1. call \in [Threads -> Call] /\ \A t \in Threads : lock = t <=> pc[t] = "update"
  BY DEF IInv, TypeOK, LockInv
<1>2. ASSUME NEW t \in Threads, Updates(t)
      PROVE  call'[u].sid = call[u].sid /\ (ApplyCd(u) \/ lock = u)
  <2>1. CASE ApplyCd(t)
    BY <2>1 DEF ApplyCd
  <2>2. CASE ApplyDone(t)
    BY <2>2, IdsAssumption DEF ApplyDone
  <2>3. CASE ApplyExport(t) \/ ApplyUnset(t)
    BY <1>1, <2>3 DEF ApplyExport, ApplyUnset, Call
  <2>4. QED
    BY <1>2, <2>1, <2>2, <2>3 DEF Updates
<1>3. CASE (\A t \in Threads : ~Updates(t)) /\ allocated # {}
  <2>1. PICK id \in allocated : TRUE
    BY <1>3
  <2>2. QED
    BY <1>3, <2>1, OnlyUpdatesWrite
<1>4. CASE allocated = {}
  <2>1. \A t \in Threads : pc[t] = "ready"
    BY <1>4 DEF IInv, CallInv
  <2>2. \A t \in Threads : ~Continue(t)
    BY <2>1
       DEF Continue, CreateInsert, RunRefused, RunExecute, RunCheck, RunReply,
           ApplyFailedCommand, ApplyToMissing, ApplyCd, ApplyCdRaises, ApplyExport,
           ApplyUnset, ApplyDone, EnsureCheck, EnsureStarted, EnsureStart,
           EnsureStartFails, DestroyPop, DestroyReport
  <2>3. lock' = lock
    <3>1. ASSUME NEW t \in Threads, Begin(t) PROVE lock' = lock
      BY <3>1 DEF Begin, ReadOnly, CreateBuild, RunSnapshot, DestroyLookup, vars
    <3>2. CASE Janitor \/ Tick
      BY <3>2 DEF Janitor, JanitorWake, JanitorSweep, JanitorAudit, JanitorAuditFails,
                  JanitorSleep, Tick
    <3>3. QED
      BY <2>2, <3>1, <3>2 DEF Next
  <2>4. QED
    BY <1>1, <2>1, <2>3
<1>5. QED
  BY <1>2, <1>3, <1>4

(* Ids are not given back.                                                 *)
LEMMA AllocatedGrows ==
  ASSUME Next
  PROVE  allocated \subseteq allocated'
<1>1. ASSUME NEW t \in Threads, Begin(t) PROVE allocated \subseteq allocated'
  BY <1>1 DEF Begin, ReadOnly, CreateBuild, RunSnapshot, DestroyLookup, store, vars
<1>2. ASSUME NEW t \in Threads, Continue(t) PROVE allocated' = allocated
  BY <1>2
     DEF Continue, CreateInsert, RunRefused, RunExecute, RunCheck, RunReply,
         ApplyFailedCommand, ApplyToMissing, ApplyCd, ApplyCdRaises, ApplyExport,
         ApplyUnset, ApplyDone, EnsureCheck, EnsureStarted, EnsureStart,
         EnsureStartFails, DestroyPop, DestroyReport, store
<1>3. CASE Janitor \/ Tick
  BY <1>3 DEF Janitor, JanitorWake, JanitorSweep, JanitorAudit, JanitorAuditFails,
              JanitorSleep, Tick, store
<1>4. QED
  BY <1>1, <1>2, <1>3 DEF Next

(* A step that leaves a caller, its reply and its session's counted state  *)
(* alone leaves the reply due.                                             *)
LEMMA ConfirmingStays ==
  ASSUME IInv, MappingInv, Next, NEW t \in Threads, Confirming(t),
         reply'[t] = reply[t], due'[t] = due[t],
         reply[t].at # "none" => pc'[t] = "ready",
         (due[t] # Nil /\ reply[t].at = "none") =>
            pc'[t] \in {"update", "ensure", "start", "reget"} /\ call'[t].sid = call[t].sid,
         (due[t] # Nil /\ reply[t].at # "done") =>
            \A u \in Threads : ApplyCd(u) => call[u].sid # Subject(t)
  PROVE  Confirming(t)'
<1>1. allocated \subseteq allocated'
  BY AllocatedGrows
<1>2. ASSUME due[t] # Nil, reply[t].at # "done"
      PROVE  /\ due'[t] = Merged(Subject(t))'
             /\ \A u \in Threads \ {t} : lock' = u => call'[u].sid # Subject(t)'
  <2>1. Subject(t)' = Subject(t)
    BY <1>2 DEF Subject
  <2>2. Subject(t) \in allocated
    BY <1>2 DEF Subject, Confirming, IInv, CallInv
  <2>3. PICK id \in allocated : id = Subject(t)
    BY <2>2
  <2>4. Merged(id)' = Merged(id)
    BY <1>2, <2>3, MergedKept
  <2>5. due[t] = Merged(id) /\ \A u \in Threads \ {t} : lock = u => call[u].sid # id
    BY <1>2, <2>3 DEF Confirming
  <2>6. \A u \in Threads \ {t} : lock' = u => call'[u].sid # id
    BY <1>2, <2>3, <2>5, LockMoves
  <2>7. Merged(Subject(t))' = Merged(id)'
    BY <2>1, <2>3 DEF Merged
  <2>8. QED
    BY <2>1, <2>3, <2>4, <2>5, <2>6, <2>7
<1>3. QED
  BY <1>1, <1>2 DEF Confirming

(* No step of the rest of a call is the merge of an update.                *)
LEMMA ElsewhereKeepsLock ==
  ASSUME IInv, NEW t \in Threads, Elsewhere(t), NEW u \in Threads
  PROVE  ~ApplyCd(u)
<1> SUFFICES ASSUME ApplyCd(u) PROVE FALSE
  OBVIOUS
<1>1. lock = Nil /\ lock' = u /\ pc[u] = "apply" /\ pc'[u] = "update"
  BY DEF ApplyCd, Free, Goto, IInv, TypeOK
<1>2. u # t
  BY <1>1, IdsAssumption DEF Elsewhere
<1>3. pc'[u] = pc[u]
  BY <1>2, OthersUnmoved DEF Elsewhere, IInv
<1>4. QED
  BY <1>1, <1>3

(* The thread that moves.                                                  *)
LEMMA ElsewhereConfirming ==
  ASSUME IInv, MappingInv, NEW t \in Threads, ReplyShape, Confirming(t), Elsewhere(t)
  PROVE  Confirming(t)'
<1>1. Next /\ Continue(t)
  BY DEF Next, Elsewhere
<1>2. pc[t] # "ready" /\ pc \in [Threads -> Labels] /\ call \in [Threads -> Call]
  BY <1>1
     DEF Continue, CreateInsert, RunRefused, RunExecute, RunCheck, RunReply,
         ApplyFailedCommand, ApplyToMissing, ApplyCd, ApplyCdRaises, ApplyExport,
         ApplyUnset, ApplyDone, EnsureCheck, EnsureStarted, EnsureStart,
         EnsureStartFails, DestroyPop, DestroyReport, IInv, TypeOK
<1>3. reply[t].at = "none" /\ reply' = reply
  BY <1>2 DEF Confirming, Elsewhere
<1>4. CASE pc'[t] = "ready"
  <2>1. due'[t] = Nil
    BY <1>4 DEF Elsewhere, Due, ReplyShape
  <2>2. QED
    BY <1>3, <2>1 DEF Confirming
<1>5. CASE pc'[t] # "ready"
  <2>1. due'[t] = due[t]
    BY <1>5 DEF Elsewhere
  <2>2. ASSUME due[t] # Nil
        PROVE  pc'[t] \in {"update", "ensure", "start", "reget"} /\ call'[t].sid = call[t].sid
    <3>1. pc[t] \in {"update", "ensure", "start"}
      BY <1>3, <2>2 DEF Confirming, Elsewhere
    <3>2. \/ ApplyExport(t) \/ ApplyUnset(t) \/ ApplyDone(t)
          \/ EnsureCheck(t) \/ EnsureStarted(t) \/ EnsureStart(t) \/ EnsureStartFails(t)
      BY <1>1, <3>1
         DEF Continue, CreateInsert, RunRefused, RunExecute, RunCheck, RunReply,
             ApplyFailedCommand, ApplyToMissing, ApplyCd, ApplyCdRaises,
             DestroyPop, DestroyReport
    <3>3. CASE ApplyExport(t) \/ ApplyUnset(t)
      BY <1>2, <3>3 DEF ApplyExport, ApplyUnset, Call
    <3>4. CASE ApplyDone(t)
      BY <1>2, <3>4 DEF ApplyDone, Goto
    <3>5. CASE EnsureCheck(t) \/ EnsureStarted(t) \/ EnsureStart(t) \/ EnsureStartFails(t)
      BY <1>2, <1>5, <3>5
         DEF EnsureCheck, EnsureStarted, EnsureStart, EnsureStartFails, AfterEnsure, Finish, Goto
    <3>6. QED
      BY <3>2, <3>3, <3>4, <3>5
  <2>3. \A u \in Threads : ~ApplyCd(u)
    BY <1>1, ElsewhereKeepsLock
  <2>4. QED
    BY <1>1, <1>3, <2>1, <2>2, <2>3, ConfirmingStays
<1>6. QED
  BY <1>4, <1>5

LEMMA MergeConfirming ==
  ASSUME IInv, MappingInv, NEW t \in Threads, ReplyShape, NEW u \in Threads, Confirming(u),
  Merge(t),
         Confirming(t)
  PROVE  Confirming(u)'
<1>1. PICK id \in Ids : id = call[t].sid /\ id \in sessions /\ id \in allocated
  BY DEF Merge, ApplyCd, IInv, TypeOK
<1>2. /\ ApplyCd(t) /\ reply' = reply /\ Next /\ lock = Nil /\ lock' = t /\ call' = call
      /\ pc[t] = "apply" /\ pc'[t] = "update"
  BY DEF Merge, ApplyCd, Next, Continue, Free, Goto, IInv, TypeOK
<1>3. due' = [w \in Threads |-> IF w = t THEN After(Now(id), call[t].cmd)
                               ELSE IF Subject(w) = id THEN Nil ELSE due[w]]
  BY <1>1 DEF Merge
<1>4. CASE u = t
  <2>1. reply[t].at = "none"
    BY <1>2 DEF Confirming
  <2>2. Merged(id)' = After(Now(id), call[t].cmd)
    BY <1>1, <1>2, CdMerges
  <2>3. due'[t] = Merged(id)' /\ Subject(t)' = id
    BY <1>1, <1>2, <1>3, <2>1, <2>2 DEF Subject
  <2>4. Merged(Subject(t))' = Merged(id)'
    BY <2>3 DEF Merged
  <2>5. QED
    BY <1>2, <1>4, <2>1, <2>3, <2>4, IdsAssumption DEF Confirming
<1>5. CASE u # t /\ Subject(u) = id
  <2>1. due'[u] = Nil /\ pc'[u] = pc[u] /\ allocated' = allocated
    BY <1>2, <1>3, <1>5, OthersUnmoved DEF Continue, IInv, ApplyCd
  <2>2. QED
    BY <1>2, <2>1 DEF Confirming
<1>6. CASE u # t /\ Subject(u) # id
  <2>1. due'[u] = due[u] /\ pc'[u] = pc[u]
    BY <1>2, <1>3, <1>6, OthersUnmoved DEF Continue, IInv
  <2>2. \A w \in Threads : ApplyCd(w) => call[w].sid # Subject(u)
    BY <1>1, <1>2, <1>6 DEF ApplyCd
  <2>3. QED
    BY <1>2, <2>1, <2>2, ConfirmingStays DEF Confirming
<1>7. QED
  BY <1>4, <1>5, <1>6

LEMMA NoUpdateConfirming ==
  ASSUME IInv, MappingInv, NEW t \in Threads, ReplyShape, Confirming(t), NoUpdate(t)
  PROVE  Confirming(t)'
<1>1. PICK id \in allocated : id = call[t].sid
  BY DEF NoUpdate, ApplyFailedCommand, IInv, CallInv
<1>2. /\ Next /\ lock = Nil /\ lock' = Nil /\ call' = call /\ reply' = reply /\ pc[t] = "apply"
      /\ pc'[t] = "ensure"
  BY DEF NoUpdate, ApplyFailedCommand, Next, Continue, Free, Goto, IInv, TypeOK
<1>3. reply[t].at = "none"
  BY <1>2 DEF Confirming
<1>4. due'[t] \in {Nil, Now(id)}
  BY <1>1 DEF NoUpdate, Due, ReplyShape
<1>5. Merged(id)' = Now(id)
  BY <1>2, MergedFree, MergedKept, IdsAssumption DEF ApplyCd
<1>6. Subject(t)' = id
  BY <1>1, <1>2, <1>3 DEF Subject
<1>7. Merged(Subject(t))' = Merged(id)'
  BY <1>6 DEF Merged
<1>8. \A u \in Threads : lock' # u
  BY <1>2, IdsAssumption
<1>9. QED
  BY <1>2, <1>3, <1>4, <1>5, <1>7, <1>8 DEF Confirming

LEMMA RegetConfirming ==
  ASSUME IInv, MappingInv, NEW t \in Threads, ReplyShape, Confirming(t), Reget(t)
  PROVE  Confirming(t)'
<1>1. PICK id \in allocated : id = call[t].sid
  BY DEF Reget, RunReply, IInv, CallInv
<1>2. /\ Next /\ lock = Nil /\ lock' = Nil /\ due' = due /\ pc[t] = "reget" /\ pc'[t] = "ready"
      /\ allocated' = allocated
  BY DEF Reget, RunReply, Next, Continue, Finish, Free, Goto, IInv, TypeOK, store
<1>3. reply'[t].at = "cwd" /\ reply'[t].sid = id /\ reply[t].at = "none"
  BY <1>1, <1>2 DEF Reget, Put, NoReply, ReplyShape, Confirming
<1>4. Merged(id)' = Merged(id)
  BY <1>2, MergedKept, IdsAssumption DEF ApplyCd
<1>5. Subject(t) = id /\ Subject(t)' = id
  BY <1>1, <1>3 DEF Subject
<1>6. Merged(Subject(t))' = Merged(id)'
  BY <1>5 DEF Merged
<1>7. \A u \in Threads : lock' # u
  BY <1>2, IdsAssumption
<1>8. QED
  BY <1>2, <1>3, <1>4, <1>5, <1>6, <1>7 DEF Confirming

LEMMA FallbackConfirming ==
  ASSUME IInv, NEW t \in Threads, ReplyShape, Fallback(t)
  PROVE  Confirming(t)'
<1> DEFINE v == call[t].view
<1>1. pc'[t] = "ready"
  BY DEF Fallback, RunCheck, RunReply, Finish, Goto, IInv, TypeOK
<1>2. due'[t] = v /\ reply'[t].at = "done" /\ reply'[t].cwd = v.cwd /\ reply'[t].keys = Keys(v.env)
  BY DEF Fallback, Due, Put, ReplyShape
<1>3. QED
  BY <1>1, <1>2 DEF Confirming

(* The two reads of the live object write one field each.                  *)
LEMMA ReplyParts ==
  ASSUME ReplyShape, NEW t \in Threads, NEW x
  PROVE  /\ LET n == [reply[t] EXCEPT !.at = "keys", !.cwd = x]
            IN  Put(t, n) => /\ DOMAIN n = {"at", "sid", "cwd", "keys"} /\ reply'[t].at = "keys"
                             /\ reply'[t].sid = reply[t].sid /\ reply'[t].cwd = x
         /\ LET n == [reply[t] EXCEPT !.at = "done", !.keys = x]
            IN  Put(t, n) => /\ DOMAIN n = {"at", "sid", "cwd", "keys"} /\ reply'[t].at = "done"
                             /\ reply'[t].cwd = reply[t].cwd /\ reply'[t].keys = x
<1>1. DOMAIN reply[t] = {"at", "sid", "cwd", "keys"}
  BY DEF ReplyShape
<1>2. ASSUME NEW n, Put(t, n) PROVE reply'[t] = n
  BY <1>2 DEF Put, ReplyShape
<1>3. QED
  BY <1>1, <1>2

(* The live object is read while nobody writes what is due.                *)
LEMMA AnsweringConfirming ==
  ASSUME IInv, NEW t \in Threads, ReplyShape, Confirming(t), Answering(t)
  PROVE  Confirming(t)'
<1>1. UNCHANGED vars
  BY DEF Answering, ReplyCwd, ReplyKeys, Return
<1>2. ASSUME due[t] # Nil, reply[t].at \in {"cwd", "keys"}
      PROVE  due[t] = Now(reply[t].sid)
  <2>1. PICK id \in allocated : id = reply[t].sid /\ id = Subject(t)
    BY <1>2 DEF Confirming, Subject
  <2>2. due[t] = Merged(id) /\ pc[t] = "ready" /\ \A u \in Threads \ {t} : lock = u => call[u].sid # id
    BY <1>2, <2>1 DEF Confirming
  <2>3. CASE lock = Nil
    BY <2>1, <2>2, <2>3, MergedFree
  <2>4. CASE lock \in Threads
    <3>1. lock # t
      BY <2>2 DEF IInv, LockInv
    <3>2. QED
      BY <2>1, <2>2, <2>4, <3>1, MergedWriting DEF IInv
  <2>5. QED
    BY <2>3, <2>4 DEF IInv, TypeOK
<1>3. Merged(Subject(t))' = Merged(Subject(t)) \/ Subject(t)' # Subject(t)
  BY <1>1 DEF vars, Merged
<1>4. CASE ReplyCwd(t)
  <2>1. /\ reply'[t].at = "keys" /\ reply'[t].sid = reply[t].sid /\ reply[t].at = "cwd"
        /\ reply'[t].cwd = Now(reply[t].sid).cwd /\ due' = due
    <3> DEFINE x == object[reply[t].sid].cwd
    <3>1. Put(t, [reply[t] EXCEPT !.at = "keys", !.cwd = x])
      BY <1>4 DEF ReplyCwd
    <3> HIDE DEF x
    <3>2. DOMAIN reply[t] = {"at", "sid", "cwd", "keys"}
          /\ reply'[t] = [reply[t] EXCEPT !.at = "keys", !.cwd = x]
      BY <3>1 DEF Put, ReplyShape
    <3>3. reply'[t].at = "keys" /\ reply'[t].sid = reply[t].sid /\ reply'[t].cwd = x
      BY <3>2
    <3>4. QED
      BY <1>4, <3>3 DEF ReplyCwd, Now, x
  <2>2. Subject(t)' = Subject(t)
    BY <2>1 DEF Subject
  <2>3. QED
    BY <1>1, <1>2, <1>3, <2>1, <2>2 DEF Confirming, vars
<1>5. CASE ReplyKeys(t)
  <2>1. /\ reply'[t].at = "done" /\ reply'[t].cwd = reply[t].cwd /\ reply[t].at = "keys"
        /\ reply'[t].keys = Keys(Now(reply[t].sid).env) /\ due' = due
    <3> DEFINE x == Keys(object[reply[t].sid].env)
    <3>1. Put(t, [reply[t] EXCEPT !.at = "done", !.keys = x])
      BY <1>5 DEF ReplyKeys
    <3> HIDE DEF x
    <3>2. reply'[t].at = "done" /\ reply'[t].cwd = reply[t].cwd /\ reply'[t].keys = x
      BY <3>1, ReplyParts
    <3>3. QED
      BY <1>5, <3>2 DEF ReplyKeys, Now, x
  <2>2. QED
    BY <1>1, <1>2, <2>1 DEF Confirming, vars
<1>6. CASE Return(t)
  <2>1. reply'[t].at = "none" /\ due'[t] = Nil
    BY <1>6 DEF Return, Put, Due, NoReply, ReplyShape
  <2>2. QED
    BY <2>1 DEF Confirming
<1>7. QED
  BY <1>4, <1>5, <1>6 DEF Answering

LEMMA ShapeStep == ReplyShape /\ [ReplyNext]_replyVars => ReplyShape'
<1> SUFFICES ASSUME ReplyShape, [ReplyNext]_replyVars PROVE ReplyShape'
  OBVIOUS
<1>1. ASSUME NEW t \in Threads, NEW x, Due(t, x) PROVE due' = [u \in Threads |-> due'[u]]
  BY <1>1 DEF Due, ReplyShape
<1>2. ASSUME NEW t \in Threads, NEW r, Put(t, r), DOMAIN r = {"at", "sid", "cwd", "keys"}
      PROVE  /\ reply' = [u \in Threads |-> reply'[u]]
             /\ \A u \in Threads : DOMAIN reply'[u] = {"at", "sid", "cwd", "keys"}
  BY <1>2 DEF Put, ReplyShape
<1>3. DOMAIN NoReply = {"at", "sid", "cwd", "keys"}
  BY DEF NoReply
<1>4. ASSUME NEW t \in Threads, Elsewhere(t) \/ NoUpdate(t) PROVE ReplyShape'
  BY <1>1, <1>4 DEF Elsewhere, NoUpdate, ReplyShape
<1>5. ASSUME NEW t \in Threads, Merge(t) PROVE ReplyShape'
  BY <1>5 DEF Merge, ReplyShape
<1>6. ASSUME NEW t \in Threads, Reget(t) PROVE ReplyShape'
  BY <1>2, <1>3, <1>6 DEF Reget, ReplyShape
<1>7. ASSUME NEW t \in Threads, Fallback(t) PROVE ReplyShape'
  BY <1>1, <1>2, <1>7 DEF Fallback, ReplyShape
<1>8. ASSUME NEW t \in Threads, Answering(t) PROVE ReplyShape'
  <2>1. CASE ReplyCwd(t)
    <3> DEFINE x == object[reply[t].sid].cwd
               n == [reply[t] EXCEPT !.at = "keys", !.cwd = x]
    <3>1. Put(t, n) /\ due' = due
      BY <2>1 DEF ReplyCwd
    <3> HIDE DEF x
    <3>2. DOMAIN n = {"at", "sid", "cwd", "keys"}
      BY <3>1, ReplyParts
    <3>3. QED
      BY <1>2, <3>1, <3>2 DEF ReplyShape
  <2>2. CASE ReplyKeys(t)
    <3> DEFINE x == Keys(object[reply[t].sid].env)
               n == [reply[t] EXCEPT !.at = "done", !.keys = x]
    <3>1. Put(t, n) /\ due' = due
      BY <2>2 DEF ReplyKeys
    <3> HIDE DEF x
    <3>2. DOMAIN n = {"at", "sid", "cwd", "keys"}
      BY <3>1, ReplyParts
    <3>3. QED
      BY <1>2, <3>1, <3>2 DEF ReplyShape
  <2>3. CASE Return(t)
    BY <1>1, <1>2, <1>3, <2>3 DEF Return, ReplyShape
  <2>4. QED
    BY <1>8, <2>1, <2>2, <2>3 DEF Answering
<1>9. CASE UNCHANGED <<reply, due>>
  BY <1>9 DEF ReplyShape
<1>10. QED
  BY <1>4, <1>5, <1>6, <1>7, <1>8, <1>9 DEF ReplyNext, replyVars

LEMMA ConfirmingStep ==
  ASSUME IInv, MappingInv, ReplyInv, [ReplyNext]_replyVars, NEW u \in Threads
  PROVE  Confirming(u)'
<1>1. ReplyShape /\ \A t \in Threads : Confirming(t)
  BY DEF ReplyInv
<1>2. CASE UNCHANGED replyVars
  BY <1>1, <1>2 DEF replyVars, vars, Confirming, Subject, Merged
<1>3. ASSUME NEW t \in Threads, t # u, Begin(t) \/ Continue(t), \A w \in Threads : ~ApplyCd(w),
             reply'[u] = reply[u], due'[u] = due[u]
      PROVE  Confirming(u)'
  <2>1. pc'[u] = pc[u] /\ call'[u] = call[u]
    BY <1>3, OthersUnmoved DEF IInv
  <2>2. Next
    BY <1>3 DEF Next
  <2>3. QED
    BY <1>1, <1>3, <2>1, <2>2, ConfirmingStays DEF Confirming
<1>4. ASSUME NEW t \in Threads, Begin(t), reply[t].at = "none", UNCHANGED <<reply, due>>
      PROVE  Confirming(u)'
  <2>1. pc[t] = "ready"
    BY <1>4 DEF Begin, ReadOnly, CreateBuild, RunSnapshot, DestroyLookup
  <2>2. CASE u = t
    BY <1>1, <1>4, <2>1, <2>2 DEF Confirming
  <2>3. CASE u # t
    <3>1. lock' = lock
      BY <1>4 DEF Begin, ReadOnly, CreateBuild, RunSnapshot, DestroyLookup, vars
    <3>2. \A w \in Threads : ~ApplyCd(w)
      BY <3>1, IdsAssumption DEF ApplyCd, Free
    <3>3. QED
      BY <1>3, <1>4, <2>3, <3>2
  <2>4. QED
    BY <2>2, <2>3
<1>5. ASSUME NEW t \in Threads, Elsewhere(t) PROVE Confirming(u)'
  <2>1. CASE u # t
    <3>1. reply'[u] = reply[u] /\ due'[u] = due[u] /\ Continue(t)
      BY <1>1, <1>5, <2>1 DEF Elsewhere, Due, ReplyShape
    <3>2. QED
      BY <1>3, <1>5, <2>1, <3>1, ElsewhereKeepsLock
  <2>2. QED
    BY <1>1, <1>5, <2>1, ElsewhereConfirming
<1>6. ASSUME NEW t \in Threads, Merge(t) PROVE Confirming(u)'
  BY <1>1, <1>6, MergeConfirming
<1>7. ASSUME NEW t \in Threads, NoUpdate(t) \/ Reget(t) \/ Fallback(t) PROVE Confirming(u)'
  <2>1. CASE u # t
    <3>1. reply'[u] = reply[u] /\ due'[u] = due[u]
      BY <1>1, <1>7, <2>1 DEF NoUpdate, Reget, Fallback, Put, Due, ReplyShape
    <3>2. Continue(t) /\ lock' = lock
      BY <1>7
         DEF NoUpdate, Reget, Fallback, Continue, ApplyFailedCommand, RunCheck, RunReply
    <3>3. \A w \in Threads : ~ApplyCd(w)
      BY <3>2, IdsAssumption DEF ApplyCd, Free
    <3>4. QED
      BY <1>3, <2>1, <3>1, <3>2, <3>3
  <2>2. QED
    BY <1>1, <1>7, <2>1, NoUpdateConfirming, RegetConfirming, FallbackConfirming
<1>8. ASSUME NEW t \in Threads, Answering(t) PROVE Confirming(u)'
  <2>1. CASE u # t
    <3>1. reply'[u] = reply[u] /\ due'[u] = due[u] /\ UNCHANGED vars
      BY <1>1, <1>8, <2>1 DEF Answering, ReplyCwd, ReplyKeys, Return, Put, Due, ReplyShape
    <3>2. QED
      BY <1>1, <3>1 DEF vars, Confirming, Subject, Merged
  <2>2. QED
    BY <1>1, <1>8, <2>1, AnsweringConfirming
<1>9. ASSUME Janitor \/ Tick, UNCHANGED <<reply, due>> PROVE Confirming(u)'
  <2>1. Next /\ pc' = pc /\ call' = call /\ lock' = lock
    BY <1>9 DEF Next, Janitor, JanitorWake, JanitorSweep, JanitorAudit, JanitorAuditFails,
                JanitorSleep, Tick
  <2>2. \A w \in Threads : ~ApplyCd(w)
    BY <2>1, IdsAssumption DEF ApplyCd, Free
  <2>3. QED
    BY <1>1, <1>9, <2>1, <2>2, ConfirmingStays DEF Confirming
<1>10. QED
  BY <1>2, <1>4, <1>5, <1>6, <1>7, <1>8, <1>9 DEF ReplyNext

THEOREM RepliesInvariant == ReplySpec => []ReplyInv
<1>1. ReplyInit => ReplyInv
  BY DEF ReplyInit, ReplyInv, ReplyShape, Confirming, NoReply
<1>2. IInv /\ MappingInv /\ ReplyInv /\ [ReplyNext]_replyVars => ReplyInv'
  BY ConfirmingStep, ShapeStep DEF ReplyInv
<1>3. QED
  BY <1>1, <1>2, RepliesImplementSessions, SessionsInvariant, MappingInvariant, PTL DEF ReplySpec

(* For any number of callers of one session: the cwd and env_keys that     *)
(* bash_mcp_session_run returns confirm what its own command did, unless   *)
(* another command updated the session since.                              *)
THEOREM RepliesAreConfirmed == ReplySpec => []RepliesConfirm
<1>1. ReplyInv => RepliesConfirm
  BY DEF ReplyInv, Confirming, RepliesConfirm
<1>2. QED
  BY <1>1, RepliesInvariant, PTL
================================================================================
