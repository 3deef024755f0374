---------------------------- MODULE SessionReplies ----------------------------
(***************************************************************************)
(* What bash_mcp_session_run tells its caller of the session (server.py):  *)
(* after the update it looks the session up again, and then reads cwd and  *)
(* environment of the live object, without the lock, while other calls     *)
(* update, destroy or evict the session.  If the session is gone, the      *)
(* reply falls back on the snapshot that the command ran with.             *)
(***************************************************************************)
EXTENDS Sessions

VARIABLES
  reply,  \* the reply each thread is writing
  due     \* the state it should show, Nil where that is open

replyVars == <<vars, reply, due>>

NoReply == [at |-> "none", sid |-> Nil, cwd |-> Nil, keys |-> {}]

ReplyInit ==
  /\ Init
  /\ reply = [t \in Threads |-> NoReply] /\ due = [t \in Threads |-> Nil]

Put(t, r) == reply' = [reply EXCEPT ![t] = r]
Due(t, state) == due' = [due EXCEPT ![t] = state]

Now(id) == [cwd |-> object[id].cwd, env |-> object[id].env]

(* The session that a thread's due state is of.                            *)
Subject(t) == IF reply[t].at = "none" THEN call[t].sid ELSE reply[t].sid
-----------------------------------------------------------------------------
(* The update: what is due to its own caller, and no longer to the others. *)

Merge(t) ==
  /\ ApplyCd(t)
  /\ LET id == call[t].sid
     IN  due' = [u \in Threads |-> IF u = t THEN After(Now(id), call[t].cmd)
                                   ELSE IF Subject(u) = id THEN Nil ELSE due[u]]
  /\ UNCHANGED reply

NoUpdate(t) ==
  /\ ApplyFailedCommand(t)
  /\ Due(t, IF call[t].sid \in sessions THEN Now(call[t].sid) ELSE Nil)
  /\ UNCHANGED reply
-----------------------------------------------------------------------------
(* The reply.                                                              *)

Reget(t) ==
  /\ RunReply(t) /\ call[t].sid \in sessions
  /\ Put(t, [NoReply EXCEPT !.at = "cwd", !.sid = call[t].sid])
  /\ UNCHANGED due

Fallback(t) ==
  /\ RunCheck(t) \/ RunReply(t)
  /\ call[t].sid \notin sessions
  /\ LET v == call[t].view
     IN  /\ Put(t, [at |-> "done", sid |-> call[t].sid, cwd |-> v.cwd, keys |-> Keys(v.env)])
         /\ Due(t, v)

(* A bug: the session is looked up again for each part of the reply.       *)
ReplyKeysOfLive(t) ==
  /\ reply[t].at = "keys"
  /\ LET id == reply[t].sid
         keys == IF id \in sessions THEN Keys(object[id].env) ELSE {}
     IN  Put(t, [reply[t] EXCEPT !.at = "done", !.keys = keys])
  /\ UNCHANGED <<vars, due>>

ReplyCwd(t) ==
  /\ reply[t].at = "cwd"
  /\ Put(t, [reply[t] EXCEPT !.at = "keys", !.cwd = object[reply[t].sid].cwd])
  /\ UNCHANGED <<vars, due>>

ReplyKeys(t) ==
  /\ reply[t].at = "keys"
  /\ Put(t, [reply[t] EXCEPT !.at = "done", !.keys = Keys(object[reply[t].sid].env)])
  /\ UNCHANGED <<vars, due>>

Return(t) ==
  /\ reply[t].at = "done"
  /\ Put(t, NoReply) /\ Due(t, Nil)
  /\ UNCHANGED vars
-----------------------------------------------------------------------------
(* The rest of a call; one that ends here returns no reply with a state.   *)
Elsewhere(t) ==
  /\ pc[t] # "reget" /\ (pc[t] = "check" => call[t].sid \in sessions)
  /\ pc[t] = "apply" => call[t].ok
  /\ Continue(t)
  /\ lock' = t => lock = t
  /\ IF pc'[t] = "ready" THEN Due(t, Nil) ELSE UNCHANGED due
  /\ UNCHANGED reply

Answering(t) == ReplyCwd(t) \/ ReplyKeys(t) \/ Return(t)

ReplyNext ==
  \/ \E t \in Threads :
       \/ Begin(t) /\ reply[t].at = "none" /\ UNCHANGED <<reply, due>>
       \/ Elsewhere(t) \/ Merge(t) \/ NoUpdate(t)
       \/ Reget(t) \/ Fallback(t) \/ Answering(t)
  \/ (Janitor \/ Tick) /\ UNCHANGED <<reply, due>>

ReplySpec == ReplyInit /\ [][ReplyNext]_replyVars
-----------------------------------------------------------------------------
(* "returns `cwd` and `env_keys` in the response so callers can confirm    *)
(* state": unless another command of the session updated it since, the     *)
(* reply shows what the call's own command made of the session it found    *)
(* under the lock, however many commands ran in between, and also when the *)
(* session is destroyed or evicted while the reply is written; and what    *)
(* the command started from, if the session had gone before.               *)
RepliesConfirm ==
  \A t \in Threads : (reply[t].at = "done" /\ due[t] # Nil) =>
    reply[t].cwd = due[t].cwd /\ reply[t].keys = Keys(due[t].env)
=============================================================================
