------------------------------- MODULE Commands -------------------------------
(***************************************************************************)
(* The tools that run a subprocess, as whole calls (server.py, executor.py,*)
(* safety.py): bash_run_command and bash_mcp_session_run from the verdict  *)
(* of the classifier over validation, slot, subprocess and truncation to   *)
(* the audit entry and the reply, with every exception on the way; and     *)
(* bash_check_env, whose probes use slots too.  The slot itself is Slots.  *)
(* The first two differ only in the session, which bash_mcp_session_run    *)
(* looks up before all this, with an error if it is not there, and updates *)
(* between the result and the audit entry: both are in Sessions.           *)
(***************************************************************************)
EXTENDS Slots

VARIABLES
  stage,  \* where the call of each thread is, outside the slot
  call    \* its locals, and what became of it

commandVars == <<vars, stage, call>>

Stages == {"idle", "validate", "slot", "truncate", "apply", "audit", "reply"}
Tools == {"command", "check_env"}
Refusals == {"REJECTED", "DENIED"}
Results == {"running", "completed", "ValueError", "OSError"}
Replies == Refusals \cup {"ok", "INVALID_ARGUMENT", "INVALID_CWD", "raised"}
Verdicts == Refusals \cup {"run"}
Records == Refusals \cup {"EXECUTED", "lost"}

ASSUME NilAssumption == Nil \notin Tools \cup Results \cup Replies \cup Verdicts \cup Records

(* `hard` is whether the hard denylist matches, `verdict` is "run" or why  *)
(* the command is not run, `probes` what check_env has left, `result` what *)
(* comes out of subprocess.run, `ran` whether the command was started,     *)
(* `entry` what the audit log has on the call ("lost" after an OSError,    *)
(* which log() swallows).                                                  *)
NoCall == [tool |-> Nil, hard |-> FALSE, verdict |-> Nil, probes |-> 0, result |-> Nil,
           ran |-> FALSE, entry |-> Nil, reply |-> Nil]

CommandInit ==
  /\ Init
  /\ stage = [t \in Threads |-> "idle"]
  /\ call = [t \in Threads |-> NoCall]

Move(t, from, to) == stage[t] = from /\ stage' = [stage EXCEPT ![t] = to]
Put(t, c) == call' = [call EXCEPT ![t] = c]
Answer(t, from, reply) ==
  Move(t, from, "reply") /\ Put(t, [call[t] EXCEPT !.reply = reply])

-----------------------------------------------------------------------------
(* Before the slot.                                                        *)

(* A bug: the soft list is looked at first.                                *)
SoftFirst(matches, dangerous) ==
  IF "soft" \in matches THEN (IF dangerous THEN "run" ELSE "DENIED")
  ELSE IF "hard" \in matches THEN "REJECTED" ELSE "run"

(* What classify makes of the lists that match, and the tool of that.      *)
Verdict(matches, dangerous) ==
  IF "hard" \in matches THEN "REJECTED"
  ELSE IF "soft" \in matches /\ ~dangerous THEN "DENIED" ELSE "run"

Start(t, matches, dangerous) ==
  LET verdict == Verdict(matches, dangerous)
  IN  /\ Move(t, "idle", IF verdict = "run" THEN "validate" ELSE "audit")
      /\ Put(t, [NoCall EXCEPT !.tool = "command", !.hard = "hard" \in matches,
                              !.verdict = verdict])
      /\ UNCHANGED vars

StartCheckEnv(t) ==
  /\ Move(t, "idle", "validate")
  /\ Put(t, [NoCall EXCEPT !.tool = "check_env", !.verdict = "run", !.probes = 2])
  /\ UNCHANGED vars

IsProbe(t) == call[t].tool = "check_env"

(* An empty command, a timeout or an env out of range; a cwd that is not   *)
(* allowed or not there (a missing bash, BASH_NOT_FOUND, is no different); *)
(* or an exception of the file system.                                     *)
Invalid(t) ==
  /\ ~IsProbe(t)
  /\ \E reply \in {"INVALID_ARGUMENT", "INVALID_CWD", "raised"} :
       Answer(t, "validate", reply)
  /\ UNCHANGED vars

(* A bug: one probe too many.                                              *)
NextProbeLate(t, from) ==
  IF call[t].probes >= 0
    THEN /\ Move(t, from, "validate")
         /\ Put(t, [call[t] EXCEPT !.probes = @ - 1])
    ELSE Answer(t, from, "ok")

(* A bug: the last probe is tried again.                                   *)
NextProbeAgain(t, from) ==
  /\ Move(t, from, "validate")
  /\ Put(t, [call[t] EXCEPT !.probes = IF @ > 1 THEN @ - 1 ELSE @])

NextProbe(t, from) ==
  IF call[t].probes > 1
    THEN /\ Move(t, from, "validate")
         /\ Put(t, [call[t] EXCEPT !.probes = @ - 1])
    ELSE Answer(t, from, "ok")

(* uv, or bash, is not on the path.                                        *)
SkipProbe(t) == IsProbe(t) /\ NextProbe(t, "validate") /\ UNCHANGED vars

Enter(t) == Move(t, "validate", "slot") /\ Call(t) /\ UNCHANGED call
-----------------------------------------------------------------------------
(* In the slot.                                                            *)

SlotStep(t) ==
  /\ Acquire(t) \/ ReadActive(t) \/ Increment(t) \/ Decrement(t) \/ Release(t)
  /\ UNCHANGED <<stage, call>>

Spawn(t) ==
  /\ pc[t] = "body" /\ ~IsProbe(t) /\ call[t].result = Nil
  /\ Put(t, [call[t] EXCEPT !.result = "running", !.ran = TRUE])
  /\ UNCHANGED <<vars, stage>>

(* No process, the argument list too long, the cwd gone since; or a null   *)
(* byte in the command or the env, which is a ValueError.                  *)
SpawnFails(t) ==
  /\ ~IsProbe(t) /\ call[t].result = Nil /\ BodyEnds(t)
  /\ \E result \in {"OSError", "ValueError"} : Put(t, [call[t] EXCEPT !.result = result])
  /\ UNCHANGED stage

(* The process exits, or is killed at the timeout: both make a result.     *)
(* text=True decodes the output of a process that exits as UTF-8: what     *)
(* cannot be decoded is a UnicodeDecodeError, which is a ValueError.       *)
Finish(t) ==
  /\ call[t].result = "running" /\ BodyEnds(t)
  /\ \E result \in {"completed", "ValueError"} :
       Put(t, [call[t] EXCEPT !.result = result])
  /\ UNCHANGED stage

(* However it ends: check_env swallows every exception of a probe.         *)
ProbeEnds(t) == IsProbe(t) /\ BodyEnds(t) /\ UNCHANGED <<stage, call>>
-----------------------------------------------------------------------------
(* After the slot.                                                         *)

Failed(t, reply) ==
  /\ Move(t, "slot", "reply")
  /\ Put(t, [call[t] EXCEPT !.result = Nil, !.reply = reply])

Succeeded(t) ==
  Move(t, "slot", "truncate") /\ Put(t, [call[t] EXCEPT !.result = Nil])

(* A bug: a process that could not be started is a result with status 127. *)
LeaveAlways(t) ==
  /\ stage[t] = "slot" /\ pc[t] = "idle"
  /\ CASE IsProbe(t) -> NextProbe(t, "slot")
       [] call[t].result = "ValueError" -> Failed(t, "INVALID_ARGUMENT")
       [] OTHER -> Succeeded(t)
  /\ UNCHANGED vars

(* In a command, a ValueError is INVALID_ARGUMENT, whether the command     *)
(* could not be started or ran and wrote what is not UTF-8, and an OSError *)
(* leaves the tool.                                                        *)
Leave(t) ==
  /\ stage[t] = "slot" /\ pc[t] = "idle"
  /\ CASE IsProbe(t) -> NextProbe(t, "slot")
       [] call[t].result = "ValueError" -> Failed(t, "INVALID_ARGUMENT")
       [] call[t].result = "OSError" -> Failed(t, "raised")
       [] OTHER -> Succeeded(t)
  /\ UNCHANGED vars

(* Output that is too long is cut, after it was saved to /tmp/bash-mcp.    *)
Truncate(t) ==
  /\ \E next \in {"apply", "audit"} : Move(t, "truncate", next)
  /\ UNCHANGED <<vars, call>>

TruncateFails(t) == Answer(t, "truncate", "raised") /\ UNCHANGED vars

(* apply_state_update, of which Sessions has the steps.                    *)
Apply(t) == Move(t, "apply", "audit") /\ UNCHANGED <<vars, call>>

ApplyRaises(t) == Answer(t, "apply", "raised") /\ UNCHANGED vars

Outcome(t) == IF call[t].verdict = "run" THEN "EXECUTED" ELSE call[t].verdict
Answered(t) == IF call[t].verdict = "run" THEN "ok" ELSE call[t].verdict

Audit(t) ==
  /\ Move(t, "audit", "reply")
  /\ \E entry \in {Outcome(t), "lost"} :
       Put(t, [call[t] EXCEPT !.entry = entry, !.reply = Answered(t)])
  /\ UNCHANGED vars

Reply(t) == Move(t, "reply", "idle") /\ Put(t, NoCall) /\ UNCHANGED vars
-----------------------------------------------------------------------------
Begin(t) ==
  \/ \E matches \in SUBSET {"hard", "soft"}, dangerous \in BOOLEAN :
       Start(t, matches, dangerous)
  \/ StartCheckEnv(t)

Proceed(t) ==
  \/ Invalid(t) \/ SkipProbe(t) \/ Enter(t)
  \/ SlotStep(t) \/ Spawn(t) \/ SpawnFails(t) \/ Finish(t) \/ ProbeEnds(t)
  \/ Leave(t)
  \/ Truncate(t) \/ TruncateFails(t) \/ Apply(t) \/ ApplyRaises(t)
  \/ Audit(t) \/ Reply(t)

CommandNext == \E t \in Threads : Begin(t) \/ Proceed(t)

CommandSpec == CommandInit /\ [][CommandNext]_commandVars

(* A call in progress goes on: a subprocess ends, or is killed at its      *)
(* timeout, and a permit or a lock that keeps being released reaches       *)
(* whoever waits.                                                          *)
CommandFairSpec == CommandSpec /\ \A t \in Threads : SF_commandVars(Proceed(t))
-----------------------------------------------------------------------------
Calls ==
  [tool : Tools \cup {Nil}, hard : BOOLEAN, verdict : Verdicts \cup {Nil},
   probes : 0 .. 2, result : Results \cup {Nil}, ran : BOOLEAN,
   entry : Records \cup {Nil}, reply : Replies \cup {Nil}]

CommandTypeOK == stage \in [Threads -> Stages] /\ call \in [Threads -> Calls]

(* A command that the hard denylist matches, or that is answered with      *)
(* REJECTED, DENIED or INVALID_CWD, is never started, at any point of the  *)
(* call, whatever else it matches and whether or not the client said       *)
(* dangerous=true.  Of INVALID_ARGUMENT that cannot be said: see Leave.    *)
RefusedNeverRuns ==
  \A t \in Threads : call[t].ran =>
    /\ ~call[t].hard /\ call[t].verdict = "run"
    /\ call[t].reply \notin Refusals \cup {"INVALID_CWD"}

(* The audit entry of a call says what happened to its command, whichever  *)
(* way the subprocess ended, and a result is only returned to the client   *)
(* once its entry was written (or lost to an OSError).                     *)
AuditTellsTheTruth ==
  \A t \in Threads :
    /\ call[t].entry = "EXECUTED" => call[t].ran
    /\ call[t].entry \in Refusals => ~call[t].ran
    /\ (call[t].reply = "ok" /\ ~IsProbe(t)) => call[t].entry \in {"EXECUTED", "lost"}

(* Every call is answered, however the commands before it ended.           *)
CallsAreAnswered == \A t \in Threads : stage[t] # "idle" ~> stage[t] = "idle"

(* SKILL.md: "All calls are audit-logged".  Of the calls, those that ran   *)
(* a command for a client:                                                 *)
ExecutedIsAudited ==
  \A t \in Threads :
    (stage[t] = "reply" /\ call[t].ran /\ ~IsProbe(t)) => call[t].entry # Nil
=============================================================================
