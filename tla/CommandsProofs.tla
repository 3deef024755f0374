---------------------------- MODULE CommandsProofs ----------------------------
(***************************************************************************)
(* The tools that run subprocesses use the slots as Slots says, so its     *)
(* theorems hold of them; and what a call knows at each of its stages      *)
(* implies that refused commands never run and that the audit log tells    *)
(* what happened.                                                          *)
(***************************************************************************)
EXTENDS Commands, SlotsProofs

(* Every step of a call is a step of Slots by its thread, or leaves the    *)
(* slots alone.                                                            *)
LEMMA CommandStepsAreSlotSteps == [CommandNext]_commandVars => [Next]_vars
<1> SUFFICES ASSUME [CommandNext]_commandVars, ~UNCHANGED vars PROVE Next
  OBVIOUS
<1>1. PICK t \in Threads : Begin(t) \/ Proceed(t)
  BY DEF CommandNext, commandVars
<1>2. Call(t) \/ Continue(t)
  <2>1. CASE Begin(t)
    BY <2>1 DEF Begin, Start, StartCheckEnv
  <2>2. CASE Enter(t)
    BY <2>2 DEF Enter
  <2>3. CASE SlotStep(t)
    BY <2>3 DEF SlotStep, Continue
  <2>4. CASE SpawnFails(t) \/ Finish(t) \/ ProbeEnds(t)
    BY <2>4 DEF SpawnFails, Finish, ProbeEnds, Continue
  <2>5. CASE Invalid(t) \/ SkipProbe(t) \/ Spawn(t) \/ Leave(t) \/ Truncate(t) \/ TruncateFails(t)
               \/ Apply(t) \/ ApplyRaises(t) \/ Audit(t) \/ Reply(t)
    BY <2>5 DEF Invalid, SkipProbe, Spawn, Leave, Truncate, TruncateFails, Apply, ApplyRaises,
                Audit, Reply
  <2>6. QED
    BY <1>1, <2>1, <2>2, <2>3, <2>4, <2>5 DEF Proceed
<1>3. QED
  BY <1>2 DEF Next

(* The calls of the tools implement the limiter: whatever the classifier,  *)
(* the validation, the subprocess or the audit log do, a slot is entered   *)
(* and left as concurrency.slot prescribes.                                *)
THEOREM CommandsImplementSlots == CommandSpec => Spec
<1>1. CommandInit => Init
  BY DEF CommandInit
<1>2. QED
  BY <1>1, CommandStepsAreSlotSteps, PTL DEF CommandSpec, Spec

(* With every way a call can end: permits and counter stay in range,       *)
(* permits are conserved, the limit holds, and the count is right.         *)
THEOREM CommandsKeepTheLimit ==
  CommandSpec => [](/\ TypeOK /\ PermitsConserved /\ CapHolds
                    /\ ActiveIsExact /\ ActiveWithinCap)
<1>1. IInv => TypeOK
  BY DEF IInv
<1>2. QED
  BY <1>1, CommandsImplementSlots, SlotsInvariant, PermitsAreConserved, CapAlwaysHolds,
     ActiveCountExact, ActiveCountWithinCap, PTL
-----------------------------------------------------------------------------
(* What is known of a call `c` at stage `s` whose thread is at `p` in its  *)
(* slot.                                                                   *)

SlotInv(s, p, c) ==
  (s = "slot" /\ c.tool # "check_env") =>
    /\ p \in {"acquire", "enter", "inc"} => c.result = Nil
    /\ p = "body" => c.result \in {Nil, "running"}
    /\ p \in {"exit", "dec", "release", "idle"}
         => c.result \in {"completed", "ValueError", "OSError"}

StageInv(s, p, c) ==
  /\ s # "slot" => p = "idle" /\ c.result = Nil
  /\ c.tool = "check_env" => c.result = Nil
  /\ s # "reply" => c.reply = Nil /\ c.entry = Nil
  /\ s \in {"validate", "slot", "truncate", "apply"} => c.verdict = "run"
  /\ s \in {"truncate", "apply"} => c.ran
  /\ s \in {"truncate", "apply", "audit"} => c.tool # "check_env"
  /\ s = "audit" => c.verdict # Nil /\ (c.verdict = "run" => c.ran)
  /\ s \in {"idle", "validate"} => ~c.ran

RanInv(c) ==
  /\ c.verdict = "run" => ~c.hard
  /\ c.ran => c.verdict = "run" /\ c.tool # "check_env"
  /\ c.result \in {"running", "completed"} => c.ran

(* What the reply and the entry say of the command.                        *)
AnswerInv(c) ==
  /\ c.ran => c.reply \notin Refusals \cup {"INVALID_CWD"}
  /\ c.entry = "EXECUTED" => c.ran
  /\ c.entry \in Refusals => ~c.ran
  /\ (c.reply = "ok" /\ c.tool # "check_env") => c.entry \in {"EXECUTED", "lost"}

CallInv(s, p, c) == SlotInv(s, p, c) /\ StageInv(s, p, c) /\ RanInv(c) /\ AnswerInv(c)

CommandInv == CommandTypeOK /\ \A t \in Threads : CallInv(stage[t], pc[t], call[t])

LEMMA InitCommandInv == CommandInit => CommandInv
<1> USE NilAssumption DEF Tools, Results, Replies, Refusals, Verdicts, Records
<1> SUFFICES ASSUME CommandInit PROVE CommandInv
  OBVIOUS
<1>1. CommandTypeOK
  BY DEF CommandInit, NoCall, CommandTypeOK, Stages, Calls
<1>2. \A t \in Threads : CallInv(stage[t], pc[t], call[t])
  BY DEF CommandInit, Init, NoCall, CallInv, SlotInv, StageInv, RanInv, AnswerInv
<1>3. QED
  BY <1>1, <1>2 DEF CommandInv

(* A call is the affair of one thread.                                     *)
LEMMA OthersUnmoved ==
  ASSUME CommandTypeOK, pc \in [Threads -> Labels], NEW t \in Threads, Begin(t) \/ Proceed(t),
         NEW u \in Threads, u # t
  PROVE  stage'[u] = stage[u] /\ pc'[u] = pc[u] /\ call'[u] = call[u]
<1> USE DEF CommandTypeOK, Move, Put, Answer, vars
<1>1. CASE Begin(t)
  BY <1>1 DEF Begin, Start, StartCheckEnv
<1>2. CASE Invalid(t) \/ SkipProbe(t)
  BY <1>2 DEF Invalid, SkipProbe, NextProbe
<1>3. CASE Enter(t)
  BY <1>3 DEF Enter, Call, Step
<1>4. CASE SlotStep(t)
  BY <1>4 DEF SlotStep, Acquire, ReadActive, Increment, Decrement, Release, Step
<1>5. CASE Spawn(t) \/ SpawnFails(t) \/ Finish(t) \/ ProbeEnds(t)
  BY <1>5 DEF Spawn, SpawnFails, Finish, ProbeEnds, BodyEnds, Step
<1>6. CASE Leave(t)
  BY <1>6 DEF Leave, NextProbe, Failed, Succeeded
<1>7. CASE Truncate(t) \/ TruncateFails(t) \/ Apply(t) \/ ApplyRaises(t) \/ Audit(t) \/ Reply(t)
  BY <1>7 DEF Truncate, TruncateFails, Apply, ApplyRaises, Audit, Reply
<1>8. QED
  BY <1>1, <1>2, <1>3, <1>4, <1>5, <1>6, <1>7 DEF Proceed

(* Records with a Boolean field are updated one field or more at a time:   *)
(* the provers see that best for arbitrary sets of values.                 *)
LEMMA UpdatedCall ==
  ASSUME NEW T, NEW B, NEW V, NEW N, NEW R, NEW E, NEW A,
         NEW c \in [tool : T, hard : B, verdict : V, probes : N, result : R, ran : B,
                    entry : E, reply : A]
  PROVE  /\ \A b \in B, v \in V, x \in T :
              [c EXCEPT !.tool = x, !.hard = b, !.verdict = v]
                \in [tool : T, hard : B, verdict : V, probes : N, result : R, ran : B,
                     entry : E, reply : A]
         /\ \A v \in V, n \in N, x \in T :
              [c EXCEPT !.tool = x, !.verdict = v, !.probes = n]
                \in [tool : T, hard : B, verdict : V, probes : N, result : R, ran : B,
                     entry : E, reply : A]
         /\ \A b \in B, r \in R :
              [c EXCEPT !.result = r, !.ran = b]
                \in [tool : T, hard : B, verdict : V, probes : N, result : R, ran : B,
                     entry : E, reply : A]
OBVIOUS

LEMMA NoCallType ==
  /\ NoCall \in Calls
  /\ NoCall.result = Nil /\ NoCall.entry = Nil /\ NoCall.reply = Nil /\ ~NoCall.ran
  /\ ~NoCall.hard
BY DEF NoCall, Calls

LEMMA StartedCall ==
  ASSUME NEW hard \in BOOLEAN, NEW verdict \in Verdicts, verdict = "run" => ~hard,
         NEW new, new = [NoCall EXCEPT !.tool = "command", !.hard = hard, !.verdict = verdict]
  PROVE  new \in Calls /\ CallInv(IF verdict = "run" THEN "validate" ELSE "audit", "idle", new)
<1>1. new \in Calls
  <2>1. "command" \in Tools \cup {Nil} /\ verdict \in Verdicts \cup {Nil}
    BY DEF Tools
  <2>2. QED
    BY <2>1, NoCallType, UpdatedCall, ZenonT(60) DEF Calls
<1>2. /\ new.tool = "command" /\ new.verdict = verdict /\ new.result = Nil
      /\ new.entry = Nil /\ new.reply = Nil
  BY NoCallType DEF Calls
<1>3. new.hard = hard
  BY NoCallType DEF Calls
<1>4. ~new.ran
  BY NoCallType DEF Calls
<1>5. QED
  BY <1>1, <1>2, <1>3, <1>4, NilAssumption
     DEF CallInv, SlotInv, StageInv, RanInv, AnswerInv, Tools, Results, Replies, Refusals,
         Verdicts, Records

LEMMA StartedCheckEnv ==
  ASSUME NEW new, new = [NoCall EXCEPT !.tool = "check_env", !.verdict = "run", !.probes = 2]
  PROVE  new \in Calls /\ CallInv("validate", "idle", new)
<1>1. new \in Calls
  <2>1. "check_env" \in Tools \cup {Nil} /\ "run" \in Verdicts \cup {Nil} /\ 2 \in 0 .. 2
    BY DEF Tools, Verdicts
  <2>2. QED
    BY <2>1, NoCallType, UpdatedCall, ZenonT(60) DEF Calls
<1>2. /\ new.tool = "check_env" /\ new.verdict = "run" /\ new.result = Nil
      /\ new.entry = Nil /\ new.reply = Nil
  BY NoCallType DEF Calls
<1>3. ~new.hard
  BY NoCallType DEF Calls
<1>4. ~new.ran
  BY NoCallType DEF Calls
<1>5. QED
  BY <1>1, <1>2, <1>3, <1>4, NilAssumption
     DEF CallInv, SlotInv, StageInv, RanInv, AnswerInv, Tools, Results, Replies, Refusals,
         Verdicts, Records

LEMMA SpawnedCall ==
  ASSUME NEW c \in Calls, c.result = Nil, c.tool # "check_env", CallInv("slot", "body", c),
         NEW new, new = [c EXCEPT !.result = "running", !.ran = TRUE]
  PROVE  new \in Calls /\ CallInv("slot", "body", new)
<1>1. new \in Calls
  <2>1. "running" \in Results \cup {Nil} /\ TRUE \in BOOLEAN
    BY DEF Results
  <2>2. QED
    BY <2>1, UpdatedCall, ZenonT(60) DEF Calls
<1>2. /\ new.tool = c.tool /\ new.verdict = c.verdict /\ new.result = "running"
      /\ new.entry = c.entry /\ new.reply = c.reply
  BY DEF Calls
<1>3. new.hard = c.hard
  BY DEF Calls
<1>4. new.ran
  BY DEF Calls
<1>5. QED
  BY <1>1, <1>2, <1>3, <1>4, NilAssumption
     DEF Calls, CallInv, SlotInv, StageInv, RanInv, AnswerInv, Tools, Results, Replies,
         Refusals, Verdicts, Records

LEMMA AuditedCall ==
  ASSUME NEW c \in Calls, CallInv("audit", "idle", c),
         NEW entry \in {IF c.verdict = "run" THEN "EXECUTED" ELSE c.verdict, "lost"},
         NEW reply, reply = (IF c.verdict = "run" THEN "ok" ELSE c.verdict),
         NEW new, new = [c EXCEPT !.entry = entry, !.reply = reply]
  PROVE  new \in Calls /\ CallInv("reply", "idle", new)
<1>1. entry \in Records /\ reply \in Replies
  BY DEF Calls, CallInv, StageInv, Verdicts, Records, Replies
<1>2. new \in Calls
  <2>1. entry \in Records \cup {Nil} /\ reply \in Replies \cup {Nil}
    BY <1>1
  <2>2. QED
    BY <2>1, ZenonT(60) DEF Calls
<1>3. /\ new.tool = c.tool /\ new.verdict = c.verdict /\ new.result = c.result
      /\ new.entry = entry /\ new.reply = reply
  BY DEF Calls
<1>4. new.hard = c.hard
  BY DEF Calls
<1>5. new.ran = c.ran
  BY DEF Calls
<1>6. QED
  BY <1>1, <1>2, <1>3, <1>4, <1>5, NilAssumption
     DEF Calls, CallInv, SlotInv, StageInv, RanInv, AnswerInv, Tools, Results, Replies,
         Refusals, Verdicts, Records

LEMMA NextProbeCall ==
  ASSUME NEW c \in Calls, c.tool = "check_env", NEW s \in {"validate", "slot"},
         CallInv(s, "idle", c)
  PROVE  /\ c.probes > 1 =>
              /\ [c EXCEPT !.probes = @ - 1] \in Calls
              /\ CallInv("validate", "idle", [c EXCEPT !.probes = @ - 1])
         /\ [c EXCEPT !.reply = "ok"] \in Calls
         /\ CallInv("reply", "idle", [c EXCEPT !.reply = "ok"])
<1> USE NilAssumption
<1>1. ASSUME c.probes > 1, NEW new, new = [c EXCEPT !.probes = @ - 1]
      PROVE  new \in Calls /\ CallInv("validate", "idle", new)
  <2>1. c.probes - 1 \in 0 .. 2
    BY <1>1 DEF Calls
  <2>2. new \in Calls
    BY <1>1, <2>1 DEF Calls
  <2>3. /\ new.tool = c.tool /\ new.verdict = c.verdict /\ new.result = c.result
        /\ new.entry = c.entry /\ new.reply = c.reply
    BY <1>1 DEF Calls
  <2>4. new.hard = c.hard
    BY <1>1 DEF Calls
  <2>5. new.ran = c.ran
    BY <1>1 DEF Calls
  <2>6. QED
    BY <2>2, <2>3, <2>4, <2>5 DEF CallInv, SlotInv, StageInv, RanInv, AnswerInv, Replies, Refusals
<1>2. ASSUME NEW new, new = [c EXCEPT !.reply = "ok"]
      PROVE  new \in Calls /\ CallInv("reply", "idle", new)
  <2>1. new \in Calls
    BY <1>2 DEF Calls, Replies
  <2>2. /\ new.tool = c.tool /\ new.verdict = c.verdict /\ new.result = c.result
        /\ new.entry = c.entry /\ new.reply = "ok"
    BY <1>2 DEF Calls
  <2>3. new.hard = c.hard
    BY <1>2 DEF Calls
  <2>4. new.ran = c.ran
    BY <1>2 DEF Calls
  <2>5. QED
    BY <2>1, <2>2, <2>3, <2>4
       DEF CallInv, SlotInv, StageInv, RanInv, AnswerInv, Refusals, Records
<1>3. QED
  BY <1>1, <1>2

LEMMA FailedCall ==
  ASSUME NEW c \in Calls, CallInv("slot", "idle", c), c.tool # "check_env",
         NEW reply \in {"INVALID_ARGUMENT", "raised"}
  PROVE  /\ [c EXCEPT !.result = Nil, !.reply = reply] \in Calls
         /\ CallInv("reply", "idle", [c EXCEPT !.result = Nil, !.reply = reply])
<1> DEFINE new == [c EXCEPT !.result = Nil, !.reply = reply]
<1>1. new \in Calls
  BY DEF Calls, Replies
<1>2. /\ new.tool = c.tool /\ new.verdict = c.verdict /\ new.result = Nil
      /\ new.entry = c.entry /\ new.reply = reply
  BY DEF Calls
<1>3. new.hard = c.hard
  BY DEF Calls
<1>4. new.ran = c.ran
  BY DEF Calls
<1>5. CallInv("reply", "idle", new)
  <2> HIDE DEF new
  <2>1. QED
    BY <1>1, <1>2, <1>3, <1>4, NilAssumption
       DEF CallInv, SlotInv, StageInv, RanInv, AnswerInv, Refusals, Records, Results
<1>6. QED
  BY <1>1, <1>5

LEMMA ProbeMoves ==
  ASSUME CommandTypeOK, NEW t \in Threads, NEW from \in {"validate", "slot"},
         NextProbe(t, from), CallInv(from, "idle", call[t]),
         call[t].tool = "check_env", pc'[t] = "idle"
  PROVE  CommandTypeOK' /\ CallInv(stage'[t], pc'[t], call'[t])
<1>1. call[t] \in Calls
  BY DEF CommandTypeOK
<1>2. CASE call[t].probes > 1
  <2> DEFINE new == [call[t] EXCEPT !.probes = @ - 1]
  <2>1. new \in Calls /\ CallInv("validate", "idle", new)
    BY <1>1, <1>2, NextProbeCall
  <2>2. stage' = [stage EXCEPT ![t] = "validate"] /\ call' = [call EXCEPT ![t] = new]
    BY <1>2 DEF NextProbe, Move, Put
  <2> HIDE DEF new
  <2>3. QED
    BY <2>1, <2>2 DEF CommandTypeOK, Stages
<1>3. CASE ~(call[t].probes > 1)
  <2> DEFINE new == [call[t] EXCEPT !.reply = "ok"]
  <2>1. new \in Calls /\ CallInv("reply", "idle", new)
    BY <1>1, NextProbeCall
  <2>2. stage' = [stage EXCEPT ![t] = "reply"] /\ call' = [call EXCEPT ![t] = new]
    BY <1>3 DEF NextProbe, Answer, Move, Put
  <2> HIDE DEF new
  <2>3. QED
    BY <2>1, <2>2 DEF CommandTypeOK, Stages
<1>4. QED
  BY <1>2, <1>3

(* One step of a call, in each of its actions.                             *)
LEMMA CallInvKept ==
  ASSUME CommandTypeOK, pc \in [Threads -> Labels], NEW t \in Threads, Begin(t) \/ Proceed(t),
         CallInv(stage[t], pc[t], call[t])
  PROVE  CommandTypeOK' /\ CallInv(stage'[t], pc'[t], call'[t])
<1>1. CASE \E matches \in SUBSET {"hard", "soft"}, dangerous \in BOOLEAN :
             Start(t, matches, dangerous)
  <2>1. PICK matches \in SUBSET {"hard", "soft"}, dangerous \in BOOLEAN :
           Start(t, matches, dangerous)
    BY <1>1
  <2> DEFINE hard == "hard" \in matches
             verdict == Verdict(matches, dangerous)
             new == [NoCall EXCEPT !.tool = "command", !.hard = hard, !.verdict = verdict]
  <2>2. hard \in BOOLEAN /\ verdict \in Verdicts /\ (verdict = "run" => ~hard)
    BY DEF Verdict, Verdicts, Refusals
  <2>3. stage' = [stage EXCEPT ![t] = IF verdict = "run" THEN "validate" ELSE "audit"]
        /\ call' = [call EXCEPT ![t] = new] /\ pc' = pc /\ pc[t] = "idle"
    BY <2>1 DEF Start, Move, Put, vars, CallInv, StageInv
  <2> HIDE DEF hard, verdict
  <2>4. new \in Calls /\ CallInv(IF verdict = "run" THEN "validate" ELSE "audit", "idle", new)
    BY <2>2, StartedCall
  <2> HIDE DEF new
  <2>5. QED
    BY <2>3, <2>4 DEF CommandTypeOK, Stages
<1>2. CASE StartCheckEnv(t)
  <2> DEFINE new == [NoCall EXCEPT !.tool = "check_env", !.verdict = "run", !.probes = 2]
  <2>1. stage' = [stage EXCEPT ![t] = "validate"] /\ call' = [call EXCEPT ![t] = new]
        /\ pc' = pc /\ pc[t] = "idle"
    BY <1>2 DEF StartCheckEnv, Move, Put, vars, CallInv, StageInv
  <2>2. new \in Calls /\ CallInv("validate", "idle", new)
    BY StartedCheckEnv
  <2> HIDE DEF new
  <2>3. QED
    BY <2>1, <2>2 DEF CommandTypeOK, Stages
<1>4. CASE SkipProbe(t)
  <2>1. /\ pc' = pc /\ pc[t] = "idle" /\ stage[t] = "validate"
        /\ call[t] \in Calls /\ call[t].tool = "check_env"
    BY <1>4 DEF SkipProbe, NextProbe, Answer, Move, vars, IsProbe, CallInv, StageInv, CommandTypeOK
  <2>2. NextProbe(t, "validate")
    BY <1>4 DEF SkipProbe
  <2>3. QED
    BY <2>1, <2>2, ProbeMoves
<1>7. CASE Spawn(t)
  <2> DEFINE new == [call[t] EXCEPT !.result = "running", !.ran = TRUE]
  <2>1. /\ call' = [call EXCEPT ![t] = new] /\ pc' = pc /\ stage' = stage
        /\ pc[t] = "body" /\ stage[t] = "slot"
        /\ call[t] \in Calls /\ call[t].result = Nil /\ call[t].tool # "check_env"
    BY <1>7 DEF Spawn, Put, vars, CallInv, StageInv, IsProbe, CommandTypeOK
  <2>2. new \in Calls /\ CallInv("slot", "body", new)
    BY <2>1, SpawnedCall
  <2> HIDE DEF new
  <2>3. QED
    BY <2>1, <2>2 DEF CommandTypeOK
<1>11. CASE Leave(t)
  <2>1. pc' = pc /\ pc[t] = "idle" /\ stage[t] = "slot" /\ call[t] \in Calls
    BY <1>11 DEF Leave, vars, CommandTypeOK
  <2>2. CASE IsProbe(t)
    <3>1. call[t].tool = "check_env"
      BY <2>2 DEF IsProbe
    <3>2. call[t].result \notin {"ValueError", "OSError"}
      BY <3>1, NilAssumption DEF CallInv, StageInv, Results
    <3>3. NextProbe(t, "slot")
      BY <1>11, <2>2, <3>2 DEF Leave
    <3>4. QED
      BY <2>1, <3>1, <3>3, ProbeMoves
  <2>3. CASE ~IsProbe(t) /\ Failed(t, "INVALID_ARGUMENT")
    BY <2>1, <2>3, FailedCall DEF Failed, Move, Put, IsProbe, CommandTypeOK, Stages
  <2>4. CASE ~IsProbe(t) /\ Failed(t, "raised")
    BY <2>1, <2>4, FailedCall DEF Failed, Move, Put, IsProbe, CommandTypeOK, Stages
  <2>5. CASE ~IsProbe(t) /\ call[t].result \notin {"ValueError", "OSError"} /\ Succeeded(t)
    BY <2>1, <2>5 DEF Succeeded, Move, Put, IsProbe, CallInv, SlotInv, StageInv, RanInv, AnswerInv,
                      CommandTypeOK, Calls, Stages, Replies, Refusals, Results
  <2>6. QED
    BY <1>11, <2>2, <2>3, <2>4, <2>5 DEF Leave
<1>16. CASE Audit(t)
  <2>1. PICK entry \in {Outcome(t), "lost"} :
           call' = [call EXCEPT ![t] = [call[t] EXCEPT !.entry = entry, !.reply = Answered(t)]]
    BY <1>16 DEF Audit, Put
  <2> DEFINE new == [call[t] EXCEPT !.entry = entry, !.reply = Answered(t)]
  <2>2. /\ stage' = [stage EXCEPT ![t] = "reply"] /\ pc' = pc
        /\ pc[t] = "idle" /\ stage[t] = "audit" /\ call[t] \in Calls
    BY <1>16 DEF Audit, Move, vars, CallInv, StageInv, CommandTypeOK
  <2>3. new \in Calls /\ CallInv("reply", "idle", new)
    BY <2>2, AuditedCall DEF Outcome, Answered
  <2> HIDE DEF new
  <2>4. QED
    BY <2>1, <2>2, <2>3 DEF CommandTypeOK, Stages, new
<1> USE NilAssumption DEF Tools, Results, Replies, Refusals, Verdicts, Records, CommandTypeOK,
        Calls, Stages, Labels, Move, Put, IsProbe, vars,
        CallInv, SlotInv, StageInv, RanInv, AnswerInv
<1>3. CASE Invalid(t)
  BY <1>3 DEF Invalid, Answer
<1>5. CASE Enter(t)
  BY <1>5 DEF Enter, Call, Step
<1>6. CASE SlotStep(t)
  BY <1>6 DEF SlotStep, Acquire, ReadActive, Increment, Decrement, Release, Step
<1>8. CASE SpawnFails(t)
  BY <1>8 DEF SpawnFails, BodyEnds, Step
<1>9. CASE Finish(t)
  BY <1>9 DEF Finish, BodyEnds, Step
<1>10. CASE ProbeEnds(t)
  BY <1>10 DEF ProbeEnds, BodyEnds, Step
<1>12. CASE Truncate(t)
  BY <1>12 DEF Truncate
<1>13. CASE TruncateFails(t)
  BY <1>13 DEF TruncateFails, Answer
<1>14. CASE Apply(t)
  BY <1>14 DEF Apply
<1>15. CASE ApplyRaises(t)
  BY <1>15 DEF ApplyRaises, Answer
<1>17. CASE Reply(t)
  BY <1>17 DEF Reply, NoCall
<1>18. QED
  BY <1>1, <1>2, <1>3, <1>4, <1>5, <1>6, <1>7, <1>8, <1>9, <1>10, <1>11, <1>12, <1>13, <1>14,
     <1>15, <1>16, <1>17 DEF Begin, Proceed

LEMMA NextCommandInv == TypeOK /\ CommandInv /\ [CommandNext]_commandVars => CommandInv'
<1> SUFFICES ASSUME TypeOK, CommandInv, [CommandNext]_commandVars PROVE CommandInv'
  OBVIOUS
<1>1. CASE UNCHANGED commandVars
  BY <1>1 DEF commandVars, vars, CommandInv, CommandTypeOK, CallInv, SlotInv, StageInv, RanInv,
              AnswerInv
<1>2. ASSUME NEW t \in Threads, Begin(t) \/ Proceed(t) PROVE CommandInv'
  <2>1. CommandTypeOK' /\ CallInv(stage'[t], pc'[t], call'[t])
    BY <1>2, CallInvKept DEF CommandInv, TypeOK
  <2>2. ASSUME NEW u \in Threads, u # t PROVE CallInv(stage'[u], pc'[u], call'[u])
    BY <1>2, <2>2, OthersUnmoved DEF CommandInv, TypeOK
  <2>3. QED
    BY <2>1, <2>2 DEF CommandInv
<1>3. QED
  BY <1>1, <1>2 DEF CommandNext

(* What a call knows at each stage, for any number of threads and slots.   *)
THEOREM CommandsInvariant == CommandSpec => []CommandInv
<1>1. IInv => TypeOK
  BY DEF IInv
<1>2. QED
  BY <1>1, InitCommandInv, NextCommandInv, CommandsImplementSlots, SlotsInvariant,
     PTL DEF CommandSpec

THEOREM CommandsTypeCorrect == CommandSpec => []CommandTypeOK
<1>1. CommandInv => CommandTypeOK
  BY DEF CommandInv
<1>2. QED
  BY <1>1, CommandsInvariant, PTL

(* The hard denylist holds in every tool, and no command that was refused  *)
(* is ever started.                                                        *)
THEOREM RefusedCommandsNeverRun == CommandSpec => []RefusedNeverRuns
<1>1. CommandInv => RefusedNeverRuns
  BY DEF CommandInv, CallInv, RanInv, AnswerInv, RefusedNeverRuns
<1>2. QED
  BY <1>1, CommandsInvariant, PTL

(* No entry says of a command what did not happen to it, and no result is  *)
(* returned before its entry was tried.                                    *)
THEOREM AuditEntriesAreTrue == CommandSpec => []AuditTellsTheTruth
<1>1. CommandInv => AuditTellsTheTruth
  BY DEF CommandInv, CallInv, AnswerInv, AuditTellsTheTruth, IsProbe
<1>2. QED
  BY <1>1, CommandsInvariant, PTL
=============================================================================
