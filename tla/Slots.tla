-------------------------------- MODULE Slots --------------------------------
(***************************************************************************)
(* The limit on concurrent subprocesses (concurrency.py): a semaphore, and *)
(* a counter for status reports whose `+= 1` is a read and a write under   *)
(* `_ACTIVE_LOCK`.  The body of the `with` is the subprocess of            *)
(* executor.run or of bash_check_env; __exit__ runs however it ends.       *)
(***************************************************************************)
EXTENDS Integers, FiniteSets

CONSTANTS
  Threads,        \* threads of the tool pool
  MaxConcurrent,  \* BASH_MCP_MAX_CONCURRENT
  Nil

ASSUME LimitAssumption == MaxConcurrent \in Nat
ASSUME ThreadsAssumption == IsFiniteSet(Threads) /\ Nil \notin Threads

VARIABLES
  permits,  \* value of _LIMIT
  active,   \* _ACTIVE
  lock,     \* holder of _ACTIVE_LOCK
  read,     \* what a thread inside the lock read of _ACTIVE
  pc

vars == <<permits, active, lock, read, pc>>

Labels == {"idle", "acquire", "enter", "inc", "body", "exit", "dec", "release"}

Init ==
  /\ permits = MaxConcurrent /\ active = 0 /\ lock = Nil
  /\ read = [t \in Threads |-> 0]
  /\ pc = [t \in Threads |-> "idle"]

Step(t, from, to) == pc[t] = from /\ pc' = [pc EXCEPT ![t] = to]

Call(t) ==
  /\ Step(t, "idle", "acquire")
  /\ UNCHANGED <<permits, active, lock, read>>

(* A bug: acquire(blocking=False) with its result ignored.                 *)
AcquireRegardless(t) ==
  /\ Step(t, "acquire", "enter")
  /\ permits' = IF permits > 0 THEN permits - 1 ELSE permits
  /\ UNCHANGED <<active, lock, read>>

Acquire(t) ==
  /\ Step(t, "acquire", "enter")
  /\ permits > 0 /\ permits' = permits - 1
  /\ UNCHANGED <<active, lock, read>>

(* A bug: the lock is not taken.                                           *)
ReadActiveUnlocked(t) ==
  /\ Step(t, "enter", "inc") \/ Step(t, "exit", "dec")
  /\ read' = [read EXCEPT ![t] = active]
  /\ UNCHANGED <<permits, active, lock>>

(* `with _ACTIVE_LOCK:` and the read of _ACTIVE, on the way in and out.    *)
ReadActive(t) ==
  /\ Step(t, "enter", "inc") \/ Step(t, "exit", "dec")
  /\ lock = Nil /\ lock' = t
  /\ read' = [read EXCEPT ![t] = active]
  /\ UNCHANGED <<permits, active>>

Increment(t) ==
  /\ Step(t, "inc", "body")
  /\ active' = read[t] + 1 /\ lock' = Nil
  /\ read' = [read EXCEPT ![t] = 0]
  /\ UNCHANGED permits

(* A bug: the body gives its permit back, and __exit__ once more.          *)
BodyEndsReleased(t) ==
  /\ Step(t, "body", "exit")
  /\ permits' = permits + 1
  /\ UNCHANGED <<active, lock, read>>

(* A bug: an exception leaves the body without __exit__.                   *)
BodyEndsUnwound(t) ==
  /\ Step(t, "body", "exit") \/ Step(t, "body", "idle")
  /\ UNCHANGED <<permits, active, lock, read>>

BodyEnds(t) ==
  /\ Step(t, "body", "exit")
  /\ UNCHANGED <<permits, active, lock, read>>

Decrement(t) ==
  /\ Step(t, "dec", "release")
  /\ active' = read[t] - 1 /\ lock' = Nil
  /\ read' = [read EXCEPT ![t] = 0]
  /\ UNCHANGED permits

(* A BoundedSemaphore raises when it is released beyond its initial value: *)
(* TypeOK says that never happens.                                         *)
Release(t) ==
  /\ Step(t, "release", "idle")
  /\ permits' = permits + 1
  /\ UNCHANGED <<active, lock, read>>

Continue(t) ==
  \/ Acquire(t) \/ ReadActive(t) \/ Increment(t) \/ BodyEnds(t) \/ Decrement(t) \/ Release(t)

Next == \E t \in Threads : Call(t) \/ Continue(t)

Spec == Init /\ [][Next]_vars
-----------------------------------------------------------------------------
At(S) == {t \in Threads : pc[t] \in S}
Holders == At(Labels \ {"idle", "acquire"})

TypeOK ==
  /\ permits \in 0 .. MaxConcurrent /\ active \in Int
  /\ lock \in Threads \cup {Nil}
  /\ read \in [Threads -> Int] /\ pc \in [Threads -> Labels]

(* A permit is never lost or doubled: what is not free is held by a thread *)
(* between its acquire and its release.                                    *)
PermitsConserved == permits + Cardinality(Holders) = MaxConcurrent

(* At most MaxConcurrent commands run at once.                             *)
CapHolds == Cardinality(At({"body"})) <= MaxConcurrent

(* Whenever status may read it, _ACTIVE counts exactly the threads between *)
(* their increment and their decrement; no update is lost.                 *)
ActiveIsExact == lock = Nil => active = Cardinality(At({"body", "exit"}))

(* The reported count never exceeds the limit, not even for an instant:    *)
(* the counter goes down before the permit comes back.                     *)
ActiveWithinCap == active \in 0 .. MaxConcurrent
=============================================================================
