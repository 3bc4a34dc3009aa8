------------------------------ MODULE SerialQueue ------------------------------
(***************************************************************************)
(* SerialQueue (src/gateway/queue.ts): the gateway's global queue.  A job  *)
(* is one chat request: it is pushed once, waits its turn, runs until its  *)
(* promise settles, and may be aborted by its signal at any time.  A run's *)
(* settlement frees the slot and starts the next waiter in the same        *)
(* callback.  What a run does between is the business of GatewayChat.      *)
(* Operators named Mut... are faulty variants no action uses: each is put  *)
(* in the place of the definition that follows it to see a property fail.  *)
(***************************************************************************)
EXTENDS Naturals, Sequences, FiniteSets

CONSTANTS Jobs,          \* the jobs that are ever pushed
          MaxLength      \* maxLength: how many jobs may wait

ASSUME MaxLengthAssumption == MaxLength \in Nat \ {0}

VARIABLES
  waiting,               \* the waiters, first in first out
  running,               \* the slot is taken
  status,                \* where each job stands
  aborted,               \* the jobs whose signal has fired
  arrival,               \* history: the rank at which a job was accepted, 0 if not
  accepted               \* history: how many jobs were accepted

queueVars == <<waiting, running, status, aborted, arrival, accepted>>

(* "refused" is QueueFullError, "dropped" QueueAbortError; "settled" is the run's
   own result, handed to the pusher whether it resolved or rejected. *)
Statuses == {"idle", "waiting", "running", "settled", "refused", "dropped"}

QueueInit ==
  /\ waiting = <<>>
  /\ running = FALSE
  /\ status = [j \in Jobs |-> "idle"]
  /\ aborted = {}
  /\ arrival = [j \in Jobs |-> 0]
  /\ accepted = 0

-------------------------------------------------------------------------------
MutWithout(line, i) == [line EXCEPT ![i] = "undefined"]

(* splice(index, 1): the line without its i-th waiter. *)
Without(line, i) ==
  [k \in 1..Len(line) - 1 |-> IF k < i THEN line[k] ELSE line[k + 1]]

(* pump(), on the line and the statuses the caller has just made: when the slot is
   free the first waiter leaves the line and starts. *)
MutPumpTaken(line, busy, standing) ==
  IF line = <<>>
  THEN /\ waiting' = line
       /\ running' = busy
       /\ status' = standing
  ELSE /\ waiting' = Tail(line)
       /\ running' = TRUE
       /\ status' = [standing EXCEPT ![Head(line)] = "running"]

MutPumpLast(line, busy, standing) ==
  IF busy \/ line = <<>>
  THEN /\ waiting' = line
       /\ running' = busy
       /\ status' = standing
  ELSE /\ waiting' = SubSeq(line, 1, Len(line) - 1)
       /\ running' = TRUE
       /\ status' = [standing EXCEPT ![line[Len(line)]] = "running"]

Pump(line, busy, standing) ==
  IF busy \/ line = <<>>
  THEN /\ waiting' = line
       /\ running' = busy
       /\ status' = standing
  ELSE /\ waiting' = Tail(line)
       /\ running' = TRUE
       /\ status' = [standing EXCEPT ![Head(line)] = "running"]

Accept(j) ==
  /\ arrival' = [arrival EXCEPT ![j] = accepted + 1]
  /\ accepted' = accepted + 1

(* push on a full line throws before anything else is looked at. *)
MutPushRefused(j) ==
  /\ status[j] = "idle"
  /\ Len(waiting) + (IF running THEN 1 ELSE 0) >= MaxLength
  /\ status' = [status EXCEPT ![j] = "refused"]
  /\ UNCHANGED <<waiting, running, aborted, arrival, accepted>>

PushRefused(j) ==
  /\ status[j] = "idle"
  /\ Len(waiting) >= MaxLength
  /\ status' = [status EXCEPT ![j] = "refused"]
  /\ UNCHANGED <<waiting, running, aborted, arrival, accepted>>

(* push with a signal that fired before: rejected, never queued. *)
PushDropped(j) ==
  /\ status[j] = "idle"
  /\ Len(waiting) < MaxLength
  /\ j \in aborted
  /\ status' = [status EXCEPT ![j] = "dropped"]
  /\ UNCHANGED <<waiting, running, aborted, arrival, accepted>>

PushAccepted(j) ==
  /\ status[j] = "idle"
  /\ Len(waiting) < MaxLength
  /\ j \notin aborted
  /\ Accept(j)
  /\ Pump(Append(waiting, j), running, [status EXCEPT ![j] = "waiting"])
  /\ UNCHANGED aborted

Push(j) == PushRefused(j) \/ PushDropped(j) \/ PushAccepted(j)

(* The job's signal fires.  onAbort takes a waiter out of the line; for a job that
   is not waiting no listener of the queue is attached. *)
MutAbort(j) ==
  /\ j \notin aborted
  /\ aborted' = aborted \cup {j}
  /\ UNCHANGED <<waiting, running, status, arrival, accepted>>

Abort(j) ==
  /\ j \notin aborted
  /\ aborted' = aborted \cup {j}
  /\ \/ /\ status[j] = "waiting"
        /\ \E i \in 1..Len(waiting) :
             waiting[i] = j /\ waiting' = Without(waiting, i)
        /\ status' = [status EXCEPT ![j] = "dropped"]
     \/ /\ status[j] # "waiting"
        /\ UNCHANGED <<waiting, status>>
  /\ UNCHANGED <<running, arrival, accepted>>

(* The promise of the running job settles: the slot is freed, its pusher gets the
   result, and pump starts the next waiter before any other callback runs. *)
MutRunSettles(j) ==
  /\ status[j] = "running"
  /\ waiting' = waiting
  /\ running' = FALSE
  /\ status' = [status EXCEPT ![j] = "settled"]
  /\ UNCHANGED <<aborted, arrival, accepted>>

RunSettles(j) ==
  /\ status[j] = "running"
  /\ Pump(waiting, FALSE, [status EXCEPT ![j] = "settled"])
  /\ UNCHANGED <<aborted, arrival, accepted>>

QueueNext == \E j \in Jobs : Push(j) \/ Abort(j) \/ RunSettles(j)

QueueSpec == QueueInit /\ [][QueueNext]_queueVars

(* runAgy settles within its timeouts (LiveRunSettles of AgyProcess), so a run does. *)
FairQueueSpec == QueueSpec /\ \A j \in Jobs : WF_queueVars(RunSettles(j))

-------------------------------------------------------------------------------
Waiters == {waiting[i] : i \in 1..Len(waiting)}

(* Every variable has its type. *)
QueueTypeOK ==
  /\ waiting \in Seq(Jobs)
  /\ running \in BOOLEAN
  /\ status \in [Jobs -> Statuses]
  /\ aborted \subseteq Jobs
  /\ arrival \in [Jobs -> Nat]
  /\ accepted \in Nat

(* "at most ONE agy task runs at a time" (src/gateway/queue.ts:2): no two jobs run
   together, and the flag that guards the slot is set exactly when one does. *)
OneAtATime ==
  /\ \A j, k \in Jobs : status[j] = "running" /\ status[k] = "running" => j = k
  /\ running <=> \E j \in Jobs : status[j] = "running"

(* The line holds exactly the jobs told to wait, each of them once, and never one
   whose client is gone: a disconnected client's task is not started later. *)
LineIsLive ==
  /\ Waiters = {j \in Jobs : status[j] = "waiting"}
  /\ \A i, k \in 1..Len(waiting) : waiting[i] = waiting[k] => i = k
  /\ Waiters \cap aborted = {}

(* No lost wake-up: a job never waits for a slot that is free. *)
NoIdleSlot == waiting # <<>> => running

(* First in, first out: nobody has started before a job that still waits and was
   accepted earlier, however many left the line in between. *)
StartsInOrder ==
  \A j, k \in Jobs :
    status[j] \in {"running", "settled"} /\ status[k] = "waiting" =>
      arrival[j] < arrival[k]

(* The line never exceeds its limit, and a push is refused for lack of room only
   while one job runs and MaxLength others wait: never a free place turned down. *)
RefusedOnlyWhenFull ==
  [][/\ Len(waiting') <= MaxLength
     /\ \A j \in Jobs : status[j] # "refused" /\ status'[j] = "refused" =>
          running /\ Cardinality(Waiters) = MaxLength]_queueVars

(* Every job that waits starts, unless its client leaves. *)
WaitersServed ==
  \A j \in Jobs : status[j] = "waiting" ~> status[j] \in {"settled", "dropped"}
===============================================================================
