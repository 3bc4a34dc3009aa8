----------------------------- MODULE TaskProgress -----------------------------
(***************************************************************************)
(* One call of the antigravity-task tool: execute and its throttled        *)
(* progress dispatcher (src/index.ts) around runAntigravityTask            *)
(* (src/runner.ts).  The runner reports a start, what the parser sees, and *)
(* a terminal update; the dispatcher shows the first at once, coalesces    *)
(* what follows too soon into one pending slot with a timer, and is        *)
(* flushed when the call settles.  Timers follow the steady time,          *)
(* Date.now() the wall clock, which may be set while the task runs.        *)
(* Operators named Mut... are faulty variants that no action uses: each is *)
(* put in the place of the definition it precedes to see a property fail.  *)
(***************************************************************************)
EXTENDS Integers, Sequences, SequencesExt

CONSTANTS MinInterval,   \* minIntervalMs, in ticks
          Skews,         \* how far the wall clock may be set off the steady time
          MaxTime,       \* bound of the model: ticks
          MaxUpdates     \* bound of the model: updates of the parser

ASSUME IntervalAssumption == MinInterval \in Nat /\ 0 \in Skews /\ Skews \subseteq Int

VARIABLES
  stage,                 \* "idle", "running" (agy is), or "settled"
  result,                \* the kind of the payload returned, "none" or "thrown"
  evidence,              \* history: how agy's run ended, NoEvidence without one
  now,                   \* steady time
  skew,                  \* the wall clock less the steady time
  steady,                \* history: the wall clock was never set
  lastEmit,              \* wall time of the last update shown, 0 at first
  pending,               \* the coalesced update, or NoUpdate
  timer,                 \* steady time at which the timer is due, or NoTimer
  sent,                  \* history: how many updates were dispatched
  shown                  \* the calls of metadata(): the update, and when

dispatcherVars == <<lastEmit, pending, timer, sent, shown>>
vars == <<stage, result, evidence, now, skew, steady, dispatcherVars>>

ProcessFailures == {"spawn-failed", "timeout", "aborted", "stdout-overflow",
                    "stderr-overflow"}
EarlyFailures == {"empty-task", "invalid-timeout", "conversation-conflict", "empty-path",
                  "resolve-not-found", "resolve-not-executable"}
ParserFailures == {"status", "duplicate-result", "missing-result", "invalid-result",
                   "empty-output"}
Kinds == ProcessFailures \cup EarlyFailures \cup ParserFailures \cup {"nonzero-exit", "success"}

NoUpdate == [event |-> "none", n |-> 0, kind |-> "none"]
NoTimer == -1
NoEvidence == [process |-> "none", parser |-> "none", exit |-> "none"]
Update(event, kind) == [event |-> event, n |-> sent + 1, kind |-> kind]
DateNow == now + skew

Init ==
  /\ stage = "idle"
  /\ result = "none"
  /\ evidence = NoEvidence
  /\ now = MinInterval       \* Date.now() is far from lastEmit at first
  /\ skew = 0
  /\ steady = TRUE
  /\ lastEmit = 0
  /\ pending = NoUpdate
  /\ timer = NoTimer
  /\ sent = 0
  /\ shown = <<>>

-------------------------------------------------------------------------------
(* The dispatcher.  A call of metadata() that throws is ignored. *)
Shown(update) == [update |-> update, at |-> now]

EmitNow(update) ==
  /\ timer' = NoTimer
  /\ lastEmit' = DateNow
  /\ pending' = NoUpdate
  /\ shown' = Append(shown, Shown(update))

MutDispatch(update) ==
  /\ sent' = update.n
  /\ IF DateNow - lastEmit >= MinInterval
     THEN /\ lastEmit' = DateNow
          /\ shown' = Append(shown, Shown(update))
          /\ UNCHANGED <<timer, pending>>
     ELSE /\ pending' = update
          /\ timer' = IF timer = NoTimer THEN now + (MinInterval - (DateNow - lastEmit))
                      ELSE timer
          /\ UNCHANGED <<lastEmit, shown>>

MutDispatchUnarmed(update) ==
  /\ sent' = update.n
  /\ IF DateNow - lastEmit >= MinInterval
     THEN EmitNow(update)
     ELSE pending' = update /\ UNCHANGED <<timer, lastEmit, shown>>

MutDispatchSign(update) ==
  /\ sent' = update.n
  /\ IF DateNow - lastEmit >= MinInterval
     THEN EmitNow(update)
     ELSE /\ pending' = update
          /\ timer' = IF timer = NoTimer THEN (DateNow - lastEmit) - MinInterval ELSE timer
          /\ UNCHANGED <<lastEmit, shown>>

Dispatch(update) ==
  /\ sent' = update.n
  /\ IF DateNow - lastEmit >= MinInterval
     THEN EmitNow(update)
     ELSE /\ pending' = update
          /\ timer' = IF timer = NoTimer THEN now + (MinInterval - (DateNow - lastEmit))
                      ELSE timer
          /\ UNCHANGED <<lastEmit, shown>>

MutTimerFires ==
  /\ timer # NoTimer
  /\ timer' = NoTimer
  /\ IF pending # NoUpdate THEN EmitNow(pending) ELSE UNCHANGED <<lastEmit, pending, shown>>
  /\ UNCHANGED <<stage, result, evidence, now, skew, steady, sent>>

TimerFires ==
  /\ timer # NoTimer /\ now >= timer
  /\ timer' = NoTimer
  /\ IF pending # NoUpdate THEN EmitNow(pending) ELSE UNCHANGED <<lastEmit, pending, shown>>
  /\ UNCHANGED <<stage, result, evidence, now, skew, steady, sent>>

(* The updates of one synchronous stretch, then flush(): the first may be shown at once
   or join the pending slot; flush shows what the slot holds. *)
MutDispatchAndFlush(first, then) ==
  LET at == IF DateNow - lastEmit >= MinInterval THEN {first} ELSE {}
      left == IF then # NoUpdate THEN then ELSE IF at = {} THEN first ELSE NoUpdate
  IN /\ sent' = IF then # NoUpdate THEN then.n ELSE first.n
     /\ shown' = shown \o SetToSeq({Shown(u) : u \in at})
     /\ pending' = left
     /\ timer' = IF left = NoUpdate THEN NoTimer ELSE now + MinInterval
     /\ lastEmit' = DateNow

DispatchAndFlush(first, then) ==
  LET at == IF DateNow - lastEmit >= MinInterval THEN <<Shown(first)>> ELSE <<>>
      left == IF then # NoUpdate THEN <<Shown(then)>>
              ELSE IF at = <<>> THEN <<Shown(first)>> ELSE <<>>
  IN /\ sent' = IF then # NoUpdate THEN then.n ELSE first.n
     /\ shown' = shown \o at \o left
     /\ pending' = NoUpdate
     /\ timer' = NoTimer
     /\ lastEmit' = DateNow

-------------------------------------------------------------------------------
(* execute is called: the start is reported, agy is found and spawned. *)
Execute ==
  /\ stage = "idle"
  /\ stage' = "running"
  /\ Dispatch(Update("start", "none"))
  /\ UNCHANGED <<result, evidence, now, skew, steady>>

(* The arguments or the executable are no good: everything happens in one stretch. *)
ExecuteFails ==
  /\ stage = "idle"
  /\ stage' = "settled"
  /\ \E kind \in EarlyFailures :
       /\ result' = kind
       /\ DispatchAndFlush(Update("start", "none"),
                           [event |-> "terminal", n |-> sent + 2, kind |-> kind])
  /\ UNCHANGED <<evidence, now, skew, steady>>

(* An error of no known class: it is thrown on, with no terminal update. *)
ExecuteThrows ==
  /\ stage = "idle"
  /\ stage' = "settled"
  /\ result' = "thrown"
  /\ DispatchAndFlush(Update("start", "none"), NoUpdate)
  /\ UNCHANGED <<evidence, now, skew, steady>>

(* A line of agy's stdout is an init or a step: a snapshot of the parser. *)
Progress ==
  /\ stage = "running"
  /\ sent <= MaxUpdates
  /\ Dispatch(Update("snapshot", "none"))
  /\ UNCHANGED <<stage, result, evidence, now, skew, steady>>

(* How the run of agy may end: the promise of runAgy, the parser's verdict on the
   stream and the exit status, the latter two only of a run that resolved. *)
Evidence ==
  [process : ProcessFailures \cup {"error"}, parser : {"none"}, exit : {"none"}]
    \cup [process : {"resolved"}, parser : ParserFailures \cup {"success"},
          exit : {"clean", "bad"}]

(* processFailure, metadataFromParser and parserFailureMetadata: the parser's failure
   goes before a bad exit, and success needs both. *)
MutKind(e) ==
  IF e.process # "resolved" THEN e.process
  ELSE IF e.parser # "success" THEN e.parser
  ELSE "success"

Kind(e) ==
  IF e.process # "resolved" THEN e.process
  ELSE IF e.parser # "success" THEN e.parser
  ELSE IF e.exit = "bad" THEN "nonzero-exit"
  ELSE "success"

(* runAgy settles; the payload is built, the terminal update dispatched, and execute's
   finally flushes before any timer can run. *)
Settle ==
  /\ stage = "running"
  /\ stage' = "settled"
  /\ \E e \in Evidence :
       /\ evidence' = e
       /\ IF e.process = "error"
          THEN /\ result' = "thrown"
               /\ IF pending = NoUpdate THEN UNCHANGED dispatcherVars
                  ELSE EmitNow(pending) /\ UNCHANGED sent
          ELSE /\ result' = Kind(e)
               /\ DispatchAndFlush(Update("terminal", Kind(e)), NoUpdate)
  /\ UNCHANGED <<now, skew, steady>>

-------------------------------------------------------------------------------
(* Time passes; the wall clock is set.  Both stop mattering at MaxTime, but a timer
   that is armed is still waited for. *)
Tick ==
  /\ now < MaxTime \/ timer > now
  /\ now' = now + 1
  /\ UNCHANGED <<stage, result, evidence, skew, steady, dispatcherVars>>

SetClock ==
  /\ stage = "running" /\ now < MaxTime
  /\ \E s \in Skews \ {skew} : now + s >= 0 /\ skew' = s
  /\ steady' = FALSE
  /\ UNCHANGED <<stage, result, evidence, now, dispatcherVars>>

Next ==
  \/ Execute \/ ExecuteFails \/ ExecuteThrows
  \/ Progress \/ Settle \/ TimerFires
  \/ Tick \/ SetClock

Spec == Init /\ [][Next]_vars

(* Time passes and a due timer runs.  Nothing is assumed of agy. *)
FairSpec == Spec /\ WF_vars(Tick) /\ WF_vars(TimerFires)

-------------------------------------------------------------------------------
Updates == [event : {"start", "snapshot", "terminal"}, n : Nat,
            kind : Kinds \cup {"none"}]

(* Every variable has its type. *)
TypeOK ==
  /\ stage \in {"idle", "running", "settled"}
  /\ result \in Kinds \cup {"none", "thrown"}
  /\ evidence \in Evidence \cup {NoEvidence}
  /\ now \in Nat /\ skew \in Skews /\ steady \in BOOLEAN
  /\ lastEmit \in Int
  /\ pending \in Updates \cup {NoUpdate}
  /\ timer \in Nat \cup {NoTimer}
  /\ sent \in Nat
  /\ shown \in Seq([update : Updates, at : Nat])

(* Coalescing drops updates but never reorders or repeats one: the start comes first,
   and what is pending is newer than all that was shown. *)
ShownInOrder ==
  /\ \A i, k \in DOMAIN shown : i < k => shown[i].update.n < shown[k].update.n
  /\ shown # <<>> => shown[1].update.event = "start"
  /\ pending # NoUpdate => pending.n = sent /\ Last(shown).update.n < sent

(* The last thing shown is the verdict the caller gets, and it says success only of a
   run that resolved, with a clean exit and a stream the parser accepts. *)
LastWordIsVerdict ==
  stage = "settled" /\ result # "thrown" =>
    /\ Last(shown).update.event = "terminal" /\ Last(shown).update.kind = result
    /\ \A i \in 1..Len(shown) - 1 : shown[i].update.event # "terminal"
    /\ result = "success" =>
         evidence = [process |-> "resolved", parser |-> "success", exit |-> "clean"]

(* "Throttled" (src/index.ts:123): as long as nobody sets the clock, updates are shown
   at least an interval apart, but for the ones a call that settles still has to show. *)
Throttled ==
  steady =>
    \A i \in 1..Len(shown) - 1 :
      \/ shown[i + 1].at - shown[i].at >= MinInterval
      \/ stage = "settled" /\ i + 1 = Len(shown)

(* "no update can ever fire after execute settles" (src/index.ts:126-127). *)
NothingAfterSettle == [][stage = "settled" => UNCHANGED shown]_vars

(* An update that was held back is shown, or gives way to a newer one that is, even
   when the wall clock is set back and agy says nothing more. *)
PendingShown == pending # NoUpdate ~> pending = NoUpdate
===============================================================================
