--------------------------- MODULE AgyProcessProofs ---------------------------
(***************************************************************************)
(* What runAgy promises, for any limits and any sequence of chunks, and    *)
(* whatever the child, its descendants and the kernel do: the safety       *)
(* properties of AgyProcess, and that it implements OneShotRun.            *)
(*                                                                         *)
(* A settled run is only quiet because of what each phase allows: while    *)
(* running only the host timer is armed and nothing was signalled, while   *)
(* terminating a cause is on record, and a refused kill settles the run    *)
(* on the spot.  The invariant says so, phase by phase.                    *)
(***************************************************************************)
EXTENDS AgyProcess, TLAPS

(* Nothing has happened yet. *)
BeforeTheCall ==
  phase = "idle" =>
    /\ outcome = Pending /\ timers = {} /\ ~listening /\ child = "none"
    /\ stdoutBytes = 0 /\ stderrBytes = 0
    /\ stdoutKept = 0 /\ stderrKept = 0

(* The listeners are attached from the spawn to the settlement. *)
ListeningWhileLive ==
  /\ listening => phase \in {"running", "terminating"} /\ outcome = Pending
  /\ ~listening => phase = "idle" \/ Settled

(* The phase and the cause of the termination agree. *)
CauseOfTermination ==
  /\ phase = "terminating" => terminationKind # "none"
  /\ terminationKind # "none" => phase \in {"terminating", "done"}

(* A run nobody stopped has no escalation under way and is within its limits. *)
Unstopped ==
  terminationKind = "none" =>
    /\ timers \subseteq {"timeout"}
    /\ signalled = "none"
    /\ ~denied
    /\ stdoutBytes <= MaxStdout /\ stderrBytes <= MaxStderr

(* Capture falls behind the streams only after an overflow. *)
CaptureKeepsUp ==
  overflowBytes = 0 => stdoutKept = stdoutBytes /\ stderrKept = stderrBytes

(* A refused kill settles the run, if it was not settled before. *)
DeniedSettles == denied => outcome = Result("spawn-failed", "none")

(* The close watch of a live run is armed only once SIGKILL was tried. *)
WatchAfterKill ==
  "closeWatch" \in timers /\ listening => signalled = "SIGKILL" \/ child # "alive"

RunInv ==
  /\ TypeOK
  /\ BeforeTheCall /\ ListeningWhileLive /\ CauseOfTermination /\ Unstopped
  /\ CaptureKeepsUp /\ DeniedSettles /\ WatchAfterKill
  /\ QuietAfterSettle /\ ReapedOrKilled /\ ResolvedComplete /\ OverflowReported

-------------------------------------------------------------------------------
(* What a verdict looks like, and that it is not the pending outcome. *)
LEMMA ResultFacts ==
  /\ \A v \in Verdicts, e \in {"reaped", "unobserved", "none"} :
       /\ Result(v, e) \in Outcomes
       /\ Result(v, e) # Pending
       /\ Result(v, e).verdict = v
       /\ Result(v, e).exit = e
  /\ Pending.verdict = "pending"
  /\ TerminationKinds \subseteq Verdicts /\ {"resolved", "spawn-failed"} \subseteq Verdicts
  /\ Refusals \subseteq Verdicts
  /\ "pending" \notin Verdicts
  /\ "none" \notin TerminationKinds
  /\ "resolved" \notin TerminationKinds
  /\ "spawn-failed" \notin TerminationKinds
BY DEF Result, Outcomes, Pending, Verdicts, TerminationKinds, Refusals

(* beginTermination from the running phase: a cause, one grace timer, and a run
   that is still live unless the kernel refused the signal. *)
LEMMA BeginFacts ==
  ASSUME RunInv, NEW kind \in TerminationKinds, phase = "running", listening,
         BeginTermination(kind)
  PROVE  /\ terminationKind = "none" /\ outcome = Pending /\ ~denied
         /\ overflowBytes = 0
         /\ phase' = "terminating" /\ terminationKind' = kind
         /\ timers' = {"grace"}
         /\ uncaught' = uncaught
         /\ signalled' \in {"none", "SIGTERM", "SIGKILL"}
         /\ \/ /\ outcome' = Pending
               /\ listening' = TRUE /\ denied' = FALSE
            \/ /\ outcome' = Result("spawn-failed", "none")
               /\ listening' = FALSE /\ denied' = TRUE
<1>1. terminationKind = "none" /\ outcome = Pending /\ ~denied /\ overflowBytes = 0
  BY DEF RunInv, TypeOK, CauseOfTermination, ListeningWhileLive, Unstopped,
         OverflowReported, OverflowKinds
<1>2. timers \subseteq {"timeout"}
  BY <1>1 DEF RunInv, Unstopped
<1>3. /\ phase' = "terminating" /\ terminationKind' = kind /\ uncaught' = uncaught
      /\ timers' = {"grace"}
      /\ signalled' \in {"none", "SIGTERM", "SIGKILL"}
  BY <1>2 DEF BeginTermination, Delivered, RunInv, TypeOK
<1>4. \/ outcome' = outcome /\ listening' = listening /\ denied' = denied
      \/ /\ outcome' = Result("spawn-failed", "none")
         /\ listening' = FALSE /\ denied' = TRUE
  BY DEF BeginTermination
<1>5. listening = TRUE /\ denied = FALSE
  BY <1>1 DEF RunInv, TypeOK
<1> QED
  BY <1>1, <1>3, <1>4, <1>5

(* After a termination began, the invariant needs only what the caller did with
   the bytes it counted. *)
LEMMA AfterBegin ==
  ASSUME RunInv, NEW kind \in TerminationKinds, phase = "running", listening,
         BeginTermination(kind),
         request' = request, aborted' \in BOOLEAN, UNCHANGED childVars,
         overflowBytes' \in Nat, stdoutBytes' \in Nat, stderrBytes' \in Nat,
         stdoutKept' \in Nat, stderrKept' \in Nat,
         CaptureKeepsUp', OverflowReported'
  PROVE  RunInv'
<1> DEFINE Stopped == /\ phase' = "terminating" /\ terminationKind' = kind
                      /\ timers' = {"grace"}
                      /\ uncaught' = uncaught
                      /\ signalled' \in {"none", "SIGTERM", "SIGKILL"}
<1>1. Stopped
  BY BeginFacts
<1>2. /\ kind \in Verdicts /\ kind # "none"
      /\ Result("spawn-failed", "none") \in Outcomes
      /\ Result("spawn-failed", "none") # Pending
      /\ Result("spawn-failed", "none").verdict = "spawn-failed"
      /\ Pending.verdict = "pending"
      /\ "spawn-failed" \notin TerminationKinds /\ "pending" \notin TerminationKinds
  BY ResultFacts
<1>3. \/ outcome' = Pending /\ listening' = TRUE /\ denied' = FALSE
      \/ outcome' = Result("spawn-failed", "none") /\ listening' = FALSE /\ denied' = TRUE
  BY BeginFacts
<1>4. TypeOK'
  BY <1>1, <1>2, <1>3 DEF RunInv, TypeOK, childVars, Timers
<1>5. BeforeTheCall' /\ CauseOfTermination' /\ Unstopped' /\ WatchAfterKill'
  BY <1>1, <1>2 DEF BeforeTheCall, CauseOfTermination, Unstopped, WatchAfterKill
<1>6. ListeningWhileLive' /\ DeniedSettles' /\ QuietAfterSettle'
  BY <1>1, <1>2, <1>3 DEF ListeningWhileLive, DeniedSettles, QuietAfterSettle, Settled
<1>7. ReapedOrKilled' /\ ResolvedComplete'
  BY <1>2, <1>3 DEF ReapedOrKilled, ResolvedComplete
<1> QED
  BY <1>4, <1>5, <1>6, <1>7 DEF RunInv

-------------------------------------------------------------------------------
(* The call: refused, failed, or live with nothing but the host timer armed. *)
LEMMA AfterTheCall ==
  RunInv /\ (Refuse \/ SpawnThrows \/ Spawn) => RunInv'
<1> SUFFICES ASSUME RunInv PROVE Refuse \/ SpawnThrows \/ Spawn => RunInv'
  OBVIOUS
<1> USE DEF RunInv, TypeOK, BeforeTheCall, ListeningWhileLive, CauseOfTermination,
            Unstopped, CaptureKeepsUp, DeniedSettles, WatchAfterKill, QuietAfterSettle,
            ReapedOrKilled, ResolvedComplete, OverflowReported, Settled, Pending, Result,
            Outcomes, Verdicts, TerminationKinds, OverflowKinds, Timers, Refusals,
            captureVars, childVars
<1>1. Refuse => RunInv'
  BY LimitsAssumption DEF Refuse, Refusal
<1>2. SpawnThrows => RunInv'
  BY LimitsAssumption DEF SpawnThrows
<1>3. Spawn => RunInv'
  BY LimitsAssumption DEF Spawn
<1> QED
  BY <1>1, <1>2, <1>3

(* The signal fires: a termination if the run is live, nothing otherwise. *)
LEMMA AfterAbortFires ==
  ASSUME RunInv, AbortFires PROVE RunInv'
<1>1. aborted' = TRUE /\ request' = request /\ UNCHANGED captureVars /\ UNCHANGED childVars
  BY DEF AbortFires
<1>2. "aborted" \in TerminationKinds /\ "aborted" \notin OverflowKinds
  BY DEF TerminationKinds, OverflowKinds
<1>3. CASE listening /\ phase = "running"
  <2>1. BeginTermination("aborted")
    BY <1>3 DEF AbortFires
  <2>2. terminationKind' = "aborted" /\ overflowBytes = 0
    BY <1>2, <1>3, <2>1, BeginFacts
  <2>3. OverflowReported'
    BY <1>1, <1>2, <2>2 DEF OverflowReported, OverflowKinds, captureVars
  <2>4. CaptureKeepsUp'
    BY <1>1 DEF RunInv, CaptureKeepsUp, captureVars
  <2> QED
    BY <1>1, <1>2, <1>3, <2>1, <2>3, <2>4, AfterBegin DEF RunInv, TypeOK, captureVars
<1>4. CASE ~(listening /\ phase = "running")
  <2>1. UNCHANGED settleVars
    BY <1>4 DEF AbortFires
  <2> QED
    BY <1>1, <2>1 DEF RunInv, TypeOK, BeforeTheCall, ListeningWhileLive,
       CauseOfTermination, Unstopped, CaptureKeepsUp, DeniedSettles, WatchAfterKill,
       QuietAfterSettle, ReapedOrKilled, ResolvedComplete, OverflowReported, Settled,
       captureVars, childVars, settleVars
<1> QED
  BY <1>3, <1>4

(* The host timer fires, which it can only do while the run is live. *)
LEMMA AfterTimeoutFires ==
  ASSUME RunInv, TimeoutFires PROVE RunInv'
<1>1. /\ phase = "running" /\ listening
      /\ BeginTermination("timeout")
      /\ UNCHANGED <<request, aborted, captureVars, childVars>>
  BY DEF RunInv, TimeoutFires, TypeOK, ListeningWhileLive, QuietAfterSettle,
         CauseOfTermination, Unstopped
<1>2. "timeout" \in TerminationKinds /\ "timeout" \notin OverflowKinds
  BY DEF TerminationKinds, OverflowKinds
<1>3. terminationKind' = "timeout" /\ overflowBytes = 0
  BY <1>1, <1>2, BeginFacts
<1>4. OverflowReported'
  BY <1>1, <1>2, <1>3 DEF OverflowReported, OverflowKinds, captureVars
<1>5. CaptureKeepsUp'
  BY <1>1 DEF RunInv, CaptureKeepsUp, captureVars
<1> QED
  BY <1>1, <1>2, <1>4, <1>5, AfterBegin DEF RunInv, TypeOK, captureVars

(* A chunk on stdout: counted and kept, or the first to break its limit. *)
LEMMA AfterStdout ==
  ASSUME RunInv, NEW n \in Chunks, ReceiveStdout(n) PROVE RunInv'
<1>1. n \in Nat /\ stdoutBytes' = stdoutBytes + n /\ stdoutBytes' \in Nat
  BY ChunksAssumption DEF ReceiveStdout, RunInv, TypeOK
<1>2. /\ listening /\ UNCHANGED <<request, aborted, stderrBytes, stderrKept, childVars>>
  BY DEF ReceiveStdout
<1>3. CASE phase = "running" /\ overflowBytes = 0 /\ stdoutBytes' > MaxStdout
  <2>1. /\ overflowBytes' = stdoutBytes' /\ stdoutKept' = stdoutKept
        /\ BeginTermination("stdout-overflow")
    BY <1>3 DEF ReceiveStdout
  <2>2. "stdout-overflow" \in TerminationKinds
    BY DEF TerminationKinds
  <2>3. terminationKind' = "stdout-overflow"
    BY <1>2, <1>3, <2>1, <2>2, BeginFacts
  <2>4. OverflowReported' /\ CaptureKeepsUp'
    BY <1>1, <1>3, <2>1, <2>3, LimitsAssumption
       DEF OverflowReported, OverflowKinds, CaptureKeepsUp
  <2> QED
    BY <1>1, <1>2, <1>3, <2>1, <2>2, <2>4, AfterBegin DEF RunInv, TypeOK
<1>4. CASE ~(phase = "running" /\ overflowBytes = 0 /\ stdoutBytes' > MaxStdout)
  <2>1. /\ stdoutKept' = (IF overflowBytes = 0 THEN stdoutKept + n ELSE stdoutKept)
        /\ UNCHANGED <<overflowBytes, settleVars>>
    BY <1>4 DEF ReceiveStdout
  <2>2. TypeOK' /\ CaptureKeepsUp'
    BY <1>1, <1>2, <2>1 DEF RunInv, TypeOK, CaptureKeepsUp, childVars, settleVars
  <2>3. Unstopped'
    BY <1>1, <1>2, <1>4, <2>1, LimitsAssumption
       DEF RunInv, TypeOK, Unstopped, ListeningWhileLive, CauseOfTermination,
           OverflowReported, OverflowKinds, settleVars
  <2>4. outcome = Pending /\ phase # "idle"
    BY <1>2 DEF RunInv, ListeningWhileLive
  <2>5. /\ BeforeTheCall' /\ ListeningWhileLive' /\ CauseOfTermination'
        /\ DeniedSettles' /\ WatchAfterKill' /\ QuietAfterSettle' /\ OverflowReported'
    BY <1>2, <2>1, <2>4 DEF RunInv, BeforeTheCall, ListeningWhileLive, CauseOfTermination,
       DeniedSettles, WatchAfterKill, QuietAfterSettle, OverflowReported, Settled,
       settleVars, childVars
  <2>6. ReapedOrKilled' /\ ResolvedComplete'
    BY <2>1, <2>4, ResultFacts DEF ReapedOrKilled, ResolvedComplete, settleVars
  <2> QED
    BY <2>2, <2>3, <2>5, <2>6 DEF RunInv
<1> QED
  BY <1>3, <1>4

(* A chunk on stderr, likewise. *)
LEMMA AfterStderr ==
  ASSUME RunInv, NEW n \in Chunks, ReceiveStderr(n) PROVE RunInv'
<1>1. n \in Nat /\ stderrBytes' = stderrBytes + n /\ stderrBytes' \in Nat
  BY ChunksAssumption DEF ReceiveStderr, RunInv, TypeOK
<1>2. /\ listening /\ UNCHANGED <<request, aborted, stdoutBytes, stdoutKept, childVars>>
  BY DEF ReceiveStderr
<1>3. CASE phase = "running" /\ overflowBytes = 0 /\ stderrBytes' > MaxStderr
  <2>1. /\ overflowBytes' = stderrBytes' /\ stderrKept' = stderrKept
        /\ BeginTermination("stderr-overflow")
    BY <1>3 DEF ReceiveStderr
  <2>2. "stderr-overflow" \in TerminationKinds
    BY DEF TerminationKinds
  <2>3. terminationKind' = "stderr-overflow"
    BY <1>2, <1>3, <2>1, <2>2, BeginFacts
  <2>4. OverflowReported' /\ CaptureKeepsUp'
    BY <1>1, <1>3, <2>1, <2>3, LimitsAssumption
       DEF OverflowReported, OverflowKinds, CaptureKeepsUp
  <2> QED
    BY <1>1, <1>2, <1>3, <2>1, <2>2, <2>4, AfterBegin DEF RunInv, TypeOK
<1>4. CASE ~(phase = "running" /\ overflowBytes = 0 /\ stderrBytes' > MaxStderr)
  <2>1. /\ stderrKept' = (IF overflowBytes = 0 THEN stderrKept + n ELSE stderrKept)
        /\ UNCHANGED <<overflowBytes, settleVars>>
    BY <1>4 DEF ReceiveStderr
  <2>2. TypeOK' /\ CaptureKeepsUp'
    BY <1>1, <1>2, <2>1 DEF RunInv, TypeOK, CaptureKeepsUp, childVars, settleVars
  <2>3. Unstopped'
    BY <1>1, <1>2, <1>4, <2>1, LimitsAssumption
       DEF RunInv, TypeOK, Unstopped, ListeningWhileLive, CauseOfTermination,
           OverflowReported, OverflowKinds, settleVars
  <2>4. outcome = Pending /\ phase # "idle"
    BY <1>2 DEF RunInv, ListeningWhileLive
  <2>5. /\ BeforeTheCall' /\ ListeningWhileLive' /\ CauseOfTermination'
        /\ DeniedSettles' /\ WatchAfterKill' /\ QuietAfterSettle' /\ OverflowReported'
    BY <1>2, <2>1, <2>4 DEF RunInv, BeforeTheCall, ListeningWhileLive, CauseOfTermination,
       DeniedSettles, WatchAfterKill, QuietAfterSettle, OverflowReported, Settled,
       settleVars, childVars
  <2>6. ReapedOrKilled' /\ ResolvedComplete'
    BY <2>1, <2>4, ResultFacts DEF ReapedOrKilled, ResolvedComplete, settleVars
  <2> QED
    BY <2>2, <2>3, <2>5, <2>6 DEF RunInv
<1> QED
  BY <1>3, <1>4

-------------------------------------------------------------------------------
(* SIGKILL, then the close watch; a refused kill settles a live run, and ends the
   host when the run was settled already. *)
LEMMA AfterGraceFires ==
  ASSUME RunInv, GraceFires PROVE RunInv'
<1>1. /\ UNCHANGED <<request, aborted, phase, terminationKind>>
      /\ UNCHANGED captureVars /\ UNCHANGED childVars
  BY DEF GraceFires
<1>2. /\ terminationKind # "none" /\ phase \in {"terminating", "done"}
      /\ timers \subseteq Timers
  BY DEF GraceFires, RunInv, TypeOK, Unstopped, CauseOfTermination
<1>3. OverflowReported' /\ CaptureKeepsUp'
  BY <1>1 DEF RunInv, OverflowReported, CaptureKeepsUp, captureVars
<1>4. CauseOfTermination' /\ BeforeTheCall' /\ Unstopped'
  BY <1>1, <1>2 DEF RunInv, CauseOfTermination, BeforeTheCall, Unstopped
<1>5. CASE /\ Delivered("SIGKILL")
           /\ timers' = (timers \ {"grace"}) \cup {"closeWatch"}
           /\ UNCHANGED <<outcome, listening, denied, uncaught>>
  <2>1. TypeOK'
    BY <1>1, <1>2, <1>5 DEF RunInv, TypeOK, Delivered, Timers, captureVars, childVars
  <2>2. ListeningWhileLive' /\ DeniedSettles' /\ ResolvedComplete'
    BY <1>1, <1>5 DEF RunInv, ListeningWhileLive, DeniedSettles, ResolvedComplete,
       Settled, captureVars, childVars
  <2>3. QuietAfterSettle'
    BY <1>5 DEF GraceFires, RunInv, QuietAfterSettle, Settled
  <2>4. WatchAfterKill'
    BY <1>1, <1>5 DEF Delivered, WatchAfterKill, childVars
  <2>5. ReapedOrKilled'
    BY <1>1, <1>5 DEF RunInv, ReapedOrKilled, Delivered, childVars
  <2> QED
    BY <1>3, <1>4, <2>1, <2>2, <2>3, <2>4, <2>5 DEF RunInv
<1>6. CASE /\ denied' = TRUE /\ listening
           /\ outcome' = Result("spawn-failed", "none")
           /\ listening' = FALSE
           /\ timers' = {"closeWatch"}
           /\ UNCHANGED <<signalled, uncaught>>
  <2>1. /\ outcome' \in Outcomes
        /\ listening' \in BOOLEAN /\ denied' \in BOOLEAN /\ timers' \subseteq Timers
    BY <1>6, ResultFacts DEF Timers
  <2>2. TypeOK'
    BY <1>1, <1>6, <2>1 DEF RunInv, TypeOK, captureVars, childVars
  <2>3. ListeningWhileLive' /\ DeniedSettles' /\ QuietAfterSettle' /\ WatchAfterKill'
    BY <1>6, ResultFacts DEF ListeningWhileLive, DeniedSettles, QuietAfterSettle,
       WatchAfterKill, Settled
  <2>4. outcome'.verdict = "spawn-failed"
    BY <1>6, ResultFacts
  <2>5. ResolvedComplete' /\ ReapedOrKilled'
    BY <2>4, ResultFacts DEF ResolvedComplete, ReapedOrKilled
  <2> QED
    BY <1>3, <1>4, <2>2, <2>3, <2>5 DEF RunInv
<1>7. CASE /\ denied' = TRUE /\ ~listening
           /\ uncaught' = TRUE
           /\ timers' = timers \ {"grace"}
           /\ UNCHANGED <<outcome, listening, signalled>>
  <2>1. denied
    BY <1>2, <1>7 DEF GraceFires, RunInv, TypeOK, ListeningWhileLive, QuietAfterSettle
  <2>2. TypeOK'
    BY <1>1, <1>2, <1>7 DEF RunInv, TypeOK, captureVars, childVars
  <2>3. ListeningWhileLive' /\ DeniedSettles' /\ ResolvedComplete' /\ ReapedOrKilled'
    BY <1>1, <1>7, <2>1 DEF RunInv, ListeningWhileLive, DeniedSettles, ResolvedComplete,
       ReapedOrKilled, Settled, captureVars, childVars
  <2>4. QuietAfterSettle' /\ WatchAfterKill'
    BY <1>7 DEF QuietAfterSettle, WatchAfterKill
  <2> QED
    BY <1>3, <1>4, <2>2, <2>3, <2>4 DEF RunInv
<1> QED
  BY <1>5, <1>6, <1>7 DEF GraceFires

(* The close watch ends a live run that is being stopped, and is void otherwise. *)
LEMMA AfterCloseWatchFires ==
  ASSUME RunInv, CloseWatchFires PROVE RunInv'
<1>1. /\ UNCHANGED <<request, aborted, terminationKind, signalled, denied, uncaught,
                     child, holder>>
      /\ UNCHANGED captureVars
  BY DEF CloseWatchFires
<1>2. /\ terminationKind \in TerminationKinds /\ phase \in {"terminating", "done"}
      /\ timers \subseteq Timers
  BY DEF CloseWatchFires, RunInv, TypeOK, Unstopped, CauseOfTermination
<1>3. OverflowReported' /\ CaptureKeepsUp'
  BY <1>1 DEF RunInv, OverflowReported, CaptureKeepsUp, captureVars
<1>4. phase' \in {"terminating", "done"}
  BY <1>2 DEF CloseWatchFires
<1>5. CASE phase = "terminating" /\ ~Settled
  <2>1. /\ phase' = "done"
        /\ outcome' = Result(terminationKind, "unobserved")
        /\ timers' = {} /\ listening' = FALSE
        /\ pipes' = IF pipes = "open" THEN "destroyed" ELSE pipes
    BY <1>5 DEF CloseWatchFires, Settle
  <2>2. TypeOK'
    <3>1. timers' \subseteq Timers /\ listening' \in BOOLEAN
      BY <2>1
    <3>2. outcome' \in Outcomes \cup {Pending}
      BY <1>2, <2>1, ResultFacts
    <3>3. pipes' \in {"open", "closed", "destroyed"}
      BY <2>1 DEF RunInv, TypeOK
    <3> QED
      BY <1>1, <1>4, <3>1, <3>2, <3>3 DEF RunInv, TypeOK, captureVars
  <2>3. ~denied
    BY <1>5, ResultFacts DEF RunInv, DeniedSettles, Settled
  <2>4. /\ ListeningWhileLive' /\ QuietAfterSettle' /\ WatchAfterKill' /\ BeforeTheCall'
        /\ DeniedSettles'
    BY <1>1, <1>2, <2>1, <2>3, ResultFacts DEF ListeningWhileLive, DeniedSettles,
       QuietAfterSettle, WatchAfterKill, BeforeTheCall, Settled
  <2>5. CauseOfTermination' /\ Unstopped'
    BY <1>1, <1>2, <1>4, ResultFacts DEF CauseOfTermination, Unstopped
  <2>6. listening
    BY <1>5 DEF RunInv, TypeOK, ListeningWhileLive
  <2>7. outcome'.verdict = terminationKind /\ outcome'.exit = "unobserved"
    BY <1>2, <2>1, ResultFacts
  <2>8. ReapedOrKilled' /\ ResolvedComplete'
    BY <1>1, <1>2, <2>6, <2>7, ResultFacts
       DEF CloseWatchFires, RunInv, ReapedOrKilled, ResolvedComplete, WatchAfterKill
  <2> QED
    BY <1>3, <2>2, <2>4, <2>5, <2>8 DEF RunInv
<1>6. CASE ~(phase = "terminating" /\ ~Settled)
  <2>1. /\ outcome' = outcome /\ timers' = timers \ {"closeWatch"}
        /\ listening' = listening
        /\ pipes' \in {"open", "closed", "destroyed"}
    BY <1>6 DEF CloseWatchFires, Settle, RunInv, TypeOK
  <2>2. TypeOK'
    BY <1>1, <1>2, <1>4, <2>1 DEF RunInv, TypeOK, captureVars
  <2>3. /\ DeniedSettles' /\ ResolvedComplete' /\ ReapedOrKilled' /\ QuietAfterSettle'
        /\ WatchAfterKill'
    BY <1>1, <2>1 DEF RunInv, DeniedSettles, ResolvedComplete, QuietAfterSettle,
       ReapedOrKilled, WatchAfterKill, Settled, captureVars
  <2>4. CauseOfTermination' /\ Unstopped' /\ BeforeTheCall'
    BY <1>1, <1>2, <1>4, ResultFacts DEF CauseOfTermination, Unstopped, BeforeTheCall
  <2>5. listening => phase' = phase
    BY <1>6 DEF CloseWatchFires, RunInv, ListeningWhileLive, Settled
  <2>6. ListeningWhileLive'
    BY <1>2, <2>1, <2>5 DEF RunInv, ListeningWhileLive, Settled
  <2> QED
    BY <1>3, <2>2, <2>3, <2>4, <2>6 DEF RunInv
<1> QED
  BY <1>5, <1>6

(* The close event reports what the child did, or what stopped it. *)
LEMMA AfterClose ==
  ASSUME RunInv, Close PROVE RunInv'
<1> DEFINE verdict == IF terminationKind = "none" THEN "resolved" ELSE terminationKind
<1>1. /\ UNCHANGED <<request, aborted, terminationKind, signalled, denied, uncaught,
                     child, holder>>
      /\ UNCHANGED captureVars
      /\ listening /\ child = "exited" /\ pipes' = "closed" /\ phase' = "done"
  BY DEF Close
<1>2. /\ outcome = Pending /\ phase \in {"running", "terminating"}
      /\ verdict \in Verdicts
  BY <1>1, ResultFacts DEF RunInv, TypeOK, ListeningWhileLive
<1>3. outcome' = Result(verdict, "reaped") /\ timers' = {} /\ listening' = FALSE
  BY <1>2 DEF Close, Settle, Settled
<1>4. outcome' # Pending /\ outcome'.verdict = verdict /\ outcome'.exit = "reaped"
  BY <1>2, <1>3, ResultFacts
<1>5. TypeOK'
  BY <1>1, <1>2, <1>3, ResultFacts DEF RunInv, TypeOK, captureVars
<1>6. ~denied
  BY <1>2, ResultFacts DEF RunInv, DeniedSettles
<1>7. /\ BeforeTheCall' /\ ListeningWhileLive' /\ DeniedSettles' /\ WatchAfterKill'
      /\ QuietAfterSettle'
  BY <1>1, <1>3, <1>4, <1>6 DEF BeforeTheCall, ListeningWhileLive, DeniedSettles,
     WatchAfterKill, QuietAfterSettle, Settled
<1>8. CauseOfTermination' /\ Unstopped' /\ CaptureKeepsUp' /\ OverflowReported'
  BY <1>1, <1>3 DEF RunInv, CauseOfTermination, Unstopped, CaptureKeepsUp,
     OverflowReported, captureVars
<1>9. ReapedOrKilled'
  BY <1>1, <1>4 DEF ReapedOrKilled
<1>10. outcome'.verdict = "resolved" => terminationKind = "none"
  BY <1>4, ResultFacts DEF RunInv, TypeOK
<1>11. terminationKind = "none" => overflowBytes = 0
  BY DEF RunInv, OverflowReported, OverflowKinds
<1>12. ResolvedComplete'
  BY <1>1, <1>10, <1>11 DEF RunInv, ResolvedComplete, Unstopped, CaptureKeepsUp, captureVars
<1> QED
  BY <1>5, <1>7, <1>8, <1>9, <1>12 DEF RunInv

(* A child that never started settles the run where it stands. *)
LEMMA AfterSpawnError ==
  ASSUME RunInv, SpawnError PROVE RunInv'
<1>1. /\ UNCHANGED <<request, aborted, phase, terminationKind, signalled, denied,
                     uncaught, holder, pipes>>
      /\ UNCHANGED captureVars
      /\ listening /\ child' = "none"
  BY DEF SpawnError
<1>2. outcome = Pending /\ phase \in {"running", "terminating"}
  BY <1>1 DEF RunInv, ListeningWhileLive
<1>3. outcome' = Result("spawn-failed", "none") /\ timers' = {} /\ listening' = FALSE
  BY <1>2 DEF SpawnError, Settle, Settled
<1>4. outcome' # Pending /\ outcome'.verdict = "spawn-failed" /\ outcome' \in Outcomes
  BY <1>3, ResultFacts
<1>5. TypeOK'
  <2>1. /\ timers' \subseteq Timers /\ listening' \in BOOLEAN
        /\ outcome' \in Outcomes \cup {Pending}
        /\ child' \in {"none", "failed", "alive", "exited"}
    BY <1>1, <1>3, <1>4
  <2> QED
    BY <1>1, <2>1 DEF RunInv, TypeOK, captureVars
<1>6. /\ BeforeTheCall' /\ ListeningWhileLive' /\ DeniedSettles' /\ WatchAfterKill'
      /\ QuietAfterSettle'
  BY <1>1, <1>2, <1>3, <1>4 DEF BeforeTheCall, ListeningWhileLive, DeniedSettles,
     WatchAfterKill, QuietAfterSettle, Settled
<1>7. CauseOfTermination' /\ Unstopped' /\ CaptureKeepsUp' /\ OverflowReported'
  BY <1>1, <1>3 DEF RunInv, CauseOfTermination, Unstopped, CaptureKeepsUp,
     OverflowReported, captureVars
<1>8. ReapedOrKilled' /\ ResolvedComplete'
  BY <1>4, ResultFacts DEF ReapedOrKilled, ResolvedComplete
<1> QED
  BY <1>5, <1>6, <1>7, <1>8 DEF RunInv

(* The child exits, or the last holder of its pipes does: nothing of the run itself
   changes, and an exited child stays one. *)
LEMMA AfterSystem ==
  ASSUME RunInv, ChildExits \/ HolderLeaves PROVE RunInv'
<1>1. UNCHANGED <<request, aborted, pipes>> /\ UNCHANGED settleVars /\ UNCHANGED captureVars
  BY DEF ChildExits, HolderLeaves
<1>2. /\ child' = child \/ (child = "alive" /\ child' = "exited")
      /\ holder' = holder \/ holder' = FALSE
  BY DEF ChildExits, HolderLeaves
<1>3. child' \in {"none", "failed", "alive", "exited"} /\ holder' \in BOOLEAN
  BY <1>2, Zenon DEF RunInv, TypeOK
<1>4. TypeOK'
  BY <1>1, <1>3 DEF RunInv, TypeOK, settleVars, captureVars
<1>5. /\ BeforeTheCall' /\ ListeningWhileLive' /\ CauseOfTermination' /\ Unstopped'
      /\ CaptureKeepsUp' /\ DeniedSettles'
  BY <1>1, <1>2 DEF RunInv, BeforeTheCall, ListeningWhileLive, CauseOfTermination,
     Unstopped, CaptureKeepsUp, DeniedSettles, Settled, settleVars, captureVars
<1>6. WatchAfterKill' /\ QuietAfterSettle' /\ OverflowReported'
  BY <1>1, <1>2 DEF RunInv, WatchAfterKill, QuietAfterSettle, OverflowReported, Settled,
     settleVars, captureVars
<1>7. ReapedOrKilled' /\ ResolvedComplete'
  BY <1>1, <1>2 DEF RunInv, ReapedOrKilled, ResolvedComplete, settleVars, captureVars
<1> QED
  BY <1>4, <1>5, <1>6, <1>7 DEF RunInv

-------------------------------------------------------------------------------
(* The invariant holds of every run. *)
THEOREM RunInvariant == Spec => []RunInv
<1>1. Init => RunInv
  <2> SUFFICES ASSUME Init PROVE RunInv
    OBVIOUS
  <2>1. TypeOK
    BY DEF Init, TypeOK
  <2>2. BeforeTheCall /\ ListeningWhileLive /\ CauseOfTermination /\ CaptureKeepsUp
    BY DEF Init, BeforeTheCall, ListeningWhileLive, CauseOfTermination, CaptureKeepsUp
  <2>3. Unstopped
    BY LimitsAssumption DEF Init, Unstopped
  <2>4. DeniedSettles /\ WatchAfterKill /\ QuietAfterSettle
    BY DEF Init, DeniedSettles, WatchAfterKill, QuietAfterSettle, Settled
  <2>5. ReapedOrKilled /\ ResolvedComplete
    BY ResultFacts DEF Init, ReapedOrKilled, ResolvedComplete
  <2>6. OverflowReported
    BY DEF Init, OverflowReported, OverflowKinds
  <2> QED
    BY <2>1, <2>2, <2>3, <2>4, <2>5, <2>6 DEF RunInv
<1>2. RunInv /\ [Next]_vars => RunInv'
  <2> SUFFICES ASSUME RunInv, [Next]_vars PROVE RunInv'
    OBVIOUS
  <2>1. CASE Refuse \/ SpawnThrows \/ Spawn
    BY <2>1, AfterTheCall
  <2>2. CASE AbortFires \/ TimeoutFires
    BY <2>2, AfterAbortFires, AfterTimeoutFires
  <2>3. CASE GraceFires \/ CloseWatchFires
    BY <2>3, AfterGraceFires, AfterCloseWatchFires
  <2>4. CASE \E n \in Chunks : ReceiveStdout(n) \/ ReceiveStderr(n)
    BY <2>4, AfterStdout, AfterStderr
  <2>5. CASE Close \/ SpawnError
    BY <2>5, AfterClose, AfterSpawnError
  <2>6. CASE ChildExits \/ HolderLeaves
    BY <2>6, AfterSystem
  <2>7. CASE UNCHANGED vars
    BY <2>7 DEF vars, RunInv, TypeOK, BeforeTheCall, ListeningWhileLive,
       CauseOfTermination, Unstopped, CaptureKeepsUp, DeniedSettles, WatchAfterKill,
       QuietAfterSettle, ReapedOrKilled, ResolvedComplete, OverflowReported, Settled
  <2> QED
    BY <2>1, <2>2, <2>3, <2>4, <2>5, <2>6, <2>7 DEF Next, Event
<1> QED
  BY <1>1, <1>2, PTL DEF Spec

(* Every variable of a run keeps its type. *)
THEOREM RunTypeCorrect == Spec => []TypeOK
<1>1. RunInv => TypeOK
  BY DEF RunInv
<1> QED
  BY <1>1, RunInvariant, PTL

(* A run that settled without a refused kill left no timer and no listener. *)
THEOREM SettledRunsAreQuiet == Spec => []QuietAfterSettle
<1>1. RunInv => QuietAfterSettle
  BY DEF RunInv
<1> QED
  BY <1>1, RunInvariant, PTL

(* A stopped run settles on a reaped child or after SIGKILL was tried, so the queue
   never starts the next job before the escalation is over. *)
THEOREM StoppedRunsAreReapedOrKilled == Spec => []ReapedOrKilled
<1>1. RunInv => ReapedOrKilled
  BY DEF RunInv
<1> QED
  BY <1>1, RunInvariant, PTL

(* What a resolved run returns is all the child wrote, within the limits. *)
THEOREM ResolvedRunsAreComplete == Spec => []ResolvedComplete
<1>1. RunInv => ResolvedComplete
  BY DEF RunInv
<1> QED
  BY <1>1, RunInvariant, PTL

(* capturedBytes is reported with an overflow, and exceeds the limit it broke. *)
THEOREM OverflowIsReported == Spec => []OverflowReported
<1>1. RunInv => OverflowReported
  BY DEF RunInv
<1> QED
  BY <1>1, RunInvariant, PTL

-------------------------------------------------------------------------------
(* A step that leaves the outcome and the cause alone, and does not start the run,
   is a stutter of the contract. *)
LEMMA ContractStutters ==
  ASSUME outcome' = outcome, terminationKind' = terminationKind,
         phase = "idle" <=> phase' = "idle"
  PROVE  UNCHANGED Contract!vars
BY DEF Contract!vars, Settled

(* The start of a termination stops the run, or breaks it when the kill is refused. *)
LEMMA ContractBegins ==
  ASSUME RunInv, NEW kind \in TerminationKinds, phase = "running", listening,
         BeginTermination(kind)
  PROVE  Contract!Stop \/ Contract!Break
<1>1. /\ terminationKind = "none" /\ terminationKind' = kind
      /\ outcome = Pending /\ phase' = "terminating"
      /\ \/ outcome' = Pending
         \/ outcome' = Result("spawn-failed", "none")
  BY BeginFacts
<1>2. CASE outcome' = Pending
  BY <1>1, <1>2 DEF Contract!Stop, Settled
<1>3. CASE outcome' = Result("spawn-failed", "none")
  BY <1>1, <1>3, ResultFacts DEF Contract!Break, Settled
<1> QED
  BY <1>1, <1>2, <1>3

(* What ends a live run is a step of the contract that settles it. *)
LEMMA ContractSettles ==
  ASSUME RunInv, GraceFires \/ CloseWatchFires \/ Close \/ SpawnError
  PROVE  Contract!Finish \/ Contract!Break \/ UNCHANGED Contract!vars
<1>1. terminationKind' = terminationKind /\ phase # "idle" /\ phase' # "idle"
  BY DEF GraceFires, CloseWatchFires, Close, SpawnError, RunInv, BeforeTheCall
<1>2. CASE outcome' = outcome
  BY <1>1, <1>2, ContractStutters
<1>3. CASE outcome' # outcome
  <2>1. ~Settled
    BY <1>3, ResultFacts
       DEF GraceFires, CloseWatchFires, Close, SpawnError, Settle, RunInv,
           ListeningWhileLive, Settled
  <2>2. CASE GraceFires \/ SpawnError
    <3>1. outcome' = Result("spawn-failed", "none")
      BY <1>3, <2>1, <2>2 DEF GraceFires, SpawnError, Settle
    <3> QED
      BY <1>1, <2>1, <3>1, ResultFacts DEF Contract!Break, Settled
  <2>3. CASE CloseWatchFires \/ Close
    <3> DEFINE kind == IF terminationKind = "none" THEN "resolved" ELSE terminationKind
    <3>1. outcome' \in {Result(kind, "reaped"), Result(kind, "unobserved")}
      BY <1>3, <2>1, <2>3 DEF CloseWatchFires, Close, Settle, RunInv, CauseOfTermination
    <3>2. kind \in Verdicts
      BY ResultFacts DEF RunInv, TypeOK
    <3>3. outcome' # Pending /\ outcome'.verdict = kind
      BY <3>1, <3>2, ResultFacts
    <3> QED
      BY <1>1, <2>1, <3>3 DEF Contract!Finish, Settled
  <2> QED
    BY <2>2, <2>3
<1> QED
  BY <1>2, <1>3

(* runAgy implements its contract: the first cause decides, the promise settles once,
   and nothing that fires afterwards changes the verdict. *)
THEOREM KeepsItsContract == Spec => KeepsContract
<1>1. Init => Contract!Init
  BY ResultFacts DEF Init, Contract!Init, Settled
<1>2. RunInv /\ [Next]_vars => [Contract!Next]_(Contract!vars)
  <2> SUFFICES ASSUME RunInv, [Next]_vars PROVE Contract!Next \/ UNCHANGED Contract!vars
    OBVIOUS
  <2>1. CASE Refuse \/ SpawnThrows
    <3>1. /\ phase = "idle" /\ outcome = Pending /\ terminationKind' = terminationKind
          /\ \E v \in Refusals : outcome' = Result(v, "none")
      BY <2>1 DEF Refuse, SpawnThrows, Refusal, Refusals, RunInv, BeforeTheCall
    <3>2. outcome' # Pending /\ outcome'.verdict \in Refusals
      BY <3>1, ResultFacts
    <3> QED
      BY <3>1, <3>2 DEF Contract!Next, Contract!Refuse, Settled
  <2>2. CASE Spawn
    BY <2>2 DEF Spawn, RunInv, BeforeTheCall, Settled, Contract!Next, Contract!Start
  <2>3. CASE AbortFires
    <3>1. CASE listening /\ phase = "running"
      <4>1. BeginTermination("aborted") /\ "aborted" \in TerminationKinds
        BY <2>3, <3>1 DEF AbortFires, TerminationKinds
      <4> QED
        BY <3>1, <4>1, ContractBegins DEF Contract!Next
    <3>2. CASE ~(listening /\ phase = "running")
      BY <2>3, <3>2, ContractStutters DEF AbortFires, settleVars
    <3> QED
      BY <3>1, <3>2
  <2>4. CASE TimeoutFires
    <3>1. /\ phase = "running" /\ listening
          /\ BeginTermination("timeout") /\ "timeout" \in TerminationKinds
      BY <2>4 DEF RunInv, TimeoutFires, TypeOK, ListeningWhileLive, QuietAfterSettle,
         CauseOfTermination, Unstopped, TerminationKinds
    <3> QED
      BY <3>1, ContractBegins DEF Contract!Next
  <2>5. ASSUME NEW n \in Chunks, ReceiveStdout(n) \/ ReceiveStderr(n)
        PROVE  Contract!Next \/ UNCHANGED Contract!vars
    <3>1. \/ UNCHANGED settleVars
          \/ /\ phase = "running" /\ listening
             /\ \E kind \in TerminationKinds : BeginTermination(kind)
      BY <2>5 DEF ReceiveStdout, ReceiveStderr, TerminationKinds
    <3>2. CASE UNCHANGED settleVars
      BY <3>2, ContractStutters DEF settleVars
    <3> QED
      BY <3>1, <3>2, ContractBegins DEF Contract!Next
  <2>6. CASE GraceFires \/ CloseWatchFires \/ Close \/ SpawnError
    BY <2>6, ContractSettles DEF Contract!Next
  <2>7. CASE ChildExits \/ HolderLeaves \/ UNCHANGED vars
    BY <2>7, ContractStutters DEF ChildExits, HolderLeaves, settleVars, vars
  <2> QED
    BY <2>1, <2>2, <2>3, <2>4, <2>5, <2>6, <2>7 DEF Next, Event
<1> QED
  BY <1>1, <1>2, RunInvariant, PTL DEF Spec, KeepsContract, Contract!Spec
===============================================================================
