------------------------------ MODULE AgyProcess ------------------------------
(***************************************************************************)
(* runAgy (src/process.ts): one call, the child process it spawns, and the *)
(* events that race to settle its promise: the child's close and error     *)
(* events, the host timeout, the caller's AbortSignal and the overflow of  *)
(* either stream.  One action is one callback of the event loop, so it is  *)
(* atomic; the child, its descendants and the kernel act in between.       *)
(* Operators named Mut... are faulty variants no action uses: each is put  *)
(* in the place of the definition that follows it to see a property fail.  *)
(***************************************************************************)
EXTENDS Naturals

CONSTANTS MaxStdout,     \* maxStdoutBytes, the capture limit of stdout
          MaxStderr,     \* maxStderrBytes, the capture limit of stderr
          Chunks,        \* the sizes, in bytes, of the chunks a stream delivers
          OutputBound    \* bound of the model: bytes a child writes on a stream

ASSUME LimitsAssumption == MaxStdout \in Nat /\ MaxStderr \in Nat
ASSUME ChunksAssumption == Chunks \subseteq Nat \ {0} /\ OutputBound \in Nat

VARIABLES
  request,               \* what the caller passed: a usable timeout? a command?
  aborted,               \* the caller's AbortSignal has fired
  phase,                 \* "idle" before the call, then the phase of the source
  terminationKind,       \* what began the termination, or "none"
  overflowBytes,         \* size that broke a limit, 0 while none did
  timers,                \* the armed timers
  stdoutBytes, stderrBytes,    \* bytes received from each stream
  stdoutKept, stderrKept,      \* bytes of them captured (and shown to the observer)
  listening,             \* the listeners on child, streams and signal are attached
  outcome,               \* how the promise settled
  child,                 \* the direct child, as the kernel sees it
  holder,                \* a descendant keeps the stdio pipes open
  pipes,                 \* "open", "closed" (end of file), "destroyed" by the host
  signalled,             \* the strongest signal delivered to the child
  denied,                \* some kill() was refused by the kernel (EPERM)
  uncaught               \* an 'error' event found no listener: the host dies

vars == <<request, aborted, phase, terminationKind, overflowBytes, timers,
          stdoutBytes, stderrBytes, stdoutKept, stderrKept, listening, outcome,
          child, holder, pipes, signalled, denied, uncaught>>

captureVars == <<overflowBytes, stdoutBytes, stderrBytes, stdoutKept, stderrKept>>
childVars == <<child, holder, pipes>>
settleVars == <<phase, terminationKind, timers, listening, outcome, signalled,
                denied, uncaught>>

TerminationKinds == {"timeout", "aborted", "stdout-overflow", "stderr-overflow"}
OverflowKinds == {"stdout-overflow", "stderr-overflow"}
Refusals == {"timeout", "spawn-failed", "aborted"}
Verdicts == TerminationKinds \cup {"resolved", "spawn-failed"}
Timers == {"timeout", "grace", "closeWatch"}

(* The exit a settled run reports: "reaped" when the close event delivered it,
   "unobserved" for { exitCode: null, signal: null }, "none" when it has none. *)
Outcomes == [verdict : Verdicts, exit : {"reaped", "unobserved", "none"}]
Pending == [verdict |-> "pending", exit |-> "none"]
Settled == outcome # Pending

Result(verdict, exit) == [verdict |-> verdict, exit |-> exit]

Init ==
  /\ request \in [validTimeout : BOOLEAN, command : BOOLEAN]
  /\ aborted = FALSE
  /\ phase = "idle"
  /\ terminationKind = "none"
  /\ overflowBytes = 0
  /\ timers = {}
  /\ stdoutBytes = 0 /\ stderrBytes = 0
  /\ stdoutKept = 0 /\ stderrKept = 0
  /\ listening = FALSE
  /\ outcome = Pending
  /\ child = "none"
  /\ holder = FALSE
  /\ pipes = "closed"
  /\ signalled = "none"
  /\ denied = FALSE
  /\ uncaught = FALSE

-------------------------------------------------------------------------------
(* The call itself. *)

(* The guards before the promise is built, in the order of the source. *)
Refusal ==
  IF ~request.validTimeout THEN "timeout"
  ELSE IF ~request.command THEN "spawn-failed"
  ELSE IF aborted THEN "aborted"
  ELSE "none"

Refuse ==
  /\ phase = "idle"
  /\ Refusal # "none"
  /\ phase' = "done"
  /\ outcome' = Result(Refusal, "none")
  /\ UNCHANGED <<request, aborted, terminationKind, timers, listening, signalled,
                 denied, uncaught, captureVars, childVars>>

(* spawn() throws synchronously. *)
SpawnThrows ==
  /\ phase = "idle"
  /\ Refusal = "none"
  /\ phase' = "done"
  /\ outcome' = Result("spawn-failed", "none")
  /\ UNCHANGED <<request, aborted, terminationKind, timers, listening, signalled,
                 denied, uncaught, captureVars, childVars>>

(* spawn() returns a child: a live one, or one whose start failed and whose
   'error' event is on its way (ENOENT). *)
Spawn ==
  /\ phase = "idle"
  /\ Refusal = "none"
  /\ phase' = "running"
  /\ timers' = {"timeout"}
  /\ listening' = TRUE
  /\ \/ child' = "alive" /\ holder' \in BOOLEAN /\ pipes' = "open"
     \/ child' = "failed" /\ UNCHANGED <<holder, pipes>>
  /\ UNCHANGED <<request, aborted, terminationKind, outcome, signalled, denied,
                 uncaught, captureVars>>

-------------------------------------------------------------------------------
(* Settling and terminating. *)

(* rejectSettled and resolveSettled: the first one wins and cleans up; a later one
   finds the run settled and leaves what is still armed as it is. *)
MutSettle(result, armed) ==
  IF Settled
  THEN timers' = armed /\ UNCHANGED <<outcome, listening>>
  ELSE outcome' = result /\ timers' = armed \cap {"grace"} /\ listening' = FALSE

Settle(result, armed) ==
  IF Settled
  THEN timers' = armed /\ UNCHANGED <<outcome, listening>>
  ELSE outcome' = result /\ timers' = {} /\ listening' = FALSE

(* child.kill on a child the kernel no longer has changes nothing. *)
Delivered(signal) ==
  IF child = "alive" THEN signalled' = signal ELSE UNCHANGED signalled

MutBeginTermination(kind) ==
  /\ phase' = "terminating"
  /\ terminationKind' = kind
  /\ Delivered("SIGTERM")
  /\ timers' = (timers \ {"timeout"}) \cup {"grace", "closeWatch"}
  /\ UNCHANGED <<outcome, listening, denied, uncaught>>

MutBeginTerminationPatient(kind) ==
  /\ phase' = "terminating"
  /\ terminationKind' = kind
  /\ Delivered("SIGTERM")
  /\ timers' = timers \ {"timeout"}
  /\ UNCHANGED <<outcome, listening, denied, uncaught>>

(* beginTermination(kind), whose callers have checked that the phase is running.
   A refused kill emits 'error' before it returns: onError settles and cleans
   up, and the grace timer is armed after that. *)
BeginTermination(kind) ==
  /\ phase' = "terminating"
  /\ terminationKind' = kind
  /\ \/ /\ Delivered("SIGTERM")
        /\ timers' = (timers \ {"timeout"}) \cup {"grace"}
        /\ UNCHANGED <<outcome, listening, denied>>
     \/ /\ child = "alive"
        /\ denied' = TRUE
        /\ outcome' = Result("spawn-failed", "none")
        /\ listening' = FALSE
        /\ timers' = {"grace"}
        /\ UNCHANGED signalled
  /\ UNCHANGED uncaught

MutAbortFires ==
  /\ ~aborted
  /\ aborted' = TRUE
  /\ IF listening /\ phase # "idle"
     THEN BeginTermination("aborted") /\ UNCHANGED <<request, captureVars, childVars>>
     ELSE UNCHANGED <<request, settleVars, captureVars, childVars>>

(* The caller's signal fires, before the call or after it: onAbort when listening. *)
AbortFires ==
  /\ ~aborted
  /\ aborted' = TRUE
  /\ IF listening /\ phase = "running"
     THEN BeginTermination("aborted") /\ UNCHANGED <<request, captureVars, childVars>>
     ELSE UNCHANGED <<request, settleVars, captureVars, childVars>>

(* onTimeout; the timer is disarmed with any settlement or termination. *)
TimeoutFires ==
  /\ "timeout" \in timers
  /\ phase = "running"
  /\ BeginTermination("timeout")
  /\ UNCHANGED <<request, aborted, captureVars, childVars>>

(* The grace timer: SIGKILL, then the close watch.  A refused kill emits 'error':
   with the listener attached the run settles and the watch is armed all the
   same; without it the error is thrown and the host process ends. *)
GraceFires ==
  /\ "grace" \in timers
  /\ \/ /\ Delivered("SIGKILL")
        /\ timers' = (timers \ {"grace"}) \cup {"closeWatch"}
        /\ UNCHANGED <<outcome, listening, denied, uncaught>>
     \/ /\ child = "alive" /\ listening
        /\ denied' = TRUE
        /\ outcome' = Result("spawn-failed", "none")
        /\ listening' = FALSE
        /\ timers' = {"closeWatch"}
        /\ UNCHANGED <<signalled, uncaught>>
     \/ /\ child = "alive" /\ ~listening
        /\ denied' = TRUE
        /\ uncaught' = TRUE
        /\ timers' = timers \ {"grace"}
        /\ UNCHANGED <<outcome, listening, signalled>>
  /\ UNCHANGED <<request, aborted, phase, terminationKind, captureVars, childVars>>

(* onCloseWatchTimeout: give up on the close event, tear the pipes down. *)
CloseWatchFires ==
  /\ "closeWatch" \in timers
  /\ IF phase = "terminating"
     THEN /\ phase' = "done"
          /\ pipes' = IF pipes = "open" THEN "destroyed" ELSE pipes
          /\ Settle(Result(terminationKind, "unobserved"), timers \ {"closeWatch"})
     ELSE /\ timers' = timers \ {"closeWatch"}
          /\ UNCHANGED <<phase, pipes, outcome, listening>>
  /\ UNCHANGED <<request, aborted, terminationKind, signalled, denied, uncaught,
                 captureVars, child, holder>>

-------------------------------------------------------------------------------
(* The child's events. *)

(* onStdout.  The limit is only looked at in phase "running"; a chunk is kept, and
   handed to the observer, as long as no overflow was recorded. *)
MutReceiveStdout(n) ==
  /\ listening /\ pipes = "open"
  /\ stdoutBytes + n <= OutputBound
  /\ stdoutBytes' = stdoutBytes + n
  /\ IF overflowBytes = 0 /\ stdoutBytes' > MaxStdout
     THEN /\ overflowBytes' = stdoutBytes'
          /\ IF phase = "running" THEN BeginTermination("stdout-overflow")
             ELSE UNCHANGED settleVars
          /\ UNCHANGED stdoutKept
     ELSE /\ stdoutKept' = IF overflowBytes = 0 THEN stdoutKept + n ELSE stdoutKept
          /\ UNCHANGED <<overflowBytes, settleVars>>
  /\ UNCHANGED <<request, aborted, stderrBytes, stderrKept, childVars>>

ReceiveStdout(n) ==
  /\ listening /\ pipes = "open"
  /\ stdoutBytes + n <= OutputBound
  /\ stdoutBytes' = stdoutBytes + n
  /\ IF phase = "running" /\ overflowBytes = 0 /\ stdoutBytes' > MaxStdout
     THEN /\ overflowBytes' = stdoutBytes'
          /\ BeginTermination("stdout-overflow")
          /\ UNCHANGED stdoutKept
     ELSE /\ stdoutKept' = IF overflowBytes = 0 THEN stdoutKept + n ELSE stdoutKept
          /\ UNCHANGED <<overflowBytes, settleVars>>
  /\ UNCHANGED <<request, aborted, stderrBytes, stderrKept, childVars>>

(* onStderr, which the observer does not see. *)
ReceiveStderr(n) ==
  /\ listening /\ pipes = "open"
  /\ stderrBytes + n <= OutputBound
  /\ stderrBytes' = stderrBytes + n
  /\ IF phase = "running" /\ overflowBytes = 0 /\ stderrBytes' > MaxStderr
     THEN /\ overflowBytes' = stderrBytes'
          /\ BeginTermination("stderr-overflow")
          /\ UNCHANGED stderrKept
     ELSE /\ stderrKept' = IF overflowBytes = 0 THEN stderrKept + n ELSE stderrKept
          /\ UNCHANGED <<overflowBytes, settleVars>>
  /\ UNCHANGED <<request, aborted, stdoutBytes, stdoutKept, childVars>>

MutCloseResolves ==
  /\ listening /\ child = "exited" /\ ~holder /\ pipes = "open"
  /\ pipes' = "closed"
  /\ phase' = "done"
  /\ Settle(Result("resolved", "reaped"), timers)
  /\ UNCHANGED <<request, aborted, terminationKind, signalled, denied, uncaught,
                 captureVars, child, holder>>

MutCloseRejects ==
  /\ listening /\ child = "exited" /\ ~holder /\ pipes = "open"
  /\ pipes' = "closed"
  /\ phase' = "done"
  /\ Settle(Result(terminationKind, "reaped"), timers)
  /\ UNCHANGED <<request, aborted, terminationKind, signalled, denied, uncaught,
                 captureVars, child, holder>>

(* onClose: the child was reaped and its pipes are at their end. *)
Close ==
  /\ listening /\ child = "exited" /\ ~holder /\ pipes = "open"
  /\ pipes' = "closed"
  /\ phase' = "done"
  /\ Settle(Result(IF terminationKind = "none" THEN "resolved" ELSE terminationKind,
                   "reaped"), timers)
  /\ UNCHANGED <<request, aborted, terminationKind, signalled, denied, uncaught,
                 captureVars, child, holder>>

(* onError for a child that never started; the phase is left as it is. *)
SpawnError ==
  /\ listening /\ child = "failed"
  /\ child' = "none"
  /\ Settle(Result("spawn-failed", "none"), timers)
  /\ UNCHANGED <<request, aborted, phase, terminationKind, signalled, denied,
                 uncaught, captureVars, holder, pipes>>

-------------------------------------------------------------------------------
(* The operating system: the child may ignore SIGTERM, so nothing obliges it to
   exit; a descendant may keep the pipes open for ever. *)

ChildExits ==
  /\ child = "alive"
  /\ child' = "exited"
  /\ UNCHANGED <<request, aborted, settleVars, captureVars, holder, pipes>>

HolderLeaves ==
  /\ holder
  /\ holder' = FALSE
  /\ UNCHANGED <<request, aborted, settleVars, captureVars, child, pipes>>

-------------------------------------------------------------------------------
Event ==
  \/ Refuse \/ SpawnThrows \/ Spawn
  \/ AbortFires \/ TimeoutFires \/ GraceFires \/ CloseWatchFires
  \/ \E n \in Chunks : ReceiveStdout(n) \/ ReceiveStderr(n)
  \/ Close \/ SpawnError
  \/ ChildExits \/ HolderLeaves

(* A host ended by an uncaught error takes no further step. *)
Next == ~uncaught /\ Event

Spec == Init /\ [][Next]_vars

(* setTimeout callbacks run once they are due; nothing is assumed of the child. *)
FairSpec ==
  /\ Spec
  /\ WF_vars(~uncaught /\ TimeoutFires)
  /\ WF_vars(~uncaught /\ GraceFires)
  /\ WF_vars(~uncaught /\ CloseWatchFires)

-------------------------------------------------------------------------------
(* Every variable has its type. *)
TypeOK ==
  /\ request \in [validTimeout : BOOLEAN, command : BOOLEAN]
  /\ aborted \in BOOLEAN
  /\ phase \in {"idle", "running", "terminating", "done"}
  /\ terminationKind \in TerminationKinds \cup {"none"}
  /\ overflowBytes \in Nat
  /\ timers \subseteq Timers
  /\ stdoutBytes \in Nat /\ stderrBytes \in Nat
  /\ stdoutKept \in Nat /\ stderrKept \in Nat
  /\ listening \in BOOLEAN
  /\ outcome \in Outcomes \cup {Pending}
  /\ child \in {"none", "failed", "alive", "exited"}
  /\ holder \in BOOLEAN
  /\ pipes \in {"open", "closed", "destroyed"}
  /\ signalled \in {"none", "SIGTERM", "SIGKILL"}
  /\ denied \in BOOLEAN
  /\ uncaught \in BOOLEAN

(* A run that ended on its own terms leaves nothing behind: once the promise is
   settled no timer is armed and no listener attached, unless a kill was refused. *)
QuietAfterSettle == Settled /\ ~denied => timers = {} /\ ~listening

(* A stopped run settles only when the child is known to be reaped, or when
   SIGKILL was tried and the close event awaited: the queue starts the next task on
   this promise, so a verdict never overtakes the escalation. *)
ReapedOrKilled ==
  outcome.verdict \in TerminationKinds /\ terminationKind # "none" =>
    \/ outcome.exit = "reaped" /\ child = "exited"
    \/ outcome.exit = "unobserved" /\ (signalled = "SIGKILL" \/ child # "alive")

(* A resolved run was never being stopped, and what it returns is all the child
   wrote, within both limits: the parser never sees a truncated stream. *)
ResolvedComplete ==
  outcome.verdict = "resolved" =>
    /\ terminationKind = "none"
    /\ child = "exited"
    /\ stdoutKept = stdoutBytes /\ stdoutBytes <= MaxStdout
    /\ stderrKept = stderrBytes /\ stderrBytes <= MaxStderr

(* An overflow is what stops the run or is not recorded at all: capturedBytes is
   reported with an overflow kind only, and it exceeds that stream's limit. *)
OverflowReported ==
  /\ overflowBytes # 0 <=> terminationKind \in OverflowKinds
  /\ terminationKind = "stdout-overflow" => overflowBytes > MaxStdout
  /\ terminationKind = "stderr-overflow" => overflowBytes > MaxStderr

(* "captured ... up to maxStdoutBytes; stderr is captured as one bounded string"
   (src/process.ts, header): capture stays within both limits at all times, also while a
   run is stopped for a timeout or an abort. *)
CaptureBounded == stdoutKept <= MaxStdout /\ stderrKept <= MaxStderr

(* runAgy keeps the contract of OneShotRun: it settles once, with a verdict that
   answers to the first cause, whatever else fires afterwards. *)
Contract ==
  INSTANCE OneShotRun WITH
    Causes <- TerminationKinds,
    Refusals <- Refusals,
    stage <- IF Settled THEN "settled" ELSE IF phase = "idle" THEN "idle" ELSE "live",
    cause <- terminationKind,
    verdict <- outcome.verdict

KeepsContract == Contract!Spec

(* "Bounded settlement" (same header): whatever the child and its descendants do, and
   even when it ignores SIGTERM or its pipes stay open, a live run settles. *)
LiveRunSettles == phase # "idle" ~> Settled
===============================================================================
