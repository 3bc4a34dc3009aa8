------------------------------ MODULE GatewayChat ------------------------------
(***************************************************************************)
(* POST /v1/chat/completions (src/gateway/chat.ts) over the serial queue:  *)
(* each request is one job; its run spawns agy, relays what agy says to    *)
(* the client, retries two kinds of failure as long as nothing was         *)
(* relayed, and ends the reply.  A run of agy is the contract of           *)
(* OneShotRun, which AgyProcess implements.  The client may leave, and the *)
(* gateway may exit and be started again, at any time.  Operators named    *)
(* Mut... are faulty variants that no action uses: each is put in the      *)
(* place of the definition it precedes to see a property fail.             *)
(***************************************************************************)
EXTENDS SerialQueue

CONSTANTS
  Streaming,                   \* the requests that ask for a stream
  Bridging,                    \* those of them relayed with AGY_GATEWAY_STREAM_STEPS
  MAX_ELIGIBILITY_RETRIES,     \* attempts allowed to transient startup failures
  MAX_EMPTY_OUTPUT_RETRIES,    \* extra attempts for an empty response
  MaxFrames,                   \* bound of the model: frames relayed per request
  MaxRestarts                  \* bound of the model: how often the gateway exits

ASSUME StreamingAssumption == Bridging \subseteq Streaming /\ Streaming \subseteq Jobs
ASSUME RetriesAssumption ==
  MAX_ELIGIBILITY_RETRIES \in Nat \ {0} /\ MAX_EMPTY_OUTPUT_RETRIES \in Nat
ASSUME RestartsAssumption == MaxRestarts \in Nat

VARIABLES
  client,                \* "connected", or "gone" once the connection is closed
  frames,                \* what was written to the response, in order
  ended,                 \* the responses that were ended by the gateway
  agy,                   \* each request's current run of agy
  attempts,              \* the attempt the run is at, 0 outside a run
  eligibilityAttempts, emptyAttempts,   \* the retries it used up, by kind
  emitted,               \* the current attempt has relayed something
  recorded,              \* history: the requests whose conversation was recorded
  lingering,             \* the requests whose agy, or a descendant of it, outlives
                         \* the run it belonged to
  restarts               \* how often the gateway has exited

chatVars == <<client, frames, ended, agy, attempts, eligibilityAttempts,
              emptyAttempts, emitted, recorded, lingering, restarts>>
vars == <<queueVars, chatVars>>

retryVars == <<attempts, eligibilityAttempts, emptyAttempts>>
processVars == <<lingering, restarts>>

Causes == {"timeout", "aborted", "overflow"}
NoRun == [stage |-> "idle", cause |-> "none"]
LiveRun == [stage |-> "live", cause |-> "none"]

(* "headers" opens a stream; "text" and "tool" are relayed; "stop" and "error"
   precede "done"; a JSON reply is one frame. *)
Frames == {"headers", "text", "tool", "stop", "error", "done", "json", "json-error"}

Init ==
  /\ QueueInit
  /\ client = [r \in Jobs |-> "connected"]
  /\ frames = [r \in Jobs |-> <<>>]
  /\ ended = {}
  /\ agy = [r \in Jobs |-> NoRun]
  /\ attempts = [r \in Jobs |-> 0]
  /\ eligibilityAttempts = [r \in Jobs |-> 0]
  /\ emptyAttempts = [r \in Jobs |-> 0]
  /\ emitted = [r \in Jobs |-> FALSE]
  /\ recorded = {}
  /\ lingering = {}
  /\ restarts = 0

-------------------------------------------------------------------------------
(* sendJson and the writes to a stream do nothing on a connection that is gone. *)
Reply(r, tail) ==
  IF client[r] = "gone"
  THEN UNCHANGED <<frames, ended>>
  ELSE /\ frames' = [frames EXCEPT ![r] = @ \o tail]
       /\ ended' = ended \cup {r}

Starts(r) == status[r] # "running" /\ status'[r] = "running"

(* The run of r ends and its reply is completed with the frames of tail.  The locals
   of the run are gone with it; the job that pump starts in the same step opens its
   stream and spawns agy once. *)
MutHandOver(r, tail) ==
  /\ frames' = [k \in Jobs |->
       IF k = r /\ client[k] = "connected" THEN frames[k] \o tail
       ELSE IF Starts(k) THEN <<"headers">> ELSE frames[k]]
  /\ ended' = IF client[r] = "connected" THEN ended \cup {r} ELSE ended
  /\ agy' = [k \in Jobs |-> IF Starts(k) THEN LiveRun ELSE IF k = r THEN NoRun ELSE agy[k]]
  /\ attempts' = [k \in Jobs |-> IF Starts(k) THEN 1 ELSE IF k = r THEN 0 ELSE attempts[k]]
  /\ eligibilityAttempts' = [eligibilityAttempts EXCEPT ![r] = 0]
  /\ emptyAttempts' = [emptyAttempts EXCEPT ![r] = 0]
  /\ emitted' = [emitted EXCEPT ![r] = FALSE]

HandOver(r, tail) ==
  /\ frames' = [k \in Jobs |->
       IF k = r /\ client[k] = "connected" THEN frames[k] \o tail
       ELSE IF Starts(k) /\ k \in Streaming THEN <<"headers">> ELSE frames[k]]
  /\ ended' = IF client[r] = "connected" THEN ended \cup {r} ELSE ended
  /\ agy' = [k \in Jobs |-> IF Starts(k) THEN LiveRun ELSE IF k = r THEN NoRun ELSE agy[k]]
  /\ attempts' = [k \in Jobs |-> IF Starts(k) THEN 1 ELSE IF k = r THEN 0 ELSE attempts[k]]
  /\ eligibilityAttempts' = [eligibilityAttempts EXCEPT ![r] = 0]
  /\ emptyAttempts' = [emptyAttempts EXCEPT ![r] = 0]
  /\ emitted' = [emitted EXCEPT ![r] = FALSE]

ErrorReply(r) == IF frames[r] = <<>> THEN <<"json-error">> ELSE <<"error", "done">>
SuccessReply(r) == IF r \in Streaming THEN <<"stop", "done">> ELSE <<"json">>

-------------------------------------------------------------------------------
(* The handler up to the queue. *)

(* An unreadable body, an invalid request, arguments agy cannot take, or no agy at
   all: one JSON error and no job. *)
RejectRequest(r) ==
  /\ status[r] = "idle" /\ r \notin ended
  /\ Reply(r, <<"json-error">>)
  /\ UNCHANGED <<queueVars, client, agy, retryVars, emitted, recorded, processVars>>

(* The body is read and valid; the close listener is attached and the job pushed.
   The run starts at once when the slot is free. *)
Submit(r) ==
  /\ client[r] = "connected" /\ r \notin ended
  /\ \/ /\ PushAccepted(r)
        /\ frames' = IF Starts(r) /\ r \in Streaming
                     THEN [frames EXCEPT ![r] = <<"headers">>] ELSE frames
        /\ agy' = IF Starts(r) THEN [agy EXCEPT ![r] = LiveRun] ELSE agy
        /\ attempts' = IF Starts(r) THEN [attempts EXCEPT ![r] = 1] ELSE attempts
        /\ UNCHANGED ended
     \/ /\ PushRefused(r)
        /\ Reply(r, <<"json-error">>)
        /\ UNCHANGED <<agy, attempts>>
  /\ UNCHANGED <<client, eligibilityAttempts, emptyAttempts, emitted, recorded, processVars>>

(* The connection closes.  Unless the reply was ended, the request's signal fires:
   a waiter leaves the line, a live run of agy begins its termination. *)
MutClientLeaves(r) ==
  /\ client[r] = "connected"
  /\ client' = [client EXCEPT ![r] = "gone"]
  /\ IF r \notin ended /\ status[r] = "waiting"
     THEN Abort(r)
     ELSE UNCHANGED queueVars
  /\ UNCHANGED <<agy, frames, ended, retryVars, emitted, recorded, processVars>>

MutClientFreesSlot(r) ==
  /\ client[r] = "connected"
  /\ client' = [client EXCEPT ![r] = "gone"]
  /\ IF r \notin ended /\ status[r] = "running"
     THEN /\ Pump(waiting, FALSE, [status EXCEPT ![r] = "settled"])
          /\ agy' = [k \in Jobs |-> IF Starts(k) THEN LiveRun ELSE agy[k]]
          /\ attempts' = [k \in Jobs |-> IF Starts(k) THEN 1 ELSE attempts[k]]
          /\ UNCHANGED <<aborted, arrival, accepted>>
     ELSE UNCHANGED <<queueVars, agy, attempts>>
  /\ UNCHANGED <<frames, ended, eligibilityAttempts, emptyAttempts, emitted,
                 recorded, processVars>>

ClientLeaves(r) ==
  /\ client[r] = "connected"
  /\ client' = [client EXCEPT ![r] = "gone"]
  /\ IF r \notin ended /\ status[r] \in {"waiting", "running"}
     THEN Abort(r)
     ELSE UNCHANGED queueVars
  /\ agy' = IF r \notin ended /\ agy[r] = LiveRun
            THEN [agy EXCEPT ![r].cause = "aborted"] ELSE agy
  /\ UNCHANGED <<frames, ended, retryVars, emitted, recorded, processVars>>

-------------------------------------------------------------------------------
(* The run: agy's events and the retry loop. *)

(* The host timeout, or an overflow, begins agy's termination (OneShotRun!Stop). *)
StopAgy(r) ==
  /\ agy[r] = LiveRun
  /\ \E c \in Causes \ {"aborted"} : agy' = [agy EXCEPT ![r].cause = c]
  /\ UNCHANGED <<queueVars, client, frames, ended, retryVars, emitted, recorded,
                 processVars>>

(* onProgress and onToolInfo: what agy says reaches the stream until the signal
   fires; runAgy shows nothing more once a limit was broken.  After a bridged tool
   call agy's own text is held back. *)
Relay(r, frame) ==
  /\ agy[r].stage = "live" /\ agy[r].cause # "overflow"
  /\ r \in Streaming /\ r \notin aborted
  /\ \/ frame = "text" /\ \A i \in DOMAIN frames[r] : frames[r][i] # "tool"
     \/ frame = "tool" /\ r \in Bridging
  /\ Len(frames[r]) < MaxFrames
  /\ frames' = [frames EXCEPT ![r] = Append(@, frame)]
  /\ emitted' = [emitted EXCEPT ![r] = TRUE]
  /\ UNCHANGED <<queueVars, client, ended, agy, retryVars, recorded, processVars>>

(* How a finished run reads: the parser's outcome, then the exit status. *)
Outcomes == {"success", "bad-exit", "transient", "empty", "failure"}

MutRetries(r, outcome) ==
  \/ outcome = "transient" /\ eligibilityAttempts[r] < MAX_ELIGIBILITY_RETRIES - 1
  \/ outcome = "empty" /\ emptyAttempts[r] < MAX_EMPTY_OUTPUT_RETRIES

MutRetriesOnce(r, outcome) ==
  /\ ~emitted[r] /\ r \notin aborted
  /\ \/ outcome = "transient" /\ eligibilityAttempts[r] < MAX_ELIGIBILITY_RETRIES
     \/ outcome = "empty" /\ emptyAttempts[r] < MAX_EMPTY_OUTPUT_RETRIES

Retries(r, outcome) ==
  /\ ~emitted[r] /\ r \notin aborted
  /\ \/ outcome = "transient" /\ eligibilityAttempts[r] < MAX_ELIGIBILITY_RETRIES - 1
     \/ outcome = "empty" /\ emptyAttempts[r] < MAX_EMPTY_OUTPUT_RETRIES

(* The run resolved and its outcome is retried: one more spawn in the same slot. *)
Retry(r) ==
  \E outcome \in {"transient", "empty"} :
    /\ agy[r] = LiveRun
    /\ Retries(r, outcome)
    /\ attempts' = [attempts EXCEPT ![r] = @ + 1]
    /\ eligibilityAttempts' = [eligibilityAttempts EXCEPT ![r] =
         IF outcome = "transient" THEN @ + 1 ELSE @]
    /\ emptyAttempts' = [emptyAttempts EXCEPT ![r] = IF outcome = "empty" THEN @ + 1 ELSE @]
    /\ UNCHANGED <<queueVars, client, frames, ended, agy, emitted, recorded, processVars>>

(* The run resolved with text and a clean exit: the conversation, when agy named one,
   is recorded, and the reply is completed. *)
Succeed(r) ==
  /\ agy[r] = LiveRun
  /\ RunSettles(r)
  /\ HandOver(r, SuccessReply(r))
  /\ recorded' \in {recorded, recorded \cup {r}}
  /\ UNCHANGED <<client, processVars>>

(* The run resolved and its outcome is an error that is not retried. *)
FailOutcome(r) ==
  /\ agy[r] = LiveRun
  /\ \E outcome \in Outcomes \ {"success"} : ~Retries(r, outcome)
  /\ RunSettles(r)
  /\ HandOver(r, ErrorReply(r))
  /\ UNCHANGED <<client, recorded, processVars>>

(* runAgy rejected: with the cause that stopped the run, or because the child failed
   on its own.  An abort is answered with nothing.  When the run settled on its close
   watch, processes of agy live on (src/process.ts:11-15). *)
FailRun(r) ==
  /\ agy[r].stage = "live"
  /\ RunSettles(r)
  /\ HandOver(r, ErrorReply(r))
  /\ lingering' \in {lingering} \cup
       (IF agy[r].cause = "none" THEN {} ELSE {lingering \cup {r}})
  /\ UNCHANGED <<client, recorded, restarts>>

(* The last process a settled run had left behind is gone. *)
LingererDies(r) ==
  /\ r \in lingering
  /\ lingering' = lingering \ {r}
  /\ UNCHANGED <<queueVars, client, frames, ended, agy, retryVars, emitted, recorded,
                 restarts>>

(* The gateway exits, on a signal when its connections are closed or after five seconds
   (src/gateway/cli.ts:23-27), or because it died, and is started again: its queue is gone,
   connections are cut, and the live agy runs on without its parent.  An exit with no job
   in the queue would change nothing here. *)
Restart ==
  /\ running /\ restarts < MaxRestarts
  /\ restarts' = restarts + 1
  /\ waiting' = <<>> /\ running' = FALSE
  /\ status' = [r \in Jobs |-> IF status[r] \in {"waiting", "running"} THEN "dropped"
                              ELSE status[r]]
  /\ client' = [r \in Jobs |-> IF status[r] \in {"waiting", "running"} THEN "gone"
                              ELSE client[r]]
  /\ lingering' = lingering \cup {r \in Jobs : agy[r].stage = "live"}
  /\ agy' = [r \in Jobs |-> NoRun]
  /\ attempts' = [r \in Jobs |-> 0]
  /\ eligibilityAttempts' = [r \in Jobs |-> 0]
  /\ emptyAttempts' = [r \in Jobs |-> 0]
  /\ emitted' = [r \in Jobs |-> FALSE]
  /\ UNCHANGED <<aborted, arrival, accepted, frames, ended, recorded>>

AgyFinishes(r) == Retry(r) \/ Succeed(r) \/ FailOutcome(r) \/ FailRun(r)

Next ==
  \/ \E r \in Jobs :
       \/ RejectRequest(r) \/ Submit(r) \/ ClientLeaves(r)
       \/ StopAgy(r) \/ Relay(r, "text") \/ Relay(r, "tool")
       \/ AgyFinishes(r) \/ LingererDies(r)
  \/ Restart

Spec == Init /\ [][Next]_vars

(* A live run of agy settles: LiveRunSettles of AgyProcess. *)
FairSpec == Spec /\ \A r \in Jobs : WF_vars(AgyFinishes(r))

-------------------------------------------------------------------------------
(* Every variable of the handler has its type. *)
ChatTypeOK ==
  /\ client \in [Jobs -> {"connected", "gone"}]
  /\ frames \in [Jobs -> Seq(Frames)]
  /\ ended \subseteq Jobs
  /\ agy \in [Jobs -> [stage : {"idle", "live"}, cause : Causes \cup {"none"}]]
  /\ attempts \in [Jobs -> Nat]
  /\ eligibilityAttempts \in [Jobs -> 0..MAX_ELIGIBILITY_RETRIES - 1]
  /\ emptyAttempts \in [Jobs -> 0..MAX_EMPTY_OUTPUT_RETRIES]
  /\ emitted \in [Jobs -> BOOLEAN]
  /\ recorded \subseteq Jobs
  /\ lingering \subseteq Jobs
  /\ restarts \in 0..MaxRestarts

(* An agy is live exactly for the job in the slot: neither a retry nor a client that
   leaves lets two of them run, or gives the slot up while one does. *)
AgyHoldsSlot == \A r \in Jobs : agy[r].stage = "live" <=> status[r] = "running"

Terminal == {"done", "json", "json-error"}

(* A client reads one well-formed reply: a JSON body alone, or a stream that opens
   with its headers and ends with exactly one "stop" or "error" and one [DONE]. *)
ReplyWellFormed ==
  \A r \in Jobs :
    LET f == frames[r]
        n == Len(f)
    IN /\ r \in ended <=> n > 0 /\ f[n] \in Terminal
       /\ \A i \in 1..n :
            /\ f[i] = "headers" <=> i = 1 /\ r \in Streaming /\ f # <<"json-error">>
            /\ f[i] \in {"json", "json-error"} => n = 1
            /\ f[i] \in {"stop", "error"} <=> n > 1 /\ i = n - 1 /\ f[n] = "done"
            /\ f[i] = "done" => i = n

(* A conversation is recorded for later reuse only when its reply was completed as a
   success on a connection that was still there. *)
RecordedWasReplied ==
  \A r \in recorded :
    /\ r \in ended
    /\ frames[r] = <<"json">> \/ frames[r][Len(frames[r]) - 1] = "stop"

(* agy is spawned again only while the client has been shown nothing of an earlier
   attempt, and is never spawned for a client that is gone. *)
SpawnsAreClean ==
  [][\A r \in Jobs : attempts'[r] > attempts[r] =>
       client[r] = "connected" /\ Len(frames[r]) <= 1]_vars

(* A request that was accepted is answered, unless its client leaves. *)
RequestsAnswered ==
  \A r \in Jobs :
    status[r] \in {"waiting", "running"} ~> r \in ended \/ client[r] = "gone"

(* "at most ONE agy task runs at a time" (src/gateway/queue.ts:2), of the processes and
   not of the jobs. *)
OneTaskAtATime ==
  \A r, k \in Jobs :
    (agy[r].stage = "live" \/ r \in lingering) /\ agy[k].stage = "live" => r = k
===============================================================================
