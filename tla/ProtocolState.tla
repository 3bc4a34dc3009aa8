----------------------------- MODULE ProtocolState -----------------------------
(***************************************************************************)
(* What NdjsonStreamParser makes of agy's stream, line by line:            *)
(* processLine (src/protocol-parser.ts) and the ProtocolState it feeds     *)
(* (src/protocol-state.ts).  Text, diagnostics and per-step usage gather   *)
(* until finish() turns them into one outcome.  A text is a sequence of    *)
(* UTF-16 code units, "H" and "L" the halves of a surrogate pair; a usage  *)
(* is its total, 0 when there is none; the conversation id stands for the  *)
(* other fields of which the first one seen is kept. Operators named       *)
(* Mut... are faulty variants that no action uses: each is put in the      *)
(* place of the definition it precedes to see a property fail.             *)
(***************************************************************************)
EXTENDS Naturals, Sequences, FiniteSets, SequencesExt

CONSTANTS Events,            \* the lines agy may write, as the parser reads them
          MaxOutputChars,    \* cap of the gathered text
          MaxDiagnostics,    \* cap of the stored diagnostics
          MaxLines           \* bound of the model: lines of the stream

Texts == Seq({"a", "H", "L"})
Statuses == {"SUCCESS", "ERROR"}
Anomalies == {"malformed-line", "unknown-event", "invalid-event-payload", "line-too-long"}

(* "ERROR" stands for the six statuses that are no success.  An empty delta stands for
   none, step and usage 0 for none, "" for no id and no tool. *)
Inits == [event : {"init"}, conversation : STRING]
Steps == [event : {"step_update"}, delta : Texts, step : Nat, usage : Nat, tool : STRING]
Results == [event : {"result"}, valid : BOOLEAN, status : Statuses, response : Texts,
            conversation : STRING, usage : Nat]

(* Every option of the parser is a positive integer. *)
ASSUME CapsAssumption == MaxOutputChars \in Nat \ {0} /\ MaxDiagnostics \in Nat \ {0}

ASSUME EventsAssumption ==
  /\ Events \subseteq Inits \cup Steps \cup Results \cup [event : Anomalies]
  /\ IsFiniteSet(Events)

VARIABLES
  text,                  \* textParts joined; its length is textLength
  textTruncated,         \* a truncation was reported
  diagnostics,           \* the kinds of the stored diagnostics
  droppedDiagnostics,    \* how many were not stored
  stepUsage,             \* the last usage of each step, 0 while there is none
  failure,               \* why the stream is no longer read, or "none"
  terminalResult,        \* the result line, or NoResult
  conversationId,        \* the first one named, or ""
  outcome,               \* what finish() returned, or NoOutcome
  lines                  \* history: the lines, in order

parserVars == <<text, textTruncated, diagnostics, droppedDiagnostics, stepUsage, failure,
          terminalResult, conversationId, outcome, lines>>
diagnosticVars == <<diagnostics, droppedDiagnostics>>

StepIndexes == {e.step : e \in {d \in Events : d.event = "step_update"}}
Conversations == {""} \cup {e.conversation : e \in {d \in Events : d.event \in {"init", "result"}}}
NoResult == [event |-> "none"]
NoOutcome == [kind |-> "none"]

ParserInit ==
  /\ text = <<>>
  /\ textTruncated = FALSE
  /\ diagnostics = <<>>
  /\ droppedDiagnostics = 0
  /\ stepUsage = [i \in StepIndexes |-> 0]
  /\ failure = "none"
  /\ terminalResult = NoResult
  /\ conversationId = ""
  /\ outcome = NoOutcome
  /\ lines = <<>>

-------------------------------------------------------------------------------
(* truncateUtf16: the longest prefix within the cap that splits no pair. *)
TruncateUtf16(units, cap) ==
  IF Len(units) <= cap THEN units
  ELSE IF cap > 0 /\ units[cap] = "H" /\ units[cap + 1] = "L"
  THEN SubSeq(units, 1, cap - 1)
  ELSE SubSeq(units, 1, cap)

MutAddDiagnostic(kind) ==
  IF Len(diagnostics) < MaxDiagnostics
  THEN diagnostics' = Append(diagnostics, kind) /\ UNCHANGED droppedDiagnostics
  ELSE diagnostics' = Append(Tail(diagnostics), kind) /\ UNCHANGED droppedDiagnostics

AddDiagnostic(kind) ==
  IF Len(diagnostics) < MaxDiagnostics
  THEN diagnostics' = Append(diagnostics, kind) /\ UNCHANGED droppedDiagnostics
  ELSE droppedDiagnostics' = droppedDiagnostics + 1 /\ UNCHANGED diagnostics

(* Only the first truncation is reported. *)
ReportTruncation ==
  IF textTruncated
  THEN UNCHANGED <<textTruncated, diagnosticVars>>
  ELSE textTruncated' = TRUE /\ AddDiagnostic("output-truncated")

MutAppendDelta(delta) ==
  LET part == TruncateUtf16(delta, MaxOutputChars)
  IN IF delta = <<>> \/ Len(text) >= MaxOutputChars
     THEN UNCHANGED <<text, textTruncated, diagnosticVars>>
     ELSE /\ text' = text \o part
          /\ IF Len(part) < Len(delta) THEN ReportTruncation
             ELSE UNCHANGED <<textTruncated, diagnosticVars>>

(* appendDelta; once the cap is reached a delta is dropped without a word. *)
AppendDelta(delta) ==
  LET room == MaxOutputChars - Len(text)
      part == TruncateUtf16(delta, room)
  IN IF delta = <<>> \/ Len(text) >= MaxOutputChars
     THEN UNCHANGED <<text, textTruncated, diagnosticVars>>
     ELSE /\ text' = text \o part
          /\ IF Len(part) < Len(delta) THEN ReportTruncation
             ELSE UNCHANGED <<textTruncated, diagnosticVars>>

-------------------------------------------------------------------------------
Named(conversation) == IF conversationId = "" THEN conversation ELSE conversationId

HandleInit(e) ==
  /\ conversationId' = Named(e.conversation)
  /\ UNCHANGED <<text, textTruncated, diagnosticVars, stepUsage, failure, terminalResult>>

MutHandleStepUpdate(e) ==
  /\ AppendDelta(e.delta)
  /\ stepUsage' = [stepUsage EXCEPT ![e.step] = @ + e.usage]
  /\ UNCHANGED <<failure, terminalResult, conversationId>>

HandleStepUpdate(e) ==
  /\ AppendDelta(e.delta)
  /\ stepUsage' = IF e.usage = 0 THEN stepUsage ELSE [stepUsage EXCEPT ![e.step] = e.usage]
  /\ UNCHANGED <<failure, terminalResult, conversationId>>

MutHandleResult(e) ==
  /\ IF ~e.valid
     THEN failure' = "invalid-result" /\ UNCHANGED <<terminalResult, conversationId>>
     ELSE /\ terminalResult' = e
          /\ conversationId' = Named(e.conversation)
          /\ UNCHANGED failure
  /\ UNCHANGED <<text, textTruncated, diagnosticVars, stepUsage>>

(* Exactly one result is allowed: any second one fails the stream, and so does an
   invalid one. *)
HandleResult(e) ==
  /\ IF terminalResult # NoResult
     THEN failure' = "duplicate-result" /\ UNCHANGED <<terminalResult, conversationId>>
     ELSE IF ~e.valid
     THEN failure' = "invalid-result" /\ UNCHANGED <<terminalResult, conversationId>>
     ELSE /\ terminalResult' = e
          /\ conversationId' = Named(e.conversation)
          /\ UNCHANGED failure
  /\ UNCHANGED <<text, textTruncated, diagnosticVars, stepUsage>>

(* A line that is no event, or an event with no payload: recorded, never fatal. *)
HandleAnomaly(e) ==
  /\ AddDiagnostic(e.event)
  /\ UNCHANGED <<text, textTruncated, stepUsage, failure, terminalResult, conversationId>>

(* processLine; a failed stream is only counted, but a line too long is cut by the
   framing, which reports it in any case. *)
ReadLine(e) ==
  /\ outcome = NoOutcome
  /\ lines' = Append(lines, e)
  /\ \/ /\ failure # "none" /\ e.event # "line-too-long"
        /\ UNCHANGED <<text, textTruncated, diagnosticVars, stepUsage, failure,
                       terminalResult, conversationId>>
     \/ e.event = "line-too-long" /\ HandleAnomaly(e)
     \/ failure = "none" /\ e.event \in Anomalies \ {"line-too-long"} /\ HandleAnomaly(e)
     \/ failure = "none" /\ e.event = "init" /\ HandleInit(e)
     \/ failure = "none" /\ e.event = "step_update" /\ HandleStepUpdate(e)
     \/ failure = "none" /\ e.event = "result" /\ HandleResult(e)
  /\ UNCHANGED outcome

-------------------------------------------------------------------------------
HasResponse == terminalResult # NoResult /\ terminalResult.response # <<>>

(* capResponse, or the gathered text when there is no response. *)
FinalText ==
  IF HasResponse THEN TruncateUtf16(terminalResult.response, MaxOutputChars) ELSE text

Reason ==
  IF failure # "none" THEN failure
  ELSE IF terminalResult = NoResult THEN "missing-result"
  ELSE IF terminalResult.status # "SUCCESS" THEN "status"
  ELSE IF FinalText = <<>> THEN "empty-output"
  ELSE "none"

(* computeUsage: the result's own, or the sum over the steps. *)
FinalUsage ==
  IF terminalResult # NoResult /\ terminalResult.usage # 0
  THEN terminalResult.usage
  ELSE FoldFunctionOnSet(+, 0, stepUsage, StepIndexes)

(* finish() and buildOutcome.  The count of dropped diagnostics is read before
   capResponse may drop one more; the stored ones are shared, so one it stores
   is seen. *)
Finish ==
  /\ outcome = NoOutcome
  /\ IF HasResponse /\ Len(terminalResult.response) > MaxOutputChars
     THEN ReportTruncation
     ELSE UNCHANGED <<textTruncated, diagnosticVars>>
  /\ outcome' = [kind |-> IF Reason = "none" THEN "success" ELSE "failure",
                 reason |-> Reason,
                 text |-> FinalText,
                 conversationId |-> conversationId,
                 usage |-> FinalUsage,
                 diagnostics |-> diagnostics',
                 droppedDiagnostics |-> droppedDiagnostics]
  /\ UNCHANGED <<text, stepUsage, failure, terminalResult, conversationId, lines>>

-------------------------------------------------------------------------------
Finished == outcome # NoOutcome

(* Every variable has its type, and the gathered text is within its cap. *)
TypeOK ==
  /\ text \in Texts /\ Len(text) <= MaxOutputChars
  /\ textTruncated \in BOOLEAN
  /\ diagnostics \in Seq(Anomalies \cup {"output-truncated"})
  /\ droppedDiagnostics \in Nat
  /\ stepUsage \in [StepIndexes -> Nat]
  /\ failure \in {"none", "duplicate-result", "invalid-result"}
  /\ terminalResult \in Results \cup {NoResult}
  /\ conversationId \in Conversations
  /\ Finished => outcome.kind \in {"success", "failure"} /\ outcome.usage \in Nat
  /\ \A i \in DOMAIN lines : lines[i] \in Events

(* The result lines, and those that break the rule of one valid result. *)
ResultsAt == {i \in DOMAIN lines : lines[i].event = "result"}
FatalAt == {i \in ResultsAt : ~lines[i].valid \/ \E k \in ResultsAt : k < i}

(* The lines that count: those up to the first fatal one. *)
ReadAt == {i \in DOMAIN lines : \A k \in FatalAt : i <= k}
DeltasOf(at) ==
  FlattenSeq([i \in DOMAIN lines |->
    IF i \in at /\ lines[i].event = "step_update" THEN lines[i].delta ELSE <<>>])

(* "Completion is defined as exactly one terminal result event; only SUCCESS is
   success" (src/protocol-parser.ts:8-9): the verdict is the one the whole stream
   deserves, whatever came after the first fatal line and however many results did.  A cap
   of one leaves no place for a pair, so that all of what was said may be cut. *)
VerdictByStream ==
  Finished =>
    CASE outcome.reason = "invalid-result" ->
           \E i \in ResultsAt : ~lines[i].valid /\ \A k \in ResultsAt : i <= k
      [] outcome.reason = "duplicate-result" ->
           \E i, k \in ResultsAt : i < k /\ lines[i].valid /\ \A j \in ResultsAt : i <= j
      [] outcome.reason = "missing-result" -> ResultsAt = {}
      [] OTHER ->
           \E i \in ResultsAt :
             /\ ResultsAt = {i} /\ lines[i].valid
             /\ outcome.reason = "status" <=> lines[i].status # "SUCCESS"
             /\ outcome.reason = "empty-output" /\ MaxOutputChars # 1 =>
                  lines[i].response = <<>> /\ DeltasOf(ReadAt) = <<>>

(* "each step_index counted once, last usage wins" (src/protocol-parser.ts:10-11):
   repeated updates of a step never add up, and the result's own usage wins. *)
UsageCountedOnce ==
  LET UsedAt(s) == {i \in ReadAt : /\ lines[i].event = "step_update"
                                   /\ lines[i].step = s /\ lines[i].usage # 0}
      LastUsage(s) ==
        IF UsedAt(s) = {} THEN 0
        ELSE lines[CHOOSE i \in UsedAt(s) : \A k \in UsedAt(s) : k <= i].usage
      own == {lines[i].usage : i \in ReadAt \cap (ResultsAt \ FatalAt)} \ {0}
  IN Finished =>
       IF own # {} THEN own = {outcome.usage}
       ELSE outcome.usage = FoldFunctionOnSet(+, 0, [s \in StepIndexes |-> LastUsage(s)],
                                              StepIndexes)

(* "Diagnostic record cap; overflow is counted, not stored" (src/protocol-types.ts:188):
   every anomaly that was read and the first truncation are accounted for, in the outcome
   too, but for the truncation of a response when nothing more could be stored.  Text of
   the deltas is lost with a truncation accounted for, unless the deltas before it filled
   the cap exactly: then it is lost without a word, whatever
   tests/protocol-bounds.test.ts:36 says. *)
DiagnosticsAccounted ==
  LET anomalies == {i \in DOMAIN lines : \/ lines[i].event = "line-too-long"
                                         \/ lines[i].event \in Anomalies /\ i \in ReadAt}
      due == Cardinality(anomalies) + (IF textTruncated THEN 1 ELSE 0)
      unseen == IF HasResponse /\ textTruncated /\ Len(diagnostics) < due THEN {0, 1} ELSE {0}
      filled == \E k \in DOMAIN lines : Len(DeltasOf(ReadAt \cap 1..k)) = MaxOutputChars
  IN /\ Len(diagnostics) <= MaxDiagnostics
     /\ Len(diagnostics) + droppedDiagnostics = due
     /\ Finished => /\ outcome.diagnostics = diagnostics
                    /\ due - Len(outcome.diagnostics) - outcome.droppedDiagnostics \in unseen
     /\ text # DeltasOf(ReadAt) => textTruncated \/ filled
===============================================================================
