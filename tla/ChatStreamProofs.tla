---------------------------- MODULE ChatStreamProofs ----------------------------
(***************************************************************************)
(* What a client of the gateway gets of one run of agy, for any lines,     *)
(* caps, requests and mounts.  First the parser alone (ProtocolState);     *)
(* under the gateway's callbacks it is the same parser, so that what is    *)
(* proved of it holds of every chat.  Then the texts of the chat and their *)
(* caps, and last the paths (WorkspacePaths), there and back.              *)
(***************************************************************************)
EXTENDS ChatStream, SequenceLemmas

(* The steps of the parser on its own: any line of agy, and the end. *)
ParserNext == (\E e \in Events : ReadLine(e)) \/ Finish
ParserSpec == ParserInit /\ [][ParserNext]_parserVars

(* A line is of one of the four kinds, and has the fields of its kind. *)
LEMMA EventTypes ==
  ASSUME NEW e \in Events
  PROVE  /\ e.event \in {"init", "step_update", "result"} \cup Anomalies
         /\ {"init", "step_update", "result"} \cap Anomalies = {}
         /\ "output-truncated" \notin Anomalies
         /\ e.event = "init" => e.conversation \in STRING
         /\ e.event = "step_update" => /\ e.delta \in Texts /\ e.usage \in Nat
                                       /\ e.step \in StepIndexes
         /\ e.event = "result" => /\ e \in Results /\ e.valid \in BOOLEAN
                                  /\ e.status \in Statuses /\ e.response \in Texts
                                  /\ e.conversation \in STRING /\ e.usage \in Nat
                                  /\ e # NoResult
<1>1. CASE e \in Inits
  BY <1>1 DEF Inits, Anomalies
<1>2. CASE e \in Steps
  <2>1. e.event = "step_update" /\ e.delta \in Texts /\ e.usage \in Nat
    BY <1>2 DEF Steps
  <2>2. e.step \in StepIndexes
    BY <2>1 DEF StepIndexes
  <2> QED
    BY <2>1, <2>2 DEF Anomalies
<1>3. CASE e \in Results
  <2>1. /\ e.event = "result" /\ e.valid \in BOOLEAN
        /\ e.status \in Statuses /\ e.response \in Texts
        /\ e.conversation \in STRING /\ e.usage \in Nat
    BY <1>3 DEF Results
  <2>2. e # NoResult
    BY <2>1 DEF NoResult
  <2> QED
    BY <1>3, <2>1, <2>2 DEF Anomalies
<1>4. CASE e \in [event : Anomalies]
  BY <1>4 DEF Anomalies
<1> QED
  BY <1>1, <1>2, <1>3, <1>4, EventsAssumption

(* One more line: which lines are results, break the rule, and count. *)
LEMMA OneMoreLine ==
  ASSUME lines \in Seq(Events), NEW e \in Events, lines' = Append(lines, e)
  PROVE  /\ Len(lines) \in Nat /\ lines' \in Seq(Events) /\ Len(lines') = Len(lines) + 1
         /\ \A i \in 1..Len(lines) : lines'[i] = lines[i]
         /\ lines'[Len(lines) + 1] = e
         /\ DOMAIN lines = 1..Len(lines) /\ DOMAIN lines' = DOMAIN lines \cup {Len(lines) + 1}
         /\ Len(lines) + 1 \notin DOMAIN lines
         /\ \A i \in DOMAIN lines' : i <= Len(lines) + 1
         /\ \A i \in DOMAIN lines : i < Len(lines) + 1
<1> DEFINE n == Len(lines)
<1>1. /\ n \in Nat /\ lines' \in Seq(Events) /\ Len(lines') = n + 1
      /\ \A i \in 1..n : lines'[i] = lines[i]
      /\ lines'[n + 1] = e
  BY LenProperties, AppendProperties
<1>2. DOMAIN lines = 1..n /\ DOMAIN lines' = 1..n + 1
  BY <1>1, LenProperties
<1>3. /\ 1..n + 1 = 1..n \cup {n + 1} /\ n + 1 \notin 1..n
      /\ \A i \in 1..n + 1 : i <= n + 1
      /\ \A i \in 1..n : i < n + 1
  BY <1>1
<1> QED
  BY <1>1, <1>2, <1>3

LEMMA MarksAfterLine ==
  ASSUME lines \in Seq(Events), NEW e \in Events, lines' = Append(lines, e)
  PROVE  /\ ResultsAt \subseteq DOMAIN lines /\ FatalAt \subseteq ResultsAt
         /\ ReadAt \subseteq DOMAIN lines
         /\ ResultsAt' = IF e.event = "result" THEN ResultsAt \cup {Len(lines) + 1} ELSE ResultsAt
         /\ FatalAt' = IF e.event = "result" /\ (~e.valid \/ ResultsAt # {})
                       THEN FatalAt \cup {Len(lines) + 1} ELSE FatalAt
         /\ ReadAt' = IF FatalAt = {} THEN ReadAt \cup {Len(lines) + 1} ELSE ReadAt
<1> DEFINE n == Len(lines)
<1>1. /\ n \in Nat
      /\ \A i \in DOMAIN lines : lines'[i] = lines[i]
      /\ lines'[n + 1] = e
      /\ DOMAIN lines' = DOMAIN lines \cup {n + 1} /\ n + 1 \notin DOMAIN lines
      /\ \A i \in DOMAIN lines' : i <= n + 1
      /\ \A i \in DOMAIN lines : i < n + 1 /\ i \in Nat
  BY OneMoreLine
<1> HIDE DEF n
<1>2. /\ ResultsAt \subseteq DOMAIN lines /\ FatalAt \subseteq ResultsAt
      /\ ReadAt \subseteq DOMAIN lines
  BY DEF ResultsAt, FatalAt, ReadAt
<1>3. ResultsAt' = IF e.event = "result" THEN ResultsAt \cup {n + 1} ELSE ResultsAt
  BY <1>1 DEF ResultsAt
<1>4. FatalAt' = IF e.event = "result" /\ (~e.valid \/ ResultsAt # {})
                 THEN FatalAt \cup {n + 1} ELSE FatalAt
  <2>1. ASSUME NEW i \in DOMAIN lines  PROVE i \in FatalAt' <=> i \in FatalAt
    <3>1. i \in ResultsAt' <=> i \in ResultsAt
      BY <1>1, <1>3, <2>1
    <3>2. (\E k \in ResultsAt' : k < i) <=> (\E k \in ResultsAt : k < i)
      <4>1. ~(n + 1 < i)
        BY <1>1, <2>1
      <4> QED
        BY <1>3, <4>1
    <3> QED
      BY <1>1, <2>1, <3>1, <3>2 DEF FatalAt
  <2>2. n + 1 \in FatalAt' <=> e.event = "result" /\ (~e.valid \/ ResultsAt # {})
    <3>1. n + 1 \in ResultsAt' <=> e.event = "result"
      BY <1>1, <1>2, <1>3
    <3>2. (\E k \in ResultsAt' : k < n + 1) <=> ResultsAt # {}
      <4>1. ~(n + 1 < n + 1) /\ \A k \in ResultsAt : k < n + 1
        BY <1>1, <1>2
      <4> QED
        BY <1>3, <4>1
    <3> QED
      BY <1>1, <3>1, <3>2 DEF FatalAt
  <2>3. FatalAt' \subseteq DOMAIN lines \cup {n + 1} /\ FatalAt \subseteq DOMAIN lines
    BY <1>1, <1>2 DEF FatalAt, ResultsAt
  <2>4. CASE e.event = "result" /\ (~e.valid \/ ResultsAt # {})
    <3>1. n + 1 \in FatalAt'
      BY <2>2, <2>4
    <3>2. FatalAt' = FatalAt \cup {n + 1}
      BY <2>1, <2>3, <3>1
    <3> QED
      BY <2>4, <3>2
  <2>5. CASE ~(e.event = "result" /\ (~e.valid \/ ResultsAt # {}))
    <3>1. n + 1 \notin FatalAt'
      BY <2>2, <2>5
    <3>2. FatalAt' = FatalAt
      BY <2>1, <2>3, <3>1
    <3> QED
      BY <2>5, <3>2
  <2> QED
    BY <2>4, <2>5
<1>5. ReadAt' = IF FatalAt = {} THEN ReadAt \cup {n + 1} ELSE ReadAt
  <2>1. ASSUME NEW i \in DOMAIN lines  PROVE i \in ReadAt' <=> i \in ReadAt
    <3>1. i <= n + 1
      BY <1>1
    <3>2. (\A k \in FatalAt' : i <= k) <=> (\A k \in FatalAt : i <= k)
      BY <1>4, <3>1
    <3> QED
      BY <1>1, <3>2 DEF ReadAt
  <2>2. n + 1 \in ReadAt' <=> FatalAt = {}
    <3>1. \A k \in FatalAt : ~(n + 1 <= k)
      BY <1>1, <1>2
    <3>2. n + 1 <= n + 1
      BY <1>1
    <3>3. (\A k \in FatalAt' : n + 1 <= k) <=> FatalAt = {}
      BY <1>4, <3>1, <3>2
    <3> QED
      BY <1>1, <3>3 DEF ReadAt
  <2>3. ReadAt' \subseteq DOMAIN lines \cup {n + 1}
    BY <1>1 DEF ReadAt
  <2> QED
    BY <1>1, <1>2, <2>1, <2>2, <2>3
<1> QED
  BY <1>2, <1>3, <1>4, <1>5 DEF n

-------------------------------------------------------------------------------
ParserTypes ==
  /\ lines \in Seq(Events)
  /\ text \in Texts /\ Len(text) <= MaxOutputChars
  /\ textTruncated \in BOOLEAN
  /\ diagnostics \in Seq(Anomalies \cup {"output-truncated"})
  /\ droppedDiagnostics \in Nat
  /\ stepUsage \in [StepIndexes -> Nat]
  /\ failure \in {"none", "duplicate-result", "invalid-result"}
  /\ terminalResult \in Results \cup {NoResult}
  /\ conversationId \in Conversations

(* What the parser remembers of the results: the first one when it is valid, and that the
   stream failed when that is not so, or when there was another. *)
FirstResult(i) == i \in ResultsAt /\ \A k \in ResultsAt : i <= k

ResultsInv ==
  /\ failure = "none" <=> FatalAt = {}
  /\ terminalResult = NoResult /\ failure = "none" => ResultsAt = {}
  /\ terminalResult # NoResult =>
       \E i \in DOMAIN lines : /\ FirstResult(i) /\ lines[i] = terminalResult /\ lines[i].valid
                               /\ failure = "none" => ResultsAt = {i}
  /\ failure = "invalid-result" =>
       /\ terminalResult = NoResult
       /\ \E i \in DOMAIN lines : FirstResult(i) /\ ~lines[i].valid
  /\ failure = "duplicate-result" =>
       /\ terminalResult # NoResult
       /\ \E i \in DOMAIN lines, k \in ResultsAt : FirstResult(i) /\ lines[i].valid /\ i < k

(* Lines that are no result, or come to a stream that failed, change none of it. *)
LEMMA OtherLines ==
  ASSUME NEW e \in Events, ReadLine(e), e.event # "result" \/ failure # "none"
  PROVE  UNCHANGED <<failure, terminalResult>>
BY DEF ReadLine, HandleAnomaly, HandleInit, HandleStepUpdate, Anomalies

LEMMA ResultLine ==
  ASSUME NEW e \in Events, ReadLine(e), e.event = "result", failure = "none"
  PROVE  HandleResult(e)
BY DEF ReadLine, Anomalies

LEMMA FirstStaysFirst ==
  ASSUME lines \in Seq(Events), NEW e \in Events, lines' = Append(lines, e)
  PROVE  \A i \in DOMAIN lines : FirstResult(i) =>
           i \in DOMAIN lines' /\ FirstResult(i)' /\ lines'[i] = lines[i]
<1> SUFFICES ASSUME NEW i \in DOMAIN lines, FirstResult(i)
             PROVE  i \in DOMAIN lines' /\ FirstResult(i)' /\ lines'[i] = lines[i]
  OBVIOUS
<1>1. /\ i \in DOMAIN lines' /\ lines'[i] = lines[i]
      /\ Len(lines) \in Nat /\ i < Len(lines) + 1 /\ i \in Nat
  BY OneMoreLine
<1>2. ResultsAt' \subseteq ResultsAt \cup {Len(lines) + 1} /\ ResultsAt \subseteq ResultsAt'
  BY MarksAfterLine
<1>3. i <= Len(lines) + 1
  BY <1>1
<1> QED
  BY <1>1, <1>2, <1>3 DEF FirstResult

LEMMA ResultsStep ==
  ASSUME ParserTypes, ResultsInv, NEW e \in Events, ReadLine(e)
  PROVE  ResultsInv'
<1> DEFINE n == Len(lines)
<1>1. lines \in Seq(Events) /\ lines' = Append(lines, e)
  BY DEF ParserTypes, ReadLine
<1>2. /\ n \in Nat /\ lines'[n + 1] = e /\ DOMAIN lines' = DOMAIN lines \cup {n + 1}
      /\ \A i \in DOMAIN lines : i < n + 1
  BY <1>1, OneMoreLine
<1>3. /\ ResultsAt' = IF e.event = "result" THEN ResultsAt \cup {n + 1} ELSE ResultsAt
      /\ FatalAt' = IF e.event = "result" /\ (~e.valid \/ ResultsAt # {})
                    THEN FatalAt \cup {n + 1} ELSE FatalAt
      /\ ResultsAt \subseteq DOMAIN lines
  BY <1>1, MarksAfterLine
<1>4. \A i \in DOMAIN lines : FirstResult(i) =>
        i \in DOMAIN lines' /\ FirstResult(i)' /\ lines'[i] = lines[i]
  BY <1>1, FirstStaysFirst
<1> HIDE DEF n
<1>5. CASE failure # "none"
  <2>1. UNCHANGED <<failure, terminalResult>>
    BY <1>5, OtherLines
  <2>2. FatalAt # {} /\ FatalAt' # {}
    BY <1>3, <1>5 DEF ResultsInv
  <2>3. \A k \in ResultsAt : k \in ResultsAt'
    BY <1>3
  <2>4. terminalResult # NoResult =>
          \E i \in DOMAIN lines' : FirstResult(i)' /\ lines'[i] = terminalResult /\ lines'[i].valid
    BY <1>4 DEF ResultsInv
  <2>5. failure = "invalid-result" =>
          terminalResult = NoResult /\ \E i \in DOMAIN lines' : FirstResult(i)' /\ ~lines'[i].valid
    BY <1>4 DEF ResultsInv
  <2>6. failure = "duplicate-result" =>
          /\ terminalResult # NoResult
          /\ \E i \in DOMAIN lines', k \in ResultsAt' : FirstResult(i)' /\ lines'[i].valid /\ i < k
    BY <1>4, <2>3 DEF ResultsInv
  <2> QED
    BY <1>5, <2>1, <2>2, <2>4, <2>5, <2>6 DEF ResultsInv
<1>6. CASE failure = "none" /\ e.event # "result"
  <2>1. UNCHANGED <<failure, terminalResult>>
    BY <1>6, OtherLines
  <2>2. ResultsAt' = ResultsAt /\ FatalAt' = FatalAt /\ FatalAt = {}
    BY <1>3, <1>6 DEF ResultsInv
  <2>3. terminalResult # NoResult =>
          \E i \in DOMAIN lines' : /\ FirstResult(i)' /\ lines'[i] = terminalResult
                                   /\ lines'[i].valid /\ ResultsAt' = {i}
    BY <1>4, <1>6, <2>2 DEF ResultsInv
  <2> QED
    BY <1>6, <2>1, <2>2, <2>3 DEF ResultsInv
<1>7. CASE failure = "none" /\ e.event = "result"
  <2>1. HandleResult(e) /\ ResultsAt' = ResultsAt \cup {n + 1} /\ FatalAt = {}
    BY <1>3, <1>7, ResultLine DEF ResultsInv
  <2>2. CASE terminalResult # NoResult
    <3>1. failure' = "duplicate-result" /\ UNCHANGED terminalResult
      BY <2>1, <2>2 DEF HandleResult
    <3>2. PICK i \in DOMAIN lines : FirstResult(i) /\ lines[i] = terminalResult /\ lines[i].valid
      BY <2>2 DEF ResultsInv
    <3>3. i \in DOMAIN lines' /\ FirstResult(i)' /\ lines'[i] = lines[i] /\ i < n + 1
      BY <1>2, <1>4, <3>2
    <3>4. n + 1 \in FatalAt'
      BY <1>3, <1>7, <3>2 DEF FirstResult
    <3> QED
      BY <2>1, <2>2, <3>1, <3>2, <3>3, <3>4 DEF ResultsInv
  <2>3. CASE terminalResult = NoResult
    <3>1. PICK i \in Nat : i = n + 1
      BY <1>2
    <3>2. /\ ResultsAt = {} /\ ResultsAt' = {i} /\ i \in DOMAIN lines' /\ lines'[i] = e
          /\ FirstResult(i)'
      <4>1. ResultsAt = {} /\ ResultsAt' = {i} /\ i \in DOMAIN lines' /\ lines'[i] = e /\ i <= i
        BY <1>2, <1>7, <2>1, <2>3, <3>1 DEF ResultsInv
      <4> QED
        BY <4>1 DEF FirstResult
    <3>3. CASE ~e.valid
      <4>1. failure' = "invalid-result" /\ UNCHANGED terminalResult
        BY <2>1, <2>3, <3>3 DEF HandleResult
      <4>2. FatalAt' # {}
        BY <1>3, <1>7, <3>3
      <4> QED
        BY <2>3, <3>2, <3>3, <4>1, <4>2 DEF ResultsInv
    <3>4. CASE e.valid
      <4>1. terminalResult' = e /\ UNCHANGED failure
        BY <2>1, <2>3, <3>4 DEF HandleResult
      <4>2. FatalAt' = {} /\ e # NoResult
        BY <1>3, <1>7, <2>1, <3>2, <3>4, EventTypes
      <4> QED
        BY <1>7, <3>2, <3>4, <4>1, <4>2 DEF ResultsInv
    <3> QED
      BY <3>3, <3>4
  <2> QED
    BY <2>2, <2>3
<1> QED
  BY <1>5, <1>6, <1>7

-------------------------------------------------------------------------------
(* A cap keeps a beginning of the text, all of it if it fits, and at least a unit if it
   has a place for a pair. *)
LEMMA TruncateFacts ==
  ASSUME NEW u \in Texts, NEW cap \in Nat
  PROVE  /\ TruncateUtf16(u, cap) \in Texts
         /\ Len(u) \in Nat /\ Len(TruncateUtf16(u, cap)) \in Nat
         /\ Len(TruncateUtf16(u, cap)) <= cap /\ Len(TruncateUtf16(u, cap)) <= Len(u)
         /\ Len(TruncateUtf16(u, cap)) = Len(u) => TruncateUtf16(u, cap) = u
         /\ u # <<>> /\ cap >= 2 => TruncateUtf16(u, cap) # <<>>
<1> DEFINE S == {"a", "H", "L"}
<1>1. u \in Seq(S) /\ Len(u) \in Nat
  BY LenProperties DEF Texts
<1>2. CASE Len(u) <= cap
  BY <1>1, <1>2 DEF TruncateUtf16
<1>3. CASE ~(Len(u) <= cap)
  <2>1. ASSUME NEW k \in Nat, k <= cap
        PROVE  /\ SubSeq(u, 1, k) \in Seq(S) /\ Len(SubSeq(u, 1, k)) = k
    <3>1. \A i \in 1..k : u[i] \in S
      BY <1>1, <1>3, <2>1, ElementOfSeq
    <3>2. 1 \in Int /\ k \in Int
      OBVIOUS
    <3> QED
      BY <2>1, <3>1, <3>2, SubSeqProperties
  <2>2. CASE cap > 0 /\ u[cap] = "H" /\ u[cap + 1] = "L"
    <3>1. TruncateUtf16(u, cap) = SubSeq(u, 1, cap - 1)
      BY <1>3, <2>2 DEF TruncateUtf16
    <3>2. /\ TruncateUtf16(u, cap) \in Seq(S) /\ Len(TruncateUtf16(u, cap)) = cap - 1
          /\ cap - 1 \in Nat
      BY <2>1, <2>2, <3>1
    <3>3. cap >= 2 => TruncateUtf16(u, cap) # <<>>
      BY <3>2, EmptySeq
    <3> QED
      BY <1>1, <1>3, <3>2, <3>3 DEF Texts
  <2>3. CASE ~(cap > 0 /\ u[cap] = "H" /\ u[cap + 1] = "L")
    <3>1. TruncateUtf16(u, cap) = SubSeq(u, 1, cap)
      BY <1>3, <2>3 DEF TruncateUtf16
    <3>2. TruncateUtf16(u, cap) \in Seq(S) /\ Len(TruncateUtf16(u, cap)) = cap
      BY <2>1, <3>1
    <3>3. cap >= 2 => TruncateUtf16(u, cap) # <<>>
      BY <3>2, EmptySeq
    <3> QED
      BY <1>1, <1>3, <3>2, <3>3 DEF Texts
  <2> QED
    BY <2>2, <2>3
<1> QED
  BY <1>2, <1>3

(* What the lines of a set say, for any sequence of lines. *)
DeltasIn(ls, at) ==
  FlattenSeq([i \in DOMAIN ls |->
    IF i \in at /\ ls[i].event = "step_update" THEN ls[i].delta ELSE <<>>])

LEMMA DeltasAreTexts ==
  ASSUME NEW ls \in Seq(Events), NEW at
  PROVE  DeltasIn(ls, at) \in Texts
<1> DEFINE s == [i \in DOMAIN ls |->
                   IF i \in at /\ ls[i].event = "step_update" THEN ls[i].delta ELSE <<>>]
<1>1. DOMAIN ls = 1..Len(ls) /\ Len(ls) \in Nat
  BY LenProperties
<1>2. \A i \in DOMAIN ls :
        (IF i \in at /\ ls[i].event = "step_update" THEN ls[i].delta ELSE <<>>) \in Texts
  <2>1. \A i \in DOMAIN ls : ls[i] \in Events
    BY <1>1, ElementOfSeq
  <2>2. <<>> \in Texts
    BY EmptySeq DEF Texts
  <2> QED
    BY <2>1, <2>2, EventTypes
<1>3. s \in [1..Len(ls) -> Texts]
  BY <1>1, <1>2
<1>4. s \in Seq(Texts)
  BY <1>1, <1>3, SeqDef
<1> HIDE DEF s
<1>5. FlattenSeq(s) \in Seq({"a", "H", "L"})
  BY <1>4, FlattenType DEF Texts
<1> QED
  BY <1>5 DEF DeltasIn, Texts, s

LEMMA DeltasOfSame ==
  ASSUME NEW ls, NEW at, NEW other, \A i \in DOMAIN ls : i \in at <=> i \in other
  PROVE  DeltasIn(ls, at) = DeltasIn(ls, other)
<1>1. [i \in DOMAIN ls |-> IF i \in at /\ ls[i].event = "step_update" THEN ls[i].delta ELSE <<>>]
      = [i \in DOMAIN ls |-> IF i \in other /\ ls[i].event = "step_update" THEN ls[i].delta ELSE <<>>]
  OBVIOUS
<1> QED
  BY <1>1 DEF DeltasIn

LEMMA DeltasOfMore ==
  ASSUME NEW ls \in Seq(Events), NEW e \in Events, NEW at
  PROVE  DeltasIn(Append(ls, e), at) =
           DeltasIn(ls, at)
             \o (IF Len(ls) + 1 \in at /\ e.event = "step_update" THEN e.delta ELSE <<>>)
<1> DEFINE n == Len(ls)
           more == Append(ls, e)
           x == IF n + 1 \in at /\ e.event = "step_update" THEN e.delta ELSE <<>>
           s == [i \in DOMAIN ls |->
                   IF i \in at /\ ls[i].event = "step_update" THEN ls[i].delta ELSE <<>>]
           t == [i \in DOMAIN more |->
                   IF i \in at /\ more[i].event = "step_update" THEN more[i].delta ELSE <<>>]
<1>1. /\ n \in Nat /\ DOMAIN ls = 1..n /\ more \in Seq(Events) /\ Len(more) = n + 1
      /\ DOMAIN more = 1..n + 1
      /\ \A i \in 1..n : more[i] = ls[i]
      /\ more[n + 1] = e
  BY LenProperties, AppendProperties
<1> HIDE DEF more
<1>2. \A i \in DOMAIN ls : ls[i] \in Events
  BY <1>1, ElementOfSeq
<1>3. <<>> \in Texts
  BY EmptySeq DEF Texts
<1>4. x \in Texts
  BY <1>3, EventTypes
<1>5. s \in [1..n -> Texts]
  BY <1>1, <1>2, <1>3, EventTypes
<1>6. s \in Seq(Texts) /\ Len(s) = n
  <2>1. s \in Seq(Texts)
    BY <1>1, <1>5, SeqDef
  <2>2. DOMAIN s = 1..n
    BY <1>1
  <2> HIDE DEF s
  <2> QED
    BY <1>1, <2>1, <2>2, LenProperties
<1>7. t \in [1..n + 1 -> Texts]
  <2>1. \A i \in 1..n + 1 : more[i] \in Events
    BY <1>1, ElementOfSeq
  <2> QED
    BY <1>1, <1>3, <2>1, EventTypes
<1>8. /\ \A i \in 1..n : t[i] = s[i]
      /\ t[n + 1] = x
  BY <1>1
<1> HIDE DEF s, t, x
<1>9. t = Append(s, x)
  <2> DEFINE a == Append(s, x)
  <2>1. /\ a \in Seq(Texts) /\ Len(a) = n + 1 /\ a[n + 1] = x
        /\ \A i \in 1..n : a[i] = s[i]
    BY <1>4, <1>6, AppendProperties
  <2> HIDE DEF a
  <2>2. a \in [1..n + 1 -> Texts]
    BY <1>1, <2>1, SeqDef, LenProperties
  <2>3. \A i \in 1..n + 1 : t[i] = a[i]
    BY <1>1, <1>8, <2>1
  <2> QED
    BY <1>7, <2>2, <2>3 DEF a
<1>10. FlattenSeq(t) = FlattenSeq(s) \o x
  BY <1>4, <1>6, <1>9, FlattenAppend DEF Texts
<1> QED
  BY <1>10 DEF DeltasIn, s, t, x, more

-------------------------------------------------------------------------------
Noted == Anomalies \cup {"output-truncated"}
TruncationCount == IF textTruncated THEN 1 ELSE 0

(* A diagnostic is stored or counted. *)
LEMMA AddsOne ==
  ASSUME ParserTypes, Len(diagnostics) <= MaxDiagnostics, NEW kind \in Noted, AddDiagnostic(kind)
  PROVE  /\ diagnostics' \in Seq(Noted) /\ droppedDiagnostics' \in Nat
         /\ Len(diagnostics) \in Nat /\ Len(diagnostics') \in Nat
         /\ Len(diagnostics') <= MaxDiagnostics
         /\ Len(diagnostics') + droppedDiagnostics' = Len(diagnostics) + droppedDiagnostics + 1
         /\ droppedDiagnostics' \in {droppedDiagnostics, droppedDiagnostics + 1}
<1>1. /\ diagnostics \in Seq(Noted) /\ droppedDiagnostics \in Nat /\ Len(diagnostics) \in Nat
      /\ MaxDiagnostics \in Nat
  BY CapsAssumption, LenProperties DEF ParserTypes, Noted
<1>2. CASE Len(diagnostics) < MaxDiagnostics
  <2>1. diagnostics' = Append(diagnostics, kind) /\ droppedDiagnostics' = droppedDiagnostics
    BY <1>2 DEF AddDiagnostic
  <2>2. diagnostics' \in Seq(Noted) /\ Len(diagnostics') = Len(diagnostics) + 1
    BY <1>1, <2>1, AppendProperties
  <2> QED
    BY <1>1, <1>2, <2>1, <2>2
<1>3. CASE ~(Len(diagnostics) < MaxDiagnostics)
  <2>1. diagnostics' = diagnostics /\ droppedDiagnostics' = droppedDiagnostics + 1
    BY <1>3 DEF AddDiagnostic
  <2> QED
    BY <1>1, <2>1
<1> QED
  BY <1>2, <1>3

LEMMA ReportsOnce ==
  ASSUME ParserTypes, Len(diagnostics) <= MaxDiagnostics, ReportTruncation
  PROVE  /\ textTruncated' = TRUE
         /\ diagnostics' \in Seq(Noted) /\ droppedDiagnostics' \in Nat
         /\ Len(diagnostics) \in Nat /\ Len(diagnostics') \in Nat
         /\ Len(diagnostics') <= MaxDiagnostics
         /\ Len(diagnostics') + droppedDiagnostics' + TruncationCount
              = Len(diagnostics) + droppedDiagnostics + TruncationCount'
         /\ droppedDiagnostics' \in {droppedDiagnostics, droppedDiagnostics + 1}
<1>1. /\ diagnostics \in Seq(Noted) /\ droppedDiagnostics \in Nat /\ Len(diagnostics) \in Nat
      /\ textTruncated \in BOOLEAN
  BY LenProperties DEF ParserTypes, Noted
<1>2. CASE textTruncated
  <2>1. UNCHANGED <<textTruncated, diagnosticVars>>
    BY <1>2 DEF ReportTruncation
  <2>2. textTruncated' = TRUE
    BY <1>1, <1>2, <2>1, Zenon
  <2> QED
    BY <1>1, <1>2, <2>1, <2>2 DEF TruncationCount, diagnosticVars
<1>3. CASE ~textTruncated
  <2>1. textTruncated' = TRUE /\ AddDiagnostic("output-truncated")
    BY <1>3 DEF ReportTruncation
  <2>2. "output-truncated" \in Noted
    BY DEF Noted
  <2> QED
    BY <1>1, <1>3, <2>1, <2>2, AddsOne DEF TruncationCount
<1> QED
  BY <1>2, <1>3

(* A delta is dropped, or taken whole, or cut with a report; a text that is not empty
   never becomes so, and an empty one takes something of every delta. *)
LEMMA DeltaTaken ==
  ASSUME ParserTypes, NEW delta \in Texts, AppendDelta(delta)
  PROVE  /\ Len(text) \in Nat /\ text' \in Texts /\ Len(text') <= MaxOutputChars
         /\ text' = <<>> /\ MaxOutputChars # 1 => text = <<>> /\ delta = <<>>
         /\ \/ /\ delta = <<>> \/ Len(text) = MaxOutputChars
               /\ UNCHANGED <<text, textTruncated, diagnosticVars>>
            \/ /\ text' = text \o delta
               /\ UNCHANGED <<textTruncated, diagnosticVars>>
            \/ ReportTruncation
<1> DEFINE room == MaxOutputChars - Len(text)
           part == TruncateUtf16(delta, room)
<1>1. /\ text \in Texts /\ Len(text) \in Nat /\ Len(text) <= MaxOutputChars
      /\ MaxOutputChars \in Nat /\ MaxOutputChars >= 1
  BY CapsAssumption, LenProperties DEF ParserTypes, Texts
<1>2. CASE delta = <<>> \/ Len(text) >= MaxOutputChars
  <2>1. UNCHANGED <<text, textTruncated, diagnosticVars>>
    BY <1>2 DEF AppendDelta
  <2>2. delta = <<>> \/ (Len(text) = MaxOutputChars /\ text # <<>>)
    BY <1>1, <1>2, EmptySeq
  <2>3. text' = text
    BY <2>1
  <2> QED
    BY <1>1, <2>1, <2>2, <2>3
<1>3. CASE ~(delta = <<>> \/ Len(text) >= MaxOutputChars)
  <2>1. /\ text' = text \o part
        /\ IF Len(part) < Len(delta) THEN ReportTruncation
           ELSE UNCHANGED <<textTruncated, diagnosticVars>>
    BY <1>3 DEF AppendDelta
  <2>2. room \in Nat
    BY <1>1, <1>3
  <2> HIDE DEF room
  <2>3. /\ part \in Texts /\ Len(part) \in Nat /\ Len(delta) \in Nat
        /\ Len(part) <= room /\ Len(part) <= Len(delta)
        /\ Len(part) = Len(delta) => part = delta
        /\ room >= 2 => part # <<>>
    BY <1>3, <2>2, TruncateFacts
  <2> HIDE DEF part
  <2>4. text' \in Texts /\ Len(text') = Len(text) + Len(part)
    BY <1>1, <2>1, <2>3, ConcatProperties DEF Texts
  <2>5. Len(text') <= MaxOutputChars
    BY <1>1, <2>2, <2>3, <2>4 DEF room
  <2>6. text' # <<>> \/ MaxOutputChars = 1
    <3>1. CASE text = <<>> /\ MaxOutputChars # 1
      <4>1. Len(text) = 0
        BY <3>1, EmptySeq
      <4>2. Len(part) # 0
        BY <1>1, <2>3, <3>1, <4>1, EmptySeq DEF room, Texts
      <4> QED
        BY <1>1, <2>3, <2>4, <4>1, <4>2, EmptySeq
    <3>2. CASE text # <<>>
      <4>1. Len(text) # 0
        BY <1>1, <3>2, EmptySeq DEF Texts
      <4> QED
        BY <1>1, <2>3, <2>4, <4>1, EmptySeq
    <3> QED
      BY <3>1, <3>2
  <2>7. \/ text' = text \o delta /\ UNCHANGED <<textTruncated, diagnosticVars>>
        \/ ReportTruncation
    <3>1. CASE Len(part) < Len(delta)
      BY <2>1, <3>1
    <3>2. CASE ~(Len(part) < Len(delta))
      <4>1. part = delta
        BY <2>3, <3>2
      <4> QED
        BY <2>1, <3>2, <4>1
    <3> QED
      BY <3>1, <3>2
  <2> QED
    BY <1>1, <2>4, <2>5, <2>6, <2>7
<1> QED
  BY <1>2, <1>3

(* What a line does to the text and the diagnostics: nothing, an anomaly is noted, or a
   delta is taken. *)
LEMMA LineEffects ==
  ASSUME NEW e \in Events, ReadLine(e)
  PROVE  /\ \/ /\ UNCHANGED <<text, textTruncated, diagnosticVars>>
               /\ e.event \notin Anomalies \/ (failure # "none" /\ e.event # "line-too-long")
               /\ e.event = "step_update" => failure # "none"
            \/ /\ AddDiagnostic(e.event) /\ UNCHANGED <<text, textTruncated>>
               /\ e.event \in Anomalies /\ (failure = "none" \/ e.event = "line-too-long")
            \/ /\ failure = "none" /\ e.event = "step_update" /\ AppendDelta(e.delta)
         /\ e.event = "step_update" /\ failure = "none" => HandleStepUpdate(e)
         /\ e.event # "step_update" \/ failure # "none" => UNCHANGED stepUsage
<1>1. /\ "line-too-long" \in Anomalies
      /\ {"init", "step_update", "result"} \cap Anomalies = {}
  BY DEF Anomalies
<1>2. CASE failure # "none" /\ e.event # "line-too-long"
  BY <1>1, <1>2 DEF ReadLine
<1>3. CASE e.event = "line-too-long"
  BY <1>1, <1>3 DEF ReadLine, HandleAnomaly
<1>4. CASE failure = "none" /\ e.event # "line-too-long"
  <2>1. CASE e.event \in Anomalies
    BY <1>1, <1>4, <2>1 DEF ReadLine, HandleAnomaly
  <2>2. CASE e.event = "init"
    BY <1>1, <1>4, <2>2 DEF ReadLine, HandleInit
  <2>3. CASE e.event = "step_update"
    BY <1>1, <1>4, <2>3 DEF ReadLine, HandleStepUpdate
  <2>4. CASE e.event = "result"
    BY <1>1, <1>4, <2>4 DEF ReadLine, HandleResult
  <2> QED
    BY <2>1, <2>2, <2>3, <2>4, EventTypes
<1> QED
  BY <1>2, <1>3, <1>4

(* The anomalies that are to be accounted for. *)
AnomaliesAt ==
  {i \in DOMAIN lines : \/ lines[i].event = "line-too-long"
                        \/ lines[i].event \in Anomalies /\ i \in ReadAt}

(* Every one of them, and the first truncation, was stored or counted. *)
CountInv ==
  /\ Len(diagnostics) <= MaxDiagnostics
  /\ IsFiniteSet(AnomaliesAt)
  /\ Len(diagnostics) + droppedDiagnostics = Cardinality(AnomaliesAt) + TruncationCount

LEMMA CountStep ==
  ASSUME ParserTypes, ResultsInv, CountInv, NEW e \in Events, ReadLine(e)
  PROVE  CountInv'
<1> DEFINE n == Len(lines)
           due == e.event = "line-too-long" \/ (e.event \in Anomalies /\ failure = "none")
<1>1. lines \in Seq(Events) /\ lines' = Append(lines, e)
  BY DEF ParserTypes, ReadLine
<1>2. /\ n \in Nat /\ lines'[n + 1] = e /\ DOMAIN lines' = DOMAIN lines \cup {n + 1}
      /\ n + 1 \notin DOMAIN lines /\ \A i \in DOMAIN lines : lines'[i] = lines[i]
  BY <1>1, OneMoreLine
<1>3. /\ ReadAt' = IF FatalAt = {} THEN ReadAt \cup {n + 1} ELSE ReadAt
      /\ ReadAt \subseteq DOMAIN lines
  BY <1>1, MarksAfterLine
<1>4. AnomaliesAt' = IF due THEN AnomaliesAt \cup {n + 1} ELSE AnomaliesAt
  <2>1. failure = "none" <=> n + 1 \in ReadAt'
    BY <1>2, <1>3 DEF ResultsInv
  <2>2. \A i \in DOMAIN lines : i \in ReadAt' <=> i \in ReadAt
    BY <1>2, <1>3
  <2> HIDE DEF n
  <2>3. AnomaliesAt' = {i \in DOMAIN lines \cup {n + 1} :
                          \/ lines'[i].event = "line-too-long"
                          \/ lines'[i].event \in Anomalies /\ i \in ReadAt'}
    BY <1>2 DEF AnomaliesAt
  <2>4. n + 1 \in AnomaliesAt' <=> due
    BY <1>2, <2>1, <2>3
  <2>5. \A i \in DOMAIN lines : i \in AnomaliesAt' <=> i \in AnomaliesAt
    BY <1>2, <2>2, <2>3 DEF AnomaliesAt
  <2>6. AnomaliesAt \subseteq DOMAIN lines /\ AnomaliesAt' \subseteq DOMAIN lines \cup {n + 1}
    BY <2>3 DEF AnomaliesAt
  <2>7. CASE due
    BY <2>4, <2>5, <2>6, <2>7
  <2>8. CASE ~due
    BY <2>4, <2>5, <2>6, <2>8
  <2> QED
    BY <2>7, <2>8
<1>5. n + 1 \notin AnomaliesAt
  BY <1>2 DEF AnomaliesAt
<1>6. /\ IsFiniteSet(AnomaliesAt') /\ Cardinality(AnomaliesAt) \in Nat
      /\ Cardinality(AnomaliesAt') = IF due THEN Cardinality(AnomaliesAt) + 1
                                     ELSE Cardinality(AnomaliesAt)
  <2>1. IsFiniteSet(AnomaliesAt)
    BY DEF CountInv
  <2> QED
    BY <1>4, <1>5, <2>1, FS_AddElement, FS_CardinalityType
<1> HIDE DEF n
<1>7. Len(diagnostics) \in Nat /\ droppedDiagnostics \in Nat
  BY LenProperties DEF ParserTypes
<1>8. CASE UNCHANGED <<text, textTruncated, diagnosticVars>> /\ ~due
  BY <1>6, <1>8 DEF CountInv, TruncationCount, diagnosticVars
<1>9. CASE AddDiagnostic(e.event) /\ UNCHANGED <<text, textTruncated>> /\ due
  <2>1. e.event \in Noted
    BY <1>9 DEF Noted, Anomalies
  <2>2. /\ Len(diagnostics') <= MaxDiagnostics
        /\ Len(diagnostics') + droppedDiagnostics' = Len(diagnostics) + droppedDiagnostics + 1
        /\ Len(diagnostics') \in Nat /\ droppedDiagnostics' \in Nat
    BY <1>9, <2>1, AddsOne DEF CountInv
  <2>3. TruncationCount' = TruncationCount /\ TruncationCount \in Nat
    BY <1>9 DEF TruncationCount
  <2> QED
    BY <1>6, <1>7, <1>9, <2>2, <2>3 DEF CountInv
<1>10. CASE failure = "none" /\ e.event = "step_update" /\ AppendDelta(e.delta)
  <2>1. ~due
    BY <1>10 DEF Anomalies
  <2>2. CASE UNCHANGED <<textTruncated, diagnosticVars>>
    BY <1>6, <2>1, <2>2 DEF CountInv, TruncationCount, diagnosticVars
  <2>3. CASE ReportTruncation
    <3>1. /\ Len(diagnostics') <= MaxDiagnostics
          /\ Len(diagnostics') + droppedDiagnostics' + TruncationCount
               = Len(diagnostics) + droppedDiagnostics + TruncationCount'
          /\ Len(diagnostics') \in Nat /\ droppedDiagnostics' \in Nat
      BY <2>3, ReportsOnce DEF CountInv
    <3>2. TruncationCount \in Nat /\ TruncationCount' \in Nat
      BY DEF TruncationCount
    <3>3. Len(diagnostics) + droppedDiagnostics = Cardinality(AnomaliesAt) + TruncationCount
      BY DEF CountInv
    <3>4. Cardinality(AnomaliesAt') = Cardinality(AnomaliesAt) /\ Cardinality(AnomaliesAt) \in Nat
      BY <1>6, <2>1
    <3>5. Len(diagnostics') + droppedDiagnostics' = Cardinality(AnomaliesAt') + TruncationCount'
      <4>1. Len(diagnostics') + droppedDiagnostics' + TruncationCount
               = Len(diagnostics) + droppedDiagnostics + TruncationCount'
        BY <3>1
      <4>2. Len(diagnostics) + droppedDiagnostics + TruncationCount'
            = Cardinality(AnomaliesAt) + TruncationCount + TruncationCount'
        BY <3>3
      <4>3. Len(diagnostics') + droppedDiagnostics' + TruncationCount
            = Cardinality(AnomaliesAt) + TruncationCount + TruncationCount'
        BY <4>1, <4>2
      <4> QED
        BY <3>1, <3>2, <3>4, <4>3
    <3> QED
      BY <1>6, <3>1, <3>5 DEF CountInv
  <2> QED
    BY <1>10, <2>2, <2>3, DeltaTaken, EventTypes
<1> QED
  BY <1>8, <1>9, <1>10, LineEffects DEF Anomalies

-------------------------------------------------------------------------------
(* Up to some line the deltas came to the cap exactly. *)
Filled == \E k \in DOMAIN lines : Len(DeltasIn(lines, ReadAt \cap 1..k)) = MaxOutputChars

(* The text is what the deltas say, as long as nothing was cut and nothing came to a text
   that was full; there is none only if they say nothing. *)
TextInv ==
  /\ text = <<>> /\ MaxOutputChars # 1 => DeltasIn(lines, ReadAt) = <<>>
  /\ text # DeltasIn(lines, ReadAt) => textTruncated \/ Filled

LEMMA TextStep ==
  ASSUME ParserTypes, ResultsInv, TextInv, NEW e \in Events, ReadLine(e)
  PROVE  TextInv'
<1> DEFINE n == Len(lines)
           said == DeltasIn(lines, ReadAt)
           more == IF failure = "none" /\ e.event = "step_update" THEN e.delta ELSE <<>>
<1>1. lines \in Seq(Events) /\ lines' = Append(lines, e)
  BY DEF ParserTypes, ReadLine
<1>2. /\ n \in Nat /\ DOMAIN lines' = DOMAIN lines \cup {n + 1} /\ DOMAIN lines = 1..n
      /\ n + 1 \notin DOMAIN lines
  BY <1>1, OneMoreLine
<1>3. /\ ReadAt' = IF FatalAt = {} THEN ReadAt \cup {n + 1} ELSE ReadAt
      /\ ReadAt \subseteq DOMAIN lines
  BY <1>1, MarksAfterLine
<1>4. said \in Texts /\ more \in Texts /\ <<>> \in Texts
  <2>1. <<>> \in Texts
    BY EmptySeq DEF Texts
  <2> QED
    BY <1>1, <2>1, DeltasAreTexts, EventTypes
<1>5. DeltasIn(lines', ReadAt') = said \o more
  <2>1. DeltasIn(lines, ReadAt') = said
    <3>1. \A i \in DOMAIN lines : i \in ReadAt' <=> i \in ReadAt
      BY <1>2, <1>3
    <3> QED
      BY <3>1, DeltasOfSame
  <2>2. n + 1 \in ReadAt' <=> failure = "none"
    BY <1>2, <1>3 DEF ResultsInv
  <2>3. DeltasIn(lines', ReadAt')
          = DeltasIn(lines, ReadAt')
              \o (IF n + 1 \in ReadAt' /\ e.event = "step_update" THEN e.delta ELSE <<>>)
    BY <1>1, DeltasOfMore
  <2> QED
    BY <2>1, <2>2, <2>3
<1>6. Filled => Filled'
  <2> SUFFICES ASSUME NEW k \in DOMAIN lines,
                      Len(DeltasIn(lines, ReadAt \cap 1..k)) = MaxOutputChars
               PROVE  Len(DeltasIn(lines', ReadAt' \cap 1..k)) = MaxOutputChars
    BY <1>2 DEF Filled
  <2>1. k < n + 1 /\ n + 1 \notin ReadAt' \cap 1..k
    BY <1>2
  <2>2. DeltasIn(lines', ReadAt' \cap 1..k) = DeltasIn(lines, ReadAt' \cap 1..k) \o <<>>
    BY <1>1, <2>1, DeltasOfMore
  <2>3. DeltasIn(lines, ReadAt' \cap 1..k) = DeltasIn(lines, ReadAt \cap 1..k)
    <3>1. \A i \in DOMAIN lines : i \in ReadAt' \cap 1..k <=> i \in ReadAt \cap 1..k
      BY <1>2, <1>3
    <3> QED
      BY <3>1, DeltasOfSame
  <2>4. DeltasIn(lines, ReadAt \cap 1..k) \in Texts
    BY <1>1, DeltasAreTexts
  <2> QED
    BY <2>2, <2>3, <2>4, ConcatEmptySeq DEF Texts
<1>7. said \o <<>> = said
  BY <1>4, ConcatEmptySeq DEF Texts
<1>8. said = <<>> /\ more = <<>> => said \o more = <<>>
  BY <1>7
<1> HIDE DEF n, said, more
<1>9. CASE UNCHANGED <<text, textTruncated>> /\ more = <<>>
  BY <1>5, <1>6, <1>7, <1>9 DEF TextInv, said
<1>10. CASE failure = "none" /\ e.event = "step_update" /\ AppendDelta(e.delta)
  <2>1. more = e.delta /\ e.delta \in Texts
    BY <1>10, EventTypes DEF more
  <2>2. /\ text' = <<>> /\ MaxOutputChars # 1 => text = <<>> /\ more = <<>>
        /\ \/ /\ more = <<>> \/ Len(text) = MaxOutputChars
              /\ UNCHANGED <<text, textTruncated, diagnosticVars>>
           \/ /\ text' = text \o more
              /\ UNCHANGED <<textTruncated, diagnosticVars>>
           \/ ReportTruncation
    BY <1>10, <2>1, DeltaTaken
  <2>3. text' = <<>> /\ MaxOutputChars # 1 => DeltasIn(lines', ReadAt') = <<>>
    BY <1>5, <1>8, <2>2 DEF TextInv, said
  <2>4. textTruncated => textTruncated'
    BY <2>2 DEF ReportTruncation
  <2>5. text' # DeltasIn(lines', ReadAt') => textTruncated' \/ Filled'
    <3>1. CASE text # said
      BY <1>6, <2>4, <3>1 DEF TextInv, said
    <3>2. CASE text = said /\ more = <<>> /\ UNCHANGED <<text, textTruncated, diagnosticVars>>
      BY <1>5, <1>7, <3>2
    <3>3. CASE text = said /\ Len(text) = MaxOutputChars
      <4>1. n # 0
        <5> SUFFICES ASSUME n = 0  PROVE FALSE
          OBVIOUS
        <5>1. lines = <<>>
          BY <1>1, EmptySeq DEF n
        <5>2. DeltasIn(<<>>, ReadAt) = FlattenSeq(<<>>)
          <6>1. DOMAIN <<>> = 1..0
            BY EmptySeq, LenProperties
          <6>2. [i \in DOMAIN <<>> |->
                   IF i \in ReadAt /\ <<>>[i].event = "step_update" THEN <<>>[i].delta ELSE <<>>]
                = <<>>
            BY <6>1
          <6> QED
            BY <6>2 DEF DeltasIn
        <5>3. Len(said) = 0
          BY <5>1, <5>2, FlattenEmpty, EmptySeq DEF said
        <5> QED
          BY <3>3, <5>3, CapsAssumption
      <4>2. n \in DOMAIN lines /\ \A i \in DOMAIN lines : i \in ReadAt <=> i \in ReadAt \cap 1..n
        BY <1>2, <1>3, <4>1
      <4>3. DeltasIn(lines, ReadAt) = DeltasIn(lines, ReadAt \cap 1..n)
        BY <4>2, DeltasOfSame
      <4>4. Filled
        BY <3>3, <4>2, <4>3 DEF Filled, said
      <4> QED
        BY <1>6, <4>4
    <3>4. CASE text = said /\ text' = text \o more
      BY <1>5, <3>4
    <3>5. CASE ReportTruncation
      <4>1. textTruncated => textTruncated'
        BY <2>4
      <4> QED
        BY <3>5, <4>1 DEF ReportTruncation
    <3> QED
      BY <2>2, <3>1, <3>2, <3>3, <3>4, <3>5
  <2> QED
    BY <2>3, <2>5 DEF TextInv
<1> QED
  BY <1>9, <1>10, LineEffects DEF more, Anomalies

-------------------------------------------------------------------------------
(* The usage kept for a step is that of the last line that gave one. *)
UsedAt(s) == {i \in ReadAt : /\ lines[i].event = "step_update"
                             /\ lines[i].step = s /\ lines[i].usage # 0}
UsageInv ==
  \A s \in StepIndexes :
    \/ UsedAt(s) = {} /\ stepUsage[s] = 0
    \/ \E i \in UsedAt(s) : stepUsage[s] = lines[i].usage /\ \A k \in UsedAt(s) : k <= i

LEMMA UsageStep ==
  ASSUME ParserTypes, ResultsInv, UsageInv, NEW e \in Events, ReadLine(e)
  PROVE  UsageInv'
<1> SUFFICES ASSUME NEW s \in StepIndexes
             PROVE  \/ UsedAt(s)' = {} /\ stepUsage'[s] = 0
                    \/ \E i \in UsedAt(s)' : /\ stepUsage'[s] = lines'[i].usage
                                             /\ \A k \in UsedAt(s)' : k <= i
  BY DEF UsageInv
<1>1. lines \in Seq(Events) /\ lines' = Append(lines, e)
  BY DEF ParserTypes, ReadLine
<1>2. PICK m \in Nat : m = Len(lines) + 1
  BY <1>1, LenProperties
<1>3. /\ lines'[m] = e /\ DOMAIN lines' = DOMAIN lines \cup {m}
      /\ m \notin DOMAIN lines /\ \A i \in DOMAIN lines : lines'[i] = lines[i] /\ i < m
      /\ \A i \in DOMAIN lines : i \in Nat
  BY <1>1, <1>2, OneMoreLine
<1>4. /\ ReadAt' = IF failure = "none" THEN ReadAt \cup {m} ELSE ReadAt
      /\ ReadAt \subseteq DOMAIN lines
  BY <1>1, <1>2, MarksAfterLine DEF ResultsInv
<1>5. \A i \in DOMAIN lines : i \in UsedAt(s)' <=> i \in UsedAt(s)
  BY <1>3, <1>4 DEF UsedAt
<1>6. UsedAt(s) \subseteq DOMAIN lines /\ UsedAt(s)' \subseteq DOMAIN lines \cup {m}
  BY <1>4 DEF UsedAt
<1>7. m \in UsedAt(s)' <=> /\ failure = "none" /\ e.event = "step_update"
                           /\ e.step = s /\ e.usage # 0
  BY <1>3, <1>4 DEF UsedAt
<1>8. stepUsage \in [StepIndexes -> Nat]
  BY DEF ParserTypes
<1>9. CASE failure = "none" /\ e.event = "step_update" /\ e.step = s /\ e.usage # 0
  <2>1. stepUsage' = [stepUsage EXCEPT ![e.step] = e.usage]
    BY <1>9, LineEffects DEF HandleStepUpdate
  <2>2. stepUsage'[s] = e.usage
    BY <1>8, <1>9, <2>1
  <2>3. m \in UsedAt(s)' /\ \A k \in UsedAt(s)' : k <= m
    BY <1>3, <1>6, <1>7, <1>9
  <2> QED
    BY <1>3, <2>2, <2>3
<1>10. CASE ~(failure = "none" /\ e.event = "step_update" /\ e.step = s /\ e.usage # 0)
  <2>1. UsedAt(s)' = UsedAt(s)
    BY <1>5, <1>6, <1>7, <1>10
  <2>2. stepUsage'[s] = stepUsage[s]
    <3>1. CASE failure = "none" /\ e.event = "step_update"
      <4>1. stepUsage' = IF e.usage = 0 THEN stepUsage ELSE [stepUsage EXCEPT ![e.step] = e.usage]
        BY <3>1, LineEffects DEF HandleStepUpdate
      <4> QED
        BY <1>8, <1>10, <3>1, <4>1
    <3>2. CASE ~(failure = "none" /\ e.event = "step_update")
      BY <3>2, LineEffects
    <3> QED
      BY <3>1, <3>2
  <2>3. \A i \in UsedAt(s) : lines'[i] = lines[i]
    BY <1>3, <1>6
  <2> QED
    BY <2>1, <2>2, <2>3 DEF UsageInv
<1> QED
  BY <1>9, <1>10

LEMMA TypesStep ==
  ASSUME ParserTypes, CountInv, NEW e \in Events, ReadLine(e)
  PROVE  ParserTypes'
<1>1. lines' \in Seq(Events)
  <2>1. lines \in Seq(Events) /\ lines' = Append(lines, e)
    BY DEF ParserTypes, ReadLine
  <2> QED
    BY <2>1, AppendProperties
<1>2. /\ text' \in Texts /\ Len(text') <= MaxOutputChars
      /\ textTruncated' \in BOOLEAN
      /\ diagnostics' \in Seq(Noted) /\ droppedDiagnostics' \in Nat
  <2>1. /\ text \in Texts /\ Len(text) <= MaxOutputChars /\ textTruncated \in BOOLEAN
        /\ diagnostics \in Seq(Noted) /\ droppedDiagnostics \in Nat
    BY DEF ParserTypes, Noted
  <2>2. CASE UNCHANGED <<text, textTruncated, diagnosticVars>>
    BY <2>1, <2>2 DEF diagnosticVars
  <2>3. CASE AddDiagnostic(e.event) /\ UNCHANGED <<text, textTruncated>> /\ e.event \in Anomalies
    <3>1. diagnostics' \in Seq(Noted) /\ droppedDiagnostics' \in Nat
      BY <2>3, AddsOne DEF CountInv, Noted
    <3> QED
      BY <2>1, <2>3, <3>1
  <2>4. CASE failure = "none" /\ e.event = "step_update" /\ AppendDelta(e.delta)
    <3>1. /\ text' \in Texts /\ Len(text') <= MaxOutputChars
          /\ UNCHANGED <<textTruncated, diagnosticVars>> \/ ReportTruncation
      <4>1. e.delta \in Texts
        BY <2>4, EventTypes
      <4> QED
        BY <2>4, <4>1, DeltaTaken
    <3>2. CASE UNCHANGED <<textTruncated, diagnosticVars>>
      BY <2>1, <3>1, <3>2 DEF diagnosticVars
    <3>3. CASE ReportTruncation
      BY <3>1, <3>3, ReportsOnce DEF CountInv
    <3> QED
      BY <3>1, <3>2, <3>3
  <2> QED
    BY <2>2, <2>3, <2>4, LineEffects
<1>3. stepUsage' \in [StepIndexes -> Nat]
  <2>1. stepUsage \in [StepIndexes -> Nat]
    BY DEF ParserTypes
  <2>2. CASE failure = "none" /\ e.event = "step_update"
    <3>1. e.step \in StepIndexes /\ e.usage \in Nat
      BY <2>2, EventTypes
    <3>2. stepUsage' = IF e.usage = 0 THEN stepUsage ELSE [stepUsage EXCEPT ![e.step] = e.usage]
      BY <2>2, LineEffects DEF HandleStepUpdate
    <3> QED
      BY <2>1, <3>1, <3>2
  <2>3. CASE ~(failure = "none" /\ e.event = "step_update")
    BY <2>1, <2>3, LineEffects
  <2> QED
    BY <2>2, <2>3
<1>4. /\ failure' \in {"none", "duplicate-result", "invalid-result"}
      /\ terminalResult' \in Results \cup {NoResult}
  <2>1. /\ failure \in {"none", "duplicate-result", "invalid-result"}
        /\ terminalResult \in Results \cup {NoResult}
    BY DEF ParserTypes
  <2>2. CASE e.event # "result" \/ failure # "none"
    BY <2>1, <2>2, OtherLines
  <2>3. CASE e.event = "result" /\ failure = "none"
    <3>1. e \in Results /\ HandleResult(e)
      BY <2>3, EventTypes, ResultLine
    <3> QED
      BY <2>1, <3>1 DEF HandleResult
  <2> QED
    BY <2>2, <2>3
<1>5. conversationId' \in Conversations
  <2>1. conversationId \in Conversations
    BY DEF ParserTypes
  <2>2. conversationId' \in {conversationId, Named(e.conversation)}
    BY DEF ReadLine, HandleAnomaly, HandleInit, HandleStepUpdate, HandleResult
  <2>3. conversationId' = conversationId \/ e.event \in {"init", "result"}
    BY DEF ReadLine, HandleAnomaly, HandleInit, HandleStepUpdate, HandleResult, Anomalies
  <2> QED
    BY <2>1, <2>2, <2>3 DEF Named, Conversations
<1> QED
  BY <1>1, <1>2, <1>3, <1>4, <1>5 DEF ParserTypes, Noted

-------------------------------------------------------------------------------
(* The outcome is what the parser knew at the end; a truncated response may drop a
   diagnostic that it does not count. *)
OutcomeInv ==
  Finished =>
    /\ outcome.reason = Reason
    /\ outcome.usage = FinalUsage
    /\ outcome.kind \in {"success", "failure"}
    /\ outcome.diagnostics = diagnostics
    /\ outcome.droppedDiagnostics \in Nat
    /\ droppedDiagnostics - outcome.droppedDiagnostics \in
         IF HasResponse /\ textTruncated /\ droppedDiagnostics # 0 THEN {0, 1} ELSE {0}

(* The inductive invariant. *)
ParserInv ==
  ParserTypes /\ ResultsInv /\ CountInv /\ TextInv /\ UsageInv /\ OutcomeInv

(* FoldFunctionOnSet over +, as a function: the total of f over a set. *)
Totals(f, S) ==
  CHOOSE total : total = [s \in SUBSET S |->
                            IF s = {} THEN 0
                            ELSE f[CHOOSE x \in s : TRUE] + total[s \ {CHOOSE x \in s : TRUE}]]
Total(f, S) == Totals(f, S)[S]

LEMMA FoldIsTotal ==
  ASSUME NEW f, NEW S  PROVE FoldFunctionOnSet(+, 0, f, S) = Total(f, S)
BY Zenon DEF FoldFunctionOnSet, MapThenFoldSet, Total, Totals

LEMMA UsageIs ==
  FinalUsage = IF terminalResult # NoResult /\ terminalResult.usage # 0
               THEN terminalResult.usage ELSE Total(stepUsage, StepIndexes)
BY Zenon DEF FinalUsage, FoldFunctionOnSet, MapThenFoldSet, Total, Totals

(* The verdict is a function of what the parser gathered. *)
LEMMA SameVerdict ==
  ASSUME UNCHANGED <<text, stepUsage, failure, terminalResult>>
  PROVE  HasResponse' = HasResponse /\ Reason' = Reason /\ FinalUsage' = FinalUsage
<1>1. text' = text /\ stepUsage' = stepUsage /\ failure' = failure /\ terminalResult' = terminalResult
  OBVIOUS
<1>2. HasResponse' = HasResponse
  BY <1>1 DEF HasResponse
<1>3. FinalText' = FinalText
  BY <1>1, <1>2 DEF FinalText
<1>4. Reason' = Reason
  BY <1>1, <1>3 DEF Reason
<1>5. FinalUsage' = FinalUsage
  <2>1. FinalUsage' = IF terminalResult' # NoResult /\ terminalResult'.usage # 0
               THEN terminalResult'.usage ELSE Total(stepUsage', StepIndexes)
    BY Zenon DEF FinalUsage, FoldFunctionOnSet, MapThenFoldSet, Total, Totals
  <2> QED
    BY <1>1, <2>1, UsageIs, Zenon
<1> QED
  BY <1>2, <1>4, <1>5

LEMMA FinishStep ==
  ASSUME ParserInv, Finish  PROVE ParserInv'
<1>1. /\ UNCHANGED <<text, stepUsage, failure, terminalResult, conversationId, lines>>
      /\ \/ ReportTruncation /\ HasResponse
         \/ UNCHANGED <<textTruncated, diagnosticVars>>
  BY DEF Finish
<1>2. ParserTypes /\ Len(diagnostics) <= MaxDiagnostics
  BY DEF ParserInv, CountInv
<1>3. /\ ResultsAt' = ResultsAt /\ FatalAt' = FatalAt /\ ReadAt' = ReadAt
      /\ AnomaliesAt' = AnomaliesAt
      /\ \A s : UsedAt(s)' = UsedAt(s)
      /\ \A i : FirstResult(i)' <=> FirstResult(i)
      /\ Filled' <=> Filled
  BY <1>1 DEF ResultsAt, FatalAt, ReadAt, AnomaliesAt, UsedAt, FirstResult, Filled
<1>4. /\ textTruncated' \in BOOLEAN /\ (textTruncated => textTruncated')
      /\ diagnostics' \in Seq(Noted) /\ droppedDiagnostics' \in Nat
      /\ Len(diagnostics') <= MaxDiagnostics
      /\ Len(diagnostics) \in Nat /\ Len(diagnostics') \in Nat /\ droppedDiagnostics \in Nat
      /\ Len(diagnostics') + droppedDiagnostics' + TruncationCount
           = Len(diagnostics) + droppedDiagnostics + TruncationCount'
      /\ droppedDiagnostics' - droppedDiagnostics \in
           IF HasResponse /\ textTruncated' /\ droppedDiagnostics' # 0 THEN {0, 1} ELSE {0}
  <2>1. /\ diagnostics \in Seq(Noted) /\ droppedDiagnostics \in Nat
        /\ textTruncated \in BOOLEAN /\ Len(diagnostics) \in Nat
    BY <1>2, LenProperties DEF ParserTypes, Noted
  <2>2. CASE ReportTruncation /\ HasResponse
    <3>1. /\ textTruncated' = TRUE
          /\ diagnostics' \in Seq(Noted) /\ droppedDiagnostics' \in Nat
          /\ Len(diagnostics') \in Nat /\ Len(diagnostics') <= MaxDiagnostics
          /\ Len(diagnostics') + droppedDiagnostics' + TruncationCount
               = Len(diagnostics) + droppedDiagnostics + TruncationCount'
          /\ droppedDiagnostics' \in {droppedDiagnostics, droppedDiagnostics + 1}
      BY <1>2, <2>2, ReportsOnce
    <3>2. droppedDiagnostics' - droppedDiagnostics \in
            IF HasResponse /\ textTruncated' /\ droppedDiagnostics' # 0 THEN {0, 1} ELSE {0}
      BY <2>1, <2>2, <3>1
    <3> QED
      BY <2>1, <3>1, <3>2
  <2>3. CASE UNCHANGED <<textTruncated, diagnosticVars>>
    <3>1. textTruncated' = textTruncated /\ diagnostics' = diagnostics
          /\ droppedDiagnostics' = droppedDiagnostics /\ TruncationCount' = TruncationCount
      BY <2>3 DEF diagnosticVars, TruncationCount
    <3>2. droppedDiagnostics' - droppedDiagnostics = 0
      BY <2>1, <3>1
    <3> QED
      BY <1>2, <2>1, <3>1, <3>2
  <2> QED
    BY <1>1, <2>2, <2>3
<1>5. ParserTypes'
  BY <1>1, <1>2, <1>4 DEF ParserTypes, Noted
<1>6. ResultsInv' /\ UsageInv'
  BY <1>1, <1>3 DEF ParserInv, ResultsInv, UsageInv
<1>7. CountInv'
  <2>1. /\ Len(diagnostics) + droppedDiagnostics = Cardinality(AnomaliesAt) + TruncationCount
        /\ IsFiniteSet(AnomaliesAt) /\ Cardinality(AnomaliesAt) \in Nat
    BY FS_CardinalityType DEF ParserInv, CountInv
  <2>2. Len(diagnostics) + droppedDiagnostics + TruncationCount'
          = Cardinality(AnomaliesAt) + TruncationCount + TruncationCount'
    BY <2>1
  <2>3. Len(diagnostics') + droppedDiagnostics' + TruncationCount
          = Cardinality(AnomaliesAt) + TruncationCount + TruncationCount'
    BY <1>4, <2>2
  <2>4. TruncationCount \in Nat /\ TruncationCount' \in Nat
    BY DEF TruncationCount
  <2>5. Len(diagnostics') + droppedDiagnostics' = Cardinality(AnomaliesAt) + TruncationCount'
    <3> DEFINE a == Len(diagnostics')
               b == droppedDiagnostics'
               c == TruncationCount
               d == TruncationCount'
               n == Cardinality(AnomaliesAt)
    <3>1. a \in Nat /\ b \in Nat /\ c \in Nat /\ d \in Nat /\ n \in Nat
      BY <1>4, <2>1, <2>4
    <3>2. a + b + c = n + c + d
      BY <2>3
    <3> HIDE DEF a, b, c, d, n
    <3>3. a + b = n + d
      BY <3>1, <3>2
    <3> QED
      BY <3>3 DEF a, b, d, n
  <2> QED
    BY <1>3, <1>4, <2>1, <2>5 DEF CountInv
<1>8. TextInv'
  BY <1>1, <1>3, <1>4 DEF ParserInv, TextInv
<1>9. OutcomeInv'
  <2>1. HasResponse' = HasResponse /\ Reason' = Reason /\ FinalUsage' = FinalUsage
    BY <1>1, SameVerdict
  <2>2. /\ outcome'.reason = Reason /\ outcome'.usage = FinalUsage
        /\ outcome'.kind \in {"success", "failure"}
        /\ outcome'.diagnostics = diagnostics'
        /\ outcome'.droppedDiagnostics = droppedDiagnostics
    BY DEF Finish
  <2> QED
    BY <1>4, <2>1, <2>2 DEF OutcomeInv
<1> QED
  BY <1>5, <1>6, <1>7, <1>8, <1>9 DEF ParserInv

(* The invariant is inductive. *)
THEOREM ParserInvariant == ParserSpec => []ParserInv
<1>1. ParserInit => ParserInv
  <2> SUFFICES ASSUME ParserInit
               PROVE  ParserInv
    OBVIOUS
  <2>1. /\ lines = <<>> /\ DOMAIN lines = {} /\ Len(diagnostics) = 0 /\ Len(text) = 0
        /\ <<>> \in Seq(Events) /\ <<>> \in Seq(Noted) /\ <<>> \in Texts
    <3>1. /\ <<>> \in Seq(Events) /\ <<>> \in Seq(Noted) /\ <<>> \in Seq({"a", "H", "L"})
          /\ Len(<<>>) = 0
      BY EmptySeq
    <3>2. DOMAIN <<>> = {}
      BY <3>1, LenProperties
    <3>3. lines = <<>> /\ diagnostics = <<>> /\ text = <<>>
      BY DEF ParserInit
    <3> QED
      BY <3>1, <3>2, <3>3, Zenon DEF Texts
  <2>2. ParserTypes
    <3>1. MaxOutputChars \in Nat
      BY CapsAssumption
    <3>2. textTruncated \in BOOLEAN
      BY Zenon DEF ParserInit
    <3>3. stepUsage \in [StepIndexes -> Nat]
      BY DEF ParserInit
    <3>4. Len(text) <= MaxOutputChars
      BY <2>1, <3>1
    <3>5. /\ failure \in {"none", "duplicate-result", "invalid-result"}
          /\ terminalResult \in Results \cup {NoResult}
          /\ droppedDiagnostics \in Nat
      BY DEF ParserInit
    <3>7. conversationId \in Conversations
      BY DEF ParserInit, Conversations
    <3>6. lines \in Seq(Events) /\ text \in Texts /\ diagnostics \in Seq(Noted)
      BY <2>1, Zenon DEF ParserInit
    <3> QED
      BY <3>2, <3>3, <3>4, <3>5, <3>6, <3>7 DEF ParserTypes, Noted
  <2>3. ResultsAt = {} /\ FatalAt = {} /\ ReadAt = {} /\ AnomaliesAt = {} /\ \A s : UsedAt(s) = {}
    BY <2>1 DEF ResultsAt, FatalAt, ReadAt, AnomaliesAt, UsedAt
  <2>4. ResultsInv /\ UsageInv
    BY <2>3 DEF ParserInit, ResultsInv, UsageInv
  <2>5. CountInv
    <3>1. IsFiniteSet({}) /\ Cardinality({}) = 0
      BY FS_EmptySet
    <3>2. MaxDiagnostics \in Nat
      BY CapsAssumption
    <3>3. TruncationCount = 0 /\ droppedDiagnostics = 0
      BY Zenon DEF ParserInit, TruncationCount
    <3> QED
      BY <2>1, <2>3, <3>1, <3>2, <3>3 DEF CountInv
  <2>6. TextInv
    <3>1. DeltasIn(lines, ReadAt) = FlattenSeq(<<>>)
      <4>1. [i \in DOMAIN lines |->
               IF i \in ReadAt /\ lines[i].event = "step_update" THEN lines[i].delta ELSE <<>>]
            = <<>>
        BY <2>1
      <4> QED
        BY <4>1 DEF DeltasIn
    <3> QED
      BY <3>1, FlattenEmpty DEF ParserInit, TextInv
  <2>7. OutcomeInv
    BY DEF ParserInit, OutcomeInv, Finished
  <2> QED
    BY <2>2, <2>4, <2>5, <2>6, <2>7 DEF ParserInv
<1>2. ParserInv /\ [ParserNext]_parserVars => ParserInv'
  <2> SUFFICES ASSUME ParserInv, [ParserNext]_parserVars
               PROVE  ParserInv'
    OBVIOUS
  <2>1. ASSUME NEW e \in Events, ReadLine(e)  PROVE ParserInv'
    <3>1. ParserTypes' /\ ResultsInv' /\ CountInv' /\ TextInv' /\ UsageInv'
      BY <2>1, TypesStep, ResultsStep, CountStep, TextStep, UsageStep DEF ParserInv
    <3>2. outcome' = NoOutcome
      BY <2>1 DEF ReadLine
    <3> QED
      BY <3>1, <3>2 DEF ParserInv, OutcomeInv, Finished
  <2>2. CASE Finish
    BY <2>2, FinishStep
  <2>3. CASE UNCHANGED parserVars
    <3>1. UNCHANGED <<text, textTruncated, diagnostics, droppedDiagnostics, stepUsage, failure,
                      terminalResult, conversationId, outcome, lines>>
      BY <2>3 DEF parserVars
    <3>2. /\ ResultsAt' = ResultsAt /\ FatalAt' = FatalAt /\ ReadAt' = ReadAt
          /\ AnomaliesAt' = AnomaliesAt /\ TruncationCount' = TruncationCount
          /\ \A s : UsedAt(s)' = UsedAt(s)
          /\ \A i : FirstResult(i)' <=> FirstResult(i)
          /\ Filled' <=> Filled
      BY <3>1 DEF ResultsAt, FatalAt, ReadAt, AnomaliesAt, UsedAt, FirstResult, Filled, TruncationCount
    <3>3. ParserTypes' /\ ResultsInv' /\ UsageInv' /\ CountInv' /\ TextInv'
      BY <3>1, <3>2 DEF ParserInv, ParserTypes, ResultsInv, UsageInv, CountInv, TextInv
    <3>4. OutcomeInv'
      <4>1. HasResponse' = HasResponse /\ Reason' = Reason /\ FinalUsage' = FinalUsage
        BY <3>1, SameVerdict
      <4> QED
        BY <3>1, <4>1 DEF ParserInv, OutcomeInv, Finished
    <3> QED
      BY <3>3, <3>4 DEF ParserInv
  <2> QED
    BY <2>1, <2>2, <2>3 DEF ParserNext
<1> QED
  BY <1>1, <1>2, PTL DEF ParserSpec

-------------------------------------------------------------------------------
(* What the parser knows at the end of the stream is what the stream deserves. *)
LEMMA VerdictFollows ==
  ASSUME ParserInv  PROVE VerdictByStream
<1> SUFFICES ASSUME Finished
             PROVE  VerdictByStream
  BY DEF VerdictByStream
<1>1. outcome.reason = Reason
  BY DEF ParserInv, OutcomeInv
<1>2. failure \in {"none", "duplicate-result", "invalid-result"}
  BY DEF ParserInv, ParserTypes
<1>3. CASE failure = "invalid-result"
  <2>1. outcome.reason = "invalid-result"
    BY <1>1, <1>3 DEF Reason
  <2>2. \E i \in ResultsAt : ~lines[i].valid /\ \A k \in ResultsAt : i <= k
    BY <1>3 DEF ParserInv, ResultsInv, FirstResult
  <2> QED
    BY <2>1, <2>2 DEF VerdictByStream
<1>4. CASE failure = "duplicate-result"
  <2>1. outcome.reason = "duplicate-result"
    BY <1>1, <1>4 DEF Reason
  <2>2. \E i, k \in ResultsAt : i < k /\ lines[i].valid /\ \A j \in ResultsAt : i <= j
    BY <1>4 DEF ParserInv, ResultsInv, FirstResult
  <2> QED
    BY <2>1, <2>2 DEF VerdictByStream
<1>5. CASE failure = "none" /\ terminalResult = NoResult
  <2>1. outcome.reason = "missing-result"
    BY <1>1, <1>5 DEF Reason
  <2>2. ResultsAt = {}
    BY <1>5 DEF ParserInv, ResultsInv
  <2> QED
    BY <2>1, <2>2 DEF VerdictByStream
<1>6. CASE failure = "none" /\ terminalResult # NoResult
  <2>1. PICK i \in ResultsAt : /\ ResultsAt = {i} /\ lines[i] = terminalResult
                               /\ lines[i].valid
    BY <1>6 DEF ParserInv, ResultsInv, FirstResult
  <2>2. /\ outcome.reason \in {"status", "empty-output", "none"}
        /\ outcome.reason = "status" <=> terminalResult.status # "SUCCESS"
        /\ outcome.reason = "empty-output" => FinalText = <<>>
    BY <1>1, <1>6 DEF Reason
  <2>3. ASSUME outcome.reason = "empty-output", MaxOutputChars # 1
        PROVE  lines[i].response = <<>> /\ DeltasOf(ReadAt) = <<>>
    <3>1. terminalResult \in Results
      BY <1>6 DEF ParserInv, ParserTypes
    <3>2. terminalResult.response \in Texts
      BY <3>1 DEF Results
    <3>3. ~HasResponse
      <4>1. MaxOutputChars \in Nat /\ MaxOutputChars > 1
        BY <2>3, CapsAssumption
      <4>2. ASSUME HasResponse  PROVE FinalText # <<>>
        <5>1. FinalText = TruncateUtf16(terminalResult.response, MaxOutputChars)
          BY <4>2 DEF FinalText
        <5> QED
          BY <3>2, <4>1, <4>2, <5>1, TruncateFacts DEF HasResponse
      <4> QED
        BY <2>2, <2>3, <4>2
    <3>4. text = <<>>
      BY <2>2, <2>3, <3>3 DEF FinalText
    <3>5. DeltasIn(lines, ReadAt) = <<>>
      BY <2>3, <3>4 DEF ParserInv, TextInv
    <3> QED
      BY <1>6, <2>1, <3>3, <3>5 DEF HasResponse, DeltasIn, DeltasOf
  <2> QED
    BY <2>1, <2>2, <2>3 DEF VerdictByStream
<1> QED
  BY <1>2, <1>3, <1>4, <1>5, <1>6

-------------------------------------------------------------------------------
LastUsage(s) ==
  IF UsedAt(s) = {} THEN 0
  ELSE lines[CHOOSE i \in UsedAt(s) : \A k \in UsedAt(s) : k <= i].usage
CountedAt == ReadAt \cap (ResultsAt \ FatalAt)
OwnUsage == {lines[i].usage : i \in CountedAt} \ {0}

LEMMA UsageCountedOnceIs ==
  UsageCountedOnce <=>
    (Finished =>
       IF OwnUsage # {} THEN OwnUsage = {outcome.usage}
       ELSE outcome.usage = Total([s \in StepIndexes |-> LastUsage(s)], StepIndexes))
BY Zenon DEF UsageCountedOnce, OwnUsage, CountedAt, LastUsage, UsedAt, Total, Totals,
             FoldFunctionOnSet, MapThenFoldSet

LEMMA LastUsageKept ==
  ASSUME ParserInv  PROVE stepUsage = [s \in StepIndexes |-> LastUsage(s)]
<1>1. stepUsage \in [StepIndexes -> Nat]
  BY DEF ParserInv, ParserTypes
<1>2. ASSUME NEW s \in StepIndexes  PROVE stepUsage[s] = LastUsage(s)
  <2>1. CASE UsedAt(s) = {} /\ stepUsage[s] = 0
    BY <2>1 DEF LastUsage
  <2>2. ASSUME NEW i \in UsedAt(s), stepUsage[s] = lines[i].usage, \A k \in UsedAt(s) : k <= i
        PROVE  stepUsage[s] = LastUsage(s)
    <3> DEFINE j == CHOOSE n \in UsedAt(s) : \A k \in UsedAt(s) : k <= n
    <3>1. j \in UsedAt(s) /\ \A k \in UsedAt(s) : k <= j
      BY <2>2
    <3>2. UsedAt(s) \subseteq Nat
      <4>1. lines \in Seq(Events)
        BY DEF ParserInv, ParserTypes
      <4>2. DOMAIN lines \subseteq Nat
        BY <4>1, LenProperties
      <4> QED
        BY <4>2 DEF UsedAt, ReadAt
    <3>3. i <= j /\ j <= i /\ i \in Nat /\ j \in Nat
      BY <2>2, <3>1, <3>2
    <3>4. j = i
      BY <3>3
    <3>5. LastUsage(s) = lines[j].usage
      BY <2>2 DEF LastUsage
    <3> QED
      BY <2>2, <3>4, <3>5
  <2> QED
    BY <2>1, <2>2 DEF ParserInv, UsageInv
<1> QED
  BY <1>1, <1>2

(* The result that counts is the one that the parser kept. *)
LEMMA CountedIsKept ==
  ASSUME ParserInv
  PROVE  \/ CountedAt = {} /\ terminalResult = NoResult
         \/ \E i \in DOMAIN lines : CountedAt = {i} /\ lines[i] = terminalResult
<1>1. ResultsInv /\ lines \in Seq(Events)
  BY DEF ParserInv, ParserTypes
<1>2. /\ DOMAIN lines \subseteq Nat
      /\ ResultsAt \subseteq DOMAIN lines /\ FatalAt \subseteq ResultsAt
  BY <1>1, LenProperties DEF ResultsAt, FatalAt
<1>3. ASSUME NEW i \in DOMAIN lines, FirstResult(i), NEW k \in ResultsAt, k # i
      PROVE  k \in FatalAt
  <2>1. i \in ResultsAt /\ i <= k /\ i \in Nat /\ k \in Nat
    BY <1>2, <1>3 DEF FirstResult
  <2>2. i < k
    BY <1>3, <2>1
  <2> QED
    BY <2>1, <2>2 DEF FatalAt
<1>4. CASE terminalResult = NoResult
  <2>1. CASE failure = "none"
    BY <1>1, <1>4, <2>1 DEF ResultsInv, CountedAt
  <2>2. CASE failure = "invalid-result"
    <3>1. PICK i \in DOMAIN lines : FirstResult(i) /\ ~lines[i].valid
      BY <1>1, <2>2 DEF ResultsInv
    <3>2. i \in FatalAt
      BY <3>1 DEF FatalAt, FirstResult
    <3>3. ResultsAt \subseteq FatalAt
      BY <1>3, <3>1, <3>2
    <3> QED
      BY <1>4, <3>3 DEF CountedAt
  <2>3. failure # "duplicate-result"
    BY <1>1, <1>4 DEF ResultsInv
  <2> QED
    BY <2>1, <2>2, <2>3 DEF ParserInv, ParserTypes
<1>5. CASE terminalResult # NoResult
  <2>1. PICK i \in DOMAIN lines : FirstResult(i) /\ lines[i] = terminalResult /\ lines[i].valid
    BY <1>1, <1>5 DEF ResultsInv
  <2>2. i \in ResultsAt /\ i \in Nat
    BY <1>2, <2>1 DEF FirstResult
  <2>3. i \notin FatalAt
    <3>1. \A k \in ResultsAt : ~(k < i)
      BY <1>2, <2>1, <2>2 DEF FirstResult
    <3> QED
      BY <2>1, <3>1 DEF FatalAt
  <2>4. i \in ReadAt
    BY <1>2, <2>1 DEF ReadAt, FirstResult
  <2>5. CountedAt = {i}
    BY <1>3, <2>1, <2>2, <2>3, <2>4 DEF CountedAt
  <2> QED
    BY <2>1, <2>5
<1> QED
  BY <1>4, <1>5

LEMMA UsageFollows ==
  ASSUME ParserInv  PROVE UsageCountedOnce
<1> SUFFICES ASSUME Finished
             PROVE  IF OwnUsage # {} THEN OwnUsage = {outcome.usage}
                    ELSE outcome.usage = Total([s \in StepIndexes |-> LastUsage(s)], StepIndexes)
  BY UsageCountedOnceIs, Zenon
<1>1. outcome.usage = IF terminalResult # NoResult /\ terminalResult.usage # 0
                      THEN terminalResult.usage ELSE Total(stepUsage, StepIndexes)
  BY UsageIs DEF ParserInv, OutcomeInv
<1>2. stepUsage = [s \in StepIndexes |-> LastUsage(s)]
  BY LastUsageKept
<1>3. CASE CountedAt = {} /\ terminalResult = NoResult
  <2>1. OwnUsage = {}
    BY <1>3 DEF OwnUsage
  <2> QED
    BY <1>1, <1>2, <1>3, <2>1, Zenon
<1>4. ASSUME NEW i \in DOMAIN lines, CountedAt = {i}, lines[i] = terminalResult
      PROVE  IF OwnUsage # {} THEN OwnUsage = {outcome.usage}
             ELSE outcome.usage = Total([s \in StepIndexes |-> LastUsage(s)], StepIndexes)
  <2>1. OwnUsage = {terminalResult.usage} \ {0}
    BY <1>4 DEF OwnUsage
  <2>2. terminalResult # NoResult
    <3>1. lines[i].event = "result"
      BY <1>4 DEF CountedAt, ResultsAt
    <3> QED
      BY <1>4, <3>1 DEF NoResult
  <2>3. CASE terminalResult.usage = 0
    BY <1>1, <1>2, <2>1, <2>3, Zenon
  <2>4. CASE terminalResult.usage # 0
    <3>1. OwnUsage = {terminalResult.usage}
      BY <2>1, <2>4
    <3> QED
      BY <1>1, <2>2, <2>4, <3>1
  <2> QED
    BY <2>3, <2>4
<1> QED
  BY <1>3, <1>4, CountedIsKept, Zenon

-------------------------------------------------------------------------------
LEMMA DiagnosticsFollow ==
  ASSUME ParserInv  PROVE DiagnosticsAccounted
<1> DEFINE due == Cardinality(AnomaliesAt) + (IF textTruncated THEN 1 ELSE 0)
           unseen == IF HasResponse /\ textTruncated /\ Len(diagnostics) < due THEN {0, 1} ELSE {0}
<1>1. /\ Len(diagnostics) <= MaxDiagnostics
      /\ Len(diagnostics) + droppedDiagnostics = due
  BY DEF ParserInv, CountInv, TruncationCount
<1>2. Len(diagnostics) \in Nat /\ droppedDiagnostics \in Nat
  BY LenProperties DEF ParserInv, ParserTypes
<1>3. ASSUME Finished
      PROVE  /\ outcome.diagnostics = diagnostics
             /\ due - Len(outcome.diagnostics) - outcome.droppedDiagnostics \in unseen
  <2> DEFINE o == outcome.droppedDiagnostics
             d == Len(diagnostics)
             left == droppedDiagnostics
  <2>1. /\ outcome.diagnostics = diagnostics /\ o \in Nat
        /\ left - o \in IF HasResponse /\ textTruncated /\ left # 0 THEN {0, 1} ELSE {0}
    BY <1>3 DEF ParserInv, OutcomeInv
  <2>2. due = d + left /\ d \in Nat /\ left \in Nat
    BY <1>1, <1>2
  <2> HIDE DEF due, o, d, left
  <2>3. due - d - o = left - o
    BY <2>1, <2>2
  <2>4. d < due <=> left # 0
    BY <2>2
  <2> USE DEF d
  <2> QED
    BY <2>1, <2>3, <2>4 DEF o
<1>4. text # DeltasOf(ReadAt) =>
        \/ textTruncated
        \/ \E k \in DOMAIN lines : Len(DeltasOf(ReadAt \cap 1..k)) = MaxOutputChars
  BY DEF ParserInv, TextInv, Filled, DeltasIn, DeltasOf
<1> QED
  BY <1>1, <1>3, <1>4 DEF DiagnosticsAccounted, AnomaliesAt

-------------------------------------------------------------------------------
(* Totals of numbers over a finite set are numbers: the recursive function exists, by
   induction over the size of its argument. *)
AnyOf(s) == CHOOSE x \in s : TRUE
Sized(S, n) == {s \in SUBSET S : Cardinality(s) <= n}
Adds(t, f, s) == t[s] = IF s = {} THEN 0 ELSE f[AnyOf(s)] + t[s \ {AnyOf(s)}]

LEMMA OneLess ==
  ASSUME NEW S, IsFiniteSet(S), NEW s \in SUBSET S, s # {}
  PROVE  /\ AnyOf(s) \in s /\ s \ {AnyOf(s)} \in SUBSET S
         /\ Cardinality(s) \in Nat /\ Cardinality(s) > 0
         /\ Cardinality(s \ {AnyOf(s)}) = Cardinality(s) - 1
<1>1. IsFiniteSet(s)
  BY FS_Subset
<1>2. AnyOf(s) \in s
  BY DEF AnyOf
<1>3. Cardinality(s \ {AnyOf(s)}) = Cardinality(s) - 1 /\ Cardinality(s) \in Nat
  BY <1>1, <1>2, FS_RemoveElement, FS_CardinalityType
<1>4. Cardinality(s) # 0
  BY <1>1, FS_EmptySet
<1> QED
  BY <1>2, <1>3, <1>4

LEMMA TotalExists ==
  ASSUME NEW S, IsFiniteSet(S), NEW f \in [S -> Nat]
  PROVE  \E t \in [SUBSET S -> Nat] : \A s \in SUBSET S : Adds(t, f, s)
<1> DEFINE T == {n \in Nat : \E t \in [Sized(S, n) -> Nat] : \A s \in Sized(S, n) : Adds(t, f, s)}
<1>1. \A s \in SUBSET S : IsFiniteSet(s) /\ Cardinality(s) \in Nat
                          /\ Cardinality(s) <= Cardinality(S)
  BY FS_Subset, FS_CardinalityType
<1>2. 0 \in T
  <2>1. \A s \in Sized(S, 0) : s = {}
    BY <1>1, FS_EmptySet DEF Sized
  <2> DEFINE t == [s \in Sized(S, 0) |-> 0]
  <2>2. t \in [Sized(S, 0) -> Nat] /\ \A s \in Sized(S, 0) : Adds(t, f, s)
    BY <2>1 DEF Adds
  <2> QED
    BY <2>2
<1>3. ASSUME NEW n \in Nat, n \in T  PROVE n + 1 \in T
  <2>1. PICK t \in [Sized(S, n) -> Nat] : \A s \in Sized(S, n) : Adds(t, f, s)
    BY <1>3
  <2> DEFINE g == [s \in Sized(S, n + 1) |->
                     IF s = {} THEN 0 ELSE f[AnyOf(s)] + t[s \ {AnyOf(s)}]]
  <2>2. ASSUME NEW s \in Sized(S, n + 1), s # {}
        PROVE  /\ s \ {AnyOf(s)} \in Sized(S, n) /\ s \ {AnyOf(s)} \in Sized(S, n + 1)
               /\ AnyOf(s) \in S
    <3>1. s \in SUBSET S /\ Cardinality(s) <= n + 1
      BY <2>2 DEF Sized
    <3>2. /\ AnyOf(s) \in s /\ s \ {AnyOf(s)} \in SUBSET S /\ Cardinality(s) \in Nat
          /\ Cardinality(s \ {AnyOf(s)}) = Cardinality(s) - 1
      BY <2>2, <3>1, OneLess
    <3>3. Cardinality(s \ {AnyOf(s)}) <= n /\ Cardinality(s \ {AnyOf(s)}) <= n + 1
      BY <3>1, <3>2
    <3> QED
      BY <3>1, <3>2, <3>3 DEF Sized
  <2>3. g \in [Sized(S, n + 1) -> Nat]
    <3>1. ASSUME NEW s \in Sized(S, n + 1), s # {}
          PROVE  f[AnyOf(s)] + t[s \ {AnyOf(s)}] \in Nat
      <4>1. f[AnyOf(s)] \in Nat /\ t[s \ {AnyOf(s)}] \in Nat
        BY <2>1, <2>2, <3>1
      <4> QED
        BY <4>1
    <3> QED
      BY <3>1
  <2>4. \A s \in Sized(S, n) : s \in Sized(S, n + 1) /\ g[s] = t[s]
    <3> SUFFICES ASSUME NEW s \in Sized(S, n)
                 PROVE  s \in Sized(S, n + 1) /\ g[s] = t[s]
      OBVIOUS
    <3>1. s \in SUBSET S /\ Cardinality(s) <= n /\ Cardinality(s) \in Nat
      BY <1>1 DEF Sized
    <3>2. Cardinality(s) <= n + 1
      BY <3>1
    <3>3. s \in Sized(S, n + 1)
      BY <3>1, <3>2 DEF Sized
    <3> QED
      BY <2>1, <3>3 DEF Adds
  <2>5. ASSUME NEW s \in Sized(S, n + 1)  PROVE Adds(g, f, s)
    <3>1. CASE s = {}
      BY <3>1 DEF Adds
    <3>2. CASE s # {}
      <4>1. g[s \ {AnyOf(s)}] = t[s \ {AnyOf(s)}]
        BY <2>2, <2>4, <3>2
      <4>2. g[s] = f[AnyOf(s)] + t[s \ {AnyOf(s)}]
        BY <3>2
      <4> HIDE DEF g
      <4> QED
        BY <3>2, <4>1, <4>2 DEF Adds
    <3> QED
      BY <3>1, <3>2
  <2> HIDE DEF g
  <2> QED
    BY <2>3, <2>5
<1>4. Nat \subseteq T
  <2> HIDE DEF T
  <2> QED
    BY <1>2, <1>3, Induction
<1>5. Cardinality(S) \in T
  BY <1>4, FS_CardinalityType
<1>6. Sized(S, Cardinality(S)) = SUBSET S
  BY <1>1 DEF Sized
<1> QED
  BY <1>5, <1>6

LEMMA AddsToNat ==
  ASSUME NEW S, IsFiniteSet(S), NEW f \in [S -> Nat],
         NEW total, \A s \in SUBSET S : Adds(total, f, s)
  PROVE  total[S] \in Nat
<1> DEFINE T == {n \in Nat : \A s \in Sized(S, n) : total[s] \in Nat}
<1>1. \A s : s = {} => total[s] = 0
  <2>1. {} \in SUBSET S
    OBVIOUS
  <2>2. total[{}] = 0
    BY <2>1 DEF Adds
  <2> QED
    BY <2>2, Zenon
<1>2. 0 \in T
  <2>1. \A s \in Sized(S, 0) : s = {}
    BY FS_Subset, FS_EmptySet, FS_CardinalityType DEF Sized
  <2> QED
    BY <1>1, <2>1
<1>3. ASSUME NEW n \in Nat, n \in T  PROVE n + 1 \in T
  <2> SUFFICES ASSUME NEW s \in Sized(S, n + 1)  PROVE total[s] \in Nat
    OBVIOUS
  <2>1. CASE s = {}
    BY <1>1, <2>1
  <2> SUFFICES ASSUME s # {}  PROVE total[s] \in Nat
    BY <2>1
  <2>2. s \in SUBSET S /\ Cardinality(s) <= n + 1
    BY DEF Sized
  <2>3. /\ AnyOf(s) \in s /\ s \ {AnyOf(s)} \in SUBSET S /\ Cardinality(s) \in Nat
        /\ Cardinality(s \ {AnyOf(s)}) = Cardinality(s) - 1
    BY <2>2, OneLess
  <2>4. Cardinality(s \ {AnyOf(s)}) <= n
    BY <2>2, <2>3
  <2>5. f[AnyOf(s)] \in Nat /\ total[s \ {AnyOf(s)}] \in Nat
    BY <1>3, <2>2, <2>3, <2>4 DEF Sized
  <2>6. total[s] = f[AnyOf(s)] + total[s \ {AnyOf(s)}]
    BY <2>2 DEF Adds
  <2> QED
    BY <2>5, <2>6
<1>4. Nat \subseteq T
  <2> HIDE DEF T
  <2> QED
    BY <1>2, <1>3, Induction
<1>5. Cardinality(S) \in T /\ S \in Sized(S, Cardinality(S))
  BY <1>4, FS_CardinalityType DEF Sized
<1> QED
  BY <1>5

LEMMA TotalIsNat ==
  ASSUME NEW S, IsFiniteSet(S), NEW f \in [S -> Nat]
  PROVE  Total(f, S) \in Nat
<1> DEFINE Is(t) == t = [s \in SUBSET S |->
                            IF s = {} THEN 0
                            ELSE f[CHOOSE x \in s : TRUE] + t[s \ {CHOOSE x \in s : TRUE}]]
           total == CHOOSE t : Is(t)
<1>1. PICK t \in [SUBSET S -> Nat] : \A s \in SUBSET S : Adds(t, f, s)
  BY TotalExists
<1>2. Is(t)
  BY <1>1 DEF Adds, AnyOf
<1>3. Is(total)
  BY <1>2, Zenon
<1>4. total = Totals(f, S)
  BY Zenon DEF Totals
<1>5. \A s \in SUBSET S : Adds(Totals(f, S), f, s)
  BY <1>3, <1>4 DEF Adds, AnyOf
<1> QED
  BY <1>5, AddsToNat DEF Total

LEMMA StepIndexesFinite == IsFiniteSet(StepIndexes)
<1> DEFINE D == {e \in Events : e.event = "step_update"}
           f == [e \in D |-> e.step]
<1>1. IsFiniteSet(D)
  BY EventsAssumption, FS_Subset
<1>2. f \in Surjection(D, StepIndexes)
  BY DEF Surjection, StepIndexes
<1> QED
  BY <1>1, <1>2, FS_Surjection

LEMMA TypeFollows ==
  ASSUME ParserInv  PROVE TypeOK
<1>1. ParserTypes
  BY DEF ParserInv
<1>2. Finished => outcome.kind \in {"success", "failure"} /\ outcome.usage \in Nat
  <2>1. stepUsage \in [StepIndexes -> Nat]
    BY <1>1 DEF ParserTypes
  <2>2. Total(stepUsage, StepIndexes) \in Nat
    BY <2>1, StepIndexesFinite, TotalIsNat
  <2>3. terminalResult # NoResult => terminalResult.usage \in Nat
    BY <1>1 DEF ParserTypes, Results
  <2> QED
    BY <2>2, <2>3, UsageIs DEF ParserInv, OutcomeInv
<1>3. \A i \in DOMAIN lines : lines[i] \in Events
  BY <1>1, ElementOfSeq, LenProperties DEF ParserTypes
<1> QED
  BY <1>1, <1>2, <1>3 DEF TypeOK, ParserTypes

-------------------------------------------------------------------------------
(* ReadLine and Finish are the parser's own steps; the gateway's variables do not matter to
   it. *)
LEMMA StepIsParsers ==
  [Next]_vars => [ParserNext]_parserVars
BY DEF Next, vars, ReadAndRelay, FinishAndReply, ParserNext

(* The callbacks that handleChat hands the parser (src/gateway/chat.ts) never disturb what
   it makes of the stream: the gateway's parser behaves as the parser alone does. *)
THEOREM StreamImplementsParser == Spec => ParserSpec
<1>1. Init => ParserInit
  BY DEF Init
<1> QED
  BY <1>1, StepIsParsers, PTL DEF Spec, ParserSpec

(* "Completion is defined as exactly one terminal result event; only SUCCESS is success"
   (src/protocol-parser.ts:8-9), whatever the stream and wherever it went wrong. *)
THEOREM VerdictIsDeserved == Spec => []VerdictByStream
<1>1. ParserInv => VerdictByStream
  BY VerdictFollows
<1> QED
  BY <1>1, ParserInvariant, StreamImplementsParser, PTL

(* "each step_index counted once, last usage wins" (src/protocol-parser.ts:10-11); the result's
   own wins over both (computeUsage). *)
THEOREM UsageIsCountedOnce == Spec => []UsageCountedOnce
<1>1. ParserInv => UsageCountedOnce
  BY UsageFollows
<1> QED
  BY <1>1, ParserInvariant, StreamImplementsParser, PTL

(* "Diagnostic record cap; overflow is counted, not stored" (src/protocol-types.ts:188): what
   the parser could not store or keep is accounted for, in its outcome too. *)
THEOREM DiagnosticsAreAccounted == Spec => []DiagnosticsAccounted
<1>1. ParserInv => DiagnosticsAccounted
  BY DiagnosticsFollow
<1> QED
  BY <1>1, ParserInvariant, StreamImplementsParser, PTL

-------------------------------------------------------------------------------
(* Texts unit by unit. *)
Agree(u, s, k) == \A i \in 1..k : u[i] = s[i]
WholePairs(u) ==
  /\ Len(u) # 0 => u[Len(u)] # "H" /\ u[1] # "L"
  /\ \A i \in 1..Len(u) - 1 : u[i] = "H" <=> u[i + 1] = "L"

LEMMA TextFacts ==
  ASSUME NEW u \in Texts
  PROVE  /\ Len(u) \in Nat /\ u \in Seq({"a", "H", "L"})
         /\ u = <<>> <=> Len(u) = 0
<1>1. u \in Seq({"a", "H", "L"})
  BY DEF Texts
<1> QED
  BY <1>1, LenProperties, EmptySeq

LEMMA WholePairsIs ==
  ASSUME NEW u \in Texts  PROVE SplitsNoPair(u) <=> WholePairs(u)
BY TextFacts DEF SplitsNoPair, WholePairs, Last

LEMMA Beginning ==
  ASSUME NEW u \in Texts, NEW k \in Nat, k <= Len(u)
  PROVE  /\ SubSeq(u, 1, k) \in Texts /\ Len(SubSeq(u, 1, k)) = k
         /\ \A i \in 1..k : SubSeq(u, 1, k)[i] = u[i]
<1>1. Len(u) \in Nat /\ u \in Seq({"a", "H", "L"})
  BY TextFacts
<1>2. \A i \in 1..k : u[i] \in {"a", "H", "L"}
  BY <1>1, ElementOfSeq
<1>3. /\ SubSeq(u, 1, k) \in Seq({"a", "H", "L"})
      /\ Len(SubSeq(u, 1, k)) = IF 1 <= k THEN k - 1 + 1 ELSE 0
      /\ \A i \in 1..k - 1 + 1 : SubSeq(u, 1, k)[i] = u[1 + i - 1]
  BY <1>2, SubSeqProperties
<1> QED
  BY <1>3 DEF Texts

LEMMA SameTexts ==
  ASSUME NEW u \in Texts, NEW s \in Texts, Len(u) = Len(s), Agree(u, s, Len(u))
  PROVE  u = s
BY TextFacts, SeqEqual DEF Agree

LEMMA PrefixIs ==
  ASSUME NEW u \in Texts, NEW s \in Texts
  PROVE  IsPrefix(u, s) <=> Len(u) <= Len(s) /\ Agree(u, s, Len(u))
<1>1. Len(u) \in Nat /\ Len(s) \in Nat
  BY TextFacts
<1> SUFFICES ASSUME Len(u) <= Len(s)
             PROVE  SubSeq(u, 1, Len(u)) = SubSeq(s, 1, Len(u)) <=> Agree(u, s, Len(u))
  BY <1>1 DEF IsPrefix
<1> DEFINE a == SubSeq(u, 1, Len(u))
           b == SubSeq(s, 1, Len(u))
<1>2. /\ a \in Texts /\ Len(a) = Len(u) /\ \A i \in 1..Len(u) : a[i] = u[i]
      /\ b \in Texts /\ Len(b) = Len(u) /\ \A i \in 1..Len(u) : b[i] = s[i]
  BY <1>1, Beginning
<1> HIDE DEF a, b
<1>3. a = b <=> Agree(a, b, Len(a))
  BY <1>2, SameTexts DEF Agree
<1>4. Agree(a, b, Len(a)) <=> Agree(u, s, Len(u))
  BY <1>2 DEF Agree
<1> QED
  BY <1>3, <1>4 DEF a, b

WithinUnits(u, s, cap) ==
  /\ WholePairs(u)
  /\ IF Len(s) <= cap THEN u = s
     ELSE \/ Len(u) = cap /\ Agree(u, s, cap)
          \/ s[cap] = "H" /\ Len(u) \in {cap - 1, cap} /\ Agree(u, s, cap - 1)

LEMMA WithinIs ==
  ASSUME NEW u \in Texts, NEW s \in Texts, NEW cap \in Nat \ {0}
  PROVE  Within(u, s, cap) <=> WithinUnits(u, s, cap)
<1>1. Len(u) \in Nat /\ Len(s) \in Nat /\ cap - 1 \in Nat
  BY TextFacts
<1>2. SplitsNoPair(u) <=> WholePairs(u)
  BY WholePairsIs
<1>3. ASSUME ~(Len(s) <= cap), Len(u) = cap  PROVE IsPrefix(u, s) <=> Agree(u, s, cap)
  BY <1>1, <1>3, PrefixIs
<1>4. ASSUME ~(Len(s) <= cap), Len(u) \in {cap - 1, cap}
      PROVE  IsPrefix(SubSeq(u, 1, cap - 1), s) <=> Agree(u, s, cap - 1)
  <2> DEFINE p == SubSeq(u, 1, cap - 1)
  <2>1. p \in Texts /\ Len(p) = cap - 1 /\ \A i \in 1..cap - 1 : p[i] = u[i]
    BY <1>1, <1>4, Beginning
  <2> HIDE DEF p
  <2>2. IsPrefix(p, s) <=> Agree(p, s, cap - 1)
    <3>1. cap - 1 <= Len(s)
      BY <1>1, <1>4
    <3> QED
      BY <2>1, <3>1, PrefixIs
  <2>3. Agree(p, s, cap - 1) <=> Agree(u, s, cap - 1)
    BY <2>1 DEF Agree
  <2> QED
    BY <2>2, <2>3 DEF p
<1> QED
  BY <1>1, <1>2, <1>3, <1>4 DEF Within, WithinUnits

LEMMA TruncateIs ==
  ASSUME NEW u \in Texts, NEW cap \in Nat, NEW t, t = TruncateUtf16(u, cap)
  PROVE  /\ t \in Texts /\ Agree(t, u, Len(t))
         /\ \/ Len(u) <= cap /\ t = u
            \/ Len(u) > cap /\ cap > 0 /\ u[cap] = "H" /\ u[cap + 1] = "L" /\ Len(t) = cap - 1
            \/ Len(u) > cap /\ ~(cap > 0 /\ u[cap] = "H" /\ u[cap + 1] = "L") /\ Len(t) = cap
<1>1. Len(u) \in Nat
  BY TextFacts
<1>2. CASE Len(u) <= cap
  BY <1>2 DEF TruncateUtf16, Agree
<1>3. CASE Len(u) > cap /\ cap > 0 /\ u[cap] = "H" /\ u[cap + 1] = "L"
  <2>1. t = SubSeq(u, 1, cap - 1) /\ cap - 1 \in Nat /\ cap - 1 <= Len(u)
    BY <1>1, <1>3 DEF TruncateUtf16
  <2> QED
    BY <1>3, <2>1, Beginning DEF Agree
<1>4. CASE Len(u) > cap /\ ~(cap > 0 /\ u[cap] = "H" /\ u[cap + 1] = "L")
  <2>1. t = SubSeq(u, 1, cap) /\ cap <= Len(u)
    BY <1>1, <1>4 DEF TruncateUtf16
  <2> QED
    BY <1>4, <2>1, Beginning DEF Agree
<1> QED
  BY <1>1, <1>2, <1>3, <1>4

(* A cap cuts no pair of a text that is whole, and whole texts make a whole text. *)
LEMMA TruncateWhole ==
  ASSUME NEW u \in Texts, WholePairs(u), NEW cap \in Nat
  PROVE  WholePairs(TruncateUtf16(u, cap))
<1> DEFINE t == TruncateUtf16(u, cap)
<1>1. /\ t \in Texts /\ Agree(t, u, Len(t))
      /\ \/ Len(u) <= cap /\ t = u
         \/ Len(u) > cap /\ cap > 0 /\ u[cap] = "H" /\ u[cap + 1] = "L" /\ Len(t) = cap - 1
         \/ Len(u) > cap /\ ~(cap > 0 /\ u[cap] = "H" /\ u[cap + 1] = "L") /\ Len(t) = cap
  BY TruncateIs
<1>2. Len(u) \in Nat /\ Len(t) \in Nat
  BY <1>1, TextFacts
<1> SUFFICES WholePairs(t)
  OBVIOUS
<1> HIDE DEF t
<1>3. CASE t = u
  BY <1>3
<1>4. CASE Len(t) < Len(u) /\ (Len(t) # 0 => u[Len(t)] # "H")
  <2>1. /\ \A i \in 1..Len(t) : t[i] = u[i]
        /\ \A i \in 1..Len(u) - 1 : u[i] = "H" <=> u[i + 1] = "L"
    BY <1>1 DEF Agree, WholePairs
  <2>2. \A i \in 1..Len(t) - 1 : i \in 1..Len(t) /\ i + 1 \in 1..Len(t) /\ i \in 1..Len(u) - 1
    BY <1>2, <1>4
  <2>3. Len(t) # 0 => t[Len(t)] # "H" /\ t[1] # "L"
    <3> SUFFICES ASSUME Len(t) # 0  PROVE t[Len(t)] # "H" /\ t[1] # "L"
      OBVIOUS
    <3>1. 1 \in 1..Len(t) /\ Len(t) \in 1..Len(t)
      BY <1>2
    <3>2. u[1] # "L"
      BY <1>2, <1>4 DEF WholePairs
    <3> QED
      BY <1>4, <2>1, <3>1, <3>2
  <2> QED
    BY <2>1, <2>2, <2>3 DEF WholePairs
<1>5. t = u \/ (Len(t) < Len(u) /\ (Len(t) # 0 => u[Len(t)] # "H"))
  <2>1. CASE Len(u) > cap /\ cap > 0 /\ u[cap] = "H" /\ u[cap + 1] = "L" /\ Len(t) = cap - 1
    <3>1. ASSUME Len(t) # 0  PROVE u[Len(t)] # "H"
      <4>1. cap - 1 \in 1..Len(u) - 1 /\ (cap - 1) + 1 = cap
        BY <1>2, <2>1, <3>1
      <4>2. u[cap - 1] = "H" <=> u[cap] = "L"
        BY <4>1 DEF WholePairs
      <4> QED
        BY <2>1, <4>2
    <3> QED
      BY <1>2, <2>1, <3>1
  <2>2. CASE Len(u) > cap /\ ~(cap > 0 /\ u[cap] = "H" /\ u[cap + 1] = "L") /\ Len(t) = cap
    <3>1. ASSUME Len(t) # 0  PROVE u[Len(t)] # "H"
      <4>1. cap \in 1..Len(u) - 1
        BY <1>2, <2>2, <3>1
      <4>2. u[cap] = "H" <=> u[cap + 1] = "L"
        BY <4>1 DEF WholePairs
      <4> QED
        BY <2>2, <3>1, <4>2
    <3> QED
      BY <1>2, <2>2, <3>1
  <2> QED
    BY <1>1, <2>1, <2>2
<1> QED
  BY <1>3, <1>4, <1>5

LEMMA ConcatUnits ==
  ASSUME NEW u \in Texts, NEW v \in Texts
  PROVE  /\ u \o v \in Texts /\ Len(u \o v) = Len(u) + Len(v)
         /\ \A i \in 1..Len(u) : (u \o v)[i] = u[i]
         /\ \A i \in 1..Len(v) : (u \o v)[Len(u) + i] = v[i]
<1>1. /\ u \in Seq({"a", "H", "L"}) /\ v \in Seq({"a", "H", "L"})
      /\ Len(u) \in Nat /\ Len(v) \in Nat
  BY TextFacts
<1>2. /\ u \o v \in Seq({"a", "H", "L"}) /\ Len(u \o v) = Len(u) + Len(v)
      /\ \A i \in 1..Len(u) + Len(v) :
           (u \o v)[i] = IF i <= Len(u) THEN u[i] ELSE v[i - Len(u)]
  BY <1>1, ConcatProperties
<1>3. ASSUME NEW i \in 1..Len(v)  PROVE (u \o v)[Len(u) + i] = v[i]
  <2>1. /\ Len(u) + i \in 1..Len(u) + Len(v) /\ ~(Len(u) + i <= Len(u))
        /\ (Len(u) + i) - Len(u) = i
    BY <1>1
  <2> QED
    BY <1>2, <2>1
<1> QED
  BY <1>1, <1>2, <1>3 DEF Texts

LEMMA ConcatWhole ==
  ASSUME NEW u \in Texts, NEW v \in Texts, WholePairs(u), WholePairs(v)
  PROVE  WholePairs(u \o v)
<1> DEFINE w == u \o v
           m == Len(u)
           n == Len(v)
<1>1. /\ m \in Nat /\ n \in Nat /\ w \in Texts /\ Len(w) = m + n
      /\ \A i \in 1..m : w[i] = u[i]
      /\ \A i \in 1..n : w[m + i] = v[i]
  BY TextFacts, ConcatUnits
<1>2. /\ m # 0 => u[m] # "H" /\ u[1] # "L"
      /\ \A i \in 1..m - 1 : u[i] = "H" <=> u[i + 1] = "L"
      /\ n # 0 => v[n] # "H" /\ v[1] # "L"
      /\ \A i \in 1..n - 1 : v[i] = "H" <=> v[i + 1] = "L"
  BY DEF WholePairs
<1> HIDE DEF w, m, n
<1>3. m + n # 0 => w[m + n] # "H" /\ w[1] # "L"
  <2>1. CASE m # 0 /\ n # 0
    <3>1. 1 \in 1..m /\ n \in 1..n
      BY <1>1, <2>1
    <3> QED
      BY <1>1, <1>2, <2>1, <3>1
  <2>2. CASE m = 0 /\ n # 0
    <3>1. 1 \in 1..n /\ n \in 1..n /\ m + 1 = 1
      BY <1>1, <2>2
    <3>2. w[m + 1] = v[1] /\ w[m + n] = v[n]
      BY <1>1, <3>1
    <3> QED
      BY <1>2, <2>2, <3>1, <3>2
  <2>3. CASE m # 0 /\ n = 0
    <3>1. 1 \in 1..m /\ m \in 1..m /\ m + n = m
      BY <1>1, <2>3
    <3> QED
      BY <1>1, <1>2, <2>3, <3>1
  <2> QED
    BY <1>1, <2>1, <2>2, <2>3
<1>4. ASSUME NEW i \in 1..(m + n) - 1
      PROVE  w[i] = "H" <=> w[i + 1] = "L"
  <2>1. CASE i \in 1..m - 1
    <3>1. i \in 1..m /\ i + 1 \in 1..m
      BY <1>1, <2>1
    <3> QED
      BY <1>1, <1>2, <2>1, <3>1
  <2>2. CASE i = m
    <3>1. m # 0 /\ n # 0 /\ i \in 1..m /\ 1 \in 1..n
      BY <1>1, <2>2
    <3>2. w[i] = u[m] /\ w[i + 1] = v[1]
      BY <1>1, <2>2, <3>1
    <3> QED
      BY <1>2, <3>1, <3>2
  <2>3. CASE i > m
    <3> DEFINE j == i - m
    <3>1. j \in 1..n - 1 /\ j \in 1..n /\ j + 1 \in 1..n /\ m + j = i /\ m + (j + 1) = i + 1
      BY <1>1, <2>3
    <3>2. w[m + j] = v[j] /\ w[m + (j + 1)] = v[j + 1]
      BY <1>1, <3>1
    <3> QED
      BY <1>2, <3>1, <3>2
  <2> QED
    BY <1>1, <2>1, <2>2, <2>3
<1> QED
  BY <1>1, <1>3, <1>4 DEF WholePairs, w, m, n

(* What a text of at most cap units takes of more that is said. *)
Taken(u, d, cap) == IF Len(u) >= cap THEN <<>> ELSE TruncateUtf16(d, cap - Len(u))

LEMMA TakenFacts ==
  ASSUME NEW u \in Texts, NEW d \in Texts, NEW cap \in Nat, Len(u) <= cap
  PROVE  /\ Taken(u, d, cap) \in Texts /\ Len(u \o Taken(u, d, cap)) <= cap
         /\ u \o Taken(u, d, cap) \in Texts
<1>1. Len(u) \in Nat /\ <<>> \in Texts /\ Len(<<>>) = 0
  BY TextFacts, EmptySeq DEF Texts
<1>2. CASE Len(u) >= cap
  BY <1>1, <1>2, ConcatUnits DEF Taken
<1>3. CASE ~(Len(u) >= cap)
  <2> DEFINE t == TruncateUtf16(d, cap - Len(u))
  <2>1. cap - Len(u) \in Nat
    BY <1>1, <1>3
  <2>2. t \in Texts /\ Len(t) \in Nat /\ Len(t) <= cap - Len(u)
    BY <2>1, TruncateFacts
  <2> HIDE DEF t
  <2>3. u \o t \in Texts /\ Len(u \o t) = Len(u) + Len(t)
    BY <2>2, ConcatUnits
  <2>4. Len(u \o t) <= cap
    BY <1>1, <2>2, <2>3
  <2> QED
    BY <1>3, <2>2, <2>3, <2>4 DEF Taken, t
<1> QED
  BY <1>2, <1>3

(* Taking of more what still fits keeps a text within its cap. *)
LEMMA WithinTaken ==
  ASSUME NEW u \in Texts, NEW s \in Texts, NEW d \in Texts, NEW cap \in Nat \ {0},
         WithinUnits(u, s, cap), WholePairs(d)
  PROVE  WithinUnits(u \o Taken(u, d, cap), s \o d, cap)
<1> DEFINE t == Taken(u, d, cap)
           v == u \o t
           r == s \o d
<1>1. /\ Len(u) \in Nat /\ Len(s) \in Nat /\ Len(d) \in Nat /\ cap - 1 \in Nat
      /\ <<>> \in Texts /\ Len(<<>>) = 0
  BY TextFacts, EmptySeq DEF Texts
<1>2. Len(u) <= cap
  BY <1>1 DEF WithinUnits
<1>3. /\ t \in Texts /\ v \in Texts /\ Len(v) <= cap /\ Len(t) \in Nat
      /\ Len(v) = Len(u) + Len(t)
      /\ \A i \in 1..Len(u) : v[i] = u[i]
      /\ \A i \in 1..Len(t) : v[Len(u) + i] = t[i]
  <2>1. t \in Texts /\ v \in Texts /\ Len(v) <= cap /\ Len(t) \in Nat
    BY <1>2, TakenFacts, TextFacts
  <2> HIDE DEF t
  <2> QED
    BY <2>1, ConcatUnits
<1>4. /\ r \in Texts /\ Len(r) = Len(s) + Len(d)
      /\ \A i \in 1..Len(s) : r[i] = s[i]
      /\ \A i \in 1..Len(d) : r[Len(s) + i] = d[i]
  BY ConcatUnits
<1>5. WholePairs(v)
  <2>1. WholePairs(<<>>)
    BY <1>1 DEF WholePairs
  <2>2. ~(Len(u) >= cap) => cap - Len(u) \in Nat
    BY <1>1
  <2>3. WholePairs(t)
    BY <2>1, <2>2, TruncateWhole DEF Taken
  <2> QED
    BY <1>3, <2>3, ConcatWhole DEF WithinUnits
<1>6. CASE Len(u) >= cap
  <2>1. t = <<>> /\ v = u
    BY <1>6, ConcatEmptySeq, TextFacts DEF Taken
  <2>2. Len(u) = cap
    BY <1>1, <1>2, <1>6
  <2>3. CASE Len(s) <= cap
    <3>1. u = s
      BY <2>3 DEF WithinUnits
    <3>2. CASE Len(d) = 0
      <4>1. d = <<>>
        BY <3>2, TextFacts
      <4>2. r = s
        BY <4>1, ConcatEmptySeq, TextFacts
      <4> QED
        BY <1>5, <2>1, <2>3, <3>1, <4>2 DEF WithinUnits
    <3>3. CASE Len(d) # 0
      <4>1. ~(Len(r) <= cap)
        BY <1>1, <1>4, <2>2, <3>1, <3>3
      <4>2. Agree(v, r, cap)
        BY <1>4, <2>1, <2>2, <3>1 DEF Agree
      <4> QED
        BY <1>5, <2>1, <2>2, <4>1, <4>2 DEF WithinUnits
    <3> QED
      BY <3>2, <3>3
  <2>4. CASE ~(Len(s) <= cap)
    <3>1. /\ ~(Len(r) <= cap) /\ cap \in 1..Len(s)
          /\ \A i \in 1..cap : i \in 1..Len(s)
          /\ \A i \in 1..cap - 1 : i \in 1..Len(s)
      BY <1>1, <1>4, <2>4
    <3>2. /\ r[cap] = s[cap]
          /\ Agree(u, s, cap) => Agree(u, r, cap)
          /\ Agree(u, s, cap - 1) => Agree(u, r, cap - 1)
      BY <1>4, <3>1 DEF Agree
    <3> QED
      BY <1>5, <2>1, <2>4, <3>1, <3>2 DEF WithinUnits
  <2> QED
    BY <2>3, <2>4
<1>7. CASE ~(Len(u) >= cap) /\ ~(Len(s) <= cap)
  <2>1. s[cap] = "H" /\ Len(u) = cap - 1 /\ Agree(u, s, cap - 1)
    BY <1>1, <1>7 DEF WithinUnits
  <2>2. /\ ~(Len(r) <= cap) /\ cap \in 1..Len(s)
        /\ \A i \in 1..cap - 1 : i \in 1..Len(s) /\ i \in 1..Len(u)
    BY <1>1, <1>4, <1>7, <2>1
  <2>3. r[cap] = "H" /\ Agree(v, r, cap - 1)
    BY <1>3, <1>4, <2>1, <2>2 DEF Agree
  <2>4. Len(v) \in {cap - 1, cap}
    BY <1>1, <1>3, <2>1
  <2> QED
    BY <1>5, <2>2, <2>3, <2>4 DEF WithinUnits
<1>8. CASE ~(Len(u) >= cap) /\ Len(s) <= cap
  <2> DEFINE room == cap - Len(u)
  <2>1. u = s /\ room \in Nat /\ room > 0 /\ t = TruncateUtf16(d, room)
    BY <1>1, <1>8 DEF WithinUnits, Taken
  <2>2. /\ Agree(t, d, Len(t))
        /\ \/ Len(d) <= room /\ t = d
           \/ Len(d) > room /\ room > 0 /\ d[room] = "H" /\ d[room + 1] = "L" /\ Len(t) = room - 1
           \/ Len(d) > room /\ ~(room > 0 /\ d[room] = "H" /\ d[room + 1] = "L") /\ Len(t) = room
    <3>1. d \in Texts /\ room \in Nat /\ t = TruncateUtf16(d, room)
      BY <2>1
    <3> HIDE DEF room, t
    <3> QED
      BY <3>1, TruncateIs
  <2>3. CASE Len(d) <= room /\ t = d
    <3>1. v = r /\ Len(r) <= cap
      BY <1>1, <1>4, <2>1, <2>3
    <3> QED
      BY <1>5, <3>1 DEF WithinUnits
  <2>4. CASE Len(d) > room /\ Len(t) \in {room - 1, room}
    <3>1. ~(Len(r) <= cap)
      BY <1>1, <1>4, <2>1, <2>4
    <3>2. ASSUME NEW i \in 1..Len(v)  PROVE v[i] = r[i]
      <4>1. CASE i <= Len(u)
        BY <1>1, <1>3, <1>4, <2>1, <4>1
      <4>2. CASE ~(i <= Len(u))
        <5> DEFINE j == i - Len(u)
        <5>1. j \in 1..Len(t) /\ j \in 1..Len(d) /\ Len(u) + j = i /\ Len(s) + j = i
          BY <1>1, <1>3, <2>1, <2>4, <4>2
        <5>2. v[Len(u) + j] = t[j] /\ r[Len(s) + j] = d[j] /\ t[j] = d[j]
          BY <1>3, <1>4, <2>2, <5>1 DEF Agree
        <5> QED
          BY <5>1, <5>2
      <4> QED
        BY <4>1, <4>2
    <3>3. CASE Len(t) = room
      <4>1. Len(v) = cap
        BY <1>1, <1>3, <3>3
      <4>2. Agree(v, r, cap)
        BY <3>2, <4>1 DEF Agree
      <4> QED
        BY <1>5, <3>1, <4>1, <4>2 DEF WithinUnits
    <3>4. CASE Len(t) # room
      <4>1. d[room] = "H" /\ Len(t) = room - 1
        BY <2>1, <2>2, <2>4, <3>4
      <4>2. Len(v) = cap - 1 /\ room \in 1..Len(d) /\ Len(s) + room = cap
        BY <1>1, <1>3, <2>1, <2>4, <4>1
      <4>3. r[cap] = "H"
        BY <1>4, <4>1, <4>2
      <4>4. Agree(v, r, cap - 1)
        BY <3>2, <4>2 DEF Agree
      <4> QED
        BY <1>5, <3>1, <4>2, <4>3, <4>4 DEF WithinUnits
    <3> QED
      BY <3>3, <3>4
  <2> QED
    BY <1>1, <2>1, <2>2, <2>3, <2>4
<1> QED
  BY <1>6, <1>7, <1>8

LEMMA WithinEmpty ==
  ASSUME NEW cap \in Nat \ {0}  PROVE WithinUnits(<<>>, <<>>, cap)
<1>1. Len(<<>>) = 0
  BY EmptySeq
<1> QED
  BY <1>1 DEF WithinUnits, WholePairs

(* What a cap leaves of a text is within the cap. *)
LEMMA WithinTruncated ==
  ASSUME NEW u \in Texts, WholePairs(u), NEW cap \in Nat \ {0}
  PROVE  WithinUnits(TruncateUtf16(u, cap), u, cap)
<1>1. /\ <<>> \in Texts /\ <<>> \in Seq({"a", "H", "L"}) /\ Len(<<>>) = 0
      /\ TruncateUtf16(u, cap) \in Texts /\ ~(0 >= cap) /\ cap - 0 = cap
  BY EmptySeq, TruncateFacts DEF Texts
<1>2. Taken(<<>>, u, cap) = TruncateUtf16(u, cap)
  BY <1>1 DEF Taken
<1>3. <<>> \o TruncateUtf16(u, cap) = TruncateUtf16(u, cap) /\ <<>> \o u = u
  BY <1>1, ConcatEmptySeq, TextFacts
<1> QED
  BY <1>1, <1>2, <1>3, WithinEmpty, WithinTaken

-------------------------------------------------------------------------------
(* The text of a sequence of frames. *)
Shown(fs) == FlattenSeq([i \in DOMAIN fs |-> IF fs[i].kind = "text" THEN fs[i].units ELSE <<>>])

LEMMA ShownEmpty == Shown(<<>>) = <<>>
<1>1. DOMAIN <<>> = {}
  BY EmptySeq, LenProperties
<1>2. [i \in DOMAIN <<>> |-> IF <<>>[i].kind = "text" THEN <<>>[i].units ELSE <<>>] = <<>>
  BY <1>1
<1> QED
  BY <1>2, FlattenEmpty DEF Shown

LEMMA ShownMore ==
  ASSUME NEW F, \A f \in F : f.kind = "text" => f.units \in Texts,
         NEW fs \in Seq(F), NEW x \in F
  PROVE  /\ fs \o <<x>> \in Seq(F) /\ Len(fs \o <<x>>) = Len(fs) + 1 /\ Len(fs) \in Nat
         /\ \A i \in 1..Len(fs) : (fs \o <<x>>)[i] = fs[i]
         /\ (fs \o <<x>>)[Len(fs) + 1] = x
         /\ Shown(fs \o <<x>>) = Shown(fs) \o (IF x.kind = "text" THEN x.units ELSE <<>>)
<1> DEFINE U(f) == IF f.kind = "text" THEN f.units ELSE <<>>
           gs == Append(fs, x)
           s == [i \in DOMAIN fs |-> U(fs[i])]
           t == [i \in DOMAIN gs |-> U(gs[i])]
           S == {"a", "H", "L"}
<1>1. /\ gs = fs \o <<x>> /\ gs \in Seq(F) /\ Len(gs) = Len(fs) + 1 /\ Len(fs) \in Nat
      /\ \A i \in 1..Len(fs) : gs[i] = fs[i]
      /\ gs[Len(fs) + 1] = x
      /\ DOMAIN fs = 1..Len(fs) /\ DOMAIN gs = 1..Len(fs) + 1
  BY AppendIsConcat, AppendProperties, LenProperties
<1>2. \A f \in F : U(f) \in Seq(S)
  BY EmptySeq DEF Texts
<1>3. \A i \in 1..Len(fs) : fs[i] \in F
  BY <1>1, ElementOfSeq
<1> HIDE DEF U, gs
<1>4. s \in Seq(Seq(S)) /\ Len(s) = Len(fs) /\ \A i \in 1..Len(fs) : s[i] = U(fs[i])
  BY <1>1, <1>2, <1>3
<1>5. /\ Append(s, U(x)) \in Seq(Seq(S)) /\ Len(Append(s, U(x))) = Len(fs) + 1
      /\ \A i \in 1..Len(fs) : Append(s, U(x))[i] = s[i]
      /\ Append(s, U(x))[Len(fs) + 1] = U(x)
  BY <1>2, <1>4, AppendProperties
<1>6. t \in Seq(Seq(S)) /\ Len(t) = Len(fs) + 1 /\ \A i \in 1..Len(fs) + 1 : t[i] = U(gs[i])
  <2>1. \A i \in 1..Len(fs) + 1 : gs[i] \in F
    BY <1>1, ElementOfSeq
  <2> QED
    BY <1>1, <1>2, <2>1
<1>7. t = Append(s, U(x))
  <2>1. \A i \in 1..Len(fs) + 1 : i \in 1..Len(fs) \/ i = Len(fs) + 1
    BY <1>1
  <2>2. ASSUME NEW i \in 1..Len(t)  PROVE t[i] = Append(s, U(x))[i]
    <3> HIDE DEF s, t
    <3>1. CASE i \in 1..Len(fs)
      BY <1>1, <1>4, <1>5, <1>6, <3>1
    <3>2. CASE i = Len(fs) + 1
      BY <1>1, <1>5, <1>6, <3>2
    <3> QED
      BY <1>6, <2>1, <2>2, <3>1, <3>2
  <2> HIDE DEF s, t
  <2> QED
    BY <1>5, <1>6, <2>2, SeqEqual
<1>8. FlattenSeq(t) = FlattenSeq(s) \o U(x)
  <2> HIDE DEF s, t
  <2> QED
    BY <1>2, <1>4, <1>7, FlattenAppend
<1>9. Shown(gs) = FlattenSeq(t) /\ Shown(fs) = FlattenSeq(s)
  BY DEF Shown, U
<1> QED
  BY <1>1, <1>8, <1>9 DEF U

-------------------------------------------------------------------------------
(* What is said until the first call that the host is asked for. *)
SaidAt == {i \in ReadAt : \A k \in BridgesAt : i <= k}

LEMMA BridgesAfterLine ==
  ASSUME ParserInv, NEW e \in Events, ReadLine(e), chat' = chat
  PROVE  /\ BridgesAt \subseteq DOMAIN lines
         /\ BridgesAt' = IF failure = "none" /\ e.event = "step_update" /\ Calls(e) # <<>>
                         THEN BridgesAt \cup {Len(lines) + 1} ELSE BridgesAt
<1> DEFINE n == Len(lines)
<1>1. lines \in Seq(Events) /\ lines' = Append(lines, e)
  BY DEF ParserInv, ParserTypes, ReadLine
<1>2. /\ \A i \in 1..n : lines'[i] = lines[i]
      /\ lines'[n + 1] = e /\ DOMAIN lines = 1..n /\ n + 1 \notin DOMAIN lines
  BY <1>1, OneMoreLine
<1>3. ReadAt' = IF FatalAt = {} THEN ReadAt \cup {n + 1} ELSE ReadAt
  BY <1>1, MarksAfterLine
<1>4. ReadAt \subseteq DOMAIN lines
  BY <1>1, MarksAfterLine
<1>5. failure = "none" <=> FatalAt = {}
  BY DEF ParserInv, ResultsInv
<1>6. Calls(e) # <<>> <=> chat.stream /\ chat.streamSteps /\ Bridged(e.tool)
  <2> DEFINE f == ToolFrame(e.step, TranslateToolCall(e.tool, Argument(e.tool), chat.mounts))
  <2>1. <<f>> # <<>>
    <3> HIDE DEF f
    <3> QED
      OBVIOUS
  <2> QED
    BY <2>1 DEF Calls
<1>7. \A i \in ReadAt' : i \in BridgesAt' <=>
        /\ chat.stream /\ chat.streamSteps
        /\ lines'[i].event = "step_update" /\ Bridged(lines'[i].tool)
  BY DEF BridgesAt
<1>8. BridgesAt' \subseteq ReadAt' /\ BridgesAt \subseteq ReadAt
  BY DEF BridgesAt
<1>9. \A i \in ReadAt : i \in BridgesAt' <=> i \in BridgesAt
  BY <1>2, <1>3, <1>4, <1>7 DEF BridgesAt
<1>10. n + 1 \in BridgesAt' <=> failure = "none" /\ e.event = "step_update" /\ Calls(e) # <<>>
  <2>1. n + 1 \in ReadAt' <=> failure = "none"
    BY <1>2, <1>3, <1>4, <1>5
  <2> QED
    BY <1>2, <1>6, <1>7, <1>8, <2>1
<1> HIDE DEF n
<1> QED
  BY <1>3, <1>4, <1>8, <1>9, <1>10 DEF n

LEMMA SaidAfterLine ==
  ASSUME ParserInv, NEW e \in Events, ReadLine(e), chat' = chat
  PROVE  /\ DeltasIn(lines', ReadAt') =
              DeltasIn(lines, ReadAt)
                \o (IF failure = "none" /\ e.event = "step_update" THEN e.delta ELSE <<>>)
         /\ DeltasIn(lines', SaidAt') =
              DeltasIn(lines, SaidAt)
                \o (IF failure = "none" /\ e.event = "step_update" /\ BridgesAt = {}
                    THEN e.delta ELSE <<>>)
<1> DEFINE n == Len(lines)
<1>1. lines \in Seq(Events) /\ lines' = Append(lines, e)
  BY DEF ParserInv, ParserTypes, ReadLine
<1>2. /\ DOMAIN lines = 1..n /\ n + 1 \notin DOMAIN lines /\ n \in Nat
      /\ \A i \in DOMAIN lines : i < n + 1
  BY <1>1, OneMoreLine
<1>3. /\ ReadAt \subseteq DOMAIN lines
      /\ ReadAt' = IF failure = "none" THEN ReadAt \cup {n + 1} ELSE ReadAt
  <2>1. failure = "none" <=> FatalAt = {}
    BY DEF ParserInv, ResultsInv
  <2> QED
    BY <1>1, <2>1, MarksAfterLine
<1>4. /\ BridgesAt \subseteq DOMAIN lines /\ BridgesAt \subseteq BridgesAt'
      /\ BridgesAt' \subseteq BridgesAt \cup {n + 1}
  BY BridgesAfterLine
<1> HIDE DEF n
<1>5. \A i \in DOMAIN lines : i <= n + 1 /\ ~(n + 1 <= i)
  BY <1>2
<1>6. \A i \in DOMAIN lines : (i \in ReadAt' <=> i \in ReadAt) /\ (i \in SaidAt' <=> i \in SaidAt)
  <2>1. \A i \in DOMAIN lines : i \in ReadAt' <=> i \in ReadAt
    BY <1>2, <1>3
  <2>2. ASSUME NEW i \in DOMAIN lines
        PROVE  (\A k \in BridgesAt' : i <= k) <=> (\A k \in BridgesAt : i <= k)
    BY <1>4, <1>5
  <2>3. \A i : i \in SaidAt' <=> i \in ReadAt' /\ \A k \in BridgesAt' : i <= k
    BY DEF SaidAt
  <2> QED
    BY <2>1, <2>2, <2>3 DEF SaidAt
<1>7. n + 1 \in ReadAt' <=> failure = "none"
  BY <1>2, <1>3
<1>8. n + 1 \in SaidAt' <=> failure = "none" /\ BridgesAt = {}
  <2>1. n + 1 \in SaidAt' <=> n + 1 \in ReadAt' /\ \A k \in BridgesAt' : n + 1 <= k
    BY DEF SaidAt
  <2>2. (\A k \in BridgesAt' : n + 1 <= k) <=> BridgesAt = {}
    <3>1. n + 1 <= n + 1
      BY <1>2
    <3> QED
      BY <1>4, <1>5, <3>1
  <2> QED
    BY <1>7, <2>1, <2>2
<1>9. /\ DeltasIn(lines, ReadAt') = DeltasIn(lines, ReadAt)
      /\ DeltasIn(lines, SaidAt') = DeltasIn(lines, SaidAt)
  BY <1>6, DeltasOfSame
<1>10. ASSUME NEW at
       PROVE  DeltasIn(lines', at) =
                DeltasIn(lines, at)
                  \o (IF n + 1 \in at /\ e.event = "step_update" THEN e.delta ELSE <<>>)
  BY <1>1, DeltasOfMore DEF n
<1> QED
  BY <1>7, <1>8, <1>9, <1>10

-------------------------------------------------------------------------------
Frames ==
  {TextFrame(u) : u \in Texts} \cup
  {ToolFrame(e.step, TranslateToolCall(e.tool, Argument(e.tool), chat.mounts)) :
     e \in {x \in Events : Bridged(x.tool)}}

StreamTypes ==
  /\ chat \in Chats
  /\ accumulated \in Texts
  /\ chat.capChars # NoCap => Len(accumulated) <= chat.capChars
  /\ frames \in Seq(Frames)

(* Whether a call was bridged is seen in the lines and in the frames. *)
CallsInv ==
  /\ bridgedToolCallEmitted <=> BridgesAt # {}
  /\ bridgedToolCallEmitted <=> \E i \in DOMAIN frames : frames[i].kind = "tool"

(* The gathered text is what is said within the cap, and a stream has shown it all. *)
TextsInv ==
  /\ WithinUnits(text, DeltasIn(lines, ReadAt), MaxOutputChars)
  /\ IF chat.capChars = NoCap THEN accumulated = DeltasIn(lines, SaidAt)
     ELSE WithinUnits(accumulated, DeltasIn(lines, SaidAt), chat.capChars)
  /\ IF chat.stream THEN Shown(frames) = accumulated ELSE frames = <<>>

RepliesInv ==
  /\ Finished => outcome.text = FinalText
  /\ reply # NoReply => Finished /\ reply = Cut(outcome.text)

StreamInv == StreamTypes /\ CallsInv /\ TextsInv /\ RepliesInv

LEMMA FrameKinds ==
  /\ \A f \in Frames : f.kind = "text" => f.units \in Texts
  /\ \A u \in Texts : TextFrame(u) \in Frames /\ TextFrame(u).kind = "text" /\ TextFrame(u).units = u
  /\ \A e \in Events :
       LET f == ToolFrame(e.step, TranslateToolCall(e.tool, Argument(e.tool), chat.mounts))
       IN Bridged(e.tool) => f \in Frames /\ f.kind = "tool"
BY DEF Frames, TextFrame, ToolFrame

LEMMA ChatFacts ==
  ASSUME chat \in Chats
  PROVE  /\ chat.stream \in BOOLEAN /\ chat.streamSteps \in BOOLEAN /\ chat.capChars \in Nat
         /\ chat.capChars # NoCap => chat.capChars \in Nat \ {0}
BY ChatsAssumption DEF ChatKinds, NoCap

LEMMA EventTexts ==
  ASSUME NEW e \in Events
  PROVE  /\ e.event = "step_update" => e.delta \in Texts /\ WholePairs(e.delta)
         /\ e.event = "result" => e.response \in Texts /\ WholePairs(e.response)
BY EventTypes, WholePairsIs, WholeTextsAssumption

(* appendDelta takes what fits. *)
LEMMA AppendsTaken ==
  ASSUME ParserTypes, NEW d \in Texts, AppendDelta(d)
  PROVE  text' = text \o Taken(text, d, MaxOutputChars)
<1>1. MaxOutputChars \in Nat
  BY CapsAssumption
<1>2. /\ text \in Texts /\ text \o <<>> = text
      /\ Len(text) \in Nat
  BY ConcatEmptySeq, TextFacts DEF ParserTypes
<1>3. CASE Len(text) >= MaxOutputChars
  BY <1>2, <1>3 DEF AppendDelta, Taken
<1>4. CASE ~(Len(text) >= MaxOutputChars) /\ d = <<>>
  <2>1. Len(d) = 0 /\ 0 <= MaxOutputChars - Len(text)
    BY <1>1, <1>2, <1>4, TextFacts
  <2>2. TruncateUtf16(d, MaxOutputChars - Len(text)) = <<>>
    BY <1>4, <2>1 DEF TruncateUtf16
  <2> QED
    BY <1>2, <1>4, <2>2 DEF AppendDelta, Taken
<1>5. CASE ~(Len(text) >= MaxOutputChars) /\ d # <<>>
  BY <1>5 DEF AppendDelta, Taken
<1> QED
  BY <1>3, <1>4, <1>5

(* What onProgress and onToolInfo write of a step that is read. *)
LEMMA RelayedText ==
  ASSUME StreamTypes, CallsInv, TextsInv, ParserInv, NEW e \in Events, ReadAndRelay(e),
         failure = "none", e.event = "step_update"
  PROVE  /\ Relayed(e) \in Texts /\ accumulated' = accumulated \o Relayed(e)
         /\ accumulated' \in Texts
         /\ chat.capChars # NoCap => Len(accumulated') <= chat.capChars
         /\ IF chat.capChars = NoCap THEN accumulated' = DeltasIn(lines', SaidAt')
            ELSE WithinUnits(accumulated', DeltasIn(lines', SaidAt'), chat.capChars)
<1> DEFINE d == e.delta
           cap == chat.capChars
           said == DeltasIn(lines, SaidAt)
<1>1. /\ d \in Texts /\ WholePairs(d) /\ accumulated \in Texts /\ said \in Texts
      /\ <<>> \in Texts /\ accumulated \o <<>> = accumulated
  <2>1. lines \in Seq(Events) /\ accumulated \in Texts
    BY DEF ParserInv, ParserTypes, StreamTypes
  <2> QED
    BY <2>1, EventTexts, DeltasAreTexts, EmptySeq, ConcatEmptySeq, TextFacts DEF Texts
<1>2. RelayStep(e) /\ ReadLine(e) /\ chat' = chat
  BY DEF ReadAndRelay
<1>3. accumulated' = accumulated \o Relayed(e)
  BY <1>2 DEF RelayStep
<1>4. DeltasIn(lines', SaidAt') = said \o (IF BridgesAt = {} THEN d ELSE <<>>)
  BY <1>2, SaidAfterLine
<1>5. cap # NoCap => cap \in Nat \ {0} /\ Len(accumulated) <= cap
  BY ChatFacts DEF StreamTypes
<1>6. IF cap = NoCap THEN accumulated = said ELSE WithinUnits(accumulated, said, cap)
  BY DEF TextsInv
<1> HIDE DEF said
<1>7. CASE bridgedToolCallEmitted
  <2>1. Relayed(e) = <<>> /\ accumulated' = accumulated
    BY <1>1, <1>3, <1>7 DEF Relayed
  <2>2. DeltasIn(lines', SaidAt') = said
    <3>1. BridgesAt # {}
      BY <1>7 DEF CallsInv
    <3>2. said \o <<>> = said
      BY <1>1, ConcatEmptySeq, TextFacts
    <3> QED
      BY <1>4, <3>1, <3>2
  <2> QED
    BY <1>1, <1>5, <1>6, <2>1, <2>2
<1>8. CASE ~bridgedToolCallEmitted /\ cap = NoCap
  <2>1. Relayed(e) = d
    BY <1>8 DEF Relayed, BoundedDelta
  <2>2. DeltasIn(lines', SaidAt') = said \o d
    BY <1>4, <1>8 DEF CallsInv
  <2>3. accumulated' \in Texts
    BY <1>1, <1>3, <2>1, ConcatUnits
  <2> QED
    BY <1>1, <1>3, <1>6, <1>8, <2>1, <2>2, <2>3
<1>9. CASE ~bridgedToolCallEmitted /\ cap # NoCap
  <2>1. Relayed(e) = Taken(accumulated, d, cap)
    BY <1>9 DEF Relayed, BoundedDelta, Taken
  <2>2. DeltasIn(lines', SaidAt') = said \o d
    BY <1>4, <1>9 DEF CallsInv
  <2>3. /\ Taken(accumulated, d, cap) \in Texts
        /\ accumulated \o Taken(accumulated, d, cap) \in Texts
        /\ Len(accumulated \o Taken(accumulated, d, cap)) <= cap
    BY <1>1, <1>5, <1>9, TakenFacts
  <2>4. WithinUnits(accumulated \o Taken(accumulated, d, cap), said \o d, cap)
    BY <1>1, <1>5, <1>6, <1>9, WithinTaken
  <2> QED
    BY <1>3, <1>9, <2>1, <2>2, <2>3, <2>4
<1> QED
  BY <1>7, <1>8, <1>9

LEMMA FramesMore ==
  ASSUME NEW fs \in Seq(Frames), NEW x \in Frames
  PROVE  /\ fs \o <<x>> \in Seq(Frames) /\ Len(fs \o <<x>>) = Len(fs) + 1 /\ Len(fs) \in Nat
         /\ \A i \in 1..Len(fs) : (fs \o <<x>>)[i] = fs[i]
         /\ (fs \o <<x>>)[Len(fs) + 1] = x
         /\ Shown(fs \o <<x>>) = Shown(fs) \o (IF x.kind = "text" THEN x.units ELSE <<>>)
<1>1. \A f \in Frames : f.kind = "text" => f.units \in Texts
  BY FrameKinds
<1> QED
  BY <1>1, ShownMore

LEMMA TextShown ==
  ASSUME NEW fs \in Seq(Frames), NEW u \in Texts
  PROVE  LET gs == fs \o <<TextFrame(u)>>
         IN  /\ gs \in Seq(Frames) /\ Len(gs) = Len(fs) + 1 /\ Len(fs) \in Nat
             /\ \A i \in 1..Len(fs) : gs[i] = fs[i]
             /\ gs[Len(fs) + 1] = TextFrame(u)
             /\ Shown(gs) = Shown(fs) \o u
<1> DEFINE h == TextFrame(u)
           gs == fs \o <<h>>
<1>1. h \in Frames /\ h.kind = "text" /\ h.units = u
  BY FrameKinds
<1> HIDE DEF h
<1>2. /\ gs \in Seq(Frames) /\ Len(gs) = Len(fs) + 1 /\ Len(fs) \in Nat
      /\ \A i \in 1..Len(fs) : gs[i] = fs[i]
      /\ gs[Len(fs) + 1] = h
      /\ Shown(gs) = Shown(fs) \o (IF h.kind = "text" THEN h.units ELSE <<>>)
  BY <1>1, FramesMore
<1> HIDE DEF gs
<1>3. Shown(gs) = Shown(fs) \o u
  BY <1>1, <1>2
<1> QED
  BY <1>2, <1>3 DEF gs, h

LEMMA RelayedFrames ==
  ASSUME StreamTypes, CallsInv, TextsInv, ParserInv, NEW e \in Events, ReadAndRelay(e),
         failure = "none", e.event = "step_update"
  PROVE  /\ frames' \in Seq(Frames)
         /\ IF chat.stream THEN Shown(frames') = accumulated' ELSE frames' = <<>>
         /\ (\E i \in DOMAIN frames' : frames'[i].kind = "tool") <=>
              (\E i \in DOMAIN frames : frames[i].kind = "tool") \/ Calls(e) # <<>>
<1> DEFINE r == Relayed(e)
           A == IF chat.stream /\ r # <<>> THEN <<TextFrame(r)>> ELSE <<>>
           g == frames \o A
           f == ToolFrame(e.step, TranslateToolCall(e.tool, Argument(e.tool), chat.mounts))
           Tool(fs) == \E i \in DOMAIN fs : fs[i].kind = "tool"
<1>1. r \in Texts /\ accumulated' = accumulated \o r /\ accumulated \in Texts
  BY RelayedText DEF StreamTypes
<1>2. frames' = g \o Calls(e)
  BY DEF ReadAndRelay, RelayStep
<1>3. frames \in Seq(Frames) /\ chat.stream \in BOOLEAN
  BY ChatFacts DEF StreamTypes
<1> HIDE DEF r
<1>4. /\ g \in Seq(Frames) /\ (Tool(g) <=> Tool(frames))
      /\ IF chat.stream THEN Shown(g) = accumulated' ELSE g = <<>>
  <2>1. CASE A = <<>>
    <3>1. g = frames
      BY <1>3, <2>1, ConcatEmptySeq
    <3>2. chat.stream => accumulated' = accumulated
      <4>1. chat.stream => r = <<>>
        <5>1. <<TextFrame(r)>> # <<>>
          BY EmptySeq
        <5> QED
          BY <2>1, <5>1
      <4> QED
        BY <1>1, <4>1, ConcatEmptySeq, TextFacts
    <3> QED
      BY <1>3, <3>1, <3>2 DEF TextsInv
  <2>2. CASE chat.stream /\ A = <<TextFrame(r)>>
    <3>1. /\ TextFrame(r) \in Frames /\ TextFrame(r).kind = "text" /\ TextFrame(r).units = r
          /\ \A x \in Frames : x.kind = "text" => x.units \in Texts
      BY <1>1, FrameKinds
    <3>2. /\ g \in Seq(Frames) /\ Len(g) = Len(frames) + 1 /\ Len(frames) \in Nat
          /\ \A i \in 1..Len(frames) : g[i] = frames[i]
          /\ g[Len(frames) + 1] = TextFrame(r)
          /\ Shown(g) = Shown(frames) \o r
      <4>1. g = frames \o <<TextFrame(r)>>
        BY <2>2
      <4> HIDE DEF g
      <4> QED
        BY <1>1, <1>3, <3>1, <4>1, TextShown
    <3>3. DOMAIN g = 1..Len(frames) + 1 /\ DOMAIN frames = 1..Len(frames)
      BY <1>3, <3>2, LenProperties
    <3> HIDE DEF g, A
    <3>4. Tool(g) <=> Tool(frames)
      <4>1. \A i \in 1..Len(frames) + 1 : i \in 1..Len(frames) \/ i = Len(frames) + 1
        BY <3>2
      <4>2. \A i \in 1..Len(frames) : i \in 1..Len(frames) + 1
        BY <3>2
      <4> QED
        BY <3>1, <3>2, <3>3, <4>1, <4>2
    <3> QED
      BY <1>1, <2>2, <3>2, <3>4 DEF TextsInv
  <2> QED
    BY <1>3, <2>1, <2>2
<1> HIDE DEF g
<1>5. CASE Calls(e) = <<>>
  <2>1. frames' = g
    BY <1>2, <1>4, <1>5, ConcatEmptySeq
  <2> QED
    BY <1>4, <1>5, <2>1
<1>6. CASE Calls(e) # <<>>
  <2>1. Calls(e) = <<f>> /\ chat.stream /\ Bridged(e.tool)
    BY <1>6 DEF Calls
  <2>2. /\ f \in Frames /\ f.kind = "tool"
        /\ \A x \in Frames : x.kind = "text" => x.units \in Texts
    BY <2>1, FrameKinds
  <2> HIDE DEF f
  <2>3. /\ frames' \in Seq(Frames) /\ Len(frames') = Len(g) + 1 /\ Len(g) \in Nat
        /\ frames'[Len(g) + 1] = f
        /\ Shown(frames') = Shown(g) \o (IF f.kind = "text" THEN f.units ELSE <<>>)
    <3>1. g \in Seq(Frames) /\ frames' = g \o <<f>>
      BY <1>2, <1>4, <2>1
    <3>2. /\ g \o <<f>> \in Seq(Frames) /\ Len(g \o <<f>>) = Len(g) + 1 /\ Len(g) \in Nat
          /\ (g \o <<f>>)[Len(g) + 1] = f
          /\ Shown(g \o <<f>>) = Shown(g) \o (IF f.kind = "text" THEN f.units ELSE <<>>)
      BY <2>2, <3>1, FramesMore
    <3> QED
      BY <3>1, <3>2, Zenon
  <2>4. Shown(frames') = accumulated'
    <3>1. accumulated' \in Texts
      BY RelayedText
    <3>2. accumulated' \o <<>> = accumulated'
      BY <3>1, ConcatEmptySeq, TextFacts
    <3> QED
      BY <1>4, <2>1, <2>2, <2>3, <3>2
  <2>5. Len(g) + 1 \in DOMAIN frames'
    BY <2>3, LenProperties
  <2> QED
    BY <1>6, <2>1, <2>2, <2>3, <2>4, <2>5
<1> QED
  BY <1>5, <1>6

LEMMA RelayStepKeeps ==
  ASSUME ParserInv, StreamInv, NEW e \in Events, ReadAndRelay(e)
  PROVE  StreamInv'
<1>1. /\ ReadLine(e) /\ chat' = chat /\ reply' = reply
      /\ outcome = NoOutcome /\ outcome' = NoOutcome
  BY DEF ReadAndRelay, ReadLine
<1>2. StreamTypes /\ CallsInv /\ TextsInv /\ ParserTypes /\ Frames' = Frames
  BY <1>1 DEF StreamInv, ParserInv, Frames, Argument, Prompt
<1>3. RepliesInv'
  BY <1>1 DEF StreamInv, RepliesInv, Finished
<1>4. /\ DeltasIn(lines', ReadAt') =
           DeltasIn(lines, ReadAt)
             \o (IF failure = "none" /\ e.event = "step_update" THEN e.delta ELSE <<>>)
      /\ DeltasIn(lines', SaidAt') =
           DeltasIn(lines, SaidAt)
             \o (IF failure = "none" /\ e.event = "step_update" /\ BridgesAt = {}
                 THEN e.delta ELSE <<>>)
  BY <1>1, SaidAfterLine
<1>5. /\ DeltasIn(lines, ReadAt) \in Texts /\ DeltasIn(lines, SaidAt) \in Texts
      /\ DeltasIn(lines, ReadAt) \o <<>> = DeltasIn(lines, ReadAt)
      /\ DeltasIn(lines, SaidAt) \o <<>> = DeltasIn(lines, SaidAt)
  <2>1. DeltasIn(lines, ReadAt) \in Texts /\ DeltasIn(lines, SaidAt) \in Texts
    BY <1>2, DeltasAreTexts DEF ParserTypes
  <2> QED
    BY <2>1, ConcatEmptySeq, TextFacts
<1>6. WithinUnits(text', DeltasIn(lines', ReadAt'), MaxOutputChars)
  <2>1. CASE failure = "none" /\ e.event = "step_update"
    <3>1. e.delta \in Texts /\ WholePairs(e.delta) /\ AppendDelta(e.delta)
      BY <1>1, <2>1, EventTexts, LineEffects DEF HandleStepUpdate
    <3>2. text' = text \o Taken(text, e.delta, MaxOutputChars)
      BY <1>2, <3>1, AppendsTaken
    <3>3. MaxOutputChars \in Nat \ {0} /\ text \in Texts
      BY <1>2, CapsAssumption DEF ParserTypes
    <3>4. WithinUnits(text \o Taken(text, e.delta, MaxOutputChars),
                      DeltasIn(lines, ReadAt) \o e.delta, MaxOutputChars)
      BY <1>2, <1>5, <3>1, <3>3, WithinTaken DEF TextsInv
    <3> QED
      BY <1>4, <2>1, <3>2, <3>4
  <2>2. CASE ~(failure = "none" /\ e.event = "step_update")
    <3>1. text' = text
      BY <1>1, <2>2, LineEffects
    <3> QED
      BY <1>2, <1>4, <1>5, <2>2, <3>1 DEF TextsInv
  <2> QED
    BY <2>1, <2>2
<1>7. BridgesAt' = IF failure = "none" /\ e.event = "step_update" /\ Calls(e) # <<>>
                   THEN BridgesAt \cup {Len(lines) + 1} ELSE BridgesAt
  BY <1>1, BridgesAfterLine
<1>8. CASE failure = "none" /\ e.event = "step_update"
  <2>1. bridgedToolCallEmitted' <=> bridgedToolCallEmitted \/ Calls(e) # <<>>
    BY <1>8 DEF ReadAndRelay, RelayStep
  <2>2. CallsInv'
    <3>1. bridgedToolCallEmitted' <=> BridgesAt' # {}
      BY <1>2, <1>7, <1>8, <2>1 DEF CallsInv
    <3>2. bridgedToolCallEmitted' <=> \E i \in DOMAIN frames' : frames'[i].kind = "tool"
      BY <1>2, <1>8, <2>1, RelayedFrames DEF CallsInv
    <3> QED
      BY <3>1, <3>2 DEF CallsInv
  <2>3. /\ accumulated' \in Texts
        /\ chat.capChars # NoCap => Len(accumulated') <= chat.capChars
        /\ IF chat.capChars = NoCap THEN accumulated' = DeltasIn(lines', SaidAt')
           ELSE WithinUnits(accumulated', DeltasIn(lines', SaidAt'), chat.capChars)
    BY <1>2, <1>8, RelayedText
  <2>4. /\ frames' \in Seq(Frames)
        /\ IF chat.stream THEN Shown(frames') = accumulated' ELSE frames' = <<>>
    BY <1>2, <1>8, RelayedFrames
  <2>5. StreamTypes'
    BY <1>1, <1>2, <2>3, <2>4 DEF StreamTypes
  <2>6. TextsInv'
    BY <1>1, <1>6, <2>3, <2>4 DEF TextsInv
  <2> QED
    BY <1>3, <2>2, <2>5, <2>6 DEF StreamInv
<1>9. CASE ~(failure = "none" /\ e.event = "step_update")
  <2>1. UNCHANGED <<accumulated, frames, bridgedToolCallEmitted>>
    BY <1>9 DEF ReadAndRelay
  <2>2. BridgesAt' = BridgesAt /\ DeltasIn(lines', SaidAt') = DeltasIn(lines, SaidAt)
    BY <1>4, <1>5, <1>7, <1>9
  <2>3. StreamTypes' /\ CallsInv'
    BY <1>1, <1>2, <2>1, <2>2 DEF StreamTypes, CallsInv
  <2>4. TextsInv'
    BY <1>1, <1>2, <1>6, <2>1, <2>2 DEF TextsInv
  <2> QED
    BY <1>3, <2>3, <2>4 DEF StreamInv
<1> QED
  BY <1>8, <1>9

LEMMA SameMarks ==
  ASSUME UNCHANGED <<lines, chat>>
  PROVE  ReadAt' = ReadAt /\ BridgesAt' = BridgesAt /\ SaidAt' = SaidAt /\ Frames' = Frames
<1>1. lines' = lines /\ chat' = chat
  OBVIOUS
<1>2. ReadAt' = ReadAt
  BY <1>1 DEF ReadAt, FatalAt, ResultsAt
<1>3. BridgesAt' = BridgesAt
  BY <1>1, <1>2 DEF BridgesAt
<1>4. SaidAt' = SaidAt
  BY <1>2, <1>3 DEF SaidAt
<1>5. Frames' = Frames
  BY <1>1 DEF Frames, Argument, Prompt
<1> QED
  BY <1>2, <1>3, <1>4, <1>5

LEMMA SameTypes ==
  ASSUME StreamTypes, CallsInv, TextsInv,
         UNCHANGED <<lines, chat, text, accumulated, frames, bridgedToolCallEmitted>>
  PROVE  StreamTypes' /\ CallsInv' /\ TextsInv'
BY SameMarks DEF StreamTypes, CallsInv, TextsInv

LEMMA FinalTextSame ==
  ASSUME UNCHANGED <<text, terminalResult>>  PROVE FinalText' = FinalText
BY DEF FinalText, HasResponse

LEMMA ReplyKeeps ==
  ASSUME ParserInv, StreamInv, FinishAndReply
  PROVE  StreamInv'
<1>1. /\ UNCHANGED <<text, terminalResult, lines, chat, accumulated, bridgedToolCallEmitted, frames>>
      /\ outcome'.text = FinalText /\ outcome'.kind \in {"success", "failure"}
      /\ reply' = IF outcome'.kind = "success" /\ ~chat.stream THEN Cut(outcome'.text) ELSE NoReply
  BY DEF FinishAndReply, Finish
<1>2. StreamTypes' /\ CallsInv' /\ TextsInv'
  BY <1>1, SameTypes DEF StreamInv
<1>3. FinalText' = FinalText
  BY <1>1, FinalTextSame
<1>4. Finished'
  BY <1>1 DEF Finished, NoOutcome
<1>5. \A u : Cut(u)' = Cut(u)
  BY <1>1 DEF Cut
<1>6. RepliesInv'
  BY <1>1, <1>3, <1>4 DEF RepliesInv, Cut
<1> QED
  BY <1>2, <1>6 DEF StreamInv

(* The inductive invariant of a chat. *)
THEOREM StreamInvariant == Spec => []StreamInv
<1>1. Init => StreamInv
  <2> SUFFICES ASSUME Init  PROVE StreamInv
    OBVIOUS
  <2>1. /\ lines = <<>> /\ text = <<>> /\ accumulated = <<>> /\ frames = <<>> /\ chat \in Chats
        /\ bridgedToolCallEmitted = FALSE /\ reply = NoReply /\ outcome = NoOutcome
    BY DEF Init, ParserInit
  <2>2. /\ <<>> \in Texts /\ <<>> \in Seq(Frames) /\ <<>> \in Seq(Events) /\ Len(<<>>) = 0
    BY EmptySeq DEF Texts
  <2>3. DOMAIN <<>> = {}
    BY <2>2, LenProperties
  <2>4. \A at : DeltasIn(<<>>, at) = <<>>
    <3> SUFFICES ASSUME NEW at  PROVE DeltasIn(<<>>, at) = <<>>
      OBVIOUS
    <3>1. [i \in DOMAIN <<>> |->
             IF i \in at /\ <<>>[i].event = "step_update" THEN <<>>[i].delta ELSE <<>>] = <<>>
      BY <2>3
    <3> QED
      BY <3>1, FlattenEmpty DEF DeltasIn
  <2>5. StreamTypes
    BY <2>1, <2>2, ChatFacts DEF StreamTypes
  <2>6. CallsInv
    <3>1. BridgesAt = {}
      BY <2>1, <2>3 DEF BridgesAt, ReadAt
    <3> QED
      BY <2>1, <2>3, <3>1 DEF CallsInv
  <2>7. TextsInv
    <3>1. MaxOutputChars \in Nat \ {0} /\ (chat.capChars # NoCap => chat.capChars \in Nat \ {0})
      BY <2>1, CapsAssumption, ChatFacts
    <3> QED
      BY <2>1, <2>4, <3>1, WithinEmpty, ShownEmpty DEF TextsInv
  <2>8. RepliesInv
    BY <2>1 DEF RepliesInv, Finished
  <2> QED
    BY <2>5, <2>6, <2>7, <2>8 DEF StreamInv
<1>2. ParserInv /\ StreamInv /\ [Next]_vars => StreamInv'
  <2> SUFFICES ASSUME ParserInv, StreamInv, [Next]_vars  PROVE StreamInv'
    OBVIOUS
  <2>1. ASSUME NEW e \in Events, ReadAndRelay(e)  PROVE StreamInv'
    BY <2>1, RelayStepKeeps
  <2>2. CASE FinishAndReply
    BY <2>2, ReplyKeeps
  <2>3. CASE UNCHANGED vars
    <3>1. UNCHANGED <<lines, chat, text, accumulated, frames, bridgedToolCallEmitted, reply,
                      outcome, terminalResult>>
      BY <2>3 DEF vars, parserVars, chatVars
    <3>2. StreamTypes' /\ CallsInv' /\ TextsInv'
      BY <3>1, SameTypes DEF StreamInv
    <3>3. FinalText' = FinalText
      BY <3>1, FinalTextSame
    <3>4. RepliesInv'
      BY <3>1, <3>3 DEF StreamInv, RepliesInv, Finished, Cut
    <3> QED
      BY <3>2, <3>4 DEF StreamInv
  <2> QED
    BY <2>1, <2>2, <2>3 DEF Next
<1>3. Spec => []ParserInv
  BY ParserInvariant, StreamImplementsParser, PTL
<1> QED
  BY <1>1, <1>2, <1>3, PTL DEF Spec

-------------------------------------------------------------------------------
LEMMA FinalTextWithin ==
  ASSUME ParserInv, StreamInv
  PROVE  /\ FinalText \in Texts /\ WholePairs(FinalText)
         /\ Within(text, DeltasOf(ReadAt), MaxOutputChars)
         /\ Within(FinalText, IF HasResponse THEN terminalResult.response ELSE DeltasOf(ReadAt),
                   MaxOutputChars)
<1>1. /\ MaxOutputChars \in Nat /\ MaxOutputChars \in Nat \ {0} /\ text \in Texts
      /\ lines \in Seq(Events) /\ WithinUnits(text, DeltasIn(lines, ReadAt), MaxOutputChars)
  BY CapsAssumption DEF ParserInv, ParserTypes, StreamInv, TextsInv
<1>2. DeltasOf(ReadAt) = DeltasIn(lines, ReadAt) /\ DeltasIn(lines, ReadAt) \in Texts
  BY <1>1, DeltasAreTexts DEF DeltasOf, DeltasIn
<1>3. Within(text, DeltasOf(ReadAt), MaxOutputChars)
  BY <1>1, <1>2, WithinIs
<1>4. CASE HasResponse
  <2>1. PICK i \in DOMAIN lines : lines[i] = terminalResult /\ lines[i].event = "result"
    BY <1>4 DEF HasResponse, ParserInv, ResultsInv, FirstResult, ResultsAt
  <2>2. lines[i] \in Events
    BY <1>1, ElementOfSeq, LenProperties
  <2>3. terminalResult.response \in Texts /\ WholePairs(terminalResult.response)
    BY <2>1, <2>2, EventTexts
  <2>4. FinalText = TruncateUtf16(terminalResult.response, MaxOutputChars)
    BY <1>4 DEF FinalText
  <2>5. FinalText \in Texts /\ WholePairs(FinalText)
    BY <1>1, <2>3, <2>4, TruncateFacts, TruncateWhole
  <2>6. WithinUnits(FinalText, terminalResult.response, MaxOutputChars)
    BY <1>1, <2>3, <2>4, WithinTruncated
  <2> QED
    BY <1>1, <1>3, <1>4, <2>3, <2>5, <2>6, WithinIs
<1>5. CASE ~HasResponse
  <2>1. FinalText = text
    BY <1>5 DEF FinalText
  <2> QED
    BY <1>1, <1>3, <1>5, <2>1 DEF WithinUnits
<1> QED
  BY <1>4, <1>5

LEMMA RepliesFollow ==
  ASSUME ParserInv, StreamInv  PROVE RepliesFaithful
<1> DEFINE said == DeltasOf({i \in ReadAt : \A k \in BridgesAt : i <= k})
           streamed == FlattenSeq([i \in DOMAIN frames |->
                         IF frames[i].kind = "text" THEN frames[i].units ELSE <<>>])
<1>1. said = DeltasIn(lines, SaidAt) /\ streamed = Shown(frames)
  BY DEF SaidAt, DeltasOf, DeltasIn, Shown
<1>2. /\ accumulated \in Texts /\ DeltasIn(lines, SaidAt) \in Texts
      /\ chat.capChars # NoCap => chat.capChars \in Nat \ {0}
  BY ChatFacts, DeltasAreTexts DEF StreamInv, StreamTypes, ParserInv, ParserTypes
<1> HIDE DEF said, streamed
<1>3. IF chat.stream THEN WithinCap(streamed, said) ELSE frames = <<>>
  <2> SUFFICES ASSUME chat.stream  PROVE WithinCap(streamed, said)
    BY DEF StreamInv, TextsInv
  <2>1. streamed = accumulated
    BY <1>1 DEF StreamInv, TextsInv
  <2>2. IF chat.capChars = NoCap THEN accumulated = said
        ELSE WithinUnits(accumulated, said, chat.capChars)
    BY <1>1 DEF StreamInv, TextsInv
  <2> QED
    BY <1>1, <1>2, <2>1, <2>2, WithinIs DEF WithinCap
<1>4. /\ FinalText \in Texts /\ WholePairs(FinalText)
      /\ Within(text, DeltasOf(ReadAt), MaxOutputChars)
      /\ Within(FinalText, IF HasResponse THEN terminalResult.response ELSE DeltasOf(ReadAt),
                MaxOutputChars)
  BY FinalTextWithin
<1>5. Finished => outcome.text = FinalText
  BY DEF StreamInv, RepliesInv
<1>6. ASSUME reply # NoReply  PROVE WithinCap(reply, outcome.text)
  <2>1. outcome.text = FinalText /\ reply = Cut(FinalText)
    BY <1>5, <1>6 DEF StreamInv, RepliesInv
  <2>2. CASE chat.capChars = NoCap
    BY <2>1, <2>2 DEF Cut, WithinCap
  <2>3. CASE chat.capChars # NoCap
    <3>1. /\ reply = TruncateUtf16(FinalText, chat.capChars) /\ reply \in Texts
          /\ chat.capChars \in Nat \ {0}
      BY <1>2, <1>4, <2>1, <2>3, TruncateFacts DEF Cut
    <3>2. WithinUnits(reply, FinalText, chat.capChars)
      BY <1>4, <3>1, WithinTruncated
    <3> QED
      BY <1>4, <2>1, <2>3, <3>1, <3>2, WithinIs DEF WithinCap
  <2> QED
    BY <2>2, <2>3
<1> QED
  BY <1>3, <1>4, <1>5, <1>6 DEF RepliesFaithful, said, streamed

LEMMA StreamTypesFollow ==
  ASSUME ParserInv, StreamInv  PROVE StreamTypeOK
<1>1. TypeOK
  BY TypeFollows
<1>2. StreamTypes /\ CallsInv
  BY DEF StreamInv
<1>3. ASSUME reply # NoReply  PROVE reply \in Texts
  <2>1. FinalText \in Texts /\ reply = Cut(FinalText) /\ chat.capChars \in Nat
    BY <1>2, <1>3, FinalTextWithin, ChatFacts DEF StreamInv, RepliesInv, StreamTypes
  <2> QED
    BY <2>1, TruncateFacts DEF Cut
<1> QED
  BY <1>1, <1>2, <1>3 DEF StreamTypeOK, StreamTypes, CallsInv

(* Every variable of a chat has its type, and the text a client gets stays within its cap. *)
THEOREM StreamTypeCorrect == Spec => []StreamTypeOK
<1>1. ParserInv /\ StreamInv => StreamTypeOK
  BY StreamTypesFollow
<1> QED
  BY <1>1, ParserInvariant, StreamImplementsParser, StreamInvariant, PTL

(* "`max_tokens` (positive integer) maps to a hard response cap of ~4 UTF-16 code units per
   token" (README.md:551): whatever agy says and whatever the caps, a client gets what was
   said, in order, with no pair split and nothing lost that fits. *)
THEOREM RepliesAreFaithful == Spec => []RepliesFaithful
<1>1. ParserInv /\ StreamInv => RepliesFaithful
  BY RepliesFollow
<1> QED
  BY <1>1, ParserInvariant, StreamImplementsParser, StreamInvariant, PTL

-------------------------------------------------------------------------------
(* The paths of the mounts. *)
Sizes(mounts, side) == [i \in 1..Len(mounts) |-> Len(mounts[i][side])]

(* Which mount the stable sort has at place p. *)
Placed(mounts, side, p) ==
  CHOOSE k \in 1..Len(mounts) : RankOf(Sizes(mounts, side), Len(mounts), k) = p

LEMMA MountIs ==
  ASSUME NEW mounts \in Seq(Mounts), NEW i \in 1..Len(mounts)
  PROVE  /\ mounts[i] \in Mounts
         /\ mounts[i].host \in Seq(STRING) /\ mounts[i].container \in Seq(STRING)
         /\ Len(mounts[i].host) \in Nat \ {0} /\ Len(mounts[i].container) \in Nat \ {0}
<1>1. mounts[i] \in Mounts
  BY ElementOfSeq
<1>2. /\ mounts[i].host \in Seq(STRING) /\ mounts[i].host # <<>>
      /\ mounts[i].container \in Seq(STRING) /\ mounts[i].container # <<>>
  BY <1>1 DEF Mounts
<1>3. /\ Len(mounts[i].host) \in Nat /\ Len(mounts[i].container) \in Nat
      /\ Len(mounts[i].host) # 0 /\ Len(mounts[i].container) # 0
  BY <1>2, LenProperties, EmptySeq
<1> QED
  BY <1>1, <1>2, <1>3

LEMMA SortedIs ==
  ASSUME NEW mounts \in Seq(Mounts), NEW side \in {"host", "container"}
  PROVE  LongestFirst(mounts, side) = [p \in 1..Len(mounts) |-> mounts[Placed(mounts, side, p)]]
<1> DEFINE n == Len(mounts)
           size == Sizes(mounts, side)
           Precedes(i, k) ==
             \/ Len(mounts[i][side]) > Len(mounts[k][side])
             \/ Len(mounts[i][side]) = Len(mounts[k][side]) /\ i < k
           Place(k) == Cardinality({i \in DOMAIN mounts : Precedes(i, k)}) + 1
<1>1. DOMAIN mounts = 1..n
  BY LenProperties
<1>2. LongestFirst(mounts, side)
      = [p \in DOMAIN mounts |-> mounts[CHOOSE k \in DOMAIN mounts : Place(k) = p]]
  BY DEF LongestFirst
<1>3. ASSUME NEW i \in 1..n, NEW k \in 1..n  PROVE Precedes(i, k) <=> Outranks(size, i, k)
  <2>1. size[i] = Len(mounts[i][side]) /\ size[k] = Len(mounts[k][side])
    BY DEF Sizes
  <2> HIDE DEF size
  <2> QED
    BY <2>1 DEF Outranks
<1> HIDE DEF Precedes, size
<1>4. ASSUME NEW k \in 1..n  PROVE Place(k) = RankOf(size, n, k)
  <2>1. {i \in DOMAIN mounts : Precedes(i, k)} = Above(size, n, k)
    BY <1>1, <1>3 DEF Above
  <2> QED
    BY <2>1 DEF RankOf
<1> HIDE DEF Place
<1>5. ASSUME NEW p  PROVE (CHOOSE k \in DOMAIN mounts : Place(k) = p) = Placed(mounts, side, p)
  BY <1>1, <1>4 DEF Placed, size
<1> QED
  BY <1>1, <1>2, <1>5

(* The sorted mounts are the mounts: one stands at some place, none longer after it, none
   shorter before. *)
StandsAt(sorted, mounts, side, i, q) ==
  /\ sorted[q] = mounts[i]
  /\ \A p \in 1..Len(mounts) \ {q} :
       \E k \in 1..Len(mounts) \ {i} :
         /\ sorted[p] = mounts[k]
         /\ p < q => Len(mounts[k][side]) >= Len(mounts[i][side])

LEMMA LongestFirstIs ==
  ASSUME NEW mounts \in Seq(Mounts), NEW side \in {"host", "container"},
         NEW i \in 1..Len(mounts)
  PROVE  /\ DOMAIN LongestFirst(mounts, side) = 1..Len(mounts)
         /\ \E q \in 1..Len(mounts) :
              StandsAt(LongestFirst(mounts, side), mounts, side, i, q)
<1> DEFINE n == Len(mounts)
           size == Sizes(mounts, side)
           sorted == LongestFirst(mounts, side)
           At(p) == Placed(mounts, side, p)
<1>1. n \in Nat
  BY LenProperties
<1>2. size \in [1..n -> Nat] /\ \A k \in 1..n : size[k] = Len(mounts[k][side])
  <2>1. \A k \in 1..n : Len(mounts[k]["host"]) \in Nat /\ Len(mounts[k]["container"]) \in Nat
    BY MountIs
  <2> QED
    BY <2>1 DEF Sizes
<1>3. sorted = [p \in 1..n |-> mounts[At(p)]]
  BY SortedIs
<1> HIDE DEF sorted, size, n
<1>4. /\ \A k \in 1..n : RankOf(size, n, k) \in 1..n
      /\ \A j, k \in 1..n : Outranks(size, j, k) => RankOf(size, n, j) < RankOf(size, n, k)
  BY <1>1, <1>2, RankRises
<1>5. /\ \A p \in 1..n : \E k \in 1..n : RankOf(size, n, k) = p
      /\ \A j, k \in 1..n : RankOf(size, n, j) = RankOf(size, n, k) => j = k
  BY <1>1, <1>2, RanksAreTaken
<1>6. ASSUME NEW p \in 1..n  PROVE At(p) \in 1..n /\ RankOf(size, n, At(p)) = p
  BY <1>5, Zenon DEF Placed, size, n
<1> HIDE DEF At
<1> DEFINE q == RankOf(size, n, i)
<1>7. q \in 1..n /\ i \in 1..n
  BY <1>4 DEF n
<1>8. At(q) = i
  BY <1>5, <1>6, <1>7
<1>9. ASSUME NEW p \in 1..n \ {q}
      PROVE  \E k \in 1..n \ {i} :
               sorted[p] = mounts[k] /\ (p < q => Len(mounts[k][side]) >= Len(mounts[i][side]))
  <2>1. At(p) \in 1..n /\ At(p) # i /\ sorted[p] = mounts[At(p)]
    BY <1>3, <1>6
  <2>2. ASSUME p < q  PROVE size[At(p)] >= size[i]
    <3>1. ~(q < p)
      BY <1>1, <1>7, <2>2
    <3>2. ~Outranks(size, i, At(p))
      BY <1>4, <1>6, <1>7, <2>1, <3>1
    <3>3. size[At(p)] \in Nat /\ size[i] \in Nat
      BY <1>2, <1>7, <2>1
    <3> QED
      BY <3>2, <3>3 DEF Outranks
  <2>3. size[At(p)] = Len(mounts[At(p)][side]) /\ size[i] = Len(mounts[i][side])
    BY <1>2, <1>7, <2>1
  <2> QED
    BY <2>1, <2>2, <2>3
<1>10. sorted[q] = mounts[i] /\ DOMAIN sorted = 1..n
  BY <1>3, <1>7, <1>8
<1>11. StandsAt(sorted, mounts, side, i, q)
  BY <1>9, <1>10 DEF StandsAt, n
<1> QED
  BY <1>7, <1>10, <1>11 DEF sorted, n

-------------------------------------------------------------------------------
(* Paths, their beginnings and what follows them. *)
Paths == Seq(STRING)

LEMMA FollowsIs ==
  ASSUME NEW t \in Paths, NEW i \in 1..Len(t) + 1
  PROVE  /\ From(t, i) \in Paths /\ Len(From(t, i)) = Len(t) + 1 - i
         /\ \A j \in 1..Len(t) + 1 - i : From(t, i)[j] = t[(i - 1) + j]
<1>1. Len(t) \in Nat /\ i \in Nat /\ 1 <= i /\ i <= Len(t) + 1
  BY LenProperties DEF Paths
<1>2. \A j \in i..Len(t) : t[j] \in STRING
  BY <1>1, ElementOfSeq DEF Paths
<1>3. /\ SubSeq(t, i, Len(t)) \in Seq(STRING)
      /\ Len(SubSeq(t, i, Len(t))) = IF i <= Len(t) THEN Len(t) - i + 1 ELSE 0
      /\ \A j \in 1..Len(t) - i + 1 : SubSeq(t, i, Len(t))[j] = t[i + j - 1]
  BY <1>1, <1>2, SubSeqProperties
<1>4. ASSUME NEW j \in 1..Len(t) + 1 - i  PROVE From(t, i)[j] = t[(i - 1) + j]
  <2>1. j \in 1..Len(t) - i + 1 /\ i + j - 1 = (i - 1) + j
    BY <1>1
  <2> QED
    BY <1>3, <2>1 DEF From
<1>5. Len(From(t, i)) = Len(t) + 1 - i
  BY <1>1, <1>3 DEF From
<1> QED
  BY <1>3, <1>4, <1>5 DEF From, Paths

LEMMA RestIs ==
  ASSUME NEW t \in Paths, NEW n \in 0..Len(t)
  PROVE  /\ From(t, n + 1) \in Paths /\ Len(From(t, n + 1)) = Len(t) - n
         /\ \A j \in 1..Len(t) - n : From(t, n + 1)[j] = t[n + j]
<1>1. Len(t) \in Nat
  BY LenProperties DEF Paths
<1>2. n + 1 \in 1..Len(t) + 1 /\ Len(t) + 1 - (n + 1) = Len(t) - n /\ (n + 1) - 1 = n
  BY <1>1
<1>3. /\ From(t, n + 1) \in Paths /\ Len(From(t, n + 1)) = Len(t) + 1 - (n + 1)
      /\ \A j \in 1..Len(t) + 1 - (n + 1) : From(t, n + 1)[j] = t[((n + 1) - 1) + j]
  BY <1>2, FollowsIs
<1> QED
  BY <1>2, <1>3, Zenon

LEMMA SamePaths ==
  ASSUME NEW s \in Paths, NEW t \in Paths, Len(s) = Len(t), \A j \in 1..Len(t) : s[j] = t[j]
  PROVE  s = t
BY SeqEqual DEF Paths

LEMMA BeginsIs ==
  ASSUME NEW s \in Paths, NEW t \in Paths
  PROVE  IsPrefix(s, t) <=> Len(s) <= Len(t) /\ \A j \in 1..Len(s) : s[j] = t[j]
<1>1. Len(s) \in Nat /\ Len(t) \in Nat
  BY LenProperties DEF Paths
<1> SUFFICES ASSUME Len(s) <= Len(t)
             PROVE  SubSeq(s, 1, Len(s)) = SubSeq(t, 1, Len(s)) <=> \A j \in 1..Len(s) : s[j] = t[j]
  BY <1>1 DEF IsPrefix
<1> DEFINE a == SubSeq(s, 1, Len(s))
           b == SubSeq(t, 1, Len(s))
           n == Len(s)
<1>2. /\ \A j \in 1..n : s[j] \in STRING
      /\ \A j \in 1..n : t[j] \in STRING
  <2>1. \A j \in 1..n : j \in 1..Len(t)
    BY <1>1
  <2> QED
    BY <2>1, ElementOfSeq DEF Paths
<1>3. /\ a \in Seq(STRING) /\ Len(a) = IF 1 <= n THEN n - 1 + 1 ELSE 0
      /\ \A j \in 1..n - 1 + 1 : a[j] = s[1 + j - 1]
  BY <1>1, <1>2, SubSeqProperties
<1>4. /\ b \in Seq(STRING) /\ Len(b) = IF 1 <= n THEN n - 1 + 1 ELSE 0
      /\ \A j \in 1..n - 1 + 1 : b[j] = t[1 + j - 1]
  BY <1>1, <1>2, SubSeqProperties
<1>5. n \in Nat
  BY <1>1
<1> HIDE DEF a, b, n
<1>6. /\ a \in Paths /\ Len(a) = n /\ \A j \in 1..n : a[j] = s[j]
      /\ b \in Paths /\ Len(b) = n /\ \A j \in 1..n : b[j] = t[j]
  BY <1>3, <1>4, <1>5 DEF Paths
<1>7. a = b => \A j \in 1..n : s[j] = t[j]
  BY <1>6
<1>8. ASSUME \A j \in 1..n : s[j] = t[j]  PROVE a = b
  BY <1>6, <1>8, SamePaths
<1> QED
  BY <1>7, <1>8 DEF a, b, n

LEMMA FromFirst ==
  ASSUME NEW t \in Paths  PROVE From(t, 1) = t /\ From(t, Len(t) + 1) = <<>>
<1>1. Len(t) \in Nat
  BY LenProperties DEF Paths
<1>2. 1 \in 1..Len(t) + 1 /\ Len(t) + 1 \in 1..Len(t) + 1
  BY <1>1
<1>3. /\ From(t, 1) \in Paths /\ Len(From(t, 1)) = Len(t) + 1 - 1
      /\ \A j \in 1..Len(t) + 1 - 1 : From(t, 1)[j] = t[(1 - 1) + j]
      /\ From(t, Len(t) + 1) \in Paths /\ Len(From(t, Len(t) + 1)) = Len(t) + 1 - (Len(t) + 1)
  BY <1>2, FollowsIs
<1>4. Len(From(t, 1)) = Len(t) /\ \A j \in 1..Len(t) : From(t, 1)[j] = t[j]
  BY <1>1, <1>3
<1>5. Len(From(t, Len(t) + 1)) = 0
  BY <1>1, <1>3
<1>6. From(t, 1) = t
  BY <1>3, <1>4, SamePaths
<1> QED
  BY <1>3, <1>5, <1>6, EmptySeq DEF Paths

(* A path is its beginning and the rest. *)
LEMMA JoinedIs ==
  ASSUME NEW s \in Paths, NEW t \in Paths
  PROVE  /\ s \o t \in Paths /\ Len(s \o t) = Len(s) + Len(t)
         /\ \A j \in 1..Len(s) : (s \o t)[j] = s[j]
         /\ \A j \in 1..Len(t) : (s \o t)[Len(s) + j] = t[j]
<1>1. Len(s) \in Nat /\ Len(t) \in Nat
  BY LenProperties DEF Paths
<1>2. /\ s \o t \in Seq(STRING) /\ Len(s \o t) = Len(s) + Len(t)
      /\ \A j \in 1..Len(s) + Len(t) :
           (s \o t)[j] = IF j <= Len(s) THEN s[j] ELSE t[j - Len(s)]
  BY ConcatProperties DEF Paths
<1>3. ASSUME NEW j \in 1..Len(s)  PROVE (s \o t)[j] = s[j]
  <2>1. j \in 1..Len(s) + Len(t) /\ j <= Len(s)
    BY <1>1
  <2> QED
    BY <1>2, <2>1
<1>4. ASSUME NEW j \in 1..Len(t)  PROVE (s \o t)[Len(s) + j] = t[j]
  <2>1. Len(s) + j \in 1..Len(s) + Len(t) /\ ~(Len(s) + j <= Len(s)) /\ (Len(s) + j) - Len(s) = j
    BY <1>1
  <2>2. (s \o t)[Len(s) + j]
        = IF Len(s) + j <= Len(s) THEN s[Len(s) + j] ELSE t[(Len(s) + j) - Len(s)]
    BY <1>2, <2>1
  <2> QED
    BY <2>1, <2>2
<1> QED
  BY <1>2, <1>3, <1>4 DEF Paths

LEMMA RestOfJoined ==
  ASSUME NEW s \in Paths, NEW t \in Paths
  PROVE  IsPrefix(s, s \o t) /\ From(s \o t, Len(s) + 1) = t
<1> DEFINE u == s \o t
           a == Len(s)
           b == Len(t)
           r == From(u, a + 1)
<1>1. a \in Nat /\ b \in Nat
  BY LenProperties DEF Paths
<1>2. /\ u \in Paths /\ Len(u) = a + b
      /\ \A j \in 1..a : u[j] = s[j]
      /\ \A j \in 1..b : u[a + j] = t[j]
  BY JoinedIs
<1> HIDE DEF u, a, b
<1>3. a \in 0..Len(u) /\ Len(u) - a = b
  BY <1>1, <1>2
<1>4. r \in Paths /\ Len(r) = b /\ \A j \in 1..b : r[j] = u[a + j]
  <2>1. r \in Paths /\ Len(r) = Len(u) - a /\ \A j \in 1..Len(u) - a : r[j] = u[a + j]
    BY <1>2, <1>3, RestIs
  <2> QED
    BY <1>3, <2>1, Zenon
<1> HIDE DEF r
<1>5. r = t
  BY <1>2, <1>4, SamePaths DEF b
<1>6. IsPrefix(s, u)
  BY <1>1, <1>2, BeginsIs DEF a
<1> QED
  BY <1>5, <1>6 DEF r, u, a

LEMMA JoinsRest ==
  ASSUME NEW s \in Paths, NEW t \in Paths, IsPrefix(s, t)
  PROVE  s \o From(t, Len(s) + 1) = t /\ Len(s) + 1 \in 1..Len(t) + 1
<1> DEFINE a == Len(s)
           b == Len(t)
           r == From(t, a + 1)
           u == s \o r
<1>1. a \in Nat /\ b \in Nat /\ a <= b /\ \A j \in 1..a : s[j] = t[j]
  BY LenProperties, BeginsIs DEF Paths
<1> HIDE DEF a, b
<1>2. a + 1 \in 1..b + 1 /\ a \in 0..b
  BY <1>1
<1>3. r \in Paths /\ Len(r) = b - a /\ \A j \in 1..b - a : r[j] = t[a + j]
  BY <1>2, RestIs DEF b
<1> HIDE DEF r
<1>4. /\ u \in Paths /\ Len(u) = a + (b - a)
      /\ \A j \in 1..a : u[j] = s[j]
      /\ \A j \in 1..b - a : u[a + j] = r[j]
  <2>1. /\ u \in Paths /\ Len(u) = a + Len(r)
        /\ \A j \in 1..a : u[j] = s[j]
        /\ \A j \in 1..Len(r) : u[a + j] = r[j]
    BY <1>3, JoinedIs DEF a
  <2> HIDE DEF u
  <2> QED
    BY <1>3, <2>1, Zenon
<1> HIDE DEF u
<1>5. Len(u) = b
  BY <1>1, <1>4
<1>6. ASSUME NEW j \in 1..b  PROVE u[j] = t[j]
  <2>1. CASE j <= a
    <3>1. j \in 1..a
      BY <1>1, <2>1
    <3> QED
      BY <1>1, <1>4, <3>1
  <2>2. CASE ~(j <= a)
    <3>1. j - a \in 1..b - a /\ a + (j - a) = j
      BY <1>1, <2>2
    <3>2. u[a + (j - a)] = r[j - a] /\ r[j - a] = t[a + (j - a)]
      BY <1>3, <1>4, <3>1
    <3> QED
      BY <3>1, <3>2
  <2> QED
    BY <2>1, <2>2
<1>7. u = t
  BY <1>4, <1>5, <1>6, SamePaths DEF b
<1> QED
  BY <1>2, <1>7 DEF u, r, a, b

LEMMA FromPeels ==
  ASSUME NEW t \in Paths, NEW i \in 1..Len(t)
  PROVE  <<t[i]>> \o From(t, i + 1) = From(t, i)
<1> DEFINE b == Len(t)
           h == <<t[i]>>
           r == From(t, i + 1)
           u == h \o r
           v == From(t, i)
<1>1. b \in Nat /\ i \in 1..b
  BY LenProperties DEF Paths
<1>2. h \in Paths /\ Len(h) = 1 /\ h[1] = t[i]
  <2>1. t[i] \in STRING
    BY ElementOfSeq DEF Paths
  <2> QED
    BY <2>1 DEF Paths
<1> HIDE DEF h, b
<1>3. i \in 0..b /\ i \in 1..b + 1
  BY <1>1
<1>4. r \in Paths /\ Len(r) = b - i /\ \A j \in 1..b - i : r[j] = t[i + j]
  BY <1>3, RestIs DEF b
<1>5. v \in Paths /\ Len(v) = b + 1 - i /\ \A j \in 1..b + 1 - i : v[j] = t[(i - 1) + j]
  BY <1>3, FollowsIs DEF b
<1> HIDE DEF r, v
<1>6. /\ u \in Paths /\ Len(u) = 1 + (b - i)
      /\ \A j \in 1..1 : u[j] = h[j]
      /\ \A j \in 1..b - i : u[1 + j] = r[j]
  <2>1. /\ u \in Paths /\ Len(u) = Len(h) + Len(r)
        /\ \A j \in 1..Len(h) : u[j] = h[j]
        /\ \A j \in 1..Len(r) : u[Len(h) + j] = r[j]
    BY <1>2, <1>4, JoinedIs
  <2> HIDE DEF u
  <2> QED
    BY <1>2, <1>4, <2>1, Zenon
<1> HIDE DEF u
<1>7. Len(u) = Len(v)
  BY <1>1, <1>5, <1>6
<1>8. ASSUME NEW j \in 1..b + 1 - i  PROVE u[j] = v[j]
  <2>1. CASE j = 1
    <3>1. (i - 1) + j = i
      BY <1>1, <2>1
    <3>2. v[j] = t[i]
      BY <1>5, <3>1
    <3> QED
      BY <1>2, <1>6, <2>1, <3>2
  <2>2. CASE j # 1
    <3>1. j - 1 \in 1..b - i /\ 1 + (j - 1) = j /\ i + (j - 1) = (i - 1) + j
      BY <1>1, <2>2
    <3>2. u[1 + (j - 1)] = r[j - 1] /\ r[j - 1] = t[i + (j - 1)]
      BY <1>4, <1>6, <3>1
    <3> QED
      BY <1>5, <3>1, <3>2
  <2> QED
    BY <2>1, <2>2
<1>9. u = v
  BY <1>5, <1>6, <1>7, <1>8, SamePaths
<1> QED
  BY <1>9 DEF u, v, h, r

-------------------------------------------------------------------------------
(* A mount whose host path is found nowhere but at the beginning is replaced there. *)

(* The tail of the text from every place on, with the mount's host path replaced. *)
ReplacesFrom(f, path, m) ==
  f = [i \in 1..Len(path) + 1 |->
         IF i > Len(path) THEN <<>>
         ELSE IF IsPrefix(m.host, From(path, i)) THEN m.container \o f[i + Len(m.host)]
         ELSE <<path[i]>> \o f[i + 1]]

LEMMA ReplacesOneWay ==
  ASSUME NEW path \in Paths, NEW m \in Mounts, NEW f, NEW g,
         ReplacesFrom(f, path, m), ReplacesFrom(g, path, m)
  PROVE  f[1] = g[1]
<1> DEFINE n == Len(path)
           h == Len(m.host)
           T == {d \in Nat : \A i \in 1..n + 1 : n + 1 - i <= d => f[i] = g[i]}
<1>1. n \in Nat /\ h \in Nat \ {0}
  <2>1. m.host \in Seq(STRING) /\ m.host # <<>>
    BY DEF Mounts
  <2> QED
    BY <2>1, LenProperties, EmptySeq DEF Paths
<1>2. ASSUME NEW i \in 1..n + 1
      PROVE  /\ f[i] = IF i > n THEN <<>>
                       ELSE IF IsPrefix(m.host, From(path, i)) THEN m.container \o f[i + h]
                       ELSE <<path[i]>> \o f[i + 1]
             /\ g[i] = IF i > n THEN <<>>
                       ELSE IF IsPrefix(m.host, From(path, i)) THEN m.container \o g[i + h]
                       ELSE <<path[i]>> \o g[i + 1]
  BY DEF ReplacesFrom
<1>3. ASSUME NEW i \in 1..n, IsPrefix(m.host, From(path, i))  PROVE i + h \in 1..n + 1
  <2>1. i \in 1..n + 1
    BY <1>1
  <2>2. From(path, i) \in Paths /\ Len(From(path, i)) = n + 1 - i
    BY <2>1, FollowsIs
  <2>3. h <= Len(From(path, i))
    BY <1>3 DEF IsPrefix
  <2>4. h <= n + 1 - i
    BY <2>2, <2>3
  <2> HIDE DEF n, h
  <2> QED
    BY <1>1, <2>4
<1> HIDE DEF n, h
<1>4. 0 \in T
  <2>1. ASSUME NEW i \in 1..n + 1, n + 1 - i <= 0  PROVE f[i] = g[i]
    <3>1. i > n
      BY <1>1, <2>1
    <3> QED
      BY <1>2, <3>1
  <2> QED
    BY <2>1
<1>5. ASSUME NEW d \in Nat, d \in T  PROVE d + 1 \in T
  <2> SUFFICES ASSUME NEW i \in 1..n + 1, n + 1 - i <= d + 1  PROVE f[i] = g[i]
    OBVIOUS
  <2>1. \A k \in 1..n + 1 : n + 1 - k <= d => f[k] = g[k]
    BY <1>5
  <2>2. CASE i > n
    BY <1>2, <2>2
  <2>3. CASE ~(i > n)
    <3>1. /\ i \in 1..n /\ i + 1 \in 1..n + 1 /\ n + 1 - (i + 1) <= d
          /\ n + 1 - (i + h) <= d
      BY <1>1, <2>3
    <3>2. f[i + 1] = g[i + 1]
      BY <2>1, <3>1
    <3>3. CASE IsPrefix(m.host, From(path, i))
      <4>1. f[i + h] = g[i + h]
        BY <1>3, <2>1, <3>1, <3>3
      <4> HIDE DEF T
      <4> QED
        BY <1>2, <2>3, <3>3, <4>1
    <3>4. CASE ~IsPrefix(m.host, From(path, i))
      <4> HIDE DEF T
      <4> QED
        BY <1>2, <2>3, <3>2, <3>4
    <3> QED
      BY <3>3, <3>4
  <2> QED
    BY <2>2, <2>3
<1>6. Nat \subseteq T
  <2> HIDE DEF T
  <2> QED
    BY <1>4, <1>5, Induction
<1>7. n \in T /\ 1 \in 1..n + 1 /\ n + 1 - 1 <= n
  BY <1>1, <1>6
<1> QED
  BY <1>7

LEMMA ReplacedIs ==
  ASSUME NEW path \in Paths, NEW m \in Mounts, OccursAt(m.host, path) \subseteq {1}
  PROVE  Replaced(path, m) = IF IsPrefix(m.host, path)
                             THEN m.container \o From(path, Len(m.host) + 1) ELSE path
<1> DEFINE n == Len(path)
           h == Len(m.host)
           first == IF IsPrefix(m.host, path) THEN m.container \o From(path, h + 1) ELSE path
           f == [i \in 1..n + 1 |-> IF i = 1 THEN first ELSE From(path, i)]
           Rest(g, i) == IF i > n THEN <<>>
                         ELSE IF IsPrefix(m.host, From(path, i)) THEN m.container \o g[i + h]
                         ELSE <<path[i]>> \o g[i + 1]
<1>1. n \in Nat /\ h \in Nat \ {0} /\ m.host \in Paths /\ DOMAIN path = 1..n
  <2>1. m.host \in Seq(STRING) /\ m.host # <<>>
    BY DEF Mounts
  <2> QED
    BY <2>1, LenProperties, EmptySeq DEF Paths
<1>2. From(path, 1) = path /\ From(path, n + 1) = <<>>
  BY FromFirst
<1>3. ASSUME NEW i \in 1..n  PROVE <<path[i]>> \o From(path, i + 1) = From(path, i)
  BY FromPeels
<1>4. ASSUME NEW i \in 1..n, i # 1  PROVE ~IsPrefix(m.host, From(path, i))
  <2>1. i \in DOMAIN path
    BY <1>1
  <2> QED
    BY <1>4, <2>1 DEF OccursAt
<1>5. IsPrefix(m.host, path) => h <= n /\ h + 1 \in 1..n + 1 /\ n # 0
  <2>1. IsPrefix(m.host, path) => h <= n
    BY DEF IsPrefix
  <2> HIDE DEF n, h
  <2> QED
    BY <1>1, <2>1
<1>6. ASSUME NEW i \in 1..n + 1, i # 1  PROVE f[i] = From(path, i)
  <2> HIDE DEF n
  <2> QED
    BY <1>6
<1>7. f[1] = first
  <2>1. 1 \in 1..n + 1
    BY <1>1
  <2> QED
    BY <2>1
<1> HIDE DEF n, h, f
<1>8. ASSUME NEW i \in 1..n + 1  PROVE f[i] = Rest(f, i)
  <2>1. CASE i # 1 /\ i > n
    <3>1. i = n + 1
      BY <1>1, <2>1
    <3> QED
      BY <1>2, <1>6, <2>1, <3>1
  <2>2. CASE i # 1 /\ ~(i > n)
    <3>1. i \in 1..n /\ i + 1 \in 1..n + 1 /\ i + 1 # 1
      BY <1>1, <2>2
    <3>2. f[i] = From(path, i) /\ f[i + 1] = From(path, i + 1)
      BY <1>6, <2>2, <3>1
    <3>3. Rest(f, i) = <<path[i]>> \o f[i + 1]
      BY <1>4, <2>2, <3>1
    <3> HIDE DEF Rest
    <3> QED
      BY <1>3, <3>1, <3>2, <3>3
  <2>3. CASE i = 1 /\ n = 0
    <3>1. Rest(f, i) = <<>> /\ ~IsPrefix(m.host, path)
      BY <1>5, <2>3
    <3>2. path = <<>>
      BY <2>3, EmptySeq DEF n, Paths
    <3> HIDE DEF Rest
    <3> QED
      BY <1>7, <2>3, <3>1, <3>2
  <2>4. CASE i = 1 /\ n # 0
    <3>1. i \in 1..n /\ ~(i > n) /\ i + 1 \in 1..n + 1 /\ i + 1 # 1
      BY <1>1, <2>4
    <3>2. CASE IsPrefix(m.host, path)
      <4>1. i + h \in 1..n + 1 /\ i + h # 1 /\ i + h = h + 1
        BY <1>1, <1>5, <2>4, <3>2
      <4>2. f[i + h] = From(path, h + 1)
        BY <1>6, <4>1
      <4>3. Rest(f, i) = m.container \o f[i + h]
        BY <1>2, <2>4, <3>1, <3>2
      <4> HIDE DEF Rest
      <4> QED
        BY <1>7, <2>4, <3>2, <4>2, <4>3
    <3>3. CASE ~IsPrefix(m.host, path)
      <4>1. f[i + 1] = From(path, i + 1)
        BY <1>6, <3>1
      <4>2. Rest(f, i) = <<path[i]>> \o f[i + 1]
        BY <1>2, <2>4, <3>1, <3>3
      <4>3. <<path[i]>> \o From(path, i + 1) = path
        BY <1>2, <1>3, <2>4, <3>1
      <4> HIDE DEF Rest
      <4> QED
        BY <1>7, <2>4, <3>3, <4>1, <4>2, <4>3
    <3> QED
      BY <3>2, <3>3
  <2> QED
    BY <2>1, <2>2, <2>3, <2>4
<1>9. ReplacesFrom(f, path, m)
  <2>1. f = [i \in 1..n + 1 |-> f[i]]
    BY DEF f
  <2>2. f = [i \in 1..n + 1 |-> Rest(f, i)]
    <3> HIDE DEF Rest
    <3> QED
      BY <1>8, <2>1
  <2> QED
    BY <2>2 DEF ReplacesFrom, n, h
<1> DEFINE g == CHOOSE r : r = [i \in 1..Len(path) + 1 |->
                  IF i > Len(path) THEN <<>>
                  ELSE IF IsPrefix(m.host, From(path, i)) THEN m.container \o r[i + Len(m.host)]
                  ELSE <<path[i]>> \o r[i + 1]]
<1>10. Replaced(path, m) = g[1]
  BY DEF Replaced
<1>11. ReplacesFrom(g, path, m)
  BY <1>9, Zenon DEF ReplacesFrom
<1> HIDE DEF g
<1>12. g[1] = f[1]
  BY <1>9, <1>11, ReplacesOneWay
<1> QED
  BY <1>7, <1>10, <1>12 DEF first, h

-------------------------------------------------------------------------------
(* The path that the client names, there and back. *)

(* The text after each of the mounts, in their order. *)
RemapsUpTo(f, path, sorted, N) ==
  f = [n \in 0..N |-> IF n = 0 THEN path ELSE Replaced(f[n - 1], sorted[n])]

LEMMA RemapsOneWay ==
  ASSUME NEW path, NEW sorted, NEW N \in Nat, NEW f, NEW g,
         RemapsUpTo(f, path, sorted, N), RemapsUpTo(g, path, sorted, N)
  PROVE  f[N] = g[N]
<1> DEFINE T == {n \in Nat : n <= N => f[n] = g[n]}
<1>1. ASSUME NEW n \in 0..N
      PROVE  /\ f[n] = IF n = 0 THEN path ELSE Replaced(f[n - 1], sorted[n])
             /\ g[n] = IF n = 0 THEN path ELSE Replaced(g[n - 1], sorted[n])
  BY DEF RemapsUpTo
<1>2. 0 \in T
  BY <1>1
<1>3. ASSUME NEW n \in Nat, n \in T  PROVE n + 1 \in T
  <2> SUFFICES ASSUME n + 1 <= N  PROVE f[n + 1] = g[n + 1]
    OBVIOUS
  <2>1. n + 1 \in 0..N /\ n + 1 # 0 /\ (n + 1) - 1 = n /\ n <= N
    OBVIOUS
  <2>2. f[n] = g[n]
    BY <1>3, <2>1
  <2> HIDE DEF T
  <2>3. /\ f[n + 1] = Replaced(f[n], sorted[n + 1])
        /\ g[n + 1] = Replaced(g[n], sorted[n + 1])
    BY <1>1, <2>1, Zenon
  <2> QED
    BY <2>2, <2>3, Zenon
<1>4. Nat \subseteq T
  <2> HIDE DEF T
  <2> QED
    BY <1>2, <1>3, Induction
<1> QED
  BY <1>4

LEMMA ChatPaths ==
  ASSUME chat \in Chats
  PROVE  chat.mounts \in Seq(Mounts) /\ chat.path \in Paths
BY ChatsAssumption DEF ChatKinds, Paths

(* Where the mount i puts the client's path. *)
There(i) == chat.mounts[i].container \o From(chat.path, Len(chat.mounts[i].host) + 1)

(* MountedAt, in the words of the lemmas. *)
LEMMA MountedIs ==
  ASSUME chat \in Chats, NEW i \in 1..Len(chat.mounts), MountedAt(i)
  PROVE  /\ IsPrefix(chat.mounts[i].host, chat.path)
         /\ OccursAt(chat.mounts[i].host, chat.path) \subseteq {1}
         /\ \A k \in 1..Len(chat.mounts) \ {i} :
              /\ IsPrefix(chat.mounts[k].host, chat.path)
                   => Len(chat.mounts[k].host) < Len(chat.mounts[i].host)
              /\ IsPrefix(chat.mounts[k].container, There(i))
                   => Len(chat.mounts[k].container) < Len(chat.mounts[i].container)
              /\ OccursAt(chat.mounts[k].host, There(i)) = {}
              /\ OccursAt(chat.mounts[k].host, chat.path) \subseteq {1}
<1>1. DOMAIN chat.mounts = 1..Len(chat.mounts)
  BY ChatPaths, LenProperties
<1>2. \A k \in 1..Len(chat.mounts) : chat.mounts[k] \in Range(chat.mounts)
  BY <1>1, Zenon DEF Range
<1>3. \A k \in 1..Len(chat.mounts) : OccursAt(chat.mounts[k].host, chat.path) \subseteq {1}
  BY <1>2, Zenon DEF MountedAt
<1> QED
  BY <1>1, <1>3, Zenon DEF MountedAt, There

LEMMA ThereIs ==
  ASSUME chat \in Chats, NEW i \in 1..Len(chat.mounts), MountedAt(i)
  PROVE  /\ From(chat.path, Len(chat.mounts[i].host) + 1) \in Paths
         /\ There(i) \in Paths /\ IsPrefix(chat.mounts[i].container, There(i))
         /\ chat.mounts[i].host \o From(There(i), Len(chat.mounts[i].container) + 1) = chat.path
<1> DEFINE h == chat.mounts[i].host
           c == chat.mounts[i].container
           r == From(chat.path, Len(h) + 1)
<1>1. h \in Paths /\ c \in Paths /\ chat.path \in Paths
  BY ChatPaths, MountIs DEF Paths
<1>2. IsPrefix(h, chat.path)
  BY MountedIs
<1> HIDE DEF h, c
<1>3. h \o r = chat.path /\ Len(h) + 1 \in 1..Len(chat.path) + 1
  BY <1>1, <1>2, JoinsRest
<1>4. r \in Paths
  BY <1>1, <1>3, FollowsIs
<1> HIDE DEF r
<1>5. c \o r \in Paths /\ IsPrefix(c, c \o r) /\ From(c \o r, Len(c) + 1) = r
  BY <1>1, <1>4, JoinedIs, RestOfJoined
<1>6. There(i) = c \o r
  BY DEF There, h, c, r
<1> QED
  BY <1>3, <1>4, <1>5, <1>6, Zenon DEF h, c, r

(* remapHostPathToContainer gives agy the path of the mount. *)
LEMMA PromptIs ==
  ASSUME chat \in Chats, NEW i \in 1..Len(chat.mounts), MountedAt(i)
  PROVE  Prompt = There(i)
<1> DEFINE M == chat.mounts
           N == Len(M)
           path == chat.path
           sorted == LongestFirst(M, "host")
<1>1. M \in Seq(Mounts) /\ path \in Paths /\ N \in Nat
  BY ChatPaths, LenProperties
<1>2. PICK q \in 1..N : StandsAt(sorted, M, "host", i, q)
  BY <1>1, LongestFirstIs
<1>3. sorted[q] = M[i] /\ M[i] \in Mounts
  BY <1>1, <1>2, MountIs DEF StandsAt
<1>4. Replaced(path, sorted[q]) = There(i)
  <2>1. Replaced(path, M[i]) = IF IsPrefix(M[i].host, path)
                               THEN M[i].container \o From(path, Len(M[i].host) + 1) ELSE path
    BY <1>1, <1>3, MountedIs, ReplacedIs
  <2> QED
    BY <1>3, <2>1, MountedIs DEF There
<1>5. ASSUME NEW p \in 1..N, p # q
      PROVE  p < q => Replaced(path, sorted[p]) = path
  <2>1. PICK k \in 1..N \ {i} :
          sorted[p] = M[k] /\ (p < q => Len(M[k]["host"]) >= Len(M[i]["host"]))
    BY <1>2, <1>5 DEF StandsAt
  <2>2. M[k] \in Mounts /\ Len(M[k].host) \in Nat /\ Len(M[i].host) \in Nat
    BY <1>1, <2>1, MountIs
  <2>3. /\ IsPrefix(M[k].host, path) => Len(M[k].host) < Len(M[i].host)
        /\ OccursAt(M[k].host, path) \subseteq {1}
    BY <2>1, MountedIs
  <2>4. Replaced(path, M[k]) = IF IsPrefix(M[k].host, path)
                               THEN M[k].container \o From(path, Len(M[k].host) + 1) ELSE path
    BY <1>1, <2>2, <2>3, ReplacedIs
  <2>5. p < q => ~IsPrefix(M[k].host, path)
    <3> DEFINE a == Len(M[k].host)
               b == Len(M[i].host)
    <3>1. /\ p < q => a >= b
          /\ IsPrefix(M[k].host, path) => a < b
          /\ a \in Nat /\ b \in Nat
      BY <2>1, <2>2, <2>3
    <3> HIDE DEF a, b
    <3> QED
      BY <3>1
  <2> QED
    BY <2>1, <2>4, <2>5
<1>6. ASSUME NEW p \in 1..N, p # q
      PROVE  Replaced(There(i), sorted[p]) = There(i)
  <2> DEFINE t == There(i)
  <2>1. PICK k \in 1..N \ {i} : sorted[p] = M[k]
    BY <1>2, <1>6 DEF StandsAt
  <2>2. M[k] \in Mounts /\ Len(M[k].host) \in Nat \ {0} /\ t \in Paths
    BY <1>1, <2>1, MountIs, ThereIs
  <2>3. OccursAt(M[k].host, t) = {}
    BY <2>1, MountedIs
  <2> HIDE DEF t
  <2>4. ~IsPrefix(M[k].host, t)
    <3> SUFFICES ASSUME IsPrefix(M[k].host, t)  PROVE FALSE
      OBVIOUS
    <3>1. Len(M[k].host) <= Len(t) /\ Len(t) \in Nat /\ DOMAIN t = 1..Len(t)
      BY <2>2, LenProperties DEF IsPrefix, Paths
    <3>2. 1 \in DOMAIN t
      BY <2>2, <3>1
    <3>3. From(t, 1) = t
      BY <2>2, FromFirst
    <3>4. 1 \in OccursAt(M[k].host, t)
      BY <3>2, <3>3 DEF OccursAt
    <3> QED
      BY <2>3, <3>4
  <2>5. Replaced(t, M[k]) = IF IsPrefix(M[k].host, t)
                            THEN M[k].container \o From(t, Len(M[k].host) + 1) ELSE t
    BY <2>2, <2>3, ReplacedIs
  <2> QED
    BY <2>1, <2>4, <2>5 DEF t
<1> DEFINE f == [n \in 0..N |-> IF n < q THEN path ELSE There(i)]
           g == CHOOSE r : r = [n \in 0..N |->
                  IF n = 0 THEN path ELSE Replaced(r[n - 1], sorted[n])]
<1>7. Prompt = g[N]
  BY DEF Prompt, RemapHostPathToContainer
<1> HIDE DEF sorted, N, path, g
<1>8. ASSUME NEW n \in 0..N
      PROVE  f[n] = IF n = 0 THEN path ELSE Replaced(f[n - 1], sorted[n])
  <2>1. f[n] = IF n < q THEN path ELSE There(i)
    OBVIOUS
  <2>2. CASE n = 0
    BY <1>2, <2>1, <2>2
  <2>3. CASE n # 0
    <3>1. n - 1 \in 0..N /\ n \in 1..N
      BY <1>1, <2>3
    <3>2. f[n - 1] = IF n - 1 < q THEN path ELSE There(i)
      BY <3>1
    <3> HIDE DEF f
    <3>3. CASE n < q
      <4>1. n - 1 < q /\ n # q
        BY <1>2, <3>1, <3>3
      <4>2. f[n] = path /\ f[n - 1] = path
        BY <2>1, <3>2, <3>3, <4>1
      <4> QED
        BY <1>5, <2>3, <3>1, <3>3, <4>1, <4>2
    <3>4. CASE n = q
      <4>1. n - 1 < q /\ ~(n < q)
        BY <1>2, <3>1, <3>4
      <4>2. f[n] = There(i) /\ f[n - 1] = path
        BY <2>1, <3>2, <4>1
      <4> QED
        BY <1>4, <2>3, <3>4, <4>2
    <3>5. CASE ~(n < q) /\ n # q
      <4>1. ~(n - 1 < q)
        BY <1>2, <3>1, <3>5
      <4>2. f[n] = There(i) /\ f[n - 1] = There(i)
        BY <2>1, <3>2, <3>5, <4>1
      <4> QED
        BY <1>6, <2>3, <3>1, <3>5, <4>2
    <3> QED
      BY <3>3, <3>4, <3>5
  <2> QED
    BY <2>2, <2>3
<1>9. f[N] = There(i)
  <2>1. N \in 0..N /\ ~(N < q)
    BY <1>1, <1>2
  <2> QED
    BY <2>1
<1>10. RemapsUpTo(f, path, sorted, N)
  <2>1. f = [n \in 0..N |-> f[n]]
    OBVIOUS
  <2> HIDE DEF f
  <2> QED
    BY <1>8, <2>1 DEF RemapsUpTo
<1> HIDE DEF f
<1>11. RemapsUpTo(g, path, sorted, N)
  BY <1>10, Zenon DEF RemapsUpTo, g
<1>12. g[N] = f[N]
  BY <1>1, <1>10, <1>11, RemapsOneWay
<1> QED
  BY <1>7, <1>9, <1>12

(* remapPath gives the host its own path back. *)
LEMMA RemapsBack ==
  ASSUME chat \in Chats, NEW i \in 1..Len(chat.mounts), MountedAt(i)
  PROVE  RemapPath(There(i), chat.mounts) = chat.path
<1> DEFINE M == chat.mounts
           N == Len(M)
           t == There(i)
           sorted == LongestFirst(M, "container")
           around == {p \in DOMAIN sorted : IsPrefix(sorted[p].container, t)}
<1>1. M \in Seq(Mounts) /\ N \in Nat
  BY ChatPaths, LenProperties
<1>2. DOMAIN sorted = 1..N /\ \E q \in 1..N : StandsAt(sorted, M, "container", i, q)
  BY <1>1, LongestFirstIs
<1>3. PICK q \in 1..N : StandsAt(sorted, M, "container", i, q)
  BY <1>2
<1>4. sorted[q] = M[i]
  BY <1>3 DEF StandsAt
<1>5. IsPrefix(M[i].container, t) /\ M[i].host \o From(t, Len(M[i].container) + 1) = chat.path
  BY ThereIs
<1>6. RemapPath(t, M) =
        LET first == sorted[CHOOSE p \in around : \A o \in around : p <= o]
        IN  IF around = {} THEN t ELSE first.host \o From(t, Len(first.container) + 1)
  BY DEF RemapPath, Remapped
<1> HIDE DEF sorted, t
<1>7. q \in around
  BY <1>2, <1>4, <1>5
<1>8. ASSUME NEW p \in around  PROVE q <= p /\ p \in Nat /\ q \in Nat
  <2>1. p \in 1..N /\ IsPrefix(sorted[p].container, t)
    BY <1>2
  <2>2. CASE p # q
    <3>1. PICK k \in 1..N \ {i} :
            sorted[p] = M[k] /\ (p < q => Len(M[k]["container"]) >= Len(M[i]["container"]))
      BY <1>3, <2>1, <2>2 DEF StandsAt
    <3>2. Len(M[k].container) \in Nat /\ Len(M[i].container) \in Nat
      BY <1>1, <3>1, MountIs
    <3>3. Len(M[k].container) < Len(M[i].container)
      BY <2>1, <3>1, MountedIs DEF t
    <3>4. ~(p < q)
      BY <3>1, <3>2, <3>3
    <3> HIDE DEF N
    <3> QED
      BY <1>1, <2>1, <3>4
  <2> HIDE DEF N
  <2> QED
    BY <1>1, <2>1, <2>2
<1> HIDE DEF around
<1>9. (CHOOSE p \in around : \A o \in around : p <= o) = q
  <2>1. \A p \in around : (\A o \in around : p <= o) => p = q
    BY <1>7, <1>8
  <2>2. \A o \in around : q <= o
    BY <1>8
  <2> QED
    BY <1>7, <2>1, <2>2
<1> QED
  BY <1>4, <1>5, <1>6, <1>7, <1>9 DEF t

(* A file that the host is asked for is the client's, when that is mounted at one place. *)
LEMMA NamedPathFollows ==
  ASSUME StreamTypes
  PROVE  HostGetsNamedPath
<1> SUFFICES ASSUME NEW f \in DOMAIN frames, frames[f].kind = "tool", frames[f].call.name = "read",
                    NEW i \in DOMAIN chat.mounts, MountedAt(i)
             PROVE  frames[f].call.value = chat.path
  BY DEF HostGetsNamedPath
<1>1. chat \in Chats /\ frames[f] \in Frames
  BY ElementOfSeq, LenProperties DEF StreamTypes
<1>2. i \in 1..Len(chat.mounts)
  BY <1>1, ChatPaths, LenProperties
<1>3. PICK e \in Events :
        /\ Bridged(e.tool)
        /\ frames[f].call = TranslateToolCall(e.tool, Argument(e.tool), chat.mounts)
  BY <1>1 DEF Frames, TextFrame, ToolFrame
<1>4. e.tool = "view_file"
  <2>1. e.tool \in {"view_file", "run_command"} /\ HostName[e.tool] = "read"
    BY <1>3 DEF Bridged, HostName, TranslateToolCall
  <2> QED
    BY <2>1 DEF HostName
<1>5. Argument(e.tool) = There(i)
  BY <1>1, <1>2, <1>4, PromptIs DEF Argument
<1>6. frames[f].call.value = RemapPath(There(i), chat.mounts)
  BY <1>3, <1>5 DEF TranslateToolCall
<1> QED
  BY <1>1, <1>2, <1>6, RemapsBack

(* A bridged call gives the host the path that the client named, however the mounts are
   ordered and nested: remapPath undoes what remapHostPathToContainer did to the prompt. *)
THEOREM NamedPathComesBack == Spec => []HostGetsNamedPath
<1>1. StreamInv => HostGetsNamedPath
  BY NamedPathFollows DEF StreamInv
<1> QED
  BY <1>1, StreamInvariant, PTL
===============================================================================
