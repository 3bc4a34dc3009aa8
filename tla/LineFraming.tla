------------------------------ MODULE LineFraming ------------------------------
(***************************************************************************)
(* How NdjsonStreamParser (src/protocol-parser.ts, over ByteAccumulator)   *)
(* cuts a stream into lines.  agy's stdout reaches it in chunks that end   *)
(* anywhere: inside a line, between CR and LF, between the two halves of a *)
(* surrogate pair.  A line that outgrows the buffer is skipped up to its   *)
(* end.  What a line means is the business of ProtocolState.               *)
(*                                                                         *)
(* A unit is a UTF-16 code unit: "H" and "L" are the halves of a pair, "x" *)
(* any other character.  Encoded, a pair is four bytes "p", a half on its  *)
(* own the three bytes "r" of U+FFFD, everything else one byte. Operators  *)
(* named Mut... are faulty variants that no action uses: each is put in    *)
(* the place of the definition it precedes to see a property fail.         *)
(***************************************************************************)
EXTENDS Naturals, Sequences, FiniteSets, SequencesExt

CONSTANTS MaxPendingLineBytes,   \* the cap of the pending line
          ChunkUnits,            \* bound of the model: units in a chunk
          StreamUnits            \* bound of the model: units in the stream

ASSUME PendingAssumption == MaxPendingLineBytes \in Nat \ {0}

VARIABLES
  pending,               \* the bytes received and not yet cut into lines
  pendingHighSurrogate,  \* a high half waiting for its low half: <<"H">> or <<>>
  skippingLine,          \* the current line is being thrown away
  skippedBytes,          \* how much of it was
  ended,                 \* finish() was called
  reports,               \* what became of each line, by line number
  stream                 \* history: every unit received, in order

vars == <<pending, pendingHighSurrogate, skippingLine, skippedBytes, ended, reports,
          stream>>

Units == {"x", "CR", "LF", "H", "L"}
Bytes == {"x", "CR", "LF", "p", "r"}

Line(bytes) == [skipped |-> FALSE, bytes |-> bytes, size |-> Len(bytes)]
TooLong(size) == [skipped |-> TRUE, bytes |-> <<>>, size |-> size]

Init ==
  /\ pending = <<>>
  /\ pendingHighSurrogate = <<>>
  /\ skippingLine = FALSE
  /\ skippedBytes = 0
  /\ ended = FALSE
  /\ reports = <<>>
  /\ stream = <<>>

-------------------------------------------------------------------------------
(* TextEncoder on a text: an H and an L next to each other are one character. *)
Encode(text) ==
  FlattenSeq([i \in DOMAIN text |->
    IF text[i] = "H" /\ i < Len(text) /\ text[i + 1] = "L" THEN <<"p", "p", "p", "p">>
    ELSE IF text[i] = "L" /\ i > 1 /\ text[i - 1] = "H" THEN <<>>
    ELSE IF text[i] \in {"H", "L"} THEN <<"r", "r", "r">>
    ELSE <<text[i]>>])

Newlines(bytes) == {i \in DOMAIN bytes : bytes[i] = "LF"}
FirstNewline(bytes) == CHOOSE i \in Newlines(bytes) : \A k \in Newlines(bytes) : i <= k
After(bytes, i) == SubSeq(bytes, i + 1, Len(bytes))

(* takeLine and takeAll: one CR before the end of the line is not part of it. *)
WithoutCR(bytes) ==
  IF bytes # <<>> /\ Last(bytes) = "CR" THEN Front(bytes) ELSE bytes

-------------------------------------------------------------------------------
(* One turn of processPending's loop; a turn that changes nothing ends it. *)
MutTurnUncapped(s) ==
  LET newline == FirstNewline(s.pending)
      line == WithoutCR(SubSeq(s.pending, 1, newline - 1))
  IN IF Newlines(s.pending) = {} THEN s
     ELSE [s EXCEPT !.pending = After(s.pending, newline),
                    !.reports = Append(@, IF Len(line) > MaxPendingLineBytes
                                          THEN TooLong(Len(line)) ELSE Line(line))]

Turn(s) ==
  LET newline == FirstNewline(s.pending)
      line == WithoutCR(SubSeq(s.pending, 1, newline - 1))
  IN IF s.pending = <<>> THEN s
     ELSE IF s.skipping
     THEN IF Newlines(s.pending) = {}
          THEN [s EXCEPT !.pending = <<>>, !.skipped = @ + Len(s.pending)]
          ELSE [s EXCEPT !.pending = After(s.pending, newline), !.skipping = FALSE,
                         !.skipped = 0,
                         !.reports = Append(@, TooLong(s.skipped + newline - 1))]
     ELSE IF Newlines(s.pending) = {}
     THEN IF Len(s.pending) > MaxPendingLineBytes
          THEN [s EXCEPT !.pending = <<>>, !.skipping = TRUE, !.skipped = Len(s.pending)]
          ELSE s
     ELSE [s EXCEPT !.pending = After(s.pending, newline),
                    !.reports = Append(@, IF Len(line) > MaxPendingLineBytes
                                          THEN TooLong(Len(line)) ELSE Line(line))]

(* processPending over these bytes: a turn per line, and one for what is left. *)
AfterTurns(bytes) ==
  LET turns[n \in 0..Len(bytes) + 1] ==
        IF n = 0
        THEN [pending |-> bytes, skipping |-> skippingLine, skipped |-> skippedBytes,
              reports |-> reports]
        ELSE Turn(turns[n - 1])
  IN turns[Len(bytes) + 1]

ProcessPending(bytes) ==
  LET final == AfterTurns(bytes)
  IN /\ pending' = final.pending
     /\ skippingLine' = final.skipping
     /\ skippedBytes' = final.skipped
     /\ reports' = final.reports

-------------------------------------------------------------------------------
MutPush(chunk) ==
  /\ ~ended
  /\ pendingHighSurrogate' = <<>>
  /\ ProcessPending(pending \o Encode(chunk))
  /\ stream' = stream \o chunk
  /\ UNCHANGED ended

(* push of a string chunk: appendStringChunk holds a high half at the end of the
   chunk back, and joins one held back earlier to what follows it. *)
Push(chunk) ==
  LET text == pendingHighSurrogate \o chunk
      held == Last(chunk) = "H"
  IN /\ ~ended
     /\ pendingHighSurrogate' = IF held THEN <<"H">> ELSE <<>>
     /\ ProcessPending(pending \o Encode(IF held THEN Front(text) ELSE text))
     /\ stream' = stream \o chunk
     /\ UNCHANGED ended

(* push of a byte chunk, here of one-byte characters: flushStringSeam first. *)
PushBytes(chunk) ==
  /\ ~ended
  /\ pendingHighSurrogate' = <<>>
  /\ ProcessPending(pending \o Encode(pendingHighSurrogate) \o chunk)
  /\ stream' = stream \o chunk
  /\ UNCHANGED ended

(* finish(): the seam is flushed and the unterminated tail is the last line. *)
Finish ==
  LET bytes == pending \o Encode(pendingHighSurrogate)
      tail == WithoutCR(bytes)
  IN /\ ~ended
     /\ ended' = TRUE
     /\ pendingHighSurrogate' = <<>>
     /\ skippingLine' = FALSE
     /\ \/ /\ skippingLine
           /\ skippedBytes' = skippedBytes + Len(bytes)
           /\ reports' = Append(reports, TooLong(skippedBytes'))
           /\ pending' = bytes
        \/ /\ ~skippingLine
           /\ reports' = IF tail = <<>> THEN reports ELSE Append(reports, Line(tail))
           /\ pending' = <<>>
           /\ UNCHANGED skippedBytes
     /\ UNCHANGED stream

ChunksOf(alphabet) == UNION {[1..n -> alphabet] : n \in 1..ChunkUnits}

Next ==
  \/ \E chunk \in ChunksOf(Units) :
       Len(stream) + Len(chunk) <= StreamUnits /\ Push(chunk)
  \/ \E chunk \in ChunksOf({"x", "CR", "LF"}) :
       Len(stream) + Len(chunk) <= StreamUnits /\ PushBytes(chunk)
  \/ Finish

Spec == Init /\ [][Next]_vars

-------------------------------------------------------------------------------
(* Every variable has its type.  Between two chunks the buffer holds a part of one line,
   within the cap, and nothing at all while that line is being skipped. *)
TypeOK ==
  /\ pending \in Seq(Bytes)
  /\ pendingHighSurrogate \in {<<>>, <<"H">>}
  /\ skippingLine \in BOOLEAN /\ ended \in BOOLEAN
  /\ skippedBytes \in Nat
  /\ \A i \in DOMAIN reports :
       reports[i] \in [skipped : BOOLEAN, bytes : Seq(Bytes \ {"LF"}), size : Nat]
  /\ stream \in Seq(Units)
  /\ ~ended => /\ Len(pending) <= MaxPendingLineBytes
               /\ Newlines(pending) = {}
               /\ skippingLine => pending = <<>> /\ skippedBytes > MaxPendingLineBytes

(* The stream as one text: the bytes it has come to, and its lines, each with what
   stood before its end; the last one is unterminated. *)
Whole == Encode(IF ended \/ pendingHighSurrogate = <<>> THEN stream ELSE Front(stream))
LineCount == Cardinality(Newlines(Whole))
EndOf(k) ==
  IF k > LineCount THEN Len(Whole) + 1
  ELSE CHOOSE i \in Newlines(Whole) : Cardinality({j \in Newlines(Whole) : j <= i}) = k
RawLine(k) == SubSeq(Whole, IF k = 1 THEN 1 ELSE EndOf(k - 1) + 1, EndOf(k) - 1)

(* "Accepts arbitrary string/Uint8Array chunks ..., CRLF or LF line endings"
   (src/protocol-parser.ts:4-6): however the stream was cut into chunks, line k of the
   stream is reported as line k, and so is the tail when it ends: exactly its bytes, or
   skipped, with its size, when it is over the cap.  A skipped line costs no other line,
   and no character falls in a seam.  Where the chunks end shows in two cases only,
   although tests/protocol-bounds.test.ts:145 says in none: a line that is over the cap
   with its CR alone may be skipped, and a lone high half at the end of the stream may
   exceed the cap. *)
LinesFaithful ==
  LET tail == RawLine(LineCount + 1)
      reported == IF ended /\ WithoutCR(tail) # <<>> THEN LineCount + 1 ELSE LineCount
      Excess(k) == IF k > LineCount /\ Last(stream) = "H" THEN 3 ELSE 0
  IN /\ Len(reports) = reported
     /\ \A k \in 1..reported :
          \/ /\ reports[k] = Line(WithoutCR(RawLine(k)))
             /\ reports[k].size <= MaxPendingLineBytes + Excess(k)
          \/ /\ reports[k] \in {TooLong(Len(RawLine(k))), TooLong(Len(WithoutCR(RawLine(k))))}
             /\ Len(RawLine(k)) > MaxPendingLineBytes
===============================================================================
