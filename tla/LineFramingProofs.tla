--------------------------- MODULE LineFramingProofs ---------------------------
(***************************************************************************)
(* What the framing promises, for any stream cut anywhere and any cap:     *)
(* every line of it is sent on once, in order, whole or skipped with its   *)
(* size.  Cut says how a part of the stream that was processed divides     *)
(* into the lines reported and the rest; a turn of processPending keeps it *)
(* (TurnKeeps), there are turns enough (LoopSettles), and the bytes that a *)
(* chunk adds leave it true of the longer stream (CutGrows).               *)
(***************************************************************************)
EXTENDS LineFraming, SequenceLemmas

Reports == [skipped : BOOLEAN, bytes : Seq(Bytes \ {"LF"}), size : Nat]
LoopStates == [pending : Seq(Bytes), skipping : BOOLEAN, skipped : Nat, reports : Seq(Reports)]

(* What is reported of a line: its bytes, or that it was skipped. *)
Verdict(v, raw) ==
  \/ v = Line(WithoutCR(raw)) /\ v.size <= MaxPendingLineBytes
  \/ /\ v \in {TooLong(Len(raw)), TooLong(Len(WithoutCR(raw)))}
     /\ Len(raw) > MaxPendingLineBytes

(* The first n lines of the text t end at e[1], ..., e[n]. *)
Ends(e, t, n) ==
  /\ e \in [0..n -> 0..Len(t)]
  /\ e[0] = 0
  /\ \A k \in 1..n : e[k - 1] < e[k] /\ t[e[k]] = "LF"
  /\ \A k \in 1..n : \A j \in e[k - 1] + 1..e[k] - 1 : t[j] # "LF"

(* Each of them was reported. *)
Reported(e, t, r) ==
  \A k \in 1..Len(r) : Verdict(r[k], SubSeq(t, e[k - 1] + 1, e[k] - 1))

(* After the line that ends at last, the loop skipped some of the next one, and the rest of
   the text is pending. *)
Rests(last, t, s) ==
  /\ last + s.skipped + Len(s.pending) = Len(t)
  /\ \A j \in last + 1..last + s.skipped : t[j] # "LF"
  /\ \A j \in 1..Len(s.pending) : s.pending[j] = t[last + s.skipped + j]
  /\ IF s.skipping THEN s.skipped > MaxPendingLineBytes ELSE s.skipped = 0

Cut(s, t) ==
  \E e : Ends(e, t, Len(s.reports)) /\ Reported(e, t, s.reports)
           /\ Rests(e[Len(s.reports)], t, s)

(* The loop has nothing left to do. *)
Settled(s) ==
  \/ s.pending = <<>>
  \/ ~s.skipping /\ Newlines(s.pending) = {} /\ Len(s.pending) <= MaxPendingLineBytes

-------------------------------------------------------------------------------
(* A part of a text is again a text, of the same elements at other places. *)
LEMMA PartIs ==
  ASSUME NEW S, NEW t \in Seq(S), NEW from \in Nat, NEW upto \in Nat,
         1 <= from, from <= upto + 1, upto <= Len(t)
  PROVE  /\ SubSeq(t, from, upto) \in Seq(S)
         /\ Len(SubSeq(t, from, upto)) = upto + 1 - from
         /\ \A j \in 1..upto + 1 - from : SubSeq(t, from, upto)[j] = t[(from - 1) + j]
<1>1. Len(t) \in Nat /\ \A k \in from..upto : t[k] \in S
  BY LenProperties, ElementOfSeq
<1>2. /\ SubSeq(t, from, upto) \in Seq(S)
      /\ Len(SubSeq(t, from, upto)) = IF from <= upto THEN upto - from + 1 ELSE 0
      /\ \A j \in 1..upto - from + 1 : SubSeq(t, from, upto)[j] = t[from + j - 1]
  BY <1>1, SubSeqProperties
<1>3. ASSUME NEW j \in 1..upto + 1 - from
      PROVE  SubSeq(t, from, upto)[j] = t[(from - 1) + j]
  <2>1. j \in 1..upto - from + 1 /\ from + j - 1 = (from - 1) + j
    OBVIOUS
  <2> QED
    BY <1>2, <2>1
<1> QED
  BY <1>2, <1>3

LEMMA WithoutCRKeeps ==
  ASSUME NEW S, NEW raw \in Seq(S)
  PROVE  /\ WithoutCR(raw) \in Seq(S)
         /\ Len(WithoutCR(raw)) \in Nat /\ Len(raw) \in Nat
         /\ Len(WithoutCR(raw)) <= Len(raw) /\ Len(raw) <= Len(WithoutCR(raw)) + 1
<1>1. Len(raw) \in Nat /\ \A i \in 1..Len(raw) : raw[i] \in S
  BY LenProperties, ElementOfSeq
<1>2. CASE raw # <<>> /\ Last(raw) = "CR"
  <2>1. WithoutCR(raw) = SubSeq(raw, 1, Len(raw) - 1)
    BY <1>2 DEF WithoutCR, Front
  <2>2. Len(raw) # 0
    BY <1>2, EmptySeq
  <2>3. /\ SubSeq(raw, 1, Len(raw) - 1) \in Seq(S)
        /\ Len(SubSeq(raw, 1, Len(raw) - 1)) = Len(raw) - 1
    <3> DEFINE upto == Len(raw) - 1
    <3>1. 1 \in Nat /\ upto \in Nat /\ 1 <= 1 /\ 1 <= upto + 1 /\ upto <= Len(raw)
      BY <1>1, <2>2
    <3> HIDE DEF upto
    <3>2. SubSeq(raw, 1, upto) \in Seq(S) /\ Len(SubSeq(raw, 1, upto)) = upto + 1 - 1
      BY <3>1, PartIs
    <3>3. upto + 1 - 1 = upto
      BY <3>1
    <3> QED
      BY <3>2, <3>3, Zenon DEF upto
  <2>4. WithoutCR(raw) \in Seq(S) /\ Len(WithoutCR(raw)) = Len(raw) - 1
    BY <2>1, <2>3, Zenon
  <2> QED
    BY <1>1, <2>2, <2>4
<1>3. CASE ~(raw # <<>> /\ Last(raw) = "CR")
  <2>1. WithoutCR(raw) = raw
    BY <1>3 DEF WithoutCR
  <2> QED
    BY <1>1, <2>1
<1> QED
  BY <1>2, <1>3

(* The first newline is the first. *)
LEMMA FirstNewlineIs ==
  ASSUME NEW b \in Seq(Bytes), Newlines(b) # {}
  PROVE  /\ FirstNewline(b) \in 1..Len(b) /\ Len(b) \in Nat
         /\ b[FirstNewline(b)] = "LF"
         /\ \A j \in 1..FirstNewline(b) - 1 : b[j] # "LF"
<1>1. Len(b) \in Nat /\ DOMAIN b = 1..Len(b)
  BY LenProperties
<1>2. Newlines(b) \subseteq Nat
  BY <1>1 DEF Newlines
<1>3. \E i \in Newlines(b) : \A k \in Newlines(b) : i <= k
  BY <1>2, LeastOf
<1>4. FirstNewline(b) \in Newlines(b) /\ \A k \in Newlines(b) : FirstNewline(b) <= k
  BY <1>3 DEF FirstNewline
<1>5. FirstNewline(b) \in 1..Len(b) /\ b[FirstNewline(b)] = "LF"
  BY <1>1, <1>4 DEF Newlines
<1>6. ASSUME NEW j \in 1..FirstNewline(b) - 1  PROVE b[j] # "LF"
  <2>1. j \in DOMAIN b /\ ~(FirstNewline(b) <= j)
    BY <1>1, <1>5
  <2> QED
    BY <1>4, <2>1 DEF Newlines
<1> QED
  BY <1>1, <1>5, <1>6

LEMMA AfterIs ==
  ASSUME NEW b \in Seq(Bytes), NEW i \in 1..Len(b)
  PROVE  /\ After(b, i) \in Seq(Bytes) /\ Len(b) \in Nat
         /\ Len(After(b, i)) = Len(b) - i
         /\ \A j \in 1..Len(b) - i : After(b, i)[j] = b[i + j]
<1>1. Len(b) \in Nat /\ \A k \in 1..Len(b) : b[k] \in Bytes
  BY LenProperties, ElementOfSeq
<1>2. i + 1 \in Int /\ Len(b) \in Int /\ \A k \in i + 1..Len(b) : b[k] \in Bytes
  BY <1>1
<1>3. /\ SubSeq(b, i + 1, Len(b)) \in Seq(Bytes)
      /\ Len(SubSeq(b, i + 1, Len(b))) = IF i + 1 <= Len(b) THEN Len(b) - (i + 1) + 1 ELSE 0
      /\ \A k \in 1..Len(b) - (i + 1) + 1 : SubSeq(b, i + 1, Len(b))[k] = b[(i + 1) + k - 1]
  BY <1>2, SubSeqProperties
<1>4. Len(SubSeq(b, i + 1, Len(b))) = Len(b) - i
  BY <1>1, <1>3
<1>5. ASSUME NEW j \in 1..Len(b) - i  PROVE SubSeq(b, i + 1, Len(b))[j] = b[i + j]
  <2>1. j \in 1..Len(b) - (i + 1) + 1 /\ (i + 1) + j - 1 = i + j
    BY <1>1
  <2> QED
    BY <1>3, <2>1
<1> QED
  BY <1>1, <1>3, <1>4, <1>5 DEF After

(* One more line ends at p. *)
LEMMA OneMoreEnd ==
  ASSUME NEW t \in Seq(Bytes), NEW n \in Nat, NEW e, Ends(e, t, n),
         NEW p \in 1..Len(t), e[n] < p, t[p] = "LF", \A j \in e[n] + 1..p - 1 : t[j] # "LF"
  PROVE  \E f : Ends(f, t, n + 1) /\ f[n + 1] = p /\ \A k \in 0..n : f[k] = e[k]
<1> DEFINE f == [k \in 0..n + 1 |-> IF k = n + 1 THEN p ELSE e[k]]
<1>1. Len(t) \in Nat /\ e \in [0..n -> 0..Len(t)] /\ e[0] = 0
  BY LenProperties DEF Ends
<1>2. f \in [0..n + 1 -> 0..Len(t)]
  BY <1>1
<1>3. f[n + 1] = p /\ \A k \in 0..n : f[k] = e[k]
  BY <1>1
<1> HIDE DEF f
<1>4. ASSUME NEW k \in 1..n + 1
      PROVE  /\ f[k - 1] < f[k] /\ t[f[k]] = "LF"
             /\ \A j \in f[k - 1] + 1..f[k] - 1 : t[j] # "LF"
  <2>1. CASE k = n + 1
    <3>1. k - 1 = n /\ n \in 0..n
      BY <2>1
    <3>2. f[k] = p /\ f[k - 1] = e[n]
      BY <1>3, <2>1, <3>1
    <3> QED
      BY <3>2
  <2>2. CASE k \in 1..n
    <3>1. k \in 0..n /\ k - 1 \in 0..n
      BY <2>2
    <3>2. f[k] = e[k] /\ f[k - 1] = e[k - 1]
      BY <1>3, <3>1
    <3> QED
      BY <2>2, <3>2 DEF Ends
  <2> QED
    BY <2>1, <2>2
<1>5. f[0] = 0
  BY <1>1, <1>3
<1>6. Ends(f, t, n + 1)
  BY <1>2, <1>4, <1>5 DEF Ends
<1> QED
  BY <1>3, <1>6

(* A line that was not skipped is reported with its bytes, within the cap, or as too long. *)
LEMMA LineVerdict ==
  ASSUME NEW raw \in Seq(Bytes \ {"LF"})
  PROVE  LET v == IF Len(WithoutCR(raw)) > MaxPendingLineBytes
                  THEN TooLong(Len(WithoutCR(raw))) ELSE Line(WithoutCR(raw))
         IN v \in Reports /\ Verdict(v, raw)
<1> DEFINE w == WithoutCR(raw)
<1>1. w \in Seq(Bytes \ {"LF"}) /\ Len(w) \in Nat /\ Len(raw) \in Nat /\ Len(w) <= Len(raw)
  BY WithoutCRKeeps
<1>2. <<>> \in Seq(Bytes \ {"LF"})
  BY EmptySeq
<1>3. MaxPendingLineBytes \in Nat
  BY PendingAssumption
<1> HIDE DEF w
<1>4. CASE Len(w) > MaxPendingLineBytes
  <2>1. TooLong(Len(w)) \in Reports
    BY <1>1, <1>2 DEF TooLong, Reports
  <2>2. Len(raw) > MaxPendingLineBytes
    BY <1>1, <1>3, <1>4
  <2>3. Verdict(TooLong(Len(w)), raw)
    BY <2>2 DEF Verdict, w
  <2> QED
    BY <1>4, <2>1, <2>3 DEF w
<1>5. CASE ~(Len(w) > MaxPendingLineBytes)
  <2>1. Line(w) \in Reports /\ Line(w).size = Len(w)
    BY <1>1 DEF Line, Reports
  <2>2. Line(w).size <= MaxPendingLineBytes
    BY <1>1, <1>3, <1>5, <2>1
  <2>3. Verdict(Line(w), raw)
    BY <2>2 DEF Verdict, w
  <2> QED
    BY <1>5, <2>1, <2>3 DEF w
<1> QED
  BY <1>4, <1>5

(* A report joins those of the lines before. *)
LEMMA OneMoreReport ==
  ASSUME NEW t \in Seq(Bytes), NEW r \in Seq(Reports), NEW e,
         Ends(e, t, Len(r)), Reported(e, t, r),
         NEW p \in 1..Len(t), e[Len(r)] < p, t[p] = "LF",
         \A j \in e[Len(r)] + 1..p - 1 : t[j] # "LF",
         NEW v \in Reports, Verdict(v, SubSeq(t, e[Len(r)] + 1, p - 1))
  PROVE  /\ Append(r, v) \in Seq(Reports)
         /\ \E f : /\ Ends(f, t, Len(Append(r, v))) /\ Reported(f, t, Append(r, v))
                   /\ f[Len(Append(r, v))] = p
<1> DEFINE n == Len(r)
           r2 == Append(r, v)
<1>1. n \in Nat
  BY LenProperties
<1>2. /\ r2 \in Seq(Reports) /\ Len(r2) = n + 1 /\ r2[n + 1] = v
      /\ \A k \in 1..n : r2[k] = r[k]
  BY AppendProperties
<1>3. PICK f : Ends(f, t, n + 1) /\ f[n + 1] = p /\ \A k \in 0..n : f[k] = e[k]
  BY <1>1, OneMoreEnd
<1> HIDE DEF r2
<1>4. ASSUME NEW k \in 1..n + 1
      PROVE  Verdict(r2[k], SubSeq(t, f[k - 1] + 1, f[k] - 1))
  <2>1. CASE k = n + 1
    <3>1. k - 1 = n /\ n \in 0..n
      BY <1>1, <2>1
    <3>2. f[k - 1] = e[n] /\ f[k] = p /\ r2[k] = v
      BY <1>2, <1>3, <2>1, <3>1
    <3> QED
      BY <3>2
  <2>2. CASE k \in 1..n
    <3>1. k \in 0..n /\ k - 1 \in 0..n
      BY <1>1, <2>2
    <3>2. f[k - 1] = e[k - 1] /\ f[k] = e[k] /\ r2[k] = r[k]
      BY <1>2, <1>3, <2>2, <3>1
    <3>3. Verdict(r[k], SubSeq(t, e[k - 1] + 1, e[k] - 1))
      BY <2>2 DEF Reported
    <3> QED
      BY <3>2, <3>3
  <2> QED
    BY <1>1, <2>1, <2>2
<1>5. Reported(f, t, r2)
  BY <1>2, <1>4 DEF Reported
<1> QED
  BY <1>2, <1>3, <1>5 DEF r2

(* What stands pending before a newline is what the text has there. *)
LEMMA SameLine ==
  ASSUME NEW t \in Seq(Bytes), NEW b \in Seq(Bytes), NEW last \in Nat, NEW i \in 1..Len(b),
         last + Len(b) = Len(t), \A j \in 1..Len(b) : b[j] = t[last + j]
  PROVE  SubSeq(b, 1, i - 1) = SubSeq(t, last + 1, last + i - 1)
<1>1. Len(b) \in Nat /\ Len(t) \in Nat
  BY LenProperties
<1>2. /\ 1 \in Nat /\ i - 1 \in Nat /\ 1 <= 1 /\ 1 <= (i - 1) + 1 /\ i - 1 <= Len(b)
      /\ last + 1 \in Nat /\ last + i - 1 \in Nat /\ 1 <= last + 1
      /\ last + 1 <= (last + i - 1) + 1 /\ last + i - 1 <= Len(t)
  BY <1>1
<1> DEFINE x == SubSeq(b, 1, i - 1)
           y == SubSeq(t, last + 1, last + i - 1)
<1>3. /\ x \in Seq(Bytes) /\ Len(x) = (i - 1) + 1 - 1
      /\ \A j \in 1..(i - 1) + 1 - 1 : x[j] = b[(1 - 1) + j]
  BY <1>2, PartIs
<1>4. /\ y \in Seq(Bytes) /\ Len(y) = (last + i - 1) + 1 - (last + 1)
      /\ \A j \in 1..(last + i - 1) + 1 - (last + 1) : y[j] = t[((last + 1) - 1) + j]
  BY <1>2, PartIs
<1> HIDE DEF x, y
<1>5. Len(x) = i - 1 /\ Len(y) = i - 1
  BY <1>1, <1>3, <1>4
<1>6. ASSUME NEW j \in 1..i - 1  PROVE x[j] = y[j]
  <2>1. /\ j \in 1..(i - 1) + 1 - 1 /\ (1 - 1) + j = j /\ j \in 1..Len(b)
        /\ j \in 1..(last + i - 1) + 1 - (last + 1) /\ ((last + 1) - 1) + j = last + j
    BY <1>1
  <2> QED
    BY <1>3, <1>4, <2>1
<1>7. x = y
  BY <1>3, <1>4, <1>5, <1>6, SeqEqual
<1> QED
  BY <1>7 DEF x, y

(* Between two newlines a text has none. *)
LEMMA LineHasNoNewline ==
  ASSUME NEW t \in Seq(Bytes), NEW from \in Nat, NEW upto \in Nat,
         1 <= from, from <= upto + 1, upto <= Len(t), \A j \in from..upto : t[j] # "LF"
  PROVE  SubSeq(t, from, upto) \in Seq(Bytes \ {"LF"})
<1>1. Len(t) \in Nat /\ \A k \in 1..Len(t) : t[k] \in Bytes
  BY LenProperties, ElementOfSeq
<1>2. \A k \in from..upto : t[k] \in Bytes \ {"LF"}
  BY <1>1
<1> QED
  BY <1>2, SubSeqProperties

-------------------------------------------------------------------------------
(* The line that is pending, with what was skipped of it, up to the newline. *)
RawLineOf(s, t) ==
  SubSeq(t, Len(t) - Len(s.pending) - s.skipped + 1,
         Len(t) - Len(s.pending) + FirstNewline(s.pending) - 1)

(* The line is reported as v, and what follows the newline is pending. *)
LineEnded(s, v) ==
  [s EXCEPT !.pending = After(s.pending, FirstNewline(s.pending)),
            !.skipping = FALSE, !.skipped = 0, !.reports = Append(@, v)]

LEMMA TurnEndsLine ==
  ASSUME NEW s \in LoopStates, NEW t \in Seq(Bytes), Cut(s, t), Newlines(s.pending) # {},
         NEW v \in Reports, Verdict(v, RawLineOf(s, t)), NEW u, u = LineEnded(s, v)
  PROVE  u \in LoopStates /\ Cut(u, t) /\ Len(u.pending) < Len(s.pending)
<1> DEFINE p == FirstNewline(s.pending)
           n == Len(s.reports)
           b == s.pending
           rest == After(b, p)
           r2 == Append(s.reports, v)
<1>1. /\ b \in Seq(Bytes) /\ s.skipping \in BOOLEAN /\ s.skipped \in Nat
      /\ s.reports \in Seq(Reports)
  BY DEF LoopStates
<1>2. /\ p \in 1..Len(b) /\ Len(b) \in Nat /\ b[p] = "LF"
      /\ \A j \in 1..p - 1 : b[j] # "LF"
  BY <1>1, FirstNewlineIs
<1>3. /\ rest \in Seq(Bytes) /\ Len(rest) = Len(b) - p
      /\ \A j \in 1..Len(b) - p : rest[j] = b[p + j]
  BY <1>1, <1>2, AfterIs
<1>4. /\ u.pending = rest /\ u.skipping = FALSE /\ u.skipped = 0 /\ u.reports = r2
      /\ u = [pending |-> rest, skipping |-> FALSE, skipped |-> 0, reports |-> r2]
  BY DEF LoopStates, LineEnded
<1>5. PICK e : Ends(e, t, n) /\ Reported(e, t, s.reports) /\ Rests(e[n], t, s)
  BY DEF Cut
<1>6. n \in Nat /\ Len(t) \in Nat
  BY <1>1, LenProperties
<1>7. e[n] \in 0..Len(t)
  BY <1>5, <1>6 DEF Ends
<1> DEFINE last == e[n]
           at == last + s.skipped
           size == Len(b)
           whole == Len(t)
           gone == s.skipped
<1>8. /\ last + gone + size = whole
      /\ \A j \in last + 1..last + gone : t[j] # "LF"
      /\ \A j \in 1..size : b[j] = t[last + gone + j]
  BY <1>5 DEF Rests
<1>9. Verdict(v, SubSeq(t, whole - size - gone + 1, whole - size + p - 1))
  BY DEF RawLineOf
<1>10. at = last + gone
  OBVIOUS
<1>11. /\ last \in Nat /\ gone \in Nat /\ size \in Nat /\ whole \in Nat /\ p \in Nat
       /\ 1 <= p /\ p <= size
  BY <1>1, <1>2, <1>6, <1>7
<1>12. s.skipped = gone /\ Len(b) = size /\ Len(t) = whole
  OBVIOUS
<1> HIDE DEF p, n, b, rest, r2, last, at, size, whole, gone
<1>13. /\ last + gone + size = whole /\ at \in Nat /\ at + size = whole /\ last < at + p
       /\ at + p \in 1..whole /\ at + p \in Nat
       /\ whole - size - gone + 1 = last + 1 /\ whole - size + p - 1 = (at + p) - 1
  <2>1. last + gone + size = whole
    BY <1>8
  <2> QED
    BY <1>10, <1>11, <2>1
<1>14. Verdict(v, SubSeq(t, last + 1, (at + p) - 1))
  BY <1>9, <1>13
<1>15. ASSUME NEW j \in last + 1..(at + p) - 1  PROVE t[j] # "LF"
  <2>1. CASE j <= at
    <3>1. j \in last + 1..last + gone
      BY <1>10, <1>11, <2>1
    <3> QED
      BY <1>8, <3>1
  <2>2. CASE ~(j <= at)
    <3>1. j \in Int /\ j <= (at + p) - 1
      BY <1>11, <1>13
    <3>2. j - at \in 1..p - 1 /\ j - at \in 1..size /\ at + (j - at) = j
      BY <1>11, <1>13, <2>2, <3>1
    <3>3. b[j - at] = t[at + (j - at)]
      BY <1>8, <1>10, <3>2
    <3> QED
      BY <1>2, <3>2, <3>3
  <2> QED
    BY <2>1, <2>2
<1>16. t[at + p] = "LF"
  <2>1. p \in 1..size
    BY <1>11
  <2> QED
    BY <1>2, <1>8, <1>10, <2>1
<1>17. PICK f : Ends(f, t, Len(r2)) /\ Reported(f, t, r2) /\ f[Len(r2)] = at + p
  <2> DEFINE q == at + p
  <2>1. Ends(e, t, Len(s.reports)) /\ Reported(e, t, s.reports)
    BY <1>5 DEF n
  <2>2. e[Len(s.reports)] = last
    BY DEF last, n
  <2> DEFINE w == e[Len(s.reports)]
  <2>3. /\ q \in 1..Len(t) /\ w < q /\ t[q] = "LF" /\ \A j \in w + 1..q - 1 : t[j] # "LF"
        /\ Verdict(v, SubSeq(t, w + 1, q - 1))
    BY <1>12, <1>13, <1>14, <1>15, <1>16, <2>2
  <2>4. s.reports \in Seq(Reports)
    BY <1>1
  <2> HIDE DEF q
  <2>5. \E f : /\ Ends(f, t, Len(Append(s.reports, v))) /\ Reported(f, t, Append(s.reports, v))
               /\ f[Len(Append(s.reports, v))] = q
    BY <2>1, <2>3, <2>4, OneMoreReport
  <2> QED
    BY <2>5 DEF q, r2
<1>18. r2 \in Seq(Reports)
  BY <1>1, AppendProperties DEF r2
<1>19. u \in LoopStates
  BY <1>3, <1>4, <1>18 DEF LoopStates
<1>20. Rests(at + p, t, u)
  <2>1. (at + p) + 0 + Len(rest) = Len(t)
    BY <1>3, <1>11, <1>12, <1>13
  <2>2. \A j \in (at + p) + 1..(at + p) + 0 : FALSE
    BY <1>11, <1>13
  <2>3. ASSUME NEW j \in 1..Len(rest)  PROVE rest[j] = t[(at + p) + 0 + j]
    <3>1. Len(rest) = size - p
      BY <1>3, <1>12
    <3>2. j \in 1..size - p
      BY <3>1
    <3>3. p + j \in 1..size /\ at + (p + j) = (at + p) + 0 + j
      BY <1>11, <1>13, <3>2
    <3>4. rest[j] = b[p + j] /\ b[p + j] = t[at + (p + j)]
      BY <1>3, <1>8, <1>10, <1>12, <3>2, <3>3
    <3> QED
      BY <3>3, <3>4
  <2> QED
    BY <1>4, <2>1, <2>2, <2>3 DEF Rests
<1>21. Cut(u, t)
  <2> DEFINE q == at + p
  <2>1. Ends(f, t, Len(u.reports)) /\ Reported(f, t, u.reports) /\ f[Len(u.reports)] = q
    BY <1>4, <1>17
  <2>2. Rests(q, t, u)
    BY <1>20
  <2> HIDE DEF q
  <2> QED
    BY <2>1, <2>2, Zenon DEF Cut
<1>22. Len(rest) < Len(b)
  BY <1>3, <1>11, <1>12
<1> QED
  BY <1>4, <1>19, <1>21, <1>22 DEF b

(* A turn with no newline in sight, of a line that is over the cap or is being skipped. *)
LEMMA TurnSkipsAll ==
  ASSUME NEW s \in LoopStates, NEW t \in Seq(Bytes), Cut(s, t), Newlines(s.pending) = {},
         s.skipping \/ Len(s.pending) > MaxPendingLineBytes,
         NEW u, u = [s EXCEPT !.pending = <<>>, !.skipping = TRUE,
                              !.skipped = s.skipped + Len(s.pending)]
  PROVE  u \in LoopStates /\ Cut(u, t) /\ u.pending = <<>>
<1> DEFINE b == s.pending
<1>1. /\ b \in Seq(Bytes) /\ s.skipped \in Nat /\ Len(b) \in Nat /\ DOMAIN b = 1..Len(b)
      /\ s.reports \in Seq(Reports) /\ Len(s.reports) \in Nat /\ Len(t) \in Nat
  BY LenProperties DEF LoopStates
<1>2. /\ u.pending = <<>> /\ u.skipping = TRUE /\ u.skipped = s.skipped + Len(b)
      /\ u.reports = s.reports
      /\ u = [pending |-> <<>>, skipping |-> TRUE, skipped |-> s.skipped + Len(b),
              reports |-> s.reports]
  BY DEF LoopStates
<1>3. <<>> \in Seq(Bytes) /\ Len(<<>>) = 0
  BY EmptySeq
<1>4. u \in LoopStates
  <2>1. s.skipped + Len(b) \in Nat
    BY <1>1
  <2> QED
    BY <1>1, <1>2, <1>3, <2>1 DEF LoopStates
<1>5. PICK e : Ends(e, t, Len(s.reports)) /\ Reported(e, t, s.reports)
                 /\ Rests(e[Len(s.reports)], t, s)
  BY DEF Cut
<1> DEFINE last == e[Len(s.reports)]
<1>6. last \in Nat
  BY <1>1, <1>5 DEF Ends
<1> HIDE DEF last, b
<1>7. /\ last + s.skipped + Len(b) = Len(t)
      /\ \A j \in last + 1..last + s.skipped : t[j] # "LF"
      /\ \A j \in 1..Len(b) : b[j] = t[last + s.skipped + j]
      /\ IF s.skipping THEN s.skipped > MaxPendingLineBytes ELSE s.skipped = 0
  BY <1>5 DEF Rests, last, b
<1>8. \A j \in 1..Len(b) : b[j] # "LF"
  BY <1>1 DEF Newlines, b
<1>9. ASSUME NEW j \in last + 1..last + (s.skipped + Len(b))  PROVE t[j] # "LF"
  <2>1. CASE j <= last + s.skipped
    <3>1. j \in last + 1..last + s.skipped
      BY <1>1, <1>6, <2>1
    <3> QED
      BY <1>7, <3>1
  <2>2. CASE ~(j <= last + s.skipped)
    <3> DEFINE i == j - (last + s.skipped)
    <3>1. i \in 1..Len(b) /\ last + s.skipped + i = j
      BY <1>1, <1>6, <2>2
    <3>2. b[i] = t[last + s.skipped + i]
      BY <1>7, <3>1
    <3> QED
      BY <1>8, <3>1, <3>2
  <2> QED
    BY <2>1, <2>2
<1>10. last + (s.skipped + Len(b)) + 0 = Len(t)
  BY <1>1, <1>6, <1>7
<1>11. s.skipped + Len(b) > MaxPendingLineBytes
  <2>1. MaxPendingLineBytes \in Nat /\ (s.skipping \/ Len(b) > MaxPendingLineBytes)
    BY PendingAssumption DEF b
  <2> QED
    BY <1>1, <1>7, <2>1
<1>12. Rests(last, t, u)
  BY <1>2, <1>3, <1>9, <1>10, <1>11 DEF Rests
<1>13. Ends(e, t, Len(u.reports)) /\ Reported(e, t, u.reports) /\ e[Len(u.reports)] = last
  BY <1>2, <1>5 DEF last
<1>14. Cut(u, t)
  BY <1>12, <1>13, Zenon DEF Cut
<1> QED
  BY <1>2, <1>4, <1>14

(* What a turn of processPending's loop does to the text: it stays cut, a turn that
   changes nothing has nothing left to do, and another one leaves less pending. *)
LEMMA TurnKeeps ==
  ASSUME NEW s \in LoopStates, NEW t \in Seq(Bytes), Cut(s, t)
  PROVE  /\ Turn(s) \in LoopStates /\ Cut(Turn(s), t)
         /\ Settled(s) => Turn(s) = s
         /\ Settled(Turn(s)) \/ Len(Turn(s).pending) < Len(s.pending)
<1> DEFINE p == FirstNewline(s.pending)
           b == s.pending
           n == Len(s.reports)
           line == WithoutCR(SubSeq(b, 1, p - 1))
<1>1. /\ b \in Seq(Bytes) /\ s.skipped \in Nat /\ Len(b) \in Nat /\ s.skipping \in BOOLEAN
      /\ s.reports \in Seq(Reports) /\ Len(s.reports) \in Nat /\ Len(t) \in Nat
  BY LenProperties DEF LoopStates
<1>2. CASE b = <<>>
  BY <1>2 DEF Turn, Settled
<1>3. CASE b # <<>> /\ Newlines(b) = {} /\ s.skipping
  <2> DEFINE u == [s EXCEPT !.pending = <<>>, !.skipping = TRUE,
                            !.skipped = s.skipped + Len(s.pending)]
  <2>1. u \in LoopStates /\ Cut(u, t) /\ u.pending = <<>>
    BY <1>3, TurnSkipsAll
  <2>2. Turn(s) = u
    <3>1. Turn(s) = [s EXCEPT !.pending = <<>>, !.skipped = @ + Len(s.pending)]
      BY <1>3 DEF Turn
    <3> QED
      BY <1>3, <3>1 DEF LoopStates
  <2> QED
    BY <1>3, <2>1, <2>2 DEF Settled
<1>4. CASE b # <<>> /\ Newlines(b) = {} /\ ~s.skipping /\ Len(b) > MaxPendingLineBytes
  <2> DEFINE u == [s EXCEPT !.pending = <<>>, !.skipping = TRUE,
                            !.skipped = s.skipped + Len(s.pending)]
  <2>1. u \in LoopStates /\ Cut(u, t) /\ u.pending = <<>>
    BY <1>4, TurnSkipsAll
  <2>2. Turn(s) = u
    <3>1. s.skipped = 0
      BY <1>4 DEF Cut, Rests
    <3>2. Turn(s) = [s EXCEPT !.pending = <<>>, !.skipping = TRUE, !.skipped = Len(s.pending)]
      BY <1>4 DEF Turn
    <3>3. s.skipped + Len(s.pending) = Len(s.pending)
      BY <1>1, <3>1
    <3> QED
      BY <3>2, <3>3, Zenon
  <2>3. ~Settled(s)
    BY <1>1, <1>4, PendingAssumption DEF Settled
  <2> QED
    BY <2>1, <2>2, <2>3 DEF Settled
<1>5. CASE b # <<>> /\ Newlines(b) = {} /\ ~s.skipping /\ ~(Len(b) > MaxPendingLineBytes)
  <2>1. Turn(s) = s
    BY <1>5 DEF Turn
  <2>2. Len(b) <= MaxPendingLineBytes
    BY <1>1, <1>5, PendingAssumption
  <2>3. Settled(s)
    BY <1>5, <2>2 DEF Settled
  <2> QED
    BY <2>1, <2>3
<1>6. CASE Newlines(b) # {}
  <2>1. /\ p \in 1..Len(b) /\ Len(b) \in Nat /\ b[p] = "LF"
        /\ \A j \in 1..p - 1 : b[j] # "LF"
    BY <1>1, <1>6, FirstNewlineIs
  <2>2. b # <<>>
    BY <1>1, <2>1, EmptySeq
  <2>3. PICK e : Ends(e, t, n) /\ Rests(e[n], t, s)
    BY DEF Cut
  <2> DEFINE last == e[n]
             gone == s.skipped
             size == Len(b)
  <2>4. last \in Nat /\ gone \in Nat /\ size \in Nat /\ p \in 1..size
    BY <1>1, <2>1, <2>3 DEF Ends
  <2>5. /\ last + gone + size = Len(t)
        /\ \A j \in last + 1..last + gone : t[j] # "LF"
        /\ \A j \in 1..size : b[j] = t[last + gone + j]
        /\ IF s.skipping THEN gone > MaxPendingLineBytes ELSE gone = 0
    BY <2>3 DEF Rests
  <2>6. RawLineOf(s, t) = SubSeq(t, Len(t) - size - gone + 1, Len(t) - size + p - 1)
    BY DEF RawLineOf
  <2> HIDE DEF last, gone, size, p, b, n
  <2>7. /\ Len(t) - size - gone + 1 = last + 1 /\ Len(t) - size + p - 1 = last + gone + p - 1
        /\ last + 1 \in Nat /\ last + gone + p - 1 \in Nat /\ 1 <= last + 1
        /\ last + 1 <= (last + gone + p - 1) + 1 /\ last + gone + p - 1 <= Len(t)
    <3> DEFINE all == Len(t)
    <3>1. last + gone + size = all
      BY <2>5
    <3>2. last \in Nat /\ gone \in Nat /\ size \in Nat /\ p \in Nat /\ 1 <= p /\ p <= size
      BY <2>4
    <3> HIDE DEF all
    <3>3. all - size - gone + 1 = last + 1 /\ all - size + p - 1 = last + gone + p - 1
      BY <3>1, <3>2
    <3>4. /\ last + 1 \in Nat /\ last + gone + p - 1 \in Nat /\ 1 <= last + 1
          /\ last + 1 <= (last + gone + p - 1) + 1 /\ last + gone + p - 1 <= all
      BY <3>1, <3>2
    <3> QED
      BY <3>3, <3>4 DEF all
  <2>8. RawLineOf(s, t) = SubSeq(t, last + 1, last + gone + p - 1)
    BY <2>6, <2>7
  <2>9. RawLineOf(s, t) \in Seq(Bytes \ {"LF"}) /\ Len(RawLineOf(s, t)) = gone + p - 1
    <3>1. ASSUME NEW j \in last + 1..last + gone + p - 1  PROVE t[j] # "LF"
      <4>1. CASE j <= last + gone
        <5>1. j \in last + 1..last + gone
          BY <2>4, <4>1
        <5> QED
          BY <2>5, <5>1
      <4>2. CASE ~(j <= last + gone)
        <5> DEFINE i == j - (last + gone)
        <5>1. i \in 1..size /\ i \in 1..p - 1 /\ last + gone + i = j
          BY <2>4, <4>2
        <5>2. b[i] = t[last + gone + i]
          BY <2>5, <5>1
        <5> QED
          BY <2>1, <5>1, <5>2
      <4> QED
        BY <4>1, <4>2
    <3>2. SubSeq(t, last + 1, last + gone + p - 1) \in Seq(Bytes \ {"LF"})
      BY <2>7, <3>1, LineHasNoNewline
    <3>3. Len(SubSeq(t, last + 1, last + gone + p - 1)) = (last + gone + p - 1) + 1 - (last + 1)
      BY <2>7, PartIs
    <3>4. (last + gone + p - 1) + 1 - (last + 1) = gone + p - 1
      BY <2>4
    <3> QED
      BY <2>8, <3>2, <3>3, <3>4, Zenon
  <2>10. CASE s.skipping
    <3> DEFINE v == TooLong(gone + p - 1)
    <3>1. gone + p - 1 \in Nat /\ gone + p - 1 > MaxPendingLineBytes
      BY <2>4, <2>5, <2>10, PendingAssumption
    <3>2. v \in Reports
      BY <3>1, EmptySeq DEF Reports, TooLong
    <3>3. Verdict(v, RawLineOf(s, t))
      BY <2>9, <3>1 DEF Verdict
    <3>4. Turn(s) = LineEnded(s, v)
      BY <1>6, <2>2, <2>10 DEF Turn, LineEnded, p, b, gone
    <3> HIDE DEF v
    <3>5. Turn(s) \in LoopStates /\ Cut(Turn(s), t) /\ Len(Turn(s).pending) < Len(s.pending)
      BY <1>6, <3>2, <3>3, <3>4, TurnEndsLine DEF b
    <3>6. ~Settled(s)
      BY <1>6, <2>2 DEF Settled, b
    <3> QED
      BY <3>5, <3>6
  <2>11. CASE ~s.skipping
    <3> DEFINE v == IF Len(line) > MaxPendingLineBytes THEN TooLong(Len(line)) ELSE Line(line)
    <3>1. gone = 0
      BY <2>5, <2>11
    <3>2. SubSeq(b, 1, p - 1) = SubSeq(t, last + 1, last + p - 1)
      <4>1. /\ p \in 1..Len(b) /\ last + Len(b) = Len(t)
            /\ \A j \in 1..Len(b) : b[j] = t[last + j]
        <5>1. last + 0 + size = Len(t) /\ \A j \in 1..size : b[j] = t[last + 0 + j]
          BY <2>5, <3>1
        <5> QED
          BY <2>1, <2>4, <5>1 DEF size
      <4> QED
        BY <1>1, <2>4, <4>1, SameLine
    <3>3. last + gone + p - 1 = last + p - 1
      BY <2>4, <3>1
    <3>4. RawLineOf(s, t) = SubSeq(b, 1, p - 1)
      BY <2>8, <3>2, <3>3
    <3>5. v \in Reports /\ Verdict(v, RawLineOf(s, t))
      BY <2>9, <3>4, LineVerdict
    <3>6. Turn(s) = LineEnded(s, v)
      <4>1. Turn(s) = [s EXCEPT !.pending = After(s.pending, p), !.reports = Append(@, v)]
        BY <1>6, <2>2, <2>11 DEF Turn, p, b
      <4>2. s.skipping = FALSE /\ s.skipped = 0
        BY <1>1, <2>11, <3>1 DEF gone
      <4> HIDE DEF v
      <4> QED
        BY <4>1, <4>2 DEF LineEnded, LoopStates, p
    <3> HIDE DEF v
    <3>7. Turn(s) \in LoopStates /\ Cut(Turn(s), t) /\ Len(Turn(s).pending) < Len(s.pending)
      BY <1>6, <3>5, <3>6, TurnEndsLine DEF b
    <3>8. ~Settled(s)
      BY <1>6, <2>2 DEF Settled, b
    <3> QED
      BY <3>7, <3>8
  <2> QED
    BY <2>10, <2>11
<1> QED
  BY <1>2, <1>3, <1>4, <1>5, <1>6

-------------------------------------------------------------------------------
(* The turns of the loop, from start on. *)
Turns(f, start, n) == \A i \in 0..n : f[i] = IF i = 0 THEN start ELSE Turn(f[i - 1])

LEMMA TurnsExist ==
  ASSUME NEW t \in Seq(Bytes), NEW start \in LoopStates, Cut(start, t)
  PROVE  \A n \in Nat : \E f \in [0..n -> {s \in LoopStates : Cut(s, t)}] : Turns(f, start, n)
<1> DEFINE S == {s \in LoopStates : Cut(s, t)}
           T == {n \in Nat : \E f \in [0..n -> S] : Turns(f, start, n)}
<1>1. start \in S
  OBVIOUS
<1>2. \A s \in S : Turn(s) \in S
  BY TurnKeeps
<1> HIDE DEF S
<1>3. 0 \in T
  <2> DEFINE f == [i \in 0..0 |-> start]
  <2>1. f \in [0..0 -> S]
    BY <1>1
  <2>2. Turns(f, start, 0)
    BY DEF Turns
  <2> QED
    BY <2>1, <2>2
<1>4. ASSUME NEW n \in Nat, n \in T  PROVE n + 1 \in T
  <2>1. PICK f \in [0..n -> S] : Turns(f, start, n)
    BY <1>4
  <2> DEFINE g == [i \in 0..n + 1 |-> IF i = n + 1 THEN Turn(f[n]) ELSE f[i]]
  <2>2. f[n] \in S
    BY <2>1
  <2>3. g \in [0..n + 1 -> S]
    BY <1>2, <2>1, <2>2
  <2>4. g[n + 1] = Turn(f[n]) /\ \A i \in 0..n : g[i] = f[i]
    OBVIOUS
  <2> HIDE DEF g
  <2>5. ASSUME NEW i \in 0..n + 1  PROVE g[i] = IF i = 0 THEN start ELSE Turn(g[i - 1])
    <3>1. CASE i = n + 1
      <4>1. i # 0 /\ i - 1 = n /\ n \in 0..n
        BY <3>1
      <4> QED
        BY <2>4, <3>1, <4>1
    <3>2. CASE i \in 0..n
      <4>1. i # 0 => i - 1 \in 0..n
        BY <3>2
      <4>2. f[i] = IF i = 0 THEN start ELSE Turn(f[i - 1])
        BY <2>1, <3>2 DEF Turns
      <4> QED
        BY <2>4, <3>2, <4>1, <4>2
    <3> QED
      BY <3>1, <3>2
  <2>6. Turns(g, start, n + 1)
    BY <2>5 DEF Turns
  <2> QED
    BY <2>3, <2>6
<1>5. Nat \subseteq T
  <2> HIDE DEF T
  <2> QED
    BY <1>3, <1>4, Induction
<1> QED
  BY <1>5 DEF S

(* After the n-th turn the loop is done or at most so much is pending. *)
LEMMA TurnsSettle ==
  ASSUME NEW t \in Seq(Bytes), NEW start \in LoopStates, Cut(start, t),
         NEW g, NEW n \in Nat, Turns(g, start, n)
  PROVE  \A i \in 0..n : /\ g[i] \in LoopStates /\ Cut(g[i], t)
                         /\ Settled(g[i]) \/ Len(g[i].pending) + i <= Len(start.pending)
<1> DEFINE P(i) == /\ g[i] \in LoopStates /\ Cut(g[i], t)
                   /\ Settled(g[i]) \/ Len(g[i].pending) + i <= Len(start.pending)
           T == {i \in Nat : i <= n => P(i)}
<1>1. \A s \in LoopStates : Len(s.pending) \in Nat
  BY LenProperties DEF LoopStates
<1>2. 0 \in T
  <2>1. g[0] = start
    BY DEF Turns
  <2>2. Len(g[0].pending) + 0 <= Len(start.pending)
    BY <1>1, <2>1
  <2> QED
    BY <2>1, <2>2
<1>3. ASSUME NEW i \in Nat, i \in T  PROVE i + 1 \in T
  <2> SUFFICES ASSUME i + 1 <= n  PROVE P(i + 1)
    <3>1. i + 1 \in Nat
      OBVIOUS
    <3> HIDE DEF P
    <3> QED
      BY <3>1, Zenon
  <2>1. P(i)
    BY <1>3
  <2>2. g[i + 1] = Turn(g[i])
    <3>1. i + 1 \in 0..n /\ i + 1 # 0 /\ (i + 1) - 1 = i
      OBVIOUS
    <3> QED
      BY <3>1 DEF Turns
  <2> DEFINE u == Turn(g[i])
  <2>3. /\ u \in LoopStates /\ Cut(u, t)
        /\ Settled(g[i]) => u = g[i]
        /\ Settled(u) \/ Len(u.pending) < Len(g[i].pending)
    BY <2>1, TurnKeeps
  <2>4. Len(u.pending) \in Nat /\ Len(g[i].pending) \in Nat /\ Len(start.pending) \in Nat
    BY <1>1, <2>1, <2>3
  <2> HIDE DEF u
  <2>5. Settled(u) \/ Len(u.pending) + (i + 1) <= Len(start.pending)
    <3>1. CASE Settled(g[i])
      BY <2>3, <3>1
    <3>2. CASE ~Settled(u) /\ ~Settled(g[i])
      <4> DEFINE a == Len(u.pending)
                 b == Len(g[i].pending)
                 c == Len(start.pending)
      <4>1. b + i <= c /\ a < b
        BY <2>1, <2>3, <3>2
      <4>2. a \in Nat /\ b \in Nat /\ c \in Nat
        BY <2>4
      <4> HIDE DEF a, b, c
      <4>3. a + (i + 1) <= c
        BY <4>1, <4>2
      <4> QED
        BY <4>3 DEF a, c
    <3> QED
      BY <3>1, <3>2
  <2> QED
    BY <2>2, <2>3, <2>5 DEF u
<1>4. Nat \subseteq T
  <2> HIDE DEF T
  <2> QED
    BY <1>2, <1>3, Induction
<1> QED
  BY <1>4

(* The state in which processPending begins. *)
LoopStart(bytes) ==
  [pending |-> bytes, skipping |-> skippingLine, skipped |-> skippedBytes, reports |-> reports]

(* There are turns enough: processPending ends with nothing left to do. *)
LEMMA LoopSettles ==
  ASSUME NEW t \in Seq(Bytes), NEW bytes, LoopStart(bytes) \in LoopStates,
         Cut(LoopStart(bytes), t)
  PROVE  /\ AfterTurns(bytes) \in LoopStates /\ Cut(AfterTurns(bytes), t)
         /\ Settled(AfterTurns(bytes))
<1> DEFINE start == LoopStart(bytes)
           n == Len(bytes) + 1
           g == CHOOSE h : h = [i \in 0..n |-> IF i = 0 THEN start ELSE Turn(h[i - 1])]
<1>1. bytes \in Seq(Bytes) /\ Len(bytes) \in Nat /\ start.pending = bytes
  <2>1. start.pending = bytes
    BY DEF LoopStart
  <2>2. bytes \in Seq(Bytes)
    BY <2>1 DEF LoopStates
  <2> QED
    BY <2>1, <2>2, LenProperties
<1>2. PICK f \in [0..n -> {s \in LoopStates : Cut(s, t)}] : Turns(f, start, n)
  <2>1. n \in Nat
    BY <1>1
  <2> HIDE DEF n, start
  <2> QED
    BY <2>1, TurnsExist DEF start
<1>3. f = [i \in 0..n |-> IF i = 0 THEN start ELSE Turn(f[i - 1])]
  BY <1>2 DEF Turns
<1>4. g = [i \in 0..n |-> IF i = 0 THEN start ELSE Turn(g[i - 1])]
  BY <1>3
<1>5. AfterTurns(bytes) = g[n]
  BY DEF AfterTurns, LoopStart
<1> HIDE DEF g
<1>6. Turns(g, start, n)
  BY <1>4 DEF Turns
<1>7. /\ g[n] \in LoopStates /\ Cut(g[n], t)
      /\ Settled(g[n]) \/ Len(g[n].pending) + n <= Len(start.pending)
  <2>1. n \in Nat /\ n \in 0..n
    BY <1>1
  <2> HIDE DEF n, start
  <2> QED
    BY <1>6, <2>1, TurnsSettle DEF start
<1>8. ~(Len(g[n].pending) + n <= Len(start.pending))
  <2>1. Len(g[n].pending) \in Nat
    BY <1>7, LenProperties DEF LoopStates
  <2>2. Len(start.pending) = Len(bytes)
    BY <1>1
  <2>3. n = Len(bytes) + 1
    OBVIOUS
  <2> DEFINE left == Len(g[n].pending)
             had == Len(start.pending)
             size == Len(bytes)
  <2>4. left \in Nat /\ had = size /\ size \in Nat /\ n = size + 1
    BY <1>1, <2>1, <2>2, <2>3
  <2> HIDE DEF left, had, size, n
  <2>5. ~(left + n <= had)
    BY <2>4
  <2> QED
    BY <2>5 DEF left, had
<1> QED
  BY <1>5, <1>7, <1>8

-------------------------------------------------------------------------------
(* What Encode makes of each unit of a text. *)
UnitCode(text, i) ==
  IF text[i] = "H" /\ i < Len(text) /\ text[i + 1] = "L" THEN <<"p", "p", "p", "p">>
  ELSE IF text[i] = "L" /\ i > 1 /\ text[i - 1] = "H" THEN <<>>
  ELSE IF text[i] \in {"H", "L"} THEN <<"r", "r", "r">>
  ELSE <<text[i]>>

Codes(text) == [i \in DOMAIN text |-> UnitCode(text, i)]

LEMMA CodesAre ==
  ASSUME NEW text \in Seq(Units)
  PROVE  /\ Codes(text) \in Seq(Seq(Bytes)) /\ Len(Codes(text)) = Len(text)
         /\ \A i \in 1..Len(text) : Codes(text)[i] = UnitCode(text, i)
         /\ Encode(text) = FlattenSeq(Codes(text)) /\ Encode(text) \in Seq(Bytes)
<1>1. DOMAIN text = 1..Len(text) /\ Len(text) \in Nat /\ \A i \in 1..Len(text) : text[i] \in Units
  BY LenProperties, ElementOfSeq
<1>2. ASSUME NEW i \in 1..Len(text)  PROVE UnitCode(text, i) \in Seq(Bytes)
  <2>1. /\ <<>> \in Seq(Bytes) /\ <<"r", "r", "r">> \in Seq(Bytes)
        /\ <<"p", "p", "p", "p">> \in Seq(Bytes)
    BY DEF Bytes
  <2>2. text[i] \notin {"H", "L"} => text[i] \in Bytes
    BY <1>1 DEF Units, Bytes
  <2>3. text[i] \notin {"H", "L"} => <<text[i]>> \in Seq(Bytes)
    BY <2>2
  <2> QED
    BY <2>1, <2>3 DEF UnitCode
<1>3. Codes(text) = [i \in 1..Len(text) |-> UnitCode(text, i)]
  BY <1>1 DEF Codes
<1>4. /\ Codes(text) \in Seq(Seq(Bytes)) /\ Len(Codes(text)) = Len(text)
      /\ \A i \in 1..Len(text) : Codes(text)[i] = UnitCode(text, i)
  BY <1>1, <1>2, <1>3
<1>5. Encode(text) = FlattenSeq(Codes(text))
  BY DEF Encode, Codes, UnitCode
<1>6. Encode(text) \in Seq(Bytes)
  BY <1>4, <1>5, FlattenType
<1> QED
  BY <1>4, <1>5, <1>6

(* Two texts that share no pair are encoded apart. *)
Apart(a, b) == ~(a # <<>> /\ b # <<>> /\ a[Len(a)] = "H" /\ b[1] = "L")

LEMMA EncodeConcat ==
  ASSUME NEW a \in Seq(Units), NEW b \in Seq(Units), Apart(a, b)
  PROVE  Encode(a \o b) = Encode(a) \o Encode(b)
<1> DEFINE c == a \o b
           m == Len(a)
           n == Len(b)
<1>1. /\ m \in Nat /\ n \in Nat /\ c \in Seq(Units) /\ Len(c) = m + n
      /\ \A i \in 1..m : c[i] = a[i]
      /\ \A j \in 1..n : c[m + j] = b[j]
  <2>1. \A j \in 1..n : m + j \in 1..m + n /\ ~(m + j <= m) /\ (m + j) - m = j
    BY LenProperties
  <2> QED
    BY <2>1, LenProperties, ConcatProperties
<1>2. (m = 0 <=> a = <<>>) /\ (n = 0 <=> b = <<>>)
  BY EmptySeq
<1>3. m > 0 /\ n > 0 => ~(c[m] = "H" /\ c[m + 1] = "L")
  BY <1>1, <1>2 DEF Apart
<1> HIDE DEF c
<1>4. ASSUME NEW i \in 1..m  PROVE UnitCode(c, i) = UnitCode(a, i)
  <2>1. c[i] = a[i] /\ (i > 1 => c[i - 1] = a[i - 1]) /\ (i < m => c[i + 1] = a[i + 1])
    <3>1. (i > 1 => i - 1 \in 1..m) /\ (i < m => i + 1 \in 1..m)
      BY <1>1
    <3> QED
      BY <1>1, <3>1
  <2>2. CASE i < m
    <3>1. i < Len(c)
      BY <1>1, <2>2
    <3> QED
      BY <2>1, <2>2, <3>1 DEF UnitCode
  <2>3. CASE i = m
    <3>1. ~(c[i] = "H" /\ i < Len(c) /\ c[i + 1] = "L")
      BY <1>1, <1>3, <2>3
    <3>2. ~(i < m)
      BY <1>1, <2>3
    <3> QED
      BY <2>1, <3>1, <3>2 DEF UnitCode
  <2> QED
    BY <1>1, <2>2, <2>3
<1>5. ASSUME NEW j \in 1..n  PROVE UnitCode(c, m + j) = UnitCode(b, j)
  <2>1. c[m + j] = b[j] /\ (j < n => c[(m + j) + 1] = b[j + 1])
    <3>1. j < n => j + 1 \in 1..n /\ m + (j + 1) = (m + j) + 1
      BY <1>1
    <3> QED
      BY <1>1, <3>1
  <2>2. m + j < Len(c) <=> j < n
    BY <1>1
  <2>3. CASE j > 1
    <3>1. j - 1 \in 1..n /\ m + (j - 1) = (m + j) - 1 /\ m + j > 1
      BY <1>1, <2>3
    <3>2. c[(m + j) - 1] = b[j - 1]
      BY <1>1, <3>1
    <3> QED
      BY <2>1, <2>2, <2>3, <3>1, <3>2 DEF UnitCode
  <2>4. CASE j = 1
    <3>1. ~(c[m + j] = "L" /\ m + j > 1 /\ c[(m + j) - 1] = "H")
      BY <1>1, <1>3, <2>4
    <3>2. ~(j > 1)
      BY <2>4
    <3> QED
      BY <2>1, <2>2, <3>1, <3>2 DEF UnitCode
  <2> QED
    BY <1>1, <2>3, <2>4
<1>6. /\ Codes(a) \in Seq(Seq(Bytes)) /\ Len(Codes(a)) = m
      /\ \A i \in 1..m : Codes(a)[i] = UnitCode(a, i)
  BY CodesAre
<1>7. /\ Codes(b) \in Seq(Seq(Bytes)) /\ Len(Codes(b)) = n
      /\ \A i \in 1..n : Codes(b)[i] = UnitCode(b, i)
  BY CodesAre
<1>8. /\ Codes(c) \in Seq(Seq(Bytes)) /\ Len(Codes(c)) = Len(c)
      /\ \A i \in 1..Len(c) : Codes(c)[i] = UnitCode(c, i)
  BY <1>1, CodesAre
<1>9. Codes(c) = Codes(a) \o Codes(b)
  <2> DEFINE d == Codes(a) \o Codes(b)
  <2>1. /\ d \in Seq(Seq(Bytes)) /\ Len(d) = m + n
        /\ \A i \in 1..m + n : d[i] = IF i <= m THEN Codes(a)[i] ELSE Codes(b)[i - m]
    <3> DEFINE u == Codes(a)
               v == Codes(b)
               P == Seq(Bytes)
    <3>1. u \in Seq(P) /\ Len(u) = m /\ v \in Seq(P) /\ Len(v) = n
      BY <1>6, <1>7
    <3> HIDE DEF u, v, P, m, n
    <3>2. /\ u \o v \in Seq(P) /\ Len(u \o v) = m + n
          /\ \A i \in 1..m + n : (u \o v)[i] = IF i <= m THEN u[i] ELSE v[i - m]
      BY <3>1, ConcatProperties
    <3> QED
      BY <3>2 DEF u, v, P
  <2> HIDE DEF d
  <2>2. ASSUME NEW i \in 1..m + n  PROVE Codes(c)[i] = d[i]
    <3>1. Codes(c)[i] = UnitCode(c, i)
      BY <1>1, <1>8
    <3>2. CASE i <= m
      <4>1. i \in 1..m
        BY <1>1, <3>2
      <4> QED
        BY <1>4, <1>6, <2>1, <3>1, <3>2, <4>1
    <3>3. CASE ~(i <= m)
      <4>1. i - m \in 1..n /\ m + (i - m) = i
        BY <1>1, <3>3
      <4>2. d[i] = Codes(b)[i - m] /\ Codes(b)[i - m] = UnitCode(b, i - m)
        BY <1>7, <2>1, <3>3, <4>1
      <4>3. UnitCode(c, m + (i - m)) = UnitCode(b, i - m)
        BY <1>5, <4>1
      <4> QED
        BY <3>1, <4>1, <4>2, <4>3, Zenon
    <3> QED
      BY <3>2, <3>3
  <2>3. Codes(c) = d
    BY <1>1, <1>8, <2>1, <2>2, SeqEqual
  <2> QED
    BY <2>3 DEF d
<1>10. FlattenSeq(Codes(a) \o Codes(b)) = FlattenSeq(Codes(a)) \o FlattenSeq(Codes(b))
  BY <1>6, <1>7, FlattenConcat
<1>11. Encode(c) = FlattenSeq(Codes(c)) /\ Encode(a) = FlattenSeq(Codes(a)) /\ Encode(b) = FlattenSeq(Codes(b))
  BY <1>1, CodesAre
<1> QED
  BY <1>9, <1>10, <1>11, Zenon DEF c

(* One-byte characters are their own bytes, and half a pair is a replacement character. *)
LEMMA EncodePlain ==
  ASSUME NEW chunk \in Seq({"x", "CR", "LF"})
  PROVE  chunk \in Seq(Units) /\ Encode(chunk) = chunk
<1>1. chunk \in Seq(Units)
  BY DEF Units
<1>2. DOMAIN chunk = 1..Len(chunk) /\ \A i \in 1..Len(chunk) : chunk[i] \in {"x", "CR", "LF"}
  BY LenProperties, ElementOfSeq
<1>3. \A i \in DOMAIN chunk : UnitCode(chunk, i) = <<chunk[i]>>
  BY <1>2 DEF UnitCode
<1>4. Codes(chunk) = [i \in DOMAIN chunk |-> <<chunk[i]>>]
  BY <1>3 DEF Codes
<1>5. Encode(chunk) = FlattenSeq(Codes(chunk))
  BY <1>1, CodesAre
<1>6. FlattenSeq([i \in DOMAIN chunk |-> <<chunk[i]>>]) = chunk
  BY FlattenSingles
<1> QED
  BY <1>1, <1>4, <1>5, <1>6, Zenon

LEMMA EncodeHalf ==
  /\ <<>> \in Seq(Units) /\ Encode(<<>>) = <<>>
  /\ <<"H">> \in Seq(Units) /\ Encode(<<"H">>) = <<"r", "r", "r">>
<1>1. <<>> \in Seq(Units) /\ <<"H">> \in Seq(Units)
  BY DEF Units
<1>2. Codes(<<>>) = <<>>
  BY DEF Codes
<1>3. Encode(<<>>) = FlattenSeq(Codes(<<>>)) /\ Encode(<<"H">>) = FlattenSeq(Codes(<<"H">>))
  BY <1>1, CodesAre
<1>4. Encode(<<>>) = <<>>
  BY <1>2, <1>3, FlattenEmpty
<1>5. UnitCode(<<"H">>, 1) = <<"r", "r", "r">>
  BY DEF UnitCode
<1>6. DOMAIN <<"H">> = {1}
  OBVIOUS
<1>7. Codes(<<"H">>) = [i \in {1} |-> <<"r", "r", "r">>]
  BY <1>5, <1>6 DEF Codes
<1>8. [i \in {1} |-> <<"r", "r", "r">>] = <<<<"r", "r", "r">>>>
  OBVIOUS
<1>9. <<"r", "r", "r">> \in Seq(Bytes)
  BY DEF Bytes
<1>10. Encode(<<"H">>) = <<"r", "r", "r">>
  BY <1>3, <1>7, <1>8, <1>9, FlattenOne
<1> QED
  BY <1>1, <1>4, <1>10

-------------------------------------------------------------------------------
(* A text that grows keeps the parts it had. *)
LEMMA PartStays ==
  ASSUME NEW t \in Seq(Bytes), NEW c \in Seq(Bytes), NEW from \in Nat, NEW upto \in Nat,
         1 <= from, from <= upto + 1, upto <= Len(t)
  PROVE  SubSeq(t \o c, from, upto) = SubSeq(t, from, upto)
<1> DEFINE d == t \o c
           x == SubSeq(d, from, upto)
           y == SubSeq(t, from, upto)
<1>1. /\ Len(t) \in Nat /\ Len(c) \in Nat /\ d \in Seq(Bytes) /\ Len(d) = Len(t) + Len(c)
      /\ \A j \in 1..Len(t) : d[j] = t[j]
  BY LenProperties, ConcatProperties
<1> HIDE DEF d
<1>2. upto <= Len(d)
  BY <1>1
<1>3. /\ x \in Seq(Bytes) /\ Len(x) = upto + 1 - from
      /\ \A j \in 1..upto + 1 - from : x[j] = d[(from - 1) + j]
  BY <1>1, <1>2, PartIs
<1>4. /\ y \in Seq(Bytes) /\ Len(y) = upto + 1 - from
      /\ \A j \in 1..upto + 1 - from : y[j] = t[(from - 1) + j]
  BY PartIs
<1> HIDE DEF x, y
<1>5. ASSUME NEW j \in 1..upto + 1 - from  PROVE x[j] = y[j]
  <2>1. (from - 1) + j \in 1..Len(t)
    BY <1>1
  <2> QED
    BY <1>1, <1>3, <1>4, <2>1
<1>6. x = y
  BY <1>3, <1>4, <1>5, SeqEqual
<1> QED
  BY <1>6 DEF x, y, d

(* The bytes of a chunk join those that are pending. *)
Joined(s, c) == [s EXCEPT !.pending = @ \o c]

LEMMA CutGrows ==
  ASSUME NEW s \in LoopStates, NEW t \in Seq(Bytes), NEW c \in Seq(Bytes), Cut(s, t)
  PROVE  Joined(s, c) \in LoopStates /\ Cut(Joined(s, c), t \o c)
<1> DEFINE u == Joined(s, c)
           d == t \o c
           n == Len(s.reports)
           p == Len(s.pending)
<1>1. /\ s.pending \in Seq(Bytes) /\ s.skipping \in BOOLEAN /\ s.skipped \in Nat
      /\ s.reports \in Seq(Reports)
  BY DEF LoopStates
<1>2. n \in Nat /\ p \in Nat /\ Len(t) \in Nat /\ Len(c) \in Nat
  BY <1>1, LenProperties
<1>3. /\ d \in Seq(Bytes) /\ Len(d) = Len(t) + Len(c)
      /\ \A j \in 1..Len(t) : d[j] = t[j]
  BY <1>2, ConcatProperties
<1>4. \A j \in 1..Len(c) : d[Len(t) + j] = c[j]
  <2>1. \A j \in 1..Len(c) :
          Len(t) + j \in 1..Len(t) + Len(c) /\ ~(Len(t) + j <= Len(t)) /\ (Len(t) + j) - Len(t) = j
    BY <1>2
  <2> QED
    BY <2>1, ConcatProperties
<1>5. /\ s.pending \o c \in Seq(Bytes) /\ Len(s.pending \o c) = p + Len(c)
      /\ \A j \in 1..p : (s.pending \o c)[j] = s.pending[j]
      /\ \A j \in p + 1..p + Len(c) : (s.pending \o c)[j] = c[j - p]
  <2>1. /\ \A j \in 1..p : j \in 1..p + Len(c) /\ j <= p
        /\ \A j \in p + 1..p + Len(c) : j \in 1..p + Len(c) /\ ~(j <= p)
    BY <1>2
  <2> QED
    BY <1>1, <2>1, ConcatProperties
<1>6. /\ u \in LoopStates /\ u.pending = s.pending \o c /\ u.skipping = s.skipping
      /\ u.skipped = s.skipped /\ u.reports = s.reports
  BY <1>1, <1>5 DEF Joined, LoopStates
<1>7. PICK e : Ends(e, t, n) /\ Reported(e, t, s.reports) /\ Rests(e[n], t, s)
  BY DEF Cut
<1> HIDE DEF u, d
<1>8. e \in [0..n -> 0..Len(t)] /\ e[0] = 0 /\ n \in 0..n
  BY <1>2, <1>7 DEF Ends
<1>9. ASSUME NEW k \in 1..n
      PROVE  /\ e[k - 1] \in 0..Len(t) /\ e[k] \in 1..Len(t) /\ e[k - 1] < e[k]
             /\ t[e[k]] = "LF"
             /\ \A j \in e[k - 1] + 1..e[k] - 1 : t[j] # "LF"
  <2>1. k \in 0..n /\ k - 1 \in 0..n
    BY <1>2
  <2>2. e[k] \in 0..Len(t) /\ e[k - 1] \in 0..Len(t)
    BY <1>8, <2>1
  <2>3. /\ e[k - 1] < e[k] /\ t[e[k]] = "LF"
        /\ \A j \in e[k - 1] + 1..e[k] - 1 : t[j] # "LF"
    BY <1>7 DEF Ends
  <2>4. e[k] \in 1..Len(t)
    BY <1>2, <2>2, <2>3
  <2> QED
    BY <2>2, <2>3, <2>4
<1>10. Ends(e, d, n)
  <2>1. e \in [0..n -> 0..Len(d)]
    BY <1>2, <1>3, <1>8
  <2>2. ASSUME NEW k \in 1..n
        PROVE  /\ e[k - 1] < e[k] /\ d[e[k]] = "LF"
               /\ \A j \in e[k - 1] + 1..e[k] - 1 : d[j] # "LF"
    <3>1. \A j \in e[k - 1] + 1..e[k] - 1 : j \in 1..Len(t)
      BY <1>2, <1>9
    <3> QED
      BY <1>3, <1>9, <3>1
  <2> QED
    BY <1>8, <2>1, <2>2 DEF Ends
<1>11. Reported(e, d, s.reports)
  <2> SUFFICES ASSUME NEW k \in 1..n
               PROVE  Verdict(s.reports[k], SubSeq(d, e[k - 1] + 1, e[k] - 1))
    BY DEF Reported
  <2>1. /\ e[k - 1] + 1 \in Nat /\ e[k] - 1 \in Nat /\ 1 <= e[k - 1] + 1
        /\ e[k - 1] + 1 <= (e[k] - 1) + 1 /\ e[k] - 1 <= Len(t)
    <3> DEFINE a == e[k - 1]
               b == e[k]
               all == Len(t)
    <3>1. a \in 0..all /\ b \in 1..all /\ a < b /\ all \in Nat
      BY <1>2, <1>9
    <3> HIDE DEF a, b, all
    <3>2. /\ a + 1 \in Nat /\ b - 1 \in Nat /\ 1 <= a + 1
          /\ a + 1 <= (b - 1) + 1 /\ b - 1 <= all
      BY <3>1
    <3> QED
      BY <3>2 DEF a, b, all
  <2>2. SubSeq(d, e[k - 1] + 1, e[k] - 1) = SubSeq(t, e[k - 1] + 1, e[k] - 1)
    BY <2>1, PartStays DEF d
  <2>3. Verdict(s.reports[k], SubSeq(t, e[k - 1] + 1, e[k] - 1))
    BY <1>7 DEF Reported
  <2> QED
    BY <2>2, <2>3, Zenon
<1>12. Rests(e[n], d, u)
  <2> DEFINE last == e[n]
             k == s.skipped
             T == Len(t)
             C == Len(c)
  <2>1. /\ last + k + p = T
        /\ \A j \in last + 1..last + k : t[j] # "LF"
        /\ \A j \in 1..p : s.pending[j] = t[last + k + j]
        /\ IF s.skipping THEN k > MaxPendingLineBytes ELSE k = 0
    BY <1>7 DEF Rests
  <2>2. e[n] \in 0..Len(t)
    BY <1>8, Zenon
  <2>3. /\ last \in Nat /\ k \in Nat /\ p \in Nat /\ T \in Nat /\ C \in Nat
        /\ last + k + p = T
    BY <1>1, <1>2, <2>1, <2>2
  <2>4. Len(u.pending) = p + C /\ Len(d) = T + C
    BY <1>3, <1>5, <1>6
  <2>5. \A j \in 1..T : d[j] = t[j]
    BY <1>3
  <2> HIDE DEF last, k, p, T, C
  <2>6. last + k + (p + C) = Len(d)
    BY <2>3, <2>4
  <2>7. ASSUME NEW j \in last + 1..last + k  PROVE d[j] # "LF"
    <3>1. j \in 1..T
      BY <2>3
    <3> QED
      BY <2>1, <2>5, <3>1
  <2>8. ASSUME NEW j \in 1..p + C  PROVE u.pending[j] = d[last + k + j]
    <3>1. CASE j \in 1..p
      <4>1. last + k + j \in 1..T
        BY <2>3, <3>1
      <4>2. u.pending[j] = s.pending[j]
        BY <1>5, <1>6, <3>1
      <4>3. s.pending[j] = t[last + k + j]
        BY <2>1, <3>1
      <4> QED
        BY <2>5, <4>1, <4>2, <4>3
    <3>2. CASE j \in p + 1..p + C
      <4>1. last + k + j = T + (j - p) /\ j - p \in 1..C
        BY <2>3, <3>2
      <4>2. u.pending[j] = c[j - p]
        BY <1>5, <1>6, <3>2 DEF C
      <4>3. d[T + (j - p)] = c[j - p]
        BY <1>4, <4>1 DEF T, C
      <4> QED
        BY <4>1, <4>2, <4>3, Zenon
    <3>3. j \in 1..p \/ j \in p + 1..p + C
      BY <2>3
    <3> QED
      BY <3>1, <3>2, <3>3
  <2> QED
    BY <1>6, <2>1, <2>4, <2>6, <2>7, <2>8 DEF Rests, last, k
<1>13. Cut(u, d)
  BY <1>6, <1>10, <1>11, <1>12 DEF Cut
<1> QED
  BY <1>6, <1>13 DEF u, d

-------------------------------------------------------------------------------
(* Counting newlines.  The ends of the lines increase. *)
LEMMA EndsIncrease ==
  ASSUME NEW t \in Seq(Bytes), NEW n \in Nat, NEW e, Ends(e, t, n)
  PROVE  /\ \A k \in 0..n : e[k] \in 0..Len(t)
         /\ \A i \in 0..n : \A k \in 0..n : i < k => e[i] < e[k]
<1>1. e \in [0..n -> 0..Len(t)] /\ \A k \in 1..n : e[k - 1] < e[k]
  BY DEF Ends
<1>2. Len(t) \in Nat
  BY LenProperties
<1>3. \A k \in 0..n : e[k] \in 0..Len(t)
  BY <1>1
<1> DEFINE T == {m \in Nat : m <= n => \A i \in 0..n : i < m => e[i] < e[m]}
<1>4. 0 \in T
  OBVIOUS
<1>5. ASSUME NEW m \in Nat, m \in T  PROVE m + 1 \in T
  <2> SUFFICES ASSUME m + 1 <= n, NEW i \in 0..n, i < m + 1  PROVE e[i] < e[m + 1]
    OBVIOUS
  <2>1. m \in 0..n /\ m + 1 \in 0..n /\ m + 1 \in 1..n /\ (m + 1) - 1 = m
    OBVIOUS
  <2>2. e[m] < e[m + 1]
    BY <1>1, <2>1
  <2>3. e[m] \in Int /\ e[m + 1] \in Int /\ e[i] \in Int
    BY <1>2, <1>3, <2>1
  <2>4. CASE i = m
    BY <2>2, <2>4
  <2>5. CASE i < m
    <3>1. e[i] < e[m]
      BY <1>5, <2>1, <2>5
    <3> QED
      BY <2>2, <2>3, <3>1
  <2> QED
    BY <2>4, <2>5
<1>6. Nat \subseteq T
  <2> HIDE DEF T
  <2> QED
    BY <1>4, <1>5, Induction
<1>7. ASSUME NEW i \in 0..n, NEW k \in 0..n, i < k  PROVE e[i] < e[k]
  BY <1>6, <1>7
<1> QED
  BY <1>3, <1>7

(* No newline follows the last of them. *)
NoMore(e, t, n) == \A j \in e[n] + 1..Len(t) : t[j] # "LF"

LEMMA NewlinesAreEnds ==
  ASSUME NEW t \in Seq(Bytes), NEW n \in Nat, NEW e, Ends(e, t, n), NoMore(e, t, n)
  PROVE  /\ \A k \in 1..n : e[k] \in Newlines(t)
         /\ \A i \in Newlines(t) : \E k \in 1..n : e[k] = i
<1>1. /\ \A k \in 0..n : e[k] \in 0..Len(t)
      /\ \A i \in 0..n : \A k \in 0..n : i < k => e[i] < e[k]
  BY EndsIncrease
<1>2. /\ e[0] = 0
      /\ \A k \in 1..n : e[k - 1] < e[k] /\ t[e[k]] = "LF"
      /\ \A k \in 1..n : \A j \in e[k - 1] + 1..e[k] - 1 : t[j] # "LF"
  BY DEF Ends
<1>3. Len(t) \in Nat /\ DOMAIN t = 1..Len(t)
  BY LenProperties
<1>4. ASSUME NEW k \in 1..n  PROVE e[k] \in Newlines(t)
  <2>1. k \in 0..n /\ 0 \in 0..n /\ 0 < k
    OBVIOUS
  <2>2. e[k] \in 0..Len(t) /\ e[0] < e[k]
    BY <1>1, <2>1
  <2>3. e[k] \in 1..Len(t)
    BY <1>2, <1>3, <2>2
  <2> QED
    BY <1>2, <1>3, <2>3 DEF Newlines
<1> DEFINE T == {m \in Nat : m <= n =>
                   \A i \in 1..e[m] : t[i] = "LF" => \E k \in 1..n : e[k] = i}
<1>5. 0 \in T
  BY <1>2
<1>6. ASSUME NEW m \in Nat, m \in T  PROVE m + 1 \in T
  <2> SUFFICES ASSUME m + 1 <= n, NEW i \in 1..e[m + 1], t[i] = "LF"
               PROVE  \E k \in 1..n : e[k] = i
    OBVIOUS
  <2>1. m \in 0..n /\ m + 1 \in 0..n /\ m + 1 \in 1..n /\ (m + 1) - 1 = m
    OBVIOUS
  <2>2. e[m] \in Int /\ e[m + 1] \in Int
    BY <1>1, <1>3, <2>1
  <2>3. CASE i \in 1..e[m]
    BY <1>6, <2>1, <2>3
  <2>4. CASE i = e[m + 1]
    BY <2>1, <2>4
  <2>5. CASE i \in e[m] + 1..e[m + 1] - 1
    BY <1>2, <2>1, <2>5
  <2>6. i \in 1..e[m] \/ i = e[m + 1] \/ i \in e[m] + 1..e[m + 1] - 1
    BY <2>2
  <2> QED
    BY <2>3, <2>4, <2>5, <2>6
<1>7. Nat \subseteq T
  <2> HIDE DEF T
  <2> QED
    BY <1>5, <1>6, Induction
<1>8. ASSUME NEW i \in Newlines(t)  PROVE \E k \in 1..n : e[k] = i
  <2>1. i \in 1..Len(t) /\ t[i] = "LF"
    BY <1>3 DEF Newlines
  <2>2. n \in 0..n
    OBVIOUS
  <2>3. e[n] \in Int
    BY <1>1, <1>3, <2>2
  <2>4. i \notin e[n] + 1..Len(t)
    BY <2>1 DEF NoMore
  <2>5. i \in 1..e[n]
    BY <1>3, <2>1, <2>3, <2>4
  <2> QED
    BY <1>7, <2>1, <2>5
<1> QED
  BY <1>4, <1>8

LEMMA EndsCount ==
  ASSUME NEW t \in Seq(Bytes), NEW n \in Nat, NEW e, Ends(e, t, n), NoMore(e, t, n)
  PROVE  \A k \in 0..n : Cardinality({j \in Newlines(t) : j <= e[k]}) = k
<1>1. /\ \A k \in 0..n : e[k] \in 0..Len(t)
      /\ \A i \in 0..n : \A k \in 0..n : i < k => e[i] < e[k]
  BY EndsIncrease
<1>2. /\ \A k \in 1..n : e[k] \in Newlines(t)
      /\ \A i \in Newlines(t) : \E k \in 1..n : e[k] = i
  BY NewlinesAreEnds
<1>3. e[0] = 0 /\ Len(t) \in Nat /\ Newlines(t) \subseteq 1..Len(t)
  BY LenProperties DEF Ends, Newlines
<1> DEFINE U(m) == {j \in Newlines(t) : j <= e[m]}
           T == {m \in Nat : m <= n => IsFiniteSet(U(m)) /\ Cardinality(U(m)) = m}
<1>4. 0 \in T
  <2>1. U(0) = {}
    BY <1>3
  <2> QED
    BY <2>1, FS_EmptySet
<1>5. ASSUME NEW m \in Nat, m \in T  PROVE m + 1 \in T
  <2> SUFFICES ASSUME m + 1 <= n
               PROVE  IsFiniteSet(U(m + 1)) /\ Cardinality(U(m + 1)) = m + 1
    OBVIOUS
  <2>1. m \in 0..n /\ m + 1 \in 0..n /\ m + 1 \in 1..n
    OBVIOUS
  <2>2. /\ e[m] \in Int /\ e[m + 1] \in Int /\ e[m] < e[m + 1]
        /\ e[m + 1] \in Newlines(t)
    BY <1>1, <1>2, <1>3, <2>1
  <2>3. ASSUME NEW j \in Newlines(t)
        PROVE  j <= e[m + 1] <=> j <= e[m] \/ j = e[m + 1]
    <3>1. PICK k \in 1..n : e[k] = j
      BY <1>2
    <3>2. k \in 0..n /\ (k <= m \/ k = m + 1 \/ m + 1 < k)
      BY <2>1
    <3>3. k < m => e[k] < e[m]
      BY <1>1, <2>1, <3>2
    <3>4. m + 1 < k => e[m + 1] < e[k]
      BY <1>1, <2>1, <3>2
    <3>5. j \in Int
      BY <1>3
    <3>6. k <= m => j <= e[m]
      BY <2>1, <2>2, <3>1, <3>3, <3>5
    <3>7. k = m + 1 => j = e[m + 1]
      BY <3>1
    <3>8. m + 1 < k => e[m + 1] < j
      BY <3>1, <3>4
    <3> HIDE DEF T
    <3> QED
      BY <2>2, <3>2, <3>5, <3>6, <3>7, <3>8
  <2>4. U(m + 1) = U(m) \cup {e[m + 1]} /\ e[m + 1] \notin U(m)
    BY <2>2, <2>3
  <2>5. IsFiniteSet(U(m)) /\ Cardinality(U(m)) = m
    BY <1>5, <2>1
  <2> DEFINE A == U(m)
             B == U(m + 1)
             x == e[m + 1]
  <2>6. B = A \cup {x} /\ x \notin A /\ IsFiniteSet(A) /\ Cardinality(A) = m
    BY <2>4, <2>5
  <2> HIDE DEF A, B, x
  <2>7. IsFiniteSet(B) /\ Cardinality(B) = m + 1
    BY <2>6, FS_AddElement
  <2> QED
    BY <2>7 DEF B
<1>6. Nat \subseteq T
  <2> HIDE DEF T
  <2> QED
    BY <1>4, <1>5, Induction
<1>7. ASSUME NEW k \in 0..n  PROVE Cardinality(U(k)) = k
  <2>1. k \in T /\ k <= n
    BY <1>6
  <2> HIDE DEF U
  <2> QED
    BY <2>1
<1> QED
  BY <1>7

(* The k-th newline of a text. *)
Newline(t, k) ==
  CHOOSE i \in Newlines(t) : Cardinality({j \in Newlines(t) : j <= i}) = k

LEMMA EndsAreNewlines ==
  ASSUME NEW t \in Seq(Bytes), NEW n \in Nat, NEW e, Ends(e, t, n), NoMore(e, t, n)
  PROVE  /\ Cardinality(Newlines(t)) = n
         /\ \A k \in 1..n : Newline(t, k) = e[k]
<1>1. \A k \in 0..n : Cardinality({j \in Newlines(t) : j <= e[k]}) = k
  BY EndsCount
<1>2. /\ \A k \in 1..n : e[k] \in Newlines(t)
      /\ \A i \in Newlines(t) : \E k \in 1..n : e[k] = i
  BY NewlinesAreEnds
<1>3. \A i \in 0..n : \A k \in 0..n : e[i] \in Int /\ e[k] \in Int /\ (i < k => e[i] < e[k])
  <2>1. Len(t) \in Nat
    BY LenProperties
  <2> QED
    BY <2>1, EndsIncrease
<1>4. {j \in Newlines(t) : j <= e[n]} = Newlines(t)
  <2> SUFFICES ASSUME NEW j \in Newlines(t)  PROVE j <= e[n]
    OBVIOUS
  <2>1. PICK k \in 1..n : e[k] = j
    BY <1>2
  <2>2. k \in 0..n /\ n \in 0..n /\ (k < n \/ k = n)
    OBVIOUS
  <2> QED
    BY <1>3, <2>1, <2>2
<1>5. Cardinality(Newlines(t)) = n
  BY <1>1, <1>4
<1>6. ASSUME NEW k \in 1..n  PROVE Newline(t, k) = e[k]
  <2>1. e[k] \in Newlines(t) /\ Cardinality({j \in Newlines(t) : j <= e[k]}) = k
    <3>1. k \in 0..n
      OBVIOUS
    <3> QED
      BY <1>1, <1>2, <3>1
  <2>2. ASSUME NEW i \in Newlines(t), Cardinality({j \in Newlines(t) : j <= i}) = k
        PROVE  i = e[k]
    <3>1. PICK m \in 1..n : e[m] = i
      BY <1>2
    <3>2. m \in 0..n
      OBVIOUS
    <3>3. Cardinality({j \in Newlines(t) : j <= e[m]}) = m
      BY <1>1, <3>2
    <3> QED
      BY <2>2, <3>1, <3>3
  <2> QED
    BY <2>1, <2>2, Zenon DEF Newline
<1> QED
  BY <1>5, <1>6

-------------------------------------------------------------------------------
(* LinesFaithful, of a text t and reports r: done when the text has ended, half when its
   last character is half a pair. *)
LineEnd(t, k) == IF k > Cardinality(Newlines(t)) THEN Len(t) + 1 ELSE Newline(t, k)
LineAt(t, k) == SubSeq(t, IF k = 1 THEN 1 ELSE LineEnd(t, k - 1) + 1, LineEnd(t, k) - 1)

FaithfulLine(v, raw, excess) ==
  \/ v = Line(WithoutCR(raw)) /\ v.size <= MaxPendingLineBytes + excess
  \/ /\ v \in {TooLong(Len(raw)), TooLong(Len(WithoutCR(raw)))}
     /\ Len(raw) > MaxPendingLineBytes

ReportedOf(t, done) ==
  IF done /\ WithoutCR(LineAt(t, Cardinality(Newlines(t)) + 1)) # <<>>
  THEN Cardinality(Newlines(t)) + 1 ELSE Cardinality(Newlines(t))

FaithfulTo(t, r, done, half) ==
  /\ Len(r) = ReportedOf(t, done)
  /\ \A k \in 1..ReportedOf(t, done) :
       FaithfulLine(r[k], LineAt(t, k), IF k > Cardinality(Newlines(t)) /\ half THEN 3 ELSE 0)

LEMMA FaithfulIs == LinesFaithful <=> FaithfulTo(Whole, reports, ended, Last(stream) = "H")
<1>1. LineCount = Cardinality(Newlines(Whole))
  BY DEF LineCount
<1>2. \A k : EndOf(k) = LineEnd(Whole, k)
  BY <1>1 DEF EndOf, LineEnd, Newline
<1>3. \A k : RawLine(k) = LineAt(Whole, k)
  BY <1>2, Zenon DEF RawLine, LineAt
<1>4. ReportedOf(Whole, ended)
      = IF ended /\ WithoutCR(RawLine(LineCount + 1)) # <<>> THEN LineCount + 1 ELSE LineCount
  BY <1>1, <1>3, Zenon DEF ReportedOf
<1> QED
  BY <1>1, <1>3, <1>4 DEF LinesFaithful, FaithfulTo, FaithfulLine

LEMMA LinesAt ==
  ASSUME NEW t \in Seq(Bytes), NEW n \in Nat, NEW e, Ends(e, t, n), NoMore(e, t, n)
  PROVE  /\ Cardinality(Newlines(t)) = n
         /\ \A k \in 1..n : LineAt(t, k) = SubSeq(t, e[k - 1] + 1, e[k] - 1)
         /\ LineAt(t, n + 1) = SubSeq(t, e[n] + 1, Len(t))
<1>1. Cardinality(Newlines(t)) = n /\ \A k \in 1..n : Newline(t, k) = e[k]
  BY EndsAreNewlines
<1>2. e[0] = 0 /\ Len(t) \in Nat
  BY LenProperties DEF Ends
<1>3. \A k \in 1..n : LineEnd(t, k) = e[k]
  BY <1>1 DEF LineEnd
<1>4. LineEnd(t, n + 1) = Len(t) + 1
  BY <1>1 DEF LineEnd
<1>5. ASSUME NEW k \in 1..n + 1
      PROVE  (IF k = 1 THEN 1 ELSE LineEnd(t, k - 1) + 1) = e[k - 1] + 1
  <2>1. CASE k = 1
    BY <1>2, <2>1
  <2>2. CASE k # 1
    <3>1. k - 1 \in 1..n
      BY <2>2
    <3> QED
      BY <1>3, <2>2, <3>1
  <2> QED
    BY <2>1, <2>2
<1>6. ASSUME NEW k \in 1..n  PROVE LineAt(t, k) = SubSeq(t, e[k - 1] + 1, e[k] - 1)
  <2>1. k \in 1..n + 1
    OBVIOUS
  <2>2. LineEnd(t, k) - 1 = e[k] - 1
    BY <1>3
  <2> QED
    BY <1>5, <2>1, <2>2, Zenon DEF LineAt
<1>7. LineAt(t, n + 1) = SubSeq(t, e[n] + 1, Len(t))
  <2>1. n + 1 \in 1..n + 1 /\ (n + 1) - 1 = n
    OBVIOUS
  <2>2. LineEnd(t, n + 1) - 1 = Len(t)
    BY <1>2, <1>4
  <2>3. (IF n + 1 = 1 THEN 1 ELSE LineEnd(t, (n + 1) - 1) + 1) = e[(n + 1) - 1] + 1
    BY <1>5, <2>1
  <2> QED
    BY <2>1, <2>2, <2>3, Zenon DEF LineAt
<1> QED
  BY <1>1, <1>6, <1>7

(* Until the stream ends, as many lines are reported as the text has newlines. *)
LEMMA FaithfulSoFar ==
  ASSUME NEW t \in Seq(Bytes), NEW r \in Seq(Reports), NEW e, Ends(e, t, Len(r)),
         Reported(e, t, r), NoMore(e, t, Len(r)), NEW half
  PROVE  FaithfulTo(t, r, FALSE, half)
<1> DEFINE n == Len(r)
<1>1. n \in Nat
  BY LenProperties
<1>2. /\ Cardinality(Newlines(t)) = n
      /\ \A k \in 1..n : LineAt(t, k) = SubSeq(t, e[k - 1] + 1, e[k] - 1)
  BY <1>1, LinesAt
<1>3. ReportedOf(t, FALSE) = n
  BY <1>2 DEF ReportedOf
<1>4. MaxPendingLineBytes + 0 = MaxPendingLineBytes
  BY PendingAssumption
<1>5. ASSUME NEW k \in 1..n  PROVE FaithfulLine(r[k], LineAt(t, k), 0)
  <2>1. Verdict(r[k], LineAt(t, k))
    BY <1>2 DEF Reported
  <2> QED
    BY <1>4, <2>1 DEF Verdict, FaithfulLine
<1>6. \A k \in 1..n : ~(k > n)
  BY <1>1
<1> QED
  BY <1>2, <1>3, <1>5, <1>6 DEF FaithfulTo

(* When it ends, the tail, if there is one, has been reported too. *)
LEMMA FaithfulAtEnd ==
  ASSUME NEW t \in Seq(Bytes), NEW r \in Seq(Reports), NEW e, Ends(e, t, Len(r)),
         Reported(e, t, r), NoMore(e, t, Len(r)), NEW half \in BOOLEAN, NEW raw,
         raw = SubSeq(t, e[Len(r)] + 1, Len(t)), NEW q,
         \/ WithoutCR(raw) = <<>> /\ q = r
         \/ /\ WithoutCR(raw) # <<>>
            /\ \E v \in Reports :
                 q = Append(r, v) /\ FaithfulLine(v, raw, IF half THEN 3 ELSE 0)
  PROVE  FaithfulTo(t, q, TRUE, half)
<1> DEFINE n == Len(r)
<1>1. n \in Nat
  BY LenProperties
<1>2. /\ Cardinality(Newlines(t)) = n
      /\ \A k \in 1..n : LineAt(t, k) = SubSeq(t, e[k - 1] + 1, e[k] - 1)
      /\ LineAt(t, n + 1) = raw
  BY <1>1, LinesAt
<1>3. MaxPendingLineBytes + 0 = MaxPendingLineBytes
  BY PendingAssumption
<1>4. ASSUME NEW k \in 1..n  PROVE FaithfulLine(r[k], LineAt(t, k), 0)
  <2>1. Verdict(r[k], LineAt(t, k))
    BY <1>2 DEF Reported
  <2> QED
    BY <1>3, <2>1 DEF Verdict, FaithfulLine
<1>5. CASE WithoutCR(raw) = <<>> /\ q = r
  <2>1. ReportedOf(t, TRUE) = n
    BY <1>2, <1>5 DEF ReportedOf
  <2>2. \A k \in 1..n : ~(k > n)
    BY <1>1
  <2> QED
    BY <1>2, <1>4, <1>5, <2>1, <2>2 DEF FaithfulTo
<1>6. ASSUME WithoutCR(raw) # <<>>, NEW v \in Reports, q = Append(r, v),
             FaithfulLine(v, raw, IF half THEN 3 ELSE 0)
      PROVE  FaithfulTo(t, q, TRUE, half)
  <2>1. ReportedOf(t, TRUE) = n + 1
    BY <1>2, <1>6 DEF ReportedOf
  <2>2. Len(q) = n + 1 /\ q[n + 1] = v /\ \A k \in 1..n : q[k] = r[k]
    BY <1>6, AppendProperties
  <2>3. ASSUME NEW k \in 1..n + 1
        PROVE  FaithfulLine(q[k], LineAt(t, k), IF k > n /\ half THEN 3 ELSE 0)
    <3>1. CASE k = n + 1
      <4>1. k > n
        BY <1>1, <3>1
      <4>2. q[k] = v /\ LineAt(t, k) = raw
        BY <1>2, <2>2, <3>1
      <4>3. (IF k > n /\ half THEN 3 ELSE 0) = IF half THEN 3 ELSE 0
        BY <4>1
      <4> QED
        BY <1>6, <4>2, <4>3, Zenon
    <3>2. CASE k \in 1..n
      <4>1. ~(k > n)
        BY <1>1, <3>2
      <4>2. q[k] = r[k] /\ FaithfulLine(r[k], LineAt(t, k), 0)
        BY <1>4, <2>2, <3>2
      <4> QED
        BY <4>1, <4>2
    <3>3. k = n + 1 \/ k \in 1..n
      BY <1>1
    <3> QED
      BY <3>1, <3>2, <3>3
  <2> QED
    BY <1>2, <2>1, <2>2, <2>3 DEF FaithfulTo
<1> QED
  BY <1>5, <1>6

-------------------------------------------------------------------------------
(* The text that has been encoded: all that was received, but a high half held back. *)
Sent == IF pendingHighSurrogate = <<>> THEN stream ELSE Front(stream)

Held == pendingHighSurrogate = IF stream # <<>> /\ Last(stream) = "H" THEN <<"H">> ELSE <<>>

Types ==
  /\ pending \in Seq(Bytes)
  /\ pendingHighSurrogate \in {<<>>, <<"H">>}
  /\ skippingLine \in BOOLEAN /\ ended \in BOOLEAN
  /\ skippedBytes \in Nat
  /\ reports \in Seq(Reports)
  /\ stream \in Seq(Units)

(* Between two chunks: the half held back is the end of the stream, the reports and the
   buffer are the lines and the rest of what was sent, and the loop is done with them. *)
Framed ==
  /\ Held
  /\ Cut(LoopStart(pending), Encode(Sent))
  /\ Settled(LoopStart(pending))

IInv ==
  /\ Types
  /\ ~ended => Framed
  /\ ended => LinesFaithful

LEMMA FrontAndLast ==
  ASSUME NEW S, NEW s \in Seq(S), NEW x \in S
  PROVE  /\ Append(s, x) \in Seq(S) /\ Append(s, x) # <<>>
         /\ Front(Append(s, x)) = s /\ Last(Append(s, x)) = x
<1> DEFINE r == Append(s, x)
           n == Len(s)
<1>1. /\ n \in Nat /\ r \in Seq(S) /\ Len(r) = n + 1 /\ r[n + 1] = x
      /\ \A i \in 1..n : r[i] = s[i]
  BY LenProperties, AppendProperties
<1> HIDE DEF r
<1>2. r # <<>>
  <2>1. Len(r) # 0
    <3>1. n \in Nat /\ Len(r) = n + 1
      BY <1>1
    <3> HIDE DEF n
    <3> QED
      BY <3>1
  <2> QED
    BY <2>1, EmptySeq
<1>3. Last(r) = x
  BY <1>1 DEF Last
<1>4. Front(r) = s
  <2> DEFINE f == SubSeq(r, 1, n)
  <2>1. (n + 1) - 1 = n /\ 1 \in Nat /\ 1 <= 1 /\ 1 <= n + 1 /\ n <= n + 1 /\ n + 1 - 1 = n
    BY <1>1
  <2>2. Front(r) = f
    BY <1>1, <2>1 DEF Front
  <2>3. n <= Len(r)
    BY <1>1, <2>1
  <2>4. /\ f \in Seq(S) /\ Len(f) = n + 1 - 1
        /\ \A j \in 1..n + 1 - 1 : f[j] = r[(1 - 1) + j]
    BY <1>1, <2>1, <2>3, PartIs
  <2> HIDE DEF f
  <2>5. Len(f) = n
    BY <2>1, <2>4
  <2>6. ASSUME NEW j \in 1..n  PROVE f[j] = s[j]
    <3>1. j \in 1..n + 1 - 1 /\ (1 - 1) + j = j
      BY <1>1
    <3> QED
      BY <1>1, <2>4, <3>1
  <2>7. f = s
    BY <2>4, <2>5, <2>6, SeqEqual
  <2> QED
    BY <2>2, <2>7
<1> QED
  BY <1>1, <1>2, <1>3, <1>4 DEF r

(* What was received is what was sent and the half held back; nothing that begins with that
   half, or follows none, forms a pair with what was sent. *)
LEMMA SentIs ==
  ASSUME Types, Held
  PROVE  /\ Sent \in Seq(Units) /\ pendingHighSurrogate \in Seq(Units)
         /\ stream = Sent \o pendingHighSurrogate
         /\ \A x \in Seq(Units) : Apart(Sent, pendingHighSurrogate \o x)
         /\ pendingHighSurrogate # <<>> => Last(stream) = "H"
<1>1. stream \in Seq(Units) /\ <<"H">> \in Seq(Units) /\ <<>> \in Seq(Units)
  BY EncodeHalf DEF Types
<1>2. CASE stream # <<>> /\ Last(stream) = "H"
  <2>1. pendingHighSurrogate = <<"H">> /\ Sent = Front(stream)
    BY <1>2 DEF Held, Sent
  <2>2. PICK h \in Seq(Units), x \in Units : stream = Append(h, x)
    BY <1>1, <1>2, SequenceEmptyOrAppend
  <2>3. Front(stream) = h /\ Last(stream) = x
    BY <2>2, FrontAndLast
  <2>4. stream = h \o <<"H">>
    BY <1>2, <2>2, <2>3, AppendIsConcat
  <2>5. ASSUME NEW q \in Seq(Units)  PROVE (<<"H">> \o q)[1] # "L"
    <3>1. (<<"H">> \o q)[1] = "H"
      BY <1>1, ConcatProperties
    <3> QED
      BY <3>1
  <2> QED
    BY <1>1, <1>2, <2>1, <2>3, <2>4, <2>5 DEF Apart
<1>3. CASE ~(stream # <<>> /\ Last(stream) = "H")
  <2>1. pendingHighSurrogate = <<>> /\ Sent = stream
    BY <1>3 DEF Held, Sent
  <2>2. stream = stream \o <<>>
    BY <1>1, ConcatEmptySeq
  <2>3. ~(stream # <<>> /\ stream[Len(stream)] = "H")
    BY <1>3 DEF Last
  <2> QED
    BY <1>1, <2>1, <2>2, <2>3 DEF Apart
<1> QED
  BY <1>2, <1>3

-------------------------------------------------------------------------------
LEMMA LoopStartIs ==
  ASSUME Types
  PROVE  /\ LoopStart(pending) \in LoopStates
         /\ LoopStart(pending).pending = pending /\ LoopStart(pending).skipping = skippingLine
         /\ LoopStart(pending).skipped = skippedBytes /\ LoopStart(pending).reports = reports
         /\ \A c : LoopStart(pending \o c) = Joined(LoopStart(pending), c)
<1>1. LoopStart(pending) \in LoopStates
  BY DEF Types, LoopStart, LoopStates
<1>2. /\ LoopStart(pending).pending = pending /\ LoopStart(pending).skipping = skippingLine
      /\ LoopStart(pending).skipped = skippedBytes /\ LoopStart(pending).reports = reports
  BY DEF LoopStart
<1>3. ASSUME NEW b, NEW c  PROVE LoopStart(c) = [LoopStart(b) EXCEPT !.pending = c]
  BY DEF LoopStart
<1>4. ASSUME NEW c  PROVE LoopStart(pending \o c) = Joined(LoopStart(pending), c)
  BY <1>2, <1>3 DEF Joined
<1> QED
  BY <1>1, <1>2, <1>4

(* Bytes are processed: the text they encode has been sent, and is cut into lines. *)
LEMMA Processed ==
  ASSUME Types, Framed, NEW text \in Seq(Units), Apart(Sent, text), NEW bytes,
         bytes = pending \o Encode(text), ProcessPending(bytes)
  PROVE  /\ pending' \in Seq(Bytes) /\ skippingLine' \in BOOLEAN /\ skippedBytes' \in Nat
         /\ reports' \in Seq(Reports)
         /\ Cut(LoopStart(pending)', Encode(Sent \o text)) /\ Settled(LoopStart(pending)')
<1> DEFINE t == Encode(Sent)
           c == Encode(text)
<1>1. Sent \in Seq(Units)
  BY SentIs DEF Framed
<1>2. t \in Seq(Bytes) /\ c \in Seq(Bytes)
  BY <1>1, CodesAre
<1>3. Encode(Sent \o text) = t \o c
  BY <1>1, EncodeConcat
<1>4. LoopStart(pending) \in LoopStates /\ LoopStart(bytes) = Joined(LoopStart(pending), c)
  BY LoopStartIs
<1>5. Cut(LoopStart(pending), t)
  BY DEF Framed
<1> HIDE DEF t, c
<1>6. t \o c \in Seq(Bytes)
  BY <1>2, ConcatProperties
<1>7. LoopStart(bytes) \in LoopStates /\ Cut(LoopStart(bytes), t \o c)
  BY <1>2, <1>4, <1>5, CutGrows
<1>8. /\ AfterTurns(bytes) \in LoopStates /\ Cut(AfterTurns(bytes), t \o c)
      /\ Settled(AfterTurns(bytes))
  BY <1>6, <1>7, LoopSettles
<1>9. /\ pending' = AfterTurns(bytes).pending /\ skippingLine' = AfterTurns(bytes).skipping
      /\ skippedBytes' = AfterTurns(bytes).skipped /\ reports' = AfterTurns(bytes).reports
  BY DEF ProcessPending
<1>10. LoopStart(pending)' = AfterTurns(bytes)
  <2> DEFINE u == AfterTurns(bytes)
  <2>1. LoopStart(pending)' = [pending |-> u.pending, skipping |-> u.skipping,
                               skipped |-> u.skipped, reports |-> u.reports]
    BY <1>9 DEF LoopStart
  <2> HIDE DEF u
  <2>2. u \in LoopStates
    BY <1>8 DEF u
  <2>3. u = [pending |-> u.pending, skipping |-> u.skipping,
             skipped |-> u.skipped, reports |-> u.reports]
    BY <2>2 DEF LoopStates
  <2> QED
    BY <2>1, <2>3 DEF u
<1>11. /\ AfterTurns(bytes).pending \in Seq(Bytes) /\ AfterTurns(bytes).skipping \in BOOLEAN
       /\ AfterTurns(bytes).skipped \in Nat /\ AfterTurns(bytes).reports \in Seq(Reports)
  BY <1>8 DEF LoopStates
<1> QED
  BY <1>3, <1>8, <1>9, <1>10, <1>11

(* A chunk has at least one unit: its last. *)
LEMMA ChunkIs ==
  ASSUME NEW A, NEW chunk \in ChunksOf(A)
  PROVE  \E h \in Seq(A), x \in A : chunk = Append(h, x)
<1>1. PICK n \in 1..ChunkUnits : chunk \in [1..n -> A]
  BY DEF ChunksOf
<1>2. chunk \in Seq(A) /\ Len(chunk) = n
  BY <1>1, LenProperties
<1>3. chunk # <<>>
  BY <1>1, <1>2, EmptySeq
<1> QED
  BY <1>2, <1>3, SequenceEmptyOrAppend

(* The state after a push: the text was sent, and the half at its end is held back. *)
LEMMA PushedFrames ==
  ASSUME Types, Framed, ~ended, UNCHANGED ended, NEW text \in Seq(Units), Apart(Sent, text),
         NEW bytes, bytes = pending \o Encode(text), ProcessPending(bytes),
         stream' \in Seq(Units), pendingHighSurrogate' \in {<<>>, <<"H">>}, Held',
         Sent' = Sent \o text
  PROVE  IInv'
<1>1. /\ pending' \in Seq(Bytes) /\ skippingLine' \in BOOLEAN /\ skippedBytes' \in Nat
      /\ reports' \in Seq(Reports)
      /\ Cut(LoopStart(pending)', Encode(Sent \o text)) /\ Settled(LoopStart(pending)')
  BY Processed
<1>2. Types'
  BY <1>1 DEF Types
<1>3. Cut(LoopStart(pending)', Encode(Sent'))
  BY <1>1
<1>4. Cut(LoopStart(pending), Encode(Sent))'
  BY <1>3 DEF Cut, Encode, Ends, Reported, Verdict, Rests, Line, TooLong, WithoutCR
<1>5. Settled(LoopStart(pending))'
  BY <1>1 DEF Settled, Newlines
<1>6. Framed'
  BY <1>4, <1>5 DEF Framed
<1> QED
  BY <1>2, <1>6 DEF IInv

LEMMA UnitsJoined ==
  \A a, b, c \in Seq(Units) :
    (a \o b) \o c = a \o (b \o c) /\ a \o b \in Seq(Units) /\ b \o c \in Seq(Units)
<1>1. JoinsAssociate(Units)
  BY JoinsAlwaysAssociate
<1> QED
  BY <1>1, ConcatProperties DEF JoinsAssociate

LEMMA BytesJoined ==
  \A a, b, c \in Seq(Bytes) :
    (a \o b) \o c = a \o (b \o c) /\ a \o b \in Seq(Bytes) /\ b \o c \in Seq(Bytes)
<1>1. JoinsAssociate(Bytes)
  BY JoinsAlwaysAssociate
<1> QED
  BY <1>1, ConcatProperties DEF JoinsAssociate

(* A string chunk. *)
LEMMA PushKeeps ==
  ASSUME IInv, NEW chunk \in ChunksOf(Units), Push(chunk)
  PROVE  IInv'
<1> DEFINE half == pendingHighSurrogate
           held == Last(chunk) = "H"
           text == IF held THEN Front(half \o chunk) ELSE half \o chunk
           bytes == pending \o Encode(text)
<1>1. /\ ~ended /\ half' = (IF held THEN <<"H">> ELSE <<>>)
      /\ ProcessPending(bytes) /\ stream' = stream \o chunk /\ UNCHANGED ended
  BY DEF Push
<1>2. Types /\ Framed /\ Held
  BY <1>1 DEF IInv, Framed
<1>3. /\ Sent \in Seq(Units) /\ half \in Seq(Units) /\ stream = Sent \o half
      /\ \A x \in Seq(Units) : Apart(Sent, half \o x)
  BY <1>2, SentIs
<1>4. PICK h \in Seq(Units), x \in Units : chunk = Append(h, x)
  BY ChunkIs
<1>5. Last(chunk) = x /\ chunk \in Seq(Units)
  BY <1>4, FrontAndLast
<1>6. <<x>> \in Seq(Units) /\ chunk = h \o <<x>>
  BY <1>4, AppendIsConcat
<1>7. stream \in Seq(Units)
  BY <1>2 DEF Types
<1> HIDE DEF half, held, text, bytes
<1>8. half \o chunk = Append(half \o h, x) /\ half \o h \in Seq(Units)
  <2>1. (half \o h) \o <<x>> = half \o chunk /\ half \o h \in Seq(Units)
    BY <1>3, <1>6, UnitsJoined
  <2> QED
    BY <2>1, AppendIsConcat
<1>9. stream \o chunk = Append(stream \o h, x) /\ stream \o h \in Seq(Units)
  <2>1. (stream \o h) \o <<x>> = stream \o chunk /\ stream \o h \in Seq(Units)
    BY <1>6, <1>7, UnitsJoined
  <2> QED
    BY <2>1, AppendIsConcat
<1>10. stream' \in Seq(Units) /\ stream' # <<>> /\ Last(stream') = x /\ Front(stream') = stream \o h
  <2> DEFINE w == stream \o h
  <2>1. w \in Seq(Units) /\ stream' = Append(w, x)
    BY <1>1, <1>9
  <2> HIDE DEF w
  <2>2. /\ Append(w, x) \in Seq(Units) /\ Append(w, x) # <<>>
        /\ Last(Append(w, x)) = x /\ Front(Append(w, x)) = w
    BY <2>1, FrontAndLast
  <2> QED
    BY <2>1, <2>2, Zenon DEF w
<1>11. half' = IF x = "H" THEN <<"H">> ELSE <<>>
  BY <1>1, <1>5 DEF held
<1>12. Held' /\ pendingHighSurrogate' \in {<<>>, <<"H">>}
  BY <1>10, <1>11 DEF Held, half
<1>13. text \in Seq(Units) /\ Apart(Sent, text) /\ Sent' = Sent \o text
  <2>1. CASE held
    <3>1. x = "H" /\ half' # <<>>
      BY <1>5, <1>11, <2>1 DEF held
    <3>2. text = half \o h
      BY <1>8, <2>1, FrontAndLast DEF text
    <3>3. Sent' = stream \o h
      BY <1>10, <3>1 DEF Sent, half
    <3>4. stream \o h = Sent \o (half \o h)
      <4>1. Sent \in Seq(Units) /\ half \in Seq(Units) /\ stream = Sent \o half
        BY <1>3
      <4> QED
        BY <4>1, UnitsJoined
    <3>5. Apart(Sent, half \o h)
      BY <1>3
    <3> QED
      BY <1>8, <3>2, <3>3, <3>4, <3>5
  <2>2. CASE ~held
    <3>1. half' = <<>>
      BY <1>1, <2>2
    <3>2. text = half \o chunk
      BY <2>2 DEF text
    <3>3. Sent' = stream \o chunk
      BY <1>1, <3>1 DEF Sent, half
    <3>4. stream \o chunk = Sent \o (half \o chunk) /\ half \o chunk \in Seq(Units)
      <4>1. Sent \in Seq(Units) /\ half \in Seq(Units) /\ stream = Sent \o half
        BY <1>3
      <4>2. chunk \in Seq(Units)
        BY <1>5
      <4>3. \A c \in Seq(Units) : /\ stream \o c = Sent \o (half \o c)
                                  /\ half \o c \in Seq(Units)
        BY <4>1, UnitsJoined
      <4> QED
        BY <4>2, <4>3, Zenon
    <3>5. Apart(Sent, half \o chunk)
      BY <1>3, <1>5
    <3> QED
      BY <3>2, <3>3, <3>4, <3>5
  <2> QED
    BY <2>1, <2>2
<1> QED
  BY <1>1, <1>2, <1>10, <1>12, <1>13, PushedFrames DEF bytes

(* A byte chunk: the half held back goes before it. *)
LEMMA PushBytesKeeps ==
  ASSUME IInv, NEW chunk \in ChunksOf({"x", "CR", "LF"}), PushBytes(chunk)
  PROVE  IInv'
<1> DEFINE half == pendingHighSurrogate
           text == half \o chunk
           bytes == pending \o Encode(half) \o chunk
<1>1. /\ ~ended /\ half' = <<>>
      /\ ProcessPending(bytes) /\ stream' = stream \o chunk /\ UNCHANGED ended
  BY DEF PushBytes
<1>2. Types /\ Framed /\ Held
  BY <1>1 DEF IInv, Framed
<1>3. /\ Sent \in Seq(Units) /\ half \in Seq(Units) /\ stream = Sent \o half
      /\ \A x \in Seq(Units) : Apart(Sent, half \o x)
  BY <1>2, SentIs
<1>4. PICK h \in Seq({"x", "CR", "LF"}), x \in {"x", "CR", "LF"} : chunk = Append(h, x)
  BY ChunkIs
<1>5. Last(chunk) = x /\ chunk \in Seq({"x", "CR", "LF"})
  BY <1>4, FrontAndLast
<1>6. chunk \in Seq(Units) /\ Encode(chunk) = chunk
  BY <1>5, EncodePlain
<1>7. stream \in Seq(Units) /\ pending \in Seq(Bytes)
  BY <1>2 DEF Types
<1>8. h \in Seq(Units) /\ x \in Units /\ x # "H"
  BY <1>4, EncodePlain DEF Units
<1>9. <<x>> \in Seq(Units) /\ chunk = h \o <<x>>
  BY <1>4, <1>8, AppendIsConcat
<1> HIDE DEF half, text, bytes
<1>10. stream \o chunk = Append(stream \o h, x) /\ stream \o h \in Seq(Units)
  <2>1. (stream \o h) \o <<x>> = stream \o chunk /\ stream \o h \in Seq(Units)
    BY <1>7, <1>8, <1>9, UnitsJoined
  <2> QED
    BY <2>1, AppendIsConcat
<1>11. stream' \in Seq(Units) /\ stream' # <<>> /\ Last(stream') = x
  <2> DEFINE w == stream \o h
  <2>1. w \in Seq(Units) /\ stream' = Append(w, x)
    BY <1>1, <1>10
  <2> HIDE DEF w
  <2>2. Append(w, x) \in Seq(Units) /\ Append(w, x) # <<>> /\ Last(Append(w, x)) = x
    BY <1>8, <2>1, FrontAndLast
  <2> QED
    BY <2>1, <2>2, Zenon
<1>12. Held' /\ pendingHighSurrogate' \in {<<>>, <<"H">>}
  BY <1>1, <1>8, <1>11 DEF Held, half
<1>13. text \in Seq(Units) /\ Apart(Sent, text) /\ Sent' = Sent \o text
  <2>1. Sent' = stream \o chunk
    BY <1>1 DEF Sent, half
  <2>2. stream \o chunk = Sent \o (half \o chunk) /\ half \o chunk \in Seq(Units)
    <3>1. Sent \in Seq(Units) /\ half \in Seq(Units) /\ stream = Sent \o half
      BY <1>3
    <3>2. chunk \in Seq(Units)
      BY <1>6
    <3> QED
      BY <3>1, <3>2, UnitsJoined
  <2>3. Apart(Sent, half \o chunk)
    BY <1>3, <1>6
  <2> QED
    BY <2>1, <2>2, <2>3 DEF text
<1>14. bytes = pending \o Encode(text)
  <2>1. Apart(half, chunk)
    <3>1. chunk # <<>> => chunk[1] \in {"x", "CR", "LF"}
      <4>1. chunk # <<>> => Len(chunk) \in Nat /\ Len(chunk) # 0
        BY <1>6, EmptySeq, LenProperties
      <4>2. chunk # <<>> => 1 \in 1..Len(chunk)
        BY <4>1
      <4> QED
        BY <1>5, <4>2, ElementOfSeq
    <3> QED
      BY <3>1 DEF Apart
  <2>2. Encode(text) = Encode(half) \o chunk
    BY <1>3, <1>6, <2>1, EncodeConcat DEF text
  <2>3. Encode(half) \in Seq(Bytes) /\ chunk \in Seq(Bytes)
    BY <1>3, <1>6, CodesAre
  <2>4. (pending \o Encode(half)) \o chunk = pending \o (Encode(half) \o chunk)
    BY <1>7, <2>3, BytesJoined
  <2> QED
    BY <2>2, <2>4 DEF bytes
<1> QED
  BY <1>1, <1>2, <1>11, <1>12, <1>13, <1>14, PushedFrames

-------------------------------------------------------------------------------
(* The end of the stream: what is pending, after what was skipped, is the last line. *)
TailOf(e, s, t) == SubSeq(t, e[Len(s.reports)] + 1, Len(t))

NoNewline(b) == \A j \in 1..Len(b) : b[j] # "LF"

LEMMA TailIs ==
  ASSUME NEW s \in LoopStates, NEW t \in Seq(Bytes), NEW e, Ends(e, t, Len(s.reports)),
         Rests(e[Len(s.reports)], t, s), NoNewline(s.pending)
  PROVE  /\ NoMore(e, t, Len(s.reports))
         /\ TailOf(e, s, t) \in Seq(Bytes \ {"LF"})
         /\ Len(TailOf(e, s, t)) = s.skipped + Len(s.pending)
         /\ ~s.skipping => TailOf(e, s, t) = s.pending
<1> DEFINE n == Len(s.reports)
           last == e[n]
           k == s.skipped
           p == Len(s.pending)
           T == Len(t)
           raw == TailOf(e, s, t)
<1>1. /\ s.pending \in Seq(Bytes) /\ s.skipping \in BOOLEAN /\ k \in Nat
      /\ s.reports \in Seq(Reports)
  BY DEF LoopStates
<1>2. n \in Nat /\ p \in Nat /\ T \in Nat
  BY <1>1, LenProperties
<1>3. last \in 0..T
  BY <1>2, EndsIncrease
<1>4. /\ last + k + p = T
      /\ \A j \in last + 1..last + k : t[j] # "LF"
      /\ \A j \in 1..p : s.pending[j] = t[last + k + j]
      /\ ~s.skipping => k = 0
  BY DEF Rests
<1>5. raw = SubSeq(t, last + 1, T)
  BY DEF TailOf
<1> HIDE DEF n, last, k, p, T, raw
<1>6. last \in Nat /\ last + k + p = T
  BY <1>2, <1>3, <1>4
<1>7. ASSUME NEW j \in last + 1..T  PROVE t[j] # "LF"
  <2>1. CASE j \in last + 1..last + k
    BY <1>4, <2>1
  <2>2. CASE j \in last + k + 1..T
    <3>1. j - (last + k) \in 1..p /\ last + k + (j - (last + k)) = j
      BY <1>1, <1>2, <1>6, <2>2
    <3>2. s.pending[j - (last + k)] # "LF"
      BY <3>1 DEF NoNewline, p
    <3>3. s.pending[j - (last + k)] = t[last + k + (j - (last + k))]
      BY <1>4, <3>1
    <3> QED
      BY <3>1, <3>2, <3>3
  <2> QED
    BY <1>1, <1>6, <2>1, <2>2
<1>8. /\ last + 1 \in Nat /\ T \in Nat /\ 1 <= last + 1 /\ last + 1 <= T + 1 /\ T <= Len(t)
      /\ T + 1 - (last + 1) = k + p /\ (last + 1) - 1 = last
  BY <1>1, <1>2, <1>6 DEF T
<1>9. raw \in Seq(Bytes \ {"LF"})
  BY <1>5, <1>7, <1>8, LineHasNoNewline
<1>10. /\ Len(raw) = T + 1 - (last + 1)
       /\ \A j \in 1..T + 1 - (last + 1) : raw[j] = t[((last + 1) - 1) + j]
       /\ raw \in Seq(Bytes)
  BY <1>5, <1>8, PartIs
<1>11. Len(raw) = k + p
  BY <1>8, <1>10
<1>12. ASSUME ~s.skipping  PROVE raw = s.pending
  <2>1. k = 0 /\ Len(raw) = p
    <3>1. k = 0
      BY <1>4, <1>12
    <3> QED
      BY <1>2, <1>11, <3>1
  <2>2. ASSUME NEW j \in 1..p  PROVE raw[j] = s.pending[j]
    <3>1. /\ j \in 1..T + 1 - (last + 1) /\ ((last + 1) - 1) + j = last + j
          /\ last + k + j = last + j
      BY <1>2, <1>6, <2>1
    <3>2. raw[j] = t[last + j]
      BY <1>10, <3>1
    <3>3. s.pending[j] = t[last + j]
      BY <1>4, <3>1
    <3> QED
      BY <3>2, <3>3
  <2>3. Len(s.pending) = p
    BY DEF p
  <2> QED
    BY <1>1, <1>10, <2>1, <2>2, <2>3, SeqEqual
<1>13. NoMore(e, t, n)
  BY <1>7 DEF NoMore, last, T
<1> QED
  BY <1>9, <1>11, <1>12, <1>13 DEF raw, n, k, p

(* The half held back ends the stream as three bytes. *)
LEMMA HalfIs ==
  ASSUME Types, Framed
  PROVE  LET c == Encode(pendingHighSurrogate)
         IN /\ c \in Seq(Bytes) /\ NoNewline(c)
            /\ Len(c) = IF pendingHighSurrogate = <<>> THEN 0 ELSE 3
            /\ Len(c) <= IF Last(stream) = "H" THEN 3 ELSE 0
            /\ Encode(stream) = Encode(Sent) \o c /\ Encode(Sent) \in Seq(Bytes)
<1> DEFINE c == Encode(pendingHighSurrogate)
<1>1. /\ Sent \in Seq(Units) /\ pendingHighSurrogate \in Seq(Units)
      /\ stream = Sent \o pendingHighSurrogate
      /\ \A x \in Seq(Units) : Apart(Sent, pendingHighSurrogate \o x)
      /\ pendingHighSurrogate # <<>> => Last(stream) = "H"
  BY SentIs DEF Framed
<1>2. c \in Seq(Bytes) /\ Encode(Sent) \in Seq(Bytes)
  BY <1>1, CodesAre
<1>3. c = IF pendingHighSurrogate = <<>> THEN <<>> ELSE <<"r", "r", "r">>
  BY EncodeHalf DEF Types
<1>4. Len(c) = IF pendingHighSurrogate = <<>> THEN 0 ELSE 3
  BY <1>3
<1>5. NoNewline(c)
  <2>1. NoNewline(<<>>) /\ NoNewline(<<"r", "r", "r">>)
    BY DEF NoNewline
  <2> QED
    BY <1>3, <2>1
<1>6. Apart(Sent, pendingHighSurrogate)
  <2>1. <<>> \in Seq(Units) /\ pendingHighSurrogate \o <<>> = pendingHighSurrogate
    BY <1>1, EncodeHalf, ConcatEmptySeq
  <2> QED
    BY <1>1, <2>1
<1>7. Encode(stream) = Encode(Sent) \o c
  BY <1>1, <1>6, EncodeConcat
<1>8. Len(c) <= IF Last(stream) = "H" THEN 3 ELSE 0
  BY <1>1, <1>4
<1> QED
  BY <1>2, <1>4, <1>5, <1>7, <1>8

(* What the loop has left between two chunks. *)
LEMMA SettledIs ==
  ASSUME Types, Framed
  PROVE  /\ Len(pending) <= MaxPendingLineBytes /\ Newlines(pending) = {} /\ NoNewline(pending)
         /\ skippingLine => pending = <<>> /\ skippedBytes > MaxPendingLineBytes
<1> DEFINE s == LoopStart(pending)
<1>1. /\ s.pending = pending /\ s.skipping = skippingLine /\ s.skipped = skippedBytes
  BY LoopStartIs
<1>2. Settled(s) /\ Cut(s, Encode(Sent))
  BY DEF Framed
<1> HIDE DEF s
<1>3. MaxPendingLineBytes \in Nat
  BY PendingAssumption
<1>4. s.skipping => s.skipped > MaxPendingLineBytes
  BY <1>2 DEF Cut, Rests
<1>5. Len(<<>>) = 0 /\ Newlines(<<>>) = {}
  BY DEF Newlines
<1>6. Len(pending) <= MaxPendingLineBytes /\ Newlines(pending) = {}
  BY <1>1, <1>2, <1>3, <1>5 DEF Settled
<1>7. skippingLine => pending = <<>>
  BY <1>1, <1>2 DEF Settled
<1>8. NoNewline(pending)
  <2>1. DOMAIN pending = 1..Len(pending)
    BY LenProperties DEF Types
  <2> QED
    BY <1>6, <2>1 DEF NoNewline, Newlines
<1> QED
  BY <1>1, <1>4, <1>6, <1>7, <1>8

(* The report of the tail, if it is not empty, is faithful. *)
LEMMA TailReported ==
  ASSUME NEW raw \in Seq(Bytes \ {"LF"}), NEW excess \in Nat,
         Len(raw) <= MaxPendingLineBytes + excess
  PROVE  /\ Line(WithoutCR(raw)) \in Reports
         /\ FaithfulLine(Line(WithoutCR(raw)), raw, excess)
<1> DEFINE w == WithoutCR(raw)
<1>1. w \in Seq(Bytes \ {"LF"}) /\ Len(w) \in Nat /\ Len(raw) \in Nat /\ Len(w) <= Len(raw)
  BY WithoutCRKeeps
<1> HIDE DEF w
<1>2. Line(w) \in Reports /\ Line(w).size = Len(w)
  BY <1>1 DEF Line, Reports
<1>3. Len(w) <= MaxPendingLineBytes + excess
  BY <1>1, PendingAssumption
<1>4. FaithfulLine(Line(w), raw, excess)
  BY <1>2, <1>3 DEF FaithfulLine, w
<1> QED
  BY <1>2, <1>4 DEF w

LEMMA TailSkipped ==
  ASSUME NEW raw \in Seq(Bytes \ {"LF"}), NEW excess \in Nat, Len(raw) > MaxPendingLineBytes
  PROVE  /\ TooLong(Len(raw)) \in Reports /\ WithoutCR(raw) # <<>>
         /\ FaithfulLine(TooLong(Len(raw)), raw, excess)
<1>1. /\ Len(WithoutCR(raw)) \in Nat /\ Len(raw) \in Nat
      /\ Len(raw) <= Len(WithoutCR(raw)) + 1
  BY WithoutCRKeeps
<1>2. <<>> \in Seq(Bytes \ {"LF"})
  BY EmptySeq
<1>3. TooLong(Len(raw)) \in Reports
  BY <1>1, <1>2 DEF TooLong, Reports
<1>4. Len(WithoutCR(raw)) # 0
  BY <1>1, PendingAssumption
<1>5. WithoutCR(raw) # <<>>
  BY <1>4, EmptySeq
<1>6. FaithfulLine(TooLong(Len(raw)), raw, excess)
  BY DEF FaithfulLine
<1> QED
  BY <1>3, <1>5, <1>6

(* finish(). *)
LEMMA FinishKeeps ==
  ASSUME IInv, Finish
  PROVE  IInv'
<1> DEFINE c == Encode(pendingHighSurrogate)
           bytes == pending \o c
           t == Encode(Sent)
           s == LoopStart(pending)
           u == Joined(s, c)
           half == Last(stream) = "H"
<1>1. ~ended /\ Types /\ Framed
  BY DEF Finish, IInv
<1>2. /\ c \in Seq(Bytes) /\ NoNewline(c) /\ t \in Seq(Bytes)
      /\ Len(c) <= (IF half THEN 3 ELSE 0) /\ Encode(stream) = t \o c
  BY <1>1, HalfIs
<1>3. /\ Len(pending) <= MaxPendingLineBytes /\ NoNewline(pending)
      /\ skippingLine => pending = <<>> /\ skippedBytes > MaxPendingLineBytes
  BY <1>1, SettledIs
<1>4. /\ s \in LoopStates /\ s.pending = pending /\ s.skipping = skippingLine
      /\ s.skipped = skippedBytes /\ s.reports = reports
  BY <1>1, LoopStartIs
<1>5. Cut(s, t)
  BY <1>1 DEF Framed
<1>6. /\ ended' = TRUE /\ pendingHighSurrogate' = <<>> /\ skippingLine' = FALSE
      /\ stream' = stream
      /\ \/ /\ skippingLine
            /\ skippedBytes' = skippedBytes + Len(bytes)
            /\ reports' = Append(reports, TooLong(skippedBytes + Len(bytes)))
            /\ pending' = bytes
         \/ /\ ~skippingLine
            /\ reports' = IF WithoutCR(bytes) = <<>> THEN reports
                          ELSE Append(reports, Line(WithoutCR(bytes)))
            /\ pending' = <<>> /\ skippedBytes' = skippedBytes
  BY DEF Finish
<1>7. /\ pending \in Seq(Bytes) /\ skippedBytes \in Nat /\ reports \in Seq(Reports)
      /\ stream \in Seq(Units) /\ skippingLine \in BOOLEAN
  BY <1>1 DEF Types
<1>8. half \in BOOLEAN
  OBVIOUS
<1> HIDE DEF c, t, s, half
<1>9. /\ bytes \in Seq(Bytes) /\ Len(bytes) = Len(pending) + Len(c)
      /\ Len(pending) \in Nat /\ Len(c) \in Nat
  BY <1>2, <1>7, ConcatProperties, LenProperties
<1>10. NoNewline(bytes)
  <2> SUFFICES ASSUME NEW j \in 1..Len(bytes)  PROVE bytes[j] # "LF"
    BY DEF NoNewline
  <2>1. j \in 1..Len(pending) + Len(c)
    BY <1>9
  <2>2. bytes[j] = IF j <= Len(pending) THEN pending[j] ELSE c[j - Len(pending)]
    BY <1>2, <1>7, <2>1, ConcatProperties
  <2>3. j <= Len(pending) => j \in 1..Len(pending)
    BY <1>9, <2>1
  <2>4. ~(j <= Len(pending)) => j - Len(pending) \in 1..Len(c)
    BY <1>9, <2>1
  <2> QED
    BY <1>2, <1>3, <2>2, <2>3, <2>4 DEF NoNewline
<1>11. /\ u \in LoopStates /\ Cut(u, t \o c) /\ u.pending = bytes /\ u.skipping = skippingLine
       /\ u.skipped = skippedBytes /\ u.reports = reports
  <2>1. u \in LoopStates /\ Cut(u, t \o c)
    BY <1>2, <1>4, <1>5, CutGrows
  <2>2. /\ u.pending = bytes /\ u.skipping = skippingLine
        /\ u.skipped = skippedBytes /\ u.reports = reports
    BY <1>4 DEF Joined, LoopStates
  <2> QED
    BY <2>1, <2>2
<1> DEFINE d == t \o c
<1>12. d \in Seq(Bytes)
  BY <1>2, ConcatProperties
<1> HIDE DEF u, bytes, d
<1>13. PICK e : Ends(e, d, Len(reports)) /\ Reported(e, d, reports)
                  /\ Rests(e[Len(reports)], d, u)
  BY <1>11 DEF Cut, d
<1> DEFINE raw == TailOf(e, u, d)
<1>14. /\ NoMore(e, d, Len(reports)) /\ raw \in Seq(Bytes \ {"LF"})
       /\ Len(raw) = skippedBytes + Len(bytes)
       /\ ~skippingLine => raw = bytes
  BY <1>10, <1>11, <1>12, <1>13, TailIs
<1>15. raw = SubSeq(d, e[Len(reports)] + 1, Len(d))
  BY <1>11 DEF TailOf
<1> HIDE DEF raw
<1> DEFINE excess == IF half THEN 3 ELSE 0
<1>16. excess \in Nat
  OBVIOUS
<1>17. /\ \/ WithoutCR(raw) = <<>> /\ reports' = reports
          \/ /\ WithoutCR(raw) # <<>>
             /\ \E v \in Reports : reports' = Append(reports, v) /\ FaithfulLine(v, raw, excess)
       /\ pending' \in Seq(Bytes) /\ skippedBytes' \in Nat
  <2>1. CASE skippingLine
    <3>1. Len(raw) > MaxPendingLineBytes
      <4>1. skippedBytes > MaxPendingLineBytes
        BY <1>3, <2>1
      <4> QED
        BY <1>7, <1>9, <1>14, <4>1, PendingAssumption
    <3>2. /\ TooLong(Len(raw)) \in Reports /\ WithoutCR(raw) # <<>>
          /\ FaithfulLine(TooLong(Len(raw)), raw, excess)
      BY <1>16, <1>14, <3>1, TailSkipped
    <3>3. reports' = Append(reports, TooLong(Len(raw)))
      BY <1>6, <1>14, <2>1
    <3>4. pending' = bytes /\ skippedBytes' = skippedBytes + Len(bytes)
      BY <1>6, <2>1
    <3>5. skippedBytes' \in Nat
      BY <1>7, <1>9, <3>4
    <3> QED
      BY <1>9, <3>2, <3>3, <3>4, <3>5
  <2>2. CASE ~skippingLine
    <3>1. raw = bytes
      BY <1>14, <2>2
    <3>2. Len(raw) <= MaxPendingLineBytes + excess
      <4>1. Len(c) <= excess
        BY <1>2
      <4> HIDE DEF excess
      <4> QED
        BY <1>3, <1>9, <1>16, <3>1, <4>1, PendingAssumption
    <3>3. /\ Line(WithoutCR(raw)) \in Reports
          /\ FaithfulLine(Line(WithoutCR(raw)), raw, excess)
      BY <1>16, <1>14, <3>2, TailReported
    <3>4. reports' = IF WithoutCR(raw) = <<>> THEN reports
                     ELSE Append(reports, Line(WithoutCR(raw)))
      BY <1>6, <2>2, <3>1
    <3>5. pending' = <<>> /\ skippedBytes' = skippedBytes
      BY <1>6, <2>2
    <3>6. pending' \in Seq(Bytes) /\ skippedBytes' \in Nat
      BY <1>7, <3>5
    <3> HIDE DEF excess
    <3> QED
      BY <3>3, <3>4, <3>6
  <2> QED
    BY <1>7, <2>1, <2>2
<1>18. FaithfulTo(d, reports', TRUE, half)
  BY <1>7, <1>8, <1>12, <1>13, <1>14, <1>15, <1>17, FaithfulAtEnd
<1>19. Types'
  <2>1. reports' \in Seq(Reports)
    <3>1. reports' = reports \/ \E v \in Reports : reports' = Append(reports, v)
      BY <1>17
    <3>2. ASSUME NEW v \in Reports  PROVE Append(reports, v) \in Seq(Reports)
      <4>1. reports \in Seq(Reports)
        BY <1>7
      <4> QED
        BY <4>1, AppendProperties
    <3> QED
      BY <1>7, <3>1, <3>2
  <2> QED
    BY <1>6, <1>7, <1>17, <2>1 DEF Types
<1>20. LinesFaithful'
  <2>1. Whole' = d
    BY <1>2, <1>6 DEF Whole, d, Encode
  <2>2. (LinesFaithful <=> FaithfulTo(Whole, reports, ended, Last(stream) = "H"))'
    BY FaithfulIs, PTL
  <2>3. (Last(stream) = "H")' <=> half
    BY <1>6 DEF half
  <2>4. FaithfulTo(Whole, reports, ended, Last(stream) = "H")'
    BY <1>6, <1>8, <1>18, <2>1, <2>3
  <2> QED
    BY <2>2, <2>4
<1> QED
  BY <1>6, <1>19, <1>20 DEF IInv

-------------------------------------------------------------------------------
LEMMA InitKeeps ==
  ASSUME Init
  PROVE  IInv
<1>1. Types /\ ~ended
  <2>1. <<>> \in Seq(Bytes) /\ <<>> \in Seq(Units) /\ <<>> \in Seq(Reports)
    BY EmptySeq
  <2> QED
    BY <2>1 DEF Init, Types
<1>2. Held /\ Sent = <<>>
  BY DEF Init, Held, Sent
<1>3. Encode(Sent) = <<>>
  BY <1>2, EncodeHalf
<1> DEFINE s == LoopStart(pending)
<1>4. s.pending = <<>> /\ s.skipping = FALSE /\ s.skipped = 0 /\ s.reports = <<>>
  BY <1>1, LoopStartIs DEF Init
<1> HIDE DEF s
<1>5. Len(<<>>) = 0
  OBVIOUS
<1>6. Ends([i \in 0..0 |-> 0], <<>>, 0)
  BY <1>5 DEF Ends
<1>7. Reported([i \in 0..0 |-> 0], <<>>, <<>>)
  BY <1>5 DEF Reported
<1>8. Rests([i \in 0..0 |-> 0][0], <<>>, s)
  BY <1>4, <1>5 DEF Rests
<1>9. Cut(s, <<>>)
  BY <1>4, <1>5, <1>6, <1>7, <1>8 DEF Cut
<1>10. Settled(s)
  BY <1>4 DEF Settled
<1>11. Framed
  BY <1>2, <1>3, <1>9, <1>10 DEF Framed, s
<1> QED
  BY <1>1, <1>11 DEF IInv

LEMMA StepKeeps ==
  ASSUME IInv, [Next]_vars
  PROVE  IInv'
<1>1. ASSUME NEW chunk \in ChunksOf(Units), Push(chunk)  PROVE IInv'
  BY <1>1, PushKeeps
<1>2. ASSUME NEW chunk \in ChunksOf({"x", "CR", "LF"}), PushBytes(chunk)  PROVE IInv'
  BY <1>2, PushBytesKeeps
<1>3. CASE Finish
  BY <1>3, FinishKeeps
<1>4. CASE UNCHANGED vars
  <2>1. /\ pending' = pending /\ pendingHighSurrogate' = pendingHighSurrogate
        /\ skippingLine' = skippingLine /\ skippedBytes' = skippedBytes /\ ended' = ended
        /\ reports' = reports /\ stream' = stream
    BY <1>4 DEF vars
  <2>2. Types' /\ (Framed <=> Framed')
    BY <2>1 DEF IInv, Types, Framed, Held, LoopStart, Sent
  <2>3. LinesFaithful <=> LinesFaithful'
    <3>1. Whole' = Whole
      BY <2>1 DEF Whole
    <3>2. (LinesFaithful <=> FaithfulTo(Whole, reports, ended, Last(stream) = "H"))'
      BY FaithfulIs, PTL
    <3>3. FaithfulTo(Whole, reports, ended, Last(stream) = "H")'
          <=> FaithfulTo(Whole, reports, ended, Last(stream) = "H")
      BY <2>1, <3>1
    <3> QED
      BY <3>2, <3>3, FaithfulIs
  <2> QED
    BY <2>1, <2>2, <2>3 DEF IInv
<1> QED
  BY <1>1, <1>2, <1>3, <1>4 DEF Next

LEMMA ReportsTyped ==
  ASSUME Types
  PROVE  \A i \in DOMAIN reports :
           reports[i] \in [skipped : BOOLEAN, bytes : Seq(Bytes \ {"LF"}), size : Nat]
<1>1. reports \in Seq(Reports) /\ DOMAIN reports = 1..Len(reports)
  BY LenProperties DEF Types
<1>2. \A i \in 1..Len(reports) : reports[i] \in Reports
  BY <1>1, ElementOfSeq
<1> QED
  BY <1>1, <1>2 DEF Reports

(* Whatever the stream and wherever its chunks end, the framer keeps its types: between two
   chunks the buffer holds a part of one line, within the cap, and nothing of a line that is
   being skipped (protocol-parser.ts, processPending). *)
THEOREM FramingTypeCorrect == Spec => []TypeOK
<1>1. Init => IInv
  BY InitKeeps
<1>2. IInv /\ [Next]_vars => IInv'
  BY StepKeeps
<1>3. IInv => TypeOK
  <2> SUFFICES ASSUME IInv  PROVE TypeOK
    OBVIOUS
  <2>1. Types
    BY DEF IInv
  <2>2. ~ended => /\ Len(pending) <= MaxPendingLineBytes
                  /\ Newlines(pending) = {}
                  /\ skippingLine => pending = <<>> /\ skippedBytes > MaxPendingLineBytes
    BY <2>1, SettledIs DEF IInv
  <2>3. \A i \in DOMAIN reports :
          reports[i] \in [skipped : BOOLEAN, bytes : Seq(Bytes \ {"LF"}), size : Nat]
    BY <2>1, ReportsTyped
  <2> QED
    BY <2>1, <2>2, <2>3 DEF TypeOK, Types
<1> QED
  BY <1>1, <1>2, <1>3, PTL DEF Spec

(* However the stream was cut into chunks, and whatever the cap: line k of the stream is
   reported as line k, with exactly its bytes or skipped with its size, and so is the tail
   when the stream ends (protocol-parser.ts, push and finish). *)
THEOREM LinesAreFaithful == Spec => []LinesFaithful
<1>1. Init => IInv
  BY InitKeeps
<1>2. IInv /\ [Next]_vars => IInv'
  BY StepKeeps
<1>3. IInv => LinesFaithful
  <2> SUFFICES ASSUME IInv, ~ended  PROVE LinesFaithful
    BY DEF IInv
  <2> DEFINE s == LoopStart(pending)
             t == Encode(Sent)
  <2>1. Types /\ Framed
    BY DEF IInv
  <2>2. /\ s \in LoopStates /\ s.pending = pending /\ s.reports = reports
        /\ reports \in Seq(Reports)
    BY <2>1, LoopStartIs DEF Types
  <2>3. Whole = t
    BY DEF Whole, Sent
  <2>4. t \in Seq(Bytes) /\ Cut(s, t)
    BY <2>1, HalfIs DEF Framed
  <2>5. NoNewline(pending)
    BY <2>1, SettledIs
  <2> HIDE DEF s, t
  <2>6. PICK e : Ends(e, t, Len(reports)) /\ Reported(e, t, reports)
                   /\ Rests(e[Len(reports)], t, s)
    BY <2>2, <2>4 DEF Cut
  <2>7. NoMore(e, t, Len(reports))
    BY <2>2, <2>4, <2>5, <2>6, TailIs
  <2>8. FaithfulTo(t, reports, FALSE, Last(stream) = "H")
    BY <2>2, <2>4, <2>6, <2>7, FaithfulSoFar
  <2>9. ended = FALSE
    BY <2>1 DEF Types
  <2> QED
    BY <2>3, <2>8, <2>9, FaithfulIs
<1> QED
  BY <1>1, <1>2, <1>3, PTL DEF Spec
===============================================================================
