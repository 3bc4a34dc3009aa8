----------------------------- MODULE SequenceLemmas -----------------------------
(***************************************************************************)
(* Numbers and sequences, for the proofs of the components: induction and  *)
(* least elements, on sets in place of predicates; what FlattenSeq makes   *)
(* of a sequence of sequences, and of one that grows; and the places that  *)
(* a stable sort gives.                                                    *)
(***************************************************************************)
EXTENDS Integers, Sequences, FiniteSets, SequencesExt, SequenceTheorems, FiniteSetTheorems,
        WellFoundedInduction, TLAPS

(* The naturals are well ordered; < is given to the theorem as a set of pairs. *)
LEMMA LessThan ==
  \E R : IsWellFoundedOn(R, Nat) /\ \A x, y \in Nat : y < x => <<y, x>> \in R
<1>1. IsWellFoundedOn(OpToRel(<, Nat), Nat)
  BY NatLessThanWellFounded
<1>2. \A x, y \in Nat : y < x => <<y, x>> \in OpToRel(<, Nat)
  BY DEF OpToRel
<1> QED
  BY <1>1, <1>2, Zenon

(* Of a set of numbers one is the least. *)
LEMMA LeastOf ==
  ASSUME NEW N, N \subseteq Nat, N # {}
  PROVE  \E n \in N : \A k \in N : n <= k
<1>1. PICK R : IsWellFoundedOn(R, Nat) /\ \A x, y \in Nat : y < x => <<y, x>> \in R
  BY LessThan
<1>2. PICK n \in N : \A k \in N : <<k, n>> \notin R
  BY <1>1, WFMin
<1>3. \A k \in N : ~(k < n)
  BY <1>1, <1>2
<1>4. \A k \in N : n <= k
  BY <1>3
<1> QED
  BY <1>4

(* Of a set of numbers with an upper bound one is the greatest. *)
LEMMA GreatestOf ==
  ASSUME NEW N, N \subseteq Nat, N # {}, NEW bound \in Nat, \A n \in N : n <= bound
  PROVE  \E n \in N : \A k \in N : k <= n
<1> DEFINE below == {bound - n : n \in N}
<1>1. PICK R : IsWellFoundedOn(R, Nat) /\ \A x, y \in Nat : y < x => <<y, x>> \in R
  BY LessThan
<1>2. below \subseteq Nat /\ below # {}
  <2>1. \A n \in N : bound - n \in Nat
    OBVIOUS
  <2> QED
    BY <2>1
<1>3. PICK b \in below : \A k \in below : <<k, b>> \notin R
  BY <1>1, <1>2, WFMin
<1>4. \A k \in below : ~(k < b)
  BY <1>1, <1>2, <1>3
<1>5. PICK n \in N : b = bound - n
  BY <1>3
<1>6. ASSUME NEW k \in N  PROVE k <= n
  <2>1. ~(bound - k < b)
    BY <1>4
  <2> QED
    BY <1>5, <2>1
<1> QED
  BY <1>6

(* Induction over the naturals, on a set in place of a predicate. *)
LEMMA Induction ==
  ASSUME NEW T, 0 \in T, \A n \in Nat : n \in T => n + 1 \in T
  PROVE  Nat \subseteq T
<1> SUFFICES ASSUME Nat \ T # {}  PROVE FALSE
  OBVIOUS
<1>1. PICK R : IsWellFoundedOn(R, Nat) /\ \A x, y \in Nat : y < x => <<y, x>> \in R
  BY LessThan
<1>2. PICK m \in Nat \ T : \A n \in Nat \ T : <<n, m>> \notin R
  BY <1>1, WFMin
<1>3. m - 1 \in Nat /\ m - 1 < m
  BY <1>2
<1>4. m - 1 \in T
  BY <1>1, <1>2, <1>3, Zenon
<1>5. (m - 1) + 1 \in T
  BY <1>3, <1>4
<1> QED
  BY <1>2, <1>5

-------------------------------------------------------------------------------
(* What FlattenSeq makes of a sequence of sequences. *)

(* f[i] is what the first i elements of s come to. *)
FlattensUpTo(f, s, n) == \A i \in 1..n : f[i] = IF i = 1 THEN s[i] ELSE f[i - 1] \o s[i]

LEMMA Flattens ==
  ASSUME NEW E, NEW s \in Seq(Seq(E))
  PROVE  \A n \in 0..Len(s) : \E f \in [1..n -> Seq(E)] : FlattensUpTo(f, s, n)
<1> DEFINE T == {n \in Nat : n <= Len(s) => \E f \in [1..n -> Seq(E)] : FlattensUpTo(f, s, n)}
<1>1. Len(s) \in Nat /\ \A i \in 1..Len(s) : s[i] \in Seq(E)
  BY LenProperties, ElementOfSeq
<1>2. 0 \in T
  <2>1. [i \in 1..0 |-> <<>>] \in [1..0 -> Seq(E)] /\ \A i \in 1..0 : FALSE
    OBVIOUS
  <2>2. FlattensUpTo([i \in 1..0 |-> <<>>], s, 0)
    BY <2>1 DEF FlattensUpTo
  <2> QED
    BY <2>1, <2>2
<1>3. ASSUME NEW n \in Nat, n \in T  PROVE n + 1 \in T
  <2> SUFFICES ASSUME n + 1 <= Len(s)
               PROVE  \E f \in [1..n + 1 -> Seq(E)] : FlattensUpTo(f, s, n + 1)
    OBVIOUS
  <2>1. PICK f \in [1..n -> Seq(E)] : FlattensUpTo(f, s, n)
    BY <1>1, <1>3
  <2> DEFINE last == IF n = 0 THEN s[1] ELSE f[n] \o s[n + 1]
             g == [i \in 1..n + 1 |-> IF i = n + 1 THEN last ELSE f[i]]
  <2>2. last \in Seq(E)
    <3>1. n # 0 => f[n] \in Seq(E)
      BY <2>1
    <3> QED
      BY <1>1, <3>1, ConcatProperties
  <2>3. g \in [1..n + 1 -> Seq(E)]
    BY <2>1, <2>2
  <2>4. /\ \A i \in 1..n : g[i] = f[i]
        /\ g[n + 1] = last
    <3> HIDE DEF last, T
    <3> QED
      OBVIOUS
  <2> HIDE DEF g
  <2>5. ASSUME NEW i \in 1..n + 1
        PROVE  g[i] = IF i = 1 THEN s[i] ELSE g[i - 1] \o s[i]
    <3>1. CASE i = n + 1 /\ n = 0
      BY <2>4, <3>1
    <3>2. CASE i = n + 1 /\ n # 0
      <4>1. n \in 1..n /\ i - 1 = n /\ i # 1
        BY <3>2
      <4>2. last = f[n] \o s[n + 1]
        BY <3>2
      <4>3. g[i] = last /\ g[i - 1] = f[n]
        BY <2>4, <3>2, <4>1
      <4> HIDE DEF last, T
      <4> QED
        BY <3>2, <4>1, <4>2, <4>3
    <3>3. CASE i \in 1..n
      <4>1. i # 1 => i - 1 \in 1..n
        BY <3>3
      <4>2. f[i] = IF i = 1 THEN s[i] ELSE f[i - 1] \o s[i]
        BY <2>1, <3>3 DEF FlattensUpTo
      <4>3. g[i] = f[i] /\ (i # 1 => g[i - 1] = f[i - 1])
        BY <2>4, <3>3, <4>1
      <4> HIDE DEF last, T
      <4> QED
        BY <4>2, <4>3
    <3> QED
      BY <3>1, <3>2, <3>3
  <2>6. FlattensUpTo(g, s, n + 1)
    BY <2>5 DEF FlattensUpTo
  <2> QED
    BY <2>3, <2>6
<1>4. Nat \subseteq T
  <2> HIDE DEF T
  <2> QED
    BY <1>2, <1>3, Induction
<1> QED
  BY <1>1, <1>4

(* There is one such function. *)
LEMMA FlattensUnique ==
  ASSUME NEW s, NEW f, NEW g, NEW n \in Nat, FlattensUpTo(f, s, n), FlattensUpTo(g, s, n)
  PROVE  \A i \in 1..n : f[i] = g[i]
<1> DEFINE T == {i \in Nat : i \in 1..n => f[i] = g[i]}
<1>1. 0 \in T
  OBVIOUS
<1>2. ASSUME NEW i \in Nat, i \in T  PROVE i + 1 \in T
  <2> SUFFICES ASSUME i + 1 \in 1..n  PROVE f[i + 1] = g[i + 1]
    OBVIOUS
  <2>1. /\ f[i + 1] = IF i + 1 = 1 THEN s[i + 1] ELSE f[(i + 1) - 1] \o s[i + 1]
        /\ g[i + 1] = IF i + 1 = 1 THEN s[i + 1] ELSE g[(i + 1) - 1] \o s[i + 1]
    BY DEF FlattensUpTo
  <2>2. i # 0 => f[i] = g[i]
    BY <1>2
  <2> QED
    BY <2>1, <2>2
<1>3. Nat \subseteq T
  <2> HIDE DEF T
  <2> QED
    BY <1>1, <1>2, Induction
<1> QED
  BY <1>3

(* What FlattenSeq returns is the last value of that function. *)
LEMMA FlattenIs ==
  ASSUME NEW E, NEW s \in Seq(Seq(E)), Len(s) # 0,
         NEW f \in [1..Len(s) -> Seq(E)], FlattensUpTo(f, s, Len(s))
  PROVE  FlattenSeq(s) = f[Len(s)] /\ f[Len(s)] \in Seq(E)
<1> DEFINE n == Len(s)
           g == CHOOSE h : h = [i \in 1..n |-> IF i = 1 THEN s[i] ELSE h[i - 1] \o s[i]]
<1>1. n \in Nat /\ n \in 1..n
  BY LenProperties
<1>2. f = [i \in 1..n |-> IF i = 1 THEN s[i] ELSE f[i - 1] \o s[i]]
  BY DEF FlattensUpTo
<1>3. g = [i \in 1..n |-> IF i = 1 THEN s[i] ELSE g[i - 1] \o s[i]]
  BY <1>2
<1>4. FlattenSeq(s) = g[n]
  BY DEF FlattenSeq
<1> HIDE DEF g
<1>5. FlattensUpTo(g, s, n)
  BY <1>3 DEF FlattensUpTo
<1>6. g[n] = f[n]
  BY <1>1, <1>5, FlattensUnique
<1> QED
  BY <1>1, <1>4, <1>6

LEMMA FlattenEmpty == FlattenSeq(<<>>) = <<>>
BY EmptySeq DEF FlattenSeq

LEMMA FlattenType ==
  ASSUME NEW E, NEW s \in Seq(Seq(E))
  PROVE  FlattenSeq(s) \in Seq(E)
<1>1. Len(s) \in Nat
  BY LenProperties
<1>2. CASE Len(s) = 0
  BY <1>2, EmptySeq, FlattenEmpty
<1>3. CASE Len(s) # 0
  <2>1. PICK f \in [1..Len(s) -> Seq(E)] : FlattensUpTo(f, s, Len(s))
    <3>1. Len(s) \in 0..Len(s)
      BY <1>1
    <3>2. \A n \in 0..Len(s) : \E f \in [1..n -> Seq(E)] : FlattensUpTo(f, s, n)
      BY Flattens
    <3> QED
      BY <3>1, <3>2, Zenon
  <2>2. FlattenSeq(s) = f[Len(s)] /\ f[Len(s)] \in Seq(E)
    BY <1>3, <2>1, FlattenIs
  <2> QED
    BY <2>2, Zenon
<1> QED
  BY <1>2, <1>3

(* One more element adds its own at the end. *)
LEMMA FlattenAppend ==
  ASSUME NEW E, NEW s \in Seq(Seq(E)), NEW x \in Seq(E)
  PROVE  FlattenSeq(Append(s, x)) = FlattenSeq(s) \o x
<1> DEFINE t == Append(s, x)
           n == Len(s)
<1>1. /\ n \in Nat /\ t \in Seq(Seq(E)) /\ Len(t) = n + 1 /\ t[n + 1] = x
      /\ \A i \in 1..n : t[i] = s[i]
  BY LenProperties, AppendProperties
<1> HIDE DEF t
<1>2. PICK f \in [1..Len(t) -> Seq(E)] : FlattensUpTo(f, t, Len(t))
  <2>1. Len(t) \in 0..Len(t)
    BY <1>1
  <2> QED
    BY <1>1, <2>1, Flattens
<1>3. FlattenSeq(t) = f[n + 1]
  BY <1>1, <1>2, FlattenIs
<1>4. CASE n = 0
  <2>1. f[1] = x
    BY <1>1, <1>2, <1>4 DEF FlattensUpTo
  <2>2. s = <<>> /\ <<>> \o x = x
    BY <1>4, EmptySeq, ConcatEmptySeq
  <2> QED
    BY <1>3, <1>4, <2>1, <2>2, FlattenEmpty DEF t
<1>5. CASE n # 0
  <2>1. f[n + 1] = f[n] \o x
    <3>1. n + 1 \in 1..Len(t) /\ n + 1 # 1 /\ (n + 1) - 1 = n
      BY <1>1, <1>5
    <3>2. f[n + 1] = IF n + 1 = 1 THEN t[n + 1] ELSE f[(n + 1) - 1] \o t[n + 1]
      BY <1>2, <3>1 DEF FlattensUpTo
    <3> QED
      BY <1>1, <3>1, <3>2
  <2> DEFINE g == [i \in 1..n |-> f[i]]
  <2>2. g \in [1..n -> Seq(E)] /\ g[n] = f[n]
    BY <1>1, <1>2, <1>5
  <2>3. ASSUME NEW i \in 1..n
        PROVE  g[i] = IF i = 1 THEN s[i] ELSE g[i - 1] \o s[i]
    <3>1. g[i] = f[i] /\ (i # 1 => g[i - 1] = f[i - 1]) /\ t[i] = s[i]
      BY <1>1
    <3>2. f[i] = IF i = 1 THEN t[i] ELSE f[i - 1] \o t[i]
      <4>1. i \in 1..Len(t)
        BY <1>1
      <4> QED
        BY <1>2, <4>1 DEF FlattensUpTo
    <3> HIDE DEF g
    <3> QED
      BY <3>1, <3>2
  <2>4. FlattensUpTo(g, s, n)
    BY <2>3 DEF FlattensUpTo
  <2> HIDE DEF g
  <2>5. FlattenSeq(s) = f[n]
    BY <1>5, <2>2, <2>4, FlattenIs
  <2> QED
    BY <1>3, <2>1, <2>5 DEF t
<1> QED
  BY <1>4, <1>5

(* Concatenation is associative: the library's fact, as one that SMT can instantiate. *)
JoinsAssociate(E) == \A a, b, c \in Seq(E) : (a \o b) \o c = a \o (b \o c)

LEMMA JoinsAlwaysAssociate ==
  ASSUME NEW E
  PROVE  JoinsAssociate(E)
  BY ConcatAssociative DEF JoinsAssociate

(* The elements of s, then those of q. *)
LEMMA FlattenConcat ==
  ASSUME NEW E, NEW s \in Seq(Seq(E)), NEW q \in Seq(Seq(E))
  PROVE  FlattenSeq(s \o q) = FlattenSeq(s) \o FlattenSeq(q)
<1> DEFINE T == {n \in Nat : \A r \in Seq(Seq(E)) :
                   Len(r) = n => FlattenSeq(s \o r) = FlattenSeq(s) \o FlattenSeq(r)}
<1>1. FlattenSeq(s) \in Seq(E)
  BY FlattenType
<1>2. 0 \in T
  <2> SUFFICES ASSUME NEW r \in Seq(Seq(E)), Len(r) = 0
               PROVE  FlattenSeq(s \o r) = FlattenSeq(s) \o FlattenSeq(r)
    OBVIOUS
  <2>1. r = <<>>
    BY EmptySeq
  <2>2. s \o r = s /\ FlattenSeq(r) = <<>>
    BY <2>1, ConcatEmptySeq, FlattenEmpty
  <2>3. FlattenSeq(s) \o <<>> = FlattenSeq(s)
    BY <1>1, ConcatEmptySeq
  <2> QED
    BY <2>2, <2>3
<1>3. ASSUME NEW n \in Nat, n \in T  PROVE n + 1 \in T
  <2> SUFFICES ASSUME NEW r \in Seq(Seq(E)), Len(r) = n + 1
               PROVE  FlattenSeq(s \o r) = FlattenSeq(s) \o FlattenSeq(r)
    OBVIOUS
  <2>1. r # <<>>
    BY EmptySeq
  <2>2. PICK h \in Seq(Seq(E)), x \in Seq(E) : r = Append(h, x)
    BY <2>1, SequenceEmptyOrAppend
  <2>3. Len(h) = n
    <3>1. Len(h) \in Nat /\ Len(r) = Len(h) + 1
      BY <2>2, LenProperties, AppendProperties
    <3> QED
      BY <3>1
  <2>4. FlattenSeq(s \o h) = FlattenSeq(s) \o FlattenSeq(h)
    BY <1>3, <2>3
  <2>5. s \o r = Append(s \o h, x)
    <3> DEFINE P == Seq(E)
    <3>1. s \in Seq(P) /\ h \in Seq(P) /\ x \in P
      BY <2>2
    <3> HIDE DEF P
    <3>2. <<x>> \in Seq(P) /\ s \o h \in Seq(P)
      BY <3>1, ConcatProperties
    <3>3. h \o <<x>> = Append(h, x)
      BY <3>1, AppendIsConcat
    <3>4. (s \o h) \o <<x>> = Append(s \o h, x)
      BY <3>1, <3>2, AppendIsConcat
    <3>5. (s \o h) \o <<x>> = s \o (h \o <<x>>)
      <4>1. JoinsAssociate(P)
        BY JoinsAlwaysAssociate
      <4> QED
        BY <3>1, <3>2, <4>1 DEF JoinsAssociate
    <3> QED
      BY <2>2, <3>3, <3>4, <3>5, Zenon
  <2>6. FlattenSeq(s \o r) = FlattenSeq(s \o h) \o x
    BY <2>5, FlattenAppend, ConcatProperties
  <2>7. FlattenSeq(r) = FlattenSeq(h) \o x
    BY <2>2, FlattenAppend
  <2>8. (FlattenSeq(s) \o FlattenSeq(h)) \o x = FlattenSeq(s) \o (FlattenSeq(h) \o x)
    <3>1. FlattenSeq(h) \in Seq(E)
      BY FlattenType
    <3>2. JoinsAssociate(E)
      BY JoinsAlwaysAssociate
    <3> QED
      BY <1>1, <3>1, <3>2 DEF JoinsAssociate
  <2> QED
    BY <2>4, <2>6, <2>7, <2>8
<1>4. Nat \subseteq T
  <2> HIDE DEF T
  <2> QED
    BY <1>2, <1>3, Induction
<1> QED
  BY <1>4, LenProperties

(* One sequence alone. *)
LEMMA FlattenOne ==
  ASSUME NEW E, NEW x \in Seq(E)
  PROVE  FlattenSeq(<<x>>) = x
<1>1. <<>> \in Seq(Seq(E))
  BY EmptySeq
<1>2. Append(<<>>, x) = <<x>>
  OBVIOUS
<1>3. FlattenSeq(Append(<<>>, x)) = FlattenSeq(<<>>) \o x
  BY <1>1, FlattenAppend
<1> QED
  BY <1>2, <1>3, FlattenEmpty, ConcatEmptySeq

(* Sequences of one element each. *)
LEMMA FlattenSingles ==
  ASSUME NEW E, NEW s \in Seq(E)
  PROVE  FlattenSeq([i \in DOMAIN s |-> <<s[i]>>]) = s
<1> DEFINE Singles(r) == [i \in DOMAIN r |-> <<r[i]>>]
           T == {n \in Nat : \A r \in Seq(E) : Len(r) = n => FlattenSeq(Singles(r)) = r}
<1>1. 0 \in T
  <2> SUFFICES ASSUME NEW r \in Seq(E), Len(r) = 0
               PROVE  FlattenSeq(Singles(r)) = r
    OBVIOUS
  <2>1. r = <<>>
    BY EmptySeq
  <2>2. Singles(r) = <<>>
    BY <2>1
  <2> QED
    BY <2>1, <2>2, FlattenEmpty
<1>2. ASSUME NEW n \in Nat, n \in T  PROVE n + 1 \in T
  <2> SUFFICES ASSUME NEW r \in Seq(E), Len(r) = n + 1
               PROVE  FlattenSeq(Singles(r)) = r
    OBVIOUS
  <2>1. r # <<>>
    BY EmptySeq
  <2>2. PICK h \in Seq(E), x \in E : r = Append(h, x)
    BY <2>1, SequenceEmptyOrAppend
  <2>3. /\ Len(h) \in Nat /\ Len(r) = Len(h) + 1 /\ r[Len(h) + 1] = x
        /\ \A i \in 1..Len(h) : r[i] = h[i]
        /\ DOMAIN h = 1..Len(h) /\ DOMAIN r = 1..Len(h) + 1
    BY <2>2, LenProperties, AppendProperties
  <2>4. Len(h) = n
    <3>1. Len(h) \in Nat /\ Len(r) = Len(h) + 1
      BY <2>3
    <3> QED
      BY <3>1
  <2>5. FlattenSeq(Singles(h)) = h
    BY <1>2, <2>4
  <2>6. Singles(h) \in Seq(Seq(E)) /\ Len(Singles(h)) = Len(h)
    <3>1. \A i \in 1..Len(h) : <<h[i]>> \in Seq(E)
      BY ElementOfSeq
    <3>2. Singles(h) = [i \in 1..Len(h) |-> <<h[i]>>]
      BY <2>3
    <3> QED
      BY <2>3, <3>1, <3>2, LenProperties
  <2>7. <<x>> \in Seq(E)
    OBVIOUS
  <2>8. Singles(r) = Append(Singles(h), <<x>>)
    <3> DEFINE a == Singles(r)
               b == Append(Singles(h), <<x>>)
    <3>1. DOMAIN a = 1..Len(h) + 1 /\ \A i \in 1..Len(h) + 1 : a[i] = <<r[i]>>
      BY <2>3
    <3>2. a \in Seq(Seq(E)) /\ Len(a) = Len(h) + 1
      <4>1. \A i \in 1..Len(h) + 1 : <<r[i]>> \in Seq(E)
        BY <2>3, ElementOfSeq
      <4>2. a = [i \in 1..Len(h) + 1 |-> <<r[i]>>]
        BY <2>3
      <4> QED
        BY <2>3, <4>1, <4>2, LenProperties
    <3>3. \A i \in 1..Len(h) : Singles(h)[i] = <<h[i]>>
      BY <2>3
    <3> HIDE DEF Singles
    <3>4. /\ b \in Seq(Seq(E)) /\ Len(b) = Len(h) + 1 /\ b[Len(h) + 1] = <<x>>
          /\ \A i \in 1..Len(h) : b[i] = Singles(h)[i]
      BY <2>6, <2>7, AppendProperties
    <3> HIDE DEF a, b
    <3>5. \A i \in 1..Len(h) + 1 : a[i] = b[i]
      <4> SUFFICES ASSUME NEW i \in 1..Len(h) + 1  PROVE a[i] = b[i]
        OBVIOUS
      <4>1. i \in 1..Len(h) \/ i = Len(h) + 1
        BY <2>3
      <4> QED
        BY <2>3, <3>1, <3>3, <3>4, <4>1
    <3>6. a = b
      BY <3>2, <3>4, <3>5, SeqEqual
    <3> QED
      BY <3>6 DEF a, b
  <2> HIDE DEF Singles
  <2>9. FlattenSeq(Singles(r)) = h \o <<x>>
    BY <2>5, <2>6, <2>7, <2>8, FlattenAppend
  <2> QED
    BY <2>2, <2>9, AppendIsConcat
<1>3. Nat \subseteq T
  <2> HIDE DEF T
  <2> QED
    BY <1>1, <1>2, Induction
<1>4. Len(s) \in T
  BY <1>3, LenProperties
<1> QED
  BY <1>4

(* Sorting by size, the largest first and equals in their order: the rank of k among 1..n
   is one more than the number of those before it. *)
Outranks(size, i, k) == size[i] > size[k] \/ (size[i] = size[k] /\ i < k)
Above(size, n, k) == {i \in 1..n : Outranks(size, i, k)}
RankOf(size, n, k) == Cardinality(Above(size, n, k)) + 1

LEMMA RankRises ==
  ASSUME NEW n \in Nat, NEW size \in [1..n -> Nat]
  PROVE  /\ \A k \in 1..n : RankOf(size, n, k) \in 1..n
         /\ \A i, k \in 1..n : Outranks(size, i, k) => RankOf(size, n, i) < RankOf(size, n, k)
<1>1. IsFiniteSet(1..n) /\ Cardinality(1..n) = n
  BY FS_Interval
<1>2. ASSUME NEW k \in 1..n
      PROVE  /\ IsFiniteSet(Above(size, n, k)) /\ Cardinality(Above(size, n, k)) \in Nat
             /\ k \notin Above(size, n, k)
  <2>1. Above(size, n, k) \subseteq 1..n
    BY DEF Above
  <2>2. IsFiniteSet(Above(size, n, k))
    BY <1>1, <2>1, FS_Subset
  <2>3. k \notin Above(size, n, k)
    BY DEF Above, Outranks
  <2> QED
    BY <2>2, <2>3, FS_CardinalityType
<1>3. ASSUME NEW k \in 1..n, NEW S, IsFiniteSet(S), Cardinality(S) \in Nat, k \notin S,
             NEW T, IsFiniteSet(T), S \cup {k} \subseteq T
      PROVE  Cardinality(S) + 1 <= Cardinality(T)
  <2>1. IsFiniteSet(S \cup {k}) /\ Cardinality(S \cup {k}) = Cardinality(S) + 1
    BY <1>3, FS_AddElement
  <2>2. Cardinality(S \cup {k}) <= Cardinality(T)
    BY <1>3, FS_Subset
  <2> QED
    BY <2>1, <2>2
<1>4. ASSUME NEW k \in 1..n  PROVE RankOf(size, n, k) \in 1..n
  <2>1. Above(size, n, k) \cup {k} \subseteq 1..n
    BY DEF Above
  <2>2. Cardinality(Above(size, n, k)) + 1 <= Cardinality(1..n)
    BY <1>1, <1>2, <1>3, <2>1
  <2> QED
    BY <1>1, <1>2, <2>2 DEF RankOf
<1>5. ASSUME NEW i \in 1..n, NEW k \in 1..n, Outranks(size, i, k)
      PROVE  RankOf(size, n, i) < RankOf(size, n, k)
  <2>1. Above(size, n, i) \cup {i} \subseteq Above(size, n, k)
    <3>1. ASSUME NEW j \in 1..n, Outranks(size, j, i)  PROVE Outranks(size, j, k)
      <4>1. size[j] \in Nat /\ size[i] \in Nat /\ size[k] \in Nat
        OBVIOUS
      <4> QED
        BY <1>5, <3>1, <4>1 DEF Outranks
    <3> QED
      BY <1>5, <3>1 DEF Above
  <2>2. Cardinality(Above(size, n, i)) + 1 <= Cardinality(Above(size, n, k))
    BY <1>2, <1>3, <2>1
  <2>3. Cardinality(Above(size, n, i)) \in Nat /\ Cardinality(Above(size, n, k)) \in Nat
    BY <1>2
  <2> QED
    BY <2>2, <2>3 DEF RankOf
<1> QED
  BY <1>4, <1>5

(* Every rank is taken, by one alone. *)
LEMMA RanksAreTaken ==
  ASSUME NEW n \in Nat, NEW size \in [1..n -> Nat]
  PROVE  /\ \A p \in 1..n : \E k \in 1..n : RankOf(size, n, k) = p
         /\ \A i, k \in 1..n : RankOf(size, n, i) = RankOf(size, n, k) => i = k
<1>1. /\ \A k \in 1..n : RankOf(size, n, k) \in 1..n
      /\ \A i, k \in 1..n : Outranks(size, i, k) => RankOf(size, n, i) < RankOf(size, n, k)
  BY RankRises
<1>2. ASSUME NEW i \in 1..n, NEW k \in 1..n, RankOf(size, n, i) = RankOf(size, n, k)
      PROVE  i = k
  <2>1. RankOf(size, n, i) \in Int
    BY <1>1
  <2>2. ~Outranks(size, i, k) /\ ~Outranks(size, k, i)
    <3>1. ~(RankOf(size, n, i) < RankOf(size, n, k)) /\ ~(RankOf(size, n, k) < RankOf(size, n, i))
      BY <1>2, <2>1
    <3> QED
      BY <1>1, <3>1, Zenon
  <2>3. size[i] \in Nat /\ size[k] \in Nat
    OBVIOUS
  <2> QED
    BY <2>2, <2>3 DEF Outranks
<1> DEFINE f == [k \in 1..n |-> RankOf(size, n, k)]
<1>3. f \in [1..n -> 1..n] /\ \A k \in 1..n : f[k] = RankOf(size, n, k)
  BY <1>1
<1> HIDE DEF f
<1>4. f \in Injection(1..n, 1..n)
  BY <1>2, <1>3 DEF Injection, IsInjective
<1>5. f \in Surjection(1..n, 1..n)
  BY <1>4, FS_Interval, FS_Injection
<1>6. \A p \in 1..n : \E k \in 1..n : f[k] = p
  BY <1>5 DEF Surjection
<1> QED
  BY <1>2, <1>3, <1>6
===============================================================================
