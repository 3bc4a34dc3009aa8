------------------------ MODULE ConversationReuseProofs ------------------------
(***************************************************************************)
(* Theorems about the session store and its use, for every set of clients, *)
(* messages and histories and every capacity: the store is an LRU map, and *)
(* a chat that is only ever continued keeps its history in its             *)
(* conversation, whatever the other clients do in between.                 *)
(***************************************************************************)
EXTENDS ConversationReuse, SequenceLemmas

(* A history was sent by its client, and is there while a request is under way; the
   conversation of a request or an entry exists, and an entry is of some client's chat. *)
AskedInv ==
  /\ \A c \in Clients : history[c] # <<>> => history[c] \in Histories[c]
  /\ \A c \in Clients : asked[c] # NoRequest => history[c] # <<>>
  /\ \A c \in Clients : asked[c].conversationId \in 0..Len(conversations)
  /\ \A i \in DOMAIN entries : entries[i].conversationId \in DOMAIN conversations
  /\ \A i \in DOMAIN entries :
       \E c \in Clients : history[c] # <<>> /\ entries[i].fingerprint \subseteq Written(c)

(* The LRU order, and that what is touched next is touched last. *)
OrderInv ==
  /\ Len(entries) <= Capacity
  /\ \A i, k \in DOMAIN entries :
       entries[i].fingerprint = entries[k].fingerprint => i = k
  /\ \A i, k \in DOMAIN entries :
       i < k => lastUsed[entries[i].fingerprint] <= lastUsed[entries[k].fingerprint]
  /\ \A f \in SUBSET Messages : lastUsed[f] <= 2 * requests + 2

BaseInv == TypeOK /\ AskedInv /\ OrderInv

(* The entries of a chat: those with one of its messages. *)
Of(c, entry) == entry.fingerprint \cap Written(c) # {}

(* Each entry of the chat stands for a prefix of the history, longer ones later in the
   store, and the last of them names a conversation that holds just that prefix. *)
ArePrefixes(c, es, h) ==
  \A i \in DOMAIN es : Of(c, es[i]) =>
    es[i].count <= Len(h) /\ es[i].fingerprint = ToSet(Prefix(h, es[i].count))
Growing(c, es) ==
  \A i, k \in DOMAIN es : Of(c, es[i]) /\ Of(c, es[k]) /\ i < k => es[i].count < es[k].count
LastOf(c, es, i) == Of(c, es[i]) /\ \A k \in DOMAIN es : i < k => ~Of(c, es[k])
Current(c, es, h, convs) ==
  \A i \in DOMAIN es : LastOf(c, es, i) => convs[es[i].conversationId] = Prefix(h, es[i].count)

(* A linear chat, once begun: its messages are its own and occur once, and its entries
   are in order. *)
Distinct(h) == \A i, k \in DOMAIN h : h[i] = h[k] => i = k
OwnWords(c) == \A d \in Clients \ {c} : Written(d) \cap Written(c) = {}
ChatInv(c) ==
  /\ Distinct(history[c]) /\ OwnWords(c)
  /\ ArePrefixes(c, entries, history[c]) /\ Growing(c, entries)
  /\ Current(c, entries, history[c], conversations)
  /\ asked[c] # NoRequest =>
       \A i \in DOMAIN entries : Of(c, entries[i]) => entries[i].count < Len(history[c])

(* The ids a linear chat uses: those of its entries and of its request. *)
Uses(c, id) ==
  \/ \E i \in DOMAIN entries : Of(c, entries[i]) /\ entries[i].conversationId = id
  \/ asked[c] # NoRequest /\ asked[c].conversationId = id
Alone(c) ==
  \A id \in DOMAIN conversations : Uses(c, id) =>
    /\ \A d \in Clients \ {c} : asked[d] # NoRequest => asked[d].conversationId # id
    /\ \A i \in DOMAIN entries : ~Of(c, entries[i]) => entries[i].conversationId # id

(* What its request under way will make of its conversation. *)
PromptInv(c) ==
  asked[c] # NoRequest =>
    /\ ~asked[c].explicit
    /\ asked[c].conversationId = 0 =>
         /\ asked[c].prompt = history[c]
         /\ \A i \in DOMAIN entries : ~Of(c, entries[i])
    /\ asked[c].conversationId # 0 =>
         conversations[asked[c].conversationId] \o asked[c].prompt = history[c]

LinearInv ==
  \A c \in Clients : linear[c] =>
    /\ faithful[c]
    /\ history[c] # <<>> => ChatInv(c) /\ Alone(c) /\ PromptInv(c)

-------------------------------------------------------------------------------
(* Histories, their prefixes and their fingerprints. *)
LEMMA PrefixFacts ==
  ASSUME NEW h \in Seq(Messages), NEW n \in 0..Len(h)
  PROVE  /\ Prefix(h, n) \in Seq(Messages) /\ Len(Prefix(h, n)) = n
         /\ \A i \in 1..n : Prefix(h, n)[i] = h[i]
         /\ DOMAIN Prefix(h, n) = 1..n /\ DOMAIN h = 1..Len(h) /\ Len(h) \in Nat
<1>1. Len(h) \in Nat /\ DOMAIN h = 1..Len(h) /\ \A i \in 1..Len(h) : h[i] \in Messages
  BY LenProperties, ElementOfSeq
<1>2. n \in Int /\ 1 \in Int /\ \A i \in 1..n : h[i] \in Messages
  BY <1>1
<1>3. /\ SubSeq(h, 1, n) \in Seq(Messages)
      /\ Len(SubSeq(h, 1, n)) = IF 1 <= n THEN n - 1 + 1 ELSE 0
      /\ \A i \in 1..n - 1 + 1 : SubSeq(h, 1, n)[i] = h[1 + i - 1]
  BY <1>2, SubSeqProperties
<1>4. Len(SubSeq(h, 1, n)) = n /\ \A i \in 1..n : SubSeq(h, 1, n)[i] = h[i]
  BY <1>1, <1>3
<1>5. DOMAIN SubSeq(h, 1, n) = 1..n
  BY <1>3, <1>4, LenProperties
<1> QED
  BY <1>1, <1>3, <1>4, <1>5 DEF Prefix

LEMMA WholePrefix ==
  ASSUME NEW h \in Seq(Messages)
  PROVE  Prefix(h, Len(h)) = h /\ Prefix(h, 0) = <<>>
BY SubSeqFull, SubSeqEmpty DEF Prefix

(* A prefix of a prefix; IsPrefix in terms of Prefix. *)
LEMMA PrefixOfLonger ==
  ASSUME NEW h \in Seq(Messages), NEW sent \in Seq(Messages), IsPrefix(h, sent),
         NEW n \in 0..Len(h)
  PROVE  /\ Len(h) <= Len(sent) /\ n \in 0..Len(sent)
         /\ Prefix(sent, n) = Prefix(h, n)
<1>1. Len(h) \in Nat /\ Len(sent) \in Nat /\ Len(h) <= Len(sent)
  BY LenProperties DEF IsPrefix
<1>2. Prefix(h, Len(h)) = Prefix(sent, Len(h))
  BY DEF IsPrefix, Prefix
<1>3. \A i \in 1..Len(h) : h[i] = sent[i]
  <2>1. Len(h) \in 0..Len(h) /\ Len(h) \in 0..Len(sent)
    BY <1>1
  <2>2. \A i \in 1..Len(h) : Prefix(h, Len(h))[i] = h[i]
    BY <2>1, PrefixFacts
  <2>3. \A i \in 1..Len(h) : Prefix(sent, Len(h))[i] = sent[i]
    BY <2>1, PrefixFacts
  <2> QED
    BY <1>2, <2>2, <2>3
<1>4. /\ Prefix(h, n) \in Seq(Messages) /\ Prefix(sent, n) \in Seq(Messages)
      /\ Len(Prefix(h, n)) = n /\ Len(Prefix(sent, n)) = n
      /\ \A i \in 1..n : Prefix(h, n)[i] = h[i] /\ Prefix(sent, n)[i] = sent[i]
  <2>1. n \in 0..Len(sent)
    BY <1>1
  <2>2. /\ Prefix(h, n) \in Seq(Messages) /\ Len(Prefix(h, n)) = n
        /\ \A i \in 1..n : Prefix(h, n)[i] = h[i]
    BY PrefixFacts
  <2>3. /\ Prefix(sent, n) \in Seq(Messages) /\ Len(Prefix(sent, n)) = n
        /\ \A i \in 1..n : Prefix(sent, n)[i] = sent[i]
    BY <2>1, PrefixFacts
  <2> QED
    BY <2>2, <2>3
<1>5. \A i \in 1..n : Prefix(sent, n)[i] = Prefix(h, n)[i]
  BY <1>1, <1>3, <1>4
<1>6. Prefix(sent, n) = Prefix(h, n)
  BY <1>4, <1>5, SeqEqual
<1> QED
  BY <1>1, <1>6

LEMMA StrictlyLonger ==
  ASSUME NEW h \in Seq(Messages), NEW sent \in Seq(Messages), IsStrictPrefix(h, sent)
  PROVE  IsPrefix(h, sent) /\ Len(h) < Len(sent)
<1>1. IsPrefix(h, sent) /\ h # sent
  BY DEF IsStrictPrefix
<1>2. Len(h) \in Nat /\ Len(sent) \in Nat /\ Len(h) <= Len(sent)
  BY <1>1, LenProperties DEF IsPrefix
<1>3. ASSUME Len(h) = Len(sent)  PROVE FALSE
  <2>1. Prefix(sent, Len(h)) = Prefix(h, Len(h))
    BY <1>1, <1>2, PrefixOfLonger
  <2> QED
    BY <1>1, <1>3, <2>1, WholePrefix
<1> QED
  BY <1>1, <1>2, <1>3

(* A fingerprint holds messages of its history, and all of them when none occurs twice. *)
LEMMA FingerprintFacts ==
  ASSUME NEW h \in Seq(Messages)
  PROVE  /\ Fingerprint(h) \subseteq ToSet(h) /\ Fingerprint(h) \in SUBSET Messages
         /\ Distinct(h) => Fingerprint(h) = ToSet(h)
<1> DEFINE At(m) == {i \in DOMAIN h : h[i] = m}
<1>1. ASSUME NEW m \in Fingerprint(h)  PROVE m \in ToSet(h)
  <2>1. Cardinality(At(m)) % 2 = 1
    BY DEF Fingerprint
  <2>2. At(m) # {}
    <3>1. 0 % 2 # 1
      OBVIOUS
    <3>2. Cardinality({}) % 2 # 1
      BY <3>1, FS_EmptySet, Zenon
    <3> HIDE DEF At
    <3> QED
      BY <2>1, <3>2, Zenon
  <2> QED
    BY <2>2 DEF ToSet
<1>2. ASSUME Distinct(h), NEW m \in ToSet(h)  PROVE m \in Fingerprint(h)
  <2>1. PICK i \in DOMAIN h : h[i] = m
    BY DEF ToSet
  <2>2. At(m) = {i}
    BY <1>2, <2>1 DEF Distinct
  <2>3. Cardinality(At(m)) = 1
    BY <2>2, FS_Singleton
  <2>4. m \in Messages
    BY <2>1, LenProperties, ElementOfSeq
  <2>5. 1 % 2 = 1
    OBVIOUS
  <2> QED
    BY <2>3, <2>4, <2>5 DEF Fingerprint
<1> QED
  BY <1>1, <1>2 DEF Fingerprint

LEMMA PrefixDistinct ==
  ASSUME NEW h \in Seq(Messages), NEW n \in 0..Len(h), Distinct(h)
  PROVE  /\ Distinct(Prefix(h, n)) /\ Fingerprint(Prefix(h, n)) = ToSet(Prefix(h, n))
         /\ n > 0 => h[1] \in ToSet(Prefix(h, n))
<1>1. /\ Prefix(h, n) \in Seq(Messages) /\ DOMAIN Prefix(h, n) = 1..n
      /\ \A i \in 1..n : Prefix(h, n)[i] = h[i]
      /\ DOMAIN h = 1..Len(h) /\ Len(h) \in Nat
  BY PrefixFacts
<1>2. Distinct(Prefix(h, n))
  BY <1>1 DEF Distinct
<1>3. n > 0 => h[1] \in ToSet(Prefix(h, n))
  BY <1>1 DEF ToSet
<1> QED
  BY <1>1, <1>2, <1>3, FingerprintFacts

LEMMA PrefixWithin ==
  ASSUME NEW h \in Seq(Messages), NEW n \in 0..Len(h)
  PROVE  ToSet(Prefix(h, n)) \subseteq ToSet(h) /\ Fingerprint(Prefix(h, n)) \subseteq ToSet(h)
<1>1. /\ Prefix(h, n) \in Seq(Messages) /\ DOMAIN Prefix(h, n) = 1..n
      /\ \A i \in 1..n : Prefix(h, n)[i] = h[i]
      /\ DOMAIN h = 1..Len(h) /\ Len(h) \in Nat
  BY PrefixFacts
<1>2. ToSet(Prefix(h, n)) \subseteq ToSet(h)
  BY <1>1 DEF ToSet
<1> QED
  BY <1>1, <1>2, FingerprintFacts

LEMMA SentFacts ==
  ASSUME NEW c \in Clients, NEW sent \in Histories[c]
  PROVE  /\ sent \in Seq(Messages) /\ sent # <<>> /\ Len(sent) \in Nat \ {0}
         /\ ToSet(sent) \subseteq Written(c)
<1>1. sent \in Seq(Messages) /\ sent # <<>>
  BY HistoriesAssumption
<1> QED
  BY <1>1, EmptySeq DEF Written
-------------------------------------------------------------------------------
(* The best of the entries that match. *)
LEMMA BestIs ==
  ASSUME NEW es \in Seq(Entry), NEW h \in Seq(Messages), Matches(es, h) # {}
  PROVE  /\ Best(es, h) \in Matches(es, h)
         /\ \A k \in Matches(es, h) :
              \/ es[k].count < es[Best(es, h)].count
              \/ es[k].count = es[Best(es, h)].count /\ k <= Best(es, h)
<1> DEFINE M == Matches(es, h)
           Counts == {es[k].count : k \in M}
<1>1. Len(es) \in Nat /\ Len(h) \in Nat /\ DOMAIN es = 1..Len(es)
  BY LenProperties
<1>2. ASSUME NEW k \in M
      PROVE  k \in 1..Len(es) /\ es[k].count \in Nat /\ es[k].count <= Len(h)
  <2>1. k \in 1..Len(es) /\ es[k].count <= Len(h)
    BY <1>1 DEF Matches
  <2>2. es[k] \in Entry
    BY <2>1, ElementOfSeq
  <2> QED
    BY <2>1, <2>2 DEF Entry
<1>3. PICK most \in Counts : \A n \in Counts : n <= most
  <2>1. Counts \subseteq Nat /\ Counts # {} /\ \A n \in Counts : n <= Len(h)
    BY <1>2
  <2> QED
    BY <1>1, <2>1, GreatestOf
<1> DEFINE Longest == {k \in M : es[k].count = most}
<1>4. PICK i \in Longest : \A k \in Longest : k <= i
  <2>1. Longest \subseteq Nat /\ Longest # {} /\ \A n \in Longest : n <= Len(es)
    BY <1>1, <1>2, <1>3
  <2> QED
    BY <1>1, <2>1, GreatestOf
<1>5. \A k \in M : \/ es[k].count < es[i].count
                   \/ es[k].count = es[i].count /\ k <= i
  <2> TAKE k \in M
  <2>1. es[k].count <= most /\ es[i].count = most /\ most \in Nat
    BY <1>2, <1>3, <1>4
  <2>2. es[k].count = most => k <= i
    BY <1>4
  <2> QED
    BY <1>2, <2>1, <2>2
<1> QED
  BY <1>4, <1>5 DEF Best

-------------------------------------------------------------------------------
(* new is old without what has the fingerprint of x, and maybe without some of the
   eldest, with x at its end: p gives the place in old of each of the others. *)
Moves(p, old, new, x) ==
  /\ new \in Seq(Entry)
  /\ new # <<>> => new[Len(new)] = x
  /\ p \in [1..Len(new) - 1 -> DOMAIN old]
  /\ \A i, k \in 1..Len(new) - 1 : i < k => p[i] < p[k]
  /\ \A i \in 1..Len(new) - 1 :
       new[i] = old[p[i]] /\ new[i].fingerprint # x.fingerprint
  /\ \A k \in DOMAIN old :
       \/ old[k].fingerprint = x.fingerprint
       \/ \E i \in 1..Len(new) - 1 : p[i] = k
       \/ \A i \in 1..Len(new) - 1 : k < p[i]

MovesTo(old, new, x) == \E p : Moves(p, old, new, x)

Unique(es) == \A i, k \in DOMAIN es : es[i].fingerprint = es[k].fingerprint => i = k

LEMMA Slice ==
  ASSUME NEW S, NEW s \in Seq(S), NEW m \in Nat \ {0}, NEW n \in Nat, n <= Len(s)
  PROVE  /\ SubSeq(s, m, n) \in Seq(S)
         /\ Len(SubSeq(s, m, n)) = IF m <= n THEN n - m + 1 ELSE 0
         /\ DOMAIN SubSeq(s, m, n) = 1..n - m + 1
         /\ \A i \in 1..n - m + 1 : SubSeq(s, m, n)[i] = s[m + i - 1]
<1>1. Len(s) \in Nat /\ \A i \in 1..Len(s) : s[i] \in S
  BY LenProperties, ElementOfSeq
<1>2. m \in Int /\ n \in Int /\ \A i \in m..n : s[i] \in S
  BY <1>1
<1>3. /\ SubSeq(s, m, n) \in Seq(S)
      /\ Len(SubSeq(s, m, n)) = IF m <= n THEN n - m + 1 ELSE 0
      /\ \A i \in 1..n - m + 1 : SubSeq(s, m, n)[i] = s[m + i - 1]
  BY <1>2, SubSeqProperties
<1>4. DOMAIN SubSeq(s, m, n) = 1..Len(SubSeq(s, m, n))
  BY <1>3, LenProperties
<1>5. 1..Len(SubSeq(s, m, n)) = 1..n - m + 1
  BY <1>3, <1>2
<1> QED
  BY <1>3, <1>4, <1>5

LEMMA RemoveAtFacts ==
  ASSUME NEW S, NEW s \in Seq(S), NEW j \in 1..Len(s)
  PROVE  /\ RemoveAt(s, j) \in Seq(S) /\ Len(RemoveAt(s, j)) = Len(s) - 1
         /\ \A i \in 1..Len(s) - 1 : RemoveAt(s, j)[i] = IF i < j THEN s[i] ELSE s[i + 1]
<1> DEFINE a == SubSeq(s, 1, j - 1)
           b == SubSeq(s, j + 1, Len(s))
<1>1. Len(s) \in Nat /\ j \in Nat /\ 1 <= j /\ j <= Len(s)
  BY LenProperties
<1>2. a \in Seq(S) /\ Len(a) = j - 1 /\ \A i \in 1..j - 1 : a[i] = s[i]
  <2>1. 1 \in Nat \ {0} /\ j - 1 \in Nat /\ j - 1 <= Len(s)
    BY <1>1
  <2>2. /\ a \in Seq(S) /\ Len(a) = IF 1 <= j - 1 THEN j - 1 - 1 + 1 ELSE 0
        /\ \A i \in 1..j - 1 - 1 + 1 : a[i] = s[1 + i - 1]
    BY <2>1, Slice
  <2> QED
    BY <1>1, <2>2
<1>3. b \in Seq(S) /\ Len(b) = Len(s) - j /\ \A i \in 1..Len(s) - j : b[i] = s[j + i]
  <2>1. j + 1 \in Nat \ {0} /\ Len(s) \in Nat /\ Len(s) <= Len(s)
    BY <1>1
  <2>2. /\ b \in Seq(S) /\ Len(b) = IF j + 1 <= Len(s) THEN Len(s) - (j + 1) + 1 ELSE 0
        /\ \A i \in 1..Len(s) - (j + 1) + 1 : b[i] = s[j + 1 + i - 1]
    BY <2>1, Slice
  <2> QED
    BY <1>1, <2>2
<1>4. /\ a \o b \in Seq(S) /\ Len(a \o b) = Len(a) + Len(b)
      /\ \A i \in 1..Len(a) + Len(b) : (a \o b)[i] = IF i <= Len(a) THEN a[i] ELSE b[i - Len(a)]
  <2> HIDE DEF a, b
  <2> QED
    BY <1>2, <1>3, ConcatProperties
<1>5. RemoveAt(s, j) = a \o b
  BY DEF RemoveAt
<1>6. ASSUME NEW i \in 1..Len(s) - 1
      PROVE  (a \o b)[i] = IF i < j THEN s[i] ELSE s[i + 1]
  <2> HIDE DEF a, b
  <2>1. (a \o b)[i] = IF i <= j - 1 THEN a[i] ELSE b[i - (j - 1)]
    BY <1>1, <1>2, <1>3, <1>4
  <2>2. CASE i < j
    BY <1>1, <1>2, <2>1, <2>2
  <2>3. CASE ~(i < j)
    <3>1. i - (j - 1) \in 1..Len(s) - j /\ j + (i - (j - 1)) = i + 1
      BY <1>1, <2>3
    <3> QED
      BY <1>1, <1>3, <2>1, <2>3, <3>1
  <2> QED
    BY <2>2, <2>3
<1>7. Len(a \o b) = Len(s) - 1
  <2> HIDE DEF a, b
  <2> QED
    BY <1>1, <1>2, <1>3, <1>4
<1> QED
  BY <1>4, <1>5, <1>6, <1>7
(* rest is old without the fingerprint f, in order: q gives the places in old. *)
Leaves(q, old, rest, f) ==
  /\ q \in [1..Len(rest) -> DOMAIN old]
  /\ \A i, k \in 1..Len(rest) : i < k => q[i] < q[k]
  /\ \A i \in 1..Len(rest) : rest[i] = old[q[i]] /\ rest[i].fingerprint # f
  /\ \A k \in DOMAIN old :
       old[k].fingerprint = f \/ \E i \in 1..Len(rest) : q[i] = k

LEMMA DeletedFacts ==
  ASSUME NEW old \in Seq(Entry), Unique(old), NEW f,
         NEW rest, rest = Deleted(old, f)
  PROVE  /\ rest \in Seq(Entry) /\ Len(rest) <= Len(old)
         /\ \E q : Leaves(q, old, rest, f)
<1> DEFINE found == {i \in DOMAIN old : old[i].fingerprint = f}
<1>1. Len(old) \in Nat /\ DOMAIN old = 1..Len(old)
  BY LenProperties
<1>2. CASE found = {}
  <2>1. rest = old
    BY <1>2 DEF Deleted
  <2> DEFINE q == [i \in 1..Len(old) |-> i]
  <2>2. /\ q \in [1..Len(rest) -> DOMAIN old]
        /\ \A i, k \in 1..Len(rest) : i < k => q[i] < q[k]
        /\ \A i \in 1..Len(rest) : rest[i] = old[q[i]] /\ rest[i].fingerprint # f
        /\ \A k \in DOMAIN old :
             old[k].fingerprint = f \/ \E i \in 1..Len(rest) : q[i] = k
    BY <1>1, <1>2, <2>1
  <2> HIDE DEF q
  <2>3. Leaves(q, old, rest, f)
    BY <2>2 DEF Leaves
  <2> QED
    BY <1>1, <2>1, <2>3
<1>3. CASE found # {}
  <2> DEFINE j == CHOOSE i \in found : TRUE
  <2>1. j \in found
    BY <1>3
  <2>2. j \in 1..Len(old) /\ old[j].fingerprint = f
    BY <1>1, <2>1
  <2>3. rest = RemoveAt(old, j)
    BY <1>3 DEF Deleted
  <2> HIDE DEF j
  <2>4. /\ rest \in Seq(Entry) /\ Len(rest) = Len(old) - 1
        /\ \A i \in 1..Len(old) - 1 : rest[i] = IF i < j THEN old[i] ELSE old[i + 1]
    BY <2>2, <2>3, RemoveAtFacts
  <2>5. \A k \in DOMAIN old : old[k].fingerprint = f => k = j
    BY <1>1, <2>2 DEF Unique
  <2> DEFINE q == [i \in 1..Len(rest) |-> IF i < j THEN i ELSE i + 1]
  <2>6. q \in [1..Len(rest) -> DOMAIN old] /\ \A i \in 1..Len(rest) : q[i] # j
    BY <1>1, <2>2, <2>4
  <2>7. \A i, k \in 1..Len(rest) : i < k => q[i] < q[k]
    BY <1>1, <2>2, <2>4
  <2>8. \A i \in 1..Len(rest) : rest[i] = old[q[i]]
    BY <1>1, <2>2, <2>4
  <2>9. ASSUME NEW k \in DOMAIN old, k # j  PROVE \E i \in 1..Len(rest) : q[i] = k
    <3>1. CASE k < j
      <4>1. k \in 1..Len(rest) /\ q[k] = k
        BY <1>1, <2>2, <2>4, <3>1
      <4> QED
        BY <4>1
    <3>2. CASE ~(k < j)
      <4>1. k - 1 \in 1..Len(rest) /\ q[k - 1] = k
        BY <1>1, <2>2, <2>4, <2>9, <3>2
      <4> QED
        BY <4>1
    <3> QED
      BY <3>1, <3>2
  <2> HIDE DEF q
  <2>10. \A i \in 1..Len(rest) : rest[i].fingerprint # f
    BY <2>5, <2>6, <2>8
  <2>11. \A k \in DOMAIN old :
           old[k].fingerprint = f \/ \E i \in 1..Len(rest) : q[i] = k
    BY <2>2, <2>9
  <2>12. Len(rest) <= Len(old)
    BY <1>1, <2>4
  <2>13. Leaves(q, old, rest, f)
    BY <2>6, <2>7, <2>8, <2>10, <2>11 DEF Leaves
  <2> QED
    BY <2>4, <2>12, <2>13
<1> QED
  BY <1>2, <1>3

LEMMA MoveToEnd ==
  ASSUME NEW old \in Seq(Entry), Unique(old), NEW x \in Entry, NEW drop \in Nat,
         NEW all, all = Append(Deleted(old, x.fingerprint), x), drop <= Len(all),
         NEW new, new = SubSeq(all, drop + 1, Len(all))
  PROVE  /\ MovesTo(old, new, x)
         /\ new \in Seq(Entry) /\ Len(new) = Len(all) - drop /\ Len(all) <= Len(old) + 1
<1> DEFINE rest == Deleted(old, x.fingerprint)
<1>1. rest \in Seq(Entry) /\ Len(rest) <= Len(old) /\ Len(rest) \in Nat /\ Len(old) \in Nat
  BY DeletedFacts, LenProperties
<1>2. PICK q : Leaves(q, old, rest, x.fingerprint)
  BY DeletedFacts
<1>3. all = Append(rest, x)
  OBVIOUS
<1> HIDE DEF rest
<1> USE DEF Leaves
<1>4. /\ all \in Seq(Entry) /\ Len(all) = Len(rest) + 1
      /\ \A i \in 1..Len(rest) : all[i] = rest[i]
      /\ all[Len(rest) + 1] = x
  BY <1>1, <1>3, AppendProperties
<1>5. /\ new \in Seq(Entry) /\ Len(new) = Len(all) - drop
      /\ \A i \in 1..Len(all) - drop : new[i] = all[drop + i]
  <2>1. drop + 1 \in Nat \ {0} /\ Len(all) \in Nat /\ Len(all) <= Len(all)
    BY <1>1, <1>4
  <2>2. /\ SubSeq(all, drop + 1, Len(all)) \in Seq(Entry)
        /\ Len(SubSeq(all, drop + 1, Len(all))) =
             IF drop + 1 <= Len(all) THEN Len(all) - (drop + 1) + 1 ELSE 0
        /\ \A i \in 1..Len(all) - (drop + 1) + 1 :
             SubSeq(all, drop + 1, Len(all))[i] = all[drop + 1 + i - 1]
    BY <1>4, <2>1, Slice
  <2>3. Len(new) = Len(all) - drop
    BY <2>1, <2>2
  <2>4. ASSUME NEW i \in 1..Len(all) - drop  PROVE new[i] = all[drop + i]
    <3>1. i \in 1..Len(all) - (drop + 1) + 1 /\ drop + 1 + i - 1 = drop + i
      BY <2>1
    <3> QED
      BY <2>2, <3>1
  <2> QED
    BY <2>2, <2>3, <2>4
<1> DEFINE p == [i \in 1..Len(new) - 1 |-> q[i + drop]]
<1>6. \A i \in 1..Len(new) - 1 : i + drop \in 1..Len(rest) /\ p[i] = q[i + drop]
  BY <1>1, <1>4, <1>5
<1>7. p \in [1..Len(new) - 1 -> DOMAIN old]
  BY <1>2, <1>6
<1> HIDE DEF p
<1>8. \A i, k \in 1..Len(new) - 1 : i < k => p[i] < p[k]
  <2> TAKE i, k \in 1..Len(new) - 1
  <2> HAVE i < k
  <2>1. i + drop < k + drop
    OBVIOUS
  <2> QED
    BY <1>2, <1>6, <2>1
<1>9. \A i \in 1..Len(new) - 1 : new[i] = old[p[i]] /\ new[i].fingerprint # x.fingerprint
  <2> TAKE i \in 1..Len(new) - 1
  <2>1. new[i] = all[drop + i]
    BY <1>1, <1>4, <1>5
  <2>2. all[drop + i] = rest[drop + i]
    BY <1>4, <1>6
  <2> QED
    BY <1>2, <1>6, <2>1, <2>2
<1>10. new # <<>> => new[Len(new)] = x
  <2> HAVE new # <<>>
  <2>1. Len(new) \in Nat \ {0}
    BY <1>5, EmptySeq
  <2>2. Len(new) \in 1..Len(all) - drop
    BY <1>5, <2>1
  <2>3. new[Len(new)] = all[drop + Len(new)]
    BY <1>5, <2>2
  <2>4. drop + Len(new) = Len(rest) + 1
    BY <1>1, <1>4, <1>5, <2>1
  <2> QED
    BY <1>4, <2>3, <2>4
<1>11. ASSUME NEW k \in DOMAIN old, old[k].fingerprint # x.fingerprint,
              ~\A i \in 1..Len(new) - 1 : k < p[i]
       PROVE  \E i \in 1..Len(new) - 1 : p[i] = k
  <2>1. PICK n \in 1..Len(rest) : q[n] = k
    BY <1>2, <1>11
  <2>2. PICK i \in 1..Len(new) - 1 : ~(k < p[i])
    BY <1>11
  <2>3. ~(n < i + drop)
    BY <1>2, <1>6, <2>1, <2>2
  <2>4. n - drop \in 1..Len(new) - 1
    <3>1. Len(new) - 1 = Len(rest) - drop
      BY <1>1, <1>4, <1>5
    <3>2. n \in Nat /\ i \in Nat /\ 1 <= i /\ i + drop <= n /\ n <= Len(rest)
      BY <1>1, <2>1, <2>2, <2>3
    <3> QED
      BY <1>1, <3>1, <3>2
  <2>5. p[n - drop] = k
    BY <1>1, <1>6, <2>1, <2>4
  <2> QED
    BY <2>4, <2>5
<1>12. Moves(p, old, new, x)
  BY <1>5, <1>7, <1>8, <1>9, <1>10, <1>11 DEF Moves
<1> QED
  BY <1>1, <1>4, <1>5, <1>12 DEF MovesTo

(* A hit moves its entry to the end; a record puts the fresh one there. *)
LEMMA TouchedMoves ==
  ASSUME NEW es \in Seq(Entry), Unique(es), NEW h \in Seq(Messages), h # <<>>,
         Matches(es, h) # {}
  PROVE  /\ MovesTo(es, Touched(es, h), es[Best(es, h)])
         /\ Len(Touched(es, h)) <= Len(es) /\ es[Best(es, h)] \in Entry
<1> DEFINE i == Best(es, h)
<1>1. Len(es) \in Nat /\ DOMAIN es = 1..Len(es)
  BY LenProperties
<1>2. i \in 1..Len(es)
  BY <1>1, BestIs DEF Matches
<1> HIDE DEF i
<1>3. es[i] \in Entry
  BY <1>2, ElementOfSeq
<1>4. Deleted(es, es[i].fingerprint) = RemoveAt(es, i)
  <2>1. {k \in DOMAIN es : es[k].fingerprint = es[i].fingerprint} = {i}
    BY <1>1, <1>2 DEF Unique
  <2>2. (CHOOSE k \in {i} : TRUE) = i
    OBVIOUS
  <2> QED
    BY <2>1, <2>2 DEF Deleted
<1>5. Touched(es, h) = Append(RemoveAt(es, i), es[i])
  BY DEF Touched, i
<1>6. RemoveAt(es, i) \in Seq(Entry) /\ Len(RemoveAt(es, i)) = Len(es) - 1
  BY <1>2, RemoveAtFacts
<1>7. Touched(es, h) \in Seq(Entry) /\ Len(Touched(es, h)) = Len(es)
  <2> DEFINE rest == RemoveAt(es, i)
  <2>1. rest \in Seq(Entry) /\ Len(rest) = Len(es) - 1
    BY <1>6
  <2>2. Touched(es, h) = Append(rest, es[i])
    BY <1>5
  <2> HIDE DEF rest
  <2>3. Append(rest, es[i]) \in Seq(Entry) /\ Len(Append(rest, es[i])) = Len(rest) + 1
    BY <1>3, <2>1, AppendProperties
  <2> QED
    BY <1>1, <2>1, <2>2, <2>3
<1>8. Touched(es, h) = SubSeq(Touched(es, h), 0 + 1, Len(Touched(es, h)))
  BY <1>7, SubSeqFull
<1>9. MovesTo(es, Touched(es, h), es[i])
  <2> DEFINE moved == Touched(es, h)
             x == es[i]
  <2>1. x \in Entry /\ moved = Append(Deleted(es, x.fingerprint), x)
    BY <1>3, <1>4, <1>5
  <2>2. Len(moved) \in Nat /\ moved = SubSeq(moved, 0 + 1, Len(moved))
    BY <1>1, <1>7, <1>8
  <2> DEFINE drop == 0
  <2>3. drop \in Nat /\ drop <= Len(moved) /\ moved = SubSeq(moved, drop + 1, Len(moved))
    BY <2>2
  <2> HIDE DEF moved, x, drop
  <2>4. MovesTo(es, moved, x)
    BY <2>1, <2>3, MoveToEnd
  <2> QED
    BY <2>4 DEF moved, x
<1> QED
  BY <1>1, <1>3, <1>7, <1>9 DEF i

Fresh(h, id) == [fingerprint |-> Fingerprint(h), count |-> Len(h), conversationId |-> id]

LEMMA RecordedMoves ==
  ASSUME NEW es \in Seq(Entry), Unique(es), NEW h \in Seq(Messages), h # <<>>,
         NEW id \in Nat \ {0}, NEW x, x = Fresh(h, id)
  PROVE  /\ MovesTo(es, Recorded(es, h, id), x)
         /\ Len(Recorded(es, h, id)) <= Capacity /\ x \in Entry
<1> DEFINE all == Append(Deleted(es, x.fingerprint), x)
           evicted == IF Len(all) > Capacity THEN Len(all) - Capacity ELSE 0
<1>1. x \in Entry
  BY FingerprintFacts, EmptySeq DEF Entry, Fresh
<1>2. Deleted(es, x.fingerprint) \in Seq(Entry)
  BY DeletedFacts
<1>3. all \in Seq(Entry) /\ Len(all) \in Nat
  BY <1>1, <1>2, AppendProperties, LenProperties
<1>4. Recorded(es, h, id) = SubSeq(all, evicted + 1, Len(all))
  BY DEF Recorded, Fresh
<1>5. evicted \in Nat /\ evicted <= Len(all)
  BY <1>3, CapacityAssumption
<1>6. /\ MovesTo(es, Recorded(es, h, id), x)
      /\ Len(Recorded(es, h, id)) = Len(all) - evicted
  <2> DEFINE drop == evicted
             every == all
  <2>1. every = Append(Deleted(es, x.fingerprint), x)
    OBVIOUS
  <2> HIDE DEF drop, every
  <2>2. drop \in Nat /\ drop <= Len(every)
    BY <1>5 DEF drop, every
  <2>3. Recorded(es, h, id) = SubSeq(every, drop + 1, Len(every))
    BY <1>4 DEF drop, every
  <2> DEFINE new == Recorded(es, h, id)
             last == x
  <2>4. /\ new = SubSeq(every, drop + 1, Len(every))
        /\ last \in Entry /\ every = Append(Deleted(es, last.fingerprint), last)
    BY <1>1, <2>1, <2>3
  <2> HIDE DEF new, last
  <2>5. MovesTo(es, new, last)
    BY <2>2, <2>4, MoveToEnd
  <2>6. Len(new) = Len(every) - drop
    BY <2>2, <2>4, MoveToEnd
  <2> QED
    BY <2>5, <2>6 DEF drop, every, new, last
<1>7. Len(all) - evicted <= Capacity
  BY <1>3, CapacityAssumption
<1> QED
  BY <1>1, <1>6, <1>7
(* What a move keeps: one entry for each fingerprint, from the store or the moved one. *)
LEMMA MovesKeep ==
  ASSUME NEW old \in Seq(Entry), Unique(old), NEW x \in Entry, NEW new, MovesTo(old, new, x)
  PROVE  /\ new \in Seq(Entry) /\ Unique(new)
         /\ \A i \in DOMAIN new :
              \/ i = Len(new) /\ new[i] = x
              \/ i < Len(new) /\ new[i].fingerprint # x.fingerprint
                 /\ \E k \in DOMAIN old : old[k] = new[i]
<1>1. PICK p : Moves(p, old, new, x)
  BY DEF MovesTo
<1>2. /\ new \in Seq(Entry) /\ Len(new) \in Nat /\ DOMAIN new = 1..Len(new)
      /\ new # <<>> => new[Len(new)] = x
  BY <1>1, LenProperties DEF Moves
<1>3. /\ p \in [1..Len(new) - 1 -> DOMAIN old]
      /\ \A i, k \in 1..Len(new) - 1 : i < k => p[i] < p[k]
      /\ \A i \in 1..Len(new) - 1 :
           new[i] = old[p[i]] /\ new[i].fingerprint # x.fingerprint
  BY <1>1 DEF Moves
<1>4. new[Len(new)] = x \/ DOMAIN new = {}
  <2>1. CASE new = <<>>
    <3>1. Len(new) = 0
      BY <2>1
    <3> QED
      BY <1>2, <3>1
  <2> QED
    BY <1>2, <2>1
<1>5. ASSUME NEW i \in DOMAIN new
      PROVE  \/ i = Len(new) /\ new[i] = x
             \/ i < Len(new) /\ new[i].fingerprint # x.fingerprint
                /\ \E k \in DOMAIN old : old[k] = new[i]
  <2>1. CASE i = Len(new)
    BY <1>4, <2>1
  <2>2. CASE i # Len(new)
    <3>1. i \in 1..Len(new) - 1 /\ i < Len(new)
      BY <1>2, <2>2
    <3>2. p[i] \in DOMAIN old /\ old[p[i]] = new[i] /\ new[i].fingerprint # x.fingerprint
      BY <1>3, <3>1
    <3> QED
      BY <3>1, <3>2
  <2> QED
    BY <2>1, <2>2
<1>6. Unique(new)
  <2> SUFFICES ASSUME NEW i \in DOMAIN new, NEW k \in DOMAIN new,
                      new[i].fingerprint = new[k].fingerprint
               PROVE  i = k
    BY DEF Unique
  <2>1. CASE i = Len(new) \/ k = Len(new)
    BY <1>5, <2>1
  <2>2. CASE i # Len(new) /\ k # Len(new)
    <3>1. i \in 1..Len(new) - 1 /\ k \in 1..Len(new) - 1
      BY <1>2, <2>2
    <3>2. p[i] \in DOMAIN old /\ p[k] \in DOMAIN old /\ new[i] = old[p[i]] /\ new[k] = old[p[k]]
      BY <1>3, <3>1
    <3>3. p[i] = p[k]
      BY <3>2 DEF Unique
    <3>4. p[i] \in Nat
      BY <3>2, LenProperties
    <3>5. ~(i < k) /\ ~(k < i)
      BY <1>3, <3>1, <3>3, <3>4
    <3> QED
      BY <3>1, <3>5
  <2> QED
    BY <2>1, <2>2
<1> QED
  BY <1>2, <1>5, <1>6

(* The entries of a chat in the moved store stand in the order of the old one. *)
LEMMA MovesInOrder ==
  ASSUME NEW old \in Seq(Entry), NEW x \in Entry, NEW new, MovesTo(old, new, x),
         NEW i \in DOMAIN new, NEW k \in DOMAIN new, i < k, k # Len(new)
  PROVE  \E m, n \in DOMAIN old : m < n /\ old[m] = new[i] /\ old[n] = new[k]
<1>1. PICK p : Moves(p, old, new, x)
  BY DEF MovesTo
<1>2. Len(new) \in Nat /\ DOMAIN new = 1..Len(new)
  BY <1>1, LenProperties DEF Moves
<1>3. i \in 1..Len(new) - 1 /\ k \in 1..Len(new) - 1
  BY <1>2
<1>4. /\ p[i] \in DOMAIN old /\ p[k] \in DOMAIN old /\ p[i] < p[k]
      /\ old[p[i]] = new[i] /\ old[p[k]] = new[k]
  BY <1>1, <1>3 DEF Moves
<1> QED
  BY <1>4

(* The entry touched last is the last one. *)
Ordered(es, used) ==
  \A i, k \in DOMAIN es : i < k => used[es[i].fingerprint] <= used[es[k].fingerprint]

LEMMA MovesOrder ==
  ASSUME NEW old \in Seq(Entry), Unique(old), NEW x \in Entry, NEW new, MovesTo(old, new, x),
         NEW used \in [SUBSET Messages -> Nat], Ordered(old, used),
         NEW t \in Nat, \A f \in SUBSET Messages : used[f] <= t
  PROVE  Ordered(new, [used EXCEPT ![x.fingerprint] = t])
<1> DEFINE next == [used EXCEPT ![x.fingerprint] = t]
<1>1. x.fingerprint \in SUBSET Messages
  BY DEF Entry
<1>2. /\ new \in Seq(Entry) /\ Len(new) \in Nat /\ DOMAIN new = 1..Len(new)
      /\ \A i \in DOMAIN new :
           \/ i = Len(new) /\ new[i] = x
           \/ i < Len(new) /\ new[i].fingerprint # x.fingerprint
              /\ \E k \in DOMAIN old : old[k] = new[i]
  BY MovesKeep, LenProperties
<1>3. \A i \in DOMAIN new : new[i].fingerprint \in SUBSET Messages
  <2>1. \A i \in DOMAIN new : new[i] \in Entry
    BY <1>2, ElementOfSeq
  <2> QED
    BY <2>1 DEF Entry
<1>4. /\ next[x.fingerprint] = t
      /\ \A f \in SUBSET Messages : f # x.fingerprint => next[f] = used[f]
  BY <1>1
<1>5. \A f \in SUBSET Messages : next[f] <= t
  BY <1>4
<1> HIDE DEF next
<1>6. ASSUME NEW i \in DOMAIN new, NEW k \in DOMAIN new, i < k
      PROVE  next[new[i].fingerprint] <= next[new[k].fingerprint]
  <2>1. CASE k = Len(new)
    <3>1. next[new[k].fingerprint] = t
      BY <1>2, <1>4, <2>1
    <3> QED
      BY <1>3, <1>5, <3>1
  <2>2. CASE k # Len(new)
    <3>1. PICK m, n \in DOMAIN old : m < n /\ old[m] = new[i] /\ old[n] = new[k]
      BY <1>6, <2>2, MovesInOrder
    <3>2. used[new[i].fingerprint] <= used[new[k].fingerprint]
      BY <3>1 DEF Ordered
    <3>3. new[i].fingerprint # x.fingerprint /\ new[k].fingerprint # x.fingerprint
      BY <1>2, <1>6, <2>2
    <3> QED
      BY <1>3, <1>4, <3>2, <3>3
  <2> QED
    BY <2>1, <2>2
<1> QED
  BY <1>6 DEF Ordered, next

(* A move of an entry of no concern to a chat leaves the order of the chat's entries,
   and the last of them. *)
LEMMA OthersMove ==
  ASSUME NEW old \in Seq(Entry), Unique(old), NEW x \in Entry, NEW new, MovesTo(old, new, x),
         NEW d \in Clients, ~Of(d, x), NEW h \in Seq(Messages), ArePrefixes(d, old, h), Growing(d, old)
  PROVE  /\ ArePrefixes(d, new, h) /\ Growing(d, new)
         /\ \A i \in DOMAIN new : LastOf(d, new, i) =>
              \E k \in DOMAIN old : LastOf(d, old, k) /\ old[k] = new[i]
         /\ \A i \in DOMAIN new : Of(d, new[i]) => \E k \in DOMAIN old : old[k] = new[i]
<1>1. /\ new \in Seq(Entry) /\ Len(new) \in Nat /\ DOMAIN new = 1..Len(new)
      /\ \A i \in DOMAIN new :
           \/ i = Len(new) /\ new[i] = x
           \/ i < Len(new) /\ new[i].fingerprint # x.fingerprint
              /\ \E k \in DOMAIN old : old[k] = new[i]
  BY MovesKeep, LenProperties
<1>2. \A i \in DOMAIN new : Of(d, new[i]) => i < Len(new) /\ \E k \in DOMAIN old : old[k] = new[i]
  BY <1>1
<1>3. ArePrefixes(d, new, h)
  BY <1>2 DEF ArePrefixes
<1>4. Growing(d, new)
  <2> SUFFICES ASSUME NEW i \in DOMAIN new, NEW k \in DOMAIN new,
                      Of(d, new[i]), Of(d, new[k]), i < k
               PROVE  new[i].count < new[k].count
    BY DEF Growing
  <2>1. k # Len(new)
    BY <1>1, <1>2
  <2>2. PICK m, n \in DOMAIN old : m < n /\ old[m] = new[i] /\ old[n] = new[k]
    BY <2>1, MovesInOrder
  <2> QED
    BY <2>2 DEF Growing
<1>5. ASSUME NEW i \in DOMAIN new, LastOf(d, new, i)
      PROVE  \E k \in DOMAIN old : LastOf(d, old, k) /\ old[k] = new[i]
  <2>1. PICK p : Moves(p, old, new, x)
    BY DEF MovesTo
  <2>2. i \in 1..Len(new) - 1
    BY <1>1, <1>2, <1>5 DEF LastOf
  <2>3. p[i] \in DOMAIN old /\ old[p[i]] = new[i]
    BY <2>1, <2>2 DEF Moves
  <2>4. DOMAIN old \subseteq Nat
    BY LenProperties
  <2>5. ASSUME NEW k \in DOMAIN old, p[i] < k, Of(d, old[k])  PROVE FALSE
    <3>1. old[k].fingerprint # x.fingerprint
      BY <2>5 DEF Of
    <3>2. \/ \E n \in 1..Len(new) - 1 : p[n] = k
          \/ \A n \in 1..Len(new) - 1 : k < p[n]
      BY <2>1, <3>1 DEF Moves
    <3>3. PICK n \in 1..Len(new) - 1 : p[n] = k
      BY <2>2, <2>3, <2>4, <2>5, <3>2
    <3>4. new[n] = old[k] /\ (n < i => p[n] < p[i])
      BY <2>1, <2>2, <3>3 DEF Moves
    <3>5. i < n
      BY <2>2, <2>3, <2>4, <2>5, <3>3, <3>4
    <3>6. n \in DOMAIN new
      BY <1>1
    <3> QED
      BY <1>5, <2>5, <3>4, <3>5, <3>6 DEF LastOf
  <2>6. LastOf(d, old, p[i])
    BY <1>5, <2>3, <2>5 DEF LastOf
  <2> QED
    BY <2>3, <2>6
<1> QED
  BY <1>2, <1>3, <1>4, <1>5

(* A move of the chat's own entry, of the longest prefix, makes it the last. *)
LEMMA OwnMove ==
  ASSUME NEW old \in Seq(Entry), Unique(old), NEW x \in Entry, NEW new, MovesTo(old, new, x),
         NEW d \in Clients, Of(d, x), NEW h \in Seq(Messages), ArePrefixes(d, old, h), Growing(d, old),
         x.count <= Len(h), x.fingerprint = ToSet(Prefix(h, x.count)),
         \A k \in DOMAIN old : Of(d, old[k]) /\ old[k].fingerprint # x.fingerprint =>
           old[k].count < x.count
  PROVE  /\ ArePrefixes(d, new, h) /\ Growing(d, new)
         /\ \A i \in DOMAIN new : LastOf(d, new, i) => new[i] = x
<1>1. /\ new \in Seq(Entry) /\ Len(new) \in Nat /\ DOMAIN new = 1..Len(new)
      /\ \A i \in DOMAIN new :
           \/ i = Len(new) /\ new[i] = x
           \/ i < Len(new) /\ new[i].fingerprint # x.fingerprint
              /\ \E k \in DOMAIN old : old[k] = new[i]
  BY MovesKeep, LenProperties
<1>2. ArePrefixes(d, new, h)
  BY <1>1 DEF ArePrefixes
<1>3. Growing(d, new)
  <2> SUFFICES ASSUME NEW i \in DOMAIN new, NEW k \in DOMAIN new,
                      Of(d, new[i]), Of(d, new[k]), i < k
               PROVE  new[i].count < new[k].count
    BY DEF Growing
  <2>1. CASE k = Len(new)
    BY <1>1, <2>1
  <2>2. CASE k # Len(new)
    <3>1. PICK m, n \in DOMAIN old : m < n /\ old[m] = new[i] /\ old[n] = new[k]
      BY <2>2, MovesInOrder
    <3> QED
      BY <3>1 DEF Growing
  <2> QED
    BY <2>1, <2>2
<1>4. ASSUME NEW i \in DOMAIN new, LastOf(d, new, i)  PROVE new[i] = x
  <2>1. Len(new) \in DOMAIN new /\ i <= Len(new)
    BY <1>1
  <2>2. new[Len(new)] = x
    BY <1>1, <2>1
  <2>3. ~(i < Len(new))
    BY <1>4, <2>1, <2>2 DEF LastOf
  <2> QED
    BY <1>1, <2>1, <2>2, <2>3
<1> QED
  BY <1>2, <1>3, <1>4
-------------------------------------------------------------------------------
(* What agy keeps. *)
LEMMA TakenFacts ==
  ASSUME TypeOK, AskedInv, NEW c \in Clients
  PROVE  /\ Taken(c) \in Seq(Seq(Messages)) /\ Target(c) \in DOMAIN Taken(c)
         /\ DOMAIN conversations = 1..Len(conversations)
         /\ DOMAIN Taken(c) = 1..Len(Taken(c)) /\ Len(conversations) <= Len(Taken(c))
         /\ Target(c) \in Nat \ {0} /\ Len(conversations) \in Nat /\ Len(Taken(c)) \in Nat
         /\ \A id \in DOMAIN conversations :
              id # asked[c].conversationId => Taken(c)[id] = conversations[id]
         /\ asked[c].conversationId = 0 =>
              Target(c) = Len(conversations) + 1 /\ Taken(c)[Target(c)] = asked[c].prompt
         /\ asked[c].conversationId # 0 =>
              /\ Target(c) = asked[c].conversationId /\ Target(c) \in DOMAIN conversations
              /\ Taken(c)[Target(c)] = conversations[Target(c)] \o asked[c].prompt
<1>1. /\ Len(conversations) \in Nat /\ DOMAIN conversations = 1..Len(conversations)
      /\ conversations \in Seq(Seq(Messages))
  BY LenProperties DEF TypeOK
<1>2. asked[c].prompt \in Seq(Messages) /\ asked[c].conversationId \in 0..Len(conversations)
  BY DEF TypeOK, AskedInv, Request
<1> DEFINE prompt == asked[c].prompt
           id == asked[c].conversationId
<1>3. prompt \in Seq(Messages) /\ id \in 0..Len(conversations)
  BY <1>2
<1>4. CASE id = 0
  <2>1. Taken(c) = Append(conversations, prompt) /\ Target(c) = Len(conversations) + 1
    BY <1>4 DEF Taken, Target
  <2> HIDE DEF prompt
  <2>2. /\ Taken(c) \in Seq(Seq(Messages)) /\ Len(Taken(c)) = Len(conversations) + 1
        /\ \A i \in 1..Len(conversations) : Taken(c)[i] = conversations[i]
        /\ Taken(c)[Len(conversations) + 1] = prompt
    BY <1>1, <1>3, <2>1, AppendProperties
  <2>3. DOMAIN Taken(c) = 1..Len(Taken(c))
    BY <2>2, LenProperties
  <2> QED
    BY <1>1, <1>4, <2>1, <2>2, <2>3 DEF prompt
<1>5. CASE id # 0
  <2>1. /\ Taken(c) = [conversations EXCEPT ![id] = conversations[id] \o prompt]
        /\ Target(c) = id
    BY <1>5 DEF Taken, Target
  <2> HIDE DEF id, prompt
  <2>2. id \in 1..Len(conversations) /\ conversations[id] \in Seq(Messages)
    BY <1>1, <1>3, <1>5, ElementOfSeq
  <2> DEFINE longer == conversations[id] \o prompt
  <2>3. longer \in Seq(Messages)
    BY <1>3, <2>2, ConcatProperties
  <2> HIDE DEF longer
  <2>4. Taken(c) = [conversations EXCEPT ![id] = longer]
    BY <2>1 DEF longer
  <2>5. /\ Taken(c) \in Seq(Seq(Messages)) /\ Len(Taken(c)) = Len(conversations)
    BY <1>1, <2>2, <2>3, <2>4, ExceptSeq
  <2>6. DOMAIN Taken(c) = 1..Len(Taken(c))
    BY <2>5, LenProperties
  <2>7. /\ Taken(c)[id] = longer
        /\ \A i \in DOMAIN conversations : i # id => Taken(c)[i] = conversations[i]
    BY <1>1, <2>2, <2>4
  <2>8. /\ Target(c) = id /\ Target(c) \in DOMAIN conversations
        /\ Target(c) \in DOMAIN Taken(c) /\ Target(c) \in Nat \ {0}
        /\ Len(conversations) <= Len(Taken(c)) /\ Len(Taken(c)) \in Nat
        /\ Taken(c)[Target(c)] = conversations[Target(c)] \o prompt
    BY <1>1, <2>1, <2>2, <2>5, <2>6, <2>7 DEF longer
  <2>9. /\ Target(c) = asked[c].conversationId
        /\ Taken(c)[Target(c)] = conversations[Target(c)] \o asked[c].prompt
    BY <2>8 DEF id, prompt
  <2>10. \A i \in DOMAIN conversations :
           i # asked[c].conversationId => Taken(c)[i] = conversations[i]
    BY <2>7 DEF id
  <2>11. asked[c].conversationId # 0
    BY <1>5 DEF id
  <2> QED
    BY <1>1, <2>5, <2>6, <2>8, <2>9, <2>10, <2>11
<1> QED
  BY <1>4, <1>5

-------------------------------------------------------------------------------
(* The entries of a chat. *)
LEMMA EntryFacts ==
  ASSUME TypeOK, NEW i \in DOMAIN entries
  PROVE  /\ entries[i] \in Entry /\ entries[i].count \in Nat \ {0}
         /\ entries[i].conversationId \in Nat \ {0} /\ entries[i].fingerprint \in SUBSET Messages
         /\ DOMAIN entries = 1..Len(entries) /\ Len(entries) \in Nat
<1>1. entries \in Seq(Entry) /\ DOMAIN entries = 1..Len(entries) /\ Len(entries) \in Nat
  BY LenProperties DEF TypeOK
<1>2. entries[i] \in Entry
  BY <1>1, ElementOfSeq
<1> QED
  BY <1>1, <1>2 DEF Entry

(* A chat that has sent nothing has no entry, when its messages are its own. *)
LEMMA NoEntryYet ==
  ASSUME TypeOK, AskedInv, NEW c \in Clients, history[c] = <<>>, OwnWords(c)
  PROVE  \A i \in DOMAIN entries : ~Of(c, entries[i])
<1> SUFFICES ASSUME NEW i \in DOMAIN entries, Of(c, entries[i])  PROVE FALSE
  OBVIOUS
<1>1. PICK d \in Clients : history[d] # <<>> /\ entries[i].fingerprint \subseteq Written(d)
  BY DEF AskedInv
<1>2. d # c
  BY <1>1
<1> QED
  BY <1>1, <1>2 DEF Of, OwnWords

(* What makes a chat ready to send a longer history. *)
Ready(c, sent) ==
  /\ Distinct(sent) /\ OwnWords(c)
  /\ ArePrefixes(c, entries, sent) /\ Growing(c, entries)
  /\ Current(c, entries, sent, conversations)
  /\ \A i \in DOMAIN entries : Of(c, entries[i]) => entries[i].count < Len(sent)

LEMMA ContinuesReady ==
  ASSUME TypeOK, AskedInv, LinearInv, NEW c \in Clients, linear[c],
         NEW sent \in Histories[c], Continues(c, sent)
  PROVE  Ready(c, sent)
<1>1. Distinct(sent) /\ OwnWords(c) /\ sent \in Seq(Messages) /\ Len(sent) \in Nat \ {0}
  BY SentFacts DEF Continues, Distinct, OwnWords
<1>2. CASE history[c] = <<>>
  <2>1. \A i \in DOMAIN entries : ~Of(c, entries[i])
    BY <1>1, <1>2, NoEntryYet
  <2> QED
    BY <1>1, <2>1 DEF Ready, ArePrefixes, Growing, Current, LastOf
<1>3. CASE history[c] # <<>>
  <2> DEFINE h == history[c]
  <2>1. h \in Seq(Messages) /\ IsStrictPrefix(h, sent)
    BY DEF TypeOK, Continues
  <2>2. IsPrefix(h, sent) /\ Len(h) < Len(sent) /\ Len(h) \in Nat
    BY <1>1, <2>1, StrictlyLonger, LenProperties
  <2>3. ChatInv(c)
    BY <1>3 DEF LinearInv
  <2>4. ASSUME NEW i \in DOMAIN entries, Of(c, entries[i])
        PROVE  /\ entries[i].count \in 0..Len(h) /\ entries[i].count < Len(sent)
               /\ Prefix(sent, entries[i].count) = Prefix(h, entries[i].count)
    <3>1. entries[i].count <= Len(h) /\ entries[i].count \in Nat
      BY <2>3, <2>4, EntryFacts DEF ChatInv, ArePrefixes
    <3>2. entries[i].count \in 0..Len(h)
      BY <2>2, <3>1
    <3> HIDE DEF h
    <3> QED
      BY <1>1, <2>1, <2>2, <3>2, PrefixOfLonger
  <2>5. ArePrefixes(c, entries, sent)
    <3> SUFFICES ASSUME NEW i \in DOMAIN entries, Of(c, entries[i])
                 PROVE  /\ entries[i].count <= Len(sent)
                        /\ entries[i].fingerprint = ToSet(Prefix(sent, entries[i].count))
      BY DEF ArePrefixes
    <3>1. entries[i].fingerprint = ToSet(Prefix(h, entries[i].count))
      BY <2>3 DEF ChatInv, ArePrefixes
    <3>2. entries[i].count <= Len(sent)
      BY <1>1, <2>4, EntryFacts
    <3> QED
      BY <2>4, <3>1, <3>2
  <2>6. Current(c, entries, sent, conversations)
    BY <2>3, <2>4 DEF ChatInv, Current, LastOf
  <2> QED
    BY <1>1, <2>3, <2>4, <2>5, <2>6 DEF Ready, ChatInv
<1> QED
  BY <1>2, <1>3
(* A lookup finds the entries of the chat, and no others: those of another chat hold
   none of its messages. *)
LEMMA MatchWithin ==
  ASSUME TypeOK, NEW c \in Clients, NEW sent \in Histories[c],
         NEW i \in Matches(entries, sent)
  PROVE  /\ i \in DOMAIN entries /\ entries[i].count \in 1..Len(sent)
         /\ entries[i].fingerprint = Fingerprint(Prefix(sent, entries[i].count))
         /\ entries[i].fingerprint \subseteq Written(c)
         /\ \A d \in Clients \ {c} : OwnWords(d) => ~Of(d, entries[i])
<1>1. /\ i \in DOMAIN entries /\ entries[i].count <= Len(sent)
      /\ entries[i].fingerprint = Fingerprint(Prefix(sent, entries[i].count))
  BY DEF Matches
<1>2. sent \in Seq(Messages) /\ Len(sent) \in Nat /\ ToSet(sent) \subseteq Written(c)
  BY SentFacts
<1>3. entries[i].count \in 1..Len(sent) /\ entries[i].count \in 0..Len(sent)
  BY <1>1, <1>2, EntryFacts
<1>4. Fingerprint(Prefix(sent, entries[i].count)) \subseteq ToSet(sent)
  BY <1>2, <1>3, PrefixWithin
<1>5. entries[i].fingerprint \subseteq Written(c)
  BY <1>1, <1>2, <1>4
<1>6. \A d \in Clients \ {c} : OwnWords(d) => ~Of(d, entries[i])
  BY <1>5 DEF OwnWords, Of
<1> QED
  BY <1>1, <1>3, <1>5, <1>6

LEMMA ReadyMatches ==
  ASSUME TypeOK, NEW c \in Clients, NEW sent \in Histories[c], Ready(c, sent)
  PROVE  Matches(entries, sent) = {i \in DOMAIN entries : Of(c, entries[i])}
<1>1. sent \in Seq(Messages) /\ Len(sent) \in Nat \ {0} /\ Distinct(sent)
  BY SentFacts DEF Ready
<1>2. sent[1] \in Written(c)
  <2>1. 1 \in DOMAIN sent
    BY <1>1, LenProperties
  <2>2. sent[1] \in ToSet(sent)
    BY <2>1 DEF ToSet
  <2> QED
    BY <2>2, SentFacts
<1>3. ASSUME NEW i \in Matches(entries, sent)  PROVE i \in DOMAIN entries /\ Of(c, entries[i])
  <2>1. /\ i \in DOMAIN entries /\ entries[i].count \in 1..Len(sent)
        /\ entries[i].fingerprint = Fingerprint(Prefix(sent, entries[i].count))
    BY MatchWithin
  <2> DEFINE n == entries[i].count
  <2>2. n \in 0..Len(sent) /\ n > 0
    BY <1>1, <2>1
  <2> HIDE DEF n
  <2>3. sent[1] \in ToSet(Prefix(sent, n)) /\ Fingerprint(Prefix(sent, n)) = ToSet(Prefix(sent, n))
    BY <1>1, <2>2, PrefixDistinct
  <2> QED
    BY <1>2, <2>1, <2>3 DEF n, Of
<1>4. ASSUME NEW i \in DOMAIN entries, Of(c, entries[i])  PROVE i \in Matches(entries, sent)
  <2>1. /\ entries[i].count <= Len(sent)
        /\ entries[i].fingerprint = ToSet(Prefix(sent, entries[i].count))
    BY <1>4 DEF Ready, ArePrefixes
  <2> DEFINE n == entries[i].count
  <2>2. n \in 0..Len(sent)
    BY <1>1, <2>1, EntryFacts
  <2> HIDE DEF n
  <2>3. Fingerprint(Prefix(sent, n)) = ToSet(Prefix(sent, n))
    BY <1>1, <2>2, PrefixDistinct
  <2> QED
    BY <2>1, <2>3 DEF n, Matches
<1> QED
  BY <1>3, <1>4

LEMMA PromptFacts ==
  ASSUME NEW sent \in Seq(Messages), NEW n \in Nat
  PROVE  /\ Prompt(sent, n) \in Seq(Messages) /\ Prompt(sent, 0) = sent
         /\ n < Len(sent) => Prefix(sent, n) \o Prompt(sent, n) = sent
<1>1. Len(sent) \in Nat
  BY LenProperties
<1>2. ASSUME n < Len(sent)
      PROVE  /\ Prompt(sent, n) = SubSeq(sent, n + 1, Len(sent))
             /\ Prompt(sent, n) \in Seq(Messages)
             /\ Prefix(sent, n) \o Prompt(sent, n) = sent
  <2>1. Prompt(sent, n) = SubSeq(sent, n + 1, Len(sent))
    BY <1>2 DEF Prompt
  <2>2. n + 1 \in Nat \ {0} /\ Len(sent) <= Len(sent)
    BY <1>1
  <2>3. SubSeq(sent, n + 1, Len(sent)) \in Seq(Messages)
    BY <1>1, <2>2, Slice
  <2>4. SubSeq(sent, 1, n) \o SubSeq(sent, n + 1, Len(sent)) = SubSeq(sent, 1, Len(sent))
    <3> DEFINE one == 1
               all == Len(sent)
    <3>1. one \in 1..Len(sent) + 1 /\ n \in one - 1..Len(sent) /\ all \in n..Len(sent)
      BY <1>1, <1>2
    <3> HIDE DEF one, all
    <3>2. SubSeq(sent, one, n) \o SubSeq(sent, n + 1, all) = SubSeq(sent, one, all)
      BY <3>1, ConcatAdjacentSubSeq
    <3> QED
      BY <3>2 DEF one, all
  <2> QED
    BY <2>1, <2>3, <2>4, SubSeqFull DEF Prefix
<1>3. ~(n < Len(sent)) => Prompt(sent, n) \in Seq(Messages)
  BY DEF Prompt
<1>4. Prompt(sent, 0) = sent
  <2>1. CASE 0 < Len(sent)
    <3>1. Prompt(sent, 0) = SubSeq(sent, 0 + 1, Len(sent))
      BY <2>1 DEF Prompt
    <3> QED
      BY <3>1, SubSeqFull
  <2>2. CASE ~(0 < Len(sent))
    BY <2>2 DEF Prompt
  <2> QED
    BY <2>1, <2>2
<1> QED
  BY <1>2, <1>3, <1>4

(* What the lookup finds for a chat that is ready: its last entry, the longest, and the
   prompt completes the conversation to the history. *)
LEMMA ReadyHit ==
  ASSUME TypeOK, NEW c \in Clients, NEW sent \in Histories[c], Ready(c, sent),
         Matches(entries, sent) # {},
         NEW x, x = entries[Best(entries, sent)]
  PROVE  /\ x \in Entry /\ Of(c, x) /\ x.count < Len(sent)
         /\ x.fingerprint = ToSet(Prefix(sent, x.count))
         /\ \A k \in DOMAIN entries : Of(c, entries[k]) /\ entries[k].fingerprint # x.fingerprint =>
              entries[k].count < x.count
         /\ conversations[x.conversationId] = Prefix(sent, x.count)
         /\ conversations[x.conversationId] \o Prompt(sent, x.count) = sent
<1> DEFINE i == Best(entries, sent)
<1>1. sent \in Seq(Messages) /\ Len(sent) \in Nat
  BY SentFacts
<1>2. /\ i \in Matches(entries, sent)
      /\ \A k \in Matches(entries, sent) :
           \/ entries[k].count < entries[i].count
           \/ entries[k].count = entries[i].count /\ k <= i
  BY <1>1, BestIs DEF TypeOK
<1> HIDE DEF i
<1>3. x = entries[i]
  BY DEF i
<1>4. Matches(entries, sent) = {k \in DOMAIN entries : Of(c, entries[k])}
  BY ReadyMatches
<1>5. i \in DOMAIN entries /\ Of(c, x) /\ x \in Entry /\ DOMAIN entries \subseteq Nat
  BY <1>2, <1>3, <1>4, EntryFacts
<1>6. \A k \in DOMAIN entries : entries[k].count \in Nat
  BY EntryFacts
<1>7. LastOf(c, entries, i)
  <2> SUFFICES ASSUME NEW k \in DOMAIN entries, i < k, Of(c, entries[k])  PROVE FALSE
    BY <1>3, <1>5 DEF LastOf
  <2>1. entries[i].count < entries[k].count
    BY <1>3, <1>5 DEF Ready, Growing
  <2>2. k \in Matches(entries, sent)
    BY <1>4
  <2> QED
    BY <1>2, <1>5, <1>6, <2>1, <2>2
<1>8. ASSUME NEW k \in DOMAIN entries, Of(c, entries[k]), entries[k].fingerprint # x.fingerprint
      PROVE  entries[k].count < x.count
  <2>1. k # i
    BY <1>3, <1>8
  <2>2. k < i
    BY <1>5, <1>7, <1>8, <2>1 DEF LastOf
  <2> QED
    BY <1>3, <1>5, <1>8, <2>2 DEF Ready, Growing
<1>9. conversations[x.conversationId] = Prefix(sent, x.count)
  BY <1>3, <1>5, <1>7 DEF Ready, Current
<1>10. x.count < Len(sent) /\ x.count \in Nat /\ x.fingerprint = ToSet(Prefix(sent, x.count))
  BY <1>3, <1>5, <1>6 DEF Ready, ArePrefixes
<1>11. Prefix(sent, x.count) \o Prompt(sent, x.count) = sent
  BY <1>1, <1>10, PromptFacts
<1> QED
  BY <1>5, <1>8, <1>9, <1>10, <1>11
-------------------------------------------------------------------------------
(* A request arrives: it misses, or hits the entry x. *)
Miss(c, sent) ==
  /\ Matches(entries, sent) = {} /\ entries' = entries /\ lastUsed' = lastUsed
  /\ asked' = [asked EXCEPT ![c] = [conversationId |-> 0, prompt |-> sent, explicit |-> FALSE]]
Hit(c, sent, x) ==
  /\ Matches(entries, sent) # {} /\ x = entries[Best(entries, sent)] /\ x \in Entry
  /\ Best(entries, sent) \in Matches(entries, sent)
  /\ MovesTo(entries, entries', x) /\ Len(entries') <= Len(entries)
  /\ lastUsed' = [lastUsed EXCEPT ![x.fingerprint] = 2 * requests + 3]
  /\ asked' = [asked EXCEPT ![c] = [conversationId |-> x.conversationId,
                                    prompt |-> Prompt(sent, x.count), explicit |-> FALSE]]

LEMMA ArriveFacts ==
  ASSUME TypeOK, OrderInv, NEW c \in Clients, NEW sent \in Histories[c], Arrive(c, sent)
  PROVE  Miss(c, sent) \/ \E x : Hit(c, sent, x)
<1>1. sent \in Seq(Messages) /\ sent # <<>>
  BY SentFacts
<1>2. CASE Matches(entries, sent) = {}
  <2>1. LookupHit(entries, sent) = NoHit /\ Touched(entries, sent) = entries
    BY <1>2 DEF LookupHit, Touched
  <2>2. Prompt(sent, 0) = sent
    BY <1>1, PromptFacts
  <2>3. NoHit.conversationId = 0 /\ NoHit.seenCount = 0
    BY DEF NoHit
  <2>4. /\ asked' = [asked EXCEPT ![c] = [conversationId |-> NoHit.conversationId,
                                         prompt |-> Prompt(sent, NoHit.seenCount),
                                         explicit |-> FALSE]]
        /\ entries' = entries /\ lastUsed' = lastUsed
    BY <2>1 DEF Arrive
  <2>5. Miss(c, sent)
    BY <1>2, <2>2, <2>3, <2>4 DEF Miss
  <2> QED
    BY <2>5
<1>3. CASE Matches(entries, sent) # {}
  <2> DEFINE i == Best(entries, sent)
             x == entries[i]
  <2>1. i \in Matches(entries, sent)
    BY <1>1, <1>3, BestIs DEF TypeOK
  <2>2. /\ i \in DOMAIN entries
        /\ x.fingerprint = Fingerprint(Prefix(sent, x.count))
    BY <2>1, MatchWithin
  <2>3. x \in Entry /\ x.conversationId \in Nat \ {0}
    BY <2>2, EntryFacts
  <2>4. MovesTo(entries, Touched(entries, sent), x) /\ Len(Touched(entries, sent)) <= Len(entries)
    BY <1>1, <1>3, TouchedMoves DEF TypeOK, OrderInv, Unique
  <2> DEFINE hit == LookupHit(entries, sent)
  <2>5. hit = [conversationId |-> x.conversationId, seenCount |-> x.count]
    BY <1>1, <1>3 DEF LookupHit
  <2>6. hit # NoHit /\ hit.conversationId = x.conversationId /\ hit.seenCount = x.count
    BY <2>3, <2>5 DEF NoHit
  <2> HIDE DEF i, hit
  <2>7. /\ asked' = [asked EXCEPT ![c] = [conversationId |-> hit.conversationId,
                                         prompt |-> Prompt(sent, hit.seenCount),
                                         explicit |-> FALSE]]
        /\ entries' = Touched(entries, sent)
        /\ lastUsed' = [lastUsed EXCEPT ![Fingerprint(Prefix(sent, hit.seenCount))] =
                          2 * requests + 3]
    BY <2>6 DEF Arrive, hit
  <2>8. Hit(c, sent, x)
    BY <1>3, <2>1, <2>2, <2>3, <2>4, <2>6, <2>7 DEF Hit, i
  <2> QED
    BY <2>8
<1> QED
  BY <1>2, <1>3

(* The ids a chat uses exist. *)
LEMMA UsedExist ==
  ASSUME TypeOK, AskedInv, NEW d \in Clients, NEW id, Uses(d, id)
  PROVE  id \in 0..Len(conversations) /\ (id # 0 => id \in DOMAIN conversations)
<1>1. DOMAIN conversations = 1..Len(conversations) /\ Len(conversations) \in Nat
  BY LenProperties DEF TypeOK
<1>2. id \in 0..Len(conversations)
  BY <1>1 DEF Uses, AskedInv
<1> QED
  BY <1>1, <1>2

(* A step of no concern to a chat d: no entry of the chat comes, goes or moves past
   another, no other chat takes up a conversation that d uses, nor does agy put
   anything into one. *)
Leave(d) ==
  /\ history'[d] = history[d] /\ asked'[d] = asked[d]
  /\ \/ entries' = entries
     \/ \E x \in Entry : /\ MovesTo(entries, entries', x)
                         /\ ~Of(d, x) /\ ~Uses(d, x.conversationId)
  /\ \A e \in Clients \ {d} :
       \/ asked'[e] = asked[e]
       \/ asked'[e].conversationId = 0
       \/ ~Uses(d, asked'[e].conversationId)
  /\ DOMAIN conversations' = 1..Len(conversations')
  /\ \A id \in DOMAIN conversations : Uses(d, id) => conversations'[id] = conversations[id]

LEMMA OtherChat ==
  ASSUME TypeOK, AskedInv, OrderInv, NEW d \in Clients,
         ChatInv(d), Alone(d), PromptInv(d), Leave(d)
  PROVE  ChatInv(d)' /\ Alone(d)' /\ PromptInv(d)'
<1> DEFINE h == history[d]
<1>1. /\ h \in Seq(Messages) /\ entries \in Seq(Entry) /\ Unique(entries)
      /\ ArePrefixes(d, entries, h) /\ Growing(d, entries)
  BY DEF TypeOK, OrderInv, Unique, ChatInv
<1>2. history'[d] = h /\ asked'[d] = asked[d]
  BY DEF Leave
<1> HIDE DEF h
<1> DEFINE Kept(new) ==
             /\ ArePrefixes(d, new, h) /\ Growing(d, new)
             /\ \A i \in DOMAIN new : LastOf(d, new, i) =>
                  \E k \in DOMAIN entries : LastOf(d, entries, k) /\ entries[k] = new[i]
             /\ \A i \in DOMAIN new : Of(d, new[i]) => \E k \in DOMAIN entries : entries[k] = new[i]
             /\ \A i \in DOMAIN new :
                  \/ \E k \in DOMAIN entries : entries[k] = new[i]
                  \/ ~Uses(d, new[i].conversationId)
<1>3. Kept(entries')
  <2>1. CASE entries' = entries
    BY <1>1, <2>1
  <2>2. ASSUME NEW x \in Entry, NEW new, MovesTo(entries, new, x),
               ~Of(d, x), ~Uses(d, x.conversationId)
        PROVE  Kept(new)
    <3>1. /\ ArePrefixes(d, new, h) /\ Growing(d, new)
          /\ \A i \in DOMAIN new : LastOf(d, new, i) =>
               \E k \in DOMAIN entries : LastOf(d, entries, k) /\ entries[k] = new[i]
          /\ \A i \in DOMAIN new : Of(d, new[i]) => \E k \in DOMAIN entries : entries[k] = new[i]
      BY <1>1, <2>2, OthersMove
    <3>2. \A i \in DOMAIN new : new[i] = x \/ \E k \in DOMAIN entries : entries[k] = new[i]
      BY <1>1, <2>2, MovesKeep
    <3> QED
      BY <2>2, <3>1, <3>2
  <2> HIDE DEF Kept
  <2> QED
    BY <2>1, <2>2 DEF Leave
<1>4. ASSUME NEW id, Uses(d, id)'  PROVE Uses(d, id)
  <2>1. CASE \E i \in DOMAIN entries' : Of(d, entries'[i]) /\ entries'[i].conversationId = id
    BY <1>3, <2>1 DEF Uses
  <2>2. CASE asked'[d] # NoRequest /\ asked'[d].conversationId = id
    BY <1>2, <2>2 DEF Uses
  <2> QED
    BY <1>4, <2>1, <2>2 DEF Uses
<1>5. ChatInv(d)'
  <2>1. Distinct(history'[d]) /\ OwnWords(d)
    BY <1>2 DEF ChatInv, h
  <2>2. Current(d, entries', history'[d], conversations')
    <3> SUFFICES ASSUME NEW i \in DOMAIN entries', LastOf(d, entries', i)
                 PROVE  conversations'[entries'[i].conversationId] = Prefix(h, entries'[i].count)
      BY <1>2 DEF Current
    <3>1. PICK k \in DOMAIN entries : LastOf(d, entries, k) /\ entries[k] = entries'[i]
      BY <1>3
    <3>2. conversations[entries[k].conversationId] = Prefix(h, entries[k].count)
      BY <3>1 DEF ChatInv, Current, h
    <3>3. Uses(d, entries[k].conversationId) /\ entries[k].conversationId \in DOMAIN conversations
      BY <3>1 DEF Uses, LastOf, AskedInv
    <3>4. conversations'[entries[k].conversationId] = conversations[entries[k].conversationId]
      BY <3>3 DEF Leave
    <3> QED
      BY <3>1, <3>2, <3>4
  <2>3. asked'[d] # NoRequest =>
          \A i \in DOMAIN entries' : Of(d, entries'[i]) => entries'[i].count < Len(history'[d])
    <3> SUFFICES ASSUME asked[d] # NoRequest, NEW i \in DOMAIN entries', Of(d, entries'[i])
                 PROVE  entries'[i].count < Len(h)
      BY <1>2
    <3>1. PICK k \in DOMAIN entries : entries[k] = entries'[i]
      BY <1>3
    <3> QED
      BY <3>1 DEF ChatInv, h
  <2> QED
    BY <1>2, <1>3, <2>1, <2>2, <2>3 DEF ChatInv, OwnWords
<1>6. Alone(d)'
  <2> SUFFICES ASSUME NEW id \in DOMAIN conversations', Uses(d, id)'
               PROVE  /\ \A e \in Clients \ {d} :
                           asked'[e] # NoRequest => asked'[e].conversationId # id
                      /\ \A i \in DOMAIN entries' :
                           ~Of(d, entries'[i]) => entries'[i].conversationId # id
    BY DEF Alone
  <2>1. Uses(d, id)
    BY <1>4
  <2>2. id \in 1..Len(conversations')
    BY DEF Leave
  <2>3. id # 0
    BY <2>2
  <2>4. id \in DOMAIN conversations
    BY <2>1, <2>3, UsedExist
  <2>5. ASSUME NEW e \in Clients \ {d}, asked'[e] # NoRequest, asked'[e].conversationId = id
        PROVE  FALSE
    BY <2>1, <2>3, <2>4, <2>5 DEF Leave, Alone
  <2>6. ASSUME NEW i \in DOMAIN entries', ~Of(d, entries'[i]), entries'[i].conversationId = id
        PROVE  FALSE
    <3>1. PICK k \in DOMAIN entries : entries[k] = entries'[i]
      BY <1>3, <2>1, <2>6
    <3> QED
      BY <2>1, <2>4, <2>6, <3>1 DEF Alone
  <2> QED
    BY <2>5, <2>6
<1>7. PromptInv(d)'
  <2> SUFFICES ASSUME asked[d] # NoRequest
               PROVE  /\ ~asked[d].explicit
                      /\ asked[d].conversationId = 0 =>
                           /\ asked[d].prompt = h
                           /\ \A i \in DOMAIN entries' : ~Of(d, entries'[i])
                      /\ asked[d].conversationId # 0 =>
                           conversations'[asked[d].conversationId] \o asked[d].prompt = h
    BY <1>2 DEF PromptInv
  <2>1. ~asked[d].explicit /\ (asked[d].conversationId = 0 => asked[d].prompt = h)
    BY DEF PromptInv, h
  <2>2. asked[d].conversationId = 0 => \A i \in DOMAIN entries' : ~Of(d, entries'[i])
    BY <1>3 DEF PromptInv
  <2>3. ASSUME asked[d].conversationId # 0
        PROVE  conversations'[asked[d].conversationId] \o asked[d].prompt = h
    <3>1. Uses(d, asked[d].conversationId)
      BY DEF Uses
    <3>2. asked[d].conversationId \in DOMAIN conversations
      BY <2>3, <3>1, UsedExist
    <3>3. conversations'[asked[d].conversationId] = conversations[asked[d].conversationId]
      BY <3>1, <3>2 DEF Leave
    <3> QED
      BY <2>3, <3>3 DEF PromptInv, h
  <2> QED
    BY <2>1, <2>2, <2>3
<1> QED
  BY <1>5, <1>6, <1>7
-------------------------------------------------------------------------------
(* The steps.  First the types, the ids and the LRU order. *)
LEMMA BaseInit ==
  ASSUME Init  PROVE BaseInv
<1>1. TypeOK
  BY EmptySeq DEF Init, TypeOK, NoRequest, Request
<1>2. DOMAIN entries = {} /\ Len(entries) = 0 /\ Len(conversations) = 0
  BY DEF Init
<1>3. AskedInv
  BY <1>2 DEF Init, AskedInv, NoRequest
<1>4. OrderInv
  BY <1>2, CapacityAssumption DEF Init, OrderInv
<1> QED
  BY <1>1, <1>3, <1>4 DEF BaseInv

(* The store after a hit holds the entries it held. *)
LEMMA HitFacts ==
  ASSUME BaseInv, NEW c \in Clients, NEW sent \in Histories[c], NEW x, Hit(c, sent, x)
  PROVE  /\ \E k \in Matches(entries, sent) : k \in DOMAIN entries /\ x = entries[k]
         /\ x.conversationId \in DOMAIN conversations
         /\ entries' \in Seq(Entry) /\ Unique(entries')
         /\ \A i \in DOMAIN entries' : \E k \in DOMAIN entries : entries[k] = entries'[i]
<1> DEFINE new == entries'
<1>1. entries \in Seq(Entry) /\ Unique(entries) /\ x \in Entry /\ MovesTo(entries, new, x)
  BY DEF BaseInv, TypeOK, OrderInv, Unique, Hit
<1>2. \E k \in Matches(entries, sent) : k \in DOMAIN entries /\ x = entries[k]
  BY DEF Hit, Matches
<1> HIDE DEF new
<1>3. /\ new \in Seq(Entry) /\ Unique(new)
      /\ \A i \in DOMAIN new : new[i] = x \/ \E k \in DOMAIN entries : entries[k] = new[i]
  BY <1>1, MovesKeep
<1>4. x.conversationId \in DOMAIN conversations
  BY <1>2 DEF BaseInv, AskedInv
<1> QED
  BY <1>2, <1>3, <1>4 DEF new

LEMMA AskBase ==
  ASSUME BaseInv, NEW c \in Clients, Ask(c)
  PROVE  BaseInv'
<1>1. PICK sent \in Histories[c] :
         /\ Arrive(c, sent)
         /\ history' = [history EXCEPT ![c] = sent]
         /\ linear' = [linear EXCEPT ![c] = linear[c] /\ Continues(c, sent)]
  BY DEF Ask
<1>2. sent \in Seq(Messages) /\ sent # <<>>
  BY SentFacts
<1>3. requests' = requests + 1 /\ conversations' = conversations /\ faithful' = faithful
  BY DEF Ask
<1>4. Miss(c, sent) \/ \E x : Hit(c, sent, x)
  BY <1>1, ArriveFacts DEF BaseInv
<1>5. /\ Len(conversations) \in Nat /\ DOMAIN conversations = 1..Len(conversations)
      /\ Len(entries) \in Nat /\ DOMAIN entries = 1..Len(entries)
  BY LenProperties DEF BaseInv, TypeOK
<1>6. history' \in [Clients -> Seq(Messages)] /\ linear' \in [Clients -> BOOLEAN]
  BY <1>1, <1>2, Zenon DEF BaseInv, TypeOK, Continues
<1>7. ASSUME NEW request \in Request, asked' = [asked EXCEPT ![c] = request],
             request.conversationId \in 0..Len(conversations),
             \A i \in DOMAIN entries' : \E k \in DOMAIN entries : entries[k] = entries'[i]
      PROVE  AskedInv' /\ asked' \in [Clients -> Request]
  <2>1. asked' \in [Clients -> Request]
    BY <1>7 DEF BaseInv, TypeOK
  <2>2. \A d \in Clients : history'[d] # <<>> => history'[d] \in Histories[d]
    BY <1>1 DEF BaseInv, TypeOK, AskedInv
  <2>3. \A d \in Clients : asked'[d] # NoRequest => history'[d] # <<>>
    BY <1>1, <1>2, <1>7 DEF BaseInv, TypeOK, AskedInv
  <2>4. \A d \in Clients : asked'[d].conversationId \in 0..Len(conversations')
    BY <1>3, <1>7 DEF BaseInv, TypeOK, AskedInv
  <2>5. \A i \in DOMAIN entries' : entries'[i].conversationId \in DOMAIN conversations'
    BY <1>3, <1>7 DEF BaseInv, AskedInv
  <2>6. \A d \in Clients : history[d] # <<>> => history'[d] # <<>>
    BY <1>1, <1>2 DEF BaseInv, TypeOK
  <2>7. \A i \in DOMAIN entries' :
          \E d \in Clients : history'[d] # <<>> /\ entries'[i].fingerprint \subseteq Written(d)
    BY <1>7, <2>6 DEF BaseInv, AskedInv
  <2> QED
    BY <2>1, <2>2, <2>3, <2>4, <2>5, <2>7 DEF AskedInv
<1>8. CASE Miss(c, sent)
  <2> DEFINE request == [conversationId |-> 0, prompt |-> sent, explicit |-> FALSE]
  <2>1. request \in Request /\ request.conversationId \in 0..Len(conversations)
    BY <1>2, <1>5 DEF Request
  <2>2. asked' = [asked EXCEPT ![c] = request] /\ entries' = entries /\ lastUsed' = lastUsed
    BY <1>8 DEF Miss
  <2> HIDE DEF request
  <2>3. AskedInv' /\ asked' \in [Clients -> Request]
    BY <1>7, <2>1, <2>2
  <2>4. TypeOK'
    BY <1>3, <1>6, <2>2, <2>3 DEF BaseInv, TypeOK
  <2>5. \A f \in SUBSET Messages : lastUsed'[f] <= 2 * requests' + 2
    <3> TAKE f \in SUBSET Messages
    <3>1. requests \in Nat /\ lastUsed[f] \in Nat /\ lastUsed[f] <= 2 * requests + 2
      BY DEF BaseInv, OrderInv, TypeOK
    <3>2. lastUsed'[f] = lastUsed[f]
      BY <2>2
    <3> QED
      BY <1>3, <3>1, <3>2
  <2>6. OrderInv'
    BY <2>2, <2>5 DEF BaseInv, OrderInv
  <2> QED
    BY <2>3, <2>4, <2>6 DEF BaseInv
<1>9. ASSUME NEW x, Hit(c, sent, x)  PROVE BaseInv'
  <2>1. /\ x.conversationId \in DOMAIN conversations /\ entries' \in Seq(Entry) /\ Unique(entries')
        /\ \A i \in DOMAIN entries' : \E k \in DOMAIN entries : entries[k] = entries'[i]
    BY <1>9, HitFacts
  <2>2. x \in Entry /\ x.count \in Nat /\ x.fingerprint \in SUBSET Messages
    BY <1>9 DEF Hit, Entry
  <2> DEFINE request == [conversationId |-> x.conversationId, prompt |-> Prompt(sent, x.count),
                         explicit |-> FALSE]
  <2>3. Prompt(sent, x.count) \in Seq(Messages)
    BY <1>2, <2>2, PromptFacts
  <2>4. request \in Request /\ request.conversationId \in 0..Len(conversations)
    BY <1>5, <2>1, <2>3 DEF Request
  <2>5. asked' = [asked EXCEPT ![c] = request]
    BY <1>9 DEF Hit
  <2> HIDE DEF request
  <2>6. AskedInv' /\ asked' \in [Clients -> Request]
    BY <1>7, <2>1, <2>4, <2>5
  <2>7. lastUsed' = [lastUsed EXCEPT ![x.fingerprint] = 2 * requests + 3]
    BY <1>9 DEF Hit
  <2>8. requests \in Nat /\ lastUsed \in [SUBSET Messages -> Nat]
        /\ \A f \in SUBSET Messages : lastUsed[f] <= 2 * requests + 2
    BY DEF BaseInv, TypeOK, OrderInv
  <2> DEFINE t == 2 * requests + 3
  <2>9. t \in Nat /\ \A f \in SUBSET Messages : lastUsed[f] <= t
    <3>1. \A f \in SUBSET Messages : lastUsed[f] \in Nat
      BY <2>8
    <3> QED
      BY <2>8, <3>1
  <2>10. lastUsed' = [lastUsed EXCEPT ![x.fingerprint] = t]
    BY <2>7
  <2>11. lastUsed' \in [SUBSET Messages -> Nat] /\ \A f \in SUBSET Messages : lastUsed'[f] <= t
    <3> HIDE DEF t
    <3> QED
      BY <2>2, <2>8, <2>9, <2>10
  <2>12. TypeOK'
    BY <1>3, <1>6, <2>1, <2>6, <2>11 DEF BaseInv, TypeOK
  <2>13. \A f \in SUBSET Messages : lastUsed'[f] <= 2 * requests' + 2
    <3> DEFINE bound == 2 * requests' + 2
    <3>1. t <= bound /\ bound \in Nat
      BY <1>3, <2>8
    <3>2. \A f \in SUBSET Messages : lastUsed'[f] \in Nat /\ lastUsed'[f] <= t
      BY <2>11
    <3> HIDE DEF t, bound
    <3>3. \A f \in SUBSET Messages : lastUsed'[f] <= bound
      BY <2>9, <3>1, <3>2
    <3> QED
      BY <3>3 DEF bound
  <2>14. Ordered(entries', lastUsed')
    <3> DEFINE new == entries'
    <3>1. /\ entries \in Seq(Entry) /\ Unique(entries) /\ Ordered(entries, lastUsed)
          /\ MovesTo(entries, new, x)
      BY <1>9 DEF BaseInv, TypeOK, OrderInv, Unique, Ordered, Hit
    <3> HIDE DEF t, new
    <3>2. Ordered(new, [lastUsed EXCEPT ![x.fingerprint] = t])
      BY <2>2, <2>8, <2>9, <3>1, MovesOrder
    <3> QED
      BY <2>10, <3>2 DEF new
  <2>15. Len(entries') <= Capacity
    <3>1. Len(entries') <= Len(entries) /\ Len(entries) <= Capacity /\ Len(entries') \in Nat
      BY <1>9, <2>1, LenProperties DEF Hit, BaseInv, OrderInv
    <3> QED
      BY <1>5, <3>1, CapacityAssumption
  <2>16. OrderInv'
    BY <2>1, <2>13, <2>14, <2>15 DEF OrderInv, Unique, Ordered
  <2> QED
    BY <2>6, <2>12, <2>16 DEF BaseInv
<1> QED
  BY <1>4, <1>8, <1>9
(* A request: the chat's own, which is continued, and those of the others. *)
LEMMA AskOthers ==
  ASSUME BaseInv, LinearInv, NEW c \in Clients, NEW sent \in Histories[c], Arrive(c, sent),
         history' = [history EXCEPT ![c] = sent], conversations' = conversations,
         NEW d \in Clients \ {c}, linear[d], history[d] # <<>>
  PROVE  Leave(d)
<1>1. ChatInv(d) /\ Alone(d) /\ OwnWords(d)
  BY DEF LinearInv, ChatInv
<1>2. history'[d] = history[d]
  BY DEF BaseInv, TypeOK
<1>3. DOMAIN conversations' = 1..Len(conversations')
  <2>1. DOMAIN conversations = 1..Len(conversations)
    BY LenProperties DEF BaseInv, TypeOK
  <2> QED
    BY <2>1
<1>4. CASE Miss(c, sent)
  <2>1. entries' = entries /\ \A e \in Clients : asked'[e] = asked[e] \/ asked'[e].conversationId = 0
    BY <1>4 DEF Miss, BaseInv, TypeOK
  <2>2. asked'[d] = asked[d]
    BY <1>4 DEF Miss, BaseInv, TypeOK
  <2> QED
    BY <1>2, <1>3, <2>1, <2>2 DEF Leave
<1>5. ASSUME NEW x, Hit(c, sent, x)  PROVE Leave(d)
  <2>1. PICK k \in Matches(entries, sent) : k \in DOMAIN entries /\ x = entries[k]
    BY <1>5, HitFacts
  <2>2. ~Of(d, x)
    BY <1>1, <2>1, MatchWithin DEF BaseInv
  <2>3. x.conversationId \in DOMAIN conversations
    BY <1>5, HitFacts
  <2>4. ~Uses(d, x.conversationId)
    BY <1>1, <2>1, <2>2, <2>3 DEF Alone
  <2>5. x \in Entry /\ MovesTo(entries, entries', x)
    BY <1>5 DEF Hit
  <2>6. asked'[d] = asked[d]
    BY <1>5 DEF Hit, BaseInv, TypeOK
  <2>7. \A e \in Clients : asked'[e] = asked[e] \/ asked'[e].conversationId = x.conversationId
    BY <1>5 DEF Hit, BaseInv, TypeOK
  <2> QED
    BY <1>2, <1>3, <2>2, <2>4, <2>5, <2>6, <2>7 DEF Leave
<1> QED
  BY <1>4, <1>5, ArriveFacts DEF BaseInv

LEMMA AskOwn ==
  ASSUME BaseInv, LinearInv, NEW c \in Clients, linear[c], NEW sent \in Histories[c],
         Arrive(c, sent), Continues(c, sent),
         history' = [history EXCEPT ![c] = sent], conversations' = conversations
  PROVE  ChatInv(c)' /\ Alone(c)' /\ PromptInv(c)'
<1>1. Ready(c, sent)
  BY ContinuesReady DEF BaseInv
<1>2. history'[c] = sent /\ sent \in Seq(Messages) /\ Len(sent) \in Nat
  BY SentFacts DEF BaseInv, TypeOK
<1>3. Matches(entries, sent) = {i \in DOMAIN entries : Of(c, entries[i])}
  BY <1>1, ReadyMatches DEF BaseInv
<1>4. DOMAIN conversations = 1..Len(conversations)
  BY LenProperties DEF BaseInv, TypeOK
<1>5. CASE Miss(c, sent)
  <2>1. \A i \in DOMAIN entries : ~Of(c, entries[i])
    BY <1>3, <1>5 DEF Miss
  <2>2. /\ entries' = entries
        /\ asked'[c] = [conversationId |-> 0, prompt |-> sent, explicit |-> FALSE]
    BY <1>5 DEF Miss, BaseInv, TypeOK
  <2>3. ChatInv(c)'
    BY <1>1, <1>2, <2>1, <2>2 DEF ChatInv, Ready, OwnWords
  <2>4. \A id \in DOMAIN conversations : ~Uses(c, id)'
    BY <1>4, <2>1, <2>2 DEF Uses
  <2>5. Alone(c)'
    BY <2>4 DEF Alone
  <2>6. PromptInv(c)'
    BY <1>2, <2>1, <2>2 DEF PromptInv
  <2> QED
    BY <2>3, <2>5, <2>6
<1>6. ASSUME NEW x, Hit(c, sent, x)  PROVE ChatInv(c)' /\ Alone(c)' /\ PromptInv(c)'
  <2>1. /\ x \in Entry /\ Of(c, x) /\ x.count < Len(sent)
        /\ x.fingerprint = ToSet(Prefix(sent, x.count))
        /\ \A k \in DOMAIN entries : Of(c, entries[k]) /\ entries[k].fingerprint # x.fingerprint =>
             entries[k].count < x.count
        /\ conversations[x.conversationId] = Prefix(sent, x.count)
        /\ conversations[x.conversationId] \o Prompt(sent, x.count) = sent
    <3>1. Matches(entries, sent) # {} /\ x = entries[Best(entries, sent)] /\ TypeOK
      BY <1>6 DEF BaseInv, Hit
    <3> QED
      BY <1>1, <3>1, ReadyHit
  <2>2. x.count \in Nat /\ x.conversationId \in Nat \ {0}
    BY <2>1 DEF Entry
  <2>3. /\ asked'[c] = [conversationId |-> x.conversationId, prompt |-> Prompt(sent, x.count),
                        explicit |-> FALSE]
        /\ \A d \in Clients \ {c} : asked'[d] = asked[d]
    BY <1>6 DEF Hit, BaseInv, TypeOK
  <2>4. \A i \in DOMAIN entries' : \E k \in DOMAIN entries : entries[k] = entries'[i]
    BY <1>6, HitFacts
  <2>5. /\ ArePrefixes(c, entries', sent) /\ Growing(c, entries')
        /\ \A i \in DOMAIN entries' : LastOf(c, entries', i) => entries'[i] = x
    <3> DEFINE new == entries'
    <3>1. /\ entries \in Seq(Entry) /\ Unique(entries) /\ MovesTo(entries, new, x)
          /\ ArePrefixes(c, entries, sent) /\ Growing(c, entries) /\ x.count <= Len(sent)
      BY <1>1, <1>2, <1>6, <2>1, <2>2 DEF BaseInv, TypeOK, OrderInv, Unique, Hit, Ready
    <3> HIDE DEF new
    <3>2. /\ ArePrefixes(c, new, sent) /\ Growing(c, new)
          /\ \A i \in DOMAIN new : LastOf(c, new, i) => new[i] = x
      BY <1>2, <2>1, <3>1, OwnMove
    <3> QED
      BY <3>2 DEF new
  <2>6. ChatInv(c)'
    <3>1. Current(c, entries', sent, conversations')
      BY <2>1, <2>5 DEF Current
    <3>2. \A i \in DOMAIN entries' : Of(c, entries'[i]) => entries'[i].count < Len(sent)
      BY <1>1, <2>4 DEF Ready
    <3> QED
      BY <1>1, <1>2, <2>5, <3>1, <3>2 DEF ChatInv, Ready, OwnWords
  <2>7. ASSUME NEW id, Uses(c, id)'
        PROVE  \E k \in DOMAIN entries : Of(c, entries[k]) /\ entries[k].conversationId = id
    <3>1. CASE \E i \in DOMAIN entries' : Of(c, entries'[i]) /\ entries'[i].conversationId = id
      BY <2>4, <3>1
    <3>2. CASE asked'[c] # NoRequest /\ asked'[c].conversationId = id
      <4>1. PICK k \in Matches(entries, sent) : k \in DOMAIN entries /\ x = entries[k]
        BY <1>6, HitFacts
      <4>2. id = x.conversationId
        BY <2>3, <3>2
      <4> QED
        BY <2>1, <4>1, <4>2
    <3> QED
      BY <2>7, <3>1, <3>2 DEF Uses
  <2>8. Alone(c)'
    <3> SUFFICES ASSUME NEW id \in DOMAIN conversations, Uses(c, id)'
                 PROVE  /\ \A d \in Clients \ {c} :
                             asked'[d] # NoRequest => asked'[d].conversationId # id
                        /\ \A i \in DOMAIN entries' :
                             ~Of(c, entries'[i]) => entries'[i].conversationId # id
      BY DEF Alone
    <3>1. PICK k \in DOMAIN entries : Of(c, entries[k]) /\ entries[k].conversationId = id
      BY <2>7
    <3>2. history[c] # <<>>
      BY <1>1, <3>1, NoEntryYet DEF BaseInv, Ready
    <3>3. Alone(c) /\ Uses(c, id)
      BY <3>1, <3>2 DEF LinearInv, Uses
    <3> QED
      BY <2>3, <2>4, <3>3 DEF Alone
  <2>9. PromptInv(c)'
    <3>1. /\ asked'[c].conversationId = x.conversationId /\ asked'[c].conversationId # 0
          /\ asked'[c].prompt = Prompt(sent, x.count) /\ ~asked'[c].explicit
      BY <2>2, <2>3
    <3>2. conversations'[asked'[c].conversationId] \o asked'[c].prompt = history'[c]
      BY <1>2, <2>1, <3>1
    <3> QED
      BY <3>1, <3>2 DEF PromptInv
  <2> QED
    BY <2>6, <2>8, <2>9
<1> QED
  BY <1>5, <1>6, ArriveFacts DEF BaseInv

LEMMA AskLinear ==
  ASSUME BaseInv, LinearInv, NEW c \in Clients, Ask(c)
  PROVE  LinearInv'
<1>1. PICK sent \in Histories[c] :
         /\ Arrive(c, sent)
         /\ history' = [history EXCEPT ![c] = sent]
         /\ linear' = [linear EXCEPT ![c] = linear[c] /\ Continues(c, sent)]
  BY DEF Ask
<1>2. conversations' = conversations /\ faithful' = faithful
  BY DEF Ask
<1> SUFFICES ASSUME NEW d \in Clients, linear'[d]
             PROVE  /\ faithful'[d]
                    /\ history'[d] # <<>> => (ChatInv(d) /\ Alone(d) /\ PromptInv(d))'
  BY DEF LinearInv
<1>3. linear[d] /\ (d = c => Continues(c, sent))
  BY <1>1, Zenon DEF BaseInv, TypeOK
<1>4. faithful'[d]
  BY <1>2, <1>3 DEF LinearInv
<1>5. CASE d = c
  <2>1. ChatInv(c)' /\ Alone(c)' /\ PromptInv(c)'
    BY <1>1, <1>2, <1>3, <1>5, AskOwn
  <2> QED
    BY <1>4, <1>5, <2>1
<1>6. CASE d # c
  <2>1. ASSUME history'[d] # <<>>
        PROVE  (ChatInv(d) /\ Alone(d) /\ PromptInv(d))'
    <3>1. history[d] # <<>>
      BY <1>1, <1>6, <2>1 DEF BaseInv, TypeOK
    <3>2. Leave(d)
      BY <1>1, <1>2, <1>3, <1>6, <3>1, AskOthers
    <3>3. ChatInv(d) /\ Alone(d) /\ PromptInv(d)
      BY <1>3, <3>1 DEF LinearInv
    <3> QED
      BY <3>2, <3>3, OtherChat DEF BaseInv
  <2> QED
    BY <1>4, <2>1
<1> QED
  BY <1>5, <1>6
(* A request that names its conversation: no chat is linear any more. *)
LEMMA AskExplicitStep ==
  ASSUME BaseInv, LinearInv, NEW c \in Clients, AskExplicit(c)
  PROVE  BaseInv' /\ LinearInv'
<1>1. PICK sent \in Histories[c], id \in DOMAIN conversations :
         /\ asked' = [asked EXCEPT ![c] = [conversationId |-> id, prompt |-> sent,
                                         explicit |-> TRUE]]
         /\ history' = [history EXCEPT ![c] = sent]
  BY DEF AskExplicit
<1>2. sent \in Seq(Messages) /\ sent # <<>>
  BY SentFacts
<1>3. /\ linear' = [d \in Clients |-> FALSE] /\ requests' = requests + 1
      /\ UNCHANGED <<entries, conversations, faithful, lastUsed>>
  BY DEF AskExplicit
<1>4. Len(conversations) \in Nat /\ DOMAIN conversations = 1..Len(conversations)
  BY LenProperties DEF BaseInv, TypeOK
<1> DEFINE request == [conversationId |-> id, prompt |-> sent, explicit |-> TRUE]
<1>5. request \in Request /\ request.conversationId \in 0..Len(conversations)
  BY <1>2, <1>4 DEF Request
<1>6. asked' = [asked EXCEPT ![c] = request]
  BY <1>1
<1> HIDE DEF request
<1>7. history' \in [Clients -> Seq(Messages)] /\ asked' \in [Clients -> Request]
  BY <1>1, <1>2, <1>5, <1>6 DEF BaseInv, TypeOK
<1>8. TypeOK'
  BY <1>3, <1>7 DEF BaseInv, TypeOK
<1>9. AskedInv'
  <2>1. \A d \in Clients : history'[d] # <<>> => history'[d] \in Histories[d]
    BY <1>1 DEF BaseInv, TypeOK, AskedInv
  <2>2. \A d \in Clients : asked'[d] # NoRequest => history'[d] # <<>>
    BY <1>1, <1>2, <1>6 DEF BaseInv, TypeOK, AskedInv
  <2>3. \A d \in Clients : asked'[d].conversationId \in 0..Len(conversations')
    BY <1>3, <1>5, <1>6 DEF BaseInv, TypeOK, AskedInv
  <2>4. \A d \in Clients : history[d] # <<>> => history'[d] # <<>>
    BY <1>1, <1>2 DEF BaseInv, TypeOK
  <2> QED
    BY <1>3, <2>1, <2>2, <2>3, <2>4 DEF AskedInv, BaseInv
<1>10. OrderInv'
  <2>1. ASSUME NEW f \in SUBSET Messages  PROVE lastUsed'[f] <= 2 * requests' + 2
    <3>1. requests \in Nat /\ lastUsed[f] \in Nat /\ lastUsed[f] <= 2 * requests + 2
      BY DEF BaseInv, OrderInv, TypeOK
    <3> QED
      BY <1>3, <3>1
  <2> QED
    BY <1>3, <2>1 DEF BaseInv, OrderInv
<1>11. LinearInv'
  BY <1>3 DEF LinearInv
<1> QED
  BY <1>8, <1>9, <1>10, <1>11 DEF BaseInv

-------------------------------------------------------------------------------
(* What agy takes of a request concerns no other linear chat, and of a linear chat only
   the conversation of its request. *)
LEMMA TakenElsewhere ==
  ASSUME BaseInv, NEW c \in Clients, asked[c] # NoRequest,
         NEW d \in Clients, Alone(d), d # c \/ asked[c].conversationId = 0,
         NEW id \in DOMAIN conversations, Uses(d, id)
  PROVE  Taken(c)[id] = conversations[id]
<1>1. id # asked[c].conversationId
  <2>1. CASE d # c
    BY <2>1 DEF Alone
  <2>2. CASE asked[c].conversationId = 0
    <3>1. id \in 1..Len(conversations)
      BY TakenFacts DEF BaseInv
    <3> QED
      BY <2>2, <3>1
  <2> QED
    BY <2>1, <2>2
<1> QED
  BY <1>1, TakenFacts DEF BaseInv

(* Retries, failures and answers without a name: agy takes the prompt or does not, and the request stays or goes. *)
LEMMA RunBase ==
  ASSUME BaseInv, NEW c \in Clients, asked[c] # NoRequest,
         conversations' \in {conversations, Taken(c)},
         UNCHANGED <<entries, history, lastUsed>>, faithful' \in [Clients -> BOOLEAN],
         asked' \in {asked, [asked EXCEPT ![c] = NoRequest]},
         requests' \in {requests, requests + 1},
         linear' \in [Clients -> BOOLEAN]
  PROVE  BaseInv'
<1>1. /\ conversations' \in Seq(Seq(Messages)) /\ DOMAIN conversations \subseteq DOMAIN conversations'
      /\ Len(conversations) <= Len(conversations')
      /\ Len(conversations) \in Nat /\ Len(conversations') \in Nat
  <2>1. /\ Taken(c) \in Seq(Seq(Messages)) /\ DOMAIN conversations = 1..Len(conversations)
        /\ DOMAIN Taken(c) = 1..Len(Taken(c)) /\ Len(conversations) <= Len(Taken(c))
        /\ Len(conversations) \in Nat /\ Len(Taken(c)) \in Nat
    BY TakenFacts DEF BaseInv
  <2>2. DOMAIN conversations \subseteq DOMAIN Taken(c)
    BY <2>1
  <2>3. CASE conversations' = conversations
    BY <2>1, <2>3 DEF BaseInv, TypeOK
  <2>4. CASE conversations' = Taken(c)
    BY <2>1, <2>2, <2>4
  <2> QED
    BY <2>3, <2>4
<1>2. asked' \in [Clients -> Request] /\ \A d \in Clients : asked'[d] = asked[d] \/ asked'[d] = NoRequest
  <2>1. NoRequest \in Request
    BY EmptySeq DEF NoRequest, Request
  <2> QED
    BY <2>1 DEF BaseInv, TypeOK
<1>3. TypeOK'
  BY <1>1, <1>2 DEF BaseInv, TypeOK
<1>4. AskedInv'
  <2>1. \A d \in Clients : asked'[d].conversationId \in 0..Len(conversations')
    <3> TAKE d \in Clients
    <3>1. asked[d].conversationId \in 0..Len(conversations) /\ NoRequest.conversationId = 0
      BY DEF BaseInv, AskedInv, NoRequest
    <3> QED
      BY <1>1, <1>2, <3>1
  <2>2. \A d \in Clients : asked'[d] # NoRequest => history'[d] # <<>>
    BY <1>2 DEF BaseInv, AskedInv
  <2> QED
    BY <1>1, <2>1, <2>2 DEF BaseInv, AskedInv
<1>5. OrderInv'
  <2>1. ASSUME NEW f \in SUBSET Messages  PROVE lastUsed'[f] <= 2 * requests' + 2
    <3>1. requests \in Nat /\ lastUsed[f] \in Nat /\ lastUsed[f] <= 2 * requests + 2
      BY DEF BaseInv, OrderInv, TypeOK
    <3> QED
      BY <3>1
  <2> QED
    BY <2>1 DEF BaseInv, OrderInv
<1> QED
  BY <1>3, <1>4, <1>5 DEF BaseInv

LEMMA RunLeaves ==
  ASSUME BaseInv, NEW c \in Clients, asked[c] # NoRequest,
         conversations' \in {conversations, Taken(c)},
         UNCHANGED <<entries, history>>,
         asked' \in {asked, [asked EXCEPT ![c] = NoRequest]},
         NEW d \in Clients, Alone(d), asked'[d] = asked[d], d # c \/ asked[c].conversationId = 0
  PROVE  Leave(d)
<1>1. DOMAIN conversations' = 1..Len(conversations')
  BY TakenFacts DEF BaseInv
<1>2. \A id \in DOMAIN conversations : Uses(d, id) => conversations'[id] = conversations[id]
  BY TakenElsewhere
<1>3. \A e \in Clients : asked'[e] = asked[e] \/ asked'[e].conversationId = 0
  BY DEF BaseInv, TypeOK, NoRequest
<1> QED
  BY <1>1, <1>2, <1>3 DEF Leave

LEMMA RetryStep ==
  ASSUME BaseInv, LinearInv, NEW c \in Clients, Retry(c)
  PROVE  BaseInv' /\ LinearInv'
<1>1. /\ asked[c] # NoRequest /\ conversations' \in {conversations, Taken(c)}
      /\ linear' = [linear EXCEPT ![c] = linear[c] /\ asked[c].conversationId = 0]
      /\ UNCHANGED <<entries, history, asked, faithful, lastUsed>> /\ requests' = requests + 1
  BY DEF Retry
<1>2. linear' \in [Clients -> BOOLEAN] /\ faithful' \in [Clients -> BOOLEAN]
  BY <1>1, Zenon DEF BaseInv, TypeOK
<1>3. BaseInv'
  BY <1>1, <1>2, RunBase
<1>4. ASSUME NEW d \in Clients, linear'[d]
      PROVE  /\ faithful'[d]
             /\ history'[d] # <<>> => (ChatInv(d) /\ Alone(d) /\ PromptInv(d))'
  <2>1. linear[d] /\ (d # c \/ asked[c].conversationId = 0)
    BY <1>1, <1>4, Zenon DEF BaseInv, TypeOK
  <2>2. faithful'[d] /\ (history'[d] # <<>> => ChatInv(d) /\ Alone(d) /\ PromptInv(d))
    BY <1>1, <2>1 DEF LinearInv
  <2>3. ASSUME history'[d] # <<>>  PROVE (ChatInv(d) /\ Alone(d) /\ PromptInv(d))'
    <3>1. Leave(d)
      BY <1>1, <2>1, <2>2, <2>3, RunLeaves
    <3> QED
      BY <2>2, <2>3, <3>1, OtherChat DEF BaseInv
  <2> QED
    BY <2>2, <2>3
<1>5. LinearInv'
  BY <1>4 DEF LinearInv
<1> QED
  BY <1>3, <1>5

LEMMA FailStep ==
  ASSUME BaseInv, LinearInv, NEW c \in Clients, Fail(c)
  PROVE  BaseInv' /\ LinearInv'
<1>1. /\ asked[c] # NoRequest /\ conversations' \in {conversations, Taken(c)}
      /\ linear' = [linear EXCEPT ![c] = FALSE] /\ asked' = [asked EXCEPT ![c] = NoRequest]
      /\ UNCHANGED <<entries, history, requests, faithful, lastUsed>>
  BY DEF Fail
<1>2. linear' \in [Clients -> BOOLEAN] /\ faithful' \in [Clients -> BOOLEAN]
  BY <1>1 DEF BaseInv, TypeOK
<1>3. BaseInv'
  BY <1>1, <1>2, RunBase
<1>4. ASSUME NEW d \in Clients, linear'[d]
      PROVE  /\ faithful'[d]
             /\ history'[d] # <<>> => (ChatInv(d) /\ Alone(d) /\ PromptInv(d))'
  <2>1. linear[d] /\ d # c
    BY <1>1, <1>4 DEF BaseInv, TypeOK
  <2>2. faithful'[d] /\ (history'[d] # <<>> => ChatInv(d) /\ Alone(d) /\ PromptInv(d))
    BY <1>1, <2>1 DEF LinearInv
  <2>3. ASSUME history'[d] # <<>>  PROVE (ChatInv(d) /\ Alone(d) /\ PromptInv(d))'
    <3>1. asked'[d] = asked[d]
      BY <1>1, <2>1 DEF BaseInv, TypeOK
    <3>2. Leave(d)
      BY <1>1, <2>1, <2>2, <2>3, <3>1, RunLeaves
    <3> QED
      BY <2>2, <2>3, <3>2, OtherChat DEF BaseInv
  <2> QED
    BY <2>2, <2>3
<1>5. LinearInv'
  BY <1>4 DEF LinearInv
<1> QED
  BY <1>3, <1>5
-------------------------------------------------------------------------------
(* An answer: the history is recorded under the conversation. *)
LEMMA AnswerFacts ==
  ASSUME BaseInv, NEW c \in Clients, Answer(c), NEW x, x = Fresh(history[c], Target(c))
  PROVE  /\ history[c] # <<>> /\ history[c] \in Histories[c] /\ history[c] \in Seq(Messages)
         /\ x \in Entry /\ MovesTo(entries, entries', x) /\ Len(entries') <= Capacity
         /\ entries' \in Seq(Entry) /\ Unique(entries')
         /\ \A i \in DOMAIN entries' : entries'[i] = x \/ \E k \in DOMAIN entries : entries[k] = entries'[i]
         /\ x.fingerprint = Fingerprint(history[c]) /\ x.fingerprint \subseteq Written(c)
         /\ x.count = Len(history[c]) /\ x.conversationId = Target(c)
         /\ conversations' = Taken(c) /\ history' = history
         /\ asked' = [asked EXCEPT ![c] = NoRequest]
<1> DEFINE h == history[c]
           new == entries'
<1>1. /\ asked[c] # NoRequest /\ conversations' = Taken(c) /\ history' = history
      /\ new = Recorded(entries, h, Target(c)) /\ asked' = [asked EXCEPT ![c] = NoRequest]
  BY DEF Answer
<1>2. h # <<>> /\ h \in Histories[c]
  BY <1>1 DEF BaseInv, AskedInv
<1>3. h \in Seq(Messages) /\ ToSet(h) \subseteq Written(c)
  BY <1>2, SentFacts
<1>4. Target(c) \in Nat \ {0} /\ entries \in Seq(Entry) /\ Unique(entries)
  BY TakenFacts DEF BaseInv, TypeOK, OrderInv, Unique
<1>5. /\ x.fingerprint = Fingerprint(h) /\ x.count = Len(h) /\ x.conversationId = Target(c)
  BY DEF Fresh
<1>6. x.fingerprint \subseteq Written(c)
  BY <1>3, <1>5, FingerprintFacts
<1>7. x = Fresh(h, Target(c))
  OBVIOUS
<1> HIDE DEF h, new
<1>8. x \in Entry /\ MovesTo(entries, new, x) /\ Len(new) <= Capacity
  BY <1>1, <1>2, <1>3, <1>4, <1>7, RecordedMoves
<1>9. /\ new \in Seq(Entry) /\ Unique(new)
      /\ \A i \in DOMAIN new : new[i] = x \/ \E k \in DOMAIN entries : entries[k] = new[i]
  BY <1>4, <1>8, MovesKeep
<1> QED
  BY <1>1, <1>2, <1>3, <1>5, <1>6, <1>8, <1>9 DEF h, new

LEMMA AnswerBase ==
  ASSUME BaseInv, NEW c \in Clients, Answer(c)
  PROVE  BaseInv'
<1> DEFINE x == Fresh(history[c], Target(c))
<1>1. /\ history[c] # <<>> /\ x \in Entry /\ MovesTo(entries, entries', x) /\ Len(entries') <= Capacity
      /\ entries' \in Seq(Entry) /\ Unique(entries')
      /\ \A i \in DOMAIN entries' : entries'[i] = x \/ \E k \in DOMAIN entries : entries[k] = entries'[i]
      /\ x.fingerprint = Fingerprint(history[c]) /\ x.fingerprint \subseteq Written(c)
      /\ x.conversationId = Target(c)
      /\ conversations' = Taken(c) /\ history' = history
      /\ asked' = [asked EXCEPT ![c] = NoRequest]
  BY AnswerFacts
<1> HIDE DEF x
<1>2. /\ Taken(c) \in Seq(Seq(Messages)) /\ Target(c) \in DOMAIN Taken(c)
      /\ DOMAIN conversations = 1..Len(conversations) /\ DOMAIN Taken(c) = 1..Len(Taken(c))
      /\ Len(conversations) <= Len(Taken(c)) /\ Len(conversations) \in Nat /\ Len(Taken(c)) \in Nat
  BY TakenFacts DEF BaseInv
<1>3. DOMAIN conversations \subseteq DOMAIN conversations'
  BY <1>1, <1>2
<1>4. /\ lastUsed' = [lastUsed EXCEPT ![Fingerprint(history[c])] = 2 * requests + 2]
      /\ requests' = requests /\ linear' = linear
      /\ faithful' = [faithful EXCEPT ![c] = conversations'[Target(c)] = history[c]]
  BY DEF Answer
<1>5. asked' \in [Clients -> Request]
  <2>1. NoRequest \in Request
    BY EmptySeq DEF NoRequest, Request
  <2> QED
    BY <1>1, <2>1 DEF BaseInv, TypeOK
<1>6. faithful' \in [Clients -> BOOLEAN]
  BY <1>4, Zenon DEF BaseInv, TypeOK
<1>7. requests \in Nat /\ lastUsed \in [SUBSET Messages -> Nat]
      /\ \A f \in SUBSET Messages : lastUsed[f] <= 2 * requests + 2
  BY DEF BaseInv, TypeOK, OrderInv
<1> DEFINE t == 2 * requests + 2
<1>8. /\ t \in Nat /\ lastUsed' = [lastUsed EXCEPT ![x.fingerprint] = t] /\ t = 2 * requests' + 2
      /\ \A f \in SUBSET Messages : lastUsed[f] <= t
  BY <1>1, <1>4, <1>7
<1> HIDE DEF t
<1>9. x.fingerprint \in SUBSET Messages
  BY <1>1 DEF Entry
<1>10. lastUsed' \in [SUBSET Messages -> Nat] /\ \A f \in SUBSET Messages : lastUsed'[f] <= t
  BY <1>7, <1>8, <1>9
<1>11. TypeOK'
  BY <1>1, <1>2, <1>4, <1>5, <1>6, <1>10 DEF BaseInv, TypeOK
<1>12. AskedInv'
  <2>1. \A d \in Clients : asked'[d].conversationId \in 0..Len(conversations')
    <3> TAKE d \in Clients
    <3>1. asked[d].conversationId \in 0..Len(conversations) /\ NoRequest.conversationId = 0
      BY DEF BaseInv, AskedInv, NoRequest
    <3>2. asked'[d] = asked[d] \/ asked'[d] = NoRequest
      BY <1>1 DEF BaseInv, TypeOK
    <3> QED
      BY <1>1, <1>2, <3>1, <3>2
  <2>2. \A d \in Clients : asked'[d] # NoRequest => history'[d] # <<>>
    BY <1>1 DEF BaseInv, TypeOK, AskedInv
  <2>3. \A i \in DOMAIN entries' : entries'[i].conversationId \in DOMAIN conversations'
    BY <1>1, <1>2, <1>3 DEF BaseInv, AskedInv
  <2>4. \A i \in DOMAIN entries' :
          \E d \in Clients : history'[d] # <<>> /\ entries'[i].fingerprint \subseteq Written(d)
    BY <1>1 DEF BaseInv, AskedInv
  <2>5. \A d \in Clients : history'[d] # <<>> => history'[d] \in Histories[d]
    BY <1>1 DEF BaseInv, AskedInv
  <2> QED
    BY <2>1, <2>2, <2>3, <2>4, <2>5 DEF AskedInv
<1>13. Ordered(entries', lastUsed')
  <2> DEFINE new == entries'
  <2>1. /\ entries \in Seq(Entry) /\ Unique(entries) /\ Ordered(entries, lastUsed)
        /\ MovesTo(entries, new, x) /\ x \in Entry
    BY <1>1 DEF BaseInv, TypeOK, OrderInv, Unique, Ordered
  <2> HIDE DEF new
  <2>2. Ordered(new, [lastUsed EXCEPT ![x.fingerprint] = t])
    BY <1>7, <1>8, <2>1, MovesOrder
  <2> QED
    BY <1>8, <2>2 DEF new
<1>14. OrderInv'
  BY <1>1, <1>8, <1>10, <1>13 DEF OrderInv, Unique, Ordered
<1> QED
  BY <1>11, <1>12, <1>14 DEF BaseInv

LEMMA AnswerOthers ==
  ASSUME BaseInv, NEW c \in Clients, Answer(c),
         NEW d \in Clients \ {c}, ChatInv(d), Alone(d)
  PROVE  Leave(d)
<1> DEFINE x == Fresh(history[c], Target(c))
<1>1. /\ x \in Entry /\ MovesTo(entries, entries', x)
      /\ x.fingerprint \subseteq Written(c) /\ x.conversationId = Target(c)
      /\ conversations' = Taken(c) /\ history' = history
      /\ asked' = [asked EXCEPT ![c] = NoRequest]
  BY AnswerFacts
<1> HIDE DEF x
<1>2. asked[c] # NoRequest
  BY DEF Answer
<1>3. ~Of(d, x)
  BY <1>1 DEF Of, ChatInv, OwnWords
<1>4. ~Uses(d, Target(c))
  <2> SUFFICES ASSUME Uses(d, Target(c))  PROVE FALSE
    OBVIOUS
  <2>1. Target(c) \in DOMAIN conversations /\ Target(c) # 0
    BY UsedExist, TakenFacts DEF BaseInv
  <2>2. asked[c].conversationId # 0 /\ Target(c) = asked[c].conversationId
    <3>1. Target(c) # Len(conversations) + 1
      BY <2>1, TakenFacts DEF BaseInv
    <3> QED
      BY <3>1, TakenFacts DEF BaseInv
  <2> QED
    BY <1>2, <2>1, <2>2 DEF Alone
<1>5. \A id \in DOMAIN conversations : Uses(d, id) => conversations'[id] = conversations[id]
  BY <1>1, <1>2, TakenElsewhere
<1>6. /\ asked'[d] = asked[d]
      /\ \A e \in Clients : asked'[e] = asked[e] \/ asked'[e].conversationId = 0
  BY <1>1 DEF BaseInv, TypeOK, NoRequest
<1>7. DOMAIN conversations' = 1..Len(conversations')
  BY <1>1, TakenFacts DEF BaseInv
<1> QED
  BY <1>1, <1>3, <1>4, <1>5, <1>6, <1>7 DEF Leave

LEMMA AnswerOwn ==
  ASSUME BaseInv, NEW c \in Clients, Answer(c), ChatInv(c), Alone(c), PromptInv(c)
  PROVE  /\ Taken(c)[Target(c)] = history[c]
         /\ ChatInv(c)' /\ Alone(c)' /\ PromptInv(c)'
<1> DEFINE h == history[c]
           x == Fresh(h, Target(c))
           new == entries'
<1>1. /\ h # <<>> /\ h \in Histories[c] /\ h \in Seq(Messages)
      /\ x \in Entry /\ MovesTo(entries, new, x)
      /\ \A i \in DOMAIN new : new[i] = x \/ \E k \in DOMAIN entries : entries[k] = new[i]
      /\ x.fingerprint = Fingerprint(h) /\ x.fingerprint \subseteq Written(c)
      /\ x.count = Len(h) /\ x.conversationId = Target(c)
      /\ conversations' = Taken(c) /\ history' = history
      /\ asked' = [asked EXCEPT ![c] = NoRequest]
  BY AnswerFacts
<1>2. /\ Distinct(h) /\ ArePrefixes(c, entries, h) /\ Growing(c, entries)
      /\ entries \in Seq(Entry) /\ Unique(entries)
      /\ \A i \in DOMAIN entries : Of(c, entries[i]) => entries[i].count < Len(h)
  BY DEF ChatInv, BaseInv, TypeOK, OrderInv, Unique, Answer
<1>3. asked[c] # NoRequest
  BY DEF Answer
<1>4. Taken(c)[Target(c)] = h
  <2>1. CASE asked[c].conversationId = 0
    BY <1>3, <2>1, TakenFacts DEF BaseInv, PromptInv
  <2>2. CASE asked[c].conversationId # 0
    BY <1>3, <2>2, TakenFacts DEF BaseInv, PromptInv
  <2> QED
    BY <2>1, <2>2
<1> HIDE DEF h, x, new
<1>5. /\ Len(h) \in Nat /\ Prefix(h, Len(h)) = h /\ h[1] \in ToSet(h)
      /\ Fingerprint(h) = ToSet(h) /\ ToSet(h) \subseteq Written(c)
  <2>1. Len(h) \in Nat \ {0} /\ ToSet(h) \subseteq Written(c)
    BY <1>1, SentFacts
  <2>2. 1 \in DOMAIN h
    BY <1>1, <2>1, LenProperties
  <2> QED
    BY <1>1, <1>2, <2>1, <2>2, WholePrefix, FingerprintFacts DEF ToSet
<1>6. Of(c, x)
  BY <1>1, <1>5 DEF Of
<1>7. /\ ArePrefixes(c, new, h) /\ Growing(c, new)
      /\ \A i \in DOMAIN new : LastOf(c, new, i) => new[i] = x
  <2>1. /\ x.count <= Len(h) /\ x.fingerprint = ToSet(Prefix(h, x.count))
        /\ \A k \in DOMAIN entries : Of(c, entries[k]) /\ entries[k].fingerprint # x.fingerprint =>
             entries[k].count < x.count
    BY <1>1, <1>2, <1>5
  <2> QED
    BY <1>1, <1>2, <1>6, <2>1, OwnMove
<1>8. history'[c] = h /\ asked'[c] = NoRequest
      /\ \A d \in Clients \ {c} : asked'[d] = asked[d]
  BY <1>1 DEF BaseInv, TypeOK, h
<1>9. ChatInv(c)'
  <2>1. Current(c, new, h, conversations')
    BY <1>1, <1>4, <1>5, <1>7 DEF Current
  <2> QED
    BY <1>2, <1>7, <1>8, <2>1 DEF ChatInv, OwnWords, new
<1>10. ASSUME NEW id, Uses(c, id)'
       PROVE  id = Target(c) \/ (Uses(c, id) /\ id \in DOMAIN conversations)
  <2>1. PICK i \in DOMAIN new : Of(c, new[i]) /\ new[i].conversationId = id
    BY <1>8, <1>10 DEF Uses, new
  <2>2. CASE new[i] = x
    BY <1>1, <2>1, <2>2
  <2>3. ASSUME NEW k \in DOMAIN entries, entries[k] = new[i]
        PROVE  Uses(c, id) /\ id \in DOMAIN conversations
    BY <2>1, <2>3 DEF Uses, BaseInv, AskedInv
  <2> QED
    BY <1>1, <2>2, <2>3
<1>11. \A i \in DOMAIN new : ~Of(c, new[i]) => \E k \in DOMAIN entries : entries[k] = new[i]
  BY <1>1, <1>6
<1>12. Alone(c)'
  <2> SUFFICES ASSUME NEW id, Uses(c, id)'
               PROVE  /\ \A d \in Clients \ {c} :
                           asked[d] # NoRequest => asked[d].conversationId # id
                      /\ \A i \in DOMAIN new : ~Of(c, new[i]) => new[i].conversationId # id
    BY <1>8 DEF Alone, new
  <2>1. CASE Uses(c, id) /\ id \in DOMAIN conversations
    BY <1>11, <2>1 DEF Alone
  <2>2. CASE id = Target(c) /\ asked[c].conversationId # 0
    <3>1. Uses(c, id) /\ id \in DOMAIN conversations
      BY <1>3, <2>2, TakenFacts DEF Uses, BaseInv
    <3> QED
      BY <1>11, <3>1 DEF Alone
  <2>3. CASE id = Target(c) /\ asked[c].conversationId = 0
    <3>1. id = Len(conversations) + 1 /\ Len(conversations) \in Nat
          /\ DOMAIN conversations = 1..Len(conversations)
      BY <2>3, TakenFacts DEF BaseInv
    <3>2. \A d \in Clients : asked[d].conversationId # id
      BY <3>1 DEF BaseInv, AskedInv
    <3>3. \A k \in DOMAIN entries : entries[k].conversationId # id
      BY <3>1 DEF BaseInv, AskedInv
    <3> QED
      BY <1>11, <3>2, <3>3
  <2> QED
    BY <1>10, <2>1, <2>2, <2>3
<1>13. PromptInv(c)'
  BY <1>8 DEF PromptInv
<1> QED
  BY <1>4, <1>9, <1>12, <1>13 DEF h

LEMMA AnswerLinear ==
  ASSUME BaseInv, LinearInv, NEW c \in Clients, Answer(c)
  PROVE  LinearInv'
<1>1. /\ faithful' = [faithful EXCEPT ![c] = conversations'[Target(c)] = history[c]]
      /\ conversations' = Taken(c) /\ history' = history /\ linear' = linear
      /\ asked[c] # NoRequest
  BY DEF Answer
<1>2. ASSUME NEW d \in Clients, linear'[d]
      PROVE  /\ faithful'[d]
             /\ history'[d] # <<>> => (ChatInv(d) /\ Alone(d) /\ PromptInv(d))'
  <2>1. faithful[d] /\ (history[d] # <<>> => ChatInv(d) /\ Alone(d) /\ PromptInv(d))
    BY <1>1, <1>2 DEF LinearInv
  <2>2. CASE d = c
    <3>1. history[c] # <<>>
      BY <1>1 DEF BaseInv, AskedInv
    <3>2. /\ Taken(c)[Target(c)] = history[c]
          /\ ChatInv(c)' /\ Alone(c)' /\ PromptInv(c)'
      BY <2>1, <2>2, <3>1, AnswerOwn
    <3>3. faithful'[c]
      BY <1>1, <3>2, Zenon DEF BaseInv, TypeOK
    <3> QED
      BY <2>2, <3>2, <3>3
  <2>3. CASE d # c
    <3>1. faithful'[d]
      BY <1>1, <2>1, <2>3, Zenon DEF BaseInv, TypeOK
    <3>2. ASSUME history[d] # <<>>  PROVE (ChatInv(d) /\ Alone(d) /\ PromptInv(d))'
      <4>1. Leave(d)
        BY <2>1, <2>3, <3>2, AnswerOthers
      <4> QED
        BY <2>1, <3>2, <4>1, OtherChat DEF BaseInv
    <3> QED
      BY <1>1, <3>1, <3>2
  <2> QED
    BY <2>2, <2>3
<1> QED
  BY <1>2 DEF LinearInv

-------------------------------------------------------------------------------
(* An answer of a conversation that agy does not name: the store keeps what it holds. *)
LEMMA UnnamedBase ==
  ASSUME BaseInv, NEW c \in Clients, AnswerUnnamed(c)
  PROVE  BaseInv'
<1> DEFINE held == conversations'[Target(c)] = history[c]
<1>1. /\ asked[c] # NoRequest /\ conversations' = Taken(c)
      /\ asked' = [asked EXCEPT ![c] = NoRequest]
      /\ UNCHANGED <<entries, history, requests, lastUsed>>
      /\ faithful' = [faithful EXCEPT ![c] = held]
      /\ linear' = [linear EXCEPT ![c] = linear[c] /\ asked[c].conversationId = 0]
  BY DEF AnswerUnnamed
<1> HIDE DEF held
<1>2. linear' \in [Clients -> BOOLEAN] /\ held \in BOOLEAN
  <2>1. linear' \in [Clients -> BOOLEAN]
    BY <1>1, Zenon DEF BaseInv, TypeOK
  <2>2. held \in BOOLEAN
    BY DEF held
  <2> QED
    BY <2>1, <2>2
<1>3. faithful' \in [Clients -> BOOLEAN]
  BY <1>1, <1>2 DEF BaseInv, TypeOK
<1>4. conversations' \in {conversations, Taken(c)}
      /\ asked' \in {asked, [asked EXCEPT ![c] = NoRequest]}
      /\ requests' \in {requests, requests + 1}
  BY <1>1
<1> QED
  BY <1>1, <1>2, <1>3, <1>4, RunBase

(* Of a linear chat only a new conversation stays unnamed, and it has no entry to mislead. *)
LEMMA UnnamedLinear ==
  ASSUME BaseInv, LinearInv, NEW c \in Clients, AnswerUnnamed(c)
  PROVE  LinearInv'
<1>1. /\ asked[c] # NoRequest /\ conversations' = Taken(c)
      /\ asked' = [asked EXCEPT ![c] = NoRequest]
      /\ UNCHANGED <<entries, history, requests, lastUsed>>
      /\ faithful' = [faithful EXCEPT ![c] = conversations'[Target(c)] = history[c]]
      /\ linear' = [linear EXCEPT ![c] = linear[c] /\ asked[c].conversationId = 0]
  BY DEF AnswerUnnamed
<1>2. ASSUME NEW d \in Clients, linear'[d]
      PROVE  /\ faithful'[d]
             /\ history'[d] # <<>> => (ChatInv(d) /\ Alone(d) /\ PromptInv(d))'
  <2>1. linear[d] /\ (d # c \/ asked[c].conversationId = 0)
    BY <1>1, <1>2, Zenon DEF BaseInv, TypeOK
  <2>2. faithful[d] /\ (history[d] # <<>> => ChatInv(d) /\ Alone(d) /\ PromptInv(d))
    BY <2>1 DEF LinearInv
  <2>3. faithful'[d]
    <3>1. CASE d # c
      BY <1>1, <2>2, <3>1, Zenon DEF BaseInv, TypeOK
    <3>2. CASE d = c
      <4>1. history[c] # <<>> /\ asked[c].conversationId = 0
        BY <1>1, <2>1, <3>2 DEF BaseInv, AskedInv
      <4>2. Taken(c)[Target(c)] = history[c]
        BY <1>1, <2>2, <3>2, <4>1, TakenFacts DEF BaseInv, PromptInv
      <4> QED
        BY <1>1, <3>2, <4>2, Zenon DEF BaseInv, TypeOK
    <3> QED
      BY <3>1, <3>2
  <2>4. ASSUME history[d] # <<>>  PROVE (ChatInv(d) /\ Alone(d) /\ PromptInv(d))'
    <3>1. CASE d = c
      <4>1. /\ asked[c].conversationId = 0 /\ ChatInv(c)
            /\ \A i \in DOMAIN entries : ~Of(c, entries[i])
        BY <1>1, <2>1, <2>2, <2>4, <3>1 DEF PromptInv
      <4>2. asked'[c] = NoRequest /\ entries' = entries /\ history' = history
        BY <1>1 DEF BaseInv, TypeOK
      <4>3. ChatInv(c)'
        <5>1. Current(c, entries, history[c], conversations')
          BY <4>1 DEF Current, LastOf
        <5> QED
          BY <4>1, <4>2, <5>1 DEF ChatInv, OwnWords
      <4>4. Alone(c)'
        BY <4>1, <4>2 DEF Alone, Uses
      <4>5. PromptInv(c)'
        BY <4>2 DEF PromptInv
      <4> QED
        BY <3>1, <4>3, <4>4, <4>5
    <3>2. CASE d # c
      <4>1. asked'[d] = asked[d]
        BY <1>1, <3>2 DEF BaseInv, TypeOK
      <4>2. Leave(d)
        BY <1>1, <2>1, <2>2, <2>4, <4>1, RunLeaves
      <4> QED
        BY <2>2, <2>4, <4>2, OtherChat DEF BaseInv
    <3> QED
      BY <3>1, <3>2
  <2> QED
    BY <1>1, <2>3, <2>4
<1> QED
  BY <1>2 DEF LinearInv

-------------------------------------------------------------------------------
LEMMA LinearInit ==
  ASSUME Init  PROVE LinearInv
BY DEF Init, LinearInv

LEMMA Stuttering ==
  ASSUME BaseInv, LinearInv, UNCHANGED vars
  PROVE  BaseInv' /\ LinearInv'
<1>1. /\ entries' = entries /\ history' = history /\ asked' = asked
      /\ conversations' = conversations /\ requests' = requests
      /\ faithful' = faithful /\ linear' = linear /\ lastUsed' = lastUsed
  BY DEF vars
<1>2. BaseInv'
  BY <1>1 DEF BaseInv, TypeOK, AskedInv, OrderInv
<1>3. ASSUME NEW c \in Clients, ChatInv(c), Alone(c), PromptInv(c)
      PROVE  ChatInv(c)' /\ Alone(c)' /\ PromptInv(c)'
  <2>1. ChatInv(c)'
    BY <1>1, <1>3 DEF ChatInv, OwnWords
  <2>2. Alone(c)'
    BY <1>1, <1>3 DEF Alone, Uses
  <2>3. PromptInv(c)'
    BY <1>1, <1>3 DEF PromptInv
  <2> QED
    BY <2>1, <2>2, <2>3
<1>4. LinearInv'
  BY <1>1, <1>3 DEF LinearInv
<1> QED
  BY <1>2, <1>4

(* Every reachable state has its types, its ids, the LRU order, and every linear chat its
   history within reach. *)
THEOREM ReuseInvariant == Spec => [](BaseInv /\ LinearInv)
<1>1. Init => BaseInv /\ LinearInv
  BY BaseInit, LinearInit
<1>2. BaseInv /\ LinearInv /\ [Next]_vars => BaseInv' /\ LinearInv'
  <2> SUFFICES ASSUME BaseInv, LinearInv, [Next]_vars  PROVE BaseInv' /\ LinearInv'
    OBVIOUS
  <2>1. ASSUME NEW c \in Clients, Ask(c)  PROVE BaseInv' /\ LinearInv'
    BY <2>1, AskBase, AskLinear
  <2>2. ASSUME NEW c \in Clients, AskExplicit(c)  PROVE BaseInv' /\ LinearInv'
    BY <2>2, AskExplicitStep
  <2>3. ASSUME NEW c \in Clients, Retry(c)  PROVE BaseInv' /\ LinearInv'
    BY <2>3, RetryStep
  <2>4. ASSUME NEW c \in Clients, Answer(c)  PROVE BaseInv' /\ LinearInv'
    BY <2>4, AnswerBase, AnswerLinear
  <2>5. ASSUME NEW c \in Clients, Fail(c)  PROVE BaseInv' /\ LinearInv'
    BY <2>5, FailStep
  <2>6. ASSUME NEW c \in Clients, AnswerUnnamed(c)  PROVE BaseInv' /\ LinearInv'
    BY <2>6, UnnamedBase, UnnamedLinear
  <2>7. CASE UNCHANGED vars
    BY <2>7, Stuttering
  <2> QED
    BY <2>1, <2>2, <2>3, <2>4, <2>5, <2>6, <2>7 DEF Next
<1> QED
  BY <1>1, <1>2, PTL DEF Spec

(* Every variable keeps its type. *)
THEOREM ReuseTypeCorrect == Spec => []TypeOK
<1>1. BaseInv /\ LinearInv => TypeOK
  BY DEF BaseInv
<1> QED
  BY <1>1, ReuseInvariant, PTL

(* The store is an LRU map of bounded size, whose entries name conversations that exist. *)
THEOREM StoreEvictsLeastRecent == Spec => []StoreIsLRU
<1>1. BaseInv /\ LinearInv => StoreIsLRU
  BY DEF BaseInv, OrderInv, AskedInv, StoreIsLRU
<1> QED
  BY <1>1, ReuseInvariant, PTL

(* A chat that is only ever continued, in messages of its own, finds its whole history in
   the conversation that answers it, whatever the other clients do in between. *)
THEOREM LinearChatsAreFaithful == Spec => []LinearChatsFaithful
<1>1. BaseInv /\ LinearInv => LinearChatsFaithful
  BY DEF LinearInv, LinearChatsFaithful
<1> QED
  BY <1>1, ReuseInvariant, PTL

===============================================================================
