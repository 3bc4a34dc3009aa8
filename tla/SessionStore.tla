----------------------------- MODULE SessionStore -----------------------------
(***************************************************************************)
(* SessionStore (src/gateway/session-store.ts): which agy conversation a   *)
(* message history continues.  An entry maps the fingerprint of a history  *)
(* to a conversation; the entries stand in the insertion order of the Map, *)
(* so the head is the least recently used.                                 *)
(*                                                                         *)
(* The fingerprint is the XOR of one 64-bit hash per message.  Hashes of   *)
(* different messages are taken to be independent, so what an XOR keeps of *)
(* a history is the set of the messages that occur in it an odd number of  *)
(* times: neither their order nor the pairs that cancel.  Histories hold   *)
(* no system message, and a message stands for its role and its text with  *)
(* the injected context blocks removed. Operators named Mut... are faulty  *)
(* variants that no action uses: each is put in the place of the           *)
(* definition it precedes to see a property fail.                          *)
(***************************************************************************)
EXTENDS Naturals, Sequences, FiniteSets, SequencesExt

CONSTANTS Messages,      \* the messages a history is made of
          Capacity       \* how many entries the store remembers

ASSUME CapacityAssumption == Capacity \in Nat

Fingerprint(history) ==
  {m \in Messages : Cardinality({i \in DOMAIN history : history[i] = m}) % 2 = 1}

Prefix(history, n) == SubSeq(history, 1, n)

(* The entries lookup accepts: as many messages as the entry stands for, or more,
   and the same fingerprint over that many. *)
Matches(entries, history) ==
  {i \in DOMAIN entries :
     /\ entries[i].count <= Len(history)
     /\ entries[i].fingerprint = Fingerprint(Prefix(history, entries[i].count))}

MutBest(entries, history) ==
  CHOOSE i \in Matches(entries, history) :
    \A k \in Matches(entries, history) : entries[k].count >= entries[i].count

(* The longest of them, the last in the order of the Map among equals. *)
Best(entries, history) ==
  CHOOSE i \in Matches(entries, history) :
    \A k \in Matches(entries, history) :
      \/ entries[k].count < entries[i].count
      \/ entries[k].count = entries[i].count /\ k <= i

NoHit == [conversationId |-> 0, seenCount |-> 0]

LookupHit(entries, history) ==
  IF history = <<>> \/ Matches(entries, history) = {}
  THEN NoHit
  ELSE LET entry == entries[Best(entries, history)]
       IN [conversationId |-> entry.conversationId, seenCount |-> entry.count]

(* The entries after a lookup: a hit moves to the tail. *)
MutTouched(entries, history) == entries

Touched(entries, history) ==
  IF history = <<>> \/ Matches(entries, history) = {}
  THEN entries
  ELSE LET i == Best(entries, history)
       IN Append(RemoveAt(entries, i), entries[i])

MutRecordedShort(entries, history, conversationId) ==
  Append(entries, [fingerprint |-> Fingerprint(history), count |-> Len(history) - 1,
                   conversationId |-> conversationId])

(* delete of the Map: at most one entry has a fingerprint. *)
Deleted(entries, fingerprint) ==
  LET found == {i \in DOMAIN entries : entries[i].fingerprint = fingerprint}
  IN IF found = {} THEN entries ELSE RemoveAt(entries, CHOOSE i \in found : TRUE)

(* record: the key is the fingerprint alone, so an entry for the same fingerprint is
   replaced whatever its count; the oldest entries beyond the capacity are evicted. *)
Recorded(entries, history, conversationId) ==
  IF history = <<>> THEN entries
  ELSE LET fresh == [fingerprint |-> Fingerprint(history), count |-> Len(history),
                     conversationId |-> conversationId]
           all == Append(Deleted(entries, fresh.fingerprint), fresh)
           evicted == IF Len(all) > Capacity THEN Len(all) - Capacity ELSE 0
       IN SubSeq(all, evicted + 1, Len(all))
===============================================================================
