--------------------------- MODULE GatewayChatProofs ---------------------------
(***************************************************************************)
(* What the queue and the chat handler over it promise, for any set of     *)
(* requests, any line and any number of retries and restarts.  First the   *)
(* queue alone (SerialQueue): one job at a time, in order, nobody lost or  *)
(* refused while there is room.  Then the handler: agy runs in the slot of *)
(* the queue, a client reads one well-formed reply, what is recorded was   *)
(* replied, and no attempt is spawned after output or for a client that is *)
(* gone.                                                                   *)
(*                                                                         *)
(* The queue's lemmas say that its actions keep QueueInv; those of the     *)
(* handler what they do to the standing of each request, what a reply      *)
(* looks like before and after it is completed, and the invariant of one   *)
(* request.                                                                *)
(***************************************************************************)
EXTENDS GatewayChat, SequenceTheorems, FiniteSetTheorems, TLAPS

Consistent(line, busy, standing, gone, rank, count) ==
  /\ line \in Seq(Jobs)
  /\ busy \in BOOLEAN
  /\ standing \in [Jobs -> Statuses]
  /\ gone \subseteq Jobs
  /\ rank \in [Jobs -> Nat]
  /\ count \in Nat
  /\ \A j, k \in Jobs : standing[j] = "running" /\ standing[k] = "running" => j = k
  /\ busy <=> \E j \in Jobs : standing[j] = "running"
  /\ \A i \in 1..Len(line) : standing[line[i]] = "waiting" /\ line[i] \notin gone
  /\ \A j \in Jobs : standing[j] = "waiting" => \E i \in 1..Len(line) : line[i] = j
  /\ \A i, k \in 1..Len(line) : line[i] = line[k] => i = k
  /\ \A i, k \in 1..Len(line) : i < k => rank[line[i]] < rank[line[k]]
  /\ \A j, k \in Jobs : standing[j] \in {"running", "settled"} /\ standing[k] = "waiting"
                          => rank[j] < rank[k]
  /\ \A j \in Jobs : rank[j] <= count

(* The inductive invariant. *)
QueueInv ==
  /\ Consistent(waiting, running, status, aborted, arrival, accepted)
  /\ NoIdleSlot

-------------------------------------------------------------------------------
(* splice(index, 1) leaves the other waiters in the line, in their order. *)
LEMMA WithoutOne ==
  ASSUME NEW S, NEW line \in Seq(S), NEW i \in 1..Len(line)
  PROVE  /\ Without(line, i) \in Seq(S)
         /\ Len(Without(line, i)) = Len(line) - 1
         /\ \A k \in 1..Len(line) - 1 :
              Without(line, i)[k] = IF k < i THEN line[k] ELSE line[k + 1]
<1> DEFINE n == Len(line) - 1
           rest == Without(line, i)
<1>1. n \in Nat /\ \A k \in 1..n : k \in 1..Len(line) /\ k + 1 \in 1..Len(line)
  BY LenProperties
<1>2. \A k \in 1..Len(line) : line[k] \in S
  BY ElementOfSeq
<1>3. rest \in [1..n -> S]
  BY <1>1, <1>2 DEF Without
<1>4. rest \in Seq(S)
  BY <1>1, <1>3, SeqDef
<1>5. Len(rest) = n
  BY <1>1, <1>3, <1>4, LenProperties
<1> QED
  BY <1>4, <1>5 DEF Without

(* A line without its head: what the second case of Pump leaves. *)
LEMMA WithoutHead ==
  ASSUME NEW S, NEW line \in Seq(S), line # <<>>
  PROVE  /\ Tail(line) \in Seq(S)
         /\ Len(Tail(line)) = Len(line) - 1
         /\ Len(line) \in Nat \ {0}
         /\ Head(line) = line[1]
         /\ \A k \in 1..Len(line) - 1 : Tail(line)[k] = line[k + 1]
<1>1. Len(line) \in Nat \ {0}
  BY EmptySeq
<1>2. Tail(line) = SubSeq(line, 2, Len(line))
  BY TailIsSubSeq
<1>3. \A i \in 2..Len(line) : line[i] \in S
  BY <1>1, ElementOfSeq
<1>4. \A i \in 1..Len(line) - 2 + 1 : SubSeq(line, 2, Len(line))[i] = line[2 + i - 1]
  BY <1>1, <1>3, SubSeqProperties
<1> QED
  BY <1>1, <1>2, <1>4, HeadTailProperties

(* pump() keeps a consistent triple consistent and leaves no slot idle. *)
LEMMA PumpKeeps ==
  ASSUME NEW line, NEW busy, NEW standing, NEW gone, NEW rank, NEW count,
         Consistent(line, busy, standing, gone, rank, count),
         Pump(line, busy, standing)
  PROVE  /\ Consistent(waiting', running', status', gone, rank, count)
         /\ waiting' # <<>> => running'
<1>1. CASE busy \/ line = <<>>
  BY <1>1 DEF Pump, Consistent
<1>2. CASE ~(busy \/ line = <<>>)
  <2> DEFINE h == line[1]
  <2>1. /\ waiting' = Tail(line)
        /\ running' = TRUE
        /\ status' = [standing EXCEPT ![Head(line)] = "running"]
    BY <1>2 DEF Pump
  <2>2. /\ line \in Seq(Jobs) /\ standing \in [Jobs -> Statuses]
        /\ ~busy /\ line # <<>>
    BY <1>2 DEF Consistent
  <2>3. /\ waiting' \in Seq(Jobs)
        /\ Len(waiting') = Len(line) - 1
        /\ Len(line) \in Nat \ {0}
        /\ Head(line) = h
        /\ \A k \in 1..Len(line) - 1 : waiting'[k] = line[k + 1]
    BY <2>1, <2>2, WithoutHead
  <2>4. h \in Jobs /\ standing[h] = "waiting"
    BY <2>2, <2>3, ElementOfSeq DEF Consistent
  <2>5. status' \in [Jobs -> Statuses]
    BY <2>1, <2>2 DEF Statuses
  <2>6. \A j \in Jobs : status'[j] = IF j = h THEN "running" ELSE standing[j]
    BY <2>1, <2>2, <2>3
  <2>7. \A j \in Jobs : standing[j] # "running"
    BY <2>2 DEF Consistent
  <2>8. \A k \in 1..Len(waiting') : k \in 1..Len(line) /\ k + 1 \in 1..Len(line) /\ k + 1 # 1
    BY <2>3
  <2>9. \A k \in 1..Len(waiting') : /\ waiting'[k] \in Jobs
                                    /\ waiting'[k] # h
                                    /\ status'[waiting'[k]] = "waiting"
                                    /\ waiting'[k] \notin gone
    <3> TAKE k \in 1..Len(waiting')
    <3>1. waiting'[k] = line[k + 1] /\ k + 1 \in 1..Len(line) /\ 1 \in 1..Len(line) /\ k + 1 # 1
      BY <2>3, <2>8
    <3>2. line[k + 1] \in Jobs /\ line[k + 1] # h
      BY <2>2, <3>1, ElementOfSeq DEF Consistent
    <3> QED
      BY <2>6, <3>1, <3>2 DEF Consistent
  <2>10. \A j \in Jobs : status'[j] = "waiting" => \E k \in 1..Len(waiting') : waiting'[k] = j
    <3> SUFFICES ASSUME NEW j \in Jobs, status'[j] = "waiting"
                 PROVE  \E k \in 1..Len(waiting') : waiting'[k] = j
      OBVIOUS
    <3>1. standing[j] = "waiting" /\ j # h
      BY <2>6
    <3>2. PICK i \in 1..Len(line) : line[i] = j
      BY <3>1 DEF Consistent
    <3>3. i # 1 /\ i - 1 \in 1..Len(waiting')
      BY <2>3, <3>1, <3>2
    <3>4. waiting'[i - 1] = j
      BY <2>3, <3>2, <3>3
    <3> QED
      BY <3>3, <3>4
  <2>11. \A i, k \in 1..Len(waiting') : waiting'[i] = waiting'[k] => i = k
    <3> TAKE i, k \in 1..Len(waiting')
    <3>1. waiting'[i] = line[i + 1] /\ waiting'[k] = line[k + 1]
      BY <2>3
    <3>2. line[i + 1] = line[k + 1] => i + 1 = k + 1
      BY <2>8 DEF Consistent
    <3> QED
      BY <2>3, <3>1, <3>2
  <2>12. \A i, k \in 1..Len(waiting') : i < k => rank[waiting'[i]] < rank[waiting'[k]]
    <3> TAKE i, k \in 1..Len(waiting')
    <3>1. waiting'[i] = line[i + 1] /\ waiting'[k] = line[k + 1]
      BY <2>3
    <3>2. i + 1 < k + 1 => rank[line[i + 1]] < rank[line[k + 1]]
      BY <2>8 DEF Consistent
    <3> QED
      BY <2>3, <3>1, <3>2
  <2>13. ASSUME NEW j \in Jobs, NEW k \in Jobs,
                status'[j] \in {"running", "settled"}, status'[k] = "waiting"
         PROVE  rank[j] < rank[k]
    <3>1. standing[k] = "waiting" /\ k # h
      BY <2>6, <2>13
    <3>2. CASE j = h
      <4>1. PICK i \in 1..Len(line) : line[i] = k
        BY <3>1 DEF Consistent
      <4>2. 1 \in 1..Len(line) /\ 1 < i
        BY <2>3, <3>1, <4>1
      <4> QED
        BY <3>2, <4>1, <4>2 DEF Consistent
    <3>3. CASE j # h
      BY <2>6, <2>13, <3>1, <3>3 DEF Consistent
    <3> QED
      BY <3>2, <3>3
  <2>14. /\ gone \subseteq Jobs /\ rank \in [Jobs -> Nat] /\ count \in Nat
         /\ \A j \in Jobs : rank[j] <= count
    BY DEF Consistent
  <2>15. /\ \A j, k \in Jobs : status'[j] = "running" /\ status'[k] = "running" => j = k
         /\ running' <=> \E j \in Jobs : status'[j] = "running"
    BY <2>1, <2>4, <2>6, <2>7
  <2> QED
    BY <2>1, <2>3, <2>5, <2>9, <2>10, <2>11, <2>12, <2>13, <2>14, <2>15 DEF Consistent
<1> QED
  BY <1>1, <1>2

-------------------------------------------------------------------------------
(* What the invariant says, conjunct by conjunct, in the terms of SerialQueue. *)
LEMMA InvImplies ==
  ASSUME QueueInv
  PROVE  QueueTypeOK /\ OneAtATime /\ LineIsLive /\ NoIdleSlot /\ StartsInOrder
<1>1. QueueTypeOK /\ OneAtATime /\ StartsInOrder
  BY DEF QueueInv, Consistent, QueueTypeOK, OneAtATime, StartsInOrder
<1>2. \A i \in 1..Len(waiting) : waiting[i] \in Jobs
  BY <1>1, ElementOfSeq DEF QueueTypeOK
<1>3. Waiters = {j \in Jobs : status[j] = "waiting"}
  <2>1. \A j \in Waiters : j \in Jobs /\ status[j] = "waiting"
    BY <1>2 DEF QueueInv, Consistent, Waiters
  <2>2. \A j \in Jobs : status[j] = "waiting" => j \in Waiters
    BY DEF QueueInv, Consistent, Waiters
  <2> QED
    BY <2>1, <2>2
<1>4. Waiters \cap aborted = {}
  BY DEF QueueInv, Consistent, Waiters
<1>5. \A i, k \in 1..Len(waiting) : waiting[i] = waiting[k] => i = k
  BY DEF QueueInv, Consistent
<1> QED
  BY <1>1, <1>3, <1>4, <1>5 DEF QueueInv, LineIsLive

(* An empty queue with a free slot satisfies the invariant. *)
LEMMA InvAtInit ==
  ASSUME QueueInit PROVE QueueInv
<1>1. waiting \in Seq(Jobs) /\ Len(waiting) = 0 /\ waiting = <<>>
  BY EmptySeq DEF QueueInit
<1>2. \A j \in Jobs : status[j] = "idle" /\ arrival[j] = 0
  BY DEF QueueInit
<1>3. status \in [Jobs -> Statuses] /\ arrival \in [Jobs -> Nat]
  BY DEF QueueInit, Statuses
<1>4. \A i \in 1..Len(waiting) : FALSE
  BY <1>1
<1>5. running = FALSE /\ aborted = {} /\ accepted = 0
  BY DEF QueueInit
<1>6. /\ running \in BOOLEAN /\ aborted \subseteq Jobs /\ accepted \in Nat
      /\ \A j \in Jobs : status[j] \notin {"running", "settled", "waiting"}
      /\ \A j \in Jobs : arrival[j] <= accepted
  <2>1. \A j \in Jobs : arrival[j] <= accepted
    BY <1>2, <1>5
  <2>2. \A j \in Jobs : status[j] \notin {"running", "settled", "waiting"}
    BY <1>2
  <2> QED
    BY <1>5, <2>1, <2>2
<1>7. Consistent(waiting, running, status, aborted, arrival, accepted)
  BY <1>1, <1>2, <1>3, <1>4, <1>5, <1>6 DEF Consistent
<1> QED
  BY <1>1, <1>7 DEF QueueInv, NoIdleSlot

(* A job that stands nowhere in the queue may change its standing freely among the
   standings that are not of the queue. *)
LEMMA InvAfterTurnAway ==
  ASSUME QueueInv, NEW j \in Jobs, PushRefused(j) \/ PushDropped(j)
  PROVE  QueueInv'
<1>1. /\ status[j] = "idle"
      /\ status' = [status EXCEPT ![j] = "refused"] \/ status' = [status EXCEPT ![j] = "dropped"]
      /\ UNCHANGED <<waiting, running, aborted, arrival, accepted>>
  BY DEF PushRefused, PushDropped
<1>2. /\ status' \in [Jobs -> Statuses]
      /\ \A k \in Jobs : k # j => status'[k] = status[k]
      /\ status'[j] \in {"refused", "dropped"}
  BY <1>1 DEF QueueInv, Consistent, Statuses
<1>3. \A i \in 1..Len(waiting) : waiting[i] \in Jobs /\ waiting[i] # j
  BY <1>1, ElementOfSeq DEF QueueInv, Consistent
<1>4. \A k \in Jobs : /\ status'[k] = "running" <=> status[k] = "running"
                      /\ status'[k] = "waiting" <=> status[k] = "waiting"
                      /\ status'[k] \in {"running", "settled"}
                            <=> status[k] \in {"running", "settled"}
  BY <1>1, <1>2
<1>5. \A i \in 1..Len(waiting) : status'[waiting[i]] = "waiting" /\ waiting[i] \notin aborted
  BY <1>3, <1>4 DEF QueueInv, Consistent
<1>6. Consistent(waiting, running, status', aborted, arrival, accepted)
  BY <1>2, <1>4, <1>5 DEF QueueInv, Consistent
<1> QED
  BY <1>1, <1>6 DEF QueueInv, NoIdleSlot

(* A push that is accepted puts a job that stood nowhere at the end of the line, with
   the highest rank, and pumps: the invariant is kept. *)
LEMMA InvAfterPush ==
  ASSUME QueueInv, NEW j \in Jobs, PushAccepted(j)
  PROVE  QueueInv'
<1> DEFINE line == Append(waiting, j)
           standing == [status EXCEPT ![j] = "waiting"]
<1>1. /\ status[j] = "idle" /\ j \notin aborted
      /\ Pump(line, running, standing)
      /\ arrival' = [arrival EXCEPT ![j] = accepted + 1]
      /\ accepted' = accepted + 1
      /\ aborted' = aborted
  BY DEF PushAccepted, Accept
<1>2. /\ waiting \in Seq(Jobs) /\ Len(waiting) \in Nat
      /\ status \in [Jobs -> Statuses] /\ arrival \in [Jobs -> Nat] /\ accepted \in Nat
  BY LenProperties DEF QueueInv, Consistent
<1>3. /\ line \in Seq(Jobs)
      /\ Len(line) = Len(waiting) + 1
      /\ \A i \in 1..Len(waiting) : line[i] = waiting[i]
      /\ line[Len(waiting) + 1] = j
  BY <1>2, AppendProperties
<1>4. /\ standing \in [Jobs -> Statuses]
      /\ \A k \in Jobs : standing[k] = IF k = j THEN "waiting" ELSE status[k]
  BY <1>2 DEF Statuses
<1>5. /\ arrival' \in [Jobs -> Nat] /\ accepted' \in Nat
      /\ \A k \in Jobs : arrival'[k] = IF k = j THEN accepted + 1 ELSE arrival[k]
  BY <1>1, <1>2
<1>6. \A i \in 1..Len(waiting) : waiting[i] \in Jobs /\ waiting[i] # j
  BY <1>1, <1>2, ElementOfSeq DEF QueueInv, Consistent
<1>7. \A k \in Jobs : arrival[k] <= accepted /\ arrival[k] \in Nat
  BY <1>2 DEF QueueInv, Consistent
<1>8. \A i \in 1..Len(line) : i \in 1..Len(waiting) \/ i = Len(waiting) + 1
  BY <1>2, <1>3
<1>9. \A i \in 1..Len(line) : standing[line[i]] = "waiting" /\ line[i] \notin aborted
  BY <1>1, <1>3, <1>4, <1>6, <1>8 DEF QueueInv, Consistent
<1>10. \A k \in Jobs : standing[k] = "waiting" => \E i \in 1..Len(line) : line[i] = k
  <2> SUFFICES ASSUME NEW k \in Jobs, standing[k] = "waiting"
               PROVE  \E i \in 1..Len(line) : line[i] = k
    OBVIOUS
  <2>1. CASE k = j
    BY <1>2, <1>3, <2>1
  <2>2. CASE k # j
    <3>1. PICK i \in 1..Len(waiting) : waiting[i] = k
      BY <1>4, <2>2 DEF QueueInv, Consistent
    <3>2. i \in 1..Len(line)
      BY <1>2, <1>3
    <3> QED
      BY <1>3, <3>1, <3>2
  <2> QED
    BY <2>1, <2>2
<1>11. \A i, k \in 1..Len(line) : line[i] = line[k] => i = k
  BY <1>3, <1>6, <1>8 DEF QueueInv, Consistent
<1>12. ASSUME NEW i \in 1..Len(line), NEW k \in 1..Len(line), i < k
       PROVE  arrival'[line[i]] < arrival'[line[k]]
  <2>1. i \in 1..Len(waiting)
    BY <1>2, <1>3, <1>12
  <2>2. CASE k \in 1..Len(waiting)
    <3>1. arrival[waiting[i]] < arrival[waiting[k]]
      BY <1>12, <2>1, <2>2 DEF QueueInv, Consistent
    <3>2. /\ arrival'[line[i]] = arrival[waiting[i]]
          /\ arrival'[line[k]] = arrival[waiting[k]]
      BY <1>3, <1>5, <1>6, <2>1, <2>2
    <3> QED
      BY <3>1, <3>2
  <2>3. CASE k = Len(waiting) + 1
    <3>1. arrival'[line[i]] = arrival[waiting[i]] /\ waiting[i] \in Jobs
      BY <1>3, <1>5, <1>6, <2>1
    <3> QED
      BY <1>2, <1>3, <1>5, <1>7, <2>3, <3>1
  <2> QED
    BY <1>8, <2>2, <2>3
<1>13. \A k, m \in Jobs : standing[k] \in {"running", "settled"} /\ standing[m] = "waiting"
                            => arrival'[k] < arrival'[m]
  <2> SUFFICES ASSUME NEW k \in Jobs, NEW m \in Jobs,
                      standing[k] \in {"running", "settled"}, standing[m] = "waiting"
               PROVE  arrival'[k] < arrival'[m]
    OBVIOUS
  <2>1. k # j /\ arrival'[k] = arrival[k] /\ status[k] \in {"running", "settled"}
    BY <1>4, <1>5
  <2>2. CASE m = j
    BY <1>2, <1>5, <1>7, <2>1, <2>2
  <2>3. CASE m # j
    BY <1>4, <1>5, <2>1, <2>3 DEF QueueInv, Consistent
  <2> QED
    BY <2>2, <2>3
<1>14. \A k \in Jobs : arrival'[k] <= accepted'
  BY <1>1, <1>2, <1>5, <1>7
<1>15. /\ \A k, m \in Jobs : standing[k] = "running" /\ standing[m] = "running" => k = m
       /\ running <=> \E k \in Jobs : standing[k] = "running"
       /\ running \in BOOLEAN /\ aborted \subseteq Jobs
  BY <1>1, <1>4 DEF QueueInv, Consistent
<1>16. Consistent(line, running, standing, aborted, arrival', accepted')
  BY <1>3, <1>4, <1>5, <1>9, <1>10, <1>11, <1>12, <1>13, <1>14, <1>15 DEF Consistent
<1>17. /\ Consistent(waiting', running', status', aborted, arrival', accepted')
       /\ waiting' # <<>> => running'
  BY <1>1, <1>16, PumpKeeps
<1> QED
  BY <1>1, <1>17 DEF QueueInv, NoIdleSlot

(* An abort takes its waiter out of the line, or finds none to take out: the others
   keep their order, and the slot is left as it is. *)
LEMMA InvAfterAbort ==
  ASSUME QueueInv, NEW j \in Jobs, Abort(j)
  PROVE  QueueInv'
<1>1. /\ aborted' = aborted \cup {j}
      /\ UNCHANGED <<running, arrival, accepted>>
  BY DEF Abort
<1>2. CASE status[j] # "waiting"
  <2>1. UNCHANGED <<waiting, status>>
    BY <1>2 DEF Abort
  <2>2. \A i \in 1..Len(waiting) : status[waiting[i]] = "waiting" /\ waiting[i] \notin aborted'
    BY <1>1, <1>2 DEF QueueInv, Consistent
  <2> QED
    BY <1>1, <2>1, <2>2 DEF QueueInv, Consistent, NoIdleSlot
<1>3. CASE status[j] = "waiting"
  <2>1. PICK i \in 1..Len(waiting) : waiting[i] = j /\ waiting' = Without(waiting, i)
    BY <1>3 DEF Abort
  <2>2. /\ status' = [status EXCEPT ![j] = "dropped"]
        /\ status' \in [Jobs -> Statuses]
        /\ \A k \in Jobs : status'[k] = IF k = j THEN "dropped" ELSE status[k]
    <3>1. status \in [Jobs -> Statuses]
      BY DEF QueueInv, Consistent
    <3>2. status' = [status EXCEPT ![j] = "dropped"]
      BY <1>3 DEF Abort
    <3> QED
      BY <3>1, <3>2 DEF Statuses
  <2>3. waiting \in Seq(Jobs) /\ Len(waiting) \in Nat
    BY LenProperties DEF QueueInv, Consistent
  <2>4. /\ waiting' \in Seq(Jobs)
        /\ Len(waiting') = Len(waiting) - 1
        /\ \A k \in 1..Len(waiting') :
             waiting'[k] = IF k < i THEN waiting[k] ELSE waiting[k + 1]
    BY <2>1, <2>3, WithoutOne
  <2> DEFINE Old(k) == IF k < i THEN k ELSE k + 1
  <2>5. \A k \in 1..Len(waiting') :
          /\ waiting'[k] = waiting[Old(k)] /\ Old(k) \in 1..Len(waiting) /\ Old(k) # i
          /\ \A m \in 1..Len(waiting') : Old(k) < Old(m) <=> k < m
    <3> TAKE k \in 1..Len(waiting')
    <3>1. k \in Nat /\ i \in Nat /\ k <= Len(waiting) - 1
      BY <2>3, <2>4
    <3>2. Old(k) \in 1..Len(waiting) /\ Old(k) # i
      BY <2>3, <3>1
    <3>3. \A m \in 1..Len(waiting') : Old(k) < Old(m) <=> k < m
      <4> TAKE m \in 1..Len(waiting')
      <4>1. m \in Nat
        OBVIOUS
      <4> QED
        BY <3>1, <4>1
    <3>4. waiting'[k] = waiting[Old(k)]
      BY <2>4
    <3> QED
      BY <3>2, <3>3, <3>4
  <2>6. \A k \in 1..Len(waiting') : /\ waiting'[k] \in Jobs /\ waiting'[k] # j
                                    /\ status'[waiting'[k]] = "waiting"
                                    /\ waiting'[k] \notin aborted'
    <3> TAKE k \in 1..Len(waiting')
    <3>1. waiting[Old(k)] \in Jobs /\ waiting[Old(k)] # j
      BY <2>1, <2>3, <2>5, ElementOfSeq DEF QueueInv, Consistent
    <3> HIDE DEF Old
    <3> QED
      BY <1>1, <2>2, <2>5, <3>1 DEF QueueInv, Consistent
  <2>7. \A m \in Jobs : status'[m] = "waiting" => \E k \in 1..Len(waiting') : waiting'[k] = m
    <3> SUFFICES ASSUME NEW m \in Jobs, status'[m] = "waiting"
                 PROVE  \E k \in 1..Len(waiting') : waiting'[k] = m
      OBVIOUS
    <3>1. m # j /\ status[m] = "waiting"
      BY <2>2
    <3>2. PICK n \in 1..Len(waiting) : waiting[n] = m
      BY <3>1 DEF QueueInv, Consistent
    <3>3. n # i
      BY <2>1, <3>1, <3>2
    <3>4. CASE n < i
      BY <2>3, <2>4, <3>2, <3>4
    <3>5. CASE n > i
      <4>1. n - 1 \in 1..Len(waiting') /\ ~(n - 1 < i) /\ (n - 1) + 1 = n
        BY <2>3, <2>4, <3>5
      <4> QED
        BY <2>4, <3>2, <4>1
    <3> QED
      BY <2>3, <3>3, <3>4, <3>5
  <2>8. ASSUME NEW k \in 1..Len(waiting'), NEW m \in 1..Len(waiting')
        PROVE  /\ waiting'[k] = waiting'[m] => k = m
               /\ k < m => arrival[waiting'[k]] < arrival[waiting'[m]]
    <3>1. waiting'[k] = waiting'[m] => Old(k) = Old(m)
      <4>1. \A x, y \in 1..Len(waiting) : waiting[x] = waiting[y] => x = y
        BY Zenon DEF QueueInv, Consistent
      <4> HIDE DEF Old
      <4> QED
        BY <2>5, <4>1
    <3>2. Old(k) = Old(m) => k = m
      BY <2>3, <2>4
    <3>3. k < m => arrival[waiting[Old(k)]] < arrival[waiting[Old(m)]]
      <4>1. \A x, y \in 1..Len(waiting) : x < y => arrival[waiting[x]] < arrival[waiting[y]]
        BY Zenon DEF QueueInv, Consistent
      <4>2. /\ Old(k) \in 1..Len(waiting) /\ Old(m) \in 1..Len(waiting)
            /\ k < m => Old(k) < Old(m)
        BY <2>3, <2>4, <2>5
      <4> HIDE DEF Old
      <4> QED
        BY <4>1, <4>2
    <3> QED
      BY <2>5, <3>1, <3>2, <3>3
  <2>9. /\ \A k \in Jobs : status'[k] = "running" <=> status[k] = "running"
        /\ \A k \in Jobs : status'[k] \in {"running", "settled"}
                             <=> status[k] \in {"running", "settled"}
        /\ \A k \in Jobs : status'[k] = "waiting" => status[k] = "waiting"
    BY <1>3, <2>2
  <2>10. Consistent(waiting', running, status', aborted', arrival, accepted)
    <3>1. /\ running \in BOOLEAN /\ aborted' \subseteq Jobs
          /\ arrival \in [Jobs -> Nat] /\ accepted \in Nat
          /\ \A k \in Jobs : arrival[k] <= accepted
      BY <1>1 DEF QueueInv, Consistent
    <3>2. /\ \A k, m \in Jobs : status'[k] = "running" /\ status'[m] = "running" => k = m
          /\ running <=> \E k \in Jobs : status'[k] = "running"
      BY <2>9 DEF QueueInv, Consistent
    <3>3. \A k, m \in Jobs : status'[k] \in {"running", "settled"} /\ status'[m] = "waiting"
                               => arrival[k] < arrival[m]
      BY <2>9 DEF QueueInv, Consistent
    <3>4. /\ status' \in [Jobs -> Statuses] /\ waiting' \in Seq(Jobs)
          /\ \A k \in 1..Len(waiting') : /\ status'[waiting'[k]] = "waiting"
                                         /\ waiting'[k] \notin aborted'
      BY <2>2, <2>4, <2>6
    <3> QED
      BY <2>7, <2>8, <3>1, <3>2, <3>3, <3>4 DEF Consistent
  <2>11. waiting # <<>>
    BY <2>1, <2>3
  <2> QED
    BY <1>1, <2>10, <2>11 DEF QueueInv, NoIdleSlot
<1> QED
  BY <1>2, <1>3

(* The settlement of a run frees the slot and pumps: the first waiter, if there is one,
   has a higher rank than all that ran before. *)
LEMMA InvAfterSettle ==
  ASSUME QueueInv, NEW j \in Jobs, RunSettles(j)
  PROVE  QueueInv'
<1> DEFINE standing == [status EXCEPT ![j] = "settled"]
<1>1. /\ status[j] = "running"
      /\ Pump(waiting, FALSE, standing)
      /\ UNCHANGED <<aborted, arrival, accepted>>
  BY DEF RunSettles
<1>2. /\ standing \in [Jobs -> Statuses]
      /\ \A k \in Jobs : standing[k] = IF k = j THEN "settled" ELSE status[k]
  BY DEF QueueInv, Consistent, Statuses
<1>3. /\ \A k \in Jobs : standing[k] # "running"
      /\ \A k \in Jobs : standing[k] = "waiting" <=> status[k] = "waiting"
      /\ \A k \in Jobs : standing[k] \in {"running", "settled"}
                           <=> status[k] \in {"running", "settled"}
  BY <1>1, <1>2 DEF QueueInv, Consistent
<1>4. \A i \in 1..Len(waiting) : waiting[i] \in Jobs /\ standing[waiting[i]] = "waiting"
  BY <1>3, ElementOfSeq DEF QueueInv, Consistent
<1>5. Consistent(waiting, FALSE, standing, aborted, arrival, accepted)
  BY <1>2, <1>3, <1>4 DEF QueueInv, Consistent
<1>6. /\ Consistent(waiting', running', status', aborted, arrival, accepted)
      /\ waiting' # <<>> => running'
  BY <1>1, <1>5, PumpKeeps
<1> QED
  BY <1>1, <1>6 DEF QueueInv, NoIdleSlot

-------------------------------------------------------------------------------
(* The invariant holds of every queue, whatever the jobs do. *)
THEOREM QueueInvariant == QueueSpec => []QueueInv
<1>1. QueueInit => QueueInv
  BY InvAtInit
<1>2. QueueInv /\ [QueueNext]_queueVars => QueueInv'
  <2> SUFFICES ASSUME QueueInv, [QueueNext]_queueVars PROVE QueueInv'
    OBVIOUS
  <2>1. ASSUME NEW j \in Jobs, Push(j) PROVE QueueInv'
    BY <2>1, InvAfterTurnAway, InvAfterPush DEF Push
  <2>2. ASSUME NEW j \in Jobs, Abort(j) PROVE QueueInv'
    BY <2>2, InvAfterAbort
  <2>3. ASSUME NEW j \in Jobs, RunSettles(j) PROVE QueueInv'
    BY <2>3, InvAfterSettle
  <2>4. CASE UNCHANGED queueVars
    BY <2>4 DEF queueVars, QueueInv, Consistent, NoIdleSlot
  <2> QED
    BY <2>1, <2>2, <2>3, <2>4 DEF QueueNext
<1> QED
  BY <1>1, <1>2, PTL DEF QueueSpec

(* Every variable of the queue keeps its type. *)
THEOREM QueueTypeCorrect == QueueSpec => []QueueTypeOK
<1>1. QueueInv => QueueTypeOK
  BY InvImplies
<1> QED
  BY <1>1, QueueInvariant, PTL

(* The gateway's slot is exclusive: at most one job runs, and the flag says so. *)
THEOREM OneJobAtATime == QueueSpec => []OneAtATime
<1>1. QueueInv => OneAtATime
  BY InvImplies
<1> QED
  BY <1>1, QueueInvariant, PTL

(* The line never holds a job whose client is gone, nor one that already started. *)
THEOREM LineHoldsLiveJobs == QueueSpec => []LineIsLive
<1>1. QueueInv => LineIsLive
  BY InvImplies
<1> QED
  BY <1>1, QueueInvariant, PTL

(* No wake-up is lost: nobody waits for a slot that is free. *)
THEOREM NoLostWakeUp == QueueSpec => []NoIdleSlot
<1>1. QueueInv => NoIdleSlot
  BY InvImplies
<1> QED
  BY <1>1, QueueInvariant, PTL

(* Jobs start in the order in which they were accepted. *)
THEOREM FirstInFirstOut == QueueSpec => []StartsInOrder
<1>1. QueueInv => StartsInOrder
  BY InvImplies
<1> QED
  BY <1>1, QueueInvariant, PTL

-------------------------------------------------------------------------------
(* The line never grows past its limit: only an accepted push makes it longer, and it
   needs a free place. *)
LineWithinLimit == Len(waiting) <= MaxLength

LEMMA LimitAfterStep ==
  ASSUME QueueInv, LineWithinLimit, [QueueNext]_queueVars
  PROVE  LineWithinLimit'
<1>1. waiting \in Seq(Jobs) /\ Len(waiting) \in Nat /\ MaxLength \in Nat
  BY LenProperties, MaxLengthAssumption DEF QueueInv, Consistent
<1>2. ASSUME NEW line \in Seq(Jobs), NEW busy, NEW standing, Pump(line, busy, standing),
             Len(line) <= MaxLength
      PROVE  LineWithinLimit'
  <2>1. CASE busy \/ line = <<>>
    BY <1>2, <2>1 DEF Pump, LineWithinLimit
  <2>2. CASE ~(busy \/ line = <<>>)
    <3>1. Len(Tail(line)) = Len(line) - 1 /\ Len(line) \in Nat
      BY <2>2, WithoutHead
    <3>2. waiting' = Tail(line)
      BY <1>2, <2>2 DEF Pump
    <3> QED
      BY <1>1, <1>2, <3>1, <3>2 DEF LineWithinLimit
  <2> QED
    BY <2>1, <2>2
<1>3. ASSUME NEW j \in Jobs, Push(j) PROVE LineWithinLimit'
  <2>1. CASE PushRefused(j) \/ PushDropped(j)
    BY <2>1 DEF PushRefused, PushDropped, LineWithinLimit
  <2>2. CASE PushAccepted(j)
    <3>1. Len(waiting) < MaxLength
          /\ Pump(Append(waiting, j), running, [status EXCEPT ![j] = "waiting"])
      BY <2>2 DEF PushAccepted
    <3>2. Append(waiting, j) \in Seq(Jobs) /\ Len(Append(waiting, j)) = Len(waiting) + 1
      BY <1>1, AppendProperties
    <3>3. Len(Append(waiting, j)) <= MaxLength
      BY <1>1, <3>1, <3>2
    <3> QED
      BY <1>2, <3>1, <3>2, <3>3
  <2> QED
    BY <1>3, <2>1, <2>2 DEF Push
<1>4. ASSUME NEW j \in Jobs, Abort(j) PROVE LineWithinLimit'
  <2>1. CASE status[j] = "waiting"
    <3>1. PICK i \in 1..Len(waiting) : waiting' = Without(waiting, i)
      BY <1>4, <2>1 DEF Abort
    <3>2. Len(waiting') = Len(waiting) - 1
      BY <1>1, <3>1, WithoutOne
    <3> QED
      BY <1>1, <3>2 DEF LineWithinLimit
  <2>2. CASE status[j] # "waiting"
    BY <1>4, <2>2 DEF Abort, LineWithinLimit
  <2> QED
    BY <2>1, <2>2
<1>5. ASSUME NEW j \in Jobs, RunSettles(j) PROVE LineWithinLimit'
  BY <1>1, <1>2, <1>5 DEF RunSettles, LineWithinLimit
<1>6. CASE UNCHANGED queueVars
  BY <1>6 DEF queueVars, LineWithinLimit
<1> QED
  BY <1>3, <1>4, <1>5, <1>6 DEF QueueNext

(* No waiter is in the line twice, so there are as many waiters as places taken. *)
LEMMA WaitersCounted ==
  ASSUME QueueInv
  PROVE  Cardinality(Waiters) = Len(waiting)
<1>1. /\ Len(waiting) \in Nat
      /\ waiting \in [1..Len(waiting) -> Jobs]
      /\ \A i, k \in 1..Len(waiting) : waiting[i] = waiting[k] => i = k
  BY LenProperties DEF QueueInv, Consistent
<1>2. waiting \in Bijection(1..Len(waiting), Waiters)
  BY <1>1 DEF Waiters, Bijection, Injection, Surjection, IsInjective
<1>3. ExistsBijection(1..Len(waiting), Waiters)
  BY <1>2 DEF ExistsBijection
<1> QED
  BY <1>1, <1>3, FS_CountingElements

(* A push is refused only while one job runs and MaxLength others wait, and the line
   never holds more: a free place is never turned down. *)
THEOREM FreePlacesAreGiven == QueueSpec => RefusedOnlyWhenFull
<1>1. QueueInit => LineWithinLimit
  BY EmptySeq, MaxLengthAssumption DEF QueueInit, LineWithinLimit
<1>2. QueueInv /\ LineWithinLimit /\ [QueueNext]_queueVars => LineWithinLimit'
  BY LimitAfterStep
<1> DEFINE Refused(j) == status[j] # "refused" /\ status'[j] = "refused"
<1>3. ASSUME QueueInv, LineWithinLimit, LineWithinLimit', QueueNext
      PROVE  /\ Len(waiting') <= MaxLength
             /\ \A j \in Jobs : Refused(j) => running /\ Cardinality(Waiters) = MaxLength
  <2>1. Len(waiting') <= MaxLength
    BY <1>3 DEF LineWithinLimit
  <2>2. ASSUME NEW j \in Jobs, Refused(j) PROVE running /\ Cardinality(Waiters) = MaxLength
    <3>1. status \in [Jobs -> Statuses]
      BY <1>3 DEF QueueInv, Consistent
    <3>2. PushRefused(j)
      <4>1. PICK k \in Jobs : Push(k) \/ Abort(k) \/ RunSettles(k)
        BY <1>3 DEF QueueNext
      <4>2. ASSUME NEW line \in Seq(Jobs), NEW busy, NEW standing \in [Jobs -> Statuses],
                   standing[j] # "refused"
            PROVE  ~Pump(line, busy, standing)
        BY <2>2, <4>2 DEF Pump
      <4>3. ~PushDropped(k) /\ ~Abort(k)
        BY <2>2, <3>1 DEF PushDropped, Abort
      <4>4. ~PushAccepted(k)
        <5>1. Append(waiting, k) \in Seq(Jobs)
          BY <1>3, AppendProperties DEF QueueInv, Consistent
        <5>2. /\ [status EXCEPT ![k] = "waiting"] \in [Jobs -> Statuses]
              /\ [status EXCEPT ![k] = "waiting"][j] # "refused"
          BY <2>2, <3>1 DEF Statuses
        <5> QED
          BY <4>2, <5>1, <5>2 DEF PushAccepted
      <4>5. ~RunSettles(k)
        <5>1. waiting \in Seq(Jobs)
          BY <1>3 DEF QueueInv, Consistent
        <5>2. /\ [status EXCEPT ![k] = "settled"] \in [Jobs -> Statuses]
              /\ [status EXCEPT ![k] = "settled"][j] # "refused"
          BY <2>2, <3>1 DEF Statuses
        <5> QED
          BY <4>2, <5>1, <5>2 DEF RunSettles
      <4>6. PushRefused(k)
        BY <4>1, <4>3, <4>4, <4>5 DEF Push
      <4> QED
        BY <2>2, <3>1, <4>6 DEF PushRefused
    <3>3. Len(waiting) \in Nat /\ Len(waiting) >= MaxLength /\ MaxLength \in Nat \ {0}
      BY <1>3, <3>2, LenProperties, MaxLengthAssumption DEF QueueInv, Consistent, PushRefused
    <3>4. waiting # <<>>
      BY <3>3, EmptySeq
    <3> QED
      BY <1>3, <3>3, <3>4, WaitersCounted DEF QueueInv, NoIdleSlot, LineWithinLimit
  <2> QED
    BY <2>1, <2>2
<1>4. QueueInv /\ LineWithinLimit /\ LineWithinLimit' /\ [QueueNext]_queueVars
        => [/\ Len(waiting') <= MaxLength
            /\ \A j \in Jobs : Refused(j) => running /\ Cardinality(Waiters) = MaxLength]_queueVars
  BY <1>3
<1> QED
  BY <1>1, <1>2, <1>4, QueueInvariant, PTL DEF QueueSpec, RefusedOnlyWhenFull

-------------------------------------------------------------------------------
(* The reply of a request that runs: nothing, or the headers and what was relayed. *)
Opened(r, f) ==
  /\ f \in Seq(Frames)
  /\ Len(f) > 0 <=> r \in Streaming
  /\ \A i \in 1..Len(f) : IF i = 1 THEN f[i] = "headers" ELSE f[i] \in {"text", "tool"}

(* The reply of a request that was answered. *)
Closed(r, f) ==
  \/ f = <<"json-error">>
  \/ f = <<"json">> /\ r \notin Streaming
  \/ /\ r \in Streaming /\ f \in Seq(Frames) /\ Len(f) >= 3
     /\ f[Len(f)] = "done" /\ f[Len(f) - 1] \in {"stop", "error"}
     /\ \A i \in 1..Len(f) - 2 : IF i = 1 THEN f[i] = "headers" ELSE f[i] \in {"text", "tool"}

(* The reply follows the standing of its request. *)
ReplyInv(r) ==
  /\ status[r] = "running" => r \notin ended /\ Opened(r, frames[r])
  /\ status[r] = "waiting" => r \notin ended
  /\ status[r] \in {"idle", "waiting"} /\ r \notin ended => frames[r] = <<>>
  /\ r \in ended => Closed(r, frames[r])
  /\ r \notin ended => frames[r] = <<>> \/ Opened(r, frames[r])

(* The run of agy follows the slot and the connection. *)
AgyInv(r) ==
  /\ agy[r].stage = "live" <=> status[r] = "running"
  /\ agy[r] = LiveRun => client[r] = "connected"
  /\ r \in aborted => client[r] = "gone"
  /\ client[r] = "gone" /\ status[r] \in {"waiting", "running"} => r \in aborted
  /\ status[r] = "running" /\ ~emitted[r] => Len(frames[r]) <= 1

(* What is recorded was replied. *)
RecordInv(r) ==
  r \in recorded =>
    /\ status[r] = "settled" /\ r \in ended
    /\ frames[r] = <<"json">> \/ frames[r][Len(frames[r]) - 1] = "stop"

RequestInv(r) == ReplyInv(r) /\ AgyInv(r) /\ RecordInv(r)

(* The inductive invariant. *)
ChatInv ==
  /\ QueueInv
  /\ ChatTypeOK
  /\ \A r \in Jobs : RequestInv(r)

-------------------------------------------------------------------------------
(* What the actions of the queue do to the standing of each request. *)

(* An accepted push moves nobody else: with the slot free the line is empty. *)
LEMMA PushEffect ==
  ASSUME QueueInv, NEW r \in Jobs, PushAccepted(r)
  PROVE  /\ status[r] = "idle" /\ r \notin aborted /\ aborted' = aborted
         /\ status'[r] \in {"waiting", "running"}
         /\ \A k \in Jobs \ {r} : status'[k] = status[k]
<1> DEFINE line == Append(waiting, r)
           standing == [status EXCEPT ![r] = "waiting"]
<1>1. /\ status[r] = "idle" /\ r \notin aborted /\ aborted' = aborted
      /\ Pump(line, running, standing)
  BY DEF PushAccepted
<1>2. /\ waiting \in Seq(Jobs) /\ status \in [Jobs -> Statuses]
      /\ waiting # <<>> => running
  BY DEF QueueInv, Consistent, NoIdleSlot
<1>3. /\ standing[r] = "waiting"
      /\ \A k \in Jobs \ {r} : standing[k] = status[k]
  BY <1>2
<1>4. CASE running \/ line = <<>>
  BY <1>1, <1>3, <1>4 DEF Pump
<1>5. CASE ~(running \/ line = <<>>)
  <2>1. waiting = <<>>
    BY <1>2, <1>5
  <2>2. Head(line) = r
    BY <1>2, <2>1, HeadTailAppend
  <2>3. status' = [standing EXCEPT ![r] = "running"]
    BY <1>1, <1>5, <2>2 DEF Pump
  <2> QED
    BY <1>1, <1>2, <1>3, <2>3
<1> QED
  BY <1>4, <1>5

(* The settlement of a run may start one of those that wait. *)
LEMMA SettleEffect ==
  ASSUME QueueInv, NEW r \in Jobs, RunSettles(r)
  PROVE  /\ status[r] = "running" /\ status'[r] = "settled" /\ aborted' = aborted
         /\ \A k \in Jobs \ {r} : \/ status'[k] = status[k]
                                  \/ status[k] = "waiting" /\ status'[k] = "running"
<1> DEFINE standing == [status EXCEPT ![r] = "settled"]
<1>1. status[r] = "running" /\ aborted' = aborted /\ Pump(waiting, FALSE, standing)
  BY DEF RunSettles
<1>2. waiting \in Seq(Jobs) /\ status \in [Jobs -> Statuses]
  BY DEF QueueInv, Consistent
<1>3. /\ standing[r] = "settled"
      /\ \A k \in Jobs \ {r} : standing[k] = status[k]
  BY <1>2
<1>4. CASE waiting = <<>>
  BY <1>1, <1>3, <1>4 DEF Pump
<1>5. CASE waiting # <<>>
  <2>1. Head(waiting) = waiting[1] /\ 1 \in 1..Len(waiting)
    BY <1>2, <1>5, WithoutHead
  <2>2. Head(waiting) \in Jobs /\ status[Head(waiting)] = "waiting"
    BY <1>2, <2>1, ElementOfSeq DEF QueueInv, Consistent
  <2>3. status' = [standing EXCEPT ![Head(waiting)] = "running"]
    BY <1>1, <1>5 DEF Pump
  <2> QED
    BY <1>1, <1>2, <1>3, <2>2, <2>3
<1> QED
  BY <1>4, <1>5

(* An abort moves at most the waiter it is about. *)
LEMMA AbortEffect ==
  ASSUME QueueInv, NEW r \in Jobs, Abort(r)
  PROVE  /\ aborted' = aborted \cup {r}
         /\ status'[r] = IF status[r] = "waiting" THEN "dropped" ELSE status[r]
         /\ \A k \in Jobs \ {r} : status'[k] = status[k]
BY DEF Abort, QueueInv, Consistent

(* A restart leaves an empty queue and a free slot. *)
LEMMA InvAfterRestart ==
  ASSUME QueueInv, Restart
  PROVE  QueueInv'
<1>1. /\ waiting' = <<>> /\ running' = FALSE
      /\ UNCHANGED <<aborted, arrival, accepted>>
      /\ status' = [r \in Jobs |-> IF status[r] \in {"waiting", "running"} THEN "dropped"
                                  ELSE status[r]]
  BY DEF Restart
<1>2. <<>> \in Seq(Jobs) /\ Len(<<>>) = 0
  BY EmptySeq
<1>3. status' \in [Jobs -> Statuses]
  BY <1>1 DEF QueueInv, Consistent, Statuses
<1>4. \A r \in Jobs : status'[r] \notin {"waiting", "running"}
  BY <1>1
<1>5. \A i \in 1..Len(waiting') : FALSE
  BY <1>1, <1>2
<1>6. /\ aborted' \subseteq Jobs /\ arrival' \in [Jobs -> Nat] /\ accepted' \in Nat
      /\ \A j \in Jobs : arrival'[j] <= accepted'
  BY <1>1 DEF QueueInv, Consistent
<1>7. Consistent(waiting', running', status', aborted', arrival', accepted')
  BY <1>1, <1>2, <1>3, <1>4, <1>5, <1>6 DEF Consistent
<1> QED
  BY <1>1, <1>7 DEF QueueInv, NoIdleSlot

-------------------------------------------------------------------------------
(* What a reply looks like as it grows. *)

LEMMA OpensAtStart ==
  ASSUME NEW r \in Jobs
  PROVE  Opened(r, IF r \in Streaming THEN <<"headers">> ELSE <<>>)
<1>1. <<"headers">> \in Seq(Frames) /\ Len(<<"headers">>) = 1 /\ <<"headers">>[1] = "headers"
  BY DEF Frames
<1>2. <<>> \in Seq(Frames) /\ Len(<<>>) = 0
  BY EmptySeq
<1> QED
  BY <1>1, <1>2 DEF Opened

LEMMA RelayKeepsOpen ==
  ASSUME NEW r \in Streaming, NEW f, Opened(r, f), NEW frame \in {"text", "tool"}
  PROVE  Opened(r, Append(f, frame))
<1>1. f \in Seq(Frames) /\ Len(f) \in Nat /\ Len(f) > 0 /\ frame \in Frames
  BY LenProperties DEF Opened, Frames
<1>2. /\ Append(f, frame) \in Seq(Frames)
      /\ Len(Append(f, frame)) = Len(f) + 1
      /\ \A i \in 1..Len(f) : Append(f, frame)[i] = f[i]
      /\ Append(f, frame)[Len(f) + 1] = frame
  BY <1>1, AppendProperties
<1>3. \A i \in 1..Len(f) + 1 : i \in 1..Len(f) \/ (i = Len(f) + 1 /\ i # 1)
  BY <1>1
<1> QED
  BY <1>1, <1>2, <1>3 DEF Opened

(* A stream is completed by its last two frames. *)
LEMMA StreamCloses ==
  ASSUME NEW r \in Streaming, NEW f, Opened(r, f), NEW verdict \in {"stop", "error"}
  PROVE  /\ Closed(r, f \o <<verdict, "done">>)
         /\ f \o <<verdict, "done">> \in Seq(Frames)
         /\ (f \o <<verdict, "done">>)[Len(f \o <<verdict, "done">>) - 1] = verdict
<1> DEFINE tail == <<verdict, "done">>
           whole == f \o tail
<1>1. f \in Seq(Frames) /\ Len(f) \in Nat /\ Len(f) >= 1
  BY LenProperties DEF Opened
<1>2. tail \in Seq(Frames) /\ Len(tail) = 2 /\ tail[1] = verdict /\ tail[2] = "done"
  BY DEF Frames
<1>3. /\ whole \in Seq(Frames)
      /\ Len(whole) = Len(f) + 2
      /\ \A i \in 1..Len(f) + 2 : whole[i] = IF i <= Len(f) THEN f[i] ELSE tail[i - Len(f)]
  <2>1. /\ whole \in Seq(Frames)
        /\ Len(whole) = Len(f) + Len(tail)
        /\ \A i \in 1..Len(f) + Len(tail) :
             whole[i] = IF i <= Len(f) THEN f[i] ELSE tail[i - Len(f)]
    <3> HIDE DEF tail
    <3> QED
      BY <1>1, <1>2, ConcatProperties, Zenon
  <2> QED
    BY <1>2, <2>1
<1> HIDE DEF whole, tail
<1>4. /\ Len(whole) - 1 = Len(f) + 1 /\ Len(whole) - 2 = Len(f) /\ Len(whole) >= 3
      /\ Len(f) + 1 \in 1..Len(f) + 2 /\ Len(f) + 2 \in 1..Len(f) + 2
      /\ ~(Len(f) + 1 <= Len(f)) /\ ~(Len(f) + 2 <= Len(f))
      /\ (Len(f) + 1) - Len(f) = 1 /\ (Len(f) + 2) - Len(f) = 2
  BY <1>1, <1>3
<1>5. whole[Len(whole) - 1] = verdict /\ whole[Len(whole)] = "done"
  BY <1>2, <1>3, <1>4
<1>6. \A i \in 1..Len(whole) - 2 : whole[i] = f[i]
  BY <1>1, <1>3, <1>4
<1>7. Closed(r, whole)
  BY <1>1, <1>3, <1>4, <1>5, <1>6 DEF Opened, Closed
<1> QED
  BY <1>3, <1>5, <1>7 DEF whole, tail

(* SuccessReply and ErrorReply complete the reply of a request that runs. *)
LEMMA ReplyCloses ==
  ASSUME NEW r \in Jobs, Opened(r, frames[r]),
         NEW tail \in {SuccessReply(r), ErrorReply(r)}
  PROVE  /\ Closed(r, frames[r] \o tail)
         /\ frames[r] \o tail \in Seq(Frames)
         /\ tail = SuccessReply(r) =>
              \/ frames[r] \o tail = <<"json">>
              \/ (frames[r] \o tail)[Len(frames[r] \o tail) - 1] = "stop"
<1>1. CASE r \in Streaming
  <2>1. frames[r] # <<>>
    BY <1>1, EmptySeq DEF Opened
  <2>2. tail = <<"error", "done">> \/ tail = <<"stop", "done">>
    BY <1>1, <2>1 DEF SuccessReply, ErrorReply
  <2>3. tail = SuccessReply(r) => tail = <<"stop", "done">>
    BY <1>1 DEF SuccessReply
  <2> QED
    BY <1>1, <2>2, <2>3, StreamCloses
<1>2. CASE r \notin Streaming
  <2>1. frames[r] = <<>>
    BY <1>2, EmptySeq DEF Opened
  <2>2. /\ <<>> \o <<"json">> = <<"json">> /\ <<>> \o <<"json-error">> = <<"json-error">>
        /\ <<"json">> \in Seq(Frames) /\ <<"json-error">> \in Seq(Frames)
    BY DEF Frames
  <2>3. SuccessReply(r) = <<"json">> /\ ErrorReply(r) = <<"json-error">>
    BY <1>2, <2>1 DEF SuccessReply, ErrorReply
  <2> QED
    BY <1>2, <2>1, <2>2, <2>3 DEF Closed
<1> QED
  BY <1>1, <1>2

-------------------------------------------------------------------------------
(* The invariant of one request. *)

LEMMA Untouched ==
  ASSUME NEW k \in Jobs, RequestInv(k),
         status'[k] = status[k], frames'[k] = frames[k], client'[k] = client[k],
         agy'[k] = agy[k], emitted'[k] = emitted[k],
         k \in ended' <=> k \in ended, k \in aborted' <=> k \in aborted,
         k \in recorded' <=> k \in recorded
  PROVE  RequestInv(k)'
BY DEF RequestInv, ReplyInv, AgyInv, RecordInv

(* A request that gets the slot opens its stream and spawns agy. *)
LEMMA Started ==
  ASSUME NEW k \in Jobs, frames[k] = <<>>, client[k] = "connected", k \notin ended,
         k \notin aborted, k \notin recorded,
         status'[k] = "running", agy'[k] = LiveRun,
         frames'[k] = IF k \in Streaming THEN <<"headers">> ELSE <<>>,
         client'[k] = client[k],
         k \in ended' <=> k \in ended, k \in aborted' <=> k \in aborted,
         k \in recorded' <=> k \in recorded
  PROVE  RequestInv(k)'
<1>1. Opened(k, frames'[k])
  BY OpensAtStart
<1>2. Len(frames'[k]) <= 1
  BY EmptySeq
<1> QED
  BY <1>1, <1>2 DEF RequestInv, ReplyInv, AgyInv, RecordInv, LiveRun, Opened

(* One that waits can be started: nothing was written, and its client is there. *)
LEMMA WaitsClean ==
  ASSUME ChatInv, NEW k \in Jobs, status[k] = "waiting"
  PROVE  /\ frames[k] = <<>> /\ client[k] = "connected" /\ k \notin ended
         /\ k \notin aborted /\ k \notin recorded
<1>1. LineIsLive
  BY InvImplies DEF ChatInv
<1>2. k \notin aborted
  BY <1>1 DEF LineIsLive
<1> QED
  BY <1>2 DEF ChatInv, RequestInv, ReplyInv, AgyInv, RecordInv, ChatTypeOK

-------------------------------------------------------------------------------
(* One lemma for each action: it keeps the invariant. *)

LEMMA QueueStays ==
  ASSUME QueueInv, UNCHANGED queueVars
  PROVE  QueueInv'
BY DEF queueVars, QueueInv, Consistent, NoIdleSlot

LEMMA AfterStutter ==
  ASSUME ChatInv, UNCHANGED vars
  PROVE  ChatInv'
<1>1. QueueInv'
  BY QueueStays DEF ChatInv, vars
<1>2. ASSUME NEW k \in Jobs PROVE RequestInv(k)'
  BY Untouched DEF ChatInv, vars, queueVars, chatVars
<1>3. ChatTypeOK'
  BY DEF ChatInv, vars, chatVars, ChatTypeOK
<1> QED
  BY <1>1, <1>2, <1>3 DEF ChatInv

(* A JSON error to a request that never ran: its body is the whole reply. *)
LEMMA JsonErrorReplies ==
  ASSUME ChatTypeOK, NEW r \in Jobs, RequestInv(r), status[r] = "idle", r \notin ended,
         client[r] = "connected", Reply(r, <<"json-error">>), r \notin recorded,
         client'[r] = client[r], agy'[r] = agy[r],
         status'[r] \in {"idle", "refused"}, aborted' = aborted, recorded' = recorded
  PROVE  /\ frames' \in [Jobs -> Seq(Frames)] /\ ended' \subseteq Jobs
         /\ \A k \in Jobs \ {r} : frames'[k] = frames[k] /\ (k \in ended' <=> k \in ended)
         /\ RequestInv(r)'
<1>1. /\ frames' = [frames EXCEPT ![r] = @ \o <<"json-error">>]
      /\ ended' = ended \cup {r}
  BY DEF Reply
<1>2. frames[r] = <<>>
  BY DEF RequestInv, ReplyInv
<1>3. <<>> \o <<"json-error">> = <<"json-error">> /\ <<"json-error">> \in Seq(Frames)
  BY DEF Frames
<1>4. /\ frames'[r] = <<"json-error">>
      /\ frames' \in [Jobs -> Seq(Frames)]
  BY <1>1, <1>2, <1>3 DEF ChatTypeOK
<1>5. RequestInv(r)'
  BY <1>1, <1>4 DEF RequestInv, ReplyInv, AgyInv, RecordInv, Closed
<1> QED
  BY <1>1, <1>4, <1>5 DEF ChatTypeOK

LEMMA AfterReject ==
  ASSUME ChatInv, NEW r \in Jobs, RejectRequest(r)
  PROVE  ChatInv'
<1>1. /\ status[r] = "idle" /\ r \notin ended /\ Reply(r, <<"json-error">>)
      /\ UNCHANGED <<queueVars, client, agy, retryVars, emitted, recorded, processVars>>
  BY DEF RejectRequest
<1>2. CASE client[r] = "gone"
  <2>1. UNCHANGED vars
    BY <1>1, <1>2 DEF Reply, vars, chatVars, queueVars, retryVars, processVars
  <2> QED
    BY <2>1, AfterStutter
<1>3. CASE client[r] # "gone"
  <2>1. client[r] = "connected"
    BY <1>3 DEF ChatInv, ChatTypeOK
  <2>2. RequestInv(r) /\ r \notin recorded /\ ChatTypeOK
    BY <1>1 DEF ChatInv, RequestInv, RecordInv
  <2>3. /\ frames' \in [Jobs -> Seq(Frames)] /\ ended' \subseteq Jobs
        /\ \A k \in Jobs \ {r} : frames'[k] = frames[k] /\ (k \in ended' <=> k \in ended)
        /\ RequestInv(r)'
    BY <1>1, <2>1, <2>2, JsonErrorReplies DEF queueVars
  <2>4. ASSUME NEW k \in Jobs PROVE RequestInv(k)'
    BY <1>1, <2>3, Untouched DEF ChatInv, queueVars
  <2>5. ChatTypeOK'
    BY <1>1, <2>3 DEF ChatInv, ChatTypeOK, retryVars, processVars
  <2> QED
    BY <1>1, <2>4, <2>5, QueueStays DEF ChatInv
<1> QED
  BY <1>2, <1>3

LEMMA AfterSubmit ==
  ASSUME ChatInv, NEW r \in Jobs, Submit(r)
  PROVE  ChatInv'
<1>1. /\ client[r] = "connected" /\ r \notin ended
      /\ UNCHANGED <<client, eligibilityAttempts, emptyAttempts, emitted, recorded, processVars>>
  BY DEF Submit
<1>2. QueueInv /\ ChatTypeOK /\ RequestInv(r)
  BY DEF ChatInv
<1>3. CASE PushAccepted(r)
  <2>1. /\ frames' = IF Starts(r) /\ r \in Streaming
                     THEN [frames EXCEPT ![r] = <<"headers">>] ELSE frames
        /\ agy' = IF Starts(r) THEN [agy EXCEPT ![r] = LiveRun] ELSE agy
        /\ attempts' = IF Starts(r) THEN [attempts EXCEPT ![r] = 1] ELSE attempts
        /\ UNCHANGED ended
    <3>1. ~PushRefused(r)
      <4>1. Len(waiting) \in Nat /\ MaxLength \in Nat
        BY <1>2, LenProperties, MaxLengthAssumption DEF QueueInv, Consistent
      <4> QED
        BY <1>3, <4>1 DEF PushAccepted, PushRefused
    <3> QED
      BY <3>1 DEF Submit
  <2>2. /\ status[r] = "idle" /\ r \notin aborted /\ aborted' = aborted
        /\ status'[r] \in {"waiting", "running"}
        /\ \A k \in Jobs \ {r} : status'[k] = status[k]
    BY <1>2, <1>3, PushEffect
  <2>3. QueueInv'
    BY <1>2, <1>3, InvAfterPush
  <2>4. frames[r] = <<>> /\ r \notin recorded
    BY <1>1, <1>2, <2>2 DEF RequestInv, ReplyInv, RecordInv
  <2>5. <<"headers">> \in Seq(Frames)
    BY DEF Frames
  <2>6. ChatTypeOK'
    BY <1>1, <1>2, <2>1, <2>5 DEF ChatTypeOK, LiveRun, processVars
  <2>7. ASSUME NEW k \in Jobs \ {r} PROVE RequestInv(k)'
    BY <1>1, <2>1, <2>2, <2>7, Untouched DEF ChatInv, ChatTypeOK
  <2>8. CASE status'[r] = "running"
    <3>1. Starts(r)
      BY <2>2, <2>8 DEF Starts
    <3>2. /\ frames'[r] = IF r \in Streaming THEN <<"headers">> ELSE <<>>
          /\ agy'[r] = LiveRun
      BY <1>2, <2>1, <2>4, <3>1 DEF ChatTypeOK
    <3>3. RequestInv(r)'
      BY <1>1, <2>1, <2>2, <2>4, <2>8, <3>2, Started
    <3> QED
      BY <2>3, <2>6, <2>7, <3>3 DEF ChatInv
  <2>9. CASE status'[r] = "waiting"
    <3>1. ~Starts(r)
      BY <2>9 DEF Starts
    <3>2. RequestInv(r)'
      BY <1>1, <1>2, <2>1, <2>2, <2>4, <2>9, <3>1
         DEF RequestInv, ReplyInv, AgyInv, RecordInv
    <3> QED
      BY <2>3, <2>6, <2>7, <3>2 DEF ChatInv
  <2> QED
    BY <2>2, <2>8, <2>9
<1>4. CASE ~PushAccepted(r)
  <2>1. PushRefused(r) /\ Reply(r, <<"json-error">>) /\ UNCHANGED <<agy, attempts>>
    BY <1>4 DEF Submit
  <2>2. /\ status[r] = "idle" /\ status'[r] = "refused" /\ aborted' = aborted
        /\ \A k \in Jobs \ {r} : status'[k] = status[k]
    BY <1>2, <2>1 DEF PushRefused, QueueInv, Consistent
  <2>3. QueueInv'
    BY <1>2, <2>1, InvAfterTurnAway
  <2>4. r \notin recorded
    BY <1>2, <2>2 DEF RequestInv, RecordInv
  <2>5. /\ frames' \in [Jobs -> Seq(Frames)] /\ ended' \subseteq Jobs
        /\ \A k \in Jobs \ {r} : frames'[k] = frames[k] /\ (k \in ended' <=> k \in ended)
        /\ RequestInv(r)'
    BY <1>1, <1>2, <2>1, <2>2, <2>4, JsonErrorReplies
  <2>6. ASSUME NEW k \in Jobs PROVE RequestInv(k)'
    BY <1>1, <2>1, <2>2, <2>5, Untouched DEF ChatInv
  <2>7. ChatTypeOK'
    BY <1>1, <1>2, <2>1, <2>5 DEF ChatTypeOK, processVars
  <2> QED
    BY <2>3, <2>6, <2>7 DEF ChatInv
<1> QED
  BY <1>3, <1>4

LEMMA AfterClientLeaves ==
  ASSUME ChatInv, NEW r \in Jobs, ClientLeaves(r)
  PROVE  ChatInv'
<1>1. /\ client[r] = "connected" /\ client' = [client EXCEPT ![r] = "gone"]
      /\ agy' = IF r \notin ended /\ agy[r] = LiveRun
                THEN [agy EXCEPT ![r].cause = "aborted"] ELSE agy
      /\ UNCHANGED <<frames, ended, retryVars, emitted, recorded, processVars>>
  BY DEF ClientLeaves
<1>2. QueueInv /\ ChatTypeOK /\ RequestInv(r)
  BY DEF ChatInv
<1>3. /\ \A k \in Jobs \ {r} : client'[k] = client[k] /\ agy'[k] = agy[k]
      /\ client'[r] = "gone"
      /\ agy'[r].stage = agy[r].stage
      /\ r \notin ended => agy'[r] # LiveRun
      /\ r \in ended => agy'[r] = agy[r]
  BY <1>1, <1>2 DEF ChatTypeOK, LiveRun
<1>4. ChatTypeOK'
  BY <1>1, <1>2 DEF ChatTypeOK, retryVars, processVars, Causes
<1>5. CASE r \notin ended /\ status[r] \in {"waiting", "running"}
  <2>1. Abort(r)
    BY <1>5 DEF ClientLeaves
  <2>2. /\ aborted' = aborted \cup {r}
        /\ status'[r] = IF status[r] = "waiting" THEN "dropped" ELSE status[r]
        /\ \A k \in Jobs \ {r} : status'[k] = status[k]
    BY <1>2, <2>1, AbortEffect
  <2>3. QueueInv'
    BY <1>2, <2>1, InvAfterAbort
  <2>4. ASSUME NEW k \in Jobs \ {r} PROVE RequestInv(k)'
    BY <1>1, <1>3, <2>2, <2>4, Untouched DEF ChatInv
  <2>5. RequestInv(r)'
    BY <1>1, <1>2, <1>3, <1>5, <2>2 DEF RequestInv, ReplyInv, AgyInv, RecordInv
  <2> QED
    BY <1>4, <2>3, <2>4, <2>5 DEF ChatInv
<1>6. CASE ~(r \notin ended /\ status[r] \in {"waiting", "running"})
  <2>1. UNCHANGED queueVars
    BY <1>6 DEF ClientLeaves
  <2>2. QueueInv'
    BY <1>2, <2>1, QueueStays
  <2>3. ASSUME NEW k \in Jobs \ {r} PROVE RequestInv(k)'
    BY <1>1, <1>3, <2>1, Untouched DEF ChatInv, queueVars
  <2>4. status[r] \notin {"waiting", "running"} /\ agy[r] # LiveRun
    BY <1>2, <1>6 DEF RequestInv, ReplyInv, AgyInv, LiveRun
  <2>5. RequestInv(r)'
    BY <1>1, <1>2, <1>3, <2>1, <2>4
       DEF RequestInv, ReplyInv, AgyInv, RecordInv, queueVars
  <2> QED
    BY <1>4, <2>2, <2>3, <2>5 DEF ChatInv
<1> QED
  BY <1>5, <1>6

LEMMA AfterStopAgy ==
  ASSUME ChatInv, NEW r \in Jobs, StopAgy(r)
  PROVE  ChatInv'
<1>1. PICK c \in Causes : agy' = [agy EXCEPT ![r].cause = c]
  BY DEF StopAgy
<1>2. /\ agy[r] = LiveRun
      /\ UNCHANGED <<queueVars, client, frames, ended, retryVars, emitted, recorded,
                     processVars>>
  BY DEF StopAgy
<1>3. /\ agy'[r].stage = agy[r].stage /\ agy'[r] # LiveRun
      /\ \A k \in Jobs \ {r} : agy'[k] = agy[k]
  BY <1>1, <1>2 DEF ChatInv, ChatTypeOK, LiveRun, Causes
<1>4. ChatTypeOK'
  BY <1>1, <1>2 DEF ChatInv, ChatTypeOK, retryVars, processVars
<1>5. ASSUME NEW k \in Jobs \ {r} PROVE RequestInv(k)'
  BY <1>2, <1>3, Untouched DEF ChatInv, queueVars
<1>6. RequestInv(r)'
  BY <1>2, <1>3 DEF ChatInv, RequestInv, ReplyInv, AgyInv, RecordInv, queueVars
<1> QED
  BY <1>2, <1>4, <1>5, <1>6, QueueStays DEF ChatInv

LEMMA AfterRelay ==
  ASSUME ChatInv, NEW r \in Jobs, NEW frame \in {"text", "tool"}, Relay(r, frame)
  PROVE  ChatInv'
<1>1. /\ agy[r].stage = "live" /\ r \in Streaming
      /\ frames' = [frames EXCEPT ![r] = Append(@, frame)]
      /\ emitted' = [emitted EXCEPT ![r] = TRUE]
      /\ UNCHANGED <<queueVars, client, ended, agy, retryVars, recorded, processVars>>
  BY DEF Relay
<1>2. status[r] = "running" /\ r \notin ended /\ r \notin recorded /\ Opened(r, frames[r])
  BY <1>1 DEF ChatInv, RequestInv, ReplyInv, AgyInv, RecordInv
<1>3. Opened(r, Append(frames[r], frame))
  BY <1>1, <1>2, RelayKeepsOpen
<1>4. /\ frames'[r] = Append(frames[r], frame) /\ emitted'[r] = TRUE
      /\ \A k \in Jobs \ {r} : frames'[k] = frames[k] /\ emitted'[k] = emitted[k]
  BY <1>1 DEF ChatInv, ChatTypeOK
<1>5. ChatTypeOK'
  <2>1. frames' \in [Jobs -> Seq(Frames)]
    BY <1>1, <1>3 DEF ChatInv, ChatTypeOK, Opened
  <2> QED
    BY <1>1, <2>1 DEF ChatInv, ChatTypeOK, retryVars, processVars
<1>6. ASSUME NEW k \in Jobs \ {r} PROVE RequestInv(k)'
  BY <1>1, <1>4, Untouched DEF ChatInv, queueVars
<1>7. RequestInv(r)'
  <2>1. ReplyInv(r)'
    BY <1>1, <1>2, <1>3, <1>4 DEF ReplyInv, Opened, queueVars
  <2>2. AgyInv(r)'
    BY <1>1, <1>4 DEF ChatInv, RequestInv, AgyInv, queueVars
  <2>3. RecordInv(r)'
    BY <1>1, <1>2 DEF RecordInv
  <2> QED
    BY <2>1, <2>2, <2>3 DEF RequestInv
<1> QED
  BY <1>1, <1>5, <1>6, <1>7, QueueStays DEF ChatInv

LEMMA AfterRetry ==
  ASSUME ChatInv, NEW r \in Jobs, Retry(r)
  PROVE  ChatInv'
<1>1. PICK outcome \in {"transient", "empty"} :
        /\ Retries(r, outcome)
        /\ attempts' = [attempts EXCEPT ![r] = @ + 1]
        /\ eligibilityAttempts' = [eligibilityAttempts EXCEPT ![r] =
             IF outcome = "transient" THEN @ + 1 ELSE @]
        /\ emptyAttempts' = [emptyAttempts EXCEPT ![r] = IF outcome = "empty" THEN @ + 1 ELSE @]
        /\ UNCHANGED <<queueVars, client, frames, ended, agy, emitted, recorded, processVars>>
  BY DEF Retry
<1>2. ChatTypeOK
  BY DEF ChatInv
<1>3. eligibilityAttempts' \in [Jobs -> 0..MAX_ELIGIBILITY_RETRIES - 1]
  <2>1. eligibilityAttempts[r] \in Nat /\ MAX_ELIGIBILITY_RETRIES \in Nat
    BY <1>2, RetriesAssumption DEF ChatTypeOK
  <2>2. outcome = "transient" =>
          eligibilityAttempts[r] + 1 \in 0..MAX_ELIGIBILITY_RETRIES - 1
    BY <1>1, <2>1 DEF Retries
  <2> QED
    BY <1>1, <1>2, <2>2 DEF ChatTypeOK
<1>4. emptyAttempts' \in [Jobs -> 0..MAX_EMPTY_OUTPUT_RETRIES]
  <2>1. emptyAttempts[r] \in Nat /\ MAX_EMPTY_OUTPUT_RETRIES \in Nat
    BY <1>2, RetriesAssumption DEF ChatTypeOK
  <2>2. outcome = "empty" => emptyAttempts[r] + 1 \in 0..MAX_EMPTY_OUTPUT_RETRIES
    BY <1>1, <2>1 DEF Retries
  <2> QED
    BY <1>1, <1>2, <2>2 DEF ChatTypeOK
<1>5. ChatTypeOK'
  BY <1>1, <1>2, <1>3, <1>4 DEF ChatTypeOK, processVars
<1>6. ASSUME NEW k \in Jobs PROVE RequestInv(k)'
  BY <1>1, Untouched DEF ChatInv, queueVars
<1> QED
  BY <1>1, <1>5, <1>6, QueueStays DEF ChatInv

(* The run of r ends: its reply is completed unless its client is gone, and the waiter
   that gets the slot starts clean. *)
LEMMA AfterHandOver ==
  ASSUME ChatInv, NEW r \in Jobs, agy[r].stage = "live", RunSettles(r),
         NEW tail \in {SuccessReply(r), ErrorReply(r)}, HandOver(r, tail),
         recorded' = recorded
           \/ (recorded' = recorded \cup {r} /\ agy[r] = LiveRun /\ tail = SuccessReply(r)),
         lingering' \subseteq Jobs, UNCHANGED <<client, restarts>>
  PROVE  ChatInv'
<1>1. QueueInv /\ ChatTypeOK /\ RequestInv(r)
  BY DEF ChatInv
<1>2. /\ status[r] = "running" /\ status'[r] = "settled" /\ aborted' = aborted
      /\ \A k \in Jobs \ {r} : \/ status'[k] = status[k]
                               \/ status[k] = "waiting" /\ status'[k] = "running"
  BY <1>1, SettleEffect
<1>3. QueueInv'
  BY <1>1, InvAfterSettle
<1>4. Opened(r, frames[r]) /\ r \notin ended /\ r \notin recorded
  BY <1>1, <1>2 DEF RequestInv, ReplyInv, RecordInv
<1>5. /\ Closed(r, frames[r] \o tail)
      /\ frames[r] \o tail \in Seq(Frames)
      /\ tail = SuccessReply(r) =>
           \/ frames[r] \o tail = <<"json">>
           \/ (frames[r] \o tail)[Len(frames[r] \o tail) - 1] = "stop"
  BY <1>4, ReplyCloses
<1>6. /\ ~Starts(r)
      /\ \A k \in Jobs \ {r} : Starts(k) => status[k] = "waiting" /\ status'[k] = "running"
      /\ \A k \in Jobs \ {r} : ~Starts(k) => status'[k] = status[k]
  BY <1>2 DEF Starts
<1>7. /\ frames'[r] = IF client[r] = "connected" THEN frames[r] \o tail ELSE frames[r]
      /\ \A k \in Jobs \ {r} : frames'[k] = IF Starts(k) /\ k \in Streaming THEN <<"headers">>
                                            ELSE frames[k]
      /\ ended' = IF client[r] = "connected" THEN ended \cup {r} ELSE ended
      /\ agy'[r] = NoRun
      /\ \A k \in Jobs \ {r} : agy'[k] = IF Starts(k) THEN LiveRun ELSE agy[k]
      /\ \A k \in Jobs \ {r} : emitted'[k] = emitted[k]
  BY <1>1, <1>6 DEF HandOver, ChatTypeOK
<1>8. ChatTypeOK'
  <2>1. frames' \in [Jobs -> Seq(Frames)]
    <3>1. <<"headers">> \in Seq(Frames)
      BY DEF Frames
    <3>2. \A k \in Jobs : frames[k] \in Seq(Frames)
      BY <1>1 DEF ChatTypeOK
    <3> QED
      BY <1>5, <3>1, <3>2 DEF HandOver
  <2>2. agy' \in [Jobs -> [stage : {"idle", "live"}, cause : Causes \cup {"none"}]]
    <3>1. /\ LiveRun \in [stage : {"idle", "live"}, cause : Causes \cup {"none"}]
          /\ NoRun \in [stage : {"idle", "live"}, cause : Causes \cup {"none"}]
      BY DEF LiveRun, NoRun
    <3>2. \A k \in Jobs : agy[k] \in [stage : {"idle", "live"}, cause : Causes \cup {"none"}]
      BY <1>1 DEF ChatTypeOK
    <3> HIDE DEF LiveRun, NoRun
    <3> QED
      BY <3>1, <3>2 DEF HandOver
  <2>3. attempts' \in [Jobs -> Nat]
    BY <1>1 DEF HandOver, ChatTypeOK
  <2>4. /\ eligibilityAttempts' \in [Jobs -> 0..MAX_ELIGIBILITY_RETRIES - 1]
        /\ emptyAttempts' \in [Jobs -> 0..MAX_EMPTY_OUTPUT_RETRIES]
        /\ emitted' \in [Jobs -> BOOLEAN]
    <3>1. 0 \in 0..MAX_ELIGIBILITY_RETRIES - 1 /\ 0 \in 0..MAX_EMPTY_OUTPUT_RETRIES
      BY RetriesAssumption
    <3> QED
      BY <1>1, <3>1 DEF HandOver, ChatTypeOK
  <2>5. ended' \subseteq Jobs /\ recorded' \subseteq Jobs
    BY <1>1, <1>7 DEF ChatTypeOK
  <2> QED
    BY <1>1, <2>1, <2>2, <2>3, <2>4, <2>5 DEF ChatTypeOK
<1>9. RequestInv(r)'
  <2>1. agy'[r].stage = "idle" /\ agy'[r] # LiveRun
    BY <1>7 DEF NoRun, LiveRun
  <2>2. CASE client[r] = "connected"
    <3>1. frames'[r] = frames[r] \o tail /\ r \in ended'
      BY <1>7, <2>2
    <3>2. RecordInv(r)'
      BY <1>2, <1>4, <1>5, <3>1 DEF RecordInv
    <3> QED
      BY <1>1, <1>2, <1>5, <2>1, <2>2, <3>1, <3>2 DEF RequestInv, ReplyInv, AgyInv
  <2>3. CASE client[r] # "connected"
    <3>1. agy[r] # LiveRun
      BY <1>1, <2>3 DEF RequestInv, AgyInv
    <3>2. r \notin recorded' /\ frames'[r] = frames[r] /\ r \notin ended'
      BY <1>4, <1>7, <2>3, <3>1
    <3> QED
      BY <1>1, <1>2, <1>4, <2>1, <3>2 DEF RequestInv, ReplyInv, AgyInv, RecordInv
  <2> QED
    BY <2>2, <2>3
<1>10. ASSUME NEW k \in Jobs \ {r} PROVE RequestInv(k)'
  <2>1. k \in ended' <=> k \in ended
    BY <1>7, <1>10
  <2>2. k \in recorded' <=> k \in recorded
    BY <1>10
  <2>3. CASE Starts(k)
    <3>1. status[k] = "waiting" /\ status'[k] = "running"
      BY <1>6, <1>10, <2>3
    <3>2. /\ frames[k] = <<>> /\ client[k] = "connected" /\ k \notin ended
          /\ k \notin aborted /\ k \notin recorded
      BY <3>1, WaitsClean
    <3>3. /\ agy'[k] = LiveRun
          /\ frames'[k] = IF k \in Streaming THEN <<"headers">> ELSE <<>>
      BY <1>7, <1>10, <2>3, <3>2
    <3> QED
      BY <1>2, <2>1, <2>2, <3>1, <3>2, <3>3, Started
  <2>4. CASE ~Starts(k)
    BY <1>2, <1>6, <1>7, <1>10, <2>1, <2>2, <2>4, Untouched DEF ChatInv
  <2> QED
    BY <2>3, <2>4
<1> QED
  BY <1>3, <1>8, <1>9, <1>10 DEF ChatInv

LEMMA AfterFinish ==
  ASSUME ChatInv, NEW r \in Jobs, Succeed(r) \/ FailOutcome(r) \/ FailRun(r)
  PROVE  ChatInv'
<1>1. lingering \subseteq Jobs
  BY DEF ChatInv, ChatTypeOK
<1>2. agy[r] = LiveRun => agy[r].stage = "live"
  BY DEF LiveRun
<1>3. CASE Succeed(r)
  BY <1>1, <1>2, <1>3, AfterHandOver DEF Succeed, processVars
<1>4. CASE FailOutcome(r)
  BY <1>1, <1>2, <1>4, AfterHandOver DEF FailOutcome, processVars
<1>5. CASE FailRun(r)
  BY <1>1, <1>5, AfterHandOver DEF FailRun
<1> QED
  BY <1>3, <1>4, <1>5

LEMMA AfterLingererDies ==
  ASSUME ChatInv, NEW r \in Jobs, LingererDies(r)
  PROVE  ChatInv'
<1>1. /\ lingering' = lingering \ {r}
      /\ UNCHANGED <<queueVars, client, frames, ended, agy, retryVars, emitted, recorded,
                     restarts>>
  BY DEF LingererDies
<1>2. ASSUME NEW k \in Jobs PROVE RequestInv(k)'
  BY <1>1, Untouched DEF ChatInv, queueVars
<1>3. ChatTypeOK'
  BY <1>1 DEF ChatInv, ChatTypeOK, retryVars
<1> QED
  BY <1>1, <1>2, <1>3, QueueStays DEF ChatInv

(* After a restart nobody runs or waits, and the connections of those who did are cut. *)
LEMMA AfterRestart ==
  ASSUME ChatInv, Restart
  PROVE  ChatInv'
<1>1. /\ restarts < MaxRestarts /\ restarts' = restarts + 1
      /\ status' = [r \in Jobs |-> IF status[r] \in {"waiting", "running"} THEN "dropped"
                                  ELSE status[r]]
      /\ client' = [r \in Jobs |-> IF status[r] \in {"waiting", "running"} THEN "gone"
                                  ELSE client[r]]
      /\ lingering' = lingering \cup {r \in Jobs : agy[r].stage = "live"}
      /\ agy' = [r \in Jobs |-> NoRun]
      /\ attempts' = [r \in Jobs |-> 0]
      /\ eligibilityAttempts' = [r \in Jobs |-> 0]
      /\ emptyAttempts' = [r \in Jobs |-> 0]
      /\ emitted' = [r \in Jobs |-> FALSE]
      /\ UNCHANGED <<aborted, frames, ended, recorded>>
  BY DEF Restart
<1>2. ChatTypeOK'
  <2>1. 0 \in 0..MAX_ELIGIBILITY_RETRIES - 1 /\ 0 \in 0..MAX_EMPTY_OUTPUT_RETRIES
    BY RetriesAssumption
  <2>2. restarts' \in 0..MaxRestarts
    BY <1>1, RestartsAssumption DEF ChatInv, ChatTypeOK
  <2>3. agy' \in [Jobs -> [stage : {"idle", "live"}, cause : Causes \cup {"none"}]]
    BY <1>1 DEF NoRun
  <2> QED
    BY <1>1, <2>1, <2>2, <2>3 DEF ChatInv, ChatTypeOK
<1>3. ASSUME NEW k \in Jobs PROVE RequestInv(k)'
  <2>1. agy'[k].stage = "idle" /\ agy'[k] # LiveRun /\ status'[k] \notin {"waiting", "running"}
    BY <1>1 DEF NoRun, LiveRun
  <2>2. status'[k] \in {"idle", "settled"} => status'[k] = status[k] /\ client'[k] = client[k]
    BY <1>1
  <2>3. client[k] = "gone" => client'[k] = "gone"
    BY <1>1
  <2>4. status[k] = "settled" => status'[k] = "settled"
    BY <1>1
  <2>5. RequestInv(k)
    BY DEF ChatInv
  <2> QED
    BY <1>1, <2>1, <2>2, <2>3, <2>4, <2>5 DEF RequestInv, ReplyInv, AgyInv, RecordInv
<1> QED
  BY <1>2, <1>3, InvAfterRestart DEF ChatInv

-------------------------------------------------------------------------------
LEMMA ChatInvAtInit ==
  ASSUME Init PROVE ChatInv
<1>1. QueueInv
  BY InvAtInit DEF Init
<1>2. /\ status = [r \in Jobs |-> "idle"] /\ aborted = {}
      /\ client = [r \in Jobs |-> "connected"] /\ frames = [r \in Jobs |-> <<>>]
      /\ ended = {} /\ agy = [r \in Jobs |-> NoRun] /\ recorded = {}
  BY DEF Init, QueueInit
<1>3. <<>> \in Seq(Frames)
  BY EmptySeq
<1>4. NoRun \in [stage : {"idle", "live"}, cause : Causes \cup {"none"}]
  BY DEF NoRun
<1>5. 0 \in 0..MAX_ELIGIBILITY_RETRIES - 1 /\ 0 \in 0..MAX_EMPTY_OUTPUT_RETRIES
      /\ 0 \in 0..MaxRestarts
  BY RetriesAssumption, RestartsAssumption
<1>6. ChatTypeOK
  BY <1>3, <1>4, <1>5 DEF Init, ChatTypeOK
<1>7. ASSUME NEW r \in Jobs PROVE RequestInv(r)
  BY <1>2 DEF RequestInv, ReplyInv, AgyInv, RecordInv, NoRun, LiveRun
<1> QED
  BY <1>1, <1>6, <1>7 DEF ChatInv

(* The invariant holds of every gateway, whatever its clients and agy do and however
   often it is started again. *)
THEOREM ChatInvariant == Spec => []ChatInv
<1>1. Init => ChatInv
  BY ChatInvAtInit
<1>2. ChatInv /\ [Next]_vars => ChatInv'
  <2> SUFFICES ASSUME ChatInv, [Next]_vars PROVE ChatInv'
    OBVIOUS
  <2>1. ASSUME NEW r \in Jobs, RejectRequest(r) PROVE ChatInv'
    BY <2>1, AfterReject
  <2>2. ASSUME NEW r \in Jobs, Submit(r) PROVE ChatInv'
    BY <2>2, AfterSubmit
  <2>3. ASSUME NEW r \in Jobs, ClientLeaves(r) PROVE ChatInv'
    BY <2>3, AfterClientLeaves
  <2>4. ASSUME NEW r \in Jobs, StopAgy(r) PROVE ChatInv'
    BY <2>4, AfterStopAgy
  <2>5. ASSUME NEW r \in Jobs, Relay(r, "text") \/ Relay(r, "tool") PROVE ChatInv'
    BY <2>5, AfterRelay
  <2>6. ASSUME NEW r \in Jobs, AgyFinishes(r) PROVE ChatInv'
    BY <2>6, AfterRetry, AfterFinish DEF AgyFinishes
  <2>7. ASSUME NEW r \in Jobs, LingererDies(r) PROVE ChatInv'
    BY <2>7, AfterLingererDies
  <2>8. CASE Restart
    BY <2>8, AfterRestart
  <2>9. CASE UNCHANGED vars
    BY <2>9, AfterStutter
  <2> QED
    BY <2>1, <2>2, <2>3, <2>4, <2>5, <2>6, <2>7, <2>8, <2>9 DEF Next
<1> QED
  BY <1>1, <1>2, PTL DEF Spec

(* Every variable of the handler keeps its type; no retry counter passes its limit. *)
THEOREM ChatTypeCorrect == Spec => []ChatTypeOK
<1>1. ChatInv => ChatTypeOK
  BY DEF ChatInv
<1> QED
  BY <1>1, ChatInvariant, PTL

(* The queue keeps its promises under the handler and its restarts, which QueueSpec alone
   does not allow for: one job at a time, live waiters in order, no idle slot. *)
THEOREM QueueUnderTheHandler ==
  Spec => [](OneAtATime /\ LineIsLive /\ NoIdleSlot /\ StartsInOrder)
<1>1. ChatInv => OneAtATime /\ LineIsLive /\ NoIdleSlot /\ StartsInOrder
  BY InvImplies DEF ChatInv
<1> QED
  BY <1>1, ChatInvariant, PTL

(* An agy is live exactly for the job in the slot, through retries, clients that leave,
   and restarts. *)
THEOREM AgyRunsInTheSlot == Spec => []AgyHoldsSlot
<1>1. ChatInv => AgyHoldsSlot
  BY DEF ChatInv, RequestInv, AgyInv, AgyHoldsSlot
<1> QED
  BY <1>1, ChatInvariant, PTL

(* What is true of "at most ONE agy task runs at a time" (src/gateway/queue.ts:2): two runs
   of agy are never live together.  Processes that outlive their run are another matter. *)
THEOREM OneLiveRun ==
  Spec => [](\A r, k \in Jobs : agy[r].stage = "live" /\ agy[k].stage = "live" => r = k)
<1>1. ChatInv => \A r, k \in Jobs : agy[r].stage = "live" /\ agy[k].stage = "live" => r = k
  BY InvImplies DEF ChatInv, RequestInv, AgyInv, OneAtATime
<1> QED
  BY <1>1, ChatInvariant, PTL

(* What is recorded for later reuse was replied as a success. *)
THEOREM RecordedOnlyIfReplied == Spec => []RecordedWasReplied
<1>1. ChatInv => RecordedWasReplied
  BY DEF ChatInv, ChatTypeOK, RequestInv, RecordInv, RecordedWasReplied
<1> QED
  BY <1>1, ChatInvariant, PTL

(* A reply that has grown as the invariant says reads as a well-formed one. *)
LEMMA InvShapesReplies ==
  ASSUME ChatInv PROVE ReplyWellFormed
<1> SUFFICES ASSUME NEW r \in Jobs
             PROVE  LET f == frames[r]
                        n == Len(f)
                    IN /\ r \in ended <=> n > 0 /\ f[n] \in Terminal
                       /\ \A i \in 1..n :
                            /\ f[i] = "headers" <=> i = 1 /\ r \in Streaming /\ f # <<"json-error">>
                            /\ f[i] \in {"json", "json-error"} => n = 1
                            /\ f[i] \in {"stop", "error"} <=> n > 1 /\ i = n - 1 /\ f[n] = "done"
                            /\ f[i] = "done" => i = n
  BY DEF ReplyWellFormed
<1> DEFINE f == frames[r]
           n == Len(f)
<1>1. f \in Seq(Frames) /\ n \in Nat
  BY LenProperties DEF ChatInv, ChatTypeOK
<1>2. /\ r \in ended => Closed(r, f)
      /\ r \notin ended => f = <<>> \/ Opened(r, f)
  BY DEF ChatInv, RequestInv, ReplyInv
<1>3. CASE r \notin ended
  <2>1. CASE f = <<>>
    BY <1>3, <2>1, EmptySeq
  <2>2. CASE Opened(r, f)
    <3>1. \A i \in 1..n : f[i] \in {"headers", "text", "tool"} /\ (f[i] = "headers" <=> i = 1)
      BY <2>2 DEF Opened
    <3>2. n > 0 => n \in 1..n /\ r \in Streaming
      BY <1>1, <2>2 DEF Opened
    <3>3. n > 0 => f # <<"json-error">>
      <4>1. f = <<"json-error">> => f[1] = "json-error" /\ 1 \in 1..n
        OBVIOUS
      <4> QED
        BY <3>1, <4>1
    <3> HIDE DEF f, n
    <3>4. ~(n > 0 /\ f[n] \in Terminal)
      BY <3>1, <3>2 DEF Terminal
    <3>5. ASSUME NEW i \in 1..n
          PROVE  /\ f[i] = "headers" <=> i = 1 /\ r \in Streaming /\ f # <<"json-error">>
                 /\ f[i] \notin {"json", "json-error", "stop", "error", "done"}
                 /\ f[n] # "done"
      BY <1>1, <3>1, <3>2, <3>3
    <3> QED
      BY <1>3, <3>4, <3>5 DEF f, n
  <2> QED
    BY <1>2, <1>3, <2>1, <2>2
<1>4. CASE r \in ended
  <2>1. CASE f = <<"json-error">> \/ (f = <<"json">> /\ r \notin Streaming)
    <3>1. /\ n = 1
          /\ \/ f = <<"json-error">> /\ f[1] = "json-error"
             \/ r \notin Streaming /\ f[1] = "json"
      BY <2>1
    <3> HIDE DEF f, n
    <3>2. n > 0 /\ f[n] \in Terminal
      BY <3>1 DEF Terminal
    <3>3. ASSUME NEW i \in 1..n
          PROVE  /\ i = 1 /\ f[i] \in {"json", "json-error"}
                 /\ ~(i = 1 /\ r \in Streaming /\ f # <<"json-error">>)
      BY <3>1
    <3> QED
      BY <1>4, <3>1, <3>2, <3>3 DEF f, n
  <2>2. CASE /\ r \in Streaming /\ n >= 3
             /\ f[n] = "done" /\ f[n - 1] \in {"stop", "error"}
             /\ \A i \in 1..n - 2 : IF i = 1 THEN f[i] = "headers" ELSE f[i] \in {"text", "tool"}
    <3>1. f # <<"json-error">>
      <4>1. Len(<<"json-error">>) = 1
        OBVIOUS
      <4> QED
        BY <1>1, <2>2, <4>1
    <3> HIDE DEF f, n
    <3>2. \A i \in 1..n : i \in 1..n - 2 \/ i = n - 1 \/ i = n
      BY <1>1
    <3>3. n - 1 # 1 /\ n # 1 /\ n - 1 # n /\ n - 1 \notin 1..n - 2 /\ n \notin 1..n - 2
      BY <1>1, <2>2
    <3>4. ASSUME NEW i \in 1..n
          PROVE  /\ f[i] = "headers" <=> i = 1 /\ r \in Streaming /\ f # <<"json-error">>
                 /\ f[i] \in {"json", "json-error"} => n = 1
                 /\ f[i] \in {"stop", "error"} <=> n > 1 /\ i = n - 1 /\ f[n] = "done"
                 /\ f[i] = "done" => i = n
      <4>1. CASE i \in 1..n - 2
        BY <1>1, <2>2, <3>1, <3>3, <4>1
      <4>2. CASE i = n - 1
        BY <1>1, <2>2, <3>1, <3>3, <4>2
      <4>3. CASE i = n
        BY <1>1, <2>2, <3>1, <3>3, <4>3
      <4> QED
        BY <3>2, <3>4, <4>1, <4>2, <4>3
    <3>5. n > 0 /\ f[n] \in Terminal
      BY <1>1, <2>2 DEF Terminal
    <3> QED
      BY <1>4, <3>4, <3>5 DEF f, n
  <2> QED
    BY <1>2, <1>4, <2>1, <2>2 DEF Closed
<1> QED
  BY <1>3, <1>4

(* Every client reads one well-formed reply. *)
THEOREM RepliesAreWellFormed == Spec => []ReplyWellFormed
<1>1. ChatInv => ReplyWellFormed
  BY InvShapesReplies
<1> QED
  BY <1>1, ChatInvariant, PTL

-------------------------------------------------------------------------------
(* A step that spawns agy for a request is a retry that showed nothing so far, or the
   start of a request to which at most the headers were written. *)
LEMMA SpawnsInStep ==
  ASSUME ChatInv, Next, NEW r \in Jobs, attempts'[r] > attempts[r]
  PROVE  client[r] = "connected" /\ Len(frames[r]) <= 1
<1>1. attempts \in [Jobs -> Nat] /\ ChatTypeOK /\ QueueInv /\ RequestInv(r)
  BY DEF ChatInv, ChatTypeOK
<1>2. attempts'[r] # attempts[r] /\ attempts'[r] # 0
  BY <1>1
<1>3. ASSUME NEW k \in Jobs, Submit(k)
      PROVE  client[r] = "connected" /\ Len(frames[r]) <= 1
  <2>1. PushAccepted(k) /\ attempts' = IF Starts(k) THEN [attempts EXCEPT ![k] = 1] ELSE attempts
    BY <1>2, <1>3 DEF Submit
  <2>2. k = r
    BY <1>1, <1>2, <2>1
  <2>3. client[r] = "connected" /\ r \notin ended /\ status[r] = "idle"
    BY <1>3, <2>1, <2>2 DEF Submit, PushAccepted
  <2>4. frames[r] = <<>>
    BY <1>1, <2>3 DEF RequestInv, ReplyInv
  <2> QED
    BY <2>3, <2>4, EmptySeq
<1>4. ASSUME NEW k \in Jobs, Retry(k)
      PROVE  client[r] = "connected" /\ Len(frames[r]) <= 1
  <2>1. /\ agy[k] = LiveRun /\ ~emitted[k]
        /\ attempts' = [attempts EXCEPT ![k] = @ + 1]
    BY <1>4 DEF Retry, Retries
  <2>2. k = r
    BY <1>1, <1>2, <2>1
  <2> QED
    BY <1>1, <2>1, <2>2 DEF RequestInv, AgyInv, LiveRun
<1>5. ASSUME NEW k \in Jobs, NEW tail, RunSettles(k), HandOver(k, tail)
      PROVE  client[r] = "connected" /\ Len(frames[r]) <= 1
  <2>1. Starts(r)
    BY <1>2, <1>5 DEF HandOver
  <2>2. status[r] = "waiting"
    BY <1>1, <1>5, <2>1, SettleEffect DEF Starts
  <2> QED
    BY <2>2, WaitsClean, EmptySeq
<1>6. ASSUME NEW k \in Jobs, AgyFinishes(k)
      PROVE  client[r] = "connected" /\ Len(frames[r]) <= 1
  BY <1>4, <1>5, <1>6 DEF AgyFinishes, Succeed, FailOutcome, FailRun
<1>7. ASSUME NEW k \in Jobs,
             \/ RejectRequest(k) \/ ClientLeaves(k) \/ StopAgy(k)
             \/ Relay(k, "text") \/ Relay(k, "tool") \/ LingererDies(k)
      PROVE  FALSE
  BY <1>2, <1>7
     DEF RejectRequest, ClientLeaves, StopAgy, Relay, LingererDies, retryVars
<1>8. ~Restart
  BY <1>2 DEF Restart
<1> QED
  BY <1>3, <1>6, <1>7, <1>8 DEF Next

(* agy is never spawned again after output, nor for a client that is gone. *)
THEOREM SpawnsOnlyClean == Spec => SpawnsAreClean
<1> DEFINE Clean == \A r \in Jobs : attempts'[r] > attempts[r] =>
                      client[r] = "connected" /\ Len(frames[r]) <= 1
<1>1. ChatInv /\ [Next]_vars => [Clean]_vars
  BY SpawnsInStep
<1> QED
  BY <1>1, ChatInvariant, PTL DEF Spec, SpawnsAreClean
===============================================================================
