--------------------------- MODULE TaskProgressProofs ---------------------------
(***************************************************************************)
(* What TaskProgress promises, for any interval, any clock and any number  *)
(* of updates: they are shown in order and throttled, the verdict is the   *)
(* last of them, and nothing follows a call that settled.                  *)
(*                                                                         *)
(* Each stage of a call has its part of the invariant; what is shown grows *)
(* by one update at a time, and Grows says what that takes.                *)
(***************************************************************************)
EXTENDS TaskProgress, SequenceTheorems, TLAPS

Entries == [update : Updates, at : Nat]

(* Nothing has happened yet, and the interval since lastEmit is over. *)
IdleInv ==
  stage = "idle" =>
    /\ now >= MinInterval /\ skew = 0 /\ lastEmit = 0
    /\ shown = <<>> /\ pending = NoUpdate /\ timer = NoTimer /\ sent = 0

(* The start was shown, the verdict was not, and is not pending either; what is pending
   has its timer, and a timer is armed for nothing else. *)
RunningInv ==
  stage = "running" =>
    /\ shown # <<>>
    /\ \A i \in 1..Len(shown) : shown[i].update.event # "terminal"
    /\ pending # NoUpdate => pending.event # "terminal"
    /\ pending # NoUpdate <=> timer # NoTimer

(* Nothing is left to be shown; the verdict was. *)
SettledInv ==
  stage = "settled" =>
    /\ pending = NoUpdate /\ timer = NoTimer
    /\ LastWordIsVerdict

(* The order of what was shown and of what is pending. *)
OrderInv ==
  /\ \A i, k \in 1..Len(shown) : i < k => shown[i].update.n < shown[k].update.n
  /\ \A i \in 1..Len(shown) : shown[i].update.n <= sent
  /\ shown # <<>> => shown[1].update.event = "start"
  /\ pending # NoUpdate =>
       pending.n = sent /\ \A i \in 1..Len(shown) : shown[i].update.n < sent

(* With a steady clock lastEmit is when the last update was shown, and an armed timer is
   due an interval later. *)
ClockInv ==
  steady =>
    /\ skew = 0
    /\ stage = "running" =>
         /\ lastEmit = shown[Len(shown)].at
         /\ timer # NoTimer => timer >= lastEmit + MinInterval
    /\ \A i \in 1..Len(shown) - 1 :
         \/ shown[i + 1].at - shown[i].at >= MinInterval
         \/ stage = "settled" /\ i + 1 = Len(shown)

(* The inductive invariant. *)
ProgressInv ==
  TypeOK /\ IdleInv /\ RunningInv /\ SettledInv /\ OrderInv /\ ClockInv

-------------------------------------------------------------------------------
(* The updates and kinds that the tool builds are of their types. *)
LEMMA UpdateTypes ==
  ASSUME sent \in Nat, now \in Nat
  PROVE  /\ Update("start", "none") \in Updates
         /\ Update("snapshot", "none") \in Updates
         /\ \A kind \in Kinds : /\ Update("terminal", kind) \in Updates
                                /\ [event |-> "terminal", n |-> sent + 2, kind |-> kind] \in Updates
         /\ NoUpdate \notin Updates
         /\ \A u \in Updates : Shown(u) \in Entries
BY DEF Update, Updates, NoUpdate, Shown, Entries

LEMMA KindTypes ==
  /\ EarlyFailures \subseteq Kinds /\ "thrown" \notin Kinds /\ "none" \notin Kinds
  /\ \A e \in Evidence : e.process # "error" => Kind(e) \in Kinds
  /\ \A e \in Evidence : Kind(e) = "success" =>
       e = [process |-> "resolved", parser |-> "success", exit |-> "clean"]
BY DEF EarlyFailures, ProcessFailures, ParserFailures, Kinds, Evidence, Kind

(* One more update is shown. *)
LEMMA Grows ==
  ASSUME shown \in Seq(Entries), NEW u \in Updates, now \in Nat
  PROVE  /\ Append(shown, Shown(u)) \in Seq(Entries)
         /\ Append(shown, Shown(u)) # <<>>
         /\ Len(shown) \in Nat
         /\ Len(Append(shown, Shown(u))) = Len(shown) + 1
         /\ \A i \in 1..Len(shown) : Append(shown, Shown(u))[i] = shown[i]
         /\ Append(shown, Shown(u))[Len(shown) + 1].update = u
         /\ Append(shown, Shown(u))[Len(shown) + 1].at = now
         /\ \A i \in 1..Len(shown) + 1 : i \in 1..Len(shown) \/ i = Len(shown) + 1
         /\ shown # <<>> <=> Len(shown) >= 1
<1>1. Shown(u) \in Entries /\ Shown(u).update = u /\ Shown(u).at = now
  BY DEF Shown, Entries
<1>2. Len(shown) \in Nat
  BY LenProperties
<1>3. shown # <<>> <=> Len(shown) >= 1
  BY <1>2, EmptySeq
<1> QED
  BY <1>1, <1>2, <1>3, AppendProperties

(* flush() leaves nothing pending; with one update it is shown in either case, and of two
   the second is the last. *)
LEMMA FlushOne ==
  ASSUME shown \in Seq(Entries), NEW u \in Updates, sent \in Nat, now \in Nat,
         DispatchAndFlush(u, NoUpdate)
  PROVE  /\ shown' = Append(shown, Shown(u))
         /\ sent' = u.n /\ pending' = NoUpdate /\ timer' = NoTimer /\ lastEmit' = DateNow
<1>1. Shown(u) \in Entries
  BY UpdateTypes
<1>2. /\ shown \o <<Shown(u)>> = Append(shown, Shown(u))
      /\ shown \o <<>> = shown
      /\ Append(shown, Shown(u)) \in Seq(Entries)
      /\ Append(shown, Shown(u)) \o <<>> = Append(shown, Shown(u))
  BY <1>1, AppendIsConcat, AppendProperties, ConcatEmptySeq
<1>3. /\ \/ shown' = (shown \o <<Shown(u)>>) \o <<>>
         \/ shown' = (shown \o <<>>) \o <<Shown(u)>>
      /\ sent' = u.n /\ pending' = NoUpdate /\ timer' = NoTimer /\ lastEmit' = DateNow
  <2>1. CASE DateNow - lastEmit >= MinInterval
    BY <2>1 DEF DispatchAndFlush
  <2>2. CASE ~(DateNow - lastEmit >= MinInterval)
    BY <2>2 DEF DispatchAndFlush
  <2> QED
    BY <2>1, <2>2
<1> QED
  BY <1>2, <1>3

(* Showing an update newer than all that were shown keeps the order. *)
LEMMA ShowNewer ==
  ASSUME shown \in Seq(Entries), now \in Nat, NEW u \in Updates,
         \A i, k \in 1..Len(shown) : i < k => shown[i].update.n < shown[k].update.n,
         \A i \in 1..Len(shown) : shown[i].update.n < u.n,
         shown # <<>> => shown[1].update.event = "start",
         shown # <<>> \/ u.event = "start",
         shown' = Append(shown, Shown(u))
  PROVE  /\ shown' \in Seq(Entries) /\ shown' # <<>>
         /\ \A i, k \in 1..Len(shown') : i < k => shown'[i].update.n < shown'[k].update.n
         /\ \A i \in 1..Len(shown') : shown'[i].update.n <= u.n
         /\ shown'[1].update.event = "start"
         /\ Len(shown') = Len(shown) + 1 /\ Len(shown) \in Nat
         /\ \A i \in 1..Len(shown) : shown'[i] = shown[i]
         /\ shown'[Len(shown')].update = u /\ shown'[Len(shown')].at = now
<1>1. /\ shown' \in Seq(Entries) /\ shown' # <<>>
      /\ Len(shown) \in Nat /\ Len(shown') = Len(shown) + 1
      /\ \A i \in 1..Len(shown) : shown'[i] = shown[i]
      /\ shown'[Len(shown) + 1].update = u /\ shown'[Len(shown) + 1].at = now
      /\ shown # <<>> <=> Len(shown) >= 1
  BY Grows
<1>2. u.n \in Nat /\ \A i \in 1..Len(shown) : shown[i].update.n \in Nat
  <2>1. u.n \in Nat
    BY DEF Updates
  <2>2. ASSUME NEW i \in 1..Len(shown)  PROVE shown[i].update.n \in Nat
    <3>1. shown[i] \in Entries
      BY ElementOfSeq
    <3> QED
      BY <3>1 DEF Entries, Updates
  <2> QED
    BY <2>1, <2>2
<1>3. \A i \in 1..Len(shown') : i \in 1..Len(shown) \/ i = Len(shown) + 1
  BY <1>1
<1>4. ASSUME NEW i \in 1..Len(shown'), NEW k \in 1..Len(shown'), i < k
      PROVE  shown'[i].update.n < shown'[k].update.n
  <2>1. i \in 1..Len(shown) /\ shown'[i] = shown[i]
    BY <1>1, <1>4
  <2>2. CASE k \in 1..Len(shown)
    BY <1>1, <1>4, <2>1, <2>2
  <2>3. CASE k = Len(shown) + 1
    BY <1>1, <2>1, <2>3
  <2> QED
    BY <1>3, <2>2, <2>3
<1>5. ASSUME NEW i \in 1..Len(shown')  PROVE shown'[i].update.n <= u.n
  <2>1. CASE i \in 1..Len(shown)
    BY <1>1, <1>2, <2>1
  <2>2. CASE i = Len(shown) + 1
    BY <1>1, <1>2, <2>2
  <2> QED
    BY <1>3, <2>1, <2>2
<1>6. shown'[1].update.event = "start"
  <2>1. CASE shown # <<>>
    BY <1>1, <2>1
  <2>2. CASE shown = <<>>
    <3>1. Len(shown) = 0
      BY <2>2, EmptySeq
    <3> QED
      BY <1>1, <2>2, <3>1
  <2> QED
    BY <2>1, <2>2
<1> QED
  BY <1>1, <1>4, <1>5, <1>6

-------------------------------------------------------------------------------
(* In an idle call the interval is over and nothing was shown. *)
LEMMA IdleFacts ==
  ASSUME ProgressInv, stage = "idle"
  PROVE  /\ DateNow - lastEmit >= MinInterval
         /\ shown \in Seq(Entries) /\ shown = <<>> /\ Len(shown) = 0 /\ sent = 0 /\ now \in Nat
         /\ DateNow \in Int /\ 0 \in Skews
<1>1. now \in Nat /\ shown \in Seq(Entries)
  BY DEF ProgressInv, TypeOK, Entries
<1>2. now >= MinInterval /\ skew = 0 /\ lastEmit = 0 /\ shown = <<>> /\ sent = 0
  BY DEF ProgressInv, IdleInv
<1> QED
  BY <1>1, <1>2, IntervalAssumption, EmptySeq DEF DateNow

LEMMA ExecuteStep ==
  ASSUME ProgressInv, Execute  PROVE ProgressInv'
<1> DEFINE start == Update("start", "none")
<1>1. /\ DateNow - lastEmit >= MinInterval
      /\ shown \in Seq(Entries) /\ shown = <<>> /\ Len(shown) = 0 /\ sent = 0 /\ now \in Nat
      /\ DateNow \in Int
  BY IdleFacts DEF Execute
<1>2. /\ start \in Updates /\ start.n = 1 /\ start.event = "start"
  BY <1>1, UpdateTypes DEF Update
<1>3. /\ stage' = "running" /\ sent' = start.n /\ timer' = NoTimer
      /\ lastEmit' = DateNow /\ pending' = NoUpdate /\ shown' = Append(shown, Shown(start))
      /\ UNCHANGED <<result, evidence, now, skew, steady>>
  BY <1>1 DEF Execute, Dispatch, EmitNow
<1> HIDE DEF start
<1>4. /\ shown' \in Seq(Entries) /\ shown' # <<>>
      /\ \A i, k \in 1..Len(shown') : i < k => shown'[i].update.n < shown'[k].update.n
      /\ \A i \in 1..Len(shown') : shown'[i].update.n <= start.n
      /\ shown'[1].update.event = "start"
      /\ Len(shown') = 1
      /\ shown'[1].update = start /\ shown'[1].at = now
  <2>1. /\ \A i, k \in 1..Len(shown) : i < k => shown[i].update.n < shown[k].update.n
        /\ \A i \in 1..Len(shown) : shown[i].update.n < start.n
    BY <1>1
  <2> QED
    BY <1>1, <1>2, <1>3, <2>1, ShowNewer
<1>5. TypeOK'
  BY <1>1, <1>2, <1>3, <1>4 DEF ProgressInv, TypeOK, Entries
<1>6. IdleInv' /\ SettledInv'
  BY <1>3 DEF IdleInv, SettledInv
<1>7. RunningInv'
  <2>1. \A i \in 1..Len(shown') : i = 1
    BY <1>4
  <2>2. "start" # "terminal"
    OBVIOUS
  <2> QED
    BY <1>3, <1>4, <2>1, <2>2 DEF RunningInv
<1>8. OrderInv'
  BY <1>3, <1>4 DEF OrderInv
<1>9. ClockInv'
  BY <1>1, <1>3, <1>4 DEF ProgressInv, IdleInv, ClockInv, DateNow, Execute
<1> QED
  BY <1>5, <1>6, <1>7, <1>8, <1>9 DEF ProgressInv

LEMMA ExecuteThrowsStep ==
  ASSUME ProgressInv, ExecuteThrows  PROVE ProgressInv'
<1> DEFINE start == Update("start", "none")
<1>1. /\ shown \in Seq(Entries) /\ shown = <<>> /\ Len(shown) = 0 /\ sent = 0 /\ now \in Nat
      /\ DateNow \in Int
  BY IdleFacts DEF ExecuteThrows
<1>2. /\ start \in Updates /\ start.n = 1 /\ start.event = "start"
  BY <1>1, UpdateTypes DEF Update
<1>3. /\ stage' = "settled" /\ result' = "thrown" /\ DispatchAndFlush(start, NoUpdate)
      /\ UNCHANGED <<evidence, now, skew, steady>>
  BY DEF ExecuteThrows
<1> HIDE DEF start
<1>4. /\ sent' = start.n /\ timer' = NoTimer
      /\ lastEmit' = DateNow /\ pending' = NoUpdate /\ shown' = Append(shown, Shown(start))
  BY <1>1, <1>2, <1>3, FlushOne
<1>5. /\ shown' \in Seq(Entries) /\ shown' # <<>>
      /\ \A i, k \in 1..Len(shown') : i < k => shown'[i].update.n < shown'[k].update.n
      /\ \A i \in 1..Len(shown') : shown'[i].update.n <= start.n
      /\ shown'[1].update.event = "start"
      /\ Len(shown') = 1
  <2>1. /\ \A i, k \in 1..Len(shown) : i < k => shown[i].update.n < shown[k].update.n
        /\ \A i \in 1..Len(shown) : shown[i].update.n < start.n
    BY <1>1
  <2> QED
    BY <1>1, <1>2, <1>4, <2>1, ShowNewer
<1>6. TypeOK'
  BY <1>1, <1>2, <1>3, <1>4, <1>5 DEF ProgressInv, TypeOK, Entries
<1>7. IdleInv' /\ RunningInv'
  BY <1>3 DEF IdleInv, RunningInv
<1>8. SettledInv'
  BY <1>3, <1>4 DEF SettledInv, LastWordIsVerdict
<1>9. OrderInv'
  BY <1>4, <1>5 DEF OrderInv
<1>10. ClockInv'
  BY <1>3, <1>4, <1>5 DEF ProgressInv, ClockInv
<1> QED
  BY <1>6, <1>7, <1>8, <1>9, <1>10 DEF ProgressInv

LEMMA ExecuteFailsStep ==
  ASSUME ProgressInv, ExecuteFails  PROVE ProgressInv'
<1> DEFINE start == Update("start", "none")
           verdict(kind) == [event |-> "terminal", n |-> sent + 2, kind |-> kind]
<1>1. /\ DateNow - lastEmit >= MinInterval
      /\ shown \in Seq(Entries) /\ shown = <<>> /\ Len(shown) = 0 /\ sent = 0 /\ now \in Nat
      /\ DateNow \in Int
  BY IdleFacts DEF ExecuteFails
<1>2. PICK kind \in EarlyFailures :
        /\ stage' = "settled" /\ result' = kind /\ DispatchAndFlush(start, verdict(kind))
        /\ UNCHANGED <<evidence, now, skew, steady>>
  BY DEF ExecuteFails
<1>3. kind \in Kinds /\ kind # "thrown" /\ kind # "success"
  BY KindTypes DEF EarlyFailures
<1>4. /\ start \in Updates /\ start.n = 1 /\ start.event = "start"
      /\ verdict(kind) \in Updates /\ verdict(kind).n = 2
      /\ verdict(kind).event = "terminal" /\ verdict(kind).kind = kind
      /\ verdict(kind) # NoUpdate
      /\ Shown(start) \in Entries /\ Shown(start).update = start /\ Shown(start).at = now
      /\ Shown(verdict(kind)) \in Entries /\ Shown(verdict(kind)).update = verdict(kind)
      /\ Shown(verdict(kind)).at = now
  <2>1. /\ start.n = 1 /\ start.event = "start"
        /\ verdict(kind).n = 2 /\ verdict(kind).event = "terminal" /\ verdict(kind).kind = kind
    BY <1>1 DEF Update
  <2>2. start \in Updates /\ verdict(kind) \in Updates
    BY <1>1, <1>3 DEF Update, Updates
  <2>3. verdict(kind) # NoUpdate
    BY <2>1 DEF NoUpdate
  <2>4. \A u \in Updates : Shown(u) \in Entries /\ Shown(u).update = u /\ Shown(u).at = now
    BY <1>1 DEF Shown, Entries
  <2> HIDE DEF start, verdict
  <2> QED
    BY <2>1, <2>2, <2>3, <2>4
<1>5. /\ sent' = verdict(kind).n /\ timer' = NoTimer
      /\ lastEmit' = DateNow /\ pending' = NoUpdate
      /\ shown' = (<<>> \o <<Shown(start)>>) \o <<Shown(verdict(kind))>>
  BY <1>1, <1>2, <1>4 DEF DispatchAndFlush
<1> HIDE DEF start, verdict
<1>6. /\ <<Shown(start)>> \in Seq(Entries)
      /\ Len(<<Shown(start)>>) = 1 /\ <<Shown(start)>>[1] = Shown(start)
  BY <1>4
<1>7. /\ shown' \in Seq(Entries) /\ shown' # <<>> /\ Len(shown') = 2
      /\ shown'[1] = Shown(start) /\ shown'[2] = Shown(verdict(kind))
      /\ \A i \in 1..Len(shown') : i = 1 \/ i = 2
  <2>1. <<>> \o <<Shown(start)>> = <<Shown(start)>>
    BY <1>6, ConcatEmptySeq
  <2>2. shown' = Append(<<Shown(start)>>, Shown(verdict(kind)))
    BY <1>4, <1>5, <1>6, <2>1, AppendIsConcat
  <2> QED
    BY <1>4, <1>6, <2>2, AppendProperties
<1>8. TypeOK'
  BY <1>1, <1>2, <1>3, <1>4, <1>5, <1>7 DEF ProgressInv, TypeOK, Entries
<1>9. IdleInv' /\ RunningInv'
  BY <1>2 DEF IdleInv, RunningInv
<1>10. SettledInv'
  <2>1. Last(shown') = shown'[2]
    BY <1>7 DEF Last
  <2>2. \A i \in 1..Len(shown') - 1 : i = 1
    BY <1>7
  <2>3. \A i \in 1..Len(shown') - 1 : shown'[i].update.event # "terminal"
    BY <1>4, <1>7, <2>2
  <2>4. LastWordIsVerdict'
    BY <1>2, <1>3, <1>4, <1>7, <2>1, <2>3 DEF LastWordIsVerdict
  <2> QED
    BY <1>5, <2>4 DEF SettledInv
<1>11. OrderInv'
  BY <1>4, <1>5, <1>7 DEF OrderInv
<1>12. ClockInv'
  BY <1>2, <1>7 DEF ProgressInv, ClockInv
<1> QED
  BY <1>8, <1>9, <1>10, <1>11, <1>12 DEF ProgressInv

-------------------------------------------------------------------------------
(* What an invariant says of a running call. *)
LEMMA RunningFacts ==
  ASSUME ProgressInv, stage = "running"
  PROVE  /\ shown \in Seq(Entries) /\ shown # <<>> /\ Len(shown) \in Nat /\ Len(shown) >= 1
         /\ sent \in Nat /\ now \in Nat /\ skew \in Int /\ lastEmit \in Int
         /\ DateNow = now + skew /\ MinInterval \in Nat
         /\ pending \in Updates \cup {NoUpdate} /\ timer \in Nat \cup {NoTimer}
         /\ \A i \in 1..Len(shown) : shown[i] \in Entries /\ shown[i].at \in Nat
                                     /\ shown[i].update.n \in Nat
         /\ steady => skew = 0 /\ lastEmit = shown[Len(shown)].at
<1>1. shown \in Seq(Entries) /\ shown # <<>>
  BY DEF ProgressInv, TypeOK, RunningInv, Entries
<1>2. Len(shown) \in Nat /\ Len(shown) >= 1
  BY <1>1, LenProperties, EmptySeq
<1>3. ASSUME NEW i \in 1..Len(shown)
      PROVE  shown[i] \in Entries /\ shown[i].at \in Nat /\ shown[i].update.n \in Nat
  <2>1. shown[i] \in Entries
    BY <1>1, ElementOfSeq
  <2> QED
    BY <2>1 DEF Entries, Updates
<1>4. /\ sent \in Nat /\ now \in Nat /\ skew \in Int /\ lastEmit \in Int
      /\ DateNow = now + skew /\ MinInterval \in Nat
      /\ pending \in Updates \cup {NoUpdate} /\ timer \in Nat \cup {NoTimer}
  BY IntervalAssumption DEF ProgressInv, TypeOK, DateNow
<1> QED
  BY <1>1, <1>2, <1>3, <1>4 DEF ProgressInv, ClockInv

(* A running call shows an update that is no verdict, after the interval that the wall
   clock shows: the dispatcher emitting at once, or its timer. *)
LEMMA EmitStep ==
  ASSUME ProgressInv, stage = "running", NEW u \in Updates,
         u.event # "terminal", \A i \in 1..Len(shown) : shown[i].update.n < u.n,
         u.n = sent', EmitNow(u), steady => DateNow - lastEmit >= MinInterval,
         UNCHANGED <<stage, result, evidence, now, skew, steady>>
  PROVE  ProgressInv'
<1>1. /\ shown \in Seq(Entries) /\ shown # <<>> /\ Len(shown) \in Nat /\ Len(shown) >= 1
      /\ sent \in Nat /\ now \in Nat /\ skew \in Int /\ lastEmit \in Int
      /\ DateNow = now + skew /\ MinInterval \in Nat
      /\ steady => skew = 0 /\ lastEmit = shown[Len(shown)].at
  BY RunningFacts
<1>2. /\ timer' = NoTimer /\ lastEmit' = DateNow /\ pending' = NoUpdate
      /\ shown' = Append(shown, Shown(u))
  BY DEF EmitNow
<1>3. /\ shown' \in Seq(Entries) /\ shown' # <<>>
      /\ \A i, k \in 1..Len(shown') : i < k => shown'[i].update.n < shown'[k].update.n
      /\ \A i \in 1..Len(shown') : shown'[i].update.n <= u.n
      /\ shown'[1].update.event = "start"
      /\ Len(shown') = Len(shown) + 1
      /\ \A i \in 1..Len(shown) : shown'[i] = shown[i]
      /\ shown'[Len(shown')].update = u /\ shown'[Len(shown')].at = now
  <2>1. /\ \A i, k \in 1..Len(shown) : i < k => shown[i].update.n < shown[k].update.n
        /\ shown # <<>> => shown[1].update.event = "start"
    BY DEF ProgressInv, OrderInv
  <2> QED
    BY <1>1, <1>2, <2>1, ShowNewer
<1>4. TypeOK'
  <2>1. u.n \in Nat
    BY DEF Updates
  <2> QED
    BY <1>1, <1>2, <1>3, <2>1 DEF ProgressInv, TypeOK, Entries
<1>5. IdleInv' /\ SettledInv'
  BY DEF IdleInv, SettledInv
<1>6. RunningInv'
  <2>1. ASSUME NEW i \in 1..Len(shown')  PROVE shown'[i].update.event # "terminal"
    <3>1. CASE i \in 1..Len(shown)
      BY <1>3, <3>1 DEF ProgressInv, RunningInv
    <3>2. CASE i = Len(shown')
      BY <1>3, <3>2
    <3> QED
      BY <1>1, <1>3, <3>1, <3>2
  <2> QED
    BY <1>2, <1>3, <2>1 DEF RunningInv
<1>7. OrderInv'
  BY <1>2, <1>3 DEF OrderInv
<1>8. ClockInv'
  <2> SUFFICES ASSUME steady
               PROVE  ClockInv'
    BY DEF ClockInv
  <2>1. now - lastEmit >= MinInterval
    BY <1>1
  <2>2. ASSUME NEW i \in 1..Len(shown') - 1
        PROVE  shown'[i + 1].at - shown'[i].at >= MinInterval
    <3>1. CASE i + 1 \in 1..Len(shown)
      <4>1. i \in 1..Len(shown) - 1 /\ i \in 1..Len(shown)
        BY <1>1, <3>1
      <4>2. shown[i + 1].at - shown[i].at >= MinInterval
        BY <4>1 DEF ProgressInv, ClockInv
      <4> QED
        BY <1>3, <3>1, <4>1, <4>2
    <3>2. CASE i = Len(shown)
      <4>1. shown'[i].at = lastEmit /\ shown'[i + 1].at = now
        BY <1>1, <1>3, <3>2
      <4> QED
        BY <2>1, <4>1
    <3> QED
      BY <1>1, <1>3, <3>1, <3>2
  <2> QED
    BY <1>1, <1>2, <1>3, <2>2 DEF ClockInv
<1> QED
  BY <1>4, <1>5, <1>6, <1>7, <1>8 DEF ProgressInv

LEMMA ProgressStep ==
  ASSUME ProgressInv, Progress  PROVE ProgressInv'
<1> DEFINE u == Update("snapshot", "none")
<1>1. /\ stage = "running" /\ Dispatch(u)
      /\ UNCHANGED <<stage, result, evidence, now, skew, steady>>
  BY DEF Progress
<1>2. /\ shown \in Seq(Entries) /\ shown # <<>> /\ Len(shown) \in Nat /\ Len(shown) >= 1
      /\ sent \in Nat /\ now \in Nat /\ skew \in Int /\ lastEmit \in Int
      /\ DateNow = now + skew /\ MinInterval \in Nat /\ timer \in Nat \cup {NoTimer}
      /\ \A i \in 1..Len(shown) : shown[i].update.n \in Nat
      /\ steady => skew = 0 /\ lastEmit = shown[Len(shown)].at
  BY <1>1, RunningFacts
<1>3. /\ u \in Updates /\ u.n = sent + 1 /\ u.event # "terminal" /\ u # NoUpdate
  <2>1. u.n = sent + 1 /\ u.event = "snapshot"
    BY DEF Update
  <2>2. u \in Updates
    BY <1>2, UpdateTypes
  <2> QED
    BY <2>1, <2>2 DEF NoUpdate
<1> HIDE DEF u
<1>4. \A i \in 1..Len(shown) : shown[i].update.n < u.n
  <2>1. \A i \in 1..Len(shown) : shown[i].update.n <= sent
    BY DEF ProgressInv, OrderInv
  <2> QED
    BY <1>2, <1>3, <2>1
<1>5. CASE DateNow - lastEmit >= MinInterval
  <2>1. EmitNow(u) /\ u.n = sent'
    BY <1>1, <1>5 DEF Dispatch
  <2> QED
    BY <1>1, <1>3, <1>4, <1>5, <2>1, EmitStep
<1>6. CASE ~(DateNow - lastEmit >= MinInterval)
  <2>1. /\ sent' = u.n /\ pending' = u
        /\ timer' = IF timer = NoTimer THEN now + (MinInterval - (DateNow - lastEmit)) ELSE timer
        /\ UNCHANGED <<lastEmit, shown>>
    BY <1>1, <1>6 DEF Dispatch
  <2>2. timer' \in Nat
    BY <1>2, <1>6, <2>1 DEF NoTimer
  <2>3. TypeOK'
    BY <1>1, <1>2, <1>3, <2>1, <2>2 DEF ProgressInv, TypeOK
  <2>4. IdleInv' /\ SettledInv'
    BY <1>1 DEF IdleInv, SettledInv
  <2>5. RunningInv'
    <3>1. timer' # NoTimer
      BY <2>2 DEF NoTimer
    <3> QED
      BY <1>1, <1>3, <2>1, <3>1 DEF ProgressInv, RunningInv
  <2>6. OrderInv'
    <3>1. \A i \in 1..Len(shown) : shown[i].update.n <= u.n
      BY <1>2, <1>3, <1>4
    <3> QED
      BY <1>4, <2>1, <3>1 DEF ProgressInv, OrderInv
  <2>7. ClockInv'
    <3>1. ASSUME steady  PROVE timer' >= lastEmit + MinInterval
      <4>1. CASE timer = NoTimer
        BY <1>2, <2>1, <3>1, <4>1
      <4>2. CASE timer # NoTimer
        BY <1>1, <2>1, <3>1, <4>2 DEF ProgressInv, ClockInv
      <4> QED
        BY <4>1, <4>2
    <3> QED
      BY <1>1, <2>1, <3>1 DEF ProgressInv, ClockInv
  <2> QED
    BY <2>3, <2>4, <2>5, <2>6, <2>7 DEF ProgressInv
<1> QED
  BY <1>5, <1>6

LEMMA TimerFiresStep ==
  ASSUME ProgressInv, TimerFires  PROVE ProgressInv'
<1>1. /\ timer # NoTimer /\ now >= timer /\ timer' = NoTimer
      /\ UNCHANGED <<stage, result, evidence, now, skew, steady, sent>>
  BY DEF TimerFires
<1>2. stage = "running"
  BY <1>1 DEF ProgressInv, TypeOK, IdleInv, SettledInv
<1>3. /\ shown # <<>> /\ Len(shown) \in Nat /\ Len(shown) >= 1
      /\ now \in Nat /\ skew \in Int /\ lastEmit \in Int
      /\ DateNow = now + skew /\ MinInterval \in Nat
      /\ pending \in Updates \cup {NoUpdate} /\ timer \in Nat
      /\ steady => skew = 0 /\ lastEmit = shown[Len(shown)].at
  BY <1>1, <1>2, RunningFacts
<1>4. CASE pending # NoUpdate
  <2>1. EmitNow(pending)
    BY <1>4 DEF TimerFires
  <2>2. /\ pending \in Updates /\ pending.event # "terminal" /\ pending.n = sent'
        /\ \A i \in 1..Len(shown) : shown[i].update.n < pending.n
    BY <1>1, <1>2, <1>3, <1>4 DEF ProgressInv, RunningInv, OrderInv
  <2>3. steady => DateNow - lastEmit >= MinInterval
    <3>1. steady => timer >= lastEmit + MinInterval
      BY <1>1, <1>2 DEF ProgressInv, ClockInv
    <3> QED
      BY <1>1, <1>3, <3>1
  <2> QED
    BY <1>1, <1>2, <2>1, <2>2, <2>3, EmitStep
<1> QED
  BY <1>1, <1>2, <1>4 DEF ProgressInv, RunningInv

-------------------------------------------------------------------------------
(* The call settles with one last update, or an error that shows what was pending. *)
LEMMA SettleStep ==
  ASSUME ProgressInv, Settle  PROVE ProgressInv'
<1>1. PICK e \in Evidence :
        /\ evidence' = e
        /\ IF e.process = "error"
           THEN /\ result' = "thrown"
                /\ IF pending = NoUpdate THEN UNCHANGED dispatcherVars
                   ELSE EmitNow(pending) /\ UNCHANGED sent
           ELSE /\ result' = Kind(e)
                /\ DispatchAndFlush(Update("terminal", Kind(e)), NoUpdate)
  BY DEF Settle
<1>2. stage = "running" /\ stage' = "settled" /\ UNCHANGED <<now, skew, steady>>
  BY DEF Settle
<1>3. /\ shown \in Seq(Entries) /\ shown # <<>> /\ Len(shown) \in Nat /\ Len(shown) >= 1
      /\ sent \in Nat /\ now \in Nat /\ skew \in Int /\ lastEmit \in Int
      /\ DateNow = now + skew /\ MinInterval \in Nat
      /\ pending \in Updates \cup {NoUpdate} /\ timer \in Nat \cup {NoTimer}
      /\ \A i \in 1..Len(shown) : shown[i].update.n \in Nat
  BY <1>2, RunningFacts
<1>4. IdleInv' /\ RunningInv'
  BY <1>2 DEF IdleInv, RunningInv
<1>5. /\ \A i, k \in 1..Len(shown) : i < k => shown[i].update.n < shown[k].update.n
      /\ \A i \in 1..Len(shown) : shown[i].update.n <= sent
      /\ shown # <<>> => shown[1].update.event = "start"
      /\ \A i \in 1..Len(shown) : shown[i].update.event # "terminal"
  BY <1>2 DEF ProgressInv, OrderInv, RunningInv
<1>6. ASSUME steady, NEW i \in 1..Len(shown) - 1
      PROVE  shown[i + 1].at - shown[i].at >= MinInterval
  BY <1>2, <1>6 DEF ProgressInv, ClockInv
<1>7. ASSUME NEW u \in Updates, \A i \in 1..Len(shown) : shown[i].update.n < u.n,
             u.n = sent', shown' = Append(shown, Shown(u)),
             pending' = NoUpdate, timer' = NoTimer, lastEmit' = DateNow,
             result' \in Kinds \cup {"thrown"},
             result' # "thrown" =>
               /\ u.event = "terminal" /\ u.kind = result'
               /\ result' = "success" =>
                    e = [process |-> "resolved", parser |-> "success", exit |-> "clean"]
      PROVE  ProgressInv'
  <2>1. /\ shown' \in Seq(Entries) /\ shown' # <<>>
        /\ \A i, k \in 1..Len(shown') : i < k => shown'[i].update.n < shown'[k].update.n
        /\ \A i \in 1..Len(shown') : shown'[i].update.n <= u.n
        /\ shown'[1].update.event = "start"
        /\ Len(shown') = Len(shown) + 1
        /\ \A i \in 1..Len(shown) : shown'[i] = shown[i]
        /\ shown'[Len(shown')].update = u
    BY <1>3, <1>5, <1>7, ShowNewer
  <2>2. TypeOK'
    <3>1. u.n \in Nat
      BY DEF Updates
    <3> QED
      BY <1>1, <1>2, <1>3, <1>7, <2>1, <3>1 DEF ProgressInv, TypeOK, Entries
  <2>3. SettledInv'
    <3>1. Last(shown') = shown'[Len(shown')]
      BY DEF Last
    <3>2. \A i \in 1..Len(shown') - 1 : shown'[i].update.event # "terminal"
      BY <1>3, <1>5, <2>1
    <3> QED
      BY <1>1, <1>7, <2>1, <3>1, <3>2 DEF SettledInv, LastWordIsVerdict
  <2>4. OrderInv'
    BY <1>7, <2>1 DEF OrderInv
  <2>5. ClockInv'
    <3>1. ASSUME steady, NEW i \in 1..Len(shown') - 1, i + 1 # Len(shown')
          PROVE  shown'[i + 1].at - shown'[i].at >= MinInterval
      <4>1. i \in 1..Len(shown) - 1 /\ i \in 1..Len(shown) /\ i + 1 \in 1..Len(shown)
        BY <1>3, <2>1, <3>1
      <4> QED
        BY <1>6, <2>1, <3>1, <4>1
    <3> QED
      BY <1>2, <3>1 DEF ProgressInv, ClockInv
  <2> QED
    BY <1>4, <2>2, <2>3, <2>4, <2>5 DEF ProgressInv
<1>8. CASE e.process = "error" /\ pending = NoUpdate
  <2>1. result' = "thrown" /\ UNCHANGED dispatcherVars
    BY <1>1, <1>8
  <2>2. TypeOK'
    BY <1>1, <1>2, <2>1 DEF ProgressInv, TypeOK, dispatcherVars
  <2>3. SettledInv'
    BY <1>2, <1>8, <2>1 DEF ProgressInv, RunningInv, SettledInv, LastWordIsVerdict, dispatcherVars
  <2>4. OrderInv' /\ ClockInv'
    BY <1>2, <2>1 DEF ProgressInv, OrderInv, ClockInv, dispatcherVars
  <2> QED
    BY <1>4, <2>2, <2>3, <2>4 DEF ProgressInv
<1>9. CASE e.process = "error" /\ pending # NoUpdate
  <2>1. result' = "thrown" /\ EmitNow(pending) /\ UNCHANGED sent
    BY <1>1, <1>9
  <2>2. /\ pending \in Updates /\ pending.n = sent
        /\ \A i \in 1..Len(shown) : shown[i].update.n < pending.n
    BY <1>3, <1>9 DEF ProgressInv, OrderInv
  <2> QED
    BY <1>7, <2>1, <2>2 DEF EmitNow
<1>10. CASE e.process # "error"
  <2> DEFINE u == Update("terminal", Kind(e))
  <2>1. /\ Kind(e) \in Kinds /\ Kind(e) # "thrown"
        /\ Kind(e) = "success" =>
             e = [process |-> "resolved", parser |-> "success", exit |-> "clean"]
    BY <1>10, KindTypes
  <2>2. u \in Updates
    BY <1>3, <2>1, UpdateTypes
  <2>3. u.n = sent + 1 /\ u.event = "terminal" /\ u.kind = Kind(e)
    BY DEF Update
  <2>4. result' = Kind(e) /\ DispatchAndFlush(u, NoUpdate)
    BY <1>1, <1>10
  <2> HIDE DEF u
  <2>5. /\ shown' = Append(shown, Shown(u)) /\ sent' = u.n
        /\ pending' = NoUpdate /\ timer' = NoTimer /\ lastEmit' = DateNow
    BY <1>3, <2>2, <2>4, FlushOne
  <2>6. \A i \in 1..Len(shown) : shown[i].update.n < u.n
    BY <1>3, <1>5, <2>3
  <2> QED
    BY <1>7, <2>1, <2>2, <2>3, <2>4, <2>5, <2>6
<1> QED
  BY <1>8, <1>9, <1>10

(* The clocks disturb nothing but themselves. *)
LEMMA ClockSteps ==
  ASSUME ProgressInv, Tick \/ SetClock  PROVE ProgressInv'
<1>1. /\ UNCHANGED <<stage, result, evidence, lastEmit, pending, timer, sent, shown>>
      /\ \/ now' = now + 1 /\ UNCHANGED <<skew, steady>>
         \/ stage = "running" /\ now' = now /\ skew' \in Skews /\ steady' = FALSE
  BY DEF Tick, SetClock, dispatcherVars
<1>2. now \in Nat /\ MinInterval \in Nat
  BY IntervalAssumption DEF ProgressInv, TypeOK
<1>3. TypeOK'
  <2>1. now' \in Nat /\ skew' \in Skews
    BY <1>1, <1>2 DEF ProgressInv, TypeOK
  <2>2. steady' \in BOOLEAN
    BY <1>1, Zenon DEF ProgressInv, TypeOK
  <2> QED
    BY <1>1, <2>1, <2>2 DEF ProgressInv, TypeOK
<1>4. IdleInv'
  BY <1>1, <1>2 DEF ProgressInv, IdleInv
<1>5. RunningInv' /\ SettledInv' /\ OrderInv'
  BY <1>1 DEF ProgressInv, RunningInv, SettledInv, LastWordIsVerdict, OrderInv
<1>6. ClockInv'
  BY <1>1 DEF ProgressInv, ClockInv
<1> QED
  BY <1>3, <1>4, <1>5, <1>6 DEF ProgressInv

-------------------------------------------------------------------------------
(* The invariant is inductive. *)
THEOREM ProgressInvariant == Spec => []ProgressInv
<1>1. Init => ProgressInv
  <2> SUFFICES ASSUME Init
               PROVE  ProgressInv
    OBVIOUS
  <2>1. TypeOK
    <3>1. <<>> \in Seq([update : Updates, at : Nat])
      BY EmptySeq
    <3> QED
      BY <3>1, IntervalAssumption DEF Init, TypeOK
  <2>2. Len(shown) = 0
    BY EmptySeq DEF Init
  <2>3. IdleInv /\ RunningInv /\ SettledInv
    BY IntervalAssumption DEF Init, IdleInv, RunningInv, SettledInv
  <2>4. OrderInv /\ ClockInv
    BY <2>2 DEF Init, OrderInv, ClockInv
  <2> QED
    BY <2>1, <2>3, <2>4 DEF ProgressInv
<1>2. ProgressInv /\ [Next]_vars => ProgressInv'
  <2> SUFFICES ASSUME ProgressInv, [Next]_vars
               PROVE  ProgressInv'
    OBVIOUS
  <2>1. CASE Next
    BY <2>1, ExecuteStep, ExecuteFailsStep, ExecuteThrowsStep, ProgressStep, SettleStep,
       TimerFiresStep, ClockSteps DEF Next
  <2>2. CASE UNCHANGED vars
    BY <2>2 DEF vars, dispatcherVars, ProgressInv, TypeOK, IdleInv, RunningInv, SettledInv,
       LastWordIsVerdict, OrderInv, ClockInv
  <2> QED
    BY <2>1, <2>2
<1> QED
  BY <1>1, <1>2, PTL DEF Spec

(* Every variable has its type, whatever the interval and the clock. *)
THEOREM ProgressTypeCorrect == Spec => []TypeOK
BY ProgressInvariant, PTL DEF ProgressInv

(* Coalescing drops updates but never reorders or repeats one: the dispatcher and its
   timer show them in the order the runner reported them, the start first. *)
THEOREM UpdatesInOrder == Spec => []ShownInOrder
<1>1. ProgressInv => ShownInOrder
  <2> SUFFICES ASSUME ProgressInv
               PROVE  ShownInOrder
    OBVIOUS
  <2>1. shown \in Seq(Entries)
    BY DEF ProgressInv, TypeOK, Entries
  <2>2. DOMAIN shown = 1..Len(shown) /\ Len(shown) \in Nat
    BY <2>1, LenProperties
  <2>3. ASSUME pending # NoUpdate  PROVE Last(shown).update.n < sent
    <3>1. stage = "running"
      BY <2>3 DEF ProgressInv, TypeOK, IdleInv, SettledInv
    <3>2. Len(shown) \in 1..Len(shown)
      BY <3>1, RunningFacts
    <3> QED
      BY <2>3, <3>2 DEF ProgressInv, OrderInv, Last
  <2> QED
    BY <2>2, <2>3 DEF ProgressInv, OrderInv, ShownInOrder
<1> QED
  BY <1>1, ProgressInvariant, PTL

(* The last update of a call that returned is its verdict, and success means a resolved
   run, an accepted stream and a clean exit. *)
THEOREM VerdictIsLast == Spec => []LastWordIsVerdict
<1>1. ProgressInv => LastWordIsVerdict
  BY DEF ProgressInv, SettledInv, LastWordIsVerdict
<1> QED
  BY <1>1, ProgressInvariant, PTL

(* With a steady clock the dispatcher keeps updates an interval apart, but for the last
   one of a call that settles. *)
THEOREM UpdatesAreThrottled == Spec => []Throttled
<1>1. ProgressInv => Throttled
  BY DEF ProgressInv, ClockInv, Throttled
<1> QED
  BY <1>1, ProgressInvariant, PTL

(* Nothing is shown after execute settled: flush leaves no timer that could fire. *)
THEOREM SettledIsSilent == Spec => NothingAfterSettle
<1>1. ProgressInv /\ [Next]_vars => [stage = "settled" => UNCHANGED shown]_vars
  <2> SUFFICES ASSUME ProgressInv, Next, stage = "settled"
               PROVE  UNCHANGED shown
    BY DEF vars, dispatcherVars
  <2>1. timer = NoTimer
    BY DEF ProgressInv, SettledInv
  <2> QED
    BY <2>1 DEF Next, Execute, ExecuteFails, ExecuteThrows, Progress, Settle, TimerFires, Tick,
       SetClock, dispatcherVars
<1> QED
  BY <1>1, ProgressInvariant, PTL DEF Spec, NothingAfterSettle

(* An update that was held back always has a timer that will show it, and a timer is
   armed for nothing else: the safety half of PendingShown. *)
THEOREM PendingIsArmed == Spec => [](pending # NoUpdate <=> timer # NoTimer)
<1>1. ProgressInv => (pending # NoUpdate <=> timer # NoTimer)
  BY DEF ProgressInv, TypeOK, IdleInv, RunningInv, SettledInv
<1> QED
  BY <1>1, ProgressInvariant, PTL
===============================================================================
