--------------------------- MODULE ModelsCacheProofs ---------------------------
(***************************************************************************)
(* Theorems about ModelsCache, for every set of clients, every             *)
(* installation and search path, every ttl and any number of settings of   *)
(* the wall clock: the lists that are cached and served are genuine, and   *)
(* the agy that is asked is the right one and is asked unless a list is    *)
(* recent.                                                                 *)
(***************************************************************************)
EXTENDS ModelsCache, SequenceLemmas

(* What the file may hold, and what a request may have read of it. *)
Caches == {Unreadable} \cup [list : Lists, fetchedAt : Int]

Stages == {"idle", "asking", "listed", "answered"}
Requests ==
  [stage : Stages, cached : Caches, now : Int, executable : Files \cup {NoAgy},
   list : Reports \cup {Builtin}]

CacheTypes ==
  /\ files \in Setups /\ agyPath \in AgyPaths
  /\ cache \in Caches
  /\ request \in [Clients -> Requests]
  /\ time \in 0..MaxTime /\ offset \in Int
  /\ sets \in Nat /\ setBack \in 0..sets

(* What a request holds in each stage; only a request that asks has a file to run. *)
StageInv ==
  \A r \in Clients :
    /\ request[r].stage = "idle" => request[r].list = NoList
    /\ request[r].stage = "asking" => request[r].executable \in Files /\ request[r].list = NoList
    /\ request[r].stage = "listed" => request[r].list \in Reports
    /\ request[r].stage = "answered" => request[r].list \in Lists \cup {Builtin}

(* A reading of the wall clock is behind the steady clock by no more than what the wall
   clock has lost and gained since: so a list is at least as young as its date in the
   file says, but for what the clock was set back. *)
DatesInv ==
  /\ cache # Unreadable => cache.fetchedAt <= cache.list.at + offset + setBack
  /\ \A r \in Clients :
       /\ request[r].stage = "asking" => request[r].now <= time + offset + setBack
       /\ request[r].stage = "listed" /\ request[r].list \in Lists =>
            request[r].now <= request[r].list.at + offset + setBack

CacheInv == CacheTypes /\ StageInv /\ DatesInv

-------------------------------------------------------------------------------
(* Files, lists and what stands for none of them. *)
LEMMA FileFacts ==
  /\ \A path \in Files : path = <<path[1], path[2], path[3]>> /\ path # NoAgy /\ path # <<"builtin">>
                         /\ path # <<"partial">>
BY FilesAssumption DEF NoAgy

LEMMA ListFacts ==
  /\ NoList \notin Lists /\ Partial \notin Lists /\ Builtin \notin Lists
  /\ Builtin # NoList /\ Builtin # Partial /\ Partial # NoList
BY FileFacts DEF Lists, NoList, Partial, Builtin, NoAgy

(* The names a search may be given. *)
Names == {"agy"} \cup {path[2] : path \in Files}

LEMMA FilesTried ==
  /\ \A name \in Names, place \in Places : Tried(name, place) \in Files
  /\ AgyPaths \subseteq {Unset, Blank} \cup {File(path) : path \in Files}
                                      \cup {Command(name) : name \in Names}
BY FilesAssumption DEF Names

LEMMA PlaceFacts ==
  /\ DOMAIN Path \subseteq Nat /\ DOMAIN Extensions \subseteq Nat
  /\ \A p \in Places : p = <<p[1], p[2]>> /\ p[1] \in DOMAIN Path /\ p[2] \in DOMAIN Extensions
BY PathAssumption DEF Places

(* Of a set of places one comes first. *)
LEMMA FirstPlace ==
  ASSUME NEW T, T \subseteq Places, T # {}
  PROVE  \E p \in T : \A q \in T : ~Before(q, p)
<1>1. PICK d \in {p[1] : p \in T} : \A k \in {p[1] : p \in T} : d <= k
  <2>1. {p[1] : p \in T} \subseteq Nat /\ {p[1] : p \in T} # {}
    BY PlaceFacts
  <2> QED
    BY <2>1, LeastOf
<1> DEFINE row == {p[2] : p \in {q \in T : q[1] = d}}
<1>2. PICK e \in row : \A k \in row : e <= k
  <2>1. row \subseteq Nat /\ row # {}
    BY <1>1, PlaceFacts
  <2> QED
    BY <2>1, LeastOf
<1>3. PICK p \in T : p[1] = d /\ p[2] = e
  BY <1>2
<1>4. \A q \in T : q[1] \in Nat /\ q[2] \in Nat
  BY PlaceFacts
<1>5. ASSUME NEW q \in T  PROVE ~Before(q, p)
  <2>1. d <= q[1] /\ (q[1] = d => e <= q[2])
    BY <1>1, <1>2
  <2> QED
    BY <1>3, <1>4, <2>1 DEF Before
<1> QED
  BY <1>5

Runnable(name) == {place \in Places : ExecState(files, Tried(name, place)) = "ok"}

(* searchPath returns the first file it tries that can be run. *)
LEMMA SearchFinds ==
  ASSUME NEW name \in Names
  PROVE  IF Runnable(name) = {} THEN SearchPath(files, name) = NoAgy
         ELSE \E place \in Runnable(name) :
                /\ SearchPath(files, name) = Tried(name, place)
                /\ \A other \in Runnable(name) : ~Before(other, place)
<1>1. Runnable(name) \subseteq Places
  BY DEF Runnable
<1>2. CASE Runnable(name) # {}
  <2> DEFINE place == CHOOSE p \in Runnable(name) : \A other \in Runnable(name) : ~Before(other, p)
  <2>1. place \in Runnable(name) /\ \A other \in Runnable(name) : ~Before(other, place)
    BY <1>1, <1>2, FirstPlace
  <2>2. SearchPath(files, name) = Tried(name, place)
    BY <1>2 DEF SearchPath, Runnable
  <2> QED
    BY <1>2, <2>1, <2>2
<1> QED
  BY <1>2 DEF SearchPath, Runnable

(* Where something first stands in a list. *)
LEMMA FirstAtIs ==
  ASSUME NEW list, DOMAIN list \subseteq Nat, NEW i \in DOMAIN list
  PROVE  /\ FirstAt(list, list[i]) \in DOMAIN list
         /\ list[FirstAt(list, list[i])] = list[i]
         /\ FirstAt(list, list[i]) <= i
<1> DEFINE N == {k \in DOMAIN list : list[k] = list[i]}
<1>1. N \subseteq Nat /\ N # {}
  OBVIOUS
<1>2. PICK n \in N : \A k \in N : n <= k
  BY <1>1, LeastOf
<1>3. \E n_1 \in DOMAIN list : list[n_1] = list[i] /\ \A k \in DOMAIN list : list[k] = list[i] => n_1 <= k
  BY <1>2
<1> QED
  BY <1>3 DEF FirstAt
-------------------------------------------------------------------------------
(* Of what can be run, ExecState says "ok". *)
LEMMA CanRunIs ==
  ASSUME files \in Setups, NEW path \in Files
  PROVE  ExecState(files, path) = "ok" <=> CanRun(path)
<1>1. files[path] \in {"absent", "directory", "plain", "executable"}
  BY SetupsAssumption DEF FileKinds
<1> QED
  BY <1>1 DEF ExecState, CanRun

(* A file tried for a command is one of its homonyms, and each homonym is tried, first of
   all at the place of its rank. *)
LEMMA TriedIsHomonym ==
  ASSUME NEW name \in Names, NEW place \in Places
  PROVE  /\ Tried(name, place) \in Homonyms(name)
         /\ ~Before(place, Rank(Tried(name, place)))
<1> DEFINE path == Tried(name, place)
<1>1. place[1] \in DOMAIN Path /\ place[2] \in DOMAIN Extensions
  BY PlaceFacts
<1>2. path[1] = Path[place[1]] /\ path[2] = name /\ path[3] = Extensions[place[2]] /\ path \in Files
  BY FilesTried DEF Tried
<1> HIDE DEF path
<1>3. path \in Homonyms(name)
  BY <1>1, <1>2 DEF Homonyms
<1>4. FirstAt(Path, path[1]) <= place[1] /\ FirstAt(Path, path[1]) \in DOMAIN Path
  BY <1>1, <1>2, PlaceFacts, FirstAtIs
<1>5. FirstAt(Extensions, path[3]) <= place[2] /\ FirstAt(Extensions, path[3]) \in DOMAIN Extensions
  BY <1>1, <1>2, PlaceFacts, FirstAtIs
<1>6. Rank(path)[1] = FirstAt(Path, path[1]) /\ Rank(path)[2] = FirstAt(Extensions, path[3])
  BY DEF Rank
<1>7. ~Before(place, Rank(path))
  BY <1>1, <1>4, <1>5, <1>6, PlaceFacts DEF Before
<1> QED
  BY <1>3, <1>7 DEF path

LEMMA HomonymIsTried ==
  ASSUME NEW name, NEW path \in Homonyms(name)
  PROVE  Rank(path) \in Places /\ Tried(name, Rank(path)) = path
<1>1. path \in Files /\ path[2] = name /\ path = <<path[1], path[2], path[3]>>
  BY FileFacts DEF Homonyms
<1>2. PICK d \in DOMAIN Path : Path[d] = path[1]
  BY DEF Homonyms
<1>3. PICK e \in DOMAIN Extensions : Extensions[e] = path[3]
  BY DEF Homonyms
<1>4. FirstAt(Path, path[1]) \in DOMAIN Path /\ Path[FirstAt(Path, path[1])] = path[1]
  BY <1>2, PlaceFacts, FirstAtIs
<1>5. FirstAt(Extensions, path[3]) \in DOMAIN Extensions /\ Extensions[FirstAt(Extensions, path[3])] = path[3]
  BY <1>3, PlaceFacts, FirstAtIs
<1>6. Rank(path) = <<FirstAt(Path, path[1]), FirstAt(Extensions, path[3])>>
  BY DEF Rank
<1> HIDE DEF Rank
<1>7. Rank(path) \in Places
  BY <1>4, <1>5, <1>6 DEF Places
<1>8. Tried(name, Rank(path)) = <<path[1], name, path[3]>>
  BY <1>4, <1>5, <1>6 DEF Tried
<1> QED
  BY <1>1, <1>7, <1>8

(* What a search for a command finds is the first of the homonyms that can be run. *)
LEMMA SearchIsRight ==
  ASSUME files \in Setups, NEW name \in Names
  PROVE  LET found == SearchPath(files, name)
         IN IF found = NoAgy THEN \A path \in Homonyms(name) : ~CanRun(path)
            ELSE /\ found \in Homonyms(name) /\ CanRun(found)
                 /\ \A other \in Homonyms(name) : CanRun(other) => ~Before(Rank(other), Rank(found))
<1> DEFINE found == SearchPath(files, name)
<1>1. \A path \in Homonyms(name) : path \in Files
  BY DEF Homonyms
<1>2. \A path \in Homonyms(name) : CanRun(path) => Rank(path) \in Runnable(name)
  BY <1>1, CanRunIs, HomonymIsTried DEF Runnable
<1>3. CASE Runnable(name) = {}
  <2>1. found = NoAgy
    BY <1>3, SearchFinds
  <2> QED
    BY <1>2, <1>3, <2>1
<1>4. CASE Runnable(name) # {}
  <2>1. PICK place \in Runnable(name) :
          found = Tried(name, place) /\ \A other \in Runnable(name) : ~Before(other, place)
    BY <1>4, SearchFinds
  <2> HIDE DEF found
  <2>2. place \in Places /\ ExecState(files, found) = "ok"
    BY <2>1 DEF Runnable
  <2>3. found \in Homonyms(name) /\ found \in Files /\ ~Before(place, Rank(found))
    BY <1>1, <2>1, <2>2, TriedIsHomonym
  <2>4. CanRun(found) /\ found # NoAgy
    BY <2>2, <2>3, CanRunIs, FileFacts
  <2>5. ASSUME NEW other \in Homonyms(name), CanRun(other)
        PROVE  ~Before(Rank(other), Rank(found))
    <3>1. Rank(other) \in Runnable(name) /\ Rank(other) \in Places
      BY <1>2, <2>5, HomonymIsTried
    <3>2. ~Before(Rank(other), place)
      BY <2>1, <3>1
    <3>3. Rank(found) \in Places
      BY <2>3, HomonymIsTried
    <3> QED
      BY <2>2, <2>3, <3>1, <3>2, <3>3, PlaceFacts DEF Before
  <2> QED
    BY <2>3, <2>4, <2>5 DEF found
<1> QED
  BY <1>3, <1>4

(* resolveAgy finds agy, said from the files, or there is none. *)
LEMMA ResolvedIsAgy ==
  ASSUME files \in Setups, agyPath \in AgyPaths
  PROVE  LET found == ResolveAgy(files, agyPath)
         IN IF found = NoAgy THEN \A path \in Files : ~IsAgy(path)
            ELSE found \in Files /\ IsAgy(found)
<1> DEFINE found == ResolveAgy(files, agyPath)
<1>1. \A name : \A path \in Homonyms(name) : path \in Files /\ path[2] = name
  BY DEF Homonyms
<1>2. ASSUME NEW name \in Names, found = SearchPath(files, name),
             \A path \in Files : agyPath # File(path),
             \A n : agyPath = Command(n) \/ (agyPath = Unset /\ n = "agy") <=> n = name
      PROVE  IF found = NoAgy THEN \A path \in Files : ~IsAgy(path)
             ELSE found \in Files /\ IsAgy(found)
  <2>1. CASE found = NoAgy
    <3>1. \A path \in Homonyms(name) : ~CanRun(path)
      BY <1>2, <2>1, SearchIsRight
    <3> QED
      BY <1>2, <2>1, <3>1 DEF IsAgy
  <2>2. CASE found # NoAgy
    <3>1. /\ found \in Homonyms(name) /\ CanRun(found)
          /\ \A other \in Homonyms(name) : CanRun(other) => ~Before(Rank(other), Rank(found))
      BY <1>2, <2>2, SearchIsRight
    <3>2. found \in Files /\ found[2] = name
      BY <1>1, <3>1
    <3> HIDE DEF found
    <3> QED
      BY <1>2, <2>2, <3>1, <3>2 DEF IsAgy
  <2> QED
    BY <2>1, <2>2
<1>3. CASE agyPath = Unset
  <2>1. found = SearchPath(files, "agy") /\ "agy" \in Names
    BY <1>3 DEF ResolveAgy, Names
  <2>2. \A path \in Files : agyPath # File(path)
    BY <1>3 DEF Unset, File
  <2>3. \A n : agyPath # Command(n)
    BY <1>3 DEF Unset, Command
  <2> QED
    BY <1>2, <1>3, <2>1, <2>2, <2>3
<1>4. CASE agyPath = Blank
  <2>1. found = NoAgy /\ agyPath # Unset
    BY <1>4 DEF ResolveAgy, ResolveCandidate, Blank, Unset
  <2>2. \A path : agyPath # File(path) /\ \A n : agyPath # Command(n)
    BY <1>4 DEF Blank, File, Command
  <2> QED
    BY <2>1, <2>2 DEF IsAgy
<1>5. ASSUME NEW path \in Files, agyPath = File(path)
      PROVE  IF found = NoAgy THEN \A p \in Files : ~IsAgy(p)
             ELSE found \in Files /\ IsAgy(found)
  <2>1. agyPath # Unset /\ agyPath.form = "file" /\ agyPath.path = path
    BY <1>5 DEF Unset, File
  <2>2. \A n : agyPath # Command(n)
    BY <1>5 DEF File, Command
  <2>3. \A p : agyPath = File(p) => p = path
    BY <1>5 DEF File
  <2>4. found = IF ExecState(files, path) = "ok" THEN path ELSE NoAgy
    BY <2>1 DEF ResolveAgy, ResolveCandidate
  <2>5. path # NoAgy
    BY FileFacts
  <2>6. ExecState(files, path) = "ok" <=> CanRun(path)
    BY CanRunIs
  <2> QED
    BY <1>5, <2>1, <2>2, <2>3, <2>4, <2>5, <2>6 DEF IsAgy
<1>6. ASSUME NEW name \in Names, agyPath = Command(name)
      PROVE  IF found = NoAgy THEN \A p \in Files : ~IsAgy(p)
             ELSE found \in Files /\ IsAgy(found)
  <2>1. agyPath # Unset /\ agyPath.form = "command" /\ agyPath.name = name
    BY <1>6 DEF Unset, Command
  <2>2. \A path \in Files : agyPath # File(path)
    BY <1>6 DEF File, Command
  <2>3. \A n : agyPath = Command(n) <=> n = name
    BY <1>6 DEF Command
  <2>4. found = SearchPath(files, name)
    BY <2>1 DEF ResolveAgy, ResolveCandidate
  <2> QED
    BY <1>2, <2>1, <2>2, <2>3, <2>4
<1> QED
  BY <1>3, <1>4, <1>5, <1>6, FilesTried
-------------------------------------------------------------------------------
LEMMA FallbackFacts ==
  ASSUME NEW cached \in Caches
  PROVE  /\ Fallback(cached) \in Lists \cup {Builtin}
         /\ Fallback(cached) = Builtin => cached = Unreadable
         /\ cached # Unreadable => cached.list \in Lists /\ cached.fetchedAt \in Int
BY ListFacts DEF Fallback, Caches

LEMMA IdleType == Idle \in Requests /\ Idle.stage = "idle" /\ Idle.list = NoList
BY DEF Idle, Requests, Stages, Caches, Reports

LEMMA AnswerType ==
  ASSUME NEW list \in Lists \cup {Builtin}
  PROVE  /\ Answer(list) \in Requests
         /\ Answer(list).stage = "answered" /\ Answer(list).list = list
<1>1. list \in Reports \cup {Builtin}
  BY DEF Reports
<1> QED
  BY <1>1, IdleType DEF Answer, Requests, Stages

(* A request that is answered is in order whatever it held before; the clocks stand. *)
LEMMA AnsweredKeeps ==
  ASSUME CacheInv, NEW r \in Clients, NEW list \in Lists \cup {Builtin}, Answered(r, list),
         UNCHANGED <<files, agyPath, clockVars>>, cache' \in Caches,
         cache' # Unreadable => cache'.fetchedAt <= cache'.list.at + offset + setBack
  PROVE  CacheInv'
<1>1. request \in [Clients -> Requests] /\ request' = [request EXCEPT ![r] = Answer(list)]
  BY DEF CacheInv, CacheTypes, Answered
<1>2. /\ request' \in [Clients -> Requests]
      /\ request'[r].stage = "answered" /\ request'[r].list = list
      /\ \A k \in Clients \ {r} : request'[k] = request[k]
  BY <1>1, AnswerType
<1>3. CacheTypes'
  BY <1>2 DEF CacheInv, CacheTypes, clockVars
<1>4. StageInv'
  BY <1>2 DEF CacheInv, StageInv
<1>5. DatesInv'
  BY <1>2 DEF CacheInv, DatesInv, clockVars
<1> QED
  BY <1>3, <1>4, <1>5 DEF CacheInv

LEMMA InitKeeps == Init => CacheInv
<1> SUFFICES ASSUME Init  PROVE CacheInv
  OBVIOUS
<1>1. \A r \in Clients : request[r] = Idle
  BY DEF Init
<1>2. CacheTypes
  BY IdleType, TimesAssumption DEF Init, CacheTypes, Caches
<1>3. StageInv /\ DatesInv
  BY <1>1, IdleType DEF Init, StageInv, DatesInv
<1> QED
  BY <1>2, <1>3 DEF CacheInv

LEMMA AskKeeps ==
  ASSUME CacheInv, NEW r \in Clients, Ask(r)
  PROVE  CacheInv'
<1> DEFINE executable == ResolveAgy(files, agyPath)
           asking == [Idle EXCEPT !.stage = "asking", !.cached = cache, !.now = DateNow,
                                  !.executable = executable]
<1>1. /\ cache \in Caches /\ files \in Setups /\ agyPath \in AgyPaths
      /\ request \in [Clients -> Requests] /\ time \in Int /\ offset \in Int /\ setBack \in Nat
  BY TimesAssumption DEF CacheInv, CacheTypes
<1>2. CASE Fresh(cache, DateNow)
  <2>1. cache.list \in Lists \cup {Builtin} /\ Answered(r, cache.list)
    BY <1>1, <1>2, FallbackFacts DEF Ask, Fresh, Answered
  <2> QED
    BY <1>1, <2>1, AnsweredKeeps DEF Ask, CacheInv, DatesInv
<1>3. CASE ~Fresh(cache, DateNow) /\ executable = NoAgy
  <2>1. Fallback(cache) \in Lists \cup {Builtin} /\ Answered(r, Fallback(cache))
    BY <1>1, <1>3, FallbackFacts DEF Ask, Answered
  <2> QED
    BY <1>1, <2>1, AnsweredKeeps DEF Ask, CacheInv, DatesInv
<1>4. CASE ~Fresh(cache, DateNow) /\ executable # NoAgy
  <2>1. request' = [request EXCEPT ![r] = asking]
    BY <1>4 DEF Ask
  <2>2. executable \in Files
    BY <1>1, <1>4, ResolvedIsAgy
  <2> HIDE DEF executable
  <2>3. /\ asking \in Requests /\ asking.stage = "asking" /\ asking.list = NoList
        /\ asking.executable \in Files /\ asking.now = time + offset
    <3>1. DateNow = time + offset /\ DateNow \in Int
      BY <1>1 DEF DateNow
    <3> QED
      BY <1>1, <2>2, <3>1, IdleType DEF Requests, Stages
  <2> HIDE DEF asking
  <2>4. /\ request' \in [Clients -> Requests] /\ request'[r] = asking
        /\ \A k \in Clients \ {r} : request'[k] = request[k]
    BY <1>1, <2>1, <2>3
  <2>5. UNCHANGED <<files, agyPath, cache, clockVars>>
    BY DEF Ask
  <2>6. CacheTypes'
    BY <2>4, <2>5 DEF CacheInv, CacheTypes, clockVars
  <2>7. StageInv'
    BY <2>3, <2>4 DEF CacheInv, StageInv
  <2>8. DatesInv'
    BY <1>1, <2>3, <2>4, <2>5 DEF CacheInv, DatesInv, clockVars
  <2> QED
    BY <2>6, <2>7, <2>8 DEF CacheInv
<1> QED
  BY <1>2, <1>3, <1>4

LEMMA AgyListsKeeps ==
  ASSUME CacheInv, NEW r \in Clients, AgyLists(r)
  PROVE  CacheInv'
<1>1. /\ request \in [Clients -> Requests] /\ request[r] \in Requests
      /\ request[r].stage = "asking" /\ request[r].executable \in Files
      /\ request[r].now <= time + offset + setBack /\ time \in 0..MaxTime
  BY DEF AgyLists, CacheInv, CacheTypes, StageInv, DatesInv
<1>2. PICK list \in {[from |-> request[r].executable, at |-> time], Partial, NoList} :
        request' = [request EXCEPT ![r].stage = "listed", ![r].list = list]
  BY DEF AgyLists
<1>3. list \in Reports /\ (list \in Lists => list.at = time)
  BY <1>1, <1>2, ListFacts DEF Reports, Lists
<1> DEFINE listed == [request[r] EXCEPT !.stage = "listed", !.list = list]
<1>4. /\ listed \in Requests /\ listed.stage = "listed" /\ listed.list = list
      /\ listed.now = request[r].now
  BY <1>1, <1>3 DEF Requests, Stages
<1>5. request' = [request EXCEPT ![r] = listed]
  BY <1>1, <1>2
<1> HIDE DEF listed
<1>6. /\ request' \in [Clients -> Requests] /\ request'[r] = listed
      /\ \A k \in Clients \ {r} : request'[k] = request[k]
  BY <1>1, <1>4, <1>5
<1>7. UNCHANGED <<files, agyPath, cache, clockVars>>
  BY DEF AgyLists
<1>8. CacheTypes'
  BY <1>6, <1>7 DEF CacheInv, CacheTypes, clockVars
<1>9. StageInv'
  BY <1>3, <1>4, <1>6 DEF CacheInv, StageInv
<1>10. DatesInv'
  BY <1>1, <1>3, <1>4, <1>6, <1>7 DEF CacheInv, DatesInv, clockVars
<1> QED
  BY <1>8, <1>9, <1>10 DEF CacheInv

LEMMA WriteKeeps ==
  ASSUME CacheInv, NEW r \in Clients, Write(r)
  PROVE  CacheInv'
<1>1. /\ request[r] \in Requests /\ request[r].list \in Lists
      /\ request[r].now <= request[r].list.at + offset + setBack
  BY DEF Write, Listed, CacheInv, CacheTypes, DatesInv
<1>2. /\ cache' = [list |-> request[r].list, fetchedAt |-> request[r].now]
      /\ Answered(r, request[r].list) /\ UNCHANGED <<files, agyPath, clockVars>>
  BY DEF Write
<1>3. cache' \in Caches
  BY <1>1, <1>2 DEF Caches, Requests
<1> QED
  BY <1>1, <1>2, <1>3, AnsweredKeeps

LEMMA FailureKeeps ==
  ASSUME CacheInv, NEW r \in Clients, WriteFails(r) \/ AskFails(r)
  PROVE  CacheInv'
<1>1. request[r] \in Requests /\ cache \in Caches
  BY DEF CacheInv, CacheTypes
<1>2. Fallback(request[r].cached) \in Lists \cup {Builtin}
  BY <1>1, FallbackFacts DEF Requests
<1>3. /\ Answered(r, Fallback(request[r].cached)) /\ UNCHANGED <<files, agyPath, clockVars>>
      /\ cache' \in {cache, Unreadable}
  BY DEF WriteFails, AskFails
<1>4. cache' \in Caches
  BY <1>1, <1>3 DEF Caches
<1>5. cache' # Unreadable => cache'.fetchedAt <= cache'.list.at + offset + setBack
  BY <1>3 DEF CacheInv, DatesInv
<1> QED
  BY <1>2, <1>3, <1>4, <1>5, AnsweredKeeps

LEMMA CrashKeeps ==
  ASSUME CacheInv, Crash
  PROVE  CacheInv'
<1>1. cache' \in {cache, Unreadable} /\ UNCHANGED <<files, agyPath, clockVars>>
  BY DEF Crash
<1>2. /\ request' = [r \in Clients |-> IF r \in InFlight THEN Idle ELSE request[r]]
      /\ request \in [Clients -> Requests]
  BY DEF Crash, CacheInv, CacheTypes
<1>3. /\ request' \in [Clients -> Requests]
      /\ \A r \in Clients : request'[r] = Idle \/ request'[r] = request[r]
  BY <1>2, IdleType
<1>4. CacheTypes'
  BY <1>1, <1>3 DEF CacheInv, CacheTypes, Caches, clockVars
<1>5. StageInv'
  BY <1>3, IdleType DEF CacheInv, StageInv
<1>6. DatesInv'
  BY <1>1, <1>3, IdleType DEF CacheInv, DatesInv, clockVars
<1> QED
  BY <1>4, <1>5, <1>6 DEF CacheInv

(* What is behind a reading stays behind one that is no earlier. *)
LEMMA StaysBehind ==
  ASSUME NEW n \in Int, NEW at \in Int, NEW o \in Int, NEW b \in Int, n <= at + o + b,
         NEW p \in Int, NEW c \in Int, p + c >= o + b
  PROVE  n <= at + p + c
OBVIOUS

LEMMA EnvironmentKeeps ==
  ASSUME CacheInv, Reinstall \/ Tick \/ SetClock
  PROVE  CacheInv'
<1>1. CacheTypes /\ UNCHANGED <<agyPath, cache, request>> /\ files' \in Setups
  BY DEF CacheInv, CacheTypes, Reinstall, Tick, SetClock
<1>2. time' \in 0..MaxTime /\ offset' \in Int /\ sets' \in Nat /\ setBack' \in 0..sets'
  BY TimesAssumption DEF CacheInv, CacheTypes, Reinstall, Tick, SetClock, clockVars
<1>6. offset' + setBack' >= offset + setBack /\ time' >= time
  BY TimesAssumption DEF CacheInv, CacheTypes, Reinstall, Tick, SetClock, clockVars
<1>3. CacheTypes'
  BY <1>1, <1>2 DEF CacheTypes
<1>4. StageInv'
  BY <1>1 DEF CacheInv, StageInv
<1>5. DatesInv'
  <2>1. /\ time \in Int /\ offset \in Int /\ setBack \in Int /\ time' \in Int /\ offset' \in Int
        /\ setBack' \in Int
    BY <1>1, <1>2, TimesAssumption DEF CacheTypes
  <2>2. cache # Unreadable => cache.fetchedAt \in Int /\ cache.list.at \in Int
    BY <1>1, FallbackFacts, TimesAssumption DEF CacheTypes, Lists
  <2>3. ASSUME NEW r \in Clients
        PROVE  request[r].now \in Int /\ (request[r].list \in Lists => request[r].list.at \in Int)
    BY <1>1, TimesAssumption DEF CacheTypes, Requests, Lists
  <2>4. DatesInv
    BY DEF CacheInv
  <2>5. cache' # Unreadable => cache'.fetchedAt <= cache'.list.at + offset' + setBack'
    <3>1. cache' = cache /\ (cache # Unreadable => cache.fetchedAt <= cache.list.at + offset + setBack)
      BY <1>1, <2>4 DEF DatesInv
    <3>2. ASSUME NEW n \in Int, NEW at \in Int, n <= at + offset + setBack
          PROVE  n <= at + offset' + setBack'
      BY <1>6, <2>1, <3>2, StaysBehind
    <3>3. CASE cache # Unreadable
      <4>1. cache.fetchedAt <= cache.list.at + offset' + setBack'
        BY <2>2, <3>1, <3>2, <3>3
      <4> QED
        BY <3>1, <4>1
    <3> QED
      BY <3>1, <3>3
  <2>6. ASSUME NEW r \in Clients
        PROVE  /\ request'[r].stage = "asking" => request'[r].now <= time' + offset' + setBack'
               /\ request'[r].stage = "listed" /\ request'[r].list \in Lists =>
                    request'[r].now <= request'[r].list.at + offset' + setBack'
    <3>1. request' = request
      BY <1>1
    <3>2. ASSUME request[r].stage = "asking"
          PROVE  request[r].now <= time' + offset' + setBack'
      <4>1. request[r].now \in Int /\ request[r].now <= time + offset + setBack
        BY <2>3, <2>4, <3>2 DEF DatesInv
      <4>2. request[r].now <= time + offset' + setBack'
        BY <1>6, <2>1, <4>1, StaysBehind
      <4> QED
        BY <1>6, <2>1, <4>1, <4>2
    <3>3. ASSUME request[r].stage = "listed", request[r].list \in Lists
          PROVE  request[r].now <= request[r].list.at + offset' + setBack'
      <4>1. /\ request[r].now \in Int /\ request[r].list.at \in Int
            /\ request[r].now <= request[r].list.at + offset + setBack
        BY <2>3, <2>4, <3>3 DEF DatesInv
      <4> QED
        BY <1>6, <2>1, <4>1, StaysBehind
    <3> QED
      BY <3>1, <3>2, <3>3
  <2> QED
    BY <2>5, <2>6 DEF DatesInv
<1> QED
  BY <1>3, <1>4, <1>5 DEF CacheInv

LEMMA CacheStep == CacheInv /\ [Next]_vars => CacheInv'
<1> SUFFICES ASSUME CacheInv, [Next]_vars  PROVE CacheInv'
  OBVIOUS
<1>1. CASE UNCHANGED vars
  BY <1>1 DEF CacheInv, CacheTypes, StageInv, DatesInv, vars
<1>2. ASSUME NEW r \in Clients, Ask(r) \/ AgyLists(r) \/ Write(r) \/ WriteFails(r) \/ AskFails(r)
      PROVE  CacheInv'
  BY <1>2, AskKeeps, AgyListsKeeps, WriteKeeps, FailureKeeps
<1> QED
  BY <1>1, <1>2, CrashKeeps, EnvironmentKeeps DEF Next

(* The inductive invariant: what is in the file and in the hands of each request, and how
   old it may be. *)
THEOREM CacheInvariant == Spec => []CacheInv
BY InitKeeps, CacheStep, PTL DEF Spec

(* Type correctness of the model list: every answer is a list, for any clients, files and
   clocks. *)
THEOREM CacheTypeCorrect == Spec => []TypeOK
<1>1. CacheInv => TypeOK
  <2> SUFFICES ASSUME CacheInv  PROVE TypeOK
    OBVIOUS
  <2>1. cache = Unreadable \/ cache \in [list : Reports, fetchedAt : Int]
    BY DEF CacheInv, CacheTypes, Caches, Reports
  <2>2. ASSUME NEW r \in Clients
        PROVE  /\ request[r].stage \in {"idle", "asking", "listed", "answered"}
               /\ request[r].executable \in Files \cup {NoAgy}
               /\ request[r].list \in
                    IF request[r].stage = "answered" THEN (Reports \ {NoList}) \cup {Builtin}
                    ELSE Reports
    <3>1. request[r] \in Requests
      BY DEF CacheInv, CacheTypes
    <3>2. NoList \in Reports /\ Lists \subseteq Reports \ {NoList}
      BY ListFacts DEF Reports
    <3> QED
      BY <3>1, <3>2 DEF CacheInv, StageInv, Requests, Stages
  <2> QED
    BY <2>1, <2>2 DEF TypeOK, CacheInv, CacheTypes
<1> QED
  BY <1>1, CacheInvariant, PTL

(* "Fallback chain: fresh cache, stale cache, builtin defaults": what is cached or served
   is a list that an agy reported, or the builtin one when no file could be read. *)
THEOREM ServedListsAreGenuine == Spec => ListsAreGenuine
<1> DEFINE Genuine ==
      /\ cache' # cache => cache' = Unreadable \/ cache'.list \in Lists
      /\ \A r \in Clients : request'[r].stage = "answered" /\ request'[r] # request[r] =>
           LET read == IF r \in InFlight THEN request[r].cached ELSE cache
           IN \/ request'[r].list \in Lists
              \/ request'[r].list = Builtin /\ read = Unreadable
<1>1. CacheInv /\ [Next]_vars => [Genuine]_vars
  <2> SUFFICES ASSUME CacheInv, Next  PROVE Genuine
    BY DEF vars
  <2>1. CacheTypes
    BY DEF CacheInv
  <2>2. ASSUME cache' # cache  PROVE cache' = Unreadable \/ cache'.list \in Lists
    <3>1. ASSUME NEW r \in Clients, Write(r)  PROVE cache'.list \in Lists
      BY <3>1 DEF Write, Listed
    <3>2. ASSUME NEW r \in Clients, WriteFails(r)  PROVE cache' = Unreadable
      BY <2>2, <3>2 DEF WriteFails
    <3>3. ASSUME NEW r \in Clients  PROVE ~(Ask(r) \/ AgyLists(r) \/ AskFails(r))
      BY <2>2 DEF Ask, AgyLists, AskFails
    <3>4. Crash => cache' = Unreadable
      BY <2>2 DEF Crash
    <3>5. ~(Reinstall \/ Tick \/ SetClock)
      BY <2>2 DEF Reinstall, Tick, SetClock
    <3> QED
      BY <3>1, <3>2, <3>3, <3>4, <3>5 DEF Next
  <2>3. ASSUME NEW r \in Clients, request'[r].stage = "answered", request'[r] # request[r]
        PROVE  LET read == IF r \in InFlight THEN request[r].cached ELSE cache
               IN \/ request'[r].list \in Lists
                  \/ request'[r].list = Builtin /\ read = Unreadable
    <3> DEFINE read == IF r \in InFlight THEN request[r].cached ELSE cache
               Good(k) == \/ request'[k].list \in Lists
                          \/ request'[k].list = Builtin /\ read = Unreadable
    <3>1. read \in Caches /\ request \in [Clients -> Requests] /\ request[r] \in Requests
      BY <2>1 DEF CacheTypes, Requests
    <3>2. ASSUME NEW list \in Lists \cup {Builtin}, Answered(r, list)
          PROVE  request'[r].list = list
      BY <3>1, <3>2, AnswerType DEF Answered
    <3>3. CASE Ask(r)
      <4>1. r \notin InFlight /\ read = cache
        BY <3>3 DEF Ask
      <4>2. CASE Fresh(cache, DateNow)
        <5>1. Answered(r, cache.list)
          BY <3>3, <4>2 DEF Ask, Answered
        <5>2. cache.list \in Lists
          BY <3>1, <4>1, <4>2, FallbackFacts DEF Fresh
        <5> QED
          BY <3>2, <5>1, <5>2
      <4>3. CASE ~Fresh(cache, DateNow) /\ ResolveAgy(files, agyPath) = NoAgy
        <5>1. Answered(r, Fallback(cache))
          BY <3>3, <4>3 DEF Ask, Answered
        <5> QED
          BY <3>1, <3>2, <4>1, <5>1, FallbackFacts
      <4>4. CASE ~Fresh(cache, DateNow) /\ ResolveAgy(files, agyPath) # NoAgy
        <5>1. request'[r].stage = "asking"
          BY <3>1, <3>3, <4>4 DEF Ask, Idle
        <5> QED
          BY <2>3, <5>1
      <4> QED
        BY <4>2, <4>3, <4>4
    <3>4. CASE AgyLists(r)
      <4>1. request'[r].stage = "listed"
        BY <3>1, <3>4 DEF AgyLists, Requests
      <4> QED
        BY <2>3, <4>1
    <3>5. CASE Write(r)
      <4>1. request[r].list \in Lists /\ Answered(r, request[r].list)
        BY <3>5 DEF Write, Listed
      <4> QED
        BY <3>2, <4>1
    <3>6. CASE WriteFails(r) \/ AskFails(r)
      <4>1. Answered(r, Fallback(request[r].cached)) /\ read = request[r].cached
        BY <3>6 DEF WriteFails, AskFails, Listed, InFlight
      <4> QED
        BY <3>1, <3>2, <4>1, FallbackFacts
    <3>7. ASSUME NEW k \in Clients \ {r},
                 Ask(k) \/ AgyLists(k) \/ Write(k) \/ WriteFails(k) \/ AskFails(k)
          PROVE  request'[r] = request[r]
      BY <3>1, <3>7 DEF Ask, AgyLists, Write, WriteFails, AskFails, Answered
    <3>8. Crash => request'[r] = Idle \/ request'[r] = request[r]
      BY DEF Crash
    <3>9. Reinstall \/ Tick \/ SetClock => request'[r] = request[r]
      BY DEF Reinstall, Tick, SetClock
    <3> QED
      BY <2>3, <3>3, <3>4, <3>5, <3>6, <3>7, <3>8, <3>9, IdleType DEF Next
  <2> QED
    BY <2>2, <2>3
<1> QED
  BY <1>1, CacheInvariant, PTL DEF Spec, ListsAreGenuine

(* agy, and the right one, is asked for its list unless there is none or a list is served
   that was reported within the ttl, but for what the wall clock was set back. *)
THEOREM AgyIsAsked == Spec => AgyAskedUnlessRecent
<1> DEFINE Right ==
      \A r \in Clients \ InFlight : request'[r] # request[r] =>
        LET answer == request'[r].list
        IN \/ request'[r].stage = "asking" /\ IsAgy(request'[r].executable)
           \/ answer # Builtin /\ time - answer.at < Ttl + setBack
           \/ \A path \in Files : ~IsAgy(path)
<1>1. CacheInv /\ [Next]_vars => [Right]_vars
  <2> SUFFICES ASSUME CacheInv, Next,
                      NEW r \in Clients \ InFlight, request'[r] # request[r]
               PROVE  LET answer == request'[r].list
                      IN \/ request'[r].stage = "asking" /\ IsAgy(request'[r].executable)
                         \/ answer # Builtin /\ time - answer.at < Ttl + setBack
                         \/ \A path \in Files : ~IsAgy(path)
    BY DEF vars
  <2>1. CacheTypes /\ request \in [Clients -> Requests]
    BY DEF CacheInv, CacheTypes
  <2>2. Ask(r)
    <3>1. ASSUME NEW k \in Clients \ {r},
                 Ask(k) \/ AgyLists(k) \/ Write(k) \/ WriteFails(k) \/ AskFails(k)
          PROVE  request'[r] = request[r]
      BY <2>1, <3>1 DEF Ask, AgyLists, Write, WriteFails, AskFails, Answered
    <3>2. ~(AgyLists(r) \/ Write(r) \/ WriteFails(r) \/ AskFails(r))
      BY DEF InFlight, AgyLists, Write, WriteFails, AskFails, Listed
    <3>3. Crash \/ Reinstall \/ Tick \/ SetClock => request'[r] = request[r]
      BY DEF Crash, Reinstall, Tick, SetClock
    <3> QED
      BY <3>1, <3>2, <3>3 DEF Next
  <2>3. CASE Fresh(cache, DateNow)
    <3>1. cache.list \in Lists /\ cache.fetchedAt \in Int /\ cache # Unreadable
      BY <2>1, <2>3, FallbackFacts DEF CacheTypes, Fresh
    <3>2. request'[r].list = cache.list
      BY <2>1, <2>2, <2>3, <3>1, AnswerType DEF Ask
    <3>3. cache.list # Builtin /\ cache.list.at \in Int
      BY <3>1, ListFacts, TimesAssumption DEF Lists
    <3>4. cache.fetchedAt <= cache.list.at + offset + setBack
      BY <3>1 DEF CacheInv, DatesInv
    <3>5. time + offset - cache.fetchedAt < Ttl
      <4>1. (time + offset) - cache.fetchedAt < Ttl
        BY <2>3 DEF Fresh, DateNow
      <4> QED
        BY <2>1, <3>1, <4>1, TimesAssumption DEF CacheTypes
    <3>6. time - cache.list.at < Ttl + setBack
      BY <2>1, <3>1, <3>3, <3>4, <3>5, TimesAssumption DEF CacheTypes
    <3> QED
      BY <3>2, <3>3, <3>6
  <2>4. CASE ~Fresh(cache, DateNow) /\ ResolveAgy(files, agyPath) = NoAgy
    BY <2>1, <2>4, ResolvedIsAgy DEF CacheTypes
  <2>5. CASE ~Fresh(cache, DateNow) /\ ResolveAgy(files, agyPath) # NoAgy
    <3>1. request'[r].stage = "asking" /\ request'[r].executable = ResolveAgy(files, agyPath)
      BY <2>1, <2>2, <2>5 DEF Ask, Idle
    <3> QED
      BY <2>1, <2>5, <3>1, ResolvedIsAgy DEF CacheTypes
  <2> QED
    BY <2>3, <2>4, <2>5
<1> QED
  BY <1>1, CacheInvariant, PTL DEF Spec, AgyAskedUnlessRecent

===============================================================================
