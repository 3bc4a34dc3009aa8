------------------------------ MODULE ModelsCache ------------------------------
(***************************************************************************)
(* GET /v1/models: listModels (src/gateway/models.ts) and the file it      *)
(* caches agy's list in.  A request reads the file, and when that is not   *)
(* fresh runs `agy models` outside the queue; requests overlap, agy may be *)
(* replaced or fail, a write may fail or be cut by a crash of the gateway, *)
(* and the wall clock may be set.  A list stands for who reported it and   *)
(* when. Operators named Mut... are faulty variants that no action uses:   *)
(* each is put in the place of the definition it precedes to see a         *)
(* property fail.                                                          *)
(***************************************************************************)
EXTENDS Discovery, Integers

CONSTANTS Clients,        \* the requests for the list
          Files,           \* the files that may be agy
          Setups,          \* what may be installed: functions from Files to FileKinds
          AgyPaths,        \* what AGY_PATH may be
          Ttl,             \* ttlSeconds * 1000, in ticks
          MaxTime,         \* bound of the model: ticks
          MaxSets          \* bound of the model: how often the wall clock is set

ASSUME TimesAssumption == Ttl \in Nat \ {0} /\ MaxTime \in Nat /\ MaxSets \in Nat
ASSUME SetupsAssumption == Setups \subseteq [Files -> FileKinds]

(* Files has every file that AGY_PATH may name or a search for a command may try; those
   that do not exist are "absent" in a setup. *)
ASSUME FilesAssumption ==
  LET names == {"agy"} \cup {path[2] : path \in Files}
  IN /\ Files \subseteq STRING \X STRING \X STRING
     /\ \A name \in names, place \in Places : Tried(name, place) \in Files
     /\ AgyPaths \subseteq {Unset, Blank} \cup {File(path) : path \in Files}
                                         \cup {Command(name) : name \in names}

VARIABLES
  files,         \* what is installed
  agyPath,       \* AGY_PATH
  cache,         \* models.json, or Unreadable when it is missing or cut short
  request,       \* each client's latest request
  time,          \* the steady time
  offset,        \* Date.now() less the steady time
  sets,          \* how often the wall clock was set
  setBack        \* history: by how much it was set back in all

vars == <<files, agyPath, cache, request, time, offset, sets, setBack>>
clockVars == <<time, offset, sets, setBack>>

(* What agy wrote: its list, with a clean exit, or else a part of it before a bad exit or
   no model at all. *)
Lists == [from : Files, at : 0..MaxTime]
Builtin == [from |-> <<"builtin">>, at |-> 0]
Partial == [from |-> <<"partial">>, at |-> 0]
NoList == [from |-> NoAgy, at |-> 0]
Reports == Lists \cup {Partial, NoList}

Unreadable == [list |-> NoList]

(* "asking" while agy runs, "listed" once it has written.  cached and now are what the
   handler read before its await. *)
Idle == [stage |-> "idle", cached |-> Unreadable, now |-> 0, executable |-> NoAgy,
         list |-> NoList]

Init ==
  /\ files \in Setups
  /\ agyPath \in AgyPaths
  /\ cache = Unreadable
  /\ request = [r \in Clients |-> Idle]
  /\ time = 0 /\ offset = 0 /\ sets = 0 /\ setBack = 0

-------------------------------------------------------------------------------
DateNow == time + offset

Fresh(cached, now) == cached # Unreadable /\ now - cached.fetchedAt < Ttl

(* cached?.models ?? builtin *)
MutFallback(cached) == cached.list

Fallback(cached) == IF cached = Unreadable THEN Builtin ELSE cached.list

Answer(list) == [Idle EXCEPT !.stage = "answered", !.list = list]

Answered(r, list) == request' = [request EXCEPT ![r] = Answer(list)]

InFlight == {r \in Clients : request[r].stage \in {"asking", "listed"}}

(* listModels up to its await: the file and the clock are read once. *)
Ask(r) ==
  LET executable == ResolveAgy(files, agyPath)
  IN /\ r \notin InFlight
     /\ request' = [request EXCEPT ![r] =
          IF Fresh(cache, DateNow) THEN Answer(cache.list)
          ELSE IF executable = NoAgy THEN Answer(Fallback(cache))
          ELSE [Idle EXCEPT !.stage = "asking", !.cached = cache, !.now = DateNow,
                            !.executable = executable]]
     /\ UNCHANGED <<files, agyPath, cache, clockVars>>

(* agy writes what it has to say now. *)
AgyLists(r) ==
  /\ request[r].stage = "asking"
  /\ \E list \in {[from |-> request[r].executable, at |-> time], Partial, NoList} :
       request' = [request EXCEPT ![r].stage = "listed", ![r].list = list]
  /\ UNCHANGED <<files, agyPath, cache, clockVars>>

(* runAgy resolves, with a clean exit and at least one model. *)
MutListed(r) == request[r].stage = "listed" /\ request[r].list # NoList

Listed(r) == request[r].stage = "listed" /\ request[r].list \in Lists

MutWriteNow(r) ==
  /\ Listed(r)
  /\ cache' = [list |-> request[r].list, fetchedAt |-> DateNow]
  /\ Answered(r, request[r].list)
  /\ UNCHANGED <<files, agyPath, clockVars>>

(* The list is cached as of the time the request came. *)
Write(r) ==
  /\ Listed(r)
  /\ cache' = [list |-> request[r].list, fetchedAt |-> request[r].now]
  /\ Answered(r, request[r].list)
  /\ UNCHANGED <<files, agyPath, clockVars>>

(* The file cannot be written: untouched when it cannot be opened, cut short when the
   disk is full.  The list is thrown away with it. *)
WriteFails(r) ==
  /\ Listed(r)
  /\ cache' \in {cache, Unreadable}
  /\ Answered(r, Fallback(request[r].cached))
  /\ UNCHANGED <<files, agyPath, clockVars>>

(* runAgy rejects, whatever agy has written; or the exit is bad, or there is no model in
   the output. *)
AskFails(r) ==
  /\ request[r].stage \in {"asking", "listed"}
  /\ Answered(r, Fallback(request[r].cached))
  /\ UNCHANGED <<files, agyPath, cache, clockVars>>

(* The gateway dies, possibly while it writes, and is started again. *)
Crash ==
  /\ InFlight # {}
  /\ cache' \in {cache} \cup {Unreadable : r \in {k \in InFlight : Listed(k)}}
  /\ request' = [r \in Clients |->
       IF r \in InFlight THEN Idle ELSE request[r]]
  /\ UNCHANGED <<files, agyPath, clockVars>>

-------------------------------------------------------------------------------
(* What is installed changes. *)
Reinstall ==
  /\ files' \in Setups \ {files}
  /\ UNCHANGED <<agyPath, cache, request, clockVars>>

Tick ==
  /\ time < MaxTime
  /\ time' = time + 1
  /\ UNCHANGED <<files, agyPath, cache, request, offset, sets, setBack>>

(* The wall clock is set, one tick either way. *)
SetClock ==
  /\ sets < MaxSets
  /\ sets' = sets + 1
  /\ \/ offset' = offset + 1 /\ UNCHANGED setBack
     \/ offset' = offset - 1 /\ setBack' = setBack + 1
  /\ UNCHANGED <<files, agyPath, cache, request, time>>

Next ==
  \/ \E r \in Clients :
       Ask(r) \/ AgyLists(r) \/ Write(r) \/ WriteFails(r) \/ AskFails(r)
  \/ Crash \/ Reinstall \/ Tick \/ SetClock

Spec == Init /\ [][Next]_vars

-------------------------------------------------------------------------------
(* Every variable has its type, and an answer is a list. *)
TypeOK ==
  /\ files \in Setups /\ agyPath \in AgyPaths
  /\ cache = Unreadable \/ cache \in [list : Reports, fetchedAt : Int]
  /\ \A r \in Clients :
       /\ request[r].stage \in {"idle", "asking", "listed", "answered"}
       /\ request[r].executable \in Files \cup {NoAgy}
       /\ request[r].list \in
            IF request[r].stage = "answered" THEN (Reports \ {NoList}) \cup {Builtin} ELSE Reports
  /\ time \in 0..MaxTime /\ offset \in Int /\ setBack \in 0..sets

(* "Fallback chain: fresh cache, stale cache, builtin defaults" (README.md:598): what is
   cached or answered is a whole list that an agy reported, and the builtin one only to a
   request that found no file it could read, whatever overlapped with it, failed or was
   cut short. *)
ListsAreGenuine ==
  [][/\ cache' # cache => cache' = Unreadable \/ cache'.list \in Lists
     /\ \A r \in Clients : request'[r].stage = "answered" /\ request'[r] # request[r] =>
          LET read == IF r \in InFlight THEN request[r].cached ELSE cache
          IN \/ request'[r].list \in Lists
             \/ request'[r].list = Builtin /\ read = Unreadable]_vars

(* "explicit injected path, then AGY_PATH, then the PATH search" (src/discovery.ts:6): the
   file that is agy, said from the files: one that can be run, and either the one named or
   the first on PATH of those that have the name and can. *)
CanRun(path) == files[path] = "executable" \/ (files[path] = "plain" /\ Windows)
FirstAt(list, x) ==
  CHOOSE i \in DOMAIN list : list[i] = x /\ \A k \in DOMAIN list : list[k] = x => i <= k
Rank(path) == <<FirstAt(Path, path[1]), FirstAt(Extensions, path[3])>>
Homonyms(name) ==
  {path \in Files : /\ path[2] = name
                    /\ \E d \in DOMAIN Path : Path[d] = path[1]
                    /\ \E e \in DOMAIN Extensions : Extensions[e] = path[3]}
IsAgy(path) ==
  /\ CanRun(path)
  /\ \/ agyPath = File(path)
     \/ /\ agyPath = Command(path[2]) \/ (agyPath = Unset /\ path[2] = "agy")
        /\ path \in Homonyms(path[2])
        /\ \A other \in Homonyms(path[2]) : CanRun(other) => ~Before(Rank(other), Rank(path))

(* agy, and the right one, is asked for its list unless there is none: a list is served
   from the file only when it was reported within the ttl, but for what the wall clock
   was set back, however refreshes overlapped and whichever of them was written last. *)
AgyAskedUnlessRecent ==
  [][\A r \in Clients \ InFlight : request'[r] # request[r] =>
       LET answer == request'[r].list
       IN \/ request'[r].stage = "asking" /\ IsAgy(request'[r].executable)
          \/ answer # Builtin /\ time - answer.at < Ttl + setBack
          \/ \A path \in Files : ~IsAgy(path)]_vars
===============================================================================
