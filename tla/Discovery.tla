------------------------------- MODULE Discovery -------------------------------
(***************************************************************************)
(* resolveAgy (src/discovery.ts): which file is run as agy.  A file is     *)
(* named by its directory, its command and its extension, "" for none; no  *)
(* command has a dot.  What a candidate looks like decides how it is       *)
(* taken: as a file, or as a command that is searched on PATH.             *)
(***************************************************************************)
EXTENDS Naturals, Sequences

CONSTANTS Path,          \* the directories of PATH, in order, empty entries left out
          Extensions     \* the extensions a search tries, in order: <<"">> on POSIX

ASSUME PathAssumption == Path \in Seq(STRING) /\ Extensions \in Seq(STRING)

(* What statSync finds; of two files of a kind either may be agy. *)
FileKinds == {"absent", "directory", "plain", "executable"}

NoAgy == <<"none">>

(* A candidate: nothing set, an empty name, a file, or a command. *)
Unset == [form |-> "unset"]
Blank == [form |-> "blank"]
File(path) == [form |-> "file", path |-> path]
Command(name) == [form |-> "command", name |-> name]

(* Windows knows no executable bits. *)
Windows == Extensions # <<"">>

ExecState(files, path) ==
  CASE files[path] = "absent" -> "not-found"
    [] files[path] = "directory" -> "not-executable"
    [] files[path] = "plain" -> IF Windows THEN "ok" ELSE "not-executable"
    [] files[path] = "executable" -> "ok"

(* The places searchPath looks in, and the file of a command there. *)
Places == (DOMAIN Path) \X (DOMAIN Extensions)
Tried(name, place) == <<Path[place[1]], name, Extensions[place[2]]>>

(* Every extension in one directory comes before the next directory. *)
Before(p, q) == p[1] < q[1] \/ (p[1] = q[1] /\ p[2] < q[2])

SearchPath(files, name) ==
  LET found == {place \in Places : ExecState(files, Tried(name, place)) = "ok"}
  IN IF found = {} THEN NoAgy
     ELSE Tried(name, CHOOSE place \in found : \A other \in found : ~Before(other, place))

(* resolveCandidate; NoAgy is its ResolveError. *)
ResolveCandidate(files, candidate) ==
  CASE candidate.form = "blank" -> NoAgy
    [] candidate.form = "file" ->
         IF ExecState(files, candidate.path) = "ok" THEN candidate.path ELSE NoAgy
    [] candidate.form = "command" -> SearchPath(files, candidate.name)

(* The injected path or else AGY_PATH, when there is one, is the only candidate: nothing
   falls back to the search. *)
ResolveAgy(files, agyPath) ==
  IF agyPath = Unset THEN SearchPath(files, "agy") ELSE ResolveCandidate(files, agyPath)
===============================================================================
