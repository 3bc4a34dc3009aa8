---------------------------- MODULE WorkspacePaths ----------------------------
(***************************************************************************)
(* Between the paths of the host, where the client and its tools are, and  *)
(* those of the container agy runs in: the mounts of the environment       *)
(* (src/gateway/workspace.ts), the rewriting of the prompt                 *)
(* (src/gateway/prompt.ts) and that of agy's tool calls                    *)
(* (src/gateway/tool-bridge.ts).  A text is the sequence of its path       *)
(* segments, and words where it is a command.  Segments are of one length, *)
(* and a mount's paths are absolute and have no slash at their end, so     *)
(* that the longer path is the one of more segments and a match begins at  *)
(* a segment.  Operators named Mut... are faulty variants that nothing     *)
(* uses: each is put in the place of the definition it precedes to see a   *)
(* property fail.                                                          *)
(***************************************************************************)
EXTENDS Naturals, Sequences, FiniteSets, SequencesExt

Workspace == <<"workspace">>

Mount(host, container) == [host |-> host, container |-> container]

(* A mount that parseWorkspaceMounts returns: neither side is the empty string. *)
Mounts == [host : Seq(STRING) \ {<<>>}, container : Seq(STRING) \ {<<>>}]

(* parseWorkspaceMounts: the single workspace first; an entry with a blank side, or
   with no "=", is left out.  single is <<>> when it is not set. *)
ParseWorkspaceMounts(single, entries) ==
  (IF single = <<>> THEN <<>> ELSE <<Mount(single, Workspace)>>)
    \o SelectSeq(entries, LAMBDA m : m.host # <<>> /\ m.container # <<>>)

(* The stable sort of both rewritings, the longest path first: each mount is at the place
   that those before it leave. *)
LongestFirst(mounts, side) ==
  LET Precedes(i, k) ==
        \/ Len(mounts[i][side]) > Len(mounts[k][side])
        \/ Len(mounts[i][side]) = Len(mounts[k][side]) /\ i < k
      Place(k) == Cardinality({i \in DOMAIN mounts : Precedes(i, k)}) + 1
  IN [p \in DOMAIN mounts |-> mounts[CHOOSE k \in DOMAIN mounts : Place(k) = p]]

From(text, i) == SubSeq(text, i, Len(text))

(* A value that is, or begins with, the path of the first of these mounts that has it in
   its container is the host's. *)
Remapped(value, mounts) ==
  LET around == {p \in DOMAIN mounts : IsPrefix(mounts[p].container, value)}
      mount == mounts[CHOOSE p \in around : \A q \in around : p <= q]
  IN IF around = {} THEN value ELSE mount.host \o From(value, Len(mount.container) + 1)

MutRemapPath(value, mounts) == Remapped(value, mounts)

RemapPath(value, mounts) == Remapped(value, LongestFirst(mounts, "container"))

(* Every occurrence of the mount's host path, within another path too. *)
Replaced(text, m) ==
  LET rest[i \in 1..Len(text) + 1] ==
        IF i > Len(text) THEN <<>>
        ELSE IF IsPrefix(m.host, From(text, i)) THEN m.container \o rest[i + Len(m.host)]
        ELSE <<text[i]>> \o rest[i + 1]
  IN rest[1]

(* remapHostPathToContainer: one mount after the other, each on what the last one left. *)
RemapHostPathToContainer(text, mounts) ==
  LET sorted == LongestFirst(mounts, "host")
      result[n \in 0..Len(mounts)] ==
        IF n = 0 THEN text ELSE Replaced(result[n - 1], sorted[n])
  IN result[Len(mounts)]

(* translateToolCall: "other" is a tool with no rule, or one whose arguments are missing
   or no longer JSON because they were cut. *)
HostName == [view_file |-> "read", run_command |-> "bash"]
Tools == DOMAIN HostName \cup {"other"}
Bridged(tool) == tool \in DOMAIN HostName
TranslateToolCall(tool, value, mounts) ==
  [name |-> HostName[tool], value |-> RemapPath(value, mounts)]
===============================================================================
