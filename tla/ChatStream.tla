------------------------------- MODULE ChatStream -------------------------------
(***************************************************************************)
(* What a client of the gateway gets of one run of agy: the callbacks that *)
(* handleChat (src/gateway/chat.ts) gives the parser, boundedDelta         *)
(* (src/gateway/sse.ts) and the bridge of agy's tool calls, line by line   *)
(* over ProtocolState.  Frames that carry no text and no tool call, errors *)
(* and clients that leave are in GatewayChat.  The client names one path   *)
(* of the host, and agy's tools work on the path that the prompt gives     *)
(* for it.  Operators named Mut... are faulty variants that no action      *)
(* uses: each is put in the place of the definition it precedes to see a   *)
(* property fail.                                                          *)
(***************************************************************************)
EXTENDS ProtocolState, WorkspacePaths

CONSTANT Chats    \* the requests, with the environment they come to

(* capChars is maxTokens * 4, NoCap when the request names no max_tokens; path is the one
   that the client names; parseWorkspaceMounts gives the mounts. *)
NoCap == 0
ChatKinds == [stream : BOOLEAN, streamSteps : BOOLEAN, capChars : Nat,
              mounts : Seq(Mounts), path : Seq(STRING)]

ASSUME ChatsAssumption == Chats \subseteq ChatKinds

SplitsNoPair(units) ==
  /\ units # <<>> => Last(units) # "H" /\ Head(units) # "L"
  /\ \A i \in 1..Len(units) - 1 : units[i] = "H" <=> units[i + 1] = "L"

(* agy writes UTF-8, in which half a pair has no form. *)
ASSUME WholeTextsAssumption ==
  \A e \in Events : /\ e.event = "step_update" => SplitsNoPair(e.delta)
                    /\ e.event = "result" => SplitsNoPair(e.response)

VARIABLES
  chat,                     \* the request
  accumulated,              \* the text that counts against its cap
  bridgedToolCallEmitted,
  frames,                   \* the chunks with text or a tool call that were written, in order
  reply                     \* the text of the completion object, or NoReply

chatVars == <<chat, accumulated, bridgedToolCallEmitted, frames, reply>>
vars == <<parserVars, chatVars>>

NoReply == <<"none">>
TextFrame(units) == [kind |-> "text", units |-> units]
ToolFrame(step, call) == [kind |-> "tool", step |-> step, call |-> call]

Init ==
  /\ ParserInit
  /\ chat \in Chats
  /\ accumulated = <<>>
  /\ bridgedToolCallEmitted = FALSE
  /\ frames = <<>>
  /\ reply = NoReply

-------------------------------------------------------------------------------
Cut(units) == IF chat.capChars = NoCap THEN units ELSE TruncateUtf16(units, chat.capChars)

MutBoundedDelta(delta) == Cut(delta)

(* boundedDelta: what is left of the cap takes what it can of the delta. *)
BoundedDelta(delta) ==
  LET remaining == chat.capChars - Len(accumulated)
  IN IF chat.capChars = NoCap THEN delta
     ELSE IF Len(accumulated) >= chat.capChars THEN <<>>
     ELSE TruncateUtf16(delta, remaining)

(* onProgress: nothing more is said once a tool call was bridged. *)
Relayed(e) == IF bridgedToolCallEmitted THEN <<>> ELSE BoundedDelta(e.delta)

(* The prompt, and what agy asks of a tool: a file, or a command on it. *)
Prompt == RemapHostPathToContainer(chat.path, chat.mounts)
Argument(tool) == IF tool = "run_command" THEN <<"cat">> \o Prompt ELSE Prompt

(* onToolInfo: every update of a step that names its tool. *)
Calls(e) ==
  IF chat.stream /\ chat.streamSteps /\ Bridged(e.tool)
  THEN <<ToolFrame(e.step, TranslateToolCall(e.tool, Argument(e.tool), chat.mounts))>>
  ELSE <<>>

(* A step that the parser reads: its text first, then its tool. *)
RelayStep(e) ==
  /\ accumulated' = accumulated \o Relayed(e)
  /\ frames' = frames
       \o (IF chat.stream /\ Relayed(e) # <<>> THEN <<TextFrame(Relayed(e))>> ELSE <<>>)
       \o Calls(e)
  /\ bridgedToolCallEmitted' = (bridgedToolCallEmitted \/ Calls(e) # <<>>)

(* processLine, with its observers; no other line moves them to write. *)
ReadAndRelay(e) ==
  /\ ReadLine(e)
  /\ \/ failure = "none" /\ e.event = "step_update" /\ RelayStep(e)
     \/ /\ ~(failure = "none" /\ e.event = "step_update")
        /\ UNCHANGED <<accumulated, frames, bridgedToolCallEmitted>>
  /\ UNCHANGED <<chat, reply>>

(* finish() and the reply to a success; a stream has had all its text. *)
FinishAndReply ==
  /\ Finish
  /\ reply' = IF outcome'.kind = "success" /\ ~chat.stream THEN Cut(outcome'.text) ELSE NoReply
  /\ UNCHANGED <<chat, accumulated, bridgedToolCallEmitted, frames>>

Next ==
  \/ Len(lines) < MaxLines /\ \E e \in Events : ReadAndRelay(e)
  \/ FinishAndReply

Spec == Init /\ [][Next]_vars

-------------------------------------------------------------------------------
(* Every variable has its type; the gathered text and a reply are within their caps. *)
StreamTypeOK ==
  /\ TypeOK
  /\ chat \in Chats
  /\ accumulated \in Texts
  /\ chat.capChars # NoCap => Len(accumulated) <= chat.capChars
  /\ bridgedToolCallEmitted <=> \E i \in DOMAIN frames : frames[i].kind = "tool"
  /\ reply = NoReply \/ reply \in Texts

(* units is what said comes to within the cap.  All of it, when it fits; else its
   beginning, up to the cap or to the pair that the cap falls into; the one place that
   such a pair leaves free may hold a unit that was said later. *)
Within(units, said, cap) ==
  /\ SplitsNoPair(units)
  /\ IF Len(said) <= cap THEN units = said
     ELSE \/ Len(units) = cap /\ IsPrefix(units, said)
          \/ /\ said[cap] = "H"
             /\ Len(units) \in {cap - 1, cap}
             /\ IsPrefix(SubSeq(units, 1, cap - 1), said)

WithinCap(units, said) ==
  IF chat.capChars = NoCap THEN units = said ELSE Within(units, said, chat.capChars)

BridgesAt ==
  {i \in ReadAt : /\ chat.stream /\ chat.streamSteps
                  /\ lines[i].event = "step_update" /\ Bridged(lines[i].tool)}

(* "`max_tokens` (positive integer) maps to a hard response cap of ~4 UTF-16 code units per
   token" (README.md:551): a stream gives, and a completion holds, what agy said within the cap,
   in order, with no pair split and nothing lost that fits; a stream up to the first tool
   call it bridged, a completion the response or else the deltas, within the parser's own
   cap first. *)
RepliesFaithful ==
  LET said == DeltasOf({i \in ReadAt : \A k \in BridgesAt : i <= k})
      streamed == FlattenSeq([i \in DOMAIN frames |->
                    IF frames[i].kind = "text" THEN frames[i].units ELSE <<>>])
  IN /\ IF chat.stream THEN WithinCap(streamed, said) ELSE frames = <<>>
     /\ Within(text, DeltasOf(ReadAt), MaxOutputChars)
     /\ Finished =>
          Within(outcome.text, IF HasResponse THEN terminalResult.response ELSE DeltasOf(ReadAt),
                 MaxOutputChars)
     /\ reply # NoReply => WithinCap(reply, outcome.text)

OccursAt(part, path) == {i \in DOMAIN path : IsPrefix(part, From(path, i))}

(* The client's path is mounted at one place, that of mount i, nothing else is mounted over
   it there, and no host path is found in it, or in what it becomes, but the one it begins
   with.  A mount that is listed twice is another mount: it is replaced once more. *)
MountedAt(i) ==
  LET m == chat.mounts[i]
      there == m.container \o From(chat.path, Len(m.host) + 1)
  IN /\ IsPrefix(m.host, chat.path)
     /\ \A k \in DOMAIN chat.mounts \ {i} :
          LET other == chat.mounts[k]
          IN /\ IsPrefix(other.host, chat.path) => Len(other.host) < Len(m.host)
             /\ IsPrefix(other.container, there) => Len(other.container) < Len(m.container)
             /\ OccursAt(other.host, there) = {}
     /\ \A any \in Range(chat.mounts) : OccursAt(any.host, chat.path) \subseteq {1}

(* "host paths in prompts are rewritten to container paths and bridged tool calls map
   back" (README.md:467): a file that agy asks the host for has the path that the client
   knows it by, however the mounts are ordered and nested. *)
HostGetsNamedPath ==
  \A i \in DOMAIN frames :
    frames[i].kind = "tool" /\ frames[i].call.name = "read"
      /\ (\E m \in DOMAIN chat.mounts : MountedAt(m))
    => frames[i].call.value = chat.path

(* "its tool calls are mirrored on the host, and side-effecting changes are only ever made
   by the host (never in the container, where they would be duplicated and diverge)"
   (src/gateway/prompt.ts:119-122).  A mirror of agy's calls has each of them once: the
   host is asked for the call of a step once, however often agy reports the step. *)
BridgedOnce ==
  \A i, k \in DOMAIN frames :
    frames[i].kind = "tool" /\ frames[k].kind = "tool" /\ frames[i].step = frames[k].step => i = k
===============================================================================
