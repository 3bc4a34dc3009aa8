# Formal model of antigravity-task-plugin

TLA+ modules for the plugin and its OpenAI-compatible gateway: what they model,
what TLC checks on small instances, and what TLAPS proves for every value of the
constants. Paths are relative to the repository (`src/process.ts`,
`src/gateway/queue.ts`, ...). `PROJECT.json` holds the runs, the mutants, the
lines every definition stands for, the findings and the theorems.

## 1. The system

The program runs one external tool, the `agy` CLI, on behalf of two kinds of
clients: OpenCode, through the plugin's `antigravity-task` tool, and any
OpenAI-style client, through the HTTP gateway.

| Part | State | Operations | Talks to |
|---|---|---|---|
| process runner, `src/process.ts` | phase, cause of termination, three timers, listeners, byte counts, the promise | `runAgy`; onStdout, onStderr, onAbort, onTimeout, grace timer, close watch, onClose, onError | the child and the kernel below; a chunk observer and a promise above |
| line framing, `src/protocol-parser.ts`, `src/byte-accumulator.ts` | pending bytes, a held surrogate half, skipping flag | `push`, `finish` | fed by the chunk observer; feeds the protocol state |
| protocol state, `src/protocol-state.ts` | text, diagnostics, usage by step, failure, result | one handler per kind of line, `buildOutcome` | read by the runner and the gateway |
| task tool, `src/index.ts`, `src/runner.ts`, `src/metadata.ts` | the dispatcher's pending slot, its timer and last emission | `execute`, `dispatch`, timer, `flush` | process runner, parser, the host's `metadata()` |
| serial queue, `src/gateway/queue.ts` | line of waiters, busy flag | `push`, abort, `pump`, settlement of a run | one per gateway, shared by all requests |
| chat handler, `src/gateway/chat.ts` | one response, one abort controller, retry counters | read, look up, push, run, relay, retry, reply | queue, session store, process runner, parser, client |
| session store, `src/gateway/session-store.ts` | LRU map from fingerprint to conversation | `lookup`, `record` | chat handler, before and after its wait in the queue |
| model list, `src/gateway/models.ts` | a cache file | `listModels` | discovery, process runner (outside the queue), file system |
| executable discovery, `src/discovery.ts` | none | `resolveAgy` | the file system; used by the model list, the chat handler and the task tool |
| tool bridge and workspace, `src/gateway/tool-bridge.ts`, `workspace.ts`, `prompt.ts` | none | `parseWorkspaceMounts`, `remapHostPathToContainer`, `translateToolCall` | the prompt on its way down, agy's tool calls on their way up |
| server, configuration, CLI | routes, key, environment | one handler per route, shutdown | all of the gateway |
| request parsing, arguments, text policies | none | pure functions | chat handler, runner |

Everything runs on one Node event loop, so a callback is atomic. What makes the
program hard is what happens between callbacks: a child that closes, fails, times
out, is aborted and overflows at nearly the same time; descendants that keep its
pipes open; a kill the kernel refuses; clients that leave while their job waits,
runs or is between two attempts; other requests that use the session store
between a lookup and its record; chunks that end anywhere; timers that race a
settlement; a wall clock that is set; a cache file that overlapping requests
overwrite and a crash cuts short; a gateway that exits with work in hand; a cap
that falls between the two halves of a character; paths that are rewritten on
the way down and again on the way up. `PROJECT.json` lists these under "hazards",
each at its line, with the properties that would catch it.

What makes each part correct:

- process runner: settles exactly once, for the first cause, within a bound,
  leaves nothing armed, and never resolves with a truncated stream;
- queue: one job at a time, first in first out, no lost wake-up, no aborted
  waiter started, nobody refused while there is room;
- chat handler: one well-formed reply per request, no retry after output, `agy`
  runs only in its slot, a conversation is recorded only for a reply that was given;
- session store: a resumed conversation holds what the client believes it holds;
- framing: every line once, whole or skipped with its size, however it is chunked;
- protocol state: the verdict, text and usage the stream deserves, within the caps;
- chat stream: the client gets agy's text within its cap, nothing lost that fits,
  and tool calls on the paths it knows;
- model list: a list that an agy reported, recent unless agy cannot be asked, and
  the right agy asked;
- task tool: updates in order, throttled, the verdict last, nothing after it.

## 2. Modules

| Module | Models | Correspondence |
|---|---|---|
| `OneShotRun` | the contract of `runAgy`, abstractly | refuse, start, stop for a first cause, settle once |
| `AgyProcess` | `runAgy` with its child, the child's descendants and the kernel | an action per callback; `BeginTermination` and `Settle` are `beginTermination` and the two settle functions; `ChildExits` and `HolderLeaves` are external |
| `SerialQueue` | `SerialQueue` | `Push`, `Abort` and `RunSettles`, each with the `pump` it ends in |
| `GatewayChat` | `handleChat` over `SerialQueue` (EXTENDS it) | the queue's actions conjoined with what the handler does in the same callback; a run of agy is `OneShotRun`'s stages; `Restart` is the end of the gateway's process and its next start |
| `SessionStore` | `lookup` and `record` as operators on the Map's insertion order | |
| `ConversationReuse` | the store as the chat handler uses it, and what agy's conversations come to hold | `Ask` looks up, `Answer` records, `AnswerUnnamed` is a success whose result has an empty conversation id, which `record` ignores; `Retry` and `Fail` come in between |
| `LineFraming` | `push`, `finish`, `processPending`, the surrogate seam | the loop of `processPending` is one `Turn` after another |
| `ProtocolState` | `processLine` and `ProtocolState` | `ReadLine` per line, `Finish` is `buildOutcome`; it has a `ParserInit` and no `Next` of its own |
| `WorkspacePaths` | the mounts and the two rewritings, `translateToolCall` | operators on sequences of path segments |
| `ChatStream` | what one run relays to its client (EXTENDS `ProtocolState`, `WorkspacePaths`) | `ReadAndRelay` is a line with the observers `onProgress` and `onToolInfo`; `FinishAndReply` the outcome and the reply |
| `Discovery` | `resolveAgy` | operators on a table of files; the search is the first place, by directory and then by extension, that holds a file that can be run |
| `ModelsCache` | `listModels` and its file (EXTENDS `Discovery`) | `Ask` is the code before the await, `Write`, `WriteFails` and `AskFails` what can follow it; agy, its installation and the clocks are external |
| `TaskProgress` | `execute`, the dispatcher, the runner's endings | `Dispatch`, `TimerFires`, `Settle` with the `flush` of its `finally` |
| `AgyProcessProofs`, `GatewayChatProofs` (with the queue), `ConversationReuseProofs`, `LineFramingProofs`, `ChatStreamProofs` (with the parser and the paths), `ModelsCacheProofs`, `TaskProgressProofs` | theorems | section 5 |
| `SequenceLemmas` | nothing: lemmas on numbers and sequences that several proofs need | section 5 |

`MC*` modules hold the values a configuration file cannot write. Operators named
`Mut...` are faulty variants, one for every property: put in the place of the
definition they vary, they make TLC report that property violated.

How the modules compose. `GatewayChat` EXTENDS `SerialQueue`: each step of a
request is an action of the queue with what the handler does in the same callback,
and only `Restart` changes the queue by itself. `AgyProcess` implements
`OneShotRun` under the mapping `Contract`, and `GatewayChat` relies on that
contract and not on the details of `AgyProcess`. `ChatStream` runs `ProtocolState`
with the observers that the chat handler gives the parser, so the properties of
the parser and of the relay are checked of the same behaviours. `ConversationReuse`
uses `SessionStore`, and `ModelsCache` uses `Discovery`.

## 3. Abstractions

- `AgyProcess`: a chunk is its size. stdin is left out: its errors are swallowed
  and it changes no state. A refused kill is a choice of the kernel while the
  child is alive. An 'error' event without a listener ends the host (`uncaught`).
  The child may do what it likes, including never exiting.
- `GatewayChat`: frames carry no text; the text and its cap are in `ChatStream`. A
  request that is rejected before the queue is one action whatever the reason.
  `lingering` remembers the runs whose processes outlive them. `Restart` may come at
  any moment while a job is in the slot: a crash does, and after a signal the server
  is closed but the process exits after 5 s whatever still runs
  (`src/gateway/cli.ts`). The queue is gone, the clients lose their connection, and
  the agy that ran lingers.
- `ChatStream`: one run of agy, without retries, errors or clients that leave, which
  are in `GatewayChat`. The client names one path, and agy's tools use what the
  prompt makes of it. The cap, `max_tokens * 4` in the source, is a small number.
- `WorkspacePaths`: a text is a sequence of segments of one length, and the paths of
  the mounts are absolute without a slash at their end; so a match begins at a
  segment, and "longest first" compares numbers of segments.
- `Discovery`: a file is its directory, command and extension, and no command has a
  dot. Which of the errors is thrown is left out.
- `ModelsCache`: a list is who reported it and when. The file is whole or cannot be
  read: a torn write leaves the latter. The builtin list stands for itself.
- `SessionStore`: hashes of different messages are taken to be independent, so the
  XOR of a history is the set of messages that occur in it an odd number of times.
- `ConversationReuse`: an agy conversation is the sequence of client messages it
  was sent. A failed or retried run may or may not have taken its prompt. A successful
  one has, and reports its conversation or an empty id; what agy is assumed to do when
  told to resume is in section 5.
- `LineFraming`: five kinds of UTF-16 unit; UTF-8 is modelled by its lengths. Byte
  chunks are of one-byte characters.
- `ProtocolState`: a usage is its total; a step names its tool or none; the
  conversation id stands for all the fields of which the first value is kept; the six
  unsuccessful statuses are one.
- `TaskProgress`: `setTimeout` follows the steady time, `Date.now()` the wall clock,
  which may be set while the task runs.

## 4. Runs

| Run | Question | Bounds | States |
|---|---|---|---|
| `agy_process` | does a call settle once, in time, clean and complete, and implement `OneShotRun`? | limits of 2 and 1 bytes, chunks of 1 and 2, 4 bytes per stream: both limits can be met exactly, jumped over, and exceeded again during termination | 12,713 |
| `serial_queue` | one at a time, in order, nobody lost, nobody refused while there is room? | 5 jobs on a line of 2: one runs, two wait, two are refused or come later | 215,223 |
| `gateway_chat` | a well-formed reply to everyone, agy only in the slot? | 3 requests on a line of 1: a bridging stream and two JSON replies; one retry of either kind, 3 frames, one restart | 360,368 |
| `conversation_reuse` | do linear chats keep their history? | 2 clients, 2 entries (so that eviction happens), 4 requests or retries; one client continues, turns back or reorders its chat, the other sends a message twice | 3,506,992 |
| `line_framing` | every line once, whatever the chunks? | streams of 7 units in chunks of 3 over a cap of 4 bytes: a pair, a CRLF and a skipped line can each be split | 206,856 |
| `chat_stream` | the right outcome for every stream, and its text and tool calls to the client? | 4 lines out of 13 for each of 9 requests: with and without a stream, steps and a cap, and mounts nested, blank, repeated or chained; a text of 3 units, 1 diagnostic | 556,938 |
| `models_cache` | a genuine, recent list from the right agy? | 2 clients, a ttl of 2 over 3 ticks, a clock set once; 3 installations, 4 values of AGY_PATH | 2,114,064 |
| `task_progress` | ordered, throttled, verdict last, nothing after? | 4 updates over 8 ticks, an interval of 3, a clock set by 2 either way | 359,429 |

Why the bounds are enough: every guard of the modules that compares with a bound
of the source is met from both sides within them, and the actors that can disturb
one another are all there at once (a running job, a full line and a newcomer; two
clients around an eviction; two refreshes and a clock; a timer, an update and a
settlement). The source allows two retries of a startup failure and one of an empty
response; the run of `gateway_chat` allows one of each, which reaches every order of
the two kinds and the refusal of a further one. Every action and
every disjunct of the next-state relations fires.

### Runs that find a disagreement

| Run | What the repository says | What the code does |
|---|---|---|
| `agy_capture` | `src/process.ts:21-23`: stdout is captured up to `maxStdoutBytes`, stderr is one bounded string | the limits are looked at only while running (`:161`, `:177`): once a run is being stopped for a timeout or an abort, whatever its child still writes is kept without bound until it closes. After an overflow of either stream nothing more is kept |
| `gateway_overlap` | `src/gateway/queue.ts:2`: at most one agy task runs at a time | the slot is freed by the promise of a run (`:96`), which may settle while processes of its agy live on (`src/process.ts:11-15`) |
| `conversation_prefix` | `src/gateway/session-store.ts:73`: a conversation whose message sequence is a strict prefix | XOR (`:45`) keeps neither order nor pairs, and an entry stays when its conversation goes on |
| `bridged_tools` | `src/gateway/prompt.ts:119-122`: agy's tool calls are mirrored on the host, which alone makes changes (in the container they would be duplicated and diverge). That a step is mirrored once is implied rather than said | every update that names its tool is bridged with an id of its own (`src/gateway/chat.ts:237-260`), so a step that is reported twice is asked for twice |

Others were seen while modelling and have no run of their own. Where a property would
be false without it, the property names the exception.

- Chunk ends show in two cases, though `tests/protocol-bounds.test.ts:145` expects
  none: a line of exactly the cap ended by CRLF is skipped when the chunk ends between
  CR and LF (`src/protocol-parser.ts:167` and `:174`), and a lone high surrogate at the
  end of the stream may exceed the cap. `LinesFaithful` names both.
- `tests/protocol-bounds.test.ts:36` says that accumulation stops at the cap with a
  diagnostic: after deltas that fill the cap exactly there is none
  (`src/protocol-state.ts:227-230`). `buildOutcome` reads the count of dropped
  diagnostics before `capResponse` may drop one more (`:150`).
  `DiagnosticsAccounted` names both.
- A cap inside a surrogate pair leaves one place free, and a later, shorter delta
  may take it (`src/gateway/sse.ts:65`): `Within` names it.
- A kill refused inside `beginTermination` settles the run before the grace timer is
  armed, so "every settle path clears timers" (`src/process.ts:8-9`) has an
  exception, which `QuietAfterSettle` names (`~denied`).
- The rewriting of the prompt (`src/gateway/prompt.ts:164-165`) is not undone by
  `remapPath` when one mount's container path is another's host path, when one mount
  covers another's place, when a host path occurs inside another path, or when a mount
  is listed twice and its container path contains its host path: `MountedAt` excludes
  these. A path inside a command is never mapped back, because `remapPath`
  only looks at the beginning of a value; `HostGetsNamedPath` is about files.
- `agy models` runs beside the queue, which `src/gateway/queue.ts:2` does not foresee,
  and an exit of the gateway leaves its agy behind: `OneTaskAtATime` would fail after a
  restart too, but the run that refutes it does not need one.
- A stream relays deltas only: a response that comes only with the result reaches a
  JSON client and not a streaming one (`RepliesFaithful` says so of each).

### Fairness

- `AgyProcess`: weak fairness of the three timers (a due `setTimeout` callback
  runs); none of the child, its descendants or the kernel. That is exactly what
  "bounded settlement" may rest on.
- `SerialQueue`: weak fairness of the settlement of a run, which `LiveRunSettles`
  of `AgyProcess` justifies for each attempt; attempts are bounded by the retry limits.
- `GatewayChat`: weak fairness of what follows an attempt, for the same reason.
- `TaskProgress`: time passes and a due timer runs; nothing of agy.

The other modules, `ChatStream` and `ModelsCache` among them, have safety properties
only. Deadlock checking is off where the system may stop: a settled call, answered
requests, a finished stream. The model list never stops, and `models_cache` checks that.

## 5. Proofs

TLAPS checks eight proof modules from nothing, for every value of the constants under
the assumptions that their modules name. Each invariant below was checked by TLC on
a small instance of its module before it was proved. `PROJECT.json` lists the theorems with
the property each one states.

### What is assumed

- Numbers: limits, intervals, capacities and restarts are natural numbers; the length of
  the line, the caps of the parser and the ttl are positive, as the code's defaults and
  its checks of the options make them. A cap of one character leaves no place for a
  surrogate pair, which `VerdictByStream` names. The bounds of the model
  (`MaxRequests`, `MaxTime`, `MaxLines`, ...) are assumed to be numbers where a proof
  needs it, and have no largest value: the theorems hold of runs of every length.
- `EventsAssumption`, `ChatsAssumption`: the events and requests are of the kinds that
  the modules list, and `Events` is finite: any finite set will do, and no stream has
  more than finitely many.
- `WholeTextsAssumption` (`ChatStream`): a text of agy does not begin or end inside a
  surrogate pair. agy writes UTF-8, in which half a pair has no form.
- Of agy's conversations (`Target`, `Taken` in `ConversationReuse`): agy
  that is told to resume a conversation goes on in that one, agy that is told of none
  begins a new one, and a result that names a conversation names the one that was used.
  A result may also name none. The handler takes the id as it comes
  (`src/gateway/chat.ts:309`), so nothing in the code would notice another one. This
  and the texts above are all that is assumed of agy.
- `PathAssumption`, `FilesAssumption` (`Discovery`, `ModelsCache`): `Files` holds every
  place that a search may try; that nothing is there is one of the kinds of a file.
- `HistoriesAssumption` (`ConversationReuse`): a client sends histories of messages,
  none empty, as `handleChat` requires.

### The argument, module by module

`AgyProcessProofs`. The properties are not inductive alone: that a settled run is
quiet depends on what may be armed in each phase. `RunInv` adds that nothing is
armed before the call, that listeners are attached exactly while the call is live,
that a termination has a cause and an unstopped run has no escalation under way and
is within its limits, that capture equals what was received until an overflow, that
a refused kill settles, and that the close watch of a live run means SIGKILL was
tried. A lemma per callback shows that it keeps `RunInv`; `BeginTermination` and
`Settle`, which several callbacks share, have lemmas of their own. From it follow
the safety properties of the run, and `KeepsItsContract`: `AgyProcess` implements
`OneShotRun`.

`GatewayChatProofs`, the queue. A callback prepares a line, a slot and the statuses, then calls
`pump`. `Consistent` says when such a triple is in order: the line holds exactly the
waiting jobs, once, by rank, and the flag agrees with the statuses. `PumpKeeps` shows
that `Pump` makes of a consistent triple a state that also has no idle slot, so each
lemma about a callback only has to show that what it hands to `pump` is consistent.
`QueueInvariant` gives the safety properties for any set of jobs and any length of
the line, and `FreePlacesAreGiven`: a job is refused only when the line is full.

`GatewayChatProofs`, the handler. It is proved over the queue's lemmas: what each action
does to the statuses is stated once (a job is started, leaves, settles), and a
request's part of the state is only read through its status. `RequestInv` ties the
stage of each request to its status in the queue, the shape of its reply to what was
sent, the retry counters to their limits and the recorded conversation to a reply. So
agy runs only for the holder of the slot, before a retry nothing was sent, every
reply is well formed and what is recorded was replied, with any number of requests,
retries, frames and restarts.

`ConversationReuseProofs`. That a linear chat stays faithful is a claim about one chat
among others that look up, record, retry, fail and evict in between. The invariant has
three parts. `AskedInv` and `OrderInv` are about the store alone: ids exist, a fingerprint
has one entry, the order is that of the last use. `ChatInv` is about one linear chat:
the entries with one of its messages stand for prefixes of its history, longer ones
later in the store, and its last entry names a conversation that holds just that
prefix. `Alone` says that nobody else's entry or request names a conversation that the
chat uses, and `PromptInv` what its request under way will complete. A lookup and a
record both move one entry to the end (`Moves`, with the places the others came from);
`OthersMove` and `OwnMove` say what such a move does to a chat, and `OtherChat` that
a step of another client leaves it alone. The fingerprint of messages that occur once
is the set of them, so a lookup finds the chat's own entries and no others
(`ReadyMatches`): this is where the restriction to messages of one's own that occur
once is used, and `conversation_prefix` shows that it is needed.

`LineFramingProofs`. The property counts the newlines of the whole stream and the loop of
`processPending` looks at one line at a time, so the invariant says how the bytes that were
sent divide: `Cut(u, t)` holds of a state `u` of the loop and the text `t` that it has been
given when there are places `e[1] < e[2] < ...`, exactly those of the newlines before the
rest, such that report `k` is the verdict on what stands between `e[k - 1]` and `e[k]`, and
the rest is what is pending, or has been counted as skipped. `TurnKeeps` has one case for
each way a turn can go; `LoopSettles` adds that every turn which is not the last shortens
what is pending, so that as many turns as there are bytes, and one, are enough. `CutGrows`
takes `Cut` from the text so far to the text with the next chunk. Before `finish` the
invariant is `Cut` of the bytes sent, with a half of a pair held back exactly when the
stream ends in one (`Held`); at the end the tail is a line like the others and
`LinesFaithful` itself is the invariant. The encoding is a function of each unit that
needs its neighbours, so a text is only cut where no pair is (`Apart`), and there
`EncodeConcat` says that the codes of the parts join. It rests on one assumption: the cap
is positive.

`ChatStreamProofs`, the parser and the relay. The state of the parser is shown to be a
function of the lines it has read: the text is the first that fit the cap, the usage
the last of each step, the diagnostics the first ones with the rest counted, the result
that of the terminal line. `ChatStream` implements the parser (`StreamImplementsParser`), so these hold of
what is relayed as well; `StreamInv` adds that what a client was sent is the text unit
by unit, within its cap, and that what was not sent did not fit. The sums over steps and
the concatenations of texts are folds; what they compute is proved by induction on
sets of numbers, with well-foundedness of the naturals.

`ChatStreamProofs`, the paths. `HostGetsNamedPath` needs no more of the state than
that every call in the frames was made by `translateToolCall` from the prompt of the chat,
which `StreamInv` says. What is left is about the two rewritings, for any mounts.
`LongestFirstIs` describes the sorted mounts without their order: the mount `i` stands at
some place, the others each at another one, none shorter before it. `ReplacedIs` says
what the replacement of one mount does when its host path occurs at the beginning or not
at all. So in `PromptIs` the mounts before that of the client's path change nothing, because
a longer host path would cover it, that one gives `There(i)`, and the mounts after it find
none of their paths in it; in `RemapsBack` the first mount around `There(i)` is again the
mount `i`, and its beginning is taken off and put back (`RestOfJoined`, `JoinsRest`).
Each condition of `MountedAt` is used, at the step that fails without it.

`SequenceLemmas`. Induction over the naturals is stated on a set in place of a predicate
(`Induction`, from the well-foundedness of `<`), and recursive functions are met by giving
the function that satisfies the recursion and showing that there is only one; `Flattens`
and `RanksAreTaken` are of that kind.

`ModelsCacheProofs`. `CacheInv` gives each stage of a request what it holds, and
compares the clocks: the date in the file is at most the true age of its list plus what
the wall clock stood ahead and was ever set back by (`DatesInv`), which never
decreases. So a list that is served as recent is recent, but for what the clock was
set back. `SearchIsRight` shows that the search returns the first file that can be run
and no other, for every search path and list of extensions, and `ResolvedIsAgy` that
what is asked is the agy that AGY_PATH or the search names.

`TaskProgressProofs`. For each stage of a task the invariant says what may be pending,
armed and shown. What is held back is pending exactly while a timer is armed that will
show it (`PendingIsArmed`); without that neither the order of updates nor the silence
after the settlement is inductive. The throttling is proved for every interval and for
a wall clock that may be set by any amount: the distance is that of the readings.

### What is only model-checked

- The liveness properties (`LiveRunSettles`, `WaitersServed`, `RequestsAnswered`,
  `PendingShown`): fairness and ENABLED are beyond the prover.
- The properties that are expected to be violated.

Every other property of a run, safety invariant or action property, is stated by a
theorem. That `ParseWorkspaceMounts` returns mounts with two sides that are not empty is
assumed of the requests (`ChatsAssumption`) and not proved: it selects by a predicate,
and the theorems of the library about that take an operator.

Where a definition used an operator of the community modules that the prover cannot see
through, the selection of a subsequence by a predicate above all, it was put as the
same thing said with sets or a recursive function: the search of `Discovery` (the first of
the places where a file can be run), the `delete` of `SessionStore` (the entry with the
key removed), the sort of `WorkspacePaths` (each mount at the place that those before it
leave), the loops over mounts and lines.

## 6. Not modelled

- `src/gateway/server.ts`, `cli.ts`: routing, the key check and the reading
  of the environment keep no state per request. Only the end of the process and its
  effect on requests are modelled (`Restart`, `Crash`).
- `chat-request.ts` and the rest of `prompt.ts`: field validation, directives and
  framing of the prompt are text; an invalid request is an outcome in `GatewayChat`.
- `args.ts`: pure; its errors are early failures of `TaskProgress`.
- `redaction.ts`, `title.ts` and formatting: text without state.
- `src/plugin.ts`, `plugin-probe.ts`, `protocol.ts`: registration, a package probe and
  re-exports.

## 7. Plan

The order was: the process runner, on which everything waits; the queue; the chat
handler over both; the session store and its use; framing; protocol state; the task
tool; the model list with discovery; what a run relays, with the mounts; the restart
of the gateway. Every safety property of the passing runs is proved. What is left:
framing and protocol state composed, a stream of bytes to an outcome.
