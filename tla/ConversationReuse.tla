--------------------------- MODULE ConversationReuse ---------------------------
(***************************************************************************)
(* How the gateway resumes agy conversations (src/gateway/chat.ts with the *)
(* session store).  A client sends its whole history with every request;   *)
(* the lookup happens when the request arrives, the run when its turn      *)
(* comes, the record when the run succeeds.  In between, the requests of   *)
(* other clients look up and record as well.  What agy keeps of a          *)
(* conversation is external: here, the messages it was sent, in order.     *)
(***************************************************************************)
EXTENDS SessionStore

CONSTANTS Clients,       \* each runs one chat at a time
          Histories,     \* Histories[c]: the histories client c may send
          MaxRequests    \* bound of the model: requests and retries, of all clients

ASSUME HistoriesAssumption ==
  /\ DOMAIN Histories = Clients
  /\ \A c \in Clients : Histories[c] \subseteq Seq(Messages) \ {<<>>}

VARIABLES
  entries,               \* the store
  history,               \* what each client has sent last
  asked,                 \* its request under way, or NoRequest
  conversations,         \* what agy was sent in each conversation, by id from 1
  requests,              \* how many requests and retries were made
  faithful,              \* history: the last answer came from a conversation that
                         \* held exactly the client's history
  linear,                \* history: the client only ever continued its chat, with
                         \* messages of its own, and every turn succeeded without a
                         \* retry in a resumed conversation and was recorded after it
  lastUsed               \* history: when each fingerprint was last touched

vars == <<entries, history, asked, conversations, requests, faithful, linear, lastUsed>>

(* A request under way: the conversation agy will be told to resume, 0 for a new
   one, the messages of the prompt, and whether the client named the conversation. *)
NoRequest == [conversationId |-> 0, prompt |-> <<>>, explicit |-> FALSE]

Init ==
  /\ entries = <<>>
  /\ history = [c \in Clients |-> <<>>]
  /\ asked = [c \in Clients |-> NoRequest]
  /\ conversations = <<>>
  /\ requests = 0
  /\ faithful = [c \in Clients |-> TRUE]
  /\ linear = [c \in Clients |-> TRUE]
  /\ lastUsed = [f \in SUBSET Messages |-> 0]

-------------------------------------------------------------------------------
(* The prompt of a request: after a hit the messages from the seenCount-th on, or the
   whole history when there is none left. *)
Prompt(sent, seen) ==
  IF seen < Len(sent) THEN SubSeq(sent, seen + 1, Len(sent)) ELSE sent

(* A request with no conversation of its own arrives: lookup, then the prompt. *)
Arrive(c, sent) ==
  LET hit == LookupHit(entries, sent)
  IN /\ asked' = [asked EXCEPT ![c] =
          [conversationId |-> hit.conversationId, prompt |-> Prompt(sent, hit.seenCount),
           explicit |-> FALSE]]
     /\ entries' = Touched(entries, sent)
     /\ lastUsed' = IF hit = NoHit THEN lastUsed
                    ELSE [lastUsed EXCEPT ![Fingerprint(Prefix(sent, hit.seenCount))] =
                            2 * requests + 3]

Written(c) == UNION {ToSet(h) : h \in Histories[c]}

(* The history continues the last one, in messages that occur once. *)
Continues(c, sent) ==
  /\ IsStrictPrefix(history[c], sent)
  /\ \A i, k \in DOMAIN sent : sent[i] = sent[k] => i = k
  /\ \A d \in Clients \ {c} : Written(d) \cap Written(c) = {}

Ask(c) ==
  /\ asked[c] = NoRequest
  /\ requests < MaxRequests
  /\ \E sent \in Histories[c] :
       /\ Arrive(c, sent)
       /\ history' = [history EXCEPT ![c] = sent]
       /\ linear' = [linear EXCEPT ![c] = @ /\ Continues(c, sent)]
  /\ requests' = requests + 1
  /\ UNCHANGED <<conversations, faithful>>

(* A request that names its conversation: no lookup, the whole prompt. *)
AskExplicit(c) ==
  /\ asked[c] = NoRequest
  /\ requests < MaxRequests
  /\ \E sent \in Histories[c], id \in DOMAIN conversations :
       /\ asked' = [asked EXCEPT ![c] = [conversationId |-> id, prompt |-> sent,
                                     explicit |-> TRUE]]
       /\ history' = [history EXCEPT ![c] = sent]
  /\ linear' = [d \in Clients |-> FALSE]
  /\ requests' = requests + 1
  /\ UNCHANGED <<entries, conversations, faithful, lastUsed>>

(* What agy's conversations are once it took the prompt, and the id of the one used. *)
Target(c) ==
  IF asked[c].conversationId = 0 THEN Len(conversations) + 1 ELSE asked[c].conversationId
Taken(c) ==
  IF asked[c].conversationId = 0
  THEN Append(conversations, asked[c].prompt)
  ELSE [conversations EXCEPT ![asked[c].conversationId] = @ \o asked[c].prompt]

(* A transient failure or an empty answer is retried with the same arguments and the
   same prompt, which agy may have taken into the conversation already. *)
Retry(c) ==
  /\ asked[c] # NoRequest
  /\ requests < MaxRequests
  /\ requests' = requests + 1
  /\ conversations' \in {conversations, Taken(c)}
  /\ linear' = [linear EXCEPT ![c] = @ /\ asked[c].conversationId = 0]
  /\ UNCHANGED <<entries, history, asked, faithful, lastUsed>>

(* The run succeeds: the history is recorded under the conversation agy reports, the
   new one or the one it was told to resume. *)
Answer(c) ==
  /\ asked[c] # NoRequest
  /\ conversations' = Taken(c)
  /\ entries' = Recorded(entries, history[c], Target(c))
  /\ lastUsed' = [lastUsed EXCEPT ![Fingerprint(history[c])] = 2 * requests + 2]
  /\ faithful' = [faithful EXCEPT ![c] = conversations'[Target(c)] = history[c]]
  /\ asked' = [asked EXCEPT ![c] = NoRequest]
  /\ UNCHANGED <<history, requests, linear>>

(* The run succeeds and agy names no conversation: record returns at once, and the
   entry that was resumed, if any, stands for less than its conversation now holds. *)
AnswerUnnamed(c) ==
  /\ asked[c] # NoRequest
  /\ conversations' = Taken(c)
  /\ faithful' = [faithful EXCEPT ![c] = conversations'[Target(c)] = history[c]]
  /\ asked' = [asked EXCEPT ![c] = NoRequest]
  /\ linear' = [linear EXCEPT ![c] = @ /\ asked[c].conversationId = 0]
  /\ UNCHANGED <<entries, history, requests, lastUsed>>

(* The run fails or its client leaves: nothing is recorded, and agy may or may not
   have taken the prompt into the conversation. *)
Fail(c) ==
  /\ asked[c] # NoRequest
  /\ conversations' \in {conversations, Taken(c)}
  /\ asked' = [asked EXCEPT ![c] = NoRequest]
  /\ linear' = [linear EXCEPT ![c] = FALSE]
  /\ UNCHANGED <<entries, history, requests, faithful, lastUsed>>

Next == \E c \in Clients :
  Ask(c) \/ AskExplicit(c) \/ Retry(c) \/ Answer(c) \/ AnswerUnnamed(c) \/ Fail(c)

Spec == Init /\ [][Next]_vars

-------------------------------------------------------------------------------
Entry == [fingerprint : SUBSET Messages, count : Nat \ {0}, conversationId : Nat \ {0}]
Request == [conversationId : Nat, prompt : Seq(Messages), explicit : BOOLEAN]

(* Every variable has its type. *)
TypeOK ==
  /\ entries \in Seq(Entry)
  /\ history \in [Clients -> Seq(Messages)]
  /\ asked \in [Clients -> Request]
  /\ conversations \in Seq(Seq(Messages))
  /\ requests \in Nat
  /\ faithful \in [Clients -> BOOLEAN]
  /\ linear \in [Clients -> BOOLEAN]
  /\ lastUsed \in [SUBSET Messages -> Nat]

(* The store is an LRU map of bounded size: a fingerprint has one entry, every entry names
   a conversation that exists, and the entries stand in the order of their last use, by a
   hit or by a record, so that eviction takes the least recently used. *)
StoreIsLRU ==
  /\ Len(entries) <= Capacity
  /\ \A i, k \in DOMAIN entries :
       entries[i].fingerprint = entries[k].fingerprint => i = k
  /\ \A i \in DOMAIN entries : entries[i].conversationId \in DOMAIN conversations
  /\ \A i, k \in DOMAIN entries :
       i < k => lastUsed[entries[i].fingerprint] <= lastUsed[entries[k].fingerprint]

(* "the client gets the full conversation semantics while agy sees a small, incremental
   prompt" (README.md:592), for a chat that is only ever continued, in messages that
   occur once, and whose resumed turns are recorded and not retried: however the turns
   of other clients, evictions and misses fall in between, its conversation holds its
   history, each message once and in order. *)
LinearChatsFaithful == \A c \in Clients : linear[c] => faithful[c]

(* "Returns the conversation whose message sequence is a strict prefix of `sequence`"
   (src/gateway/session-store.ts:73): a conversation about to be resumed holds a prefix
   of the history it is resumed for. *)
ResumesPrefix ==
  \A c \in Clients : asked[c].conversationId # 0 /\ ~asked[c].explicit =>
    IsPrefix(conversations[asked[c].conversationId], history[c])
===============================================================================
