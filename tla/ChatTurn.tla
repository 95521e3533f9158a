------------------------------ MODULE ChatTurn ------------------------------
(***************************************************************************)
(* Chat turns: the state graph of app/llm/graph.py, run by _stream of      *)
(* app/routers/chat.py once per request.  A turn starts from the last      *)
(* checkpoint of its conversation, appends to its own copy of the messages *)
(* and saves the whole copy after every node; the checkpointer lives in    *)
(* the memory of the process.  Turns of one conversation may overlap, any  *)
(* call may fail, the client may disconnect, the process may die.          *)
(*                                                                         *)
(* A message is abstracted to its kind and the turn that appended it.  The *)
(* checkpointer (LangGraph) and the model (Claude) are outside src: the    *)
(* model refuses a history in which a tool call has no result right after  *)
(* it, and calls no tool in a request that declares none.                  *)
(***************************************************************************)
EXTENDS Integers, Sequences, SequencesExt

CONSTANTS
  Turns, Conversations, None,
  MaxRounds,    \* MAX_TOOL_CALL_ROUNDS
  Attempts,     \* with_retry's attempts in agent
  MaxFaults     \* bound on failing calls, disconnected clients and crashes

ASSUME ChatTurnAssumption ==
  /\ None \notin Conversations
  /\ MaxRounds \in Nat \ {0} /\ Attempts \in Nat \ {0}
  /\ MaxFaults \in Nat

VARIABLES
  checkpoint,    \* the messages last saved of each conversation
  conversation,  \* the conversation of each turn
  pc,            \* the node each turn is in
  state,         \* each turn's ChatState, as far as it lives in memory
  tokens,        \* the replies whose tokens each turn streamed: <<round, attempt>>
  dangling,      \* history: conversations a turn left inside a tool call
  overlapped,    \* history: conversations two turns of which overlapped
  restarts,      \* history: how often the process died
  faults

history == <<dangling, overlapped, restarts>>
vars == <<checkpoint, conversation, pc, state, tokens, history, faults>>

Kind == {"user", "tool_use", "tool_result", "text"}
Message == [turn : Turns, kind : Kind]

Node == {"maybe_serve_from_cache", "agent", "tool_node", "validate_and_store"}
Ended == {"done", "failed", "disconnected"}
Place == Node \cup Ended \cup {"idle"}

ChatState == [messages : Seq(Message), rounds : 0 .. MaxRounds, noTools : BOOLEAN,
              answered : BOOLEAN, tries : 0 .. Attempts - 1]

Replies == (0 .. MaxRounds) \X (0 .. Attempts - 1)

Blank == [messages |-> <<>>, rounds |-> 0, noTools |-> FALSE,
          answered |-> FALSE, tries |-> 0]

Running(t) == pc[t] \in Node

(* Every tool call has its result right after it.                          *)
Acceptable(messages) ==
  \A i \in DOMAIN messages : messages[i].kind = "tool_use" =>
    i < Len(messages) /\ messages[i + 1].kind = "tool_result"

-----------------------------------------------------------------------------
Goto(t, place) == pc' = [pc EXCEPT ![t] = place]

SetState(t, s) == state' = [state EXCEPT ![t] = s]

(* Tokens of the current attempt reach the client, or none do.             *)
Emit(t, streamed) ==
  tokens' = IF streamed
            THEN [tokens EXCEPT ![t] = @ \cup {<<state[t].rounds, state[t].tries>>}]
            ELSE tokens

(* What the checkpointer does when a node is done.                         *)
Save(t, messages) ==
  checkpoint' = [checkpoint EXCEPT ![conversation[t]] = messages]

Spend == faults < MaxFaults /\ faults' = faults + 1

(* The turn's copy of the state is dropped with the turn.                  *)
End(t, place) == Goto(t, place) /\ SetState(t, Blank)

(* _stream's except: an error event, and the checkpoint stays as it is.    *)
Fail(t) == End(t, "failed") /\ UNCHANGED <<checkpoint, conversation>>

Say(t, kind) == Append(state[t].messages, [turn |-> t, kind |-> kind])

-----------------------------------------------------------------------------
(* Mutant: messages without its operator.add reducer.                      *)
ResumedFromNothing(c) == <<>>

(* The messages a turn starts from.                                        *)
Resumed(c) == checkpoint[c]

(* Mutant: turn_input leaves the rounds of the previous turn in place.     *)
InitialRoundsCarried(c) ==
  LET calls == SelectSeq(checkpoint[c], LAMBDA m : m.kind = "tool_result")
  IN IF Len(calls) < MaxRounds THEN Len(calls) ELSE MaxRounds

InitialRounds(c) == 0

(* _stream: the turn's input is added to the checkpointed messages and the *)
(* rest of the state is reset.                                             *)
Begin(t, c) ==
  /\ pc[t] = "idle"
  /\ conversation' = [conversation EXCEPT ![t] = c]
  /\ LET messages == Append(Resumed(c), [turn |-> t, kind |-> "user"])
     IN /\ SetState(t, [Blank EXCEPT !.messages = messages, !.rounds = InitialRounds(c)])
        /\ checkpoint' = [checkpoint EXCEPT ![c] = messages]
  /\ Goto(t, "maybe_serve_from_cache")
  /\ overlapped' = IF \E u \in Turns : Running(u) /\ conversation[u] = c
                   THEN overlapped \cup {c} ELSE overlapped
  /\ UNCHANGED <<tokens, dangling, restarts, faults>>

(* A hit streams the cached answer and ends the turn without a reply in    *)
(* the messages.                                                           *)
CacheHit(t) ==
  /\ pc[t] = "maybe_serve_from_cache"
  /\ Save(t, state[t].messages)
  /\ Emit(t, TRUE)
  /\ End(t, "done")
  /\ UNCHANGED <<conversation, history, faults>>

CacheMiss(t) ==
  /\ pc[t] = "maybe_serve_from_cache"
  /\ Save(t, state[t].messages)
  /\ Goto(t, "agent")
  /\ UNCHANGED <<conversation, state, tokens, history, faults>>

(* Embedding the query or reading the cache raises.                        *)
CacheFails(t) ==
  /\ pc[t] = "maybe_serve_from_cache"
  /\ Spend
  /\ Fail(t)
  /\ UNCHANGED <<tokens, history>>

-----------------------------------------------------------------------------
(* agent: one streamed call.                                               *)

(* _route_after_agent.                                                     *)
AfterAgent(t, kind) ==
  IF kind = "tool_use" /\ state[t].rounds < MaxRounds
  THEN "tool_node" ELSE "validate_and_store"

(* A reply is text, which may be empty, or a tool call that text may       *)
(* precede; ledger errors are swallowed.                                   *)
AgentReplies(t) ==
  /\ pc[t] = "agent" /\ Acceptable(state[t].messages)
  /\ \E kind \in IF state[t].noTools THEN {"text"} ELSE {"text", "tool_use"} :
     \E streamed \in BOOLEAN :
       /\ SetState(t, [state[t] EXCEPT !.messages = Say(t, kind),
                                       !.answered = (kind = "text"), !.tries = 0])
       /\ Save(t, Say(t, kind))
       /\ Emit(t, streamed)
       /\ Goto(t, AfterAgent(t, kind))
  /\ UNCHANGED <<conversation, history, faults>>

(* Mutant: a refused request is sent again, and again.                     *)
AgentRefusedAgain(t) ==
  /\ pc[t] = "agent" /\ ~ Acceptable(state[t].messages)
  /\ UNCHANGED vars

(* A bad request is not transient: it is not retried.                      *)
AgentRefused(t) ==
  /\ pc[t] = "agent" /\ ~ Acceptable(state[t].messages)
  /\ Fail(t)
  /\ UNCHANGED <<tokens, history, faults>>

(* Mutant: retries although tokens were streamed.                          *)
MayRetryStreamed(t, streamed) == state[t].tries + 1 < Attempts

(* A transient error is retried unless tokens have reached the client.     *)
MayRetry(t, streamed) == ~ streamed /\ state[t].tries + 1 < Attempts

(* The stream stalls or breaks, before or after its first token.           *)
AgentFails(t) ==
  /\ pc[t] = "agent"
  /\ Spend
  /\ \E streamed \in BOOLEAN :
       \/ /\ MayRetry(t, streamed)
          /\ SetState(t, [state[t] EXCEPT !.tries = @ + 1])
          /\ Emit(t, streamed)
          /\ UNCHANGED <<checkpoint, conversation, pc>>
       \/ /\ Emit(t, streamed)
          /\ Fail(t)
  /\ UNCHANGED history

-----------------------------------------------------------------------------
(* tool_node and validate_and_store.                                       *)

(* Mutant: off by one.                                                     *)
BudgetSpentLate(rounds) == rounds > MaxRounds

BudgetSpent(rounds) == rounds >= MaxRounds

ToolAnswers(t) ==
  /\ pc[t] = "tool_node"
  /\ LET rounds == state[t].rounds + 1
     IN SetState(t, [state[t] EXCEPT !.messages = Say(t, "tool_result"),
                                     !.rounds = rounds, !.noTools = BudgetSpent(rounds)])
  /\ Save(t, Say(t, "tool_result"))
  /\ Goto(t, "agent")
  /\ UNCHANGED <<conversation, tokens, history, faults>>

(* The handler raises: the checkpoint keeps the call without a result.     *)
ToolFails(t) ==
  /\ pc[t] = "tool_node"
  /\ Spend
  /\ dangling' = dangling \cup {conversation[t]}
  /\ Fail(t)
  /\ UNCHANGED <<tokens, overlapped, restarts>>

ValidateAndStore(t) ==
  /\ pc[t] = "validate_and_store"
  /\ Save(t, state[t].messages)
  /\ End(t, "done")
  /\ UNCHANGED <<conversation, tokens, history, faults>>

(* The backfill, the embedding or the cache raises.                        *)
ValidateFails(t) ==
  /\ pc[t] = "validate_and_store"
  /\ Spend
  /\ Fail(t)
  /\ UNCHANGED <<tokens, history>>

-----------------------------------------------------------------------------
(* The generator is cancelled wherever it is; nothing is sent any more.    *)
Disconnect(t) ==
  /\ Running(t)
  /\ Spend
  /\ dangling' = IF pc[t] = "tool_node" THEN dangling \cup {conversation[t]} ELSE dangling
  /\ End(t, "disconnected")
  /\ UNCHANGED <<checkpoint, conversation, tokens, overlapped, restarts>>

(* The process dies, and the checkpoints with it.                          *)
Crash ==
  /\ Spend
  /\ restarts' = restarts + 1
  /\ checkpoint' = [c \in Conversations |-> <<>>]
  /\ pc' = [t \in Turns |-> IF Running(t) THEN "disconnected" ELSE pc[t]]
  /\ state' = [t \in Turns |-> Blank]
  /\ dangling' = {} /\ overlapped' = {}
  /\ UNCHANGED <<conversation, tokens>>

Init ==
  /\ checkpoint = [c \in Conversations |-> <<>>]
  /\ conversation = [t \in Turns |-> None]
  /\ pc = [t \in Turns |-> "idle"]
  /\ state = [t \in Turns |-> Blank]
  /\ tokens = [t \in Turns |-> {}]
  /\ dangling = {} /\ overlapped = {}
  /\ restarts = 0 /\ faults = 0

Proceed(t) ==
  \/ CacheHit(t) \/ CacheMiss(t) \/ AgentReplies(t) \/ AgentRefused(t)
  \/ ToolAnswers(t) \/ ValidateAndStore(t)

Break(t) ==
  \/ CacheFails(t) \/ AgentFails(t) \/ ToolFails(t) \/ ValidateFails(t) \/ Disconnect(t)

Next ==
  \/ \E t \in Turns : (\E c \in Conversations : Begin(t, c)) \/ Proceed(t) \/ Break(t)
  \/ Crash

Spec == Init /\ [][Next]_vars

(* The event loop runs every turn that can run, and every call ends: the   *)
(* gap between two chunks is bounded by a timeout.                         *)
FairSpec == Spec /\ \A t \in Turns : WF_vars(Proceed(t))

-----------------------------------------------------------------------------
(* Every variable has its type: no turn exceeds its rounds or attempts.    *)
TypeOK ==
  /\ checkpoint \in [Conversations -> Seq(Message)]
  /\ conversation \in [Turns -> Conversations \cup {None}]
  /\ pc \in [Turns -> Place]
  /\ state \in [Turns -> ChatState]
  /\ tokens \in [Turns -> SUBSET Replies]
  /\ dangling \in SUBSET Conversations /\ overlapped \in SUBSET Conversations
  /\ restarts \in 0 .. MaxFaults /\ faults \in 0 .. MaxFaults

AtRest(c) == \A t \in Turns : conversation[t] = c => ~ Running(t)

(* A conversation at rest is one the model accepts, unless a turn was left *)
(* inside a tool call or turns overlapped: neither retries, nor errors of  *)
(* the other nodes, nor the cap on tool calls can poison it.               *)
HistoryAcceptable ==
  \A c \in Conversations : AtRest(c) /\ c \notin dangling \cup overlapped =>
    Acceptable(checkpoint[c])

(* The tool loop ends with an answer: a turn that is validated and cached  *)
(* has text of its own as its last message, however many tools it called.  *)
ValidatedTurnsAnswer ==
  \A t \in Turns : pc[t] = "validate_and_store" =>
    state[t].answered /\ Last(state[t].messages) = [turn |-> t, kind |-> "text"]

(* A client never reads the beginnings of two attempts at the same reply.  *)
OneAttemptStreamed ==
  \A t \in Turns : \A a, b \in tokens[t] : a[1] = b[1] => a = b

(* A conversation forgets nothing while its turns come one at a time.      *)
NothingForgotten ==
  [][\A c \in Conversations \ overlapped' :
       restarts' = restarts => IsPrefix(checkpoint[c], checkpoint'[c])]_vars

(* Every turn ends: with an answer, an error, or without its client.       *)
TurnsEnd == \A t \in Turns : Running(t) ~> pc[t] \in Ended

(* tool_node: a pending tool_use "is answered above regardless (Anthropic  *)
(* requires every tool_use to get a matching tool_result before the next   *)
(* turn".                                                                  *)
ToolCallsAnswered ==
  \A c \in Conversations : AtRest(c) => Acceptable(checkpoint[c])

=============================================================================
