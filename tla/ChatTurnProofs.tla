--------------------------- MODULE ChatTurnProofs ---------------------------
(***************************************************************************)
(* Type correctness and safety of chat turns, for every set of turns and   *)
(* conversations, every cap on tool rounds and attempts, and any number of *)
(* failing calls, disconnected clients and crashes.                        *)
(***************************************************************************)
EXTENDS ChatTurn, SequenceTheorems, TLAPS

-----------------------------------------------------------------------------
(* Facts about messages.                                                   *)

(* The last message is a tool call that waits for its result, and every    *)
(* earlier call has its own.                                               *)
Pending(messages) ==
  /\ Len(messages) > 0 /\ messages[Len(messages)].kind = "tool_use"
  /\ \A i \in 1 .. Len(messages) - 1 :
       messages[i].kind = "tool_use" => messages[i + 1].kind = "tool_result"

LEMMA EmptyAcceptable == Acceptable(<<>>)
BY DEF Acceptable

LEMMA AppendAcceptable ==
  ASSUME NEW m \in Seq(Message), NEW e \in Message, Acceptable(m), e.kind # "tool_use"
  PROVE  Acceptable(Append(m, e))
BY AppendProperties DEF Acceptable, Message

LEMMA AppendCall ==
  ASSUME NEW m \in Seq(Message), NEW e \in Message, Acceptable(m), e.kind = "tool_use"
  PROVE  Pending(Append(m, e))
BY AppendProperties DEF Acceptable, Pending, Message

LEMMA AppendResult ==
  ASSUME NEW m \in Seq(Message), NEW e \in Message, Pending(m), e.kind = "tool_result"
  PROVE  Acceptable(Append(m, e))
BY AppendProperties DEF Acceptable, Pending, Message

LEMMA PrefixOfItself ==
  ASSUME NEW m \in Seq(Message) PROVE IsPrefix(m, m)
BY DEF IsPrefix

LEMMA PrefixOfAppend ==
  ASSUME NEW m \in Seq(Message), NEW e \in Message
  PROVE  IsPrefix(m, Append(m, e))
<1> DEFINE n == Append(m, e)
<1>1. Len(m) \in Nat /\ n \in Seq(Message) /\ Len(n) = Len(m) + 1
      /\ \A i \in 1 .. Len(m) : n[i] = m[i]
  BY AppendProperties, LenProperties
<1>2. /\ SubSeq(n, 1, Len(m)) \in Seq(Message) /\ Len(SubSeq(n, 1, Len(m))) = Len(m)
      /\ \A i \in 1 .. Len(m) : SubSeq(n, 1, Len(m))[i] = n[i]
  <2>1. \A i \in 1 .. Len(m) : n[i] \in Message
    BY <1>1, ElementOfSeq
  <2>2. QED
    BY <1>1, <2>1, SubSeqProperties
<1>3. SubSeq(n, 1, Len(m)) = m
  BY <1>1, <1>2, SeqEqual
<1>4. SubSeq(m, 1, Len(m)) = m
  BY SubSeqFull
<1>5. QED
  BY <1>1, <1>3, <1>4 DEF IsPrefix

LEMMA SayAppends ==
  ASSUME TypeOK, NEW t \in Turns, NEW kind \in Kind
  PROVE  LET m == state[t].messages IN
         /\ m \in Seq(Message) /\ [turn |-> t, kind |-> kind] \in Message
         /\ Say(t, kind) = Append(m, [turn |-> t, kind |-> kind])
         /\ Say(t, kind) \in Seq(Message)
         /\ Last(Say(t, kind)) = [turn |-> t, kind |-> kind]
<1>1. state[t].messages \in Seq(Message) /\ [turn |-> t, kind |-> kind] \in Message
  BY DEF TypeOK, ChatState, Message
<1>2. QED
  BY <1>1, AppendProperties DEF Say, Last

-----------------------------------------------------------------------------
(* Type correctness, with what a turn's place says of its rounds.          *)

(* A running turn has a conversation, declares tools exactly while rounds  *)
(* are left, and calls one only then.                                      *)
RoundsInv ==
  \A t \in Turns : Running(t) =>
    /\ conversation[t] \in Conversations
    /\ state[t].noTools <=> state[t].rounds >= MaxRounds
    /\ pc[t] = "tool_node" => state[t].rounds < MaxRounds

TypeInv == TypeOK /\ restarts <= faults /\ RoundsInv

LEMMA BlankType == Blank \in ChatState
BY ChatTurnAssumption DEF Blank, ChatState

(* Assigning a field a value of its type.                                  *)
LEMMA FieldType ==
  ASSUME NEW s \in ChatState
  PROVE  /\ \A m \in Seq(Message) : [s EXCEPT !.messages = m] \in ChatState
         /\ \A n \in 0 .. MaxRounds : [s EXCEPT !.rounds = n] \in ChatState
         /\ \A b \in BOOLEAN : [s EXCEPT !.noTools = b] \in ChatState
         /\ \A b \in BOOLEAN : [s EXCEPT !.answered = b] \in ChatState
         /\ \A n \in 0 .. Attempts - 1 : [s EXCEPT !.tries = n] \in ChatState
BY DEF ChatState

LEMMA EndType ==
  ASSUME TypeOK, NEW t \in Turns, NEW place \in Ended, End(t, place)
  PROVE  pc' \in [Turns -> Place] /\ state' \in [Turns -> ChatState]
BY BlankType DEF TypeOK, End, Goto, SetState, Place

LEMMA EmitType ==
  ASSUME TypeOK, NEW t \in Turns, NEW streamed \in BOOLEAN, Emit(t, streamed)
  PROVE  tokens' \in [Turns -> SUBSET Replies]
<1>1. <<state[t].rounds, state[t].tries>> \in Replies
  BY DEF TypeOK, ChatState, Replies
<1>2. QED
  BY <1>1 DEF TypeOK, Emit

LEMMA SaveType ==
  ASSUME TypeOK, NEW t \in Turns, NEW m \in Seq(Message), Save(t, m)
  PROVE  checkpoint' \in [Conversations -> Seq(Message)]
BY DEF TypeOK, Save

LEMMA SpendType ==
  ASSUME TypeInv, Spend
  PROVE  faults' \in 0 .. MaxFaults /\ faults' = faults + 1 /\ restarts + 1 \in 0 .. MaxFaults
BY ChatTurnAssumption DEF TypeInv, TypeOK, Spend

LEMMA TypeStep == TypeInv /\ [Next]_vars => TypeInv'
<1> SUFFICES ASSUME TypeInv, [Next]_vars PROVE TypeInv'
  OBVIOUS
<1> USE ChatTurnAssumption
<1>1. ASSUME NEW t \in Turns, NEW c \in Conversations, Begin(t, c) PROVE TypeInv'
  <2> DEFINE e == [turn |-> t, kind |-> "user"]
  <2>1. Append(checkpoint[c], e) \in Seq(Message)
    <3>1. checkpoint[c] \in Seq(Message) /\ e \in Message
      BY DEF TypeInv, TypeOK, Message, Kind
    <3>2. QED
      BY <3>1, AppendProperties
  <2> DEFINE s == [Blank EXCEPT !.messages = Append(checkpoint[c], e), !.rounds = 0]
  <2>2. s \in ChatState
    <3>1. 0 \in 0 .. MaxRounds
      OBVIOUS
    <3>2. QED
      BY <2>1, <3>1, FieldType, BlankType, Zenon
  <2>0. s.rounds < MaxRounds /\ (s.noTools <=> s.rounds >= MaxRounds)
    <3>1. s.rounds = 0 /\ s.noTools = FALSE
      BY DEF Blank
    <3> HIDE DEF s
    <3>2. ~ s.rounds >= MaxRounds
      BY <3>1
    <3>3. QED
      BY <3>1, <3>2
  <2>6. state' = [state EXCEPT ![t] = s]
    BY <1>1 DEF Begin, SetState, Resumed, InitialRounds
  <2>3. TypeOK'
    <3> HIDE DEF s
    <3>1. QED
      BY <1>1, <2>1, <2>2, <2>6 DEF TypeInv, TypeOK, Begin, Goto, Resumed, Place, Node
  <2>4. RoundsInv'
    <3> HIDE DEF s
    <3>1. QED
      BY <1>1, <2>0, <2>2, <2>6 DEF TypeInv, TypeOK, RoundsInv, Begin, Goto, Running, Node
  <2>5. QED
    BY <1>1, <2>3, <2>4 DEF TypeInv, Begin
<1>2. ASSUME NEW t \in Turns, Proceed(t) PROVE TypeInv'
  <2>0. state[t] \in ChatState /\ state[t].messages \in Seq(Message)
    BY DEF TypeInv, TypeOK, ChatState
  <2>1. CASE CacheHit(t)
    <3>1. TypeOK'
      BY <2>0, <2>1, EndType, EmitType, SaveType DEF TypeInv, TypeOK, CacheHit, history, Ended
    <3>2. QED
      BY <2>1, <3>1 DEF TypeInv, TypeOK, RoundsInv, CacheHit, End, Goto, SetState, Running, Node, history
  <2>2. CASE CacheMiss(t)
    <3>1. TypeOK'
      BY <2>0, <2>2, SaveType DEF TypeInv, TypeOK, CacheMiss, Goto, history, Place, Node
    <3>2. QED
      BY <2>2, <3>1 DEF TypeInv, TypeOK, RoundsInv, CacheMiss, Goto, Running, Node, history
  <2>3. CASE AgentReplies(t)
    <3>1. PICK kind \in IF state[t].noTools THEN {"text"} ELSE {"text", "tool_use"},
               streamed \in BOOLEAN :
            /\ SetState(t, [state[t] EXCEPT !.messages = Say(t, kind),
                                            !.answered = (kind = "text"), !.tries = 0])
            /\ Save(t, Say(t, kind))
            /\ Emit(t, streamed)
            /\ Goto(t, AfterAgent(t, kind))
      BY <2>3 DEF AgentReplies
    <3>2. kind \in Kind /\ Say(t, kind) \in Seq(Message)
      BY <3>1, SayAppends DEF TypeInv, Kind
    <3>3. [state[t] EXCEPT !.messages = Say(t, kind), !.answered = (kind = "text"),
                           !.tries = 0] \in ChatState
      <4>1. (kind = "text") \in BOOLEAN /\ 0 \in 0 .. Attempts - 1
        OBVIOUS
      <4>2. QED
        BY <2>0, <3>2, <4>1, FieldType, Zenon
    <3>4. TypeOK'
      BY <2>3, <3>1, <3>2, <3>3, EmitType, SaveType
      DEF TypeInv, TypeOK, AgentReplies, SetState, Goto, AfterAgent, history, Place, Node
    <3>5. QED
      BY <2>0, <2>3, <3>1, <3>4
      DEF TypeInv, TypeOK, RoundsInv, AgentReplies, SetState, Goto, AfterAgent, Running, Node, history, ChatState
  <2>4. CASE AgentRefused(t)
    <3>1. TypeOK'
      BY <2>4, EndType DEF TypeInv, TypeOK, AgentRefused, Fail, history, Ended
    <3>2. QED
      BY <2>4, <3>1 DEF TypeInv, TypeOK, RoundsInv, AgentRefused, Fail, End, Goto, SetState, Running, Node, history
  <2>5. CASE ToolAnswers(t)
    <3> DEFINE s == [state[t] EXCEPT !.messages = Say(t, "tool_result"),
                                     !.rounds = state[t].rounds + 1,
                                     !.noTools = BudgetSpent(state[t].rounds + 1)]
    <3>1. Say(t, "tool_result") \in Seq(Message)
      BY SayAppends DEF TypeInv, Kind
    <3>2. s \in ChatState
      <4>1. state[t].rounds + 1 \in 0 .. MaxRounds /\ BudgetSpent(state[t].rounds + 1) \in BOOLEAN
        BY <2>0, <2>5 DEF TypeInv, RoundsInv, ToolAnswers, ChatState, Running, Node, BudgetSpent
      <4>2. QED
        BY <2>0, <3>1, <4>1, FieldType, Zenon
    <3>3. state' = [state EXCEPT ![t] = s]
      BY <2>5 DEF ToolAnswers, SetState
    <3>4. TypeOK'
      BY <2>5, <3>1, <3>2, <3>3, SaveType DEF TypeInv, TypeOK, ToolAnswers, Goto, history, Place, Node
    <3>5. (s.noTools <=> s.rounds >= MaxRounds)
      BY <2>0 DEF BudgetSpent, ChatState
    <3>6. QED
      BY <2>5, <3>3, <3>4, <3>5 DEF TypeInv, TypeOK, RoundsInv, ToolAnswers, Goto, Running, Node, history
  <2>6. CASE ValidateAndStore(t)
    <3>1. TypeOK'
      BY <2>0, <2>6, EndType, SaveType DEF TypeInv, TypeOK, ValidateAndStore, history, Ended
    <3>2. QED
      BY <2>6, <3>1 DEF TypeInv, TypeOK, RoundsInv, ValidateAndStore, End, Goto, SetState, Running, Node, history
  <2>7. QED
    BY <1>2, <2>1, <2>2, <2>3, <2>4, <2>5, <2>6 DEF Proceed
<1>3. ASSUME NEW t \in Turns, Break(t) PROVE TypeInv'
  <2>1. CASE CacheFails(t) \/ ToolFails(t) \/ ValidateFails(t) \/ Disconnect(t)
    <3>1. /\ Spend /\ \E place \in Ended : End(t, place)
          /\ UNCHANGED <<checkpoint, conversation, tokens, overlapped, restarts>>
      BY <2>1 DEF CacheFails, ToolFails, ValidateFails, Disconnect, Fail, history, Ended
    <3>2. dangling' \in SUBSET Conversations
      BY <2>1 DEF TypeInv, TypeOK, RoundsInv, CacheFails, ToolFails, ValidateFails, Disconnect, history, Running, Node
    <3>3. TypeOK'
      BY <3>1, <3>2, EndType, SpendType DEF TypeInv, TypeOK
    <3>4. QED
      BY <3>1, <3>3, SpendType DEF TypeInv, TypeOK, RoundsInv, End, Goto, SetState, Running, Node, Ended
  <2>2. CASE AgentFails(t)
    <3>1. PICK streamed \in BOOLEAN :
            \/ /\ MayRetry(t, streamed)
               /\ SetState(t, [state[t] EXCEPT !.tries = @ + 1])
               /\ Emit(t, streamed)
               /\ UNCHANGED <<checkpoint, conversation, pc>>
            \/ Emit(t, streamed) /\ Fail(t)
      BY <2>2 DEF AgentFails
    <3>2. Spend /\ UNCHANGED history
      BY <2>2 DEF AgentFails
    <3>3. tokens' \in [Turns -> SUBSET Replies]
      BY <3>1, EmitType DEF TypeInv
    <3>4. CASE Fail(t)
      <4>1. TypeOK'
        BY <3>2, <3>3, <3>4, EndType, SpendType DEF TypeInv, TypeOK, Fail, history, Ended
      <4>2. QED
        BY <3>2, <3>4, <4>1, SpendType DEF TypeInv, TypeOK, RoundsInv, Fail, End, Goto, SetState, Running, Node, history
    <3>5. CASE /\ MayRetry(t, streamed)
               /\ SetState(t, [state[t] EXCEPT !.tries = @ + 1])
               /\ UNCHANGED <<checkpoint, conversation, pc>>
      <4>1. [state[t] EXCEPT !.tries = @ + 1] \in ChatState
        <5>1. state[t] \in ChatState
          BY DEF TypeInv, TypeOK
        <5>2. state[t].tries + 1 \in 0 .. Attempts - 1
          BY <3>5, <5>1 DEF ChatState, MayRetry
        <5>3. QED
          BY <5>1, <5>2, FieldType
      <4>2. TypeOK'
        BY <3>2, <3>3, <3>5, <4>1, SpendType DEF TypeInv, TypeOK, SetState, history
      <4>3. \A u \in Turns : state'[u].rounds = state[u].rounds /\ state'[u].noTools = state[u].noTools
        BY <3>5 DEF TypeInv, TypeOK, SetState, ChatState
      <4>4. RoundsInv'
        BY <3>5, <4>3 DEF TypeInv, RoundsInv, Running
      <4>5. QED
        BY <3>2, <4>2, <4>4, SpendType DEF TypeInv, TypeOK, history
    <3>6. QED
      BY <3>1, <3>4, <3>5
  <2>3. QED
    BY <1>3, <2>1, <2>2 DEF Break
<1>4. CASE Crash
  <2>1. <<>> \in Seq(Message)
    BY EmptySeq
  <2>2. TypeOK'
    BY <1>4, <2>1, BlankType, SpendType DEF TypeInv, TypeOK, Crash, Place, Ended
  <2>3. QED
    BY <1>4, <2>2, SpendType DEF TypeInv, TypeOK, RoundsInv, Crash, Running, Node
<1>5. CASE UNCHANGED vars
  BY <1>5 DEF TypeInv, TypeOK, RoundsInv, Running, vars, history
<1>6. QED
  BY <1>1, <1>2, <1>3, <1>4, <1>5 DEF Next

LEMMA TypeInit == Init => TypeInv
<1>1. <<>> \in Seq(Message)
  BY EmptySeq
<1>2. QED
  BY <1>1, BlankType, ChatTurnAssumption DEF Init, TypeInv, TypeOK, RoundsInv, Place, Running, Node

LEMMA TypeInvariant == Spec => []TypeInv
BY TypeInit, TypeStep, PTL DEF Spec

(* Every variable has its type in every reachable state: no turn exceeds   *)
(* its tool rounds or its attempts, in agent, tool_node and with_retry.    *)
THEOREM TypeCorrect == Spec => []TypeOK
<1>1. TypeInv => TypeOK
  BY DEF TypeInv
<1>2. QED
  BY <1>1, TypeInvariant, PTL

-----------------------------------------------------------------------------
(* The history of a conversation.                                          *)

(* While turns of a conversation do not overlap, the one that runs has in  *)
(* its own copy what the checkpointer has.                                 *)
SavedInv ==
  \A c \in Conversations \ overlapped : \A t \in Turns :
    Running(t) /\ conversation[t] = c =>
      /\ checkpoint[c] = state[t].messages
      /\ \A u \in Turns : Running(u) /\ conversation[u] = c => u = t

(* Unless a turn ended inside a tool call, a call is without its result    *)
(* only while a turn is in tool_node.                                      *)
CallsInv ==
  \A c \in Conversations \ (dangling \cup overlapped) :
    IF \E t \in Turns : conversation[t] = c /\ pc[t] = "tool_node"
    THEN Pending(checkpoint[c]) ELSE Acceptable(checkpoint[c])

HistoryInv == SavedInv /\ CallsInv

(* What NothingForgotten says of a step.                                   *)
Grows ==
  \A c \in Conversations \ overlapped' :
    restarts' = restarts => IsPrefix(checkpoint[c], checkpoint'[c])

(* What a turn may assume of its messages, by the place it is in.          *)
Ready(place, messages) ==
  IF place = "tool_node" THEN Pending(messages) ELSE Acceptable(messages)

LEMMA Unchanged ==
  ASSUME TypeInv, UNCHANGED checkpoint PROVE Grows
BY PrefixOfItself DEF TypeInv, TypeOK, Grows

(* A turn goes on to another node: it has appended to its messages what    *)
(* fits there, and the checkpointer has them.                              *)
LEMMA MoveKeepsHistory ==
  ASSUME TypeInv, HistoryInv, NEW t \in Turns, Running(t),
         NEW m \in Seq(Message), NEW s \in ChatState, s.messages = m,
         NEW place \in Node, Goto(t, place), SetState(t, s),
         Save(t, m) \/ (UNCHANGED checkpoint /\ m = state[t].messages),
         UNCHANGED <<conversation, dangling, overlapped>>,
         IsPrefix(state[t].messages, m),
         Ready(pc[t], state[t].messages) => Ready(place, m)
  PROVE  HistoryInv' /\ Grows
<1> DEFINE d == conversation[t]
<1>1. /\ d \in Conversations /\ pc'[t] = place /\ state'[t].messages = m
      /\ Running(t)' /\ conversation'[t] = d
      /\ \A u \in Turns : u # t => /\ pc'[u] = pc[u] /\ state'[u] = state[u]
                                   /\ (Running(u)' <=> Running(u))
      /\ \A u \in Turns : conversation'[u] = conversation[u]
      /\ \A c \in Conversations : c # d => checkpoint'[c] = checkpoint[c]
  BY DEF TypeInv, TypeOK, RoundsInv, Goto, SetState, Save, Running
<1>2. ASSUME d \notin overlapped
      PROVE  /\ checkpoint[d] = state[t].messages /\ checkpoint'[d] = m
             /\ \A u \in Turns : Running(u) /\ conversation[u] = d => u = t
  BY <1>1, <1>2 DEF HistoryInv, SavedInv, Save, TypeInv, TypeOK
<1>3. SavedInv'
  BY <1>1, <1>2 DEF HistoryInv, SavedInv
<1>4. CallsInv'
  <2> SUFFICES ASSUME NEW c \in Conversations, c \notin dangling \cup overlapped
               PROVE  Ready(IF \E u \in Turns : conversation'[u] = c /\ pc'[u] = "tool_node"
                            THEN "tool_node" ELSE "agent", checkpoint'[c])
    BY DEF CallsInv, Ready
  <2>1. Ready(IF \E u \in Turns : conversation[u] = c /\ pc[u] = "tool_node"
              THEN "tool_node" ELSE "agent", checkpoint[c])
    BY DEF HistoryInv, CallsInv, Ready
  <2>2. CASE c # d
    BY <1>1, <2>1, <2>2
  <2>3. CASE c = d
    <3>1. \A u \in Turns : conversation[u] = c /\ (pc[u] = "tool_node" \/ pc'[u] = "tool_node") => u = t
      BY <1>1, <1>2, <2>3 DEF Running, Node
    <3>2. Ready(pc[t], state[t].messages)
      BY <1>2, <2>1, <2>3, <3>1 DEF Ready
    <3>3. QED
      BY <1>1, <1>2, <2>3, <3>1, <3>2 DEF Ready
  <2>4. QED
    BY <2>2, <2>3
<1>5. Grows
  BY <1>1, <1>2, PrefixOfItself DEF Grows, TypeInv, TypeOK
<1>6. QED
  BY <1>3, <1>4, <1>5 DEF HistoryInv

(* A turn ends: if it was inside a tool call, its conversation is dangling.*)
LEMMA EndKeepsHistory ==
  ASSUME TypeInv, HistoryInv, NEW t \in Turns, Running(t),
         NEW place \in Ended, End(t, place),
         Save(t, state[t].messages) \/ UNCHANGED checkpoint,
         UNCHANGED <<conversation, overlapped>>,
         dangling \subseteq dangling',
         pc[t] = "tool_node" => conversation[t] \in dangling'
  PROVE  HistoryInv' /\ Grows
<1> DEFINE d == conversation[t]
<1>1. /\ d \in Conversations /\ pc'[t] = place /\ ~ Running(t)'
      /\ \A u \in Turns : u # t => /\ pc'[u] = pc[u] /\ state'[u] = state[u]
                                   /\ (Running(u)' <=> Running(u))
      /\ \A u \in Turns : conversation'[u] = conversation[u]
      /\ \A c \in Conversations : c # d => checkpoint'[c] = checkpoint[c]
  BY DEF TypeInv, TypeOK, RoundsInv, End, Goto, SetState, Save, Running, Ended, Node
<1>2. ASSUME d \notin overlapped
      PROVE  /\ checkpoint'[d] = checkpoint[d]
             /\ \A u \in Turns : Running(u) /\ conversation[u] = d => u = t
  BY <1>1, <1>2 DEF HistoryInv, SavedInv, Save, TypeInv, TypeOK
<1>3. SavedInv'
  BY <1>1, <1>2 DEF HistoryInv, SavedInv
<1>4. CallsInv'
  <2> SUFFICES ASSUME NEW c \in Conversations, c \notin dangling' \cup overlapped
               PROVE  IF \E u \in Turns : conversation'[u] = c /\ pc'[u] = "tool_node"
                      THEN Pending(checkpoint'[c]) ELSE Acceptable(checkpoint'[c])
    BY DEF CallsInv
  <2>1. IF \E u \in Turns : conversation[u] = c /\ pc[u] = "tool_node"
        THEN Pending(checkpoint[c]) ELSE Acceptable(checkpoint[c])
    BY DEF HistoryInv, CallsInv
  <2>2. \A u \in Turns : conversation[u] = c =>
          (pc'[u] = "tool_node" <=> pc[u] = "tool_node")
    BY <1>1 DEF Ended
  <2>3. checkpoint'[c] = checkpoint[c]
    BY <1>1, <1>2
  <2>4. QED
    BY <1>1, <2>1, <2>2, <2>3
<1>5. Grows
  BY <1>1, <1>2, PrefixOfItself DEF Grows, TypeInv, TypeOK
<1>6. QED
  BY <1>3, <1>4, <1>5 DEF HistoryInv

(* Nothing of a conversation runs when a turn begins that overlaps none.   *)
LEMMA BeginKeepsHistory ==
  ASSUME TypeInv, HistoryInv, NEW t \in Turns, NEW d \in Conversations, Begin(t, d)
  PROVE  HistoryInv' /\ Grows
<1> DEFINE e == [turn |-> t, kind |-> "user"]
           m == Append(checkpoint[d], e)
<1>1. checkpoint[d] \in Seq(Message) /\ e \in Message /\ m \in Seq(Message)
  <2>1. checkpoint[d] \in Seq(Message) /\ e \in Message
    BY DEF TypeInv, TypeOK, Message, Kind
  <2>2. QED
    BY <2>1, AppendProperties
<1>2. IsPrefix(checkpoint[d], m) /\ (Acceptable(checkpoint[d]) => Acceptable(m))
  BY <1>1, PrefixOfAppend, AppendAcceptable
<1>3. state'[t].messages = m
  <2>1. [Blank EXCEPT !.messages = m, !.rounds = 0].messages = m
    BY DEF Blank
  <2>2. state' = [state EXCEPT ![t] = [Blank EXCEPT !.messages = m, !.rounds = 0]]
    BY DEF Begin, SetState, Resumed, InitialRounds
  <2>3. QED
    BY <2>1, <2>2 DEF TypeInv, TypeOK
<1> HIDE DEF m
<1>4. /\ pc[t] = "idle" /\ pc'[t] = "maybe_serve_from_cache" /\ conversation'[t] = d
      /\ checkpoint' = [checkpoint EXCEPT ![d] = m]
      /\ \A u \in Turns : u # t => /\ pc'[u] = pc[u] /\ state'[u] = state[u]
                                   /\ conversation'[u] = conversation[u]
                                   /\ (Running(u)' <=> Running(u))
      /\ ~ Running(t) /\ UNCHANGED <<dangling, restarts>>
  BY DEF TypeInv, TypeOK, Begin, Goto, SetState, Running, Node, Resumed, m
<1>5. /\ overlapped \subseteq overlapped'
      /\ d \notin overlapped' => \A u \in Turns : Running(u) => conversation[u] # d
  BY DEF Begin
<1>6. checkpoint'[d] = m /\ \A c \in Conversations : c # d => checkpoint'[c] = checkpoint[c]
  BY <1>4 DEF TypeInv, TypeOK
<1>7. SavedInv'
  BY <1>3, <1>4, <1>5, <1>6 DEF HistoryInv, SavedInv
<1>8. CallsInv'
  <2> SUFFICES ASSUME NEW c \in Conversations, c \notin dangling \cup overlapped'
               PROVE  IF \E u \in Turns : conversation'[u] = c /\ pc'[u] = "tool_node"
                      THEN Pending(checkpoint'[c]) ELSE Acceptable(checkpoint'[c])
    BY <1>4 DEF CallsInv
  <2>1. IF \E u \in Turns : conversation[u] = c /\ pc[u] = "tool_node"
        THEN Pending(checkpoint[c]) ELSE Acceptable(checkpoint[c])
    BY <1>5 DEF HistoryInv, CallsInv
  <2>2. CASE c # d
    BY <1>4, <1>6, <2>1, <2>2
  <2>3. CASE c = d
    <3>1. \A u \in Turns : conversation'[u] = c => pc'[u] # "tool_node"
      BY <1>4, <1>5, <2>3 DEF Running, Node
    <3>2. \A u \in Turns : conversation[u] = c => pc[u] # "tool_node"
      BY <1>5, <2>3 DEF Running, Node
    <3>3. QED
      BY <1>2, <1>6, <2>1, <2>3, <3>1, <3>2
  <2>4. QED
    BY <2>2, <2>3
<1>9. Grows
  BY <1>2, <1>6, PrefixOfItself DEF Grows, TypeInv, TypeOK
<1>10. QED
  BY <1>7, <1>8, <1>9 DEF HistoryInv

LEMMA ProceedKeepsHistory ==
  ASSUME TypeInv, HistoryInv, NEW t \in Turns, Proceed(t)
  PROVE  HistoryInv' /\ Grows
<1> DEFINE m == state[t].messages
<1>0. state[t] \in ChatState /\ m \in Seq(Message) /\ IsPrefix(m, m)
  BY PrefixOfItself DEF TypeInv, TypeOK, ChatState
<1>1. CASE CacheHit(t) \/ ValidateAndStore(t)
  <2>1. /\ Running(t) /\ pc[t] # "tool_node" /\ Save(t, m) /\ End(t, "done")
        /\ UNCHANGED <<conversation, overlapped, dangling>>
    BY <1>1 DEF CacheHit, ValidateAndStore, Running, Node, history
  <2>2. QED
    BY <2>1, EndKeepsHistory DEF Ended
<1>2. CASE AgentRefused(t)
  <2>1. /\ Running(t) /\ pc[t] # "tool_node" /\ End(t, "failed")
        /\ UNCHANGED <<checkpoint, conversation, overlapped, dangling>>
    BY <1>2 DEF AgentRefused, Fail, Running, Node, history
  <2>2. QED
    BY <2>1, EndKeepsHistory DEF Ended
<1>3. CASE CacheMiss(t)
  <2>1. /\ Running(t) /\ pc[t] = "maybe_serve_from_cache" /\ Save(t, m) /\ Goto(t, "agent")
        /\ UNCHANGED <<conversation, overlapped, dangling>>
    BY <1>3 DEF CacheMiss, Running, Node, history
  <2>2. SetState(t, state[t])
    BY <1>3 DEF CacheMiss, SetState, TypeInv, TypeOK
  <2>3. QED
    BY <1>0, <2>1, <2>2, MoveKeepsHistory DEF Node, Ready
<1>4. CASE AgentReplies(t)
  <2>1. PICK kind \in IF state[t].noTools THEN {"text"} ELSE {"text", "tool_use"},
             streamed \in BOOLEAN :
          /\ SetState(t, [state[t] EXCEPT !.messages = Say(t, kind),
                                          !.answered = (kind = "text"), !.tries = 0])
          /\ Save(t, Say(t, kind))
          /\ Emit(t, streamed)
          /\ Goto(t, AfterAgent(t, kind))
    BY <1>4 DEF AgentReplies
  <2> DEFINE s == [state[t] EXCEPT !.messages = Say(t, kind),
                                   !.answered = (kind = "text"), !.tries = 0]
  <2>2. /\ pc[t] = "agent" /\ Running(t) /\ Acceptable(m)
        /\ UNCHANGED <<conversation, overlapped, dangling>>
    BY <1>4 DEF AgentReplies, Running, Node, history
  <2>3. kind \in Kind /\ (kind = "tool_use" => state[t].rounds < MaxRounds)
    BY <1>0, <2>1, <2>2, ChatTurnAssumption DEF TypeInv, RoundsInv, Kind, ChatState
  <2>4. /\ Say(t, kind) \in Seq(Message) /\ IsPrefix(m, Say(t, kind))
        /\ Ready(AfterAgent(t, kind), Say(t, kind))
    BY <2>2, <2>3, SayAppends, PrefixOfAppend, AppendAcceptable, AppendCall
    DEF TypeInv, Ready, AfterAgent
  <2>5. s \in ChatState /\ s.messages = Say(t, kind)
    <3>1. (kind = "text") \in BOOLEAN /\ 0 \in 0 .. Attempts - 1
      BY ChatTurnAssumption
    <3>2. s \in ChatState
      BY <1>0, <2>4, <3>1, FieldType, Zenon
    <3>3. QED
      BY <1>0, <3>2 DEF ChatState
  <2>6. AfterAgent(t, kind) \in Node
    BY DEF AfterAgent, Node
  <2> HIDE DEF s
  <2>7. SetState(t, s)
    BY <2>1 DEF s
  <2>8. QED
    BY <2>1, <2>2, <2>4, <2>5, <2>6, <2>7, MoveKeepsHistory
<1>5. CASE ToolAnswers(t)
  <2> DEFINE s == [state[t] EXCEPT !.messages = Say(t, "tool_result"),
                                   !.rounds = state[t].rounds + 1,
                                   !.noTools = BudgetSpent(state[t].rounds + 1)]
  <2>1. /\ Running(t) /\ pc[t] = "tool_node" /\ Save(t, Say(t, "tool_result"))
        /\ Goto(t, "agent") /\ SetState(t, s)
        /\ UNCHANGED <<conversation, overlapped, dangling>>
    BY <1>5 DEF ToolAnswers, Running, Node, history
  <2>2. /\ Say(t, "tool_result") \in Seq(Message) /\ IsPrefix(m, Say(t, "tool_result"))
        /\ Pending(m) => Acceptable(Say(t, "tool_result"))
    BY SayAppends, PrefixOfAppend, AppendResult DEF TypeInv, Kind
  <2>3. s \in ChatState /\ s.messages = Say(t, "tool_result")
    <3>1. state[t].rounds + 1 \in 0 .. MaxRounds /\ BudgetSpent(state[t].rounds + 1) \in BOOLEAN
      BY <1>0, <2>1, ChatTurnAssumption DEF TypeInv, RoundsInv, ChatState, BudgetSpent
    <3>2. s \in ChatState
      BY <1>0, <2>2, <3>1, FieldType, Zenon
    <3>3. QED
      BY <1>0, <3>2 DEF ChatState
  <2> HIDE DEF s
  <2>4. QED
    BY <2>1, <2>2, <2>3, MoveKeepsHistory DEF Node, Ready
<1>6. QED
  BY <1>1, <1>2, <1>3, <1>4, <1>5 DEF Proceed

LEMMA BreakKeepsHistory ==
  ASSUME TypeInv, HistoryInv, NEW t \in Turns, Break(t)
  PROVE  HistoryInv' /\ Grows
<1> DEFINE m == state[t].messages
<1>1. CASE CacheFails(t) \/ ToolFails(t) \/ ValidateFails(t) \/ Disconnect(t)
  <2>1. /\ Running(t) /\ \E place \in Ended : End(t, place)
        /\ UNCHANGED <<checkpoint, conversation, overlapped>> /\ dangling \subseteq dangling'
        /\ pc[t] = "tool_node" => conversation[t] \in dangling'
    BY <1>1 DEF CacheFails, ToolFails, ValidateFails, Disconnect, Fail, Running, Node, Ended, history
  <2>2. QED
    BY <2>1, EndKeepsHistory
<1>2. CASE AgentFails(t)
  <2>1. /\ Running(t) /\ pc[t] = "agent" /\ UNCHANGED <<overlapped, dangling>>
    BY <1>2 DEF AgentFails, Running, Node, history
  <2>2. CASE Fail(t)
    BY <2>1, <2>2, EndKeepsHistory DEF Fail, Ended
  <2>3. CASE /\ SetState(t, [state[t] EXCEPT !.tries = @ + 1])
             /\ UNCHANGED <<checkpoint, conversation, pc>>
             /\ state[t].tries + 1 < Attempts
    <3> DEFINE s == [state[t] EXCEPT !.tries = state[t].tries + 1]
    <3>1. state[t] \in ChatState /\ m \in Seq(Message) /\ IsPrefix(m, m)
      BY PrefixOfItself DEF TypeInv, TypeOK, ChatState
    <3>2. s \in ChatState /\ s.messages = m
      <4>1. state[t].tries + 1 \in 0 .. Attempts - 1
        BY <2>3, <3>1, ChatTurnAssumption DEF ChatState
      <4>2. s \in ChatState
        BY <3>1, <4>1, FieldType
      <4>3. QED
        BY <3>1, <4>2 DEF ChatState
    <3>3. SetState(t, s) /\ Goto(t, "agent")
      BY <2>1, <2>3 DEF Goto, TypeInv, TypeOK
    <3> HIDE DEF s
    <3>4. QED
      BY <2>1, <2>3, <3>1, <3>2, <3>3, MoveKeepsHistory DEF Node
  <2>4. QED
    BY <1>2, <2>2, <2>3 DEF AgentFails, MayRetry
<1>3. QED
  BY <1>1, <1>2 DEF Break

LEMMA HistoryStep == TypeInv /\ HistoryInv /\ [Next]_vars => HistoryInv' /\ Grows
<1> SUFFICES ASSUME TypeInv, HistoryInv, [Next]_vars PROVE HistoryInv' /\ Grows
  OBVIOUS
<1>1. CASE Crash
  <2>1. \A t \in Turns : ~ Running(t)' /\ pc'[t] # "tool_node"
    BY <1>1 DEF Crash, Running, Node
  <2>2. \A c \in Conversations : checkpoint'[c] = <<>>
    BY <1>1 DEF Crash
  <2>3. restarts' # restarts
    BY <1>1 DEF Crash, TypeInv, TypeOK
  <2>4. QED
    BY <2>1, <2>2, <2>3, EmptyAcceptable DEF HistoryInv, SavedInv, CallsInv, Grows
<1>2. CASE UNCHANGED vars
  BY <1>2, Unchanged DEF vars, history, HistoryInv, SavedInv, CallsInv, Running
<1>3. QED
  BY <1>1, <1>2, BeginKeepsHistory, ProceedKeepsHistory, BreakKeepsHistory DEF Next

LEMMA HistoryInit == Init => HistoryInv
BY EmptyAcceptable DEF Init, HistoryInv, SavedInv, CallsInv, Running, Node

LEMMA HistoryInvariant == Spec => [](TypeInv /\ HistoryInv)
BY TypeInit, TypeStep, HistoryInit, HistoryStep, PTL DEF Spec

(* Only a turn cut short in tool_node and turns that overlap leave a       *)
(* conversation at rest with a tool call that has no result: no retry in   *)
(* agent, no error of another node and no cap on tool rounds does.         *)
THEOREM HistoriesAcceptable == Spec => []HistoryAcceptable
<1>1. HistoryInv => HistoryAcceptable
  BY DEF HistoryInv, CallsInv, HistoryAcceptable, AtRest, Running, Node
<1>2. QED
  BY <1>1, HistoryInvariant, PTL

(* Each step of a turn extends the checkpoint of its conversation while    *)
(* the turns of the conversation come one at a time, as graph.astream and  *)
(* the reducer of ChatState.messages intend.                               *)
THEOREM NothingIsForgotten == Spec => NothingForgotten
<1>1. TypeInv /\ HistoryInv /\ [Next]_vars
      => [\A c \in Conversations \ overlapped' :
            restarts' = restarts => IsPrefix(checkpoint[c], checkpoint'[c])]_vars
  BY HistoryStep DEF Grows
<1>2. QED
  BY <1>1, HistoryInvariant, PTL DEF Spec, NothingForgotten

-----------------------------------------------------------------------------
(* Answers and tokens.                                                     *)

(* The replies a turn has streamed are of the rounds it is done with, and  *)
(* of one attempt each.                                                    *)
StreamInv ==
  \A t \in Turns :
    /\ pc[t] \in {"idle", "maybe_serve_from_cache"} => tokens[t] = {}
    /\ pc[t] = "agent" => \A a \in tokens[t] : a[1] < state[t].rounds
    /\ pc[t] = "tool_node" => \A a \in tokens[t] : a[1] <= state[t].rounds
    /\ \A a, b \in tokens[t] : a[1] = b[1] => a = b

(* A reply that streams tokens adds one pair, of the current round.        *)
LEMMA EmitAdds ==
  ASSUME TypeOK, NEW t \in Turns, NEW streamed \in BOOLEAN, Emit(t, streamed)
  PROVE  /\ \A u \in Turns : u # t => tokens'[u] = tokens[u]
         /\ ~ streamed => tokens'[t] = tokens[t]
         /\ streamed => tokens'[t] = tokens[t] \cup {<<state[t].rounds, state[t].tries>>}
BY DEF TypeOK, Emit

(* A turn's place, state and tokens are its own.                           *)
LEMMA TurnsApart ==
  ASSUME TypeOK, NEW t \in Turns, NEW u \in Turns, u # t,
         Proceed(u) \/ Break(u) \/ \E c \in Conversations : Begin(u, c)
  PROVE  pc'[t] = pc[t] /\ state'[t] = state[t] /\ tokens'[t] = tokens[t]
<1> USE DEF Fail, End, Goto, SetState
<1>1. pc'[t] = pc[t] /\ state'[t] = state[t]
  BY DEF TypeOK, Proceed, Break, Begin, CacheHit, CacheMiss, CacheFails, AgentReplies, AgentRefused,
    AgentFails, ToolAnswers, ToolFails, ValidateAndStore, ValidateFails, Disconnect
<1>2. tokens'[t] = tokens[t]
  BY DEF TypeOK, Emit, Proceed, Break, Begin, CacheHit, CacheMiss, CacheFails, AgentReplies,
    AgentRefused, AgentFails, ToolAnswers, ToolFails, ValidateAndStore, ValidateFails, Disconnect
<1>3. QED
  BY <1>1, <1>2

LEMMA AnswerStep == TypeInv /\ ValidatedTurnsAnswer /\ [Next]_vars => ValidatedTurnsAnswer'
<1> SUFFICES ASSUME TypeInv, ValidatedTurnsAnswer, [Next]_vars,
                    NEW t \in Turns, pc'[t] = "validate_and_store"
             PROVE  (state[t].answered /\ Last(state[t].messages) = [turn |-> t, kind |-> "text"])'
  BY DEF ValidatedTurnsAnswer
<1>1. CASE pc'[t] = pc[t] /\ state'[t] = state[t]
  BY <1>1 DEF ValidatedTurnsAnswer
<1>2. CASE AgentReplies(t)
  <2>1. PICK kind \in IF state[t].noTools THEN {"text"} ELSE {"text", "tool_use"} :
          /\ SetState(t, [state[t] EXCEPT !.messages = Say(t, kind),
                                          !.answered = (kind = "text"), !.tries = 0])
          /\ Goto(t, AfterAgent(t, kind))
    BY <1>2 DEF AgentReplies
  <2>2. pc[t] = "agent" /\ state[t] \in ChatState
    BY <1>2 DEF AgentReplies, TypeInv, TypeOK
  <2>3. kind = "tool_use" => state[t].rounds < MaxRounds
    BY <2>1, <2>2, ChatTurnAssumption DEF TypeInv, RoundsInv, ChatState, Running, Node
  <2>4. kind = "text"
    BY <2>1, <2>3 DEF Goto, AfterAgent, TypeInv, TypeOK
  <2>5. state'[t].messages = Say(t, "text") /\ state'[t].answered
    BY <2>1, <2>2, <2>4 DEF SetState, TypeInv, TypeOK, ChatState
  <2>6. QED
    BY <2>5, SayAppends DEF TypeInv, Kind
<1>3. (pc'[t] = pc[t] /\ state'[t] = state[t]) \/ AgentReplies(t)
  <2>1. ASSUME NEW u \in Turns, u # t, Proceed(u) \/ Break(u) \/ \E c \in Conversations : Begin(u, c)
        PROVE  pc'[t] = pc[t] /\ state'[t] = state[t]
    BY <2>1, TurnsApart DEF TypeInv
  <2>2. CASE Proceed(t)
    BY <2>2 DEF TypeInv, TypeOK, Proceed, CacheHit, CacheMiss, AgentRefused, ToolAnswers,
      ValidateAndStore, Fail, End, Goto
  <2>3. CASE Break(t)
    BY <2>3 DEF TypeInv, TypeOK, Break, CacheFails, AgentFails, ToolFails, ValidateFails,
      Disconnect, Fail, End, Goto, Ended
  <2>4. CASE \E c \in Conversations : Begin(t, c)
    BY <2>4 DEF TypeInv, TypeOK, Begin, Goto
  <2>5. CASE Crash
    BY <2>5 DEF Crash, Running, Node
  <2>6. QED
    BY <2>1, <2>2, <2>3, <2>4, <2>5 DEF Next, vars
<1>4. QED
  BY <1>1, <1>2, <1>3

(* A turn that reaches validate_and_store has an answer of its own as its  *)
(* last message: after the cap on tool rounds, agent declares no tools.    *)
THEOREM ValidatedTurnsHaveAnswers == Spec => []ValidatedTurnsAnswer
<1>1. Init => ValidatedTurnsAnswer
  BY DEF Init, ValidatedTurnsAnswer
<1>2. QED
  BY <1>1, AnswerStep, TypeInvariant, PTL DEF Spec

LEMMA StreamStep == TypeInv /\ StreamInv /\ [Next]_vars => StreamInv'
<1> DEFINE Inv(t) ==
      /\ pc[t] \in {"idle", "maybe_serve_from_cache"} => tokens[t] = {}
      /\ pc[t] = "agent" => \A a \in tokens[t] : a[1] < state[t].rounds
      /\ pc[t] = "tool_node" => \A a \in tokens[t] : a[1] <= state[t].rounds
      /\ \A a, b \in tokens[t] : a[1] = b[1] => a = b
<1> SUFFICES ASSUME TypeInv, StreamInv, [Next]_vars, NEW t \in Turns PROVE Inv(t)'
  BY DEF StreamInv
<1>0. /\ Inv(t) /\ tokens[t] \subseteq Replies /\ state[t] \in ChatState
      /\ state[t].rounds \in 0 .. MaxRounds
  BY DEF StreamInv, TypeInv, TypeOK, ChatState
<1>1. ASSUME pc'[t] \in {pc[t]} \cup Ended, state'[t] = state[t] \/ pc'[t] \in Ended,
             tokens'[t] = tokens[t]
      PROVE  Inv(t)'
  BY <1>0, <1>1 DEF Ended
<1>2. ASSUME Proceed(t) PROVE Inv(t)'
  <2>1. CASE CacheHit(t)
    <3>1. pc[t] = "maybe_serve_from_cache" /\ pc'[t] = "done"
          /\ tokens'[t] = tokens[t] \cup {<<state[t].rounds, state[t].tries>>}
      BY <2>1, EmitAdds DEF CacheHit, End, Goto, TypeInv, TypeOK
    <3>2. QED
      BY <1>0, <3>1
  <2>2. CASE CacheMiss(t)
    BY <1>0, <2>2 DEF CacheMiss, Goto, TypeInv, TypeOK
  <2>3. CASE AgentReplies(t)
    <3>1. PICK kind \in Kind, streamed \in BOOLEAN :
            /\ SetState(t, [state[t] EXCEPT !.messages = Say(t, kind),
                                            !.answered = (kind = "text"), !.tries = 0])
            /\ Emit(t, streamed)
            /\ Goto(t, AfterAgent(t, kind))
      BY <2>3 DEF AgentReplies, Kind
    <3>2. pc[t] = "agent" /\ pc'[t] \in {"tool_node", "validate_and_store"}
      BY <2>3, <3>1 DEF AgentReplies, Goto, AfterAgent, TypeInv, TypeOK
    <3>3. state'[t].rounds = state[t].rounds
      BY <1>0, <3>1 DEF SetState, TypeInv, TypeOK, ChatState
    <3>4. \A a \in tokens'[t] :
            a \in tokens[t] \/ a = <<state[t].rounds, state[t].tries>>
      BY <3>1, EmitAdds DEF TypeInv
    <3>5. \A a \in tokens[t] : a[1] \in Int /\ a[1] < state[t].rounds
      BY <1>0, <3>2 DEF Replies
    <3>6. \A a \in tokens'[t] : a[1] <= state[t].rounds
      BY <1>0, <3>4, <3>5
    <3>7. \A a, b \in tokens'[t] : a[1] = b[1] => a = b
      BY <1>0, <3>4, <3>5
    <3>8. QED
      BY <3>2, <3>3, <3>6, <3>7
  <2>4. CASE AgentRefused(t)
    <3>1. pc'[t] \in Ended /\ tokens'[t] = tokens[t]
      BY <2>4 DEF AgentRefused, Fail, End, Goto, Ended, TypeInv, TypeOK
    <3>2. QED
      BY <1>1, <3>1
  <2>5. CASE ToolAnswers(t)
    <3>1. pc[t] = "tool_node" /\ pc'[t] = "agent" /\ tokens'[t] = tokens[t]
      BY <2>5 DEF ToolAnswers, Goto, TypeInv, TypeOK
    <3>2. state'[t].rounds = state[t].rounds + 1
      <4>1. SetState(t, [state[t] EXCEPT !.messages = Say(t, "tool_result"),
                                         !.rounds = state[t].rounds + 1,
                                         !.noTools = BudgetSpent(state[t].rounds + 1)])
        BY <2>5 DEF ToolAnswers
      <4>2. QED
        BY <1>0, <4>1 DEF SetState, TypeInv, TypeOK, ChatState
    <3>3. \A a \in tokens[t] : a[1] \in Int /\ a[1] < state[t].rounds + 1
      BY <1>0, <3>1 DEF Replies
    <3>4. QED
      BY <1>0, <3>1, <3>2, <3>3
  <2>6. CASE ValidateAndStore(t)
    <3>1. pc'[t] \in Ended /\ tokens'[t] = tokens[t]
      BY <2>6 DEF ValidateAndStore, End, Goto, Ended, TypeInv, TypeOK
    <3>2. QED
      BY <1>1, <3>1
  <2>7. QED
    BY <1>2, <2>1, <2>2, <2>3, <2>4, <2>5, <2>6 DEF Proceed
<1>3. ASSUME Break(t) PROVE Inv(t)'
  <2>1. CASE CacheFails(t) \/ ToolFails(t) \/ ValidateFails(t) \/ Disconnect(t)
    <3>1. pc'[t] \in Ended /\ tokens'[t] = tokens[t]
      BY <2>1 DEF CacheFails, ToolFails, ValidateFails, Disconnect, Fail, End, Goto, Ended, TypeInv, TypeOK
    <3>2. QED
      BY <1>1, <3>1
  <2>2. CASE AgentFails(t)
    <3>1. PICK streamed \in BOOLEAN :
            \/ /\ ~ streamed /\ Emit(t, streamed) /\ UNCHANGED pc
               /\ SetState(t, [state[t] EXCEPT !.tries = @ + 1])
            \/ Emit(t, streamed) /\ Fail(t)
      BY <2>2 DEF AgentFails, MayRetry
    <3>2. pc[t] = "agent"
      BY <2>2 DEF AgentFails
    <3>3. CASE /\ ~ streamed /\ Emit(t, streamed) /\ UNCHANGED pc
               /\ SetState(t, [state[t] EXCEPT !.tries = @ + 1])
      <4>1. state'[t].rounds = state[t].rounds /\ tokens'[t] = tokens[t] /\ pc'[t] = "agent"
        BY <1>0, <3>2, <3>3, EmitAdds DEF SetState, TypeInv, TypeOK, ChatState
      <4>2. QED
        BY <1>0, <3>2, <4>1
    <3>4. CASE Emit(t, streamed) /\ Fail(t)
      <4>1. pc'[t] = "failed"
        BY <3>4 DEF Fail, End, Goto, TypeInv, TypeOK
      <4>2. \A a \in tokens'[t] :
              a \in tokens[t] \/ a = <<state[t].rounds, state[t].tries>>
        BY <3>4, EmitAdds DEF TypeInv
      <4>3. QED
        BY <1>0, <3>2, <4>1, <4>2
    <3>5. QED
      BY <3>1, <3>3, <3>4
  <2>3. QED
    BY <1>3, <2>1, <2>2 DEF Break
<1>4. ASSUME NEW c \in Conversations, Begin(t, c) PROVE Inv(t)'
  BY <1>0, <1>4 DEF Begin, Goto, TypeInv, TypeOK
<1>5. ASSUME NEW u \in Turns, u # t, Proceed(u) \/ Break(u) \/ \E c \in Conversations : Begin(u, c)
      PROVE  Inv(t)'
  BY <1>1, <1>5, TurnsApart DEF TypeInv
<1>6. CASE Crash
  <2>1. tokens'[t] = tokens[t] /\ ((pc'[t] = pc[t] /\ pc[t] \notin Node) \/ pc'[t] \in Ended)
    BY <1>6 DEF Crash, Running, Ended
  <2>2. QED
    BY <1>0, <2>1 DEF Node, Ended
<1>7. CASE UNCHANGED vars
  BY <1>1, <1>7 DEF vars
<1>8. QED
  BY <1>2, <1>3, <1>4, <1>5, <1>6, <1>7 DEF Next

(* A client never reads two beginnings of one reply: agent does not retry  *)
(* a call whose tokens have reached it.                                    *)
THEOREM OneAttemptIsStreamed == Spec => []OneAttemptStreamed
<1>1. Init => StreamInv
  BY DEF Init, StreamInv
<1>2. StreamInv => OneAttemptStreamed
  BY DEF StreamInv, OneAttemptStreamed
<1>3. QED
  BY <1>1, <1>2, StreamStep, TypeInvariant, PTL DEF Spec
=============================================================================
