-------------------------- MODULE AgentLoop_proofs --------------------------
(***************************************************************************)
(* Proofs about AgentLoop, for any number of runs, answers, calls and      *)
(* callers' messages: its types, that no tool runs before every call of    *)
(* its batch went through its gate, and that what the agent says of itself *)
(* matches its run. LoopInv says where the locals of the run can be at     *)
(* each await and TasksInv whose the tool tasks are; the lemmas named      *)
(* ...Moves say once what each action does, field by field, and are what   *)
(* the proofs about AgentLoop use in place of its definitions.             *)
(***************************************************************************)
EXTENDS AgentLoop, SequenceTheorems, TLAPS

\* Where the run has an answer in hand, where it handles the answer's calls,
\* and where the messages that open a turn are on their way.
Handling == {"tool_start", "executing", "tool_end", "join", "result_start", "result_end"}
WithAnswer == Handling \cup {"answered", "last_turn", "turn_end", "agent_end"}
Opening == {"agent_start", "turn_start", "polled", "inject", "injected"}
Places == Raising \cup Failing \cup {"idle", "polled", "join"}

OutcomeRecord == [kind : {"immediate", "executed", "runner"}, terminate : BOOLEAN]
BatchRecord == [answer : AnswerMessages \cup {NoMessage},
                mode : {"none", "sequential", "parallel", "truncated"},
                outcomes : Seq(OutcomeRecord), results : Seq(ResultMessages)]
LoopRecord == [pc : Places, prompts : BOOLEAN, skip : BOOLEAN, inject : Seq(UserMessages),
               context : Seq(Messages), new : Seq(Messages), first : Nat,
               batch : BatchRecord]
AgentState == [messages : Seq(Messages), is_streaming : BOOLEAN,
               streaming_message : BOOLEAN, pending_tool_calls : SUBSET Calls,
               error_message : BOOLEAN]

SteerMessages == [role : {"user"}, id : Steers]
FollowUpMessages == [role : {"user"}, id : FollowUps]

TaskStates == {"running", "ending", "done", "terminating", "raised"}

Types ==
  /\ state \in AgentState
  /\ steering \in Seq(SteerMessages) /\ followUps \in Seq(FollowUpMessages)
  /\ active \in BOOLEAN /\ aborted \in BOOLEAN
  /\ active = (loop.pc # "idle")
  /\ runs \in Nat /\ answers \in Nat
  /\ loop \in LoopRecord
  /\ DOMAIN tasks \subseteq Calls
  /\ \A c \in DOMAIN tasks : tasks[c] \in TaskStates

\* The messages to inject, and when they are prompts.
Shape ==
  /\ loop.pc \in {"inject", "injected"} => loop.inject # <<>>
  /\ loop.pc \notin Opening => loop.inject = <<>>
  /\ loop.prompts => loop.pc \in Opening \ {"polled"}
  /\ loop.pc = "agent_start" => loop.prompts
  /\ loop.pc = "streaming" => loop.context # <<>>

Results == Batch.results

\* How far the batch of calls has come, with one result after the other.
BatchInv ==
  /\ loop.pc \notin WithAnswer => loop.batch = NoBatch
  /\ loop.pc \in WithAnswer =>
       /\ Answer \in AnswerMessages /\ Answer.stop # "partial"
       /\ Answer.id \in 1..answers
       /\ Answer.calls > 0 => Answer.id <= MaxAsking
  /\ loop.pc \in {"answered", "last_turn"} =>
       Batch.mode = "none" /\ Batch.outcomes = <<>> /\ Results = <<>>
  /\ loop.pc \in Handling =>
       /\ Answer.stop # "error" /\ Batch.mode # "none"
       /\ Prepared <= Answer.calls /\ Len(Results) <= Prepared
       /\ \A k \in 1..Len(Results) : Results[k] = ToolResult(Call(k))
       /\ Batch.mode = "parallel" =>
            /\ loop.pc \in {"tool_start", "tool_end", "join"} => Results = <<>>
            /\ loop.pc \in {"join", "result_start", "result_end"} /\ ~aborted =>
                 Prepared = Answer.calls
       /\ Batch.mode # "parallel" =>
            /\ loop.pc \in {"tool_start", "executing", "result_end"} => Len(Results) = Prepared
            /\ loop.pc \in {"tool_end", "result_start"} => Len(Results) + 1 = Prepared
  /\ loop.pc \in {"tool_start", "executing"} => Prepared < Answer.calls
  /\ loop.pc = "executing" => Batch.mode = "sequential"
  /\ loop.pc \in {"tool_end", "join", "result_start"} => Len(Results) < Prepared
  /\ loop.pc = "join" => Batch.mode = "parallel"
  /\ \A i \in Runners(loop) :
       Batch.mode = "parallel" /\ loop.pc \in {"tool_start", "tool_end", "join"}

LoopInv == Types /\ Shape /\ BatchInv

-----------------------------------------------------------------------------
(* What the events of a run do to the state.                               *)

\* The state after an event has this transcript and these pending calls.
Becomes(messages, pending) ==
  /\ state' \in AgentState
  /\ state'.messages = messages
  /\ state'.pending_tool_calls = pending

\* The run goes on at pc, with its locals as in l.
Moves(l, pc) ==
  /\ loop' \in LoopRecord
  /\ loop'.pc = pc
  /\ loop'.prompts = l.prompts /\ loop'.skip = l.skip /\ loop'.inject = l.inject
  /\ loop'.context = l.context /\ loop'.new = l.new /\ loop'.first = l.first
  /\ loop'.batch = l.batch

LEMMA MovesTo ==
  ASSUME NEW l \in LoopRecord, NEW pc \in Places, loop' = [l EXCEPT !.pc = pc]
  PROVE  Moves(l, pc)
  BY DEF Moves, LoopRecord

LEMMA EmitMoves ==
  ASSUME NEW l \in LoopRecord, NEW pc \in Places, NEW e, Emit(e, l, pc)
  PROVE  Moves(l, pc)
  BY MovesTo DEF Emit

LEMMA BracketEvents ==
  ASSUME state \in AgentState, NEW e, state' = Reduce(state, e),
         e \in {AgentStart, TurnStart, AgentEnd} \/ \E m \in Messages : e \in {MessageStart(m)}
  PROVE  Becomes(state.messages, state.pending_tool_calls)
<1>1. CASE e \in {AgentStart, TurnStart}
  <2>1. e.type \in {"agent_start", "turn_start"}
    BY <1>1 DEF AgentStart, TurnStart
  <2> QED  BY <2>1 DEF Reduce, Becomes
<1>2. CASE e = AgentEnd
  <2>1. e.type = "agent_end"
    BY <1>2 DEF AgentEnd
  <2> QED  BY <2>1 DEF Reduce, Becomes, AgentState
<1>3. ASSUME NEW m \in Messages, e = MessageStart(m)
      PROVE  Becomes(state.messages, state.pending_tool_calls)
  <2>1. e.type = "message_start"
    BY <1>3 DEF MessageStart
  <2> QED  BY <2>1 DEF Reduce, Becomes, AgentState
<1> QED  BY <1>1, <1>2, <1>3

LEMMA MessageEndEvent ==
  ASSUME state \in AgentState, NEW m \in Messages, state' = Reduce(state, MessageEnd(m))
  PROVE  Becomes(Append(state.messages, m), state.pending_tool_calls)
<1>1. MessageEnd(m).type = "message_end" /\ MessageEnd(m).message = m
  BY DEF MessageEnd
<1>2. state.messages \in Seq(Messages)
  BY DEF AgentState
<1>3. Append(state.messages, m) \in Seq(Messages)
  BY <1>2, AppendProperties
<1> QED  BY <1>1, <1>3 DEF Reduce, Becomes, AgentState

LEMMA TurnEndEvent ==
  ASSUME state \in AgentState, NEW m \in AnswerMessages, state' = Reduce(state, TurnEnd(m))
  PROVE  Becomes(state.messages, state.pending_tool_calls)
<1>1. TurnEnd(m).type = "turn_end" /\ TurnEnd(m).message = m
  BY DEF TurnEnd
<1>2. (state.error_message \/ m.stop = "error") \in BOOLEAN
  OBVIOUS
<1> QED  BY <1>1, <1>2 DEF Reduce, Becomes, AgentState

LEMMA ToolEvents ==
  ASSUME state \in AgentState, NEW c \in Calls
  PROVE  /\ state' = Reduce(state, ToolStart(c)) =>
              Becomes(state.messages, state.pending_tool_calls \cup {c})
         /\ state' = Reduce(state, ToolEnd(c)) =>
              /\ Becomes(state.messages, state.pending_tool_calls \ {c})
              /\ state'.is_streaming = state.is_streaming
              /\ state'.streaming_message = state.streaming_message
<1>1. ToolStart(c).type = "tool_execution_start" /\ ToolStart(c).call = c
  BY DEF ToolStart
<1>2. ToolEnd(c).type = "tool_execution_end" /\ ToolEnd(c).call = c
  BY DEF ToolEnd
<1> QED  BY <1>1, <1>2 DEF Reduce, Becomes, AgentState

-----------------------------------------------------------------------------
(* The locals of the run as its actions change them.                       *)

\* m has the locals of the run but for those named.
SameBut(m, fields) ==
  /\ m \in LoopRecord
  /\ "prompts" \notin fields => m.prompts = loop.prompts
  /\ "skip" \notin fields => m.skip = loop.skip
  /\ "inject" \notin fields => m.inject = loop.inject
  /\ "context" \notin fields => m.context = loop.context
  /\ "new" \notin fields => m.new = loop.new
  /\ "first" \notin fields => m.first = loop.first
  /\ "batch" \notin fields => m.batch = loop.batch

LEMMA LoopFields ==
  ASSUME loop \in LoopRecord
  PROVE  /\ loop.pc \in Places /\ loop.prompts \in BOOLEAN /\ loop.skip \in BOOLEAN
         /\ loop.inject \in Seq(UserMessages) /\ loop.context \in Seq(Messages)
         /\ loop.new \in Seq(Messages) /\ loop.first \in Nat /\ loop.batch \in BatchRecord
  BY DEF LoopRecord

LEMMA BatchFields ==
  ASSUME loop \in LoopRecord
  PROVE  /\ Answer \in AnswerMessages \cup {NoMessage}
         /\ Batch.mode \in {"none", "sequential", "parallel", "truncated"}
         /\ Batch.outcomes \in Seq(OutcomeRecord) /\ Results \in Seq(ResultMessages)
         /\ Prepared \in Nat /\ Len(Results) \in Nat
<1>1. loop.batch \in BatchRecord
  BY LoopFields
<1>2. Batch.outcomes \in Seq(OutcomeRecord) /\ Results \in Seq(ResultMessages)
  BY <1>1 DEF BatchRecord, Batch, Results
<1>3. Prepared \in Nat /\ Len(Results) \in Nat
  BY <1>2, LenProperties DEF Prepared
<1> QED  BY <1>1, <1>2, <1>3 DEF BatchRecord, Batch, Answer

LEMMA MessageKinds ==
  /\ UserMessages \subseteq Messages /\ ResultMessages \subseteq Messages
  /\ AnswerMessages \subseteq Messages
  /\ \A m \in UserMessages : m.role = "user"
  /\ \A m \in ResultMessages : m.role = "toolResult"
  /\ \A m \in AnswerMessages : m.role = "assistant"
  /\ NoMessage \notin Messages
<1>1. NoMessage.role = "none"
  BY DEF NoMessage
<1>2. \A m \in Messages : m.role \in {"user", "toolResult", "assistant"}
  BY DEF Messages, UserMessages, ResultMessages, AnswerMessages
<1> QED  BY <1>1, <1>2 DEF Messages, UserMessages, ResultMessages, AnswerMessages

\* What the run holds once the message in its hands, if any, has arrived.
LEMMA InjectedIs ==
  ASSUME Types, Shape
  PROVE  /\ SameBut(Injected, {"inject", "context", "new"})
         /\ ~At("injected") => Injected = loop
         /\ At("injected") =>
              /\ Head(loop.inject) \in UserMessages
              /\ Injected.inject = Tail(loop.inject)
              /\ Injected.context = IF loop.prompts THEN loop.context
                                    ELSE Append(loop.context, Head(loop.inject))
              /\ Injected.new = IF loop.prompts THEN loop.new
                                ELSE Append(loop.new, Head(loop.inject))
<1>0. loop \in LoopRecord
  BY DEF Types
<1>1. CASE ~At("injected")
  <2>1. Injected = loop
    BY <1>1 DEF Injected
  <2> QED  BY <1>0, <1>1, <2>1 DEF SameBut
<1>2. CASE At("injected")
  <2>1. loop.inject # <<>>
    BY <1>2 DEF Shape, At
  <2>2. Head(loop.inject) \in UserMessages /\ Tail(loop.inject) \in Seq(UserMessages)
    BY <1>0, <2>1, LoopFields, HeadTailProperties
  <2>3. /\ Append(loop.context, Head(loop.inject)) \in Seq(Messages)
        /\ Append(loop.new, Head(loop.inject)) \in Seq(Messages)
    BY <1>0, <2>2, LoopFields, MessageKinds, AppendProperties
  <2>4. Injected = [loop EXCEPT !.inject = Tail(loop.inject),
          !.context = IF loop.prompts THEN loop.context
                      ELSE Append(loop.context, Head(loop.inject)),
          !.new = IF loop.prompts THEN loop.new ELSE Append(loop.new, Head(loop.inject))]
    BY <1>2 DEF Injected
  <2>5. SameBut(Injected, {"inject", "context", "new"})
    BY <1>0, <2>2, <2>3, <2>4 DEF SameBut, LoopRecord
  <2> QED  BY <1>0, <1>2, <2>2, <2>4, <2>5 DEF LoopRecord
<1> QED  BY <1>1, <1>2

LEMMA AnsweredIs ==
  ASSUME loop \in LoopRecord, Answer \in AnswerMessages
  PROVE  SameBut(Answered, {"new"}) /\ Answered.new = Append(loop.new, Answer)
<1>1. Append(loop.new, Answer) \in Seq(Messages)
  BY LoopFields, MessageKinds, AppendProperties
<1> QED  BY <1>1 DEF Answered, SameBut, LoopRecord

LEMMA WithOutcome ==
  ASSUME loop \in LoopRecord, NEW o \in OutcomeRecord
  PROVE  /\ SameBut(AddOutcome(o), {"batch"})
         /\ AddOutcome(o).batch = [loop.batch EXCEPT !.outcomes = Append(Batch.outcomes, o)]
         /\ AddOutcome(o).batch \in BatchRecord
<1>1. Append(Batch.outcomes, o) \in Seq(OutcomeRecord)
  BY BatchFields, AppendProperties
<1>2. loop.batch \in BatchRecord
  BY LoopFields
<1>3. [loop.batch EXCEPT !.outcomes = Append(Batch.outcomes, o)] \in BatchRecord
  BY <1>1, <1>2 DEF BatchRecord
<1>4. AddOutcome(o) =
        [loop EXCEPT !.batch = [loop.batch EXCEPT !.outcomes = Append(Batch.outcomes, o)]]
  BY DEF AddOutcome, Batch
<1> QED  BY <1>3, <1>4 DEF SameBut, LoopRecord

LEMMA CallTyped ==
  ASSUME LoopInv, loop.pc \in Handling \cup {"answered"}, NEW i \in 1..Answer.calls
  PROVE  Call(i) \in Calls /\ ToolResult(Call(i)) \in ResultMessages
<1>1. /\ Answer \in AnswerMessages /\ Answer.id \in 1..answers /\ answers \in Nat
      /\ Answer.calls > 0 => Answer.id <= MaxAsking
  BY DEF LoopInv, BatchInv, WithAnswer, Types
<1>2. Answer.calls \in 0..MaxCalls /\ MaxAsking \in Nat /\ MaxCalls \in Nat
  BY <1>1, LoopAssumption DEF AnswerMessages
<1>3. Answer.id \in 1..MaxAsking /\ i \in 1..MaxCalls
  BY <1>1, <1>2
<1>4. Call(i) \in Calls
  BY <1>3 DEF Call, Calls
<1> QED  BY <1>4 DEF ToolResult, ResultMessages

-----------------------------------------------------------------------------
(* What each action does, field by field.                                  *)

\* No message arrives in the transcript and no call starts or ends.
NothingSaid == Becomes(state.messages, state.pending_tool_calls)

Arrives(m) == Becomes(Append(state.messages, m), state.pending_tool_calls)

RunOnly == QueuesKept /\ UNCHANGED <<mode, tasks, answers>>

LEMMA OpeningMoves ==
  ASSUME LoopInv
  PROVE  /\ FirstTurn =>
              At("agent_start") /\ Moves(loop, "turn_start") /\ NothingSaid /\ RunOnly
         /\ StartInjecting =>
              /\ CanInject /\ Injected.inject # <<>>
              /\ Head(Injected.inject) \in UserMessages
              /\ Moves(Injected, "inject") /\ NothingSaid /\ RunOnly
         /\ EndInjecting =>
              /\ At("inject") /\ Head(loop.inject) \in UserMessages
              /\ Moves(loop, "injected") /\ Arrives(Head(loop.inject)) /\ RunOnly
         /\ Request =>
              /\ CanInject /\ Injected.inject = <<>> /\ ~loop.prompts
              /\ Moves(Injected, "request") /\ NothingSaid /\ RunOnly
<1>0. state \in AgentState /\ loop \in LoopRecord /\ Injected \in LoopRecord
  BY InjectedIs DEF LoopInv, Types, SameBut
<1>1. {"turn_start", "inject", "injected", "request"} \subseteq Places
  BY DEF Places, Raising
<1>2. ASSUME FirstTurn
      PROVE  At("agent_start") /\ Moves(loop, "turn_start") /\ NothingSaid /\ RunOnly
  BY <1>0, <1>1, <1>2, EmitMoves, BracketEvents
     DEF FirstTurn, Emit, Process, NothingSaid, RunOnly
<1>3. ASSUME StartInjecting
      PROVE  /\ CanInject /\ Injected.inject # <<>>
             /\ Head(Injected.inject) \in UserMessages
             /\ Moves(Injected, "inject") /\ NothingSaid /\ RunOnly
  <2>1. Injected.inject \in Seq(UserMessages) /\ Injected.inject # <<>>
    BY <1>0, <1>3 DEF LoopRecord, StartInjecting
  <2>2. Head(Injected.inject) \in UserMessages /\ Head(Injected.inject) \in Messages
    BY <2>1, HeadTailProperties, MessageKinds
  <2>3. NothingSaid
    BY <1>0, <1>3, <2>2, BracketEvents DEF StartInjecting, Emit, Process, NothingSaid
  <2> QED  BY <1>0, <1>1, <1>3, <2>2, <2>3, EmitMoves DEF StartInjecting, RunOnly, Emit,
     Process
<1>4. ASSUME EndInjecting
      PROVE  /\ At("inject") /\ Head(loop.inject) \in UserMessages
             /\ Moves(loop, "injected") /\ Arrives(Head(loop.inject)) /\ RunOnly
  <2>1. loop.inject \in Seq(UserMessages) /\ loop.inject # <<>>
    BY <1>0, <1>4, LoopFields DEF LoopInv, Shape, EndInjecting, At
  <2>2. Head(loop.inject) \in UserMessages /\ Head(loop.inject) \in Messages
    BY <2>1, HeadTailProperties, MessageKinds
  <2>3. Arrives(Head(loop.inject))
    BY <1>0, <1>4, <2>2, MessageEndEvent DEF EndInjecting, Emit, Process, Arrives
  <2> QED  BY <1>0, <1>1, <1>4, <2>2, <2>3, EmitMoves DEF EndInjecting, RunOnly, Emit,
     Process
<1>5. ASSUME Request
      PROVE  /\ CanInject /\ Injected.inject = <<>> /\ ~loop.prompts
             /\ Moves(Injected, "request") /\ NothingSaid /\ RunOnly
  <2>1. Moves(Injected, "request")
    BY <1>0, <1>1, <1>5, MovesTo DEF Request
  <2>2. NothingSaid /\ RunOnly
    BY <1>0, <1>5 DEF Request, agentVars, NothingSaid, Becomes, RunOnly, QueuesKept
  <2> QED  BY <1>5, <2>1, <2>2 DEF Request
<1> QED  BY <1>2, <1>3, <1>4, <1>5

\* Draining a queue takes messages from its front and leaves the others.
LEMMA DrainedIs ==
  ASSUME NEW S, NEW queue \in Seq(S)
  PROVE  /\ Drained(queue) \in Seq(S) /\ Left(queue) \in Seq(S)
         /\ Len(Drained(queue)) + Len(Left(queue)) = Len(queue)
         /\ \A i \in 1..Len(Drained(queue)) : Drained(queue)[i] = queue[i]
         /\ \A i \in 1..Len(Left(queue)) : Left(queue)[i] = queue[Len(Drained(queue)) + i]
         /\ mode # "all" => Len(Drained(queue)) <= 1
         /\ queue # <<>> => Drained(queue) # <<>>
<1>1. Len(queue) \in Nat
  BY LenProperties
<1>2. /\ Drained(queue) \in Seq(S) /\ Len(Drained(queue)) \in 0..Len(queue)
      /\ \A i \in 1..Len(Drained(queue)) : Drained(queue)[i] = queue[i]
      /\ mode # "all" => Len(Drained(queue)) <= 1
      /\ queue # <<>> => Drained(queue) # <<>>
  <2>1. CASE mode = "all" \/ queue = <<>>
    BY <1>1, <2>1, EmptySeq DEF Drained
  <2>2. CASE ~(mode = "all" \/ queue = <<>>)
    <3>1. Drained(queue) = <<Head(queue)>>
      BY <2>2 DEF Drained
    <3>2. Head(queue) \in S /\ Head(queue) = queue[1] /\ Len(queue) > 0
      BY <1>1, <2>2, HeadTailProperties, EmptySeq
    <3> QED  BY <1>1, <3>1, <3>2
  <2> QED  BY <2>1, <2>2
<1>3. \A i \in (Len(Drained(queue)) + 1)..Len(queue) : queue[i] \in S
  BY <1>1, <1>2, ElementOfSeq
<1>4. /\ Left(queue) \in Seq(S)
      /\ Len(Left(queue)) = Len(queue) - Len(Drained(queue))
      /\ \A i \in 1..(Len(queue) - Len(Drained(queue))) :
           Left(queue)[i] = queue[Len(Drained(queue)) + 1 + i - 1]
  <2> SUFFICES ASSUME NEW from, from = Len(Drained(queue)) + 1
               PROVE  /\ SubSeq(queue, from, Len(queue)) \in Seq(S)
                      /\ Len(SubSeq(queue, from, Len(queue))) = Len(queue) - Len(Drained(queue))
                      /\ \A i \in 1..(Len(queue) - Len(Drained(queue))) :
                           SubSeq(queue, from, Len(queue))[i]
                             = queue[Len(Drained(queue)) + 1 + i - 1]
    BY DEF Left
  <2>1. /\ from \in Int /\ Len(queue) \in Int
        /\ Len(queue) - from + 1 = Len(queue) - Len(Drained(queue))
    BY <1>1, <1>2
  <2>2. \A i \in from..Len(queue) : queue[i] \in S
    BY <1>3
  <2>3. /\ SubSeq(queue, from, Len(queue)) \in Seq(S)
        /\ Len(SubSeq(queue, from, Len(queue))) =
             IF from <= Len(queue) THEN Len(queue) - from + 1 ELSE 0
        /\ \A i \in 1..(Len(queue) - from + 1) :
             SubSeq(queue, from, Len(queue))[i] = queue[from + i - 1]
    BY <2>1, <2>2, SubSeqProperties
  <2> QED  BY <1>1, <1>2, <2>1, <2>3
<1> QED  BY <1>1, <1>2, <1>4

LEMMA SteersAreUsers ==
  /\ Seq(SteerMessages) \subseteq Seq(UserMessages)
  /\ Seq(FollowUpMessages) \subseteq Seq(UserMessages)
<1>1. SteerMessages \subseteq UserMessages /\ FollowUpMessages \subseteq UserMessages
  BY DEF SteerMessages, FollowUpMessages, UserMessages, Ids
<1> QED  BY <1>1, SeqMonotonic

LEMMA FirstPollMoves ==
  ASSUME LoopInv, FirstPoll
  PROVE  /\ CanInject /\ Injected.inject = <<>> /\ loop.prompts
         /\ loop' \in LoopRecord
         /\ loop'.pc = "polled" /\ ~loop'.prompts /\ ~loop'.skip
         /\ loop'.inject = IF loop.skip THEN <<>> ELSE Drained(steering)
         /\ loop'.context = Injected.context /\ loop'.new = Injected.new
         /\ loop'.first = loop.first /\ loop'.batch = loop.batch
         /\ steering' = IF loop.skip THEN steering ELSE Left(steering)
         /\ NothingSaid
         /\ UNCHANGED <<mode, state, followUps, active, aborted, runs, resets, view,
                        sent, steered, tasks, answers>>
<1>0. state \in AgentState /\ SameBut(Injected, {"inject", "context", "new"})
      /\ steering \in Seq(SteerMessages)
  BY InjectedIs DEF LoopInv, Types
<1> SUFFICES ASSUME NEW polled, polled = IF loop.skip THEN <<>> ELSE Drained(steering),
                    loop' = [Injected EXCEPT !.pc = "polled", !.prompts = FALSE,
                                             !.skip = FALSE, !.inject = polled]
             PROVE  /\ loop' \in LoopRecord
                    /\ loop'.pc = "polled" /\ ~loop'.prompts /\ ~loop'.skip
                    /\ loop'.inject = polled
                    /\ loop'.context = Injected.context /\ loop'.new = Injected.new
                    /\ loop'.first = loop.first /\ loop'.batch = loop.batch
                    /\ NothingSaid
  BY DEF FirstPoll
<1>1. polled \in Seq(UserMessages)
  BY <1>0, DrainedIs, SteersAreUsers, EmptySeq
<1>2. NothingSaid
  BY <1>0 DEF FirstPoll, NothingSaid, Becomes
<1> QED  BY <1>0, <1>1, <1>2 DEF SameBut, LoopRecord, Places

LEMMA StreamStartMoves ==
  ASSUME LoopInv, StreamStart
  PROVE  /\ At("request") /\ Partial \in AnswerMessages
         /\ loop' \in LoopRecord /\ loop'.pc = "streaming"
         /\ loop'.prompts = loop.prompts /\ loop'.skip = loop.skip
         /\ loop'.inject = loop.inject /\ loop'.new = loop.new
         /\ loop'.first = loop.first /\ loop'.batch = loop.batch
         /\ loop'.context = Append(loop.context, Partial)
         /\ NothingSaid /\ RunOnly
<1>0. state \in AgentState /\ loop \in LoopRecord /\ answers \in Nat
  BY DEF LoopInv, Types
<1>1. Partial \in AnswerMessages /\ Partial \in Messages
  BY <1>0, LoopAssumption DEF Partial, Assistant, AnswerMessages, Messages
<1>2. Append(loop.context, Partial) \in Seq(Messages)
  BY <1>0, <1>1, LoopFields, AppendProperties
<1>3. [loop EXCEPT !.context = Append(loop.context, Partial)] \in LoopRecord
  BY <1>0, <1>2 DEF LoopRecord
<1>4. Moves([loop EXCEPT !.context = Append(loop.context, Partial)], "streaming")
  <2>1. Emit(MessageStart(Partial), [loop EXCEPT !.context = Append(loop.context, Partial)],
             "streaming")
    BY DEF StreamStart
  <2> QED  BY <1>3, <2>1, EmitMoves DEF Places, Raising
<1>5. NothingSaid
  BY <1>0, <1>1, BracketEvents DEF StreamStart, Emit, Process, NothingSaid
<1> QED  BY <1>0, <1>1, <1>4, <1>5 DEF StreamStart, RunOnly, Emit, Process, Moves,
   LoopRecord

\* The answer is in; it has calls only while answers may have some.
LEMMA StreamEndMoves ==
  ASSUME LoopInv, StreamEnd
  PROVE  \E final \in AnswerMessages :
           /\ At("streaming")
           /\ final.id = answers + 1 /\ final.stop # "partial"
           /\ final.calls > 0 => final.id <= MaxAsking
           /\ loop' \in LoopRecord /\ loop'.pc = "answered"
           /\ loop'.prompts = loop.prompts /\ loop'.skip = loop.skip
           /\ loop'.inject = loop.inject /\ loop'.new = loop.new
           /\ loop'.first = loop.first
           /\ loop'.batch = [loop.batch EXCEPT !.answer = final]
           /\ loop'.context = [loop.context EXCEPT ![Len(loop.context)] = final]
           /\ Arrives(final)
           /\ view' = Seen(view, MessageEnd(final))
           /\ answers' = answers + 1
           /\ QueuesKept /\ UNCHANGED <<mode, tasks>>
<1>0. state \in AgentState /\ loop \in LoopRecord /\ answers \in Nat
      /\ loop.context # <<>>
  BY DEF LoopInv, Types, Shape, StreamEnd, At
<1>1. PICK calls \in 0..(IF answers < MaxAsking THEN MaxCalls ELSE 0),
            stop \in {"stop", "length", "error"} :
              LET final == Assistant(answers + 1, calls, stop)
              IN Emit(MessageEnd(final),
                   [loop EXCEPT !.context[Len(loop.context)] = final, !.batch.answer = final],
                   "answered")
  BY DEF StreamEnd
<1> SUFFICES ASSUME NEW final, final = Assistant(answers + 1, calls, stop)
             PROVE  /\ final \in AnswerMessages
                    /\ final.id = answers + 1 /\ final.stop # "partial"
                    /\ final.calls > 0 => final.id <= MaxAsking
                    /\ loop' \in LoopRecord /\ loop'.pc = "answered"
                    /\ loop'.prompts = loop.prompts /\ loop'.skip = loop.skip
                    /\ loop'.inject = loop.inject /\ loop'.new = loop.new
                    /\ loop'.first = loop.first
                    /\ loop'.batch = [loop.batch EXCEPT !.answer = final]
                    /\ loop'.context = [loop.context EXCEPT ![Len(loop.context)] = final]
                    /\ Arrives(final)
                    /\ view' = Seen(view, MessageEnd(final)) /\ mode' = mode
  BY DEF StreamEnd
<1>2. /\ final \in AnswerMessages /\ final.id = answers + 1 /\ final.stop # "partial"
      /\ final.calls > 0 => final.id <= MaxAsking
  BY <1>0, LoopAssumption DEF Assistant, AnswerMessages
<1>3. final \in Messages
  BY <1>2, MessageKinds
<1> SUFFICES ASSUME NEW l,
                    l = [loop EXCEPT !.context = [loop.context EXCEPT ![Len(loop.context)] = final],
                                     !.batch = [loop.batch EXCEPT !.answer = final]],
                    Emit(MessageEnd(final), l, "answered")
             PROVE  /\ Moves(l, "answered")
                    /\ l.prompts = loop.prompts /\ l.skip = loop.skip
                    /\ l.inject = loop.inject /\ l.new = loop.new /\ l.first = loop.first
                    /\ l.batch = [loop.batch EXCEPT !.answer = final]
                    /\ l.context = [loop.context EXCEPT ![Len(loop.context)] = final]
                    /\ Arrives(final)
  BY <1>1, <1>2 DEF Moves, Emit, Process
<1>4. [loop.context EXCEPT ![Len(loop.context)] = final] \in Seq(Messages)
  <2>1. loop.context \in Seq(Messages) /\ Len(loop.context) \in 1..Len(loop.context)
    BY <1>0, LoopFields, EmptySeq
  <2> QED  BY <1>3, <2>1, ExceptSeq
<1>5. [loop.batch EXCEPT !.answer = final] \in BatchRecord
  BY <1>0, <1>2, LoopFields DEF BatchRecord
<1>6. l \in LoopRecord
  BY <1>0, <1>4, <1>5 DEF LoopRecord
<1>7. Moves(l, "answered")
  BY <1>6, EmitMoves DEF Places, Raising
<1>8. Arrives(final)
  BY <1>0, <1>3, MessageEndEvent DEF Emit, Process, Arrives
<1> QED  BY <1>0, <1>7, <1>8 DEF LoopRecord

LEMMA AnsweredMoves ==
  ASSUME LoopInv
  PROVE  /\ ErrorTurn =>
              /\ At("answered") /\ Answer.stop = "error"
              /\ Moves(Answered, "last_turn") /\ NothingSaid /\ RunOnly
         /\ PlainTurn =>
              /\ At("answered") /\ Answer.stop # "error" /\ Answer.calls = 0
              /\ Moves(Answered, "turn_end") /\ NothingSaid /\ RunOnly
<1>0. ASSUME At("answered")
      PROVE  state \in AgentState /\ loop \in LoopRecord /\ Answer \in AnswerMessages
             /\ Answered \in LoopRecord
  BY <1>0, AnsweredIs DEF LoopInv, Types, BatchInv, WithAnswer, At, SameBut
<1>1. {"last_turn", "turn_end"} \subseteq Places
  BY DEF Places, Raising
<1>2. ASSUME ErrorTurn
      PROVE  Moves(Answered, "last_turn") /\ NothingSaid /\ RunOnly
  BY <1>0, <1>1, <1>2, EmitMoves, TurnEndEvent
     DEF ErrorTurn, Emit, Process, NothingSaid, RunOnly
<1>3. ASSUME PlainTurn
      PROVE  Moves(Answered, "turn_end") /\ NothingSaid /\ RunOnly
  BY <1>0, <1>1, <1>3, EmitMoves, TurnEndEvent
     DEF PlainTurn, Emit, Process, NothingSaid, RunOnly
<1> QED  BY <1>2, <1>3 DEF ErrorTurn, PlainTurn

LEMMA EndingMoves ==
  ASSUME LoopInv, LastTurn \/ NothingLeft \/ StopAfterTurn
  PROVE  /\ loop.pc \in {"last_turn", "turn_end"}
         /\ Moves(loop, "agent_end") /\ NothingSaid /\ RunOnly
<1>0. state \in AgentState /\ loop \in LoopRecord
  BY DEF LoopInv, Types
<1>1. loop.pc \in {"last_turn", "turn_end"} /\ Emit(AgentEnd, loop, "agent_end") /\ RunOnly
  BY DEF LastTurn, NothingLeft, StopAfterTurn, At, RunOnly, Emit, Process
<1>2. Moves(loop, "agent_end")
  BY <1>0, <1>1, EmitMoves DEF Places, Raising
<1>3. NothingSaid
  BY <1>0, <1>1, BracketEvents DEF Emit, Process, NothingSaid
<1> QED  BY <1>1, <1>2, <1>3

LEMMA NextTurnMoves ==
  ASSUME LoopInv, NEW messages \in Seq(UserMessages), NextTurn(messages)
  PROVE  /\ loop' \in LoopRecord /\ loop'.pc = "turn_start"
         /\ loop'.prompts = loop.prompts /\ loop'.skip = loop.skip
         /\ loop'.inject = messages /\ loop'.context = loop.context
         /\ loop'.new = loop.new /\ loop'.first = loop.first /\ loop'.batch = NoBatch
         /\ NothingSaid /\ mode' = mode
<1>0. state \in AgentState /\ loop \in LoopRecord
  BY DEF LoopInv, Types
<1>1. NoBatch \in BatchRecord
  BY EmptySeq DEF NoBatch, BatchRecord
<1> SUFFICES ASSUME NEW l, l = [loop EXCEPT !.inject = messages, !.batch = NoBatch],
                    Emit(TurnStart, l, "turn_start")
             PROVE  /\ Moves(l, "turn_start") /\ NothingSaid
                    /\ l.prompts = loop.prompts /\ l.skip = loop.skip
                    /\ l.inject = messages /\ l.context = loop.context
                    /\ l.new = loop.new /\ l.first = loop.first /\ l.batch = NoBatch
  BY DEF NextTurn, Moves, Emit, Process
<1>2. l \in LoopRecord
  BY <1>0, <1>1 DEF LoopRecord
<1>3. Moves(l, "turn_start")
  BY <1>2, EmitMoves DEF Places, Raising
<1>4. NothingSaid
  BY <1>0, BracketEvents DEF Emit, Process, NothingSaid
<1> QED  BY <1>0, <1>3, <1>4 DEF LoopRecord

LEMMA TurnMoves ==
  ASSUME LoopInv
  PROVE  /\ TurnWithSteering =>
              /\ At("turn_end") /\ NextTurn(Drained(steering))
              /\ Drained(steering) \in Seq(UserMessages)
              /\ steering' = Left(steering)
              /\ UNCHANGED <<followUps, active, aborted, runs, resets, sent, steered, tasks,
                             answers>>
         /\ TurnWithFollowUps =>
              /\ At("turn_end") /\ NextTurn(Drained(followUps)) /\ steering = <<>>
              /\ Drained(followUps) \in Seq(UserMessages)
              /\ followUps' = Left(followUps)
              /\ UNCHANGED <<steering, active, aborted, runs, resets, sent, steered, tasks,
                             answers>>
<1>1. Drained(steering) \in Seq(UserMessages) /\ Drained(followUps) \in Seq(UserMessages)
  BY DrainedIs, SteersAreUsers DEF LoopInv, Types
<1> QED  BY <1>1 DEF TurnWithSteering, TurnWithFollowUps

LEMMA BeginBatchMoves ==
  ASSUME LoopInv, BeginBatch
  PROVE  \E how \in {"truncated", "sequential", "parallel"} :
           /\ At("answered") /\ Answer.stop # "error" /\ Answer.calls > 0
           /\ loop' \in LoopRecord /\ loop'.pc = "tool_start"
           /\ loop'.prompts = loop.prompts /\ loop'.skip = loop.skip
           /\ loop'.inject = loop.inject /\ loop'.context = loop.context
           /\ loop'.new = Append(loop.new, Answer) /\ loop'.first = loop.first
           /\ loop'.batch = [loop.batch EXCEPT !.mode = how]
           /\ Call(1) \in Calls
           /\ Becomes(state.messages, state.pending_tool_calls \cup {Call(1)}) /\ RunOnly
           /\ view' = Seen(view, ToolStart(Call(1)))
<1>0. /\ state \in AgentState /\ loop \in LoopRecord /\ Answer \in AnswerMessages
      /\ SameBut(Answered, {"new"}) /\ Answered.new = Append(loop.new, Answer)
  BY AnsweredIs DEF LoopInv, Types, BatchInv, WithAnswer, At, BeginBatch
<1>1. Call(1) \in Calls
  <2>1. Answer.calls \in Nat /\ Answer.calls > 0
    BY <1>0, LoopAssumption DEF BeginBatch, AnswerMessages
  <2> QED  BY <2>1, CallTyped DEF BeginBatch, At
<1>2. PICK how \in {"truncated", "sequential", "parallel"} :
        Emit(ToolStart(Call(1)), [Answered EXCEPT !.batch.mode = how], "tool_start")
  BY DEF BeginBatch
<1>3. [loop.batch EXCEPT !.mode = how] \in BatchRecord
  BY <1>0, LoopFields DEF BatchRecord
<1> SUFFICES ASSUME NEW l, l = [Answered EXCEPT !.batch = [Answered.batch EXCEPT !.mode = how]],
                    Emit(ToolStart(Call(1)), l, "tool_start")
             PROVE  /\ Moves(l, "tool_start")
                    /\ l.prompts = loop.prompts /\ l.skip = loop.skip
                    /\ l.inject = loop.inject /\ l.context = loop.context
                    /\ l.new = Append(loop.new, Answer) /\ l.first = loop.first
                    /\ l.batch = [loop.batch EXCEPT !.mode = how]
                    /\ Becomes(state.messages, state.pending_tool_calls \cup {Call(1)})
  BY <1>1, <1>2 DEF BeginBatch, Moves, Emit, Process, RunOnly
<1>4. l \in LoopRecord /\ l.batch = [loop.batch EXCEPT !.mode = how]
  BY <1>0, <1>3 DEF LoopRecord, SameBut
<1>5. Moves(l, "tool_start")
  BY <1>4, EmitMoves DEF Places, Raising
<1>6. Becomes(state.messages, state.pending_tool_calls \cup {Call(1)})
  BY <1>0, <1>1, ToolEvents DEF Emit, Process
<1> QED  BY <1>0, <1>4, <1>5, <1>6 DEF LoopRecord, SameBut

LEMMA OutcomeMoves ==
  ASSUME LoopInv, FailCall \/ CallExecuted
  PROVE  \E o \in OutcomeRecord :
           /\ loop.pc \in {"tool_start", "executing"} /\ o.kind # "runner"
           /\ Call(Prepared + 1) \in Calls
           /\ SameBut(AddOutcome(o), {"batch"}) /\ Moves(AddOutcome(o), "tool_end")
           /\ AddOutcome(o).batch = [loop.batch EXCEPT !.outcomes = Append(Batch.outcomes, o)]
           /\ Becomes(state.messages, state.pending_tool_calls \ {Call(Prepared + 1)}) /\ RunOnly
           /\ view' = Seen(view, ToolEnd(Call(Prepared + 1)))
<1>0. state \in AgentState /\ loop \in LoopRecord /\ loop.pc \in {"tool_start", "executing"}
  BY DEF LoopInv, Types, FailCall, CallExecuted, At
<1>1. Call(Prepared + 1) \in Calls
  <2>1. Prepared \in Nat /\ Prepared < Answer.calls /\ Answer.calls \in Nat
    BY <1>0, BatchFields, LoopAssumption DEF LoopInv, BatchInv, AnswerMessages, WithAnswer,
       Handling
  <2> QED  BY <1>0, <2>1, CallTyped DEF Handling
<1>2. PICK o : /\ o \in OutcomeRecord /\ o.kind # "runner"
               /\ Emit(ToolEnd(Call(Prepared + 1)), AddOutcome(o), "tool_end")
  BY DEF FailCall, CallExecuted, Outcome, OutcomeRecord
<1>3. SameBut(AddOutcome(o), {"batch"}) /\ AddOutcome(o) \in LoopRecord
      /\ AddOutcome(o).batch = [loop.batch EXCEPT !.outcomes = Append(Batch.outcomes, o)]
  BY <1>0, <1>2, WithOutcome DEF SameBut
<1>4. Moves(AddOutcome(o), "tool_end")
  BY <1>2, <1>3, EmitMoves DEF Places, Raising
<1>5. Becomes(state.messages, state.pending_tool_calls \ {Call(Prepared + 1)})
  BY <1>0, <1>1, <1>2, ToolEvents DEF Emit, Process
<1>6. RunOnly /\ view' = Seen(view, ToolEnd(Call(Prepared + 1)))
  BY <1>2 DEF RunOnly, FailCall, CallExecuted, Emit, Process
<1> QED  BY <1>0, <1>1, <1>2, <1>3, <1>4, <1>5, <1>6

LEMMA ResultTyped ==
  ASSUME LoopInv, loop.pc \in {"tool_end", "join", "result_start"} \/ ParallelNext
  PROVE  NextResult \in ResultMessages /\ NextResult \in Messages
<1>1. loop.pc \in Handling /\ Len(Results) < Prepared /\ Prepared <= Answer.calls
      /\ Answer \in AnswerMessages
  BY DEF LoopInv, BatchInv, Handling, WithAnswer, ParallelNext, At, Results
<1>2. Len(Results) \in Nat /\ Prepared \in Nat /\ Answer.calls \in Nat
  BY <1>1, BatchFields, LoopAssumption DEF LoopInv, Types, AnswerMessages
<1>3. Len(Results) + 1 \in 1..Answer.calls
  BY <1>1, <1>2
<1>4. NextResult = ToolResult(Call(Len(Results) + 1))
  BY DEF NextResult, Results
<1> QED  BY <1>1, <1>3, <1>4, CallTyped, MessageKinds

LEMMA ResultMoves ==
  ASSUME LoopInv
  PROVE  /\ ExecuteCall =>
              /\ At("tool_start") /\ Batch.mode = "sequential"
              /\ Moves(loop, "executing") /\ NothingSaid /\ RunOnly
         /\ SequentialResult \/ ParallelNext =>
              /\ Moves(loop, "result_start") /\ NothingSaid /\ RunOnly
         /\ SequentialNext =>
              /\ Moves(loop, "tool_start") /\ RunOnly
              /\ Call(Prepared + 1) \in Calls /\ Prepared < Answer.calls
              /\ Becomes(state.messages, state.pending_tool_calls \cup {Call(Prepared + 1)})
<1>0. state \in AgentState /\ loop \in LoopRecord
  BY DEF LoopInv, Types
<1>1. {"executing", "result_start", "tool_start"} \subseteq Places
  BY DEF Places, Raising
<1>2. ASSUME ExecuteCall
      PROVE  Moves(loop, "executing") /\ NothingSaid /\ RunOnly
  <2>1. Moves(loop, "executing")
    BY <1>0, <1>1, <1>2, MovesTo DEF ExecuteCall
  <2> QED  BY <1>0, <1>2, <2>1
           DEF ExecuteCall, agentVars, NothingSaid, Becomes, RunOnly, QueuesKept
<1>3. ASSUME SequentialResult \/ ParallelNext
      PROVE  Moves(loop, "result_start") /\ NothingSaid /\ RunOnly
  <2>1. NextResult \in Messages
    BY <1>3, ResultTyped DEF SequentialResult, At
  <2>2. Emit(MessageStart(NextResult), loop, "result_start") /\ RunOnly
    BY <1>3 DEF SequentialResult, ParallelNext, StartResult, Emit, Process, RunOnly
  <2>3. Moves(loop, "result_start")
    BY <1>0, <1>1, <2>2, EmitMoves
  <2>4. NothingSaid
    BY <1>0, <2>1, <2>2, BracketEvents DEF Emit, Process, NothingSaid
  <2> QED  BY <2>2, <2>3, <2>4
<1>4. ASSUME SequentialNext
      PROVE  /\ Moves(loop, "tool_start") /\ RunOnly
             /\ Call(Prepared + 1) \in Calls /\ Prepared < Answer.calls
             /\ Becomes(state.messages, state.pending_tool_calls \cup {Call(Prepared + 1)})
  <2>1. loop.pc \in Handling /\ Prepared <= Answer.calls /\ Prepared # Answer.calls
        /\ Answer \in AnswerMessages
    BY <1>4 DEF LoopInv, BatchInv, Handling, WithAnswer, SequentialNext, At, LastCall
  <2>2. Prepared \in Nat /\ Answer.calls \in Nat
    BY <1>0, <2>1, BatchFields, LoopAssumption DEF AnswerMessages
  <2>3. Call(Prepared + 1) \in Calls /\ Prepared < Answer.calls
    BY <2>1, <2>2, CallTyped
  <2>4. Moves(loop, "tool_start")
    BY <1>0, <1>1, <1>4, EmitMoves DEF SequentialNext
  <2>5. Becomes(state.messages, state.pending_tool_calls \cup {Call(Prepared + 1)})
    BY <1>0, <1>4, <2>3, ToolEvents DEF SequentialNext, Emit, Process
  <2> QED  BY <1>4, <2>3, <2>4, <2>5 DEF SequentialNext, Emit, Process, RunOnly
<1> QED  BY <1>2, <1>3, <1>4 DEF ExecuteCall

LEMMA EndResultMoves ==
  ASSUME LoopInv, EndResult
  PROVE  /\ At("result_start") /\ NextResult \in ResultMessages
         /\ loop' \in LoopRecord /\ loop'.pc = "result_end"
         /\ loop'.prompts = loop.prompts /\ loop'.skip = loop.skip
         /\ loop'.inject = loop.inject /\ loop'.context = loop.context
         /\ loop'.new = loop.new /\ loop'.first = loop.first
         /\ loop'.batch = [loop.batch EXCEPT !.results = Append(Results, NextResult)]
         /\ Arrives(NextResult) /\ RunOnly
<1>0. state \in AgentState /\ loop \in LoopRecord
  BY DEF LoopInv, Types
<1>1. NextResult \in ResultMessages /\ NextResult \in Messages
  BY ResultTyped DEF EndResult, At
<1>2. [loop.batch EXCEPT !.results = Append(Results, NextResult)] \in BatchRecord
  <2>1. Append(Results, NextResult) \in Seq(ResultMessages)
    BY <1>0, <1>1, BatchFields, AppendProperties
  <2> QED  BY <1>0, <2>1, LoopFields DEF BatchRecord
<1> SUFFICES ASSUME NEW l,
                    l = [loop EXCEPT !.batch =
                          [loop.batch EXCEPT !.results = Append(Results, NextResult)]],
                    Emit(MessageEnd(NextResult), l, "result_end")
             PROVE  /\ Moves(l, "result_end")
                    /\ l.prompts = loop.prompts /\ l.skip = loop.skip
                    /\ l.inject = loop.inject /\ l.context = loop.context
                    /\ l.new = loop.new /\ l.first = loop.first
                    /\ l.batch = [loop.batch EXCEPT !.results = Append(Results, NextResult)]
                    /\ Arrives(NextResult)
  BY <1>1 DEF EndResult, Moves, Emit, Process, RunOnly, Results, Batch
<1>3. l \in LoopRecord
  BY <1>0, <1>2 DEF LoopRecord
<1>4. Moves(l, "result_end")
  BY <1>3, EmitMoves DEF Places, Raising
<1>5. Arrives(NextResult)
  BY <1>0, <1>1, MessageEndEvent DEF Emit, Process, Arrives
<1> QED  BY <1>0, <1>4, <1>5 DEF LoopRecord

\* The tools of l's runners start.
Spawns(l) ==
  /\ Moves(l, "join")
  /\ DOMAIN tasks' = DOMAIN tasks \cup {Call(i) : i \in Runners(l)}
  /\ \A c \in DOMAIN tasks' :
       tasks'[c] = IF c \in {Call(i) : i \in Runners(l)} THEN "running" ELSE tasks[c]
  /\ NothingSaid
  /\ UNCHANGED <<agentVars, answers>>

LEMMA SpawnDoes ==
  ASSUME state \in AgentState, NEW l \in LoopRecord, Spawn(l), answers' = answers
  PROVE  Spawns(l)
<1>1. Moves(l, "join")
  BY MovesTo DEF Spawn, Places
<1>2. NothingSaid
  BY DEF Spawn, agentVars, NothingSaid, Becomes
<1> SUFFICES ASSUME NEW spawned, spawned = {Call(i) : i \in Runners(l)},
                    tasks' = [c \in DOMAIN tasks \cup spawned |->
                                IF c \in spawned THEN "running" ELSE tasks[c]]
             PROVE  /\ DOMAIN tasks' = DOMAIN tasks \cup spawned
                    /\ \A c \in DOMAIN tasks' :
                         tasks'[c] = IF c \in spawned THEN "running" ELSE tasks[c]
  BY <1>1, <1>2 DEF Spawns, Spawn
<1> QED  OBVIOUS

\* A call is prepared to run; the next is announced, or all of them start.
LEMMA RunnerMoves ==
  ASSUME LoopInv, PrepareRunner
  PROVE  \E o \in OutcomeRecord :
           /\ At("tool_start") /\ Batch.mode = "parallel" /\ ~aborted /\ o.kind = "runner"
           /\ SameBut(AddOutcome(o), {"batch"})
           /\ AddOutcome(o).batch = [loop.batch EXCEPT !.outcomes = Append(Batch.outcomes, o)]
           /\ \/ /\ Prepared + 1 < Answer.calls
                 /\ Moves(AddOutcome(o), "tool_start") /\ RunOnly
                 /\ Call(Prepared + 2) \in Calls
                 /\ Becomes(state.messages, state.pending_tool_calls \cup {Call(Prepared + 2)})
                 /\ view' = Seen(view, ToolStart(Call(Prepared + 2)))
              \/ ~(Prepared + 1 < Answer.calls) /\ Spawns(AddOutcome(o))
<1>0. state \in AgentState /\ loop \in LoopRecord
  BY DEF LoopInv, Types
<1> SUFFICES ASSUME NEW o, o = Outcome("runner", FALSE)
             PROVE  /\ At("tool_start") /\ Batch.mode = "parallel" /\ ~aborted
                    /\ o \in OutcomeRecord /\ o.kind = "runner"
                    /\ SameBut(AddOutcome(o), {"batch"})
                    /\ AddOutcome(o).batch =
                         [loop.batch EXCEPT !.outcomes = Append(Batch.outcomes, o)]
                    /\ \/ /\ Prepared + 1 < Answer.calls
                          /\ Moves(AddOutcome(o), "tool_start") /\ RunOnly
                          /\ Call(Prepared + 2) \in Calls
                          /\ Becomes(state.messages,
                                     state.pending_tool_calls \cup {Call(Prepared + 2)})
                          /\ view' = Seen(view, ToolStart(Call(Prepared + 2)))
                       \/ ~(Prepared + 1 < Answer.calls) /\ Spawns(AddOutcome(o))
  OBVIOUS
<1>1. o \in OutcomeRecord /\ o.kind = "runner"
  BY DEF Outcome, OutcomeRecord
<1>2. SameBut(AddOutcome(o), {"batch"}) /\ AddOutcome(o) \in LoopRecord
      /\ AddOutcome(o).batch = [loop.batch EXCEPT !.outcomes = Append(Batch.outcomes, o)]
  BY <1>0, <1>1, WithOutcome DEF SameBut
<1>3. CASE Prepared + 1 < Answer.calls
  <2>1. loop.pc \in Handling /\ Answer \in AnswerMessages
    BY DEF LoopInv, BatchInv, Handling, WithAnswer, PrepareRunner, At
  <2>2. Prepared \in Nat /\ Answer.calls \in Nat
    BY <1>0, <2>1, BatchFields, LoopAssumption DEF AnswerMessages
  <2>3. Call(Prepared + 2) \in Calls
    BY <1>3, <2>1, <2>2, CallTyped
  <2>4. /\ Emit(ToolStart(Call(Prepared + 2)), AddOutcome(o), "tool_start")
        /\ QueuesKept /\ UNCHANGED <<tasks, answers>>
    BY <1>3 DEF PrepareRunner
  <2>5. Moves(AddOutcome(o), "tool_start")
    BY <1>2, <2>4, EmitMoves DEF Places, Raising
  <2>6. Becomes(state.messages, state.pending_tool_calls \cup {Call(Prepared + 2)})
    BY <1>0, <2>3, <2>4, ToolEvents DEF Emit, Process
  <2> QED  BY <1>1, <1>2, <1>3, <2>3, <2>4, <2>5, <2>6 DEF PrepareRunner, Emit, Process,
     RunOnly
<1>4. CASE ~(Prepared + 1 < Answer.calls)
  <2>1. Spawn(AddOutcome(o)) /\ answers' = answers
    BY <1>4 DEF PrepareRunner
  <2> QED  BY <1>0, <1>1, <1>2, <1>4, <2>1, SpawnDoes DEF PrepareRunner
<1> QED  BY <1>3, <1>4

LEMMA ImmediateMoves ==
  ASSUME LoopInv, AfterImmediate
  PROVE  /\ At("tool_end") /\ Batch.mode = "parallel"
         /\ \/ /\ Prepared < Answer.calls /\ ~aborted
               /\ Moves(loop, "tool_start") /\ RunOnly
               /\ Call(Prepared + 1) \in Calls
               /\ Becomes(state.messages, state.pending_tool_calls \cup {Call(Prepared + 1)})
               /\ view' = Seen(view, ToolStart(Call(Prepared + 1)))
            \/ (Prepared = Answer.calls \/ aborted) /\ Spawns(loop)
<1>0. state \in AgentState /\ loop \in LoopRecord
  BY DEF LoopInv, Types
<1>1. CASE ~LastCall /\ ~aborted
  <2>1. /\ loop.pc \in Handling /\ Prepared <= Answer.calls /\ Prepared # Answer.calls
        /\ Answer \in AnswerMessages
    BY <1>1 DEF LoopInv, BatchInv, Handling, WithAnswer, AfterImmediate, At, LastCall
  <2>2. Prepared \in Nat /\ Answer.calls \in Nat
    BY <1>0, <2>1, BatchFields, LoopAssumption DEF AnswerMessages
  <2>3. Call(Prepared + 1) \in Calls /\ Prepared < Answer.calls
    BY <2>1, <2>2, CallTyped
  <2>4. Emit(ToolStart(Call(Prepared + 1)), loop, "tool_start") /\ RunOnly
    BY <1>1 DEF AfterImmediate, RunOnly, Emit, Process
  <2>5. Moves(loop, "tool_start")
    BY <1>0, <2>4, EmitMoves DEF Places, Raising
  <2>6. Becomes(state.messages, state.pending_tool_calls \cup {Call(Prepared + 1)})
    BY <1>0, <2>3, <2>4, ToolEvents DEF Emit, Process
  <2> QED  BY <1>1, <2>3, <2>4, <2>5, <2>6 DEF AfterImmediate, Emit, Process
<1>2. CASE ~(~LastCall /\ ~aborted)
  <2>1. Spawn(loop) /\ answers' = answers
    BY <1>2 DEF AfterImmediate
  <2> QED  BY <1>0, <1>2, <2>1, SpawnDoes DEF AfterImmediate, LastCall
<1> QED  BY <1>1, <1>2

LEMMA JoinedMoves ==
  ASSUME LoopInv, Joined
  PROVE  \E outcomes \in Seq(OutcomeRecord) :
           /\ At("join") /\ \A i \in 1..Prepared : Over(i)
           /\ loop' \in LoopRecord /\ loop'.pc = "result_start"
           /\ loop'.prompts = loop.prompts /\ loop'.skip = loop.skip
           /\ loop'.inject = loop.inject /\ loop'.context = loop.context
           /\ loop'.new = loop.new /\ loop'.first = loop.first
           /\ loop'.batch = [loop.batch EXCEPT !.outcomes = outcomes]
           /\ Len(outcomes) = Prepared
           /\ \A i \in 1..Prepared : outcomes[i].kind # "runner"
           /\ DOMAIN tasks' = DOMAIN tasks \ {Call(i) : i \in Runners(loop)}
           /\ \A c \in DOMAIN tasks' : tasks'[c] = tasks[c]
           /\ NothingSaid /\ QueuesKept /\ UNCHANGED <<mode, answers>>
<1>0. state \in AgentState /\ loop \in LoopRecord
  BY DEF LoopInv, Types
<1> SUFFICES ASSUME NEW outcomes,
                    outcomes = [i \in 1..Prepared |->
                                  IF i \in Runners(loop)
                                  THEN Outcome("executed", tasks[Call(i)] = "terminating")
                                  ELSE Batch.outcomes[i]]
             PROVE  /\ outcomes \in Seq(OutcomeRecord)
                    /\ loop' \in LoopRecord /\ loop'.pc = "result_start"
                    /\ loop'.prompts = loop.prompts /\ loop'.skip = loop.skip
                    /\ loop'.inject = loop.inject /\ loop'.context = loop.context
                    /\ loop'.new = loop.new /\ loop'.first = loop.first
                    /\ loop'.batch = [loop.batch EXCEPT !.outcomes = outcomes]
                    /\ Len(outcomes) = Prepared
                    /\ \A i \in 1..Prepared : outcomes[i].kind # "runner"
                    /\ DOMAIN tasks' = DOMAIN tasks \ {Call(i) : i \in Runners(loop)}
                    /\ \A c \in DOMAIN tasks' : tasks'[c] = tasks[c]
                    /\ NothingSaid /\ mode' = mode
  BY DEF Joined
<1>1. Batch.outcomes \in Seq(OutcomeRecord) /\ Prepared \in Nat /\ Prepared = Len(Batch.outcomes)
  BY <1>0, BatchFields DEF Prepared
<1>2. \A i \in 1..Prepared : outcomes[i] \in OutcomeRecord /\ outcomes[i].kind # "runner"
  <2> SUFFICES ASSUME NEW i \in 1..Prepared
               PROVE  outcomes[i] \in OutcomeRecord /\ outcomes[i].kind # "runner"
    OBVIOUS
  <2>1. CASE i \in Runners(loop)
    <3> SUFFICES ASSUME NEW b \in BOOLEAN, outcomes[i] = Outcome("executed", b)
                 PROVE  outcomes[i] \in OutcomeRecord /\ outcomes[i].kind # "runner"
      BY <2>1
    <3> QED  BY DEF Outcome, OutcomeRecord
  <2>2. CASE i \notin Runners(loop)
    <3>1. Batch.outcomes[i] \in OutcomeRecord
      BY <1>1, ElementOfSeq
    <3>2. Batch.outcomes[i].kind # "runner"
      BY <1>1, <2>2 DEF Runners, Batch, Prepared
    <3> QED  BY <2>2, <3>1, <3>2
  <2> QED  BY <2>1, <2>2
<1>3. outcomes \in [1..Prepared -> OutcomeRecord]
  BY <1>2
<1>4. outcomes \in Seq(OutcomeRecord) /\ Len(outcomes) = Prepared
  BY <1>1, <1>3
<1> SUFFICES ASSUME NEW l, l = [loop EXCEPT !.batch = [loop.batch EXCEPT !.outcomes = outcomes]],
                    Emit(MessageStart(NextResult), l, "result_start")
             PROVE  /\ Moves(l, "result_start")
                    /\ l.prompts = loop.prompts /\ l.skip = loop.skip
                    /\ l.inject = loop.inject /\ l.context = loop.context
                    /\ l.new = loop.new /\ l.first = loop.first
                    /\ l.batch = [loop.batch EXCEPT !.outcomes = outcomes]
                    /\ DOMAIN tasks' = DOMAIN tasks \ {Call(i) : i \in Runners(loop)}
                    /\ \A c \in DOMAIN tasks' : tasks'[c] = tasks[c]
                    /\ NothingSaid
  BY <1>2, <1>4 DEF Joined, StartResult, Moves, Emit, Process
<1>5. [loop.batch EXCEPT !.outcomes = outcomes] \in BatchRecord
  BY <1>0, <1>4, LoopFields DEF BatchRecord
<1>6. l \in LoopRecord
  BY <1>0, <1>5 DEF LoopRecord
<1>7. Moves(l, "result_start")
  BY <1>6, EmitMoves DEF Places, Raising
<1>8. NothingSaid
  <2>1. NextResult \in Messages
    BY ResultTyped DEF Joined, At
  <2> QED  BY <1>0, <2>1, BracketEvents DEF Emit, Process, NothingSaid
<1>9. /\ DOMAIN tasks' = DOMAIN tasks \ {Call(i) : i \in Runners(loop)}
      /\ \A c \in DOMAIN tasks' : tasks'[c] = tasks[c]
  <2> SUFFICES ASSUME NEW gone, gone = {Call(i) : i \in Runners(loop)},
                      tasks' = [c \in DOMAIN tasks \ gone |-> tasks[c]]
               PROVE  DOMAIN tasks' = DOMAIN tasks \ gone
                      /\ \A c \in DOMAIN tasks' : tasks'[c] = tasks[c]
    BY DEF Joined
  <2> QED  OBVIOUS
<1> QED  BY <1>0, <1>7, <1>8, <1>9 DEF LoopRecord

LEMMA FinishBatchMoves ==
  ASSUME LoopInv, FinishBatch
  PROVE  /\ At("result_end") /\ Answer \in AnswerMessages
         /\ IF Batch.mode = "parallel" THEN Len(Results) = Prepared
            ELSE Prepared = Answer.calls \/ aborted
         /\ loop' \in LoopRecord /\ loop'.pc = "turn_end"
         /\ loop'.prompts = loop.prompts /\ loop'.skip = loop.skip
         /\ loop'.inject = loop.inject /\ loop'.first = loop.first /\ loop'.batch = loop.batch
         /\ loop'.context = loop.context \o Results /\ loop'.new = loop.new \o Results
         /\ NothingSaid /\ RunOnly
<1>0. state \in AgentState /\ loop \in LoopRecord /\ Answer \in AnswerMessages
  BY DEF LoopInv, Types, BatchInv, WithAnswer, Handling, FinishBatch, At
<1>1. loop.context \o Results \in Seq(Messages) /\ loop.new \o Results \in Seq(Messages)
  <2>1. Results \in Seq(Messages)
    BY <1>0, BatchFields, MessageKinds, SeqMonotonic
  <2> QED  BY <1>0, <2>1, LoopFields, ConcatProperties
<1> SUFFICES ASSUME NEW l, l = [loop EXCEPT !.context = loop.context \o Results,
                                            !.new = loop.new \o Results],
                    Emit(TurnEnd(Answer), l, "turn_end")
             PROVE  /\ Moves(l, "turn_end")
                    /\ l.prompts = loop.prompts /\ l.skip = loop.skip
                    /\ l.inject = loop.inject /\ l.first = loop.first /\ l.batch = loop.batch
                    /\ l.context = loop.context \o Results /\ l.new = loop.new \o Results
                    /\ NothingSaid
  BY <1>0 DEF FinishBatch, Moves, Emit, Process, RunOnly, Results, LastCall, Stopped
<1>2. l \in LoopRecord
  BY <1>0, <1>1 DEF LoopRecord
<1>3. Moves(l, "turn_end")
  BY <1>2, EmitMoves DEF Places, Raising
<1>4. NothingSaid
  BY <1>0, TurnEndEvent DEF Emit, Process, NothingSaid
<1> QED  BY <1>0, <1>3, <1>4 DEF LoopRecord

LEMMA IdleTyped ==
  /\ Idle \in LoopRecord /\ NoBatch \in BatchRecord
  /\ Idle.pc = "idle" /\ ~Idle.prompts /\ ~Idle.skip /\ Idle.inject = <<>>
  /\ Idle.context = <<>> /\ Idle.new = <<>> /\ Idle.batch = NoBatch
<1>1. NoBatch \in BatchRecord
  BY EmptySeq DEF NoBatch, BatchRecord
<1> QED  BY <1>1, EmptySeq DEF Idle, LoopRecord, Places

\* A run starts with these messages.
Starts(messages, skip) ==
  /\ ~active /\ active' = TRUE /\ aborted' = FALSE
  /\ runs < MaxRuns /\ runs' = runs + 1
  /\ messages \in Seq(UserMessages)
  /\ loop' \in LoopRecord /\ loop'.pc = "agent_start" /\ loop'.prompts /\ loop'.skip = skip
  /\ loop'.inject = messages /\ loop'.context = state.messages \o messages
  /\ loop'.new = messages /\ loop'.first = Len(state.messages) + 1
  /\ loop'.batch = NoBatch
  /\ NothingSaid
  /\ view' = Seen(view, AgentStart)
  /\ UNCHANGED <<mode, resets, tasks, answers>>

LEMMA RunStarts ==
  ASSUME LoopInv, NEW messages \in Seq(UserMessages), NEW skip \in BOOLEAN, Run(messages, skip)
  PROVE  Starts(messages, skip) /\ UNCHANGED <<sent, steered>>
<1>0. state \in AgentState /\ loop \in LoopRecord /\ state.messages \in Seq(Messages)
  BY DEF LoopInv, Types, AgentState
<1>1. messages \in Seq(Messages)
  BY MessageKinds, SeqMonotonic
<1>2. state.messages \o messages \in Seq(Messages) /\ Len(state.messages) + 1 \in Nat
  BY <1>0, <1>1, ConcatProperties, LenProperties
<1>3. /\ loop' \in LoopRecord /\ loop'.pc = "agent_start" /\ loop'.prompts /\ loop'.skip = skip
      /\ loop'.inject = messages /\ loop'.context = state.messages \o messages
      /\ loop'.new = messages /\ loop'.first = Len(state.messages) + 1
      /\ loop'.batch = NoBatch
  <2>1. loop' = [Idle EXCEPT !.pc = "agent_start", !.prompts = TRUE, !.skip = skip,
                   !.inject = messages, !.context = state.messages \o messages,
                   !.new = messages, !.first = Len(state.messages) + 1]
    BY DEF Run
  <2>2. Idle \in LoopRecord /\ Idle.batch = NoBatch
    BY IdleTyped
  <2> QED  BY <1>1, <1>2, <2>1, <2>2 DEF LoopRecord, Places, Raising
<1>4. NothingSaid
  BY <1>0 DEF Run, BeginRun, NothingSaid, Becomes, AgentState
<1> QED  BY <1>3, <1>4 DEF Run, BeginRun, Starts

LEMMA StartMoves ==
  ASSUME LoopInv, Prompt \/ ContinueTranscript \/ ContinueWithSteering \/ ContinueWithFollowUps
  PROVE  /\ UNCHANGED <<sent, steered>>
         /\ \/ /\ Starts(<<User(<<runs + 1>>)>>, FALSE) \/ Starts(<<>>, FALSE)
               /\ UNCHANGED <<steering, followUps>>
            \/ /\ Starts(Drained(steering), TRUE)
               /\ steering' = Left(steering) /\ UNCHANGED followUps
            \/ /\ Starts(Drained(followUps), FALSE) /\ steering = <<>>
               /\ followUps' = Left(followUps) /\ UNCHANGED steering
<1>1. CASE Prompt
  <2>1. runs \in Nat /\ runs < MaxRuns /\ MaxRuns \in Nat
    BY <1>1, AgentAssumption DEF LoopInv, Types, Prompt, Run, BeginRun
  <2>2. User(<<runs + 1>>) \in UserMessages
    BY <2>1 DEF User, UserMessages, Ids
  <2>3. <<User(<<runs + 1>>)>> \in Seq(UserMessages)
    BY <2>2
  <2> QED  BY <1>1, <2>3, RunStarts DEF Prompt
<1>2. CASE ContinueTranscript
  BY <1>2, RunStarts, EmptySeq DEF ContinueTranscript
<1>3. CASE ContinueWithSteering \/ ContinueWithFollowUps
  <2>1. Drained(steering) \in Seq(UserMessages) /\ Drained(followUps) \in Seq(UserMessages)
    BY DrainedIs, SteersAreUsers DEF LoopInv, Types
  <2> QED  BY <1>3, <2>1, RunStarts DEF ContinueWithSteering, ContinueWithFollowUps
<1> QED  BY <1>1, <1>2, <1>3

\* The run is over and the agent clean.
Settles ==
  /\ loop' = Idle /\ ~active' /\ ~aborted'
  /\ state' \in AgentState /\ state'.messages = state.messages
  /\ state'.pending_tool_calls = {} /\ ~state'.is_streaming /\ ~state'.streaming_message
  /\ UNCHANGED <<mode, steering, followUps, runs, resets, view, sent, steered, answers>>

LEMMA SettleDoes ==
  ASSUME LoopInv, Settle
  PROVE  Settles
<1>1. state \in AgentState
  BY DEF LoopInv, Types
<1> QED  BY <1>1 DEF Settle, FinishRun, Settles, AgentState

\* The tasks that are kept go on as they were.
Keeps(kept) ==
  DOMAIN tasks' = kept /\ \A c \in kept : tasks'[c] = tasks[c]

AliveTasks == {d \in DOMAIN tasks : tasks[d] \in {"running", "ending"}}

LEMMA SettlingMoves ==
  ASSUME LoopInv, Finish \/ FailAgain \/ CancelRun
  PROVE  /\ Settles
         /\ \/ loop.pc \in {"agent_end"} \cup Failing /\ UNCHANGED tasks
            \/ Cancels /\ \E kept \in SUBSET AliveTasks : Keeps(kept)
<1>1. Settles
  BY SettleDoes DEF Finish, FailAgain, CancelRun
<1>2. CASE Finish \/ FailAgain
  BY <1>1, <1>2 DEF Finish, FailAgain, Failing
<1>3. CASE CancelRun
  <2>1. PICK gone : tasks' = [c \in AliveTasks \ gone |-> tasks[c]]
    BY <1>3 DEF CancelRun, AliveTasks
  <2>2. Keeps(AliveTasks \ gone)
    BY <2>1 DEF Keeps
  <2> QED  BY <1>1, <1>3, <2>2 DEF CancelRun
<1> QED  BY <1>2, <1>3

LEMMA FailureTyped ==
  FailureMessage \in AnswerMessages /\ FailureMessage \in Messages /\ FailureMessage.stop = "error"
  BY LoopAssumption DEF FailureMessage, Assistant, AnswerMessages, Messages

LEMMA FailMoves ==
  ASSUME LoopInv, Fail
  PROVE  /\ Failures /\ loop.pc \in Raising \cup {"join"}
         /\ Moves(Idle, "failure") /\ NothingSaid /\ Keeps(AliveTasks)
         /\ QueuesKept /\ UNCHANGED <<mode, answers>>
<1>1. Moves(Idle, "failure")
  BY IdleTyped, EmitMoves DEF Fail, Places, Failing
<1>2. NothingSaid
  BY FailureTyped, BracketEvents DEF LoopInv, Types, Fail, Emit, Process, NothingSaid
<1>3. Keeps(AliveTasks)
  BY DEF Fail, AliveTasks, Keeps
<1> QED  BY <1>1, <1>2, <1>3 DEF Fail, JoinRaises, At, Emit, Process

LEMMA ReportMoves ==
  ASSUME LoopInv, ReportFailure
  PROVE  /\ loop.pc \in Failing
         /\ \E to \in Failing : Moves(loop, to)
         /\ Arrives(FailureMessage) \/ NothingSaid
         /\ RunOnly
<1>0. state \in AgentState /\ loop \in LoopRecord
  BY DEF LoopInv, Types
<1>1. CASE FailureStep(MessageEnd(FailureMessage), "failure", "failure_message")
  BY <1>0, <1>1, EmitMoves, MessageEndEvent, FailureTyped
     DEF FailureStep, Failing, Places, Emit, Process, Arrives, RunOnly, At
<1>2. CASE FailureStep(TurnEnd(FailureMessage), "failure_message", "failure_turn")
  BY <1>0, <1>2, EmitMoves, TurnEndEvent, FailureTyped
     DEF FailureStep, Failing, Places, Emit, Process, NothingSaid, RunOnly, At
<1>3. CASE FailureStep(AgentEnd, "failure_turn", "failure_end")
  BY <1>0, <1>3, EmitMoves, BracketEvents
     DEF FailureStep, Failing, Places, Emit, Process, NothingSaid, RunOnly, At
<1> QED  BY <1>1, <1>2, <1>3 DEF ReportFailure

\* c goes on as a task of this run, or is no longer a task.
Turns(c, how) ==
  /\ DOMAIN tasks' = DOMAIN tasks
  /\ tasks'[c] = how
  /\ \A d \in DOMAIN tasks \ {c} : tasks'[d] = tasks[d]

LEMMA LeaveDoes ==
  ASSUME NEW c \in DOMAIN tasks, NEW how, Leave(c, how)
  PROVE  /\ Owned(c) => Turns(c, how)
         /\ ~Owned(c) => Keeps(DOMAIN tasks \ {c})
<1>1. CASE Owned(c)
  <2>1. tasks' = [tasks EXCEPT ![c] = how]
    BY <1>1 DEF Leave
  <2>2. DOMAIN tasks' = DOMAIN tasks
    BY <2>1
  <2> QED  BY <1>1, <2>1, <2>2 DEF Turns
<1>2. CASE ~Owned(c)
  BY <1>2 DEF Leave, Keeps
<1> QED  BY <1>1, <1>2

LEMMA TaskMoves ==
  ASSUME LoopInv, NEW c \in DOMAIN tasks, Task(c)
  PROVE  /\ c \in Calls /\ QueuesKept /\ UNCHANGED <<mode, loop, answers>>
         /\ \/ /\ tasks[c] = "running" /\ active
               /\ Becomes(state.messages, state.pending_tool_calls \ {c})
               /\ Turns(c, "ending")
               /\ view' = Seen(view, ToolEnd(c))
            \/ /\ tasks[c] = "running" /\ ~active
               /\ Becomes(state.messages, state.pending_tool_calls \ {c})
               /\ state'.is_streaming = state.is_streaming
               /\ state'.streaming_message = state.streaming_message
               /\ Keeps(DOMAIN tasks \ {c}) /\ UNCHANGED view
            \/ /\ tasks[c] \in {"running", "ending"}
               /\ \E how \in {"done", "terminating", "raised"} :
                    /\ how = "raised" => Failures
                    /\ how # "raised" => tasks[c] = "ending"
                    /\ Owned(c) => Turns(c, how)
                    /\ ~Owned(c) => Keeps(DOMAIN tasks \ {c})
               /\ NothingSaid /\ UNCHANGED <<state, view>>
<1>0. /\ state \in AgentState /\ c \in Calls
      /\ active = (loop.pc # "idle")
  BY DEF LoopInv, Types
<1>1. CASE ToolDone(c)
  <2>1. /\ Becomes(state.messages, state.pending_tool_calls \ {c})
        /\ state'.is_streaming = state.is_streaming
        /\ state'.streaming_message = state.streaming_message
    BY <1>0, <1>1, ToolEvents DEF ToolDone
  <2>2. CASE active
    <3>1. tasks' = [tasks EXCEPT ![c] = "ending"]
      BY <1>1, <2>2 DEF ToolDone
    <3>2. Turns(c, "ending")
      BY <3>1 DEF Turns
    <3> QED  BY <1>0, <1>1, <2>1, <2>2, <3>2 DEF ToolDone
  <2>3. CASE ~active
    <3>1. ~Owned(c)
      BY <1>0, <2>3 DEF Owned, At
    <3>2. Keeps(DOMAIN tasks \ {c})
      BY <1>1, <2>3, <3>1, LeaveDoes DEF ToolDone
    <3> QED  BY <1>0, <1>1, <2>1, <2>3, <3>2 DEF ToolDone
  <2> QED  BY <2>2, <2>3
<1>2. CASE TaskDone(c)
  BY <1>0, <1>2, LeaveDoes DEF TaskDone, agentVars, QueuesKept, NothingSaid, Becomes
<1>3. CASE TaskRaises(c)
  BY <1>0, <1>3, LeaveDoes DEF TaskRaises, agentVars, QueuesKept, NothingSaid, Becomes
<1> QED  BY <1>1, <1>2, <1>3 DEF Task

\* What callers do while the run stands still.
LEMMA CallerMoves ==
  ASSUME LoopInv,
         \/ \E m \in Steers : Steer(m)
         \/ \E m \in FollowUps : FollowUp(m)
         \/ ClearAllQueues \/ Abort \/ Reset
  PROVE  /\ state' \in AgentState /\ UNCHANGED <<mode, active, runs, view>>
         /\ \/ UNCHANGED state
            \/ Reset /\ ~active /\ state' = EmptyState
         /\ aborted' \in BOOLEAN /\ (aborted' # aborted => aborted' /\ active)
         /\ steering' \in Seq(SteerMessages) /\ followUps' \in Seq(FollowUpMessages)
<1>0. /\ state \in AgentState /\ aborted \in BOOLEAN
      /\ steering \in Seq(SteerMessages) /\ followUps \in Seq(FollowUpMessages)
  BY DEF LoopInv, Types
<1>1. EmptyState \in AgentState
  BY EmptySeq DEF EmptyState, AgentState
<1>2. ASSUME NEW m \in Steers, Steer(m)
      PROVE  steering' \in Seq(SteerMessages)
  <2>1. User(m) \in SteerMessages
    BY DEF User, SteerMessages
  <2> QED  BY <1>0, <1>2, <2>1, AppendProperties DEF Steer
<1>3. ASSUME NEW m \in FollowUps, FollowUp(m)
      PROVE  followUps' \in Seq(FollowUpMessages)
  <2>1. User(m) \in FollowUpMessages
    BY DEF User, FollowUpMessages
  <2> QED  BY <1>0, <1>3, <2>1, AppendProperties DEF FollowUp
<1>4. <<>> \in Seq(SteerMessages) /\ <<>> \in Seq(FollowUpMessages)
  BY EmptySeq
<1> QED  BY <1>0, <1>1, <1>2, <1>3, <1>4 DEF Steer, FollowUp, ClearAllQueues, Abort, Reset

-----------------------------------------------------------------------------
(* The batch in the next state.                                            *)

LEMMA BatchKept ==
  ASSUME loop'.batch = loop.batch
  PROVE  /\ Answer' = Answer /\ Batch' = Batch /\ Results' = Results /\ Prepared' = Prepared
         /\ Runners(loop)' = Runners(loop) /\ \A i : Call(i)' = Call(i)
  BY DEF Answer, Batch, Results, Prepared, Runners, Call

LEMMA OutcomeAdded ==
  ASSUME loop \in LoopRecord, NEW o \in OutcomeRecord,
         loop'.batch = [loop.batch EXCEPT !.outcomes = Append(Batch.outcomes, o)]
  PROVE  /\ Answer' = Answer /\ Batch'.mode = Batch.mode /\ Results' = Results
         /\ Prepared' = Prepared + 1 /\ \A i : Call(i)' = Call(i)
         /\ o.kind = "runner" => Runners(loop)' = Runners(loop) \cup {Prepared + 1}
         /\ o.kind # "runner" => Runners(loop)' = Runners(loop)
         /\ \A i \in 1..Prepared : Batch'.outcomes[i] = Batch.outcomes[i]
<1>1. /\ loop.batch \in BatchRecord /\ Batch.outcomes \in Seq(OutcomeRecord)
      /\ Prepared \in Nat /\ Prepared = Len(Batch.outcomes)
  BY LoopFields, BatchFields DEF Prepared
<1> SUFFICES ASSUME NEW longer, longer = Append(Batch.outcomes, o),
                    loop'.batch = [loop.batch EXCEPT !.outcomes = longer]
             PROVE  /\ Answer' = Answer /\ Batch'.mode = Batch.mode /\ Results' = Results
                    /\ Prepared' = Prepared + 1 /\ \A i : Call(i)' = Call(i)
                    /\ o.kind = "runner" => Runners(loop)' = Runners(loop) \cup {Prepared + 1}
                    /\ o.kind # "runner" => Runners(loop)' = Runners(loop)
                    /\ \A i \in 1..Prepared : Batch'.outcomes[i] = Batch.outcomes[i]
  OBVIOUS
<1>2. /\ longer \in Seq(OutcomeRecord) /\ Len(longer) = Prepared + 1
      /\ \A i \in 1..Prepared : longer[i] = Batch.outcomes[i]
      /\ longer[Prepared + 1] = o
  BY <1>1, AppendProperties
<1>3. /\ loop'.batch.outcomes = longer /\ loop'.batch.answer = loop.batch.answer
      /\ loop'.batch.mode = loop.batch.mode /\ loop'.batch.results = loop.batch.results
  BY <1>1 DEF BatchRecord
<1>4. /\ Answer' = Answer /\ Batch'.mode = Batch.mode /\ Results' = Results
      /\ Prepared' = Prepared + 1 /\ \A i : Call(i)' = Call(i)
      /\ \A i \in 1..Prepared : Batch'.outcomes[i] = Batch.outcomes[i]
  BY <1>2, <1>3 DEF Answer, Batch, Results, Prepared, Call
<1>5. Runners(loop)' = {i \in 1..(Prepared + 1) : longer[i].kind = "runner"}
  BY <1>2, <1>3 DEF Runners
<1>6. Runners(loop) = {i \in 1..Prepared : longer[i].kind = "runner"}
  BY <1>1, <1>2 DEF Runners, Batch, Prepared
<1>7. 1..(Prepared + 1) = 1..Prepared \cup {Prepared + 1}
  BY <1>1
<1> QED  BY <1>2, <1>4, <1>5, <1>6, <1>7

LEMMA OutcomesReplaced ==
  ASSUME loop \in LoopRecord, NEW outcomes \in Seq(OutcomeRecord),
         loop'.batch = [loop.batch EXCEPT !.outcomes = outcomes],
         Len(outcomes) = Prepared, \A i \in 1..Prepared : outcomes[i].kind # "runner"
  PROVE  /\ Answer' = Answer /\ Batch'.mode = Batch.mode /\ Results' = Results
         /\ Prepared' = Prepared /\ \A i : Call(i)' = Call(i)
         /\ Runners(loop)' = {}
<1>1. loop.batch \in BatchRecord
  BY LoopFields
<1>2. /\ loop'.batch.outcomes = outcomes /\ loop'.batch.answer = loop.batch.answer
      /\ loop'.batch.mode = loop.batch.mode /\ loop'.batch.results = loop.batch.results
  BY <1>1 DEF BatchRecord
<1> QED  BY <1>2 DEF Answer, Batch, Results, Prepared, Call, Runners

LEMMA ResultAdded ==
  ASSUME loop \in LoopRecord, NEW r \in ResultMessages,
         loop'.batch = [loop.batch EXCEPT !.results = Append(Results, r)]
  PROVE  /\ Answer' = Answer /\ Batch'.mode = Batch.mode
         /\ Prepared' = Prepared /\ \A i : Call(i)' = Call(i)
         /\ Runners(loop)' = Runners(loop)
         /\ Results' = Append(Results, r) /\ Len(Results') = Len(Results) + 1
         /\ \A k \in 1..Len(Results) : Results'[k] = Results[k]
         /\ Results'[Len(Results) + 1] = r
<1>1. loop.batch \in BatchRecord /\ Results \in Seq(ResultMessages)
  BY LoopFields, BatchFields
<1> SUFFICES ASSUME NEW longer, longer = Append(Results, r),
                    loop'.batch = [loop.batch EXCEPT !.results = longer]
             PROVE  /\ Answer' = Answer /\ Batch'.mode = Batch.mode
                    /\ Prepared' = Prepared /\ \A i : Call(i)' = Call(i)
                    /\ Runners(loop)' = Runners(loop)
                    /\ Results' = longer /\ Len(Results') = Len(Results) + 1
                    /\ \A k \in 1..Len(Results) : Results'[k] = Results[k]
                    /\ Results'[Len(Results) + 1] = r
  OBVIOUS
<1>2. /\ longer \in Seq(ResultMessages) /\ Len(longer) = Len(Results) + 1
      /\ \A k \in 1..Len(Results) : longer[k] = Results[k]
      /\ longer[Len(Results) + 1] = r
  BY <1>1, AppendProperties
<1>3. /\ loop'.batch.results = longer /\ loop'.batch.answer = loop.batch.answer
      /\ loop'.batch.mode = loop.batch.mode /\ loop'.batch.outcomes = loop.batch.outcomes
  BY <1>1 DEF BatchRecord
<1> QED  BY <1>2, <1>3 DEF Answer, Batch, Results, Prepared, Call, Runners

LEMMA NoBatchSound ==
  ASSUME loop'.pc \notin WithAnswer, loop'.batch = NoBatch
  PROVE  BatchInv'
<1>1. Runners(loop)' = {}
  BY DEF Runners, NoBatch
<1>2. loop'.pc \notin Handling \cup {"answered", "last_turn"}
  BY DEF WithAnswer
<1> QED  BY <1>1, <1>2 DEF BatchInv, Handling

\* The types of a step of the run from one place to another.
LEMMA StaysTyped ==
  ASSUME LoopInv, loop' \in LoopRecord, state' \in AgentState,
         steering' = steering \/ steering' = Left(steering),
         followUps' = followUps \/ followUps' = Left(followUps),
         active' = (loop'.pc # "idle"), aborted' \in BOOLEAN, runs' \in Nat, answers' \in Nat,
         DOMAIN tasks' \subseteq Calls, \A c \in DOMAIN tasks' : tasks'[c] \in TaskStates
  PROVE  Types'
<1>1. Left(steering) \in Seq(SteerMessages) /\ Left(followUps) \in Seq(FollowUpMessages)
  BY DrainedIs DEF LoopInv, Types
<1>2. steering' \in Seq(SteerMessages) /\ followUps' \in Seq(FollowUpMessages)
  BY <1>1 DEF LoopInv, Types
<1> QED  BY <1>2 DEF Types

\* A step of the run alone.
LEMMA RunStaysTyped ==
  ASSUME LoopInv, RunOnly, loop' \in LoopRecord, state' \in AgentState,
         loop.pc # "idle", loop'.pc # "idle"
  PROVE  Types'
  BY StaysTyped DEF LoopInv, Types, RunOnly, QueuesKept

LEMMA OpeningKeeps ==
  ASSUME LoopInv, FirstTurn \/ StartInjecting \/ EndInjecting \/ Request \/ StreamStart
  PROVE  LoopInv'
<1>0. /\ loop.pc \in Opening \cup {"request"}
      /\ loop.pc # "idle" /\ loop.batch = NoBatch
  BY DEF FirstTurn, StartInjecting, EndInjecting, Request, StreamStart, CanInject, At,
         Opening, LoopInv, BatchInv, WithAnswer, Handling
<1>1. CASE FirstTurn
  <2>1. At("agent_start") /\ Moves(loop, "turn_start") /\ NothingSaid /\ RunOnly
    BY <1>1, OpeningMoves
  <2>2. Types'
    BY <1>0, <2>1, RunStaysTyped DEF Moves, NothingSaid, Becomes
  <2>3. Shape'
    BY <2>1 DEF LoopInv, Shape, Moves, Opening
  <2>4. BatchInv'
    BY <1>0, <2>1, NoBatchSound DEF Moves, WithAnswer, Handling
  <2> QED  BY <2>2, <2>3, <2>4 DEF LoopInv
<1>2. CASE StartInjecting
  <2>1. Injected.inject # <<>> /\ Moves(Injected, "inject") /\ NothingSaid /\ RunOnly
        /\ SameBut(Injected, {"inject", "context", "new"})
    BY <1>2, OpeningMoves, InjectedIs DEF LoopInv
  <2>2. Types'
    BY <1>0, <2>1, RunStaysTyped DEF Moves, NothingSaid, Becomes
  <2>3. Shape'
    BY <2>1 DEF Shape, Moves, Opening
  <2>4. BatchInv'
    BY <1>0, <2>1, NoBatchSound DEF Moves, SameBut, WithAnswer, Handling
  <2> QED  BY <2>2, <2>3, <2>4 DEF LoopInv
<1>3. CASE EndInjecting
  <2>1. At("inject") /\ Moves(loop, "injected") /\ Arrives(Head(loop.inject)) /\ RunOnly
    BY <1>3, OpeningMoves
  <2>2. Types'
    BY <1>0, <2>1, RunStaysTyped DEF Moves, Arrives, Becomes
  <2>3. Shape'
    BY <2>1 DEF LoopInv, Shape, Moves, Opening, At
  <2>4. BatchInv'
    BY <1>0, <2>1, NoBatchSound DEF Moves, WithAnswer, Handling
  <2> QED  BY <2>2, <2>3, <2>4 DEF LoopInv
<1>4. CASE Request
  <2>1. /\ Injected.inject = <<>> /\ ~loop.prompts
        /\ Moves(Injected, "request") /\ NothingSaid /\ RunOnly
        /\ SameBut(Injected, {"inject", "context", "new"})
    BY <1>4, OpeningMoves, InjectedIs DEF LoopInv
  <2>2. Types'
    BY <1>0, <2>1, RunStaysTyped DEF Moves, NothingSaid, Becomes
  <2>3. Shape'
    BY <2>1 DEF Shape, Moves, SameBut, Opening
  <2>4. BatchInv'
    BY <1>0, <2>1, NoBatchSound DEF Moves, SameBut, WithAnswer, Handling
  <2> QED  BY <2>2, <2>3, <2>4 DEF LoopInv
<1>5. CASE StreamStart
  <2>1. /\ At("request") /\ Partial \in AnswerMessages
        /\ loop' \in LoopRecord /\ loop'.pc = "streaming" /\ loop'.prompts = loop.prompts
        /\ loop'.inject = loop.inject /\ loop'.batch = loop.batch
        /\ loop'.context = Append(loop.context, Partial)
        /\ NothingSaid /\ RunOnly
    BY <1>5, StreamStartMoves
  <2>2. Types'
    BY <1>0, <2>1, RunStaysTyped DEF NothingSaid, Becomes
  <2>3. loop'.context # <<>>
    <3>1. loop.context \in Seq(Messages) /\ Partial \in Messages
      BY <2>1, LoopFields, MessageKinds DEF LoopInv, Types
    <3> QED  BY <2>1, <3>1, AppendProperties
  <2>4. Shape'
    BY <2>1, <2>3 DEF LoopInv, Shape, Opening, At
  <2>5. BatchInv'
    BY <1>0, <2>1, NoBatchSound DEF WithAnswer, Handling
  <2> QED  BY <2>2, <2>4, <2>5 DEF LoopInv
<1> QED  BY <1>1, <1>2, <1>3, <1>4, <1>5

LEMMA PollKeeps ==
  ASSUME LoopInv, FirstPoll \/ TurnWithSteering \/ TurnWithFollowUps
  PROVE  LoopInv'
<1>1. CASE FirstPoll
  <2>1. /\ CanInject /\ loop' \in LoopRecord
        /\ loop'.pc = "polled" /\ ~loop'.prompts /\ loop'.batch = loop.batch
        /\ steering' = IF loop.skip THEN steering ELSE Left(steering)
        /\ NothingSaid
        /\ UNCHANGED <<mode, followUps, active, aborted, runs, tasks, answers>>
    BY <1>1, FirstPollMoves
  <2>2. loop.pc # "idle" /\ loop.batch = NoBatch
    BY <2>1 DEF CanInject, LoopInv, BatchInv, WithAnswer, Handling
  <2>3. Types'
    BY <2>1, <2>2, StaysTyped DEF LoopInv, Types, NothingSaid, Becomes
  <2>4. Shape'
    BY <2>1 DEF Shape, Opening
  <2>5. BatchInv'
    BY <2>1, <2>2, NoBatchSound DEF WithAnswer, Handling
  <2> QED  BY <2>3, <2>4, <2>5 DEF LoopInv
<1>2. ASSUME NEW messages \in Seq(UserMessages), At("turn_end"), NextTurn(messages),
             steering' = steering \/ steering' = Left(steering),
             followUps' = followUps \/ followUps' = Left(followUps),
             UNCHANGED <<active, aborted, runs, tasks, answers>>
      PROVE  LoopInv'
  <2>1. /\ loop' \in LoopRecord /\ loop'.pc = "turn_start" /\ loop'.prompts = loop.prompts
        /\ loop'.batch = NoBatch /\ NothingSaid
    BY <1>2, NextTurnMoves
  <2>2. Types'
    BY <1>2, <2>1, StaysTyped DEF LoopInv, Types, NothingSaid, Becomes, At
  <2>3. Shape'
    BY <1>2, <2>1 DEF LoopInv, Shape, Opening, At
  <2>4. BatchInv'
    BY <2>1, NoBatchSound DEF WithAnswer, Handling
  <2> QED  BY <2>2, <2>3, <2>4 DEF LoopInv
<1> QED  BY <1>1, <1>2, TurnMoves

LEMMA AnswerKeeps ==
  ASSUME LoopInv, StreamEnd \/ ErrorTurn \/ PlainTurn \/ LastTurn \/ NothingLeft \/ StopAfterTurn
  PROVE  LoopInv'
<1>1. CASE StreamEnd
  <2>1. PICK final \in AnswerMessages :
           /\ At("streaming")
           /\ final.id = answers + 1 /\ final.stop # "partial"
           /\ final.calls > 0 => final.id <= MaxAsking
           /\ loop' \in LoopRecord /\ loop'.pc = "answered"
           /\ loop'.prompts = loop.prompts /\ loop'.inject = loop.inject
           /\ loop'.batch = [loop.batch EXCEPT !.answer = final]
           /\ Arrives(final)
           /\ answers' = answers + 1
           /\ QueuesKept /\ UNCHANGED <<mode, tasks>>
    BY <1>1, StreamEndMoves
  <2>2. Types'
    BY <2>1, StaysTyped DEF LoopInv, Types, QueuesKept, Arrives, Becomes, At
  <2>3. Shape'
    BY <2>1 DEF LoopInv, Shape, Opening, At
  <2>4. /\ loop'.batch.answer = final /\ loop'.batch.mode = "none"
        /\ loop'.batch.outcomes = <<>> /\ loop'.batch.results = <<>>
    <3>1. loop.batch = NoBatch
      BY <2>1 DEF LoopInv, BatchInv, WithAnswer, Handling, At
    <3> QED  BY <2>1, <3>1 DEF NoBatch
  <2>5. Answer' = final /\ Batch'.mode = "none" /\ Batch'.outcomes = <<>> /\ Results' = <<>>
    BY <2>4 DEF Answer, Batch, Results
  <2>6. Runners(loop)' = {}
    BY <2>4 DEF Runners
  <2>7. Answer'.id \in 1..answers'
    BY <2>1, <2>5 DEF LoopInv, Types
  <2>8. BatchInv'
    BY <2>1, <2>5, <2>6, <2>7 DEF BatchInv, WithAnswer, Handling
  <2> QED  BY <2>2, <2>3, <2>8 DEF LoopInv
<1>2. ASSUME loop.pc \in {"answered", "last_turn", "turn_end"}, RunOnly, NothingSaid,
             loop' \in LoopRecord, loop'.pc \in {"last_turn", "turn_end", "agent_end"},
             loop'.pc = "last_turn" => loop.pc = "answered",
             loop'.prompts = loop.prompts, loop'.inject = loop.inject, loop'.batch = loop.batch
      PROVE  LoopInv'
  <2>1. Types'
    BY <1>2, RunStaysTyped DEF NothingSaid, Becomes
  <2>2. Shape'
    BY <1>2 DEF LoopInv, Shape, Opening
  <2>3. BatchInv'
    <3>1. Runners(loop) = {}
      BY <1>2 DEF LoopInv, BatchInv
    <3> QED  BY <1>2, <3>1, BatchKept
             DEF LoopInv, BatchInv, WithAnswer, Handling, RunOnly
  <2> QED  BY <2>1, <2>2, <2>3 DEF LoopInv
<1>3. CASE ErrorTurn \/ PlainTurn
  <2>1. /\ At("answered")
        /\ Moves(Answered, "last_turn") \/ Moves(Answered, "turn_end")
        /\ NothingSaid /\ RunOnly
    BY <1>3, AnsweredMoves
  <2>2. SameBut(Answered, {"new"})
    BY <2>1, AnsweredIs DEF LoopInv, Types, BatchInv, WithAnswer, At
  <2>3. /\ loop' \in LoopRecord /\ loop'.pc \in {"last_turn", "turn_end"}
        /\ loop'.prompts = loop.prompts /\ loop'.inject = loop.inject /\ loop'.batch = loop.batch
    BY <2>1, <2>2 DEF Moves, SameBut
  <2> QED  BY <1>2, <2>1, <2>3 DEF At
<1>4. CASE LastTurn \/ NothingLeft \/ StopAfterTurn
  <2>1. /\ loop.pc \in {"last_turn", "turn_end"}
        /\ Moves(loop, "agent_end") /\ NothingSaid /\ RunOnly
    BY <1>4, EndingMoves
  <2> QED  BY <1>2, <2>1 DEF Moves
<1> QED  BY <1>1, <1>3, <1>4

\* A step from one call of the batch to another.
LEMMA StaysInBatch ==
  ASSUME LoopInv, loop.pc \in Handling, RunOnly, loop' \in LoopRecord, loop'.pc \in Handling,
         state' \in AgentState, loop'.prompts = loop.prompts, loop'.inject = loop.inject
  PROVE  Types' /\ Shape'
<1>1. Types'
  BY RunStaysTyped DEF Handling
<1>2. Shape'
  BY DEF LoopInv, Shape, Opening, Handling
<1> QED  BY <1>1, <1>2

LEMMA CallsKeep ==
  ASSUME LoopInv, BeginBatch \/ FailCall \/ CallExecuted \/ ExecuteCall
  PROVE  LoopInv'
<1>1. CASE BeginBatch
  <2>1. PICK how \in {"truncated", "sequential", "parallel"} :
           /\ At("answered") /\ Answer.stop # "error" /\ Answer.calls > 0
           /\ loop' \in LoopRecord /\ loop'.pc = "tool_start"
           /\ loop'.prompts = loop.prompts /\ loop'.inject = loop.inject
           /\ loop'.batch = [loop.batch EXCEPT !.mode = how]
           /\ state' \in AgentState /\ RunOnly
    BY <1>1, BeginBatchMoves DEF Becomes
  <2>2. Types'
    BY <2>1, RunStaysTyped DEF At
  <2>3. Shape'
    BY <2>1 DEF LoopInv, Shape, Opening, At
  <2>4. /\ Answer \in AnswerMessages /\ Answer.stop # "partial" /\ Answer.id \in 1..answers
        /\ Answer.calls > 0 => Answer.id <= MaxAsking
        /\ Batch.outcomes = <<>> /\ Results = <<>>
        /\ Answer.calls \in Nat
    BY <2>1, LoopAssumption DEF LoopInv, BatchInv, WithAnswer, At, AnswerMessages
  <2>5. /\ loop'.batch.answer = loop.batch.answer /\ loop'.batch.mode = how
        /\ loop'.batch.outcomes = loop.batch.outcomes /\ loop'.batch.results = loop.batch.results
    BY <2>1, LoopFields DEF LoopInv, Types, BatchRecord
  <2>6. /\ Answer' = Answer /\ Batch'.mode = how /\ Prepared' = 0 /\ Results' = <<>>
        /\ Runners(loop)' = {}
    BY <2>4, <2>5 DEF Answer, Batch, Results, Prepared, Runners
  <2>7. BatchInv'
    BY <2>1, <2>4, <2>6 DEF BatchInv, WithAnswer, Handling, RunOnly
  <2> QED  BY <2>2, <2>3, <2>7 DEF LoopInv
<1>2. CASE FailCall \/ CallExecuted
  <2>1. PICK o \in OutcomeRecord :
           /\ loop.pc \in {"tool_start", "executing"} /\ o.kind # "runner"
           /\ SameBut(AddOutcome(o), {"batch"}) /\ Moves(AddOutcome(o), "tool_end")
           /\ AddOutcome(o).batch = [loop.batch EXCEPT !.outcomes = Append(Batch.outcomes, o)]
           /\ state' \in AgentState /\ RunOnly
    BY <1>2, OutcomeMoves DEF Becomes
  <2>2. /\ loop' \in LoopRecord /\ loop'.pc = "tool_end"
        /\ loop'.prompts = loop.prompts /\ loop'.inject = loop.inject
        /\ loop'.batch = [loop.batch EXCEPT !.outcomes = Append(Batch.outcomes, o)]
    BY <2>1 DEF Moves, SameBut
  <2>3. Types' /\ Shape'
    BY <2>1, <2>2, StaysInBatch DEF Handling
  <2>4. /\ Answer' = Answer /\ Batch'.mode = Batch.mode /\ Results' = Results
        /\ Prepared' = Prepared + 1 /\ \A i : Call(i)' = Call(i)
        /\ Runners(loop)' = Runners(loop)
    BY <2>1, <2>2, OutcomeAdded DEF LoopInv, Types
  <2>5. /\ Answer \in AnswerMessages /\ Answer.stop # "partial" /\ Answer.id \in 1..answers
        /\ Answer.calls > 0 => Answer.id <= MaxAsking
        /\ Answer.stop # "error" /\ Batch.mode # "none"
        /\ Prepared < Answer.calls /\ Len(Results) <= Prepared
        /\ \A k \in 1..Len(Results) : Results[k] = ToolResult(Call(k))
        /\ Batch.mode = "parallel" => Results = <<>>
        /\ Batch.mode # "parallel" => Len(Results) = Prepared
        /\ loop.pc = "executing" => Batch.mode = "sequential"
        /\ \A i \in Runners(loop) : Batch.mode = "parallel"
    BY <2>1 DEF LoopInv, BatchInv, WithAnswer, Handling
  <2>6. Prepared \in Nat /\ Len(Results) \in Nat /\ Answer.calls \in Nat
    BY <2>5, BatchFields, LoopAssumption DEF LoopInv, Types, AnswerMessages
  <2>7. Prepared + 1 <= Answer.calls /\ Len(Results) < Prepared + 1
    BY <2>5, <2>6
  <2>8. BatchInv'
    BY <2>1, <2>2, <2>4, <2>5, <2>6, <2>7 DEF BatchInv, WithAnswer, Handling, RunOnly
  <2> QED  BY <2>3, <2>8 DEF LoopInv
<1>3. CASE ExecuteCall
  <2>1. /\ At("tool_start") /\ Batch.mode = "sequential" /\ RunOnly
        /\ loop' \in LoopRecord /\ loop'.pc = "executing" /\ state' \in AgentState
        /\ loop'.prompts = loop.prompts /\ loop'.inject = loop.inject /\ loop'.batch = loop.batch
    BY <1>3, ResultMoves DEF Moves, NothingSaid, Becomes
  <2>2. Types' /\ Shape'
    BY <2>1, StaysInBatch DEF Handling, At
  <2>3. BatchInv'
    BY <2>1, BatchKept DEF LoopInv, BatchInv, WithAnswer, Handling, At, RunOnly
  <2> QED  BY <2>2, <2>3 DEF LoopInv
<1> QED  BY <1>1, <1>2, <1>3

LEMMA ResultsKeep ==
  ASSUME LoopInv, SequentialResult \/ EndResult \/ SequentialNext \/ ParallelNext
  PROVE  LoopInv'
<1>0. ASSUME loop.pc \in Handling
      PROVE  /\ Answer \in AnswerMessages /\ Prepared \in Nat /\ Len(Results) \in Nat
             /\ Answer.calls \in Nat
  BY <1>0, BatchFields, LoopAssumption
     DEF LoopInv, Types, BatchInv, WithAnswer, AnswerMessages
<1>1. CASE SequentialResult
  <2>1. /\ At("tool_end") /\ Batch.mode # "parallel" /\ RunOnly
        /\ loop' \in LoopRecord /\ loop'.pc = "result_start" /\ state' \in AgentState
        /\ loop'.prompts = loop.prompts /\ loop'.inject = loop.inject /\ loop'.batch = loop.batch
    BY <1>1, ResultMoves DEF SequentialResult, Moves, NothingSaid, Becomes
  <2>2. Types' /\ Shape'
    BY <2>1, StaysInBatch DEF Handling, At
  <2>3. /\ Answer \in AnswerMessages /\ Answer.stop # "partial" /\ Answer.id \in 1..answers
        /\ Answer.calls > 0 => Answer.id <= MaxAsking
        /\ Answer.stop # "error" /\ Batch.mode # "none"
        /\ Prepared <= Answer.calls /\ Len(Results) + 1 = Prepared /\ Len(Results) < Prepared
        /\ Len(Results) <= Prepared
        /\ \A k \in 1..Len(Results) : Results[k] = ToolResult(Call(k))
        /\ Runners(loop) = {}
    BY <2>1 DEF LoopInv, BatchInv, WithAnswer, Handling, At
  <2>4. BatchInv'
    BY <2>1, <2>3, BatchKept DEF BatchInv, WithAnswer, Handling, RunOnly
  <2> QED  BY <2>2, <2>4 DEF LoopInv
<1>2. CASE ParallelNext
  <2>1. /\ At("result_end") /\ Batch.mode = "parallel" /\ Len(Results) < Prepared /\ RunOnly
        /\ loop' \in LoopRecord /\ loop'.pc = "result_start" /\ state' \in AgentState
        /\ loop'.prompts = loop.prompts /\ loop'.inject = loop.inject /\ loop'.batch = loop.batch
    BY <1>2, ResultMoves DEF ParallelNext, Moves, NothingSaid, Becomes, Results
  <2>2. Types' /\ Shape'
    BY <2>1, StaysInBatch DEF Handling, At
  <2>3. BatchInv'
    BY <2>1, BatchKept DEF LoopInv, BatchInv, WithAnswer, Handling, At, RunOnly, QueuesKept
  <2> QED  BY <2>2, <2>3 DEF LoopInv
<1>3. CASE SequentialNext
  <2>1. /\ At("result_end") /\ Batch.mode # "parallel" /\ RunOnly /\ Prepared < Answer.calls
        /\ loop' \in LoopRecord /\ loop'.pc = "tool_start" /\ state' \in AgentState
        /\ loop'.prompts = loop.prompts /\ loop'.inject = loop.inject /\ loop'.batch = loop.batch
    BY <1>3, ResultMoves DEF SequentialNext, Moves, Becomes
  <2>2. Types' /\ Shape'
    BY <2>1, StaysInBatch DEF Handling, At
  <2>3. BatchInv'
    BY <2>1, BatchKept DEF LoopInv, BatchInv, WithAnswer, Handling, At, RunOnly
  <2> QED  BY <2>2, <2>3 DEF LoopInv
<1>4. CASE EndResult
  <2>1. /\ At("result_start") /\ NextResult \in ResultMessages
        /\ loop' \in LoopRecord /\ loop'.pc = "result_end" /\ state' \in AgentState
        /\ loop'.prompts = loop.prompts /\ loop'.inject = loop.inject
        /\ loop'.batch = [loop.batch EXCEPT !.results = Append(Results, NextResult)]
        /\ RunOnly
    BY <1>4, EndResultMoves DEF Arrives, Becomes
  <2>2. Types' /\ Shape'
    BY <2>1, StaysInBatch DEF Handling, At
  <2>3. /\ Answer' = Answer /\ Batch'.mode = Batch.mode
        /\ Prepared' = Prepared /\ \A i : Call(i)' = Call(i)
        /\ Runners(loop)' = Runners(loop) /\ Len(Results') = Len(Results) + 1
        /\ \A k \in 1..Len(Results) : Results'[k] = Results[k]
        /\ Results'[Len(Results) + 1] = NextResult
    BY <2>1, ResultAdded DEF LoopInv, Types
  <2>4. /\ Answer.stop # "partial" /\ Answer.id \in 1..answers
        /\ Answer.calls > 0 => Answer.id <= MaxAsking
        /\ Answer.stop # "error" /\ Batch.mode # "none"
        /\ Prepared <= Answer.calls /\ Len(Results) < Prepared
        /\ \A k \in 1..Len(Results) : Results[k] = ToolResult(Call(k))
        /\ Batch.mode = "parallel" /\ ~aborted => Prepared = Answer.calls
        /\ Batch.mode # "parallel" => Len(Results) + 1 = Prepared
        /\ Runners(loop) = {}
    BY <2>1 DEF LoopInv, BatchInv, WithAnswer, Handling, At
  <2>5. loop.pc \in Handling
    BY <2>1 DEF At, Handling
  <2>6. \A k \in 1..Len(Results') : Results'[k] = ToolResult(Call(k)')
    <3>1. NextResult = ToolResult(Call(Len(Results) + 1))
      BY DEF NextResult, Results
    <3> QED  BY <1>0, <2>3, <2>4, <2>5, <3>1
  <2>7. BatchInv'
    BY <1>0, <2>1, <2>3, <2>4, <2>5, <2>6 DEF BatchInv, WithAnswer, Handling, RunOnly,
       QueuesKept
  <2> QED  BY <2>2, <2>7 DEF LoopInv
<1> QED  BY <1>1, <1>2, <1>3, <1>4

LEMMA SpawnKeeps ==
  ASSUME LoopInv, PrepareRunner \/ AfterImmediate \/ Joined \/ FinishBatch
  PROVE  LoopInv'
<1>0. ASSUME loop.pc \in Handling
      PROVE  /\ Answer \in AnswerMessages /\ Prepared \in Nat /\ Len(Results) \in Nat
             /\ Answer.calls \in Nat
             /\ Answer.stop # "partial" /\ Answer.id \in 1..answers
             /\ Answer.calls > 0 => Answer.id <= MaxAsking
             /\ Answer.stop # "error" /\ Batch.mode # "none"
             /\ Prepared <= Answer.calls /\ Len(Results) <= Prepared
             /\ \A k \in 1..Len(Results) : Results[k] = ToolResult(Call(k))
  BY <1>0, BatchFields, LoopAssumption
     DEF LoopInv, Types, BatchInv, WithAnswer, AnswerMessages
\* Tools that start leave the locals of the run in their types.
<1>1. ASSUME NEW l, Spawns(l), loop.pc \in Handling,
             l.prompts = loop.prompts, l.inject = loop.inject,
             \A i \in Runners(l) : i \in 1..Answer.calls
      PROVE  Types' /\ Shape'
  <2>1. /\ DOMAIN tasks' = DOMAIN tasks \cup {Call(i) : i \in Runners(l)}
        /\ \A c \in DOMAIN tasks' :
             tasks'[c] = IF c \in {Call(i) : i \in Runners(l)} THEN "running" ELSE tasks[c]
        /\ loop' \in LoopRecord /\ loop'.pc = "join" /\ state' \in AgentState
        /\ loop'.prompts = loop.prompts /\ loop'.inject = loop.inject
        /\ UNCHANGED <<steering, followUps, active, aborted, runs, answers>>
    BY <1>1 DEF Spawns, Moves, NothingSaid, Becomes, agentVars
  <2>2. {Call(i) : i \in Runners(l)} \subseteq Calls
    BY <1>1, CallTyped DEF Handling
  <2>3. DOMAIN tasks' \subseteq Calls /\ \A c \in DOMAIN tasks' : tasks'[c] \in TaskStates
    BY <2>1, <2>2 DEF LoopInv, Types, TaskStates
  <2>4. Types'
    BY <1>1, <2>1, <2>3, StaysTyped DEF LoopInv, Types, Handling
  <2>5. Shape'
    BY <1>1, <2>1 DEF LoopInv, Shape, Opening, Handling
  <2> QED  BY <2>4, <2>5
<1>2. CASE PrepareRunner
  <2>1. PICK o \in OutcomeRecord :
           /\ At("tool_start") /\ Batch.mode = "parallel" /\ ~aborted /\ o.kind = "runner"
           /\ SameBut(AddOutcome(o), {"batch"})
           /\ AddOutcome(o).batch = [loop.batch EXCEPT !.outcomes = Append(Batch.outcomes, o)]
           /\ \/ /\ Prepared + 1 < Answer.calls
                 /\ Moves(AddOutcome(o), "tool_start") /\ RunOnly
                 /\ state' \in AgentState
              \/ ~(Prepared + 1 < Answer.calls) /\ Spawns(AddOutcome(o))
    BY <1>2, RunnerMoves DEF Becomes
  <2>2. /\ loop' \in LoopRecord /\ loop'.pc \in {"tool_start", "join"}
        /\ loop'.prompts = loop.prompts /\ loop'.inject = loop.inject
        /\ loop'.batch = [loop.batch EXCEPT !.outcomes = Append(Batch.outcomes, o)]
        /\ loop'.batch = AddOutcome(o).batch
        /\ aborted' = aborted /\ answers' = answers
    BY <2>1 DEF Spawns, Moves, SameBut, RunOnly, QueuesKept, agentVars
  <2>3. /\ Answer' = Answer /\ Batch'.mode = Batch.mode /\ Results' = Results
        /\ Prepared' = Prepared + 1 /\ \A i : Call(i)' = Call(i)
        /\ Runners(loop)' = Runners(loop) \cup {Prepared + 1}
    BY <2>1, <2>2, OutcomeAdded DEF LoopInv, Types
  <2>4. /\ loop.pc \in Handling /\ Prepared < Answer.calls /\ Results = <<>>
        /\ Prepared + 1 \in 1..Answer.calls /\ Prepared \in Nat /\ Len(Results) = 0
    <3>1. loop.pc \in Handling /\ Prepared < Answer.calls /\ Results = <<>>
      BY <2>1 DEF LoopInv, BatchInv, Handling, At
    <3> QED  BY <1>0, <3>1
  <2>5. Types' /\ Shape'
    <3>1. CASE RunOnly /\ loop'.pc = "tool_start" /\ state' \in AgentState
      BY <2>2, <2>4, <3>1, StaysInBatch DEF Handling
    <3>2. CASE Spawns(AddOutcome(o))
      <4>1. Runners(AddOutcome(o)) = Runners(loop) \cup {Prepared + 1}
        BY <2>2, <2>3 DEF Runners
      <4>2. Runners(loop) \subseteq 1..Prepared
        BY DEF Runners, Prepared, Batch
      <4>3. \A i \in Runners(AddOutcome(o)) : i \in 1..Answer.calls
        BY <1>0, <2>4, <4>1, <4>2
      <4> QED  BY <1>1, <2>1, <2>4, <3>2, <4>3 DEF SameBut
    <3> QED  BY <2>1, <3>1, <3>2 DEF Moves
  <2>6. loop'.pc = "tool_start" => Prepared + 1 < Answer.calls
    BY <2>1 DEF Spawns, Moves
  <2>7. loop'.pc = "join" => Prepared + 1 = Answer.calls
    BY <1>0, <2>1, <2>4 DEF Spawns, Moves
  <2>8. BatchInv'
    BY <1>0, <2>1, <2>2, <2>3, <2>4, <2>6, <2>7 DEF BatchInv, WithAnswer, Handling
  <2> QED  BY <2>5, <2>8 DEF LoopInv
<1>3. CASE AfterImmediate
  <2>1. /\ At("tool_end") /\ Batch.mode = "parallel"
        /\ \/ /\ Prepared < Answer.calls /\ ~aborted
              /\ Moves(loop, "tool_start") /\ RunOnly /\ state' \in AgentState
           \/ (Prepared = Answer.calls \/ aborted) /\ Spawns(loop)
    BY <1>3, ImmediateMoves DEF Becomes
  <2>2. /\ loop' \in LoopRecord /\ loop'.pc \in {"tool_start", "join"}
        /\ loop'.prompts = loop.prompts /\ loop'.inject = loop.inject
        /\ loop'.batch = loop.batch
        /\ aborted' = aborted /\ answers' = answers
    BY <2>1 DEF Spawns, Moves, RunOnly, QueuesKept, agentVars
  <2>3. loop.pc \in Handling /\ Results = <<>> /\ Len(Results) < Prepared
    BY <2>1 DEF LoopInv, BatchInv, Handling, At
  <2>4. Types' /\ Shape'
    <3>1. CASE RunOnly /\ loop'.pc = "tool_start" /\ state' \in AgentState
      BY <2>2, <2>3, <3>1, StaysInBatch DEF Handling
    <3>2. CASE Spawns(loop)
      <4>1. Runners(loop) \subseteq 1..Prepared
        BY DEF Runners, Prepared, Batch
      <4>2. \A i \in Runners(loop) : i \in 1..Answer.calls
        BY <1>0, <2>3, <4>1
      <4> QED  BY <1>1, <2>3, <3>2, <4>2
    <3> QED  BY <2>1, <3>1, <3>2 DEF Moves
  <2>5. loop'.pc = "tool_start" => Prepared < Answer.calls
    BY <2>1 DEF Spawns, Moves
  <2>6. loop'.pc = "join" => Prepared = Answer.calls \/ aborted
    BY <2>1 DEF Spawns, Moves
  <2>7. BatchInv'
    BY <1>0, <2>1, <2>2, <2>3, <2>5, <2>6, BatchKept DEF BatchInv, WithAnswer, Handling
  <2> QED  BY <2>4, <2>7 DEF LoopInv
<1>4. CASE Joined
  <2>1. PICK outcomes \in Seq(OutcomeRecord) :
           /\ At("join")
           /\ loop' \in LoopRecord /\ loop'.pc = "result_start"
           /\ loop'.prompts = loop.prompts /\ loop'.inject = loop.inject
           /\ loop'.batch = [loop.batch EXCEPT !.outcomes = outcomes]
           /\ Len(outcomes) = Prepared
           /\ \A i \in 1..Prepared : outcomes[i].kind # "runner"
           /\ DOMAIN tasks' \subseteq DOMAIN tasks
           /\ \A c \in DOMAIN tasks' : tasks'[c] = tasks[c]
           /\ NothingSaid /\ QueuesKept /\ UNCHANGED <<mode, answers>>
    BY <1>4, JoinedMoves
  <2>2. Types'
    BY <2>1, StaysTyped DEF LoopInv, Types, QueuesKept, NothingSaid, Becomes, At
  <2>3. Shape'
    BY <2>1 DEF LoopInv, Shape, Opening, At
  <2>4. /\ Answer' = Answer /\ Batch'.mode = Batch.mode /\ Results' = Results
        /\ Prepared' = Prepared /\ \A i : Call(i)' = Call(i)
        /\ Runners(loop)' = {}
    BY <2>1, OutcomesReplaced DEF LoopInv, Types
  <2>5. /\ loop.pc \in Handling /\ Batch.mode = "parallel" /\ Len(Results) < Prepared
        /\ ~aborted => Prepared = Answer.calls
    BY <2>1 DEF LoopInv, BatchInv, Handling, At
  <2>6. BatchInv'
    BY <1>0, <2>1, <2>4, <2>5 DEF BatchInv, WithAnswer, Handling, QueuesKept
  <2> QED  BY <2>2, <2>3, <2>6 DEF LoopInv
<1>5. CASE FinishBatch
  <2>1. /\ At("result_end")
        /\ loop' \in LoopRecord /\ loop'.pc = "turn_end"
        /\ loop'.prompts = loop.prompts /\ loop'.inject = loop.inject
        /\ loop'.batch = loop.batch
        /\ state' \in AgentState /\ RunOnly
    BY <1>5, FinishBatchMoves DEF NothingSaid, Becomes
  <2>2. Types'
    BY <2>1, RunStaysTyped DEF At
  <2>3. Shape'
    BY <2>1 DEF LoopInv, Shape, Opening, At
  <2>4. loop.pc \in Handling /\ Runners(loop) = {}
    BY <2>1 DEF LoopInv, BatchInv, Handling, At
  <2>5. BatchInv'
    BY <1>0, <2>1, <2>4, BatchKept DEF BatchInv, WithAnswer, Handling, RunOnly
  <2> QED  BY <2>2, <2>3, <2>5 DEF LoopInv
<1> QED  BY <1>2, <1>3, <1>4, <1>5

LEMMA EndsKeep ==
  ASSUME LoopInv, Finish \/ FailAgain \/ CancelRun \/ Fail \/ ReportFailure
  PROVE  LoopInv'
<1>1. CASE Finish \/ FailAgain \/ CancelRun
  <2>1. /\ Settles
        /\ \/ UNCHANGED tasks
           \/ \E kept \in SUBSET AliveTasks : Keeps(kept)
    BY <1>1, SettlingMoves
  <2>2. /\ loop' \in LoopRecord /\ loop'.pc = "idle" /\ ~loop'.prompts /\ loop'.inject = <<>>
        /\ loop'.batch = NoBatch
    BY <2>1, IdleTyped DEF Settles
  <2>3. DOMAIN tasks' \subseteq Calls /\ \A c \in DOMAIN tasks' : tasks'[c] \in TaskStates
    BY <2>1 DEF LoopInv, Types, Keeps, AliveTasks
  <2>4. ~active' /\ ~aborted' /\ state' \in AgentState
        /\ UNCHANGED <<steering, followUps, runs, answers>>
    BY <2>1 DEF Settles
  <2>5. active' \in BOOLEAN /\ aborted' \in BOOLEAN
    BY <1>1 DEF Finish, FailAgain, CancelRun, Settle, FinishRun
  <2>6. Types'
    BY <2>2, <2>3, <2>4, <2>5, StaysTyped DEF LoopInv, Types
  <2>7. Shape'
    BY <2>2 DEF Shape, Opening
  <2>8. BatchInv'
    BY <2>2, NoBatchSound DEF WithAnswer, Handling
  <2> QED  BY <2>6, <2>7, <2>8 DEF LoopInv
<1>2. CASE Fail
  <2>1. /\ Failures /\ loop.pc \in Raising \cup {"join"}
        /\ Moves(Idle, "failure") /\ NothingSaid /\ Keeps(AliveTasks)
        /\ QueuesKept /\ UNCHANGED <<mode, answers>>
    BY <1>2, FailMoves
  <2>2. /\ loop' \in LoopRecord /\ loop'.pc = "failure" /\ ~loop'.prompts /\ loop'.inject = <<>>
        /\ loop'.batch = NoBatch
    BY <2>1, IdleTyped DEF Moves
  <2>3. DOMAIN tasks' \subseteq Calls /\ \A c \in DOMAIN tasks' : tasks'[c] \in TaskStates
    BY <2>1 DEF LoopInv, Types, Keeps, AliveTasks
  <2>4. loop.pc # "idle"
    BY <2>1 DEF Raising
  <2>5. Types'
    BY <2>1, <2>2, <2>3, <2>4, StaysTyped
       DEF LoopInv, Types, NothingSaid, Becomes, QueuesKept
  <2>6. Shape'
    BY <2>2 DEF Shape, Opening
  <2>7. BatchInv'
    BY <2>2, NoBatchSound DEF WithAnswer, Handling
  <2> QED  BY <2>5, <2>6, <2>7 DEF LoopInv
<1>3. CASE ReportFailure
  <2>1. PICK to \in Failing :
           /\ loop.pc \in Failing /\ Moves(loop, to) /\ state' \in AgentState /\ RunOnly
    BY <1>3, ReportMoves DEF Arrives, NothingSaid, Becomes
  <2>2. /\ loop' \in LoopRecord /\ loop'.pc = to /\ ~loop'.prompts /\ loop'.inject = <<>>
        /\ loop'.batch = NoBatch
    BY <2>1 DEF Moves, LoopInv, Shape, BatchInv, Failing, Opening, WithAnswer, Handling
  <2>3. Types'
    BY <2>1, <2>2, RunStaysTyped DEF Failing
  <2>4. Shape'
    BY <2>1, <2>2 DEF Shape, Opening, Failing
  <2>5. BatchInv'
    BY <2>1, <2>2, NoBatchSound DEF WithAnswer, Handling, Failing
  <2> QED  BY <2>3, <2>4, <2>5 DEF LoopInv
<1> QED  BY <1>1, <1>2, <1>3

LEMMA CallersKeep ==
  ASSUME LoopInv, Caller \/ UNCHANGED vars
  PROVE  LoopInv'
<1>1. ASSUME NEW messages, NEW skip \in BOOLEAN, Starts(messages, skip),
             steering' = steering \/ steering' = Left(steering),
             followUps' = followUps \/ followUps' = Left(followUps)
      PROVE  LoopInv'
  <2>1. /\ loop' \in LoopRecord /\ loop'.pc = "agent_start" /\ loop'.prompts
        /\ loop'.batch = NoBatch /\ active' = TRUE /\ aborted' = FALSE /\ runs' \in Nat
        /\ state' \in AgentState /\ UNCHANGED <<tasks, answers>>
    BY <1>1 DEF Starts, NothingSaid, Becomes, LoopInv, Types
  <2>2. Types'
    BY <1>1, <2>1, StaysTyped DEF LoopInv, Types
  <2>3. Shape'
    BY <2>1 DEF Shape, Opening
  <2>4. BatchInv'
    BY <2>1, NoBatchSound DEF WithAnswer, Handling
  <2> QED  BY <2>1, <2>2, <2>3, <2>4 DEF LoopInv
<1>2. CASE Prompt \/ ContinueTranscript \/ ContinueWithSteering \/ ContinueWithFollowUps
  BY <1>1, <1>2, StartMoves
<1>3. CASE CancelRun
  BY <1>3, EndsKeep
<1>4. ASSUME \/ \E m \in Steers : Steer(m)
             \/ \E m \in FollowUps : FollowUp(m)
             \/ ClearAllQueues \/ Abort \/ Reset,
             UNCHANGED <<loop, tasks, answers>>
      PROVE  LoopInv'
  <2>1. /\ state' \in AgentState /\ UNCHANGED <<active, runs>> /\ aborted' \in BOOLEAN
        /\ aborted => aborted'
        /\ steering' \in Seq(SteerMessages) /\ followUps' \in Seq(FollowUpMessages)
    BY <1>4, CallerMoves
  <2>2. Types'
    BY <1>4, <2>1 DEF LoopInv, Types
  <2>3. Shape'
    BY <1>4 DEF LoopInv, Shape
  <2>4. BatchInv'
    BY <1>4, <2>1, BatchKept DEF LoopInv, BatchInv
  <2> QED  BY <2>2, <2>3, <2>4 DEF LoopInv
<1>5. CASE UNCHANGED vars
  <2>1. Types'
    BY <1>5 DEF LoopInv, Types, vars, agentVars
  <2>2. Shape'
    BY <1>5 DEF LoopInv, Shape, vars
  <2>3. BatchInv'
    BY <1>5, BatchKept DEF LoopInv, BatchInv, vars, agentVars
  <2> QED  BY <2>1, <2>2, <2>3 DEF LoopInv
<1> QED  BY <1>2, <1>3, <1>4, <1>5 DEF Caller

LEMMA TasksKeep ==
  ASSUME LoopInv, NEW c \in DOMAIN tasks, Task(c)
  PROVE  LoopInv'
<1>1. /\ state' \in AgentState /\ QueuesKept /\ UNCHANGED <<mode, loop, answers>>
      /\ (\E how \in TaskStates : Turns(c, how)) \/ Keeps(DOMAIN tasks \ {c})
  BY TaskMoves DEF Becomes, NothingSaid, TaskStates
<1>2. DOMAIN tasks' \subseteq Calls /\ \A d \in DOMAIN tasks' : tasks'[d] \in TaskStates
  BY <1>1 DEF LoopInv, Types, Turns, Keeps
<1>3. Types'
  BY <1>1, <1>2 DEF LoopInv, Types, QueuesKept
<1>4. Shape'
  BY <1>1 DEF LoopInv, Shape
<1>5. BatchInv'
  BY <1>1, BatchKept DEF LoopInv, BatchInv, QueuesKept
<1> QED  BY <1>3, <1>4, <1>5 DEF LoopInv

LEMMA LoopInvInit == Init => LoopInv
<1> SUFFICES ASSUME Init PROVE LoopInv
  OBVIOUS
<1>1. EmptyState \in AgentState
  BY EmptySeq DEF EmptyState, AgentState
<1>2. Types
  <2>1. state \in AgentState /\ loop \in LoopRecord
    BY <1>1, IdleTyped DEF Init, AgentInit
  <2>2. steering \in Seq(SteerMessages) /\ followUps \in Seq(FollowUpMessages)
    BY EmptySeq DEF Init, AgentInit
  <2>3. active = FALSE /\ aborted = FALSE /\ loop.pc = "idle" /\ runs = 0 /\ answers = 0
    BY IdleTyped DEF Init, AgentInit
  <2>4. DOMAIN tasks = {}
    BY DEF Init
  <2> QED  BY <2>1, <2>2, <2>3, <2>4 DEF Types
<1>3. Shape
  BY IdleTyped DEF Init, Shape, Opening
<1>4. Runners(loop) = {}
  BY IdleTyped DEF Init, Runners, NoBatch
<1>5. BatchInv
  BY <1>4, IdleTyped DEF Init, BatchInv, WithAnswer, Handling
<1> QED  BY <1>2, <1>3, <1>5 DEF LoopInv

\* Every step keeps the run and its batch in their types and shape.
LEMMA LoopInvStep == LoopInv /\ [Next]_vars => LoopInv'
  BY OpeningKeeps, PollKeeps, AnswerKeeps, CallsKeep, ResultsKeep, SpawnKeeps,
     EndsKeep, CallersKeep, TasksKeep
     DEF Next, Progress, Turn, Tools

-----------------------------------------------------------------------------
(* Whose the tool tasks are.                                               *)

\* A task is one of the calls the run is waiting for, or it has outlived its
\* run: then no call of the answer in hand is its own.
TasksInv ==
  /\ \A c \in DOMAIN tasks : c[1] <= answers
  /\ \A c \in DOMAIN tasks :
       ~Owned(c) =>
         /\ tasks[c] \in {"running", "ending"}
         /\ loop.pc \in WithAnswer => c[1] # Answer.id
  /\ At("join") => \A i \in Runners(loop) : Call(i) \in DOMAIN tasks

LEMMA TasksKept ==
  ASSUME TasksInv, ~At("join"), loop'.pc # "join", UNCHANGED <<tasks, answers>>,
         loop'.pc \in WithAnswer => loop.pc \in WithAnswer /\ Answer' = Answer
  PROVE  TasksInv'
  BY DEF TasksInv, Owned, At

LEMMA TasksLeft ==
  ASSUME TasksInv, loop'.pc \notin WithAnswer, answers' = answers,
         NEW kept \in SUBSET AliveTasks, Keeps(kept)
  PROVE  TasksInv'
  BY DEF TasksInv, Owned, At, AliveTasks, Keeps, WithAnswer, Handling

LEMMA TasksSpawned ==
  ASSUME LoopInv, TasksInv, loop.pc \in {"tool_start", "tool_end"}, NEW l, Spawns(l),
         Answer' = Answer, \A i : Call(i)' = Call(i), Runners(l) = Runners(loop)'
  PROVE  TasksInv'
<1> SUFFICES ASSUME NEW spawned, spawned = {Call(i) : i \in Runners(l)},
                    DOMAIN tasks' = DOMAIN tasks \cup spawned,
                    \A c \in DOMAIN tasks' :
                      tasks'[c] = IF c \in spawned THEN "running" ELSE tasks[c]
             PROVE  TasksInv'
  BY DEF Spawns
<1>1. loop'.pc = "join" /\ answers' = answers
  BY DEF Spawns, Moves
<1>2. \A c \in DOMAIN tasks' : Owned(c)' <=> c \in spawned
  BY <1>1 DEF Owned, At
<1>3. \A c \in DOMAIN tasks :
        /\ c[1] <= answers /\ tasks[c] \in {"running", "ending"} /\ c[1] # Answer.id
  BY DEF TasksInv, Owned, At, WithAnswer, Handling
<1>4. \A c \in spawned : c[1] <= answers
  <2>1. Answer.id \in 1..answers /\ answers \in Nat
    BY DEF LoopInv, BatchInv, Types, WithAnswer, Handling
  <2>2. \A i : Call(i)[1] = Answer.id
    BY DEF Call
  <2> QED  BY <2>1, <2>2
<1>5. \A i \in Runners(loop)' : Call(i)' \in DOMAIN tasks'
  OBVIOUS
<1> QED  BY <1>1, <1>2, <1>3, <1>4, <1>5 DEF TasksInv

LEMMA TasksInvStep ==
  ASSUME LoopInv, TasksInv, [Next]_vars
  PROVE  TasksInv'
<1>1. CASE FirstTurn \/ StartInjecting \/ EndInjecting \/ Request
  BY <1>1, OpeningMoves, TasksKept DEF Moves, RunOnly, At, CanInject, WithAnswer, Handling
<1>2. CASE StreamStart
  BY <1>2, StreamStartMoves, TasksKept DEF RunOnly, At, WithAnswer, Handling
<1>3. CASE FirstPoll
  BY <1>3, FirstPollMoves, TasksKept DEF At, CanInject, WithAnswer, Handling
<1>4. CASE TurnWithSteering \/ TurnWithFollowUps
  <2>1. loop'.pc = "turn_start" /\ At("turn_end") /\ UNCHANGED <<tasks, answers>>
    BY <1>4, TurnMoves, NextTurnMoves
  <2> QED  BY <2>1, TasksKept DEF At, WithAnswer, Handling
<1>5. CASE StreamEnd
  <2>1. PICK final \in AnswerMessages :
           /\ At("streaming") /\ final.id = answers + 1 /\ loop'.pc = "answered"
           /\ loop'.batch = [loop.batch EXCEPT !.answer = final]
           /\ answers' = answers + 1 /\ tasks' = tasks
    BY <1>5, StreamEndMoves
  <2>2. Answer'.id = answers + 1
    <3>1. loop'.batch.answer = final
      BY <2>1, LoopFields DEF LoopInv, Types, BatchRecord
    <3> QED  BY <2>1, <3>1 DEF Answer
  <2>3. \A c \in DOMAIN tasks : c \in Calls /\ c[1] <= answers /\ tasks[c] \in {"running", "ending"}
    BY <2>1 DEF TasksInv, Owned, At, LoopInv, Types
  <2>4. answers \in Nat /\ \A c \in Calls : c[1] \in Nat
    BY LoopAssumption DEF LoopInv, Types, Calls
  <2>5. \A c \in DOMAIN tasks : c[1] <= answers + 1 /\ c[1] # answers + 1
    BY <2>3, <2>4
  <2> QED  BY <2>1, <2>2, <2>3, <2>5 DEF TasksInv, At
<1>6. CASE ErrorTurn \/ PlainTurn
  <2>1. /\ At("answered")
        /\ Moves(Answered, "last_turn") \/ Moves(Answered, "turn_end")
        /\ RunOnly
    BY <1>6, AnsweredMoves
  <2>2. loop'.batch = loop.batch
    BY <2>1, AnsweredIs DEF LoopInv, Types, BatchInv, WithAnswer, At, SameBut, Moves
  <2> QED  BY <2>1, <2>2, TasksKept, BatchKept DEF Moves, RunOnly, At, WithAnswer, Handling
<1>7. CASE LastTurn \/ NothingLeft \/ StopAfterTurn
  BY <1>7, EndingMoves, TasksKept, BatchKept DEF Moves, RunOnly, At, WithAnswer, Handling
<1>8. CASE BeginBatch
  <2>1. PICK how : /\ At("answered") /\ loop'.pc = "tool_start"
                   /\ loop'.batch = [loop.batch EXCEPT !.mode = how] /\ RunOnly
    BY <1>8, BeginBatchMoves
  <2>2. Answer' = Answer
    BY <2>1, LoopFields DEF LoopInv, Types, BatchRecord, Answer
  <2> QED  BY <2>1, <2>2, TasksKept DEF RunOnly, At, WithAnswer, Handling
<1>9. CASE FailCall \/ CallExecuted
  <2>1. PICK o \in OutcomeRecord :
           /\ loop.pc \in {"tool_start", "executing"} /\ loop'.pc = "tool_end"
           /\ loop'.batch = [loop.batch EXCEPT !.outcomes = Append(Batch.outcomes, o)]
           /\ RunOnly
    BY <1>9, OutcomeMoves DEF Moves
  <2> QED  BY <2>1, OutcomeAdded, TasksKept
           DEF LoopInv, Types, RunOnly, At, WithAnswer, Handling
<1>10. CASE ExecuteCall \/ SequentialResult \/ ParallelNext \/ SequentialNext
  <2>1. /\ loop.pc \in {"tool_start", "tool_end", "result_end"}
        /\ loop'.pc \in {"executing", "result_start", "tool_start"}
        /\ loop'.batch = loop.batch /\ RunOnly
    BY <1>10, ResultMoves
       DEF Moves, ExecuteCall, SequentialResult, ParallelNext, SequentialNext, At
  <2> QED  BY <2>1, TasksKept, BatchKept DEF RunOnly, At, WithAnswer, Handling
<1>11. CASE EndResult
  BY <1>11, EndResultMoves, ResultAdded, TasksKept
     DEF LoopInv, Types, RunOnly, At, WithAnswer, Handling
<1>12. CASE PrepareRunner
  <2>1. PICK o \in OutcomeRecord :
           /\ At("tool_start")
           /\ AddOutcome(o).batch = [loop.batch EXCEPT !.outcomes = Append(Batch.outcomes, o)]
           /\ \/ Moves(AddOutcome(o), "tool_start") /\ RunOnly
              \/ Spawns(AddOutcome(o))
    BY <1>12, RunnerMoves
  <2>2. loop'.batch = AddOutcome(o).batch
    BY <2>1 DEF Spawns, Moves
  <2>3. Answer' = Answer /\ \A i : Call(i)' = Call(i)
    BY <2>1, <2>2, OutcomeAdded DEF LoopInv, Types
  <2>4. CASE Moves(AddOutcome(o), "tool_start") /\ RunOnly
    BY <2>1, <2>3, <2>4, TasksKept DEF Moves, RunOnly, At, WithAnswer, Handling
  <2>5. CASE Spawns(AddOutcome(o))
    <3>1. Runners(AddOutcome(o)) = Runners(loop)'
      BY <2>2 DEF Runners
    <3> QED  BY <2>1, <2>3, <2>5, <3>1, TasksSpawned DEF At
  <2> QED  BY <2>1, <2>4, <2>5
<1>13. CASE AfterImmediate
  <2>1. /\ At("tool_end")
        /\ (Moves(loop, "tool_start") /\ RunOnly) \/ Spawns(loop)
    BY <1>13, ImmediateMoves
  <2>2. Answer' = Answer /\ (\A i : Call(i)' = Call(i)) /\ Runners(loop)' = Runners(loop)
    BY <2>1, BatchKept DEF Spawns, Moves
  <2> QED  BY <2>1, <2>2, TasksKept, TasksSpawned DEF Moves, RunOnly, At, WithAnswer,
     Handling
<1>14. CASE Joined
  <2>1. PICK outcomes \in Seq(OutcomeRecord) :
           /\ At("join") /\ loop'.pc = "result_start"
           /\ loop'.batch = [loop.batch EXCEPT !.outcomes = outcomes]
           /\ Len(outcomes) = Prepared
           /\ \A i \in 1..Prepared : outcomes[i].kind # "runner"
           /\ DOMAIN tasks' = DOMAIN tasks \ {Call(i) : i \in Runners(loop)}
           /\ \A c \in DOMAIN tasks' : tasks'[c] = tasks[c]
           /\ answers' = answers
    BY <1>14, JoinedMoves
  <2>2. Answer' = Answer
    BY <2>1, OutcomesReplaced DEF LoopInv, Types
  <2>3. \A c \in DOMAIN tasks' : c \in DOMAIN tasks /\ ~Owned(c)
    BY <2>1 DEF Owned
  <2> QED  BY <2>1, <2>2, <2>3 DEF TasksInv, At, WithAnswer, Handling
<1>15. CASE FinishBatch
  BY <1>15, FinishBatchMoves, BatchKept, TasksKept DEF RunOnly, At, WithAnswer, Handling
<1>16. CASE Finish \/ FailAgain \/ CancelRun
  <2>1. /\ loop'.pc = "idle" /\ answers' = answers
        /\ \/ loop.pc \in {"agent_end"} \cup Failing /\ UNCHANGED tasks
           \/ \E kept \in SUBSET AliveTasks : Keeps(kept)
    BY <1>16, SettlingMoves, IdleTyped DEF Settles
  <2> QED  BY <2>1, TasksKept, TasksLeft DEF At, WithAnswer, Handling, Failing
<1>17. CASE Fail
  BY <1>17, FailMoves, TasksLeft DEF Moves, WithAnswer, Handling
<1>18. CASE ReportFailure
  BY <1>18, ReportMoves, TasksKept DEF Moves, RunOnly, At, Failing, WithAnswer, Handling
<1>19. CASE Prompt \/ ContinueTranscript \/ ContinueWithSteering \/ ContinueWithFollowUps
  <2>1. ~active /\ loop'.pc = "agent_start" /\ UNCHANGED <<tasks, answers>>
    BY <1>19, StartMoves DEF Starts
  <2>2. loop.pc = "idle"
    BY <2>1 DEF LoopInv, Types
  <2> QED  BY <2>1, <2>2, TasksKept DEF At, WithAnswer, Handling
<1>20. CASE UNCHANGED <<loop, tasks, answers>>
  BY <1>20, BatchKept DEF TasksInv, Owned, At
<1>21. ASSUME NEW c \in DOMAIN tasks, Task(c)
       PROVE  TasksInv'
  <2>1. /\ UNCHANGED <<loop, answers>>
        /\ \/ \E how : Turns(c, how) /\ (Owned(c) \/ how = "ending")
           \/ ~Owned(c) /\ Keeps(DOMAIN tasks \ {c})
    <3>1. ~active => ~Owned(c)
      BY DEF LoopInv, Types, Owned, At
    <3> QED  BY <1>21, <3>1, TaskMoves
  <2>2. \A d : Owned(d)' <=> Owned(d)
    BY <2>1, BatchKept DEF Owned, At
  <2>3. CASE \E how : Turns(c, how) /\ (Owned(c) \/ how = "ending")
    BY <2>1, <2>2, <2>3, BatchKept DEF TasksInv, Turns, At
  <2>4. CASE ~Owned(c) /\ Keeps(DOMAIN tasks \ {c})
    <3>1. At("join") => \A i \in Runners(loop) : Call(i) # c
      BY <2>4 DEF Owned
    <3> QED  BY <2>1, <2>2, <2>4, <3>1, BatchKept DEF TasksInv, Keeps, At
  <2> QED  BY <2>1, <2>3, <2>4
<1> QED
  BY <1>1, <1>2, <1>3, <1>4, <1>5, <1>6, <1>7, <1>8, <1>9, <1>10, <1>11, <1>12, <1>13,
     <1>14, <1>15, <1>16, <1>17, <1>18, <1>19, <1>20, <1>21
     DEF Next, Progress, Turn, Tools, Caller, vars

LEMMA TasksInvInit == Init => TasksInv
<1> SUFFICES ASSUME Init PROVE TasksInv
  OBVIOUS
<1>1. DOMAIN tasks = {} /\ ~At("join")
  BY IdleTyped DEF Init, At
<1> QED  BY <1>1 DEF TasksInv

\* The invariant of the run and its tasks, on which the others rest.
THEOREM RunsAreSound == Spec => [](LoopInv /\ TasksInv)
<1>1. Init => LoopInv /\ TasksInv
  BY LoopInvInit, TasksInvInit
<1>2. LoopInv /\ TasksInv /\ [Next]_vars => (LoopInv /\ TasksInv)'
  BY LoopInvStep, TasksInvStep
<1> QED  BY <1>1, <1>2, PTL DEF Spec

\* In a parallel batch every call goes through its gate before any tool runs:
\* a task that runs during preparation belongs to an answer of an older run.
THEOREM GatesComeFirst == Spec => []GatesBeforeTools
<1>1. LoopInv /\ TasksInv => GatesBeforeTools
  <2> SUFFICES ASSUME TasksInv, loop.pc \in {"tool_start", "tool_end"},
                      NEW i \in 1..Prepared, Call(i) \in DOMAIN tasks
               PROVE  FALSE
    BY DEF GatesBeforeTools
  <2>1. Call(i)[1] = Answer.id
    BY DEF Call
  <2>2. ~Owned(Call(i)) /\ loop.pc \in WithAnswer
    BY DEF Owned, At, WithAnswer, Handling
  <2> QED  BY <2>1, <2>2 DEF TasksInv
<1> QED  BY <1>1, RunsAreSound, PTL

-----------------------------------------------------------------------------
(* What the agent says of itself.                                          *)

\* Where calls are between their start and their end.
Busy == {"tool_start", "executing", "tool_end", "join"}

LEMMA NothingStarted ==
  LoopInv /\ TasksInv /\ loop.pc \notin Busy => Started = {} /\ Raised = {}
  BY DEF LoopInv, BatchInv, TasksInv, Busy, Started, Raised, Owned, At

LEMMA NothingStartedNext ==
  LoopInv' /\ TasksInv' /\ loop'.pc \notin Busy => Started' = {} /\ Raised' = {}
  BY DEF LoopInv, BatchInv, TasksInv, Busy, Started, Raised, Owned, At

\* Before the tools of a batch run: the call at hand and the runners so far.
LEMMA StartedBefore ==
  /\ TasksInv /\ loop.pc \in Busy \ {"join"} =>
       /\ Raised = {}
       /\ Started = {Call(i) : i \in Runners(loop)
                       \cup (IF loop.pc = "tool_end" THEN {} ELSE {Prepared + 1})}
  /\ TasksInv' /\ loop'.pc \in Busy \ {"join"} =>
       /\ Raised' = {}
       /\ Started' = {Call(i)' : i \in Runners(loop)'
                       \cup (IF loop'.pc = "tool_end" THEN {} ELSE {Prepared' + 1})}
  BY DEF TasksInv, Busy, Started, Raised, Owned, At

\* A step that neither starts nor ends a call, away from the calls.
LEMMA StaysQuiet ==
  ASSUME LoopInv, TasksInv, StateMatchesRun, LoopInv', TasksInv',
         loop.pc \notin Failing \cup {"idle"}, Started = {}, Raised = {},
         loop'.pc \notin Busy \cup {"idle"},
         state'.pending_tool_calls = state.pending_tool_calls
  PROVE  StateMatchesRun'
<1>1. active /\ active'
  BY DEF LoopInv, Types
<1>2. state.pending_tool_calls = {}
  BY <1>1 DEF StateMatchesRun, PendingMatchesCalls
<1>3. Started' = {} /\ Raised' = {}
  BY NothingStartedNext
<1> QED  BY <1>1, <1>2, <1>3 DEF StateMatchesRun, PendingMatchesCalls, IdleIsClean

LEMMA TurnMatches ==
  ASSUME LoopInv, TasksInv, StateMatchesRun, LoopInv', TasksInv',
         \/ FirstTurn \/ StartInjecting \/ EndInjecting \/ FirstPoll \/ Request
         \/ StreamStart \/ StreamEnd \/ ErrorTurn \/ PlainTurn \/ LastTurn
         \/ TurnWithSteering \/ TurnWithFollowUps \/ NothingLeft \/ StopAfterTurn
         \/ SequentialResult \/ ParallelNext \/ EndResult \/ FinishBatch
  PROVE  StateMatchesRun'
<1>1. state'.pending_tool_calls = state.pending_tool_calls
  <2>1. ASSUME TurnWithSteering \/ TurnWithFollowUps
        PROVE  NothingSaid
    BY <2>1, TurnMoves, NextTurnMoves
  <2>2. ASSUME SequentialResult \/ ParallelNext \/ EndResult \/ FinishBatch
        PROVE  state'.pending_tool_calls = state.pending_tool_calls
    BY <2>2, ResultMoves, EndResultMoves, FinishBatchMoves DEF NothingSaid, Arrives, Becomes
  <2> QED  BY <2>1, <2>2, OpeningMoves, FirstPollMoves, StreamStartMoves, StreamEndMoves,
              AnsweredMoves, EndingMoves DEF NothingSaid, Arrives, Becomes
<1>2. loop'.pc \notin Busy \cup {"idle"}
  <2>1. ASSUME FirstTurn \/ StartInjecting \/ EndInjecting \/ Request \/ FirstPoll
        PROVE  loop'.pc \in {"turn_start", "inject", "injected", "request", "polled"}
    BY <2>1, OpeningMoves, FirstPollMoves DEF Moves
  <2>2. ASSUME StreamStart \/ StreamEnd \/ ErrorTurn \/ PlainTurn \/ LastTurn
               \/ NothingLeft \/ StopAfterTurn
        PROVE  loop'.pc \in {"streaming", "answered", "last_turn", "turn_end", "agent_end"}
    BY <2>2, StreamStartMoves, StreamEndMoves, AnsweredMoves, EndingMoves DEF Moves
  <2>3. ASSUME TurnWithSteering \/ TurnWithFollowUps
        PROVE  loop'.pc = "turn_start"
    BY <2>3, TurnMoves, NextTurnMoves
  <2>4. ASSUME SequentialResult \/ ParallelNext \/ EndResult \/ FinishBatch
        PROVE  loop'.pc \in {"result_start", "result_end", "turn_end"}
    BY <2>4, ResultMoves, EndResultMoves, FinishBatchMoves DEF Moves
  <2> QED  BY <2>1, <2>2, <2>3, <2>4 DEF Busy
<1>3. loop.pc \notin Failing \cup {"idle"} /\ Started = {} /\ Raised = {}
  <2>1. CASE SequentialResult
    <3>1. At("tool_end") /\ Batch.mode # "parallel"
      BY <2>1 DEF SequentialResult
    <3>2. Runners(loop) = {}
      BY <3>1 DEF LoopInv, BatchInv
    <3> QED  BY <3>1, <3>2, StartedBefore DEF At, Busy, Failing
  <2>2. CASE ~SequentialResult
    <3>1. loop.pc \notin Busy \cup Failing \cup {"idle"}
      BY <2>2 DEF FirstTurn, StartInjecting, EndInjecting, FirstPoll, Request, StreamStart,
           StreamEnd, ErrorTurn, PlainTurn, LastTurn, TurnWithSteering, TurnWithFollowUps,
           NothingLeft, StopAfterTurn, ParallelNext, EndResult, FinishBatch, CanInject, At,
           Busy, Failing
    <3> QED  BY <3>1, NothingStarted
  <2> QED  BY <2>1, <2>2
<1> QED  BY <1>1, <1>2, <1>3, StaysQuiet

\* Before the tools run the pending calls are those that were started.
LEMMA PendingIs ==
  ASSUME LoopInv, TasksInv, StateMatchesRun, loop.pc \notin Failing \cup {"idle", "join"}
  PROVE  active /\ Raised = {} /\ state.pending_tool_calls = Started
<1>1. active /\ Raised = {}
  BY DEF LoopInv, Types, TasksInv, Raised, Owned, At
<1> QED  BY <1>1 DEF StateMatchesRun, PendingMatchesCalls

LEMMA StartedMatches ==
  ASSUME LoopInv', TasksInv', loop'.pc \in Busy \ {"join"},
         state'.pending_tool_calls = Started'
  PROVE  StateMatchesRun'
<1>1. active'
  BY DEF LoopInv, Types, Busy
<1> QED  BY <1>1, StartedBefore DEF StateMatchesRun, PendingMatchesCalls, IdleIsClean

LEMMA RunnersPrepared ==
  ASSUME loop \in LoopRecord
  PROVE  /\ Prepared \in Nat /\ \A i \in Runners(loop) : i \in 1..Prepared
         /\ \A i, j : Call(i) = Call(j) => i = j
<1>1. \A i : Call(i)[2] = i
  BY DEF Call
<1> QED  BY <1>1, BatchFields DEF Runners, Batch, Prepared

LEMMA CallsMatch ==
  ASSUME LoopInv, TasksInv, StateMatchesRun, LoopInv', TasksInv',
         BeginBatch \/ FailCall \/ ExecuteCall \/ CallExecuted \/ SequentialNext
  PROVE  StateMatchesRun'
<1>0. /\ loop \in LoopRecord
      /\ loop.pc \in {"answered", "tool_start", "executing", "result_end"}
      /\ Raised = {} /\ state.pending_tool_calls = Started
  BY PendingIs DEF BeginBatch, FailCall, ExecuteCall, CallExecuted, SequentialNext, At,
                   Failing, LoopInv, Types
<1>1. CASE BeginBatch
  <2>1. PICK how : /\ At("answered") /\ loop'.pc = "tool_start"
                   /\ loop'.batch = [loop.batch EXCEPT !.mode = how]
                   /\ Becomes(state.messages, state.pending_tool_calls \cup {Call(1)})
    BY <1>1, BeginBatchMoves
  <2>2. Batch.outcomes = <<>> /\ Started = {}
    BY <2>1, NothingStarted DEF LoopInv, BatchInv, At, Busy
  <2>3. Batch'.outcomes = <<>> /\ Answer' = Answer
    BY <1>0, <2>1, <2>2, LoopFields DEF BatchRecord, Batch, Answer
  <2>4. Prepared' = 0 /\ Runners(loop)' = {} /\ \A i : Call(i)' = Call(i)
    BY <2>3 DEF Prepared, Runners, Batch, Call
  <2>5. Started' = {Call(1)}
    BY <2>1, <2>4, StartedBefore DEF Busy
  <2> QED  BY <1>0, <2>1, <2>2, <2>5, StartedMatches DEF Becomes, Busy
<1>2. CASE FailCall \/ CallExecuted
  <2>1. PICK o \in OutcomeRecord :
           /\ loop.pc \in {"tool_start", "executing"} /\ o.kind # "runner"
           /\ loop'.pc = "tool_end"
           /\ loop'.batch = [loop.batch EXCEPT !.outcomes = Append(Batch.outcomes, o)]
           /\ Becomes(state.messages, state.pending_tool_calls \ {Call(Prepared + 1)})
    BY <1>2, OutcomeMoves DEF Moves
  <2>2. Runners(loop)' = Runners(loop) /\ \A i : Call(i)' = Call(i)
    BY <1>0, <2>1, OutcomeAdded
  <2>3. Started = {Call(i) : i \in Runners(loop) \cup {Prepared + 1}}
    BY <2>1, StartedBefore DEF Busy
  <2>4. Started' = {Call(i) : i \in Runners(loop)}
    BY <2>1, <2>2, StartedBefore DEF Busy
  <2>5. Call(Prepared + 1) \notin {Call(i) : i \in Runners(loop)}
    BY <1>0, RunnersPrepared
  <2>6. Started \ {Call(Prepared + 1)} = Started'
    BY <2>3, <2>4, <2>5
  <2> QED  BY <1>0, <2>1, <2>6, StartedMatches DEF Becomes, Busy
<1>3. CASE ExecuteCall
  <2>1. At("tool_start") /\ loop'.pc = "executing" /\ loop'.batch = loop.batch /\ NothingSaid
    BY <1>3, ResultMoves DEF Moves
  <2>2. Started' = Started
    BY <2>1, BatchKept, StartedBefore DEF Busy, At
  <2> QED  BY <1>0, <2>1, <2>2, StartedMatches DEF NothingSaid, Becomes, Busy
<1>4. CASE SequentialNext
  <2>1. /\ At("result_end") /\ Batch.mode # "parallel"
        /\ loop'.pc = "tool_start" /\ loop'.batch = loop.batch
        /\ Becomes(state.messages, state.pending_tool_calls \cup {Call(Prepared + 1)})
    BY <1>4, ResultMoves DEF Moves, SequentialNext
  <2>2. Runners(loop) = {} /\ Started = {}
    BY <2>1, NothingStarted DEF LoopInv, BatchInv, At, Busy
  <2>3. Started' = {Call(Prepared + 1)}
    BY <2>1, <2>2, BatchKept, StartedBefore DEF Busy
  <2> QED  BY <1>0, <2>1, <2>2, <2>3, StartedMatches DEF Becomes, Busy
<1> QED  BY <1>1, <1>2, <1>3, <1>4

\* The tools of the runners start together.
LEMMA SpawnMatches ==
  ASSUME LoopInv, TasksInv, LoopInv', loop.pc \in {"tool_start", "tool_end"},
         NEW l, Spawns(l), \A i : Call(i)' = Call(i), Runners(l) = Runners(loop)',
         state.pending_tool_calls = {Call(i) : i \in Runners(l)}
  PROVE  StateMatchesRun'
<1>1. active' /\ loop'.pc = "join"
  BY DEF LoopInv, Types, Spawns, Moves
<1>2. \A i \in Runners(l) : Call(i) \in DOMAIN tasks' /\ tasks'[Call(i)] = "running"
  BY DEF Spawns
<1>3. Started' = {Call(i) : i \in Runners(l)}
  <2>1. Started' = {Call(i) : i \in {j \in Runners(l) : tasks'[Call(j)] = "running"}}
    BY <1>1 DEF Started, At
  <2> QED  BY <1>2, <2>1
<1>4. Raised' = {}
  <2>1. \A c \in DOMAIN tasks : tasks[c] # "raised"
    BY DEF TasksInv, Owned, At
  <2>2. \A c \in DOMAIN tasks' :
          tasks'[c] = "running" \/ (c \in DOMAIN tasks /\ tasks'[c] = tasks[c])
    <3> SUFFICES ASSUME NEW c \in DOMAIN tasks', tasks'[c] # "running"
                 PROVE  c \in DOMAIN tasks /\ tasks'[c] = tasks[c]
      OBVIOUS
    <3>1. c \notin {Call(i) : i \in Runners(l)}
      BY DEF Spawns
    <3>2. DOMAIN tasks' = DOMAIN tasks \cup {Call(i) : i \in Runners(l)}
      BY DEF Spawns
    <3>3. c \in DOMAIN tasks
      BY <3>1, <3>2
    <3> QED  BY <3>1, <3>3 DEF Spawns
  <2> QED  BY <2>1, <2>2 DEF Raised
<1>5. state'.pending_tool_calls = state.pending_tool_calls
  BY DEF Spawns, NothingSaid, Becomes
<1> QED  BY <1>1, <1>3, <1>4, <1>5 DEF StateMatchesRun, PendingMatchesCalls, IdleIsClean

LEMMA ParallelMatches ==
  ASSUME LoopInv, TasksInv, StateMatchesRun, LoopInv', TasksInv',
         PrepareRunner \/ AfterImmediate
  PROVE  StateMatchesRun'
<1>0. /\ loop \in LoopRecord /\ loop.pc \in {"tool_start", "tool_end"}
      /\ Raised = {} /\ state.pending_tool_calls = Started
  BY PendingIs DEF PrepareRunner, AfterImmediate, At, Failing, LoopInv, Types
<1>1. CASE PrepareRunner
  <2>1. PICK o \in OutcomeRecord :
           /\ At("tool_start") /\ o.kind = "runner"
           /\ AddOutcome(o).batch = [loop.batch EXCEPT !.outcomes = Append(Batch.outcomes, o)]
           /\ \/ /\ Moves(AddOutcome(o), "tool_start")
                 /\ Becomes(state.messages, state.pending_tool_calls \cup {Call(Prepared + 2)})
              \/ Spawns(AddOutcome(o))
    BY <1>1, RunnerMoves
  <2>2. loop'.batch = AddOutcome(o).batch
    BY <2>1 DEF Spawns, Moves
  <2>3. /\ Runners(loop)' = Runners(loop) \cup {Prepared + 1} /\ Prepared' = Prepared + 1
        /\ \A i : Call(i)' = Call(i)
    BY <1>0, <2>1, <2>2, OutcomeAdded
  <2>4. Started = {Call(i) : i \in Runners(loop)'}
    BY <2>1, <2>3, StartedBefore DEF At, Busy
  <2>5. ASSUME Moves(AddOutcome(o), "tool_start"),
               Becomes(state.messages, state.pending_tool_calls \cup {Call(Prepared + 2)})
        PROVE  StateMatchesRun'
    <3>1. loop'.pc = "tool_start" /\ Prepared' + 1 = Prepared + 2
      BY <1>0, <2>3, <2>5, BatchFields DEF Moves
    <3>2. Started' = {Call(i) : i \in Runners(loop)' \cup {Prepared + 2}}
      BY <2>3, <3>1, StartedBefore DEF Busy
    <3>3. Started' = Started \cup {Call(Prepared + 2)}
      BY <2>4, <3>2
    <3> QED  BY <1>0, <2>5, <3>1, <3>3, StartedMatches DEF Becomes, Busy
  <2>6. CASE Spawns(AddOutcome(o))
    <3>1. Runners(AddOutcome(o)) = Runners(loop)'
      BY <2>2 DEF Runners
    <3> QED  BY <1>0, <2>3, <2>4, <2>6, <3>1, SpawnMatches
  <2> QED  BY <2>1, <2>5, <2>6
<1>2. CASE AfterImmediate
  <2>1. /\ At("tool_end")
        /\ \/ /\ Moves(loop, "tool_start")
              /\ Becomes(state.messages, state.pending_tool_calls \cup {Call(Prepared + 1)})
           \/ Spawns(loop)
    BY <1>2, ImmediateMoves
  <2>2. /\ Runners(loop)' = Runners(loop) /\ Prepared' = Prepared
        /\ \A i : Call(i)' = Call(i)
    BY <2>1, BatchKept DEF Spawns, Moves
  <2>3. Started = {Call(i) : i \in Runners(loop)}
    BY <2>1, StartedBefore DEF At, Busy
  <2>4. ASSUME Moves(loop, "tool_start"),
               Becomes(state.messages, state.pending_tool_calls \cup {Call(Prepared + 1)})
        PROVE  StateMatchesRun'
    <3>1. Started' = {Call(i) : i \in Runners(loop) \cup {Prepared + 1}}
      BY <2>2, <2>4, StartedBefore DEF Moves, Busy
    <3>2. Started' = Started \cup {Call(Prepared + 1)}
      BY <2>3, <3>1
    <3> QED  BY <1>0, <2>4, <3>2, StartedMatches DEF Becomes, Moves, Busy
  <2>5. CASE Spawns(loop)
    BY <1>0, <2>2, <2>3, <2>5, SpawnMatches
  <2> QED  BY <2>1, <2>4, <2>5
<1> QED  BY <1>1, <1>2

LEMMA JoinedMatches ==
  ASSUME LoopInv, TasksInv, StateMatchesRun, LoopInv', TasksInv', Joined
  PROVE  StateMatchesRun'
<1>1. /\ At("join") /\ \A i \in 1..Prepared : Over(i)
      /\ loop'.pc = "result_start" /\ NothingSaid
  BY JoinedMoves
<1>2. \A i \in Runners(loop) : tasks[Call(i)] \in {"done", "terminating"}
  BY <1>1, RunnersPrepared DEF Over, LoopInv, Types
<1>3. Started = {}
  BY <1>1, <1>2 DEF Started, At
<1>4. Raised = {}
  BY <1>2 DEF Raised, TasksInv, Owned
<1> QED  BY <1>1, <1>3, <1>4, StaysQuiet DEF At, Busy, Failing, NothingSaid, Becomes

\* An agent that is idle, or about to report a failure.
LEMMA EndMatches ==
  ASSUME LoopInv, StateMatchesRun, LoopInv',
         \/ Finish \/ FailAgain \/ CancelRun \/ Fail \/ ReportFailure
         \/ Prompt \/ ContinueTranscript \/ ContinueWithSteering \/ ContinueWithFollowUps,
         TasksInv'
  PROVE  StateMatchesRun'
<1>1. CASE Finish \/ FailAgain \/ CancelRun
  BY <1>1, SettlingMoves DEF Settles, StateMatchesRun, IdleIsClean, PendingMatchesCalls
<1>2. CASE Fail \/ ReportFailure
  <2>1. loop'.pc \in Failing
    BY <1>2, FailMoves, ReportMoves DEF Moves, Failing
  <2>2. active'
    BY <2>1 DEF LoopInv, Types, Failing
  <2> QED  BY <2>1, <2>2 DEF StateMatchesRun, IdleIsClean, PendingMatchesCalls
<1>3. CASE Prompt \/ ContinueTranscript \/ ContinueWithSteering \/ ContinueWithFollowUps
  <2>1. ~active /\ active' /\ loop'.pc = "agent_start" /\ NothingSaid
    BY <1>3, StartMoves DEF Starts
  <2>2. state'.pending_tool_calls = {}
    BY <2>1 DEF StateMatchesRun, IdleIsClean, NothingSaid, Becomes
  <2>3. Started' = {} /\ Raised' = {}
    BY <2>1, NothingStartedNext DEF Busy
  <2> QED  BY <2>1, <2>2, <2>3 DEF StateMatchesRun, IdleIsClean, PendingMatchesCalls
<1> QED  BY <1>1, <1>2, <1>3

\* A tool task ends its call, comes to an end, or raises.
LEMMA TaskMatches ==
  ASSUME LoopInv, TasksInv, StateMatchesRun, LoopInv', TasksInv',
         NEW c \in DOMAIN tasks, Task(c)
  PROVE  StateMatchesRun'
<1>0. active' = active /\ loop' = loop /\ aborted' = aborted
  BY TaskMoves DEF QueuesKept
<1>1. CASE ~active
  BY <1>0, <1>1, TaskMoves
     DEF StateMatchesRun, IdleIsClean, PendingMatchesCalls, NothingSaid, Becomes
<1>2. CASE active /\ loop.pc \in Failing
  BY <1>0, <1>2, TaskMoves DEF StateMatchesRun, IdleIsClean, PendingMatchesCalls
<1>3. CASE active /\ loop.pc \notin Failing /\ ~Owned(c)
  <2>1. state.pending_tool_calls \ Raised = Started \ Raised
    BY <1>3 DEF StateMatchesRun, PendingMatchesCalls
  <2>2. c \notin Started
    <3>1. CASE loop.pc \in WithAnswer
      <4>1. c[1] # Answer.id
        BY <1>3, <3>1 DEF TasksInv
      <4>2. \A i : Call(i)[1] = Answer.id
        BY DEF Call
      <4> QED  BY <4>1, <4>2 DEF Started
    <3>2. CASE loop.pc \notin WithAnswer
      BY <3>2, NothingStarted DEF Busy, WithAnswer, Handling
    <3> QED  BY <3>1, <3>2
  <2>3. tasks[c] # "raised"
    BY <1>3 DEF TasksInv
  <2>4. state'.pending_tool_calls \in {state.pending_tool_calls, state.pending_tool_calls \ {c}}
    BY TaskMoves DEF NothingSaid, Becomes
  <2>5. \/ Keeps(DOMAIN tasks \ {c})
        \/ Turns(c, "ending")
    BY <1>3, TaskMoves
  <2>6. Raised' = Raised
    BY <2>3, <2>5 DEF Raised, Keeps, Turns
  <2>7. Started' = Started
    <3>1. At("join") => \A i \in Runners(loop) : Call(i) # c /\ Call(i) \in DOMAIN tasks
      BY <1>3 DEF Owned, TasksInv
    <3>2. At("join") => \A i \in Runners(loop) : tasks'[Call(i)] = tasks[Call(i)]
      BY <2>5, <3>1 DEF Keeps, Turns
    <3> QED  BY <1>0, <3>2, BatchKept DEF Started, At
  <2> QED  BY <1>0, <1>3, <2>1, <2>2, <2>4, <2>6, <2>7
           DEF StateMatchesRun, IdleIsClean, PendingMatchesCalls
<1>4. CASE active /\ loop.pc \notin Failing /\ Owned(c)
  <2>1. state.pending_tool_calls \ Raised = Started \ Raised
    BY <1>4 DEF StateMatchesRun, PendingMatchesCalls
  <2>2. PICK how \in {"ending", "done", "terminating", "raised"} :
          /\ Turns(c, how)
          /\ how = "ending" => state'.pending_tool_calls = state.pending_tool_calls \ {c}
          /\ how # "ending" => state'.pending_tool_calls = state.pending_tool_calls
          /\ how \in {"done", "terminating"} => tasks[c] # "running"
          /\ tasks[c] \in {"running", "ending"}
    BY <1>4, TaskMoves DEF NothingSaid, Becomes
  <2>3. Raised' = IF how = "raised" THEN Raised \cup {c} ELSE Raised
    BY <2>2 DEF Raised, Turns
  <2>4. At("join")
    BY <1>4 DEF Owned
  <2>5. Started = {d \in {Call(i) : i \in Runners(loop)} : tasks[d] = "running"}
    BY <2>4 DEF Started, At
  <2>6. Started' = {d \in {Call(i) : i \in Runners(loop)} : tasks'[d] = "running"}
    BY <1>0, <2>4, BatchKept DEF Started, At
  <2>7. \A d \in {Call(i) : i \in Runners(loop)} :
          d \in DOMAIN tasks /\ (d # c => tasks'[d] = tasks[d])
    BY <2>2, <2>4 DEF TasksInv, Turns
  <2>8. tasks'[c] # "running"
    BY <2>2 DEF Turns
  <2>9. \A d : d \in Started' <=> d \in Started /\ d # c
    BY <2>5, <2>6, <2>7, <2>8
  <2>10. how \in {"done", "terminating"} => c \notin Started
    BY <2>2, <2>5
  <2>11. c \notin Raised
    BY <2>2 DEF Raised
  <2> QED  BY <1>0, <1>4, <2>1, <2>2, <2>3, <2>9, <2>10, <2>11
           DEF StateMatchesRun, IdleIsClean, PendingMatchesCalls
<1> QED  BY <1>1, <1>2, <1>3, <1>4

LEMMA CallerMatches ==
  ASSUME LoopInv, StateMatchesRun,
         \/ \E m \in Steers : Steer(m)
         \/ \E m \in FollowUps : FollowUp(m)
         \/ ClearAllQueues \/ Abort \/ Reset,
         UNCHANGED <<loop, tasks, answers>>
  PROVE  StateMatchesRun'
<1>1. /\ active' = active /\ Started' = Started /\ Raised' = Raised
      /\ \/ UNCHANGED state
         \/ ~active /\ state' = EmptyState
  BY CallerMoves, BatchKept DEF Started, Raised, At
<1>2. ~EmptyState.is_streaming /\ ~EmptyState.streaming_message
      /\ EmptyState.pending_tool_calls = {}
  BY DEF EmptyState
<1> QED  BY <1>1, <1>2 DEF StateMatchesRun, IdleIsClean, PendingMatchesCalls

LEMMA StateMatchesStep ==
  LoopInv /\ TasksInv /\ StateMatchesRun /\ LoopInv' /\ TasksInv' /\ [Next]_vars
    => StateMatchesRun'
<1> SUFFICES ASSUME LoopInv, TasksInv, StateMatchesRun, LoopInv', TasksInv', [Next]_vars
             PROVE  StateMatchesRun'
  OBVIOUS
<1>1. CASE UNCHANGED vars
  <2>1. Started' = Started /\ Raised' = Raised
    BY <1>1, BatchKept DEF vars, Started, Raised, At
  <2> QED  BY <1>1, <2>1 DEF vars, agentVars, StateMatchesRun, IdleIsClean,
     PendingMatchesCalls
<1>2. CASE Progress
  BY <1>2, TurnMatches, CallsMatch, ParallelMatches, JoinedMatches, EndMatches
     DEF Progress, Turn, Tools
<1>3. CASE Caller
  BY <1>3, EndMatches, CallerMatches DEF Caller
<1>4. CASE \E c \in DOMAIN tasks : Task(c)
  BY <1>4, TaskMatches
<1> QED  BY <1>1, <1>2, <1>3, <1>4 DEF Next

\* What the agent says of itself is true of its run, through failures,
\* cancellations and tool tasks that outlive their run; an idle agent is clean.
THEOREM StateIsTrue == Spec => []StateMatchesRun
<1>1. Init => StateMatchesRun
  BY DEF Init, AgentInit, EmptyState, StateMatchesRun, IdleIsClean, PendingMatchesCalls
<1>2. LoopInv /\ TasksInv /\ StateMatchesRun /\ LoopInv' /\ TasksInv' /\ [Next]_vars
        => StateMatchesRun'
  BY StateMatchesStep
<1> QED  BY <1>1, <1>2, RunsAreSound, PTL DEF Spec

-----------------------------------------------------------------------------
(* The transcript holds no partial answer.                                 *)

IsFinished(m) == m.role = "assistant" => m.stop # "partial"

Finished == \A i \in 1..Len(state.messages) : IsFinished(state.messages[i])

LEMMA FinishedKept ==
  ASSUME LoopInv, Finished, NothingSaid
  PROVE  Finished'
  BY DEF NothingSaid, Becomes, Finished, IsFinished

LEMMA FinishedGrows ==
  ASSUME LoopInv, Finished, NEW m \in Messages, IsFinished(m), Arrives(m)
  PROVE  Finished'
<1>1. state.messages \in Seq(Messages)
  BY DEF LoopInv, Types, AgentState
<1> SUFFICES ASSUME NEW longer, longer = Append(state.messages, m)
             PROVE  \A i \in 1..Len(longer) : IsFinished(longer[i])
  BY DEF Arrives, Becomes, Finished, IsFinished
<1>2. /\ Len(longer) = Len(state.messages) + 1 /\ longer[Len(state.messages) + 1] = m
      /\ \A i \in 1..Len(state.messages) : longer[i] = state.messages[i]
      /\ Len(state.messages) \in Nat
  BY <1>1, AppendProperties, LenProperties
<1>3. \A i \in 1..Len(longer) : i \in 1..Len(state.messages) \/ i = Len(state.messages) + 1
  BY <1>2
<1> QED  BY <1>2, <1>3 DEF Finished

LEMMA FinishedStep == LoopInv /\ Finished /\ [Next]_vars => Finished'
<1> SUFFICES ASSUME LoopInv, Finished, [Next]_vars PROVE Finished'
  OBVIOUS
<1>1. CASE FirstTurn \/ StartInjecting \/ Request \/ FirstPoll \/ StreamStart
  BY <1>1, OpeningMoves, FirstPollMoves, StreamStartMoves, FinishedKept
<1>2. CASE ErrorTurn \/ PlainTurn \/ LastTurn \/ NothingLeft \/ StopAfterTurn
           \/ TurnWithSteering \/ TurnWithFollowUps
  BY <1>2, AnsweredMoves, EndingMoves, TurnMoves, NextTurnMoves, FinishedKept
<1>3. CASE \/ BeginBatch \/ FailCall \/ ExecuteCall \/ CallExecuted \/ SequentialResult
           \/ SequentialNext \/ PrepareRunner \/ AfterImmediate \/ Joined \/ ParallelNext
           \/ FinishBatch
  <2>1. state'.messages = state.messages
    BY <1>3, BeginBatchMoves, OutcomeMoves, ResultMoves, RunnerMoves, ImmediateMoves,
       JoinedMoves, FinishBatchMoves DEF NothingSaid, Spawns, Becomes
  <2> QED  BY <2>1 DEF Finished, IsFinished
<1>4. CASE EndInjecting \/ EndResult
  <2>1. PICK m \in UserMessages \cup ResultMessages : Arrives(m)
    BY <1>4, OpeningMoves, EndResultMoves
  <2>2. m \in Messages /\ m.role # "assistant"
    BY MessageKinds
  <2> QED  BY <2>1, <2>2, FinishedGrows DEF IsFinished
<1>5. CASE StreamEnd
  <2>1. PICK final \in AnswerMessages : final.stop # "partial" /\ Arrives(final)
    BY <1>5, StreamEndMoves
  <2> QED  BY <2>1, MessageKinds, FinishedGrows DEF IsFinished
<1>6. CASE Finish \/ FailAgain \/ CancelRun \/ Fail
  <2>1. state'.messages = state.messages
    BY <1>6, SettlingMoves, FailMoves DEF NothingSaid, Settles, Becomes
  <2> QED  BY <2>1 DEF Finished, IsFinished
<1>7. CASE ReportFailure
  BY <1>7, ReportMoves, FailureTyped, FinishedKept, FinishedGrows DEF IsFinished
<1>8. CASE Prompt \/ ContinueTranscript \/ ContinueWithSteering \/ ContinueWithFollowUps
  BY <1>8, StartMoves, FinishedKept DEF Starts
<1>9. CASE \/ \E m \in Steers : Steer(m)
           \/ \E m \in FollowUps : FollowUp(m)
           \/ ClearAllQueues \/ Abort \/ Reset
  <2>1. UNCHANGED state \/ state'.messages = <<>>
    BY <1>9, CallerMoves DEF EmptyState
  <2> QED  BY <2>1 DEF Finished, IsFinished
<1>10. CASE \E c \in DOMAIN tasks : Task(c)
  <2>1. state'.messages = state.messages
    BY <1>10, TaskMoves DEF NothingSaid, Becomes
  <2> QED  BY <2>1 DEF Finished, IsFinished
<1>11. CASE UNCHANGED vars
  BY <1>11 DEF vars, agentVars, Finished, IsFinished
<1> QED
  BY <1>1, <1>2, <1>3, <1>4, <1>5, <1>6, <1>7, <1>8, <1>9, <1>10, <1>11
     DEF Next, Progress, Turn, Tools, Caller

\* Every variable keeps its type, for any number of callers, runs, messages
\* and calls, and the transcript never holds an answer that is not finished.
THEOREM AgentTypes == Spec => []TypeOK
<1>1. LoopInv /\ Finished => TypeOK
  <2> SUFFICES ASSUME LoopInv, Finished PROVE TypeOK
    OBVIOUS
  <2>1. /\ state \in AgentState /\ loop \in LoopRecord
        /\ steering \in Seq(UserMessages) /\ followUps \in Seq(UserMessages)
    BY SteersAreUsers DEF LoopInv, Types
  <2>2. /\ state.messages \in Seq(Messages) /\ state.pending_tool_calls \subseteq Calls
        /\ {state.is_streaming, state.streaming_message, state.error_message} \subseteq BOOLEAN
    BY <2>1 DEF AgentState
  <2> QED  BY <2>1, <2>2, LoopFields
           DEF LoopInv, Types, Finished, IsFinished, TypeOK, TaskStates, Places
<1>2. Init => Finished
  BY DEF Init, AgentInit, EmptyState, Finished
<1>3. LoopInv /\ Finished /\ [Next]_vars => Finished'
  BY FinishedStep
<1> QED  BY <1>1, <1>2, <1>3, RunsAreSound, PTL DEF Spec
=============================================================================
