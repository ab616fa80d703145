------------------------------ MODULE AgentLoop ------------------------------
(***************************************************************************)
(* The run of an Agent: _run_loop, the streaming of one answer, and tool   *)
(* calls one by one or in parallel, interleaved at every await with the    *)
(* callers of the agent and with tool tasks that may outlive their run.    *)
(* loop.pc names the await the run is suspended at, mostly the listeners   *)
(* of the event last emitted; an action resumes it up to the next await.   *)
(* The provider, the tools and the hooks are environment: any outcome.     *)
(***************************************************************************)
EXTENDS Agent, TLC

CONSTANTS
  Failures,    \* whether listeners, hooks and the provider may raise
  Cancels,     \* whether the task that runs a prompt may be cancelled
  MaxAsking,   \* bound: answers with tool calls are among the first of a behaviour
  MaxCalls     \* bound on the tool calls of one answer

ASSUME LoopAssumption ==
  /\ {Failures, Cancels} \subseteq BOOLEAN
  /\ MaxAsking \in Nat /\ MaxCalls \in Nat

VARIABLES
  loop,      \* the locals of the run
  tasks,     \* the spawned tool tasks that are not over, by call
  answers    \* answers so far

vars == <<agentVars, loop, tasks, answers>>

-----------------------------------------------------------------------------
NoBatch == [answer |-> NoMessage, mode |-> "none", outcomes |-> <<>>, results |-> <<>>]

Idle == [pc |-> "idle", prompts |-> FALSE, skip |-> FALSE, inject |-> <<>>,
         context |-> <<>>, new |-> <<>>, first |-> 0, batch |-> NoBatch]

Init ==
  /\ AgentInit
  /\ loop = Idle
  /\ tasks = <<>>
  /\ answers = 0

At(pc) == loop.pc = pc

\* Only the run moves: nobody touches the queues.
QueuesKept ==
  UNCHANGED <<steering, followUps, active, aborted, runs, resets, sent, steered>>

\* The run emits e and awaits its listeners at pc, with its locals as in l.
Emit(e, l, pc) ==
  /\ Process(e)
  /\ loop' = [l EXCEPT !.pc = pc]

-----------------------------------------------------------------------------
(* Starting a run: prompt and continue_.                                   *)

Run(messages, skip) ==
  /\ BeginRun
  /\ loop' = [Idle EXCEPT !.pc = "agent_start", !.prompts = TRUE, !.skip = skip,
                          !.inject = messages, !.context = state.messages \o messages,
                          !.new = messages, !.first = Len(state.messages) + 1]
  /\ UNCHANGED <<resets, sent, steered, tasks, answers>>

Prompt ==
  /\ Run(<<User(<<runs + 1>>)>>, FALSE)
  /\ UNCHANGED <<steering, followUps>>

EndsWithAnswer == Last(state.messages).role = "assistant"

ContinueTranscript ==
  /\ state.messages # <<>> /\ ~EndsWithAnswer
  /\ Run(<<>>, FALSE)
  /\ UNCHANGED <<steering, followUps>>

ContinueWithSteering ==
  /\ state.messages # <<>> /\ EndsWithAnswer
  /\ steering # <<>>
  /\ Run(Drained(steering), TRUE)
  /\ steering' = Left(steering)
  /\ UNCHANGED followUps

ContinueWithFollowUps ==
  /\ state.messages # <<>> /\ EndsWithAnswer
  /\ steering = <<>> /\ followUps # <<>>
  /\ Run(Drained(followUps), FALSE)
  /\ followUps' = Left(followUps)
  /\ UNCHANGED steering

-----------------------------------------------------------------------------
(* The messages that open a turn: prompts, then what was polled.           *)

FirstTurn ==
  /\ At("agent_start")
  /\ Emit(TurnStart, loop, "turn_start")
  /\ QueuesKept /\ UNCHANGED <<tasks, answers>>

\* Mistake: a polled message is announced but not shown to the provider.
InjectedUnseen ==
  IF ~At("injected") THEN loop
  ELSE [loop EXCEPT !.inject = Tail(loop.inject),
          !.new = IF loop.prompts THEN @ ELSE Append(@, Head(loop.inject))]

\* The listeners of message_end are done: a polled message joins the context.
Injected ==
  IF ~At("injected") THEN loop
  ELSE [loop EXCEPT !.inject = Tail(loop.inject),
          !.context = IF loop.prompts THEN @ ELSE Append(@, Head(loop.inject)),
          !.new = IF loop.prompts THEN @ ELSE Append(@, Head(loop.inject))]

CanInject == loop.pc \in {"turn_start", "polled", "injected"}

StartInjecting ==
  /\ CanInject
  /\ Injected.inject # <<>>
  /\ Emit(MessageStart(Head(Injected.inject)), Injected, "inject")
  /\ QueuesKept /\ UNCHANGED <<tasks, answers>>

EndInjecting ==
  /\ At("inject")
  /\ Emit(MessageEnd(Head(loop.inject)), loop, "injected")
  /\ QueuesKept /\ UNCHANGED <<tasks, answers>>

\* _run_loop starts with a poll, which continue_ may have it skip once.
FirstPoll ==
  /\ CanInject
  /\ Injected.inject = <<>> /\ loop.prompts
  /\ LET polled == IF loop.skip THEN <<>> ELSE Drained(steering)
     IN /\ loop' = [Injected EXCEPT !.pc = "polled", !.prompts = FALSE, !.skip = FALSE,
                                    !.inject = polled]
        /\ steering' = IF loop.skip THEN steering ELSE Left(steering)
  /\ UNCHANGED <<mode, state, followUps, active, aborted, runs, resets, view, sent, steered>>
  /\ UNCHANGED <<tasks, answers>>

\* transform_context, convert_to_llm, get_api_key and stream_fn are awaited.
Request ==
  /\ CanInject
  /\ Injected.inject = <<>> /\ ~loop.prompts
  /\ loop' = [Injected EXCEPT !.pc = "request"]
  /\ UNCHANGED <<agentVars, tasks, answers>>

-----------------------------------------------------------------------------
(* One answer. Updates of the partial message change nothing modelled.     *)

Partial == Assistant(answers + 1, 0, "partial")

StreamStart ==
  /\ At("request")
  /\ Emit(MessageStart(Partial), [loop EXCEPT !.context = Append(@, Partial)], "streaming")
  /\ QueuesKept /\ UNCHANGED <<tasks, answers>>

StreamEnd ==
  /\ At("streaming")
  /\ \E calls \in 0..(IF answers < MaxAsking THEN MaxCalls ELSE 0),
        stop \in {"stop", "length", "error"} :
       LET final == Assistant(answers + 1, calls, stop)
       IN Emit(MessageEnd(final),
               [loop EXCEPT !.context[Len(loop.context)] = final, !.batch.answer = final],
               "answered")
  /\ answers' = answers + 1
  /\ QueuesKept /\ UNCHANGED tasks

Answer == loop.batch.answer
Answered == [loop EXCEPT !.new = Append(@, Answer)]

\* Mistake: an error ends the run in the middle of its turn.
ErrorTurnOpen ==
  /\ At("answered")
  /\ Answer.stop = "error"
  /\ Emit(AgentEnd, Answered, "agent_end")
  /\ QueuesKept /\ UNCHANGED <<tasks, answers>>

ErrorTurn ==
  /\ At("answered")
  /\ Answer.stop = "error"
  /\ Emit(TurnEnd(Answer), Answered, "last_turn")
  /\ QueuesKept /\ UNCHANGED <<tasks, answers>>

PlainTurn ==
  /\ At("answered")
  /\ Answer.stop # "error" /\ Answer.calls = 0
  /\ Emit(TurnEnd(Answer), Answered, "turn_end")
  /\ QueuesKept /\ UNCHANGED <<tasks, answers>>

LastTurn ==
  /\ At("last_turn")
  /\ Emit(AgentEnd, loop, "agent_end")
  /\ QueuesKept /\ UNCHANGED <<tasks, answers>>

-----------------------------------------------------------------------------
(* Tool calls. outcomes holds what preparing or executing each call came   *)
(* to, in source order; a "runner" is a call whose task has yet to start.  *)

Call(i) == <<Answer.id, i>>
Batch == loop.batch
Prepared == Len(Batch.outcomes)

Outcome(kind, terminate) == [kind |-> kind, terminate |-> terminate]
AddOutcome(o) == [loop EXCEPT !.batch.outcomes = Append(@, o)]

\* A length stop fails every call; one sequential tool makes a batch sequential.
BeginBatch ==
  /\ At("answered")
  /\ Answer.stop # "error" /\ Answer.calls > 0
  /\ \E how \in IF Answer.stop = "length" THEN {"truncated"} ELSE {"sequential", "parallel"} :
       Emit(ToolStart(Call(1)), [Answered EXCEPT !.batch.mode = how], "tool_start")
  /\ QueuesKept /\ UNCHANGED <<tasks, answers>>

\* Every call of a truncated answer fails; of others, a call to an unknown
\* tool, with bad arguments, blocked, or prepared under an abort.
FailCall ==
  /\ At("tool_start")
  /\ \E terminate \in IF Batch.mode = "truncated" \/ aborted THEN {FALSE} ELSE BOOLEAN :
       Emit(ToolEnd(Call(Prepared + 1)), AddOutcome(Outcome("immediate", terminate)), "tool_end")
  /\ QueuesKept /\ UNCHANGED <<tasks, answers>>

\* One by one: the tool runs and after_tool_call has its say.
ExecuteCall ==
  /\ At("tool_start")
  /\ Batch.mode = "sequential" /\ ~aborted
  /\ loop' = [loop EXCEPT !.pc = "executing"]
  /\ UNCHANGED <<agentVars, tasks, answers>>

CallExecuted ==
  /\ At("executing")
  /\ \E terminate \in BOOLEAN :
       Emit(ToolEnd(Call(Prepared + 1)), AddOutcome(Outcome("executed", terminate)), "tool_end")
  /\ QueuesKept /\ UNCHANGED <<tasks, answers>>

\* The result message of the next call in source order.
NextResult == ToolResult(Call(Len(Batch.results) + 1))

StartResult(l) == Emit(MessageStart(NextResult), l, "result_start")

SequentialResult ==
  /\ At("tool_end")
  /\ Batch.mode # "parallel"
  /\ StartResult(loop)
  /\ QueuesKept /\ UNCHANGED <<tasks, answers>>

EndResult ==
  /\ At("result_start")
  /\ Emit(MessageEnd(NextResult), [loop EXCEPT !.batch.results = Append(@, NextResult)],
          "result_end")
  /\ QueuesKept /\ UNCHANGED <<tasks, answers>>

\* Whether the calls have all been prepared, or an abort stops them.
Stopped == Batch.mode # "truncated" /\ aborted
LastCall == Prepared = Answer.calls

SequentialNext ==
  /\ At("result_end")
  /\ Batch.mode # "parallel" /\ ~LastCall /\ ~Stopped
  /\ Emit(ToolStart(Call(Prepared + 1)), loop, "tool_start")
  /\ QueuesKept /\ UNCHANGED <<tasks, answers>>

\* In parallel: every gate first, in source order, then all the tools.
Runners(l) == {i \in 1..Len(l.batch.outcomes) : l.batch.outcomes[i].kind = "runner"}

Spawn(l) ==
  /\ LET spawned == {Call(i) : i \in Runners(l)}
     IN tasks' = [c \in DOMAIN tasks \cup spawned |->
                    IF c \in spawned THEN "running" ELSE tasks[c]]
  /\ loop' = [l EXCEPT !.pc = "join"]
  /\ UNCHANGED agentVars

\* Mistake: a tool starts as soon as its own gate lets it.
PrepareRunnerEagerly ==
  /\ At("tool_start")
  /\ Batch.mode = "parallel" /\ ~aborted
  /\ LET l == AddOutcome(Outcome("runner", FALSE))
     IN IF Prepared + 1 < Answer.calls
        THEN /\ Emit(ToolStart(Call(Prepared + 2)), l, "tool_start")
             /\ tasks' = [c \in {Call(Prepared + 1)} |-> "running"] @@ tasks
             /\ QueuesKept
        ELSE Spawn(l)
  /\ UNCHANGED answers

PrepareRunner ==
  /\ At("tool_start")
  /\ Batch.mode = "parallel" /\ ~aborted
  /\ LET l == AddOutcome(Outcome("runner", FALSE))
     IN IF Prepared + 1 < Answer.calls
        THEN /\ Emit(ToolStart(Call(Prepared + 2)), l, "tool_start")
             /\ QueuesKept /\ UNCHANGED tasks
        ELSE Spawn(l)
  /\ UNCHANGED answers

AfterImmediate ==
  /\ At("tool_end")
  /\ Batch.mode = "parallel"
  /\ IF ~LastCall /\ ~aborted
     THEN /\ Emit(ToolStart(Call(Prepared + 1)), loop, "tool_start")
          /\ QueuesKept /\ UNCHANGED tasks
     ELSE Spawn(loop)
  /\ UNCHANGED answers

\* The run awaits the tasks in source order, then emits their results.
Over(i) == i \in Runners(loop) => tasks[Call(i)] \in {"done", "terminating"}

Joined ==
  /\ At("join")
  /\ \A i \in 1..Prepared : Over(i)
  /\ StartResult([loop EXCEPT !.batch.outcomes =
       [i \in 1..Prepared |-> IF i \in Runners(loop)
                              THEN Outcome("executed", tasks[Call(i)] = "terminating")
                              ELSE Batch.outcomes[i]]])
  /\ tasks' = [c \in DOMAIN tasks \ {Call(i) : i \in Runners(loop)} |-> tasks[c]]
  /\ QueuesKept /\ UNCHANGED answers

ParallelNext ==
  /\ At("result_end")
  /\ Batch.mode = "parallel" /\ Len(Batch.results) < Prepared
  /\ StartResult(loop)
  /\ QueuesKept /\ UNCHANGED <<tasks, answers>>

\* Mistake: the turn ends with the first result.
FinishBatchEarly ==
  /\ At("result_end")
  /\ Emit(TurnEnd(Answer),
          [loop EXCEPT !.context = @ \o Batch.results, !.new = @ \o Batch.results], "turn_end")
  /\ QueuesKept /\ UNCHANGED <<tasks, answers>>

\* The last result is out: the turn ends.
FinishBatch ==
  /\ At("result_end")
  /\ IF Batch.mode = "parallel" THEN Len(Batch.results) = Prepared ELSE LastCall \/ Stopped
  /\ Emit(TurnEnd(Answer),
          [loop EXCEPT !.context = @ \o Batch.results, !.new = @ \o Batch.results], "turn_end")
  /\ QueuesKept /\ UNCHANGED <<tasks, answers>>

-----------------------------------------------------------------------------
(* Between turns. The batch stops the loop only if all its results ask to. *)

MoreToolCalls ==
  Answer.calls > 0 /\ \E i \in 1..Prepared : ~Batch.outcomes[i].terminate

NextTurn(messages) ==
  Emit(TurnStart, [loop EXCEPT !.inject = messages, !.batch = NoBatch], "turn_start")

TurnWithSteering ==
  /\ At("turn_end")
  /\ MoreToolCalls \/ steering # <<>>
  /\ NextTurn(Drained(steering))
  /\ steering' = Left(steering)
  /\ UNCHANGED <<followUps, active, aborted, runs, resets, sent, steered, tasks, answers>>

TurnWithFollowUps ==
  /\ At("turn_end")
  /\ ~MoreToolCalls /\ steering = <<>> /\ followUps # <<>>
  /\ NextTurn(Drained(followUps))
  /\ followUps' = Left(followUps)
  /\ UNCHANGED <<steering, active, aborted, runs, resets, sent, steered, tasks, answers>>

NothingLeft ==
  /\ At("turn_end")
  /\ ~MoreToolCalls /\ steering = <<>> /\ followUps = <<>>
  /\ Emit(AgentEnd, loop, "agent_end")
  /\ QueuesKept /\ UNCHANGED <<tasks, answers>>

\* should_stop_after_turn ends the run before the queues are polled.
StopAfterTurn ==
  /\ At("turn_end")
  /\ Emit(AgentEnd, loop, "agent_end")
  /\ QueuesKept /\ UNCHANGED <<tasks, answers>>

\* The run is over, one way or another: _run_with_lifecycle's finally.
Settle ==
  /\ FinishRun
  /\ loop' = Idle
  /\ UNCHANGED <<steering, followUps, runs, resets, view, sent, steered, answers>>

Finish ==
  /\ loop.pc \in {"agent_end", "failure_end"}
  /\ Settle
  /\ UNCHANGED tasks

-----------------------------------------------------------------------------
(* Failures. What raises here: a listener of the event last emitted, a     *)
(* hook, the provider, or the first tool task that has raised.             *)

Failing == {"failure", "failure_message", "failure_turn", "failure_end"}
Raising == {"agent_start", "turn_start", "inject", "injected", "request", "streaming",
            "answered", "last_turn", "tool_start", "executing", "tool_end",
            "result_start", "result_end", "turn_end", "agent_end"}

\* Mistake: a tool task that raised is waited for like one that runs.
JoinRaisesNever == FALSE

JoinRaises ==
  /\ At("join")
  /\ \E i \in Runners(loop) :
       tasks[Call(i)] = "raised" /\ \A j \in 1..(i - 1) : Over(j)

Fail ==
  /\ Failures
  /\ loop.pc \in Raising \/ JoinRaises
  /\ Emit(MessageStart(FailureMessage), Idle, "failure")
  /\ tasks' = [c \in {d \in DOMAIN tasks : tasks[d] \in {"running", "ending"}} |-> tasks[c]]
  /\ QueuesKept /\ UNCHANGED answers

FailureStep(e, from, to) ==
  /\ At(from)
  /\ Emit(e, loop, to)
  /\ QueuesKept /\ UNCHANGED <<tasks, answers>>

ReportFailure ==
  \/ FailureStep(MessageEnd(FailureMessage), "failure", "failure_message")
  \/ FailureStep(TurnEnd(FailureMessage), "failure_message", "failure_turn")
  \/ FailureStep(AgentEnd, "failure_turn", "failure_end")

\* A listener raises again while the failure is reported.
FailAgain ==
  /\ Failures
  /\ loop.pc \in Failing
  /\ Settle
  /\ UNCHANGED tasks

\* Cancellation is no Exception: nothing is reported. The task that the run
\* was awaiting is cancelled with it, the others go on.
CancelRun ==
  /\ Cancels
  /\ active
  /\ Settle
  /\ LET awaited == {i \in Runners(loop) : ~Over(i) /\ \A j \in 1..(i - 1) : Over(j)}
         gone == IF At("join") THEN {Call(i) : i \in awaited} ELSE {}
     IN tasks' = [c \in {d \in DOMAIN tasks : tasks[d] \in {"running", "ending"}} \ gone
                    |-> tasks[c]]

-----------------------------------------------------------------------------
(* Tool tasks. One whose run is gone goes on and emits into whatever run   *)
(* is active now; without one, its event still reduces the state.          *)

Owned(c) == At("join") /\ c \in {Call(i) : i \in Runners(loop)}

Leave(c, how) ==
  tasks' = IF Owned(c) THEN [tasks EXCEPT ![c] = how]
           ELSE [d \in DOMAIN tasks \ {c} |-> tasks[d]]

\* Mistake: the end of a call is announced but stays pending.
ToolDoneStaysPending(c) ==
  /\ tasks[c] = "running"
  /\ IF active
     THEN view' = Seen(view, ToolEnd(c)) /\ tasks' = [tasks EXCEPT ![c] = "ending"]
     ELSE UNCHANGED view /\ Leave(c, "raised")
  /\ UNCHANGED <<mode, state>>
  /\ QueuesKept /\ UNCHANGED <<loop, answers>>

ToolDone(c) ==
  /\ tasks[c] = "running"
  /\ state' = Reduce(state, ToolEnd(c))
  /\ IF active
     THEN view' = Seen(view, ToolEnd(c)) /\ tasks' = [tasks EXCEPT ![c] = "ending"]
     ELSE UNCHANGED view /\ Leave(c, "raised")
  /\ QueuesKept /\ UNCHANGED <<mode, loop, answers>>

TaskDone(c) ==
  /\ tasks[c] = "ending"
  /\ \E how \in {"done", "terminating"} : Leave(c, how)
  /\ UNCHANGED <<agentVars, loop, answers>>

\* A listener of an update or of tool_execution_end raises.
TaskRaises(c) ==
  /\ Failures
  /\ tasks[c] \in {"running", "ending"}
  /\ Leave(c, "raised")
  /\ UNCHANGED <<agentVars, loop, answers>>

-----------------------------------------------------------------------------
Task(c) == ToolDone(c) \/ TaskDone(c) \/ TaskRaises(c)

Turn ==
  \/ FirstTurn \/ StartInjecting \/ EndInjecting \/ FirstPoll \/ Request
  \/ StreamStart \/ StreamEnd \/ ErrorTurn \/ PlainTurn \/ LastTurn
  \/ TurnWithSteering \/ TurnWithFollowUps \/ NothingLeft \/ StopAfterTurn \/ Finish

Tools ==
  \/ BeginBatch \/ FailCall \/ ExecuteCall \/ CallExecuted \/ SequentialResult
  \/ EndResult \/ SequentialNext \/ PrepareRunner \/ AfterImmediate \/ Joined
  \/ ParallelNext \/ FinishBatch

Progress == Turn \/ Tools \/ Fail \/ ReportFailure \/ FailAgain

Caller ==
  \/ Prompt \/ ContinueTranscript \/ ContinueWithSteering \/ ContinueWithFollowUps
  \/ CancelRun
  \/ /\ (\E m \in Steers : Steer(m)) \/ (\E m \in FollowUps : FollowUp(m))
          \/ ClearAllQueues \/ Abort \/ Reset
     /\ UNCHANGED <<loop, tasks, answers>>

Next == Progress \/ Caller \/ \E c \in DOMAIN tasks : Task(c)

Spec == Init /\ [][Next]_vars

(* The provider answers, tools and hooks return, and the event loop runs   *)
(* whatever is ready.                                                      *)
Fairness ==
  /\ WF_vars(Progress)
  /\ \A n \in 1..MaxAsking, i \in 1..MaxCalls :
       WF_vars(<<n, i>> \in DOMAIN tasks /\ Task(<<n, i>>))

FairSpec == Spec /\ Fairness

-----------------------------------------------------------------------------
(* Properties. *)

Calls == (1..MaxAsking) \X (1..MaxCalls)
Ids == Steers \cup FollowUps \cup {<<n>> : n \in 1..MaxRuns}

UserMessages == [role : {"user"}, id : Ids]
ResultMessages == [role : {"toolResult"}, id : Calls]
AnswerMessages == [role : {"assistant"}, id : Nat, calls : 0..MaxCalls,
                   stop : {"stop", "length", "error", "partial"}]
Messages == UserMessages \cup ResultMessages \cup AnswerMessages

\* The type of the variables, with the transcript free of partial answers.
TypeOK ==
  /\ {state.messages, loop.context, loop.new} \subseteq Seq(Messages)
  /\ \A i \in 1..Len(state.messages) :
       state.messages[i].role = "assistant" => state.messages[i].stop # "partial"
  /\ state.pending_tool_calls \subseteq Calls
  /\ {state.is_streaming, state.streaming_message, state.error_message} \subseteq BOOLEAN
  /\ {steering, followUps, loop.inject} \subseteq Seq(UserMessages)
  /\ active = (loop.pc # "idle") /\ aborted \in BOOLEAN
  /\ loop.pc \in Raising \cup Failing \cup {"idle", "polled", "join"}
  /\ DOMAIN tasks \subseteq Calls
  /\ \A c \in DOMAIN tasks :
       tasks[c] \in {"running", "ending", "done", "terminating", "raised"}
  /\ answers \in Nat

IsSteer(m) == m.role = "user" /\ m.id \in Steers
IsFollowUp(m) == m.role = "user" /\ m.id \in FollowUps

\* No steering message is lost, doubled or overtaken: in the transcript, then
\* in the hands of the run, then in the queue, they are all there in order.
SteeringInOrder ==
  LET all == state.messages \o Injected.inject \o steering
      places == {i \in DOMAIN all : IsSteer(all[i])}
  IN /\ {all[i] : i \in places} = ToSet(steered)
     /\ \A i, j \in places :
          i < j => \E a, b \in DOMAIN steered :
                     a < b /\ steered[a] = all[i] /\ steered[b] = all[j]

\* In "one-at-a-time" mode the model answers every steering message, and
\* every follow-up, before it is shown the next one.
OneAtATime ==
  mode = "one-at-a-time" =>
    \A i, j \in 1..Len(state.messages) :
      /\ i < j
      /\ \/ IsSteer(state.messages[i]) /\ IsSteer(state.messages[j])
         \/ IsFollowUp(state.messages[i]) /\ IsFollowUp(state.messages[j])
      => \E k \in i..j : state.messages[k].role = "assistant"

\* Both promises about what users put into the queues.
InputInOrder == SteeringInOrder /\ OneAtATime

\* The context the provider is asked with is the transcript listeners and
\* callers see: the run keeps the two lists apart and must keep them equal.
RequestSeesTranscript == At("request") => loop.context = state.messages

\* The provider is never shown a tool call without its result: the results
\* follow their answer at once, in the order of the calls, and unless the run
\* is aborted there is one for every call of every answer of the run.
CallsAnswered ==
  LET context == loop.context
  IN loop.pc \in {"request", "agent_end"} =>
       /\ \A j \in 1..Len(context) :
            context[j].role = "toolResult" =>
              LET n == context[j].id[1]
                  k == context[j].id[2]
              IN j > k /\ context[j - k].role = "assistant" /\ context[j - k].id = n
       /\ ~aborted =>
            \A i \in loop.first..Len(context) :
              context[i].role = "assistant" /\ context[i].stop # "error" =>
                /\ i + context[i].calls <= Len(context)
                /\ \A k \in 1..context[i].calls :
                     context[i + k] = ToolResult(<<context[i].id, k>>)

\* The messages that agent_end reports are those the run added to the
\* transcript, from its prompts to its last answer or result.
RunReportsItsMessages ==
  At("agent_end") => loop.new = SubSeq(state.messages, loop.first, Len(state.messages))

\* The three accounts of one conversation, what the provider is shown, what the
\* transcript says and what the run reports, are the same.
AccountsAgree == RequestSeesTranscript /\ RunReportsItsMessages

\* When steering is injected, the tool calls of the answers before it have
\* all finished: each has its result in the transcript.
SteeringAfterCalls ==
  \A i, j \in 1..Len(state.messages) :
    LET m == state.messages[i]
    IN i < j /\ m.role = "assistant" /\ IsSteer(state.messages[j]) /\ m.stop # "error" =>
         \A k \in 1..m.calls : ToolResult(<<m.id, k>>) \in Range(state.messages)

\* What listeners are told is a sequence of events AgentEvents allows.
Events == INSTANCE AgentEvents WITH
  run <- view.run, turn <- view.turn, message <- view.message,
  tools <- view.tools, tick <- view.tick

EventProtocol == Events!Spec

\* agent_end is the final event of its run: the next one starts a run.
NothingAfterAgentEnd ==
  [][view'.tick # view.tick /\ ~view.run => view'.run]_vars

\* In a parallel batch no tool runs before every call of the batch went
\* through its gate, so an abort during preparation is still in time.
GatesBeforeTools ==
  Batch.mode = "parallel" /\ loop.pc \in {"tool_start", "tool_end"} =>
    \A i \in 1..Prepared : Call(i) \notin DOMAIN tasks

\* An agent without a run is clean, however the run ended and whatever tool
\* tasks it left behind: a new run starts from nothing but the transcript.
IdleIsClean ==
  ~active => /\ ~state.is_streaming /\ ~state.streaming_message
             /\ state.pending_tool_calls = {}

\* While a run handles tool calls, pending_tool_calls are those between their
\* start and their end, unless one raised and the run is about to fail.
Started ==
  {Call(i) : i \in (IF loop.pc \in {"tool_start", "executing"} THEN {Prepared + 1} ELSE {})
                     \cup {j \in Runners(loop) : ~At("join") \/ tasks[Call(j)] = "running"}}

Raised == {c \in DOMAIN tasks : tasks[c] = "raised"}

PendingMatchesCalls ==
  active /\ loop.pc \notin Failing => state.pending_tool_calls \ Raised = Started \ Raised

\* What the agent says of itself is true, during a run and after it.
StateMatchesRun == IdleIsClean /\ PendingMatchesCalls

\* A run settles: prompt returns and wait_for_idle resolves, whatever fails.
RunSettles == active ~> ~active
=============================================================================
