-------------------------------- MODULE Agent --------------------------------
(***************************************************************************)
(* The state an Agent shares with its callers and its listeners, what the  *)
(* events of a run do to it, and the calls a caller may make at any time.  *)
(* AgentLoop adds the run itself. A message is its role and an identity;   *)
(* an assistant message also has its number of tool calls and stop reason. *)
(***************************************************************************)
EXTENDS Naturals, Sequences, FiniteSets, SequencesExt

CONSTANTS
  Steers,      \* messages that callers pass to steer, each once
  FollowUps,   \* messages that callers pass to follow_up, each once
  Modes,       \* the queue modes an agent may be made with
  Aborts,      \* whether a caller may abort
  MaxRuns,     \* bound on the runs that are started
  MaxResets    \* bound on resets and on clearing the queues

ASSUME AgentAssumption ==
  /\ Steers \cap FollowUps = {}
  /\ \A n \in 1..MaxRuns : <<n>> \notin Steers \cup FollowUps
  /\ Modes \subseteq {"all", "one-at-a-time"}
  /\ Aborts \in BOOLEAN
  /\ MaxRuns \in Nat /\ MaxResets \in Nat

VARIABLES
  mode,        \* steering_mode and follow_up_mode, set when the agent is made
  state,       \* MutableAgentState
  steering,    \* the steering queue
  followUps,   \* the follow-up queue
  active,      \* there is an _active_run
  aborted,     \* its abort signal
  runs,        \* runs started so far
  resets,      \* resets and clears so far
  view,        \* what the listeners have been told: see Seen
  sent,        \* the steering and follow-up messages callers have used up
  steered      \* the messages steered so far and not cleared since, in order

agentVars ==
  <<mode, state, steering, followUps, active, aborted, runs, resets, view, sent, steered>>

-----------------------------------------------------------------------------
User(id) == [role |-> "user", id |-> id]
Assistant(n, calls, stop) ==
  [role |-> "assistant", id |-> n, calls |-> calls, stop |-> stop]
ToolResult(call) == [role |-> "toolResult", id |-> call]

NoMessage == [role |-> "none"]

\* The message _handle_run_failure makes up.
FailureMessage == Assistant(0, 0, "error")

EmptyState == [messages |-> <<>>, is_streaming |-> FALSE, streaming_message |-> FALSE,
               pending_tool_calls |-> {}, error_message |-> FALSE]

-----------------------------------------------------------------------------
(* Events: _process_events first reduces the state, then calls listeners.  *)

AgentStart == [type |-> "agent_start"]
TurnStart == [type |-> "turn_start"]
MessageStart(m) == [type |-> "message_start", message |-> m]
MessageEnd(m) == [type |-> "message_end", message |-> m]
ToolStart(c) == [type |-> "tool_execution_start", call |-> c]
ToolEnd(c) == [type |-> "tool_execution_end", call |-> c]
TurnEnd(m) == [type |-> "turn_end", message |-> m]
AgentEnd == [type |-> "agent_end"]

Reduce(s, e) ==
  CASE e.type = "message_start" -> [s EXCEPT !.streaming_message = TRUE]
    [] e.type = "message_end" ->
         [s EXCEPT !.streaming_message = FALSE, !.messages = Append(s.messages, e.message)]
    [] e.type = "tool_execution_start" ->
         [s EXCEPT !.pending_tool_calls = s.pending_tool_calls \cup {e.call}]
    [] e.type = "tool_execution_end" ->
         [s EXCEPT !.pending_tool_calls = s.pending_tool_calls \ {e.call}]
    [] e.type = "turn_end" ->
         [s EXCEPT !.error_message = s.error_message \/ e.message.stop = "error"]
    [] e.type = "agent_end" -> [s EXCEPT !.streaming_message = FALSE]
    [] OTHER -> s

\* A listener's own account of the run, kept event by event.
Seen(v, e) ==
  LET w == [v EXCEPT !.tick = ~v.tick]
  IN CASE e.type = "agent_start" -> [w EXCEPT !.run = TRUE]
       [] e.type = "agent_end" -> [w EXCEPT !.run = FALSE]
       [] e.type = "turn_start" -> [w EXCEPT !.turn = TRUE]
       [] e.type = "turn_end" -> [w EXCEPT !.turn = FALSE]
       [] e.type = "message_start" -> [w EXCEPT !.message = e.message]
       [] e.type = "message_end" -> [w EXCEPT !.message = NoMessage]
       [] e.type = "tool_execution_start" -> [w EXCEPT !.tools = v.tools \cup {e.call}]
       [] e.type = "tool_execution_end" -> [w EXCEPT !.tools = v.tools \ {e.call}]

Process(e) == state' = Reduce(state, e) /\ view' = Seen(view, e) /\ UNCHANGED mode

-----------------------------------------------------------------------------
(* The queues. *)

Drained(queue) ==
  IF mode = "all" \/ queue = <<>> THEN queue ELSE <<Head(queue)>>

\* Mistake: draining one message empties the queue.
LeftNothing(queue) == <<>>

Left(queue) == SubSeq(queue, Len(Drained(queue)) + 1, Len(queue))

AgentInit ==
  /\ mode \in Modes
  /\ state = EmptyState
  /\ steering = <<>> /\ followUps = <<>>
  /\ active = FALSE /\ aborted = FALSE
  /\ runs = 0 /\ resets = 0
  /\ view = [run |-> FALSE, turn |-> FALSE, message |-> NoMessage, tools |-> {}, tick |-> FALSE]
  /\ sent = {} /\ steered = <<>>

Steer(m) ==
  /\ m \notin sent
  /\ sent' = sent \cup {m}
  /\ steering' = Append(steering, User(m))
  /\ steered' = Append(steered, User(m))
  /\ UNCHANGED <<mode, state, followUps, active, aborted, runs, resets, view>>

FollowUp(m) ==
  /\ m \notin sent
  /\ sent' = sent \cup {m}
  /\ followUps' = Append(followUps, User(m))
  /\ UNCHANGED <<mode, state, steering, active, aborted, runs, resets, view, steered>>

ClearAllQueues ==
  /\ resets < MaxResets
  /\ resets' = resets + 1
  /\ steering' = <<>> /\ followUps' = <<>>
  /\ steered' = SubSeq(steered, 1, Len(steered) - Len(steering))
  /\ UNCHANGED <<mode, state, active, aborted, runs, view, sent>>

Abort ==
  /\ Aborts
  /\ active
  /\ aborted' = TRUE
  /\ UNCHANGED <<mode, state, steering, followUps, active, runs, resets, view, sent, steered>>

Reset ==
  /\ ~active
  /\ resets < MaxResets
  /\ resets' = resets + 1
  /\ state' = EmptyState
  /\ steering' = <<>> /\ followUps' = <<>>
  /\ steered' = <<>>
  /\ UNCHANGED <<mode, active, aborted, runs, view, sent>>

\* _run_with_lifecycle up to the first event of the run.
BeginRun ==
  /\ ~active
  /\ runs < MaxRuns
  /\ runs' = runs + 1
  /\ active' = TRUE
  /\ aborted' = FALSE
  /\ state' = [state EXCEPT !.is_streaming = TRUE, !.streaming_message = FALSE,
                            !.error_message = FALSE]
  /\ view' = Seen(view, AgentStart)
  /\ UNCHANGED mode

\* _finish_run, which also resolves the future wait_for_idle waits for.
FinishRun ==
  /\ active' = FALSE
  /\ aborted' = FALSE
  /\ state' = [state EXCEPT !.is_streaming = FALSE, !.streaming_message = FALSE,
                            !.pending_tool_calls = {}]
  /\ UNCHANGED mode
=============================================================================
