----------------------------- MODULE AgentEvents -----------------------------
(***************************************************************************)
(* What a listener of an Agent is promised about the order of events: a    *)
(* run is a sequence of turns between agent_start and agent_end, messages  *)
(* do not overlap and lie within a turn, and every tool call that starts   *)
(* ends before its turn does. Nothing comes after agent_end but a new run. *)
(***************************************************************************)
CONSTANTS Messages, Calls, NoMessage

VARIABLES
  run,      \* between agent_start and agent_end
  turn,     \* between turn_start and turn_end
  message,  \* the message between its message_start and its message_end
  tools,    \* the tool calls between their start and their end
  tick      \* flips with every event, so that no event is a stutter

vars == <<run, turn, message, tools, tick>>

Init == ~run /\ ~turn /\ message = NoMessage /\ tools = {} /\ tick \in BOOLEAN

AgentStart ==
  /\ ~run
  /\ run' = TRUE
  /\ UNCHANGED <<turn, message, tools>>

TurnStart ==
  /\ run /\ ~turn
  /\ turn' = TRUE
  /\ UNCHANGED <<run, message, tools>>

MessageStart ==
  /\ turn /\ message = NoMessage
  /\ message' \in Messages
  /\ UNCHANGED <<run, turn, tools>>

MessageEnd ==
  /\ message # NoMessage
  /\ message' = NoMessage
  /\ UNCHANGED <<run, turn, tools>>

ToolStart ==
  /\ turn /\ message = NoMessage
  /\ \E c \in Calls \ tools : tools' = tools \cup {c}
  /\ UNCHANGED <<run, turn, message>>

ToolEnd ==
  /\ turn /\ message = NoMessage
  /\ \E c \in tools : tools' = tools \ {c}
  /\ UNCHANGED <<run, turn, message>>

TurnEnd ==
  /\ turn /\ message = NoMessage /\ tools = {}
  /\ turn' = FALSE
  /\ UNCHANGED <<run, message, tools>>

AgentEnd ==
  /\ run /\ ~turn
  /\ run' = FALSE
  /\ UNCHANGED <<turn, message, tools>>

Next ==
  /\ tick' = ~tick
  /\ \/ AgentStart \/ TurnStart \/ MessageStart \/ MessageEnd
     \/ ToolStart \/ ToolEnd \/ TurnEnd \/ AgentEnd

Spec == Init /\ [][Next]_vars
=============================================================================
