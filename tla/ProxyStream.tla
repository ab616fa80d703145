---------------------------- MODULE ProxyStream ----------------------------
(***************************************************************************)
(* stream_proxy: a task reads the events of a proxy server line by line,   *)
(* applies each to the partial message and pushes it to the consumer; a    *)
(* watcher cancels the task when the request is aborted. The server may    *)
(* send any event at any time, close early, break off or say nothing.      *)
(***************************************************************************)
EXTENDS Naturals, Sequences, SequencesExt

CONSTANTS
  Blocks,    \* content indexes the server uses
  MaxSent    \* bound on the events the server sends

VARIABLES
  wire,      \* lines sent and not read, and how the response ends
  sent,      \* how many lines have been sent
  task,      \* the task that reads: "request", "reading", "cancelled", "done"
  request,   \* the abort signal, and whether it was set before the stream ended
  partial,   \* the message: its blocks, the pending tool calls, its stop reason
  stream     \* the consumer's end: whether it is over, and the event that ended it

proxyVars == <<wire, sent, task, request, partial, stream>>

Kinds == {"text", "thinking", "toolcall"}
Events ==
  [step : {"start", "delta", "end"}, kind : Kinds, index : Blocks]
    \cup [step : {"done", "error"}]

ProxyInit ==
  /\ wire = [lines |-> <<>>, end |-> "open"]
  /\ sent = 0
  /\ task = "request"
  /\ request = [set |-> FALSE, inTime |-> FALSE]
  /\ partial = [blocks |-> <<>>, calls |-> {}, stop |-> "pending"]
  /\ stream = [over |-> FALSE, last |-> "none"]

(* The server, and the user.                                               *)

Send(event) ==
  /\ wire.end = "open" /\ sent < MaxSent /\ task = "reading"
  /\ wire' = [wire EXCEPT !.lines = Append(@, event)]
  /\ sent' = sent + 1
  /\ UNCHANGED <<task, request, partial, stream>>

EndResponse(how) ==
  /\ wire.end = "open" /\ task = "reading"
  /\ wire' = [wire EXCEPT !.end = how]
  /\ UNCHANGED <<sent, task, request, partial, stream>>

AbortRequest ==
  /\ ~request.set
  /\ request' = [set |-> TRUE, inTime |-> ~stream.over]
  /\ UNCHANGED <<wire, sent, task, partial, stream>>

-----------------------------------------------------------------------------
(* The stream the consumer reads (pi_ai): the first terminal event ends it,*)
(* and what is pushed after that is ignored.                               *)

Push(type) ==
  stream' = IF stream.over THEN stream
            ELSE [over |-> type \in {"done", "error", "aborted"}, last |-> type]

\* Mistake: every failure is an error.
FailAsError(reason) ==
  /\ partial' = [partial EXCEPT !.stop = "error"]
  /\ Push("error")
  /\ task' = "done"

\* _fail
Fail(reason) ==
  /\ partial' = [partial EXCEPT !.stop = reason]
  /\ Push(reason)
  /\ task' = "done"

\* What the except clause makes of an exception.
Excepted == Fail(IF request.set THEN "aborted" ELSE "error")

Respond ==
  /\ task = "request"
  /\ \/ task' = "reading" /\ UNCHANGED <<partial, stream>>
     \/ Excepted
  /\ UNCHANGED <<wire, sent, request>>

\* _set_content: empty text blocks fill the gap before a new index.
SetBlock(index, kind) ==
  [i \in 1..(IF Len(partial.blocks) < index THEN index ELSE Len(partial.blocks)) |->
     IF i = index THEN kind
     ELSE IF i <= Len(partial.blocks) THEN partial.blocks[i] ELSE "text"]

HasBlock(event) ==
  IF event.kind = "toolcall" THEN event.index \in partial.calls
  ELSE event.index <= Len(partial.blocks) /\ partial.blocks[event.index] = event.kind

\* The partial message after an event that process_proxy_event accepts.
Applied(event) ==
  CASE event.step \in {"done", "error"} -> [partial EXCEPT !.stop = event.step]
    [] event.step = "start" ->
         [partial EXCEPT !.blocks = SetBlock(event.index, event.kind),
                         !.calls = IF event.kind = "toolcall" THEN @ \cup {event.index} ELSE @]
    [] event.step = "delta" -> partial
    [] event.step = "end" ->
         [partial EXCEPT !.calls = IF event.kind = "toolcall" THEN @ \ {event.index} ELSE @]

\* An end of a tool call that is not pending is ignored, not an error.
Ignored(event) ==
  event.step = "end" /\ event.kind = "toolcall" /\ ~HasBlock(event)
Refused(event) == event.step \in {"delta", "end"} /\ ~HasBlock(event) /\ ~Ignored(event)

ReadLine ==
  LET event == Head(wire.lines)
  IN /\ task = "reading" /\ wire.lines # <<>>
     /\ wire' = [wire EXCEPT !.lines = Tail(@)]
     /\ CASE request.set \/ Refused(event) -> Excepted
          [] ~request.set /\ Ignored(event) -> UNCHANGED <<partial, stream, task>>
          [] OTHER -> partial' = Applied(event) /\ Push(event.step) /\ UNCHANGED task
     /\ UNCHANGED <<sent, request>>

\* stream.end() without a result when the server closed without a last event.
ReadResponseEnd ==
  /\ task = "reading" /\ wire.lines = <<>> /\ wire.end # "open"
  /\ IF request.set \/ wire.end = "broken" THEN Excepted
     ELSE /\ task' = "done" /\ stream' = [stream EXCEPT !.over = TRUE]
          /\ UNCHANGED partial
  /\ UNCHANGED <<wire, sent, request>>

\* cancel_on_abort; the task is cancelled at the await it is in.
CancelOnAbort ==
  /\ request.set /\ task \in {"request", "reading"}
  /\ task' = "cancelled"
  /\ UNCHANGED <<wire, sent, request, partial, stream>>

Cancelled ==
  /\ task = "cancelled"
  /\ Fail("aborted")
  /\ UNCHANGED <<wire, sent, request>>

ClientStep == ReadLine \/ ReadResponseEnd \/ Cancelled

ProxyNext ==
  \/ \E event \in Events : Send(event)
  \/ \E how \in {"closed", "broken"} : EndResponse(how)
  \/ AbortRequest \/ Respond \/ CancelOnAbort \/ ClientStep

ProxySpec == ProxyInit /\ [][ProxyNext]_proxyVars

-----------------------------------------------------------------------------
(* A request aborted before its last event ends as aborted, whatever the   *)
(* task was doing: waiting for a silent server, about to read an event or  *)
(* the end of the response, or failing for another reason. Its task never  *)
(* stops without having ended the stream that way.                         *)
AbortEndsStream ==
  request.set /\ request.inTime =>
    /\ task = "done" \/ stream.over => stream.last = "aborted"
    /\ task = "done" => stream.over
=============================================================================
