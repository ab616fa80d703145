----------------------------- MODULE LaneReducer -----------------------------
(***************************************************************************)
(* How a restart reconstructs a lane from what is on disk: the check of    *)
(* its record log (validate_record_log) and the reduction of records and   *)
(* entries to the state of the open operation (reduce_lane_state). A log   *)
(* is a sequence of records and entries; the seq of an item is its place.  *)
(* Configuration entries and usage records are left out.                   *)
(***************************************************************************)
EXTENDS Naturals, Sequences, FiniteSets, SequencesExt

NoRun == 0
NoId == 0

\* An entry: its role, and for assistants the tool calls and the stop reason;
\* a tool result names the call it answers.
Message(id, role, calls, stop, call) ==
  [type |-> "entry", id |-> id, role |-> role, calls |-> calls, stop |-> stop, call |-> call]

User(id) == Message(id, "user", 0, "none", <<>>)
Assistant(id, calls, stop) == Message(id, "assistant", calls, stop, <<>>)
ToolResult(id, call) == Message(id, "toolResult", 0, "none", call)
Summary(id, role) == Message(id, role, 0, "none", <<>>)
NoEntry == Message(NoId, "none", 0, "none", <<>>)

OperationStarted(run, kind, targets) ==
  [type |-> "operation_started", run |-> run, kind |-> kind, targets |-> targets]
OperationFinished(run) == [type |-> "operation_finished", run |-> run]
AbortRequested(run) == [type |-> "abort_requested", run |-> run]
StepAttempt(run, step, attempt, result, reason) ==
  [type |-> "step_attempt", run |-> run, step |-> step, attempt |-> attempt,
   result |-> result, reason |-> reason]
ToolStarted(run, call, result) ==
  [type |-> "tool_started", run |-> run, call |-> call, result |-> result]
QueueEnqueued(run, queue, target) ==
  [type |-> "queue_enqueued", run |-> run, queue |-> queue, target |-> target]
QueueCancelled(run, id) == [type |-> "queue_cancelled", run |-> run, id |-> id]
WriteDeferred(run, target) == [type |-> "write_deferred", run |-> run, target |-> target]

-----------------------------------------------------------------------------
Is(log, i, type) == log[i].type = type
At(log, type) == {i \in 1..Len(log) : Is(log, i, type)}

Placed(log) == {log[i].id : i \in At(log, "entry")}
PlaceOf(log, id) == CHOOSE i \in At(log, "entry") : log[i].id = id
EntryOf(log, id) == log[PlaceOf(log, id)]

\* Records of type about run before i.
Before(log, i, type, run) == {j \in At(log, type) : j < i /\ log[j].run = run}

Open(log) ==
  {i \in At(log, "operation_started") :
     Before(log, Len(log) + 1, "operation_finished", log[i].run) = {}}

-----------------------------------------------------------------------------
(* validate_record_log. *)

\* A provisioned entry is absent or exactly what was provisioned.
Exact(log, target) == target.id \in Placed(log) => EntryOf(log, target.id) = target

HasRole(log, id, role) == id \in Placed(log) => EntryOf(log, id).role = role

StartSound(log, i) ==
  IF log[i].kind = "run"
  THEN \A k \in 1..Len(log[i].targets) : Exact(log, log[i].targets[k])
  ELSE \A k \in 1..Len(log[i].targets) :
         HasRole(log, log[i].targets[k].id,
                 IF log[i].kind = "compaction" THEN "compaction" ELSE "branch_summary")

\* Mistake: the finish of the operation is not looked at.
OperationKnownEver(log, i) ==
  log[i].run # NoRun => Before(log, i, "operation_started", log[i].run) # {}

OperationKnown(log, i) ==
  log[i].run # NoRun =>
    /\ Before(log, i, "operation_started", log[i].run) # {}
    /\ Before(log, i, "operation_finished", log[i].run) = {}

\* The attempt goes on with the series of the one before: same step, and the
\* result of that one was not there yet.
Continues(log, i, previous) ==
  /\ previous.step = log[i].step
  /\ previous.result \in Placed(log) => PlaceOf(log, previous.result) >= i

AttemptSound(log, i) ==
  LET r == log[i]
      earlier == Before(log, i, "step_attempt", r.run)
      previous == log[CHOOSE j \in earlier : \A k \in earlier : k <= j]
      continues == earlier # {} /\ Continues(log, i, previous)
  IN /\ (r.step = "compaction") = (r.reason # "none")
     /\ r.attempt = IF continues THEN previous.attempt + 1 ELSE 1
     /\ continues /\ r.step # "assistant" =>
          r.result = previous.result /\ r.reason = previous.reason
     /\ HasRole(log, r.result, r.step)   \* the step and the role share their names

ToolStartSound(log, i) ==
  LET r == log[i]
      assistant == r.call[1]
  IN /\ \A j \in At(log, "tool_started") : j < i => log[j].call # r.call
     /\ assistant \in Placed(log)
     /\ EntryOf(log, assistant).role = "assistant"
     /\ r.call[2] \in 1..EntryOf(log, assistant).calls
     /\ r.result \in Placed(log) =>
          EntryOf(log, r.result) = ToolResult(r.result, r.call)

EnqueueSound(log, i) ==
  LET r == log[i]
  IN /\ r.queue # "nextRun" => Before(log, i, "abort_requested", r.run) = {}
     /\ Exact(log, r.target)

CancelSound(log, i) ==
  LET r == log[i]
      enqueues == {j \in At(log, "queue_enqueued") : j < i /\ log[j].target.id = r.id}
  IN /\ \E j \in enqueues : (\A k \in enqueues : k <= j) /\ log[j].run = r.run
     /\ r.id \notin Placed(log)

Sound(log, i) ==
  CASE Is(log, i, "entry") -> log[i].stop # "handleless"
    [] Is(log, i, "operation_started") -> StartSound(log, i)
    [] OTHER ->
         /\ OperationKnown(log, i)
         /\ Is(log, i, "step_attempt") => AttemptSound(log, i)
         /\ Is(log, i, "tool_started") => ToolStartSound(log, i)
         /\ Is(log, i, "queue_enqueued") => EnqueueSound(log, i)
         /\ Is(log, i, "queue_cancelled") => CancelSound(log, i)
         /\ Is(log, i, "write_deferred") => Exact(log, log[i].target)

Valid(log) == Cardinality(Open(log)) <= 1 /\ \A i \in 1..Len(log) : Sound(log, i)

-----------------------------------------------------------------------------
(* reduce_lane_state. *)

Ids(entries) == [k \in 1..Len(entries) |-> entries[k].id]
Targets(records) == [k \in 1..Len(records) |-> records[k].target.id]

Cancelled(log) == {log[i].id : i \in At(log, "queue_cancelled")}

\* The queue items of a run, or of the lane, that wait for their entry.
PendingQueue(log, queue, run) ==
  LET Waits(r) == /\ r.type = "queue_enqueued"
                  /\ r.queue = queue /\ r.run = run
                  /\ r.target.id \notin Placed(log) \cup Cancelled(log)
  IN Targets(SelectSeq(log, Waits))

PendingWrites(log, run) ==
  LET Waits(r) == /\ r.type = "write_deferred"
                  /\ r.run = run /\ r.target.id \notin Placed(log)
  IN Targets(SelectSeq(log, Waits))

\* Mistake: a deferred write is forgotten when it has been carried out.
WriteIdsPending(log, run) == ToSet(PendingWrites(log, run))

WriteIds(log, run) ==
  {log[i].target.id : i \in Before(log, Len(log) + 1, "write_deferred", run)}

Initial(start) == IF start.kind = "run" THEN Ids(start.targets) ELSE <<>>

NotPlaced(log, ids) == SelectSeq(ids, LAMBDA id : id \notin Placed(log))

NoStep == [kind |-> "none", attempts |-> 0, result |-> NoId, reason |-> "none"]

\* The newest attempt, unless its result is there.
Step(log, run) ==
  LET attempts == Before(log, Len(log) + 1, "step_attempt", run)
      newest == log[CHOOSE i \in attempts : \A j \in attempts : j <= i]
  IN IF attempts = {} \/ newest.result \in Placed(log) THEN NoStep
     ELSE [kind |-> newest.step, attempts |-> newest.attempt, result |-> newest.result,
           reason |-> newest.reason]

\* An overflow compaction began after the newest input the run has consumed.
OverflowUsed(log, start) ==
  LET run == start.run
      consumed == ToSet(Initial(start)) \cup
        {log[i].target.id : i \in {j \in Before(log, Len(log) + 1, "queue_enqueued", run) :
                                     log[j].queue # "nextRun"}}
  IN \E i \in Before(log, Len(log) + 1, "step_attempt", run) :
       /\ log[i].reason = "overflow"
       /\ \A j \in At(log, "entry") : log[j].id \in consumed => j < i

NoBatch == [assistant |-> NoId, unresolved |-> {}]

\* The calls of the newest answer with calls, less those that have a result.
ToolBatch(log, run, own) ==
  LET asking == {k \in 1..Len(own) : own[k].calls > 0}
      newest == CHOOSE k \in asking : \A j \in asking : j <= k
      id == own[newest].id
      StartedResult(call) ==
        \E i \in Before(log, Len(log) + 1, "tool_started", run) :
          log[i].call = call /\ log[i].result \in Placed(log)
      BlockedResult(call) ==
        \E k \in (newest + 1)..Len(own) :
          own[k].id \notin WriteIds(log, run) /\ own[k].call = call
  IN IF asking = {} THEN NoBatch
     ELSE [assistant |-> id,
           unresolved |-> {k \in 1..own[newest].calls :
                             ~StartedResult(<<id, k>>) /\ ~BlockedResult(<<id, k>>)}]

\* The newest own entry is a failed answer of a step or a deferred fetch.
TerminalFailure(log, run, own) ==
  /\ own # <<>>
  /\ Last(own).stop = "error" /\ Last(own).id \notin WriteIds(log, run)
  /\ \/ \E i \in Before(log, Len(log) + 1, "step_attempt", run) :
          log[i].result = Last(own).id
     \/ Len(own) > 1 /\ own[Len(own) - 1].stop = "deferred"

HasTarget(start) == start.kind # "run" /\ start.targets # <<>>

\* Whether the result or the summary an operation is for is there.
TargetState(log, start) ==
  IF ~HasTarget(start) THEN "none"
  ELSE IF start.targets[1].id \in Placed(log) THEN "placed" ELSE "missing"

IdleLane(nextRun) ==
  [op |-> NoRun, kind |-> "none", aborting |-> FALSE, missing |-> <<>>, steer |-> <<>>,
   followUp |-> <<>>, writes |-> <<>>, nextRun |-> nextRun, step |-> NoStep,
   overflow |-> FALSE, batch |-> NoBatch, newest |-> NoEntry, failed |-> FALSE,
   target |-> "none"]

\* The operation that started at item s is open; own are its entries.
OperationLane(log, s) ==
  LET start == log[s]
      run == start.run
      own == SelectSeq(SubSeq(log, s + 1, Len(log)), LAMBDA x : x.type = "entry")
      aborting == Before(log, Len(log) + 1, "abort_requested", run) # {}
      Captured(id) == id \in ToSet(Initial(start))
  IN [op |-> run, kind |-> start.kind, aborting |-> aborting,
      missing |-> NotPlaced(log, Initial(start)),
      steer |-> IF aborting THEN <<>> ELSE PendingQueue(log, "steer", run),
      followUp |-> IF aborting THEN <<>> ELSE PendingQueue(log, "followUp", run),
      writes |-> PendingWrites(log, run),
      nextRun |-> SelectSeq(PendingQueue(log, "nextRun", NoRun), LAMBDA id : ~Captured(id)),
      step |-> Step(log, run),
      overflow |-> OverflowUsed(log, start),
      batch |-> ToolBatch(log, run, own),
      newest |-> IF own = <<>> THEN NoEntry ELSE Last(own),
      failed |-> TerminalFailure(log, run, own),
      target |-> TargetState(log, start)]

Reduce(log) ==
  IF Open(log) = {} THEN IdleLane(PendingQueue(log, "nextRun", NoRun))
  ELSE OperationLane(log, CHOOSE s \in Open(log) : TRUE)
=============================================================================
