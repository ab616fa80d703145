------------------------------- MODULE LaneLog -------------------------------
(***************************************************************************)
(* The single writer of a lane: it appends one record or entry at a time,  *)
(* and keeps the lane in memory as LiveLane says. It may die after any     *)
(* item, so after any item the reducer must accept the log and give back   *)
(* the lane. The harness that will write these records is not part of the  *)
(* repository yet; the writer is the protocol the record types and the     *)
(* reducer describe.                                                       *)
(***************************************************************************)
EXTENDS LiveLane

CONSTANTS
  MaxLog,      \* bound on the items of the log
  MaxRuns,     \* bound on operations
  MaxCalls     \* bound on the tool calls of an answer

VARIABLE log

vars == <<log, lane>>

Init == log = <<>> /\ LaneInit

Write(item) == log' = Append(log, item)

\* Ids are minted in order, for entries when they are provisioned.
Minted ==
  LET Of(x) == CASE x.type = "entry" -> {x.id}
                 [] x.type = "operation_started" -> ToSet(Ids(x.targets))
                 [] x.type \in {"step_attempt", "tool_started"} -> {x.result}
                 [] x.type \in {"queue_enqueued", "write_deferred"} -> {x.target.id}
                 [] OTHER -> {}
  IN UNION {Of(log[i]) : i \in 1..Len(log)}
FreshId == Cardinality(Minted) + 1
FreshRun == Cardinality(At(log, "operation_started")) + 1

\* The entry some record has provisioned under id.
Target(id) ==
  CHOOSE e \in UNION {
      {log[i].target : i \in At(log, "queue_enqueued") \cup At(log, "write_deferred")},
      UNION {ToSet(log[i].targets) : i \in At(log, "operation_started")}} : e.id = id

-----------------------------------------------------------------------------
CanStart == FreshRun <= MaxRuns

BeginRun ==
  /\ CanStart
  /\ StartRun(FreshRun, FreshId)
  /\ Write(OperationStarted(FreshRun, "run",
             [k \in 1..Len(lane.nextRun) |-> Target(lane.nextRun[k])] \o <<User(FreshId)>>))

BeginCompaction ==
  /\ CanStart
  /\ StartOther(FreshRun, "compaction", "missing")
  /\ Write(OperationStarted(FreshRun, "compaction", <<Summary(FreshId, "compaction")>>))

BeginNavigation ==
  /\ CanStart
  /\ \/ /\ StartOther(FreshRun, "navigation", "none")
        /\ Write(OperationStarted(FreshRun, "navigation", <<>>))
     \/ /\ StartOther(FreshRun, "navigation", "missing")
        /\ Write(OperationStarted(FreshRun, "navigation",
                                  <<Summary(FreshId, "branch_summary")>>))

FinishOperation ==
  /\ Finish({log[i].target.id : i \in At(log, "queue_enqueued")})
  /\ Write(OperationFinished(lane.op))

RequestAbort ==
  /\ ~lane.aborting
  /\ Abort
  /\ Write(AbortRequested(lane.op))

EnqueueInput ==
  \E queue \in {"steer", "followUp"} :
    Enqueue(queue, FreshId) /\ Write(QueueEnqueued(lane.op, queue, User(FreshId)))

EnqueueNextRun ==
  Enqueue("nextRun", FreshId) /\ Write(QueueEnqueued(NoRun, "nextRun", User(FreshId)))

CancelQueued ==
  \/ \E id \in ToSet(lane.steer) \cup ToSet(lane.followUp) :
       Cancel(id) /\ Write(QueueCancelled(lane.op, id))
  \/ \E id \in ToSet(lane.nextRun) : Cancel(id) /\ Write(QueueCancelled(NoRun, id))

DeferTreeWrite ==
  \E target \in {User(FreshId), Assistant(FreshId, 0, "error")} \cup
                {ToolResult(FreshId, <<lane.batch.assistant, k>>) : k \in lane.batch.unresolved} :
    DeferWrite(target.id) /\ Write(WriteDeferred(lane.op, target))

\* An entry goes into the log and the tree.
AppendEntry(e) == Place(e) /\ Write(e)

-----------------------------------------------------------------------------
(* Steps. A retry counts on; only an answer may get a new id with it.      *)

Steps ==
  CASE lane.kind = "run" -> {<<"assistant", "none">>, <<"compaction", "threshold">>,
                             <<"compaction", "overflow">>}
    [] lane.kind = "compaction" -> {<<"compaction", "manual">>}
    [] lane.kind = "navigation" -> {<<"branch_summary", "none">>}
    [] OTHER -> {}

ProvisionedResult ==
  LET start == log[CHOOSE s \in Open(log) : TRUE]
  IN IF HasTarget(start) THEN start.targets[1].id ELSE FreshId

ResultIds(step) ==
  IF lane.step.kind # step THEN {ProvisionedResult} \ Placed(log)
  ELSE {lane.step.result} \cup (IF step = "assistant" THEN {FreshId} ELSE {})

AttemptStep ==
  /\ ~lane.aborting
  /\ \E step \in Steps :
       /\ lane.step.kind = step[1] => lane.step.reason = step[2]
       /\ \E result \in ResultIds(step[1]) :
            /\ Attempt(step[1], result, step[2])
            /\ Write(StepAttempt(lane.op, step[1], lane'.step.attempts, result, step[2]))

Answers(id) ==
  {Assistant(id, calls, "stop") : calls \in 0..MaxCalls} \cup
  {Assistant(id, 0, stop) : stop \in {"error", "deferred"}}

StepResult ==
  /\ lane.step # NoStep
  /\ \E e \in IF lane.step.kind = "assistant" THEN Answers(lane.step.result)
              ELSE {Summary(lane.step.result, lane.step.kind)} : AppendEntry(e)

\* What a deferred answer has become by the time it is fetched.
DeferredFetch ==
  /\ lane.newest.stop = "deferred"
  /\ \E e \in Answers(FreshId) : AppendEntry(e)

Started(call) == {i \in At(log, "tool_started") : log[i].call = call}

StartTool ==
  /\ ~lane.aborting
  /\ \E k \in lane.batch.unresolved :
       LET call == <<lane.batch.assistant, k>>
       IN Started(call) = {} /\ Write(ToolStarted(lane.op, call, FreshId))
  /\ UNCHANGED lane

\* The result of a call, which without a start was blocked or refused.
PlaceToolResult ==
  \E k \in lane.batch.unresolved :
    LET call == <<lane.batch.assistant, k>>
    IN IF Started(call) = {} THEN AppendEntry(ToolResult(FreshId, call))
       ELSE \E i \in Started(call) : AppendEntry(ToolResult(log[i].result, call))

\* Input is consumed, or a deferred write carried out.
PlacePending ==
  \E id \in UNION {ToSet(lane.missing), ToSet(lane.steer), ToSet(lane.followUp),
                   ToSet(lane.writes)} : AppendEntry(Target(id))

Next ==
  /\ Len(log) < MaxLog
  /\ \/ BeginRun \/ BeginCompaction \/ BeginNavigation \/ FinishOperation \/ RequestAbort
     \/ EnqueueInput \/ EnqueueNextRun \/ CancelQueued \/ DeferTreeWrite
     \/ AttemptStep \/ StepResult \/ DeferredFetch
     \/ StartTool \/ PlaceToolResult \/ PlacePending

Spec == Init /\ [][Next]_vars

-----------------------------------------------------------------------------
(* Properties. *)

\* Wherever the writer dies, a restart does not take its log for corrupt, and
\* gives back the lane it had in memory: queues, missing messages, step, tool
\* batch, failure and all.
RestartRestores == Valid(log) /\ Reduce(log) = lane

\* No record of a finished operation, and no second start of a tool call, is
\* accepted when it arrives late or twice.
LateRecordsRefused ==
  \A i \in 1..Len(log) :
    \/ log[i].type = "tool_started"
    \/ /\ log[i].type \notin {"entry", "operation_started"}
       /\ log[i].run # NoRun
       /\ Before(log, Len(log) + 1, "operation_finished", log[i].run) # {}
    => ~Valid(Append(log, log[i]))
=============================================================================
