------------------------------ MODULE LiveLane ------------------------------
(***************************************************************************)
(* What a lane that never restarts keeps in memory: the state of its open  *)
(* operation, updated one event at a time. It is the reference the reducer *)
(* is checked against: a restart is sound when it reads back this state.   *)
(***************************************************************************)
EXTENDS LaneReducer

VARIABLE lane

Without(ids, gone) == SelectSeq(ids, LAMBDA id : id \notin gone)

LaneInit == lane = IdleLane(<<>>)

\* A run starts with what was queued for it and its prompt.
StartRun(run, prompt) ==
  /\ lane.op = NoRun
  /\ lane' = [IdleLane(<<>>) EXCEPT !.op = run, !.kind = "run",
                                    !.missing = Append(lane.nextRun, prompt)]

\* A compaction, or a navigation with or without a summary to write.
StartOther(run, kind, target) ==
  /\ lane.op = NoRun
  /\ lane' = [lane EXCEPT !.op = run, !.kind = kind, !.target = target]

\* An operation ends. What it had taken from the queue for the next run, and
\* not used, goes back to where it was.
Finish(queued) ==
  /\ lane.op # NoRun
  /\ lane' = IdleLane(SelectSeq(lane.missing, LAMBDA id : id \in queued) \o lane.nextRun)

Abort ==
  /\ lane.op # NoRun
  /\ lane' = [lane EXCEPT !.aborting = TRUE, !.steer = <<>>, !.followUp = <<>>]

Enqueue(queue, id) ==
  /\ queue = "nextRun" \/ (lane.kind = "run" /\ ~lane.aborting)
  /\ lane' = [lane EXCEPT ![queue] = Append(@, id)]

Cancel(id) ==
  lane' = [lane EXCEPT !.steer = Without(@, {id}), !.followUp = Without(@, {id}),
                       !.nextRun = Without(@, {id})]

DeferWrite(id) ==
  /\ lane.op # NoRun
  /\ lane' = [lane EXCEPT !.writes = Append(@, id)]

\* Another attempt at the step under way, or the first of a new one.
Attempt(kind, result, reason) ==
  /\ lane.op # NoRun
  /\ lane' = [lane EXCEPT
       !.step = [kind |-> kind, result |-> result, reason |-> reason,
                 attempts |-> IF lane.step.kind = kind THEN lane.step.attempts + 1 ELSE 1],
       !.overflow = @ \/ reason = "overflow"]

Consumes(e) == e.id \in ToSet(lane.missing) \cup ToSet(lane.steer) \cup ToSet(lane.followUp)
Deferred(e) == e.id \in ToSet(lane.writes)

\* Entry e joins the tree: whatever waited for it no longer does.
Place(e) ==
  /\ lane.op # NoRun
  /\ lane' = [lane EXCEPT
       !.missing = Without(@, {e.id}), !.steer = Without(@, {e.id}),
       !.followUp = Without(@, {e.id}), !.writes = Without(@, {e.id}),
       !.step = IF lane.step.result = e.id THEN NoStep ELSE lane.step,
       !.overflow = @ /\ ~Consumes(e),
       !.batch = CASE e.calls > 0 -> [assistant |-> e.id, unresolved |-> 1..e.calls]
                   [] e.role = "toolResult" /\ ~Deferred(e) ->
                        [assistant |-> lane.batch.assistant,
                         unresolved |-> {k \in lane.batch.unresolved :
                                           e.call # <<lane.batch.assistant, k>>}]
                   [] OTHER -> lane.batch,
       !.newest = e,
       !.target = IF @ = "missing" /\ e.role \in {"compaction", "branch_summary"}
                  THEN "placed" ELSE @,
       !.failed = /\ e.stop = "error" /\ ~Deferred(e)
                  /\ e.id = lane.step.result \/ lane.newest.stop = "deferred"]
=============================================================================
