---------------------------- MODULE JsonlStorage ----------------------------
(***************************************************************************)
(* Append-only JSONL session files (JsonlSessionStorage): any number of    *)
(* storage objects over one file, each with its own replayed state, its    *)
(* asyncio lock and its executor threads. A line is abstracted to the      *)
(* operation it records and its sequence number, the state of a storage to *)
(* the operations it has applied; SessionStorage models what they contain. *)
(* The file lock is a perfect lock here, except that a crash leaves the    *)
(* lock file behind; FileLock models how it is taken and reclaimed.        *)
(***************************************************************************)
EXTENDS Naturals, Sequences, FiniteSets, SequencesExt

CONSTANTS
  Handles,     \* storage objects, each taken to live in its own process
  Ops,         \* mutating calls
  Free,        \* the lock file does not exist
  Stale,       \* the lock file was left behind by a process that died
  MaxOpens,    \* bound on the loads of the file
  Crashes,     \* whether a process may die or the power fail
  IoErrors,    \* whether a write, a flush or an fsync may raise
  Cancels,     \* whether a task awaiting a mutating call may be cancelled
  RenameSyncs  \* whether the file system writes a file's data out before its rename

ASSUME JsonlAssumption ==
  /\ Free \notin Ops /\ Stale \notin Ops /\ Free # Stale
  /\ MaxOpens \in Nat
  /\ {Crashes, IoErrors, Cancels, RenameSyncs} \subseteq BOOLEAN

VARIABLES
  file,      \* the terminated lines, and what follows the last newline
  temp,      \* the sibling .tmp file a repair is staged in
  inode,     \* which file the path names: a publish replaces it
  synced,    \* how many lines of the file an fsync has covered
  lock,      \* <path>.lock: the call that holds it, Stale or Free
  storage,   \* per handle: phase, applied operations, queue of the asyncio lock
  call,      \* per operation: where it is and what it writes
  acked,     \* the operations whose caller got a result
  opens,     \* loads so far
  disturbed  \* history: a write failed, a call was cancelled once its thread
             \* had started, or two storages of the file were open at once

vars == <<file, temp, inode, synced, lock, storage, call, acked, opens, disturbed>>

-----------------------------------------------------------------------------
(* File contents. The tail is what follows the last newline: nothing, a    *)
(* fragment, or a whole line that lacks only its newline. A line that is   *)
(* no mutation comes from writing after a tail that is not empty.          *)

Line(op, seq) == [kind |-> "line", op |-> op, seq |-> seq]
Bad   == [kind |-> "bad"]
Torn  == [kind |-> "torn"]
Clean == [kind |-> "clean"]

Content(lines, tail) == [lines |-> lines, tail |-> tail]
NoFile == [lines |-> <<Bad>>, tail |-> Torn]

\* All of a line arrives at the end of the file.
AppendLine(f, line) ==
  Content(Append(f.lines, IF f.tail = Clean THEN line ELSE Bad), Clean)

\* Part of a line arrives: a fragment, or everything but the newline.
AppendPart(f, line) ==
  {Content(f.lines, Torn)} \cup
  {Content(f.lines, t) : t \in IF f.tail = Clean THEN {line} ELSE {}}

\* The rest of a line whose beginning met a clean tail arrives.
FinishLine(f, line, clean) ==
  Content(Append(f.lines, IF clean /\ f.tail \in {Torn, line} THEN line ELSE Bad), Clean)

\* A lone newline arrives.
Terminate(f) ==
  Content(Append(f.lines, IF f.tail.kind = "line" THEN f.tail ELSE Bad), Clean)

\* What a power failure may leave of a file synced up to n lines.
AfterPowerLoss(f, n) ==
  {f} \cup {Content(SubSeq(f.lines, 1, k), t) :
              k \in n..Len(f.lines), t \in {Clean, Torn}}
      \cup {Content(SubSeq(f.lines, 1, k), f.lines[k + 1]) :
              k \in {j \in n..(Len(f.lines) - 1) : f.lines[j + 1].kind = "line"}}

-----------------------------------------------------------------------------
(* Loading replays the lines in order. A last line that does not parse is  *)
(* a torn append to drop; any other line that does not parse or whose seq  *)
(* is not the next one makes the file invalid.                             *)

InSequence(lines) ==
  \A i \in 1..Len(lines) : lines[i].kind = "line" /\ lines[i].seq = i

OpsOf(lines) == [i \in 1..Len(lines) |-> lines[i].op]

LoadOutcome(f) ==
  CASE InSequence(f.lines) /\ f.tail = Clean -> "intact"
    [] InSequence(f.lines) /\ f.tail = Torn -> "torn"
    [] f.tail.kind = "line" /\ InSequence(Append(f.lines, f.tail)) -> "unterminated"
    [] f.tail = Clean /\ f.lines # <<>> /\ Last(f.lines) = Bad
         /\ InSequence(Front(f.lines)) -> "torn"
    [] OTHER -> "invalid"

\* The lines a load keeps.
ValidLines(f) ==
  CASE LoadOutcome(f) = "intact" -> f.lines
    [] LoadOutcome(f) = "torn" -> IF f.tail = Torn THEN f.lines ELSE Front(f.lines)
    [] LoadOutcome(f) = "unterminated" -> Append(f.lines, f.tail)
    [] LoadOutcome(f) = "invalid" -> <<>>

Recovered(f) == OpsOf(ValidLines(f))

-----------------------------------------------------------------------------
NewCall == [at |-> "new", by |-> Free, seq |-> 0, inode |-> 0,
            clean |-> FALSE, awaited |-> TRUE]

Closed == [phase |-> "closed", applied |-> <<>>, queue |-> <<>>, seen |-> NoFile]

Init ==
  /\ file = Content(<<>>, Clean)
  /\ temp = NoFile
  /\ inode = 0
  /\ synced = 0
  /\ lock = Free
  /\ storage = [h \in Handles |-> Closed]
  /\ call = [op \in Ops |-> NewCall]
  /\ acked = {}
  /\ opens = 0
  /\ disturbed = FALSE

\* load reads the whole file first.
ReadFile(h) ==
  /\ storage[h].phase = "closed"
  /\ opens < MaxOpens
  /\ opens' = opens + 1
  /\ storage' = [storage EXCEPT ![h].phase = "loading", ![h].seen = file]
  /\ disturbed' = (disturbed \/ \E g \in Handles : storage[g].phase # "closed")
  /\ UNCHANGED <<file, temp, inode, synced, lock, call, acked>>

Opened(h) ==
  storage' = [storage EXCEPT ![h] =
                [Closed EXCEPT !.phase = "open", !.applied = Recovered(storage[h].seen)]]

OpenIntact(h) ==
  /\ storage[h].phase = "loading"
  /\ LoadOutcome(storage[h].seen) = "intact"
  /\ Opened(h)
  /\ UNCHANGED <<file, temp, inode, synced, lock, call, acked, opens, disturbed>>

RejectInvalid(h) ==
  /\ storage[h].phase = "loading"
  /\ LoadOutcome(storage[h].seen) = "invalid"
  /\ storage' = [storage EXCEPT ![h] = Closed]
  /\ UNCHANGED <<file, temp, inode, synced, lock, call, acked, opens, disturbed>>

\* The newline goes to whatever the path names now.
TerminateTail(h) ==
  /\ storage[h].phase = "loading"
  /\ LoadOutcome(storage[h].seen) = "unterminated"
  /\ file' = Terminate(file)
  /\ Opened(h)
  /\ UNCHANGED <<temp, inode, synced, lock, call, acked, opens, disturbed>>

StageRepair(h) ==
  /\ storage[h].phase = "loading"
  /\ LoadOutcome(storage[h].seen) = "torn"
  /\ temp' = Content(ValidLines(storage[h].seen), Clean)
  /\ storage' = [storage EXCEPT ![h].phase = "staged"]
  /\ UNCHANGED <<file, inode, synced, lock, call, acked, opens, disturbed>>

\* os.replace, without the lock and of a file nobody has synced; it fails
\* when the staged file is gone.
PublishRepair(h) ==
  /\ storage[h].phase = "staged"
  /\ IF temp # NoFile
     THEN /\ file' = temp
          /\ temp' = NoFile
          /\ inode' = inode + 1
          /\ synced' = IF RenameSyncs THEN Len(temp.lines) ELSE 0
          /\ Opened(h)
     ELSE /\ storage' = [storage EXCEPT ![h] = Closed]
          /\ UNCHANGED <<file, temp, inode, synced, disturbed>>
  /\ UNCHANGED <<lock, call, acked, opens, disturbed>>

\* The last reference to an idle storage goes away.
Drop(h) ==
  /\ storage[h].phase = "open"
  /\ storage[h].queue = <<>>
  /\ storage' = [storage EXCEPT ![h] = Closed]
  /\ UNCHANGED <<file, temp, inode, synced, lock, call, acked, opens, disturbed>>

-----------------------------------------------------------------------------
(* A mutating call, from its caller to the file and back. The head of the  *)
(* queue holds the storage's asyncio lock.                                 *)

Holder(h) == IF storage[h].queue = <<>> THEN Free ELSE Head(storage[h].queue)

LineOf(op) == Line(op, call[op].seq)
OnPath(op) == call[op].inode = inode

Enqueue(h, op) ==
  /\ storage[h].phase = "open"
  /\ call[op].at = "new"
  /\ call' = [call EXCEPT ![op].at = "queued", ![op].by = h]
  /\ storage' = [storage EXCEPT ![h].queue = Append(@, op)]
  /\ UNCHANGED <<file, temp, inode, synced, lock, acked, opens, disturbed>>

\* The operation validates, numbers its line and hands it to a thread.
Submit(op) ==
  /\ call[op].at = "queued"
  /\ Holder(call[op].by) = op
  /\ call' = [call EXCEPT ![op].at = "submitted",
                          ![op].seq = Len(storage[call[op].by].applied) + 1]
  /\ UNCHANGED <<file, temp, inode, synced, lock, storage, acked, opens, disturbed>>

\* The thread takes the file lock and opens the path for appending.
LockAndOpen(op) ==
  /\ call[op].at = "submitted"
  /\ lock = Free
  /\ lock' = op
  /\ call' = [call EXCEPT ![op].at = "open", ![op].inode = inode]
  /\ UNCHANGED <<file, temp, inode, synced, storage, acked, opens, disturbed>>

\* Where a thread's outcome goes: to the task, or nowhere if it was cancelled.
Outcome(op, result) == IF call[op].awaited THEN result ELSE "abandoned"

LockTimeout(op) ==
  /\ call[op].at = "submitted"
  /\ lock # Free
  /\ call' = [call EXCEPT ![op].at = Outcome(op, "failed")]
  /\ UNCHANGED <<file, temp, inode, synced, lock, storage, acked, opens, disturbed>>

WritePart(op) ==
  /\ call[op].at = "open"
  /\ OnPath(op)
  /\ file' \in AppendPart(file, LineOf(op))
  /\ call' = [call EXCEPT ![op].at = "part", ![op].clean = file.tail = Clean]
  /\ UNCHANGED <<temp, inode, synced, lock, storage, acked, opens, disturbed>>

\* Bytes for a file the path no longer names go nowhere a load looks.
WriteAll(op) ==
  /\ call[op].at \in {"open", "part"}
  /\ file' = CASE ~OnPath(op) -> file
               [] OnPath(op) /\ call[op].at = "open" -> AppendLine(file, LineOf(op))
               [] OnPath(op) /\ call[op].at = "part" ->
                    FinishLine(file, LineOf(op), call[op].clean)
  /\ call' = [call EXCEPT ![op].at = "written"]
  /\ UNCHANGED <<temp, inode, synced, lock, storage, acked, opens, disturbed>>

\* Mistake: the line is flushed but not synced.
FlushOnly(op) ==
  /\ call[op].at = "written"
  /\ lock' = Free
  /\ call' = [call EXCEPT ![op].at = Outcome(op, "synced")]
  /\ UNCHANGED <<file, temp, inode, synced, storage, acked, opens, disturbed>>

Fsync(op) ==
  /\ call[op].at = "written"
  /\ synced' = IF OnPath(op) THEN Len(file.lines) ELSE synced
  /\ lock' = Free
  /\ call' = [call EXCEPT ![op].at = Outcome(op, "synced")]
  /\ UNCHANGED <<file, temp, inode, storage, acked, opens, disturbed>>

\* Opening, writing, flushing or syncing raises; the bytes stay.
WriteFails(op) ==
  /\ IoErrors
  /\ call[op].at \in {"open", "part", "written"}
  /\ lock' = Free
  /\ call' = [call EXCEPT ![op].at = Outcome(op, "failed")]
  /\ disturbed' = TRUE
  /\ UNCHANGED <<file, temp, inode, synced, storage, acked, opens>>

\* Mistake: the written mutation is not applied to the state.
ReturnUnapplied(op) ==
  LET h == call[op].by
  IN /\ call[op].at = "synced"
     /\ call' = [call EXCEPT ![op].at = "returned"]
     /\ storage' = [storage EXCEPT ![h].queue = Tail(@)]
     /\ acked' = acked \cup {op}
     /\ UNCHANGED <<file, temp, inode, synced, lock, opens, disturbed>>

\* The task resumes: it applies the mutation and returns.
Return(op) ==
  LET h == call[op].by
  IN /\ call[op].at = "synced"
     /\ call' = [call EXCEPT ![op].at = "returned"]
     /\ storage' = [storage EXCEPT ![h].applied = Append(@, op), ![h].queue = Tail(@)]
     /\ acked' = acked \cup {op}
     /\ UNCHANGED <<file, temp, inode, synced, lock, opens, disturbed>>

\* Mistake: a call that raises keeps the storage's lock.
RaiseKeepsLock(op) ==
  /\ call[op].at = "failed"
  /\ call' = [call EXCEPT ![op].at = "raised"]
  /\ UNCHANGED <<file, temp, inode, synced, lock, storage, acked, opens, disturbed>>

Raise(op) ==
  /\ call[op].at = "failed"
  /\ call' = [call EXCEPT ![op].at = "raised"]
  /\ storage' = [storage EXCEPT ![call[op].by].queue = Tail(@)]
  /\ UNCHANGED <<file, temp, inode, synced, lock, acked, opens, disturbed>>

InThread == {"submitted", "open", "part", "written"}

\* Cancelling the task leaves its queue place, not its running thread.
Cancel(op) ==
  /\ Cancels
  /\ call[op].awaited
  /\ call[op].at \in InThread \cup {"queued", "synced", "failed"}
  /\ \E at \in (IF call[op].at \in InThread THEN {call[op].at} ELSE {"abandoned"})
                 \cup (IF call[op].at = "submitted" THEN {"abandoned"} ELSE {}) :
       call' = [call EXCEPT ![op].awaited = FALSE, ![op].at = at]
  /\ \E i \in DOMAIN storage[call[op].by].queue :
       /\ storage[call[op].by].queue[i] = op
       /\ storage' = [storage EXCEPT ![call[op].by].queue = RemoveAt(@, i)]
  /\ disturbed' = (disturbed \/ call[op].at \in InThread \cup {"synced"})
  /\ UNCHANGED <<file, temp, inode, synced, lock, acked, opens>>

-----------------------------------------------------------------------------
(* Processes die with their threads and leave their lock file behind.      *)

Unfinished(op) == call[op].at \in InThread \cup {"queued", "synced", "failed"}

Kill(dead) ==
  /\ storage' = [h \in Handles |-> IF h \in dead THEN Closed ELSE storage[h]]
  /\ call' = [op \in Ops |-> IF call[op].by \in dead /\ Unfinished(op)
                             THEN [call[op] EXCEPT !.at = "died"] ELSE call[op]]
  /\ lock' = IF lock \in Ops /\ call[lock].by \in dead THEN Stale ELSE lock

Crash(h) ==
  /\ Crashes
  /\ storage[h].phase # "closed"
  /\ Kill({h})
  /\ UNCHANGED <<file, temp, inode, synced, acked, opens, disturbed>>

PowerLoss ==
  /\ Crashes
  /\ \E h \in Handles : storage[h].phase # "closed"
  /\ Kill(Handles)
  /\ file' \in AfterPowerLoss(file, synced)
  /\ synced' = IF synced < Len(file'.lines) THEN synced ELSE Len(file'.lines)
  /\ UNCHANGED <<temp, inode, acked, opens, disturbed>>

\* A lock file older than stale_after is taken for abandoned.
ReclaimStale ==
  /\ lock = Stale
  /\ lock' = Free
  /\ UNCHANGED <<file, temp, inode, synced, storage, call, acked, opens, disturbed>>

-----------------------------------------------------------------------------
Load(h) ==
  ReadFile(h) \/ OpenIntact(h) \/ RejectInvalid(h) \/ TerminateTail(h)
    \/ StageRepair(h) \/ PublishRepair(h)

Thread(op) ==
  LockAndOpen(op) \/ LockTimeout(op) \/ WritePart(op) \/ WriteAll(op) \/ Fsync(op)
    \/ WriteFails(op)

Task(op) == Submit(op) \/ Return(op) \/ Raise(op)

Next ==
  \/ \E h \in Handles : Load(h) \/ Drop(h) \/ Crash(h)
  \/ \E h \in Handles, op \in Ops : Enqueue(h, op)
  \/ \E op \in Ops : Thread(op) \/ Task(op) \/ Cancel(op)
  \/ PowerLoss
  \/ ReclaimStale

Spec == Init /\ [][Next]_vars

(* The event loop resumes a task whose thread is done, and a thread gets   *)
(* to run. Waiting for the file lock is bounded by its timeout.            *)
Fairness == \A op \in Ops : WF_vars(Thread(op)) /\ WF_vars(Task(op))

FairSpec == Spec /\ Fairness

-----------------------------------------------------------------------------
(* Properties. *)

\* Whatever happened to the file, a load of it succeeds: it finds at worst a
\* torn last line, never a bad line further up or a number out of order.
FileLoads == LoadOutcome(file) # "invalid"

\* A storage of a sole writer that no call is using has applied exactly what
\* a load of its file would restore, so the number it gives out next is the
\* next of the file.
StateMatchesFile ==
  ~disturbed =>
    \A h \in Handles :
      storage[h].phase = "open" /\ storage[h].queue = <<>> =>
        storage[h].applied = Recovered(file)

\* A sole writer's session file keeps the promise of DurableLog, with crashes
\* and power failures at any point, torn tails and their repair: what a caller
\* got a result for survives, and the next load restores it.
Log == INSTANCE DurableLog WITH
  log <- Recovered(file),
  acked <- Max({0} \cup {i \in DOMAIN Recovered(file) : Recovered(file)[i] \in acked})

KeepsDurableLog == Log!Init /\ [][disturbed' \/ Log!Next]_(Log!vars)

\* Every mutating call that was made ends: it returns, raises, is cancelled
\* for good or dies with its process, and the storage's lock passes on.
CallsEnd == \A op \in Ops : Unfinished(op) ~> ~Unfinished(op)
=============================================================================
