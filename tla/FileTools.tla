------------------------------ MODULE FileTools ------------------------------
(***************************************************************************)
(* Calls of the write and edit tools on one file, which has a name of its  *)
(* own and a symbolic link: with_file_mutation_queue (keys, counted        *)
(* entries, locks) around the read-modify-write of the tools, the threads  *)
(* that do the file operations, abort and task cancellation. The text of   *)
(* the file is the set of changes it holds: "base" for the original text,  *)
(* a call for what it wrote; the empty set is a file truncated, or mixed   *)
(* from two writers.                                                       *)
(***************************************************************************)
EXTENDS Naturals, Sequences, FiniteSets, SequencesExt

CONSTANTS
  Calls,        \* tool calls of one agent run: they share its abort signal
  Requests,     \* what the calls may be asked: sets of tools and paths
  None,         \* no queue entry
  MaxCancels    \* bound on cancelled calls

Tools == {"write", "edit"}
Paths == {"file", "link"}

ASSUME FilesAssumption ==
  /\ None \notin Calls /\ "base" \notin Calls
  /\ Requests \subseteq [Calls -> Tools \X Paths]

VARIABLES
  exists, text, \* the file
  call,         \* what each call is, where it is and what it has read
  state,        \* the queue entry of each key, named by the call that made it
  waiters,      \* callers counted by each entry
  line,         \* the lock of each entry: its holder and those who wait
  thread,       \* the thread in which each call writes the file
  aborted       \* the abort signal

filesVars == <<exists, text, call, state, waiters, line, thread, aborted>>
contents == <<exists, text>>
queue == <<state, waiters, line>>

Working == {"stat", "read", "mkdir", "writing"}
Outcomes == {"ok", "failed", "aborted", "cancelled"}

Over(c) == call[c].pc \in Outcomes
EntryOf(c) == call[c].entry
Moves(c, pc) == call' = [call EXCEPT ![c].pc = pc]

FilesInit ==
  /\ exists \in BOOLEAN
  /\ text = IF exists THEN {"base"} ELSE {}
  /\ \E asked \in Requests :
       call = [c \in Calls |->
                 [tool |-> asked[c][1], path |-> asked[c][2], pc |-> "resolving",
                  key |-> "file", missed |-> FALSE, entry |-> None, read |-> {}]]
  /\ state = [k \in Paths |-> None]
  /\ waiters = [c \in Calls |-> 0]
  /\ line = [c \in Calls |-> <<>>]
  /\ thread = [c \in Calls |-> "none"]
  /\ aborted = FALSE

-----------------------------------------------------------------------------
(* The queue. *)

\* Mistake: paths are compared by name.
KeyOfName(c) == call[c].path

\* The canonical path, or the path itself while it leads to nothing.
KeyOf(c) == IF exists THEN "file" ELSE call[c].path

Canonicalize(c) ==
  /\ call[c].pc = "resolving"
  /\ call' = [call EXCEPT ![c].pc = "keyed", ![c].key = KeyOf(c), ![c].missed = ~exists]
  /\ UNCHANGED <<contents, queue, thread, aborted>>

FirstStep(c) == IF call[c].tool = "write" THEN "mkdir" ELSE "stat"

\* The call finds or makes the entry of its key and is counted. If the lock
\* is free it starts at once, and after an abort it is over at once.
Enter(c) ==
  LET key == call[c].key
      e == IF state[key] = None THEN c ELSE state[key]
      free == line[e] = <<>>
  IN /\ call[c].pc = "keyed"
     /\ IF free /\ aborted
        THEN Moves(c, "aborted") /\ UNCHANGED queue
        ELSE /\ call' = [call EXCEPT ![c].pc = IF free THEN FirstStep(c) ELSE "queued",
                                     ![c].entry = e]
             /\ state' = [state EXCEPT ![key] = e]
             /\ waiters' = [waiters EXCEPT ![e] = @ + 1]
             /\ line' = [line EXCEPT ![e] = Append(@, c)]
     /\ UNCHANGED <<contents, thread, aborted>>

\* Mistake: the entry is dropped although others wait behind it.
LeaveDrops(c, outcome) ==
  /\ waiters' = [waiters EXCEPT ![EntryOf(c)] = @ - 1]
  /\ line' = [line EXCEPT ![EntryOf(c)] = Tail(@)]
  /\ state' = [state EXCEPT ![call[c].key] = IF @ = EntryOf(c) THEN None ELSE @]
  /\ Moves(c, outcome)

\* Mistake: only a call that succeeds gives its count back.
LeaveCounted(c, outcome) ==
  LET left == waiters[EntryOf(c)] - (IF outcome = "ok" THEN 1 ELSE 0)
  IN /\ waiters' = [waiters EXCEPT ![EntryOf(c)] = left]
     /\ line' = [line EXCEPT ![EntryOf(c)] = Tail(@)]
     /\ state' = [state EXCEPT ![call[c].key] = IF left = 0 THEN None ELSE @]
     /\ Moves(c, outcome)

\* Mistake: a call that fails does not release the lock.
LeaveLocked(c, outcome) ==
  LET left == waiters[EntryOf(c)] - 1
  IN /\ waiters' = [waiters EXCEPT ![EntryOf(c)] = left]
     /\ line' = IF outcome = "ok" THEN [line EXCEPT ![EntryOf(c)] = Tail(@)] ELSE line
     /\ state' = [state EXCEPT ![call[c].key] = IF left = 0 THEN None ELSE @]
     /\ Moves(c, outcome)

\* The end of the mutation, whatever it is: the count is given back, the
\* entry dropped by the last one, and the lock passed on.
Leave(c, outcome) ==
  LET left == waiters[EntryOf(c)] - 1
  IN /\ waiters' = [waiters EXCEPT ![EntryOf(c)] = left]
     /\ state' = [state EXCEPT ![call[c].key] =
                    IF left = 0 /\ @ = EntryOf(c) THEN None ELSE @]
     /\ line' = [line EXCEPT ![EntryOf(c)] = Tail(@)]
     /\ Moves(c, outcome)

Continue(c, pc) == Moves(c, pc) /\ UNCHANGED queue

\* Every check of the signal: the call goes on to pc, or ends here.
UnlessAborted(c, pc) ==
  IF aborted THEN Leave(c, "aborted") ELSE Continue(c, pc)

Wake(c) ==
  /\ call[c].pc = "queued" /\ Head(line[EntryOf(c)]) = c
  /\ UnlessAborted(c, FirstStep(c))
  /\ UNCHANGED <<contents, thread, aborted>>

-----------------------------------------------------------------------------
(* The tools. *)

\* A link has a status of its own even when it leads to nothing.
StatPath(c) ==
  /\ call[c].pc = "stat"
  /\ IF call[c].path = "file" /\ ~exists THEN Leave(c, "failed")
     ELSE UnlessAborted(c, "read")
  /\ UNCHANGED <<contents, thread, aborted>>

\* The text to replace is part of the original text.
Read(c) ==
  /\ call[c].pc = "read"
  /\ CASE aborted -> Leave(c, "aborted")
       [] ~aborted /\ "base" \notin text -> Leave(c, "failed")
       [] OTHER -> /\ call' = [call EXCEPT ![c].pc = "mkdir", ![c].read = text]
                   /\ UNCHANGED queue
  /\ UNCHANGED <<contents, thread, aborted>>

\* The parent directories are there: the write goes to a thread.
Mkdir(c) ==
  /\ call[c].pc = "mkdir"
  /\ UnlessAborted(c, "writing")
  /\ thread' = [thread EXCEPT ![c] = IF aborted THEN @ ELSE "opening"]
  /\ UNCHANGED <<contents, aborted>>

OpenFile(c) ==
  /\ thread[c] = "opening"
  /\ \/ /\ thread' = [thread EXCEPT ![c] = "writing"]
        /\ exists' = TRUE /\ text' = {}
     \/ /\ thread' = [thread EXCEPT ![c] = "refused"]
        /\ UNCHANGED contents
  /\ UNCHANGED <<call, queue, aborted>>

\* Over the text of another writer, a mixture may come out. A disk that is
\* full leaves the file as the open made it.
WriteFile(c) ==
  /\ thread[c] = "writing"
  /\ \/ /\ thread' = [thread EXCEPT ![c] = "done"]
        /\ \/ text' = call[c].read \cup {c}
           \/ text # {} /\ text' = {}
     \/ thread' = [thread EXCEPT ![c] = "torn"] /\ UNCHANGED text
  /\ call' = [call EXCEPT ![c].read = {}]
  /\ UNCHANGED <<exists, queue, aborted>>

Finish(c) ==
  /\ call[c].pc = "writing"
  /\ \/ thread[c] = "done" /\ Leave(c, IF aborted THEN "aborted" ELSE "ok")
     \/ thread[c] \in {"refused", "torn"} /\ Leave(c, "failed")
  /\ UNCHANGED <<contents, thread, aborted>>

-----------------------------------------------------------------------------
Abort ==
  /\ ~aborted /\ aborted' = TRUE
  /\ UNCHANGED <<contents, call, queue, thread>>

\* The task of a call is cancelled at the await it is in. In line for the lock
\* it keeps its count; a thread it has started goes on without it.
Cancel(c) ==
  /\ ~Over(c)
  /\ Cardinality({d \in Calls : call[d].pc = "cancelled"}) < MaxCancels
  /\ CASE call[c].pc = "queued" ->
            /\ \E i \in DOMAIN line[EntryOf(c)] :
                 /\ line[EntryOf(c)][i] = c
                 /\ line' = [line EXCEPT ![EntryOf(c)] = RemoveAt(@, i)]
            /\ Moves(c, "cancelled")
            /\ UNCHANGED <<state, waiters>>
       [] call[c].pc \in Working -> Leave(c, "cancelled")
       [] OTHER -> Continue(c, "cancelled")
  /\ \/ UNCHANGED thread
     \/ thread[c] = "opening" /\ thread' = [thread EXCEPT ![c] = "none"]
  /\ UNCHANGED <<contents, aborted>>

TaskStep(c) ==
  \/ Canonicalize(c) \/ Enter(c) \/ Wake(c)
  \/ StatPath(c) \/ Read(c) \/ Mkdir(c) \/ Finish(c)
ThreadStep(c) == OpenFile(c) \/ WriteFile(c)

FilesNext ==
  \/ \E c \in Calls : TaskStep(c) \/ ThreadStep(c) \/ Cancel(c)
  \/ Abort

FilesSpec == FilesInit /\ [][FilesNext]_filesVars

\* The event loop and the thread pool run something of what is ready.
SomeTask == \E c \in Calls : TaskStep(c)
SomeThread == \E c \in Calls : ThreadStep(c)

FilesFairness == WF_filesVars(SomeTask) /\ WF_filesVars(SomeThread)

FairFilesSpec == FilesSpec /\ FilesFairness

-----------------------------------------------------------------------------
(* Properties. *)

AtWork(c) == call[c].pc \in Working

(* One mutation at a time per file (the promise of the module), through    *)
(* whichever path: entries are not dropped and made anew while somebody    *)
(* holds or awaits their lock. The exception is a call that named the file *)
(* by a link which led to nothing yet: its key is the link.                *)
OneMutationPerFile ==
  \A c, d \in Calls :
    c # d /\ AtWork(c) /\ AtWork(d) =>
      \E x \in {c, d} : call[x].missed /\ call[x].path = "link"

Quiet == \A c \in Calls : Over(c) /\ thread[c] \notin {"opening", "writing"}

\* What may lose text: a link without a file, a cancelled call whose thread
\* went on, a disk that was full.
Disturbed ==
  \E c \in Calls : \/ call[c].missed /\ call[c].path = "link"
                   \/ call[c].pc = "cancelled" /\ thread[c] # "none"
                   \/ thread[c] = "torn"

(* Concurrent calls lose nothing: when all is over, what an edit reported  *)
(* as done is in the file unless a write replaced the whole text, and a    *)
(* write can only have been replaced by another.                           *)
NothingLost ==
  Quiet /\ ~Disturbed =>
    \A c \in Calls :
      call[c].pc = "ok" => c \in text \/ \E w \in text \ {"base"} : call[w].tool = "write"

(* The queue forgets a path when its last caller is gone, succeeded or not.*)
(* Only a caller cancelled in line for the lock, counted and never at      *)
(* work, leaves its entry behind.                                          *)
EntriesFreed ==
  (\A c \in Calls : Over(c)) =>
    \A k \in Paths :
      state[k] # None =>
        \E c \in Calls : call[c].pc = "cancelled" /\ EntryOf(c) = state[k]

(* Every call ends, whoever fails, aborts or is cancelled before it: the   *)
(* lock is always passed on.                                               *)
CallsEnd == <>(\A c \in Calls : Over(c))
=============================================================================
