------------------------------ MODULE FileLock ------------------------------
(***************************************************************************)
(* FileLock: a lock file created with O_CREAT | O_EXCL, polled for until a *)
(* deadline, removed on release, and removed by a waiter that finds it     *)
(* older than stale_after. Ages are abstracted to one bit, which the file  *)
(* system sets some time after the file's creation.                        *)
(***************************************************************************)
EXTENDS FiniteSets

CONSTANTS
  Procs,         \* the threads, of any process, that use one lock path
  Nobody,        \* the owner of a lock file whose creator has gone
  NoFile,        \* there is no lock file
  Abandons,      \* whether a holder may die, or fail to write its pid
  SlowHolders    \* whether a holder may keep the lock longer than stale_after

ASSUME LockAssumption ==
  /\ Nobody \notin Procs
  /\ NoFile \notin [owner : Procs \cup {Nobody}, old : BOOLEAN]
  /\ {Abandons, SlowHolders} \subseteq BOOLEAN

VARIABLES
  file,    \* the lock file: who created it and whether it counts as stale
  pc,      \* per thread: where in acquire, and whether it holds the lock
  late,    \* per thread: its deadline has passed
  aged     \* history: some lock file has got older than stale_after

vars == <<file, pc, late, aged>>

New(p) == [owner |-> p, old |-> FALSE]

Init ==
  /\ file = NoFile
  /\ pc = [p \in Procs |-> "idle"]
  /\ late = [p \in Procs |-> FALSE]
  /\ aged = FALSE

Goto(p, place) == pc' = [pc EXCEPT ![p] = place]

Acquire(p) ==
  /\ pc[p] = "idle"
  /\ Goto(p, "open")
  /\ late' = [late EXCEPT ![p] = FALSE]
  /\ UNCHANGED <<file, aged>>

\* Mistake: the lock file is opened without O_EXCL.
CreateAnyway(p) ==
  /\ pc[p] = "open"
  /\ file' = New(p)
  /\ Goto(p, "held")
  /\ UNCHANGED <<late, aged>>

\* os.open with O_EXCL succeeds for one of those who try.
Create(p) ==
  /\ pc[p] = "open"
  /\ file = NoFile
  /\ file' = New(p)
  /\ Goto(p, "held")
  /\ UNCHANGED <<late, aged>>

\* Writing the pid raises: the file stays, the lock is not held.
CreateFails(p) ==
  /\ Abandons
  /\ pc[p] = "open"
  /\ file = NoFile
  /\ file' = New(Nobody)
  /\ Goto(p, "idle")
  /\ UNCHANGED <<late, aged>>

Exists(p) ==
  /\ pc[p] = "open"
  /\ file # NoFile
  /\ Goto(p, "stat")
  /\ UNCHANGED <<file, late, aged>>

\* The age decides: gone, try again at once; stale, unlink; fresh, wait.
Stat(p) ==
  /\ pc[p] = "stat"
  /\ Goto(p, IF file = NoFile THEN "open" ELSE IF file.old THEN "unlink" ELSE "poll")
  /\ UNCHANGED <<file, late, aged>>

\* Mistake: a stale file is noticed but left where it is.
UnlinkNothing(p) ==
  /\ pc[p] = "unlink"
  /\ Goto(p, "open")
  /\ UNCHANGED <<file, late, aged>>

\* Whatever file has the path by now is the one that goes.
Unlink(p) ==
  /\ pc[p] = "unlink"
  /\ file' = NoFile
  /\ Goto(p, "open")
  /\ UNCHANGED <<late, aged>>

\* The deadline is looked at only here, after a fresh lock was seen.
Poll(p) ==
  /\ pc[p] = "poll"
  /\ Goto(p, IF late[p] THEN "idle" ELSE "open")
  /\ UNCHANGED <<file, late, aged>>

Release(p) ==
  /\ pc[p] = "held"
  /\ file' = NoFile
  /\ Goto(p, "idle")
  /\ UNCHANGED <<late, aged>>

-----------------------------------------------------------------------------
(* Time and failures. *)

Waiting(p) == pc[p] \in {"open", "stat", "unlink", "poll"}

Expire(p) ==
  /\ Waiting(p)
  /\ ~late[p]
  /\ late' = [late EXCEPT ![p] = TRUE]
  /\ UNCHANGED <<file, pc, aged>>

Age ==
  /\ file # NoFile
  /\ ~file.old
  /\ SlowHolders \/ file.owner = Nobody
  /\ file' = [file EXCEPT !.old = TRUE]
  /\ aged' = TRUE
  /\ UNCHANGED <<pc, late>>

\* A thread dies with its process; whoever takes its place starts afresh.
Crash(p) ==
  /\ Abandons
  /\ pc[p] # "idle"
  /\ file' = IF pc[p] = "held" /\ file # NoFile /\ file.owner = p
             THEN [file EXCEPT !.owner = Nobody] ELSE file
  /\ Goto(p, "idle")
  /\ UNCHANGED <<late, aged>>

Step(p) == Create(p) \/ Exists(p) \/ Stat(p) \/ Unlink(p) \/ Poll(p) \/ Release(p)

Next ==
  \/ \E p \in Procs : Step(p) \/ Acquire(p) \/ CreateFails(p) \/ Expire(p) \/ Crash(p)
  \/ Age

Spec == Init /\ [][Next]_vars

(* A thread inside acquire, or holding the lock around one append, keeps   *)
(* running; clocks and deadlines advance.                                  *)
Fairness == (\A p \in Procs : WF_vars(Step(p)) /\ WF_vars(Expire(p))) /\ WF_vars(Age)

FairSpec == Spec /\ Fairness

-----------------------------------------------------------------------------
(* Properties. *)

\* The type of every variable.
TypeOK ==
  /\ file \in [owner : Procs \cup {Nobody}, old : BOOLEAN] \cup {NoFile}
  /\ pc \in [Procs -> {"idle", "open", "stat", "unlink", "poll", "held"}]
  /\ late \in [Procs -> BOOLEAN]
  /\ aged \in BOOLEAN

\* At most one thread is between its acquire and its release.
MutualExclusion == \A p, q \in Procs : pc[p] = "held" /\ pc[q] = "held" => p = q

\* Exclusion needs nobody to live long or to finish, only that no lock file has
\* ever got stale: deaths, failed pid writes and timeouts alone do not break it.
ExclusionUntilStale == ~aged => MutualExclusion

\* The lock file of a thread that holds the lock is the one on disk.
HolderOwnsFile == \A p \in Procs : pc[p] = "held" => file # NoFile /\ file.owner = p

\* As long as no lock file has got stale, release removes no lock but its own.
OwnershipUntilStale == ~aged => HolderOwnsFile

\* A lock file left behind does not outlast those who wait for it: it is
\* reclaimed, or the waiter gives up at its deadline.
Abandoned == file # NoFile /\ file.owner = Nobody

Reclaims(p) == Waiting(p) /\ Abandoned ~> ~Waiting(p) \/ ~Abandoned

AbandonedIsReclaimed == \A p \in Procs : Reclaims(p)
=============================================================================
