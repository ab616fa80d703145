---------------------------- MODULE SessionRepo ----------------------------
(***************************************************************************)
(* The JSONL repository: creates, forks and deletes of sessions by several *)
(* processes, each with one JsonlSessionRepo and several calls in flight.  *)
(* A session is a file named by a timestamp and its id, in a directory     *)
(* named after its working directory; every working directory of the model *)
(* maps to the same one, as "/a/b" and "/a-b" do. A process may crash      *)
(* between any two steps, and the task that awaits a call be cancelled: its*)
(* claim is given back, and the executor's thread goes on without it.      *)
(***************************************************************************)
EXTENDS Naturals, FiniteSets, Functions

CONSTANTS
  Processes,   \* processes that use the sessions root
  Callers,     \* calls of create or fork, numbered in the order they begin
  SessionIds,  \* ids asked for
  Cwds,        \* working directories
  MaxClock,    \* bound on the milliseconds that pass
  Idle,        \* a call that has not begun
  Over         \* a call that has ended, whichever way

VARIABLES
  disk,    \* the session files by path: working directory, maker, how complete
  staged,  \* the .tmp files beside them, by the path they are meant for
  claims,  \* per process: the destinations being created
  making,  \* per call: whose it is, its destination and where it is
  clock,   \* the time in milliseconds
  raced,   \* history: paths two calls were making at the same time
  doubled  \* history: destinations taken anew while a thread still made them

repoVars == <<disk, staged, claims, making, clock, raced, doubled>>

Path(c)     == <<making[c].stamp, making[c].id>>
InFlight(c) == making[c] \notin {Idle, Over}
At(c, pc)   == InFlight(c) /\ making[c].pc = pc
Added(files, path, file) == [p \in DOMAIN files \cup {path} |-> IF p = path THEN file ELSE files[p]]
Removed(files, path)    == Restrict(files, DOMAIN files \ {path})

\* Where a call will put its session.
Destination(c) == <<making[c].process, making[c].cwd, making[c].id>>

RepoInit ==
  /\ disk = [p \in {} |-> Idle] /\ staged = [p \in {} |-> Idle]
  /\ claims = [p \in Processes |-> {}]
  /\ making = [c \in Callers |-> Idle]
  /\ clock = 0 /\ raced = {} /\ doubled = {}

\* _session_id_exists
IdExists(id) == \E path \in DOMAIN disk : path[2] = id

\* Mistake: the claims decide alone.
RefusedByClaims(p, cwd, id) == <<cwd, id>> \in claims[p]

Refused(p, cwd, id) == <<cwd, id>> \in claims[p] \/ IdExists(id)

\* The claim and the look at the directory are one step of the event loop.
Begin(c, p, kind, cwd, id) ==
  LET refused == Refused(p, cwd, id)
  IN /\ making[c] = Idle /\ \A d \in Callers : d < c => making[d] # Idle
     /\ making' = [making EXCEPT ![c] =
                     IF refused THEN Over
                     ELSE [process |-> p, cwd |-> cwd, id |-> id, stamp |-> clock, pc |-> kind,
                           orphan |-> FALSE]]
     /\ claims' = IF refused THEN claims ELSE [claims EXCEPT ![p] = @ \cup {<<cwd, id>>}]
     /\ raced' = raced \cup {path \in {<<clock, id>>} :
                               ~refused /\ \E d \in Callers : InFlight(d) /\ Path(d) = path}
     /\ doubled' = doubled \cup
          {dest \in {<<p, cwd, id>>} :
             ~refused /\ \E d \in Callers : InFlight(d) /\ making[d].orphan /\ Destination(d) = dest}
     /\ UNCHANGED <<disk, staged, clock>>

Goes(c, pc) == making' = [making EXCEPT ![c].pc = pc] /\ UNCHANGED claims

Unclaimed(c) == [claims EXCEPT ![making[c].process] = @ \ {<<making[c].cwd, making[c].id>>}]

\* The claim is given back however the call ends: by the call, not by a thread
\* that outlived it.
Ends(c) ==
  /\ making' = [making EXCEPT ![c] = Over]
  /\ claims' = IF making[c].orphan THEN claims ELSE Unclaimed(c)

\* A thread that outlived its call does what it was given and no more.
EndsOrGoes(c, pc) == IF making[c].orphan THEN Ends(c) ELSE Goes(c, pc)

File(c, body) == [cwd |-> making[c].cwd, by |-> making[c].process, body |-> body]

\* JsonlSessionStorage.create: the file is opened, then the header written, both
\* by one thread.
OpenNew(c) ==
  /\ At(c, "create")
  /\ \/ disk' = Added(disk, Path(c), File(c, "torn")) /\ Goes(c, "header")
     \/ Ends(c) /\ UNCHANGED disk
  /\ UNCHANGED <<staged, clock, raced, doubled>>

WriteHeader(c) ==
  /\ At(c, "header")
  /\ \/ disk' = Added(disk, Path(c), File(c, "whole"))
     \/ UNCHANGED disk
  /\ Ends(c)
  /\ UNCHANGED <<staged, clock, raced, doubled>>

\* Mistake: the fork is written where the session will be.
StageInPlace(c) ==
  /\ At(c, "fork")
  /\ disk' = Added(disk, Path(c), File(c, "part"))
  /\ staged' = Added(staged, Path(c), "part")
  /\ EndsOrGoes(c, "fill")
  /\ UNCHANGED <<clock, raced, doubled>>

\* JsonlSessionStorage.fork: the header goes to the .tmp file, then each of the
\* mutations, by a thread of its own.
Stage(c) ==
  /\ At(c, "fork")
  /\ staged' = Added(staged, Path(c), "part")
  /\ EndsOrGoes(c, "fill")
  /\ UNCHANGED <<disk, clock, raced, doubled>>

Fill(c) ==
  /\ At(c, "fill")
  /\ \/ ~making[c].orphan /\ staged' = Added(staged, Path(c), "whole") /\ Goes(c, "publish")
     \/ making[c].orphan /\ staged' = Added(staged, Path(c), "part") /\ Ends(c)
     \/ EndsOrGoes(c, "undo") /\ UNCHANGED staged
  /\ UNCHANGED <<disk, clock, raced, doubled>>

\* os.replace; without a file to rename the call fails.
Publish(c) ==
  /\ At(c, "publish")
  /\ \/ /\ Path(c) \in DOMAIN staged
        /\ disk' = Added(disk, Path(c), File(c, staged[Path(c)]))
        /\ staged' = Removed(staged, Path(c))
        /\ Ends(c)
     \/ EndsOrGoes(c, "undo") /\ UNCHANGED <<disk, staged>>
  /\ UNCHANGED <<clock, raced, doubled>>

\* A fork that failed takes its .tmp file away; one that was cancelled does not.
Undo(c) ==
  /\ At(c, "undo")
  /\ staged' = Removed(staged, Path(c))
  /\ Ends(c)
  /\ UNCHANGED <<disk, clock, raced, doubled>>

\* The task that awaits the call is cancelled. A thread that has begun goes on;
\* one that has not never will.
Cancel(c) ==
  /\ InFlight(c) /\ ~making[c].orphan
  /\ claims' = Unclaimed(c)
  /\ \/ making' = [making EXCEPT ![c].orphan = TRUE]
     \/ making[c].pc # "header" /\ making' = [making EXCEPT ![c] = Over]
  /\ UNCHANGED <<disk, staged, clock, raced, doubled>>

\* What is deleted was listed or made before, so its header has been read.
Delete(path) ==
  /\ disk[path].body # "torn"
  /\ disk' = Removed(disk, path)
  /\ UNCHANGED <<staged, claims, making, clock, raced, doubled>>

CrashProcess(p) ==
  /\ \E c \in Callers : InFlight(c) /\ making[c].process = p
  /\ making' = [c \in Callers |-> IF InFlight(c) /\ making[c].process = p THEN Over ELSE making[c]]
  /\ claims' = [claims EXCEPT ![p] = {}]
  /\ UNCHANGED <<disk, staged, clock, raced, doubled>>

Tick ==
  /\ clock < MaxClock /\ clock' = clock + 1
  /\ UNCHANGED <<disk, staged, claims, making, raced, doubled>>

RepoNext ==
  \/ \E c \in Callers, p \in Processes, kind \in {"create", "fork"}, cwd \in Cwds, id \in SessionIds :
       Begin(c, p, kind, cwd, id)
  \/ \E c \in Callers : OpenNew(c) \/ WriteHeader(c) \/ Stage(c) \/ Fill(c) \/ Publish(c) \/ Undo(c)
  \/ \E c \in Callers : Cancel(c)
  \/ \E path \in DOMAIN disk : Delete(path)
  \/ \E p \in Processes : CrashProcess(p)
  \/ Tick

RepoSpec == RepoInit /\ [][RepoNext]_repoVars

-----------------------------------------------------------------------------
(* One process makes two sessions of one id for one directory only if it   *)
(* began the second while a thread of the first, whose caller was          *)
(* cancelled, was still at work: whatever else fails, crashes or is        *)
(* deleted, a claim or a file keeps the second call away. Two processes    *)
(* know nothing of each other's claims and may both find an id free.       *)
OneSessionPerDestination ==
  \A f, g \in DOMAIN disk :
    f # g /\ f[2] = g[2] /\ disk[f].cwd = disk[g].cwd /\ disk[f].by = disk[g].by
      => <<disk[f].by, disk[f].cwd, f[2]>> \in doubled

(* A fork is on disk completely or not at all, at every moment, after every*)
(* crash and whoever is cancelled, unless two calls made the same path in  *)
(* one millisecond.                                                        *)
ForksAppearWhole == \A path \in DOMAIN disk \ raced : disk[path].body # "part"
=============================================================================
