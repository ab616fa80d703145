# A verification project for `pi_agent`

TLA+ specifications of `pi_agent` (the Python agent runtime under
`src/src/pi_agent`), TLC configurations that check them on small instances, and
proofs checked by TLAPS. Paths below are relative to `src/src/pi_agent/`.

    tlc -workers 2 -config Session.cfg MCSession       # one run
    tlapm SessionStorage_proofs.tla                    # one proof module

`PROJECT.json` holds, for every definition that models code, the lines it models;
the runs and their properties; for every property a plausible mistake in the code
that it catches; the hazards the properties are for; the findings; the theorems.

## 1. The system

| Component | State it keeps | Operations that change it | Interacts with | Module |
|---|---|---|---|---|
| Session state (`harness/session/state.py`, `memory.py`) | entries (a tree), records, lanes with a leaf each, open operations per lane, labels, name | `apply_mutation` and the mutators of a storage; `fork` | every storage replays its journal into one | `SessionStorage`, `SessionFork` |
| Session queries, search (`session.py`, `search/scanning.py`) | a reader's cursor; a search's page | `find_entries`, `find_entries_on_branch`, `find_records`, `get_log`; `search` | appends between two pages | `SessionReads` |
| Session context, compaction (`session/context.py`, `messages.py`, `harness/compaction/`) | none: entries of the tree | `compact`, branch summaries, the projection to a request | a lane of the session | `SessionContext`, `Compaction`, `SessionHistory` |
| JSONL storage (`harness/session/jsonl/storage.py`) | an append-only file, a replayed state, an `asyncio.Lock` | `create`, `load` (which repairs), every mutator (validate, write in a thread, fsync, apply) | file lock, executor threads, other processes | `JsonlStorage`, `DurableLog` |
| JSONL codec (`jsonl/codec.py`, `types.py`) | none | `encode_*`, `decode_*` | storage, fork | `JsonlCodec` |
| JSONL repository (`jsonl/repo.py`) | destinations claimed by this process; the directory | `create`, `open`, `list`, `delete`, `fork` | storage, other processes | `SessionRepo` |
| Lock file (`jsonl/lockfile.py`) | `<path>.lock` | `acquire` with polling, stale reclaim, deadline; `release` | storages of any process | `FileLock` |
| Agent (`agent.py`) | transcript, pending tool calls, steering and follow-up queues, the active run | `prompt`, `continue_`, `steer`, `follow_up`, `clear_*`, `abort`, `reset`; `_process_events` | callers, listeners, the loop | `Agent` |
| Agent loop (`agent_loop.py`) | context, new messages, the batch of tool calls, tool tasks | one coroutine from `agent_start` to `agent_end`, suspended at each listener, provider, tool and hook | agent (events, queues), provider, tools | `AgentLoop`, `AgentEvents` |
| Lane reducer (`harness/reducer.py`) | none (a fold) | `validate_record_log`, `reduce_lane_state` | session records and entries | `LaneReducer`, `LiveLane`, `LaneLog` |
| Event bus (`harness/events.py`) | listener sets, watchers with buffers | `on`, `watch`, `start`, `emit`, unsubscribe | harness | `EventBus` |
| File mutation queue, write and edit tools (`harness/tools/`) | a table of locks with counts of callers | `with_file_mutation_queue`, `write`, `edit` | file system, threads | `FileTools` |
| Shell (`harness/env/local.py`, `utils/shell_output.py`, `tools/bash.py`) | a child process, its pipes, a buffer, a spill file, a timer of updates | `exec` with timeout and abort, capture, the tool | operating system | `ShellCommand` |
| Proxy stream (`proxy.py`) | a partial message | wire events, abort watcher | provider, consumer | `ProxyStream` |
| Types, telemetry, prompts, skills, read tool, `AgentHarness` | none of their own | conversions, text, declarations | | |

What is hard here: coroutines that interleave at every `await` with callers,
listeners and tool tasks that outlive the run that spawned them; threads that go
on after the task awaiting them was cancelled; processes that share a session
file, its directory and its lock file; crashes and power failures part way
through a line, and the repair by the next load; listeners called synchronously
that call back; a child process, its grandchildren, two pipes, a timeout and an
abort that race for one outcome; summaries that stand for summaries; and state
kept twice, in a journal and in memory, in the loop's context and in the agent's
transcript, in indexes and in what they index.

What makes each part correct:

* **Session state** - a line that is written is one the state accepts; parents
  exist and precede their children; lane leaves and labels name entries; entries
  and records share one id space and one sequence; one operation is open per lane; replaying the
  journal restores the state; nothing recorded ever changes; a fork loads and
  holds what its options ask for.
* **Queries and search** - pages cover what one query would have shown, once, in
  order, whatever is appended between them.
* **Context and compaction** - what was said is told to the model, by itself or in
  a summary, in order and once; a result follows its call; a branch that is left
  is told of; file lists are complete.
* **JSONL storage** - what was acknowledged survives any crash; a repair drops
  the unacknowledged fragment and nothing else; a storage at rest agrees with its
  file; one write at a time; every call ends and passes the lock on.
* **Codec** - what is written is read back, and a line that is accepted keeps its
  meaning when a fork writes it anew.
* **Repository** - one process makes one session per id and directory (short of a
  cancelled call, section 7); a fork is on disk completely or not at all.
* **Lock file** - exclusion, ownership, and reclaim of what a dead holder left.
* **Lane reducer** - whatever record or entry a writer died after, its log is
  accepted and read back as the state the writer had; late records are refused.
* **Event bus** - a subscriber hears of every event once and in order, whenever it
  joins (section 7 has the exceptions).
* **File tools** - one mutation of a file at a time, whichever path names it; no
  change is lost; the queue forgets a path nobody uses.
* **Shell** - the output is complete; a killed command is not reported as
  finished; the call ends.
* **Proxy** - an aborted request ends as aborted.
* **Agent and loop** - every steered message enters the transcript once, in order,
  and answered one at a time if so asked; the request shows the provider the
  transcript; every tool call is answered in order; what `agent_end` reports is
  what was added; events are well bracketed; the agent settles, clean, whatever
  raises.

## 2. Plan

Done, in this order: (1) `SessionMutations`, `SessionStorage`, `SessionFork`; (2)
`FileLock`, `DurableLog`, `JsonlStorage`; (3) `AgentEvents`, `Agent`, `AgentLoop`;
(4) the first proofs; (5) `LaneReducer`, `LiveLane`, `LaneLog`; (6) `FileTools`;
(7) `ShellCommand`, `ProxyStream`; (8) `SessionContext`, `Compaction`,
`SessionHistory`; (9) `SessionReads`, `SessionRepo`, `EventBus`; (10) `JsonlCodec`;
(11) the proofs about histories and the repository; (12) those about the JSONL
storage, the agent and the file tools; (13) those about the shell, the proxy and
the event bus; (14) `Filters`, and the proofs that a journal restores its session and
that captured output is complete; (15) the proofs that pages and searches are complete; (16)
the proof that forks are faithful, and what was proved of sessions also of forks.

Compositions: `SessionFork` over `SessionStorage`; `AgentLoop` over `Agent`;
`LaneLog` over `LiveLane` and `LaneReducer`; `SessionHistory` over `Compaction` over
`SessionContext`. Abstract specifications: `DurableLog` (implemented by
`JsonlStorage`), `AgentEvents` (by `AgentLoop`), `LiveLane` (what `LaneReducer` reads
back).

Left: `JsonlStorage` over `FileLock`
instead of over a perfect lock; retries of a compaction; `prepare_next_turn`.

## 3. The modules

### SessionMutations, SessionStorage, SessionFork

A mutation is a record with the fields that matter (kind, seq, lane, id, parent,
type, target, ...); messages and timestamps are left out. `Apply` is
`SessionState.apply_mutation`, one operator per branch, and `CanApply` the
conditions under which it raises. `Replay` is the loop of
`JsonlSessionStorage.load`. An action of `SessionStorage` is one mutator: its
guards are the checks made *before* the line is written, its `Commit` writes the
line and applies it. That the first imply the second is `EveryLineApplied`: the
code checks twice, by different code, and a line written but refused would make
the file unloadable. The journal is kept as a variable, so that
`JournalRestoresState` can relate the state, and the indexes in it, to its history.

`SessionFork` has `create_fork_mutations` for every option (tree, or branch by
target and position) and a step in which the session goes on as its fork. The
walk to the root is a recursive function over the entries, and its termination is what
`ParentsPrecedeChildren` is for. `OldestFirst` goes through the sequence numbers an entry
has, which is the order in which the code's list of entries grew.

### SessionReads

A session is the sequence of its log items, so the place of an item is its seq.
A query filters these places (`Within`, of `Filters`), in the order it asks for, and is
cut at its limit. There are four; between any two reads anybody may append. A
search (`search/scanning.py`) is an async generator: taking the next session, fetching
a page, handing out a hit and being aborted are its steps. A pager reads with the
cursor of the last item it saw, in either direction, as callers of the queries do.

### SessionContext, Compaction, SessionHistory

A message is what it tells about: itself, or, for a summary, the set of entries
its prompt held (the model that writes a summary is taken to report everything).
So "forgotten" is set membership. `Compaction` is the code's own arithmetic: the
valid cut points, the walk back by tokens, the split of a turn, the retained tail,
the previous summary and its file lists, the entries a branch summary reads. Sizes
are messages, a tool result counting as two. `SessionHistory` lets a lane grow:
messages, model changes, compactions, and navigation to any other entry with a
summary of the branch that is left, under several settings. `compact()` returns the
file lists as a dataclass, and the next compaction reads them only from a dict: what a
caller stores is a setting (`dicts`).

### JsonlStorage, DurableLog

The file is a sequence of terminated lines and a tail; a line is an operation and
its sequence number. A handle is one storage object in a process of its own. A
call goes through `queued` (asyncio lock), `submitted` (executor thread), `open`
(file lock held), `part`, `written`, `synced`, and back to its task; a
cancellation takes the task out of the queue and leaves the thread. `load` reads
at once and acts later: intact, torn (stage a copy, publish it by rename),
unterminated (append a newline), invalid. `inode` says which file the path names,
since a thread that has the replaced file open writes to nowhere.

`disturbed` is a history variable: a write failed, a call was cancelled once its
thread had started, or two storages of one file were open at once. The code does
not keep its promises then (section 7); what is checked is that it keeps all of
them otherwise, with crashes and power failures anywhere.

Assumptions: the header line is durable; a rename makes the data of the renamed
file durable (`RenameSyncs`, as on ext4 with its default options: the code does
not sync the repaired copy); the file lock is perfect except that a crash leaves
it behind, which `FileLock` models.

### JsonlCodec

Two tables, one transcribed from the encoders (`Written`: a field is written
always, when given, or when not empty) and one from the decoders (`Reading`: which
check a field goes through and what an absent or null one becomes), for every
type on the wire, with a third for the fields that may be `None` by the types of
the values. Field values are told apart as text, other datum, empty, none. A
behaviour is a line that the program writes or accepts, and a fork that writes it
anew. This is the one module whose length is its data: some ninety fields.

### SessionRepo

A call claims its destination and looks at the directory in one step of the event
loop; then an executor thread opens the file and writes its header, or the fork is
staged beside it, filled and renamed, each by a thread of its own; a fork that fails
takes its staged file away (`Undo`). Calls of two processes, each of which knows only
its own claims, interleave with deletes and crashes. The clock matters because the
name of a file holds a timestamp.

`Cancel` ends the task that awaits a call, at any of its awaits. The `finally` of
`_claim_create_destination` gives the claim back at once; a thread that has begun goes
on (`orphan`) and opens, writes or renames what it was given, and a cancelled fork
leaves its staged file. `doubled` is a history variable: the destinations a process
took anew while such a thread still worked on them. It is the only way in which one
process comes to two sessions of one id (section 7), and what
`OneSessionPerDestination` excepts.

### FileLock

Threads at `open`, `stat`, `unlink`, `poll`, `held`; one system call per step.
Ages are one bit the environment sets (`Age`); `aged` is the history of it. A
process dies at any step and leaves the file; the pid write may fail after
the file was created.

### Agent, AgentLoop, AgentEvents

`loop.pc` is the await at which the run is suspended, nearly always the listeners
of the event last emitted; one action takes it to the next. `Emit` is
`_process_events`: it reduces the state, then calls listeners. A tool task of a
parallel batch is an entry of `tasks` with a life of its own, also after its run
was cancelled or failed. Callers act at any time. Provider, tools and hooks are
the environment: an answer has any number of calls up to `MaxCalls` and stops by
`stop`, `length` or `error` (which stands for `aborted` too: the loop treats them
alike); a call is refused, blocked, executed, terminates or not. `view` is a
listener's own record of the events, which `AgentEvents` constrains.

Left out of the loop: `prepare_next_turn` (it may replace the context by any
other), `tool_execution_update` and `message_update` (they change neither state
nor bracketing), and queue modes that differ for the two queues.

### LaneReducer, LiveLane, LaneLog

`LaneReducer` has `validate_record_log` (`Valid`, one operator per kind of record)
and `reduce_lane_state` (`Reduce`, one operator per field). A log is one sequence
of records and entries, so the seq of an item is its place; ids are minted in
order and content is reduced to role, number of calls and stop reason. A recovery
slice is the whole log: the bounded queries that will cut it are not written yet.

The harness that writes these records is not written either (every operation of
`AgentHarness` raises `HarnessNotImplemented`). `LaneLog` is therefore the writer
that the record types, the reducer's checks and its messages describe: one item at
a time, and the lane kept in memory, event by event, as `LiveLane` says. `LiveLane`
is written without looking at a log; that `Reduce` computes the same from the log
alone is what a restart needs. It is why, for instance, an overflow compaction is
a flag that consuming input clears in one and a comparison of places in the other.
Writer and lane are marked external in `map`.

Left out: the effective configuration, usage records (a terminal failure of a
deferred fetch is recognised by the deferred answer before it), and the
`terminate` and `truncated` flags of a tool batch.

### EventBus

Delivery is synchronous, so what is under way is a stack of frames: an `emit` that
has called some of its listeners, a `start` that flushes a buffer. While a listener
runs it may do anything: emit, subscribe, unsubscribe (also twice), start a
watcher, also the one that is being started, raise. Sets of listeners are numbered, since a set that became empty is
taken down and a later subscription makes a new one. `missed` records what an
exception, or such a set, costs a subscriber, and `overtaken` what a flush still held
when its watcher was started again, so that the property can demand everything else.

### FileTools

A call of the write or edit tool goes from its key (`_get_mutation_queue_key`, in a
thread) through the lock to `stat`, `read`, `mkdir` and `writing`, its awaits, and
the thread of the write goes on by itself (`thread`). Between two awaits a task
runs alone, so that finding the entry, counting and taking a free lock is one
action. The file has a name and a link, which may lead to nothing at first. Its
text is the set of changes it holds: an edit needs the original text and adds
itself, a write replaces everything, opening truncates, two writers at once may
leave a mixture. `asyncio.Lock` is its line of callers.

### ShellCommand

One call of the bash tool from start to result: the shell process and a descendant
in a session of its own that holds the pipes; the two reader tasks; the timeout and
the abort watcher; the capture with its bounded buffer, its spill file and the
chain of tasks that writes it; the throttled updates with their timer; and the
order in which `exec`, the capture and the tool end. The bytes of the output are
numbered, so a lost, doubled or misplaced one shows. `WaitModes` says what
`process.wait()` waits for, which depends on the version of Python (section 7).

### ProxyStream

The server sends any event at any time, refers to blocks that are not there, closes
early, breaks off or stays silent. The client task applies one line per step; a
watcher cancels it at the await it is in. The consumer's stream is external: its
first terminal event ends it.

### MC modules

`MCSession`, `MCJsonlStorage`, `MCAgentLoop`, `MCFileLock` and `MCSessionHistory`
add symmetry or settings for one component. `MCTools` and `MCRecords` are sums:
their components share no state, so a behaviour exercises one, chosen in the first
state by `part`, and the others keep one of their first states. It is as if each had a run
of its own, and the state graphs add up instead of multiplying. Their fairness and
properties are those of the components.

## 4. The runs

| Run | Instance | What it shows |
|---|---|---|
| `session` | 3 ids, 2 lanes, 5 mutations, symmetric ids; forks by every option at any time, and forks of forks | `EveryLineApplied`, `ReferencesResolve`, `IdsPartitioned`, `OneOpenOperationPerLane`, `JournalRestoresState`, `ForksKeepTheirSource`, `HistoryImmutable`. Five mutations suffice for a branch with a record and a label in another lane, an operation opened and closed, an id used twice, and a fork that is written to. Lines that change nothing but the number (a name taken away where there is none) come among the first two only: they shift the numbers of all that follows. |
| `jsonl_storage` | 2 storages, 2 calls, 2 loads, every fault | `StateMatchesFile`; `KeepsDurableLog`, the refinement of `DurableLog`; under fairness `CallsEnd`. Two loads: one before and one after a crash, or two processes at once. |
| `agent_run` | 2 runs, 1 answer with up to 2 calls, 2 steering messages, 1 follow-up, aborts, both queue modes | `InputInOrder` (steering in order, answered one at a time), `AccountsAgree` (request, transcript and `agent_end` report the same), `CallsAnswered`, `GatesBeforeTools`, and `EventProtocol`, the refinement of `AgentEvents`. |
| `agent_faults` | 2 runs, listeners and hooks raise, cancellation, aborts, resets | `RunSettles` under fairness, and `StateMatchesRun`: idle is clean, and pending calls are those in flight. |
| `tools` | the lock with 3 threads, deaths and slow holders; 3 calls of write and edit on one file by two names, 1 cancelled task, an abort, refused opens, full disks; a command of 4 bytes; a stream of 2 events and 2 blocks | `ExclusionUntilStale`, `WaiterReclaims`; `OneMutationPerFile`, `NothingLost`, `EntriesFreed`, `EveryCallEnds`; `OutputComplete`, `ResultIsFinal`, `EveryCommandEnds`; `AbortEndsStream`. |
| `records` | conversations of 6 entries at 6 settings; lane logs of 6 items, 2 operations, 2 calls per answer; sessions of together 3 items, pages of 1; 2 processes, 3 creates or forks for 1 id in 2 directories mapped to one, 2 of which may be cancelled; every type of line; 3 events with a listener and a watcher, 2 events with two listeners and a watcher | `NothingForgotten`, `ContextInOrder`, `ResultsFollowCalls`, `BranchesRemembered`, `FilesReported`; `RestartRestores`, `LateRecordsRefused`; `SearchFindsEachOnce`, `PagesCoverOnce`; `OneSessionPerDestination`, `ForksAppearWhole`; `LinesKeepTheirMeaning`; `SubscribersHearAll`. |
| `jsonl_two_writers` | no faults | Finding: the file lock does not make two writers safe. |
| `lock_stale_race` | no slow holder | Finding: two waiters that find the same stale file can both end up with the lock. |
| `agent_late_events` | 1 run | Finding: events after `agent_end`. |
| `agent_aborted_batch` | 1 run | Finding: steering behind calls nobody finished. |
| `summary_lost` | as `records` | Finding: a later compaction may drop the summary before it. |
| `shell_pipes_held` | as `tools`, wait mode `closed` | Finding: with Python 3.11 a grandchild keeps `exec` waiting. |

Some properties join what belongs together: `ReferencesResolve` is
`ParentsPrecedeChildren` with `ReferencesFound`; `JournalRestoresState` includes
`IndexesAgree`; `ForksKeepTheirSource` is `ForksReplay`, `TreeForkKeepsTree`,
`BranchForkIsOneChain` and `DefaultForkKeepsMainBranch`. `HistoryImmutable` is about
calls: the step to a fork replaces the session.

Bounds, and why they are enough:

* `MaxOpens` (loads), `MaxRuns`, `MaxResets`, `MaxAsking` (how many of the first
  answers may ask for tools), `MaxCalls`: two calls per answer are the least with an
  order between them; a second run is needed for what a first one leaves behind
  (tasks, pending calls, queues).
* `MaxEntries` 6: a call with its result, two compactions of which the second builds
  on the first, and a branch left after one. The six settings keep little or much, with or
  without a budget for branch summaries, and choose the kinds of entries, so that
  excluded output, deferred placeholders, model changes and both file tools occur; in one
  of them the caller stores file lists as `compact()` returns them.
* `MaxLog` 6 of a lane reaches an answer with a tool started and its result, a
  deferred write between a call and its result, and a message queued, captured by a
  run, left by it and captured again. `MaxLog` 3 of the reads with pages of one
  makes every page boundary fall between two appends.
* `Callers` 3, `MaxClock` 1: two that race and one after a delete or a crash, in the
  same millisecond or not. The first call is one of process 1 in the first directory, as
  processes and directories are interchangeable, and the third is not cancelled, as
  nobody comes after it.
* `MaxEvents` of the bus: an event emitted by a listener of an event while a buffer is
  flushed, and a watcher started again there. More listeners, watchers and events are
  covered by `EverybodyHears`.
* Three lock threads are what the race on a stale file needs; three file calls are one
  at work, one in line, and one that arrives when the first leaves.
* Four bytes of output, read two at a time and cut at one line of two bytes: the first
  is dropped by the sanitizer, the third is a newline; the buffer is trimmed before and
  after the file is made.
* Two proxy events: one that builds a block and one that ends or breaks it.
* `WaiterReclaims` is stated for one thread of three; they are interchangeable.

Deadlock is not checked where systems may stop when their callers do or a bound is
reached, which is all but `lock_stale_race`.

## 5. Fairness

* JSONL storage: per call, the event loop resumes a task whose thread is done, and a
  thread runs; a wait for the file lock is bounded by its timeout.
* Lock: a thread in `acquire` goes on and its deadline comes, and a file gets old: what
  polling with `time.sleep` gives.
* Agent: the provider answers, tools and hooks return, and the event loop runs what is
  ready: the run, and each tool task.
* File tools: some task that is ready runs, and some thread. One condition for all
  tasks is enough, since there are finitely many steps to take.
* Shell: the event loop runs what is ready, time passes, and a killed process exits;
  a process that is not killed, or a descendant, may run for ever. One condition again,
  as everything else is bounded.
* `EveryCommandEnds` therefore asks for an exit, an abort or a timeout, and no descendant
  left; `ExitSettles` does not ask for the latter and is what fails.
* Proxy, repository, bus, reads: none; their properties are invariants. A task of the
  proxy that has stopped has ended its stream, which is the part of liveness that code
  can get wrong.

Callers, crashes, failures, aborts, appends and cancellations are never fair.

## 6. The proofs

Each theorem holds for every value of the constants that the assumptions named here
allow. The argument is the same everywhere: an invariant that is inductive, found by
strengthening what is wanted until every step keeps it; most were checked by TLC
first. Steps that several proofs need are lemmas, and an action that touches much
state is described once, field by field, by a named predicate (`Steady`, `Moves`,
`Flow`, `Tells`, ...) that the proofs use in place of its definition.

| Module | Theorems (properties of section 4 they state) | Assumptions |
|---|---|---|
| `SessionStorage_proofs` | `TypeCorrect`, `WrittenImpliesApplied` (`EveryLineApplied`), `ForestInvariant`, `ReferencesInvariant` (`ReferencesResolve`), `IdsInvariant` (`IdsPartitioned`), `OpenOperationInvariant` (`OneOpenOperationPerLane`), `HistoryInvariant` (`HistoryImmutable`), `ReloadInvariant` (`JournalRestoresState`), `ForksAreFaithful` (`ForksKeepTheirSource`), all of a session that may be forked, and go on as its fork, at any time | `NamesAssumption`: the lane that always exists is one of the lanes, `None` and the like are not names of anything |
| `Harness_proofs` | `LockTypes`, `LockExclusion` (`ExclusionUntilStale`, and ownership until a lock file gets stale), `ResultsAreFinal` (`ResultIsFinal`), `OutputsComplete` (`OutputComplete`), `AbortsEndStreams` (`AbortEndsStream`), `EverybodyHears` (`SubscribersHearAll`) | lock: `LockAssumption`, `Nobody` is no thread, `NoFile` no file; event bus: `BusAssumption`, a listener is not a watch handle; `OutputsComplete`: `ShellAssumption`, the limits are numbers and a buffer holds more than one byte; the other two: none |
| `JsonlStorage_proofs` | `StorageSound`, `StateMatches` (`StateMatchesFile`), `SoleWriterLoads`, `FileIsDurableLog` (`KeepsDurableLog`) | `JsonlAssumption`: the states of the lock are no calls; the last theorem also `RenameSyncs` |
| `SessionRepo_proofs` | `OneSession` (`OneSessionPerDestination`), `ForksWhole` (`ForksAppearWhole`); of `SessionReads`, `SearchesAreComplete` (`SearchFindsEachOnce`), `PagesAreComplete` (`PagesCoverOnce`) | the first two none; `ReadsAssumption`: `None` is no number and no type, a page holds at least one entry, a search names finitely many types, and who pages through records or the log starts at the oldest |
| `AgentLoop_proofs` | `RunsAreSound`, `GatesComeFirst` (`GatesBeforeTools`), `StateIsTrue` (`StateMatchesRun`), `AgentTypes` | `AgentAssumption`: steering messages, follow-ups and prompts are different messages; `LoopAssumption` |
| `AgentTranscript_proofs` | `OneConversation` (`AccountsAgree`), `EveryCallAnswered` (`CallsAnswered`), `InputStaysInOrder` (`InputInOrder`), `ListenersHearTheProtocol` (`EventProtocol`) | the same; the last two, that no run fails or is cancelled |
| `FileTools_proofs` | `QueueIsSound`, `MutationsExclude` (`OneMutationPerFile`), `PathsForgotten` (`EntriesFreed`), `ChangesSurvive` (`NothingLost`) | `FilesAssumption`: `None` and `"base"` are no calls; requests name tools and paths |
| `Filters_proofs` | lemmas only: induction, the existence of iterations, what filters keep | none |

**Session storage.** The invariant is `TypeOK` with `WellFormed`, the conjunction of
the parts; the parts need each other: that a record's id is new rests on ids being
partitioned, that a new seq is nobody else's on the counter being ahead of all, that an entry's parent exists on lane leaves naming entries, and that a
line written is applied on all of them. Each part has a lemma per kind of mutation.
`NextCommits` says that every action commits a line that can be applied; the
invariant, and that nothing recorded changes (`ApplyKeeps`), follow from it. The
theorems are about `ForkSpec`, in which a session may go on as its fork, so the
invariant `FInv` adds that a load of the journal gives back the state.

`Replay` is a recursive function over the prefixes of a journal, and `ReplayAppend` unfolds
its last step: a journal longer by a line that the state accepts replays to the state that
line makes. By induction along any journal, of a session or of a fork, a load that meets no
error has a well-formed state, as many sequence numbers as lines, and the indexes a reading
of the journal gives (`ReplayMade`); what it had before a line it has after it
(`ReplayKeeps`). The indexes have their own argument (`IndexesStep`): for the leaf of a lane, its open
operation, a label or the name, the last line that set it is either the new one or the one
it was before (`LastOfNew`, `LastOfIn`), and `Apply` does the same to the index.

`ForksAreFaithful` follows a fork from its source to its load. What is copied is a part of
the tree with its parents, in the order of appending (`CopiedSound`): `OldestFirst` leaves
out no entry, and a path, defined by recursion from the roots down, is a chain of parents
(`PathIsBranch`). The lanes point into it, once each (`LanesSound`). The four kinds of
lines then fill the new session in turn (`FillEntry`, `FillLane`, `FillName`, `FillLabel`,
`LinesFill`): each can be applied because its parent, its leaf or its target has come
before. What they leave `Mirrors` the source, from which the properties of both scopes
follow, and, as a load has a well-formed state, everything else that is said of a session.

**Data.** The library's induction theorems take an operator, which the provers cannot
instantiate. `Filters_proofs` states them of a set in its place (`NatSetInduction`,
`BoundedInduction`, `SeqSetInduction`: a set that holds the first and with each the
next holds all), and proves from them that an iteration over 1..n exists and is unique
(`IterationExists`, `IterationUnique`). With these, what a recursive function over prefixes
computes can be proved: `Within` and `Without`, the filters the models use, and `Replay`.
A `Forest` is a set whose members have a parent of lower rank or none: `ForestInduction`
and `ForestRecursion` do the same for what is defined from the roots down, as paths are.

**Lock file.** Exclusion is not inductive: two holders are excluded because each owns
the one file, and nobody unlinks a file that is not stale, so the invariant says that
before anything aged no file is old and no thread is on its way to unlink.

**JSONL storage.** `Sound` is what holds of a file nobody disturbed (section 3), and
`StorageInv` is `~disturbed => Sound`: as `disturbed` never goes back, a step needs
`Sound` only where it holds. Its parts: one storage is in use (`OneInUse`); a call past
its enqueueing is at the head of the queue of an open storage (`HoldsLock`); the
number and the file its thread works with are still the right ones (`UpToDate`); the
lines are in sequence, with at most the next one unterminated (`FileSound`); the file
is ahead of the applied operations by exactly the call that is writing (`InStep`); a
load has seen the file as it is (`LoadsCurrent`). `StateMatchesFile` is `InStep` at rest.
`FileIsDurableLog` is the refinement of `DurableLog` step by step: what a load would
restore is unchanged, longer by one, or cut to no less than what was acknowledged,
because an acknowledged line is covered by an fsync (`AckedSynced`). `RenameSyncs` is
needed for one step, a power failure after a repair, and the property is false
without it (section 7).

**Repository.** `OneSession` takes that a call somebody waits for has its destination
claimed (`Claimed`), that there is one such call for a destination (`OneHolder`), and
that, for destinations not noted as `doubled`, nobody else in flight is at work on it
(`Alone`) and what its process has on disk for it can only be its own file (`OnlyOwn`).
A call that begins finds neither claim nor file, and notes the threads of cancelled
calls it finds (`BeginPreserves`); every other step, cancelling included, carries the
calls (`Carry`) and keeps files or writes to the one path of a call (`FilesKept`,
`FileMade`). That a call somebody waits for gives its claim back only with the file
written is what makes it work. `ForksWhole` takes that two
calls in flight for one path were noted as `raced`, which the property excludes (two
processes in one millisecond, section 7; `PathsApart`), and that what is about to be
renamed was filled by the call that renames it (`StagedWhole`): a cancelled fork never
renames unless its thread was renaming already.

**Queries and search.** What a query shows is a sequence that is strictly in its order (a
`Chain`, of places of a log), and two chains of one order with the same elements are equal
(`ChainUnique`): so what a query shows is settled by which places it shows. Its limit takes a
beginning (`QueryTakes`), so that all it leaves out comes after its last item. The walk
to the root is a chain because parents precede their children (`WalkExists`, `WalkSound`),
and looks at nothing beyond its start (`WalkSame`). An append only adds places
after all others, so of what was there when a reader began the same is shown as then
(`ShownStays`). `Covers` is the invariant of the reader: of what was there it has seen some, in
order, and the rest lies beyond its cursor, which is what the next page takes up. The
search owes its caller the hits that were there when it came to a session (`Due`): `AtHand` says
that each has been handed out, is on the page, or comes after it and then the page is full,
and `Behind` that nothing is owed in the sessions it has been through.
`ReadsAssumption` excludes paging backwards through records, whose cursor is a
lower bound in either order (`state.py:376-391`): the second page would be the first again.

**Agent.** `LoopInv` says where the locals of a run can be at each await: how many calls
of the batch have been prepared, run and reported, and when a batch exists at all.
`TasksInv` says whose a tool task is: one of the calls the run waits for, or one that
outlived its run and is then no call of the answer in hand. With both,
`StateMatchesRun` is inductive: the pending calls of the agent are those between
their start and their end, although tasks of an earlier run end whenever they like.
Over them, `Accounts` relates context, transcript and new messages at every await
(prompts are in the context before they are announced, the answer from its first
part on, results only when all are there) and `Transcript` says where the answer in
hand stands and that every earlier answer of the run has its results. All this is
proved with failures, cancellations, aborts and resets at any await.

`InputStaysInOrder` and `ListenersHearTheProtocol` assume `~Failures` and `~Cancels`,
as a run that fails drops the messages it has taken from the queues and reports its
failure wherever it is (section 7). `Line` says that the steering messages in the
transcript, in the run's hands and in the queue are, in this order, those that were
steered, and `Paced` that in one-at-a-time mode no second message of a kind comes before an
answer to the first. `Telling` says where the listener's account stands at each await;
`Tells` then gives each step of the run as a step of `AgentEvents` or a stutter.

**File tools.** `KeysAgree`: an entry is named by the call that made it, and holds the
key of all who share it. `LinesHold`: the entry of a key is kept for everybody in its
line, each there once, and the one at work is its head. `CountsHold`: whoever is in a
line is counted, and whoever is counted without being in it was cancelled there. So
an entry is dropped only with nobody behind it, which is the whole argument for
`MutationsExclude`. `WritesHold`, of calls that nothing `Disturbed`, adds what each has
read: an edit that is about to write has read the text as it still is, because it
alone is at work; while its thread has the file truncated, nothing is lost as long as
what it has read holds what was reported before.

**Shell.** Whoever kills the shell leaves a mark, the timer that fired or the signal
that is set, and no mark is ever taken back (`KillsMarked`). `exec` reads both when it
settles, whichever of the exit, the timeout and the abort came first, and the tool's
outcome is no better than that of `exec`.

`OutputsComplete` rests on `CaptureInv`: while nothing failed, the spill file and the steps
of the chain that are still to run are consecutive parts of the output (`Parts`), so that
running a step moves a boundary and a chunk read extends the last part; a file that is
not asked for means that nothing was dropped from the buffer; and the buffer, which is cut to
twice what is shown, still holds all that will be shown (`TrimmedGrows`, `TailWhole`).

**Proxy.** A task that is done has ended its stream: that and the types make
`AbortEndsStream` inductive. The except clause, the cancelled task and the end of the
response each look at the signal themselves; `FailHolds` is what they share.

**Event bus.** Two listeners may be in the middle of emitting, starting and raising
inside one another, so the invariant is about the whole stack. `FramesHold`: each
delivery has an event of its own, which counts as outer to every event emitted since.
`SetsHold`: a listener that has not left is in the set it joined. `Hears` is said of each
subscriber. It will be told from `Lists`: its buffer, and what each flush of it under way
still holds, an inner flush before an outer one. What it has heard is in order with each
of them, inner with outer, and what any but the innermost holds has been noted as
`overtaken` (`Good`); none of it is also on its way (`Coming`), and nothing since it
subscribed is in none of these and not lost (`Complete`). Lemmas say how lists stay good
when they are added to, told from, shortened or noted; each action is then a change of
the lists, of what is coming, or of both.

**Only model-checked.** Liveness under fairness, as everywhere with these provers.
`RestartRestores`, `LateRecordsRefused`, the conversations and the codec: each rests on what several recursive walks, sorts, folds or tables compute
together, for which no induction over sets as above has been carried out.

## 7. What does not hold

Six disagreements between code and documentation have runs and are listed under
`findings`. Others were met while modelling. The properties exclude them, by a
history variable or an explicit condition, so a reader should know them.

Storage and repository:

* A cancelled call's thread goes on; the next call takes the same number and
  writes too (`storage.py:315`).
* A cancelled create or fork gives its claim back while its thread may still create or
  rename the file (`repo.py:173-177`, `storage.py:125-131`, `102-108`). A second call of
  the process that looks before the file is there finds the id free, and the process ends
  with two sessions of one id, which `repo.py:161` says the claim prevents. A cancelled
  fork also leaves its `.tmp` file behind (`except Exception`, `storage.py:109`).
* After a failed write the next append is glued to the fragment, acknowledged,
  and dropped by the next load (`storage.py:322-326`).
* A load that meets another process's append in progress publishes a copy without
  it, and without the lock (`storage.py:75-91`, `163-173`).
* Without `RenameSyncs` a power failure after a repair loses acknowledged lines.
* `acquire` looks at its deadline only after it saw a fresh lock: when the file is
  gone by the time of the stat it tries again at once (`lockfile.py:63-66`).
* An id is looked for by the end of file names, so `b` is taken where `a_b` exists;
  a crash while the header is written leaves a file no load accepts that keeps its id
  taken; two processes may create the same id, and two in one millisecond the same
  file; an append through a handle after a delete makes a file without a header.
* A retained tail may hold messages that the codec has no encoding for.

Compaction:

* A branch summary reads an earlier compaction's summary but not the messages that
  compaction kept, nor its file lists.
* A placeholder of a message yet to be fetched is left out as an entry but shown when
  it is in a retained tail.
* File lists are carried on only if the caller has stored the `CompactionDetails` that
  `compact()` returns as a dict (`compaction.py:71`, `712`).
* The estimate of context tokens after a compaction may rest on the usage of an answer
  from before it.

Agent and tools:

* A polled steering message is in no queue until its `message_end`; a listener
  that raises in between loses it (`agent_loop.py:197-214`).
* A caller cancelled in line for a path's lock has been counted and is never
  uncounted: the entry stays (`file_mutation_queue.py:60-62`). One cancelled while
  its thread writes releases the lock under the thread.
* Through a link that leads to nothing the key of a path is the link, and a write
  through it may meet one through the file's name, which
  `file_mutation_queue.py:7-8` means to exclude.
* A message deferred into the tree with the role of an assistant and tool calls
  would be taken for the current tool batch (`reducer.py:438-446` does not look at
  `deferred_write_ids` there); the writer of `LaneLog` defers no such message.

Event bus:

* A watcher that its listener starts again while it is flushed hears of later events
  before the rest of the outer flush (`events.py:114-123`): with two events buffered and a
  third emitted while the first is handled, of 1, 3, 2. The comment at 115 that
  "reentrant emissions preserve order" holds of emissions only.
* An unsubscribe called a second time may take down a set that another listener has
  joined meanwhile; an exception of a listener loses the rest of a flush; an event
  emitted by a listener reaches later listeners before the one it was emitted in.

Shell and proxy:

* A timeout that comes in the 100 ms in which the readers of an exited command are
  waited for reports it as timed out; a descendant that writes without a pause keeps `exec` waiting past
  timeout and abort; where `wait` returns at exit, output written just before the exit
  of a command that was quiet longer than the idle time may be lost; characters split
  at the end of a read of 8192 bytes are replaced.
* An abort or a broken connection after the last event still changes `stop_reason` of
  the message already delivered; a server that closes without a last event ends the
  stream without a result.

## 8. Not modelled

* `AgentHarness` (`agent_harness.py`): every operation raises `HarnessNotImplemented`.
* Telemetry: span and attribute schemas; nothing is read back.
* Skills, prompt templates, system prompt: file discovery and text in one pass.
* `edit_diff.py`, the read tool, paths, images: matching and diffs of strings around
  single environment calls, whose results depend on characters.
* Result wrappers, type declarations, `stream_fn.py`.
* Partly modelled: the session facade (accessors that hand calls on, the check of a
  payload for JSON), compaction (retries, token estimates that decide when, prompts),
  the agent loop (`prepare_next_turn`, updates, `EventStream` wrappers), the lane reducer
  (configuration, usage, flags of a tool batch), the local environment (file operations
  that are one system call each). The reasons are in `PROJECT.json`.
