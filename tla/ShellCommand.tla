---------------------------- MODULE ShellCommand ----------------------------
(***************************************************************************)
(* One call of the bash tool: the shell process and what it leaves behind, *)
(* LocalExecutionEnv.exec with its two pipe readers and its watchers,      *)
(* execute_shell_with_capture with its chain of writes to the spill file,  *)
(* and the throttled updates of the tool. The bytes of the output are the  *)
(* numbers from 1 in the order they are written, so that a lost, doubled   *)
(* or misplaced byte shows.                                                *)
(***************************************************************************)
EXTENDS Naturals, FiniteSets, SequencesExt, Filters

CONSTANTS
  MaxOutput,    \* bound on the bytes the process and its descendants write
  Newlines,     \* the bytes that are newlines
  Controls,     \* the bytes sanitize_binary_output drops
  MaxLines,     \* DEFAULT_MAX_LINES
  MaxBytes,     \* DEFAULT_MAX_BYTES
  ReadSize,     \* what one read of a pipe returns at most
  WaitModes,    \* what process.wait() waits for: "exit" or "closed" pipes too
  Faults        \* whether the file system and on_update may fail

ASSUME ShellAssumption ==
  MaxLines \in Nat /\ ReadSize \in Nat /\ MaxBytes \in Nat /\ MaxBytes > 1

VARIABLES
  shell,      \* the process: its state, whether it was killed, its wait mode
  child,      \* whether a descendant in a session of its own holds the pipes
  written,    \* bytes written so far
  pipe,       \* bytes in each pipe, not yet read
  reader,     \* the two tasks that read the pipes
  timer,      \* the timeout: "none", "armed" or "fired"
  signal,     \* the abort signal
  received,   \* the text on_chunk has accepted, all of it
  tail,       \* tail_output
  spill,      \* the spill file: requested, created, what it holds
  chain,      \* the steps of the write chain that have not run, and its error
  broken,     \* capture_error
  result,     \* where the call is, and how exec and the tool ended
  update      \* the throttle: dirty, a timer, what the last update showed

shellVars == <<shell, child, written, pipe, reader, timer, signal, received,
               tail, spill, chain, broken, result, update>>
processVars == <<shell, child, written>>
captureVars == <<received, tail, spill, chain, broken>>

Streams == {"stdout", "stderr"}

-----------------------------------------------------------------------------
(* Text. *)

Printable(text) == Without(text, Controls)
LastBytes(text, n) == IF Len(text) <= n THEN text ELSE SubSeq(text, Len(text) - n + 1, Len(text))

EndsLine(text) == text # <<>> /\ Last(text) \in Newlines
Body(text)     == IF EndsLine(text) THEN Front(text) ELSE text

\* Where the lines of a text begin; a newline at the very end begins none.
LineStarts(text) ==
  IF text = <<>> THEN {}
  ELSE {1} \cup {i \in 2..Len(Body(text)) + 1 : text[i - 1] \in Newlines /\ i <= Len(text)}

OverLimit(text) == Cardinality(LineStarts(text)) > MaxLines \/ Len(text) > MaxBytes

\* As many whole lines from the end as the limits allow; the end of the last
\* line when it is too long by itself.
TruncateTail(text) ==
  LET body == Body(text)
      fits == {s \in LineStarts(text) :
                 /\ Len(body) - s + 1 <= MaxBytes
                 /\ Cardinality({t \in LineStarts(text) : t >= s}) <= MaxLines}
  IN CASE ~OverLimit(text) -> text
       [] OverLimit(text) /\ fits = {} -> LastBytes(body, MaxBytes)
       [] OTHER -> SubSeq(body, CHOOSE s \in fits : \A t \in fits : s <= t, Len(body))

\* create_progress: truncated by the totals, cut from the tail that was kept.
Truncated == OverLimit(received)
Output    == IF Truncated THEN TruncateTail(tail) ELSE tail

-----------------------------------------------------------------------------
ShellInit ==
  /\ shell \in [st : {"none"}, killed : {FALSE}, wait : WaitModes]
  /\ child \in BOOLEAN
  /\ written = 0
  /\ pipe = [s \in Streams |-> <<>>]
  /\ reader = [s \in Streams |-> "reading"]
  /\ timer \in {"none", "armed"}
  /\ signal \in BOOLEAN
  /\ received = <<>> /\ tail = <<>>
  /\ spill = [requested |-> FALSE, created |-> FALSE, text |-> <<>>]
  /\ chain = [steps |-> <<>>, failed |-> FALSE]
  /\ broken = FALSE
  /\ result = [pc |-> "start", exec |-> "none", tool |-> "none"]
  /\ update = [dirty |-> FALSE, timer |-> FALSE, shown |-> 0]

(* The process, and the descendant that outlives it. *)

Runs == shell.st = "running" /\ ~shell.killed
Held == shell.st = "running" \/ child
Returned == result.pc = "over"

Write(s) ==
  /\ shell.st # "none" /\ (Runs \/ child) /\ written < MaxOutput /\ ~Returned
  /\ written' = written + 1
  /\ pipe' = [pipe EXCEPT ![s] = Append(@, written + 1)]
  /\ UNCHANGED <<shell, child, reader, timer, signal, captureVars, result, update>>

Exit ==
  /\ shell.st = "running"
  /\ shell' = [shell EXCEPT !.st = "exited"]
  /\ UNCHANGED <<child, written, pipe, reader, timer, signal, captureVars, result, update>>

ChildEnds ==
  /\ shell.st # "none" /\ child
  /\ child' = FALSE
  /\ UNCHANGED <<shell, written, pipe, reader, timer, signal, captureVars, result, update>>

\* Mistake: only the timeout is noted.
KillNothing == UNCHANGED shell

\* killpg reaches the process group of the shell, not a session of its own.
Kill == shell' = [shell EXCEPT !.killed = @ \/ shell.st = "running"]

TimerFires ==
  /\ result.pc = "exec" /\ timer = "armed"
  /\ timer' = "fired" /\ Kill
  /\ UNCHANGED <<child, written, pipe, reader, signal, captureVars, result, update>>

AbortCommand ==
  /\ ~signal /\ ~Returned
  /\ signal' = TRUE
  /\ UNCHANGED <<processVars, pipe, reader, timer, captureVars, result, update>>

\* watch_abort
AbortSeen ==
  /\ result.pc = "exec" /\ signal /\ Runs
  /\ Kill
  /\ UNCHANGED <<child, written, pipe, reader, timer, signal, captureVars, result, update>>

-----------------------------------------------------------------------------
(* The capture. *)

\* A step put on the chain behind a failed one comes to nothing.
Chained(step) == chain' = [chain EXCEPT !.steps = IF chain.failed THEN @ ELSE Append(@, step)]

\* ensure_full_output_file
Ensure(content) ==
  IF spill.requested \/ broken THEN UNCHANGED <<spill, chain>>
  ELSE /\ spill' = [spill EXCEPT !.requested = TRUE]
       /\ Chained([op |-> "create", text |-> content])

\* Mistake: the file begins with the chunk that went over the limit.
KeepFromHere(text) ==
  IF OverLimit(received \o text) /\ ~spill.requested THEN Ensure(text)
  ELSE /\ UNCHANGED spill
       /\ IF spill.requested /\ ~broken THEN Chained([op |-> "append", text |-> text])
          ELSE UNCHANGED chain

\* The file begins with all the text so far, the later chunks are appended.
Keep(text) ==
  IF OverLimit(received \o text) /\ ~spill.requested THEN Ensure(tail \o text)
  ELSE /\ UNCHANGED spill
       /\ IF spill.requested /\ ~broken THEN Chained([op |-> "append", text |-> text])
          ELSE UNCHANGED chain

\* Twice what it shows.
Trimmed(text) == LastBytes(text, 2 * MaxBytes)

\* The throttle: an update now, or a timer. on_update may raise.
Throttled(shown) ==
  \/ /\ update' = [dirty |-> FALSE, timer |-> FALSE, shown |-> shown]
     /\ broken' \in {broken} \cup (IF Faults THEN {TRUE} ELSE {})
  \/ update' = [update EXCEPT !.dirty = TRUE, !.timer = TRUE] /\ UNCHANGED broken

\* pump, and on_chunk of the capture and of the tool under it.
Pump(s) ==
  LET n == IF Len(pipe[s]) < ReadSize THEN Len(pipe[s]) ELSE ReadSize
      text == Printable(SubSeq(pipe[s], 1, n))
  IN /\ result.pc = "exec" /\ reader[s] = "reading" /\ n > 0
     /\ pipe' = [pipe EXCEPT ![s] = SubSeq(@, n + 1, Len(@))]
     /\ received' = received \o text
     /\ Keep(text)
     /\ tail' = Trimmed(tail \o text)
     /\ Throttled(Len(received'))
     /\ UNCHANGED <<processVars, reader, timer, signal, result>>

ReadEnd(s) ==
  /\ result.pc = "exec" /\ reader[s] = "reading" /\ pipe[s] = <<>> /\ ~Held
  /\ reader' = [reader EXCEPT ![s] = "done"]
  /\ UNCHANGED <<processVars, pipe, timer, signal, captureVars, result, update>>

UpdateLater ==
  /\ update.timer
  /\ update' = [dirty |-> FALSE, timer |-> FALSE,
                shown |-> IF update.dirty THEN Len(received) ELSE update.shown]
  /\ UNCHANGED <<processVars, pipe, reader, timer, signal, captureVars, result>>

\* The first step makes the file and writes what was kept so far. After
\* capture_error nothing more is appended; a failure ends the chain.
ChainStep ==
  LET step == Head(chain.steps)
  IN /\ chain.steps # <<>>
     /\ \/ /\ spill' = CASE step.op = "create" ->
                              [spill EXCEPT !.created = TRUE]
                         [] step.op = "append" /\ broken -> spill
                         [] OTHER -> [spill EXCEPT !.text = @ \o step.text]
           /\ chain' = [chain EXCEPT !.steps =
                          IF step.op = "create"
                          THEN <<[op |-> "first", text |-> step.text]>> \o Tail(@) ELSE Tail(@)]
        \/ Faults /\ chain' = [steps |-> <<>>, failed |-> TRUE] /\ UNCHANGED spill
     /\ UNCHANGED <<processVars, pipe, reader, timer, signal, received, tail, broken, result, update>>

-----------------------------------------------------------------------------
(* exec, the capture around it and the tool around that. *)

Spawn ==
  /\ result.pc = "start"
  /\ \/ /\ signal
        /\ result' = [result EXCEPT !.pc = "flush", !.exec = "aborted"]
        /\ UNCHANGED shell
     \/ /\ ~signal /\ Faults
        /\ result' = [result EXCEPT !.pc = "flush", !.exec = "spawn_error"]
        /\ UNCHANGED shell
     \/ /\ ~signal
        /\ result' = [result EXCEPT !.pc = "exec"]
        /\ shell' = [shell EXCEPT !.st = "running"]
  /\ UNCHANGED <<child, written, pipe, reader, timer, signal, captureVars, update>>

\* process.wait() returns, in some versions of asyncio only once the pipes are
\* closed; then the readers finish, or are given up when they have been idle.
Waited ==
  /\ result.pc = "exec" /\ shell.st = "exited"
  /\ shell.wait = "closed" => \A s \in Streams : reader[s] = "done"

\* Mistake: the timeout kills and leaves no mark.
OutcomeUntimed == IF signal THEN "aborted" ELSE "ok"

Outcome == CASE timer = "fired" -> "timeout"
             [] timer # "fired" /\ signal -> "aborted"
             [] OTHER -> "ok"

ExecEnds ==
  /\ Waited
  /\ result' = [result EXCEPT !.pc = "flush", !.exec = Outcome]
  /\ IF Truncated THEN Ensure(tail) ELSE UNCHANGED <<spill, chain>>
  /\ UNCHANGED <<processVars, pipe, reader, timer, signal, received, tail, broken, update>>

ToolOutcome ==
  CASE chain.failed \/ broken -> "error"
    [] ~(chain.failed \/ broken) /\ (result.exec = "aborted" \/ signal) -> "cancelled"
    [] OTHER -> result.exec

\* The timer is cancelled; the last update shows the final output.
ToolEnds ==
  /\ result.pc = "flush" /\ chain.steps = <<>>
  /\ result' = [result EXCEPT !.pc = "over", !.tool = ToolOutcome]
  /\ update' = IF ToolOutcome = "error" THEN [update EXCEPT !.timer = FALSE]
               ELSE [dirty |-> FALSE, timer |-> FALSE, shown |-> Len(received)]
  /\ UNCHANGED <<processVars, pipe, reader, timer, signal, captureVars>>

CallStep == Spawn \/ ExecEnds \/ ChainStep \/ ToolEnds \/ UpdateLater
ReaderStep(s) == Pump(s) \/ ReadEnd(s)

ShellNext ==
  \/ CallStep \/ TimerFires \/ AbortCommand \/ AbortSeen \/ Exit \/ ChildEnds
  \/ \E s \in Streams : Write(s) \/ ReaderStep(s)

\* The event loop runs what is ready, time passes, and a process that has been
\* killed exits; another one, or a descendant, may run for ever.
KilledExits == shell.killed /\ Exit

Progress ==
  \/ CallStep \/ TimerFires \/ AbortSeen \/ KilledExits
  \/ \E s \in Streams : ReaderStep(s)

ShellSpec == ShellInit /\ [][ShellNext]_shellVars /\ WF_shellVars(Progress)

-----------------------------------------------------------------------------
(* Properties. *)

(* A truncated result names a spill file with the whole output, every byte *)
(* once and in order, whichever chunks came while the file was being made, *)
(* even those the buffer had to give up; and what the result shows is the  *)
(* end of that output: the buffer, trimmed as it grows, loses nothing that *)
(* a truncation of everything would show (shell_output.py).                *)
OutputComplete ==
  Returned /\ result.tool # "error" =>
    /\ Truncated => spill.created /\ spill.text = received
    /\ Output = IF Truncated THEN TruncateTail(received) ELSE received

(* A command that was killed is never reported as one that finished,       *)
(* whatever raced: the timeout, the abort and the exit of the process. And *)
(* when the tool has returned no update is still to come, and the last one *)
(* showed all of the output.                                               *)
ResultIsFinal ==
  Returned =>
    /\ shell.killed => result.tool # "ok"
    /\ ~update.timer
    /\ result.tool # "error" => update.shown = Len(received)

(* A call ends once its process has exited, or its timeout or its abort    *)
(* kills it, as soon as no descendant of its own session holds the pipes.  *)
Bounded == shell.st = "exited" \/ signal \/ timer # "none"

CommandEnds == Bounded /\ ~child ~> Returned

(* exec gives up on the pipes of a shell that has exited once they go      *)
(* idle, even when a descendant holds them ("Drain pipes after exit, giving *)
(* up once they go idle").                                                 *)
ExitSettles == shell.st = "exited" ~> Returned
=============================================================================
