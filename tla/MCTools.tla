------------------------------- MODULE MCTools -------------------------------
(***************************************************************************)
(* What runs beside the session: the lock file, the file tools, the shell  *)
(* tool and the proxy stream. They share no state, so a behaviour          *)
(* exercises one of them, chosen at the start, and the others keep their   *)
(* first state. The output of the command is four bytes, the first of them *)
(* unprintable, the third a newline, read two at a time and cut at one     *)
(* line of two bytes; the stream has two events and two blocks.            *)
(***************************************************************************)
EXTENDS FileLock, FileTools, ShellCommand, ProxyStream

CONSTANTS t1, c1, c2, c3

VARIABLE part   \* the component

(* Three calls of the file tools on one file, Calls: one at work, one      *)
(* behind it, one that arrives.                                            *)
AnyRequests == [Calls -> Tools \X Paths]

\* The calls are interchangeable: one assignment of each multiset of requests
\* that holds an edit and uses both paths.
Rank(asked) ==
  (IF asked[1] = "write" THEN 0 ELSE 1) + (IF asked[2] = "file" THEN 0 ELSE 2)

ThreeRequests ==
  {asked \in AnyRequests :
     /\ Rank(asked[c1]) <= Rank(asked[c2])
     /\ Rank(asked[c2]) <= Rank(asked[c3])
     /\ \E c \in Calls : asked[c][1] = "edit"
     /\ {asked[c][2] : c \in Calls} = Paths}

-----------------------------------------------------------------------------
toolsVars == <<part, vars, filesVars, shellVars, proxyVars>>

\* Of the first states of a component, one stands for it when another one runs.
ToolsInit ==
  /\ part \in {"lock", "files", "shell", "proxy"}
  /\ Init
  /\ FilesInit
  /\ part # "files" => ~exists /\ call[c2].path = "file" /\ \A c \in Calls : call[c].tool = "edit"
  /\ ShellInit
  /\ part # "shell" => shell.wait = "exit" /\ timer = "none" /\ ~child /\ ~signal
  /\ ProxyInit

LockRuns  == part = "lock" /\ Next /\ UNCHANGED <<part, filesVars, shellVars, proxyVars>>
FilesRun  == part = "files" /\ FilesNext /\ UNCHANGED <<part, vars, shellVars, proxyVars>>
ShellRuns == part = "shell" /\ ShellNext /\ UNCHANGED <<part, vars, filesVars, proxyVars>>
ProxyRuns == part = "proxy" /\ ProxyNext /\ UNCHANGED <<part, vars, filesVars, shellVars>>

ToolsNext == LockRuns \/ FilesRun \/ ShellRuns \/ ProxyRuns

(* The fairness of each component, while it is the one that runs.          *)
Fair(name, step) == part = name /\ step

ToolsFairness ==
  /\ \A p \in Procs : /\ WF_vars(Fair("lock", Step(p)))
                      /\ WF_vars(Fair("lock", Expire(p)))
  /\ WF_vars(Fair("lock", Age))
  /\ WF_filesVars(Fair("files", SomeTask)) /\ WF_filesVars(Fair("files", SomeThread))
  /\ WF_shellVars(Fair("shell", Progress))

ToolsSpec == ToolsInit /\ [][ToolsNext]_toolsVars /\ ToolsFairness

-----------------------------------------------------------------------------
(* The properties of the components keep their names, but for the temporal*)
(* ones, which ask for the component to be the one that runs.              *)

\* A waiter outlasts no abandoned lock file: t1 stands for every thread, which
\* are interchangeable.
WaiterReclaims == Reclaims(t1)

\* Every call of a file tool ends.
EveryCallEnds == part = "files" => CallsEnd

\* A command that exits or is killed ends its call once no descendant holds the pipes.
EveryCommandEnds == part = "shell" => CommandEnds
==============================================================================
