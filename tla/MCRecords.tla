------------------------------ MODULE MCRecords ------------------------------
(***************************************************************************)
(* What is made of a session's records: the history a lane's model reads,  *)
(* the lane a restart reads back, queries and searches, the repository of  *)
(* sessions, the lines of their files, and the event bus. They share no    *)
(* state, so a behaviour exercises one of them, chosen at the start, and   *)
(* the others keep their first state.                                      *)
(***************************************************************************)
EXTENDS SessionRepo, JsonlCodec, EventBus, SessionReads

VARIABLES
  part,                                               \* the component
  tree, leaf, settings,                               \* SessionHistory
  log, lane                                           \* LaneLog

History == INSTANCE MCSessionHistory WITH Settings <- {}, MaxEntries <- 6

Lanes == INSTANCE LaneLog WITH MaxLog <- 6, MaxRuns <- 2, MaxCalls <- 2

(* Entries on one branch and beside it, a label and a record.              *)
ReadItems ==
  [kind : {"entry"}, type : {"message"}, parent : {None, 1}, hit : {TRUE}]
    \cup [kind : {"entry"}, type : {"custom"}, parent : {1, 2}, hit : {FALSE}]
    \cup [kind : {"label"}, target : {2}, set : BOOLEAN]
    \cup [kind : {"record"}, type : {"usage"}]

ReadSearches ==
  [sessions : {<<"one", "two">>, <<"one", "one">>},
   types : {None, {}, {"message"}, {"message", "compaction"}}, limit : {None, 1}]
    \cup [sessions : {<<>>}, types : {{}}, limit : {None}]

Queries(what, types, orders, limits, stops) ==
  [what : what, type : types, order : orders, limit : limits,
   cursor : {None}, start : {None}, stop : stops]

ReadPagers ==
  Queries({"entries"}, {None, "custom"}, {"oldestFirst", "newestFirst"}, {0, 1, 2}, {None})
    \cup Queries({"branch"}, {None, "custom"}, {"oldestFirst", "newestFirst"}, {1}, {None, "custom"})
    \cup Queries({"records", "log"}, {None}, {"oldestFirst"}, {1}, {None})

-----------------------------------------------------------------------------
historyVars == <<tree, leaf, settings>>
laneVars == <<log, lane>>
recordsVars == <<part, historyVars, laneVars, readVars, repoVars, line, busVars>>

\* An empty line, which nobody reads.
NoLine == [type |-> "name", value |-> Decode("name", <<>>), wire |-> <<>>, forked |-> TRUE]

Parts == {"history", "lanes", "reads", "repo", "codec", "bus", "busy"}

\* Of the first states of a component, one stands for it when another one runs.
RecordsInit ==
  /\ part \in Parts
  /\ IF part = "history" THEN History!HistoryInit(History!MCSettings)
     ELSE tree = <<>> /\ leaf = 0 /\ settings = None
  /\ Lanes!Init
  /\ ReadInit
  /\ part # "reads" =>
       search.sessions = <<>> /\ pager.query = CHOOSE q \in Pagers : TRUE
  /\ RepoInit
  /\ IF part = "codec" THEN CodecInit ELSE line = NoLine
  /\ BusInit

Grows   == part = "history" /\ History!HistoryNext /\ UNCHANGED <<part, laneVars, readVars, repoVars, line, busVars>>
Logs    == part = "lanes" /\ Lanes!Next /\ UNCHANGED <<part, historyVars, readVars, repoVars, line, busVars>>
IsRead  == part = "reads" /\ ReadNext /\ UNCHANGED <<part, historyVars, laneVars, repoVars, line, busVars>>
\* Processes and directories are interchangeable: the first call has the first.
\* Nobody is left to mind what a cancelled last call gives back.
Makes   == /\ part = "repo" /\ RepoNext
           /\ making'[1] \notin {Idle, Over} => making'[1].process = 1 /\ making'[1].cwd = "a/b"
           /\ making'[3] \notin {Idle, Over} => ~making'[3].orphan
           /\ UNCHANGED <<part, historyVars, laneVars, readVars, line, busVars>>
Recodes == part = "codec" /\ Rewrite /\ UNCHANGED <<part, historyVars, laneVars, readVars, repoVars, busVars>>
\* Three events with a listener and a watcher, two with one more listener.
Tells   == /\ BusNext
           /\ \/ part = "bus" /\ direct'.of[2] = 0
              \/ part = "busy" /\ Len(outer') <= 2
           /\ UNCHANGED <<part, historyVars, laneVars, readVars, repoVars, line>>

RecordsSpec == RecordsInit /\ [][Grows \/ Logs \/ IsRead \/ Makes \/ Recodes \/ Tells]_recordsVars

-----------------------------------------------------------------------------
(* The properties of the components; those of SessionRepo (checked with two*)
(* processes and three calls for one id, in two directories whose names are*)
(* mapped to the same one), JsonlCodec, EventBus and SessionReads keep     *)
(* their names.                                                            *)

\* The context of a lane tells of every message on its path, but for what a
\* compaction without prior history drops.
NothingForgotten == part = "history" => History!NothingForgotten

\* The context shows messages in order, none twice, none that its summary tells.
ContextInOrder == part = "history" => History!ContextInOrder

\* No cut comes between a tool call and its results.
ResultsFollowCalls == part = "history" => History!ResultsFollowCalls

\* A branch that is left is told of, the newest part first.
BranchesRemembered == part = "history" => History!BranchesRemembered

\* Summaries list the files of all that they tell of.
FilesReported == part = "history" => History!FilesReported

\* Wherever the writer of a lane dies, a restart accepts its log and gives back
\* the lane it had in memory.
RestartRestores == part = "lanes" => Lanes!RestartRestores

\* Records of a finished operation are refused when they come late or twice.
LateRecordsRefused == part = "lanes" => Lanes!LateRecordsRefused
=============================================================================
