--------------------------- MODULE SessionStorage ---------------------------
(***************************************************************************)
(* One session storage (InMemorySessionStorage, and JsonlSessionStorage    *)
(* when nothing fails): each mutator validates its arguments against the   *)
(* derived state, builds a mutation, writes it to the journal and applies  *)
(* it. The journal comes first in the JSONL backend, so a mutation that    *)
(* apply_mutation then refuses stays behind as a line no load survives.    *)
(* A mutator whose validation fails raises and changes nothing: it is the  *)
(* absence of a step.                                                      *)
(***************************************************************************)
EXTENDS SessionMutations

CONSTANT MaxSequence   \* bound on the mutations of a session

ASSUME MaxSequenceAssumption == MaxSequence \in Nat

VARIABLES
  st,        \* the derived SessionState
  journal    \* the mutations written so far, oldest first

vars == <<st, journal>>

NextSequence == st.sequence + 1

\* Write the mutation, then apply it if apply_mutation accepts it.
Commit(m) ==
  /\ Len(journal) < MaxSequence
  /\ journal' = Append(journal, m)
  /\ st' = IF CanApply(st, m) THEN Apply(st, m) ELSE st

RequireLane(lane)    == HasLane(st, lane)
ValidateNewLane(lane) == ~HasLane(st, lane)
ValidateTarget(id)   == id # None => HasEntry(st, id)
ValidateUnusedId(id) == id \notin st.usedIds

-----------------------------------------------------------------------------
CreateLane(lane, at) ==
  /\ ValidateNewLane(lane)
  /\ ValidateTarget(at)
  /\ Commit(LaneMutation(NextSequence, lane, at))

MoveLane(lane, to) ==
  /\ RequireLane(lane)
  /\ ValidateTarget(to)
  /\ Commit(LaneMutation(NextSequence, lane, to))

\* Mistake: the id is not checked before the line is written.
AppendEntryUnchecked(id, type, lane) ==
  /\ RequireLane(lane)
  /\ Commit(EntryMutation(NextSequence, id, st.lanes[lane], type, lane))

\* The parent is the leaf the lane has when the entry is appended.
AppendEntry(id, type, lane) ==
  /\ RequireLane(lane)
  /\ ValidateUnusedId(id)
  /\ Commit(EntryMutation(NextSequence, id, st.lanes[lane], type, lane))

\* Mistake: a second operation may start in a lane.
AppendRecordUnchecked(id, type, lane, runId) ==
  /\ RequireLane(lane)
  /\ ValidateUnusedId(id)
  /\ Commit(RecordMutation(NextSequence, id, type, lane, runId))

\* An operation may start only in a lane with no open operation.
AppendRecord(id, type, lane, runId) ==
  /\ RequireLane(lane)
  /\ ValidateUnusedId(id)
  /\ type = "operation_started" => st.openOps[lane] = {}
  /\ Commit(RecordMutation(NextSequence, id, type, lane, runId))

SetName(name) == Commit(NameMutation(NextSequence, name))

SetLabel(id, label) ==
  /\ ValidateTarget(id)
  /\ Commit(LabelMutation(NextSequence, id, label))

-----------------------------------------------------------------------------
Init ==
  /\ st = EmptyState
  /\ journal = <<>>

Next ==
  \/ \E lane \in Lanes, at \in Ids \cup {None} : CreateLane(lane, at)
  \/ \E lane \in Lanes, to \in Ids \cup {None} : MoveLane(lane, to)
  \/ \E id \in Ids, type \in EntryTypes, lane \in Lanes : AppendEntry(id, type, lane)
  \/ \E id \in Ids, lane \in Lanes : AppendRecord(id, "operation_started", lane, None)
  \/ \E id, runId \in Ids, lane \in Lanes :
       AppendRecord(id, "operation_finished", lane, runId)
  \/ \E id \in Ids, lane \in Lanes : AppendRecord(id, "usage", lane, None)
  \/ \E name \in Names \cup {None} : SetName(name)
  \/ \E id \in Ids, label \in Labels \cup {None} : SetLabel(id, label)

Spec == Init /\ [][Next]_vars

-----------------------------------------------------------------------------
(* The shape of the state and of the journal.                              *)
TypeOK ==
  /\ st \in State
  /\ journal \in Seq(Mutations)

(* Every mutation the mutators let through is one apply_mutation accepts:  *)
(* the checks before the write imply the checks after it, so no line is    *)
(* ever written that the state does not reflect.                           *)
EveryLineApplied == Len(journal) = st.sequence

(* The entries form a forest: a parent exists and was appended before its  *)
(* child, so the walk from any entry to its root (_walk_to_root) ends and  *)
(* never meets a missing parent or a cycle.                                *)
ParentsPrecedeChildren == ParentsFirst(st)

(* Nothing refers to an entry that does not exist, or that came later:     *)
(* lane leaves, labels and parents always name an entry of the tree.       *)
ReferencesResolve == ParentsPrecedeChildren /\ ReferencesFound(st)

(* Entries and records never share an id, and no two of them a seq, nor has*)
(* any of them one the counter has not reached: the used ids are exactly   *)
(* theirs.                                                                 *)
IdsPartitioned == IdsSplit(st)

(* At most one operation is open per lane, and an open operation is a      *)
(* started record of that lane: the durable log the reducer reads can tell *)
(* which operation a lane is in.                                           *)
OneOpenOperationPerLane ==
  /\ \A lane \in Lanes : \A a, b \in st.openOps[lane] : a = b
  /\ OpenAreStarted(st)

(* Readings of a whole journal: where a lane stands, which operations of   *)
(* it are open, what an entry is labelled.                                 *)
LastOf(S) == IF S = {} THEN 0 ELSE CHOOSE i \in S : \A j \in S : j <= i

LeafByJournal(ms, lane) ==
  LET i == LastOf({j \in 1..Len(ms) : ms[j].kind \in {"entry", "lane"} /\ ms[j].lane = lane})
  IN CASE i = 0 -> IF lane = Main THEN None ELSE Missing
       [] i > 0 -> IF ms[i].kind = "entry" THEN ms[i].id ELSE ms[i].leaf

OpenByJournal(ms, lane) ==
  {ms[i].id : i \in {j \in 1..Len(ms) :
     /\ ms[j].kind = "record" /\ ms[j].type = "operation_started" /\ ms[j].lane = lane
     /\ \A k \in (j + 1)..Len(ms) :
          ms[k].kind = "record" /\ ms[k].type = "operation_finished"
            /\ ms[k].lane = lane => ms[k].runId # ms[j].id}}

LabelByJournal(ms, id) ==
  LET i == LastOf({j \in 1..Len(ms) : ms[j].kind = "label" /\ ms[j].target = id})
  IN IF i = 0 \/ (i > 0 /\ ms[i].label = None) THEN Missing ELSE ms[i].label

(* The incrementally maintained indexes agree with a reading of the whole  *)
(* journal: a lane stands where the last mutation that moved it put it, an *)
(* operation is open iff no later record of its own lane finished it, a    *)
(* label is the last one set, and the message count counts messages.       *)
IndexesAgree(s, ms) ==
  /\ \A lane \in Lanes : s.lanes[lane] = LeafByJournal(ms, lane)
                         /\ s.openOps[lane] = OpenByJournal(ms, lane)
  /\ \A id \in Ids : s.labels[id] = LabelByJournal(ms, id)
  /\ s.messages = Cardinality({i \in 1..Len(ms) :
                    ms[i].kind = "entry" /\ ms[i].type = "message"})

(* Reloading the session gives back the state: the journal replays without *)
(* an error and to exactly the state in memory, which in turn is what a    *)
(* reading of the journal, mutation by mutation, says it should be.        *)
JournalRestoresState ==
  /\ Replay(journal) = [ok |-> TRUE, state |-> st]
  /\ IndexesAgree(st, journal)

(* History is immutable: no step that goes on with the journal changes or  *)
(* removes an entry or a record, or removes a lane.                        *)
HistoryImmutable ==
  [][IsPrefix(journal, journal') =>
     /\ \A id \in Ids : st.entries[id] # Missing => st'.entries[id] = st.entries[id]
     /\ \A id \in Ids : st.records[id] # Missing => st'.records[id] = st.records[id]
     /\ \A lane \in Lanes : HasLane(st, lane) => st'.lanes[lane] # Missing]_vars
=============================================================================
