-------------------------- MODULE SessionMutations --------------------------
(***************************************************************************)
(* The state every session backend derives from its stream of mutations    *)
(* (class SessionState), as a record, and what one mutation does to it.    *)
(* Entry and record payloads are abstracted to the fields the state        *)
(* transition reads: the id, the parent, whether an entry is a message,    *)
(* and the lifecycle role of a record.                                     *)
(***************************************************************************)
EXTENDS Naturals, Sequences, FiniteSets, SequencesExt

CONSTANTS
  Ids,      \* ids of entries and records, which share one namespace
  Lanes,    \* lane names
  Main,     \* the lane every session starts with
  Names,    \* session names
  Labels,   \* entry labels
  None,     \* Python's None: no parent, no leaf, no name
  Missing   \* marks a key a dictionary does not hold

EntryTypes  == {"message", "other"}
RecordTypes == {"operation_started", "operation_finished", "usage"}

Entry  == [parent: Ids \cup {None}, type: EntryTypes, seq: Nat]
Record == [type: RecordTypes, lane: Lanes, runId: Ids \cup {None}, seq: Nat]

ASSUME NamesAssumption ==
  /\ Main \in Lanes
  /\ None # Missing
  /\ {None, Missing} \cap (Ids \cup Labels \cup Names \cup Lanes) = {}
  /\ Missing \notin Entry \cup Record

State == [sequence : Nat,
          usedIds  : SUBSET Ids,
          entries  : [Ids -> Entry \cup {Missing}],
          records  : [Ids -> Record \cup {Missing}],
          openOps  : [Lanes -> SUBSET Ids],
          lanes    : [Lanes -> Ids \cup {None, Missing}],
          name     : Names \cup {None},
          labels   : [Ids -> Labels \cup {Missing}],
          messages : Nat]

\* A session before its first mutation: one lane, empty.
EmptyState == [sequence |-> 0,
               usedIds  |-> {},
               entries  |-> [i \in Ids |-> Missing],
               records  |-> [i \in Ids |-> Missing],
               openOps  |-> [l \in Lanes |-> {}],
               lanes    |-> [l \in Lanes |-> IF l = Main THEN None ELSE Missing],
               name     |-> None,
               labels   |-> [i \in Ids |-> Missing],
               messages |-> 0]

HasLane(s, lane) == s.lanes[lane] # Missing
HasEntry(s, id)  == id \in Ids /\ s.entries[id] # Missing

-----------------------------------------------------------------------------
(* The mutations. An entry mutation without a lane appends to the tree and *)
(* leaves every lane where it is: the form a fork copies entries in.       *)

EntryMutation(seq, id, parent, type, lane) ==
  [kind |-> "entry", seq |-> seq, id |-> id, parent |-> parent,
   type |-> type, lane |-> lane]

RecordMutation(seq, id, type, lane, runId) ==
  [kind |-> "record", seq |-> seq, id |-> id, type |-> type,
   lane |-> lane, runId |-> runId]

LaneMutation(seq, lane, leaf) ==
  [kind |-> "lane", seq |-> seq, lane |-> lane, leaf |-> leaf]

NameMutation(seq, name) ==
  [kind |-> "name", seq |-> seq, name |-> name]

LabelMutation(seq, target, label) ==
  [kind |-> "label", seq |-> seq, target |-> target, label |-> label]

EntryMutations  == [kind: {"entry"}, seq: Nat, id: Ids, parent: Ids \cup {None},
                    type: EntryTypes, lane: Lanes \cup {None}]
RecordMutations == [kind: {"record"}, seq: Nat, id: Ids, type: RecordTypes,
                    lane: Lanes, runId: Ids \cup {None}]
LaneMutations   == [kind: {"lane"}, seq: Nat, lane: Lanes, leaf: Ids \cup {None}]
NameMutations   == [kind: {"name"}, seq: Nat, name: Names \cup {None}]
LabelMutations  == [kind: {"label"}, seq: Nat, target: Ids, label: Labels \cup {None}]

Mutations == EntryMutations \cup RecordMutations \cup LaneMutations
               \cup NameMutations \cup LabelMutations

-----------------------------------------------------------------------------
(* What apply_mutation refuses with invalid_entry.                         *)

CanApplyEntry(s, m) ==
  /\ m.id \notin s.usedIds
  /\ m.lane # None => HasLane(s, m.lane) /\ m.parent = s.lanes[m.lane]
  /\ m.parent # None => HasEntry(s, m.parent)

CanApplyRecord(s, m) == HasLane(s, m.lane) /\ m.id \notin s.usedIds

CanApplyLane(s, m) == m.leaf # None => HasEntry(s, m.leaf)

CanApplyLabel(s, m) == HasEntry(s, m.target)

CanApply(s, m) ==
  /\ m.seq = s.sequence + 1
  /\ \/ m.kind = "entry"  /\ CanApplyEntry(s, m)
     \/ m.kind = "record" /\ CanApplyRecord(s, m)
     \/ m.kind = "lane"   /\ CanApplyLane(s, m)
     \/ m.kind = "name"
     \/ m.kind = "label"  /\ CanApplyLabel(s, m)

(* The effect of a mutation apply_mutation accepts.                        *)

ApplyEntry(s, m) ==
  [s EXCEPT !.sequence = m.seq,
            !.usedIds  = @ \cup {m.id},
            !.entries[m.id] = [parent |-> m.parent, type |-> m.type, seq |-> m.seq],
            !.lanes    = IF m.lane = None THEN @ ELSE [@ EXCEPT ![m.lane] = m.id],
            !.messages = IF m.type = "message" THEN @ + 1 ELSE @]

\* Mistake: a finished record closes whatever is open.
OpenAfterClosesAll(ops, m) ==
  CASE m.type = "operation_started"  -> ops \cup {m.id}
    [] m.type = "operation_finished" -> {}
    [] m.type = "usage"              -> ops

\* Operations open and close in the lane the record itself names.
OpenAfter(ops, m) ==
  CASE m.type = "operation_started"  -> ops \cup {m.id}
    [] m.type = "operation_finished" -> ops \ {m.runId}
    [] m.type = "usage"              -> ops

\* Mistake: a record moves the lane, as an entry does.
ApplyRecordMovesLane(s, m) ==
  [s EXCEPT !.sequence = m.seq,
            !.usedIds  = @ \cup {m.id},
            !.records[m.id]   = [type |-> m.type, lane |-> m.lane,
                                 runId |-> m.runId, seq |-> m.seq],
            !.lanes[m.lane]   = m.id]

\* Mistake: the id of a record stays free.
ApplyRecordFreesId(s, m) ==
  [s EXCEPT !.sequence = m.seq,
            !.records[m.id]   = [type |-> m.type, lane |-> m.lane,
                                 runId |-> m.runId, seq |-> m.seq],
            !.openOps[m.lane] = OpenAfter(@, m)]

ApplyRecord(s, m) ==
  [s EXCEPT !.sequence = m.seq,
            !.usedIds  = @ \cup {m.id},
            !.records[m.id]   = [type |-> m.type, lane |-> m.lane,
                                 runId |-> m.runId, seq |-> m.seq],
            !.openOps[m.lane] = OpenAfter(@, m)]

\* Mistake: the entry a lane is moved to counts as new.
ApplyLaneRestamps(s, m) ==
  [s EXCEPT !.sequence = m.seq, !.lanes[m.lane] = m.leaf,
            !.entries = IF m.leaf = None THEN @ ELSE [@ EXCEPT ![m.leaf].seq = m.seq]]

ApplyLane(s, m) ==
  [s EXCEPT !.sequence = m.seq, !.lanes[m.lane] = m.leaf]

ApplyName(s, m) == [s EXCEPT !.sequence = m.seq, !.name = m.name]

\* Setting a label to None deletes it.
ApplyLabel(s, m) ==
  [s EXCEPT !.sequence = m.seq,
            !.labels[m.target] = IF m.label = None THEN Missing ELSE m.label]

Apply(s, m) ==
  CASE m.kind = "entry"  -> ApplyEntry(s, m)
    [] m.kind = "record" -> ApplyRecord(s, m)
    [] m.kind = "lane"   -> ApplyLane(s, m)
    [] m.kind = "name"   -> ApplyName(s, m)
    [] m.kind = "label"  -> ApplyLabel(s, m)

-----------------------------------------------------------------------------
(* What every state built by accepted mutations promises.                  *)

\* A parent exists and was appended before its child, and no entry is newer
\* than the sequence counter.
ParentsFirst(s) ==
  \A id \in Ids : HasEntry(s, id) =>
    /\ s.entries[id].seq <= s.sequence
    /\ s.entries[id].parent # None =>
         /\ HasEntry(s, s.entries[id].parent)
         /\ s.entries[s.entries[id].parent].seq < s.entries[id].seq

\* Lane leaves and labels name entries of the tree.
ReferencesFound(s) ==
  /\ \A lane \in Lanes : s.lanes[lane] \in Ids => HasEntry(s, s.lanes[lane])
  /\ \A id \in Ids : s.labels[id] # Missing => HasEntry(s, id)

\* The used ids are those of the entries and of the records, which differ, and
\* so do their seqs, none of them above the sequence counter.
Stamp(s, id) == IF s.entries[id] # Missing THEN s.entries[id].seq ELSE s.records[id].seq

IdsSplit(s) ==
  /\ \A id \in Ids :
       /\ ~(s.entries[id] # Missing /\ s.records[id] # Missing)
       /\ id \in s.usedIds <=> s.entries[id] # Missing \/ s.records[id] # Missing
  /\ \A id \in s.usedIds : Stamp(s, id) <= s.sequence
  /\ IsInjective([id \in s.usedIds |-> Stamp(s, id)])

\* An open operation is a started record of the lane it is open in.
OpenAreStarted(s) ==
  \A lane \in Lanes : \A a \in s.openOps[lane] :
    /\ s.records[a] # Missing
    /\ s.records[a].type = "operation_started"
    /\ s.records[a].lane = lane

WellFormed(s) ==
  ParentsFirst(s) /\ ReferencesFound(s) /\ IdsSplit(s) /\ OpenAreStarted(s)

-----------------------------------------------------------------------------
(* Loading a session replays its mutations in order from the empty state   *)
(* and fails at the first one that cannot be applied.                      *)

ReplayOne(load, m) ==
  IF load.ok /\ CanApply(load.state, m)
  THEN [load EXCEPT !.state = Apply(@, m)]
  ELSE [load EXCEPT !.ok = FALSE]

Replay(ms) ==
  LET load[n \in 0..Len(ms)] ==
        IF n = 0 THEN [ok |-> TRUE, state |-> EmptyState]
        ELSE ReplayOne(load[n - 1], ms[n])
  IN load[Len(ms)]
=============================================================================
