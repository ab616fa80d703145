----------------------- MODULE SessionStorage_proofs -----------------------
(***************************************************************************)
(* Proofs about a session and its forks, for every set of ids, lanes,      *)
(* names and labels and every bound on the sequence. The inductive         *)
(* invariant is FInv: the state is well formed, at most one operation is   *)
(* open per lane, the journal is as long as the sequence counter, and a    *)
(* load of it gives back the state. A mutator's step keeps it because what *)
(* it validates is enough for apply_mutation (NextCommits); a fork's       *)
(* because its lines, loaded one after the other, can all be applied and   *)
(* leave what was copied (LinesFill). What is proved of every load by      *)
(* induction along the journal (ReplayMade) then holds of the state.       *)
(***************************************************************************)
EXTENDS SessionFork, Filters_proofs, FiniteSetTheorems, TLAPS

SingleOpen == \A lane \in Lanes : \A a, b \in st.openOps[lane] : a = b

IInv == TypeOK /\ EveryLineApplied /\ WellFormed(st) /\ SingleOpen

-----------------------------------------------------------------------------
(* apply_mutation stays inside the type of the state.                      *)
LEMMA ApplyType ==
  ASSUME NEW s \in State, NEW m \in Mutations, CanApply(s, m)
  PROVE  Apply(s, m) \in State /\ Apply(s, m).sequence = s.sequence + 1
<1>1. CASE m \in EntryMutations
  <2>1. Apply(s, m) = ApplyEntry(s, m) /\ CanApplyEntry(s, m)
    BY <1>1 DEF Apply, CanApply, EntryMutations
  <2>2. [parent |-> m.parent, type |-> m.type, seq |-> m.seq] \in Entry
    BY <1>1 DEF EntryMutations, Entry
  <2>3. /\ m.seq \in Nat /\ m.seq = s.sequence + 1
        /\ m.id \in Ids /\ m.lane \in Lanes \cup {None}
    BY <1>1 DEF EntryMutations, CanApply
  <2> DEFINE used    == s.usedIds \cup {m.id}
             entries == [s.entries EXCEPT ![m.id] =
                           [parent |-> m.parent, type |-> m.type, seq |-> m.seq]]
             lanes   == IF m.lane = None THEN s.lanes ELSE [s.lanes EXCEPT ![m.lane] = m.id]
             count   == IF m.type = "message" THEN s.messages + 1 ELSE s.messages
  <2>4. entries \in [Ids -> Entry \cup {Missing}] /\ used \in SUBSET Ids
    BY <2>2, <2>3 DEF State
  <2>5. lanes \in [Lanes -> Ids \cup {None, Missing}]
    BY <2>3 DEF State
  <2>6. count \in Nat
    BY DEF State
  <2>7. Apply(s, m) = [s EXCEPT !.sequence = m.seq, !.usedIds = used, !.entries = entries,
                                !.lanes = lanes, !.messages = count]
    BY <2>1 DEF ApplyEntry
  <2> HIDE DEF used, entries, lanes, count
  <2>8. QED
    BY <2>3, <2>4, <2>5, <2>6, <2>7 DEF State
<1>2. CASE m \in RecordMutations
  <2>1. Apply(s, m) = ApplyRecord(s, m)
    BY <1>2 DEF Apply, RecordMutations
  <2>2. [type |-> m.type, lane |-> m.lane, runId |-> m.runId, seq |-> m.seq] \in Record
    BY <1>2 DEF RecordMutations, Record
  <2>3. OpenAfter(s.openOps[m.lane], m) \in SUBSET Ids
    BY <1>2 DEF State, OpenAfter, RecordMutations, RecordTypes
  <2>4. /\ m.seq \in Nat /\ m.seq = s.sequence + 1
        /\ m.id \in Ids /\ m.lane \in Lanes
    BY <1>2 DEF RecordMutations, CanApply
  <2> DEFINE used    == s.usedIds \cup {m.id}
             records == [s.records EXCEPT ![m.id] =
                           [type |-> m.type, lane |-> m.lane,
                            runId |-> m.runId, seq |-> m.seq]]
             ops     == [s.openOps EXCEPT ![m.lane] = OpenAfter(@, m)]
  <2>5. records \in [Ids -> Record \cup {Missing}] /\ used \in SUBSET Ids
    BY <2>2, <2>4 DEF State
  <2>6. ops \in [Lanes -> SUBSET Ids]
    BY <2>3, <2>4 DEF State
  <2>7. Apply(s, m) = [s EXCEPT !.sequence = m.seq, !.usedIds = used,
                                !.records = records, !.openOps = ops]
    BY <2>1 DEF ApplyRecord
  <2> HIDE DEF used, records, ops
  <2>8. QED
    BY <2>4, <2>5, <2>6, <2>7 DEF State
<1>3. CASE m \in LaneMutations
  BY <1>3 DEF Apply, ApplyLane, LaneMutations, State, CanApply
<1>4. CASE m \in NameMutations
  BY <1>4 DEF Apply, ApplyName, NameMutations, State, CanApply
<1>5. CASE m \in LabelMutations
  BY <1>5, NamesAssumption DEF Apply, ApplyLabel, LabelMutations, State, CanApply
<1>6. QED
  BY <1>1, <1>2, <1>3, <1>4, <1>5 DEF Mutations

(* What is used has a seq, and a new id takes the next one.                *)
LEMMA StampsAreNumbers ==
  ASSUME NEW s \in State, IdsSplit(s), NEW id \in s.usedIds
  PROVE  id \in Ids /\ Stamp(s, id) \in Nat
<1>1. id \in Ids /\ (s.entries[id] # Missing \/ s.records[id] # Missing)
  BY DEF IdsSplit, State
<1>2. /\ s.entries[id] # Missing => s.entries[id].seq \in Nat
      /\ s.records[id] # Missing => s.records[id].seq \in Nat
  BY <1>1 DEF State, Entry, Record
<1>3. QED
  BY <1>1, <1>2 DEF Stamp

LEMMA NewIdStamped ==
  ASSUME NEW s \in State, IdsSplit(s), NEW t, NEW new,
         t.sequence = s.sequence + 1, t.usedIds = s.usedIds \cup {new},
         new \notin s.usedIds, Stamp(t, new) = t.sequence,
         \A id \in s.usedIds : Stamp(t, id) = Stamp(s, id)
  PROVE  /\ \A id \in t.usedIds : Stamp(t, id) <= t.sequence
         /\ \A id, other \in t.usedIds : Stamp(t, id) = Stamp(t, other) => id = other
<1>1. \A id \in s.usedIds : /\ Stamp(s, id) \in Nat /\ Stamp(s, id) <= s.sequence
                           /\ Stamp(t, id) = Stamp(s, id)
  BY StampsAreNumbers DEF IdsSplit
<1>2. s.sequence \in Nat
  BY DEF State
<1>3. \A id \in t.usedIds : id = new \/ id \in s.usedIds
  OBVIOUS
<1>4. \A id \in t.usedIds : Stamp(t, id) <= t.sequence
  BY <1>1, <1>2, <1>3
<1>5. \A id \in s.usedIds : Stamp(t, id) # Stamp(t, new)
  BY <1>1, <1>2
<1>6. ASSUME NEW id \in t.usedIds, NEW other \in t.usedIds, Stamp(t, id) = Stamp(t, other)
      PROVE  id = other
  <2>1. CASE id \in s.usedIds /\ other \in s.usedIds
    <3>1. Stamp(s, id) = Stamp(s, other)
      BY <1>1, <1>6, <2>1
    <3>2. QED
      BY <2>1, <3>1 DEF IdsSplit, IsInjective
  <2>2. QED
    BY <1>3, <1>5, <1>6, <2>1
<1>7. QED
  BY <1>4, <1>6

(* An accepted mutation keeps the state well formed: no parent, leaf or    *)
(* label dangles, no id or seq is used twice, no operation opens without its      *)
(* record. It holds for any mutation stream, a loaded file's and a fork's  *)
(* as much as a mutator's.                                                 *)
LEMMA ApplyWellFormed ==
  ASSUME NEW s \in State, NEW m \in Mutations, CanApply(s, m), WellFormed(s)
  PROVE  WellFormed(Apply(s, m))
<1> DEFINE t == Apply(s, m)
<1>1. CASE m \in EntryMutations
  <2> DEFINE e == [parent |-> m.parent, type |-> m.type, seq |-> m.seq]
  <2>1. /\ m.id \in Ids /\ m.lane \in Lanes \cup {None} /\ m.parent \in Ids \cup {None}
        /\ m.seq = s.sequence + 1 /\ m.seq \in Nat /\ CanApplyEntry(s, m)
        /\ t = ApplyEntry(s, m)
    BY <1>1 DEF EntryMutations, CanApply, Apply
  <2>2. /\ t.sequence = m.seq /\ t.usedIds = s.usedIds \cup {m.id}
        /\ t.entries = [s.entries EXCEPT ![m.id] = e]
        /\ t.lanes = IF m.lane = None THEN s.lanes ELSE [s.lanes EXCEPT ![m.lane] = m.id]
        /\ t.records = s.records /\ t.openOps = s.openOps /\ t.labels = s.labels
    BY <2>1 DEF ApplyEntry, State
  <2>3. e \in Entry /\ e # Missing
    BY <1>1, NamesAssumption DEF Entry, EntryMutations
  <2>4. s.entries[m.id] = Missing /\ s.records[m.id] = Missing
    BY <2>1 DEF WellFormed, IdsSplit, CanApplyEntry
  <2>5. s.sequence \in Nat /\ s.entries \in [Ids -> Entry \cup {Missing}]
        /\ s.lanes \in [Lanes -> Ids \cup {None, Missing}] /\ s.usedIds \subseteq Ids
        /\ s.openOps \in [Lanes -> SUBSET Ids]
    BY DEF State
  <2>6. \A id \in Ids : HasEntry(s, id) => HasEntry(t, id) /\ t.entries[id] = s.entries[id]
    BY <2>1, <2>2, <2>4, <2>5 DEF HasEntry
  <2>7. HasEntry(t, m.id) /\ t.entries[m.id] = e
    BY <2>1, <2>2, <2>3, <2>5 DEF HasEntry
  <2>8. \A id \in Ids : HasEntry(t, id) => id = m.id \/ HasEntry(s, id)
    BY <2>1, <2>2, <2>5 DEF HasEntry
  <2>9. ParentsFirst(t)
    <3> SUFFICES ASSUME NEW id \in Ids, HasEntry(t, id)
                 PROVE  /\ t.entries[id].seq <= t.sequence
                        /\ t.entries[id].parent # None =>
                             /\ HasEntry(t, t.entries[id].parent)
                             /\ t.entries[t.entries[id].parent].seq < t.entries[id].seq
      BY DEF ParentsFirst
    <3>1. \A p \in Ids : HasEntry(s, p) => s.entries[p].seq \in Nat /\ s.entries[p].seq <= s.sequence
      BY <2>5 DEF WellFormed, ParentsFirst, HasEntry, Entry
    <3>2. CASE id = m.id
      <4>1. m.parent # None => m.parent \in Ids /\ HasEntry(s, m.parent)
        BY <2>1 DEF CanApplyEntry
      <4>2. t.entries[id].seq = m.seq /\ t.entries[id].parent = m.parent
        BY <3>2, <2>7
      <4>3. QED
        BY <4>1, <4>2, <3>1, <2>1, <2>2, <2>5, <2>6
    <3>3. CASE id # m.id
      <4>1. HasEntry(s, id) /\ t.entries[id] = s.entries[id]
        BY <3>3, <2>6, <2>8
      <4>2. s.entries[id].parent # None =>
              /\ s.entries[id].parent \in Ids
              /\ HasEntry(s, s.entries[id].parent)
              /\ s.entries[s.entries[id].parent].seq < s.entries[id].seq
        BY <4>1 DEF WellFormed, ParentsFirst, HasEntry
      <4>3. QED
        BY <4>1, <4>2, <3>1, <2>1, <2>2, <2>5, <2>6
    <3>4. QED
      BY <3>2, <3>3
  <2>10. ReferencesFound(t)
    <3>1. ASSUME NEW lane \in Lanes, t.lanes[lane] \in Ids
          PROVE  HasEntry(t, t.lanes[lane])
      <4>1. t.lanes[lane] = m.id \/ t.lanes[lane] = s.lanes[lane]
        BY <2>2, <2>5
      <4>2. QED
        BY <3>1, <4>1, <2>6, <2>7 DEF WellFormed, ReferencesFound
    <3>2. QED
      BY <3>1, <2>2, <2>6 DEF WellFormed, ReferencesFound
  <2>11. IdsSplit(t)
    <3>1. \A id \in s.usedIds : id # m.id /\ Stamp(t, id) = Stamp(s, id)
      BY <2>1, <2>2, <2>4, <2>5 DEF WellFormed, IdsSplit, Stamp
    <3>2. Stamp(t, m.id) = m.seq
      BY <2>3, <2>7, <2>1 DEF Stamp, HasEntry
    <3>3. /\ \A id \in t.usedIds : Stamp(t, id) <= t.sequence
          /\ \A id, other \in t.usedIds : Stamp(t, id) = Stamp(t, other) => id = other
      <4> HIDE DEF t
      <4> QED BY <2>1, <2>2, <3>1, <3>2, NewIdStamped DEF WellFormed
    <3>4. \A id \in Ids :
            /\ ~(t.entries[id] # Missing /\ t.records[id] # Missing)
            /\ id \in t.usedIds <=> t.entries[id] # Missing \/ t.records[id] # Missing
      BY <2>1, <2>2, <2>3, <2>4, <2>5 DEF WellFormed, IdsSplit
    <3>5. QED
      BY <3>3, <3>4 DEF IdsSplit, IsInjective
  <2>12. OpenAreStarted(t)
    BY <2>2 DEF WellFormed, OpenAreStarted
  <2>13. QED
    BY <2>9, <2>10, <2>11, <2>12 DEF WellFormed, t
<1>2. CASE m \in RecordMutations
  <2> DEFINE r == [type |-> m.type, lane |-> m.lane, runId |-> m.runId, seq |-> m.seq]
  <2>1. /\ m.id \in Ids /\ m.lane \in Lanes /\ m.type \in RecordTypes
        /\ m.seq = s.sequence + 1 /\ m.seq \in Nat /\ CanApplyRecord(s, m)
        /\ t = ApplyRecord(s, m)
    BY <1>2 DEF RecordMutations, CanApply, Apply
  <2>2. /\ t.sequence = m.seq /\ t.usedIds = s.usedIds \cup {m.id}
        /\ t.records = [s.records EXCEPT ![m.id] = r]
        /\ t.openOps = [s.openOps EXCEPT ![m.lane] = OpenAfter(s.openOps[m.lane], m)]
        /\ t.entries = s.entries /\ t.lanes = s.lanes /\ t.labels = s.labels
    BY <2>1 DEF ApplyRecord, State
  <2> HIDE DEF t
  <2>3. r # Missing /\ r.type = m.type /\ r.lane = m.lane
    BY <1>2, NamesAssumption DEF Record, RecordMutations
  <2>4. s.entries[m.id] = Missing /\ s.records[m.id] = Missing
    BY <2>1 DEF WellFormed, IdsSplit, CanApplyRecord
  <2>5. /\ s.sequence \in Nat /\ s.entries \in [Ids -> Entry \cup {Missing}]
        /\ s.records \in [Ids -> Record \cup {Missing}] /\ s.usedIds \subseteq Ids
        /\ s.openOps \in [Lanes -> SUBSET Ids]
    BY DEF State
  <2>6. ParentsFirst(t)
    <3>1. \A id \in Ids : HasEntry(t, id) <=> HasEntry(s, id)
      BY <2>2 DEF HasEntry
    <3>2. \A id \in Ids : HasEntry(s, id) => s.entries[id] \in Entry
      BY <2>5 DEF HasEntry
    <3>3. QED
      BY <2>1, <2>2, <2>5, <3>1, <3>2 DEF WellFormed, ParentsFirst, HasEntry, Entry
  <2>7. ReferencesFound(t)
    BY <2>2 DEF WellFormed, ReferencesFound, HasEntry
  <2>8. IdsSplit(t)
    <3>1. \A id \in s.usedIds : id # m.id /\ Stamp(t, id) = Stamp(s, id)
      BY <2>1, <2>2, <2>4, <2>5 DEF WellFormed, IdsSplit, Stamp
    <3>2. Stamp(t, m.id) = m.seq
      BY <2>1, <2>2, <2>4, <2>5 DEF Stamp
    <3>3. /\ \A id \in t.usedIds : Stamp(t, id) <= t.sequence
          /\ \A id, other \in t.usedIds : Stamp(t, id) = Stamp(t, other) => id = other
      BY <2>1, <2>2, <3>1, <3>2, NewIdStamped DEF WellFormed
    <3>4. \A id \in Ids :
            /\ ~(t.entries[id] # Missing /\ t.records[id] # Missing)
            /\ id \in t.usedIds <=> t.entries[id] # Missing \/ t.records[id] # Missing
      BY <2>1, <2>2, <2>3, <2>4, <2>5 DEF WellFormed, IdsSplit
    <3>5. QED
      BY <3>3, <3>4 DEF IdsSplit, IsInjective
  <2>9. OpenAreStarted(t)
    <3> SUFFICES ASSUME NEW lane \in Lanes, NEW a \in t.openOps[lane]
                 PROVE  /\ t.records[a] # Missing
                        /\ t.records[a].type = "operation_started"
                        /\ t.records[a].lane = lane
      BY DEF OpenAreStarted
    <3>1. CASE a \in s.openOps[lane]
      <4>1. a \in Ids /\ s.records[a] # Missing /\ a # m.id
        BY <3>1, <2>4, <2>5 DEF WellFormed, OpenAreStarted
      <4>2. t.records[a] = s.records[a]
        BY <4>1, <2>2, <2>5
      <4>3. QED
        BY <3>1, <4>2 DEF WellFormed, OpenAreStarted
    <3>2. CASE a \notin s.openOps[lane]
      <4>1. lane = m.lane /\ a \in OpenAfter(s.openOps[m.lane], m)
        BY <3>2, <2>1, <2>2, <2>5
      <4>2. a = m.id /\ m.type = "operation_started"
        BY <3>2, <4>1, <2>1 DEF OpenAfter, RecordTypes
      <4>3. t.records[a] = r
        BY <4>2, <2>1, <2>2, <2>5
      <4>4. QED
        BY <4>1, <4>2, <4>3, <2>3
    <3>3. QED
      BY <3>1, <3>2
  <2>10. QED
    BY <2>6, <2>7, <2>8, <2>9 DEF WellFormed, t
<1>3. CASE m \in LaneMutations \cup NameMutations \cup LabelMutations
  <2>1. /\ m.seq = s.sequence + 1
        /\ t.sequence = m.seq /\ t.usedIds = s.usedIds
        /\ t.entries = s.entries /\ t.records = s.records /\ t.openOps = s.openOps
    BY <1>3 DEF Apply, ApplyLane, ApplyName, ApplyLabel, CanApply, State,
                LaneMutations, NameMutations, LabelMutations
  <2>2. \A lane \in Lanes : t.lanes[lane] \in Ids =>
          HasEntry(s, t.lanes[lane])
    <3>1. CASE m \in LaneMutations
      <4>1. /\ m.lane \in Lanes /\ m.leaf \in Ids \cup {None} /\ CanApplyLane(s, m)
            /\ t.lanes = [s.lanes EXCEPT ![m.lane] = m.leaf]
        BY <3>1 DEF Apply, ApplyLane, CanApply, State, LaneMutations
      <4>2. s.lanes \in [Lanes -> Ids \cup {None, Missing}] /\ None \notin Ids
        BY NamesAssumption DEF State
      <4>3. \A lane \in Lanes : t.lanes[lane] = m.leaf \/ t.lanes[lane] = s.lanes[lane]
        BY <4>1, <4>2
      <4>4. QED
        BY <4>1, <4>2, <4>3 DEF CanApplyLane, WellFormed, ReferencesFound
    <3>2. CASE m \in NameMutations \cup LabelMutations
      BY <3>2 DEF Apply, ApplyName, ApplyLabel, State, NameMutations, LabelMutations,
                  WellFormed, ReferencesFound
    <3>3. QED
      BY <1>3, <3>1, <3>2
  <2>3. \A id \in Ids : t.labels[id] # Missing => HasEntry(s, id)
    <3>1. CASE m \in LabelMutations
      BY <3>1 DEF Apply, ApplyLabel, CanApply, CanApplyLabel, State, LabelMutations,
                  WellFormed, ReferencesFound
    <3>2. CASE m \in NameMutations \cup LaneMutations
      BY <3>2 DEF Apply, ApplyName, ApplyLane, State, NameMutations, LaneMutations,
                  WellFormed, ReferencesFound
    <3>3. QED
      BY <1>3, <3>1, <3>2
  <2> HIDE DEF t
  <2>4. \A id : HasEntry(t, id) <=> HasEntry(s, id)
    BY <2>1 DEF HasEntry
  <2>5. ParentsFirst(t)
    <3>1. \A id \in Ids : HasEntry(s, id) => s.entries[id] \in Entry
      BY DEF HasEntry, State
    <3>2. s.sequence \in Nat
      BY DEF State
    <3>3. QED
      BY <2>1, <2>4, <3>1, <3>2 DEF WellFormed, ParentsFirst, Entry
  <2>6. ReferencesFound(t)
    BY <2>2, <2>3, <2>4 DEF ReferencesFound
  <2>7. IdsSplit(t) /\ OpenAreStarted(t)
    <3>1. \A id : Stamp(t, id) = Stamp(s, id)
      BY <2>1 DEF Stamp
    <3>2. \A id \in s.usedIds : Stamp(s, id) <= t.sequence
      <4>1. IdsSplit(s)  BY DEF WellFormed
      <4>2. \A id \in s.usedIds : Stamp(s, id) \in Nat /\ Stamp(s, id) <= s.sequence
        BY <4>1, StampsAreNumbers DEF IdsSplit
      <4>3. s.sequence \in Nat  BY DEF State
      <4> QED BY <2>1, <4>2, <4>3
    <3>3. QED
      BY <2>1, <3>1, <3>2 DEF WellFormed, IdsSplit, IsInjective, OpenAreStarted
  <2>8. QED
    BY <2>5, <2>6, <2>7 DEF WellFormed, t
<1>4. QED
  BY <1>1, <1>2, <1>3 DEF Mutations

-----------------------------------------------------------------------------
\* A start is the only mutation that can open a second operation.
StartsAlone(m) ==
  m \in RecordMutations /\ m.type = "operation_started" => st.openOps[m.lane] = {}

(* Committing a mutation that can be applied, and that starts an operation *)
(* only in a lane without one, preserves the invariant.                    *)
LEMMA CommitPreserves ==
  ASSUME IInv, NEW m \in Mutations, CanApply(st, m), StartsAlone(m), Commit(m)
  PROVE  IInv'
<1>1. st \in State /\ journal \in Seq(Mutations) /\ Len(journal) = st.sequence
      /\ WellFormed(st)
  BY DEF IInv, TypeOK, EveryLineApplied
<1>2. st' = Apply(st, m) /\ journal' = Append(journal, m)
  BY DEF Commit
<1>3. TypeOK'
  BY <1>1, <1>2, ApplyType DEF TypeOK
<1>4. EveryLineApplied'
  BY <1>1, <1>2, ApplyType DEF EveryLineApplied
<1>5. WellFormed(st')
  BY <1>1, <1>2, ApplyWellFormed
<1>6. SingleOpen'
  <2>1. CASE m \in RecordMutations
    <3>1. /\ m.type \in RecordTypes /\ m.lane \in Lanes
          /\ st'.openOps = [st.openOps EXCEPT ![m.lane] = OpenAfter(st.openOps[m.lane], m)]
      BY <2>1, <1>1, <1>2 DEF Apply, ApplyRecord, State, RecordMutations
    <3>2. st.openOps \in [Lanes -> SUBSET Ids]
      BY <1>1 DEF State
    <3>3. OpenAfter(st.openOps[m.lane], m) = {m.id}
          \/ OpenAfter(st.openOps[m.lane], m) \subseteq st.openOps[m.lane]
      BY <2>1, <3>1 DEF OpenAfter, RecordTypes, StartsAlone
    <3>4. QED
      BY <3>1, <3>2, <3>3 DEF SingleOpen, IInv
  <2>2. CASE m \notin RecordMutations
    <3>1. st'.openOps = st.openOps
      BY <2>2, <1>1, <1>2 DEF Apply, ApplyEntry, ApplyLane, ApplyName, ApplyLabel, State,
                              Mutations, EntryMutations, LaneMutations, NameMutations,
                              LabelMutations
    <3>2. QED
      BY <3>1 DEF SingleOpen, IInv
  <2>3. QED
    BY <2>1, <2>2
<1>7. QED
  BY <1>3, <1>4, <1>5, <1>6 DEF IInv

LEMMA InitInvariant == Init => IInv
<1> SUFFICES ASSUME Init PROVE IInv
  OBVIOUS
<1>1. st = EmptyState /\ journal = <<>>
  BY DEF Init
<1>2. st \in State
  BY <1>1, NamesAssumption DEF EmptyState, State
<1>3. WellFormed(st)
  BY <1>1, NamesAssumption
     DEF EmptyState, WellFormed, ParentsFirst, ReferencesFound, IdsSplit, IsInjective,
         OpenAreStarted, HasEntry
<1>4. SingleOpen
  BY <1>1 DEF EmptyState, SingleOpen
<1>5. QED
  BY <1>1, <1>2, <1>3, <1>4 DEF IInv, TypeOK, EveryLineApplied, EmptyState

(* What a mutator validates before the write is enough for apply_mutation  *)
(* to accept the mutation it then builds.                                  *)
LEMMA NextCommits ==
  ASSUME IInv, Next
  PROVE  \E m \in Mutations : CanApply(st, m) /\ StartsAlone(m) /\ Commit(m)
<1> DEFINE Commits == \E m \in Mutations : CanApply(st, m) /\ StartsAlone(m) /\ Commit(m)
<1> USE NamesAssumption
<1>0. /\ st \in State /\ st.sequence \in Nat /\ NextSequence = st.sequence + 1
      /\ st.lanes \in [Lanes -> Ids \cup {None, Missing}]
      /\ WellFormed(st)
  BY DEF IInv, TypeOK, State, NextSequence
<1>1. ASSUME NEW lane \in Lanes, NEW leaf \in Ids \cup {None},
             CreateLane(lane, leaf) \/ MoveLane(lane, leaf)
      PROVE  Commits
  <2> DEFINE m == LaneMutation(NextSequence, lane, leaf)
  <2>1. m \in Mutations /\ CanApply(st, m) /\ StartsAlone(m)
    BY <1>0, <1>1 DEF CreateLane, MoveLane, LaneMutation, Mutations, LaneMutations,
          CanApply, CanApplyLane, ValidateTarget, StartsAlone, RecordMutations
  <2>2. Commit(m)
    BY <1>1 DEF CreateLane, MoveLane
  <2>3. QED
    BY <2>1, <2>2
<1>2. ASSUME NEW id \in Ids, NEW type \in EntryTypes, NEW lane \in Lanes,
             AppendEntry(id, type, lane)
      PROVE  Commits
  <2> DEFINE m == EntryMutation(NextSequence, id, st.lanes[lane], type, lane)
  <2>1. st.lanes[lane] \in Ids \cup {None} /\ lane # None /\ id \notin st.usedIds
    BY <1>0, <1>2 DEF AppendEntry, RequireLane, HasLane, ValidateUnusedId
  <2>2. st.lanes[lane] # None => HasEntry(st, st.lanes[lane])
    BY <1>0, <2>1 DEF WellFormed, ReferencesFound
  <2>3. m \in EntryMutations /\ StartsAlone(m)
    BY <1>0, <2>1 DEF EntryMutation, EntryMutations, StartsAlone, RecordMutations
  <2>4. CanApply(st, m)
    BY <1>0, <1>2, <2>1, <2>2 DEF EntryMutation, CanApply, CanApplyEntry, AppendEntry, RequireLane
  <2>5. Commit(m)
    BY <1>2 DEF AppendEntry
  <2>6. QED
    BY <2>3, <2>4, <2>5 DEF Mutations
<1>3. ASSUME NEW id \in Ids, NEW type \in RecordTypes, NEW lane \in Lanes,
             NEW runId \in Ids \cup {None}, AppendRecord(id, type, lane, runId)
      PROVE  Commits
  <2> DEFINE m == RecordMutation(NextSequence, id, type, lane, runId)
  <2>1. m \in RecordMutations
    BY <1>0 DEF RecordMutation, RecordMutations
  <2>2. StartsAlone(m) /\ CanApply(st, m)
    BY <1>3, <1>0 DEF AppendRecord, StartsAlone, RecordMutation, CanApply, CanApplyRecord,
                 RequireLane, ValidateUnusedId
  <2>3. Commit(m)
    BY <1>3 DEF AppendRecord
  <2>4. QED
    BY <2>1, <2>2, <2>3 DEF Mutations
<1>4. ASSUME NEW name \in Names \cup {None}, SetName(name)
      PROVE  Commits
  <2> DEFINE m == NameMutation(NextSequence, name)
  <2>1. m \in Mutations /\ CanApply(st, m) /\ StartsAlone(m)
    BY <1>0 DEF NameMutation, Mutations, NameMutations, CanApply, StartsAlone, RecordMutations
  <2>2. QED
    BY <1>4, <2>1 DEF SetName
<1>5. ASSUME NEW id \in Ids, NEW label \in Labels \cup {None}, SetLabel(id, label)
      PROVE  Commits
  <2> DEFINE m == LabelMutation(NextSequence, id, label)
  <2>1. m \in Mutations /\ CanApply(st, m) /\ StartsAlone(m)
    BY <1>0, <1>5 DEF SetLabel, ValidateTarget, LabelMutation, Mutations, LabelMutations,
          CanApply, CanApplyLabel, StartsAlone, RecordMutations
  <2>2. QED
    BY <1>5, <2>1 DEF SetLabel
<1>6. QED
  BY <1>1, <1>2, <1>3, <1>4, <1>5 DEF Next, RecordTypes

LEMMA NextInvariant == IInv /\ [Next]_vars => IInv'
<1> SUFFICES ASSUME IInv, [Next]_vars PROVE IInv'
  OBVIOUS
<1>1. CASE Next
  BY <1>1, NextCommits, CommitPreserves
<1>2. CASE UNCHANGED vars
  BY <1>2 DEF IInv, TypeOK, EveryLineApplied, SingleOpen, vars
<1>3. QED
  BY <1>1, <1>2

-----------------------------------------------------------------------------
(* What a session holds and may never lose.                                *)
Kept(s, t) ==
  /\ \A id \in Ids : s.entries[id] # Missing => t.entries[id] = s.entries[id]
  /\ \A id \in Ids : s.records[id] # Missing => t.records[id] = s.records[id]
  /\ \A lane \in Lanes : HasLane(s, lane) => t.lanes[lane] # Missing

(* An accepted mutation writes entries and records under unused ids only,  *)
(* and points lanes at entries or at nothing.                              *)
LEMMA ApplyKeeps ==
  ASSUME NEW s \in State, NEW m \in Mutations, WellFormed(s), CanApply(s, m)
  PROVE  Kept(s, Apply(s, m))
<1> USE NamesAssumption
<1>0. \A id \in Ids \ s.usedIds : s.entries[id] = Missing /\ s.records[id] = Missing
  BY DEF WellFormed, IdsSplit
<1>1. CASE m \in EntryMutations
  <2>1. Apply(s, m) = ApplyEntry(s, m) /\ m.id \in Ids \ s.usedIds
    BY <1>1 DEF Apply, CanApply, CanApplyEntry, EntryMutations
  <2>2. Apply(s, m).records = s.records
    BY <2>1 DEF ApplyEntry, State
  <2>3. \A id \in Ids \ {m.id} : Apply(s, m).entries[id] = s.entries[id]
    BY <2>1 DEF ApplyEntry, State
  <2>4. \A lane \in Lanes : Apply(s, m).lanes[lane] \in {s.lanes[lane], m.id}
    BY <2>1 DEF ApplyEntry, State
  <2>5. QED
    BY <1>0, <2>1, <2>2, <2>3, <2>4 DEF Kept, HasLane
<1>2. CASE m \in RecordMutations
  <2>1. Apply(s, m) = ApplyRecord(s, m) /\ m.id \in Ids \ s.usedIds
    BY <1>2 DEF Apply, CanApply, CanApplyRecord, RecordMutations
  <2>2. Apply(s, m).entries = s.entries /\ Apply(s, m).lanes = s.lanes
    BY <2>1 DEF ApplyRecord, State
  <2>3. \A id \in Ids \ {m.id} : Apply(s, m).records[id] = s.records[id]
    BY <2>1 DEF ApplyRecord, State
  <2>4. QED
    BY <1>0, <2>1, <2>2, <2>3 DEF Kept, HasLane
<1>3. CASE m \in LaneMutations
  <2>1. Apply(s, m) = ApplyLane(s, m) /\ m.leaf \in Ids \cup {None}
    BY <1>3 DEF Apply, LaneMutations
  <2>2. Apply(s, m).entries = s.entries /\ Apply(s, m).records = s.records
    BY <2>1 DEF ApplyLane, State
  <2>3. \A lane \in Lanes : Apply(s, m).lanes[lane] \in {s.lanes[lane], m.leaf}
    BY <2>1 DEF ApplyLane, State
  <2>4. QED
    BY <2>1, <2>2, <2>3 DEF Kept, HasLane
<1>4. CASE m \in NameMutations \cup LabelMutations
  <2>1. Apply(s, m) = ApplyName(s, m) \/ Apply(s, m) = ApplyLabel(s, m)
    BY <1>4 DEF Apply, NameMutations, LabelMutations
  <2>2. QED
    BY <2>1 DEF ApplyName, ApplyLabel, State, Kept, HasLane
<1>5. QED
  BY <1>1, <1>2, <1>3, <1>4 DEF Mutations

-----------------------------------------------------------------------------
(* Replaying a journal, one mutation more at a time.                       *)

\* What a load is, half way.
Loads == [ok : BOOLEAN, state : State]

\* A mutation takes a load to a load.
LEMMA ReplayOneType ==
  ASSUME NEW load \in Loads, NEW m \in Mutations
  PROVE  ReplayOne(load, m) \in Loads
<1>1. load.ok \in BOOLEAN /\ load.state \in State  BY DEF Loads
<1>2. CASE load.ok /\ CanApply(load.state, m)
  <2>1. Apply(load.state, m) \in State  BY <1>1, <1>2, ApplyType
  <2>2. ReplayOne(load, m) = [load EXCEPT !.state = Apply(load.state, m)]
    BY <1>2 DEF ReplayOne, Loads
  <2> QED BY <2>1, <2>2 DEF Loads
<1>3. CASE ~(load.ok /\ CanApply(load.state, m))
  BY <1>3 DEF ReplayOne, Loads
<1> QED BY <1>2, <1>3

\* The loads of the prefixes of a journal.
LoadsOf(f, ms) ==
  /\ f \in [0..Len(ms) -> Loads]
  /\ f[0] = [ok |-> TRUE, state |-> EmptyState]
  /\ \A n \in 1..Len(ms) : f[n] = ReplayOne(f[n - 1], ms[n])

\* The empty session is a state.
LEMMA EmptyLoad == [ok |-> TRUE, state |-> EmptyState] \in Loads
<1>1. EmptyState \in State  BY NamesAssumption DEF EmptyState, State
<1> QED BY <1>1 DEF Loads

\* Replay is the last of them.
LEMMA ReplayIterates ==
  ASSUME NEW ms \in Seq(Mutations)
  PROVE  \E f : LoadsOf(f, ms) /\ Replay(ms) = f[Len(ms)]
<1> DEFINE N == Len(ms)
           base == [ok |-> TRUE, state |-> EmptyState]
           step == [p \in (1..N) \X Loads |-> ReplayOne(p[2], ms[p[1]])]
           IsIt(f) == f = [n \in 0..N |-> IF n = 0 THEN base ELSE ReplayOne(f[n - 1], ms[n])]
<1>1. N \in Nat /\ \A n \in 1..N : ms[n] \in Mutations  OBVIOUS
<1>2. base \in Loads  BY EmptyLoad
<1>3. step \in [(1..N) \X Loads -> Loads]
  <2> HIDE DEF N
  <2>1. \A p \in (1..N) \X Loads : ReplayOne(p[2], ms[p[1]]) \in Loads
    BY <1>1, ReplayOneType
  <2> QED BY <2>1
<1>4. PICK g \in [0..N -> Loads] : Iterates(g, N, base, step)
  <2> HIDE DEF N, step, base
  <2> QED BY <1>1, <1>2, <1>3, IterationExists
<1>5. \A n \in 1..N : step[<<n, g[n - 1]>>] = ReplayOne(g[n - 1], ms[n])
  <2> TAKE n \in 1..N
  <2>1. n - 1 \in 0..N /\ g[n - 1] \in Loads  BY <1>1
  <2>2. <<n, g[n - 1]>> \in (1..N) \X Loads  BY <2>1
  <2> HIDE DEF N
  <2> QED BY <2>2
<1>6. IsIt(g)
  <2> HIDE DEF step
  <2>1. g = [n \in 0..N |-> IF n = 0 THEN base ELSE step[<<n, g[n - 1]>>]]
    BY <1>4 DEF Iterates
  <2>2. [n \in 0..N |-> IF n = 0 THEN base ELSE step[<<n, g[n - 1]>>]]
        = [n \in 0..N |-> IF n = 0 THEN base ELSE ReplayOne(g[n - 1], ms[n])]
    <3>1. \A n \in 0..N : n # 0 => n \in 1..N  BY <1>1
    <3> HIDE DEF N, base
    <3> QED BY <1>5, <3>1
  <2> QED BY <2>1, <2>2
<1>7. PICK f : IsIt(f) /\ Replay(ms) = f[N]
  <2> DEFINE c == CHOOSE h : IsIt(h)
  <2>1. IsIt(c)  BY <1>6
  <2>2. Replay(ms) = c[N]  BY DEF Replay
  <2> HIDE DEF c, IsIt, N
  <2> QED BY <2>1, <2>2
<1>8. /\ f[0] = base
      /\ \A n \in 1..N : f[n] = ReplayOne(f[n - 1], ms[n])
  <2>1. 0 \in 0..N /\ \A n \in 1..N : n \in 0..N /\ n # 0  BY <1>1
  <2> HIDE DEF N, base
  <2> QED BY <1>7, <2>1
<1>9. f = [n \in 0..N |-> f[n]]
  <2> HIDE DEF N, base
  <2> QED BY <1>7
<1> HIDE DEF IsIt
<1>10. \A n \in 0..N : f[n] \in Loads
  <2> DEFINE P == {n \in 0..N : f[n] \in Loads}
  <2>1. 0 \in P
    <3>1. 0 \in 0..N  BY <1>1
    <3> HIDE DEF N, base
    <3> QED BY <3>1, <1>2, <1>8
  <2>2. ASSUME NEW n \in 1..N, n - 1 \in P PROVE n \in P
    <3>1. f[n - 1] \in Loads /\ ms[n] \in Mutations /\ n \in 0..N  BY <1>1, <2>2
    <3>2. f[n] = ReplayOne(f[n - 1], ms[n])  BY <1>8
    <3> HIDE DEF N
    <3> QED BY <3>1, <3>2, ReplayOneType
  <2> HIDE DEF P, N
  <2>3. 0..N \subseteq P  BY <1>1, <2>1, <2>2, BoundedInduction
  <2> QED BY <2>3 DEF P
<1>11. f \in [0..N -> Loads]
  <2> HIDE DEF N
  <2> QED BY <1>9, <1>10
<1> QED BY <1>7, <1>8, <1>11 DEF LoadsOf

\* The load of an empty journal.
LEMMA ReplayEmpty == Replay(<<>>) = [ok |-> TRUE, state |-> EmptyState]
<1>1. <<>> \in Seq(Mutations)  OBVIOUS
<1>2. PICK f : LoadsOf(f, <<>>) /\ Replay(<<>>) = f[Len(<<>>)]  BY <1>1, ReplayIterates
<1> QED BY <1>2 DEF LoadsOf

\* A load goes on with the last mutation.
LEMMA ReplayAppend ==
  ASSUME NEW ms \in Seq(Mutations), NEW m \in Mutations
  PROVE  Replay(Append(ms, m)) = ReplayOne(Replay(ms), m)
<1> DEFINE t == Append(ms, m)
           N == Len(ms)
<1>1. t \in Seq(Mutations) /\ N \in Nat /\ Len(t) = N + 1 /\ t[N + 1] = m
      /\ \A n \in 1..N : t[n] = ms[n]
  OBVIOUS
<1>2. PICK f : LoadsOf(f, ms) /\ Replay(ms) = f[N]  BY ReplayIterates
<1> HIDE DEF t
<1>3. PICK g : LoadsOf(g, t) /\ Replay(t) = g[Len(t)]  BY <1>1, ReplayIterates
<1> DEFINE P == {n \in 0..N : f[n] = g[n]}
<1>4. 0 \in P
  <2>1. 0 \in 0..N  BY <1>1
  <2>2. f[0] = g[0]  BY <1>2, <1>3 DEF LoadsOf
  <2> QED BY <2>1, <2>2
<1>5. ASSUME NEW n \in 1..N, n - 1 \in P PROVE n \in P
  <2>1. n \in 1..Len(t) /\ t[n] = ms[n] /\ f[n - 1] = g[n - 1]  BY <1>1, <1>5
  <2>2. f[n] = g[n]  BY <2>1, <1>2, <1>3 DEF LoadsOf
  <2> QED BY <2>2
<1> HIDE DEF P, N
<1>6. 0..N \subseteq P  BY <1>1, <1>4, <1>5, BoundedInduction
<1>7. f[N] = g[N]  BY <1>1, <1>6 DEF P
<1>8. N + 1 \in 1..Len(t) /\ (N + 1) - 1 = N  BY <1>1
<1>9. g[N + 1] = ReplayOne(g[N], t[N + 1])  BY <1>3, <1>8 DEF LoadsOf
<1> QED BY <1>1, <1>2, <1>3, <1>7, <1>9 DEF t

-----------------------------------------------------------------------------
(* The indexes, one mutation later.                                        *)

\* The last of a set of positions is the new one, if it is in the set.
LEMMA LastOfNew ==
  ASSUME NEW n \in Nat, NEW S \in SUBSET (1..n)
  PROVE  LastOf(S \cup {n + 1}) = n + 1
<1> DEFINE T == S \cup {n + 1}
<1>1. n + 1 \in T /\ \A j \in T : j <= n + 1 /\ j \in Nat  OBVIOUS
<1>2. T # {} /\ \E i \in T : \A j \in T : j <= i  BY <1>1
<1>3. LastOf(T) = CHOOSE i \in T : \A j \in T : j <= i  BY <1>2 DEF LastOf
<1>4. LastOf(T) \in T /\ \A j \in T : j <= LastOf(T)  BY <1>2, <1>3
<1> HIDE DEF T
<1>5. LastOf(T) <= n + 1 /\ n + 1 <= LastOf(T) /\ LastOf(T) \in Nat  BY <1>1, <1>4
<1>6. LastOf(T) = n + 1  BY <1>5
<1> QED BY <1>6 DEF T

\* The last of a set of positions is one of them.
LEMMA LastOfIn ==
  ASSUME NEW n \in Nat, NEW S \in SUBSET (1..n)
  PROVE  LastOf(S) \in 0..n /\ (LastOf(S) # 0 => LastOf(S) \in S)
<1>1. CASE S = {}  BY <1>1 DEF LastOf
<1>2. CASE S # {}
  <2> DEFINE T == {n - i : i \in S}
  <2>0. \A i \in S : n - i \in Nat /\ n - i \in T  OBVIOUS
  <2>1. T \subseteq Nat /\ T # {}  BY <1>2, <2>0
  <2>2. PICK k \in T : \A l \in T : k <= l  BY <2>1, LeastNat
  <2>3. PICK i \in S : k = n - i  BY <2>2
  <2>4. \A j \in S : j <= i
    <3> TAKE j \in S
    <3>1. n - j \in T  OBVIOUS
    <3>2. n - i <= n - j /\ i \in 1..n /\ j \in 1..n  BY <2>2, <2>3, <3>1
    <3> QED BY <3>2
  <2>5. LastOf(S) = CHOOSE x \in S : \A j \in S : j <= x  BY <1>2 DEF LastOf
  <2>6. \E x \in S : \A j \in S : j <= x  BY <2>4
  <2>7. LastOf(S) \in S
    <3> HIDE DEF T
    <3> QED BY <2>5, <2>6
  <2> HIDE DEF T
  <2>8. LastOf(S) \in 1..n  BY <2>7
  <2> QED BY <2>7, <2>8
<1> QED BY <1>1, <1>2

\* Where a journal has a mutation of a set.
Positions(ms, M) == {j \in 1..Len(ms) : ms[j] \in M}

\* The positions of a longer journal that are in a set defined by the mutation
\* alone.
LEMMA PositionsGrow ==
  ASSUME NEW ms \in Seq(Mutations), NEW m \in Mutations, NEW M
  PROVE  Positions(Append(ms, m), M)
         = Positions(ms, M) \cup (IF m \in M THEN {Len(ms) + 1} ELSE {})
<1> DEFINE t == Append(ms, m)
           N == Len(ms)
<1>1. N \in Nat /\ Len(t) = N + 1 /\ t[N + 1] = m /\ \A n \in 1..N : t[n] = ms[n]
  OBVIOUS
<1> HIDE DEF t, N
<1>2. 1..Len(t) = (1..N) \cup {N + 1}  BY <1>1
<1>3. {j \in 1..Len(t) : t[j] \in M}
      = {j \in 1..N : ms[j] \in M} \cup (IF m \in M THEN {N + 1} ELSE {})
  BY <1>1, <1>2
<1> QED BY <1>3 DEF t, N, Positions

\* The mutations that move a lane, set a label, or add a message.
Moving(lane) == {m \in Mutations : m.kind \in {"entry", "lane"} /\ m.lane = lane}
Labelling(id) == {m \in Mutations : m.kind = "label" /\ m.target = id}
Messages == {m \in Mutations : m.kind = "entry" /\ m.type = "message"}

\* What the readings of the journal look for.
LEMMA Readings ==
  ASSUME NEW ms \in Seq(Mutations), NEW x
  PROVE  /\ {j \in 1..Len(ms) : ms[j].kind \in {"entry", "lane"} /\ ms[j].lane = x}
            = Positions(ms, Moving(x))
         /\ {j \in 1..Len(ms) : ms[j].kind = "label" /\ ms[j].target = x}
            = Positions(ms, Labelling(x))
         /\ {j \in 1..Len(ms) : ms[j].kind = "entry" /\ ms[j].type = "message"}
            = Positions(ms, Messages)
<1>1. \A j \in 1..Len(ms) : ms[j] \in Mutations  OBVIOUS
<1> QED BY <1>1 DEF Moving, Labelling, Messages, Positions

\* What a mutation does to the indexes, by its kind.
LEMMA ApplyIndexes ==
  ASSUME NEW s \in State, NEW m \in Mutations
  PROVE  /\ \A lane \in Lanes : Apply(s, m).lanes[lane] =
              IF m \in Moving(lane) THEN (IF m.kind = "entry" THEN m.id ELSE m.leaf)
              ELSE s.lanes[lane]
         /\ \A lane \in Lanes : Apply(s, m).openOps[lane] =
              IF m.kind = "record" /\ m.lane = lane THEN OpenAfter(s.openOps[lane], m)
              ELSE s.openOps[lane]
         /\ \A id \in Ids : Apply(s, m).labels[id] =
              IF m \in Labelling(id) THEN (IF m.label = None THEN Missing ELSE m.label)
              ELSE s.labels[id]
         /\ Apply(s, m).messages = IF m \in Messages THEN s.messages + 1 ELSE s.messages
<1>1. s.lanes \in [Lanes -> Ids \cup {None, Missing}] /\ s.openOps \in [Lanes -> SUBSET Ids]
      /\ s.labels \in [Ids -> Labels \cup {Missing}] /\ s.messages \in Nat
  BY DEF State
<1>2. CASE m \in EntryMutations
  <2>1. m.kind = "entry" /\ m.id \in Ids /\ m.lane \in Lanes \cup {None} /\ None \notin Lanes
    BY <1>2, NamesAssumption DEF EntryMutations
  <2>2. Apply(s, m) = ApplyEntry(s, m)  BY <2>1 DEF Apply
  <2>3. /\ Apply(s, m).lanes = IF m.lane = None THEN s.lanes ELSE [s.lanes EXCEPT ![m.lane] = m.id]
        /\ Apply(s, m).openOps = s.openOps /\ Apply(s, m).labels = s.labels
        /\ Apply(s, m).messages = IF m.type = "message" THEN s.messages + 1 ELSE s.messages
    BY <2>2 DEF ApplyEntry, State
  <2> QED BY <1>1, <2>1, <2>3 DEF Moving, Labelling, Messages
<1>3. CASE m \in RecordMutations
  <2>1. m.kind = "record" /\ m.lane \in Lanes  BY <1>3 DEF RecordMutations
  <2>2. Apply(s, m) = ApplyRecord(s, m)  BY <2>1 DEF Apply
  <2>3. /\ Apply(s, m).openOps = [s.openOps EXCEPT ![m.lane] = OpenAfter(s.openOps[m.lane], m)]
        /\ Apply(s, m).lanes = s.lanes /\ Apply(s, m).labels = s.labels
        /\ Apply(s, m).messages = s.messages
    BY <2>2 DEF ApplyRecord, State
  <2> QED BY <1>1, <2>1, <2>3 DEF Moving, Labelling, Messages
<1>4. CASE m \in LaneMutations
  <2>1. m.kind = "lane" /\ m.lane \in Lanes  BY <1>4 DEF LaneMutations
  <2>2. Apply(s, m) = ApplyLane(s, m)  BY <2>1 DEF Apply
  <2>3. /\ Apply(s, m).lanes = [s.lanes EXCEPT ![m.lane] = m.leaf]
        /\ Apply(s, m).openOps = s.openOps /\ Apply(s, m).labels = s.labels
        /\ Apply(s, m).messages = s.messages
    BY <2>2 DEF ApplyLane, State
  <2> QED BY <1>1, <2>1, <2>3 DEF Moving, Labelling, Messages
<1>5. CASE m \in NameMutations
  <2>1. m.kind = "name"  BY <1>5 DEF NameMutations
  <2>2. Apply(s, m) = ApplyName(s, m)  BY <2>1 DEF Apply
  <2>3. /\ Apply(s, m).lanes = s.lanes /\ Apply(s, m).messages = s.messages
        /\ Apply(s, m).openOps = s.openOps /\ Apply(s, m).labels = s.labels
    BY <2>2 DEF ApplyName, State
  <2> QED BY <1>1, <2>1, <2>3 DEF Moving, Labelling, Messages
<1>6. CASE m \in LabelMutations
  <2>1. m.kind = "label" /\ m.target \in Ids  BY <1>6 DEF LabelMutations
  <2>2. Apply(s, m) = ApplyLabel(s, m)  BY <2>1 DEF Apply
  <2>3. /\ Apply(s, m).labels = [s.labels EXCEPT ![m.target] =
                                   IF m.label = None THEN Missing ELSE m.label]
        /\ Apply(s, m).lanes = s.lanes /\ Apply(s, m).openOps = s.openOps
        /\ Apply(s, m).messages = s.messages
    BY <2>2 DEF ApplyLabel, State
  <2> QED BY <1>1, <2>1, <2>3 DEF Moving, Labelling, Messages
<1> QED BY <1>2, <1>3, <1>4, <1>5, <1>6 DEF Mutations

\* The operations of a lane that are open in a journal: those of the starts no
\* later record of the lane finished.
Starts(ms, lane) ==
  {j \in 1..Len(ms) :
     /\ ms[j].kind = "record" /\ ms[j].type = "operation_started" /\ ms[j].lane = lane
     /\ \A k \in (j + 1)..Len(ms) :
          ms[k].kind = "record" /\ ms[k].type = "operation_finished"
            /\ ms[k].lane = lane => ms[k].runId # ms[j].id}

OpenIn(ms, lane) == {ms[i].id : i \in Starts(ms, lane)}

\* The open operations, one mutation later.
LEMMA OpenGrows ==
  ASSUME NEW ms \in Seq(Mutations), NEW m \in Mutations, NEW lane \in Lanes
  PROVE  OpenIn(Append(ms, m), lane) =
           IF m.kind = "record" /\ m.lane = lane THEN OpenAfter(OpenIn(ms, lane), m)
           ELSE OpenIn(ms, lane)
<1> DEFINE t == Append(ms, m)
           N == Len(ms)
           Starting == m.kind = "record" /\ m.lane = lane /\ m.type = "operation_started"
           Finishing == m.kind = "record" /\ m.lane = lane /\ m.type = "operation_finished"
<1>1. N \in Nat /\ Len(t) = N + 1 /\ t[N + 1] = m /\ \A n \in 1..N : t[n] = ms[n]
  OBVIOUS
<1>2. m.kind = "record" => m.type \in {"operation_started", "operation_finished", "usage"}
  BY DEF Mutations, EntryMutations, RecordMutations, LaneMutations, NameMutations,
         LabelMutations, RecordTypes
<1> HIDE DEF t, N
<1>3. ASSUME NEW j \in 1..N
      PROVE  j \in Starts(t, lane) <=>
               j \in Starts(ms, lane) /\ (Finishing => m.runId # ms[j].id)
  <2>1. (j + 1)..Len(t) = ((j + 1)..N) \cup {N + 1}  BY <1>1
  <2>2. j \in 1..Len(t) /\ \A k \in (j + 1)..N : k \in 1..N  BY <1>1
  <2>3. (\A k \in (j + 1)..Len(t) : t[k].kind = "record" /\ t[k].type = "operation_finished"
            /\ t[k].lane = lane => t[k].runId # t[j].id)
        <=> /\ \A k \in (j + 1)..N : ms[k].kind = "record" /\ ms[k].type = "operation_finished"
                 /\ ms[k].lane = lane => ms[k].runId # ms[j].id
            /\ Finishing => m.runId # ms[j].id
    BY <1>1, <2>1, <2>2
  <2> HIDE DEF Finishing
  <2> QED BY <1>1, <2>2, <2>3 DEF Starts, N
<1>4. N + 1 \in Starts(t, lane) <=> Starting
  <2>1. (N + 1 + 1)..Len(t) = {} /\ N + 1 \in 1..Len(t)  BY <1>1
  <2> QED BY <1>1, <2>1 DEF Starts
<1>5. Starts(t, lane) = {j \in Starts(ms, lane) : Finishing => m.runId # ms[j].id}
                        \cup (IF Starting THEN {N + 1} ELSE {})
  <2>1. Starts(t, lane) \subseteq (1..N) \cup {N + 1}  BY <1>1 DEF Starts
  <2>2. Starts(ms, lane) \subseteq 1..N  BY DEF Starts, N
  <2>3. N + 1 \notin 1..N  BY <1>1
  <2> HIDE DEF Starting, Finishing
  <2> QED BY <1>3, <1>4, <2>1, <2>2, <2>3
<1>6. \A j \in Starts(ms, lane) : t[j].id = ms[j].id  BY <1>1 DEF Starts, N
<1>7. OpenIn(t, lane) = {x \in OpenIn(ms, lane) : Finishing => m.runId # x}
                        \cup (IF Starting THEN {m.id} ELSE {})
  <2>1. ASSUME NEW x \in OpenIn(t, lane)
        PROVE  x \in {y \in OpenIn(ms, lane) : Finishing => m.runId # y}
                     \cup (IF Starting THEN {m.id} ELSE {})
    <3>1. PICK i \in Starts(t, lane) : x = t[i].id  BY <2>1 DEF OpenIn
    <3> HIDE DEF Starting, Finishing
    <3>2. CASE i = N + 1 /\ Starting  BY <3>1, <3>2, <1>1
    <3>3. CASE i \in Starts(ms, lane) /\ (Finishing => m.runId # ms[i].id)
      BY <3>1, <3>3, <1>6 DEF OpenIn
    <3> QED BY <3>1, <3>2, <3>3, <1>5
  <2>2. ASSUME NEW x \in OpenIn(ms, lane), Finishing => m.runId # x
        PROVE  x \in OpenIn(t, lane)
    <3>1. PICK i \in Starts(ms, lane) : x = ms[i].id  BY <2>2 DEF OpenIn
    <3> HIDE DEF Starting, Finishing
    <3>2. i \in Starts(t, lane) /\ x = t[i].id  BY <3>1, <2>2, <1>5, <1>6
    <3> QED BY <3>2 DEF OpenIn
  <2>3. Starting => m.id \in OpenIn(t, lane)
    BY <1>1, <1>4 DEF OpenIn
  <2> HIDE DEF Starting, Finishing
  <2> QED BY <2>1, <2>2, <2>3
<1>8. CASE m.kind = "record" /\ m.lane = lane
  BY <1>2, <1>7, <1>8 DEF OpenAfter, t
<1>9. CASE ~(m.kind = "record" /\ m.lane = lane)
  BY <1>7, <1>9 DEF t
<1> QED BY <1>8, <1>9

\* The indexes agree with the journal, one mutation later.
LEMMA IndexesStep ==
  ASSUME NEW s \in State, NEW ms \in Seq(Mutations), NEW m \in Mutations, IndexesAgree(s, ms)
  PROVE  IndexesAgree(Apply(s, m), Append(ms, m))
<1> DEFINE t == Apply(s, m)
           ns == Append(ms, m)
<1>0. /\ ns \in Seq(Mutations) /\ ns[Len(ms) + 1] = m /\ Len(ms) \in Nat
      /\ \A n \in 1..Len(ms) : ns[n] = ms[n]
  OBVIOUS
<1>9. \A M : /\ LastOf(Positions(ms, M)) \in 0..Len(ms)
             /\ m \in M => /\ LastOf(Positions(ns, M)) > 0
                           /\ ns[LastOf(Positions(ns, M))] = m
             /\ m \notin M => /\ LastOf(Positions(ns, M)) = LastOf(Positions(ms, M))
                              /\ \A i \in 1..Len(ms) : ns[i] = ms[i]
  <2> TAKE M
  <2> DEFINE S == Positions(ms, M)
             T == Positions(ns, M)
             N == Len(ms)
  <2>1. N \in Nat /\ S \in SUBSET (1..N)  BY <1>0 DEF Positions
  <2>2. T = S \cup (IF m \in M THEN {N + 1} ELSE {})  BY <1>0, PositionsGrow
  <2>3. ns[N + 1] = m /\ \A n \in 1..N : ns[n] = ms[n]  BY <1>0
  <2> HIDE DEF S, T, N
  <2>4. LastOf(S) \in 0..N  BY <2>1, LastOfIn
  <2>5. CASE m \in M
    <3>1. T = S \cup {N + 1}  BY <2>2, <2>5
    <3>2. LastOf(T) = N + 1  BY <2>1, <3>1, LastOfNew
    <3>3. LastOf(T) > 0  BY <2>1, <3>2
    <3>4. ns[LastOf(T)] = m  BY <2>3, <3>2
    <3> QED BY <2>4, <2>5, <3>3, <3>4 DEF S, T, N
  <2>6. CASE m \notin M
    <3>1. LastOf(T) = LastOf(S)  BY <2>2, <2>6
    <3> QED BY <2>3, <2>4, <2>6, <3>1 DEF S, T, N
  <2> QED BY <2>5, <2>6
<1>1. ASSUME NEW lane \in Lanes PROVE t.lanes[lane] = LeafByJournal(ns, lane)
  <2> DEFINE here == LastOf(Positions(ms, Moving(lane)))
             later == LastOf(Positions(ns, Moving(lane)))
  <2>1. /\ {j \in 1..Len(ms) : ms[j].kind \in {"entry", "lane"} /\ ms[j].lane = lane}
             = Positions(ms, Moving(lane))
        /\ {j \in 1..Len(ns) : ns[j].kind \in {"entry", "lane"} /\ ns[j].lane = lane}
             = Positions(ns, Moving(lane))
    BY <1>0, Readings
  <2>2. /\ here \in 0..Len(ms)
        /\ m \in Moving(lane) => later > 0 /\ ns[later] = m
        /\ m \notin Moving(lane) => later = here /\ \A i \in 1..Len(ms) : ns[i] = ms[i]
    BY <1>9
  <2>3. LeafByJournal(ms, lane) =
          CASE here = 0 -> IF lane = Main THEN None ELSE Missing
            [] here > 0 -> IF ms[here].kind = "entry" THEN ms[here].id ELSE ms[here].leaf
    BY <2>1 DEF LeafByJournal
  <2>4. LeafByJournal(ns, lane) =
          CASE later = 0 -> IF lane = Main THEN None ELSE Missing
            [] later > 0 -> IF ns[later].kind = "entry" THEN ns[later].id ELSE ns[later].leaf
    BY <2>1 DEF LeafByJournal
  <2>5. s.lanes[lane] = LeafByJournal(ms, lane)  BY DEF IndexesAgree
  <2>6. t.lanes[lane] = IF m \in Moving(lane) THEN (IF m.kind = "entry" THEN m.id ELSE m.leaf)
                          ELSE s.lanes[lane]
    BY <1>0, ApplyIndexes
  <2> HIDE DEF here, later
  <2>7. CASE m \in Moving(lane)
    <3>1. later > 0 /\ ns[later] = m  BY <2>2, <2>7
    <3>2. ~(later = 0)  BY <3>1
    <3> QED BY <3>1, <3>2, <2>4, <2>6, <2>7
  <2>8. CASE m \notin Moving(lane)
    <3>1. CASE here = 0
      <4>1. later = 0 /\ ~(later > 0) /\ ~(here > 0)  BY <2>2, <2>8, <3>1
      <4> QED BY <4>1, <2>3, <2>4, <2>5, <2>6, <2>8, <3>1
    <3>2. CASE here > 0
      <4>1. later = here /\ ~(later = 0) /\ ns[later] = ms[here]
        BY <2>2, <2>8, <3>2
      <4> QED BY <4>1, <2>3, <2>4, <2>5, <2>6, <2>8, <3>2
    <3> QED BY <3>1, <3>2, <2>2
  <2> QED BY <2>7, <2>8
<1>2. ASSUME NEW lane \in Lanes PROVE t.openOps[lane] = OpenByJournal(ns, lane)
  <2>1. OpenByJournal(ms, lane) = OpenIn(ms, lane) /\ OpenByJournal(ns, lane) = OpenIn(ns, lane)
    BY DEF OpenByJournal, OpenIn, Starts
  <2>2. s.openOps[lane] = OpenByJournal(ms, lane)  BY DEF IndexesAgree
  <2>3. OpenIn(ns, lane) =
           IF m.kind = "record" /\ m.lane = lane THEN OpenAfter(OpenIn(ms, lane), m)
           ELSE OpenIn(ms, lane)
    BY <1>0, OpenGrows
  <2>4. t.openOps[lane] =
           IF m.kind = "record" /\ m.lane = lane THEN OpenAfter(s.openOps[lane], m)
           ELSE s.openOps[lane]
    BY <1>0, ApplyIndexes
  <2> QED BY <2>1, <2>2, <2>3, <2>4
<1>3. ASSUME NEW id \in Ids PROVE t.labels[id] = LabelByJournal(ns, id)
  <2> DEFINE here == LastOf(Positions(ms, Labelling(id)))
             later == LastOf(Positions(ns, Labelling(id)))
  <2>1. /\ {j \in 1..Len(ms) : ms[j].kind = "label" /\ ms[j].target = id}
             = Positions(ms, Labelling(id))
        /\ {j \in 1..Len(ns) : ns[j].kind = "label" /\ ns[j].target = id}
             = Positions(ns, Labelling(id))
    BY <1>0, Readings
  <2>2. /\ here \in 0..Len(ms)
        /\ m \in Labelling(id) => later > 0 /\ ns[later] = m
        /\ m \notin Labelling(id) => later = here /\ \A i \in 1..Len(ms) : ns[i] = ms[i]
    BY <1>9
  <2>3. LabelByJournal(ms, id) = IF here = 0 \/ (here > 0 /\ ms[here].label = None) THEN Missing
                             ELSE ms[here].label
    BY <2>1 DEF LabelByJournal
  <2>4. LabelByJournal(ns, id) = IF later = 0 \/ (later > 0 /\ ns[later].label = None) THEN Missing
                              ELSE ns[later].label
    BY <2>1 DEF LabelByJournal
  <2>5. s.labels[id] = LabelByJournal(ms, id)  BY DEF IndexesAgree
  <2>6. t.labels[id] = IF m \in Labelling(id) THEN (IF m.label = None THEN Missing ELSE m.label)
                         ELSE s.labels[id]
    BY <1>0, ApplyIndexes
  <2> HIDE DEF here, later
  <2>7. CASE m \in Labelling(id)
    <3>1. later > 0 /\ ns[later] = m  BY <2>2, <2>7
    <3>2. ~(later = 0)  BY <3>1
    <3> QED BY <3>1, <3>2, <2>4, <2>6, <2>7
  <2>8. CASE m \notin Labelling(id)
    <3>1. CASE here = 0
      <4>1. later = 0  BY <2>2, <2>8, <3>1
      <4> QED BY <4>1, <2>3, <2>4, <2>5, <2>6, <2>8, <3>1
    <3>2. CASE here > 0
      <4>1. later = here /\ ~(later = 0) /\ ns[later] = ms[here]
        BY <2>2, <2>8, <3>2
      <4> QED BY <4>1, <2>3, <2>4, <2>5, <2>6, <2>8, <3>2
    <3> QED BY <3>1, <3>2, <2>2
  <2> QED BY <2>7, <2>8
<1>4. t.messages = Cardinality({i \in 1..Len(ns) :
                       ns[i].kind = "entry" /\ ns[i].type = "message"})
  <2> DEFINE here == Positions(ms, Messages)
             later == Positions(ns, Messages)
  <2>1. /\ here = {i \in 1..Len(ms) : ms[i].kind = "entry" /\ ms[i].type = "message"}
        /\ later = {i \in 1..Len(ns) : ns[i].kind = "entry" /\ ns[i].type = "message"}
    BY <1>0, Readings
  <2>2. later = here \cup (IF m \in Messages THEN {Len(ms) + 1} ELSE {})
    BY <1>0, PositionsGrow
  <2>3. s.messages = Cardinality(here)  BY <2>1 DEF IndexesAgree
  <2>4. t.messages = IF m \in Messages THEN s.messages + 1 ELSE s.messages
    BY <1>0, ApplyIndexes
  <2>5. IsFiniteSet(here) /\ Len(ms) + 1 \notin here
    <3>1. Len(ms) \in Nat /\ here \subseteq 1..Len(ms)  BY <1>0 DEF Positions
    <3>2. IsFiniteSet(1..Len(ms))  BY <3>1, FS_Interval
    <3> HIDE DEF here
    <3>3. Len(ms) + 1 \notin 1..Len(ms)  BY <3>1
    <3> QED BY <3>1, <3>2, <3>3, FS_Subset
  <2> HIDE DEF here, later
  <2>6. Cardinality(here \cup {Len(ms) + 1}) = Cardinality(here) + 1
    BY <2>5, FS_AddElement
  <2>7. t.messages = Cardinality(later)  BY <2>2, <2>3, <2>4, <2>6
  <2> QED BY <2>1, <2>7
<1> QED BY <1>1, <1>2, <1>3, <1>4 DEF IndexesAgree, t, ns

\* An empty journal has nothing to say.
LEMMA IndexesInit == IndexesAgree(EmptyState, <<>>)
<1>1. Len(<<>>) = 0 /\ 1..Len(<<>>) = {}
  OBVIOUS
<1>2. \A lane \in Lanes : LeafByJournal(<<>>, lane) = IF lane = Main THEN None ELSE Missing
  BY <1>1 DEF LeafByJournal, LastOf
<1>3. \A lane \in Lanes : OpenByJournal(<<>>, lane) = {}  BY <1>1 DEF OpenByJournal
<1>4. \A id \in Ids : LabelByJournal(<<>>, id) = Missing  BY <1>1 DEF LabelByJournal, LastOf
<1>5. {i \in 1..Len(<<>>) : <<>>[i].kind = "entry" /\ <<>>[i].type = "message"} = {}
  BY <1>1
<1>6. Cardinality({}) = 0  BY FS_EmptySet
<1> QED BY <1>1, <1>2, <1>3, <1>4, <1>5, <1>6 DEF IndexesAgree, EmptyState

-----------------------------------------------------------------------------
(* What holds of every load.                                               *)

\* The entries have a seq each, from 1 on; the lanes are finitely many, and main
\* is one.
Grounded(s) ==
  /\ \A a \in Ids : HasEntry(s, a) => s.entries[a].seq \in 1..s.sequence
  /\ \A a, b \in Ids : HasEntry(s, a) /\ HasEntry(s, b) /\ s.entries[a].seq = s.entries[b].seq
       => a = b
  /\ IsFiniteSet({lane \in Lanes : HasLane(s, lane)})
  /\ HasLane(s, Main)

\* An accepted mutation keeps that: an entry's seq is new, and at most one lane
\* comes.
LEMMA ApplyGrounded ==
  ASSUME NEW s \in State, NEW m \in Mutations, CanApply(s, m), WellFormed(s), Grounded(s)
  PROVE  Grounded(Apply(s, m))
<1> DEFINE t == Apply(s, m)
           old == {lane \in Lanes : HasLane(s, lane)}
           new == {lane \in Lanes : HasLane(t, lane)}
<1>1. t \in State /\ t.sequence = s.sequence + 1  BY ApplyType
<1>2. \A lane \in Lanes : t.lanes[lane] =
              IF m \in Moving(lane) THEN (IF m.kind = "entry" THEN m.id ELSE m.leaf)
              ELSE s.lanes[lane]
  BY ApplyIndexes
<1>3. m.kind \in {"entry", "lane"} =>
        (IF m.kind = "entry" THEN m.id ELSE m.leaf) \in Ids \cup {None}
  BY DEF Mutations, EntryMutations, RecordMutations, LaneMutations, NameMutations, LabelMutations
<1>4. HasLane(t, Main)
  BY <1>2, <1>3, NamesAssumption DEF HasLane, Grounded, Moving
<1>5. new \subseteq old \cup {m.lane}  BY <1>2 DEF HasLane, Moving
<1>6. IsFiniteSet(new)
  <2>1. IsFiniteSet(old)  BY DEF Grounded
  <2> HIDE DEF old, new
  <2>2. IsFiniteSet(old \cup {m.lane})  BY <2>1, FS_AddElement
  <2> QED BY <1>5, <2>2, FS_Subset
<1>7. ASSUME NEW a \in Ids, NEW b \in Ids, HasEntry(t, a), HasEntry(t, b),
             t.entries[a].seq = t.entries[b].seq
      PROVE  a = b
  <2>1. CASE m \notin EntryMutations
    <3>1. t.entries = s.entries
      BY <2>1 DEF Apply, ApplyRecord, ApplyLane, ApplyName, ApplyLabel, State, Mutations,
                  RecordMutations, LaneMutations, NameMutations, LabelMutations
    <3> QED BY <1>7, <3>1 DEF Grounded, HasEntry
  <2>2. CASE m \in EntryMutations
    <3> DEFINE e == [parent |-> m.parent, type |-> m.type, seq |-> m.seq]
    <3>1. t = ApplyEntry(s, m) /\ m.id \in Ids /\ m.seq = s.sequence + 1
      BY <2>2 DEF Apply, EntryMutations, CanApply
    <3>2. t.entries = [s.entries EXCEPT ![m.id] = e] /\ s.entries \in [Ids -> Entry \cup {Missing}]
          /\ s.sequence \in Nat
      BY <3>1 DEF ApplyEntry, State
    <3>3. \A id \in Ids : HasEntry(s, id) => s.entries[id].seq \in Nat /\ s.entries[id].seq <= s.sequence
      BY <3>2 DEF WellFormed, ParentsFirst, HasEntry, Entry
    <3>4. \A id \in Ids : HasEntry(t, id) =>
            \/ id = m.id /\ t.entries[id].seq = s.sequence + 1
            \/ id # m.id /\ HasEntry(s, id) /\ t.entries[id] = s.entries[id]
      <4> HIDE DEF t
      <4> TAKE id \in Ids
      <4>1. t.entries[id] = IF id = m.id THEN e ELSE s.entries[id]  BY <3>1, <3>2
      <4>2. e.seq = s.sequence + 1  BY <3>1
      <4> QED BY <4>1, <4>2 DEF HasEntry
    <3> HIDE DEF t
    <3>5. CASE a = m.id /\ b # m.id
      <4>1. s.entries[b].seq <= s.sequence /\ s.entries[b].seq \in Nat /\ s.sequence + 1 = s.entries[b].seq
        BY <1>7, <3>3, <3>4, <3>5
      <4> QED BY <4>1, <3>2
    <3>6. CASE a # m.id /\ b = m.id
      <4>1. s.entries[a].seq <= s.sequence /\ s.entries[a].seq \in Nat /\ s.sequence + 1 = s.entries[a].seq
        BY <1>7, <3>3, <3>4, <3>6
      <4> QED BY <4>1, <3>2
    <3>7. CASE a # m.id /\ b # m.id
      BY <1>7, <3>4, <3>7 DEF Grounded
    <3> QED BY <3>5, <3>6, <3>7
  <2> QED BY <2>1, <2>2
<1>8. ASSUME NEW a \in Ids, HasEntry(t, a) PROVE t.entries[a].seq \in 1..t.sequence
  <2>1. CASE m \notin EntryMutations
    <3>1. t.entries = s.entries
      BY <2>1 DEF Apply, ApplyRecord, ApplyLane, ApplyName, ApplyLabel, State, Mutations,
                  RecordMutations, LaneMutations, NameMutations, LabelMutations
    <3>2. s.entries[a].seq \in 1..s.sequence  BY <1>8, <3>1 DEF Grounded, HasEntry
    <3>3. s.sequence \in Nat  BY DEF State
    <3> HIDE DEF t
    <3> QED BY <1>1, <3>1, <3>2, <3>3
  <2>2. CASE m \in EntryMutations
    <3> DEFINE e == [parent |-> m.parent, type |-> m.type, seq |-> m.seq]
    <3>1. t = ApplyEntry(s, m) /\ m.id \in Ids /\ m.seq = s.sequence + 1
      BY <2>2 DEF Apply, EntryMutations, CanApply
    <3>2. t.entries = [s.entries EXCEPT ![m.id] = e] /\ s.entries \in [Ids -> Entry \cup {Missing}]
          /\ s.sequence \in Nat
      BY <3>1 DEF ApplyEntry, State
    <3> HIDE DEF t
    <3>3. CASE a = m.id
      <4>1. t.entries[a].seq = s.sequence + 1  BY <3>1, <3>2, <3>3
      <4> QED BY <1>1, <3>2, <4>1
    <3>4. CASE a # m.id
      <4>1. t.entries[a] = s.entries[a]  BY <3>1, <3>2, <3>4
      <4>2. s.entries[a].seq \in 1..s.sequence  BY <1>8, <4>1 DEF Grounded, HasEntry
      <4> QED BY <1>1, <3>2, <4>1, <4>2
    <3> QED BY <3>3, <3>4
  <2> QED BY <2>1, <2>2
<1> QED BY <1>4, <1>6, <1>7, <1>8 DEF Grounded

\* A load that met no error has a state made of its journal.
Made(load, ms) ==
  load.ok => /\ load.state.sequence = Len(ms)
             /\ WellFormed(load.state) /\ Grounded(load.state)
             /\ IndexesAgree(load.state, ms)

\* So has an empty one.
LEMMA EmptyMade == Made([ok |-> TRUE, state |-> EmptyState], <<>>)
<1>1. WellFormed(EmptyState)
  BY NamesAssumption
     DEF EmptyState, WellFormed, ParentsFirst, ReferencesFound, IdsSplit,
         IsInjective, OpenAreStarted, HasEntry
<1>2. {lane \in Lanes : HasLane(EmptyState, lane)} = {Main}
  BY NamesAssumption DEF EmptyState, HasLane
<1>3. IsFiniteSet({Main})  BY FS_Singleton
<1>4. HasLane(EmptyState, Main)  BY NamesAssumption DEF EmptyState, HasLane
<1>5. \A a \in Ids : ~HasEntry(EmptyState, a)  BY DEF EmptyState, HasEntry
<1>6. Grounded(EmptyState)  BY <1>2, <1>3, <1>4, <1>5 DEF Grounded
<1>7. EmptyState.sequence = 0 /\ Len(<<>>) = 0  BY DEF EmptyState
<1> QED BY <1>1, <1>6, <1>7, IndexesInit DEF Made

\* A load is one, and its state is made of the journal.
LEMMA ReplayMade ==
  \A ms \in Seq(Mutations) : Replay(ms) \in Loads /\ Made(Replay(ms), ms)
<1> DEFINE P == {ms \in Seq(Mutations) : Replay(ms) \in Loads /\ Made(Replay(ms), ms)}
<1>1. <<>> \in P
  <2>1. <<>> \in Seq(Mutations)  OBVIOUS
  <2> QED BY <2>1, ReplayEmpty, EmptyLoad, EmptyMade
<1>2. ASSUME NEW ms \in Seq(Mutations), NEW m \in Mutations, ms \in P PROVE Append(ms, m) \in P
  <2> DEFINE load == Replay(ms)
             next == Replay(Append(ms, m))
  <2>1. load \in Loads /\ Made(load, ms)  BY <1>2
  <2>2. next = ReplayOne(load, m)  BY ReplayAppend
  <2>3. Append(ms, m) \in Seq(Mutations) /\ Len(Append(ms, m)) = Len(ms) + 1  OBVIOUS
  <2> HIDE DEF load, next
  <2>4. next \in Loads  BY <2>1, <2>2, ReplayOneType
  <2>5. Made(next, Append(ms, m))
    <3>1. CASE load.ok /\ CanApply(load.state, m)
      <4>1. next.state = Apply(load.state, m)  BY <2>1, <2>2, <3>1 DEF ReplayOne, Loads
      <4>2. load.state \in State /\ WellFormed(load.state) /\ Grounded(load.state)
            /\ IndexesAgree(load.state, ms) /\ load.state.sequence = Len(ms)
        BY <2>1, <3>1 DEF Loads, Made
      <4>3. WellFormed(next.state)  BY <3>1, <4>1, <4>2, ApplyWellFormed
      <4>4. Grounded(next.state)  BY <3>1, <4>1, <4>2, ApplyGrounded
      <4>5. IndexesAgree(next.state, Append(ms, m))  BY <4>1, <4>2, IndexesStep
      <4>6. next.state.sequence = Len(ms) + 1  BY <3>1, <4>1, <4>2, ApplyType
      <4> QED BY <2>3, <4>3, <4>4, <4>5, <4>6 DEF Made
    <3>2. CASE ~(load.ok /\ CanApply(load.state, m))
      <4>1. ~next.ok  BY <2>1, <2>2, <3>2 DEF ReplayOne, Loads
      <4> QED BY <4>1 DEF Made
    <3> QED BY <3>1, <3>2
  <2> QED BY <2>3, <2>4, <2>5 DEF next
<1> HIDE DEF P
<1>3. Seq(Mutations) \subseteq P  BY <1>1, <1>2, SeqSetInduction
<1> QED BY <1>3 DEF P

\* A load that goes on keeps what it had.
LEMMA ReplayKeeps ==
  ASSUME NEW ms \in Seq(Mutations)
  PROVE  \A ns \in Seq(Mutations) : Replay(ms \o ns).ok =>
           Replay(ms).ok /\ Kept(Replay(ms).state, Replay(ms \o ns).state)
<1> DEFINE Keeps(ns) == Replay(ms \o ns).ok =>
                          Replay(ms).ok /\ Kept(Replay(ms).state, Replay(ms \o ns).state)
           P == {ns \in Seq(Mutations) : Keeps(ns)}
<1>1. <<>> \in P
  <2>1. <<>> \in Seq(Mutations) /\ ms \o <<>> = ms  OBVIOUS
  <2>2. \A s : Kept(s, s)  BY DEF Kept, HasLane
  <2> QED BY <2>1, <2>2
<1>2. ASSUME NEW ns \in Seq(Mutations), NEW m \in Mutations, ns \in P PROVE Append(ns, m) \in P
  <2> DEFINE so == ms \o ns
             load == Replay(so)
             next == Replay(Append(so, m))
  <2>1. so \in Seq(Mutations) /\ ms \o Append(ns, m) = Append(so, m) /\ Append(ns, m) \in Seq(Mutations)
    OBVIOUS
  <2>2. Keeps(ns)  BY <1>2
  <2> HIDE DEF so
  <2>3. load \in Loads /\ Made(load, so) /\ next = ReplayOne(load, m)
    BY <2>1, ReplayMade, ReplayAppend
  <2> HIDE DEF load, next
  <2>4. ASSUME next.ok PROVE Replay(ms).ok /\ Kept(Replay(ms).state, next.state)
    <3>1. load.ok /\ CanApply(load.state, m) /\ next.state = Apply(load.state, m)
          /\ load.state \in State
      BY <2>3, <2>4 DEF ReplayOne, Loads
    <3>2. WellFormed(load.state)  BY <2>3, <3>1 DEF Made
    <3>3. Kept(load.state, next.state)  BY <3>1, <3>2, ApplyKeeps
    <3>4. Replay(ms).ok /\ Kept(Replay(ms).state, load.state)  BY <2>2, <3>1 DEF load, so
    <3>5. \A s, t, u : Kept(s, t) /\ Kept(t, u) => Kept(s, u)  BY DEF Kept, HasLane
    <3> QED BY <3>3, <3>4, <3>5
  <2> QED BY <2>1, <2>4 DEF next
<1> HIDE DEF P
<1>3. Seq(Mutations) \subseteq P  BY <1>1, <1>2, SeqSetInduction
<1> QED BY <1>3 DEF P

-----------------------------------------------------------------------------
(* What a fork copies.                                                     *)

\* A session as accepted mutations leave it.
Good(s) == s \in State /\ WellFormed(s) /\ Grounded(s)

\* The order of appending.
Older(s) == {p \in Ids \X Ids : s.entries[p[1]].seq < s.entries[p[2]].seq}

\* It is strict.
LEMMA OlderStrict ==
  ASSUME NEW s, Good(s)
  PROVE  \A a, b \in EntriesOf(s) :
           /\ <<a, b>> \in Older(s) <=> s.entries[a].seq < s.entries[b].seq
           /\ <<a, b>> \in Older(s) => <<b, a>> \notin Older(s)
<1> SUFFICES ASSUME NEW a \in EntriesOf(s), NEW b \in EntriesOf(s)
             PROVE  /\ <<a, b>> \in Older(s) <=> s.entries[a].seq < s.entries[b].seq
                    /\ <<a, b>> \in Older(s) => <<b, a>> \notin Older(s)
  OBVIOUS
<1>1. /\ <<a, b>> \in Ids \X Ids /\ <<a, b>>[1] = a /\ <<a, b>>[2] = b
      /\ <<b, a>> \in Ids \X Ids /\ <<b, a>>[1] = b /\ <<b, a>>[2] = a
  BY DEF EntriesOf
<1>2. s.sequence \in Nat  BY DEF Good, State
<1>3. s.entries[a].seq \in 1..s.sequence /\ s.entries[b].seq \in 1..s.sequence
  BY DEF Good, Grounded, EntriesOf
<1>4. s.entries[a].seq \in Nat /\ s.entries[b].seq \in Nat  BY <1>2, <1>3
<1>5. <<a, b>> \in Older(s) <=> s.entries[a].seq < s.entries[b].seq  BY <1>1 DEF Older
<1>6. <<b, a>> \in Older(s) <=> s.entries[b].seq < s.entries[a].seq  BY <1>1 DEF Older
<1> QED BY <1>4, <1>5, <1>6

\* The entries are a forest, by their parents.
LEMMA EntriesForest ==
  ASSUME NEW s, Good(s)
  PROVE  Forest(EntriesOf(s), [i \in EntriesOf(s) |-> s.entries[i].parent],
                [i \in EntriesOf(s) |-> s.entries[i].seq], s.sequence, None)
<1> DEFINE E == EntriesOf(s)
           up == [i \in E |-> s.entries[i].parent]
           rank == [i \in E |-> s.entries[i].seq]
<1>1. s.sequence \in Nat  BY DEF Good, State
<1>2. rank \in [E -> 1..s.sequence]  BY DEF Good, Grounded, EntriesOf
<1>3. \A i \in E : s.entries[i] \in Entry  BY DEF Good, State, EntriesOf, HasEntry
<1>4. None \notin E  BY NamesAssumption DEF EntriesOf
<1>5. ASSUME NEW i \in E, s.entries[i].parent # None
      PROVE  s.entries[i].parent \in E /\ rank[s.entries[i].parent] < rank[i]
  <2>1. s.entries[i].parent \in Ids  BY <1>3, <1>5 DEF Entry
  <2>2. HasEntry(s, s.entries[i].parent)
        /\ s.entries[s.entries[i].parent].seq < s.entries[i].seq
    BY <1>5 DEF Good, WellFormed, ParentsFirst, EntriesOf
  <2> QED BY <2>1, <2>2 DEF EntriesOf
<1>6. up \in [E -> E \cup {None}]  BY <1>5
<1> QED BY <1>1, <1>2, <1>4, <1>5, <1>6 DEF Forest

\* f gives the path from its root to every entry.
IsPath(f, s) ==
  f = [i \in EntriesOf(s) |-> IF s.entries[i].parent = None THEN <<i>>
                              ELSE Append(f[s.entries[i].parent], i)]

\* There is a path to every entry.
LEMMA PathExists ==
  ASSUME NEW s, Good(s)
  PROVE  \E f : IsPath(f, s) /\ \A id : PathTo(s, id) = f[id]
<1> DEFINE E == EntriesOf(s)
           up == [i \in E |-> s.entries[i].parent]
           rank == [i \in E |-> s.entries[i].seq]
           V == Seq(Ids)
           base == [i \in E |-> <<i>>]
           step == [p \in E \X V |-> Append(p[2], p[1])]
<1>1. Forest(E, up, rank, s.sequence, None)  BY EntriesForest
<1>2. E \subseteq Ids  BY DEF EntriesOf
<1> HIDE DEF E
<1>3. base \in [E -> V] /\ step \in [E \X V -> V]  BY <1>2
<1> HIDE DEF base, step, up, rank, V
<1>4. PICK f \in [E -> V] :
        \A i \in E : f[i] = IF up[i] = None THEN base[i] ELSE step[<<i, f[up[i]]>>]
  <2>1. Recursive(E, up, None, V)  BY <1>1, ForestRecursion
  <2>2. \A b \in [E -> V], t \in [E \X V -> V] : \E f \in [E -> V] :
          \A i \in E : f[i] = IF up[i] = None THEN b[i] ELSE t[<<i, f[up[i]]>>]
    BY <2>1 DEF Recursive
  <2>3. base \in [E -> V] /\ step \in [E \X V -> V]  BY <1>3
  <2> QED BY <2>2, <2>3
<1>5. \A i \in E : f[i] = IF s.entries[i].parent = None THEN <<i>>
                          ELSE Append(f[s.entries[i].parent], i)
  <2> TAKE i \in E
  <2>1. up[i] = s.entries[i].parent /\ base[i] = <<i>>  BY DEF up, base
  <2>2. up[i] # None => f[up[i]] \in V  BY <1>1 DEF Forest
  <2>3. up[i] # None => step[<<i, f[up[i]]>>] = Append(f[up[i]], i)  BY <2>2 DEF step
  <2> QED BY <1>4, <2>1, <2>3
<1>6. IsPath(f, s)
  <2>1. f = [i \in E |-> f[i]]  OBVIOUS
  <2> QED BY <1>5, <2>1 DEF IsPath, E
<1> DEFINE c == CHOOSE h : IsPath(h, s)
<1>7. IsPath(c, s)  BY <1>6
<1>8. \A id : PathTo(s, id) = c[id]  BY DEF PathTo, IsPath
<1> HIDE DEF c
<1> QED BY <1>7, <1>8

\* A branch: from a root to an entry, each the parent of the next.
Branch(s, p, id) ==
  /\ p \in Seq(EntriesOf(s)) /\ Len(p) \in Nat \ {0}
  /\ p[Len(p)] = id /\ s.entries[p[1]].parent = None
  /\ \A k \in 1..Len(p) : k # 1 => s.entries[p[k]].parent = p[k - 1]
  /\ Chain(p, Older(s))
  /\ \A x \in Elements(p) : x = id \/ <<x, id>> \in Older(s)

\* A path is a branch.
LEMMA PathIsBranch ==
  ASSUME NEW s, Good(s), NEW f, IsPath(f, s)
  PROVE  \A id \in EntriesOf(s) : Branch(s, f[id], id)
<1> DEFINE E == EntriesOf(s)
           up == [i \in E |-> s.entries[i].parent]
           rank == [i \in E |-> s.entries[i].seq]
           S == {i \in E : Branch(s, f[i], i)}
<1>1. Forest(E, up, rank, s.sequence, None)  BY EntriesForest
<1>2. \A i \in E : f[i] = IF s.entries[i].parent = None THEN <<i>>
                          ELSE Append(f[s.entries[i].parent], i)
  BY DEF IsPath
<1>3. ASSUME NEW i \in E, up[i] # None => up[i] \in S PROVE i \in S
  <2>1. CASE up[i] = None
    <3>1. f[i] = <<i>>  BY <1>2, <2>1
    <3>2. <<i>> \in Seq(E) /\ Len(<<i>>) = 1 /\ <<i>>[1] = i /\ Elements(<<i>>) = {i}
      BY DEF Elements
    <3>3. Chain(<<i>>, Older(s))  BY DEF Chain
    <3>4. Branch(s, <<i>>, i)  BY <2>1, <3>2, <3>3 DEF Branch
    <3> QED BY <3>1, <3>4
  <2>2. CASE up[i] # None
    <3> DEFINE u == s.entries[i].parent
               p == f[u]
               N == Len(p)
               q == Append(p, i)
    <3>1. u \in E /\ Branch(s, p, u) /\ rank[u] < rank[i]
      BY <1>1, <1>3, <2>2 DEF Forest
    <3>2. f[i] = q  BY <1>2, <2>2
    <3>4. s.entries[u].seq < s.entries[i].seq  BY <3>1
    <3> HIDE DEF p, u, E
    <3>3. p \in Seq(E) /\ N \in Nat /\ N >= 1 /\ p[N] = u
      <4>1. p \in Seq(E) /\ p[N] = u /\ N \in Nat \ {0}  BY <3>1 DEF Branch, E
      <4> QED BY <4>1
    <3>5. /\ q \in Seq(E) /\ Len(q) = N + 1 /\ q[N + 1] = i
          /\ \A k \in 1..N : q[k] = p[k]
      BY <3>3
    <3>6. Elements(q) = Elements(p) \cup {i}  BY <3>3, ElementsAppend
    <3>7. \A x \in Elements(p) : x \in E /\ <<x, i>> \in Older(s)
      <4> TAKE x \in Elements(p)
      <4>1. x \in E  BY <3>3 DEF Elements
      <4>2. x = u \/ <<x, u>> \in Older(s)  BY <3>1 DEF Branch
      <4>3. x = u \/ s.entries[x].seq < s.entries[u].seq  BY <3>1, <4>1, <4>2, OlderStrict DEF E
      <4>4. \A y \in E : s.entries[y].seq \in Nat  BY DEF E, EntriesOf, Good, State, HasEntry, Entry
      <4>5. s.entries[x].seq < s.entries[i].seq  BY <3>1, <3>4, <4>1, <4>3, <4>4
      <4> QED BY <4>1, <4>5, OlderStrict DEF E
    <3>8. Chain(q, Older(s))  BY <3>1, <3>3, <3>7, ChainAppend DEF Branch
    <3> HIDE DEF q, N
    <3>9. ASSUME NEW k \in 1..Len(q), k # 1 PROVE s.entries[q[k]].parent = q[k - 1]
      <4>1. CASE k = N + 1
        <5>1. q[k] = i /\ k - 1 = N /\ N \in 1..N  BY <3>3, <3>5, <4>1
        <5> QED BY <3>3, <3>5, <5>1 DEF u
      <4>2. CASE k # N + 1
        <5>1. k \in 1..N /\ k - 1 \in 1..N  BY <3>3, <3>5, <3>9, <4>2
        <5> QED BY <3>1, <3>5, <3>9, <5>1 DEF Branch, N
      <4> QED BY <4>1, <4>2
    <3>10. s.entries[q[1]].parent = None
      <4>1. 1 \in 1..N  BY <3>3
      <4> QED BY <3>1, <3>5, <4>1 DEF Branch
    <3>11. Branch(s, q, i)
      BY <3>3, <3>5, <3>6, <3>7, <3>8, <3>9, <3>10 DEF Branch, E
    <3> QED BY <3>2, <3>11 DEF E
  <2> QED BY <2>1, <2>2
<1> HIDE DEF E, up, rank, S
<1>4. E \subseteq S  BY <1>1, <1>3, ForestInduction
<1> QED BY <1>4 DEF S, E

\* The entries, oldest first, are all there, in their order.
LEMMA OldestFirstIs ==
  ASSUME NEW s, Good(s)
  PROVE  /\ OldestFirst(s) \in Seq(EntriesOf(s))
         /\ Elements(OldestFirst(s)) = EntriesOf(s)
         /\ Chain(OldestFirst(s), Older(s))
<1> DEFINE E == EntriesOf(s)
           S == {s.entries[i].seq : i \in E}
           places == [n \in 1..s.sequence |-> n]
           seqs == Within(places, S)
           At(k) == CHOOSE i \in E : s.entries[i].seq = seqs[k]
           c == [k \in 1..Len(seqs) |-> At(k)]
           Less == {p \in Nat \X Nat : p[1] < p[2]}
<1>1. s.sequence \in Nat  BY DEF Good, State
<1>2. S \subseteq 1..s.sequence  BY DEF Good, Grounded, EntriesOf
<1>3. places \in Seq(Nat) /\ Len(places) = s.sequence  BY <1>1
<1>4. Elements(places) = 1..s.sequence
  <2>1. \A n \in 1..s.sequence : n \in 1..Len(places) /\ places[n] = n  BY <1>3
  <2> HIDE DEF places
  <2> QED BY <1>3, <2>1 DEF Elements
<1>5. Chain(places, Less)
  <2>1. \A n \in 1..Len(places) : places[n] = n /\ n \in Nat  BY <1>1, <1>3
  <2>2. \A j, k \in Nat : j < k => <<j, k>> \in Less  OBVIOUS
  <2> HIDE DEF places, Less
  <2> QED BY <2>1, <2>2 DEF Chain
<1> HIDE DEF E, places, S, Less
<1>6. seqs \in Seq(Nat) /\ Chain(seqs, Less) /\ Elements(seqs) = Elements(places) \cap S
  BY <1>3, <1>5, WithinType, WithinChain, WithinElements
<1> HIDE DEF seqs
<1>7. Elements(seqs) = S  BY <1>2, <1>4, <1>6
<1>8. \A k \in 1..Len(seqs) : c[k] \in E /\ s.entries[c[k]].seq = seqs[k]
  <2> TAKE k \in 1..Len(seqs)
  <2>1. seqs[k] \in S  BY <1>7 DEF Elements
  <2>2. \E i \in E : s.entries[i].seq = seqs[k]  BY <2>1 DEF S
  <2>3. At(k) \in E /\ s.entries[At(k)].seq = seqs[k]  BY <2>2
  <2> HIDE DEF At
  <2> QED BY <2>3
<1>9. Len(seqs) \in Nat  BY <1>6
<1>10. c \in Seq(E) /\ Len(c) = Len(seqs)
  <2> HIDE DEF At
  <2> QED BY <1>8, <1>9
<1> HIDE DEF c
<1>11. Elements(c) = E
  <2>1. ASSUME NEW x \in E PROVE x \in Elements(c)
    <3>1. s.entries[x].seq \in Elements(seqs)  BY <1>7 DEF S
    <3>2. PICK k \in 1..Len(seqs) : s.entries[x].seq = seqs[k]  BY <3>1 DEF Elements
    <3>3. c[k] \in E /\ s.entries[c[k]].seq = s.entries[x].seq  BY <1>8, <3>2
    <3>4. c[k] = x  BY <3>3 DEF E, Good, Grounded, EntriesOf
    <3> QED BY <1>10, <3>4 DEF Elements
  <2> QED BY <1>10, <2>1 DEF Elements
<1>12. Chain(c, Older(s))
  <2> SUFFICES ASSUME NEW j \in 1..Len(seqs), NEW k \in 1..Len(seqs), j < k
               PROVE  <<c[j], c[k]>> \in Older(s)
    BY <1>10 DEF Chain
  <2>1. <<seqs[j], seqs[k]>> \in Less  BY <1>6 DEF Chain
  <2>2. seqs[j] < seqs[k]  BY <2>1 DEF Less
  <2>3. c[j] \in E /\ c[k] \in E /\ s.entries[c[j]].seq < s.entries[c[k]].seq  BY <1>8, <2>2
  <2> QED BY <2>3, OlderStrict DEF E
<1>13. OldestFirst(s) = c  BY DEF OldestFirst, c, seqs, places, S, E
<1> QED BY <1>10, <1>11, <1>12, <1>13 DEF E

\* What can be copied: entries in their order, with their parents.
Copying(s, c) ==
  /\ c \in Seq(EntriesOf(s)) /\ Chain(c, Older(s))
  /\ \A x \in Elements(c) : s.entries[x].parent # None => s.entries[x].parent \in Elements(c)

\* What a fork is to start from.
Copied(s, o, c) ==
  /\ Copying(s, c)
  /\ o.scope = "tree" => Elements(c) = EntriesOf(s)
  /\ o.scope = "branch" =>
       IF ForkTarget(s, o) = None THEN c = <<>> ELSE Branch(s, c, ForkTarget(s, o))

\* The target of a fork is an entry, if there is one.
LEMMA TargetFound ==
  ASSUME NEW s, Good(s), NEW o \in BranchOptions, ValidForkTarget(s, o)
  PROVE  ForkTarget(s, o) \in EntriesOf(s) \cup {None}
<1>1. Selected(s, o) # None => Selected(s, o) \in EntriesOf(s)
  BY DEF ValidForkTarget, BranchOptions, EntriesOf, HasEntry
<1>2. \A i \in EntriesOf(s) : s.entries[i].parent \in EntriesOf(s) \cup {None}
  <2> TAKE i \in EntriesOf(s)
  <2>1. s.entries[i] \in Entry  BY DEF Good, State, EntriesOf, HasEntry
  <2>2. s.entries[i].parent # None => HasEntry(s, s.entries[i].parent)
    BY DEF Good, WellFormed, ParentsFirst, EntriesOf
  <2> QED BY <2>1, <2>2 DEF Entry, EntriesOf
<1> QED BY <1>1, <1>2 DEF ForkTarget

\* A branch brings its parents.
LEMMA BranchCopies ==
  ASSUME NEW s, NEW p, NEW id, Branch(s, p, id)
  PROVE  Copying(s, p)
<1>1. ASSUME NEW x \in Elements(p), s.entries[x].parent # None
      PROVE  s.entries[x].parent \in Elements(p)
  <2>1. PICK k \in 1..Len(p) : x = p[k]  BY DEF Elements
  <2>2. k # 1  BY <1>1, <2>1 DEF Branch
  <2>3. s.entries[x].parent = p[k - 1]  BY <2>1, <2>2 DEF Branch
  <2>4. k - 1 \in 1..Len(p)  BY <2>1, <2>2 DEF Branch
  <2> QED BY <2>3, <2>4 DEF Elements
<1> QED BY <1>1 DEF Branch, Copying

\* What a fork copies is fit to copy.
LEMMA CopiedSound ==
  ASSUME NEW s, Good(s), NEW o \in ForkOptions, ValidForkTarget(s, o)
  PROVE  Copied(s, o, CopiedEntries(s, o))
<1>1. CASE o.scope = "tree"
  <2> DEFINE c == CopiedEntries(s, o)
  <2>1. c = OldestFirst(s)  BY <1>1 DEF CopiedEntries
  <2> HIDE DEF c
  <2>2. c \in Seq(EntriesOf(s)) /\ Elements(c) = EntriesOf(s) /\ Chain(c, Older(s))
    BY <2>1, OldestFirstIs
  <2>3. \A x \in EntriesOf(s) : s.entries[x].parent # None => s.entries[x].parent \in EntriesOf(s)
    <3> TAKE x \in EntriesOf(s)
    <3> QED BY DEF Good, WellFormed, ParentsFirst, EntriesOf, HasEntry
  <2> QED BY <1>1, <2>2, <2>3 DEF Copied, Copying, c
<1>2. CASE o.scope = "branch"
  <2> DEFINE t == ForkTarget(s, o)
             c == CopiedEntries(s, o)
  <2>1. o \in BranchOptions  BY <1>2 DEF ForkOptions, TreeOptions, BranchOptions
  <2>2. t \in EntriesOf(s) \cup {None}  BY <2>1, TargetFound
  <2>3. c = IF t = None THEN <<>> ELSE PathTo(s, t)  BY <1>2 DEF CopiedEntries
  <2> HIDE DEF t, c
  <2>4. CASE t = None
    <3>1. <<>> \in Seq(EntriesOf(s)) /\ Chain(<<>>, Older(s)) /\ Elements(<<>>) = {}
      BY DEF Chain, Elements
    <3> QED BY <1>2, <2>3, <2>4, <3>1 DEF Copied, Copying, t, c
  <2>5. CASE t # None
    <3>1. PICK f : IsPath(f, s) /\ \A id : PathTo(s, id) = f[id]  BY PathExists
    <3>2. Branch(s, c, t)  BY <2>2, <2>3, <2>5, <3>1, PathIsBranch
    <3> QED BY <1>2, <2>5, <3>2, BranchCopies DEF Copied, t, c
  <2> QED BY <2>4, <2>5
<1> QED BY <1>1, <1>2 DEF ForkOptions, TreeOptions, BranchOptions

\* The lane pointers of a fork: one each, at what is copied or at nothing.
Lining(s, o, c, ln) ==
  /\ ln \in Seq(Lanes \X (Ids \cup {None}))
  /\ \A j, k \in 1..Len(ln) : ln[j][1] = ln[k][1] => j = k
  /\ \A k \in 1..Len(ln) : ln[k][2] \in Elements(c) \cup {None}
  /\ o.scope = "tree" =>
       /\ \A k \in 1..Len(ln) : ln[k][2] = s.lanes[ln[k][1]]
       /\ \A lane \in Lanes : HasLane(s, lane) <=> \E k \in 1..Len(ln) : ln[k][1] = lane
  /\ o.scope = "branch" => ln = <<<<Main, ForkTarget(s, o)>>>>

\* A finite set is listed once by the sequence made of it.
LEMMA SetToSeqLists ==
  ASSUME NEW S, IsFiniteSet(S)
  PROVE  /\ SetToSeq(S) \in Seq(S)
         /\ \A j, k \in 1..Len(SetToSeq(S)) : SetToSeq(S)[j] = SetToSeq(S)[k] => j = k
         /\ \A x \in S : \E k \in 1..Len(SetToSeq(S)) : SetToSeq(S)[k] = x
<1> DEFINE n == Cardinality(S)
           q == SetToSeq(S)
<1>1. n \in Nat /\ ExistsBijection(1..n, S)  BY FS_CardinalityType
<1>2. \E f \in [1..n -> S] : IsInjective(f)
  BY <1>1 DEF ExistsBijection, Bijection, Injection
<1>3. q \in [1..n -> S] /\ IsInjective(q)  BY <1>2 DEF SetToSeq
<1> HIDE DEF n, q
<1>4. q \in Seq(S) /\ Len(q) = n /\ DOMAIN q = 1..n  BY <1>1, <1>3
<1>5. \A j, k \in 1..n : q[j] = q[k] => j = k  BY <1>3, <1>4 DEF IsInjective
<1>6. q \in Injection(1..n, S)  BY <1>3 DEF Injection
<1>7. IsFiniteSet(1..n) /\ Cardinality(1..n) = n
  <2>1. 1 \in Int /\ n \in Int /\ n - 1 + 1 = n /\ (1 > n => n = 0)  BY <1>1
  <2>2. IsFiniteSet(1..n) /\ Cardinality(1..n) = IF 1 > n THEN 0 ELSE n - 1 + 1
    BY <2>1, FS_Interval
  <2> QED BY <2>1, <2>2
<1>8. q \in Surjection(1..n, S)  BY <1>6, <1>7, FS_Injection DEF n
<1>9. \A x \in S : \E k \in 1..n : q[k] = x  BY <1>8 DEF Surjection
<1> QED BY <1>4, <1>5, <1>9 DEF q

\* The lane pointers a fork writes are so.
LEMMA LanesSound ==
  ASSUME NEW s, Good(s), NEW o \in ForkOptions, ValidForkTarget(s, o),
         NEW c, Copied(s, o, c)
  PROVE  Lining(s, o, c, ForkLanes(s, o))
<1> DEFINE ln == ForkLanes(s, o)
<1>1. CASE o.scope = "tree"
  <2> DEFINE L == {lane \in Lanes : HasLane(s, lane)}
             S == {<<l, s.lanes[l]>> : l \in L}
             f == [l \in L |-> <<l, s.lanes[l]>>]
  <2>1. ln = SetToSeq(S)  BY <1>1 DEF ForkLanes
  <2>2. IsFiniteSet(L)  BY DEF Good, Grounded
  <2>3. \A l \in L : s.lanes[l] \in Elements(c) \cup {None} /\ s.lanes[l] \in Ids \cup {None}
    <3> TAKE l \in L
    <3>1. s.lanes[l] \in Ids \cup {None}  BY DEF Good, State, HasLane
    <3>2. s.lanes[l] \in Ids => HasEntry(s, s.lanes[l])  BY DEF Good, WellFormed, ReferencesFound
    <3>3. Elements(c) = EntriesOf(s)  BY <1>1 DEF Copied
    <3> QED BY <3>1, <3>2, <3>3 DEF EntriesOf
  <2>4. f \in Surjection(L, S)  BY DEF Surjection
  <2>5. \A x \in S : \E l \in L : x[1] = l /\ x[2] = s.lanes[l] /\ x = <<l, s.lanes[l]>>  OBVIOUS
  <2>6. \A l \in L : \E x \in S : x[1] = l
    <3> TAKE l \in L
    <3>1. <<l, s.lanes[l]>> \in S /\ <<l, s.lanes[l]>>[1] = l  OBVIOUS
    <3> HIDE DEF S
    <3> QED BY <3>1
  <2>7. L \subseteq Lanes /\ \A l \in Lanes : l \in L <=> HasLane(s, l)  OBVIOUS
  <2> HIDE DEF f, L
  <2>8. IsFiniteSet(S)
    <3> HIDE DEF S
    <3> QED BY <2>2, <2>4, FS_Surjection
  <2> HIDE DEF S, ln
  <2>9. /\ ln \in Seq(S)
        /\ \A j, k \in 1..Len(ln) : ln[j] = ln[k] => j = k
        /\ \A x \in S : \E k \in 1..Len(ln) : ln[k] = x
    BY <2>1, <2>8, SetToSeqLists
  <2>10. \A k \in 1..Len(ln) : \E l \in L : ln[k] = <<l, s.lanes[l]>> /\ ln[k][1] = l /\ ln[k][2] = s.lanes[l]
    BY <2>5, <2>9
  <2>11. S \subseteq Lanes \X (Ids \cup {None})
    <3> SUFFICES ASSUME NEW x \in S PROVE x \in Lanes \X (Ids \cup {None})  OBVIOUS
    <3>1. PICK l \in L : x = <<l, s.lanes[l]>>  BY <2>5
    <3> QED BY <2>3, <2>7, <3>1
  <2>12. ln \in Seq(Lanes \X (Ids \cup {None}))  BY <2>9, <2>11
  <2>13. ASSUME NEW j \in 1..Len(ln), NEW k \in 1..Len(ln), ln[j][1] = ln[k][1] PROVE j = k
    <3>1. ln[j] = ln[k]  BY <2>10, <2>13
    <3> QED BY <2>9, <3>1
  <2>14. \A k \in 1..Len(ln) : ln[k][2] \in Elements(c) \cup {None} /\ ln[k][2] = s.lanes[ln[k][1]]
    BY <2>3, <2>10
  <2>15. \A lane \in Lanes : HasLane(s, lane) <=> \E k \in 1..Len(ln) : ln[k][1] = lane
    <3> TAKE lane \in Lanes
    <3>1. ASSUME lane \in L PROVE \E k \in 1..Len(ln) : ln[k][1] = lane
      <4>1. PICK x \in S : x[1] = lane  BY <2>6, <3>1
      <4> QED BY <2>9, <4>1
    <3>2. \A k \in 1..Len(ln) : ln[k][1] \in L  BY <2>10
    <3> QED BY <2>7, <3>1, <3>2
  <2> QED BY <1>1, <2>12, <2>13, <2>14, <2>15 DEF Lining, ln
<1>2. CASE o.scope = "branch"
  <2> DEFINE t == ForkTarget(s, o)
  <2>1. o \in BranchOptions  BY <1>2 DEF ForkOptions, TreeOptions, BranchOptions
  <2>2. t \in EntriesOf(s) \cup {None}  BY <2>1, TargetFound
  <2>3. t # None => t \in Elements(c)
    <3> SUFFICES ASSUME t # None PROVE t \in Elements(c)  OBVIOUS
    <3>1. Branch(s, c, t)  BY <1>2 DEF Copied
    <3>2. Len(c) \in 1..Len(c) /\ c[Len(c)] = t  BY <3>1 DEF Branch
    <3> QED BY <3>2 DEF Elements
  <2> HIDE DEF t
  <2>4. t \in Ids \cup {None}  BY <2>2 DEF EntriesOf
  <2>5. ln = <<<<Main, t>>>>  BY <1>2 DEF ForkLanes, t
  <2>6. Len(ln) = 1 /\ ln[1] = <<Main, t>>  BY <2>5
  <2>7. ln \in Seq(Lanes \X (Ids \cup {None}))  BY <2>4, <2>5, NamesAssumption
  <2> HIDE DEF ln
  <2>8. \A k \in 1..Len(ln) : k = 1 /\ ln[k][2] = t  BY <2>6
  <2> QED BY <1>2, <2>3, <2>5, <2>7, <2>8 DEF Lining, t, ln
<1> QED BY <1>1, <1>2 DEF ForkOptions, TreeOptions, BranchOptions

-----------------------------------------------------------------------------
(* Loading a fork, line after line. c are the entries copied, ln the lane  *)
(* pointers, lb the labelled entries.                                      *)

\* The first i entries are there, and nothing else.
Held(s, c, i, t) ==
  /\ t \in State /\ t.usedIds = EntriesOf(t)
  /\ \A id \in Ids : HasEntry(t, id) <=> \E k \in 1..i : c[k] = id
  /\ \A k \in 1..i : t.entries[c[k]] = [parent |-> s.entries[c[k]].parent,
                                        type |-> s.entries[c[k]].type, seq |-> k]
  /\ \A id \in Ids : t.records[id] = Missing
  /\ \A lane \in Lanes : t.openOps[lane] = {}

\* The first j lane pointers are set.
Laned(ln, j, t) ==
  /\ \A k \in 1..j : t.lanes[ln[k][1]] = ln[k][2]
  /\ \A lane \in Lanes :
       (\A k \in 1..j : ln[k][1] # lane) => t.lanes[lane] = EmptyState.lanes[lane]

\* The first l labels are set.
Labelled(s, lb, l, t) ==
  /\ \A k \in 1..l : t.labels[lb[k]] = s.labels[lb[k]]
  /\ \A id \in Ids : (\A k \in 1..l : lb[k] # id) => t.labels[id] = Missing

\* An entry's line can be applied and puts it there.
LEMMA FillEntry ==
  ASSUME NEW s, Good(s), NEW c, Copying(s, c), NEW i \in 1..Len(c),
         NEW t, Held(s, c, i - 1, t), t.sequence = i - 1,
         NEW m, m = EntryMutation(i, c[i], s.entries[c[i]].parent, s.entries[c[i]].type, None)
  PROVE  /\ m \in Mutations /\ CanApply(t, m)
         /\ Apply(t, m).sequence = i /\ Held(s, c, i, Apply(t, m))
         /\ Apply(t, m).lanes = t.lanes /\ Apply(t, m).labels = t.labels
         /\ Apply(t, m).name = t.name
<1> DEFINE x == c[i]
           e == s.entries[x]
           u == Apply(t, m)
           r == [parent |-> e.parent, type |-> e.type, seq |-> i]
<1>1. Len(c) \in Nat /\ i \in Nat /\ i >= 1 /\ c \in Seq(EntriesOf(s))  BY DEF Copying
<1>2. x \in EntriesOf(s) /\ x \in Ids  BY <1>1 DEF EntriesOf
<1>3. e \in Entry  BY <1>2 DEF Good, State, EntriesOf, HasEntry
<1>4. \A j, k \in 1..Len(c) : j < k => s.entries[c[j]].seq < s.entries[c[k]].seq
  <2> TAKE j, k \in 1..Len(c)
  <2>1. c[j] \in EntriesOf(s) /\ c[k] \in EntriesOf(s)  BY <1>1
  <2>2. j < k => <<c[j], c[k]>> \in Older(s)  BY DEF Copying, Chain
  <2> QED BY <2>1, <2>2, OlderStrict
<1>5. \A k \in 1..Len(c) : s.entries[c[k]].seq \in Nat
  <2> TAKE k \in 1..Len(c)
  <2>1. c[k] \in EntriesOf(s)  BY <1>1
  <2>2. s.entries[c[k]] \in Entry  BY <2>1 DEF Good, State, EntriesOf, HasEntry
  <2> QED BY <2>2 DEF Entry
<1>6. \A k \in 1..(i - 1) : c[k] # x
  <2> TAKE k \in 1..(i - 1)
  <2>1. k \in 1..Len(c) /\ k < i  BY <1>1
  <2>2. s.entries[c[k]].seq < s.entries[x].seq  BY <1>4, <2>1
  <2>3. s.entries[c[k]].seq \in Nat  BY <1>5, <2>1
  <2> QED BY <2>2, <2>3
<1>7. t \in State /\ t.usedIds = EntriesOf(t)
      /\ \A id \in Ids : HasEntry(t, id) <=> \E k \in 1..(i - 1) : c[k] = id
  BY DEF Held
<1>8. x \notin t.usedIds  BY <1>2, <1>6, <1>7 DEF EntriesOf
<1>9. e.parent # None => HasEntry(t, e.parent)
  <2> SUFFICES ASSUME e.parent # None PROVE HasEntry(t, e.parent)  OBVIOUS
  <2>1. x \in Elements(c)  BY DEF Elements
  <2>2. e.parent \in Elements(c)  BY <2>1 DEF Copying
  <2>3. PICK j \in 1..Len(c) : c[j] = e.parent  BY <2>2 DEF Elements
  <2>4. s.entries[c[j]].seq < s.entries[x].seq
    BY <1>2, <2>3 DEF Good, WellFormed, ParentsFirst, EntriesOf
  <2>5. s.entries[c[j]].seq \in Nat /\ s.entries[x].seq \in Nat  BY <1>5
  <2>6. j # i  BY <2>4, <2>5
  <2>7. ~(i < j)
    <3>1. i < j => s.entries[x].seq < s.entries[c[j]].seq  BY <1>4
    <3> QED BY <2>4, <2>5, <3>1
  <2>8. j \in 1..(i - 1)  BY <1>1, <2>6, <2>7
  <2>9. e.parent \in Ids  BY <1>3 , <2>3, <1>1 DEF EntriesOf
  <2> QED BY <1>7, <2>3, <2>8, <2>9
<1>10. m.kind = "entry" /\ m.seq = i /\ m.id = x /\ m.parent = e.parent /\ m.type = e.type /\ m.lane = None
  BY DEF EntryMutation
<1>11. m \in EntryMutations  BY <1>1, <1>2, <1>3 DEF EntryMutation, EntryMutations, Entry
<1>12. m \in Mutations  BY <1>11 DEF Mutations
<1>13. CanApply(t, m)  BY <1>1, <1>8, <1>9, <1>10 DEF CanApply, CanApplyEntry
<1>14. u = ApplyEntry(t, m)  BY <1>10 DEF Apply
<1> HIDE DEF x, e
<1>15. /\ u.sequence = i /\ u.usedIds = t.usedIds \cup {x}
       /\ u.entries = [t.entries EXCEPT ![x] = r]
       /\ u.records = t.records /\ u.openOps = t.openOps
       /\ u.lanes = t.lanes /\ u.labels = t.labels /\ u.name = t.name
  <2>1. t \in State /\ m.lane = None  BY <1>7, <1>10
  <2>2. /\ u.sequence = m.seq /\ u.usedIds = t.usedIds \cup {m.id}
        /\ u.records = t.records /\ u.openOps = t.openOps
        /\ u.labels = t.labels /\ u.name = t.name
    BY <2>1, <1>14 DEF ApplyEntry, State
  <2>3. u.entries = [t.entries EXCEPT ![m.id] =
                       [parent |-> m.parent, type |-> m.type, seq |-> m.seq]]
    BY <2>1, <1>14 DEF ApplyEntry, State
  <2>4. u.lanes = t.lanes  BY <2>1, <1>14 DEF ApplyEntry, State
  <2> QED BY <2>2, <2>3, <2>4, <1>10
<1>16. u \in State  BY <1>7, <1>12, <1>13, ApplyType
<1> HIDE DEF u
<1>17. \A id \in Ids : u.entries[id] = IF id = x THEN r ELSE t.entries[id]
  BY <1>2, <1>7, <1>15 DEF State
<1>18. r # Missing
  <2>1. r \in Entry  BY <1>1, <1>3 DEF Entry
  <2> QED BY <2>1, NamesAssumption
<1>19. \A id \in Ids : HasEntry(u, id) <=> id = x \/ HasEntry(t, id)
  BY <1>17, <1>18 DEF HasEntry
<1>20. u.usedIds = EntriesOf(u)  BY <1>2, <1>7, <1>15, <1>19 DEF EntriesOf
<1>21. \A k \in 1..i : k = i \/ k \in 1..(i - 1)  BY <1>1
<1>22. i \in 1..i /\ \A k \in 1..(i - 1) : k \in 1..i  BY <1>1
<1>23. \A id \in Ids : HasEntry(u, id) <=> \E k \in 1..i : c[k] = id
  BY <1>7, <1>19, <1>21, <1>22 DEF x
<1>24. ASSUME NEW k \in 1..i
       PROVE  u.entries[c[k]] = [parent |-> s.entries[c[k]].parent,
                                 type |-> s.entries[c[k]].type, seq |-> k]
  <2>1. CASE k = i  BY <1>2, <1>17, <2>1 DEF x, e
  <2>2. CASE k # i
    <3>1. k \in 1..(i - 1) /\ k \in 1..Len(c)  BY <1>1, <2>2
    <3>2. c[k] \in Ids  BY <1>1, <3>1 DEF EntriesOf
    <3>3. u.entries[c[k]] = t.entries[c[k]]  BY <1>6, <1>17, <3>1, <3>2
    <3> QED BY <3>1, <3>3 DEF Held
  <2> QED BY <2>1, <2>2
<1>25. Held(s, c, i, u)  BY <1>15, <1>16, <1>20, <1>23, <1>24 DEF Held
<1> QED BY <1>12, <1>13, <1>15, <1>25 DEF u

\* A lane's line can be applied and sets it.
LEMMA FillLane ==
  ASSUME NEW s, NEW o, NEW c, NEW ln, Lining(s, o, c, ln), Copying(s, c), NEW j \in 1..Len(ln),
         NEW t, Held(s, c, Len(c), t), Laned(ln, j - 1, t),
         NEW m, m = LaneMutation(t.sequence + 1, ln[j][1], ln[j][2])
  PROVE  /\ m \in Mutations /\ CanApply(t, m)
         /\ Apply(t, m).sequence = t.sequence + 1 /\ Held(s, c, Len(c), Apply(t, m))
         /\ Laned(ln, j, Apply(t, m)) /\ Apply(t, m).labels = t.labels
         /\ Apply(t, m).name = t.name
<1> DEFINE lane == ln[j][1]
           leaf == ln[j][2]
           u == Apply(t, m)
<1>1. t \in State /\ t.sequence \in Nat  BY DEF Held, State
<1>2. /\ lane \in Lanes /\ leaf \in Ids \cup {None} /\ leaf \in Elements(c) \cup {None}
      /\ j \in Nat /\ j >= 1 /\ Len(ln) \in Nat
      /\ \A k \in 1..Len(ln) : ln[k][1] = lane => k = j
      /\ \A k \in 1..Len(ln) : ln[k][1] \in Lanes
  BY DEF Lining
<1> HIDE DEF lane, leaf
<1>3. m.kind = "lane" /\ m.seq = t.sequence + 1 /\ m.lane = lane /\ m.leaf = leaf
  BY DEF LaneMutation, lane, leaf
<1>4. m \in LaneMutations  BY <1>1, <1>2 DEF LaneMutation, LaneMutations, lane, leaf
<1>5. m \in Mutations  BY <1>4 DEF Mutations
<1>6. leaf # None => HasEntry(t, leaf)
  <2> SUFFICES ASSUME leaf # None PROVE HasEntry(t, leaf)  OBVIOUS
  <2>1. PICK k \in 1..Len(c) : c[k] = leaf  BY <1>2 DEF Elements
  <2> QED BY <1>2, <2>1 DEF Held
<1>7. CanApply(t, m)  BY <1>3, <1>6 DEF CanApply, CanApplyLane
<1>8. u = ApplyLane(t, m)  BY <1>3 DEF Apply
<1>9. /\ u.sequence = t.sequence + 1 /\ u.usedIds = t.usedIds /\ u.entries = t.entries
      /\ u.records = t.records /\ u.openOps = t.openOps /\ u.labels = t.labels /\ u.name = t.name
      /\ u.lanes = [t.lanes EXCEPT ![lane] = leaf]
  BY <1>1, <1>3, <1>8 DEF ApplyLane, State
<1>10. u \in State  BY <1>1, <1>5, <1>7, ApplyType
<1> HIDE DEF u
<1>11. Held(s, c, Len(c), u)  BY <1>9, <1>10 DEF Held, HasEntry, EntriesOf
<1>12. \A l \in Lanes : u.lanes[l] = IF l = lane THEN leaf ELSE t.lanes[l]
  BY <1>1, <1>9 DEF State
<1>13. /\ j \in 1..j
       /\ \A k \in 1..j : k \in 1..Len(ln) /\ (k = j \/ k \in 1..(j - 1))
       /\ \A k \in 1..(j - 1) : k \in 1..j
  BY <1>2
<1>14. ASSUME NEW k \in 1..j PROVE u.lanes[ln[k][1]] = ln[k][2]
  <2>1. CASE k = j  BY <1>2, <1>12, <2>1 DEF lane, leaf
  <2>2. CASE k # j
    <3>1. k \in 1..(j - 1) /\ k \in 1..Len(ln)  BY <1>13, <2>2
    <3>2. ln[k][1] # lane /\ ln[k][1] \in Lanes  BY <1>2, <2>2, <3>1
    <3> QED BY <1>12, <3>1, <3>2 DEF Laned
  <2> QED BY <2>1, <2>2
<1>15. ASSUME NEW l \in Lanes, \A k \in 1..j : ln[k][1] # l
       PROVE  u.lanes[l] = EmptyState.lanes[l]
  <2>1. l # lane  BY <1>13, <1>15 DEF lane
  <2>2. \A k \in 1..(j - 1) : ln[k][1] # l  BY <1>13, <1>15
  <2> QED BY <1>12, <2>1, <2>2 DEF Laned
<1>16. Laned(ln, j, u)  BY <1>14, <1>15 DEF Laned
<1> QED BY <1>5, <1>7, <1>9, <1>11, <1>16 DEF u

\* The name's line can be applied and sets it.
LEMMA FillName ==
  ASSUME NEW s, NEW c, NEW name \in Names, NEW t, Held(s, c, Len(c), t),
         NEW m, m = NameMutation(t.sequence + 1, name)
  PROVE  /\ m \in Mutations /\ CanApply(t, m)
         /\ Apply(t, m).sequence = t.sequence + 1 /\ Held(s, c, Len(c), Apply(t, m))
         /\ Apply(t, m).lanes = t.lanes /\ Apply(t, m).labels = t.labels
         /\ Apply(t, m).name = name
<1> DEFINE u == Apply(t, m)
<1>1. t \in State /\ t.sequence \in Nat  BY DEF Held, State
<1>2. m.kind = "name" /\ m.seq = t.sequence + 1 /\ m.name = name  BY DEF NameMutation
<1>3. m \in NameMutations  BY <1>1 DEF NameMutation, NameMutations
<1>4. m \in Mutations /\ CanApply(t, m)  BY <1>2, <1>3 DEF Mutations, CanApply
<1>5. u = ApplyName(t, m)  BY <1>2 DEF Apply
<1>6. /\ u.sequence = t.sequence + 1 /\ u.usedIds = t.usedIds /\ u.entries = t.entries
      /\ u.records = t.records /\ u.openOps = t.openOps /\ u.labels = t.labels
      /\ u.lanes = t.lanes /\ u.name = name
  BY <1>1, <1>2, <1>5 DEF ApplyName, State
<1>7. u \in State  BY <1>1, <1>4, ApplyType
<1> HIDE DEF u
<1>8. Held(s, c, Len(c), u)  BY <1>6, <1>7 DEF Held, HasEntry, EntriesOf
<1> QED BY <1>4, <1>6, <1>8 DEF u

\* A label's line can be applied and sets it.
LEMMA FillLabel ==
  ASSUME NEW s, Good(s), NEW c, NEW lb \in Seq(Ids), NEW l \in 1..Len(lb),
         s.labels[lb[l]] # Missing, lb[l] \in Elements(c),
         NEW t, Held(s, c, Len(c), t), Labelled(s, lb, l - 1, t),
         NEW m, m = LabelMutation(t.sequence + 1, lb[l], s.labels[lb[l]])
  PROVE  /\ m \in Mutations /\ CanApply(t, m)
         /\ Apply(t, m).sequence = t.sequence + 1 /\ Held(s, c, Len(c), Apply(t, m))
         /\ Labelled(s, lb, l, Apply(t, m)) /\ Apply(t, m).lanes = t.lanes
         /\ Apply(t, m).name = t.name
<1> DEFINE x == lb[l]
           v == s.labels[x]
           u == Apply(t, m)
<1>1. t \in State /\ t.sequence \in Nat  BY DEF Held, State
<1>2. /\ x \in Ids /\ l \in Nat /\ l >= 1 /\ Len(lb) \in Nat
      /\ \A k \in 1..Len(lb) : lb[k] \in Ids
  OBVIOUS
<1>3. v \in Labels /\ v # None /\ v # Missing  BY <1>2, NamesAssumption DEF Good, State
<1>4. HasEntry(t, x)
  <2>1. PICK k \in 1..Len(c) : c[k] = x  BY DEF Elements
  <2> QED BY <1>2, <2>1 DEF Held
<1> HIDE DEF x, v
<1>5. m.kind = "label" /\ m.seq = t.sequence + 1 /\ m.target = x /\ m.label = v
  BY DEF LabelMutation, x, v
<1>6. m \in LabelMutations  BY <1>1, <1>2, <1>3 DEF LabelMutation, LabelMutations, x, v
<1>7. m \in Mutations  BY <1>6 DEF Mutations
<1>8. CanApply(t, m)  BY <1>4, <1>5 DEF CanApply, CanApplyLabel
<1>9. u = ApplyLabel(t, m)  BY <1>5 DEF Apply
<1>10. /\ u.sequence = t.sequence + 1 /\ u.usedIds = t.usedIds /\ u.entries = t.entries
       /\ u.records = t.records /\ u.openOps = t.openOps /\ u.lanes = t.lanes /\ u.name = t.name
       /\ u.labels = [t.labels EXCEPT ![x] = v]
  BY <1>1, <1>3, <1>5, <1>9 DEF ApplyLabel, State
<1>11. u \in State  BY <1>1, <1>7, <1>8, ApplyType
<1> HIDE DEF u
<1>12. Held(s, c, Len(c), u)  BY <1>10, <1>11 DEF Held, HasEntry, EntriesOf
<1>13. \A id \in Ids : u.labels[id] = IF id = x THEN v ELSE t.labels[id]
  BY <1>1, <1>10 DEF State
<1>14. /\ l \in 1..l
       /\ \A k \in 1..l : k \in 1..Len(lb) /\ (k = l \/ k \in 1..(l - 1))
       /\ \A k \in 1..(l - 1) : k \in 1..l
  BY <1>2
<1>15. ASSUME NEW k \in 1..l PROVE u.labels[lb[k]] = s.labels[lb[k]]
  <2>1. CASE lb[k] = x  BY <1>2, <1>13, <2>1 DEF v
  <2>2. CASE lb[k] # x
    <3>1. k \in 1..(l - 1) /\ lb[k] \in Ids  BY <1>2, <1>14, <2>2 DEF x
    <3> QED BY <1>13, <2>2, <3>1 DEF Labelled
  <2> QED BY <2>1, <2>2
<1>16. ASSUME NEW id \in Ids, \A k \in 1..l : lb[k] # id PROVE u.labels[id] = Missing
  <2>1. id # x  BY <1>14, <1>16 DEF x
  <2>2. \A k \in 1..(l - 1) : lb[k] # id  BY <1>14, <1>16
  <2> QED BY <1>13, <2>1, <2>2 DEF Labelled
<1>17. Labelled(s, lb, l, u)  BY <1>15, <1>16 DEF Labelled
<1> QED BY <1>7, <1>8, <1>10, <1>12, <1>17 DEF u

\* Two sequences, one after the other.
LEMMA TwoParts ==
  ASSUME NEW T, NEW a \in Seq(T), NEW b \in Seq(T)
  PROVE  /\ a \o b \in Seq(T) /\ Len(a \o b) = Len(a) + Len(b)
         /\ \A i \in 1..Len(a) : (a \o b)[i] = a[i]
         /\ \A i \in 1..Len(b) : (a \o b)[Len(a) + i] = b[i]
  OBVIOUS

\* q is four sequences, one after the other.
Joined(q, a, b, d, e) ==
  /\ Len(q) = Len(a) + Len(b) + Len(d) + Len(e)
  /\ \A i \in 1..Len(a) : q[i] = a[i]
  /\ \A i \in 1..Len(b) : q[Len(a) + i] = b[i]
  /\ \A i \in 1..Len(d) : q[Len(a) + Len(b) + i] = d[i]
  /\ \A i \in 1..Len(e) : q[Len(a) + Len(b) + Len(d) + i] = e[i]

\* As a concatenation of four is.
LEMMA FourParts ==
  ASSUME NEW T, NEW a \in Seq(T), NEW b \in Seq(T), NEW d \in Seq(T), NEW e \in Seq(T)
  PROVE  a \o b \o d \o e \in Seq(T) /\ Joined(a \o b \o d \o e, a, b, d, e)
<1> DEFINE ab == a \o b
           abd == ab \o d
           abde == abd \o e
<1>0. Len(a) \in Nat /\ Len(b) \in Nat /\ Len(d) \in Nat /\ Len(e) \in Nat  OBVIOUS
<1>1. /\ ab \in Seq(T) /\ Len(ab) = Len(a) + Len(b)
      /\ \A i \in 1..Len(a) : ab[i] = a[i]
      /\ \A i \in 1..Len(b) : ab[Len(a) + i] = b[i]
  OBVIOUS
<1> HIDE DEF ab
<1>2. /\ abd \in Seq(T) /\ Len(abd) = Len(ab) + Len(d)
      /\ \A i \in 1..Len(ab) : abd[i] = ab[i]
      /\ \A i \in 1..Len(d) : abd[Len(ab) + i] = d[i]
  <2>1. ab \in Seq(T) /\ d \in Seq(T)  BY <1>1
  <2> QED BY ONLY <2>1, TwoParts
<1> HIDE DEF abd
<1>3. /\ abde \in Seq(T) /\ Len(abde) = Len(abd) + Len(e)
      /\ \A i \in 1..Len(abd) : abde[i] = abd[i]
      /\ \A i \in 1..Len(e) : abde[Len(abd) + i] = e[i]
  <2>1. abd \in Seq(T) /\ e \in Seq(T)  BY <1>2
  <2> QED BY ONLY <2>1, TwoParts
<1> HIDE DEF abde
<1>4. \A i \in 1..Len(a) : abde[i] = a[i]
  <2> TAKE i \in 1..Len(a)
  <2>1. i \in 1..Len(ab) /\ i \in 1..Len(abd)  BY <1>0, <1>1, <1>2
  <2> QED BY <1>1, <1>2, <1>3, <2>1
<1>5. \A i \in 1..Len(b) : abde[Len(a) + i] = b[i]
  <2> TAKE i \in 1..Len(b)
  <2>1. Len(a) + i \in 1..Len(ab) /\ Len(a) + i \in 1..Len(abd)  BY <1>0, <1>1, <1>2
  <2> QED BY <1>1, <1>2, <1>3, <2>1
<1>6. \A i \in 1..Len(d) : abde[Len(a) + Len(b) + i] = d[i]
  <2> TAKE i \in 1..Len(d)
  <2>1. Len(a) + Len(b) + i \in 1..Len(abd)  BY <1>0, <1>1, <1>2
  <2> QED BY <1>1, <1>2, <1>3, <2>1
<1>7. \A i \in 1..Len(e) : abde[Len(a) + Len(b) + Len(d) + i] = e[i]
  BY <1>1, <1>2, <1>3
<1> QED BY <1>0, <1>1, <1>2, <1>3, <1>4, <1>5, <1>6, <1>7 DEF Joined, ab, abd, abde

\* What a fork writes of the name and of the labels.
NameOf(s) == IF s.name # None THEN <<s.name>> ELSE <<>>
LabeledOf(s, c) == Within(c, {id \in Ids : s.labels[id] # Missing})

\* The lines of a fork.
Lines(s, c, ln, nm, lb, ms) ==
  /\ ms \in Seq(Mutations) /\ Len(ms) = Len(c) + Len(ln) + Len(nm) + Len(lb)
  /\ \A i \in 1..Len(c) :
       ms[i] = EntryMutation(i, c[i], s.entries[c[i]].parent, s.entries[c[i]].type, None)
  /\ \A i \in 1..Len(ln) : ms[Len(c) + i] = LaneMutation(Len(c) + i, ln[i][1], ln[i][2])
  /\ \A i \in 1..Len(nm) :
       ms[Len(c) + Len(ln) + i] = NameMutation(Len(c) + Len(ln) + i, nm[i])
  /\ \A i \in 1..Len(lb) : ms[Len(c) + Len(ln) + Len(nm) + i]
       = LabelMutation(Len(c) + Len(ln) + Len(nm) + i, lb[i], s.labels[lb[i]])

\* The labels written are those of what is copied.
LEMMA LabeledSound ==
  ASSUME NEW s, NEW c \in Seq(Ids)
  PROVE  /\ LabeledOf(s, c) \in Seq(Ids)
         /\ Elements(LabeledOf(s, c)) = Elements(c) \cap {id \in Ids : s.labels[id] # Missing}
<1> DEFINE S == {id \in Ids : s.labels[id] # Missing}
<1> HIDE DEF S
<1>1. Within(c, S) \in Seq(Ids) /\ Elements(Within(c, S)) = Elements(c) \cap S
  BY WithinType, WithinElements
<1> QED BY <1>1 DEF LabeledOf, S

\* They are the lines a fork writes.
LEMMA ForkLines ==
  ASSUME NEW s, Good(s), NEW o, Copying(s, CopiedEntries(s, o)),
         Lining(s, o, CopiedEntries(s, o), ForkLanes(s, o))
  PROVE  Lines(s, CopiedEntries(s, o), ForkLanes(s, o), NameOf(s),
               LabeledOf(s, CopiedEntries(s, o)), ForkMutations(s, o))
<1> DEFINE c == CopiedEntries(s, o)
           ln == ForkLanes(s, o)
           nm == NameOf(s)
           lb == LabeledOf(s, c)
           k == Len(c) + Len(ln)
           j == k + Len(nm)
           A == [i \in 1..Len(c) |-> EntryMutation(i, c[i], s.entries[c[i]].parent,
                                                   s.entries[c[i]].type, None)]
           B == [i \in 1..Len(ln) |-> LaneMutation(Len(c) + i, ln[i][1], ln[i][2])]
           C == [i \in 1..Len(nm) |-> NameMutation(k + i, nm[i])]
           D == [i \in 1..Len(lb) |-> LabelMutation(j + i, lb[i], s.labels[lb[i]])]
<1>1. ForkMutations(s, o) = A \o B \o C \o D  BY DEF ForkMutations, NameOf, LabeledOf
<1>2. c \in Seq(EntriesOf(s)) /\ c \in Seq(Ids)  BY DEF Copying, EntriesOf
<1>3. ln \in Seq(Lanes \X (Ids \cup {None}))  BY DEF Lining
<1> HIDE DEF c, ln
<1>4. nm \in Seq(Names)  BY DEF NameOf, Good, State
<1>5. lb \in Seq(Ids) /\ Elements(lb) = Elements(c) \cap {id \in Ids : s.labels[id] # Missing}
  BY <1>2, LabeledSound
<1> HIDE DEF nm, lb
<1>6. Len(c) \in Nat /\ Len(ln) \in Nat /\ Len(nm) \in Nat /\ Len(lb) \in Nat /\ k \in Nat /\ j \in Nat
  BY <1>2, <1>3, <1>4, <1>5
<1>7. \A i \in 1..Len(c) : EntryMutation(i, c[i], s.entries[c[i]].parent,
                                         s.entries[c[i]].type, None) \in Mutations
  <2> TAKE i \in 1..Len(c)
  <2>1. c[i] \in EntriesOf(s) /\ c[i] \in Ids /\ i \in Nat  BY <1>2, <1>6
  <2>2. s.entries[c[i]] \in Entry  BY <2>1 DEF Good, State, EntriesOf, HasEntry
  <2>3. EntryMutation(i, c[i], s.entries[c[i]].parent, s.entries[c[i]].type, None) \in EntryMutations
    BY <2>1, <2>2 DEF EntryMutation, EntryMutations, Entry
  <2> QED BY <2>3 DEF Mutations
<1>8. A \in Seq(Mutations) /\ Len(A) = Len(c)  BY <1>6, <1>7
<1> HIDE DEF k, j
<1>9. \A i \in 1..Len(ln) : LaneMutation(Len(c) + i, ln[i][1], ln[i][2]) \in Mutations
  <2> TAKE i \in 1..Len(ln)
  <2>1. ln[i][1] \in Lanes /\ ln[i][2] \in Ids \cup {None} /\ Len(c) + i \in Nat  BY <1>3, <1>6
  <2>2. LaneMutation(Len(c) + i, ln[i][1], ln[i][2]) \in LaneMutations
    BY <2>1 DEF LaneMutation, LaneMutations
  <2> QED BY <2>2 DEF Mutations
<1>10. B \in Seq(Mutations) /\ Len(B) = Len(ln)  BY <1>6, <1>9
<1>11. \A i \in 1..Len(nm) : NameMutation(k + i, nm[i]) \in Mutations
  <2> TAKE i \in 1..Len(nm)
  <2>1. nm[i] \in Names /\ k + i \in Nat  BY <1>4, <1>6
  <2>2. NameMutation(k + i, nm[i]) \in NameMutations  BY <2>1 DEF NameMutation, NameMutations
  <2> QED BY <2>2 DEF Mutations
<1>12. C \in Seq(Mutations) /\ Len(C) = Len(nm)  BY <1>6, <1>11
<1>13. \A i \in 1..Len(lb) : LabelMutation(j + i, lb[i], s.labels[lb[i]]) \in Mutations
  <2> TAKE i \in 1..Len(lb)
  <2>1. lb[i] \in Ids /\ lb[i] \in Elements(lb) /\ j + i \in Nat  BY <1>5, <1>6 DEF Elements
  <2>2. s.labels[lb[i]] \in Labels  BY <1>5, <2>1 DEF Good, State
  <2>3. LabelMutation(j + i, lb[i], s.labels[lb[i]]) \in LabelMutations
    BY <2>1, <2>2 DEF LabelMutation, LabelMutations
  <2> QED BY <2>3 DEF Mutations
<1>14. D \in Seq(Mutations) /\ Len(D) = Len(lb)  BY <1>6, <1>13
<1>15. /\ \A i \in 1..Len(c) : A[i] = EntryMutation(i, c[i], s.entries[c[i]].parent,
                                                    s.entries[c[i]].type, None)
       /\ \A i \in 1..Len(ln) : B[i] = LaneMutation(Len(c) + i, ln[i][1], ln[i][2])
       /\ \A i \in 1..Len(nm) : C[i] = NameMutation(k + i, nm[i])
       /\ \A i \in 1..Len(lb) : D[i] = LabelMutation(j + i, lb[i], s.labels[lb[i]])
  OBVIOUS
<1> DEFINE ms == A \o B \o C \o D
<1> HIDE DEF A, B, C, D
<1>16. ms \in Seq(Mutations) /\ Joined(ms, A, B, C, D)
  <2>1. A \in Seq(Mutations) /\ B \in Seq(Mutations) /\ C \in Seq(Mutations) /\ D \in Seq(Mutations)
    BY <1>8, <1>10, <1>12, <1>14
  <2> QED BY ONLY <2>1, FourParts
<1> HIDE DEF ms
<1>17. Lines(s, c, ln, nm, lb, ms)
  BY <1>8, <1>10, <1>12, <1>14, <1>15, <1>16 DEF Lines, Joined, k, j
<1> QED BY <1>1, <1>17 DEF c, ln, nm, lb, ms

\* A load goes on with a line that can be applied.
LEMMA LoadGoesOn ==
  ASSUME NEW ms \in Seq(Mutations), NEW f, LoadsOf(f, ms), NEW n \in 1..Len(ms),
         f[n - 1].ok, CanApply(f[n - 1].state, ms[n])
  PROVE  f[n].ok /\ f[n].state = Apply(f[n - 1].state, ms[n])
<1>1. n - 1 \in 0..Len(ms)  OBVIOUS
<1>2. f[n - 1] \in Loads /\ f[n] = ReplayOne(f[n - 1], ms[n])  BY <1>1 DEF LoadsOf
<1> QED BY <1>2 DEF ReplayOne, Loads

\* How far a load is: i entries, j lanes, l labels.
Filled(s, c, ln, lb, i, j, l, load) ==
  /\ load.ok /\ Held(s, c, i, load.state)
  /\ Laned(ln, j, load.state) /\ Labelled(s, lb, l, load.state)

\* The lines of a fork can be applied one after the other, and leave what was
\* copied, with its lanes, labels and name.
LEMMA LinesFill ==
  ASSUME NEW s, Good(s), NEW o, NEW c, Copying(s, c), NEW ln, Lining(s, o, c, ln),
         NEW ms, Lines(s, c, ln, NameOf(s), LabeledOf(s, c), ms)
  PROVE  /\ Filled(s, c, ln, LabeledOf(s, c), Len(c), Len(ln), Len(LabeledOf(s, c)), Replay(ms))
         /\ Replay(ms).state.name = s.name
<1> DEFINE nm == NameOf(s)
           lb == LabeledOf(s, c)
           N1 == Len(c)
           N2 == N1 + Len(ln)
           N3 == N2 + Len(nm)
           N4 == N3 + Len(lb)
<1>1. c \in Seq(Ids)  BY DEF Copying, EntriesOf
<1>2. lb \in Seq(Ids) /\ \A k \in 1..Len(lb) : lb[k] \in Elements(c) /\ s.labels[lb[k]] # Missing
  <2>1. lb \in Seq(Ids) /\ Elements(lb) = Elements(c) \cap {id \in Ids : s.labels[id] # Missing}
    BY <1>1, LabeledSound
  <2> HIDE DEF lb
  <2>2. \A k \in 1..Len(lb) : lb[k] \in Elements(lb)  BY DEF Elements
  <2> QED BY <2>1, <2>2
<1>3. /\ nm \in Seq(Names) /\ Len(nm) \in {0, 1}
      /\ Len(nm) = 0 => s.name = None
      /\ \A k \in 1..Len(nm) : nm[k] = s.name
  BY DEF NameOf, Good, State
<1> HIDE DEF nm, lb
<1>4. Len(c) \in Nat /\ Len(ln) \in Nat /\ Len(nm) \in Nat /\ Len(lb) \in Nat
  BY <1>1, <1>2, <1>3 DEF Lining
<1>5. ms \in Seq(Mutations) /\ Len(ms) = N4  BY DEF Lines, nm, lb
<1>6. PICK f : LoadsOf(f, ms) /\ Replay(ms) = f[N4]  BY <1>5, ReplayIterates
<1> DEFINE At(n) == f[n].state
           Full(n, i, j, l, name) ==
             Filled(s, c, ln, lb, i, j, l, f[n]) /\ At(n).sequence = n /\ At(n).name = name
<1>7. Full(0, 0, 0, 0, None)
  <2>1. f[0].ok /\ f[0].state = EmptyState  BY <1>6 DEF LoadsOf
  <2>2. EmptyState \in State  BY EmptyLoad DEF Loads
  <2>3. Held(s, c, 0, EmptyState)  BY <2>2 DEF Held, EmptyState, EntriesOf, HasEntry
  <2>4. Laned(ln, 0, EmptyState) /\ Labelled(s, lb, 0, EmptyState)
        /\ EmptyState.sequence = 0 /\ EmptyState.name = None
    BY DEF Laned, Labelled, EmptyState
  <2> QED BY <2>1, <2>3, <2>4 DEF Filled
<1> DEFINE P1 == {i \in 0..N1 : Full(i, i, 0, 0, None)}
<1>8. ASSUME NEW i \in 1..N1, i - 1 \in P1 PROVE i \in P1
  <2> DEFINE t == At(i - 1)
             m == ms[i]
  <2>1. f[i - 1].ok /\ Held(s, c, i - 1, t) /\ Laned(ln, 0, t) /\ Labelled(s, lb, 0, t)
        /\ t.sequence = i - 1 /\ t.name = None
    BY <1>8 DEF Filled
  <2>2. m = EntryMutation(i, c[i], s.entries[c[i]].parent, s.entries[c[i]].type, None)
    BY DEF Lines
  <2>3. i \in 1..Len(ms) /\ i \in 0..N1  BY <1>4, <1>5
  <2> HIDE DEF t, m
  <2>4. /\ CanApply(t, m) /\ Apply(t, m).sequence = i /\ Held(s, c, i, Apply(t, m))
        /\ Apply(t, m).lanes = t.lanes /\ Apply(t, m).labels = t.labels
        /\ Apply(t, m).name = t.name
    BY <2>1, <2>2, FillEntry
  <2>5. f[i].ok /\ At(i) = Apply(t, m)  BY <1>5, <1>6, <2>1, <2>3, <2>4, LoadGoesOn DEF t, m
  <2>6. Laned(ln, 0, At(i)) /\ Labelled(s, lb, 0, At(i))
    BY <2>1, <2>4, <2>5 DEF Laned, Labelled
  <2> QED BY <2>1, <2>3, <2>4, <2>5, <2>6 DEF Filled
<1>9. Full(N1, N1, 0, 0, None)
  <2>1. 0 \in P1  BY <1>4, <1>7
  <2> HIDE DEF P1
  <2>2. 0..N1 \subseteq P1  BY <1>4, <1>8, <2>1, BoundedInduction
  <2>3. N1 \in P1  BY <1>4, <2>2
  <2> QED BY <2>3 DEF P1
<1> DEFINE P2 == {j \in 0..Len(ln) : Full(N1 + j, N1, j, 0, None)}
<1>10. ASSUME NEW j \in 1..Len(ln), j - 1 \in P2 PROVE j \in P2
  <2> DEFINE n == N1 + j
             t == At(n - 1)
             m == ms[n]
  <2>1. n \in 1..Len(ms) /\ j \in 0..Len(ln) /\ N1 + (j - 1) = n - 1 /\ n - 1 + 1 = n
    BY <1>4, <1>5
  <2>2. f[n - 1].ok /\ Held(s, c, N1, t) /\ Laned(ln, j - 1, t) /\ Labelled(s, lb, 0, t)
        /\ t.sequence = n - 1 /\ t.name = None
    BY <1>10, <2>1 DEF Filled
  <2>3. m = LaneMutation(t.sequence + 1, ln[j][1], ln[j][2])  BY <2>1, <2>2 DEF Lines
  <2> HIDE DEF t, m, n
  <2>4. /\ CanApply(t, m) /\ Apply(t, m).sequence = t.sequence + 1 /\ Held(s, c, N1, Apply(t, m))
        /\ Laned(ln, j, Apply(t, m)) /\ Apply(t, m).labels = t.labels
        /\ Apply(t, m).name = t.name
    BY <2>2, <2>3, FillLane
  <2>5. f[n].ok /\ At(n) = Apply(t, m)  BY <1>5, <1>6, <2>1, <2>2, <2>4, LoadGoesOn DEF t, m
  <2>6. Labelled(s, lb, 0, At(n)) /\ At(n).sequence = n
    BY <2>1, <2>2, <2>4, <2>5 DEF Labelled
  <2> QED BY <2>1, <2>2, <2>4, <2>5, <2>6 DEF Filled, n
<1>11. Full(N2, N1, Len(ln), 0, None)
  <2>1. 0 \in P2  BY <1>4, <1>9
  <2> HIDE DEF P2
  <2>2. 0..Len(ln) \subseteq P2  BY <1>4, <1>10, <2>1, BoundedInduction
  <2>3. Len(ln) \in P2  BY <1>4, <2>2
  <2> QED BY <2>3 DEF P2
<1>12. Full(N3, N1, Len(ln), 0, s.name)
  <2>1. CASE Len(nm) = 0  BY <1>3, <1>4, <1>11, <2>1
  <2>2. CASE Len(nm) = 1
    <3> DEFINE t == At(N2)
               m == ms[N3]
    <3>1. N3 \in 1..Len(ms) /\ N3 - 1 = N2 /\ N3 = N2 + 1  BY <1>4, <1>5, <2>2
    <3>2. 1 \in 1..Len(nm) /\ nm[1] = s.name /\ s.name \in Names  BY <1>3, <2>2
    <3>3. f[N2].ok /\ Held(s, c, N1, t) /\ Laned(ln, Len(ln), t) /\ Labelled(s, lb, 0, t)
          /\ t.sequence = N2
      BY <1>11 DEF Filled
    <3>4. m = NameMutation(t.sequence + 1, s.name)  BY <3>1, <3>2, <3>3 DEF Lines, nm
    <3> HIDE DEF t, m, N3, N2, N4
    <3>5. /\ CanApply(t, m) /\ Apply(t, m).sequence = t.sequence + 1
          /\ Held(s, c, N1, Apply(t, m)) /\ Apply(t, m).lanes = t.lanes
          /\ Apply(t, m).labels = t.labels /\ Apply(t, m).name = s.name
      BY <3>2, <3>3, <3>4, FillName
    <3>6. f[N3].ok /\ At(N3) = Apply(t, m)  BY <1>5, <1>6, <3>1, <3>3, <3>5, LoadGoesOn DEF t, m
    <3>7. Laned(ln, Len(ln), At(N3)) /\ Labelled(s, lb, 0, At(N3)) /\ At(N3).sequence = N3
      BY <3>1, <3>3, <3>5, <3>6 DEF Laned, Labelled
    <3> QED BY <3>5, <3>6, <3>7 DEF Filled
  <2> QED BY <1>3, <2>1, <2>2
<1> DEFINE P4 == {l \in 0..Len(lb) : Full(N3 + l, N1, Len(ln), l, s.name)}
<1>13. ASSUME NEW l \in 1..Len(lb), l - 1 \in P4 PROVE l \in P4
  <2> DEFINE n == N3 + l
             t == At(n - 1)
             m == ms[n]
  <2>1. n \in 1..Len(ms) /\ l \in 0..Len(lb) /\ N3 + (l - 1) = n - 1 /\ n - 1 + 1 = n
    BY <1>4, <1>5
  <2>2. f[n - 1].ok /\ Held(s, c, N1, t) /\ Laned(ln, Len(ln), t) /\ Labelled(s, lb, l - 1, t)
        /\ t.sequence = n - 1 /\ t.name = s.name
    BY <1>13, <2>1 DEF Filled
  <2>3. m = LabelMutation(t.sequence + 1, lb[l], s.labels[lb[l]])
    BY <2>1, <2>2 DEF Lines, nm, lb
  <2> HIDE DEF t, m, n
  <2>4. /\ CanApply(t, m) /\ Apply(t, m).sequence = t.sequence + 1 /\ Held(s, c, N1, Apply(t, m))
        /\ Labelled(s, lb, l, Apply(t, m)) /\ Apply(t, m).lanes = t.lanes
        /\ Apply(t, m).name = t.name
    BY <1>2, <2>2, <2>3, FillLabel
  <2>5. f[n].ok /\ At(n) = Apply(t, m)  BY <1>5, <1>6, <2>1, <2>2, <2>4, LoadGoesOn DEF t, m
  <2>6. Laned(ln, Len(ln), At(n))  BY <2>2, <2>4, <2>5 DEF Laned
  <2>7. At(n).sequence = n  BY <2>1, <2>2, <2>4, <2>5
  <2> QED BY <2>1, <2>2, <2>4, <2>5, <2>6, <2>7 DEF Filled, n
<1>14. Full(N4, N1, Len(ln), Len(lb), s.name)
  <2>1. 0 \in P4  BY <1>4, <1>12
  <2> HIDE DEF P4
  <2>2. 0..Len(lb) \subseteq P4  BY <1>4, <1>13, <2>1, BoundedInduction
  <2>3. Len(lb) \in P4  BY <1>4, <2>2
  <2> QED BY <2>3 DEF P4
<1> QED BY <1>6, <1>14 DEF lb

-----------------------------------------------------------------------------
(* What a fork has of its source.                                          *)

\* f has the entries c of s, the lane pointers ln, and what belongs to them.
Mirrors(s, c, ln, f) ==
  /\ f \in State /\ EntriesOf(f) = Elements(c) /\ f.name = s.name
  /\ \A k \in 1..Len(c) : f.entries[c[k]] = [parent |-> s.entries[c[k]].parent,
                                             type |-> s.entries[c[k]].type, seq |-> k]
  /\ \A id \in Ids : f.records[id] = Missing
  /\ \A lane \in Lanes : f.openOps[lane] = {}
  /\ \A k \in 1..Len(ln) : f.lanes[ln[k][1]] = ln[k][2]
  /\ \A lane \in Lanes : (\A k \in 1..Len(ln) : ln[k][1] # lane) =>
       f.lanes[lane] = IF lane = Main THEN None ELSE Missing
  /\ \A id \in Ids : f.labels[id] = IF id \in Elements(c) THEN s.labels[id] ELSE Missing

\* The state a fork's lines fill mirrors its source.
LEMMA FilledMirrors ==
  ASSUME NEW s, Good(s), NEW c \in Seq(Ids), NEW ln, NEW load,
         Filled(s, c, ln, LabeledOf(s, c), Len(c), Len(ln), Len(LabeledOf(s, c)), load),
         load.state.name = s.name
  PROVE  Mirrors(s, c, ln, load.state)
<1> DEFINE f == load.state
           lb == LabeledOf(s, c)
<1>1. Held(s, c, Len(c), f) /\ Laned(ln, Len(ln), f) /\ Labelled(s, lb, Len(lb), f)
      /\ f.name = s.name
  BY DEF Filled
<1>2. Elements(lb) = Elements(c) \cap {id \in Ids : s.labels[id] # Missing}  BY LabeledSound
<1> HIDE DEF f, lb
<1>3. EntriesOf(f) = Elements(c)
  <2>1. \A id \in Ids : HasEntry(f, id) <=> \E k \in 1..Len(c) : c[k] = id  BY <1>1 DEF Held
  <2>2. Elements(c) \subseteq Ids  BY DEF Elements
  <2> QED BY <2>1, <2>2 DEF EntriesOf, Elements
<1>4. ASSUME NEW id \in Ids
      PROVE  f.labels[id] = IF id \in Elements(c) THEN s.labels[id] ELSE Missing
  <2>1. CASE id \in Elements(lb)
    <3>1. PICK k \in 1..Len(lb) : lb[k] = id  BY <2>1 DEF Elements
    <3>2. f.labels[id] = s.labels[id]  BY <1>1, <3>1 DEF Labelled
    <3> QED BY <1>2, <2>1, <3>2
  <2>2. CASE id \notin Elements(lb)
    <3>1. \A k \in 1..Len(lb) : lb[k] # id  BY <2>2 DEF Elements
    <3>2. f.labels[id] = Missing  BY <1>1, <3>1 DEF Labelled
    <3> QED BY <1>2, <2>2, <3>2
  <2> QED BY <2>1, <2>2
<1>5. \A lane \in Lanes : (\A k \in 1..Len(ln) : ln[k][1] # lane) =>
        f.lanes[lane] = IF lane = Main THEN None ELSE Missing
  BY <1>1 DEF Laned, EmptyState
<1> QED BY <1>1, <1>3, <1>4, <1>5 DEF Held, Laned, Mirrors, f

\* What a valid fork of a sound session is.
ForkMade(s, o, c, ln, f) ==
  Copied(s, o, c) /\ Lining(s, o, c, ln) /\ Mirrors(s, c, ln, f) /\ Good(f)

\* Such a fork loads, and is so.
LEMMA ForkLoads ==
  ASSUME NEW s, Good(s), NEW o \in ForkOptions, ValidForkTarget(s, o)
  PROVE  /\ ForkMutations(s, o) \in Seq(Mutations)
         /\ Replay(ForkMutations(s, o)).ok
         /\ ForkMade(s, o, CopiedEntries(s, o), ForkLanes(s, o),
                     Replay(ForkMutations(s, o)).state)
<1> DEFINE c == CopiedEntries(s, o)
           ln == ForkLanes(s, o)
           ms == ForkMutations(s, o)
           load == Replay(ms)
<1>1. Copied(s, o, c)  BY CopiedSound
<1>2. Lining(s, o, c, ln)  BY <1>1, LanesSound
<1>3. Copying(s, c)  BY <1>1 DEF Copied
<1>4. Lines(s, c, ln, NameOf(s), LabeledOf(s, c), ms)  BY <1>2, <1>3, ForkLines
<1> HIDE DEF c, ln, ms
<1>5. ms \in Seq(Mutations)  BY <1>4 DEF Lines
<1>6. /\ Filled(s, c, ln, LabeledOf(s, c), Len(c), Len(ln), Len(LabeledOf(s, c)), load)
      /\ load.state.name = s.name
  BY <1>2, <1>3, <1>4, LinesFill
<1>7. load \in Loads /\ Made(load, ms)  BY <1>5, ReplayMade
<1> HIDE DEF load
<1>8. c \in Seq(Ids)  BY <1>3 DEF Copying, EntriesOf
<1>9. Mirrors(s, c, ln, load.state)  BY <1>6, <1>8, FilledMirrors
<1>10. load.ok  BY <1>6 DEF Filled
<1>11. Good(load.state)  BY <1>7, <1>10 DEF Loads, Made, Good
<1> QED BY <1>1, <1>2, <1>5, <1>9, <1>10, <1>11 DEF ForkMade, c, ln, ms, load

\* Places of entries in what is copied are in the order of appending, too.
LEMMA CopyOrder ==
  ASSUME NEW s, Good(s), NEW c, Copying(s, c)
  PROVE  \A j, k \in 1..Len(c) :
           /\ s.entries[c[j]].seq < s.entries[c[k]].seq => j < k
           /\ c[j] = c[k] => j = k
<1> SUFFICES ASSUME NEW j \in 1..Len(c), NEW k \in 1..Len(c)
             PROVE  /\ s.entries[c[j]].seq < s.entries[c[k]].seq => j < k
                    /\ c[j] = c[k] => j = k
  OBVIOUS
<1>1. Len(c) \in Nat /\ c[j] \in EntriesOf(s) /\ c[k] \in EntriesOf(s)  BY DEF Copying
<1>2. j \in Nat /\ k \in Nat  BY <1>1
<1>3. s.entries[c[j]].seq \in Nat /\ s.entries[c[k]].seq \in Nat
  BY <1>1 DEF Good, State, EntriesOf, HasEntry, Entry
<1>4. (j < k => <<c[j], c[k]>> \in Older(s)) /\ (k < j => <<c[k], c[j]>> \in Older(s))
  BY DEF Copying, Chain
<1>5. j < k => s.entries[c[j]].seq < s.entries[c[k]].seq  BY <1>1, <1>4, OlderStrict
<1>6. k < j => s.entries[c[k]].seq < s.entries[c[j]].seq  BY <1>1, <1>4, OlderStrict
<1> QED BY <1>2, <1>3, <1>5, <1>6

\* A tree fork keeps the tree.
LEMMA TreeKept ==
  ASSUME NEW s, Good(s), NEW o, o.scope = "tree", NEW c, NEW ln, NEW f, ForkMade(s, o, c, ln, f)
  PROVE  /\ \A id \in Ids :
              /\ HasEntry(f, id) <=> HasEntry(s, id)
              /\ HasEntry(s, id) => f.entries[id].parent = s.entries[id].parent
                                    /\ f.entries[id].type = s.entries[id].type
              /\ f.records[id] = Missing
         /\ \A a, b \in EntriesOf(s) :
              s.entries[a].seq < s.entries[b].seq => f.entries[a].seq < f.entries[b].seq
         /\ f.lanes = s.lanes /\ f.labels = s.labels /\ f.name = s.name
         /\ \A lane \in Lanes : f.openOps[lane] = {}
<1>1. Elements(c) = EntriesOf(s) /\ EntriesOf(f) = EntriesOf(s) /\ Copying(s, c)
  BY DEF ForkMade, Copied, Mirrors
<1>2. \A id \in EntriesOf(s) : \E k \in 1..Len(c) : c[k] = id  BY <1>1 DEF Elements
<1>3. \A id \in Ids : HasEntry(f, id) <=> HasEntry(s, id)  BY <1>1 DEF EntriesOf
<1>4. \A k \in 1..Len(c) : /\ f.entries[c[k]].parent = s.entries[c[k]].parent
                           /\ f.entries[c[k]].type = s.entries[c[k]].type
                           /\ f.entries[c[k]].seq = k
  <2> TAKE k \in 1..Len(c)
  <2>1. f.entries[c[k]] = [parent |-> s.entries[c[k]].parent,
                           type |-> s.entries[c[k]].type, seq |-> k]
    BY DEF ForkMade, Mirrors
  <2> QED BY <2>1
<1>5. \A id \in Ids : HasEntry(s, id) => f.entries[id].parent = s.entries[id].parent
                                         /\ f.entries[id].type = s.entries[id].type
  BY <1>2, <1>4 DEF EntriesOf
<1>6. ASSUME NEW a \in EntriesOf(s), NEW b \in EntriesOf(s), s.entries[a].seq < s.entries[b].seq
      PROVE  f.entries[a].seq < f.entries[b].seq
  <2>1. PICK j \in 1..Len(c) : c[j] = a  BY <1>2
  <2>2. PICK k \in 1..Len(c) : c[k] = b  BY <1>2
  <2>3. j < k  BY <1>1, <1>6, <2>1, <2>2, CopyOrder
  <2> QED BY <1>4, <2>1, <2>2, <2>3
<1>7. ASSUME NEW lane \in Lanes PROVE f.lanes[lane] = s.lanes[lane]
  <2>1. CASE HasLane(s, lane)
    <3>1. PICK k \in 1..Len(ln) : ln[k][1] = lane  BY <2>1 DEF ForkMade, Lining
    <3>2. f.lanes[ln[k][1]] = ln[k][2] /\ ln[k][2] = s.lanes[ln[k][1]]
      BY DEF ForkMade, Lining, Mirrors
    <3> QED BY <3>1, <3>2
  <2>2. CASE ~HasLane(s, lane)
    <3>1. \A k \in 1..Len(ln) : ln[k][1] # lane  BY <2>2 DEF ForkMade, Lining
    <3>2. lane # Main  BY <2>2 DEF Good, Grounded
    <3>3. f.lanes[lane] = Missing  BY <3>1, <3>2 DEF ForkMade, Mirrors
    <3> QED BY <2>2, <3>3 DEF HasLane
  <2> QED BY <2>1, <2>2
<1>8. ASSUME NEW id \in Ids PROVE f.labels[id] = s.labels[id]
  <2>1. f.labels[id] = IF id \in EntriesOf(s) THEN s.labels[id] ELSE Missing
    BY <1>1 DEF ForkMade, Mirrors
  <2>2. id \notin EntriesOf(s) => s.labels[id] = Missing
    BY DEF Good, WellFormed, ReferencesFound, EntriesOf
  <2> QED BY <2>1, <2>2
<1>9. f \in State /\ s \in State  BY DEF Good, ForkMade
<1>10. f.lanes = s.lanes /\ f.labels = s.labels
  <2>1. f.lanes = [l \in Lanes |-> f.lanes[l]] /\ s.lanes = [l \in Lanes |-> s.lanes[l]]
    BY <1>9 DEF State
  <2>2. f.labels = [i \in Ids |-> f.labels[i]] /\ s.labels = [i \in Ids |-> s.labels[i]]
    BY <1>9 DEF State
  <2> QED BY <1>7, <1>8, <2>1, <2>2
<1> QED BY <1>3, <1>5, <1>6, <1>10 DEF ForkMade, Mirrors

\* A branch fork is one chain.
LEMMA BranchKept ==
  ASSUME NEW s, Good(s), NEW o, o.scope = "branch", NEW c, NEW ln, NEW f,
         ForkMade(s, o, c, ln, f)
  PROVE  /\ \A lane \in Lanes \ {Main} : ~HasLane(f, lane)
         /\ f.lanes[Main] = ForkTarget(s, o)
         /\ f.lanes[Main] = None => EntriesOf(f) = {}
         /\ \A id \in EntriesOf(f) :
              /\ f.entries[id].parent = s.entries[id].parent
              /\ f.labels[id] = s.labels[id]
              /\ \/ id = f.lanes[Main]
                 \/ \E child \in EntriesOf(f) : f.entries[child].parent = id
         /\ \A a, b \in EntriesOf(f) : f.entries[a].parent = f.entries[b].parent => a = b
<1> DEFINE t == ForkTarget(s, o)
<1>1. ln = <<<<Main, t>>>>  BY DEF ForkMade, Lining
<1>2. /\ EntriesOf(f) = Elements(c) /\ Copying(s, c)
      /\ IF t = None THEN c = <<>> ELSE Branch(s, c, t)
  BY DEF ForkMade, Copied, Mirrors
<1> HIDE DEF t
<1>3. Len(ln) = 1 /\ ln[1] = <<Main, t>> /\ ln[1][1] = Main /\ ln[1][2] = t  BY <1>1
<1>4. f.lanes[Main] = t
  <2>1. 1 \in 1..Len(ln)  BY <1>3
  <2> QED BY <1>3, <2>1 DEF ForkMade, Mirrors
<1>5. ASSUME NEW lane \in Lanes \ {Main} PROVE ~HasLane(f, lane)
  <2>1. \A k \in 1..Len(ln) : ln[k][1] # lane  BY <1>3
  <2> QED BY <2>1 DEF ForkMade, Mirrors, HasLane
<1>6. t = None => Elements(c) = {}  BY <1>2 DEF Elements
<1>7. ASSUME NEW k \in 1..Len(c)
      PROVE  /\ f.entries[c[k]].parent = s.entries[c[k]].parent
             /\ f.labels[c[k]] = s.labels[c[k]]
             /\ c[k] \in Ids
  <2>1. f.entries[c[k]] = [parent |-> s.entries[c[k]].parent,
                           type |-> s.entries[c[k]].type, seq |-> k]
    BY DEF ForkMade, Mirrors
  <2>2. c[k] \in Elements(c) /\ c[k] \in Ids  BY <1>2 DEF Copying, EntriesOf, Elements
  <2> QED BY <2>1, <2>2 DEF ForkMade, Mirrors
<1>8. Len(c) # 0 => Branch(s, c, t)
  <2>1. c = <<>> => Len(c) = 0  OBVIOUS
  <2> QED BY <1>2, <2>1
<1>9. ASSUME NEW k \in 1..Len(c)
      PROVE  c[k] = t \/ \E child \in Elements(c) : f.entries[child].parent = c[k]
  <2>1. Len(c) \in Nat /\ c[Len(c)] = t
        /\ \A n \in 1..Len(c) : n # 1 => s.entries[c[n]].parent = c[n - 1]
    <3>1. Len(c) # 0  OBVIOUS
    <3> QED BY <1>8, <3>1 DEF Branch
  <2>2. CASE k = Len(c)  BY <2>1, <2>2
  <2>3. CASE k # Len(c)
    <3>1. k + 1 \in 1..Len(c) /\ k + 1 # 1 /\ (k + 1) - 1 = k  BY <2>1, <2>3
    <3>2. f.entries[c[k + 1]].parent = c[k]  BY <1>7, <2>1, <3>1
    <3>3. c[k + 1] \in Elements(c)  BY <3>1 DEF Elements
    <3> QED BY <3>2, <3>3
  <2> QED BY <2>2, <2>3
<1>10. ASSUME NEW j \in 1..Len(c), NEW k \in 1..Len(c),
              s.entries[c[j]].parent = s.entries[c[k]].parent
       PROVE  c[j] = c[k]
  <2>1. Len(c) \in Nat /\ s.entries[c[1]].parent = None
        /\ \A n \in 1..Len(c) : n # 1 => s.entries[c[n]].parent = c[n - 1]
    <3>1. Len(c) # 0  OBVIOUS
    <3> QED BY <1>8, <3>1 DEF Branch
  <2>2. \A n \in 1..Len(c) : c[n] # None  BY <1>7, NamesAssumption
  <2>3. CASE j = 1 \/ k = 1
    <3>1. \A n \in 1..Len(c) : n # 1 => s.entries[c[n]].parent # None
      <4> TAKE n \in 1..Len(c)
      <4>1. n # 1 => n - 1 \in 1..Len(c)  BY <2>1
      <4> QED BY <2>1, <2>2, <4>1
    <3> QED BY <1>10, <2>1, <2>3, <3>1
  <2>4. CASE j # 1 /\ k # 1
    <3>1. c[j - 1] = c[k - 1]  BY <1>10, <2>1, <2>4
    <3>2. j - 1 \in 1..Len(c) /\ k - 1 \in 1..Len(c)  BY <2>1, <2>4
    <3>3. j - 1 = k - 1  BY <1>2, <3>1, <3>2, CopyOrder
    <3>4. j = k  BY <2>1, <3>3
    <3> QED BY <3>4
  <2> QED BY <2>3, <2>4
<1>11. \A id \in Elements(c) : \E k \in 1..Len(c) : c[k] = id  BY DEF Elements
<1>12. ASSUME NEW id \in EntriesOf(f)
       PROVE  /\ f.entries[id].parent = s.entries[id].parent
              /\ f.labels[id] = s.labels[id]
              /\ id = t \/ \E child \in EntriesOf(f) : f.entries[child].parent = id
  <2>1. PICK k \in 1..Len(c) : c[k] = id  BY <1>2, <1>11
  <2> QED BY <1>2, <1>7, <1>9, <2>1
<1>13. ASSUME NEW a \in EntriesOf(f), NEW b \in EntriesOf(f),
              f.entries[a].parent = f.entries[b].parent
       PROVE  a = b
  <2>1. PICK j \in 1..Len(c) : c[j] = a  BY <1>2, <1>11
  <2>2. PICK k \in 1..Len(c) : c[k] = b  BY <1>2, <1>11
  <2> QED BY <1>7, <1>10, <1>13, <2>1, <2>2
<1> QED BY <1>2, <1>4, <1>5, <1>6, <1>12, <1>13 DEF t

\* The path to an entry is the same in the fork.
LEMMA PathKept ==
  ASSUME NEW s, Good(s), NEW o, NEW c, NEW ln, NEW f, ForkMade(s, o, c, ln, f)
  PROVE  \A id \in EntriesOf(f) : PathTo(f, id) = PathTo(s, id)
<1> DEFINE E == EntriesOf(f)
           up == [i \in E |-> f.entries[i].parent]
           rank == [i \in E |-> f.entries[i].seq]
<1>1. Good(f) /\ E = Elements(c) /\ c \in Seq(EntriesOf(s))
  BY DEF ForkMade, Mirrors, Copied, Copying
<1>2. PICK g : IsPath(g, s) /\ \A id : PathTo(s, id) = g[id]  BY PathExists
<1>3. PICK h : IsPath(h, f) /\ \A id : PathTo(f, id) = h[id]  BY <1>1, PathExists
<1> DEFINE S == {i \in E : h[i] = g[i]}
<1>4. Forest(E, up, rank, f.sequence, None)  BY <1>1, EntriesForest
<1>5. \A i \in E : i \in EntriesOf(s) /\ f.entries[i].parent = s.entries[i].parent
  <2> TAKE i \in E
  <2>1. PICK k \in 1..Len(c) : c[k] = i  BY <1>1 DEF Elements
  <2>2. f.entries[c[k]] = [parent |-> s.entries[c[k]].parent,
                           type |-> s.entries[c[k]].type, seq |-> k]
    BY DEF ForkMade, Mirrors
  <2> QED BY <1>1, <2>1, <2>2
<1>6. \A i \in E : h[i] = IF f.entries[i].parent = None THEN <<i>>
                          ELSE Append(h[f.entries[i].parent], i)
  BY <1>3 DEF IsPath
<1>7. \A i \in EntriesOf(s) : g[i] = IF s.entries[i].parent = None THEN <<i>>
                                     ELSE Append(g[s.entries[i].parent], i)
  BY <1>2 DEF IsPath
<1>8. ASSUME NEW i \in E, up[i] # None => up[i] \in S PROVE i \in S
  <2>1. f.entries[i].parent # None => h[f.entries[i].parent] = g[f.entries[i].parent]  BY <1>8
  <2>2. h[i] = g[i]  BY <1>5, <1>6, <1>7, <2>1
  <2> QED BY <2>2
<1> HIDE DEF E, up, rank, S
<1>9. E \subseteq S  BY <1>4, <1>8, ForestInduction
<1> QED BY <1>2, <1>3, <1>9 DEF S, E

-----------------------------------------------------------------------------
(* Sessions that are forked, too.                                          *)

\* A reload gives back the state. It makes the state one of accepted mutations.
Reloads == Replay(journal) = [ok |-> TRUE, state |-> st]

FInv == IInv /\ Reloads

\* What the invariant says of the state.
LEMMA StateMade ==
  ASSUME FInv
  PROVE  Good(st) /\ IndexesAgree(st, journal)
<1>1. journal \in Seq(Mutations) /\ st \in State  BY DEF FInv, IInv, TypeOK
<1>2. Made(Replay(journal), journal)  BY <1>1, ReplayMade
<1>3. Replay(journal).ok /\ Replay(journal).state = st  BY DEF FInv, Reloads
<1> QED BY <1>1, <1>2, <1>3 DEF Made, Good

\* Every mutation written was applied, and a load applies the same.
LEMMA CommitReloads ==
  ASSUME FInv, Next
  PROVE  FInv' /\ Kept(st, st')
<1>1. IInv /\ Reloads  BY DEF FInv
<1>2. PICK m \in Mutations : CanApply(st, m) /\ Commit(m)  BY <1>1, NextCommits
<1>3. journal' = Append(journal, m) /\ st' = Apply(st, m)  BY <1>2 DEF Commit
<1>4. journal \in Seq(Mutations) /\ st \in State /\ WellFormed(st)  BY <1>1 DEF IInv, TypeOK
<1>5. Replay(journal') = ReplayOne(Replay(journal), m)  BY <1>3, <1>4, ReplayAppend
<1>6. ReplayOne([ok |-> TRUE, state |-> st], m) = [ok |-> TRUE, state |-> Apply(st, m)]
  BY <1>2 DEF ReplayOne
<1>7. Reloads'  BY <1>1, <1>3, <1>5, <1>6 DEF Reloads
<1>8. Kept(st, st')  BY <1>2, <1>3, <1>4, ApplyKeeps
<1>9. IInv'  BY <1>1, NextInvariant
<1> QED BY <1>7, <1>8, <1>9 DEF FInv

\* A fork is a session in its own right.
LEMMA ForkReloads ==
  ASSUME FInv, NEW o \in ForkOptions, Fork(o)
  PROVE  FInv' /\ (IsPrefix(journal, journal') => Kept(st, st'))
<1> DEFINE ms == ForkMutations(st, o)
           load == Replay(ms)
<1>1. Good(st) /\ journal \in Seq(Mutations)  BY StateMade DEF FInv, IInv, TypeOK
<1>2. ValidForkTarget(st, o) /\ journal' = ms /\ st' = load.state  BY DEF Fork
<1>3. ms \in Seq(Mutations) /\ load.ok
      /\ ForkMade(st, o, CopiedEntries(st, o), ForkLanes(st, o), load.state)
  BY <1>1, <1>2, ForkLoads
<1>4. load \in Loads /\ Made(load, ms)  BY <1>3, ReplayMade
<1>5. Replay(journal') = load  BY <1>2
<1> HIDE DEF ms, load
<1>6. load = [ok |-> TRUE, state |-> load.state]  BY <1>3, <1>4 DEF Loads
<1>7. Reloads'  BY <1>2, <1>5, <1>6 DEF Reloads
<1>8. TypeOK'  BY <1>2, <1>3, <1>4 DEF TypeOK, Loads
<1>9. EveryLineApplied' /\ WellFormed(st')  BY <1>2, <1>3, <1>4 DEF EveryLineApplied, Made
<1>10. SingleOpen'  BY <1>2, <1>3 DEF SingleOpen, ForkMade, Mirrors
<1>11. ASSUME IsPrefix(journal, journal') PROVE Kept(st, st')
  <2> DEFINE n == Len(journal)
             ns == SubSeq(ms, n + 1, Len(ms))
  <2>1. n \in Nat /\ Len(ms) \in Nat /\ n <= Len(ms) /\ SubSeq(journal, 1, n) = SubSeq(ms, 1, n)
    BY <1>1, <1>2, <1>3, <1>11 DEF IsPrefix
  <2>2. journal = SubSeq(ms, 1, n)  BY <1>1, <2>1
  <2>3. ns \in Seq(Mutations) /\ ms = SubSeq(ms, 1, n) \o ns
    <3> DEFINE a == SubSeq(ms, 1, n)
    <3>1. a \in Seq(Mutations) /\ Len(a) = n /\ \A i \in 1..n : a[i] = ms[i]  BY <1>3, <2>1
    <3>2. ns \in Seq(Mutations) /\ Len(ns) = Len(ms) - n
          /\ \A i \in 1..(Len(ms) - n) : ns[i] = ms[n + i]
      BY <1>3, <2>1
    <3> HIDE DEF a, ns, n
    <3> DEFINE b == a \o ns
    <3>3. /\ b \in Seq(Mutations) /\ Len(b) = Len(a) + Len(ns)
          /\ \A i \in 1..Len(a) : b[i] = a[i]
          /\ \A i \in 1..Len(ns) : b[Len(a) + i] = ns[i]
      <4>1. a \in Seq(Mutations) /\ ns \in Seq(Mutations)  BY <3>1, <3>2
      <4> QED BY ONLY <4>1, TwoParts
    <3> HIDE DEF b
    <3>4. Len(b) = Len(ms) /\ \A i \in 1..Len(ms) : b[i] = ms[i]
      <4>1. Len(b) = Len(ms)  BY <2>1, <3>1, <3>2, <3>3
      <4> SUFFICES ASSUME NEW i \in 1..Len(ms) PROVE b[i] = ms[i]  BY <4>1
      <4>2. CASE i <= n  BY <2>1, <3>1, <3>3, <4>2
      <4>3. CASE i > n
        <5> DEFINE k == i - n
        <5>1. k \in 1..Len(ns) /\ n + k = i  BY <2>1, <3>2, <4>3
        <5> HIDE DEF k
        <5>2. b[n + k] = ns[k] /\ ns[k] = ms[n + k]  BY <3>1, <3>2, <3>3, <5>1
        <5> QED BY <5>1, <5>2
      <4> QED BY <2>1, <4>2, <4>3
    <3>5. b = ms  BY <1>3, <3>3, <3>4
    <3> QED BY <3>2, <3>5 DEF a, b
  <2> HIDE DEF ns, n
  <2>4. ms = journal \o ns  BY <2>2, <2>3
  <2>5. Replay(journal \o ns).ok =>
          Kept(Replay(journal).state, Replay(journal \o ns).state)
    BY <1>1, <2>3, ReplayKeeps
  <2>6. Kept(Replay(journal).state, load.state)  BY <1>3, <2>4, <2>5 DEF load
  <2>7. Replay(journal).state = st  BY DEF FInv, Reloads
  <2> QED BY <1>2, <2>6, <2>7
<1> QED BY <1>7, <1>8, <1>9, <1>10, <1>11 DEF FInv, IInv

\* The invariant, and what a step keeps.
LEMMA ForkInvariant ==
  FInv /\ [ForkNext]_vars => FInv' /\ [IsPrefix(journal, journal') => Kept(st, st')]_vars
<1> SUFFICES ASSUME FInv, [ForkNext]_vars
             PROVE  FInv' /\ [IsPrefix(journal, journal') => Kept(st, st')]_vars
  OBVIOUS
<1>1. CASE Next  BY <1>1, CommitReloads
<1>2. CASE \E o \in ForkOptions : Fork(o)  BY <1>2, ForkReloads
<1>3. CASE UNCHANGED vars
  BY <1>3 DEF FInv, IInv, TypeOK, EveryLineApplied, SingleOpen, Reloads, vars
<1> QED BY <1>1, <1>2, <1>3 DEF ForkNext

\* Every fork a session can be asked for is what the options say.
LEMMA ForksFaithful == FInv => ForksKeepTheirSource
<1> SUFFICES ASSUME FInv PROVE ForksKeepTheirSource  OBVIOUS
<1>1. Good(st)  BY StateMade
<1>2. \A o \in ForkOptions : ValidForkTarget(st, o) =>
        Replay(ForkMutations(st, o)).ok
        /\ ForkMade(st, o, CopiedEntries(st, o), ForkLanes(st, o), ForkOf(o))
  BY <1>1, ForkLoads DEF ForkOf
<1>3. ForksReplay  BY <1>2 DEF ForksReplay, ValidOptions
<1>4. TreeForkKeepsTree
  <2> DEFINE o == [scope |-> "tree"]
  <2>1. o \in ForkOptions /\ o.scope = "tree"  BY DEF ForkOptions, TreeOptions
  <2>2. ValidForkTarget(st, o)  BY <2>1 DEF ValidForkTarget
  <2> HIDE DEF o
  <2>3. ForkMade(st, o, CopiedEntries(st, o), ForkLanes(st, o), ForkOf(o))  BY <1>2, <2>1, <2>2
  <2> QED BY <1>1, <2>1, <2>3, TreeKept DEF TreeForkKeepsTree, o
<1>5. BranchForkIsOneChain
  <2> SUFFICES ASSUME NEW o \in ValidOptions, o.scope = "branch"
               PROVE  LET f == ForkOf(o)
                          copied == EntriesOf(f)
                      IN /\ \A lane \in Lanes \ {Main} : ~HasLane(f, lane)
                         /\ f.lanes[Main] = ForkTarget(st, o)
                         /\ f.lanes[Main] = None => copied = {}
                         /\ \A id \in copied :
                              /\ f.entries[id].parent = st.entries[id].parent
                              /\ f.labels[id] = st.labels[id]
                              /\ \/ id = f.lanes[Main]
                                 \/ \E child \in copied : f.entries[child].parent = id
                         /\ \A a, b \in copied :
                              f.entries[a].parent = f.entries[b].parent => a = b
    BY DEF BranchForkIsOneChain
  <2>1. ForkMade(st, o, CopiedEntries(st, o), ForkLanes(st, o), ForkOf(o))
    BY <1>2 DEF ValidOptions
  <2> QED BY <1>1, <2>1, BranchKept
<1>6. DefaultForkKeepsMainBranch
  <2> DEFINE o == [scope |-> "branch", entryId |-> None, position |-> None]
             t == st.lanes[Main]
  <2> SUFFICES ASSUME o \in ValidOptions, t # None
               PROVE  ForkOf(o).lanes[Main] = t /\ PathTo(ForkOf(o), t) = PathTo(st, t)
    BY DEF DefaultForkKeepsMainBranch
  <2>1. ForkMade(st, o, CopiedEntries(st, o), ForkLanes(st, o), ForkOf(o))
    BY <1>2 DEF ValidOptions
  <2>2. ForkTarget(st, o) = t  BY DEF ForkTarget, Selected, Position
  <2>3. o.scope = "branch"  OBVIOUS
  <2> HIDE DEF o, t
  <2>4. ForkOf(o).lanes[Main] = t  BY <1>1, <2>1, <2>2, <2>3, BranchKept
  <2>5. t \in EntriesOf(ForkOf(o))
    <3>1. ForkOf(o) \in State /\ WellFormed(ForkOf(o))  BY <2>1 DEF ForkMade, Good
    <3>2. t \in Ids
      BY <1>1, <2>4, <3>1, NamesAssumption DEF State, t, Good, Grounded, HasLane
    <3>3. HasEntry(ForkOf(o), t)
      BY <2>4, <3>1, <3>2, NamesAssumption DEF WellFormed, ReferencesFound
    <3> QED BY <3>2, <3>3 DEF EntriesOf
  <2>6. PathTo(ForkOf(o), t) = PathTo(st, t)  BY <1>1, <2>1, <2>5, PathKept
  <2> QED BY <2>4, <2>6 DEF t
<1> QED BY <1>3, <1>4, <1>5, <1>6 DEF ForksKeepTheirSource

-----------------------------------------------------------------------------
(* The inductive invariant holds in every state of a session that is used  *)
(* and forked, and forked again.                                           *)
THEOREM Invariance == ForkSpec => []FInv
<1>1. Init => FInv
  <2> SUFFICES ASSUME Init PROVE FInv  OBVIOUS
  <2>1. Replay(journal) = [ok |-> TRUE, state |-> st]  BY ReplayEmpty DEF Init
  <2> QED BY <2>1, InitInvariant DEF FInv, Reloads
<1>2. FInv /\ [ForkNext]_vars => FInv'  BY ForkInvariant
<1> QED BY <1>1, <1>2, PTL DEF ForkSpec

(* State and journal keep their types, in forks too.                       *)
THEOREM TypeCorrect == ForkSpec => []TypeOK
<1>1. FInv => TypeOK  BY DEF FInv, IInv
<1> QED BY <1>1, Invariance, PTL

(* No mutator and no fork writes a line that apply_mutation refuses, so    *)
(* the file never holds a line the state in memory does not reflect.       *)
THEOREM WrittenImpliesApplied == ForkSpec => []EveryLineApplied
<1>1. FInv => EveryLineApplied  BY DEF FInv, IInv
<1> QED BY <1>1, Invariance, PTL

(* The entries stay a forest: the walk to the root ends at a root.         *)
THEOREM ForestInvariant == ForkSpec => []ParentsPrecedeChildren
<1>1. FInv => ParentsPrecedeChildren
  BY DEF FInv, IInv, WellFormed, ParentsPrecedeChildren
<1> QED BY <1>1, Invariance, PTL

(* Lane leaves and labels always resolve.                                  *)
THEOREM ReferencesInvariant == ForkSpec => []ReferencesResolve
<1>1. FInv => ReferencesResolve
  BY DEF FInv, IInv, WellFormed, ReferencesResolve, ParentsPrecedeChildren
<1> QED BY <1>1, Invariance, PTL

(* Entries and records never share an id.                                  *)
THEOREM IdsInvariant == ForkSpec => []IdsPartitioned
<1>1. FInv => IdsPartitioned  BY DEF FInv, IInv, WellFormed, IdsPartitioned
<1> QED BY <1>1, Invariance, PTL

(* A lane never has two open operations, and an open one has its start.    *)
THEOREM OpenOperationInvariant == ForkSpec => []OneOpenOperationPerLane
<1>1. FInv => OneOpenOperationPerLane
  BY DEF FInv, IInv, WellFormed, SingleOpen, OneOpenOperationPerLane
<1> QED BY <1>1, Invariance, PTL

(* No call ever changes or removes an entry or a record, or removes a      *)
(* lane: move_lane makes branches and leaves the tree as it is. A fork     *)
(* that goes on with the lines of its source keeps them, too.              *)
THEOREM HistoryInvariant == ForkSpec => HistoryImmutable
<1>1. FInv /\ [ForkNext]_vars => [IsPrefix(journal, journal') => Kept(st, st')]_vars
  BY ForkInvariant
<1>2. [IsPrefix(journal, journal') => Kept(st, st')]_vars =>
        [IsPrefix(journal, journal') =>
           /\ \A id \in Ids : st.entries[id] # Missing => st'.entries[id] = st.entries[id]
           /\ \A id \in Ids : st.records[id] # Missing => st'.records[id] = st.records[id]
           /\ \A lane \in Lanes : HasLane(st, lane) => st'.lanes[lane] # Missing]_vars
  BY DEF Kept
<1> QED BY <1>1, <1>2, Invariance, PTL DEF ForkSpec, HistoryImmutable

(* A load of the journal gives back the state, to the last index: what     *)
(* apply_mutation keeps up to date one mutation at a time is what a        *)
(* reading of the whole journal says.                                      *)
THEOREM ReloadInvariant == ForkSpec => []JournalRestoresState
<1>1. FInv => JournalRestoresState
  BY StateMade DEF FInv, Reloads, JournalRestoresState
<1> QED BY <1>1, Invariance, PTL

(* Every fork create_fork_mutations can be asked for, of any session and   *)
(* of a fork of it, loads and has of its source what the options say: the  *)
(* whole tree, or the one branch with its labels and its parents.          *)
THEOREM ForksAreFaithful == ForkSpec => []ForksKeepTheirSource
  BY ForksFaithful, Invariance, PTL
=============================================================================
