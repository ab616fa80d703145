---------------------------- MODULE SessionFork ----------------------------
(***************************************************************************)
(* Forking a session (create_fork_mutations): the fork is the stream of    *)
(* mutations that rebuilds the chosen entries in a fresh session. The tree *)
(* scope copies every entry and lane, the branch scope the path from the   *)
(* root to one message. Records stay behind, so a fork starts with no open *)
(* operation. After Fork the model goes on with the forked session.        *)
(***************************************************************************)
EXTENDS SessionStorage, Filters

TreeOptions == [scope : {"tree"}]
BranchOptions ==
  [scope : {"branch"}, entryId : Ids \cup {None}, position : {None, "at", "before"}]
ForkOptions == TreeOptions \cup BranchOptions

\* The entry a branch fork selects: the one asked for, or main's leaf.
Selected(s, o) == IF o.entryId # None THEN o.entryId ELSE s.lanes[Main]

\* Only a message can be forked at; an empty main lane forks to nothing.
ValidForkTarget(s, o) ==
  o.scope = "branch" /\ Selected(s, o) # None =>
    HasEntry(s, Selected(s, o)) /\ s.entries[Selected(s, o)].type = "message"

\* An explicit entry is excluded unless "at" is asked for, main's leaf kept.
Position(o) ==
  CASE o.position # None -> o.position
    [] o.position = None -> IF o.entryId # None THEN "before" ELSE "at"

ForkTarget(s, o) ==
  IF Selected(s, o) = None \/ Position(o) = "at"
  THEN Selected(s, o)
  ELSE s.entries[Selected(s, o)].parent

EntriesOf(s) == {i \in Ids : HasEntry(s, i)}

\* The ids from the root down to an entry.
PathTo(s, id) ==
  LET path[i \in EntriesOf(s)] ==
        IF s.entries[i].parent = None
        THEN <<i>>
        ELSE Append(path[s.entries[i].parent], i)
  IN path[id]

OldestFirst(s) ==
  LET seqs == Within([n \in 1..s.sequence |-> n], {s.entries[i].seq : i \in EntriesOf(s)})
  IN [k \in 1..Len(seqs) |-> CHOOSE i \in EntriesOf(s) : s.entries[i].seq = seqs[k]]

\* Mistake: a branch fork copies the whole tree.
CopiedEntriesAll(s, o) == OldestFirst(s)

CopiedEntries(s, o) ==
  CASE o.scope = "tree"   -> OldestFirst(s)
    [] o.scope = "branch" -> IF ForkTarget(s, o) = None
                             THEN <<>>
                             ELSE PathTo(s, ForkTarget(s, o))

\* The lane pointers of the fork, as pairs of a lane and its leaf.
ForkLanes(s, o) ==
  CASE o.scope = "tree"   -> SetToSeq({<<l, s.lanes[l]>> : l \in {k \in Lanes : HasLane(s, k)}})
    [] o.scope = "branch" -> <<<<Main, ForkTarget(s, o)>>>>

ForkMutations(s, o) ==
  LET copied  == CopiedEntries(s, o)
      lanes   == ForkLanes(s, o)
      named   == IF s.name # None THEN <<s.name>> ELSE <<>>
      labeled == Within(copied, {id \in Ids : s.labels[id] # Missing})
      n == Len(copied)
      k == n + Len(lanes)
      j == k + Len(named)
  IN [i \in 1..n |-> EntryMutation(i, copied[i], s.entries[copied[i]].parent,
                                   s.entries[copied[i]].type, None)]
     \o [i \in 1..Len(lanes) |-> LaneMutation(n + i, lanes[i][1], lanes[i][2])]
     \o [i \in 1..Len(named) |-> NameMutation(k + i, named[i])]
     \o [i \in 1..Len(labeled) |-> LabelMutation(j + i, labeled[i], s.labels[labeled[i]])]

Fork(o) ==
  /\ ValidForkTarget(st, o)
  /\ journal' = ForkMutations(st, o)
  /\ Len(journal') <= MaxSequence
  /\ st' = Replay(journal').state

ForkNext == Next \/ \E o \in ForkOptions : Fork(o)

ForkSpec == Init /\ [][ForkNext]_vars

-----------------------------------------------------------------------------
ValidOptions == {o \in ForkOptions : ValidForkTarget(st, o)}
ForkOf(o) == Replay(ForkMutations(st, o)).state

(* Every fork the options allow can be loaded: parents come before their   *)
(* children, every lane and label target has been copied, and the renewed  *)
(* sequence numbers have no gap.                                           *)
ForksReplay == \A o \in ValidOptions : Replay(ForkMutations(st, o)).ok

(* A tree fork preserves the tree, in order, with all lanes, labels and    *)
(* the name, and drops all records and open operations.                    *)
TreeForkKeepsTree ==
  LET f == ForkOf([scope |-> "tree"])
  IN /\ \A id \in Ids :
          /\ HasEntry(f, id) <=> HasEntry(st, id)
          /\ HasEntry(st, id) => f.entries[id].parent = st.entries[id].parent
                                 /\ f.entries[id].type = st.entries[id].type
          /\ f.records[id] = Missing
     /\ \A a, b \in EntriesOf(st) :
          st.entries[a].seq < st.entries[b].seq => f.entries[a].seq < f.entries[b].seq
     /\ f.lanes = st.lanes /\ f.labels = st.labels /\ f.name = st.name
     /\ \A lane \in Lanes : f.openOps[lane] = {}

(* A branch fork has main only, its leaf the chosen entry or the chosen    *)
(* entry's parent, and its entries form one chain from that leaf to a root *)
(* of the source, every one with its source's parent and label.            *)
BranchForkIsOneChain ==
  \A o \in ValidOptions : o.scope = "branch" =>
    LET f == ForkOf(o)
        copied == EntriesOf(f)
    IN /\ \A lane \in Lanes \ {Main} : ~HasLane(f, lane)
       /\ f.lanes[Main] = ForkTarget(st, o)
       /\ f.lanes[Main] = None => copied = {}
       /\ \A id \in copied :
            /\ f.entries[id].parent = st.entries[id].parent
            /\ f.labels[id] = st.labels[id]
            /\ \/ id = f.lanes[Main]
               \/ \E child \in copied : f.entries[child].parent = id
       /\ \A a, b \in copied : f.entries[a].parent = f.entries[b].parent => a = b

(* A fork that asks for the main lane where it stands has exactly the      *)
(* context of its source: the same path from the root to main's leaf.      *)
DefaultForkKeepsMainBranch ==
  LET o == [scope |-> "branch", entryId |-> None, position |-> None]
  IN o \in ValidOptions /\ st.lanes[Main] # None =>
       /\ ForkOf(o).lanes[Main] = st.lanes[Main]
       /\ PathTo(ForkOf(o), st.lanes[Main]) = PathTo(st, st.lanes[Main])

(* A fork loads, and has of its source exactly what was asked for: all of  *)
(* the tree, or one branch, with what belongs to it.                       *)
ForksKeepTheirSource ==
  ForksReplay /\ TreeForkKeepsTree /\ BranchForkIsOneChain /\ DefaultForkKeepsMainBranch
=============================================================================
