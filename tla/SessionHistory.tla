--------------------------- MODULE SessionHistory ---------------------------
(***************************************************************************)
(* One lane of a session as a conversation grows on it: messages and model *)
(* changes are appended, the history is compacted, and the leaf moves to   *)
(* another entry with a summary of the branch it leaves. An entry is its   *)
(* index in tree. Compaction and navigation hold the lane (an operation is *)
(* open while the summary is written), so each is one step here; a summary *)
(* that fails leaves everything as it was.                                 *)
(***************************************************************************)
EXTENDS Compaction

CONSTANTS
  Settings,   \* of each session: the tokens a compaction keeps, those a branch
              \* summary reads (0 for no limit), the kinds of entries appended,
              \* whether the caller stores file lists as dicts
  MaxEntries  \* bound on the entries of a session

Kinds == {"user", "answer", "read", "edit", "toolResult", "bash", "excluded", "stub",
          "model_change"}

VARIABLES
  tree,     \* the entries, each with its parent (0 for none)
  leaf,     \* the entry the lane points to
  settings  \* as configured

historyVars == <<tree, leaf, settings>>

HistoryInit(configured) == tree = <<>> /\ leaf = 0 /\ settings \in configured

\* The path from the root to an entry of t.
BranchTo(t, id) ==
  LET path[i \in 0..id] == IF i = 0 THEN <<>> ELSE Append(path[t[i].parent], t[i])
  IN path[id]

Path == BranchTo(tree, leaf)

Grow(parent, e) ==
  /\ Len(tree) < MaxEntries
  /\ tree' = Append(tree, e @@ [id |-> Len(tree) + 1, parent |-> parent])
  /\ leaf' = Len(tree) + 1
  /\ UNCHANGED settings

\* The results of a call come right after it, in this model at most two; a
\* model change or a compaction may lie between.
AwaitsResult(path) ==
  LET said == SelectSeq(path, LAMBDA e : e.type \in {"message", "branch_summary"})
      n == Len(said)
      calls(i) == i > 0 /\ IsMessage(said[i]) /\ said[i].msg.tool # "none"
      result(i) == i > 0 /\ IsMessage(said[i]) /\ said[i].msg.role = "toolResult"
  IN calls(n) \/ (result(n) /\ calls(n - 1))

MessageOf(kind) ==
  LET new(role, tool) == Message(role, {Len(tree) + 1}, tool)
  IN CASE kind = "answer" -> new("assistant", "none")
       [] kind = "stub"   -> [new("assistant", "none") EXCEPT !.stub = TRUE]
       [] kind \in {"read", "edit"} -> new("assistant", kind)
       [] kind = "excluded" -> [new("bash", "none") EXCEPT !.excluded = TRUE]
       [] OTHER -> new(kind, "none")

\* An assistant message names the model that wrote it.
AppendMessage(kind) ==
  LET m == MessageOf(kind)
      current == DeriveModel(Path)
  IN /\ kind # "model_change"
     /\ kind = "toolResult" => AwaitsResult(Path)
     /\ Grow(leaf, [type |-> "message", msg |-> m,
                    model |-> CASE m.role # "assistant" -> "none"
                                [] current = "none" -> "first"
                                [] OTHER -> current])

ChangeModel ==
  /\ "model_change" \in settings.kinds
  /\ Grow(leaf, [type |-> "model_change", model |-> "second"])

\* compact() returns its file lists as a dataclass. A caller that stores them in
\* a JSONL session has to make a dict of it, one in memory does not.
Compact ==
  /\ CanCompact(Path)
  /\ Grow(leaf, [type |-> "compaction", dict |-> settings.dicts]
                  @@ CompactHistory(PrepareCompaction(Path, settings.keep)))

\* The lane moves to another entry, where a summary of the branch it leaves is
\* appended; with nothing to leave it just moves.
Navigate(to) ==
  LET left == BranchEntries(Path, BranchTo(tree, to))
  IN /\ to # leaf
     /\ IF left = <<>>
        THEN leaf' = to /\ UNCHANGED <<tree, settings>>
        ELSE Grow(to, [type |-> "branch_summary", from |-> leaf, dict |-> settings.dicts]
                        @@ GenerateBranchSummary(left, settings.budget))

HistoryNext ==
  \/ \E kind \in settings.kinds : AppendMessage(kind)
  \/ ChangeModel
  \/ Compact
  \/ \E to \in DOMAIN tree : Navigate(to)

HistorySpec == HistoryInit(Settings) /\ [][HistoryNext]_historyVars

-----------------------------------------------------------------------------
(* Properties. *)

\* What an entry has to tell the model.
Says(e) ==
  CASE IsMessage(e) -> IF e.msg.excluded \/ e.msg.stub THEN {} ELSE e.msg.about
    [] e.type = "branch_summary" -> e.summary
    [] OTHER -> {}

Told(path) == AboutAll(ConvertToLlm(BuildContext(path)))

\* What a compaction drops when it says that there is no prior history: all
\* that only the summary before it still told.
Dropped(path) ==
  UNION {path[i].summary : i \in {i \in DOMAIN path :
           /\ path[i].type = "compaction"
           /\ \E j \in i + 1..Len(path) : path[j].type = "compaction" /\ path[j].noPrior}}

(* The context of a lane tells of every message on its path, itself or in  *)
(* a summary, however often it was compacted, at whatever budget and       *)
(* wherever the cut fell, but for what Dropped says. And a compaction does *)
(* not change which model reads it.                                        *)
NothingForgotten ==
  LET path == Path
      known == Told(path) \cup Dropped(path)
  IN \A i \in DOMAIN path :
       /\ Says(path[i]) \subseteq known
       /\ path[i].type = "compaction" =>
            DeriveModel(SubSeq(path, 1, i)) = DeriveModel(SubSeq(path, 1, i - 1))

(* "PRESERVE all existing information from the previous summary": a later  *)
(* compaction adds to the summary before it and drops nothing of it.       *)
SummariesAccumulate ==
  \A i \in DOMAIN Path : Says(Path[i]) \subseteq Told(Path)

(* Messages are shown in the order they were said, none twice, and none in *)
(* full that the summary of the same compaction already tells; a message   *)
(* that is yet to be fetched shows up only among those a compaction kept.  *)
ContextInOrder ==
  LET path == Path
      shown == SelectSeq(BuildContext(path),
                         LAMBDA m : m.role \notin {"branchSummary", "compactionSummary"})
      prev == LastCompaction(path)
      compacted == IF prev = 0 THEN <<>> ELSE path[prev].tail
      at(i) == CHOOSE id \in shown[i].about : TRUE
  IN /\ \A i, j \in DOMAIN shown : i < j => at(i) < at(j)
     /\ prev # 0 => \A i \in DOMAIN compacted :
                      compacted[i].role # "branchSummary" =>
                        compacted[i].about \cap path[prev].summary = {}
     /\ \A i \in DOMAIN shown : shown[i].stub => Contains(compacted, shown[i])

(* Providers refuse a tool result without its call: in every context the   *)
(* results of a call stand behind it, so no cut comes between them.        *)
ResultsFollowCalls ==
  LET shown == BuildContext(Path)
  IN \A i \in DOMAIN shown : shown[i].role = "toolResult" =>
       \E j \in 1..i - 1 :
         /\ shown[j].tool # "none"
         /\ \A k \in j + 1..i : shown[k].role = "toolResult"

(* A branch is left with a summary of its newest part: what the budget     *)
(* cuts off is older than what is told (before a compaction on the branch  *)
(* this does not hold: its summary is read, what it kept may be cut off).  *)
(* With no budget the new context tells all that the old one did, tool     *)
(* results aside.                                                          *)
BranchesRemembered ==
  \A i \in DOMAIN tree : tree[i].type = "branch_summary" =>
    LET s == tree[i]
        old == BranchTo(tree, s.from)
        new == BranchTo(tree, i)
        left == BranchEntries(old, new)
        told(e) == Says(e) \subseteq s.summary
        results == {e.id : e \in {old[k] : k \in {k \in DOMAIN old :
                        IsMessage(old[k]) /\ old[k].msg.role = "toolResult"}}}
    IN /\ \A a, b \in LastCompaction(left) + 1..Len(left) :
            a < b /\ IsMessage(left[a]) /\ IsMessage(left[b])
              /\ left[a].msg.role # "toolResult" /\ left[b].msg.role # "toolResult"
              /\ Says(left[a]) # {} /\ told(left[a]) => told(left[b])
       /\ settings.budget = 0 =>
            LET before == Told(old)
                known == Told(new) \cup results \cup Dropped(new)
            IN \A k \in DOMAIN old : Says(old[k]) \cap before \subseteq known

(* The file lists of a compaction hold the file if any call before the cut *)
(* used it, and as modified if any call edited it: also calls that only an *)
(* earlier compaction saw, where file lists are stored as dicts. Those of a*)
(* branch summary do so for what it tells of the branch since its last     *)
(* compaction, whose lists it ignores.                                     *)
FilesReported ==
  \A i \in DOMAIN tree : tree[i].type \in {"compaction", "branch_summary"} =>
    LET e == tree[i]
        seen == IF e.type = "compaction" THEN BranchTo(tree, e.parent)
                ELSE BranchEntries(BranchTo(tree, e.from), BranchTo(tree, i))
        over == IF e.type = "compaction" /\ settings.dicts THEN seen
                ELSE SubSeq(seen, LastCompaction(seen) + 1, Len(seen))
        kept == IF e.type = "compaction" THEN AboutAll(e.tail) ELSE {}
        used(tool) == \E k \in DOMAIN over : /\ IsMessage(over[k])
                                             /\ over[k].msg.tool = tool
                                             /\ over[k].id \notin kept
                                             /\ e.type = "branch_summary" => over[k].id \in e.summary
    IN /\ used("edit") => e.files.modifiedFiles
       /\ used("read") => e.files.readFiles \/ e.files.modifiedFiles
       /\ ~(e.files.readFiles /\ e.files.modifiedFiles)
=============================================================================
