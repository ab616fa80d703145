----------------------------- MODULE Compaction -----------------------------
(***************************************************************************)
(* The choice of what a compaction summarizes and keeps (compaction.py),   *)
(* the summary of a branch that is left (branch_summarization.py) and the  *)
(* file lists both carry (utils.py). The model that writes a summary is    *)
(* taken to report everything its prompt holds.                            *)
(***************************************************************************)
EXTENDS SessionContext

\* Sizes are counted in messages, a tool result as two.
EstimateTokens(m) == IF m.role = "toolResult" THEN 2 ELSE 1

IsMessage(e) == e.type = "message"

-----------------------------------------------------------------------------
(* The cut. *)

\* Mistake: a tool result may be the first message kept.
ValidCutPointsAny(es) == {i \in DOMAIN es : es[i].type \in {"message", "branch_summary"}}

\* Everything the model reads but a tool result, which follows its call.
ValidCutPoints(es) ==
  {i \in DOMAIN es : \/ IsMessage(es[i]) /\ es[i].msg.role # "toolResult"
                     \/ es[i].type = "branch_summary"}

TurnStart(es, from) ==
  Last0({i \in 1..from : \/ es[i].type = "branch_summary"
                         \/ IsMessage(es[i]) /\ es[i].msg.role \in {"user", "bash"}})

TokensFrom(es, i) ==
  FoldRight(LAMBDA e, n : n + IF IsMessage(e) THEN EstimateTokens(e.msg) ELSE 0,
            SubSeq(es, i, Len(es)), 0)

First(indices) == CHOOSE i \in indices : \A j \in indices : i <= j

\* The first cut point at or after the message with which the kept messages
\* reach the budget, or else the very first one. From there back over the
\* entries that are not messages.
CutIndex(es, keep) ==
  LET points == ValidCutPoints(es)
      full == Last0({i \in DOMAIN es : IsMessage(es[i]) /\ TokensFrom(es, i) >= keep})
      after == {p \in points : p >= full}
      at == IF full > 0 /\ after # {} THEN First(after) ELSE First(points)
  IN Last0({i \in 1..at : i = 1 \/ es[i - 1].type \in {"compaction", "message"}})

FindCutPoint(es, keep) ==
  IF ValidCutPoints(es) = {}
  THEN [kept |-> 1, turn |-> 0, split |-> FALSE]
  ELSE LET cut  == CutIndex(es, keep)
           user == IsMessage(es[cut]) /\ es[cut].msg.role = "user"
           turn == IF user THEN 0 ELSE TurnStart(es, cut)
       IN [kept |-> cut, turn |-> turn, split |-> ~user /\ turn # 0]

-----------------------------------------------------------------------------
(* File lists. *)

NoFiles == [read |-> {}, written |-> {}]

\* One file is enough: what counts is how each call uses it.
ExtractFileOps(messages) ==
  LET calls(tools) == {messages[i].tool : i \in DOMAIN messages} \cap tools
  IN [read |-> calls({"read"}), written |-> calls({"edit"})]

JoinFileOps(a, b) == [read |-> a.read \cup b.read, written |-> a.written \cup b.written]

\* Mistake: a file that was read and edited is in both lists.
FileListsBoth(ops) == [readFiles |-> ops.read # {}, modifiedFiles |-> ops.written # {}]

\* Whether the file is in the list of files read only and in that of files
\* modified.
FileLists(ops) ==
  [readFiles |-> ops.read # {} /\ ops.written = {}, modifiedFiles |-> ops.written # {}]

\* The operations that the lists of an earlier summary stand for, if the caller
\* has stored them as a dict: others are not read.
OpsOfDetails(e) ==
  [read |-> IF e.dict /\ e.files.readFiles THEN {"read"} ELSE {},
   written |-> IF e.dict /\ e.files.modifiedFiles THEN {"edit"} ELSE {}]

-----------------------------------------------------------------------------
(* Compaction. *)

\* A compaction entry itself adds no message: its tail stands for it.
MessageForCompaction(e) ==
  CASE IsMessage(e)              -> <<e.msg>>
    [] e.type = "branch_summary" -> <<BranchSummaryMessage(e)>>
    [] OTHER                     -> <<>>

MessagesOf(es) == FlattenSeq([i \in DOMAIN es |-> MessageForCompaction(es[i])])

\* Mistake: the messages the last compaction kept are not looked at again.
CompactableNew(path) == SubSeq(path, LastCompaction(path) + 1, Len(path))

\* What the last compaction kept, as entries again, and what came after it.
Compactable(path) ==
  LET prev == LastCompaction(path)
      kept == IF prev = 0 THEN <<>>
              ELSE [i \in DOMAIN path[prev].tail |->
                      [type |-> "message", msg |-> path[prev].tail[i], model |-> "none"]]
  IN kept \o SubSeq(path, prev + 1, Len(path))

CanCompact(path) == path # <<>> /\ path[Len(path)].type # "compaction"

PrepareCompaction(path, keep) ==
  LET prev == LastCompaction(path)
      es  == Compactable(path)
      cut == FindCutPoint(es, keep)
      end == IF cut.split THEN cut.turn ELSE cut.kept
      history == MessagesOf(SubSeq(es, 1, end - 1))
      prefix == IF cut.split THEN MessagesOf(SubSeq(es, cut.turn, cut.kept - 1)) ELSE <<>>
  IN [history  |-> history, prefix |-> prefix,
      tail     |-> MessagesOf(SubSeq(es, cut.kept, Len(es))),
      split    |-> cut.split,
      previous |-> IF prev = 0 THEN {} ELSE path[prev].summary,
      fileOps  |-> JoinFileOps(IF prev = 0 THEN NoFiles ELSE OpsOfDetails(path[prev]),
                               ExtractFileOps(history \o prefix))]

\* A prompt with the messages and with the summary so far.
GenerateSummary(messages, previous) == AboutAll(ConvertToLlm(messages)) \cup previous

TurnPrefixSummary(messages) == AboutAll(ConvertToLlm(messages))

\* A turn that is split gets a summary of its first part, next to that of the
\* history. Where nothing is left to summarize the history is "No prior
\* history.", whatever an earlier compaction has said of it.
CompactHistory(p) ==
  LET turnOnly == p.split /\ p.prefix # <<>>
      bare == turnOnly /\ p.history = <<>>
  IN [summary |-> (IF bare THEN {} ELSE GenerateSummary(p.history, p.previous))
                    \cup IF turnOnly THEN TurnPrefixSummary(p.prefix) ELSE {},
      noPrior |-> bare,
      tail    |-> p.tail,
      files   |-> FileLists(p.fileOps)]

-----------------------------------------------------------------------------
(* The summary of a branch. *)

\* Mistake: the first entry of the branch is taken for a shared one.
BranchEntriesShort(oldPath, newPath) ==
  LET shared == {i \in DOMAIN oldPath : Contains(newPath, oldPath[i])}
  IN SubSeq(oldPath, Last0(shared) + 2, Len(oldPath))

\* The entries of the old path beyond the deepest one the paths share.
BranchEntries(oldPath, newPath) ==
  LET shared == {i \in DOMAIN oldPath : Contains(newPath, oldPath[i])}
  IN SubSeq(oldPath, Last0(shared) + 1, Len(oldPath))

\* A tool result is left out: its call is told.
MessageForBranch(e) ==
  CASE IsMessage(e) -> IF e.msg.role = "toolResult" THEN <<>> ELSE <<e.msg>>
    [] e.type = "branch_summary" -> <<BranchSummaryMessage(e)>>
    [] e.type = "compaction"     -> <<CompactionSummaryMessage(e)>>
    [] OTHER                     -> <<>>

\* From the newest back while the budget lasts; a summary that just exceeds it
\* still goes in. No budget means no limit.
PrepareBranch(entries, budget) ==
  LET take(acc, e) ==
        IF acc.over \/ MessageForBranch(e) = <<>> THEN acc
        ELSE LET m == MessageForBranch(e)[1]
                 total == acc.total + EstimateTokens(m)
                 seen == [acc EXCEPT !.ops = JoinFileOps(@, ExtractFileOps(<<m>>))]
                 taken == [seen EXCEPT !.messages = <<m>> \o @, !.total = total]
             IN CASE budget = 0 \/ total <= budget -> taken
                  [] e.type \in {"compaction", "branch_summary"} /\ 10 * acc.total < 9 * budget
                       -> [taken EXCEPT !.over = TRUE]
                  [] OTHER -> [seen EXCEPT !.over = TRUE]
      told == SelectSeq(entries, LAMBDA e : e.type = "branch_summary")
      ops == FoldLeft(LAMBDA o, e : JoinFileOps(o, OpsOfDetails(e)), NoFiles, told)
  IN FoldLeft(take, [messages |-> <<>>, ops |-> ops, total |-> 0, over |-> FALSE],
              Reverse(entries))

\* Nothing to tell gives a text of its own and no file lists.
GenerateBranchSummary(entries, budget) ==
  LET p == PrepareBranch(entries, budget)
  IN IF p.messages = <<>>
     THEN [summary |-> {}, files |-> [readFiles |-> FALSE, modifiedFiles |-> FALSE]]
     ELSE [summary |-> AboutAll(ConvertToLlm(p.messages)), files |-> FileLists(p.ops)]
=============================================================================
