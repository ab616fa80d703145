--------------------------- MODULE SessionContext ---------------------------
(***************************************************************************)
(* What a model is shown of a session: the entries on the path to the leaf *)
(* (context.py) and the form its messages take in a request (messages.py). *)
(* A message or a summary is the set of entries it tells about: a message  *)
(* tells about the entry that holds it, a summary about what the messages  *)
(* it was made from tell.                                                  *)
(***************************************************************************)
EXTENDS Naturals, Sequences, FiniteSets, SequencesExt

\* tool is what an assistant message calls, excluded marks a bash message
\* that is kept from the model, stub an assistant message yet to be fetched.
Message(role, about, tool) ==
  [role |-> role, about |-> about, tool |-> tool, excluded |-> FALSE, stub |-> FALSE]

BranchSummaryMessage(e) == Message("branchSummary", e.summary, "none")
CompactionSummaryMessage(e) == Message("compactionSummary", e.summary, "none")

Last0(indices) == IF indices = {} THEN 0 ELSE CHOOSE i \in indices : \A j \in indices : j <= i

LastCompaction(path) == Last0({i \in DOMAIN path : path[i].type = "compaction"})

-----------------------------------------------------------------------------
\* The model in use: that of the last change or of the last assistant message
\* of the whole path, compacted or not.
DeriveModel(path) ==
  LET at == Last0({i \in DOMAIN path : path[i].type \in {"message", "model_change"}
                                         /\ path[i].model # "none"})
  IN IF at = 0 THEN "none" ELSE path[at].model

\* Mistake: the summary comes on top of what it replaces.
ContextEntriesAll(path) == path

\* The last compaction replaces what is before it.
ContextEntries(path) ==
  IF LastCompaction(path) = 0 THEN path ELSE SubSeq(path, LastCompaction(path), Len(path))

EntryToMessages(e) ==
  CASE e.type = "message"        -> IF e.msg.stub THEN <<>> ELSE <<e.msg>>
    [] e.type = "compaction"     -> <<CompactionSummaryMessage(e)>> \o e.tail
    [] e.type = "branch_summary" -> <<BranchSummaryMessage(e)>>
    [] OTHER                     -> <<>>

BuildContext(path) ==
  LET entries == ContextEntries(path)
  IN FlattenSeq([i \in DOMAIN entries |-> EntryToMessages(entries[i])])

\* Bash output, summaries and custom messages become user messages; excluded
\* bash output is dropped.
ConvertToLlm(messages) == SelectSeq(messages, LAMBDA m : ~m.excluded)

AboutAll(messages) == UNION {messages[i].about : i \in DOMAIN messages}
=============================================================================
