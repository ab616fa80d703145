-------------------------- MODULE MCSessionHistory --------------------------
(* Conversations of SessionHistory for TLC: tool calls and their results,  *)
(* changes of the model, messages that are excluded or yet to be fetched;  *)
(* and once a caller that stores file lists as compact() returns them.     *)
EXTENDS SessionHistory

\* Almost everything is compacted and branch summaries have no budget, or more
\* is kept and a branch summary reads only the newest.
MCSettings ==
  [keep : {1}, budget : {0},
   kinds : {{"user", "answer", "read", "toolResult"},
            {"user", "edit", "read", "toolResult"}},
   dicts : {TRUE}]
    \cup
  [keep : {1}, budget : {0}, kinds : {{"user", "answer", "model_change", "edit"}}, dicts : {FALSE}]
    \cup
  [keep : {3}, budget : {2},
   kinds : {{"user", "edit", "read", "toolResult"},
            {"user", "answer", "bash", "excluded"},
            {"user", "stub", "answer", "edit"}},
   dicts : {TRUE}]
=============================================================================
