----------------------------- MODULE JsonlCodec -----------------------------
(***************************************************************************)
(* The two directions of the JSONL codec (codec.py): what is written for a *)
(* field of each type of value and what is done with it when it is read,   *)
(* as two tables by type and field. A field carries the name it has on     *)
(* the wire; nested values are types of their own. A value of a field is   *)
(* a text, another datum, an empty datum of its type or None; on the wire  *)
(* it may be null or absent as well.                                       *)
(***************************************************************************)
EXTENDS Naturals, FiniteSets, TLC

VARIABLE line  \* a line: the value it stands for, its wire form, whether a fork wrote it

As(how, keys) == [k \in keys |-> how]

\* How a field is written: always, None as null; if it is not None; if it is
\* not empty.
Always(keys) == As("always", keys)
Given(keys)  == As("given", keys)

\* Fields a value carries twice, in a line and in what the line holds, would
\* overwrite each other: the line is the union of its parts.
Entry(payload) == Always({"type", "id"}) @@ payload
StoredEntry(payload) ==
  Entry(payload) @@ Always({"parentId", "seq", "timestamp"}) @@ Always({"kind"}) @@ Given({"lane"})
StoredRecord(payload) ==
  Always({"type", "id", "lane"}) @@ payload @@ Always({"seq", "timestamp", "kind"})

\* Mistake: a signature is written under the name of another.
ContentWrittenMixed ==
  [text     |-> Always({"type", "text"}) @@ Given({"textSignature"}),
   thinking |-> Always({"type", "thinking"}) @@ Given({"thoughtSignature", "redacted"}),
   image    |-> Always({"type", "data", "mimeType"}),
   toolCall |-> Always({"type", "id", "name", "arguments"})
                  @@ Given({"thoughtSignature", "namespace"})]

ContentWritten ==
  [text     |-> Always({"type", "text"}) @@ Given({"textSignature"}),
   thinking |-> Always({"type", "thinking"}) @@ Given({"thinkingSignature", "redacted"}),
   image    |-> Always({"type", "data", "mimeType"}),
   toolCall |-> Always({"type", "id", "name", "arguments"})
                  @@ Given({"thoughtSignature", "namespace"})]

PartsWritten ==
  [cost       |-> Always({"input", "output", "cacheRead", "cacheWrite", "total"}),
   tokens     |-> Always({"input", "output", "cacheRead", "cacheWrite", "totalTokens", "cost"})
                    @@ Given({"cacheWrite1h", "reasoning"}),
   deferred   |-> Always({"provider", "modelId", "api", "id"})
                    @@ Given({"expiresAt", "pollAfterMs", "data"}),
   diagnostic |-> Always({"kind", "message", "timestamp"}) @@ Given({"detail"})]

MessagesWritten ==
  [user       |-> Always({"role", "content", "timestamp"}),
   assistant  |-> Always({"role", "api", "provider", "model", "content", "usage", "stopReason",
                          "timestamp"})
                    @@ Given({"responseModel", "responseId", "deferred", "errorMessage",
                              "rawStopReason", "endTurn"})
                    @@ As("filled", {"diagnostics"}),
   toolResult |-> Always({"role", "toolCallId", "toolName", "content", "isError", "timestamp"})
                    @@ Given({"details", "usage", "addedToolNames"})]

EntriesWritten ==
  [message               |-> Always({"message"}) @@ Given({"terminate"}),
   model_change          |-> Always({"provider", "modelId"}),
   thinking_level_change |-> Always({"thinkingLevel"}),
   active_tools_change   |-> Always({"activeToolNames"}),
   compaction            |-> Always({"summary", "retainedTail", "tokensBefore"})
                               @@ Given({"details", "usage"}),
   branch_summary        |-> Always({"fromId", "summary"}) @@ Given({"details", "usage"}),
   custom                |-> Always({"customType"}) @@ Given({"data"})]

IntentsWritten ==
  [runIntent        |-> Always({"kind", "originalPrompt", "initialMessages"})
                          @@ Given({"systemPromptOverride", "resumeData"}),
   compactionIntent |-> Always({"kind", "resultEntryId"}) @@ Given({"customInstructions"}),
   navigationIntent |-> Always({"kind", "targetId", "summarize"})
                          @@ Given({"customInstructions", "label", "summaryEntryId"})]

RecordsWritten ==
  [operation_started  |-> Always({"sourceLeafId", "intent"}),
   abort_requested    |-> Always({"runId"}),
   operation_finished |-> Always({"runId", "outcome"}) @@ Given({"error"}),
   step_attempt       |-> Always({"runId", "step", "attempt", "resultEntryId"})
                            @@ Given({"compactionReason"}),
   tool_started       |-> Always({"runId", "assistantEntryId", "toolIndex", "toolCallId",
                                  "toolName", "effectiveArgs", "resultEntryId", "replay"}),
   queue_enqueued     |-> Always({"queue", "target"}) @@ Given({"runId"}),
   queue_cancelled    |-> Always({"entryId"}) @@ Given({"runId"}),
   write_deferred     |-> Always({"runId", "target"}),
   usage              |-> Always({"cause", "usage"})
                            @@ Given({"runId", "entryId", "attempt", "stopReason", "toolCallId",
                                      "details"})]

LinesWritten ==
  [header |-> Always({"kind", "version", "id", "createdAt", "cwd"})
                @@ Given({"parentSessionId", "legacyParentSessionPath", "metadata"}),
   lane   |-> Always({"kind", "seq", "lane", "leafId"}),
   name   |-> Always({"kind", "seq", "fact"}) @@ Given({"name"}),
   label  |-> Always({"kind", "seq", "fact", "targetId"}) @@ Given({"label"})]

Written ==
  ContentWritten @@ PartsWritten @@ MessagesWritten @@ IntentsWritten @@ LinesWritten
    @@ [t \in DOMAIN EntriesWritten |-> StoredEntry(EntriesWritten[t])]
    @@ [t \in DOMAIN RecordsWritten |-> StoredRecord(RecordsWritten[t])]

-----------------------------------------------------------------------------
(* Reading: "tag" selects the type, "text" must be a string, "id" may be   *)
(* null, "whole" and "time" must be integers in range, the first not zero; *)
(* "object" and "object or null" say what they are; "any" takes what is    *)
(* there, "or default" fills in what is absent and "or empty" what is      *)
(* empty too; "if present" takes a nested value wherever there is a key,   *)
(* and "unset" is absent or a string, never null.                          *)

ContentRead ==
  [text     |-> As("tag", {"type"}) @@ As("text or default", {"text"}) @@ As("any", {"textSignature"}),
   thinking |-> As("tag", {"type"}) @@ As("text or default", {"thinking"})
                  @@ As("any", {"thinkingSignature", "redacted"}),
   image    |-> As("tag", {"type"}) @@ As("text or default", {"data", "mimeType"}),
   toolCall |-> As("tag", {"type"}) @@ As("text or default", {"id", "name"})
                  @@ As("or empty", {"arguments"}) @@ As("any", {"thoughtSignature", "namespace"})]

PartsRead ==
  [cost       |-> As("or default", {"input", "output", "cacheRead", "cacheWrite", "total"}),
   tokens     |-> As("or default", {"input", "output", "cacheRead", "cacheWrite", "totalTokens"})
                    @@ As("any", {"cacheWrite1h", "reasoning"})
                    @@ As("if present or default", {"cost"}),
   deferred   |-> As("or default", {"provider", "modelId", "api", "id"})
                    @@ As("any", {"expiresAt", "pollAfterMs", "data"}),
   diagnostic |-> As("or default", {"kind", "message", "timestamp"}) @@ As("any", {"detail"})]

MessagesRead ==
  [user       |-> As("tag", {"role"}) @@ As("if present or default", {"content"})
                    @@ As("or default", {"timestamp"}),
   assistant  |-> As("tag", {"role"})
                    @@ As("or default", {"api", "provider", "model", "stopReason", "timestamp"})
                    @@ As("if present or default", {"content", "diagnostics", "usage"})
                    @@ As("any", {"responseModel", "responseId", "deferred", "errorMessage",
                                  "rawStopReason", "endTurn"}),
   toolResult |-> As("tag", {"role"})
                    @@ As("or default", {"toolCallId", "toolName", "timestamp"})
                    @@ As("if present or default", {"content"})
                    @@ As("if present", {"usage", "addedToolNames"})
                    @@ As("any", {"details"}) @@ As("or empty", {"isError"})]

EntriesRead ==
  [message               |-> As("or empty", {"message"}) @@ As("any", {"terminate"}),
   model_change          |-> As("text", {"provider", "modelId"}),
   thinking_level_change |-> As("text", {"thinkingLevel"}),
   active_tools_change   |-> As("or empty", {"activeToolNames"}),
   compaction            |-> As("text", {"summary"}) @@ As("or empty", {"retainedTail"})
                               @@ As("or default", {"tokensBefore"}) @@ As("any", {"details"})
                               @@ As("if present", {"usage"}),
   branch_summary        |-> As("text", {"fromId", "summary"}) @@ As("any", {"details"})
                               @@ As("if present", {"usage"}),
   custom                |-> As("text", {"customType"}) @@ As("any", {"data"})]

StoredEntryRead(payload) ==
  As("tag", {"kind", "type"}) @@ As("text", {"id"}) @@ payload @@ As("id", {"parentId", "lane"})
    @@ As("whole", {"seq"}) @@ As("time", {"timestamp"})

IntentsRead ==
  [runIntent        |-> As("tag", {"kind"}) @@ As("or empty", {"originalPrompt", "initialMessages"})
                          @@ As("any", {"systemPromptOverride", "resumeData"}),
   compactionIntent |-> As("tag", {"kind"}) @@ As("text", {"resultEntryId"})
                          @@ As("any", {"customInstructions"}),
   navigationIntent |-> As("tag", {"kind"}) @@ As("id", {"targetId"}) @@ As("or empty", {"summarize"})
                          @@ As("any", {"customInstructions", "label", "summaryEntryId"})]

RecordsRead ==
  [operation_started  |-> As("id", {"sourceLeafId"}) @@ As("object", {"intent"}),
   abort_requested    |-> As("text", {"runId"}),
   operation_finished |-> As("text", {"runId"}) @@ As("any", {"outcome", "error"}),
   step_attempt       |-> As("text", {"runId", "resultEntryId"}) @@ As("or default", {"attempt"})
                            @@ As("any", {"step", "compactionReason"}),
   tool_started       |-> As("text", {"runId", "assistantEntryId", "toolCallId", "toolName",
                                      "resultEntryId"})
                            @@ As("or default", {"toolIndex"}) @@ As("or empty", {"effectiveArgs"})
                            @@ As("any", {"replay"}),
   queue_enqueued     |-> As("any", {"queue", "runId"}) @@ As("or empty", {"target"}),
   queue_cancelled    |-> As("text", {"entryId"}) @@ As("any", {"runId"}),
   write_deferred     |-> As("text", {"runId"}) @@ As("or empty", {"target"}),
   usage              |-> As("if present or default", {"usage"})
                            @@ As("any", {"cause", "runId", "entryId", "attempt", "stopReason",
                                          "toolCallId", "details"})]

StoredRecordRead(payload) ==
  As("tag", {"kind", "type"}) @@ As("text", {"id", "lane"}) @@ payload
    @@ As("whole", {"seq"}) @@ As("time", {"timestamp"})

LinesRead ==
  [header |-> As("tag", {"kind", "version"}) @@ As("text", {"id", "cwd"}) @@ As("time", {"createdAt"})
                @@ As("id", {"parentSessionId", "legacyParentSessionPath"})
                @@ As("object or null", {"metadata"}),
   lane   |-> As("tag", {"kind"}) @@ As("whole", {"seq"}) @@ As("text", {"lane"}) @@ As("id", {"leafId"}),
   name   |-> As("tag", {"kind", "fact"}) @@ As("whole", {"seq"}) @@ As("unset", {"name"}),
   label  |-> As("tag", {"kind", "fact"}) @@ As("whole", {"seq"}) @@ As("text", {"targetId"})
                @@ As("unset", {"label"})]

Reading ==
  ContentRead @@ PartsRead @@ MessagesRead @@ IntentsRead @@ LinesRead
    @@ [t \in DOMAIN EntriesRead |-> StoredEntryRead(EntriesRead[t])]
    @@ [t \in DOMAIN RecordsRead |-> StoredRecordRead(RecordsRead[t])]

-----------------------------------------------------------------------------
(* Which fields may be None, by the types of the values.                   *)

EntryNone ==
  [message        |-> {"terminate"},        compaction |-> {"details", "usage"},
   branch_summary |-> {"details", "usage"}, custom     |-> {"data"}]

RecordNone ==
  [operation_started |-> {"sourceLeafId"}, operation_finished |-> {"error"},
   step_attempt |-> {"compactionReason"},
   queue_enqueued |-> {"runId"}, queue_cancelled |-> {"runId"},
   usage |-> {"runId", "entryId", "attempt", "stopReason", "toolCallId", "details"},
   runIntent |-> {"systemPromptOverride", "resumeData"},
   compactionIntent |-> {"customInstructions"},
   navigationIntent |-> {"targetId", "customInstructions", "label", "summaryEntryId"}]

MessageNone ==
  [text |-> {"textSignature"}, thinking |-> {"thinkingSignature", "redacted"},
   toolCall |-> {"thoughtSignature", "namespace"}, tokens |-> {"cacheWrite1h", "reasoning"},
   deferred |-> {"expiresAt", "pollAfterMs", "data"}, diagnostic |-> {"detail"},
   assistant |-> {"responseModel", "responseId", "deferred", "errorMessage", "rawStopReason",
                  "endTurn"},
   toolResult |-> {"details", "usage", "addedToolNames"}]

LineNone ==
  [header |-> {"parentSessionId", "legacyParentSessionPath", "metadata"},
   lane |-> {"leafId"}, name |-> {"name"}, label |-> {"label"}]

NoneIn(table, t) == IF t \in DOMAIN table THEN table[t] ELSE {}

MayBeNone(t) ==
  NoneIn(MessageNone, t) \cup NoneIn(RecordNone, t) \cup NoneIn(LineNone, t) \cup NoneIn(EntryNone, t)
    \cup (IF t \in DOMAIN EntriesWritten THEN {"parentId", "lane"} ELSE {})

-----------------------------------------------------------------------------
Types == DOMAIN Written

OnWire == {"absent", "null", "string", "other", "empty"}

WriteField(how, v) ==
  CASE v = "none" -> IF how = "always" THEN "null" ELSE "absent"
    [] v = "empty" /\ how = "filled" -> "absent"
    [] OTHER -> v

Encode(t, v) == [k \in DOMAIN v |-> WriteField(Written[t][k], v[k])]

\* What becomes of a field, or "refused". A key that is there but null passes
\* where only its absence is provided for.
ReadField(how, w) ==
  LET plain == CASE w = "null" -> "none" [] OTHER -> w
      missing == w \in {"absent", "null"}
  IN CASE how = "tag" -> IF w = "string" THEN w ELSE "refused"
       [] how = "text" -> IF w \in {"string", "empty"} THEN w ELSE "refused"
       [] how = "text or default" -> CASE w = "absent" -> "empty"
                                       [] w \in {"string", "empty"} -> w
                                       [] OTHER -> "refused"
       [] how = "id" -> IF missing THEN "none" ELSE IF w = "other" THEN "refused" ELSE w
       [] how = "unset" -> CASE w = "absent" -> "none"
                             [] w \in {"string", "empty"} -> w
                             [] OTHER -> "refused"
       [] how \in {"whole", "object"} -> IF w = "other" THEN w ELSE "refused"
       [] how = "time" -> IF w \in {"other", "empty"} THEN w ELSE "refused"
       [] how = "object or null" -> CASE missing -> "none"
                                      [] w \in {"other", "empty"} -> w
                                      [] OTHER -> "refused"
       [] how = "any" -> IF missing THEN "none" ELSE w
       [] how = "or default" -> IF w = "absent" THEN "empty" ELSE plain
       [] how = "or empty" -> IF missing THEN "empty" ELSE w
       [] how = "if present" -> IF w = "absent" THEN "none" ELSE IF w = "null" THEN "refused" ELSE w
       [] how = "if present or default" -> CASE w = "absent" -> "empty"
                                             [] w = "null" -> "refused"
                                             [] OTHER -> w

\* Fields nobody reads are dropped.
Decode(t, wire) == [k \in DOMAIN Reading[t] |->
                      ReadField(Reading[t][k], IF k \in DOMAIN wire THEN wire[k] ELSE "absent")]

\* A header names its parent by id or by an old path.
TwoParents(v) ==
  /\ {"parentSessionId", "legacyParentSessionPath"} \subseteq DOMAIN v
  /\ v.parentSessionId # "none" /\ v.legacyParentSessionPath # "none"

Rejected(v) == TwoParents(v) \/ \E k \in DOMAIN v : v[k] = "refused"

-----------------------------------------------------------------------------
(* The values of a type: all fields filled, or only those that must be,    *)
(* with any two fields set to anything they may be.                        *)

TextRead == {"tag", "text", "text or default", "id", "unset"}

Filled(t, k) == IF k \in DOMAIN Reading[t] /\ Reading[t][k] \in TextRead THEN "string" ELSE "other"

FieldValues(t, k) ==
  {Filled(t, k)}
    \cup (IF k \in DOMAIN Reading[t] /\ Reading[t][k] \in {"tag", "whole", "object"}
          THEN {} ELSE {"empty"})
    \cup (IF k \in MayBeNone(t) THEN {"none"} ELSE {})

Values(t) ==
  LET keys == DOMAIN Written[t]
      base(full) == [k \in keys |-> IF k \in MayBeNone(t) /\ ~full THEN "none" ELSE Filled(t, k)]
  IN UNION {{[base(full) EXCEPT ![i] = a, ![j] = b] : a \in FieldValues(t, i), b \in FieldValues(t, j)} :
              full \in BOOLEAN, i \in keys, j \in keys}

\* The wire forms around them, as another program may have left them.
Forms(t) ==
  LET keys == DOMAIN Written[t]
      base == Encode(t, [k \in keys |-> Filled(t, k)])
  IN UNION {{[base EXCEPT ![i] = a, ![j] = b] : a, b \in OnWire} : i \in keys, j \in keys}

\* A line this program writes, or one that it accepts.
CodecInit ==
  \E t \in Types :
    \/ \E v \in Values(t) : ~TwoParents(v) /\ line = [type |-> t, value |-> v, wire |-> Encode(t, v), forked |-> FALSE]
    \/ \E wire \in Forms(t) :
         ~Rejected(Decode(t, wire)) /\ line = [type |-> t, value |-> Decode(t, wire), wire |-> wire, forked |-> FALSE]

\* A fork reads the line and writes it into another file.
Rewrite ==
  LET v == Decode(line.type, line.wire)
  IN /\ ~Rejected(v) /\ ~line.forked
     /\ line' = [line EXCEPT !.value = v, !.wire = Encode(line.type, v), !.forked = TRUE]

CodecSpec == CodecInit /\ [][Rewrite]_line

(* Every value of every type is read back as it was written, whichever of  *)
(* its fields are None or empty; and a line that is accepted, however it   *)
(* came about, keeps its meaning when a fork writes it anew.               *)
LinesKeepTheirMeaning == Decode(line.type, line.wire) = line.value
=============================================================================
