------------------------- MODULE JsonlStorage_proofs -------------------------
(***************************************************************************)
(* Proofs about JsonlStorage for any storages, operations and bounds: a    *)
(* storage without rivals or I/O errors mirrors its file (StateMatchesFile)*)
(* and the file keeps the promise of DurableLog, whatever crashes or loses *)
(* power. Everything is said of an undisturbed file: disturbed never goes  *)
(* back, so such a file never was.                                         *)
(***************************************************************************)
EXTENDS JsonlStorage, SequenceTheorems, WellFoundedInduction, TLAPS

LineSet == [kind : {"line"}, op : Ops, seq : Nat]

\* A call that holds its storage's asyncio lock.
Active(op) == call[op].at \in InThread \cup {"synced", "failed"}

\* A call that may have put bytes into the file and is not applied yet.
Writing(op) == call[op].at \in {"part", "written", "synced"}

Places == InThread \cup {"new", "queued", "synced", "failed", "returned", "raised",
                         "abandoned", "died"}

Contents == [lines : Seq(LineSet \cup {Bad}), tail : LineSet \cup {Clean, Torn}]

StorageRecord == [phase : {"closed", "loading", "staged", "open"},
                  applied : Seq(Ops), queue : Seq(Ops), seen : Contents]

CallRecord == [at : Places, by : Handles \cup {Free}, seq : Nat, inode : Nat,
               clean : BOOLEAN, awaited : BOOLEAN]

StorageTypes ==
  /\ inode \in Nat /\ synced \in Nat
  /\ storage \in [Handles -> StorageRecord]
  /\ call \in [Ops -> CallRecord]
  /\ acked \subseteq Ops

\* At most one storage of the file is in use, and only an open one has callers.
OneInUse ==
  /\ \A g, h \in Handles :
       storage[g].phase # "closed" /\ storage[h].phase # "closed" => g = h
  /\ \A h \in Handles : storage[h].phase # "open" => storage[h].queue = <<>>

\* A call past its enqueueing has a storage, and is awaited while it waits. An
\* active one is awaited and at the head of the queue of an open storage.
HoldsLock ==
  \A op \in Ops :
    /\ call[op].at # "new" => call[op].by \in Handles
    /\ call[op].at \in {"new", "queued"} => call[op].awaited
    /\ op \in acked => call[op].at = "returned"
    /\ Active(op) =>
         /\ call[op].awaited
         /\ storage[call[op].by].phase = "open"
         /\ storage[call[op].by].queue # <<>>
         /\ Head(storage[call[op].by].queue) = op

\* The number and the file a thread works with are still the right ones.
UpToDate ==
  \A op \in Ops :
    /\ call[op].at \in InThread => call[op].seq = Len(storage[call[op].by].applied) + 1
    /\ call[op].at \in {"open", "part", "written"} => OnPath(op)

\* Lines in order, and at most the next one without its newline.
SoundContents(f) ==
  /\ f \in Contents
  /\ f.lines \in Seq(LineSet)
  /\ InSequence(f.lines)
  /\ f.tail \in {Clean, Torn} \cup {Line(op, Len(f.lines) + 1) : op \in Ops}

FileSound == SoundContents(file) /\ synced <= Len(file.lines)

\* How far the file is ahead of the storage that is open.
InStep ==
  /\ \A h \in Handles :
       storage[h].phase = "open" /\ (\A op \in Ops : call[op].by = h => ~Writing(op)) =>
         file.tail = Clean /\ OpsOf(file.lines) = storage[h].applied
  /\ \A op \in Ops :
       LET h == call[op].by IN
       /\ call[op].at = "part" =>
            /\ call[op].clean
            /\ file.tail \in {Torn, LineOf(op)}
            /\ OpsOf(file.lines) = storage[h].applied
       /\ call[op].at \in {"written", "synced"} =>
            /\ file.tail = Clean
            /\ OpsOf(file.lines) = Append(storage[h].applied, op)
       /\ call[op].at = "synced" => synced = Len(file.lines)

\* A load has seen the file as it is, and stages what it will restore.
LoadsCurrent ==
  \A h \in Handles :
    /\ storage[h].phase \in {"loading", "staged"} => storage[h].seen = file
    /\ storage[h].phase = "staged" =>
         /\ LoadOutcome(file) = "torn"
         /\ temp = Content(file.lines, Clean)

Sound ==
  StorageTypes /\ OneInUse /\ HoldsLock /\ UpToDate /\ FileSound /\ InStep /\ LoadsCurrent

StorageInv == ~disturbed => Sound

\* What has been acknowledged is on the disk.
AckedSynced ==
  \A i \in DOMAIN Recovered(file) : Recovered(file)[i] \in acked => i <= synced

-----------------------------------------------------------------------------
(* Lines, tails and what a load makes of them.                             *)

LEMMA TailsDiffer ==
  /\ Clean # Torn
  /\ \A l \in LineSet : l # Clean /\ l # Torn /\ l # Bad /\ l.kind = "line"
  /\ Clean.kind # "line" /\ Torn.kind # "line" /\ Bad.kind # "line"
<1>1. Clean.kind = "clean" /\ Torn.kind = "torn" /\ Bad.kind = "bad"
  BY DEF Clean, Torn, Bad
<1>2. \A l \in LineSet : l.kind = "line"
  BY DEF LineSet
<1> QED  BY <1>1, <1>2

LEMMA LineIsLine ==
  ASSUME NEW op \in Ops, NEW n \in Nat
  PROVE  Line(op, n) \in LineSet /\ Line(op, n).op = op /\ Line(op, n).seq = n
  BY DEF Line, LineSet

LEMMA OpsOfSeq ==
  ASSUME NEW lines \in Seq(LineSet)
  PROVE  /\ OpsOf(lines) \in Seq(Ops) /\ Len(OpsOf(lines)) = Len(lines)
         /\ \A i \in 1..Len(lines) : OpsOf(lines)[i] = lines[i].op
<1>1. Len(lines) \in Nat /\ \A i \in 1..Len(lines) : lines[i] \in LineSet
  BY ElementOfSeq, LenProperties
<1>2. \A l \in LineSet : l.op \in Ops
  BY DEF LineSet
<1>3. OpsOf(lines) \in [1..Len(lines) -> Ops]
  BY <1>1, <1>2 DEF OpsOf
<1>4. OpsOf(lines) \in Seq(Ops)
  BY <1>1, <1>3, SeqDef
<1>5. 1..Len(lines) = 1..Len(OpsOf(lines)) /\ Len(OpsOf(lines)) \in Nat
  BY <1>3, <1>4, LenProperties
<1>6. Len(OpsOf(lines)) = Len(lines)
  BY <1>1, <1>5
<1> QED  BY <1>4, <1>6 DEF OpsOf

LEMMA OpsOfAppend ==
  ASSUME NEW lines \in Seq(LineSet), NEW l \in LineSet
  PROVE  OpsOf(Append(lines, l)) = Append(OpsOf(lines), l.op)
<1> SUFFICES ASSUME NEW long, long = Append(lines, l)
             PROVE  OpsOf(long) = Append(OpsOf(lines), l.op)
  OBVIOUS
<1>1. /\ long \in Seq(LineSet) /\ Len(long) = Len(lines) + 1 /\ Len(lines) \in Nat
      /\ \A i \in 1..Len(lines) : long[i] = lines[i]
      /\ long[Len(lines) + 1] = l
  BY AppendProperties, LenProperties
<1>2. OpsOf(long) \in Seq(Ops) /\ OpsOf(lines) \in Seq(Ops) /\ l.op \in Ops
  BY <1>1, OpsOfSeq DEF LineSet
<1>3. /\ Append(OpsOf(lines), l.op) \in Seq(Ops)
      /\ Len(Append(OpsOf(lines), l.op)) = Len(OpsOf(lines)) + 1
      /\ \A i \in 1..Len(OpsOf(lines)) : Append(OpsOf(lines), l.op)[i] = OpsOf(lines)[i]
      /\ Append(OpsOf(lines), l.op)[Len(OpsOf(lines)) + 1] = l.op
  BY <1>2, AppendProperties
<1>4. /\ Len(OpsOf(long)) = Len(lines) + 1 /\ Len(OpsOf(lines)) = Len(lines)
      /\ \A i \in 1..(Len(lines) + 1) : OpsOf(long)[i] = long[i].op
      /\ \A i \in 1..Len(lines) : OpsOf(lines)[i] = lines[i].op
  BY <1>1, OpsOfSeq
<1>5. ASSUME NEW i \in 1..Len(OpsOf(long))
      PROVE  OpsOf(long)[i] = Append(OpsOf(lines), l.op)[i]
  <2>1. CASE i = Len(lines) + 1
    BY <1>1, <1>3, <1>4, <2>1
  <2>2. CASE i \in 1..Len(lines)
    BY <1>1, <1>3, <1>4, <2>2
  <2> QED  BY <1>1, <1>4, <2>1, <2>2
<1> QED  BY <1>2, <1>3, <1>4, <1>5, SeqEqual

LEMMA OpsOfPrefix ==
  ASSUME NEW lines \in Seq(LineSet), NEW k \in 0..Len(lines)
  PROVE  /\ SubSeq(lines, 1, k) \in Seq(LineSet) /\ Len(SubSeq(lines, 1, k)) = k
         /\ \A i \in 1..k : SubSeq(lines, 1, k)[i] = lines[i]
         /\ OpsOf(SubSeq(lines, 1, k)) = SubSeq(OpsOf(lines), 1, k)
<1> DEFINE short == SubSeq(lines, 1, k)
<1>1. short \in Seq(LineSet) /\ Len(short) = k /\ \A i \in 1..k : short[i] = lines[i]
  BY SubSeqProperties, ElementOfSeq
<1>2. OpsOf(short) \in Seq(Ops) /\ Len(OpsOf(short)) = k
  BY <1>1, OpsOfSeq
<1>3. /\ SubSeq(OpsOf(lines), 1, k) \in Seq(Ops) /\ Len(SubSeq(OpsOf(lines), 1, k)) = k
      /\ \A i \in 1..k : SubSeq(OpsOf(lines), 1, k)[i] = lines[i].op
  BY OpsOfSeq, SubSeqProperties, ElementOfSeq
<1>4. \A i \in 1..k : OpsOf(short)[i] = SubSeq(OpsOf(lines), 1, k)[i]
  BY <1>1, <1>3, OpsOfSeq
<1> HIDE DEF short
<1>5. OpsOf(short) = SubSeq(OpsOf(lines), 1, k)
  BY <1>2, <1>3, <1>4, SeqEqual
<1> QED  BY <1>1, <1>5 DEF short

LEMMA InSequencePrefix ==
  ASSUME NEW lines \in Seq(LineSet), InSequence(lines), NEW k \in 0..Len(lines)
  PROVE  InSequence(SubSeq(lines, 1, k))
  BY OpsOfPrefix DEF InSequence

LEMMA InSequenceAppend ==
  ASSUME NEW lines \in Seq(LineSet), InSequence(lines), NEW op \in Ops
  PROVE  /\ InSequence(Append(lines, Line(op, Len(lines) + 1)))
         /\ Append(lines, Line(op, Len(lines) + 1)) \in Seq(LineSet)
  BY LineIsLine, TailsDiffer DEF InSequence

(* A load takes sound contents: all of their lines, without a fragment and *)
(* with a last line that lacks its newline.                                *)
LEMMA SoundLoads ==
  ASSUME NEW f, SoundContents(f)
  PROVE  /\ LoadOutcome(f) # "invalid"
         /\ f.tail = Clean => LoadOutcome(f) = "intact" /\ ValidLines(f) = f.lines
         /\ f.tail = Torn => LoadOutcome(f) = "torn" /\ ValidLines(f) = f.lines
         /\ \A op \in Ops : f.tail = Line(op, Len(f.lines) + 1) =>
              LoadOutcome(f) = "unterminated" /\ ValidLines(f) = Append(f.lines, f.tail)
<1>1. CASE f.tail = Clean
  <2>1. Clean # Torn /\ Clean.kind # "line" /\ InSequence(f.lines)
    BY TailsDiffer DEF SoundContents
  <2>2. f.lines # <<>> => Last(f.lines) # Bad
    BY TailsDiffer, ElementOfSeq, LenProperties, EmptySeq DEF SoundContents, Last
  <2>3. LoadOutcome(f) = "intact"
    BY <1>1, <2>1, <2>2 DEF LoadOutcome
  <2>4. ValidLines(f) = f.lines
    BY <2>3 DEF ValidLines
  <2> QED  BY <1>1, <2>1, <2>3, <2>4, LineIsLine, TailsDiffer DEF SoundContents
<1>2. CASE f.tail = Torn
  <2>1. Clean # Torn /\ Torn.kind # "line" /\ InSequence(f.lines)
    BY TailsDiffer DEF SoundContents
  <2>2. LoadOutcome(f) = "torn"
    BY <1>2, <2>1 DEF LoadOutcome
  <2>3. ValidLines(f) = f.lines
    BY <1>2, <2>2 DEF ValidLines
  <2> QED  BY <1>2, <2>1, <2>2, <2>3, LineIsLine, TailsDiffer DEF SoundContents
<1>3. ASSUME NEW op \in Ops, f.tail = Line(op, Len(f.lines) + 1)
      PROVE  /\ LoadOutcome(f) = "unterminated" /\ ValidLines(f) = Append(f.lines, f.tail)
             /\ f.tail # Clean /\ f.tail # Torn
  <2>1. f.tail \in LineSet /\ InSequence(Append(f.lines, f.tail))
    BY <1>3, LineIsLine, InSequenceAppend DEF SoundContents
  <2>2. f.tail # Clean /\ f.tail # Torn /\ f.tail.kind = "line"
    BY <2>1, TailsDiffer
  <2>3. LoadOutcome(f) = "unterminated"
    BY <2>1, <2>2 DEF LoadOutcome
  <2>4. ValidLines(f) = Append(f.lines, f.tail)
    BY <2>3 DEF ValidLines
  <2> QED  BY <2>2, <2>3, <2>4
<1> QED  BY <1>1, <1>2, <1>3, TailsDiffer DEF SoundContents

(* What is restored of them.                                               *)
LEMMA SoundRecovered ==
  ASSUME NEW f, SoundContents(f)
  PROVE  /\ f.tail \in {Clean, Torn} => Recovered(f) = OpsOf(f.lines)
         /\ \A op \in Ops : f.tail = Line(op, Len(f.lines) + 1) =>
              Recovered(f) = Append(OpsOf(f.lines), op)
<1>1. f.lines \in Seq(LineSet) /\ Len(f.lines) \in Nat
  BY DEF SoundContents
<1>2. ASSUME NEW op \in Ops, f.tail = Line(op, Len(f.lines) + 1)
      PROVE  Recovered(f) = Append(OpsOf(f.lines), op)
  <2>1. f.tail \in LineSet /\ f.tail.op = op
    BY <1>1, <1>2, LineIsLine
  <2>2. OpsOf(Append(f.lines, f.tail)) = Append(OpsOf(f.lines), op)
    BY <1>1, <2>1, OpsOfAppend
  <2> QED  BY <1>2, <2>2, SoundLoads DEF Recovered
<1> QED  BY <1>2, SoundLoads DEF Recovered
(* The next line in full, and a tail dropped.                              *)
Longer(f, op) == Content(Append(f.lines, Line(op, Len(f.lines) + 1)), Clean)
Trimmed(f) == Content(f.lines, Clean)

LEMMA LongerSound ==
  ASSUME NEW f, SoundContents(f), NEW op \in Ops
  PROVE  /\ SoundContents(Longer(f, op)) /\ Longer(f, op).tail = Clean
         /\ Len(Longer(f, op).lines) = Len(f.lines) + 1
         /\ OpsOf(Longer(f, op).lines) = Append(OpsOf(f.lines), op)
<1> SUFFICES ASSUME NEW g, g = Longer(f, op), NEW l, l = Line(op, Len(f.lines) + 1)
             PROVE  /\ SoundContents(g) /\ g.tail = Clean /\ Len(g.lines) = Len(f.lines) + 1
                    /\ OpsOf(g.lines) = Append(OpsOf(f.lines), op)
  OBVIOUS
<1>1. f.lines \in Seq(LineSet) /\ Len(f.lines) \in Nat /\ InSequence(f.lines)
  BY DEF SoundContents
<1>2. l \in LineSet /\ l.op = op
  BY <1>1, LineIsLine
<1>3. g.lines = Append(f.lines, l) /\ g.tail = Clean /\ g = [lines |-> g.lines, tail |-> g.tail]
  BY DEF Content, Longer
<1>4. Append(f.lines, l) \in Seq(LineSet) /\ Len(Append(f.lines, l)) = Len(f.lines) + 1
  BY <1>1, <1>2, AppendProperties
<1>5. InSequence(g.lines)
  BY <1>1, <1>3, InSequenceAppend
<1>6. OpsOf(g.lines) = Append(OpsOf(f.lines), op)
  BY <1>1, <1>2, <1>3, OpsOfAppend
<1>7. g \in Contents
  <2>1. g.lines \in Seq(LineSet \cup {Bad})
    BY <1>3, <1>4, SeqMonotonic
  <2> QED  BY <1>3, <2>1 DEF Contents
<1> QED  BY <1>3, <1>4, <1>5, <1>6, <1>7 DEF SoundContents

LEMMA TrimmedSound ==
  ASSUME NEW f, SoundContents(f)
  PROVE  /\ SoundContents(Trimmed(f)) /\ Trimmed(f).tail = Clean
         /\ Trimmed(f).lines = f.lines /\ Trimmed(f) # NoFile
<1>1. Trimmed(f).lines = f.lines /\ Trimmed(f).tail = Clean /\ NoFile.tail = Torn
  BY DEF Content, NoFile, Trimmed
<1>2. SoundContents(Trimmed(f))
  BY <1>1 DEF Content, SoundContents, Contents, Trimmed
<1> QED  BY <1>1, <1>2, TailsDiffer

LEMMA RecoveredSeq ==
  ASSUME NEW f, SoundContents(f)
  PROVE  /\ Recovered(f) \in Seq(Ops) /\ Len(f.lines) \in Nat
         /\ Len(Recovered(f)) \in {Len(f.lines), Len(f.lines) + 1}
         /\ f.tail \in {Clean, Torn} => Len(Recovered(f)) = Len(f.lines)
         /\ \A i \in 1..Len(f.lines) : Recovered(f)[i] = f.lines[i].op
<1>1. /\ f.lines \in Seq(LineSet) /\ Len(f.lines) \in Nat
      /\ OpsOf(f.lines) \in Seq(Ops) /\ Len(OpsOf(f.lines)) = Len(f.lines)
      /\ \A i \in 1..Len(f.lines) : OpsOf(f.lines)[i] = f.lines[i].op
  BY OpsOfSeq, LenProperties DEF SoundContents
<1>2. CASE f.tail \in {Clean, Torn}
  BY <1>1, <1>2, SoundRecovered
<1>3. ASSUME NEW op \in Ops, f.tail = Line(op, Len(f.lines) + 1)
      PROVE  /\ Recovered(f) \in Seq(Ops) /\ Len(Recovered(f)) = Len(f.lines) + 1
             /\ \A i \in 1..Len(f.lines) : Recovered(f)[i] = OpsOf(f.lines)[i]
             /\ f.tail \notin {Clean, Torn}
  <2>1. Recovered(f) = Append(OpsOf(f.lines), op)
    BY <1>3, SoundRecovered
  <2>2. f.tail \in LineSet
    BY <1>1, <1>3, LineIsLine
  <2> QED  BY <1>1, <2>1, <2>2, AppendProperties, TailsDiffer
<1> QED  BY <1>1, <1>2, <1>3 DEF SoundContents

-----------------------------------------------------------------------------
(* Every step keeps the invariant as long as nothing disturbs the file.    *)

LEMMA ClosedRecord ==
  NoFile \in Contents /\ Closed \in StorageRecord
<1>1. NoFile \in Contents
  BY DEF NoFile, Contents, Content
<1> QED  BY <1>1 DEF Closed, StorageRecord

(* At most one call is active, for the one storage that is open.          *)
LEMMA OneActive ==
  ASSUME Sound, NEW op \in Ops, Active(op)
  PROVE  \A o \in Ops : Active(o) => o = op
<1>1. \A o \in Ops : Active(o) =>
        /\ call[o].by \in Handles /\ storage[call[o].by].phase = "open"
        /\ Head(storage[call[o].by].queue) = o
  BY DEF Sound, HoldsLock, Active, InThread
<1> QED  BY <1>1 DEF Sound, OneInUse

(* What a power failure leaves is sound, has all that was synced, and      *)
(* restores a part of what would have been restored.                       *)
LEMMA LostSound ==
  ASSUME NEW f, SoundContents(f), NEW n \in 0..Len(f.lines), NEW g \in AfterPowerLoss(f, n)
  PROVE  /\ SoundContents(g) /\ n <= Len(g.lines)
         /\ \E k \in n..Len(Recovered(f)) : Recovered(g) = SubSeq(Recovered(f), 1, k)
<1>1. /\ f.lines \in Seq(LineSet) /\ Len(f.lines) \in Nat /\ InSequence(f.lines)
      /\ Recovered(f) \in Seq(Ops) /\ Len(Recovered(f)) \in {Len(f.lines), Len(f.lines) + 1}
      /\ \A i \in 1..Len(f.lines) : Recovered(f)[i] = f.lines[i].op /\ f.lines[i] \in LineSet
  BY RecoveredSeq, ElementOfSeq DEF SoundContents
<1>2. ASSUME NEW k \in n..Len(f.lines), NEW t, g = Content(SubSeq(f.lines, 1, k), t),
             \/ t \in {Clean, Torn}
             \/ k < Len(f.lines) /\ t = f.lines[k + 1]
      PROVE  SoundContents(g) /\ g.tail = t /\ g.lines = SubSeq(f.lines, 1, k)
  <2>1. k \in 0..Len(f.lines) /\ g.tail = t /\ g.lines = SubSeq(f.lines, 1, k)
    BY <1>1, <1>2 DEF Content
  <2>2. g.lines \in Seq(LineSet) /\ Len(g.lines) = k /\ InSequence(g.lines)
    BY <1>1, <2>1, OpsOfPrefix, InSequencePrefix
  <2>3. k < Len(f.lines) => f.lines[k + 1] = Line(f.lines[k + 1].op, k + 1) /\ f.lines[k + 1] \in LineSet
    BY <1>1, <2>1 DEF InSequence, Line, LineSet
  <2>4. k < Len(f.lines) => f.lines[k + 1].op \in Ops
    BY <2>3 DEF LineSet
  <2>5. g \in Contents
    BY <1>2, <2>1, <2>2, <2>3 DEF Content, Contents
  <2> QED  BY <1>2, <2>1, <2>2, <2>3, <2>4, <2>5 DEF SoundContents
<1>3. ASSUME NEW k \in n..Len(Recovered(f)), SoundContents(g), Len(Recovered(g)) = k,
             \A i \in 1..k : Recovered(g)[i] = Recovered(f)[i]
      PROVE  Recovered(g) = SubSeq(Recovered(f), 1, k)
  <2>1. Recovered(g) \in Seq(Ops)
    BY <1>3, RecoveredSeq
  <2>2. /\ SubSeq(Recovered(f), 1, k) \in Seq(Ops) /\ Len(SubSeq(Recovered(f), 1, k)) = k
        /\ \A i \in 1..k : SubSeq(Recovered(f), 1, k)[i] = Recovered(f)[i]
    BY <1>1, SubSeqProperties, ElementOfSeq
  <2> QED  BY <1>3, <2>1, <2>2, SeqEqual
<1>4. CASE g = f
  <2>1. Len(Recovered(f)) \in n..Len(Recovered(f)) /\ Recovered(g) = SubSeq(Recovered(f), 1, Len(Recovered(f)))
    BY <1>1, <1>4, SubSeqFull
  <2> QED  BY <1>1, <1>4, <2>1
<1>5. ASSUME NEW k \in n..Len(f.lines), NEW t \in {Clean, Torn}, g = Content(SubSeq(f.lines, 1, k), t)
      PROVE  /\ SoundContents(g) /\ n <= Len(g.lines)
             /\ \E j \in n..Len(Recovered(f)) : Recovered(g) = SubSeq(Recovered(f), 1, j)
  <2>1. SoundContents(g) /\ g.tail = t /\ g.lines = SubSeq(f.lines, 1, k)
    BY <1>2, <1>5
  <2>2. k \in 0..Len(f.lines) /\ k \in n..Len(Recovered(f))
    BY <1>1
  <2>3. Len(g.lines) = k /\ \A i \in 1..k : g.lines[i] = f.lines[i]
    BY <1>1, <2>1, <2>2, OpsOfPrefix
  <2>4. Len(Recovered(g)) = k /\ \A i \in 1..k : Recovered(g)[i] = g.lines[i].op
    BY <2>1, <2>3, RecoveredSeq
  <2>5. \A i \in 1..k : Recovered(g)[i] = Recovered(f)[i]
    BY <1>1, <2>2, <2>3, <2>4
  <2>6. Recovered(g) = SubSeq(Recovered(f), 1, k)
    BY <1>3, <2>1, <2>2, <2>4, <2>5
  <2>7. n <= Len(g.lines)
    BY <1>1, <2>3
  <2> QED  BY <2>1, <2>2, <2>6, <2>7
<1>6. ASSUME NEW k \in n..(Len(f.lines) - 1), g = Content(SubSeq(f.lines, 1, k), f.lines[k + 1])
      PROVE  /\ SoundContents(g) /\ n <= Len(g.lines)
             /\ \E j \in n..Len(Recovered(f)) : Recovered(g) = SubSeq(Recovered(f), 1, j)
  <2>1. k \in n..Len(f.lines) /\ k < Len(f.lines) /\ k \in 0..Len(f.lines)
    BY <1>1
  <2>2. SoundContents(g) /\ g.tail = f.lines[k + 1] /\ g.lines = SubSeq(f.lines, 1, k)
    BY <1>2, <1>6, <2>1
  <2>3. Len(g.lines) = k /\ \A i \in 1..k : g.lines[i] = f.lines[i]
    BY <1>1, <2>1, <2>2, OpsOfPrefix
  <2>4. f.lines[k + 1] \in LineSet /\ f.lines[k + 1].op \in Ops
    BY <1>1, <2>1 DEF LineSet
  <2>5. g.tail = Line(f.lines[k + 1].op, k + 1)
    BY <1>1, <2>1, <2>2 DEF InSequence, Line, LineSet
  <2>6. Recovered(g) = Append(OpsOf(g.lines), f.lines[k + 1].op)
    BY <2>2, <2>3, <2>4, <2>5, SoundRecovered
  <2>7. OpsOf(g.lines) \in Seq(Ops) /\ Len(OpsOf(g.lines)) = k /\ \A i \in 1..k : OpsOf(g.lines)[i] = f.lines[i].op
    BY <2>2, <2>3, OpsOfSeq DEF SoundContents
  <2>8. /\ Len(Recovered(g)) = k + 1
        /\ \A i \in 1..k : Recovered(g)[i] = f.lines[i].op
        /\ Recovered(g)[k + 1] = f.lines[k + 1].op
    BY <2>4, <2>6, <2>7, AppendProperties
  <2>9. k + 1 \in n..Len(Recovered(f)) /\ \A i \in 1..(k + 1) : Recovered(g)[i] = Recovered(f)[i]
    BY <1>1, <2>1, <2>8
  <2>10. Recovered(g) = SubSeq(Recovered(f), 1, k + 1)
    BY <1>3, <2>2, <2>8, <2>9
  <2> QED  BY <1>1, <2>1, <2>2, <2>3, <2>9, <2>10
<1>7. \/ g = f
      \/ \E k \in n..Len(f.lines), t \in {Clean, Torn} : g = Content(SubSeq(f.lines, 1, k), t)
      \/ \E k \in n..(Len(f.lines) - 1) : g = Content(SubSeq(f.lines, 1, k), f.lines[k + 1])
  BY DEF AfterPowerLoss
<1> QED  BY <1>1, <1>4, <1>5, <1>6, <1>7

LEMMA RemoveAtShifts ==
  ASSUME NEW S, NEW s \in Seq(S), NEW i \in DOMAIN s
  PROVE  /\ RemoveAt(s, i) \in Seq(S)
         /\ i # 1 => RemoveAt(s, i) # <<>> /\ Head(RemoveAt(s, i)) = Head(s)
<1>1. Len(s) \in Nat /\ DOMAIN s = 1..Len(s)
  BY LenProperties
<1>2. SubSeq(s, 1, i - 1) \in Seq(S) /\ SubSeq(s, i + 1, Len(s)) \in Seq(S)
  BY <1>1, SubSeqProperties, ElementOfSeq
<1>3. ASSUME i # 1
      PROVE  Len(SubSeq(s, 1, i - 1)) = i - 1 /\ SubSeq(s, 1, i - 1)[1] = s[1]
  BY <1>1, <1>3, SubSeqProperties, ElementOfSeq
<1>4. RemoveAt(s, i) \in Seq(S)
  BY <1>2, ConcatProperties DEF RemoveAt
<1>5. ASSUME i # 1
      PROVE  Len(RemoveAt(s, i)) >= 1 /\ RemoveAt(s, i)[1] = s[1] /\ s # <<>>
  BY <1>1, <1>2, <1>3, <1>5, ConcatProperties, LenProperties DEF RemoveAt
<1>6. ASSUME i # 1
      PROVE  RemoveAt(s, i) # <<>> /\ Head(RemoveAt(s, i)) = Head(s)
  BY <1>4, <1>5, <1>6, EmptySeq
<1> QED  BY <1>4, <1>6

(* Killing every process with a storage in use ends what was going on.     *)
LEMMA KillEnds ==
  ASSUME Sound, NEW dead, Kill(dead),
         \A h \in Handles : storage[h].phase # "closed" => h \in dead
  PROVE  /\ storage' \in [Handles -> StorageRecord] /\ call' \in [Ops -> CallRecord]
         /\ \A g \in Handles : storage'[g].phase = "closed" /\ storage'[g].queue = <<>>
         /\ \A o \in Ops :
              \/ call'[o] = call[o] /\ ~Active(o)
              \/ call'[o].at = "died" /\ call'[o].by = call[o].by /\ call[o].at \notin {"new", "returned"}
<1>1. /\ storage' \in [Handles -> StorageRecord]
      /\ \A g \in Handles : storage'[g].phase = "closed" /\ storage'[g].queue = <<>>
  BY ClosedRecord DEF Kill, Closed, Sound, StorageTypes, OneInUse
<1>2. ASSUME NEW o \in Ops
      PROVE  /\ call'[o] \in CallRecord
             /\ \/ call'[o] = call[o] /\ ~Active(o)
                \/ call'[o].at = "died" /\ call'[o].by = call[o].by /\ call[o].at \notin {"new", "returned"}
  <2>1. CASE call[o].by \in dead /\ Unfinished(o)
    <3>1. call'[o] = [call[o] EXCEPT !.at = "died"]
      BY <2>1 DEF Kill
    <3> QED  BY <2>1, <3>1 DEF Unfinished, Sound, StorageTypes, CallRecord, Places, InThread
  <2>2. CASE ~(call[o].by \in dead /\ Unfinished(o))
    <3>1. call'[o] = call[o]
      BY <2>2 DEF Kill
    <3>2. Active(o) => call[o].by \in dead /\ Unfinished(o)
      BY DEF Active, Unfinished, InThread, Sound, HoldsLock
    <3> QED  BY <2>2, <3>1, <3>2 DEF Sound, StorageTypes
  <2> QED  BY <2>1, <2>2
<1>3. call' \in [Ops -> CallRecord]
  <2>1. call' = [o \in Ops |-> call'[o]]
    BY DEF Kill
  <2> QED  BY <1>2, <2>1
<1> QED  BY <1>1, <1>2, <1>3

LEMMA SoundInit == Init => Sound
<1> SUFFICES ASSUME Init PROVE Sound
  OBVIOUS
<1>1. Content(<<>>, Clean) \in Contents
  BY DEF Contents, Content
<1>2. Closed \in StorageRecord /\ NewCall \in CallRecord
  BY ClosedRecord DEF NewCall, CallRecord, Places, InThread
<1>3. StorageTypes
  BY <1>2 DEF Init, StorageTypes
<1>4. SoundContents(file) /\ OpsOf(file.lines) = <<>>
  BY <1>1 DEF Init, SoundContents, Content, InSequence, OpsOf
<1>5. \A h \in Handles : storage[h].phase = "closed" /\ storage[h].queue = <<>>
  BY DEF Init, Closed
<1>6. \A op \in Ops : call[op].at = "new" /\ call[op].awaited
  BY DEF Init, NewCall
<1>7. OneInUse /\ HoldsLock /\ UpToDate /\ InStep /\ LoadsCurrent
  BY <1>5, <1>6 DEF Init, OneInUse, HoldsLock, UpToDate, InStep, LoadsCurrent, Active,
     InThread
<1>8. FileSound
  BY <1>4 DEF Init, FileSound, SoundContents
<1> QED  BY <1>3, <1>7, <1>8 DEF Sound

LEMMA ReadFileKeeps ==
  ASSUME Sound, ~disturbed', NEW h \in Handles, ReadFile(h)
  PROVE  Sound'
<1>1. /\ file' = file /\ inode' = inode /\ synced' = synced /\ acked' = acked /\ call' = call
      /\ \A g \in Handles : storage[g].phase = "closed"
  BY DEF ReadFile
<1>2. /\ storage' \in [Handles -> StorageRecord]
      /\ \A g \in Handles : g # h => storage'[g] = storage[g]
      /\ storage'[h].phase = "loading"
      /\ storage'[h].applied = storage[h].applied
      /\ storage'[h].queue = storage[h].queue
      /\ storage'[h].seen = file
  BY DEF ReadFile, FileSound, SoundContents, Sound, StorageTypes, StorageRecord
<1>3. StorageTypes'
  BY <1>1, <1>2 DEF Sound, StorageTypes
<1>4. OneInUse'
  BY <1>1, <1>2 DEF Sound, StorageTypes, OneInUse
<1>5. HoldsLock'
  BY <1>1, <1>2 DEF Sound, StorageTypes, OneInUse, HoldsLock, Active, InThread
<1>6. UpToDate'
  BY <1>1, <1>2 DEF Sound, StorageTypes, OneInUse, HoldsLock, UpToDate, Active, InThread,
     OnPath
<1>7. FileSound'
  BY <1>1 DEF Sound, StorageTypes, FileSound
<1>8. InStep'
  BY <1>1, <1>2 DEF Sound, StorageTypes, OneInUse, HoldsLock, InStep, Active, Writing,
     InThread, LineOf
<1>9. LoadsCurrent'
  BY <1>1, <1>2 DEF Sound, StorageTypes, OneInUse, HoldsLock, LoadsCurrent, Active, InThread
<1> QED  BY <1>3, <1>4, <1>5, <1>6, <1>7, <1>8, <1>9 DEF Sound

LEMMA OpenIntactKeeps ==
  ASSUME Sound, ~disturbed', NEW h \in Handles, OpenIntact(h)
  PROVE  Sound'
<1>1. /\ file' = file /\ inode' = inode /\ synced' = synced /\ acked' = acked /\ call' = call
      /\ storage[h].phase = "loading" /\ storage[h].seen = file /\ LoadOutcome(file) = "intact"
  BY DEF OpenIntact, Sound, LoadsCurrent
<1>2. /\ SoundContents(file) /\ file.tail = Clean
      /\ Recovered(file) = OpsOf(file.lines) /\ OpsOf(file.lines) \in Seq(Ops)
  BY <1>1, SoundLoads, SoundRecovered, OpsOfSeq DEF Sound, FileSound, SoundContents
<1>3. /\ storage' \in [Handles -> StorageRecord]
      /\ \A g \in Handles : g # h => storage'[g] = storage[g]
      /\ storage'[h].phase = "open"
      /\ storage'[h].applied = OpsOf(file.lines)
      /\ storage'[h].queue = <<>>
      /\ storage'[h].seen = NoFile
  BY <1>1, <1>2, ClosedRecord DEF OpenIntact, Opened, Closed, Sound, StorageTypes,
     StorageRecord
<1>4. StorageTypes'
  BY <1>1, <1>3 DEF Sound, StorageTypes
<1>5. OneInUse'
  BY <1>1, <1>2, <1>3 DEF Sound, StorageTypes, OneInUse
<1>6. HoldsLock'
  BY <1>1, <1>2, <1>3 DEF Sound, StorageTypes, OneInUse, HoldsLock, Active, InThread
<1>7. UpToDate'
  BY <1>1, <1>2, <1>3 DEF Sound, StorageTypes, OneInUse, HoldsLock, UpToDate, Active,
     InThread, OnPath
<1>8. FileSound'
  BY <1>1, <1>2 DEF Sound, StorageTypes, FileSound
<1>9. InStep'
  BY <1>1, <1>2, <1>3 DEF Sound, StorageTypes, OneInUse, HoldsLock, InStep, Active, Writing,
     InThread, LineOf
<1>10. LoadsCurrent'
  BY <1>1, <1>2, <1>3 DEF Sound, StorageTypes, OneInUse, HoldsLock, LoadsCurrent, Active,
     InThread
<1> QED  BY <1>4, <1>5, <1>6, <1>7, <1>8, <1>9, <1>10 DEF Sound

LEMMA TerminateKeeps ==
  ASSUME Sound, ~disturbed', NEW h \in Handles, TerminateTail(h)
  PROVE  Sound'
<1>1. /\ inode' = inode /\ synced' = synced /\ acked' = acked /\ call' = call
      /\ storage[h].phase = "loading" /\ storage[h].seen = file /\ LoadOutcome(file) = "unterminated"
  BY DEF TerminateTail, Sound, LoadsCurrent
<1>2. PICK op \in Ops : file.tail = Line(op, Len(file.lines) + 1)
  BY <1>1, SoundLoads DEF Sound, FileSound, SoundContents
<1>3. file' = Longer(file, op)
  BY <1>1, <1>2, LineIsLine, TailsDiffer DEF Longer, TerminateTail, Terminate, Sound,
     FileSound, SoundContents
<1>4. /\ SoundContents(file') /\ file'.tail = Clean /\ Len(file'.lines) = Len(file.lines) + 1
      /\ OpsOf(file'.lines) = Recovered(file)
  BY <1>2, <1>3, LongerSound, SoundRecovered DEF Sound, FileSound
<1>5. OpsOf(file'.lines) \in Seq(Ops)
  BY <1>4, OpsOfSeq DEF SoundContents
<1>6. /\ storage' \in [Handles -> StorageRecord]
      /\ \A g \in Handles : g # h => storage'[g] = storage[g]
      /\ storage'[h].phase = "open"
      /\ storage'[h].applied = OpsOf(file'.lines)
      /\ storage'[h].queue = <<>>
      /\ storage'[h].seen = NoFile
  BY <1>1, <1>4, <1>5, ClosedRecord DEF TerminateTail, Opened, Closed, Sound, StorageTypes,
     StorageRecord
<1>7. StorageTypes'
  BY <1>1, <1>3, <1>4, <1>5, <1>6 DEF Sound, StorageTypes
<1>8. OneInUse'
  BY <1>1, <1>2, <1>3, <1>4, <1>5, <1>6 DEF Sound, StorageTypes, OneInUse
<1>9. HoldsLock'
  BY <1>1, <1>2, <1>3, <1>4, <1>5, <1>6 DEF Sound, StorageTypes, OneInUse, HoldsLock,
     Active, InThread
<1>10. UpToDate'
  BY <1>1, <1>2, <1>3, <1>4, <1>5, <1>6 DEF Sound, StorageTypes, OneInUse, HoldsLock,
     UpToDate, Active, InThread, OnPath
<1>11. FileSound'
  BY <1>1, <1>2, <1>3, <1>4, <1>5, <1>6 DEF Sound, StorageTypes, FileSound
<1>12. InStep'
  BY <1>1, <1>2, <1>3, <1>4, <1>5, <1>6 DEF Sound, StorageTypes, OneInUse, HoldsLock,
     InStep, Active, Writing, InThread, LineOf
<1>13. LoadsCurrent'
  BY <1>1, <1>2, <1>3, <1>4, <1>5, <1>6 DEF Sound, StorageTypes, OneInUse, HoldsLock,
     LoadsCurrent, Active, InThread
<1> QED  BY <1>7, <1>8, <1>9, <1>10, <1>11, <1>12, <1>13 DEF Sound

LEMMA StageKeeps ==
  ASSUME Sound, ~disturbed', NEW h \in Handles, StageRepair(h)
  PROVE  Sound'
<1>1. /\ file' = file /\ inode' = inode /\ synced' = synced /\ acked' = acked /\ call' = call
      /\ storage[h].phase = "loading" /\ storage[h].seen = file /\ LoadOutcome(file) = "torn"
      /\ temp' = Content(ValidLines(file), Clean)
  BY DEF StageRepair, Sound, LoadsCurrent
<1>2. ValidLines(file) = file.lines
  BY <1>1, SoundLoads DEF Sound, FileSound, SoundContents
<1>3. /\ storage' \in [Handles -> StorageRecord]
      /\ \A g \in Handles : g # h => storage'[g] = storage[g]
      /\ storage'[h].phase = "staged"
      /\ storage'[h].applied = storage[h].applied
      /\ storage'[h].queue = storage[h].queue
      /\ storage'[h].seen = storage[h].seen
  BY <1>1 DEF StageRepair, Sound, StorageTypes, StorageRecord
<1>4. StorageTypes'
  BY <1>1, <1>3 DEF Sound, StorageTypes
<1>5. OneInUse'
  BY <1>1, <1>2, <1>3 DEF Sound, StorageTypes, OneInUse
<1>6. HoldsLock'
  BY <1>1, <1>2, <1>3 DEF Sound, StorageTypes, OneInUse, HoldsLock, Active, InThread
<1>7. UpToDate'
  BY <1>1, <1>2, <1>3 DEF Sound, StorageTypes, OneInUse, HoldsLock, UpToDate, Active,
     InThread, OnPath
<1>8. FileSound'
  BY <1>1, <1>2 DEF Sound, StorageTypes, FileSound
<1>9. InStep'
  BY <1>1, <1>2, <1>3 DEF Sound, StorageTypes, OneInUse, HoldsLock, InStep, Active, Writing,
     InThread, LineOf
<1>10. LoadsCurrent'
  BY <1>1, <1>2, <1>3 DEF Sound, StorageTypes, OneInUse, HoldsLock, LoadsCurrent, Active,
     InThread
<1> QED  BY <1>4, <1>5, <1>6, <1>7, <1>8, <1>9, <1>10 DEF Sound

LEMMA PublishKeeps ==
  ASSUME Sound, ~disturbed', NEW h \in Handles, PublishRepair(h)
  PROVE  Sound'
<1>1. /\ storage[h].phase = "staged" /\ storage[h].seen = file /\ LoadOutcome(file) = "torn"
      /\ temp = Trimmed(file) /\ acked' = acked /\ call' = call
  BY DEF Trimmed, PublishRepair, Sound, LoadsCurrent
<1>2. /\ SoundContents(file) /\ file.tail = Torn /\ SoundContents(temp) /\ temp # NoFile
      /\ temp.lines = file.lines /\ temp.tail = Clean
      /\ OpsOf(file.lines) = Recovered(file) /\ OpsOf(file.lines) \in Seq(Ops)
  BY <1>1, SoundLoads, SoundRecovered, OpsOfSeq, TrimmedSound, TailsDiffer DEF Sound,
     FileSound, SoundContents
<1>3. /\ file' = temp /\ inode' = inode + 1 /\ Opened(h)
      /\ synced' = IF RenameSyncs THEN Len(file.lines) ELSE 0
  BY <1>1, <1>2 DEF PublishRepair
<1>4. /\ storage' \in [Handles -> StorageRecord]
      /\ \A g \in Handles : g # h => storage'[g] = storage[g]
      /\ storage'[h].phase = "open"
      /\ storage'[h].applied = OpsOf(file.lines)
      /\ storage'[h].queue = <<>>
      /\ storage'[h].seen = NoFile
  BY <1>1, <1>2, <1>3, ClosedRecord DEF Opened, Closed, Sound, StorageTypes, StorageRecord
<1>5. StorageTypes'
  BY <1>1, <1>3, <1>4 DEF Sound, StorageTypes
<1>6. OneInUse'
  BY <1>1, <1>4 DEF Sound, OneInUse
<1>7. HoldsLock'
  BY <1>1, <1>2, <1>3, <1>4 DEF Sound, StorageTypes, OneInUse, HoldsLock, Active, InThread
<1>8. UpToDate'
  BY <1>1, <1>2, <1>3, <1>4 DEF Sound, StorageTypes, OneInUse, HoldsLock, UpToDate, Active,
     InThread, OnPath
<1>9. FileSound'
  BY <1>1, <1>2, <1>3 DEF Sound, StorageTypes, FileSound
<1>10. InStep'
  BY <1>1, <1>2, <1>3, <1>4 DEF Sound, StorageTypes, OneInUse, HoldsLock, InStep, Active,
     Writing, InThread, LineOf
<1>11. LoadsCurrent'
  BY <1>1, <1>2, <1>3, <1>4 DEF Sound, StorageTypes, OneInUse, HoldsLock, LoadsCurrent,
     Active, InThread
<1> QED  BY <1>5, <1>6, <1>7, <1>8, <1>9, <1>10, <1>11 DEF Sound

LEMMA DropKeeps ==
  ASSUME Sound, ~disturbed', NEW h \in Handles, Drop(h)
  PROVE  Sound'
<1>1. /\ file' = file /\ inode' = inode /\ synced' = synced /\ acked' = acked /\ call' = call
      /\ storage[h].phase = "open" /\ storage[h].queue = <<>>
  BY DEF Drop
<1>2. /\ storage' \in [Handles -> StorageRecord]
      /\ \A g \in Handles : g # h => storage'[g] = storage[g]
      /\ storage'[h].phase = "closed"
      /\ storage'[h].applied = <<>>
      /\ storage'[h].queue = <<>>
      /\ storage'[h].seen = NoFile
  BY <1>1, ClosedRecord DEF Drop, Closed, Sound, StorageTypes, StorageRecord
<1>3. StorageTypes'
  BY <1>1, <1>2 DEF Sound, StorageTypes
<1>4. OneInUse'
  BY <1>1, <1>2 DEF Sound, StorageTypes, OneInUse
<1>5. HoldsLock'
  BY <1>1, <1>2 DEF Sound, StorageTypes, OneInUse, HoldsLock, Active, InThread
<1>6. UpToDate'
  BY <1>1, <1>2 DEF Sound, StorageTypes, OneInUse, HoldsLock, UpToDate, Active, InThread,
     OnPath
<1>7. FileSound'
  BY <1>1 DEF Sound, StorageTypes, FileSound
<1>8. InStep'
  BY <1>1, <1>2 DEF Sound, StorageTypes, OneInUse, HoldsLock, InStep, Active, Writing,
     InThread, LineOf
<1>9. LoadsCurrent'
  BY <1>1, <1>2 DEF Sound, StorageTypes, OneInUse, HoldsLock, LoadsCurrent, Active, InThread
<1> QED  BY <1>3, <1>4, <1>5, <1>6, <1>7, <1>8, <1>9 DEF Sound

LEMMA EnqueueKeeps ==
  ASSUME Sound, ~disturbed', NEW h \in Handles, NEW op \in Ops, Enqueue(h, op)
  PROVE  Sound'
<1>1. /\ file' = file /\ inode' = inode /\ synced' = synced /\ acked' = acked
      /\ storage[h].phase = "open" /\ call[op].at = "new"
  BY DEF Enqueue
<1>2. Append(storage[h].queue, op) \in Seq(Ops)
  BY AppendProperties DEF Sound, StorageTypes, StorageRecord
<1>3. /\ storage' \in [Handles -> StorageRecord]
      /\ \A g \in Handles : g # h => storage'[g] = storage[g]
      /\ storage'[h].phase = storage[h].phase
      /\ storage'[h].applied = storage[h].applied
      /\ storage'[h].queue = Append(storage[h].queue, op)
      /\ storage'[h].seen = storage[h].seen
  BY <1>1, <1>2 DEF Enqueue, Sound, StorageTypes, StorageRecord
<1>4. storage[h].queue # <<>> =>
        Append(storage[h].queue, op) # <<>> /\ Head(Append(storage[h].queue, op)) = Head(storage[h].queue)
  BY HeadTailAppend, AppendProperties DEF Sound, StorageTypes, StorageRecord
<1>5. /\ call' \in [Ops -> CallRecord]
      /\ \A o \in Ops : o # op => call'[o] = call[o]
      /\ call'[op].at = "queued"
      /\ call'[op].by = h
      /\ call'[op].seq = call[op].seq
      /\ call'[op].inode = call[op].inode
      /\ call'[op].clean = call[op].clean
      /\ call'[op].awaited = call[op].awaited
  BY <1>1 DEF Enqueue, Sound, StorageTypes, CallRecord, Places, InThread
<1>6. /\ \A g \in Handles : storage'[g].applied = storage[g].applied /\ storage'[g].phase = storage[g].phase
      /\ \A o \in Ops : call'[o].at # "queued" => call'[o] = call[o]
  BY <1>3, <1>5
<1>7. \A o \in Ops : Writing(o)' <=> Writing(o)
  BY <1>1, <1>5 DEF Writing
<1>8. StorageTypes'
  BY <1>1, <1>3, <1>5 DEF Sound, StorageTypes
<1>9. OneInUse'
  BY <1>1, <1>2, <1>3, <1>4, <1>6, <1>7 DEF Sound, StorageTypes, OneInUse
<1>10. HoldsLock'
  BY <1>1, <1>2, <1>3, <1>4, <1>5, <1>6, <1>7 DEF Sound, StorageTypes, OneInUse, HoldsLock,
     Active, InThread
<1>11. UpToDate'
  <2>1. \A o \in Ops : call'[o].at \in InThread => call'[o] = call[o] /\ call[o].by \in Handles
    BY <1>6 DEF Sound, HoldsLock, InThread
  <2>2. \A o \in Ops : call'[o].at \in InThread =>
           storage'[call'[o].by].applied = storage[call[o].by].applied
    BY <1>6, <2>1
  <2> QED  BY <1>1, <2>1, <2>2 DEF Sound, UpToDate, OnPath, InThread
<1>12. FileSound'
  BY <1>1, <1>2, <1>4, <1>6, <1>7 DEF Sound, StorageTypes, FileSound
<1>13. InStep'
  <2>1. ASSUME NEW g \in Handles, storage'[g].phase = "open",
               \A o \in Ops : call'[o].by = g => ~Writing(o)'
        PROVE  file'.tail = Clean /\ OpsOf(file'.lines) = storage'[g].applied
    <3>1. \A o \in Ops : call[o].by = g => ~Writing(o)
      BY <1>1, <1>5, <1>6, <1>7, <2>1 DEF Writing
    <3> QED  BY <1>1, <1>5, <1>6, <2>1, <3>1 DEF Sound, InStep
  <2>2. ASSUME NEW o \in Ops
        PROVE  /\ call'[o].at = "part" =>
                    /\ call'[o].clean
                    /\ file'.tail \in {Torn, LineOf(o)'}
                    /\ OpsOf(file'.lines) = storage'[call'[o].by].applied
               /\ call'[o].at \in {"written", "synced"} =>
                    /\ file'.tail = Clean
                    /\ OpsOf(file'.lines) = Append(storage'[call'[o].by].applied, o)
               /\ call'[o].at = "synced" => synced' = Len(file'.lines)
    <3>1. CASE Writing(o)'
      <4>1. call'[o] = call[o] /\ call[o].by \in Handles
        BY <1>1, <1>5, <1>6, <1>7, <3>1 DEF Sound, HoldsLock, Writing
      <4>2. storage'[call'[o].by].applied = storage[call[o].by].applied
        BY <1>5, <1>6, <4>1
      <4>3. LineOf(o)' = LineOf(o) /\ file' = file /\ synced' = synced
        BY <1>1, <4>1 DEF LineOf
      <4> QED  BY <4>1, <4>2, <4>3 DEF Sound, InStep
    <3> QED  BY <3>1 DEF Writing
  <2> QED  BY <2>1, <2>2 DEF InStep
<1>14. LoadsCurrent'
  BY <1>1, <1>2, <1>3, <1>4, <1>6, <1>7 DEF Sound, StorageTypes, OneInUse, HoldsLock,
     LoadsCurrent, Active, InThread
<1> QED  BY <1>8, <1>9, <1>10, <1>11, <1>12, <1>13, <1>14 DEF Sound

LEMMA SubmitKeeps ==
  ASSUME Sound, ~disturbed', NEW op \in Ops, Submit(op)
  PROVE  Sound'
<1>1. /\ file' = file /\ inode' = inode /\ synced' = synced /\ acked' = acked /\ storage' = storage
      /\ call[op].at = "queued" /\ call[op].by \in Handles /\ storage[call[op].by].queue # <<>>
      /\ Head(storage[call[op].by].queue) = op /\ storage[call[op].by].phase = "open"
  BY JsonlAssumption DEF Submit, Holder, Sound, HoldsLock, OneInUse
<1>2. Len(storage[call[op].by].applied) + 1 \in Nat
  BY <1>1 DEF Sound, StorageTypes, StorageRecord
<1>3. /\ call' \in [Ops -> CallRecord]
      /\ \A o \in Ops : o # op => call'[o] = call[o]
      /\ call'[op].at = "submitted"
      /\ call'[op].by = call[op].by
      /\ call'[op].seq = Len(storage[call[op].by].applied) + 1
      /\ call'[op].inode = call[op].inode
      /\ call'[op].clean = call[op].clean
      /\ call'[op].awaited = call[op].awaited
  BY <1>1, <1>2 DEF Submit, Sound, StorageTypes, CallRecord, Places, InThread
<1>4. StorageTypes'
  BY <1>1, <1>3 DEF Sound, StorageTypes
<1>5. OneInUse'
  BY <1>1, <1>2 DEF Sound, StorageTypes, OneInUse
<1>6. HoldsLock'
  BY <1>1, <1>2, <1>3 DEF Sound, StorageTypes, OneInUse, HoldsLock, Active, InThread
<1>7. UpToDate'
  BY <1>1, <1>2, <1>3 DEF Sound, StorageTypes, OneInUse, HoldsLock, UpToDate, Active,
     InThread, OnPath
<1>8. FileSound'
  BY <1>1, <1>2 DEF Sound, StorageTypes, FileSound
<1>9. InStep'
  BY <1>1, <1>2, <1>3 DEF Sound, StorageTypes, OneInUse, HoldsLock, InStep, Active, Writing,
     InThread, LineOf
<1>10. LoadsCurrent'
  BY <1>1, <1>2 DEF Sound, StorageTypes, OneInUse, HoldsLock, LoadsCurrent, Active, InThread
<1> QED  BY <1>4, <1>5, <1>6, <1>7, <1>8, <1>9, <1>10 DEF Sound

LEMMA LockAndOpenKeeps ==
  ASSUME Sound, ~disturbed', NEW op \in Ops, LockAndOpen(op)
  PROVE  Sound'
<1>1. /\ file' = file /\ inode' = inode /\ synced' = synced /\ acked' = acked /\ storage' = storage
      /\ call[op].at = "submitted"
  BY DEF LockAndOpen
<1>2. /\ call' \in [Ops -> CallRecord]
      /\ \A o \in Ops : o # op => call'[o] = call[o]
      /\ call'[op].at = "open"
      /\ call'[op].by = call[op].by
      /\ call'[op].seq = call[op].seq
      /\ call'[op].inode = inode
      /\ call'[op].clean = call[op].clean
      /\ call'[op].awaited = call[op].awaited
  BY <1>1 DEF LockAndOpen, Sound, StorageTypes, CallRecord, Places, InThread
<1>3. StorageTypes'
  BY <1>1, <1>2 DEF Sound, StorageTypes
<1>4. OneInUse'
  BY <1>1 DEF Sound, StorageTypes, OneInUse
<1>5. HoldsLock'
  BY <1>1, <1>2 DEF Sound, StorageTypes, OneInUse, HoldsLock, Active, InThread
<1>6. UpToDate'
  BY <1>1, <1>2 DEF Sound, StorageTypes, OneInUse, HoldsLock, UpToDate, Active, InThread,
     OnPath
<1>7. FileSound'
  BY <1>1 DEF Sound, StorageTypes, FileSound
<1>8. InStep'
  BY <1>1, <1>2 DEF Sound, StorageTypes, OneInUse, HoldsLock, InStep, Active, Writing,
     InThread, LineOf
<1>9. LoadsCurrent'
  BY <1>1 DEF Sound, StorageTypes, OneInUse, HoldsLock, LoadsCurrent, Active, InThread
<1> QED  BY <1>3, <1>4, <1>5, <1>6, <1>7, <1>8, <1>9 DEF Sound

LEMMA LockTimeoutKeeps ==
  ASSUME Sound, ~disturbed', NEW op \in Ops, LockTimeout(op)
  PROVE  Sound'
<1>1. /\ file' = file /\ inode' = inode /\ synced' = synced /\ acked' = acked /\ storage' = storage
      /\ call[op].at = "submitted" /\ call[op].awaited
  BY DEF LockTimeout, Sound, HoldsLock, Active, InThread
<1>2. /\ call' \in [Ops -> CallRecord]
      /\ \A o \in Ops : o # op => call'[o] = call[o]
      /\ call'[op].at = "failed"
      /\ call'[op].by = call[op].by
      /\ call'[op].seq = call[op].seq
      /\ call'[op].inode = call[op].inode
      /\ call'[op].clean = call[op].clean
      /\ call'[op].awaited = TRUE
  BY <1>1 DEF LockTimeout, Outcome, Sound, StorageTypes, CallRecord, Places, InThread
<1>3. StorageTypes'
  BY <1>1, <1>2 DEF Sound, StorageTypes
<1>4. OneInUse'
  BY <1>1 DEF Sound, StorageTypes, OneInUse
<1>5. HoldsLock'
  BY <1>1, <1>2 DEF Sound, StorageTypes, OneInUse, HoldsLock, Active, InThread
<1>6. UpToDate'
  BY <1>1, <1>2 DEF Sound, StorageTypes, OneInUse, HoldsLock, UpToDate, Active, InThread,
     OnPath
<1>7. FileSound'
  BY <1>1 DEF Sound, StorageTypes, FileSound
<1>8. InStep'
  BY <1>1, <1>2 DEF Sound, StorageTypes, OneInUse, HoldsLock, InStep, Active, Writing,
     InThread, LineOf
<1>9. LoadsCurrent'
  BY <1>1 DEF Sound, StorageTypes, OneInUse, HoldsLock, LoadsCurrent, Active, InThread
<1> QED  BY <1>3, <1>4, <1>5, <1>6, <1>7, <1>8, <1>9 DEF Sound

LEMMA FsyncKeeps ==
  ASSUME Sound, ~disturbed', NEW op \in Ops, Fsync(op)
  PROVE  Sound'
<1>1. /\ file' = file /\ inode' = inode /\ synced' = Len(file.lines) /\ acked' = acked /\ storage' = storage
      /\ call[op].at = "written" /\ call[op].awaited /\ Len(file.lines) \in Nat
  BY DEF Fsync, Sound, HoldsLock, UpToDate, Active, InThread, FileSound, SoundContents
<1>2. /\ call' \in [Ops -> CallRecord]
      /\ \A o \in Ops : o # op => call'[o] = call[o]
      /\ call'[op].at = "synced"
      /\ call'[op].by = call[op].by
      /\ call'[op].seq = call[op].seq
      /\ call'[op].inode = call[op].inode
      /\ call'[op].clean = call[op].clean
      /\ call'[op].awaited = TRUE
  BY <1>1 DEF Fsync, Outcome, Sound, StorageTypes, CallRecord, Places, InThread
<1>3. \A o \in Ops : Active(o) => o = op
  BY <1>1, OneActive DEF Active, InThread
<1>4. /\ \A g \in Handles : storage'[g].phase = "open" => call'[op].by = g
      /\ \A o \in Ops : Writing(o)' => o = op
  BY <1>1, <1>2, <1>3 DEF Sound, OneInUse, HoldsLock, Active, Writing, InThread
<1>5. StorageTypes'
  BY <1>1, <1>2 DEF Sound, StorageTypes
<1>6. OneInUse'
  BY <1>1, <1>3, <1>4 DEF Sound, StorageTypes, OneInUse
<1>7. HoldsLock'
  BY <1>1, <1>2, <1>3, <1>4 DEF Sound, StorageTypes, OneInUse, HoldsLock, Active, InThread
<1>8. UpToDate'
  BY <1>1, <1>2, <1>3, <1>4 DEF Sound, StorageTypes, OneInUse, HoldsLock, UpToDate, Active,
     InThread, OnPath
<1>9. FileSound'
  BY <1>1, <1>3, <1>4 DEF Sound, StorageTypes, FileSound
<1>10. InStep'
  BY <1>1, <1>2, <1>4 DEF Sound, InStep, Writing, LineOf
<1>11. LoadsCurrent'
  BY <1>1, <1>3, <1>4 DEF Sound, StorageTypes, OneInUse, HoldsLock, LoadsCurrent, Active,
     InThread
<1> QED  BY <1>5, <1>6, <1>7, <1>8, <1>9, <1>10, <1>11 DEF Sound

LEMMA RaiseKeeps ==
  ASSUME Sound, ~disturbed', NEW op \in Ops, Raise(op)
  PROVE  Sound'
<1>1. /\ file' = file /\ inode' = inode /\ synced' = synced /\ acked' = acked
      /\ call[op].at = "failed"
  BY DEF Raise
<1>2. PICK h \in Handles : /\ call[op].by = h /\ storage[h].phase = "open" /\ storage[h].queue # <<>>
                          /\ Head(storage[h].queue) = op
  BY <1>1 DEF Sound, HoldsLock, Active, InThread
<1>3. Tail(storage[h].queue) \in Seq(Ops)
  BY <1>2, HeadTailProperties DEF Sound, StorageTypes, StorageRecord
<1>4. /\ storage' \in [Handles -> StorageRecord]
      /\ \A g \in Handles : g # h => storage'[g] = storage[g]
      /\ storage'[h].phase = storage[h].phase
      /\ storage'[h].applied = storage[h].applied
      /\ storage'[h].queue = Tail(storage[h].queue)
      /\ storage'[h].seen = storage[h].seen
  BY <1>1, <1>2, <1>3 DEF Raise, Sound, StorageTypes, StorageRecord
<1>5. /\ call' \in [Ops -> CallRecord]
      /\ \A o \in Ops : o # op => call'[o] = call[o]
      /\ call'[op].at = "raised"
      /\ call'[op].by = call[op].by
      /\ call'[op].seq = call[op].seq
      /\ call'[op].inode = call[op].inode
      /\ call'[op].clean = call[op].clean
      /\ call'[op].awaited = call[op].awaited
  BY <1>1 DEF Raise, Sound, StorageTypes, CallRecord, Places, InThread
<1>6. StorageTypes'
  BY <1>1, <1>4, <1>5 DEF Sound, StorageTypes
<1>7. OneInUse'
  BY <1>1, <1>2, <1>3, <1>4 DEF Sound, StorageTypes, OneInUse
<1>8. HoldsLock'
  BY <1>1, <1>2, <1>3, <1>4, <1>5 DEF Sound, StorageTypes, OneInUse, HoldsLock, Active,
     InThread
<1>9. UpToDate'
  BY <1>1, <1>2, <1>3, <1>4, <1>5 DEF Sound, StorageTypes, OneInUse, HoldsLock, UpToDate,
     Active, InThread, OnPath
<1>10. FileSound'
  BY <1>1, <1>2, <1>3 DEF Sound, StorageTypes, FileSound
<1>11. InStep'
  <2>1. ASSUME NEW g \in Handles, storage'[g].phase = "open",
               \A o \in Ops : call'[o].by = g => ~Writing(o)'
        PROVE  file'.tail = Clean /\ OpsOf(file'.lines) = storage'[g].applied
    <3>1. \A o \in Ops : call[o].by = g => ~Writing(o)
      BY <1>1, <1>4, <1>5, <2>1 DEF Writing
    <3> QED  BY <1>1, <1>4, <1>5, <2>1, <3>1 DEF Sound, InStep
  <2>2. ASSUME NEW o \in Ops
        PROVE  /\ call'[o].at = "part" =>
                    /\ call'[o].clean
                    /\ file'.tail \in {Torn, LineOf(o)'}
                    /\ OpsOf(file'.lines) = storage'[call'[o].by].applied
               /\ call'[o].at \in {"written", "synced"} =>
                    /\ file'.tail = Clean
                    /\ OpsOf(file'.lines) = Append(storage'[call'[o].by].applied, o)
               /\ call'[o].at = "synced" => synced' = Len(file'.lines)
    <3>1. CASE Writing(o)'
      <4>1. call'[o] = call[o] /\ call[o].by \in Handles
        BY <1>1, <1>4, <1>5, <3>1 DEF Sound, HoldsLock, Writing
      <4>2. storage'[call'[o].by].applied = storage[call[o].by].applied
        BY <1>4, <1>5, <4>1
      <4>3. LineOf(o)' = LineOf(o) /\ file' = file /\ synced' = synced
        BY <1>1, <4>1 DEF LineOf
      <4> QED  BY <4>1, <4>2, <4>3 DEF Sound, InStep
    <3> QED  BY <3>1 DEF Writing
  <2> QED  BY <2>1, <2>2 DEF InStep
<1>12. LoadsCurrent'
  BY <1>1, <1>2, <1>3, <1>4 DEF Sound, StorageTypes, OneInUse, HoldsLock, LoadsCurrent,
     Active, InThread
<1> QED  BY <1>6, <1>7, <1>8, <1>9, <1>10, <1>11, <1>12 DEF Sound

LEMMA ReturnKeeps ==
  ASSUME Sound, ~disturbed', NEW op \in Ops, Return(op)
  PROVE  Sound'
<1>1. /\ file' = file /\ inode' = inode /\ synced' = synced /\ acked' = acked \cup {op}
      /\ call[op].at = "synced"
  BY DEF Return
<1>2. PICK h \in Handles : /\ call[op].by = h /\ storage[h].phase = "open" /\ storage[h].queue # <<>>
                          /\ Head(storage[h].queue) = op
  BY <1>1 DEF Sound, HoldsLock, Active, InThread
<1>3. /\ storage' \in [Handles -> StorageRecord]
      /\ \A g \in Handles : g # h => storage'[g] = storage[g]
      /\ storage'[h].phase = storage[h].phase
      /\ storage'[h].applied = Append(storage[h].applied, op)
      /\ storage'[h].queue = Tail(storage[h].queue)
      /\ storage'[h].seen = storage[h].seen
  BY <1>1, <1>2 DEF Return, Sound, StorageTypes, StorageRecord
<1>4. /\ call' \in [Ops -> CallRecord]
      /\ \A o \in Ops : o # op => call'[o] = call[o]
      /\ call'[op].at = "returned"
      /\ call'[op].by = call[op].by
      /\ call'[op].seq = call[op].seq
      /\ call'[op].inode = call[op].inode
      /\ call'[op].clean = call[op].clean
      /\ call'[op].awaited = call[op].awaited
  BY <1>1 DEF Return, Sound, StorageTypes, CallRecord, Places, InThread
<1>5. \A o \in Ops : call'[o].at \notin InThread \cup {"synced", "failed"}
  BY <1>1, <1>4, OneActive DEF Active, InThread
<1>6. file.tail = Clean /\ OpsOf(file.lines) = storage'[h].applied
  BY <1>1, <1>2, <1>3 DEF Sound, InStep
<1>7. StorageTypes'
  BY <1>1, <1>3, <1>4 DEF Sound, StorageTypes
<1>8. OneInUse'
  BY <1>1, <1>2, <1>3, <1>5, <1>6 DEF Sound, StorageTypes, OneInUse
<1>9. HoldsLock'
  BY <1>1, <1>2, <1>3, <1>4, <1>5, <1>6 DEF Sound, StorageTypes, OneInUse, HoldsLock,
     Active, InThread
<1>10. UpToDate'
  BY <1>1, <1>2, <1>3, <1>4, <1>5, <1>6 DEF Sound, StorageTypes, OneInUse, HoldsLock,
     UpToDate, Active, InThread, OnPath
<1>11. FileSound'
  BY <1>1, <1>2, <1>5, <1>6 DEF Sound, StorageTypes, FileSound
<1>12. InStep'
  BY <1>1, <1>2, <1>3, <1>4, <1>5, <1>6 DEF Sound, StorageTypes, OneInUse, HoldsLock,
     InStep, Active, Writing, InThread, LineOf
<1>13. LoadsCurrent'
  BY <1>1, <1>2, <1>3, <1>5, <1>6 DEF Sound, StorageTypes, OneInUse, HoldsLock,
     LoadsCurrent, Active, InThread
<1> QED  BY <1>7, <1>8, <1>9, <1>10, <1>11, <1>12, <1>13 DEF Sound

LEMMA WritePartKeeps ==
  ASSUME Sound, ~disturbed', NEW op \in Ops, WritePart(op)
  PROVE  Sound'
<1>1. /\ inode' = inode /\ synced' = synced /\ acked' = acked /\ storage' = storage
      /\ call[op].at = "open" /\ OnPath(op)
  BY DEF WritePart
<1>2. PICK h \in Handles : /\ call[op].by = h /\ storage[h].phase = "open" /\ storage[h].queue # <<>>
                          /\ Head(storage[h].queue) = op
  BY <1>1 DEF Sound, HoldsLock, Active, InThread
<1>3. \A o \in Ops : Active(o) => o = op
  BY <1>1, OneActive DEF Active, InThread
<1>4. file.tail = Clean /\ OpsOf(file.lines) = storage[h].applied
  BY <1>1, <1>2, <1>3 DEF Sound, InStep, Active, Writing, InThread
<1>5. LineOf(op) = Line(op, Len(file.lines) + 1)
  BY <1>1, <1>2, <1>4, OpsOfSeq DEF Sound, UpToDate, FileSound, SoundContents, InThread,
     LineOf
<1>6. file'.lines = file.lines /\ file'.tail \in {Torn, LineOf(op)} /\ SoundContents(file)'
  BY <1>1, <1>4, <1>5, LineIsLine DEF WritePart, AppendPart, Content, Sound, FileSound,
     SoundContents, Contents
<1>7. /\ call' \in [Ops -> CallRecord]
      /\ \A o \in Ops : o # op => call'[o] = call[o]
      /\ call'[op].at = "part"
      /\ call'[op].by = call[op].by
      /\ call'[op].seq = call[op].seq
      /\ call'[op].inode = call[op].inode
      /\ call'[op].clean = TRUE
      /\ call'[op].awaited = call[op].awaited
  BY <1>1, <1>4 DEF WritePart, Sound, StorageTypes, CallRecord, Places, InThread
<1>8. /\ \A g \in Handles : storage'[g].phase = "open" => call'[op].by = g
      /\ \A o \in Ops : Writing(o)' => o = op
  BY <1>1, <1>2, <1>3, <1>7 DEF Sound, OneInUse, HoldsLock, Active, Writing, InThread
<1>9. StorageTypes'
  BY <1>1, <1>6, <1>7 DEF Sound, StorageTypes
<1>10. OneInUse'
  BY <1>1, <1>2, <1>3, <1>4, <1>5, <1>6, <1>8 DEF Sound, StorageTypes, OneInUse
<1>11. HoldsLock'
  BY <1>1, <1>2, <1>3, <1>4, <1>5, <1>6, <1>7, <1>8 DEF Sound, StorageTypes, OneInUse,
     HoldsLock, Active, InThread
<1>12. UpToDate'
  BY <1>1, <1>7 DEF Sound, UpToDate, OnPath, InThread
<1>13. FileSound'
  BY <1>1, <1>2, <1>3, <1>4, <1>5, <1>6, <1>8 DEF Sound, StorageTypes, FileSound
<1>14. InStep'
  BY <1>1, <1>2, <1>4, <1>6, <1>7, <1>8 DEF Sound, InStep, Writing, LineOf
<1>15. LoadsCurrent'
  BY <1>1, <1>2, <1>3, <1>4, <1>5, <1>6, <1>8 DEF Sound, StorageTypes, OneInUse, HoldsLock,
     LoadsCurrent, Active, InThread
<1> QED  BY <1>9, <1>10, <1>11, <1>12, <1>13, <1>14, <1>15 DEF Sound

LEMMA WriteAllKeeps ==
  ASSUME Sound, ~disturbed', NEW op \in Ops, WriteAll(op)
  PROVE  Sound'
<1>1. /\ inode' = inode /\ synced' = synced /\ acked' = acked /\ storage' = storage
      /\ call[op].at \in {"open", "part"} /\ OnPath(op)
  BY DEF WriteAll, Sound, UpToDate
<1>2. PICK h \in Handles : /\ call[op].by = h /\ storage[h].phase = "open" /\ storage[h].queue # <<>>
                          /\ Head(storage[h].queue) = op
  BY <1>1 DEF Sound, HoldsLock, Active, InThread
<1>3. \A o \in Ops : Active(o) => o = op
  BY <1>1, OneActive DEF Active, InThread
<1>4. /\ OpsOf(file.lines) = storage[h].applied
      /\ call[op].at = "open" => file.tail = Clean
      /\ call[op].at = "part" => call[op].clean /\ file.tail \in {Torn, LineOf(op)}
  BY <1>1, <1>2, <1>3 DEF Sound, InStep, Active, Writing, InThread
<1>5. LineOf(op) = Line(op, Len(file.lines) + 1)
  BY <1>1, <1>2, <1>4, OpsOfSeq DEF Sound, UpToDate, FileSound, SoundContents, InThread,
     LineOf
<1>6. file' = Longer(file, op)
  BY <1>1, <1>4, <1>5 DEF Longer, WriteAll, AppendLine, FinishLine
<1>7. /\ file'.tail = Clean /\ SoundContents(file') /\ Len(file'.lines) = Len(file.lines) + 1
      /\ OpsOf(file'.lines) = Append(storage[h].applied, op)
  BY <1>4, <1>6, LongerSound DEF Sound, FileSound
<1>8. /\ call' \in [Ops -> CallRecord]
      /\ \A o \in Ops : o # op => call'[o] = call[o]
      /\ call'[op].at = "written"
      /\ call'[op].by = call[op].by
      /\ call'[op].seq = call[op].seq
      /\ call'[op].inode = call[op].inode
      /\ call'[op].clean = call[op].clean
      /\ call'[op].awaited = call[op].awaited
  BY <1>1 DEF WriteAll, Sound, StorageTypes, CallRecord, Places, InThread
<1>9. /\ \A g \in Handles : storage'[g].phase = "open" => call'[op].by = g
      /\ \A o \in Ops : Writing(o)' => o = op
  BY <1>1, <1>2, <1>3, <1>8 DEF Sound, OneInUse, HoldsLock, Active, Writing, InThread
<1>10. StorageTypes'
  BY <1>1, <1>6, <1>7, <1>8 DEF Sound, StorageTypes
<1>11. OneInUse'
  BY <1>1, <1>2, <1>3, <1>4, <1>5, <1>6, <1>7, <1>9 DEF Sound, StorageTypes, OneInUse
<1>12. HoldsLock'
  BY <1>1, <1>2, <1>3, <1>4, <1>5, <1>6, <1>7, <1>8, <1>9 DEF Sound, StorageTypes, OneInUse,
     HoldsLock, Active, InThread
<1>13. UpToDate'
  BY <1>1, <1>8 DEF Sound, UpToDate, OnPath, InThread
<1>14. FileSound'
  BY <1>1, <1>2, <1>3, <1>4, <1>5, <1>6, <1>7, <1>9 DEF Sound, StorageTypes, FileSound
<1>15. InStep'
  <2>1. \A g \in Handles : storage'[g].phase = "open" => call'[op].by = g /\ Writing(op)'
    BY <1>8, <1>9 DEF Writing
  <2>2. \A o \in Ops : call'[o].at \in {"part", "written", "synced"} => o = op
    BY <1>9 DEF Writing
  <2> QED  BY <1>1, <1>2, <1>7, <1>8, <2>1, <2>2 DEF InStep
<1>16. LoadsCurrent'
  BY <1>1, <1>2, <1>3, <1>4, <1>5, <1>6, <1>7, <1>9 DEF Sound, StorageTypes, OneInUse,
     HoldsLock, LoadsCurrent, Active, InThread
<1> QED  BY <1>10, <1>11, <1>12, <1>13, <1>14, <1>15, <1>16 DEF Sound

LEMMA CrashKeeps ==
  ASSUME Sound, ~disturbed', NEW h \in Handles, Crash(h)
  PROVE  Sound'
<1>1. /\ file' = file /\ inode' = inode /\ synced' = synced /\ acked' = acked
      /\ storage[h].phase # "closed"
  BY DEF Crash
<1>2. Kill({h}) /\ \A g \in Handles : storage[g].phase # "closed" => g \in {h}
  BY <1>1 DEF Crash, Sound, OneInUse
<1>3. /\ storage' \in [Handles -> StorageRecord] /\ call' \in [Ops -> CallRecord]
      /\ \A g \in Handles : storage'[g].phase = "closed" /\ storage'[g].queue = <<>>
      /\ \A o \in Ops : \/ call'[o] = call[o] /\ ~Active(o)
                        \/ call'[o].at = "died" /\ call'[o].by = call[o].by /\ call[o].at \notin {"new", "returned"}
  BY <1>2, KillEnds
<1>4. \A o \in Ops : call'[o].at \notin InThread \cup {"synced", "failed"}
  BY <1>3 DEF Active, InThread
<1>5. StorageTypes'
  BY <1>1, <1>3 DEF Sound, StorageTypes
<1>6. OneInUse'
  BY <1>1, <1>2, <1>3, <1>4 DEF Sound, StorageTypes, OneInUse
<1>7. HoldsLock'
  BY <1>1, <1>2, <1>3, <1>4 DEF Sound, StorageTypes, OneInUse, HoldsLock, Active, InThread
<1>8. UpToDate'
  BY <1>1, <1>2, <1>3, <1>4 DEF Sound, StorageTypes, OneInUse, HoldsLock, UpToDate, Active,
     InThread, OnPath
<1>9. FileSound'
  BY <1>1, <1>2, <1>4 DEF Sound, StorageTypes, FileSound
<1>10. InStep'
  BY <1>1, <1>2, <1>3, <1>4 DEF Sound, StorageTypes, OneInUse, HoldsLock, InStep, Active,
     Writing, InThread, LineOf
<1>11. LoadsCurrent'
  BY <1>1, <1>2, <1>3, <1>4 DEF Sound, StorageTypes, OneInUse, HoldsLock, LoadsCurrent,
     Active, InThread
<1> QED  BY <1>5, <1>6, <1>7, <1>8, <1>9, <1>10, <1>11 DEF Sound

LEMMA PowerLossKeeps ==
  ASSUME Sound, ~disturbed', PowerLoss
  PROVE  Sound'
<1>1. /\ inode' = inode /\ acked' = acked /\ file' \in AfterPowerLoss(file, synced)
      /\ synced' = IF synced < Len(file'.lines) THEN synced ELSE Len(file'.lines)
  BY DEF PowerLoss
<1>2. Kill(Handles) /\ \A g \in Handles : storage[g].phase # "closed" => g \in Handles
  BY <1>1 DEF PowerLoss, Sound, OneInUse
<1>3. /\ storage' \in [Handles -> StorageRecord] /\ call' \in [Ops -> CallRecord]
      /\ \A g \in Handles : storage'[g].phase = "closed" /\ storage'[g].queue = <<>>
      /\ \A o \in Ops : \/ call'[o] = call[o] /\ ~Active(o)
                        \/ call'[o].at = "died" /\ call'[o].by = call[o].by /\ call[o].at \notin {"new", "returned"}
  BY <1>2, KillEnds
<1>4. \A o \in Ops : call'[o].at \notin InThread \cup {"synced", "failed"}
  BY <1>3 DEF Active, InThread
<1>5. SoundContents(file') /\ synced' \in Nat /\ synced' <= Len(file'.lines)
  BY <1>1, LostSound DEF Sound, FileSound, StorageTypes
<1>6. StorageTypes'
  BY <1>1, <1>3, <1>5 DEF Sound, StorageTypes
<1>7. OneInUse'
  BY <1>1, <1>2, <1>3, <1>4, <1>5 DEF Sound, StorageTypes, OneInUse
<1>8. HoldsLock'
  BY <1>1, <1>2, <1>3, <1>4, <1>5 DEF Sound, StorageTypes, OneInUse, HoldsLock, Active,
     InThread
<1>9. UpToDate'
  BY <1>1, <1>2, <1>3, <1>4, <1>5 DEF Sound, StorageTypes, OneInUse, HoldsLock, UpToDate,
     Active, InThread, OnPath
<1>10. FileSound'
  BY <1>1, <1>2, <1>4, <1>5 DEF Sound, StorageTypes, FileSound
<1>11. InStep'
  BY <1>1, <1>2, <1>3, <1>4, <1>5 DEF Sound, StorageTypes, OneInUse, HoldsLock, InStep,
     Active, Writing, InThread, LineOf
<1>12. LoadsCurrent'
  BY <1>1, <1>2, <1>3, <1>4, <1>5 DEF Sound, StorageTypes, OneInUse, HoldsLock,
     LoadsCurrent, Active, InThread
<1> QED  BY <1>6, <1>7, <1>8, <1>9, <1>10, <1>11, <1>12 DEF Sound

LEMMA CancelKeeps ==
  ASSUME Sound, ~disturbed', NEW op \in Ops, Cancel(op)
  PROVE  Sound'
<1>1. /\ file' = file /\ inode' = inode /\ synced' = synced /\ acked' = acked
      /\ call[op].at \in {"queued", "failed"} /\ call[op].by \in Handles
  BY DEF Cancel, Sound, HoldsLock, InThread
<1>2. PICK h \in Handles : call[op].by = h
  BY <1>1
<1>3. PICK i \in DOMAIN storage[h].queue :
        /\ storage[h].queue[i] = op
        /\ storage' = [storage EXCEPT ![h].queue = RemoveAt(@, i)]
  BY <1>2 DEF Cancel
<1>4. /\ RemoveAt(storage[h].queue, i) \in Seq(Ops)
      /\ i # 1 => /\ RemoveAt(storage[h].queue, i) # <<>>
                  /\ Head(RemoveAt(storage[h].queue, i)) = Head(storage[h].queue)
  BY RemoveAtShifts DEF Sound, StorageTypes, StorageRecord
<1>5. /\ storage' \in [Handles -> StorageRecord]
      /\ \A g \in Handles : g # h => storage'[g] = storage[g]
      /\ storage'[h].phase = storage[h].phase
      /\ storage'[h].applied = storage[h].applied
      /\ storage'[h].queue = RemoveAt(storage[h].queue, i)
      /\ storage'[h].seen = storage[h].seen
  BY <1>3, <1>4 DEF Sound, StorageTypes, StorageRecord
<1>6. /\ call' \in [Ops -> CallRecord]
      /\ \A o \in Ops : o # op => call'[o] = call[o]
      /\ call'[op].at = "abandoned"
      /\ call'[op].by = call[op].by
      /\ call'[op].seq = call[op].seq
      /\ call'[op].inode = call[op].inode
      /\ call'[op].clean = call[op].clean
      /\ call'[op].awaited = FALSE
  BY <1>1 DEF Cancel, Sound, StorageTypes, CallRecord, Places, InThread
<1>7. storage[h].queue # <<>> /\ (i = 1 => op = Head(storage[h].queue)) /\ storage[h].phase = "open"
  BY <1>3 DEF OneInUse, Sound, StorageTypes, StorageRecord
<1>8. \A o \in Ops : Active(o) /\ o # op /\ call[o].by = h => i # 1
  BY <1>7 DEF Sound, HoldsLock
<1>9. StorageTypes'
  BY <1>1, <1>5, <1>6 DEF Sound, StorageTypes
<1>10. OneInUse'
  BY <1>1, <1>2, <1>3, <1>4, <1>5, <1>7, <1>8 DEF Sound, StorageTypes, OneInUse
<1>11. HoldsLock'
  BY <1>1, <1>2, <1>3, <1>4, <1>5, <1>6, <1>7, <1>8 DEF Sound, StorageTypes, OneInUse,
     HoldsLock, Active, InThread
<1>12. UpToDate'
  <2>1. \A o \in Ops : call'[o].at \in InThread => call'[o] = call[o] /\ call[o].by \in Handles
    BY <1>6 DEF Sound, HoldsLock, InThread
  <2>2. \A o \in Ops : call'[o].at \in InThread =>
           storage'[call'[o].by].applied = storage[call[o].by].applied
    BY <1>5, <2>1
  <2> QED  BY <1>1, <2>1, <2>2 DEF Sound, UpToDate, OnPath, InThread
<1>13. FileSound'
  BY <1>1, <1>2, <1>3, <1>4, <1>7, <1>8 DEF Sound, StorageTypes, FileSound
<1>14. InStep'
  <2>1. ASSUME NEW g \in Handles, storage'[g].phase = "open",
               \A o \in Ops : call'[o].by = g => ~Writing(o)'
        PROVE  file'.tail = Clean /\ OpsOf(file'.lines) = storage'[g].applied
    <3>1. \A o \in Ops : call[o].by = g => ~Writing(o)
      BY <1>1, <1>5, <1>6, <2>1 DEF Writing
    <3> QED  BY <1>1, <1>5, <1>6, <2>1, <3>1 DEF Sound, InStep
  <2>2. ASSUME NEW o \in Ops
        PROVE  /\ call'[o].at = "part" =>
                    /\ call'[o].clean
                    /\ file'.tail \in {Torn, LineOf(o)'}
                    /\ OpsOf(file'.lines) = storage'[call'[o].by].applied
               /\ call'[o].at \in {"written", "synced"} =>
                    /\ file'.tail = Clean
                    /\ OpsOf(file'.lines) = Append(storage'[call'[o].by].applied, o)
               /\ call'[o].at = "synced" => synced' = Len(file'.lines)
    <3>1. CASE Writing(o)'
      <4>1. call'[o] = call[o] /\ call[o].by \in Handles
        BY <1>1, <1>5, <1>6, <3>1 DEF Sound, HoldsLock, Writing
      <4>2. storage'[call'[o].by].applied = storage[call[o].by].applied
        BY <1>5, <1>6, <4>1
      <4>3. LineOf(o)' = LineOf(o) /\ file' = file /\ synced' = synced
        BY <1>1, <4>1 DEF LineOf
      <4> QED  BY <4>1, <4>2, <4>3 DEF Sound, InStep
    <3> QED  BY <3>1 DEF Writing
  <2> QED  BY <2>1, <2>2 DEF InStep
<1>15. LoadsCurrent'
  BY <1>1, <1>2, <1>3, <1>4, <1>5, <1>7, <1>8 DEF Sound, StorageTypes, OneInUse, HoldsLock,
     LoadsCurrent, Active, InThread
<1> QED  BY <1>9, <1>10, <1>11, <1>12, <1>13, <1>14, <1>15 DEF Sound

-----------------------------------------------------------------------------
(* What one step does to what a load restores and what is acknowledged: it *)
(* keeps both, writes one operation, acknowledges the last, or loses what  *)
(* was never synced.                                                       *)

KeepsLog ==
  /\ Recovered(file)' = Recovered(file) /\ acked' = acked
  /\ synced' >= synced \/ synced' = Len(Recovered(file))

WritesLog ==
  \E op \in Ops \ acked :
    /\ Recovered(file)' = Append(Recovered(file), op)
    /\ acked' = acked /\ synced' = synced

AcksLog ==
  \E op \in Ops \ acked :
    /\ Recovered(file)' = Recovered(file) /\ acked' = acked \cup {op}
    /\ Len(Recovered(file)) > 0 /\ Recovered(file)[Len(Recovered(file))] = op
    /\ synced = Len(Recovered(file)) /\ synced' = synced

LosesLog ==
  \E k \in synced..Len(Recovered(file)) :
    /\ Recovered(file)' = SubSeq(Recovered(file), 1, k)
    /\ acked' = acked /\ synced' = synced

LogStep == KeepsLog \/ WritesLog \/ AcksLog \/ LosesLog

LEMMA SoundStep ==
  ASSUME Sound, ~disturbed', [Next]_vars
  PROVE  Sound'
<1>1. CASE UNCHANGED <<file, temp, inode, synced, storage, call, acked>>
  <2>1. StorageTypes' /\ OneInUse' /\ FileSound'
    BY <1>1 DEF Sound, StorageTypes, OneInUse, FileSound
  <2>2. HoldsLock' /\ UpToDate'
    BY <1>1 DEF Sound, HoldsLock, UpToDate, Active, OnPath
  <2>3. InStep' /\ LoadsCurrent'
    BY <1>1 DEF Sound, InStep, LoadsCurrent, Writing, LineOf
  <2> QED  BY <2>1, <2>2, <2>3 DEF Sound
<1>2. ASSUME NEW h \in Handles, Load(h) \/ Drop(h) \/ Crash(h) PROVE Sound'
  <2>1. ~RejectInvalid(h)
    BY SoundLoads DEF RejectInvalid, Sound, LoadsCurrent, FileSound
  <2> QED  BY <1>2, <2>1, ReadFileKeeps, OpenIntactKeeps, TerminateKeeps, StageKeeps,
              PublishKeeps, DropKeeps, CrashKeeps DEF Load
<1>3. ASSUME NEW h \in Handles, NEW op \in Ops, Enqueue(h, op) PROVE Sound'
  BY <1>3, EnqueueKeeps
<1>4. ASSUME NEW op \in Ops, Thread(op) PROVE Sound'
  <2>1. ~WriteFails(op)
    BY DEF WriteFails
  <2> QED  BY <1>4, <2>1, LockAndOpenKeeps, LockTimeoutKeeps, WritePartKeeps, WriteAllKeeps,
              FsyncKeeps DEF Thread
<1>5. ASSUME NEW op \in Ops, Task(op) \/ Cancel(op) PROVE Sound'
  BY <1>5, SubmitKeeps, ReturnKeeps, RaiseKeeps, CancelKeeps DEF Task
<1>6. CASE PowerLoss
  BY <1>6, PowerLossKeeps
<1> QED  BY <1>1, <1>2, <1>3, <1>4, <1>5, <1>6 DEF Next, ReclaimStale, vars

LEMMA StaysDisturbed ==
  ASSUME disturbed, [Next]_vars
  PROVE  disturbed'
  BY DEF Next, vars, Load, Thread, Task, ReadFile, OpenIntact, RejectInvalid, TerminateTail,
     StageRepair, PublishRepair, Drop, Crash, Enqueue, LockAndOpen, LockTimeout, WritePart,
     WriteAll, Fsync, WriteFails, Submit, Return, Raise, Cancel, PowerLoss, ReclaimStale

LEMMA StepIsLogStep ==
  ASSUME Sound, ~disturbed', RenameSyncs, [Next]_vars
  PROVE  LogStep
<1>1. /\ SoundContents(file) /\ synced \in Nat /\ Len(file.lines) \in Nat
      /\ file.tail \in {Clean, Torn} => Len(Recovered(file)) = Len(file.lines)
  BY RecoveredSeq DEF Sound, FileSound, StorageTypes
<1>2. CASE file' = file /\ acked' = acked /\ (synced' = synced \/ synced' = Len(file.lines))
  BY <1>1, <1>2 DEF LogStep, KeepsLog, Sound, FileSound
<1>3. ASSUME NEW h \in Handles, Load(h) \/ Drop(h) \/ Crash(h)
      PROVE  LogStep
  <2>1. CASE TerminateTail(h)
    <3>1. LoadOutcome(file) = "unterminated" /\ file' = Terminate(file)
      BY <2>1 DEF TerminateTail, Sound, LoadsCurrent
    <3>2. PICK op \in Ops : file.tail = Line(op, Len(file.lines) + 1)
      BY <1>1, <3>1, SoundLoads DEF SoundContents
    <3>3. file' = Longer(file, op)
      BY <1>1, <3>1, <3>2, LineIsLine, TailsDiffer DEF Longer, Terminate
    <3>4. Recovered(file') = Recovered(file)
      BY <1>1, <3>2, <3>3, LongerSound, SoundRecovered
    <3> QED  BY <1>1, <2>1, <3>4 DEF TerminateTail, LogStep, KeepsLog
  <2>2. CASE PublishRepair(h)
    <3>1. LoadOutcome(file) = "torn" /\ temp = Trimmed(file)
      BY <2>2 DEF PublishRepair, Sound, LoadsCurrent, Trimmed
    <3>2. file.tail = Torn /\ temp # NoFile /\ Recovered(temp) = Recovered(file)
      BY <1>1, <3>1, SoundLoads, SoundRecovered, TrimmedSound, TailsDiffer DEF SoundContents
    <3>3. file' = temp /\ synced' = Len(file.lines) /\ acked' = acked
      BY <1>1, <2>2, <3>1, <3>2, TrimmedSound DEF PublishRepair
    <3> QED  BY <1>1, <3>2, <3>3 DEF LogStep, KeepsLog
  <2>3. CASE ReadFile(h) \/ OpenIntact(h) \/ RejectInvalid(h) \/ StageRepair(h) \/ Drop(h) \/ Crash(h)
    <3>1. file' = file /\ acked' = acked /\ synced' = synced
      BY <2>3 DEF ReadFile, OpenIntact, RejectInvalid, StageRepair, Drop, Crash
    <3> QED  BY <1>2, <3>1
  <2> QED  BY <1>3, <2>1, <2>2, <2>3 DEF Load
<1>4. ASSUME NEW op \in Ops, Thread(op)
      PROVE  LogStep
  <2>1. CASE WritePart(op) \/ WriteAll(op)
    <3>1. /\ call[op].at \in {"open", "part"} /\ OnPath(op) /\ op \notin acked
          /\ acked' = acked /\ synced' = synced
      BY <2>1 DEF WritePart, WriteAll, Sound, HoldsLock, UpToDate
    <3>2. PICK h \in Handles : call[op].by = h /\ storage[h].phase = "open"
      BY <3>1 DEF Sound, HoldsLock, Active, InThread
    <3>3. \A o \in Ops : Active(o) => o = op
      BY <3>1, OneActive DEF Active, InThread
    <3>4. /\ OpsOf(file.lines) = storage[h].applied
          /\ call[op].at = "open" => file.tail = Clean
          /\ call[op].at = "part" => call[op].clean /\ file.tail \in {Torn, LineOf(op)}
      BY <3>1, <3>2, <3>3 DEF Sound, InStep, Active, Writing, InThread
    <3>5. LineOf(op) = Line(op, Len(file.lines) + 1)
      BY <3>1, <3>2, <3>4, OpsOfSeq DEF Sound, UpToDate, FileSound, SoundContents, InThread,
         LineOf
    <3>6. CASE WritePart(op)
      <4>1. file.tail = Clean /\ file'.lines = file.lines /\ file'.tail \in {Torn, LineOf(op)}
        BY <3>4, <3>6 DEF WritePart, AppendPart, Content
      <4>2. SoundContents(file')
        BY <2>1, <3>6, WritePartKeeps DEF Sound, FileSound
      <4>3. Recovered(file) = OpsOf(file.lines)
        BY <1>1, <4>1, SoundRecovered
      <4>4. Recovered(file') \in {OpsOf(file.lines), Append(OpsOf(file.lines), op)}
        BY <3>5, <4>1, <4>2, SoundRecovered
      <4> QED  BY <1>1, <3>1, <4>3, <4>4 DEF LogStep, KeepsLog, WritesLog
    <3>7. CASE WriteAll(op)
      <4>1. file' = Longer(file, op)
        BY <3>1, <3>4, <3>5, <3>7 DEF Longer, WriteAll, AppendLine, FinishLine
      <4>2. Recovered(file') = Append(OpsOf(file.lines), op)
        BY <1>1, <4>1, LongerSound, SoundRecovered
      <4>3. Recovered(file) \in {OpsOf(file.lines), Append(OpsOf(file.lines), op)}
        BY <1>1, <3>1, <3>4, <3>5, SoundRecovered
      <4> QED  BY <1>1, <3>1, <4>2, <4>3 DEF LogStep, KeepsLog, WritesLog
    <3> QED  BY <2>1, <3>6, <3>7
  <2>2. CASE Fsync(op)
    <3>1. file' = file /\ acked' = acked /\ synced' = Len(file.lines)
      BY <2>2 DEF Fsync, Sound, UpToDate
    <3> QED  BY <1>2, <3>1
  <2>3. CASE LockAndOpen(op) \/ LockTimeout(op)
    <3>1. file' = file /\ acked' = acked /\ synced' = synced
      BY <2>3 DEF LockAndOpen, LockTimeout
    <3> QED  BY <1>2, <3>1
  <2>4. ~WriteFails(op)
    BY DEF WriteFails
  <2> QED  BY <1>4, <2>1, <2>2, <2>3, <2>4 DEF Thread
<1>5. ASSUME NEW op \in Ops, Return(op)
      PROVE  LogStep
  <2>1. /\ call[op].at = "synced" /\ op \notin acked
        /\ file' = file /\ synced' = synced /\ acked' = acked \cup {op}
    BY <1>5 DEF Return, Sound, HoldsLock
  <2>2. PICK h \in Handles : call[op].by = h /\ storage[h].applied \in Seq(Ops)
    BY <2>1 DEF Sound, HoldsLock, StorageTypes, StorageRecord
  <2>3. file.tail = Clean /\ OpsOf(file.lines) = Append(storage[h].applied, op) /\ synced = Len(file.lines)
    BY <2>1, <2>2 DEF Sound, InStep
  <2>4. Recovered(file) = Append(storage[h].applied, op) /\ synced = Len(Recovered(file))
    BY <1>1, <2>3, SoundRecovered
  <2>5. Len(Recovered(file)) > 0 /\ Recovered(file)[Len(Recovered(file))] = op
    BY <2>2, <2>4, AppendProperties, LenProperties
  <2> QED  BY <2>1, <2>4, <2>5 DEF LogStep, AcksLog
<1>6. CASE PowerLoss
  <2>1. file' \in AfterPowerLoss(file, synced) /\ acked' = acked
    BY <1>6 DEF PowerLoss
  <2>2. synced \in 0..Len(file.lines)
    BY <1>1 DEF Sound, FileSound
  <2>3. /\ synced <= Len(file'.lines) /\ SoundContents(file')
        /\ \E k \in synced..Len(Recovered(file)) : Recovered(file') = SubSeq(Recovered(file), 1, k)
    BY <1>1, <2>1, <2>2, LostSound
  <2>4. synced' = synced
    BY <1>1, <1>6, <2>3, RecoveredSeq DEF PowerLoss
  <2> QED  BY <2>1, <2>3, <2>4 DEF LogStep, LosesLog
<1>7. CASE \/ \E h \in Handles, op \in Ops : Enqueue(h, op)
           \/ \E op \in Ops : Submit(op) \/ Raise(op) \/ Cancel(op)
           \/ ReclaimStale \/ UNCHANGED vars
  <2>1. file' = file /\ acked' = acked /\ synced' = synced
    BY <1>7 DEF Enqueue, Submit, Raise, Cancel, ReclaimStale, vars
  <2> QED  BY <1>2, <2>1
<1> QED  BY <1>3, <1>4, <1>5, <1>6, <1>7 DEF Next, Task

(* What is acknowledged stays below what is synced.                        *)
LEMMA AckedStaysSynced ==
  ASSUME Sound, AckedSynced, LogStep, synced' \in Nat
  PROVE  AckedSynced'
<1>1. /\ Recovered(file) \in Seq(Ops) /\ Len(Recovered(file)) \in Nat /\ synced \in Nat
      /\ DOMAIN Recovered(file) = 1..Len(Recovered(file))
  BY RecoveredSeq, LenProperties DEF Sound, FileSound, StorageTypes
<1>2. CASE KeepsLog
  BY <1>1, <1>2 DEF KeepsLog, AckedSynced
<1>3. CASE WritesLog
  <2>1. PICK op \in Ops \ acked : /\ Recovered(file)' = Append(Recovered(file), op)
                                  /\ acked' = acked /\ synced' = synced
    BY <1>3 DEF WritesLog
  <2>2. DOMAIN Append(Recovered(file), op) = 1..(Len(Recovered(file)) + 1)
    BY <1>1, <2>1, AppendProperties, LenProperties
  <2>3. \A i \in 1..(Len(Recovered(file)) + 1) :
          Append(Recovered(file), op)[i] = IF i = Len(Recovered(file)) + 1 THEN op ELSE Recovered(file)[i]
    BY <1>1, AppendProperties
  <2> QED  BY <1>1, <2>1, <2>2, <2>3 DEF AckedSynced
<1>4. CASE AcksLog
  BY <1>1, <1>4 DEF AcksLog, AckedSynced
<1>5. CASE LosesLog
  <2>1. PICK k \in synced..Len(Recovered(file)) :
          Recovered(file)' = SubSeq(Recovered(file), 1, k) /\ acked' = acked /\ synced' = synced
    BY <1>5 DEF LosesLog
  <2>2. /\ DOMAIN SubSeq(Recovered(file), 1, k) = 1..k
        /\ \A i \in 1..k : SubSeq(Recovered(file), 1, k)[i] = Recovered(file)[i]
    BY <1>1, <2>1, SubSeqProperties, ElementOfSeq, LenProperties
  <2> QED  BY <1>1, <2>1, <2>2 DEF AckedSynced
<1> QED  BY <1>2, <1>3, <1>4, <1>5 DEF LogStep

(* The greatest of some numbers that end somewhere, by way of the least    *)
(* number that is above them.                                              *)
LEMMA MaxOfSome ==
  ASSUME NEW n \in Nat, NEW A \in SUBSET (0..n), 0 \in A
  PROVE  Max(A) \in A /\ \A a \in A : a <= Max(A)
<1> DEFINE Above == {x \in Nat : \A a \in A : a <= x}
<1>1. Above \subseteq Nat /\ n \in Above
  OBVIOUS
<1>2. PICK x \in Above : \A y \in Above : ~(<<y, x>> \in OpToRel(<, Nat))
  BY <1>1, NatLessThanWellFounded, WFMin
<1>3. \A y \in Above : ~(y < x)
  BY <1>1, <1>2 DEF OpToRel
<1>4. x \in A
  <2>1. SUFFICES ASSUME x \notin A PROVE FALSE
    OBVIOUS
  <2>2. x \in Nat /\ x # 0
    BY <2>1
  <2>3. x - 1 \in Above
    BY <2>1, <2>2
  <2> QED  BY <1>3, <2>2, <2>3
<1>5. \A a \in A : x >= a
  BY <1>1
<1>6. \E m \in A : \A a \in A : m >= a
  BY <1>4, <1>5
<1>7. Max(A) \in A /\ \A a \in A : Max(A) >= a
  BY <1>6 DEF Max
<1> QED  BY <1>7

Covered(log, done) == {0} \cup {i \in DOMAIN log : log[i] \in done}

LEMMA CoveredMax ==
  ASSUME NEW log \in Seq(Ops), NEW done
  PROVE  /\ Max(Covered(log, done)) \in 0..Len(log)
         /\ Max(Covered(log, done)) \in Covered(log, done)
         /\ \A i \in Covered(log, done) : i <= Max(Covered(log, done))
<1>1. DOMAIN log = 1..Len(log) /\ Len(log) \in Nat
  BY LenProperties
<1>2. Covered(log, done) \in SUBSET (0..Len(log)) /\ 0 \in Covered(log, done)
  BY <1>1 DEF Covered
<1>3. /\ Max(Covered(log, done)) \in Covered(log, done)
      /\ \A i \in Covered(log, done) : i <= Max(Covered(log, done))
  BY <1>1, <1>2, MaxOfSome
<1> QED  BY <1>2, <1>3

(* Every such step is one of the log's, or none.                           *)
LEMMA LogStepRefines ==
  ASSUME Sound, AckedSynced, LogStep
  PROVE  Log!Next \/ UNCHANGED Log!vars
<1> DEFINE log == Recovered(file)
<1>1. log \in Seq(Ops) /\ Len(log) \in Nat /\ DOMAIN log = 1..Len(log) /\ synced \in Nat
  BY RecoveredSeq, LenProperties DEF Sound, FileSound, StorageTypes
<1>2. /\ Max(Covered(log, acked)) \in 0..Len(log)
      /\ Max(Covered(log, acked)) \in Covered(log, acked)
  BY <1>1, CoveredMax
<1>3. CASE KeepsLog
  BY <1>3 DEF KeepsLog, Log!vars
<1>4. CASE WritesLog
  <2>1. PICK op \in Ops \ acked : log' = Append(log, op) /\ acked' = acked
    BY <1>4 DEF WritesLog
  <2>2. /\ DOMAIN Append(log, op) = 1..(Len(log) + 1)
        /\ \A i \in 1..(Len(log) + 1) : Append(log, op)[i] = IF i = Len(log) + 1 THEN op ELSE log[i]
    BY <1>1, <2>1, AppendProperties, LenProperties
  <2>3. Covered(Append(log, op), acked) = Covered(log, acked)
    BY <1>1, <2>1, <2>2 DEF Covered
  <2>4. Log!Write(op)
    BY <2>1, <2>3 DEF Log!Write, Covered
  <2> QED  BY <2>1, <2>4 DEF Log!Next
<1>5. CASE AcksLog
  <2>1. PICK op \in Ops \ acked :
          /\ log' = log /\ acked' = acked \cup {op}
          /\ Len(log) > 0 /\ log[Len(log)] = op
    BY <1>5 DEF AcksLog
  <2>2. Len(log) \in Covered(log, acked \cup {op}) /\ Len(log) \notin Covered(log, acked)
    BY <1>1, <2>1 DEF Covered
  <2>3. /\ Max(Covered(log, acked \cup {op})) \in 0..Len(log)
        /\ \A i \in Covered(log, acked \cup {op}) : i <= Max(Covered(log, acked \cup {op}))
    BY <1>1, CoveredMax
  <2>4. Max(Covered(log, acked \cup {op})) \in (Max(Covered(log, acked)) + 1)..Len(log)
    <3> HIDE DEF log
    <3>1. Len(log) <= Max(Covered(log, acked \cup {op}))
      BY <2>2, <2>3
    <3>2. Max(Covered(log, acked)) # Len(log)
      BY <1>2, <2>2
    <3>3. ASSUME NEW n \in Nat, NEW before \in 0..n, NEW after \in 0..n, n <= after, before # n
          PROVE  after \in (before + 1)..n
      BY <3>3
    <3> QED  BY <1>1, <1>2, <2>3, <3>1, <3>2, <3>3
  <2>5. Log!Acknowledge
    BY <2>1, <2>4 DEF Log!Acknowledge, Covered
  <2> QED  BY <2>5 DEF Log!Next
<1>6. CASE LosesLog
  <2>1. PICK k \in synced..Len(log) : log' = SubSeq(log, 1, k) /\ acked' = acked
    BY <1>6 DEF LosesLog
  <2>2. /\ DOMAIN SubSeq(log, 1, k) = 1..k
        /\ \A i \in 1..k : SubSeq(log, 1, k)[i] = log[i]
    BY <1>1, <2>1, SubSeqProperties, ElementOfSeq, LenProperties
  <2>3. \A i \in Covered(log, acked) : i <= synced
    BY <1>1 DEF AckedSynced, Covered
  <2>4. Covered(SubSeq(log, 1, k), acked) = Covered(log, acked)
    BY <1>1, <2>1, <2>2, <2>3 DEF Covered
  <2>5. k \in Max(Covered(log, acked))..Len(log)
    BY <1>1, <1>2, <2>1, <2>3
  <2>6. Log!Lose
    BY <2>1, <2>4, <2>5 DEF Log!Lose, Covered
  <2> QED  BY <2>6 DEF Log!Next
<1> QED  BY <1>3, <1>4, <1>5, <1>6 DEF LogStep

(* However a process with a session of its own is interleaved with crashes,*)
(* power failures and cancelled calls, its storage, its calls and its file *)
(* stay in step.                                                           *)
THEOREM StorageSound == Spec => []StorageInv
<1>1. Init => StorageInv
  BY SoundInit DEF StorageInv
<1>2. StorageInv /\ [Next]_vars => StorageInv'
  BY SoundStep, StaysDisturbed DEF StorageInv
<1> QED  BY <1>1, <1>2, PTL DEF Spec

(* An idle storage of a sole writer has applied what a load would restore. *)
THEOREM StateMatches == Spec => []StateMatchesFile
<1>1. StorageInv => StateMatchesFile
  <2> SUFFICES ASSUME Sound, NEW h \in Handles, storage[h].phase = "open", storage[h].queue = <<>>
               PROVE  storage[h].applied = Recovered(file)
    BY DEF StorageInv, StateMatchesFile
  <2>1. \A op \in Ops : call[op].by = h => ~Writing(op)
    BY DEF Sound, HoldsLock, Active, Writing, InThread
  <2> QED  BY <2>1, SoundRecovered DEF Sound, InStep, FileSound
<1> QED  BY <1>1, StorageSound, PTL

(* Its file can always be loaded again.                                    *)
THEOREM SoleWriterLoads == Spec => [](~disturbed => FileLoads)
<1>1. StorageInv => (~disturbed => FileLoads)
  BY SoundLoads DEF StorageInv, Sound, FileSound, FileLoads
<1> QED  BY <1>1, StorageSound, PTL

(* On a file system that writes a file's data out before its rename, the   *)
(* file of a sole writer implements DurableLog: what was acknowledged      *)
(* survives every crash and power failure and is there on the next load.   *)
THEOREM FileIsDurableLog == ASSUME RenameSyncs PROVE Spec => KeepsDurableLog
<1> DEFINE Inv == ~disturbed => Sound /\ AckedSynced
<1>1. Init => Recovered(file) = <<>> /\ acked = {} /\ Sound
  <2> SUFFICES ASSUME Init PROVE Recovered(file) = <<>> /\ acked = {} /\ Sound
    OBVIOUS
  <2>1. Sound
    BY SoundInit
  <2>2. file.tail = Clean /\ file.lines = <<>>
    BY DEF Init, Content
  <2>3. Recovered(file) = OpsOf(<<>>)
    BY <2>1, <2>2, SoundRecovered DEF Sound, FileSound
  <2> QED  BY <2>1, <2>3 DEF Init, OpsOf
<1>2. Init => Inv
  BY <1>1 DEF AckedSynced
<1>3. Inv /\ [Next]_vars => Inv'
  <2> SUFFICES ASSUME Sound, AckedSynced, [Next]_vars, ~disturbed'
               PROVE  Sound' /\ AckedSynced'
    BY StaysDisturbed
  <2>1. Sound'
    BY SoundStep
  <2> QED  BY <2>1, StepIsLogStep, AckedStaysSynced DEF Sound, StorageTypes
<1>4. Inv /\ [Next]_vars => [disturbed' \/ Log!Next]_(Log!vars)
  BY StaysDisturbed, StepIsLogStep, LogStepRefines
<1>5. Init => Log!Init
  <2> SUFFICES ASSUME Init PROVE Log!Init
    OBVIOUS
  <2>1. Covered(<<>>, {}) \in SUBSET (0..0) /\ 0 \in Covered(<<>>, {})
    BY DEF Covered
  <2>2. Max(Covered(<<>>, {})) = 0
    BY <2>1, MaxOfSome
  <2> QED  BY <1>1, <2>2 DEF Log!Init, Covered
<1> QED  BY <1>2, <1>3, <1>4, <1>5, PTL DEF Spec, KeepsDurableLog
=============================================================================
