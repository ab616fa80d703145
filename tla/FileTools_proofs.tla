-------------------------- MODULE FileTools_proofs --------------------------
(***************************************************************************)
(* Proofs about FileTools for any calls, requests and bounds: mutations of *)
(* one file exclude each other (OneMutationPerFile), the queue forgets a   *)
(* path with its last caller (EntriesFreed), and what a call reported as   *)
(* done is not lost to a concurrent one (NothingLost).                     *)
(***************************************************************************)
EXTENDS FileTools, SequenceTheorems, TLAPS

\* A call that holds or awaits the lock of its entry.
InLine(c) == call[c].pc \in Working \cup {"queued"}

CallRecord == [tool : Tools, path : Paths,
               pc : Working \cup Outcomes \cup {"resolving", "keyed", "queued"},
               key : Paths, missed : BOOLEAN, entry : Calls \cup {None},
               read : SUBSET (Calls \cup {"base"})]

Threads == {"none", "opening", "writing", "refused", "torn", "done"}

QueueTypes ==
  /\ call \in [Calls -> CallRecord]
  /\ state \in [Paths -> Calls \cup {None}]
  /\ waiters \in [Calls -> Nat]
  /\ line \in [Calls -> Seq(Calls)]

FileTypes ==
  /\ exists \in BOOLEAN /\ text \in SUBSET (Calls \cup {"base"})
  /\ thread \in [Calls -> Threads]
  /\ aborted \in BOOLEAN

\* Only a path that led to nothing is its own key. An entry is named by the
\* call that made it, and holds the key of whoever shares it.
KeysAgree ==
  \A c \in Calls :
    /\ call[c].key = "file" \/ (call[c].missed /\ call[c].path = "link")
    /\ call[c].pc = "resolving" => ~call[c].missed
    /\ call[c].pc \in {"resolving", "keyed"} => EntryOf(c) = None
    /\ EntryOf(c) # None => /\ EntryOf(EntryOf(c)) = EntryOf(c)
                            /\ call[EntryOf(c)].key = call[c].key

Holds(s, c) == \E i \in DOMAIN s : s[i] = c
Distinct(s) == \A i, j \in DOMAIN s : s[i] = s[j] => i = j

\* The entry of a key is kept for those in line, who are in its line, once;
\* the one at work is its head.
LinesHold ==
  /\ \A c \in Calls :
       InLine(c) => /\ EntryOf(c) # None
                    /\ state[call[c].key] = EntryOf(c)
                    /\ Holds(line[EntryOf(c)], c)
  /\ \A c \in Calls : AtWork(c) => Head(line[EntryOf(c)]) = c
  /\ \A e \in Calls :
       /\ \A i \in DOMAIN line[e] : InLine(line[e][i]) /\ EntryOf(line[e][i]) = e
       /\ Distinct(line[e])

\* Everybody in a line is counted, and whoever is counted without being in
\* it was cancelled there.
CountsHold ==
  /\ \A e \in Calls :
       /\ waiters[e] >= Len(line[e])
       /\ waiters[e] > Len(line[e]) =>
            \E c \in Calls : call[c].pc = "cancelled" /\ EntryOf(c) = e
  /\ \A k \in Paths :
       state[k] # None =>
         /\ call[state[k]].key = k /\ EntryOf(state[k]) = state[k]
         /\ waiters[state[k]] >= 1

\* A call has no thread before it writes; while it writes it has one.
ThreadsStarted ==
  \A c \in Calls :
    /\ call[c].pc = "writing" => thread[c] # "none"
    /\ thread[c] # "none" => call[c].pc \in Outcomes \cup {"writing"}

QueueInv == QueueTypes /\ KeysAgree /\ LinesHold /\ CountsHold

\* Whatever was reported as done is in a text, or was replaced by a write.
Kept(content) ==
  \A c \in Calls :
    call[c].pc = "ok" =>
      c \in content \/ \E w \in content \ {"base"} : call[w].tool = "write"

\* While nothing disturbs the calls: a thread writes only for the call that
\* awaits it, over what that call has read.
WritesHold ==
  /\ \A c \in Calls :
       /\ thread[c] \in {"opening", "writing"} => call[c].pc = "writing"
       /\ call[c].tool = "edit" /\ call[c].pc \in {"mkdir", "writing"}
            /\ thread[c] \in {"none", "opening"} => call[c].read = text
       /\ thread[c] = "writing" =>
            text = {} /\ (call[c].tool = "edit" => Kept(call[c].read))
       /\ call[c].pc = "writing" /\ thread[c] = "done" => c \in text
  /\ (\A c \in Calls : thread[c] # "writing") => Kept(text)

WritesInv == ~Disturbed => WritesHold

FilesInv == QueueInv /\ FileTypes /\ ThreadsStarted /\ WritesInv

-----------------------------------------------------------------------------
(* Lines: sequences without repetitions, and what is left of one.          *)

\* t is s without its i-th element.
Without(s, t, i) ==
  /\ t \in Seq(Calls) /\ Len(t) = Len(s) - 1
  /\ \A j \in 1..Len(t) : t[j] = s[IF j < i THEN j ELSE j + 1]

LEMMA SeqDomain ==
  ASSUME NEW S, NEW s \in Seq(S)
  PROVE  Len(s) \in Nat /\ DOMAIN s = 1..Len(s) /\ \A i \in DOMAIN s : s[i] \in S
  BY LenProperties, ElementOfSeq

LEMMA TailWithout ==
  ASSUME NEW s \in Seq(Calls), s # <<>>
  PROVE  Without(s, Tail(s), 1)
<1>1. /\ Tail(s) \in Seq(Calls) /\ Len(Tail(s)) = Len(s) - 1
      /\ \A j \in 1..Len(Tail(s)) : Tail(s)[j] = s[j + 1]
  BY HeadTailProperties, LenProperties
<1>2. \A j \in 1..Len(Tail(s)) : ~(j < 1)
  OBVIOUS
<1> QED  BY <1>1, <1>2 DEF Without

LEMMA RemoveAtWithout ==
  ASSUME NEW s \in Seq(Calls), NEW i \in DOMAIN s
  PROVE  Without(s, RemoveAt(s, i), i)
<1> DEFINE a == SubSeq(s, 1, i - 1)
           b == SubSeq(s, i + 1, Len(s))
<1>1. Len(s) \in Nat /\ i \in 1..Len(s) /\ \A j \in 1..Len(s) : s[j] \in Calls
  BY SeqDomain
<1>2. /\ a \in Seq(Calls) /\ Len(a) = i - 1 /\ \A j \in 1..(i - 1) : a[j] = s[j]
  BY <1>1, SubSeqProperties
<1>3. /\ b \in Seq(Calls) /\ Len(b) = Len(s) - i
      /\ \A j \in 1..(Len(s) - i) : b[j] = s[i + j]
  BY <1>1, SubSeqProperties
<1>4. RemoveAt(s, i) = a \o b
  BY DEF RemoveAt
<1> HIDE DEF a, b
<1>5. /\ a \o b \in Seq(Calls) /\ Len(a \o b) = Len(a) + Len(b)
      /\ \A j \in 1..(Len(a) + Len(b)) :
           (a \o b)[j] = IF j <= Len(a) THEN a[j] ELSE b[j - Len(a)]
  BY <1>2, <1>3, ConcatProperties
<1>6. Len(a \o b) = Len(s) - 1
  BY <1>1, <1>2, <1>3, <1>5
<1>7. ASSUME NEW j \in 1..(Len(s) - 1)
      PROVE  (a \o b)[j] = s[IF j < i THEN j ELSE j + 1]
  <2>1. CASE j < i
    <3>1. j \in 1..(i - 1) /\ j <= Len(a) /\ j \in 1..(Len(a) + Len(b))
      BY <1>1, <1>2, <1>3, <2>1
    <3> QED  BY <1>2, <1>5, <2>1, <3>1
  <2>2. CASE ~(j < i)
    <3>1. /\ ~(j <= Len(a)) /\ j \in 1..(Len(a) + Len(b))
          /\ j - Len(a) \in 1..(Len(s) - i) /\ i + (j - Len(a)) = j + 1
      <4>1. Len(a) = i - 1 /\ Len(b) = Len(s) - i /\ Len(s) \in Nat /\ i \in 1..Len(s)
        BY <1>1, <1>2, <1>3
      <4>2. \A n, k, l \in Nat :
              k \in 1..n /\ l \in 1..(n - 1) /\ ~(l < k) =>
                /\ ~(l <= k - 1) /\ l \in 1..((k - 1) + (n - k))
                /\ l - (k - 1) \in 1..(n - k) /\ k + (l - (k - 1)) = l + 1
        OBVIOUS
      <4>3. Len(s) \in Nat /\ i \in Nat /\ j \in Nat /\ i \in 1..Len(s) /\ j \in 1..(Len(s) - 1)
        BY <4>1
      <4>4. /\ ~(j <= i - 1) /\ j \in 1..((i - 1) + (Len(s) - i))
            /\ j - (i - 1) \in 1..(Len(s) - i) /\ i + (j - (i - 1)) = j + 1
        BY <2>2, <4>2, <4>3
      <4> QED  BY <4>1, <4>4
    <3> QED  BY <1>3, <1>5, <2>2, <3>1
  <2> QED  BY <2>1, <2>2
<1> QED  BY <1>5, <1>6, <1>7, <1>4 DEF Without

LEMMA WithoutKeeps ==
  ASSUME NEW s \in Seq(Calls), NEW t, NEW i \in DOMAIN s, Without(s, t, i), Distinct(s)
  PROVE  /\ Distinct(t)
         /\ \A j \in DOMAIN t : t[j] # s[i] /\ Holds(s, t[j])
         /\ \A c \in Calls : Holds(s, c) /\ c # s[i] => Holds(t, c)
         /\ i # 1 => Head(t) = Head(s)
<1> DEFINE Old(j) == IF j < i THEN j ELSE j + 1
<1>1. /\ Len(s) \in Nat /\ DOMAIN s = 1..Len(s) /\ i \in 1..Len(s)
      /\ Len(t) \in Nat /\ DOMAIN t = 1..Len(t) /\ Len(t) = Len(s) - 1
  BY SeqDomain DEF Without
<1>2. \A j \in DOMAIN t : Old(j) \in DOMAIN s /\ Old(j) # i /\ t[j] = s[Old(j)]
  BY <1>1 DEF Without
<1>3. \A j, k \in DOMAIN t : Old(j) = Old(k) => j = k
  BY <1>1
<1>4. Distinct(t)
  BY <1>2, <1>3 DEF Distinct
<1>5. \A j \in DOMAIN t : t[j] # s[i] /\ Holds(s, t[j])
  BY <1>2 DEF Distinct, Holds
<1>6. ASSUME NEW c \in Calls, Holds(s, c), c # s[i]
      PROVE  Holds(t, c)
  <2>1. PICK m \in DOMAIN s : s[m] = c
    BY <1>6 DEF Holds
  <2>2. PICK j \in 1..Len(t) : Old(j) = m
    <3>1. CASE m < i
      <4>1. m \in 1..Len(t) /\ Old(m) = m
        BY <1>1, <2>1, <3>1
      <4> QED  BY <4>1
    <3>2. CASE ~(m < i)
      <4>1. m - 1 \in 1..Len(t) /\ Old(m - 1) = m
        BY <1>1, <1>6, <2>1, <3>2
      <4> QED  BY <4>1
    <3> QED  BY <3>1, <3>2
  <2> QED  BY <1>1, <1>2, <2>1, <2>2 DEF Holds
<1>7. ASSUME i # 1
      PROVE  Head(t) = Head(s)
  <2>1. 1 \in DOMAIN t /\ Old(1) = 1
    BY <1>1, <1>7
  <2> QED  BY <1>1, <1>2, <2>1, HeadTailProperties, EmptySeq, LenProperties DEF Without
<1> QED  BY <1>4, <1>5, <1>6, <1>7

LEMMA AppendKeeps ==
  ASSUME NEW s \in Seq(Calls), NEW c \in Calls, Distinct(s), ~Holds(s, c)
  PROVE  /\ Append(s, c) \in Seq(Calls) /\ Len(Append(s, c)) = Len(s) + 1
         /\ Distinct(Append(s, c)) /\ Holds(Append(s, c), c)
         /\ \A i \in DOMAIN Append(s, c) : Append(s, c)[i] = c \/ Holds(s, Append(s, c)[i])
         /\ \A d \in Calls : Holds(s, d) => Holds(Append(s, c), d)
         /\ Head(Append(s, c)) = IF s = <<>> THEN c ELSE Head(s)
<1>1. Len(s) \in Nat /\ DOMAIN s = 1..Len(s)
  BY SeqDomain
<1>2. /\ Append(s, c) \in Seq(Calls) /\ Len(Append(s, c)) = Len(s) + 1
      /\ \A i \in 1..Len(s) : Append(s, c)[i] = s[i]
      /\ Append(s, c)[Len(s) + 1] = c
  BY AppendProperties
<1>3. DOMAIN Append(s, c) = 1..(Len(s) + 1)
  BY <1>2, SeqDomain
<1>4. Distinct(Append(s, c))
  BY <1>1, <1>2, <1>3 DEF Distinct, Holds
<1>5. Holds(Append(s, c), c)
  BY <1>1, <1>2, <1>3 DEF Holds
<1>6. \A i \in DOMAIN Append(s, c) : Append(s, c)[i] = c \/ Holds(s, Append(s, c)[i])
  BY <1>1, <1>2, <1>3 DEF Holds
<1>7. \A d \in Calls : Holds(s, d) => Holds(Append(s, c), d)
  BY <1>1, <1>2, <1>3 DEF Holds
<1>8. Head(Append(s, c)) = IF s = <<>> THEN c ELSE Head(s)
  BY HeadTailAppend
<1> QED  BY <1>2, <1>4, <1>5, <1>6, <1>7, <1>8

-----------------------------------------------------------------------------
(* The steps of the queue.                                                 *)

LEMMA CallFields ==
  ASSUME QueueTypes, NEW c \in Calls
  PROVE  /\ call[c] \in CallRecord /\ call[c].tool \in Tools /\ call[c].path \in Paths
         /\ call[c].pc \in Working \cup Outcomes \cup {"resolving", "keyed", "queued"}
         /\ call[c].key \in Paths /\ call[c].missed \in BOOLEAN
         /\ EntryOf(c) \in Calls \cup {None}
         /\ call[c].read \in SUBSET (Calls \cup {"base"})
         /\ line[c] \in Seq(Calls) /\ waiters[c] \in Nat
  BY DEF QueueTypes, CallRecord, EntryOf

\* What a step may do to a call while the lines stay as they are.
Steady(d) ==
  /\ EntryOf(d)' = EntryOf(d)
  /\ EntryOf(d) # None => call'[d].key = call[d].key
  /\ call'[d].key = "file" \/ (call'[d].missed /\ call'[d].path = "link")
  /\ call'[d].pc = "resolving" => ~call'[d].missed
  /\ call'[d].pc \in {"resolving", "keyed"} => call[d].pc \in {"resolving", "keyed"}
  /\ InLine(d)' <=> InLine(d)
  /\ AtWork(d)' => AtWork(d) \/ Head(line[EntryOf(d)]) = d
  /\ call[d].pc = "cancelled" => call'[d].pc = "cancelled"

LEMMA SteadyHolds ==
  ASSUME QueueInv, QueueTypes', UNCHANGED queue, \A d \in Calls : Steady(d)
  PROVE  QueueInv'
<1>0. UNCHANGED <<state, waiters, line>>
  BY DEF queue
<1>1. KeysAgree'
  <2>1. ASSUME NEW c \in Calls, EntryOf(c) # None
        PROVE  /\ call'[EntryOf(c)].entry = EntryOf(c)
               /\ call'[EntryOf(c)].key = call'[c].key
    <3> SUFFICES ASSUME NEW e, e = EntryOf(c)
                 PROVE  call'[e].entry = e /\ call'[e].key = call'[c].key
      OBVIOUS
    <3>1. e \in Calls /\ e # None
      BY <2>1, CallFields DEF QueueInv
    <3>2. EntryOf(e) = e /\ call[e].key = call[c].key
      BY <2>1 DEF QueueInv, KeysAgree
    <3> QED  BY <2>1, <3>1, <3>2 DEF Steady, EntryOf
  <2>2. \A c \in Calls : EntryOf(c)' = EntryOf(c)
    BY DEF Steady
  <2>3. \A c \in Calls : call'[c].pc \in {"resolving", "keyed"} => EntryOf(c) = None
    BY DEF Steady, QueueInv, KeysAgree
  <2> QED  BY <2>1, <2>2, <2>3 DEF KeysAgree, Steady, EntryOf
<1>2. LinesHold'
  <2>1. \A c \in Calls : InLine(c)' => /\ EntryOf(c) # None
                                       /\ state[call'[c].key] = EntryOf(c)
                                       /\ Holds(line[EntryOf(c)], c)
    BY DEF QueueInv, LinesHold, Steady
  <2>2. \A c \in Calls : AtWork(c)' => Head(line[EntryOf(c)]) = c
    BY DEF QueueInv, LinesHold, Steady
  <2>3. ASSUME NEW e \in Calls
        PROVE  \A i \in DOMAIN line[e] :
                 \E d \in Calls : d = line[e][i] /\ InLine(d)' /\ EntryOf(d)' = e
    <3>1. \A i \in DOMAIN line[e] : line[e][i] \in Calls
      BY CallFields, SeqDomain DEF QueueInv
    <3> QED  BY <3>1 DEF QueueInv, LinesHold, Steady
  <2>4. \A e \in Calls : Distinct(line[e])
    BY DEF QueueInv, LinesHold
  <2>5. \A c \in Calls : EntryOf(c)' = EntryOf(c)
    BY DEF Steady
  <2> QED  BY <1>0, <2>1, <2>2, <2>3, <2>4, <2>5 DEF LinesHold, Holds, Distinct
<1>3. CountsHold'
  <2>1. ASSUME NEW e \in Calls, waiters[e] > Len(line[e])
        PROVE  \E c \in Calls : call'[c].pc = "cancelled" /\ EntryOf(c)' = e
    BY <2>1 DEF QueueInv, CountsHold, Steady
  <2>2. ASSUME NEW k \in Paths, state[k] # None
        PROVE  /\ call'[state[k]].key = k /\ call'[state[k]].entry = state[k]
               /\ waiters[state[k]] >= 1
    <3> SUFFICES ASSUME NEW e, e = state[k]
                 PROVE  call'[e].key = k /\ call'[e].entry = e /\ waiters[e] >= 1
      OBVIOUS
    <3>1. e \in Calls /\ e # None
      BY <2>2 DEF QueueInv, QueueTypes
    <3>2. call[e].key = k /\ EntryOf(e) = e /\ waiters[e] >= 1
      BY <2>2 DEF QueueInv, CountsHold
    <3> QED  BY <3>1, <3>2 DEF Steady, EntryOf
  <2>3. \A e \in Calls : waiters[e] >= Len(line[e])
    BY DEF QueueInv, CountsHold
  <2> QED  BY <1>0, <2>1, <2>2, <2>3 DEF CountsHold, EntryOf
<1> QED  BY <1>1, <1>2, <1>3 DEF QueueInv

LEMMA InLineCounted ==
  ASSUME QueueInv, NEW c \in Calls, InLine(c)
  PROVE  /\ EntryOf(c) \in Calls /\ line[EntryOf(c)] # <<>>
         /\ waiters[EntryOf(c)] \in Nat \ {0}
<1>1. EntryOf(c) \in Calls
  BY CallFields DEF QueueInv, LinesHold
<1>2. PICK i \in DOMAIN line[EntryOf(c)] : line[EntryOf(c)][i] = c
  BY DEF QueueInv, LinesHold, Holds
<1>3. line[EntryOf(c)] \in Seq(Calls) /\ waiters[EntryOf(c)] \in Nat
  BY <1>1, CallFields DEF QueueInv
<1>4. Len(line[EntryOf(c)]) >= 1 /\ Len(line[EntryOf(c)]) \in Nat
  BY <1>2, <1>3, SeqDomain
<1> QED  BY <1>1, <1>3, <1>4, EmptySeq DEF QueueInv, CountsHold

\* One call ends and its place in its line goes with it.
EndsAt(c, i, outcome) ==
  LET e == EntryOf(c) IN
  /\ outcome \in Outcomes /\ Moves(c, outcome)
  /\ i \in DOMAIN line[e] /\ line[e][i] = c
  /\ Without(line[e], line'[e], i)
  /\ \A d \in Calls \ {e} : line'[d] = line[d]

LEMMA EndTypes ==
  ASSUME QueueInv, NEW c \in Calls, InLine(c), NEW i, NEW outcome, EndsAt(c, i, outcome)
  PROVE  /\ call' \in [Calls -> CallRecord]
         /\ \A d \in Calls : /\ call'[d].key = call[d].key /\ call'[d].entry = call[d].entry
                             /\ call'[d].path = call[d].path /\ call'[d].missed = call[d].missed
                             /\ call'[d].tool = call[d].tool /\ call'[d].read = call[d].read
                             /\ call'[d].pc = IF d = c THEN outcome ELSE call[d].pc
<1>1. \A d \in Calls : call[d] \in CallRecord
  BY DEF QueueInv, QueueTypes
<1>2. [call[c] EXCEPT !.pc = outcome] \in CallRecord
  BY <1>1 DEF CallRecord, EndsAt
<1>3. /\ call' \in [Calls -> CallRecord]
      /\ \A d \in Calls : call'[d] = IF d = c THEN [call[c] EXCEPT !.pc = outcome] ELSE call[d]
  BY <1>1, <1>2 DEF EndsAt, Moves, QueueInv, QueueTypes
<1> QED  BY <1>1, <1>3 DEF CallRecord

LEMMA EndKeepsLines ==
  ASSUME QueueInv, NEW c \in Calls, InLine(c), NEW i, NEW outcome, EndsAt(c, i, outcome),
         \A d \in Calls \ {c} : InLine(d) => state'[call[d].key] = state[call[d].key]
  PROVE  KeysAgree' /\ LinesHold'
<1> SUFFICES ASSUME NEW e, e = EntryOf(c)
             PROVE  KeysAgree' /\ LinesHold'
  OBVIOUS
<1>1. /\ \A d \in Calls : /\ call'[d].key = call[d].key /\ call'[d].entry = call[d].entry
                          /\ call'[d].path = call[d].path /\ call'[d].missed = call[d].missed
                          /\ call'[d].pc = IF d = c THEN outcome ELSE call[d].pc
      /\ outcome \in Outcomes
  BY EndTypes DEF EndsAt
<1>2. \A d \in Calls : InLine(d)' => d # c /\ InLine(d)
  BY <1>1 DEF InLine, Working, Outcomes
<1>3. \A d \in Calls : AtWork(d)' => d # c /\ AtWork(d)
  BY <1>1 DEF AtWork, Working, Outcomes
<1>4. e \in Calls /\ line[e] \in Seq(Calls) /\ Distinct(line[e]) /\ i \in DOMAIN line[e] /\ line[e][i] = c
  BY InLineCounted, CallFields DEF QueueInv, LinesHold, EndsAt
<1>5. /\ Distinct(line'[e])
      /\ \A j \in DOMAIN line'[e] : line'[e][j] # c /\ Holds(line[e], line'[e][j])
      /\ \A d \in Calls : Holds(line[e], d) /\ d # c => Holds(line'[e], d)
      /\ i # 1 => Head(line'[e]) = Head(line[e])
  BY <1>4, WithoutKeeps DEF EndsAt
<1>6. \A d \in Calls \ {e} : line'[d] = line[d]
  BY DEF EndsAt
<1>7. KeysAgree'
  <2>1. \A d \in Calls : call[d].entry # None => call[d].entry \in Calls
    BY CallFields DEF QueueInv, EntryOf
  <2>2. \A d \in Calls : call'[d].pc \in {"resolving", "keyed"} => call'[d].pc = call[d].pc
    BY <1>1 DEF Outcomes
  <2>3. \A d \in Calls :
          /\ call[d].key = "file" \/ (call[d].missed /\ call[d].path = "link")
          /\ call[d].pc = "resolving" => ~call[d].missed
          /\ call[d].pc \in {"resolving", "keyed"} => call[d].entry = None
          /\ call[d].entry # None => /\ call[call[d].entry].entry = call[d].entry
                                     /\ call[call[d].entry].key = call[d].key
    BY DEF QueueInv, KeysAgree, EntryOf
  <2> QED  BY <1>1, <2>1, <2>2, <2>3 DEF KeysAgree, EntryOf
<1>8. LinesHold'
  <2>1. ASSUME NEW d \in Calls, InLine(d)'
        PROVE  /\ call'[d].entry # None
               /\ state'[call'[d].key] = call'[d].entry
               /\ Holds(line'[call'[d].entry], d)
    <3> SUFFICES ASSUME NEW f, f = EntryOf(d)
                 PROVE  f # None /\ state'[call[d].key] = f /\ Holds(line'[f], d)
      BY <1>1 DEF EntryOf
    <3>1. f # None /\ f \in Calls /\ state[call[d].key] = f /\ Holds(line[f], d) /\ d # c
      BY <1>2, <2>1, CallFields DEF QueueInv, LinesHold
    <3> QED  BY <1>2, <1>5, <1>6, <2>1, <3>1
  <2>2. ASSUME NEW d \in Calls, AtWork(d)'
        PROVE  Head(line'[call'[d].entry]) = d
    <3> SUFFICES ASSUME NEW f, f = EntryOf(d)
                 PROVE  Head(line'[f]) = d
      BY <1>1 DEF EntryOf
    <3>1. d # c /\ AtWork(d) /\ InLine(d)
      BY <1>3, <2>2 DEF AtWork, InLine
    <3>2. f \in Calls /\ Head(line[f]) = d /\ line[f] # <<>>
      BY <3>1, InLineCounted DEF QueueInv, LinesHold
    <3>3. f = e => i # 1
      <4>1. line[f][1] = d
        BY <3>2, CallFields, HeadTailProperties, EmptySeq DEF QueueInv
      <4> QED  BY <1>4, <3>1, <4>1
    <3> QED  BY <1>5, <1>6, <3>2, <3>3
  <2>3. ASSUME NEW f \in Calls, NEW j \in DOMAIN line'[f]
        PROVE  \E d \in Calls : d = line'[f][j] /\ InLine(d)' /\ call'[d].entry = f
    <3>1. \E d \in Calls : d = line'[f][j] /\ d # c /\ InLine(d) /\ EntryOf(d) = f
      <4>1. CASE f = e
        <5>1. line'[e][j] # c /\ Holds(line[e], line'[e][j])
          BY <1>5, <2>3, <4>1
        <5>2. PICK m \in DOMAIN line[e] : line[e][m] = line'[e][j]
          BY <5>1 DEF Holds
        <5>3. line[e][m] \in Calls /\ InLine(line[e][m]) /\ EntryOf(line[e][m]) = e
          BY <1>4, SeqDomain DEF QueueInv, LinesHold
        <5> QED  BY <4>1, <5>1, <5>2, <5>3
      <4>2. CASE f # e
        <5>1. line'[f] = line[f]
          BY <1>6, <4>2
        <5>2. line[f][j] \in Calls /\ InLine(line[f][j]) /\ EntryOf(line[f][j]) = f
          BY <2>3, <5>1, CallFields, SeqDomain DEF QueueInv, LinesHold
        <5>3. line[f][j] # c
          BY <4>2, <5>2
        <5> QED  BY <5>1, <5>2, <5>3
      <4> QED  BY <4>1, <4>2
    <3> QED  BY <1>1, <3>1 DEF InLine, EntryOf
  <2>4. \A f \in Calls : Distinct(line'[f])
    BY <1>5, <1>6 DEF QueueInv, LinesHold
  <2> QED  BY <2>1, <2>2, <2>3, <2>4 DEF LinesHold, EntryOf, Holds, Distinct
<1> QED  BY <1>7, <1>8

\* The last count drops the entry, unless it was never given back.
GivesBack(c) ==
  LET left == waiters[EntryOf(c)] - 1
  IN /\ waiters' = [waiters EXCEPT ![EntryOf(c)] = left]
     /\ state' = [state EXCEPT ![call[c].key] =
                    IF left = 0 /\ @ = EntryOf(c) THEN None ELSE @]

KeepsCount(outcome) == UNCHANGED <<state, waiters>> /\ outcome = "cancelled"

LEMMA EndHolds ==
  ASSUME QueueInv, NEW c \in Calls, InLine(c), NEW i, NEW outcome, EndsAt(c, i, outcome),
         line' \in [Calls -> Seq(Calls)],
         GivesBack(c) \/ KeepsCount(outcome)
  PROVE  QueueInv'
<1> SUFFICES ASSUME NEW e, e = EntryOf(c)
             PROVE  QueueInv'
  OBVIOUS
<1>1. /\ \A d \in Calls : /\ call'[d].key = call[d].key /\ call'[d].entry = call[d].entry
                          /\ call'[d].pc = IF d = c THEN outcome ELSE call[d].pc
      /\ call' \in [Calls -> CallRecord]
      /\ outcome \in Outcomes
  <2>1. outcome \in Outcomes
    BY DEF EndsAt
  <2> QED  BY <2>1, EndTypes
<1>2. /\ e \in Calls /\ line[e] \in Seq(Calls) /\ line'[e] \in Seq(Calls)
      /\ waiters[e] \in Nat \ {0} /\ Len(line'[e]) = Len(line[e]) - 1
      /\ Len(line[e]) \in Nat /\ Len(line[e]) <= waiters[e]
  BY InLineCounted, CallFields, LenProperties DEF QueueInv, CountsHold, EndsAt, Without
<1>3. \A k \in Paths : state[k] \in Calls \cup {None}
  BY DEF QueueInv, QueueTypes
<1>4. call[c].key \in Paths /\ state[call[c].key] = e /\ e # None
  BY CallFields DEF QueueInv, LinesHold
<1>5. state' \in [Paths -> Calls \cup {None}] /\ waiters' \in [Calls -> Nat]
  <2>1. CASE GivesBack(c)
    <3>1. waiters[e] - 1 \in Nat /\ waiters' = [waiters EXCEPT ![e] = waiters[e] - 1]
      BY <1>2, <2>1 DEF GivesBack
    <3>2. PICK s \in Calls \cup {None} : state' = [state EXCEPT ![call[c].key] = s]
      BY <1>2, <1>4, <2>1 DEF GivesBack, QueueInv, QueueTypes
    <3> QED  BY <3>1, <3>2 DEF QueueInv, QueueTypes
  <2>2. CASE KeepsCount(outcome)
    BY <2>2 DEF KeepsCount, QueueInv, QueueTypes
  <2> QED  BY <2>1, <2>2
<1>6. \/ /\ waiters'[e] = waiters[e] - 1
         /\ \A f \in Calls \ {e} : waiters'[f] = waiters[f]
         /\ \A k \in Paths : k # call[c].key => state'[k] = state[k]
         /\ state'[call[c].key] = IF waiters[e] = 1 THEN None ELSE e
      \/ UNCHANGED <<state, waiters>> /\ outcome = "cancelled"
  <2>1. CASE GivesBack(c)
    <3>1. /\ waiters' = [waiters EXCEPT ![e] = waiters[e] - 1]
          /\ state' = [state EXCEPT ![call[c].key] =
                         IF waiters[e] - 1 = 0 /\ @ = e THEN None ELSE @]
      BY <2>1 DEF GivesBack
    <3>2. waiters[e] - 1 = 0 <=> waiters[e] = 1
      BY <1>2
    <3>3. state'[call[c].key] = IF waiters[e] = 1 THEN None ELSE e
      BY <1>4, <3>1, <3>2 DEF QueueInv, QueueTypes
    <3>4. /\ \A k \in Paths : k # call[c].key => state'[k] = state[k]
          /\ waiters'[e] = waiters[e] - 1
          /\ \A f \in Calls \ {e} : waiters'[f] = waiters[f]
      BY <1>2, <3>1 DEF QueueInv, QueueTypes
    <3> QED  BY <3>3, <3>4
  <2> QED  BY <2>1 DEF KeepsCount
<1>7. ASSUME NEW d \in Calls \ {c}, InLine(d)
      PROVE  state'[call[d].key] = state[call[d].key]
  <2>1. call[d].key \in Paths /\ state[call[d].key] = EntryOf(d) /\ Holds(line[EntryOf(d)], d)
    BY <1>7, CallFields DEF QueueInv, LinesHold
  <2>2. ASSUME call[d].key = call[c].key
        PROVE  waiters[e] # 1
    <3>1. Holds(line[e], d)
      BY <1>4, <2>1, <2>2
    <3>2. PICK m \in DOMAIN line[e] : line[e][m] = d
      BY <3>1 DEF Holds
    <3>3. i \in DOMAIN line[e] /\ line[e][i] = c
      BY DEF EndsAt
    <3>4. m \in 1..Len(line[e]) /\ i \in 1..Len(line[e]) /\ m # i
      BY <1>2, <1>7, <3>2, <3>3, SeqDomain
    <3>5. \A n \in Nat : m \in 1..n /\ i \in 1..n /\ m # i => n > 1
      OBVIOUS
    <3>6. Len(line[e]) > 1
      BY <1>2, <3>4, <3>5
    <3> QED  BY <1>2, <3>6
  <2> QED  BY <1>4, <1>6, <2>1, <2>2
<1>8. KeysAgree' /\ LinesHold'
  BY <1>7, EndKeepsLines
<1>9. CountsHold'
  <2>1. \A f \in Calls : f # e => line'[f] = line[f] /\ waiters'[f] = waiters[f]
    BY <1>6 DEF EndsAt
  <2>2. \A d \in Calls : call[d].pc = "cancelled" => call'[d].pc = "cancelled"
    BY <1>1 DEF InLine, Working
  <2>3. ASSUME NEW f \in Calls
        PROVE  /\ waiters'[f] >= Len(line'[f])
               /\ waiters'[f] > Len(line'[f]) =>
                    \E d \in Calls : call'[d].pc = "cancelled" /\ call'[d].entry = f
    <3>1. /\ waiters[f] >= Len(line[f])
          /\ waiters[f] > Len(line[f]) =>
               \E d \in Calls : call[d].pc = "cancelled" /\ call[d].entry = f
      BY DEF QueueInv, CountsHold, EntryOf
    <3>2. CASE f # e
      BY <1>1, <2>1, <2>2, <3>1, <3>2
    <3>3. CASE f = e
      <4>1. CASE outcome = "cancelled"
        <5>1. waiters'[e] >= Len(line'[e])
          BY <1>2, <1>6
        <5> QED  BY <1>1, <3>3, <4>1, <5>1 DEF EntryOf
      <4>2. CASE waiters'[e] = waiters[e] - 1
        <5>1. waiters'[e] >= Len(line'[e]) /\ (waiters'[e] > Len(line'[e]) => waiters[e] > Len(line[e]))
          BY <1>2, <4>2
        <5> QED  BY <1>1, <2>2, <3>1, <3>3, <5>1
      <4> QED  BY <1>6, <4>1, <4>2
    <3> QED  BY <3>2, <3>3
  <2>4. ASSUME NEW k \in Paths, state'[k] # None
        PROVE  /\ call'[state'[k]].key = k /\ call'[state'[k]].entry = state'[k]
               /\ waiters'[state'[k]] >= 1
    <3> SUFFICES ASSUME NEW f, f = state'[k]
                 PROVE  call'[f].key = k /\ call'[f].entry = f /\ waiters'[f] >= 1
      OBVIOUS
    <3>1. f = state[k] /\ (f = e => waiters'[e] >= 1)
      <4>1. CASE k = call[c].key
        BY <1>2, <1>4, <1>6, <2>4, <4>1
      <4>2. CASE k # call[c].key
        <5>1. state[k] = f
          BY <1>6, <4>2
        <5>2. f = e => call[e].key = k /\ call[e].key = call[c].key
          BY <1>4, <2>4, <5>1 DEF QueueInv, CountsHold, KeysAgree
        <5> QED  BY <4>2, <5>1, <5>2
      <4> QED  BY <4>1, <4>2
    <3>2. f \in Calls /\ call[f].key = k /\ call[f].entry = f /\ waiters[f] >= 1
      BY <1>3, <2>4, <3>1 DEF QueueInv, CountsHold, EntryOf
    <3> QED  BY <1>1, <2>1, <3>1, <3>2
  <2> QED  BY <2>3, <2>4 DEF CountsHold, EntryOf
<1> QED  BY <1>1, <1>5, <1>8, <1>9 DEF QueueInv, QueueTypes

LEMMA LeaveHolds ==
  ASSUME QueueInv, NEW c \in Calls, InLine(c), Head(line[EntryOf(c)]) = c,
         NEW outcome \in Outcomes, Leave(c, outcome)
  PROVE  QueueInv' /\ EndsAt(c, 1, outcome)
<1> SUFFICES ASSUME NEW e, e = EntryOf(c)
             PROVE  QueueInv' /\ EndsAt(c, 1, outcome)
  OBVIOUS
<1>1. e \in Calls /\ line[e] \in Seq(Calls) /\ line[e] # <<>>
  BY InLineCounted, CallFields DEF QueueInv
<1>2. 1 \in DOMAIN line[e] /\ line[e][1] = c
  BY <1>1, SeqDomain, EmptySeq, HeadTailProperties
<1>3. line' = [line EXCEPT ![e] = Tail(line[e])] /\ Moves(c, outcome) /\ GivesBack(c)
  BY DEF Leave, GivesBack
<1>4. Without(line[e], Tail(line[e]), 1)
  BY <1>1, TailWithout
<1>5. line' \in [Calls -> Seq(Calls)] /\ line'[e] = Tail(line[e]) /\ \A d \in Calls \ {e} : line'[d] = line[d]
  BY <1>1, <1>3, <1>4 DEF Without, QueueInv, QueueTypes
<1>6. EndsAt(c, 1, outcome)
  BY <1>2, <1>3, <1>4, <1>5 DEF EndsAt
<1> QED  BY <1>3, <1>5, <1>6, EndHolds

LEMMA LeaveQueueHolds ==
  ASSUME QueueInv, NEW c \in Calls, InLine(c), Moves(c, "cancelled"), UNCHANGED <<state, waiters>>,
         NEW i \in DOMAIN line[EntryOf(c)], line[EntryOf(c)][i] = c,
         line' = [line EXCEPT ![EntryOf(c)] = RemoveAt(@, i)]
  PROVE  QueueInv' /\ EndsAt(c, i, "cancelled")
<1> SUFFICES ASSUME NEW e, e = EntryOf(c)
             PROVE  QueueInv' /\ EndsAt(c, i, "cancelled")
  OBVIOUS
<1>1. e \in Calls /\ line[e] \in Seq(Calls)
  BY InLineCounted, CallFields DEF QueueInv
<1>2. Without(line[e], RemoveAt(line[e], i), i)
  BY <1>1, RemoveAtWithout
<1>3. /\ line' \in [Calls -> Seq(Calls)] /\ line'[e] = RemoveAt(line[e], i)
      /\ \A d \in Calls \ {e} : line'[d] = line[d]
  BY <1>1, <1>2 DEF Without, QueueInv, QueueTypes
<1>4. EndsAt(c, i, "cancelled")
  BY <1>2, <1>3 DEF EndsAt, Outcomes
<1> QED  BY <1>3, <1>4, EndHolds DEF KeepsCount

\* A call joins the line of the entry of its key, which it makes if need be.
Joins(c, e, pc) ==
  /\ call[c].pc = "keyed" /\ pc \in Working \cup {"queued"}
  /\ e = IF state[call[c].key] = None THEN c ELSE state[call[c].key]
  /\ pc # "queued" => line[e] = <<>>
  /\ call' = [call EXCEPT ![c].pc = pc, ![c].entry = e]
  /\ state' = [state EXCEPT ![call[c].key] = e]
  /\ waiters' = [waiters EXCEPT ![e] = @ + 1]
  /\ line' = [line EXCEPT ![e] = Append(@, c)]

LEMMA JoinHolds ==
  ASSUME QueueInv, NEW c \in Calls, NEW e, NEW pc, Joins(c, e, pc)
  PROVE  QueueInv'
<1>1. /\ \A d \in Calls : call[d] \in CallRecord
      /\ call[c].key \in Paths /\ EntryOf(c) = None /\ ~InLine(c)
      /\ pc \in Working \cup {"queued"} /\ (pc # "queued" => line[e] = <<>>)
      /\ call[c].pc = "keyed"
  BY CallFields DEF QueueInv, KeysAgree, InLine, Working, Joins
<1>2. e \in Calls
  BY <1>1 DEF QueueInv, QueueTypes, Joins
<1>3. /\ call' \in [Calls -> CallRecord]
      /\ call'[c].entry = e /\ call'[c].pc = pc
      /\ call'[c].key = call[c].key /\ call'[c].path = call[c].path /\ call'[c].missed = call[c].missed
      /\ \A d \in Calls \ {c} : call'[d] = call[d]
  <2>0. \A r \in CallRecord, p \in Working \cup {"queued"}, f \in Calls :
          [r EXCEPT !.pc = p, !.entry = f] \in CallRecord
    BY DEF CallRecord
  <2>1. call[c] \in CallRecord /\ [call[c] EXCEPT !.pc = pc, !.entry = e] \in CallRecord
    BY <1>1, <1>2, <2>0
  <2>2. call' = [call EXCEPT ![c] = [call[c] EXCEPT !.pc = pc, !.entry = e]]
    BY DEF Joins
  <2>3. /\ call' \in [Calls -> CallRecord] /\ call'[c] = [call[c] EXCEPT !.pc = pc, !.entry = e]
        /\ \A d \in Calls \ {c} : call'[d] = call[d]
    BY <2>1, <2>2 DEF QueueInv, QueueTypes
  <2> QED  BY <2>1, <2>3 DEF CallRecord
<1>4. /\ state' \in [Paths -> Calls \cup {None}] /\ state'[call[c].key] = e
      /\ \A k \in Paths : k # call[c].key => state'[k] = state[k]
  BY <1>1, <1>2 DEF QueueInv, QueueTypes, Joins
<1>5. /\ waiters' \in [Calls -> Nat] /\ waiters'[e] = waiters[e] + 1
      /\ \A f \in Calls \ {e} : waiters'[f] = waiters[f]
      /\ \A f \in Calls : waiters[f] \in Nat
  <2>1. waiters \in [Calls -> Nat] /\ waiters[e] + 1 \in Nat
    BY <1>2 DEF QueueInv, QueueTypes
  <2>2. waiters' = [waiters EXCEPT ![e] = waiters[e] + 1]
    BY DEF Joins
  <2> QED  BY <1>2, <2>1, <2>2
<1>6. /\ line[e] \in Seq(Calls) /\ Distinct(line[e]) /\ ~Holds(line[e], c)
      /\ line'[e] = Append(line[e], c) /\ \A f \in Calls \ {e} : line'[f] = line[f]
  <2>1. line[e] \in Seq(Calls) /\ Distinct(line[e]) /\ ~Holds(line[e], c)
    BY <1>1, <1>2, CallFields DEF QueueInv, LinesHold, Holds
  <2>2. line'[e] = Append(line[e], c) /\ \A f \in Calls \ {e} : line'[f] = line[f]
    BY <1>2 DEF QueueInv, QueueTypes, Joins
  <2> QED  BY <2>1, <2>2
<1>7. /\ line'[e] \in Seq(Calls) /\ Len(line'[e]) = Len(line[e]) + 1
      /\ Distinct(line'[e]) /\ Holds(line'[e], c)
      /\ \A i \in DOMAIN line'[e] : line'[e][i] = c \/ Holds(line[e], line'[e][i])
      /\ \A d \in Calls : Holds(line[e], d) => Holds(line'[e], d)
      /\ Head(line'[e]) = IF line[e] = <<>> THEN c ELSE Head(line[e])
  <2> SUFFICES ASSUME NEW s, s = line[e], NEW t, t = line'[e]
               PROVE  /\ t \in Seq(Calls) /\ Len(t) = Len(s) + 1
                      /\ Distinct(t) /\ Holds(t, c)
                      /\ \A i \in DOMAIN t : t[i] = c \/ Holds(s, t[i])
                      /\ \A d \in Calls : Holds(s, d) => Holds(t, d)
                      /\ Head(t) = IF s = <<>> THEN c ELSE Head(s)
    OBVIOUS
  <2>1. s \in Seq(Calls) /\ Distinct(s) /\ ~Holds(s, c) /\ t = Append(s, c)
    BY <1>6
  <2> QED  BY <2>1, AppendKeeps
<1>8. QueueTypes'
  <2>1. line' = [line EXCEPT ![e] = Append(line[e], c)] /\ Append(line[e], c) \in Seq(Calls)
    BY <1>6, <1>7 DEF Joins
  <2>2. line' \in [Calls -> Seq(Calls)]
    BY <1>2, <2>1 DEF QueueInv, QueueTypes
  <2> QED  BY <1>3, <1>4, <1>5, <2>2 DEF QueueTypes
<1>9. e # c => EntryOf(e) = e /\ call[e].key = call[c].key /\ state[call[c].key] = e
  BY <1>1, <1>2 DEF QueueInv, CountsHold, Joins
<1>10. \A d \in Calls : EntryOf(d) # None => EntryOf(d) # c /\ EntryOf(d) \in Calls
  BY <1>1, CallFields DEF QueueInv, KeysAgree
<1>11. KeysAgree'
  <2>1. ASSUME NEW d \in Calls
        PROVE  /\ call'[d].key = "file" \/ (call'[d].missed /\ call'[d].path = "link")
               /\ call'[d].pc = "resolving" => ~call'[d].missed
               /\ call'[d].pc \in {"resolving", "keyed"} => call'[d].entry = None
    BY <1>1, <1>3 DEF QueueInv, KeysAgree, EntryOf, Working
  <2>2. ASSUME NEW d \in Calls, call'[d].entry # None
        PROVE  call'[call'[d].entry].entry = call'[d].entry /\ call'[call'[d].entry].key = call'[d].key
    <3> SUFFICES ASSUME NEW f, f = call'[d].entry
                 PROVE  call'[f].entry = f /\ call'[f].key = call'[d].key
      OBVIOUS
    <3>1. CASE d = c
      BY <1>2, <1>3, <1>9, <3>1 DEF EntryOf
    <3>2. CASE d # c
      <4>1. f = EntryOf(d) /\ f # None /\ f \in Calls \ {c}
        BY <1>3, <1>10, <2>2, <3>2 DEF EntryOf
      <4>2. EntryOf(f) = f /\ call[f].key = call[d].key
        BY <4>1 DEF QueueInv, KeysAgree
      <4> QED  BY <1>3, <3>2, <4>1, <4>2 DEF EntryOf
    <3> QED  BY <3>1, <3>2
  <2> QED  BY <2>1, <2>2 DEF KeysAgree, EntryOf
<1>12. LinesHold'
  <2>1. \A d \in Calls \ {c} : (InLine(d)' <=> InLine(d)) /\ (AtWork(d)' <=> AtWork(d)) /\ call'[d].entry = EntryOf(d)
    BY <1>3 DEF InLine, AtWork, EntryOf
  <2>2. ASSUME NEW d \in Calls, InLine(d)'
        PROVE  /\ call'[d].entry # None
               /\ state'[call'[d].key] = call'[d].entry
               /\ Holds(line'[call'[d].entry], d)
    <3>1. CASE d = c
      BY <1>2, <1>3, <1>4, <1>7, <3>1, FilesAssumption
    <3>2. CASE d # c
      <4> SUFFICES ASSUME NEW f, f = EntryOf(d)
                   PROVE  f # None /\ state'[call[d].key] = f /\ Holds(line'[f], d)
        BY <1>3, <3>2 DEF EntryOf
      <4>1. /\ f # None /\ f \in Calls /\ state[call[d].key] = f /\ Holds(line[f], d)
            /\ call[d].key \in Paths
        BY <2>1, <2>2, <3>2, CallFields DEF QueueInv, LinesHold
      <4>2. call[d].key = call[c].key => e = f
        BY <4>1 DEF Joins
      <4> QED  BY <1>4, <1>6, <1>7, <4>1, <4>2
    <3> QED  BY <3>1, <3>2
  <2>3. ASSUME NEW d \in Calls, AtWork(d)'
        PROVE  Head(line'[call'[d].entry]) = d
    <3>1. CASE d = c
      BY <1>1, <1>3, <1>7, <2>3, <3>1 DEF AtWork, Working
    <3>2. CASE d # c
      <4> SUFFICES ASSUME NEW f, f = EntryOf(d)
                   PROVE  Head(line'[f]) = d
        BY <1>3, <3>2 DEF EntryOf
      <4>1. f \in Calls /\ Head(line[f]) = d /\ line[f] # <<>>
        BY <2>1, <2>3, <3>2, InLineCounted DEF QueueInv, LinesHold, AtWork, InLine
      <4> QED  BY <1>6, <1>7, <4>1
    <3> QED  BY <3>1, <3>2
  <2>4. ASSUME NEW f \in Calls, NEW j \in DOMAIN line'[f]
        PROVE  \E d \in Calls : d = line'[f][j] /\ InLine(d)' /\ call'[d].entry = f
    <3>1. InLine(c)'
      BY <1>1, <1>3 DEF InLine
    <3>2. \A m \in DOMAIN line[f] :
            /\ line[f][m] \in Calls \ {c}
            /\ InLine(line[f][m]) /\ EntryOf(line[f][m]) = f
      BY <1>1, CallFields, SeqDomain DEF QueueInv, LinesHold
    <3>3. \A m \in DOMAIN line[f] :
            \E d \in Calls : d = line[f][m] /\ InLine(d)' /\ call'[d].entry = f
      BY <2>1, <3>2
    <3>4. CASE f = e
      <4>1. line'[e][j] = c \/ \E m \in DOMAIN line[e] : line[e][m] = line'[e][j]
        BY <1>7, <2>4, <3>4 DEF Holds
      <4> QED  BY <1>3, <3>1, <3>3, <3>4, <4>1
    <3>5. CASE f # e
      BY <1>6, <2>4, <3>3, <3>5
    <3> QED  BY <3>4, <3>5
  <2>5. \A f \in Calls : Distinct(line'[f])
    BY <1>6, <1>7 DEF QueueInv, LinesHold
  <2> QED  BY <2>2, <2>3, <2>4, <2>5 DEF LinesHold, EntryOf, Holds, Distinct
<1>13. CountsHold'
  <2>1. Len(line[e]) \in Nat /\ waiters[e] >= Len(line[e])
    BY <1>2, <1>6, LenProperties DEF QueueInv, CountsHold
  <2>2. ASSUME NEW f \in Calls
        PROVE  /\ waiters'[f] >= Len(line'[f])
               /\ waiters'[f] > Len(line'[f]) => waiters[f] > Len(line[f])
    <3>1. CASE f = e
      BY <1>5, <1>7, <2>1, <3>1
    <3>2. CASE f # e
      BY <1>5, <1>6, <3>2 DEF QueueInv, CountsHold
    <3> QED  BY <3>1, <3>2
  <2>3. ASSUME NEW f \in Calls, waiters[f] > Len(line[f])
        PROVE  \E d \in Calls : call'[d].pc = "cancelled" /\ call'[d].entry = f
    <3>1. PICK d \in Calls : call[d].pc = "cancelled" /\ EntryOf(d) = f
      BY <2>3 DEF QueueInv, CountsHold
    <3> QED  BY <1>1, <1>3, <3>1 DEF EntryOf
  <2>4. ASSUME NEW k \in Paths, state'[k] # None
        PROVE  /\ call'[state'[k]].key = k /\ call'[state'[k]].entry = state'[k]
               /\ waiters'[state'[k]] >= 1
    <3> SUFFICES ASSUME NEW f, f = state'[k]
                 PROVE  call'[f].key = k /\ call'[f].entry = f /\ waiters'[f] >= 1
      OBVIOUS
    <3>1. CASE k = call[c].key
      <4>1. f = e /\ waiters'[e] >= 1
        BY <1>2, <1>4, <1>5, <3>1
      <4> QED  BY <1>2, <1>3, <1>9, <3>1, <4>1 DEF EntryOf
    <3>2. CASE k # call[c].key
      <4>1. f \in Calls /\ call[f].key = k /\ EntryOf(f) = f /\ f # None /\ waiters[f] >= 1
        BY <1>4, <2>4, <3>2 DEF QueueInv, QueueTypes, CountsHold
      <4>2. f # c /\ waiters'[f] >= 1
        BY <1>5, <1>10, <4>1
      <4> QED  BY <1>3, <4>1, <4>2 DEF EntryOf
    <3> QED  BY <3>1, <3>2
  <2> QED  BY <2>2, <2>3, <2>4 DEF CountsHold, EntryOf
<1> QED  BY <1>8, <1>11, <1>12, <1>13 DEF QueueInv

\* A call goes on to pc with what it has read; the queue stays as it is.
GoesOn(c, pc, read) ==
  call' = [call EXCEPT ![c].pc = pc, ![c].read = read] /\ UNCHANGED queue

LEMMA GoesOnFields ==
  ASSUME QueueInv, NEW c \in Calls, NEW pc, NEW read \in SUBSET (Calls \cup {"base"}),
         pc \in Working \cup Outcomes \/ pc = call[c].pc, GoesOn(c, pc, read)
  PROVE  /\ call' \in [Calls -> CallRecord]
         /\ call'[c].pc = pc /\ call'[c].read = read
         /\ call'[c].tool = call[c].tool /\ call'[c].path = call[c].path /\ call'[c].key = call[c].key
         /\ call'[c].missed = call[c].missed /\ call'[c].entry = call[c].entry
         /\ \A d \in Calls \ {c} : call'[d] = call[d]
<1>1. \A r \in CallRecord, p \in Working \cup Outcomes \cup {"resolving", "keyed", "queued"} :
        [r EXCEPT !.pc = p, !.read = read] \in CallRecord
  BY DEF CallRecord
<1>2. call[c] \in CallRecord /\ pc \in Working \cup Outcomes \cup {"resolving", "keyed", "queued"}
  BY CallFields DEF QueueInv
<1>3. call' = [call EXCEPT ![c] = [call[c] EXCEPT !.pc = pc, !.read = read]]
  BY DEF GoesOn
<1>4. [call[c] EXCEPT !.pc = pc, !.read = read] \in CallRecord
  BY <1>1, <1>2
<1>5. /\ call' \in [Calls -> CallRecord] /\ call'[c] = [call[c] EXCEPT !.pc = pc, !.read = read]
      /\ \A d \in Calls \ {c} : call'[d] = call[d]
  BY <1>3, <1>4 DEF QueueInv, QueueTypes
<1> QED  BY <1>2, <1>5 DEF CallRecord

LEMMA GoesOnHolds ==
  ASSUME QueueInv, NEW c \in Calls, NEW pc, NEW read \in SUBSET (Calls \cup {"base"}),
         GoesOn(c, pc, read),
         \/ pc = call[c].pc
         \/ pc \in Working /\ InLine(c) /\ Head(line[EntryOf(c)]) = c
         \/ pc \in Outcomes /\ ~InLine(c) /\ ~Over(c)
  PROVE  QueueInv'
<1>1. /\ call' \in [Calls -> CallRecord] /\ call'[c].pc = pc
      /\ call'[c].path = call[c].path /\ call'[c].key = call[c].key
      /\ call'[c].missed = call[c].missed /\ call'[c].entry = call[c].entry
      /\ \A d \in Calls \ {c} : call'[d] = call[d]
  BY GoesOnFields
<1>2. QueueTypes'
  BY <1>1 DEF QueueInv, QueueTypes, GoesOn, queue
<1>3. \A d \in Calls : /\ call[d].key = "file" \/ (call[d].missed /\ call[d].path = "link")
                       /\ call[d].pc = "resolving" => ~call[d].missed
  BY DEF QueueInv, KeysAgree
<1>4. Steady(c)
  BY <1>1, <1>3 DEF Steady, InLine, AtWork, EntryOf, Over, Working, Outcomes
<1>5. \A d \in Calls \ {c} : Steady(d)
  BY <1>1, <1>3 DEF Steady, InLine, AtWork, EntryOf
<1> QED  BY <1>2, <1>4, <1>5, SteadyHolds DEF GoesOn

LEMMA MovesGoOn ==
  ASSUME QueueInv, NEW c \in Calls, NEW pc, Moves(c, pc), UNCHANGED queue
  PROVE  GoesOn(c, pc, call[c].read)
<1>1. call[c] \in CallRecord /\ call \in [Calls -> CallRecord]
  BY CallFields DEF QueueInv, QueueTypes
<1>2. [call[c] EXCEPT !.pc = pc] = [call[c] EXCEPT !.pc = pc, !.read = call[c].read]
  BY <1>1 DEF CallRecord
<1> QED  BY <1>1, <1>2 DEF GoesOn, Moves

-----------------------------------------------------------------------------
(* What a step of one call does to the threads and the text.               *)

\* What disturbs the calls stays.
Lasting(c) ==
  /\ call'[c].path = call[c].path
  /\ call[c].missed => call'[c].missed
  /\ call[c].pc = "cancelled" => call'[c].pc = "cancelled" /\ (thread[c] # "none" => thread'[c] # "none")
  /\ thread[c] = "torn" => thread'[c] = "torn"

\* A step that leaves the text alone, and reports only what has been written.
Calm(c) ==
  /\ call'[c].tool = call[c].tool
  /\ call'[c].pc = "ok" => call[c].pc = "ok" \/ (call[c].pc = "writing" /\ thread[c] = "done")
  /\ thread'[c] \in {"opening", "writing"} => call'[c].pc = "writing"
  /\ call'[c].tool = "edit" /\ call'[c].pc \in {"mkdir", "writing"}
       /\ thread'[c] \in {"none", "opening"} => call'[c].read = text
  /\ thread'[c] = "writing" <=> thread[c] = "writing"
  /\ thread'[c] = "writing" => call'[c].read = call[c].read
  /\ call'[c].pc = "writing" /\ thread'[c] = "done" => call[c].pc = "writing" /\ thread[c] = "done"

Acts(c) ==
  /\ \A d \in Calls \ {c} : call'[d] = call[d] /\ thread'[d] = thread[d]
  /\ Lasting(c)
  /\ call'[c].pc = "writing" => thread'[c] # "none"
  /\ thread'[c] # "none" => call'[c].pc \in Outcomes \cup {"writing"}

LEMMA DisturbedLasts ==
  ASSUME NEW c \in Calls, Acts(c), Disturbed
  PROVE  Disturbed'
<1>1. \A d \in Calls : Lasting(d)
  BY DEF Acts, Lasting
<1> QED  BY <1>1 DEF Disturbed, Lasting

LEMMA OneAtWork ==
  ASSUME QueueInv, ~Disturbed, NEW c \in Calls, AtWork(c), NEW d \in Calls, AtWork(d)
  PROVE  c = d
<1>1. call[c].key = "file" /\ call[d].key = "file"
  BY DEF QueueInv, KeysAgree, Disturbed
<1>2. InLine(c) /\ InLine(d)
  BY DEF AtWork, InLine
<1>3. EntryOf(c) = EntryOf(d)
  BY <1>1, <1>2 DEF QueueInv, LinesHold
<1> QED  BY <1>3 DEF QueueInv, LinesHold

LEMMA ActsThreads ==
  ASSUME ThreadsStarted, NEW c \in Calls, Acts(c)
  PROVE  ThreadsStarted'
  BY DEF Acts, ThreadsStarted

LEMMA CalmHolds ==
  ASSUME FilesInv, NEW c \in Calls, Acts(c), UNCHANGED text, ~Disturbed' => Calm(c)
  PROVE  WritesInv'
<1> SUFFICES ASSUME ~Disturbed' PROVE WritesHold'
  BY DEF WritesInv
<1>1. ~Disturbed /\ WritesHold /\ QueueInv
  BY DisturbedLasts DEF FilesInv, WritesInv
<1>2. \A d \in Calls : Calm(d)
  BY <1>1 DEF Acts, Calm, WritesHold
<1>3. \A d \in Calls : call'[d].pc = "ok" /\ call[d].pc # "ok" => d \in text /\ AtWork(d) /\ thread[d] = "done"
  BY <1>1, <1>2 DEF Calm, WritesHold, AtWork, Working
<1>4. ASSUME NEW content \in SUBSET (Calls \cup {"base"}), Kept(content),
             \A d \in Calls : call'[d].pc = "ok" /\ call[d].pc # "ok" => d \in content
      PROVE  \A d \in Calls :
               call'[d].pc = "ok" =>
                 d \in content \/ \E w \in content \ {"base"} : call'[w].tool = "write"
  BY <1>2, <1>4 DEF Kept, Calm
<1>5. ASSUME NEW d \in Calls, thread'[d] = "writing", call'[d].tool = "edit"
      PROVE  \A o \in Calls :
               call'[o].pc = "ok" =>
                 \/ o \in call'[d].read
                 \/ \E w \in call'[d].read \ {"base"} : call'[w].tool = "write"
  <2>1. /\ thread[d] = "writing" /\ call'[d].read = call[d].read /\ call[d].tool = "edit"
        /\ Kept(call[d].read) /\ call[d].read \in SUBSET (Calls \cup {"base"}) /\ AtWork(d)
    BY <1>1, <1>2, <1>5, CallFields DEF Calm, WritesHold, QueueInv, AtWork, Working
  <2>2. \A o \in Calls : call'[o].pc = "ok" => call[o].pc = "ok"
    BY <1>1, <1>3, <2>1, OneAtWork
  <2> QED  BY <1>4, <2>1, <2>2
<1>6. ASSUME \A d \in Calls : thread'[d] # "writing"
      PROVE  \A o \in Calls :
               call'[o].pc = "ok" =>
                 o \in text \/ \E w \in text \ {"base"} : call'[w].tool = "write"
  <2>1. Kept(text) /\ text \in SUBSET (Calls \cup {"base"})
    BY <1>1, <1>2, <1>6 DEF Calm, WritesHold, FilesInv, FileTypes
  <2> QED  BY <1>3, <1>4, <2>1
<1>7. ASSUME NEW d \in Calls
      PROVE  /\ thread'[d] \in {"opening", "writing"} => call'[d].pc = "writing"
             /\ call'[d].tool = "edit" /\ call'[d].pc \in {"mkdir", "writing"}
                  /\ thread'[d] \in {"none", "opening"} => call'[d].read = text
             /\ thread'[d] = "writing" => text = {}
             /\ call'[d].pc = "writing" /\ thread'[d] = "done" => d \in text
  BY <1>1, <1>2 DEF Calm, WritesHold
<1> QED  BY <1>5, <1>6, <1>7 DEF WritesHold, Kept

\* Ending a call that has no thread at work.
LEMMA EndActs ==
  ASSUME FilesInv, NEW c \in Calls, NEW i, NEW outcome, InLine(c), EndsAt(c, i, outcome),
         UNCHANGED <<text, thread>>, thread[c] \notin {"opening", "writing"},
         outcome = "ok" => thread[c] = "done"
  PROVE  ThreadsStarted' /\ WritesInv'
<1>1. /\ \A d \in Calls : /\ call'[d].path = call[d].path /\ call'[d].missed = call[d].missed
                          /\ call'[d].tool = call[d].tool /\ call'[d].read = call[d].read
                          /\ call'[d].pc = IF d = c THEN outcome ELSE call[d].pc
      /\ \A d \in Calls \ {c} : call'[d] = call[d]
      /\ outcome \in Outcomes
  BY EndTypes DEF FilesInv, QueueInv, QueueTypes, EndsAt, Moves
<1>2. thread[c] # "none" => call[c].pc = "writing"
  BY DEF InLine, Working, Outcomes, FilesInv, ThreadsStarted
<1>3. Acts(c)
  BY <1>1 DEF Acts, Lasting, InLine, Working, Outcomes
<1>4. Calm(c)
  BY <1>1, <1>2 DEF Calm, Outcomes
<1> QED  BY <1>3, <1>4, ActsThreads, CalmHolds DEF FilesInv

LEMMA LeaveStep ==
  ASSUME FilesInv, NEW c \in Calls, NEW outcome \in Outcomes, InLine(c),
         Head(line[EntryOf(c)]) = c, Leave(c, outcome), UNCHANGED <<contents, thread, aborted>>,
         thread[c] \notin {"opening", "writing"}, outcome = "ok" => thread[c] = "done"
  PROVE  FilesInv'
<1>1. QueueInv' /\ EndsAt(c, 1, outcome)
  BY LeaveHolds DEF FilesInv
<1>2. UNCHANGED <<exists, text, thread, aborted>>
  BY DEF contents
<1>3. FileTypes'
  BY <1>2 DEF FilesInv, FileTypes
<1>4. ThreadsStarted' /\ WritesInv'
  BY <1>1, <1>2, EndActs
<1> QED  BY <1>1, <1>3, <1>4 DEF FilesInv

\* The one at the head of its line goes on working.
Proceeds(c, pc, read) ==
  /\ GoesOn(c, pc, read) /\ pc \in Working /\ InLine(c) /\ Head(line[EntryOf(c)]) = c
  /\ thread[c] = "none" /\ UNCHANGED contents
  /\ thread' = [thread EXCEPT ![c] = IF pc = "writing" THEN "opening" ELSE @]
  /\ call[c].tool = "edit" /\ pc \in {"mkdir", "writing"} /\ ~Disturbed => read = text

LEMMA ProceedStep ==
  ASSUME FilesInv, NEW c \in Calls, NEW pc, NEW read \in SUBSET (Calls \cup {"base"}),
         Proceeds(c, pc, read), UNCHANGED aborted
  PROVE  FilesInv'
<1>1. QueueInv' /\ pc \in Working /\ thread[c] = "none" /\ UNCHANGED <<exists, text>>
  BY GoesOnHolds DEF FilesInv, Proceeds, contents
<1>2. /\ call'[c].pc = pc /\ call'[c].read = read
      /\ call'[c].tool = call[c].tool /\ call'[c].path = call[c].path
      /\ call'[c].missed = call[c].missed
      /\ \A d \in Calls \ {c} : call'[d] = call[d]
  BY GoesOnFields DEF FilesInv, Proceeds
<1>3. /\ thread' \in [Calls -> Threads] /\ \A d \in Calls \ {c} : thread'[d] = thread[d]
      /\ thread'[c] = IF pc = "writing" THEN "opening" ELSE "none"
  BY <1>1 DEF FilesInv, FileTypes, Threads, Proceeds
<1>4. FileTypes'
  BY <1>1, <1>3 DEF FilesInv, FileTypes
<1>5. Acts(c)
  BY <1>1, <1>2, <1>3 DEF Acts, Lasting, InLine, Working, Proceeds
<1>6. ASSUME ~Disturbed' PROVE Calm(c)
  <2>1. ~Disturbed
    BY <1>5, <1>6, DisturbedLasts
  <2>2. call'[c].tool = "edit" /\ call'[c].pc \in {"mkdir", "writing"} => call'[c].read = text
    BY <1>2, <2>1 DEF Proceeds
  <2> QED  BY <1>1, <1>2, <1>3, <2>2 DEF Calm, Working
<1> QED  BY <1>1, <1>4, <1>5, <1>6, ActsThreads, CalmHolds DEF FilesInv

\* A call at work, not yet writing, is at the head of its line, without a thread.
LEMMA Worker ==
  ASSUME FilesInv, NEW c \in Calls, AtWork(c)
  PROVE  /\ InLine(c) /\ Head(line[EntryOf(c)]) = c
         /\ call[c].pc # "writing" => thread[c] = "none"
         /\ call[c].read \in SUBSET (Calls \cup {"base"})
<1>1. InLine(c) /\ Head(line[EntryOf(c)]) = c
  BY DEF FilesInv, QueueInv, LinesHold, InLine, AtWork
<1>2. call[c].pc # "writing" => thread[c] = "none"
  BY DEF FilesInv, ThreadsStarted, AtWork, Working, Outcomes
<1> QED  BY <1>1, <1>2, CallFields DEF FilesInv, QueueInv

LEMMA CanonicalizeStep ==
  ASSUME FilesInv, NEW c \in Calls, Canonicalize(c)
  PROVE  FilesInv'
<1>1. /\ call[c].pc = "resolving" /\ call[c] \in CallRecord /\ KeyOf(c) \in Paths
      /\ EntryOf(c) = None /\ ~call[c].missed /\ exists \in BOOLEAN
      /\ UNCHANGED <<exists, text, queue, thread, aborted>>
  BY CallFields DEF Canonicalize, FilesInv, FileTypes, QueueInv, KeysAgree, KeyOf, Paths, contents
<1>2. [call[c] EXCEPT !.pc = "keyed", !.key = KeyOf(c), !.missed = ~exists] \in CallRecord
  BY <1>1 DEF CallRecord
<1>3. call' = [call EXCEPT ![c] = [call[c] EXCEPT !.pc = "keyed", !.key = KeyOf(c), !.missed = ~exists]]
  BY DEF Canonicalize
<1>4. /\ call' \in [Calls -> CallRecord]
      /\ call'[c] = [call[c] EXCEPT !.pc = "keyed", !.key = KeyOf(c), !.missed = ~exists]
      /\ \A d \in Calls \ {c} : call'[d] = call[d]
  BY <1>2, <1>3 DEF FilesInv, QueueInv, QueueTypes
<1>5. /\ call'[c].pc = "keyed" /\ call'[c].key = KeyOf(c) /\ call'[c].missed = ~exists
      /\ call'[c].path = call[c].path /\ call'[c].tool = call[c].tool /\ call'[c].entry = call[c].entry
      /\ call'[c].read = call[c].read
  BY <1>1, <1>4 DEF CallRecord
<1>6. QueueTypes'
  BY <1>1, <1>4 DEF FilesInv, QueueInv, QueueTypes, queue
<1>7. call'[c].key = "file" \/ (call'[c].missed /\ call'[c].path = "link")
  BY <1>1, <1>5 DEF KeyOf, CallRecord, Paths
<1>8. Steady(c)
  BY <1>1, <1>5, <1>7 DEF Steady, InLine, AtWork, EntryOf, Working
<1>9. \A d \in Calls \ {c} : Steady(d)
  BY <1>4 DEF FilesInv, QueueInv, KeysAgree, Steady, InLine, AtWork, EntryOf
<1>10. QueueInv'
  BY <1>1, <1>6, <1>8, <1>9, SteadyHolds DEF FilesInv
<1>11. thread[c] = "none"
  BY <1>1 DEF FilesInv, ThreadsStarted, Outcomes
<1>12. Acts(c) /\ Calm(c)
  BY <1>1, <1>4, <1>5, <1>11 DEF Acts, Lasting, Calm
<1>13. FileTypes'
  BY <1>1 DEF FilesInv, FileTypes
<1> QED  BY <1>1, <1>10, <1>12, <1>13, ActsThreads, CalmHolds DEF FilesInv

\* What becomes of a call that is not in line leaves the queue alone.
LEMMA OverStep ==
  ASSUME FilesInv, NEW c \in Calls, call[c].pc \in {"resolving", "keyed"},
         NEW outcome \in {"aborted", "cancelled"}, Moves(c, outcome), UNCHANGED queue,
         UNCHANGED <<contents, thread, aborted>>
  PROVE  FilesInv'
<1>1. GoesOn(c, outcome, call[c].read) /\ call[c].read \in SUBSET (Calls \cup {"base"})
  BY MovesGoOn, CallFields DEF FilesInv, QueueInv
<1>2. /\ call'[c].pc = outcome /\ call'[c].tool = call[c].tool /\ call'[c].path = call[c].path
      /\ call'[c].missed = call[c].missed /\ \A d \in Calls \ {c} : call'[d] = call[d]
  BY <1>1, GoesOnFields DEF FilesInv, Outcomes
<1>3. QueueInv'
  BY <1>1, GoesOnHolds DEF FilesInv, Outcomes, Working, InLine, Over
<1>4. thread[c] = "none"
  BY DEF FilesInv, ThreadsStarted, Outcomes
<1>5. Acts(c) /\ Calm(c)
  BY <1>2, <1>4 DEF Acts, Lasting, Calm, Outcomes
<1>6. FileTypes' /\ UNCHANGED text
  BY DEF FilesInv, FileTypes, contents
<1> QED  BY <1>3, <1>5, <1>6, ActsThreads, CalmHolds DEF FilesInv

LEMMA EnterStep ==
  ASSUME FilesInv, NEW c \in Calls, Enter(c)
  PROVE  FilesInv'
<1> SUFFICES ASSUME NEW e, e = IF state[call[c].key] = None THEN c ELSE state[call[c].key]
             PROVE  FilesInv'
  OBVIOUS
<1>1. call[c].pc = "keyed" /\ UNCHANGED <<contents, thread, aborted>>
  BY DEF Enter
<1>2. CASE line[e] = <<>> /\ aborted
  BY <1>1, <1>2, OverStep DEF Enter
<1>3. CASE ~(line[e] = <<>> /\ aborted)
  <2>1. PICK pc \in Working \cup {"queued"} :
          pc = IF line[e] = <<>> THEN FirstStep(c) ELSE "queued"
    BY DEF FirstStep, Working
  <2>2. Joins(c, e, pc)
    BY <1>1, <1>3, <2>1 DEF Enter, Joins
  <2>3. QueueInv'
    BY <2>2, JoinHolds DEF FilesInv
  <2>4. /\ call'[c] = [call[c] EXCEPT !.pc = pc, !.entry = e]
        /\ \A d \in Calls \ {c} : call'[d] = call[d]
    BY <2>2 DEF Joins, FilesInv, QueueInv, QueueTypes
  <2>5. /\ call'[c].pc = pc /\ call'[c].tool = call[c].tool /\ call'[c].path = call[c].path
        /\ call'[c].missed = call[c].missed /\ call'[c].read = call[c].read
        /\ pc # "writing" /\ (pc = "mkdir" => call[c].tool = "write")
    BY <2>1, <2>4, CallFields DEF FilesInv, QueueInv, CallRecord, FirstStep
  <2>6. thread[c] = "none"
    BY <1>1 DEF FilesInv, ThreadsStarted, Outcomes
  <2>7. Acts(c) /\ Calm(c)
    BY <1>1, <2>4, <2>5, <2>6 DEF Acts, Lasting, Calm, Working
  <2>8. FileTypes' /\ UNCHANGED text
    BY <1>1 DEF FilesInv, FileTypes, contents
  <2> QED  BY <2>3, <2>7, <2>8, ActsThreads, CalmHolds DEF FilesInv
<1> QED  BY <1>2, <1>3

\* After a check of the signal: aborted, or on to pc.
LEMMA CheckedStep ==
  ASSUME FilesInv, NEW c \in Calls, NEW pc \in Working \ {"writing"}, UnlessAborted(c, pc),
         InLine(c), Head(line[EntryOf(c)]) = c, thread[c] = "none",
         pc = "mkdir" => call[c].tool = "write", UNCHANGED <<contents, thread, aborted>>
  PROVE  FilesInv'
<1>1. CASE aborted
  BY <1>1, LeaveStep DEF UnlessAborted, Outcomes
<1>2. CASE ~aborted
  <2>1. GoesOn(c, pc, call[c].read) /\ call[c].read \in SUBSET (Calls \cup {"base"})
    BY <1>2, MovesGoOn, CallFields DEF UnlessAborted, Continue, FilesInv, QueueInv
  <2>2. thread' = [thread EXCEPT ![c] = IF pc = "writing" THEN "opening" ELSE @]
    BY DEF FilesInv, FileTypes
  <2>3. Proceeds(c, pc, call[c].read)
    BY <2>1, <2>2 DEF Proceeds
  <2> QED  BY <2>1, <2>3, ProceedStep
<1> QED  BY <1>1, <1>2

LEMMA WakeStep ==
  ASSUME FilesInv, NEW c \in Calls, Wake(c)
  PROVE  FilesInv'
<1>1. InLine(c) /\ thread[c] = "none"
  BY DEF Wake, InLine, FilesInv, ThreadsStarted, Outcomes
<1>2. FirstStep(c) \in Working \ {"writing"} /\ (FirstStep(c) = "mkdir" => call[c].tool = "write")
  BY DEF FirstStep, Working
<1> QED  BY <1>1, <1>2, CheckedStep DEF Wake

LEMMA StatStep ==
  ASSUME FilesInv, NEW c \in Calls, StatPath(c)
  PROVE  FilesInv'
<1>1. AtWork(c) /\ call[c].pc = "stat" /\ UNCHANGED <<contents, thread, aborted>>
  BY DEF StatPath, AtWork, Working
<1>2. InLine(c) /\ Head(line[EntryOf(c)]) = c /\ thread[c] = "none"
  BY <1>1, Worker
<1>3. CASE Leave(c, "failed")
  BY <1>1, <1>2, <1>3, LeaveStep DEF Outcomes
<1>4. CASE UnlessAborted(c, "read")
  BY <1>1, <1>2, <1>4, CheckedStep DEF Working
<1> QED  BY <1>3, <1>4 DEF StatPath

LEMMA ReadStep ==
  ASSUME FilesInv, NEW c \in Calls, Read(c)
  PROVE  FilesInv'
<1>1. AtWork(c) /\ call[c].pc = "read" /\ UNCHANGED <<contents, thread, aborted>>
  BY DEF Read, AtWork, Working
<1>2. InLine(c) /\ Head(line[EntryOf(c)]) = c /\ thread[c] = "none"
  BY <1>1, Worker
<1>3. CASE Leave(c, "failed") \/ Leave(c, "aborted")
  BY <1>1, <1>2, <1>3, LeaveStep DEF Outcomes
<1>4. CASE call' = [call EXCEPT ![c].pc = "mkdir", ![c].read = text] /\ UNCHANGED queue
  <2>1. thread' = [thread EXCEPT ![c] = @] /\ text \in SUBSET (Calls \cup {"base"})
    BY <1>1 DEF FilesInv, FileTypes
  <2>2. Proceeds(c, "mkdir", text)
    BY <1>1, <1>2, <1>4, <2>1 DEF Proceeds, GoesOn, Working
  <2> QED  BY <1>1, <2>1, <2>2, ProceedStep
<1> QED  BY <1>3, <1>4 DEF Read

LEMMA MkdirStep ==
  ASSUME FilesInv, NEW c \in Calls, Mkdir(c)
  PROVE  FilesInv'
<1>1. AtWork(c) /\ call[c].pc = "mkdir" /\ UNCHANGED <<contents, aborted>>
  BY DEF Mkdir, AtWork, Working
<1>2. /\ InLine(c) /\ Head(line[EntryOf(c)]) = c /\ thread[c] = "none"
      /\ call[c].read \in SUBSET (Calls \cup {"base"})
  BY <1>1, Worker
<1>3. CASE aborted
  <2>1. UNCHANGED thread /\ Leave(c, "aborted")
    BY <1>3 DEF Mkdir, UnlessAborted, FilesInv, FileTypes
  <2> QED  BY <1>1, <1>2, <2>1, LeaveStep DEF Outcomes
<1>4. CASE ~aborted
  <2>1. GoesOn(c, "writing", call[c].read) /\ thread' = [thread EXCEPT ![c] = "opening"]
    BY <1>4, MovesGoOn DEF Mkdir, UnlessAborted, Continue, FilesInv
  <2>2. call[c].tool = "edit" /\ ~Disturbed => call[c].read = text
    BY <1>1, <1>2 DEF FilesInv, WritesInv, WritesHold
  <2>3. Proceeds(c, "writing", call[c].read)
    BY <1>1, <1>2, <2>1, <2>2 DEF Proceeds, Working
  <2> QED  BY <1>1, <1>2, <2>3, ProceedStep
<1> QED  BY <1>3, <1>4

LEMMA FinishStep ==
  ASSUME FilesInv, NEW c \in Calls, Finish(c)
  PROVE  FilesInv'
<1>1. AtWork(c) /\ UNCHANGED <<contents, thread, aborted>>
  BY DEF Finish, AtWork, Working
<1>2. InLine(c) /\ Head(line[EntryOf(c)]) = c
  BY <1>1, Worker
<1>3. PICK outcome \in Outcomes :
        /\ Leave(c, outcome) /\ thread[c] \notin {"opening", "writing"}
        /\ outcome = "ok" => thread[c] = "done"
  BY DEF Finish, Outcomes
<1> QED  BY <1>1, <1>2, <1>3, LeaveStep

LEMMA CancelStep ==
  ASSUME FilesInv, NEW c \in Calls, Cancel(c)
  PROVE  FilesInv'
<1>1. /\ ~Over(c) /\ UNCHANGED <<exists, text, aborted>>
      /\ call[c].pc \in Working \cup {"resolving", "keyed", "queued"}
  BY CallFields DEF Cancel, contents, Over, FilesInv, QueueInv
<1>2. /\ thread' \in [Calls -> Threads] /\ \A d \in Calls \ {c} : thread'[d] = thread[d]
      /\ thread'[c] = thread[c] \/ (thread[c] = "opening" /\ thread'[c] = "none")
  BY DEF Cancel, FilesInv, FileTypes, Threads
<1>3. /\ QueueInv' /\ call'[c].pc = "cancelled"
      /\ call'[c].tool = call[c].tool /\ call'[c].path = call[c].path
      /\ call'[c].missed = call[c].missed /\ call'[c].read = call[c].read
      /\ \A d \in Calls \ {c} : call'[d] = call[d]
  <2>1. CASE call[c].pc = "queued" \/ call[c].pc \in Working
    <3>1. InLine(c)
      BY <2>1 DEF InLine
    <3>2. PICK i : QueueInv' /\ EndsAt(c, i, "cancelled")
      <4>1. CASE call[c].pc = "queued"
        <5>1. PICK i \in DOMAIN line[EntryOf(c)] :
                /\ line[EntryOf(c)][i] = c
                /\ line' = [line EXCEPT ![EntryOf(c)] = RemoveAt(@, i)]
                /\ Moves(c, "cancelled") /\ UNCHANGED <<state, waiters>>
          BY <4>1 DEF Cancel, Working
        <5> QED  BY <3>1, <5>1, LeaveQueueHolds DEF FilesInv
      <4>2. CASE call[c].pc \in Working
        <5>1. Leave(c, "cancelled") /\ AtWork(c)
          BY <4>2 DEF Cancel, AtWork, Working
        <5> QED  BY <3>1, <5>1, Worker, LeaveHolds DEF FilesInv, Outcomes
      <4> QED  BY <2>1, <4>1, <4>2
    <3>3. \A d \in Calls \ {c} : call'[d] = call[d]
      BY <3>2 DEF EndsAt, Moves, FilesInv, QueueInv, QueueTypes
    <3> QED  BY <3>1, <3>2, <3>3, EndTypes DEF FilesInv
  <2>2. CASE call[c].pc \in {"resolving", "keyed"}
    <3>1. GoesOn(c, "cancelled", call[c].read) /\ call[c].read \in SUBSET (Calls \cup {"base"})
      BY <2>2, MovesGoOn, CallFields DEF Cancel, Continue, Working, FilesInv, QueueInv
    <3>2. ~InLine(c)
      BY <2>2 DEF InLine, Working
    <3> QED  BY <1>1, <3>1, <3>2, GoesOnHolds, GoesOnFields DEF FilesInv, Outcomes
  <2> QED  BY <1>1, <2>1, <2>2
<1>4. Acts(c)
  BY <1>1, <1>2, <1>3 DEF Acts, Lasting, Outcomes, Over
<1>5. ASSUME ~Disturbed' PROVE Calm(c)
  <2>1. thread'[c] = "none"
    BY <1>3, <1>5 DEF Disturbed
  <2>2. ~Disturbed
    BY <1>4, <1>5, DisturbedLasts
  <2>3. thread[c] # "writing"
    BY <1>2, <2>1
  <2> QED  BY <1>3, <2>1, <2>3 DEF Calm
<1>6. FileTypes'
  BY <1>1, <1>2 DEF FilesInv, FileTypes
<1> QED  BY <1>1, <1>3, <1>4, <1>5, <1>6, ActsThreads, CalmHolds DEF FilesInv

\* A step of nobody: an abort, or stuttering.
LEMMA StillStep ==
  ASSUME FilesInv, UNCHANGED <<exists, text, call, state, waiters, line, thread>>, aborted' \in BOOLEAN
  PROVE  FilesInv'
<1>1. QueueInv'
  BY DEF FilesInv, QueueInv, QueueTypes, KeysAgree, LinesHold, CountsHold, InLine, AtWork, EntryOf, Holds, Distinct
<1>2. FileTypes' /\ ThreadsStarted'
  BY DEF FilesInv, FileTypes, ThreadsStarted
<1>3. WritesInv'
  BY DEF FilesInv, WritesInv, WritesHold, Disturbed, Kept
<1> QED  BY <1>1, <1>2, <1>3 DEF FilesInv

LEMMA OpenStep ==
  ASSUME FilesInv, NEW c \in Calls, OpenFile(c)
  PROVE  FilesInv'
<1>1. /\ thread[c] = "opening" /\ UNCHANGED <<call, state, waiters, line, aborted>>
      /\ call[c].pc \in Outcomes \cup {"writing"}
  BY DEF OpenFile, queue, FilesInv, ThreadsStarted
<1>2. PICK t \in {"writing", "refused"} :
        /\ thread' = [thread EXCEPT ![c] = t]
        /\ t = "writing" => exists' = TRUE /\ text' = {}
        /\ t = "refused" => UNCHANGED <<exists, text>>
  BY DEF OpenFile, contents
<1>3. /\ thread' \in [Calls -> Threads] /\ thread'[c] = t
      /\ \A d \in Calls \ {c} : thread'[d] = thread[d]
  BY <1>2 DEF FilesInv, FileTypes, Threads
<1>4. QueueInv'
  BY <1>1 DEF FilesInv, QueueInv, QueueTypes, KeysAgree, LinesHold, CountsHold, InLine, AtWork, EntryOf, Holds, Distinct
<1>5. FileTypes'
  BY <1>1, <1>2, <1>3 DEF FilesInv, FileTypes
<1>6. Acts(c)
  BY <1>1, <1>3 DEF Acts, Lasting
<1>7. WritesInv'
  <2>1. CASE t = "refused"
    <3>1. Calm(c)
      BY <1>1, <1>3, <2>1 DEF Calm
    <3> QED  BY <1>2, <1>6, <2>1, <3>1, CalmHolds
  <2>2. CASE t = "writing"
    <3> SUFFICES ASSUME ~Disturbed' PROVE WritesHold'
      BY DEF WritesInv
    <3>1. ~Disturbed /\ WritesHold
      BY <1>6, DisturbedLasts DEF FilesInv, WritesInv
    <3>2. AtWork(c) /\ call[c].pc = "writing"
      BY <1>1, <3>1 DEF WritesHold, AtWork, Working
    <3>3. \A d \in Calls : AtWork(d) => d = c
      BY <3>1, <3>2, OneAtWork DEF FilesInv
    <3>4. \A d \in Calls \ {c} : ~AtWork(d) /\ thread'[d] \notin {"opening", "writing"}
      BY <1>3, <3>1, <3>3 DEF WritesHold, AtWork, Working
    <3>5. Kept(text) /\ (call[c].tool = "edit" => call[c].read = text)
      BY <1>1, <1>3, <3>1, <3>2, <3>4 DEF WritesHold
    <3>6. text' = {} /\ call' = call
      BY <1>1, <1>2, <2>2
    <3>7. call[c].tool = "edit" => Kept(call[c].read)'
      BY <3>5, <3>6 DEF Kept
    <3> QED  BY <1>3, <2>2, <3>2, <3>4, <3>6, <3>7 DEF WritesHold, AtWork, Working
  <2> QED  BY <2>1, <2>2
<1> QED  BY <1>4, <1>5, <1>6, <1>7, ActsThreads DEF FilesInv

LEMMA WriteStep ==
  ASSUME FilesInv, NEW c \in Calls, WriteFile(c)
  PROVE  FilesInv'
<1>1. /\ thread[c] = "writing" /\ UNCHANGED <<exists, queue, aborted>>
      /\ call[c].pc \in Outcomes \cup {"writing"}
      /\ call[c].read \in SUBSET (Calls \cup {"base"})
  BY CallFields DEF WriteFile, FilesInv, QueueInv, ThreadsStarted
<1>2. GoesOn(c, call[c].pc, {})
  <2>1. call[c] \in CallRecord
    BY CallFields DEF FilesInv, QueueInv
  <2>2. [call[c] EXCEPT !.read = {}] = [call[c] EXCEPT !.pc = call[c].pc, !.read = {}]
    BY <2>1 DEF CallRecord
  <2>3. call' = [call EXCEPT ![c] = [call[c] EXCEPT !.read = {}]]
    BY DEF WriteFile
  <2> QED  BY <1>1, <2>2, <2>3 DEF GoesOn
<1>3. /\ call'[c].pc = call[c].pc /\ call'[c].tool = call[c].tool /\ call'[c].path = call[c].path
      /\ call'[c].missed = call[c].missed /\ \A d \in Calls \ {c} : call'[d] = call[d]
  BY <1>2, GoesOnFields DEF FilesInv
<1>4. QueueInv'
  BY <1>2, GoesOnHolds DEF FilesInv
<1>5. PICK t \in {"done", "torn"} :
        /\ thread' = [thread EXCEPT ![c] = t]
        /\ t = "done" => text' = call[c].read \cup {c} \/ (text # {} /\ text' = {})
        /\ t = "torn" => UNCHANGED text
  BY DEF WriteFile
<1>6. /\ thread' \in [Calls -> Threads] /\ thread'[c] = t
      /\ \A d \in Calls \ {c} : thread'[d] = thread[d]
  BY <1>5 DEF FilesInv, FileTypes, Threads
<1>7. FileTypes'
  BY <1>1, <1>5, <1>6 DEF FilesInv, FileTypes
<1>8. Acts(c)
  BY <1>1, <1>3, <1>6 DEF Acts, Lasting
<1>9. ASSUME ~Disturbed' PROVE WritesHold'
  <2>1. ~Disturbed /\ WritesHold
    BY <1>8, <1>9, DisturbedLasts DEF FilesInv, WritesInv
  <2>2. AtWork(c) /\ call[c].pc = "writing"
    BY <1>1, <2>1 DEF WritesHold, AtWork, Working
  <2>3. \A d \in Calls : AtWork(d) => d = c
    BY <2>1, <2>2, OneAtWork DEF FilesInv
  <2>4. \A d \in Calls \ {c} : ~AtWork(d) /\ thread'[d] \notin {"opening", "writing"}
    BY <1>6, <2>1, <2>3 DEF WritesHold, AtWork, Working
  <2>5. thread'[c] = "done" /\ text' = call[c].read \cup {c}
    BY <1>1, <1>5, <1>6, <1>9, <2>1 DEF Disturbed, WritesHold
  <2>6. \A d \in Calls : call'[d].pc = call[d].pc /\ call'[d].tool = call[d].tool
    BY <1>3
  <2>7. \A d \in Calls :
          call[d].pc = "ok" =>
            \/ d \in call[c].read \cup {c}
            \/ \E w \in (call[c].read \cup {c}) \ {"base"} : call[w].tool = "write"
    <3>1. CASE call[c].tool = "edit"
      BY <1>1, <2>1, <3>1 DEF WritesHold, Kept
    <3>2. CASE call[c].tool = "write"
      BY <3>2, FilesAssumption
    <3> QED  BY <3>1, <3>2, CallFields DEF FilesInv, QueueInv, Tools
  <2>8. \A w \in (call[c].read \cup {c}) \ {"base"} : w \in Calls
    BY <1>1
  <2>9. Kept(text)'
    BY <2>5, <2>6, <2>7, <2>8 DEF Kept
  <2> QED  BY <2>2, <2>4, <2>5, <2>6, <2>9 DEF WritesHold, AtWork, Working
<1> QED  BY <1>4, <1>7, <1>8, <1>9, ActsThreads DEF FilesInv, WritesInv

-----------------------------------------------------------------------------
(* The inductive invariant, and the properties that follow from it.        *)

LEMMA FilesInvInit == FilesInit => FilesInv
<1> SUFFICES ASSUME FilesInit PROVE FilesInv
  OBVIOUS
<1>1. PICK asked \in Requests :
        call = [c \in Calls |->
                  [tool |-> asked[c][1], path |-> asked[c][2], pc |-> "resolving",
                   key |-> "file", missed |-> FALSE, entry |-> None, read |-> {}]]
  BY DEF FilesInit
<1>2. \A c \in Calls : asked[c] \in Tools \X Paths
  BY FilesAssumption
<1>3. call \in [Calls -> CallRecord]
  BY <1>1, <1>2 DEF CallRecord, Paths
<1>4. \A c \in Calls : /\ call[c].pc = "resolving" /\ call[c].key = "file" /\ ~call[c].missed
                       /\ call[c].entry = None
  BY <1>1
<1>5. /\ state = [k \in Paths |-> None] /\ waiters = [c \in Calls |-> 0]
      /\ line = [c \in Calls |-> <<>>] /\ thread = [c \in Calls |-> "none"]
      /\ exists \in BOOLEAN /\ aborted = FALSE /\ text \in SUBSET {"base"}
  BY DEF FilesInit
<1>6. QueueTypes /\ FileTypes
  <2>1. <<>> \in Seq(Calls)
    BY EmptySeq
  <2>2. line \in [Calls -> Seq(Calls)]
    BY <1>5, <2>1
  <2> QED  BY <1>3, <1>5, <2>2 DEF QueueTypes, FileTypes, Threads
<1>7. KeysAgree /\ ThreadsStarted
  BY <1>4, <1>5 DEF KeysAgree, ThreadsStarted, EntryOf
<1>8. \A c \in Calls : ~InLine(c) /\ ~AtWork(c) /\ line[c] = <<>> /\ Len(line[c]) = 0 /\ DOMAIN line[c] = {}
  BY <1>4, <1>5 DEF InLine, AtWork, Working
<1>9. LinesHold /\ CountsHold
  BY <1>5, <1>8 DEF LinesHold, CountsHold, Distinct
<1>10. WritesInv
  BY <1>4, <1>5 DEF WritesInv, WritesHold, Kept
<1> QED  BY <1>6, <1>7, <1>9, <1>10 DEF FilesInv, QueueInv

LEMMA FilesInvStep == FilesInv /\ [FilesNext]_filesVars => FilesInv'
<1> SUFFICES ASSUME FilesInv, [FilesNext]_filesVars PROVE FilesInv'
  OBVIOUS
<1>1. ASSUME NEW c \in Calls, TaskStep(c) PROVE FilesInv'
  BY <1>1, CanonicalizeStep, EnterStep, WakeStep, StatStep, ReadStep, MkdirStep, FinishStep DEF TaskStep
<1>2. ASSUME NEW c \in Calls, ThreadStep(c) PROVE FilesInv'
  BY <1>2, OpenStep, WriteStep DEF ThreadStep
<1>3. ASSUME NEW c \in Calls, Cancel(c) PROVE FilesInv'
  BY <1>3, CancelStep
<1>4. CASE Abort \/ UNCHANGED filesVars
  BY <1>4, StillStep DEF Abort, filesVars, contents, queue, FilesInv, FileTypes
<1> QED  BY <1>1, <1>2, <1>3, <1>4 DEF FilesNext

(* The queue and the writes stay as the invariant says, whoever fails, is  *)
(* aborted or is cancelled, and wherever (with_file_mutation_queue and the *)
(* calls it runs).                                                         *)
THEOREM QueueIsSound == FilesSpec => []FilesInv
  BY FilesInvInit, FilesInvStep, PTL DEF FilesSpec

(* One mutation at a time per file, for any calls, tools and paths: no     *)
(* entry is dropped and made anew while somebody holds or awaits its lock. *)
THEOREM MutationsExclude == FilesSpec => []OneMutationPerFile
<1>1. FilesInv => OneMutationPerFile
  <2> SUFFICES ASSUME FilesInv, NEW c \in Calls, NEW d \in Calls, c # d, AtWork(c), AtWork(d),
                      call[c].key = "file", call[d].key = "file"
               PROVE  FALSE
    BY DEF OneMutationPerFile, FilesInv, QueueInv, KeysAgree
  <2>1. InLine(c) /\ InLine(d)
    BY DEF AtWork, InLine
  <2>2. EntryOf(c) = EntryOf(d)
    BY <2>1 DEF FilesInv, QueueInv, LinesHold
  <2> QED  BY <2>2 DEF FilesInv, QueueInv, LinesHold
<1> QED  BY <1>1, QueueIsSound, PTL

(* The queue forgets a path with the last call that uses it: an entry that *)
(* is left when all calls are over was kept by one cancelled in its line.  *)
THEOREM PathsForgotten == FilesSpec => []EntriesFreed
<1>1. FilesInv => EntriesFreed
  <2> SUFFICES ASSUME FilesInv, \A c \in Calls : Over(c), NEW k \in Paths, state[k] # None,
                      NEW e, e = state[k]
               PROVE  \E c \in Calls : call[c].pc = "cancelled" /\ EntryOf(c) = e
    BY DEF EntriesFreed
  <2>1. e \in Calls /\ waiters[e] >= 1
    BY DEF FilesInv, QueueInv, QueueTypes, CountsHold
  <2>2. \A c \in Calls : ~InLine(c)
    BY DEF Over, InLine, Working, Outcomes
  <2>3. line[e] \in Seq(Calls) /\ DOMAIN line[e] = {}
    BY <2>1, <2>2, CallFields, SeqDomain DEF FilesInv, QueueInv, LinesHold
  <2>4. Len(line[e]) = 0
    <3>1. Len(line[e]) \in Nat /\ DOMAIN line[e] = 1..Len(line[e])
      BY <2>3, LenProperties
    <3>2. 1 \notin 1..Len(line[e])
      BY <2>3, <3>1
    <3> QED  BY <3>1, <3>2
  <2>5. waiters[e] > Len(line[e])
    BY <2>1, <2>4, CallFields DEF FilesInv, QueueInv
  <2> QED  BY <2>1, <2>5 DEF FilesInv, QueueInv, CountsHold
<1> QED  BY <1>1, QueueIsSound, PTL

(* No change is lost: when all is over and nothing disturbed the calls,    *)
(* what an edit reported as done is in the file, unless a write replaced   *)
(* the whole text, and so for a write.                                     *)
THEOREM ChangesSurvive == FilesSpec => []NothingLost
<1>1. FilesInv => NothingLost
  <2> SUFFICES ASSUME FilesInv, Quiet, ~Disturbed, NEW c \in Calls, call[c].pc = "ok"
               PROVE  c \in text \/ \E w \in text \ {"base"} : call[w].tool = "write"
    BY DEF NothingLost
  <2>1. Kept(text)
    BY DEF FilesInv, WritesInv, WritesHold, Quiet
  <2> QED  BY <2>1 DEF Kept
<1> QED  BY <1>1, QueueIsSound, PTL
=============================================================================
