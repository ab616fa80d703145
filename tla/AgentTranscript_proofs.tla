----------------------- MODULE AgentTranscript_proofs -----------------------
(***************************************************************************)
(* Proofs about the transcript of an agent: what the provider is shown,    *)
(* what the transcript says and what the run reports are one conversation, *)
(* and in it every tool call has its result, in its place. Both hold with  *)
(* failures, cancellations, aborts and tool tasks that outlive their run.  *)
(* Accounts relates the three sequences at every await of a run;           *)
(* Transcript says where the answer in hand stands and that all the        *)
(* others of the run have their results.                                   *)
(*                                                                         *)
(* The second half is about an agent whose runs neither fail nor are       *)
(* cancelled: what users put into its queues reaches the transcript in     *)
(* order and at the promised pace, and what its listeners are told is what *)
(* AgentEvents allows. A run that fails drops the messages in its hands    *)
(* and reports its failure wherever it is, so neither holds of it. Line,   *)
(* Paced and Telling are the invariants; Flow says what a step does to     *)
(* messages, Tells what it says to the listeners.                          *)
(***************************************************************************)
EXTENDS AgentLoop_proofs

-----------------------------------------------------------------------------
(* Sequences. *)

\* The rest of a sequence, from first on, as the sequence grows.
LEMMA RestAppended ==
  ASSUME NEW S, NEW s \in Seq(S), NEW m \in S, NEW first \in 1..(Len(s) + 1)
  PROVE  /\ SubSeq(s, first, Len(s)) \in Seq(S)
         /\ SubSeq(Append(s, m), first, Len(s)) = SubSeq(s, first, Len(s))
         /\ SubSeq(Append(s, m), first, Len(s) + 1) = Append(SubSeq(s, first, Len(s)), m)
<1> SUFFICES ASSUME NEW longer, longer = Append(s, m)
             PROVE  /\ SubSeq(s, first, Len(s)) \in Seq(S)
                    /\ SubSeq(longer, first, Len(s)) = SubSeq(s, first, Len(s))
                    /\ SubSeq(longer, first, Len(s) + 1) = Append(SubSeq(s, first, Len(s)), m)
  OBVIOUS
<1>1. /\ longer \in Seq(S) /\ Len(longer) = Len(s) + 1 /\ Len(s) \in Nat
      /\ longer[Len(s) + 1] = m /\ \A i \in 1..Len(s) : longer[i] = s[i]
  BY AppendProperties, LenProperties
<1>2. /\ \A i \in first..Len(s) : s[i] \in S /\ longer[i] \in S
      /\ \A i \in first..(Len(s) + 1) : longer[i] \in S
  BY <1>1, ElementOfSeq
<1>3. /\ SubSeq(s, first, Len(s)) \in Seq(S)
      /\ Len(SubSeq(s, first, Len(s))) = Len(s) - first + 1
      /\ \A i \in 1..(Len(s) - first + 1) : SubSeq(s, first, Len(s))[i] = s[first + i - 1]
  BY <1>1, <1>2, SubSeqProperties
<1>4. /\ SubSeq(longer, first, Len(s)) \in Seq(S)
      /\ Len(SubSeq(longer, first, Len(s))) = Len(s) - first + 1
      /\ \A i \in 1..(Len(s) - first + 1) :
           SubSeq(longer, first, Len(s))[i] = longer[first + i - 1]
  BY <1>1, <1>2, SubSeqProperties
<1>5. /\ SubSeq(longer, first, Len(s) + 1) \in Seq(S)
      /\ Len(SubSeq(longer, first, Len(s) + 1)) = Len(s) - first + 2
      /\ \A i \in 1..(Len(s) - first + 2) :
           SubSeq(longer, first, Len(s) + 1)[i] = longer[first + i - 1]
  BY <1>1, <1>2, SubSeqProperties
<1>6. SubSeq(longer, first, Len(s)) = SubSeq(s, first, Len(s))
  <2>1. \A i \in 1..(Len(s) - first + 1) : longer[first + i - 1] = s[first + i - 1]
    BY <1>1
  <2> QED  BY <1>3, <1>4, <2>1, SeqEqual
<1>7. SubSeq(longer, first, Len(s) + 1) = Append(SubSeq(s, first, Len(s)), m)
  <2> SUFFICES ASSUME NEW rest \in Seq(S), Len(rest) = Len(s) - first + 1,
                      \A i \in 1..(Len(s) - first + 1) : rest[i] = s[first + i - 1]
               PROVE  SubSeq(longer, first, Len(s) + 1) = Append(rest, m)
    BY <1>3
  <2>1. /\ Append(rest, m) \in Seq(S) /\ Len(Append(rest, m)) = Len(s) - first + 2
        /\ \A i \in 1..(Len(s) - first + 1) : Append(rest, m)[i] = rest[i]
        /\ Append(rest, m)[Len(s) - first + 2] = m
    BY <1>1, AppendProperties
  <2>2. \A i \in 1..(Len(s) - first + 2) :
          SubSeq(longer, first, Len(s) + 1)[i] = Append(rest, m)[i]
    <3> SUFFICES ASSUME NEW i \in 1..(Len(s) - first + 2)
                 PROVE  longer[first + i - 1] = Append(rest, m)[i]
      BY <1>5
    <3>1. CASE i \in 1..(Len(s) - first + 1)
      <4>1. first + i - 1 \in 1..Len(s)
        BY <1>1, <3>1
      <4> QED  BY <1>1, <2>1, <3>1, <4>1
    <3>2. CASE i = Len(s) - first + 2
      <4>1. first + i - 1 = Len(s) + 1
        BY <1>1, <3>2
      <4> QED  BY <1>1, <2>1, <3>2, <4>1
    <3> QED  BY <1>1, <3>1, <3>2
  <2> QED  BY <1>5, <2>1, <2>2, SeqEqual
<1> QED  BY <1>3, <1>6, <1>7

LEMMA RestOfConcat ==
  ASSUME NEW S, NEW s \in Seq(S), NEW t \in Seq(S), NEW first \in 1..(Len(s) + 1)
  PROVE  /\ SubSeq(s \o t, first, Len(s \o t)) = SubSeq(s, first, Len(s)) \o t
         /\ first = Len(s) + 1 => SubSeq(s \o t, first, Len(s \o t)) = t
<1> SUFFICES ASSUME NEW both, both = s \o t
             PROVE  /\ SubSeq(both, first, Len(both)) = SubSeq(s, first, Len(s)) \o t
                    /\ first = Len(s) + 1 => SubSeq(both, first, Len(both)) = t
  OBVIOUS
<1>1. /\ both \in Seq(S) /\ Len(both) = Len(s) + Len(t) /\ Len(s) \in Nat /\ Len(t) \in Nat
      /\ \A i \in 1..(Len(s) + Len(t)) :
           both[i] = IF i <= Len(s) THEN s[i] ELSE t[i - Len(s)]
  BY ConcatProperties, LenProperties
<1>2. /\ \A i \in first..Len(both) : both[i] \in S
      /\ \A i \in first..Len(s) : s[i] \in S
  BY <1>1, ElementOfSeq
<1>3. /\ SubSeq(both, first, Len(both)) \in Seq(S)
      /\ Len(SubSeq(both, first, Len(both))) = Len(s) + Len(t) - first + 1
      /\ \A i \in 1..(Len(s) + Len(t) - first + 1) :
           SubSeq(both, first, Len(both))[i] = both[first + i - 1]
  BY <1>1, <1>2, SubSeqProperties
<1>4. /\ SubSeq(s, first, Len(s)) \in Seq(S)
      /\ Len(SubSeq(s, first, Len(s))) = Len(s) - first + 1
      /\ \A i \in 1..(Len(s) - first + 1) : SubSeq(s, first, Len(s))[i] = s[first + i - 1]
  BY <1>1, <1>2, SubSeqProperties
<1>5. SubSeq(both, first, Len(both)) = SubSeq(s, first, Len(s)) \o t
  <2> SUFFICES ASSUME NEW rest \in Seq(S), Len(rest) = Len(s) - first + 1,
                      \A i \in 1..(Len(s) - first + 1) : rest[i] = s[first + i - 1]
               PROVE  SubSeq(both, first, Len(both)) = rest \o t
    BY <1>4
  <2>1. /\ rest \o t \in Seq(S) /\ Len(rest \o t) = Len(s) + Len(t) - first + 1
        /\ \A i \in 1..(Len(s) + Len(t) - first + 1) :
             (rest \o t)[i] = IF i <= Len(s) - first + 1 THEN rest[i]
                              ELSE t[i - (Len(s) - first + 1)]
    <3>1. /\ rest \o t \in Seq(S) /\ Len(rest \o t) = Len(rest) + Len(t)
          /\ \A i \in 1..(Len(rest) + Len(t)) :
               (rest \o t)[i] = IF i <= Len(rest) THEN rest[i] ELSE t[i - Len(rest)]
      BY ConcatProperties
    <3>2. Len(rest) + Len(t) = Len(s) + Len(t) - first + 1
      BY <1>1
    <3> QED  BY <3>1, <3>2
  <2>2. \A i \in 1..(Len(s) + Len(t) - first + 1) :
          SubSeq(both, first, Len(both))[i] = (rest \o t)[i]
    <3> SUFFICES ASSUME NEW i \in 1..(Len(s) + Len(t) - first + 1)
                 PROVE  both[first + i - 1] = (rest \o t)[i]
      BY <1>3
    <3>1. CASE i <= Len(s) - first + 1
      <4>1. /\ i \in 1..(Len(s) - first + 1) /\ first + i - 1 <= Len(s)
            /\ first + i - 1 \in 1..(Len(s) + Len(t))
        BY <1>1, <3>1
      <4> QED  BY <1>1, <2>1, <4>1
    <3>2. CASE ~(i <= Len(s) - first + 1)
      <4>1. /\ ~(first + i - 1 <= Len(s)) /\ first + i - 1 \in 1..(Len(s) + Len(t))
            /\ first + i - 1 - Len(s) = i - (Len(s) - first + 1)
        BY <1>1, <3>2
      <4> QED  BY <1>1, <2>1, <3>2, <4>1
    <3> QED  BY <3>1, <3>2
  <2> QED  BY <1>3, <2>1, <2>2, SeqEqual
<1>6. ASSUME first = Len(s) + 1
      PROVE  SubSeq(both, first, Len(both)) = t
  <2>1. SubSeq(s, first, Len(s)) = <<>>
    BY <1>1, <1>6, SubSeqEmpty
  <2> QED  BY <1>5, <2>1, ConcatEmptySeq
<1> QED  BY <1>5, <1>6

\* A message moves from the front of one sequence to the end of the other.
LEMMA MessageMoves ==
  ASSUME NEW S, NEW s \in Seq(S), NEW t \in Seq(S), t # <<>>
  PROVE  Append(s, Head(t)) \o Tail(t) = s \o t
<1>1. /\ Head(t) \in S /\ Tail(t) \in Seq(S) /\ Len(Tail(t)) = Len(t) - 1
      /\ \A i \in 1..Len(Tail(t)) : Tail(t)[i] = t[i + 1]
      /\ Head(t) = t[1] /\ Len(t) \in Nat \ {0} /\ Len(s) \in Nat
  BY HeadTailProperties, EmptySeq, LenProperties
<1>2. /\ Append(s, Head(t)) \in Seq(S) /\ Len(Append(s, Head(t))) = Len(s) + 1
      /\ \A i \in 1..Len(s) : Append(s, Head(t))[i] = s[i]
      /\ Append(s, Head(t))[Len(s) + 1] = Head(t)
  BY <1>1, AppendProperties
<1> SUFFICES ASSUME NEW longer \in Seq(S), Len(longer) = Len(s) + 1,
                    \A i \in 1..Len(s) : longer[i] = s[i], longer[Len(s) + 1] = t[1],
                    NEW rest \in Seq(S), Len(rest) = Len(t) - 1,
                    \A i \in 1..(Len(t) - 1) : rest[i] = t[i + 1]
             PROVE  longer \o rest = s \o t
  BY <1>1, <1>2
<1>3. /\ longer \o rest \in Seq(S) /\ Len(longer \o rest) = Len(s) + Len(t)
      /\ \A i \in 1..(Len(s) + Len(t)) :
           (longer \o rest)[i] = IF i <= Len(s) + 1 THEN longer[i] ELSE rest[i - (Len(s) + 1)]
  <2>1. /\ longer \o rest \in Seq(S) /\ Len(longer \o rest) = Len(longer) + Len(rest)
        /\ \A i \in 1..(Len(longer) + Len(rest)) :
             (longer \o rest)[i] = IF i <= Len(longer) THEN longer[i] ELSE rest[i - Len(longer)]
    BY ConcatProperties
  <2>2. Len(longer) + Len(rest) = Len(s) + Len(t)
    BY <1>1
  <2> QED  BY <2>1, <2>2
<1>4. /\ s \o t \in Seq(S) /\ Len(s \o t) = Len(s) + Len(t)
      /\ \A i \in 1..(Len(s) + Len(t)) :
           (s \o t)[i] = IF i <= Len(s) THEN s[i] ELSE t[i - Len(s)]
  BY ConcatProperties
<1>5. \A i \in 1..(Len(s) + Len(t)) : (longer \o rest)[i] = (s \o t)[i]
  <2> SUFFICES ASSUME NEW i \in 1..(Len(s) + Len(t))
               PROVE  (longer \o rest)[i] = (s \o t)[i]
    OBVIOUS
  <2>1. CASE i <= Len(s)
    BY <1>1, <1>3, <1>4, <2>1
  <2>2. CASE i = Len(s) + 1
    <3>1. i - Len(s) = 1
      BY <1>1, <2>2
    <3> QED  BY <1>1, <1>3, <1>4, <2>2, <3>1
  <2>3. CASE i > Len(s) + 1
    <3>1. /\ i - (Len(s) + 1) \in 1..(Len(t) - 1) /\ i - (Len(s) + 1) + 1 = i - Len(s)
          /\ ~(i <= Len(s)) /\ ~(i <= Len(s) + 1)
      BY <1>1, <2>3
    <3>2. (longer \o rest)[i] = rest[i - (Len(s) + 1)] /\ (s \o t)[i] = t[i - Len(s)]
      BY <1>3, <1>4, <3>1
    <3>3. rest[i - (Len(s) + 1)] = t[i - (Len(s) + 1) + 1]
      BY <3>1
    <3> QED  BY <3>1, <3>2, <3>3
  <2> QED  BY <1>1, <2>1, <2>2, <2>3
<1> QED  BY <1>3, <1>4, <1>5, SeqEqual

LEMMA ConcatAppended ==
  ASSUME NEW S, NEW s \in Seq(S), NEW t \in Seq(S), NEW m \in S
  PROVE  s \o Append(t, m) = Append(s \o t, m)
<1>1. <<m>> \in Seq(S) /\ s \o t \in Seq(S)
  BY ConcatProperties
<1>2. Append(t, m) = t \o <<m>> /\ Append(s \o t, m) = (s \o t) \o <<m>>
  BY <1>1, AppendIsConcat
<1> QED  BY <1>1, <1>2, ConcatAssociative

WithLast(s, m) == [s EXCEPT ![Len(s)] = m]

LEMMA LastReplaced ==
  ASSUME NEW S, NEW s \in Seq(S), NEW m \in S, NEW n \in S
  PROVE  WithLast(Append(s, m), n) = Append(s, n)
<1> SUFFICES ASSUME NEW long, long = Append(s, m)
             PROVE  [long EXCEPT ![Len(long)] = n] = Append(s, n)
  BY DEF WithLast
<1>1. /\ long \in Seq(S) /\ Len(long) = Len(s) + 1 /\ Len(s) \in Nat
      /\ \A i \in 1..Len(s) : long[i] = s[i]
  BY AppendProperties, LenProperties
<1>2. /\ Append(s, n) \in Seq(S) /\ Len(Append(s, n)) = Len(s) + 1
      /\ \A i \in 1..Len(s) : Append(s, n)[i] = s[i]
      /\ Append(s, n)[Len(s) + 1] = n
  BY AppendProperties
<1> SUFFICES ASSUME NEW k, k = Len(s) + 1
             PROVE  [long EXCEPT ![k] = n] = Append(s, n)
  BY <1>1
<1>3. long \in [1..k -> S] /\ Append(s, n) \in [1..k -> S] /\ k \in 1..k
  <2>1. long \in [1..Len(long) -> S] /\ Len(long) = k
    BY <1>1, LenProperties
  <2>2. Append(s, n) \in [1..Len(Append(s, n)) -> S] /\ Len(Append(s, n)) = k
    BY <1>2, LenProperties
  <2>3. k \in 1..k
    BY <1>1
  <2> QED  BY <2>1, <2>2, <2>3
<1>4. [long EXCEPT ![k] = n] \in [1..k -> S]
  BY <1>3
<1>5. \A i \in 1..k : [long EXCEPT ![k] = n][i] = Append(s, n)[i]
  <2>1. \A i \in 1..k : (i \in 1..Len(s) /\ i # k) \/ i = k
    BY <1>1
  <2> QED  BY <1>1, <1>2, <1>3, <2>1
<1> QED  BY <1>3, <1>4, <1>5

-----------------------------------------------------------------------------
(* The accounts of one conversation.                                       *)

From(s) == SubSeq(s, loop.first, Len(s))

\* What the provider is shown and what the run reports, next to what the
\* transcript says. Prompts are in the context before they are announced, the
\* answer from its first part on, the results only when they are all there.
Accounts ==
  loop.pc \notin Failing \cup {"idle"} =>
    /\ loop.first \in 1..(Len(loop.context) + 1)
    /\ loop.prompts => Injected.context = state.messages \o Injected.inject
    /\ ~loop.prompts /\ loop.pc \notin Handling \cup {"streaming"} =>
         Injected.context = state.messages
    /\ At("streaming") => \E p \in Messages : loop.context = Append(state.messages, p)
    /\ At("answered") => loop.context[Len(loop.context)] = Answer
    /\ loop.pc \in Handling => loop.context \o Results = state.messages
    /\ loop.pc \in {"streaming", "answered"} =>
         /\ loop.first <= Len(loop.context)
         /\ loop.new = SubSeq(loop.context, loop.first, Len(loop.context) - 1)
    /\ loop.pc \notin {"streaming", "answered"} => Injected.new = From(Injected.context)

LEMMA Elsewhere == loop'.pc # "injected" => Injected' = loop'
  BY DEF Injected, At

\* Where the run is neither streaming an answer nor handling its calls.
Between == (Opening \ {"injected"}) \cup {"request", "last_turn", "turn_end", "agent_end"}

\* What is on its way arrives, and no message joins any account.
LEMMA AccountsPass ==
  ASSUME LoopInv, Accounts,
         loop.pc \in Between \cup {"injected"}, loop'.pc \in Between,
         loop'.context = Injected.context, loop'.new = Injected.new,
         loop'.first = loop.first, state'.messages = state.messages,
         \/ loop'.prompts = loop.prompts /\ (loop.prompts => loop'.inject = Injected.inject)
         \/ ~loop'.prompts /\ Injected.inject = <<>>
  PROVE  Accounts'
<1>0. loop.pc \notin Failing \cup {"idle", "streaming", "answered"} \cup Handling
      /\ loop'.pc \notin Failing \cup {"idle", "streaming", "answered", "injected"} \cup Handling
  BY DEF Between, Opening, Failing, Handling
<1>1. /\ loop \in LoopRecord /\ state.messages \in Seq(Messages)
      /\ Injected.context \in Seq(Messages) /\ Len(loop.context) <= Len(Injected.context)
      /\ Len(loop.context) \in Nat /\ Len(Injected.context) \in Nat
  <2>1. loop \in LoopRecord /\ state.messages \in Seq(Messages)
    BY DEF LoopInv, Types, AgentState
  <2>2. loop.context \in Seq(Messages) /\ Injected.context \in Seq(Messages)
    BY <2>1, LoopFields, InjectedIs DEF LoopInv, SameBut, LoopRecord
  <2>3. Len(loop.context) \in Nat /\ Len(Injected.context) \in Nat
    BY <2>2, LenProperties
  <2>4. Len(loop.context) <= Len(Injected.context)
    <3>1. Injected.context = loop.context
          \/ \E m \in Messages : Injected.context = Append(loop.context, m)
      BY InjectedIs, MessageKinds DEF LoopInv
    <3> QED  BY <2>2, <2>3, <3>1, AppendProperties
  <2> QED  BY <2>1, <2>2, <2>3, <2>4
<1>2. Injected' = loop'
  BY <1>0, Elsewhere
<1>3. loop'.first \in 1..(Len(loop'.context) + 1)
  <2>1. loop.first \in 1..(Len(loop.context) + 1)
    BY <1>0 DEF Accounts
  <2> QED  BY <1>1, <2>1
<1>4. loop'.prompts => loop'.context = state'.messages \o loop'.inject
  BY <1>0 DEF Accounts
<1>5. ~loop'.prompts => loop'.context = state'.messages
  <2>1. CASE ~loop.prompts
    BY <1>0, <2>1 DEF Accounts
  <2>2. CASE loop.prompts /\ ~loop'.prompts
    <3>1. Injected.context = state.messages \o <<>>
      BY <1>0, <2>2 DEF Accounts
    <3> QED  BY <1>1, <3>1, ConcatEmptySeq
  <2> QED  BY <2>1, <2>2
<1>6. loop'.new = From(Injected.context)
  BY <1>0 DEF Accounts
<1>7. loop'.new = SubSeq(loop'.context, loop'.first, Len(loop'.context))
  BY <1>6 DEF From
<1> QED  BY <1>0, <1>2, <1>3, <1>4, <1>5, <1>7 DEF Accounts, From, At

LEMMA OpeningAccounts ==
  ASSUME LoopInv, Accounts,
         \/ FirstTurn \/ StartInjecting \/ FirstPoll \/ Request
         \/ LastTurn \/ NothingLeft \/ StopAfterTurn \/ TurnWithSteering \/ TurnWithFollowUps
  PROVE  Accounts'
<1>1. CASE FirstTurn
  <2>1. At("agent_start") /\ Moves(loop, "turn_start") /\ NothingSaid
    BY <1>1, OpeningMoves
  <2>2. Injected = loop
    BY <2>1 DEF Injected, At
  <2> QED  BY <2>1, <2>2, AccountsPass DEF Moves, NothingSaid, Becomes, At, Between, Opening
<1>2. CASE StartInjecting \/ Request
  <2>1. /\ CanInject /\ loop'.pc \in {"inject", "request"} /\ NothingSaid
        /\ loop'.context = Injected.context /\ loop'.new = Injected.new
        /\ loop'.first = Injected.first /\ loop'.prompts = Injected.prompts
        /\ loop'.inject = Injected.inject
    BY <1>2, OpeningMoves DEF Moves
  <2>2. Injected.first = loop.first /\ Injected.prompts = loop.prompts
    BY InjectedIs DEF LoopInv, SameBut
  <2> QED  BY <2>1, <2>2, AccountsPass DEF CanInject, NothingSaid, Becomes, Between, Opening
<1>3. CASE FirstPoll
  BY <1>3, FirstPollMoves, AccountsPass DEF CanInject, NothingSaid, Becomes, Between,
     Opening
<1>4. CASE LastTurn \/ NothingLeft \/ StopAfterTurn
  <2>1. loop.pc \in {"last_turn", "turn_end"} /\ Moves(loop, "agent_end") /\ NothingSaid
    BY <1>4, EndingMoves
  <2>2. Injected = loop
    BY <2>1 DEF Injected, At
  <2> QED  BY <2>1, <2>2, AccountsPass DEF Moves, NothingSaid, Becomes, Between, Opening
<1>5. CASE TurnWithSteering \/ TurnWithFollowUps
  <2>1. /\ At("turn_end") /\ loop'.pc = "turn_start" /\ NothingSaid
        /\ loop'.context = loop.context /\ loop'.new = loop.new /\ loop'.first = loop.first
        /\ loop'.prompts = loop.prompts
    BY <1>5, TurnMoves, NextTurnMoves
  <2>2. Injected = loop /\ ~loop.prompts
    BY <2>1 DEF Injected, At, LoopInv, Shape, Opening
  <2> QED  BY <2>1, <2>2, AccountsPass DEF NothingSaid, Becomes, At, Between, Opening
<1> QED  BY <1>1, <1>2, <1>3, <1>4, <1>5

\* A polled message, or a prompt, is in the transcript.
LEMMA EndInjectingAccounts ==
  ASSUME LoopInv, Accounts, EndInjecting
  PROVE  Accounts'
<1>1. At("inject") /\ Moves(loop, "injected") /\ Arrives(Head(loop.inject))
  BY OpeningMoves
<1>2. /\ loop.context \in Seq(Messages) /\ state.messages \in Seq(Messages)
      /\ loop.inject \in Seq(Messages) /\ loop.inject # <<>>
      /\ Head(loop.inject) \in Messages /\ Tail(loop.inject) \in Seq(Messages)
  <2>1. loop.inject \in Seq(UserMessages) /\ loop.context \in Seq(Messages)
        /\ state.messages \in Seq(Messages) /\ loop.inject # <<>>
    BY <1>1, LoopFields DEF LoopInv, Types, AgentState, Shape, At
  <2>2. loop.inject \in Seq(Messages)
    BY <2>1, MessageKinds, SeqMonotonic
  <2> QED  BY <2>1, <2>2, HeadTailProperties
<1>3. /\ loop.first \in 1..(Len(loop.context) + 1)
      /\ loop.prompts => loop.context = state.messages \o loop.inject
      /\ ~loop.prompts => loop.context = state.messages
      /\ loop.new = SubSeq(loop.context, loop.first, Len(loop.context))
  <2>1. Injected = loop
    BY <1>1 DEF Injected, At
  <2> QED  BY <1>1, <2>1 DEF Accounts, At, Failing, Handling, From
<1>4. /\ loop'.pc = "injected" /\ loop'.prompts = loop.prompts /\ loop'.inject = loop.inject
      /\ loop'.context = loop.context /\ loop'.new = loop.new /\ loop'.first = loop.first
      /\ loop' \in LoopRecord
      /\ state'.messages = Append(state.messages, Head(loop.inject))
  BY <1>1 DEF Moves, Arrives, Becomes
<1>5. /\ Injected'.inject = Tail(loop.inject)
      /\ Injected'.context = IF loop.prompts THEN loop.context
                             ELSE Append(loop.context, Head(loop.inject))
      /\ Injected'.new = IF loop.prompts THEN loop.new
                         ELSE Append(loop.new, Head(loop.inject))
  BY <1>4 DEF Injected, At, LoopRecord
<1>6. loop'.pc \notin Failing \cup {"idle", "streaming", "answered"} \cup Handling
  BY <1>4 DEF Failing, Handling
<1>7. loop.prompts => Injected'.context = state'.messages \o Injected'.inject
  <2>1. Append(state.messages, Head(loop.inject)) \o Tail(loop.inject)
          = state.messages \o loop.inject
    BY <1>2, MessageMoves
  <2> QED  BY <1>3, <1>4, <1>5, <2>1
<1>8. ~loop.prompts => Injected'.context = state'.messages
  BY <1>3, <1>4, <1>5
<1>9. Injected'.new = SubSeq(Injected'.context, loop.first, Len(Injected'.context))
  <2>1. CASE loop.prompts
    BY <1>3, <1>5, <2>1
  <2>2. CASE ~loop.prompts
    <3>1. Len(Append(loop.context, Head(loop.inject))) = Len(loop.context) + 1
      BY <1>2, AppendProperties
    <3>2. SubSeq(Append(loop.context, Head(loop.inject)), loop.first, Len(loop.context) + 1)
            = Append(SubSeq(loop.context, loop.first, Len(loop.context)), Head(loop.inject))
      BY <1>2, <1>3, RestAppended
    <3> QED  BY <1>3, <1>5, <2>2, <3>1, <3>2
  <2> QED  BY <2>1, <2>2
<1> QED  BY <1>3, <1>4, <1>6, <1>7, <1>8, <1>9 DEF Accounts, From, At

LEMMA StreamAccounts ==
  ASSUME LoopInv, Accounts, StreamStart \/ StreamEnd
  PROVE  Accounts'
<1>0. loop.context \in Seq(Messages) /\ state.messages \in Seq(Messages)
  BY LoopFields DEF LoopInv, Types, AgentState
<1>1. CASE StreamStart
  <2>1. /\ At("request") /\ loop'.pc = "streaming" /\ Partial \in Messages
        /\ loop'.prompts = loop.prompts /\ loop'.new = loop.new /\ loop'.first = loop.first
        /\ loop'.context = Append(loop.context, Partial) /\ state'.messages = state.messages
    BY <1>1, StreamStartMoves, MessageKinds DEF NothingSaid, Becomes
  <2>2. Injected = loop /\ ~loop.prompts
    BY <2>1 DEF Injected, At, LoopInv, Shape, Opening
  <2>3. /\ loop.first \in 1..(Len(loop.context) + 1) /\ loop.context = state.messages
        /\ loop.new = SubSeq(loop.context, loop.first, Len(loop.context))
    BY <2>1, <2>2 DEF Accounts, From, At, Failing, Handling
  <2>4. Len(loop'.context) = Len(loop.context) + 1 /\ Len(loop.context) \in Nat
    BY <1>0, <2>1, AppendProperties, LenProperties
  <2>5. loop'.first \in 1..(Len(loop'.context) + 1) /\ loop'.first <= Len(loop'.context)
    BY <2>1, <2>3, <2>4
  <2>6. loop'.new = SubSeq(loop'.context, loop'.first, Len(loop'.context) - 1)
    <3>1. Len(loop'.context) - 1 = Len(loop.context)
      BY <2>4
    <3> QED  BY <1>0, <2>1, <2>3, <3>1, RestAppended
  <2>7. loop'.pc \notin Handling
    BY <2>1 DEF Handling
  <2> QED  BY <2>1, <2>2, <2>3, <2>5, <2>6, <2>7 DEF Accounts, At
<1>2. CASE StreamEnd
  <2>1. PICK final \in Messages :
          /\ At("streaming") /\ loop'.pc = "answered"
          /\ loop'.prompts = loop.prompts /\ loop'.new = loop.new /\ loop'.first = loop.first
          /\ loop'.batch = [loop.batch EXCEPT !.answer = final]
          /\ loop'.context = [loop.context EXCEPT ![Len(loop.context)] = final]
          /\ state'.messages = Append(state.messages, final)
    BY <1>2, StreamEndMoves, MessageKinds DEF Arrives, Becomes
  <2>2. PICK p \in Messages : loop.context = Append(state.messages, p)
    BY <2>1 DEF Accounts, At, Failing
  <2>3. /\ loop.first <= Len(loop.context) /\ loop.first \in 1..(Len(loop.context) + 1)
        /\ loop.new = SubSeq(loop.context, loop.first, Len(loop.context) - 1)
    BY <2>1 DEF Accounts, At, Failing
  <2>4. loop'.context = Append(state.messages, final)
    <3>1. loop'.context = WithLast(loop.context, final)
      BY <2>1 DEF WithLast
    <3>2. WithLast(Append(state.messages, p), final) = Append(state.messages, final)
      BY <1>0, <2>1, <2>2, LastReplaced
    <3> QED  BY <2>2, <3>1, <3>2
  <2>5. /\ Len(loop.context) = Len(state.messages) + 1 /\ Len(state.messages) \in Nat
        /\ Len(loop'.context) = Len(state.messages) + 1
        /\ loop'.context[Len(loop'.context)] = final
    BY <1>0, <2>2, <2>4, AppendProperties, LenProperties
  <2>6. loop'.new = SubSeq(loop'.context, loop'.first, Len(loop'.context) - 1)
    <3>1. loop.first \in 1..(Len(state.messages) + 1) /\ Len(loop.context) - 1 = Len(state.messages)
          /\ Len(loop'.context) - 1 = Len(state.messages)
      BY <2>3, <2>5
    <3>2. \A m \in Messages :
            SubSeq(Append(state.messages, m), loop.first, Len(state.messages))
              = SubSeq(state.messages, loop.first, Len(state.messages))
      BY <1>0, <3>1, RestAppended
    <3>3. loop.new = SubSeq(state.messages, loop.first, Len(state.messages))
      BY <2>2, <2>3, <3>1, <3>2
    <3>4. SubSeq(loop'.context, loop'.first, Len(loop'.context) - 1)
            = SubSeq(Append(state.messages, final), loop.first, Len(state.messages))
      BY <2>1, <2>4, <3>1
    <3> QED  BY <2>1, <3>2, <3>3, <3>4
  <2>7. Injected' = loop' /\ loop'.pc \notin Handling
    BY <2>1, Elsewhere DEF Handling
  <2>8. Answer' = final
    BY <2>1, LoopFields DEF LoopInv, Types, BatchRecord, Answer
  <2>9. ~loop.prompts
    BY <2>1 DEF LoopInv, Shape, At, Opening
  <2> QED  BY <2>1, <2>3, <2>4, <2>5, <2>6, <2>7, <2>8, <2>9 DEF Accounts, At
<1> QED  BY <1>1, <1>2

\* With the answer the run reports all of the context.
LEMMA AnswerReported ==
  ASSUME LoopInv, Accounts, At("answered")
  PROVE  /\ loop.first \in 1..(Len(loop.context) + 1) /\ loop.context = state.messages
         /\ Append(loop.new, Answer) = From(loop.context) /\ ~loop.prompts
<1>1. /\ loop.context \in Seq(Messages) /\ Len(loop.context) \in Nat
      /\ Answer \in Messages /\ ~loop.prompts
  <2>1. Answer \in AnswerMessages
    BY DEF LoopInv, BatchInv, WithAnswer, At
  <2>2. ~loop.prompts
    BY DEF LoopInv, Shape, At, Opening
  <2>3. loop.context \in Seq(Messages)
    BY LoopFields DEF LoopInv, Types
  <2> QED  BY <2>1, <2>2, <2>3, MessageKinds, LenProperties
<1>2. Injected = loop
  BY DEF Injected, At
<1>3. /\ loop.first \in 1..(Len(loop.context) + 1) /\ loop.context = state.messages
      /\ loop.first <= Len(loop.context) /\ loop.context[Len(loop.context)] = Answer
      /\ loop.new = SubSeq(loop.context, loop.first, Len(loop.context) - 1)
  BY <1>1, <1>2 DEF Accounts, At, Failing, Handling
<1>4. SubSeq(loop.context, loop.first, Len(loop.context)) = loop.new \o <<Answer>>
  <2>1. /\ loop.first \in 1..Len(loop.context)
        /\ Len(loop.context) \in loop.first..Len(loop.context)
    BY <1>1, <1>3
  <2> QED  BY <1>1, <1>3, <2>1, SubSeqRecursiveSecond
<1>5. Append(loop.new, Answer) = loop.new \o <<Answer>>
  <2>1. loop.new \in Seq(Messages)
    BY LoopFields DEF LoopInv, Types
  <2> QED  BY <1>1, <2>1, AppendIsConcat
<1> QED  BY <1>1, <1>3, <1>4, <1>5 DEF From

LEMMA AnsweredAccounts ==
  ASSUME LoopInv, Accounts, ErrorTurn \/ PlainTurn \/ BeginBatch
  PROVE  Accounts'
<1>1. /\ At("answered") /\ loop'.pc \in {"last_turn", "turn_end", "tool_start"}
      /\ loop'.prompts = loop.prompts /\ loop'.context = loop.context /\ loop'.first = loop.first
      /\ loop'.new = Append(loop.new, Answer)
      /\ Results' = Results /\ state'.messages = state.messages
  <2>1. CASE ErrorTurn \/ PlainTurn
    <3>1. /\ At("answered") /\ NothingSaid
          /\ Moves(Answered, "last_turn") \/ Moves(Answered, "turn_end")
      BY <2>1, AnsweredMoves
    <3>2. SameBut(Answered, {"new"}) /\ Answered.new = Append(loop.new, Answer)
      BY <3>1, AnsweredIs DEF LoopInv, Types, BatchInv, WithAnswer, At
    <3>3. loop'.batch = loop.batch
      BY <3>1, <3>2 DEF Moves, SameBut
    <3> QED  BY <3>1, <3>2, <3>3, BatchKept DEF Moves, SameBut, NothingSaid, Becomes
  <2>2. CASE BeginBatch
    <3>1. PICK how :
            /\ At("answered") /\ loop'.pc = "tool_start" /\ loop'.prompts = loop.prompts
            /\ loop'.context = loop.context /\ loop'.first = loop.first
            /\ loop'.new = Append(loop.new, Answer)
            /\ loop'.batch = [loop.batch EXCEPT !.mode = how]
            /\ state'.messages = state.messages
      BY <2>2, BeginBatchMoves DEF Becomes
    <3>2. loop'.batch.results = loop.batch.results
      BY <3>1, LoopFields DEF LoopInv, Types, BatchRecord
    <3> QED  BY <3>1, <3>2 DEF Results, Batch
  <2> QED  BY <2>1, <2>2
<1>2. /\ loop.first \in 1..(Len(loop.context) + 1) /\ loop.context = state.messages
      /\ Append(loop.new, Answer) = From(loop.context) /\ ~loop.prompts
  BY <1>1, AnswerReported
<1>3. Injected' = loop' /\ loop'.pc \notin {"injected", "streaming", "answered"}
  BY <1>1, Elsewhere
<1>4. loop'.new = SubSeq(loop'.context, loop'.first, Len(loop'.context))
  BY <1>1, <1>2 DEF From
<1>5. loop'.context \o Results' = state'.messages
  <2>1. Results = <<>> /\ loop.context \in Seq(Messages)
    BY <1>1, LoopFields DEF LoopInv, Types, BatchInv, At
  <2>2. loop.context \o <<>> = loop.context
    BY <2>1, ConcatEmptySeq
  <2> QED  BY <1>1, <1>2, <2>1, <2>2
<1> QED  BY <1>1, <1>2, <1>3, <1>4, <1>5 DEF Accounts, From, At

\* While calls are handled the context waits for the results.
LEMMA HandlingAccounts ==
  ASSUME LoopInv, Accounts, loop.pc \in Handling, loop'.pc \in Handling,
         loop'.context = loop.context, loop'.new = loop.new, loop'.first = loop.first,
         loop'.prompts = loop.prompts,
         loop.context \o Results = state.messages => loop.context \o Results' = state'.messages
  PROVE  Accounts'
<1>1. /\ loop.pc \notin Failing \cup {"idle", "injected", "streaming", "answered"}
      /\ loop'.pc \notin Failing \cup {"idle", "injected", "streaming", "answered"}
  BY DEF Handling, Failing
<1>2. Injected = loop /\ Injected' = loop'
  BY <1>1, Elsewhere DEF Injected, At
<1>3. ~loop.prompts
  BY DEF LoopInv, Shape, Handling, Opening
<1> QED  BY <1>1, <1>2, <1>3 DEF Accounts, From, At

LEMMA CallAccounts ==
  ASSUME LoopInv, Accounts,
         \/ FailCall \/ ExecuteCall \/ CallExecuted \/ SequentialResult \/ SequentialNext
         \/ PrepareRunner \/ AfterImmediate \/ Joined \/ ParallelNext
  PROVE  Accounts'
<1>0. loop \in LoopRecord
  BY DEF LoopInv, Types
<1>1. /\ loop.pc \in Handling /\ loop'.pc \in Handling
      /\ loop'.context = loop.context /\ loop'.new = loop.new /\ loop'.first = loop.first
      /\ loop'.prompts = loop.prompts
      /\ Results' = Results /\ state'.messages = state.messages
  <2>1. CASE FailCall \/ CallExecuted
    <3>1. PICK o \in OutcomeRecord :
            /\ loop.pc \in {"tool_start", "executing"}
            /\ SameBut(AddOutcome(o), {"batch"}) /\ Moves(AddOutcome(o), "tool_end")
            /\ AddOutcome(o).batch = [loop.batch EXCEPT !.outcomes = Append(Batch.outcomes, o)]
            /\ state'.messages = state.messages
      BY <2>1, OutcomeMoves DEF Becomes
    <3> QED  BY <1>0, <3>1, OutcomeAdded DEF Moves, SameBut, Handling
  <2>2. CASE ExecuteCall \/ SequentialResult \/ SequentialNext \/ ParallelNext
    <3>1. /\ loop.pc \in Handling /\ \E pc \in Handling : Moves(loop, pc)
          /\ state'.messages = state.messages
      BY <2>2, ResultMoves DEF Becomes, NothingSaid, ExecuteCall, SequentialResult,
                               SequentialNext, ParallelNext, At, Handling
    <3> QED  BY <3>1, BatchKept DEF Moves
  <2>3. CASE PrepareRunner
    <3>1. PICK o \in OutcomeRecord :
            /\ At("tool_start") /\ SameBut(AddOutcome(o), {"batch"})
            /\ AddOutcome(o).batch = [loop.batch EXCEPT !.outcomes = Append(Batch.outcomes, o)]
            /\ \E pc \in {"tool_start", "join"} : Moves(AddOutcome(o), pc)
            /\ state'.messages = state.messages
      BY <2>3, RunnerMoves DEF Spawns, NothingSaid, Becomes
    <3> QED  BY <1>0, <3>1, OutcomeAdded DEF Moves, SameBut, At, Handling
  <2>4. CASE AfterImmediate
    <3>1. /\ At("tool_end") /\ \E pc \in {"tool_start", "join"} : Moves(loop, pc)
          /\ state'.messages = state.messages
      BY <2>4, ImmediateMoves DEF Spawns, NothingSaid, Becomes
    <3> QED  BY <3>1, BatchKept DEF Moves, At, Handling
  <2>5. CASE Joined
    BY <1>0, <2>5, JoinedMoves, OutcomesReplaced DEF NothingSaid, Becomes, At, Handling
  <2> QED  BY <2>1, <2>2, <2>3, <2>4, <2>5
<1> QED  BY <1>1, HandlingAccounts

LEMMA ResultAccounts ==
  ASSUME LoopInv, Accounts, EndResult \/ FinishBatch
  PROVE  Accounts'
<1>0. loop \in LoopRecord /\ Results \in Seq(Messages) /\ loop.context \in Seq(Messages)
      /\ loop.new \in Seq(Messages)
  <2>1. loop \in LoopRecord
    BY DEF LoopInv, Types
  <2> QED  BY <2>1, LoopFields, BatchFields, MessageKinds, SeqMonotonic
<1>1. CASE EndResult
  <2>1. /\ At("result_start") /\ loop'.pc = "result_end" /\ NextResult \in ResultMessages
        /\ loop'.context = loop.context /\ loop'.new = loop.new /\ loop'.first = loop.first
        /\ loop'.prompts = loop.prompts
        /\ loop'.batch = [loop.batch EXCEPT !.results = Append(Results, NextResult)]
        /\ state'.messages = Append(state.messages, NextResult)
    BY <1>1, EndResultMoves DEF Arrives, Becomes
  <2>2. Results' = Append(Results, NextResult) /\ NextResult \in Messages
    BY <1>0, <2>1, ResultAdded, MessageKinds
  <2>3. loop.context \o Append(Results, NextResult) = Append(loop.context \o Results, NextResult)
    <3>1. \A s, t \in Seq(Messages), m \in Messages : s \o Append(t, m) = Append(s \o t, m)
      BY ConcatAppended
    <3> QED  BY <1>0, <2>2, <3>1
  <2> QED  BY <2>1, <2>2, <2>3, HandlingAccounts DEF At, Handling
<1>2. CASE FinishBatch
  <2>1. /\ At("result_end") /\ loop'.pc = "turn_end" /\ loop'.prompts = loop.prompts
        /\ loop'.first = loop.first /\ loop'.context = loop.context \o Results
        /\ loop'.new = loop.new \o Results /\ state'.messages = state.messages
    BY <1>2, FinishBatchMoves DEF NothingSaid, Becomes
  <2>2. Injected = loop /\ Injected' = loop' /\ ~loop.prompts
    BY <2>1, Elsewhere DEF Injected, At, LoopInv, Shape, Opening
  <2>3. /\ loop.first \in 1..(Len(loop.context) + 1) /\ loop.context \o Results = state.messages
        /\ loop.new = SubSeq(loop.context, loop.first, Len(loop.context))
    BY <2>1, <2>2 DEF Accounts, From, At, Failing, Handling
  <2>4. loop'.new = SubSeq(loop'.context, loop'.first, Len(loop'.context))
    <3>1. SubSeq(loop.context \o Results, loop.first, Len(loop.context \o Results))
            = SubSeq(loop.context, loop.first, Len(loop.context)) \o Results
      BY <1>0, <2>3, RestOfConcat
    <3> QED  BY <2>1, <2>3, <3>1
  <2>5. loop'.first \in 1..(Len(loop'.context) + 1)
    <3>1. /\ Len(loop'.context) = Len(loop.context) + Len(Results)
          /\ Len(loop.context) \in Nat /\ Len(Results) \in Nat
      BY <1>0, <2>1, ConcatProperties, LenProperties
    <3> QED  BY <2>1, <2>3, <3>1
  <2>6. loop'.pc \notin Handling
    BY <2>1 DEF Handling
  <2> QED  BY <2>1, <2>2, <2>3, <2>4, <2>5, <2>6 DEF Accounts, From, At
<1> QED  BY <1>1, <1>2

\* A run starts with a copy of the transcript and its own messages after it.
LEMMA StartAccounts ==
  ASSUME LoopInv, NEW messages, NEW skip, Starts(messages, skip)
  PROVE  Accounts'
<1>1. /\ loop'.pc = "agent_start" /\ loop'.prompts /\ loop'.inject = messages
      /\ loop'.context = state.messages \o messages /\ loop'.new = messages
      /\ loop'.first = Len(state.messages) + 1 /\ state'.messages = state.messages
  BY DEF Starts, NothingSaid, Becomes
<1>2. state.messages \in Seq(Messages) /\ messages \in Seq(Messages)
  BY MessageKinds, SeqMonotonic DEF LoopInv, Types, AgentState, Starts
<1>3. /\ Len(loop'.context) = Len(state.messages) + Len(messages)
      /\ Len(state.messages) \in Nat /\ Len(messages) \in Nat
  BY <1>1, <1>2, ConcatProperties, LenProperties
<1>4. loop'.first \in 1..(Len(loop'.context) + 1)
  BY <1>1, <1>3
<1>5. loop'.new = SubSeq(loop'.context, loop'.first, Len(loop'.context))
  <2>1. Len(state.messages) + 1 \in 1..(Len(state.messages) + 1)
    BY <1>3
  <2>2. SubSeq(state.messages \o messages, Len(state.messages) + 1,
               Len(state.messages \o messages)) = messages
    BY <1>2, <2>1, RestOfConcat
  <2> QED  BY <1>1, <2>2
<1>6. Injected' = loop' /\ loop'.pc \notin Handling
  BY <1>1, Elsewhere DEF Handling
<1> QED  BY <1>1, <1>4, <1>5, <1>6 DEF Accounts, From, At

LEMMA AccountsStep == LoopInv /\ Accounts /\ [Next]_vars => Accounts'
<1> SUFFICES ASSUME LoopInv, Accounts, [Next]_vars PROVE Accounts'
  OBVIOUS
<1>1. ASSUME UNCHANGED <<loop, state>>
      PROVE  Accounts'
  BY <1>1, BatchKept DEF Accounts, From, Injected, At
<1>2. ASSUME UNCHANGED loop, state'.messages = state.messages
      PROVE  Accounts'
  BY <1>2, BatchKept DEF Accounts, From, Injected, At
<1>3. CASE Progress
  <2>1. ASSUME Finish \/ FailAgain \/ Fail \/ ReportFailure
        PROVE  loop'.pc \in Failing \cup {"idle"}
    BY <2>1, SettlingMoves, FailMoves, ReportMoves, IdleTyped DEF Settles, Moves, Failing
  <2>2. ASSUME loop'.pc \in Failing \cup {"idle"}
        PROVE  Accounts'
    BY <2>2 DEF Accounts
  <2> QED  BY <1>3, <2>1, <2>2, OpeningAccounts, EndInjectingAccounts, StreamAccounts,
              AnsweredAccounts, CallAccounts, ResultAccounts DEF Progress, Turn, Tools
<1>4. CASE Prompt \/ ContinueTranscript \/ ContinueWithSteering \/ ContinueWithFollowUps
  BY <1>4, StartMoves, StartAccounts
<1>5. CASE CancelRun
  BY <1>5, SettlingMoves, IdleTyped DEF Settles, Accounts
<1>6. CASE /\ \/ \E m \in Steers : Steer(m)
              \/ \E m \in FollowUps : FollowUp(m)
              \/ ClearAllQueues \/ Abort \/ Reset
           /\ UNCHANGED <<loop, tasks, answers>>
  <2>1. UNCHANGED state \/ loop.pc = "idle"
    BY <1>6, CallerMoves DEF LoopInv, Types
  <2> QED  BY <1>1, <1>6, <2>1 DEF Accounts
<1>7. CASE \E c \in DOMAIN tasks : Task(c)
  <2>1. UNCHANGED loop /\ state'.messages = state.messages
    BY <1>7, TaskMoves DEF NothingSaid, Becomes
  <2> QED  BY <1>2, <2>1
<1>8. CASE UNCHANGED vars
  BY <1>1, <1>8 DEF vars, agentVars
<1> QED  BY <1>3, <1>4, <1>5, <1>6, <1>7, <1>8 DEF Next, Caller

\* What the provider is shown, what the transcript says and what the run
\* reports agree, however the callers, the tools and failures interfere.
THEOREM OneConversation == Spec => []AccountsAgree
<1>1. Init => Accounts
  BY IdleTyped DEF Init, Accounts
<1>2. LoopInv /\ Accounts /\ [Next]_vars => Accounts'
  BY AccountsStep
<1>3. LoopInv /\ Accounts => AccountsAgree
  <2> SUFFICES ASSUME LoopInv, Accounts, loop.pc \in {"request", "agent_end"}
               PROVE  AccountsAgree
    BY DEF AccountsAgree, RequestSeesTranscript, RunReportsItsMessages, At
  <2>1. Injected = loop /\ ~loop.prompts
    BY DEF Injected, At, LoopInv, Shape, Opening
  <2>2. loop.context = state.messages /\ loop.new = From(loop.context)
    BY <2>1 DEF Accounts, At, Failing, Handling
  <2> QED  BY <2>2 DEF AccountsAgree, RequestSeesTranscript, RunReportsItsMessages, From
<1> QED  BY <1>1, <1>2, <1>3, RunsAreSound, PTL DEF Spec

-----------------------------------------------------------------------------
(* Every call has its result.                                              *)

\* A result stands as far behind the answer that asked for it as its call
\* stands in that answer.
Follows(s, j, m) ==
  m.role = "toolResult" =>
    /\ j > m.id[2]
    /\ s[j - m.id[2]].role = "assistant" /\ s[j - m.id[2]].id = m.id[1]

ResultsFollow(s) == \A j \in 1..Len(s) : Follows(s, j, s[j])

\* The results of the answer at i are all there.
Complete(s, i) ==
  /\ i + s[i].calls <= Len(s)
  /\ \A k \in 1..s[i].calls : s[i + k] = ToolResult(<<s[i].id, k>>)

\* The answer whose calls are handled, and where the transcript has it.
InHand == loop.pc \in Handling \cup {"answered"}
AnswerAt == Len(state.messages) - Len(Results)

\* Whether the answer at i owes results by now.
Due(i) ==
  /\ state.messages[i].role = "assistant" /\ state.messages[i].stop # "error"
  /\ ~(InHand /\ i = AnswerAt)

Transcript ==
  /\ ResultsFollow(state.messages)
  /\ InHand =>
       /\ AnswerAt \in loop.first..Len(state.messages)
       /\ state.messages[AnswerAt] = Answer
       /\ \A k \in 1..Len(Results) : state.messages[AnswerAt + k] = Results[k]
  /\ loop.pc \notin Failing \cup {"idle"} /\ ~aborted =>
       \A i \in loop.first..Len(state.messages) : Due(i) => Complete(state.messages, i)

LEMMA MessageFields ==
  ASSUME NEW m \in Messages
  PROVE  /\ m.role = "assistant" => m.calls \in Nat
         /\ m.role = "toolResult" => m.id[2] \in Nat /\ m.id[2] > 0
<1>1. ASSUME m.role = "assistant"
      PROVE  m.calls \in Nat
  BY <1>1, LoopAssumption DEF Messages, UserMessages, ResultMessages, AnswerMessages
<1>2. ASSUME m.role = "toolResult"
      PROVE  m.id[2] \in Nat /\ m.id[2] > 0
  <2>1. m.id \in Calls
    BY <1>2 DEF Messages, UserMessages, ResultMessages, AnswerMessages
  <2> QED  BY <2>1, LoopAssumption DEF Calls
<1> QED  BY <1>1, <1>2

LEMMA FollowAppended ==
  ASSUME NEW s \in Seq(Messages), NEW m \in Messages, ResultsFollow(s),
         Follows(s, Len(s) + 1, m)
  PROVE  ResultsFollow(Append(s, m))
<1> SUFFICES ASSUME NEW t, t = Append(s, m) PROVE ResultsFollow(t)
  OBVIOUS
<1>1. /\ t \in Seq(Messages) /\ Len(t) = Len(s) + 1 /\ Len(s) \in Nat /\ t[Len(s) + 1] = m
      /\ \A i \in 1..Len(s) : t[i] = s[i]
  BY AppendProperties, LenProperties
<1> SUFFICES ASSUME NEW j \in 1..(Len(s) + 1), t[j].role = "toolResult"
             PROVE  Follows(t, j, t[j])
  BY <1>1 DEF ResultsFollow, Follows
<1>2. Follows(s, j, t[j])
  <2>1. CASE j \in 1..Len(s)
    BY <1>1, <2>1 DEF ResultsFollow
  <2>2. CASE j = Len(s) + 1
    BY <1>1, <2>2
  <2> QED  BY <1>1, <2>1, <2>2
<1>3. t[j].id[2] \in Nat /\ t[j].id[2] > 0
  <2>1. t[j] \in Messages
    BY <1>1, ElementOfSeq
  <2> QED  BY <2>1, MessageFields
<1>4. j - t[j].id[2] \in 1..Len(s) /\ j > t[j].id[2]
  BY <1>1, <1>2, <1>3 DEF Follows
<1> QED  BY <1>1, <1>2, <1>4 DEF Follows

LEMMA CompleteAppended ==
  ASSUME NEW s \in Seq(Messages), NEW m \in Messages, NEW i \in 1..Len(s),
         s[i].role = "assistant", Complete(s, i)
  PROVE  Complete(Append(s, m), i)
<1> SUFFICES ASSUME NEW t, t = Append(s, m) PROVE Complete(t, i)
  OBVIOUS
<1>1. /\ Len(t) = Len(s) + 1 /\ Len(s) \in Nat /\ \A j \in 1..Len(s) : t[j] = s[j]
      /\ s[i] \in Messages
  BY AppendProperties, LenProperties, ElementOfSeq
<1>2. s[i].calls \in Nat
  BY <1>1, MessageFields
<1>3. \A k \in 1..s[i].calls : i + k \in 1..Len(s)
  BY <1>1, <1>2 DEF Complete
<1> QED  BY <1>1, <1>2, <1>3 DEF Complete

\* A step that adds no message and leaves the answer in hand as it is.
LEMMA TranscriptKept ==
  ASSUME Transcript, state'.messages = state.messages, aborted' = aborted \/ aborted' = TRUE,
         \/ loop'.pc \in Failing \cup {"idle"}
         \/ /\ loop.pc \notin Failing \cup {"idle"} /\ loop'.first = loop.first
            /\ loop.pc \in Handling \cup {"answered"} <=> loop'.pc \in Handling \cup {"answered"}
            /\ InHand => Answer' = Answer /\ Results' = Results
  PROVE  Transcript'
<1>1. CASE loop'.pc \in Failing \cup {"idle"}
  <2>1. ~InHand'
    BY <1>1 DEF InHand, Handling, Failing
  <2> QED  BY <1>1, <2>1 DEF Transcript
<1>2. CASE /\ loop.pc \notin Failing \cup {"idle"} /\ loop'.first = loop.first
           /\ loop.pc \in Handling \cup {"answered"} <=> loop'.pc \in Handling \cup {"answered"}
           /\ InHand => Answer' = Answer /\ Results' = Results
  <2>1. InHand' <=> InHand
    BY <1>2 DEF InHand
  <2>2. InHand => AnswerAt' = AnswerAt
    BY <1>2 DEF AnswerAt
  <2>3. \A i : Due(i)' <=> Due(i)
    BY <2>1, <2>2 DEF Due
  <2>4. /\ ResultsFollow(state'.messages)
        /\ \A i : Complete(state'.messages, i) <=> Complete(state.messages, i)
    BY DEF Transcript
  <2>5. InHand' =>
          /\ AnswerAt' \in loop'.first..Len(state'.messages)
          /\ state'.messages[AnswerAt'] = Answer'
          /\ \A k \in 1..Len(Results') : state'.messages[AnswerAt' + k] = Results'[k]
    BY <1>2, <2>1, <2>2 DEF Transcript
  <2>6. ~aborted' =>
          \A i \in loop'.first..Len(state'.messages) : Due(i)' => Complete(state'.messages, i)
    BY <1>2, <2>3 DEF Transcript
  <2> QED  BY <2>4, <2>5, <2>6 DEF Transcript
<1> QED  BY <1>1, <1>2

\* What a new message leaves of the transcript's invariant.
LEMMA MessageJoins ==
  ASSUME LoopInv, Accounts, Transcript, NEW m \in Messages,
         state'.messages = Append(state.messages, m),
         Follows(state.messages, Len(state.messages) + 1, m)
  PROVE  /\ ResultsFollow(state'.messages)
         /\ Len(state'.messages) = Len(state.messages) + 1 /\ Len(state.messages) \in Nat
         /\ state'.messages[Len(state.messages) + 1] = m
         /\ \A i \in 1..Len(state.messages) : state'.messages[i] = state.messages[i]
         /\ loop.pc \notin Failing \cup {"idle"} => loop.first \in Nat /\ loop.first > 0
         /\ loop.pc \notin Failing \cup {"idle"} /\ ~aborted =>
              \A i \in loop.first..Len(state.messages) :
                Due(i) => Complete(state'.messages, i)
<1>1. state.messages \in Seq(Messages)
  BY DEF LoopInv, Types, AgentState
<1>2. /\ Len(state'.messages) = Len(state.messages) + 1 /\ Len(state.messages) \in Nat
      /\ state'.messages[Len(state.messages) + 1] = m
      /\ \A i \in 1..Len(state.messages) : state'.messages[i] = state.messages[i]
  BY <1>1, AppendProperties, LenProperties
<1>3. ResultsFollow(state'.messages)
  BY <1>1, FollowAppended DEF Transcript
<1>4. ASSUME loop.pc \notin Failing \cup {"idle"}
      PROVE  loop.first \in Nat /\ loop.first > 0
  <2>1. loop.first \in 1..(Len(loop.context) + 1)
    BY <1>4 DEF Accounts
  <2>2. Len(loop.context) \in Nat
    BY LoopFields, LenProperties DEF LoopInv, Types
  <2> QED  BY <2>1, <2>2
<1>5. ASSUME loop.pc \notin Failing \cup {"idle"}, ~aborted,
             NEW i \in loop.first..Len(state.messages), Due(i)
      PROVE  Complete(state'.messages, i)
  <2>1. i \in 1..Len(state.messages) /\ Complete(state.messages, i)
    BY <1>2, <1>4, <1>5 DEF Transcript
  <2> QED  BY <1>1, <1>5, <2>1, CompleteAppended DEF Due
<1> QED  BY <1>2, <1>3, <1>4, <1>5

LEMMA EndInjectingTranscript ==
  ASSUME LoopInv, Accounts, Transcript, EndInjecting
  PROVE  Transcript'
<1>1. /\ At("inject") /\ loop'.pc = "injected" /\ loop'.first = loop.first
      /\ state'.messages = Append(state.messages, Head(loop.inject))
      /\ Head(loop.inject) \in Messages /\ Head(loop.inject).role = "user"
      /\ aborted' = aborted
  BY OpeningMoves, MessageKinds DEF Moves, Arrives, Becomes, RunOnly, QueuesKept
<1>2. Follows(state.messages, Len(state.messages) + 1, Head(loop.inject))
  BY <1>1 DEF Follows
<1>3. ~InHand /\ ~InHand' /\ loop.pc \notin Failing \cup {"idle"}
  BY <1>1 DEF InHand, Handling, Failing, At
<1>4. ASSUME ~aborted, NEW i \in loop.first..(Len(state.messages) + 1), Due(i)'
      PROVE  Complete(state'.messages, i)
  <2>1. Len(state.messages) \in Nat /\ loop.first \in Nat /\ loop.first > 0
    BY <1>1, <1>2, <1>3, MessageJoins
  <2>2. i # Len(state.messages) + 1
    BY <1>1, <1>2, <1>4, MessageJoins DEF Due
  <2>3. i \in loop.first..Len(state.messages) /\ i \in 1..Len(state.messages)
    BY <2>1, <2>2
  <2>4. Due(i)
    BY <1>1, <1>2, <1>3, <1>4, <2>3, MessageJoins DEF Due
  <2> QED  BY <1>1, <1>2, <1>3, <1>4, <2>3, <2>4, MessageJoins
<1> QED  BY <1>1, <1>2, <1>3, <1>4, MessageJoins DEF Transcript

LEMMA StreamEndTranscript ==
  ASSUME LoopInv, Accounts, Transcript, StreamEnd
  PROVE  Transcript'
<1>1. PICK final \in AnswerMessages :
        /\ At("streaming") /\ loop'.pc = "answered" /\ loop'.first = loop.first
        /\ loop'.batch = [loop.batch EXCEPT !.answer = final]
        /\ state'.messages = Append(state.messages, final)
        /\ aborted' = aborted
  BY StreamEndMoves DEF Arrives, Becomes, QueuesKept
<1>2. final \in Messages /\ Follows(state.messages, Len(state.messages) + 1, final)
  BY MessageKinds DEF Follows
<1>3. ~InHand /\ InHand' /\ loop.pc \notin Failing \cup {"idle"}
  BY <1>1 DEF InHand, Handling, Failing, At
<1>4. Answer' = final /\ Results' = <<>>
  <2>1. loop.batch = NoBatch
    BY <1>1 DEF LoopInv, BatchInv, WithAnswer, Handling, At
  <2> QED  BY <1>1, <2>1 DEF NoBatch, Answer, Results, Batch
<1>5. AnswerAt' = Len(state.messages) + 1
  BY <1>1, <1>2, <1>4, MessageJoins DEF AnswerAt
<1>6. loop.first <= Len(state.messages) + 1
  <2>1. PICK p \in Messages : loop.context = Append(state.messages, p)
    BY <1>1 DEF Accounts, At, Failing
  <2>2. Len(loop.context) = Len(state.messages) + 1
    BY <2>1, AppendProperties DEF LoopInv, Types, AgentState
  <2> QED  BY <1>1, <2>2 DEF Accounts, At, Failing
<1>7. ASSUME ~aborted, NEW i \in loop.first..(Len(state.messages) + 1), Due(i)'
      PROVE  Complete(state'.messages, i)
  <2>1. Len(state.messages) \in Nat /\ loop.first \in Nat /\ loop.first > 0
    BY <1>1, <1>2, <1>3, MessageJoins
  <2>2. i # Len(state.messages) + 1
    BY <1>3, <1>5, <1>7 DEF Due
  <2>3. i \in loop.first..Len(state.messages) /\ i \in 1..Len(state.messages)
    BY <2>1, <2>2
  <2>4. Due(i)
    BY <1>1, <1>2, <1>3, <1>7, <2>3, MessageJoins DEF Due
  <2> QED  BY <1>1, <1>2, <1>3, <1>7, <2>3, <2>4, MessageJoins
<1>8. AnswerAt' \in loop'.first..Len(state'.messages) /\ state'.messages[AnswerAt'] = Answer'
  BY <1>1, <1>2, <1>3, <1>4, <1>5, <1>6, MessageJoins
<1> QED  BY <1>1, <1>2, <1>4, <1>7, <1>8, MessageJoins DEF Transcript

\* The next result lands behind its answer, in the place of its call.
LEMMA EndResultTranscript ==
  ASSUME LoopInv, Accounts, Transcript, EndResult
  PROVE  Transcript'
<1>0. /\ loop \in LoopRecord /\ Len(Results) \in Nat /\ Answer \in AnswerMessages
      /\ Len(state.messages) \in Nat /\ At("result_start")
  <2>1. loop \in LoopRecord /\ state.messages \in Seq(Messages) /\ Answer \in AnswerMessages
    BY DEF LoopInv, Types, AgentState, BatchInv, WithAnswer, Handling, EndResult, At
  <2> QED  BY <2>1, BatchFields, LenProperties DEF EndResult
<1>1. /\ At("result_start") /\ loop'.pc = "result_end" /\ loop'.first = loop.first
      /\ NextResult \in ResultMessages
      /\ loop'.batch = [loop.batch EXCEPT !.results = Append(Results, NextResult)]
      /\ state'.messages = Append(state.messages, NextResult)
      /\ aborted' = aborted
  BY EndResultMoves DEF Arrives, Becomes, RunOnly, QueuesKept
<1>2. /\ Answer' = Answer /\ Len(Results') = Len(Results) + 1
      /\ \A k \in 1..Len(Results) : Results'[k] = Results[k]
      /\ Results'[Len(Results) + 1] = NextResult
  BY <1>0, <1>1, ResultAdded
<1>3. InHand /\ InHand' /\ loop.pc \notin Failing \cup {"idle"}
  BY <1>1 DEF InHand, Handling, Failing, At
<1>4. /\ AnswerAt \in loop.first..Len(state.messages)
      /\ state.messages[AnswerAt] = Answer
      /\ \A k \in 1..Len(Results) : state.messages[AnswerAt + k] = Results[k]
      /\ AnswerAt = Len(state.messages) - Len(Results)
  BY <1>3 DEF Transcript, AnswerAt
<1>5. loop.first \in Nat /\ loop.first > 0 /\ AnswerAt \in 1..Len(state.messages)
  <2>1. loop.first \in 1..(Len(loop.context) + 1)
    BY <1>3 DEF Accounts
  <2>2. Len(loop.context) \in Nat
    BY <1>0, LoopFields, LenProperties
  <2> QED  BY <1>0, <1>4, <2>1, <2>2
<1>6. NextResult \in Messages /\ Follows(state.messages, Len(state.messages) + 1, NextResult)
  <2>1. NextResult.id = <<Answer.id, Len(Results) + 1>>
    BY DEF NextResult, Results, ToolResult, Call
  <2>2. NextResult.id[1] = Answer.id /\ NextResult.id[2] = Len(Results) + 1
    BY <2>1
  <2>3. Len(state.messages) + 1 - (Len(Results) + 1) = AnswerAt
    <3>1. \A a, b \in Nat : a + 1 - (b + 1) = a - b
      OBVIOUS
    <3> QED  BY <1>0, <3>1 DEF AnswerAt
  <2>4. Len(state.messages) + 1 > Len(Results) + 1
    BY <1>0, <1>4, <1>5
  <2> QED  BY <1>0, <1>1, <1>4, <2>2, <2>3, <2>4, MessageKinds DEF Follows
<1>7. AnswerAt' = AnswerAt
  <2>1. Len(state'.messages) = Len(state.messages) + 1
    BY <1>1, <1>6, MessageJoins
  <2> QED  BY <1>0, <1>2, <1>4, <2>1 DEF AnswerAt
<1>8. /\ AnswerAt' \in loop'.first..Len(state'.messages)
      /\ state'.messages[AnswerAt'] = Answer'
      /\ \A k \in 1..Len(Results') : state'.messages[AnswerAt' + k] = Results'[k]
  <2>1. /\ Len(state'.messages) = Len(state.messages) + 1
        /\ state'.messages[Len(state.messages) + 1] = NextResult
        /\ \A i \in 1..Len(state.messages) : state'.messages[i] = state.messages[i]
    BY <1>1, <1>6, MessageJoins
  <2>2. AnswerAt \in loop.first..(Len(state.messages) + 1)
    BY <1>0, <1>4, <1>5
  <2>3. ASSUME NEW k \in 1..(Len(Results) + 1)
        PROVE  state'.messages[AnswerAt + k] = Results'[k]
    <3>1. CASE k \in 1..Len(Results)
      <4>1. AnswerAt + k \in 1..Len(state.messages)
        BY <1>0, <1>4, <1>5, <3>1
      <4> QED  BY <1>2, <1>4, <2>1, <3>1, <4>1
    <3>2. CASE k = Len(Results) + 1
      <4>1. AnswerAt + k = Len(state.messages) + 1
        <5>1. \A a, b \in Nat : a - b + (b + 1) = a + 1
          OBVIOUS
        <5> QED  BY <1>0, <3>2, <5>1 DEF AnswerAt
      <4> QED  BY <1>2, <2>1, <3>2, <4>1
    <3> QED  BY <1>0, <3>1, <3>2
  <2> QED  BY <1>1, <1>2, <1>4, <1>5, <1>7, <2>1, <2>2, <2>3
<1>9. ASSUME ~aborted, NEW i \in loop.first..(Len(state.messages) + 1), Due(i)'
      PROVE  Complete(state'.messages, i)
  <2>1. i # Len(state.messages) + 1
    BY <1>1, <1>6, <1>9, MessageJoins, MessageKinds DEF Due
  <2>2. i \in loop.first..Len(state.messages) /\ i \in 1..Len(state.messages)
    BY <1>0, <1>5, <2>1
  <2>3. Due(i)
    BY <1>1, <1>3, <1>6, <1>7, <1>9, <2>2, MessageJoins DEF Due
  <2> QED  BY <1>1, <1>3, <1>6, <1>9, <2>2, <2>3, MessageJoins
<1> QED  BY <1>1, <1>6, <1>8, <1>9, MessageJoins DEF Transcript

\* The answer leaves the run's hands: it failed, has no calls, or all of its
\* results are there.
LEMMA TurnEndTranscript ==
  ASSUME LoopInv, Accounts, Transcript, ErrorTurn \/ PlainTurn \/ FinishBatch
  PROVE  Transcript'
<1>1. /\ loop.pc \in {"answered", "result_end"} /\ loop'.pc \in {"last_turn", "turn_end"}
      /\ loop'.first = loop.first /\ state'.messages = state.messages
      /\ aborted' = aborted /\ Answer \in AnswerMessages
  <2>1. CASE ErrorTurn \/ PlainTurn
    <3>1. /\ At("answered") /\ NothingSaid /\ RunOnly
          /\ Moves(Answered, "last_turn") \/ Moves(Answered, "turn_end")
      BY <2>1, AnsweredMoves
    <3>2. Answer \in AnswerMessages /\ SameBut(Answered, {"new"})
      BY <3>1, AnsweredIs DEF LoopInv, Types, BatchInv, WithAnswer, At
    <3> QED  BY <3>1, <3>2 DEF Moves, SameBut, NothingSaid, Becomes, RunOnly, QueuesKept, At
  <2>2. CASE FinishBatch
    BY <2>2, FinishBatchMoves DEF NothingSaid, Becomes, RunOnly, QueuesKept, At
  <2> QED  BY <2>1, <2>2
<1>2. InHand /\ ~InHand' /\ loop.pc \notin Failing \cup {"idle"}
  BY <1>1 DEF InHand, Handling, Failing
<1>3. /\ AnswerAt \in loop.first..Len(state.messages)
      /\ state.messages[AnswerAt] = Answer
      /\ \A k \in 1..Len(Results) : state.messages[AnswerAt + k] = Results[k]
  BY <1>2 DEF Transcript
<1>4. ASSUME ~aborted, Answer.stop # "error"
      PROVE  Complete(state.messages, AnswerAt)
  <2>1. Len(Results) = Answer.calls /\ \A k \in 1..Len(Results) : Results[k] = ToolResult(Call(k))
    <3>1. CASE loop.pc = "answered"
      <4>1. Answer.calls = 0 /\ Results = <<>>
        BY <1>4, <3>1, FinishBatchMoves DEF ErrorTurn, PlainTurn, LoopInv, BatchInv, At
      <4> QED  BY <4>1
    <3>2. CASE loop.pc = "result_end"
      <4>1. FinishBatch
        BY <3>2 DEF ErrorTurn, PlainTurn, At
      <4>2. IF Batch.mode = "parallel" THEN Len(Results) = Prepared ELSE Prepared = Answer.calls
        BY <1>4, <4>1, FinishBatchMoves
      <4>3. Len(Results) = Prepared /\ Prepared = Answer.calls
        BY <1>4, <3>2, <4>2 DEF LoopInv, BatchInv, Handling
      <4> QED  BY <3>2, <4>3 DEF LoopInv, BatchInv, Handling
    <3> QED  BY <1>1, <3>1, <3>2
  <2>2. AnswerAt + Answer.calls <= Len(state.messages)
    <3>1. Len(state.messages) \in Nat /\ Len(Results) \in Nat
      BY BatchFields, LenProperties DEF LoopInv, Types, AgentState
    <3> QED  BY <2>1, <3>1 DEF AnswerAt
  <2>3. \A k \in 1..Answer.calls : state.messages[AnswerAt + k] = ToolResult(<<Answer.id, k>>)
    BY <1>3, <2>1 DEF Call
  <2> QED  BY <1>3, <2>2, <2>3 DEF Complete
<1>5. ASSUME ~aborted, NEW i \in loop.first..Len(state.messages), Due(i)'
      PROVE  Complete(state.messages, i)
  <2>1. CASE i = AnswerAt
    BY <1>1, <1>3, <1>4, <1>5, <2>1 DEF Due
  <2>2. CASE i # AnswerAt
    <3>1. Due(i)
      BY <1>1, <1>5, <2>2 DEF Due
    <3> QED  BY <1>2, <1>5, <3>1 DEF Transcript
  <2> QED  BY <2>1, <2>2
<1> QED  BY <1>1, <1>2, <1>5 DEF Transcript

LEMMA CallTranscript ==
  ASSUME LoopInv, Transcript,
         \/ BeginBatch \/ FailCall \/ ExecuteCall \/ CallExecuted \/ SequentialResult
         \/ SequentialNext \/ PrepareRunner \/ AfterImmediate \/ Joined \/ ParallelNext
  PROVE  Transcript'
<1>0. loop \in LoopRecord
  BY DEF LoopInv, Types
<1>1. /\ loop.pc \in Handling \cup {"answered"} /\ loop'.pc \in Handling
      /\ loop'.first = loop.first /\ state'.messages = state.messages
      /\ Results' = Results /\ Answer' = Answer /\ aborted' = aborted
  <2>1. CASE BeginBatch
    <3>1. PICK how : /\ At("answered") /\ loop'.pc = "tool_start" /\ loop'.first = loop.first
                     /\ loop'.batch = [loop.batch EXCEPT !.mode = how]
                     /\ state'.messages = state.messages /\ aborted' = aborted
      BY <2>1, BeginBatchMoves DEF Becomes, RunOnly, QueuesKept
    <3>2. loop'.batch.results = loop.batch.results /\ loop'.batch.answer = loop.batch.answer
      BY <1>0, <3>1, LoopFields DEF BatchRecord
    <3> QED  BY <3>1, <3>2 DEF Results, Batch, Answer, At, Handling
  <2>2. CASE FailCall \/ CallExecuted
    <3>1. PICK o \in OutcomeRecord :
            /\ loop.pc \in {"tool_start", "executing"}
            /\ SameBut(AddOutcome(o), {"batch"}) /\ Moves(AddOutcome(o), "tool_end")
            /\ AddOutcome(o).batch = [loop.batch EXCEPT !.outcomes = Append(Batch.outcomes, o)]
            /\ state'.messages = state.messages /\ RunOnly
      BY <2>2, OutcomeMoves DEF Becomes
    <3> QED  BY <1>0, <3>1, OutcomeAdded DEF Moves, SameBut, RunOnly, QueuesKept, Handling
  <2>3. CASE ExecuteCall \/ SequentialResult \/ SequentialNext \/ ParallelNext
    <3>1. /\ loop.pc \in Handling /\ \E pc \in Handling : Moves(loop, pc)
          /\ state'.messages = state.messages /\ aborted' = aborted
      BY <2>3, ResultMoves DEF Becomes, NothingSaid, RunOnly, QueuesKept, ExecuteCall,
                               SequentialResult, SequentialNext, ParallelNext, At, Handling
    <3> QED  BY <3>1, BatchKept DEF Moves
  <2>4. CASE PrepareRunner
    <3>1. PICK o \in OutcomeRecord :
            /\ At("tool_start") /\ SameBut(AddOutcome(o), {"batch"})
            /\ AddOutcome(o).batch = [loop.batch EXCEPT !.outcomes = Append(Batch.outcomes, o)]
            /\ \E pc \in {"tool_start", "join"} : Moves(AddOutcome(o), pc)
            /\ state'.messages = state.messages /\ aborted' = aborted
      BY <2>4, RunnerMoves DEF Spawns, NothingSaid, Becomes, RunOnly, QueuesKept, agentVars
    <3> QED  BY <1>0, <3>1, OutcomeAdded DEF Moves, SameBut, At, Handling
  <2>5. CASE AfterImmediate
    <3>1. /\ At("tool_end") /\ \E pc \in {"tool_start", "join"} : Moves(loop, pc)
          /\ state'.messages = state.messages /\ aborted' = aborted
      BY <2>5, ImmediateMoves DEF Spawns, NothingSaid, Becomes, RunOnly, QueuesKept,
         agentVars
    <3> QED  BY <3>1, BatchKept DEF Moves, At, Handling
  <2>6. CASE Joined
    BY <1>0, <2>6, JoinedMoves, OutcomesReplaced
       DEF NothingSaid, Becomes, QueuesKept, At, Handling
  <2> QED  BY <2>1, <2>2, <2>3, <2>4, <2>5, <2>6
<1> QED  BY <1>1, TranscriptKept DEF Handling, Failing

\* Away from calls the transcript stays as it is.
LEMMA PlainTranscript ==
  ASSUME LoopInv, Transcript,
         \/ FirstTurn \/ StartInjecting \/ FirstPoll \/ Request \/ StreamStart
         \/ LastTurn \/ NothingLeft \/ StopAfterTurn \/ TurnWithSteering \/ TurnWithFollowUps
  PROVE  Transcript'
<1>1. /\ loop.pc \notin Failing \cup {"idle"} \cup Handling \cup {"answered"}
      /\ loop'.pc \notin Handling \cup {"answered"}
      /\ loop'.first = loop.first /\ state'.messages = state.messages /\ aborted' = aborted
  <2>1. CASE FirstTurn
    <3>1. At("agent_start") /\ loop'.pc = "turn_start" /\ loop'.first = loop.first
          /\ NothingSaid /\ RunOnly
      BY <2>1, OpeningMoves DEF Moves
    <3> QED  BY <3>1 DEF NothingSaid, Becomes, RunOnly, QueuesKept, At, Failing, Handling
  <2>2. CASE StartInjecting \/ Request
    <3>1. /\ CanInject /\ loop'.pc \in {"inject", "request"} /\ NothingSaid /\ RunOnly
          /\ loop'.first = Injected.first
      BY <2>2, OpeningMoves DEF Moves
    <3>2. Injected.first = loop.first
      BY InjectedIs DEF LoopInv, SameBut
    <3> QED  BY <3>1, <3>2 DEF NothingSaid, Becomes, RunOnly, QueuesKept, CanInject,
       Failing,
                               Handling
  <2>3. CASE FirstPoll
    BY <2>3, FirstPollMoves DEF NothingSaid, Becomes, CanInject, Failing, Handling
  <2>4. CASE StreamStart
    BY <2>4, StreamStartMoves
       DEF NothingSaid, Becomes, RunOnly, QueuesKept, At, Failing, Handling
  <2>5. CASE LastTurn \/ NothingLeft \/ StopAfterTurn
    BY <2>5, EndingMoves
       DEF Moves, NothingSaid, Becomes, RunOnly, QueuesKept, Failing, Handling
  <2>6. CASE TurnWithSteering \/ TurnWithFollowUps
    <3>1. /\ At("turn_end") /\ loop'.pc = "turn_start" /\ NothingSaid
          /\ loop'.first = loop.first /\ aborted' = aborted
      BY <2>6, TurnMoves, NextTurnMoves
    <3> QED  BY <3>1 DEF NothingSaid, Becomes, At, Failing, Handling
  <2> QED  BY <2>1, <2>2, <2>3, <2>4, <2>5, <2>6
<1> QED  BY <1>1, TranscriptKept DEF InHand

LEMMA EndTranscript ==
  ASSUME LoopInv, Accounts, Transcript,
         \/ Finish \/ FailAgain \/ CancelRun \/ Fail \/ ReportFailure
         \/ Prompt \/ ContinueTranscript \/ ContinueWithSteering \/ ContinueWithFollowUps
  PROVE  Transcript'
<1>0. state.messages \in Seq(Messages)
  BY DEF LoopInv, Types, AgentState
<1>1. CASE Finish \/ FailAgain \/ CancelRun \/ Fail \/ ReportFailure
  <2>1. /\ loop'.pc \in Failing \cup {"idle"}
        /\ \/ state'.messages = state.messages
           \/ state'.messages = Append(state.messages, FailureMessage)
    BY <1>1, SettlingMoves, FailMoves, ReportMoves, IdleTyped
       DEF Settles, Moves, Failing, NothingSaid, Arrives, Becomes
  <2>2. ResultsFollow(state'.messages)
    <3>1. FailureMessage \in Messages /\ FailureMessage.role # "toolResult"
      BY FailureTyped, MessageKinds
    <3>2. Follows(state.messages, Len(state.messages) + 1, FailureMessage)
      BY <3>1 DEF Follows
    <3> QED  BY <1>0, <2>1, <3>1, <3>2, FollowAppended DEF Transcript
  <2>3. ~InHand'
    BY <2>1 DEF InHand, Handling, Failing
  <2> QED  BY <2>1, <2>2, <2>3 DEF Transcript
<1>2. CASE Prompt \/ ContinueTranscript \/ ContinueWithSteering \/ ContinueWithFollowUps
  <2>1. /\ loop'.pc = "agent_start" /\ loop'.first = Len(state.messages) + 1
        /\ state'.messages = state.messages
    BY <1>2, StartMoves DEF Starts, NothingSaid, Becomes
  <2>2. ~InHand'
    BY <2>1 DEF InHand, Handling
  <2>3. loop'.first..Len(state'.messages) = {}
    <3>1. Len(state.messages) \in Nat
      BY <1>0, LenProperties
    <3> QED  BY <2>1, <3>1
  <2> QED  BY <2>1, <2>2, <2>3 DEF Transcript
<1> QED  BY <1>1, <1>2

LEMMA TranscriptStep == LoopInv /\ Accounts /\ Transcript /\ [Next]_vars => Transcript'
<1> SUFFICES ASSUME LoopInv, Accounts, Transcript, [Next]_vars PROVE Transcript'
  OBVIOUS
<1>1. ASSUME UNCHANGED loop, aborted' = aborted \/ aborted' = TRUE,
             state'.messages = state.messages
      PROVE  Transcript'
  BY <1>1, BatchKept, TranscriptKept
<1>2. CASE Progress
  BY <1>2, PlainTranscript, EndInjectingTranscript, StreamEndTranscript, TurnEndTranscript,
     CallTranscript, EndResultTranscript, EndTranscript DEF Progress, Turn, Tools
<1>3. CASE Prompt \/ ContinueTranscript \/ ContinueWithSteering \/ ContinueWithFollowUps
           \/ CancelRun
  BY <1>3, EndTranscript
<1>4. CASE /\ \/ \E m \in Steers : Steer(m)
              \/ \E m \in FollowUps : FollowUp(m)
              \/ ClearAllQueues \/ Abort \/ Reset
           /\ UNCHANGED <<loop, tasks, answers>>
  <2>1. aborted' = aborted \/ aborted' = TRUE
    BY <1>4, CallerMoves DEF LoopInv, Types
  <2>2. CASE UNCHANGED state
    BY <1>1, <1>4, <2>1, <2>2
  <2>3. CASE loop.pc = "idle" /\ state' = EmptyState
    <3>1. state'.messages = <<>> /\ loop'.pc = "idle"
      BY <1>4, <2>3 DEF EmptyState
    <3>2. ~InHand' /\ ResultsFollow(<<>>)
      BY <3>1 DEF InHand, Handling, ResultsFollow
    <3> QED  BY <3>1, <3>2 DEF Transcript
  <2> QED  BY <1>4, <2>2, <2>3, CallerMoves DEF LoopInv, Types
<1>5. CASE \E c \in DOMAIN tasks : Task(c)
  <2>1. UNCHANGED loop /\ state'.messages = state.messages /\ aborted' = aborted
    BY <1>5, TaskMoves DEF NothingSaid, Becomes, QueuesKept
  <2> QED  BY <1>1, <2>1
<1>6. CASE UNCHANGED vars
  BY <1>1, <1>6 DEF vars, agentVars
<1> QED  BY <1>2, <1>3, <1>4, <1>5, <1>6 DEF Next, Caller

\* The provider is never asked with a call that has no result, nor with one
\* out of place: in every run, for any answers, tools, failures and aborts.
THEOREM EveryCallAnswered == Spec => []CallsAnswered
<1>1. Init => Accounts /\ Transcript
  <2> SUFFICES ASSUME Init PROVE Accounts /\ Transcript
    OBVIOUS
  <2>1. loop.pc = "idle" /\ state.messages = <<>>
    BY IdleTyped DEF Init, AgentInit, EmptyState
  <2>2. ~InHand /\ ResultsFollow(<<>>)
    BY <2>1 DEF InHand, Handling, ResultsFollow
  <2> QED  BY <2>1, <2>2 DEF Accounts, Transcript
<1>2. LoopInv /\ Accounts /\ Transcript /\ [Next]_vars => (Accounts /\ Transcript)'
  BY AccountsStep, TranscriptStep
<1>3. LoopInv /\ Accounts /\ Transcript => CallsAnswered
  <2> SUFFICES ASSUME LoopInv, Accounts, Transcript, loop.pc \in {"request", "agent_end"}
               PROVE  CallsAnswered
    BY DEF CallsAnswered
  <2>1. Injected = loop /\ ~loop.prompts
    BY DEF Injected, At, LoopInv, Shape, Opening
  <2>2. /\ loop.context = state.messages /\ ~InHand
        /\ loop.pc \notin Failing \cup {"idle"}
    BY <2>1 DEF Accounts, At, Failing, Handling, InHand
  <2>3. \A i \in 1..Len(loop.context) : Follows(loop.context, i, loop.context[i])
    BY <2>2 DEF Transcript, ResultsFollow
  <2>4. ~aborted =>
          \A i \in loop.first..Len(loop.context) :
            loop.context[i].role = "assistant" /\ loop.context[i].stop # "error" =>
              Complete(loop.context, i)
    BY <2>2 DEF Transcript, Due
  <2> QED  BY <2>3, <2>4 DEF CallsAnswered, Follows, Complete
<1> QED  BY <1>1, <1>2, <1>3, RunsAreSound, PTL DEF Spec

-----------------------------------------------------------------------------
(* Messages in line.                                                       *)

\* The steering messages of a sequence are those of the other, in its order.
InLine(all, line) ==
  LET places == {i \in DOMAIN all : IsSteer(all[i])}
  IN /\ {all[i] : i \in places} = ToSet(line)
     /\ \A i, j \in places :
          i < j => \E a, b \in DOMAIN line : a < b /\ line[a] = all[i] /\ line[b] = all[j]

\* The same, element by element.
InLineAt(all, line) ==
  /\ \A i \in 1..Len(all) :
       IsSteer(all[i]) => \E a \in 1..Len(line) : line[a] = all[i]
  /\ \A a \in 1..Len(line) :
       \E i \in 1..Len(all) : IsSteer(all[i]) /\ all[i] = line[a]
  /\ \A i, j \in 1..Len(all) :
       IsSteer(all[i]) /\ IsSteer(all[j]) /\ i < j =>
         \E a, b \in 1..Len(line) : a < b /\ line[a] = all[i] /\ line[b] = all[j]

LEMMA InLineIs ==
  ASSUME NEW all \in Seq(Messages), NEW line \in Seq(SteerMessages)
  PROVE  InLine(all, line) <=> InLineAt(all, line)
<1>1. DOMAIN all = 1..Len(all) /\ DOMAIN line = 1..Len(line)
  BY LenProperties
<1>2. ToSet(line) = {line[a] : a \in 1..Len(line)}
  BY <1>1 DEF ToSet
<1> DEFINE places == {i \in 1..Len(all) : IsSteer(all[i])}
<1>3. {all[i] : i \in places} = ToSet(line)
        <=> /\ \A i \in 1..Len(all) :
                 IsSteer(all[i]) => \E a \in 1..Len(line) : line[a] = all[i]
            /\ \A a \in 1..Len(line) :
                 \E i \in 1..Len(all) : IsSteer(all[i]) /\ all[i] = line[a]
  <2>1. {all[i] : i \in places} = ToSet(line)
          <=> /\ \A i \in places : all[i] \in ToSet(line)
              /\ \A a \in 1..Len(line) : line[a] \in {all[i] : i \in places}
    BY <1>2
  <2>2. \A i \in places : all[i] \in ToSet(line) <=> \E a \in 1..Len(line) : line[a] = all[i]
    BY <1>2
  <2>3. \A a \in 1..Len(line) : line[a] \in {all[i] : i \in places}
                                  <=> \E i \in 1..Len(all) : IsSteer(all[i]) /\ all[i] = line[a]
    OBVIOUS
  <2> QED  BY <2>1, <2>2, <2>3
<1>4. InLine(all, line)
        <=> /\ {all[i] : i \in places} = ToSet(line)
            /\ \A i, j \in places :
                 i < j => \E a, b \in 1..Len(line) : a < b /\ line[a] = all[i] /\ line[b] = all[j]
  BY <1>1 DEF InLine
<1>5. (\A i, j \in places :
         i < j => \E a, b \in 1..Len(line) : a < b /\ line[a] = all[i] /\ line[b] = all[j])
        <=> \A i, j \in 1..Len(all) :
              IsSteer(all[i]) /\ IsSteer(all[j]) /\ i < j =>
                \E a, b \in 1..Len(line) : a < b /\ line[a] = all[i] /\ line[b] = all[j]
  OBVIOUS
<1> HIDE DEF places
<1> QED  BY <1>3, <1>4, <1>5 DEF InLineAt

\* A sequence with the same steering messages in the same order: where each
\* was, and where it is.
Moved(old, all, at, back) ==
  /\ \A i \in 1..Len(all) :
       IsSteer(all[i]) => at[i] \in 1..Len(old) /\ old[at[i]] = all[i]
  /\ \A i \in 1..Len(old) :
       IsSteer(old[i]) => back[i] \in 1..Len(all) /\ all[back[i]] = old[i]
  /\ \A i, j \in 1..Len(all) :
       IsSteer(all[i]) /\ IsSteer(all[j]) /\ i < j => at[i] < at[j]

LEMMA SameLine ==
  ASSUME NEW old, NEW all, NEW line, NEW at, NEW back,
         InLineAt(old, line), Moved(old, all, at, back)
  PROVE  InLineAt(all, line)
<1>0. /\ \A i \in 1..Len(all) :
           IsSteer(all[i]) => at[i] \in 1..Len(old) /\ old[at[i]] = all[i]
      /\ \A i \in 1..Len(old) :
           IsSteer(old[i]) => back[i] \in 1..Len(all) /\ all[back[i]] = old[i]
      /\ \A i, j \in 1..Len(all) :
           IsSteer(all[i]) /\ IsSteer(all[j]) /\ i < j => at[i] < at[j]
  BY DEF Moved
<1>1. ASSUME NEW i \in 1..Len(all), IsSteer(all[i])
      PROVE  at[i] \in 1..Len(old) /\ old[at[i]] = all[i] /\ IsSteer(old[at[i]])
  BY <1>0, <1>1 DEF IsSteer
<1>2. \A i \in 1..Len(all) :
        IsSteer(all[i]) => \E a \in 1..Len(line) : line[a] = all[i]
  <2> SUFFICES ASSUME NEW i \in 1..Len(all), IsSteer(all[i])
               PROVE  \E a \in 1..Len(line) : line[a] = all[i]
    BY DEF IsSteer
  <2>1. at[i] \in 1..Len(old) /\ old[at[i]] = all[i] /\ IsSteer(old[at[i]])
    BY <1>1
  <2>2. \E a \in 1..Len(line) : line[a] = old[at[i]]
    BY <2>1 DEF InLineAt
  <2> QED  BY <2>1, <2>2
<1>3. \A a \in 1..Len(line) :
        \E i \in 1..Len(all) : IsSteer(all[i]) /\ all[i] = line[a]
  <2> SUFFICES ASSUME NEW a \in 1..Len(line)
               PROVE  \E i \in 1..Len(all) : IsSteer(all[i]) /\ all[i] = line[a]
    OBVIOUS
  <2>1. PICK i \in 1..Len(old) : IsSteer(old[i]) /\ old[i] = line[a]
    BY DEF InLineAt
  <2>2. back[i] \in 1..Len(all) /\ all[back[i]] = old[i]
    BY <1>0, <2>1
  <2> QED  BY <2>1, <2>2 DEF IsSteer
<1>4. ASSUME NEW i \in 1..Len(all), NEW j \in 1..Len(all),
             IsSteer(all[i]), IsSteer(all[j]), i < j
      PROVE  \E a, b \in 1..Len(line) : a < b /\ line[a] = all[i] /\ line[b] = all[j]
  <2>1. at[i] \in 1..Len(old) /\ old[at[i]] = all[i] /\ IsSteer(old[at[i]])
    BY <1>1, <1>4
  <2>2. at[j] \in 1..Len(old) /\ old[at[j]] = all[j] /\ IsSteer(old[at[j]])
    BY <1>1, <1>4
  <2>3. at[i] < at[j]
    BY <1>0, <1>4
  <2>4. \E a, b \in 1..Len(line) : a < b /\ line[a] = old[at[i]] /\ line[b] = old[at[j]]
    BY <2>1, <2>2, <2>3 DEF InLineAt
  <2> QED  BY <2>1, <2>2, <2>4
<1> QED  BY <1>2, <1>3, <1>4 DEF InLineAt

\* Messages that steer nothing may join in front of the queue.
LEMMA OthersJoin ==
  ASSUME NEW s \in Seq(Messages), NEW x \in Seq(Messages), NEW q \in Seq(Messages),
         NEW line \in Seq(SteerMessages),
         InLineAt(s \o q, line), \A i \in 1..Len(x) : ~IsSteer(x[i])
  PROVE  InLineAt((s \o x) \o q, line)
<1> SUFFICES ASSUME NEW old, old = s \o q, NEW front, front = s \o x, NEW all, all = front \o q
             PROVE  InLineAt(all, line)
  OBVIOUS
<1>0. InLineAt(old, line)
  OBVIOUS
<1>1. /\ Len(s) \in Nat /\ Len(x) \in Nat /\ Len(q) \in Nat
      /\ Len(old) = Len(s) + Len(q)
      /\ \A i \in 1..(Len(s) + Len(q)) : old[i] = IF i <= Len(s) THEN s[i] ELSE q[i - Len(s)]
  BY LenProperties, ConcatProperties
<1>2. /\ front \in Seq(Messages) /\ Len(front) = Len(s) + Len(x)
      /\ \A i \in 1..(Len(s) + Len(x)) : front[i] = IF i <= Len(s) THEN s[i] ELSE x[i - Len(s)]
  BY ConcatProperties
<1>3. /\ Len(all) = Len(s) + Len(x) + Len(q)
      /\ \A i \in 1..(Len(s) + Len(x) + Len(q)) :
           all[i] = IF i <= Len(s) + Len(x) THEN front[i] ELSE q[i - (Len(s) + Len(x))]
  <2>1. /\ Len(all) = Len(front) + Len(q)
        /\ \A i \in 1..(Len(front) + Len(q)) :
             all[i] = IF i <= Len(front) THEN front[i] ELSE q[i - Len(front)]
    BY <1>2, ConcatProperties
  <2> QED  BY <1>2, <2>1
<1> DEFINE at == [i \in 1..Len(all) |-> IF i <= Len(s) THEN i ELSE i - Len(x)]
           back == [i \in 1..Len(old) |-> IF i <= Len(s) THEN i ELSE i + Len(x)]
<1>4. ASSUME NEW i \in 1..Len(all), IsSteer(all[i])
      PROVE  at[i] \in 1..Len(old) /\ old[at[i]] = all[i] /\ (i <= Len(s) \/ i > Len(s) + Len(x))
  <2>1. CASE i <= Len(s)
    <3>1. i \in 1..(Len(s) + Len(q)) /\ i \in 1..(Len(s) + Len(x)) /\ i <= Len(s) + Len(x)
      BY <1>1, <1>3, <2>1
    <3> QED  BY <1>1, <1>2, <1>3, <2>1, <3>1
  <2>2. CASE i > Len(s) /\ i <= Len(s) + Len(x)
    <3>1. i - Len(s) \in 1..Len(x) /\ ~(i <= Len(s)) /\ i \in 1..(Len(s) + Len(x))
      BY <1>1, <1>3, <2>2
    <3>2. all[i] = x[i - Len(s)]
      BY <1>2, <1>3, <2>2, <3>1
    <3> QED  BY <1>4, <3>1, <3>2
  <2>3. CASE i > Len(s) + Len(x)
    <3>1. /\ i - Len(x) \in 1..(Len(s) + Len(q)) /\ ~(i - Len(x) <= Len(s))
          /\ i - Len(x) - Len(s) = i - (Len(s) + Len(x)) /\ ~(i <= Len(s) + Len(x))
          /\ ~(i <= Len(s))
      BY <1>1, <1>3, <2>3
    <3>2. old[i - Len(x)] = q[i - Len(x) - Len(s)] /\ all[i] = q[i - (Len(s) + Len(x))]
      BY <1>1, <1>3, <3>1
    <3> QED  BY <1>1, <2>3, <3>1, <3>2
  <2> QED  BY <1>1, <1>3, <2>1, <2>2, <2>3
<1>5. ASSUME NEW i \in 1..Len(old)
      PROVE  back[i] \in 1..Len(all) /\ all[back[i]] = old[i]
  <2>1. CASE i <= Len(s)
    <3>1. i \in 1..(Len(s) + Len(x) + Len(q)) /\ i \in 1..(Len(s) + Len(x)) /\ i <= Len(s) + Len(x)
      BY <1>1, <2>1
    <3> QED  BY <1>1, <1>2, <1>3, <2>1, <3>1
  <2>2. CASE ~(i <= Len(s))
    <3>1. /\ i + Len(x) \in 1..(Len(s) + Len(x) + Len(q)) /\ ~(i + Len(x) <= Len(s) + Len(x))
          /\ i + Len(x) - (Len(s) + Len(x)) = i - Len(s)
      BY <1>1, <2>2
    <3>2. all[i + Len(x)] = q[i + Len(x) - (Len(s) + Len(x))] /\ old[i] = q[i - Len(s)]
      BY <1>1, <1>3, <2>2, <3>1
    <3> QED  BY <1>3, <2>2, <3>1, <3>2
  <2> QED  BY <2>1, <2>2
<1>6. ASSUME NEW i \in 1..Len(all), NEW j \in 1..Len(all), i < j,
             i <= Len(s) \/ i > Len(s) + Len(x), j <= Len(s) \/ j > Len(s) + Len(x)
      PROVE  at[i] < at[j]
  BY <1>1, <1>3, <1>6
<1> HIDE DEF at, back
<1>7. \A i, j \in 1..Len(all) : IsSteer(all[i]) /\ IsSteer(all[j]) /\ i < j => at[i] < at[j]
  BY <1>4, <1>6
<1>8. \A i \in 1..Len(all) :
        IsSteer(all[i]) => at[i] \in 1..Len(old) /\ old[at[i]] = all[i]
  BY <1>4
<1>9. \A i \in 1..Len(old) :
        IsSteer(old[i]) => back[i] \in 1..Len(all) /\ all[back[i]] = old[i]
  BY <1>5
<1>10. Moved(old, all, at, back)
  BY <1>7, <1>8, <1>9 DEF Moved
<1> QED  BY <1>0, <1>10, SameLine

\* What is a steering message, a follow-up, or neither.
LEMMA Kinds ==
  /\ SteerMessages \subseteq Messages /\ FollowUpMessages \subseteq Messages
  /\ \A m \in SteerMessages : IsSteer(m) /\ ~IsFollowUp(m) /\ m.role # "assistant"
  /\ \A m \in FollowUpMessages : IsFollowUp(m) /\ ~IsSteer(m) /\ m.role # "assistant"
  /\ \A m \in Messages : /\ IsSteer(m) => m \in SteerMessages
                         /\ IsFollowUp(m) => m \in FollowUpMessages
  /\ \A m \in AnswerMessages \cup ResultMessages :
       m \in Messages /\ ~IsSteer(m) /\ ~IsFollowUp(m)
  /\ runs \in Nat /\ runs < MaxRuns =>
       LET m == User(<<runs + 1>>)
       IN m \in Messages /\ ~IsSteer(m) /\ ~IsFollowUp(m)
<1>1. Steers \cap FollowUps = {} /\ \A n \in 1..MaxRuns : <<n>> \notin Steers \cup FollowUps
  BY AgentAssumption
<1>2. \A m \in UserMessages : m = User(m.id) /\ m.role = "user" /\ m.role # "assistant"
  BY DEF UserMessages, User
<1>3. SteerMessages \subseteq UserMessages /\ FollowUpMessages \subseteq UserMessages
  BY DEF SteerMessages, FollowUpMessages, UserMessages, Ids
<1>4. /\ \A m \in SteerMessages : m.id \in Steers
      /\ \A m \in FollowUpMessages : m.id \in FollowUps
  BY DEF SteerMessages, FollowUpMessages
<1>5. \A m \in Messages : m.role = "user" => m \in UserMessages
  BY MessageKinds DEF Messages
<1>6. \A m \in UserMessages : /\ m.id \in Steers => m \in SteerMessages
                              /\ m.id \in FollowUps => m \in FollowUpMessages
  BY DEF UserMessages, SteerMessages, FollowUpMessages
<1>7. \A m \in AnswerMessages \cup ResultMessages :
        m \in Messages /\ ~IsSteer(m) /\ ~IsFollowUp(m)
  BY MessageKinds DEF IsSteer, IsFollowUp
<1>8. ASSUME runs \in Nat, runs < MaxRuns, NEW m, m = User(<<runs + 1>>)
      PROVE  m \in Messages /\ ~IsSteer(m) /\ ~IsFollowUp(m)
  <2>1. runs + 1 \in 1..MaxRuns
    BY <1>8, AgentAssumption
  <2>2. m.id = <<runs + 1>> /\ m \in UserMessages
    BY <1>8, <2>1 DEF User, UserMessages, Ids
  <2> QED  BY <1>1, <2>1, <2>2, MessageKinds DEF IsSteer, IsFollowUp
<1> QED
  BY <1>1, <1>2, <1>3, <1>4, <1>5, <1>6, <1>7, <1>8, MessageKinds DEF IsSteer, IsFollowUp

\* m joins the end of s, which makes it longer.
Longer(s, longer, m) ==
  /\ Len(s) \in Nat /\ Len(longer) = Len(s) + 1 /\ longer[Len(s) + 1] = m
  /\ \A i \in 1..Len(s) : longer[i] = s[i]

\* A message is steered: it joins the end of both.
LEMMA LineJoined ==
  ASSUME NEW s, NEW line, NEW all, NEW longer, NEW m,
         InLineAt(s, line), IsSteer(m), Longer(s, all, m), Longer(line, longer, m)
  PROVE  InLineAt(all, longer)
<1>1. /\ Len(all) = Len(s) + 1 /\ all[Len(s) + 1] = m /\ Len(s) \in Nat
      /\ \A i \in 1..Len(s) : all[i] = s[i]
  BY DEF Longer
<1>2. /\ Len(longer) = Len(line) + 1 /\ longer[Len(line) + 1] = m /\ Len(line) \in Nat
      /\ \A a \in 1..Len(line) : longer[a] = line[a]
  BY DEF Longer
<1>3. /\ \A i \in 1..Len(all) : i \in 1..Len(s) \/ i = Len(s) + 1
      /\ \A a \in 1..Len(longer) : a \in 1..Len(line) \/ a = Len(line) + 1
      /\ \A a \in 1..Len(line) : a \in 1..Len(longer) /\ a < Len(line) + 1
      /\ \A i \in 1..Len(s) : i \in 1..Len(all)
      /\ Len(line) + 1 \in 1..Len(longer) /\ Len(s) + 1 \in 1..Len(all)
  BY <1>1, <1>2
<1>4. \A i \in 1..Len(s) :
        IsSteer(s[i]) => \E a \in 1..Len(longer) : a < Len(line) + 1 /\ longer[a] = s[i]
  <2> SUFFICES ASSUME NEW i \in 1..Len(s), IsSteer(s[i])
               PROVE  \E a \in 1..Len(longer) : a < Len(line) + 1 /\ longer[a] = s[i]
    BY DEF IsSteer
  <2>1. PICK a \in 1..Len(line) : line[a] = s[i]
    BY DEF InLineAt
  <2> QED  BY <1>2, <1>3, <2>1
<1>5. \A i \in 1..Len(all) :
        IsSteer(all[i]) => \E a \in 1..Len(longer) : longer[a] = all[i]
  <2> SUFFICES ASSUME NEW i \in 1..Len(all), IsSteer(all[i])
               PROVE  \E a \in 1..Len(longer) : longer[a] = all[i]
    BY DEF IsSteer
  <2>1. CASE i \in 1..Len(s)
    <3>1. all[i] = s[i] /\ IsSteer(s[i])
      BY <1>1, <2>1 DEF IsSteer
    <3> QED  BY <1>4, <2>1, <3>1
  <2>2. CASE i = Len(s) + 1
    BY <1>1, <1>2, <1>3, <2>2
  <2> QED  BY <1>3, <2>1, <2>2
<1>6. \A a \in 1..Len(longer) :
        \E i \in 1..Len(all) : IsSteer(all[i]) /\ all[i] = longer[a]
  <2> SUFFICES ASSUME NEW a \in 1..Len(longer)
               PROVE  \E i \in 1..Len(all) : IsSteer(all[i]) /\ all[i] = longer[a]
    OBVIOUS
  <2>1. CASE a \in 1..Len(line)
    <3>1. PICK i \in 1..Len(s) : IsSteer(s[i]) /\ s[i] = line[a]
      BY <2>1 DEF InLineAt
    <3>2. i \in 1..Len(all) /\ all[i] = s[i]
      BY <1>1, <1>3
    <3> QED  BY <1>2, <2>1, <3>1, <3>2 DEF IsSteer
  <2>2. CASE a = Len(line) + 1
    BY <1>1, <1>2, <1>3, <2>2 DEF IsSteer
  <2> QED  BY <1>3, <2>1, <2>2
<1>7. ASSUME NEW i \in 1..Len(all), NEW j \in 1..Len(all),
             IsSteer(all[i]), IsSteer(all[j]), i < j
      PROVE  \E a, b \in 1..Len(longer) : a < b /\ longer[a] = all[i] /\ longer[b] = all[j]
  <2>1. i \in 1..Len(s)
    BY <1>1, <1>3, <1>7
  <2>2. all[i] = s[i] /\ IsSteer(s[i])
    BY <1>1, <1>7, <2>1 DEF IsSteer
  <2>3. CASE j \in 1..Len(s)
    <3>1. all[j] = s[j] /\ IsSteer(s[j])
      BY <1>1, <1>7, <2>3 DEF IsSteer
    <3>2. PICK a \in 1..Len(line), b \in 1..Len(line) : a < b /\ line[a] = s[i] /\ line[b] = s[j]
      BY <1>7, <2>1, <2>2, <2>3, <3>1 DEF InLineAt
    <3> QED  BY <1>2, <1>3, <2>2, <3>1, <3>2
  <2>4. CASE j = Len(s) + 1
    <3>1. PICK a \in 1..Len(longer) : a < Len(line) + 1 /\ longer[a] = s[i]
      BY <1>4, <2>1, <2>2
    <3> QED  BY <1>1, <1>2, <1>3, <2>2, <2>4, <3>1
  <2> QED  BY <1>3, <2>3, <2>4
<1> QED  BY <1>5, <1>6, <1>7 DEF InLineAt

LEMMA SteerJoins ==
  ASSUME NEW s \in Seq(Messages), NEW line \in Seq(SteerMessages), NEW m \in SteerMessages,
         InLineAt(s, line)
  PROVE  InLineAt(Append(s, m), Append(line, m))
<1>1. Longer(s, Append(s, m), m) /\ Longer(line, Append(line, m), m)
  BY Kinds, AppendProperties, LenProperties DEF Longer
<1>2. IsSteer(m)
  BY DEF SteerMessages, IsSteer
<1> QED  BY <1>1, <1>2, LineJoined DEF IsSteer

\* What is still queued is dropped: it goes from the end of both. all is s and
\* then the end of line, and rest is line without it.
EndsAlike(s, all, line, rest, n) ==
  /\ Len(s) \in Nat /\ Len(line) \in Nat /\ n \in 0..Len(line)
  /\ Len(all) = Len(s) + (Len(line) - n)
  /\ \A i \in 1..Len(s) : all[i] = s[i]
  /\ \A i \in 1..(Len(line) - n) : all[Len(s) + i] = line[n + i]
  /\ Len(rest) = n /\ \A a \in 1..n : rest[a] = line[a]

LEMMA LineCut ==
  ASSUME NEW s, NEW line, NEW all, NEW rest, NEW n,
         InLineAt(all, line), EndsAlike(s, all, line, rest, n),
         \A a, b \in 1..Len(line) : line[a] = line[b] => a = b
  PROVE  InLineAt(s, rest)
<1>1. /\ Len(s) \in Nat /\ Len(line) \in Nat /\ n \in 0..Len(line)
      /\ Len(all) = Len(s) + (Len(line) - n)
      /\ \A i \in 1..(Len(line) - n) : all[Len(s) + i] = line[n + i]
  BY DEF EndsAlike
<1>2. Len(rest) = n /\ \A a \in 1..n : rest[a] = line[a] /\ a \in 1..Len(line)
  BY DEF EndsAlike
<1>3. \A i \in 1..Len(s) : i \in 1..Len(all) /\ all[i] = s[i]
  BY <1>1 DEF EndsAlike
<1>4. ASSUME NEW a \in 1..Len(line), a > n
      PROVE  /\ Len(s) + (a - n) \in 1..Len(all)
             /\ all[Len(s) + (a - n)] = line[a]
  <2>1. a - n \in 1..(Len(line) - n) /\ n + (a - n) = a
    BY <1>1, <1>4
  <2>2. Len(s) + (a - n) \in 1..Len(all)
    BY <1>1, <2>1
  <2>3. all[Len(s) + (a - n)] = line[n + (a - n)]
    BY <1>1, <2>1
  <2> QED  BY <2>1, <2>2, <2>3
<1>5. \A i \in 1..Len(all) : IsSteer(all[i]) => \E a \in 1..Len(line) : line[a] = all[i]
  BY DEF InLineAt
<1>6. ASSUME NEW i \in 1..Len(all), NEW j \in 1..Len(all),
             IsSteer(all[i]), IsSteer(all[j]), i < j
      PROVE  \E a, b \in 1..Len(line) : a < b /\ line[a] = all[i] /\ line[b] = all[j]
  BY <1>6 DEF InLineAt
<1>7. ASSUME NEW i \in 1..Len(s), IsSteer(s[i]), NEW a \in 1..Len(line), line[a] = s[i]
      PROVE  a \in 1..n
  <2> SUFFICES ASSUME a > n PROVE FALSE
    BY <1>1
  <2> DEFINE j == Len(s) + (a - n)
  <2>2. j \in 1..Len(all) /\ all[j] = line[a] /\ i < j
    BY <1>1, <1>4
  <2>3. IsSteer(all[i]) /\ IsSteer(all[j]) /\ all[i] = all[j] /\ i \in 1..Len(all)
    BY <1>3, <1>7, <2>2 DEF IsSteer
  <2> HIDE DEF j
  <2>4. PICK b \in 1..Len(line), c \in 1..Len(line) : b < c /\ line[b] = all[i] /\ line[c] = all[j]
    BY <1>6, <2>2, <2>3
  <2>5. b = c
    BY <2>3, <2>4
  <2> QED  BY <2>4, <2>5
<1>8. \A i \in 1..Len(s) : IsSteer(s[i]) => \E a \in 1..Len(rest) : rest[a] = s[i]
  <2> SUFFICES ASSUME NEW i \in 1..Len(s), IsSteer(s[i])
               PROVE  \E a \in 1..Len(rest) : rest[a] = s[i]
    BY DEF IsSteer
  <2>1. PICK a \in 1..Len(line) : line[a] = s[i]
    BY <1>3, <1>5 DEF IsSteer
  <2> QED  BY <1>2, <1>7, <2>1
<1>9. \A a \in 1..Len(rest) : \E i \in 1..Len(s) : IsSteer(s[i]) /\ s[i] = rest[a]
  <2> SUFFICES ASSUME NEW a \in 1..n
               PROVE  \E i \in 1..Len(s) : IsSteer(s[i]) /\ s[i] = line[a]
    BY <1>2
  <2>1. PICK i \in 1..Len(all) : IsSteer(all[i]) /\ all[i] = line[a]
    BY <1>2 DEF InLineAt
  <2>2. i <= Len(s)
    <3> SUFFICES ASSUME ~(i <= Len(s)) PROVE FALSE
      OBVIOUS
    <3>1. /\ i - Len(s) \in 1..(Len(line) - n) /\ Len(s) + (i - Len(s)) = i
          /\ n + (i - Len(s)) \in 1..Len(line) /\ n + (i - Len(s)) > n
      BY <1>1
    <3>2. all[Len(s) + (i - Len(s))] = line[n + (i - Len(s))]
      BY <1>1, <3>1
    <3>3. line[a] = line[n + (i - Len(s))]
      BY <2>1, <3>1, <3>2
    <3> QED  BY <1>1, <1>2, <3>1, <3>3
  <2> QED  BY <1>1, <1>3, <2>1, <2>2 DEF IsSteer
<1>10. ASSUME NEW i \in 1..Len(s), NEW j \in 1..Len(s), IsSteer(s[i]), IsSteer(s[j]), i < j
       PROVE  \E a, b \in 1..Len(rest) : a < b /\ rest[a] = s[i] /\ rest[b] = s[j]
  <2>1. PICK a \in 1..Len(line), b \in 1..Len(line) : a < b /\ line[a] = s[i] /\ line[b] = s[j]
    BY <1>3, <1>6, <1>10 DEF IsSteer
  <2>2. a \in 1..n /\ b \in 1..n
    BY <1>7, <1>10, <2>1
  <2> QED  BY <1>2, <2>1, <2>2
<1> QED  BY <1>8, <1>9, <1>10 DEF InLineAt

LEMMA QueueDropped ==
  ASSUME NEW s \in Seq(Messages), NEW q \in Seq(SteerMessages), NEW line \in Seq(SteerMessages),
         InLineAt(s \o q, line), Len(q) <= Len(line),
         \A a, b \in 1..Len(line) : line[a] = line[b] => a = b,
         \A k \in 1..Len(q) : q[k] = line[Len(line) - Len(q) + k]
  PROVE  InLineAt(s, SubSeq(line, 1, Len(line) - Len(q)))
<1> DEFINE n == Len(line) - Len(q)
<1>1. Len(s) \in Nat /\ Len(q) \in Nat /\ Len(line) \in Nat
  BY LenProperties
<1>2. n \in 0..Len(line) /\ Len(q) = Len(line) - n
  BY <1>1
<1>3. /\ Len(s \o q) = Len(s) + Len(q)
      /\ \A i \in 1..(Len(s) + Len(q)) : (s \o q)[i] = IF i <= Len(s) THEN s[i] ELSE q[i - Len(s)]
  <2>1. q \in Seq(Messages)
    BY Kinds, SeqMonotonic
  <2> QED  BY <2>1, ConcatProperties
<1>4. \A i \in 1..Len(s) : (s \o q)[i] = s[i]
  BY <1>1, <1>3
<1>5. \A i \in 1..Len(q) : (s \o q)[Len(s) + i] = line[n + i]
  <2> SUFFICES ASSUME NEW i \in 1..Len(q)
               PROVE  (s \o q)[Len(s) + i] = line[n + i]
    OBVIOUS
  <2>1. /\ Len(s) + i \in 1..(Len(s) + Len(q)) /\ ~(Len(s) + i <= Len(s))
        /\ Len(s) + i - Len(s) = i
    BY <1>1
  <2> QED  BY <1>3, <2>1
<1>6. Len(SubSeq(line, 1, n)) = n /\ \A a \in 1..n : SubSeq(line, 1, n)[a] = line[a]
  <2>1. \A a \in 1..n : line[a] \in SteerMessages
    BY <1>1, <1>2, ElementOfSeq
  <2>2. /\ Len(SubSeq(line, 1, n)) = n - 1 + 1
        /\ \A a \in 1..(n - 1 + 1) : SubSeq(line, 1, n)[a] = line[1 + a - 1]
    BY <1>1, <1>2, <2>1, SubSeqProperties
  <2>3. n - 1 + 1 = n /\ \A a \in 1..n : 1 + a - 1 = a
    BY <1>2
  <2> QED  BY <2>2, <2>3
<1>7. /\ Len(s \o q) = Len(s) + (Len(line) - n)
      /\ \A i \in 1..(Len(line) - n) : (s \o q)[Len(s) + i] = line[n + i]
  BY <1>2, <1>3, <1>5
<1> HIDE DEF n
<1>8. InLineAt(s, SubSeq(line, 1, n))
  <2> SUFFICES ASSUME NEW all, all = s \o q, NEW rest, rest = SubSeq(line, 1, n)
               PROVE  InLineAt(s, rest)
    OBVIOUS
  <2>1. InLineAt(all, line) /\ Len(all) = Len(s) + (Len(line) - n)
    BY <1>7
  <2>2. \A i \in 1..Len(s) : all[i] = s[i]
    BY <1>4
  <2>3. \A i \in 1..(Len(line) - n) : all[Len(s) + i] = line[n + i]
    BY <1>7
  <2>4. Len(rest) = n /\ \A a \in 1..n : rest[a] = line[a]
    BY <1>6
  <2>5. EndsAlike(s, all, line, rest, n)
    BY <1>1, <1>2, <2>1, <2>2, <2>3, <2>4 DEF EndsAlike
  <2> QED  BY <2>1, <2>5, LineCut
<1> QED  BY <1>8 DEF n

-----------------------------------------------------------------------------
(* The flow of messages from the queues through the hands of the run into  *)
(* the transcript.                                                         *)

\* What the run has taken in: the transcript, then the messages in its hands.
AllIn == state.messages \o Injected.inject

\* Where the model has yet to answer what was put to it last.
Unanswered == Opening \cup {"request", "streaming"}

\* The run is on its way to its first poll.
ToPoll == loop.prompts /\ ~loop.skip

Stays == AllIn' = AllIn /\ UNCHANGED <<mode, steering, steered>> /\ sent \subseteq sent'
Joins(m) == AllIn' = Append(AllIn, m) /\ UNCHANGED <<mode, steering, steered, sent>>
TakesSteering ==
  /\ AllIn' = AllIn \o Drained(steering) /\ steering' = Left(steering)
  /\ UNCHANGED <<mode, steered, sent>>
TakesFollowUps ==
  AllIn' = AllIn \o Drained(followUps) /\ UNCHANGED <<mode, steering, steered, sent>>

\* How a step of the run, or of a tool task, moves messages.
Flow ==
  \/ /\ Stays
     /\ loop'.pc \notin Unanswered => loop.pc \notin Unanswered
     /\ ToPoll' => ToPoll \/ loop.pc \notin Unanswered
  \/ \E m \in AnswerMessages : Joins(m) /\ ~ToPoll'
  \/ \E m \in ResultMessages : Joins(m) /\ loop.pc \notin Unanswered /\ ~ToPoll'
  \/ /\ TakesSteering
     /\ ToPoll \/ loop.pc \notin Unanswered
     /\ loop'.pc \in Unanswered /\ ~ToPoll'
  \/ TakesFollowUps /\ loop.pc \notin Unanswered /\ loop'.pc \in Unanswered
  \/ \E m \in Messages : /\ Joins(m) /\ ~IsSteer(m) /\ ~IsFollowUp(m)
                         /\ loop.pc \notin Unanswered /\ loop'.pc \in Unanswered

LEMMA HandsTyped ==
  ASSUME LoopInv
  PROVE  /\ state.messages \in Seq(Messages) /\ Injected.inject \in Seq(Messages)
         /\ AllIn \in Seq(Messages) /\ steering \in Seq(Messages)
         /\ steering \in Seq(SteerMessages) /\ followUps \in Seq(FollowUpMessages)
         /\ followUps \in Seq(Messages)
<1>1. state.messages \in Seq(Messages)
  BY DEF LoopInv, Types, AgentState
<1>2. Injected.inject \in Seq(UserMessages)
  BY InjectedIs DEF LoopInv, SameBut, LoopRecord
<1>3. Injected.inject \in Seq(Messages)
  BY <1>2, MessageKinds, SeqMonotonic
<1>4. steering \in Seq(SteerMessages) /\ followUps \in Seq(FollowUpMessages)
  BY DEF LoopInv, Types
<1>5. steering \in Seq(Messages) /\ followUps \in Seq(Messages)
  BY <1>4, Kinds, SeqMonotonic
<1> QED  BY <1>1, <1>3, <1>4, <1>5, ConcatProperties DEF AllIn

\* When no turn is opening there is nothing in the run's hands.
LEMMA Outside ==
  /\ LoopInv /\ loop.pc \notin Opening => AllIn = state.messages
  /\ LoopInv' /\ loop'.pc \notin Opening => AllIn' = state'.messages
<1>1. ASSUME LoopInv, loop.pc \notin Opening
      PROVE  AllIn = state.messages
  <2>1. Injected.inject = <<>>
    BY <1>1 DEF LoopInv, Shape, Injected, At, Opening
  <2> QED  BY <1>1, <2>1, HandsTyped, ConcatEmptySeq DEF AllIn
<1>2. ASSUME LoopInv', loop'.pc \notin Opening
      PROVE  AllIn' = state'.messages
  <2>1. Injected' = loop' /\ loop'.inject = <<>>
    BY <1>2, Elsewhere DEF LoopInv, Shape, Opening
  <2>2. state'.messages \in Seq(Messages)
    BY <1>2 DEF LoopInv, Types, AgentState
  <2> QED  BY <2>1, <2>2, ConcatEmptySeq DEF AllIn
<1> QED  BY <1>1, <1>2

LEMMA DrainedThenLeft ==
  ASSUME NEW S, NEW queue \in Seq(S)
  PROVE  Drained(queue) \o Left(queue) = queue
<1> SUFFICES ASSUME NEW d, d = Drained(queue), NEW l, l = Left(queue)
             PROVE  d \o l = queue
  OBVIOUS
<1>1. /\ d \in Seq(S) /\ l \in Seq(S) /\ Len(d) + Len(l) = Len(queue)
      /\ \A i \in 1..Len(d) : d[i] = queue[i]
      /\ \A i \in 1..Len(l) : l[i] = queue[Len(d) + i]
  BY DrainedIs
<1>2. /\ d \o l \in Seq(S) /\ Len(d \o l) = Len(d) + Len(l)
      /\ \A i \in 1..(Len(d) + Len(l)) : (d \o l)[i] = IF i <= Len(d) THEN d[i] ELSE l[i - Len(d)]
      /\ Len(d) \in Nat /\ Len(l) \in Nat
  BY <1>1, ConcatProperties, LenProperties
<1>3. \A i \in 1..(Len(d) + Len(l)) : (d \o l)[i] = queue[i]
  <2> SUFFICES ASSUME NEW i \in 1..(Len(d) + Len(l))
               PROVE  (d \o l)[i] = queue[i]
    OBVIOUS
  <2>1. CASE i <= Len(d)
    BY <1>1, <1>2, <2>1
  <2>2. CASE ~(i <= Len(d))
    <3>1. i - Len(d) \in 1..Len(l) /\ Len(d) + (i - Len(d)) = i
      BY <1>2, <2>2
    <3>2. l[i - Len(d)] = queue[Len(d) + (i - Len(d))]
      BY <1>1, <3>1
    <3> QED  BY <1>2, <2>2, <3>1, <3>2
  <2> QED  BY <2>1, <2>2
<1> QED  BY <1>1, <1>2, <1>3, SeqEqual

\* A turn opens: the messages at hand arrive one by one, and the first poll
\* may take some from the queue.
LEMMA OpeningFlows ==
  ASSUME LoopInv, FirstTurn \/ StartInjecting \/ EndInjecting \/ FirstPoll \/ Request
  PROVE  Flow
<1>0. state.messages \in Seq(Messages) /\ loop.pc \in Unanswered
  BY HandsTyped DEF FirstTurn, StartInjecting, EndInjecting, FirstPoll, Request, CanInject,
     At,
                    Unanswered, Opening
<1>1. CASE FirstTurn
  <2>1. /\ loop.pc = "agent_start" /\ loop'.pc = "turn_start"
        /\ loop'.inject = loop.inject /\ loop'.prompts = loop.prompts /\ loop'.skip = loop.skip
        /\ state'.messages = state.messages /\ RunOnly
    BY <1>1, OpeningMoves DEF Moves, NothingSaid, Becomes, At
  <2>2. Injected = loop /\ Injected' = loop'
    BY <2>1, Elsewhere DEF Injected, At
  <2> QED  BY <2>1, <2>2 DEF Flow, Stays, AllIn, RunOnly, QueuesKept, Unanswered, Opening,
     ToPoll
<1>2. CASE StartInjecting \/ Request
  <2>1. /\ loop'.pc \in {"inject", "request"}
        /\ loop'.inject = Injected.inject /\ loop'.prompts = Injected.prompts
        /\ loop'.skip = Injected.skip
        /\ state'.messages = state.messages /\ RunOnly
    BY <1>2, OpeningMoves DEF Moves, NothingSaid, Becomes
  <2>2. Injected' = loop'
    BY <2>1, Elsewhere
  <2>3. Injected.prompts = loop.prompts /\ Injected.skip = loop.skip
    BY InjectedIs DEF LoopInv, SameBut
  <2> QED  BY <2>1, <2>2, <2>3
           DEF Flow, Stays, AllIn, RunOnly, QueuesKept, Unanswered, Opening, ToPoll
<1>3. CASE EndInjecting
  <2>1. /\ loop.pc = "inject" /\ loop'.pc = "injected" /\ loop.inject # <<>>
        /\ loop'.inject = loop.inject /\ loop'.prompts = loop.prompts /\ loop'.skip = loop.skip
        /\ state'.messages = Append(state.messages, Head(loop.inject)) /\ RunOnly
    BY <1>3, OpeningMoves DEF Moves, Arrives, Becomes, At, LoopInv, Shape
  <2>2. Injected = loop /\ Injected'.inject = Tail(loop'.inject)
    BY <2>1 DEF Injected, At, LoopInv, Types, LoopRecord
  <2>3. Append(state.messages, Head(loop.inject)) \o Tail(loop.inject)
          = state.messages \o loop.inject
    <3>1. loop.inject \in Seq(Messages)
      BY <2>2, HandsTyped
    <3>2. \A s, t \in Seq(Messages) : t # <<>> => Append(s, Head(t)) \o Tail(t) = s \o t
      BY MessageMoves
    <3> QED  BY <1>0, <2>1, <3>1, <3>2
  <2>4. AllIn' = AllIn
    BY <2>1, <2>2, <2>3 DEF AllIn
  <2> QED  BY <2>1, <2>4 DEF Flow, Stays, RunOnly, QueuesKept, Unanswered, Opening, ToPoll
<1>4. CASE FirstPoll
  <2>1. /\ Injected.inject = <<>> /\ loop.prompts /\ loop'.pc = "polled" /\ ~loop'.prompts
        /\ loop'.inject = IF loop.skip THEN <<>> ELSE Drained(steering)
        /\ steering' = IF loop.skip THEN steering ELSE Left(steering)
        /\ state'.messages = state.messages
        /\ UNCHANGED <<mode, steered, sent>>
    BY <1>4, FirstPollMoves DEF NothingSaid, Becomes
  <2>2. AllIn = state.messages
    BY <1>0, <2>1, ConcatEmptySeq DEF AllIn
  <2>3. AllIn' = state.messages \o loop'.inject
    BY <2>1, Elsewhere DEF AllIn
  <2>4. CASE loop.skip
    <3>1. AllIn' = AllIn /\ steering' = steering
      BY <1>0, <2>1, <2>2, <2>3, <2>4, ConcatEmptySeq
    <3> QED  BY <2>1, <3>1 DEF Flow, Stays, Unanswered, Opening, ToPoll
  <2>5. CASE ~loop.skip
    <3>1. AllIn' = AllIn \o Drained(steering) /\ steering' = Left(steering)
      BY <2>1, <2>2, <2>3, <2>5
    <3> QED  BY <2>1, <2>5, <3>1 DEF Flow, TakesSteering, Unanswered, Opening, ToPoll
  <2> QED  BY <2>4, <2>5
<1> QED  BY <1>1, <1>2, <1>3, <1>4

\* Outside of Opening what arrives in the transcript is all there is.
LEMMA OutsideStays ==
  ASSUME LoopInv, LoopInv', loop.pc \notin Opening, loop'.pc \notin Opening,
         state'.messages = state.messages, QueuesKept, mode' = mode,
         loop'.pc \notin Unanswered => loop.pc \notin Unanswered
  PROVE  Flow
<1>1. AllIn' = AllIn
  BY Outside
<1>2. ~loop'.prompts
  BY DEF LoopInv, Shape
<1> QED  BY <1>1, <1>2 DEF Flow, Stays, QueuesKept, ToPoll

\* The answer and the results arrive; all else about them moves no message.
LEMMA AnswerFlows ==
  ASSUME LoopInv, LoopInv',
         \/ StreamStart \/ StreamEnd \/ ErrorTurn \/ PlainTurn \/ LastTurn \/ NothingLeft
         \/ StopAfterTurn \/ Finish \/ EndResult
  PROVE  Flow
<1>1. CASE StreamStart
  BY <1>1, StreamStartMoves, OutsideStays
     DEF NothingSaid, Becomes, RunOnly, At, Opening, Unanswered
<1>2. CASE ErrorTurn \/ PlainTurn \/ LastTurn \/ NothingLeft \/ StopAfterTurn
  <2>1. /\ loop.pc \in {"answered", "last_turn", "turn_end"}
        /\ loop'.pc \in {"last_turn", "turn_end", "agent_end"}
        /\ state'.messages = state.messages /\ RunOnly
    BY <1>2, AnsweredMoves, EndingMoves DEF Moves, NothingSaid, Becomes, At
  <2> QED  BY <2>1, OutsideStays DEF RunOnly, Opening, Unanswered
<1>3. CASE Finish
  <2>1. /\ loop.pc \in {"agent_end", "failure_end"} /\ loop'.pc = "idle"
        /\ state'.messages = state.messages /\ UNCHANGED <<mode, steering, steered, sent>>
    BY <1>3, SettlingMoves, IdleTyped DEF Finish, Settle, FinishRun, Settles, NothingSaid,
       Becomes
  <2>2. AllIn' = AllIn /\ ~loop'.prompts
    BY <2>1, Outside DEF Opening, LoopInv, Shape
  <2> QED  BY <2>1, <2>2 DEF Flow, Stays, ToPoll, Opening, Unanswered
<1>4. CASE StreamEnd
  <2>1. PICK final \in AnswerMessages :
          /\ loop.pc = "streaming" /\ loop'.pc = "answered"
          /\ state'.messages = Append(state.messages, final)
          /\ QueuesKept /\ mode' = mode
    BY <1>4, StreamEndMoves DEF Arrives, Becomes, At
  <2>2. AllIn' = Append(AllIn, final) /\ ~loop'.prompts
    BY <2>1, Outside DEF Opening, LoopInv, Shape
  <2> QED  BY <2>1, <2>2 DEF Flow, Joins, QueuesKept, ToPoll
<1>5. CASE EndResult
  <2>1. /\ loop.pc = "result_start" /\ loop'.pc = "result_end"
        /\ NextResult \in ResultMessages
        /\ state'.messages = Append(state.messages, NextResult) /\ RunOnly
    BY <1>5, EndResultMoves DEF Arrives, Becomes, At
  <2>2. AllIn' = Append(AllIn, NextResult) /\ ~loop'.prompts
    BY <2>1, Outside DEF Opening, LoopInv, Shape
  <2> QED  BY <2>1, <2>2 DEF Flow, Joins, RunOnly, QueuesKept, ToPoll, Opening, Unanswered
<1> QED  BY <1>1, <1>2, <1>3, <1>4, <1>5

LEMMA CallFlows ==
  ASSUME LoopInv, LoopInv',
         \/ BeginBatch \/ FailCall \/ ExecuteCall \/ CallExecuted \/ SequentialResult
         \/ SequentialNext \/ PrepareRunner \/ AfterImmediate \/ Joined \/ ParallelNext
         \/ FinishBatch
  PROVE  Flow
<1>1. state'.messages = state.messages
  BY BeginBatchMoves, OutcomeMoves, ResultMoves, RunnerMoves, ImmediateMoves,
     JoinedMoves, FinishBatchMoves DEF NothingSaid, Spawns, Becomes
<1>2. QueuesKept /\ mode' = mode
  BY DEF BeginBatch, FailCall, ExecuteCall, CallExecuted, SequentialResult, SequentialNext,
         PrepareRunner, AfterImmediate, Joined, ParallelNext, FinishBatch, StartResult, Emit,
         Process, Spawn, QueuesKept, agentVars
<1>3. /\ loop.pc \in Handling \cup {"answered"}
      /\ loop'.pc \in Handling \cup {"turn_end"}
  <2>1. loop.pc \in Handling \cup {"answered"}
    BY DEF BeginBatch, FailCall, ExecuteCall, CallExecuted, SequentialResult,
       SequentialNext,
           PrepareRunner, AfterImmediate, Joined, ParallelNext, FinishBatch, At, Handling
  <2>2. loop'.pc \in {"tool_start", "executing", "tool_end", "join", "result_start", "turn_end"}
    BY BeginBatchMoves, OutcomeMoves, ResultMoves, RunnerMoves, ImmediateMoves,
       JoinedMoves, FinishBatchMoves DEF Spawns, Moves
  <2> QED  BY <2>1, <2>2 DEF Handling
<1> QED  BY <1>1, <1>2, <1>3, OutsideStays DEF Handling, Opening, Unanswered

\* The next turn takes from a queue, and so does a run that continues.
LEMMA TurnFlows ==
  ASSUME LoopInv, LoopInv',
         TurnWithSteering \/ TurnWithFollowUps
  PROVE  Flow
<1>1. CASE TurnWithSteering
  <2>1. /\ loop.pc = "turn_end" /\ loop'.pc = "turn_start"
        /\ loop'.inject = Drained(steering) /\ loop'.prompts = loop.prompts
        /\ state'.messages = state.messages
        /\ steering' = Left(steering) /\ UNCHANGED <<mode, steered, sent>>
    BY <1>1, TurnMoves, NextTurnMoves DEF At, NothingSaid, Becomes
  <2>2. AllIn' = AllIn \o Drained(steering) /\ ~loop'.prompts
    BY <2>1, Outside, Elsewhere DEF AllIn, Opening, LoopInv, Shape
  <2> QED  BY <2>1, <2>2 DEF Flow, TakesSteering, ToPoll, Opening, Unanswered
<1>2. CASE TurnWithFollowUps
  <2>1. /\ loop.pc = "turn_end" /\ loop'.pc = "turn_start"
        /\ loop'.inject = Drained(followUps)
        /\ state'.messages = state.messages
        /\ UNCHANGED <<mode, steering, steered, sent>>
    BY <1>2, TurnMoves, NextTurnMoves DEF At, NothingSaid, Becomes
  <2>2. AllIn' = AllIn \o Drained(followUps)
    BY <2>1, Outside, Elsewhere DEF AllIn, Opening
  <2> QED  BY <2>1, <2>2 DEF Flow, TakesFollowUps, Opening, Unanswered
<1> QED  BY <1>1, <1>2

LEMMA StartFlows ==
  ASSUME LoopInv, LoopInv',
         Prompt \/ ContinueTranscript \/ ContinueWithSteering \/ ContinueWithFollowUps
  PROVE  Flow
<1>0. state.messages \in Seq(Messages) /\ runs \in Nat
  BY DEF LoopInv, Types, AgentState
<1>1. /\ loop.pc = "idle" /\ loop'.pc = "agent_start" /\ loop'.prompts
      /\ state'.messages = state.messages /\ UNCHANGED <<mode, sent, steered>>
      /\ runs < MaxRuns
      /\ AllIn = state.messages /\ AllIn' = state.messages \o loop'.inject
  <2>1. /\ ~active /\ loop'.pc = "agent_start" /\ loop'.prompts /\ runs < MaxRuns
        /\ state'.messages = state.messages /\ UNCHANGED <<mode, sent, steered>>
    BY StartMoves DEF Starts, NothingSaid, Becomes
  <2>2. loop.pc = "idle"
    BY <2>1 DEF LoopInv, Types
  <2> QED  BY <2>1, <2>2, Outside, Elsewhere DEF AllIn, Opening
<1>2. loop.pc \notin Unanswered /\ loop'.pc \in Unanswered
  BY <1>1 DEF Opening, Unanswered
<1>3. CASE Starts(<<User(<<runs + 1>>)>>, FALSE) /\ UNCHANGED <<steering, followUps>>
  <2> SUFFICES ASSUME NEW m, m = User(<<runs + 1>>)
               PROVE  Flow
    OBVIOUS
  <2>1. m \in Messages /\ ~IsSteer(m) /\ ~IsFollowUp(m)
    BY <1>0, <1>1, Kinds
  <2>2. AllIn' = Append(AllIn, m)
    <3>1. loop'.inject = <<m>>
      BY <1>3 DEF Starts
    <3> QED  BY <1>0, <1>1, <2>1, <3>1, AppendIsConcat
  <2> QED  BY <1>1, <1>2, <1>3, <2>1, <2>2 DEF Flow, Joins
<1>4. CASE Starts(<<>>, FALSE) /\ UNCHANGED <<steering, followUps>>
  <2>1. AllIn' = AllIn
    BY <1>0, <1>1, <1>4, ConcatEmptySeq DEF Starts
  <2> QED  BY <1>1, <1>2, <1>4, <2>1 DEF Flow, Stays
<1>5. CASE Starts(Drained(steering), TRUE) /\ steering' = Left(steering)
  <2>1. AllIn' = AllIn \o Drained(steering) /\ ~ToPoll'
    BY <1>1, <1>5 DEF Starts, ToPoll
  <2> QED  BY <1>1, <1>2, <1>5, <2>1 DEF Flow, TakesSteering
<1>6. CASE Starts(Drained(followUps), FALSE) /\ UNCHANGED steering
  <2>1. AllIn' = AllIn \o Drained(followUps)
    BY <1>1, <1>6 DEF Starts
  <2> QED  BY <1>1, <1>2, <1>6, <2>1 DEF Flow, TakesFollowUps
<1> QED  BY <1>3, <1>4, <1>5, <1>6, StartMoves

\* Without failures and cancellations no run fails.
LEMMA NeverFails ==
  ASSUME ~Failures, ~Cancels, LoopInv, loop.pc \notin Failing, [Next]_vars
  PROVE  loop'.pc \notin Failing
<1>1. CASE FirstTurn \/ StartInjecting \/ EndInjecting \/ FirstPoll \/ Request \/ StreamStart
  BY <1>1, OpeningMoves, FirstPollMoves, StreamStartMoves DEF Moves, Failing
<1>2. CASE StreamEnd \/ ErrorTurn \/ PlainTurn \/ LastTurn \/ NothingLeft \/ StopAfterTurn
           \/ Finish
  BY <1>2, StreamEndMoves, AnsweredMoves, EndingMoves, SettlingMoves, IdleTyped
     DEF Moves, Settles, Failing
<1>3. CASE TurnWithSteering \/ TurnWithFollowUps
  BY <1>3, TurnMoves, NextTurnMoves DEF Failing
<1>4. CASE \/ BeginBatch \/ FailCall \/ ExecuteCall \/ CallExecuted \/ SequentialResult
           \/ SequentialNext \/ PrepareRunner \/ AfterImmediate \/ Joined \/ ParallelNext
           \/ FinishBatch \/ EndResult
  <2>1. loop'.pc \in {"tool_start", "executing", "tool_end", "join", "result_start",
                      "turn_end", "result_end"}
    BY <1>4, BeginBatchMoves, OutcomeMoves, ResultMoves, RunnerMoves, ImmediateMoves,
       JoinedMoves, FinishBatchMoves, EndResultMoves DEF Spawns, Moves
  <2> QED  BY <2>1 DEF Failing
<1>5. CASE Fail \/ FailAgain \/ CancelRun
  BY <1>5 DEF Fail, FailAgain, CancelRun
<1>6. CASE ReportFailure
  BY <1>6, ReportMoves
<1>7. CASE Prompt \/ ContinueTranscript \/ ContinueWithSteering \/ ContinueWithFollowUps
  BY <1>7, StartMoves DEF Starts, Failing
<1>8. CASE UNCHANGED loop
  BY <1>8
<1>9. CASE \E c \in DOMAIN tasks : Task(c)
  BY <1>9, TaskMoves
<1> QED  BY <1>1, <1>2, <1>3, <1>4, <1>5, <1>6, <1>7, <1>8, <1>9
         DEF Next, Progress, Turn, Tools, Caller, vars

\* All of it: what a step of a run, a tool task or a caller does to messages.
LEMMA StepFlows ==
  ASSUME ~Failures, ~Cancels, LoopInv, LoopInv', loop.pc \notin Failing, [Next]_vars
  PROVE  \/ Flow
         \/ /\ UNCHANGED loop
            /\ \/ \E m \in Steers : Steer(m)
               \/ ClearAllQueues \/ Reset
<1>0. ASSUME UNCHANGED loop, state'.messages = state.messages,
             UNCHANGED <<mode, steering, steered>>, sent \subseteq sent'
      PROVE  Flow
  <2>1. AllIn' = AllIn
    BY <1>0 DEF AllIn, Injected, At
  <2> QED  BY <1>0, <2>1 DEF Flow, Stays, ToPoll
<1>1. CASE Progress
  <2>1. ~Fail /\ ~FailAgain /\ ~ReportFailure
    BY ReportMoves DEF Fail, FailAgain
  <2> QED  BY <1>1, <2>1, OpeningFlows, AnswerFlows, CallFlows, TurnFlows
           DEF Progress, Turn, Tools
<1>2. CASE Prompt \/ ContinueTranscript \/ ContinueWithSteering \/ ContinueWithFollowUps
  BY <1>2, StartFlows
<1>3. ASSUME NEW m \in FollowUps, FollowUp(m), UNCHANGED loop
      PROVE  Flow
  BY <1>0, <1>3 DEF FollowUp
<1>4. CASE Abort /\ UNCHANGED loop
  BY <1>0, <1>4 DEF Abort
<1>5. CASE \E c \in DOMAIN tasks : Task(c)
  BY <1>0, <1>5, TaskMoves DEF QueuesKept, NothingSaid, Becomes
<1>6. CASE UNCHANGED vars
  BY <1>0, <1>6 DEF vars, agentVars
<1>7. ~CancelRun
  BY DEF CancelRun
<1> QED  BY <1>1, <1>2, <1>3, <1>4, <1>5, <1>6, <1>7 DEF Next, Caller

-----------------------------------------------------------------------------
(* No steering message is lost, doubled or overtaken.                      *)

\* The queue is the end of the line of messages steered so far, each of which
\* was sent once.
QueueEndsLine ==
  /\ steered \in Seq(SteerMessages)
  /\ \A a, b \in 1..Len(steered) : steered[a] = steered[b] => a = b
  /\ \A a \in 1..Len(steered) : steered[a].id \in sent
  /\ Len(steering) <= Len(steered)
  /\ \A k \in 1..Len(steering) :
       steering[k] = steered[Len(steered) - Len(steering) + k]

Line == QueueEndsLine /\ InLineAt(AllIn \o steering, steered)

LEMMA LineOfQueue ==
  ASSUME LoopInv, QueueEndsLine, steered' = steered, sent \subseteq sent',
         steering' = steering \/ steering' = Left(steering)
  PROVE  QueueEndsLine'
<1>1. CASE steering' = steering
  BY <1>1 DEF QueueEndsLine
<1>2. CASE steering' = Left(steering)
  <2> DEFINE d == Len(Drained(steering))
  <2>1. /\ Left(steering) \in Seq(SteerMessages) /\ Drained(steering) \in Seq(SteerMessages)
        /\ d + Len(Left(steering)) = Len(steering)
        /\ \A i \in 1..Len(Left(steering)) : Left(steering)[i] = steering[d + i]
    BY HandsTyped, DrainedIs
  <2>2. d \in Nat /\ Len(Left(steering)) \in Nat /\ Len(steering) \in Nat /\ Len(steered) \in Nat
    BY <2>1, HandsTyped, LenProperties DEF QueueEndsLine
  <2> SUFFICES ASSUME NEW left, left = Left(steering), steering' = left,
                      NEW n, n = d, n \in Nat, Len(left) \in Nat, n + Len(left) = Len(steering),
                      \A i \in 1..Len(left) : left[i] = steering[n + i]
               PROVE  QueueEndsLine'
    BY <1>2, <2>1, <2>2
  <2> HIDE DEF d
  <2>3. Len(left) <= Len(steered)
    BY <2>2 DEF QueueEndsLine
  <2>4. ASSUME NEW k \in 1..Len(left)
        PROVE  left[k] = steered[Len(steered) - Len(left) + k]
    <3>1. n + k \in 1..Len(steering)
      BY <2>2
    <3>2. steering[n + k] = steered[Len(steered) - Len(steering) + (n + k)]
      BY <3>1 DEF QueueEndsLine
    <3>3. Len(steered) - Len(steering) + (n + k) = Len(steered) - Len(left) + k
      BY <2>2
    <3> QED  BY <3>2, <3>3
  <2> QED  BY <2>3, <2>4 DEF QueueEndsLine
<1> QED  BY <1>1, <1>2

LEMMA FlowLine ==
  ASSUME LoopInv, LoopInv', Line, Flow
  PROVE  Line'
<1>0. AllIn \in Seq(Messages) /\ steering \in Seq(Messages) /\ steered \in Seq(SteerMessages)
      /\ InLineAt(AllIn \o steering, steered) /\ QueueEndsLine
  BY HandsTyped DEF Line, QueueEndsLine
<1>1. CASE Stays
  BY <1>0, <1>1, LineOfQueue DEF Line, Stays
<1>2. ASSUME NEW m \in Messages, ~IsSteer(m), Joins(m)
      PROVE  Line'
  <2>1. <<m>> \in Seq(Messages) /\ Append(AllIn, m) = AllIn \o <<m>>
    BY <1>0, AppendIsConcat
  <2>2. \A i \in 1..Len(<<m>>) : ~IsSteer(<<m>>[i])
    BY <1>2
  <2>3. InLineAt((AllIn \o <<m>>) \o steering, steered)
    BY <1>0, <2>1, <2>2, OthersJoin
  <2> QED  BY <1>0, <1>2, <2>1, <2>3, LineOfQueue DEF Line, Joins
<1>3. CASE TakesSteering
  <2>1. Drained(steering) \in Seq(Messages) /\ Left(steering) \in Seq(Messages)
        /\ Drained(steering) \o Left(steering) = steering
    BY <1>0, DrainedIs, DrainedThenLeft
  <2>2. (AllIn \o Drained(steering)) \o Left(steering) = AllIn \o steering
    <3>1. \A s, t, u \in Seq(Messages) : (s \o t) \o u = s \o (t \o u)
      BY ConcatAssociative
    <3>2. (AllIn \o Drained(steering)) \o Left(steering)
            = AllIn \o (Drained(steering) \o Left(steering))
      BY <1>0, <2>1, <3>1
    <3> QED  BY <2>1, <3>2
  <2> QED  BY <1>0, <1>3, <2>2, LineOfQueue DEF Line, TakesSteering
<1>4. CASE TakesFollowUps
  <2>1. Drained(followUps) \in Seq(FollowUpMessages)
    BY HandsTyped, DrainedIs
  <2>2. Drained(followUps) \in Seq(Messages)
    BY <2>1, Kinds, SeqMonotonic
  <2>3. \A i \in 1..Len(Drained(followUps)) : ~IsSteer(Drained(followUps)[i])
    BY <2>1, ElementOfSeq, Kinds
  <2>4. InLineAt((AllIn \o Drained(followUps)) \o steering, steered)
    BY <1>0, <2>2, <2>3, OthersJoin
  <2> QED  BY <1>0, <1>4, <2>4, LineOfQueue DEF Line, TakesFollowUps
<1> QED  BY <1>1, <1>2, <1>3, <1>4, Kinds DEF Flow

LEMMA SteerLine ==
  ASSUME LoopInv, Line, NEW m \in Steers, Steer(m), UNCHANGED loop
  PROVE  Line'
<1> SUFFICES ASSUME NEW u, u = User(m) PROVE Line'
  OBVIOUS
<1>0. u \in SteerMessages /\ u \in Messages /\ u.id = m
  <2>1. u \in SteerMessages /\ u.id = m
    BY DEF User, SteerMessages
  <2> QED  BY <2>1, Kinds
<1>1. /\ m \notin sent /\ sent' = sent \cup {m}
      /\ steering' = Append(steering, u) /\ steered' = Append(steered, u)
      /\ state' = state
  BY DEF Steer
<1>2. /\ AllIn \in Seq(Messages) /\ steering \in Seq(Messages)
      /\ steering \in Seq(SteerMessages) /\ steered \in Seq(SteerMessages)
  BY HandsTyped DEF Line, QueueEndsLine
<1>3. AllIn' = AllIn
  BY <1>1 DEF AllIn, Injected, At
<1>4. InLineAt(AllIn \o Append(steering, u), Append(steered, u))
  <2>1. AllIn \o Append(steering, u) = Append(AllIn \o steering, u)
    BY <1>0, <1>2, ConcatAppended
  <2>2. AllIn \o steering \in Seq(Messages)
    BY <1>2, ConcatProperties
  <2>3. InLineAt(Append(AllIn \o steering, u), Append(steered, u))
    BY <1>0, <1>2, <2>2, SteerJoins DEF Line
  <2> QED  BY <2>1, <2>3
<1>5. /\ Append(steered, u) \in Seq(SteerMessages)
      /\ Len(steered') = Len(steered) + 1 /\ Len(steered) \in Nat
      /\ steered'[Len(steered) + 1] = u /\ \A a \in 1..Len(steered) : steered'[a] = steered[a]
      /\ Len(steering') = Len(steering) + 1 /\ Len(steering) \in Nat
      /\ steering'[Len(steering) + 1] = u
      /\ \A k \in 1..Len(steering) : steering'[k] = steering[k]
  <2>1. /\ Append(steered, u) \in Seq(SteerMessages)
        /\ Len(Append(steered, u)) = Len(steered) + 1 /\ Len(steered) \in Nat
        /\ Append(steered, u)[Len(steered) + 1] = u
        /\ \A a \in 1..Len(steered) : Append(steered, u)[a] = steered[a]
    BY <1>0, <1>2, AppendProperties, LenProperties
  <2>2. /\ Len(Append(steering, u)) = Len(steering) + 1 /\ Len(steering) \in Nat
        /\ Append(steering, u)[Len(steering) + 1] = u
        /\ \A k \in 1..Len(steering) : Append(steering, u)[k] = steering[k]
    BY <1>0, <1>2, AppendProperties, LenProperties
  <2> QED  BY <1>1, <2>1, <2>2
<1>6. \A a \in 1..Len(steered') : a \in 1..Len(steered) \/ a = Len(steered) + 1
  BY <1>5
<1>7. /\ \A a \in 1..Len(steered) : steered[a].id \in sent
      /\ \A a, b \in 1..Len(steered) : steered[a] = steered[b] => a = b
      /\ Len(steering) <= Len(steered)
      /\ \A k \in 1..Len(steering) :
           steering[k] = steered[Len(steered) - Len(steering) + k]
  BY DEF Line, QueueEndsLine
<1>8. \A a \in 1..Len(steered') : steered'[a].id \in sent'
  BY <1>0, <1>1, <1>5, <1>6, <1>7
<1>9. \A a \in 1..Len(steered) : steered[a] # u
  BY <1>0, <1>1, <1>7
<1>10. ASSUME NEW a \in 1..Len(steered'), NEW b \in 1..Len(steered'), steered'[a] = steered'[b]
       PROVE  a = b
  <2>1. CASE a \in 1..Len(steered) /\ b \in 1..Len(steered)
    BY <1>5, <1>7, <1>10, <2>1
  <2>2. CASE a \in 1..Len(steered) /\ b = Len(steered) + 1
    BY <1>5, <1>9, <1>10, <2>2
  <2>3. CASE a = Len(steered) + 1 /\ b \in 1..Len(steered)
    BY <1>5, <1>9, <1>10, <2>3
  <2>4. CASE a = Len(steered) + 1 /\ b = Len(steered) + 1
    BY <2>4
  <2> QED  BY <1>6, <2>1, <2>2, <2>3, <2>4
<1>11. Len(steering') <= Len(steered')
  BY <1>5, <1>7
<1>12. ASSUME NEW k \in 1..Len(steering')
       PROVE  steering'[k] = steered'[Len(steered') - Len(steering') + k]
  <2>1. CASE k \in 1..Len(steering)
    <3>1. /\ Len(steered) - Len(steering) + k \in 1..Len(steered)
          /\ Len(steered') - Len(steering') + k = Len(steered) - Len(steering) + k
      BY <1>5, <1>7, <2>1
    <3> QED  BY <1>5, <1>7, <2>1, <3>1
  <2>2. CASE k = Len(steering) + 1
    <3>1. Len(steered') - Len(steering') + k = Len(steered) + 1
      BY <1>5, <2>2
    <3> QED  BY <1>5, <2>2, <3>1
  <2> QED  BY <1>5, <2>1, <2>2
<1>13. QueueEndsLine'
  BY <1>1, <1>5, <1>8, <1>10, <1>11, <1>12 DEF QueueEndsLine
<1> QED  BY <1>1, <1>3, <1>4, <1>13 DEF Line

LEMMA ClearLine ==
  ASSUME LoopInv, Line, ClearAllQueues \/ Reset, UNCHANGED loop
  PROVE  Line'
<1>0. /\ AllIn \in Seq(Messages) /\ steering \in Seq(SteerMessages)
      /\ steered \in Seq(SteerMessages) /\ QueueEndsLine
      /\ Len(steering) \in Nat /\ Len(steered) \in Nat /\ Len(steering) <= Len(steered)
  BY HandsTyped, LenProperties DEF Line, QueueEndsLine
<1>1. CASE ClearAllQueues
  <2> SUFFICES ASSUME NEW n, n = Len(steered) - Len(steering),
                      NEW rest, rest = SubSeq(steered, 1, n)
               PROVE  Line'
    OBVIOUS
  <2>1. steering' = <<>> /\ steered' = rest /\ sent' = sent /\ AllIn' = AllIn
    BY <1>1 DEF ClearAllQueues, AllIn, Injected, At
  <2>2. n \in 0..Len(steered)
    BY <1>0
  <2>3. /\ rest \in Seq(SteerMessages) /\ Len(rest) = n
        /\ \A a \in 1..n : rest[a] = steered[a] /\ a \in 1..Len(steered)
    <3>1. \A a \in 1..n : a \in 1..Len(steered)
      BY <1>0, <2>2
    <3>2. \A a \in 1..n : steered[a] \in SteerMessages
      BY <1>0, <3>1, ElementOfSeq
    <3>3. /\ rest \in Seq(SteerMessages) /\ Len(rest) = n - 1 + 1
          /\ \A a \in 1..(n - 1 + 1) : rest[a] = steered[1 + a - 1]
      BY <1>0, <2>2, <3>2, SubSeqProperties
    <3>4. n - 1 + 1 = n /\ \A a \in 1..n : 1 + a - 1 = a
      BY <2>2
    <3> QED  BY <3>1, <3>3, <3>4
  <2>4. InLineAt(AllIn, rest)
    BY <1>0, QueueDropped DEF Line, QueueEndsLine
  <2>5. AllIn \o <<>> = AllIn
    BY <1>0, ConcatEmptySeq
  <2>6. Len(<<>>) = 0 /\ 1..0 = {}
    OBVIOUS
  <2>7. QueueEndsLine'
    <3>1. \A a, b \in 1..Len(steered) : steered[a] = steered[b] => a = b
      BY <1>0 DEF QueueEndsLine
    <3>2. \A a \in 1..Len(steered) : steered[a].id \in sent
      BY <1>0 DEF QueueEndsLine
    <3>3. \A a, b \in 1..n : rest[a] = rest[b] => a = b
      BY <2>3, <3>1
    <3>4. \A a \in 1..n : rest[a].id \in sent
      BY <2>3, <3>2
    <3>5. 0 <= n
      BY <2>2
    <3> QED  BY <2>1, <2>3, <2>6, <3>3, <3>4, <3>5 DEF QueueEndsLine
  <2> QED  BY <2>1, <2>4, <2>5, <2>7 DEF Line
<1>2. CASE Reset
  <2>1. loop.pc = "idle" /\ state'.messages = <<>> /\ steering' = <<>> /\ steered' = <<>>
    BY <1>2 DEF Reset, EmptyState, LoopInv, Types
  <2>2. Injected'.inject = <<>>
    BY <2>1 DEF Injected, At, LoopInv, Shape, Opening
  <2>3. AllIn' \o steering' = <<>>
    BY <2>1, <2>2 DEF AllIn
  <2>4. Len(<<>>) = 0 /\ 1..0 = {} /\ <<>> \in Seq(SteerMessages)
    OBVIOUS
  <2> QED  BY <2>1, <2>3, <2>4 DEF Line, QueueEndsLine, InLineAt
<1> QED  BY <1>1, <1>2

-----------------------------------------------------------------------------
(* One at a time: the model answers each message before the next one.      *)

\* Two messages of this kind have an answer between them, and each of them
\* has one after it.
Spaced(kind, s) ==
  \A i, j \in 1..Len(s) :
    i < j /\ s[i] \in kind /\ s[j] \in kind => \E k \in i..j : s[k].role = "assistant"

AllAnswered(kind, s) ==
  \A i \in 1..Len(s) :
    s[i] \in kind => \E k \in i..Len(s) : s[k].role = "assistant"

QueuedKinds == {SteerMessages, FollowUpMessages}

Paced ==
  mode = "one-at-a-time" =>
    /\ \A kind \in QueuedKinds :
         /\ Spaced(kind, AllIn)
         /\ loop.pc \notin Unanswered => AllAnswered(kind, AllIn)
    /\ ToPoll => AllAnswered(SteerMessages, AllIn)

LEMMA OneMore ==
  ASSUME NEW s \in Seq(Messages), NEW m \in Messages, NEW kind
  PROVE  /\ Spaced(kind, s) /\ (m \notin kind \/ AllAnswered(kind, s)) =>
              Spaced(kind, Append(s, m))
         /\ m \notin kind /\ AllAnswered(kind, s) => AllAnswered(kind, Append(s, m))
         /\ m \notin kind /\ m.role = "assistant" => AllAnswered(kind, Append(s, m))
<1> SUFFICES ASSUME NEW t, t = Append(s, m), NEW n, n = Len(s)
             PROVE  /\ Spaced(kind, s) /\ (m \notin kind \/ AllAnswered(kind, s)) =>
                         Spaced(kind, t)
                    /\ m \notin kind /\ AllAnswered(kind, s) => AllAnswered(kind, t)
                    /\ m \notin kind /\ m.role = "assistant" => AllAnswered(kind, t)
  OBVIOUS
<1>1. n \in Nat /\ Len(t) = n + 1 /\ t[n + 1] = m /\ \A i \in 1..n : t[i] = s[i]
  BY AppendProperties, LenProperties
<1>2. \A i \in 1..Len(t) : i \in 1..n \/ i = n + 1
  BY <1>1
<1>3. ASSUME Spaced(kind, s), m \notin kind \/ AllAnswered(kind, s),
             NEW i \in 1..Len(t), NEW j \in 1..Len(t), i < j, t[i] \in kind, t[j] \in kind
      PROVE  \E k \in i..j : t[k].role = "assistant"
  <2>1. i \in 1..n
    BY <1>1, <1>2, <1>3
  <2>2. CASE j \in 1..n
    <3>1. PICK k \in i..j : s[k].role = "assistant"
      BY <1>1, <1>3, <2>1, <2>2 DEF Spaced
    <3>2. k \in 1..n
      BY <2>1, <2>2
    <3> QED  BY <1>1, <3>1, <3>2
  <2>3. CASE j = n + 1
    <3>1. AllAnswered(kind, s)
      BY <1>1, <1>3, <2>3
    <3>2. PICK k \in i..n : s[k].role = "assistant"
      BY <1>1, <1>3, <2>1, <3>1 DEF AllAnswered
    <3>3. k \in 1..n /\ k \in i..j
      BY <1>1, <2>1, <2>3
    <3> QED  BY <1>1, <3>2, <3>3
  <2> QED  BY <1>2, <2>2, <2>3
<1>4. ASSUME m \notin kind, AllAnswered(kind, s) \/ m.role = "assistant",
             NEW i \in 1..Len(t), t[i] \in kind
      PROVE  \E k \in i..Len(t) : t[k].role = "assistant"
  <2>1. i \in 1..n
    BY <1>1, <1>2, <1>4
  <2>2. CASE AllAnswered(kind, s)
    <3>1. PICK k \in i..n : s[k].role = "assistant"
      BY <1>1, <1>4, <2>1, <2>2 DEF AllAnswered
    <3>2. k \in 1..n /\ k \in i..Len(t)
      BY <1>1, <2>1
    <3> QED  BY <1>1, <3>1, <3>2
  <2>3. CASE m.role = "assistant"
    <3>1. n + 1 \in i..Len(t)
      BY <1>1, <2>1
    <3> QED  BY <1>1, <2>3, <3>1
  <2> QED  BY <1>4, <2>2, <2>3
<1>5. ASSUME Spaced(kind, s), m \notin kind \/ AllAnswered(kind, s)
      PROVE  Spaced(kind, t)
  BY <1>3, <1>5 DEF Spaced
<1>6. ASSUME m \notin kind, AllAnswered(kind, s) \/ m.role = "assistant"
      PROVE  AllAnswered(kind, t)
  BY <1>4, <1>6 DEF AllAnswered
<1> QED  BY <1>5, <1>6

\* One at a time, a queue gives nothing or its first message.
LEMMA OneDrained ==
  ASSUME mode = "one-at-a-time", NEW S, S \subseteq Messages, NEW queue \in Seq(S),
         NEW s \in Seq(Messages)
  PROVE  \/ s \o Drained(queue) = s
         \/ \E m \in S : s \o Drained(queue) = Append(s, m)
<1>1. CASE queue = <<>>
  <2>1. Drained(queue) = <<>>
    BY <1>1 DEF Drained
  <2> QED  BY <2>1, ConcatEmptySeq
<1>2. CASE queue # <<>>
  <2>1. Drained(queue) = <<Head(queue)>>
    BY <1>2 DEF Drained
  <2>2. Head(queue) \in S
    BY <1>2, HeadTailProperties
  <2>3. s \o <<Head(queue)>> = Append(s, Head(queue))
    BY <2>2, AppendIsConcat
  <2> QED  BY <2>1, <2>2, <2>3
<1> QED  BY <1>1, <1>2

LEMMA FlowPaced ==
  ASSUME LoopInv, Paced, Flow
  PROVE  Paced'
<1> SUFFICES ASSUME mode' = "one-at-a-time"
             PROVE  /\ \A kind \in QueuedKinds :
                         /\ Spaced(kind, AllIn')
                         /\ loop'.pc \notin Unanswered => AllAnswered(kind, AllIn')
                    /\ ToPoll' => AllAnswered(SteerMessages, AllIn')
  BY DEF Paced, QueuedKinds, SteerMessages, FollowUpMessages, Spaced, AllAnswered,
     Unanswered,
         Opening
<1>0. AllIn \in Seq(Messages) /\ mode = "one-at-a-time"
  BY HandsTyped DEF Flow, Stays, Joins, TakesSteering, TakesFollowUps
<1>1. /\ \A kind \in QueuedKinds :
           /\ Spaced(kind, AllIn)
           /\ loop.pc \notin Unanswered => AllAnswered(kind, AllIn)
      /\ ToPoll => AllAnswered(SteerMessages, AllIn)
  BY <1>0 DEF Paced
<1>2. SteerMessages \in QueuedKinds /\ FollowUpMessages \in QueuedKinds
  BY DEF QueuedKinds
<1>3. \A kind : \A m \in Messages :
        /\ Spaced(kind, AllIn) /\ (m \notin kind \/ AllAnswered(kind, AllIn)) =>
             Spaced(kind, Append(AllIn, m))
        /\ m \notin kind /\ AllAnswered(kind, AllIn) => AllAnswered(kind, Append(AllIn, m))
        /\ m \notin kind /\ m.role = "assistant" => AllAnswered(kind, Append(AllIn, m))
  BY <1>0, OneMore
<1>4. CASE /\ AllIn' = AllIn
           /\ loop'.pc \notin Unanswered => loop.pc \notin Unanswered
           /\ ToPoll' => ToPoll \/ loop.pc \notin Unanswered
  BY <1>1, <1>2, <1>4
<1>5. ASSUME NEW m \in Messages, AllIn' = Append(AllIn, m),
             \A kind \in QueuedKinds : m \notin kind,
             \/ m.role = "assistant" /\ ~ToPoll'
             \/ loop.pc \notin Unanswered
      PROVE  /\ \A kind \in QueuedKinds :
                  /\ Spaced(kind, AllIn')
                  /\ loop'.pc \notin Unanswered => AllAnswered(kind, AllIn')
             /\ ToPoll' => AllAnswered(SteerMessages, AllIn')
  BY <1>1, <1>2, <1>3, <1>5
<1>6. ASSUME NEW m \in SteerMessages, AllIn' = Append(AllIn, m),
             ToPoll \/ loop.pc \notin Unanswered, loop'.pc \in Unanswered, ~ToPoll'
      PROVE  \A kind \in QueuedKinds : Spaced(kind, AllIn')
  <2>1. AllAnswered(SteerMessages, AllIn) /\ m \notin FollowUpMessages /\ m \in Messages
    BY <1>1, <1>2, <1>6, Kinds
  <2> QED  BY <1>1, <1>3, <1>6, <2>1 DEF QueuedKinds
<1>7. ASSUME NEW m \in FollowUpMessages, AllIn' = Append(AllIn, m),
             loop.pc \notin Unanswered, loop'.pc \in Unanswered
      PROVE  /\ \A kind \in QueuedKinds : Spaced(kind, AllIn')
             /\ AllAnswered(SteerMessages, AllIn')
  <2>1. /\ AllAnswered(FollowUpMessages, AllIn) /\ AllAnswered(SteerMessages, AllIn)
        /\ m \notin SteerMessages /\ m \in Messages
    BY <1>1, <1>2, <1>7, Kinds
  <2> QED  BY <1>1, <1>3, <1>7, <2>1 DEF QueuedKinds
<1>8. CASE Stays /\ (loop'.pc \notin Unanswered => loop.pc \notin Unanswered)
                 /\ (ToPoll' => ToPoll \/ loop.pc \notin Unanswered)
  BY <1>4, <1>8 DEF Stays
<1>9. ASSUME NEW m \in Messages, Joins(m), ~IsSteer(m), ~IsFollowUp(m),
             \/ m.role = "assistant" /\ ~ToPoll'
             \/ loop.pc \notin Unanswered
      PROVE  /\ \A kind \in QueuedKinds :
                  /\ Spaced(kind, AllIn')
                  /\ loop'.pc \notin Unanswered => AllAnswered(kind, AllIn')
             /\ ToPoll' => AllAnswered(SteerMessages, AllIn')
  <2>1. \A kind \in QueuedKinds : m \notin kind
    BY <1>9, Kinds DEF QueuedKinds
  <2> QED  BY <1>5, <1>9, <2>1 DEF Joins
<1>10. CASE /\ TakesSteering /\ (ToPoll \/ loop.pc \notin Unanswered)
            /\ loop'.pc \in Unanswered /\ ~ToPoll'
  <2>1. AllIn' = AllIn \/ \E m \in SteerMessages : AllIn' = Append(AllIn, m)
    <3>1. \A queue \in Seq(SteerMessages), s \in Seq(Messages) :
            \/ s \o Drained(queue) = s
            \/ \E m \in SteerMessages : s \o Drained(queue) = Append(s, m)
      BY <1>0, Kinds, OneDrained
    <3> QED  BY <1>0, <1>10, <3>1, HandsTyped DEF TakesSteering
  <2> QED  BY <1>4, <1>6, <1>10, <2>1
<1>11. CASE TakesFollowUps /\ loop.pc \notin Unanswered /\ loop'.pc \in Unanswered
  <2>1. AllIn' = AllIn \/ \E m \in FollowUpMessages : AllIn' = Append(AllIn, m)
    <3>1. \A queue \in Seq(FollowUpMessages), s \in Seq(Messages) :
            \/ s \o Drained(queue) = s
            \/ \E m \in FollowUpMessages : s \o Drained(queue) = Append(s, m)
      BY <1>0, Kinds, OneDrained
    <3> QED  BY <1>0, <1>11, <3>1, HandsTyped DEF TakesFollowUps
  <2> QED  BY <1>4, <1>7, <1>11, <2>1
<1> QED  BY <1>8, <1>9, <1>10, <1>11, Kinds, MessageKinds DEF Flow

LEMMA CallerPaced ==
  ASSUME LoopInv, Paced, UNCHANGED loop,
         (\E m \in Steers : Steer(m)) \/ ClearAllQueues \/ Reset
  PROVE  Paced'
<1>1. CASE (\E m \in Steers : Steer(m)) \/ ClearAllQueues
  <2>1. AllIn' = AllIn /\ mode' = mode /\ ToPoll' = ToPoll
    BY <1>1 DEF Steer, ClearAllQueues, AllIn, Injected, At, ToPoll
  <2> QED  BY <2>1 DEF Paced
<1>2. CASE Reset
  <2>1. loop.pc = "idle" /\ state'.messages = <<>>
    BY <1>2 DEF Reset, EmptyState, LoopInv, Types
  <2>2. Injected'.inject = <<>>
    BY <2>1 DEF Injected, At, LoopInv, Shape, Opening
  <2>3. AllIn' = <<>>
    BY <2>1, <2>2 DEF AllIn
  <2>4. Len(<<>>) = 0 /\ 1..0 = {}
    OBVIOUS
  <2> QED  BY <2>3, <2>4 DEF Paced, Spaced, AllAnswered
<1> QED  BY <1>1, <1>2

-----------------------------------------------------------------------------
\* Without a failure to end it, no run loses what callers queued: every message
\* that was steered is in the transcript, on its way to it or still queued, once
\* and in the order it was sent, and in "one-at-a-time" mode the model answers
\* each before it is shown the next. (A run that fails drops the messages in
\* its hands, in the code as in the model: hence the assumption.)
THEOREM InputStaysInOrder ==
  ASSUME ~Failures, ~Cancels
  PROVE  Spec => []InputInOrder
<1>1. Init => loop.pc \notin Failing /\ Line /\ Paced
  <2> SUFFICES ASSUME Init PROVE loop.pc \notin Failing /\ Line /\ Paced
    OBVIOUS
  <2>1. /\ loop.pc = "idle" /\ loop.inject = <<>> /\ state.messages = <<>>
        /\ steering = <<>> /\ steered = <<>>
    BY IdleTyped DEF Init, AgentInit, EmptyState
  <2>2. AllIn = <<>>
    BY <2>1 DEF AllIn, Injected, At
  <2>3. Len(<<>>) = 0 /\ 1..0 = {} /\ <<>> \in Seq(SteerMessages) /\ <<>> \o <<>> = <<>>
    OBVIOUS
  <2> QED  BY <2>1, <2>2, <2>3
           DEF Failing, Line, QueueEndsLine, InLineAt, Paced, Spaced, AllAnswered
<1>2. LoopInv /\ LoopInv' /\ loop.pc \notin Failing /\ Line /\ Paced /\ [Next]_vars
        => (loop.pc \notin Failing /\ Line /\ Paced)'
  <2> SUFFICES ASSUME LoopInv, LoopInv', loop.pc \notin Failing, Line, Paced, [Next]_vars
               PROVE  (loop.pc \notin Failing)' /\ Line' /\ Paced'
    OBVIOUS
  <2>1. (loop.pc \notin Failing)'
    BY NeverFails
  <2>2. CASE Flow
    BY <2>1, <2>2, FlowLine, FlowPaced
  <2>3. CASE /\ UNCHANGED loop
             /\ (\E m \in Steers : Steer(m)) \/ ClearAllQueues \/ Reset
    BY <2>1, <2>3, SteerLine, ClearLine, CallerPaced
  <2> QED  BY <2>2, <2>3, StepFlows
<1>3. LoopInv /\ Line => SteeringInOrder
  <2> SUFFICES ASSUME LoopInv, Line PROVE SteeringInOrder
    OBVIOUS
  <2>1. AllIn \o steering \in Seq(Messages) /\ steered \in Seq(SteerMessages)
    BY HandsTyped, ConcatProperties DEF Line, QueueEndsLine
  <2>2. InLine(AllIn \o steering, steered)
    BY <2>1, InLineIs DEF Line
  <2> QED  BY <2>2 DEF InLine, SteeringInOrder, AllIn
<1>4. LoopInv /\ Paced => OneAtATime
  <2> SUFFICES ASSUME LoopInv, Paced, mode = "one-at-a-time",
                      NEW i \in 1..Len(state.messages), NEW j \in 1..Len(state.messages), i < j,
                      \/ IsSteer(state.messages[i]) /\ IsSteer(state.messages[j])
                      \/ IsFollowUp(state.messages[i]) /\ IsFollowUp(state.messages[j])
               PROVE  \E k \in i..j : state.messages[k].role = "assistant"
    BY DEF OneAtATime
  <2> SUFFICES ASSUME NEW all, all = AllIn
               PROVE  \E k \in i..j : state.messages[k].role = "assistant"
    OBVIOUS
  <2>1. /\ Len(state.messages) \in Nat /\ Len(state.messages) <= Len(all) /\ Len(all) \in Nat
        /\ \A k \in 1..Len(state.messages) : all[k] = state.messages[k]
    <3>1. state.messages \in Seq(Messages) /\ Injected.inject \in Seq(Messages)
      BY HandsTyped
    <3>2. \A s, t \in Seq(Messages) :
            /\ Len(s) \in Nat /\ Len(t) \in Nat /\ Len(s \o t) = Len(s) + Len(t)
            /\ \A k \in 1..Len(s) : (s \o t)[k] = s[k]
      BY ConcatProperties, LenProperties
    <3>3. all = state.messages \o Injected.inject
      BY DEF AllIn
    <3>4. /\ Len(state.messages) \in Nat /\ Len(Injected.inject) \in Nat
          /\ Len(all) = Len(state.messages) + Len(Injected.inject)
          /\ \A k \in 1..Len(state.messages) : all[k] = state.messages[k]
      <4>1. all = state.messages \o Injected.inject
        BY <3>3
      <4>2. /\ Len(state.messages) \in Nat /\ Len(Injected.inject) \in Nat
            /\ Len(state.messages \o Injected.inject)
                 = Len(state.messages) + Len(Injected.inject)
            /\ \A k \in 1..Len(state.messages) :
                 (state.messages \o Injected.inject)[k] = state.messages[k]
        BY <3>1, <3>2, Zenon
      <4> QED  BY <4>1, <4>2, Zenon
    <3>5. \A a, b \in Nat : a + b \in Nat /\ a <= a + b
      OBVIOUS
    <3>6. Len(all) \in Nat /\ Len(state.messages) <= Len(all)
      BY <3>4, <3>5
    <3> QED  BY <3>4, <3>6
  <2>2. PICK kind \in QueuedKinds : state.messages[i] \in kind /\ state.messages[j] \in kind
    <3>1. state.messages[i] \in Messages /\ state.messages[j] \in Messages
      BY HandsTyped, ElementOfSeq
    <3> QED  BY <3>1, Kinds DEF QueuedKinds
  <2>3. Spaced(kind, all)
    BY <2>2 DEF Paced
  <2>4. i \in 1..Len(all) /\ j \in 1..Len(all) /\ all[i] \in kind /\ all[j] \in kind
    BY <2>1, <2>2
  <2>5. PICK k \in i..j : all[k].role = "assistant"
    BY <2>3, <2>4 DEF Spaced
  <2>6. k \in 1..Len(state.messages)
    BY <2>1
  <2> QED  BY <2>1, <2>5, <2>6
<1> QED  BY <1>1, <1>2, <1>3, <1>4, RunsAreSound, PTL DEF Spec, InputInOrder

-----------------------------------------------------------------------------
(* What the listeners are told.                                            *)

ViewRecord == [run : BOOLEAN, turn : BOOLEAN, message : Messages \cup {NoMessage},
               tools : SUBSET Calls, tick : BOOLEAN]

\* The account a listener keeps is where the run is.
Telling ==
  /\ view \in ViewRecord
  /\ view.run <=> loop.pc \notin {"idle", "agent_end"}
  /\ view.turn <=> loop.pc \notin {"idle", "agent_start", "last_turn", "turn_end", "agent_end"}
  /\ view.message = NoMessage <=> loop.pc \notin {"inject", "streaming", "result_start"}
  /\ view.tools = state.pending_tool_calls

\* Every tool task is one the run waits for, and none has raised.
OwnTasks == \A c \in DOMAIN tasks : Owned(c) /\ tasks[c] # "raised"

\* The account after an event.
Says(run, turn, message, tools) ==
  /\ view' \in ViewRecord
  /\ view'.run = run /\ view'.turn = turn /\ view'.message = message /\ view'.tools = tools
  /\ view'.tick = ~view.tick

LEMMA RunEventsSeen ==
  ASSUME view \in ViewRecord
  PROVE  /\ view' = Seen(view, AgentStart) => Says(TRUE, view.turn, view.message, view.tools)
         /\ view' = Seen(view, AgentEnd) => Says(FALSE, view.turn, view.message, view.tools)
         /\ view' = Seen(view, TurnStart) => Says(view.run, TRUE, view.message, view.tools)
         /\ \A m : view' = Seen(view, TurnEnd(m)) =>
                     Says(view.run, FALSE, view.message, view.tools)
<1>1. ASSUME view' = Seen(view, AgentStart)
      PROVE  Says(TRUE, view.turn, view.message, view.tools)
  <2>1. AgentStart.type = "agent_start"
    BY DEF AgentStart
  <2> QED  BY <1>1, <2>1 DEF Seen, Says, ViewRecord
<1>2. ASSUME view' = Seen(view, AgentEnd)
      PROVE  Says(FALSE, view.turn, view.message, view.tools)
  <2>1. AgentEnd.type = "agent_end"
    BY DEF AgentEnd
  <2> QED  BY <1>2, <2>1 DEF Seen, Says, ViewRecord
<1>3. ASSUME view' = Seen(view, TurnStart)
      PROVE  Says(view.run, TRUE, view.message, view.tools)
  <2>1. TurnStart.type = "turn_start"
    BY DEF TurnStart
  <2> QED  BY <1>3, <2>1 DEF Seen, Says, ViewRecord
<1>4. ASSUME NEW m, view' = Seen(view, TurnEnd(m))
      PROVE  Says(view.run, FALSE, view.message, view.tools)
  <2>1. TurnEnd(m).type = "turn_end"
    BY DEF TurnEnd
  <2> QED  BY <1>4, <2>1 DEF Seen, Says, ViewRecord
<1> QED  BY <1>1, <1>2, <1>3, <1>4

LEMMA PartEventsSeen ==
  ASSUME view \in ViewRecord
  PROVE  /\ \A m \in Messages : view' = Seen(view, MessageStart(m)) =>
              Says(view.run, view.turn, m, view.tools)
         /\ \A m : view' = Seen(view, MessageEnd(m)) =>
              Says(view.run, view.turn, NoMessage, view.tools)
         /\ \A c \in Calls : view' = Seen(view, ToolStart(c)) =>
              Says(view.run, view.turn, view.message, view.tools \cup {c})
         /\ \A c \in Calls : view' = Seen(view, ToolEnd(c)) =>
              Says(view.run, view.turn, view.message, view.tools \ {c})
<1>1. ASSUME NEW m, view' = Seen(view, MessageStart(m)), m \in Messages
      PROVE  Says(view.run, view.turn, m, view.tools)
  <2>1. MessageStart(m).type = "message_start" /\ MessageStart(m).message = m
    BY DEF MessageStart
  <2> QED  BY <1>1, <2>1 DEF Seen, Says, ViewRecord
<1>2. ASSUME NEW m, view' = Seen(view, MessageEnd(m))
      PROVE  Says(view.run, view.turn, NoMessage, view.tools)
  <2>1. MessageEnd(m).type = "message_end"
    BY DEF MessageEnd
  <2> QED  BY <1>2, <2>1 DEF Seen, Says, ViewRecord
<1>3. ASSUME NEW c \in Calls, view' = Seen(view, ToolStart(c))
      PROVE  Says(view.run, view.turn, view.message, view.tools \cup {c})
  <2>1. ToolStart(c).type = "tool_execution_start" /\ ToolStart(c).call = c
    BY DEF ToolStart
  <2> QED  BY <1>3, <2>1 DEF Seen, Says, ViewRecord
<1>4. ASSUME NEW c \in Calls, view' = Seen(view, ToolEnd(c))
      PROVE  Says(view.run, view.turn, view.message, view.tools \ {c})
  <2>1. ToolEnd(c).type = "tool_execution_end" /\ ToolEnd(c).call = c
    BY DEF ToolEnd
  <2> QED  BY <1>4, <2>1 DEF Seen, Says, ViewRecord
<1> QED  BY <1>1, <1>2, <1>3, <1>4

\* The events, each where the protocol allows it.
Tells ==
  /\ Telling'
  /\ Events!Next \/ UNCHANGED view

Pending == state.pending_tool_calls

LEMMA RunEventsTell ==
  ASSUME Telling
  PROVE  /\ /\ view' = Seen(view, AgentStart) /\ Pending' = Pending
            /\ loop.pc = "idle" /\ loop'.pc = "agent_start"
            => Tells
         /\ /\ view' = Seen(view, AgentEnd) /\ Pending' = Pending
            /\ loop.pc \in {"last_turn", "turn_end"} /\ loop'.pc = "agent_end"
            => Tells
         /\ /\ view' = Seen(view, TurnStart) /\ Pending' = Pending
            /\ loop.pc \in {"agent_start", "turn_end"} /\ loop'.pc = "turn_start"
            => Tells
         /\ /\ \E m : view' = Seen(view, TurnEnd(m))
            /\ Pending' = Pending /\ Pending = {}
            /\ loop.pc \in {"answered", "result_end"} /\ loop'.pc \in {"last_turn", "turn_end"}
            => Tells
<1>0. view \in ViewRecord
  BY DEF Telling
<1>1. ASSUME view' = Seen(view, AgentStart), Pending' = Pending,
             loop.pc = "idle", loop'.pc = "agent_start"
      PROVE  Tells
  <2>1. Says(TRUE, view.turn, view.message, view.tools)
    BY <1>0, <1>1, RunEventsSeen
  <2> QED  BY <1>0, <1>1, <2>1
           DEF Tells, Telling, Pending, Says, Events!Next, Events!AgentStart, ViewRecord
<1>2. ASSUME view' = Seen(view, AgentEnd), Pending' = Pending,
             loop.pc \in {"last_turn", "turn_end"}, loop'.pc = "agent_end"
      PROVE  Tells
  <2>1. Says(FALSE, view.turn, view.message, view.tools)
    BY <1>0, <1>2, RunEventsSeen
  <2> QED  BY <1>0, <1>2, <2>1
           DEF Tells, Telling, Pending, Says, Events!Next, Events!AgentEnd, ViewRecord
<1>3. ASSUME view' = Seen(view, TurnStart), Pending' = Pending,
             loop.pc \in {"agent_start", "turn_end"}, loop'.pc = "turn_start"
      PROVE  Tells
  <2>1. Says(view.run, TRUE, view.message, view.tools)
    BY <1>0, <1>3, RunEventsSeen
  <2> QED  BY <1>0, <1>3, <2>1
           DEF Tells, Telling, Pending, Says, Events!Next, Events!TurnStart, ViewRecord
<1>4. ASSUME NEW m, view' = Seen(view, TurnEnd(m)), Pending' = Pending, Pending = {},
             loop.pc \in {"answered", "result_end"}, loop'.pc \in {"last_turn", "turn_end"}
      PROVE  Tells
  <2>1. Says(view.run, FALSE, view.message, view.tools)
    BY <1>0, <1>4, RunEventsSeen
  <2> QED  BY <1>0, <1>4, <2>1
           DEF Tells, Telling, Pending, Says, Events!Next, Events!TurnEnd, ViewRecord
<1> QED  BY <1>1, <1>2, <1>3, <1>4

LEMMA PartEventsTell ==
  ASSUME Telling
  PROVE  /\ /\ \E m \in Messages : view' = Seen(view, MessageStart(m))
            /\ Pending' = Pending
            /\ loop.pc \in {"turn_start", "polled", "injected", "request", "tool_end", "join",
                            "result_end"}
            /\ loop'.pc \in {"inject", "streaming", "result_start"}
            => Tells
         /\ /\ \E m : view' = Seen(view, MessageEnd(m))
            /\ Pending' = Pending
            /\ loop.pc \in {"inject", "streaming", "result_start"}
            /\ loop'.pc \in {"injected", "answered", "result_end"}
            => Tells
         /\ \A c \in Calls :
              /\ view' = Seen(view, ToolStart(c))
              /\ c \notin Pending /\ Pending' = Pending \cup {c}
              /\ loop.pc \in {"answered", "result_end", "tool_start", "tool_end"}
              /\ loop'.pc = "tool_start"
              => Tells
         /\ \A c \in Calls :
              /\ view' = Seen(view, ToolEnd(c))
              /\ c \in Pending /\ Pending' = Pending \ {c}
              /\ loop.pc \in {"tool_start", "executing", "join"}
              /\ loop'.pc \in {"tool_end", "join"}
              => Tells
<1>0. view \in ViewRecord
  BY DEF Telling
<1>1. ASSUME NEW m \in Messages, view' = Seen(view, MessageStart(m)), Pending' = Pending,
             loop.pc \in {"turn_start", "polled", "injected", "request", "tool_end", "join",
                          "result_end"},
             loop'.pc \in {"inject", "streaming", "result_start"}
      PROVE  Tells
  <2>1. Says(view.run, view.turn, m, view.tools) /\ m # NoMessage
    BY <1>0, <1>1, PartEventsSeen, MessageKinds
  <2> QED  BY <1>0, <1>1, <2>1
           DEF Tells, Telling, Pending, Says, Events!Next, Events!MessageStart, ViewRecord
<1>2. ASSUME NEW m, view' = Seen(view, MessageEnd(m)), Pending' = Pending,
             loop.pc \in {"inject", "streaming", "result_start"},
             loop'.pc \in {"injected", "answered", "result_end"}
      PROVE  Tells
  <2>1. Says(view.run, view.turn, NoMessage, view.tools)
    BY <1>0, <1>2, PartEventsSeen
  <2> QED  BY <1>0, <1>2, <2>1
           DEF Tells, Telling, Pending, Says, Events!Next, Events!MessageEnd, ViewRecord
<1>3. ASSUME NEW c \in Calls, view' = Seen(view, ToolStart(c)),
             c \notin Pending, Pending' = Pending \cup {c},
             loop.pc \in {"answered", "result_end", "tool_start", "tool_end"},
             loop'.pc = "tool_start"
      PROVE  Tells
  <2>1. Says(view.run, view.turn, view.message, view.tools \cup {c})
    BY <1>0, <1>3, PartEventsSeen
  <2> QED  BY <1>0, <1>3, <2>1
           DEF Tells, Telling, Pending, Says, Events!Next, Events!ToolStart, ViewRecord
<1>4. ASSUME NEW c \in Calls, view' = Seen(view, ToolEnd(c)),
             c \in Pending, Pending' = Pending \ {c},
             loop.pc \in {"tool_start", "executing", "join"},
             loop'.pc \in {"tool_end", "join"}
      PROVE  Tells
  <2>1. Says(view.run, view.turn, view.message, view.tools \ {c})
    BY <1>0, <1>4, PartEventsSeen
  <2> QED  BY <1>0, <1>4, <2>1
           DEF Tells, Telling, Pending, Says, Events!Next, Events!ToolEnd, ViewRecord
<1> QED  BY <1>1, <1>2, <1>3, <1>4

\* A step between two events.
LEMMA NothingTold ==
  ASSUME Telling, view' = view, Pending' = Pending,
         \/ loop'.pc = loop.pc
         \/ loop.pc \in {"turn_start", "polled", "injected"} /\ loop'.pc \in {"polled", "request"}
         \/ loop.pc \in {"tool_start", "tool_end"} /\ loop'.pc \in {"executing", "join"}
         \/ loop.pc = "agent_end" /\ loop'.pc = "idle"
  PROVE  Tells
  BY DEF Tells, Telling, Pending

-----------------------------------------------------------------------------
(* Which event each action emits.                                          *)

LEMMA TurnTells ==
  ASSUME LoopInv, TasksInv, StateMatchesRun, Telling,
         \/ FirstTurn \/ StartInjecting \/ EndInjecting \/ FirstPoll \/ Request
         \/ StreamStart \/ StreamEnd
  PROVE  Tells
<1>1. CASE FirstTurn
  <2>1. view' = Seen(view, TurnStart) /\ loop.pc = "agent_start"
    BY <1>1 DEF FirstTurn, Emit, Process, At
  <2>2. Pending' = Pending /\ loop'.pc = "turn_start"
    BY <1>1, OpeningMoves DEF NothingSaid, Becomes, Moves, Pending
  <2> QED  BY <2>1, <2>2, RunEventsTell
<1>2. CASE StartInjecting
  <2>1. /\ view' = Seen(view, MessageStart(Head(Injected.inject)))
        /\ loop.pc \in {"turn_start", "polled", "injected"}
    BY <1>2 DEF StartInjecting, Emit, Process, CanInject
  <2>2. /\ Pending' = Pending /\ loop'.pc = "inject"
        /\ Head(Injected.inject) \in Messages
    BY <1>2, OpeningMoves, MessageKinds DEF NothingSaid, Becomes, Moves, Pending
  <2> QED  BY <2>1, <2>2, PartEventsTell
<1>3. CASE EndInjecting
  <2>1. view' = Seen(view, MessageEnd(Head(loop.inject))) /\ loop.pc = "inject"
    BY <1>3 DEF EndInjecting, Emit, Process, At
  <2>2. Pending' = Pending /\ loop'.pc = "injected"
    BY <1>3, OpeningMoves DEF Arrives, Becomes, Moves, Pending
  <2> QED  BY <2>1, <2>2, PartEventsTell
<1>4. CASE FirstPoll
  <2>1. /\ view' = view /\ loop.pc \in {"turn_start", "polled", "injected"}
        /\ Pending' = Pending /\ loop'.pc = "polled"
    BY <1>4, FirstPollMoves DEF NothingSaid, Becomes, Pending, CanInject
  <2> QED  BY <2>1, NothingTold
<1>5. CASE Request
  <2>1. view' = view /\ loop.pc \in {"turn_start", "polled", "injected"}
    BY <1>5 DEF Request, agentVars, CanInject
  <2>2. Pending' = Pending /\ loop'.pc = "request"
    BY <1>5, OpeningMoves DEF NothingSaid, Becomes, Moves, Pending
  <2> QED  BY <2>1, <2>2, NothingTold
<1>6. CASE StreamStart
  <2>1. view' = Seen(view, MessageStart(Partial))
    BY <1>6 DEF StreamStart, Emit, Process
  <2>2. /\ Pending' = Pending /\ loop.pc = "request" /\ loop'.pc = "streaming"
        /\ Partial \in Messages
    BY <1>6, StreamStartMoves, MessageKinds DEF NothingSaid, Becomes, Pending, At
  <2> QED  BY <2>1, <2>2, PartEventsTell
<1>7. CASE StreamEnd
  <2>1. PICK final \in AnswerMessages :
          /\ view' = Seen(view, MessageEnd(final)) /\ Arrives(final)
          /\ At("streaming") /\ loop'.pc = "answered"
    BY <1>7, StreamEndMoves
  <2>2. Pending' = Pending /\ loop.pc = "streaming"
    BY <2>1 DEF Arrives, Becomes, Pending, At
  <2> QED  BY <2>1, <2>2, PartEventsTell
<1> QED  BY <1>1, <1>2, <1>3, <1>4, <1>5, <1>6, <1>7

\* Between tool calls none is pending.
LEMMA NonePending ==
  ASSUME LoopInv, TasksInv, StateMatchesRun, loop.pc \notin Busy \cup Failing
  PROVE  Pending = {}
<1>1. CASE loop.pc = "idle"
  BY <1>1 DEF LoopInv, Types, StateMatchesRun, IdleIsClean, Pending
<1>2. CASE loop.pc # "idle"
  BY <1>2, PendingIs, NothingStarted DEF Busy, Pending
<1> QED  BY <1>1, <1>2

LEMMA EndingTells ==
  ASSUME LoopInv, TasksInv, StateMatchesRun, Telling, loop.pc \notin Failing,
         \/ ErrorTurn \/ PlainTurn \/ FinishBatch \/ LastTurn \/ NothingLeft \/ StopAfterTurn
         \/ TurnWithSteering \/ TurnWithFollowUps \/ Finish
  PROVE  Tells
<1>1. CASE ErrorTurn \/ PlainTurn \/ FinishBatch
  <2>1. view' = Seen(view, TurnEnd(Answer)) /\ loop.pc \in {"answered", "result_end"}
    BY <1>1 DEF ErrorTurn, PlainTurn, FinishBatch, Emit, Process, At
  <2>2. Pending' = Pending /\ loop'.pc \in {"last_turn", "turn_end"}
    BY <1>1, AnsweredMoves, FinishBatchMoves DEF NothingSaid, Becomes, Moves, Pending
  <2>3. Pending = {}
    BY <2>1, NonePending DEF Busy
  <2> QED  BY <2>1, <2>2, <2>3, RunEventsTell
<1>2. CASE LastTurn \/ NothingLeft \/ StopAfterTurn
  <2>1. view' = Seen(view, AgentEnd)
    BY <1>2 DEF LastTurn, NothingLeft, StopAfterTurn, Emit, Process
  <2>2. /\ Pending' = Pending /\ loop'.pc = "agent_end"
        /\ loop.pc \in {"last_turn", "turn_end"}
    BY <1>2, EndingMoves DEF NothingSaid, Becomes, Moves, Pending
  <2> QED  BY <2>1, <2>2, RunEventsTell
<1>3. CASE TurnWithSteering \/ TurnWithFollowUps
  <2>1. PICK messages \in Seq(UserMessages) : NextTurn(messages)
    BY <1>3, TurnMoves
  <2>2. view' = Seen(view, TurnStart)
    BY <2>1 DEF NextTurn, Emit, Process
  <2>3. Pending' = Pending /\ loop'.pc = "turn_start"
    BY <2>1, NextTurnMoves DEF NothingSaid, Becomes, Pending
  <2>4. loop.pc = "turn_end"
    BY <1>3 DEF TurnWithSteering, TurnWithFollowUps, At
  <2> QED  BY <2>2, <2>3, <2>4, RunEventsTell
<1>4. CASE Finish
  <2>1. loop.pc = "agent_end"
    BY <1>4 DEF Finish, Failing
  <2>2. view' = view /\ loop'.pc = "idle" /\ Pending' = {}
    BY <1>4, SettlingMoves, IdleTyped DEF Settles, Pending
  <2>3. Pending = {}
    BY <2>1, NonePending DEF Busy
  <2> QED  BY <2>1, <2>2, <2>3, NothingTold
<1> QED  BY <1>1, <1>2, <1>3, <1>4

LEMMA CallTells ==
  ASSUME LoopInv, TasksInv, StateMatchesRun, Telling,
         BeginBatch \/ FailCall \/ ExecuteCall \/ CallExecuted \/ SequentialNext
  PROVE  Tells
<1>0. loop \in LoopRecord
  BY DEF LoopInv, Types
<1>1. CASE BeginBatch
  <2>1. /\ view' = Seen(view, ToolStart(Call(1))) /\ Call(1) \in Calls
        /\ Pending' = Pending \cup {Call(1)}
        /\ loop.pc = "answered" /\ loop'.pc = "tool_start"
    BY <1>1, BeginBatchMoves DEF Becomes, At, Pending
  <2>2. Pending = {}
    BY <2>1, NonePending DEF Busy, Failing
  <2> QED  BY <2>1, <2>2, PartEventsTell
<1>2. CASE FailCall \/ CallExecuted
  <2>1. /\ view' = Seen(view, ToolEnd(Call(Prepared + 1))) /\ Call(Prepared + 1) \in Calls
        /\ Pending' = Pending \ {Call(Prepared + 1)}
        /\ loop.pc \in {"tool_start", "executing"} /\ loop'.pc = "tool_end"
    BY <1>2, OutcomeMoves DEF Becomes, Moves, Pending
  <2>2. Call(Prepared + 1) \in Started
    BY <2>1, StartedBefore DEF Busy
  <2>3. Call(Prepared + 1) \in Pending
    BY <2>1, <2>2, PendingIs DEF Pending, Failing
  <2> QED  BY <2>1, <2>3, PartEventsTell
<1>3. CASE ExecuteCall
  <2>1. view' = view /\ loop.pc = "tool_start"
    BY <1>3 DEF ExecuteCall, agentVars, At
  <2>2. Pending' = Pending /\ loop'.pc = "executing"
    BY <1>3, ResultMoves DEF NothingSaid, Becomes, Moves, Pending
  <2> QED  BY <2>1, <2>2, NothingTold
<1>4. CASE SequentialNext
  <2>1. view' = Seen(view, ToolStart(Call(Prepared + 1))) /\ loop.pc = "result_end"
    BY <1>4 DEF SequentialNext, Emit, Process, At
  <2>2. /\ Call(Prepared + 1) \in Calls /\ loop'.pc = "tool_start"
        /\ Pending' = Pending \cup {Call(Prepared + 1)}
    BY <1>4, ResultMoves DEF Becomes, Moves, Pending
  <2>3. Pending = {}
    BY <2>1, NonePending DEF Busy, Failing
  <2> QED  BY <2>1, <2>2, <2>3, PartEventsTell
<1> QED  BY <1>1, <1>2, <1>3, <1>4

LEMMA SpawnsTell ==
  ASSUME Telling, loop.pc \in {"tool_start", "tool_end"}, NEW l, Spawns(l)
  PROVE  Tells
<1>1. view' = view /\ Pending' = Pending /\ loop'.pc = "join"
  BY DEF Spawns, Moves, NothingSaid, Becomes, agentVars, Pending
<1> QED  BY <1>1, NothingTold

LEMMA ParallelTells ==
  ASSUME LoopInv, TasksInv, StateMatchesRun, Telling, PrepareRunner \/ AfterImmediate
  PROVE  Tells
<1>0. /\ loop \in LoopRecord /\ loop.pc \in {"tool_start", "tool_end"} /\ Pending = Started
  BY PendingIs DEF PrepareRunner, AfterImmediate, At, Failing, LoopInv, Types, Pending
<1>1. /\ Prepared \in Nat /\ \A i \in Runners(loop) : i \in 1..Prepared
      /\ \A i, j : Call(i) = Call(j) => i = j
  BY <1>0, RunnersPrepared
<1>2. CASE PrepareRunner
  <2>1. PICK o \in OutcomeRecord :
          /\ At("tool_start")
          /\ \/ /\ Moves(AddOutcome(o), "tool_start")
                /\ Call(Prepared + 2) \in Calls
                /\ Becomes(state.messages, state.pending_tool_calls \cup {Call(Prepared + 2)})
                /\ view' = Seen(view, ToolStart(Call(Prepared + 2)))
             \/ Spawns(AddOutcome(o))
    BY <1>2, RunnerMoves
  <2>2. CASE Spawns(AddOutcome(o))
    BY <1>0, <2>2, SpawnsTell
  <2>3. CASE ~Spawns(AddOutcome(o))
    <3>1. /\ loop'.pc = "tool_start" /\ Pending' = Pending \cup {Call(Prepared + 2)}
          /\ view' = Seen(view, ToolStart(Call(Prepared + 2))) /\ Call(Prepared + 2) \in Calls
      BY <2>1, <2>3 DEF Moves, Becomes, Pending
    <3>2. Pending = {Call(i) : i \in Runners(loop) \cup {Prepared + 1}}
      BY <1>0, <2>1, StartedBefore DEF At, Busy
    <3>3. Prepared + 2 \notin Runners(loop) \cup {Prepared + 1}
      BY <1>1
    <3>4. Call(Prepared + 2) \notin Pending
      BY <1>1, <3>2, <3>3
    <3> QED  BY <2>1, <3>1, <3>4, PartEventsTell DEF At
  <2> QED  BY <2>2, <2>3
<1>3. CASE AfterImmediate
  <2>1. /\ At("tool_end")
        /\ \/ /\ Moves(loop, "tool_start")
              /\ Call(Prepared + 1) \in Calls
              /\ Becomes(state.messages, state.pending_tool_calls \cup {Call(Prepared + 1)})
              /\ view' = Seen(view, ToolStart(Call(Prepared + 1)))
           \/ Spawns(loop)
    BY <1>3, ImmediateMoves
  <2>2. CASE Spawns(loop)
    BY <1>0, <2>2, SpawnsTell
  <2>3. CASE ~Spawns(loop)
    <3>1. /\ loop'.pc = "tool_start" /\ Pending' = Pending \cup {Call(Prepared + 1)}
          /\ view' = Seen(view, ToolStart(Call(Prepared + 1))) /\ Call(Prepared + 1) \in Calls
      BY <2>1, <2>3 DEF Moves, Becomes, Pending
    <3>2. Pending = {Call(i) : i \in Runners(loop)}
      BY <1>0, <2>1, StartedBefore DEF At, Busy
    <3>3. Prepared + 1 \notin Runners(loop)
      BY <1>1
    <3>4. Call(Prepared + 1) \notin Pending
      BY <1>1, <3>2, <3>3
    <3> QED  BY <2>1, <3>1, <3>4, PartEventsTell DEF At
  <2> QED  BY <2>2, <2>3
<1> QED  BY <1>2, <1>3

LEMMA ResultTells ==
  ASSUME LoopInv, Telling, SequentialResult \/ ParallelNext \/ Joined \/ EndResult
  PROVE  Tells
<1>1. CASE SequentialResult \/ ParallelNext \/ Joined
  <2>1. /\ view' = Seen(view, MessageStart(NextResult))
        /\ loop.pc \in {"tool_end", "join", "result_end"}
    BY <1>1 DEF SequentialResult, ParallelNext, Joined, StartResult, Emit, Process, At
  <2>2. Pending' = Pending /\ loop'.pc = "result_start"
    BY <1>1, ResultMoves, JoinedMoves DEF NothingSaid, Becomes, Moves, Pending
  <2>3. NextResult \in Messages
    BY <1>1, ResultTyped DEF SequentialResult, Joined, At
  <2> QED  BY <2>1, <2>2, <2>3, PartEventsTell
<1>2. CASE EndResult
  <2>1. view' = Seen(view, MessageEnd(NextResult)) /\ loop.pc = "result_start"
    BY <1>2 DEF EndResult, Emit, Process, At
  <2>2. Pending' = Pending /\ loop'.pc = "result_end"
    BY <1>2, EndResultMoves DEF Arrives, Becomes, Pending
  <2> QED  BY <2>1, <2>2, PartEventsTell
<1> QED  BY <1>1, <1>2

LEMMA CallerTells ==
  ASSUME LoopInv, StateMatchesRun, Telling,
         \/ Prompt \/ ContinueTranscript \/ ContinueWithSteering \/ ContinueWithFollowUps
         \/ /\ \/ \E m \in Steers : Steer(m)
               \/ \E m \in FollowUps : FollowUp(m)
               \/ ClearAllQueues \/ Abort \/ Reset
            /\ UNCHANGED loop
  PROVE  Tells
<1>1. CASE Prompt \/ ContinueTranscript \/ ContinueWithSteering \/ ContinueWithFollowUps
  <2>1. /\ view' = Seen(view, AgentStart) /\ loop'.pc = "agent_start"
        /\ Pending' = Pending /\ ~active
    BY <1>1, StartMoves DEF Starts, NothingSaid, Becomes, Pending
  <2>2. loop.pc = "idle"
    BY <2>1 DEF LoopInv, Types
  <2> QED  BY <2>1, <2>2, RunEventsTell
<1>2. CASE /\ \/ \E m \in Steers : Steer(m)
              \/ \E m \in FollowUps : FollowUp(m)
              \/ ClearAllQueues \/ Abort \/ Reset
           /\ UNCHANGED loop
  <2>1. /\ view' = view
        /\ \/ UNCHANGED state
           \/ ~active /\ state' = EmptyState
    BY <1>2, CallerMoves
  <2>2. EmptyState.pending_tool_calls = {}
    BY DEF EmptyState
  <2>3. Pending' = Pending
    BY <2>1, <2>2 DEF StateMatchesRun, IdleIsClean, Pending
  <2> QED  BY <1>2, <2>1, <2>3, NothingTold
<1> QED  BY <1>1, <1>2

LEMMA TaskTells ==
  ASSUME LoopInv, StateMatchesRun, Telling, OwnTasks, NEW c \in DOMAIN tasks, Task(c)
  PROVE  Tells
<1>0. loop' = loop /\ loop.pc = "join" /\ active /\ c \in Calls
  BY TaskMoves DEF OwnTasks, Owned, At, LoopInv, Types
<1>1. ASSUME tasks[c] = "running", view' = Seen(view, ToolEnd(c)), Pending' = Pending \ {c}
      PROVE  Tells
  <2>1. Raised = {}
    BY DEF OwnTasks, Raised
  <2>2. Pending = Started
    BY <1>0, <2>1 DEF StateMatchesRun, PendingMatchesCalls, Pending, Failing
  <2>3. c \in {Call(i) : i \in {j \in Runners(loop) : tasks[Call(j)] = "running"}}
    <3>1. PICK i \in Runners(loop) : c = Call(i)
      BY DEF OwnTasks, Owned
    <3> QED  BY <1>1, <3>1
  <2>4. c \in Started
    BY <1>0, <2>3 DEF Started, At
  <2> QED  BY <1>0, <1>1, <2>2, <2>4, PartEventsTell
<1>2. ASSUME view' = view, Pending' = Pending
      PROVE  Tells
  BY <1>0, <1>2, NothingTold
<1> QED  BY <1>0, <1>1, <1>2, TaskMoves DEF Becomes, NothingSaid, Pending

\* Without failures and cancellations no tool task outlives its run.
LEMMA OwnTasksStep ==
  ASSUME ~Failures, ~Cancels, LoopInv, OwnTasks, loop.pc \notin Failing, [Next]_vars
  PROVE  OwnTasks'
<1>0. loop.pc # "join" => DOMAIN tasks = {}
  BY DEF OwnTasks, Owned, At
<1>1. ASSUME loop.pc # "join", UNCHANGED tasks
      PROVE  OwnTasks'
  BY <1>0, <1>1 DEF OwnTasks
<1>2. ASSUME UNCHANGED <<loop, tasks>>
      PROVE  OwnTasks'
  BY <1>2, BatchKept DEF OwnTasks, Owned, At
<1>3. ASSUME NEW l, Spawns(l), loop.pc # "join", \A i : Call(i)' = Call(i)
      PROVE  OwnTasks'
  <2>1. /\ loop'.pc = "join" /\ loop'.batch = l.batch
        /\ DOMAIN tasks' = {Call(i) : i \in Runners(l)}
        /\ \A c \in DOMAIN tasks' : tasks'[c] = "running"
    BY <1>0, <1>3 DEF Spawns, Moves
  <2>2. Runners(loop)' = Runners(l)
    BY <2>1 DEF Runners
  <2>3. DOMAIN tasks' = {Call(i)' : i \in Runners(loop)'}
    BY <1>3, <2>1, <2>2
  <2> QED  BY <2>1, <2>3 DEF OwnTasks, Owned, At
<1>4. CASE PrepareRunner \/ AfterImmediate
  <2>0. loop.pc \in {"tool_start", "tool_end"} /\ loop \in LoopRecord
    BY <1>4 DEF PrepareRunner, AfterImmediate, At, LoopInv, Types
  <2>1. CASE PrepareRunner
    <3>1. PICK o \in OutcomeRecord :
            /\ AddOutcome(o).batch = [loop.batch EXCEPT !.outcomes = Append(Batch.outcomes, o)]
            /\ RunOnly \/ Spawns(AddOutcome(o))
      BY <2>1, RunnerMoves
    <3>2. CASE Spawns(AddOutcome(o))
      <4>1. \A i : Call(i)' = Call(i)
        BY <2>0, <3>1, <3>2, OutcomeAdded DEF Spawns, Moves
      <4> QED  BY <1>3, <2>0, <3>2, <4>1
    <3> QED  BY <1>1, <2>0, <3>1, <3>2 DEF RunOnly
  <2>2. CASE AfterImmediate
    <3>1. RunOnly \/ Spawns(loop)
      BY <2>2, ImmediateMoves
    <3>2. CASE Spawns(loop)
      BY <1>3, <2>0, <3>2, BatchKept DEF Spawns, Moves
    <3> QED  BY <1>1, <2>0, <3>1, <3>2 DEF RunOnly
  <2> QED  BY <1>4, <2>1, <2>2
<1>5. CASE Joined
  <2>1. At("join") /\ DOMAIN tasks' = DOMAIN tasks \ {Call(i) : i \in Runners(loop)}
    BY <1>5, JoinedMoves
  <2>2. DOMAIN tasks' = {}
    BY <2>1 DEF OwnTasks, Owned
  <2> QED  BY <2>2 DEF OwnTasks
<1>6. ASSUME NEW c \in DOMAIN tasks, Task(c)
      PROVE  OwnTasks'
  <2>1. Owned(c) /\ active /\ UNCHANGED loop
    BY <1>6, TaskMoves DEF OwnTasks, Owned, At, LoopInv, Types
  <2>2. PICK how : Turns(c, how) /\ how # "raised"
    BY <1>6, <2>1, TaskMoves
  <2>3. \A d : Owned(d)' = Owned(d)
    BY <2>1, BatchKept DEF Owned, At
  <2> QED  BY <2>2, <2>3 DEF OwnTasks, Turns
<1>7. CASE Turn
  <2>1. loop.pc # "join" /\ UNCHANGED tasks
    BY <1>7 DEF Turn, FirstTurn, StartInjecting, EndInjecting, FirstPoll, Request,
       CanInject,
         StreamStart, StreamEnd, ErrorTurn, PlainTurn, LastTurn, TurnWithSteering,
         TurnWithFollowUps, NothingLeft, StopAfterTurn, Finish, At
  <2> QED  BY <1>1, <2>1
<1>8. CASE Tools
  <2>1. CASE \/ BeginBatch \/ FailCall \/ ExecuteCall \/ CallExecuted \/ SequentialResult
             \/ EndResult \/ SequentialNext \/ ParallelNext \/ FinishBatch
    <3>1. loop.pc # "join" /\ UNCHANGED tasks
      BY <2>1 DEF BeginBatch, FailCall, ExecuteCall, CallExecuted, SequentialResult,
           EndResult, SequentialNext, ParallelNext, FinishBatch, At
    <3> QED  BY <1>1, <3>1
  <2> QED  BY <1>4, <1>5, <1>8, <2>1 DEF Tools
<1>9. CASE Caller
  <2>1. CASE Prompt \/ ContinueTranscript \/ ContinueWithSteering \/ ContinueWithFollowUps
    <3>1. ~active /\ UNCHANGED tasks
      BY <2>1, StartMoves DEF Starts
    <3> QED  BY <1>1, <3>1 DEF LoopInv, Types
  <2> QED  BY <1>2, <1>9, <2>1 DEF Caller, CancelRun
<1>10. ~Fail /\ ~FailAgain /\ ~ReportFailure
  BY ReportMoves DEF Fail, FailAgain
<1> QED  BY <1>2, <1>6, <1>7, <1>8, <1>9, <1>10 DEF Next, Progress, vars

LEMMA StepTells ==
  ASSUME ~Failures, ~Cancels, LoopInv, TasksInv, StateMatchesRun, loop.pc \notin Failing,
         OwnTasks, Telling, [Next]_vars
  PROVE  Tells
<1>1. CASE Progress
  <2>1. ~Fail /\ ~FailAgain /\ ~ReportFailure
    BY ReportMoves DEF Fail, FailAgain
  <2> QED  BY <1>1, <2>1, TurnTells, EndingTells, CallTells, ParallelTells, ResultTells
           DEF Progress, Turn, Tools
<1>2. CASE Caller
  <2>1. ~CancelRun
    BY DEF CancelRun
  <2> QED  BY <1>2, <2>1, CallerTells DEF Caller
<1>3. CASE \E c \in DOMAIN tasks : Task(c)
  BY <1>3, TaskTells
<1>4. CASE UNCHANGED vars
  BY <1>4, NothingTold DEF vars, agentVars, Pending
<1> QED  BY <1>1, <1>2, <1>3, <1>4 DEF Next

\* What listeners are told of runs that neither fail nor are cancelled is a
\* sequence of events AgentEvents allows: every turn and message and tool call
\* that starts ends, in its place, and agent_end comes last. The mapping is the
\* account a listener keeps; Telling ties it to where the run is.
THEOREM ListenersHearTheProtocol ==
  ASSUME ~Failures, ~Cancels
  PROVE  Spec => EventProtocol
<1>1. Init => Events!Init /\ loop.pc \notin Failing /\ OwnTasks /\ Telling
  <2> SUFFICES ASSUME Init
               PROVE  Events!Init /\ loop.pc \notin Failing /\ OwnTasks /\ Telling
    OBVIOUS
  <2>1. /\ loop.pc = "idle" /\ DOMAIN tasks = {} /\ state.pending_tool_calls = {}
        /\ view = [run |-> FALSE, turn |-> FALSE, message |-> NoMessage, tools |-> {},
                   tick |-> FALSE]
    BY IdleTyped DEF Init, AgentInit, EmptyState
  <2> QED  BY <2>1 DEF Events!Init, Failing, OwnTasks, Telling, ViewRecord
<1>2. /\ LoopInv /\ TasksInv /\ StateMatchesRun
      /\ loop.pc \notin Failing /\ OwnTasks /\ Telling /\ [Next]_vars
      => /\ (loop.pc \notin Failing /\ OwnTasks /\ Telling)'
         /\ [Events!Next]_(Events!vars)
  <2> SUFFICES ASSUME LoopInv, TasksInv, StateMatchesRun, loop.pc \notin Failing, OwnTasks,
                      Telling, [Next]_vars
               PROVE  /\ (loop.pc \notin Failing)' /\ OwnTasks' /\ Telling'
                      /\ Events!Next \/ UNCHANGED Events!vars
    OBVIOUS
  <2>1. (loop.pc \notin Failing)' /\ OwnTasks'
    BY NeverFails, OwnTasksStep
  <2>2. Tells
    BY StepTells
  <2> QED  BY <2>1, <2>2 DEF Tells, Events!vars
<1> QED  BY <1>1, <1>2, RunsAreSound, StateIsTrue, PTL DEF Spec, EventProtocol, Events!Spec
=============================================================================
