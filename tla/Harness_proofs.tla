--------------------------- MODULE Harness_proofs ---------------------------
(***************************************************************************)
(* Proofs about four parts that run beside the session, each on its own:   *)
(* the lock file (exclusion until a file gets stale), the shell tool (its  *)
(* result is final, and its output complete), the proxy stream (an aborted *)
(* request ends as aborted) and the event bus (everybody hears of every    *)
(* event since it subscribed, once, and in order unless a watcher is       *)
(* started inside its own flush), for any value of their constants.        *)
(***************************************************************************)
EXTENDS FileLock, ShellCommand, ProxyStream, EventBus, Filters_proofs,
        FiniteSetTheorems, SequenceTheorems, TLAPS

(* The lock file, with threads that die at any point.                      *)

\* Nobody reclaims: the lock file is fresh, and no thread is about to unlink
\* what it took for a stale one.
NothingStale ==
  /\ file # NoFile => ~file.old
  /\ \A p \in Procs : pc[p] # "unlink"

\* The inductive invariant behind mutual exclusion.
LockInv == TypeOK /\ (~aged => HolderOwnsFile /\ NothingStale)

\* Every step keeps the types, whatever dies and whatever gets old.
LEMMA StepType == TypeOK /\ [Next]_vars => TypeOK'
<1> SUFFICES ASSUME TypeOK, [Next]_vars PROVE TypeOK'
  OBVIOUS
<1> USE LockAssumption DEF TypeOK, New, Goto
<1>1. ASSUME NEW p \in Procs, Step(p) PROVE TypeOK'
  <2>1. CASE Create(p)
    BY <2>1 DEF Create
  <2>2. CASE Exists(p) \/ Stat(p) \/ Poll(p)
    BY <2>2 DEF Exists, Stat, Poll
  <2>3. CASE Unlink(p) \/ Release(p)
    BY <2>3 DEF Unlink, Release
  <2> QED
    BY <1>1, <2>1, <2>2, <2>3 DEF Step
<1>2. ASSUME NEW p \in Procs, Acquire(p) \/ CreateFails(p) \/ Expire(p) PROVE TypeOK'
  <2>1. CASE Acquire(p) \/ Expire(p)
    BY <2>1 DEF Acquire, Expire
  <2>2. CASE CreateFails(p)
    BY <2>2 DEF CreateFails
  <2> QED
    BY <1>2, <2>1, <2>2
<1>3. ASSUME NEW p \in Procs, Crash(p) PROVE TypeOK'
  <2>1. file' \in [owner : Procs \cup {Nobody}, old : BOOLEAN] \cup {NoFile}
    <3>1. CASE file = NoFile
      BY <1>3, <3>1 DEF Crash
    <3>2. CASE file \in [owner : Procs \cup {Nobody}, old : BOOLEAN]
      BY <1>3, <3>2 DEF Crash
    <3> QED
      BY <3>1, <3>2
  <2>2. pc' \in [Procs -> {"idle", "open", "stat", "unlink", "poll", "held"}]
    BY <1>3 DEF Crash
  <2> QED
    BY <1>3, <2>1, <2>2 DEF Crash
<1>4. CASE Age
  BY <1>4 DEF Age
<1>5. CASE UNCHANGED vars
  BY <1>5 DEF vars
<1> QED
  BY <1>1, <1>2, <1>3, <1>4, <1>5 DEF Next

\* The types hold in every reachable state, with every failure allowed.
THEOREM LockTypes == Spec => []TypeOK
<1>1. Init => TypeOK
  BY LockAssumption DEF Init, TypeOK
<1> QED
  BY <1>1, StepType, PTL DEF Spec

\* Until a lock file gets stale, a holder keeps its file.
LEMMA StepExclusion == LockInv /\ [Next]_vars => LockInv'
<1> SUFFICES ASSUME LockInv, [Next]_vars, ~aged' PROVE HolderOwnsFile' /\ NothingStale'
  BY StepType DEF LockInv
<1>1. ~aged /\ ~Age
  BY DEF Next, vars, Step, Acquire, Create, CreateFails, Exists, Stat, Unlink, Poll,
         Release, Expire, Crash, Age, LockInv, TypeOK
<1> USE LockAssumption, <1>1 DEF LockInv, TypeOK, HolderOwnsFile, NothingStale, Goto, New
<1>2. ASSUME NEW p \in Procs, Create(p) PROVE HolderOwnsFile' /\ NothingStale'
  <2>1. file' = [owner |-> p, old |-> FALSE] /\ pc' = [pc EXCEPT ![p] = "held"]
    BY <1>2 DEF Create
  <2>2. \A q \in Procs : pc[q] # "held"
    BY <1>2 DEF Create
  <2>3. file' # NoFile /\ file'.owner = p /\ file'.old = FALSE
    <3>1. file' \in [owner : Procs \cup {Nobody}, old : BOOLEAN]
      BY <2>1
    <3> QED
      BY <2>1, <3>1
  <2> QED
    BY <2>1, <2>2, <2>3
<1>3. ASSUME NEW p \in Procs, Exists(p) \/ Stat(p) \/ Poll(p)
      PROVE  HolderOwnsFile' /\ NothingStale'
  BY <1>3 DEF Exists, Stat, Poll
<1>4. ASSUME NEW p \in Procs, Unlink(p) PROVE HolderOwnsFile' /\ NothingStale'
  BY <1>4 DEF Unlink
<1>5. ASSUME NEW p \in Procs, Release(p) PROVE HolderOwnsFile' /\ NothingStale'
  <2>1. \A q \in Procs : pc[q] = "held" => q = p
    BY <1>5 DEF Release
  <2> QED
    BY <1>5, <2>1 DEF Release
<1>6. ASSUME NEW p \in Procs, Acquire(p) \/ Expire(p) PROVE HolderOwnsFile' /\ NothingStale'
  BY <1>6 DEF Acquire, Expire
<1>7. ASSUME NEW p \in Procs, CreateFails(p) PROVE HolderOwnsFile' /\ NothingStale'
  <2>1. file = NoFile /\ file' = [owner |-> Nobody, old |-> FALSE] /\ pc' = [pc EXCEPT ![p] = "idle"]
    BY <1>7 DEF CreateFails
  <2>2. \A q \in Procs : pc[q] # "held"
    BY <2>1
  <2>3. ~file'.old
    BY <2>1
  <2> QED
    BY <2>1, <2>2, <2>3
<1>8. ASSUME NEW p \in Procs, Crash(p) PROVE HolderOwnsFile' /\ NothingStale'
  <2>1. pc' = [pc EXCEPT ![p] = "idle"]
    BY <1>8 DEF Crash
  <2>2. CASE file' = file
    BY <2>1, <2>2
  <2>3. CASE file' # file
    <3>1. pc[p] = "held" /\ file # NoFile /\ file.owner = p /\ file' = [file EXCEPT !.owner = Nobody]
      BY <1>8, <2>3 DEF Crash
    <3>2. \A q \in Procs : pc[q] = "held" => q = p
      BY <3>1
    <3>3. file'.old = FALSE
      BY <3>1
    <3> QED
      BY <2>1, <3>2, <3>3
  <2> QED
    BY <2>2, <2>3
<1>9. CASE UNCHANGED vars
  BY <1>9 DEF vars
<1> QED
  BY <1>1, <1>2, <1>3, <1>4, <1>5, <1>6, <1>7, <1>8, <1>9 DEF Next, Step

\* Until some lock file gets stale, at most one thread holds the lock, and its
\* lock file is the one on disk when it releases, whoever else dies or gives up.
THEOREM LockExclusion == Spec => [](ExclusionUntilStale /\ OwnershipUntilStale)
<1>1. Init => LockInv
  BY LockAssumption DEF Init, LockInv, TypeOK, HolderOwnsFile, NothingStale
<1>2. LockInv => ExclusionUntilStale /\ OwnershipUntilStale
  BY DEF LockInv, HolderOwnsFile, MutualExclusion, ExclusionUntilStale, OwnershipUntilStale
<1> QED
  BY <1>1, <1>2, StepExclusion, PTL DEF Spec

-----------------------------------------------------------------------------
(* The shell tool.                                                         *)

ShellTypes ==
  /\ shell \in [st : {"none", "running", "exited"}, killed : BOOLEAN, wait : WaitModes]
  /\ timer \in {"none", "armed", "fired"}
  /\ signal \in BOOLEAN
  /\ result \in [pc : {"start", "exec", "flush", "over"},
                 exec : {"none", "ok", "aborted", "timeout", "spawn_error"},
                 tool : {"none", "ok", "aborted", "timeout", "spawn_error", "error", "cancelled"}]
  /\ DOMAIN update = {"dirty", "timer", "shown"}

\* Whoever kills the shell leaves a mark, which exec's outcome keeps.
KillsMarked ==
  shell.killed =>
    /\ timer = "fired" \/ signal
    /\ result.pc # "start"
    /\ result.pc \in {"flush", "over"} => result.exec # "ok"

ShellInv == ShellTypes /\ KillsMarked /\ ResultIsFinal

LEMMA ShellInvInit == ShellInit => ShellInv
<1> SUFFICES ASSUME ShellInit PROVE ShellInv
  OBVIOUS
<1>1. /\ shell \in [st : {"none", "running", "exited"}, killed : BOOLEAN, wait : WaitModes]
      /\ ~shell.killed
  BY DEF ShellInit
<1>2. /\ timer \in {"none", "armed"} /\ signal \in BOOLEAN
      /\ result = [pc |-> "start", exec |-> "none", tool |-> "none"]
      /\ update = [dirty |-> FALSE, timer |-> FALSE, shown |-> 0]
  BY DEF ShellInit
<1> QED
  BY <1>1, <1>2 DEF ShellInv, ShellTypes, KillsMarked, ResultIsFinal, Returned

LEMMA ShellInvStep == ShellInv /\ [ShellNext]_shellVars => ShellInv'
<1> SUFFICES ASSUME ShellInv, [ShellNext]_shellVars PROVE ShellInv'
  OBVIOUS
<1> USE DEF ShellInv, ShellTypes, KillsMarked, ResultIsFinal, Returned, processVars, captureVars
<1>1. CASE Spawn
  BY <1>1 DEF Spawn
<1>2. CASE ExecEnds
  BY <1>2 DEF ExecEnds, Waited, Outcome
<1>3. CASE ChainStep
  BY <1>3 DEF ChainStep
<1>4. CASE ToolEnds
  BY <1>4 DEF ToolEnds, ToolOutcome
<1>5. CASE UpdateLater
  BY <1>5 DEF UpdateLater
<1>6. CASE TimerFires
  BY <1>6 DEF TimerFires, Kill
<1>7. CASE AbortCommand
  BY <1>7 DEF AbortCommand
<1>8. CASE AbortSeen
  BY <1>8 DEF AbortSeen, Kill
<1>9. CASE Exit
  BY <1>9 DEF Exit
<1>10. CASE ChildEnds
  BY <1>10 DEF ChildEnds
<1>11. ASSUME NEW s \in Streams, Write(s) PROVE ShellInv'
  BY <1>11 DEF Write
<1>12. ASSUME NEW s \in Streams, Pump(s) PROVE ShellInv'
  <2>1. /\ UNCHANGED <<shell, timer, signal, result>> /\ result.pc = "exec"
        /\ Throttled(Len(received'))
    BY <1>12 DEF Pump
  <2>2. DOMAIN update' = {"dirty", "timer", "shown"}
    BY <2>1 DEF Throttled
  <2> QED  BY <2>1, <2>2
<1>13. ASSUME NEW s \in Streams, ReadEnd(s) PROVE ShellInv'
  BY <1>13 DEF ReadEnd
<1>14. CASE UNCHANGED shellVars
  BY <1>14 DEF shellVars
<1> QED
  BY <1>1, <1>2, <1>3, <1>4, <1>5, <1>6, <1>7, <1>8, <1>9, <1>10, <1>11, <1>12, <1>13, <1>14
     DEF ShellNext, CallStep, ReaderStep

\* A killed command is never reported as finished, whatever raced, and no update
\* is to come after the result, which the last one showed in full.
THEOREM ResultsAreFinal == ShellSpec => []ResultIsFinal
<1>1. ShellInv => ResultIsFinal
  BY DEF ShellInv
<1> QED
  BY <1>1, ShellInvInit, ShellInvStep, PTL DEF ShellSpec

-----------------------------------------------------------------------------
(* The shell tool's output.  What is shown of a long text is decided by its  *)
(* end alone, so the buffer, twice as long as what is shown, decides it.     *)

\* What is left of a text without the line break it may end in.
LEMMA BodyOf ==
  ASSUME NEW r \in Seq(Nat)
  PROVE  /\ Body(r) \in Seq(Nat)
         /\ Len(Body(r)) = IF EndsLine(r) THEN Len(r) - 1 ELSE Len(r)
         /\ EndsLine(r) => Len(r) > 0
         /\ \A i \in 1..Len(Body(r)) : Body(r)[i] = r[i]
<1>1. CASE EndsLine(r)
  <2>1. r # <<>> /\ Len(r) \in Nat /\ Len(r) > 0  BY <1>1 DEF EndsLine
  <2>2. Body(r) = SubSeq(r, 1, Len(r) - 1)  BY <1>1 DEF Body, Front
  <2>3. \A i \in 1..(Len(r) - 1) : r[i] \in Nat  OBVIOUS
  <2>4. /\ SubSeq(r, 1, Len(r) - 1) \in Seq(Nat)
        /\ Len(SubSeq(r, 1, Len(r) - 1)) = Len(r) - 1
        /\ \A i \in 1..(Len(r) - 1) : SubSeq(r, 1, Len(r) - 1)[i] = r[i]
    <3>1. 1 \in Int /\ Len(r) - 1 \in Int /\ (Len(r) - 1) - 1 + 1 = Len(r) - 1
          /\ (1 > Len(r) - 1 => Len(r) - 1 = 0)
      <4> DEFINE n == Len(r)
      <4>1. n \in Nat /\ n > 0  BY <2>1
      <4> HIDE DEF n
      <4>2. 1 \in Int /\ n - 1 \in Int /\ (n - 1) - 1 + 1 = n - 1 /\ (1 > n - 1 => n - 1 = 0)
        BY <4>1
      <4> QED BY <4>2 DEF n
    <3>2. \A i \in 1..(Len(r) - 1) : 1 + i - 1 = i  OBVIOUS
    <3> QED BY <2>3, <3>1, <3>2, SubSeqProperties
  <2> QED BY <1>1, <2>1, <2>2, <2>4
<1>2. CASE ~EndsLine(r)
  BY <1>2 DEF Body
<1> QED BY <1>1, <1>2

\* The last bytes of a text, each where it was counted from the end.
LEMMA LastBytesOf ==
  ASSUME NEW r \in Seq(Nat), NEW n \in Nat
  PROVE  /\ LastBytes(r, n) \in Seq(Nat)
         /\ Len(r) <= n => LastBytes(r, n) = r
         /\ Len(r) > n => /\ Len(LastBytes(r, n)) = n
                          /\ \A i \in 1..n : LastBytes(r, n)[i] = r[i + (Len(r) - n)]
<1>1. CASE Len(r) > n
  <2>1. LastBytes(r, n) = SubSeq(r, Len(r) - n + 1, Len(r))  BY <1>1 DEF LastBytes
  <2>2. \A i \in (Len(r) - n + 1)..Len(r) : r[i] \in Nat  BY <1>1
  <2>3. \A i \in 1..n : (Len(r) - n + 1) + i - 1 = i + (Len(r) - n)  OBVIOUS
  <2>4. /\ LastBytes(r, n) \in Seq(Nat)
        /\ Len(LastBytes(r, n)) = n
        /\ \A i \in 1..n : LastBytes(r, n)[i] = r[(Len(r) - n + 1) + i - 1]
    BY <2>1, <2>2, <1>1, SubSeqProperties
  <2> QED BY <2>3, <2>4, <1>1
<1>2. CASE Len(r) <= n
  BY <1>2 DEF LastBytes
<1> QED BY <1>1, <1>2

\* The positions at which a line of the text begins, the first apart: those
\* after a line break.
LEMMA LineStartsOf ==
  ASSUME NEW r \in Seq(Nat)
  PROVE  /\ LineStarts(r) \in SUBSET Nat
         /\ \A i \in LineStarts(r) : 1 <= i /\ i <= Len(r)
         /\ \A i \in Nat : i > 1 =>
              (i \in LineStarts(r) <=>
                 i <= Len(Body(r)) + 1 /\ i <= Len(r) /\ r[i - 1] \in Newlines)
<1>1. Len(Body(r)) \in Nat  BY BodyOf
<1>2. CASE r = <<>>
  BY <1>2, <1>1, BodyOf DEF LineStarts
<1>3. CASE r # <<>>
  BY <1>3, <1>1 DEF LineStarts
<1> QED BY <1>2, <1>3

\* r is a text of which t is the end, d less at the front.
Ends(t, r, d) ==
  /\ t \in Seq(Nat) /\ r \in Seq(Nat) /\ d \in Nat /\ d > 0
  /\ Len(r) = Len(t) + d /\ Len(t) > 1
  /\ \A i \in 1..Len(t) : t[i] = r[i + d]

\* The end of a text ends in a line break when the text does.
LEMMA EndsBodies ==
  ASSUME NEW t, NEW r, NEW d, Ends(t, r, d)
  PROVE  /\ Len(Body(r)) = Len(Body(t)) + d
         /\ Len(Body(t)) >= Len(t) - 1 /\ Len(Body(t)) <= Len(t)
         /\ \A i \in 1..Len(Body(t)) : Body(t)[i] = Body(r)[i + d]
<1>1. t \in Seq(Nat) /\ r \in Seq(Nat) /\ d \in Nat /\ Len(r) = Len(t) + d /\ Len(t) > 1
  BY DEF Ends
<1>2. Last(t) = Last(r)  BY <1>1, SMTT(30) DEF Ends, Last
<1>3. t # <<>> /\ r # <<>>  BY <1>1
<1>4. EndsLine(t) <=> EndsLine(r)  BY <1>2, <1>3 DEF EndsLine
<1>5. /\ Len(Body(r)) = Len(Body(t)) + d
      /\ Len(Body(t)) >= Len(t) - 1 /\ Len(Body(t)) <= Len(t)
  <2>1. Len(Body(r)) = IF EndsLine(r) THEN Len(r) - 1 ELSE Len(r)  BY <1>1, BodyOf
  <2>2. Len(Body(t)) = IF EndsLine(t) THEN Len(t) - 1 ELSE Len(t)  BY <1>1, BodyOf
  <2>3. Len(t) \in Nat /\ Len(r) \in Nat  BY <1>1
  <2> QED BY <1>1, <1>4, <2>1, <2>2, <2>3
<1>6. ASSUME NEW i \in 1..Len(Body(t)) PROVE Body(t)[i] = Body(r)[i + d]
  <2>1. Len(Body(t)) \in Nat  BY <1>1, BodyOf
  <2>2. i \in 1..Len(t) /\ i + d \in 1..Len(Body(r))  BY <1>1, <1>5, <2>1
  <2>3. Body(t)[i] = t[i]  BY <1>1, BodyOf
  <2>4. Body(r)[i + d] = r[i + d]  BY <1>1, <2>2, BodyOf
  <2> QED BY <2>2, <2>3, <2>4 DEF Ends
<1> QED BY <1>5, <1>6

\* The end of a text, its first position apart, has the lines of the text.
LEMMA EndsStarts ==
  ASSUME NEW t, NEW r, NEW d, Ends(t, r, d), NEW i \in Nat, i > 1
  PROVE  i \in LineStarts(t) <=> i + d \in LineStarts(r)
<1>1. t \in Seq(Nat) /\ r \in Seq(Nat) /\ d \in Nat /\ Len(r) = Len(t) + d /\ Len(t) > 1
  BY DEF Ends
<1>2. Len(Body(r)) = Len(Body(t)) + d /\ Len(Body(t)) \in Nat  BY EndsBodies, BodyOf, <1>1
<1>3. i \in LineStarts(t) <=> i <= Len(Body(t)) + 1 /\ i <= Len(t) /\ t[i - 1] \in Newlines
  BY <1>1, LineStartsOf
<1>4. i + d \in LineStarts(r) <=>
        i + d <= Len(Body(r)) + 1 /\ i + d <= Len(r) /\ r[i + d - 1] \in Newlines
  <2>1. i + d \in Nat /\ i + d > 1  BY <1>1
  <2>3. PICK j \in Nat : j = i + d  BY <2>1
  <2>2. j \in LineStarts(r) <=> j <= Len(Body(r)) + 1 /\ j <= Len(r) /\ r[j - 1] \in Newlines
    BY <1>1, <2>1, <2>3, LineStartsOf
  <2> QED BY <1>1, <2>2, <2>3
<1>5. i <= Len(t) => t[i - 1] = r[i + d - 1]
  <2> SUFFICES ASSUME i <= Len(t) PROVE t[i - 1] = r[i + d - 1]  OBVIOUS
  <2>1. i - 1 \in 1..Len(t) /\ (i - 1) + d = i + d - 1  BY <1>1
  <2> QED BY <2>1 DEF Ends
<1>6. i + d <= Len(Body(r)) + 1 <=> i <= Len(Body(t)) + 1  BY <1>1, <1>2
<1>7. i + d <= Len(r) <=> i <= Len(t)  BY <1>1
<1> QED BY <1>3, <1>4, <1>5, <1>6, <1>7

\* From line i on, the end of a text has the lines the text has.
LEMMA EndsCount ==
  ASSUME NEW t, NEW r, NEW d, Ends(t, r, d), NEW i \in Nat, i > 1
  PROVE  Cardinality({u \in LineStarts(r) : u >= i + d}) = Cardinality({u \in LineStarts(t) : u >= i})
<1> DEFINE A == {u \in LineStarts(t) : u >= i}
           B == {u \in LineStarts(r) : u >= i + d}
           f == [u \in A |-> u + d]
<1>1. t \in Seq(Nat) /\ r \in Seq(Nat) /\ d \in Nat /\ Len(t) \in Nat  BY DEF Ends
<1>2. A \in SUBSET Nat /\ \A u \in A : u <= Len(t)  BY <1>1, LineStartsOf
<1>3. IsFiniteSet(A)  BY <1>1, <1>2, FS_BoundedSetOfNaturals
<1>4. ASSUME NEW u \in A PROVE u + d \in B
  <2>1. u \in Nat /\ u > 1 /\ u \in LineStarts(t) /\ u + d >= i + d  BY <1>1, <1>2
  <2> QED BY <2>1, EndsStarts
<1>5. ASSUME NEW v \in B PROVE v - d \in A /\ (v - d) + d = v
  <2>1. v \in Nat  BY <1>1, LineStartsOf
  <2>2. v - d \in Nat /\ v - d > 1 /\ v - d >= i /\ (v - d) + d = v  BY <1>1, <2>1
  <2>3. v - d \in LineStarts(t)  BY <2>2, EndsStarts
  <2> QED BY <2>2, <2>3
<1>6. f \in [A -> B]  BY <1>4
<1>7. \A a, b \in A : f[a] = f[b] => a = b
  <2> SUFFICES ASSUME NEW a \in A, NEW b \in A, f[a] = f[b] PROVE a = b  OBVIOUS
  <2>1. a \in Nat /\ b \in Nat /\ a + d = b + d  BY <1>2
  <2> QED BY <2>1, <1>1
<1>8. \A v \in B : \E u \in A : f[u] = v
  <2> TAKE v \in B
  <2>1. v - d \in A /\ f[v - d] = v  BY <1>5
  <2> QED BY <2>1
<1>9. f \in Bijection(A, B)
  <2> HIDE DEF f, A, B
  <2> QED BY <1>6, <1>7, <1>8 DEF Bijection, Injection, Surjection, IsInjective
<1>10. ExistsBijection(A, B)  BY <1>9 DEF ExistsBijection
<1> HIDE DEF A, B
<1>11. Cardinality(B) = Cardinality(A)  BY <1>3, <1>10, FS_Bijection
<1> QED BY <1>11 DEF A, B

\* The same stretch of a text and of its end.
LEMMA EndsSubSeq ==
  ASSUME NEW t, NEW r, NEW d, Ends(t, r, d), NEW m \in Nat, m > 0, m <= Len(Body(t)) + 1
  PROVE  SubSeq(Body(t), m, Len(Body(t))) = SubSeq(Body(r), m + d, Len(Body(r)))
<1> DEFINE x == Body(t)
           y == Body(r)
           n == Len(x) - m + 1
<1>1. x \in Seq(Nat) /\ y \in Seq(Nat) /\ d \in Nat /\ Len(x) \in Nat  BY BodyOf DEF Ends
<1>2. Len(y) = Len(x) + d /\ \A i \in 1..Len(x) : x[i] = y[i + d]  BY EndsBodies
<1> HIDE DEF x, y
<1>3. n \in Nat /\ Len(y) - (m + d) + 1 = n  BY <1>1, <1>2 DEF x
<1>4. \A i \in m..Len(x) : x[i] \in Nat  BY <1>1
<1>5. \A i \in (m + d)..Len(y) : y[i] \in Nat  BY <1>1, <1>2
<1> DEFINE a == SubSeq(x, m, Len(x))
           b == SubSeq(y, m + d, Len(y))
<1>6. a \in Seq(Nat) /\ Len(a) = n /\ \A i \in 1..n : a[i] = x[m + i - 1]
  BY <1>1, <1>3, <1>4, SubSeqProperties
<1>7. b \in Seq(Nat) /\ Len(b) = n /\ \A i \in 1..n : b[i] = y[m + d + i - 1]
  BY <1>1, <1>2, <1>3, <1>5, SubSeqProperties
<1>8. \A i \in 1..n : a[i] = b[i]
  <2> TAKE i \in 1..n
  <2>1. m + i - 1 \in 1..Len(x) /\ (m + i - 1) + d = m + d + i - 1  BY <1>1, <1>3
  <2> QED BY <2>1, <1>2, <1>6, <1>7
<1> HIDE DEF a, b, n
<1>9. a = b  BY <1>6, <1>7, <1>8, SeqEqual
<1> QED BY <1>9 DEF a, b, x, y

\* The lines that fit, as TruncateTail picks them.
Fits(r) == {s \in LineStarts(r) :
              /\ Len(Body(r)) - s + 1 <= MaxBytes
              /\ Cardinality({t \in LineStarts(r) : t >= s}) <= MaxLines}

\* The least number of a set.
Least(S) == CHOOSE s \in S : \A t \in S : s <= t

\* The least number of a set of numbers, and the only one.
LEMMA LeastOf ==
  ASSUME NEW S \in SUBSET Nat, S # {}
  PROVE  /\ Least(S) \in S
         /\ \A t \in S : Least(S) <= t
         /\ \A s \in S : (\A t \in S : s <= t) => s = Least(S)
<1>1. \E s \in S : \A t \in S : s <= t  BY LeastNat
<1>2. Least(S) \in S /\ \A t \in S : Least(S) <= t  BY <1>1 DEF Least
<1>3. ASSUME NEW s \in S, \A t \in S : s <= t PROVE s = Least(S)
  <2>1. s <= Least(S) /\ Least(S) <= s /\ s \in Nat /\ Least(S) \in Nat  BY <1>2, <1>3
  <2> QED BY <2>1
<1> QED BY <1>2, <1>3

\* TruncateTail in terms of the lines that fit.
LEMMA TruncateTailIs ==
  ASSUME NEW r, OverLimit(r)
  PROVE  TruncateTail(r) = IF Fits(r) = {} THEN LastBytes(Body(r), MaxBytes)
                           ELSE SubSeq(Body(r), Least(Fits(r)), Len(Body(r)))
BY DEF TruncateTail, Fits, Least

\* The lines that fit are the same for a text and an end of it that is twice
\* the limit long: none of them is as far from the last byte as that.
LEMMA EndsFits ==
  ASSUME NEW t, NEW r, NEW d, Ends(t, r, d), Len(t) = 2 * MaxBytes
  PROVE  /\ \A s \in Fits(t) : s + d \in Fits(r)
         /\ \A s \in Fits(r) : s - d \in Fits(t)
<1>1. t \in Seq(Nat) /\ r \in Seq(Nat) /\ d \in Nat /\ d > 0  BY DEF Ends
<1>2. /\ Len(Body(r)) = Len(Body(t)) + d /\ Len(Body(t)) \in Nat
      /\ Len(Body(t)) >= 2 * MaxBytes - 1
  <2>1. Len(Body(t)) \in Nat  BY <1>1, BodyOf
  <2>2. Len(Body(r)) = Len(Body(t)) + d /\ Len(Body(t)) >= Len(t) - 1  BY EndsBodies
  <2> QED BY <2>1, <2>2
<1>3. ASSUME NEW s \in Nat, s > 1 PROVE s \in Fits(t) <=> s + d \in Fits(r)
  <2>1. s \in LineStarts(t) <=> s + d \in LineStarts(r)  BY <1>3, EndsStarts
  <2>2. Cardinality({u \in LineStarts(r) : u >= s + d}) = Cardinality({u \in LineStarts(t) : u >= s})
    BY <1>3, EndsCount
  <2>3. Len(Body(r)) - (s + d) + 1 = Len(Body(t)) - s + 1  BY <1>1, <1>2
  <2> QED BY <2>1, <2>2, <2>3 DEF Fits
<1>4. ASSUME NEW s \in Fits(t) PROVE s + d \in Fits(r)
  <2>1. s \in Nat /\ Len(Body(t)) - s + 1 <= MaxBytes  BY <1>1, LineStartsOf DEF Fits
  <2>2. s > 1  BY <2>1, <1>2, ShellAssumption
  <2> QED BY <2>1, <2>2, <1>3
<1>5. ASSUME NEW s \in Fits(r) PROVE s - d \in Fits(t)
  <2>1. s \in Nat /\ Len(Body(r)) - s + 1 <= MaxBytes  BY <1>1, LineStartsOf DEF Fits
  <2>2. s - d \in Nat /\ s - d > 1 /\ (s - d) + d = s  BY <2>1, <1>1, <1>2, ShellAssumption
  <2> QED BY <2>2, <1>3
<1> QED BY <1>4, <1>5

\* The buffer, twice what is shown, shows what the whole text would.
LEMMA TailShows ==
  ASSUME NEW r \in Seq(Nat), OverLimit(r)
  PROVE  TruncateTail(Trimmed(r)) = TruncateTail(r)
<1> DEFINE t == Trimmed(r)
           d == Len(r) - 2 * MaxBytes
<1>1. 2 * MaxBytes \in Nat /\ Len(r) \in Nat  BY ShellAssumption
<1>2. CASE Len(r) <= 2 * MaxBytes
  <2>1. t = r  BY <1>1, <1>2, LastBytesOf DEF Trimmed
  <2> QED BY <2>1
<1>3. CASE Len(r) > 2 * MaxBytes
  <2>1. /\ t \in Seq(Nat) /\ Len(t) = 2 * MaxBytes
        /\ \A i \in 1..(2 * MaxBytes) : t[i] = r[i + d]
    BY <1>1, <1>3, LastBytesOf DEF Trimmed
  <2>2. d \in Nat /\ d > 0 /\ Len(r) = 2 * MaxBytes + d  BY <1>1, <1>3
  <2> HIDE DEF t, d
  <2>3. Len(t) > 1  BY <2>1, ShellAssumption
  <2>4. Ends(t, r, d)  BY <2>1, <2>2, <2>3 DEF Ends
  <2>5. OverLimit(t)  BY <2>1, ShellAssumption DEF OverLimit
  <2>6. /\ \A s \in Fits(t) : s + d \in Fits(r)
        /\ \A s \in Fits(r) : s - d \in Fits(t)
    BY <2>1, <2>4, EndsFits
  <2>7. /\ Fits(t) \in SUBSET Nat /\ Fits(r) \in SUBSET Nat
        /\ \A s \in Fits(t) : s > 0 /\ s <= Len(t)
    BY <2>1, LineStartsOf DEF Fits
  <2>8. /\ Len(Body(r)) = Len(Body(t)) + d /\ Len(Body(t)) \in Nat
        /\ Len(Body(t)) >= Len(t) - 1 /\ Len(Body(t)) <= Len(t)
    <3>1. Len(Body(t)) \in Nat  BY <2>1, BodyOf
    <3> QED BY <3>1, <2>4, EndsBodies
  <2>9. CASE Fits(t) = {}
    <3>1. Fits(r) = {}  BY <2>6, <2>9
    <3> DEFINE m == Len(Body(t)) - MaxBytes + 1
    <3>2. m \in Nat /\ m > 0 /\ m <= Len(Body(t)) + 1 /\ Len(Body(t)) > MaxBytes
          /\ Len(Body(r)) > MaxBytes /\ m + d = Len(Body(r)) - MaxBytes + 1
      <4>1. Len(t) = 2 * MaxBytes /\ MaxBytes \in Nat /\ MaxBytes > 1  BY <2>1, ShellAssumption
      <4>2. Len(Body(t)) \in Nat /\ Len(Body(t)) > MaxBytes  BY <4>1, <2>8
      <4> QED BY <4>1, <4>2, <2>2, <2>8
    <3>3. LastBytes(Body(t), MaxBytes) = SubSeq(Body(t), m, Len(Body(t)))
      BY <3>2, <2>8, ShellAssumption DEF LastBytes
    <3>4. LastBytes(Body(r), MaxBytes) = SubSeq(Body(r), m + d, Len(Body(r)))
      <4>1. ~(Len(Body(r)) <= MaxBytes)  BY <3>2, <2>8, <2>2, ShellAssumption
      <4>2. LastBytes(Body(r), MaxBytes) = SubSeq(Body(r), Len(Body(r)) - MaxBytes + 1, Len(Body(r)))
        BY <4>1 DEF LastBytes
      <4> QED BY <4>2, <3>2
    <3> HIDE DEF m
    <3>5. SubSeq(Body(t), m, Len(Body(t))) = SubSeq(Body(r), m + d, Len(Body(r)))
      BY <2>4, <3>2, EndsSubSeq
    <3>6. TruncateTail(t) = LastBytes(Body(t), MaxBytes)  BY <2>5, <2>9, TruncateTailIs
    <3>7. TruncateTail(r) = LastBytes(Body(r), MaxBytes)  BY <3>1, TruncateTailIs
    <3> QED BY <3>3, <3>4, <3>5, <3>6, <3>7 DEF t
  <2>10. CASE Fits(t) # {}
    <3> DEFINE m == Least(Fits(t))
    <3>1. m \in Fits(t) /\ \A s \in Fits(t) : m <= s  BY <2>7, <2>10, LeastOf
    <3>2. m \in Nat /\ m > 0 /\ m <= Len(Body(t)) + 1  BY <3>1, <2>1, <2>7, <2>8
    <3>3. m + d \in Fits(r)  BY <3>1, <2>6
    <3>4. \A s \in Fits(r) : m + d <= s
      <4> TAKE s \in Fits(r)
      <4>1. s - d \in Fits(t) /\ s \in Nat  BY <2>6, <2>7
      <4>2. m <= s - d  BY <4>1, <3>1
      <4> QED BY <4>1, <4>2, <3>2, <2>2
    <3>5. m + d = Least(Fits(r))  BY <3>3, <3>4, <2>7, LeastOf
    <3>6. TruncateTail(t) = SubSeq(Body(t), m, Len(Body(t)))
      BY <2>5, <2>10, TruncateTailIs
    <3>7. TruncateTail(r) = SubSeq(Body(r), m + d, Len(Body(r)))
      BY <3>3, <3>5, TruncateTailIs
    <3> HIDE DEF m
    <3>8. SubSeq(Body(t), m, Len(Body(t))) = SubSeq(Body(r), m + d, Len(Body(r)))
      BY <2>4, <3>2, EndsSubSeq
    <3> QED BY <3>6, <3>7, <3>8 DEF t
  <2> QED BY <2>9, <2>10
<1> QED BY <1>1, <1>2, <1>3

\* Where the elements of a longer sequence come from.
LEMMA Joined ==
  ASSUME NEW S, NEW s \in Seq(S), NEW t \in Seq(S)
  PROVE  /\ s \o t \in Seq(S) /\ Len(s \o t) = Len(s) + Len(t)
         /\ \A i \in 1..Len(s) : (s \o t)[i] = s[i]
         /\ \A i \in 1..Len(t) : (s \o t)[Len(s) + i] = t[i]
<1>1. ASSUME NEW i \in 1..Len(t) PROVE (s \o t)[Len(s) + i] = t[i]
  <2>1. Len(s) \in Nat /\ Len(t) \in Nat  OBVIOUS
  <2> DEFINE j == Len(s) + i
  <2>2. j \in 1..(Len(s) + Len(t)) /\ j > Len(s) /\ j - Len(s) = i  BY <2>1
  <2> HIDE DEF j
  <2>3. (s \o t)[j] = t[j - Len(s)]  BY <2>1, <2>2, ConcatProperties
  <2> QED BY <2>2, <2>3 DEF j
<1> QED BY <1>1, ConcatProperties

\* Where two sequences agree so do their stretches.
LEMMA SameSubSeq ==
  ASSUME NEW s, NEW t, NEW m \in Int, NEW n \in Int, \A k \in m..n : s[k] = t[k]
  PROVE  SubSeq(s, m, n) = SubSeq(t, m, n)
<1> DEFINE S == {s[k] : k \in m..n}
<1>1. \A k \in m..n : s[k] \in S /\ t[k] \in S  OBVIOUS
<1> HIDE DEF S
<1> DEFINE a == SubSeq(s, m, n)
           b == SubSeq(t, m, n)
           l == IF m <= n THEN n - m + 1 ELSE 0
<1>2. a \in Seq(S) /\ Len(a) = l /\ \A i \in 1..(n - m + 1) : a[i] = s[m + i - 1]
  BY <1>1, SubSeqProperties
<1>3. b \in Seq(S) /\ Len(b) = l /\ \A i \in 1..(n - m + 1) : b[i] = t[m + i - 1]
  BY <1>1, SubSeqProperties
<1>4. \A i \in 1..l : a[i] = b[i]
  <2> TAKE i \in 1..l
  <2>1. i \in 1..(n - m + 1) /\ m + i - 1 \in m..n  OBVIOUS
  <2> HIDE DEF a, b
  <2> QED BY <2>1, <1>2, <1>3
<1> HIDE DEF a, b, l
<1>5. a = b  BY <1>2, <1>3, <1>4, SeqEqual
<1> QED BY <1>5 DEF a, b

\* Trimming as the text grows is trimming it once.
LEMMA TrimmedGrows ==
  ASSUME NEW r \in Seq(Nat), NEW x \in Seq(Nat)
  PROVE  Trimmed(Trimmed(r) \o x) = Trimmed(r \o x)
<1> DEFINE n == 2 * MaxBytes
           t == LastBytes(r, n)
           a == LastBytes(t \o x, n)
           b == LastBytes(r \o x, n)
<1>1. n \in Nat /\ n > 0  BY ShellAssumption
<1> HIDE DEF n
<1>2. CASE Len(r) <= n
  <2>1. t = r  BY <1>1, <1>2, LastBytesOf
  <2> QED BY <2>1 DEF Trimmed, n
<1>3. CASE Len(r) > n
  <2>1. /\ t \in Seq(Nat) /\ Len(t) = n
        /\ \A i \in 1..n : t[i] = r[i + (Len(r) - n)]
    BY <1>1, <1>3, LastBytesOf
  <2>2. Len(r) \in Nat /\ Len(x) \in Nat  OBVIOUS
  <2> HIDE DEF t
  <2> DEFINE p == t \o x
             q == r \o x
  <2>3. /\ p \in Seq(Nat) /\ Len(p) = n + Len(x)
        /\ \A i \in 1..n : p[i] = t[i]
        /\ \A i \in 1..Len(x) : p[n + i] = x[i]
    <3>1. /\ p \in Seq(Nat) /\ Len(p) = Len(t) + Len(x)
          /\ \A i \in 1..Len(t) : p[i] = t[i]
          /\ \A i \in 1..Len(x) : p[Len(t) + i] = x[i]
      <4>1. t \in Seq(Nat)  BY <2>1
      <4> QED BY <4>1, Joined
    <3> HIDE DEF p
    <3> QED BY <3>1, <2>1
  <2>4. /\ q \in Seq(Nat) /\ Len(q) = Len(r) + Len(x)
        /\ \A i \in 1..Len(r) : q[i] = r[i]
        /\ \A i \in 1..Len(x) : q[Len(r) + i] = x[i]
    BY Joined
  <2>5. CASE Len(x) = 0
    <3>1. x = <<>>  BY <2>5
    <3>2. p = t /\ q = r  BY <3>1, <2>1
    <3>3. LastBytes(p, n) = t  BY <1>1, <2>1, <3>2, LastBytesOf
    <3> QED BY <3>2, <3>3 DEF Trimmed, t, n
  <2>6. CASE Len(x) > 0
    <3> HIDE DEF p, q
    <3>1. /\ a \in Seq(Nat) /\ Len(a) = n
          /\ \A i \in 1..n : a[i] = p[i + (Len(p) - n)]
      <4>1. Len(p) > n  BY <1>1, <2>2, <2>3, <2>6
      <4> QED BY <1>1, <2>3, <4>1, LastBytesOf DEF p
    <3>2. /\ b \in Seq(Nat) /\ Len(b) = n
          /\ \A i \in 1..n : b[i] = q[i + (Len(q) - n)]
      <4>1. Len(q) > n  BY <1>1, <1>3, <2>2, <2>4, <2>6
      <4> QED BY <1>1, <2>4, <4>1, LastBytesOf DEF q
    <3> HIDE DEF a, b
    <3>3. ASSUME NEW i \in 1..n PROVE a[i] = b[i]
      <4>1. a[i] = p[i + Len(x)]
        <5>1. i + (Len(p) - n) = i + Len(x)  BY <2>3, <1>1, <2>2
        <5> QED BY <3>1, <5>1
      <4>2. b[i] = q[i + (Len(r) + Len(x) - n)]
        <5>1. i + (Len(q) - n) = i + (Len(r) + Len(x) - n)  BY <2>4, <1>1, <2>2
        <5> QED BY <3>2, <5>1
      <4>3. CASE i + Len(x) <= n
        <5>1. i + Len(x) \in 1..n  BY <4>3, <1>1, <2>2
        <5>2. p[i + Len(x)] = r[i + Len(x) + (Len(r) - n)]  BY <5>1, <2>1, <2>3
        <5>3. i + (Len(r) + Len(x) - n) \in 1..Len(r)
              /\ i + Len(x) + (Len(r) - n) = i + (Len(r) + Len(x) - n)
          BY <5>1, <1>1, <1>3, <2>2
        <5> QED BY <4>1, <4>2, <5>2, <5>3, <2>4
      <4>4. CASE i + Len(x) > n
        <5> DEFINE j == i + Len(x) - n
        <5>1. j \in 1..Len(x) /\ i + Len(x) = n + j  BY <4>4, <1>1, <2>2
        <5>2. i + (Len(r) + Len(x) - n) = Len(r) + j  BY <5>1, <1>1, <2>2
        <5> HIDE DEF j
        <5> QED BY <4>1, <4>2, <5>1, <5>2, <2>3, <2>4
      <4> QED BY <4>3, <4>4, <1>1, <2>2
    <3>4. a = b  BY <3>1, <3>2, <3>3, SeqEqual
    <3> QED BY <3>4 DEF a, b, t, Trimmed, n
  <2> QED BY <2>2, <2>5, <2>6
<1> QED BY <1>1, <1>2, <1>3

\* One step of the chain that writes the file.
StepRecord == [op : {"create", "first", "append"}, text : Seq(Nat)]

\* The types, and the buffer as the end of the text.
CaptureTypes ==
  /\ received \in Seq(Nat) /\ tail = Trimmed(received)
  /\ written \in Nat /\ pipe \in [Streams -> Seq(Nat)]
  /\ spill \in [requested : BOOLEAN, created : BOOLEAN, text : Seq(Nat)]
  /\ chain \in [steps : Seq(StepRecord), failed : BOOLEAN]
  /\ broken \in BOOLEAN

\* The file and the steps that are still to run are consecutive parts of the
\* text, from its first byte to its last: step k has what comes after at[k].
Parts(all, text, steps, at) ==
  /\ at \in [1..(Len(steps) + 1) -> 0..Len(all)]
  /\ text = SubSeq(all, 1, at[1])
  /\ at[Len(steps) + 1] = Len(all)
  /\ \A k \in 1..Len(steps) :
       at[k] <= at[k + 1] /\ steps[k].text = SubSeq(all, at[k] + 1, at[k + 1])

\* What the chain will have written.
SpillHolds ==
  /\ ~spill.requested =>
       /\ chain.steps = <<>> /\ ~chain.failed /\ spill.text = <<>>
       /\ ~broken => ~Truncated
  /\ spill.requested /\ ~broken /\ ~chain.failed =>
       /\ \E at : Parts(received, spill.text, chain.steps, at)
       /\ spill.created \/ (chain.steps # <<>> /\ Head(chain.steps).op = "create")
       /\ \A k \in 2..Len(chain.steps) : chain.steps[k].op # "create"

\* A call that ended without an error has run the whole chain.
ChainRun ==
  /\ result.pc \in {"start", "exec", "flush", "over"}
  /\ Returned /\ result.tool # "error" => chain.steps = <<>> /\ ~chain.failed /\ ~broken

\* The inductive invariant behind the capture.
CaptureInv == CaptureTypes /\ SpillHolds /\ ChainRun

\* A call starts with nothing read and no file.
LEMMA CaptureInit == ShellInit => CaptureInv
<1> SUFFICES ASSUME ShellInit PROVE CaptureInv  OBVIOUS
<1>1. received = <<>> /\ tail = <<>> /\ written = 0 /\ broken = FALSE
      /\ spill = [requested |-> FALSE, created |-> FALSE, text |-> <<>>]
      /\ chain = [steps |-> <<>>, failed |-> FALSE]
      /\ result = [pc |-> "start", exec |-> "none", tool |-> "none"]
      /\ pipe = [s \in Streams |-> <<>>]
  BY DEF ShellInit
<1>2. Trimmed(<<>>) = <<>>  BY ShellAssumption DEF Trimmed, LastBytes
<1>3. \A r : r = <<>> => ~OverLimit(r)
  <2> SUFFICES ASSUME NEW r, r = <<>> PROVE ~OverLimit(r)  OBVIOUS
  <2>1. LineStarts(r) = {}  BY DEF LineStarts
  <2>2. Cardinality(LineStarts(r)) = 0  BY <2>1, FS_EmptySet
  <2>3. Len(r) = 0 /\ ~(0 > MaxLines) /\ ~(0 > MaxBytes)  BY ShellAssumption
  <2> QED BY <2>2, <2>3 DEF OverLimit
<1>4. CaptureTypes
  <2>1. <<>> \in Seq(Nat) /\ <<>> \in Seq(StepRecord)  OBVIOUS
  <2>2. pipe \in [Streams -> Seq(Nat)]  BY <1>1
  <2>3. chain \in [steps : Seq(StepRecord), failed : BOOLEAN]  BY <1>1, <2>1
  <2>4. spill \in [requested : BOOLEAN, created : BOOLEAN, text : Seq(Nat)]  BY <1>1, <2>1
  <2>5. received \in Seq(Nat) /\ tail = Trimmed(received)  BY <1>1, <1>2
  <2> QED BY <1>1, <2>2, <2>3, <2>4, <2>5 DEF CaptureTypes
<1>5. SpillHolds  BY <1>1, <1>3 DEF SpillHolds, Truncated
<1>6. ChainRun  BY <1>1 DEF ChainRun, Returned
<1> QED BY <1>4, <1>5, <1>6 DEF CaptureInv

\* A chunk is a text.
LEMMA PumpedText ==
  ASSUME CaptureTypes, NEW s \in Streams, NEW n \in Nat, n <= Len(pipe[s])
  PROVE  /\ Printable(SubSeq(pipe[s], 1, n)) \in Seq(Nat)
         /\ SubSeq(pipe[s], n + 1, Len(pipe[s])) \in Seq(Nat)
<1>1. pipe[s] \in Seq(Nat)  BY DEF CaptureTypes
<1>2. SubSeq(pipe[s], 1, n) \in Seq(Nat) /\ SubSeq(pipe[s], n + 1, Len(pipe[s])) \in Seq(Nat)
  BY <1>1
<1> QED BY <1>2, WithoutType DEF Printable

\* More text, in one more step.
LEMMA PartsGrow ==
  ASSUME NEW all \in Seq(Nat), NEW text, NEW steps \in Seq(StepRecord), NEW at,
         NEW x \in Seq(Nat), NEW op \in {"create", "first", "append"}, Parts(all, text, steps, at)
  PROVE  \E to : Parts(all \o x, text, Append(steps, [op |-> op, text |-> x]), to)
<1> DEFINE n == Len(steps)
           step == [op |-> op, text |-> x]
           to == [k \in 1..(n + 2) |-> IF k = n + 2 THEN Len(all) + Len(x) ELSE at[k]]
           more == Append(steps, step)
           whole == all \o x
<1>1. n \in Nat /\ Len(all) \in Nat /\ Len(x) \in Nat  OBVIOUS
<1>2. /\ whole \in Seq(Nat) /\ Len(whole) = Len(all) + Len(x)
      /\ \A i \in 1..Len(all) : whole[i] = all[i]
      /\ \A i \in 1..Len(x) : whole[Len(all) + i] = x[i]
  BY Joined
<1>3. /\ at \in [1..(n + 1) -> 0..Len(all)]
      /\ text = SubSeq(all, 1, at[1])
      /\ at[n + 1] = Len(all)
      /\ \A k \in 1..n : at[k] <= at[k + 1] /\ steps[k].text = SubSeq(all, at[k] + 1, at[k + 1])
  BY DEF Parts
<1>4. step \in StepRecord  BY DEF StepRecord
<1>5. /\ Len(more) = n + 1 /\ more[n + 1] = step
      /\ \A k \in 1..n : more[k] = steps[k]
  BY <1>1, <1>4
<1> HIDE DEF whole, n
<1>6. \A i, j \in 0..Len(all) : SubSeq(whole, i + 1, j) = SubSeq(all, i + 1, j)
  <2> TAKE i, j \in 0..Len(all)
  <2>1. \A k \in (i + 1)..j : whole[k] = all[k]
    <3>1. \A k \in (i + 1)..j : k \in 1..Len(all)  BY <1>1
    <3> QED BY <3>1, <1>2
  <2>2. i + 1 \in Int /\ j \in Int  BY <1>1
  <2> QED BY <2>1, <2>2, SameSubSeq
<1>7. SubSeq(whole, Len(all) + 1, Len(all) + Len(x)) = x
  <2>1. \A k \in (Len(all) + 1)..(Len(all) + Len(x)) : whole[k] \in Nat  BY <1>1, <1>2
  <2> DEFINE y == SubSeq(whole, Len(all) + 1, Len(all) + Len(x))
  <2>2. y \in Seq(Nat) /\ Len(y) = Len(x)
        /\ \A i \in 1..Len(x) : y[i] = whole[Len(all) + 1 + i - 1]
    <3>1. Len(all) + Len(x) - (Len(all) + 1) + 1 = Len(x)
          /\ (Len(all) + 1 > Len(all) + Len(x) => Len(x) = 0)
      BY <1>1
    <3> QED BY <2>1, <3>1, <1>1, SubSeqProperties
  <2> HIDE DEF y
  <2>3. \A i \in 1..Len(x) : Len(all) + 1 + i - 1 = Len(all) + i  BY <1>1
  <2>4. y = x  BY <2>2, <2>3, <1>2, SeqEqual
  <2> QED BY <2>4 DEF y
<1> HIDE DEF step, more
<1>8. to \in [1..(Len(more) + 1) -> 0..Len(whole)]
  BY <1>1, <1>2, <1>3, <1>5
<1>9. text = SubSeq(whole, 1, to[1])
  <2>1. 1 \in 1..(n + 1) /\ 1 \in 1..(n + 2) /\ 1 # n + 2  BY <1>1
  <2>2. at[1] \in 0..Len(all) /\ to[1] = at[1]  BY <2>1, <1>3
  <2>3. SubSeq(whole, 0 + 1, at[1]) = SubSeq(all, 0 + 1, at[1])
    <3>1. 0 \in 0..Len(all)  BY <1>1
    <3> HIDE DEF to
    <3> QED BY <3>1, <1>6, <2>2
  <2> HIDE DEF to
  <2> QED BY <2>2, <2>3, <1>3
<1>10. to[Len(more) + 1] = Len(whole)  BY <1>1, <1>2, <1>5
<1>11. ASSUME NEW k \in 1..Len(more)
       PROVE  to[k] <= to[k + 1] /\ more[k].text = SubSeq(whole, to[k] + 1, to[k + 1])
  <2>1. CASE k = n + 1
    <3>1. to[k] = Len(all) /\ to[k + 1] = Len(all) + Len(x)  BY <2>1, <1>1, <1>3
    <3>2. more[k].text = x  BY <2>1, <1>5 DEF step
    <3> HIDE DEF to
    <3>3. SubSeq(whole, to[k] + 1, to[k + 1]) = x  BY <3>1, <1>7
    <3>4. to[k] <= to[k + 1]  BY <3>1, <1>1
    <3> QED BY <3>2, <3>3, <3>4
  <2>2. CASE k # n + 1
    <3>1. k \in 1..n /\ k + 1 \in 1..(n + 1)  BY <2>2, <1>1, <1>5
    <3>2. to[k] = at[k] /\ to[k + 1] = at[k + 1] /\ at[k] \in 0..Len(all) /\ at[k + 1] \in 0..Len(all)
      BY <3>1, <1>1, <1>3, SMTT(30)
    <3>3. SubSeq(whole, at[k] + 1, at[k + 1]) = SubSeq(all, at[k] + 1, at[k + 1])
      BY <3>2, <1>6
    <3> HIDE DEF to
    <3> QED BY <3>1, <3>2, <3>3, <1>3, <1>5
  <2> QED BY <2>1, <2>2
<1> HIDE DEF to
<1>12. Parts(whole, text, more, to)  BY <1>8, <1>9, <1>10, <1>11 DEF Parts
<1> QED BY <1>12 DEF whole, more, step

\* The first part joins the file.
LEMMA PartsShift ==
  ASSUME NEW all \in Seq(Nat), NEW text, NEW steps, NEW at, NEW rest,
         Len(rest) \in Nat, Len(steps) = Len(rest) + 1,
         \A k \in 1..Len(rest) : rest[k] = steps[k + 1],
         Parts(all, text, steps, at)
  PROVE  \E to : Parts(all, text \o steps[1].text, rest, to)
<1> DEFINE n == Len(rest)
<1> DEFINE to == [k \in 1..(n + 1) |-> at[k + 1]]
<1>1. /\ at \in [1..(n + 2) -> 0..Len(all)]
      /\ text = SubSeq(all, 1, at[1])
      /\ at[n + 2] = Len(all)
      /\ \A k \in 1..(n + 1) : at[k] <= at[k + 1] /\ steps[k].text = SubSeq(all, at[k] + 1, at[k + 1])
  BY DEF Parts
<1>2. to \in [1..(n + 1) -> 0..Len(all)] /\ \A k \in 1..(n + 1) : to[k] = at[k + 1]
  BY <1>1
<1> HIDE DEF to
<1>3. text \o steps[1].text = SubSeq(all, 1, to[1])
  <2>1. 1 \in 1..(n + 1) /\ 1 \in 1..(n + 2) /\ 2 \in 1..(n + 2) /\ 1 + 1 = 2  OBVIOUS
  <2>2. at[1] \in 0..Len(all) /\ at[2] \in 0..Len(all) /\ at[1] <= at[2]
        /\ steps[1].text = SubSeq(all, at[1] + 1, at[2]) /\ to[1] = at[2]
    BY <1>1, <1>2, <2>1
  <2>3. 1 \in 1..Len(all) + 1 /\ at[1] \in (1 - 1)..Len(all) /\ at[2] \in at[1]..Len(all)
    BY <2>2
  <2>4. SubSeq(all, 1, at[1]) \o SubSeq(all, at[1] + 1, at[2]) = SubSeq(all, 1, at[2])
    BY <2>3, ConcatAdjacentSubSeq
  <2> QED BY <2>2, <2>4, <1>1
<1>4. to[n + 1] = Len(all)  BY <1>1, <1>2, SMTT(30)
<1>5. ASSUME NEW k \in 1..n
      PROVE  to[k] <= to[k + 1] /\ rest[k].text = SubSeq(all, to[k] + 1, to[k + 1])
  <2>1. k \in 1..(n + 1) /\ k + 1 \in 1..(n + 1)  OBVIOUS
  <2>2. to[k] = at[k + 1] /\ to[k + 1] = at[(k + 1) + 1] /\ rest[k] = steps[k + 1]
    BY <1>2, <2>1
  <2> QED BY <1>1, <2>1, <2>2
<1>6. Parts(all, text \o steps[1].text, rest, to)
  BY <1>2, <1>3, <1>4, <1>5 DEF Parts
<1> QED BY <1>6

\* The steps that leave the text and the steps of the chain alone.
LEMMA CaptureStays ==
  ASSUME CaptureInv, UNCHANGED <<received, tail, spill, chain>>,
         broken' \in BOOLEAN, broken => broken', written' \in Nat,
         pipe' \in [Streams -> Seq(Nat)], ChainRun'
  PROVE  CaptureInv'
<1>1. CaptureTypes'  BY DEF CaptureInv, CaptureTypes
<1>2. SpillHolds'
  <2>1. UNCHANGED <<received, spill, chain>> /\ (~broken' => ~broken)  OBVIOUS
  <2> QED BY <2>1 DEF CaptureInv, SpillHolds, Truncated
<1> QED BY <1>1, <1>2 DEF CaptureInv

\* A text that is not over the limit is in the buffer as it is.
LEMMA TailWhole ==
  ASSUME NEW r \in Seq(Nat), ~OverLimit(r)
  PROVE  Trimmed(r) = r
<1>1. Len(r) <= MaxBytes /\ Len(r) \in Nat  BY ShellAssumption DEF OverLimit
<1>2. 2 * MaxBytes \in Nat /\ Len(r) <= 2 * MaxBytes  BY <1>1, ShellAssumption
<1> QED BY <1>2, LastBytesOf DEF Trimmed

\* A chunk is read: the text, the buffer, and what goes to the file or to a
\* step of the chain that will write it, grow by the same bytes.
LEMMA CapturePump ==
  ASSUME CaptureInv, NEW s \in Streams, Pump(s)
  PROVE  CaptureInv'
<1> DEFINE n == IF Len(pipe[s]) < ReadSize THEN Len(pipe[s]) ELSE ReadSize
           x == Printable(SubSeq(pipe[s], 1, n))
           step == [op |-> "append", text |-> x]
           first == [op |-> "create", text |-> tail \o x]
<1>1. /\ result.pc = "exec" /\ result' = result
      /\ pipe' = [pipe EXCEPT ![s] = SubSeq(@, n + 1, Len(@))]
      /\ received' = received \o x
      /\ Keep(x)
      /\ tail' = Trimmed(tail \o x)
      /\ UNCHANGED written
      /\ Throttled(Len(received'))
  BY DEF Pump, processVars
<1>2. /\ received \in Seq(Nat) /\ tail = Trimmed(received) /\ written \in Nat
      /\ pipe \in [Streams -> Seq(Nat)]
      /\ spill \in [requested : BOOLEAN, created : BOOLEAN, text : Seq(Nat)]
      /\ chain \in [steps : Seq(StepRecord), failed : BOOLEAN]
      /\ broken \in BOOLEAN
  BY DEF CaptureInv, CaptureTypes
<1>3. n \in Nat /\ n <= Len(pipe[s])
  <2>1. Len(pipe[s]) \in Nat  BY <1>2
  <2> QED BY <2>1, ShellAssumption
<1> HIDE DEF n
<1>4. x \in Seq(Nat) /\ SubSeq(pipe[s], n + 1, Len(pipe[s])) \in Seq(Nat)
  BY <1>3, PumpedText DEF CaptureInv
<1> HIDE DEF x
<1>5. broken' \in BOOLEAN /\ (broken => broken')  BY <1>1, <1>2 DEF Throttled
<1>6. received' \in Seq(Nat) /\ tail' = Trimmed(received')
  BY <1>1, <1>2, <1>4, TrimmedGrows
<1>7. pipe' \in [Streams -> Seq(Nat)] /\ written' \in Nat  BY <1>1, <1>2, <1>4
<1>8. step \in StepRecord  BY <1>4 DEF StepRecord
<1>9. ChainRun'  BY <1>1 DEF CaptureInv, ChainRun, Returned
<1>10. CASE OverLimit(received \o x) /\ ~spill.requested
  <2>1. Ensure(tail \o x)  BY <1>1, <1>10 DEF Keep
  <2>2. chain.steps = <<>> /\ ~chain.failed /\ spill.text = <<>> /\ (~broken => ~OverLimit(received))
    BY <1>10 DEF CaptureInv, SpillHolds, Truncated
  <2>3. CASE broken
    <3>1. UNCHANGED <<spill, chain>> /\ broken'  BY <2>1, <2>3, <1>5 DEF Ensure
    <3>2. SpillHolds'  BY <2>2, <3>1, <1>10 DEF SpillHolds, Truncated
    <3>3. CaptureTypes'  BY <1>2, <1>5, <1>6, <1>7, <3>1 DEF CaptureTypes
    <3> QED BY <1>9, <3>2, <3>3 DEF CaptureInv
  <2>4. CASE ~broken
    <3>1. tail = received  BY <1>2, <2>2, <2>4, TailWhole
    <3>2. /\ spill' = [spill EXCEPT !.requested = TRUE]
          /\ chain' = [chain EXCEPT !.steps = Append(chain.steps, first)]
      BY <2>1, <2>2, <2>4, <1>10 DEF Ensure, Chained
    <3>3. first = [op |-> "create", text |-> received'] /\ first \in StepRecord
      BY <1>1, <1>6, <3>1 DEF StepRecord
    <3>4. /\ spill' \in [requested : BOOLEAN, created : BOOLEAN, text : Seq(Nat)]
          /\ spill'.requested /\ spill'.text = <<>>
      BY <1>2, <2>2, <3>2
    <3>5. /\ chain' \in [steps : Seq(StepRecord), failed : BOOLEAN]
          /\ chain'.steps = <<first>>
      <4> HIDE DEF first
      <4>1. Append(chain.steps, first) = <<first>>  BY <2>2
      <4>2. <<first>> \in Seq(StepRecord)  BY <3>3
      <4> QED BY <1>2, <3>2, <4>1, <4>2
    <3>6. Parts(received', spill'.text, chain'.steps, [k \in 1..2 |-> IF k = 1 THEN 0 ELSE Len(received')])
      <4> DEFINE at == [k \in 1..2 |-> IF k = 1 THEN 0 ELSE Len(received')]
      <4>1. Len(received') \in Nat /\ Len(chain'.steps) = 1 /\ chain'.steps[1].text = received'
        BY <1>6, <3>3, <3>5
      <4>2. at \in [1..2 -> 0..Len(received')] /\ at[1] = 0 /\ at[2] = Len(received')  BY <4>1
      <4> HIDE DEF at
      <4>3. SubSeq(received', 1, 0) = <<>>  BY <1>6, SubSeqEmpty
      <4>4. SubSeq(received', 0 + 1, Len(received')) = received'  BY <1>6, SubSeqFull
      <4>5. Parts(received', spill'.text, chain'.steps, at)
        BY <4>1, <4>2, <4>3, <4>4, <3>4 DEF Parts
      <4> QED BY <4>5 DEF at
    <3>7. SpillHolds'
      <4>1. Len(chain'.steps) = 1 /\ chain'.steps # <<>> /\ Head(chain'.steps) = first  BY <3>5
      <4>2. \A k \in 2..Len(chain'.steps) : FALSE  BY <4>1
      <4>3. \E at : Parts(received', spill'.text, chain'.steps, at)  BY <3>6
      <4>4. Head(chain'.steps).op = "create"  BY <4>1
      <4> HIDE DEF first
      <4> QED BY <3>4, <4>1, <4>2, <4>3, <4>4 DEF SpillHolds
    <3>8. CaptureTypes'  BY <1>5, <1>6, <1>7, <3>4, <3>5 DEF CaptureTypes
    <3> QED BY <1>9, <3>7, <3>8 DEF CaptureInv
  <2> QED BY <2>3, <2>4, <1>2
<1>11. CASE ~(OverLimit(received \o x) /\ ~spill.requested)
  <2>1. /\ UNCHANGED spill
        /\ IF spill.requested /\ ~broken THEN Chained(step) ELSE UNCHANGED chain
    BY <1>1, <1>11 DEF Keep
  <2>2. CASE ~spill.requested
    <3>1. UNCHANGED <<spill, chain>> /\ ~OverLimit(received')  BY <1>1, <1>11, <2>1, <2>2
    <3>2. SpillHolds'  BY <2>2, <3>1, <1>5 DEF CaptureInv, SpillHolds, Truncated
    <3>3. CaptureTypes'  BY <1>2, <1>5, <1>6, <1>7, <3>1 DEF CaptureTypes
    <3> QED BY <1>9, <3>2, <3>3 DEF CaptureInv
  <2>3. CASE spill.requested /\ (broken \/ chain.failed)
    <3>1. UNCHANGED <<spill, chain>>
      <4>1. CASE broken  BY <2>1, <4>1
      <4>2. CASE ~broken /\ chain.failed
        <5>1. chain' = [chain EXCEPT !.steps = chain.steps]  BY <2>1, <2>3, <4>2 DEF Chained
        <5> QED BY <5>1, <2>1, <1>2
      <4> QED BY <4>1, <4>2, <2>3
    <3>2. SpillHolds'  BY <2>3, <3>1, <1>5 DEF SpillHolds
    <3>3. CaptureTypes'  BY <1>2, <1>5, <1>6, <1>7, <3>1 DEF CaptureTypes
    <3> QED BY <1>9, <3>2, <3>3 DEF CaptureInv
  <2>4. CASE spill.requested /\ ~broken /\ ~chain.failed
    <3>1. chain' = [chain EXCEPT !.steps = Append(chain.steps, step)]
      BY <2>1, <2>4 DEF Chained
    <3> HIDE DEF step
    <3>2. /\ chain' \in [steps : Seq(StepRecord), failed : BOOLEAN]
          /\ chain'.steps = Append(chain.steps, step) /\ chain.steps \in Seq(StepRecord)
      <4>1. chain.steps \in Seq(StepRecord)  BY <1>2
      <4>2. Append(chain.steps, step) \in Seq(StepRecord)  BY <4>1, <1>8
      <4> QED BY <1>2, <3>1, <4>1, <4>2
    <3>3. /\ \E at : Parts(received, spill.text, chain.steps, at)
          /\ spill.created \/ (chain.steps # <<>> /\ Head(chain.steps).op = "create")
          /\ \A k \in 2..Len(chain.steps) : chain.steps[k].op # "create"
      BY <2>4 DEF CaptureInv, SpillHolds
    <3>4. \E at : Parts(received', spill'.text, chain'.steps, at)
      <4>1. PICK at : Parts(received, spill.text, chain.steps, at)  BY <3>3
      <4>2. \E to : Parts(received \o x, spill.text, Append(chain.steps, [op |-> "append", text |-> x]), to)
        BY <4>1, <1>2, <1>4, <3>2, PartsGrow
      <4> QED BY <4>2, <3>2, <1>1, <2>1 DEF step
    <3>5. chain.steps # <<>> => chain'.steps # <<>> /\ Head(chain'.steps) = Head(chain.steps)
      BY <1>8, <3>2
    <3>6. \A k \in 2..Len(chain'.steps) : chain'.steps[k].op # "create"
      <4> TAKE k \in 2..Len(chain'.steps)
      <4>1. CASE k <= Len(chain.steps)
        BY <4>1, <3>2, <3>3, <1>8
      <4>2. CASE k > Len(chain.steps)
        <5>1. k = Len(chain.steps) + 1 /\ chain'.steps[k] = step  BY <4>2, <3>2, <1>8
        <5> QED BY <5>1 DEF step
      <4> QED BY <4>1, <4>2, <3>2
    <3>7. SpillHolds'  BY <2>1, <2>4, <3>3, <3>4, <3>5, <3>6 DEF SpillHolds
    <3>8. CaptureTypes'  BY <1>2, <1>5, <1>6, <1>7, <2>1, <3>2 DEF CaptureTypes
    <3> QED BY <1>9, <3>7, <3>8 DEF CaptureInv
  <2> QED BY <2>2, <2>3, <2>4, <1>2
<1> QED BY <1>10, <1>11

\* The first step makes the file and stays in line to write; the others write.
LEMMA CaptureChain ==
  ASSUME CaptureInv, ChainStep
  PROVE  CaptureInv'
<1> DEFINE step == Head(chain.steps)
           rest == Tail(chain.steps)
           first == [op |-> "first", text |-> step.text]
<1>1. /\ received \in Seq(Nat) /\ tail = Trimmed(received) /\ written \in Nat
      /\ pipe \in [Streams -> Seq(Nat)]
      /\ spill \in [requested : BOOLEAN, created : BOOLEAN, text : Seq(Nat)]
      /\ chain \in [steps : Seq(StepRecord), failed : BOOLEAN]
      /\ broken \in BOOLEAN
  BY DEF CaptureInv, CaptureTypes
<1>2. chain.steps # <<>> /\ UNCHANGED <<pipe, received, tail, broken, result, written>>
  BY DEF ChainStep, processVars
<1>3. spill.requested  BY <1>2 DEF CaptureInv, SpillHolds
<1>4. ChainRun' /\ ~(Returned /\ result.tool # "error")
  BY <1>2 DEF CaptureInv, ChainRun, Returned
<1>5. chain.steps \in Seq(StepRecord) /\ step \in StepRecord /\ rest \in Seq(StepRecord)
      /\ step = chain.steps[1] /\ Len(rest) = Len(chain.steps) - 1 /\ Len(chain.steps) > 0
      /\ \A k \in 1..Len(rest) : rest[k] = chain.steps[k + 1]
  BY <1>1, <1>2, HeadTailProperties
<1>6. first \in StepRecord  BY <1>5 DEF StepRecord
<1>7. step.text \in Seq(Nat) /\ step.op \in {"create", "first", "append"}  BY <1>5 DEF StepRecord
<1>8. CASE chain' = [steps |-> <<>>, failed |-> TRUE] /\ UNCHANGED spill
  <2>1. chain' \in [steps : Seq(StepRecord), failed : BOOLEAN] /\ chain'.failed
    <3>1. <<>> \in Seq(StepRecord)  OBVIOUS
    <3> QED BY <1>8, <3>1
  <2>2. CaptureTypes'  BY <1>1, <1>2, <1>8, <2>1 DEF CaptureTypes
  <2>3. SpillHolds'  BY <1>3, <1>8, <2>1 DEF SpillHolds
  <2> QED BY <2>2, <2>3, <1>4 DEF CaptureInv
<1>9. CASE ~(chain' = [steps |-> <<>>, failed |-> TRUE] /\ UNCHANGED spill)
  <2>1. /\ spill' = CASE step.op = "create" -> [spill EXCEPT !.created = TRUE]
                      [] step.op = "append" /\ broken -> spill
                      [] OTHER -> [spill EXCEPT !.text = @ \o step.text]
        /\ chain' = [chain EXCEPT !.steps =
                       IF step.op = "create" THEN <<first>> \o rest ELSE rest]
    BY <1>9 DEF ChainStep
  <2> HIDE DEF step, rest, first
  <2>2. CASE step.op = "create"
    <3> DEFINE more == <<first>> \o rest
    <3>1. /\ more \in Seq(StepRecord) /\ Len(more) = Len(chain.steps)
          /\ more[1] = first /\ Head(more) = first
          /\ \A k \in 2..Len(chain.steps) : more[k] = chain.steps[k]
      <4>1. <<first>> \in Seq(StepRecord) /\ Len(<<first>>) = 1 /\ <<first>>[1] = first  BY <1>6
      <4>2. /\ more \in Seq(StepRecord) /\ Len(more) = 1 + Len(rest)
            /\ more[1] = first
            /\ \A i \in 1..Len(rest) : more[1 + i] = rest[i]
        BY <4>1, <1>5, Joined
      <4> HIDE DEF more
      <4>3. \A k \in 2..Len(chain.steps) : more[k] = chain.steps[k]
        <5> TAKE k \in 2..Len(chain.steps)
        <5>1. k - 1 \in 1..Len(rest) /\ 1 + (k - 1) = k /\ (k - 1) + 1 = k  BY <1>5
        <5> QED BY <5>1, <4>2, <1>5
      <4>4. Head(more) = more[1]  BY <4>2, <1>5
      <4> QED BY <4>2, <4>3, <4>4, <1>5
    <3> HIDE DEF more
    <3>2. chain' \in [steps : Seq(StepRecord), failed : BOOLEAN]
          /\ chain'.steps = more /\ chain'.failed = chain.failed
      BY <2>1, <2>2, <3>1, <1>1 DEF more
    <3>3. spill' \in [requested : BOOLEAN, created : BOOLEAN, text : Seq(Nat)]
          /\ spill'.created /\ spill'.text = spill.text /\ spill'.requested
      BY <2>1, <2>2, <1>1, <1>3
    <3>4. ASSUME NEW at, Parts(received, spill.text, chain.steps, at)
          PROVE  Parts(received, spill.text, more, at)
      <4>1. \A k \in 1..Len(more) : more[k].text = chain.steps[k].text
        <5> TAKE k \in 1..Len(more)
        <5>1. CASE k = 1
          BY <5>1, <3>1, <1>5 DEF first
        <5>2. CASE k # 1
          <6>1. k \in 2..Len(chain.steps)  BY <5>2, <3>1, <1>5
          <6> QED BY <6>1, <3>1
        <5> QED BY <5>1, <5>2
      <4> QED BY <4>1, <3>1, <3>4 DEF Parts
    <3>5. CaptureTypes'  BY <1>1, <1>2, <3>2, <3>3 DEF CaptureTypes
    <3>6. SpillHolds'
      <4>1. SUFFICES ASSUME ~broken', ~chain'.failed
                     PROVE  /\ \E at : Parts(received', spill'.text, chain'.steps, at)
                            /\ \A k \in 2..Len(chain'.steps) : chain'.steps[k].op # "create"
        BY <3>3 DEF SpillHolds
      <4>2. /\ \E at : Parts(received, spill.text, chain.steps, at)
            /\ \A k \in 2..Len(chain.steps) : chain.steps[k].op # "create"
        BY <4>1, <1>2, <1>3, <3>2 DEF CaptureInv, SpillHolds
      <4>3. \E at : Parts(received, spill.text, more, at)  BY <4>2, <3>4
      <4> QED BY <4>2, <4>3, <3>1, <3>2, <3>3, <1>2
    <3> QED BY <3>5, <3>6, <1>4 DEF CaptureInv
  <2>3. CASE step.op # "create"
    <3>1. chain' \in [steps : Seq(StepRecord), failed : BOOLEAN]
          /\ chain'.steps = rest /\ chain'.failed = chain.failed
      BY <2>1, <2>3, <1>1, <1>5
    <3>2. spill.text \o step.text \in Seq(Nat)  BY <1>1, <1>7
    <3>3. spill' \in [requested : BOOLEAN, created : BOOLEAN, text : Seq(Nat)]
          /\ spill'.requested /\ spill'.created = spill.created
          /\ (~broken => spill'.text = spill.text \o step.text)
      <4>1. CASE step.op = "append" /\ broken
        BY <4>1, <2>1, <2>3, <1>1, <1>3
      <4>2. CASE ~(step.op = "append" /\ broken)
        <5>1. spill' = [spill EXCEPT !.text = spill.text \o step.text]  BY <4>2, <2>1, <2>3
        <5> QED BY <5>1, <3>2, <1>1, <1>3
      <4> QED BY <4>1, <4>2
    <3>4. CaptureTypes'  BY <1>1, <1>2, <3>1, <3>3 DEF CaptureTypes
    <3>5. SpillHolds'
      <4>1. SUFFICES ASSUME ~broken', ~chain'.failed
                     PROVE  /\ \E at : Parts(received', spill'.text, chain'.steps, at)
                            /\ spill'.created
                            /\ \A k \in 2..Len(chain'.steps) : chain'.steps[k].op # "create"
        BY <3>3 DEF SpillHolds
      <4>2. /\ \E at : Parts(received, spill.text, chain.steps, at)
            /\ spill.created \/ Head(chain.steps).op = "create"
            /\ \A k \in 2..Len(chain.steps) : chain.steps[k].op # "create"
        BY <4>1, <1>2, <1>3, <3>1 DEF CaptureInv, SpillHolds
      <4>3. spill'.created  BY <4>2, <2>3, <3>3 DEF step
      <4>4. \A k \in 2..Len(rest) : rest[k].op # "create"
        <5> TAKE k \in 2..Len(rest)
        <5>1. k \in 1..Len(rest) /\ k + 1 \in 2..Len(chain.steps)  BY <1>5
        <5> QED BY <5>1, <1>5, <4>2
      <4>5. PICK at : Parts(received, spill.text, chain.steps, at)  BY <4>2
      <4>6. \E to : Parts(received, spill.text \o step.text, rest, to)
        <5> DEFINE text == spill.text
                   steps == chain.steps
        <5>1. /\ Len(rest) \in Nat /\ Len(steps) = Len(rest) + 1 /\ received \in Seq(Nat)
              /\ steps[1].text = step.text
          BY <1>5, <1>1
        <5>2. \A k \in 1..Len(rest) : rest[k] = steps[k + 1]  BY <1>5
        <5>3. Parts(received, text, steps, at)  BY <4>5
        <5> HIDE DEF text, steps
        <5>4. \E to : Parts(received, text \o steps[1].text, rest, to)
          BY <5>1, <5>2, <5>3, PartsShift
        <5> QED BY <5>4, <5>1 DEF text
      <4> QED BY <4>1, <4>3, <4>4, <4>6, <3>1, <3>3, <1>2
    <3> QED BY <3>4, <3>5, <1>4 DEF CaptureInv
  <2> QED BY <2>2, <2>3
<1> QED BY <1>8, <1>9

\* Every step of the command, the readers and the chain keeps the invariant.
LEMMA CaptureStep == CaptureInv /\ ShellTypes /\ [ShellNext]_shellVars => CaptureInv'
<1> SUFFICES ASSUME CaptureInv, ShellTypes, [ShellNext]_shellVars PROVE CaptureInv'
  OBVIOUS
<1> USE DEF processVars, captureVars
<1>1. /\ received \in Seq(Nat) /\ written \in Nat /\ pipe \in [Streams -> Seq(Nat)]
      /\ broken \in BOOLEAN /\ ChainRun
  BY DEF CaptureInv, CaptureTypes
<1>2. CASE Spawn
  <2>1. UNCHANGED <<captureVars, pipe, written>> /\ result.pc = "start"
        /\ result'.pc \in {"exec", "flush"}
    BY <1>2 DEF Spawn, ShellTypes
  <2> QED BY <1>1, <2>1, CaptureStays DEF ChainRun, Returned
<1>3. CASE ExecEnds
  <2>1. UNCHANGED <<received, tail, broken, pipe, written>> /\ result'.pc = "flush"
        /\ IF Truncated THEN Ensure(tail) ELSE UNCHANGED <<spill, chain>>
    BY <1>3 DEF ExecEnds, Waited, ShellTypes
  <2>2. Truncated => spill.requested \/ broken  BY DEF CaptureInv, SpillHolds
  <2>3. UNCHANGED <<spill, chain>>  BY <2>1, <2>2 DEF Ensure
  <2> QED BY <1>1, <2>1, <2>3, CaptureStays DEF ChainRun, Returned
<1>4. CASE ChainStep
  BY <1>4, CaptureChain
<1>5. CASE ToolEnds
  <2>1. UNCHANGED <<captureVars, pipe, written>> /\ chain.steps = <<>>
        /\ result'.pc = "over" /\ result'.tool = ToolOutcome
    BY <1>5 DEF ToolEnds, ShellTypes
  <2>2. ToolOutcome # "error" => ~chain.failed /\ ~broken  BY DEF ToolOutcome
  <2> QED BY <1>1, <2>1, <2>2, CaptureStays DEF ChainRun, Returned
<1>6. CASE UpdateLater
  BY <1>6, <1>1, CaptureStays DEF UpdateLater, ChainRun, Returned
<1>7. CASE TimerFires \/ AbortCommand \/ AbortSeen \/ Exit \/ ChildEnds
  <2>1. UNCHANGED <<captureVars, pipe, written, result>>
    BY <1>7 DEF TimerFires, AbortCommand, AbortSeen, Exit, ChildEnds
  <2> QED BY <1>1, <2>1, CaptureStays DEF ChainRun, Returned
<1>8. ASSUME NEW s \in Streams, Write(s) PROVE CaptureInv'
  <2>1. UNCHANGED <<captureVars, result>> /\ written' = written + 1
        /\ pipe' = [pipe EXCEPT ![s] = Append(@, written + 1)]
    BY <1>8 DEF Write
  <2>2. pipe' \in [Streams -> Seq(Nat)] /\ written' \in Nat
    <3>1. Append(pipe[s], written + 1) \in Seq(Nat)  BY <1>1
    <3> QED BY <1>1, <2>1, <3>1
  <2> QED BY <1>1, <2>1, <2>2, CaptureStays DEF ChainRun, Returned
<1>9. ASSUME NEW s \in Streams, Pump(s) PROVE CaptureInv'
  BY <1>9, CapturePump
<1>10. ASSUME NEW s \in Streams, ReadEnd(s) PROVE CaptureInv'
  BY <1>10, <1>1, CaptureStays DEF ReadEnd, ChainRun, Returned
<1>11. CASE UNCHANGED shellVars
  BY <1>11, <1>1, CaptureStays DEF shellVars, ChainRun, Returned
<1> QED
  BY <1>2, <1>3, <1>4, <1>5, <1>6, <1>7, <1>8, <1>9, <1>10, <1>11
     DEF ShellNext, CallStep, ReaderStep

\* A call that returned without an error has no step left to run, so the file
\* has the text to its last byte, and the buffer shows what the text would.
LEMMA CaptureComplete == CaptureInv => OutputComplete
<1> SUFFICES ASSUME CaptureInv, Returned, result.tool # "error"
             PROVE  /\ Truncated => spill.created /\ spill.text = received
                    /\ Output = IF Truncated THEN TruncateTail(received) ELSE received
  BY DEF OutputComplete
<1>1. received \in Seq(Nat) /\ tail = Trimmed(received)  BY DEF CaptureInv, CaptureTypes
<1>2. chain.steps = <<>> /\ ~chain.failed /\ ~broken  BY DEF CaptureInv, ChainRun
<1>3. CASE Truncated
  <2>1. spill.requested  BY <1>2, <1>3 DEF CaptureInv, SpillHolds
  <2>2. spill.created /\ \E at : Parts(received, spill.text, chain.steps, at)
    BY <1>2, <2>1 DEF CaptureInv, SpillHolds
  <2>3. spill.text = SubSeq(received, 1, Len(received))
    <3>1. PICK at : Parts(received, spill.text, chain.steps, at)  BY <2>2
    <3>2. Len(chain.steps) + 1 = 1  BY <1>2
    <3> QED BY <3>1, <3>2 DEF Parts
  <2>4. spill.text = received  BY <1>1, <2>3, SubSeqFull
  <2>5. TruncateTail(tail) = TruncateTail(received)  BY <1>1, <1>3, TailShows DEF Truncated
  <2> QED BY <1>3, <2>2, <2>4, <2>5 DEF Output
<1>4. CASE ~Truncated
  <2>1. tail = received  BY <1>1, <1>4, TailWhole DEF Truncated
  <2> QED BY <1>4, <2>1 DEF Output
<1> QED BY <1>3, <1>4

\* What the tool returns is the whole of what the command wrote to its readers,
\* or the last lines of it that the limits allow, with a file that has all of it
\* (shell_output.py, execute_shell_with_capture): whatever the chunks, the reads
\* between the steps of the chain that writes the file, and the limits.
THEOREM OutputsComplete == ShellSpec => []OutputComplete
<1>1. ShellInv => ShellTypes  BY DEF ShellInv
<1>2. CaptureInv /\ ShellInv /\ [ShellNext]_shellVars => CaptureInv' /\ ShellInv'
  BY <1>1, CaptureStep, ShellInvStep
<1> QED
  BY <1>2, CaptureInit, ShellInvInit, CaptureComplete, PTL DEF ShellSpec

-----------------------------------------------------------------------------
(* The proxy stream.                                                       *)

\* What a pushed event may be.
Steps == {"start", "delta", "end", "done", "error"}

ProxyTypes ==
  /\ wire \in [lines : Seq(Events), end : {"open", "closed", "broken"}]
  /\ task \in {"request", "reading", "cancelled", "done"}
  /\ request \in [set : BOOLEAN, inTime : BOOLEAN]
  /\ stream \in [over : BOOLEAN, last : {"none", "aborted"} \cup Steps]

\* The inductive invariant: a task that is done has ended the stream.
ProxyInv ==
  /\ ProxyTypes
  /\ request.inTime => request.set
  /\ task = "done" => stream.over
  /\ AbortEndsStream

LEMMA ProxyInvInit == ProxyInit => ProxyInv
  BY DEF ProxyInit, ProxyInv, ProxyTypes, AbortEndsStream

\* The stream ends with the reason, unless it had ended before.
LEMMA FailHolds ==
  ASSUME ProxyInv, NEW reason \in {"error", "aborted"}, Fail(reason),
         request.set => reason = "aborted", UNCHANGED request,
         wire' \in [lines : Seq(Events), end : {"open", "closed", "broken"}]
  PROVE  ProxyInv'
<1>1. stream' = IF stream.over THEN stream ELSE [over |-> TRUE, last |-> reason]
  BY DEF Fail, Push
<1>2. task' = "done"
  BY DEF Fail
<1>3. CASE stream.over
  BY <1>1, <1>2, <1>3 DEF ProxyInv, ProxyTypes, Steps, AbortEndsStream
<1>4. CASE ~stream.over
  BY <1>1, <1>2, <1>4 DEF ProxyInv, ProxyTypes, Steps, AbortEndsStream
<1> QED  BY <1>3, <1>4

LEMMA ProxyInvStep == ProxyInv /\ [ProxyNext]_proxyVars => ProxyInv'
<1> SUFFICES ASSUME ProxyInv, [ProxyNext]_proxyVars PROVE ProxyInv'
  OBVIOUS
<1>1. ASSUME Excepted, UNCHANGED request,
             wire' \in [lines : Seq(Events), end : {"open", "closed", "broken"}]
      PROVE  ProxyInv'
  <2>1. CASE request.set
    <3>1. Fail("aborted")
      BY <1>1, <2>1 DEF Excepted
    <3> QED  BY <1>1, <2>1, <3>1, FailHolds
  <2>2. CASE ~request.set
    <3>1. Fail("error")
      BY <1>1, <2>2 DEF Excepted
    <3> QED  BY <1>1, <2>2, <3>1, FailHolds
  <2> QED  BY <2>1, <2>2
<1>2. CASE \E event \in Events : Send(event)
  <2>1. PICK event \in Events : wire' = [wire EXCEPT !.lines = Append(@, event)]
    BY <1>2 DEF Send
  <2>2. Append(wire.lines, event) \in Seq(Events)
    BY AppendProperties DEF ProxyInv, ProxyTypes
  <2>3. wire' \in [lines : Seq(Events), end : {"open", "closed", "broken"}]
    BY <2>1, <2>2 DEF ProxyInv, ProxyTypes
  <2>4. UNCHANGED <<task, request, stream>>
    BY <1>2 DEF Send
  <2> QED  BY <2>3, <2>4 DEF ProxyInv, ProxyTypes, AbortEndsStream
<1>3. CASE \E how \in {"closed", "broken"} : EndResponse(how)
  BY <1>3 DEF EndResponse, ProxyInv, ProxyTypes, AbortEndsStream
<1>4. CASE AbortRequest
  BY <1>4 DEF AbortRequest, ProxyInv, ProxyTypes, AbortEndsStream
<1>5. CASE Respond
  BY <1>1, <1>5 DEF Respond, ProxyInv, ProxyTypes, AbortEndsStream
<1>6. CASE CancelOnAbort
  BY <1>6 DEF CancelOnAbort, ProxyInv, ProxyTypes, AbortEndsStream
<1>7. CASE ReadLine
  <2> DEFINE event == Head(wire.lines)
  <2>1. event \in Events /\ Tail(wire.lines) \in Seq(Events)
    BY <1>7 DEF ReadLine, ProxyInv, ProxyTypes
  <2>2. wire' \in [lines : Seq(Events), end : {"open", "closed", "broken"}] /\ request' = request
    BY <1>7, <2>1 DEF ReadLine, ProxyInv, ProxyTypes
  <2>3. CASE request.set \/ Refused(event)
    <3>1. request.set \/ ~Ignored(event)
      BY <2>3 DEF Refused
    <3>2. Excepted
      BY <1>7, <2>3, <3>1 DEF ReadLine
    <3> QED  BY <1>1, <2>2, <3>2
  <2>4. CASE ~request.set /\ ~Refused(event)
    <3>1. task' = task /\ task = "reading"
      BY <1>7, <2>4 DEF ReadLine
    <3>2. \/ stream' = stream
                \/ stream' = [over |-> event.step \in {"done", "error", "aborted"}, last |-> event.step]
      BY <1>7, <2>4 DEF ReadLine, Push
    <3>3. event.step \in Steps
      BY <2>1 DEF Events, Steps
    <3>4. stream' \in [over : BOOLEAN, last : {"none", "aborted"} \cup Steps]
      <4> HIDE DEF event
      <4>1. CASE stream' = stream
        BY <4>1 DEF ProxyInv, ProxyTypes
      <4>2. CASE stream' = [over |-> event.step \in {"done", "error", "aborted"}, last |-> event.step]
        <5>1. (event.step \in {"done", "error", "aborted"}) \in BOOLEAN
          OBVIOUS
        <5> QED  BY <3>3, <4>2, <5>1
      <4> QED  BY <3>2, <4>1, <4>2
    <3> QED
      BY <2>2, <2>4, <3>1, <3>4 DEF ProxyInv, ProxyTypes, AbortEndsStream
  <2> QED  BY <2>3, <2>4
<1>8. CASE ReadResponseEnd
  BY <1>1, <1>8 DEF ReadResponseEnd, ProxyInv, ProxyTypes, AbortEndsStream
<1>9. CASE Cancelled
  <2>1. Fail("aborted") /\ UNCHANGED <<wire, sent, request>>
    BY <1>9 DEF Cancelled
  <2> QED  BY <2>1, FailHolds DEF ProxyInv, ProxyTypes
<1>10. CASE UNCHANGED proxyVars
  BY <1>10 DEF proxyVars, ProxyInv, ProxyTypes, AbortEndsStream
<1> QED
  BY <1>2, <1>3, <1>4, <1>5, <1>6, <1>7, <1>8, <1>9, <1>10 DEF ProxyNext, ClientStep

\* A request aborted before its last event ends its stream as aborted, whatever
\* the server sends and wherever the task is cancelled.
THEOREM AbortsEndStreams == ProxySpec => []AbortEndsStream
<1>1. ProxyInv => AbortEndsStream
  BY DEF ProxyInv
<1> QED
  BY <1>1, ProxyInvInit, ProxyInvStep, PTL DEF ProxySpec

-----------------------------------------------------------------------------
(* The event bus.                                                          *)

Frame == [kind : {"direct", "watchers", "flush"}, event : Nat,
          left : SUBSET Everybody, pending : Seq(Nat), called : BOOLEAN]

Watched == [made : BOOLEAN, on : BOOLEAN, started : BOOLEAN, buffer : Seq(Nat)]

BusTypes ==
  /\ direct \in [sets : Seq(SUBSET Listeners), now : Nat,
                 of : [Listeners -> Nat], offs : [Listeners -> 0..2]]
  /\ watch \in [Watchers -> Watched]
  /\ stack \in Seq(Frame)
  /\ outer \in Seq(SUBSET Nat)
  /\ heard \in [Everybody -> Seq(Nat)]
  /\ joined \in [Everybody -> Nat]
  /\ missed \in [Everybody -> SUBSET Nat]
  /\ overtaken \in [Everybody -> SUBSET Nat]

\* A listener that has not left is in its set; and unless somebody has left
\* twice, a set that is no longer in use is empty.
SetsHold ==
  /\ direct.now \in 0..Len(direct.sets)
  /\ \A l \in Listeners :
       /\ direct.of[l] \in 0..Len(direct.sets)
       /\ direct.of[l] = 0 => direct.offs[l] = 0
       /\ direct.of[l] # 0 /\ direct.offs[l] = 0 => l \in direct.sets[direct.of[l]]
  /\ (\A l \in Listeners : direct.offs[l] < 2) =>
       \A s \in 1..Len(direct.sets) : s # direct.now => direct.sets[s] = {}

Emits(frame) == frame.kind \in {"direct", "watchers"}

\* A delivery is of an event of its own, around every event emitted since; a
\* flush is of one watcher.
FramesHold ==
  /\ \A i \in DOMAIN stack :
       /\ Emits(stack[i]) =>
            /\ stack[i].event \in 1..Emitted
            /\ \A k \in stack[i].event + 1..Emitted : stack[i].event \in outer[k]
       /\ stack[i].kind = "direct" => stack[i].left \subseteq Listeners
       /\ stack[i].kind = "watchers" => stack[i].left \subseteq Watchers
       /\ stack[i].kind = "flush" => \E w \in Watchers : stack[i].left = {w}
  /\ \A i, j \in DOMAIN stack :
       i # j /\ Emits(stack[i]) /\ Emits(stack[j]) => stack[i].event # stack[j].event

-----------------------------------------------------------------------------
(* What a subscriber x has been told of, in order, and what comes to it.   *)

\* The lists x will be told from: its buffer, and what each flush of it holds,
\* a flush inside another one before that.
Buffer(x) == IF x \in Watchers THEN watch[x].buffer ELSE <<>>
Flushes(x) == {i \in DOMAIN stack : stack[i].kind = "flush" /\ x \in stack[i].left}
Lists(x) == [s \in {0} \cup Flushes(x) |-> IF s = 0 THEN Buffer(x) ELSE stack[s].pending]

\* The events under way to x.
Expects(frame, x) ==
  \/ frame.kind = "direct" /\ x \in frame.left \cup Watchers
  \/ frame.kind = "watchers" /\ x \in frame.left
Coming(x) == {stack[i].event : i \in {j \in DOMAIN stack : Expects(stack[j], x)}}

Subscribed(x) ==
  IF x \in Watchers THEN watch[x].on
  ELSE direct.of[x] # 0 /\ \A l \in Listeners : direct.offs[l] < (IF l = x THEN 1 ELSE 2)

Started(x) == x \in Watchers => watch[x].started

\* That x hears of a and then of e is in order.
InOrder(out, held, a, e) == a # e /\ (a < e \/ e \in out[a] \/ e \in held)

\* All of s are in order, and all of s before all of t.
Orderly(out, held, s) ==
  \A i, j \in 1..Len(s) : i < j => InOrder(out, held, s[i], s[j])
Before(out, held, s, t) ==
  \A i \in 1..Len(s), j \in 1..Len(t) : InOrder(out, held, s[i], t[j])

\* What was heard and what is still to be told are in order, and what a flush
\* holds that is not the innermost has been noted as held.
Good(out, held, h, lists, started) ==
  /\ \A i \in 1..Len(h) : h[i] \in 1..Len(out)
  /\ Orderly(out, held, h)
  /\ \A s \in DOMAIN lists :
       /\ \A i \in 1..Len(lists[s]) : lists[s][i] \in 1..Len(out)
       /\ Orderly(out, held, lists[s])
       /\ Before(out, held, h, lists[s])
       /\ \A t \in DOMAIN lists : s < t => Before(out, held, lists[t], lists[s])
       /\ s # 0 /\ (started \/ \E t \in DOMAIN lists : s < t) =>
            \A i \in 1..Len(lists[s]) : lists[s][i] \in held
  /\ started => lists[0] = <<>>

\* Heard, or still to be told.
Knows(h, lists, e) == Contains(h, e) \/ \E s \in DOMAIN lists : Contains(lists[s], e)

\* None that is known is still on its way, and those since the subscription are
\* known, on their way or lost.
Complete(out, h, lists, coming, lost, from, subscribed) ==
  /\ \A e \in coming : ~Knows(h, lists, e)
  /\ subscribed =>
       \A e \in from + 1..Len(out) : e \in lost \/ e \in coming \/ Knows(h, lists, e)

Hears(x) ==
  /\ Good(outer, overtaken[x], heard[x], Lists(x), Started(x))
  /\ Complete(outer, heard[x], Lists(x), Coming(x), missed[x], joined[x], Subscribed(x))

\* The inductive invariant of the bus.
BusInv ==
  /\ BusTypes /\ SetsHold /\ FramesHold
  /\ \A x \in Everybody : Hears(x)

-----------------------------------------------------------------------------
(* How lists stay good, whatever they are of.                              *)

\* An event that was under way while later ones were emitted may follow any.
LEMMA ComesAfter ==
  ASSUME NEW out, NEW held, NEW a \in 1..Len(out), NEW e \in 1..Len(out), a # e,
         Len(out) \in Nat, \A k \in e + 1..Len(out) : e \in out[k]
  PROVE  InOrder(out, held, a, e)
<1>1. a < e \/ a \in e + 1..Len(out)
  OBVIOUS
<1> QED  BY <1>1 DEF InOrder

\* More events, more that is noted as held, fewer lists and shorter ones.
LEMMA GoodFewer ==
  ASSUME NEW out, NEW held, NEW h, NEW lists, NEW started,
         Good(out, held, h, lists, started),
         NEW out2, NEW held2, NEW lists2, NEW started2,
         \A a \in 1..Len(out) : a \in 1..Len(out2) /\ out2[a] = out[a],
         held \subseteq held2, DOMAIN lists2 \subseteq DOMAIN lists,
         \A s \in DOMAIN lists2 : lists2[s] = lists[s] \/ lists2[s] = <<>>,
         started2 => /\ lists2[0] = <<>>
                     /\ \A s \in DOMAIN lists2 : s # 0 =>
                          \/ started
                          \/ \E t \in DOMAIN lists : s < t
  PROVE  Good(out2, held2, h, lists2, started2)
<1>0. Len(<<>>) = 0
  BY EmptySeq
<1>1. \A a \in 1..Len(out) : \A e : InOrder(out, held, a, e) => InOrder(out2, held2, a, e)
  BY DEF InOrder
<1>2. \A i \in 1..Len(h) : h[i] \in 1..Len(out2)
  BY DEF Good
<1>3. Orderly(out2, held2, h)
  BY <1>1 DEF Good, Orderly
<1>4. ASSUME NEW s \in DOMAIN lists2
      PROVE  /\ \A i \in 1..Len(lists2[s]) : lists2[s][i] \in 1..Len(out2)
             /\ Orderly(out2, held2, lists2[s])
             /\ Before(out2, held2, h, lists2[s])
             /\ \A t \in DOMAIN lists2 : s < t => Before(out2, held2, lists2[t], lists2[s])
             /\ s # 0 /\ (started2 \/ \E t \in DOMAIN lists2 : s < t) =>
                  \A i \in 1..Len(lists2[s]) : lists2[s][i] \in held2
  <2>1. \A r \in DOMAIN lists2 : \A i \in 1..Len(lists2[r]) :
          r \in DOMAIN lists /\ lists2[r] = lists[r] /\ i \in 1..Len(lists[r])
    BY <1>0
  <2>2. \A i \in 1..Len(lists2[s]) : lists2[s][i] \in 1..Len(out2)
    BY <2>1 DEF Good
  <2>3. Orderly(out2, held2, lists2[s])
    <3>1. \A i, j \in 1..Len(lists2[s]) : i < j =>
            lists[s][i] \in 1..Len(out) /\ InOrder(out, held, lists[s][i], lists[s][j])
      BY <2>1 DEF Good, Orderly
    <3> QED  BY <1>1, <2>1, <3>1 DEF Orderly
  <2>4. Before(out2, held2, h, lists2[s])
    <3>1. \A i \in 1..Len(h), j \in 1..Len(lists2[s]) :
            h[i] \in 1..Len(out) /\ InOrder(out, held, h[i], lists[s][j])
      BY <2>1 DEF Good, Before
    <3> QED  BY <1>1, <2>1, <3>1 DEF Before
  <2>5. ASSUME NEW t \in DOMAIN lists2, s < t
        PROVE  Before(out2, held2, lists2[t], lists2[s])
    <3>1. \A i \in 1..Len(lists2[t]), j \in 1..Len(lists2[s]) :
            lists[t][i] \in 1..Len(out) /\ InOrder(out, held, lists[t][i], lists[s][j])
      BY <2>1, <2>5 DEF Good, Before
    <3> QED  BY <1>1, <2>1, <3>1 DEF Before
  <2>6. s # 0 /\ (started2 \/ \E t \in DOMAIN lists2 : s < t) =>
          \A i \in 1..Len(lists2[s]) : lists2[s][i] \in held2
    <3>1. s # 0 /\ (started2 \/ \E t \in DOMAIN lists2 : s < t) =>
            started \/ \E t \in DOMAIN lists : s < t
      OBVIOUS
    <3>2. s # 0 /\ (started \/ \E t \in DOMAIN lists : s < t) =>
            \A i \in 1..Len(lists2[s]) : lists[s][i] \in held
      BY <2>1 DEF Good
    <3> QED  BY <2>1, <3>1, <3>2
  <2> QED  BY <2>2, <2>3, <2>4, <2>5, <2>6
<1> QED  BY <1>2, <1>3, <1>4 DEF Good

\* What one more at the end does to a list.
LEMMA OneMore ==
  ASSUME NEW out, NEW held, NEW s \in Seq(Nat), NEW e \in Nat
  PROVE  /\ Append(s, e) \in Seq(Nat) /\ Append(s, e) # <<>>
         /\ \A d : Contains(Append(s, e), d) <=> Contains(s, d) \/ d = e
         /\ \A i \in 1..Len(Append(s, e)) :
              \/ i \in 1..Len(s) /\ Append(s, e)[i] = s[i]
              \/ i = Len(s) + 1 /\ Append(s, e)[i] = e
         /\ Orderly(out, held, s) /\ (\A i \in 1..Len(s) : InOrder(out, held, s[i], e)) =>
              Orderly(out, held, Append(s, e))
<1>1. /\ Len(s) \in Nat /\ Append(s, e) \in Seq(Nat) /\ Len(Append(s, e)) = Len(s) + 1
      /\ \A i \in 1..Len(s) : Append(s, e)[i] = s[i]
      /\ Append(s, e)[Len(s) + 1] = e
  BY AppendProperties, LenProperties
<1>2. Append(s, e) # <<>>
  BY <1>1, EmptySeq
<1> DEFINE t == Append(s, e)
<1> HIDE DEF t
<1>3. \A i \in 1..Len(t) : \/ i \in 1..Len(s) /\ t[i] = s[i]
                           \/ i = Len(s) + 1 /\ t[i] = e
  BY <1>1 DEF t
<1>4. \A d : Contains(t, d) <=> Contains(s, d) \/ d = e
  <2>1. Len(s) + 1 \in 1..Len(t) /\ \A i \in 1..Len(s) : i \in 1..Len(t) /\ t[i] = s[i]
    BY <1>1 DEF t
  <2>2. t[Len(s) + 1] = e
    BY <1>1 DEF t
  <2> QED  BY <1>3, <2>1, <2>2 DEF Contains
<1>5. ASSUME Orderly(out, held, s), \A i \in 1..Len(s) : InOrder(out, held, s[i], e)
      PROVE  Orderly(out, held, t)
  <2> SUFFICES ASSUME NEW i \in 1..Len(t), NEW j \in 1..Len(t), i < j
               PROVE  InOrder(out, held, t[i], t[j])
    BY DEF Orderly
  <2>1. i \in 1..Len(s) /\ t[i] = s[i]
    BY <1>1, <1>3 DEF t
  <2> QED  BY <1>3, <1>5, <2>1 DEF Orderly
<1> QED  BY <1>1, <1>2, <1>3, <1>4, <1>5 DEF t

\* And one less at the beginning.
LEMMA OneLess ==
  ASSUME NEW s \in Seq(Nat), s # <<>>
  PROVE  /\ Head(s) = s[1] /\ 1 \in 1..Len(s) /\ Head(s) \in Nat /\ Tail(s) \in Seq(Nat)
         /\ \A i \in 1..Len(Tail(s)) : /\ i + 1 \in 1..Len(s) /\ i \in Nat /\ 1 < i + 1
                                       /\ Tail(s)[i] = s[i + 1]
         /\ \A d : Contains(s, d) <=> d = Head(s) \/ Contains(Tail(s), d)
<1>1. /\ Head(s) \in Nat /\ Tail(s) \in Seq(Nat) /\ Len(s) \in Nat \ {0}
      /\ Len(Tail(s)) = Len(s) - 1
      /\ \A i \in 1..Len(Tail(s)) : Tail(s)[i] = s[i + 1]
      /\ Head(s) = s[1]
  BY HeadTailProperties, EmptySeq, LenProperties
<1>2. 1 \in 1..Len(s) /\ \A i \in 1..Len(Tail(s)) : i + 1 \in 1..Len(s) /\ i \in Nat /\ 1 < i + 1
  BY <1>1
<1>3. \A d : Contains(s, d) <=> d = Head(s) \/ Contains(Tail(s), d)
  <2>1. ASSUME NEW i \in 1..Len(s), i # 1 PROVE i - 1 \in 1..Len(Tail(s)) /\ i = (i - 1) + 1
    BY <1>1, <2>1
  <2> QED  BY <1>1, <1>2, <2>1 DEF Contains
<1> QED  BY <1>1, <1>2, <1>3

\* Who is started is told of the next event at once.
LEMMA GoodHear ==
  ASSUME NEW out, Len(out) \in Nat, NEW held, NEW h \in Seq(Nat), NEW lists, NEW started,
         Good(out, held, h, lists, started), started, NEW e \in 1..Len(out), ~Knows(h, lists, e),
         \A k \in e + 1..Len(out) : e \in out[k]
  PROVE  Good(out, held, Append(h, e), lists, started)
<1> DEFINE t == Append(h, e)
<1>1. /\ \A i \in 1..Len(t) : \/ i \in 1..Len(h) /\ t[i] = h[i]
                              \/ i = Len(h) + 1 /\ t[i] = e
      /\ Orderly(out, held, h) /\ (\A i \in 1..Len(h) : InOrder(out, held, h[i], e)) =>
           Orderly(out, held, t)
  BY OneMore
<1> HIDE DEF t
<1>2. \A i \in 1..Len(h) : h[i] \in 1..Len(out) /\ h[i] # e
  BY DEF Good, Knows, Contains
<1>3. \A i \in 1..Len(h) : InOrder(out, held, h[i], e)
  BY <1>2, ComesAfter
<1>4. \A i \in 1..Len(t) : t[i] \in 1..Len(out)
  BY <1>1, <1>2
<1>5. Orderly(out, held, t)
  BY <1>1, <1>3 DEF Good
<1>6. ASSUME NEW s \in DOMAIN lists PROVE Before(out, held, t, lists[s])
  <2>1. \A j \in 1..Len(lists[s]) : lists[s][j] # e /\ s # 0 /\ lists[s][j] \in held
    <3>1. s = 0 => Len(lists[s]) = 0
      BY EmptySeq DEF Good
    <3>2. \A j \in 1..Len(lists[s]) : s # 0
      BY <3>1
    <3> QED  BY <3>2 DEF Good, Knows, Contains
  <2>2. \A j \in 1..Len(lists[s]) : InOrder(out, held, e, lists[s][j])
    BY <2>1 DEF InOrder
  <2>3. Before(out, held, h, lists[s])
    BY DEF Good
  <2> QED  BY <1>1, <2>2, <2>3 DEF Before
<1>7. Good(out, held, t, lists, started)
  BY <1>4, <1>5, <1>6 DEF Good
<1> QED  BY <1>7 DEF t

\* Who is not finds it in the buffer.
LEMMA GoodBuffer ==
  ASSUME NEW out, Len(out) \in Nat, NEW held, NEW h, NEW lists, NEW started, ~started,
         0 \in DOMAIN lists, lists[0] \in Seq(Nat), \A s \in DOMAIN lists : s \in Nat,
         Good(out, held, h, lists, started), NEW e \in 1..Len(out), ~Knows(h, lists, e),
         \A k \in e + 1..Len(out) : e \in out[k],
         NEW lists2, DOMAIN lists2 = DOMAIN lists,
         \A s \in DOMAIN lists : lists2[s] = IF s = 0 THEN Append(lists[0], e) ELSE lists[s]
  PROVE  Good(out, held, h, lists2, started)
<1>1. \A a \in 1..Len(out) : a # e => InOrder(out, held, a, e)
  BY ComesAfter
<1>2. /\ \A i \in 1..Len(lists2[0]) : \/ i \in 1..Len(lists[0]) /\ lists2[0][i] = lists[0][i]
                                      \/ lists2[0][i] = e
      /\ Orderly(out, held, lists[0]) /\ (\A i \in 1..Len(lists[0]) : InOrder(out, held, lists[0][i], e)) =>
           Orderly(out, held, lists2[0])
  <2>1. lists2[0] = Append(lists[0], e) /\ e \in Nat
    OBVIOUS
  <2> QED  BY <2>1, OneMore
<1>3. \A s \in DOMAIN lists : \A i \in 1..Len(lists[s]) :
        lists[s][i] # e /\ lists[s][i] \in 1..Len(out) /\ InOrder(out, held, lists[s][i], e)
  BY <1>1 DEF Good, Knows, Contains
<1>4. \A i \in 1..Len(h) : h[i] # e /\ InOrder(out, held, h[i], e)
  BY <1>1 DEF Good, Knows, Contains
<1>5. ASSUME NEW s \in DOMAIN lists2
      PROVE  /\ \A i \in 1..Len(lists2[s]) : lists2[s][i] \in 1..Len(out)
             /\ Orderly(out, held, lists2[s])
             /\ Before(out, held, h, lists2[s])
             /\ \A t \in DOMAIN lists2 : s < t => Before(out, held, lists2[t], lists2[s])
             /\ s # 0 /\ (\E t \in DOMAIN lists2 : s < t) =>
                  \A i \in 1..Len(lists2[s]) : lists2[s][i] \in held
  <2>1. CASE s # 0
    <3>1. lists2[s] = lists[s] /\ \A t \in DOMAIN lists2 : s < t => t # 0 /\ lists2[t] = lists[t]
      BY <2>1
    <3> QED  BY <2>1, <3>1 DEF Good
  <2>2. CASE s = 0
    <3>1. \A i \in 1..Len(lists2[s]) : lists2[s][i] \in 1..Len(out)
      BY <1>2, <1>3, <2>2
    <3>2. Orderly(out, held, lists2[s])
      BY <1>2, <1>3, <2>2 DEF Good
    <3>3. Before(out, held, h, lists2[s])
      BY <1>2, <1>4, <2>2 DEF Good, Before
    <3>4. ASSUME NEW t \in DOMAIN lists2, s < t PROVE Before(out, held, lists2[t], lists2[s])
      <4>1. lists2[t] = lists[t] /\ Before(out, held, lists[t], lists[0])
        BY <2>2, <3>4 DEF Good
      <4> QED  BY <1>2, <1>3, <2>2, <4>1, SMTT(30) DEF Before
    <3> QED  BY <2>2, <3>1, <3>2, <3>3, <3>4
  <2> QED  BY <2>1, <2>2
<1> QED  BY <1>5 DEF Good

\* The innermost flush tells the first of what it holds.
LEMMA GoodTell ==
  ASSUME NEW out, NEW held, NEW h \in Seq(Nat), NEW lists, NEW started,
         Good(out, held, h, lists, started),
         NEW f \in DOMAIN lists, lists[f] \in Seq(Nat), lists[f] # <<>>, f # 0, 0 \in DOMAIN lists,
         \A s \in DOMAIN lists : s \in Nat /\ s <= f,
         NEW lists2, DOMAIN lists2 = DOMAIN lists,
         \A s \in DOMAIN lists : lists2[s] = IF s = f THEN Tail(lists[f]) ELSE lists[s]
  PROVE  Good(out, held, Append(h, Head(lists[f])), lists2, started)
<1> DEFINE e == Head(lists[f])
           t == Append(h, e)
<1>1. /\ e = lists[f][1] /\ 1 \in 1..Len(lists[f]) /\ e \in Nat
      /\ \A i \in 1..Len(lists2[f]) : /\ i + 1 \in 1..Len(lists[f]) /\ i \in Nat /\ 1 < i + 1
                                      /\ lists2[f][i] = lists[f][i + 1]
  <2>1. lists2[f] = Tail(lists[f])
    OBVIOUS
  <2> QED  BY <2>1, OneLess
<1> HIDE DEF e
<1>2. /\ \A i \in 1..Len(t) : \/ i \in 1..Len(h) /\ t[i] = h[i]
                              \/ i = Len(h) + 1 /\ t[i] = e
      /\ Orderly(out, held, h) /\ (\A i \in 1..Len(h) : InOrder(out, held, h[i], e)) =>
           Orderly(out, held, t)
  <2>1. e \in Nat
    BY <1>1
  <2> QED  BY <2>1, OneMore DEF t
<1> HIDE DEF t
<1>3. \A i \in 1..Len(h) : InOrder(out, held, h[i], e)
  BY <1>1 DEF Good, Before
<1>4. Orderly(out, held, t) /\ \A i \in 1..Len(t) : t[i] \in 1..Len(out)
  BY <1>1, <1>2, <1>3 DEF Good
<1>5. \A s \in DOMAIN lists : \A j \in 1..Len(lists2[s]) : InOrder(out, held, e, lists2[s][j])
  <2> TAKE s \in DOMAIN lists
  <2>1. CASE s = f
    BY <1>1, <2>1 DEF Good, Orderly
  <2>2. CASE s # f
    <3>1. s < f /\ lists2[s] = lists[s]
      BY <2>2
    <3> QED  BY <1>1, <3>1 DEF Good, Before
  <2> QED  BY <2>1, <2>2
<1>6. \A s \in DOMAIN lists : Before(out, held, h, lists2[s])
  <2> TAKE s \in DOMAIN lists
  <2>1. Before(out, held, h, lists[s])
    BY DEF Good
  <2>2. CASE s = f
    BY <1>1, <2>1, <2>2 DEF Before
  <2>3. CASE s # f
    BY <2>1, <2>3
  <2> QED  BY <2>2, <2>3
<1>7. ASSUME NEW s \in DOMAIN lists2
      PROVE  /\ \A i \in 1..Len(lists2[s]) : lists2[s][i] \in 1..Len(out)
             /\ Orderly(out, held, lists2[s])
             /\ Before(out, held, t, lists2[s])
             /\ \A r \in DOMAIN lists2 : s < r => Before(out, held, lists2[r], lists2[s])
             /\ s # 0 /\ (started \/ \E r \in DOMAIN lists2 : s < r) =>
                  \A i \in 1..Len(lists2[s]) : lists2[s][i] \in held
  <2>1. Before(out, held, t, lists2[s])
    BY <1>2, <1>5, <1>6, ZenonT(30) DEF Before
  <2>2. CASE s = f
    <3>1. \A i \in 1..Len(lists2[s]) : lists2[s][i] \in 1..Len(out)
      BY <1>1, <2>2 DEF Good
    <3>2. Orderly(out, held, lists2[s])
      BY <1>1, <2>2 DEF Good, Orderly
    <3>3. \A r \in DOMAIN lists2 : ~(s < r)
      BY <2>2
    <3>4. started => \A i \in 1..Len(lists2[s]) : lists2[s][i] \in held
      BY <1>1, <2>2 DEF Good
    <3> QED  BY <2>1, <3>1, <3>2, <3>3, <3>4
  <2>3. CASE s # f
    <3>1. lists2[s] = lists[s]
      BY <2>3
    <3>2. ASSUME NEW r \in DOMAIN lists2, s < r PROVE Before(out, held, lists2[r], lists2[s])
      <4>1. Before(out, held, lists[r], lists[s])
        BY <3>2 DEF Good
      <4>2. CASE r = f
        BY <1>1, <3>1, <4>1, <4>2 DEF Before
      <4>3. CASE r # f
        BY <3>1, <4>1, <4>3
      <4> QED  BY <4>2, <4>3
    <3> QED  BY <2>1, <3>1, <3>2 DEF Good
  <2> QED  BY <2>2, <2>3
<1>8. started => lists2[0] = <<>>
  <2>1. lists2[0] = lists[0]
    OBVIOUS
  <2> QED  BY <2>1 DEF Good
<1>9. Good(out, held, t, lists2, started)
  BY <1>4, <1>7, <1>8 DEF Good
<1> QED  BY <1>9 DEF t, e

\* With nothing left to tell it takes the buffer.
LEMMA GoodTake ==
  ASSUME NEW out, NEW held, NEW h, NEW lists, NEW started,
         Good(out, held, h, lists, started), 0 \in DOMAIN lists, lists[0] # <<>>,
         NEW f \in DOMAIN lists, f # 0, \A s \in DOMAIN lists : s \in Nat /\ s <= f,
         NEW lists2, DOMAIN lists2 = DOMAIN lists,
         \A s \in DOMAIN lists :
           lists2[s] = IF s = f THEN lists[0] ELSE IF s = 0 THEN <<>> ELSE lists[s]
  PROVE  Good(out, held, h, lists2, started)
<1>0. ~started /\ Len(<<>>) = 0
  BY EmptySeq DEF Good
<1>1. ASSUME NEW s \in DOMAIN lists2
      PROVE  /\ \A i \in 1..Len(lists2[s]) : lists2[s][i] \in 1..Len(out)
             /\ Orderly(out, held, lists2[s])
             /\ Before(out, held, h, lists2[s])
             /\ \A t \in DOMAIN lists2 : s < t => Before(out, held, lists2[t], lists2[s])
             /\ s # 0 /\ (\E t \in DOMAIN lists2 : s < t) =>
                  \A i \in 1..Len(lists2[s]) : lists2[s][i] \in held
  <2>1. CASE s = f
    <3>1. lists2[s] = lists[0] /\ \A t \in DOMAIN lists2 : ~(s < t)
      BY <2>1
    <3> QED  BY <3>1 DEF Good
  <2>2. CASE s = 0
    <3>1. lists2[s] = <<>>
      BY <2>2
    <3>2. 1..Len(lists2[s]) = {}
      BY <1>0, <3>1
    <3> QED  BY <2>2, <3>2 DEF Orderly, Before
  <2>3. CASE s # f /\ s # 0
    <3>1. lists2[s] = lists[s] /\ s < f /\ 0 < s
      BY <2>3
    <3>2. \A i \in 1..Len(lists[s]) : lists[s][i] \in held
      BY <2>3, <3>1 DEF Good
    <3>3. ASSUME NEW t \in DOMAIN lists2, s < t PROVE Before(out, held, lists2[t], lists2[s])
      <4>1. CASE t = f
        <5>1. Before(out, held, lists[s], lists[0])
          BY <3>1 DEF Good
        <5>2. \A i \in 1..Len(lists[0]), j \in 1..Len(lists[s]) :
                InOrder(out, held, lists[0][i], lists[s][j])
          BY <3>2, <5>1 DEF Before, InOrder
        <5> QED  BY <3>1, <4>1, <5>2 DEF Before
      <4>2. CASE t # f
        <5>1. lists2[t] = lists[t]
          BY <3>1, <3>3, <4>2
        <5> QED  BY <3>1, <3>3, <5>1 DEF Good
      <4> QED  BY <4>1, <4>2
    <3> QED  BY <3>1, <3>2, <3>3 DEF Good
  <2> QED  BY <2>1, <2>2, <2>3
<1> QED  BY <1>0, <1>1 DEF Good

\* A start inside the others: all they hold is noted.
LEMMA GoodPush ==
  ASSUME NEW out, NEW held, NEW h, NEW lists, NEW started,
         Good(out, held, h, lists, started), \A s \in DOMAIN lists : s \in Nat,
         0 \in DOMAIN lists,
         NEW n \in Nat, \A s \in DOMAIN lists : s < n,
         NEW held2, held \subseteq held2,
         \A s \in DOMAIN lists : s # 0 => \A i \in 1..Len(lists[s]) : lists[s][i] \in held2,
         NEW lists2, DOMAIN lists2 = DOMAIN lists \cup {n}, lists2[n] = <<>>,
         \A s \in DOMAIN lists : lists2[s] = lists[s]
  PROVE  Good(out, held2, h, lists2, started)
<1>0. Len(<<>>) = 0 /\ n \notin DOMAIN lists
  BY EmptySeq
<1>1. Good(out, held2, h, lists, started)
  <2>1. started => lists[0] = <<>>
    BY DEF Good
  <2> QED  BY <2>1, GoodFewer
<1>2. ASSUME NEW s \in DOMAIN lists2
      PROVE  /\ \A i \in 1..Len(lists2[s]) : lists2[s][i] \in 1..Len(out)
             /\ Orderly(out, held2, lists2[s])
             /\ Before(out, held2, h, lists2[s])
             /\ \A t \in DOMAIN lists2 : s < t => Before(out, held2, lists2[t], lists2[s])
             /\ s # 0 /\ (started \/ \E t \in DOMAIN lists2 : s < t) =>
                  \A i \in 1..Len(lists2[s]) : lists2[s][i] \in held2
  <2>1. CASE s = n
    <3>1. 1..Len(lists2[s]) = {}
      BY <1>0, <2>1
    <3> QED  BY <3>1 DEF Orderly, Before
  <2>2. CASE s # n
    <3>1. s \in DOMAIN lists /\ lists2[s] = lists[s]
      BY <2>2
    <3>2. ASSUME NEW t \in DOMAIN lists2, s < t PROVE Before(out, held2, lists2[t], lists2[s])
      <4>1. CASE t = n
        <5>1. 1..Len(lists2[t]) = {}
          BY <1>0, <4>1
        <5> QED  BY <5>1 DEF Before
      <4>2. CASE t # n
        BY <1>1, <3>1, <3>2, <4>2 DEF Good
      <4> QED  BY <4>1, <4>2
    <3> QED  BY <1>1, <3>1, <3>2 DEF Good
  <2> QED  BY <2>1, <2>2
<1>3. started => lists2[0] = <<>>
  BY <1>1 DEF Good
<1> QED  BY <1>1, <1>2, <1>3 DEF Good

(* And what is known from them.                                            *)

LEMMA KnowsHear ==
  ASSUME NEW h \in Seq(Nat), NEW lists, NEW e \in Nat
  PROVE  \A d : Knows(Append(h, e), lists, d) <=> Knows(h, lists, d) \/ d = e
  BY OneMore DEF Knows

LEMMA KnowsBuffer ==
  ASSUME NEW h, NEW lists, 0 \in DOMAIN lists, lists[0] \in Seq(Nat), NEW e \in Nat,
         NEW lists2, DOMAIN lists2 = DOMAIN lists,
         \A s \in DOMAIN lists : lists2[s] = IF s = 0 THEN Append(lists[0], e) ELSE lists[s]
  PROVE  \A d : Knows(h, lists2, d) <=> Knows(h, lists, d) \/ d = e
<1>1. \A d : Contains(Append(lists[0], e), d) <=> Contains(lists[0], d) \/ d = e
  BY OneMore
<1>2. \A d : Contains(lists2[0], d) <=> Contains(lists[0], d) \/ d = e
  BY <1>1
<1> QED  BY <1>2 DEF Knows

LEMMA KnowsTell ==
  ASSUME NEW h \in Seq(Nat), NEW lists,
         NEW f \in DOMAIN lists, lists[f] \in Seq(Nat), lists[f] # <<>>,
         NEW lists2, DOMAIN lists2 = DOMAIN lists,
         \A s \in DOMAIN lists : lists2[s] = IF s = f THEN Tail(lists[f]) ELSE lists[s]
  PROVE  \A d : Knows(Append(h, Head(lists[f])), lists2, d) <=> Knows(h, lists, d)
<1>1. \A d : Contains(lists[f], d) <=> d = Head(lists[f]) \/ Contains(lists2[f], d)
  <2>1. lists2[f] = Tail(lists[f])
    OBVIOUS
  <2> QED  BY <2>1, OneLess
<1>2. \A d : Contains(Append(h, Head(lists[f])), d) <=> Contains(h, d) \/ d = Head(lists[f])
  <2>1. Head(lists[f]) \in Nat
    BY OneLess
  <2> QED  BY <2>1, OneMore
<1>3. \A s \in DOMAIN lists : s # f => lists2[s] = lists[s]
  OBVIOUS
<1> QED  BY <1>1, <1>2, <1>3 DEF Knows

LEMMA KnowsTake ==
  ASSUME NEW h, NEW lists, NEW f \in DOMAIN lists, 0 \in DOMAIN lists, f # 0,
         lists[f] = <<>>, NEW lists2, DOMAIN lists2 = DOMAIN lists,
         \A s \in DOMAIN lists :
           lists2[s] = IF s = f THEN lists[0] ELSE IF s = 0 THEN <<>> ELSE lists[s]
  PROVE  \A d : Knows(h, lists2, d) <=> Knows(h, lists, d)
<1>1. \A d : ~Contains(lists[f], d) /\ ~Contains(lists2[0], d)
  BY EmptySeq DEF Contains
<1>2. lists2[f] = lists[0]
  OBVIOUS
<1>3. \A s \in DOMAIN lists : s # f /\ s # 0 => lists2[s] = lists[s]
  OBVIOUS
<1> QED  BY <1>1, <1>2, <1>3 DEF Knows

LEMMA KnowsPush ==
  ASSUME NEW h, NEW lists, NEW n, n \notin DOMAIN lists,
         NEW lists2, DOMAIN lists2 = DOMAIN lists \cup {n}, lists2[n] = <<>>,
         \A s \in DOMAIN lists : lists2[s] = lists[s]
  PROVE  \A d : Knows(h, lists2, d) <=> Knows(h, lists, d)
<1>1. \A d : ~Contains(lists2[n], d)
  BY EmptySeq DEF Contains
<1> QED  BY <1>1 DEF Knows

LEMMA KnowsFewer ==
  ASSUME NEW h, NEW lists, NEW lists2, DOMAIN lists2 \subseteq DOMAIN lists,
         \A s \in DOMAIN lists2 : lists2[s] = lists[s] \/ lists2[s] = <<>>,
         NEW gone, \A s \in DOMAIN lists : \A d :
           Contains(lists[s], d) => d \in gone \/ (s \in DOMAIN lists2 /\ lists2[s] = lists[s])
  PROVE  \A d : /\ Knows(h, lists2, d) => Knows(h, lists, d)
                /\ Knows(h, lists, d) => Knows(h, lists2, d) \/ d \in gone
<1>1. \A d : ~Contains(<<>>, d)
  BY EmptySeq DEF Contains
<1> QED  BY <1>1 DEF Knows

\* Nothing new: what is no longer on its way, or known, is lost.
LEMMA CompleteLess ==
  ASSUME NEW out, NEW h, NEW lists, NEW coming, NEW lost, NEW from, NEW subscribed,
         Complete(out, h, lists, coming, lost, from, subscribed),
         NEW h2, NEW lists2, NEW coming2, NEW lost2, NEW subscribed2,
         \A d : Knows(h2, lists2, d) => Knows(h, lists, d),
         coming2 \subseteq coming, lost \subseteq lost2,
         subscribed2 => /\ subscribed /\ coming \subseteq coming2 \cup lost2
                        /\ \A d : Knows(h, lists, d) => Knows(h2, lists2, d) \/ d \in lost2
  PROVE  Complete(out, h2, lists2, coming2, lost2, from, subscribed2)
  BY DEF Complete

\* One that was on its way has arrived.
LEMMA CompleteNext ==
  ASSUME NEW out, NEW h, NEW lists, NEW coming, NEW lost, NEW from, NEW subscribed,
         Complete(out, h, lists, coming, lost, from, subscribed),
         NEW h2, NEW lists2, NEW e,
         \A d : Knows(h2, lists2, d) <=> Knows(h, lists, d) \/ d = e
  PROVE  Complete(out, h2, lists2, coming \ {e}, lost, from, subscribed)
  BY DEF Complete

-----------------------------------------------------------------------------
(* How the frames change: pushed, replaced at the top, popped.             *)

Here(frame, x) == IF Expects(frame, x) THEN {frame.event} ELSE {}
Below(x) == {stack[i].event : i \in {j \in DOMAIN stack \ {Len(stack)} : Expects(stack[j], x)}}

LEMMA StackTop ==
  ASSUME BusTypes, FramesHold, stack # <<>>
  PROVE  /\ Len(stack) \in Nat \ {0} /\ Len(stack) \in DOMAIN stack
         /\ Top = stack[Len(stack)] /\ Top \in Frame
         /\ Top.event \in Nat /\ Top.left \in SUBSET Everybody /\ Top.pending \in Seq(Nat)
         /\ \A x : Coming(x) = Below(x) \cup Here(Top, x)
         /\ Emits(Top) => \A x : Top.event \notin Below(x)
<1>1. /\ Len(stack) \in Nat \ {0} /\ DOMAIN stack = 1..Len(stack)
      /\ Top = stack[Len(stack)] /\ Top \in Frame
  BY EmptySeq, LenProperties, ElementOfSeq DEF BusTypes, Top
<1>2. Top.event \in Nat /\ Top.left \in SUBSET Everybody /\ Top.pending \in Seq(Nat)
  BY <1>1 DEF Frame
<1>3. \A x : Coming(x) = Below(x) \cup Here(Top, x)
  BY <1>1 DEF Coming, Below, Here
<1>4. Emits(Top) => \A x : Top.event \notin Below(x)
  BY <1>1 DEF Below, FramesHold, Emits, Expects
<1> QED  BY <1>1, <1>2, <1>3, <1>4

LEMMA Pushed ==
  ASSUME BusTypes, NEW frame \in Frame, stack' = Append(stack, frame)
  PROVE  /\ stack' \in Seq(Frame) /\ Len(stack) \in Nat
         /\ DOMAIN stack = 1..Len(stack) /\ DOMAIN stack' = DOMAIN stack \cup {Len(stack) + 1}
         /\ \A i \in DOMAIN stack : stack'[i] = stack[i] /\ i # Len(stack) + 1
         /\ stack'[Len(stack) + 1] = frame
         /\ \A x : Coming(x)' = Coming(x) \cup Here(frame, x)
<1>1. /\ stack' \in Seq(Frame) /\ Len(stack) \in Nat
      /\ DOMAIN stack = 1..Len(stack) /\ Len(stack') = Len(stack) + 1
      /\ DOMAIN stack' = 1..Len(stack')
      /\ \A i \in 1..Len(stack) : stack'[i] = stack[i]
      /\ stack'[Len(stack) + 1] = frame
  BY AppendProperties, LenProperties DEF BusTypes
<1>2. DOMAIN stack' = DOMAIN stack \cup {Len(stack) + 1} /\ Len(stack) + 1 \notin DOMAIN stack
  BY <1>1
<1>3. \A x : Coming(x)' = Coming(x) \cup Here(frame, x)
  BY <1>1, <1>2 DEF Coming, Here, Expects
<1> QED  BY <1>1, <1>2, <1>3

LEMMA Retopped ==
  ASSUME BusTypes, FramesHold, stack # <<>>, NEW frame \in Frame, Retop(frame)
  PROVE  /\ stack' \in Seq(Frame) /\ DOMAIN stack' = DOMAIN stack
         /\ \A i \in DOMAIN stack : stack'[i] = IF i = Len(stack) THEN frame ELSE stack[i]
         /\ \A x : Coming(x)' = Below(x) \cup Here(frame, x)
<1>1. Len(stack) \in 1..Len(stack)
  BY StackTop
<1>2. /\ stack' \in Seq(Frame) /\ DOMAIN stack' = DOMAIN stack
      /\ \A i \in DOMAIN stack : stack'[i] = IF i = Len(stack) THEN frame ELSE stack[i]
  BY <1>1, ExceptSeq, LenProperties DEF BusTypes, Retop
<1>3. \A x : Coming(x)' = Below(x) \cup Here(frame, x)
  <2> TAKE x
  <2>1. Len(stack) \in DOMAIN stack
    BY StackTop
  <2>2. Coming(x)' = {stack'[i].event : i \in {j \in DOMAIN stack' : Expects(stack'[j], x)}}
    BY DEF Coming, Expects
  <2> QED  BY <1>2, <2>1, <2>2 DEF Below, Here
<1> QED  BY <1>2, <1>3

LEMMA Popped ==
  ASSUME BusTypes, FramesHold, stack # <<>>, stack' = Front(stack)
  PROVE  /\ stack' \in Seq(Frame) /\ DOMAIN stack' = DOMAIN stack \ {Len(stack)}
         /\ \A i \in DOMAIN stack' : stack'[i] = stack[i]
         /\ \A x : Coming(x)' = Below(x)
<1>1. /\ Len(stack) \in Nat \ {0} /\ DOMAIN stack = 1..Len(stack)
      /\ \A i \in 1..Len(stack) - 1 : stack[i] \in Frame
  BY StackTop, LenProperties, ElementOfSeq DEF BusTypes
<1>2. /\ stack' \in Seq(Frame) /\ Len(stack') = Len(stack) - 1
      /\ \A i \in 1..Len(stack) - 1 : stack'[i] = stack[i]
  <2>1. /\ Len(stack) - 1 \in Int /\ (1 <= Len(stack) - 1 \/ Len(stack) - 1 = 0)
        /\ Len(stack) - 1 - 1 + 1 = Len(stack) - 1 /\ \A i \in 1..Len(stack) - 1 : 1 + i - 1 = i
    BY <1>1
  <2> QED  BY <1>1, <2>1, SubSeqProperties DEF Front
<1>3. DOMAIN stack' = DOMAIN stack \ {Len(stack)}
  <2>1. DOMAIN stack' = 1..Len(stack')
    BY <1>2, LenProperties
  <2> QED  BY <1>1, <1>2, <2>1
<1>4. \A i \in DOMAIN stack' : stack'[i] = stack[i]
  <2>1. \A n \in Nat : \A i \in 1..n : i # n => i \in 1..n - 1
    OBVIOUS
  <2> QED  BY <1>1, <1>2, <1>3, <2>1
<1>5. \A x : Coming(x)' = Below(x)
  BY <1>3, <1>4 DEF Coming, Below, Expects
<1> QED  BY <1>2, <1>3, <1>4, <1>5

\* What a step that begins no delivery and no flush owes the frames.
LEMMA FramesKept ==
  ASSUME FramesHold, outer' = outer, DOMAIN stack' \subseteq DOMAIN stack,
         \A i \in DOMAIN stack' :
           /\ Emits(stack[i]) <=> Emits(stack'[i])
           /\ Emits(stack[i]) => stack'[i].event = stack[i].event
           /\ stack'[i].kind = "direct" => stack'[i].left \subseteq Listeners
           /\ stack'[i].kind = "watchers" => stack'[i].left \subseteq Watchers
           /\ stack[i].kind = "flush" <=> stack'[i].kind = "flush"
           /\ stack[i].kind = "flush" => stack'[i].left = stack[i].left
  PROVE  FramesHold'
<1>1. \A i \in DOMAIN stack' : Emits(stack'[i]) =>
        /\ stack'[i].event \in 1..Emitted'
        /\ \A k \in stack'[i].event + 1..Emitted' : stack'[i].event \in outer'[k]
  BY DEF FramesHold, Emitted
<1>2. \A i \in DOMAIN stack' : stack'[i].kind = "flush" =>
        \E w \in Watchers : stack'[i].left = {w}
  BY DEF FramesHold
<1>3. \A i, j \in DOMAIN stack' :
       i # j /\ Emits(stack'[i]) /\ Emits(stack'[j]) => stack'[i].event # stack'[j].event
  BY DEF FramesHold
<1> QED  BY <1>1, <1>2, <1>3 DEF FramesHold, Emits

\* The lists of x: its buffer under 0, and each flush of it under its frame.
LEMMA ListTypes ==
  ASSUME BusTypes, NEW x \in Everybody
  PROVE  /\ heard[x] \in Seq(Nat) /\ Len(outer) \in Nat /\ Len(stack) \in Nat
         /\ DOMAIN Lists(x) = {0} \cup Flushes(x) /\ 0 \in DOMAIN Lists(x)
         /\ Lists(x)[0] = Buffer(x)
         /\ \A s \in DOMAIN Lists(x) : s \in Nat /\ s <= Len(stack) /\ Lists(x)[s] \in Seq(Nat)
         /\ \A s \in Flushes(x) :
              s # 0 /\ s \in DOMAIN stack /\ Lists(x)[s] = stack[s].pending
<1>1. /\ heard[x] \in Seq(Nat) /\ Len(outer) \in Nat /\ Buffer(x) \in Seq(Nat)
      /\ Len(stack) \in Nat /\ DOMAIN stack = 1..Len(stack)
  BY EmptySeq, LenProperties DEF BusTypes, Watched, Buffer
<1>2. ASSUME NEW s \in Flushes(x)
      PROVE  s # 0 /\ s \in DOMAIN stack /\ s \in Nat /\ s <= Len(stack) /\ stack[s].pending \in Seq(Nat)
  <2>1. s \in 1..Len(stack)
    BY <1>1 DEF Flushes
  <2>2. stack[s] \in Frame
    BY <2>1, ElementOfSeq DEF BusTypes
  <2> QED  BY <1>1, <2>1, <2>2 DEF Frame
<1>3. DOMAIN Lists(x) = {0} \cup Flushes(x) /\ Lists(x)[0] = Buffer(x)
  BY DEF Lists
<1>4. \A s \in Flushes(x) : Lists(x)[s] = stack[s].pending
  BY <1>2 DEF Lists
<1> QED  BY <1>1, <1>2, <1>3, <1>4

\* And after a step.
LEMMA ListsNext ==
  ASSUME NEW x
  PROVE  /\ DOMAIN Lists(x)' = {0} \cup Flushes(x)' /\ Lists(x)'[0] = Buffer(x)'
         /\ \A s \in Flushes(x)' : s # 0 => Lists(x)'[s] = stack'[s].pending
  BY DEF Lists

LEMMA ListsSame ==
  ASSUME NEW x, Flushes(x)' = Flushes(x), Buffer(x)' = Buffer(x),
         \A i \in Flushes(x) : stack'[i].pending = stack[i].pending
  PROVE  Lists(x)' = Lists(x)
  BY DEF Lists

-----------------------------------------------------------------------------
\* Nothing new for x.
LEMMA HearsStill ==
  ASSUME NEW x \in Everybody, Hears(x), outer' = outer, overtaken'[x] = overtaken[x],
         heard'[x] = heard[x], Lists(x)' = Lists(x), Started(x)' = Started(x),
         Coming(x)' \subseteq Coming(x),
         joined'[x] = joined[x], missed[x] \subseteq missed'[x],
         Subscribed(x)' => Subscribed(x) /\ Coming(x) \subseteq Coming(x)' \cup missed'[x]
  PROVE  Hears(x)'
<1>1. Good(outer, overtaken[x], heard[x], Lists(x), Started(x))
      /\ Complete(outer, heard[x], Lists(x), Coming(x), missed[x], joined[x], Subscribed(x))
  BY DEF Hears
<1>2. Complete(outer, heard[x], Lists(x), Coming(x)', missed'[x], joined[x], Subscribed(x)')
  BY <1>1, CompleteLess
<1> QED  BY <1>1, <1>2 DEF Hears

\* It has just subscribed: of what comes from now on it will hear.
LEMMA HearsFresh ==
  ASSUME BusTypes, NEW x \in Everybody, Hears(x), outer' = outer, overtaken'[x] = overtaken[x],
         heard'[x] = heard[x], Lists(x)' = Lists(x), Started(x)' = Started(x),
         Coming(x)' = Coming(x), joined'[x] = Len(outer)
  PROVE  Hears(x)'
<1>1. Good(outer, overtaken[x], heard[x], Lists(x), Started(x))
      /\ Complete(outer, heard[x], Lists(x), Coming(x), missed[x], joined[x], Subscribed(x))
  BY DEF Hears
<1>2. Len(outer) + 1..Len(outer) = {}
  BY ListTypes
<1>3. Complete(outer, heard[x], Lists(x), Coming(x), missed'[x], Len(outer), Subscribed(x)')
  BY <1>1, <1>2 DEF Complete
<1> QED  BY <1>1, <1>3 DEF Hears

\* The event being delivered reaches x, if it is started, or its buffer.
LEMMA HearsNext ==
  ASSUME BusTypes, FramesHold, stack # <<>>, Emits(Top),
         NEW x \in Everybody, Hears(x), Top.event \in Coming(x), outer' = outer, overtaken' = overtaken,
         \/ Started(x) /\ heard'[x] = Append(heard[x], Top.event) /\ Lists(x)' = Lists(x)
         \/ /\ ~Started(x) /\ heard'[x] = heard[x]
            /\ Flushes(x)' = Flushes(x) /\ \A i \in Flushes(x) : stack'[i].pending = stack[i].pending
            /\ Buffer(x)' = Append(Buffer(x), Top.event),
         Started(x)' = Started(x), Coming(x)' = Coming(x) \ {Top.event},
         joined' = joined, missed' = missed, Subscribed(x)' = Subscribed(x)
  PROVE  Hears(x)'
<1> DEFINE e == Top.event
<1>1. /\ Good(outer, overtaken[x], heard[x], Lists(x), Started(x))
      /\ Complete(outer, heard[x], Lists(x), Coming(x), missed[x], joined[x], Subscribed(x))
  BY DEF Hears
<1>2. /\ e \in 1..Len(outer) /\ e \in Nat
      /\ \A k \in e + 1..Len(outer) : e \in outer[k]
  BY StackTop DEF FramesHold, Emitted
<1>3. ~Knows(heard[x], Lists(x), e)
  BY <1>1 DEF Complete
<1>4. heard[x] \in Seq(Nat) /\ Len(outer) \in Nat
  BY ListTypes
<1> HIDE DEF e
<1>5. CASE Started(x) /\ heard'[x] = Append(heard[x], Top.event) /\ Lists(x)' = Lists(x)
  <2>1. Good(outer, overtaken[x], Append(heard[x], e), Lists(x), Started(x))
    BY <1>1, <1>2, <1>3, <1>4, <1>5, GoodHear
  <2>2. \A d : Knows(Append(heard[x], e), Lists(x), d) <=> Knows(heard[x], Lists(x), d) \/ d = e
    BY <1>2, <1>4, KnowsHear
  <2>3. Complete(outer, Append(heard[x], e), Lists(x), Coming(x) \ {e}, missed[x], joined[x], Subscribed(x))
    BY <1>1, <2>2, CompleteNext
  <2> QED  BY <1>5, <2>1, <2>3 DEF Hears, e
<1>6. CASE /\ ~Started(x) /\ heard'[x] = heard[x]
           /\ Flushes(x)' = Flushes(x) /\ \A i \in Flushes(x) : stack'[i].pending = stack[i].pending
           /\ Buffer(x)' = Append(Buffer(x), Top.event)
  <2> DEFINE lists == Lists(x)
             lists2 == Lists(x)'
  <2>1. /\ 0 \in DOMAIN lists /\ lists[0] \in Seq(Nat) /\ \A s \in DOMAIN lists : s \in Nat
        /\ DOMAIN lists2 = DOMAIN lists
        /\ \A s \in DOMAIN lists : lists2[s] = IF s = 0 THEN Append(lists[0], e) ELSE lists[s]
    <3>1. /\ DOMAIN lists = {0} \cup Flushes(x) /\ 0 \in DOMAIN lists
          /\ lists[0] = Buffer(x) /\ lists[0] \in Seq(Nat) /\ \A s \in DOMAIN lists : s \in Nat
          /\ \A s \in Flushes(x) : s # 0 /\ lists[s] = stack[s].pending
      BY ListTypes
    <3>2. /\ DOMAIN lists2 = {0} \cup Flushes(x) /\ lists2[0] = Append(Buffer(x), e)
          /\ \A s \in Flushes(x) : s # 0 => lists2[s] = stack[s].pending
      BY <1>6, ListsNext DEF e
    <3> HIDE DEF lists, lists2
    <3> QED  BY <3>1, <3>2
  <2>2. Good(outer, overtaken[x], heard[x], lists, Started(x))
        /\ Complete(outer, heard[x], lists, Coming(x), missed[x], joined[x], Subscribed(x))
        /\ ~Knows(heard[x], lists, e)
    BY <1>1, <1>3
  <2> HIDE DEF lists, lists2
  <2>3. Good(outer, overtaken[x], heard[x], lists2, Started(x))
    BY <1>2, <1>4, <1>6, <2>1, <2>2, GoodBuffer
  <2>4. \A d : Knows(heard[x], lists2, d) <=> Knows(heard[x], lists, d) \/ d = e
    BY <1>2, <2>1, KnowsBuffer
  <2>5. Complete(outer, heard[x], lists2, Coming(x) \ {e}, missed[x], joined[x], Subscribed(x))
    BY <2>2, <2>4, CompleteNext
  <2> QED  BY <1>6, <2>3, <2>5 DEF Hears, e, lists2
<1> QED  BY <1>5, <1>6

LEMMA SameStack ==
  ASSUME stack' = stack
  PROVE  \A x : Coming(x)' = Coming(x) /\ Flushes(x)' = Flushes(x)
  BY DEF Coming, Flushes, Expects

(* The steps of the bus.                                                   *)

LEMMA OnStep ==
  ASSUME BusInv, NEW l \in Listeners, On(l)
  PROVE  BusInv'
<1> DEFINE new == direct.now = 0
           set == IF new THEN Len(direct.sets) + 1 ELSE direct.now
           sets == IF new THEN Append(direct.sets, {l})
                   ELSE [direct.sets EXCEPT ![set] = @ \cup {l}]
<1>0. /\ direct.sets \in Seq(SUBSET Listeners) /\ direct.now \in Nat
      /\ direct.of \in [Listeners -> Nat] /\ direct.offs \in [Listeners -> 0..2]
      /\ direct.of[l] = 0 /\ Len(direct.sets) \in Nat
  BY LenProperties DEF BusInv, BusTypes, On
<1>1. direct' = [sets |-> sets, now |-> set, of |-> [direct.of EXCEPT ![l] = set], offs |-> direct.offs]
  <2>1. CASE new
    <3>1. direct' = [direct EXCEPT !.now = set, !.of[l] = set, !.sets = Append(@, {l})]
      BY <2>1 DEF On
    <3> QED  BY <2>1, <3>1 DEF BusInv, BusTypes
  <2>2. CASE ~new
    <3>1. direct' = [direct EXCEPT !.now = set, !.of[l] = set,
                                   !.sets = [direct.sets EXCEPT ![set] = @ \cup {l}]]
      BY <2>2 DEF On
    <3> QED  BY <2>2, <3>1 DEF BusInv, BusTypes
  <2> QED  BY <2>1, <2>2
<1>2. /\ sets \in Seq(SUBSET Listeners) /\ set \in 1..Len(sets)
      /\ Len(direct.sets) <= Len(sets)
      /\ \A s \in 1..Len(sets) : s # set => s \in 1..Len(direct.sets) /\ sets[s] = direct.sets[s]
      /\ l \in sets[set]
      /\ ~new => direct.sets[set] \subseteq sets[set]
      /\ new => set \notin 1..Len(direct.sets)
  <2>1. CASE new
    BY <1>0, <2>1, AppendProperties
  <2>2. CASE ~new
    <3>1. set \in 1..Len(direct.sets)
      BY <1>0, <2>2 DEF BusInv, SetsHold
    <3>2. direct.sets[set] \cup {l} \in SUBSET Listeners
      BY <1>0, <3>1, ElementOfSeq
    <3> QED  BY <1>0, <2>2, <3>1, <3>2, ExceptSeq
  <2> QED  BY <2>1, <2>2
<1> HIDE DEF sets, set, new
<1>3. BusTypes'
  <2>1. set \in Nat
    BY <1>2
  <2>2. direct' \in [sets : Seq(SUBSET Listeners), now : Nat,
                     of : [Listeners -> Nat], offs : [Listeners -> 0..2]]
    BY <1>0, <1>1, <1>2, <2>1
  <2>3. joined' \in [Everybody -> Nat]
    BY LenProperties DEF On, BusInv, BusTypes, Emitted, Everybody
  <2> QED  BY <2>2, <2>3 DEF On, BusInv, BusTypes
<1>4. SetsHold'
  <2>0. /\ direct'.now = set /\ direct'.sets = sets /\ direct'.offs = direct.offs
        /\ \A m \in Listeners : direct'.of[m] = IF m = l THEN set ELSE direct.of[m]
    BY <1>0, <1>1
  <2>1. direct'.now \in 0..Len(direct'.sets)
    BY <1>2, <2>0
  <2>2. ASSUME NEW m \in Listeners
        PROVE /\ direct'.of[m] \in 0..Len(direct'.sets)
              /\ direct'.of[m] = 0 => direct'.offs[m] = 0
              /\ direct'.of[m] # 0 /\ direct'.offs[m] = 0 => m \in direct'.sets[direct'.of[m]]
    <3>1. CASE m = l
      BY <1>2, <2>0, <3>1
    <3>2. CASE m # l
      <4>1. direct'.of[m] = direct.of[m] /\ direct.of[m] \in 0..Len(direct.sets)
        BY <2>0, <3>2 DEF BusInv, SetsHold
      <4>2. direct.of[m] # 0 => direct.sets[direct.of[m]] \subseteq sets[direct.of[m]]
        <5>1. CASE direct.of[m] = set
          BY <1>2, <4>1, <5>1 DEF set, new
        <5>2. CASE direct.of[m] # set
          <6>1. direct.of[m] # 0 => direct.of[m] \in 1..Len(sets)
            BY <1>0, <1>2, <4>1
          <6> QED  BY <1>2, <5>2, <6>1
        <5> QED  BY <5>1, <5>2
      <4>3. /\ direct.of[m] = 0 => direct.offs[m] = 0
            /\ direct.of[m] # 0 /\ direct.offs[m] = 0 => m \in direct.sets[direct.of[m]]
        BY DEF BusInv, SetsHold
      <4>4. direct.of[m] \in 0..Len(sets)
        BY <1>0, <1>2, <4>1
      <4> QED  BY <2>0, <4>1, <4>2, <4>3, <4>4
    <3> QED  BY <3>1, <3>2
  <2>3. ASSUME \A m \in Listeners : direct'.offs[m] < 2, NEW s \in 1..Len(direct'.sets), s # direct'.now
        PROVE  direct'.sets[s] = {}
    <3>1. s \in 1..Len(direct.sets) /\ sets[s] = direct.sets[s]
      BY <1>2, <2>0, <2>3
    <3>2. s # direct.now
      BY <1>0, <2>0, <2>3, <3>1 DEF set, new
    <3> QED  BY <2>0, <2>3, <3>1, <3>2 DEF BusInv, SetsHold
  <2> QED  BY <2>1, <2>2, <2>3 DEF SetsHold
<1>5. FramesHold'
  BY DEF On, BusInv, FramesHold, Emitted, Emits
<1>6. ASSUME NEW x \in Everybody PROVE Hears(x)'
  <2>1. /\ Lists(x)' = Lists(x) /\ Coming(x)' = Coming(x) /\ Started(x)' = Started(x)
        /\ UNCHANGED <<outer, missed, overtaken, heard>>
    <3>1. UNCHANGED <<watch, stack, outer, missed, overtaken, heard>>
      BY DEF On
    <3>2. Buffer(x)' = Buffer(x) /\ Started(x)' = Started(x)
      BY <3>1 DEF Buffer, Started
    <3> QED  BY <3>1, <3>2, SameStack, ListsSame
  <2>2. CASE x = l
    <3>1. joined'[x] = Len(outer)
      BY <2>2 DEF On, BusInv, BusTypes, Emitted, Everybody
    <3> QED  BY <2>1, <3>1, HearsFresh DEF BusInv
  <2>3. CASE x # l
    <3>1. joined'[x] = joined[x]
      BY <2>3 DEF On, BusInv, BusTypes, Everybody
    <3>2. Subscribed(x)' => Subscribed(x)
      BY <1>0, <1>1, <2>3 DEF On, Subscribed, Everybody
    <3> QED  BY <2>1, <3>1, <3>2, HearsStill DEF BusInv
  <2> QED  BY <2>2, <2>3
<1> QED  BY <1>3, <1>4, <1>5, <1>6 DEF BusInv

LEMMA OffStep ==
  ASSUME BusInv, NEW l \in Listeners, Off(l)
  PROVE  BusInv'
<1> DEFINE set == direct.of[l]
           left == direct.sets[set] \ {l}
           now == IF left = {} THEN 0 ELSE direct.now
           sets == [direct.sets EXCEPT ![set] = left]
<1>0. /\ direct.sets \in Seq(SUBSET Listeners) /\ direct.now \in Nat
      /\ direct.of \in [Listeners -> Nat] /\ direct.offs \in [Listeners -> 0..2]
      /\ set \in 1..Len(direct.sets) /\ Len(direct.sets) \in Nat /\ direct.offs[l] < 2
  <2>1. direct.of[l] # 0 /\ direct.of[l] \in 0..Len(direct.sets)
    BY DEF BusInv, SetsHold, Off
  <2> QED  BY <2>1, LenProperties DEF BusInv, BusTypes, Off
<1>1. direct' = [sets |-> sets, now |-> now, of |-> direct.of,
                 offs |-> [direct.offs EXCEPT ![l] = @ + 1]]
  BY DEF Off, BusInv, BusTypes
<1>2. /\ sets \in Seq(SUBSET Listeners) /\ Len(sets) = Len(direct.sets)
      /\ \A s \in 1..Len(sets) : sets[s] = IF s = set THEN left ELSE direct.sets[s]
  <2>1. left \in SUBSET Listeners
    BY <1>0, ElementOfSeq
  <2> QED  BY <1>0, <2>1, ExceptSeq
<1> HIDE DEF sets, set, left, now
<1>3. BusTypes'
  <2>1. now \in Nat
    BY <1>0 DEF now
  <2>2. [direct.offs EXCEPT ![l] = @ + 1] \in [Listeners -> 0..2]
    BY <1>0
  <2>3. direct' \in [sets : Seq(SUBSET Listeners), now : Nat,
                     of : [Listeners -> Nat], offs : [Listeners -> 0..2]]
    BY <1>0, <1>1, <1>2, <2>1, <2>2
  <2> QED  BY <2>3 DEF Off, BusInv, BusTypes
<1>4. SetsHold'
  <2>0. /\ direct'.now = now /\ direct'.sets = sets /\ direct'.of = direct.of
        /\ \A m \in Listeners : direct'.offs[m] = IF m = l THEN direct.offs[m] + 1 ELSE direct.offs[m]
    BY <1>0, <1>1
  <2>1. direct'.now \in 0..Len(direct'.sets)
    BY <1>0, <1>2, <2>0 DEF BusInv, SetsHold, now
  <2>2. ASSUME NEW m \in Listeners
        PROVE /\ direct'.of[m] \in 0..Len(direct'.sets)
              /\ direct'.of[m] = 0 => direct'.offs[m] = 0
              /\ direct'.of[m] # 0 /\ direct'.offs[m] = 0 => m \in direct'.sets[direct'.of[m]]
    <3>0. /\ direct.of[m] \in 0..Len(sets)
          /\ direct.of[m] = 0 => direct.offs[m] = 0
          /\ direct.of[m] # 0 /\ direct.offs[m] = 0 => m \in direct.sets[direct.of[m]]
      BY <1>2 DEF BusInv, SetsHold
    <3>1. CASE m = l
      BY <1>0, <2>0, <3>0, <3>1 DEF set
    <3>2. CASE m # l
      <4>1. direct.of[m] # 0 => direct.sets[direct.of[m]] \ {l} \subseteq sets[direct.of[m]]
        BY <1>0, <1>2, <3>0 DEF left
      <4> QED  BY <2>0, <3>0, <3>2, <4>1
    <3> QED  BY <3>1, <3>2
  <2>3. ASSUME \A m \in Listeners : direct'.offs[m] < 2, NEW s \in 1..Len(direct'.sets), s # direct'.now
        PROVE  direct'.sets[s] = {}
    <3>1. direct.offs[l] = 0 /\ \A m \in Listeners : direct.offs[m] < 2
      <4>1. \A m \in Listeners : direct.offs[m] \in 0..2
        BY <1>0
      <4>2. direct.offs[l] + 1 < 2
        BY <2>0, <2>3
      <4>3. direct.offs[l] = 0
        BY <4>1, <4>2
      <4>4. \A m \in Listeners : m # l => direct.offs[m] < 2
        BY <2>0, <2>3
      <4> QED  BY <4>3, <4>4
    <3>2. l \in direct.sets[set] /\ set # 0
      BY <1>0, <3>1 DEF BusInv, SetsHold, set
    <3>3. set = direct.now
      BY <1>0, <3>1, <3>2 DEF BusInv, SetsHold
    <3>4. CASE s = set
      BY <1>2, <2>0, <2>3, <3>3, <3>4 DEF now
    <3>5. CASE s # set
      BY <1>2, <2>0, <3>1, <3>3, <3>5 DEF BusInv, SetsHold
    <3> QED  BY <3>4, <3>5
  <2> QED  BY <2>1, <2>2, <2>3 DEF SetsHold
<1>5. FramesHold'
  BY DEF Off, BusInv, FramesHold, Emitted, Emits
<1>6. ASSUME NEW x \in Everybody PROVE Hears(x)'
  <2>1. /\ Lists(x)' = Lists(x) /\ Coming(x)' = Coming(x) /\ Started(x)' = Started(x)
        /\ UNCHANGED <<outer, missed, overtaken, heard, joined>>
    <3>1. UNCHANGED <<watch, stack, outer, missed, overtaken, heard, joined>>
      BY DEF Off
    <3>2. Buffer(x)' = Buffer(x) /\ Started(x)' = Started(x)
      BY <3>1 DEF Buffer, Started
    <3> QED  BY <3>1, <3>2, SameStack, ListsSame
  <2>2. Subscribed(x)' => Subscribed(x)
    <3>1. watch' = watch /\ direct'.of = direct.of
          /\ \A m \in Listeners : /\ direct'.offs[m] \in Int /\ direct.offs[m] \in Int
                                  /\ direct.offs[m] <= direct'.offs[m]
      <4>1. direct'.offs = [direct.offs EXCEPT ![l] = @ + 1] /\ direct'.of = direct.of
        BY <1>1
      <4>2. \A m \in Listeners : direct.offs[m] \in 0..2
        BY <1>0
      <4>3. \A n \in 0..2 : n \in Int /\ n + 1 \in Int /\ n <= n + 1 /\ n <= n
        OBVIOUS
      <4> QED  BY <1>0, <4>1, <4>2, <4>3 DEF Off
    <3>2. \A a, b, c \in Int : a <= b /\ b < c => a < c
      OBVIOUS
    <3> QED  BY <3>1, <3>2 DEF Subscribed
  <2> QED  BY <2>1, <2>2, HearsStill DEF BusInv
<1> QED  BY <1>3, <1>4, <1>5, <1>6 DEF BusInv

LEMMA WatchStep ==
  ASSUME BusInv, NEW w \in Watchers, Watch(w)
  PROVE  BusInv'
<1>1. /\ watch \in [Watchers -> Watched]
      /\ watch' = [watch EXCEPT ![w].made = TRUE, ![w].on = TRUE]
  BY DEF Watch, BusInv, BusTypes
<1>2. /\ \A v \in Watchers : /\ watch'[v].started = watch[v].started
                             /\ watch'[v].buffer = watch[v].buffer
                             /\ v # w => watch'[v].on = watch[v].on
      /\ watch' \in [Watchers -> Watched]
  BY <1>1 DEF Watched
<1>3. BusTypes'
  <2>1. joined' \in [Everybody -> Nat]
    BY LenProperties DEF Watch, BusInv, BusTypes, Emitted, Everybody
  <2> QED  BY <1>2, <2>1 DEF Watch, BusInv, BusTypes
<1>4. SetsHold' /\ FramesHold'
  BY DEF Watch, BusInv, SetsHold, FramesHold, Emitted, Emits
<1>5. ASSUME NEW x \in Everybody PROVE Hears(x)'
  <2>1. /\ Lists(x)' = Lists(x) /\ Coming(x)' = Coming(x) /\ Started(x)' = Started(x)
        /\ UNCHANGED <<direct, outer, missed, overtaken, heard>>
    <3>1. UNCHANGED <<direct, stack, outer, missed, overtaken, heard>>
      BY DEF Watch
    <3>2. Buffer(x)' = Buffer(x) /\ Started(x)' = Started(x)
      BY <1>2 DEF Buffer, Started
    <3> QED  BY <3>1, <3>2, SameStack, ListsSame
  <2>2. CASE x = w
    <3>1. joined'[x] = Len(outer)
      BY <2>2 DEF Watch, BusInv, BusTypes, Emitted, Everybody
    <3> QED  BY <2>1, <3>1, HearsFresh DEF BusInv
  <2>3. CASE x # w
    <3>1. joined'[x] = joined[x]
      BY <2>3 DEF Watch, BusInv, BusTypes, Everybody
    <3>2. Subscribed(x)' => Subscribed(x)
      BY <1>2, <2>1, <2>3 DEF Subscribed
    <3> QED  BY <2>1, <3>1, <3>2, HearsStill DEF BusInv
  <2> QED  BY <2>2, <2>3
<1> QED  BY <1>3, <1>4, <1>5 DEF BusInv

\* Who unsubscribes throws away what its buffer holds.
LEMMA UnwatchStep ==
  ASSUME BusInv, NEW w \in Watchers, Unwatch(w)
  PROVE  BusInv'
<1>1. /\ watch \in [Watchers -> Watched]
      /\ watch' = [watch EXCEPT ![w].on = FALSE, ![w].buffer = <<>>]
      /\ UNCHANGED <<direct, stack, outer, heard, joined, missed, overtaken>>
  BY DEF Unwatch, BusInv, BusTypes
<1>2. /\ \A v \in Watchers : /\ watch'[v].started = watch[v].started
                             /\ v # w => watch'[v] = watch[v]
      /\ watch'[w].buffer = <<>> /\ watch'[w].on = FALSE
      /\ watch' \in [Watchers -> Watched]
  <2>1. <<>> \in Seq(Nat)
    BY EmptySeq
  <2> QED  BY <1>1, <2>1 DEF Watched
<1>3. BusTypes' /\ SetsHold' /\ FramesHold'
  BY <1>1, <1>2 DEF BusInv, BusTypes, SetsHold, FramesHold, Emitted, Emits
<1>4. ASSUME NEW x \in Everybody PROVE Hears(x)'
  <2>1. Coming(x)' = Coming(x) /\ Flushes(x)' = Flushes(x) /\ Started(x)' = Started(x)
    BY <1>1, <1>2, SameStack DEF Started
  <2>2. CASE x = w
    <3> DEFINE lists == Lists(x)
               lists2 == Lists(x)'
    <3>1. /\ Good(outer, overtaken[x], heard[x], lists, Started(x))
          /\ Complete(outer, heard[x], lists, Coming(x), missed[x], joined[x], Subscribed(x))
      BY DEF BusInv, Hears
    <3>2. /\ DOMAIN lists2 = DOMAIN lists /\ lists2[0] = <<>>
          /\ \A s \in DOMAIN lists2 : s # 0 => lists2[s] = lists[s]
      <4>1. Buffer(x)' = <<>>
        BY <1>2, <2>2 DEF Buffer
      <4> QED  BY <1>1, <2>1, <4>1, ListTypes, ListsNext, ZenonT(30) DEF BusInv
    <3>3. ~Subscribed(x)'
      BY <1>2, <2>2 DEF Subscribed
    <3> HIDE DEF lists, lists2
    <3>4. Good(outer, overtaken[x], heard[x], lists2, Started(x))
      BY <3>1, <3>2, GoodFewer
    <3>5. \A d : Knows(heard[x], lists2, d) => Knows(heard[x], lists, d)
      <4>1. \A d : ~Contains(<<>>, d)
        BY EmptySeq DEF Contains
      <4> QED  BY <3>2, <4>1 DEF Knows
    <3>6. Complete(outer, heard[x], lists2, Coming(x), missed[x], joined[x], Subscribed(x)')
      BY <3>1, <3>3, <3>5, CompleteLess
    <3> QED  BY <1>1, <2>1, <3>4, <3>6 DEF Hears, lists2
  <2>3. CASE x # w
    <3>1. Buffer(x)' = Buffer(x)
      BY <1>2, <2>3 DEF Buffer
    <3>2. Lists(x)' = Lists(x)
      BY <1>1, <2>1, <3>1, ListsSame
    <3>3. Subscribed(x)' => Subscribed(x)
      BY <1>1, <1>2, <2>3 DEF Subscribed
    <3> QED  BY <1>1, <2>1, <3>2, <3>3, HearsStill DEF BusInv
  <2> QED  BY <2>2, <2>3
<1> QED  BY <1>3, <1>4 DEF BusInv

\* The set being delivered to holds every listener that is subscribed.
LEMMA SubscribedRegistered ==
  ASSUME BusInv, NEW l \in Listeners, Subscribed(l)
  PROVE  l \in Registered
<1>1. l \notin Watchers
  BY BusAssumption DEF BusInv
<1>2. /\ direct.of[l] # 0 /\ direct.offs[l] < 1 /\ direct.offs \in [Listeners -> 0..2]
      /\ \A m \in Listeners : direct.offs[m] < (IF m = l THEN 1 ELSE 2)
  BY <1>1 DEF Subscribed, BusInv, BusTypes
<1>3. direct.offs[l] = 0 /\ \A m \in Listeners : direct.offs[m] < 2
  BY <1>2
<1>4. l \in direct.sets[direct.of[l]] /\ direct.of[l] \in 1..Len(direct.sets)
  BY <1>2, <1>3, LenProperties DEF BusInv, BusTypes, SetsHold
<1>5. direct.of[l] = direct.now
  BY <1>3, <1>4 DEF BusInv, SetsHold
<1> QED  BY <1>2, <1>4, <1>5 DEF Registered

LEMMA EmitStep ==
  ASSUME BusInv, Emit
  PROVE  BusInv'
<1> DEFINE around == {stack[i].event : i \in DOMAIN stack}
           frame == [kind |-> "direct", event |-> Emitted + 1,
                     left |-> Registered, pending |-> <<>>, called |-> FALSE]
<1>1. /\ outer' = Append(outer, around) /\ stack' = Append(stack, frame)
      /\ UNCHANGED <<direct, watch, heard, joined, missed, overtaken>>
  BY DEF Emit
<1>2. /\ outer \in Seq(SUBSET Nat) /\ Emitted \in Nat /\ Emitted = Len(outer)
      /\ stack \in Seq(Frame) /\ DOMAIN stack = 1..Len(stack)
      /\ \A i \in DOMAIN stack : stack[i] \in Frame
  BY LenProperties, ElementOfSeq DEF BusInv, BusTypes, Emitted
<1>3. around \in SUBSET Nat
  BY <1>2 DEF Frame
<1>4. Registered \subseteq Listeners
  BY ElementOfSeq, LenProperties DEF Registered, BusInv, BusTypes, SetsHold
<1>5. frame \in Frame
  BY <1>2, <1>4, EmptySeq DEF Frame, Everybody
<1>6. /\ outer' \in Seq(SUBSET Nat) /\ Emitted' = Emitted + 1
      /\ \A k \in 1..Emitted : outer'[k] = outer[k]
      /\ outer'[Emitted + 1] = around
  BY <1>1, <1>2, <1>3, AppendProperties DEF Emitted
<1>7. /\ stack' \in Seq(Frame) /\ Len(stack) \in Nat
      /\ DOMAIN stack' = DOMAIN stack \cup {Len(stack) + 1}
      /\ \A i \in DOMAIN stack : stack'[i] = stack[i] /\ i # Len(stack) + 1
      /\ stack'[Len(stack) + 1] = frame
      /\ \A x : Coming(x)' = Coming(x) \cup Here(frame, x)
  BY <1>1, <1>5, Pushed DEF BusInv
<1> USE <1>1
<1>8. BusTypes'
  BY <1>6, <1>7 DEF BusInv, BusTypes
<1>9. SetsHold'
  BY DEF BusInv, SetsHold
<1>10. FramesHold'
  <2>1. ASSUME NEW i \in DOMAIN stack, Emits(stack[i])
        PROVE  /\ stack[i].event \in 1..Emitted + 1 /\ stack[i].event # Emitted + 1
               /\ \A k \in stack[i].event + 1..Emitted + 1 : stack[i].event \in outer'[k]
    <3>1. /\ stack[i].event \in 1..Emitted
          /\ \A k \in stack[i].event + 1..Emitted : stack[i].event \in outer[k]
      BY <2>1 DEF BusInv, FramesHold
    <3>2. stack[i].event \in around
      OBVIOUS
    <3> HIDE DEF around
    <3>3. \A k \in stack[i].event + 1..Emitted + 1 :
            k = Emitted + 1 \/ (k \in stack[i].event + 1..Emitted /\ k \in 1..Emitted)
      BY <1>2, <3>1
    <3> QED  BY <1>2, <1>6, <3>1, <3>2, <3>3
  <2>2. /\ Emits(frame) /\ frame.event = Emitted + 1 /\ frame.kind = "direct"
        /\ frame.left \subseteq Listeners
    BY <1>4 DEF Emits
  <2>3. Emitted + 1 \in 1..Emitted + 1 /\ Emitted + 1 + 1..Emitted + 1 = {}
    BY <1>2
  <2> HIDE DEF frame
  <2>4. \A i \in DOMAIN stack' : Emits(stack'[i]) =>
          /\ stack'[i].event \in 1..Emitted'
          /\ \A k \in stack'[i].event + 1..Emitted' : stack'[i].event \in outer'[k]
    <3> TAKE i \in DOMAIN stack'
    <3>1. CASE i \in DOMAIN stack
      <4>1. stack'[i] = stack[i]
        BY <1>7, <3>1
      <4> QED  BY <1>6, <2>1, <3>1, <4>1
    <3>2. CASE i = Len(stack) + 1
      <4>1. stack'[i].event = Emitted + 1
        BY <1>7, <2>2, <3>2
      <4> QED  BY <1>6, <2>3, <4>1
    <3> QED  BY <1>7, <3>1, <3>2
  <2>5. \A i \in DOMAIN stack' :
          /\ stack'[i].kind = "direct" => stack'[i].left \subseteq Listeners
          /\ stack'[i].kind = "watchers" => stack'[i].left \subseteq Watchers
          /\ stack'[i].kind = "flush" => \E w \in Watchers : stack'[i].left = {w}
    <3> TAKE i \in DOMAIN stack'
    <3>1. CASE i \in DOMAIN stack
      <4>1. stack'[i] = stack[i]
        BY <1>7, <3>1
      <4> QED  BY <3>1, <4>1 DEF BusInv, FramesHold
    <3>2. CASE i = Len(stack) + 1
      BY <1>7, <2>2, <3>2
    <3> QED  BY <1>7, <3>1, <3>2
  <2>6. \A i, j \in DOMAIN stack' :
          i # j /\ Emits(stack'[i]) /\ Emits(stack'[j]) => stack'[i].event # stack'[j].event
    BY <1>7, <2>1, <2>2 DEF BusInv, FramesHold
  <2> QED  BY <2>4, <2>5, <2>6 DEF FramesHold, Emits
<1>11. ASSUME NEW x \in Everybody PROVE Hears(x)'
  <2>1. Flushes(x)' = Flushes(x)
    BY <1>7 DEF Flushes
  <2>2. \A i \in Flushes(x) : stack'[i].pending = stack[i].pending
    BY <1>7 DEF Flushes
  <2>3. Lists(x)' = Lists(x) /\ Started(x)' = Started(x) /\ Subscribed(x)' = Subscribed(x)
    <3>1. Buffer(x)' = Buffer(x)
      BY DEF Buffer
    <3> QED  BY <2>1, <2>2, <3>1, ListsSame DEF Started, Subscribed
  <2>4. Here(frame, x) \subseteq {Len(outer) + 1}
    BY <1>2 DEF Here
  <2>5. Subscribed(x) => Len(outer) + 1 \in Here(frame, x)
    BY <1>2, SubscribedRegistered DEF Here, Expects, Everybody
  <2>6. /\ Good(outer, overtaken[x], heard[x], Lists(x), Started(x))
        /\ Complete(outer, heard[x], Lists(x), Coming(x), missed[x], joined[x], Subscribed(x))
    BY DEF BusInv, Hears
  <2>7. joined[x] \in Nat /\ Len(outer) \in Nat /\ Len(outer') = Len(outer) + 1
    BY <1>2, <1>6 DEF BusInv, BusTypes, Emitted
  <2> HIDE DEF frame, around
  <2>8. Good(outer', overtaken[x], heard[x], Lists(x), Started(x))
    <3>1. \A a \in 1..Len(outer) : a \in 1..Len(outer') /\ outer'[a] = outer[a]
      BY <1>2, <1>6, <2>7
    <3>2. Started(x) => Lists(x)[0] = <<>>
      BY <2>6 DEF Good
    <3> QED  BY <2>6, <3>1, <3>2, GoodFewer
  <2>9. Complete(outer', heard[x], Lists(x), Coming(x) \cup Here(frame, x), missed[x],
                 joined[x], Subscribed(x))
    <3>1. ~Knows(heard[x], Lists(x), Len(outer) + 1)
      <4>1. Len(outer) + 1 \notin 1..Len(outer)
        BY <2>7
      <4>2. /\ \A i \in 1..Len(heard[x]) : heard[x][i] \in 1..Len(outer)
            /\ \A s \in DOMAIN Lists(x) : \A i \in 1..Len(Lists(x)[s]) : Lists(x)[s][i] \in 1..Len(outer)
        BY <2>6 DEF Good
      <4> QED  BY <4>1, <4>2 DEF Knows, Contains
    <3>2. \A e \in joined[x] + 1..Len(outer') : e = Len(outer) + 1 \/ e \in joined[x] + 1..Len(outer)
      BY <2>7
    <3> QED  BY <2>4, <2>5, <2>6, <3>1, <3>2 DEF Complete
  <2> QED  BY <1>7, <2>3, <2>8, <2>9 DEF Hears
<1> QED  BY <1>8, <1>9, <1>10, <1>11 DEF BusInv

\* A start, inside others or not, notes what the flushes around it still hold.
LEMMA StartStep ==
  ASSUME BusInv, NEW w \in Watchers, Start(w)
  PROVE  BusInv'
<1> DEFINE frame == [kind |-> "flush", event |-> 0, left |-> {w}, pending |-> <<>>, called |-> FALSE]
           n == Len(stack) + 1
<1>1. /\ stack' = Append(stack, frame)
      /\ overtaken' = [overtaken EXCEPT ![w] = @ \cup Undelivered(w)]
      /\ UNCHANGED <<direct, watch, outer, heard, joined, missed>>
  BY DEF Start
<1>2. frame \in Frame /\ w \in Everybody
  BY EmptySeq DEF Frame, Everybody
<1>3. /\ stack' \in Seq(Frame) /\ Len(stack) \in Nat /\ DOMAIN stack' = DOMAIN stack \cup {n}
      /\ \A i \in DOMAIN stack : stack'[i] = stack[i] /\ i # n
      /\ stack'[n] = frame
      /\ \A x : Coming(x)' = Coming(x) \cup Here(frame, x)
  BY <1>1, <1>2, Pushed DEF BusInv
<1>4. frame.kind = "flush" /\ frame.left = {w} /\ frame.pending = <<>> /\ ~Emits(frame)
  BY DEF Emits
<1> HIDE DEF frame
<1>5. Undelivered(w) = UNION {ToSet(stack[i].pending) : i \in Flushes(w)}
  BY DEF Undelivered, Flushes
<1>6. \A i \in Flushes(w) : \A k \in 1..Len(stack[i].pending) :
        stack[i].pending[k] \in Undelivered(w)
  <2> SUFFICES ASSUME NEW i \in Flushes(w), NEW k \in 1..Len(stack[i].pending)
               PROVE  stack[i].pending[k] \in Undelivered(w)
    OBVIOUS
  <2>1. stack[i].pending \in Seq(Nat)
    BY <1>2, ListTypes DEF BusInv
  <2>2. stack[i].pending[k] \in ToSet(stack[i].pending)
    BY <2>1, LenProperties DEF ToSet
  <2> QED  BY <1>5, <2>2
<1>7. Undelivered(w) \in SUBSET Nat
  <2>1. ASSUME NEW i \in Flushes(w) PROVE ToSet(stack[i].pending) \subseteq Nat
    <3>1. stack[i].pending \in Seq(Nat)
      BY <1>2, ListTypes DEF BusInv
    <3> QED  BY <3>1, LenProperties, ElementOfSeq DEF ToSet
  <2> QED  BY <1>5, <2>1
<1>8. /\ overtaken' \in [Everybody -> SUBSET Nat] /\ overtaken'[w] = overtaken[w] \cup Undelivered(w)
      /\ \A x \in Everybody : x # w => overtaken'[x] = overtaken[x]
  BY <1>1, <1>2, <1>7 DEF BusInv, BusTypes
<1>9. BusTypes' /\ SetsHold'
  BY <1>1, <1>3, <1>8 DEF BusInv, BusTypes, SetsHold
<1>10. FramesHold'
  <2>1. \A i \in DOMAIN stack' :
          /\ Emits(stack'[i]) =>
               /\ stack'[i].event \in 1..Emitted'
               /\ \A k \in stack'[i].event + 1..Emitted' : stack'[i].event \in outer'[k]
          /\ stack'[i].kind = "direct" => stack'[i].left \subseteq Listeners
          /\ stack'[i].kind = "watchers" => stack'[i].left \subseteq Watchers
    BY <1>1, <1>3, <1>4 DEF BusInv, FramesHold, Emitted, Emits
  <2>2. \A i \in DOMAIN stack' : stack'[i].kind = "flush" => \E v \in Watchers : stack'[i].left = {v}
    BY <1>3, <1>4 DEF BusInv, FramesHold
  <2>3. \A i, j \in DOMAIN stack' :
          i # j /\ Emits(stack'[i]) /\ Emits(stack'[j]) => stack'[i].event # stack'[j].event
    BY <1>3, <1>4 DEF BusInv, FramesHold
  <2> QED  BY <2>1, <2>2, <2>3 DEF FramesHold, Emits
<1>11. ASSUME NEW x \in Everybody PROVE Hears(x)'
  <2>1. Coming(x)' = Coming(x)
    <3>1. Here(frame, x) = {}
      BY <1>4 DEF Here, Expects
    <3> QED  BY <1>3, <3>1
  <2>2. Started(x)' = Started(x) /\ Subscribed(x)' = Subscribed(x) /\ Buffer(x)' = Buffer(x)
    BY <1>1 DEF Started, Subscribed, Buffer
  <2>3. CASE x = w
    <3> DEFINE lists == Lists(x)
               lists2 == Lists(x)'
    <3>1. /\ Good(outer, overtaken[x], heard[x], lists, Started(x))
          /\ Complete(outer, heard[x], lists, Coming(x), missed[x], joined[x], Subscribed(x))
      BY DEF BusInv, Hears
    <3>2. /\ 0 \in DOMAIN lists /\ DOMAIN lists = {0} \cup Flushes(x) /\ lists[0] = Buffer(x)
          /\ \A s \in DOMAIN lists : s \in Nat /\ s <= Len(stack)
          /\ \A s \in Flushes(x) : s # 0 /\ s \in DOMAIN stack /\ lists[s] = stack[s].pending
      BY ListTypes DEF BusInv
    <3>3. Flushes(x)' = Flushes(x) \cup {n}
      BY <1>3, <1>4, <2>3 DEF Flushes
    <3>4. /\ DOMAIN lists2 = {0} \cup Flushes(x)' /\ lists2[0] = Buffer(x)'
          /\ \A s \in Flushes(x)' : s # 0 => lists2[s] = stack'[s].pending
      BY ListsNext
    <3> HIDE DEF lists, lists2
    <3>5. /\ n \in Nat /\ n # 0 /\ n \notin DOMAIN lists /\ \A s \in DOMAIN lists : s \in Nat /\ s < n
          /\ DOMAIN lists2 = DOMAIN lists \cup {n} /\ lists2[n] = <<>>
          /\ \A s \in DOMAIN lists : lists2[s] = lists[s]
      <4>1. n \in Nat /\ n # 0 /\ n \notin DOMAIN lists /\ \A s \in DOMAIN lists : s \in Nat /\ s < n
        BY <1>3, <3>2
      <4>2. DOMAIN lists2 = DOMAIN lists \cup {n} /\ lists2[n] = <<>>
        BY <1>3, <1>4, <3>2, <3>3, <3>4, <4>1
      <4>3. lists2[0] = lists[0] /\ \A s \in Flushes(x) : lists2[s] = lists[s]
        BY <1>3, <2>2, <3>2, <3>3, <3>4
      <4> QED  BY <3>2, <4>1, <4>2, <4>3
    <3>6. /\ overtaken[x] \subseteq overtaken'[x]
          /\ \A s \in DOMAIN lists : s # 0 => \A i \in 1..Len(lists[s]) : lists[s][i] \in overtaken'[x]
      BY <1>6, <1>8, <2>3, <3>2
    <3> HIDE DEF n
    <3>7. Good(outer, overtaken'[x], heard[x], lists2, Started(x))
      BY <3>1, <3>2, <3>5, <3>6, GoodPush
    <3>8. \A d : Knows(heard[x], lists2, d) <=> Knows(heard[x], lists, d)
      BY <3>5, KnowsPush
    <3>9. Complete(outer, heard[x], lists2, Coming(x), missed[x], joined[x], Subscribed(x))
      BY <3>1, <3>8, CompleteLess
    <3> QED  BY <1>1, <2>1, <2>2, <3>7, <3>9 DEF Hears, lists2
  <2>4. CASE x # w
    <3>1. Flushes(x)' = Flushes(x) /\ \A i \in Flushes(x) : stack'[i].pending = stack[i].pending
      BY <1>3, <1>4, <2>4 DEF Flushes
    <3>2. Lists(x)' = Lists(x)
      BY <2>2, <3>1, ListsSame
    <3> QED  BY <1>1, <1>8, <2>1, <2>2, <2>4, <3>2, HearsStill DEF BusInv
  <2> QED  BY <2>3, <2>4
<1> QED  BY <1>9, <1>10, <1>11 DEF BusInv

\* Deliveries are not flushes: what is pending stays so.
LEMMA Unflushed ==
  ASSUME stack # <<>>, Len(stack) \in DOMAIN stack, Emits(Top),
         DOMAIN stack' \subseteq DOMAIN stack, DOMAIN stack \subseteq DOMAIN stack' \cup {Len(stack)},
         \A i \in DOMAIN stack' \ {Len(stack)} : stack'[i] = stack[i],
         Len(stack) \in DOMAIN stack' => Emits(stack'[Len(stack)])
  PROVE  \A x : /\ Flushes(x)' = Flushes(x)
                /\ \A i \in Flushes(x) : stack'[i].pending = stack[i].pending
  BY DEF Flushes, Emits, Top

LEMMA DirectStep ==
  ASSUME BusInv, stack # <<>>, Top.kind = "direct", NEW l \in Top.left,
         Call(l, Top.event), Retop([Top EXCEPT !.left = @ \ {l}, !.called = TRUE]),
         UNCHANGED <<watch, direct, outer, joined, missed, overtaken>>
  PROVE  BusInv'
<1> DEFINE frame == [Top EXCEPT !.left = @ \ {l}, !.called = TRUE]
<1>1. /\ Len(stack) \in DOMAIN stack /\ Top = stack[Len(stack)] /\ Top \in Frame
      /\ Top.event \in Nat /\ Top.left \in SUBSET Everybody /\ Top.pending \in Seq(Nat)
      /\ \A x : Coming(x) = Below(x) \cup Here(Top, x)
      /\ \A x : Top.event \notin Below(x)
      /\ l \in Listeners /\ l \notin Watchers /\ Top.left \subseteq Listeners
  <2>1. /\ Len(stack) \in DOMAIN stack /\ Top = stack[Len(stack)] /\ Top \in Frame
        /\ Top.event \in Nat /\ Top.left \in SUBSET Everybody /\ Top.pending \in Seq(Nat)
        /\ \A x : Coming(x) = Below(x) \cup Here(Top, x)
        /\ \A x : Top.event \notin Below(x)
    BY StackTop DEF BusInv, Emits
  <2> QED  BY <2>1, BusAssumption DEF BusInv, FramesHold
<1>2. /\ frame.kind = "direct" /\ frame.event = Top.event /\ frame.left = Top.left \ {l}
      /\ frame \in Frame
  BY <1>1 DEF Frame
<1> HIDE DEF frame
<1>3. /\ stack' \in Seq(Frame) /\ DOMAIN stack' = DOMAIN stack
      /\ \A i \in DOMAIN stack : stack'[i] = IF i = Len(stack) THEN frame ELSE stack[i]
      /\ \A x : Coming(x)' = Below(x) \cup Here(frame, x)
  BY <1>2, Retopped DEF BusInv, frame
<1>4. /\ heard' \in [Everybody -> Seq(Nat)]
      /\ heard'[l] = Append(heard[l], Top.event)
      /\ \A x \in Everybody : x # l => heard'[x] = heard[x]
  <2>1. Append(heard[l], Top.event) \in Seq(Nat)
    BY <1>1, AppendProperties DEF BusInv, BusTypes, Everybody
  <2> QED  BY <1>1, <2>1 DEF Call, BusInv, BusTypes, Everybody
<1>5. BusTypes' /\ SetsHold'
  BY <1>3, <1>4 DEF BusInv, BusTypes, SetsHold
<1>6. FramesHold'
  BY <1>1, <1>2, <1>3, FramesKept DEF BusInv, FramesHold, Emits
<1>7. \A x : /\ Flushes(x)' = Flushes(x)
            /\ \A i \in Flushes(x) : stack'[i].pending = stack[i].pending
  BY <1>1, <1>2, <1>3, Unflushed DEF Emits
<1>8. ASSUME NEW x \in Everybody PROVE Hears(x)'
  <2>1. Subscribed(x)' = Subscribed(x) /\ Started(x)' = Started(x) /\ Lists(x)' = Lists(x)
    <3>1. Buffer(x)' = Buffer(x)
      BY DEF Buffer
    <3> QED  BY <1>7, <3>1, ListsSame DEF Subscribed, Started
  <2>2. CASE x = l
    <3>1. Started(x) /\ heard'[x] = Append(heard[x], Top.event)
      BY <1>1, <1>4, <2>2 DEF Started
    <3>2. Here(Top, x) = {Top.event} /\ Here(frame, x) = {}
      BY <1>1, <1>2, <2>2 DEF Here, Expects
    <3>3. Top.event \in Coming(x) /\ Coming(x)' = Coming(x) \ {Top.event}
      BY <1>1, <1>3, <3>2
    <3> QED  BY <2>1, <3>1, <3>3, HearsNext DEF BusInv, Emits
  <2>3. CASE x # l
    <3>1. Here(frame, x) = Here(Top, x)
      BY <1>2, <2>3 DEF Here, Expects
    <3>2. Coming(x)' = Coming(x)
      BY <1>1, <1>3, <3>1
    <3> QED  BY <1>4, <2>1, <2>3, <3>2, HearsStill DEF BusInv
  <2> QED  BY <2>2, <2>3
<1> QED  BY <1>5, <1>6, <1>8 DEF BusInv

LEMMA WatchersStep ==
  ASSUME BusInv, stack # <<>>, Top.kind = "direct", Top.left = {},
         Retop([Top EXCEPT !.kind = "watchers", !.left = {w \in Watchers : watch[w].on},
                           !.called = FALSE]),
         UNCHANGED <<heard, watch, direct, outer, joined, missed, overtaken>>
  PROVE  BusInv'
<1> DEFINE frame == [Top EXCEPT !.kind = "watchers", !.left = {w \in Watchers : watch[w].on},
                                !.called = FALSE]
<1>1. /\ Len(stack) \in DOMAIN stack /\ Top = stack[Len(stack)] /\ Top \in Frame
      /\ \A x : Coming(x) = Below(x) \cup Here(Top, x)
  BY StackTop DEF BusInv
<1>2. /\ frame.kind = "watchers" /\ frame.event = Top.event
      /\ frame.left = {w \in Watchers : watch[w].on} /\ frame \in Frame
  BY <1>1 DEF Frame, Everybody
<1> HIDE DEF frame
<1>3. /\ stack' \in Seq(Frame) /\ DOMAIN stack' = DOMAIN stack
      /\ \A i \in DOMAIN stack : stack'[i] = IF i = Len(stack) THEN frame ELSE stack[i]
      /\ \A x : Coming(x)' = Below(x) \cup Here(frame, x)
  BY <1>2, Retopped DEF BusInv, frame
<1>5. BusTypes' /\ SetsHold'
  BY <1>3 DEF BusInv, BusTypes, SetsHold
<1>6. FramesHold'
  BY <1>1, <1>2, <1>3, FramesKept DEF BusInv, FramesHold, Emits
<1>7. \A x : /\ Flushes(x)' = Flushes(x)
            /\ \A i \in Flushes(x) : stack'[i].pending = stack[i].pending
  BY <1>1, <1>2, <1>3, Unflushed DEF Emits
<1>8. ASSUME NEW x \in Everybody PROVE Hears(x)'
  <2>1. Subscribed(x)' = Subscribed(x) /\ Started(x)' = Started(x) /\ Lists(x)' = Lists(x)
    <3>1. Buffer(x)' = Buffer(x)
      BY DEF Buffer
    <3> QED  BY <1>7, <3>1, ListsSame DEF Subscribed, Started
  <2>2. Here(frame, x) \subseteq Here(Top, x)
    BY <1>2 DEF Here, Expects
  <2>3. Subscribed(x) => Here(Top, x) \subseteq Here(frame, x)
    BY <1>2 DEF Here, Expects, Subscribed
  <2> QED  BY <1>1, <1>3, <2>1, <2>2, <2>3, HearsStill DEF BusInv
<1> QED  BY <1>5, <1>6, <1>8 DEF BusInv

LEMMA WatcherStep ==
  ASSUME BusInv, stack # <<>>, Top.kind = "watchers", NEW w \in Top.left,
         Retop([Top EXCEPT !.left = @ \ {w}, !.called = watch[w].started]),
         IF watch[w].started THEN Call(w, Top.event) /\ UNCHANGED watch
         ELSE /\ watch' = [watch EXCEPT ![w].buffer = Append(@, Top.event)]
              /\ UNCHANGED heard,
         UNCHANGED <<direct, outer, joined, missed, overtaken>>
  PROVE  BusInv'
<1> DEFINE frame == [Top EXCEPT !.left = @ \ {w}, !.called = watch[w].started]
<1>1. /\ Len(stack) \in DOMAIN stack /\ Top = stack[Len(stack)] /\ Top \in Frame
      /\ Top.event \in Nat /\ Top.left \in SUBSET Everybody /\ Top.pending \in Seq(Nat)
      /\ \A x : Coming(x) = Below(x) \cup Here(Top, x)
      /\ \A x : Top.event \notin Below(x)
      /\ w \in Watchers /\ w \in Everybody /\ Top.left \subseteq Watchers
  <2>1. /\ Len(stack) \in DOMAIN stack /\ Top = stack[Len(stack)] /\ Top \in Frame
        /\ Top.event \in Nat /\ Top.left \in SUBSET Everybody /\ Top.pending \in Seq(Nat)
        /\ \A x : Coming(x) = Below(x) \cup Here(Top, x)
        /\ \A x : Top.event \notin Below(x)
    BY StackTop DEF BusInv, Emits
  <2> QED  BY <2>1, BusAssumption DEF BusInv, FramesHold
<1>2. /\ frame.kind = "watchers" /\ frame.event = Top.event /\ frame.left = Top.left \ {w}
      /\ frame \in Frame
  BY <1>1 DEF Frame, BusInv, BusTypes, Watched
<1> HIDE DEF frame
<1>3. /\ stack' \in Seq(Frame) /\ DOMAIN stack' = DOMAIN stack
      /\ \A i \in DOMAIN stack : stack'[i] = IF i = Len(stack) THEN frame ELSE stack[i]
      /\ \A x : Coming(x)' = Below(x) \cup Here(frame, x)
  BY <1>2, Retopped DEF BusInv, frame
<1>4. /\ heard' \in [Everybody -> Seq(Nat)]
      /\ \A x \in Everybody : x # w => heard'[x] = heard[x]
      /\ watch[w].started => heard'[w] = Append(heard[w], Top.event) /\ watch' = watch
      /\ ~watch[w].started => heard' = heard
  <2>1. Append(heard[w], Top.event) \in Seq(Nat)
    BY <1>1, AppendProperties DEF BusInv, BusTypes
  <2> QED  BY <1>1, <2>1 DEF Call, BusInv, BusTypes
<1>5. /\ watch' \in [Watchers -> Watched]
      /\ ~watch[w].started => watch'[w].buffer = Append(watch[w].buffer, Top.event)
      /\ \A v \in Watchers : v # w => watch'[v] = watch[v]
      /\ watch'[w].started = watch[w].started /\ watch'[w].on = watch[w].on
  <2>1. Append(watch[w].buffer, Top.event) \in Seq(Nat)
    BY <1>1, AppendProperties DEF BusInv, BusTypes, Watched
  <2>2. watch \in [Watchers -> Watched]
    BY DEF BusInv, BusTypes
  <2>3. CASE watch[w].started
    BY <1>4, <2>2, <2>3
  <2>4. CASE ~watch[w].started
    <3>1. watch' = [watch EXCEPT ![w].buffer = Append(@, Top.event)]
      BY <2>4
    <3> QED  BY <1>1, <2>1, <2>2, <2>4, <3>1 DEF Watched
  <2> QED  BY <2>3, <2>4
<1>6. BusTypes' /\ SetsHold'
  BY <1>3, <1>4, <1>5 DEF BusInv, BusTypes, SetsHold
<1>7. FramesHold'
  BY <1>1, <1>2, <1>3, FramesKept DEF BusInv, FramesHold, Emits
<1>8. \A x : /\ Flushes(x)' = Flushes(x)
            /\ \A i \in Flushes(x) : stack'[i].pending = stack[i].pending
  BY <1>1, <1>2, <1>3, Unflushed DEF Emits
<1>9. ASSUME NEW x \in Everybody PROVE Hears(x)'
  <2>1. Subscribed(x)' = Subscribed(x) /\ Started(x)' = Started(x)
    BY <1>5 DEF Subscribed, Started
  <2>2. CASE x = w
    <3>1. Here(Top, x) = {Top.event} /\ Here(frame, x) = {}
      BY <1>1, <1>2, <2>2 DEF Here, Expects
    <3>2. Top.event \in Coming(x) /\ Coming(x)' = Coming(x) \ {Top.event}
      BY <1>1, <1>3, <3>1
    <3>3. CASE watch[w].started
      <4>1. Started(x) /\ heard'[x] = Append(heard[x], Top.event) /\ Buffer(x)' = Buffer(x)
        BY <1>4, <2>2, <3>3 DEF Started, Buffer
      <4>2. Lists(x)' = Lists(x)
        BY <1>8, <4>1, ListsSame
      <4> QED  BY <2>1, <3>2, <4>1, <4>2, HearsNext DEF BusInv, Emits
    <3>4. CASE ~watch[w].started
      <4>1. ~Started(x) /\ heard'[x] = heard[x] /\ Buffer(x)' = Append(Buffer(x), Top.event)
        BY <1>1, <1>4, <1>5, <2>2, <3>4 DEF Started, Buffer
      <4> QED  BY <1>8, <2>1, <3>2, <4>1, HearsNext DEF BusInv, Emits
    <3> QED  BY <3>3, <3>4
  <2>3. CASE x # w
    <3>1. Buffer(x)' = Buffer(x)
      BY <1>5, <2>3 DEF Buffer
    <3>2. Lists(x)' = Lists(x)
      BY <1>8, <3>1, ListsSame
    <3>3. Here(frame, x) = Here(Top, x)
      BY <1>2, <2>3 DEF Here, Expects
    <3>4. Coming(x)' = Coming(x)
      BY <1>1, <1>3, <3>3
    <3> QED  BY <1>4, <2>1, <2>3, <3>2, <3>4, HearsStill DEF BusInv
  <2> QED  BY <2>2, <2>3
<1> QED  BY <1>6, <1>7, <1>9 DEF BusInv

LEMMA DeliverStep ==
  ASSUME BusInv, Deliver
  PROVE  BusInv'
<1>1. /\ stack # <<>> /\ Top.kind \in {"direct", "watchers"}
      /\ UNCHANGED <<direct, outer, joined, missed, overtaken>>
  BY DEF Deliver
<1>2. CASE /\ Top.kind = "direct"
           /\ \E l \in Top.left :
                /\ Call(l, Top.event)
                /\ Retop([Top EXCEPT !.left = @ \ {l}, !.called = TRUE])
           /\ UNCHANGED watch
  BY <1>1, <1>2, DirectStep
<1>3. CASE /\ Top.kind = "direct" /\ Top.left = {}
           /\ Retop([Top EXCEPT !.kind = "watchers", !.left = {w \in Watchers : watch[w].on},
                                !.called = FALSE])
           /\ UNCHANGED <<heard, watch>>
  BY <1>1, <1>3, WatchersStep
<1>4. CASE /\ Top.kind = "watchers"
           /\ \E w \in Top.left :
                /\ Retop([Top EXCEPT !.left = @ \ {w}, !.called = watch[w].started])
                /\ IF watch[w].started
                   THEN Call(w, Top.event) /\ UNCHANGED watch
                   ELSE /\ watch' = [watch EXCEPT ![w].buffer = Append(@, Top.event)]
                        /\ UNCHANGED heard
  BY <1>1, <1>4, WatcherStep
<1>5. CASE /\ Top.kind = "watchers" /\ Top.left = {}
           /\ stack' = Front(stack)
           /\ UNCHANGED <<heard, watch>>
  <2>1. /\ \A x : Coming(x) = Below(x) \cup Here(Top, x)
        /\ Len(stack) \in DOMAIN stack
    BY <1>1, StackTop DEF BusInv
  <2>2. /\ stack' \in Seq(Frame) /\ DOMAIN stack' = DOMAIN stack \ {Len(stack)}
        /\ \A i \in DOMAIN stack' : stack'[i] = stack[i]
        /\ \A x : Coming(x)' = Below(x)
    BY <1>1, <1>5, Popped DEF BusInv
  <2>3. BusTypes' /\ SetsHold'
    BY <1>1, <1>5, <2>2 DEF BusInv, BusTypes, SetsHold
  <2>4. FramesHold'
    BY <1>1, <1>5, <2>2, FramesKept DEF BusInv, FramesHold
  <2>5. \A x : /\ Flushes(x)' = Flushes(x)
              /\ \A i \in Flushes(x) : stack'[i].pending = stack[i].pending
    BY <1>1, <1>5, <2>1, <2>2, Unflushed DEF Emits
  <2>6. ASSUME NEW x \in Everybody PROVE Hears(x)'
    <3>1. Subscribed(x)' = Subscribed(x) /\ Started(x)' = Started(x) /\ Lists(x)' = Lists(x)
      <4>1. Buffer(x)' = Buffer(x)
        BY <1>5 DEF Buffer
      <4> QED  BY <1>1, <1>5, <2>5, <4>1, ListsSame DEF Subscribed, Started
    <3>2. Here(Top, x) = {}
      BY <1>5 DEF Here, Expects
    <3> QED  BY <1>1, <1>5, <2>1, <2>2, <3>1, <3>2, HearsStill DEF BusInv
  <2> QED  BY <2>3, <2>4, <2>6 DEF BusInv
<1> QED  BY <1>2, <1>3, <1>4, <1>5 DEF Deliver

\* A flush ends, or takes the buffer, or tells one event: w knows what it knew.
LEMMA FlushStep ==
  ASSUME BusInv, Flush
  PROVE  BusInv'
<1>1. PICK w \in Top.left :
       CASE Top.pending # <<>> ->
              /\ Call(w, Head(Top.pending))
              /\ Retop([Top EXCEPT !.event = Head(Top.pending), !.pending = Tail(@), !.called = TRUE])
              /\ UNCHANGED watch
         [] Top.pending = <<>> /\ watch[w].buffer # <<>> ->
              /\ Retop([Top EXCEPT !.pending = watch[w].buffer, !.called = FALSE])
              /\ watch' = [watch EXCEPT ![w].buffer = <<>>]
              /\ UNCHANGED heard
         [] OTHER ->
              /\ stack' = Front(stack)
              /\ watch' = [watch EXCEPT ![w].started = TRUE]
              /\ UNCHANGED heard
  BY DEF Flush
<1>2. /\ stack # <<>> /\ Top.kind = "flush" /\ UNCHANGED <<direct, outer, joined, missed, overtaken>>
      /\ watch \in [Watchers -> Watched]
      /\ heard \in [Everybody -> Seq(Nat)]
  BY DEF Flush, BusInv, BusTypes
<1>3. /\ Len(stack) \in DOMAIN stack /\ Top = stack[Len(stack)] /\ Top \in Frame
      /\ Top.left \in SUBSET Everybody /\ Top.pending \in Seq(Nat)
      /\ \A x : Coming(x) = Below(x) \cup Here(Top, x)
  BY <1>2, StackTop DEF BusInv
<1> DEFINE f == Len(stack)
           lists == Lists(w)
           lists2 == Lists(w)'
<1>4. f \in Flushes(w)
  BY <1>2, <1>3 DEF Flushes
<1>5. w \in Watchers /\ w \in Everybody /\ Top.left = {w} /\ watch[w].buffer \in Seq(Nat)
  BY <1>2, <1>3 DEF BusInv, FramesHold, Everybody, Watched
<1>6. \A x : Here(Top, x) = {}
  BY <1>2 DEF Here, Expects
<1>7. /\ heard[w] \in Seq(Nat) /\ f \in Nat
      /\ f \in DOMAIN lists /\ f # 0 /\ lists[f] = Top.pending
      /\ 0 \in DOMAIN lists /\ lists[0] = watch[w].buffer
      /\ DOMAIN lists = {0} \cup Flushes(w)
      /\ \A s \in DOMAIN lists : s \in Nat /\ s <= f
      /\ \A s \in Flushes(w) : s # 0 /\ s \in DOMAIN stack /\ lists[s] = stack[s].pending
  BY <1>3, <1>4, <1>5, ListTypes DEF BusInv, Buffer
<1>8. /\ Good(outer, overtaken[w], heard[w], lists, Started(w))
      /\ Complete(outer, heard[w], lists, Coming(w), missed[w], joined[w], Subscribed(w))
  BY <1>5 DEF BusInv, Hears
<1>9. /\ DOMAIN lists2 = {0} \cup Flushes(w)' /\ lists2[0] = watch'[w].buffer
      /\ \A s \in Flushes(w)' : s # 0 => lists2[s] = stack'[s].pending
  BY <1>5, ListsNext DEF Buffer
<1> HIDE DEF f, lists, lists2
\* What it comes to for the frames and for everybody.
<1>10. ASSUME \A v \in Watchers : watch'[v].on = watch[v].on
                                  /\ (v # w => watch'[v] = watch[v]),
              \A x \in Everybody : x # w => heard'[x] = heard[x],
              \A x : Coming(x)' = Below(x),
              DOMAIN stack' \ {f} = DOMAIN stack \ {f},
              \A i \in DOMAIN stack' \ {f} : stack'[i] = stack[i],
              f \in DOMAIN stack' => /\ stack'[f].kind = "flush" /\ stack'[f].left = {w},
              Good(outer, overtaken[w], heard'[w], lists2, Started(w)'),
              \A d : Knows(heard'[w], lists2, d) <=> Knows(heard[w], lists, d)
       PROVE  FramesHold' /\ \A x \in Everybody : Hears(x)'
  <2>1. FramesHold'
    <3>1. DOMAIN stack' \subseteq DOMAIN stack
      BY <1>3, <1>10 DEF f
    <3>2. ASSUME NEW i \in DOMAIN stack'
          PROVE  /\ Emits(stack[i]) <=> Emits(stack'[i])
                 /\ Emits(stack[i]) => stack'[i].event = stack[i].event
                 /\ stack'[i].kind = "direct" => stack'[i].left \subseteq Listeners
                 /\ stack'[i].kind = "watchers" => stack'[i].left \subseteq Watchers
                 /\ stack[i].kind = "flush" <=> stack'[i].kind = "flush"
                 /\ stack[i].kind = "flush" => stack'[i].left = stack[i].left
      <4>1. CASE i = f
        BY <1>2, <1>3, <1>5, <1>10, <4>1 DEF Emits, f
      <4>2. CASE i # f
        <5>1. stack'[i] = stack[i] /\ i \in DOMAIN stack
          BY <1>10, <3>1, <4>2
        <5> QED  BY <5>1 DEF BusInv, FramesHold
      <4> QED  BY <4>1, <4>2
    <3> QED  BY <1>2, <3>1, <3>2, FramesKept DEF BusInv
  <2>2. ASSUME NEW x \in Everybody PROVE Hears(x)'
    <3>1. Subscribed(x)' = Subscribed(x)
      BY <1>2, <1>10 DEF Subscribed
    <3>2. Coming(x)' = Coming(x)
      BY <1>3, <1>6, <1>10
    <3>3. CASE x = w
      <4>1. Complete(outer, heard'[w], lists2, Coming(w), missed[w], joined[w], Subscribed(w))
        BY <1>8, <1>10, CompleteLess
      <4> QED  BY <1>2, <1>10, <3>1, <3>2, <3>3, <4>1 DEF Hears, lists2
    <3>4. CASE x # w
      <4>1. f \notin Flushes(x)
        BY <1>3, <1>5, <3>4 DEF Flushes, f
      <4>2. Flushes(x)' = Flushes(x) /\ \A i \in Flushes(x) : stack'[i].pending = stack[i].pending
        BY <1>10, <3>4, <4>1 DEF Flushes
      <4>3. Buffer(x)' = Buffer(x) /\ Started(x)' = Started(x)
        BY <1>10, <3>4 DEF Buffer, Started
      <4>4. Lists(x)' = Lists(x)
        BY <4>2, <4>3, ListsSame
      <4> QED  BY <1>2, <1>10, <3>1, <3>2, <3>4, <4>3, <4>4, HearsStill DEF BusInv
    <3> QED  BY <3>3, <3>4
  <2> QED  BY <2>1, <2>2
<1>11. CASE Top.pending # <<>>
  <2> DEFINE frame == [Top EXCEPT !.event = Head(Top.pending), !.pending = Tail(@), !.called = TRUE]
  <2>1. Retop(frame) /\ Call(w, Head(Top.pending)) /\ watch' = watch
    BY <1>1, <1>11
  <2>2. /\ Head(Top.pending) \in Nat /\ Tail(Top.pending) \in Seq(Nat)
    BY <1>3, <1>11, OneLess
  <2>3. /\ frame.kind = "flush" /\ frame.left = {w} /\ frame.pending = Tail(Top.pending)
        /\ frame \in Frame
    BY <1>2, <1>3, <1>5, <2>2 DEF Frame
  <2> HIDE DEF frame
  <2>4. /\ stack' \in Seq(Frame) /\ DOMAIN stack' = DOMAIN stack
        /\ \A i \in DOMAIN stack : stack'[i] = IF i = f THEN frame ELSE stack[i]
        /\ \A x : Coming(x)' = Below(x) \cup Here(frame, x)
    BY <1>2, <2>1, <2>3, Retopped DEF BusInv, f
  <2>5. \A x : Here(frame, x) = {}
    BY <2>3 DEF Here, Expects
  <2>6. /\ heard' \in [Everybody -> Seq(Nat)]
        /\ heard'[w] = Append(heard[w], Head(Top.pending))
        /\ \A x \in Everybody : x # w => heard'[x] = heard[x]
    <3>1. Append(heard[w], Head(Top.pending)) \in Seq(Nat)
      BY <1>7, <2>2, AppendProperties
    <3> QED  BY <1>2, <1>5, <2>1, <3>1 DEF Call
  <2>7. BusTypes' /\ SetsHold'
    BY <1>2, <2>1, <2>4, <2>6 DEF BusInv, BusTypes, SetsHold
  <2>8. /\ DOMAIN lists2 = DOMAIN lists
        /\ \A s \in DOMAIN lists : lists2[s] = IF s = f THEN Tail(lists[f]) ELSE lists[s]
    <3>1. Flushes(w)' = Flushes(w)
      BY <1>3, <1>4, <2>3, <2>4 DEF Flushes, f
    <3>2. \A s \in Flushes(w) : lists2[s] = IF s = f THEN Tail(Top.pending) ELSE stack[s].pending
      BY <1>7, <1>9, <2>3, <2>4, <3>1
    <3> QED  BY <1>7, <1>9, <2>1, <3>1, <3>2
  <2>9. /\ Good(outer, overtaken[w], heard'[w], lists2, Started(w))
        /\ \A d : Knows(heard'[w], lists2, d) <=> Knows(heard[w], lists, d)
    <3>1. lists[f] \in Seq(Nat) /\ lists[f] # <<>> /\ heard'[w] = Append(heard[w], Head(lists[f]))
      BY <1>3, <1>7, <1>11, <2>6
    <3>2. Good(outer, overtaken[w], Append(heard[w], Head(lists[f])), lists2, Started(w))
      BY <1>7, <1>8, <2>8, <3>1, GoodTell
    <3>3. \A d : Knows(Append(heard[w], Head(lists[f])), lists2, d) <=> Knows(heard[w], lists, d)
      BY <1>7, <2>8, <3>1, KnowsTell
    <3> QED  BY <3>1, <3>2, <3>3
  <2>10. Started(w)' = Started(w)
    BY <2>1 DEF Started
  <2>11. FramesHold' /\ \A x \in Everybody : Hears(x)'
    BY <1>10, <2>1, <2>3, <2>4, <2>5, <2>6, <2>9, <2>10
  <2> QED  BY <2>7, <2>11 DEF BusInv
<1>12. CASE Top.pending = <<>> /\ watch[w].buffer # <<>>
  <2> DEFINE frame == [Top EXCEPT !.pending = watch[w].buffer, !.called = FALSE]
  <2>1. /\ Retop(frame) /\ watch' = [watch EXCEPT ![w].buffer = <<>>] /\ heard' = heard
    BY <1>1, <1>12
  <2>2. <<>> \in Seq(Nat)
    BY EmptySeq
  <2>3. /\ frame.kind = "flush" /\ frame.left = {w} /\ frame.pending = watch[w].buffer
        /\ frame \in Frame
    BY <1>2, <1>3, <1>5 DEF Frame
  <2> HIDE DEF frame
  <2>4. /\ stack' \in Seq(Frame) /\ DOMAIN stack' = DOMAIN stack
        /\ \A i \in DOMAIN stack : stack'[i] = IF i = f THEN frame ELSE stack[i]
        /\ \A x : Coming(x)' = Below(x) \cup Here(frame, x)
    BY <1>2, <2>1, <2>3, Retopped DEF BusInv, f
  <2>5. \A x : Here(frame, x) = {}
    BY <2>3 DEF Here, Expects
  <2>6. /\ watch' \in [Watchers -> Watched]
        /\ watch'[w].buffer = <<>>
        /\ watch'[w].on = watch[w].on /\ watch'[w].started = watch[w].started
        /\ \A v \in Watchers : v # w => watch'[v] = watch[v]
    BY <1>2, <1>5, <2>1, <2>2 DEF Watched
  <2>7. BusTypes' /\ SetsHold'
    BY <1>2, <2>1, <2>4, <2>6 DEF BusInv, BusTypes, SetsHold
  <2>8. /\ DOMAIN lists2 = DOMAIN lists
        /\ \A s \in DOMAIN lists :
             lists2[s] = IF s = f THEN lists[0] ELSE IF s = 0 THEN <<>> ELSE lists[s]
    <3>1. Flushes(w)' = Flushes(w)
      BY <1>3, <1>4, <2>3, <2>4 DEF Flushes, f
    <3>2. \A s \in Flushes(w) : lists2[s] = IF s = f THEN watch[w].buffer ELSE stack[s].pending
      BY <1>7, <1>9, <2>3, <2>4, <3>1
    <3> QED  BY <1>7, <1>9, <2>6, <3>1, <3>2
  <2>9. /\ Good(outer, overtaken[w], heard'[w], lists2, Started(w))
        /\ \A d : Knows(heard'[w], lists2, d) <=> Knows(heard[w], lists, d)
    <3>1. lists[f] = <<>> /\ lists[0] # <<>>
      BY <1>7, <1>12
    <3>2. Good(outer, overtaken[w], heard[w], lists2, Started(w))
      BY <1>7, <1>8, <2>8, <3>1, GoodTake
    <3>3. \A d : Knows(heard[w], lists2, d) <=> Knows(heard[w], lists, d)
      BY <1>7, <2>8, <3>1, KnowsTake
    <3> QED  BY <2>1, <3>2, <3>3
  <2>10. Started(w)' = Started(w) /\ \A v \in Watchers : watch'[v].on = watch[v].on
    BY <2>6 DEF Started
  <2>11. FramesHold' /\ \A x \in Everybody : Hears(x)'
    BY <1>10, <2>1, <2>3, <2>4, <2>5, <2>6, <2>9, <2>10
  <2> QED  BY <2>7, <2>11 DEF BusInv
<1>13. CASE Top.pending = <<>> /\ watch[w].buffer = <<>>
  <2>1. /\ stack' = Front(stack) /\ watch' = [watch EXCEPT ![w].started = TRUE] /\ heard' = heard
    BY <1>1, <1>13
  <2>2. /\ stack' \in Seq(Frame) /\ DOMAIN stack' = DOMAIN stack \ {f}
        /\ \A i \in DOMAIN stack' : stack'[i] = stack[i]
        /\ \A x : Coming(x)' = Below(x)
    BY <1>2, <2>1, Popped DEF BusInv, f
  <2>3. /\ watch' \in [Watchers -> Watched]
        /\ watch'[w].buffer = <<>> /\ watch'[w].on = watch[w].on
        /\ \A v \in Watchers : v # w => watch'[v] = watch[v]
    BY <1>2, <1>5, <1>13, <2>1 DEF Watched
  <2>4. BusTypes' /\ SetsHold'
    BY <1>2, <2>1, <2>2, <2>3 DEF BusInv, BusTypes, SetsHold
  <2>5. /\ DOMAIN lists2 = DOMAIN lists \ {f} /\ lists2[0] = <<>>
        /\ \A s \in DOMAIN lists2 : lists2[s] = lists[s]
    <3>1. Flushes(w)' = Flushes(w) \ {f}
      BY <2>2 DEF Flushes
    <3>2. \A s \in Flushes(w)' : lists2[s] = lists[s]
      BY <1>7, <1>9, <2>2, <3>1
    <3>3. lists2[0] = <<>> /\ lists[0] = <<>>
      BY <1>7, <1>9, <1>13, <2>3
    <3> QED  BY <1>7, <1>9, <3>1, <3>2, <3>3
  <2>6. Good(outer, overtaken[w], heard[w], lists2, Started(w)')
    <3>1. \A s \in DOMAIN lists2 : \E t \in DOMAIN lists : s < t
      BY <1>7, <2>5
    <3>2. Started(w)' => /\ lists2[0] = <<>>
                         /\ \A s \in DOMAIN lists2 : s # 0 =>
                              \/ Started(w)
                              \/ \E t \in DOMAIN lists : s < t
      BY <2>5, <3>1
    <3> QED  BY <1>8, <2>5, <3>2, GoodFewer
  <2>7. \A d : Knows(heard[w], lists2, d) <=> Knows(heard[w], lists, d)
    <3>1. \A d : ~Contains(lists[f], d)
      BY <1>7, <1>13, EmptySeq DEF Contains
    <3> QED  BY <2>5, <3>1 DEF Knows
  <2>8. FramesHold' /\ \A x \in Everybody : Hears(x)'
    <3>1. \A v \in Watchers : watch'[v].on = watch[v].on /\ (v # w => watch'[v] = watch[v])
      BY <2>3
    <3>2. f \notin DOMAIN stack'
      BY <2>2
    <3> QED  BY <1>10, <2>1, <2>2, <2>6, <2>7, <3>1, <3>2
  <2> QED  BY <2>4, <2>8 DEF BusInv
<1> QED  BY <1>11, <1>12, <1>13

LEMMA RaiseStep ==
  ASSUME BusInv, Raise
  PROVE  BusInv'
<1> DEFINE lost(x) == CASE Top.kind = "flush" -> IF x \in Top.left THEN ToSet(Top.pending) ELSE {}
                        [] Top.kind = "direct" -> IF x \in Top.left \cup Watchers THEN {Top.event} ELSE {}
                        [] OTHER -> IF x \in Top.left THEN {Top.event} ELSE {}
<1>1. /\ stack # <<>> /\ stack' = Front(stack)
      /\ missed' = [x \in Everybody |-> missed[x] \cup lost(x)]
      /\ UNCHANGED <<direct, watch, outer, heard, joined, overtaken>>
  BY DEF Raise
<1>2. /\ Len(stack) \in DOMAIN stack /\ Top = stack[Len(stack)] /\ Top \in Frame
      /\ Top.kind \in {"direct", "watchers", "flush"} /\ Top.event \in Nat /\ Top.pending \in Seq(Nat)
      /\ \A x : Coming(x) = Below(x) \cup Here(Top, x)
  <2>1. Top \in Frame
    BY <1>1, StackTop DEF BusInv
  <2>2. Top.kind \in {"direct", "watchers", "flush"}
    BY <2>1 DEF Frame
  <2> QED  BY <1>1, <2>1, <2>2, StackTop DEF BusInv
<1>3. /\ stack' \in Seq(Frame) /\ DOMAIN stack' = DOMAIN stack \ {Len(stack)}
      /\ \A i \in DOMAIN stack' : stack'[i] = stack[i]
      /\ \A x : Coming(x)' = Below(x)
  BY <1>1, Popped DEF BusInv
<1>4. \A x : lost(x) \in SUBSET Nat
  <2>1. ToSet(Top.pending) \in SUBSET Nat
    BY <1>2, LenProperties, ElementOfSeq DEF ToSet
  <2> QED  BY <1>2, <2>1
<1>5. \A x : Here(Top, x) \subseteq lost(x)
  BY <1>2 DEF Here, Expects
<1>6. Top.kind = "flush" => \A x \in Top.left : \A i \in 1..Len(Top.pending) : Top.pending[i] \in lost(x)
  BY <1>2, LenProperties DEF ToSet
<1> HIDE DEF lost
<1>7. BusTypes' /\ SetsHold'
  <2>1. missed' \in [Everybody -> SUBSET Nat]
    BY <1>1, <1>4 DEF BusInv, BusTypes
  <2> QED  BY <1>1, <1>3, <2>1 DEF BusInv, BusTypes, SetsHold
<1>8. FramesHold'
  BY <1>1, <1>3, FramesKept DEF BusInv, FramesHold
<1>9. ASSUME NEW x \in Everybody PROVE Hears(x)'
  <2>1. Subscribed(x)' = Subscribed(x)
    BY <1>1 DEF Subscribed
  <2>2. missed'[x] = missed[x] \cup lost(x) /\ Coming(x)' \subseteq Coming(x)
        /\ Coming(x) \subseteq Coming(x)' \cup missed'[x]
    BY <1>1, <1>2, <1>3, <1>5
  <2>3. Started(x)' = Started(x) /\ Buffer(x)' = Buffer(x)
    BY <1>1 DEF Started, Buffer
  <2>4. CASE Len(stack) \in Flushes(x)
    <3> DEFINE lists == Lists(x)
               lists2 == Lists(x)'
    <3>1. /\ Good(outer, overtaken[x], heard[x], lists, Started(x))
          /\ Complete(outer, heard[x], lists, Coming(x), missed[x], joined[x], Subscribed(x))
      BY DEF BusInv, Hears
    <3>2. /\ DOMAIN lists = {0} \cup Flushes(x) /\ lists[0] = Buffer(x)
          /\ lists[Len(stack)] = Top.pending
          /\ \A s \in Flushes(x) : s # 0 /\ s \in DOMAIN stack /\ lists[s] = stack[s].pending
      BY <1>2, <2>4, ListTypes DEF BusInv
    <3>3. Flushes(x)' = Flushes(x) \ {Len(stack)}
      BY <1>3 DEF Flushes
    <3>4. /\ DOMAIN lists2 = {0} \cup Flushes(x)' /\ lists2[0] = Buffer(x)'
          /\ \A s \in Flushes(x)' : s # 0 => lists2[s] = stack'[s].pending
      BY ListsNext
    <3> HIDE DEF lists, lists2
    <3>5. /\ DOMAIN lists2 = DOMAIN lists \ {Len(stack)}
          /\ \A s \in DOMAIN lists2 : lists2[s] = lists[s]
      <4>1. \A s \in Flushes(x)' : lists2[s] = lists[s]
        BY <1>3, <3>2, <3>3, <3>4
      <4> QED  BY <2>3, <2>4, <3>2, <3>3, <3>4, <4>1
    <3>6. Good(outer, overtaken[x], heard[x], lists2, Started(x))
      <4>1. 0 \in DOMAIN lists2 /\ (Started(x) => lists2[0] = <<>>)
        BY <3>1, <3>4, <3>5 DEF Good
      <4> QED  BY <3>1, <3>5, <4>1, GoodFewer
    <3>7. \A d : Contains(lists[Len(stack)], d) => d \in lost(x)
      BY <1>2, <1>6, <2>4, <3>2 DEF Contains, Flushes
    <3>8. \A d : /\ Knows(heard[x], lists2, d) => Knows(heard[x], lists, d)
                 /\ Knows(heard[x], lists, d) => Knows(heard[x], lists2, d) \/ d \in lost(x)
      <4> DEFINE gone == lost(x)
      <4>1. \A s \in DOMAIN lists : \A d :
              Contains(lists[s], d) => d \in gone \/ (s \in DOMAIN lists2 /\ lists2[s] = lists[s])
        <5> TAKE s \in DOMAIN lists
        <5>1. CASE s = Len(stack)
          BY <3>7, <5>1
        <5>2. CASE s # Len(stack)
          BY <3>5, <5>2
        <5> QED  BY <5>1, <5>2
      <4> HIDE DEF gone
      <4>2. \A d : /\ Knows(heard[x], lists2, d) => Knows(heard[x], lists, d)
                   /\ Knows(heard[x], lists, d) => Knows(heard[x], lists2, d) \/ d \in gone
        <5>1. /\ DOMAIN lists2 \subseteq DOMAIN lists
              /\ \A s \in DOMAIN lists2 : lists2[s] = lists[s] \/ lists2[s] = <<>>
          BY <3>5
        <5> QED  BY <4>1, <5>1, KnowsFewer
      <4> QED  BY <4>2 DEF gone
    <3>9. Complete(outer, heard[x], lists2, Coming(x)', missed'[x], joined[x], Subscribed(x))
      BY <2>2, <3>1, <3>8, CompleteLess
    <3> QED  BY <1>1, <2>1, <2>3, <3>6, <3>9 DEF Hears, lists2
  <2>5. CASE Len(stack) \notin Flushes(x)
    <3>1. Flushes(x)' = Flushes(x) /\ \A i \in Flushes(x) : stack'[i].pending = stack[i].pending
      BY <1>3, <2>5 DEF Flushes
    <3>2. Lists(x)' = Lists(x)
      BY <2>3, <3>1, ListsSame
    <3> QED  BY <1>1, <2>1, <2>2, <2>3, <3>2, HearsStill DEF BusInv
  <2> QED  BY <2>4, <2>5
<1> QED  BY <1>7, <1>8, <1>9 DEF BusInv

LEMMA BusInvInit == BusInit => BusInv
<1> SUFFICES ASSUME BusInit PROVE BusInv
  OBVIOUS
<1>1. /\ direct = [sets |-> <<>>, now |-> 0, of |-> [l \in Listeners |-> 0], offs |-> [l \in Listeners |-> 0]]
      /\ watch = [w \in Watchers |-> [made |-> FALSE, on |-> FALSE, started |-> FALSE, buffer |-> <<>>]]
      /\ stack = <<>> /\ outer = <<>>
      /\ heard = [x \in Everybody |-> <<>>]
      /\ joined = [x \in Everybody |-> 0]
      /\ missed = [x \in Everybody |-> {}]
      /\ overtaken = [x \in Everybody |-> {}]
  BY DEF BusInit
<1>2. /\ <<>> \in Seq(SUBSET Listeners) /\ <<>> \in Seq(Nat) /\ <<>> \in Seq(Frame)
      /\ <<>> \in Seq(SUBSET Nat) /\ Len(<<>>) = 0 /\ DOMAIN <<>> = {}
  BY EmptySeq
<1>3. BusTypes
  BY <1>1, <1>2 DEF BusTypes, Watched
<1>4. SetsHold
  BY <1>1, <1>2 DEF SetsHold
<1>5. FramesHold
  BY <1>1, <1>2 DEF FramesHold, Emitted
<1>6. ASSUME NEW x \in Everybody PROVE Hears(x)
  <2>1. Coming(x) = {} /\ Flushes(x) = {}
    BY <1>1, <1>2 DEF Coming, Flushes
  <2>2. heard[x] = <<>> /\ Buffer(x) = <<>>
    BY <1>1 DEF Buffer
  <2>3. DOMAIN Lists(x) = {0} /\ Lists(x)[0] = <<>>
    BY <2>1, <2>2 DEF Lists
  <2>4. Len(outer) = 0 /\ joined[x] = 0
    BY <1>1, <1>2
  <2> DEFINE lists == Lists(x)
  <2>5. DOMAIN lists = {0} /\ lists[0] = <<>> /\ 1..Len(lists[0]) = {} /\ 1..Len(heard[x]) = {}
    BY <1>2, <2>2, <2>3
  <2> HIDE DEF lists
  <2>6. Good(outer, overtaken[x], heard[x], lists, Started(x))
    BY <2>5 DEF Good, Orderly, Before
  <2>7. Complete(outer, heard[x], lists, Coming(x), missed[x], joined[x], Subscribed(x))
    <3>1. joined[x] + 1..Len(outer) = {}
      BY <2>4
    <3> QED  BY <2>1, <3>1 DEF Complete
  <2> QED  BY <2>6, <2>7 DEF Hears, lists
<1> QED  BY <1>3, <1>4, <1>5, <1>6 DEF BusInv

LEMMA BusInvStep == BusInv /\ [BusNext]_busVars => BusInv'
<1> SUFFICES ASSUME BusInv, [BusNext]_busVars PROVE BusInv'
  OBVIOUS
<1>1. ASSUME NEW l \in Listeners, On(l) \/ Off(l) PROVE BusInv'
  BY <1>1, OnStep, OffStep
<1>2. ASSUME NEW w \in Watchers, Watch(w) \/ Unwatch(w) \/ Start(w) PROVE BusInv'
  BY <1>2, WatchStep, UnwatchStep, StartStep
<1>3. CASE Emit
  BY <1>3, EmitStep
<1>4. CASE Deliver
  BY <1>4, DeliverStep
<1>5. CASE Flush
  BY <1>5, FlushStep
<1>6. CASE Raise
  BY <1>6, RaiseStep
<1>7. CASE UNCHANGED busVars
  <2>1. BusTypes' /\ SetsHold' /\ FramesHold'
    BY <1>7 DEF busVars, BusInv, BusTypes, SetsHold, FramesHold, Emitted, Emits
  <2>2. ASSUME NEW x \in Everybody PROVE Hears(x)'
    <3>1. /\ UNCHANGED <<direct, watch, stack, outer, heard, joined, missed, overtaken>>
      BY <1>7 DEF busVars
    <3>2. Buffer(x)' = Buffer(x) /\ Started(x)' = Started(x) /\ Subscribed(x)' = Subscribed(x)
      BY <3>1 DEF Buffer, Started, Subscribed
    <3>3. Lists(x)' = Lists(x) /\ Coming(x)' = Coming(x)
      BY <3>1, <3>2, SameStack, ListsSame
    <3> QED  BY <3>1, <3>2, <3>3, HearsStill DEF BusInv
  <2> QED  BY <2>1, <2>2 DEF BusInv
<1> QED
  BY <1>1, <1>2, <1>3, <1>4, <1>5, <1>6, <1>7 DEF BusNext

LEMMA BusInvHears == BusInv => SubscribersHearAll
<1> SUFFICES ASSUME BusInv, NEW x \in Everybody
             PROVE
    LET known == heard[x] \o (IF x \in Watchers THEN watch[x].buffer ELSE <<>>)
        subscribed == IF x \in Watchers THEN watch[x].on
                      ELSE direct.of[x] # 0 /\ \A l \in Listeners : direct.offs[l] < (IF l = x THEN 1 ELSE 2)
    IN /\ \A i, j \in DOMAIN known : i < j =>
            /\ known[i] # known[j]
            /\ known[i] < known[j] \/ known[j] \in outer[known[i]] \cup overtaken[x]
       /\ stack = <<>> /\ subscribed =>
            \A e \in joined[x] + 1..Emitted : e \in missed[x] \/ Contains(known, e)
  BY DEF SubscribersHearAll
<1> DEFINE h == heard[x]
           b == Buffer(x)
           known == h \o b
<1>1. /\ h \in Seq(Nat) /\ b \in Seq(Nat) /\ 0 \in DOMAIN Lists(x) /\ Lists(x)[0] = b
      /\ DOMAIN Lists(x) = {0} \cup Flushes(x)
  BY ListTypes DEF BusInv
<1>2. /\ Good(outer, overtaken[x], h, Lists(x), Started(x))
      /\ Complete(outer, h, Lists(x), Coming(x), missed[x], joined[x], Subscribed(x))
  BY DEF BusInv, Hears
<1> HIDE DEF h, b
<1>3. Orderly(outer, overtaken[x], h) /\ Orderly(outer, overtaken[x], b) /\ Before(outer, overtaken[x], h, b)
  BY <1>1, <1>2 DEF Good
<1>4. /\ Len(h) \in Nat /\ Len(b) \in Nat /\ DOMAIN known = 1..Len(h) + Len(b)
      /\ \A i \in DOMAIN known : known[i] = IF i <= Len(h) THEN h[i] ELSE b[i - Len(h)]
  BY <1>1, ConcatProperties, LenProperties
<1> HIDE DEF known
<1>5. ASSUME NEW i \in DOMAIN known, NEW j \in DOMAIN known, i < j
      PROVE  InOrder(outer, overtaken[x], known[i], known[j])
  <2>1. CASE j <= Len(h)
    <3>1. i \in 1..Len(h) /\ j \in 1..Len(h) /\ known[i] = h[i] /\ known[j] = h[j]
      BY <1>4, <1>5, <2>1
    <3> QED  BY <1>3, <1>5, <3>1 DEF Orderly
  <2>2. CASE i <= Len(h) /\ ~(j <= Len(h))
    <3>1. i \in 1..Len(h) /\ j - Len(h) \in 1..Len(b) /\ known[i] = h[i] /\ known[j] = b[j - Len(h)]
      BY <1>4, <1>5, <2>2
    <3> QED  BY <1>3, <3>1 DEF Before
  <2>3. CASE ~(i <= Len(h))
    <3>1. /\ i - Len(h) \in 1..Len(b) /\ j - Len(h) \in 1..Len(b) /\ i - Len(h) < j - Len(h)
          /\ known[i] = b[i - Len(h)] /\ known[j] = b[j - Len(h)]
      BY <1>4, <1>5, <2>3
    <3> QED  BY <1>3, <3>1 DEF Orderly
  <2> QED  BY <1>4, <2>1, <2>2, <2>3
<1>6. \A i, j \in DOMAIN known : i < j =>
        /\ known[i] # known[j]
        /\ known[i] < known[j] \/ known[j] \in outer[known[i]] \cup overtaken[x]
  BY <1>5 DEF InOrder
<1>7. ASSUME stack = <<>>, Subscribed(x)
      PROVE  \A e \in joined[x] + 1..Emitted : e \in missed[x] \/ Contains(known, e)
  <2>1. DOMAIN stack = {}
    BY <1>7
  <2>2. Coming(x) = {} /\ Flushes(x) = {}
    BY <2>1 DEF Coming, Flushes
  <2>3. \A e : Knows(h, Lists(x), e) => Contains(h, e) \/ Contains(b, e)
    BY <1>1, <2>2 DEF Knows
  <2>4. \A e : Contains(h, e) \/ Contains(b, e) => Contains(known, e)
    <3>1. \A i \in 1..Len(h) : i \in DOMAIN known /\ known[i] = h[i]
      BY <1>4
    <3>2. \A i \in 1..Len(b) : Len(h) + i \in DOMAIN known /\ known[Len(h) + i] = b[i]
      <4> TAKE i \in 1..Len(b)
      <4>1. Len(h) + i \in 1..Len(h) + Len(b) /\ ~(Len(h) + i <= Len(h)) /\ Len(h) + i - Len(h) = i
        BY <1>4
      <4> QED  BY <1>4, <4>1
    <3>3. DOMAIN known = 1..Len(known)
      <4>1. known \in Seq(Nat)
        BY <1>1, ConcatProperties DEF known
      <4> QED  BY <4>1, LenProperties
    <3> QED  BY <3>1, <3>2, <3>3 DEF Contains
  <2> QED  BY <1>2, <1>7, <2>2, <2>3, <2>4 DEF Complete, Emitted
<1> QED  BY <1>6, <1>7 DEF known, h, b, Buffer, Subscribed

\* Everybody hears of every event since it subscribed, each once, but for what
\* exceptions and a second unsubscribe cost; and in the order of the emissions,
\* but that events emitted inside a delivery may come before that of it, and
\* what a flush still held when its watcher was started again after what the
\* inner start tells: however deeply listeners emit, subscribe and start inside
\* one another.
THEOREM EverybodyHears == BusSpec => []SubscribersHearAll
  BY BusInvInit, BusInvStep, BusInvHears, PTL DEF BusSpec
=============================================================================
