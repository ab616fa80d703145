------------------------- MODULE SessionRepo_proofs -------------------------
(***************************************************************************)
(* Proofs about making sessions and about reading them.                    *)
(*                                                                         *)
(* SessionRepo, for any processes, calls, ids and directories. OneSession: *)
(* one process makes two sessions of one id for one directory only if it   *)
(* took the destination anew while a thread of a cancelled call still made *)
(* it, whatever else crashes, fails or is deleted; it takes that calls     *)
(* which were not cancelled have their destinations claimed and to         *)
(* themselves (Claimed, OneHolder), that a thread which outlived its call  *)
(* is alone for its destination until that is taken anew (Alone), and that *)
(* until then what is on disk of a destination in the making can only be   *)
(* the call's own file (OnlyOwn). ForksWhole: a fork is on disk completely *)
(* or not at all; it takes that what is about to be published was filled,  *)
(* by a call that has the path to itself.                                  *)
(*                                                                         *)
(* SessionReads, for any items, searches, queries, page size and growth of *)
(* the sessions. What a query shows is a chain: strictly ordered, so that  *)
(* two of the same elements are equal. A page is a beginning of it         *)
(* (QueryTakes), a cursor cuts off what was seen (CursorCuts), and what    *)
(* was there when a reader began is shown as it was, whatever is appended  *)
(* (ShownStays). From these, a reader with a cursor sees what one query    *)
(* would have shown (PagesAreComplete), and a search hands out each hit    *)
(* once and misses none (SearchesAreComplete).                             *)
(***************************************************************************)
EXTENDS SessionRepo, SessionReads, Filters_proofs, FiniteSetTheorems, TLAPS

Places == {"create", "header", "fork", "fill", "publish", "undo"}

Call == [process : Processes, cwd : Cwds, id : SessionIds, stamp : Nat, pc : Places,
         orphan : BOOLEAN]

\* What a call in flight is, and who has claimed what.
RepoTypes ==
  /\ making \in [Callers -> {Idle, Over} \cup Call]
  /\ claims \in [Processes -> SUBSET (Cwds \X SessionIds)]
  /\ clock \in Nat

\* A call in flight whose caller still waits for it.
Waited(c) == InFlight(c) /\ ~making[c].orphan

\* It has claimed its destination.
Claimed ==
  \A c \in Callers : Waited(c) => <<making[c].cwd, making[c].id>> \in claims[making[c].process]

\* So there is one such call for a destination.
OneHolder ==
  \A c, d \in Callers : Waited(c) /\ Waited(d) /\ Destination(c) = Destination(d) => c = d

\* And nobody else is at work on it, unless it was taken anew.
Alone ==
  \A c, d \in Callers :
    InFlight(c) /\ InFlight(d) /\ Destination(c) = Destination(d) /\ c # d =>
      Destination(c) \in doubled

\* A file the process has made for the destination is the call's own.
OnlyOwn ==
  \A c \in Callers : InFlight(c) /\ Destination(c) \notin doubled =>
    \A f \in DOMAIN disk :
      /\ f[2] = making[c].id /\ disk[f].cwd = making[c].cwd /\ disk[f].by = making[c].process
      => f = Path(c)

\* The inductive invariant behind OneSessionPerDestination.
RepoInv == RepoTypes /\ Claimed /\ OneHolder /\ Alone /\ OnlyOwn /\ OneSessionPerDestination

-----------------------------------------------------------------------------
\* It holds before anything has been made.
LEMMA RepoInitInvariant == RepoInit => RepoInv
  BY DEF RepoInit, RepoInv, RepoTypes, Claimed, OneHolder, Alone, OnlyOwn,
         OneSessionPerDestination, InFlight, Waited

\* Giving back a claim leaves sets of destinations.
LEMMA UnclaimedTypes ==
  ASSUME RepoTypes, NEW c \in Callers, InFlight(c)
  PROVE  Unclaimed(c) \in [Processes -> SUBSET (Cwds \X SessionIds)]
<1>1. making[c].process \in Processes /\ claims \in [Processes -> SUBSET (Cwds \X SessionIds)]
  BY DEF RepoTypes, InFlight, Call
<1>2. QED
  BY <1>1 DEF Unclaimed

\* Calls in flight were in flight before, for the same file, and keep their
\* claims: what every step but the beginning of a call does to the calls.
Carry ==
  /\ making' \in [Callers -> {Idle, Over} \cup Call]
  /\ claims' \in [Processes -> SUBSET (Cwds \X SessionIds)]
  /\ doubled' = doubled
  /\ \A d \in Callers : InFlight(d)' =>
       /\ InFlight(d)
       /\ making'[d].process = making[d].process /\ making'[d].cwd = making[d].cwd
       /\ making'[d].id = making[d].id /\ making'[d].stamp = making[d].stamp
       /\ Waited(d)' =>
            Waited(d) /\ <<making[d].cwd, making[d].id>> \in claims'[making[d].process]

(* Such a step keeps every claim to a call of its own.                     *)
LEMMA CallsPreserve ==
  ASSUME RepoInv, Carry, clock' \in Nat
  PROVE  RepoTypes' /\ Claimed' /\ OneHolder' /\ Alone'
<1>1. RepoTypes'
  BY DEF Carry, RepoTypes
<1>2. \A d \in Callers : Waited(d)' => InFlight(d)'
  BY DEF Waited
<1>3. Claimed'
  BY <1>2 DEF Carry, Claimed
<1>4. \A d \in Callers : InFlight(d)' => Destination(d)' = Destination(d)
  BY DEF Carry, Destination
<1>5. OneHolder'
  BY <1>2, <1>4 DEF RepoInv, Carry, OneHolder
<1>6. Alone'
  BY <1>4 DEF RepoInv, Carry, Alone
<1>7. QED
  BY <1>1, <1>3, <1>5, <1>6

(* Files that go away, or stay, leave the others as they were.             *)
LEMMA FilesKept ==
  ASSUME RepoInv, Carry, \A f \in DOMAIN disk' : f \in DOMAIN disk /\ disk'[f] = disk[f]
  PROVE  OnlyOwn' /\ OneSessionPerDestination'
<1>1. \A d \in Callers : InFlight(d)' => Destination(d)' = Destination(d)
  BY DEF Carry, Destination
<1>2. OnlyOwn'
  BY <1>1 DEF RepoInv, Carry, OnlyOwn, Path
<1>3. OneSessionPerDestination'
  BY DEF RepoInv, Carry, OneSessionPerDestination
<1>4. QED
  BY <1>2, <1>3

(* A call writes to the one path that is its own.                          *)
LEMMA FileMade ==
  ASSUME RepoInv, Carry, NEW c \in Callers, InFlight(c), NEW body,
         disk' = Added(disk, Path(c), File(c, body))
  PROVE  OnlyOwn' /\ OneSessionPerDestination'
<1>1. /\ DOMAIN disk' = DOMAIN disk \cup {Path(c)}
      /\ disk'[Path(c)] = File(c, body)
      /\ \A f \in DOMAIN disk' : f # Path(c) => f \in DOMAIN disk /\ disk'[f] = disk[f]
  BY DEF Added
<1>2. /\ Path(c)[2] = making[c].id
      /\ File(c, body).cwd = making[c].cwd /\ File(c, body).by = making[c].process
  BY DEF Path, File
<1>3. doubled' = doubled
  BY DEF Carry
<1>4. Destination(c) \notin doubled =>
        \A f \in DOMAIN disk' :
          /\ f[2] = making[c].id /\ disk'[f].cwd = making[c].cwd
          /\ disk'[f].by = making[c].process
          => f = Path(c)
  BY <1>1 DEF RepoInv, OnlyOwn
<1>5. OneSessionPerDestination'
  <2> SUFFICES ASSUME NEW f \in DOMAIN disk', NEW g \in DOMAIN disk',
                      f # g, f[2] = g[2], disk'[f].cwd = disk'[g].cwd,
                      disk'[f].by = disk'[g].by,
                      <<disk'[f].by, disk'[f].cwd, f[2]>> \notin doubled
               PROVE  FALSE
    BY <1>3 DEF OneSessionPerDestination
  <2>1. f # Path(c) /\ g # Path(c)
    BY <1>1, <1>2, <1>4 DEF Destination
  <2>2. QED
    BY <1>1, <2>1 DEF RepoInv, OneSessionPerDestination
<1>6. OnlyOwn'
  <2> SUFFICES ASSUME NEW d \in Callers, InFlight(d)', Destination(d)' \notin doubled,
                      NEW f \in DOMAIN disk',
                      f[2] = making'[d].id, disk'[f].cwd = making'[d].cwd,
                      disk'[f].by = making'[d].process
               PROVE  f = Path(d)'
    BY <1>3 DEF OnlyOwn
  <2>1. /\ InFlight(d) /\ Path(d)' = Path(d) /\ Destination(d)' = Destination(d)
        /\ f[2] = making[d].id /\ disk'[f].cwd = making[d].cwd
        /\ disk'[f].by = making[d].process
    BY DEF Carry, Path, Destination
  <2>2. CASE f = Path(c)
    <3>1. Destination(c) = Destination(d)
      BY <1>1, <1>2, <2>1, <2>2 DEF Destination
    <3>2. QED
      BY <2>1, <2>2, <3>1 DEF RepoInv, Alone
  <2>3. CASE f # Path(c)
    BY <1>1, <2>1, <2>3 DEF RepoInv, OnlyOwn
  <2>4. QED
    BY <2>2, <2>3
<1>7. QED
  BY <1>5, <1>6

-----------------------------------------------------------------------------
(* A call that goes on, one that ends, one that is cancelled and one that  *)
(* dies with its process: the last three give back their own claims and,   *)
(* as each destination has one call that is waited for, nobody else's.     *)
LEMMA GoesCarries ==
  ASSUME RepoInv, NEW c \in Callers, InFlight(c), NEW pc \in Places, Goes(c, pc),
         doubled' = doubled
  PROVE  Carry
<1>1. /\ making \in [Callers -> {Idle, Over} \cup Call] /\ making[c] \in Call
      /\ claims \in [Processes -> SUBSET (Cwds \X SessionIds)]
  BY DEF RepoInv, RepoTypes, InFlight
<1>2. /\ making' = [making EXCEPT ![c] = [making[c] EXCEPT !.pc = pc]]
      /\ claims' = claims
  BY DEF Goes
<1>3. [making[c] EXCEPT !.pc = pc] \in Call
  BY <1>1 DEF Call
<1>4. \A d \in Callers : InFlight(d)' =>
        /\ InFlight(d)
        /\ making'[d].process = making[d].process /\ making'[d].cwd = making[d].cwd
        /\ making'[d].id = making[d].id /\ making'[d].stamp = making[d].stamp
        /\ Waited(d)' => Waited(d)
  <2> SUFFICES ASSUME NEW d \in Callers, InFlight(d)'
               PROVE  /\ InFlight(d)
                      /\ making'[d].process = making[d].process
                      /\ making'[d].cwd = making[d].cwd
                      /\ making'[d].id = making[d].id
                      /\ making'[d].stamp = making[d].stamp
                      /\ Waited(d)' => Waited(d)
    OBVIOUS
  <2>1. CASE d = c
    <3>1. making'[d] = [making[c] EXCEPT !.pc = pc]
      BY <1>1, <1>2, <2>1
    <3>2. QED
      BY <1>1, <2>1, <3>1 DEF Call, Waited
  <2>2. CASE d # c
    <3>1. making'[d] = making[d]
      BY <1>1, <1>2, <2>2
    <3>2. QED
      BY <3>1 DEF InFlight, Waited
  <2>3. QED
    BY <2>1, <2>2
<1>5. QED
  BY <1>1, <1>2, <1>3, <1>4 DEF Carry, RepoInv, Claimed

\* A claim that is given back takes nobody else's away.
LEMMA UnclaimedCarries ==
  ASSUME RepoInv, NEW c \in Callers, Waited(c), claims' = Unclaimed(c), doubled' = doubled,
         making' \in [Callers -> {Idle, Over} \cup Call],
         \A d \in Callers \ {c} : making'[d] = making[d],
         InFlight(c)' => /\ making'[c].process = making[c].process
                         /\ making'[c].cwd = making[c].cwd /\ making'[c].id = making[c].id
                         /\ making'[c].stamp = making[c].stamp /\ making'[c].orphan
  PROVE  Carry
<1>1. /\ making \in [Callers -> {Idle, Over} \cup Call]
      /\ claims \in [Processes -> SUBSET (Cwds \X SessionIds)]
      /\ InFlight(c) /\ \A d \in Callers : InFlight(d) => making[d] \in Call
  BY DEF RepoInv, RepoTypes, InFlight, Waited
<1> DEFINE p == making[c].process
           own == <<making[c].cwd, making[c].id>>
<1>2. claims' = [claims EXCEPT ![p] = claims[p] \ {own}]
  BY DEF Unclaimed
<1>3. p \in Processes
  BY <1>1 DEF Call
<1>4. \A d \in Callers : Waited(d)' => Waited(d) /\ d # c
  BY <1>1 DEF InFlight, Waited
<1>5. \A d \in Callers : Waited(d)' =>
        <<making[d].cwd, making[d].id>> \in claims'[making[d].process]
  <2> SUFFICES ASSUME NEW d \in Callers, Waited(d)'
               PROVE  <<making[d].cwd, making[d].id>> \in claims'[making[d].process]
    OBVIOUS
  <2>1. /\ Waited(d) /\ d # c /\ making[d].process \in Processes
        /\ <<making[d].cwd, making[d].id>> \in claims[making[d].process]
    BY <1>1, <1>4 DEF Call, RepoInv, Claimed, Waited
  <2>2. making[d].process = p => <<making[d].cwd, making[d].id>> # own
    BY <2>1 DEF RepoInv, OneHolder, Destination
  <2>3. QED
    BY <1>1, <1>2, <1>3, <2>1, <2>2
<1>6. claims' \in [Processes -> SUBSET (Cwds \X SessionIds)]
  BY <1>1, UnclaimedTypes DEF RepoInv
<1>7. \A d \in Callers : InFlight(d)' =>
        /\ InFlight(d)
        /\ making'[d].process = making[d].process /\ making'[d].cwd = making[d].cwd
        /\ making'[d].id = making[d].id /\ making'[d].stamp = making[d].stamp
  BY <1>1 DEF InFlight
<1>8. QED
  BY <1>4, <1>5, <1>6, <1>7 DEF Carry

\* A call that ends gives up its claim, and no other.
LEMMA EndsCarries ==
  ASSUME RepoInv, NEW c \in Callers, InFlight(c), Ends(c), doubled' = doubled
  PROVE  Carry
<1>1. /\ making \in [Callers -> {Idle, Over} \cup Call]
      /\ claims \in [Processes -> SUBSET (Cwds \X SessionIds)]
      /\ making' = [making EXCEPT ![c] = Over]
  BY DEF RepoInv, RepoTypes, Ends
<1>2. /\ making' \in [Callers -> {Idle, Over} \cup Call]
      /\ \A d \in Callers \ {c} : making'[d] = making[d]
      /\ ~InFlight(c)'
  BY <1>1 DEF InFlight
<1>3. CASE making[c].orphan
  <2>1. claims' = claims
    BY <1>3 DEF Ends
  <2>2. \A d \in Callers : InFlight(d)' =>
          InFlight(d) /\ making'[d] = making[d] /\ (Waited(d)' => Waited(d))
    BY <1>2 DEF InFlight, Waited
  <2>3. QED
    BY <1>1, <1>2, <2>1, <2>2 DEF Carry, RepoInv, Claimed
<1>4. CASE ~making[c].orphan
  <2>1. Waited(c) /\ claims' = Unclaimed(c)
    BY <1>4 DEF Ends, Waited
  <2>2. QED
    BY <1>2, <2>1, UnclaimedCarries
<1>5. QED
  BY <1>3, <1>4

\* A thread goes on with its call or ends without it.
LEMMA EndsOrGoesCarries ==
  ASSUME RepoInv, NEW c \in Callers, InFlight(c), NEW pc \in Places, EndsOrGoes(c, pc),
         doubled' = doubled
  PROVE  Carry
BY GoesCarries, EndsCarries DEF EndsOrGoes

\* A call that is cancelled gives up its claim, and no other.
LEMMA CancelCarries ==
  ASSUME RepoInv, NEW c \in Callers, Cancel(c)
  PROVE  Carry
<1>1. /\ making \in [Callers -> {Idle, Over} \cup Call] /\ making[c] \in Call
      /\ Waited(c) /\ claims' = Unclaimed(c) /\ doubled' = doubled
  BY DEF RepoInv, RepoTypes, InFlight, Waited, Cancel
<1>2. CASE making' = [making EXCEPT ![c].orphan = TRUE]
  <2>1. /\ \A d \in Callers \ {c} : making'[d] = making[d]
        /\ making'[c] = [making[c] EXCEPT !.orphan = TRUE]
    BY <1>1, <1>2
  <2>2. /\ making'[c] \in Call /\ making'[c].orphan
        /\ making'[c].process = making[c].process /\ making'[c].cwd = making[c].cwd
        /\ making'[c].stamp = making[c].stamp /\ making'[c].id = making[c].id
    BY <1>1, <2>1 DEF Call
  <2>3. making' \in [Callers -> {Idle, Over} \cup Call]
    BY <1>1, <1>2, <2>1, <2>2
  <2>4. QED
    BY <1>1, <2>1, <2>2, <2>3, UnclaimedCarries
<1>3. CASE making' = [making EXCEPT ![c] = Over]
  <2>1. /\ making' \in [Callers -> {Idle, Over} \cup Call]
        /\ \A d \in Callers \ {c} : making'[d] = making[d]
        /\ ~InFlight(c)'
    BY <1>1, <1>3 DEF InFlight
  <2>2. QED
    BY <1>1, <2>1, UnclaimedCarries
<1>4. QED
  BY <1>2, <1>3 DEF Cancel

\* The calls of a process die with it, and its claims.
LEMMA CrashCarries ==
  ASSUME RepoInv, NEW p \in Processes, CrashProcess(p)
  PROVE  Carry
<1>1. /\ making \in [Callers -> {Idle, Over} \cup Call] /\ doubled' = doubled
      /\ claims \in [Processes -> SUBSET (Cwds \X SessionIds)]
      /\ \A d \in Callers : InFlight(d) => making[d] \in Call
  BY DEF RepoInv, RepoTypes, InFlight, CrashProcess
<1>2. /\ making' = [c \in Callers |->
                     IF InFlight(c) /\ making[c].process = p THEN Over ELSE making[c]]
      /\ claims' = [claims EXCEPT ![p] = {}]
  BY DEF CrashProcess
<1>3. \A d \in Callers : InFlight(d)' =>
        /\ InFlight(d) /\ making'[d] = making[d] /\ making[d].process # p
        /\ Waited(d)' => Waited(d)
  BY <1>2 DEF InFlight, Waited
<1>4. \A d \in Callers : InFlight(d)' /\ Waited(d)' =>
        <<making[d].cwd, making[d].id>> \in claims'[making[d].process]
  BY <1>1, <1>2, <1>3 DEF RepoInv, Claimed, Call
<1>5. /\ making' \in [Callers -> {Idle, Over} \cup Call]
      /\ claims' \in [Processes -> SUBSET (Cwds \X SessionIds)]
  BY <1>1, <1>2
<1>6. QED
  BY <1>1, <1>3, <1>4, <1>5 DEF Carry

\* A step that is no call's and no crash changes neither calls nor claims.
LEMMA SameCallsCarry ==
  ASSUME RepoInv, UNCHANGED <<making, claims, doubled>>
  PROVE  Carry
BY DEF RepoInv, RepoTypes, Claimed, Carry, InFlight, Waited

-----------------------------------------------------------------------------
(* A call that begins finds no file of its id and no claim of its process, *)
(* so no waited-for call has its destination, a thread that has it makes   *)
(* it one taken anew, and there is no file yet.                            *)
LEMMA BeginPreserves ==
  ASSUME RepoInv, NEW c \in Callers, NEW p \in Processes, NEW kind \in {"create", "fork"},
         NEW cwd \in Cwds, NEW id \in SessionIds, Begin(c, p, kind, cwd, id)
  PROVE  RepoInv'
<1>0. /\ making \in [Callers -> {Idle, Over} \cup Call] /\ clock \in Nat /\ disk' = disk
      /\ claims \in [Processes -> SUBSET (Cwds \X SessionIds)] /\ clock' = clock
      /\ doubled \subseteq doubled'
  BY DEF RepoInv, RepoTypes, Begin
<1>1. CASE Refused(p, cwd, id)
  <2>1. making' = [making EXCEPT ![c] = Over] /\ claims' = claims /\ doubled' = doubled
    BY <1>1 DEF Begin
  <2>2. \A d \in Callers : InFlight(d)' =>
          InFlight(d) /\ making'[d] = making[d] /\ (Waited(d)' => Waited(d))
    BY <1>0, <2>1 DEF InFlight, Waited
  <2>3. Carry
    BY <1>0, <2>1, <2>2 DEF Carry, RepoInv, Claimed
  <2>4. QED
    BY <1>0, <2>3, CallsPreserve, FilesKept DEF RepoInv
<1>2. CASE ~Refused(p, cwd, id)
  <2> DEFINE new == [process |-> p, cwd |-> cwd, id |-> id, stamp |-> clock, pc |-> kind,
                     orphan |-> FALSE]
             dest == <<p, cwd, id>>
  <2>1. /\ making' = [making EXCEPT ![c] = new]
        /\ claims' = [claims EXCEPT ![p] = @ \cup {<<cwd, id>>}]
    BY <1>2 DEF Begin
  <2>2. <<cwd, id>> \notin claims[p] /\ \A f \in DOMAIN disk : f[2] # id
    BY <1>2 DEF Refused, IdExists
  <2>3. new \in Call
    BY <1>0 DEF Call, Places
  <2>4. RepoTypes'
    BY <1>0, <2>1, <2>3 DEF RepoTypes
  <2>5. \A d \in Callers \ {c} : making'[d] = making[d] /\ (InFlight(d)' <=> InFlight(d))
    BY <1>0, <2>1 DEF InFlight
  <2>6. making'[c] = new
    BY <1>0, <2>1
  <2>7. \A d \in Callers : InFlight(d) => making[d] \in Call
    BY <1>0 DEF InFlight
  <2>8. \A q \in Processes : claims[q] \subseteq claims'[q]
    BY <1>0, <2>1
  <2>9. <<cwd, id>> \in claims'[p]
    BY <1>0, <2>1
  <2>10. \A d \in Callers \ {c} : (Waited(d)' <=> Waited(d)) /\ Destination(d)' = Destination(d)
    BY <2>5 DEF Waited, Destination
  <2>11. Destination(c)' = dest
    BY <2>6 DEF Destination
  <2>12. \A d \in Callers \ {c} : Waited(d) => Destination(d) # dest
    BY <2>2 DEF RepoInv, Claimed, Destination
  <2>13. \A d \in Callers \ {c} : InFlight(d) /\ Destination(d) = dest => dest \in doubled'
    BY <1>2, <2>12 DEF Begin, Waited
  <2>14. Claimed'
    <3> SUFFICES ASSUME NEW d \in Callers, Waited(d)'
                 PROVE  <<making'[d].cwd, making'[d].id>> \in claims'[making'[d].process]
      BY DEF Claimed
    <3>1. CASE d = c
      BY <3>1, <2>6, <2>9
    <3>2. CASE d # c
      <4>1. Waited(d) /\ making'[d] = making[d] /\ making[d].process \in Processes
        BY <3>2, <2>5, <2>7, <2>10 DEF Call, Waited
      <4>2. QED
        BY <4>1, <2>8 DEF RepoInv, Claimed
    <3>3. QED
      BY <3>1, <3>2
  <2>15. OneHolder'
    BY <2>10, <2>11, <2>12 DEF RepoInv, OneHolder
  <2>16. Alone'
    BY <1>0, <2>5, <2>10, <2>11, <2>13 DEF RepoInv, Alone
  <2>17. OnlyOwn'
    BY <1>0, <2>2, <2>5, <2>6, <2>10 DEF RepoInv, OnlyOwn, Path
  <2>18. OneSessionPerDestination'
    BY <1>0 DEF RepoInv, OneSessionPerDestination
  <2>19. QED
    BY <2>4, <2>14, <2>15, <2>16, <2>17, <2>18 DEF RepoInv
<1>3. QED
  BY <1>1, <1>2

(* Every step of the repository keeps the invariant.                       *)
LEMMA RepoStep ==
  ASSUME RepoInv, [RepoNext]_repoVars
  PROVE  RepoInv'
<1>0. clock \in Nat
  BY DEF RepoInv, RepoTypes
<1>a. ASSUME Carry, disk' = disk, clock' \in Nat
      PROVE  RepoInv'
  BY <1>a, FilesKept, CallsPreserve DEF RepoInv
<1>b. ASSUME Carry, clock' = clock, NEW c \in Callers, InFlight(c), NEW body,
             disk' = Added(disk, Path(c), File(c, body))
      PROVE  RepoInv'
  <2>1. OnlyOwn' /\ OneSessionPerDestination'
    BY <1>b, FileMade
  <2>2. QED
    BY <1>0, <1>b, <2>1, CallsPreserve DEF RepoInv
<1>1. ASSUME NEW c \in Callers, OpenNew(c)
      PROVE  RepoInv'
  <2>1. InFlight(c) /\ clock' = clock /\ doubled' = doubled /\ "header" \in Places
    BY <1>1 DEF OpenNew, At, Places
  <2>2. Carry
    BY <1>1, <2>1, GoesCarries, EndsCarries DEF OpenNew
  <2>3. QED
    BY <1>0, <1>1, <1>a, <1>b, <2>1, <2>2 DEF OpenNew
<1>2. ASSUME NEW c \in Callers, WriteHeader(c)
      PROVE  RepoInv'
  <2>1. InFlight(c) /\ clock' = clock /\ doubled' = doubled
    BY <1>2 DEF WriteHeader, At
  <2>2. Carry
    BY <1>2, <2>1, EndsCarries DEF WriteHeader
  <2>3. QED
    BY <1>0, <1>2, <1>a, <1>b, <2>1, <2>2 DEF WriteHeader
<1>3. ASSUME NEW c \in Callers, Stage(c)
      PROVE  RepoInv'
  <2>1. InFlight(c) /\ clock' = clock /\ disk' = disk /\ doubled' = doubled /\ "fill" \in Places
    BY <1>3 DEF Stage, At, Places
  <2>2. Carry
    BY <1>3, <2>1, EndsOrGoesCarries DEF Stage
  <2>3. QED
    BY <1>0, <1>a, <2>1, <2>2
<1>4. ASSUME NEW c \in Callers, Fill(c)
      PROVE  RepoInv'
  <2>1. /\ InFlight(c) /\ clock' = clock /\ disk' = disk /\ doubled' = doubled
        /\ "publish" \in Places /\ "undo" \in Places
    BY <1>4 DEF Fill, At, Places
  <2>2. Carry
    BY <1>4, <2>1, GoesCarries, EndsCarries, EndsOrGoesCarries DEF Fill
  <2>3. QED
    BY <1>0, <1>a, <2>1, <2>2
<1>5. ASSUME NEW c \in Callers, Publish(c)
      PROVE  RepoInv'
  <2>1. InFlight(c) /\ clock' = clock /\ doubled' = doubled /\ "undo" \in Places
    BY <1>5 DEF Publish, At, Places
  <2>2. Carry
    BY <1>5, <2>1, EndsCarries, EndsOrGoesCarries DEF Publish
  <2>3. QED
    BY <1>0, <1>5, <1>a, <1>b, <2>1, <2>2 DEF Publish
<1>6. ASSUME NEW c \in Callers, Undo(c)
      PROVE  RepoInv'
  <2>1. InFlight(c) /\ clock' = clock /\ disk' = disk /\ doubled' = doubled
    BY <1>6 DEF Undo, At
  <2>2. Carry
    BY <1>6, <2>1, EndsCarries DEF Undo
  <2>3. QED
    BY <1>0, <1>a, <2>1, <2>2
<1>7. ASSUME NEW c \in Callers, Cancel(c)
      PROVE  RepoInv'
  <2>1. clock' = clock /\ disk' = disk
    BY <1>7 DEF Cancel
  <2>2. QED
    BY <1>0, <1>7, <1>a, <2>1, CancelCarries
<1>8. ASSUME NEW path \in DOMAIN disk, Delete(path)
      PROVE  RepoInv'
  <2>1. disk' = Removed(disk, path) /\ UNCHANGED <<making, claims, doubled>> /\ clock' = clock
    BY <1>8 DEF Delete
  <2>2. \A f \in DOMAIN disk' : f \in DOMAIN disk /\ disk'[f] = disk[f]
    BY <2>1 DEF Removed, Restrict
  <2>3. QED
    BY <1>0, <2>1, <2>2, SameCallsCarry, FilesKept, CallsPreserve DEF RepoInv
<1>9. ASSUME NEW p \in Processes, CrashProcess(p)
      PROVE  RepoInv'
  <2>1. disk' = disk /\ clock' = clock
    BY <1>9 DEF CrashProcess
  <2>2. QED
    BY <1>0, <1>9, <1>a, <2>1, CrashCarries
<1>10. CASE Tick
  <2>1. disk' = disk /\ UNCHANGED <<making, claims, doubled>> /\ clock' \in Nat
    BY <1>0, <1>10 DEF Tick
  <2>2. QED
    BY <1>a, <2>1, SameCallsCarry
<1>11. CASE UNCHANGED repoVars
  <2>1. disk' = disk /\ UNCHANGED <<making, claims, doubled>> /\ clock' = clock
    BY <1>11 DEF repoVars
  <2>2. QED
    BY <1>0, <1>a, <2>1, SameCallsCarry
<1>12. QED
  BY <1>1, <1>2, <1>3, <1>4, <1>5, <1>6, <1>7, <1>8, <1>9, <1>10, <1>11, BeginPreserves
  DEF RepoNext

(* One process makes two sessions of one id for one directory only if it   *)
(* took that destination anew while a thread whose caller was cancelled    *)
(* still made it, in every reachable state, however calls interleave,      *)
(* fail, are cancelled or die.                                             *)
THEOREM OneSession == RepoSpec => []OneSessionPerDestination
<1>1. RepoInv /\ [RepoNext]_repoVars => RepoInv'
  BY RepoStep
<1>2. RepoInv => OneSessionPerDestination
  BY DEF RepoInv
<1>3. QED
  BY RepoInitInvariant, <1>1, <1>2, PTL DEF RepoSpec

-----------------------------------------------------------------------------
(* A fork is whole or not there. What is renamed into place was completed  *)
(* by the call that renames it, unless another call in flight had the same *)
(* path, and then the path has been noted as raced (PathsApart): a .tmp    *)
(* file a crash has left is written anew before it is renamed.             *)

\* Two calls in flight that have one path have been seen to.
PathsApart ==
  \A c, d \in Callers :
    InFlight(c) /\ InFlight(d) /\ c # d /\ Path(c) = Path(d) => Path(c) \in raced

\* What a call is about to rename is complete.
StagedWhole ==
  \A c \in Callers :
    At(c, "publish") /\ Path(c) \notin raced /\ Path(c) \in DOMAIN staged =>
      staged[Path(c)] = "whole"

\* The inductive invariant behind ForksAppearWhole.
WholeInv == RepoTypes /\ PathsApart /\ StagedWhole /\ ForksAppearWhole

\* It holds before anything has been made.
LEMMA WholeInitInvariant == RepoInit => WholeInv
  BY DEF RepoInit, WholeInv, RepoTypes, PathsApart, StagedWhole, ForksAppearWhole, InFlight, At

\* Calls in flight were in flight before, for the same path, and none comes to
\* the point of renaming: what most steps do to the calls.
Lingers(moved) ==
  /\ making' \in [Callers -> {Idle, Over} \cup Call]
  /\ claims' \in [Processes -> SUBSET (Cwds \X SessionIds)]
  /\ \A d \in Callers : InFlight(d)' =>
       /\ InFlight(d) /\ Path(d)' = Path(d)
       /\ At(d, "publish")' => At(d, "publish") \/ d \in moved

(* A step that starts no call keeps the paths apart.                       *)
LEMMA PathsKept ==
  ASSUME WholeInv, NEW moved, Lingers(moved), clock' \in Nat, raced' = raced
  PROVE  RepoTypes' /\ PathsApart'
<1>1. RepoTypes'
  BY DEF RepoTypes, Lingers
<1>2. PathsApart'
  BY DEF WholeInv, PathsApart, Lingers
<1>3. QED
  BY <1>1, <1>2

(* Steps that write to a .tmp file write to one path, and a call that is   *)
(* about to rename a file of that path is the one that writes, or both     *)
(* have been noted.                                                        *)
LEMMA StagedKept ==
  ASSUME WholeInv, NEW c \in Callers, InFlight(c), NEW moved, moved \subseteq {c},
         Lingers(moved), raced' = raced,
         \A p \in DOMAIN staged' : p # Path(c) => p \in DOMAIN staged /\ staged'[p] = staged[p],
         At(c, "publish")' /\ Path(c) \in DOMAIN staged' => staged'[Path(c)] = "whole"
  PROVE  StagedWhole'
<1> SUFFICES ASSUME NEW d \in Callers, At(d, "publish")', Path(d)' \notin raced,
                    Path(d)' \in DOMAIN staged'
             PROVE  staged'[Path(d)'] = "whole"
  BY DEF StagedWhole
<1>1. InFlight(d)' /\ InFlight(d) /\ Path(d)' = Path(d)
  BY DEF Lingers, At
<1>2. CASE d = c
  BY <1>1, <1>2
<1>3. CASE d # c
  <2>1. Path(d) # Path(c)
    BY <1>1, <1>3 DEF WholeInv, PathsApart
  <2>2. At(d, "publish")
    BY <1>1, <1>3 DEF Lingers
  <2>3. QED
    BY <1>1, <2>1, <2>2 DEF WholeInv, StagedWhole
<1>4. QED
  BY <1>2, <1>3

(* Calls that go on, to a place that is not the renaming unless they are   *)
(* the one that moves; calls that end; calls that die.                     *)
LEMMA GoesLingers ==
  ASSUME WholeInv, NEW c \in Callers, InFlight(c),
         NEW pc \in Places, Goes(c, pc)
  PROVE  /\ Lingers({c})
         /\ pc # "publish" => Lingers({}) /\ ~At(c, "publish")'
<1>1. /\ making \in [Callers -> {Idle, Over} \cup Call] /\ making[c] \in Call
      /\ claims \in [Processes -> SUBSET (Cwds \X SessionIds)]
  BY DEF WholeInv, RepoTypes, InFlight
<1>2. /\ making' = [making EXCEPT ![c] = [making[c] EXCEPT !.pc = pc]]
      /\ claims' = claims
  BY DEF Goes
<1>3. [making[c] EXCEPT !.pc = pc] \in Call
  BY <1>1 DEF Call
<1>4. \A d \in Callers : d # c => making'[d] = making[d]
  BY <1>1, <1>2
<1>5. /\ making'[c] = [making[c] EXCEPT !.pc = pc] /\ making'[c].pc = pc
      /\ making'[c].stamp = making[c].stamp /\ making'[c].id = making[c].id
  BY <1>1, <1>2 DEF Call
<1>6. \A d \in Callers : InFlight(d)' => InFlight(d) /\ Path(d)' = Path(d)
  BY <1>4, <1>5 DEF InFlight, Path
<1>7. \A d \in Callers : d # c /\ At(d, "publish")' => At(d, "publish")
  BY <1>4 DEF InFlight, At
<1>8. At(c, "publish")' => pc = "publish"
  BY <1>5 DEF At
<1>9. QED
  BY <1>1, <1>2, <1>3, <1>6, <1>7, <1>8 DEF Lingers

\* A call that ends is in flight for no path.
LEMMA EndsLingers ==
  ASSUME WholeInv, NEW c \in Callers, InFlight(c), Ends(c)
  PROVE  Lingers({}) /\ ~At(c, "publish")'
<1>1. /\ making \in [Callers -> {Idle, Over} \cup Call] /\ making[c] \in Call
      /\ claims \in [Processes -> SUBSET (Cwds \X SessionIds)]
  BY DEF WholeInv, RepoTypes, InFlight
<1>2. /\ making' = [making EXCEPT ![c] = Over]
      /\ claims' = claims \/ claims' = Unclaimed(c)
  BY DEF Ends
<1>3. /\ making' \in [Callers -> {Idle, Over} \cup Call]
      /\ claims' \in [Processes -> SUBSET (Cwds \X SessionIds)]
  BY <1>1, <1>2, UnclaimedTypes DEF WholeInv
<1>4. \A d \in Callers : InFlight(d)' => d # c /\ making'[d] = making[d]
  BY <1>1, <1>2 DEF InFlight
<1>5. QED
  BY <1>3, <1>4 DEF Lingers, InFlight, Path, At

\* A thread goes on or ends, and renames only if it goes on to.
LEMMA EndsOrGoesLingers ==
  ASSUME WholeInv, NEW c \in Callers, InFlight(c), NEW pc \in Places, EndsOrGoes(c, pc)
  PROVE  /\ Lingers({c})
         /\ pc # "publish" => Lingers({}) /\ ~At(c, "publish")'
<1>1. CASE making[c].orphan
  <2>1. Lingers({}) /\ ~At(c, "publish")'  BY <1>1, EndsLingers DEF EndsOrGoes
  <2>2. QED  BY <2>1 DEF Lingers
<1>2. CASE ~making[c].orphan
  BY <1>2, GoesLingers DEF EndsOrGoes
<1>3. QED
  BY <1>1, <1>2

\* A call that is cancelled stays where it was, or ends.
LEMMA CancelLingers ==
  ASSUME WholeInv, NEW c \in Callers, Cancel(c)
  PROVE  Lingers({})
<1>1. /\ making \in [Callers -> {Idle, Over} \cup Call] /\ making[c] \in Call
      /\ InFlight(c) /\ claims' = Unclaimed(c)
  BY DEF WholeInv, RepoTypes, InFlight, Cancel
<1>2. claims' \in [Processes -> SUBSET (Cwds \X SessionIds)]
  BY <1>1, UnclaimedTypes DEF WholeInv
<1>3. CASE making' = [making EXCEPT ![c].orphan = TRUE]
  <2>1. /\ \A d \in Callers : d # c => making'[d] = making[d]
        /\ making'[c] = [making[c] EXCEPT !.orphan = TRUE]
    BY <1>1, <1>3
  <2>2. /\ making'[c] \in Call /\ making'[c].pc = making[c].pc
        /\ making'[c].stamp = making[c].stamp /\ making'[c].id = making[c].id
    BY <1>1, <2>1 DEF Call
  <2>3. making' \in [Callers -> {Idle, Over} \cup Call]
    BY <1>1, <1>3, <2>1, <2>2
  <2>4. \A d \in Callers : InFlight(d)' =>
          InFlight(d) /\ Path(d)' = Path(d) /\ (At(d, "publish")' => At(d, "publish"))
    BY <1>1, <2>1, <2>2 DEF InFlight, Path, At
  <2>5. QED
    BY <1>2, <2>3, <2>4 DEF Lingers
<1>4. CASE making' = [making EXCEPT ![c] = Over]
  <2>1. making' \in [Callers -> {Idle, Over} \cup Call]
    BY <1>1, <1>4
  <2>2. \A d \in Callers : InFlight(d)' => d # c /\ making'[d] = making[d]
    BY <1>1, <1>4 DEF InFlight
  <2>3. QED
    BY <1>2, <2>1, <2>2 DEF Lingers, InFlight, Path, At
<1>5. QED
  BY <1>3, <1>4 DEF Cancel

\* A crash leaves no call of its process in flight.
LEMMA CrashLingers ==
  ASSUME WholeInv, NEW p \in Processes, CrashProcess(p)
  PROVE  Lingers({})
<1>1. /\ making \in [Callers -> {Idle, Over} \cup Call]
      /\ claims \in [Processes -> SUBSET (Cwds \X SessionIds)]
  BY DEF WholeInv, RepoTypes
<1>2. /\ making' = [c \in Callers |->
                     IF InFlight(c) /\ making[c].process = p THEN Over ELSE making[c]]
      /\ claims' = [claims EXCEPT ![p] = {}]
  BY DEF CrashProcess
<1>3. \A d \in Callers : InFlight(d)' => InFlight(d) /\ making'[d] = making[d]
  BY <1>2 DEF InFlight
<1>4. /\ making' \in [Callers -> {Idle, Over} \cup Call]
      /\ claims' \in [Processes -> SUBSET (Cwds \X SessionIds)]
  BY <1>1, <1>2
<1>5. QED
  BY <1>3, <1>4 DEF Lingers, Path, At

\* A step that is no call's and no crash leaves the calls in flight.
LEMMA SameCallsLinger ==
  ASSUME WholeInv, UNCHANGED <<making, claims>>
  PROVE  Lingers({})
BY DEF WholeInv, RepoTypes, Lingers, InFlight, Path, At

(* A call that begins with the path of another one is noted.               *)
LEMMA BeginKeepsWhole ==
  ASSUME WholeInv, NEW c \in Callers, NEW p \in Processes, NEW kind \in {"create", "fork"},
         NEW cwd \in Cwds, NEW id \in SessionIds, Begin(c, p, kind, cwd, id)
  PROVE  WholeInv'
<1>0. /\ making \in [Callers -> {Idle, Over} \cup Call] /\ clock \in Nat
      /\ claims \in [Processes -> SUBSET (Cwds \X SessionIds)]
      /\ UNCHANGED <<disk, staged, clock>> /\ making[c] = Idle
  BY DEF WholeInv, RepoTypes, Begin
<1>1. raced \subseteq raced'
  BY DEF Begin
<1>2. ForksAppearWhole'
  BY <1>0, <1>1 DEF WholeInv, ForksAppearWhole
<1> DEFINE new == [process |-> p, cwd |-> cwd, id |-> id, stamp |-> clock, pc |-> kind,
                  orphan |-> FALSE]
<1>3. CASE Refused(p, cwd, id)
  <2>1. making' = [making EXCEPT ![c] = Over] /\ claims' = claims /\ raced' = raced
    BY <1>3 DEF Begin
  <2>2. \A d \in Callers : InFlight(d)' => InFlight(d) /\ making'[d] = making[d]
    BY <1>0, <2>1 DEF InFlight
  <2>3. making' \in [Callers -> {Idle, Over} \cup Call]
    BY <1>0, <2>1
  <2>4. Lingers({})
    BY <1>0, <2>1, <2>2, <2>3 DEF Lingers, Path, At
  <2>5. RepoTypes' /\ PathsApart'
    BY <1>0, <2>1, <2>4, PathsKept
  <2>6. StagedWhole'
    BY <1>0, <2>1, <2>2 DEF WholeInv, StagedWhole, At, Path
  <2>7. QED
    BY <1>2, <2>5, <2>6 DEF WholeInv
<1>4. CASE ~Refused(p, cwd, id)
  <2>1. /\ making' = [making EXCEPT ![c] = new]
        /\ claims' = [claims EXCEPT ![p] = claims[p] \cup {<<cwd, id>>}]
        /\ \A d \in Callers : InFlight(d) /\ Path(d) = <<clock, id>> => <<clock, id>> \in raced'
    BY <1>4 DEF Begin
  <2>2. new \in Call
    BY <1>0 DEF Call, Places
  <2>3. RepoTypes'
    BY <1>0, <2>1, <2>2 DEF RepoTypes
  <2>4. \A d \in Callers \ {c} :
          making'[d] = making[d] /\ (InFlight(d)' => InFlight(d)) /\ Path(d)' = Path(d)
    BY <1>0, <2>1 DEF InFlight, Path
  <2>5. making'[c] = new /\ Path(c)' = <<clock, id>>
    BY <1>0, <2>1 DEF Path
  <2>6. PathsApart'
    BY <1>1, <2>1, <2>4, <2>5 DEF WholeInv, PathsApart
  <2>7. ~At(c, "publish")'
    BY <2>5 DEF At
  <2>8. StagedWhole'
    BY <1>0, <1>1, <2>4, <2>7 DEF WholeInv, StagedWhole, At, InFlight
  <2>9. QED
    BY <1>2, <2>3, <2>6, <2>8 DEF WholeInv
<1>5. QED
  BY <1>3, <1>4

(* Every step keeps forks whole.                                           *)
LEMMA WholeStep ==
  ASSUME WholeInv, [RepoNext]_repoVars
  PROVE  WholeInv'
<1>0. clock \in Nat
  BY DEF WholeInv, RepoTypes
<1>a. ASSUME Lingers({}), UNCHANGED <<staged, clock, raced>>, ForksAppearWhole'
      PROVE  WholeInv'
  <2>1. StagedWhole'
    BY <1>a DEF WholeInv, StagedWhole, Lingers, At
  <2>2. QED
    BY <1>0, <1>a, <2>1, PathsKept DEF WholeInv
<1>b. ASSUME NEW c \in Callers, InFlight(c), Lingers({}), ~At(c, "publish")',
             UNCHANGED <<clock, raced>>, ForksAppearWhole', NEW body,
             staged' = Added(staged, Path(c), body) \/ staged' = Removed(staged, Path(c))
      PROVE  WholeInv'
  <2>1. StagedWhole'
    BY <1>b, StagedKept DEF Added, Removed, Restrict
  <2>2. QED
    BY <1>0, <1>b, <2>1, PathsKept DEF WholeInv
<1>1. ASSUME NEW c \in Callers, OpenNew(c)
      PROVE  WholeInv'
  <2>1. /\ InFlight(c) /\ UNCHANGED <<staged, clock, raced>> /\ "header" \in Places
        /\ disk' = Added(disk, Path(c), File(c, "torn")) \/ disk' = disk
    BY <1>1 DEF OpenNew, At, Places
  <2>2. Lingers({})
    BY <1>1, <2>1, GoesLingers, EndsLingers DEF OpenNew
  <2>3. ForksAppearWhole'
    BY <2>1 DEF WholeInv, ForksAppearWhole, Added, File
  <2>4. QED
    BY <1>a, <2>1, <2>2, <2>3
<1>2. ASSUME NEW c \in Callers, WriteHeader(c)
      PROVE  WholeInv'
  <2>1. /\ InFlight(c) /\ UNCHANGED <<staged, clock, raced>>
        /\ disk' = Added(disk, Path(c), File(c, "whole")) \/ disk' = disk
    BY <1>2 DEF WriteHeader, At
  <2>2. Lingers({})
    BY <1>2, <2>1, EndsLingers DEF WriteHeader
  <2>3. ForksAppearWhole'
    BY <2>1 DEF WholeInv, ForksAppearWhole, Added, File
  <2>4. QED
    BY <1>a, <2>1, <2>2, <2>3
<1>3. ASSUME NEW c \in Callers, Stage(c)
      PROVE  WholeInv'
  <2>1. /\ InFlight(c) /\ UNCHANGED <<disk, clock, raced>> /\ "fill" \in Places
        /\ staged' = Added(staged, Path(c), "part")
    BY <1>3 DEF Stage, At, Places
  <2>2. Lingers({}) /\ ~At(c, "publish")'
    BY <1>3, <2>1, EndsOrGoesLingers DEF Stage
  <2>3. ForksAppearWhole'
    BY <2>1 DEF WholeInv, ForksAppearWhole
  <2>4. QED
    BY <1>b, <2>1, <2>2, <2>3
<1>4. ASSUME NEW c \in Callers, Fill(c)
      PROVE  WholeInv'
  <2>1. /\ InFlight(c) /\ UNCHANGED <<disk, clock, raced>>
        /\ "publish" \in Places /\ "undo" \in Places
    BY <1>4 DEF Fill, At, Places
  <2>2. ForksAppearWhole'
    BY <2>1 DEF WholeInv, ForksAppearWhole
  <2>3. CASE staged' = Added(staged, Path(c), "whole") /\ Goes(c, "publish")
    <3>1. Lingers({c})
      BY <2>1, <2>3, GoesLingers
    <3>2. StagedWhole'
      BY <2>1, <2>3, <3>1, StagedKept DEF Added
    <3>3. QED
      BY <1>0, <2>1, <2>2, <3>1, <3>2, PathsKept DEF WholeInv
  <2>4. CASE staged' = Added(staged, Path(c), "part") /\ Ends(c)
    <3>1. Lingers({}) /\ ~At(c, "publish")'
      BY <2>1, <2>4, EndsLingers
    <3>2. QED
      BY <1>b, <2>1, <2>2, <2>4, <3>1
  <2>5. CASE EndsOrGoes(c, "undo") /\ UNCHANGED staged
    <3>1. Lingers({})
      BY <2>1, <2>5, EndsOrGoesLingers
    <3>2. QED
      BY <1>a, <2>1, <2>2, <2>5, <3>1
  <2>6. QED
    BY <1>4, <2>3, <2>4, <2>5 DEF Fill
<1>5. ASSUME NEW c \in Callers, Publish(c)
      PROVE  WholeInv'
  <2>1. InFlight(c) /\ At(c, "publish") /\ UNCHANGED <<clock, raced>> /\ "undo" \in Places
    BY <1>5 DEF Publish, At, Places
  <2>2. CASE EndsOrGoes(c, "undo") /\ UNCHANGED <<disk, staged>>
    <3>1. Lingers({})
      BY <2>1, <2>2, EndsOrGoesLingers
    <3>2. ForksAppearWhole'
      BY <2>1, <2>2 DEF WholeInv, ForksAppearWhole
    <3>3. QED
      BY <1>a, <2>1, <2>2, <3>1, <3>2
  <2>3. CASE /\ Path(c) \in DOMAIN staged
             /\ disk' = Added(disk, Path(c), File(c, staged[Path(c)]))
             /\ staged' = Removed(staged, Path(c))
             /\ Ends(c)
    <3>1. Lingers({}) /\ ~At(c, "publish")'
      BY <2>1, <2>3, EndsLingers
    <3>2. Path(c) \notin raced => staged[Path(c)] = "whole"
      BY <2>1, <2>3 DEF WholeInv, StagedWhole
    <3>3. ForksAppearWhole'
      BY <2>1, <2>3, <3>2 DEF WholeInv, ForksAppearWhole, Added, File
    <3>4. QED
      BY <1>b, <2>1, <2>3, <3>1, <3>3
  <2>4. QED
    BY <1>5, <2>2, <2>3 DEF Publish
<1>6. ASSUME NEW c \in Callers, Undo(c)
      PROVE  WholeInv'
  <2>1. /\ InFlight(c) /\ UNCHANGED <<disk, clock, raced>>
        /\ staged' = Removed(staged, Path(c)) /\ Ends(c)
    BY <1>6 DEF Undo, At
  <2>2. Lingers({}) /\ ~At(c, "publish")'
    BY <2>1, EndsLingers
  <2>3. ForksAppearWhole'
    BY <2>1 DEF WholeInv, ForksAppearWhole
  <2>4. QED
    BY <1>b, <2>1, <2>2, <2>3
<1>7. ASSUME NEW c \in Callers, Cancel(c)
      PROVE  WholeInv'
  <2>1. UNCHANGED <<disk, staged, clock, raced>>
    BY <1>7 DEF Cancel
  <2>2. ForksAppearWhole'
    BY <2>1 DEF WholeInv, ForksAppearWhole
  <2>3. QED
    BY <1>7, <1>a, <2>1, <2>2, CancelLingers
<1>8. ASSUME NEW path \in DOMAIN disk, Delete(path)
      PROVE  WholeInv'
  <2>1. disk' = Removed(disk, path) /\ UNCHANGED <<staged, claims, making, clock, raced>>
    BY <1>8 DEF Delete
  <2>2. ForksAppearWhole'
    BY <2>1 DEF WholeInv, ForksAppearWhole, Removed, Restrict
  <2>3. QED
    BY <1>a, <2>1, <2>2, SameCallsLinger
<1>9. ASSUME NEW p \in Processes, CrashProcess(p)
      PROVE  WholeInv'
  <2>1. UNCHANGED <<disk, staged, clock, raced>>
    BY <1>9 DEF CrashProcess
  <2>2. ForksAppearWhole'
    BY <2>1 DEF WholeInv, ForksAppearWhole
  <2>3. QED
    BY <1>9, <1>a, <2>1, <2>2, CrashLingers
<1>10. CASE Tick \/ UNCHANGED repoVars
  <2>1. UNCHANGED <<disk, staged, claims, making, raced>> /\ clock' \in Nat
    BY <1>0, <1>10 DEF Tick, repoVars
  <2>2. QED
    BY <2>1 DEF WholeInv, RepoTypes, PathsApart, StagedWhole, ForksAppearWhole, InFlight, At, Path
<1>11. QED
  BY <1>1, <1>2, <1>3, <1>4, <1>5, <1>6, <1>7, <1>8, <1>9, <1>10, BeginKeepsWhole DEF RepoNext

(* A fork is on disk completely or not at all, in every reachable state,   *)
(* whatever crashes and whoever is cancelled, unless two calls had its     *)
(* path in one millisecond.                                                *)
THEOREM ForksWhole == RepoSpec => []ForksAppearWhole
<1>1. WholeInv /\ [RepoNext]_repoVars => WholeInv'
  BY WholeStep
<1>2. WholeInv => ForksAppearWhole
  BY DEF WholeInv
<1>3. QED
  BY WholeInitInvariant, <1>1, <1>2, PTL DEF RepoSpec

-----------------------------------------------------------------------------
(* What the readers of a log see: a query is a chain of its places, in the *)
(* order asked for, and a page is a beginning of it.                       *)

\* The order of a query, on places.
Ahead(order) ==
  {p \in Nat \X Nat : IF order = "oldestFirst" THEN p[1] < p[2] ELSE p[1] > p[2]}

\* It is strict.
LEMMA AheadIs ==
  ASSUME NEW order, NEW i \in Nat, NEW j \in Nat
  PROVE  <<i, j>> \in Ahead(order) <=> IF order = "oldestFirst" THEN i < j ELSE i > j
<1>1. <<i, j>> \in Nat \X Nat /\ <<i, j>>[1] = i /\ <<i, j>>[2] = j  OBVIOUS
<1> QED BY <1>1 DEF Ahead

\* It has no pair both ways.
LEMMA AheadStrict ==
  ASSUME NEW order
  PROVE  \A i, j \in Nat : <<i, j>> \in Ahead(order) => <<j, i>> \notin Ahead(order)
BY AheadIs

\* A log whose entries have their parents before them.
Logged(log) ==
  /\ log \in Seq(Items)
  /\ \A i \in EntriesOf(log) :
       log[i].parent # None => log[i].parent \in EntriesOf(log) /\ log[i].parent < i

\* Places of entries are places.
LEMMA EntriesAre ==
  ASSUME NEW log \in Seq(Items)
  PROVE  EntriesOf(log) \subseteq 1..Len(log) /\ EntriesOf(log) \subseteq Nat
BY DEF EntriesOf

\* The items of a log from either end.
LEMMA OrderedSound ==
  ASSUME NEW log \in Seq(Items), NEW order
  PROVE  /\ Ordered(log, order) \in Seq(Nat)
         /\ Chain(Ordered(log, order), Ahead(order))
         /\ Elements(Ordered(log, order)) = 1..Len(log)
<1> DEFINE N == Len(log)
           o == Ordered(log, order)
<1>1. N \in Nat  OBVIOUS
<1>2. o = [n \in 1..N |-> IF order = "oldestFirst" THEN n ELSE N + 1 - n]  BY DEF Ordered
<1> HIDE DEF N, o
<1>3. \A n \in 1..N : (IF order = "oldestFirst" THEN n ELSE N + 1 - n) \in 1..N  BY <1>1
<1>4. o \in [1..N -> 1..N]  BY <1>2, <1>3
<1>5. o \in Seq(Nat) /\ Len(o) = N
  <2>1. o \in [1..N -> Nat]  BY <1>4
  <2> QED BY <1>1, <2>1
<1>6. Chain(o, Ahead(order))
  <2> SUFFICES ASSUME NEW j \in 1..N, NEW k \in 1..N, j < k
               PROVE  <<o[j], o[k]>> \in Ahead(order)
    BY <1>5 DEF Chain
  <2>1. o[j] \in Nat /\ o[k] \in Nat  BY <1>4
  <2>2. IF order = "oldestFirst" THEN o[j] < o[k] ELSE o[j] > o[k]  BY <1>1, <1>2
  <2> QED BY <2>1, <2>2, AheadIs
<1>7. Elements(o) = 1..N
  <2>1. Elements(o) \subseteq 1..N  BY <1>4, <1>5 DEF Elements
  <2>2. ASSUME NEW m \in 1..N PROVE m \in Elements(o)
    <3>1. N + 1 - m \in 1..N /\ N + 1 - (N + 1 - m) = m  BY <1>1
    <3>2. CASE order = "oldestFirst"
      <4>1. o[m] = m  BY <1>2, <3>2
      <4> QED BY <4>1, <1>5 DEF Elements
    <3>3. CASE order # "oldestFirst"
      <4>1. o[N + 1 - m] = m  BY <1>2, <3>1, <3>3
      <4> QED BY <4>1, <3>1, <1>5 DEF Elements
    <3> QED BY <3>2, <3>3
  <2> QED BY <2>1, <2>2
<1> QED BY <1>5, <1>6, <1>7 DEF o, N

\* A page is the beginning of what was found: what is left out comes after its
\* last item, and a page that is not full leaves out nothing.
LEMMA TakeSound ==
  ASSUME NEW w \in Seq(Nat), NEW R, Chain(w, R), NEW limit \in Nat \ {0}
  PROVE  \E page : /\ page = Take(w, limit)
                   /\ page \in Seq(Nat) /\ Chain(page, R) /\ Len(page) <= limit
                   /\ Elements(page) \subseteq Elements(w)
                   /\ Len(page) < limit => page = w
                   /\ \A m \in Elements(w) :
                        \/ m \in Elements(page)
                        \/ page # <<>> /\ Len(page) = limit /\ <<Last(page), m>> \in R
<1>0. limit # None  BY ReadsAssumption
<1>1. CASE limit > Len(w)
  <2>1. Take(w, limit) = w  BY <1>1 DEF Take
  <2> QED BY <1>1, <2>1
<1>2. CASE ~(limit > Len(w))
  <2> DEFINE page == SubSeq(w, 1, limit)
  <2>0. Len(w) \in Nat /\ limit <= Len(w)  BY <1>2
  <2>1. Take(w, limit) = page  BY <1>0, <1>2 DEF Take
  <2>2. /\ page \in Seq(Nat) /\ Len(page) = limit
        /\ \A n \in 1..limit : page[n] = w[n] /\ n \in 1..Len(w)
    BY <2>0
  <2> HIDE DEF page
  <2>3. Chain(page, R)  BY <2>2 DEF Chain
  <2>4. Elements(page) \subseteq Elements(w)  BY <2>2 DEF Elements
  <2>5. page # <<>> /\ Last(page) = w[limit] /\ limit \in 1..Len(w)
    BY <2>0, <2>2 DEF Last
  <2>6. ASSUME NEW m \in Elements(w), m \notin Elements(page)
        PROVE  <<Last(page), m>> \in R
    <3>1. PICK k \in 1..Len(w) : m = w[k]  BY DEF Elements
    <3>2. k \notin 1..limit  BY <2>2, <2>6, <3>1 DEF Elements
    <3>3. limit < k  BY <2>0, <3>1, <3>2
    <3> QED BY <2>5, <3>1, <3>3 DEF Chain
  <2> QED BY <2>1, <2>2, <2>3, <2>4, <2>5, <2>6
<1> QED BY <1>1, <1>2

-----------------------------------------------------------------------------
(* The walk to the root.                                                   *)

\* f gives the walk to the root of every entry of a log.
IsWalk(f, log) ==
  f = [i \in EntriesOf(log) |->
         IF log[i].parent = None THEN <<i>> ELSE <<i>> \o f[log[i].parent]]

\* The walks of the first n entries, once those before are known.
WalkStep(log, V) ==
  [p \in (1..Len(log)) \X V |->
     IF p[1] \in EntriesOf(log)
     THEN [p[2] EXCEPT ![p[1]] =
             IF log[p[1]].parent = None THEN <<p[1]>>
             ELSE <<p[1]>> \o p[2][log[p[1]].parent]]
     ELSE p[2]]

\* There is a walk from every entry, since parents come before their children.
LEMMA WalkExists ==
  ASSUME NEW log, Logged(log)
  PROVE  \E f : IsWalk(f, log) /\ \A start : WalkToRoot(log, start) = f[start]
<1> DEFINE N == Len(log)
           E == EntriesOf(log)
           V == [E -> Seq(Nat)]
           base == [i \in E |-> <<>>]
           step == WalkStep(log, V)
<1>1. /\ log \in Seq(Items) /\ N \in Nat /\ E \subseteq 1..N /\ E \subseteq Nat
      /\ \A i \in E : log[i].parent # None => log[i].parent \in E /\ log[i].parent < i
  BY EntriesAre DEF Logged
<1>2. base \in V
  <2>1. <<>> \in Seq(Nat)  OBVIOUS
  <2> QED BY <2>1
<1>3. step = [p \in (1..N) \X V |->
                IF p[1] \in E
                THEN [p[2] EXCEPT ![p[1]] = IF log[p[1]].parent = None THEN <<p[1]>>
                                            ELSE <<p[1]>> \o p[2][log[p[1]].parent]]
                ELSE p[2]]
  BY DEF WalkStep
<1> HIDE DEF N, E, step, base
<1>4. step \in [(1..N) \X V -> V]
  <2> SUFFICES ASSUME NEW n \in 1..N, NEW g \in V
               PROVE  (IF n \in E
                       THEN [g EXCEPT ![n] = IF log[n].parent = None THEN <<n>>
                                             ELSE <<n>> \o g[log[n].parent]]
                       ELSE g) \in V
    BY <1>3
  <2>1. ASSUME n \in E PROVE (IF log[n].parent = None THEN <<n>>
                              ELSE <<n>> \o g[log[n].parent]) \in Seq(Nat)
    <3>1. <<n>> \in Seq(Nat)  BY <1>1, <2>1
    <3>2. log[n].parent # None => g[log[n].parent] \in Seq(Nat)  BY <1>1, <2>1
    <3> QED BY <3>1, <3>2
  <2> QED BY <2>1
<1>5. PICK g \in [0..N -> V] : Iterates(g, N, base, step)
  <2> HIDE DEF V
  <2> QED BY <1>1, <1>2, <1>4, IterationExists
<1>6. \A n \in 1..N : \A i \in E :
        g[n][i] = IF n = i THEN (IF log[n].parent = None THEN <<n>>
                                 ELSE <<n>> \o g[n - 1][log[n].parent])
                  ELSE g[n - 1][i]
  <2> SUFFICES ASSUME NEW n \in 1..N, NEW i \in E
               PROVE  g[n][i] = IF n = i THEN (IF log[n].parent = None THEN <<n>>
                                               ELSE <<n>> \o g[n - 1][log[n].parent])
                                ELSE g[n - 1][i]
    OBVIOUS
  <2>1. n - 1 \in 0..N /\ n \in 0..N /\ n # 0  BY <1>1
  <2>2. g[n - 1] \in V  BY <2>1
  <2>3. g[n] = step[<<n, g[n - 1]>>]  BY <1>5, <2>1 DEF Iterates
  <2>4. step[<<n, g[n - 1]>>] =
          IF n \in E
          THEN [g[n - 1] EXCEPT ![n] = IF log[n].parent = None THEN <<n>>
                                       ELSE <<n>> \o g[n - 1][log[n].parent]]
          ELSE g[n - 1]
    <3>1. <<n, g[n - 1]>> \in (1..N) \X V  BY <2>2
    <3> HIDE DEF V
    <3> QED BY <1>3, <3>1
  <2> QED BY <2>2, <2>3, <2>4
<1>7. \A i \in E : \A n \in i..N : g[n][i] = g[i][i]
  <2> SUFFICES ASSUME NEW i \in E PROVE \A n \in i..N : g[n][i] = g[i][i]  OBVIOUS
  <2> DEFINE P == {n \in 0..N : n >= i => g[n][i] = g[i][i]}
  <2>0. i \in 1..N  BY <1>1
  <2>1. 0 \in P  BY <1>1, <2>0
  <2>2. ASSUME NEW n \in 1..N, n - 1 \in P PROVE n \in P
    <3>1. n \in 0..N /\ n \in Nat /\ i \in Nat  BY <1>1, <2>0
    <3>2. CASE n = i  BY <3>1, <3>2
    <3>3. CASE n < i  BY <3>1, <3>3
    <3>4. CASE n > i
      <4>1. n - 1 >= i /\ n # i  BY <3>1, <3>4
      <4>2. g[n - 1][i] = g[i][i]  BY <2>2, <4>1
      <4>3. g[n][i] = g[n - 1][i]  BY <1>6, <4>1
      <4> QED BY <3>1, <4>2, <4>3
    <3> QED BY <3>1, <3>2, <3>3, <3>4
  <2> HIDE DEF P
  <2>3. 0..N \subseteq P  BY <1>1, <2>1, <2>2, BoundedInduction
  <2> QED BY <1>1, <2>0, <2>3 DEF P
<1> DEFINE f == [i \in E |-> g[N][i]]
<1>8. IsWalk(f, log)
  <2>1. ASSUME NEW i \in E
        PROVE  f[i] = IF log[i].parent = None THEN <<i>> ELSE <<i>> \o f[log[i].parent]
    <3>1. i \in 1..N /\ i \in i..N /\ N \in i..N  BY <1>1
    <3>2. f[i] = g[i][i]  BY <1>7, <3>1
    <3>3. g[i][i] = IF log[i].parent = None THEN <<i>> ELSE <<i>> \o g[i - 1][log[i].parent]
      BY <1>6, <3>1
    <3>4. CASE log[i].parent # None
      <4> DEFINE p == log[i].parent
      <4>1. p \in E /\ p < i  BY <1>1, <3>4
      <4> HIDE DEF p
      <4>2. p \in Nat /\ i \in Nat /\ i <= N  BY <1>1, <3>1, <4>1
      <4>5. i - 1 \in p..N /\ N \in p..N  BY <1>1, <4>1, <4>2
      <4>3. g[i - 1][p] = g[p][p] /\ g[N][p] = g[p][p]  BY <1>7, <4>1, <4>5
      <4>4. f[p] = g[i - 1][p]  BY <4>1, <4>3
      <4> QED BY <3>2, <3>3, <3>4, <4>4 DEF p
    <3>5. CASE log[i].parent = None  BY <3>2, <3>3, <3>5
    <3> QED BY <3>4, <3>5
  <2>2. f = [i \in E |-> f[i]]  OBVIOUS
  <2> HIDE DEF f
  <2>3. f = [i \in E |-> IF log[i].parent = None THEN <<i>> ELSE <<i>> \o f[log[i].parent]]
    BY <2>1, <2>2
  <2> QED BY <2>3 DEF IsWalk, E
<1> HIDE DEF f
<1> DEFINE c == CHOOSE h : IsWalk(h, log)
<1>9. IsWalk(c, log)  BY <1>8
<1>10. \A start : WalkToRoot(log, start) = c[start]  BY DEF WalkToRoot, IsWalk
<1> HIDE DEF c
<1> QED BY <1>9, <1>10

\* One more item in front.
LEMMA ChainFront ==
  ASSUME NEW w \in Seq(Nat), NEW i \in Nat, NEW R, Chain(w, R), \A y \in Elements(w) : <<i, y>> \in R
  PROVE  /\ <<i>> \o w \in Seq(Nat)
         /\ Chain(<<i>> \o w, R)
         /\ Elements(<<i>> \o w) = {i} \cup Elements(w)
<1> DEFINE v == <<i>> \o w
<1>1. /\ v \in Seq(Nat) /\ Len(w) \in Nat /\ Len(v) = Len(w) + 1 /\ v[1] = i
      /\ \A n \in 1..Len(w) : v[n + 1] = w[n] /\ n + 1 \in 1..Len(v)
      /\ \A n \in 1..Len(v) : n # 1 => n - 1 \in 1..Len(w) /\ v[n] = w[n - 1]
  OBVIOUS
<1> HIDE DEF v
<1>2. Chain(v, R)
  <2> SUFFICES ASSUME NEW j \in 1..Len(v), NEW k \in 1..Len(v), j < k
               PROVE  <<v[j], v[k]>> \in R
    BY DEF Chain
  <2>1. k # 1 /\ v[k] = w[k - 1] /\ k - 1 \in 1..Len(w)  BY <1>1
  <2>2. CASE j = 1  BY <1>1, <2>1, <2>2 DEF Elements
  <2>3. CASE j # 1
    <3>1. v[j] = w[j - 1] /\ j - 1 \in 1..Len(w) /\ j - 1 < k - 1  BY <1>1, <2>1, <2>3
    <3> QED BY <2>1, <3>1 DEF Chain
  <2> QED BY <2>2, <2>3
<1>3. Elements(v) = {i} \cup Elements(w)
  <2>1. ASSUME NEW y \in Elements(v) PROVE y \in {i} \cup Elements(w)
    <3>1. PICK n \in 1..Len(v) : y = v[n]  BY DEF Elements
    <3> QED BY <1>1, <3>1 DEF Elements
  <2>2. ASSUME NEW y \in Elements(w) PROVE y \in Elements(v)
    <3>1. PICK n \in 1..Len(w) : y = w[n]  BY DEF Elements
    <3>2. n + 1 \in 1..Len(v) /\ v[n + 1] = y  BY <1>1, <3>1
    <3> QED BY <3>2 DEF Elements
  <2>3. i \in Elements(v)
    <3>1. 1 \in 1..Len(v)  BY <1>1
    <3> QED BY <1>1, <3>1 DEF Elements
  <2> QED BY <2>1, <2>2, <2>3
<1> QED BY <1>1, <1>2, <1>3 DEF v

\* A walk goes back, from its start on.
LEMMA WalkSound ==
  ASSUME NEW log, Logged(log), NEW f, IsWalk(f, log)
  PROVE  \A i \in EntriesOf(log) :
           /\ f[i] \in Seq(Nat) /\ Chain(f[i], Ahead("newestFirst"))
           /\ Elements(f[i]) \subseteq EntriesOf(log) \cap 1..i
<1> DEFINE N == Len(log)
           E == EntriesOf(log)
           Good(i) == /\ f[i] \in Seq(Nat) /\ Chain(f[i], Ahead("newestFirst"))
                      /\ Elements(f[i]) \subseteq E \cap 1..i
           P == {n \in 0..N : \A i \in E : i <= n => Good(i)}
<1>1. /\ N \in Nat /\ E \subseteq 1..N /\ E \subseteq Nat
      /\ \A i \in E : log[i].parent # None => log[i].parent \in E /\ log[i].parent < i
  BY EntriesAre DEF Logged
<1>2. \A i \in E : f[i] = IF log[i].parent = None THEN <<i>> ELSE <<i>> \o f[log[i].parent]
  BY DEF IsWalk
<1> HIDE DEF N, E
<1>3. 0 \in P
  <2>1. \A i \in E : ~(i <= 0) /\ 0 \in 0..N  BY <1>1
  <2> HIDE DEF Good
  <2> QED BY <1>1, <2>1
<1>4. ASSUME NEW n \in 1..N, n - 1 \in P PROVE n \in P
  <2>1. n \in 0..N  BY <1>1
  <2> SUFFICES ASSUME NEW i \in E, i <= n PROVE Good(i)
    <3> HIDE DEF Good
    <3> QED BY <2>1
  <2>2. i \in Nat /\ n \in Nat /\ i \in 1..i  BY <1>1
  <2>3. CASE i < n
    <3>1. i <= n - 1  BY <2>2, <2>3
    <3> HIDE DEF Good
    <3> QED BY <1>4, <3>1
  <2>4. CASE i = n /\ log[i].parent = None
    <3>1. f[i] = <<i>>  BY <1>2, <2>4
    <3>2. <<i>> \in Seq(Nat) /\ Chain(<<i>>, Ahead("newestFirst")) /\ Elements(<<i>>) = {i}
      BY <2>2 DEF Chain, Elements
    <3> QED BY <2>2, <3>1, <3>2
  <2>5. CASE i = n /\ log[i].parent # None
    <3> DEFINE p == log[i].parent
    <3>1. p \in E /\ p < i  BY <1>1, <2>5
    <3> HIDE DEF p
    <3>8. p \in Nat  BY <1>1, <3>1
    <3>2. p \in Nat /\ p <= n - 1  BY <2>2, <2>5, <3>1, <3>8
    <3>3. Good(p)
      <4> HIDE DEF Good
      <4> QED BY <1>4, <3>1, <3>2
    <3>4. \A y \in Elements(f[p]) : <<i, y>> \in Ahead("newestFirst")
      <4> TAKE y \in Elements(f[p])
      <4>1. y \in 1..p  BY <3>3
      <4>2. y \in Nat /\ i > y  BY <2>2, <3>1, <3>2, <4>1
      <4> QED BY <2>2, <4>2, AheadIs
    <3>5. f[i] = <<i>> \o f[p]  BY <1>2, <2>5 DEF p
    <3>6. /\ <<i>> \o f[p] \in Seq(Nat)
          /\ Chain(<<i>> \o f[p], Ahead("newestFirst"))
          /\ Elements(<<i>> \o f[p]) = {i} \cup Elements(f[p])
      BY <2>2, <3>3, <3>4, ChainFront
    <3>7. 1..p \subseteq 1..i  BY <2>2, <3>1, <3>2
    <3> QED BY <2>2, <3>3, <3>5, <3>6, <3>7
  <2> QED BY <2>2, <2>3, <2>4, <2>5
<1> HIDE DEF P
<1>5. 0..N \subseteq P  BY <1>1, <1>3, <1>4, BoundedInduction
<1>6. \A i \in E : N \in P /\ i <= N  BY <1>1, <1>5
<1> QED BY <1>6 DEF P, E

\* The first n items of a log are a log.
Begins(first, log, n) ==
  /\ Logged(first) /\ Len(first) = n /\ n \in 0..Len(log)
  /\ EntriesOf(first) = EntriesOf(log) \cap 1..n
  /\ \A i \in 1..n : first[i] = log[i]

\* They are cut off with SubSeq.
LEMMA BeginningOf ==
  ASSUME NEW log, Logged(log), NEW n \in 0..Len(log)
  PROVE  Begins(SubSeq(log, 1, n), log, n)
<1> DEFINE first == SubSeq(log, 1, n)
<1>1. log \in Seq(Items) /\ Len(log) \in Nat /\ n \in Nat /\ n <= Len(log)  BY DEF Logged
<1>2. first \in Seq(Items) /\ Len(first) = n /\ \A i \in 1..n : first[i] = log[i]
  BY <1>1
<1> HIDE DEF first
<1>3. DOMAIN first = 1..n /\ DOMAIN log = 1..Len(log) /\ 1..n \subseteq 1..Len(log)
  BY <1>1, <1>2
<1>4. EntriesOf(first) = EntriesOf(log) \cap 1..n  BY <1>2, <1>3 DEF EntriesOf
<1>5. Logged(first)
  <2> SUFFICES ASSUME NEW i \in EntriesOf(first), first[i].parent # None
               PROVE  first[i].parent \in EntriesOf(first) /\ first[i].parent < i
    BY <1>2 DEF Logged
  <2>1. i \in EntriesOf(log) /\ i \in 1..n /\ first[i] = log[i]  BY <1>2, <1>4
  <2> DEFINE p == first[i].parent
  <2>2. p \in EntriesOf(log) /\ p < i  BY <2>1 DEF Logged
  <2> HIDE DEF p
  <2>3. p \in 1..Len(log) /\ i \in Nat /\ i <= n  BY <1>1, <2>1, <2>2, EntriesAre
  <2>4. p \in 1..n  BY <1>1, <2>2, <2>3
  <2> QED BY <1>4, <2>2, <2>4 DEF p
<1> QED BY <1>2, <1>4, <1>5 DEF first, Begins

\* A walk does not look beyond its start.
LEMMA WalkSame ==
  ASSUME NEW log, Logged(log), NEW f, IsWalk(f, log),
         NEW first, Logged(first), NEW g, IsWalk(g, first),
         EntriesOf(first) \subseteq EntriesOf(log), \A i \in EntriesOf(first) : first[i] = log[i]
  PROVE  \A i \in EntriesOf(first) : f[i] = g[i]
<1> DEFINE N == Len(first)
           E == EntriesOf(first)
           P == {n \in 0..N : \A i \in E : i <= n => f[i] = g[i]}
<1>1. /\ N \in Nat /\ E \subseteq 1..N /\ E \subseteq Nat
      /\ \A i \in E : first[i].parent # None => first[i].parent \in E /\ first[i].parent < i
  BY EntriesAre DEF Logged
<1>2. \A i \in E :
        /\ f[i] = IF first[i].parent = None THEN <<i>> ELSE <<i>> \o f[first[i].parent]
        /\ g[i] = IF first[i].parent = None THEN <<i>> ELSE <<i>> \o g[first[i].parent]
  BY DEF IsWalk
<1> HIDE DEF N, E
<1>3. 0 \in P
  <2>1. 0 \in 0..N  BY <1>1
  <2>2. ASSUME NEW i \in E PROVE ~(i <= 0)
    <3>1. i \in 1..N  BY <1>1
    <3> QED BY <3>1
  <2> QED BY <2>1, <2>2
<1>4. ASSUME NEW n \in 1..N, n - 1 \in P PROVE n \in P
  <2>1. n \in 0..N  BY <1>1
  <2> SUFFICES ASSUME NEW i \in E, i <= n PROVE f[i] = g[i]  BY <2>1
  <2>2. i \in Nat /\ n \in Nat  BY <1>1
  <2>3. CASE first[i].parent = None  BY <1>2, <2>3
  <2>4. CASE first[i].parent # None
    <3> DEFINE p == first[i].parent
    <3>1. p \in E /\ p < i  BY <1>1, <2>4
    <3> HIDE DEF p
    <3>2. p \in Nat  BY <1>1, <3>1
    <3>3. p <= n - 1  BY <2>2, <3>1, <3>2
    <3>4. f[p] = g[p]  BY <1>4, <3>1, <3>3
    <3> QED BY <1>2, <2>4, <3>4 DEF p
  <2> QED BY <2>3, <2>4
<1> HIDE DEF P
<1>5. 0..N \subseteq P  BY <1>1, <1>3, <1>4, BoundedInduction
<1>6. \A i \in E : N \in P /\ i <= N  BY <1>1, <1>5
<1> QED BY <1>6 DEF P, E

\* The other way round the order is the other one.
LEMMA ReverseSound ==
  ASSUME NEW w \in Seq(Nat), Chain(w, Ahead("newestFirst"))
  PROVE  /\ Reverse(w) \in Seq(Nat) /\ Chain(Reverse(w), Ahead("oldestFirst"))
         /\ Elements(Reverse(w)) = Elements(w)
<1> DEFINE N == Len(w)
           v == Reverse(w)
<1>1. N \in Nat /\ v = [n \in 1..N |-> w[(N - n) + 1]]  BY DEF Reverse
<1> HIDE DEF v
<1>2. \A n \in 1..N : (N - n) + 1 \in 1..N /\ (N - ((N - n) + 1)) + 1 = n  BY <1>1
<1>3. \A n \in 1..N : v[n] = w[(N - n) + 1] /\ v[(N - n) + 1] = w[n]
  <2> HIDE DEF N
  <2> QED BY <1>1, <1>2
<1>4. v \in [1..N -> Nat]
  <2>1. \A n \in 1..N : w[(N - n) + 1] \in Nat  BY <1>2
  <2> HIDE DEF N
  <2> QED BY <1>1, <2>1
<1>5. v \in Seq(Nat) /\ Len(v) = N  BY <1>1, <1>4
<1>6. Chain(v, Ahead("oldestFirst"))
  <2> SUFFICES ASSUME NEW j \in 1..N, NEW k \in 1..N, j < k
               PROVE  <<v[j], v[k]>> \in Ahead("oldestFirst")
    BY <1>5 DEF Chain
  <2>1. (N - k) + 1 < (N - j) + 1  BY <1>1
  <2>2. <<w[(N - k) + 1], w[(N - j) + 1]>> \in Ahead("newestFirst")
    BY <1>2, <2>1 DEF Chain
  <2>3. v[k] \in Nat /\ v[j] \in Nat /\ v[k] = w[(N - k) + 1] /\ v[j] = w[(N - j) + 1]
    BY <1>3, <1>4
  <2>4. v[k] > v[j]  BY <2>2, <2>3, AheadIs
  <2> QED BY <2>3, <2>4, AheadIs
<1>7. Elements(v) = Elements(w)
  <2>1. ASSUME NEW y \in Elements(v) PROVE y \in Elements(w)
    <3>1. PICK n \in 1..N : y = v[n]  BY <1>5 DEF Elements
    <3>2. y = w[(N - n) + 1] /\ (N - n) + 1 \in 1..N  BY <1>2, <1>3, <3>1
    <3> QED BY <3>2 DEF Elements
  <2>2. ASSUME NEW y \in Elements(w) PROVE y \in Elements(v)
    <3>1. PICK n \in 1..N : y = w[n]  BY DEF Elements
    <3>2. y = v[(N - n) + 1] /\ (N - n) + 1 \in 1..N  BY <1>2, <1>3, <3>1
    <3> QED BY <3>2, <1>5 DEF Elements
  <2> QED BY <2>1, <2>2
<1> QED BY <1>5, <1>6, <1>7 DEF v

\* A bound cuts the end off.
LEMMA UpToSound ==
  ASSUME NEW log, NEW w \in Seq(Nat), NEW R, Chain(w, R), NEW type
  PROVE  /\ UpTo(log, w, type) \in Seq(Nat) /\ Chain(UpTo(log, w, type), R)
         /\ Elements(UpTo(log, w, type)) \subseteq Elements(w)
<1> DEFINE stops == {k \in DOMAIN w : log[w[k]].type = type}
<1>1. CASE stops = {}
  <2>1. UpTo(log, w, type) = w  BY <1>1 DEF UpTo
  <2> QED BY <2>1
<1>2. CASE stops # {}
  <2>1. DOMAIN w = 1..Len(w) /\ Len(w) \in Nat  OBVIOUS
  <2>2. stops \subseteq Nat /\ stops \subseteq 1..Len(w)  BY <2>1
  <2> DEFINE n == CHOOSE k \in stops : \A j \in stops : k <= j
  <2> HIDE DEF stops
  <2>3. \E k \in stops : \A j \in stops : k <= j  BY <1>2, <2>2, LeastNat
  <2>4. n \in 1..Len(w)  BY <2>2, <2>3
  <2>5. UpTo(log, w, type) = SubSeq(w, 1, n)  BY <1>2 DEF UpTo, stops
  <2> HIDE DEF n
  <2> DEFINE v == SubSeq(w, 1, n)
  <2>6. v \in Seq(Nat) /\ Len(v) = n /\ \A k \in 1..n : v[k] = w[k] /\ k \in 1..Len(w)
    BY <2>1, <2>4
  <2> HIDE DEF v
  <2>7. Chain(v, R)  BY <2>6 DEF Chain
  <2>8. Elements(v) \subseteq Elements(w)  BY <2>6 DEF Elements
  <2> QED BY <2>5, <2>6, <2>7, <2>8 DEF v
<1> QED BY <1>1, <1>2

\* It looks at the items of the walk only.
LEMMA UpToSame ==
  ASSUME NEW log, NEW first, NEW w \in Seq(Nat), NEW type,
         \A i \in Elements(w) : first[i] = log[i]
  PROVE  UpTo(log, w, type) = UpTo(first, w, type)
<1>1. \A k \in DOMAIN w : first[w[k]] = log[w[k]]  BY DEF Elements
<1> DEFINE stops == {k \in DOMAIN w : log[w[k]].type = type}
           ends == {k \in DOMAIN w : first[w[k]].type = type}
           Cut(S) == IF S = {} THEN w ELSE SubSeq(w, 1, CHOOSE k \in S : \A j \in S : k <= j)
<1>2. stops = ends  BY <1>1
<1>3. UpTo(log, w, type) = Cut(stops)  BY DEF UpTo
<1>4. UpTo(first, w, type) = Cut(ends)  BY DEF UpTo
<1> HIDE DEF stops, ends, Cut
<1> QED BY <1>2, <1>3, <1>4


-----------------------------------------------------------------------------
(* Queries.                                                                *)

\* What may be asked of a session.
Asked ==
  [what : {"entries", "branch", "records", "log"}, type : ItemTypes \cup {None},
   order : Orders, limit : Nat \cup {None}, cursor : Nat \cup {None},
   start : Nat \cup {None}, stop : ItemTypes \cup {None}]

\* A query whose start exists, and whose cursor goes the way it goes.
Sensible(log, q) ==
  /\ q \in Asked
  /\ q.what \in {"records", "log"} => q.order = "oldestFirst"
  /\ q.what = "branch" /\ q.start # None => q.start \in EntriesOf(log)

\* What a query looks at, in its order.
Looked(log, q) ==
  IF q.what # "branch" THEN Ordered(log, q.order)
  ELSE IF q.start = None THEN <<>>
  ELSE UpTo(log, IF q.order = "oldestFirst" THEN Reverse(WalkToRoot(log, q.start))
                 ELSE WalkToRoot(log, q.start), q.stop)

\* What it shows of it.
Matching(log, q) ==
  IF q.what = "records" THEN MatchingRecords(log, q)
  ELSE IF q.what = "log" THEN {i \in DOMAIN log : q.cursor # None => i > q.cursor}
  ELSE MatchingEntries(log, q)

\* All that a query without a limit shows.
Shown(log, q) == Within(Looked(log, q), Matching(log, q))

\* What is looked at is in order.
LEMMA LookedSound ==
  ASSUME NEW log, Logged(log), NEW q, Sensible(log, q)
  PROVE  /\ Looked(log, q) \in Seq(Nat) /\ Chain(Looked(log, q), Ahead(q.order))
         /\ Elements(Looked(log, q)) \subseteq 1..Len(log)
         /\ q.what # "branch" => Elements(Looked(log, q)) = 1..Len(log)
<1>0. log \in Seq(Items)  BY DEF Logged
<1>1. CASE q.what # "branch"
  <2>1. Looked(log, q) = Ordered(log, q.order)  BY <1>1 DEF Looked
  <2> QED BY <1>0, <2>1, OrderedSound
<1>2. CASE q.what = "branch" /\ q.start = None
  <2>1. Looked(log, q) = <<>>  BY <1>2 DEF Looked
  <2>2. <<>> \in Seq(Nat) /\ Elements(<<>>) = {} /\ \A R : Chain(<<>>, R)  BY DEF Elements, Chain
  <2> QED BY <1>2, <2>1, <2>2
<1>3. CASE q.what = "branch" /\ q.start # None
  <2>1. PICK f : IsWalk(f, log) /\ \A start : WalkToRoot(log, start) = f[start]  BY WalkExists
  <2> DEFINE w == WalkToRoot(log, q.start)
             v == IF q.order = "oldestFirst" THEN Reverse(w) ELSE w
  <2>2. q.start \in EntriesOf(log) /\ q.order \in Orders  BY <1>3 DEF Sensible, Asked
  <2>3. w = f[q.start]  BY <2>1
  <2> HIDE DEF w
  <2>4. /\ w \in Seq(Nat) /\ Chain(w, Ahead("newestFirst"))
        /\ Elements(w) \subseteq EntriesOf(log)
    BY <2>1, <2>2, <2>3, WalkSound
  <2>5. v \in Seq(Nat) /\ Chain(v, Ahead(q.order)) /\ Elements(v) \subseteq EntriesOf(log)
    <3>1. CASE q.order = "oldestFirst"  BY <2>4, <3>1, ReverseSound
    <3>2. CASE q.order # "oldestFirst"  BY <2>2, <2>4, <3>2 DEF Orders
    <3> QED BY <3>1, <3>2
  <2>6. Looked(log, q) = UpTo(log, v, q.stop)  BY <1>3 DEF Looked, w
  <2> HIDE DEF v
  <2>7. /\ UpTo(log, v, q.stop) \in Seq(Nat) /\ Chain(UpTo(log, v, q.stop), Ahead(q.order))
        /\ Elements(UpTo(log, v, q.stop)) \subseteq Elements(v)
    BY <2>5, UpToSound
  <2> QED BY <1>0, <1>3, <2>5, <2>6, <2>7, EntriesAre
<1> QED BY <1>1, <1>2, <1>3

\* What is shown is in order.
LEMMA ShownSound ==
  ASSUME NEW log, Logged(log), NEW q, Sensible(log, q)
  PROVE  /\ Shown(log, q) \in Seq(Nat) /\ Chain(Shown(log, q), Ahead(q.order))
         /\ Elements(Shown(log, q)) = Elements(Looked(log, q)) \cap Matching(log, q)
         /\ Elements(Shown(log, q)) \subseteq 1..Len(log)
<1>1. /\ Looked(log, q) \in Seq(Nat) /\ Chain(Looked(log, q), Ahead(q.order))
      /\ Elements(Looked(log, q)) \subseteq 1..Len(log)
  BY LookedSound
<1>2. Shown(log, q) \in Seq(Nat)  BY <1>1, WithinType DEF Shown
<1>3. Chain(Shown(log, q), Ahead(q.order))  BY <1>1, WithinChain DEF Shown
<1>4. Elements(Shown(log, q)) = Elements(Looked(log, q)) \cap Matching(log, q)
  BY <1>1, WithinElements DEF Shown
<1> QED BY <1>1, <1>2, <1>3, <1>4

\* A page is the beginning of what is shown.
LEMMA QueryTakes ==
  ASSUME NEW log, NEW q, Sensible(log, q), q.limit # 0
  PROVE  Query(log, q) = Take(Shown(log, q), q.limit)
<1>1. q.what \in {"entries", "branch", "records", "log"} /\ q.limit \in (Nat \ {0}) \cup {None}
  BY DEF Sensible, Asked
<1>2. CASE q.what = "entries"
  <2>1. Query(log, q) = FindEntries(log, q)  BY <1>2 DEF Query
  <2>2. Shown(log, q) = Within(Ordered(log, q.order), MatchingEntries(log, q))
    BY <1>2 DEF Shown, Looked, Matching
  <2> QED BY <2>1, <2>2 DEF FindEntries
<1>3. CASE q.what = "records"
  <2>1. Query(log, q) = FindRecords(log, q)  BY <1>3 DEF Query
  <2>2. Shown(log, q) = Within(Ordered(log, q.order), MatchingRecords(log, q))
    BY <1>3 DEF Shown, Looked, Matching
  <2> QED BY <2>1, <2>2 DEF FindRecords
<1>4. CASE q.what = "log"
  <2>1. Query(log, q) = GetLog(log, q.cursor, q.limit)  BY <1>4 DEF Query
  <2>2. q.order = "oldestFirst"  BY <1>4 DEF Sensible
  <2>3. Shown(log, q) = Within(Ordered(log, "oldestFirst"),
                               {i \in DOMAIN log : q.cursor # None => i > q.cursor})
    BY <1>4, <2>2 DEF Shown, Looked, Matching
  <2> QED BY <2>1, <2>3 DEF GetLog
<1>5. CASE q.what = "branch" /\ q.start = None
  <2>1. Query(log, q) = <<>>  BY <1>5 DEF Query
  <2>2. Shown(log, q) = <<>>  BY <1>5, WithinEmpty DEF Shown, Looked
  <2>3. Take(<<>>, q.limit) = <<>>
    <3>1. Len(<<>>) = 0  OBVIOUS
    <3>2. q.limit = None \/ q.limit > 0  BY <1>1
    <3> QED BY <3>1, <3>2 DEF Take
  <2> QED BY <2>1, <2>2, <2>3
<1>6. CASE q.what = "branch" /\ q.start # None
  <2>1. Query(log, q) = FindEntriesOnBranch(log, q.start, q, q.stop)  BY <1>6 DEF Query
  <2>2. FindEntriesOnBranch(log, q.start, q, q.stop)
          = Take(Within(Looked(log, q), MatchingEntries(log, q)), q.limit)
    BY <1>6 DEF FindEntriesOnBranch, Looked
  <2>3. Shown(log, q) = Within(Looked(log, q), MatchingEntries(log, q))
    BY <1>6 DEF Shown, Matching
  <2> QED BY <2>1, <2>2, <2>3
<1> QED BY <1>1, <1>2, <1>3, <1>4, <1>5, <1>6

\* A query without a cursor and a limit.
Whole(q) == [q EXCEPT !.cursor = None, !.limit = None]

\* It differs from the query in nothing else.
LEMMA WholeIs ==
  ASSUME NEW log, NEW q, Sensible(log, q)
  PROVE  /\ Sensible(log, Whole(q)) /\ Whole(q).cursor = None /\ Whole(q).limit = None
         /\ Whole(q).what = q.what /\ Whole(q).order = q.order /\ Whole(q).type = q.type
         /\ Whole(q).start = q.start /\ Whole(q).stop = q.stop
<1>1. q \in Asked  BY DEF Sensible
<1>2. /\ Whole(q) \in Asked /\ Whole(q).cursor = None /\ Whole(q).limit = None
      /\ Whole(q).what = q.what /\ Whole(q).order = q.order /\ Whole(q).type = q.type
      /\ Whole(q).start = q.start /\ Whole(q).stop = q.stop
  BY <1>1 DEF Whole, Asked
<1> QED BY <1>2 DEF Sensible

\* The cursor takes away what is not beyond it.
LEMMA CursorCuts ==
  ASSUME NEW log, Logged(log), NEW q, Sensible(log, q)
  PROVE  Elements(Shown(log, q)) =
           {i \in Elements(Shown(log, Whole(q))) :
              q.cursor # None => <<q.cursor, i>> \in Ahead(q.order)}
<1> DEFINE w == Whole(q)
<1>1. /\ Sensible(log, w) /\ w.cursor = None /\ w.what = q.what /\ w.order = q.order
      /\ w.type = q.type /\ w.start = q.start /\ w.stop = q.stop
  BY WholeIs
<1> HIDE DEF w
<1>2. Looked(log, q) = Looked(log, w)  BY <1>1 DEF Looked
<1>3. q.cursor \in Nat \cup {None} /\ q.order \in Orders  BY DEF Sensible, Asked
<1>4. ASSUME NEW i \in Nat
      PROVE  /\ Beyond(i, None, q.order)
             /\ Beyond(i, q.cursor, q.order) <=>
                  (q.cursor # None => <<q.cursor, i>> \in Ahead(q.order))
             /\ q.order = "oldestFirst" =>
                  ((q.cursor # None => i > q.cursor) <=> Beyond(i, q.cursor, q.order))
  <2>1. CASE q.cursor = None  BY <2>1 DEF Beyond
  <2>2. CASE q.cursor # None
    <3>1. q.cursor \in Nat  BY <1>3, <2>2
    <3>2. <<q.cursor, i>> \in Ahead(q.order) <=>
            IF q.order = "oldestFirst" THEN q.cursor < i ELSE q.cursor > i
      BY <3>1, AheadIs
    <3> QED BY <2>2, <3>1, <3>2 DEF Beyond
  <2> QED BY <2>1, <2>2
<1>5. ASSUME NEW i \in 1..Len(log)
      PROVE  i \in Matching(log, q) <=>
               i \in Matching(log, w) /\ Beyond(i, q.cursor, q.order)
  <2>0. i \in Nat /\ DOMAIN log = 1..Len(log)  BY DEF Logged
  <2>1. CASE q.what = "records"
    <3>1. q.order = "oldestFirst"  BY <2>1 DEF Sensible
    <3>2. i \in Matching(log, q) <=> i \in MatchingRecords(log, q)  BY <2>1 DEF Matching
    <3>3. i \in Matching(log, w) <=> i \in MatchingRecords(log, w)  BY <1>1, <2>1 DEF Matching
    <3> QED BY <1>1, <1>4, <2>0, <3>1, <3>2, <3>3 DEF MatchingRecords
  <2>2. CASE q.what = "log"
    <3>1. q.order = "oldestFirst"  BY <2>2 DEF Sensible
    <3>2. i \in Matching(log, q) <=> (q.cursor # None => i > q.cursor)
      BY <2>0, <2>2 DEF Matching
    <3>3. i \in Matching(log, w)  BY <1>1, <2>0, <2>2 DEF Matching
    <3> QED BY <1>4, <2>0, <3>1, <3>2, <3>3
  <2>3. CASE q.what \notin {"records", "log"}
    <3>2. i \in Matching(log, q) <=> i \in MatchingEntries(log, q)  BY <2>3 DEF Matching
    <3>3. i \in Matching(log, w) <=> i \in MatchingEntries(log, w)  BY <1>1, <2>3 DEF Matching
    <3> QED BY <1>1, <1>4, <2>0, <3>2, <3>3 DEF MatchingEntries
  <2> QED BY <2>1, <2>2, <2>3
<1>6. Elements(Shown(log, q)) = Elements(Looked(log, q)) \cap Matching(log, q)
  BY ShownSound
<1>7. Elements(Shown(log, w)) = Elements(Looked(log, q)) \cap Matching(log, w)
  BY <1>1, <1>2, ShownSound
<1>8. Elements(Looked(log, q)) \subseteq 1..Len(log) /\ 1..Len(log) \subseteq Nat
  BY LookedSound
<1> QED BY <1>4, <1>5, <1>6, <1>7, <1>8 DEF w

\* What was there is shown as it was, whatever has been appended since.
LEMMA ShownStays ==
  ASSUME NEW log, Logged(log), NEW n, NEW first, Begins(first, log, n), NEW q,
         Sensible(first, q), q.cursor = None
  PROVE  /\ Sensible(log, q)
         /\ Elements(Shown(first, q)) = Elements(Shown(log, q)) \cap 1..n
<1>1. /\ Logged(first) /\ Len(first) = n /\ EntriesOf(first) = EntriesOf(log) \cap 1..n
      /\ \A i \in 1..n : first[i] = log[i]
      /\ n \in 0..Len(log)
  BY DEF Begins
<1>2. Sensible(log, q)  BY <1>1 DEF Sensible
<1>3. /\ Elements(Shown(log, q)) = Elements(Looked(log, q)) \cap Matching(log, q)
      /\ Elements(Shown(first, q)) = Elements(Looked(first, q)) \cap Matching(first, q)
  BY <1>1, <1>2, ShownSound
<1>4. /\ Elements(Looked(log, q)) \subseteq 1..Len(log)
      /\ Elements(Looked(first, q)) \subseteq 1..n
      /\ q.what # "branch" => Elements(Looked(log, q)) = 1..Len(log)
                              /\ Elements(Looked(first, q)) = 1..n
  BY <1>1, <1>2, LookedSound
<1>5. \A i \in 1..n : i \in Matching(first, q) <=> i \in Matching(log, q)
  <2> TAKE i \in 1..n
  <2>1. /\ i \in DOMAIN log /\ i \in DOMAIN first /\ first[i] = log[i]
        /\ i \in EntriesOf(first) <=> i \in EntriesOf(log)
        /\ i \in RecordsOf(first) <=> i \in RecordsOf(log)
    <3>1. DOMAIN log = 1..Len(log) /\ DOMAIN first = 1..n /\ Len(log) \in Nat
      BY <1>1 DEF Logged
    <3>2. i \in 1..Len(log)  BY <1>1, <3>1
    <3> QED BY <1>1, <3>1, <3>2 DEF RecordsOf
  <2>2. CASE q.what = "records"  BY <2>1, <2>2 DEF Matching, MatchingRecords
  <2>3. CASE q.what = "log"  BY <2>1, <2>3 DEF Matching
  <2>4. CASE q.what \notin {"records", "log"}  BY <2>1, <2>4 DEF Matching, MatchingEntries
  <2> QED BY <2>2, <2>3, <2>4
<1>6. CASE q.what # "branch"
  <2>1. 1..n \subseteq 1..Len(log)  BY <1>1 DEF Logged
  <2> QED BY <1>2, <1>3, <1>4, <1>5, <1>6, <2>1
<1>7. CASE q.what = "branch"
  <2>1. Looked(first, q) = Looked(log, q)
    <3>1. CASE q.start = None  BY <1>7, <3>1 DEF Looked
    <3>2. CASE q.start # None
      <4>1. PICK f : IsWalk(f, log) /\ \A start : WalkToRoot(log, start) = f[start]
        BY WalkExists
      <4>2. PICK g : IsWalk(g, first) /\ \A start : WalkToRoot(first, start) = g[start]
        BY <1>1, WalkExists
      <4> DEFINE w == WalkToRoot(log, q.start)
                 v == IF q.order = "oldestFirst" THEN Reverse(w) ELSE w
      <4>3. q.start \in EntriesOf(first)  BY <1>7, <3>2 DEF Sensible
      <4>4. WalkToRoot(first, q.start) = w
        <5>0. EntriesOf(first) \subseteq EntriesOf(log)
              /\ \A i \in EntriesOf(first) : first[i] = log[i]
          BY <1>1
        <5>1. \A i \in EntriesOf(first) : f[i] = g[i]  BY <1>1, <4>1, <4>2, <5>0, WalkSame
        <5> QED BY <4>1, <4>2, <4>3, <5>1
      <4>5. /\ w \in Seq(Nat) /\ Chain(w, Ahead("newestFirst"))
            /\ Elements(w) \subseteq EntriesOf(first)
        <5>1. w = g[q.start]  BY <4>2, <4>4
        <5> HIDE DEF w
        <5> QED BY <1>1, <4>2, <4>3, <5>1, WalkSound
      <4>6. Looked(log, q) = UpTo(log, v, q.stop)  BY <1>7, <3>2 DEF Looked
      <4>7. Looked(first, q) = UpTo(first, v, q.stop)  BY <1>7, <3>2, <4>4 DEF Looked
      <4> HIDE DEF w
      <4>8. v \in Seq(Nat) /\ Elements(v) \subseteq 1..n
        <5>1. Elements(w) \subseteq 1..n  BY <1>1, <4>5
        <5> QED BY <4>5, <5>1, ReverseSound
      <4> HIDE DEF v
      <4>10. \A i \in Elements(v) : first[i] = log[i]  BY <1>1, <4>8
      <4>9. UpTo(log, v, q.stop) = UpTo(first, v, q.stop)  BY <4>8, <4>10, UpToSame
      <4> QED BY <4>6, <4>7, <4>9
    <3> QED BY <3>1, <3>2
  <2> QED BY <1>2, <1>3, <1>4, <1>5, <2>1
<1> QED BY <1>2, <1>6, <1>7


-----------------------------------------------------------------------------
(* A log that grows.                                                       *)

\* An append that fits makes a log, and leaves its beginnings as they are.
LEMMA AppendLogged ==
  ASSUME NEW log, Logged(log), NEW item \in Items, Fits(log, item)
  PROVE  /\ Logged(Append(log, item)) /\ Begins(log, Append(log, item), Len(log))
         /\ \A n \in 0..Len(log) : SubSeq(Append(log, item), 1, n) = SubSeq(log, 1, n)
<1> DEFINE N == Len(log)
           more == Append(log, item)
<1>1. /\ log \in Seq(Items) /\ N \in Nat /\ more \in Seq(Items) /\ Len(more) = N + 1
      /\ more[N + 1] = item /\ \A i \in 1..N : more[i] = log[i]
      /\ DOMAIN log = 1..N /\ DOMAIN more = 1..(N + 1)
  BY DEF Logged
<1>2. \A n \in 0..N : SubSeq(more, 1, n) = SubSeq(log, 1, n)
  <2> SUFFICES ASSUME NEW n \in 0..N PROVE SubSeq(more, 1, n) = SubSeq(log, 1, n)  OBVIOUS
  <2>1. n \in Nat /\ n <= Len(log)  OBVIOUS
  <2>2. n <= Len(more)  BY <1>1, <2>1
  <2> HIDE DEF more, N
  <2>3. SubSeq(log, 1, n) \in Seq(Items) /\ Len(SubSeq(log, 1, n)) = n
        /\ \A i \in 1..n : SubSeq(log, 1, n)[i] = log[i]
    BY <1>1, <2>1
  <2>4. SubSeq(more, 1, n) \in Seq(Items) /\ Len(SubSeq(more, 1, n)) = n
        /\ \A i \in 1..n : SubSeq(more, 1, n)[i] = more[i]
    BY <1>1, <2>1, <2>2
  <2>5. \A i \in 1..n : more[i] = log[i]
    <3>1. \A i \in 1..n : i \in 1..N  BY <1>1
    <3> QED BY <1>1, <3>1
  <2> QED BY <2>3, <2>4, <2>5
<1> HIDE DEF more
<1>3. /\ \A i \in 1..N : i \in EntriesOf(more) <=> i \in EntriesOf(log)
      /\ EntriesOf(more) \subseteq 1..(N + 1)
      /\ N + 1 \in EntriesOf(more) => item.kind = "entry"
  BY <1>1 DEF EntriesOf
<1>4. EntriesOf(log) \subseteq 1..N  BY <1>1 DEF EntriesOf
<1>5. EntriesOf(log) = EntriesOf(more) \cap 1..N  BY <1>3, <1>4
<1>6. Logged(more)
  <2> SUFFICES ASSUME NEW i \in EntriesOf(more), more[i].parent # None
               PROVE  more[i].parent \in EntriesOf(more) /\ more[i].parent < i
    BY <1>1 DEF Logged
  <2>1. CASE i \in 1..N
    <3>1. i \in EntriesOf(log) /\ more[i] = log[i]  BY <1>1, <1>3, <2>1
    <3>2. log[i].parent \in EntriesOf(log) /\ log[i].parent < i  BY <2>1, <3>1 DEF Logged
    <3> QED BY <1>5, <3>1, <3>2
  <2>2. CASE i = N + 1
    <3>1. item.kind = "entry" /\ more[i] = item  BY <1>1, <1>3, <2>2
    <3>2. item.parent \in EntriesOf(log)  BY <3>1 DEF Fits
    <3>3. item.parent \in 1..N  BY <1>4, <3>2
    <3> QED BY <1>1, <1>5, <2>2, <3>1, <3>2, <3>3
  <2> QED BY <1>1, <1>3, <2>1, <2>2
<1>7. N \in 0..Len(more)  BY <1>1
<1>8. Begins(log, more, N)  BY <1>1, <1>5, <1>7 DEF Begins
<1> QED BY <1>2, <1>6, <1>8 DEF more, N

\* What holds of the sessions whoever appends.
LogsHold == logs \in [Sessions -> Seq(Items)] /\ \A s \in Sessions : Logged(logs[s])

\* An empty log.
LEMMA EmptyLogged == Logged(<<>>)
<1>1. <<>> \in Seq(Items) /\ EntriesOf(<<>>) = {}  BY DEF EntriesOf
<1> QED BY <1>1 DEF Logged

-----------------------------------------------------------------------------
(* Pages.                                                                  *)

\* What comes after all that was seen can be put behind it.
LEMMA ConcatSound ==
  ASSUME NEW v \in Seq(Nat), NEW w \in Seq(Nat), NEW R, Chain(v, R), Chain(w, R),
         \A x \in Elements(v) : \A y \in Elements(w) : <<x, y>> \in R
  PROVE  /\ v \o w \in Seq(Nat) /\ Chain(v \o w, R)
         /\ Elements(v \o w) = Elements(v) \cup Elements(w)
<1> DEFINE u == v \o w
           N == Len(v)
           M == Len(w)
<1>1. /\ N \in Nat /\ M \in Nat /\ u \in Seq(Nat) /\ Len(u) = N + M
      /\ \A n \in 1..N : u[n] = v[n]
      /\ \A n \in 1..M : u[N + n] = w[n]
  OBVIOUS
<1> HIDE DEF u, N, M
<1>2. \A n \in 1..(N + M) : n \in 1..N \/ (n - N \in 1..M /\ N + (n - N) = n)  BY <1>1
<1>3. ASSUME NEW n \in 1..(N + M)
      PROVE  \/ n \in 1..N /\ u[n] = v[n] /\ u[n] \in Elements(v)
             \/ n - N \in 1..M /\ u[n] = w[n - N] /\ u[n] \in Elements(w)
  <2>1. CASE n \in 1..N  BY <1>1, <2>1 DEF Elements, N
  <2>2. CASE n - N \in 1..M /\ N + (n - N) = n
    <3>1. u[n] = w[n - N]  BY <1>1, <2>2
    <3> QED BY <2>2, <3>1 DEF Elements, M
  <2> QED BY <1>2, <2>1, <2>2
<1>4. Chain(u, R)
  <2> SUFFICES ASSUME NEW j \in 1..(N + M), NEW k \in 1..(N + M), j < k
               PROVE  <<u[j], u[k]>> \in R
    BY <1>1 DEF Chain
  <2>1. CASE k \in 1..N
    <3>1. j \in 1..N  BY <1>1, <2>1
    <3> QED BY <1>1, <2>1, <3>1 DEF Chain, N
  <2>2. CASE k \notin 1..N /\ j \in 1..N  BY <1>1, <1>3, <2>2 DEF Elements, N
  <2>3. CASE k \notin 1..N /\ j \notin 1..N
    <3>1. j - N < k - N  BY <1>1
    <3>2. k - N \in 1..M /\ u[k] = w[k - N] /\ j - N \in 1..M /\ u[j] = w[j - N]
      BY <1>3, <2>3
    <3> QED BY <3>1, <3>2 DEF Chain, M
  <2> QED BY <2>1, <2>2, <2>3
<1>5. Elements(u) = Elements(v) \cup Elements(w)
  <2>1. ASSUME NEW y \in Elements(u) PROVE y \in Elements(v) \cup Elements(w)
    <3>1. PICK n \in 1..(N + M) : y = u[n]  BY <1>1 DEF Elements
    <3> QED BY <1>3, <3>1
  <2>2. ASSUME NEW y \in Elements(v) PROVE y \in Elements(u)
    <3>1. PICK n \in 1..N : y = v[n]  BY DEF Elements, N
    <3>2. n \in 1..Len(u) /\ u[n] = y  BY <1>1, <3>1
    <3> QED BY <3>2 DEF Elements
  <2>3. ASSUME NEW y \in Elements(w) PROVE y \in Elements(u)
    <3>1. PICK n \in 1..M : y = w[n]  BY DEF Elements, M
    <3>2. N + n \in 1..Len(u) /\ u[N + n] = y  BY <1>1, <3>1
    <3> QED BY <3>2 DEF Elements
  <2> QED BY <2>1, <2>2, <2>3
<1> QED BY <1>1, <1>4, <1>5 DEF u

\* The reader keeps its types, and the order its query must have.
PagerTypes ==
  /\ pager \in [query : Asked, pc : {"reading", "done"}, seen : Seq(Nat), since : Nat \cup {None}]
  /\ pager.query.limit \in Nat
  /\ pager.query.what \in {"records", "log"} => pager.query.order = "oldestFirst"

\* Of all that was there when the reader began, it has seen some and the rest
\* comes after the last it has seen; a reader that is done has seen all.
Covers(log, p) ==
  /\ p.since \in 0..Len(log)
  /\ Sensible(SubSeq(log, 1, p.since), p.query)
  /\ Elements(p.seen) \subseteq 1..Len(log)
  /\ Elements(p.seen) \cap 1..p.since
       \subseteq Elements(Shown(SubSeq(log, 1, p.since), Whole(p.query)))
  /\ \A m \in Elements(Shown(SubSeq(log, 1, p.since), Whole(p.query))) :
       \/ m \in Elements(p.seen)
       \/ p.pc = "reading" /\ p.seen # <<>> /\ <<Last(p.seen), m>> \in Ahead(p.query.order)

\* The inductive invariant of the reader: it has seen nothing before its first page,
\* and is in order and complete as far as it got since.
PagerHolds ==
  /\ PagerTypes
  /\ Chain(pager.seen, Ahead(pager.query.order))
  /\ pager.since = None =>
       pager.seen = <<>> /\ pager.pc = "reading" /\ pager.query.start = None
  /\ pager.since # None => Covers(logs["one"], pager)

\* A reader begins with nothing.
LEMMA PagerInit == ReadInit => LogsHold /\ PagerHolds
<1> SUFFICES ASSUME ReadInit PROVE LogsHold /\ PagerHolds  OBVIOUS
<1>1. PICK q \in Pagers : pager = [query |-> q, pc |-> "reading", seen |-> <<>>, since |-> None]
  BY DEF ReadInit
<1>2. /\ q \in [what : {"entries", "branch", "records", "log"}, type : ItemTypes \cup {None},
                order : Orders, limit : Nat, cursor : {None}, start : {None},
                stop : ItemTypes \cup {None}]
      /\ q.what \in {"records", "log"} => q.order = "oldestFirst"
  BY ReadsAssumption
<1>3. q \in Asked /\ q.limit \in Nat /\ q.start = None  BY <1>2 DEF Asked
<1>4. PagerTypes
  <2>1. <<>> \in Seq(Nat)  OBVIOUS
  <2> QED BY <1>1, <1>2, <1>3, <2>1 DEF PagerTypes
<1>5. \A R : Chain(<<>>, R)  BY DEF Chain
<1>6. LogsHold
  <2>1. <<>> \in Seq(Items)  OBVIOUS
  <2>2. logs = [s \in Sessions |-> <<>>]  BY DEF ReadInit
  <2> QED BY <2>1, <2>2, EmptyLogged DEF LogsHold
<1> QED BY <1>1, <1>3, <1>4, <1>5, <1>6 DEF PagerHolds

\* Appends leave what the reader relates to as it is.
LEMMA PagerAppend ==
  ASSUME LogsHold, PagerHolds, NEW s \in Sessions, NEW item \in Items, Append1(s, item)
  PROVE  LogsHold' /\ PagerHolds'
<1>1. /\ Fits(logs[s], item) /\ logs' = [logs EXCEPT ![s] = Append(@, item)]
      /\ UNCHANGED <<search, pager>>
  BY DEF Append1
<1>2. logs \in [Sessions -> Seq(Items)] /\ \A t \in Sessions : Logged(logs[t])  BY DEF LogsHold
<1>3. /\ Logged(Append(logs[s], item)) /\ Len(Append(logs[s], item)) = Len(logs[s]) + 1
      /\ Append(logs[s], item) \in Seq(Items)
      /\ \A n \in 0..Len(logs[s]) : SubSeq(Append(logs[s], item), 1, n) = SubSeq(logs[s], 1, n)
  BY <1>1, <1>2, AppendLogged
<1>4. LogsHold'  BY <1>1, <1>2, <1>3 DEF LogsHold
<1> DEFINE log == logs["one"]
<1>5. /\ Len(log) \in Nat /\ Len(log') \in Nat /\ Len(log') >= Len(log)
      /\ \A n \in 0..Len(log) : SubSeq(log', 1, n) = SubSeq(log, 1, n)
  <2>1. "one" \in Sessions  BY DEF Sessions
  <2>2. Len(log) \in Nat  BY <1>2, <2>1
  <2>3. CASE s = "one"
    <3>1. log' = Append(log, item)  BY <1>1, <1>2, <2>1, <2>3
    <3> QED BY <1>3, <2>2, <2>3, <3>1
  <2>4. CASE s # "one"
    <3>1. log' = log  BY <1>1, <1>2, <2>1, <2>4
    <3> QED BY <2>2, <3>1
  <2> QED BY <2>3, <2>4
<1>6. PagerTypes' /\ Chain(pager.seen, Ahead(pager.query.order))' /\ pager' = pager
  BY <1>1 DEF PagerHolds, PagerTypes
<1>7. pager.since # None => Covers(logs["one"], pager)'
  <2> SUFFICES ASSUME pager.since # None PROVE Covers(log', pager)  BY <1>6
  <2>1. Covers(log, pager)  BY DEF PagerHolds
  <2> HIDE DEF log
  <2>2. pager.since \in 0..Len(log) /\ pager.since \in 0..Len(log')
    <3>1. pager.since \in 0..Len(log)  BY <2>1 DEF Covers
    <3> QED BY <1>5, <3>1
  <2>3. SubSeq(log', 1, pager.since) = SubSeq(log, 1, pager.since)  BY <1>5, <2>2
  <2>4. 1..Len(log) \subseteq 1..Len(log')  BY <1>5
  <2> QED BY <2>1, <2>2, <2>3, <2>4 DEF Covers
<1> QED BY <1>4, <1>6, <1>7 DEF PagerHolds


\* The entry that stands for the leaf is one.
LEMMA LeafIs ==
  ASSUME NEW log, Logged(log)
  PROVE  LeafOf(log) \in EntriesOf(log) \cup {None}
<1> DEFINE newest == Within(Ordered(log, "newestFirst"), EntriesOf(log))
<1>0. log \in Seq(Items)  BY DEF Logged
<1>1. Ordered(log, "newestFirst") \in Seq(Nat)  BY <1>0, OrderedSound
<1>2. newest \in Seq(Nat) /\ Elements(newest) \subseteq EntriesOf(log)
  BY <1>1, WithinType, WithinElements
<1>3. LeafOf(log) = IF newest = <<>> THEN None ELSE Head(newest)  BY DEF LeafOf
<1> HIDE DEF newest
<1>4. newest # <<>> => Head(newest) \in Elements(newest)
  <2>1. newest # <<>> => 1 \in 1..Len(newest) /\ Head(newest) = newest[1]  BY <1>2
  <2> QED BY <2>1 DEF Elements
<1> QED BY <1>2, <1>3, <1>4

\* A page goes on where the one before ended.
LEMMA PagerReads ==
  ASSUME LogsHold, PagerHolds, ReadPage
  PROVE  LogsHold' /\ PagerHolds'
<1> DEFINE log == logs["one"]
           q == [pager.query EXCEPT
                   !.cursor = IF pager.seen = <<>> THEN None ELSE Last(pager.seen),
                   !.start = IF pager.since = None THEN LeafOf(log) ELSE @]
           order == pager.query.order
           n == IF pager.since = None THEN Len(log) ELSE pager.since
           first == SubSeq(log, 1, n)
           all == Elements(Shown(first, Whole(q)))
<1>1. /\ pager.pc = "reading" /\ pager.query.limit > 0
      /\ pager' = [pager EXCEPT !.query = q, !.seen = @ \o Query(log, q), !.since = n,
                     !.pc = IF Len(Query(log, q)) < pager.query.limit THEN "done" ELSE @]
      /\ UNCHANGED <<logs, search>>
  BY DEF ReadPage
<1>2. "one" \in Sessions /\ Logged(log) /\ Len(log) \in Nat /\ log \in Seq(Items)
  BY DEF Sessions, LogsHold, Logged
<1>3. /\ pager \in [query : Asked, pc : {"reading", "done"}, seen : Seq(Nat),
                    since : Nat \cup {None}]
      /\ pager.query \in Asked /\ pager.query.limit \in Nat \ {0} /\ pager.seen \in Seq(Nat)
      /\ pager.query.what \in {"records", "log"} => pager.query.order = "oldestFirst"
      /\ Chain(pager.seen, Ahead(order))
  BY <1>1 DEF PagerHolds, PagerTypes
<1>4. pager.seen # <<>> => Last(pager.seen) \in Nat /\ Len(pager.seen) \in 1..Len(pager.seen)
                           /\ Last(pager.seen) = pager.seen[Len(pager.seen)]
  BY <1>3 DEF Last
<1>5. LeafOf(log) \in EntriesOf(log) \cup {None} /\ EntriesOf(log) \subseteq Nat
      /\ EntriesOf(log) \subseteq 1..Len(log)
  BY <1>2, LeafIs, EntriesAre
<1>6. /\ q \in Asked /\ q.what = pager.query.what /\ q.order = order
      /\ q.limit = pager.query.limit /\ q.type = pager.query.type /\ q.stop = pager.query.stop
      /\ q.cursor = IF pager.seen = <<>> THEN None ELSE Last(pager.seen)
      /\ q.start = IF pager.since = None THEN LeafOf(log) ELSE pager.query.start
  <2> HIDE DEF log
  <2> QED BY <1>3, <1>4, <1>5 DEF Asked
<1>7. n \in 0..Len(log)  BY <1>2, <1>3 DEF PagerHolds, Covers
<1>8. Begins(first, log, n)  BY <1>2, <1>7, BeginningOf
<1>9. Sensible(first, q) /\ Sensible(log, q)
  <2>1. EntriesOf(first) = EntriesOf(log) \cap 1..n  BY <1>8 DEF Begins
  <2>2. ASSUME q.what = "branch", q.start # None PROVE q.start \in EntriesOf(first)
    <3>1. CASE pager.since = None  BY <1>5, <1>6, <2>1, <2>2, <3>1
    <3>2. CASE pager.since # None
      <4>1. Sensible(first, pager.query)  BY <3>2 DEF PagerHolds, Covers
      <4> QED BY <1>6, <2>2, <3>2, <4>1 DEF Sensible
    <3> QED BY <3>1, <3>2
  <2> HIDE DEF q, first
  <2> QED BY <1>3, <1>6, <2>1, <2>2 DEF Sensible
<1>10. pager.since # None =>
         /\ Whole(q) = Whole(pager.query)
         /\ Elements(pager.seen) \subseteq 1..Len(log)
         /\ Elements(pager.seen) \cap 1..n \subseteq all
         /\ pager.seen # <<>> \/ all = {}
         /\ \A m \in all : m \in Elements(pager.seen) \/ <<Last(pager.seen), m>> \in Ahead(order)
  <2> SUFFICES ASSUME pager.since # None
               PROVE  /\ Whole(q) = Whole(pager.query)
                      /\ Elements(pager.seen) \subseteq 1..Len(log)
                      /\ Elements(pager.seen) \cap 1..n \subseteq all
                      /\ pager.seen # <<>> \/ all = {}
                      /\ \A m \in all : m \in Elements(pager.seen)
                                        \/ <<Last(pager.seen), m>> \in Ahead(order)
    OBVIOUS
  <2>1. Whole(q) = Whole(pager.query)
    <3> HIDE DEF log
    <3> QED BY <1>3 DEF Whole, Asked
  <2>2. Covers(log, pager) /\ n = pager.since  BY DEF PagerHolds
  <2>3. all = Elements(Shown(SubSeq(log, 1, pager.since), Whole(pager.query)))
    BY <2>1, <2>2
  <2> HIDE DEF log, q, n, first, all
  <2>4. \A m \in all : m \in Elements(pager.seen)
          \/ (pager.seen # <<>> /\ <<Last(pager.seen), m>> \in Ahead(order))
    BY <2>2, <2>3 DEF Covers
  <2>5. pager.seen = <<>> => Elements(pager.seen) = {}  BY DEF Elements
  <2> QED BY <2>1, <2>2, <2>3, <2>4, <2>5 DEF Covers
<1> DEFINE page == Query(log, q)
           shown == Elements(Shown(log, q))
           limit == pager.query.limit
<1>11. /\ page \in Seq(Nat) /\ Chain(page, Ahead(order)) /\ Elements(page) \subseteq shown
       /\ Len(page) < limit => Elements(page) = shown
       /\ \A m \in shown : \/ m \in Elements(page)
                           \/ page # <<>> /\ Len(page) = limit /\ <<Last(page), m>> \in Ahead(order)
  <2>1. page = Take(Shown(log, q), limit)
    <3>1. q.limit # 0  BY <1>3, <1>6
    <3> HIDE DEF q, log
    <3> QED BY <1>6, <1>9, <3>1, QueryTakes
  <2>2. Shown(log, q) \in Seq(Nat) /\ Chain(Shown(log, q), Ahead(order))
    <3> HIDE DEF q, log
    <3> QED BY <1>2, <1>6, <1>9, ShownSound
  <2>3. limit \in Nat \ {0}  BY <1>3
  <2> DEFINE w == Shown(log, q)
             R == Ahead(order)
  <2>4. w \in Seq(Nat) /\ Chain(w, R)  BY <2>2
  <2> HIDE DEF q, log, order, page, limit, w, R
  <2>5. \E found : /\ found = Take(w, limit)
                   /\ found \in Seq(Nat) /\ Chain(found, R)
                   /\ Elements(found) \subseteq Elements(w)
                   /\ Len(found) < limit => found = w
                   /\ \A m \in Elements(w) :
                        \/ m \in Elements(found)
                        \/ found # <<>> /\ Len(found) = limit /\ <<Last(found), m>> \in R
    BY <2>3, <2>4, TakeSound
  <2> QED BY <2>1, <2>5 DEF w, R
<1>12. /\ Elements(Shown(log, Whole(q))) \subseteq 1..Len(log)
       /\ all = Elements(Shown(log, Whole(q))) \cap 1..n
       /\ shown = {i \in Elements(Shown(log, Whole(q))) :
                     q.cursor # None => <<q.cursor, i>> \in Ahead(order)}
  <2> HIDE DEF q, log, n, first
  <2>1. Sensible(log, Whole(q)) /\ Sensible(first, Whole(q)) /\ Whole(q).cursor = None
    BY <1>9, WholeIs
  <2>2. Elements(Shown(first, Whole(q))) = Elements(Shown(log, Whole(q))) \cap 1..n
    BY <1>2, <1>8, <2>1, ShownStays
  <2>3. Elements(Shown(log, Whole(q))) \subseteq 1..Len(log)  BY <1>2, <2>1, ShownSound
  <2>4. Elements(Shown(log, q)) =
           {i \in Elements(Shown(log, Whole(q))) :
              q.cursor # None => <<q.cursor, i>> \in Ahead(q.order)}
    BY <1>2, <1>9, CursorCuts
  <2> QED BY <1>6, <2>2, <2>3, <2>4
<1> DEFINE seen == pager.seen \o page
<1>13. pager.seen = <<>> \/ pager.since # None  BY DEF PagerHolds
<1>14. None \notin Nat  BY ReadsAssumption
<1> HIDE DEF log, q, order, n, first, all, page, shown, limit
<1>15. /\ seen \in Seq(Nat) /\ Chain(seen, Ahead(order))
       /\ Elements(seen) = Elements(pager.seen) \cup Elements(page)
  <2>1. \A x \in Elements(pager.seen) : \A y \in Elements(page) : <<x, y>> \in Ahead(order)
    <3> SUFFICES ASSUME NEW x \in Elements(pager.seen), NEW y \in Elements(page)
                 PROVE  <<x, y>> \in Ahead(order)
      OBVIOUS
    <3>1. PICK k \in 1..Len(pager.seen) : x = pager.seen[k]  BY DEF Elements
    <3>2. pager.seen # <<>> /\ Len(pager.seen) \in Nat  BY <1>3, <3>1
    <3> DEFINE z == Last(pager.seen)
    <3>3. z \in Nat /\ z = pager.seen[Len(pager.seen)] /\ Len(pager.seen) \in 1..Len(pager.seen)
      BY <1>4, <3>2
    <3>4. <<z, y>> \in Ahead(order) /\ y \in Nat
      <4>1. q.cursor = z /\ z # None  BY <1>6, <1>14, <3>2, <3>3
      <4>2. y \in shown  BY <1>11
      <4>3. shown \subseteq Nat
        <5>1. 1..Len(log) \subseteq Nat  OBVIOUS
        <5> QED BY <1>12, <5>1
      <4> QED BY <1>12, <4>1, <4>2, <4>3
    <3> HIDE DEF z
    <3>5. CASE k = Len(pager.seen)  BY <3>1, <3>3, <3>4, <3>5
    <3>6. CASE k < Len(pager.seen)
      <4>1. <<x, z>> \in Ahead(order)  BY <1>3, <3>1, <3>3, <3>6 DEF Chain
      <4>2. x \in Nat  BY <1>3, <3>1
      <4> QED BY <3>3, <3>4, <4>1, <4>2, AheadIs
    <3> QED BY <3>1, <3>2, <3>5, <3>6
  <2> QED BY <1>3, <1>11, <2>1, ConcatSound
<1>16. /\ pager'.query = q /\ pager'.seen = seen /\ pager'.since = n
       /\ pager'.pc = IF Len(page) < limit THEN "done" ELSE "reading"
       /\ pager' \in [query : Asked, pc : {"reading", "done"}, seen : Seq(Nat),
                      since : Nat \cup {None}]
  <2>1. pager' = [pager EXCEPT !.query = q, !.seen = @ \o page, !.since = n,
                     !.pc = IF Len(page) < limit THEN "done" ELSE @]
    BY <1>1 DEF log, q, n, page, limit
  <2>2. n \in Nat  BY <1>2, <1>7
  <2> QED BY <1>1, <1>3, <1>6, <1>15, <2>1, <2>2
<1>17. Elements(seen) \subseteq 1..Len(log)
  <2>1. Elements(page) \subseteq 1..Len(log)  BY <1>11, <1>12
  <2>2. Elements(pager.seen) \subseteq 1..Len(log)
    <3>1. pager.seen = <<>> => Elements(pager.seen) = {}  BY DEF Elements
    <3> QED BY <1>10, <1>13, <3>1
  <2> QED BY <1>15, <2>1, <2>2
<1>18. Elements(seen) \cap 1..n \subseteq all
  <2>1. Elements(page) \cap 1..n \subseteq all  BY <1>11, <1>12
  <2>2. Elements(pager.seen) \cap 1..n \subseteq all
    <3>1. pager.seen = <<>> => Elements(pager.seen) = {}  BY DEF Elements
    <3> QED BY <1>10, <1>13, <3>1
  <2> QED BY <1>15, <2>1, <2>2
<1>19. ASSUME NEW m \in all
       PROVE  \/ m \in Elements(seen)
              \/ ~(Len(page) < limit) /\ seen # <<>> /\ <<Last(seen), m>> \in Ahead(order)
  <2>1. CASE m \in Elements(pager.seen)  BY <1>15, <2>1
  <2>2. CASE m \notin Elements(pager.seen)
    <3>1. q.cursor # None => <<q.cursor, m>> \in Ahead(order)
      BY <1>6, <1>10, <1>13, <1>19, <2>2
    <3>2. m \in shown  BY <1>12, <3>1
    <3>3. CASE m \in Elements(page)  BY <1>15, <3>3
    <3>4. CASE m \notin Elements(page)
      <4>1. page # <<>> /\ Len(page) = limit /\ <<Last(page), m>> \in Ahead(order)
        BY <1>11, <3>2, <3>4
      <4>2. seen # <<>> /\ Last(seen) = Last(page)
        <5>1. Len(page) \in Nat /\ Len(page) # 0 /\ Len(pager.seen) \in Nat
          BY <1>3, <1>11, <4>1
        <5>2. Len(seen) = Len(pager.seen) + Len(page)  BY <1>3, <1>11
        <5>3. seen[Len(pager.seen) + Len(page)] = page[Len(page)]  BY <1>3, <1>11, <5>1
        <5> QED BY <5>1, <5>2, <5>3 DEF Last
      <4>3. ~(Len(page) < limit)  BY <1>3, <4>1 DEF limit
      <4> HIDE DEF seen
      <4> QED BY <4>1, <4>2, <4>3
    <3> QED BY <3>3, <3>4
  <2> QED BY <2>1, <2>2
<1> HIDE DEF seen
<1>20. LogsHold' /\ logs' = logs  BY <1>1 DEF LogsHold
<1>21. PagerTypes'  BY <1>3, <1>6, <1>16 DEF PagerTypes, order
<1>22. Covers(log, pager')
  <2>1. /\ first = SubSeq(log, 1, n) /\ all = Elements(Shown(first, Whole(q)))
    BY DEF first, all
  <2> QED BY <1>6, <1>7, <1>9, <1>16, <1>17, <1>18, <1>19, <2>1 DEF Covers
<1>23. log' = log /\ n # None  BY <1>2, <1>7, <1>14, <1>20 DEF log
<1> QED BY <1>6, <1>15, <1>16, <1>20, <1>21, <1>22, <1>23 DEF PagerHolds, log

\* The invariant says what pages cover.
LEMMA PagerCovers == LogsHold /\ PagerHolds => PagesCoverOnce
<1> SUFFICES ASSUME LogsHold, PagerHolds PROVE PagesCoverOnce  OBVIOUS
<1> DEFINE log == logs["one"]
           n == pager.since
           first == SubSeq(log, 1, n)
           q == pager.query
<1>1. pager.seen \in Seq(Nat) /\ Chain(pager.seen, Ahead(q.order)) /\ None \notin Nat
  BY ReadsAssumption DEF PagerHolds, PagerTypes
<1>2. IsInjective(pager.seen)
  <2> SUFFICES ASSUME NEW j \in DOMAIN pager.seen, NEW k \in DOMAIN pager.seen,
                      pager.seen[j] = pager.seen[k], j # k
               PROVE  FALSE
    BY DEF IsInjective
  <2>1. j \in 1..Len(pager.seen) /\ k \in 1..Len(pager.seen) /\ pager.seen[j] \in Nat
    BY <1>1
  <2>2. <<pager.seen[j], pager.seen[j]>> \in Ahead(q.order)  BY <1>1, <2>1 DEF Chain
  <2> QED BY <2>1, <2>2, AheadStrict
<1>3. ASSUME pager.pc = "done"
      PROVE  Within(pager.seen, 1..n) = Query(first, Whole(q))
  <2>1. n # None /\ Covers(log, pager)  BY <1>3 DEF PagerHolds
  <2>2. Logged(log)  BY DEF LogsHold, Sessions
  <2>3. n \in 0..Len(log) /\ Begins(first, log, n)  BY <2>1, <2>2, BeginningOf DEF Covers
  <2>4. Logged(first)  BY <2>3 DEF Begins
  <2>5. Sensible(first, q)  BY <2>1 DEF Covers
  <2> HIDE DEF first, q, n
  <2>6. Sensible(first, Whole(q)) /\ Whole(q).limit = None /\ Whole(q).order = q.order
    BY <2>5, WholeIs
  <2>7. Query(first, Whole(q)) = Shown(first, Whole(q))
    <3>1. Whole(q).limit # 0  BY <1>1, <2>6
    <3>2. Query(first, Whole(q)) = Take(Shown(first, Whole(q)), Whole(q).limit)
      BY <2>6, <3>1, QueryTakes
    <3> QED BY <2>6, <3>2 DEF Take
  <2> DEFINE u == Within(pager.seen, 1..n)
             v == Shown(first, Whole(q))
  <2>8. u \in Seq(Nat) /\ Chain(u, Ahead(q.order))  BY <1>1, WithinType, WithinChain
  <2>9. v \in Seq(Nat) /\ Chain(v, Ahead(q.order))  BY <2>4, <2>6, ShownSound
  <2>10. Elements(u) = Elements(pager.seen) \cap 1..n  BY <1>1, WithinElements
  <2>11. Elements(v) \subseteq 1..n
    <3>1. Elements(v) \subseteq 1..Len(first)  BY <2>4, <2>6, ShownSound
    <3> QED BY <2>3, <3>1 DEF Begins
  <2>12. Elements(pager.seen) \cap 1..n \subseteq Elements(v) /\ Elements(v) \subseteq Elements(pager.seen)
    BY <1>3, <2>1 DEF Covers, first, q, n
  <2>13. Elements(u) = Elements(v)  BY <2>10, <2>11, <2>12
  <2> HIDE DEF u, v
  <2>14. \A i, j \in Nat : <<i, j>> \in Ahead(q.order) => <<j, i>> \notin Ahead(q.order)
    BY AheadStrict
  <2>15. u = v  BY <2>8, <2>9, <2>13, <2>14, ChainUnique
  <2> QED BY <2>7, <2>15 DEF u, v
<1> QED BY <1>2, <1>3 DEF PagesCoverOnce, Whole


-----------------------------------------------------------------------------
(* The search.                                                             *)

\* What a search may be.
SearchRecords ==
  [sessions : Seq(Sessions), types : {None} \cup SUBSET ItemTypes, limit : Nat \cup {None},
   pc : {"source", "page", "yield", "done", "limited", "duplicate", "aborted"},
   seen : SUBSET Sessions, now : Sessions \cup {None}, after : Nat, page : Seq(Nat),
   full : BOOLEAN, hits : Seq(Sessions \X Nat), since : [Sessions -> Nat]]

\* Its types.
SearchTypes ==
  /\ search \in SearchRecords
  /\ search.types # None => IsFiniteSet(search.types)

\* What a search that came to session s owes its caller, and what it has given.
Due(log, r, s, i) ==
  /\ i \in EntriesOf(log) /\ i <= r.since[s]
  /\ Wanted(r.types, log[i].type) /\ log[i].hit

\* An entry has been handed out.
Found(hits, s, i) == \E k \in 1..Len(hits) : hits[k] = <<s, i>>

\* Hits of one session come in its order, so that none comes twice.
InOrder(hits) ==
  \A j, k \in 1..Len(hits) : j < k /\ hits[j][1] = hits[k][1] => hits[j][2] < hits[k][2]

\* In the session at hand, what is owed has been given, is on the page, or comes
\* after it, and then the page does not look like the last one.
AtHand(log, r) ==
  /\ r.now \in r.seen
  /\ Chain(r.page, Ahead("oldestFirst"))
  /\ Elements(r.page) \subseteq EntriesOf(log)
  /\ \A i \in Elements(r.page) : i <= r.after
  /\ \A k \in 1..Len(r.hits) : r.hits[k][1] = r.now =>
       r.hits[k][2] <= r.after /\ \A i \in Elements(r.page) : r.hits[k][2] < i
  /\ \A i \in EntriesOf(log) : Due(log, r, r.now, i) =>
       \/ Found(r.hits, r.now, i)
       \/ i \in Elements(r.page)
       \/ i > r.after /\ (r.pc = "page" \/ r.full)

\* Behind a session nothing is owed.
Behind(log, r, s) == \A i \in EntriesOf(log) : Due(log, r, s, i) => Found(r.hits, s, i)

\* The inductive invariant of the search: in the session at hand what is owed is
\* within reach, and nothing is owed in the sessions it has been through.
SearchHolds ==
  /\ SearchTypes
  /\ InOrder(search.hits)
  /\ \A k \in 1..Len(search.hits) : search.hits[k][1] \in search.seen
  /\ \A s \in search.seen : search.since[s] <= Len(logs[s])
  /\ search.pc \in {"source", "page"} => search.page = <<>>
  /\ search.pc \in {"page", "yield"} =>
       /\ AtHand(logs[search.now], search)
       /\ \A s \in search.seen \ {search.now} : Behind(logs[s], search, s)
  /\ search.pc \in {"source", "done"} =>
       \A s \in search.seen : Behind(logs[s], search, s)

\* What is left of a page without its first item.
LEMMA FrontAndRest ==
  ASSUME NEW p \in Seq(Nat), p # <<>>
  PROVE  /\ Len(p) \in Nat /\ Len(p) >= 1 /\ Head(p) = p[1]
         /\ Tail(p) \in Seq(Nat) /\ Len(Tail(p)) = Len(p) - 1
         /\ \A k \in 1..(Len(p) - 1) : Tail(p)[k] = p[k + 1] /\ k + 1 \in 1..Len(p)
         /\ \A k \in 1..Len(p) :
              k # 1 => k - 1 \in 1..(Len(p) - 1) /\ p[k] = Tail(p)[k - 1]
<1>1. Len(p) \in Nat /\ Len(p) >= 1  OBVIOUS
<1>2. Head(p) = p[1] /\ Tail(p) \in Seq(Nat) /\ Len(Tail(p)) = Len(p) - 1  OBVIOUS
<1>3. \A k \in 1..(Len(p) - 1) : Tail(p)[k] = p[k + 1] /\ k + 1 \in 1..Len(p)  BY <1>1
<1>4. ASSUME NEW k \in 1..Len(p), k # 1
      PROVE  k - 1 \in 1..(Len(p) - 1) /\ p[k] = Tail(p)[k - 1]
  <2>1. k - 1 \in 1..(Len(p) - 1) /\ (k - 1) + 1 = k  BY <1>1, <1>4
  <2> QED BY <1>3, <2>1
<1> QED BY <1>1, <1>2, <1>3, <1>4

\* A search begins with nothing.
LEMMA SearchInit == ReadInit => SearchHolds
<1> SUFFICES ASSUME ReadInit PROVE SearchHolds  OBVIOUS
<1>1. PICK o \in Searches :
        search = [sessions |-> o.sessions, types |-> o.types, limit |-> o.limit,
                  pc |-> IF o.limit = 0 \/ o.types = {} THEN "done" ELSE "source",
                  seen |-> {}, now |-> None, after |-> 0, page |-> <<>>,
                  full |-> FALSE, hits |-> <<>>, since |-> [s \in Sessions |-> 0]]
  BY DEF ReadInit
<1>2. /\ o \in [sessions : Seq(Sessions), types : {None} \cup SUBSET ItemTypes,
                limit : Nat \cup {None}]
      /\ o.types # None => IsFiniteSet(o.types)
  BY ReadsAssumption
<1>3. <<>> \in Seq(Nat) /\ <<>> \in Seq(Sessions \X Nat) /\ Len(<<>>) = 0
      /\ [s \in Sessions |-> 0] \in [Sessions -> Nat]
  OBVIOUS
<1>4. SearchTypes  BY <1>1, <1>2, <1>3 DEF SearchTypes, SearchRecords
<1>5. search.pc \in {"source", "done"} /\ search.seen = {} /\ search.hits = <<>>
      /\ search.page = <<>>
  BY <1>1
<1>6. InOrder(<<>>) /\ 1..Len(<<>>) = {}  BY <1>3 DEF InOrder
<1> QED BY <1>4, <1>5, <1>6 DEF SearchHolds

\* What is owed was there when the search came to the session, so that appends
\* add nothing to it.
LEMMA SearchAppend ==
  ASSUME LogsHold, SearchHolds, NEW s \in Sessions, NEW item \in Items, Append1(s, item)
  PROVE  SearchHolds'
<1>1. /\ Fits(logs[s], item) /\ logs' = [logs EXCEPT ![s] = Append(@, item)]
      /\ search' = search
  BY DEF Append1
<1>2. logs \in [Sessions -> Seq(Items)] /\ \A t \in Sessions : Logged(logs[t])  BY DEF LogsHold
<1>3. \A t \in Sessions : Len(logs[t]) \in Nat  BY <1>2
<1>4. ASSUME NEW t \in Sessions
      PROVE  /\ Len(logs'[t]) \in Nat /\ Len(logs'[t]) >= Len(logs[t])
             /\ EntriesOf(logs[t]) = EntriesOf(logs'[t]) \cap 1..Len(logs[t])
             /\ \A i \in 1..Len(logs[t]) : logs'[t][i] = logs[t][i]
             /\ EntriesOf(logs'[t]) \subseteq Nat \ {0}
  <2>1. CASE t # s
    <3>1. logs'[t] = logs[t]  BY <1>1, <1>2, <2>1
    <3>2. EntriesOf(logs[t]) \subseteq 1..Len(logs[t])  BY <1>2, EntriesAre
    <3> QED BY <1>3, <3>1, <3>2
  <2>2. CASE t = s
    <3>1. logs'[s] = Append(logs[s], item)  BY <1>1, <1>2
    <3>2. Logged(logs[s]) /\ Logged(Append(logs[s], item))
          /\ Begins(logs[s], Append(logs[s], item), Len(logs[s]))
      BY <1>1, <1>2, AppendLogged
    <3> DEFINE more == Append(logs[s], item)
    <3>3. Len(more) = Len(logs[s]) + 1 /\ more \in Seq(Items)  BY <1>2
    <3>4. EntriesOf(more) \subseteq 1..Len(more)  BY <3>3, EntriesAre
    <3> HIDE DEF more
    <3>5. logs'[t] = more /\ Begins(logs[t], more, Len(logs[t]))  BY <2>2, <3>1, <3>2 DEF more
    <3>6. Len(more) \in Nat /\ Len(more) >= Len(logs[t])  BY <1>3, <2>2, <3>3
    <3>7. EntriesOf(more) \subseteq Nat \ {0}  BY <3>4, <3>6
    <3> QED BY <3>5, <3>6, <3>7 DEF Begins
  <2> QED BY <2>1, <2>2
<1>5. search \in SearchRecords  BY DEF SearchHolds, SearchTypes
<1>6. search.seen \subseteq Sessions /\ search.since \in [Sessions -> Nat]
      /\ search.now \in Sessions \cup {None}
  BY <1>5 DEF SearchRecords
<1>7. \A t \in search.seen : search.since[t] <= Len(logs[t])  BY DEF SearchHolds
<1>8. ASSUME NEW t \in search.seen, NEW i \in EntriesOf(logs'[t]), Due(logs'[t], search, t, i)
      PROVE  i \in EntriesOf(logs[t]) /\ Due(logs[t], search, t, i)
  <2>1. t \in Sessions /\ i \in Nat \ {0} /\ i <= search.since[t] /\ search.since[t] \in Nat
    BY <1>4, <1>6, <1>8 DEF Due
  <2>2. i \in 1..Len(logs[t])  BY <1>3, <1>7, <2>1
  <2>3. i \in EntriesOf(logs[t]) /\ logs'[t][i] = logs[t][i]  BY <1>4, <2>1, <2>2
  <2> QED BY <1>8, <2>3 DEF Due
<1>9. \A t \in search.seen : Behind(logs[t], search, t) => Behind(logs'[t], search, t)
  BY <1>8 DEF Behind
<1>10. search.now \in search.seen /\ AtHand(logs[search.now], search)
         => AtHand(logs'[search.now], search)
  <2> SUFFICES ASSUME search.now \in search.seen, AtHand(logs[search.now], search)
               PROVE  AtHand(logs'[search.now], search)
    OBVIOUS
  <2> DEFINE t == search.now
  <2>1. EntriesOf(logs[t]) \subseteq EntriesOf(logs'[t])  BY <1>4, <1>6
  <2>2. \A i \in EntriesOf(logs'[t]) : Due(logs'[t], search, t, i) =>
          i \in EntriesOf(logs[t]) /\ Due(logs[t], search, t, i)
    BY <1>8
  <2> QED BY <2>1, <2>2 DEF AtHand
<1>11. \A t \in search.seen : search.since[t] <= Len(logs'[t])
  BY <1>3, <1>4, <1>6, <1>7
<1>12. SearchTypes'  BY <1>1 DEF SearchHolds, SearchTypes
<1>13. AtHand(logs[search.now], search) => search.now \in search.seen  BY DEF AtHand
<1> QED BY <1>1, <1>9, <1>10, <1>11, <1>12, <1>13 DEF SearchHolds

\* What a page holds, and what it leaves.
LEMMA PageFound ==
  ASSUME NEW log, Logged(log), SearchTypes
  PROVE  \E page : /\ page = FindEntries(log, PageQuery)
                   /\ page \in Seq(Nat) /\ Chain(page, Ahead("oldestFirst"))
                   /\ \A i \in Elements(page) : i \in EntriesOf(log) /\ i > search.after
                   /\ \A i \in EntriesOf(log) :
                        i > search.after /\ Wanted(search.types, log[i].type) =>
                          \/ i \in Elements(page)
                          \/ page # <<>> /\ Len(page) = PageSize
                             /\ <<Last(page), i>> \in Ahead("oldestFirst")
<1> DEFINE q == PageQuery
           o == Ordered(log, "oldestFirst")
           w == Within(o, MatchingEntries(log, q))
           R == Ahead("oldestFirst")
<1>0. log \in Seq(Items) /\ EntriesOf(log) \subseteq 1..Len(log) /\ EntriesOf(log) \subseteq Nat
  BY EntriesAre DEF Logged
<1>1. search \in SearchRecords /\ search.after \in Nat /\ None \notin Nat /\ PageSize \in Nat \ {0}
  BY ReadsAssumption DEF SearchTypes, SearchRecords
<1>2. /\ q.order = "oldestFirst" /\ q.limit = PageSize /\ q.cursor = search.after
      /\ q.type = IF search.types # None /\ Cardinality(search.types) = 1
                  THEN CHOOSE t \in search.types : TRUE ELSE None
  BY DEF PageQuery
<1>3. \A type : Wanted(search.types, type) => (q.type # None => type = q.type)
  <2> SUFFICES ASSUME NEW type, Wanted(search.types, type), q.type # None PROVE type = q.type
    OBVIOUS
  <2>1. search.types # None /\ Cardinality(search.types) = 1 /\ IsFiniteSet(search.types)
    BY <1>2 DEF SearchTypes
  <2>2. PICK e : search.types = {e}  BY <2>1, FS_Singleton
  <2>3. type = e  BY <2>1, <2>2 DEF Wanted
  <2>4. (CHOOSE t \in {e} : TRUE) = e  OBVIOUS
  <2> QED BY <1>2, <2>1, <2>2, <2>3, <2>4
<1> HIDE DEF q
<1>4. /\ MatchingEntries(log, q) \subseteq EntriesOf(log)
      /\ \A i \in MatchingEntries(log, q) : i > search.after
      /\ \A i \in EntriesOf(log) : i > search.after /\ Wanted(search.types, log[i].type)
            => i \in MatchingEntries(log, q)
  <2>1. search.after # None  BY <1>1
  <2> QED BY <1>2, <1>3, <2>1 DEF MatchingEntries, Beyond
<1>5. o \in Seq(Nat) /\ Chain(o, R) /\ Elements(o) = 1..Len(log)  BY <1>0, OrderedSound
<1> HIDE DEF o, R
<1>6. w \in Seq(Nat) /\ Chain(w, R) /\ Elements(w) = Elements(o) \cap MatchingEntries(log, q)
  BY <1>5, WithinType, WithinChain, WithinElements
<1>7. FindEntries(log, q) = Take(w, PageSize)  BY <1>2 DEF FindEntries, o
<1> HIDE DEF w
<1>8. PICK page : /\ page = Take(w, PageSize)
                  /\ page \in Seq(Nat) /\ Chain(page, R)
                  /\ Elements(page) \subseteq Elements(w)
                  /\ \A m \in Elements(w) :
                        \/ m \in Elements(page)
                        \/ page # <<>> /\ Len(page) = PageSize /\ <<Last(page), m>> \in R
  BY <1>1, <1>6, TakeSound
<1>9. \A i \in Elements(page) : i \in EntriesOf(log) /\ i > search.after  BY <1>4, <1>6, <1>8
<1>10. ASSUME NEW i \in EntriesOf(log), i > search.after, Wanted(search.types, log[i].type)
       PROVE  i \in Elements(page) \/ (page # <<>> /\ Len(page) = PageSize
                                       /\ <<Last(page), i>> \in R)
  <2>1. i \in Elements(w)  BY <1>0, <1>4, <1>5, <1>6, <1>10
  <2> QED BY <1>8, <2>1
<1>11. page = FindEntries(log, PageQuery)  BY <1>7, <1>8 DEF q
<1> QED BY <1>8, <1>9, <1>10, <1>11 DEF R


\* Coming to a session, the search owes all that is there, and has given nothing
\* of it.
LEMMA SearchNextSession ==
  ASSUME LogsHold, SearchHolds, NextSession
  PROVE  SearchHolds'
<1>1. search.pc = "source" /\ logs' = logs  BY DEF NextSession
<1>2. search \in SearchRecords /\ search.page = <<>>  BY <1>1 DEF SearchHolds, SearchTypes
<1>3. \A s \in Sessions : Len(logs[s]) \in Nat /\ logs[s] \in Seq(Items)  BY DEF LogsHold
<1>4. CASE search.sessions = <<>>
  <2>1. search' = [search EXCEPT !.pc = "done"]  BY <1>4 DEF NextSession
  <2>2. /\ search' \in SearchRecords /\ search'.pc = "done"
        /\ search'.hits = search.hits /\ search'.seen = search.seen
        /\ search'.since = search.since /\ search'.types = search.types
    BY <1>2, <2>1 DEF SearchRecords
  <2>3. \A s \in search.seen : Behind(logs[s], search, s)  BY <1>1 DEF SearchHolds
  <2>4. \A s \in search.seen : Behind(logs[s], search', s)
    BY <2>2, <2>3 DEF Behind, Due
  <2> QED BY <1>1, <2>2, <2>4 DEF SearchHolds, SearchTypes
<1>5. CASE search.sessions # <<>> /\ Head(search.sessions) \in search.seen
  <2>1. search' = [search EXCEPT !.pc = "duplicate"]  BY <1>5 DEF NextSession
  <2>2. /\ search' \in SearchRecords /\ search'.pc = "duplicate"
        /\ search'.hits = search.hits /\ search'.seen = search.seen
        /\ search'.since = search.since /\ search'.types = search.types
    BY <1>2, <2>1 DEF SearchRecords
  <2> QED BY <1>1, <2>2 DEF SearchHolds, SearchTypes
<1>6. CASE search.sessions # <<>> /\ Head(search.sessions) \notin search.seen
  <2> DEFINE s == Head(search.sessions)
  <2>1. search' = [search EXCEPT !.sessions = Tail(@), !.seen = @ \cup {s},
                     !.now = s, !.after = 0, !.pc = "page", !.since[s] = Len(logs[s])]
    BY <1>6 DEF NextSession
  <2>2. search.sessions \in Seq(Sessions)  BY <1>2 DEF SearchRecords
  <2>3. s \in Sessions /\ Tail(search.sessions) \in Seq(Sessions)  BY <1>6, <2>2
  <2> HIDE DEF s
  <2>4. /\ search' \in SearchRecords /\ search'.pc = "page" /\ search'.now = s
        /\ search'.hits = search.hits /\ search'.seen = search.seen \cup {s}
        /\ search'.types = search.types /\ search'.page = <<>> /\ search'.after = 0
        /\ search'.since[s] = Len(logs[s])
        /\ \A t \in Sessions : t # s => search'.since[t] = search.since[t]
    BY <1>2, <1>3, <2>1, <2>3 DEF SearchRecords
  <2>5. search.seen \subseteq Sessions /\ s \notin search.seen
    BY <1>2, <1>6 DEF SearchRecords, s
  <2>6. \A k \in 1..Len(search.hits) : search.hits[k][1] \in search.seen  BY DEF SearchHolds
  <2>7. AtHand(logs[s], search')
    <3>1. Elements(<<>>) = {} /\ \A R : Chain(<<>>, R)  BY DEF Elements, Chain
    <3>2. \A i \in EntriesOf(logs[s]) : i > 0
      <4>1. EntriesOf(logs[s]) \subseteq 1..Len(logs[s])  BY <1>3, <2>3, EntriesAre
      <4> QED BY <1>3, <2>3, <4>1
    <3>3. \A k \in 1..Len(search.hits) : search.hits[k][1] # s  BY <2>5, <2>6
    <3> QED BY <2>4, <3>1, <3>2, <3>3 DEF AtHand
  <2>8. \A t \in search.seen : Behind(logs[t], search', t)
    <3>1. \A t \in search.seen : Behind(logs[t], search, t)  BY <1>1 DEF SearchHolds
    <3>2. \A t \in search.seen : t # s /\ search'.since[t] = search.since[t]
      BY <2>4, <2>5
    <3> QED BY <2>4, <3>1, <3>2 DEF Behind, Due
  <2>9. \A t \in search'.seen : search'.since[t] <= Len(logs[t])
    <3>1. \A t \in search.seen : search.since[t] <= Len(logs[t])  BY DEF SearchHolds
    <3>2. \A t \in search.seen : t # s /\ search'.since[t] = search.since[t]
      BY <2>4, <2>5
    <3> QED BY <1>3, <2>3, <2>4, <3>1, <3>2
  <2>10. \A k \in 1..Len(search.hits) : search.hits[k][1] \in search'.seen  BY <2>4, <2>6
  <2>11. search'.seen \ {s} \subseteq search.seen  BY <2>4
  <2>12. SearchTypes'  BY <2>4 DEF SearchHolds, SearchTypes
  <2> QED BY <1>1, <2>4, <2>7, <2>8, <2>9, <2>10, <2>11, <2>12 DEF SearchHolds
<1> QED BY <1>4, <1>5, <1>6

\* A page takes what comes next; when nothing does, all has been given.
LEMMA SearchFetch ==
  ASSUME LogsHold, SearchHolds, FetchPage
  PROVE  SearchHolds'
<1> DEFINE log == logs[search.now]
<1>1. /\ search.pc = "page" /\ logs' = logs /\ search.page = <<>>
      /\ AtHand(log, search)
      /\ \A s \in search.seen \ {search.now} : Behind(logs[s], search, s)
      /\ search \in SearchRecords /\ SearchTypes
      /\ search.seen \subseteq Sessions /\ search.after \in Nat
      /\ search.hits \in Seq(Sessions \X Nat)
  BY DEF FetchPage, SearchHolds, SearchTypes, SearchRecords
<1>2. search.now \in search.seen  BY <1>1 DEF AtHand
<1>3. Logged(log) /\ log \in Seq(Items)  BY <1>1, <1>2 DEF LogsHold, Logged
<1>4. EntriesOf(log) \subseteq 1..Len(log) /\ EntriesOf(log) \subseteq Nat  BY <1>3, EntriesAre
<1>5. PICK page : /\ page = FindEntries(log, PageQuery)
                  /\ page \in Seq(Nat) /\ Chain(page, Ahead("oldestFirst"))
                  /\ \A i \in Elements(page) : i \in EntriesOf(log) /\ i > search.after
                  /\ \A i \in EntriesOf(log) :
                       i > search.after /\ Wanted(search.types, log[i].type) =>
                         \/ i \in Elements(page)
                         \/ page # <<>> /\ Len(page) = PageSize
                            /\ <<Last(page), i>> \in Ahead("oldestFirst")
  BY <1>1, <1>3, PageFound
<1> DEFINE full == Len(page) = PageSize
           after == IF page = <<>> THEN search.after ELSE Last(page)
<1>6. search' = [search EXCEPT !.page = page, !.full = full, !.after = after,
                   !.pc = IF page = <<>> THEN "source" ELSE "yield"]
  BY <1>5 DEF FetchPage
<1>7. after \in Nat /\ search.after <= after /\ \A i \in Elements(page) : i <= after
  <2>1. CASE page = <<>>
    <3>1. Elements(page) = {}  BY <2>1 DEF Elements
    <3> QED BY <1>1, <2>1, <3>1
  <2>2. CASE page # <<>>
    <3> DEFINE N == Len(page)
    <3>1. N \in Nat /\ N \in 1..N /\ after = page[N]  BY <1>5, <2>2 DEF Last
    <3>2. page[N] \in Nat /\ page[N] \in Elements(page)  BY <1>5, <3>1 DEF Elements
    <3>3. page[N] > search.after  BY <1>5, <3>2
    <3>4. ASSUME NEW i \in Elements(page) PROVE i <= page[N]
      <4>1. PICK k \in 1..N : i = page[k]  BY DEF Elements
      <4>2. page[k] \in Nat  BY <1>5, <4>1
      <4>3. CASE k = N  BY <3>2, <4>1, <4>3
      <4>4. CASE k < N
        <5>1. <<page[k], page[N]>> \in Ahead("oldestFirst")  BY <1>5, <3>1, <4>1, <4>4 DEF Chain
        <5>2. page[k] < page[N]  BY <3>2, <4>2, <5>1, AheadIs
        <5> QED BY <3>2, <4>1, <4>2, <5>2
      <4> QED BY <3>1, <4>1, <4>3, <4>4
    <3> HIDE DEF N, after
    <3> QED BY <1>1, <3>1, <3>2, <3>3, <3>4
  <2> QED BY <2>1, <2>2
<1> HIDE DEF after, full
<1>8. /\ search' \in SearchRecords
      /\ search'.page = page /\ search'.full = full /\ search'.after = after
      /\ search'.pc = IF page = <<>> THEN "source" ELSE "yield"
      /\ search'.hits = search.hits /\ search'.seen = search.seen /\ search'.now = search.now
      /\ search'.since = search.since /\ search'.types = search.types
  BY <1>1, <1>5, <1>6, <1>7 DEF SearchRecords, full
<1>9. \A s \in search.seen \ {search.now} : Behind(logs[s], search', s)
  BY <1>1, <1>8 DEF Behind, Due
<1>10. ASSUME NEW i \in EntriesOf(log), Due(log, search', search.now, i)
       PROVE  \/ Found(search.hits, search.now, i)
              \/ i \in Elements(page)
              \/ page # <<>> /\ i > after /\ full
  <2>1. Due(log, search, search.now, i)  BY <1>8, <1>10 DEF Due
  <2>2. Found(search.hits, search.now, i) \/ i > search.after
    <3>1. Elements(<<>>) = {}  BY DEF Elements
    <3> QED BY <1>1, <2>1, <3>1 DEF AtHand
  <2>3. CASE i > search.after
    <3>1. Wanted(search.types, log[i].type)  BY <2>1 DEF Due
    <3>2. \/ i \in Elements(page)
          \/ page # <<>> /\ Len(page) = PageSize /\ <<Last(page), i>> \in Ahead("oldestFirst")
      BY <1>5, <2>3, <3>1
    <3>3. page # <<>> /\ <<Last(page), i>> \in Ahead("oldestFirst") => i > after
      <4> SUFFICES ASSUME page # <<>>, <<after, i>> \in Ahead("oldestFirst") PROVE i > after
        BY DEF after
      <4> QED BY <1>4, <1>7, AheadIs
    <3> QED BY <3>2, <3>3 DEF full
  <2> QED BY <2>2, <2>3
<1>11. \A k \in 1..Len(search.hits) : search.hits[k][1] = search.now =>
         search.hits[k][2] <= after /\ \A i \in Elements(page) : search.hits[k][2] < i
  <2> SUFFICES ASSUME NEW k \in 1..Len(search.hits), search.hits[k][1] = search.now
               PROVE  search.hits[k][2] <= after
                      /\ \A i \in Elements(page) : search.hits[k][2] < i
    OBVIOUS
  <2>1. search.hits[k][2] <= search.after  BY <1>1 DEF AtHand
  <2>2. search.hits[k] \in Sessions \X Nat  BY <1>1
  <2>3. search.hits[k][2] \in Nat  BY <2>2
  <2>4. \A i \in Elements(page) : i \in Nat /\ i > search.after  BY <1>4, <1>5
  <2> QED BY <1>1, <1>7, <2>1, <2>3, <2>4
<1>12. CASE page # <<>>
  <2>1. AtHand(log, search')
    <3>1. Elements(page) \subseteq EntriesOf(log)  BY <1>5
    <3> HIDE DEF log
    <3>2. \A i \in EntriesOf(log) : Due(log, search', search.now, i) =>
            \/ Found(search.hits, search.now, i)
            \/ i \in Elements(page)
            \/ i > after /\ full
      BY <1>10
    <3> QED BY <1>2, <1>5, <1>7, <1>8, <1>11, <3>1, <3>2 DEF AtHand
  <2>2. SearchTypes'  BY <1>8 DEF SearchHolds, SearchTypes
  <2>3. search'.pc = "yield"  BY <1>8, <1>12
  <2> QED BY <1>1, <1>8, <1>9, <2>1, <2>2, <2>3 DEF SearchHolds
<1>13. CASE page = <<>>
  <2>1. Elements(page) = {}  BY <1>13 DEF Elements
  <2>2. Behind(log, search', search.now)  BY <1>8, <1>10, <1>13, <2>1 DEF Behind
  <2>3. SearchTypes'  BY <1>8 DEF SearchHolds, SearchTypes
  <2>4. search'.pc = "source" /\ search'.page = <<>>  BY <1>8, <1>13
  <2>5. \A s \in search.seen : Behind(logs[s], search', s)  BY <1>9, <2>2
  <2> QED BY <1>1, <1>8, <2>3, <2>4, <2>5 DEF SearchHolds
<1> QED BY <1>12, <1>13


\* An entry of the page is given if it is wanted, and a page that is done is the
\* last one only if nothing can come after it.
LEMMA SearchYield ==
  ASSUME LogsHold, SearchHolds, Yield
  PROVE  SearchHolds'
<1> DEFINE log == logs[search.now]
<1>1. /\ search.pc = "yield" /\ logs' = logs
      /\ AtHand(log, search)
      /\ \A s \in search.seen \ {search.now} : Behind(logs[s], search, s)
      /\ search \in SearchRecords /\ SearchTypes
      /\ search.seen \subseteq Sessions /\ search.after \in Nat
      /\ search.hits \in Seq(Sessions \X Nat) /\ search.page \in Seq(Nat)
  BY DEF Yield, SearchHolds, SearchTypes, SearchRecords
<1>2. search.now \in search.seen  BY <1>1 DEF AtHand
<1>3. CASE search.page = <<>>
  <2>1. search' = [search EXCEPT !.pc = IF search.full THEN "page" ELSE "source"]
    BY <1>3 DEF Yield
  <2>2. /\ search' \in SearchRecords /\ search'.pc = IF search.full THEN "page" ELSE "source"
        /\ search'.page = <<>> /\ search'.full = search.full /\ search'.after = search.after
        /\ search'.hits = search.hits /\ search'.seen = search.seen /\ search'.now = search.now
        /\ search'.since = search.since /\ search'.types = search.types
    BY <1>1, <1>3, <2>1 DEF SearchRecords
  <2>3. \A s \in search.seen \ {search.now} : Behind(logs[s], search', s)
    BY <1>1, <2>2 DEF Behind, Due
  <2>4. SearchTypes'  BY <2>2 DEF SearchHolds, SearchTypes
  <2>5. \A i \in EntriesOf(log) : Due(log, search', search.now, i) =>
          Due(log, search, search.now, i)
    BY <2>2 DEF Due
  <2>6. CASE search.full
    <3>1. AtHand(log, search')
      <4> HIDE DEF log
      <4> QED BY <1>1, <1>3, <2>2, <2>5, <2>6 DEF AtHand
    <3> QED BY <1>1, <2>2, <2>3, <2>4, <2>6, <3>1 DEF SearchHolds
  <2>7. CASE ~search.full
    <3>1. Elements(<<>>) = {}  BY DEF Elements
    <3>2. Behind(log, search', search.now)
      <4> HIDE DEF log
      <4> QED BY <1>1, <1>3, <2>2, <2>5, <2>7, <3>1 DEF AtHand, Behind
    <3>3. \A s \in search.seen : Behind(logs[s], search', s)  BY <2>3, <3>2
    <3> QED BY <1>1, <2>2, <2>4, <2>7, <3>3 DEF SearchHolds
  <2> QED BY <2>6, <2>7
<1>4. CASE search.page # <<>>
  <2> DEFINE i == Head(search.page)
             rest == Tail(search.page)
             now == search.now
             old == search.hits
             hit == Wanted(search.types, log[i].type) /\ (log[i].hit \/ Labelled(log, i))
             hits == IF hit THEN Append(old, <<now, i>>) ELSE old
  <2>1. search' = [search EXCEPT !.page = rest, !.hits = hits,
                     !.pc = IF search.limit # None /\ Len(hits) >= search.limit
                            THEN "limited" ELSE @]
    BY <1>4 DEF Yield
  <2>2. /\ rest \in Seq(Nat) /\ i \in Nat /\ i \in Elements(search.page)
        /\ Chain(rest, Ahead("oldestFirst"))
        /\ Elements(search.page) = {i} \cup Elements(rest)
        /\ \A y \in Elements(rest) : i < y
    <3> DEFINE p == search.page
               N == Len(p)
    <3>1. /\ N \in Nat /\ N >= 1 /\ i = p[1] /\ rest \in Seq(Nat) /\ Len(rest) = N - 1
          /\ \A k \in 1..(N - 1) : rest[k] = p[k + 1] /\ k + 1 \in 1..N
          /\ \A k \in 1..N : k # 1 => k - 1 \in 1..(N - 1) /\ p[k] = rest[k - 1]
      <4>1. p \in Seq(Nat) /\ p # <<>>  BY <1>1, <1>4
      <4> HIDE DEF p
      <4> QED BY <4>1, FrontAndRest DEF i, rest, N, p
    <3>2. Chain(p, Ahead("oldestFirst"))  BY <1>1 DEF AtHand
    <3>3. p \in Seq(Nat)  BY <1>1
    <3> HIDE DEF i, rest, p, N
    <3>4. i \in Nat /\ 1 \in 1..N /\ i \in Elements(p)  BY <3>1, <3>3 DEF Elements, N
    <3>5. Chain(rest, Ahead("oldestFirst"))
      <4> SUFFICES ASSUME NEW j \in 1..(N - 1), NEW k \in 1..(N - 1), j < k
                   PROVE  <<rest[j], rest[k]>> \in Ahead("oldestFirst")
        BY <3>1 DEF Chain
      <4>1. j + 1 \in 1..N /\ k + 1 \in 1..N /\ j + 1 < k + 1  BY <3>1
      <4>2. <<p[j + 1], p[k + 1]>> \in Ahead("oldestFirst")  BY <3>2, <4>1 DEF Chain, N
      <4> QED BY <3>1, <4>2
    <3>6. \A y \in Elements(rest) : y \in Elements(p) /\ i < y
      <4> TAKE y \in Elements(rest)
      <4>1. PICK k \in 1..(N - 1) : y = rest[k]  BY <3>1 DEF Elements
      <4>2. k + 1 \in 1..N /\ y = p[k + 1] /\ 1 < k + 1  BY <3>1, <4>1
      <4>3. <<p[1], p[k + 1]>> \in Ahead("oldestFirst")  BY <3>2, <3>4, <4>2 DEF Chain, N
      <4>4. y \in Nat  BY <3>3, <4>2 DEF N
      <4>5. i < y  BY <3>1, <3>4, <4>2, <4>3, <4>4, AheadIs
      <4> QED BY <4>2, <4>5 DEF Elements, N
    <3>7. ASSUME NEW y \in Elements(p) PROVE y \in {i} \cup Elements(rest)
      <4>1. PICK k \in 1..N : y = p[k]  BY DEF Elements, N
      <4>2. CASE k = 1  BY <3>1, <4>1, <4>2
      <4>3. CASE k # 1  BY <3>1, <4>1, <4>3 DEF Elements
      <4> QED BY <4>2, <4>3
    <3> QED BY <3>1, <3>4, <3>5, <3>6, <3>7 DEF p
  <2>3. now \in Sessions /\ now \in search.seen /\ <<now, i>> \in Sessions \X Nat
    BY <1>1, <1>2, <2>2
  <2>4. \A k \in 1..Len(old) : /\ old[k] \in Sessions \X Nat /\ old[k][2] \in Nat
                               /\ old[k][1] \in search.seen
                               /\ old[k][1] = now => old[k][2] <= search.after /\ old[k][2] < i
    <3> SUFFICES ASSUME NEW k \in 1..Len(old)
                 PROVE  /\ old[k] \in Sessions \X Nat /\ old[k][2] \in Nat
                        /\ old[k][1] \in search.seen
                        /\ old[k][1] = now => old[k][2] <= search.after /\ old[k][2] < i
      OBVIOUS
    <3>1. old[k] \in Sessions \X Nat  BY <1>1
    <3>2. old[k][1] \in search.seen  BY DEF SearchHolds
    <3>3. old[k][1] = now => old[k][2] <= search.after /\ old[k][2] < i
      BY <1>1, <2>2 DEF AtHand
    <3> QED BY <3>1, <3>2, <3>3
  <2>5. \A y \in Elements(search.page) : y <= search.after /\ y \in EntriesOf(log)
    BY <1>1 DEF AtHand
  <2>6. \A y \in EntriesOf(log) : Due(log, search, now, y) =>
          Found(old, now, y) \/ y \in Elements(search.page) \/ (y > search.after /\ search.full)
    BY <1>1 DEF AtHand
  <2>7. Due(log, search, now, i) => hit  BY DEF Due
  <2> HIDE DEF i, rest, now, old, hit
  <2>8. old \in Seq(Sessions \X Nat) /\ InOrder(old)  BY <1>1 DEF SearchHolds, old
  <2>9. /\ hits \in Seq(Sessions \X Nat) /\ InOrder(hits)
        /\ \A k \in 1..Len(hits) : \/ k \in 1..Len(old) /\ hits[k] = old[k]
                                   \/ hits[k] = <<now, i>>
        /\ \A s, y : Found(old, s, y) => Found(hits, s, y)
        /\ hit => Found(hits, now, i)
    <3>1. CASE ~hit  BY <2>8, <3>1
    <3>2. CASE hit
      <4> DEFINE M == Len(old)
                 x == <<now, i>>
      <4>1. /\ hits = Append(old, x) /\ M \in Nat /\ hits \in Seq(Sessions \X Nat)
            /\ Len(hits) = M + 1 /\ hits[M + 1] = x
            /\ \A k \in 1..M : hits[k] = old[k]
        BY <2>3, <2>8, <3>2
      <4>2. x[1] = now /\ x[2] = i  OBVIOUS
      <4> HIDE DEF hits, M, x
      <4>3. InOrder(hits)
        <5> SUFFICES ASSUME NEW j \in 1..(M + 1), NEW k \in 1..(M + 1), j < k,
                            hits[j][1] = hits[k][1]
                     PROVE  hits[j][2] < hits[k][2]
          BY <4>1 DEF InOrder
        <5>1. j \in 1..M  BY <4>1
        <5>2. CASE k \in 1..M  BY <2>8, <4>1, <5>1, <5>2 DEF InOrder, M
        <5>3. CASE k = M + 1  BY <2>4, <4>1, <4>2, <5>1, <5>3 DEF M
        <5> QED BY <4>1, <5>2, <5>3
      <4>4. \A k \in 1..(M + 1) : k \in 1..M \/ k = M + 1  BY <4>1
      <4>5. \A k \in 1..Len(hits) : \/ k \in 1..Len(old) /\ hits[k] = old[k]
                                    \/ hits[k] = x
        BY <4>1, <4>4 DEF M
      <4>6. \A s, y : Found(old, s, y) => Found(hits, s, y)
        <5> SUFFICES ASSUME NEW s, NEW y, NEW k \in 1..M, old[k] = <<s, y>>
                     PROVE  \E j \in 1..(M + 1) : hits[j] = <<s, y>>
          BY <4>1 DEF Found, M
        <5>1. k \in 1..(M + 1)  BY <4>1
        <5> QED BY <4>1, <5>1
      <4>7. Found(hits, now, i)
        <5>1. M + 1 \in 1..Len(hits)  BY <4>1
        <5> QED BY <4>1, <5>1 DEF Found, x
      <4> QED BY <4>1, <4>3, <4>5, <4>6, <4>7 DEF x
    <3> QED BY <3>1, <3>2
  <2> HIDE DEF hits
  <2>10. /\ search' \in SearchRecords /\ search'.pc \in {"yield", "limited"}
         /\ search'.page = rest /\ search'.full = search.full /\ search'.after = search.after
         /\ search'.hits = hits /\ search'.seen = search.seen /\ search'.now = now
         /\ search'.since = search.since /\ search'.types = search.types
    BY <1>1, <2>1, <2>2, <2>9 DEF SearchRecords, now
  <2>11. \A k \in 1..Len(hits) : hits[k][1] \in search.seen
    <3>1. <<now, i>>[1] = now  OBVIOUS
    <3> QED BY <2>3, <2>4, <2>9, <3>1
  <2>12. AtHand(log, search')
    <3>1. Elements(rest) \subseteq EntriesOf(log) /\ \A y \in Elements(rest) : y <= search.after
      BY <2>2, <2>5
    <3>2. \A k \in 1..Len(hits) : hits[k][1] = now =>
            hits[k][2] <= search.after /\ \A y \in Elements(rest) : hits[k][2] < y
      <4> SUFFICES ASSUME NEW k \in 1..Len(hits), hits[k][1] = now
                   PROVE  hits[k][2] <= search.after /\ \A y \in Elements(rest) : hits[k][2] < y
        OBVIOUS
      <4>1. i <= search.after  BY <2>2, <2>5
      <4>2. \A y \in Elements(rest) : y \in Nat /\ i < y
        <5>1. \A y \in Elements(rest) : y \in Nat  BY <2>2 DEF Elements
        <5> QED BY <2>2, <5>1
      <4>3. CASE hits[k] = <<now, i>>  BY <4>1, <4>2, <4>3
      <4>4. CASE k \in 1..Len(old) /\ hits[k] = old[k]
        <5>1. old[k][2] \in Nat /\ old[k][2] <= search.after /\ old[k][2] < i  BY <2>4, <4>4
        <5> QED BY <2>2, <4>2, <4>4, <5>1
      <4> QED BY <2>9, <4>3, <4>4
    <3>3. \A y \in EntriesOf(log) : Due(log, search', now, y) =>
            \/ Found(hits, now, y)
            \/ y \in Elements(rest)
            \/ y > search.after /\ search.full
      <4> SUFFICES ASSUME NEW y \in EntriesOf(log), Due(log, search', now, y)
                   PROVE  \/ Found(hits, now, y)
                          \/ y \in Elements(rest)
                          \/ y > search.after /\ search.full
        OBVIOUS
      <4>1. Due(log, search, now, y)  BY <2>10 DEF Due
      <4>2. CASE y = i  BY <2>7, <2>9, <4>1, <4>2
      <4>3. CASE y # i  BY <2>2, <2>6, <2>9, <4>1, <4>3
      <4> QED BY <4>2, <4>3
    <3> HIDE DEF log
    <3> QED BY <2>2, <2>3, <2>10, <3>1, <3>2, <3>3 DEF AtHand
  <2>13. \A s \in search.seen \ {now} : Behind(logs[s], search', s)
    <3>1. \A s \in search.seen \ {now} : Behind(logs[s], search, s)  BY <1>1 DEF now
    <3> QED BY <2>9, <2>10, <3>1 DEF Behind, Due, old
  <2>14. SearchTypes'  BY <2>10 DEF SearchHolds, SearchTypes
  <2>15. \A s \in search.seen : search.since[s] <= Len(logs[s])  BY DEF SearchHolds
  <2>16. AtHand(logs'[search'.now], search')  BY <1>1, <2>10, <2>12 DEF now
  <2> QED BY <1>1, <2>9, <2>10, <2>11, <2>13, <2>14, <2>15, <2>16 DEF SearchHolds
<1> QED BY <1>3, <1>4

\* A search that is stopped owes nothing any more.
LEMMA SearchAborts ==
  ASSUME LogsHold, SearchHolds, AbortSearch
  PROVE  SearchHolds'
<1>1. search \in SearchRecords /\ logs' = logs /\ search' = [search EXCEPT !.pc = "aborted"]
  BY DEF AbortSearch, SearchHolds, SearchTypes
<1>2. /\ search' \in SearchRecords /\ search'.pc = "aborted"
      /\ search'.hits = search.hits /\ search'.seen = search.seen
      /\ search'.since = search.since /\ search'.types = search.types
  BY <1>1 DEF SearchRecords
<1> QED BY <1>1, <1>2 DEF SearchHolds, SearchTypes

-----------------------------------------------------------------------------
(* The theorems.                                                           *)

\* Every step keeps what holds of logs, search and reader.
LEMMA ReadsStep ==
  ASSUME LogsHold, SearchHolds, PagerHolds, [ReadNext]_readVars
  PROVE  LogsHold' /\ SearchHolds' /\ PagerHolds'
<1>1. ASSUME UNCHANGED <<logs, pager>> PROVE LogsHold' /\ PagerHolds'
  BY <1>1 DEF LogsHold, PagerHolds, PagerTypes
<1>2. CASE UNCHANGED readVars
  BY <1>1, <1>2 DEF readVars, SearchHolds, SearchTypes
<1>3. ASSUME NEW s \in Sessions, NEW item \in Items, Append1(s, item)
      PROVE  LogsHold' /\ SearchHolds' /\ PagerHolds'
  BY <1>3, PagerAppend, SearchAppend
<1>4. CASE NextSession
  BY <1>1, <1>4, SearchNextSession DEF NextSession
<1>5. CASE FetchPage
  BY <1>1, <1>5, SearchFetch DEF FetchPage
<1>6. CASE Yield
  BY <1>1, <1>6, SearchYield DEF Yield
<1>7. CASE AbortSearch
  BY <1>1, <1>7, SearchAborts DEF AbortSearch
<1>8. CASE ReadPage
  <2>1. LogsHold' /\ PagerHolds'  BY <1>8, PagerReads
  <2>2. UNCHANGED <<logs, search>>  BY <1>8 DEF ReadPage
  <2> QED BY <2>1, <2>2 DEF SearchHolds, SearchTypes
<1> QED BY <1>2, <1>3, <1>4, <1>5, <1>6, <1>7, <1>8 DEF ReadNext

\* The inductive invariant of logs, search and reader.
ReadsHold == LogsHold /\ SearchHolds /\ PagerHolds

\* It holds always.
LEMMA ReadsAlways == ReadSpec => []ReadsHold
<1>1. ReadInit => ReadsHold  BY PagerInit, SearchInit DEF ReadsHold
<1>2. ReadsHold /\ [ReadNext]_readVars => ReadsHold'  BY ReadsStep DEF ReadsHold
<1> QED BY <1>1, <1>2, PTL DEF ReadSpec

\* A search hands out no entry twice and none out of order, and one that ran to
\* its end has missed nothing that was there when it came to a session.
THEOREM SearchesAreComplete == ReadSpec => []SearchFindsEachOnce
<1>1. ReadsHold => SearchFindsEachOnce
  <2> SUFFICES ASSUME ReadsHold PROVE SearchFindsEachOnce  OBVIOUS
  <2>1. SearchHolds /\ search.hits \in Seq(Sessions \X Nat)
    BY DEF ReadsHold, SearchHolds, SearchTypes, SearchRecords
  <2>2. DOMAIN search.hits = 1..Len(search.hits)  BY <2>1
  <2>3. InOrder(search.hits)  BY <2>1 DEF SearchHolds
  <2>4. search.pc = "done" => \A s \in search.seen : Behind(logs[s], search, s)
    BY <2>1 DEF SearchHolds
  <2> QED BY <2>2, <2>3, <2>4 DEF SearchFindsEachOnce, InOrder, Behind, Due, Found
<1> QED BY <1>1, ReadsAlways, PTL

\* A reader that pages, whatever is appended between its pages, sees what one
\* query would have shown when it began.
THEOREM PagesAreComplete == ReadSpec => []PagesCoverOnce
<1>1. ReadsHold => PagesCoverOnce  BY PagerCovers DEF ReadsHold
<1> QED BY <1>1, ReadsAlways, PTL
=============================================================================
