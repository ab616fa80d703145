---------------------------- MODULE SessionReads ----------------------------
(***************************************************************************)
(* Reading a session while it grows: the queries of SessionState, a reader *)
(* that pages through them with the cursor of the last entry it saw, and   *)
(* the scanning search, which pages through one session after the other    *)
(* and hands out its hits one at a time. A session is the sequence of its  *)
(* log items; the position of an item is its seq, and an entry's id.       *)
(***************************************************************************)
EXTENDS Naturals, Sequences, FiniteSets, SequencesExt, Filters

CONSTANTS
  ItemTypes,  \* the types of entries and records
  Items,      \* what may be appended: entries, records and other facts
  Searches,   \* the options of a search: its sessions, types and limit
  Pagers,     \* the queries a reader may page through
  PageSize,   \* entries on one page
  MaxLog,     \* bound on the items of all sessions
  None        \* an option that is not given

Orders == {"oldestFirst", "newestFirst"}
Sessions == {"one", "two"}

\* The cursor of records and of the log points forward only, so that they are
\* paged through from the oldest on.
ASSUME ReadsAssumption ==
  /\ None \notin Nat \cup ItemTypes
  /\ PageSize \in Nat \ {0}
  /\ Searches \subseteq [sessions : Seq(Sessions), types : {None} \cup SUBSET ItemTypes,
                        limit : Nat \cup {None}]
  /\ \A o \in Searches : o.types # None => IsFiniteSet(o.types)
  /\ Pagers \subseteq [what : {"entries", "branch", "records", "log"}, type : ItemTypes \cup {None},
                      order : Orders, limit : Nat, cursor : {None}, start : {None},
                      stop : ItemTypes \cup {None}]
  /\ \A q \in Pagers : q.what \in {"records", "log"} => q.order = "oldestFirst"

VARIABLES
  logs,       \* the items of each session
  search,     \* the search: its options, where it is, what it has found
  pager       \* the reader: its query, its cursor, what it has seen

readVars == <<logs, search, pager>>

-----------------------------------------------------------------------------
(* The queries (SessionState), on the log of one session.                  *)

EntriesOf(log) == {i \in DOMAIN log : log[i].kind = "entry"}
RecordsOf(log) == {i \in DOMAIN log : log[i].kind = "record"}

\* The items of a log, by their places, from either end.
Ordered(log, order) ==
  [n \in 1..Len(log) |-> IF order = "oldestFirst" THEN n ELSE Len(log) + 1 - n]

Take(found, limit) == IF limit = None \/ limit > Len(found) THEN found ELSE SubSeq(found, 1, limit)

\* Mistake: the entry of the cursor comes again.
BeyondInclusive(seq, cursor, order) ==
  cursor # None => IF order = "oldestFirst" THEN seq >= cursor ELSE seq <= cursor

\* A cursor is exclusive, and points the way the query goes.
Beyond(seq, cursor, order) ==
  cursor # None => IF order = "oldestFirst" THEN seq > cursor ELSE seq < cursor

MatchingEntries(log, q) ==
  {i \in EntriesOf(log) : (q.type # None => log[i].type = q.type) /\ Beyond(i, q.cursor, q.order)}

FindEntries(log, q) ==
  Take(Within(Ordered(log, q.order), MatchingEntries(log, q)), q.limit)

WalkToRoot(log, start) ==
  LET walk[i \in EntriesOf(log)] ==
        IF log[i].parent = None THEN <<i>> ELSE <<i>> \o walk[log[i].parent]
  IN walk[start]

\* The walk up to and with its first entry of the type that bounds it.
UpTo(log, walk, type) ==
  LET stops == {k \in DOMAIN walk : log[walk[k]].type = type}
  IN IF stops = {} THEN walk ELSE SubSeq(walk, 1, CHOOSE k \in stops : \A j \in stops : k <= j)

\* The bound is met from the end the query starts at.
FindEntriesOnBranch(log, start, q, stopAtType) ==
  LET walk == WalkToRoot(log, start)
      path == IF q.order = "oldestFirst" THEN Reverse(walk) ELSE walk
  IN Take(Within(UpTo(log, path, stopAtType), MatchingEntries(log, q)), q.limit)

\* The cursor of records is a lower bound, whatever the order.
MatchingRecords(log, q) ==
  {i \in RecordsOf(log) :
     (q.type # None => log[i].type = q.type) /\ (q.cursor # None => i > q.cursor)}

FindRecords(log, q) ==
  Take(Within(Ordered(log, q.order), MatchingRecords(log, q)), q.limit)

GetLog(log, afterSeq, limit) ==
  Take(Within(Ordered(log, "oldestFirst"), {i \in DOMAIN log : afterSeq # None => i > afterSeq}),
       limit)

\* The last label fact about an entry, if it set one.
Labelled(log, i) ==
  LET facts == {j \in DOMAIN log : log[j].kind = "label" /\ log[j].target = i}
  IN facts # {} /\ log[CHOOSE j \in facts : \A k \in facts : k <= j].set

-----------------------------------------------------------------------------
(* Appends, by anybody, between any two reads.                             *)

Fits(log, item) ==
  CASE item.kind = "entry"  -> item.parent # None => item.parent \in EntriesOf(log)
    [] item.kind = "label"  -> item.target \in EntriesOf(log)
    [] item.kind = "record" -> TRUE

Append1(s, item) ==
  /\ Len(logs["one"]) + Len(logs["two"]) < MaxLog
  /\ Fits(logs[s], item)
  /\ logs' = [logs EXCEPT ![s] = Append(@, item)]
  /\ UNCHANGED <<search, pager>>

(* The search. *)

Wanted(types, type) == types = None \/ type \in types

\* An empty text, a limit of zero or an empty list of types finds nothing.
ReadInit ==
  /\ logs = [s \in Sessions |-> <<>>]
  /\ search \in {[sessions |-> o.sessions, types |-> o.types, limit |-> o.limit,
                  pc |-> IF o.limit = 0 \/ o.types = {} THEN "done" ELSE "source",
                  seen |-> {}, now |-> None, after |-> 0, page |-> <<>>,
                  full |-> FALSE, hits |-> <<>>, since |-> [s \in Sessions |-> 0]]
                 : o \in Searches}
  /\ pager \in {[query |-> q, pc |-> "reading", seen |-> <<>>, since |-> None] : q \in Pagers}
  /\ search.sessions = <<>> \/ pager.query.limit = 0

\* The next session of the source; one that comes twice is an error.
NextSession ==
  /\ search.pc = "source"
  /\ IF search.sessions = <<>> THEN search' = [search EXCEPT !.pc = "done"]
     ELSE LET s == Head(search.sessions)
          IN search' = IF s \in search.seen THEN [search EXCEPT !.pc = "duplicate"]
                       ELSE [search EXCEPT !.sessions = Tail(@), !.seen = @ \cup {s},
                               !.now = s, !.after = 0, !.pc = "page",
                               !.since[s] = Len(logs[s])]
  /\ UNCHANGED <<logs, pager>>

\* Only a single type is part of the query; more are filtered afterwards.
PageQuery ==
  [order |-> "oldestFirst", limit |-> PageSize, cursor |-> search.after,
   type |-> IF search.types # None /\ Cardinality(search.types) = 1
            THEN CHOOSE t \in search.types : TRUE ELSE None]

\* Mistake: the page is judged by what is left of it after the types.
FetchPageFiltered ==
  LET log == logs[search.now]
      page == FindEntries(log, PageQuery)
      kept == Within(page, {i \in EntriesOf(log) : Wanted(search.types, log[i].type)})
  IN /\ search.pc = "page"
     /\ search' = [search EXCEPT !.page = page, !.full = Len(kept) = PageSize,
                     !.after = IF page = <<>> THEN @ ELSE Last(page),
                     !.pc = IF page = <<>> THEN "source" ELSE "yield"]
     /\ UNCHANGED <<logs, pager>>

\* A page that is not full is the last one.
FetchPage ==
  LET page == FindEntries(logs[search.now], PageQuery)
  IN /\ search.pc = "page"
     /\ search' = [search EXCEPT !.page = page, !.full = Len(page) = PageSize,
                     !.after = IF page = <<>> THEN @ ELSE Last(page),
                     !.pc = IF page = <<>> THEN "source" ELSE "yield"]
     /\ UNCHANGED <<logs, pager>>

\* The next entry of the page: its label is read now, and a hit is handed out.
Yield ==
  LET log == logs[search.now]
      i == Head(search.page)
      hit == Wanted(search.types, log[i].type) /\ (log[i].hit \/ Labelled(log, i))
      hits == IF hit THEN Append(search.hits, <<search.now, i>>) ELSE search.hits
  IN /\ search.pc = "yield"
     /\ IF search.page = <<>>
        THEN search' = [search EXCEPT !.pc = IF search.full THEN "page" ELSE "source"]
        ELSE search' = [search EXCEPT !.page = Tail(@), !.hits = hits,
                          !.pc = IF search.limit # None /\ Len(hits) >= search.limit
                                 THEN "limited" ELSE @]
     /\ UNCHANGED <<logs, pager>>

\* throw_if_aborted, before a session and before a hit.
AbortSearch ==
  /\ search.pc \in {"source", "yield"}
  /\ search' = [search EXCEPT !.pc = "aborted"]
  /\ UNCHANGED <<logs, pager>>

Query(log, q) ==
  CASE q.what = "entries" -> FindEntries(log, q)
    [] q.what = "branch"  -> IF q.start = None THEN <<>>
                             ELSE FindEntriesOnBranch(log, q.start, q, q.stop)
    [] q.what = "records" -> FindRecords(log, q)
    [] q.what = "log"     -> GetLog(log, q.cursor, q.limit)

\* The newest entry stands for the leaf of the lane.
LeafOf(log) == LET newest == Within(Ordered(log, "newestFirst"), EntriesOf(log))
               IN IF newest = <<>> THEN None ELSE Head(newest)

\* One page of a query, the cursor set to the last item of the one before.
ReadPage ==
  LET log == logs["one"]
      q == [pager.query EXCEPT
              !.cursor = IF pager.seen = <<>> THEN None ELSE Last(pager.seen),
              !.start = IF pager.since = None THEN LeafOf(log) ELSE @]
      page == Query(log, q)
  IN /\ pager.pc = "reading" /\ pager.query.limit > 0
     /\ pager' = [pager EXCEPT !.query = q, !.seen = @ \o page,
                    !.since = IF @ = None THEN Len(log) ELSE @,
                    !.pc = IF Len(page) < pager.query.limit THEN "done" ELSE @]
     /\ UNCHANGED <<logs, search>>

ReadNext ==
  \/ \E s \in Sessions, item \in Items : Append1(s, item)
  \/ NextSession \/ FetchPage \/ Yield \/ AbortSearch \/ ReadPage

ReadSpec == ReadInit /\ [][ReadNext]_readVars

-----------------------------------------------------------------------------
(* A search hands out no entry twice and none out of order, and one that   *)
(* ran to its end has missed none that was there when it came to the       *)
(* session, whatever was appended between its pages.                       *)
SearchFindsEachOnce ==
  /\ \A j, k \in DOMAIN search.hits :
       j < k /\ search.hits[j][1] = search.hits[k][1] => search.hits[j][2] < search.hits[k][2]
  /\ search.pc = "done" =>
       \A s \in search.seen : \A i \in EntriesOf(logs[s]) :
         i <= search.since[s] /\ Wanted(search.types, logs[s][i].type) /\ logs[s][i].hit =>
           \E k \in DOMAIN search.hits : search.hits[k] = <<s, i>>

(* A reader that pages with the cursor of the last item it saw, in either  *)
(* direction, through entries, a branch, records or the log, sees what one *)
(* query without a limit would have shown when it began, once each and in  *)
(* order; beside that, only what has been appended since.                  *)
PagesCoverOnce ==
  /\ IsInjective(pager.seen)
  /\ pager.pc = "done" =>
       Within(pager.seen, 1..pager.since)
         = Query(SubSeq(logs["one"], 1, pager.since),
                 [pager.query EXCEPT !.cursor = None, !.limit = None])
=============================================================================
