------------------------------ MODULE EventBus ------------------------------
(***************************************************************************)
(* HarnessEventBus: direct listeners of one type of events, and watchers   *)
(* that buffer events until they are started. Delivery is synchronous: a   *)
(* listener may emit, subscribe or raise while it handles an event, so     *)
(* what is being delivered is a stack of frames. The events are numbered   *)
(* in the order they are emitted.                                          *)
(***************************************************************************)
EXTENDS Naturals, Sequences, FiniteSets, SequencesExt

CONSTANTS
  Listeners,   \* direct listeners, each of which subscribes once
  Watchers,    \* watch handles
  MaxEvents    \* bound on the events emitted

ASSUME BusAssumption == Listeners \cap Watchers = {}

VARIABLES
  direct,   \* the sets of listeners made so far, and which one is registered
  watch,    \* per watcher: whether it is subscribed and started, its buffer
  stack,    \* the deliveries under way, the innermost last
  outer,    \* per event: the events being delivered when it was emitted
  heard,    \* what each listener and watcher was called with
  joined,   \* history: the events emitted when each of them subscribed
  missed,   \* history: what exceptions, or a set taken down, cost each of them
  overtaken \* history: what a flush still held when its watcher was started again

busVars == <<direct, watch, stack, outer, heard, joined, missed, overtaken>>

Everybody == Listeners \cup Watchers
Emitted == Len(outer)
Top == stack[Len(stack)]
Retop(frame) == stack' = [stack EXCEPT ![Len(stack)] = frame]

\* The program runs, or a listener does.
Running == stack # <<>> => Top.called

BusInit ==
  /\ direct = [sets |-> <<>>, now |-> 0, of |-> [l \in Listeners |-> 0], offs |-> [l \in Listeners |-> 0]]
  /\ watch = [w \in Watchers |-> [made |-> FALSE, on |-> FALSE, started |-> FALSE, buffer |-> <<>>]]
  /\ stack = <<>> /\ outer = <<>>
  /\ heard = [x \in Everybody |-> <<>>]
  /\ joined = [x \in Everybody |-> 0]
  /\ missed = [x \in Everybody |-> {}]
  /\ overtaken = [x \in Everybody |-> {}]

Registered == IF direct.now = 0 THEN {} ELSE direct.sets[direct.now]

On(l) ==
  /\ Running /\ direct.of[l] = 0
  /\ LET new == direct.now = 0
         set == IF new THEN Len(direct.sets) + 1 ELSE direct.now
     IN direct' = [direct EXCEPT !.now = set, !.of[l] = set,
                     !.sets = IF new THEN Append(@, {l}) ELSE [direct.sets EXCEPT ![set] = @ \cup {l}]]
  /\ joined' = [joined EXCEPT ![l] = Emitted]
  /\ UNCHANGED <<watch, stack, outer, heard, missed, overtaken>>

\* The set that has become empty is taken down, or the one that has taken its
\* place: by a function that is called twice.
Off(l) ==
  LET set == direct.of[l]
      left == direct.sets[set] \ {l}
  IN /\ Running /\ set # 0 /\ direct.offs[l] < 2
     /\ direct' = [direct EXCEPT !.sets[set] = left, !.now = IF left = {} THEN 0 ELSE @,
                                 !.offs[l] = @ + 1]
     /\ UNCHANGED <<watch, stack, outer, heard, joined, missed, overtaken>>

Watch(w) ==
  /\ Running /\ ~watch[w].made
  /\ watch' = [watch EXCEPT ![w].made = TRUE, ![w].on = TRUE]
  /\ joined' = [joined EXCEPT ![w] = Emitted]
  /\ UNCHANGED <<direct, stack, outer, heard, missed, overtaken>>

Unwatch(w) ==
  /\ Running /\ watch[w].made
  /\ watch' = [watch EXCEPT ![w].on = FALSE, ![w].buffer = <<>>]
  /\ UNCHANGED <<direct, stack, outer, heard, joined, missed, overtaken>>

Emit ==
  /\ Running /\ Emitted < MaxEvents
  /\ outer' = Append(outer, {stack[i].event : i \in DOMAIN stack})
  /\ stack' = Append(stack, [kind |-> "direct", event |-> Emitted + 1,
                             left |-> Registered, pending |-> <<>>, called |-> FALSE])
  /\ UNCHANGED <<direct, watch, heard, joined, missed, overtaken>>

Call(x, event) == heard' = [heard EXCEPT ![x] = Append(@, event)]

\* Direct listeners first, in any order; then those who watch by then.
Deliver ==
  /\ stack # <<>> /\ Top.kind \in {"direct", "watchers"}
  /\ \/ /\ Top.kind = "direct"
        /\ \E l \in Top.left :
             /\ Call(l, Top.event)
             /\ Retop([Top EXCEPT !.left = @ \ {l}, !.called = TRUE])
        /\ UNCHANGED watch
     \/ /\ Top.kind = "direct" /\ Top.left = {}
        /\ Retop([Top EXCEPT !.kind = "watchers", !.left = {w \in Watchers : watch[w].on},
                             !.called = FALSE])
        /\ UNCHANGED <<heard, watch>>
     \/ /\ Top.kind = "watchers"
        /\ \E w \in Top.left :
             /\ Retop([Top EXCEPT !.left = @ \ {w}, !.called = watch[w].started])
             /\ IF watch[w].started
                THEN Call(w, Top.event) /\ UNCHANGED watch
                ELSE /\ watch' = [watch EXCEPT ![w].buffer = Append(@, Top.event)]
                     /\ UNCHANGED heard
     \/ /\ Top.kind = "watchers" /\ Top.left = {}
        /\ stack' = Front(stack)
        /\ UNCHANGED <<heard, watch>>
  /\ UNCHANGED <<direct, outer, joined, missed, overtaken>>

\* What the flushes of w under way have taken from its buffer and not delivered.
Undelivered(w) ==
  UNION {ToSet(stack[i].pending) :
           i \in {i \in DOMAIN stack : stack[i].kind = "flush" /\ w \in stack[i].left}}

\* Mistake: the listener is in place before the buffer is empty.
StartEarly(w) ==
  /\ Running /\ watch[w].made
  /\ stack' = Append(stack, [kind |-> "flush", event |-> 0, left |-> {w},
                             pending |-> <<>>, called |-> FALSE])
  /\ watch' = [watch EXCEPT ![w].started = TRUE]
  /\ overtaken' = [overtaken EXCEPT ![w] = @ \cup Undelivered(w)]
  /\ UNCHANGED <<direct, outer, heard, joined, missed>>

\* A handle may be started at any time and again: also by the listener that a
\* start under way has called, which then goes on after this one.
Start(w) ==
  /\ Running /\ watch[w].made
  /\ stack' = Append(stack, [kind |-> "flush", event |-> 0, left |-> {w},
                             pending |-> <<>>, called |-> FALSE])
  /\ overtaken' = [overtaken EXCEPT ![w] = @ \cup Undelivered(w)]
  /\ UNCHANGED <<direct, watch, outer, heard, joined, missed>>

\* The buffer is taken and delivered until no more has come meanwhile.
Flush ==
  /\ stack # <<>> /\ Top.kind = "flush"
  /\ \E w \in Top.left :
       CASE Top.pending # <<>> ->
              /\ Call(w, Head(Top.pending))
              /\ Retop([Top EXCEPT !.event = Head(Top.pending), !.pending = Tail(@), !.called = TRUE])
              /\ UNCHANGED watch
         [] Top.pending = <<>> /\ watch[w].buffer # <<>> ->
              /\ Retop([Top EXCEPT !.pending = watch[w].buffer, !.called = FALSE])
              /\ watch' = [watch EXCEPT ![w].buffer = <<>>]
              /\ UNCHANGED heard
         [] OTHER ->
              /\ stack' = Front(stack)
              /\ watch' = [watch EXCEPT ![w].started = TRUE]
              /\ UNCHANGED heard
  /\ UNCHANGED <<direct, outer, joined, missed, overtaken>>

\* A listener raises, and the emit or start that called it with it. Who has not
\* been called with the event, or the events of the buffer, will not be.
Raise ==
  LET lost(x) == CASE Top.kind = "flush" -> IF x \in Top.left THEN ToSet(Top.pending) ELSE {}
                   [] Top.kind = "direct" -> IF x \in Top.left \cup Watchers THEN {Top.event} ELSE {}
                   [] OTHER -> IF x \in Top.left THEN {Top.event} ELSE {}
  IN /\ stack # <<>>
     /\ Top.called
     /\ stack' = Front(stack)
     /\ missed' = [x \in Everybody |-> missed[x] \cup lost(x)]
     /\ UNCHANGED <<direct, watch, outer, heard, joined, overtaken>>

BusNext ==
  \/ \E l \in Listeners : On(l) \/ Off(l)
  \/ \E w \in Watchers : Watch(w) \/ Unwatch(w) \/ Start(w)
  \/ Emit \/ Deliver \/ Flush \/ Raise

BusSpec == BusInit /\ [][BusNext]_busVars

-----------------------------------------------------------------------------
(* Everybody who is subscribed hears of every event since it subscribed,   *)
(* before it was started or after, once each, whatever listeners do        *)
(* meanwhile: except what is lost to an exception or to an unsubscribe     *)
(* called twice. And in the order of the emissions, except that an event   *)
(* emitted by a listener may come before the one the listener was called   *)
(* with, and that a watcher which is started again while it is flushed     *)
(* hears of what the first start still held after what came later.         *)
SubscribersHearAll ==
  \A x \in Everybody :
    LET known == heard[x] \o (IF x \in Watchers THEN watch[x].buffer ELSE <<>>)
        subscribed == IF x \in Watchers THEN watch[x].on
                      ELSE direct.of[x] # 0 /\ \A l \in Listeners : direct.offs[l] < (IF l = x THEN 1 ELSE 2)
    IN /\ \A i, j \in DOMAIN known : i < j =>
            /\ known[i] # known[j]
            /\ known[i] < known[j] \/ known[j] \in outer[known[i]] \cup overtaken[x]
       /\ stack = <<>> /\ subscribed =>
            \A e \in joined[x] + 1..Emitted : e \in missed[x] \/ Contains(known, e)
=============================================================================
