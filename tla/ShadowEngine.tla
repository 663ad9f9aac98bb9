---------------------------- MODULE ShadowEngine ----------------------------
(***************************************************************************)
(* The shadow engine: every live turn is also answered by the new engine,  *)
(* off the request path, and the answers are only compared.                *)
(*                                                                         *)
(* A request takes two steps under the controller's lock: begin registers  *)
(* its turn, finish resolves it or queues it. One worker compares queued   *)
(* turns, in turn order within a session and round robin across sessions;  *)
(* a session whose lower turn is in flight is parked until a deadline. A   *)
(* watchdog gives up on a worker that hangs, a breaker on one that is slow *)
(* or fails. ShadowMemoryStore keeps what the new engine remembers of each *)
(* conversation, or that a part of it was lost.                            *)
(*                                                                         *)
(* Time is what is left of each wait. A comparison is three steps (the     *)
(* entry is read, written back, and the turn resolved), because the store  *)
(* and the controller have locks of their own and no lock spans them.      *)
(***************************************************************************)
EXTENDS Integers, Sequences, FiniteSets, Functions, SequencesExt

CONSTANTS
    Sessions,
    MaxTurn,       \* the highest turn ID, a bound of the model
    Requests,      \* turn requests 1 .. n, in the order they arrive, a bound of the model
    Sizes,         \* the sizes of a payload, those above MaxItemBytes are refused
    MaxItemBytes,  \* MAX_ITEM_BYTES
    MaxItems,      \* MAX_ITEMS
    MaxBytes,      \* MAX_BYTES
    MaxInFlight,   \* MAX_IN_FLIGHT_PER_SESSION
    StoreLimit,    \* STORE_LIMIT
    Gap,           \* GAP_SECONDS, in clock ticks
    Hang,          \* HANG_SECONDS, in clock ticks
    Cooling,       \* OPEN_SECONDS, in clock ticks
    SlowLimit,     \* SLOW_LIMIT
    ErrorLimit,    \* ERROR_LIMIT
    Sent,          \* the session and turn each request may have, a bound of the model
    Older          \* the sessions that may have started before the process, a bound of the model

ASSUME ShadowAssumption ==
    /\ IsFiniteSet(Sessions)
    /\ MaxTurn \in Nat /\ Requests \in Nat
    /\ Sizes \subseteq Nat
    /\ {MaxItemBytes, MaxItems, MaxBytes, MaxInFlight, StoreLimit} \subseteq Nat \ {0}
    /\ {Gap, Cooling, SlowLimit, ErrorLimit} \subseteq Nat \ {0}
    /\ Sent \in [1 .. Requests -> SUBSET (Sessions \X (1 .. MaxTurn))]
    /\ Hang \in Nat /\ Older \subseteq Sessions

Turns == 1 .. MaxTurn
Ids == 1 .. Requests
Off == -1             \* no wait: Python's None for a deadline or open_until

VARIABLES
    pc,        \* where a request is
    turnOf,    \* the session and the turn a request answers, and whether it is the trial
    sizeOf,    \* the size of its payload
    regs,      \* _registrations
    heaps,     \* _heaps: the queued requests of a session
    ready,     \* _ready
    parked,    \* _parked
    waits,     \* _deadlines, as what is left of each
    items,     \* _items
    bytes,     \* _bytes
    breaker,   \* _breaker
    mode,      \* "up", "unhealthy" (_unhealthy) or "closed" (_closed)
    worker,    \* the request being compared (_current), its phase and its age
    store,     \* ShadowMemoryStore
    started,   \* whether a session's started_at is before epoch_started
    created,   \* whether there is a controller (_shadow)
    seenOn,    \* _shadow_seen_on is not False
    counted,   \* history: how often a request's turn was counted
    broken,    \* history: sessions with a turn of which the store's memory misses the effect
    leaked     \* history: sessions whose loss was left unmarked or overwritten

control == <<regs, heaps, ready, parked, waits, items, bytes>>
history == <<counted, broken, leaked>>
switch == <<created, seenOn>>
vars == <<pc, turnOf, sizeOf, control, breaker, mode, worker, store, started, switch, history>>

\* A request is gone when nothing counts it: the controller is closed, or it has no shadow. One
\* that finds the switch off is unseen, and missed if it is answered before the switch is on.
Where == {"new", "live", "queued", "comparing", "done", "gone", "unseen", "missed"}
NoTurn == [session |-> "-", turn |-> 0, trial |-> FALSE]
Idle == [at |-> "idle", req |-> 0, age |-> 0]

-----------------------------------------------------------------------------
(* ShadowMemoryStore.                                                      *)

EmptyStore == [order |-> <<>>, last |-> [s \in Sessions |-> 0], reset |-> {}, buried |-> {}]

Entries(st) == Range(st.order)
Without(order, s) ==
    IF s \in Range(order) THEN RemoveAt(order, CHOOSE i \in DOMAIN order : order[i] = s) ELSE order
Moved(order, s) == Append(Without(order, s), s)

(* Mutant: a store drops an entry only when it holds two too many. *)
EvictedLate(st) ==
    LET over == IF Len(st.order) > StoreLimit + 1 THEN 1 ELSE 0
        gone == Range(SubSeq(st.order, 1, over))
    IN [order |-> SubSeq(st.order, over + 1, Len(st.order)),
        last |-> [s \in Sessions |-> IF s \in gone THEN 0 ELSE st.last[s]],
        reset |-> st.reset \ gone, buried |-> st.buried \cup gone]

\* The entries a full store drops, oldest first, each leaving a tombstone.
Evicted(st) ==
    LET over == IF Len(st.order) > StoreLimit THEN Len(st.order) - StoreLimit ELSE 0
        gone == Range(SubSeq(st.order, 1, over))
    IN [order |-> SubSeq(st.order, over + 1, Len(st.order)),
        last |-> [s \in Sessions |-> IF s \in gone THEN 0 ELSE st.last[s]],
        reset |-> st.reset \ gone, buried |-> st.buried \cup gone]

Put(st, s, turn) ==
    Evicted([st EXCEPT !.order = Moved(@, s), !.last[s] = turn, !.reset = @ \ {s}])

MarkReset(st, s) == Evicted([st EXCEPT !.order = Moved(@, s), !.reset = @ \cup {s}])

\* An entry that was idle for too long is buried when it is next read.
Expired(st, s) ==
    [order |-> Without(st.order, s), last |-> [st.last EXCEPT ![s] = 0],
     reset |-> st.reset \ {s}, buried |-> st.buried \cup {s}]

ResetAll(st) == [st EXCEPT !.reset = Entries(st)]

\* The sessions whose memory a change of the store drops.
Dropped(old, new) == Entries(old) \ Entries(new)

-----------------------------------------------------------------------------
(* The breaker.                                                            *)

Closed == [forced |-> FALSE, wait |-> Off, trial |-> FALSE, slow |-> 0, errors |-> 0]

Open(b) == b.forced \/ b.wait > 0 \/ (b.wait = 0 /\ b.trial)
Trial(b) == ~b.forced /\ b.wait = 0 /\ ~b.trial
(* Mutants: any turn resolved gives the trial back; none does. *)
ReleasedByAny(b, trial) == [b EXCEPT !.trial = FALSE]
NotReleased(b, trial) == b

Released(b, trial) == [b EXCEPT !.trial = @ /\ ~trial]

\* The breaker after a comparison; kept is how many earlier errors are still in the window.
Recorded(b, trial, outcome, kept) ==
    LET errs == IF outcome = "error" THEN kept + 1 ELSE b.errors
        slow == IF outcome = "slow" THEN b.slow + 1 ELSE IF outcome = "fast" THEN 0 ELSE b.slow
        opens == /\ b.wait = Off
                 /\ \/ outcome = "error" /\ errs >= ErrorLimit
                    \/ outcome = "slow" /\ slow >= SlowLimit
    IN IF trial
       THEN IF outcome = "fast" THEN [Closed EXCEPT !.forced = b.forced]
            ELSE [forced |-> b.forced, wait |-> Cooling, trial |-> FALSE,
                  slow |-> b.slow, errors |-> b.errors]
       ELSE [forced |-> b.forced, wait |-> IF opens THEN Cooling ELSE b.wait, trial |-> b.trial,
             slow |-> slow, errors |-> errs]

Opened(b, trial, new) == new.wait = Cooling /\ (trial \/ b.wait = Off)

-----------------------------------------------------------------------------
(* The controller's state transitions, with its lock held.                 *)

\* _make_ready_locked, for a session that is not parked.
Woken(rd, s, hp) == IF s \notin Range(rd) /\ hp[s] # {} THEN Append(rd, s) ELSE rd

(* Mutant: a parked session is woken by nothing but its deadline. *)
ResolveUnwoken(s, turn) ==
    /\ regs' = [regs EXCEPT ![s][turn] = "none"]
    /\ parked' = parked \ {s} /\ UNCHANGED ready

\* _resolve_locked: the turn is no longer registered, and a session parked on it looks again.
Resolve(s, turn) ==
    /\ regs' = [regs EXCEPT ![s][turn] = "none"]
    /\ parked' = parked \ {s}
    /\ ready' = IF s \in parked THEN Woken(ready, s, heaps) ELSE ready

(* Mutant: a lost turn leaves no mark. *)
LoseUnmarked(s) == broken' = broken \cup {s} /\ UNCHANGED store

\* A lost turn: its session is marked, and what the store held of it or dropped for it is broken.
Lose(s) ==
    /\ store' = MarkReset(store, s)
    /\ broken' = broken \cup {s} \cup Dropped(store, store')

Count(r) == counted' = [counted EXCEPT ![r] = @ + 1]
Goes(r, to) == pc' = [pc EXCEPT ![r] = to] /\ UNCHANGED turnOf

\* Requests that are over; what they asked is forgotten with them.
End(over, to) ==
    /\ pc' = [r \in Ids |-> IF r \in over THEN to ELSE pc[r]]
    /\ turnOf' = [r \in Ids |-> IF r \in over THEN NoTurn ELSE turnOf[r]]

Queued == {r \in Ids : pc[r] = "queued"}

(* Mutant: a drain starts the accounts again, while the worker holds a charge. *)
DrainToZero ==
    /\ items' = 0 /\ bytes' = 0
    /\ heaps' = [s \in Sessions |-> {}]
    /\ sizeOf' = [r \in Ids |-> IF r \in Queued THEN 0 ELSE sizeOf[r]]
    /\ regs' = [s \in Sessions |-> [t \in Turns |->
                  IF \E r \in Queued : turnOf[r].session = s /\ turnOf[r].turn = t
                  THEN "none" ELSE regs[s][t]]]
    /\ ready' = <<>> /\ parked' = {}
    /\ waits' = [s \in Sessions |-> Off]
    /\ End(Queued, "done")
    /\ counted' = [r \in Ids |-> IF r \in Queued THEN counted[r] + 1 ELSE counted[r]]

\* _drain_locked: everything queued is shed.
Drain ==
    /\ heaps' = [s \in Sessions |-> {}]
    /\ items' = items - Cardinality(Queued)
    /\ bytes' = bytes - FoldFunctionOnSet(+, 0, sizeOf, Queued)
    /\ sizeOf' = [r \in Ids |-> IF r \in Queued THEN 0 ELSE sizeOf[r]]
    /\ regs' = [s \in Sessions |-> [t \in Turns |->
                  IF \E r \in Queued : turnOf[r].session = s /\ turnOf[r].turn = t
                  THEN "none" ELSE regs[s][t]]]
    /\ ready' = <<>> /\ parked' = {}
    /\ waits' = [s \in Sessions |-> Off]
    /\ End(Queued, "done")
    /\ counted' = [r \in Ids |-> IF r \in Queued THEN counted[r] + 1 ELSE counted[r]]

\* The store after a drain marks each session that had something queued.
DrainedStore(st) == FoldSet(LAMBDA r, acc : MarkReset(acc, turnOf[r].session), st, Queued)

-----------------------------------------------------------------------------
(* The request path.                                                       *)

(* A process starts with nothing in memory. A restart leaves nothing of the state but sessions that
   started before, of which the next process remembers nothing. *)
Init ==
    /\ pc = [r \in Ids |-> "new"]
    /\ turnOf = [r \in Ids |-> NoTurn]
    /\ sizeOf = [r \in Ids |-> 0]
    /\ regs = [s \in Sessions |-> [t \in Turns |-> "none"]]
    /\ heaps = [s \in Sessions |-> {}]
    /\ ready = <<>> /\ parked = {}
    /\ waits = [s \in Sessions |-> Off]
    /\ items = 0 /\ bytes = 0
    /\ breaker = Closed /\ mode = "up" /\ worker = Idle
    /\ store = EmptyStore
    /\ \E before \in SUBSET Older :
         started = [s \in Sessions |-> IF s \in before THEN "earlier" ELSE "no"]
    /\ created = FALSE /\ seenOn = TRUE
    /\ counted = [r \in Ids |-> 0]
    /\ broken = {s \in Sessions : started[s] = "earlier"} /\ leaked = {}

Arrives(r) == pc[r] = "new" /\ \A q \in 1 .. r - 1 : pc[q] # "new"
Starts(s) == started' = [started EXCEPT ![s] = IF @ = "no" THEN "epoch" ELSE @]
InFlight(s) == Cardinality({t \in Turns : regs[s][t] # "none"})

\* A turn begins under a closed controller: nothing is registered or counted.
BeginClosed(r) ==
    /\ Arrives(r) /\ mode = "closed"
    /\ End({r}, "gone")
    /\ UNCHANGED <<sizeOf, control, breaker, mode, worker, store, started, switch, history>>

\* A turn is refused admission: the worker hangs, the breaker is open, or its session has too
\* many turns in flight. The live engine answers it all the same.
BeginRefused(r, s, t) ==
    /\ Arrives(r) /\ created /\ seenOn /\ mode # "closed"
    /\ mode = "unhealthy" \/ Open(breaker) \/ InFlight(s) >= MaxInFlight
    /\ End({r}, "done") /\ Count(r) /\ Lose(s) /\ Starts(s)
    /\ UNCHANGED <<sizeOf, control, breaker, mode, worker, switch, leaked>>

BeginAdmitted(r, s, t) ==
    /\ Arrives(r) /\ created /\ seenOn /\ mode = "up"
    /\ ~Open(breaker) /\ InFlight(s) < MaxInFlight
    /\ turnOf' = [turnOf EXCEPT ![r] = [session |-> s, turn |-> t, trial |-> Trial(breaker)]]
    /\ breaker' = [breaker EXCEPT !.trial = @ \/ Trial(breaker)]
    /\ regs' = [regs EXCEPT ![s][t] = "in_flight"]
    /\ pc' = [pc EXCEPT ![r] = "live"]
    /\ UNCHANGED <<sizeOf, heaps, ready, parked, waits, items, bytes, mode, worker, store,
                   started, switch, history>>

\* What resolving a turn outside the queue does: to its registration and to the trial.
Resolved(r) ==
    /\ Resolve(turnOf[r].session, turnOf[r].turn)
    /\ breaker' = Released(breaker, turnOf[r].trial)
    /\ UNCHANGED <<sizeOf, heaps, waits, items, bytes, mode, worker, switch, leaked>>

\* prepare found no shadow for the turn: the live engine denies it, and nothing is lost.
NoShadow(r) ==
    /\ pc[r] = "live"
    /\ End({r}, "gone") /\ Resolved(r)
    /\ UNCHANGED <<store, started, counted, broken>>

(* Mutant: such a turn is not counted. *)
FinishUncounted(r) ==
    /\ pc[r] = "live"
    /\ End({r}, "done") /\ Resolved(r)
    /\ UNCHANGED <<store, started, broken, counted>>

\* The live engine refused the turn before the conversation saw it.
FinishNoEffect(r) ==
    /\ pc[r] = "live"
    /\ End({r}, "done") /\ Count(r) /\ Resolved(r)
    /\ UNCHANGED <<store, started, broken>>

\* prepare failed, the live turn was discarded or raised, or its answer cannot be serialized.
FinishLost(r) ==
    /\ pc[r] = "live"
    /\ End({r}, "done") /\ Count(r) /\ Resolved(r)
    /\ Lose(turnOf[r].session) /\ Starts(turnOf[r].session)

Refused(size) ==
    \/ mode # "up" \/ size > MaxItemBytes
    \/ items + 1 > MaxItems \/ bytes + size > MaxBytes

\* _enqueue: an answered turn is offered to the queue, and shed when it does not fit.
FinishShed(r, size) ==
    /\ pc[r] = "live" /\ Refused(size)
    /\ End({r}, "done") /\ Count(r) /\ Resolved(r)
    /\ Lose(turnOf[r].session) /\ Starts(turnOf[r].session)

FinishQueued(r, size) ==
    LET s == turnOf[r].session IN
    /\ pc[r] = "live" /\ ~Refused(size)
    /\ Goes(r, "queued") /\ sizeOf' = [sizeOf EXCEPT ![r] = size]
    /\ items' = items + 1 /\ bytes' = bytes + size
    /\ regs' = [regs EXCEPT ![s][turnOf[r].turn] = "queued"]
    /\ heaps' = [heaps EXCEPT ![s] = @ \cup {r}]
    /\ parked' = parked \ {s}
    /\ ready' = Woken(ready, s, heaps')
    /\ Starts(s)
    /\ UNCHANGED <<waits, breaker, mode, worker, store, switch, history>>

\* A turn finds the switch off, and says so; the shadow never hears of it.
BeginUnseen(r, s, t) ==
    /\ Arrives(r) /\ mode # "closed"
    /\ pc' = [pc EXCEPT ![r] = "unseen"]
    /\ turnOf' = [turnOf EXCEPT ![r] = [session |-> s, turn |-> t, trial |-> FALSE]]
    /\ seenOn' = FALSE
    /\ UNCHANGED <<sizeOf, control, breaker, mode, worker, store, started, created, history>>

\* What the shadow remembers of these sessions, if it comes to that, misses a turn nothing marks.
Overlooks(lost) == broken' = broken \cup lost /\ leaked' = leaked \cup (lost \ broken)

\* The live engine answers it, while the switch is off or after it came back on.
UnseenMissed(r) ==
    /\ pc[r] = "unseen" /\ ~seenOn
    /\ Goes(r, "missed") /\ Starts(turnOf[r].session)
    /\ UNCHANGED <<sizeOf, control, breaker, mode, worker, store, switch, history>>

UnseenLate(r) ==
    /\ pc[r] = "unseen" /\ seenOn
    /\ End({r}, "gone") /\ Starts(turnOf[r].session)
    /\ Overlooks({turnOf[r].session})
    /\ UNCHANGED <<sizeOf, control, breaker, mode, worker, store, switch, counted>>

\* shadow_controller, called first: the epoch of the new controller is the start of the process.
FirstController ==
    /\ ~created
    /\ created' = TRUE /\ seenOn' = TRUE
    /\ Overlooks({turnOf[r].session : r \in {q \in Ids : pc[q] = "missed"}})
    /\ UNCHANGED <<pc, turnOf, sizeOf, control, breaker, mode, worker, store, started, counted>>

\* shadow_controller and new_epoch: the first turn after the switch came back on.
NewEpoch ==
    /\ created /\ ~seenOn
    /\ seenOn' = TRUE
    /\ store' = ResetAll(store) /\ broken' = {s \in Sessions : started[s] # "no"}
    /\ started' = [s \in Sessions |-> IF started[s] = "no" THEN "no" ELSE "earlier"]
    /\ UNCHANGED <<pc, turnOf, sizeOf, control, breaker, mode, worker, created, counted, leaked>>

-----------------------------------------------------------------------------
(* The worker and the watchdog.                                            *)

\* Of two payloads for one turn either may be the first.
Lowest(s) == {r \in heaps[s] : \A q \in heaps[s] : turnOf[r].turn <= turnOf[q].turn}

\* A turn that blocks what is queued in a session: lower, and still in flight.
Blocks(s, t) == regs[s][t] = "in_flight" /\ \A r \in heaps[s] : t < turnOf[r].turn

(* Mutant: a parked session is looked at again only when one of its turns is resolved. *)
NeverOverdue == {}

\* The sessions whose wait is over; they are marked, and their lower turns block no more.
Overdue == {s \in parked : waits[s] = 0}
Freed == [s \in Sessions |-> [t \in Turns |->
            IF s \in Overdue /\ Blocks(s, t) THEN "none" ELSE regs[s][t]]]

Waiting(s) == s \notin Overdue /\ \E t \in Turns : Blocks(s, t)

(* Mutant: a session that parks again waits all over again. *)
DeadlinesAnew(parks) ==
    [s \in Sessions |-> IF s \in parks THEN Gap ELSE IF s \in Overdue THEN Off ELSE waits[s]]

\* The wait of a session is fixed when it first parks, and ends with it.
Deadlines(parks) ==
    [s \in Sessions |-> IF s \in Overdue THEN Off
                       ELSE IF s \in parks /\ waits[s] = Off THEN Gap ELSE waits[s]]

\* The overdue sessions are woken in some order, behind those ready.
Wakes == {ready \o order : order \in {q \in [1 .. Cardinality(Overdue) -> Overdue] :
                                        Range(q) = Overdue}}

\* _next_locked: the sessions ahead of the first that waits for no lower turn are parked.
ParkedBefore(woken, n) ==
    LET parks == {woken[i] : i \in 1 .. n - 1} IN
    /\ \A s \in parks : Waiting(s)
    /\ parked' = (parked \ Overdue) \cup parks
    /\ regs' = Freed
    /\ store' = FoldSeq(LAMBDA s, acc : MarkReset(acc, s), store,
                        SubSeq(woken, Len(ready) + 1, Len(woken)))
    /\ broken' = broken \cup Overdue \cup Dropped(store, store')
    /\ UNCHANGED <<sizeOf, items, bytes, breaker, mode, started, switch, counted, leaked>>

CanTake == worker.at = "idle" /\ mode # "closed"

\* That session gives its lowest item, and goes to the back if it has more.
TakeFrom(woken, n, r) ==
    LET s == woken[n] IN
    /\ CanTake /\ ~Waiting(s)
    /\ ParkedBefore(woken, n)
    /\ waits' = [Deadlines({woken[i] : i \in 1 .. n - 1}) EXCEPT ![s] = Off]
    /\ heaps' = [heaps EXCEPT ![s] = @ \ {r}]
    /\ ready' = Woken(SubSeq(woken, n + 1, Len(woken)), s, heaps')
    /\ worker' = [at |-> "taken", req |-> r, age |-> 0]
    /\ Goes(r, "comparing")

TakeItem ==
    \E woken \in Wakes : \E n \in 1 .. Len(woken) : \E r \in Lowest(woken[n]) :
      TakeFrom(woken, n, r)

\* There is none, and every ready session is parked.
TakeNone ==
    \E woken \in Wakes :
    /\ CanTake /\ woken # <<>>
    /\ ParkedBefore(woken, Len(woken) + 1)
    /\ waits' = Deadlines(Range(woken))
    /\ ready' = <<>>
    /\ UNCHANGED <<heaps, worker, pc, turnOf>>

TakeNext == TakeItem \/ TakeNone

(* Mutant: a session the store has dropped starts afresh. *)
ResetUnburied(st, s, turn) ==
    IF s \in Entries(st) THEN s \in st.reset \/ turn <= st.last[s] ELSE started[s] = "earlier"

\* Why a session's context is incomplete, or late, for the entry the worker has read.
ResetReason(st, s, turn) ==
    IF s \in Entries(st) THEN s \in st.reset \/ turn <= st.last[s]
    ELSE s \in st.buried \/ started[s] = "earlier"

Comparing(to) ==
    /\ worker' = [worker EXCEPT !.at = to]
    /\ Count(worker.req)
    /\ UNCHANGED <<pc, turnOf, sizeOf, control, breaker, mode, started, switch>>

\* A gate refuses the turn by the time it is compared; nothing marks its session.
CompareGated ==
    /\ worker.at = "taken"
    /\ Comparing("compared")
    /\ broken' = broken \cup {turnOf[worker.req].session}
    /\ leaked' = leaked \cup {turnOf[worker.req].session}
    /\ UNCHANGED store

\* compare_turn reads the entry, which may have idled away, and the context is incomplete.
CompareReset ==
    LET t == turnOf[worker.req] IN
    /\ worker.at = "taken"
    /\ Comparing("compared") /\ UNCHANGED leaked
    /\ \E st \in {store} \cup (IF t.session \in Entries(store) THEN {Expired(store, t.session)} ELSE {}) :
         /\ ResetReason(st, t.session, t.turn)
         /\ store' = MarkReset(st, t.session)
    /\ broken' = broken \cup {t.session} \cup Dropped(store, store')

\* compare_turn reads the entry, and the new engine answers from it.
CompareRead ==
    LET t == turnOf[worker.req] IN
    /\ worker.at = "taken"
    /\ ~ResetReason(store, t.session, t.turn)
    /\ worker' = [worker EXCEPT !.at = "read"]
    /\ store' = IF t.session \in Entries(store)
                THEN [store EXCEPT !.order = Moved(@, t.session)] ELSE store
    /\ UNCHANGED <<pc, turnOf, sizeOf, control, breaker, mode, started, switch, history>>

\* The memory the engine returned replaces the entry, whatever became of it meanwhile.
ComparePut ==
    LET t == turnOf[worker.req] IN
    /\ worker.at = "read"
    /\ Comparing("compared")
    /\ store' = Put(store, t.session, t.turn)
    /\ broken' = broken \cup Dropped(store, store')
    /\ leaked' = IF t.session \in broken THEN leaked \cup {t.session} ELSE leaked

CompareFailed ==
    /\ worker.at \in {"taken", "read"}
    /\ Comparing("failed") /\ Lose(turnOf[worker.req].session) /\ UNCHANGED leaked

\* The worker resolves the turn, returns its charge and records how it went.
CompareDone ==
    LET r == worker.req
        t == turnOf[r]
    IN
    /\ worker.at \in {"compared", "failed"}
    /\ worker' = Idle /\ End({r}, "done")
    /\ items' = items - 1 /\ bytes' = bytes - sizeOf[r]
    /\ Resolve(t.session, t.turn)
    /\ \E outcome \in IF worker.at = "failed" THEN {"error"} ELSE {"fast", "slow"},
          kept \in 0 .. breaker.errors :
         LET new == Recorded(breaker, t.trial, outcome, kept)
             opens == Opened(breaker, t.trial, new)
         IN /\ breaker' = new
            /\ store' = IF opens THEN ResetAll(store) ELSE store
            /\ broken' = IF opens THEN broken \cup Entries(store) ELSE broken
    /\ sizeOf' = [sizeOf EXCEPT ![r] = 0]
    /\ UNCHANGED <<heaps, waits, mode, started, switch, counted, leaked>>

Hangs == worker.at # "idle" /\ worker.age > Hang

\* The watchdog latches the shadow off and sheds what is queued.
Watch ==
    /\ Hangs /\ mode = "up"
    /\ mode' = "unhealthy" /\ breaker' = [breaker EXCEPT !.forced = TRUE]
    /\ Drain
    /\ store' = ResetAll(DrainedStore(store))
    /\ broken' = broken \cup Entries(store) \cup {turnOf[r].session : r \in Queued}
    /\ UNCHANGED <<worker, started, switch, leaked>>

Close ==
    /\ created /\ mode # "closed"
    /\ mode' = "closed"
    /\ Drain
    /\ store' = DrainedStore(store)
    /\ broken' = broken \cup {turnOf[r].session : r \in Queued} \cup Dropped(store, store')
    /\ UNCHANGED <<breaker, worker, started, switch, leaked>>

\* A tick of the clock, while something waits for one.
Down(wait) == IF wait > 0 THEN wait - 1 ELSE wait
Tick ==
    /\ \/ \E s \in Sessions : waits[s] > 0
       \/ breaker.wait > 0
       \/ worker.at # "idle" /\ ~Hangs
    /\ waits' = [s \in Sessions |-> Down(waits[s])]
    /\ breaker' = [breaker EXCEPT !.wait = Down(@)]
    /\ worker' = IF worker.at # "idle" /\ ~Hangs THEN [worker EXCEPT !.age = @ + 1] ELSE worker
    /\ UNCHANGED <<pc, turnOf, sizeOf, regs, heaps, ready, parked, items, bytes, mode, store,
                   started, switch, history>>

Begin(r) ==
    \/ BeginClosed(r)
    \/ \E p \in Sent[r] : BeginRefused(r, p[1], p[2]) \/ BeginAdmitted(r, p[1], p[2])
                          \/ BeginUnseen(r, p[1], p[2])

Finish(r) ==
    \/ NoShadow(r) \/ FinishNoEffect(r) \/ FinishLost(r)
    \/ \E size \in Sizes : FinishShed(r, size) \/ FinishQueued(r, size)
    \/ UnseenMissed(r) \/ UnseenLate(r)

Next ==
    \/ \E r \in Ids : Begin(r) \/ Finish(r)
    \/ FirstController \/ NewEpoch
    \/ TakeNext \/ CompareGated \/ CompareReset \/ CompareRead \/ ComparePut
    \/ CompareFailed \/ CompareDone
    \/ Watch \/ Close \/ Tick

(* The worker and the watchdog threads run, and time passes. Nothing says that a request that has
   begun its turn ever finishes it, nor that a comparison ends. *)
Fairness == WF_vars(TakeNext) /\ WF_vars(Watch) /\ WF_vars(Tick)

Spec == Init /\ [][Next]_vars /\ Fairness

-----------------------------------------------------------------------------
(* Properties.                                                             *)

Wait(bound) == Off .. bound

(* Every variable has its type: waits and ages within their limits, one registration per turn, the
   breaker's counters below what opens it, and a store of at most STORE_LIMIT entries. *)
ShadowTypeOK ==
    /\ pc \in [Ids -> Where]
    /\ turnOf \in [Ids -> [session : Sessions, turn : Turns, trial : BOOLEAN] \cup {NoTurn}]
    /\ sizeOf \in [Ids -> Sizes \cup {0}]
    /\ regs \in [Sessions -> [Turns -> {"none", "in_flight", "queued"}]]
    /\ heaps \in [Sessions -> SUBSET Ids] /\ ready \in Seq(Sessions) /\ parked \subseteq Sessions
    /\ waits \in [Sessions -> Wait(Gap)]
    /\ items \in 0 .. MaxItems /\ bytes \in 0 .. MaxBytes
    /\ breaker \in [forced : BOOLEAN, wait : Wait(Cooling), trial : BOOLEAN,
                    slow : Nat, errors : Nat]
    /\ mode \in {"up", "unhealthy", "closed"}
    /\ worker \in [at : {"idle", "taken", "read", "compared", "failed"}, req : {0} \cup Ids,
                   age : 0 .. Hang + 1]
    /\ Entries(store) \subseteq Sessions /\ Len(store.order) <= StoreLimit
    /\ store.reset \subseteq Entries(store) /\ store.buried \subseteq Sessions
    /\ started \in [Sessions -> {"no", "epoch", "earlier"}] /\ created \in BOOLEAN /\ seenOn \in BOOLEAN
    /\ counted \in [Ids -> Nat] /\ broken \subseteq Sessions /\ leaked \subseteq Sessions

(* _items and _bytes are what is queued plus what is being compared, whatever the worker, the
   watchdog, the requests and close do in between: a charge is returned exactly once. *)
Charged == {r \in Ids : pc[r] \in {"queued", "comparing"}}
AccountingIsExact ==
    /\ items = Cardinality(Charged)
    /\ bytes = FoldFunctionOnSet(+, 0, sizeOf, Charged)

(* A session with something queued is known to the scheduler in exactly one way, ready or parked
   with a deadline, and no other session is: nobody has to come by for its turns to run. *)
NoSessionIsForgotten ==
    /\ \A s \in Sessions : heaps[s] # {} <=> (s \in Range(ready)) # (s \in parked)
    /\ Range(ready) \cap parked = {}
    /\ \A s \in parked : waits[s] # Off

(* A turn that is over was counted exactly once, and one that is not was not counted: shed,
   drained by the watchdog or by close while another is compared, lost or compared. *)
EveryTurnIsCountedOnce ==
    \A r \in Ids : pc[r] # "gone" =>
        counted[r] = IF pc[r] = "done" \/ (worker.req = r /\ worker.at \in {"compared", "failed"})
                     THEN 1 ELSE 0

(* While the breaker may still recover there is a trial out exactly when one turn carries it, and
   never two: no way of resolving a turn keeps the trial or gives back another's. *)
Trials == {r \in Ids : turnOf[r].trial /\ pc[r] \in {"live", "queued", "comparing"}}
OneTrialAtMost ==
    /\ Cardinality(Trials) <= 1
    /\ ~breaker.forced /\ mode # "closed" => (breaker.trial <=> Trials # {})

(* The store holds no unmarked memory for a session that lost a turn, but through the three ways
   known: a comparison that wrote over the mark, a turn a gate refused, and a turn taken with the
   switch off that no epoch covers. That is one answered before the process had a controller, or
   begun before the switch came back on and answered after. Every other loss (at admission,
   preparing, shed, at a gap, late, evicted, an epoch, a restart) marks the session. *)
OnlyKnownLeaks ==
    \A s \in Entries(store) \ store.reset : s \in broken => s \in leaked

(* The new engine answers a turn only from a memory that lacks nothing the session lost, but for
   what leaked in one of those three ways: late, evicted and older sessions included. *)
RunsOnWholeContext ==
    [][worker.at = "taken" /\ worker'.at = "read" =>
         LET s == turnOf[worker.req].session IN s \in broken => s \in leaked]_vars

(* A wait for a lower turn is never extended, whoever arrives or resolves meanwhile. *)
WaitsOnlyShrink ==
    [][\A s \in Sessions : waits[s] # Off /\ waits'[s] # Off => waits'[s] <= waits[s]]_vars

(* A queued turn is compared or shed in the end, even when a comparison hangs or a turn it waits
   for never finishes: then the deadline of the wait releases it. *)
QueuedTurnsLeave == \A r \in Ids : pc[r] = "queued" ~> pc[r] # "queued"

(* A trial comes back unless its request never finishes: though the turn may then wait behind one
   that does not, or its comparison hang, the breaker of a healthy process admits turns again. *)
TrialsComeBack ==
    breaker.trial /\ (\A r \in Trials : pc[r] # "live")
      ~> ~breaker.trial \/ breaker.forced \/ mode = "closed"
=============================================================================
