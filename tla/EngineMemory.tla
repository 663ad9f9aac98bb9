---------------------------- MODULE EngineMemory ----------------------------
(***************************************************************************)
(* What the definition engine remembers of a conversation, and where: the  *)
(* durable engine_state row, which keeps identifiers only, and the         *)
(* in-process PendingStateCache, which keeps the whole memory, unanswered  *)
(* questions included, for as long as its revision is the row's.           *)
(*                                                                         *)
(* A server thread reads the row, then the cache, then runs the engine,    *)
(* then commits the row, then fills the cache: five steps between which    *)
(* other turns of the session, the clock, retention and a restart move.    *)
(* TurnLedger has the same turns with their keys and an opaque memory;     *)
(* here a turn is only its place in the order, and the memory is open.     *)
(*                                                                         *)
(* A remembered record or person is the workspace it was resolved in, a    *)
(* question is the turn and the workspace that asked it, and a message is  *)
(* any of the outcomes the router has for the memory it is read with.      *)
(***************************************************************************)
EXTENDS Naturals, SequencesExt

CONSTANTS
    Sessions,
    Workspaces,
    TurnsOf,      \* the highest turn ID of each session, a bound of the model
    CacheLimit,   \* PendingStateCache.MAX_ENTRIES
    Idle,         \* IDLE_SECONDS, in clock units
    Retention,    \* RETENTION_SECONDS, in clock units
    MaxNow,       \* the last clock unit, a bound of the model
    MaxEpoch,     \* the last process, a bound of the model
    None          \* Python's None, also the absence of a row or an entry

ASSUME MemoryAssumption ==
    /\ TurnsOf \in [Sessions -> Nat]
    /\ CacheLimit \in Nat \ {0}
    /\ Idle \in Nat /\ Retention \in Nat /\ Idle <= Retention
    /\ MaxNow \in Nat /\ MaxEpoch \in Nat
    /\ None \notin Workspaces

Turns == UNION {1 .. TurnsOf[s] : s \in Sessions}

PendingTurns == 1   \* PENDING_TURNS
MaxRepeats == 1     \* MAX_REPEATS

Confirmation == [turn : Turns, from : Workspaces]
Question == [turn : Turns, from : Workspaces, repeats : 0 .. MaxRepeats]
Memory == [focus : Workspaces \cup {None},
           confirm : Confirmation \cup {None},
           ask : Question \cup {None}]

VARIABLES
    active,   \* sessions.active_turn_id, 0 for null
    latest,   \* sessions.latest_turn_id
    row,      \* the engine_state row of a session, with the memory it was cut
              \* from as history (whole)
    entry,    \* PendingStateCache._entries
    recent,   \* their order, the next to be evicted first
    flight,   \* the turns being answered
    now,      \* the clock
    epoch,    \* the number of restarts
    last,     \* history: the last turn of a session committed, and by which process
    deed      \* history: the change the last step handed out, if it did

vars == <<active, latest, row, entry, recent, flight, now, epoch, last, deed>>

Row == [scope : Workspaces, turn : Turns, rev : Nat, mem : Memory, at : Nat,
        whole : Memory]
Entry == [rev : Nat, mem : Memory, at : Nat]
Flight == [phase : {"active", "loaded", "ready", "committed"},
           scope : Workspaces, mem : Memory, base : Nat]
Deed == [session : Sessions, turn : Turns, asked : Turns]

ASSUME NoneIsNoRecord == None \notin Row \cup Entry

-----------------------------------------------------------------------------
(* Memories.                                                               *)

Empty == [focus |-> None, confirm |-> None, ask |-> None]

\* What a memory waits for an answer to.
Asked(m) == {m.confirm, m.ask} \ {None}

(* Mutant: the row keeps the pending question and proposal too. *)
Whole(m) == m

\* The identifiers of a memory, all that the row keeps of it.
Durable(m) == [Empty EXCEPT !.focus = m.focus]

(* Mutant: what is pending waits until it is answered. *)
Pending(pending, t) == pending # None

Fresh(pending, t) == pending # None /\ t - pending.turn <= PendingTurns

\* ConversationMemory.next_turn
NextTurn(m, t) ==
    [focus |-> m.focus,
     confirm |-> IF Fresh(m.confirm, t) THEN m.confirm ELSE None,
     ask |-> IF Fresh(m.ask, t) THEN m.ask ELSE None]

\* ConversationMemory.discard_pending
DiscardPending(m) == [Empty EXCEPT !.focus = m.focus]

\* A memory after a turn, and the turn that asked for the change it hands out
\* (0: it hands out none).
Turned(m, asked) == [mem |-> m, asked |-> asked]

\* A proposal the validator accepted: it hands out a change or only leads
\* somewhere, may name a record to remember, and may come with a question.
Accepted(m, t, w, asked) ==
    LET ask == [turn |-> t, from |-> w, repeats |-> 0]
    IN  {Turned([focus |-> f, confirm |-> m.confirm, ask |-> q], a) :
           f \in {m.focus, w}, q \in {m.ask, ask}, a \in {0, asked}}

\* A message read on its own: nothing happens, it is accepted, it waits for a
\* yes, it raises a question, or both of these.
RouteFresh(m, t, w) ==
    LET confirm == [turn |-> t, from |-> w]
        ask == [turn |-> t, from |-> w, repeats |-> 0]
    IN  {Turned([focus |-> m.focus, confirm |-> c, ask |-> q], 0) :
           c \in {None, confirm}, q \in {None, ask}}
        \cup Accepted(m, t, w, t)

\* A message read as the answer to the question q: it is set aside, completes
\* the request, needs a yes, leads to a further question (of this turn, or with
\* the turn of the one it follows), rejects a candidate, is asked again, or is
\* a request of its own.
AnswerQuestion(m, q, t, w) ==
    LET cleared == [m EXCEPT !.ask = None]
        counts == {0} \cup ((q.repeats .. q.repeats + 1) \cap (0 .. MaxRepeats))
        repeated == {[turn |-> t, from |-> q.from, repeats |-> n] : n \in counts}
    IN  {Turned([cleared EXCEPT !.ask = q], 0),
         Turned([cleared EXCEPT !.confirm = [turn |-> t, from |-> q.from]], 0)}
        \cup {Turned([cleared EXCEPT !.ask = again], 0) : again \in repeated}
        \cup Accepted(cleared, t, q.from, q.turn)
        \cup RouteFresh(cleared, t, w)

\* ConversationEngine.turn: a refusal, of the message or of what it proposes; a
\* visitor's word about themselves, which keeps the memory as it was read; a
\* yes to what waits for one; or, the proposal being dropped, anything else.
TurnOutcomes(read, t, w) ==
    LET m == NextTurn(read, t)
        unconfirmed == [m EXCEPT !.confirm = None]
    IN  {Turned(DiscardPending(m), 0), Turned(read, 0)}
        \cup (IF m.confirm = None THEN {}
              ELSE Accepted(unconfirmed, t, m.confirm.from, m.confirm.turn))
        \cup (IF m.ask = None THEN RouteFresh(unconfirmed, t, w)
              ELSE AnswerQuestion(unconfirmed, m.ask, t, w))

-----------------------------------------------------------------------------
(* The cache.                                                              *)

(* Mutants: any entry of the session is used, whatever its revision; an entry of the right
   revision is used, however old. *)
Cached(s, revision) == entry[s] # None /\ now - entry[s].at <= Idle
OfRevision(s, revision) == entry[s] # None /\ entry[s].rev = revision

Usable(s, revision) ==
    /\ entry[s] # None
    /\ now - entry[s].at <= Idle
    /\ entry[s].rev = revision

\* The order once a session's entry, of which there is one at most, is taken out.
Without(s) ==
    IF s \in Range(recent) THEN RemoveAt(recent, CHOOSE i \in DOMAIN recent : recent[i] = s) ELSE recent
MovedToEnd(s) == Append(Without(s), s)

Dropped(s) ==
    /\ entry' = [entry EXCEPT ![s] = None]
    /\ recent' = Without(s)

(* Mutant: an insertion pushes an entry out one too late. *)
EvictedLate(order) == IF Len(order) > CacheLimit + 1 THEN {Head(order)} ELSE {}

\* The entries an insertion pushes out.
Evicted(order) == IF Len(order) > CacheLimit THEN {Head(order)} ELSE {}

\* PendingStateCache.put, whatever revision is cached already
CachePut(s, revision, m) ==
    LET order == MovedToEnd(s)
        filled == [entry EXCEPT ![s] = [rev |-> revision, mem |-> m, at |-> now]]
    IN  /\ recent' = IF Evicted(order) = {} THEN order ELSE Tail(order)
        /\ entry' = [other \in Sessions |->
                       IF other \in Evicted(order) THEN None ELSE filled[other]]

-----------------------------------------------------------------------------
(* A turn.                                                                 *)

Move(s, t, f) == flight' = [flight EXCEPT ![s][t] = f]

\* SessionManager.activate_turn: only a turn newer than every other.
Activate(s, t, w) ==
    /\ t > latest[s]
    /\ active' = [active EXCEPT ![s] = t]
    /\ latest' = [latest EXCEPT ![s] = t]
    /\ Move(s, t, [phase |-> "active", scope |-> w, mem |-> Empty, base |-> 0])
    /\ deed' = None
    /\ UNCHANGED <<row, entry, recent, now, epoch, last>>

\* cancel_turn, and a turn refused after its activation: it is completed, and
\* the thread answering it finds out when it finalizes.
Deactivate(s) ==
    /\ active[s] # 0
    /\ active' = [active EXCEPT ![s] = 0]
    /\ deed' = None
    /\ UNCHANGED <<latest, row, entry, recent, flight, now, epoch, last>>

\* EngineStateStore.load: a row of another workspace gives its revision and
\* nothing else; without a row the cache is not asked.
Load(s, t) ==
    /\ flight[s][t] # None /\ flight[s][t].phase = "active"
    /\ LET w == flight[s][t].scope
       IN  Move(s, t,
             IF row[s] = None
             THEN [phase |-> "ready", scope |-> w, mem |-> Empty, base |-> 0]
             ELSE [phase |-> "loaded", scope |-> w,
                   mem |-> IF row[s].scope = w THEN row[s].mem ELSE Empty,
                   base |-> row[s].rev])
    /\ deed' = None
    /\ UNCHANGED <<active, latest, row, entry, recent, now, epoch, last>>

\* PendingStateCache.get with the loaded revision: a hit replaces what was
\* loaded, an idle or overtaken entry is deleted.
Consult(s, t) ==
    /\ flight[s][t] # None /\ flight[s][t].phase = "loaded"
    /\ IF Usable(s, flight[s][t].base)
       THEN /\ Move(s, t, [phase |-> "ready", scope |-> flight[s][t].scope,
                            mem |-> entry[s].mem, base |-> flight[s][t].base])
            /\ recent' = MovedToEnd(s)
            /\ UNCHANGED entry
       ELSE /\ Move(s, t, [flight[s][t] EXCEPT !.phase = "ready"])
            /\ Dropped(s)
    /\ deed' = None
    /\ UNCHANGED <<active, latest, row, now, epoch, last>>

\* Whether NewEngineTurns._finalize may write: the turn is the active one, and
\* EngineStateStore.commit finds no row, or the one that was loaded.
MayCommit(s, t) ==
    /\ active[s] = t
    /\ row[s] # None => row[s].rev = flight[s][t].base /\ row[s].turn < t

\* The engine answers and the turn is committed with what it makes of the
\* message; a change it hands out is recorded with the turn that asked for it.
Finalize(s, t) ==
    /\ flight[s][t] # None /\ flight[s][t].phase = "ready"
    /\ MayCommit(s, t)
    /\ LET f == flight[s][t]
       IN  \E done \in TurnOutcomes(f.mem, t, f.scope) :
             /\ row' = [row EXCEPT ![s] =
                          [scope |-> f.scope, turn |-> t, rev |-> f.base + 1,
                           mem |-> Durable(done.mem), at |-> now,
                           whole |-> done.mem]]
             /\ Move(s, t, [phase |-> "committed", scope |-> f.scope,
                            mem |-> done.mem, base |-> f.base + 1])
             /\ deed' = IF done.asked = 0 THEN None
                        ELSE [session |-> s, turn |-> t, asked |-> done.asked]
    /\ active' = [active EXCEPT ![s] = 0]
    /\ last' = [last EXCEPT ![s] = [turn |-> t, epoch |-> epoch]]
    /\ UNCHANGED <<latest, entry, recent, now, epoch>>

\* A lost race writes nothing.
Lose(s, t) ==
    /\ flight[s][t] # None /\ flight[s][t].phase = "ready"
    /\ ~MayCommit(s, t)
    /\ Move(s, t, None)
    /\ deed' = None
    /\ UNCHANGED <<active, latest, row, entry, recent, now, epoch, last>>

\* The cache is filled after the transaction, under a lock of its own.
Put(s, t) ==
    /\ flight[s][t] # None /\ flight[s][t].phase = "committed"
    /\ CachePut(s, flight[s][t].base, flight[s][t].mem)
    /\ Move(s, t, None)
    /\ deed' = None
    /\ UNCHANGED <<active, latest, row, now, epoch, last>>

-----------------------------------------------------------------------------
(* Around the turns.                                                       *)

\* EngineStateStore.prune of a row that has not changed for the retention time.
\* (A session that has ended or expired, whose row goes at once, starts no turn
\* and is left out.)
Prune(s) ==
    /\ row[s] # None /\ now - row[s].at > Retention
    /\ row' = [row EXCEPT ![s] = None]
    /\ deed' = None
    /\ UNCHANGED <<active, latest, entry, recent, flight, now, epoch, last>>

\* The process ends: the cache and the turns in flight go with it.
Restart ==
    /\ epoch < MaxEpoch
    /\ epoch' = epoch + 1
    /\ entry' = [s \in Sessions |-> None]
    /\ recent' = <<>>
    /\ flight' = [s \in Sessions |-> [t \in Turns |-> None]]
    /\ deed' = None
    /\ UNCHANGED <<active, latest, row, now, last>>

\* A clock unit is minutes: a thread does not need one to get from its commit
\* to the cache.
Tick ==
    /\ now < MaxNow
    /\ \A s \in Sessions : \A t \in Turns :
         flight[s][t] # None => flight[s][t].phase # "committed"
    /\ now' = now + 1
    /\ deed' = None
    /\ UNCHANGED <<active, latest, row, entry, recent, flight, epoch, last>>

-----------------------------------------------------------------------------
Init ==
    /\ active = [s \in Sessions |-> 0]
    /\ latest = [s \in Sessions |-> 0]
    /\ row = [s \in Sessions |-> None]
    /\ entry = [s \in Sessions |-> None]
    /\ recent = <<>>
    /\ flight = [s \in Sessions |-> [t \in Turns |-> None]]
    /\ now = 0
    /\ epoch = 0
    /\ last = [s \in Sessions |-> [turn |-> 0, epoch |-> 0]]
    /\ deed = None

Next ==
    \/ \E s \in Sessions :
         \/ \E t \in 1 .. TurnsOf[s] :
              \/ \E w \in Workspaces : Activate(s, t, w)
              \/ Load(s, t)
              \/ Consult(s, t)
              \/ Finalize(s, t)
              \/ Lose(s, t)
              \/ Put(s, t)
         \/ Deactivate(s)
         \/ Prune(s)
    \/ Restart
    \/ Tick

Spec == Init /\ [][Next]_vars

-----------------------------------------------------------------------------
(* Properties.                                                             *)

\* Every variable has its type; the cache holds at most CacheLimit entries and
\* its order lists exactly the sessions that have one (PendingStateCache.put).
TypeOK ==
    /\ active \in [Sessions -> Turns \cup {0}]
    /\ latest \in [Sessions -> Turns \cup {0}]
    /\ row \in [Sessions -> Row \cup {None}]
    /\ entry \in [Sessions -> Entry \cup {None}]
    /\ recent \in Seq(Sessions) /\ Len(recent) <= CacheLimit
    /\ \A s \in Sessions : entry[s] # None <=> \E i \in 1 .. Len(recent) : recent[i] = s
    /\ flight \in [Sessions -> [Turns -> Flight \cup {None}]]
    /\ last \in [Sessions -> [turn : Turns \cup {0}, epoch : 0 .. MaxEpoch]]
    /\ now \in 0 .. MaxNow /\ epoch \in 0 .. MaxEpoch
    /\ deed \in Deed \cup {None}

\* A change a visitor agreed to, or completed with an answer, was asked for by
\* the last turn of the conversation that was committed: a yes never reaches
\* back past a later answer (next_turn, the revision of the cache).
YesAnswersTheLastQuestion ==
    [][deed' # None /\ deed'.asked # deed'.turn =>
         last[deed'.session].turn = deed'.asked]_vars

\* What was pending when the process ended can never be agreed to afterwards:
\* its content is not in the row (engine_state.py:5-12).
RestartForgetsQuestions ==
    [][deed' # None /\ deed'.asked # deed'.turn =>
         last[deed'.session].epoch = epoch]_vars

Committed(s) == row'[s] # None /\ row'[s] # row[s]

\* What a turn of workspace w may know, when r is the session's row.
Rememberable(r, w) ==
    {r.whole, Durable(r.whole)} \cup (IF r.scope = w THEN {} ELSE {Empty})

\* A turn that is committed over a row continues from the memory that row was
\* cut from, whole or without what was pending, or from nothing if the row is
\* of another workspace: never from an older one, whatever order the cache was
\* filled in, and however often the revisions began again after retention.
MemoryIsContinuous ==
    [][\A s \in Sessions :
         Committed(s) /\ row[s] # None =>
           flight[s][row'[s].turn].mem \in Rememberable(row[s], row'[s].scope)]_vars

-----------------------------------------------------------------------------
(* The inductive invariant of the proofs.                                  *)

\* The turn being answered is the newest, and is newer than what is committed.
TurnOrder(s) ==
    /\ active[s] \in {0, latest[s]}
    /\ last[s].turn <= latest[s]
    /\ active[s] # 0 => last[s].turn < active[s]
    /\ row[s] # None => row[s].turn = last[s].turn

\* The row keeps the identifiers of the memory it was cut from, whose questions
\* are no newer than it is.
RowIsCut(s) ==
    row[s] # None =>
      /\ row[s].mem = Durable(row[s].whole)
      /\ row[s].at <= now
      /\ \A p \in Asked(row[s].whole) : p.turn <= row[s].turn

\* A memory of the given revision is the newest one, written by this process,
\* or is an older one.
Honest(s, rev, mem) ==
    /\ row[s] # None
    /\ rev <= row[s].rev
    /\ rev = row[s].rev => mem = row[s].whole /\ last[s].epoch = epoch

\* A cached memory is idle, or honest and no younger than the row.
CacheIsHonest(s) ==
    entry[s] # None =>
      \/ now - entry[s].at > Idle
      \/ Honest(s, entry[s].rev, entry[s].mem) /\ entry[s].at <= row[s].at

\* So is a memory on its way to the cache, within the clock unit of its commit.
CommitsAreHonest(s) ==
    \A t \in Turns :
      LET f == flight[s][t]
      IN  f # None /\ f.phase = "committed" =>
            Honest(s, f.base, f.mem) /\ row[s].at = now

\* What the active turn has read is still what the row says, and its questions
\* are of the last committed turn or older, and of this process.
ActiveTurnKnows(s) ==
    \A t \in Turns :
      LET f == flight[s][t]
      IN  active[s] = t /\ f # None /\ f.phase \in {"loaded", "ready"} =>
            /\ row[s] # None => /\ f.base = row[s].rev
                                /\ f.mem \in Rememberable(row[s], f.scope)
            /\ \A p \in Asked(f.mem) :
                 p.turn <= last[s].turn /\ last[s].epoch = epoch

IInv ==
    \A s \in Sessions :
      /\ TurnOrder(s) /\ RowIsCut(s) /\ CacheIsHonest(s)
      /\ CommitsAreHonest(s) /\ ActiveTurnKnows(s)

-----------------------------------------------------------------------------
\* The workspaces a memory refers to.
Places(m) ==
    ({m.focus} \cup {p.from : p \in Asked(m)}) \ {None}

\* "A scope change clears remembered record/person references and pending
\* state" (docs/MILESTONE_3_STEP_3_2_SLICE_5C_PLAN.md:178): the engine is never
\* run on a memory of another workspace.
WorkspaceSwitchForgets ==
    \A s \in Sessions : \A t \in Turns :
      LET f == flight[s][t]
      IN  f # None /\ f.phase = "ready" => Places(f.mem) \subseteq {f.scope}
=============================================================================
