-------------------------- MODULE EngineMemoryProofs --------------------------
(***************************************************************************)
(* Proofs about EngineMemory, for every number of sessions, turns and      *)
(* workspaces, every cache size and every pair of idle and retention       *)
(* times.                                                                  *)
(***************************************************************************)
EXTENDS EngineMemory, DataLemmas, TLAPS

\* The types of the variables the proofs speak of: all but the cache's order.
Typed ==
    /\ active \in [Sessions -> Turns \cup {0}]
    /\ latest \in [Sessions -> Turns \cup {0}]
    /\ row \in [Sessions -> Row \cup {None}]
    /\ entry \in [Sessions -> Entry \cup {None}]
    /\ flight \in [Sessions -> [Turns -> Flight \cup {None}]]
    /\ last \in [Sessions -> [turn : Turns \cup {0}, epoch : 0 .. MaxEpoch]]
    /\ now \in 0 .. MaxNow /\ epoch \in 0 .. MaxEpoch
    /\ deed \in Deed \cup {None}

-----------------------------------------------------------------------------
(* What a turn may do to a memory.                                         *)

\* A turn ID is a positive number.
LEMMA TurnsArePositive == Turns \subseteq Nat \ {0}
BY MemoryAssumption DEF Turns

\* So is a turn ID or its absence, but for 0.
LEMMA TurnsAreNumbers == \A t \in Turns \cup {0} : t \in Nat
BY TurnsArePositive

\* A result of turn t is a memory with nothing newer than t to answer.
UpTo(d, t) ==
    /\ d.mem \in Memory
    /\ \A p \in Asked(d.mem) : p.turn <= t

\* An accepted proposal hands out the change it was asked for, or none
\* (remember_accepted).
LEMMA AcceptedResults ==
    ASSUME NEW m \in Memory, NEW t \in Turns, NEW w \in Workspaces, NEW asked \in Turns,
           \A p \in Asked(m) : p.turn <= t,
           NEW d \in Accepted(m, t, w, asked)
    PROVE  UpTo(d, t) /\ d.asked \in {0, asked}
<1>1. PICK f \in {m.focus, w}, a \in {0, asked},
           q \in {m.ask, [turn |-> t, from |-> w, repeats |-> 0]} :
         d = [mem |-> [focus |-> f, confirm |-> m.confirm, ask |-> q], asked |-> a]
      BY DEF Accepted, Turned
<1>2. q \in Question \cup {None} /\ f \in Workspaces \cup {None}
      BY <1>1 DEF Memory, Question, MaxRepeats
<1>3. d.mem = [focus |-> f, confirm |-> m.confirm, ask |-> q]
      BY <1>1 DEF Memory
<1>4. q = m.ask \/ q.turn = t
      BY <1>1
<1> QED BY <1>1, <1>2, <1>3, <1>4, TurnsArePositive DEF UpTo, Memory, Asked

\* A message read on its own can only hand out a change of its own turn.
LEMMA FreshResults ==
    ASSUME NEW m \in Memory, NEW t \in Turns, NEW w \in Workspaces,
           \A p \in Asked(m) : p.turn <= t,
           NEW d \in RouteFresh(m, t, w)
    PROVE  UpTo(d, t) /\ d.asked \in {0, t}
<1> DEFINE confirm == [turn |-> t, from |-> w]
           ask == [turn |-> t, from |-> w, repeats |-> 0]
<1>1. confirm \in Confirmation /\ ask \in Question
      BY DEF Confirmation, Question, MaxRepeats
<1>2. CASE d \in Accepted(m, t, w, t)
      BY <1>2, AcceptedResults
<1>3. CASE \E c \in {None, confirm}, q \in {None, ask} :
             d = [mem |-> [focus |-> m.focus, confirm |-> c, ask |-> q], asked |-> 0]
  <2>1. PICK c \in {None, confirm}, q \in {None, ask} :
               d = [mem |-> [focus |-> m.focus, confirm |-> c, ask |-> q], asked |-> 0]
        BY <1>3
  <2>2. d.mem = [focus |-> m.focus, confirm |-> c, ask |-> q]
        BY <2>1 DEF Memory
  <2>3. d.mem \in Memory
        BY <1>1, <2>2 DEF Memory
  <2>4. \A p \in Asked(d.mem) : p.turn = t
        BY <2>2 DEF Asked
  <2> QED BY <2>1, <2>3, <2>4, TurnsArePositive DEF UpTo
<1> QED BY <1>2, <1>3 DEF RouteFresh, Turned

\* The answer to a question hands out what the question was about, or what it
\* would on its own.
LEMMA AnswerResults ==
    ASSUME NEW m \in Memory, NEW t \in Turns, NEW w \in Workspaces,
           \A p \in Asked(m) : p.turn <= t,
           NEW q \in Question, q = m.ask, q.turn <= t,
           NEW d \in AnswerQuestion(m, q, t, w)
    PROVE  UpTo(d, t) /\ d.asked \in {0, t, q.turn}
<1> DEFINE cleared == [m EXCEPT !.ask = None]
           counts == {0} \cup ((q.repeats .. q.repeats + 1) \cap (0 .. MaxRepeats))
           repeated == {[turn |-> t, from |-> q.from, repeats |-> n] : n \in counts}
<1>1. /\ q = [turn |-> q.turn, from |-> q.from, repeats |-> q.repeats]
      /\ q.turn \in Turns /\ q.from \in Workspaces
      BY DEF Question
<1>2. /\ cleared = [focus |-> m.focus, confirm |-> m.confirm, ask |-> None]
      /\ cleared \in Memory
      /\ \A p \in Asked(cleared) : p.turn <= t
      BY DEF Memory, Asked
<1>3. counts \subseteq 0 .. MaxRepeats
      BY DEF MaxRepeats
<1>4. CASE d = [mem |-> [cleared EXCEPT !.ask = q], asked |-> 0]
  <2>1. d.mem = [focus |-> m.focus, confirm |-> m.confirm, ask |-> q]
        BY <1>2, <1>4
  <2> QED BY <2>1, <1>4 DEF UpTo, Memory, Asked
<1>5. CASE d = [mem |-> [cleared EXCEPT !.confirm = [turn |-> t, from |-> q.from]], asked |-> 0]
  <2>1. d.mem = [focus |-> m.focus, confirm |-> [turn |-> t, from |-> q.from], ask |-> None]
        BY <1>2, <1>5
  <2>2. [turn |-> t, from |-> q.from] \in Confirmation
        BY <1>1 DEF Confirmation
  <2>3. d.mem \in Memory
        BY <2>1, <2>2 DEF Memory
  <2>4. \A p \in Asked(d.mem) : p.turn = t
        BY <2>1 DEF Asked
  <2> QED BY <2>3, <2>4, <1>5, TurnsArePositive DEF UpTo
<1>6. CASE \E again \in repeated : d = [mem |-> [cleared EXCEPT !.ask = again], asked |-> 0]
  <2>1. PICK again \in repeated : d = [mem |-> [cleared EXCEPT !.ask = again], asked |-> 0]
        BY <1>6
  <2>2. PICK n \in counts : again = [turn |-> t, from |-> q.from, repeats |-> n]
        BY <2>1
  <2>3. again \in Question /\ again.turn = t
        BY <1>1, <1>3, <2>2 DEF Question
  <2>4. d.mem = [focus |-> m.focus, confirm |-> m.confirm, ask |-> again]
        BY <1>2, <2>1
  <2>5. d.mem \in Memory
        BY <2>3, <2>4 DEF Memory
  <2>6. \A p \in Asked(d.mem) : p \in Asked(cleared) \/ p.turn = t
        BY <1>2, <2>3, <2>4 DEF Asked
  <2>7. t <= t
        BY TurnsArePositive
  <2> QED BY <2>1, <2>5, <2>6, <2>7, <1>2 DEF UpTo
<1>7. CASE d \in Accepted(cleared, t, q.from, q.turn)
      BY <1>1, <1>2, <1>7, AcceptedResults
<1>8. CASE d \in RouteFresh(cleared, t, w)
      BY <1>2, <1>8, FreshResults
<1> QED BY <1>4, <1>5, <1>6, <1>7, <1>8 DEF AnswerQuestion, Turned

\* Whatever the message: nothing newer than the turn is left to answer, and a
\* change that an earlier turn asked for was asked for by the one just before.
LEMMA TurnResults ==
    ASSUME NEW m \in Memory, NEW t \in Turns, NEW w \in Workspaces,
           \A p \in Asked(m) : p.turn < t,
           NEW d \in TurnOutcomes(m, t, w)
    PROVE  /\ UpTo(d, t)
           /\ \/ d.asked \in {0, t}
              \/ \E p \in Asked(m) : d.asked = p.turn /\ d.asked = t - 1
<1> DEFINE next == NextTurn(m, t)
           unconfirmed == [next EXCEPT !.confirm = None]
<1>0. \A p \in Asked(m) : p.turn \in Turns
      BY DEF Asked, Memory, Confirmation, Question
<1>1. /\ next = [focus |-> m.focus, confirm |-> next.confirm, ask |-> next.ask]
      /\ next.confirm = IF Fresh(m.confirm, t) THEN m.confirm ELSE None
      /\ next.ask = IF Fresh(m.ask, t) THEN m.ask ELSE None
      BY DEF NextTurn, Memory
<1>2. next \in Memory /\ Asked(next) \subseteq Asked(m)
      BY <1>1 DEF Memory, Asked
<1>3. \A p \in Asked(next) : p.turn < t /\ p.turn = t - 1
  <2> SUFFICES ASSUME NEW p \in Asked(next)
               PROVE  p.turn < t /\ p.turn = t - 1
      OBVIOUS
  <2>1. p.turn < t /\ p.turn \in Nat /\ t \in Nat
        BY <1>0, <1>2, TurnsArePositive
  <2>2. Fresh(p, t)
        BY <1>1 DEF Asked
  <2> QED BY <2>1, <2>2 DEF Fresh, PendingTurns
<1>4. /\ unconfirmed = [focus |-> m.focus, confirm |-> None, ask |-> next.ask]
      /\ unconfirmed \in Memory
      /\ Asked(unconfirmed) \subseteq Asked(next)
      BY <1>1, <1>2 DEF Memory, Asked
<1>5. \A p \in Asked(m) : p.turn <= t
  <2> SUFFICES ASSUME NEW p \in Asked(m)
               PROVE  p.turn <= t
      OBVIOUS
  <2>1. p.turn < t /\ p.turn \in Nat /\ t \in Nat
        BY <1>0, TurnsArePositive
  <2> QED BY <2>1
<1>6. CASE d = [mem |-> DiscardPending(next), asked |-> 0]
  <2>1. d.mem = [focus |-> m.focus, confirm |-> None, ask |-> None]
        BY <1>6 DEF DiscardPending, Empty, NextTurn
  <2> QED BY <2>1, <1>6 DEF UpTo, Memory, Asked
<1>7. CASE d = [mem |-> m, asked |-> 0]
      BY <1>5, <1>7 DEF UpTo
<1>8. CASE next.confirm # None /\ d \in Accepted(unconfirmed, t, next.confirm.from, next.confirm.turn)
  <2>1. next.confirm \in Confirmation /\ next.confirm \in Asked(next)
        BY <1>2, <1>8 DEF Memory, Asked
  <2>2. next.confirm.turn \in Turns /\ next.confirm.from \in Workspaces
        BY <2>1 DEF Confirmation
  <2>3. \A p \in Asked(unconfirmed) : p.turn <= t
        BY <1>2, <1>4, <1>5
  <2>4. UpTo(d, t) /\ d.asked \in {0, next.confirm.turn}
        BY <1>4, <1>8, <2>2, <2>3, AcceptedResults
  <2> QED BY <2>1, <2>4, <1>2, <1>3
<1>9. CASE next.ask = None /\ d \in RouteFresh(unconfirmed, t, w)
  <2>1. \A p \in Asked(unconfirmed) : p.turn <= t
        BY <1>2, <1>4, <1>5
  <2> QED BY <1>4, <1>9, <2>1, FreshResults
<1>10. CASE next.ask # None /\ d \in AnswerQuestion(unconfirmed, next.ask, t, w)
  <2>1. \A p \in Asked(unconfirmed) : p.turn <= t
        BY <1>2, <1>4, <1>5
  <2>2. unconfirmed.ask = next.ask
        BY <1>4
  <2>3. next.ask \in Asked(next) /\ next.ask \in Question
        BY <1>2, <1>10 DEF Asked, Memory
  <2>4. next.ask.turn <= t
        BY <2>3, <1>2, <1>5
  <2>5. UpTo(d, t) /\ d.asked \in {0, t, next.ask.turn}
        BY <1>4, <1>10, <2>1, <2>2, <2>3, <2>4, AnswerResults
  <2> QED BY <2>3, <2>5, <1>2, <1>3
<1> QED BY <1>6, <1>7, <1>8, <1>9, <1>10 DEF TurnOutcomes, Turned

-----------------------------------------------------------------------------
(* The invariant, one session at a time.                                   *)

SessionInv(s) ==
    /\ TurnOrder(s) /\ RowIsCut(s) /\ CacheIsHonest(s)
    /\ CommitsAreHonest(s) /\ ActiveTurnKnows(s)

Inv == Typed /\ IInv

\* Only turns of a session are its turns.
LEMMA TurnsOfAreTurns ==
    \A s \in Sessions : \A t \in 1 .. TurnsOf[s] : t \in Turns
BY DEF Turns

\* How a turn in flight moves.
LEMMA MoveResult ==
    ASSUME Typed, NEW s \in Sessions, NEW t \in Turns, NEW f \in Flight \cup {None}, Move(s, t, f)
    PROVE  /\ flight' \in [Sessions -> [Turns -> Flight \cup {None}]]
           /\ \A x \in Sessions : x # s => flight'[x] = flight[x]
           /\ \A u \in Turns : flight'[s][u] = IF u = t THEN f ELSE flight[s][u]
BY DEF Typed, Move

\* A session nothing happens to keeps its invariant, even if it loses its
\* place in the cache.
LEMMA Frame ==
    ASSUME NEW s \in Sessions, SessionInv(s),
           active'[s] = active[s], latest'[s] = latest[s], row'[s] = row[s],
           entry'[s] \in {entry[s], None}, flight'[s] = flight[s], last'[s] = last[s],
           now' = now, epoch' = epoch
    PROVE  SessionInv(s)'
<1>1. TurnOrder(s)' /\ RowIsCut(s)'
      BY DEF SessionInv, TurnOrder, RowIsCut
<1>2. CacheIsHonest(s)'
      BY DEF SessionInv, CacheIsHonest, Honest
<1>3. CommitsAreHonest(s)' /\ ActiveTurnKnows(s)'
      BY DEF SessionInv, CommitsAreHonest, ActiveTurnKnows, Honest
<1> QED BY <1>1, <1>2, <1>3 DEF SessionInv

\* Without a row, an entry or a turn there is nothing to be wrong about.
LEMMA InitInv == Init => Inv
<1> SUFFICES ASSUME Init PROVE Inv
    OBVIOUS
<1>1. Typed
      BY MemoryAssumption DEF Init, Typed
<1>2. \A s \in Sessions : SessionInv(s)
  <2> SUFFICES ASSUME NEW s \in Sessions PROVE SessionInv(s)
      OBVIOUS
  <2>1. /\ active[s] = 0 /\ latest[s] = 0 /\ row[s] = None /\ entry[s] = None
        /\ last[s].turn = 0 /\ \A t \in Turns : flight[s][t] = None
        BY DEF Init
  <2> QED BY <2>1 DEF SessionInv, TurnOrder, RowIsCut, CacheIsHonest, CommitsAreHonest,
                      ActiveTurnKnows
<1> QED BY <1>1, <1>2 DEF Inv, IInv, SessionInv

\* A turn that becomes active has read nothing, and is newer than the row.
LEMMA ActivateKeeps ==
    ASSUME Inv, NEW s \in Sessions, NEW t \in 1 .. TurnsOf[s], NEW w \in Workspaces,
           Activate(s, t, w)
    PROVE  Inv'
<1> DEFINE f == [phase |-> "active", scope |-> w, mem |-> Empty, base |-> 0]
<1>1. t \in Turns /\ t \in Nat
      BY TurnsOfAreTurns, TurnsArePositive
<1>2. Empty \in Memory
      BY DEF Empty, Memory
<1>3. f \in Flight
      BY <1>2 DEF Flight
<1>4. /\ flight' \in [Sessions -> [Turns -> Flight \cup {None}]]
      /\ \A x \in Sessions : x # s => flight'[x] = flight[x]
      /\ \A u \in Turns : flight'[s][u] = IF u = t THEN f ELSE flight[s][u]
      BY <1>1, <1>3, MoveResult DEF Inv, Activate
<1>5. Typed'
      BY <1>1, <1>4 DEF Inv, Typed, Activate
<1>6. ASSUME NEW x \in Sessions, x # s PROVE SessionInv(x)'
      BY <1>4, <1>6, Frame DEF Inv, IInv, SessionInv, Activate, Typed
<1>7. SessionInv(s)'
  <2>1. SessionInv(s) /\ active'[s] = t /\ latest'[s] = t /\ t > latest[s]
        BY DEF Inv, IInv, SessionInv, Activate, Typed
  <2>2. last[s].turn \in Nat /\ latest[s] \in Nat
    <3>1. last[s] \in [turn : Turns \cup {0}, epoch : 0 .. MaxEpoch]
          BY DEF Inv, Typed
    <3>2. last[s].turn \in Turns \cup {0}
          BY <3>1
    <3>3. latest[s] \in Turns \cup {0}
          BY DEF Inv, Typed
    <3> QED BY <3>2, <3>3, TurnsAreNumbers
  <2>3. TurnOrder(s)'
        BY <1>1, <2>1, <2>2 DEF SessionInv, TurnOrder, Activate
  <2>4. RowIsCut(s)' /\ CacheIsHonest(s)'
        BY <2>1 DEF SessionInv, RowIsCut, CacheIsHonest, Honest, Activate
  <2>5. CommitsAreHonest(s)' /\ ActiveTurnKnows(s)'
    <3>1. f.phase = "active"
          OBVIOUS
    <3>2. CommitsAreHonest(s)'
          BY <1>4, <2>1, <3>1 DEF SessionInv, CommitsAreHonest, Honest, Activate
    <3>3. ActiveTurnKnows(s)'
          BY <1>4, <2>1, <3>1 DEF ActiveTurnKnows
    <3> QED BY <3>2, <3>3
  <2> QED BY <2>3, <2>4, <2>5 DEF SessionInv
<1> QED BY <1>5, <1>6, <1>7 DEF Inv, IInv, SessionInv

\* A cancelled turn knows whatever it knew, and can commit nothing.
LEMMA DeactivateKeeps ==
    ASSUME Inv, NEW s \in Sessions, Deactivate(s)
    PROVE  Inv'
<1>1. Typed'
      BY DEF Inv, Typed, Deactivate
<1>2. ASSUME NEW x \in Sessions, x # s PROVE SessionInv(x)'
      BY <1>2, Frame DEF Inv, IInv, SessionInv, Deactivate, Typed
<1>3. SessionInv(s)'
  <2>1. SessionInv(s) /\ active'[s] = 0
        BY DEF Inv, IInv, SessionInv, Deactivate, Typed
  <2>2. TurnOrder(s)' /\ RowIsCut(s)' /\ CacheIsHonest(s)'
        BY <2>1 DEF SessionInv, TurnOrder, RowIsCut, CacheIsHonest, Honest, Deactivate
  <2>3. CommitsAreHonest(s)'
        BY <2>1 DEF SessionInv, CommitsAreHonest, Honest, Deactivate
  <2>4. ActiveTurnKnows(s)'
        BY <2>1, TurnsArePositive DEF ActiveTurnKnows
  <2> QED BY <2>2, <2>3, <2>4 DEF SessionInv
<1> QED BY <1>1, <1>2, <1>3 DEF Inv, IInv, SessionInv

\* What is loaded is what the row says, without anything to answer.
LEMMA LoadKeeps ==
    ASSUME Inv, NEW s \in Sessions, NEW t \in 1 .. TurnsOf[s], Load(s, t)
    PROVE  Inv'
<1> DEFINE g == flight[s][t]
           f == IF row[s] = None
                THEN [phase |-> "ready", scope |-> g.scope, mem |-> Empty, base |-> 0]
                ELSE [phase |-> "loaded", scope |-> g.scope,
                      mem |-> IF row[s].scope = g.scope THEN row[s].mem ELSE Empty,
                      base |-> row[s].rev]
<1>1. t \in Turns /\ g \in Flight /\ row[s] \in Row \cup {None} /\ SessionInv(s)
      BY TurnsOfAreTurns DEF Inv, IInv, SessionInv, Typed, Load
<1>2. Empty \in Memory /\ Asked(Empty) = {}
      BY DEF Empty, Memory, Asked
<1>3. /\ f \in Flight
      /\ row[s] = None => f.phase = "ready" /\ f.mem = Empty
      /\ row[s] # None => /\ f.phase = "loaded" /\ f.base = row[s].rev /\ f.scope = g.scope
                          /\ f.mem = IF row[s].scope = g.scope THEN row[s].mem ELSE Empty
      BY <1>1, <1>2 DEF Flight, Row
<1>4. Move(s, t, f)
      BY DEF Load
<1> HIDE DEF f
<1>5. /\ flight' \in [Sessions -> [Turns -> Flight \cup {None}]]
      /\ \A x \in Sessions : x # s => flight'[x] = flight[x]
      /\ \A u \in Turns : flight'[s][u] = IF u = t THEN f ELSE flight[s][u]
      BY <1>1, <1>3, <1>4, MoveResult DEF Inv
<1>6. Typed'
      BY <1>5 DEF Inv, Typed, Load
<1>7. ASSUME NEW x \in Sessions, x # s PROVE SessionInv(x)'
      BY <1>5, <1>7, Frame DEF Inv, IInv, SessionInv, Load
<1>8. SessionInv(s)'
  <2>1. TurnOrder(s)' /\ RowIsCut(s)' /\ CacheIsHonest(s)'
        BY <1>1 DEF SessionInv, TurnOrder, RowIsCut, CacheIsHonest, Honest, Load
  <2>2. CommitsAreHonest(s)'
        BY <1>1, <1>3, <1>5 DEF SessionInv, CommitsAreHonest, Honest, Load
  <2>3. row[s] # None => f.mem \in Rememberable(row[s], f.scope) /\ Asked(f.mem) = {}
    <3> SUFFICES ASSUME row[s] # None
                 PROVE  f.mem \in Rememberable(row[s], f.scope) /\ Asked(f.mem) = {}
        OBVIOUS
    <3>1. row[s].mem = Durable(row[s].whole)
          BY <1>1 DEF SessionInv, RowIsCut
    <3>2. Asked(Durable(row[s].whole)) = {}
          BY DEF Asked, Durable, Empty
    <3> QED BY <1>2, <1>3, <3>1, <3>2 DEF Rememberable
  <2>4. Asked(f.mem) = {}
        BY <1>2, <1>3, <2>3
  <2>5. ActiveTurnKnows(s)'
    <3> SUFFICES ASSUME NEW u \in Turns, active'[s] = u, flight'[s][u] # None,
                        flight'[s][u].phase \in {"loaded", "ready"}
                 PROVE  /\ row'[s] # None => /\ flight'[s][u].base = row'[s].rev
                                             /\ flight'[s][u].mem \in
                                                  Rememberable(row'[s], flight'[s][u].scope)
                        /\ \A p \in Asked(flight'[s][u].mem) :
                             p.turn <= last'[s].turn /\ last'[s].epoch = epoch'
        BY DEF ActiveTurnKnows
    <3>1. row' = row /\ last' = last /\ epoch' = epoch /\ active' = active
          BY DEF Load
    <3>2. CASE u = t
          BY <1>3, <1>5, <2>3, <2>4, <3>1, <3>2
    <3>3. CASE u # t
          BY <1>1, <1>5, <3>1, <3>3 DEF SessionInv, ActiveTurnKnows
    <3> QED BY <3>2, <3>3
  <2> QED BY <2>1, <2>2, <2>5 DEF SessionInv
<1> QED BY <1>6, <1>7, <1>8 DEF Inv, IInv, SessionInv

\* A cache hit gives the active turn the newest memory.
LEMMA ConsultKeeps ==
    ASSUME Inv, NEW s \in Sessions, NEW t \in 1 .. TurnsOf[s], Consult(s, t)
    PROVE  Inv'
<1> DEFINE g == flight[s][t]
<1>1. t \in Turns /\ g \in Flight /\ g.phase = "loaded" /\ SessionInv(s)
      BY TurnsOfAreTurns DEF Inv, IInv, SessionInv, Typed, Consult
<1>2. PICK m \in Memory :
        /\ Move(s, t, [phase |-> "ready", scope |-> g.scope, mem |-> m, base |-> g.base])
        /\ m = g.mem \/ (Usable(s, g.base) /\ m = entry[s].mem)
  <2>1. CASE Usable(s, g.base)
    <3>1. entry[s] \in Entry
          BY <2>1 DEF Usable, Inv, Typed
    <3>2. entry[s].mem \in Memory
          BY <3>1 DEF Entry
    <3>3. Move(s, t, [phase |-> "ready", scope |-> g.scope, mem |-> entry[s].mem, base |-> g.base])
          BY <2>1 DEF Consult
    <3> QED BY <2>1, <3>2, <3>3
  <2>2. CASE ~Usable(s, g.base)
    <3>1. [g EXCEPT !.phase = "ready"]
            = [phase |-> "ready", scope |-> g.scope, mem |-> g.mem, base |-> g.base]
          BY <1>1 DEF Flight
    <3>2. g.mem \in Memory
          BY <1>1 DEF Flight
    <3>3. Move(s, t, [phase |-> "ready", scope |-> g.scope, mem |-> g.mem, base |-> g.base])
          BY <2>2, <3>1 DEF Consult
    <3> QED BY <3>2, <3>3
  <2> QED BY <2>1, <2>2
<1> DEFINE f == [phase |-> "ready", scope |-> g.scope, mem |-> m, base |-> g.base]
<1>3. f \in Flight
      BY <1>1 DEF Flight
<1>4. /\ flight' \in [Sessions -> [Turns -> Flight \cup {None}]]
      /\ \A x \in Sessions : x # s => flight'[x] = flight[x]
      /\ \A u \in Turns : flight'[s][u] = IF u = t THEN f ELSE flight[s][u]
      BY <1>1, <1>2, <1>3, MoveResult DEF Inv
<1>5. /\ entry' \in [Sessions -> Entry \cup {None}]
      /\ \A x \in Sessions : entry'[x] \in {entry[x], None}
      BY DEF Consult, Dropped, Inv, Typed
<1>6. Typed'
      BY <1>4, <1>5 DEF Inv, Typed, Consult
<1>7. ASSUME NEW x \in Sessions, x # s PROVE SessionInv(x)'
      BY <1>4, <1>5, <1>7, Frame DEF Inv, IInv, SessionInv, Consult
<1>8. SessionInv(s)'
  <2>1. /\ active' = active /\ latest' = latest /\ row' = row /\ last' = last
        /\ now' = now /\ epoch' = epoch
        BY DEF Consult
  <2>2. TurnOrder(s)' /\ RowIsCut(s)'
        BY <1>1, <2>1 DEF SessionInv, TurnOrder, RowIsCut
  <2>3. CacheIsHonest(s)'
        BY <1>1, <1>5, <2>1 DEF SessionInv, CacheIsHonest, Honest
  <2>4. CommitsAreHonest(s)'
        BY <1>1, <1>4, <2>1 DEF SessionInv, CommitsAreHonest, Honest
  <2>5. ASSUME active[s] = t
        PROVE  /\ row[s] # None => g.base = row[s].rev /\ m \in Rememberable(row[s], g.scope)
               /\ \A p \in Asked(m) : p.turn <= last[s].turn /\ last[s].epoch = epoch
    <3>1. /\ row[s] # None => g.base = row[s].rev /\ g.mem \in Rememberable(row[s], g.scope)
          /\ \A p \in Asked(g.mem) : p.turn <= last[s].turn /\ last[s].epoch = epoch
          BY <1>1, <2>5 DEF SessionInv, ActiveTurnKnows, Consult
    <3>2. CASE m = g.mem
          BY <3>1, <3>2
    <3>3. CASE Usable(s, g.base) /\ m = entry[s].mem
      <4>1. entry[s] # None /\ entry[s].rev = g.base /\ now - entry[s].at <= Idle
            BY <3>3 DEF Usable
      <4>2. entry[s] \in Entry /\ now \in 0 .. MaxNow
            BY <4>1 DEF Inv, Typed
      <4>3. entry[s].at \in Nat
            BY <4>2 DEF Entry
      <4>4. ~(now - entry[s].at > Idle)
        <5>1. now \in Nat /\ Idle \in Nat
              BY <4>2, MemoryAssumption
        <5> QED BY <4>1, <4>3, <5>1
      <4>5. Honest(s, g.base, m)
            BY <1>1, <3>3, <4>1, <4>4 DEF SessionInv, CacheIsHonest
      <4>6. row[s] # None /\ m = row[s].whole /\ last[s].epoch = epoch
            BY <3>1, <4>5 DEF Honest
      <4>7. \A p \in Asked(m) : p.turn <= last[s].turn
            BY <1>1, <4>6 DEF SessionInv, RowIsCut, TurnOrder
      <4> QED BY <3>1, <4>6, <4>7 DEF Rememberable
    <3> QED BY <1>2, <3>2, <3>3
  <2>6. ActiveTurnKnows(s)'
    <3> SUFFICES ASSUME NEW u \in Turns, active[s] = u, flight'[s][u] # None,
                        flight'[s][u].phase \in {"loaded", "ready"}
                 PROVE  /\ row[s] # None => /\ flight'[s][u].base = row[s].rev
                                            /\ flight'[s][u].mem \in
                                                 Rememberable(row[s], flight'[s][u].scope)
                        /\ \A p \in Asked(flight'[s][u].mem) :
                             p.turn <= last[s].turn /\ last[s].epoch = epoch
        BY <2>1 DEF ActiveTurnKnows
    <3>1. CASE u = t
      <4>1. flight'[s][u] = f
            BY <1>1, <1>4, <3>1
      <4> QED BY <2>5, <3>1, <4>1
    <3>2. CASE u # t
          BY <1>1, <1>4, <3>2 DEF SessionInv, ActiveTurnKnows
    <3> QED BY <3>1, <3>2
  <2> QED BY <2>2, <2>3, <2>4, <2>6 DEF SessionInv
<1> QED BY <1>6, <1>7, <1>8 DEF Inv, IInv, SessionInv

\* A turn that lost leaves nothing behind.
LEMMA LoseKeeps ==
    ASSUME Inv, NEW s \in Sessions, NEW t \in 1 .. TurnsOf[s], Lose(s, t)
    PROVE  Inv'
<1>1. t \in Turns /\ SessionInv(s)
      BY TurnsOfAreTurns DEF Inv, IInv, SessionInv
<1>2. /\ flight' \in [Sessions -> [Turns -> Flight \cup {None}]]
      /\ \A x \in Sessions : x # s => flight'[x] = flight[x]
      /\ \A u \in Turns : flight'[s][u] = IF u = t THEN None ELSE flight[s][u]
      BY <1>1, MoveResult DEF Inv, Lose
<1>3. Typed'
      BY <1>2 DEF Inv, Typed, Lose
<1>4. ASSUME NEW x \in Sessions, x # s PROVE SessionInv(x)'
      BY <1>2, <1>4, Frame DEF Inv, IInv, SessionInv, Lose
<1>5. SessionInv(s)'
  <2>1. TurnOrder(s)' /\ RowIsCut(s)' /\ CacheIsHonest(s)'
        BY <1>1 DEF SessionInv, TurnOrder, RowIsCut, CacheIsHonest, Honest, Lose
  <2>2. CommitsAreHonest(s)' /\ ActiveTurnKnows(s)'
        BY <1>1, <1>2 DEF SessionInv, CommitsAreHonest, ActiveTurnKnows, Honest, Lose
  <2> QED BY <2>1, <2>2 DEF SessionInv
<1> QED BY <1>3, <1>4, <1>5 DEF Inv, IInv, SessionInv

\* What is put is the newest memory or one whose revision says that it is not.
LEMMA PutKeeps ==
    ASSUME Inv, NEW s \in Sessions, NEW t \in 1 .. TurnsOf[s], Put(s, t)
    PROVE  Inv'
<1> DEFINE g == flight[s][t]
           e == [rev |-> g.base, mem |-> g.mem, at |-> now]
<1>1. t \in Turns /\ SessionInv(s)
      BY TurnsOfAreTurns DEF Inv, IInv, SessionInv
<1>2. g \in Flight /\ g # None /\ g.phase = "committed"
      BY <1>1 DEF Inv, Typed, Put
<1>3. e \in Entry /\ now \in Nat
      BY <1>2 DEF Entry, Flight, Inv, Typed
<1>4. /\ flight' \in [Sessions -> [Turns -> Flight \cup {None}]]
      /\ \A x \in Sessions : x # s => flight'[x] = flight[x]
      /\ \A u \in Turns : flight'[s][u] = IF u = t THEN None ELSE flight[s][u]
      BY <1>1, MoveResult DEF Inv, Put
<1>5. /\ entry' \in [Sessions -> Entry \cup {None}]
      /\ \A x \in Sessions : x # s => entry'[x] \in {entry[x], None}
      /\ entry'[s] \in {e, None}
      BY <1>3 DEF Put, CachePut, Inv, Typed
<1> HIDE DEF e
<1>6. Typed'
      BY <1>4, <1>5 DEF Inv, Typed, Put
<1>7. ASSUME NEW x \in Sessions, x # s PROVE SessionInv(x)'
      BY <1>4, <1>5, <1>7, Frame DEF Inv, IInv, SessionInv, Put
<1>8. SessionInv(s)'
  <2>1. TurnOrder(s)' /\ RowIsCut(s)'
        BY <1>1 DEF SessionInv, TurnOrder, RowIsCut, Put
  <2>2. Honest(s, g.base, g.mem) /\ row[s].at = now
        BY <1>1, <1>2 DEF SessionInv, CommitsAreHonest
  <2>3. e.rev = g.base /\ e.mem = g.mem /\ e.at = now
        BY DEF e
  <2>4. CacheIsHonest(s)'
        BY <1>3, <1>5, <2>2, <2>3 DEF CacheIsHonest, Honest, Put
  <2>5. CommitsAreHonest(s)' /\ ActiveTurnKnows(s)'
        BY <1>1, <1>4 DEF SessionInv, CommitsAreHonest, ActiveTurnKnows, Honest, Put
  <2> QED BY <2>1, <2>4, <2>5 DEF SessionInv
<1> QED BY <1>6, <1>7, <1>8 DEF Inv, IInv, SessionInv

\* Retention outlasts every cached memory of the row it deletes.
LEMMA PruneKeeps ==
    ASSUME Inv, NEW s \in Sessions, Prune(s)
    PROVE  Inv'
<1>1. Typed'
      BY DEF Inv, Typed, Prune
<1>2. ASSUME NEW x \in Sessions, x # s PROVE SessionInv(x)'
      BY <1>2, Frame DEF Inv, IInv, SessionInv, Prune, Typed
<1>3. SessionInv(s)'
  <2>1. SessionInv(s) /\ row'[s] = None /\ row[s] \in Row /\ now - row[s].at > Retention
        BY DEF Inv, IInv, SessionInv, Prune, Typed
  <2>2. row[s].at \in Nat /\ now \in Nat /\ Idle \in Nat /\ Retention \in Nat /\ Idle <= Retention
        BY <2>1, MemoryAssumption DEF Row, Inv, Typed
  <2>3. TurnOrder(s)' /\ RowIsCut(s)'
        BY <2>1 DEF SessionInv, TurnOrder, RowIsCut, Prune
  <2>4. entry[s] # None => now - entry[s].at > Idle
    <3> SUFFICES ASSUME entry[s] # None PROVE now - entry[s].at > Idle
        OBVIOUS
    <3>1. entry[s] \in Entry
          BY DEF Inv, Typed
    <3>2. entry[s].at \in Nat
          BY <3>1 DEF Entry
    <3> QED BY <2>1, <2>2, <3>2 DEF SessionInv, CacheIsHonest
  <2>5. CacheIsHonest(s)'
        BY <2>4 DEF CacheIsHonest, Prune
  <2>6. row[s].at # now
        BY <2>1, <2>2
  <2>7. CommitsAreHonest(s)'
        BY <2>1, <2>6 DEF SessionInv, CommitsAreHonest, Prune
  <2>8. ActiveTurnKnows(s)'
        BY <2>1 DEF SessionInv, ActiveTurnKnows, Prune
  <2> QED BY <2>3, <2>5, <2>7, <2>8 DEF SessionInv
<1> QED BY <1>1, <1>2, <1>3 DEF Inv, IInv, SessionInv

\* A restart keeps the row and drops whatever could contradict it.
LEMMA RestartKeeps ==
    ASSUME Inv, Restart
    PROVE  Inv'
<1>1. Typed'
      BY MemoryAssumption DEF Inv, Typed, Restart
<1>2. ASSUME NEW s \in Sessions PROVE SessionInv(s)'
  <2>1. SessionInv(s) /\ entry'[s] = None /\ \A u \in Turns : flight'[s][u] = None
        BY DEF Inv, IInv, SessionInv, Restart
  <2>2. TurnOrder(s)' /\ RowIsCut(s)'
        BY <2>1 DEF SessionInv, TurnOrder, RowIsCut, Restart
  <2> QED BY <2>1, <2>2 DEF SessionInv, CacheIsHonest, CommitsAreHonest, ActiveTurnKnows
<1> QED BY <1>1, <1>2 DEF Inv, IInv, SessionInv

\* Time makes an entry idle, and finds no commit on its way to the cache.
LEMMA TickKeeps ==
    ASSUME Inv, Tick
    PROVE  Inv'
<1>1. Typed'
      BY MemoryAssumption DEF Inv, Typed, Tick
<1>2. ASSUME NEW s \in Sessions PROVE SessionInv(s)'
  <2>1. SessionInv(s) /\ now \in Nat /\ now' = now + 1
        BY DEF Inv, IInv, SessionInv, Tick, Typed
  <2>2. TurnOrder(s)'
        BY <2>1 DEF SessionInv, TurnOrder, Tick
  <2>3. RowIsCut(s)'
    <3>1. row[s] # None => row[s].at \in Nat
          BY DEF Inv, Typed, Row
    <3> QED BY <2>1, <3>1 DEF SessionInv, RowIsCut, Tick
  <2>4. CacheIsHonest(s)'
    <3>1. entry[s] # None => entry[s].at \in Nat
          BY DEF Inv, Typed, Entry
    <3>2. Idle \in Nat
          BY MemoryAssumption
    <3> QED BY <2>1, <3>1, <3>2 DEF SessionInv, CacheIsHonest, Honest, Tick
  <2>5. CommitsAreHonest(s)'
        BY DEF CommitsAreHonest, Tick
  <2>6. ActiveTurnKnows(s)'
        BY <2>1 DEF SessionInv, ActiveTurnKnows, Tick
  <2> QED BY <2>2, <2>3, <2>4, <2>5, <2>6 DEF SessionInv
<1> QED BY <1>1, <1>2 DEF Inv, IInv, SessionInv

-----------------------------------------------------------------------------
(* The commit.                                                             *)

\* What a finalized turn started from and what it made of it.
FinalizedBy(s, t, done) ==
    LET f == flight[s][t]
    IN  /\ f \in Flight /\ f.phase = "ready"
        /\ active[s] = t
        /\ row[s] # None => f.base = row[s].rev /\ f.mem \in Rememberable(row[s], f.scope)
        /\ UpTo(done, t)
        /\ \/ done.asked \in {0, t}
           \/ done.asked = last[s].turn /\ last[s].epoch = epoch
        /\ row' = [row EXCEPT ![s] =
                     [scope |-> f.scope, turn |-> t, rev |-> f.base + 1,
                      mem |-> Durable(done.mem), at |-> now, whole |-> done.mem]]
        /\ Move(s, t, [phase |-> "committed", scope |-> f.scope,
                       mem |-> done.mem, base |-> f.base + 1])
        /\ deed' = IF done.asked = 0 THEN None
                   ELSE [session |-> s, turn |-> t, asked |-> done.asked]

\* A finalized turn read what the row says, and acts on nothing older than the
\* last committed turn.
LEMMA FinalizeResult ==
    ASSUME Inv, NEW s \in Sessions, NEW t \in 1 .. TurnsOf[s], Finalize(s, t)
    PROVE  \E done : FinalizedBy(s, t, done)
<1> DEFINE f == flight[s][t]
<1>1. t \in Turns /\ t \in Nat \ {0}
      BY TurnsOfAreTurns, TurnsArePositive
<1>2. f \in Flight /\ f.phase = "ready" /\ active[s] = t
      BY <1>1 DEF Finalize, MayCommit, Inv, Typed
<1>3. f.mem \in Memory /\ f.scope \in Workspaces /\ f.base \in Nat
      BY <1>2 DEF Flight
<1>4. f # None /\ SessionInv(s)
      BY DEF Finalize, Inv, IInv, SessionInv
<1>5. /\ row[s] # None => f.base = row[s].rev /\ f.mem \in Rememberable(row[s], f.scope)
      /\ \A p \in Asked(f.mem) : p.turn <= last[s].turn /\ last[s].epoch = epoch
      BY <1>1, <1>2, <1>4 DEF SessionInv, ActiveTurnKnows
<1>6. last[s].turn < t /\ last[s].turn \in Nat
  <2>1. last[s] \in [turn : Turns \cup {0}, epoch : 0 .. MaxEpoch]
        BY DEF Inv, Typed
  <2>2. last[s].turn \in Turns \cup {0}
        BY <2>1
  <2>3. last[s].turn < active[s]
        BY <1>1, <1>2, <1>4 DEF SessionInv, TurnOrder
  <2> QED BY <1>2, <2>2, <2>3, TurnsAreNumbers
<1>7. \A p \in Asked(f.mem) : p.turn \in Nat
      BY <1>3, TurnsArePositive DEF Asked, Memory, Confirmation, Question
<1>8. \A p \in Asked(f.mem) : p.turn < t
      BY <1>1, <1>5, <1>6, <1>7
<1>9. PICK done \in TurnOutcomes(f.mem, t, f.scope) :
        /\ row' = [row EXCEPT ![s] =
                     [scope |-> f.scope, turn |-> t, rev |-> f.base + 1,
                      mem |-> Durable(done.mem), at |-> now, whole |-> done.mem]]
        /\ Move(s, t, [phase |-> "committed", scope |-> f.scope,
                       mem |-> done.mem, base |-> f.base + 1])
        /\ deed' = IF done.asked = 0 THEN None
                   ELSE [session |-> s, turn |-> t, asked |-> done.asked]
      BY DEF Finalize
<1>10. /\ UpTo(done, t)
       /\ \/ done.asked \in {0, t}
          \/ \E p \in Asked(f.mem) : done.asked = p.turn /\ done.asked = t - 1
      BY <1>1, <1>3, <1>8, TurnResults
<1>11. (\E p \in Asked(f.mem) : done.asked = p.turn /\ done.asked = t - 1)
         => done.asked = last[s].turn /\ last[s].epoch = epoch
  <2> SUFFICES ASSUME NEW p \in Asked(f.mem), done.asked = p.turn, p.turn = t - 1
               PROVE  done.asked = last[s].turn /\ last[s].epoch = epoch
      OBVIOUS
  <2>1. p.turn \in Nat /\ p.turn <= last[s].turn /\ last[s].epoch = epoch
        BY <1>5, <1>7
  <2> QED BY <1>1, <1>6, <2>1
<1> QED BY <1>2, <1>5, <1>9, <1>10, <1>11 DEF FinalizedBy

\* The row moves to a revision no cached memory has, and the one that will be
\* cached is its own.
LEMMA FinalizeKeeps ==
    ASSUME Inv, NEW s \in Sessions, NEW t \in 1 .. TurnsOf[s], Finalize(s, t)
    PROVE  Inv'
<1>1. t \in Turns /\ t \in Nat \ {0} /\ SessionInv(s)
      BY TurnsOfAreTurns, TurnsArePositive DEF Inv, IInv, SessionInv
<1>2. PICK done : FinalizedBy(s, t, done)
      BY FinalizeResult
<1> DEFINE f == flight[s][t]
           r == [scope |-> f.scope, turn |-> t, rev |-> f.base + 1,
                 mem |-> Durable(done.mem), at |-> now, whole |-> done.mem]
           g == [phase |-> "committed", scope |-> f.scope,
                 mem |-> done.mem, base |-> f.base + 1]
<1>3. /\ f \in Flight /\ f.scope \in Workspaces /\ f.base \in Nat /\ active[s] = t
      /\ done.mem \in Memory
      BY <1>2 DEF FinalizedBy, Flight, UpTo
<1>4. Durable(done.mem) \in Memory
      BY <1>3 DEF Durable, Empty, Memory
<1>5. r \in Row /\ g \in Flight /\ r # None
      BY <1>1, <1>3, <1>4, NoneIsNoRecord DEF Row, Flight, Inv, Typed
<1>6. row' = [row EXCEPT ![s] = r] /\ Move(s, t, g)
      BY <1>2 DEF FinalizedBy
<1>7. /\ row' \in [Sessions -> Row \cup {None}] /\ row'[s] = r
      /\ \A x \in Sessions : x # s => row'[x] = row[x]
      BY <1>5, <1>6 DEF Inv, Typed
<1>8. /\ flight' \in [Sessions -> [Turns -> Flight \cup {None}]]
      /\ \A x \in Sessions : x # s => flight'[x] = flight[x]
      /\ \A u \in Turns : flight'[s][u] = IF u = t THEN g ELSE flight[s][u]
      BY <1>1, <1>5, <1>6, MoveResult DEF Inv
<1>9. /\ active' = [active EXCEPT ![s] = 0]
      /\ last' = [last EXCEPT ![s] = [turn |-> t, epoch |-> epoch]]
      /\ latest' = latest /\ entry' = entry /\ now' = now /\ epoch' = epoch
      BY DEF Finalize
<1>10. active'[s] = 0 /\ last'[s].turn = t /\ last'[s].epoch = epoch
      BY <1>9 DEF Inv, Typed
<1>11. r.turn = t /\ r.rev = f.base + 1 /\ r.mem = Durable(done.mem) /\ r.at = now
       /\ r.whole = done.mem /\ g.phase = "committed" /\ g.mem = done.mem /\ g.base = f.base + 1
      OBVIOUS
<1>12. Typed'
  <2>1. deed' \in Deed \cup {None}
    <3>1. done.asked = 0 \/ done.asked \in Turns
      <4>1. last[s] \in [turn : Turns \cup {0}, epoch : 0 .. MaxEpoch]
            BY DEF Inv, Typed
      <4>2. last[s].turn \in Turns \cup {0}
            BY <4>1
      <4> QED BY <1>1, <1>2, <4>2 DEF FinalizedBy
    <3> QED BY <1>1, <1>2, <3>1 DEF FinalizedBy, Deed
  <2>2. last' \in [Sessions -> [turn : Turns \cup {0}, epoch : 0 .. MaxEpoch]]
        BY <1>1, <1>9 DEF Inv, Typed
  <2> QED BY <1>7, <1>8, <1>9, <2>1, <2>2 DEF Inv, Typed
<1> HIDE DEF r, g
<1>13. ASSUME NEW x \in Sessions, x # s PROVE SessionInv(x)'
      BY <1>7, <1>8, <1>9, <1>13, Frame DEF Inv, IInv, SessionInv, Typed
<1>14. SessionInv(s)'
  <2>1. TurnOrder(s)'
        BY <1>1, <1>3, <1>7, <1>9, <1>10, <1>11 DEF SessionInv, TurnOrder
  <2>2. RowIsCut(s)'
    <3>1. now <= now
          BY DEF Inv, Typed
    <3>2. \A p \in Asked(done.mem) : p.turn <= t
          BY <1>2 DEF FinalizedBy, UpTo
    <3> QED BY <1>7, <1>9, <1>11, <3>1, <3>2 DEF RowIsCut
  <2>3. ASSUME NEW rev \in Nat, NEW mem, Honest(s, rev, mem)
        PROVE  Honest(s, rev, mem)' /\ row[s].rev = f.base
    <3>1. row[s] # None /\ row[s].rev = f.base /\ rev <= row[s].rev
          BY <1>2, <2>3 DEF Honest, FinalizedBy
    <3>2. rev <= f.base + 1 /\ rev # f.base + 1
          BY <1>3, <3>1
    <3> QED BY <1>5, <1>7, <1>11, <3>1, <3>2 DEF Honest
  <2>4. CacheIsHonest(s)'
    <3> SUFFICES ASSUME entry[s] # None, ~(now - entry[s].at > Idle)
                 PROVE  Honest(s, entry[s].rev, entry[s].mem)' /\ entry[s].at <= row'[s].at
        BY <1>9 DEF CacheIsHonest, Honest
    <3>1. Honest(s, entry[s].rev, entry[s].mem) /\ entry[s].at <= row[s].at
          BY <1>1 DEF SessionInv, CacheIsHonest
    <3>2. entry[s] \in Entry /\ row[s] \in Row
          BY <3>1 DEF Inv, Typed, Honest
    <3>3. entry[s].rev \in Nat /\ entry[s].at \in Nat /\ row[s].at \in Nat
          BY <3>2 DEF Entry, Row
    <3>4. now \in Nat
          BY DEF Inv, Typed
    <3>5. row[s].at <= now
          BY <1>1, <3>1 DEF SessionInv, RowIsCut, Honest
    <3>6. entry[s].at <= now
          BY <3>1, <3>3, <3>4, <3>5
    <3>7. Honest(s, entry[s].rev, entry[s].mem)'
      <4>1. (Honest(s, entry[s].rev, entry[s].mem))
            BY <3>1
      <4>2. entry' = entry
            BY <1>9
      <4> QED BY <2>3, <3>3, <4>1, <4>2 DEF Honest
    <3> QED BY <1>7, <1>9, <1>11, <3>6, <3>7
  <2>5. CommitsAreHonest(s)'
    <3> SUFFICES ASSUME NEW u \in Turns, flight'[s][u] # None,
                        flight'[s][u].phase = "committed"
                 PROVE  Honest(s, flight[s][u].base, flight[s][u].mem)' /\ row'[s].at = now'
        BY DEF CommitsAreHonest, Honest
    <3>1. CASE u = t
          BY <1>3, <1>5, <1>7, <1>8, <1>9, <1>10, <1>11, <3>1 DEF Honest
    <3>2. CASE u # t
      <4>1. flight'[s][u] = flight[s][u]
            BY <1>8, <3>2
      <4>2. Honest(s, flight[s][u].base, flight[s][u].mem)
            BY <1>1, <4>1 DEF SessionInv, CommitsAreHonest
      <4>3. flight[s][u].base \in Nat
            BY <4>1 DEF Inv, Typed, Flight
      <4> QED BY <1>7, <1>9, <1>11, <2>3, <4>1, <4>2, <4>3 DEF Honest
    <3> QED BY <3>1, <3>2
  <2>6. ActiveTurnKnows(s)'
        BY <1>10, TurnsArePositive DEF ActiveTurnKnows
  <2> QED BY <2>1, <2>2, <2>4, <2>5, <2>6 DEF SessionInv
<1> QED BY <1>12, <1>13, <1>14 DEF Inv, IInv, SessionInv

-----------------------------------------------------------------------------
(* The results.                                                            *)

\* Every step preserves the invariant.
LEMMA StepKeeps == Inv /\ [Next]_vars => Inv'
<1> SUFFICES ASSUME Inv, [Next]_vars PROVE Inv'
    OBVIOUS
<1>1. CASE UNCHANGED vars
  <2>1. Typed'
        BY <1>1 DEF vars, Inv, Typed
  <2>2. \A s \in Sessions : SessionInv(s)'
        BY <1>1, Frame DEF vars, Inv, IInv, SessionInv
  <2> QED BY <2>1, <2>2 DEF Inv, IInv, SessionInv
<1>2. ASSUME NEW s \in Sessions, NEW t \in 1 .. TurnsOf[s],
             NEW w \in Workspaces, Activate(s, t, w)
      PROVE  Inv'
      BY <1>2, ActivateKeeps
<1>3. ASSUME NEW s \in Sessions, NEW t \in 1 .. TurnsOf[s], Load(s, t)
      PROVE  Inv'
      BY <1>3, LoadKeeps
<1>4. ASSUME NEW s \in Sessions, NEW t \in 1 .. TurnsOf[s], Consult(s, t)
      PROVE  Inv'
      BY <1>4, ConsultKeeps
<1>5. ASSUME NEW s \in Sessions, NEW t \in 1 .. TurnsOf[s], Finalize(s, t)
      PROVE  Inv'
      BY <1>5, FinalizeKeeps
<1>6. ASSUME NEW s \in Sessions, NEW t \in 1 .. TurnsOf[s], Lose(s, t)
      PROVE  Inv'
      BY <1>6, LoseKeeps
<1>7. ASSUME NEW s \in Sessions, NEW t \in 1 .. TurnsOf[s], Put(s, t)
      PROVE  Inv'
      BY <1>7, PutKeeps
<1>8. ASSUME NEW s \in Sessions, Deactivate(s) \/ Prune(s)
      PROVE  Inv'
      BY <1>8, DeactivateKeeps, PruneKeeps
<1>9. CASE Restart \/ Tick
      BY <1>9, RestartKeeps, TickKeeps
<1> QED BY <1>1, <1>2, <1>3, <1>4, <1>5, <1>6, <1>7, <1>8, <1>9 DEF Next

\* The inductive invariant holds in every reachable state: what is cached is
\* what was committed, or can be told to be older.
THEOREM MemoryInvariance == Spec => []Inv
BY InitInv, StepKeeps, PTL DEF Spec

\* A step commits a turn, prunes a row, or neither writes a row nor hands out a
\* change.
LEMMA StepSorts ==
    ASSUME Next
    PROVE  \/ \E s \in Sessions : \E t \in 1 .. TurnsOf[s] : Finalize(s, t)
           \/ deed' = None /\ \E s \in Sessions : Prune(s)
           \/ deed' = None /\ row' = row
<1>1. ASSUME NEW s \in Sessions, NEW t \in 1 .. TurnsOf[s],
             \/ \E w \in Workspaces : Activate(s, t, w)
             \/ Load(s, t) \/ Consult(s, t) \/ Lose(s, t) \/ Put(s, t)
      PROVE  deed' = None /\ row' = row
      BY <1>1 DEF Activate, Load, Consult, Lose, Put
<1>2. ASSUME NEW s \in Sessions, Deactivate(s)
      PROVE  deed' = None /\ row' = row
      BY <1>2 DEF Deactivate
<1>3. ASSUME NEW s \in Sessions, Prune(s)
      PROVE  deed' = None
      BY <1>3 DEF Prune
<1>4. CASE Restart \/ Tick
      BY <1>4 DEF Restart, Tick
<1> QED BY <1>1, <1>2, <1>3, <1>4 DEF Next

\* Only the commit of a turn hands out a change.
LEMMA OnlyCommitsAct ==
    ASSUME Inv, Next, deed' # None
    PROVE  \E s \in Sessions : \E t \in Turns : \E done : FinalizedBy(s, t, done)
<1>1. PICK s \in Sessions : \E t \in 1 .. TurnsOf[s] : Finalize(s, t)
      BY StepSorts
<1>2. PICK t \in 1 .. TurnsOf[s] : Finalize(s, t)
      BY <1>1
<1>3. t \in Turns
      BY TurnsOfAreTurns
<1> QED BY <1>2, <1>3, FinalizeResult

\* A row is replaced by another one by a commit only: everything else deletes
\* it or leaves it alone.
LEMMA OnlyCommitsReplace ==
    ASSUME Inv, Next, NEW s \in Sessions, row'[s] # None, row'[s] # row[s]
    PROVE  \E t \in Turns : \E done : FinalizedBy(s, t, done)
<1>1. row \in [Sessions -> Row \cup {None}]
      BY DEF Inv, Typed
<1>2. ASSUME NEW x \in Sessions, Prune(x) PROVE FALSE
      BY <1>1, <1>2 DEF Prune
<1>3. PICK x \in Sessions : \E t \in 1 .. TurnsOf[x] : Finalize(x, t)
      BY <1>2, StepSorts
<1>4. PICK t \in 1 .. TurnsOf[x] : Finalize(x, t)
      BY <1>3
<1>5. PICK done : FinalizedBy(x, t, done)
      BY <1>4, FinalizeResult
<1>6. x = s
      BY <1>1, <1>5 DEF FinalizedBy
<1>7. t \in Turns
      BY TurnsOfAreTurns
<1> QED BY <1>5, <1>6, <1>7

\* A yes never reaches back past the last committed turn, for any number of
\* turns, any loss and any order of commits and puts.
THEOREM YesIsForTheLastQuestion == Spec => YesAnswersTheLastQuestion
<1>1. Inv /\ [Next]_vars
        => [deed' # None /\ deed'.asked # deed'.turn =>
              last[deed'.session].turn = deed'.asked]_vars
  <2> SUFFICES ASSUME Inv, Next, deed' # None, deed'.asked # deed'.turn
               PROVE  last[deed'.session].turn = deed'.asked
      OBVIOUS
  <2>1. PICK s \in Sessions, t \in Turns : \E done : FinalizedBy(s, t, done)
        BY OnlyCommitsAct
  <2>2. PICK done : FinalizedBy(s, t, done)
        BY <2>1
  <2>3. deed' = [session |-> s, turn |-> t, asked |-> done.asked]
        BY <2>2 DEF FinalizedBy
  <2> QED BY <2>2, <2>3 DEF FinalizedBy
<1> QED BY <1>1, MemoryInvariance, PTL DEF Spec, YesAnswersTheLastQuestion

\* Nothing that was pending when a process ended is ever agreed to, wherever
\* the restart falls between the steps of the turns.
THEOREM RestartForgets == Spec => RestartForgetsQuestions
<1>1. Inv /\ [Next]_vars
        => [deed' # None /\ deed'.asked # deed'.turn =>
              last[deed'.session].epoch = epoch]_vars
  <2> SUFFICES ASSUME Inv, Next, deed' # None, deed'.asked # deed'.turn
               PROVE  last[deed'.session].epoch = epoch
      OBVIOUS
  <2>1. PICK s \in Sessions, t \in Turns : \E done : FinalizedBy(s, t, done)
        BY OnlyCommitsAct
  <2>2. PICK done : FinalizedBy(s, t, done)
        BY <2>1
  <2>3. deed' = [session |-> s, turn |-> t, asked |-> done.asked]
        BY <2>2 DEF FinalizedBy
  <2> QED BY <2>2, <2>3 DEF FinalizedBy
<1> QED BY <1>1, MemoryInvariance, PTL DEF Spec, RestartForgetsQuestions

\* A committed turn continues from the memory of the row it replaces, although
\* the cache may have been filled out of order, gone idle, or hold an entry of
\* a row that retention deleted and whose revisions were given out again.
THEOREM MemoryContinues == Spec => MemoryIsContinuous
<1>1. Inv /\ [Next]_vars
        => [\A s \in Sessions :
              Committed(s) /\ row[s] # None =>
                flight[s][row'[s].turn].mem \in Rememberable(row[s], row'[s].scope)]_vars
  <2> SUFFICES ASSUME Inv, Next, NEW s \in Sessions, Committed(s), row[s] # None
               PROVE  flight[s][row'[s].turn].mem \in Rememberable(row[s], row'[s].scope)
      OBVIOUS
  <2>1. PICK t \in Turns : \E done : FinalizedBy(s, t, done)
        BY OnlyCommitsReplace DEF Committed
  <2>2. PICK done : FinalizedBy(s, t, done)
        BY <2>1
  <2>3. row'[s].turn = t /\ row'[s].scope = flight[s][t].scope
        BY <2>2 DEF FinalizedBy, Inv, Typed
  <2> QED BY <2>2, <2>3 DEF FinalizedBy
<1> QED BY <1>1, MemoryInvariance, PTL DEF Spec, MemoryIsContinuous
-----------------------------------------------------------------------------
(* The order of the cache.                                                 *)

\* The order has every cached session once, and no more than the cache may hold.
OrderFits ==
    /\ recent \in Seq(Sessions) /\ IsInjective(recent) /\ Len(recent) <= CacheLimit
    /\ \A s \in Sessions : entry[s] # None <=> s \in Range(recent)

\* A session's entry is taken out of the order, if it has one.
LEMMA WithoutFacts ==
    ASSUME OrderFits, NEW s
    PROVE  /\ Without(s) \in Seq(Sessions) /\ IsInjective(Without(s))
           /\ Range(Without(s)) = Range(recent) \ {s}
           /\ Len(Without(s)) = IF s \in Range(recent) THEN Len(recent) - 1 ELSE Len(recent)
<1> USE DEF OrderFits
<1>1. CASE s \notin Range(recent)
      BY <1>1 DEF Without
<1>2. CASE s \in Range(recent)
  <2> DEFINE i == CHOOSE j \in DOMAIN recent : recent[j] = s
  <2>1. i \in 1 .. Len(recent) /\ recent[i] = s
        BY <1>2, SeqFacts
  <2>2. Without(s) = RemoveAt(recent, i)
        BY <1>2 DEF Without
  <2> HIDE DEF i
  <2>3. /\ RemoveAt(recent, i) \in Seq(Sessions) /\ IsInjective(RemoveAt(recent, i))
        /\ Range(RemoveAt(recent, i)) = Range(recent) \ {recent[i]}
        /\ Len(RemoveAt(recent, i)) = Len(recent) - 1
        BY <2>1, RemoveAtFacts
  <2> QED BY <1>2, <2>1, <2>2, <2>3
<1> QED BY <1>1, <1>2

\* A session's entry becomes the last one to go.
LEMMA MovedFacts ==
    ASSUME OrderFits, NEW s \in Sessions
    PROVE  /\ MovedToEnd(s) \in Seq(Sessions) /\ IsInjective(MovedToEnd(s))
           /\ Range(MovedToEnd(s)) = Range(recent) \cup {s}
           /\ Len(MovedToEnd(s)) = IF s \in Range(recent) THEN Len(recent) ELSE Len(recent) + 1
<1>1. Len(recent) \in Nat
      BY SeqFacts DEF OrderFits
<1>2. /\ Without(s) \in Seq(Sessions) /\ IsInjective(Without(s))
      /\ Range(Without(s)) = Range(recent) \ {s}
      /\ Len(Without(s)) = IF s \in Range(recent) THEN Len(recent) - 1 ELSE Len(recent)
      BY WithoutFacts
<1>3. s \notin Range(Without(s))
      BY <1>2
<1>4. /\ Append(Without(s), s) \in Seq(Sessions) /\ IsInjective(Append(Without(s), s))
      /\ Len(Append(Without(s), s)) = Len(Without(s)) + 1
      /\ Range(Append(Without(s), s)) = Range(Without(s)) \cup {s}
      BY <1>2, <1>3, AppendFacts
<1> QED BY <1>1, <1>2, <1>4 DEF MovedToEnd

\* A new entry pushes the oldest one out, at most.
LEMMA PutKeepsOrder ==
    ASSUME Typed, OrderFits, NEW s \in Sessions, NEW revision, NEW m,
           [rev |-> revision, mem |-> m, at |-> now] \in Entry, CachePut(s, revision, m)
    PROVE  OrderFits'
<1> DEFINE order == MovedToEnd(s)
           e == [rev |-> revision, mem |-> m, at |-> now]
           filled == [entry EXCEPT ![s] = e]
<1>1. /\ recent' = IF Evicted(order) = {} THEN order ELSE Tail(order)
      /\ entry' = [x \in Sessions |-> IF x \in Evicted(order) THEN None ELSE filled[x]]
      BY DEF CachePut
<1>2. /\ order \in Seq(Sessions) /\ IsInjective(order) /\ Range(order) = Range(recent) \cup {s}
      /\ Len(order) \in Nat /\ Len(order) <= CacheLimit + 1 /\ CacheLimit \in Nat \ {0}
  <2>1. Len(recent) \in Nat /\ Len(recent) <= CacheLimit /\ CacheLimit \in Nat \ {0}
        BY SeqFacts, MemoryAssumption DEF OrderFits
  <2>2. /\ order \in Seq(Sessions) /\ IsInjective(order) /\ Range(order) = Range(recent) \cup {s}
        /\ Len(order) = IF s \in Range(recent) THEN Len(recent) ELSE Len(recent) + 1
        BY MovedFacts
  <2> QED BY <2>1, <2>2
<1>3. \A x \in Sessions : filled[x] # None <=> x \in Range(order)
  <2>1. e # None
        BY NoneIsNoRecord
  <2> HIDE DEF e
  <2>2. \A x \in Sessions : filled[x] = IF x = s THEN e ELSE entry[x]
        BY DEF Typed
  <2> HIDE DEF filled, order
  <2> QED BY <1>2, <2>1, <2>2 DEF OrderFits
<1> HIDE DEF order, filled
<1>4. CASE Len(order) <= CacheLimit
  <2>1. Evicted(order) = {}
        BY <1>2, <1>4 DEF Evicted
  <2>2. recent' = order /\ \A x \in Sessions : entry'[x] = filled[x]
        BY <1>1, <2>1
  <2> QED BY <1>2, <1>3, <1>4, <2>2 DEF OrderFits
<1>5. CASE Len(order) = CacheLimit + 1
  <2>1. Evicted(order) = {Head(order)} /\ order # <<>>
        BY <1>2, <1>5, EmptySeq DEF Evicted
  <2>2. /\ recent' = Tail(order)
        /\ \A x \in Sessions : entry'[x] = IF x = Head(order) THEN None ELSE filled[x]
        BY <1>1, <2>1
  <2>3. /\ Tail(order) \in Seq(Sessions) /\ IsInjective(Tail(order))
        /\ Range(Tail(order)) = Range(order) \ {Head(order)} /\ Len(Tail(order)) = Len(order) - 1
        BY <1>2, <2>1, TailFacts
  <2>4. \A x \in Sessions : entry'[x] # None <=> x \in Range(Tail(order))
        BY <1>3, <2>2, <2>3
  <2> QED BY <1>2, <1>5, <2>2, <2>3, <2>4 DEF OrderFits
<1> QED BY <1>2, <1>4, <1>5

\* The order follows the entries.
LEMMA StepOrder == Inv /\ OrderFits /\ [Next]_vars => OrderFits'
<1> SUFFICES ASSUME Inv, OrderFits, [Next]_vars PROVE OrderFits'
    OBVIOUS
<1>1. ASSUME UNCHANGED <<entry, recent>> PROVE OrderFits'
      BY <1>1 DEF OrderFits
<1>2. ASSUME NEW s \in Sessions, NEW t \in 1 .. TurnsOf[s], Consult(s, t)
      PROVE  OrderFits'
  <2>1. CASE Usable(s, flight[s][t].base)
    <3>1. recent' = MovedToEnd(s) /\ entry' = entry /\ s \in Range(recent)
          BY <1>2, <2>1 DEF Consult, Usable, OrderFits
    <3>2. Range(recent') = Range(recent)
          BY <3>1, MovedFacts
    <3> QED BY <3>1, <3>2, MovedFacts DEF OrderFits
  <2>2. CASE ~Usable(s, flight[s][t].base)
    <3>1. recent' = Without(s) /\ entry' = [entry EXCEPT ![s] = None]
          BY <1>2, <2>2 DEF Consult, Dropped
    <3>2. \A x \in Sessions : entry'[x] = IF x = s THEN None ELSE entry[x]
          BY <3>1 DEF Inv, Typed
    <3>3. /\ recent' \in Seq(Sessions) /\ IsInjective(recent') /\ Range(recent') = Range(recent) \ {s}
          /\ Len(recent') = IF s \in Range(recent) THEN Len(recent) - 1 ELSE Len(recent)
          BY <3>1, WithoutFacts
    <3>4. Len(recent) \in Nat /\ CacheLimit \in Nat
          BY SeqFacts, MemoryAssumption DEF OrderFits
    <3> QED BY <3>2, <3>3, <3>4 DEF OrderFits
  <2> QED BY <2>1, <2>2
<1>3. ASSUME NEW s \in Sessions, NEW t \in 1 .. TurnsOf[s], Put(s, t)
      PROVE  OrderFits'
  <2>1. t \in Turns
        BY TurnsOfAreTurns
  <2>2. flight[s][t] \in Flight /\ now \in 0 .. MaxNow
        BY <1>3, <2>1 DEF Inv, Typed, Put
  <2>3. [rev |-> flight[s][t].base, mem |-> flight[s][t].mem, at |-> now] \in Entry
        BY <2>2 DEF Entry, Flight
  <2> QED BY <1>3, <2>3, PutKeepsOrder DEF Put, Inv
<1>4. ASSUME Restart PROVE OrderFits'
  <2>1. recent' = <<>> /\ \A x \in Sessions : entry'[x] = None
        BY <1>4 DEF Restart
  <2>2. /\ <<>> \in Seq(Sessions) /\ Len(<<>>) = 0 /\ 0 <= CacheLimit
        BY EmptySeq, MemoryAssumption
  <2>3. Range(<<>>) = {} /\ IsInjective(<<>>)
        BY DEF Range, IsInjective
  <2> QED BY <2>1, <2>2, <2>3 DEF OrderFits
<1>5. CASE Tick
      BY <1>1, <1>5 DEF Tick
<1>6. CASE UNCHANGED vars
      BY <1>1, <1>6 DEF vars
<1>7. ASSUME NEW s \in Sessions, Deactivate(s) \/ Prune(s)
      PROVE  OrderFits'
      BY <1>1, <1>7 DEF Deactivate, Prune
<1>8. ASSUME NEW s \in Sessions, NEW t \in 1 .. TurnsOf[s],
             Load(s, t) \/ Finalize(s, t) \/ Lose(s, t) \/ \E w \in Workspaces : Activate(s, t, w)
      PROVE  OrderFits'
  <2>1. CASE Load(s, t)
        BY <1>1, <2>1 DEF Load
  <2>2. CASE Finalize(s, t)
        BY <1>1, <2>2 DEF Finalize
  <2>3. CASE Lose(s, t)
        BY <1>1, <2>3 DEF Lose
  <2>4. CASE \E w \in Workspaces : Activate(s, t, w)
        BY <1>1, <2>4 DEF Activate
  <2> QED BY <1>8, <2>1, <2>2, <2>3, <2>4
<1> QED BY <1>2, <1>3, <1>4, <1>5, <1>6, <1>7, <1>8 DEF Next

\* Every variable has its type; the cache holds no more than its limit, and its order lists exactly
\* the sessions that have an entry, whatever is put, found idle, overtaken or evicted.
THEOREM CacheIsOrdered == Spec => []TypeOK
<1>1. Init => OrderFits
  <2> SUFFICES ASSUME Init PROVE OrderFits
      OBVIOUS
  <2>1. recent = <<>> /\ \A x \in Sessions : entry[x] = None
        BY DEF Init
  <2>2. /\ <<>> \in Seq(Sessions) /\ Len(<<>>) = 0 /\ 0 <= CacheLimit
        BY EmptySeq, MemoryAssumption
  <2>3. Range(<<>>) = {} /\ IsInjective(<<>>)
        BY DEF Range, IsInjective
  <2> QED BY <2>1, <2>2, <2>3 DEF OrderFits
<1>2. Inv /\ OrderFits => TypeOK
  <2> SUFFICES ASSUME Inv, OrderFits PROVE TypeOK
      OBVIOUS
  <2>1. \A s \in Sessions : entry[s] # None <=> \E i \in 1 .. Len(recent) : recent[i] = s
        BY SeqFacts DEF OrderFits
  <2> QED BY <2>1 DEF Inv, Typed, OrderFits, TypeOK
<1> QED BY <1>1, StepOrder, <1>2, MemoryInvariance, PTL DEF Spec
===============================================================================
