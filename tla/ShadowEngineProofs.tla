--------------------------- MODULE ShadowEngineProofs ---------------------------
(***************************************************************************)
(* ShadowEngine for any number of sessions and requests, payloads of any   *)
(* size and any limits, one invariant at a time:                           *)
(*   TInv  what the requests, the queue and the worker look like, and that *)
(*         the breaker's single trial is carried by one turn               *)
(*   SInv  the store is in order, and no session loses the trace of a loss *)
(*   QInv  a session with something queued is ready or parked              *)
(*   CInv  every turn is counted once                                      *)
(*   AInv  the accounts are those of what is queued or compared            *)
(*   YInv  the types and limits that are left                              *)
(* TInv stands alone; the others are inductive with it.                    *)
(***************************************************************************)
EXTENDS ShadowEngine, DataLemmas, FiniteSetTheorems, TLAPS

Asked == [session : Sessions, turn : Turns, trial : BOOLEAN]
Active == {"live", "queued", "comparing", "unseen", "missed"}

(* What the requests, the queue and the worker look like, as far as the trial is concerned. *)
Shape ==
    /\ pc \in [Ids -> Where]
    /\ turnOf \in [Ids -> Asked \cup {NoTurn}]
    /\ \A r \in Ids : pc[r] \in Active => turnOf[r] \in Asked
    /\ heaps \in [Sessions -> SUBSET Ids]
    /\ \A s \in Sessions : \A r \in heaps[s] : pc[r] = "queued" /\ turnOf[r].session = s
    /\ ready \in Seq(Sessions) /\ parked \subseteq Sessions
    /\ waits \in [Sessions -> Int]
    /\ breaker \in [forced : BOOLEAN, wait : Int, trial : BOOLEAN, slow : Int, errors : Int]
    /\ worker \in [at : {"idle", "taken", "read", "compared", "failed"}, req : Nat, age : Int]
    /\ worker.at # "idle" => worker.req \in Ids /\ pc[worker.req] = "comparing"

(* The trial is out exactly with the one turn that carries it, until it can no longer matter. *)
TrialHeld ==
    /\ \A q, r \in Trials : q = r
    /\ ~breaker.forced /\ mode # "closed" => (breaker.trial <=> Trials # {})

TInv == Shape /\ TrialHeld

\* The steps, sorted by what they do to the requests: those the controller hears of, and those of a
\* request that finds the switch off.
Steps(r) ==
    \/ BeginClosed(r)
    \/ \E p \in Sent[r] : BeginRefused(r, p[1], p[2]) \/ BeginAdmitted(r, p[1], p[2])
    \/ NoShadow(r) \/ FinishNoEffect(r) \/ FinishLost(r)
    \/ \E size \in Sizes : FinishShed(r, size) \/ FinishQueued(r, size)
UnseenSteps(r) ==
    (\E p \in Sent[r] : BeginUnseen(r, p[1], p[2])) \/ UnseenMissed(r) \/ UnseenLate(r)
Others ==
    \/ FirstController \/ NewEpoch \/ CompareGated \/ CompareReset \/ CompareRead \/ ComparePut \/ CompareFailed
    \/ Tick

LEMMA StepSorts ==
    ASSUME Next
    PROVE \/ \E r \in Ids : Steps(r) \/ UnseenSteps(r)
          \/ TakeNext \/ CompareDone \/ Watch \/ Close \/ Others
BY Zenon DEF Next, Begin, Finish, Steps, UnseenSteps, Others

LEMMA InitTInv == Init => TInv
<1> SUFFICES ASSUME Init PROVE TInv
  OBVIOUS
<1>1. Shape
  <2>1. ready \in Seq(Sessions)
    BY DEF Init
  <2> QED
    BY <2>1 DEF Shape, Init, Closed, Idle, Where, Off, Active
<1>2. Trials = {}
  BY DEF Trials, Init
<1>3. ~breaker.trial
  BY DEF Init, Closed
<1> QED
  BY <1>1, <1>2, <1>3 DEF TInv, TrialHeld

-----------------------------------------------------------------------------
(* The queue of ready sessions, and turns that end.                        *)

LEMMA WokenType ==
    ASSUME NEW rd \in Seq(Sessions), NEW s \in Sessions, NEW hp
    PROVE  Woken(rd, s, hp) \in Seq(Sessions)
BY DEF Woken

\* A turn that is lost, refused or without effect: it is no longer a trial, and its trial is back.
LEMMA EndedTurn ==
    ASSUME TInv, NEW r \in Ids, pc[r] = "live", NEW to \in {"done", "gone"},
           End({r}, to), Resolved(r)
    PROVE  TInv'
<1> USE DEF TInv
<1>1. turnOf[r] \in Asked /\ turnOf[r].session \in Sessions /\ turnOf[r].trial \in BOOLEAN
  BY DEF Shape, Active, Asked
<1>2. /\ breaker' = [breaker EXCEPT !.trial = @ /\ ~turnOf[r].trial]
      /\ UNCHANGED <<heaps, worker, mode, waits>>
  BY DEF Resolved, Released
<1>3. /\ pc' = [q \in Ids |-> IF q = r THEN to ELSE pc[q]]
      /\ turnOf' = [q \in Ids |-> IF q = r THEN NoTurn ELSE turnOf[q]]
  BY DEF End
<1>4. ready' \in Seq(Sessions) /\ parked' \subseteq Sessions
  BY <1>1, WokenType DEF Resolved, Resolve, Shape
<1>5. breaker' \in [forced : BOOLEAN, wait : Int, trial : BOOLEAN, slow : Int, errors : Int]
  BY <1>1, <1>2 DEF Shape
<1>6. Shape'
  BY <1>2, <1>3, <1>4, <1>5 DEF Shape, Where, Active
<1>7. Trials' = Trials \ {r}
  BY <1>3 DEF Trials
<1>8. r \in Trials <=> turnOf[r].trial
  BY DEF Trials
<1>9. breaker'.forced = breaker.forced /\ (breaker'.trial <=> breaker.trial /\ ~turnOf[r].trial)
  BY <1>1, <1>2 DEF Shape
<1> QED
  BY <1>2, <1>6, <1>7, <1>8, <1>9 DEF TrialHeld

\* Steps that only change what the invariant does not read, or shed what is queued.
LEMMA Quiet ==
    ASSUME TInv,
           UNCHANGED <<pc, turnOf, heaps, ready, parked, waits, breaker, worker, mode>>
    PROVE  TInv'
BY DEF TInv, Shape, TrialHeld, Trials

LEMMA RequestStep ==
    ASSUME TInv, NEW r \in Ids, Steps(r)
    PROVE  TInv'
<1>1. CASE BeginClosed(r)
  <2>1. /\ pc[r] = "new"
        /\ pc' = [q \in Ids |-> IF q = r THEN "gone" ELSE pc[q]]
        /\ turnOf' = [q \in Ids |-> IF q = r THEN NoTurn ELSE turnOf[q]]
        /\ UNCHANGED <<heaps, ready, parked, waits, breaker, worker, mode>>
    BY <1>1 DEF BeginClosed, End, Arrives, control
  <2>2. Shape'
    BY <2>1 DEF TInv, Shape, Where, Active
  <2>3. Trials' = Trials
    BY <2>1 DEF Trials
  <2> QED
    BY <2>1, <2>2, <2>3 DEF TInv, TrialHeld
<1>2. CASE \E p \in Sent[r] : BeginRefused(r, p[1], p[2])
  <2>1. /\ pc[r] = "new"
        /\ pc' = [q \in Ids |-> IF q = r THEN "done" ELSE pc[q]]
        /\ turnOf' = [q \in Ids |-> IF q = r THEN NoTurn ELSE turnOf[q]]
        /\ UNCHANGED <<heaps, ready, parked, waits, breaker, worker, mode>>
    BY <1>2 DEF BeginRefused, End, Arrives, control
  <2>2. Shape'
    BY <2>1 DEF TInv, Shape, Where, Active
  <2>3. Trials' = Trials
    BY <2>1 DEF Trials
  <2> QED
    BY <2>1, <2>2, <2>3 DEF TInv, TrialHeld
<1>3. CASE \E p \in Sent[r] : BeginAdmitted(r, p[1], p[2])
  <2>1. PICK p \in Sent[r] : BeginAdmitted(r, p[1], p[2])
    BY <1>3
  <2>2. p[1] \in Sessions /\ p[2] \in Turns
    BY ShadowAssumption DEF Ids, Turns
  <2> DEFINE new == [session |-> p[1], turn |-> p[2], trial |-> Trial(breaker)]
  <2>3. /\ pc[r] = "new" /\ mode = "up" /\ ~Open(breaker)
        /\ pc' = [pc EXCEPT ![r] = "live"]
        /\ turnOf' = [turnOf EXCEPT ![r] = new]
        /\ breaker' = [breaker EXCEPT !.trial = @ \/ Trial(breaker)]
        /\ UNCHANGED <<heaps, ready, parked, waits, worker, mode>>
    BY <2>1 DEF BeginAdmitted, Arrives
  <2>4. new \in Asked
    BY <2>2 DEF Asked, Trial
  <2>5. breaker' \in [forced : BOOLEAN, wait : Int, trial : BOOLEAN, slow : Int, errors : Int]
    BY <2>3 DEF TInv, Shape, Trial
  <2>6. Shape'
    BY <2>3, <2>4, <2>5 DEF TInv, Shape, Where, Active
  <2>7. r \notin Trials /\ Trials' = IF Trial(breaker) THEN Trials \cup {r} ELSE Trials
    BY <2>3 DEF TInv, Shape, Trials
  <2>8. /\ breaker'.forced = breaker.forced
        /\ breaker'.trial <=> (breaker.trial \/ Trial(breaker))
    BY <2>3 DEF TInv, Shape, Trial
  <2>9. Trial(breaker) => ~breaker.forced /\ ~breaker.trial
    BY DEF Trial
  <2> QED
    BY <2>3, <2>6, <2>7, <2>8, <2>9 DEF TInv, TrialHeld
<1>4. CASE NoShadow(r) \/ FinishNoEffect(r) \/ FinishLost(r) \/ \E size \in Sizes : FinishShed(r, size)
  <2>1. pc[r] = "live" /\ Resolved(r) /\ \E to \in {"done", "gone"} : End({r}, to)
    BY <1>4 DEF NoShadow, FinishNoEffect, FinishLost, FinishShed
  <2> QED
    BY <2>1, EndedTurn
<1>5. CASE \E size \in Sizes : FinishQueued(r, size)
  <2> DEFINE s == turnOf[r].session
  <2>1. /\ pc[r] = "live"
        /\ pc' = [pc EXCEPT ![r] = "queued"]
        /\ heaps' = [heaps EXCEPT ![s] = @ \cup {r}]
        /\ parked' = parked \ {s}
        /\ ready' = Woken(ready, s, heaps')
        /\ UNCHANGED <<turnOf, waits, breaker, mode, worker>>
    BY <1>5 DEF FinishQueued, Goes
  <2>2. turnOf[r] \in Asked /\ s \in Sessions
    BY <2>1 DEF TInv, Shape, Active, Asked
  <2>3. ready' \in Seq(Sessions)
    BY <2>1, <2>2, WokenType DEF TInv, Shape
  <2>4. Shape'
    BY <2>1, <2>2, <2>3 DEF TInv, Shape, Where, Active
  <2>5. Trials' = Trials
    BY <2>1 DEF TInv, Shape, Trials
  <2> QED
    BY <2>1, <2>4, <2>5 DEF TInv, TrialHeld
<1> QED
  BY <1>1, <1>2, <1>3, <1>4, <1>5 DEF Steps

\* A request that finds the switch off moves on by itself, and at most overlooks its session.
LEMMA UnseenFacts ==
    ASSUME TInv, NEW r \in Ids, UnseenSteps(r)
    PROVE  /\ UNCHANGED <<sizeOf, regs, heaps, ready, parked, waits, items, bytes, breaker, mode,
                         worker, store, created, counted>>
           /\ pc[r] \in {"new", "unseen"} /\ seenOn' \in {seenOn, FALSE}
           /\ \E to \in {"unseen", "missed", "gone"} :
                pc' = [q \in Ids |-> IF q = r THEN to ELSE pc[q]]
           /\ \E t \in Asked \cup {NoTurn} :
                /\ turnOf' = [q \in Ids |-> IF q = r THEN t ELSE turnOf[q]]
                /\ pc'[r] # "gone" => t \in Asked
           /\ started' = started \/ \E s \in Sessions : Starts(s)
           /\ \/ UNCHANGED <<broken, leaked>>
              \/ \E s \in Sessions : Overlooks({s})
<1>0. pc \in [Ids -> Where] /\ turnOf \in [Ids -> Asked \cup {NoTurn}]
  BY DEF TInv, Shape
<1>1. CASE \E p \in Sent[r] : BeginUnseen(r, p[1], p[2])
  <2>1. PICK p \in Sent[r] : BeginUnseen(r, p[1], p[2])
    BY <1>1
  <2> DEFINE new == [session |-> p[1], turn |-> p[2], trial |-> FALSE]
  <2>2. p[1] \in Sessions /\ p[2] \in Turns
    BY ShadowAssumption DEF Ids, Turns
  <2>3. new \in Asked
    BY <2>2 DEF Asked
  <2>4. /\ pc[r] = "new" /\ seenOn' = FALSE /\ pc' = [pc EXCEPT ![r] = "unseen"]
        /\ turnOf' = [turnOf EXCEPT ![r] = new]
        /\ UNCHANGED <<sizeOf, regs, heaps, ready, parked, waits, items, bytes, breaker, mode,
                      worker, store, created, counted, started, broken, leaked>>
    BY <2>1 DEF BeginUnseen, Arrives, control, history
  <2> HIDE DEF new
  <2>5. /\ pc' = [q \in Ids |-> IF q = r THEN "unseen" ELSE pc[q]]
        /\ turnOf' = [q \in Ids |-> IF q = r THEN new ELSE turnOf[q]]
    BY <1>0, <2>4
  <2> QED
    BY <2>3, <2>4, <2>5
<1>2. ASSUME pc[r] = "unseen" PROVE turnOf[r] \in Asked /\ turnOf[r].session \in Sessions
  BY <1>2 DEF TInv, Shape, Active, Asked
<1>3. CASE UnseenMissed(r)
  <2>1. /\ pc[r] = "unseen" /\ seenOn' = seenOn /\ Starts(turnOf[r].session)
        /\ pc' = [q \in Ids |-> IF q = r THEN "missed" ELSE pc[q]]
        /\ turnOf' = [q \in Ids |-> IF q = r THEN turnOf[r] ELSE turnOf[q]]
        /\ UNCHANGED <<sizeOf, regs, heaps, ready, parked, waits, items, bytes, breaker, mode,
                      worker, store, created, counted, broken, leaked>>
    BY <1>0, <1>3 DEF UnseenMissed, Goes, control, switch, history
  <2> QED
    BY <1>2, <2>1
<1>4. CASE UnseenLate(r)
  <2>1. /\ pc[r] = "unseen" /\ seenOn' = seenOn /\ Starts(turnOf[r].session)
        /\ Overlooks({turnOf[r].session})
        /\ pc' = [q \in Ids |-> IF q = r THEN "gone" ELSE pc[q]]
        /\ turnOf' = [q \in Ids |-> IF q = r THEN NoTurn ELSE turnOf[q]]
        /\ UNCHANGED <<sizeOf, regs, heaps, ready, parked, waits, items, bytes, breaker, mode,
                      worker, store, created, counted>>
    BY <1>4 DEF UnseenLate, End, control, switch
  <2>2. pc'[r] = "gone"
    BY <2>1
  <2> QED
    BY <1>2, <2>1, <2>2
<1> QED
  BY <1>1, <1>3, <1>4 DEF UnseenSteps

LEMMA UnseenStep ==
    ASSUME TInv, NEW r \in Ids, UnseenSteps(r)
    PROVE  TInv'
<1>1. /\ pc[r] \in {"new", "unseen"}
      /\ UNCHANGED <<heaps, ready, parked, waits, breaker, worker, mode>>
  BY UnseenFacts
<1>2. PICK to \in {"unseen", "missed", "gone"} : pc' = [q \in Ids |-> IF q = r THEN to ELSE pc[q]]
  BY UnseenFacts
<1>3. PICK t \in Asked \cup {NoTurn} :
        /\ turnOf' = [q \in Ids |-> IF q = r THEN t ELSE turnOf[q]]
        /\ pc'[r] # "gone" => t \in Asked
  BY UnseenFacts
<1>4. Shape'
  BY <1>1, <1>2, <1>3 DEF TInv, Shape, Where, Active
<1>5. Trials' = Trials
  BY <1>1, <1>2, <1>3 DEF Trials
<1> QED
  BY <1>1, <1>4, <1>5 DEF TInv, TrialHeld

-----------------------------------------------------------------------------
(* The worker and the watchdog.                                            *)

\* Waking the overdue leaves sessions only, and fixes or ends waits.
LEMMA WakesType ==
    ASSUME TInv, NEW woken \in Wakes
    PROVE  woken \in Seq(Sessions)
<1>1. PICK order \in [1 .. Cardinality(Overdue) -> Overdue] : woken = ready \o order
  BY DEF Wakes
<1>2. Overdue \subseteq Sessions
  BY DEF TInv, Shape, Overdue
<1>3. Cardinality(Overdue) \in Nat
  BY <1>2, ShadowAssumption, FS_Subset, FS_CardinalityType
<1>4. order \in Seq(Sessions)
  BY <1>1, <1>2, <1>3
<1> QED
  BY <1>1, <1>4 DEF TInv, Shape

LEMMA DeadlinesType ==
    ASSUME TInv, NEW parks
    PROVE  Deadlines(parks) \in [Sessions -> Int]
BY ShadowAssumption DEF TInv, Shape, Deadlines, Off

LEMMA ParkedType ==
    ASSUME TInv, NEW woken \in Wakes, NEW n \in 1 .. Len(woken) + 1, ParkedBefore(woken, n)
    PROVE  parked' \subseteq Sessions /\ UNCHANGED <<breaker, mode>>
<1>1. woken \in Seq(Sessions)
  BY WakesType
<1>2. \A i \in 1 .. n - 1 : woken[i] \in Sessions
  BY <1>1
<1>3. {woken[i] : i \in 1 .. n - 1} \subseteq Sessions
  BY <1>2
<1>4. parked' = (parked \ Overdue) \cup {woken[i] : i \in 1 .. n - 1}
  BY DEF ParkedBefore
<1>5. UNCHANGED <<breaker, mode>>
  BY DEF ParkedBefore
<1> QED
  BY <1>3, <1>4, <1>5 DEF TInv, Shape

LEMMA TakeStep == TInv /\ TakeNext => TInv'
<1> SUFFICES ASSUME TInv, TakeNext PROVE TInv'
  OBVIOUS
<1>1. CASE TakeItem
  <2>1. PICK woken \in Wakes : \E n \in 1 .. Len(woken) : \E r \in Lowest(woken[n]) : TakeFrom(woken, n, r)
    BY <1>1 DEF TakeItem
  <2>2. PICK n \in 1 .. Len(woken) : \E r \in Lowest(woken[n]) : TakeFrom(woken, n, r)
    BY <2>1
  <2>0. PICK r \in Lowest(woken[n]) : TakeFrom(woken, n, r)
    BY <2>2
  <2> DEFINE s == woken[n]
  <2>3. woken \in Seq(Sessions) /\ s \in Sessions
    BY WakesType
  <2>5. parked' \subseteq Sessions /\ UNCHANGED <<breaker, mode>>
    <3>1. n \in 1 .. Len(woken) + 1 /\ ParkedBefore(woken, n)
      BY <2>0, <2>3 DEF TakeFrom
    <3> QED
      BY <3>1, ParkedType
  <2>6. SubSeq(woken, n + 1, Len(woken)) \in Seq(Sessions)
    BY <2>3
  <2>7. ready' \in Seq(Sessions)
    BY <2>0, <2>3, <2>6, WokenType DEF TakeFrom
  <2>8. r \in Ids /\ pc[r] = "queued" /\ turnOf[r].session = s
    BY <2>3 DEF TInv, Shape, Lowest
  <2>9. waits' \in [Sessions -> Int]
    BY <2>0, <2>3, DeadlinesType DEF Off, TakeFrom
  <2>10. pc' = [pc EXCEPT ![r] = "comparing"] /\ turnOf' = turnOf
    BY <2>0 DEF Goes, TakeFrom
  <2>11. /\ pc' \in [Ids -> Where] /\ pc'[r] = "comparing"
         /\ \A q \in Ids \ {r} : pc'[q] = pc[q]
    BY <2>8, <2>10 DEF TInv, Shape, Where
  <2>12. heaps' \in [Sessions -> SUBSET Ids]
    BY <2>0, <2>3, <2>8 DEF TakeFrom, TInv, Shape
  <2>13. ASSUME NEW t \in Sessions, NEW q \in heaps'[t]
         PROVE  q \in heaps[t] /\ q # r
    <3>1. heaps'[t] = IF t = s THEN heaps[t] \ {r} ELSE heaps[t]
      BY <2>0, <2>3 DEF TakeFrom, TInv, Shape
    <3>2. q \in heaps[t] /\ turnOf[q].session = t
      BY <3>1 DEF TInv, Shape
    <3> QED
      BY <2>8, <3>1, <3>2
  <2>14. worker' \in [at : {"idle", "taken", "read", "compared", "failed"}, req : Nat, age : Int]
    BY <2>0, <2>8 DEF Ids, TakeFrom
  <2>15. turnOf[r] \in Asked
    BY <2>8 DEF TInv, Shape, Active
  <2>18. \A t \in Sessions : \A q \in heaps'[t] : pc'[q] = "queued" /\ turnOf'[q].session = t
    BY <2>10, <2>11, <2>12, <2>13 DEF TInv, Shape
  <2>19. /\ turnOf' \in [Ids -> Asked \cup {NoTurn}]
         /\ \A q \in Ids : pc'[q] \in Active => turnOf'[q] \in Asked
    BY <2>10, <2>11, <2>15 DEF TInv, Shape, Active
  <2>20. worker'.req = r
    BY <2>0 DEF TakeFrom
  <2>16. Shape'
    BY <2>5, <2>7, <2>8, <2>9, <2>11, <2>12, <2>14, <2>18, <2>19, <2>20 DEF TInv, Shape
  <2>17. Trials' = Trials
    BY <2>8, <2>10, <2>11 DEF Trials
  <2> QED
    BY <2>5, <2>16, <2>17 DEF TInv, TrialHeld
<1>2. CASE TakeNone
  <2>1. PICK woken \in Wakes :
          /\ ParkedBefore(woken, Len(woken) + 1)
          /\ waits' = Deadlines(Range(woken))
          /\ ready' = <<>>
          /\ UNCHANGED <<heaps, worker, pc, turnOf>>
    BY <1>2 DEF TakeNone
  <2>2. woken \in Seq(Sessions)
    BY WakesType
  <2>4. parked' \subseteq Sessions /\ UNCHANGED <<breaker, mode>>
    <3>1. Len(woken) + 1 \in 1 .. Len(woken) + 1
      BY <2>2
    <3> QED
      BY <2>1, <3>1, ParkedType
  <2>5. waits' \in [Sessions -> Int] /\ ready' \in Seq(Sessions)
    BY <2>1, DeadlinesType
  <2> QED
    BY <2>1, <2>4, <2>5 DEF TInv, Shape, TrialHeld, Trials
<1> QED
  BY <1>1, <1>2 DEF TakeNext

Breakers == [forced : BOOLEAN, wait : Int, trial : BOOLEAN, slow : Int, errors : Int]

LEMMA RecordedType ==
    ASSUME NEW b \in Breakers, NEW trial \in BOOLEAN, NEW outcome, NEW kept \in Int
    PROVE  /\ Recorded(b, trial, outcome, kept) \in Breakers
           /\ Recorded(b, trial, outcome, kept).forced = b.forced
           /\ Recorded(b, trial, outcome, kept).trial <=> (b.trial /\ ~trial)
<1> DEFINE new == Recorded(b, trial, outcome, kept)
<1>0. Cooling \in Int /\ Off \in Int
  BY ShadowAssumption DEF Off
<1>b. /\ b.forced \in BOOLEAN /\ b.trial \in BOOLEAN
      /\ b.wait \in Int /\ b.slow \in Int /\ b.errors \in Int
  BY DEF Breakers
<1>1. CASE trial /\ outcome = "fast"
  <2>1. new = [forced |-> b.forced, wait |-> Off, trial |-> FALSE, slow |-> 0, errors |-> 0]
    BY <1>1 DEF Recorded, Closed
  <2>2. new \in Breakers
    BY <1>0, <1>b, <2>1 DEF Breakers
  <2>3. new.forced = b.forced /\ ~new.trial
    BY <2>1
  <2> QED
    BY <1>1, <2>2, <2>3
<1>2. CASE trial /\ outcome # "fast"
  <2>1. new = [forced |-> b.forced, wait |-> Cooling, trial |-> FALSE,
               slow |-> b.slow, errors |-> b.errors]
    BY <1>2 DEF Recorded
  <2>2. new \in Breakers
    BY <1>0, <1>b, <2>1 DEF Breakers
  <2>3. new.forced = b.forced /\ ~new.trial
    BY <2>1
  <2> QED
    BY <1>2, <2>2, <2>3
<1>3. CASE ~trial
  <2>1. PICK w \in Int, slow \in Int, errs \in Int :
          new = [forced |-> b.forced, wait |-> w, trial |-> b.trial, slow |-> slow, errors |-> errs]
    <3> DEFINE errs == IF outcome = "error" THEN kept + 1 ELSE b.errors
               slow == IF outcome = "slow" THEN b.slow + 1 ELSE IF outcome = "fast" THEN 0 ELSE b.slow
               opens == /\ b.wait = Off
                        /\ \/ outcome = "error" /\ errs >= ErrorLimit
                           \/ outcome = "slow" /\ slow >= SlowLimit
               w == IF opens THEN Cooling ELSE b.wait
    <3>1. errs \in Int /\ slow \in Int /\ w \in Int
      BY <1>0, <1>b
    <3>2. new = [forced |-> b.forced, wait |-> w, trial |-> b.trial, slow |-> slow, errors |-> errs]
      BY <1>3 DEF Recorded
    <3> HIDE DEF errs, slow, w, new
    <3> QED
      BY <3>1, <3>2
  <2> QED
    BY <1>3, <1>b, <2>1 DEF Breakers
<1> QED
  BY <1>1, <1>2, <1>3

\* The comparison ends: its turn leaves, and with it the trial if the turn carried it.
LEMMA DoneStep == TInv /\ CompareDone => TInv'
<1> SUFFICES ASSUME TInv, CompareDone PROVE TInv'
  OBVIOUS
<1> DEFINE r == worker.req
<1>1. r \in Ids /\ pc[r] = "comparing" /\ turnOf[r] \in Asked
  BY DEF CompareDone, TInv, Shape, Active
<1>2. turnOf[r].session \in Sessions /\ turnOf[r].trial \in BOOLEAN
  BY <1>1 DEF Asked
<1>3. /\ pc' = [q \in Ids |-> IF q = r THEN "done" ELSE pc[q]]
      /\ turnOf' = [q \in Ids |-> IF q = r THEN NoTurn ELSE turnOf[q]]
      /\ worker' = Idle /\ UNCHANGED <<heaps, waits, mode>>
  BY DEF CompareDone, End
<1>4. Resolve(turnOf[r].session, turnOf[r].turn)
  BY DEF CompareDone
<1>5. ready' \in Seq(Sessions) /\ parked' \subseteq Sessions
  BY <1>2, <1>4, WokenType DEF Resolve, TInv, Shape
<1>6. PICK outcome \in {"error", "fast", "slow"}, kept \in 0 .. breaker.errors :
        breaker' = Recorded(breaker, turnOf[r].trial, outcome, kept)
  BY DEF CompareDone
<1>7. kept \in Int
  BY <1>6
<1>8. /\ breaker' \in [forced : BOOLEAN, wait : Int, trial : BOOLEAN, slow : Int, errors : Int]
      /\ breaker'.forced = breaker.forced
      /\ breaker'.trial <=> (breaker.trial /\ ~turnOf[r].trial)
  <2>1. breaker \in Breakers
    BY DEF TInv, Shape, Breakers
  <2>2. /\ breaker' \in Breakers /\ breaker'.forced = breaker.forced
        /\ breaker'.trial <=> (breaker.trial /\ ~turnOf[r].trial)
    BY <1>2, <1>6, <1>7, <2>1, RecordedType
  <2> QED
    BY <2>2 DEF Breakers
<1>9. worker' \in [at : {"idle", "taken", "read", "compared", "failed"}, req : Nat, age : Int]
      /\ worker'.at = "idle"
  BY <1>3 DEF Idle
<1>10. Shape'
  BY <1>1, <1>3, <1>5, <1>8, <1>9 DEF TInv, Shape, Where, Active
<1>11. Trials' = Trials \ {r}
  BY <1>3 DEF Trials
<1>12. r \in Trials <=> turnOf[r].trial
  BY <1>1 DEF Trials
<1> QED
  BY <1>2, <1>3, <1>8, <1>10, <1>11, <1>12 DEF TInv, TrialHeld

\* Shedding the queue keeps the shape, and ends no trial that could still matter.
LEMMA DrainStep ==
    ASSUME TInv, Drain, UNCHANGED worker,
           breaker' \in [forced : BOOLEAN, wait : Int, trial : BOOLEAN, slow : Int, errors : Int],
           breaker'.forced \/ mode' = "closed"
    PROVE  TInv'
<1>1. /\ heaps' = [s \in Sessions |-> {}] /\ ready' = <<>> /\ parked' = {}
      /\ waits' = [s \in Sessions |-> Off]
      /\ pc' = [q \in Ids |-> IF q \in Queued THEN "done" ELSE pc[q]]
      /\ turnOf' = [q \in Ids |-> IF q \in Queued THEN NoTurn ELSE turnOf[q]]
  BY DEF Drain, End
<1>2. ready' \in Seq(Sessions)
  BY <1>1
<1>3. Shape'
  BY <1>1, <1>2 DEF TInv, Shape, Where, Active, Queued, Off
<1>4. Trials' \subseteq Trials
  BY <1>1 DEF Trials, NoTurn
<1> QED
  BY <1>3, <1>4 DEF TInv, TrialHeld

LEMMA WatchStep == TInv /\ (Watch \/ Close) => TInv'
<1> SUFFICES ASSUME TInv, Watch \/ Close PROVE TInv'
  OBVIOUS
<1>1. CASE Watch
  <2>1. breaker' = [breaker EXCEPT !.forced = TRUE] /\ UNCHANGED worker /\ Drain
    BY <1>1 DEF Watch
  <2> QED
    BY <2>1, DrainStep DEF TInv, Shape
<1>2. CASE Close
  <2>1. mode' = "closed" /\ UNCHANGED <<breaker, worker>> /\ Drain
    BY <1>2 DEF Close
  <2> QED
    BY <2>1, DrainStep DEF TInv, Shape
<1> QED
  BY <1>1, <1>2

\* The worker moves on within a comparison.
LEMMA ComparingStep ==
    ASSUME TInv, worker.at # "idle", NEW to \in {"read", "compared", "failed"},
           worker' = [worker EXCEPT !.at = to],
           UNCHANGED <<pc, turnOf, heaps, ready, parked, waits, breaker, mode>>
    PROVE  TInv'
<1>1. /\ worker' \in [at : {"idle", "taken", "read", "compared", "failed"}, req : Nat, age : Int]
      /\ worker'.req = worker.req
  BY DEF TInv, Shape
<1>2. worker.req \in Ids /\ pc[worker.req] = "comparing"
  BY DEF TInv, Shape
<1>3. Shape'
  BY <1>1, <1>2 DEF TInv, Shape
<1> QED
  BY <1>3 DEF TInv, TrialHeld, Trials

LEMMA TickStep == TInv /\ Tick => TInv'
<1> SUFFICES ASSUME TInv, Tick PROVE TInv'
  OBVIOUS
<1>1. UNCHANGED <<pc, turnOf, heaps, ready, parked, mode>>
  BY DEF Tick
<1>2. waits' \in [Sessions -> Int]
  BY DEF Tick, Down, TInv, Shape
<1>3. /\ breaker' \in [forced : BOOLEAN, wait : Int, trial : BOOLEAN, slow : Int, errors : Int]
      /\ breaker'.forced = breaker.forced /\ breaker'.trial = breaker.trial
  <2>1. breaker' = [breaker EXCEPT !.wait = Down(breaker.wait)]
    BY DEF Tick
  <2>2. breaker.wait \in Int /\ Down(breaker.wait) \in Int
    BY DEF Down, TInv, Shape
  <2> HIDE DEF Down
  <2> QED
    BY <2>1, <2>2 DEF TInv, Shape
<1>4. /\ worker' \in [at : {"idle", "taken", "read", "compared", "failed"}, req : Nat, age : Int]
      /\ worker'.at = worker.at /\ worker'.req = worker.req
  <2>1. worker' = worker \/ worker' = [worker EXCEPT !.age = worker.age + 1]
    BY DEF Tick
  <2>2. worker.age + 1 \in Int
    BY DEF TInv, Shape
  <2>3. CASE worker' = worker
    BY <2>3 DEF TInv, Shape
  <2>4. CASE worker' = [worker EXCEPT !.age = worker.age + 1]
    BY <2>2, <2>4 DEF TInv, Shape
  <2> QED
    BY <2>1, <2>3, <2>4
<1> QED
  BY <1>1, <1>2, <1>3, <1>4 DEF TInv, Shape, TrialHeld, Trials

LEMMA OtherStep == TInv /\ Others => TInv'
<1> SUFFICES ASSUME TInv, Others PROVE TInv'
  OBVIOUS
<1>1. CASE FirstController \/ NewEpoch
  <2>1. UNCHANGED <<pc, turnOf, heaps, ready, parked, waits, breaker, worker, mode>>
    BY <1>1 DEF FirstController, NewEpoch, control
  <2> QED
    BY <2>1, Quiet
<1>2. CASE CompareGated \/ CompareReset \/ CompareRead \/ ComparePut \/ CompareFailed
  <2>1. PICK to \in {"read", "compared", "failed"} : worker' = [worker EXCEPT !.at = to]
    BY <1>2 DEF CompareGated, CompareReset, CompareRead, ComparePut, CompareFailed, Comparing
  <2>2. worker.at # "idle" /\ UNCHANGED <<pc, turnOf, heaps, ready, parked, waits, breaker, mode>>
    BY <1>2 DEF CompareGated, CompareReset, CompareRead, ComparePut, CompareFailed, Comparing,
                control
  <2> QED
    BY <2>1, <2>2, ComparingStep
<1>3. CASE Tick
  BY <1>3, TickStep
<1> QED
  BY <1>1, <1>2, <1>3 DEF Others

-----------------------------------------------------------------------------
(* The theorems.                                                           *)

LEMMA StepTInv == TInv /\ [Next]_vars => TInv'
<1> SUFFICES ASSUME TInv, [Next]_vars PROVE TInv'
  OBVIOUS
<1>1. CASE Next
  BY <1>1, StepSorts, RequestStep, UnseenStep, TakeStep, DoneStep, WatchStep, OtherStep
<1>2. CASE UNCHANGED vars
  <2>1. UNCHANGED <<pc, turnOf, heaps, ready, parked, waits, breaker, worker, mode>>
    BY <1>2 DEF vars, control
  <2> QED
    BY <2>1, Quiet
<1> QED
  BY <1>1, <1>2

(* The requests, the queue and the worker keep their shape, and the trial is out exactly with
   the turn that carries it: the inductive invariant of shadow.py's breaker and scheduler. *)
THEOREM ShadowInvariant == Spec => []TInv
BY InitTInv, StepTInv, PTL DEF Spec

(* However many requests there are and however they interleave with the worker, the watchdog,
   close and the clock, at most one turn carries the breaker's trial, and a trial that is out is
   carried by one: the breaker can never wait for a trial that nobody runs. *)
THEOREM OneTrial == Spec => []OneTrialAtMost
<1>1. TInv => OneTrialAtMost
  <2> SUFFICES ASSUME TInv PROVE OneTrialAtMost
    OBVIOUS
  <2>1. Trials = {} \/ \E r \in Trials : Trials = {r}
    BY DEF TInv, TrialHeld
  <2>2. Cardinality(Trials) <= 1
    <3>1. Cardinality({}) = 0
      BY FS_EmptySet
    <3>2. \A r : Cardinality({r}) = 1
      BY FS_Singleton
    <3>3. CASE Trials = {}
      BY <3>1, <3>3
    <3>4. ASSUME NEW r \in Trials, Trials = {r} PROVE Cardinality(Trials) <= 1
      <4>1. Cardinality({r}) = 1
        BY <3>2
      <4> QED
        BY <3>4, <4>1
    <3> QED
      BY <2>1, <3>3, <3>4
  <2> QED
    BY <2>2 DEF OneTrialAtMost, TInv, TrialHeld
<1> QED
  BY <1>1, ShadowInvariant, PTL

(* A session's wait for a lower turn only gets shorter while it lasts: no arrival, no resolution
   and no other session's turn extends it (_deadlines, set when the session first parks). *)
THEOREM WaitsShrink == Spec => WaitsOnlyShrink
<1> DEFINE Kept == \A s \in Sessions : waits[s] # Off /\ waits'[s] # Off => waits'[s] <= waits[s]
<1>1. ASSUME TInv, [Next]_vars PROVE Kept
  <2>1. waits \in [Sessions -> Int]
    BY <1>1 DEF TInv, Shape
  <2>2. CASE waits' = waits
    BY <2>1, <2>2
  <2>3. CASE \A s \in Sessions : waits'[s] = Off
    BY <2>3
  <2>4. CASE Tick
    BY <2>1, <2>4 DEF Tick, Down
  <2>5. ASSUME NEW parks, waits' = Deadlines(parks) PROVE Kept
    BY <2>1, <2>5 DEF Deadlines
  <2>6. ASSUME NEW parks, NEW t, waits' = [Deadlines(parks) EXCEPT ![t] = Off] PROVE Kept
    BY <2>1, <2>6 DEF Deadlines
  <2>7. CASE TakeNext
    BY <2>5, <2>6, <2>7 DEF TakeNext, TakeItem, TakeNone, TakeFrom
  <2>8. CASE Watch \/ Close
    BY <2>3, <2>8 DEF Watch, Close, Drain
  <2>9. ASSUME NEW r \in Ids, Steps(r) PROVE waits' = waits
    BY <2>9 DEF Steps, BeginClosed, BeginRefused, BeginAdmitted, NoShadow,
                FinishNoEffect, FinishLost, FinishShed, FinishQueued, Resolved, control
  <2>13. ASSUME NEW r \in Ids, UnseenSteps(r) PROVE waits' = waits
    BY <1>1, <2>13, UnseenFacts
  <2>10. CASE Others
    BY <2>2, <2>4, <2>10 DEF Others, FirstController, NewEpoch, CompareGated, CompareReset,
                CompareRead, ComparePut, CompareFailed, Comparing, control
  <2>11. CASE CompareDone
    BY <2>2, <2>11 DEF CompareDone
  <2>12. CASE UNCHANGED vars
    BY <2>2, <2>12 DEF vars, control
  <2> QED
    BY <1>1, <2>2, <2>7, <2>8, <2>9, <2>10, <2>11, <2>12, <2>13, StepSorts
<1>2. TInv /\ [Next]_vars => [Kept]_vars
  BY <1>1
<1> QED
  BY <1>2, ShadowInvariant, PTL DEF Spec, WaitsOnlyShrink

-----------------------------------------------------------------------------
(* The store.                                                              *)

(* A store in order: one entry for a session, no more than its limit, marks on entries only. *)
Stores == [order : Seq(Sessions), last : [Sessions -> Nat], reset : SUBSET Sessions,
           buried : SUBSET Sessions]
WellKept(st) ==
    /\ st \in Stores /\ IsInjective(st.order) /\ st.reset \subseteq Entries(st)
    /\ Len(st.order) <= StoreLimit

LEMMA WithoutFacts ==
    ASSUME NEW q \in Seq(Sessions), IsInjective(q), NEW s
    PROVE  /\ Without(q, s) \in Seq(Sessions) /\ IsInjective(Without(q, s))
           /\ Range(Without(q, s)) = Range(q) \ {s}
           /\ Len(Without(q, s)) = IF s \in Range(q) THEN Len(q) - 1 ELSE Len(q)
<1>1. CASE s \notin Range(q)
  BY <1>1 DEF Without
<1>2. CASE s \in Range(q)
  <2> DEFINE i == CHOOSE j \in DOMAIN q : q[j] = s
  <2>1. i \in 1 .. Len(q) /\ q[i] = s
    BY <1>2, SeqFacts
  <2>2. Without(q, s) = RemoveAt(q, i)
    BY <1>2 DEF Without
  <2> HIDE DEF i
  <2>3. /\ RemoveAt(q, i) \in Seq(Sessions) /\ IsInjective(RemoveAt(q, i))
        /\ Range(RemoveAt(q, i)) = Range(q) \ {q[i]}
        /\ Len(RemoveAt(q, i)) = Len(q) - 1
    BY <2>1, RemoveAtFacts
  <2> QED
    BY <1>2, <2>1, <2>2, <2>3
<1> QED
  BY <1>1, <1>2

LEMMA MovedFacts ==
    ASSUME NEW q \in Seq(Sessions), IsInjective(q), NEW s \in Sessions
    PROVE  /\ Moved(q, s) \in Seq(Sessions) /\ IsInjective(Moved(q, s))
           /\ Range(Moved(q, s)) = Range(q) \cup {s}
           /\ s \in Range(q) => Len(Moved(q, s)) = Len(q)
<1> DEFINE w == Without(q, s)
           m == Moved(q, s)
<1>1. /\ w \in Seq(Sessions) /\ IsInjective(w) /\ Range(w) = Range(q) \ {s}
      /\ s \in Range(q) => Len(w) = Len(q) - 1
  BY WithoutFacts
<1>2. m = Append(w, s)
  BY DEF Moved
<1> HIDE DEF w, m
<1>3. /\ m \in Seq(Sessions) /\ Len(m) = Len(w) + 1
      /\ Range(m) = Range(w) \cup {s} /\ IsInjective(m)
  BY <1>1, <1>2, AppendFacts
<1>4. Len(q) \in Nat
  BY LenProperties
<1> QED
  BY <1>1, <1>3, <1>4 DEF m

\* What a store that is too full drops is buried.
LEMMA EvictedFacts ==
    ASSUME NEW st \in Stores, IsInjective(st.order), st.reset \subseteq Entries(st)
    PROVE  \E gone \in SUBSET Entries(st) :
             /\ WellKept(Evicted(st)) /\ Entries(Evicted(st)) = Entries(st) \ gone
             /\ Evicted(st).reset = st.reset \ gone /\ Evicted(st).buried = st.buried \cup gone
<1> DEFINE q == st.order
           over == IF Len(q) > StoreLimit THEN Len(q) - StoreLimit ELSE 0
           gone == Range(SubSeq(q, 1, over))
           rest == SubSeq(q, over + 1, Len(q))
           last == [s \in Sessions |-> IF s \in gone THEN 0 ELSE st.last[s]]
           new == Evicted(st)
<1>0. /\ q \in Seq(Sessions) /\ IsInjective(q) /\ Entries(st) = Range(q)
      /\ st.reset \subseteq Sessions /\ st.buried \subseteq Sessions /\ st.last \in [Sessions -> Nat]
  BY DEF Stores, Entries
<1>1. new = [order |-> rest, last |-> last, reset |-> st.reset \ gone, buried |-> st.buried \cup gone]
  BY DEF Evicted
<1>2. StoreLimit \in Nat \ {0}
  BY ShadowAssumption
<1> HIDE DEF q, new, last
<1>3. /\ Len(q) \in Nat /\ Range(q) \subseteq Sessions
      /\ \A e : e \in Range(q) <=> \E j \in 1 .. Len(q) : q[j] = e
      /\ \A a, b \in 1 .. Len(q) : q[a] = q[b] => a = b
  BY <1>0, SeqFacts
<1>4. over \in 0 .. Len(q) /\ Len(q) - over <= StoreLimit
  BY <1>2, <1>3
<1> HIDE DEF over
<1>5. /\ 1 \in 1 .. Len(q) + 1 /\ over + 1 \in 1 .. Len(q) + 1 /\ Len(q) \in 0 .. Len(q)
      /\ over + 1 <= Len(q) + 1 /\ Len(q) - (over + 1) + 1 = Len(q) - over
  BY <1>3, <1>4
<1>6. \A e : e \in gone <=> \E j \in 1 .. over : q[j] = e
  BY <1>0, <1>4, <1>5, PartFacts
<1>7. /\ rest \in Seq(Sessions) /\ IsInjective(rest)
      /\ Len(rest) = Len(q) - (over + 1) + 1
  BY <1>0, <1>5, PartFacts
<1>8. gone \cup Range(rest) = Range(q) /\ gone \cap Range(rest) = {}
  BY <1>0, <1>4, CutFacts
<1> HIDE DEF gone, rest
<1>9. gone \subseteq Sessions /\ gone \subseteq Range(q)
  BY <1>3, <1>8
<1>10. Range(rest) = Range(q) \ gone
  BY <1>8
<1>11. last \in [Sessions -> Nat]
  BY <1>0 DEF last
<1>13. /\ new.order = rest /\ new.last = last /\ new.reset = st.reset \ gone
       /\ new.buried = st.buried \cup gone
  BY <1>1
<1>14. new \in Stores
  BY <1>0, <1>1, <1>7, <1>9, <1>11 DEF Stores
<1>15. Entries(new) = Entries(st) \ gone
  BY <1>0, <1>10, <1>13 DEF Entries
<1>16. Len(rest) <= StoreLimit
  BY <1>4, <1>5, <1>7
<1>17. WellKept(new)
  BY <1>7, <1>13, <1>14, <1>15, <1>16 DEF WellKept
<1> QED
  BY <1>0, <1>9, <1>13, <1>15, <1>17 DEF new, q

-----------------------------------------------------------------------------
(* What the operations of the store keep.                                  *)

(* From old to new the sessions of Q were marked, and others at most dropped: a mark stays for as
   long as its entry does, and what is dropped leaves a tombstone. *)
Keeps(old, new, Q) ==
    /\ WellKept(new)
    /\ Entries(new) \subseteq Entries(old) \cup Q
    /\ old.buried \subseteq new.buried
    /\ (Entries(old) \cup Q) \ Entries(new) \subseteq new.buried
    /\ (old.reset \cup Q) \cap Entries(new) \subseteq new.reset

LEMMA KeepsNothing ==
    ASSUME NEW st, WellKept(st)
    PROVE  Keeps(st, st, {})
BY DEF Keeps

LEMMA KeepsBoth ==
    ASSUME NEW a, NEW b, NEW c, NEW P, NEW Q, Keeps(a, b, P), Keeps(b, c, Q)
    PROVE  Keeps(a, c, P \cup Q)
BY DEF Keeps

LEMMA WellKeptFacts ==
    ASSUME NEW st, WellKept(st)
    PROVE  /\ st \in Stores /\ st.order \in Seq(Sessions) /\ IsInjective(st.order)
           /\ Entries(st) = Range(st.order) /\ Entries(st) \subseteq Sessions
           /\ st.reset \subseteq Entries(st) /\ st.buried \subseteq Sessions
           /\ st.last \in [Sessions -> Nat] /\ Len(st.order) <= StoreLimit
<1>1. st \in Stores /\ IsInjective(st.order) /\ st.reset \subseteq Entries(st)
      /\ Len(st.order) <= StoreLimit
  BY DEF WellKept
<1>2. st.order \in Seq(Sessions) /\ st.buried \subseteq Sessions /\ st.last \in [Sessions -> Nat]
  BY <1>1 DEF Stores
<1>3. Entries(st) = Range(st.order)
  BY DEF Entries
<1>4. Range(st.order) \subseteq Sessions
  BY <1>2, SeqFacts
<1> QED
  BY <1>1, <1>2, <1>3, <1>4

LEMMA MarkResetKeeps ==
    ASSUME NEW st, WellKept(st), NEW s \in Sessions
    PROVE  Keeps(st, MarkReset(st, s), {s})
<1> DEFINE m == [st EXCEPT !.order = Moved(st.order, s), !.reset = st.reset \cup {s}]
           new == MarkReset(st, s)
<1>1. /\ st \in Stores /\ st.order \in Seq(Sessions) /\ IsInjective(st.order)
      /\ Entries(st) = Range(st.order) /\ Entries(st) \subseteq Sessions
      /\ st.reset \subseteq Entries(st)
  BY WellKeptFacts
<1>2. /\ Moved(st.order, s) \in Seq(Sessions) /\ IsInjective(Moved(st.order, s))
      /\ Range(Moved(st.order, s)) = Range(st.order) \cup {s}
  BY <1>1, MovedFacts
<1>3. new = Evicted(m)
  BY DEF MarkReset
<1>4. /\ m \in Stores /\ m.order = Moved(st.order, s) /\ m.reset = st.reset \cup {s}
      /\ m.buried = st.buried
  BY <1>1, <1>2 DEF Stores
<1> HIDE DEF m, new
<1>5. Entries(m) = Entries(st) \cup {s}
  BY <1>1, <1>2, <1>4 DEF Entries
<1>6. PICK gone \in SUBSET Entries(m) :
        /\ WellKept(new) /\ Entries(new) = Entries(m) \ gone
        /\ new.reset = m.reset \ gone /\ new.buried = m.buried \cup gone
  <2>1. IsInjective(m.order) /\ m.reset \subseteq Entries(m)
    BY <1>1, <1>2, <1>4, <1>5
  <2> QED
    BY <1>3, <1>4, <2>1, EvictedFacts
<1>7. Keeps(st, new, {s})
  BY <1>4, <1>5, <1>6 DEF Keeps
<1> QED
  BY <1>7 DEF new

LEMMA ExpiredKeeps ==
    ASSUME NEW st, WellKept(st), NEW s \in Sessions
    PROVE  Keeps(st, Expired(st, s), {})
<1> DEFINE new == Expired(st, s)
<1>1. /\ st \in Stores /\ st.order \in Seq(Sessions) /\ IsInjective(st.order)
      /\ Entries(st) = Range(st.order) /\ Entries(st) \subseteq Sessions
      /\ st.reset \subseteq Entries(st) /\ st.buried \subseteq Sessions
      /\ st.last \in [Sessions -> Nat] /\ Len(st.order) <= StoreLimit
  BY WellKeptFacts
<1>2. /\ Without(st.order, s) \in Seq(Sessions) /\ IsInjective(Without(st.order, s))
      /\ Range(Without(st.order, s)) = Range(st.order) \ {s}
      /\ Len(Without(st.order, s)) = IF s \in Range(st.order) THEN Len(st.order) - 1 ELSE Len(st.order)
  BY <1>1, WithoutFacts
<1>3. Len(st.order) \in Nat /\ Len(Without(st.order, s)) \in Nat /\ StoreLimit \in Nat
  BY <1>1, <1>2, LenProperties, ShadowAssumption
<1>4. /\ new = [order |-> Without(st.order, s), last |-> [st.last EXCEPT ![s] = 0],
               reset |-> st.reset \ {s}, buried |-> st.buried \cup {s}]
  BY DEF Expired
<1> HIDE DEF new
<1>5. /\ new.order = Without(st.order, s) /\ new.reset = st.reset \ {s}
      /\ new.buried = st.buried \cup {s} /\ new.last \in [Sessions -> Nat]
  BY <1>1, <1>4
<1>6. Entries(new) = Entries(st) \ {s}
  BY <1>1, <1>2, <1>5 DEF Entries
<1>7. new \in Stores
  BY <1>1, <1>2, <1>4, <1>5 DEF Stores
<1>8. WellKept(new)
  BY <1>1, <1>2, <1>3, <1>5, <1>6, <1>7, SMTT(30) DEF WellKept
<1>9. Keeps(st, new, {})
  BY <1>1, <1>5, <1>6, <1>8 DEF Keeps
<1> QED
  BY <1>9 DEF new

LEMMA ResetAllKeeps ==
    ASSUME NEW st, WellKept(st)
    PROVE  /\ Keeps(st, ResetAll(st), Entries(st))
           /\ Entries(ResetAll(st)) = Entries(st) /\ ResetAll(st).reset = Entries(st)
<1> DEFINE new == ResetAll(st)
<1>1. st \in Stores /\ Entries(st) \subseteq Sessions /\ IsInjective(st.order)
      /\ Len(st.order) <= StoreLimit
  BY WellKeptFacts
<1>2. new = [st EXCEPT !.reset = Entries(st)]
  BY DEF ResetAll
<1> HIDE DEF new
<1>3. /\ new \in Stores /\ new.order = st.order /\ new.reset = Entries(st)
      /\ new.buried = st.buried
  BY <1>1, <1>2 DEF Stores
<1>4. Entries(new) = Entries(st)
  BY <1>3 DEF Entries
<1>5. WellKept(new)
  BY <1>1, <1>3, <1>4 DEF WellKept
<1>6. Keeps(st, new, Entries(st))
  BY <1>3, <1>4, <1>5, WellKeptFacts DEF Keeps
<1> QED
  BY <1>3, <1>4, <1>6 DEF new

\* Reading an entry makes it the newest.
LEMMA ReadKeeps ==
    ASSUME NEW st, WellKept(st), NEW s \in Entries(st)
    PROVE  Keeps(st, [st EXCEPT !.order = Moved(@, s)], {})
<1> DEFINE new == [st EXCEPT !.order = Moved(st.order, s)]
<1>1. /\ st \in Stores /\ st.order \in Seq(Sessions) /\ IsInjective(st.order)
      /\ Entries(st) = Range(st.order) /\ s \in Sessions
      /\ st.reset \subseteq Entries(st) /\ Len(st.order) <= StoreLimit
  BY WellKeptFacts
<1>2. /\ Moved(st.order, s) \in Seq(Sessions) /\ IsInjective(Moved(st.order, s))
      /\ Range(Moved(st.order, s)) = Range(st.order)
      /\ Len(Moved(st.order, s)) = Len(st.order)
  <2>1. /\ Moved(st.order, s) \in Seq(Sessions) /\ IsInjective(Moved(st.order, s))
        /\ Range(Moved(st.order, s)) = Range(st.order) \cup {s}
        /\ s \in Range(st.order) => Len(Moved(st.order, s)) = Len(st.order)
    BY <1>1, MovedFacts
  <2>2. s \in Range(st.order)
    BY <1>1
  <2> QED
    BY <2>1, <2>2
<1>3. /\ new \in Stores /\ new.order = Moved(st.order, s) /\ new.reset = st.reset
      /\ new.buried = st.buried
  BY <1>1, <1>2 DEF Stores
<1> HIDE DEF new
<1>4. Entries(new) = Entries(st)
  BY <1>1, <1>2, <1>3 DEF Entries
<1>5. Len(st.order) \in Nat /\ Len(new.order) \in Nat /\ StoreLimit \in Nat
  BY <1>1, <1>2, <1>3, LenProperties, ShadowAssumption
<1>6. WellKept(new)
  BY <1>1, <1>2, <1>3, <1>4, <1>5 DEF WellKept
<1>7. Keeps(st, new, {})
  BY <1>1, <1>3, <1>4, <1>6 DEF Keeps
<1> QED
  BY <1>7 DEF new

\* Writing an entry replaces the mark of its session, and no other mark.
LEMMA PutFacts ==
    ASSUME NEW st, WellKept(st), NEW s \in Sessions, NEW turn \in Nat
    PROVE  LET new == Put(st, s, turn) IN
           /\ WellKept(new) /\ Entries(new) \subseteq Entries(st) \cup {s}
           /\ st.buried \subseteq new.buried
           /\ (Entries(st) \cup {s}) \ Entries(new) \subseteq new.buried
           /\ (st.reset \ {s}) \cap Entries(new) \subseteq new.reset
<1> DEFINE m == [st EXCEPT !.order = Moved(st.order, s), !.last[s] = turn,
                           !.reset = st.reset \ {s}]
           new == Put(st, s, turn)
<1>1. /\ st \in Stores /\ st.order \in Seq(Sessions) /\ IsInjective(st.order)
      /\ Entries(st) = Range(st.order) /\ Entries(st) \subseteq Sessions
      /\ st.reset \subseteq Entries(st) /\ st.last \in [Sessions -> Nat]
  BY WellKeptFacts
<1>2. /\ Moved(st.order, s) \in Seq(Sessions) /\ IsInjective(Moved(st.order, s))
      /\ Range(Moved(st.order, s)) = Range(st.order) \cup {s}
  BY <1>1, MovedFacts
<1>3. new = Evicted(m)
  BY DEF Put
<1>4. /\ m \in Stores /\ m.order = Moved(st.order, s) /\ m.reset = st.reset \ {s}
      /\ m.buried = st.buried
  BY <1>1, <1>2 DEF Stores
<1> HIDE DEF m, new
<1>5. Entries(m) = Entries(st) \cup {s}
  BY <1>1, <1>2, <1>4 DEF Entries
<1>6. PICK gone \in SUBSET Entries(m) :
        /\ WellKept(new) /\ Entries(new) = Entries(m) \ gone
        /\ new.reset = m.reset \ gone /\ new.buried = m.buried \cup gone
  <2>1. IsInjective(m.order) /\ m.reset \subseteq Entries(m)
    BY <1>1, <1>2, <1>4, <1>5
  <2> QED
    BY <1>3, <1>4, <2>1, EvictedFacts
<1> QED
  BY <1>4, <1>5, <1>6 DEF new

-----------------------------------------------------------------------------
(* Several sessions marked one after the other, in whatever order.         *)

Marking(D, h, st, iter) ==
    iter = [d \in SUBSET D |-> IF d = {} THEN st ELSE MarkReset(iter[d \ {Pick(d)}], h[Pick(d)])]

LEMMA MarkingExists ==
    ASSUME NEW D, IsFiniteSet(D), NEW h \in [D -> Sessions], NEW st, WellKept(st)
    PROVE  \E iter : Marking(D, h, st, iter)
<1> DEFINE W == {x \in Stores : WellKept(x)}
           op == [p \in D \X W |-> MarkReset(p[2], h[p[1]])]
<1>1. ASSUME NEW x \in D, NEW v \in W PROVE MarkReset(v, h[x]) \in W
  <2>1. Keeps(v, MarkReset(v, h[x]), {h[x]})
    BY MarkResetKeeps
  <2> QED
    BY <2>1 DEF Keeps, WellKept
<1>2. op \in [D \X W -> W] /\ st \in W
  BY <1>1 DEF WellKept
<1>3. \A x \in D, v \in W : op[<<x, v>>] = MarkReset(v, h[x])
  OBVIOUS
<1> HIDE DEF op, W
<1>4. PICK g \in [SUBSET D -> W] : Folded(D, st, op, g)
  BY <1>2, FoldExists
<1>5. ASSUME NEW d \in SUBSET D, d # {}
      PROVE  op[<<Pick(d), g[d \ {Pick(d)}]>>] = MarkReset(g[d \ {Pick(d)}], h[Pick(d)])
  <2>1. Pick(d) \in D /\ d \ {Pick(d)} \in SUBSET D
    BY <1>5 DEF Pick
  <2>2. g[d \ {Pick(d)}] \in W
    BY <2>1
  <2> QED
    BY <1>3, <2>1, <2>2
<1>6. Marking(D, h, st, g)
  BY <1>4, <1>5 DEF Marking, Folded
<1> QED
  BY <1>6

LEMMA MarkingKeeps ==
    ASSUME NEW D, IsFiniteSet(D), NEW h \in [D -> Sessions], NEW st, WellKept(st),
           NEW iter, Marking(D, h, st, iter)
    PROVE  Keeps(st, iter[D], {h[x] : x \in D})
<1> DEFINE P == {d \in SUBSET D : Keeps(st, iter[d], {h[x] : x \in d})}
<1>1. ASSUME NEW d \in SUBSET D, \A x \in d : d \ {x} \in P PROVE d \in P
  <2>1. iter[d] = IF d = {} THEN st ELSE MarkReset(iter[d \ {Pick(d)}], h[Pick(d)])
    BY DEF Marking
  <2>2. CASE d = {}
    <3>1. {h[x] : x \in d} = {}
      BY <2>2
    <3>2. Keeps(st, iter[d], {})
      BY <2>1, <2>2, KeepsNothing
    <3> QED
      BY <3>1, <3>2
  <2>3. CASE d # {}
    <3> DEFINE p == Pick(d)
               a == iter[d \ {p}]
               Q == {h[x] : x \in d \ {p}}
    <3>1. p \in d /\ p \in D
      BY <2>3 DEF Pick
    <3> HIDE DEF p
    <3>2. Keeps(st, a, Q)
      BY <1>1, <3>1
    <3>3. Keeps(a, MarkReset(a, h[p]), {h[p]})
      <4>1. WellKept(a) /\ h[p] \in Sessions
        BY <3>1, <3>2 DEF Keeps
      <4> QED
        BY <4>1, MarkResetKeeps
    <3>4. iter[d] = MarkReset(a, h[p])
      BY <2>1, <2>3 DEF p
    <3>5. Q \cup {h[p]} = {h[x] : x \in d}
      BY <3>1
    <3> HIDE DEF a, Q
    <3>6. Keeps(st, iter[d], Q \cup {h[p]})
      BY <3>2, <3>3, <3>4, KeepsBoth
    <3> QED
      BY <3>5, <3>6
  <2> QED
    BY <2>2, <2>3
<1>2. SUBSET D \subseteq P
  <2> HIDE DEF P
  <2>1. Inductive(D, P)
    BY <1>1 DEF Inductive
  <2> QED
    BY <2>1, SubsetInduction
<1> QED
  BY <1>2

\* _drain_locked marks every session that had something queued.
LEMMA DrainKeeps ==
    ASSUME NEW st, WellKept(st), \A r \in Queued : turnOf[r].session \in Sessions
    PROVE  Keeps(st, DrainedStore(st), {turnOf[r].session : r \in Queued})
<1> DEFINE h == [r \in Queued |-> turnOf[r].session]
           it == CHOOSE iter : iter = [d \in SUBSET Queued |->
                     IF d = {} THEN st
                     ELSE MarkReset(iter[d \ {CHOOSE x \in d : TRUE}],
                                    turnOf[CHOOSE x \in d : TRUE].session)]
<1>0. h \in [Queued -> Sessions] /\ IsFiniteSet(Queued)
  <2>1. IsFiniteSet(Ids) /\ Queued \in SUBSET Ids
    <3>1. 1 \in Int /\ Requests \in Int
      BY ShadowAssumption
    <3> QED
      BY <3>1, FS_Interval DEF Ids, Queued
  <2> QED
    BY <2>1, FS_Subset
<1>1. ASSUME NEW iter
      PROVE  Marking(Queued, h, st, iter) <=>
             iter = [d \in SUBSET Queued |->
                       IF d = {} THEN st
                       ELSE MarkReset(iter[d \ {Pick(d)}], turnOf[Pick(d)].session)]
  <2>1. \A d \in SUBSET Queued : d # {} => h[Pick(d)] = turnOf[Pick(d)].session
    BY DEF Pick
  <2> HIDE DEF h
  <2> QED
    BY <2>1 DEF Marking
<1>2. \E iter : Marking(Queued, h, st, iter)
  <2> HIDE DEF h
  <2> QED
    BY <1>0, MarkingExists
<1>3. \E iter : iter = [d \in SUBSET Queued |->
                     IF d = {} THEN st
                     ELSE MarkReset(iter[d \ {CHOOSE x \in d : TRUE}],
                                    turnOf[CHOOSE x \in d : TRUE].session)]
  <2> HIDE DEF h
  <2>1. \E iter : iter = [d \in SUBSET Queued |->
                     IF d = {} THEN st
                     ELSE MarkReset(iter[d \ {Pick(d)}], turnOf[Pick(d)].session)]
    BY <1>1, <1>2
  <2> QED
    BY <2>1, Zenon DEF Pick
<1>4. it = [d \in SUBSET Queued |->
              IF d = {} THEN st ELSE MarkReset(it[d \ {Pick(d)}], turnOf[Pick(d)].session)]
  BY <1>3, Zenon DEF Pick
<1>5. DrainedStore(st) = it[Queued]
  BY Zenon DEF DrainedStore, FoldSet, MapThenFoldSet
<1> HIDE DEF it
<1>6. Keeps(st, it[Queued], {h[r] : r \in Queued})
  <2>1. Marking(Queued, h, st, it)
    BY <1>1, <1>4
  <2> HIDE DEF h
  <2> QED
    BY <1>0, <2>1, MarkingKeeps
<1> QED
  BY <1>5, <1>6

\* _next_locked marks the sessions whose deadline has passed.
LEMMA SeqKeeps ==
    ASSUME NEW st, WellKept(st), NEW q \in Seq(Sessions)
    PROVE  Keeps(st, FoldSeq(LAMBDA s, acc : MarkReset(acc, s), st, q), Range(q))
<1> DEFINE it == CHOOSE iter : iter = [d \in SUBSET DOMAIN q |->
                     IF d = {} THEN st
                     ELSE MarkReset(iter[d \ {CHOOSE x \in d : TRUE}], q[CHOOSE x \in d : TRUE])]
<1>0. IsFiniteSet(DOMAIN q) /\ q \in [DOMAIN q -> Sessions]
  <2>1. q \in [1 .. Len(q) -> Sessions] /\ DOMAIN q = 1 .. Len(q) /\ Len(q) \in Int /\ 1 \in Int
    BY LenProperties
  <2> QED
    BY <2>1, FS_Interval
<1>1. \E iter : Marking(DOMAIN q, q, st, iter)
  BY <1>0, MarkingExists
<1>2. Marking(DOMAIN q, q, st, it)
  BY <1>1, Zenon DEF Marking, Pick
<1>3. FoldSeq(LAMBDA s, acc : MarkReset(acc, s), st, q) = it[DOMAIN q]
  BY Zenon DEF FoldSeq, FoldFunction, FoldFunctionOnSet, MapThenFoldSet
<1> HIDE DEF it
<1>4. Keeps(st, it[DOMAIN q], {q[x] : x \in DOMAIN q})
  BY <1>0, <1>2, MarkingKeeps
<1> QED
  BY <1>3, <1>4 DEF Range

-----------------------------------------------------------------------------
(* A loss is remembered.                                                   *)

(* A session that lost a turn is marked while the store has an entry of it; once it has none, the
   tombstone or its epoch says that there was one. *)
LossIsKept ==
    \A s \in broken \ leaked :
        IF s \in Entries(store) THEN s \in store.reset
        ELSE s \in store.buried \/ started[s] = "earlier"

SInv ==
    /\ WellKept(store) /\ started \in [Sessions -> {"no", "epoch", "earlier"}]
    /\ broken \subseteq Sessions /\ LossIsKept

\* A step that marks the sessions which lose a turn, whatever else it drops from the store.
LEMMA MarkingStep ==
    ASSUME SInv, NEW Q \in SUBSET Sessions, Keeps(store, store', Q),
           broken' \subseteq broken \cup Q \cup Dropped(store, store'), leaked \subseteq leaked',
           started' = started \/ \E s \in Sessions : Starts(s)
    PROVE  SInv'
<1>1. started' \in [Sessions -> {"no", "epoch", "earlier"}]
      /\ \A s \in Sessions : started[s] = "earlier" => started'[s] = "earlier"
  BY DEF SInv, Starts
<1>2. Entries(store) \subseteq Sessions
  BY WellKeptFacts DEF SInv
<1>3. broken' \subseteq Sessions
  BY <1>2 DEF SInv, Dropped
<1>4. WellKept(store')
  BY DEF Keeps
<1>5. ASSUME NEW s \in broken', s \notin leaked'
      PROVE  IF s \in Entries(store') THEN s \in (store').reset
             ELSE s \in (store').buried \/ started'[s] = "earlier"
  <2>1. s \in Sessions /\ (s \in broken \/ s \in Q \/ (s \in Entries(store) /\ s \notin Entries(store')))
    BY <1>3, <1>5 DEF Dropped
  <2>2. CASE s \in Entries(store')
    <3>1. s \in Q \/ (s \in broken /\ s \in Entries(store))
      BY <2>1, <2>2 DEF Keeps
    <3>2. s \in Q \/ s \in store.reset
      BY <1>5, <3>1 DEF SInv, LossIsKept
    <3> QED
      BY <2>2, <3>2 DEF Keeps
  <2>3. CASE s \notin Entries(store')
    <3>1. CASE s \in Q \cup Entries(store)
      BY <2>3, <3>1 DEF Keeps
    <3>2. CASE s \notin Q \cup Entries(store)
      <4>1. s \in store.buried \/ started[s] = "earlier"
        BY <1>5, <2>1, <3>2 DEF SInv, LossIsKept
      <4> QED
        BY <1>1, <2>1, <2>3, <4>1 DEF Keeps
    <3> QED
      BY <3>1, <3>2
  <2> QED
    BY <2>2, <2>3
<1>6. LossIsKept'
  BY <1>5 DEF LossIsKept, Entries
<1>7. WellKept(store)'
  BY <1>4 DEF WellKept, Entries
<1> QED
  BY <1>1, <1>3, <1>6, <1>7 DEF SInv

LEMMA LoseStep ==
    ASSUME SInv, NEW s \in Sessions, Lose(s), UNCHANGED leaked,
           started' = started \/ \E t \in Sessions : Starts(t)
    PROVE  SInv'
<1>1. Keeps(store, store', {s})
  BY MarkResetKeeps DEF Lose, SInv
<1>2. broken' \subseteq broken \cup {s} \cup Dropped(store, store')
  BY DEF Lose
<1> QED
  BY <1>1, <1>2, MarkingStep

LEMMA StoreUntouched ==
    ASSUME SInv, UNCHANGED <<store, broken>>, leaked \subseteq leaked',
           started' = started \/ \E s \in Sessions : Starts(s)
    PROVE  SInv'
<1>1. Keeps(store, store', {})
  BY KeepsNothing DEF SInv
<1> QED
  BY <1>1, MarkingStep

\* Turns that nothing marks: their sessions count as leaked.
LEMMA OverlookStep ==
    ASSUME SInv, NEW lost \in SUBSET Sessions, Overlooks(lost), UNCHANGED store,
           started' = started \/ \E s \in Sessions : Starts(s)
    PROVE  SInv'
<1>1. started' \in [Sessions -> {"no", "epoch", "earlier"}]
      /\ \A s \in Sessions : started[s] = "earlier" => started'[s] = "earlier"
  BY DEF SInv, Starts
<1>2. broken' \subseteq Sessions /\ broken' \ leaked' \subseteq broken \ leaked
  BY DEF SInv, Overlooks
<1>3. LossIsKept'
  BY <1>1, <1>2 DEF SInv, LossIsKept, Entries
<1>4. WellKept(store)'
  BY DEF SInv, WellKept, Entries
<1> QED
  BY <1>1, <1>2, <1>3, <1>4 DEF SInv

LEMMA UnseenStepS ==
    ASSUME TInv, SInv, NEW r \in Ids, UnseenSteps(r)
    PROVE  SInv'
<1>1. UNCHANGED store /\ (started' = started \/ \E s \in Sessions : Starts(s))
  BY UnseenFacts
<1>2. UNCHANGED <<broken, leaked>> \/ \E s \in Sessions : Overlooks({s})
  BY UnseenFacts
<1>3. CASE UNCHANGED <<broken, leaked>>
  BY <1>1, <1>3, StoreUntouched
<1>4. ASSUME NEW s \in Sessions, Overlooks({s}) PROVE SInv'
  BY <1>1, <1>4, OverlookStep
<1> QED
  BY <1>2, <1>3, <1>4

LEMMA RequestStepS ==
    ASSUME TInv, SInv, NEW r \in Ids, Steps(r)
    PROVE  SInv'
<1>0. pc[r] = "live" => turnOf[r].session \in Sessions
  BY DEF TInv, Shape, Active, Asked
<1>1. CASE \E p \in Sent[r] : BeginRefused(r, p[1], p[2])
  <2>1. PICK p \in Sent[r] : BeginRefused(r, p[1], p[2])
    BY <1>1
  <2>2. p[1] \in Sessions
    BY ShadowAssumption DEF Ids, Turns
  <2>3. Lose(p[1]) /\ Starts(p[1]) /\ UNCHANGED leaked
    BY <2>1 DEF BeginRefused
  <2> QED
    BY <2>2, <2>3, LoseStep
<1>2. CASE FinishLost(r) \/ \E size \in Sizes : FinishShed(r, size)
  <2>1. /\ pc[r] = "live" /\ Lose(turnOf[r].session) /\ Starts(turnOf[r].session)
        /\ UNCHANGED leaked
    BY <1>2 DEF FinishLost, FinishShed, Resolved
  <2> QED
    BY <1>0, <2>1, LoseStep
<1>3. CASE BeginClosed(r) \/ (\E p \in Sent[r] : BeginAdmitted(r, p[1], p[2]))
           \/ NoShadow(r) \/ FinishNoEffect(r)
  <2>1. UNCHANGED <<store, broken, leaked, started>>
    BY <1>3 DEF BeginClosed, BeginAdmitted, NoShadow, FinishNoEffect, Resolved, history
  <2> QED
    BY <2>1, StoreUntouched
<1>4. CASE \E size \in Sizes : FinishQueued(r, size)
  <2>1. pc[r] = "live" /\ UNCHANGED <<store, broken, leaked>> /\ Starts(turnOf[r].session)
    BY <1>4 DEF FinishQueued, history
  <2> QED
    BY <1>0, <2>1, StoreUntouched
<1> QED
  BY <1>1, <1>2, <1>3, <1>4 DEF Steps

\* The sessions whose wait is over are at the end of those woken, each of them once.
LEMMA WokenFacts ==
    ASSUME TInv, NEW woken \in Wakes
    PROVE  \E order \in Seq(Sessions) :
             /\ woken = ready \o order /\ Range(order) = Overdue /\ IsInjective(order)
             /\ SubSeq(woken, Len(ready) + 1, Len(woken)) = order
<1>1. PICK order \in [1 .. Cardinality(Overdue) -> Overdue] :
        woken = ready \o order /\ Range(order) = Overdue
  BY DEF Wakes
<1>2. Overdue \subseteq Sessions /\ ready \in Seq(Sessions)
  BY DEF TInv, Shape, Overdue
<1>3. IsFiniteSet(Overdue) /\ Cardinality(Overdue) \in Nat
  BY <1>2, ShadowAssumption, FS_Subset, FS_CardinalityType
<1> DEFINE n == Cardinality(Overdue)
<1>4. order \in Seq(Sessions)
  <2>1. order \in [1 .. n -> Sessions]
    BY <1>2
  <2> QED
    BY <1>3, <2>1, FunctionIsSeq
<1>5. IsInjective(order)
  <2>1. order \in Surjection(1 .. n, Overdue)
    BY <1>1 DEF Surjection, Range
  <2>2. IsFiniteSet(1 .. n) /\ Cardinality(1 .. n) = Cardinality(Overdue)
    <3>1. 1 \in Int /\ n \in Int /\ (IF 1 > n THEN 0 ELSE n - 1 + 1) = n
      BY <1>3
    <3>2. IsFiniteSet(1 .. n) /\ Cardinality(1 .. n) = IF 1 > n THEN 0 ELSE n - 1 + 1
      BY <3>1, FS_Interval
    <3> QED
      BY <3>1, <3>2
  <2>3. order \in Injection(1 .. n, Overdue)
    <3> HIDE DEF n
    <3> QED
      BY <2>1, <2>2, FS_SurjSameCardinalityImpliesInj
  <2> QED
    BY <2>3 DEF Injection
<1>6. SubSeq(woken, Len(ready) + 1, Len(woken)) = order
  BY <1>1, <1>2, <1>4, EndOfJoin
<1> QED
  BY <1>1, <1>4, <1>5, <1>6

LEMMA ParkedStepS ==
    ASSUME TInv, SInv, NEW woken \in Wakes, NEW n, ParkedBefore(woken, n)
    PROVE  SInv'
<1> DEFINE late == SubSeq(woken, Len(ready) + 1, Len(woken))
<1>1. late \in Seq(Sessions) /\ Range(late) = Overdue /\ Overdue \subseteq Sessions
  <2>1. PICK order \in Seq(Sessions) : Range(order) = Overdue /\ late = order
    BY WokenFacts
  <2>2. Overdue \subseteq Sessions
    BY DEF TInv, Shape, Overdue
  <2> HIDE DEF late
  <2> QED
    BY <2>1, <2>2
<1>2. /\ store' = FoldSeq(LAMBDA s, acc : MarkReset(acc, s), store, late)
      /\ broken' = broken \cup Overdue \cup Dropped(store, store')
      /\ UNCHANGED <<started, leaked>>
  BY Zenon DEF ParkedBefore
<1> HIDE DEF late
<1>3. WellKept(store)
  BY DEF SInv
<1>4. Keeps(store, FoldSeq(LAMBDA s, acc : MarkReset(acc, s), store, late), Range(late))
  BY <1>1, <1>3, SeqKeeps
<1>5. Keeps(store, store', Overdue)
  BY <1>1, <1>2, <1>4, Zenon
<1>6. broken' \subseteq broken \cup Overdue \cup Dropped(store, store') /\ leaked \subseteq leaked'
      /\ started' = started
  BY <1>2
<1> QED
  BY <1>1, <1>5, <1>6, MarkingStep

LEMMA TakeStepS ==
    ASSUME TInv, SInv, TakeNext
    PROVE  SInv'
<1>1. PICK woken \in Wakes : \E n : ParkedBefore(woken, n)
  <2>1. CASE TakeItem
    BY <2>1 DEF TakeItem, TakeFrom
  <2>2. CASE TakeNone
    BY <2>2 DEF TakeNone
  <2> QED
    BY <2>1, <2>2 DEF TakeNext
<1>2. PICK n : ParkedBefore(woken, n)
  BY <1>1
<1> QED
  BY <1>2, ParkedStepS

\* A comparison writes over the mark of a session only when that counts as leaked.
LEMMA PutStepS ==
    ASSUME TInv, SInv, ComparePut
    PROVE  SInv'
<1> DEFINE s == turnOf[worker.req].session
           t == turnOf[worker.req].turn
<1>1. s \in Sessions /\ t \in Nat
  BY DEF ComparePut, TInv, Shape, Active, Asked, Turns
<1>2. /\ store' = Put(store, s, t) /\ broken' = broken \cup Dropped(store, store')
      /\ leaked' = IF s \in broken THEN leaked \cup {s} ELSE leaked
      /\ UNCHANGED started
  BY DEF ComparePut, Comparing
<1> HIDE DEF s, t
<1>3. WellKept(store) /\ broken \subseteq Sessions
  BY DEF SInv
<1>4. /\ WellKept(store') /\ Entries(store') \subseteq Entries(store) \cup {s}
      /\ store.buried \subseteq (store').buried
      /\ (Entries(store) \cup {s}) \ Entries(store') \subseteq (store').buried
      /\ (store.reset \ {s}) \cap Entries(store') \subseteq (store').reset
  BY <1>1, <1>2, <1>3, PutFacts
<1>5. Entries(store) \subseteq Sessions
  BY <1>3, WellKeptFacts
<1>6. broken' \subseteq Sessions
  BY <1>2, <1>3, <1>5 DEF Dropped
<1>7. ASSUME NEW x \in broken', x \notin leaked'
      PROVE  IF x \in Entries(store') THEN x \in (store').reset
             ELSE x \in (store').buried \/ started'[x] = "earlier"
  <2>1. CASE x \in Entries(store')
    <3>1. x \in broken /\ x \notin leaked /\ x # s
      BY <1>2, <1>7, <2>1 DEF Dropped
    <3>2. x \in Entries(store) /\ x \in store.reset
      BY <1>4, <2>1, <3>1 DEF SInv, LossIsKept
    <3> QED
      BY <1>4, <2>1, <3>1, <3>2
  <2>2. CASE x \notin Entries(store')
    <3>1. CASE x \in Entries(store)
      BY <1>4, <2>2, <3>1
    <3>2. CASE x \notin Entries(store)
      <4>1. x \in broken /\ x \notin leaked
        BY <1>2, <1>7, <3>2 DEF Dropped
      <4>2. x \in store.buried \/ started[x] = "earlier"
        BY <3>2, <4>1 DEF SInv, LossIsKept
      <4> QED
        BY <1>2, <1>4, <2>2, <4>2
    <3> QED
      BY <3>1, <3>2
  <2> QED
    BY <2>1, <2>2
<1>8. LossIsKept'
  BY <1>7 DEF LossIsKept, Entries
<1>9. WellKept(store)'
  BY <1>4 DEF WellKept, Entries
<1> QED
  BY <1>2, <1>6, <1>8, <1>9 DEF SInv

LEMMA CompareStepS ==
    ASSUME TInv, SInv, CompareGated \/ CompareReset \/ CompareRead \/ CompareFailed
    PROVE  SInv'
<1> DEFINE s == turnOf[worker.req].session
<1>1. s \in Sessions /\ WellKept(store)
  BY DEF SInv, CompareGated, CompareReset, CompareRead, CompareFailed, TInv, Shape, Active, Asked
<1>2. CASE CompareGated
  <2>1. /\ UNCHANGED <<store, started>> /\ broken' = broken \cup {s} /\ leaked' = leaked \cup {s}
    BY <1>2 DEF CompareGated, Comparing
  <2>2. broken' \subseteq Sessions /\ WellKept(store)'
    BY <1>1, <2>1 DEF SInv, WellKept, Entries
  <2>3. broken' \ leaked' \subseteq broken \ leaked
    BY <2>1
  <2>4. LossIsKept'
    BY <2>1, <2>3 DEF SInv, LossIsKept, Entries
  <2> QED
    BY <2>1, <2>2, <2>4 DEF SInv
<1>3. CASE CompareReset
  <2>0. PICK st \in {store} \cup (IF s \in Entries(store) THEN {Expired(store, s)} ELSE {}) :
          store' = MarkReset(st, s)
    BY <1>3 DEF CompareReset
  <2>1. Keeps(store, st, {})
    BY <1>1, <2>0, KeepsNothing, ExpiredKeeps
  <2>2. Keeps(st, store', {s})
    <3>1. WellKept(st)
      BY <2>1 DEF Keeps
    <3> QED
      BY <1>1, <2>0, <3>1, MarkResetKeeps
  <2>3. Keeps(store, store', {s})
    <3>1. Keeps(store, store', {} \cup {s})
      BY <2>1, <2>2, KeepsBoth
    <3> QED
      BY <3>1
  <2>4. broken' = broken \cup {s} \cup Dropped(store, store') /\ UNCHANGED <<leaked, started>>
    BY <1>3 DEF CompareReset, Comparing
  <2>5. /\ broken' \subseteq broken \cup {s} \cup Dropped(store, store') /\ leaked \subseteq leaked'
        /\ started' = started
    BY <2>4
  <2> QED
    BY <1>1, <2>3, <2>5, MarkingStep
<1>4. CASE CompareRead
  <2>1. store' = IF s \in Entries(store) THEN [store EXCEPT !.order = Moved(@, s)] ELSE store
    BY <1>4 DEF CompareRead
  <2>2. UNCHANGED <<broken, leaked, started>>
    BY <1>4 DEF CompareRead, history
  <2>3. Keeps(store, store', {})
    <3>1. CASE s \in Entries(store)
      <4>1. Keeps(store, [store EXCEPT !.order = Moved(@, s)], {})
        BY <1>1, <3>1, ReadKeeps
      <4> QED
        BY <2>1, <3>1, <4>1
    <3>2. CASE s \notin Entries(store)
      BY <1>1, <2>1, <3>2, KeepsNothing
    <3> QED
      BY <3>1, <3>2
  <2>4. /\ broken' \subseteq broken \cup {} \cup Dropped(store, store') /\ leaked \subseteq leaked'
        /\ started' = started
    BY <2>2
  <2> QED
    BY <2>3, <2>4, MarkingStep
<1>5. CASE CompareFailed
  <2>1. Lose(s) /\ UNCHANGED <<leaked, started>>
    BY <1>5 DEF CompareFailed, Comparing
  <2> QED
    BY <1>1, <2>1, LoseStep
<1> QED
  BY <1>2, <1>3, <1>4, <1>5

LEMMA DoneStepS ==
    ASSUME SInv, CompareDone
    PROVE  SInv'
<1>1. /\ UNCHANGED <<started, leaked>>
      /\ \/ store' = ResetAll(store) /\ broken' = broken \cup Entries(store)
         \/ store' = store /\ broken' = broken
  BY DEF CompareDone
<1>2. WellKept(store)
  BY DEF SInv
<1>3. CASE store' = ResetAll(store) /\ broken' = broken \cup Entries(store)
  <2>1. Keeps(store, store', Entries(store)) /\ Entries(store) \in SUBSET Sessions
    BY <1>2, <1>3, ResetAllKeeps, WellKeptFacts
  <2>2. broken' \subseteq broken \cup Entries(store) \cup Dropped(store, store')
        /\ leaked \subseteq leaked' /\ started' = started
    BY <1>1, <1>3
  <2> QED
    BY <2>1, <2>2, MarkingStep
<1>4. CASE store' = store /\ broken' = broken
  BY <1>1, <1>4, StoreUntouched
<1> QED
  BY <1>1, <1>3, <1>4

LEMMA DrainStepS ==
    ASSUME TInv, SInv, Watch \/ Close
    PROVE  SInv'
<1> DEFINE Q == {turnOf[r].session : r \in Queued}
<1>1. \A r \in Queued : turnOf[r].session \in Sessions
  BY DEF Queued, TInv, Shape, Active, Asked
<1>2. WellKept(store)
  BY DEF SInv
<1>3. Keeps(store, DrainedStore(store), Q)
  BY <1>1, <1>2, DrainKeeps
<1>4. Q \in SUBSET Sessions
  BY <1>1
<1>5. CASE Watch
  <2> DEFINE mid == DrainedStore(store)
             P == Q \cup Entries(store)
  <2>1. /\ store' = ResetAll(mid) /\ broken' = broken \cup Entries(store) \cup Q
        /\ UNCHANGED <<started, leaked>>
    BY <1>5, Zenon DEF Watch
  <2>2. WellKept(mid) /\ Entries(mid) \subseteq Entries(store) \cup Q
    BY <1>3 DEF Keeps
  <2>3. Keeps(mid, store', Entries(mid)) /\ Entries(store') = Entries(mid)
        /\ (store').reset = Entries(mid)
    BY <2>1, <2>2, ResetAllKeeps
  <2> HIDE DEF mid, Q
  <2>4. Keeps(store, store', P)
    BY <1>3, <2>2, <2>3 DEF Keeps, mid
  <2>5. P \in SUBSET Sessions
    BY <1>2, <1>4, WellKeptFacts
  <2>6. broken' \subseteq broken \cup P \cup Dropped(store, store')
        /\ leaked \subseteq leaked' /\ started' = started
    BY <2>1
  <2> QED
    BY <2>4, <2>5, <2>6, MarkingStep
<1>6. CASE Close
  <2>1. /\ store' = DrainedStore(store) /\ UNCHANGED <<started, leaked>>
        /\ broken' = broken \cup Q \cup Dropped(store, store')
    BY <1>6, Zenon DEF Close
  <2>2. broken' \subseteq broken \cup Q \cup Dropped(store, store')
        /\ leaked \subseteq leaked' /\ started' = started
    BY <2>1
  <2>3. Keeps(store, store', Q)
    BY <1>3, <2>1
  <2> HIDE DEF Q
  <2> QED
    BY <1>4, <2>2, <2>3, MarkingStep
<1> QED
  BY <1>5, <1>6

\* The first controller: turns answered before it was there are marked nowhere.
LEMMA FirstStepS ==
    ASSUME TInv, SInv, FirstController
    PROVE  SInv'
<1> DEFINE lost == {turnOf[r].session : r \in {q \in Ids : pc[q] = "missed"}}
<1>1. lost \in SUBSET Sessions
  BY DEF TInv, Shape, Active, Asked
<1>2. Overlooks(lost) /\ UNCHANGED <<store, started>>
  BY DEF FirstController
<1> HIDE DEF lost
<1> QED
  BY <1>1, <1>2, OverlookStep

\* new_epoch loses every session it knew, and says so of each.
LEMMA EpochStepS ==
    ASSUME SInv, NewEpoch
    PROVE  SInv'
<1>1. /\ store' = ResetAll(store) /\ broken' = {s \in Sessions : started[s] # "no"}
      /\ started' = [s \in Sessions |-> IF started[s] = "no" THEN "no" ELSE "earlier"]
  BY DEF NewEpoch
<1>2. WellKept(store)
  BY DEF SInv
<1>3. Keeps(store, store', Entries(store)) /\ Entries(store') = Entries(store)
      /\ (store').reset = Entries(store)
  BY <1>1, <1>2, ResetAllKeeps
<1>4. WellKept(store)'
  BY <1>3 DEF Keeps, WellKept, Entries
<1>5. LossIsKept'
  BY <1>1, <1>3 DEF LossIsKept, Entries
<1> QED
  BY <1>1, <1>4, <1>5 DEF SInv

LEMMA InitSInv == Init => SInv
<1> SUFFICES ASSUME Init PROVE SInv
  OBVIOUS
<1>1. store = EmptyStore /\ broken = {s \in Sessions : started[s] = "earlier"}
  BY DEF Init
<1>5. started \in [Sessions -> {"no", "epoch", "earlier"}]
  BY DEF Init
<1>2. EmptyStore \in Stores
  BY DEF EmptyStore, Stores
<1>3. Len(EmptyStore.order) <= StoreLimit
  <2>1. Len(<<>>) = 0 /\ EmptyStore.order = <<>> /\ StoreLimit \in Nat
    BY ShadowAssumption DEF EmptyStore
  <2> QED
    BY <2>1
<1>4. IsInjective(EmptyStore.order) /\ EmptyStore.reset \subseteq Entries(EmptyStore)
  BY DEF EmptyStore, IsInjective
<1> QED
  BY <1>1, <1>2, <1>3, <1>4, <1>5 DEF SInv, WellKept, LossIsKept, EmptyStore, Entries, Range

LEMMA StepSInv == TInv /\ SInv /\ [Next]_vars => SInv'
<1> SUFFICES ASSUME TInv, SInv, [Next]_vars PROVE SInv'
  OBVIOUS
<1>1. CASE Tick \/ UNCHANGED vars
  <2>1. UNCHANGED <<store, broken, leaked, started>>
    BY <1>1 DEF Tick, vars, history
  <2>2. leaked \subseteq leaked'
    BY <2>1
  <2> QED
    BY <2>1, <2>2, StoreUntouched
<1>2. CASE Others
  BY <1>1, <1>2, CompareStepS, PutStepS, FirstStepS, EpochStepS DEF Others
<1>3. CASE Next
  BY <1>2, <1>3, StepSorts, RequestStepS, UnseenStepS, TakeStepS, DoneStepS, DrainStepS
<1> QED
  BY <1>1, <1>3

(* A session that lost a turn never loses the trace of it but in the three ways OnlyKnownLeaks
   names, a turn answered before the process had a controller (main.py:219-233) among them: the
   inductive invariant of ShadowMemoryStore's marks, tombstones and epochs. *)
THEOREM LossesAreRemembered == Spec => []SInv
BY InitSInv, StepSInv, ShadowInvariant, PTL DEF Spec

(* The store holds an unmarked memory of a session that lost a turn only through a comparison
   that wrote over the mark, a gate, or a turn taken with the switch off that no epoch covers,
   whatever the store's limit evicts meanwhile. *)
THEOREM LeaksAreKnown == Spec => []OnlyKnownLeaks
<1>1. SInv => OnlyKnownLeaks
  BY DEF SInv, LossIsKept, OnlyKnownLeaks
<1> QED
  BY <1>1, LossesAreRemembered, PTL

(* The new engine answers from a memory that lacks nothing the session lost, but for what leaked
   in those three ways: late turns, evicted entries, older epochs and the sessions of an earlier
   process included. *)
THEOREM AnswersOnWholeContext == Spec => RunsOnWholeContext
<1> DEFINE Whole == worker.at = "taken" /\ worker'.at = "read" =>
              LET s == turnOf[worker.req].session IN s \in broken => s \in leaked
<1>1. ASSUME TInv, SInv, [Next]_vars, worker.at = "taken", worker'.at = "read" PROVE CompareRead
  <2>1. ASSUME NEW r \in Ids, Steps(r) PROVE worker' = worker
    BY <2>1 DEF Steps, BeginClosed, BeginRefused, BeginAdmitted, NoShadow,
                FinishNoEffect, FinishLost, FinishShed, FinishQueued, Resolved
  <2>7. ASSUME NEW r \in Ids, UnseenSteps(r) PROVE worker' = worker
    BY <1>1, <2>7, UnseenFacts
  <2>2. ~TakeNext
    <3>1. TakeNext => CanTake
      BY DEF TakeNext, TakeItem, TakeNone, TakeFrom
    <3> QED
      BY <1>1, <3>1 DEF CanTake
  <2>3. ~CompareDone /\ ~ComparePut
    BY <1>1 DEF CompareDone, ComparePut
  <2>4. Watch \/ Close \/ FirstController \/ NewEpoch \/ UNCHANGED vars
        => worker' = worker
    BY DEF Watch, Close, FirstController, NewEpoch, vars
  <2>5. Tick => worker'.at = worker.at
    <3>1. Tick => worker' = worker \/ worker' = [worker EXCEPT !.age = worker.age + 1]
      BY DEF Tick
    <3> QED
      BY <1>1, <3>1 DEF TInv, Shape
  <2>6. CompareGated \/ CompareReset \/ CompareFailed => worker'.at \in {"compared", "failed"}
    BY <1>1 DEF CompareGated, CompareReset, CompareFailed, Comparing, TInv, Shape
  <2> QED
    BY <1>1, <2>1, <2>2, <2>3, <2>4, <2>5, <2>6, <2>7, StepSorts DEF Others
<1>2. ASSUME TInv, SInv, [Next]_vars PROVE Whole
  <2> SUFFICES ASSUME worker.at = "taken", worker'.at = "read",
                      turnOf[worker.req].session \in broken
               PROVE  turnOf[worker.req].session \in leaked
    OBVIOUS
  <2> DEFINE s == turnOf[worker.req].session
  <2>1. CompareRead
    BY <1>1, <1>2
  <2>2. ~ResetReason(store, s, turnOf[worker.req].turn)
    BY <2>1 DEF CompareRead
  <2>3. IF s \in Entries(store) THEN s \notin store.reset
        ELSE s \notin store.buried /\ started[s] # "earlier"
    BY <2>2 DEF ResetReason
  <2> QED
    BY <1>2, <2>3 DEF SInv, LossIsKept
<1>3. TInv /\ SInv /\ [Next]_vars => [Whole]_vars
  BY <1>2
<1> QED
  BY <1>3, ShadowInvariant, LossesAreRemembered, PTL DEF Spec, RunsOnWholeContext

-----------------------------------------------------------------------------
(* The scheduler knows every session that has something queued.            *)

QInv ==
    /\ IsInjective(ready)
    /\ Range(ready) \cap parked = {}
    /\ Range(ready) \cup parked = {s \in Sessions : heaps[s] # {}}
    /\ \A s \in parked : waits[s] # Off

LEMMA WokenQueue ==
    ASSUME NEW rd \in Seq(Sessions), IsInjective(rd), NEW s \in Sessions, NEW hp
    PROVE  /\ Woken(rd, s, hp) \in Seq(Sessions) /\ IsInjective(Woken(rd, s, hp))
           /\ Range(Woken(rd, s, hp)) = Range(rd) \cup (IF hp[s] # {} THEN {s} ELSE {})
<1>1. CASE s \notin Range(rd) /\ hp[s] # {}
  BY <1>1, AppendFacts DEF Woken
<1>2. CASE ~(s \notin Range(rd) /\ hp[s] # {})
  BY <1>2 DEF Woken
<1> QED
  BY <1>1, <1>2

LEMMA QueueUntouched ==
    ASSUME QInv, UNCHANGED <<heaps, ready, parked, waits>>
    PROVE  QInv'
BY DEF QInv, Range, IsInjective

LEMMA ResolveQ ==
    ASSUME TInv, QInv, NEW s \in Sessions, NEW t, Resolve(s, t), UNCHANGED <<heaps, waits>>
    PROVE  QInv'
<1>1. parked' = parked \ {s} /\ ready' = IF s \in parked THEN Woken(ready, s, heaps) ELSE ready
  BY DEF Resolve
<1>2. ready \in Seq(Sessions) /\ IsInjective(ready)
  BY DEF TInv, Shape, QInv
<1>3. CASE s \in parked
  <2>1. heaps[s] # {}
    BY <1>3 DEF QInv
  <2>2. IsInjective(ready') /\ Range(ready') = Range(ready) \cup {s}
    BY <1>1, <1>2, <1>3, <2>1, WokenQueue
  <2>3. Range(ready') \cap parked' = {} /\ Range(ready') \cup parked' = Range(ready) \cup parked
    BY <1>1, <1>3, <2>2 DEF QInv
  <2>4. /\ IsInjective(ready)' /\ Range(ready)' = Range(ready')
        /\ \A x \in parked' : waits'[x] # Off
    BY <1>1, <2>2 DEF QInv, IsInjective, Range
  <2> QED
    BY <2>3, <2>4 DEF QInv
<1>4. CASE s \notin parked
  <2>1. parked' = parked /\ ready' = ready
    BY <1>1, <1>4
  <2> QED
    BY <2>1, QueueUntouched
<1> QED
  BY <1>3, <1>4

LEMMA QueuedQ ==
    ASSUME TInv, QInv, NEW r \in Ids, NEW size \in Sizes, FinishQueued(r, size)
    PROVE  QInv'
<1> DEFINE s == turnOf[r].session
<1>1. /\ pc[r] = "live" /\ heaps' = [heaps EXCEPT ![s] = @ \cup {r}]
      /\ parked' = parked \ {s} /\ ready' = Woken(ready, s, heaps') /\ UNCHANGED waits
  BY DEF FinishQueued
<1>2. /\ s \in Sessions /\ ready \in Seq(Sessions) /\ IsInjective(ready)
      /\ heaps \in [Sessions -> SUBSET Ids]
  BY <1>1 DEF TInv, Shape, Active, Asked, QInv
<1> HIDE DEF s
<1>3. \A x \in Sessions : heaps'[x] # {} <=> heaps[x] # {} \/ x = s
  BY <1>1, <1>2
<1>4. IsInjective(ready') /\ Range(ready') = Range(ready) \cup {s}
  BY <1>1, <1>2, <1>3, WokenQueue
<1>5. Range(ready') \cap parked' = {} /\ Range(ready') \cup parked' = Range(ready) \cup parked \cup {s}
  BY <1>1, <1>4 DEF QInv
<1>6. Range(ready') \cup parked' = {x \in Sessions : heaps'[x] # {}}
  BY <1>2, <1>3, <1>5 DEF QInv
<1>7. /\ IsInjective(ready)' /\ Range(ready)' = Range(ready')
      /\ \A x \in parked' : waits'[x] # Off
  BY <1>1, <1>4 DEF QInv, IsInjective, Range
<1> QED
  BY <1>5, <1>6, <1>7 DEF QInv

\* What is woken is what is ready and what is overdue, each session once.
LEMMA WokenSet ==
    ASSUME TInv, QInv, NEW woken \in Wakes
    PROVE  /\ woken \in Seq(Sessions) /\ IsInjective(woken) /\ Len(woken) \in Nat
           /\ Range(woken) = Range(ready) \cup Overdue /\ Overdue \subseteq parked
<1>1. PICK order \in Seq(Sessions) :
        woken = ready \o order /\ Range(order) = Overdue /\ IsInjective(order)
  BY WokenFacts
<1>2. Overdue \subseteq parked
  BY DEF Overdue
<1>3. ready \in Seq(Sessions) /\ IsInjective(ready) /\ Range(ready) \cap Range(order) = {}
  BY <1>1, <1>2 DEF TInv, Shape, QInv
<1>4. /\ woken \in Seq(Sessions) /\ IsInjective(woken)
      /\ Range(woken) = Range(ready) \cup Range(order)
  BY <1>1, <1>3, JoinFacts
<1>5. Len(woken) \in Nat
  BY <1>4, LenProperties
<1> QED
  BY <1>1, <1>2, <1>4, <1>5

\* The waits of those that are parked do not end.
LEMMA DeadlinesHold ==
    ASSUME TInv, QInv, NEW parks \in SUBSET Sessions, \A s \in parks : Waiting(s),
           NEW s \in (parked \ Overdue) \cup parks
    PROVE  Deadlines(parks)[s] # Off
<1>1. s \in Sessions /\ s \notin Overdue
  BY DEF Waiting, TInv, Shape
<1>2. Deadlines(parks)[s] = IF s \in parks /\ waits[s] = Off THEN Gap ELSE waits[s]
  BY <1>1 DEF Deadlines
<1>3. Gap # Off
  BY ShadowAssumption DEF Off
<1>4. s \notin parks => waits[s] # Off
  BY DEF QInv
<1> QED
  BY <1>2, <1>3, <1>4

LEMMA TakeQ ==
    ASSUME TInv, QInv, TakeNext
    PROVE  QInv'
<1>1. ASSUME NEW woken \in Wakes, NEW n \in 1 .. Len(woken), NEW r \in Lowest(woken[n]),
             TakeFrom(woken, n, r)
      PROVE  QInv'
  <2> DEFINE s == woken[n]
             parks == {woken[i] : i \in 1 .. n - 1}
             rest == SubSeq(woken, n + 1, Len(woken))
  <2>1. /\ woken \in Seq(Sessions) /\ IsInjective(woken) /\ Len(woken) \in Nat
        /\ Range(woken) = Range(ready) \cup Overdue /\ Overdue \subseteq parked
    BY WokenSet
  <2>2. /\ \A e : e \in Range(woken) <=> \E j \in 1 .. Len(woken) : woken[j] = e
        /\ \A a, b \in 1 .. Len(woken) : woken[a] = woken[b] => a = b
        /\ Range(woken) \subseteq Sessions
    BY <2>1, SeqFacts
  <2>3. s \in Sessions /\ s \in Range(woken)
    BY <2>2
  <2>4. /\ rest \in Seq(Sessions) /\ IsInjective(rest)
        /\ \A e : e \in Range(rest) <=> \E j \in n + 1 .. Len(woken) : woken[j] = e
    <3>1. n + 1 \in 1 .. Len(woken) + 1 /\ Len(woken) \in 0 .. Len(woken)
      BY <2>1
    <3> QED
      BY <2>1, <3>1, PartFacts
  <2>5. ParkedBefore(woken, n)
    BY <1>1 DEF TakeFrom
  <2>6. /\ parked' = (parked \ Overdue) \cup parks /\ \A x \in parks : Waiting(x)
    BY <2>5 DEF ParkedBefore
  <2>7. /\ waits' = [Deadlines(parks) EXCEPT ![s] = Off]
        /\ heaps' = [heaps EXCEPT ![s] = @ \ {r}]
        /\ ready' = Woken(rest, s, heaps')
    BY <1>1 DEF TakeFrom
  <2>8. /\ \A j \in 1 .. n - 1 : j \in 1 .. Len(woken) /\ j # n /\ j \notin n + 1 .. Len(woken)
        /\ \A j \in n + 1 .. Len(woken) : j \in 1 .. Len(woken) /\ j # n
        /\ \A j \in 1 .. Len(woken) : j = n \/ j \in 1 .. n - 1 \/ j \in n + 1 .. Len(woken)
    BY <2>1
  <2> HIDE DEF rest
  <2>9. /\ Range(woken) = parks \cup {s} \cup Range(rest)
        /\ s \notin parks /\ s \notin Range(rest) /\ parks \cap Range(rest) = {}
    BY <2>2, <2>4, <2>8
  <2> HIDE DEF s, parks
  <2>10. Range(woken) \cap (parked \ Overdue) = {}
    BY <2>1 DEF QInv
  <2>11. heaps \in [Sessions -> SUBSET Ids]
    BY DEF TInv, Shape
  <2>12. IsInjective(ready')
         /\ Range(ready') = Range(rest) \cup (IF heaps'[s] # {} THEN {s} ELSE {})
    BY <2>3, <2>4, <2>7, WokenQueue
  <2>13. \A x \in Sessions \ {s} : heaps'[x] = heaps[x]
    BY <2>7, <2>11
  <2>14. Range(ready') \cap parked' = {}
    BY <2>6, <2>9, <2>10, <2>12
  <2>15. \A x \in Sessions \ {s} : x \in Range(ready') \cup parked' <=> x \in Range(ready) \cup parked
    BY <2>1, <2>6, <2>9, <2>12
  <2>16. s \in Range(ready') \cup parked' <=> heaps'[s] # {}
    BY <2>3, <2>6, <2>9, <2>10, <2>12
  <2>17. Range(ready') \cup parked' \subseteq Sessions
    BY <2>2, <2>3, <2>6, <2>9, <2>12 DEF TInv, Shape
  <2>18. Range(ready') \cup parked' = {x \in Sessions : heaps'[x] # {}}
    BY <2>3, <2>13, <2>15, <2>16, <2>17 DEF QInv
  <2>19. ASSUME NEW x \in parked' PROVE waits'[x] # Off
    <3>1. parks \in SUBSET Sessions
      BY <2>2, <2>9
    <3>2. Deadlines(parks)[x] # Off
      BY <2>6, <3>1, DeadlinesHold
    <3>3. x \in Sessions /\ x # s
      BY <2>3, <2>6, <2>9, <2>10, <3>1 DEF TInv, Shape
    <3>4. Deadlines(parks) \in [Sessions -> Int]
      BY DeadlinesType
    <3> QED
      BY <2>7, <3>2, <3>3, <3>4
  <2>20. IsInjective(ready)' /\ Range(ready)' = Range(ready')
    BY <2>12 DEF IsInjective, Range
  <2> QED
    BY <2>14, <2>18, <2>19, <2>20 DEF QInv
<1>2. ASSUME TakeNone PROVE QInv'
  <2>1. PICK woken \in Wakes :
          /\ ParkedBefore(woken, Len(woken) + 1)
          /\ waits' = Deadlines(Range(woken)) /\ ready' = <<>> /\ UNCHANGED heaps
    BY <1>2 DEF TakeNone
  <2>2. /\ woken \in Seq(Sessions) /\ Len(woken) \in Nat
        /\ Range(woken) = Range(ready) \cup Overdue /\ Overdue \subseteq parked
    BY WokenSet
  <2>3. Range(woken) = {woken[i] : i \in 1 .. Len(woken)} /\ Range(woken) \subseteq Sessions
    BY <2>2, SeqFacts DEF Range
  <2>4. {woken[i] : i \in 1 .. Len(woken) + 1 - 1} = Range(woken)
    BY <2>2, <2>3
  <2>5. parked' = (parked \ Overdue) \cup Range(woken) /\ \A x \in Range(woken) : Waiting(x)
    <3> DEFINE n == Len(woken) + 1
    <3>1. ParkedBefore(woken, n) /\ {woken[i] : i \in 1 .. n - 1} = Range(woken)
      BY <2>1, <2>4
    <3> HIDE DEF n
    <3>2. /\ parked' = (parked \ Overdue) \cup {woken[i] : i \in 1 .. n - 1}
          /\ \A x \in {woken[i] : i \in 1 .. n - 1} : Waiting(x)
      BY <3>1 DEF ParkedBefore
    <3> QED
      BY <3>1, <3>2
  <2>6. parked' = parked \cup Range(ready)
    BY <2>2, <2>5
  <2>7. Range(ready') = {} /\ IsInjective(ready')
    BY <2>1 DEF Range, IsInjective
  <2>8. \A x \in parked' : waits'[x] # Off
    BY <2>1, <2>3, <2>5, DeadlinesHold
  <2>9. IsInjective(ready)' /\ Range(ready)' = {}
    BY <2>7 DEF IsInjective, Range
  <2> QED
    BY <2>1, <2>6, <2>8, <2>9 DEF QInv
<1> QED
  BY <1>1, <1>2 DEF TakeNext, TakeItem

LEMMA StepQInv == TInv /\ QInv /\ [Next]_vars => QInv'
<1> SUFFICES ASSUME TInv, QInv, [Next]_vars PROVE QInv'
  OBVIOUS
<1>1. ASSUME NEW r \in Ids, Steps(r) PROVE QInv'
  <2>1. CASE BeginClosed(r) \/ \E p \in Sent[r] : BeginRefused(r, p[1], p[2]) \/ BeginAdmitted(r, p[1], p[2])
    <3>1. UNCHANGED <<heaps, ready, parked, waits>>
      BY <2>1 DEF BeginClosed, BeginRefused, BeginAdmitted, control
    <3> QED
      BY <3>1, QueueUntouched
  <2>2. CASE NoShadow(r) \/ FinishNoEffect(r) \/ FinishLost(r) \/ \E size \in Sizes : FinishShed(r, size)
    <3>1. /\ pc[r] = "live" /\ Resolve(turnOf[r].session, turnOf[r].turn)
          /\ UNCHANGED <<heaps, waits>>
      BY <2>2 DEF NoShadow, FinishNoEffect, FinishLost, FinishShed, Resolved
    <3>2. turnOf[r].session \in Sessions
      BY <3>1 DEF TInv, Shape, Active, Asked
    <3> QED
      BY <3>1, <3>2, ResolveQ
  <2>3. CASE \E size \in Sizes : FinishQueued(r, size)
    BY <2>3, QueuedQ
  <2> QED
    BY <1>1, <2>1, <2>2, <2>3 DEF Steps
<1>7. ASSUME NEW r \in Ids, UnseenSteps(r) PROVE QInv'
  BY <1>7, UnseenFacts, QueueUntouched
<1>2. CASE TakeNext
  BY <1>2, TakeQ
<1>3. CASE CompareDone
  <2>1. Resolve(turnOf[worker.req].session, turnOf[worker.req].turn) /\ UNCHANGED <<heaps, waits>>
    BY <1>3 DEF CompareDone
  <2>2. turnOf[worker.req].session \in Sessions
    BY <1>3 DEF CompareDone, TInv, Shape, Active, Asked
  <2> QED
    BY <2>1, <2>2, ResolveQ
<1>4. CASE Watch \/ Close
  <2>1. heaps' = [s \in Sessions |-> {}] /\ ready' = <<>> /\ parked' = {}
    BY <1>4 DEF Watch, Close, Drain
  <2> QED
    BY <2>1 DEF QInv, IsInjective, Range
<1>5. CASE Tick
  <2>1. UNCHANGED <<heaps, ready, parked>> /\ waits' = [s \in Sessions |-> Down(waits[s])]
    BY <1>5 DEF Tick
  <2>2. waits \in [Sessions -> Int] /\ parked \subseteq Sessions
    BY DEF TInv, Shape
  <2>3. \A s \in parked : waits'[s] # Off
    BY <2>1, <2>2 DEF Down, Off, QInv
  <2> QED
    BY <2>1, <2>3 DEF QInv, IsInjective, Range
<1>6. CASE Others \/ UNCHANGED vars
  <2>1. CASE UNCHANGED <<heaps, ready, parked, waits>>
    BY <2>1, QueueUntouched
  <2>2. Tick \/ UNCHANGED <<heaps, ready, parked, waits>>
    BY <1>6 DEF Others, FirstController, NewEpoch, CompareGated, CompareReset, CompareRead, ComparePut,
                CompareFailed, Comparing, vars, control
  <2> QED
    BY <1>5, <2>1, <2>2
<1> QED
  BY <1>1, <1>2, <1>3, <1>4, <1>6, <1>7, StepSorts

LEMMA InitQInv == Init => QInv
BY DEF Init, QInv, IsInjective, Range

(* A session with something queued is ready or parked, never both and never twice, and one that
   is parked has a deadline: the inductive invariant of the scheduler. *)
THEOREM SessionsAreScheduled == Spec => []QInv
BY InitQInv, StepQInv, ShadowInvariant, PTL DEF Spec

(* No session with queued turns waits for somebody to come by, however requests, the worker, the
   watchdog and the clock interleave. *)
THEOREM NobodyIsForgotten == Spec => []NoSessionIsForgotten
<1>1. TInv /\ QInv => NoSessionIsForgotten
  <2> SUFFICES ASSUME TInv, QInv PROVE NoSessionIsForgotten
    OBVIOUS
  <2>1. ASSUME NEW s \in Sessions
        PROVE  heaps[s] # {} <=> (s \in Range(ready)) # (s \in parked)
    <3>1. heaps[s] # {} <=> s \in Range(ready) \/ s \in parked
      BY DEF QInv
    <3>2. ~(s \in Range(ready) /\ s \in parked)
      BY DEF QInv
    <3>3. (s \in Range(ready)) \in BOOLEAN /\ (s \in parked) \in BOOLEAN
      OBVIOUS
    <3> QED
      BY <3>1, <3>2, <3>3
  <2> QED
    BY <2>1 DEF QInv, NoSessionIsForgotten
<1> QED
  BY <1>1, ShadowInvariant, SessionsAreScheduled, PTL

-----------------------------------------------------------------------------
(* Every turn is counted once.                                             *)

CInv ==
    /\ counted \in [Ids -> Nat]
    /\ EveryTurnIsCountedOnce

\* A turn that is over before it was compared is counted with its end.
LEMMA CountedEnd ==
    ASSUME TInv, CInv, NEW over \in SUBSET Ids, \A r \in over : pc[r] \in {"new", "live", "queued"},
           End(over, "done"), UNCHANGED worker,
           counted' = [r \in Ids |-> IF r \in over THEN counted[r] + 1 ELSE counted[r]]
    PROVE  CInv'
<1>1. \A r \in over : counted[r] = 0
  BY DEF CInv, EveryTurnIsCountedOnce, TInv, Shape
<1>2. pc' = [r \in Ids |-> IF r \in over THEN "done" ELSE pc[r]]
  BY DEF End
<1>3. counted' \in [Ids -> Nat]
  BY DEF CInv
<1>4. \A r \in over : worker.at # "idle" => worker.req # r
  BY DEF TInv, Shape
<1>5. ASSUME NEW r \in Ids, pc'[r] # "gone"
      PROVE  counted'[r] = IF pc'[r] = "done" \/ (worker.req = r /\ worker.at \in {"compared", "failed"})
                           THEN 1 ELSE 0
  <2>1. CASE r \in over
    BY <1>1, <1>2, <2>1
  <2>2. CASE r \notin over
    BY <1>2, <1>5, <2>2 DEF CInv, EveryTurnIsCountedOnce
  <2> QED
    BY <2>1, <2>2
<1> QED
  BY <1>3, <1>5 DEF CInv, EveryTurnIsCountedOnce

LEMMA CountedOne ==
    ASSUME TInv, CInv, NEW r \in Ids, pc[r] \in {"new", "live"}, End({r}, "done"), Count(r),
           UNCHANGED worker
    PROVE  CInv'
<1>1. counted' = [q \in Ids |-> IF q \in {r} THEN counted[q] + 1 ELSE counted[q]]
  BY DEF Count, CInv
<1>2. {r} \in SUBSET Ids /\ \A q \in {r} : pc[q] \in {"new", "live", "queued"}
  OBVIOUS
<1> QED
  BY <1>1, <1>2, CountedEnd

\* A turn that goes on, or that the shadow has nothing to do with, is not counted.
LEMMA NotCounted ==
    ASSUME TInv, CInv, NEW r \in Ids, pc[r] # "done",
           NEW to \in {"live", "queued", "comparing", "gone", "unseen", "missed"},
           pc' = [q \in Ids |-> IF q = r THEN to ELSE pc[q]], pc[r] # "gone",
           UNCHANGED <<counted, worker>>
    PROVE  CInv'
BY DEF CInv, EveryTurnIsCountedOnce

LEMMA CountsUntouched ==
    ASSUME CInv, UNCHANGED <<pc, counted, worker>>
    PROVE  CInv'
BY DEF CInv, EveryTurnIsCountedOnce

\* The turn being compared is counted as its comparison ends.
LEMMA CountedCompared ==
    ASSUME TInv, CInv, worker.at \in {"taken", "read"}, NEW to \in {"compared", "failed"},
           Comparing(to)
    PROVE  CInv'
<1> DEFINE r == worker.req
<1>1. /\ worker' = [worker EXCEPT !.at = to] /\ pc' = pc
      /\ counted' = [counted EXCEPT ![r] = @ + 1]
  BY DEF Comparing, Count
<1>2. r \in Ids /\ pc[r] = "comparing" /\ worker'.at = to /\ worker'.req = r
  BY <1>1 DEF TInv, Shape
<1>3. counted[r] = 0
  BY <1>2 DEF CInv, EveryTurnIsCountedOnce
<1>4. ASSUME NEW q \in Ids, pc'[q] # "gone"
      PROVE  counted'[q] = IF pc'[q] = "done" \/ (worker'.req = q /\ worker'.at \in {"compared", "failed"})
                           THEN 1 ELSE 0
  BY <1>1, <1>2, <1>3, <1>4 DEF CInv, EveryTurnIsCountedOnce
<1>5. counted' \in [Ids -> Nat]
  BY <1>1, <1>2 DEF CInv
<1> QED
  BY <1>4, <1>5 DEF CInv, EveryTurnIsCountedOnce

LEMMA TakeC ==
    ASSUME TInv, CInv, TakeNext
    PROVE  CInv'
<1>1. ASSUME NEW woken \in Wakes, NEW n \in 1 .. Len(woken), NEW r \in Lowest(woken[n]),
             TakeFrom(woken, n, r)
      PROVE  CInv'
  <2>1. /\ worker.at = "idle" /\ worker' = [at |-> "taken", req |-> r, age |-> 0]
        /\ pc' = [pc EXCEPT ![r] = "comparing"] /\ counted' = counted
    <3>1. counted' = counted
      BY <1>1 DEF TakeFrom, ParkedBefore
    <3> QED
      BY <1>1, <3>1 DEF TakeFrom, CanTake, Goes
  <2>2. r \in Ids /\ pc[r] = "queued"
    <3>1. woken \in Seq(Sessions)
      BY WakesType
    <3> QED
      BY <3>1 DEF TInv, Shape, Lowest
  <2> QED
    BY <2>1, <2>2 DEF CInv, EveryTurnIsCountedOnce, TInv, Shape
<1>2. ASSUME TakeNone PROVE CInv'
  <2>1. UNCHANGED <<pc, worker, counted>>
    <3>1. counted' = counted
      BY <1>2 DEF TakeNone, ParkedBefore
    <3> QED
      BY <1>2, <3>1 DEF TakeNone
  <2> QED
    BY <2>1, CountsUntouched
<1> QED
  BY <1>1, <1>2 DEF TakeNext, TakeItem

LEMMA StepCInv == TInv /\ CInv /\ [Next]_vars => CInv'
<1> SUFFICES ASSUME TInv, CInv, [Next]_vars PROVE CInv'
  OBVIOUS
<1>1. ASSUME NEW r \in Ids, Steps(r) PROVE CInv'
  <2>1. CASE BeginClosed(r) \/ NoShadow(r)
    <3>1. /\ pc[r] \in {"new", "live"} /\ UNCHANGED <<counted, worker>>
          /\ pc' = [q \in Ids |-> IF q = r THEN "gone" ELSE pc[q]]
      BY <2>1 DEF BeginClosed, NoShadow, Resolved, Arrives, End, history
    <3> QED
      BY <3>1, NotCounted
  <2>2. CASE \E p \in Sent[r] : BeginRefused(r, p[1], p[2])
    <3>1. pc[r] = "new" /\ End({r}, "done") /\ Count(r) /\ UNCHANGED worker
      BY <2>2 DEF BeginRefused, Arrives
    <3> QED
      BY <3>1, CountedOne
  <2>3. CASE FinishNoEffect(r) \/ FinishLost(r) \/ \E size \in Sizes : FinishShed(r, size)
    <3>1. pc[r] = "live" /\ End({r}, "done") /\ Count(r) /\ UNCHANGED worker
      BY <2>3 DEF FinishNoEffect, FinishLost, FinishShed, Resolved
    <3> QED
      BY <3>1, CountedOne
  <2>4. CASE (\E p \in Sent[r] : BeginAdmitted(r, p[1], p[2])) \/ \E size \in Sizes : FinishQueued(r, size)
    <3>1. PICK to \in {"live", "queued"} :
            /\ pc[r] \in {"new", "live"} /\ UNCHANGED <<counted, worker>>
            /\ pc' = [pc EXCEPT ![r] = to]
      BY <2>4 DEF BeginAdmitted, FinishQueued, Arrives, Goes, history
    <3>2. pc' = [q \in Ids |-> IF q = r THEN to ELSE pc[q]]
      BY <3>1 DEF TInv, Shape
    <3> QED
      BY <3>1, <3>2, NotCounted
  <2> QED
    BY <1>1, <2>1, <2>2, <2>3, <2>4 DEF Steps
<1>7. ASSUME NEW r \in Ids, UnseenSteps(r) PROVE CInv'
  <2>1. PICK to \in {"unseen", "missed", "gone"} : pc' = [q \in Ids |-> IF q = r THEN to ELSE pc[q]]
    BY <1>7, UnseenFacts
  <2>2. pc[r] \in {"new", "unseen"} /\ UNCHANGED <<counted, worker>>
    BY <1>7, UnseenFacts
  <2> QED
    BY <2>1, <2>2, NotCounted
<1>2. CASE CompareDone
  <2>1. /\ worker.at \in {"compared", "failed"} /\ worker' = Idle /\ counted' = counted
        /\ pc' = [q \in Ids |-> IF q = worker.req THEN "done" ELSE pc[q]]
    BY <1>2 DEF CompareDone, End
  <2> QED
    BY <2>1 DEF CInv, EveryTurnIsCountedOnce, Idle, TInv, Shape
<1>3. CASE Watch \/ Close
  <2>1. /\ End(Queued, "done") /\ UNCHANGED worker
        /\ counted' = [r \in Ids |-> IF r \in Queued THEN counted[r] + 1 ELSE counted[r]]
    BY <1>3 DEF Watch, Close, Drain
  <2>2. Queued \in SUBSET Ids /\ \A r \in Queued : pc[r] \in {"new", "live", "queued"}
    BY DEF Queued
  <2> QED
    BY <2>1, <2>2, CountedEnd
<1>4. CASE CompareGated \/ CompareReset \/ ComparePut \/ CompareFailed
  <2>1. worker.at \in {"taken", "read"} /\ (Comparing("compared") \/ Comparing("failed"))
    BY <1>4 DEF CompareGated, CompareReset, ComparePut, CompareFailed
  <2> QED
    BY <2>1, CountedCompared
<1>5. CASE CompareRead \/ Tick
  <2>1. /\ UNCHANGED <<pc, counted>> /\ worker'.req = worker.req
        /\ worker'.at \in {"compared", "failed"} <=> worker.at \in {"compared", "failed"}
    <3>1. CASE CompareRead
      BY <3>1 DEF CompareRead, history, TInv, Shape
    <3>2. CASE Tick
      <4>1. worker' = worker \/ worker' = [worker EXCEPT !.age = worker.age + 1]
        BY <3>2 DEF Tick
      <4> QED
        BY <3>2, <4>1 DEF Tick, history, TInv, Shape
    <3> QED
      BY <1>5, <3>1, <3>2
  <2> QED
    BY <2>1 DEF CInv, EveryTurnIsCountedOnce
<1>6. CASE FirstController \/ NewEpoch \/ UNCHANGED vars
  <2>1. UNCHANGED <<pc, counted, worker>>
    BY <1>6 DEF FirstController, NewEpoch, vars, history
  <2> QED
    BY <2>1, CountsUntouched
<1> QED
  BY <1>1, <1>2, <1>3, <1>4, <1>5, <1>6, <1>7, TakeC, StepSorts DEF Others

LEMMA InitCInv == Init => CInv
BY DEF Init, CInv, EveryTurnIsCountedOnce, Idle

(* Whichever of the ways a turn ends in (refused, lost, shed, drained by the watchdog or by close,
   compared), it is counted, and never twice. *)
THEOREM TurnsAreCountedOnce == Spec => []EveryTurnIsCountedOnce
<1>1. CInv => EveryTurnIsCountedOnce
  BY DEF CInv
<1> QED
  BY <1>1, InitCInv, StepCInv, ShadowInvariant, PTL DEF Spec

-----------------------------------------------------------------------------
(* The accounts of the queue.                                              *)

AInv ==
    /\ sizeOf \in [Ids -> Nat]
    /\ items = Cardinality(Charged)
    /\ bytes = Total(sizeOf, Charged)

LEMMA IdsFinite == IsFiniteSet(Ids) /\ \A T \in SUBSET Ids : IsFiniteSet(T) /\ Cardinality(T) \in Nat
<1>1. 1 \in Int /\ Requests \in Int
  BY ShadowAssumption
<1>2. IsFiniteSet(Ids)
  BY <1>1, FS_Interval DEF Ids
<1> QED
  BY <1>2, FS_Subset, FS_CardinalityType

LEMMA AInvIsExact == AInv => AccountingIsExact
BY Zenon DEF AInv, AccountingIsExact, Total

LEMMA BooksUntouched ==
    ASSUME AInv, UNCHANGED <<sizeOf, items, bytes>>, Charged' = Charged
    PROVE  AInv'
<1>1. items = Cardinality(Charged) /\ bytes = Total(sizeOf, Charged)
  BY DEF AInv
<1>2. items' = Cardinality(Charged') /\ bytes' = Total(sizeOf', Charged')
  BY <1>1
<1> QED
  BY <1>2 DEF AInv

\* Charges that are returned together.
LEMMA Returned ==
    ASSUME AInv, NEW Q \in SUBSET Charged, Charged' = Charged \ Q,
           items' = items - Cardinality(Q), bytes' = bytes - Total(sizeOf, Q),
           sizeOf' = [r \in Ids |-> IF r \in Q THEN 0 ELSE sizeOf[r]]
    PROVE  AInv'
<1>1. items = Cardinality(Charged) /\ bytes = Total(sizeOf, Charged)
  BY DEF AInv
<1>2. Charged \in SUBSET Ids /\ Q \in SUBSET Ids
  BY DEF Charged
<1>3. /\ IsFiniteSet(Charged) /\ IsFiniteSet(Charged \ Q) /\ IsFiniteSet(Q)
      /\ Cardinality(Charged) \in Nat /\ Cardinality(Q) \in Nat
  BY <1>2, IdsFinite
<1>4. Cardinality(Charged \ Q) = Cardinality(Charged) - Cardinality(Q)
  <2>1. Charged \cap Q = Q
    BY <1>2
  <2>2. Cardinality(Charged \ Q) = Cardinality(Charged) - Cardinality(Charged \cap Q)
    BY <1>3, FS_Difference
  <2> QED
    BY <2>1, <2>2
<1>5. \A r \in Charged : sizeOf[r] \in Nat
  BY <1>2 DEF AInv
<1>6. Total(sizeOf, Charged) = Total(sizeOf, Q) + Total(sizeOf, Charged \ Q)
  BY <1>3, <1>5, TotalSplit
<1>7. Total(sizeOf, Charged \ Q) = Total(sizeOf', Charged \ Q)
  <2>1. \A r \in Charged \ Q : sizeOf[r] \in Nat /\ sizeOf[r] = sizeOf'[r]
    BY <1>2, <1>5
  <2> QED
    BY <1>3, <2>1, TotalAgrees
<1>8. Total(sizeOf, Q) \in Nat /\ Total(sizeOf, Charged \ Q) \in Nat
  <2>1. (\A r \in Q : sizeOf[r] \in Nat) /\ (\A r \in Charged \ Q : sizeOf[r] \in Nat)
    BY <1>5
  <2> QED
    BY <1>3, <2>1, TotalType
<1>9. items' = Cardinality(Charged') /\ bytes' = Total(sizeOf', Charged')
  BY <1>1, <1>3, <1>4, <1>6, <1>7, <1>8
<1>11. sizeOf' \in [Ids -> Nat]
  BY DEF AInv
<1> QED
  BY <1>9, <1>11 DEF AInv

LEMMA Booked ==
    ASSUME TInv, AInv, NEW r \in Ids, NEW size \in Sizes, FinishQueued(r, size)
    PROVE  AInv'
<1>1. /\ pc[r] = "live" /\ pc' = [pc EXCEPT ![r] = "queued"]
      /\ sizeOf' = [sizeOf EXCEPT ![r] = size]
      /\ items' = items + 1 /\ bytes' = bytes + size
  BY DEF FinishQueued, Goes
<1>2. items = Cardinality(Charged) /\ bytes = Total(sizeOf, Charged)
  BY DEF AInv
<1>3. Charged' = Charged \cup {r} /\ r \notin Charged
  BY <1>1 DEF Charged, TInv, Shape
<1>4. /\ Charged \in SUBSET Ids /\ IsFiniteSet(Charged) /\ Cardinality(Charged) \in Nat
      /\ IsFiniteSet(Charged \cup {r})
  <2>1. Charged \in SUBSET Ids /\ Charged \cup {r} \in SUBSET Ids
    BY DEF Charged
  <2> QED
    BY <2>1, IdsFinite
<1>5. Cardinality(Charged \cup {r}) = Cardinality(Charged) + 1
  BY <1>3, <1>4, FS_AddElement
<1>6. size \in Nat /\ sizeOf' \in [Ids -> Nat] /\ sizeOf'[r] = size
      /\ \A q \in Charged : sizeOf[q] \in Nat /\ sizeOf[q] = sizeOf'[q]
  BY <1>1, <1>3, <1>4, ShadowAssumption DEF AInv
<1>7. Total(sizeOf', Charged \cup {r}) = size + Total(sizeOf', Charged)
  <2>1. \A q \in Charged \cup {r} : sizeOf'[q] \in Nat
    BY <1>4, <1>6
  <2>2. r \in Charged \cup {r} /\ (Charged \cup {r}) \ {r} = Charged
    BY <1>3
  <2>3. Total(sizeOf', Charged \cup {r}) = sizeOf'[r] + Total(sizeOf', (Charged \cup {r}) \ {r})
    BY <1>4, <2>1, <2>2, TotalRemove
  <2> QED
    BY <1>6, <2>2, <2>3
<1>8. Total(sizeOf, Charged) = Total(sizeOf', Charged) /\ Total(sizeOf, Charged) \in Nat
  BY <1>4, <1>6, TotalAgrees, TotalType
<1>9. items' = Cardinality(Charged') /\ bytes' = Total(sizeOf', Charged')
  BY <1>1, <1>2, <1>3, <1>5, <1>6, <1>7, <1>8
<1> QED
  BY <1>6, <1>9 DEF AInv

LEMMA StepAInv == TInv /\ AInv /\ [Next]_vars => AInv'
<1> SUFFICES ASSUME TInv, AInv, [Next]_vars PROVE AInv'
  OBVIOUS
<1>1. ASSUME NEW r \in Ids, Steps(r) PROVE AInv'
  <2>1. CASE \E size \in Sizes : FinishQueued(r, size)
    BY <2>1, Booked
  <2>2. CASE \E p \in Sent[r] : BeginAdmitted(r, p[1], p[2])
    <3>1. pc[r] = "new" /\ pc' = [pc EXCEPT ![r] = "live"] /\ UNCHANGED <<sizeOf, items, bytes>>
      BY <2>2 DEF BeginAdmitted, Arrives
    <3>2. Charged' = Charged
      BY <3>1 DEF Charged, TInv, Shape
    <3> QED
      BY <3>1, <3>2, BooksUntouched
  <2>3. CASE BeginClosed(r) \/ (\E p \in Sent[r] : BeginRefused(r, p[1], p[2]))
             \/ NoShadow(r) \/ FinishNoEffect(r) \/ FinishLost(r)
             \/ \E size \in Sizes : FinishShed(r, size)
    <3>1. PICK to \in {"done", "gone"} :
            /\ pc[r] \in {"new", "live"} /\ End({r}, to) /\ UNCHANGED <<sizeOf, items, bytes>>
      BY <2>3 DEF BeginClosed, BeginRefused, NoShadow, FinishNoEffect, FinishLost, FinishShed,
                  Resolved, Arrives, control
    <3>2. Charged' = Charged
      BY <3>1 DEF Charged, End
    <3> QED
      BY <3>1, <3>2, BooksUntouched
  <2> QED
    BY <1>1, <2>1, <2>2, <2>3 DEF Steps
<1>8. ASSUME NEW r \in Ids, UnseenSteps(r) PROVE AInv'
  <2>1. PICK to \in {"unseen", "missed", "gone"} : pc' = [q \in Ids |-> IF q = r THEN to ELSE pc[q]]
    BY <1>8, UnseenFacts
  <2>2. pc[r] \in {"new", "unseen"} /\ UNCHANGED <<sizeOf, items, bytes>>
    BY <1>8, UnseenFacts
  <2>3. Charged' = Charged
    BY <2>1, <2>2 DEF Charged
  <2> QED
    BY <2>2, <2>3, BooksUntouched
<1>2. ASSUME NEW woken \in Wakes, NEW n \in 1 .. Len(woken), NEW r \in Lowest(woken[n]),
             TakeFrom(woken, n, r)
      PROVE  AInv'
  <2>1. UNCHANGED <<sizeOf, items, bytes>>
    BY <1>2 DEF TakeFrom, ParkedBefore
  <2>2. pc' = [pc EXCEPT ![r] = "comparing"]
    BY <1>2 DEF TakeFrom, Goes
  <2>3. r \in Ids /\ pc[r] = "queued"
    <3>1. woken \in Seq(Sessions)
      BY WakesType
    <3> QED
      BY <3>1 DEF TInv, Shape, Lowest
  <2>4. Charged' = Charged
    BY <2>2, <2>3 DEF Charged, TInv, Shape
  <2> QED
    BY <2>1, <2>4, BooksUntouched
<1>3. ASSUME TakeNone PROVE AInv'
  <2>1. UNCHANGED <<pc, sizeOf, items, bytes>>
    <3>1. UNCHANGED <<sizeOf, items, bytes>>
      BY <1>3 DEF TakeNone, ParkedBefore
    <3> QED
      BY <1>3, <3>1 DEF TakeNone
  <2>2. Charged' = Charged
    BY <2>1 DEF Charged
  <2> QED
    BY <2>1, <2>2, BooksUntouched
<1>4. CASE CompareDone
  <2> DEFINE r == worker.req
  <2>1. /\ r \in Ids /\ pc[r] = "comparing"
        /\ pc' = [q \in Ids |-> IF q = r THEN "done" ELSE pc[q]]
        /\ items' = items - 1 /\ bytes' = bytes - sizeOf[r]
        /\ sizeOf' = [sizeOf EXCEPT ![r] = 0]
    BY <1>4 DEF CompareDone, End, TInv, Shape
  <2> HIDE DEF r
  <2>2. r \in Charged /\ Charged' = Charged \ {r}
    BY <2>1 DEF Charged
  <2>3. sizeOf' = [q \in Ids |-> IF q \in {r} THEN 0 ELSE sizeOf[q]]
    BY <2>1 DEF AInv
  <2>4. Cardinality({r}) = 1
    BY FS_Singleton
  <2>5. Total(sizeOf, {r}) = sizeOf[r]
    <3>1. IsFiniteSet({r}) /\ (\A q \in {r} : sizeOf[q] \in Nat) /\ r \in {r} /\ {r} \ {r} = {}
      BY <2>1, FS_Singleton DEF AInv
    <3>2. Total(sizeOf, {r}) = sizeOf[r] + Total(sizeOf, {r} \ {r})
      BY <3>1, TotalRemove
    <3>3. Total(sizeOf, {}) = 0
      BY TotalEmpty
    <3> QED
      BY <3>1, <3>2, <3>3
  <2> QED
    BY <2>1, <2>2, <2>3, <2>4, <2>5, Returned
<1>5. CASE Watch \/ Close
  <2>1. Drain
    BY <1>5 DEF Watch, Close
  <2>2. /\ items' = items - Cardinality(Queued)
        /\ bytes' = bytes - FoldFunctionOnSet(+, 0, sizeOf, Queued)
        /\ sizeOf' = [r \in Ids |-> IF r \in Queued THEN 0 ELSE sizeOf[r]]
        /\ pc' = [r \in Ids |-> IF r \in Queued THEN "done" ELSE pc[r]]
    BY <2>1, Zenon DEF Drain, End
  <2>3. bytes' = bytes - Total(sizeOf, Queued)
    BY <2>2, Zenon DEF Total
  <2>4. Queued \in SUBSET Charged /\ Charged' = Charged \ Queued
    BY <2>2 DEF Queued, Charged
  <2> QED
    BY <2>2, <2>3, <2>4, Returned
<1>6. CASE Others \/ UNCHANGED vars
  <2>1. UNCHANGED <<pc, sizeOf, items, bytes>>
    BY <1>6 DEF Others, FirstController, NewEpoch, CompareGated, CompareReset, CompareRead, ComparePut,
                CompareFailed, Comparing, Tick, vars, control
  <2>2. Charged' = Charged
    BY <2>1 DEF Charged
  <2> QED
    BY <2>1, <2>2, BooksUntouched
<1>7. CASE TakeNext
  BY <1>2, <1>3, <1>7 DEF TakeNext, TakeItem
<1> QED
  BY <1>1, <1>4, <1>5, <1>6, <1>7, <1>8, StepSorts

LEMMA InitAInv == Init => AInv
<1> SUFFICES ASSUME Init PROVE AInv
  OBVIOUS
<1>1. Charged = {} /\ items = 0 /\ bytes = 0 /\ sizeOf \in [Ids -> Nat]
  BY DEF Init, Charged
<1>2. Cardinality({}) = 0 /\ Total(sizeOf, {}) = 0
  BY FS_EmptySet, TotalEmpty
<1> QED
  BY <1>1, <1>2 DEF AInv

(* _items and _bytes are exactly what is queued and being compared, for any number of requests of
   any sizes: every charge is returned once, by the worker, the watchdog or close. *)
THEOREM ChargesAreExact == Spec => []AccountingIsExact
<1> QED
  BY AInvIsExact, InitAInv, StepAInv, ShadowInvariant, PTL DEF Spec

-----------------------------------------------------------------------------
(* Types and limits.                                                       *)

Registers == [Sessions -> [Turns -> {"none", "in_flight", "queued"}]]
Limited == [forced : BOOLEAN, wait : Wait(Cooling), trial : BOOLEAN, slow : Nat, errors : Nat]
Workers == [at : {"idle", "taken", "read", "compared", "failed"}, req : {0} \cup Ids,
            age : 0 .. Hang + 1]

(* What ShadowTypeOK says beyond the invariants above. *)
YInv ==
    /\ sizeOf \in [Ids -> Sizes \cup {0}] /\ items <= MaxItems /\ bytes <= MaxBytes
    /\ regs \in Registers /\ waits \in [Sessions -> Wait(Gap)]
    /\ breaker \in Limited /\ worker \in Workers
    /\ mode \in {"up", "unhealthy", "closed"} /\ leaked \subseteq Sessions
    /\ created \in BOOLEAN /\ seenOn \in BOOLEAN

LEMMA QuietSteps ==
    TInv =>
    /\ \A r \in Ids : UnseenSteps(r) => UNCHANGED <<sizeOf, items, bytes, regs, waits, breaker, mode,
                                                   worker, created>>
    /\ \A r \in Ids : Steps(r) => UNCHANGED <<waits, worker, mode, created, seenOn, leaked>>
    /\ TakeNext => UNCHANGED <<sizeOf, items, bytes, breaker, mode, created, seenOn, leaked>>
    /\ CompareDone => UNCHANGED <<waits, mode, created, seenOn, leaked>>
    /\ Watch \/ Close => UNCHANGED <<worker, created, seenOn, leaked>>
    /\ Others => UNCHANGED <<sizeOf, items, bytes, regs, mode>>
<1> SUFFICES ASSUME TInv
             PROVE  /\ \A r \in Ids : UnseenSteps(r) => UNCHANGED <<sizeOf, items, bytes, regs, waits,
                                                             breaker, mode, worker, created>>
                    /\ \A r \in Ids : Steps(r) => UNCHANGED <<waits, worker, mode, created, seenOn, leaked>>
                    /\ TakeNext => UNCHANGED <<sizeOf, items, bytes, breaker, mode, created, seenOn, leaked>>
                    /\ CompareDone => UNCHANGED <<waits, mode, created, seenOn, leaked>>
                    /\ Watch \/ Close => UNCHANGED <<worker, created, seenOn, leaked>>
                    /\ Others => UNCHANGED <<sizeOf, items, bytes, regs, mode>>
  OBVIOUS
<1>6. \A r \in Ids : UnseenSteps(r) => UNCHANGED <<sizeOf, items, bytes, regs, waits, breaker, mode,
                                                  worker, created>>
  BY UnseenFacts
<1>1. \A r \in Ids : Steps(r) => UNCHANGED <<waits, worker, mode, created, seenOn, leaked>>
  BY ZenonT(60) DEF Steps, BeginClosed, BeginRefused, BeginAdmitted, NoShadow, FinishNoEffect,
         FinishLost, FinishShed, FinishQueued, Resolved, control, switch, history
<1>2. TakeNext => UNCHANGED <<sizeOf, items, bytes, breaker, mode, created, seenOn, leaked>>
  BY DEF TakeNext, TakeItem, TakeNone, TakeFrom, ParkedBefore, switch
<1>3. CompareDone => UNCHANGED <<waits, mode, created, seenOn, leaked>>
  BY DEF CompareDone, switch
<1>4. Watch \/ Close => UNCHANGED <<worker, created, seenOn, leaked>>
  BY DEF Watch, Close, switch
<1>5. Others => UNCHANGED <<sizeOf, items, bytes, regs, mode>>
  BY DEF Others, FirstController, NewEpoch, CompareGated, CompareReset, CompareRead, ComparePut,
         CompareFailed, Comparing, Tick, control
<1> QED
  BY <1>1, <1>2, <1>3, <1>4, <1>5, <1>6

LEMMA BooksAreNumbers == AInv => items \in Nat /\ bytes \in Nat
<1> SUFFICES ASSUME AInv PROVE items \in Nat /\ bytes \in Nat
  OBVIOUS
<1>1. Charged \in SUBSET Ids
  BY DEF Charged
<1>2. IsFiniteSet(Charged) /\ Cardinality(Charged) \in Nat
  BY <1>1, IdsFinite
<1>3. \A r \in Charged : sizeOf[r] \in Nat
  BY <1>1 DEF AInv
<1>4. Total(sizeOf, Charged) \in Nat
  BY <1>2, <1>3, TotalType
<1> QED
  BY <1>2, <1>4 DEF AInv

\* Only a turn that fits is queued, and what is drained or compared gives its charge back.
LEMMA StepLimits ==
    ASSUME TInv, AInv, YInv, [Next]_vars
    PROVE  sizeOf' \in [Ids -> Sizes \cup {0}] /\ items' <= MaxItems /\ bytes' <= MaxBytes
<1>1. items \in Nat /\ bytes \in Nat /\ MaxItems \in Nat /\ MaxBytes \in Nat
  BY BooksAreNumbers, ShadowAssumption
<1>2. CASE UNCHANGED <<sizeOf, items, bytes>>
  BY <1>2 DEF YInv
<1>3. ASSUME NEW r \in Ids, Steps(r)
      PROVE  UNCHANGED <<sizeOf, items, bytes>> \/ \E size \in Sizes : FinishQueued(r, size)
  BY <1>3 DEF Steps, BeginClosed, BeginRefused, BeginAdmitted, NoShadow,
         FinishNoEffect, FinishLost, FinishShed, Resolved, control
<1>4. ASSUME NEW r \in Ids, NEW size \in Sizes, FinishQueued(r, size)
      PROVE  sizeOf' \in [Ids -> Sizes \cup {0}] /\ items' <= MaxItems /\ bytes' <= MaxBytes
  <2>1. /\ items' = items + 1 /\ bytes' = bytes + size /\ sizeOf' = [sizeOf EXCEPT ![r] = size]
        /\ ~Refused(size)
    BY <1>4 DEF FinishQueued
  <2>2. items + 1 <= MaxItems /\ bytes + size <= MaxBytes
    BY <1>1, <2>1, ShadowAssumption DEF Refused
  <2> QED
    BY <2>1, <2>2 DEF YInv
<1>5. CASE CompareDone
  <2>1. /\ items' = items - 1 /\ bytes' = bytes - sizeOf[worker.req]
        /\ sizeOf' = [sizeOf EXCEPT ![worker.req] = 0] /\ worker.req \in Ids
    BY <1>5 DEF CompareDone, TInv, Shape
  <2>2. sizeOf' \in [Ids -> Sizes \cup {0}]
    BY <2>1 DEF YInv
  <2>3. sizeOf[worker.req] \in Nat
    BY <2>1 DEF AInv
  <2> QED
    BY <1>1, <2>1, <2>2, <2>3 DEF YInv
<1>6. CASE Watch \/ Close
  <2>1. Drain
    BY <1>6 DEF Watch, Close
  <2>2. /\ items' = items - Cardinality(Queued)
        /\ bytes' = bytes - FoldFunctionOnSet(+, 0, sizeOf, Queued)
        /\ sizeOf' = [r \in Ids |-> IF r \in Queued THEN 0 ELSE sizeOf[r]]
    BY <2>1, Zenon DEF Drain
  <2>3. bytes' = bytes - Total(sizeOf, Queued)
    BY <2>2, Zenon DEF Total
  <2>4. Queued \in SUBSET Ids
    BY DEF Queued
  <2>5. IsFiniteSet(Queued) /\ Cardinality(Queued) \in Nat
    BY <2>4, IdsFinite
  <2>6. \A r \in Queued : sizeOf[r] \in Nat
    BY <2>4 DEF AInv
  <2>7. Total(sizeOf, Queued) \in Nat
    BY <2>5, <2>6, TotalType
  <2>8. items' <= MaxItems /\ bytes' <= MaxBytes
    <3>1. items <= MaxItems /\ bytes <= MaxBytes
      BY DEF YInv
    <3>2. items' = items - Cardinality(Queued)
      BY <2>2
    <3> QED
      BY <1>1, <2>3, <2>5, <2>7, <3>1, <3>2
  <2>9. sizeOf' \in [Ids -> Sizes \cup {0}]
    BY <2>2 DEF YInv
  <2> QED
    BY <2>8, <2>9
<1>7. CASE UNCHANGED vars
  BY <1>2, <1>7 DEF vars, control
<1> QED
  BY <1>2, <1>3, <1>4, <1>5, <1>6, <1>7, StepSorts, QuietSteps

LEMMA StepRegisters ==
    ASSUME TInv, YInv, [Next]_vars
    PROVE  regs' \in Registers
<1>1. regs \in Registers
  BY DEF YInv
<1>2. ASSUME NEW s, NEW t, NEW to \in {"none", "in_flight", "queued"},
             regs' = [regs EXCEPT ![s][t] = to]
      PROVE  regs' \in Registers
  BY <1>1, <1>2 DEF Registers
<1>3. ASSUME NEW r \in Ids, Steps(r)
      PROVE  regs' \in Registers
  <2>1. \/ regs' = regs
        \/ \E s, t : \E to \in {"none", "in_flight", "queued"} : regs' = [regs EXCEPT ![s][t] = to]
    BY <1>3 DEF Steps, BeginClosed, BeginRefused, BeginAdmitted, NoShadow,
           FinishNoEffect, FinishLost, FinishShed, FinishQueued, Resolved, Resolve, control
  <2> QED
    BY <1>1, <1>2, <2>1
<1>4. CASE TakeNext
  <2>1. regs' = Freed
    BY <1>4 DEF TakeNext, TakeItem, TakeNone, TakeFrom, ParkedBefore
  <2> QED
    BY <1>1, <2>1 DEF Freed, Registers
<1>5. CASE CompareDone
  BY <1>2, <1>5 DEF CompareDone, Resolve
<1>6. CASE Watch \/ Close
  <2>1. regs' = [s \in Sessions |-> [t \in Turns |->
                  IF \E r \in Queued : turnOf[r].session = s /\ turnOf[r].turn = t
                  THEN "none" ELSE regs[s][t]]]
    BY <1>6 DEF Watch, Close, Drain
  <2> QED
    BY <1>1, <2>1 DEF Registers
<1>7. CASE UNCHANGED vars
  BY <1>1, <1>7 DEF vars, control
<1> QED
  BY <1>1, <1>3, <1>4, <1>5, <1>6, <1>7, StepSorts, QuietSteps

LEMMA StepWaits ==
    ASSUME TInv, YInv, [Next]_vars
    PROVE  waits' \in [Sessions -> Wait(Gap)]
<1>1. waits \in [Sessions -> Wait(Gap)] /\ Off \in Wait(Gap) /\ Gap \in Wait(Gap)
  BY ShadowAssumption DEF YInv, Wait, Off
<1>2. ASSUME NEW parks PROVE Deadlines(parks) \in [Sessions -> Wait(Gap)]
  BY <1>1 DEF Deadlines
<1>3. CASE TakeNext
  <2>1. PICK parks : \/ waits' = Deadlines(parks)
                     \/ \E s : waits' = [Deadlines(parks) EXCEPT ![s] = Off]
    BY <1>3 DEF TakeNext, TakeItem, TakeNone, TakeFrom
  <2> HIDE DEF Deadlines
  <2> QED
    BY <1>1, <1>2, <2>1
<1>4. CASE Tick
  <2>1. \A w \in Wait(Gap) : Down(w) \in Wait(Gap)
    BY ShadowAssumption DEF Wait, Down, Off
  <2>2. waits' = [s \in Sessions |-> Down(waits[s])]
    BY <1>4 DEF Tick
  <2> HIDE DEF Down
  <2> QED
    BY <1>1, <2>1, <2>2
<1>5. CASE Watch \/ Close
  <2>1. waits' = [s \in Sessions |-> Off]
    BY <1>5 DEF Watch, Close, Drain
  <2> QED
    BY <1>1, <2>1
<1>6. CASE Others /\ ~Tick
  <2>1. UNCHANGED waits
    BY <1>6 DEF Others, FirstController, NewEpoch, CompareGated, CompareReset, CompareRead, ComparePut,
                CompareFailed, Comparing, control
  <2> QED
    BY <1>1, <2>1
<1>7. CASE UNCHANGED vars
  BY <1>1, <1>7 DEF vars, control
<1> QED
  BY <1>1, <1>3, <1>4, <1>5, <1>6, <1>7, StepSorts, QuietSteps

LEMMA StepWorker ==
    ASSUME TInv, YInv, [Next]_vars
    PROVE  worker' \in Workers
<1>1. worker \in Workers /\ Hang \in Nat
  BY ShadowAssumption DEF YInv
<1>2. CASE TakeNext
  <2>1. CASE TakeNone
    BY <1>1, <2>1 DEF TakeNone
  <2>2. CASE TakeItem
    <3>1. PICK woken \in Wakes :
            \E n \in 1 .. Len(woken) : \E r \in Lowest(woken[n]) : TakeFrom(woken, n, r)
      BY <2>2 DEF TakeItem
    <3>4. PICK n \in 1 .. Len(woken) : \E r \in Lowest(woken[n]) : TakeFrom(woken, n, r)
      BY <3>1
    <3>5. PICK r \in Lowest(woken[n]) : TakeFrom(woken, n, r)
      BY <3>4
    <3>2. worker' = [at |-> "taken", req |-> r, age |-> 0]
      BY <3>5 DEF TakeFrom
    <3>3. r \in Ids
      <4>1. woken \in Seq(Sessions)
        BY WakesType
      <4>2. woken[n] \in Sessions
        BY <4>1
      <4> QED
        BY <3>1, <4>2 DEF Lowest, TInv, Shape
    <3> QED
      BY <1>1, <3>2, <3>3 DEF Workers
  <2> QED
    BY <1>2, <2>1, <2>2 DEF TakeNext
<1>3. CASE CompareDone
  BY <1>1, <1>3 DEF CompareDone, Idle, Workers
<1>4. CASE Tick
  <2>1. \/ worker' = worker
        \/ worker.age <= Hang /\ worker' = [worker EXCEPT !.age = worker.age + 1]
    <3>1. worker.age \in 0 .. Hang + 1
      BY <1>1 DEF Workers
    <3> QED
      BY <1>1, <1>4, <3>1 DEF Tick, Hangs
  <2>2. CASE worker.age <= Hang /\ worker' = [worker EXCEPT !.age = worker.age + 1]
    <3>1. worker.age + 1 \in 0 .. Hang + 1
      BY <1>1, <2>2 DEF Workers
    <3> QED
      BY <1>1, <2>2, <3>1 DEF Workers
  <2> QED
    BY <1>1, <2>1, <2>2
<1>5. CASE Others /\ ~Tick
  <2>1. worker' = worker
        \/ \E to \in {"read", "compared", "failed"} : worker' = [worker EXCEPT !.at = to]
    BY <1>5 DEF Others, FirstController, NewEpoch, CompareGated, CompareReset, CompareRead, ComparePut,
                CompareFailed, Comparing
  <2> QED
    BY <1>1, <2>1 DEF Workers
<1>6. CASE UNCHANGED vars
  BY <1>1, <1>6 DEF vars
<1> QED
  BY <1>1, <1>2, <1>3, <1>4, <1>5, <1>6, StepSorts, QuietSteps

LEMMA RecordedLimits ==
    ASSUME NEW b \in Limited, NEW trial \in BOOLEAN, NEW outcome, NEW kept \in Nat
    PROVE  Recorded(b, trial, outcome, kept) \in Limited
<1> DEFINE new == Recorded(b, trial, outcome, kept)
<1>1. Cooling \in Wait(Cooling) /\ Off \in Wait(Cooling)
  BY ShadowAssumption DEF Off, Wait
<1>2. /\ b.forced \in BOOLEAN /\ b.trial \in BOOLEAN
      /\ b.wait \in Wait(Cooling) /\ b.slow \in Nat /\ b.errors \in Nat
  BY DEF Limited
<1> HIDE DEF Wait
<1>3. CASE trial /\ outcome = "fast"
  <2>1. new = [forced |-> b.forced, wait |-> Off, trial |-> FALSE, slow |-> 0, errors |-> 0]
    BY <1>3 DEF Recorded, Closed
  <2> QED
    BY <1>1, <1>2, <2>1 DEF Limited
<1>4. CASE trial /\ outcome # "fast"
  <2>1. new = [forced |-> b.forced, wait |-> Cooling, trial |-> FALSE,
               slow |-> b.slow, errors |-> b.errors]
    BY <1>4 DEF Recorded
  <2> QED
    BY <1>1, <1>2, <2>1 DEF Limited
<1>5. CASE ~trial
  <2>1. PICK w \in Wait(Cooling), slow \in Nat, errs \in Nat :
          new = [forced |-> b.forced, wait |-> w, trial |-> b.trial, slow |-> slow, errors |-> errs]
    <3> DEFINE errs == IF outcome = "error" THEN kept + 1 ELSE b.errors
               slow == IF outcome = "slow" THEN b.slow + 1 ELSE IF outcome = "fast" THEN 0 ELSE b.slow
               opens == /\ b.wait = Off
                        /\ \/ outcome = "error" /\ errs >= ErrorLimit
                           \/ outcome = "slow" /\ slow >= SlowLimit
               w == IF opens THEN Cooling ELSE b.wait
    <3>1. errs \in Nat /\ slow \in Nat /\ w \in Wait(Cooling)
      BY <1>1, <1>2
    <3>2. new = [forced |-> b.forced, wait |-> w, trial |-> b.trial, slow |-> slow, errors |-> errs]
      BY <1>5 DEF Recorded
    <3> HIDE DEF errs, slow, w, new
    <3> QED
      BY <3>1, <3>2
  <2> QED
    BY <1>2, <2>1 DEF Limited
<1> QED
  BY <1>3, <1>4, <1>5

LEMMA StepBreaker ==
    ASSUME TInv, YInv, [Next]_vars
    PROVE  breaker' \in Limited
<1>1. breaker \in Limited
  BY DEF YInv
<1>2. ASSUME NEW trial \in BOOLEAN,
             \/ breaker' = breaker
             \/ breaker' = [breaker EXCEPT !.trial = trial]
             \/ breaker' = [breaker EXCEPT !.forced = TRUE]
      PROVE  breaker' \in Limited
  BY <1>1, <1>2 DEF Limited
<1>3. ASSUME NEW r \in Ids, Steps(r) PROVE breaker' \in Limited
  <2>1. \/ breaker' = breaker
        \/ breaker' = [breaker EXCEPT !.trial = breaker.trial \/ Trial(breaker)]
        \/ breaker' = [breaker EXCEPT !.trial = breaker.trial /\ ~turnOf[r].trial]
    BY <1>3 DEF Steps, BeginClosed, BeginRefused, BeginAdmitted, NoShadow,
           FinishNoEffect, FinishLost, FinishShed, FinishQueued, Resolved, Released
  <2> DEFINE got == breaker.trial \/ Trial(breaker)
             back == breaker.trial /\ ~turnOf[r].trial
  <2>2. got \in BOOLEAN /\ back \in BOOLEAN
    BY DEF Trial
  <2>3. \/ breaker' = breaker
        \/ breaker' = [breaker EXCEPT !.trial = got]
        \/ breaker' = [breaker EXCEPT !.trial = back]
    BY <2>1
  <2> HIDE DEF got, back
  <2> QED
    BY <1>2, <2>2, <2>3
<1>4. CASE CompareDone
  <2>1. turnOf[worker.req] \in Asked
    BY <1>4 DEF CompareDone, TInv, Shape, Active
  <2>2. PICK outcome \in {"error", "fast", "slow"}, kept \in 0 .. breaker.errors :
          breaker' = Recorded(breaker, turnOf[worker.req].trial, outcome, kept)
    BY <1>4 DEF CompareDone
  <2>3. turnOf[worker.req].trial \in BOOLEAN /\ kept \in Nat
    BY <2>1 DEF Asked
  <2> QED
    BY <1>1, <2>2, <2>3, RecordedLimits
<1>5. CASE Watch \/ Close
  <2>1. breaker' = breaker \/ breaker' = [breaker EXCEPT !.forced = TRUE]
    BY <1>5 DEF Watch, Close
  <2> QED
    BY <1>2, <2>1
<1>6. CASE Tick
  <2>1. breaker' = [breaker EXCEPT !.wait = Down(breaker.wait)]
    BY <1>6 DEF Tick
  <2>2. \A w \in Wait(Cooling) : Down(w) \in Wait(Cooling)
    BY ShadowAssumption DEF Wait, Down, Off
  <2> HIDE DEF Down
  <2> QED
    BY <1>1, <2>1, <2>2 DEF Limited
<1>7. CASE Others /\ ~Tick
  <2>1. UNCHANGED breaker
    BY <1>7 DEF Others, FirstController, NewEpoch, CompareGated, CompareReset, CompareRead, ComparePut,
                CompareFailed, Comparing
  <2> QED
    BY <1>1, <2>1
<1>8. CASE UNCHANGED vars
  BY <1>1, <1>8 DEF vars
<1> QED
  BY <1>1, <1>3, <1>4, <1>5, <1>6, <1>7, <1>8, StepSorts, QuietSteps

LEMMA StepFlags ==
    ASSUME TInv, YInv, [Next]_vars
    PROVE  /\ mode' \in {"up", "unhealthy", "closed"} /\ leaked' \subseteq Sessions
           /\ created' \in BOOLEAN /\ seenOn' \in BOOLEAN
<1>1. mode' = mode \/ mode' \in {"unhealthy", "closed"}
  <2>1. Watch \/ Close => mode' \in {"unhealthy", "closed"}
    BY DEF Watch, Close
  <2>2. UNCHANGED vars => mode' = mode
    BY DEF vars
  <2> QED
    BY <2>1, <2>2, StepSorts, QuietSteps
<1>2. created' \in {created, TRUE} /\ seenOn' \in {seenOn, TRUE, FALSE}
  <2>1. Others => created' \in {created, TRUE} /\ seenOn' \in {seenOn, TRUE, FALSE}
    BY DEF Others, FirstController, NewEpoch, CompareGated, CompareReset, CompareRead, ComparePut,
           CompareFailed, Comparing, Tick, switch
  <2>2. UNCHANGED vars => UNCHANGED <<created, seenOn>>
    BY DEF vars, switch
  <2>3. \A r \in Ids : UnseenSteps(r) => seenOn' \in {seenOn, FALSE} /\ created' = created
    BY UnseenFacts
  <2> QED
    BY <2>1, <2>2, <2>3, StepSorts, QuietSteps
<1>3. worker.at # "idle" => turnOf[worker.req].session \in Sessions
  BY DEF TInv, Shape, Active, Asked
<1>4. leaked' = leaked \/ \E lost \in SUBSET Sessions : leaked' \subseteq leaked \cup lost
  <2>1. CASE FirstController
    <3>1. {turnOf[r].session : r \in {q \in Ids : pc[q] = "missed"}} \in SUBSET Sessions
      BY DEF TInv, Shape, Active, Asked
    <3> QED
      BY <2>1, <3>1 DEF FirstController, Overlooks
  <2>2. Others /\ ~FirstController =>
          \/ leaked' = leaked
          \/ worker.at # "idle" /\ leaked' = leaked \cup {turnOf[worker.req].session}
    BY DEF Others, NewEpoch, CompareGated, CompareReset, CompareRead, ComparePut,
           CompareFailed, Comparing, Tick, history
  <2>3. UNCHANGED vars => leaked' = leaked
    BY DEF vars, history
  <2>4. ASSUME NEW r \in Ids, UnseenSteps(r)
        PROVE  leaked' = leaked \/ \E lost \in SUBSET Sessions : leaked' \subseteq leaked \cup lost
    <3>1. leaked' = leaked \/ \E s \in Sessions : Overlooks({s})
      BY <2>4, UnseenFacts
    <3> QED
      BY <3>1 DEF Overlooks
  <2>5. Others => leaked' = leaked \/ \E lost \in SUBSET Sessions : leaked' \subseteq leaked \cup lost
    BY <1>3, <2>1, <2>2
  <2> QED
    BY <2>3, <2>4, <2>5, StepSorts, QuietSteps
<1> QED
  BY <1>1, <1>2, <1>4 DEF YInv

LEMMA StepYInv == TInv /\ AInv /\ YInv /\ [Next]_vars => YInv'
<1> SUFFICES ASSUME TInv, AInv, YInv, [Next]_vars PROVE YInv'
  OBVIOUS
<1>1. sizeOf' \in [Ids -> Sizes \cup {0}] /\ items' <= MaxItems /\ bytes' <= MaxBytes
  BY StepLimits
<1>2. regs' \in Registers
  BY StepRegisters
<1>3. waits' \in [Sessions -> Wait(Gap)]
  BY StepWaits
<1>4. breaker' \in Limited
  BY StepBreaker
<1>5. worker' \in Workers
  BY StepWorker
<1>6. /\ mode' \in {"up", "unhealthy", "closed"} /\ leaked' \subseteq Sessions
      /\ created' \in BOOLEAN /\ seenOn' \in BOOLEAN
  BY StepFlags
<1> QED
  BY <1>1, <1>2, <1>3, <1>4, <1>5, <1>6 DEF YInv, Registers, Limited, Workers

LEMMA InitYInv == Init => YInv
<1> SUFFICES ASSUME Init PROVE YInv
  OBVIOUS
<1>1. Off \in Wait(Gap) /\ Off \in Wait(Cooling) /\ Hang \in Nat /\ MaxItems \in Nat /\ MaxBytes \in Nat
  BY ShadowAssumption DEF Wait, Off
<1>2. sizeOf \in [Ids -> Sizes \cup {0}] /\ items <= MaxItems /\ bytes <= MaxBytes
  BY <1>1 DEF Init
<1>3. regs \in Registers /\ waits \in [Sessions -> Wait(Gap)]
  BY <1>1 DEF Init, Registers
<1>4. breaker \in Limited /\ worker \in Workers
  BY <1>1 DEF Init, Limited, Workers, Closed, Idle
<1> QED
  BY <1>2, <1>3, <1>4 DEF Init, YInv

(* Every variable keeps its type: no turn is registered twice over, no wait or age exceeds its
   limit, and the queue and the store stay within theirs, which finish and _evict keep. *)
THEOREM TypesHold == Spec => []ShadowTypeOK
<1>1. Spec => []YInv
  <2>1. Spec => []AInv
    BY InitAInv, StepAInv, ShadowInvariant, PTL DEF Spec
  <2> QED
    BY <2>1, InitYInv, StepYInv, ShadowInvariant, PTL DEF Spec
<1>2. Spec => []CInv /\ []AInv
  <2>1. Spec => []CInv
    BY InitCInv, StepCInv, ShadowInvariant, PTL DEF Spec
  <2>2. Spec => []AInv
    BY InitAInv, StepAInv, ShadowInvariant, PTL DEF Spec
  <2> QED
    BY <2>1, <2>2, PTL
<1>3. TInv /\ SInv /\ CInv /\ AInv /\ YInv => ShadowTypeOK
  <2> SUFFICES ASSUME TInv, SInv, CInv, AInv, YInv PROVE ShadowTypeOK
    OBVIOUS
  <2>1. items \in 0 .. MaxItems /\ bytes \in 0 .. MaxBytes
    BY BooksAreNumbers, ShadowAssumption DEF YInv
  <2>2. /\ Entries(store) \subseteq Sessions /\ Len(store.order) <= StoreLimit
        /\ store.reset \subseteq Entries(store) /\ store.buried \subseteq Sessions
    <3>1. store.order \in Seq(Sessions)
      BY DEF SInv, WellKept, Stores
    <3>2. Entries(store) \subseteq Sessions
      BY <3>1 DEF Entries, Range
    <3> QED
      BY <3>2 DEF SInv, WellKept, Stores
  <2>3. /\ pc \in [Ids -> Where] /\ turnOf \in [Ids -> Asked \cup {NoTurn}]
        /\ heaps \in [Sessions -> SUBSET Ids] /\ ready \in Seq(Sessions) /\ parked \subseteq Sessions
    BY DEF TInv, Shape
  <2>4. /\ started \in [Sessions -> {"no", "epoch", "earlier"}] /\ broken \subseteq Sessions
        /\ counted \in [Ids -> Nat]
    BY DEF SInv, CInv
  <2> QED
    BY <2>1, <2>2, <2>3, <2>4 DEF ShadowTypeOK, YInv, Asked, Registers, Limited, Workers
<1> QED
  BY <1>1, <1>2, <1>3, LossesAreRemembered, ShadowInvariant, PTL
=================================================================================
