--------------------------- MODULE ProvidersProofs ---------------------------
(***************************************************************************)
(* The paid providers for any number of requests and any policy, and the   *)
(* rate limiter for any limits and callers. No allowance of attempts or of *)
(* units is exceeded, and what a provider was contacted for stays counted: *)
(* UInv is about the attempts and stands alone, VInv about their units and *)
(* DInv about days and connections, each inductive with it. The limiter's  *)
(* buckets hold what was admitted in their window, whatever is pruned or   *)
(* forgotten: RInv.                                                        *)
(***************************************************************************)
EXTENDS MCProviders, DataLemmas, FiniteSetTheorems, TLAPS

AnyStatus == Statuses \cup {"none", "pruned"}
Rows == [status : AnyStatus, day : Int, units : Int, actual : Int]
Underway == {"sending", "again", "posted", "posted_kept", "settling"}

UShape ==
    /\ asks \in Plans /\ stage \in [Requests -> Stages]
    /\ left \in [Requests -> [at : Places, rest : SUBSET Places]]
    /\ stamp \in [Requests -> [day : Int, refused : BOOLEAN]]
    /\ ledger \in [Attempts -> Rows]
    /\ today \in Int
    /\ \A r \in Requests : \A m \in left[r].rest : m > left[r].at

(* What was sent belongs to the provider now tried or to one tried before it, and the attempt
   under way is reserved: no attempt is reserved again once it was sent. *)
SentBehind ==
    /\ sent \subseteq Attempts
    /\ \A a \in sent :
         /\ stage[a[1]] # "new"
         /\ stage[a[1]] \in {"ready", "reserving", "sending"} => a[2] < left[a[1]].at
         /\ stage[a[1]] \in Underway => a[2] <= left[a[1]].at
    /\ \A r \in Requests : stage[r] \in Underway => ledger[Attempt(r)].status = "reserved"

UInv == UShape /\ WithinAttempts /\ SentBehind /\ SentIsCounted

LEMMA AttemptType ==
    ASSUME UShape, NEW r \in Requests
    PROVE  Attempt(r) \in Attempts /\ Attempt(r)[1] = r /\ Attempt(r)[2] = left[r].at
BY DEF UShape, Attempt, Attempts

LEMMA AttemptsFinite == IsFiniteSet(Attempts)
<1>1. IsFiniteSet(Requests)
  BY UsageAssumption
<1>2. IsFiniteSet(Places)
  <2>1. 1 \in Int /\ Len(Voices) + 1 \in Int
    BY UsageAssumption
  <2> QED
    BY <2>1, FS_Interval DEF Places
<1> QED
  BY <1>1, <1>2, FS_Product DEF Attempts

-----------------------------------------------------------------------------
(* Counting.                                                               *)

LEMMA NotMore ==
    ASSUME NEW S, NEW T, IsFiniteSet(S), T \subseteq S, NEW limit \in Int, Cardinality(S) <= limit
    PROVE  Cardinality(T) <= limit
<1>1. Cardinality(T) <= Cardinality(S) /\ IsFiniteSet(T)
  BY FS_Subset
<1>2. Cardinality(T) \in Nat /\ Cardinality(S) \in Nat
  BY <1>1, FS_CardinalityType
<1> QED
  BY <1>1, <1>2

LEMMA OneMore ==
    ASSUME NEW S, NEW T, NEW a, IsFiniteSet(S), T \subseteq S \cup {a}, NEW limit \in Int,
           ~(Cardinality(S) >= limit)
    PROVE  Cardinality(T) <= limit
<1>1. IsFiniteSet(S \cup {a})
      /\ (Cardinality(S \cup {a}) = Cardinality(S) \/ Cardinality(S \cup {a}) = Cardinality(S) + 1)
  BY FS_AddElement
<1>2. Cardinality(S) \in Nat
  BY FS_CardinalityType
<1>3. Cardinality(S \cup {a}) <= limit
  BY <1>1, <1>2
<1> QED
  BY <1>1, <1>3, NotMore

\* Counted attempts are some of the attempts.
LEMMA CountedFinite ==
    ASSUME NEW S \in SUBSET Attempts
    PROVE  IsFiniteSet(CountedIn(S))
BY AttemptsFinite, FS_Subset DEF CountedIn

LEMMA PolicyType ==
    ASSUME UShape, NEW r \in Requests
    PROVE  /\ PolicyOf(r).user \in Int /\ PolicyOf(r).deployment \in Int
           /\ PolicyOf(r).session \in Int /\ PerRequest \in Int /\ TotalCap \in Int
<1>1. CapabilityOf(asks[r].kind) \in Capabilities
  BY DEF CapabilityOf, Capabilities
<1> QED
  BY <1>1, UsageAssumption DEF PolicyOf, None

\* A step after which no attempt counts that did not count before, for the same day.
LEMMA NoMoreCounted ==
    ASSUME UInv, UShape', asks' = asks,
           \A a \in Attempts : Counted(a)' => Counted(a) /\ ledger'[a].day = ledger[a].day
    PROVE  WithinAttempts'
<1> SUFFICES ASSUME NEW r \in Requests, NEW day \in 1 .. MaxDay
             PROVE  /\ Cardinality(CountedIn(OfRequest(r))') <= PerRequest
                    /\ TotalCap # None => Cardinality(CountedIn(Attempts)') <= TotalCap
                    /\ asks'[r].session # "none" /\ PolicyOf(r).session' # None =>
                         Cardinality(CountedIn(OfSession(r, day))') <= PolicyOf(r).session'
                    /\ Cardinality(CountedIn(OfDay(r, day))') <= PolicyOf(r).deployment'
                    /\ Cardinality(CountedIn(OfUser(r, day))') <= PolicyOf(r).user'
  BY DEF WithinAttempts
<1>1. PolicyOf(r)' = PolicyOf(r)
  BY DEF PolicyOf
<1>2. /\ CountedIn(OfRequest(r))' \subseteq CountedIn(OfRequest(r))
      /\ CountedIn(Attempts)' \subseteq CountedIn(Attempts)
      /\ CountedIn(OfDay(r, day))' \subseteq CountedIn(OfDay(r, day))
      /\ CountedIn(OfUser(r, day))' \subseteq CountedIn(OfUser(r, day))
      /\ CountedIn(OfSession(r, day))' \subseteq CountedIn(OfSession(r, day))
  BY DEF CountedIn, OfRequest, OfDay, OfUser, OfSession
<1>3. /\ OfRequest(r) \in SUBSET Attempts /\ OfDay(r, day) \in SUBSET Attempts
      /\ OfUser(r, day) \in SUBSET Attempts /\ OfSession(r, day) \in SUBSET Attempts
  BY DEF OfRequest, OfDay, OfUser, OfSession
<1>4. /\ IsFiniteSet(CountedIn(OfRequest(r))) /\ IsFiniteSet(CountedIn(OfDay(r, day)))
      /\ IsFiniteSet(CountedIn(OfUser(r, day))) /\ IsFiniteSet(CountedIn(OfSession(r, day)))
      /\ IsFiniteSet(CountedIn(Attempts))
  BY <1>3, CountedFinite
<1>5. PolicyOf(r).user \in Int /\ PolicyOf(r).deployment \in Int /\ PolicyOf(r).session \in Int
      /\ PerRequest \in Int /\ TotalCap \in Int
  BY PolicyType DEF UInv
<1>6. WithinAttempts
  BY DEF UInv
<1>7. Cardinality(CountedIn(OfRequest(r))') <= PerRequest
  BY <1>2, <1>4, <1>5, <1>6, NotMore DEF WithinAttempts
<1>8. TotalCap # None => Cardinality(CountedIn(Attempts)') <= TotalCap
  BY <1>2, <1>4, <1>5, <1>6, NotMore DEF WithinAttempts
<1>9. asks[r].session # "none" /\ PolicyOf(r).session # None =>
        Cardinality(CountedIn(OfSession(r, day))') <= PolicyOf(r).session
  BY <1>2, <1>4, <1>5, <1>6, NotMore DEF WithinAttempts
<1>10. Cardinality(CountedIn(OfDay(r, day))') <= PolicyOf(r).deployment
  BY <1>2, <1>4, <1>5, <1>6, NotMore DEF WithinAttempts
<1>11. Cardinality(CountedIn(OfUser(r, day))') <= PolicyOf(r).user
  BY <1>2, <1>4, <1>5, <1>6, NotMore DEF WithinAttempts
<1> QED
  BY <1>1, <1>7, <1>8, <1>9, <1>10, <1>11

\* The transaction of reserve adds one attempt, to allowances that have room.
LEMMA ReserveWithin ==
    ASSUME UInv, NEW q \in Requests, asks' = asks,
           ~BudgetRefusal(q, stamp[q].day),
           ledger' = [ledger EXCEPT ![Attempt(q)] = Row(q, "reserved", stamp[q].day)]
    PROVE  WithinAttempts'
<1> DEFINE a == Attempt(q)
<1> SUFFICES ASSUME NEW r \in Requests, NEW day \in 1 .. MaxDay
             PROVE  /\ Cardinality(CountedIn(OfRequest(r))') <= PerRequest
                    /\ TotalCap # None => Cardinality(CountedIn(Attempts)') <= TotalCap
                    /\ asks'[r].session # "none" /\ PolicyOf(r).session' # None =>
                         Cardinality(CountedIn(OfSession(r, day))') <= PolicyOf(r).session'
                    /\ Cardinality(CountedIn(OfDay(r, day))') <= PolicyOf(r).deployment'
                    /\ Cardinality(CountedIn(OfUser(r, day))') <= PolicyOf(r).user'
  BY DEF WithinAttempts
<1>0. UShape /\ WithinAttempts
  BY DEF UInv
<1>1. PolicyOf(r)' = PolicyOf(r)
  BY DEF PolicyOf
<1>2. a \in Attempts /\ a[1] = q
  BY <1>0, AttemptType
<1>3. /\ ledger'[a].day = stamp[q].day
      /\ \A b \in Attempts : b # a => ledger'[b] = ledger[b]
  BY <1>0, <1>2 DEF UShape, Row
<1>4. /\ CountedIn(OfRequest(r))' \subseteq CountedIn(OfRequest(r)) \cup {a}
      /\ CountedIn(Attempts)' \subseteq CountedIn(Attempts) \cup {a}
      /\ CountedIn(OfDay(r, day))' \subseteq CountedIn(OfDay(r, day)) \cup {a}
      /\ CountedIn(OfUser(r, day))' \subseteq CountedIn(OfUser(r, day)) \cup {a}
      /\ CountedIn(OfSession(r, day))' \subseteq CountedIn(OfSession(r, day)) \cup {a}
  BY <1>3 DEF CountedIn, Counted, OfRequest, OfDay, OfUser, OfSession
<1>5. /\ OfRequest(r) \in SUBSET Attempts /\ OfDay(r, day) \in SUBSET Attempts
      /\ OfUser(r, day) \in SUBSET Attempts /\ OfSession(r, day) \in SUBSET Attempts
  BY DEF OfRequest, OfDay, OfUser, OfSession
<1>6. /\ IsFiniteSet(CountedIn(OfRequest(r))) /\ IsFiniteSet(CountedIn(OfDay(r, day)))
      /\ IsFiniteSet(CountedIn(OfUser(r, day))) /\ IsFiniteSet(CountedIn(OfSession(r, day)))
      /\ IsFiniteSet(CountedIn(Attempts))
  BY <1>5, CountedFinite
<1>7. PolicyOf(r).user \in Int /\ PolicyOf(r).deployment \in Int /\ PolicyOf(r).session \in Int
      /\ PerRequest \in Int /\ TotalCap \in Int
  BY <1>0, PolicyType
<1>8. Cardinality(CountedIn(OfRequest(r))') <= PerRequest
  <2>1. CASE a \in CountedIn(OfRequest(r))'
    <3>1. OfRequest(r) = OfRequest(q)
      BY <1>2, <2>1 DEF CountedIn, OfRequest
    <3>2. ~(Cardinality(CountedIn(OfRequest(r))) >= PerRequest)
      BY <3>1, UsageAssumption DEF BudgetRefusal, Full, None
    <3> QED
      BY <3>2, <1>4, <1>6, <1>7, OneMore
  <2>2. CASE a \notin CountedIn(OfRequest(r))'
    BY <2>2, <1>0, <1>4, <1>6, <1>7, NotMore DEF WithinAttempts
  <2> QED
    BY <2>1, <2>2
<1>9. ASSUME TotalCap # None PROVE Cardinality(CountedIn(Attempts)') <= TotalCap
  <2>1. ~(Cardinality(CountedIn(Attempts)) >= TotalCap)
    BY <1>9 DEF BudgetRefusal, Full
  <2> QED
    BY <2>1, <1>4, <1>6, <1>7, OneMore
<1>10. ASSUME asks[r].session # "none", PolicyOf(r).session # None
       PROVE  Cardinality(CountedIn(OfSession(r, day))') <= PolicyOf(r).session
  <2>1. CASE a \in CountedIn(OfSession(r, day))'
    <3>1. /\ day = stamp[q].day /\ asks[q].session = asks[r].session
          /\ CapabilityOf(asks[q].kind) = CapabilityOf(asks[r].kind)
      BY <1>2, <1>3, <2>1 DEF CountedIn, OfSession, OfDay
    <3>2. OfSession(r, day) = OfSession(q, stamp[q].day) /\ PolicyOf(q) = PolicyOf(r)
      BY <3>1 DEF OfSession, OfDay, PolicyOf
    <3>3. ~(Cardinality(CountedIn(OfSession(r, day))) >= PolicyOf(r).session)
      BY <1>10, <3>1, <3>2 DEF BudgetRefusal, Full
    <3> QED
      BY <3>3, <1>4, <1>6, <1>7, OneMore
  <2>2. CASE a \notin CountedIn(OfSession(r, day))'
    BY <1>10, <2>2, <1>0, <1>4, <1>6, <1>7, NotMore DEF WithinAttempts
  <2> QED
    BY <2>1, <2>2
<1>11. Cardinality(CountedIn(OfDay(r, day))') <= PolicyOf(r).deployment
  <2>1. CASE a \in CountedIn(OfDay(r, day))'
    <3>1. day = stamp[q].day /\ CapabilityOf(asks[q].kind) = CapabilityOf(asks[r].kind)
      BY <1>2, <1>3, <2>1 DEF CountedIn, OfDay
    <3>2. OfDay(r, day) = OfDay(q, stamp[q].day) /\ PolicyOf(q) = PolicyOf(r)
      BY <3>1 DEF OfDay, PolicyOf
    <3>3. PolicyOf(r).deployment # None
      <4>1. CapabilityOf(asks[r].kind) \in Capabilities
        BY DEF CapabilityOf, Capabilities
      <4> QED
        BY <4>1, UsageAssumption DEF PolicyOf, None
    <3>4. ~(Cardinality(CountedIn(OfDay(r, day))) >= PolicyOf(r).deployment)
      BY <3>2, <3>3 DEF BudgetRefusal, Full
    <3> QED
      BY <3>4, <1>4, <1>6, <1>7, OneMore
  <2>2. CASE a \notin CountedIn(OfDay(r, day))'
    BY <2>2, <1>0, <1>4, <1>6, <1>7, NotMore DEF WithinAttempts
  <2> QED
    BY <2>1, <2>2
<1>12. Cardinality(CountedIn(OfUser(r, day))') <= PolicyOf(r).user
  <2>1. CASE a \in CountedIn(OfUser(r, day))'
    <3>1. /\ day = stamp[q].day /\ asks[q].user = asks[r].user
          /\ CapabilityOf(asks[q].kind) = CapabilityOf(asks[r].kind)
      BY <1>2, <1>3, <2>1 DEF CountedIn, OfUser, OfDay
    <3>2. OfUser(r, day) = OfUser(q, stamp[q].day) /\ PolicyOf(q) = PolicyOf(r)
      BY <3>1 DEF OfUser, OfDay, PolicyOf
    <3>3. PolicyOf(r).user # None
      <4>1. CapabilityOf(asks[r].kind) \in Capabilities
        BY DEF CapabilityOf, Capabilities
      <4> QED
        BY <4>1, UsageAssumption DEF PolicyOf, None
    <3>4. ~(Cardinality(CountedIn(OfUser(r, day))) >= PolicyOf(r).user)
      BY <3>2, <3>3 DEF BudgetRefusal, Full
    <3> QED
      BY <3>4, <1>4, <1>6, <1>7, OneMore
  <2>2. CASE a \notin CountedIn(OfUser(r, day))'
    BY <2>2, <1>0, <1>4, <1>6, <1>7, NotMore DEF WithinAttempts
  <2> QED
    BY <2>1, <2>2
<1> QED
  BY <1>1, <1>8, <1>9, <1>10, <1>11, <1>12

-----------------------------------------------------------------------------
(* The steps.                                                              *)

LEMMA InitUInv == UsageInit => UInv
<1> SUFFICES ASSUME UsageInit PROVE UInv
  OBVIOUS
<1>1. UShape
  BY UsageAssumption DEF UShape, UsageInit, Stages, NothingLeft, NoStamp, NoRow, Rows, AnyStatus, Places
<1>2. CountedIn(Attempts) = {}
  BY DEF CountedIn, Counted, UsageInit, NoRow
<1>3. \A S \in SUBSET Attempts : CountedIn(S) = {}
  BY <1>2 DEF CountedIn
<1>4. WithinAttempts
  <2> SUFFICES ASSUME NEW r \in Requests, NEW day \in 1 .. MaxDay
               PROVE  /\ Cardinality(CountedIn(OfRequest(r))) <= PerRequest
                      /\ TotalCap # None => Cardinality(CountedIn(Attempts)) <= TotalCap
                      /\ PolicyOf(r).session # None =>
                           Cardinality(CountedIn(OfSession(r, day))) <= PolicyOf(r).session
                      /\ Cardinality(CountedIn(OfDay(r, day))) <= PolicyOf(r).deployment
                      /\ Cardinality(CountedIn(OfUser(r, day))) <= PolicyOf(r).user
    BY DEF WithinAttempts
  <2>1. /\ CountedIn(OfRequest(r)) = {} /\ CountedIn(OfDay(r, day)) = {}
        /\ CountedIn(OfUser(r, day)) = {} /\ CountedIn(OfSession(r, day)) = {}
    BY <1>3 DEF OfRequest, OfDay, OfUser, OfSession
  <2>2. Cardinality({}) = 0
    BY FS_EmptySet
  <2>3. CapabilityOf(asks[r].kind) \in Capabilities
    BY DEF CapabilityOf, Capabilities
  <2>4. /\ PolicyOf(r).user \in Nat /\ PolicyOf(r).deployment \in Nat
        /\ PolicyOf(r).session \in Nat \cup {None} /\ PerRequest \in Nat /\ TotalCap \in Nat \cup {None}
    BY <2>3, UsageAssumption DEF PolicyOf
  <2> QED
    BY <1>2, <2>1, <2>2, <2>4
<1>5. SentBehind /\ SentIsCounted
  BY DEF SentBehind, SentIsCounted, UsageInit, Underway
<1> QED
  BY <1>1, <1>4, <1>5 DEF UInv

\* A request goes to the first of some providers that are behind the one it tried.
LEMMA TriesLeft ==
    ASSUME UShape, NEW r \in Requests, NEW places \in SUBSET Places, Tries(r, places)
    PROVE  /\ left' \in [Requests -> [at : Places, rest : SUBSET Places]]
           /\ \A q \in Requests : \A m \in left'[q].rest : m > left'[q].at
           /\ left'[r].at \in places /\ \A q \in Requests \ {r} : left'[q] = left[q]
           /\ stage' = [stage EXCEPT ![r] = "ready"]
<1>1. PICK n \in places :
        /\ \A m \in places : n <= m
        /\ left' = [left EXCEPT ![r] = [at |-> n, rest |-> places \ {n}]]
        /\ stage' = [stage EXCEPT ![r] = "ready"]
  BY DEF Tries, Moves
<1>2. \A m \in places : m \in Int
  BY DEF Places
<1>3. \A m \in places \ {n} : m > n
  BY <1>1, <1>2
<1> QED
  BY <1>1, <1>3 DEF UShape

\* A request that ends has no provider left.
LEMMA EndsLeft ==
    ASSUME UShape, NEW r \in Requests, NEW how \in Stages, Ends(r, how)
    PROVE  /\ left' \in [Requests -> [at : Places, rest : SUBSET Places]]
           /\ \A q \in Requests : \A m \in left'[q].rest : m > left'[q].at
           /\ \A q \in Requests \ {r} : left'[q] = left[q]
           /\ stage' = [stage EXCEPT ![r] = how]
<1>1. 1 \in Places
  BY UsageAssumption DEF Places
<1>2. left' = [left EXCEPT ![r] = NothingLeft] /\ stage' = [stage EXCEPT ![r] = how]
  BY DEF Ends, Moves
<1> QED
  BY <1>1, <1>2 DEF UShape, NothingLeft

\* A step of a request that changes neither the ledger nor what was sent.
LEMMA QuietStep ==
    ASSUME UInv, UShape', UNCHANGED <<asks, ledger, sent, today>>, NEW r \in Requests,
           \A q \in Requests \ {r} : left'[q] = left[q] /\ stage'[q] = stage[q],
           \/ stage'[r] = "unanswered" \/ stage'[r] = "answered"
           \/ stage[r] = "new" /\ stage'[r] = "ready"
           \/ stage[r] = "settling" /\ stage'[r] = "ready" /\ left'[r].at \in left[r].rest
           \/ stage[r] = "ready" /\ stage'[r] = "reserving" /\ left'[r] = left[r]
           \/ stage[r] \in Underway \ {"sending"} /\ stage'[r] \in Underway \ {"sending"} /\ left'[r] = left[r]
    PROVE  UInv'
<1>1. WithinAttempts'
  BY NoMoreCounted DEF Counted
<1>2. SentIsCounted'
  BY DEF UInv, SentIsCounted, Counted
<1>3. \A q \in Requests : left[q].at \in Int /\ left'[q].at \in Int
  BY DEF UInv, UShape, Places
<1>4. \A a \in sent : a[1] \in Requests /\ a[2] \in Int
  BY DEF UInv, SentBehind, Attempts, Places
<1>5. ASSUME NEW a \in sent
      PROVE  /\ stage'[a[1]] # "new"
             /\ stage'[a[1]] \in {"ready", "reserving", "sending"} => a[2] < left'[a[1]].at
             /\ stage'[a[1]] \in Underway => a[2] <= left'[a[1]].at
  <2>1. CASE a[1] # r
    BY <1>4, <2>1 DEF UInv, SentBehind
  <2>2. CASE a[1] = r
    <3>1. left[r].rest \subseteq Places /\ \A m \in left[r].rest : m > left[r].at
      BY DEF UInv, UShape
    <3> QED
      BY <1>3, <1>4, <2>2, <3>1 DEF UInv, SentBehind, Underway, Places
  <2> QED
    BY <2>1, <2>2
<1>6. ASSUME NEW q \in Requests, stage'[q] \in Underway
      PROVE  ledger'[Attempt(q)'].status = "reserved"
  BY <1>6 DEF UInv, SentBehind, Underway, Attempt
<1>7. SentBehind'
  BY <1>5, <1>6 DEF SentBehind, UInv
<1> QED
  BY <1>1, <1>2, <1>7 DEF UInv

LEMMA BeginStep ==
    ASSUME UInv, NEW r \in Requests, Begin(r) \/ TooLarge(r)
    PROVE  UInv'
<1>1. CASE Begin(r) /\ Tries(r, Listed(r))
  <2>1. Listed(r) \in SUBSET Places
    BY UsageAssumption DEF Listed, Places
  <2>2. stage[r] = "new" /\ UNCHANGED <<asks, stamp, ledger, today, sent>>
    BY <1>1 DEF Begin
  <2>3. /\ left' \in [Requests -> [at : Places, rest : SUBSET Places]]
        /\ \A q \in Requests : \A m \in left'[q].rest : m > left'[q].at
        /\ \A q \in Requests \ {r} : left'[q] = left[q]
        /\ stage' = [stage EXCEPT ![r] = "ready"]
    BY <1>1, <2>1, TriesLeft DEF UInv
  <2>4. UShape'
    BY <2>2, <2>3 DEF UInv, UShape, Stages
  <2> QED
    BY <2>2, <2>3, <2>4, QuietStep DEF UInv, UShape
<1>2. CASE Begin(r) /\ Ends(r, "unanswered")
  <2>1. "unanswered" \in Stages
    BY DEF Stages, Ended
  <2>2. UNCHANGED <<asks, stamp, ledger, today, sent>>
    BY <1>2 DEF Begin
  <2>3. /\ left' \in [Requests -> [at : Places, rest : SUBSET Places]]
        /\ \A q \in Requests : \A m \in left'[q].rest : m > left'[q].at
        /\ \A q \in Requests \ {r} : left'[q] = left[q]
        /\ stage' = [stage EXCEPT ![r] = "unanswered"]
    BY <1>2, <2>1, EndsLeft DEF UInv
  <2>4. UShape'
    BY <2>1, <2>2, <2>3 DEF UInv, UShape
  <2> QED
    BY <2>2, <2>3, <2>4, QuietStep DEF UInv, UShape
<1>3. CASE TooLarge(r)
  <2>1. stage' = [stage EXCEPT ![r] = "unanswered"] /\ UNCHANGED <<asks, left, stamp, ledger, today, sent>>
    BY <1>3 DEF TooLarge, Moves
  <2>2. UShape'
    BY <2>1 DEF UInv, UShape, Stages, Ended
  <2> QED
    BY <2>1, <2>2, QuietStep DEF UInv, UShape
<1> QED
  BY <1>1, <1>2, <1>3 DEF Begin

LEMMA ReadStep ==
    ASSUME UInv, NEW r \in Requests, ReadPolicy(r) \/ ReserveFails(r)
    PROVE  UInv'
<1>1. CASE ReadPolicy(r)
  <2>1. /\ stage[r] = "ready" /\ stage' = [stage EXCEPT ![r] = "reserving"]
        /\ stamp' = [stamp EXCEPT ![r] = [day |-> today, refused |-> StaticRefusal(r)]]
        /\ UNCHANGED <<asks, left, ledger, today, sent>>
    BY <1>1 DEF ReadPolicy, Moves
  <2>2. [day |-> today, refused |-> StaticRefusal(r)] \in [day : Int, refused : BOOLEAN]
    BY DEF UInv, UShape, StaticRefusal
  <2>3. UShape'
    BY <2>1, <2>2 DEF UInv, UShape, Stages
  <2> QED
    BY <2>1, <2>3, QuietStep DEF UInv, UShape
<1>2. CASE ReserveFails(r)
  <2>1. "unanswered" \in Stages
    BY DEF Stages, Ended
  <2>2. UNCHANGED <<asks, ledger, today, sent>> /\ Ends(r, "unanswered") /\ stamp' = [stamp EXCEPT ![r] = NoStamp]
    BY <1>2 DEF ReserveFails, Forgets
  <2>3. /\ left' \in [Requests -> [at : Places, rest : SUBSET Places]]
        /\ \A q \in Requests : \A m \in left'[q].rest : m > left'[q].at
        /\ \A q \in Requests \ {r} : left'[q] = left[q]
        /\ stage' = [stage EXCEPT ![r] = "unanswered"]
    BY <2>1, <2>2, EndsLeft DEF UInv
  <2>4. UShape'
    BY <2>1, <2>2, <2>3 DEF UInv, UShape, NoStamp
  <2> QED
    BY <2>2, <2>3, <2>4, QuietStep DEF UInv, UShape
<1> QED
  BY <1>1, <1>2

\* The transaction: the row it inserts is of an attempt that was not sent yet.
LEMMA ReserveStep ==
    ASSUME UInv, NEW r \in Requests, Reserve(r)
    PROVE  UInv'
<1> DEFINE a == Attempt(r)
<1>0. UShape
  BY DEF UInv
<1>1. a \in Attempts /\ a[1] = r /\ a[2] = left[r].at
  BY <1>0, AttemptType
<1>2. /\ stage[r] = "reserving" /\ UNCHANGED <<asks, today, sent>>
      /\ stamp' = [stamp EXCEPT ![r] = NoStamp]
  BY DEF Reserve, Forgets
<1>3. stamp' \in [Requests -> [day : Int, refused : BOOLEAN]]
  BY <1>0, <1>2 DEF UShape, NoStamp
<1>4. stamp[r].day \in Int /\ asks[r].units \in Int
  BY <1>0, UsageAssumption DEF UShape
<1>5. a \notin sent
  BY <1>1, <1>2 DEF UInv, SentBehind, UShape, Places
<1>6. CASE ledger' = [ledger EXCEPT ![a] = Row(r, "blocked", stamp[r].day)] /\ Ends(r, "unanswered")
  <2>1. "unanswered" \in Stages
    BY DEF Stages, Ended
  <2>2. /\ left' \in [Requests -> [at : Places, rest : SUBSET Places]]
        /\ \A q \in Requests : \A m \in left'[q].rest : m > left'[q].at
        /\ \A q \in Requests \ {r} : left'[q] = left[q]
        /\ stage' = [stage EXCEPT ![r] = "unanswered"]
    BY <1>0, <1>6, <2>1, EndsLeft
  <2>3. Row(r, "blocked", stamp[r].day) \in Rows
    BY <1>4 DEF Row, Rows, AnyStatus, Statuses
  <2>4. UShape'
    BY <1>0, <1>2, <1>3, <1>6, <2>1, <2>2, <2>3 DEF UShape
  <2>5. /\ ledger'[a].status = "blocked"
        /\ \A b \in Attempts : b # a => ledger'[b] = ledger[b]
    BY <1>0, <1>1, <1>6 DEF UShape, Row
  <2>6. WithinAttempts'
    BY <1>2, <2>4, <2>5, NoMoreCounted DEF Counted
  <2>7. SentIsCounted'
    BY <1>2, <1>5, <2>5 DEF UInv, SentIsCounted, SentBehind, Counted
  <2>8. \A q \in Requests : q # r /\ stage[q] \in Underway => Attempt(q) # a /\ Attempt(q) \in Attempts
    BY <1>0, <1>1, AttemptType
  <2>9. \A q \in Requests : stage'[q] \in Underway => q # r /\ stage[q] \in Underway /\ Attempt(q)' = Attempt(q)
    BY <2>2 DEF Underway, Attempt, UInv, UShape
  <2>10. SentBehind'
    BY <1>0, <1>1, <1>2, <2>2, <2>5, <2>8, <2>9 DEF SentBehind, UInv, UShape, Underway, Attempts
  <2> QED
    BY <2>4, <2>6, <2>7, <2>10 DEF UInv
<1>7. CASE /\ ~BudgetRefusal(r, stamp[r].day)
           /\ ledger' = [ledger EXCEPT ![a] = Row(r, "reserved", stamp[r].day)]
           /\ stage' = [stage EXCEPT ![r] = "sending"] /\ UNCHANGED left
  <2>1. Row(r, "reserved", stamp[r].day) \in Rows
    BY <1>4 DEF Row, Rows, AnyStatus, Statuses
  <2>2. UShape'
    BY <1>0, <1>2, <1>3, <1>7, <2>1 DEF UShape, Stages
  <2>3. /\ ledger'[a].status = "reserved"
        /\ \A b \in Attempts : b # a => ledger'[b] = ledger[b]
    BY <1>0, <1>1, <1>7 DEF UShape, Row
  <2>4. WithinAttempts'
    BY <1>2, <1>7, ReserveWithin
  <2>5. SentIsCounted'
    BY <1>2, <1>5, <2>3 DEF UInv, SentIsCounted, SentBehind, Counted
  <2>6. \A q \in Requests : Attempt(q)' = Attempt(q) /\ Attempt(q) \in Attempts /\ (q # r => Attempt(q) # a)
    BY <1>0, <1>1, <1>7, AttemptType DEF Attempt
  <2>7. SentBehind'
    <3>1. ASSUME NEW b \in sent
          PROVE  /\ stage'[b[1]] # "new"
                 /\ stage'[b[1]] \in {"ready", "reserving", "sending"} => b[2] < left'[b[1]].at
                 /\ stage'[b[1]] \in Underway => b[2] <= left'[b[1]].at
      <4>1. b[1] \in Requests /\ b[2] \in Int /\ left[b[1]].at \in Int
        BY <1>0 DEF UInv, SentBehind, Attempts, Places, UShape
      <4>2. CASE b[1] = r
        BY <1>0, <1>2, <1>7, <4>1, <4>2 DEF UInv, SentBehind, UShape
      <4>3. CASE b[1] # r
        BY <1>0, <1>7, <4>1, <4>3 DEF UInv, SentBehind, UShape
      <4> QED
        BY <4>2, <4>3
    <3>2. ASSUME NEW q \in Requests, stage'[q] \in Underway
          PROVE  ledger'[Attempt(q)'].status = "reserved"
      <4>1. CASE q = r
        BY <2>3, <2>6, <4>1
      <4>2. CASE q # r
        BY <1>0, <1>7, <2>3, <2>6, <3>2, <4>2 DEF UInv, SentBehind, UShape
      <4> QED
        BY <4>1, <4>2
    <3> QED
      BY <1>2, <3>1, <3>2 DEF SentBehind, UInv
  <2> QED
    BY <2>2, <2>4, <2>5, <2>7 DEF UInv
<1> QED
  BY <1>6, <1>7 DEF Reserve, Moves

\* The provider is contacted, for a reserved attempt.
LEMMA PostStep ==
    ASSUME UInv, NEW r \in Requests, Post(r)
    PROVE  UInv'
<1> DEFINE a == Attempt(r)
<1>0. UShape
  BY DEF UInv
<1>1. a \in Attempts /\ a[1] = r /\ a[2] = left[r].at /\ left[r].at \in Int
  BY <1>0, AttemptType DEF UShape, Places
<1>2. /\ stage[r] \in {"sending", "again"} /\ sent' = sent \cup {a}
      /\ UNCHANGED <<asks, left, stamp, ledger, today>>
  BY DEF Post
<1>3. PICK to \in {"posted", "posted_kept"} : stage' = [stage EXCEPT ![r] = to]
  BY DEF Post, Checkout, Moves
<1>4. UShape'
  BY <1>0, <1>2, <1>3 DEF UShape, Stages
<1>5. ledger[a].status = "reserved"
  BY <1>2 DEF UInv, SentBehind, Underway
<1>6. WithinAttempts'
  BY <1>2, <1>4, NoMoreCounted DEF Counted
<1>7. SentIsCounted'
  BY <1>2, <1>5 DEF UInv, SentIsCounted, Counted
<1>8. \A q \in Requests : Attempt(q)' = Attempt(q)
  BY <1>2 DEF Attempt
<1>10. \A b \in sent : b[1] \in Requests /\ b[2] \in Int
  BY DEF UInv, SentBehind, Attempts, Places
<1>11. ASSUME NEW b \in sent'
       PROVE  /\ stage'[b[1]] # "new"
              /\ stage'[b[1]] \in {"ready", "reserving", "sending"} => b[2] < left'[b[1]].at
              /\ stage'[b[1]] \in Underway => b[2] <= left'[b[1]].at
  <2>1. CASE b = a
    BY <1>0, <1>1, <1>2, <1>3, <2>1 DEF UShape
  <2>2. CASE b \in sent /\ b[1] = r
    BY <1>0, <1>1, <1>2, <1>3, <1>10, <2>2 DEF UShape, UInv, SentBehind, Underway
  <2>3. CASE b \in sent /\ b[1] # r
    BY <1>0, <1>2, <1>3, <1>10, <2>3 DEF UShape, UInv, SentBehind
  <2> QED
    BY <1>2, <2>1, <2>2, <2>3
<1>12. \A q \in Requests : stage'[q] \in Underway => ledger'[Attempt(q)'].status = "reserved"
  BY <1>0, <1>2, <1>3, <1>5, <1>8 DEF UShape, UInv, SentBehind
<1>9. SentBehind'
  BY <1>1, <1>2, <1>11, <1>12 DEF SentBehind, UInv
<1> QED
  BY <1>4, <1>6, <1>7, <1>9 DEF UInv

LEMMA AnswerStep ==
    ASSUME UInv, NEW r \in Requests, PostStale(r) \/ PostAnswered(r) \/ PostFailed(r)
    PROVE  UInv'
<1>1. PICK to \in {"again", "settling"} : stage' = [stage EXCEPT ![r] = to]
  BY DEF PostStale, PostAnswered, PostFailed, Moves
<1>2. /\ stage[r] \in {"posted", "posted_kept"}
      /\ UNCHANGED <<asks, left, stamp, ledger, today, sent>>
  BY DEF PostStale, PostAnswered, PostFailed
<1>3. UShape'
  BY <1>1, <1>2 DEF UInv, UShape, Stages
<1>4. stage[r] \in Underway \ {"sending"} /\ to \in Underway \ {"sending"}
  BY <1>2 DEF Underway
<1> QED
  BY <1>1, <1>2, <1>3, <1>4, QuietStep DEF UInv, UShape

-----------------------------------------------------------------------------
(* Settling, and what happens around the requests.                         *)

\* An outcome replaces a reserved row, and the attempt stays counted for its day.
LEMMA SettledRow ==
    ASSUME NEW row \in Rows, NEW status \in {"succeeded", "failed"}, NEW actual \in Int
    PROVE  /\ Settled(row, status, actual) \in Rows
           /\ Settled(row, status, actual).day = row.day
           /\ row.status # "reserved" => Settled(row, status, actual) = row
           /\ row.status = "reserved" => Settled(row, status, actual).status = status
BY DEF Settled, Rows, AnyStatus, Statuses

LEMMA AfterStep ==
    ASSUME UInv, NEW r \in Requests, After(r), stage[r] = "settling",
           ledger' \in [Attempts -> Rows],
           \A b \in Attempts : b # Attempt(r) => ledger'[b] = ledger[b],
           ledger'[Attempt(r)].day = ledger[Attempt(r)].day,
           ledger'[Attempt(r)].status \in {"reserved", "succeeded", "failed"}
    PROVE  UInv'
<1> DEFINE a == Attempt(r)
<1>0. UShape
  BY DEF UInv
<1>1. a \in Attempts /\ a[1] = r /\ a[2] = left[r].at
  BY <1>0, AttemptType
<1>2. UNCHANGED <<asks, stamp, today, sent>>
  BY DEF After
<1>3. Counted(a)
  BY DEF UInv, SentBehind, Underway, Counted
<1>4. \/ Tries(r, left[r].rest)
      \/ \E how \in {"answered", "unanswered"} : Ends(r, how)
  BY DEF After
<1>5. PICK to \in {"answered", "unanswered", "ready"} :
        /\ left' \in [Requests -> [at : Places, rest : SUBSET Places]]
        /\ \A q \in Requests : \A m \in left'[q].rest : m > left'[q].at
        /\ \A q \in Requests \ {r} : left'[q] = left[q]
        /\ stage' = [stage EXCEPT ![r] = to]
        /\ to = "ready" => left'[r].at \in left[r].rest
  <2>1. CASE Tries(r, left[r].rest)
    <3>1. left[r].rest \in SUBSET Places
      BY <1>0 DEF UShape
    <3>2. /\ left' \in [Requests -> [at : Places, rest : SUBSET Places]]
          /\ \A q \in Requests : \A m \in left'[q].rest : m > left'[q].at
          /\ left'[r].at \in left[r].rest /\ \A q \in Requests \ {r} : left'[q] = left[q]
          /\ stage' = [stage EXCEPT ![r] = "ready"]
      BY <1>0, <2>1, <3>1, TriesLeft
    <3> QED
      BY <3>2
  <2>2. ASSUME NEW how \in {"answered", "unanswered"}, Ends(r, how)
        PROVE  /\ left' \in [Requests -> [at : Places, rest : SUBSET Places]]
               /\ \A q \in Requests : \A m \in left'[q].rest : m > left'[q].at
               /\ \A q \in Requests \ {r} : left'[q] = left[q]
               /\ stage' = [stage EXCEPT ![r] = how]
    <3>1. how \in Stages
      BY DEF Stages, Ended
    <3> QED
      BY <1>0, <2>2, <3>1, EndsLeft
  <2> QED
    BY <1>4, <2>1, <2>2
<1>6. UShape'
  BY <1>0, <1>2, <1>5 DEF UShape, Stages, Ended
<1>7. WithinAttempts'
  <2>1. \A b \in Attempts : Counted(b)' => Counted(b) /\ ledger'[b].day = ledger[b].day
    <3>1. \A b \in Attempts : b # a => ledger'[b] = ledger[b]
      OBVIOUS
    <3>2. \A b \in Attempts : b = a => Counted(b) /\ ledger'[b].day = ledger[b].day
      BY <1>3
    <3> QED
      BY <3>1, <3>2 DEF Counted
  <2> QED
    BY <1>2, <1>6, <2>1, NoMoreCounted
<1>8. SentIsCounted'
  <2>1. ASSUME NEW b \in sent
        PROVE  \/ ledger'[b].status \notin {"none", "blocked", "not_sent", "pruned"}
               \/ ledger'[b].status = "pruned" /\ ledger'[b].day < today - Retention
    <3>1. CASE b = a
      BY <3>1
    <3>2. CASE b # a
      BY <3>2 DEF UInv, SentIsCounted, SentBehind, Counted
    <3> QED
      BY <3>1, <3>2
  <2> QED
    BY <1>2, <2>1 DEF SentIsCounted, Counted
<1>9. \A q \in Requests : Attempt(q) \in Attempts /\ Attempt(q)[1] = q
  BY <1>0, AttemptType
<1>10. ASSUME NEW b \in sent
       PROVE  /\ stage'[b[1]] # "new"
              /\ stage'[b[1]] \in {"ready", "reserving", "sending"} => b[2] < left'[b[1]].at
              /\ stage'[b[1]] \in Underway => b[2] <= left'[b[1]].at
  <2>1. b[1] \in Requests /\ b[2] \in Int /\ left[b[1]].at \in Int /\ left'[b[1]].at \in Int
    BY <1>0, <1>6 DEF UInv, SentBehind, Attempts, Places, UShape
  <2>2. CASE b[1] = r
    <3>1. b[2] <= left[r].at /\ left[r].rest \subseteq Places /\ \A m \in left[r].rest : m > left[r].at
      BY <1>0, <2>2 DEF UInv, SentBehind, Underway, UShape
    <3> QED
      BY <1>0, <1>5, <2>1, <2>2, <3>1 DEF UShape, Underway, Places
  <2>3. CASE b[1] # r
    BY <1>0, <1>5, <2>1, <2>3 DEF UInv, SentBehind, UShape
  <2> QED
    BY <2>2, <2>3
<1>11. ASSUME NEW q \in Requests, stage'[q] \in Underway
       PROVE  ledger'[Attempt(q)'].status = "reserved"
  <2>1. q # r /\ stage[q] \in Underway
    BY <1>0, <1>5, <1>11 DEF Underway, UShape
  <2>2. Attempt(q)' = Attempt(q) /\ Attempt(q) # a
    BY <1>1, <1>5, <1>9, <2>1 DEF Attempt
  <2> QED
    BY <1>9, <2>1, <2>2 DEF UInv, SentBehind
<1>12. SentBehind'
  BY <1>2, <1>10, <1>11 DEF SentBehind, UInv
<1> QED
  BY <1>6, <1>7, <1>8, <1>12 DEF UInv

LEMMA SettleStep ==
    ASSUME UInv, NEW r \in Requests, Settle(r) \/ SettleFails(r)
    PROVE  UInv'
<1> DEFINE a == Attempt(r)
<1>0. UShape
  BY DEF UInv
<1>1. a \in Attempts
  BY <1>0, AttemptType
<1>2. stage[r] = "settling" /\ After(r)
  BY DEF Settle, SettleFails
<1>3. ledger[a].status = "reserved" /\ ledger[a] \in Rows
  BY <1>0, <1>1, <1>2 DEF UInv, SentBehind, Underway, UShape
<1>4. CASE UNCHANGED ledger
  BY <1>0, <1>2, <1>3, <1>4, AfterStep DEF UShape
<1>5. CASE Settle(r)
  <2>1. PICK actual \in {0} \cup Reports :
          ledger' = [ledger EXCEPT ![a] = Settled(ledger[a], StatusOf(reply[r]), actual)]
    BY <1>5 DEF Settle
  <2>2. StatusOf(reply[r]) \in {"succeeded", "failed"} /\ actual \in Int
    BY <2>1, UsageAssumption DEF StatusOf
  <2>3. /\ ledger' \in [Attempts -> Rows]
        /\ \A b \in Attempts : b # a => ledger'[b] = ledger[b]
        /\ ledger'[a].day = ledger[a].day
        /\ ledger'[a].status = StatusOf(reply[r])
    BY <1>0, <1>1, <1>3, <2>1, <2>2, SettledRow DEF UShape
  <2> QED
    BY <1>2, <2>2, <2>3, AfterStep
<1> QED
  BY <1>4, <1>5 DEF SettleFails

\* A new day changes nothing that is counted.
LEMMA MidnightStep == UInv /\ Midnight => UInv'
<1> SUFFICES ASSUME UInv, Midnight PROVE UInv'
  OBVIOUS
<1>1. today' = today + 1 /\ UNCHANGED <<asks, stage, left, stamp, ledger, sent>>
  BY DEF Midnight
<1>2. UShape'
  BY <1>1 DEF UInv, UShape
<1>3. WithinAttempts'
  BY <1>1, <1>2, NoMoreCounted DEF Counted
<1>4. SentIsCounted'
  <2>1. \A a \in sent : ledger[a].day \in Int
    BY DEF UInv, UShape, SentBehind, Rows
  <2>2. today \in Int /\ Retention \in Int
    BY UsageAssumption DEF UInv, UShape
  <2> QED
    BY <1>1, <2>1, <2>2 DEF UInv, SentIsCounted, Counted
<1>5. SentBehind'
  BY <1>1 DEF UInv, SentBehind, Attempt
<1> QED
  BY <1>2, <1>3, <1>4, <1>5 DEF UInv

\* A restart ends what was under way, and prunes only what is old enough.
LEMMA RestartStep == UInv /\ Restart => UInv'
<1> SUFFICES ASSUME UInv, Restart PROVE UInv'
  OBVIOUS
<1>0. UShape
  BY DEF UInv
<1>1. /\ stage' = [r \in Requests |-> IF stage[r] = "new" \/ stage[r] \in Ended THEN stage[r] ELSE "gone"]
      /\ left' = [r \in Requests |-> NothingLeft] /\ stamp' = [r \in Requests |-> NoStamp]
      /\ ledger' = [a \in Attempts |-> Pruned(ledger[a])]
      /\ UNCHANGED <<asks, today, sent>>
  BY DEF Restart
<1>2. \A a \in Attempts : /\ ledger'[a] = Pruned(ledger[a]) /\ ledger'[a] \in Rows
                          /\ ledger'[a].day = ledger[a].day
                          /\ ledger'[a] = ledger[a] \/ (ledger'[a].status = "pruned" /\ ledger[a].day < today - Retention)
  BY <1>0, <1>1 DEF Pruned, UShape, Rows, AnyStatus
<1>3. UShape'
  <2>1. 1 \in Places
    BY UsageAssumption DEF Places
  <2>2. left' \in [Requests -> [at : Places, rest : SUBSET Places]] /\ \A r \in Requests : left'[r].rest = {}
    BY <1>1, <2>1 DEF NothingLeft
  <2>3. stage' \in [Requests -> Stages] /\ stamp' \in [Requests -> [day : Int, refused : BOOLEAN]]
    BY <1>0, <1>1 DEF UShape, NoStamp, Stages, Ended
  <2> QED
    BY <1>0, <1>1, <1>2, <2>2, <2>3 DEF UShape
<1>4. WithinAttempts'
  <2>1. \A a \in Attempts : Counted(a)' => Counted(a) /\ ledger'[a].day = ledger[a].day
    BY <1>2 DEF Counted
  <2> QED
    BY <1>1, <1>3, <2>1, NoMoreCounted
<1>5. SentIsCounted'
  <2>1. ASSUME NEW a \in sent
        PROVE  \/ ledger'[a].status \notin {"none", "blocked", "not_sent", "pruned"}
               \/ ledger'[a].status = "pruned" /\ ledger'[a].day < today - Retention
    <3>1. a \in Attempts
      BY DEF UInv, SentBehind
    <3> QED
      BY <1>2, <3>1 DEF UInv, SentIsCounted, Counted
  <2> QED
    BY <1>1, <2>1 DEF SentIsCounted, Counted
<1>6. SentBehind'
  <2>1. \A r \in Requests : stage'[r] \notin Underway \cup {"ready", "reserving", "sending"}
                            /\ (stage[r] # "new" => stage'[r] # "new")
    BY <1>1 DEF Ended, Underway
  <2>2. \A a \in sent : a[1] \in Requests
    BY DEF UInv, SentBehind, Attempts
  <2> QED
    BY <1>1, <2>1, <2>2 DEF UInv, SentBehind
<1> QED
  BY <1>3, <1>4, <1>5, <1>6 DEF UInv

LEMMA StepUInv == UInv /\ [UsageNext]_usageVars => UInv'
<1> SUFFICES ASSUME UInv, [UsageNext]_usageVars PROVE UInv'
  OBVIOUS
<1>1. ASSUME NEW r \in Requests, Step(r) PROVE UInv'
  BY <1>1, BeginStep, ReadStep, ReserveStep, PostStep, AnswerStep, SettleStep DEF Step
<1>2. CASE \E p \in Providers : CoolDown(p)
  <2>1. UNCHANGED <<asks, stage, left, stamp, ledger, today, sent>>
    BY <1>2 DEF CoolDown
  <2>2. UShape'
    BY <2>1 DEF UInv, UShape
  <2>3. WithinAttempts'
    BY <2>1, <2>2, NoMoreCounted DEF Counted
  <2> QED
    BY <2>1, <2>2, <2>3 DEF UInv, SentBehind, SentIsCounted, Counted, Attempt
<1>3. CASE UNCHANGED usageVars
  <2>1. UNCHANGED <<asks, stage, left, stamp, ledger, today, sent>>
    BY <1>3 DEF usageVars
  <2>2. UShape'
    BY <2>1 DEF UInv, UShape
  <2>3. WithinAttempts'
    BY <2>1, <2>2, NoMoreCounted DEF Counted
  <2> QED
    BY <2>1, <2>2, <2>3 DEF UInv, SentBehind, SentIsCounted, Counted, Attempt
<1> QED
  BY <1>1, <1>2, <1>3, MidnightStep, RestartStep DEF UsageNext

-----------------------------------------------------------------------------
(* Units.                                                                  *)

UnitsOf == [a \in Attempts |-> ledger[a].units]
UsedBy == [a \in Attempts |-> IF ledger[a].units > ledger[a].actual THEN ledger[a].units
                              ELSE ledger[a].actual]

(* The units that are reserved, as sums that may be taken apart. *)
VInv ==
    /\ \A a \in Attempts : ledger[a].units \in Nat /\ ledger[a].actual \in Nat
    /\ \A r \in Requests, day \in 1 .. MaxDay :
         /\ PolicyOf(r).deploymentUnits # None =>
              Total(UnitsOf, CountedIn(OfDay(r, day))) <= PolicyOf(r).deploymentUnits
         /\ PolicyOf(r).userUnits # None =>
              Total(UnitsOf, CountedIn(OfUser(r, day))) <= PolicyOf(r).userUnits

LEMMA ReservedIsTotal ==
    ASSUME VInv, NEW S \in SUBSET Attempts
    PROVE  Reserved(S) = Total(UnitsOf, CountedIn(S))
<1> DEFINE C == CountedIn(S)
           Sums(g) == g = [s \in SUBSET C |-> IF s = {} THEN 0
                             ELSE ledger[CHOOSE x \in s : TRUE].units + g[s \ {CHOOSE x \in s : TRUE}]]
           iter == CHOOSE g : Sums(g)
<1>1. IsFiniteSet(C) /\ C \in SUBSET Attempts /\ C \in SUBSET C
  BY CountedFinite DEF CountedIn
<1>2. \A a \in C : UnitsOf[a] \in Nat /\ UnitsOf[a] = ledger[a].units
  BY <1>1 DEF VInv, UnitsOf
<1>3. ASSUME NEW g PROVE Adds(UnitsOf, C, g) <=> Sums(g)
  <2> DEFINE F == [s \in SUBSET C |-> IF s = {} THEN 0 ELSE UnitsOf[Pick(s)] + g[s \ {Pick(s)}]]
             Use(a) == ledger[a].units
             G == [s \in SUBSET C |-> IF s = {} THEN 0 ELSE Use(Pick(s)) + g[s \ {Pick(s)}]]
  <2>1. \A s \in SUBSET C : s # {} => UnitsOf[Pick(s)] = Use(Pick(s))
    BY <1>2 DEF Pick
  <2>2. F = G
    <3> HIDE DEF Use
    <3> QED
      BY <2>1
  <2>3. Adds(UnitsOf, C, g) <=> g = F
    BY DEF Adds
  <2>4. Sums(g) <=> g = G
    BY Zenon DEF Pick
  <2> HIDE DEF F, G, Sums
  <2> QED
    BY <2>2, <2>3, <2>4
<1>4. \E g : Adds(UnitsOf, C, g)
  BY <1>1, <1>2, SumExists
<1>5. Adds(UnitsOf, C, iter)
  <2> HIDE DEF C, Sums
  <2> QED
    BY <1>3, <1>4, Zenon
<1>6. Reserved(S) = iter[C]
  BY Zenon DEF Reserved, MapThenSumSet, MapThenFoldSet
<1> HIDE DEF C, iter, Sums
<1>7. Total(UnitsOf, C) = iter[C]
  BY <1>1, <1>2, <1>5, TotalOfPart
<1> QED
  BY <1>6, <1>7 DEF C

\* What is consumed is as much at least: a provider may report more than was reserved.
LEMMA ConsumedIsTotal ==
    ASSUME VInv, NEW S \in SUBSET Attempts
    PROVE  Consumed(S) = Total(UsedBy, CountedIn(S))
<1> DEFINE C == CountedIn(S)
           Sums(g) == g = [s \in SUBSET C |-> IF s = {} THEN 0
                             ELSE (IF ledger[CHOOSE x \in s : TRUE].units > ledger[CHOOSE x \in s : TRUE].actual
                                   THEN ledger[CHOOSE x \in s : TRUE].units
                                   ELSE ledger[CHOOSE x \in s : TRUE].actual) + g[s \ {CHOOSE x \in s : TRUE}]]
           iter == CHOOSE g : Sums(g)
<1>1. IsFiniteSet(C) /\ C \in SUBSET Attempts /\ C \in SUBSET C
  BY CountedFinite DEF CountedIn
<1>2. \A a \in C : UsedBy[a] \in Nat /\ UsedBy[a] = IF ledger[a].units > ledger[a].actual THEN ledger[a].units ELSE ledger[a].actual
  BY <1>1 DEF VInv, UsedBy
<1>3. ASSUME NEW g PROVE Adds(UsedBy, C, g) <=> Sums(g)
  <2> DEFINE F == [s \in SUBSET C |-> IF s = {} THEN 0 ELSE UsedBy[Pick(s)] + g[s \ {Pick(s)}]]
             Use(a) == IF ledger[a].units > ledger[a].actual THEN ledger[a].units ELSE ledger[a].actual
             G == [s \in SUBSET C |-> IF s = {} THEN 0 ELSE Use(Pick(s)) + g[s \ {Pick(s)}]]
  <2>1. \A s \in SUBSET C : s # {} => UsedBy[Pick(s)] = Use(Pick(s))
    BY <1>2 DEF Pick
  <2>2. F = G
    <3> HIDE DEF Use
    <3> QED
      BY <2>1
  <2>3. Adds(UsedBy, C, g) <=> g = F
    BY DEF Adds
  <2>4. Sums(g) <=> g = G
    BY Zenon DEF Pick
  <2> HIDE DEF F, G, Sums
  <2> QED
    BY <2>2, <2>3, <2>4
<1>4. \E g : Adds(UsedBy, C, g)
  BY <1>1, <1>2, SumExists
<1>5. Adds(UsedBy, C, iter)
  <2> HIDE DEF C, Sums
  <2> QED
    BY <1>3, <1>4, Zenon
<1>6. Consumed(S) = iter[C]
  BY Zenon DEF Consumed, MapThenSumSet, MapThenFoldSet
<1> HIDE DEF C, iter, Sums
<1>7. Total(UsedBy, C) = iter[C]
  BY <1>1, <1>2, <1>5, TotalOfPart
<1> QED
  BY <1>6, <1>7 DEF C

LEMMA PolicyUnits ==
    ASSUME UShape, NEW r \in Requests
    PROVE  /\ PolicyOf(r).deploymentUnits \in Int /\ PolicyOf(r).userUnits \in Int
           /\ PolicyOf(r).deploymentUnits # None => PolicyOf(r).deploymentUnits \in Nat
           /\ PolicyOf(r).userUnits # None => PolicyOf(r).userUnits \in Nat
<1>1. CapabilityOf(asks[r].kind) \in Capabilities
  BY DEF CapabilityOf, Capabilities
<1> QED
  BY <1>1, UsageAssumption DEF PolicyOf, None

\* A step after which no attempt counts that did not count before, for the same day and units.
LEMMA NoMoreUnits ==
    ASSUME UInv, VInv, asks' = asks,
           \A a \in Attempts : ledger'[a].units \in Nat /\ ledger'[a].actual \in Nat,
           \A a \in Attempts : Counted(a)' => /\ Counted(a) /\ ledger'[a].day = ledger[a].day
                                              /\ ledger'[a].units = ledger[a].units
    PROVE  VInv'
<1>1. ASSUME NEW S \in SUBSET Attempts, NEW D \in SUBSET CountedIn(S),
             \A a \in D : Counted(a)', NEW limit \in Int, Total(UnitsOf, CountedIn(S)) <= limit
      PROVE  Total(UnitsOf', D) <= limit
  <2> DEFINE C == CountedIn(S)
  <2>1. IsFiniteSet(C) /\ \A a \in C : UnitsOf[a] \in Nat
    BY CountedFinite DEF CountedIn, UnitsOf, VInv
  <2>2. \A a \in D : UnitsOf[a] = UnitsOf'[a]
    BY <1>1 DEF CountedIn, UnitsOf
  <2> HIDE DEF C
  <2>3. D \in SUBSET C
    BY DEF C
  <2>4. Total(UnitsOf', D) \in Nat /\ Total(UnitsOf, C) \in Nat /\ Total(UnitsOf', D) <= Total(UnitsOf, C)
    BY <2>1, <2>2, <2>3, TotalPart
  <2> QED
    BY <1>1, <2>4 DEF C
<1>2. ASSUME NEW r \in Requests, NEW day \in 1 .. MaxDay
      PROVE  /\ PolicyOf(r)'.deploymentUnits # None =>
                  Total(UnitsOf', CountedIn(OfDay(r, day))') <= PolicyOf(r)'.deploymentUnits
             /\ PolicyOf(r)'.userUnits # None =>
                  Total(UnitsOf', CountedIn(OfUser(r, day))') <= PolicyOf(r)'.userUnits
  <2>1. PolicyOf(r)' = PolicyOf(r)
    BY DEF PolicyOf
  <2>2. OfDay(r, day) \in SUBSET Attempts /\ OfUser(r, day) \in SUBSET Attempts
    BY DEF OfDay, OfUser
  <2>3. /\ CountedIn(OfDay(r, day))' \in SUBSET CountedIn(OfDay(r, day))
        /\ CountedIn(OfUser(r, day))' \in SUBSET CountedIn(OfUser(r, day))
    BY DEF CountedIn, OfDay, OfUser
  <2>4. (\A a \in CountedIn(OfDay(r, day))' : Counted(a)') /\ (\A a \in CountedIn(OfUser(r, day))' : Counted(a)')
    BY DEF CountedIn
  <2>5. PolicyOf(r).deploymentUnits \in Int /\ PolicyOf(r).userUnits \in Int
    BY PolicyUnits DEF UInv
  <2>6. PolicyOf(r).deploymentUnits # None =>
          Total(UnitsOf', CountedIn(OfDay(r, day))') <= PolicyOf(r).deploymentUnits
    <3>1. ASSUME PolicyOf(r).deploymentUnits # None
          PROVE  Total(UnitsOf, CountedIn(OfDay(r, day))) <= PolicyOf(r).deploymentUnits
      BY <3>1 DEF VInv
    <3> QED
      BY <1>1, <2>2, <2>3, <2>4, <2>5, <3>1
  <2>7. PolicyOf(r).userUnits # None =>
          Total(UnitsOf', CountedIn(OfUser(r, day))') <= PolicyOf(r).userUnits
    <3>1. ASSUME PolicyOf(r).userUnits # None
          PROVE  Total(UnitsOf, CountedIn(OfUser(r, day))) <= PolicyOf(r).userUnits
      BY <3>1 DEF VInv
    <3> QED
      BY <1>1, <2>2, <2>3, <2>4, <2>5, <3>1
  <2> QED
    BY <2>1, <2>6, <2>7
<1> QED
  BY <1>2 DEF VInv

\* The transaction of reserve adds one attempt, to allowances that have room for its units.
LEMMA ReserveUnits ==
    ASSUME UInv, VInv, NEW q \in Requests, asks' = asks,
           ~BudgetRefusal(q, stamp[q].day),
           ledger' = [ledger EXCEPT ![Attempt(q)] = Row(q, "reserved", stamp[q].day)]
    PROVE  VInv'
<1> DEFINE a == Attempt(q)
<1>0. UShape /\ asks[q].units \in Nat
  BY UsageAssumption DEF UInv, UShape
<1>1. a \in Attempts /\ a[1] = q
  BY <1>0, AttemptType
<1>2. /\ ledger'[a].day = stamp[q].day /\ ledger'[a].units = asks[q].units /\ ledger'[a].actual = 0
      /\ \A b \in Attempts : b # a => ledger'[b] = ledger[b]
  BY <1>0, <1>1 DEF UShape, Row
<1>3. \A b \in Attempts : ledger'[b].units \in Nat /\ ledger'[b].actual \in Nat
  BY <1>0, <1>2 DEF VInv
<1>4. UnitsOf'[a] = asks[q].units
  BY <1>1, <1>2 DEF UnitsOf
<1> HIDE DEF a
<1>5. ASSUME NEW S \in SUBSET Attempts, NEW D, D \subseteq CountedIn(S) \cup {a}, NEW limit \in Int,
             Total(UnitsOf, CountedIn(S)) <= limit,
             a \in D => Consumed(S) + asks[q].units <= limit
      PROVE  Total(UnitsOf', D) <= limit
  <2> DEFINE C == CountedIn(S)
  <2>1. IsFiniteSet(C) /\ C \subseteq Attempts
    BY CountedFinite DEF CountedIn
  <2>2. /\ \A b \in C : UnitsOf[b] \in Nat /\ UsedBy[b] \in Nat /\ UnitsOf[b] <= UsedBy[b]
        /\ \A b \in C \ {a} : UnitsOf[b] = UnitsOf'[b]
    BY <1>2, <2>1 DEF UnitsOf, UsedBy, VInv
  <2>3. Total(UnitsOf, C) \in Nat /\ Total(UsedBy, C) \in Nat /\ Total(UnitsOf, C) <= Total(UsedBy, C)
    <3> HIDE DEF C
    <3> QED
      BY <2>1, <2>2, TotalType, TotalLess
  <2>4. Consumed(S) = Total(UsedBy, C)
    BY ConsumedIsTotal
  <2>5. CASE a \in D
    <3>1. Total(UnitsOf', D) <= Total(UnitsOf, C) + UnitsOf'[a] /\ IsFiniteSet(D)
                  /\ \A b \in D : UnitsOf'[b] \in Nat
      <4>1. D \subseteq C \cup {a} /\ UnitsOf'[a] \in Nat
        BY <1>0, <1>4, <1>5
      <4>2. \A b \in D : UnitsOf'[b] \in Nat
        BY <2>2, <4>1
      <4> HIDE DEF C
      <4>3. IsFiniteSet(D)
        BY <2>1, <4>1, FS_AddElement, FS_Subset
      <4>4. Total(UnitsOf', D) <= Total(UnitsOf, C) + UnitsOf'[a]
        BY <2>1, <2>2, <4>1, TotalGrows
      <4> QED
        BY <4>2, <4>3, <4>4
    <3>2. Total(UnitsOf', D) \in Nat
      BY <3>1, TotalType
    <3> QED
      BY <1>0, <1>4, <1>5, <2>3, <2>4, <2>5, <3>1, <3>2
  <2>6. CASE a \notin D
    <3>1. D \in SUBSET C /\ \A b \in D : UnitsOf[b] = UnitsOf'[b]
      BY <1>5, <2>2, <2>6
    <3> HIDE DEF C
    <3>2. Total(UnitsOf', D) \in Nat /\ Total(UnitsOf', D) <= Total(UnitsOf, C)
      BY <2>1, <2>2, <3>1, TotalPart
    <3> QED
      BY <1>5, <2>3, <3>2 DEF C
  <2> QED
    BY <2>5, <2>6
<1>6. ASSUME NEW r \in Requests, NEW day \in 1 .. MaxDay
      PROVE  /\ PolicyOf(r)'.deploymentUnits # None =>
                  Total(UnitsOf', CountedIn(OfDay(r, day))') <= PolicyOf(r)'.deploymentUnits
             /\ PolicyOf(r)'.userUnits # None =>
                  Total(UnitsOf', CountedIn(OfUser(r, day))') <= PolicyOf(r)'.userUnits
  <2>1. PolicyOf(r)' = PolicyOf(r)
    BY DEF PolicyOf
  <2>2. OfDay(r, day) \in SUBSET Attempts /\ OfUser(r, day) \in SUBSET Attempts
    BY DEF OfDay, OfUser
  <2>3. /\ CountedIn(OfDay(r, day))' \subseteq CountedIn(OfDay(r, day)) \cup {a}
        /\ CountedIn(OfUser(r, day))' \subseteq CountedIn(OfUser(r, day)) \cup {a}
    BY <1>2 DEF CountedIn, Counted, OfDay, OfUser
  <2>4. PolicyOf(r).deploymentUnits \in Int /\ PolicyOf(r).userUnits \in Int
    BY <1>0, PolicyUnits
  <2>5. ASSUME PolicyOf(r).deploymentUnits # None
        PROVE  Total(UnitsOf', CountedIn(OfDay(r, day))') <= PolicyOf(r).deploymentUnits
    <3>1. Total(UnitsOf, CountedIn(OfDay(r, day))) <= PolicyOf(r).deploymentUnits
      BY <2>5 DEF VInv
    <3>2. ASSUME a \in CountedIn(OfDay(r, day))'
          PROVE  Consumed(OfDay(r, day)) + asks[q].units <= PolicyOf(r).deploymentUnits
      <4>1. day = stamp[q].day /\ CapabilityOf(asks[q].kind) = CapabilityOf(asks[r].kind)
        BY <1>1, <1>2, <3>2 DEF CountedIn, OfDay
      <4>2. OfDay(r, day) = OfDay(q, stamp[q].day) /\ PolicyOf(q) = PolicyOf(r)
        BY <4>1 DEF OfDay, PolicyOf
      <4>3. ~(Consumed(OfDay(r, day)) + asks[q].units > PolicyOf(r).deploymentUnits)
        BY <2>5, <4>2 DEF BudgetRefusal, Spent
      <4>4. Consumed(OfDay(r, day)) \in Int
        <5>1. Consumed(OfDay(r, day)) = Total(UsedBy, CountedIn(OfDay(r, day)))
          BY <2>2, ConsumedIsTotal
        <5>2. /\ IsFiniteSet(CountedIn(OfDay(r, day)))
              /\ \A b \in CountedIn(OfDay(r, day)) : UsedBy[b] \in Nat
          BY <2>2, CountedFinite DEF CountedIn, UsedBy, VInv
        <5> QED
          BY <5>1, <5>2, TotalType
      <4> QED
        BY <1>0, <2>4, <4>3, <4>4
    <3> QED
      BY <1>5, <2>2, <2>3, <2>4, <3>1, <3>2
  <2>6. ASSUME PolicyOf(r).userUnits # None
        PROVE  Total(UnitsOf', CountedIn(OfUser(r, day))') <= PolicyOf(r).userUnits
    <3>1. Total(UnitsOf, CountedIn(OfUser(r, day))) <= PolicyOf(r).userUnits
      BY <2>6 DEF VInv
    <3>2. ASSUME a \in CountedIn(OfUser(r, day))'
          PROVE  Consumed(OfUser(r, day)) + asks[q].units <= PolicyOf(r).userUnits
      <4>1. /\ day = stamp[q].day /\ asks[q].user = asks[r].user
            /\ CapabilityOf(asks[q].kind) = CapabilityOf(asks[r].kind)
        BY <1>1, <1>2, <3>2 DEF CountedIn, OfUser, OfDay
      <4>2. OfUser(r, day) = OfUser(q, stamp[q].day) /\ PolicyOf(q) = PolicyOf(r)
        BY <4>1 DEF OfUser, OfDay, PolicyOf
      <4>3. ~(Consumed(OfUser(r, day)) + asks[q].units > PolicyOf(r).userUnits)
        BY <2>6, <4>2 DEF BudgetRefusal, Spent
      <4>4. Consumed(OfUser(r, day)) \in Int
        <5>1. Consumed(OfUser(r, day)) = Total(UsedBy, CountedIn(OfUser(r, day)))
          BY <2>2, ConsumedIsTotal
        <5>2. /\ IsFiniteSet(CountedIn(OfUser(r, day)))
              /\ \A b \in CountedIn(OfUser(r, day)) : UsedBy[b] \in Nat
          BY <2>2, CountedFinite DEF CountedIn, UsedBy, VInv
        <5> QED
          BY <5>1, <5>2, TotalType
      <4> QED
        BY <1>0, <2>4, <4>3, <4>4
    <3> QED
      BY <1>5, <2>2, <2>3, <2>4, <3>1, <3>2
  <2> QED
    BY <2>1, <2>5, <2>6
<1> QED
  BY <1>3, <1>6 DEF VInv

LEMMA InitVInv == UsageInit => VInv
<1> SUFFICES ASSUME UsageInit PROVE VInv
  OBVIOUS
<1>0. UInv
  BY InitUInv
<1>1. \A a \in Attempts : ledger[a].units \in Nat /\ ledger[a].actual \in Nat
  BY DEF UsageInit, NoRow
<1>2. \A S \in SUBSET Attempts : CountedIn(S) = {}
  BY DEF CountedIn, Counted, UsageInit, NoRow
<1>3. Total(UnitsOf, {}) = 0
  BY TotalEmpty
<1>4. ASSUME NEW r \in Requests, NEW day \in 1 .. MaxDay
      PROVE  /\ PolicyOf(r).deploymentUnits # None =>
                  Total(UnitsOf, CountedIn(OfDay(r, day))) <= PolicyOf(r).deploymentUnits
             /\ PolicyOf(r).userUnits # None =>
                  Total(UnitsOf, CountedIn(OfUser(r, day))) <= PolicyOf(r).userUnits
  <2>1. CountedIn(OfDay(r, day)) = {} /\ CountedIn(OfUser(r, day)) = {}
    BY <1>2 DEF OfDay, OfUser
  <2>2. /\ PolicyOf(r).deploymentUnits # None => PolicyOf(r).deploymentUnits \in Nat
        /\ PolicyOf(r).userUnits # None => PolicyOf(r).userUnits \in Nat
    BY <1>0, PolicyUnits DEF UInv
  <2> QED
    BY <1>3, <2>1, <2>2
<1> QED
  BY <1>1, <1>4 DEF VInv

LEMMA StepVInv == UInv /\ VInv /\ [UsageNext]_usageVars => VInv'
<1> SUFFICES ASSUME UInv, VInv, [UsageNext]_usageVars PROVE VInv'
  OBVIOUS
<1>0. UShape
  BY DEF UInv
<1>1. CASE UNCHANGED <<asks, ledger>>
  BY <1>1, NoMoreUnits DEF VInv, Counted
<1>2. ASSUME NEW r \in Requests, Reserve(r) PROVE VInv'
  <2>1. CASE ~BudgetRefusal(r, stamp[r].day) /\ asks' = asks
             /\ ledger' = [ledger EXCEPT ![Attempt(r)] = Row(r, "reserved", stamp[r].day)]
    BY <2>1, ReserveUnits
  <2>2. CASE asks' = asks /\ ledger' = [ledger EXCEPT ![Attempt(r)] = Row(r, "blocked", stamp[r].day)]
    <3>1. Attempt(r) \in Attempts
      BY <1>0, AttemptType
    <3>2. /\ ledger'[Attempt(r)].status = "blocked" /\ ledger'[Attempt(r)].units = 0
          /\ ledger'[Attempt(r)].actual = 0
          /\ \A b \in Attempts : b # Attempt(r) => ledger'[b] = ledger[b]
      BY <1>0, <2>2, <3>1 DEF UShape, Row
    <3> QED
      BY <2>2, <3>2, NoMoreUnits DEF Counted, VInv
  <2> QED
    BY <1>2, <2>1, <2>2 DEF Reserve
<1>3. ASSUME NEW r \in Requests, Settle(r) PROVE VInv'
  <2> DEFINE a == Attempt(r)
  <2>1. a \in Attempts /\ asks' = asks
    BY <1>0, <1>3, AttemptType DEF Settle, After
  <2>2. PICK actual \in {0} \cup Reports :
          ledger' = [ledger EXCEPT ![a] = Settled(ledger[a], StatusOf(reply[r]), actual)]
    BY <1>3 DEF Settle
  <2>3. actual \in Nat /\ ledger[a].status = "reserved"
    BY <1>3, UsageAssumption DEF UInv, SentBehind, Underway, Settle
  <2>4. /\ ledger'[a].day = ledger[a].day /\ ledger'[a].units = ledger[a].units
        /\ ledger'[a].actual = actual
        /\ \A b \in Attempts : b # a => ledger'[b] = ledger[b]
    BY <1>0, <2>1, <2>2, <2>3 DEF Settled, UShape
  <2>5. Counted(a)
    BY <2>3 DEF Counted
  <2>6. \A b \in Attempts : ledger'[b].units \in Nat /\ ledger'[b].actual \in Nat
    BY <2>1, <2>3, <2>4 DEF VInv
  <2> HIDE DEF a
  <2>7. \A b \in Attempts : Counted(b)' => /\ Counted(b) /\ ledger'[b].day = ledger[b].day
                                           /\ ledger'[b].units = ledger[b].units
    BY <2>4, <2>5 DEF Counted
  <2> QED
    BY <2>1, <2>6, <2>7, NoMoreUnits
<1>4. CASE Restart
  <2>1. asks' = asks /\ ledger' = [a \in Attempts |-> Pruned(ledger[a])]
    BY <1>4 DEF Restart
  <2>2. \A a \in Attempts : /\ ledger'[a].day = ledger[a].day /\ ledger'[a].units = ledger[a].units
                            /\ ledger'[a].actual = ledger[a].actual
                            /\ ledger'[a].status \in {ledger[a].status, "pruned"}
    BY <1>0, <2>1 DEF Pruned, UShape, Rows
  <2> QED
    BY <2>1, <2>2, NoMoreUnits DEF VInv, Counted
<1>5. ASSUME NEW r \in Requests, Step(r), ~Reserve(r), ~Settle(r) PROVE UNCHANGED <<asks, ledger>>
  BY <1>5 DEF Step, Begin, TooLarge, ReadPolicy, ReserveFails, Post, PostStale, PostAnswered, PostFailed,
              SettleFails, After
<1>6. CASE (\E p \in Providers : CoolDown(p)) \/ Midnight \/ UNCHANGED usageVars
  BY <1>1, <1>6 DEF CoolDown, Midnight, usageVars
<1> QED
  BY <1>1, <1>2, <1>3, <1>4, <1>5, <1>6 DEF UsageNext

-----------------------------------------------------------------------------
(* The theorems.                                                           *)

(* The inductive invariant of usage_ledger.py and its three callers. *)
THEOREM UsageInvariant == UsageSpec => []UInv
BY InitUInv, StepUInv, PTL DEF UsageSpec

(* Whatever the policy, and however many requests reserve at once, no allowance is ever exceeded:
   of attempts, for a request, a deployment in all, a session, a user and a deployment on a day,
   and of units, for a user and a deployment on a day. *)
THEOREM AllowanceKept == UsageSpec => []WithinAllowance
<1>1. UInv /\ VInv => WithinAllowance
  <2> SUFFICES ASSUME UInv, VInv PROVE WithinUnits
    BY DEF UInv, WithinAllowance
  <2>1. \A r \in Requests, day \in 1 .. MaxDay :
          OfDay(r, day) \in SUBSET Attempts /\ OfUser(r, day) \in SUBSET Attempts
    BY DEF OfDay, OfUser
  <2>2. \A r \in Requests, day \in 1 .. MaxDay :
          /\ Reserved(OfDay(r, day)) = Total(UnitsOf, CountedIn(OfDay(r, day)))
          /\ Reserved(OfUser(r, day)) = Total(UnitsOf, CountedIn(OfUser(r, day)))
    BY <2>1, ReservedIsTotal
  <2> QED
    BY <2>2 DEF VInv, WithinUnits
<1> QED
  BY <1>1, InitVInv, StepVInv, UsageInvariant, PTL DEF UsageSpec

(* No provider is contacted but for an attempt that was reserved, and what was sent stays counted
   through failed settlements, restarts and midnights until retention ends. *)
THEOREM SentStaysCounted == UsageSpec => []SentIsCounted
<1>1. UInv => SentIsCounted
  BY DEF UInv
<1> QED
  BY <1>1, UsageInvariant, PTL

-----------------------------------------------------------------------------
(* The rate limiter.                                                       *)

AllBuckets == UNION {Buckets(c) : c \in Callers}
Served == [p \in Callers \X (0 .. MaxTime) |-> served[p[1]][p[2]]]
Since(b, x) == {p \in Callers \X (0 .. MaxTime) : b \in Buckets(p[1]) /\ p[2] > x}

\* The first n of some times are not later than x, the others are.
Splits(q, x, n) ==
    /\ \A i \in 1 .. n : q[i] <= x
    /\ \A i \in n + 1 .. Len(q) : q[i] > x

Sorted(q) == \A i, j \in 1 .. Len(q) : i <= j => q[i] <= q[j]

(* Hits are in order, and none is later than now. *)
RateShape ==
    /\ clock \in 0 .. MaxTime /\ armed \in BOOLEAN
    /\ served \in [Callers -> [0 .. MaxTime -> Nat]]
    /\ DOMAIN hits \subseteq AllBuckets
    /\ \A b \in DOMAIN hits :
          /\ hits[b] \in Seq(0 .. MaxTime) /\ Sorted(hits[b]) /\ \A i \in 1 .. Len(hits[b]) : hits[b][i] <= clock
          /\ Len(hits[b]) <= LimitOf(b).requests

(* A bucket has as many hits after any time of its window as requests were admitted since. *)
HitsCount ==
    \A b \in AllBuckets, x \in Int : x >= clock - LimitOf(b).window =>
        \A n \in 0 .. Len(Times(b)) : Splits(Times(b), x, n) => Len(Times(b)) - n = Total(Served, Since(b, x))

RInv == RateShape /\ HitsCount

LEMMA CountOf ==
    ASSUME RInv, NEW b \in AllBuckets, NEW x \in Int, x >= clock - LimitOf(b).window,
           NEW n \in 0 .. Len(Times(b)), Splits(Times(b), x, n)
    PROVE  Len(Times(b)) - n = Total(Served, Since(b, x))
BY DEF RInv, HitsCount

LEMMA RateNumbers == MaxTime \in Nat /\ IsFiniteSet(Callers) /\ IsFiniteSet(DOMAIN Limits)
BY LimitsAssumption

LEMMA ClockIsNumber == RateShape => clock \in Int
BY RateNumbers DEF RateShape

\* Every bucket has a limit.
LEMMA LimitFacts ==
    ASSUME NEW b \in AllBuckets
    PROVE  /\ <<b[1], b[2]>> \in DOMAIN Limits
           /\ LimitOf(b).requests \in Nat \ {0} /\ LimitOf(b).window \in Nat \ {0}
<1>1. PICK c \in Callers : b \in Buckets(c)
  BY DEF AllBuckets
<1>2. PICK l \in DOMAIN Limits : b = <<l[1], l[2], c.keys[l[2]]>>
  BY <1>1 DEF Buckets
<1>3. l = <<l[1], l[2]>>
  BY <1>2, LimitsAssumption
<1>4. b[1] = l[1] /\ b[2] = l[2]
  BY <1>2
<1>5. <<b[1], b[2]>> = l
  BY <1>3, <1>4
<1> QED
  BY <1>2, <1>5, LimitsAssumption DEF LimitOf

\* The longest window is as long as every other.
LEMMA LongestWindow ==
    ASSUME NEW b \in AllBuckets
    PROVE  Max(Windows) \in Nat \ {0} /\ LimitOf(b).window <= Max(Windows)
<1>1. LimitOf(b).window \in Windows
  BY LimitFacts DEF Windows, LimitOf
<1>2. IsFiniteSet(Windows)
  <2> DEFINE f == [l \in DOMAIN Limits |-> Limits[l].window]
  <2>1. f \in Surjection(DOMAIN Limits, Windows)
    BY DEF Windows, Surjection
  <2> HIDE DEF f
  <2> QED
    BY <2>1, FS_Surjection, LimitsAssumption
<1>3. Windows \subseteq Nat \ {0}
  BY LimitsAssumption DEF Windows
<1>4. Windows \subseteq Int /\ Windows # {}
  BY <1>1, <1>3
<1>5. Max(Windows) \in Windows /\ \A x \in Windows : x <= Max(Windows)
  BY <1>2, <1>4, MaxFacts
<1> QED
  BY <1>1, <1>3, <1>5

\* Popping from the left ends at the first time that is later.
LEMMA PoppingEnds ==
    ASSUME NEW q \in Seq(0 .. MaxTime), NEW x \in Int
    PROVE  \E n \in 0 .. Len(q) : (\A i \in 1 .. n : q[i] <= x) /\ (n < Len(q) => q[n + 1] > x)
<1> DEFINE Stops(n) == (\A i \in 1 .. n : q[i] <= x) /\ (n < Len(q) => q[n + 1] > x)
           S == {n \in Nat : n <= Len(q) => (\A i \in 1 .. n : q[i] <= x) \/ \E m \in 0 .. Len(q) : Stops(m)}
<1>1. Len(q) \in Nat /\ \A i \in 1 .. Len(q) : q[i] \in Int
  <2>1. Len(q) \in Nat /\ \A i \in 1 .. Len(q) : q[i] \in 0 .. MaxTime
    BY SeqFacts, ElementOfSeq
  <2> QED
    BY <2>1, RateNumbers
<1>2. 0 \in S
  OBVIOUS
<1>3. ASSUME NEW n \in Nat, n \in S PROVE n + 1 \in S
  <2> SUFFICES ASSUME n + 1 <= Len(q), ~\E m \in 0 .. Len(q) : Stops(m)
               PROVE  \A i \in 1 .. n + 1 : q[i] <= x
    OBVIOUS
  <2>1. n \in 0 .. Len(q) /\ n < Len(q) /\ \A i \in 1 .. n : q[i] <= x
    BY <1>1, <1>3
  <2>2. q[n + 1] <= x
    <3>1. ~Stops(n)
      BY <2>1
    <3>2. n + 1 \in 1 .. Len(q)
      BY <1>1
    <3> QED
      BY <1>1, <2>1, <3>1, <3>2
  <2> QED
    BY <2>1, <2>2
<1>4. Len(q) \in S
  <2> HIDE DEF S
  <2> QED
    BY <1>1, <1>2, <1>3, SetInduction
<1>5. (\A i \in 1 .. Len(q) : q[i] <= x) => Stops(Len(q))
  BY <1>1
<1>6. \E n \in 0 .. Len(q) : Stops(n)
  BY <1>1, <1>4, <1>5
<1> QED
  BY <1>6

\* What a bucket has in its window.
LEMMA RecentFacts ==
    ASSUME RateShape, NEW b \in AllBuckets
    PROVE  \E n \in 0 .. Len(Times(b)) :
             /\ Splits(Times(b), clock - LimitOf(b).window, n)
             /\ Recent(b) = SubSeq(Times(b), n + 1, Len(Times(b)))
<1> DEFINE q == Times(b)
           x == clock - LimitOf(b).window
           n == CHOOSE k \in 0 .. Len(q) : (\A i \in 1 .. k : q[i] <= x) /\ (k < Len(q) => q[k + 1] > x)
<1>1. q \in Seq(0 .. MaxTime) /\ Sorted(q) /\ x \in Int
  <2>1. x \in Int
    <3>1. LimitOf(b).window \in Nat \ {0}
      BY LimitFacts
    <3> QED
      BY <3>1, ClockIsNumber
  <2>2. <<>> \in Seq(0 .. MaxTime) /\ Sorted(<<>>)
    BY EmptySeq DEF Sorted
  <2> QED
    BY <2>1, <2>2 DEF RateShape, Times
<1>2. Recent(b) = SubSeq(q, n + 1, Len(q))
  BY DEF Recent
<1> HIDE DEF q, x
<1>3. \E k \in 0 .. Len(q) : (\A i \in 1 .. k : q[i] <= x) /\ (k < Len(q) => q[k + 1] > x)
  BY <1>1, PoppingEnds
<1>4. n \in 0 .. Len(q) /\ (\A i \in 1 .. n : q[i] <= x) /\ (n < Len(q) => q[n + 1] > x)
  BY <1>3
<1> HIDE DEF n
<1>5. Splits(q, x, n)
  <2>1. Len(q) \in Nat /\ \A i \in 1 .. Len(q) : q[i] \in Int
    <3>1. Len(q) \in Nat /\ \A i \in 1 .. Len(q) : q[i] \in 0 .. MaxTime
      BY <1>1, SeqFacts, ElementOfSeq
    <3> QED
      BY <3>1, RateNumbers
  <2>2. ASSUME NEW i \in n + 1 .. Len(q) PROVE q[i] > x
    <3>1. n < Len(q) /\ n + 1 \in 1 .. Len(q) /\ i \in 1 .. Len(q) /\ n + 1 <= i
      BY <1>4, <2>1
    <3>2. q[n + 1] <= q[i] /\ q[n + 1] > x
      BY <1>1, <1>4, <3>1 DEF Sorted
    <3> QED
      BY <1>1, <2>1, <3>1, <3>2
  <2> QED
    BY <1>4, <2>2 DEF Splits
<1> QED
  BY <1>2, <1>4, <1>5 DEF q, x

\* A bucket's recent hits are all that were admitted within its window.
LEMMA RecentIsLoad ==
    ASSUME RInv, NEW b \in AllBuckets
    PROVE  /\ Recent(b) \in Seq(0 .. MaxTime) /\ Sorted(Recent(b))
           /\ \A i \in 1 .. Len(Recent(b)) : Recent(b)[i] <= clock
           /\ Len(Recent(b)) <= LimitOf(b).requests
           /\ Len(Recent(b)) = Total(Served, Since(b, clock - LimitOf(b).window))
           /\ \A x \in Int, k \in 0 .. Len(Recent(b)) :
                 x >= clock - LimitOf(b).window /\ Splits(Recent(b), x, k) =>
                    Len(Recent(b)) - k = Total(Served, Since(b, x))
<1> PICK q, w : q = Times(b) /\ w = LimitOf(b).window
  OBVIOUS
<1>1. /\ q \in Seq(0 .. MaxTime) /\ Sorted(q) /\ Len(q) \in Nat /\ Len(q) <= LimitOf(b).requests
      /\ \A i \in 1 .. Len(q) : q[i] \in Int /\ q[i] <= clock
  <2>0. LimitOf(b).requests \in Nat
    BY LimitFacts
  <2>1. /\ <<>> \in Seq(0 .. MaxTime) /\ Sorted(<<>>) /\ Len(<<>>) = 0 /\ 0 <= LimitOf(b).requests
        /\ \A i \in 1 .. 0 : FALSE
    BY <2>0, EmptySeq DEF Sorted
  <2>2. /\ q \in Seq(0 .. MaxTime) /\ Sorted(q) /\ Len(q) <= LimitOf(b).requests
        /\ \A i \in 1 .. Len(q) : q[i] <= clock
    BY <2>1 DEF RInv, RateShape, Times
  <2>3. Len(q) \in Nat /\ \A i \in 1 .. Len(q) : q[i] \in 0 .. MaxTime
    BY <2>2, SeqFacts, ElementOfSeq
  <2> QED
    BY <2>2, <2>3, RateNumbers
<1>2. clock \in Int /\ w \in Nat \ {0} /\ clock - w \in Int
  <2>1. LimitOf(b).window \in Nat \ {0}
    BY LimitFacts
  <2>2. clock \in Int
    BY ClockIsNumber DEF RInv
  <2> QED
    BY <2>1, <2>2
<1>3. PICK n \in 0 .. Len(q) : Splits(q, clock - w, n) /\ Recent(b) = SubSeq(q, n + 1, Len(q))
  BY RecentFacts DEF RInv
<1> PICK r : r = Recent(b)
  OBVIOUS
<1>4. r \in Seq(0 .. MaxTime) /\ Len(r) = Len(q) - n /\ \A i \in 1 .. Len(r) : r[i] = q[n + i]
  <2>1. /\ SubSeq(q, n + 1, Len(q)) \in Seq(0 .. MaxTime) /\ Len(SubSeq(q, n + 1, Len(q))) = Len(q) - n
        /\ \A i \in 1 .. Len(q) - n : SubSeq(q, n + 1, Len(q))[i] = q[n + i]
    BY <1>1, EndFacts
  <2> QED
    BY <1>3, <2>1
<1>5. \A i \in 1 .. Len(r) : n + i \in 1 .. Len(q)
  BY <1>1, <1>4
<1>6. Sorted(r) /\ (\A i \in 1 .. Len(r) : r[i] <= clock) /\ Len(r) <= LimitOf(b).requests
  <2>0. LimitOf(b).requests \in Nat
    BY LimitFacts
  <2>1. LimitOf(b).requests \in Nat /\ Len(r) \in Nat
    BY <1>1, <1>4, <2>0
  <2>2. ASSUME NEW i \in 1 .. Len(r), NEW j \in 1 .. Len(r), i <= j
        PROVE  r[i] <= r[j]
    <3>1. n + i \in 1 .. Len(q) /\ n + j \in 1 .. Len(q) /\ n + i <= n + j
      BY <1>5, <2>2, <2>1
    <3> QED
      BY <1>1, <1>4, <3>1 DEF Sorted
  <2>3. \A i \in 1 .. Len(r) : r[i] <= clock
    BY <1>1, <1>4, <1>5
  <2>4. Len(r) <= LimitOf(b).requests
    BY <1>1, <1>4, <2>1
  <2> QED
    BY <2>2, <2>3, <2>4 DEF Sorted
<1>7. Len(r) = Total(Served, Since(b, clock - w))
  <2>1. Len(q) - n = Total(Served, Since(b, clock - w))
    BY <1>2, <1>3, CountOf
  <2> QED
    BY <1>4, <2>1
<1>8. ASSUME NEW x \in Int, NEW k \in 0 .. Len(r), x >= clock - w, Splits(r, x, k)
      PROVE  Len(r) - k = Total(Served, Since(b, x))
  <2>1. n + k \in 0 .. Len(q) /\ Len(q) - (n + k) = Len(r) - k /\ Len(r) \in Nat
    BY <1>1, <1>4
  <2>2. Splits(q, x, n + k)
    <3>1. ASSUME NEW i \in 1 .. n + k PROVE q[i] <= x
      <4>0. i \in 1 .. Len(q)
        BY <1>1, <1>4
      <4>1. CASE i <= n
        BY <1>1, <1>2, <1>3, <1>8, <4>0, <4>1 DEF Splits
      <4>2. CASE i > n
        <5>1. i - n \in 1 .. k /\ i - n \in 1 .. Len(r) /\ n + (i - n) = i
          BY <1>4, <2>1, <4>0, <4>2
        <5> QED
          BY <1>4, <1>8, <5>1 DEF Splits
      <4> QED
        BY <4>0, <4>1, <4>2
    <3>2. ASSUME NEW i \in n + k + 1 .. Len(q) PROVE q[i] > x
      <4>1. i - n \in k + 1 .. Len(r) /\ i - n \in 1 .. Len(r) /\ n + (i - n) = i
        BY <1>4, <2>1
      <4> QED
        BY <1>4, <1>8, <4>1 DEF Splits
    <3> QED
      BY <3>1, <3>2 DEF Splits
  <2> QED
    <3>1. Len(q) - (n + k) = Total(Served, Since(b, x))
      BY <1>8, <2>1, <2>2, CountOf
    <3> QED
      BY <1>4, <2>1, <3>1
<1> QED
  BY <1>4, <1>6, <1>7, <1>8

\* What is served is a sum of numbers, and the load is a part of it.
LEMMA SinceFacts ==
    ASSUME RateShape, NEW b, NEW x
    PROVE  /\ IsFiniteSet(Since(b, x)) /\ Since(b, x) \subseteq Callers \X (0 .. MaxTime)
           /\ \A p \in Since(b, x) : Served[p] \in Nat /\ Served[p] = served[p[1]][p[2]]
<1>1. IsFiniteSet(Callers \X (0 .. MaxTime))
  <2>1. IsFiniteSet(0 .. MaxTime)
    BY FS_Interval, RateNumbers
  <2> QED
    BY <2>1, FS_Product, RateNumbers
<1>2. Since(b, x) \subseteq Callers \X (0 .. MaxTime)
  BY DEF Since
<1>3. \A p \in Callers \X (0 .. MaxTime) : Served[p] = served[p[1]][p[2]] /\ served[p[1]][p[2]] \in Nat
  BY DEF Served, RateShape
<1>4. IsFiniteSet(Since(b, x))
  BY <1>1, <1>2, FS_Subset
<1> QED
  BY <1>2, <1>3, <1>4

LEMMA LoadIsTotal ==
    ASSUME RateShape, NEW b
    PROVE  Load(b) = Total(Served, Since(b, clock - LimitOf(b).window))
<1> DEFINE C == Since(b, clock - LimitOf(b).window)
           Sums(g) == g = [s \in SUBSET C |-> IF s = {} THEN 0
                             ELSE served[(CHOOSE x \in s : TRUE)[1]][(CHOOSE x \in s : TRUE)[2]]
                                  + g[s \ {CHOOSE x \in s : TRUE}]]
           iter == CHOOSE g : Sums(g)
<1>1. IsFiniteSet(C) /\ C \in SUBSET C /\ \A p \in C : Served[p] \in Nat /\ Served[p] = served[p[1]][p[2]]
  BY SinceFacts
<1>3. ASSUME NEW g PROVE Adds(Served, C, g) <=> Sums(g)
  <2> DEFINE F == [s \in SUBSET C |-> IF s = {} THEN 0 ELSE Served[Pick(s)] + g[s \ {Pick(s)}]]
             Use(p) == served[p[1]][p[2]]
             G == [s \in SUBSET C |-> IF s = {} THEN 0 ELSE Use(Pick(s)) + g[s \ {Pick(s)}]]
  <2>1. \A s \in SUBSET C : s # {} => Served[Pick(s)] = Use(Pick(s))
    BY <1>1 DEF Pick
  <2>2. F = G
    <3> HIDE DEF Use, C
    <3> QED
      BY <2>1
  <2>3. Adds(Served, C, g) <=> g = F
    BY DEF Adds
  <2>4. Sums(g) <=> g = G
    BY Zenon DEF Pick
  <2> HIDE DEF F, G, Sums
  <2> QED
    BY <2>2, <2>3, <2>4
<1>4. \E g : Adds(Served, C, g)
  <2> HIDE DEF C
  <2> QED
    BY <1>1, SumExists
<1>5. Adds(Served, C, iter)
  <2> HIDE DEF C, Sums
  <2> QED
    BY <1>3, <1>4, Zenon
<1>6. Load(b) = iter[C]
  BY Zenon DEF Load, MapThenSumSet, MapThenFoldSet, Since
<1> HIDE DEF C, iter, Sums
<1>7. Total(Served, C) = iter[C]
  BY <1>1, <1>5, TotalOfPart
<1> QED
  BY <1>6, <1>7 DEF C

\* A caller's buckets, with what is in their window, are those that were looked at.
LEMMA CallersBuckets ==
    ASSUME NEW c \in Callers
    PROVE  Buckets(c) \subseteq AllBuckets
BY DEF AllBuckets

\* Popping what has left its window changes no count.
LEMMA PruningKeeps ==
    ASSUME RInv, NEW looked, looked \subseteq AllBuckets, hits' = PrunedHits(looked),
           UNCHANGED <<clock, armed, served>>
    PROVE  RInv'
<1>1. /\ DOMAIN hits' = DOMAIN hits \cup looked
      /\ \A b \in DOMAIN hits' : hits'[b] = IF b \in looked THEN Recent(b) ELSE hits[b]
  BY DEF PrunedHits
<1>2. RateShape'
  <2>1. ASSUME NEW b \in DOMAIN hits'
        PROVE  /\ hits'[b] \in Seq(0 .. MaxTime) /\ Sorted(hits'[b])
               /\ \A i \in 1 .. Len(hits'[b]) : hits'[b][i] <= clock
               /\ Len(hits'[b]) <= LimitOf(b).requests
    <3>1. CASE b \in looked
      BY <1>1, <3>1, RecentIsLoad
    <3>2. CASE b \notin looked
      BY <1>1, <3>2 DEF RInv, RateShape
    <3> QED
      BY <3>1, <3>2
  <2> QED
    BY <1>1, <2>1 DEF RInv, RateShape
<1>3. Served' = Served
  BY DEF Served
<1>4. ASSUME NEW b \in AllBuckets, NEW x \in Int, x >= clock - LimitOf(b).window,
             NEW n \in 0 .. Len(Times(b)'), Splits(Times(b)', x, n)
      PROVE  Len(Times(b)') - n = Total(Served, Since(b, x))
  <2>1. CASE b \in looked
    <3>1. Times(b)' = Recent(b)
      BY <1>1, <2>1 DEF Times
    <3> QED
      BY <1>4, <3>1, RecentIsLoad
  <2>2. CASE b \notin looked
    <3>1. Times(b)' = Times(b)
      BY <1>1, <2>2 DEF Times
    <3> QED
      BY <1>4, <3>1, CountOf
  <2> QED
    BY <2>1, <2>2
<1>5. HitsCount'
  BY <1>3, <1>4 DEF HitsCount
<1> QED
  BY <1>2, <1>5 DEF RInv

\* What an admitted request adds to the counts: one, in its buckets, until now.
LEMMA ServedGrows ==
    ASSUME RateShape, NEW c \in Callers, Admit(c), NEW b, NEW x \in Int
    PROVE  Total(Served', Since(b, x)) =
              IF b \in Buckets(c) /\ x < clock THEN Total(Served, Since(b, x)) + 1 ELSE Total(Served, Since(b, x))
<1> DEFINE a == <<c, clock>>
           S == Since(b, x)
<1>1. /\ IsFiniteSet(S) /\ S \subseteq Callers \X (0 .. MaxTime) /\ \A p \in S : Served[p] \in Nat
  BY SinceFacts
<1>2. a \in Callers \X (0 .. MaxTime) /\ clock \in Int
  BY ClockIsNumber DEF RateShape
<1>3. \A p \in Callers \X (0 .. MaxTime) : Served'[p] = IF p = a THEN Served[p] + 1 ELSE Served[p]
  <2>1. served' = [served EXCEPT ![c][clock] = @ + 1]
    BY DEF Admit
  <2>2. ASSUME NEW d \in Callers, NEW t \in 0 .. MaxTime
        PROVE  Served'[<<d, t>>] = IF <<d, t>> = a THEN Served[<<d, t>>] + 1 ELSE Served[<<d, t>>]
    <3>1. served'[d][t] = IF d = c /\ t = clock THEN served[d][t] + 1 ELSE served[d][t]
      BY <2>1 DEF RateShape
    <3>2. Served[<<d, t>>] = served[d][t] /\ Served'[<<d, t>>] = served'[d][t]
      BY DEF Served
    <3> QED
      BY <3>1, <3>2
  <2> QED
    BY <2>2
<1>4. CASE b \in Buckets(c) /\ x < clock
  <2>1. a \in S
    BY <1>2, <1>4 DEF Since
  <2> HIDE DEF a, S
  <2>2. Served'[a] = Served[a] + 1 /\ \A p \in S \ {a} : Served'[p] = Served[p]
    BY <1>1, <1>2, <1>3
  <2>3. Total(Served', S) = Total(Served, S) + 1
    BY <1>1, <2>1, <2>2, TotalOneMore
  <2> QED
    BY <1>4, <2>3 DEF S
<1>5. CASE ~(b \in Buckets(c) /\ x < clock)
  <2>1. a \notin S
    BY <1>2, <1>5 DEF Since
  <2> HIDE DEF a, S
  <2>2. \A p \in S : Served[p] = Served'[p]
    BY <1>1, <1>3, <2>1
  <2>3. Total(Served, S) = Total(Served', S)
    BY <1>1, <2>2, TotalAgrees
  <2> QED
    BY <1>5, <2>3 DEF S
<1> QED
  BY <1>4, <1>5

\* What an admitted request makes of the buckets: those forgotten have no hit in their window.
LEMMA HitsAfter ==
    ASSUME RInv, NEW c \in Callers, Admit(c)
    PROVE  /\ DOMAIN hits' \subseteq DOMAIN hits \cup Buckets(c)
           /\ \A b \in Buckets(c) : b \in DOMAIN hits' /\ hits'[b] = Append(Recent(b), clock)
           /\ \A b \in DOMAIN hits' \ Buckets(c) : hits'[b] = hits[b]
           /\ \A b \in DOMAIN hits \ DOMAIN hits' : hits[b] = <<>> \/ Last(hits[b]) <= clock - Max(Windows)
<1> DEFINE pruned == PrunedHits(Buckets(c))
           counted == [b \in DOMAIN pruned |-> IF b \in Buckets(c) THEN Append(pruned[b], clock) ELSE pruned[b]]
           late(b) == counted[b] # <<>> /\ Last(counted[b]) > clock - Max(Windows)
<1>1. /\ DOMAIN counted = DOMAIN hits \cup Buckets(c)
      /\ \A b \in Buckets(c) : counted[b] = Append(Recent(b), clock)
      /\ \A b \in DOMAIN hits \ Buckets(c) : counted[b] = hits[b]
  BY DEF PrunedHits
<1>2. hits' = ForgetIdle(counted)
  BY DEF Admit
<1> HIDE DEF counted
<1>3. /\ DOMAIN hits' = {b \in DOMAIN counted : late(b)}
      /\ \A b \in DOMAIN hits' : hits'[b] = counted[b]
  BY <1>2 DEF ForgetIdle
<1>4. ASSUME NEW b \in Buckets(c) PROVE b \in DOMAIN hits'
  <2>1. b \in AllBuckets
    BY CallersBuckets
  <2>2. Recent(b) \in Seq(0 .. MaxTime) /\ clock \in 0 .. MaxTime
    BY <2>1, RecentIsLoad DEF RInv, RateShape
  <2> PICK r : r = Append(Recent(b), clock)
    OBVIOUS
  <2>3. Len(r) = Len(Recent(b)) + 1 /\ r[Len(Recent(b)) + 1] = clock /\ r \in Seq(0 .. MaxTime)
    BY <2>2, AppendFacts
  <2>4. r # <<>> /\ Last(r) = clock
    <3>1. Len(Recent(b)) \in Nat
      BY <2>2, SeqFacts
    <3>2. r # <<>>
      BY <2>3, <3>1, EmptySeq
    <3> QED
      BY <2>3, <3>2 DEF Last
  <2>5. clock > clock - Max(Windows)
    <3>1. Max(Windows) \in Nat \ {0} /\ clock \in Int
      BY <2>1, LongestWindow, ClockIsNumber DEF RInv
    <3> QED
      BY <3>1
  <2>6. late(b)
    BY <1>1, <2>4, <2>5
  <2> QED
    BY <1>1, <1>3, <2>6
<1>5. ASSUME NEW b \in DOMAIN hits \ DOMAIN hits'
      PROVE  hits[b] = <<>> \/ Last(hits[b]) <= clock - Max(Windows)
  <2>1. b \notin Buckets(c) /\ counted[b] = hits[b] /\ ~late(b)
    BY <1>1, <1>3, <1>4, <1>5
  <2>2. SUFFICES ASSUME hits[b] # <<>> PROVE Last(hits[b]) <= clock - Max(Windows)
    OBVIOUS
  <2>3. ~(Last(hits[b]) > clock - Max(Windows))
    BY <2>1, <2>2
  <2>4. Last(hits[b]) \in Int
    <3>1. b \in AllBuckets /\ hits[b] \in Seq(0 .. MaxTime)
      BY DEF RInv, RateShape
    <3>2. Len(hits[b]) \in 1 .. Len(hits[b])
      BY <2>2, <3>1, EmptySeq, SeqFacts
    <3>3. Last(hits[b]) \in 0 .. MaxTime
      BY <3>1, <3>2, ElementOfSeq DEF Last
    <3> QED
      BY <3>3, RateNumbers
  <2>5. Max(Windows) \in Int /\ clock \in Int
    BY LongestWindow, ClockIsNumber DEF RInv, RateShape
  <2> QED
    BY <2>3, <2>4, <2>5
<1> QED
  BY <1>1, <1>3, <1>4, <1>5

\* A bucket the request was counted in, and one it was not.
LEMMA AdmittedCount ==
    ASSUME RInv, NEW c \in Callers, Admit(c), NEW b \in Buckets(c), NEW x \in Int, x >= clock - LimitOf(b).window,
           NEW n \in 0 .. Len(Append(Recent(b), clock)), Splits(Append(Recent(b), clock), x, n)
    PROVE  Len(Append(Recent(b), clock)) - n = Total(Served', Since(b, x))
<1>1. b \in AllBuckets
  BY CallersBuckets
<1> PICK r, s, t : r = Recent(b) /\ s = Append(Recent(b), clock) /\ t = Total(Served, Since(b, x))
  OBVIOUS
<1>2. /\ r \in Seq(0 .. MaxTime) /\ \A i \in 1 .. Len(r) : r[i] <= clock
      /\ \A k \in 0 .. Len(r) : Splits(r, x, k) => Len(r) - k = t
  BY <1>1, RecentIsLoad
<1>3. clock \in 0 .. MaxTime /\ clock \in Int /\ MaxTime \in Nat
  BY RateNumbers, ClockIsNumber DEF RInv, RateShape
<1>4. /\ Len(r) \in Nat /\ Len(s) = Len(r) + 1 /\ s[Len(r) + 1] = clock
      /\ \A i \in 1 .. Len(r) : s[i] = r[i] /\ r[i] \in Int
  <2>1. Len(r) \in Nat /\ \A i \in 1 .. Len(r) : r[i] \in 0 .. MaxTime
    BY <1>2, SeqFacts, ElementOfSeq
  <2>2. Len(s) = Len(r) + 1 /\ s[Len(r) + 1] = clock /\ \A i \in 1 .. Len(r) : s[i] = r[i]
    BY <1>2, <1>3, AppendFacts
  <2> QED
    BY <1>3, <2>1, <2>2
<1>5. Total(Served', Since(b, x)) = IF x < clock THEN t + 1 ELSE t
  BY ServedGrows DEF RInv
<1>6. n \in 0 .. Len(s) /\ (\A i \in 1 .. n : s[i] <= x) /\ \A i \in n + 1 .. Len(s) : s[i] > x
  BY DEF Splits
<1>7. CASE x < clock
  <2>1. n \in 0 .. Len(r)
    BY <1>3, <1>4, <1>6, <1>7
  <2>2. Splits(r, x, n)
    BY <1>4, <1>6, <2>1 DEF Splits
  <2> QED
    BY <1>2, <1>4, <1>5, <1>7, <2>1, <2>2
<1>8. CASE x >= clock
  <2>1. n = Len(r) + 1
    BY <1>3, <1>4, <1>6, <1>8
  <2>2. Splits(r, x, Len(r))
    <3>1. \A i \in 1 .. Len(r) : r[i] <= x
      BY <1>2, <1>3, <1>4, <1>8
    <3> QED
      BY <1>4, <3>1 DEF Splits
  <2>3. Len(r) - Len(r) = t
    BY <1>2, <1>4, <2>2
  <2> QED
    BY <1>3, <1>4, <1>5, <1>8, <2>1, <2>3
<1> QED
  BY <1>3, <1>7, <1>8

LEMMA OthersCount ==
    ASSUME RInv, NEW c \in Callers, Admit(c), NEW b \in AllBuckets, b \notin Buckets(c),
           NEW x \in Int, x >= clock - LimitOf(b).window,
           NEW n \in 0 .. Len(Times(b)'), Splits(Times(b)', x, n)
    PROVE  Len(Times(b)') - n = Total(Served', Since(b, x))
<1>1. Total(Served', Since(b, x)) = Total(Served, Since(b, x))
  BY ServedGrows DEF RInv
<1>2. CASE b \in DOMAIN hits'
  <2>1. b \in DOMAIN hits /\ hits'[b] = hits[b]
    BY <1>2, HitsAfter
  <2>2. Times(b)' = Times(b)
    BY <1>2, <2>1 DEF Times
  <2> QED
    BY <1>1, <2>2, CountOf
<1>3. CASE b \notin DOMAIN hits'
  <2>1. Times(b)' = <<>> /\ Len(Times(b)') = 0 /\ n = 0
    <3>1. Times(b)' = <<>>
      BY <1>3 DEF Times
    <3>2. Len(<<>>) = 0
      BY EmptySeq
    <3> QED
      BY <3>1, <3>2
  <2> PICK q, w, m : q = Times(b) /\ w = LimitOf(b).window /\ m = Max(Windows)
    OBVIOUS
  <2>2. w \in Nat /\ m \in Nat /\ w <= m /\ clock \in Int
    BY LimitFacts, LongestWindow, ClockIsNumber DEF RInv
  <2>3. q \in Seq(0 .. MaxTime) /\ Sorted(q) /\ (q = <<>> \/ Last(q) <= clock - m)
    <3>1. CASE b \in DOMAIN hits
      <4>1. q = hits[b]
        BY <3>1 DEF Times
      <4>2. hits[b] = <<>> \/ Last(hits[b]) <= clock - m
        BY <1>3, <3>1, HitsAfter
      <4> QED
        BY <3>1, <4>1, <4>2 DEF RInv, RateShape
    <3>2. CASE b \notin DOMAIN hits
      BY <3>2, EmptySeq DEF Times, Sorted
    <3> QED
      BY <3>1, <3>2
  <2>4. Len(q) \in Nat /\ \A i \in 1 .. Len(q) : q[i] \in Int
    <3>1. Len(q) \in Nat /\ \A i \in 1 .. Len(q) : q[i] \in 0 .. MaxTime
      BY <2>3, SeqFacts, ElementOfSeq
    <3> QED
      BY <3>1, RateNumbers
  <2>5. ASSUME NEW i \in 1 .. Len(q) PROVE q[i] <= x
    <3>1. q # <<>>
      BY <2>4, <2>5, EmptySeq
    <3>2. q[Len(q)] <= clock - m /\ Len(q) \in 1 .. Len(q) /\ i <= Len(q)
      BY <2>3, <2>4, <2>5, <3>1 DEF Last
    <3>3. q[i] <= q[Len(q)]
      BY <2>3, <3>2 DEF Sorted
    <3> QED
      <4>1. clock - m <= x /\ clock - m \in Int
        BY <2>2
      <4>2. q[i] \in Int /\ q[Len(q)] \in Int
        BY <2>4, <3>2
      <4> QED
        BY <3>2, <3>3, <4>1, <4>2
  <2>6. Splits(q, x, Len(q))
    BY <2>4, <2>5 DEF Splits
  <2>7. Len(q) - Len(q) = Total(Served, Since(b, x))
    BY <2>4, <2>6, CountOf
  <2> QED
    BY <1>1, <2>1, <2>4, <2>7
<1> QED
  BY <1>2, <1>3

\* An admitted request keeps the counts.
LEMMA AdmitKeeps ==
    ASSUME RInv, NEW c \in Callers, Admit(c)
    PROVE  RInv'
<1>0. /\ clock' = clock /\ armed' = armed /\ clock \in 0 .. MaxTime /\ MaxTime \in Nat
      /\ served' = [served EXCEPT ![c][clock] = @ + 1]
      /\ \A b \in Buckets(c) : Len(Recent(b)) < LimitOf(b).requests
  BY RateNumbers DEF Admit, RInv, RateShape
<1>1. /\ DOMAIN hits' \subseteq DOMAIN hits \cup Buckets(c)
      /\ \A b \in Buckets(c) : b \in DOMAIN hits' /\ hits'[b] = Append(Recent(b), clock)
      /\ \A b \in DOMAIN hits' \ Buckets(c) : hits'[b] = hits[b]
  BY HitsAfter
<1>2. RateShape'
  <2>1. DOMAIN hits' \subseteq AllBuckets
    BY <1>1, CallersBuckets DEF RInv, RateShape
  <2>2. served' \in [Callers -> [0 .. MaxTime -> Nat]]
    BY <1>0 DEF RInv, RateShape
  <2>3. ASSUME NEW b \in DOMAIN hits'
        PROVE  /\ hits'[b] \in Seq(0 .. MaxTime) /\ Sorted(hits'[b])
               /\ \A i \in 1 .. Len(hits'[b]) : hits'[b][i] <= clock
               /\ Len(hits'[b]) <= LimitOf(b).requests
    <3>1. CASE b \in Buckets(c)
      <4> PICK r, s : r = Recent(b) /\ s = hits'[b]
        OBVIOUS
      <4>1. r \in Seq(0 .. MaxTime) /\ Sorted(r) /\ \A i \in 1 .. Len(r) : r[i] <= clock
        BY <3>1, CallersBuckets, RecentIsLoad
      <4>2. Len(r) \in Nat /\ \A i \in 1 .. Len(r) : r[i] \in Int
        <5>1. Len(r) \in Nat /\ \A i \in 1 .. Len(r) : r[i] \in 0 .. MaxTime
          BY <4>1, SeqFacts, ElementOfSeq
        <5> QED
          BY <1>0, <5>1
      <4>3. s = Append(r, clock)
        BY <1>1, <3>1
      <4>4. /\ s \in Seq(0 .. MaxTime) /\ Len(s) = Len(r) + 1 /\ s[Len(r) + 1] = clock
            /\ \A i \in 1 .. Len(r) : s[i] = r[i]
        BY <1>0, <4>1, <4>3, AppendFacts
      <4>5. \A i \in 1 .. Len(s) : i \in 1 .. Len(r) \/ i = Len(r) + 1
        BY <4>2, <4>4
      <4>6. \A i \in 1 .. Len(s) : s[i] <= clock /\ s[i] \in Int
        BY <1>0, <4>1, <4>2, <4>4, <4>5
      <4>7. Sorted(s)
        <5>1. ASSUME NEW i \in 1 .. Len(s), NEW j \in 1 .. Len(s), i <= j PROVE s[i] <= s[j]
          <6>1. CASE j = Len(r) + 1
            BY <4>4, <4>6, <6>1
          <6>2. CASE j \in 1 .. Len(r)
            <7>1. i \in 1 .. Len(r)
              BY <4>2, <5>1, <6>2
            <7> QED
              BY <4>1, <4>4, <5>1, <6>2, <7>1 DEF Sorted
          <6> QED
            BY <4>5, <6>1, <6>2
        <5> QED
          BY <5>1 DEF Sorted
      <4>8. Len(s) <= LimitOf(b).requests
        <5>1. LimitOf(b).requests \in Nat /\ Len(r) < LimitOf(b).requests
          BY <1>0, <3>1, CallersBuckets, LimitFacts
        <5> QED
          BY <4>2, <4>4, <5>1
      <4> QED
        BY <4>4, <4>6, <4>7, <4>8
    <3>2. CASE b \notin Buckets(c)
      <4>1. b \in DOMAIN hits /\ hits'[b] = hits[b]
        BY <1>1, <3>2
      <4> QED
        BY <4>1 DEF RInv, RateShape
    <3> QED
      BY <3>1, <3>2
  <2> QED
    BY <1>0, <2>1, <2>2, <2>3 DEF RInv, RateShape
<1>3. ASSUME NEW b \in AllBuckets, NEW x \in Int, x >= clock - LimitOf(b).window,
             NEW n \in 0 .. Len(Times(b)'), Splits(Times(b)', x, n)
      PROVE  Len(Times(b)') - n = Total(Served', Since(b, x))
  <2>1. CASE b \in Buckets(c)
    <3>1. Times(b)' = Append(Recent(b), clock)
      BY <1>1, <2>1 DEF Times
    <3> QED
      BY <1>3, <2>1, <3>1, AdmittedCount
  <2>2. CASE b \notin Buckets(c)
    BY <1>3, <2>2, OthersCount
  <2> QED
    BY <2>1, <2>2
<1>4. HitsCount'
  BY <1>0, <1>3 DEF HitsCount
<1> QED
  BY <1>2, <1>4 DEF RInv

\* Time only takes hits out of their windows.
LEMMA TickKeeps ==
    ASSUME RInv, RateTick
    PROVE  RInv'
<1>1. clock' = clock + 1 /\ clock < MaxTime /\ hits' = hits /\ armed' = armed /\ served' = served
  BY DEF RateTick
<1>2. clock \in 0 .. MaxTime /\ clock \in Int /\ MaxTime \in Nat
  BY RateNumbers DEF RInv, RateShape
<1>3. clock' \in 0 .. MaxTime /\ clock' = clock + 1
  BY <1>1, <1>2
<1>4. ASSUME NEW b \in DOMAIN hits, NEW i \in 1 .. Len(hits[b])
      PROVE  hits[b][i] <= clock'
  <2>1. hits[b] \in Seq(0 .. MaxTime) /\ hits[b][i] <= clock
    BY DEF RInv, RateShape
  <2>2. hits[b][i] \in 0 .. MaxTime
    BY <2>1, ElementOfSeq
  <2> QED
    BY <1>2, <1>3, <2>1, <2>2
<1>5. RateShape'
  BY <1>1, <1>3, <1>4 DEF RInv, RateShape
<1>6. Served' = Served
  BY <1>1 DEF Served
<1>7. ASSUME NEW b \in AllBuckets, NEW x \in Int, x >= clock' - LimitOf(b).window
      PROVE  x >= clock - LimitOf(b).window
  <2>1. LimitOf(b).window \in Nat \ {0}
    BY LimitFacts
  <2> QED
    BY <1>2, <1>3, <1>7, <2>1
<1>8. \A b : Times(b)' = Times(b)
  BY <1>1 DEF Times
<1>9. HitsCount'
  BY <1>6, <1>7, <1>8 DEF RInv, HitsCount
<1> QED
  BY <1>5, <1>9 DEF RInv

\* Every step keeps the counts.
LEMMA StepRInv ==
    ASSUME RInv, [RateNext]_rateVars
    PROVE  RInv'
<1>1. ASSUME NEW c \in Callers, Admit(c) PROVE RInv'
  BY <1>1, AdmitKeeps
<1>2. ASSUME NEW c \in Callers, Refuse(c) PROVE RInv'
  <2>1. PICK b \in Buckets(c) : hits' = PrunedHits({d \in Buckets(c) : Order[d[2]] <= Order[b[2]]})
    BY <1>2 DEF Refuse
  <2>2. {d \in Buckets(c) : Order[d[2]] <= Order[b[2]]} \subseteq AllBuckets
    BY CallersBuckets
  <2>3. UNCHANGED <<clock, armed, served>>
    BY <1>2 DEF Refuse
  <2> QED
    BY <2>1, <2>2, <2>3, PruningKeeps
<1>3. ASSUME UNCHANGED <<hits, clock, served>>, armed' \in BOOLEAN PROVE RInv'
  <2>1. Served' = Served
    BY <1>3 DEF Served
  <2>2. \A b : Times(b)' = Times(b)
    BY <1>3 DEF Times
  <2>3. RateShape'
    BY <1>3 DEF RInv, RateShape
  <2>4. HitsCount'
    BY <1>3, <2>1, <2>2 DEF RInv, HitsCount
  <2> QED
    BY <2>3, <2>4 DEF RInv
<1>4. armed \in BOOLEAN
  BY DEF RInv, RateShape
<1>5. CASE RateTick
  BY <1>5, TickKeeps
<1>6. CASE Arm
  BY <1>3, <1>6 DEF Arm
<1>7. CASE UNCHANGED rateVars
  BY <1>3, <1>4, <1>7 DEF rateVars
<1>8. ASSUME NEW c \in Callers, Unlimited(c) PROVE RInv'
  BY <1>7, <1>8 DEF Unlimited
<1> QED
  BY <1>1, <1>2, <1>5, <1>6, <1>7, <1>8 DEF RateNext

\* Nothing is counted at first.
LEMMA InitRInv ==
    ASSUME RateInit
    PROVE  RInv
<1>1. /\ hits = <<>> /\ DOMAIN hits = {} /\ clock = 0 /\ armed = FALSE
      /\ served = [c \in Callers |-> [t \in 0 .. MaxTime |-> 0]]
  BY DEF RateInit
<1>2. RateShape
  <2>1. 0 \in 0 .. MaxTime /\ served \in [Callers -> [0 .. MaxTime -> Nat]]
    BY <1>1, RateNumbers
  <2>2. \A b \in DOMAIN hits : FALSE
    BY <1>1
  <2> QED
    BY <1>1, <2>1, <2>2 DEF RateShape
<1>3. ASSUME NEW b \in AllBuckets, NEW x \in Int PROVE Total(Served, Since(b, x)) = 0
  <2> DEFINE S == Since(b, x)
  <2>1. IsFiniteSet(S) /\ S \subseteq Callers \X (0 .. MaxTime) /\ \A p \in S : Served[p] \in Nat
    BY <1>2, SinceFacts
  <2>2. \A p \in S : Served[p] = 0
    BY <1>1, <2>1 DEF Served
  <2> HIDE DEF S
  <2>3. Total(Served, S) = 0
    BY <2>1, <2>2, TotalZero
  <2> QED
    BY <2>3 DEF S
<1>4. \A b \in AllBuckets : Times(b) = <<>> /\ Len(Times(b)) = 0
  BY <1>1, EmptySeq DEF Times
<1>5. HitsCount
  BY <1>3, <1>4 DEF HitsCount
<1> QED
  BY <1>2, <1>5 DEF RInv

(* RInv holds throughout. *)
LEMMA RateInvariant == RateSpec => []RInv
<1>1. RateInit => RInv
  BY InitRInv
<1>2. RInv /\ [RateNext]_rateVars => RInv'
  BY StepRInv
<1> QED
  BY <1>1, <1>2, PTL DEF RateSpec

(* The limiter admits a request exactly when each of its limits has room in its window, and
   refuses it only when one has none: what it keeps, prunes and forgets never changes the count
   (check and _forget_idle in services/rate_limit.py). *)
THEOREM RatesExact == RateSpec => RateIsExact
<1>1. ASSUME RInv, NEW c \in Callers, NEW b \in Buckets(c)
      PROVE  Len(Recent(b)) = Load(b)
  <2>1. b \in AllBuckets
    BY CallersBuckets
  <2>2. Len(Recent(b)) = Total(Served, Since(b, clock - LimitOf(b).window))
    BY <1>1, <2>1, RecentIsLoad
  <2>3. Load(b) = Total(Served, Since(b, clock - LimitOf(b).window))
    BY <1>1, LoadIsTotal DEF RInv
  <2> QED
    BY <2>2, <2>3
<1>2. ASSUME RInv, [RateNext]_rateVars, NEW c \in Callers, served'[c] # served[c]
      PROVE  Admit(c)
  <2>1. ASSUME NEW d \in Callers, Admit(d) PROVE d = c
    <3>1. served' = [served EXCEPT ![d][clock] = @ + 1]
      BY <2>1 DEF Admit
    <3>2. d # c => served'[c] = served[c]
      BY <1>2, <3>1 DEF RInv, RateShape
    <3> QED
      BY <1>2, <3>2
  <2>2. served' # served
    BY <1>2
  <2>3. \A d \in Callers : ~Refuse(d) /\ ~Unlimited(d)
    BY <2>2 DEF Refuse, Unlimited, rateVars
  <2>4. ~Arm /\ ~RateTick /\ ~(UNCHANGED rateVars)
    BY <2>2 DEF Arm, RateTick, rateVars
  <2> QED
    BY <1>2, <2>1, <2>3, <2>4 DEF RateNext
<1>3. RInv /\ [RateNext]_rateVars =>
        [\A c \in Callers :
           /\ served'[c] # served[c] => \A b \in Buckets(c) : Load(b) < LimitOf(b).requests
           /\ Refuse(c) => \E b \in Buckets(c) : Load(b) >= LimitOf(b).requests]_rateVars
  <2> SUFFICES ASSUME RInv, [RateNext]_rateVars, NEW c \in Callers
               PROVE  /\ served'[c] # served[c] => \A b \in Buckets(c) : Load(b) < LimitOf(b).requests
                      /\ Refuse(c) => \E b \in Buckets(c) : Load(b) >= LimitOf(b).requests
    OBVIOUS
  <2>1. ASSUME served'[c] # served[c], NEW b \in Buckets(c) PROVE Load(b) < LimitOf(b).requests
    <3>1. Len(Recent(b)) < LimitOf(b).requests
      BY <1>2, <2>1 DEF Admit
    <3> QED
      BY <1>1, <3>1
  <2>2. ASSUME Refuse(c) PROVE \E b \in Buckets(c) : Load(b) >= LimitOf(b).requests
    <3>1. PICK b \in Buckets(c) : Len(Recent(b)) >= LimitOf(b).requests
      BY <2>2 DEF Refuse
    <3> QED
      BY <1>1, <3>1
  <2> QED
    BY <2>1, <2>2
<1> QED
  BY <1>3, RateInvariant, PTL DEF RateSpec, RateIsExact

-----------------------------------------------------------------------------
(* Types.                                                                  *)

(* Days, cooling and connections are within their bounds. *)
DInv ==
    /\ today \in 1 .. MaxDay /\ paid \in BOOLEAN
    /\ \A r \in Requests : stamp[r].day \in 1 .. MaxDay
    /\ \A a \in Attempts : ledger[a].day \in 0 .. MaxDay
    /\ cooling \in [Providers -> 0 .. Cool] /\ idle \in [Providers -> 0 .. MaxIdle]

LEMMA UsageNumbers == Cool \in Nat /\ MaxIdle \in Nat /\ MaxDay \in Nat \ {0}
BY UsageAssumption

LEMMA InitDInv == UsageInit => DInv
<1> SUFFICES ASSUME UsageInit PROVE DInv
  OBVIOUS
<1>1. 0 \in 0 .. Cool /\ 0 \in 0 .. MaxIdle /\ 0 \in 0 .. MaxDay /\ 1 \in 1 .. MaxDay
  BY UsageNumbers
<1>2. /\ today = 1 /\ paid \in BOOLEAN /\ \A r \in Requests : stamp[r].day = 1
      /\ \A a \in Attempts : ledger[a].day = 0
      /\ cooling = [p \in Providers |-> 0] /\ idle = [p \in Providers |-> 0]
  BY DEF UsageInit, NoStamp, NoRow
<1> QED
  BY <1>1, <1>2 DEF DInv

\* No more connections are kept than may be.
LEMMA ConnectionsFit ==
    ASSUME DInv, NEW r \in Requests, Post(r) \/ PostAnswered(r)
    PROVE  idle' \in [Providers -> 0 .. MaxIdle]
<1>1. idle \in [Providers -> 0 .. MaxIdle] /\ MaxIdle \in Nat /\ 0 \in 0 .. MaxIdle
  BY UsageNumbers DEF DInv
<1>2. ASSUME NEW p PROVE [idle EXCEPT ![p] = 0] \in [Providers -> 0 .. MaxIdle]
  BY <1>1
<1>3. ASSUME NEW p, idle[p] > 0 PROVE [idle EXCEPT ![p] = @ - 1] \in [Providers -> 0 .. MaxIdle]
  <2>1. p \in Providers => idle[p] - 1 \in 0 .. MaxIdle
    BY <1>1, <1>3
  <2> QED
    BY <1>1, <2>1
<1>4. ASSUME NEW p PROVE [idle EXCEPT ![p] = Kept(@)] \in [Providers -> 0 .. MaxIdle]
  <2>1. p \in Providers => Kept(idle[p]) \in 0 .. MaxIdle
    BY <1>1 DEF Kept
  <2> QED
    BY <1>1, <2>1
<1>5. CASE Post(r)
  BY <1>2, <1>3, <1>5 DEF Post, Checkout
<1>6. CASE PostAnswered(r)
  <2>1. idle' = [idle EXCEPT ![Provider(r)] = Kept(@)] \/ idle' = idle
    BY <1>6 DEF PostAnswered
  <2> QED
    BY <1>1, <1>4, <2>1
<1> QED
  BY <1>5, <1>6

\* A stamp or a row of a day of the calendar.
LEMMA StampsFit ==
    ASSUME UInv, DInv, NEW r \in Requests, NEW s, s.day \in 1 .. MaxDay, stamp' = [stamp EXCEPT ![r] = s]
    PROVE  \A q \in Requests : stamp'[q].day \in 1 .. MaxDay
BY DEF UInv, UShape, DInv

LEMMA DaysFit ==
    ASSUME UInv, DInv, NEW r \in Requests, NEW row, row.day \in 0 .. MaxDay,
           ledger' = [ledger EXCEPT ![Attempt(r)] = row]
    PROVE  \A a \in Attempts : ledger'[a].day \in 0 .. MaxDay
BY DEF UInv, UShape, DInv

\* An attempt that is over leaves its provider alone for as long as it asked.
LEMMA AfterFits ==
    ASSUME DInv, NEW r \in Requests, After(r)
    PROVE  cooling' \in [Providers -> 0 .. Cool] /\ UNCHANGED <<stamp, idle, paid, today>>
<1>1. Cool \in 0 .. Cool /\ cooling \in [Providers -> 0 .. Cool]
  BY UsageNumbers DEF DInv
<1>2. cooling' = [cooling EXCEPT ![Provider(r)] = Cool] \/ cooling' = cooling
  BY DEF After
<1>3. ASSUME NEW p PROVE [cooling EXCEPT ![p] = Cool] \in [Providers -> 0 .. Cool]
  BY <1>1
<1> QED
  BY <1>1, <1>2, <1>3 DEF After

LEMMA StepDInv == UInv /\ DInv /\ [UsageNext]_usageVars => DInv'
<1> SUFFICES ASSUME UInv, DInv, [UsageNext]_usageVars PROVE DInv'
  OBVIOUS
<1>0. /\ today \in 1 .. MaxDay /\ 1 \in 1 .. MaxDay /\ \A d \in 1 .. MaxDay : d \in 0 .. MaxDay
  BY UsageNumbers DEF DInv
<1>1. ASSUME NEW r \in Requests, Begin(r) PROVE DInv'
  BY <1>1 DEF DInv, Begin
<1>2. ASSUME NEW r \in Requests, TooLarge(r) PROVE DInv'
  BY <1>2 DEF DInv, TooLarge
<1>3. ASSUME NEW r \in Requests, ReadPolicy(r) PROVE DInv'
  <2>1. \A q \in Requests : stamp'[q].day \in 1 .. MaxDay
    BY <1>0, <1>3, StampsFit DEF ReadPolicy
  <2> QED
    BY <1>3, <2>1 DEF DInv, ReadPolicy
<1>4. ASSUME NEW r \in Requests, Reserve(r) PROVE DInv'
  <2>1. \A q \in Requests : stamp'[q].day \in 1 .. MaxDay
    BY <1>0, <1>4, StampsFit DEF Reserve, Forgets, NoStamp
  <2>2. PICK status : ledger' = [ledger EXCEPT ![Attempt(r)] = Row(r, status, stamp[r].day)]
    BY <1>4 DEF Reserve
  <2>3. Row(r, status, stamp[r].day).day \in 0 .. MaxDay
    BY <1>0 DEF Row, DInv
  <2>4. \A a \in Attempts : ledger'[a].day \in 0 .. MaxDay
    BY <2>2, <2>3, DaysFit
  <2> QED
    BY <1>4, <2>1, <2>4 DEF DInv, Reserve
<1>5. ASSUME NEW r \in Requests, ReserveFails(r) PROVE DInv'
  <2>1. \A q \in Requests : stamp'[q].day \in 1 .. MaxDay
    BY <1>0, <1>5, StampsFit DEF ReserveFails, Forgets, NoStamp
  <2> QED
    BY <1>5, <2>1 DEF DInv, ReserveFails
<1>6. ASSUME NEW r \in Requests, Post(r) PROVE DInv'
  BY <1>6, ConnectionsFit DEF DInv, Post
<1>7. ASSUME NEW r \in Requests, PostStale(r) PROVE DInv'
  BY <1>7 DEF DInv, PostStale
<1>8. ASSUME NEW r \in Requests, PostAnswered(r) PROVE DInv'
  BY <1>8, ConnectionsFit DEF DInv, PostAnswered
<1>9. ASSUME NEW r \in Requests, PostFailed(r) PROVE DInv'
  BY <1>9 DEF DInv, PostFailed
<1>10. ASSUME NEW r \in Requests, Settle(r) PROVE DInv'
  <2>1. PICK actual :
          ledger' = [ledger EXCEPT ![Attempt(r)] = Settled(ledger[Attempt(r)], StatusOf(reply[r]), actual)]
    <3>1. \E actual : ledger' = [ledger EXCEPT ![Attempt(r)] = Settled(@, StatusOf(reply[r]), actual)]
      BY <1>10 DEF Settle
    <3> QED
      BY <3>1
  <2>2. Settled(ledger[Attempt(r)], StatusOf(reply[r]), actual).day = ledger[Attempt(r)].day
    BY DEF Settled
  <2>3. ledger[Attempt(r)].day \in 0 .. MaxDay
    BY AttemptType DEF UInv, DInv
  <2>4. \A a \in Attempts : ledger'[a].day \in 0 .. MaxDay
    BY <2>1, <2>2, <2>3, DaysFit
  <2>5. cooling' \in [Providers -> 0 .. Cool] /\ UNCHANGED <<stamp, idle, paid, today>>
    BY <1>10, AfterFits DEF Settle
  <2> QED
    BY <2>4, <2>5 DEF DInv
<1>11. ASSUME NEW r \in Requests, SettleFails(r) PROVE DInv'
  <2>1. cooling' \in [Providers -> 0 .. Cool] /\ UNCHANGED <<stamp, idle, paid, today>> /\ UNCHANGED ledger
    BY <1>11, AfterFits DEF SettleFails
  <2> QED
    BY <2>1 DEF DInv
<1>12. ASSUME NEW p \in Providers, CoolDown(p) PROVE DInv'
  <2>1. cooling[p] > 0 /\ cooling' = [cooling EXCEPT ![p] = @ - 1] /\ cooling \in [Providers -> 0 .. Cool]
    BY <1>12 DEF CoolDown, DInv
  <2>2. cooling[p] - 1 \in 0 .. Cool
    BY <2>1, UsageNumbers
  <2>3. cooling' \in [Providers -> 0 .. Cool]
    BY <2>1, <2>2
  <2> QED
    BY <1>12, <2>3 DEF DInv, CoolDown
<1>13. CASE Midnight
  <2>1. today' \in 1 .. MaxDay
    BY <1>0, <1>13, UsageNumbers DEF Midnight
  <2> QED
    BY <1>13, <2>1 DEF DInv, Midnight
<1>14. CASE Restart
  <2>1. \A r \in Requests : stamp'[r].day \in 1 .. MaxDay
    BY <1>0, <1>14 DEF Restart, NoStamp
  <2>2. \A a \in Attempts : ledger'[a].day = ledger[a].day
    <3>1. \A a \in Attempts : ledger'[a] = Pruned(ledger[a])
      BY <1>14 DEF Restart
    <3>2. \A a \in Attempts : Pruned(ledger[a]).day = ledger[a].day
      BY DEF Pruned, UInv, UShape, Rows
    <3> QED
      BY <3>1, <3>2
  <2>3. cooling' = [p \in Providers |-> 0] /\ idle' = [p \in Providers |-> 0]
    BY <1>14 DEF Restart
  <2>4. cooling' \in [Providers -> 0 .. Cool] /\ idle' \in [Providers -> 0 .. MaxIdle]
    BY <2>3, UsageNumbers
  <2> QED
    BY <1>14, <2>1, <2>2, <2>4 DEF DInv, Restart
<1>15. CASE UNCHANGED usageVars
  BY <1>15 DEF DInv, usageVars
<1> QED
  BY <1>1, <1>2, <1>3, <1>4, <1>5, <1>6, <1>7, <1>8, <1>9, <1>10, <1>11, <1>12, <1>13, <1>14, <1>15
     DEF UsageNext, Step

(* Every variable of the two has its type: days within the calendar, connections and hits within
   their limits, no provider left alone for longer than it asked. *)
THEOREM ProvidersTyped == MCSpec => []TypeOK
<1>1. MCInit => UInv /\ DInv /\ RInv
  BY InitUInv, InitDInv, InitRInv DEF MCInit
<1>2. [MCNext]_<<usageVars, rateVars, part>> => [UsageNext]_usageVars /\ [RateNext]_rateVars
  BY DEF MCNext
<1>3. UInv /\ DInv /\ RInv /\ [MCNext]_<<usageVars, rateVars, part>> => (UInv /\ DInv /\ RInv)'
  BY <1>2, StepUInv, StepDInv, StepRInv
<1>4. UInv /\ DInv /\ RInv => TypeOK
  <2>1. UInv /\ DInv => UsageTypeOK
    <3>1. ASSUME UInv, DInv, NEW a \in Attempts PROVE ledger[a].status \in Statuses \cup {"none", "pruned"}
      BY <3>1 DEF UInv, UShape, Rows, AnyStatus
    <3>2. ASSUME UInv, DInv, NEW r \in Requests PROVE stamp[r].refused \in BOOLEAN
      BY <3>2 DEF UInv, UShape
    <3> QED
      BY <3>1, <3>2 DEF UInv, UShape, DInv, SentBehind, UsageTypeOK
  <2>2. RInv => RateTypeOK
    <3> SUFFICES ASSUME RInv, NEW b \in DOMAIN hits PROVE Range(hits[b]) \subseteq 0 .. MaxTime
      BY DEF RInv, RateShape, RateTypeOK
    <3>1. hits[b] \in Seq(0 .. MaxTime)
      BY DEF RInv, RateShape
    <3> QED
      BY <3>1, SeqFacts, ElementOfSeq
  <2> QED
    BY <2>1, <2>2 DEF TypeOK
<1> QED
  BY <1>1, <1>3, <1>4, PTL DEF MCSpec
===============================================================================
