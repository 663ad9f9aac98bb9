----------------------------- MODULE RateLimits -----------------------------
(***************************************************************************)
(* The rate limiter: sliding windows of the requests admitted, per route   *)
(* and per client address, identity and deployment. One lock spans a       *)
(* request's whole check, so a step is one request.                        *)
(***************************************************************************)
EXTENDS Integers, Sequences, FiniteSets, FiniteSetsExt, SequencesExt

CONSTANTS
    Limits,        \* DEFAULT_LIMITS: the limit of each <<route, kind of key>> that has one
    Callers,       \* who asks: a route, and the keys known of the request
    MaxTime        \* a bound of the model

KeyKinds == {"client", "identity", "deployment"}
Windows == {Limits[l].window : l \in DOMAIN Limits}

ASSUME LimitsAssumption ==
    /\ DOMAIN Limits \subseteq STRING \X KeyKinds
    /\ \A l \in DOMAIN Limits : Limits[l].requests \in Nat \ {0} /\ Limits[l].window \in Nat \ {0}
    /\ IsFiniteSet(DOMAIN Limits) /\ IsFiniteSet(Callers)
    /\ \A c \in Callers : c.route \in STRING /\ DOMAIN c.keys \subseteq KeyKinds
    /\ MaxTime \in Nat

VARIABLES
    hits,          \* _hits: the buckets, with the times of the requests counted in each
    clock,
    armed,
    served         \* history: how many requests of a caller were admitted at a time

rateVars == <<hits, clock, armed, served>>

\* The limits a caller's request is under, as the buckets it is counted in.
Buckets(c) == {<<l[1], l[2], c.keys[l[2]]>> : l \in {m \in DOMAIN Limits : m[1] = c.route /\ m[2] \in DOMAIN c.keys}}
LimitOf(b) == Limits[<<b[1], b[2]>>]

Times(b) == IF b \in DOMAIN hits THEN hits[b] ELSE <<>>

\* The hits of a bucket that are still in its window: those before them are popped from the left.
Recent(b) ==
    LET cutoff == clock - LimitOf(b).window
        gone == CHOOSE n \in 0 .. Len(Times(b)) :
                    /\ \A i \in 1 .. n : Times(b)[i] <= cutoff
                    /\ n < Len(Times(b)) => Times(b)[n + 1] > cutoff
    IN SubSeq(Times(b), gone + 1, Len(Times(b)))

(* Mutant: buckets are forgotten when their hits have left the shortest window. *)
ForgetEarly(counted) ==
    [b \in {d \in DOMAIN counted : counted[d] # <<>> /\ Last(counted[d]) > clock - Min(Windows)} |->
       counted[b]]

\* _forget_idle: buckets without a hit in the longest window are dropped.
ForgetIdle(counted) ==
    [b \in {d \in DOMAIN counted : counted[d] # <<>> /\ Last(counted[d]) > clock - Max(Windows)} |->
       counted[b]]

RateInit == hits = <<>> /\ clock = 0 /\ armed = FALSE /\ served = [c \in Callers |-> [t \in 0 .. MaxTime |-> 0]]

\* arm, when the server starts and limits are not switched off.
Arm == ~armed /\ armed' = TRUE /\ UNCHANGED <<hits, clock, served>>

\* The limits are looked at one by one; those looked at drop the hits that left their window.
PrunedHits(looked) ==
    [b \in DOMAIN hits \cup looked |-> IF b \in looked THEN Recent(b) ELSE hits[b]]

Admit(c) ==
    /\ armed /\ \A b \in Buckets(c) : Len(Recent(b)) < LimitOf(b).requests
    /\ LET pruned == PrunedHits(Buckets(c)) IN
       hits' = ForgetIdle([b \in DOMAIN pruned |->
                             IF b \in Buckets(c) THEN Append(pruned[b], clock) ELSE pruned[b]])
    /\ served' = [served EXCEPT ![c][clock] = @ + 1]
    /\ UNCHANGED <<clock, armed>>

\* The first limit that is reached refuses the request, which is then counted nowhere.
Order == [client |-> 1, identity |-> 2, deployment |-> 3]
Refuse(c) ==
    /\ armed
    /\ \E b \in Buckets(c) :
         LET looked == {d \in Buckets(c) : Order[d[2]] <= Order[b[2]]} IN
         /\ Len(Recent(b)) >= LimitOf(b).requests
         /\ \A d \in looked \ {b} : Len(Recent(d)) < LimitOf(d).requests
         /\ hits' = PrunedHits(looked)
    /\ UNCHANGED <<clock, armed, served>>

Unlimited(c) == ~armed /\ UNCHANGED rateVars

RateTick == clock < MaxTime /\ clock' = clock + 1 /\ UNCHANGED <<hits, armed, served>>

RateNext ==
    \/ \E c \in Callers : Admit(c) \/ Refuse(c) \/ Unlimited(c)
    \/ Arm \/ RateTick

RateSpec == RateInit /\ [][RateNext]_rateVars

-----------------------------------------------------------------------------
(* Properties.                                                             *)

RateTypeOK ==
    /\ \A b \in DOMAIN hits : Len(hits[b]) <= LimitOf(b).requests /\ Range(hits[b]) \subseteq 0 .. MaxTime
    /\ clock \in 0 .. MaxTime /\ armed \in BOOLEAN

\* How many requests counted in a bucket were admitted within its window that ends now.
Load(b) ==
    MapThenSumSet(LAMBDA p : served[p[1]][p[2]],
                  {p \in Callers \X (0 .. MaxTime) : b \in Buckets(p[1]) /\ p[2] > clock - LimitOf(b).window})

(* A request is admitted exactly when each of its limits has room in its window, counting every
   request admitted of anyone who shares the key and nothing that was refused, whatever buckets
   have been dropped meanwhile. *)
RateIsExact ==
    [][\A c \in Callers :
         /\ served'[c] # served[c] => \A b \in Buckets(c) : Load(b) < LimitOf(b).requests
         /\ Refuse(c) => \E b \in Buckets(c) : Load(b) >= LimitOf(b).requests]_rateVars
=============================================================================
