---------------------------- MODULE ProviderUsage ----------------------------
(***************************************************************************)
(* Paid providers: the usage ledger, and the three callers that reserve in *)
(* it before each attempt (speech with its fallback voices, the reasoner   *)
(* and the model gateway), down to the connections the attempts are sent   *)
(* on.                                                                     *)
(*                                                                         *)
(* The policy and the day are read first; then one transaction counts what *)
(* the ledger holds and inserts the attempt, reserved or blocked. What the *)
(* provider answers is settled later, if settling works and the process    *)
(* lives.                                                                  *)
(***************************************************************************)
EXTENDS Integers, Sequences, FiniteSets, FiniteSetsExt, SequencesExt

CONSTANTS
    Requests,      \* what visitors ask for, a bound of the model
    Plans,         \* what they may be: a kind, request ID, user, session and units for each
    Voices,        \* the speech providers configured, in fallback order
    Policy,        \* capability_policy, for each capability
    PerRequest,    \* max_attempts_per_request
    TotalCap,      \* total_attempt_cap, or None
    Retention,     \* usage_retention_days
    MaxIdle,       \* MAX_IDLE_PER_HOST
    Reports,       \* the usage a provider may report, 0 for none
    Cool,          \* how long a provider asks to be left alone, in clock ticks
    MaxDay,        \* the last day, a bound of the model
    MaxRestarts    \* a bound of the model

None == -1         \* no limit, Python's None
Kinds == {"speech", "reasoner", "gateway"}
Capabilities == {"speech", "reasoning"}
CapabilityOf(kind) == IF kind = "speech" THEN "speech" ELSE "reasoning"

Providers == Range(Voices) \cup {"gemini", "model_gateway"}
Places == 1 .. Len(Voices) + 1
Attempts == Requests \X Places    \* an attempt is named by its request and its provider's place

ASSUME UsageAssumption ==
    /\ IsFiniteSet(Requests)
    /\ \A plan \in Plans : \A r \in Requests : plan[r].kind \in Kinds /\ plan[r].units \in Nat
    /\ Voices \in Seq(STRING)
    /\ \A c \in Capabilities :
         /\ {Policy[c].perAttempt, Policy[c].user, Policy[c].deployment} \subseteq Nat
         /\ {Policy[c].session, Policy[c].userUnits, Policy[c].deploymentUnits}
              \subseteq Nat \cup {None}
    /\ PerRequest \in Nat /\ TotalCap \in Nat \cup {None}
    /\ {Retention, MaxIdle, Cool, MaxRestarts} \subseteq Nat /\ MaxDay \in Nat \ {0}
    /\ Reports \subseteq Nat

VARIABLES
    asks,          \* what each request is, fixed from the start
    stage,         \* where a request is
    left,          \* the provider it tries, and those it may still try, by their place
    stamp,         \* the day, and whether the policy refuses it, as read before its transaction
    ledger,        \* provider_attempts
    reply,         \* what the provider did with the attempt being settled
    cooling,       \* _cooldown_until, as what is left of it
    idle,          \* the connections kept for each provider's host
    paid,          \* paid_providers_enabled, which only a restart changes
    today,
    restarts,
    sent           \* history: the attempts a provider was contacted for

usageVars == <<asks, stage, left, stamp, ledger, reply, cooling, idle, paid, today, restarts, sent>>

Ended == {"answered", "unanswered", "gone"}
Stages == {"new", "ready", "reserving", "sending", "again", "posted", "posted_kept", "settling"} \cup Ended
Statuses == {"reserved", "blocked", "succeeded", "failed"}   \* a timeout is a failure
NoRow == [status |-> "none", day |-> 0, units |-> 0, actual |-> 0]

-----------------------------------------------------------------------------
(* The ledger.                                                             *)

Counted(a) == ledger[a].status \notin {"none", "blocked", "not_sent", "pruned"}
CountedIn(attempts) == {a \in attempts : Counted(a)}
Consumed(attempts) ==
    MapThenSumSet(LAMBDA a : IF ledger[a].units > ledger[a].actual THEN ledger[a].units
                             ELSE ledger[a].actual, CountedIn(attempts))

OfRequest(r) == {a \in Attempts : asks[a[1]].user = asks[r].user /\ asks[a[1]].id = asks[r].id}
OfDay(r, day) == {a \in Attempts : ledger[a].day = day
                    /\ CapabilityOf(asks[a[1]].kind) = CapabilityOf(asks[r].kind)}
OfUser(r, day) == {a \in OfDay(r, day) : asks[a[1]].user = asks[r].user}
OfSession(r, day) == {a \in OfDay(r, day) : asks[a[1]].session = asks[r].session}

PolicyOf(r) == Policy[CapabilityOf(asks[r].kind)]
(* Mutant: an allowance is used up only when it is exceeded. *)
FullLate(attempts, limit) == limit # None /\ Cardinality(CountedIn(attempts)) > limit

Full(attempts, limit) == limit # None /\ Cardinality(CountedIn(attempts)) >= limit
Spent(attempts, units, limit) == limit # None /\ Consumed(attempts) + units > limit

\* _static_refusal: the kill switch, a capability without allowance, an attempt too large.
StaticRefusal(r) ==
    \/ ~paid
    \/ PolicyOf(r).user = 0 \/ PolicyOf(r).deployment = 0
    \/ asks[r].units > PolicyOf(r).perAttempt

\* _budget_refusal: some allowance is used up, or would be by this attempt.
BudgetRefusal(r, day) ==
    \/ Full(OfRequest(r), PerRequest)
    \/ Full(Attempts, TotalCap)
    \/ asks[r].session # "none" /\ Full(OfSession(r, day), PolicyOf(r).session)
    \/ Full(OfDay(r, day), PolicyOf(r).deployment) \/ Full(OfUser(r, day), PolicyOf(r).user)
    \/ Spent(OfDay(r, day), asks[r].units, PolicyOf(r).deploymentUnits)
    \/ Spent(OfUser(r, day), asks[r].units, PolicyOf(r).userUnits)

\* An attempt's row, as the transaction inserts it.
Row(r, status, day) ==
    [status |-> status, day |-> day, units |-> IF status = "blocked" THEN 0 ELSE asks[r].units,
     actual |-> 0]

Attempt(r) == <<r, left[r].at>>

(* Mutant: an attempt that got no answer gives its allowance back. *)
SettledAsUnsent(row, status, actual) ==
    IF row.status # "reserved" THEN row
    ELSE [status |-> IF status = "failed" THEN "not_sent" ELSE status, day |-> row.day,
          units |-> row.units, actual |-> actual]

\* settle: only a reserved row takes an outcome, and its allowance stays consumed.
Settled(row, status, actual) ==
    IF row.status # "reserved" THEN row
    ELSE [status |-> status, day |-> row.day, units |-> row.units, actual |-> actual]

\* prune_expired, when the process starts.
Pruned(row) ==
    IF row.status # "none" /\ row.day < today - Retention
    THEN [row EXCEPT !.status = "pruned"] ELSE row

-----------------------------------------------------------------------------
(* A request.                                                              *)

NothingLeft == [at |-> 1, rest |-> {}]
NoStamp == [day |-> 1, refused |-> FALSE]

UsageInit ==
    /\ asks \in Plans
    /\ stage = [r \in Requests |-> "new"]
    /\ left = [r \in Requests |-> NothingLeft]
    /\ stamp = [r \in Requests |-> NoStamp]
    /\ ledger = [a \in Attempts |-> NoRow]
    /\ reply = [r \in Requests |-> "none"]
    /\ cooling = [p \in Providers |-> 0]
    /\ idle = [p \in Providers |-> 0]
    /\ paid \in BOOLEAN
    /\ today = 1 /\ restarts = 0 /\ sent = {}

Moves(r, to) == stage' = [stage EXCEPT ![r] = to]
Ends(r, how) == Moves(r, how) /\ left' = [left EXCEPT ![r] = NothingLeft]
Forgets(r) == stamp' = [stamp EXCEPT ![r] = NoStamp]

\* The providers a request may try: those asked to be left alone are not among them.
Listed(r) ==
    IF asks[r].kind = "speech" THEN {n \in 1 .. Len(Voices) : cooling[Voices[n]] = 0} ELSE {1}

Provider(r) ==
    CASE asks[r].kind = "speech" -> Voices[left[r].at]
      [] asks[r].kind = "reasoner" -> "gemini"
      [] OTHER -> "model_gateway"

\* The request goes to the first of some providers.
Tries(r, places) ==
    \E n \in places :
      /\ \A m \in places : n <= m
      /\ left' = [left EXCEPT ![r] = [at |-> n, rest |-> places \ {n}]]
      /\ Moves(r, "ready")

\* Speech and the gateway look at the kill switch before anything else.
Begin(r) ==
    /\ stage[r] = "new"
    /\ IF (asks[r].kind # "reasoner" /\ ~paid) \/ Listed(r) = {}
       THEN Ends(r, "unanswered") ELSE Tries(r, Listed(r))
    /\ UNCHANGED <<asks, stamp, ledger, reply, cooling, idle, paid, today, restarts, sent>>

\* The prompt does not fit: nothing is reserved.
TooLarge(r) ==
    /\ stage[r] = "new" /\ asks[r].kind # "speech"
    /\ Moves(r, "unanswered")
    /\ UNCHANGED <<asks, left, stamp, ledger, reply, cooling, idle, paid, today, restarts, sent>>

(* Mutant: a capability that is switched off is waited for. *)
ReadPolicyWaits(r) ==
    /\ stage[r] = "ready" /\ ~StaticRefusal(r)
    /\ Moves(r, "reserving")
    /\ stamp' = [stamp EXCEPT ![r] = [day |-> today, refused |-> FALSE]]
    /\ UNCHANGED <<asks, left, ledger, reply, cooling, idle, paid, today, restarts, sent>>

\* reserve, up to its transaction.
ReadPolicy(r) ==
    /\ stage[r] = "ready"
    /\ Moves(r, "reserving")
    /\ stamp' = [stamp EXCEPT ![r] = [day |-> today, refused |-> StaticRefusal(r)]]
    /\ UNCHANGED <<asks, left, ledger, reply, cooling, idle, paid, today, restarts, sent>>

\* The transaction of reserve.
Reserve(r) ==
    /\ stage[r] = "reserving"
    /\ LET status == IF stamp[r].refused \/ BudgetRefusal(r, stamp[r].day)
                     THEN "blocked" ELSE "reserved"
       IN /\ ledger' = [ledger EXCEPT ![Attempt(r)] = Row(r, status, stamp[r].day)]
          /\ IF status = "blocked" THEN Ends(r, "unanswered") ELSE Moves(r, "sending") /\ UNCHANGED left
    /\ Forgets(r)
    /\ UNCHANGED <<asks, reply, cooling, idle, paid, today, restarts, sent>>

\* The ledger cannot be written: the caller gives up without contacting anyone.
ReserveFails(r) ==
    /\ stage[r] = "reserving"
    /\ Ends(r, "unanswered") /\ Forgets(r)
    /\ UNCHANGED <<asks, ledger, reply, cooling, idle, paid, today, restarts, sent>>

\* _checkout: a kept connection is taken, unless all have been kept too long, or there is none.
Checkout(r) ==
    LET p == Provider(r) IN
    \/ idle[p] > 0 /\ idle' = [idle EXCEPT ![p] = @ - 1]
         /\ Moves(r, IF stage[r] = "sending" THEN "posted_kept" ELSE "posted")
    \/ idle' = [idle EXCEPT ![p] = 0] /\ Moves(r, "posted")

(* Mutant: a connection is kept beyond the limit. *)
KeptLate(n) == IF n <= MaxIdle THEN n + 1 ELSE n

\* _checkin: the connections kept with one more, if there is room.
Kept(n) == IF n < MaxIdle THEN n + 1 ELSE n

Post(r) ==
    /\ stage[r] \in {"sending", "again"}
    /\ Checkout(r) /\ sent' = sent \cup {Attempt(r)}
    /\ UNCHANGED <<asks, left, stamp, ledger, reply, cooling, paid, today, restarts>>

\* A kept connection turns out to be closed: the request is sent once more.
PostStale(r) ==
    /\ stage[r] = "posted_kept" /\ Moves(r, "again")
    /\ UNCHANGED <<asks, left, stamp, ledger, reply, cooling, idle, paid, today, restarts, sent>>

\* The provider answers, and closes the connection or lets it be kept.
PostAnswered(r) ==
    /\ stage[r] \in {"posted", "posted_kept"} /\ Moves(r, "settling")
    /\ \E to \in {"succeeded", "failed"} \cup IF asks[r].kind = "speech" THEN {"backoff"} ELSE {} :
         reply' = [reply EXCEPT ![r] = to]
    /\ idle' = [idle EXCEPT ![Provider(r)] = Kept(@)] \/ UNCHANGED idle
    /\ UNCHANGED <<asks, left, stamp, ledger, cooling, paid, today, restarts, sent>>

\* It does not answer in time or at all, or the call raises.
PostFailed(r) ==
    /\ stage[r] \in {"posted", "posted_kept"} /\ Moves(r, "settling")
    /\ \E to \in {"failed", "raised"} : reply' = [reply EXCEPT ![r] = to]
    /\ UNCHANGED <<asks, left, stamp, ledger, cooling, idle, paid, today, restarts, sent>>

StatusOf(answer) == IF answer = "succeeded" THEN "succeeded" ELSE "failed"

\* What comes after an attempt: the next voice, after a failure the service knows how to handle.
After(r) ==
    /\ IF reply[r] \notin {"succeeded", "raised"} /\ left[r].rest # {}
       THEN Tries(r, left[r].rest)
       ELSE Ends(r, IF reply[r] = "succeeded" THEN "answered" ELSE "unanswered")
    /\ reply' = [reply EXCEPT ![r] = "none"]
    /\ cooling' = IF reply[r] = "backoff" THEN [cooling EXCEPT ![Provider(r)] = Cool] ELSE cooling
    /\ UNCHANGED <<asks, stamp, idle, paid, today, restarts, sent>>

\* The gateway settles no BaseException: its attempt stays reserved.
Settle(r) ==
    /\ stage[r] = "settling" /\ ~(asks[r].kind = "gateway" /\ reply[r] = "raised")
    /\ \E actual \in IF asks[r].kind = "speech" \/ reply[r] # "succeeded" THEN {0} ELSE Reports :
         ledger' = [ledger EXCEPT ![Attempt(r)] = Settled(@, StatusOf(reply[r]), actual)]
    /\ After(r)

\* Settling fails, which hides no result.
SettleFails(r) ==
    /\ stage[r] = "settling"
    /\ After(r) /\ UNCHANGED ledger

-----------------------------------------------------------------------------
(* What happens around the requests.                                       *)

Midnight ==
    /\ today < MaxDay /\ today' = today + 1
    /\ UNCHANGED <<asks, stage, left, stamp, ledger, reply, cooling, idle, paid, restarts, sent>>

CoolDown(p) ==
    /\ cooling[p] > 0 /\ cooling' = [cooling EXCEPT ![p] = @ - 1]
    /\ UNCHANGED <<asks, stage, left, stamp, ledger, reply, idle, paid, today, restarts, sent>>

\* The process ends wherever it is; the next one starts with the ledger and another environment.
Restart ==
    /\ restarts < MaxRestarts /\ restarts' = restarts + 1
    /\ stage' = [r \in Requests |-> IF stage[r] = "new" \/ stage[r] \in Ended THEN stage[r] ELSE "gone"]
    /\ left' = [r \in Requests |-> NothingLeft] /\ stamp' = [r \in Requests |-> NoStamp]
    /\ reply' = [r \in Requests |-> "none"]
    /\ ledger' = [a \in Attempts |-> Pruned(ledger[a])]
    /\ cooling' = [p \in Providers |-> 0] /\ idle' = [p \in Providers |-> 0]
    /\ paid' \in BOOLEAN
    /\ UNCHANGED <<asks, today, sent>>

Step(r) ==
    \/ Begin(r) \/ TooLarge(r) \/ ReadPolicy(r) \/ Reserve(r) \/ ReserveFails(r)
    \/ Post(r) \/ PostStale(r) \/ PostAnswered(r) \/ PostFailed(r) \/ Settle(r) \/ SettleFails(r)

UsageNext ==
    \/ \E r \in Requests : Step(r)
    \/ \E p \in Providers : CoolDown(p)
    \/ Midnight \/ Restart

\* Request threads run, and every provider call has a timeout.
UsageFairness == \A r \in Requests : WF_usageVars(Step(r))
UsageSpec == UsageInit /\ [][UsageNext]_usageVars /\ UsageFairness

-----------------------------------------------------------------------------
(* Properties.                                                             *)

(* Every variable has its type: rows of known statuses, and no more connections kept per host than
   the limit. *)
UsageTypeOK ==
    /\ asks \in Plans /\ stage \in [Requests -> Stages]
    /\ left \in [Requests -> [at : Places, rest : SUBSET Places]]
    /\ \A r \in Requests : stamp[r].day \in 1 .. MaxDay /\ stamp[r].refused \in BOOLEAN
    /\ \A a \in Attempts :
         /\ ledger[a].status \in Statuses \cup {"none", "pruned"}
         /\ ledger[a].day \in 0 .. MaxDay
    /\ \A p \in Providers : cooling[p] \in 0 .. Cool /\ idle[p] \in 0 .. MaxIdle
    /\ paid \in BOOLEAN /\ today \in 1 .. MaxDay /\ sent \subseteq Attempts

(* However many requests reserve at once, over a midnight or a restart, no allowance is exceeded:
   the attempts of a request, of a deployment in all, of a session, a user and a deployment on a
   day, and the units reserved by a user and a deployment on a day. *)
Reserved(attempts) == MapThenSumSet(LAMBDA a : ledger[a].units, CountedIn(attempts))
WithinAttempts ==
    \A r \in Requests, day \in 1 .. MaxDay :
      /\ Cardinality(CountedIn(OfRequest(r))) <= PerRequest
      /\ TotalCap # None => Cardinality(CountedIn(Attempts)) <= TotalCap
      /\ asks[r].session # "none" /\ PolicyOf(r).session # None =>
           Cardinality(CountedIn(OfSession(r, day))) <= PolicyOf(r).session
      /\ Cardinality(CountedIn(OfDay(r, day))) <= PolicyOf(r).deployment
      /\ Cardinality(CountedIn(OfUser(r, day))) <= PolicyOf(r).user
WithinUnits ==
    \A r \in Requests, day \in 1 .. MaxDay :
      /\ PolicyOf(r).deploymentUnits # None => Reserved(OfDay(r, day)) <= PolicyOf(r).deploymentUnits
      /\ PolicyOf(r).userUnits # None => Reserved(OfUser(r, day)) <= PolicyOf(r).userUnits
WithinAllowance == WithinAttempts /\ WithinUnits

(* No provider is contacted without an attempt the ledger counts, and the attempt stays counted
   whatever becomes of it (an error, a timeout, a failed settlement, the end of the process) until
   it is older than what is kept. *)
SentIsCounted ==
    \A a \in sent : Counted(a) \/ (ledger[a].status = "pruned" /\ ledger[a].day < today - Retention)

(* A request that begins is answered or given up in the end: a failing provider, a failing
   ledger or a closed connection only ever move it on. *)
RequestsEnd == \A r \in Requests : stage[r] = "ready" ~> stage[r] \in Ended
=============================================================================
