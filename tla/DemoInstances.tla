---------------------------- MODULE DemoInstances ----------------------------
(***************************************************************************)
(* The private demo of a visitor: services/demo_instances.py, the private  *)
(* half of services/product_data_store.py, and the visitor tokens of       *)
(* auth.py. A visitor and its instance are made together under fresh       *)
(* identifiers, so a visitor names both. A request is authenticated in one *)
(* transaction (which extends the instance's idle deadline) and does its   *)
(* work in a later one; resets, reclaims and expiry come in between.       *)
(* One product; a record is its kind and number, its payload is left out.  *)
(***************************************************************************)
EXTENDS Integers, FiniteSets, FiniteSetsExt, Functions

CONSTANTS
    Visitors,      \* fresh visitor identifiers: how many visitors ever come
    Calls,         \* requests that may be in progress at once
    Keys,          \* idempotency keys of create requests
    Kinds,         \* kinds a request creates
    Seed,          \* <<kind, number>> of every seeded record
    ActiveLimit, RecordLimit,                  \* InstanceLimits
    Absolute, IdleFor, ReclaimAfter,           \* InstanceLimits, in ticks
    TokenAge,      \* _TOKEN_MAX_AGE_SECONDS
    Batch,         \* instances one allocation prunes
    MaxClock, MaxGeneration, MaxRevision       \* bounds of the model

NoKey == "no key"
Scope == <<"workspaceScopes", 1>>

ASSUME LimitsAssumption ==
    /\ {ActiveLimit, RecordLimit, Absolute, IdleFor, ReclaimAfter, TokenAge, Batch} \subseteq Nat \ {0}
    /\ ReclaimAfter <= IdleFor /\ Absolute <= TokenAge
    /\ IsFiniteSet(Seed) /\ Scope \in Seed /\ Cardinality(Seed) <= RecordLimit
    /\ NoKey \notin Keys
    /\ MaxClock \in Nat /\ MaxGeneration \in Nat \ {0}

VARIABLES
    clock,         \* time
    instances,     \* demo_instances and the rows that hang from each
    logins,        \* visitor_logins
    issued,        \* tokens handed out, for ever
    calls,         \* requests past authentication
    usedAt,        \* history: when each visitor last got a request through
    made           \* history: what each create under a key was answered
instanceVars == <<clock, instances, logins, issued, calls, usedAt, made>>

Idling == [does |-> "nothing"]
Token(v, g) == [visitor |-> v, generation |-> g]
Started == {t.visitor : t \in issued}
Live(v) == instances[v].expires > clock /\ instances[v].idle > clock
Active == {v \in DOMAIN instances : Live(v)}

(* _check: the generation the token names, and both deadlines ahead. *)
Available(t) ==
    /\ t.visitor \in DOMAIN instances
    /\ instances[t.visitor].generation = t.generation
    /\ Live(t.visitor)

IdleFromNow(v) == clock + IdleFor
IdleUntil(v) == Min({instances[v].expires, clock + IdleFor})

Seeded == [r \in Seed |-> 1]

Fresh ==
    [generation |-> 1, expires |-> clock + Absolute, idle |-> clock + IdleFor,
     lastActive |-> clock, records |-> Seeded, receipts |-> <<>>]

InstanceInit ==
    /\ clock = 0
    /\ instances = <<>>
    /\ logins = {} /\ issued = {}
    /\ calls = [c \in Calls |-> Idling]
    /\ usedAt = <<>>
    /\ made = {}

(* _prune_expired: the first `limit' expired instances by their absolute deadline. *)
Pruned(limit) ==
    LET expired == DOMAIN instances \ Active
    IN {gone \in SUBSET expired :
           /\ Cardinality(gone) = Min({limit, Cardinality(expired)})
           /\ \A v \in gone, w \in expired \ gone : instances[v].expires <= instances[w].expires}

(* _reclaim_unused at capacity: the one unused for longest, once that is long enough. *)
Unused == {v \in Active : instances[v].lastActive <= clock - ReclaimAfter}
Reclaimed ==
    {{v} : v \in {w \in Unused : \A u \in Unused :
                     instances[w].lastActive <= instances[u].lastActive}}

Full == Cardinality(Active) >= ActiveLimit

(* create_visitor_token: prune, make room, insert, seed and log in, in one transaction. With no *)
(* room nothing is written: the demo is refused, and the pruning undone with it.               *)
StartVisitor(v) ==
    /\ v \notin Started
    /\ \E gone \in Pruned(Batch), evicted \in (IF Full THEN Reclaimed ELSE {{}}) :
          instances' = [w \in (DOMAIN instances \ (gone \cup evicted)) \cup {v} |->
                           IF w = v THEN Fresh ELSE instances[w]]
    /\ issued' = issued \cup {Token(v, 1)}
    /\ logins' = {l \in logins : l.expires >= clock} \cup
                    {[token |-> Token(v, 1), expires |-> clock + TokenAge]}
    /\ usedAt' = [w \in Started \cup {v} |-> IF w = v THEN clock ELSE usedAt[w]]
    /\ UNCHANGED <<clock, calls, made>>

(* The work a request asks for; an edit names a revision its visitor may have been shown. *)
Asked(t) ==
    LET records == instances[t.visitor].records
    IN {[does |-> "read", token |-> t], [does |-> "reset", token |-> t]} \cup
       {[does |-> "create", token |-> t, kind |-> kind, key |-> key] :
           kind \in Kinds, key \in Keys \cup {NoKey}} \cup
       UNION {{[does |-> "edit", token |-> t, record |-> r, revision |-> n] :
                  n \in 1..Min({records[r], MaxRevision - 1})} :
              r \in {q \in DOMAIN records : q[1] = "issues"}}

TouchIdleOnly(v) == [instances EXCEPT ![v].idle = IdleUntil(v)]
Touch(v) == [instances EXCEPT ![v].idle = IdleUntil(v), ![v].lastActive = clock]

(* _visitor_from: the login row is looked up and the instance touched. *)
Enter(c, t) ==
    /\ calls[c] = Idling
    /\ \E l \in logins : l.token = t /\ l.expires > clock
    /\ Available(t)
    /\ instances' = Touch(t.visitor)
    /\ usedAt' = [usedAt EXCEPT ![t.visitor] = clock]
    /\ \E ask \in Asked(t) : calls' = [calls EXCEPT ![c] = ask]
    /\ UNCHANGED <<clock, logins, issued, made>>

Done(c) == calls' = [calls EXCEPT ![c] = Idling]

(* load: one consistent snapshot of the instance, and nothing written. *)
Read(c) ==
    /\ calls[c].does = "read"
    /\ Available(calls[c].token)
    /\ Done(c)
    /\ UNCHANGED <<clock, instances, logins, issued, usedAt, made>>

(* One more than the highest number of the kind; a team member is its name. *)
NewNumber(records, kind) ==
    IF kind = "team" THEN 1
    ELSE Max({0} \cup {r[2] : r \in {q \in DOMAIN records : q[1] = kind}}) + 1

HasRoom(records) == Cardinality(DOMAIN records) < RecordLimit

(* A new project is also added to its workspace's record, whose revision moves with it. *)
With(records, r) ==
    [q \in DOMAIN records \cup {r} |->
        IF q = r THEN 1
        ELSE IF q = Scope /\ r[1] = "projects" THEN records[q] + 1 ELSE records[q]]

Answer(ask, r) ==
    IF ask.key = NoKey THEN made ELSE made \cup {[token |-> ask.token, key |-> ask.key, record |-> r]}

Creatable(ask) ==
    LET i == instances[ask.token.visitor]
        r == <<ask.kind, NewNumber(i.records, ask.kind)>>
    IN IF ask.key \in DOMAIN i.receipts THEN i.receipts[ask.key][1] = ask.kind
       ELSE r \notin DOMAIN i.records /\ HasRoom(i.records)

(* _private_create_record when its key is new: the record and the receipt commit together. *)
Create(c) ==
    LET ask == calls[c]
        v == ask.token.visitor
        records == instances[v].records
        receipts == instances[v].receipts
        r == <<ask.kind, NewNumber(records, ask.kind)>>
    IN /\ ask.does = "create"
       /\ Available(ask.token)
       /\ ask.key \notin DOMAIN receipts /\ Creatable(ask)
       /\ instances' = [instances EXCEPT
             ![v].records = With(records, r),
             ![v].receipts = [k \in DOMAIN receipts \cup ({ask.key} \ {NoKey}) |->
                                 IF k = ask.key THEN r ELSE receipts[k]]]
       /\ made' = Answer(ask, r)
       /\ Done(c)
       /\ UNCHANGED <<clock, logins, issued, usedAt>>

(* The same key again: the same digest gets the first result, another digest is refused. *)
Repeat(c) ==
    LET ask == calls[c]
        v == ask.token.visitor
    IN /\ ask.does = "create"
       /\ Available(ask.token)
       /\ ask.key \in DOMAIN instances[v].receipts /\ Creatable(ask)
       /\ made' = Answer(ask, instances[v].receipts[ask.key])
       /\ Done(c)
       /\ UNCHANGED <<clock, instances, logins, issued, usedAt>>

Editable(ask) ==
    /\ Available(ask.token)
    /\ ask.record \in DOMAIN instances[ask.token.visitor].records
    /\ instances[ask.token.visitor].records[ask.record] = ask.revision

(* _private_update_issue and put: exactly the revision the caller read is replaced. *)
Edit(c) ==
    /\ calls[c].does = "edit"
    /\ Editable(calls[c])
    /\ instances' = [instances EXCEPT ![calls[c].token.visitor].records[calls[c].record] = @ + 1]
    /\ Done(c)
    /\ UNCHANGED <<clock, logins, issued, usedAt, made>>

LoginsKeptThrough(v) == logins
LoginsWithout(v) == {l \in logins : l.token.visitor # v}

(* reset_private_demo: reseed under the next generation and replace the token, in one transaction. *)
Reset(c) ==
    LET v == calls[c].token.visitor
        next == Token(v, instances[v].generation + 1)
    IN /\ calls[c].does = "reset"
       /\ Available(calls[c].token)
       /\ next.generation <= MaxGeneration
       /\ instances' = [instances EXCEPT
             ![v] = [@ EXCEPT !.generation = next.generation, !.idle = IdleUntil(v),
                              !.records = Seeded, !.receipts = <<>>]]
       /\ logins' = LoginsWithout(v) \cup {[token |-> next, expires |-> clock + TokenAge]}
       /\ issued' = issued \cup {next}
       /\ Done(c)
       /\ UNCHANGED <<clock, usedAt, made>>

(* A request that may no longer do its work is answered with a refusal, and writes nothing. *)
Refuse(c) ==
    /\ calls[c] # Idling
    /\ IF ~Available(calls[c].token) THEN TRUE
       ELSE \/ calls[c].does = "edit" /\ ~Editable(calls[c])
            \/ calls[c].does = "create" /\ ~Creatable(calls[c])
    /\ Done(c)
    /\ UNCHANGED <<clock, instances, logins, issued, usedAt, made>>

(* The process restarts: requests are lost, and startup prunes every expired instance. *)
Restart ==
    /\ instances' = [v \in Active |-> instances[v]]
    /\ calls' = [c \in Calls |-> Idling]
    /\ UNCHANGED <<clock, logins, issued, usedAt, made>>

InstanceTick ==
    /\ clock < MaxClock
    /\ clock' = clock + 1
    /\ UNCHANGED <<instances, logins, issued, calls, usedAt, made>>

InstanceNext ==
    \/ \E v \in Visitors : StartVisitor(v)
    \/ \E c \in Calls :
          \/ \E t \in issued : Enter(c, t)
          \/ Read(c) \/ Create(c) \/ Repeat(c) \/ Edit(c) \/ Reset(c) \/ Refuse(c)
    \/ Restart
    \/ InstanceTick

InstanceSpec == InstanceInit /\ [][InstanceNext]_instanceVars

-----------------------------------------------------------------------------

(* Every table holds rows of its shape. An idle deadline may be past the absolute one only until *)
(* the visitor's first request: allocate does not compare the two, touch and reset do.           *)
InstanceTypeOK ==
    /\ clock \in 0..MaxClock
    /\ DOMAIN instances \subseteq Started /\ Started \subseteq Visitors
    /\ \A v \in DOMAIN instances :
          LET i == instances[v]
          IN /\ i.generation \in 1..MaxGeneration
             /\ i.lastActive <= clock /\ i.expires \in Nat
             /\ i.idle <= i.expires \/ i.idle - IdleFor = i.expires - Absolute
             /\ \A r \in DOMAIN i.records : i.records[r] \in Nat \ {0}
             /\ DOMAIN i.receipts \subseteq Keys
    /\ \A l \in logins : l.token \in issued
    /\ \A c \in Calls : calls[c] # Idling => calls[c].token \in issued

(* Capacity is never passed, no instance is without a seeded record or over its limit, receipts *)
(* name records of the present generation, and the one token that works is the newest           *)
(* (allocate, reset, replace_visitor_token).                                                    *)
InstancesAreWhole ==
    /\ Cardinality(Active) <= ActiveLimit
    /\ \A v \in DOMAIN instances :
          LET i == instances[v]
          IN /\ Seed \subseteq DOMAIN i.records
             /\ Cardinality(DOMAIN i.records) <= RecordLimit
             /\ \A k \in DOMAIN i.receipts : i.receipts[k] \in DOMAIN i.records
             /\ Live(v) => {l.token : l \in {m \in logins : m.token.visitor = v}}
                               = {Token(v, i.generation)}

(* An instance disappears only when it has expired, or when its visitor has got no request      *)
(* through for the reclaim time: an instance in use is never evicted (_reclaim_unused).         *)
BusyAreKept ==
    [][\A v \in DOMAIN instances \ DOMAIN instances' :
          Live(v) => usedAt[v] <= clock - ReclaimAfter]_instanceVars

(* A create retried under its key is answered with the record the first try made. *)
PrivateKeyMeansOneRecord ==
    \A a, b \in made : a.token = b.token /\ a.key = b.key => a.record = b.record
=============================================================================
