-------------------------- MODULE DefinitionLifecycle --------------------------
(***************************************************************************)
(* The versions of one product definition (definitions/registry.py), the   *)
(* texts they are registered from (definitions/authoring.py and the files  *)
(* of the repository), the products bound to them (organizations.py) and   *)
(* the conversations pinned to them (sessions.py, access.py).              *)
(*                                                                         *)
(* Each step is one transaction. Publishing, binding and starting a        *)
(* conversation read first and write in a later transaction, so other      *)
(* steps come in between. A version is breaking when its entities have     *)
(* another shape than its predecessor's (compatibility.py, classify).      *)
(***************************************************************************)
EXTENDS Integers, FiniteSets

CONSTANTS
    Versions, Shape,       \* numbers of the versions; what each makes of a record
    Tenants, Teams,        \* organizations, and the teams of each
    Sessions, Operators,   \* conversations; people publishing and binding
    MaxMigrations          \* bound

Shared == "platform_shared"
Owners == {Shared} \cup Tenants
EverPublished == {"published", "retired", "revoked"}
None == "none"

ASSUME LifecycleAssumption ==
    /\ Versions \subseteq Nat /\ IsFiniteSet(Versions)
    /\ Shape \in [Versions -> Nat]
    /\ None \notin Owners /\ Shared \notin Tenants
    /\ MaxMigrations \in Nat

VARIABLES
    shipped,       \* this definition's texts are files, not uploads
    sources,       \* the text of each version, by the owner it declares
    identity,      \* definitions: who owns the definition
    versions,      \* definition_versions: state and owner of each registered version
    orgs, teams,   \* organizations and their teams, as their states
    bindings,      \* product_bindings: each organization's product on this definition
    jobs,          \* what each operator has read and not yet written
    starting,      \* pins read for conversations not yet written
    pinned,        \* sessions: the pin each conversation started with
    recordShape,   \* the shape of the records
    migrated,      \* history: the version the last migration moved them to
    migrations     \* history: how many there were
lifecycleVars == <<shipped, sources, identity, versions, orgs, teams, bindings, jobs, starting,
                   pinned, recordShape, migrated, migrations>>
places == <<orgs, teams, bindings>>
talks == <<starting, pinned>>
records == <<recordShape, migrated, migrations>>

NoJob == [does |-> None]
Put(f, x, y) == [z \in DOMAIN f \cup {x} |-> IF z = x THEN y ELSE f[z]]
State(v) == IF v \in DOMAIN versions THEN versions[v].state ELSE None

LifecycleInit ==
    /\ shipped \in BOOLEAN
    /\ sources = <<>> /\ identity = None /\ versions = <<>>
    /\ orgs = [t \in Tenants |-> "active"]
    /\ teams = [t \in Tenants |-> [m \in Teams |-> "active"]]
    /\ bindings = <<>>
    /\ jobs = [p \in Operators |-> NoJob]
    /\ starting = <<>> /\ pinned = <<>>
    /\ recordShape \in {Shape[v] : v \in Versions} /\ migrated = 0 /\ migrations = 0

(* A deployment brings a file; its owner was decided in review, not against the database. *)
Ship(v, owner) ==
    /\ shipped /\ v \notin DOMAIN sources
    /\ sources' = Put(sources, v, owner)
    /\ UNCHANGED <<shipped, identity, versions, places, jobs, talks, records>>

(* store_definition: an uploaded version claims the identity with its text, or must match it. *)
Store(v, owner) ==
    /\ ~shipped /\ v \notin DOMAIN sources
    /\ identity \in {None, owner}
    /\ identity' = owner
    /\ sources' = Put(sources, v, owner)
    /\ UNCHANGED <<shipped, versions, places, jobs, talks, records>>

OwnerAgrees(v) == identity \in {None, sources[v]}

(* register: the first version fixes the owner; any other must declare the same one. *)
Register(v) ==
    /\ v \in DOMAIN sources \ DOMAIN versions
    /\ OwnerAgrees(v)
    /\ identity' = IF identity = None THEN sources[v] ELSE identity
    /\ versions' = Put(versions, v, [state |-> "draft", owner |-> sources[v]])
    /\ UNCHANGED <<shipped, sources, places, jobs, talks, records>>

(* validate, retire and revoke: one move allowed by TRANSITIONS. *)
Transition(v) ==
    /\ \E move \in {<<"draft", "validated">>, <<"published", "retired">>,
                    <<"published", "revoked">>, <<"retired", "revoked">>} :
          /\ State(v) = move[1]
          /\ versions' = Put(versions, v, [versions[v] EXCEPT !.state = move[2]])
    /\ UNCHANGED <<shipped, sources, identity, places, jobs, talks, records>>

Previous(v) == {w \in DOMAIN versions : w < v /\ State(w) \in EverPublished}
Breaking(v) == \E w \in Previous(v) : (\A u \in Previous(v) : u <= w) /\ Shape[w] # Shape[v]

(* publish up to its transaction: the latest published predecessor decides whether the change  *)
(* is breaking, and a breaking one needs a migration.                                           *)
PublishReads(p, v) ==
    /\ jobs[p] = NoJob /\ State(v) = "validated"
    /\ \E migration \in BOOLEAN :
          /\ Breaking(v) => migration
          /\ jobs' = [jobs EXCEPT ![p] = [does |-> "publish", version |-> v,
                                          migrates |-> Breaking(v) /\ migration]]
    /\ UNCHANGED <<shipped, sources, identity, versions, places, talks, records>>

EndedBelowPrevious(v) == {s \in DOMAIN pinned : \E w \in Previous(v) : pinned[s].version < w}
Ended(v) == {s \in DOMAIN pinned : pinned[s].version < v}

(* publish's transaction: a migration moves the records and ends the conversations pinned below. *)
PublishCommits(p) ==
    LET v == jobs[p].version
    IN /\ jobs[p].does = "publish"
       /\ State(v) = "validated" /\ versions[v].owner = identity
       /\ versions' = Put(versions, v, [versions[v] EXCEPT !.state = "published"])
       /\ IF jobs[p].migrates
          THEN /\ migrations < MaxMigrations
               /\ recordShape' = Shape[v] /\ migrated' = v /\ migrations' = migrations + 1
               /\ pinned' = [s \in DOMAIN pinned |->
                                IF s \in Ended(v) THEN [pinned[s] EXCEPT !.expired = TRUE] ELSE pinned[s]]
          ELSE UNCHANGED <<pinned, records>>
       /\ jobs' = [jobs EXCEPT ![p] = NoJob]
       /\ UNCHANGED <<shipped, sources, identity, places, starting>>

Bindable(t, v) == State(v) = "published" /\ versions[v].owner \in {Shared, t}

(* bind_product and move_product_version, up to their write. *)
BindReads(p, t, v) ==
    /\ jobs[p] = NoJob /\ Bindable(t, v)
    /\ jobs' = [jobs EXCEPT ![p] =
                   [does |-> IF t \in DOMAIN bindings THEN "move" ELSE "bind", tenant |-> t, version |-> v]]
    /\ UNCHANGED <<shipped, sources, identity, versions, places, talks, records>>

BindCommits(p) ==
    LET t == jobs[p].tenant
    IN /\ \/ /\ jobs[p].does = "bind" /\ t \notin DOMAIN bindings
             /\ \E m \in Teams : bindings' = Put(bindings, t,
                     [version |-> jobs[p].version, team |-> m, state |-> "active"])
          \/ /\ jobs[p].does = "move"
             /\ bindings' = [bindings EXCEPT ![t].version = jobs[p].version]
       /\ jobs' = [jobs EXCEPT ![p] = NoJob]
       /\ UNCHANGED <<shipped, sources, identity, versions, orgs, teams, talks, records>>

(* What was read no longer allows the write: somebody else published, or bound, first. *)
JobFails(p) ==
    /\ \/ jobs[p].does = "publish" /\ State(jobs[p].version) # "validated"
       \/ jobs[p].does = "bind" /\ jobs[p].tenant \in DOMAIN bindings
    /\ jobs' = [jobs EXCEPT ![p] = NoJob]
    /\ UNCHANGED <<shipped, sources, identity, versions, places, talks, records>>

SetOrganization(t) ==
    /\ orgs' = [orgs EXCEPT ![t] = IF @ = "active" THEN "suspended" ELSE "active"]
    /\ UNCHANGED <<shipped, sources, identity, versions, teams, bindings, jobs, talks, records>>

SetTeam(t, m) ==
    /\ teams' = [teams EXCEPT ![t][m] = IF @ = "active" THEN "disabled" ELSE "active"]
    /\ UNCHANGED <<shipped, sources, identity, versions, orgs, bindings, jobs, talks, records>>

SetProduct(t) ==
    /\ t \in DOMAIN bindings
    /\ bindings' = [bindings EXCEPT ![t].state = IF @ = "active" THEN "disabled" ELSE "active"]
    /\ UNCHANGED <<shipped, sources, identity, versions, orgs, teams, jobs, talks, records>>

TransferProduct(t, m) ==
    /\ t \in DOMAIN bindings /\ bindings[t].team # m
    /\ bindings' = [bindings EXCEPT ![t].team = m]
    /\ UNCHANGED <<shipped, sources, identity, versions, orgs, teams, jobs, talks, records>>

(* authorize_product: organization, product and owning team are active. *)
Authorized(t) ==
    /\ orgs[t] = "active"
    /\ t \in DOMAIN bindings /\ bindings[t].state = "active"
    /\ teams[t][bindings[t].team] = "active"

(* pin_new_session: the product as it is bound now, on a version still published. *)
PinSession(s, t) ==
    /\ s \notin DOMAIN pinned /\ s \notin DOMAIN starting
    /\ Authorized(t) /\ Bindable(t, bindings[t].version)
    /\ starting' = Put(starting, s, [tenant |-> t, team |-> bindings[t].team,
                                     version |-> bindings[t].version])
    /\ UNCHANGED <<shipped, sources, identity, versions, places, jobs, pinned, records>>

(* ensure_session: the pin is stored in a later transaction, which asks nothing of it. *)
OpenSession(s) ==
    /\ s \in DOMAIN starting
    /\ pinned' = Put(pinned, s, [pin |-> starting[s], version |-> starting[s].version,
                                 expired |-> FALSE, since |-> migrations])
    /\ starting' = [z \in DOMAIN starting \ {s} |-> starting[z]]
    /\ UNCHANGED <<shipped, sources, identity, versions, places, jobs, records>>

(* session_max_age passes. *)
AgeOut(s) ==
    /\ s \in DOMAIN pinned /\ ~pinned[s].expired
    /\ pinned' = [pinned EXCEPT ![s].expired = TRUE]
    /\ UNCHANGED <<shipped, sources, identity, versions, places, jobs, starting, records>>

(* check_pinned_session, before every turn and every write. *)
MayContinue(s) ==
    LET pin == pinned[s].pin
    IN /\ ~pinned[s].expired
       /\ Authorized(pin.tenant) /\ bindings[pin.tenant].team = pin.team
       /\ State(pin.version) # "revoked"

LifecycleNext ==
    \/ \E v \in Versions :
          \/ \E owner \in Owners : Ship(v, owner) \/ Store(v, owner)
          \/ Register(v) \/ Transition(v)
          \/ \E p \in Operators : PublishReads(p, v) \/ \E t \in Tenants : BindReads(p, t, v)
    \/ \E p \in Operators : PublishCommits(p) \/ BindCommits(p) \/ JobFails(p)
    \/ \E t \in Tenants :
          \/ SetOrganization(t) \/ SetProduct(t)
          \/ \E m \in Teams : SetTeam(t, m) \/ TransferProduct(t, m)
          \/ \E s \in Sessions : PinSession(s, t)
    \/ \E s \in Sessions : OpenSession(s) \/ AgeOut(s)

LifecycleSpec == LifecycleInit /\ [][LifecycleNext]_lifecycleVars

-----------------------------------------------------------------------------

(* Every row names things that exist and is in a state of its vocabulary. *)
LifecycleTypeOK ==
    /\ identity \in Owners \cup {None}
    /\ DOMAIN versions \subseteq DOMAIN sources /\ DOMAIN sources \subseteq Versions
    /\ \A v \in DOMAIN versions : versions[v].state \in {"draft", "validated"} \cup EverPublished
    /\ DOMAIN bindings \subseteq Tenants
    /\ \A t \in DOMAIN bindings : bindings[t].team \in Teams
    /\ DOMAIN starting \cap DOMAIN pinned = {} /\ DOMAIN starting \cup DOMAIN pinned \subseteq Sessions
    /\ migrations \in 0..MaxMigrations

(* "Versions arriving in any order or concurrently can never disagree about who may use the      *)
(* definition" (registry.py): every registered version and every upload has the identity's owner. *)
OwnersAgree ==
    /\ \A v \in DOMAIN versions : versions[v].owner = identity
    /\ ~shipped => \A v \in DOMAIN sources : sources[v] = identity

(* A product runs, and a conversation is pinned to, a version that was published and that its    *)
(* organization may use, whatever was revoked or registered while it was being bound or opened.   *)
BoundToPublished ==
    /\ \A t \in DOMAIN bindings :
          State(bindings[t].version) \in EverPublished /\ identity \in {Shared, t}
    /\ \A s \in DOMAIN pinned :
          State(pinned[s].version) \in EverPublished /\ identity \in {Shared, pinned[s].pin.tenant}

(* A conversation that was open when a migration moved the records may not go on reading them     *)
(* through an older version. It does not say more: a product still bound to an older version      *)
(* opens new conversations on it, and a pin read before the migration may be stored after it.      *)
MigrationsEndOlder ==
    \A s \in DOMAIN pinned :
        MayContinue(s) /\ pinned[s].version < migrated => pinned[s].since = migrations

PinsFitTheirRecords == OwnersAgree /\ BoundToPublished /\ MigrationsEndOlder
=============================================================================
