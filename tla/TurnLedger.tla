------------------------------ MODULE TurnLedger ------------------------------
(***************************************************************************)
(* The authoritative turn and the execution ledger.                        *)
(*                                                                         *)
(* A visitor's message is one turn of a session.  The server activates it, *)
(* runs the engine outside any transaction, and finalizes it in one        *)
(* transaction, which may issue a one-time execution key.  The browser     *)
(* later presents the key to make the change.  Everything that can happen  *)
(* in between is an action here: newer turns, cancels, a closed            *)
(* conversation, a private demo reset, lost access, expiry, retention, a   *)
(* failed request and a restart of the server.                             *)
(*                                                                         *)
(* Every action is one `begin immediate` transaction of the SQLite         *)
(* database, or one step of a request between two of them.                 *)
(***************************************************************************)
EXTENDS Naturals, FiniteSets

CONSTANTS
    Users,      \* authenticated principals' user IDs
    Visitors,   \* the users whose principal carries a private demo instance
    Sessions,   \* session IDs a client may send
    Scopes,     \* workspaces
    Changes,    \* canonical change sets; two are equal when their digests are
    Keys,       \* execution keys token_urlsafe may draw; each is drawn once
    Requests,   \* server threads that may be answering a turn at once
    Modes,      \* the engine modes an operator may start the server in
    MaxTurn,    \* bound on turn IDs
    MaxGen,     \* bound on private instance generations
    MaxNow,     \* bound on the clock
    Lifetime,   \* KEY_LIFETIME_SECONDS, in clock units
    Retention,  \* RETENTION_SECONDS, in clock units
    Rejections, \* the rule rejections a record change may end in
    None        \* no owner, no job, no binding, no code, no access

VARIABLES
    owner,      \* conversation_owners: the full owner of a session
    active,     \* sessions.active_turn_id; 0 is null
    latest,     \* sessions.latest_turn_id; 0 is null
    scopeOf,    \* conversation_owners.scope_id
    revision,   \* engine_state.revision; 0 when there is no row
    lastTurn,   \* engine_state.last_turn
    state,      \* action_executions.state, "unissued" or "deleted" without a row
    bound,      \* what a key row binds
    code,       \* action_executions.result_code
    settledAt,  \* action_executions.settled_at
    generation, \* demo_instances.generation of a visitor's instance
    access,     \* the workspaces a user's grant covers now, None once standing is lost
    mode,       \* PIXEL_ENGINE_MODE, read once at startup
    pc, job,    \* where each turn request is, and what it carries
    now,        \* the clock
    effects,    \* history: how often a key's change reached the records
    receipts,   \* history: the receipts given for a key
    cancelled,  \* history: the turns a caller was told are cancelled
    closedAt    \* history: a session's latest turn when it was last closed

sessionVars == <<owner, active, latest, scopeOf>>
memoryVars  == <<revision, lastTurn>>
rowVars     == <<state, bound, code, settledAt>>
worldVars   == <<generation, access, mode, now>>
requestVars == <<pc, job>>
history     == <<effects, receipts, cancelled, closedAt>>
vars == <<sessionVars, memoryVars, rowVars, worldVars, requestVars, history>>

-------------------------------------------------------------------------------

Turns == 1..MaxTurn
Owner == [user : Users, gen : Nat]
Job == [owner : Owner, session : Sessions, turn : Turns, scope : Scopes, base : Nat]
Binding == [owner : Owner, session : Sessions, turn : Turns, scope : Scopes,
            change : Changes, expires : Nat]

Settled  == {"executed", "failed", "cancelled"}
KeyState == {"unissued", "dispatched", "deleted"} \cup Settled
Rules    == {"record_not_found", "scope_mismatch", "record_conflict", "invalid_change"}
Code     == Rules \cup {"applied", "superseded", "user_cancelled", "expired",
                        "instance_reset", "scope_unavailable"}
Receipt  == [outcome : {"executed", "failed", "refused"},
             code : Code \cup {"execution_result_unavailable"}]

(* Where a turn request is.  "active" follows activation in both modes;
   "loaded" is the definition engine, "answering" and "decided" the legacy one. *)
PC == {"idle", "admitted", "ensured", "active", "loaded", "answering", "decided"}

ASSUME BoundsAssumption ==
    /\ MaxTurn \in Nat /\ MaxGen \in Nat /\ MaxNow \in Nat
    /\ Lifetime \in Nat /\ Retention \in Nat
ASSUME SetsAssumption ==
    /\ Visitors \subseteq Users
    /\ Rejections \subseteq Rules
    /\ Modes \subseteq {"definition", "legacy"} /\ Modes # {}
ASSUME NoneAssumption ==
    /\ None \notin Owner /\ None \notin Job /\ None \notin Binding
    /\ (\A X \in SUBSET Scopes : None # X) /\ None \notin Scopes /\ None \notin Code

TypeOK ==
    /\ owner \in [Sessions -> Owner \cup {None}]
    /\ active \in [Sessions -> Nat] /\ latest \in [Sessions -> Nat]
    /\ scopeOf \in [Sessions -> Scopes \cup {None}]
    /\ revision \in [Sessions -> Nat] /\ lastTurn \in [Sessions -> Nat]
    /\ state \in [Keys -> KeyState]
    /\ bound \in [Keys -> Binding \cup {None}]
    /\ code \in [Keys -> Code \cup {None}]
    /\ settledAt \in [Keys -> Nat]
    /\ generation \in [Users -> Nat]
    /\ access \in [Users -> {None} \cup SUBSET Scopes]
    /\ mode \in Modes
    /\ pc \in [Requests -> PC]
    /\ job \in [Requests -> Job \cup {None}]
    /\ now \in Nat
    /\ effects \in [Keys -> Nat]
    /\ receipts \in [Keys -> SUBSET Receipt]
    /\ cancelled \subseteq Sessions \X Turns
    /\ closedAt \in [Sessions -> Nat]

Init ==
    /\ owner = [s \in Sessions |-> None]
    /\ active = [s \in Sessions |-> 0] /\ latest = [s \in Sessions |-> 0]
    /\ scopeOf = [s \in Sessions |-> None]
    /\ revision = [s \in Sessions |-> 0] /\ lastTurn = [s \in Sessions |-> 0]
    /\ state = [k \in Keys |-> "unissued"]
    /\ bound = [k \in Keys |-> None]
    /\ code = [k \in Keys |-> None]
    /\ settledAt = [k \in Keys |-> 0]
    /\ generation = [u \in Users |-> 1]
    /\ access = [u \in Users |-> Scopes]
    /\ mode \in Modes
    /\ pc = [r \in Requests |-> "idle"]
    /\ job = [r \in Requests |-> None]
    /\ now = 0
    /\ effects = [k \in Keys |-> 0]
    /\ receipts = [k \in Keys |-> {}]
    /\ cancelled = {}
    /\ closedAt = [s \in Sessions |-> 0]

-------------------------------------------------------------------------------
(* Ledger rows. *)

(* Mutant: the settling update statements reach executed rows too. *)
DispatchedOrExecuted == {k \in Keys : state[k] \in {"dispatched", "executed"}}

Dispatched == {k \in Keys : state[k] = "dispatched"}

(* dispatch: insert the row of a fresh key for the turn request that proposed the change *)
Dispatch(k, j, c) ==
    /\ state[k] = "unissued"
    /\ state' = [state EXCEPT ![k] = "dispatched"]
    /\ bound' = [bound EXCEPT ![k] = [owner |-> j.owner, session |-> j.session,
                                      turn |-> j.turn, scope |-> j.scope,
                                      change |-> c, expires |-> now + Lifetime]]
    /\ UNCHANGED <<code, settledAt>>

(* one update statement settling every key of K *)
SettleAll(K, outcome, reason) ==
    /\ state' = [k \in Keys |-> IF k \in K THEN outcome ELSE state[k]]
    /\ code' = [k \in Keys |-> IF k \in K THEN reason ELSE code[k]]
    /\ settledAt' = [k \in Keys |-> IF k \in K THEN now ELSE settledAt[k]]
    /\ UNCHANGED bound

(* settle: commit the outcome of one key and answer with its receipt *)
Settle(k, outcome, reason, answer) ==
    /\ SettleAll({k}, outcome, reason)
    /\ receipts' = [receipts EXCEPT ![k] = @ \cup {[outcome |-> answer, code |-> reason]}]

(* Mutant: without "and state = 'dispatched'". *)
KeysOf(s, o) == {k \in Keys : bound[k] # None /\ bound[k].session = s /\ bound[k].owner = o}

(* the unused keys of session s that belong to owner o *)
UnusedKeys(s, o) == {k \in Dispatched : bound[k].session = s /\ bound[k].owner = o}

-------------------------------------------------------------------------------
(* A turn request. *)

Finish(r) ==
    /\ pc' = [pc EXCEPT ![r] = "idle"]
    /\ job' = [job EXCEPT ![r] = None]

Move(r, to) == pc' = [pc EXCEPT ![r] = to] /\ UNCHANGED job

MayUse(u, x) == access[u] # None /\ x \in access[u]

(* The principal a token authenticates now. *)
Principal(u) == [user |-> u, gen |-> generation[u]]

(* A principal authenticated earlier: its private generation may be gone since. *)
Principals == UNION {{[user |-> u, gen |-> g] : g \in 1..generation[u]} : u \in Users}

(* _answer_turn: authentication, product access, record grant and workspace checks, before
   the engine is entered.  Turn IDs come from the client: repeated, skipped and late ones too. *)
Admit(r, u, s, t, x) ==
    /\ pc[r] = "idle"
    /\ MayUse(u, x)
    /\ pc' = [pc EXCEPT ![r] = "admitted"]
    /\ job' = [job EXCEPT ![r] = [owner |-> Principal(u), session |-> s, turn |-> t,
                                  scope |-> x, base |-> 0]]
    /\ UNCHANGED <<sessionVars, memoryVars, rowVars, worldVars, history>>

(* Mutant: anyone who knows a session's ID takes it over. *)
TakeSession(r) ==
    LET j == job[r] IN
    /\ pc[r] = "admitted"
    /\ owner' = [owner EXCEPT ![j.session] = j.owner]
    /\ scopeOf' = IF owner[j.session] = None
                  THEN [scopeOf EXCEPT ![j.session] = j.scope] ELSE scopeOf
    /\ Move(r, "ensured")
    /\ UNCHANGED <<active, latest, memoryVars, rowVars, worldVars, history>>

(* ensure_session: create the session for its caller, or verify that the caller owns it.  An
   existing session keeps its workspace.  The product was authorized again since Admit, in a
   transaction before this one: access may be gone by now. *)
EnsureSession(r) ==
    LET j == job[r] IN
    /\ pc[r] = "admitted"
    /\ owner[j.session] \in {None, j.owner}
    /\ owner' = [owner EXCEPT ![j.session] = j.owner]
    /\ scopeOf' = IF owner[j.session] = None
                  THEN [scopeOf EXCEPT ![j.session] = j.scope] ELSE scopeOf
    /\ Move(r, "ensured")
    /\ UNCHANGED <<active, latest, memoryVars, rowVars, worldVars, history>>

(* The denials before activation: product not usable, session not owned, or (after
   ensure_session) the session's pin no longer usable.  Nothing is written. *)
Deny(r) ==
    LET j == job[r] IN
    /\ \/ pc[r] = "admitted" /\ owner[j.session] \notin {None, j.owner}
       \/ pc[r] \in {"admitted", "ensured"} /\ access[j.owner.user] = None
    /\ Finish(r)
    /\ UNCHANGED <<sessionVars, memoryVars, rowVars, worldVars, history>>

(* Mutants: a repeated turn may activate again; activation supersedes nothing. *)
MayReactivate(j) == owner[j.session] = j.owner /\ latest[j.session] <= j.turn

ActivateOnly(r) ==
    LET j == job[r] IN
    /\ pc[r] = "ensured"
    /\ owner[j.session] = j.owner /\ latest[j.session] < j.turn
    /\ active' = [active EXCEPT ![j.session] = j.turn]
    /\ latest' = [latest EXCEPT ![j.session] = j.turn]
    /\ scopeOf' = [scopeOf EXCEPT ![j.session] = j.scope]
    /\ Move(r, "active")
    /\ UNCHANGED <<owner, memoryVars, rowVars, worldVars, history>>

(* activate_turn: monotonic in the turn ID; selects the workspace and supersedes older keys. *)
MayActivate(j) == owner[j.session] = j.owner /\ latest[j.session] < j.turn

ActivateTurn(r) ==
    LET j == job[r] IN
    /\ pc[r] = "ensured"
    /\ MayActivate(j)
    /\ active' = [active EXCEPT ![j.session] = j.turn]
    /\ latest' = [latest EXCEPT ![j.session] = j.turn]
    /\ scopeOf' = [scopeOf EXCEPT ![j.session] = j.scope]
    /\ SettleAll({k \in UnusedKeys(j.session, j.owner) : bound[k].turn < j.turn},
                 "cancelled", "superseded")
    /\ Move(r, "active")
    /\ UNCHANGED <<owner, memoryVars, worldVars, history>>

StaleActivation(r) ==
    /\ pc[r] = "ensured"
    /\ ~MayActivate(job[r])
    /\ Finish(r)
    /\ UNCHANGED <<sessionVars, memoryVars, rowVars, worldVars, history>>

(* complete_turn *)
ClearActive(s, t) == active' = IF active[s] = t THEN [active EXCEPT ![s] = 0] ELSE active

(* The turn names no engine, page or record this caller may use: completed and denied. *)
DenyContext(r) ==
    LET j == job[r] IN
    /\ pc[r] = "active"
    /\ mode = "definition"
    /\ ClearActive(j.session, j.turn)
    /\ Finish(r)
    /\ UNCHANGED <<owner, latest, scopeOf, memoryVars, rowVars, worldVars, history>>

-------------------------------------------------------------------------------
(* The definition engine's turn. *)

(* EngineStateStore.load, in a read of its own; the engine then runs outside any transaction. *)
LoadState(r) ==
    /\ pc[r] = "active"
    /\ mode = "definition"
    /\ pc' = [pc EXCEPT ![r] = "loaded"]
    /\ job' = [job EXCEPT ![r].base = revision[job[r].session]]
    /\ UNCHANGED <<sessionVars, memoryVars, rowVars, worldVars, history>>

(* Mutant: the newest turn, not the active one. *)
IsNewest(j) == owner[j.session] = j.owner /\ latest[j.session] = j.turn /\ scopeOf[j.session] = j.scope

(* turn_is_current *)
IsCurrent(j) ==
    /\ owner[j.session] = j.owner
    /\ active[j.session] = j.turn
    /\ scopeOf[j.session] = j.scope

(* EngineStateStore.commit: insert, or replace the row at the loaded revision. *)
MayCommit(j) ==
    \/ revision[j.session] = 0
    \/ revision[j.session] = j.base /\ lastTurn[j.session] < j.turn

CommitState(j) ==
    /\ MayCommit(j)
    /\ revision' = [revision EXCEPT ![j.session] = j.base + 1]
    /\ lastTurn' = [lastTurn EXCEPT ![j.session] = j.turn]

(* _finalize, for a turn that proposes nothing executable. *)
FinalizeAnswer(r) ==
    LET j == job[r] IN
    /\ pc[r] = "loaded"
    /\ IsCurrent(j)
    /\ CommitState(j)
    /\ ClearActive(j.session, j.turn)
    /\ Finish(r)
    /\ UNCHANGED <<owner, latest, scopeOf, rowVars, worldVars, history>>

(* _finalize, for a turn with one dispatchable mutation. *)
FinalizeDispatch(r, k, c) ==
    LET j == job[r] IN
    /\ pc[r] = "loaded"
    /\ IsCurrent(j)
    /\ CommitState(j)
    /\ Dispatch(k, j, c)
    /\ ClearActive(j.session, j.turn)
    /\ Finish(r)
    /\ UNCHANGED <<owner, latest, scopeOf, worldVars, history>>

(* _LostRace: everything the transaction wrote is rolled back. *)
LoseRace(r) ==
    /\ pc[r] = "loaded"
    /\ ~(IsCurrent(job[r]) /\ MayCommit(job[r]))
    /\ Finish(r)
    /\ UNCHANGED <<sessionVars, memoryVars, rowVars, worldVars, history>>

-------------------------------------------------------------------------------
(* The legacy engine's turn: the check, the completion and the dispatch are three steps. *)

CheckActive(r) ==
    /\ pc[r] = "active"
    /\ mode = "legacy"
    /\ IF active[job[r].session] = job[r].turn THEN Move(r, "answering") ELSE Finish(r)
    /\ UNCHANGED <<sessionVars, memoryVars, rowVars, worldVars, history>>

(* handle_turn stores its messages and completes the turn; only a create or update goes on. *)
LegacyComplete(r, mutation) ==
    LET j == job[r] IN
    /\ pc[r] = "answering"
    /\ ClearActive(j.session, j.turn)
    /\ IF mutation THEN Move(r, "decided") ELSE Finish(r)
    /\ UNCHANGED <<owner, latest, scopeOf, memoryVars, rowVars, worldVars, history>>

(* Mutant: no newer turn is looked for. *)
IsOwned(j) == owner[j.session] = j.owner /\ scopeOf[j.session] = j.scope

(* the checks of dispatch_if_current *)
IsLatest(j) ==
    /\ owner[j.session] = j.owner
    /\ latest[j.session] = j.turn
    /\ scopeOf[j.session] = j.scope

DispatchIfCurrent(r, k, c) ==
    /\ pc[r] = "decided"
    /\ IsLatest(job[r])
    /\ Dispatch(k, job[r], c)
    /\ Finish(r)
    /\ UNCHANGED <<sessionVars, memoryVars, worldVars, history>>

RefuseDispatch(r) ==
    /\ pc[r] = "decided"
    /\ ~IsLatest(job[r])
    /\ Finish(r)
    /\ UNCHANGED <<sessionVars, memoryVars, rowVars, worldVars, history>>

-------------------------------------------------------------------------------
(* A keyed write: one transaction of KeyedWriter.write.  p is the request's principal, s and k
   its headers, c its change set. *)

(* Mutant: the instance's generation is not read again. *)
AuthorisedOnce(p, s) == access[p.user] # None /\ owner[s] = p

(* ExecutionGuard.recheck *)
Authorised(p, s) ==
    /\ access[p.user] # None
    /\ p.gen = generation[p.user]
    /\ owner[s] = p

(* claim: the keys that are not "unknown" to this caller *)
Recognised(p, s, k) ==
    /\ state[k] \in Settled \cup {"dispatched"}
    /\ bound[k].owner = p
    /\ bound[k].session = s

(* Mutant: a settled key is claimed again. *)
ClaimableAgain(p, s, k) == Authorised(p, s) /\ Recognised(p, s, k)

Claimable(p, s, k) == Authorised(p, s) /\ Recognised(p, s, k) /\ state[k] = "dispatched"

Expired(k) == bound[k].expires < now

(* Mutant: the receipt repeats the row's state. *)
StateAsAnswer(k) == state[k]

(* _settled: what a settled key answers.  The record an executed key made may be gone by then. *)
Answer(k) == CASE state[k] = "executed"  -> "executed"
               [] state[k] = "failed"    -> "failed"
               [] OTHER                  -> "refused"

Unavailable == [outcome |-> "executed", code |-> "execution_result_unavailable"]

Answers(k) == {[outcome |-> Answer(k), code |-> code[k]]}
                  \cup {a \in {Unavailable} : state[k] = "executed"}

(* claim, on a key that is already settled: the committed outcome, again *)
Replay(p, s, k, c) ==
    /\ Authorised(p, s) /\ Recognised(p, s, k)
    /\ state[k] \in Settled
    /\ c = bound[k].change
    /\ \E a \in Answers(k) : receipts' = [receipts EXCEPT ![k] = @ \cup {a}]
    /\ UNCHANGED <<sessionVars, memoryVars, rowVars, worldVars, requestVars,
                   effects, cancelled, closedAt>>

ClaimExpired(p, s, k) ==
    /\ Claimable(p, s, k)
    /\ Expired(k)
    /\ Settle(k, "cancelled", "expired", "refused")
    /\ UNCHANGED <<sessionVars, memoryVars, worldVars, requestVars, effects, cancelled, closedAt>>

(* Mutant: a mismatch is answered but not settled. *)
AnswerMismatched(p, s, k, c) ==
    /\ Claimable(p, s, k)
    /\ ~Expired(k)
    /\ c # bound[k].change
    /\ receipts' = [receipts EXCEPT ![k] = @ \cup {[outcome |-> "failed", code |-> "invalid_change"]}]
    /\ UNCHANGED <<sessionVars, memoryVars, rowVars, worldVars, requestVars,
                   effects, cancelled, closedAt>>

ClaimMismatched(p, s, k, c) ==
    /\ Claimable(p, s, k)
    /\ ~Expired(k)
    /\ c # bound[k].change
    /\ Settle(k, "failed", "invalid_change", "failed")
    /\ UNCHANGED <<sessionVars, memoryVars, worldVars, requestVars, effects, cancelled, closedAt>>

(* Mutants: the workspace is checked after the change is made; a rule failure is answered but
   not settled. *)
WriteThenReject(p, s, k, c) ==
    /\ Claimable(p, s, k)
    /\ ~Expired(k)
    /\ c = bound[k].change
    /\ ~MayUse(p.user, bound[k].scope)
    /\ effects' = [effects EXCEPT ![k] = @ + 1]
    /\ Settle(k, "failed", "scope_unavailable", "failed")
    /\ UNCHANGED <<sessionVars, memoryVars, worldVars, requestVars, cancelled, closedAt>>

AnswerRejected(p, s, k, c) ==
    /\ Claimable(p, s, k)
    /\ ~Expired(k)
    /\ c = bound[k].change
    /\ \E reason \in Rejections :
           receipts' = [receipts EXCEPT ![k] = @ \cup {[outcome |-> "failed", code |-> reason]}]
    /\ UNCHANGED <<sessionVars, memoryVars, rowVars, worldVars, requestVars,
                   effects, cancelled, closedAt>>

(* The claim proceeds, but the key's workspace has left the grant, or the record change meets a
   deterministic rule failure. *)
WriteRejected(p, s, k, c) ==
    /\ Claimable(p, s, k)
    /\ ~Expired(k)
    /\ c = bound[k].change
    /\ IF MayUse(p.user, bound[k].scope)
       THEN \E reason \in Rejections : Settle(k, "failed", reason, "failed")
       ELSE Settle(k, "failed", "scope_unavailable", "failed")
    /\ UNCHANGED <<sessionVars, memoryVars, worldVars, requestVars, effects, cancelled, closedAt>>

WriteApplied(p, s, k, c) ==
    /\ Claimable(p, s, k)
    /\ ~Expired(k)
    /\ c = bound[k].change
    /\ MayUse(p.user, bound[k].scope)
    /\ effects' = [effects EXCEPT ![k] = @ + 1]
    /\ Settle(k, "executed", "applied", "executed")
    /\ UNCHANGED <<sessionVars, memoryVars, worldVars, requestVars, cancelled, closedAt>>

-------------------------------------------------------------------------------
(* The caller's other requests. *)

(* /api/turn/{id}/cancel *)
CancelTurn(p, s, t) ==
    /\ owner[s] = p
    /\ ClearActive(s, t)
    /\ SettleAll({k \in UnusedKeys(s, p) : bound[k].turn = t}, "cancelled", "user_cancelled")
    /\ cancelled' = IF active[s] = t THEN cancelled \cup {<<s, t>>} ELSE cancelled
    /\ UNCHANGED <<owner, latest, scopeOf, memoryVars, worldVars, requestVars,
                   effects, receipts, closedAt>>

(* /api/conversations/{id}/close *)
CloseConversation(p, s) ==
    /\ owner[s] = p
    /\ SettleAll(UnusedKeys(s, p), "cancelled", "user_cancelled")
    /\ closedAt' = [closedAt EXCEPT ![s] = latest[s]]
    /\ UNCHANGED <<sessionVars, memoryVars, worldVars, requestVars, effects, receipts, cancelled>>

(* /api/demo-data/reset-mine: a new generation of the visitor's records; the old one's sessions
   lose their active turn, its unused keys and its durable memory. *)
ResetDemo(u) ==
    LET p == Principal(u)
        old == {s \in Sessions : owner[s] = p}
    IN
    /\ u \in Visitors
    /\ access[u] # None
    /\ generation[u] < MaxGen
    /\ generation' = [generation EXCEPT ![u] = @ + 1]
    /\ active' = [s \in Sessions |-> IF s \in old THEN 0 ELSE active[s]]
    /\ SettleAll({k \in Dispatched : bound[k].owner = p}, "cancelled", "instance_reset")
    /\ revision' = [s \in Sessions |-> IF s \in old THEN 0 ELSE revision[s]]
    /\ lastTurn' = [s \in Sessions |-> IF s \in old THEN 0 ELSE lastTurn[s]]
    /\ UNCHANGED <<owner, latest, scopeOf, access, mode, now, requestVars, history>>

-------------------------------------------------------------------------------
(* The platform around the requests. *)

(* Organizations, products, definitions, session pins and record grants change under a user. *)
ChangeAccess(u, a) ==
    /\ access' = [access EXCEPT ![u] = a]
    /\ UNCHANGED <<sessionVars, memoryVars, rowVars, generation, mode, now, requestVars, history>>

(* A request dies of an exception between two of its transactions. *)
RequestFails(r) ==
    /\ pc[r] # "idle"
    /\ Finish(r)
    /\ UNCHANGED <<sessionVars, memoryVars, rowVars, worldVars, history>>

(* The server restarts, in the mode the operator set; every request in flight is lost. *)
Restart(m) ==
    /\ mode' = m
    /\ pc' = [r \in Requests |-> "idle"]
    /\ job' = [r \in Requests |-> None]
    /\ UNCHANGED <<sessionVars, memoryVars, rowVars, generation, access, now, history>>

(* EngineStateStore.prune: the session expired, ended or was idle. *)
PruneState(s) ==
    /\ revision[s] # 0
    /\ revision' = [revision EXCEPT ![s] = 0]
    /\ lastTurn' = [lastTurn EXCEPT ![s] = 0]
    /\ UNCHANGED <<sessionVars, rowVars, worldVars, requestVars, history>>

(* ExecutionLedger.prune: rows past retention, a bounded batch at a time. *)
Prunable == {k \in Keys : \/ state[k] \in Settled /\ settledAt[k] + Retention < now
                          \/ state[k] = "dispatched" /\ bound[k].expires + Retention < now}

PruneLedger(K) ==
    /\ K # {}
    /\ K \subseteq Prunable
    /\ state' = [k \in Keys |-> IF k \in K THEN "deleted" ELSE state[k]]
    /\ bound' = [k \in Keys |-> IF k \in K THEN None ELSE bound[k]]
    /\ code' = [k \in Keys |-> IF k \in K THEN None ELSE code[k]]
    /\ settledAt' = [k \in Keys |-> IF k \in K THEN 0 ELSE settledAt[k]]
    /\ UNCHANGED <<sessionVars, memoryVars, worldVars, requestVars, history>>

Tick ==
    /\ now < MaxNow
    /\ now' = now + 1
    /\ UNCHANGED <<sessionVars, memoryVars, rowVars, generation, access, mode, requestVars, history>>

-------------------------------------------------------------------------------

TurnStep(r) ==
    \/ \E u \in Users, s \in Sessions, t \in Turns, x \in Scopes : Admit(r, u, s, t, x)
    \/ EnsureSession(r) \/ Deny(r) \/ ActivateTurn(r) \/ StaleActivation(r) \/ DenyContext(r)
    \/ LoadState(r) \/ FinalizeAnswer(r) \/ LoseRace(r)
    \/ CheckActive(r) \/ (\E m \in BOOLEAN : LegacyComplete(r, m)) \/ RefuseDispatch(r)
    \/ \E k \in Keys, c \in Changes : FinalizeDispatch(r, k, c) \/ DispatchIfCurrent(r, k, c)
    \/ RequestFails(r)

WriteStep(p, s, k) ==
    \/ ClaimExpired(p, s, k)
    \/ \E c \in Changes : \/ Replay(p, s, k, c) \/ ClaimMismatched(p, s, k, c)
                          \/ WriteRejected(p, s, k, c) \/ WriteApplied(p, s, k, c)

Next ==
    \/ \E r \in Requests : TurnStep(r)
    \/ \E p \in Principals, s \in Sessions :
          \/ \E k \in Keys : WriteStep(p, s, k)
          \/ \E t \in Turns : CancelTurn(p, s, t)
          \/ CloseConversation(p, s)
    \/ \E u \in Users : ResetDemo(u) \/ \E a \in {None} \cup SUBSET Scopes : ChangeAccess(u, a)
    \/ \E m \in Modes : Restart(m)
    \/ \E s \in Sessions : PruneState(s)
    \/ \E K \in SUBSET Keys : PruneLedger(K)
    \/ Tick

Spec == Init /\ [][Next]_vars

-------------------------------------------------------------------------------
(* Properties. *)

(* An unused key is always one of the session's newest turn, in the workspace that turn chose,
   and of the session's own owner: whatever the timing of two turns, an older one never leaves a
   usable key behind (activate_turn's supersession against _finalize and dispatch_if_current). *)
UsableKeysAreCurrent ==
    \A k \in Dispatched :
        LET b == bound[k] IN
        /\ owner[b.session] = b.owner
        /\ latest[b.session] = b.turn
        /\ scopeOf[b.session] = b.scope

(* One turn of a session issues at most one key, however often the client repeats the turn, and
   whichever engine answers it after a restart. *)
OneKeyPerTurn ==
    \A k1, k2 \in Keys :
        /\ bound[k1] # None /\ bound[k2] # None
        /\ bound[k1].session = bound[k2].session
        /\ bound[k1].turn = bound[k2].turn
        => k1 = k2

(* The change a key authorizes reaches the records at most once, and exactly when the ledger
   says it did: retries, mismatched bodies, cancels, resets and retention never part the two. *)
LedgerTellsTheTruth ==
    \A k \in Keys :
        /\ effects[k] <= 1
        /\ state[k] = "executed" => effects[k] = 1
        /\ effects[k] = 1 => state[k] \in {"executed", "deleted"}

(* Every receipt ever given for one key tells the same story, and a client is told a change was
   applied only when it was: the outcome of a key a client sees first is the one it sees on every
   retry, and so is the reason, whatever the session went through in between.  Only the record of
   an applied change may have become unavailable. *)
ReceiptsAgree ==
    \A k \in Keys :
        /\ \A a, b \in receipts[k] : a.outcome = b.outcome /\ (a = b \/ Unavailable \in {a, b})
        /\ \A a \in receipts[k] : (a.outcome = "executed") <=> (effects[k] = 1)

(* A turn whose cancel was answered "cancelled" leaves no usable key: the turn, however late it
   finishes, cannot issue one (cancel_turn against _finalize). *)
CancelledTurnsStayCancelled ==
    \A k \in Dispatched : <<bound[k].session, bound[k].turn>> \notin cancelled

(* Closing a conversation withdraws what its turns proposed, for good. *)
ClosedConversationsOfferNothing ==
    \A k \in Dispatched : bound[k].turn > closedAt[bound[k].session]

(* The revision check of EngineStateStore.commit never costs a current turn its answer: while a
   turn is still its session's active turn, nobody else can have moved the durable memory on. *)
CurrentTurnsKeepTheirMemory ==
    \A r \in Requests : pc[r] = "loaded" /\ IsCurrent(job[r]) => MayCommit(job[r])

(* A settled row keeps its outcome until retention deletes it; nothing revives a deleted key. *)
OutcomesAreFinal ==
    [][\A k \in Keys :
          /\ state[k] \in Settled =>
                \/ state'[k] = "deleted"
                \/ state'[k] = state[k] /\ code'[k] = code[k] /\ bound'[k] = bound[k]
          /\ state[k] = "deleted" => state'[k] = "deleted"]_vars

(* After a private reset no key and no turn of the old generation changes the new records: every
   applied change carries the owner's current generation and a workspace in the current grant. *)
OnlyCurrentCallersWrite ==
    [][\A k \in Keys : effects'[k] # effects[k] =>
          LET b == bound[k] IN
          /\ b.owner.gen = generation[b.owner.user]
          /\ MayUse(b.owner.user, b.scope)
          /\ latest[b.session] = b.turn
          /\ ~Expired(k)]_vars

(* The ledger implements one-shot keys. *)
Life == [k \in Keys |-> CASE state[k] = "unissued"   -> "unissued"
                          [] state[k] = "dispatched" -> "usable"
                          [] effects[k] > 0          -> "applied"
                          [] OTHER                   -> "void"]

OneShot == INSTANCE OneShotKeys WITH life <- Life
KeysAreOneShot == OneShot!Spec

-------------------------------------------------------------------------------
(* The inductive invariant: what makes the properties above hold from one step to the next. *)

(* What a request carries and what a key row binds are there exactly when they are used, and a
   settled row has its result code (the ledger's database triggers). *)
Shape ==
    /\ \A r \in Requests : pc[r] # "idle" => job[r] # None
    /\ \A k \in Keys : state[k] \in Settled \cup {"dispatched"} <=> bound[k] # None
    /\ \A k \in Keys : state[k] \in Settled => code[k] # None

(* The active turn is the newest one, and durable memory is never ahead of it. *)
TurnOrder ==
    \A s \in Sessions :
        /\ active[s] \in {0, latest[s]}
        /\ revision[s] # 0 => lastTurn[s] <= latest[s]
        /\ revision[s] # 0 /\ active[s] # 0 => lastTurn[s] < active[s]

SameTurn(a, b) == a.session = b.session /\ a.turn = b.turn

(* A turn between its activation and its end owns its turn ID alone: no other request runs the
   same turn, and no key has been issued for it. *)
Engaged == {r \in Requests : pc[r] \in {"active", "loaded", "answering", "decided"}}

EngagedTurnsAreAlone ==
    \A r \in Engaged :
        /\ job[r].turn <= latest[job[r].session]
        /\ \A q \in Engaged : SameTurn(job[q], job[r]) => q = r
        /\ \A k \in Keys : bound[k] # None => ~SameTurn(bound[k], job[r])

KeysFollowTurns ==
    \A k \in Keys : bound[k] # None => bound[k].turn <= latest[bound[k].session]

LoadedRevisionHolds ==
    \A r \in Requests :
        pc[r] = "loaded" /\ active[job[r].session] = job[r].turn
            => revision[job[r].session] \in {0, job[r].base}

EffectsFollowState ==
    \A k \in Keys :
        /\ effects[k] <= 1
        /\ state[k] = "executed" => effects[k] = 1
        /\ state[k] \in {"unissued", "dispatched", "failed", "cancelled"} => effects[k] = 0

ReceiptsFollowState ==
    \A k \in Keys :
        /\ state[k] \in {"unissued", "dispatched"} => receipts[k] = {}
        /\ state[k] \in Settled =>
               receipts[k] \subseteq Answers(k)

TurnInv ==
    /\ TurnOrder /\ EngagedTurnsAreAlone /\ KeysFollowTurns
    /\ UsableKeysAreCurrent /\ OneKeyPerTurn /\ LoadedRevisionHolds

RecordInv == EffectsFollowState /\ ReceiptsFollowState /\ ReceiptsAgree

IInv == Shape /\ TurnInv /\ RecordInv
===============================================================================
