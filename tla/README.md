# A TLA+ development of the Pixel/Edith demo-agent platform

This directory models the server of this repository (`src/apps/api/app`) in TLA+,
checks the models with TLC and proves the main results about them with TLAPS.
The code is the reference: every definition of a module that models code is
mapped to its lines in `PROJECT.json`, which also lists the hazards of the code
and the properties that cover each.

Contents: 1 the system; 2 how the development is organised; 3 turns and keys;
4 the engine's memory; 5 the shadow engine; 6 providers and limits; 7 the
workspace; 8 conversations; 9 runs, bounds and fairness; 10 where code and
documents disagree; 11 proofs; 12 what is not modelled.

## 1. The system

A browser (`apps/web`, `apps/console`) talks to a FastAPI server whose state is
one SQLite database, plus a little memory of the process. Requests run in
threads; a database transaction that writes begins with `begin immediate`, so
transactions are serial, and everything *between* two transactions of a request
interleaves freely with other requests. That is the program's concurrency; the
shadow worker, its watchdog and a few locks in memory add to it.

| Component | State | Operations | What is hard | What makes it correct | Module |
|---|---|---|---|---|---|
| Execution ledger (`engine/execution.py`) | `action_executions`: a row per one-time key | dispatch, claim, settle, supersede, cancel, prune | retries, expiry, retention, bulk settlement racing a write | a key's change is made at most once; all its receipts agree; usable keys belong to the newest turn | `TurnLedger` |
| Turn service (`services/turn_execution.py`) | none of its own | activate, load, run the engine, finalize | state read before a long engine run and written after it | an overtaken, cancelled or repeated turn writes nothing | `TurnLedger` |
| Session manager (`services/session_manager.py`) | `sessions`, `conversation_owners`, signals, visitor context | ensure, activate, complete, cancel | two callers of one session; turn IDs come from the client | turns activate in increasing order, once each | `TurnLedger`, `LegacyAgent` |
| Keyed writes (`services/record_writes.py`, `execution_guard.py`) | records, through the stores | one transaction per write | lost answers, mismatched bodies, lost authority | record change and settlement go together | `TurnLedger` |
| Engine memory (`services/engine_state.py`) | `engine_state`; a cache of pending proposals | load, commit, prune; get, put | compare-and-set across the engine run; a cache beside the database | no lost update; no memory of another workspace | `EngineMemory` |
| Definition engine (`engine/*.py`) | the memory it is given | one turn of a conversation | questions, answers and confirmations across turns while records change | what is done is what was asked for | `Dialogue` |
| Legacy engine and planner (`services/agent.py`, `action_planner.py`, ...) | the session's signals | rules, planner, model, validator, adapter | precedence of rules; a snapshot used after the model's answer; several small transactions | a change fits the workspace and the ticket meant | `LegacyAgent` |
| Shadow engine (`services/shadow.py`) | registrations, heaps, parked sessions, breaker, store | begin, finish, worker, watchdog, the switch | deadlines, a hung comparison, two locks, turns taken while it is off | order per session, exact accounting, a trial is always given back | `ShadowEngine` |
| Usage ledger, speech, gateway (`usage_ledger.py`, `speech_service.py`, `model_gateway.py`) | `provider_attempts`, cool-downs, kept connections | reserve, send, settle, prune | budgets at the edge, a fallback chain, a failing settlement | the allowance is never exceeded; what was sent stays counted | `ProviderUsage` |
| Rate limiter (`rate_limit.py`) | windows of hits | one check a request | several windows per request; forgetting | admitted exactly when there is room | `RateLimits` |
| Private demo instances (`demo_instances.py`, `auth.py`) | instances, records, receipts, tokens | allocate, touch, write, reset, reclaim | capacity, eviction, reset racing a write | a visitor in use keeps its records | `DemoInstances` |
| Shared records (`product_data_store.py`, `demo_refresh.py`) | records, receipts, the idle reset | create, update, reset, seed | a reset that is not atomic | a retry makes one record; edits are undone when the demo is idle | `SharedRecords` |
| Records of a product without code (`record_store.py`, `generic_package.py`) | records, revisions, grants | read, create, edit | a screen read in two steps; a grant read before the change it is for; visibility that moves with the record | nobody writes what they do not see | `ProductRecords` |
| Definition registry and bindings (`definitions/*.py`) | versions, bindings, pins | register, publish, bind, move, transfer, open | reading, then writing; migrations beside open conversations | a conversation runs on published content its organization may use | `DefinitionLifecycle` |
| Accounts (`account_api.py`, `organization_api.py`) | codes, accounts, members, grants | request, verify, sign up, add, change, remove | three transactions to add a person; guesses in parallel | a code opens once; a person has one organization and fitting grants | `Accounts` |
| HTTP routes (`main.py`) | none | every request | all of the above | | all |
| Web client, console client | turn counter, voice engine | | callbacks of an overtaken turn | | not modelled |
| Schema and operations (`db.py`, `ops.py`) | schema | migrations, operator commands | sequential, offline | | not modelled |

## 2. Organisation

Component modules have no model-checking definitions. `OneShotKeys` is the
abstract specification `TurnLedger` implements; `...Proofs` modules hold
theorems; `MC...` modules hold what TLC needs: values of constants, symmetry and
bounds of an instance. Components that share no state are run together, a
variable `part` saying which of them a behaviour runs, because a run answers one
kind of question: `MCProviders` (what the platform may spend), `MCWorkspace` (the
records, and who may reach them), `MCConversation` (what a message leads to).

Where components do interact, one of them abstracts the other. `TurnLedger`
composes ledger, sessions, turns, keyed writes and access; it treats the
memory as a revision, which `EngineMemory` opens, and what an engine proposes as
a choice, which `Dialogue` and `LegacyAgent` open. `ProductRecords` takes a
usable proposal as given, which is `TurnLedger`'s business; `LegacyAgent` takes a
call of the model as an answer or a failure, which is `ProviderUsage`'s.

The order in which they were written is the order of importance: keys and turns,
memory, then what runs beside turns (shadow engine), what costs money
(providers), what is stored (workspace), and what is said (conversations). What
the development could grow by next is in section 12.

Some definitions come in pairs: the code's, and just before it a plausible
mistake in it (`Full` and `FullLate`, `ChangedIssue` and `ChangedIssueOfAnyone`).
Nothing uses the second. `PROJECT.json`, under `mutants`, pairs each with the
property TLC finds violated when it takes the place of the first, so that every
property is known to be able to fail.

## 3. Turns and keys: `TurnLedger`

### State and code

| Variables | Code |
|---|---|
| `owner`, `scopeOf` | `conversation_owners`: the full owner tuple and the workspace |
| `active`, `latest` | `sessions.active_turn_id`, `sessions.latest_turn_id` (0 is null) |
| `revision`, `lastTurn` | the `engine_state` row (revision 0: no row) |
| `state`, `bound`, `code`, `settledAt` | the `action_executions` row of a key |
| `generation` | `demo_instances.generation` of a visitor's instance |
| `access` | what the organization, product, definition, pin and grant checks allow a user now: the workspaces, or nothing |
| `mode` | `PIXEL_ENGINE_MODE`, read at startup |
| `pc`, `job` | where each server thread is in a turn, and what it has read |
| `effects`, `receipts`, `cancelled`, `closedAt` | history: what reached the records and what callers were told |

Each action is one transaction, or a step of a request that has none:

- a definition-engine turn: `Admit`, `EnsureSession` (or `Deny`),
  `ActivateTurn` (or `StaleActivation`), `DenyContext`, `LoadState`, then
  `FinalizeAnswer`, `FinalizeDispatch` or `LoseRace`;
- a legacy turn after activation: `CheckActive`, `LegacyComplete`,
  `DispatchIfCurrent` (or `RefuseDispatch`);
- a keyed write, one action per outcome of `KeyedWriter.write`: `Replay`,
  `ClaimExpired`, `ClaimMismatched`, `WriteRejected`, `WriteApplied`;
- withdrawals: `CancelTurn`, `CloseConversation`, `ResetDemo`;
- the platform: `ChangeAccess`, `RequestFails`, `Restart`, `PruneState`,
  `PruneLedger`, `Tick`.

A write refused before the ledger is touched changes nothing, so it has no
action. A principal authenticated before a reset may still be in a handler;
writes, cancels and closes therefore take any generation up to the current one,
and the code's checks have to refuse the old ones.

### Abstractions

One product of one organization: every query carries both, and no operation
relates two products. A change set is a model value; two are equal when their
digests are. Access is one set per user that may change at any moment to
anything, which includes every order of organization, team, product, pin and
grant changes. The clock counts units; `Lifetime` and `Retention` are in the
same units. Record changes are counted, not performed.

### Properties

*State invariants.* `UsableKeysAreCurrent`, `OneKeyPerTurn` (proved, and left out of
the runs since),
`LedgerTellsTheTruth`, `ReceiptsAgree`, `CancelledTurnsStayCancelled`,
`CurrentTurnsKeepTheirMemory`. *Action properties.* `OutcomesAreFinal`,
`OnlyCurrentCallersWrite`. *Refinement.* `KeysAreOneShot`: under the mapping
`Life`, a `TurnLedger` behaviour is a behaviour of `OneShotKeys`.
No liveness is stated of this module: a turn may fail at any point, a client may
never present its key, and no background task settles keys, so nothing in it has
to happen.

## 4. The engine's memory: `EngineMemory`

`TurnLedger` treats what the engine remembers as a revision number. This module
opens it: where a memory is kept, what of it is kept there, and what a message
may do to it. Keys and owners are left to `TurnLedger`.

| Variables | Code |
|---|---|
| `active`, `latest` | `sessions.active_turn_id`, `sessions.latest_turn_id` |
| `row` | the `engine_state` row: workspace, last turn, revision, identifiers, time of change; with the memory it was cut from, as history |
| `entry`, `recent` | `PendingStateCache._entries`, an `OrderedDict`, as a map and the order of its keys |
| `flight` | what each turn's thread has read, by `NewEngineTurns.__call__` |
| `now`, `epoch` | the clock, the number of restarts |
| `last`, `deed` | history: the last committed turn and its process; the change the last step handed out, and which turn asked for it |

A turn is `Activate`, `Load` (the row), `Consult` (the cache), `Finalize` or
`Lose`, and `Put` (the cache): five steps with no common lock. Around them are
`Deactivate` (a cancel, or a refusal after activation), `Prune`, `Restart` and
`Tick`. What a message does is the set `TurnOutcomes(memory, turn, workspace)`,
following `ConversationEngine.turn` and `IntentRouter`: which text leads to which
outcome is data, but which outcomes a memory allows is control - a yes needs a
fresh proposal, an answer a fresh question, a refusal drops both, anything but a
yes drops the proposal, a question is asked again at most once, an answer keeps
the workspace its question came from. The row keeps only `Durable(memory)`.

Abstractions. A remembered record or person is the workspace it was resolved in.
The visitor's name, the last views, the person follow-up and the signal history
are left out; what a question, its answer and a follow-up are about is in
`Dialogue`. A session has one owner, so the key of its cache entry is the
session; its pin never changes, so codec and pin mismatches do not arise. A
session that has ended or expired starts no turn and is left out; its row is
pruned at once, and a chain of three requests admitted before its end and served
after the pruning is therefore not covered. The row's wall clock and the cache's
monotonic clock are one, in units of minutes: a thread goes from its commit to
the cache within a unit.

Properties. `YesAnswersTheLastQuestion`: an agreed change was asked for by the
last committed turn, so a yes never reaches back past a later answer.
`RestartForgetsQuestions`: and by this process. `MemoryIsContinuous`: a turn
continues from the memory of the row it replaces, whole or cut, or from nothing
in another workspace. `TypeOK` includes the cache's limit and the agreement of
its order with its entries.

Two things were met that break no property. `PendingStateCache.put` is
unconditional, so the put of an older turn that is late replaces a newer entry
(`docs/MILESTONE_3_STEP_3_2_SLICE_5C_PLAN.md:250-251` says that it cannot); its
revision is then not the row's, so a pending question is lost, and nothing false
is used. And a question that follows on another one keeps the turn of the first
(`router.py`, `_complete_pending`), so it has expired when its answer arrives.

## 5. The shadow engine: `ShadowEngine`

Every live turn is also answered by the new engine, off the request path. A
request takes two steps under the controller's lock (`Begin`, `Finish`); one
worker takes queued turns in turn order within a session and round robin across
sessions (`TakeNext`), and compares each in three steps (the store is read,
written, the turn resolved), since the store and the controller have locks of
their own and no lock spans both. A watchdog (`Watch`) gives up on a worker that
hangs and drains the queue; a breaker closes the shadow after slow or failed
comparisons, and lets one trial through when its wait is over. The controller is
created by the first turn that finds the switch on (`FirstController`), with the
start of the process as its epoch; a turn that finds it off is answered by the live
engine alone (`BeginUnseen`, then `UnseenMissed` or, when the switch is on again by
then, `UnseenLate`), and the next that finds it on begins an epoch (`NewEpoch`).

| Variables | Code |
|---|---|
| `regs`, `heaps`, `ready`, `parked`, `waits`, `items`, `bytes` | the controller's registrations, per-session heaps, round robin, parked sessions with their deadlines, and what is charged |
| `breaker` | the circuit breaker: forced, wait, trial, slow, errors |
| `worker`, `mode` | the step the worker is in and for how long; up, unhealthy, closed |
| `store` | `ShadowMemoryStore`: least-recently-used order, last turn, reset marks, tombstones |
| `started` | which epoch a session began in |
| `created`, `seenOn` | whether there is a controller (`_shadow`); `_shadow_seen_on`, but for false |
| `pc`, `turnOf`, `sizeOf` | requests 1..n in arrival order |
| `counted`, `broken`, `leaked` | history: how often a turn was counted, the sessions that lost a turn, and those the known leaks let through |

A clock is what is left of each wait. `AccountingIsExact`, `NoSessionIsForgotten`
and `EveryTurnIsCountedOnce` relate queue, scheduler and counters over all orders
of request, worker, watchdog and close; `OneTrialAtMost` and `WaitsOnlyShrink` are
proved; `QueuedTurnsLeave` and `TrialsComeBack` are liveness. `OnlyKnownLeaks` and
`RunsOnWholeContext` say that the new engine never answers from a memory that
misses a turn, except in three ways that exist in the code: a put after a reset that
came between `compare_turn`'s get and put (`shadow.py` 334-345; the plan,
`docs/MILESTONE_3_STEP_3_2_SLICE_5B_PLAN.md:382-383`, has every reset hold); a
turn a gate refuses, which is not marked lost (`shadow.py` 319-322, where the
plan's line 348 counts every eligible turn without a completed comparison as
lost); and a turn taken with the switch off that no epoch covers - answered before
the controller existed (`main.py` 222-229), or begun with the switch off and answered
after it was on again. The third is in section 10.
`QueuedTurnsLeave` holds
although a request may never finish its turn and a comparison may never end: the
deadline of the gap (`shadow.py` 745-758) releases what waits for the one, the
watchdog sheds what waits for the other.

Left out: the limit of 10,000 tombstones; the worker's own exception path
(`shadow.py` 799-804), taken only when a payload that this process has written cannot
be read back, whose turn would be neither counted nor marked as lost; the flush of `ParityCounters` (telemetry); a comparison's class (equal or not) is
data. A restart is a new behaviour that begins with sessions that are `earlier`.
Of two requests of the same turn in a heap either may come first.

## 6. Providers and limits: `ProviderUsage`, `RateLimits`

`ProviderUsage` has the three callers of paid providers - speech with its fallback
voices, the reasoner, the model gateway - over the one ledger. A request reads
the policy and the day (`ReadPolicy`), reserves in one transaction that counts and
inserts (`Reserve`), takes a connection (`Checkout`), sends (`Post...`) and settles
(`Settle`, or `SettleFails`), and moves to the next provider of its chain or ends.
Beside it: `Midnight`, `CoolDown`, `Restart` (rows stay reserved) and pruning.

| Variables | Code |
|---|---|
| `ledger`, `today` | `provider_attempts`, one row for each attempt of a request at a provider |
| `stage`, `left`, `stamp`, `reply` | where a request's thread is, what is left of its chain, the day and refusal it read, the answer it got |
| `cooling`, `idle` | provider cool-downs; kept connections per host |
| `paid` | the policy's kill switch, fixed within a process |
| `sent`, `restarts` | history; bound |

`WithinAllowance`: no allowance (per request, session, user, deployment, in
attempts and in units) is exceeded, however many requests reserve at once, over a
midnight or a restart. `SentIsCounted`: nothing is sent without a row that counts,
and it counts until it is old, whatever fails. `RequestsEnd`: a request ends.
One tenant; `release` has no caller in the source and is left out; a timeout is
settled like a failure; the reasoner's request identifier is its turn's, so a
retried turn shares its attempts, as in the code.

`RateLimits` is the sliding windows: one lock spans a check, so a step is a
request. `RateIsExact` compares the code's buckets (pruned lists that idle keys
lose) with a history of everything admitted: a request is admitted exactly when
each of its limits has room. One statement of the source is not true of it: a
visitor who waits the stated time "gets through" (`rate_limit.py:91`) need not
when a second of the limits is also reached, since the wait is the first one's. The
wait itself is not in the model.

## 7. The workspace

**`DemoInstances`** - a visitor's private demo: `StartVisitor` (prune, reclaim or
refuse, seed, token), `Enter` (authenticate and extend the deadline), then, in a
later transaction, `Read`, `Create`, `Repeat` (a retry under its key), `Edit`,
`Reset` or `Refuse`; `Restart` prunes, the clock expires. `instances` holds the rows
that hang from an instance, `logins` the tokens in the database, `issued` those
handed out, `calls` the requests past authentication. `InstancesAreWhole`:
capacity holds, every instance has its seed and stays within its limit, receipts
name existing records, and one token works. `BusyAreKept`: an instance in use is
never evicted. Token lookup and touch are one step; a start that is refused
writes nothing.

**`SharedRecords`** - the shared demo. A reset is *not* one transaction: `sqlite3`'s
`executescript` commits each delete before the seed is inserted, and any request
that meets the tables empty resets them too. So a reset is `WipeRecords`,
`WipeBase`, `WipeReceipts`, `Fill` (or `FillFails`, when a second reset has filled
first), interleaved with reads, creates, retries, edits, sign-ins and the idle
restore under its lock. `OneRecordPerKey` and `EditsAreNoticed` hold; the latter
up to one exception it names: `restored()` forgets a change made since the reset.
`shared_reset` shows a request's own reset (section 10). A stop between the wipe of
the records and of what they refer to leaves a demo without tickets, which
startup does not reseed, since projects are there.

**`ProductRecords`** - records of a product that is only a definition: books, at
which areas are anchored, and keepers, which refer to books and belong to their
areas. A reader fills a form by two reads (`ReadFields`, `ReadVersions`) and sends an
edit (`SubmitEdit`, `EditConflicts`), creates (`CreateDirectly`), or has the assistant
`Propose` and `CarryOut` a create or a change. `reach` holds the grants, which an
administrator takes and gives at any moment (`DropGrant`, `GiveGrant`: the two
transactions of `change_person`, the first of `remove_person`). A request reads its
caller's grant first, in `ReadGrant`, and is judged with what it read (`granted`) until
it is answered or turned away (`TurnAway`); only `CarryOut` reads the grant in its own
transaction. `FormsShowThePast`,
`ChangesStayInReach` and `SpacesAreBounded` are its properties. The second says that
a form leaves a record where the grant its request has read sees it, and that the
assistant's change stays in its workspace and in what its reader may see at that
moment; a form's change need not be within the grant of *that* moment (section 10). The last allows one record above the limit: the count is compared with `>` before the record is
inserted (`record_store.py:277`). Nothing deletes a record, hence no reference
dangles and the refusals of dead references are left out; `put_many` and the
scope rows have no caller in the application.

**`DefinitionLifecycle`** - versions of a definition: `Ship`/`Store` a text, `Register`
it, `Transition`, publish, bind, move or transfer a product, suspend and disable,
pin a conversation. Publishing (`PublishReads`, `PublishCommits`), binding
(`BindReads`, `BindCommits`) and opening (`PinSession`, `OpenSession`) read first and
write in a later transaction. `PinsFitTheirRecords`: owners agree, what runs was
published and is its organization's to use, and a conversation open at a
migration does not go on reading the migrated records through an older version.
Conversations opened later on a product still bound to an older version, and pins
read before and stored after a migration, are left out of the last part: the code
lets them. Another version may also be published between the comparison
(`registry.py:125`) and the commit; that is a behaviour of the model, but what shape
it leaves the records in is in no property.

**`Accounts`** - codes (`RequestCode`, `CodeSent` or `CodeNotSent`, `VerifyCode`,
`VerifyWrongCode`), open sign-in, sign-up, and an organization's people: adding
somebody is three transactions, changing a role two and a grant each, removing
somebody one after the administrator and the member were read (`RemovePerson`,
`DeletePerson`), adding a product one and a grant for each member. `CodesOpenOnce`, `AccountsHaveMembers` and
`GrantsFitRoles` hold up to the exceptions they name, which exist in the code: an
administrator removes a person between the transactions that add them (an
account without membership; `removed` lists them); a grant is written for a role that was changed
meanwhile (against "a former admin keeps no admin reach" in `change_person`).
Two more, which the properties do not speak of: an address taken meanwhile leaves
a membership without an account; two administrators may demote each other. A mail
may arrive although it was reported as failed, so any code may be known.
Login tokens and logout, the console's product, the ceilings of a deployment and
team management are left out.

## 8. Conversations

**`Dialogue`** is what the definition engine takes a conversation's messages to
mean. A message is what the rules find in it - a rule, a ticket, the people its
names could be, values, an ordinal, a rejection, a yes - never its words. A step is
a turn (`Say`); between turns what the caller may see and what is open in the client
change freely (`Elsewhere`), and turns may have passed that never reached the
engine. `EngineTurn` follows `ConversationEngine.turn`: an unfinished create, the
guardrails, `Route` (a confirmation; an answer to a question: a choice from a list,
a rejection, a supplied slot; a fresh request; a follow-up; asking again once), then
`Finish` (the definition's defaults, what is missing, validation, the yes an action
needs); when the rules find nothing, a model proposes and `Consider` keeps only a
change this message attests. `request` is a history: what the visitor said
since the request began.

`ChangesAreMeant` says that a change put forward names what is visible *now*, is
made to a ticket the request names, to one that was open before it named any, or to
the one its question was about, to a person who was singled out or
picked and was not rejected, with a value that was said, and after a yes where one
is needed. `RepliesAreSettled` says that a yes does what the answer just before it
showed, and a refused message changes nothing. The history makes some allowances,
all for things the code does (section 10).

**`LegacyAgent`** is the legacy engine. A turn takes a snapshot of the records,
activates (`Receive`, `Enter`), is decided by the first rule that fits (`Interpret`:
conversational replies, clarifications, the hard boundary, follow-ups, the planner
or the model, which is a step of its own with any answer or none), and then stores
what it learned in transactions of their own (`CheckStillActive`, `StoreSignals`,
`ReadContext`, `WriteContext`, `Complete`), in an order that depends on what was
decided; `Adapt` is `legacy_adapter.py`. `work` holds each request, `interest` and
`interests` what is stored. `LegacyTurnsAreContained`: what is answered fits the
workspace read, whoever proposed it; a message that mentions deletion, mail or
another system changes nothing and is not shown to the model; a change the rules
make is made to the ticket the message means; and an older turn's interest stands
after a newer one's only if it was overtaken between its check and its note.

## 9. Runs, bounds and fairness

| Run | Bounds | What it shows |
|---|---|---|
| `turns` | 1 user, 1 session, 2 workspaces, 2 changes, 2 keys, 2 threads, turns 1..2 | overlapping turns, repeated IDs, cancels, mismatched bodies, access changes and restarts, in definition mode |
| `resets` | a visitor, 2 sessions, 2 keys, 1 thread, generations 1..2, clock 0..1 | resets, expiry, rule rejections and retention between any two steps; the refinement |
| `rollback` | 2 users, 1 session, 2 keys, 2 threads, both modes | contention for a session, rollback to the legacy engine and back |
| `memory` | 2 sessions (3 turns; 1 turn), 2 workspaces, a cache of 1, clock 0..1, idle and retention 0, 1 restart | overlapping turns, changes of workspace, late puts, eviction, expiry, pruning with revisions that begin again, restarts |
| `shadow` | 3 requests, 2 sessions (one may be older than the process), turns 1..2, sizes 2 and 3 (too large), a store of 1, a queue of 2, slow limit 2, error limit 1, waits of 1 | order, parking, gaps that only a deadline ends, hang, watchdog, breaker with trial, close, the switch off and on; liveness |
| `providers` | 2 requests, 3 plans, 2 voices; 2 attempts a request, 3 in all, 2 days, 1 restart. 3 callers, 2 limits, times 0..3 | budgets met from two sides at once, a fallback chain, failing settlement, midnight, restart, liveness; exact windows |
| `workspace` | 2 requests at once in each part; 2 visitors with room for one, 3 ticks; 1 seeded ticket, 1 retry key, 2 bodies; 2 areas, 2 books and a space of 2, revisions to 3 under grants that stay, to 2 while one reader's grants change; 2 versions of different shapes, 1 tenant with 2 teams, 1 conversation, 1 migration; 2 addresses, 2 codes, 3 users, 2 role changes | everything stored: retries, edits, resets, reclaim, visibility, publication and migration beside opening, codes, people and grants |
| `conversation` | definition engine: 2 tickets, 2 people, 1 value, 2 products, some thirty messages, conversations of any length; legacy: some thirty messages, 3 record situations, 2 turns | any message after any other while people and tickets go and come and another ticket is opened; overlapping legacy turns with any answer of the model |
| `close`, `switch`, `shared_reset`, `lost_work` | the sizes above or less | disagreements between documents and code, section 10 |

Why these bounds are enough to meet the interesting cases. In `turns`, `resets` and
`rollback`, two turns suffice for a turn to overtake another and for a repeat, two
keys for a superseded and a current one, two threads for every pairwise race. In
`memory`, three turns are a question, its replacement and a late yes, and an entry,
a pruned row and a new row of the same revision; the second session exists to push
the first out of the cache, so it remembers nothing (`OneTalks`), and a behaviour
has a restart or a wait, not both (`RestartsOrWaits`); the proofs have no such
bounds. In `shadow`, three requests fill a queue of two while one is compared, two
sessions evict each other from a store of one. In `providers`, two requests meet
each limit from below at the same time. In `workspace`, a limit of one instance is
met by the second visitor, and two threads give every race of two requests; at
most one organization, team or product is switched off at a time, and not while
somebody publishes or binds (`MCNext`); codes and people are run separately
(`CodesOnly`, `PeopleOnly`); of a product's readers one at a time has a request in
hand, and uses a form or the assistant (`OneWay`), and grants change in a part of
their own ("grants"), while nobody else is at work (`OneGrant`). The people's part was also run once with three concurrent
threads and two changes, in 6.1 million states, without an error. In
`conversation`, a request names at most two things, tickets or sets of people, and is
asked about one ticket; ticket t2 or a person disappears, or the other ticket is
opened, one of these at a time and only where it can matter, in the
product whose changes need a yes (`Around`), and legacy turns overlap
only with four messages, one for each order in which a turn stores things
(`Overlapping`).

Deadlock is checked where a stopped system would be a fault (`turns`, `resets`,
`rollback`). The other runs end because identifiers, clocks or messages run out by
the bounds, or, in the shadow engine, because everything has been answered and
closed. Symmetry covers only interchangeable model values (sessions, users, keys,
threads, addresses) and no run with a liveness property uses it.

Fairness is stated where code is scheduled whatever anyone does. `ShadowEngine`:
weak fairness of the worker's `TakeNext` and of `Watch` (threads of their own, in
loops that wait with a timeout) and of `Tick` (time passes). Neither a request's
`Finish` nor the end of a comparison is fair: a live turn may never be answered and a
comparison may hang. The deadline of the gap and the watchdog have to do without
them, which is what `QueuedTurnsLeave` checks; its mutant is a deadline that never
ends a wait. `TrialsComeBack` excepts a trial whose own request never finishes: the
code has no remedy for it. `ProviderUsage`: weak fairness of each request's next step,
since request threads run and every provider call has a timeout. There is none in
the other modules: a turn may fail at any point, a client may never return, and
nothing in them has to happen.

## 10. Where code and documents disagree

Four disagreements are runs that show a counterexample, listed under `findings`:

- **close**: `close_conversation` withdraws the keys that exist and leaves the
  active turn alone, so a turn in flight issues a usable key afterwards, against
  the handler's own docstring.
- **switch**: a change of workspace is to clear references and pending state.
  `load` does so but returns the row's revision, and the cache, asked for that
  revision and keyed by owner and session only, gives back the old workspace's
  memory, its pending proposal included.
- **shared_reset**: records are to be "created once, at startup, and never by a
  request" (`main.py:291-292`); a request that reads between the deletes of a reset
  and its fill resets the records again.
- **lost_work**: a form's fields and its version are read in two steps, the fields
  first; an edit between the two is overwritten by an edit that passes the
  revision check.

Others have no run of their own. The first three are behaviours of the models, which
TLC shows in a few steps when the formula given is added to the run.

*A late controller.* "Turning shadow off and back on creates a new epoch, so an
existing conversation cannot resume against memory that missed the disabled interval"
(`MILESTONE_3_STEP_3_2_SLICE_5B_PLAN.md:373-375`; the docstring at `main.py:220`). It
does for a controller that exists (230-231); the first one of a process is given the
start of the process as its epoch (222-229). A session that began in this process and
had a turn answered with the switch off is then compared from a memory without it:
`[][worker.at = "taken" /\ worker'.at = "read" => \A r \in Ids : pc[r] = "missed" /\
seenOn => turnOf[r].session # turnOf[worker.req].session]_vars` is refuted in
`Shadow.cfg`.

*A grant read too early.* The check of a person's own change "runs in the same
transaction as the change, so nothing can move in between" (`main.py` 1022-1023). The
grant it checks with is read before that transaction (1027, 1038), and a role change or
a removal (`organization_api.py` 181, 266) may take it in between: `\A k \in Keepers :
lastWrite[k].how = "form" => lastWrite[k].reached` is refuted in `Workspace.cfg`.

*A named ticket.* A request that matches a rule replaces an open question
(`MILESTONE_3_STEP_3_2_PLAN.md:130`), and "a remembered record must never be
substituted" for one it names (`router.py` 914-915). But `_supplied_slot` is asked
before `_is_complete_request` (213-224): with b open, "assign it", asked to whom,
answered by "assign a to Maya", assigns b. `PutForward /\ answer.act.does = "update" /\
request.tickets # {} => answer.act.ticket \in request.tickets` is refuted in
`Conversation.cfg`.

*Turns.* In legacy mode a cancel between the activation check and the dispatch is
answered "cancelled" and the key is issued all the same (`agent.py:326`;
`docs/MILESTONE_3_STEP_3_2_SLICE_5C_PLAN.md:445`); definition mode is proved free of
this (`CancelsHold`). The design has finalization check authority again
(`SLICE_5C_PLAN.md:186`); `turn_execution.py:237` checks only that the turn is
current. The keyed write does check it (`WritersAreCurrent`).
`_or_platform_navigation` (`main.py` 1649-1687) answers in a session of its own,
`X::platform`, and reports the client's, so that a cancel or a close of the client's
session does not reach its keys.

*Definition engine.* (a) The ticket stored with a question wins over one that a whole
request names which answers it, as just said. (b) An ordinal counts in
the list as it is visible now, not as it was shown (`router.py` 287, 317). (c) A
question that follows another keeps the first one's turn (381, 389), so it has
expired when it is answered. (d) `_continue_create` comes before the guardrails
(`conversation_engine.py` 370-376), against "Refusals first" in the plan (123-125), and
a pending value or person question accepts a barred message. (e) An ambiguous
person in an update drops the values named with it. (f) A create that was asked for
a missing field is dispatched without the confirmation its definition asks for
(`actions.py` 182-190). (g) A rejection is forgotten when the list runs empty, and a
question asked again adds nothing to its request. (h) An answer which is not a bare
name or identifier is read together with its request against the ticket that is
open by then (`router.py` 223-225, 797), not the one the question was about, although
`PendingClarification` keeps that one (`memory.py:31-32`): "set the priority" with a open,
"high" after b was opened, changes b. The history in `Dialogue` keeps every
ticket a request names; `TargetsAreMeant` allows (a) by name (`asked`), and (h) as a
ticket open before the request named any. (d) and (g) are in the history, and
`ConfirmedFirst` names (f) as its one exception.

*Legacy engine.* "Assign the ticket to Noah", without "it" or "this", changes Noah's
own first ticket (`action_planner.py` 204-218, against the comment at 198-199). Of a
person's several tickets the first is taken without asking. `follow_up_action` never
takes effect: the conversational rule for "what about" answers first. A turn's
interest is read and written in two transactions and may be lost, and an overtaken
turn's may be stored last; the "all items" question writes it before its check. A
new ticket for a member without tickets, called by first name only, is answered
with "add member". A model's proposal is checked against the workspace but not
against the message. A message that mentions deletion and matches a conversational
rule is answered without the refusal, though it changes nothing.

*Records.* A space takes one record more than its limit (`record_store.py:277`). A
keyed create is not judged by where it lands (`main.py` 976-989): without a path to an
anchor it is visible to nobody, and its replay is answered
`execution_result_unavailable`. A store conflict in a keyed change is not among the
rejections and would leave its key dispatched; nothing deletes records, so it
cannot be reached today. `changedOnly` in `record-form.tsx` sends every value when none
differs.

*Private demos.* An instance is made with an idle deadline that is not compared with
its absolute one (`demo_instances.py:191`); its visitor's first request and a reset
take the earlier of the two (226, 301). The limits may be configured so that the
first deadline is the later one (85-93 compare only reclaim and idle time). Both are
asked for everywhere, so nothing lives longer; `InstanceTypeOK` says which rows may
look like this.

*Definitions.* A product that is moved ends its sessions
(`docs/MILESTONE_3_PRODUCT_PROFILE_DESIGN.md:149`) only until it is moved back; the
same goes for a suspension. Publications of two versions may commit out of order.

*Web client, which is not modelled.* Turn IDs begin again at 1 when a conversation
is restarted while an old request is under way (`page.tsx` 405-464), and that
request's `finally` clears the new turn's ID; `sendMessage` awaits
`checkAgentService` before it reads the active turn; `createIssue` writes from a list
it read earlier. In `hybrid-voice-engine.ts` two `start()`s may be pending at once, a
`stop()` during the permission prompt is lost, and the fallback of
`speakLocalResponse` (219-223) has no generation check (comment at line 112).

## 11. Proofs

Every theorem holds for every value of the constants that meets the named
assumptions of the modules: bounds and times are naturals, the values that stand
for "none" are no values, and what is finite in the code (requests, callers,
limits, definitions) is finite. Four assumptions say more. `Idle <= Retention`
(`EngineMemory`: 15 minutes and 30 days), `ReclaimAfter <= IdleFor` and
`Absolute <= TokenAge` (`DemoInstances`, as configured), `m.whose` is among
`m.names` (`LegacyAgent`: the owner's name was found in the same text), and a
message matches one of the ten kinds of rule and names one ticket at most
(`Dialogue`, where tickets and people are finite sets with nobody in both).

| Module | What its theorems say |
|---|---|
| `TurnLedgerProofs` | keys, receipts, outcomes, memory, cancels; `TurnLedger` implements `OneShotKeys` |
| `EngineMemoryProofs` | what a yes answers, what a restart forgets, what a turn continues from; the cache |
| `ShadowEngineProofs` | the trial, the waits, the losses, the schedule, the counts, the accounts, the types |
| `ProvidersProofs` | every allowance, what was sent, the rate limiter, the types of both |
| `WorkspaceProofs` | private demos, the shared reset, retried creates, accounts and grants; the types of all five modules |
| `ProductProofs` | forms and proposals of a product's records; publication, bindings, pins and migration |
| `ConversationProofs` | legacy turns; what the definition engine asks, offers, puts forward and does; the types of both |
| `DataLemmas` | induction, folds and sums over finite sets; queues without repetitions |

In each module the inductive invariant was checked with TLC before it was proved.

**`TurnLedgerProofs`**: `TypeCorrect`; `Invariance` (the inductive invariant `IInv`,
with the types); from it `KeysAreCurrent`, `TurnsHaveOneKey`, `LedgerIsTrue`,
`ReceiptsAreConsistent`, `MemoryFollowsTheTurn`; of steps `OutcomesHold` and
`WritersAreCurrent`; `LedgerImplementsOneShotKeys`, the refinement; and `CancelsHold`,
for `Modes = {"definition"}`. The invariant has three parts. `Shape`: rows have
bindings and settled rows have codes, as the database triggers demand. `TurnInv`:
the active turn is the newest one and memory is not ahead of it (`TurnOrder`); *a
turn between activation and its end owns its number alone* (`EngagedTurnsAreAlone`),
which is what makes one key per turn inductive; keys never come from a turn not yet
activated; a loaded revision is still the row's while the turn is active, or the row
is gone. `RecordInv`: effects and receipts follow the row's state. None of the
properties is inductive alone: that a finalizing turn's key is new, for example,
needs to know that no other thread runs the same turn. `LedgerSteps` then sorts every
step by what it does to the rows: it issues, applies, withdraws or prunes keys, or
leaves them; the refinement and the action properties follow.

**`EngineMemoryProofs`**: `MemoryInvariance`; of steps `YesIsForTheLastQuestion`,
`RestartForgets`, `MemoryContinues`; and `CacheIsOrdered`, the type invariant. A cached
revision alone does not identify a memory: after retention deletes a row, revisions
begin again at 1. The invariant therefore says that an entry is idle, or is `Honest`
(of the row's revision only if it is the row's memory, made by this process) and
not younger than the row (`CacheIsHonest`). When a row is pruned, its entry is older
than the retention time, hence idle: this is where `Idle <= Retention` is needed. A
memory on its way to the cache is honest too (`CommitsAreHonest`); the active turn
knows what the row says and nothing newer than the last committed turn
(`ActiveTurnKnows`). The cache's order lists the sessions with an entry, each once
(`OrderFits`), which is why evicting the oldest is enough to stay within the limit.

**`ShadowEngineProofs`** proves one invariant after the other, each with the first.
`TInv` (`ShadowInvariant`) is what requests, queue and worker look like, and the
trial: every way of ending a turn - finished without effect, shed, drained,
compared, given up - either carries the trial and gives it back, or does not carry
it and must not. From it `OneTrial` and `WaitsShrink`. `SInv` (`LossesAreRemembered`):
a session that lost a turn, but through one of the three known leaks, is marked
while the store has its entry, and once it has none it is buried, or the store's
epoch is over (`LossIsKept`). A controller created late (`FirstController`) adds to what
leaked whatever was answered before it. Each operation
of the store is proved to keep marks and to bury what it drops (`Keeps`), so each
step is a few of them in a row; from it `LeaksAreKnown` and `AnswersOnWholeContext`.
`QInv` (`SessionsAreScheduled`): ready and parked sessions together are those with
something queued, none twice; from it `NobodyIsForgotten`. `CInv`
(`TurnsAreCountedOnce`) and `AInv` (`ChargesAreExact`) count turns, items and bytes:
a drain takes many charges back at once, hence the lemmas about sums. `YInv` is
the rest of the types (`TypesHold`).

**`ProvidersProofs`**. `UInv` (`UsageInvariant`) relates an attempt's row to its
thread's stage: a thread that has reserved has a row that counts and is of the
day it read; only a thread's own settlement changes the row, and only a settlement
that was never sent uncounts it. From it `SentStaysCounted`. `VInv` adds the units:
what a settlement writes is no more than what was reserved, so a sum only falls
until the next reservation, which looks at it. Both give `AllowanceKept`, for
attempts (per request, in all, per session, user, deployment and day) and units.
The limiter's `RInv`: a bucket is in order and not of the future (`RateShape`), and
after any time of its window it has as many hits as requests were admitted
(`HitsCount`), whatever was pruned or forgotten; hence `RatesExact`. `DInv` are the
days and connections (`ProvidersTyped`).

**`WorkspaceProofs`**. `BusyKept`: an instance's `lastActive` is never older than its
visitor's last request (`ActivityIsNoted`), so one that is reclaimed for being
unused was unused. `InstancesWhole`, from `WholeInv`: how many there are
(`CapacityFits`), and for each its dates, contents, logins and answers
(`InstanceFits`); that its newest token is the one that works needs to know that a
token outlives the instance, `Absolute <= TokenAge`. `EditsNoticed`: records are the
seed or are marked changed, unless they are empty because some reset is between its
deletes and its fill; which one, and how far it is, makes this inductive, since
whoever fills next finds them empty (`DifferencesAreMarked`). A change is marked from
its request's start to its end (`ChangesAreMarked`), so one that commits into a
marked demo leaves it marked, and a restore it overlaps says so. `OneRecord` is the
receipts of both demos. `AccountsSound`: of an address's codes all but one are used,
and one that opened the door is (`CodesFit`); who has an account is a member, or a
thread is about to make them one (`PeopleFit`), or was removed before the account was written; whoever lacks a grant
awaits it from some thread (`GrantsFit`). What a thread has still to do is part of the invariant,
since sign-up, membership and grants are transactions of their own.

`WorkspaceTyped` is the types of the five modules, one theorem each. A private
instance's rows (`RowsInv`, with `WholeInv`) need what requests carry: a create's key
and a token that was issued. That an idle deadline is never past the absolute one
is *not* inductive, and not true for every configuration (section 10). The shared
records (`SInv`): the lock of the idle restore is held by a thread whose work is that
restore, so no thread's end leaves it held by nobody at work (`WorkHolds`); a ticket's
number is one more than the greatest of a finite set (`NewIssueIsPositive`).
Accounts (`TriesFit`, `AllowanceFits`, `MembersFit`): addresses and roles a thread is
still to write are typed as the rows they come to.

**`ProductProofs`**. `RecordsSound`, for any readers, areas and books, where the books
alone fit, and grants that change at any moment, also between a request's reading of
them and its write: a record's contents only grow, so what was read is one of
them (`ReadIsPast`) and a version read after it is not earlier. An assistant's change
is not looked at where it lands; it stays in its workspace since the books it names
were seen there when it was proposed and the record is there when it is carried out
(`ProposalsAreSeen`, `MovedWithinWorkspace`), and in its reader's reach since the grant
is read again with it. `PinsFit`: what is read to be written
later - a binding, a pin - names a version that was published when it was read; no
transition leads back, and the owner of a definition is fixed with its first
version, so what could be run stays so (`RunnableStays`) and may be written whenever
(`AllRunnable`). A migration ends every conversation below its version, so an open
one that is older began after it (`SurvivorsAreNewer`). `RecordsTyped` and
`LifecycleTyped` are their types: what the assistant may still store has the shape of
what is stored (`RowsFit`), and a conversation is being opened or is open, never both
(`TalksApart`).

**`ConversationProofs`**. `LegacyContained`: what is proposed comes of the first rule
that fits, so what is known of a turn holds of each rule by itself (`FirstThatFacts`);
it fits the records the turn read, not those that changed since, and only a change
becomes a key (`Behaves`). The model is asked once (`Runs`). A turn about to store an
interest is the newest, or was overtaken since its check (`NotesInOrder`), which the
property counts as late. For the definition
engine, a result of routing never carries a confirmation of an older turn, and of
the changes the definition wants a yes for, none comes out without one (`Routed`);
a turn's answer leaves a question or a confirmation, never both, and a
confirmation only of what it shows (`Pending`, `Answering`). A create that lacks a
field is the exception (`ProposeCreateIs`), the one `ConfirmedFirst` names. That what
is shown is stored with its defaults filled in, and filling them in again changes
nothing (`DefaultsFacts`), is why a yes does what was shown. From it `RepliesSettled`,
and of `ChangesAreMeant` what is visible and confirmed (`DialogueInv`).

`ChangesMeant` is the rest of it: ticket, people and level of a change are those of
the request it serves. That is not inductive, since an answer completes what a
question holds, so `MeantInv` says the same of the pending question: its ticket was
named, open or asked about before, its person singled out, its level said, the list it offers
holds nobody twice and nobody rejected, and the text it keeps to read the answer
with was all said (`AskedFor`, `QuestionMeant`). It says so
only of a question of the turn before: an older one, which routing may leave in the
memory, is dropped before it can be answered (`NextTurnStarts`). Two lemmas carry the
proof. `RouteOrigin`: whatever is routed is the message's own (`OfMessage`), changes
nothing, or answers the question, and then it picks from the list, asks on, supplies
what is missing, or is what request and answer mean together (`Answers`).
`SaidWithGives`: what a turn adds to what was said. A list only shrinks, and keeps
nobody twice (`RemainingFacts`), so `Picked` finds whom an ordinal meant.
`FinishOf` and `ContinueCreateOf` follow the turn to its end, `ConsiderOf` a change of
the model's, which is wholly of the last message. `DialogueTyped` and `AgentTyped`
give `ConversationTyped`.

**`DataLemmas`** states induction over numbers and finite sets for *sets* instead of
predicates: the library's own theorems take an operator as a parameter, which no
installed prover can instantiate. That reaches folds - that a sum exists, may be
taken apart, and changes by what one element changes.

What stays with TLC. *Liveness and fairness* (`QueuedTurnsLeave`, `TrialsComeBack`,
`RequestsEnd`): the prover does not reason about `ENABLED`. *`RECURSIVE` operators*: no
module with a theorem reaches one. Every invariant and every action property the
passing runs check is a theorem.

## 12. Not modelled

- *Words.* How a text is normalised, matched, scored and answered (`normalizer.py`,
  `mentions.py`, `rules.py`, the wording in `composer.py`, prompts, traces): a
  message is what the rules find in it. What is decided from that is modelled.
- *The transcript and session summaries*: nothing but a greeting reads them.
- *HTTP plumbing*: routes that only read (catalogue, statistics, health), CORS,
  validation of bodies, the form of answers; cookies, the hashes of tokens and the
  ceiling on logins. Routes that change state are actions of the module whose state
  they change.
- *Definition texts*: schema, linting and the compilation of a definition
  (`contract.py`, `loader.py`, `vocabulary.py`, `copy_rules.py`, `drafting.py`) are functions of one text, without
  state; `DefinitionLifecycle` has what is registered, published and bound. Whether
  two versions are compatible is the `Shape` of their entities.
- *Retrieval and documents*: read-only input of the legacy engine.
- *Schema and operations* (`db.py`, `ops.py`): migrations and operator commands run
  offline, in sequence, on one connection. The triggers `db.py` installs are
  conjuncts of `TurnLedger`'s `Shape`.
- *Web and console clients*: single-threaded pages whose interleavings are those of
  callbacks. The server's modules admit any turn ID, any order and any repeat, so
  nothing said of the server rests on a client. A module of the voice engine and
  the turn counter would be the next to write; what was met while reading them is in
  section 10.
- *Several server processes.* The code keeps the shadow engine, the memory's cache,
  rate windows, cool-downs and the idle reset within one process, and the models
  do the same.
