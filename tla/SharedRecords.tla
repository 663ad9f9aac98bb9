---------------------------- MODULE SharedRecords ----------------------------
(***************************************************************************)
(* The demo records every member shares (services/product_data_store.py)   *)
(* and the restore that follows an idle demo (services/demo_refresh.py),   *)
(* under the routes of main.py that use them.                              *)
(*                                                                         *)
(* A reset is not one transaction: sqlite3's executescript commits each of *)
(* its deletes, and only then are the seed rows inserted, in a transaction *)
(* of their own. Any request that meets the tables empty resets them too.  *)
(* Three commits of the six deletes are told apart: the records, what they *)
(* refer to (projects, members, scopes) and the retry receipts.            *)
(***************************************************************************)
EXTENDS Integers, FiniteSets, FiniteSetsExt, Functions

CONSTANTS
    Workers,       \* request threads
    RequestKeys,   \* idempotency keys, shared by every caller
    Bodies,        \* what a create asks for
    SeedIssues,    \* numbers of the seeded tickets
    IdleTicks,     \* PIXEL_DEMO_IDLE_RESET_MINUTES
    MaxIssue       \* bound: the highest number the model lets a create use

ASSUME SharedAssumption ==
    /\ SeedIssues \subseteq Nat /\ IsFiniteSet(SeedIssues)
    /\ IdleTicks \in Nat \ {0} /\ MaxIssue \in Nat

VARIABLES
    issues,        \* number of a ticket -> "seed" or "changed"
    based,         \* projects, members and scopes are there
    receipts,      \* mutation_receipts: key -> the body and the number answered
    changed,       \* IdleDemoReset._changed
    quiet,         \* ticks since _last_activity, up to IdleTicks
    holder,        \* who holds IdleDemoReset._lock through a restore
    work,          \* what each thread is doing
    answered,      \* history: creates answered under a key since receipts were deleted
    overtaken      \* history: the last restore ended while a change was under way
sharedVars == <<issues, based, receipts, changed, quiet, holder, work, answered, overtaken>>

Resting == [does |-> "nothing", stage |-> "none"]
Wiping == {"wipe records", "wipe base", "wipe receipts", "fill"}
AllSeed == [n \in SeedIssues |-> "seed"]
Nobody == "nobody"

SharedInit ==
    /\ issues = AllSeed /\ based = TRUE /\ receipts = <<>>
    /\ changed = TRUE /\ quiet = 0 /\ holder = Nobody
    /\ work = [w \in Workers |-> Resting]
    /\ answered = {} /\ overtaken = FALSE

To(w, stage) == work' = [work EXCEPT ![w].stage = stage]
End(w) == work' = [work EXCEPT ![w] = Resting]
Begins(w, job) == work[w] = Resting /\ work' = [work EXCEPT ![w] = job]

ChangesForgotten(job) == job.does = "create"
Changes(job) == job.does \in {"create", "update"}

(* The routes of the shared records: touched() under the lock, marking the demo changed before  *)
(* a write, then the first look at the tables.                                                  *)
Request(w) ==
    /\ holder = Nobody
    /\ \E job \in {[does |-> "read", stage |-> "check"]} \cup
                  {[does |-> "update", stage |-> "check", issue |-> n] : n \in DOMAIN issues} \cup
                  {[does |-> "create", stage |-> "check", key |-> k, body |-> b] :
                      k \in RequestKeys, b \in Bodies} :
          /\ Begins(w, job)
          /\ changed' = (changed \/ Changes(job))
          /\ overtaken' = (overtaken /\ ~Changes(job))
    /\ quiet' = 0
    /\ UNCHANGED <<issues, based, receipts, holder, answered>>

(* A turn reads the records without touching the idle restore. *)
TurnReads(w) ==
    /\ Begins(w, [does |-> "turn", stage |-> "check"])
    /\ UNCHANGED <<issues, based, receipts, changed, quiet, holder, answered, overtaken>>

(* reset_demo_data, for an administrator. *)
AdministratorResets(w) ==
    /\ Begins(w, [does |-> "reset", stage |-> "wipe records"])
    /\ UNCHANGED <<issues, based, receipts, changed, quiet, holder, answered, overtaken>>

(* demo_login: before_sign_in restores under the lock when the demo was changed and left idle. *)
SignInRestores(w) ==
    /\ holder = Nobody
    /\ changed /\ quiet = IdleTicks
    /\ Begins(w, [does |-> "sign in", stage |-> "wipe records"])
    /\ holder' = w
    /\ UNCHANGED <<issues, based, receipts, changed, quiet, answered, overtaken>>

SignIn(w) ==
    /\ holder = Nobody /\ work[w] = Resting
    /\ ~(changed /\ quiet = IdleTicks)
    /\ quiet' = 0
    /\ UNCHANGED <<issues, based, receipts, changed, holder, work, answered, overtaken>>

(* seed_if_empty: every use of the shared tables looks for a project, and resets them if there is none. *)
Check(w) ==
    /\ work[w].stage = "check"
    /\ To(w, IF based THEN "work" ELSE "wipe records")
    /\ UNCHANGED <<issues, based, receipts, changed, quiet, holder, answered, overtaken>>

WipeRecords(w) ==
    /\ work[w].stage = "wipe records"
    /\ issues' = <<>>
    /\ To(w, "wipe base")
    /\ UNCHANGED <<based, receipts, changed, quiet, holder, answered, overtaken>>

WipeBase(w) ==
    /\ work[w].stage = "wipe base"
    /\ based' = FALSE
    /\ To(w, "wipe receipts")
    /\ UNCHANGED <<issues, receipts, changed, quiet, holder, answered, overtaken>>

WipeReceipts(w) ==
    /\ work[w].stage = "wipe receipts"
    /\ receipts' = <<>> /\ answered' = {}
    /\ To(w, "fill")
    /\ UNCHANGED <<issues, based, changed, quiet, holder, overtaken>>

(* The seed is inserted in one transaction, and read back: load looks for a project again. *)
Fill(w) ==
    /\ work[w].stage = "fill" /\ ~based
    /\ issues' = [n \in SeedIssues \cup DOMAIN issues |-> IF n \in SeedIssues THEN AllSeed[n] ELSE issues[n]]
    /\ based' = TRUE
    /\ To(w, "check")
    /\ UNCHANGED <<receipts, changed, quiet, holder, answered, overtaken>>

(* Another reset filled the tables first: the scopes' keys are taken, and this request fails. *)
FillFails(w) ==
    /\ work[w].stage = "fill" /\ based
    /\ End(w)
    /\ holder' = IF holder = w THEN Nobody ELSE holder
    /\ UNCHANGED <<issues, based, receipts, changed, quiet, answered, overtaken>>

Restored(w) ==
    overtaken' = (\/ issues # AllSeed \/ ~based
                  \/ \E u \in Workers \ {w} : Changes(work[u]) \/ work[u].stage \in Wiping)

(* restored(), after an administrator's reset and with no hold on the tables; and the end of    *)
(* before_sign_in, which still has its lock.                                                    *)
EndRestore(w) ==
    /\ work[w].stage = "work"
    /\ \/ work[w].does = "reset" /\ holder = Nobody
       \/ work[w].does = "sign in"
    /\ changed' = FALSE /\ quiet' = 0 /\ holder' = Nobody
    /\ Restored(w)
    /\ End(w)
    /\ UNCHANGED <<issues, based, receipts, answered>>

ReadAll(w) ==
    /\ work[w].stage = "work" /\ work[w].does \in {"read", "turn"}
    /\ End(w)
    /\ UNCHANGED <<issues, based, receipts, changed, quiet, holder, answered, overtaken>>

NewIssue == Max({0} \cup DOMAIN issues) + 1

(* _create_record with a new key: the ticket and its receipt in one write transaction. *)
CreateIssue(w) ==
    LET job == work[w]
    IN /\ job.stage = "work" /\ job.does = "create"
       /\ job.key \notin DOMAIN receipts
       /\ based /\ NewIssue <= MaxIssue
       /\ issues' = [n \in DOMAIN issues \cup {NewIssue} |-> IF n = NewIssue THEN "changed" ELSE issues[n]]
       /\ receipts' = [k \in DOMAIN receipts \cup {job.key} |->
                         IF k = job.key THEN [body |-> job.body, issue |-> NewIssue] ELSE receipts[k]]
       /\ answered' = answered \cup {[key |-> job.key, body |-> job.body, issue |-> NewIssue]}
       /\ End(w)
       /\ UNCHANGED <<based, changed, quiet, holder, overtaken>>

SameChangeByKey(job) == job.key \in DOMAIN receipts
SameChange(job) == job.key \in DOMAIN receipts /\ receipts[job.key].body = job.body

(* The key has a receipt: the same change gets the answer it got. *)
RepeatIssue(w) ==
    /\ work[w].stage = "work" /\ work[w].does = "create" /\ SameChange(work[w])
    /\ answered' = answered \cup {[key |-> work[w].key, body |-> work[w].body,
                                   issue |-> receipts[work[w].key].issue]}
    /\ End(w)
    /\ UNCHANGED <<issues, based, receipts, changed, quiet, holder, overtaken>>

(* update_issue: the ticket as it is now is replaced; the shared tables keep no revision. Only a *)
(* ticket that names a project or a person needs them to be there.                               *)
UpdateIssue(w) ==
    /\ work[w].stage = "work" /\ work[w].does = "update"
    /\ work[w].issue \in DOMAIN issues
    /\ issues' = [issues EXCEPT ![work[w].issue] = "changed"]
    /\ End(w)
    /\ UNCHANGED <<based, receipts, changed, quiet, holder, answered, overtaken>>

(* A ticket that is gone, a key used for another change, a project or member that is not there. *)
RefuseWork(w) ==
    /\ work[w].stage = "work"
    /\ \/ work[w].does = "update" /\ (work[w].issue \notin DOMAIN issues \/ ~based)
       \/ work[w].does = "create" /\ work[w].key \in DOMAIN receipts /\ ~SameChange(work[w])
       \/ work[w].does = "create" /\ work[w].key \notin DOMAIN receipts /\ ~based
    /\ End(w)
    /\ UNCHANGED <<issues, based, receipts, changed, quiet, holder, answered, overtaken>>

(* The process restarts: what was committed stays, and startup seeds empty tables. *)
ServerRestarts ==
    /\ issues' = IF based THEN issues ELSE AllSeed
    /\ receipts' = IF based THEN receipts ELSE <<>>
    /\ answered' = IF based THEN answered ELSE {}
    /\ based' = TRUE /\ changed' = TRUE /\ quiet' = 0 /\ holder' = Nobody
    /\ work' = [w \in Workers |-> Resting]
    /\ overtaken' = FALSE

TimePasses ==
    /\ quiet < IdleTicks
    /\ quiet' = quiet + 1
    /\ UNCHANGED <<issues, based, receipts, changed, holder, work, answered, overtaken>>

SharedNext ==
    \/ \E w \in Workers :
          \/ Request(w) \/ TurnReads(w) \/ AdministratorResets(w) \/ SignInRestores(w) \/ SignIn(w)
          \/ Check(w)
          \/ WipeRecords(w) \/ WipeBase(w) \/ WipeReceipts(w) \/ Fill(w) \/ FillFails(w) \/ EndRestore(w)
          \/ ReadAll(w) \/ CreateIssue(w) \/ RepeatIssue(w) \/ UpdateIssue(w) \/ RefuseWork(w)
    \/ ServerRestarts
    \/ TimePasses

SharedSpec == SharedInit /\ [][SharedNext]_sharedVars

-----------------------------------------------------------------------------

(* The tables and the restore's fields hold what their types say. *)
SharedTypeOK ==
    /\ DOMAIN issues \subseteq SeedIssues \cup 1..MaxIssue
    /\ \A n \in DOMAIN issues : issues[n] \in {"seed", "changed"}
    /\ {based, changed, overtaken} \subseteq BOOLEAN
    /\ DOMAIN receipts \subseteq RequestKeys
    /\ quiet \in 0..IdleTicks
    /\ holder # Nobody => work[holder].does = "sign in"
    /\ \A w \in Workers : work[w].stage \in Wiping \cup {"none", "check", "work"}

(* Between two resets, every answer given under one key is the same ticket for the same change. *)
SharedKeyMeansOneRecord ==
    \A a, b \in answered : a.key = b.key => a = b

(* While nothing is being restored, shared records that differ from the seed are marked changed, *)
(* so the next idle demo is restored. The one way out is a restore that ended while a change     *)
(* was under way: restored() forgets a change made since the reset it follows.                   *)
EditsAreNoticed ==
    (/\ \A w \in Workers : work[w].stage \notin Wiping
     /\ issues # AllSeed)
        => changed \/ overtaken

(* Only an administrator's reset or an idle restore removes records: no request that reads or    *)
(* writes records does (lifespan: "Demo records are created once, at startup, and never by a     *)
(* request").                                                                                    *)
OnlyRestoresRemove ==
    [][\A w \in Workers :
          work[w].stage = "wipe records" /\ work'[w].stage = "wipe base"
              => work[w].does \in {"reset", "sign in"}]_sharedVars
=============================================================================
