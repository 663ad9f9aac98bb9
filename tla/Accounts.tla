------------------------------- MODULE Accounts -------------------------------
(***************************************************************************)
(* How people come to be in Pixel: one-time codes and sign-up              *)
(* (account_api.py), the people of an organization (organization_api.py)   *)
(* and their grants on its products' records (record_access.py).           *)
(*                                                                         *)
(* A step of a request is one transaction. Requests run in threads, so two *)
(* of them interleave between transactions, and a restart may come between *)
(* any two. User and organization identifiers are fresh; the organization  *)
(* a registration opens has its founder's number, and House is one that    *)
(* exists already, with an administrator.                                  *)
(***************************************************************************)
EXTENDS Integers, Sequences, FiniteSets

CONSTANTS
    Threads, Emails, Products,
    CodesPerHour,   \* ADDRESS_CODES_PER_HOUR
    Tries,          \* attempts a challenge allows (5)
    MaxChallenges, MaxUsers, MaxChanges   \* bounds

ASSUME AccountsAssumption ==
    /\ CodesPerHour \in Nat \ {0} /\ Tries \in Nat \ {0}
    /\ MaxChallenges \in Nat /\ MaxUsers \in Nat \ {0} /\ MaxChanges \in Nat

VARIABLES
    selfSignUp,   \* PIXEL_SELF_SIGNUP_ENABLED
    openMode,     \* PIXEL_OPEN_SIGN_IN: an address is enough
    challenges,   \* email_challenges, in the order they were made
    allowance,    \* email_login_limits: codes an address asked for in this hour
    accounts,     \* email_accounts: address -> user and organization
    members,      \* memberships: user -> organization and role
    users,        \* the last user number given out
    bound,        \* the products House runs -> the user who added each, until their role is changed
    grants,       \* record_grants on them: <<user, product>> -> "admin" or "main"
    doing,        \* what each thread has still to do
    changes,      \* history: role changes so far
    stale,        \* history: users given a grant for a role they do not have
    cut,          \* history: users whose addition or change did not run to its end
    removed       \* history: users who were removed before their account was written
signIn == <<selfSignUp, openMode, challenges, allowance>>
people == <<accounts, members, users>>
access == <<bound, grants, stale>>
fates == <<changes, cut, removed>>
accountVars == <<signIn, people, access, fates, doing>>

House == 1
Boss == 1
NoOne == 0
Idle == [does |-> "nothing"]
(* team_admin and team_member differ only in who may add a product: a team's admin may. *)
Roles == {"org_admin", "team_role"}
Reach(role) == IF role = "org_admin" THEN "admin" ELSE "main"
Entered(f, x, y) == [z \in DOMAIN f \cup {x} |-> IF z = x THEN y ELSE f[z]]
Only(f, S) == [z \in DOMAIN f \cap S |-> f[z]]
InHouse == {u \in DOMAIN members : members[u].org = House}
Admins == {u \in InHouse : members[u].role = "org_admin"}

AccountsInit ==
    /\ selfSignUp \in BOOLEAN /\ openMode \in BOOLEAN
    /\ challenges = <<>> /\ allowance = [e \in Emails |-> 0]
    /\ accounts = <<>> /\ users = Boss
    /\ members = [u \in {Boss} |-> [org |-> House, role |-> "org_admin"]]
    /\ bound = <<>> /\ grants = <<>>
    /\ doing = [r \in Threads |-> Idle]
    /\ changes = 0 /\ stale = {} /\ cut = {} /\ removed = {}

Now(r, job) == doing' = [doing EXCEPT ![r] = job]
Starts(r, job) == doing[r] = Idle /\ Now(r, job)
Does(r, what) == doing[r].does = what
Ends(r) == Now(r, Idle)

-----------------------------------------------------------------------------
(* Signing in. *)

Used(c) == [c EXCEPT !.used = TRUE]

(* request_code's transaction: the newest challenge of an address is the only live one. *)
RequestCode(r, e) ==
    /\ allowance[e] < CodesPerHour /\ Len(challenges) < MaxChallenges
    /\ allowance' = [allowance EXCEPT ![e] = @ + 1]
    /\ challenges' = Append(
          [i \in DOMAIN challenges |-> IF challenges[i].email = e THEN Used(challenges[i]) ELSE challenges[i]],
          [email |-> e, used |-> FALSE, old |-> FALSE, tries |-> 0, opened |-> 0])
    /\ Starts(r, [does |-> "send", challenge |-> Len(challenges) + 1])
    /\ UNCHANGED <<selfSignUp, openMode, people, access, fates>>

CodeSent(r) ==
    /\ Does(r, "send") /\ Ends(r)
    /\ UNCHANGED <<signIn, people, access, fates>>

(* The mail server refused, or did not answer: the challenge is closed and the allowance given back. *)
CodeNotSent(r) ==
    LET c == doing[r].challenge
        e == challenges[c].email
    IN /\ Does(r, "send") /\ Ends(r)
       /\ challenges' = [challenges EXCEPT ![c] = Used(@)]
       /\ allowance' = [allowance EXCEPT ![e] = IF @ = 0 THEN 0 ELSE @ - 1]
       /\ UNCHANGED <<selfSignUp, openMode, people, access, fates>>

Opens(c) == ~challenges[c].used /\ ~challenges[c].old /\ challenges[c].tries < Tries

(* What follows a proved address: its account and a session, a new account, or a refusal. *)
Welcome(e, mayRegister) ==
    IF e \notin DOMAIN accounts /\ mayRegister THEN [does |-> "register", email |-> e] ELSE Idle

(* verify_code's transaction. A mail that was reported as failed may have arrived, so any code may be known. *)
VerifyCode(r, c) ==
    /\ Opens(c)
    /\ challenges' = [challenges EXCEPT ![c].used = TRUE, ![c].tries = @ + 1, ![c].opened = @ + 1]
    /\ Starts(r, Welcome(challenges[c].email, selfSignUp))
    /\ UNCHANGED <<selfSignUp, openMode, allowance, people, access, fates>>

VerifyWrongCode(c) ==
    /\ Opens(c)
    /\ challenges' = [challenges EXCEPT ![c].tries = @ + 1]
    /\ UNCHANGED <<selfSignUp, openMode, allowance, people, access, fates, doing>>

(* Ten minutes pass over a challenge; an hour passes over an address's codes. *)
Expire(c) ==
    /\ ~challenges[c].old
    /\ challenges' = [challenges EXCEPT ![c].old = TRUE]
    /\ UNCHANGED <<selfSignUp, openMode, allowance, people, access, fates, doing>>
HourPasses(e) ==
    /\ allowance[e] > 0
    /\ allowance' = [allowance EXCEPT ![e] = 0]
    /\ UNCHANGED <<selfSignUp, openMode, challenges, people, access, fates, doing>>

(* open_sign_in of a known address, open_sign_up of another. *)
OpenSign(r, e) ==
    /\ openMode
    /\ Starts(r, Welcome(e, TRUE))
    /\ UNCHANGED <<signIn, people, access, fates>>

(* _register: the organization, its team and its first member, under identifiers nobody else has. *)
Found(r) ==
    LET u == users + 1
    IN /\ Does(r, "register") /\ users < MaxUsers
       /\ users' = u
       /\ members' = Entered(members, u, [org |-> u, role |-> "org_admin"])
       /\ Now(r, [does |-> "account", email |-> doing[r].email, user |-> u, org |-> u, role |-> "org_admin"])
       /\ UNCHANGED <<signIn, accounts, access, fates>>

(* The insert into email_accounts, whose key is the address: for _register, then for add_person. *)
InsertAccount(r) ==
    LET job == doing[r]
    IN /\ Does(r, "account") /\ job.email \notin DOMAIN accounts
       /\ accounts' = Entered(accounts, job.email, [user |-> job.user, org |-> job.org])
       /\ Now(r, IF job.org # House THEN Idle
                 ELSE [does |-> "products", user |-> job.user, role |-> job.role])
       /\ UNCHANGED <<signIn, members, users, access, fates>>

AddressTaken(r) ==
    /\ Does(r, "account") /\ doing[r].email \in DOMAIN accounts
    /\ cut' = cut \cup {doing[r].user}
    /\ Ends(r)
    /\ UNCHANGED <<signIn, people, access, changes, removed>>

-----------------------------------------------------------------------------
(* The people of House, managed by its administrators. *)

(* add_person: an address that has an account is refused; then the member, the account, the grants. *)
AddPerson(r, e, role) ==
    /\ Admins # {} /\ e \notin DOMAIN accounts
    /\ Starts(r, [does |-> "add", email |-> e, role |-> role])
    /\ UNCHANGED <<signIn, people, access, fates>>
AddMember(r) ==
    LET u == users + 1
    IN /\ Does(r, "add") /\ users < MaxUsers
       /\ users' = u
       /\ members' = Entered(members, u, [org |-> House, role |-> doing[r].role])
       /\ Now(r, [does |-> "account", email |-> doing[r].email, user |-> u, org |-> House,
                  role |-> doing[r].role])
       /\ UNCHANGED <<signIn, accounts, access, fates>>

(* change_person, by another administrator: the role, then their grants set again for it. *)
ChangePerson(r, u, role) ==
    /\ u \in InHouse /\ Admins \ {u} # {} /\ changes < MaxChanges
    /\ changes' = changes + 1
    /\ Starts(r, [does |-> "change", user |-> u, role |-> role])
    /\ UNCHANGED <<signIn, people, access, cut, removed>>
SetRole(r) ==
    LET job == doing[r]
    IN /\ Does(r, "change")
       /\ IF job.user \in DOMAIN members
          THEN /\ members' = Entered(members, job.user, [org |-> House, role |-> job.role])
               /\ Now(r, [job EXCEPT !.does = "clear"])
          ELSE Ends(r) /\ UNCHANGED members
       /\ UNCHANGED <<signIn, accounts, users, access, fates>>

KeepGrants(u) == UNCHANGED access
DropGrants(u) ==
    /\ grants' = Only(grants, {g \in DOMAIN grants : g[1] # u})
    /\ bound' = [p \in DOMAIN bound |-> IF bound[p] = u THEN NoOne ELSE bound[p]]
    /\ stale' = stale \ {u}
ClearGrants(r) ==
    /\ Does(r, "clear") /\ Now(r, [doing[r] EXCEPT !.does = "products"])
    /\ DropGrants(doing[r].user)
    /\ UNCHANGED <<signIn, people, fates>>

(* grant_products_to: the products as they are now, then one transaction a grant. *)
Granting(gs) == IF gs = {} THEN Idle ELSE [does |-> "grant", rest |-> gs]
ReadProducts(r) ==
    /\ Does(r, "products")
    /\ Now(r, Granting({[user |-> doing[r].user, product |-> p, role |-> doing[r].role] : p \in DOMAIN bound}))
    /\ UNCHANGED <<signIn, people, access, fates>>

(* add_product: the product, its maker's grant, then everyone's, as members are read. *)
AddProduct(r, p, u) ==
    /\ u \in InHouse /\ p \notin DOMAIN bound
    /\ bound' = Entered(bound, p, u)
    /\ Starts(r, [does |-> "maker", product |-> p, user |-> u])
    /\ UNCHANGED <<signIn, people, grants, stale, fates>>

(* grant_records: insert or ignore. A grant is stale when its role is no longer the user's. *)
Granted(u, p, reach) ==
    IF <<u, p>> \in DOMAIN grants THEN UNCHANGED <<grants, stale>>
    ELSE /\ grants' = Entered(grants, <<u, p>>, reach)
         /\ stale' = IF u \in InHouse /\ (reach = Reach(members[u].role) \/ bound[p] = u) THEN stale
                     ELSE stale \cup {u}
GrantMaker(r) ==
    /\ Does(r, "maker") /\ Now(r, [does |-> "everyone", product |-> doing[r].product])
    /\ Granted(doing[r].user, doing[r].product, "admin")
    /\ UNCHANGED <<signIn, people, bound, fates>>
ReadMembers(r) ==
    /\ Does(r, "everyone")
    /\ Now(r, Granting({[user |-> u, product |-> doing[r].product, role |-> members[u].role] : u \in InHouse}))
    /\ UNCHANGED <<signIn, people, access, fates>>
Grant(r) ==
    /\ Does(r, "grant")
    /\ \E g \in doing[r].rest :
          /\ Granted(g.user, g.product, Reach(g.role))
          /\ Now(r, Granting(doing[r].rest \ {g}))
    /\ UNCHANGED <<signIn, people, bound, fates>>

(* remove_person, by another administrator: one transaction ends their grants, membership and     *)
(* account, after the administrator and the member were read.                                     *)
RemovePerson(r, u) ==
    /\ u \in InHouse /\ Admins \ {u} # {}
    /\ Starts(r, [does |-> "remove", user |-> u])
    /\ UNCHANGED <<signIn, people, access, fates>>
DeletePerson(r) ==
    LET u == doing[r].user
    IN /\ Does(r, "remove") /\ Ends(r)
       /\ grants' = Only(grants, {g \in DOMAIN grants : g[1] # u})
       /\ members' = Only(members, DOMAIN members \ {u})
       /\ accounts' = Only(accounts, {e \in DOMAIN accounts : accounts[e].user # u})
       /\ removed' = IF \E t \in Threads : Does(t, "account") /\ doing[t].user = u THEN removed \cup {u} ELSE removed
       /\ UNCHANGED <<signIn, users, bound, stale, changes, cut>>

Unfinished(job) ==
    CASE job.does \in {"account", "change", "clear", "products"} -> {job.user}
      [] job.does = "grant" -> {g.user : g \in job.rest}
      [] job.does \in {"maker", "everyone"} -> InHouse
      [] OTHER -> {}
ServerStops ==
    /\ doing' = [r \in Threads |-> Idle]
    /\ cut' = cut \cup UNION {Unfinished(doing[r]) : r \in Threads}
    /\ UNCHANGED <<signIn, people, access, changes, removed>>

AccountsNext ==
    \/ \E r \in Threads :
          \/ \E e \in Emails :
                \/ RequestCode(r, e) \/ OpenSign(r, e)
                \/ \E role \in Roles : AddPerson(r, e, role)
          \/ \E c \in DOMAIN challenges : VerifyCode(r, c)
          \/ CodeSent(r) \/ CodeNotSent(r)
          \/ Found(r) \/ InsertAccount(r) \/ AddressTaken(r)
          \/ AddMember(r) \/ SetRole(r) \/ ClearGrants(r) \/ ReadProducts(r)
          \/ DeletePerson(r) \/ GrantMaker(r) \/ ReadMembers(r) \/ Grant(r)
          \/ \E u \in DOMAIN members :
                \/ RemovePerson(r, u)
                \/ \E role \in Roles : ChangePerson(r, u, role)
                \/ \E p \in Products : AddProduct(r, p, u)
    \/ \E c \in DOMAIN challenges : VerifyWrongCode(c) \/ Expire(c)
    \/ \E e \in Emails : HourPasses(e)
    \/ ServerStops

AccountsSpec == AccountsInit /\ [][AccountsNext]_accountVars

-----------------------------------------------------------------------------

(* The rows hold what their columns allow. *)
AccountsTypeOK ==
    /\ DOMAIN accounts \subseteq Emails /\ DOMAIN members \subseteq 1..users /\ users <= MaxUsers
    /\ \A u \in DOMAIN members : members[u].org \in 1..users /\ members[u].role \in Roles
    /\ allowance \in [Emails -> 0..CodesPerHour]
    /\ DOMAIN bound \subseteq Products /\ DOMAIN grants \subseteq (1..users) \X DOMAIN bound
    /\ \A c \in DOMAIN challenges : challenges[c].tries \in 0..Tries

(* An address has one live code at most, and a code opens the door once (request_code,            *)
(* verify_code): not after a newer one, not after its mail was reported as failed.                *)
CodesOpenOnce ==
    /\ \A c \in DOMAIN challenges : challenges[c].opened <= 1
    /\ \A c, d \in DOMAIN challenges :
          c # d /\ challenges[c].email = challenges[d].email => challenges[c].used \/ challenges[d].used

(* "A person belongs to exactly one organization" (organization_api.py): an account is the only   *)
(* one of its user, who is a member of its organization. An administrator who removes a person    *)
(* between add_person's transactions leaves the account without its membership.                   *)
AccountsHaveMembers ==
    /\ \A e \in DOMAIN accounts :
          LET a == accounts[e]
          IN a.user \in removed \/ (a.user \in DOMAIN members /\ members[a.user].org = a.org)
    /\ \A d, e \in DOMAIN accounts : accounts[d].user = accounts[e].user => d = e

(* When nobody is being added, changed or given a product, each member of House has a grant on    *)
(* each product and it fits their role, unless their addition or change did not run to its end,   *)
(* they made the product, or a request wrote a grant for a role that was changed meanwhile.        *)
GrantsFitRoles ==
    (\A r \in Threads : Unfinished(doing[r]) = {})
        => /\ \A u \in InHouse \ cut, p \in DOMAIN bound :
                 /\ <<u, p>> \in DOMAIN grants
                 /\ \/ grants[<<u, p>>] = Reach(members[u].role)
                    \/ u \in stale \/ bound[p] = u
           /\ \A g \in DOMAIN grants : g[1] \in InHouse \cup stale

AccountsAreSound == CodesOpenOnce /\ AccountsHaveMembers /\ GrantsFitRoles
=============================================================================
