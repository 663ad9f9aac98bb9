---------------------------- MODULE MCWorkspace ----------------------------
(***************************************************************************)
(* Instances of DemoInstances, SharedRecords, ProductRecords,              *)
(* DefinitionLifecycle and Accounts for TLC. They share no state: a        *)
(* behaviour runs one of them, and `part' says which. Two are run twice:   *)
(* in "products" the grants stay and in "grants" they change; "codes" is   *)
(* signing in and registering, "people" an organization's people while     *)
(* others register.                                                        *)
(***************************************************************************)
EXTENDS DemoInstances, SharedRecords, ProductRecords, DefinitionLifecycle, Accounts, TLC

VARIABLE part
others == <<instanceVars, sharedVars, productVars, lifecycleVars, accountVars>>

OneTicket == {Scope, <<"issues", 1>>}
TwoShapes == <<1, 2>>
Member == [admin |-> FALSE, areas |-> {"x"}]

(* At most one organization, team or product is switched off at a time, while nobody publishes   *)
(* or binds and once there is a conversation.                                                   *)
Off ==
    {<<t>> : t \in {o \in Tenants : orgs[o] # "active"}}
    \cup {x \in Tenants \X Teams : teams[x[1]][x[2]] # "active"}
    \cup {<<t, "product">> : t \in {o \in DOMAIN bindings : bindings[o].state # "active"}}

(* A person of the product uses a form or the assistant, one at a time, and one the assistant.   *)
(* They have one request in hand between them.                                                   *)
OneWay ==
    /\ Cardinality({w \in Readers : proposal'[w] # <<>>}) <= 1
    /\ \A w \in Readers :
          /\ proposal'[w] = <<>> \/ (reading'[w] = Blank /\ form'[w] = Blank /\ granted'[w] = NoGrant)
    /\ Cardinality({w \in Readers : granted'[w] # NoGrant}) <= 1

(* Grants change, of one person at a time, while nobody else is at work and no keeper is changed *)
(* more than once. A grant is for everything or for some areas.                                  *)
OneGrant ==
    /\ Cardinality({w \in Readers : reach'[w] # Member \/ granted'[w] # NoGrant \/ proposal'[w] # <<>>
                                        \/ reading'[w] # Blank \/ form'[w] # Blank}) <= 1
    /\ \A w \in Readers : reach'[w].admin => reach'[w].areas = {}
    /\ \A k \in DOMAIN keepers' : Len(keepers'[k]) <= 2

CodesOnly ==
    /\ changes' = 0 /\ bound' = <<>>
    /\ \A r \in Threads : doing'[r].does # "add"
PeopleOnly ==
    /\ challenges' = <<>>
    /\ users' = MaxUsers => changes' = 0

MCInit ==
    /\ part \in {"instances", "shared", "products", "grants", "definitions", "codes", "people"}
    /\ InstanceInit /\ SharedInit /\ ProductRecordsInit /\ LifecycleInit /\ AccountsInit
    /\ part # "definitions" => ~shipped /\ recordShape = 1
    /\ anchored \in {[b \in Books |-> {}], <<{"x"}, {"y"}>>}
    /\ \A w \in Readers : reach[w].admin # (reach[w].areas # {})
    /\ anchored[1] = {} \/ part = "grants" => reach = [w \in Readers |-> Member]
    /\ part \notin {"products", "grants"} => anchored[1] = {}
    /\ part # "codes" => openMode /\ ~selfSignUp

MCNext ==
    /\ UNCHANGED part
    /\ \/ part = "instances" /\ InstanceNext /\ UNCHANGED <<sharedVars, productVars, lifecycleVars, accountVars>>
       \/ part = "shared" /\ SharedNext /\ UNCHANGED <<instanceVars, productVars, lifecycleVars, accountVars>>
       \/ /\ part \in {"products", "grants"} /\ ProductRecordsNext /\ OneWay
          /\ IF part = "products" THEN UNCHANGED reach ELSE OneGrant
          /\ UNCHANGED <<instanceVars, sharedVars, lifecycleVars, accountVars>>
       \/ /\ part = "definitions" /\ LifecycleNext /\ Cardinality(Off') <= 1
          /\ Off' # {} => pinned' # <<>> /\ \A p \in Operators : jobs'[p] = NoJob
          /\ UNCHANGED <<instanceVars, sharedVars, productVars, accountVars>>
       \/ part = "codes" /\ AccountsNext /\ CodesOnly /\ UNCHANGED <<instanceVars, sharedVars, productVars, lifecycleVars>>
       \/ part = "people" /\ AccountsNext /\ PeopleOnly /\ UNCHANGED <<instanceVars, sharedVars, productVars, lifecycleVars>>

MCSpec == MCInit /\ [][MCNext]_<<others, part>>

(* The shared records alone, for the run that shows what a reset that is not atomic costs. *)
SharedOnly == MCInit /\ part = "shared" /\ [][MCNext]_<<others, part>>

(* A product's records alone, for the run that shows what a screen read in two steps costs. *)
ProductsOnly == MCInit /\ part = "products" /\ [][MCNext]_<<others, part>>

(* The parts are given the same model values, so one group of permutations serves all. *)
Symmetry == Permutations(Threads) \cup Permutations(Emails)

(* The type invariants of the five modules. *)
TypeOK == InstanceTypeOK /\ SharedTypeOK /\ ProductRecordsTypeOK /\ LifecycleTypeOK /\ AccountsTypeOK

(* A create retried under its key makes one record, in a private instance and in the shared demo *)
(* (product_data_store.py, _private_create_record and _create_record).                           *)
OneRecordPerKey == PrivateKeyMeansOneRecord /\ SharedKeyMeansOneRecord
=============================================================================
