---------------------------- MODULE LegacyAgent ----------------------------
(***************************************************************************)
(* How the legacy engine decides a turn and what one session's turns leave *)
(* behind: services/agent.py with its planner, validator, intent rules and *)
(* model, and services/legacy_adapter.py.  A message is the rules it       *)
(* matches and whom it names.  Who may start a turn, and the life of the   *)
(* keys, are TurnLedger's; the model's budget is ProviderUsage's.          *)
(***************************************************************************)
EXTENDS Naturals, FiniteSets, SequencesExt

CONSTANTS
    Askers,       \* requests served at once
    IssueList,    \* the tickets there may be, in the order they are listed
    Members,      \* whom a message may name
    NoOne,
    Remarks,      \* what is said: see Remark
    LastTurn      \* bound: the turns of the session

Issues == Range(IssueList)

ASSUME LegacyAgentAssumption ==
    /\ IsInjective(IssueList) /\ LastTurn \in Nat /\ Members # {}
    /\ NoOne \notin Issues \cup Members /\ Issues \cap Members = {}
    /\ IssueList \in Seq(Issues) /\ \A m \in Remarks : m.whose \subseteq m.names

VARIABLES
    stored,      \* the workspace's records: each ticket's owner, and who works there
    newestTurn,  \* sessions.latest_turn_id
    activeTurn,  \* sessions.active_turn_id, 0 for null
    interest,    \* the newest feature_interest signal: what, and whose
    interests,   \* visitor_context.features_interested_in
    work,        \* each asker's turn
    noted,       \* for the properties: the turns which stored such a signal
    late         \* for the properties: those overtaken between their check and their note
agentVars == <<stored, newestTurn, activeTurn, interest, interests, work, noted, late>>

(* What the rules find in a message: `issue' is an identifier in it, `names' whoever's name      *)
(* occurs anywhere, `whose' the person of "...'s ticket", `to' the person after "to" or "for",   *)
(* `plain' whether that reads "assign it to", "owner is" or the like, `level' a priority or a    *)
(* status, `feature' what it is about.  `cues' holds the rules it matches.                       *)
Remark ==
    [cues |-> {}, issue |-> NoOne, names |-> {}, whose |-> {}, to |-> NoOne, plain |-> FALSE,
     level |-> FALSE, feature |-> NoOne]

(* What a message is about; talk of the voice itself comes before any feature. *)
About(m) == IF "voice" \in m.cues THEN "voice" ELSE m.feature

(* An action: what the engine proposes and, once it is valid, answers with. *)
Act(does, issue, person, level) == [does |-> does, issue |-> issue, person |-> person, level |-> level]
NoAct == Act("nothing", NoOne, NoOne, FALSE)
Show(view) == Act(view, NoOne, NoOne, FALSE)
Keyed == {"update", "create"}

(* -------------------- The records the turn was given -------------------- *)

Here(seen, i) == i \in Issues /\ seen.owner[i] # NoOne
(* Where people's tickets are in the list: of a person's the first one listed is taken. *)
OwnedBy(seen, who) == {n \in DOMAIN IssueList : seen.owner[IssueList[n]] \in who \ {NoOne}}
FirstOf(seen, who) == IF OwnedBy(seen, who) = {} THEN NoOne ELSE IssueList[Min(OwnedBy(seen, who))]
OwnerFound(seen, who) == IF OwnedBy(seen, who) = {} THEN NoOne ELSE seen.owner[FirstOf(seen, who)]
Works(seen, p) == p \in seen.team

(* The validator, by the kind of action: nothing outside this workspace's tickets and people. *)
AllowsForm(seen, a) == a.person = NoOne \/ Works(seen, a.person)
AllowsCreate(seen, a) == Works(seen, a.person)
AllowsUpdate(seen, a) ==
    /\ Here(seen, a.issue)
    /\ a.person = NoOne \/ Works(seen, a.person)
    /\ a.person # NoOne \/ a.level
SafePayload(seen, a) ==
    CASE a.does = "form"   -> AllowsForm(seen, a)
      [] a.does = "create" -> AllowsCreate(seen, a)
      [] a.does = "update" -> AllowsUpdate(seen, a)
      [] a.does = "open"   -> Here(seen, a.issue)
      [] a.does = "filter" -> a.person # NoOne /\ OwnedBy(seen, {a.person}) # {}
      [] a.does = "point"  -> a.issue = NoOne \/ Here(seen, a.issue)
      [] OTHER             -> TRUE

(* The product's actions: nothing of another system, and no deletion. *)
AllowedActions == {"view", "form", "add", "create", "update", "open", "filter", "point"}
Allows(seen, a) == a.does \in AllowedActions /\ SafePayload(seen, a)

(* The first rule that fits; `otherwise' when none does. *)
FirstThat(rules, otherwise) ==
    LET fitting == {i \in DOMAIN rules : rules[i].fits}
    IN IF fitting = {} THEN otherwise ELSE rules[Min(fitting)].then
Rule(fits, then) == [fits |-> fits, then |-> then]

(* ------------------------------ Conversation ----------------------------- *)

(* Messages answered by themselves. *)
ConversationRules(m, seen, selected) ==
    LET target == IF m.issue # NoOne THEN m.issue ELSE selected
        has(cue) == cue \in m.cues
    IN <<
        Rule(has("form") /\ m.plain /\ Works(seen, m.to), Act("form", NoOne, m.to, m.level)),
        Rule(has("form") /\ m.plain, Act("add", NoOne, m.to, FALSE)),
        Rule(target # NoOne /\ has("assign") /\ ~has("draft") /\ m.plain /\ ~Works(seen, m.to),
             Act("add", NoOne, m.to, FALSE)),
        Rule(target = NoOne /\ has("change") /\ (has("it") \/ OwnedBy(seen, m.names) = {}), NoAct),
        Rule(has("instead") \/ has("tour"), Show("view")),
        Rule(has("chat"), NoAct),
        Rule(has("member"), Act("add", NoOne, m.to, FALSE)),
        Rule(has("draft"), Show("form")),
        Rule(has("next"), NoAct),
        Rule(has("count"), Show("view")),
        Rule(has("list") /\ OwnedBy(seen, m.names) # {},
             Act("filter", NoOne, OwnerFound(seen, m.names), FALSE))
       >>

(* "silent" leaves the message to the rest of the engine. *)
ConversationalAct(m, seen, selected) == FirstThat(ConversationRules(m, seen, selected), Show("silent"))

Converses(m, seen, selected) ==
    LET a == ConversationalAct(m, seen, selected) IN a = NoAct \/ Allows(seen, a)

(* Outside systems, mail and deletion are proposed in order to be refused. *)
HardBoundary(m) == "boundary" \in m.cues

(* "What about ..." after tickets were talked about. *)
FollowsUp(m, seen) ==
    interest.feature = "issues" /\ "list" \in m.cues /\ OwnedBy(seen, m.names) # {}

(* ------------------------------ The planner ------------------------------ *)

(* Mutant: the new owner's own tickets are looked through as well. *)
ChangedIssueOfAnyone(m, seen, selected) ==
    FirstThat(<<
        Rule(m.issue # NoOne, m.issue),
        Rule(selected # NoOne /\ "it" \in m.cues, selected),
        Rule(FirstOf(seen, m.whose) # NoOne, FirstOf(seen, m.whose)),
        Rule(FirstOf(seen, m.names) # NoOne, FirstOf(seen, m.names))
       >>, selected)

(* Which ticket a change is for. Only a plainly worded new owner is not read as whose it is. *)
IssueRules(m, seen, selected) ==
    LET others == IF m.plain THEN m.names \ {m.to} ELSE m.names
    IN <<
        Rule(m.issue # NoOne, m.issue),
        Rule(selected # NoOne /\ "it" \in m.cues, selected),
        Rule(FirstOf(seen, m.whose) # NoOne, FirstOf(seen, m.whose)),
        Rule(FirstOf(seen, others) # NoOne, FirstOf(seen, others))
       >>
ChangedIssue(m, seen, selected) == FirstThat(IssueRules(m, seen, selected), selected)

PlannedUpdate(m, seen, selected) ==
    Act("update", ChangedIssue(m, seen, selected), IF "assign" \in m.cues THEN m.to ELSE NoOne, m.level)
PlansUpdate(m, seen, selected) ==
    LET a == PlannedUpdate(m, seen, selected)
    IN /\ m.cues \cap {"howAssign", "question"} = {}
       /\ a.issue # NoOne /\ (a.person # NoOne \/ a.level)

(* Whom a new ticket is for: an owner the message names, else whoever it is for, else anyone. *)
RequestedOwner(m, seen) ==
    IF OwnedBy(seen, m.names) # {} THEN OwnerFound(seen, m.names)
    ELSE IF m.to # NoOne THEN m.to ELSE CHOOSE p \in Members : TRUE

(* A person without a ticket is known only by the whole name. *)
PlannedCreate(m, seen) ==
    LET p == RequestedOwner(m, seen)
    IN IF Works(seen, p) /\ (OwnedBy(seen, {p}) # {} \/ m.to = NoOne \/ "full" \in m.cues)
       THEN Act("create", NoOne, p, m.level) ELSE Act("add", NoOne, p, FALSE)

PlanRules(m, seen, selected) ==
    LET person == OwnerFound(seen, m.names)
        first == FirstOf(seen, m.names)
        has(cue) == cue \in m.cues
    IN <<
        Rule(has("architecture"), Show("view")),
        Rule(has("mail"), Show("outside")),
        Rule(has("howNew"), Show("form")),
        Rule(has("new"), PlannedCreate(m, seen)),
        Rule(has("connected"), Show("view")),
        Rule(PlansUpdate(m, seen, selected), PlannedUpdate(m, seen, selected)),
        Rule(person # NoOne /\ has("many"), Act("filter", NoOne, person, FALSE)),
        Rule(has("howAssign") \/ has("assignThis"),
             Act("point", IF first # NoOne THEN first ELSE IF selected # NoOne THEN selected
                          ELSE Head(IssueList), NoOne, FALSE)),
        Rule(person # NoOne /\ has("ticket"), Act("open", first, NoOne, FALSE)),
        Rule(selected # NoOne /\ has("current"), Act("open", selected, NoOne, FALSE)),
        Rule(About(m) \notin {NoOne, "voice"}, Show("view"))
       >>
Plan(m, seen, selected) == FirstThat(PlanRules(m, seen, selected), NoAct)

(* ------------------------------- The model ------------------------------- *)

AsksModelFirst(m) == About(m) = NoOne /\ "verb" \notin m.cues

(* The model may propose any action on anything, here or not, or nothing. *)
ModelActs ==
    {NoAct, Show("outside"), Show("view")}
        \cup {Act("update", i, p, TRUE) : i \in Issues, p \in Members}
        \cup {Act(does, NoOne, p, FALSE) : does \in {"create", "filter"}, p \in Members}
        \cup {Act("open", i, NoOne, FALSE) : i \in Issues}

(* ------------------------------- A turn ---------------------------------- *)

(* What a decided turn has left to do, in order. *)
Ordinary == <<"check", "note", "recall", "write", "close">>
Clarification == <<"check", "close">>
AllItems == <<"recall", "write", "check", "close">>

NoRecords == [owner |-> [i \in Issues |-> NoOne], team |-> {}]
Idle == [at |-> "idle", turn |-> 0, m |-> Remark, seen |-> NoRecords, selected |-> NoOne, act |-> NoAct,
         valid |-> FALSE, byModel |-> FALSE, asked |-> 0, feature |-> NoOne, recalled |-> {},
         todo |-> <<>>, status |-> "none", keyed |-> FALSE]

Todo(r, step) == work[r].todo # <<>> /\ Head(work[r].todo) = step

(* _answer_turn: the selected workspace's records, as they are now. *)
Receive(r, t, m, selected) ==
    /\ work[r].at \in {"idle", "answered"}
    /\ work' = [work EXCEPT ![r] = [Idle EXCEPT !.at = "received", !.turn = t, !.m = m, !.selected = selected,
                                    !.seen = stored, !.feature = About(m)]]
    /\ UNCHANGED <<stored, newestTurn, activeTurn, interest, interests, noted, late>>

(* A turn ends: its answer stays to be looked at until the asker is used again. *)
Ended(w, status) == [w EXCEPT !.at = "answered", !.status = status, !.todo = <<>>]

Enter(r) ==
    /\ work[r].at = "received"
    /\ IF work[r].turn > newestTurn
       THEN /\ newestTurn' = work[r].turn /\ activeTurn' = work[r].turn
            /\ work' = [work EXCEPT ![r].at = "entered"]
            /\ late' = late \cup {work[s].turn : s \in {x \in Askers : Todo(x, "note")}}
       ELSE /\ work' = [work EXCEPT ![r] = Ended(@, "stale")]
            /\ UNCHANGED <<newestTurn, activeTurn, late>>
    /\ UNCHANGED <<stored, interest, interests, noted>>

Decided(w, a, todo) ==
    [w EXCEPT !.at = "decided", !.act = a, !.valid = Allows(w.seen, a), !.todo = todo]
(* A question back to the visitor says nothing of what interests them. *)
Clarified(w, todo) == [Decided(w, NoAct, todo) EXCEPT !.feature = NoOne]
Wondering(w) == [w EXCEPT !.at = "wondering", !.asked = @ + 1]

(* The planner, and the model when the planner finds nothing and it was not asked yet. *)
Planned(w) ==
    LET a == Plan(w.m, w.seen, w.selected)
    IN IF a = NoAct /\ w.asked = 0 THEN Wondering(w) ELSE Decided(w, a, Ordinary)

(* handle_turn, from the message to what is proposed or to a call of the model. *)
TurnRules(w) == <<
        Rule(Converses(w.m, w.seen, w.selected), Decided(w, ConversationalAct(w.m, w.seen, w.selected), Ordinary)),
        Rule("vague" \in w.m.cues, Clarified(w, Clarification)),
        Rule("all" \in w.m.cues, Clarified(w, AllItems)),
        Rule(HardBoundary(w.m), Decided(w, Show("outside"), Ordinary)),
        Rule(FollowsUp(w.m, w.seen),
             Decided(w, Act("filter", NoOne, OwnerFound(w.seen, w.m.names), FALSE), Ordinary)),
        Rule(AsksModelFirst(w.m), Wondering(w))
       >>
Considered(w) == FirstThat(TurnRules(w), Planned(w))

Interpret(r) ==
    /\ work[r].at = "entered"
    /\ work' = [work EXCEPT ![r] = Considered(@)]
    /\ UNCHANGED <<stored, newestTurn, activeTurn, interest, interests, noted, late>>

(* The model answers; its view of what the turn is about replaces the rules'. *)
ModelAnswers(r, a, feature) ==
    /\ work[r].at = "wondering"
    /\ work' = [work EXCEPT ![r] = [Decided(@, a, Ordinary) EXCEPT !.byModel = TRUE, !.feature = feature]]
    /\ UNCHANGED <<stored, newestTurn, activeTurn, interest, interests, noted, late>>

(* It is off, over its budget, too late or unreadable. *)
ModelFails(r) ==
    /\ work[r].at = "wondering"
    /\ work' = [work EXCEPT ![r] = Planned(@)]
    /\ UNCHANGED <<stored, newestTurn, activeTurn, interest, interests, noted, late>>

(* ------------------------- What a turn leaves behind ---------------------- *)

Did(w) == [w EXCEPT !.todo = Tail(@)]

CheckStillActive(r) ==
    /\ Todo(r, "check")
    /\ work' = [work EXCEPT ![r] = IF activeTurn = @.turn THEN Did(@) ELSE Ended(@, "stale")]
    /\ UNCHANGED <<stored, newestTurn, activeTurn, interest, interests, noted, late>>

(* store_signals: the newest is the one stored last, whichever turn it is of. *)
StoreSignals(r) ==
    /\ Todo(r, "note")
    /\ IF work[r].feature = NoOne THEN UNCHANGED <<interest, noted>>
       ELSE /\ interest' = [feature |-> work[r].feature, turn |-> work[r].turn]
            /\ noted' = noted \cup {work[r].turn}
    /\ work' = [work EXCEPT ![r] = Did(@)]
    /\ UNCHANGED <<stored, newestTurn, activeTurn, interests, late>>

(* remember_session_context reads the lists, then writes them with its own added: no transaction *)
(* is open over both.                                                                            *)
ReadContext(r) ==
    /\ Todo(r, "recall")
    /\ work' = [work EXCEPT ![r] = [Did(@) EXCEPT !.recalled = interests]]
    /\ UNCHANGED <<stored, newestTurn, activeTurn, interest, interests, noted, late>>
WriteContext(r) ==
    /\ Todo(r, "write")
    /\ interests' = work[r].recalled \cup ({work[r].feature} \ {NoOne})
    /\ work' = [work EXCEPT ![r] = Did(@)]
    /\ UNCHANGED <<stored, newestTurn, activeTurn, interest, noted, late>>

(* The answer is stored and the turn completed; a refused proposal is answered as denied, a      *)
(* change goes on to the adapter.                                                                *)
Complete(r) ==
    /\ Todo(r, "close")
    /\ activeTurn' = IF activeTurn = work[r].turn THEN 0 ELSE activeTurn
    /\ work' = [work EXCEPT ![r] =
            IF @.valid /\ @.act.does \in Keyed THEN [@ EXCEPT !.at = "adapting", !.todo = <<>>]
            ELSE Ended(@, IF @.act # NoAct /\ ~@.valid THEN "denied" ELSE "completed")]
    /\ UNCHANGED <<stored, newestTurn, interest, interests, noted, late>>

(* dispatch_legacy_mutation: a key for exactly the change decided, unless a newer turn exists. *)
Adapt(r) ==
    /\ work[r].at = "adapting"
    /\ work' = [work EXCEPT ![r] =
            IF newestTurn = @.turn THEN [Ended(@, "completed") EXCEPT !.keyed = TRUE]
            ELSE [Ended(@, "stale") EXCEPT !.valid = FALSE]]
    /\ UNCHANGED <<stored, newestTurn, activeTurn, interest, interests, noted, late>>

(* cancel_turn, and members changing the workspace's records *)
CancelActive(t) ==
    /\ activeTurn = t /\ t # 0
    /\ activeTurn' = 0
    /\ UNCHANGED <<stored, newestTurn, interest, interests, work, noted, late>>
ChangeRecords(records) ==
    /\ stored' = records
    /\ UNCHANGED <<newestTurn, activeTurn, interest, interests, work, noted, late>>

AgentInit ==
    /\ stored \in [owner : [Issues -> Members \cup {NoOne}], team : SUBSET Members]
    /\ newestTurn = 0 /\ activeTurn = 0
    /\ interest = [feature |-> NoOne, turn |-> 0] /\ interests = {}
    /\ work = [r \in Askers |-> Idle]
    /\ noted = {} /\ late = {}

TurnSteps(r) ==
    \/ Enter(r)
    \/ Interpret(r)
    \/ \E a \in ModelActs, f \in {NoOne, "issues"} : ModelAnswers(r, a, f)
    \/ ModelFails(r)
    \/ CheckStillActive(r)
    \/ StoreSignals(r)
    \/ ReadContext(r)
    \/ WriteContext(r)
    \/ Complete(r)
    \/ Adapt(r)

AgentNext ==
    \/ \E r \in Askers, t \in 1 .. LastTurn, m \in Remarks, i \in Issues \cup {NoOne} : Receive(r, t, m, i)
    \/ \E r \in Askers : TurnSteps(r)
    \/ \E t \in 1 .. LastTurn : CancelActive(t)
    \/ \E records \in [owner : [Issues -> Members \cup {NoOne}], team : SUBSET Members] : ChangeRecords(records)

AgentSpec == AgentInit /\ [][AgentNext]_agentVars

-------------------------------------------------------------------------------

(* A turn is decided once it knows what is left to do, and only the newest may be active. *)
AgentTypeOK ==
    /\ newestTurn \in 0 .. LastTurn /\ activeTurn \in {0, newestTurn}
    /\ interest.turn \in noted \cup {0} /\ noted \cup late \subseteq 1 .. newestTurn
    /\ \A r \in Askers : LET w == work[r] IN
        /\ w.at \in {"idle", "received", "entered", "wondering", "decided", "adapting", "answered"}
        /\ w.turn \in 0 .. LastTurn /\ w.m \in Remarks \cup {Remark} /\ w.asked \in 0 .. 1
        /\ w.todo # <<>> <=> w.at = "decided"
        /\ w.keyed => w.at = "answered" /\ w.status = "completed"

(* What a turn makes of a message is fit for the workspace it read, whoever proposed it: a       *)
(* conversational rule, the planner or the model.                                                *)
FitsTheWorkspace(w) ==
    w.valid =>
        /\ w.act.does \in {"update", "open"} => Here(w.seen, w.act.issue)
        /\ w.act.does \in {"update", "create", "form"} => w.act.person \in w.seen.team \cup {NoOne}
        /\ w.act.does = "filter" => \E i \in Issues : w.seen.owner[i] = w.act.person

(* Whatever else a message says, one that mentions another system, mail or deletion changes      *)
(* nothing and is never shown to the model.                                                      *)
RefusedOutright(w) == HardBoundary(w.m) => w.asked = 0 /\ ~w.keyed

(* A change the rules propose is made to the ticket the message names; failing one, to the open  *)
(* one or one of somebody it names, and never to one of the new owner's own - unless the owner   *)
(* is not plainly worded ("assign the ticket to ...").                                           *)
MadeToTheTicketMeant(w) ==
    w.valid /\ ~w.byModel /\ w.act.does = "update" =>
        /\ w.m.issue # NoOne => w.act.issue = w.m.issue
        /\ w.m.issue = NoOne /\ w.act.issue # w.selected => w.seen.owner[w.act.issue] \in w.m.names
        /\ w.m.issue = NoOne /\ w.m.plain /\ w.m.to \notin w.m.whose /\ w.act.issue # w.selected
            => w.seen.owner[w.act.issue] # w.m.to

(* An older turn's interest stands after a newer turn's only if it was overtaken between being   *)
(* found active and storing it.                                                                  *)
InterestIsCurrent == \A t \in noted : t > interest.turn => interest.turn \in late

(* What the legacy engine may do with a message (agent.py handle_turn). *)
LegacyTurnsAreContained ==
    /\ \A r \in Askers : /\ FitsTheWorkspace(work[r])
                          /\ RefusedOutright(work[r])
                          /\ MadeToTheTicketMeant(work[r])
    /\ InterestIsCurrent
=============================================================================
