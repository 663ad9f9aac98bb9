------------------------- MODULE ConversationProofs -------------------------
(***************************************************************************)
(* Proofs about a conversation, whatever is said in it. LegacyAgent: what  *)
(* is proposed comes of the first rule that fits, so what is known of the  *)
(* turn holds of each rule by itself; a turn's interest is overtaken only  *)
(* between its check and its note (WorkFits, NotesAreInOrder). Dialogue:   *)
(* what the engine remembers is either pending or done with, and what it   *)
(* asks or puts forward is made of what was said for the request it serves *)
(* (DialogueInv, MeantInv).                                                *)
(***************************************************************************)
EXTENDS MCConversation, DataLemmas, FiniteSetTheorems, TLAPS

-----------------------------------------------------------------------------
(* The legacy engine's rules.                                              *)

\* What is said by the first rule that fits, if any does.
LEMMA FirstThatFacts ==
    ASSUME NEW rules, NEW otherwise, NEW n \in Nat, DOMAIN rules = 1 .. n
    PROVE  \/ /\ FirstThat(rules, otherwise) = otherwise
              /\ \A i \in 1 .. n : ~rules[i].fits
           \/ \E i \in 1 .. n :
                /\ rules[i].fits /\ FirstThat(rules, otherwise) = rules[i].then
                /\ \A j \in 1 .. i - 1 : ~rules[j].fits
<1> DEFINE fitting == {i \in DOMAIN rules : rules[i].fits}
<1>2. fitting \in SUBSET Nat
  OBVIOUS
<1>3. FirstThat(rules, otherwise) = IF fitting = {} THEN otherwise ELSE rules[Min(fitting)].then
  BY DEF FirstThat
<1>4. CASE fitting = {}
  BY <1>3, <1>4
<1>5. CASE fitting # {}
  <2> DEFINE i == Min(fitting)
  <2>1. i \in fitting /\ \A j \in fitting : i <= j
    <3> HIDE DEF fitting
    <3> QED
      BY <1>2, <1>5, MinFacts
  <2> HIDE DEF i
  <2>2. i \in 1 .. n /\ rules[i].fits
    BY <2>1
  <2>3. \A j \in 1 .. i - 1 : ~rules[j].fits
    <3> SUFFICES ASSUME NEW j \in 1 .. i - 1, rules[j].fits PROVE FALSE
      OBVIOUS
    <3>1. j \in 1 .. n /\ j < i
      BY <2>2
    <3>2. j \in fitting
      BY <3>1
    <3> QED
      BY <2>1, <2>2, <3>1, <3>2
  <2>4. FirstThat(rules, otherwise) = rules[i].then
    BY <1>3, <1>5 DEF i
  <2> QED
    BY <2>2, <2>3, <2>4
<1> QED
  BY <1>4, <1>5

\* The first of a person's tickets is one of theirs.
LEMMA FirstOfFacts ==
    ASSUME NEW seen, NEW who
    PROVE  FirstOf(seen, who) # NoOne =>
              /\ FirstOf(seen, who) \in Issues
              /\ seen.owner[FirstOf(seen, who)] \in who \ {NoOne}
<1> DEFINE owned == OwnedBy(seen, who)
<1>1. DOMAIN IssueList = 1 .. Len(IssueList) /\ Len(IssueList) \in Nat
  BY LegacyAgentAssumption, LenProperties
<1>2. owned \in SUBSET Nat /\ \A n \in owned : n \in DOMAIN IssueList /\ seen.owner[IssueList[n]] \in who \ {NoOne}
  BY <1>1 DEF OwnedBy
<1>3. SUFFICES ASSUME owned # {} PROVE FirstOf(seen, who) = IssueList[Min(owned)] /\ Min(owned) \in owned
  <2>1. \A n \in DOMAIN IssueList : IssueList[n] \in Issues
    BY <1>1 DEF Issues, Range
  <2> QED
    BY <1>2, <2>1 DEF FirstOf
<1>4. FirstOf(seen, who) = IssueList[Min(owned)]
  BY <1>3 DEF FirstOf
<1>5. Min(owned) \in owned
  <2> HIDE DEF owned
  <2> QED
    BY <1>2, <1>3, MinFacts
<1> QED
  BY <1>4, <1>5

\* What is said alone changes nothing.
LEMMA ConversationFacts ==
    ASSUME NEW m, NEW seen, NEW chosen
    PROVE  ConversationalAct(m, seen, chosen).does \notin Keyed
<1>1. SUFFICES ASSUME NEW rules, rules = ConversationRules(m, seen, chosen), NEW o, o = Show("silent"),
                      NEW n, n = 11
               PROVE  FirstThat(rules, o).does \notin Keyed
  BY DEF ConversationalAct
<1>2. DOMAIN rules = 1 .. n /\ n \in Nat
  BY <1>1 DEF ConversationRules, Rule
<1>3. \A i \in 1 .. n : rules[i].then.does \notin Keyed
  BY <1>1 DEF ConversationRules, Rule, Act, Show, NoAct, Keyed
<1>4. o.does \notin Keyed
  BY <1>1 DEF Show, Act, Keyed
<1>5. \/ FirstThat(rules, o) = o
      \/ \E i \in 1 .. n : FirstThat(rules, o) = rules[i].then
  BY <1>2, FirstThatFacts
<1> QED
  BY <1>3, <1>4, <1>5

\* A change is proposed by the planner as a change of one ticket, and in no other way.
LEMMA PlanFacts ==
    ASSUME NEW m, NEW seen, NEW chosen, Plan(m, seen, chosen).does = "update"
    PROVE  Plan(m, seen, chosen) = PlannedUpdate(m, seen, chosen)
<1>1. SUFFICES ASSUME NEW rules, rules = PlanRules(m, seen, chosen), NEW o, o = NoAct, NEW n, n = 11,
                      FirstThat(rules, o).does = "update"
               PROVE  FirstThat(rules, o) = PlannedUpdate(m, seen, chosen)
  BY DEF Plan
<1>2. DOMAIN rules = 1 .. n /\ n \in Nat
  BY <1>1 DEF PlanRules, Rule
<1>3. PlannedCreate(m, seen).does # "update"
  BY DEF PlannedCreate, Act
<1>4. \A i \in 1 .. n : rules[i].then.does = "update" => rules[i].then = PlannedUpdate(m, seen, chosen)
  BY <1>1, <1>3 DEF PlanRules, Rule, Act, Show
<1>5. o.does # "update"
  BY <1>1 DEF NoAct, Act
<1>6. \/ FirstThat(rules, o) = o
      \/ \E i \in 1 .. n : FirstThat(rules, o) = rules[i].then
  BY <1>2, FirstThatFacts
<1> QED
  BY <1>1, <1>4, <1>5, <1>6

\* The ticket a change is for: the one it names, else the open one or one of somebody it names.
LEMMA ChangedIssueFacts ==
    ASSUME NEW m, NEW seen, NEW chosen, m.whose \subseteq m.names,
           NEW i, i = ChangedIssue(m, seen, chosen)
    PROVE  /\ m.issue # NoOne => i = m.issue
           /\ m.issue = NoOne /\ i # chosen =>
                /\ seen.owner[i] \in m.names
                /\ m.plain /\ m.to \notin m.whose => seen.owner[i] # m.to
<1> DEFINE others == IF m.plain THEN m.names \ {m.to} ELSE m.names
<1>1. SUFFICES ASSUME NEW rules, rules = IssueRules(m, seen, chosen), NEW n, n = 4, i = FirstThat(rules, chosen)
               PROVE  /\ m.issue # NoOne => i = m.issue
                      /\ m.issue = NoOne /\ i # chosen =>
                           /\ seen.owner[i] \in m.names
                           /\ m.plain /\ m.to \notin m.whose => seen.owner[i] # m.to
  BY DEF ChangedIssue
<1>2. DOMAIN rules = 1 .. n /\ n \in Nat
  BY <1>1 DEF IssueRules, Rule
<1>3. \/ i = chosen /\ \A j \in 1 .. n : ~rules[j].fits
      \/ \E j \in 1 .. n : /\ rules[j].fits /\ i = rules[j].then
                           /\ \A k \in 1 .. j - 1 : ~rules[k].fits
  <2>1. \/ FirstThat(rules, chosen) = chosen /\ \A j \in 1 .. n : ~rules[j].fits
        \/ \E j \in 1 .. n : /\ rules[j].fits /\ FirstThat(rules, chosen) = rules[j].then
                             /\ \A k \in 1 .. j - 1 : ~rules[k].fits
    BY <1>2, FirstThatFacts
  <2> QED
    BY <2>1, <1>1
<1>4. /\ rules[1].fits <=> m.issue # NoOne
      /\ rules[3].fits <=> FirstOf(seen, m.whose) # NoOne
      /\ rules[4].fits <=> FirstOf(seen, others) # NoOne
  BY <1>1 DEF IssueRules, Rule
<1>9. /\ rules[1].then = m.issue /\ rules[2].then = chosen
      /\ rules[3].then = FirstOf(seen, m.whose) /\ rules[4].then = FirstOf(seen, others)
  BY <1>1 DEF IssueRules, Rule
<1>5. FirstOf(seen, m.whose) # NoOne => seen.owner[FirstOf(seen, m.whose)] \in m.whose \ {NoOne}
  BY FirstOfFacts
<1>6. FirstOf(seen, others) # NoOne => seen.owner[FirstOf(seen, others)] \in others \ {NoOne}
  <2> HIDE DEF others
  <2> QED
    BY FirstOfFacts
<1>7. CASE m.issue # NoOne
  <2>1. rules[1].fits
    BY <1>4, <1>7
  <2>2. i = rules[1].then
    BY <2>1, <1>1, <1>3
  <2> QED
    BY <2>2, <1>9, <1>7
<1>8. CASE m.issue = NoOne
  <2>1. ~rules[1].fits
    BY <1>4, <1>8
  <2>2. \/ i = chosen
        \/ rules[3].fits /\ i = rules[3].then
        \/ rules[4].fits /\ i = rules[4].then
    BY <2>1, <1>1, <1>3, <1>9
  <2>3. CASE rules[3].fits /\ i = rules[3].then
    BY <2>3, <1>4, <1>5, <1>8, <1>9
  <2>4. CASE rules[4].fits /\ i = rules[4].then
    BY <2>4, <1>4, <1>6, <1>8, <1>9
  <2> QED
    BY <2>2, <2>3, <2>4, <1>8
<1> QED
  BY <1>7, <1>8

\* What a message is made into before the model is asked.
LEMMA ConsideredFacts ==
    ASSUME NEW w
    PROVE  \/ Considered(w) = Wondering(w) /\ ~HardBoundary(w.m)
           \/ \E a : /\ Considered(w) = Decided(w, a, Ordinary)
                     /\ a.does = "update" => a = PlannedUpdate(w.m, w.seen, w.selected)
                     /\ HardBoundary(w.m) => a.does \notin Keyed
           \/ \E todo \in {Clarification, AllItems} : Considered(w) = Clarified(w, todo)
<1> DEFINE goal(x) ==
        \/ x = Wondering(w) /\ ~HardBoundary(w.m)
        \/ \E a : /\ x = Decided(w, a, Ordinary)
                  /\ a.does = "update" => a = PlannedUpdate(w.m, w.seen, w.selected)
                  /\ HardBoundary(w.m) => a.does \notin Keyed
        \/ \E todo \in {Clarification, AllItems} : x = Clarified(w, todo)
<1>1. SUFFICES ASSUME NEW rules, rules = TurnRules(w), NEW o, o = Planned(w), NEW n, n = 6
               PROVE  goal(FirstThat(rules, o))
  BY DEF Considered
<1>2. DOMAIN rules = 1 .. n /\ n \in Nat
  BY <1>1 DEF TurnRules, Rule
<1>3. \/ FirstThat(rules, o) = o /\ \A i \in 1 .. n : ~rules[i].fits
      \/ \E i \in 1 .. n : /\ rules[i].fits /\ FirstThat(rules, o) = rules[i].then
                           /\ \A j \in 1 .. i - 1 : ~rules[j].fits
  BY <1>2, FirstThatFacts
<1>4. /\ rules[1].then = Decided(w, ConversationalAct(w.m, w.seen, w.selected), Ordinary)
      /\ rules[2].then = Clarified(w, Clarification)
      /\ rules[3].then = Clarified(w, AllItems)
      /\ rules[4].then = Decided(w, Show("outside"), Ordinary)
      /\ rules[5].then = Decided(w, Act("filter", NoOne, OwnerFound(w.seen, w.m.names), FALSE), Ordinary)
      /\ rules[6].then = Wondering(w)
  BY <1>1 DEF TurnRules, Rule
<1>5. goal(rules[1].then)
  <2> PICK a : a = ConversationalAct(w.m, w.seen, w.selected)
    OBVIOUS
  <2>1. a.does \notin Keyed
    BY ConversationFacts
  <2> QED
    BY <2>1, <1>4 DEF Keyed
<1>6. goal(rules[2].then) /\ goal(rules[3].then)
  BY <1>4
<1>7. goal(rules[4].then)
  <2>1. Show("outside").does \notin Keyed
    BY DEF Show, Act, Keyed
  <2> QED
    BY <2>1, <1>4 DEF Keyed
<1>8. goal(rules[5].then)
  <2>1. Act("filter", NoOne, OwnerFound(w.seen, w.m.names), FALSE).does \notin Keyed
    BY DEF Act, Keyed
  <2> QED
    BY <2>1, <1>4 DEF Keyed
<1>9. ~HardBoundary(w.m) => goal(rules[6].then)
  BY <1>4
<1>10. ~HardBoundary(w.m) => goal(o)
  <2> SUFFICES ASSUME ~HardBoundary(w.m) PROVE goal(o)
    OBVIOUS
  <2> PICK a : a = Plan(w.m, w.seen, w.selected)
    OBVIOUS
  <2>1. a.does = "update" => a = PlannedUpdate(w.m, w.seen, w.selected)
    BY PlanFacts
  <2>2. o = Wondering(w) \/ o = Decided(w, a, Ordinary)
    BY <1>1 DEF Planned
  <2> QED
    BY <2>1, <2>2
<1>11. rules[4].fits <=> HardBoundary(w.m)
  BY <1>1 DEF TurnRules, Rule
<1>12. \/ HardBoundary(w.m) /\ \E i \in 1 .. 4 : FirstThat(rules, o) = rules[i].then
       \/ ~HardBoundary(w.m) /\ (FirstThat(rules, o) = o \/ \E i \in 1 .. 6 : FirstThat(rules, o) = rules[i].then)
  BY <1>1, <1>3, <1>11
<1> HIDE DEF goal
<1> QED
  BY <1>5, <1>6, <1>7, <1>8, <1>9, <1>10, <1>12

-----------------------------------------------------------------------------
(* A turn of the legacy engine, and the turns of a session together.       *)

\* A turn is a record of these fields.
TurnFields ==
    {"at", "turn", "m", "seen", "selected", "act", "valid", "byModel", "asked", "feature", "recalled",
     "todo", "status", "keyed"}
IsTurn(w) == DOMAIN w = TurnFields /\ w = [f \in TurnFields |-> w[f]]

\* What may be left to do, from any list of tasks onwards.
Tasks ==
    {<<>>, Ordinary, <<"note", "recall", "write", "close">>, <<"recall", "write", "close">>,
     <<"write", "close">>, <<"close">>, Clarification, AllItems, <<"write", "check", "close">>}

Stages == {"idle", "received", "entered", "wondering", "decided", "adapting", "answered"}

\* How far it came: once it entered it is one of the session's, and the model is asked once.
Runs(w, newest) ==
    /\ w.at \in Stages /\ w.m \in Remarks \cup {Remark}
    /\ w.turn \in 0 .. LastTurn /\ w.asked \in 0 .. 1
    /\ w.at \notin {"idle", "answered"} => w.turn >= 1
    /\ w.at \notin {"idle", "answered", "received"} => w.turn <= newest
    /\ w.at \in {"received", "entered"} => w.asked = 0
    /\ w.at = "wondering" => w.asked = 1
    /\ w.todo \in Tasks /\ (w.todo # <<>> <=> w.at = "decided")
    /\ w.keyed => w.at = "answered" /\ w.status = "completed"

\* What it does: what is valid was allowed, only a change becomes a key, one by rule is the
\* planner's, and a message of the boundary never comes near a change or the model.
Behaves(w) ==
    /\ w.valid => Allows(w.seen, w.act)
    /\ w.at = "adapting" => w.act.does \in Keyed
    /\ HardBoundary(w.m) => w.asked = 0 /\ ~w.keyed /\ w.at # "wondering" /\ w.act.does \notin Keyed
    /\ ~w.byModel /\ w.act.does = "update" => w.act = PlannedUpdate(w.m, w.seen, w.selected)

\* One about to store what interests the visitor is the newest, or was overtaken since its check.
NotesInOrder(w, newest, overtaken) ==
    w.todo # <<>> /\ Head(w.todo) = "note" => w.turn = newest \/ w.turn \in overtaken

\* What every step of the session's turns preserves.
AgentInv ==
    /\ work = [r \in Askers |-> work[r]]
    /\ newestTurn \in 0 .. LastTurn /\ activeTurn \in {0, newestTurn}
    /\ interest.turn \in noted \cup {0} /\ noted \cup late \subseteq 1 .. newestTurn
    /\ \A r \in Askers : /\ IsTurn(work[r]) /\ Runs(work[r], newestTurn) /\ Behaves(work[r])
                         /\ NotesInOrder(work[r], newestTurn, late)
    /\ InterestIsCurrent

\* The parts of the invariant say what is promised of a turn.
LEMMA TurnPromises ==
    ASSUME NEW w, NEW newest, Runs(w, newest), Behaves(w)
    PROVE  FitsTheWorkspace(w) /\ RefusedOutright(w) /\ MadeToTheTicketMeant(w)
<1>1. FitsTheWorkspace(w)
  <2> SUFFICES ASSUME w.valid PROVE
         /\ w.act.does \in {"update", "open"} => Here(w.seen, w.act.issue)
         /\ w.act.does \in {"update", "create", "form"} => w.act.person \in w.seen.team \cup {NoOne}
         /\ w.act.does = "filter" => \E i \in Issues : w.seen.owner[i] = w.act.person
    BY DEF FitsTheWorkspace
  <2>1. SafePayload(w.seen, w.act)
    BY DEF Behaves, Allows
  <2>2. CASE w.act.does = "update"
    BY <2>1, <2>2 DEF SafePayload, AllowsUpdate, Works
  <2>3. CASE w.act.does = "create"
    BY <2>1, <2>3 DEF SafePayload, AllowsCreate, Works
  <2>4. CASE w.act.does = "form"
    BY <2>1, <2>4 DEF SafePayload, AllowsForm, Works
  <2>5. CASE w.act.does = "open"
    BY <2>1, <2>5 DEF SafePayload
  <2>6. CASE w.act.does = "filter"
    <3>1. OwnedBy(w.seen, {w.act.person}) # {}
      BY <2>1, <2>6 DEF SafePayload
    <3>2. PICK n \in DOMAIN IssueList : w.seen.owner[IssueList[n]] = w.act.person
      BY <3>1 DEF OwnedBy
    <3>3. IssueList[n] \in Issues
      BY DEF Issues, Range
    <3> QED
      BY <3>2, <3>3, <2>6
  <2> QED
    BY <2>2, <2>3, <2>4, <2>5, <2>6
<1>2. RefusedOutright(w)
  BY DEF Behaves, RefusedOutright
<1>3. MadeToTheTicketMeant(w)
  <2> SUFFICES ASSUME w.valid, ~w.byModel, w.act.does = "update" PROVE MadeToTheTicketMeant(w)
    BY DEF MadeToTheTicketMeant
  <2> PICK i : i = ChangedIssue(w.m, w.seen, w.selected)
    OBVIOUS
  <2>1. w.act.issue = i
    BY DEF Behaves, PlannedUpdate, Act
  <2>2. w.m.whose \subseteq w.m.names
    <3>1. Remark.whose = {}
      BY DEF Remark
    <3>2. w.m \in Remarks \cup {Remark}
      BY DEF Runs
    <3> QED
      BY <3>1, <3>2, LegacyAgentAssumption
  <2>3. /\ w.m.issue # NoOne => i = w.m.issue
        /\ w.m.issue = NoOne /\ i # w.selected =>
             /\ w.seen.owner[i] \in w.m.names
             /\ w.m.plain /\ w.m.to \notin w.m.whose => w.seen.owner[i] # w.m.to
    BY <2>2, ChangedIssueFacts
  <2> QED
    BY <2>1, <2>3 DEF MadeToTheTicketMeant
<1> QED
  BY <1>1, <1>2, <1>3

\* What each step of a turn makes of it: a decision,
LEMMA DecidedIs ==
    ASSUME NEW w, IsTurn(w), NEW a, NEW todo, NEW x, x = Decided(w, a, todo)
    PROVE  /\ IsTurn(x) /\ x.at = "decided" /\ x.act = a /\ (x.valid <=> Allows(w.seen, a)) /\ x.todo = todo
           /\ x.turn = w.turn /\ x.m = w.m /\ x.seen = w.seen /\ x.selected = w.selected
           /\ x.byModel = w.byModel /\ x.asked = w.asked /\ x.keyed = w.keyed /\ x.status = w.status
           /\ x.feature = w.feature
<1>1. IsTurn(x)
  BY DEF IsTurn, Decided
<1> QED
  BY <1>1 DEF IsTurn, Decided, TurnFields

\* a question back,
LEMMA ClarifiedIs ==
    ASSUME NEW w, IsTurn(w), NEW todo, NEW x, x = Clarified(w, todo)
    PROVE  /\ IsTurn(x) /\ x.at = "decided" /\ x.act = NoAct /\ (x.valid <=> Allows(w.seen, NoAct))
           /\ x.todo = todo /\ x.turn = w.turn /\ x.m = w.m /\ x.seen = w.seen /\ x.selected = w.selected
           /\ x.byModel = w.byModel /\ x.asked = w.asked /\ x.keyed = w.keyed /\ x.status = w.status
<1> PICK y : y = Decided(w, NoAct, todo)
  OBVIOUS
<1>1. /\ IsTurn(y) /\ y.at = "decided" /\ y.act = NoAct /\ (y.valid <=> Allows(w.seen, NoAct))
      /\ y.todo = todo /\ y.turn = w.turn /\ y.m = w.m /\ y.seen = w.seen /\ y.selected = w.selected
      /\ y.byModel = w.byModel /\ y.asked = w.asked /\ y.keyed = w.keyed /\ y.status = w.status
  BY DecidedIs
<1>2. x = [y EXCEPT !.feature = NoOne]
  BY DEF Clarified
<1> QED
  BY <1>1, <1>2 DEF IsTurn, TurnFields

\* a call of the model,
LEMMA WonderingIs ==
    ASSUME NEW w, IsTurn(w), NEW x, x = Wondering(w)
    PROVE  /\ IsTurn(x) /\ x.at = "wondering" /\ x.asked = w.asked + 1
           /\ x.act = w.act /\ (x.valid <=> w.valid) /\ x.todo = w.todo /\ x.turn = w.turn
           /\ x.m = w.m /\ x.seen = w.seen /\ x.selected = w.selected
           /\ x.byModel = w.byModel /\ x.keyed = w.keyed /\ x.status = w.status
BY DEF IsTurn, Wondering, TurnFields

\* its end,
LEMMA EndedIs ==
    ASSUME NEW w, IsTurn(w), NEW status, NEW x, x = Ended(w, status)
    PROVE  /\ IsTurn(x) /\ x.at = "answered" /\ x.status = status /\ x.todo = <<>>
           /\ x.act = w.act /\ (x.valid <=> w.valid) /\ x.turn = w.turn
           /\ x.m = w.m /\ x.seen = w.seen /\ x.selected = w.selected
           /\ x.byModel = w.byModel /\ x.keyed = w.keyed /\ x.asked = w.asked
BY DEF IsTurn, Ended, TurnFields

\* one task done.
LEMMA DidIs ==
    ASSUME NEW w, IsTurn(w), NEW x, x = Did(w)
    PROVE  /\ IsTurn(x) /\ x.todo = Tail(w.todo) /\ x.at = w.at /\ x.status = w.status
           /\ x.act = w.act /\ (x.valid <=> w.valid) /\ x.turn = w.turn
           /\ x.m = w.m /\ x.seen = w.seen /\ x.selected = w.selected
           /\ x.byModel = w.byModel /\ x.keyed = w.keyed /\ x.asked = w.asked
BY DEF IsTurn, Did, TurnFields

\* A task done leaves the rest of its list, and what follows a check is a note or no note at all.
LEMMA TasksFollow ==
    ASSUME NEW todo \in Tasks, todo # <<>>
    PROVE  /\ Tail(todo) \in Tasks
           /\ Tail(todo) # <<>> /\ Head(Tail(todo)) = "note" => Head(todo) = "check"
           /\ Tail(todo) = <<>> => Head(todo) = "close"
<1>1. CASE todo = Ordinary
  BY <1>1 DEF Tasks, Ordinary
<1>2. CASE todo = <<"note", "recall", "write", "close">>
  BY <1>2 DEF Tasks
<1>3. CASE todo = <<"recall", "write", "close">>
  BY <1>3 DEF Tasks
<1>4. CASE todo = <<"write", "close">>
  BY <1>4 DEF Tasks
<1>5. CASE todo = <<"close">>
  BY <1>5 DEF Tasks
<1>6. CASE todo = Clarification
  BY <1>6 DEF Tasks, Clarification
<1>7. CASE todo = AllItems
  BY <1>7 DEF Tasks, AllItems
<1>8. CASE todo = <<"write", "check", "close">>
  BY <1>8 DEF Tasks, Clarification
<1> QED
  BY <1>1, <1>2, <1>3, <1>4, <1>5, <1>6, <1>7, <1>8 DEF Tasks

\* A step of one turn: what is left is to look at that turn and at what the turns share.
LEMMA OneTurnMoves ==
    ASSUME AgentInv, NEW r \in Askers, NEW x, work' = [work EXCEPT ![r] = x],
           IsTurn(x), Runs(x, newestTurn'), Behaves(x), NotesInOrder(x, newestTurn', late'),
           newestTurn' \in newestTurn .. LastTurn, activeTurn' \in {0, newestTurn'},
           interest'.turn \in noted' \cup {0}, noted' \cup late' \subseteq 1 .. newestTurn',
           \A s \in Askers \ {r} : NotesInOrder(work[s], newestTurn', late'),
           InterestIsCurrent'
    PROVE  AgentInv'
<1>1. newestTurn \in Nat /\ newestTurn' \in 0 .. LastTurn /\ newestTurn <= newestTurn'
  BY LegacyAgentAssumption DEF AgentInv
<1>2. work' = [s \in Askers |-> work'[s]] /\ work'[r] = x /\ \A s \in Askers \ {r} : work'[s] = work[s]
  BY DEF AgentInv
<1>3. ASSUME NEW s \in Askers
      PROVE  /\ IsTurn(work'[s]) /\ Runs(work'[s], newestTurn') /\ Behaves(work'[s])
             /\ NotesInOrder(work'[s], newestTurn', late')
  <2>1. CASE s = r
    BY <2>1, <1>2
  <2>2. CASE s # r
    <3> PICK w : w = work[s]
      OBVIOUS
    <3>1. work'[s] = w
      BY <2>2, <1>2
    <3>2. IsTurn(w) /\ Runs(w, newestTurn) /\ Behaves(w) /\ NotesInOrder(w, newestTurn', late')
      BY <2>2 DEF AgentInv
    <3>3. w.turn \in Nat
      BY <3>2, LegacyAgentAssumption DEF Runs
    <3>4. Runs(w, newestTurn')
      BY <3>2, <3>3, <1>1 DEF Runs
    <3> QED
      BY <3>1, <3>2, <3>4
  <2> QED
    BY <2>1, <2>2
<1> QED
  BY <1>1, <1>2, <1>3 DEF AgentInv

\* The same when the turns share nothing new.
LEMMA OneTurnAlone ==
    ASSUME AgentInv, NEW r \in Askers, NEW x, work' = [work EXCEPT ![r] = x],
           IsTurn(x), Runs(x, newestTurn), Behaves(x), NotesInOrder(x, newestTurn, late),
           UNCHANGED <<newestTurn, interest, noted, late>>, activeTurn' \in {0, activeTurn}
    PROVE  AgentInv'
<1>1. newestTurn' = newestTurn /\ interest' = interest /\ noted' = noted /\ late' = late
  OBVIOUS
<1>2. newestTurn \in newestTurn .. LastTurn /\ activeTurn' \in {0, newestTurn}
  BY LegacyAgentAssumption DEF AgentInv
<1>3. \A s \in Askers \ {r} : NotesInOrder(work[s], newestTurn, late)
  BY DEF AgentInv
<1>4. InterestIsCurrent'
  BY <1>1 DEF AgentInv, InterestIsCurrent
<1>5. interest.turn \in noted \cup {0} /\ noted \cup late \subseteq 1 .. newestTurn
  BY DEF AgentInv
<1> QED
  BY <1>1, <1>2, <1>3, <1>4, <1>5, OneTurnMoves

LEMMA ReceiveKeeps ==
    ASSUME AgentInv, NEW r \in Askers, NEW t \in 1 .. LastTurn, NEW m \in Remarks, NEW i, Receive(r, t, m, i)
    PROVE  AgentInv'
<1> PICK x : x = [Idle EXCEPT !.at = "received", !.turn = t, !.m = m, !.selected = i,
                              !.seen = stored, !.feature = About(m)]
  OBVIOUS
<1>1. work' = [work EXCEPT ![r] = x] /\ UNCHANGED <<newestTurn, interest, noted, late, activeTurn>>
  BY DEF Receive
<1>2. IsTurn(x)
  BY DEF IsTurn, TurnFields, Idle
<1>3. /\ x.at = "received" /\ x.turn = t /\ x.m = m /\ x.asked = 0 /\ x.keyed = FALSE /\ x.todo = <<>>
      /\ ~x.valid /\ x.act = NoAct /\ x.byModel = FALSE
  BY DEF Idle
<1>4. Runs(x, newestTurn)
  <2>1. x.todo \in Tasks /\ x.at \in Stages
    BY <1>3 DEF Stages, Tasks
  <2>2. t \in Nat /\ t >= 1 /\ t <= LastTurn
    BY LegacyAgentAssumption
  <2> QED
    BY <1>3, <2>1, <2>2, LegacyAgentAssumption DEF Runs
<1>5. Behaves(x)
  BY <1>3 DEF Behaves, NoAct, Act, Keyed
<1>6. NotesInOrder(x, newestTurn, late)
  BY <1>3 DEF NotesInOrder
<1> QED
  BY <1>1, <1>2, <1>4, <1>5, <1>6, OneTurnAlone

\* A turn that enters overtakes the others, among them those about to store what they found.
LEMMA EnterKeeps ==
    ASSUME AgentInv, NEW r \in Askers, Enter(r)
    PROVE  AgentInv'
<1> PICK w : w = work[r]
  OBVIOUS
<1>1. /\ IsTurn(w) /\ Runs(w, newestTurn) /\ Behaves(w) /\ w.at = "received" /\ newestTurn \in Nat
      /\ w.turn \in 1 .. LastTurn
  BY LegacyAgentAssumption DEF AgentInv, Runs, Enter
<1>2. CASE w.turn > newestTurn
  <2> PICK x : x = [w EXCEPT !.at = "entered"]
    OBVIOUS
  <2>1. /\ work' = [work EXCEPT ![r] = x] /\ newestTurn' = w.turn /\ activeTurn' = w.turn
        /\ late' = late \cup {work[s].turn : s \in {y \in Askers : Todo(y, "note")}}
        /\ UNCHANGED <<interest, noted>>
    BY <1>2 DEF Enter
  <2>2. /\ IsTurn(x) /\ x.at = "entered" /\ x.turn = w.turn /\ x.m = w.m /\ x.asked = w.asked
        /\ x.keyed = w.keyed /\ x.todo = w.todo /\ (x.valid <=> w.valid) /\ x.act = w.act
        /\ x.byModel = w.byModel /\ x.seen = w.seen /\ x.selected = w.selected /\ x.status = w.status
    BY <1>1 DEF IsTurn, TurnFields
  <2>3. Runs(x, newestTurn')
    BY <2>1, <2>2, <1>1 DEF Runs, Stages
  <2>4. Behaves(x)
    BY <2>2, <1>1 DEF Behaves
  <2>5. NotesInOrder(x, newestTurn', late')
    BY <2>1, <2>2 DEF NotesInOrder
  <2>6. ASSUME NEW s \in Askers PROVE NotesInOrder(work[s], newestTurn', late')
    <3> SUFFICES ASSUME Todo(s, "note") PROVE work[s].turn \in late'
      BY DEF NotesInOrder, Todo
    <3> QED
      BY <2>1
  <2>7. ASSUME NEW y \in late' PROVE y \in 1 .. newestTurn'
    <3>1. CASE y \in late
      BY <3>1, <1>1, <1>2, <2>1 DEF AgentInv
    <3>2. CASE y \notin late
      <4>1. PICK s \in Askers : Todo(s, "note") /\ y = work[s].turn
        BY <3>2, <2>1
      <4>2. Runs(work[s], newestTurn) /\ work[s].at = "decided"
        BY <4>1 DEF AgentInv, Runs, Todo
      <4>3. y \in 1 .. newestTurn
        BY <4>1, <4>2, LegacyAgentAssumption DEF Runs
      <4> QED
        BY <4>3, <1>1, <1>2, <2>1
    <3> QED
      BY <3>1, <3>2
  <2>8. /\ interest'.turn \in noted' \cup {0} /\ noted' \subseteq 1 .. newestTurn'
        /\ newestTurn' \in newestTurn .. LastTurn
    <3>1. noted \subseteq 1 .. newestTurn /\ interest.turn \in noted \cup {0}
      BY DEF AgentInv
    <3> QED
      BY <3>1, <1>1, <1>2, <2>1, LegacyAgentAssumption
  <2>9. InterestIsCurrent'
    BY <2>1 DEF AgentInv, InterestIsCurrent
  <2>10. activeTurn' \in {0, newestTurn'} /\ noted' \cup late' \subseteq 1 .. newestTurn'
    BY <2>1, <2>7, <2>8
  <2> QED
    BY <2>1, <2>2, <2>3, <2>4, <2>5, <2>6, <2>8, <2>9, <2>10, OneTurnMoves
<1>3. CASE ~(w.turn > newestTurn)
  <2> PICK x : x = Ended(w, "stale")
    OBVIOUS
  <2>1. /\ work' = [work EXCEPT ![r] = x]
        /\ UNCHANGED <<newestTurn, interest, noted, late, activeTurn>>
    BY <1>3 DEF Enter
  <2>2. /\ IsTurn(x) /\ x.at = "answered" /\ x.todo = <<>>
        /\ x.act = w.act /\ (x.valid <=> w.valid) /\ x.turn = w.turn
        /\ x.m = w.m /\ x.seen = w.seen /\ x.selected = w.selected
        /\ x.byModel = w.byModel /\ x.keyed = w.keyed /\ x.asked = w.asked
    BY <1>1, EndedIs
  <2>3. Runs(x, newestTurn)
    BY <2>2, <1>1 DEF Runs, Stages, Tasks
  <2>4. Behaves(x) /\ NotesInOrder(x, newestTurn, late)
    BY <2>2, <1>1 DEF Behaves, NotesInOrder
  <2> QED
    BY <2>1, <2>2, <2>3, <2>4, OneTurnAlone
<1> QED
  BY <1>2, <1>3

\* A decision: whatever it is, nothing is stored yet.
LEMMA DecisionKeeps ==
    ASSUME AgentInv, NEW r \in Askers, NEW w, w = work[r], w.at \in {"entered", "wondering"},
           UNCHANGED <<newestTurn, interest, noted, late, activeTurn>>,
           NEW x, work' = [work EXCEPT ![r] = x], IsTurn(x), x.at = "decided",
           x.todo \in {Ordinary, Clarification, AllItems},
           x.turn = w.turn, x.m = w.m, x.asked = w.asked, x.keyed = w.keyed, x.status = w.status,
           Behaves(x)
    PROVE  AgentInv'
<1>1. Runs(w, newestTurn)
  BY DEF AgentInv
<1>2. /\ x.todo \in Tasks /\ x.todo # <<>> /\ Head(x.todo) # "note"
  <2>1. CASE x.todo = Ordinary
    BY <2>1 DEF Tasks, Ordinary
  <2>2. CASE x.todo = Clarification
    BY <2>2 DEF Tasks, Clarification
  <2>3. CASE x.todo = AllItems
    BY <2>3 DEF Tasks, AllItems
  <2> QED
    BY <2>1, <2>2, <2>3
<1>3. Runs(x, newestTurn)
  BY <1>1, <1>2 DEF Runs, Stages
<1>4. NotesInOrder(x, newestTurn, late)
  BY <1>2 DEF NotesInOrder
<1> QED
  BY <1>3, <1>4, OneTurnAlone

\* The model is called at most once a turn, and never for a message of the boundary.
LEMMA WonderingKeeps ==
    ASSUME AgentInv, NEW r \in Askers, NEW w, w = work[r], w.at \in {"entered", "wondering"}, w.asked = 0,
           UNCHANGED <<newestTurn, interest, noted, late, activeTurn>>,
           work' = [work EXCEPT ![r] = Wondering(w)], ~HardBoundary(w.m)
    PROVE  AgentInv'
<1> PICK x : x = Wondering(w)
  OBVIOUS
<1>1. IsTurn(w) /\ Runs(w, newestTurn) /\ Behaves(w)
  BY DEF AgentInv
<1>2. /\ IsTurn(x) /\ x.at = "wondering" /\ x.asked = 1
      /\ x.act = w.act /\ (x.valid <=> w.valid) /\ x.todo = w.todo /\ x.turn = w.turn
      /\ x.m = w.m /\ x.seen = w.seen /\ x.selected = w.selected
      /\ x.byModel = w.byModel /\ x.keyed = w.keyed /\ x.status = w.status
  BY <1>1, WonderingIs
<1>3. Runs(x, newestTurn)
  BY <1>1, <1>2 DEF Runs, Stages
<1>4. Behaves(x)
  BY <1>1, <1>2 DEF Behaves
<1>5. NotesInOrder(x, newestTurn, late)
  BY <1>1, <1>2 DEF NotesInOrder, Runs
<1> QED
  BY <1>2, <1>3, <1>4, <1>5, OneTurnAlone

\* So of the rules' own decisions,
LEMMA DecidedKeeps ==
    ASSUME AgentInv, NEW r \in Askers, NEW w, w = work[r], w.at \in {"entered", "wondering"},
           UNCHANGED <<newestTurn, interest, noted, late, activeTurn>>,
           NEW a, NEW x, x = Decided(w, a, Ordinary), work' = [work EXCEPT ![r] = x],
           a.does = "update" => a = PlannedUpdate(w.m, w.seen, w.selected),
           HardBoundary(w.m) => a.does \notin Keyed
    PROVE  AgentInv'
<1>1. IsTurn(w) /\ Behaves(w)
  BY DEF AgentInv
<1>2. /\ IsTurn(x) /\ x.at = "decided" /\ x.act = a /\ (x.valid <=> Allows(w.seen, a)) /\ x.todo = Ordinary
      /\ x.turn = w.turn /\ x.m = w.m /\ x.seen = w.seen /\ x.selected = w.selected
      /\ x.asked = w.asked /\ x.keyed = w.keyed /\ x.status = w.status
  BY <1>1, DecidedIs
<1>3. Behaves(x)
  BY <1>1, <1>2 DEF Behaves
<1> QED
  BY <1>2, <1>3, DecisionKeeps, ZenonT(60)

\* and of a question back.
LEMMA ClarifiedKeeps ==
    ASSUME AgentInv, NEW r \in Askers, NEW w, w = work[r], w.at \in {"entered", "wondering"},
           UNCHANGED <<newestTurn, interest, noted, late, activeTurn>>,
           NEW todo \in {Clarification, AllItems},
           NEW x, x = Clarified(w, todo), work' = [work EXCEPT ![r] = x]
    PROVE  AgentInv'
<1>1. IsTurn(w) /\ Behaves(w)
  BY DEF AgentInv
<1>2. /\ IsTurn(x) /\ x.at = "decided" /\ x.act = NoAct /\ (x.valid <=> Allows(w.seen, NoAct)) /\ x.todo = todo
      /\ x.turn = w.turn /\ x.m = w.m /\ x.seen = w.seen /\ x.selected = w.selected
      /\ x.asked = w.asked /\ x.keyed = w.keyed /\ x.status = w.status
  BY <1>1, ClarifiedIs
<1>3. NoAct.does \notin Keyed
  BY DEF NoAct, Act, Keyed
<1>4. Behaves(x)
  BY <1>1, <1>2, <1>3 DEF Behaves, Keyed
<1> QED
  BY <1>2, <1>4, DecisionKeeps, ZenonT(60)

LEMMA InterpretKeeps ==
    ASSUME AgentInv, NEW r \in Askers, Interpret(r)
    PROVE  AgentInv'
<1> PICK w : w = work[r]
  OBVIOUS
<1>1. Runs(w, newestTurn) /\ w.at = "entered" /\ w.asked = 0
  BY DEF AgentInv, Runs, Interpret
<1>2. UNCHANGED <<newestTurn, interest, noted, late, activeTurn>>
  BY DEF Interpret
<1>3. work' = [work EXCEPT ![r] = Considered(w)]
  BY DEF Interpret
<1>4. CASE Considered(w) = Wondering(w) /\ ~HardBoundary(w.m)
  BY <1>1, <1>2, <1>3, <1>4, WonderingKeeps
<1>5. ASSUME NEW a, Considered(w) = Decided(w, a, Ordinary),
             a.does = "update" => a = PlannedUpdate(w.m, w.seen, w.selected),
             HardBoundary(w.m) => a.does \notin Keyed
      PROVE  AgentInv'
  <2>1. work' = [work EXCEPT ![r] = Decided(w, a, Ordinary)]
    BY <1>3, <1>5
  <2> QED
    BY <1>1, <1>2, <1>5, <2>1, DecidedKeeps
<1>6. ASSUME NEW todo \in {Clarification, AllItems}, Considered(w) = Clarified(w, todo)
      PROVE  AgentInv'
  <2>1. work' = [work EXCEPT ![r] = Clarified(w, todo)]
    BY <1>3, <1>6
  <2> QED
    BY <1>1, <1>2, <1>6, <2>1, ClarifiedKeeps
<1> QED
  BY <1>4, <1>5, <1>6, ConsideredFacts

LEMMA ModelAnswersKeeps ==
    ASSUME AgentInv, NEW r \in Askers, NEW a, NEW f, ModelAnswers(r, a, f)
    PROVE  AgentInv'
<1> PICK w, y : w = work[r] /\ y = Decided(w, a, Ordinary)
  OBVIOUS
<1> PICK x : x = [y EXCEPT !.byModel = TRUE, !.feature = f]
  OBVIOUS
<1>1. IsTurn(w) /\ Runs(w, newestTurn) /\ Behaves(w) /\ w.at = "wondering"
  BY DEF AgentInv, ModelAnswers
<1>2. work' = [work EXCEPT ![r] = x] /\ UNCHANGED <<newestTurn, interest, noted, late, activeTurn>>
  BY DEF ModelAnswers
<1>3. /\ IsTurn(y) /\ y.at = "decided" /\ y.act = a /\ (y.valid <=> Allows(w.seen, a)) /\ y.todo = Ordinary
      /\ y.turn = w.turn /\ y.m = w.m /\ y.seen = w.seen /\ y.selected = w.selected
      /\ y.asked = w.asked /\ y.keyed = w.keyed /\ y.status = w.status
  BY <1>1, DecidedIs
<1>4. /\ IsTurn(x) /\ x.at = "decided" /\ x.act = a /\ (x.valid <=> Allows(w.seen, a)) /\ x.todo = Ordinary
      /\ x.turn = w.turn /\ x.m = w.m /\ x.seen = w.seen /\ x.selected = w.selected
      /\ x.asked = w.asked /\ x.keyed = w.keyed /\ x.status = w.status /\ x.byModel
  BY <1>3 DEF IsTurn, TurnFields
<1>5. ~HardBoundary(w.m)
  BY <1>1 DEF Behaves
<1>6. Behaves(x)
  BY <1>1, <1>4, <1>5 DEF Behaves
<1> QED
  BY <1>1, <1>2, <1>4, <1>6, DecisionKeeps, ZenonT(60)

\* The planner is left, and asks the model no second time.
LEMMA ModelFailsKeeps ==
    ASSUME AgentInv, NEW r \in Askers, ModelFails(r)
    PROVE  AgentInv'
<1> PICK w : w = work[r]
  OBVIOUS
<1> PICK a : a = Plan(w.m, w.seen, w.selected)
  OBVIOUS
<1>1. Runs(w, newestTurn) /\ Behaves(w) /\ w.at = "wondering" /\ w.asked = 1
  BY DEF AgentInv, Runs, ModelFails
<1>2. UNCHANGED <<newestTurn, interest, noted, late, activeTurn>>
  BY DEF ModelFails
<1>3. work' = [work EXCEPT ![r] = Decided(w, a, Ordinary)]
  BY <1>1 DEF Planned, ModelFails
<1>4. ~HardBoundary(w.m)
  BY <1>1 DEF Behaves
<1>5. a.does = "update" => a = PlannedUpdate(w.m, w.seen, w.selected)
  BY PlanFacts
<1> QED
  BY <1>1, <1>2, <1>3, <1>4, <1>5, DecidedKeeps

\* A task done: the turn goes on with the rest of its list.
LEMMA TaskKeeps ==
    ASSUME AgentInv, NEW r \in Askers, NEW w, w = work[r], w.at = "decided", Head(w.todo) # "close",
           NEW x, IsTurn(x), x.todo = Tail(w.todo), x.at = w.at, x.status = w.status, x.act = w.act,
           x.valid <=> w.valid, x.turn = w.turn, x.m = w.m, x.seen = w.seen, x.selected = w.selected,
           x.byModel = w.byModel, x.keyed = w.keyed, x.asked = w.asked,
           Head(w.todo) = "check" => w.turn = newestTurn
    PROVE  IsTurn(x) /\ Runs(x, newestTurn) /\ Behaves(x) /\ NotesInOrder(x, newestTurn, late)
<1>1. Runs(w, newestTurn) /\ Behaves(w)
  BY DEF AgentInv
<1>2. /\ Tail(w.todo) \in Tasks /\ Tail(w.todo) # <<>>
      /\ Head(Tail(w.todo)) = "note" => Head(w.todo) = "check"
  <2>1. w.todo \in Tasks /\ w.todo # <<>>
    BY <1>1 DEF Runs
  <2> QED
    BY <2>1, TasksFollow
<1>3. Runs(x, newestTurn)
  BY <1>1, <1>2 DEF Runs
<1>4. Behaves(x)
  BY <1>1 DEF Behaves
<1>5. NotesInOrder(x, newestTurn, late)
  BY <1>2 DEF NotesInOrder
<1> QED
  BY <1>3, <1>4, <1>5

LEMMA CheckKeeps ==
    ASSUME AgentInv, NEW r \in Askers, CheckStillActive(r)
    PROVE  AgentInv'
<1> PICK w : w = work[r]
  OBVIOUS
<1>1. /\ IsTurn(w) /\ Runs(w, newestTurn) /\ Behaves(w) /\ w.at = "decided" /\ w.turn >= 1
      /\ Head(w.todo) = "check"
  BY DEF AgentInv, Runs, CheckStillActive, Todo
<1>2. UNCHANGED <<newestTurn, interest, noted, late, activeTurn>>
  BY DEF CheckStillActive
<1>3. CASE activeTurn = w.turn
  <2> PICK x : x = Did(w)
    OBVIOUS
  <2>1. work' = [work EXCEPT ![r] = x]
    BY <1>3 DEF CheckStillActive
  <2>2. w.turn = newestTurn
    BY <1>1, <1>3 DEF AgentInv
  <2>3. /\ IsTurn(x) /\ x.todo = Tail(w.todo) /\ x.at = w.at /\ x.status = w.status
        /\ x.act = w.act /\ (x.valid <=> w.valid) /\ x.turn = w.turn
        /\ x.m = w.m /\ x.seen = w.seen /\ x.selected = w.selected
        /\ x.byModel = w.byModel /\ x.keyed = w.keyed /\ x.asked = w.asked
    BY <1>1, DidIs
  <2>4. IsTurn(x) /\ Runs(x, newestTurn) /\ Behaves(x) /\ NotesInOrder(x, newestTurn, late)
    BY <1>1, <2>2, <2>3, TaskKeeps
  <2> QED
    BY <1>2, <2>1, <2>4, OneTurnAlone
<1>4. CASE activeTurn # w.turn
  <2> PICK x : x = Ended(w, "stale")
    OBVIOUS
  <2>1. work' = [work EXCEPT ![r] = x]
    BY <1>4 DEF CheckStillActive
  <2>2. /\ IsTurn(x) /\ x.at = "answered" /\ x.todo = <<>>
        /\ x.act = w.act /\ (x.valid <=> w.valid) /\ x.turn = w.turn
        /\ x.m = w.m /\ x.seen = w.seen /\ x.selected = w.selected
        /\ x.byModel = w.byModel /\ x.keyed = w.keyed /\ x.asked = w.asked
    BY <1>1, EndedIs
  <2>3. Runs(x, newestTurn)
    BY <2>2, <1>1 DEF Runs, Stages, Tasks
  <2>4. Behaves(x) /\ NotesInOrder(x, newestTurn, late)
    BY <2>2, <1>1 DEF Behaves, NotesInOrder
  <2> QED
    BY <1>2, <2>1, <2>2, <2>3, <2>4, OneTurnAlone
<1> QED
  BY <1>3, <1>4

\* An older turn's signal is stored last only when that turn was overtaken before.
LEMMA StoreKeeps ==
    ASSUME AgentInv, NEW r \in Askers, StoreSignals(r)
    PROVE  AgentInv'
<1> PICK w, x : w = work[r] /\ x = Did(w)
  OBVIOUS
<1>1. /\ IsTurn(w) /\ Runs(w, newestTurn) /\ Behaves(w) /\ NotesInOrder(w, newestTurn, late)
      /\ w.at = "decided" /\ Head(w.todo) = "note" /\ w.todo # <<>>
      /\ w.turn \in 1 .. newestTurn /\ newestTurn \in Nat
  BY LegacyAgentAssumption DEF AgentInv, Runs, StoreSignals, Todo
<1>2. work' = [work EXCEPT ![r] = x] /\ UNCHANGED <<newestTurn, late, activeTurn>>
  BY DEF StoreSignals
<1>3. /\ IsTurn(x) /\ x.todo = Tail(w.todo) /\ x.at = w.at /\ x.status = w.status
      /\ x.act = w.act /\ (x.valid <=> w.valid) /\ x.turn = w.turn
      /\ x.m = w.m /\ x.seen = w.seen /\ x.selected = w.selected
      /\ x.byModel = w.byModel /\ x.keyed = w.keyed /\ x.asked = w.asked
  BY <1>1, DidIs
<1>4. IsTurn(x) /\ Runs(x, newestTurn) /\ Behaves(x) /\ NotesInOrder(x, newestTurn, late)
  BY <1>1, <1>3, TaskKeeps
<1>5. CASE UNCHANGED <<interest, noted>>
  <2>1. activeTurn' \in {0, activeTurn}
    BY <1>2
  <2> QED
    BY <1>2, <1>4, <1>5, <2>1, OneTurnAlone
<1>6. CASE interest' = [feature |-> w.feature, turn |-> w.turn] /\ noted' = noted \cup {w.turn}
  <2>1. interest'.turn = w.turn
    BY <1>6
  <2>2. /\ newestTurn' \in newestTurn .. LastTurn /\ activeTurn' \in {0, newestTurn'}
        /\ interest'.turn \in noted' \cup {0} /\ noted' \cup late' \subseteq 1 .. newestTurn'
    BY <2>1, <1>1, <1>2, <1>6, LegacyAgentAssumption DEF AgentInv
  <2>3. \A s \in Askers \ {r} : NotesInOrder(work[s], newestTurn', late')
    BY <1>2 DEF AgentInv
  <2>4. InterestIsCurrent'
    <3>1. ASSUME NEW t \in noted', t > w.turn PROVE w.turn \in late
      <4>1. t \in 1 .. newestTurn
        BY <2>2, <1>2
      <4>2. w.turn # newestTurn
        BY <1>1, <3>1, <4>1
      <4> QED
        BY <1>1, <4>2 DEF NotesInOrder
    <3> QED
      BY <3>1, <2>1, <1>2 DEF InterestIsCurrent
  <2>5. Runs(x, newestTurn') /\ NotesInOrder(x, newestTurn', late')
    BY <1>2, <1>4
  <2> QED
    BY <1>2, <1>4, <2>2, <2>3, <2>4, <2>5, OneTurnMoves
<1> QED
  BY <1>5, <1>6 DEF StoreSignals

LEMMA ReadContextKeeps ==
    ASSUME AgentInv, NEW r \in Askers, ReadContext(r)
    PROVE  AgentInv'
<1> PICK w, y : w = work[r] /\ y = Did(w)
  OBVIOUS
<1> PICK x : x = [y EXCEPT !.recalled = interests]
  OBVIOUS
<1>1. /\ IsTurn(w) /\ Runs(w, newestTurn) /\ w.at = "decided" /\ Head(w.todo) = "recall"
  BY DEF AgentInv, Runs, ReadContext, Todo
<1>2. work' = [work EXCEPT ![r] = x] /\ UNCHANGED <<newestTurn, interest, noted, late, activeTurn>>
  BY DEF ReadContext
<1>3. /\ IsTurn(y) /\ y.todo = Tail(w.todo) /\ y.at = w.at /\ y.status = w.status
      /\ y.act = w.act /\ (y.valid <=> w.valid) /\ y.turn = w.turn
      /\ y.m = w.m /\ y.seen = w.seen /\ y.selected = w.selected
      /\ y.byModel = w.byModel /\ y.keyed = w.keyed /\ y.asked = w.asked
  BY <1>1, DidIs
<1>4. /\ IsTurn(x) /\ x.todo = Tail(w.todo) /\ x.at = w.at /\ x.status = w.status
      /\ x.act = w.act /\ (x.valid <=> w.valid) /\ x.turn = w.turn
      /\ x.m = w.m /\ x.seen = w.seen /\ x.selected = w.selected
      /\ x.byModel = w.byModel /\ x.keyed = w.keyed /\ x.asked = w.asked
  BY <1>3 DEF IsTurn, TurnFields
<1>5. Head(w.todo) # "close" /\ Head(w.todo) # "check" /\ w = work[r]
  BY <1>1
<1>6. IsTurn(x) /\ Runs(x, newestTurn) /\ Behaves(x) /\ NotesInOrder(x, newestTurn, late)
  BY <1>1, <1>4, <1>5, TaskKeeps
<1> QED
  BY <1>2, <1>6, OneTurnAlone

LEMMA WriteContextKeeps ==
    ASSUME AgentInv, NEW r \in Askers, WriteContext(r)
    PROVE  AgentInv'
<1> PICK w, x : w = work[r] /\ x = Did(w)
  OBVIOUS
<1>1. /\ IsTurn(w) /\ Runs(w, newestTurn) /\ w.at = "decided" /\ Head(w.todo) = "write"
  BY DEF AgentInv, Runs, WriteContext, Todo
<1>2. work' = [work EXCEPT ![r] = x] /\ UNCHANGED <<newestTurn, interest, noted, late, activeTurn>>
  BY DEF WriteContext
<1>3. /\ IsTurn(x) /\ x.todo = Tail(w.todo) /\ x.at = w.at /\ x.status = w.status
      /\ x.act = w.act /\ (x.valid <=> w.valid) /\ x.turn = w.turn
      /\ x.m = w.m /\ x.seen = w.seen /\ x.selected = w.selected
      /\ x.byModel = w.byModel /\ x.keyed = w.keyed /\ x.asked = w.asked
  BY <1>1, DidIs
<1>4. IsTurn(x) /\ Runs(x, newestTurn) /\ Behaves(x) /\ NotesInOrder(x, newestTurn, late)
  BY <1>1, <1>3, TaskKeeps
<1> QED
  BY <1>2, <1>4, OneTurnAlone

\* Only what is valid goes on to become a key.
LEMMA CompleteKeeps ==
    ASSUME AgentInv, NEW r \in Askers, Complete(r)
    PROVE  AgentInv'
<1> PICK w : w = work[r]
  OBVIOUS
<1>1. IsTurn(w) /\ Runs(w, newestTurn) /\ Behaves(w) /\ w.at = "decided"
  BY DEF AgentInv, Runs, Complete, Todo
<1>2. UNCHANGED <<newestTurn, interest, noted, late>> /\ activeTurn' \in {0, activeTurn}
  BY DEF Complete
<1>3. CASE w.valid /\ w.act.does \in Keyed
  <2> PICK x : x = [w EXCEPT !.at = "adapting", !.todo = <<>>]
    OBVIOUS
  <2>1. work' = [work EXCEPT ![r] = x]
    BY <1>3 DEF Complete
  <2>2. /\ IsTurn(x) /\ x.at = "adapting" /\ x.todo = <<>> /\ x.turn = w.turn /\ x.m = w.m
        /\ x.seen = w.seen /\ x.selected = w.selected /\ x.act = w.act /\ (x.valid <=> w.valid)
        /\ x.byModel = w.byModel /\ x.keyed = w.keyed /\ x.asked = w.asked /\ x.status = w.status
    BY <1>1 DEF IsTurn, TurnFields
  <2>3. Runs(x, newestTurn)
    BY <2>2, <1>1 DEF Runs, Stages, Tasks
  <2>4. Behaves(x) /\ NotesInOrder(x, newestTurn, late)
    BY <2>2, <1>1, <1>3 DEF Behaves, NotesInOrder
  <2> QED
    BY <1>2, <2>1, <2>2, <2>3, <2>4, OneTurnAlone
<1>4. CASE ~(w.valid /\ w.act.does \in Keyed)
  <2> PICK status : status = IF w.act # NoAct /\ ~w.valid THEN "denied" ELSE "completed"
    OBVIOUS
  <2> PICK x : x = Ended(w, status)
    OBVIOUS
  <2>1. work' = [work EXCEPT ![r] = x]
    BY <1>4 DEF Complete
  <2>2. /\ IsTurn(x) /\ x.at = "answered" /\ x.todo = <<>>
        /\ x.act = w.act /\ (x.valid <=> w.valid) /\ x.turn = w.turn
        /\ x.m = w.m /\ x.seen = w.seen /\ x.selected = w.selected
        /\ x.byModel = w.byModel /\ x.keyed = w.keyed /\ x.asked = w.asked
    BY <1>1, EndedIs
  <2>3. Runs(x, newestTurn)
    BY <2>2, <1>1 DEF Runs, Stages, Tasks
  <2>4. Behaves(x) /\ NotesInOrder(x, newestTurn, late)
    BY <2>2, <1>1 DEF Behaves, NotesInOrder
  <2> QED
    BY <1>2, <2>1, <2>2, <2>3, <2>4, OneTurnAlone
<1> QED
  BY <1>3, <1>4

LEMMA AdaptKeeps ==
    ASSUME AgentInv, NEW r \in Askers, Adapt(r)
    PROVE  AgentInv'
<1> PICK w : w = work[r]
  OBVIOUS
<1>1. IsTurn(w) /\ Runs(w, newestTurn) /\ Behaves(w) /\ w.at = "adapting"
  BY DEF AgentInv, Adapt
<1>2. UNCHANGED <<newestTurn, interest, noted, late, activeTurn>>
  BY DEF Adapt
<1>3. CASE newestTurn = w.turn
  <2> PICK y : y = Ended(w, "completed")
    OBVIOUS
  <2> PICK x : x = [y EXCEPT !.keyed = TRUE]
    OBVIOUS
  <2>1. work' = [work EXCEPT ![r] = x]
    BY <1>3 DEF Adapt
  <2>2. /\ IsTurn(y) /\ y.at = "answered" /\ y.status = "completed" /\ y.todo = <<>>
        /\ y.act = w.act /\ (y.valid <=> w.valid) /\ y.turn = w.turn
        /\ y.m = w.m /\ y.seen = w.seen /\ y.selected = w.selected
        /\ y.byModel = w.byModel /\ y.asked = w.asked
    BY <1>1, EndedIs
  <2>3. /\ IsTurn(x) /\ x.at = "answered" /\ x.status = "completed" /\ x.todo = <<>>
        /\ x.act = w.act /\ (x.valid <=> w.valid) /\ x.turn = w.turn
        /\ x.m = w.m /\ x.seen = w.seen /\ x.selected = w.selected
        /\ x.byModel = w.byModel /\ x.asked = w.asked
    BY <2>2 DEF IsTurn, TurnFields
  <2>4. ~HardBoundary(w.m)
    BY <1>1 DEF Behaves
  <2>5. Runs(x, newestTurn)
    BY <2>3, <1>1 DEF Runs, Stages, Tasks
  <2>6. Behaves(x) /\ NotesInOrder(x, newestTurn, late)
    BY <2>3, <2>4, <1>1 DEF Behaves, NotesInOrder
  <2> QED
    BY <1>2, <2>1, <2>3, <2>5, <2>6, OneTurnAlone
<1>4. CASE newestTurn # w.turn
  <2> PICK y : y = Ended(w, "stale")
    OBVIOUS
  <2> PICK x : x = [y EXCEPT !.valid = FALSE]
    OBVIOUS
  <2>1. work' = [work EXCEPT ![r] = x]
    BY <1>4 DEF Adapt
  <2>2. /\ IsTurn(y) /\ y.at = "answered" /\ y.todo = <<>>
        /\ y.act = w.act /\ y.turn = w.turn /\ y.m = w.m /\ y.seen = w.seen /\ y.selected = w.selected
        /\ y.byModel = w.byModel /\ y.asked = w.asked /\ y.keyed = w.keyed
    BY <1>1, EndedIs
  <2>3. /\ IsTurn(x) /\ x.at = "answered" /\ x.todo = <<>> /\ ~x.valid
        /\ x.act = w.act /\ x.turn = w.turn /\ x.m = w.m /\ x.seen = w.seen /\ x.selected = w.selected
        /\ x.byModel = w.byModel /\ x.asked = w.asked /\ x.keyed = w.keyed
    BY <2>2 DEF IsTurn, TurnFields
  <2>4. Runs(x, newestTurn)
    BY <2>3, <1>1 DEF Runs, Stages, Tasks
  <2>5. Behaves(x) /\ NotesInOrder(x, newestTurn, late)
    BY <2>3, <1>1 DEF Behaves, NotesInOrder
  <2> QED
    BY <1>2, <2>1, <2>3, <2>4, <2>5, OneTurnAlone
<1> QED
  BY <1>3, <1>4

\* Nothing of a turn is in these.
LEMMA AroundTurnsKeeps ==
    ASSUME AgentInv, UNCHANGED <<newestTurn, interest, work, noted, late>>, activeTurn' \in {0, activeTurn}
    PROVE  AgentInv'
BY DEF AgentInv, InterestIsCurrent

LEMMA InitAgentInv ==
    ASSUME AgentInit
    PROVE  AgentInv
<1>1. /\ newestTurn \in 0 .. LastTurn /\ activeTurn \in {0, newestTurn}
      /\ interest.turn \in noted \cup {0} /\ noted \cup late \subseteq 1 .. newestTurn
      /\ InterestIsCurrent
  BY LegacyAgentAssumption DEF AgentInit, InterestIsCurrent
<1>2. IsTurn(Idle)
  BY DEF IsTurn, TurnFields, Idle
<1>3. /\ Idle.at = "idle" /\ Idle.turn = 0 /\ Idle.m = Remark /\ Idle.asked = 0 /\ ~Idle.keyed
      /\ Idle.todo = <<>> /\ ~Idle.valid /\ Idle.act = NoAct
  BY DEF Idle
<1>4. Runs(Idle, newestTurn)
  <2>1. 0 \in 0 .. LastTurn
    BY LegacyAgentAssumption
  <2> QED
    BY <1>3, <2>1 DEF Runs, Stages, Tasks
<1>5. Behaves(Idle) /\ NotesInOrder(Idle, newestTurn, late)
  BY <1>3 DEF Behaves, NotesInOrder, NoAct, Act, Keyed
<1>6. work = [r \in Askers |-> Idle]
  BY DEF AgentInit
<1> QED
  BY <1>1, <1>2, <1>4, <1>5, <1>6 DEF AgentInv

LEMMA StepAgentInv ==
    ASSUME AgentInv, [AgentNext]_agentVars
    PROVE  AgentInv'
<1>1. ASSUME NEW r \in Askers, NEW t \in 1 .. LastTurn, NEW m \in Remarks, NEW i, Receive(r, t, m, i)
      PROVE  AgentInv'
  BY <1>1, ReceiveKeeps
<1>2. ASSUME NEW r \in Askers, TurnSteps(r) PROVE AgentInv'
  BY <1>2, EnterKeeps, InterpretKeeps, ModelAnswersKeeps, ModelFailsKeeps, CheckKeeps, StoreKeeps,
     ReadContextKeeps, WriteContextKeeps, CompleteKeeps, AdaptKeeps DEF TurnSteps
<1>3. ASSUME NEW t, CancelActive(t) PROVE AgentInv'
  BY <1>3, AroundTurnsKeeps DEF CancelActive
<1>4. ASSUME NEW records, ChangeRecords(records) PROVE AgentInv'
  BY <1>4, AroundTurnsKeeps DEF ChangeRecords
<1>5. CASE UNCHANGED agentVars
  BY <1>5, AroundTurnsKeeps DEF agentVars
<1> QED
  BY <1>1, <1>2, <1>3, <1>4, <1>5 DEF AgentNext

\* What the legacy engine may do with a message, whatever the rules find in it, the model proposes
\* and the members change meanwhile (agent.py handle_turn, legacy_adapter.py).
THEOREM LegacyContained == AgentSpec => []LegacyTurnsAreContained
<1>1. AgentInit => AgentInv
  BY InitAgentInv
<1>2. AgentInv /\ [AgentNext]_agentVars => AgentInv'
  BY StepAgentInv
<1>3. AgentInv => LegacyTurnsAreContained
  BY TurnPromises DEF AgentInv, LegacyTurnsAreContained
<1> QED
  BY <1>1, <1>2, <1>3, PTL DEF AgentSpec

\* Every turn knows what is left to do, the model is asked once, and only the newest turn is active.
THEOREM AgentTyped == AgentSpec => []AgentTypeOK
<1>1. AgentInit => AgentInv
  BY InitAgentInv
<1>2. AgentInv /\ [AgentNext]_agentVars => AgentInv'
  BY StepAgentInv
<1>3. AgentInv => AgentTypeOK
  BY DEF AgentInv, Runs, Stages, AgentTypeOK
<1> QED
  BY <1>1, <1>2, <1>3, PTL DEF AgentSpec

-----------------------------------------------------------------------------
(* The definition engine: what routing makes of a message, whatever it is. *)

MemoryFields == {"question", "confirmation", "focus", "follow"}
QuestionFields ==
    {"slot", "key", "does", "candidates", "single", "ticket", "person", "level", "title", "field", "context",
     "age", "repeats"}
ActionFields == {"does", "ticket", "person", "level", "title"}
ResultFields == {"kind", "act", "reason", "mem", "kept"}

\* A question, if any, keeps the request it was asked for.
IsQuestion(q) == q = NoQuestion \/ (DOMAIN q = QuestionFields /\ q.context.asks \in Rules)
IsMemory(mem) ==
    /\ DOMAIN mem = MemoryFields /\ IsQuestion(mem.question)
    /\ mem.focus \in Tickets \cup {Nothing}
IsAction(a) == DOMAIN a = ActionFields

\* A memory that waits for no yes, or for nothing at all.
Unconfirmed(mem) == IsMemory(mem) /\ mem.confirmation = NoConfirmation
Clear(mem) == Unconfirmed(mem) /\ mem.question = NoQuestion

\* A result of routing which is no yes: nothing waits for a yes yet, what awaits one follows no
\* open question, and what needs none is not one of the changes that do.
Routed(r) ==
    /\ DOMAIN r = ResultFields /\ Unconfirmed(r.mem) /\ IsAction(r.act)
    /\ r.kind \in {"fallback", "clarify", "propose", "confirm", "answer", "cancelled", "refuse"}
    /\ r.kind \in {"fallback", "confirm"} => r.mem.question = NoQuestion
    /\ r.reason # "yes" /\ (r.kind # "confirm" => r.reason = "none")
    /\ r.kind = "confirm" => r.reason # "none"
    /\ r.kind = "propose" => r.act.does \notin product.confirms

LEMMA ResultIs ==
    ASSUME NEW kind \in {"clarify", "answer", "cancelled", "refuse", "fallback"}, NEW mem, Unconfirmed(mem),
           kind = "fallback" => mem.question = NoQuestion, NEW kept
    PROVE  Routed(Result(kind, mem, kept)) /\ Result(kind, mem, kept).kind = kind /\ Result(kind, mem, kept).mem = mem
BY DEF Result, Routed, ResultFields, IsAction, ActionFields, NoAction

\* What is proposed waits for a yes whenever the definition wants one.
LEMMA ProposeIs ==
    ASSUME product \in Products, NEW a, IsAction(a), NEW corrected, NEW mem, Unconfirmed(mem),
           a.does \in Changes => mem.question = NoQuestion, NEW kept
    PROVE  Routed(Propose(a, corrected, mem, kept)) /\ Propose(a, corrected, mem, kept).act = a
           /\ Propose(a, corrected, mem, kept).mem = mem
           /\ Propose(a, corrected, mem, kept).kind \in {"propose", "confirm"}
<1> PICK why : why = ConfirmationReason(a, corrected, FALSE)
  OBVIOUS
<1> PICK r : r = Propose(a, corrected, mem, kept)
  OBVIOUS
<1>1. product.confirms \subseteq Changes
  BY DialogueAssumption DEF Changes
<1>2. /\ why \in {"none", "definition", "correction"}
      /\ why = "none" => a.does \notin product.confirms
      /\ why # "none" => a.does \in Changes
  BY <1>1 DEF ConfirmationReason
<1>3. r = [kind |-> IF why = "none" THEN "propose" ELSE "confirm", act |-> a, reason |-> why,
           mem |-> mem, kept |-> kept]
  BY DEF Propose, Result
<1>4. /\ DOMAIN r = ResultFields /\ r.act = a /\ r.reason = why /\ r.mem = mem
      /\ r.kind = IF why = "none" THEN "propose" ELSE "confirm"
  BY <1>3 DEF ResultFields
<1>5. Routed(r)
  BY <1>2, <1>4 DEF Routed
<1> QED
  BY <1>4, <1>5

LEMMA AskingIs ==
    ASSUME NEW mem, Unconfirmed(mem), NEW q, IsQuestion(q)
    PROVE  Unconfirmed(Asking(mem, q)) /\ Asking(mem, q).question = q
BY DEF Unconfirmed, IsMemory, Asking, MemoryFields

LEMMA AnsweredIs ==
    ASSUME NEW mem, IsMemory(mem)
    PROVE  /\ IsMemory(Answered(mem)) /\ Answered(mem).question = NoQuestion
           /\ Answered(mem).confirmation = mem.confirmation
BY DEF IsMemory, Answered, MemoryFields, IsQuestion

LEMMA DiscardedIs ==
    ASSUME NEW mem, IsMemory(mem)
    PROVE  Clear(Discarded(mem))
BY DEF Clear, Unconfirmed, IsMemory, Discarded, MemoryFields, IsQuestion

LEMMA QuestionIs ==
    ASSUME NEW slot, NEW key, NEW does, NEW candidates, NEW ticket, NEW level, NEW context, context.asks \in Rules
    PROVE  /\ IsQuestion(Question(slot, key, does, candidates, ticket, level, context))
           /\ Question(slot, key, does, candidates, ticket, level, context) # NoQuestion
           /\ Question(slot, key, does, candidates, ticket, level, context).slot = slot
BY DEF Question, IsQuestion, QuestionFields, NoQuestion

LEMMA JoinedIs ==
    ASSUME NEW before, before.asks \in Rules, NEW m, m.asks \in Rules
    PROVE  Joined(before, m).asks \in Rules
BY DEF Joined, Plain

LEMMA ViewIs ==
    ASSUME product \in Products, NEW mem, Unconfirmed(mem)
    PROVE  Routed(View(mem)) /\ View(mem).kind \in {"propose", "confirm"}
<1> PICK a : a = Action("view", Nothing, Nothing, Nothing, FALSE)
  OBVIOUS
<1>1. IsAction(a) /\ a.does \notin Changes
  BY DEF Action, IsAction, ActionFields, Changes
<1> QED
  BY <1>1, ProposeIs DEF View

LEMMA OfferIs ==
    ASSUME product \in Products, NEW mem, Unconfirmed(mem), NEW kept
    PROVE  Routed(Offer(mem, kept))
<1> PICK a : a = Action("offer", Nothing, Nothing, Nothing, FALSE)
  OBVIOUS
<1>1. IsAction(a) /\ a.does \notin Changes
  BY DEF Action, IsAction, ActionFields, Changes
<1> QED
  BY <1>1, ProposeIs DEF Offer

\* What a request of its own needs is met by an action, or is one of three things not met.
Unmets == {"missing", "not_visible", "ambiguous"}
Evaluated(u) ==
    /\ u.met => IsAction(u.act)
    /\ ~u.met => /\ u.reason \in Unmets
                 /\ u.reason = "missing" => u.slot \in {"record", "person", "choice"}
                 /\ u.reason = "not_visible" => u.slot \in {"record", "person"}

LEMMA MetIs ==
    ASSUME NEW a, IsAction(a)
    PROVE  Evaluated(Met(a))
BY DEF Met, Evaluated

LEMMA UnmetIs ==
    ASSUME NEW reason \in Unmets, NEW slot \in {"record", "person", "choice"},
           reason = "not_visible" => slot \in {"record", "person"},
           NEW candidates, NEW ticket, NEW level
    PROVE  Evaluated(Unmet(reason, slot, candidates, ticket, level))
BY DEF Unmet, Evaluated

LEMMA ActionIs ==
    ASSUME NEW does, NEW ticket, NEW person, NEW level, NEW title
    PROVE  IsAction(Action(does, ticket, person, level, title))
BY DEF Action, IsAction, ActionFields

LEMMA EvaluateUpdateIs ==
    ASSUME NEW m, NEW mem
    PROVE  Evaluated(EvaluateUpdate(m, mem))
<1> PICK target : target = IF m.ticket # Nothing THEN m.ticket ELSE CurrentTicket(mem)
  OBVIOUS
<1>1. \/ EvaluateUpdate(m, mem) = Unmet("not_visible", "record", <<>>, Nothing, Nothing)
      \/ EvaluateUpdate(m, mem) = Unmet("missing", "record", <<>>, Nothing, OneLevel(m))
      \/ EvaluateUpdate(m, mem) = Unmet("ambiguous", "person", SetToSeq(Seen(m)), target, Nothing)
      \/ EvaluateUpdate(m, mem) = Unmet("ambiguous", "choice", <<>>, target, Nothing)
      \/ \E a : IsAction(a) /\ EvaluateUpdate(m, mem) = Met(a)
      \/ EvaluateUpdate(m, mem) = Unmet("not_visible", "person", <<>>, target, Nothing)
      \/ EvaluateUpdate(m, mem) = Unmet("missing", "person", <<>>, target, Nothing)
      \/ EvaluateUpdate(m, mem) = Unmet("missing", "choice", <<>>, target, Nothing)
  <2> PICK a : a = Action("update", target, IF Seen(m) = {} THEN Nothing ELSE OnePerson(m), OneLevel(m), FALSE)
    OBVIOUS
  <2>1. IsAction(a)
    BY ActionIs
  <2> QED
    BY <2>1 DEF EvaluateUpdate, Unseen, Missing
<1> QED
  BY <1>1, MetIs, UnmetIs DEF Unmets

LEMMA EvaluatePersonIs ==
    ASSUME NEW does \in {"create", "list", "open"}, NEW m, NEW theirs
    PROVE  Evaluated(EvaluatePerson(does, m, theirs))
<1>1. \/ EvaluatePerson(does, m, theirs) = Unmet("ambiguous", "person", SetToSeq(Seen(m)), Nothing, Nothing)
      \/ EvaluatePerson(does, m, theirs) = Unmet("not_visible", "person", <<>>, Nothing, Nothing)
      \/ EvaluatePerson(does, m, theirs) = Unmet("missing", "person", <<>>, Nothing, Nothing)
      \/ EvaluatePerson(does, m, theirs) = Unmet("missing", "record", <<>>, Nothing, Nothing)
      \/ EvaluatePerson(does, m, theirs) = Unmet("ambiguous", "record", SetToSeq(theirs), Nothing, Nothing)
      \/ \E a : IsAction(a) /\ EvaluatePerson(does, m, theirs) = Met(a)
  <2> PICK a, b, c : /\ a = Action(does, Nothing, OnePerson(m), IF m.title THEN OneLevel(m) ELSE Nothing, m.title)
                     /\ b = Action(does, Nothing, OnePerson(m), Nothing, FALSE)
                     /\ c = Action(does, CHOOSE t \in theirs : TRUE, Nothing, Nothing, FALSE)
    OBVIOUS
  <2>1. IsAction(a) /\ IsAction(b) /\ IsAction(c)
    BY ActionIs
  <2> QED
    BY <2>1 DEF EvaluatePerson, Unseen, Missing
<1> QED
  BY <1>1, MetIs, UnmetIs DEF Unmets

LEMMA EvaluateIs ==
    ASSUME NEW m, m.asks \in Rules, MatchesARule(m), m.asks # "tie", NEW mem, NEW theirs
    PROVE  Evaluated(Evaluate(m, mem, theirs))
<1>1. CASE m.asks = "this"
  <2> PICK a : a = Action("open", CurrentTicket(mem), Nothing, Nothing, FALSE)
    OBVIOUS
  <2>1. IsAction(a)
    BY ActionIs
  <2>2. \/ Evaluate(m, mem, theirs) = Unmet("missing", "record", <<>>, Nothing, Nothing)
        \/ Evaluate(m, mem, theirs) = Met(a)
    BY <1>1 DEF Evaluate, Missing
  <2> QED
    BY <2>1, <2>2, MetIs, UnmetIs DEF Unmets
<1>2. CASE m.asks \in {"assign", "set"}
  BY <1>2, EvaluateUpdateIs DEF Evaluate, Does
<1>3. CASE m.asks \in {"create", "draft", "open", "list"}
  <2>1. Does(m) \in {"create", "list", "open"} /\ Does(m) # "update" /\ m.asks # "this"
    BY <1>3 DEF Does
  <2> QED
    BY <2>1, EvaluatePersonIs DEF Evaluate
<1> QED
  BY <1>1, <1>2, <1>3 DEF Rules, MatchesARule

LEMMA HandleUnmetIs ==
    ASSUME product \in Products, NEW u, Evaluated(u), ~u.met, NEW m, m.asks \in Rules, NEW mem, Clear(mem)
    PROVE  Routed(HandleUnmet(u, m, mem))
<1>1. Unconfirmed(mem) /\ Joined(Plain, m).asks \in Rules
  <2>1. Plain.asks \in Rules
    BY DEF Plain, Rules
  <2> QED
    BY <2>1, JoinedIs DEF Clear
<1>2. ASSUME NEW slot, NEW key, NEW does, NEW ticket, NEW candidates, NEW level
      PROVE  /\ Unconfirmed(Asking(mem, Question(slot, key, does, candidates, ticket, level, Joined(Plain, m))))
             /\ Routed(Clarify(Asking(mem, Question(slot, key, does, candidates, ticket, level, Joined(Plain, m))), FALSE))
  <2> PICK q : q = Question(slot, key, does, candidates, ticket, level, Joined(Plain, m))
    OBVIOUS
  <2>1. IsQuestion(q)
    BY <1>1, QuestionIs
  <2>2. Unconfirmed(Asking(mem, q))
    BY <1>1, <2>1, AskingIs
  <2>3. Routed(Result("clarify", Asking(mem, q), FALSE))
    BY <2>2, ResultIs
  <2> QED
    BY <2>2, <2>3 DEF Clarify
<1>3. Routed(View(mem)) /\ Routed(Offer(mem, FALSE))
  BY <1>1, ViewIs, OfferIs
<1>4. Routed(Offer(Asking(mem, Question("person", "owner", "create", <<>>, Nothing, Nothing, Joined(Plain, m))), FALSE))
  BY <1>2, OfferIs
<1>5. CASE u.reason = "ambiguous"
  BY <1>5, <1>2 DEF HandleUnmet
<1>6. CASE u.reason = "missing"
  <2>1. u.slot \in {"record", "person", "choice"}
    BY <1>6 DEF Evaluated
  <2>2. CASE u.slot = "person" /\ Does(m) \notin Changes
    BY <1>6, <2>2, <1>3 DEF HandleUnmet, Does, Changes
  <2>3. CASE ~(u.slot = "person" /\ Does(m) \notin Changes) /\ m.asks = "draft"
    BY <1>6, <2>3, <1>4 DEF HandleUnmet, Does, Changes
  <2>4. CASE ~(u.slot = "person" /\ Does(m) \notin Changes) /\ m.asks # "draft"
    BY <1>6, <2>4, <1>2 DEF HandleUnmet
  <2> QED
    BY <2>2, <2>3, <2>4
<1>7. CASE u.reason = "not_visible"
  <2>1. u.slot \in {"record", "person"}
    BY <1>7 DEF Evaluated
  <2> QED
    BY <1>7, <2>1, <1>2, <1>3 DEF HandleUnmet
<1> QED
  BY <1>5, <1>6, <1>7 DEF Evaluated, Unmets

LEMMA OpenNamedIs ==
    ASSUME product \in Products, NEW m, NEW mem, Clear(mem)
    PROVE  Routed(OpenNamed(m, mem))
<1> PICK a : a = Action("open", m.ticket, Nothing, Nothing, FALSE)
  OBVIOUS
<1>1. IsAction(a) /\ Unconfirmed(mem) /\ mem.question = NoQuestion
  BY ActionIs DEF Clear
<1>2. Routed(Propose(a, FALSE, mem, FALSE))
  BY <1>1, ProposeIs
<1>3. Routed(Result("fallback", mem, FALSE))
  BY <1>1, ResultIs
<1> QED
  BY <1>2, <1>3 DEF OpenNamed, Fallback

LEMMA FollowUpIs ==
    ASSUME product \in Products, NEW m, NEW mem, Clear(mem), NEW theirs
    PROVE  Routed(FollowUp(m, mem, theirs))
<1> PICK does : does = IF mem.follow.does \in {"list", "create", "open"} THEN mem.follow.does ELSE "list"
  OBVIOUS
<1> PICK u : u = EvaluatePerson(does, m, theirs)
  OBVIOUS
<1>1. Evaluated(u) /\ Unconfirmed(mem) /\ mem.question = NoQuestion
  BY EvaluatePersonIs DEF Clear
<1>2. u.met => Routed(Propose(u.act, FALSE, mem, FALSE))
  <2> SUFFICES ASSUME NEW a, a = u.act, IsAction(a) PROVE Routed(Propose(a, FALSE, mem, FALSE))
    BY <1>1 DEF Evaluated
  <2> QED
    BY <1>1, ProposeIs
<1>3. Routed(Result("answer", mem, FALSE))
  BY <1>1, ResultIs
<1>4. Routed(OpenNamed(m, mem))
  BY OpenNamedIs
<1> QED
  BY <1>2, <1>3, <1>4 DEF FollowUp

\* A message by itself.
LEMMA RouteFreshIs ==
    ASSUME product \in Products, NEW m, m.asks \in Rules, NEW mem, Clear(mem), NEW theirs
    PROVE  Routed(RouteFresh(m, mem, theirs))
<1>1. Unconfirmed(mem) /\ mem.question = NoQuestion
  BY DEF Clear
<1>2. Routed(Fallback(mem))
  BY <1>1, ResultIs DEF Fallback
<1>3. ASSUME MatchesARule(m), m.asks # "tie" PROVE Routed(RouteFresh(m, mem, theirs))
  <2> PICK u : u = Evaluate(m, mem, theirs)
    OBVIOUS
  <2>1. Evaluated(u)
    BY <1>3, EvaluateIs
  <2>2. RouteFresh(m, mem, theirs) = IF u.met THEN Propose(u.act, FALSE, mem, FALSE) ELSE HandleUnmet(u, m, mem)
    BY <1>3 DEF RouteFresh
  <2>3. CASE u.met
    <3> PICK a : a = u.act
      OBVIOUS
    <3>1. IsAction(a)
      BY <2>1, <2>3 DEF Evaluated
    <3>2. Routed(Propose(a, FALSE, mem, FALSE))
      BY <1>1, <3>1, ProposeIs
    <3> QED
      BY <2>2, <2>3, <3>2
  <2>4. CASE ~u.met
    BY <2>1, <2>2, <2>4, HandleUnmetIs
  <2> QED
    BY <2>3, <2>4
<1>4. Routed(FollowUp(m, mem, theirs)) /\ Routed(OpenNamed(m, mem))
  BY FollowUpIs, OpenNamedIs
<1> QED
  BY <1>2, <1>3, <1>4 DEF RouteFresh

\* A question asked on, with whatever else it keeps.
IsAsked(q) == DOMAIN q = QuestionFields /\ q.context.asks \in Rules

LEMMA AskedIs ==
    ASSUME NEW q, IsAsked(q), NEW mem, Unconfirmed(mem), NEW kept
    PROVE  Routed(Clarify(Asking(mem, q), kept))
<1>1. IsQuestion(q)
  BY DEF IsAsked, IsQuestion
<1>2. Unconfirmed(Asking(mem, q))
  BY <1>1, AskingIs
<1> QED
  BY <1>2, ResultIs DEF Clarify

LEMMA AskAgainIs ==
    ASSUME NEW q, IsAsked(q), NEW mem, Unconfirmed(mem), NEW alone, Routed(alone)
    PROVE  Routed(AskAgain(q, mem, alone))
<1> PICK p : p = [q EXCEPT !.repeats = 1, !.age = 0]
  OBVIOUS
<1>1. IsAsked(p)
  BY DEF IsAsked, QuestionFields
<1>2. Routed(Clarify(Asking(mem, p), TRUE))
  BY <1>1, AskedIs
<1> QED
  BY <1>2 DEF AskAgain

\* What completes a request is proposed, or something else it lacks is asked for.
LEMMA CompletePendingIs ==
    ASSUME product \in Products, NEW q, IsAsked(q), NEW chosen, NEW corrected, NEW mem, Clear(mem)
    PROVE  Routed(CompletePending(q, chosen, corrected, mem))
<1> PICK person, ticket : /\ person = IF chosen \in Folk THEN chosen ELSE q.person
                          /\ ticket = IF chosen \in Tickets THEN chosen ELSE q.ticket
  OBVIOUS
<1>1. Unconfirmed(mem) /\ mem.question = NoQuestion
  BY DEF Clear
<1>2. ASSUME NEW does, NEW t, NEW p, NEW level, NEW title
      PROVE  Routed(Propose(Action(does, t, p, level, title), corrected, mem, TRUE))
  <2> PICK a : a = Action(does, t, p, level, title)
    OBVIOUS
  <2>1. IsAction(a)
    BY ActionIs
  <2> QED
    BY <1>1, <2>1, ProposeIs
<1>3. Routed(Clarify(Asking(mem, [q EXCEPT !.candidates = <<>>, !.single = Nothing, !.person = person]), TRUE))
  <2> PICK p : p = [q EXCEPT !.candidates = <<>>, !.single = Nothing, !.person = person]
    OBVIOUS
  <2>1. IsAsked(p)
    BY DEF IsAsked, QuestionFields
  <2> QED
    BY <1>1, <2>1, AskedIs
<1>4. Routed(Clarify(Asking(mem, [Question("choice", "choice", "update", <<>>, ticket, Nothing, q.context)
                                     EXCEPT !.age = q.age]), TRUE))
  <2> PICK p : p = [Question("choice", "choice", "update", <<>>, ticket, Nothing, q.context) EXCEPT !.age = q.age]
    OBVIOUS
  <2>1. IsAsked(p)
    BY DEF IsAsked, QuestionFields, Question
  <2> QED
    BY <1>1, <2>1, AskedIs
<1> QED
  BY <1>2, <1>3, <1>4 DEF CompletePending

LEMMA AfterRejectionIs ==
    ASSUME product \in Products, NEW q, IsAsked(q), NEW gone, NEW mem, Clear(mem)
    PROVE  Routed(AfterRejection(q, gone, mem))
<1> PICK left : left = Remaining(q.candidates, (tickets \cup people) \ gone)
  OBVIOUS
<1> PICK p : p = [q EXCEPT !.candidates = left, !.single = Nothing, !.age = 0]
  OBVIOUS
<1> PICK o : o = [p EXCEPT !.single = left[1]]
  OBVIOUS
<1>1. IsAsked(p) /\ IsAsked(o) /\ Unconfirmed(mem)
  BY DEF IsAsked, QuestionFields, Clear
<1>2. Routed(Clarify(Asking(mem, p), TRUE)) /\ Routed(Clarify(Asking(mem, o), TRUE))
  BY <1>1, AskedIs
<1>3. Routed(CompletePending(p, left[1], TRUE, mem))
  BY <1>1, CompletePendingIs
<1> QED
  BY <1>2, <1>3 DEF AfterRejection

LEMMA AnswerChoiceIs ==
    ASSUME product \in Products, NEW q, IsAsked(q), NEW m, NEW mem, Unconfirmed(mem), NEW alone, Routed(alone),
           NEW reply
    PROVE  Routed(AnswerChoice(q, m, mem, alone, reply))
<1>1. Clear(Answered(mem))
  BY AnsweredIs DEF Unconfirmed, Clear
<1>2. Routed(CompletePending(q, reply.chosen, FALSE, Answered(mem)))
  BY <1>1, CompletePendingIs
<1>3. Routed(AfterRejection(q, IF reply.rejected # {} THEN reply.rejected ELSE {q.single}, Answered(mem)))
  BY <1>1, AfterRejectionIs
<1>4. Routed(AskAgain(q, mem, alone))
  BY AskAgainIs
<1> QED
  BY <1>2, <1>3, <1>4 DEF AnswerChoice

LEMMA AnswerSlotIs ==
    ASSUME product \in Products, NEW q, IsAsked(q), NEW m, NEW mem, Unconfirmed(mem), NEW alone, Routed(alone),
           NEW joined, Routed(joined)
    PROVE  Routed(AnswerSlot(q, m, mem, alone, joined))
<1>1. Clear(Answered(mem)) /\ Unconfirmed(Answered(mem))
  BY AnsweredIs DEF Unconfirmed, Clear
<1>2. Routed(CompletePending(q, SuppliedSlot(q, m), FALSE, Answered(mem)))
  BY <1>1, CompletePendingIs
<1>3. Routed(Offer(Answered(mem), TRUE)) /\ Routed(AskAgain(q, mem, alone))
  BY <1>1, OfferIs, AskAgainIs
<1>4. Routed([joined EXCEPT !.kept = TRUE])
  BY DEF Routed, ResultFields
<1> QED
  BY <1>2, <1>3, <1>4 DEF AnswerSlot

LEMMA AnswerClarificationIs ==
    ASSUME product \in Products, NEW m, m.asks \in Rules, NEW mem, Unconfirmed(mem), mem.question # NoQuestion,
           NEW theirs, NEW alone, Routed(alone)
    PROVE  Routed(AnswerClarification(m, mem, theirs, alone))
<1> PICK q : q = mem.question
  OBVIOUS
<1>1. IsAsked(q)
  BY DEF Unconfirmed, IsMemory, IsQuestion, IsAsked
<1>2. Clear(Answered(mem)) /\ Unconfirmed(Answered(mem))
  BY AnsweredIs DEF Unconfirmed, Clear
<1>3. Routed(Result("cancelled", Answered(mem), FALSE))
  BY <1>2, ResultIs
<1>4. Routed(AnswerChoice(q, m, mem, alone, CandidateReply(q, m)))
  BY <1>1, AnswerChoiceIs
<1>5. Routed(RouteFresh(Joined(q.context, m), Answered(mem), theirs))
  <2>1. Joined(q.context, m).asks \in Rules
    BY <1>1, JoinedIs DEF IsAsked
  <2> QED
    BY <1>2, <2>1, RouteFreshIs
<1>6. Routed(AnswerSlot(q, m, mem, alone, RouteFresh(Joined(q.context, m), Answered(mem), theirs)))
  BY <1>1, <1>5, AnswerSlotIs
<1> QED
  BY <1>3, <1>4, <1>6 DEF AnswerClarification

\* A message is a pending yes, or is routed as if nothing waited for one.
LEMMA RouteIs ==
    ASSUME product \in Products, NEW m, m.asks \in Rules, NEW mem, IsMemory(mem), NEW theirs
    PROVE  \/ Routed(Route(m, mem, theirs)) /\ (m.barred => /\ Route(m, mem, theirs).kind = "refuse"
                                                             /\ Clear(Route(m, mem, theirs).mem))
           \/ /\ ~m.barred /\ mem.confirmation # NoConfirmation /\ m.yes
              /\ Route(m, mem, theirs) =
                    [kind |-> "propose", act |-> mem.confirmation.action, reason |-> "yes",
                     mem |-> [mem EXCEPT !.confirmation = NoConfirmation], kept |-> TRUE]
<1> PICK after : after = [mem EXCEPT !.confirmation = NoConfirmation]
  OBVIOUS
<1> PICK alone : alone = RouteFresh(m, Answered(after), theirs)
  OBVIOUS
<1> PICK r : r = IF after.question # NoQuestion THEN AnswerClarification(m, after, theirs, alone) ELSE alone
  OBVIOUS
<1>1. Unconfirmed(after)
  BY DEF Unconfirmed, IsMemory, MemoryFields
<1>2. Clear(Answered(after))
  BY <1>1, AnsweredIs DEF Unconfirmed, Clear
<1>3. Routed(alone)
  BY <1>2, RouteFreshIs
<1>4. Routed(r)
  BY <1>1, <1>3, AnswerClarificationIs
<1>5. r.kind = "fallback" => Routed([r EXCEPT !.kind = "cancelled"])
  BY <1>4 DEF Routed, ResultFields
<1>6. CASE m.barred
  <2> PICK dropped, kind : dropped = Discarded(mem) /\ kind = "refuse"
    OBVIOUS
  <2>1. Clear(dropped) /\ Unconfirmed(dropped)
    BY DiscardedIs DEF Clear
  <2>2. kind \in {"clarify", "answer", "cancelled", "refuse", "fallback"} /\ kind # "fallback"
    OBVIOUS
  <2>3. Routed(Result(kind, dropped, FALSE))
    BY <2>1, <2>2, ResultIs
  <2>4. Result(kind, dropped, FALSE).kind = kind /\ Result(kind, dropped, FALSE).mem = dropped
    BY DEF Result
  <2>5. Route(m, mem, theirs) = Result(kind, dropped, FALSE)
    BY <1>6 DEF Route
  <2> QED
    BY <1>6, <2>1, <2>3, <2>4, <2>5
<1>7. CASE ~m.barred /\ mem.confirmation # NoConfirmation /\ m.yes
  BY <1>7 DEF Route, Result
<1>8. CASE ~m.barred /\ ~(mem.confirmation # NoConfirmation /\ m.yes)
  BY <1>8, <1>4, <1>5 DEF Route
<1> QED
  BY <1>6, <1>7, <1>8

-----------------------------------------------------------------------------
(* What the engine answers a message with, and what it remembers.          *)

\* A yes does what was shown: filling in the definition's default again changes nothing.
LEMMA DefaultsFacts ==
    ASSUME NEW a, IsAction(a)
    PROVE  /\ IsAction(WithDefaults(a)) /\ WithDefaults(WithDefaults(a)) = WithDefaults(a)
           /\ WithDefaults(a).does = a.does /\ WithDefaults(a).ticket = a.ticket
           /\ WithDefaults(a).person = a.person
<1>1. CASE a.does = "create" /\ a.level = Nothing
  <2> PICK b : b = [a EXCEPT !.level = product.default]
    OBVIOUS
  <2>1. WithDefaults(a) = b
    BY <1>1 DEF WithDefaults
  <2>2. IsAction(b) /\ b.does = a.does /\ b.ticket = a.ticket /\ b.person = a.person
        /\ b.level = product.default /\ [b EXCEPT !.level = product.default] = b
    BY DEF IsAction, ActionFields
  <2>3. WithDefaults(b) = b
    BY <2>2 DEF WithDefaults
  <2> QED
    BY <2>1, <2>2, <2>3
<1>2. CASE ~(a.does = "create" /\ a.level = Nothing)
  BY <1>2 DEF WithDefaults
<1> QED
  BY <1>1, <1>2

\* Nothing waits for two answers at once, and what waits for a yes is what was just shown.
Pending(mem) ==
    /\ IsMemory(mem)
    /\ mem.question = NoQuestion \/ mem.confirmation = NoConfirmation
    /\ mem.confirmation # NoConfirmation =>
          IsAction(mem.confirmation.action) /\ WithDefaults(mem.confirmation.action) = mem.confirmation.action

Answering(t) ==
    /\ DOMAIN t = {"stage", "act", "reason", "mem", "kept"}
    /\ Pending(t.mem) /\ IsAction(t.act)
    /\ t.mem.confirmation # NoConfirmation => t.stage = "awaiting" /\ t.mem.confirmation.action = t.act
    /\ t.stage = "fallback" => t.mem.question = NoQuestion /\ t.reason = "none"
    /\ t.stage \in {"proposed", "would_execute"} =>
          t.act.ticket \in tickets \cup {Nothing} /\ t.act.person \in people \cup {Nothing}
    /\ t.stage = "proposed" => t.reason \notin {"correction", "model"}

LEMMA TurnedIs ==
    ASSUME NEW stage, NEW a, NEW reason, NEW mem, NEW kept
    PROVE  /\ Turned(stage, a, reason, mem, kept).stage = stage
           /\ Turned(stage, a, reason, mem, kept).act = a
           /\ Turned(stage, a, reason, mem, kept).reason = reason
           /\ Turned(stage, a, reason, mem, kept).mem = mem
           /\ DOMAIN Turned(stage, a, reason, mem, kept) = {"stage", "act", "reason", "mem", "kept"}
BY DEF Turned

LEMMA NoActionIs == IsAction(NoAction)
BY DEF IsAction, ActionFields, NoAction

LEMMA UnconfirmedIsPending ==
    ASSUME NEW mem, Unconfirmed(mem)
    PROVE  Pending(mem)
BY DEF Unconfirmed, Pending

\* A turn that puts nothing forward.
LEMMA QuietIs ==
    ASSUME NEW stage \in {"fallback", "clarify", "answer", "cancelled", "refuse"}, NEW mem, Unconfirmed(mem),
           stage = "fallback" => mem.question = NoQuestion, NEW kept, NEW t,
           t = Turned(stage, NoAction, "none", mem, kept)
    PROVE  Answering(t) /\ t.stage = stage /\ t.act = NoAction /\ t.mem = mem
<1>1. /\ t.stage = stage /\ t.act = NoAction /\ t.reason = "none" /\ t.mem = mem
      /\ DOMAIN t = {"stage", "act", "reason", "mem", "kept"}
  BY TurnedIs
<1>2. Pending(mem) /\ IsAction(NoAction) /\ mem.confirmation = NoConfirmation
  BY UnconfirmedIsPending, NoActionIs DEF Unconfirmed
<1> QED
  BY <1>1, <1>2 DEF Answering

LEMMA AcceptedIs ==
    ASSUME tickets \subseteq Tickets, NEW mem, Unconfirmed(mem), NEW a, IsAction(a),
           a.ticket \in tickets \cup {Nothing}, WithDefaults(a) = a,
           NEW reason, reason # "none" => mem.question = NoQuestion, NEW x, x = Accepted(mem, a, reason)
    PROVE  /\ Pending(x)
           /\ reason = "none" => x.confirmation = NoConfirmation
           /\ reason # "none" => x.confirmation.action = a
<1>1. CASE reason # "none"
  <2>1. x = [mem EXCEPT !.confirmation = [reason |-> reason, action |-> a]]
    BY <1>1 DEF Accepted
  <2>2. /\ DOMAIN x = MemoryFields /\ x.question = mem.question /\ x.focus = mem.focus
        /\ x.confirmation = [reason |-> reason, action |-> a]
    BY <2>1 DEF Unconfirmed, IsMemory, MemoryFields
  <2>3. x.confirmation.action = a
    BY <2>2
  <2> QED
    BY <1>1, <2>2, <2>3 DEF Pending, Unconfirmed, IsMemory
<1>2. CASE reason = "none"
  <2>1. x = [mem EXCEPT !.focus = IF a.ticket # Nothing THEN a.ticket ELSE @, !.follow = [does |-> a.does, age |-> 0]]
    BY <1>2 DEF Accepted
  <2>2. /\ DOMAIN x = MemoryFields /\ x.question = mem.question /\ x.confirmation = mem.confirmation
        /\ x.focus = IF a.ticket # Nothing THEN a.ticket ELSE mem.focus
    BY <2>1 DEF Unconfirmed, IsMemory, MemoryFields
  <2> QED
    BY <1>2, <2>2 DEF Pending, Unconfirmed, IsMemory
<1> QED
  BY <1>1, <1>2

\* A create is refused, asked on or proposed, and none of these waits for a yes.
LEMMA ProposeCreateIs ==
    ASSUME tickets \subseteq Tickets, NEW a, IsAction(a), NEW mem, Unconfirmed(mem), NEW kept,
           NEW t, t = ProposeCreate(a, mem, kept)
    PROVE  /\ Answering(t) /\ t.stage \in {"refuse", "clarify", "proposed"}
           /\ t.stage = "proposed" => t.act.does = a.does
<1> PICK field, b : field = FirstMissing(a) /\ b = WithDefaults(a)
  OBVIOUS
<1>1. /\ IsAction(b) /\ WithDefaults(b) = b /\ b.does = a.does /\ b.ticket = a.ticket /\ b.person = a.person
  BY DefaultsFacts
<1>2. CASE ~Validates(a)
  <2> PICK stage, dropped : stage = "refuse" /\ dropped = Discarded(mem)
    OBVIOUS
  <2>1. t = Turned(stage, NoAction, "none", dropped, kept)
    BY <1>2 DEF ProposeCreate
  <2>2. Unconfirmed(dropped)
    BY DiscardedIs DEF Clear, Unconfirmed
  <2>3. Answering(t) /\ t.stage = stage
    BY <2>1, <2>2, QuietIs
  <2> QED
    BY <2>3
<1>3. CASE Validates(a) /\ field # "none"
  <2> PICK stage, x : stage = "clarify" /\ x = [mem EXCEPT !.question = ValueQuestion(a, field), !.confirmation = NoConfirmation]
    OBVIOUS
  <2>1. t = Turned(stage, NoAction, "none", x, kept)
    BY <1>3 DEF ProposeCreate
  <2>2. IsQuestion(ValueQuestion(a, field))
    BY DEF ValueQuestion, Question, IsQuestion, QuestionFields, Plain, Rules
  <2>3. Unconfirmed(x)
    BY <2>2 DEF Unconfirmed, IsMemory, MemoryFields
  <2>4. Answering(t) /\ t.stage = stage
    BY <2>1, <2>3, QuietIs
  <2> QED
    BY <2>4
<1>4. CASE Validates(a) /\ field = "none"
  <2> PICK x, reason : x = Accepted(mem, b, reason) /\ reason = "none"
    OBVIOUS
  <2>1. t = Turned("proposed", b, reason, x, kept)
    BY <1>4 DEF ProposeCreate
  <2>2. b.ticket \in tickets \cup {Nothing} /\ b.person \in people \cup {Nothing}
    BY <1>1, <1>4 DEF Validates
  <2>3. Pending(x) /\ x.confirmation = NoConfirmation
    BY <1>1, <2>2, AcceptedIs
  <2>4. /\ t.stage = "proposed" /\ t.act = b /\ t.reason = "none" /\ t.mem = x
        /\ DOMAIN t = {"stage", "act", "reason", "mem", "kept"}
    BY <2>1, TurnedIs
  <2> QED
    BY <1>1, <2>2, <2>3, <2>4 DEF Answering
<1> QED
  BY <1>2, <1>3, <1>4

\* What is proposed is looked up again, awaits its yes, or is done.
LEMMA ProposalIs ==
    ASSUME product \in Products, tickets \subseteq Tickets, NEW r, Routed(r), r.kind \in {"propose", "confirm"},
           NEW t, t = Finish(r)
    PROVE  /\ Answering(t) /\ t.stage # "would_execute"
           /\ t.stage = "proposed" => t.act.does \notin product.confirms
<1> PICK a, b, mem : a = r.act /\ b = WithDefaults(a) /\ mem = r.mem
  OBVIOUS
<1>1. IsAction(a) /\ Unconfirmed(mem) /\ r.reason # "yes"
  BY DEF Routed
<1>2. /\ IsAction(b) /\ WithDefaults(b) = b /\ b.does = a.does /\ b.ticket = a.ticket /\ b.person = a.person
  BY <1>1, DefaultsFacts
<1>3. CASE a.does = "create" /\ Validates(a) /\ FirstMissing(a) # "none"
  <2>1. t = ProposeCreate(a, mem, r.kept)
    BY <1>3 DEF Finish
  <2>2. Answering(t) /\ t.stage \in {"refuse", "clarify", "proposed"}
    BY <1>1, <2>1, ProposeCreateIs
  <2>3. t.stage # "proposed"
    BY <1>3, <2>1, TurnedIs DEF ProposeCreate
  <2> QED
    BY <2>2, <2>3
<1>4. CASE ~Validates(a)
  <2> PICK stage, dropped : stage = "refuse" /\ dropped = Discarded(mem)
    OBVIOUS
  <2>1. t = Turned(stage, NoAction, "none", dropped, r.kept)
    BY <1>4 DEF Finish
  <2>2. Unconfirmed(dropped)
    BY <1>1, DiscardedIs DEF Clear, Unconfirmed
  <2>3. Answering(t) /\ t.stage = stage
    BY <2>1, <2>2, QuietIs
  <2> QED
    BY <2>3
<1>5. CASE Validates(a) /\ ~(a.does = "create" /\ FirstMissing(a) # "none")
  <2> PICK held, stage : /\ held = IF r.kind = "confirm" THEN r.reason ELSE "none"
                         /\ stage = IF r.kind = "confirm" THEN "awaiting" ELSE "proposed"
    OBVIOUS
  <2> PICK x : x = Accepted(mem, b, held)
    OBVIOUS
  <2>1. t = Turned(stage, b, r.reason, x, r.kept)
    BY <1>1, <1>5 DEF Finish
  <2>2. b.ticket \in tickets \cup {Nothing} /\ b.person \in people \cup {Nothing}
    BY <1>2, <1>5 DEF Validates
  <2>3. held # "none" => mem.question = NoQuestion
    BY DEF Routed
  <2>4. /\ Pending(x) /\ held = "none" => x.confirmation = NoConfirmation
        /\ held # "none" => x.confirmation.action = b
    BY <1>1, <1>2, <2>2, <2>3, AcceptedIs
  <2>5. /\ t.stage = stage /\ t.act = b /\ t.reason = r.reason /\ t.mem = x
        /\ DOMAIN t = {"stage", "act", "reason", "mem", "kept"}
    BY <2>1, TurnedIs
  <2>6. Pending(x)
    BY <1>1, <1>2, <2>2, <2>3, AcceptedIs
  <2>7. CASE r.kind = "confirm"
    <3>1. held # "none" /\ stage = "awaiting"
      BY <2>7 DEF Routed
    <3> QED
      BY <1>2, <2>4, <2>5, <2>6, <3>1 DEF Answering
  <2>8. CASE r.kind = "propose"
    <3>1. held = "none" /\ stage = "proposed" /\ r.reason = "none" /\ a.does \notin product.confirms
      BY <2>8 DEF Routed
    <3>2. x.confirmation = NoConfirmation
      BY <1>1, <1>2, <2>2, <2>3, <3>1, AcceptedIs
    <3> QED
      BY <1>2, <2>2, <2>5, <2>6, <3>1, <3>2 DEF Answering
  <2> QED
    BY <2>7, <2>8
<1> QED
  BY <1>3, <1>4, <1>5

LEMMA FinishIs ==
    ASSUME product \in Products, tickets \subseteq Tickets, NEW r, Routed(r), NEW t, t = Finish(r)
    PROVE  /\ Answering(t) /\ t.stage # "would_execute"
           /\ t.stage = "proposed" => t.act.does \notin product.confirms
           /\ r.kind = "refuse" => t.stage = "refuse" /\ t.act = NoAction /\ t.mem = r.mem
<1>1. CASE r.kind \in {"propose", "confirm"}
  BY <1>1, ProposalIs
<1>2. CASE r.kind = "clarify" /\ UnstartedCreate(r.mem.question)
  <2> PICK stage, q, x : stage = "clarify" /\ q = ValueQuestion(NoAction, "title") /\ x = Asking(r.mem, q)
    OBVIOUS
  <2>1. t = Turned(stage, NoAction, "none", x, r.kept)
    BY <1>2 DEF Finish
  <2>2. IsQuestion(q)
    BY DEF ValueQuestion, Question, IsQuestion, QuestionFields, Plain, Rules
  <2>3. Unconfirmed(x)
    BY <2>2, AskingIs DEF Routed
  <2>4. Answering(t) /\ t.stage = stage
    BY <2>1, <2>3, QuietIs
  <2> QED
    BY <1>2, <2>4
<1>3. CASE r.kind \notin {"propose", "confirm"} /\ ~(r.kind = "clarify" /\ UnstartedCreate(r.mem.question))
  <2> PICK stage, mem : stage = r.kind /\ mem = r.mem
    OBVIOUS
  <2>1. t = Turned(stage, NoAction, "none", mem, r.kept)
    BY <1>3 DEF Finish
  <2>2. /\ stage \in {"fallback", "clarify", "answer", "cancelled", "refuse"} /\ Unconfirmed(mem)
        /\ stage = "fallback" => mem.question = NoQuestion
    BY <1>3 DEF Routed
  <2>3. Answering(t) /\ t.stage = stage /\ t.act = NoAction /\ t.mem = mem
    BY <2>1, <2>2, QuietIs
  <2> QED
    BY <2>2, <2>3
<1> QED
  BY <1>1, <1>2, <1>3

\* The yes to a change does the change that was shown, or finds that it cannot be done any more.
LEMMA FinishYesIs ==
    ASSUME product \in Products, tickets \subseteq Tickets, NEW a, IsAction(a), WithDefaults(a) = a,
           NEW mem, Unconfirmed(mem),
           NEW r, DOMAIN r = ResultFields, r.kind = "propose", r.act = a, r.reason = "yes", r.mem = mem,
           NEW t, t = Finish(r)
    PROVE  /\ Answering(t) /\ t.stage \in {"refuse", "clarify", "would_execute"}
           /\ t.stage = "would_execute" => t.act = a
<1>1. CASE a.does = "create" /\ Validates(a) /\ FirstMissing(a) # "none"
  <2>1. t = ProposeCreate(a, mem, r.kept)
    BY <1>1 DEF Finish
  <2>2. Answering(t) /\ t.stage \in {"refuse", "clarify", "proposed"}
    BY <2>1, ProposeCreateIs
  <2>3. t.stage # "proposed"
    BY <1>1, <2>1, TurnedIs DEF ProposeCreate
  <2> QED
    BY <2>2, <2>3
<1>2. CASE ~Validates(a)
  <2> PICK stage, dropped : stage = "refuse" /\ dropped = Discarded(mem)
    OBVIOUS
  <2>1. t = Turned(stage, NoAction, "none", dropped, r.kept)
    BY <1>2 DEF Finish
  <2>2. Unconfirmed(dropped)
    BY DiscardedIs DEF Clear, Unconfirmed
  <2>3. Answering(t) /\ t.stage = stage
    BY <2>1, <2>2, QuietIs
  <2> QED
    BY <2>3
<1>3. CASE Validates(a) /\ ~(a.does = "create" /\ FirstMissing(a) # "none")
  <2> PICK x, held : x = Accepted(mem, a, held) /\ held = "none"
    OBVIOUS
  <2>1. t = Turned("would_execute", a, "yes", x, r.kept)
    BY <1>3 DEF Finish
  <2>2. a.ticket \in tickets \cup {Nothing} /\ a.person \in people \cup {Nothing}
    BY <1>3 DEF Validates
  <2>3. Pending(x) /\ x.confirmation = NoConfirmation
    BY <2>2, AcceptedIs
  <2>4. /\ t.stage = "would_execute" /\ t.act = a /\ t.mem = x
        /\ DOMAIN t = {"stage", "act", "reason", "mem", "kept"}
    BY <2>1, TurnedIs
  <2> QED
    BY <2>2, <2>3, <2>4 DEF Answering
<1> QED
  BY <1>1, <1>2, <1>3

\* While a create waits for a value, the answer gives it up, asks once more or goes on with it.
LEMMA ContinueCreateIs ==
    ASSUME tickets \subseteq Tickets, NEW m, NEW mem, Unconfirmed(mem), IsAsked(mem.question),
           NEW t, t = ContinueCreate(m, mem)
    PROVE  /\ Answering(t) /\ t.stage \in {"cancelled", "clarify", "refuse", "proposed"}
           /\ t.stage = "proposed" => t.act.does = "create"
           /\ m.aside => t.act = NoAction /\ Clear(t.mem)
<1> PICK q, value : q = mem.question /\ value = ReadAnswer(q, m)
  OBVIOUS
<1>1. Clear(Answered(mem)) /\ Unconfirmed(Answered(mem))
  BY AnsweredIs DEF Unconfirmed, Clear
<1>2. CASE m.aside \/ (value = Nothing /\ q.repeats > 0)
  <2> PICK stage, x, kept : stage = "cancelled" /\ x = Answered(mem) /\ kept = FALSE
    OBVIOUS
  <2>1. t = Turned(stage, NoAction, "none", x, kept)
    BY <1>2 DEF ContinueCreate
  <2>2. Answering(t) /\ t.stage = stage /\ t.act = NoAction /\ t.mem = x
    BY <1>1, <2>1, QuietIs
  <2> QED
    BY <1>1, <2>2
<1>3. CASE ~m.aside /\ value = Nothing /\ ~(q.repeats > 0)
  <2> PICK stage, x, again : /\ stage = "clarify" /\ again = [q EXCEPT !.repeats = 1, !.age = 0]
                             /\ x = Asking(mem, again)
    OBVIOUS
  <2>1. PICK kept : t = Turned(stage, NoAction, "none", x, kept)
    <3>1. t = Turned(stage, NoAction, "none", x, TRUE)
      BY <1>3 DEF ContinueCreate
    <3> QED
      BY <3>1, Zenon
  <2>2. IsQuestion(again)
    BY DEF IsAsked, IsQuestion, QuestionFields
  <2>3. Unconfirmed(x)
    BY <2>2, AskingIs
  <2>4. Answering(t) /\ t.stage = stage
    BY <2>1, <2>3, QuietIs
  <2> QED
    BY <1>3, <2>4
<1>4. CASE ~m.aside /\ value # Nothing
  <2> PICK a, x : a = Filled(q, value) /\ x = Answered(mem)
    OBVIOUS
  <2>1. IsAction(a) /\ a.does = "create"
    BY ActionIs DEF Filled, Action
  <2>2. PICK kept : t = ProposeCreate(a, x, kept)
    <3>1. t = ProposeCreate(a, x, TRUE)
      BY <1>4 DEF ContinueCreate
    <3> QED
      BY <3>1, Zenon
  <2>3. Answering(t) /\ t.stage \in {"refuse", "clarify", "proposed"} /\ (t.stage = "proposed" => t.act.does = a.does)
    BY <1>1, <2>1, <2>2, ProposeCreateIs
  <2> QED
    BY <1>4, <2>1, <2>3
<1> QED
  BY <1>2, <1>3, <1>4

\* What a guardrail refuses is refused and ends what was pending, except for a value other than
\* free text.
Barred(t, mem) ==
    \/ t.act = NoAction /\ Clear(t.mem) /\ t.stage # "fallback"
    \/ mem.question.slot = "value" /\ mem.question.field # "title"

\* One turn of the engine, on a memory in which one thing at most is pending.
TakenTurn(m, mem, t) ==
    /\ Answering(t)
    /\ t.stage = "would_execute" => mem.confirmation # NoConfirmation /\ t.act = mem.confirmation.action
    /\ t.stage = "proposed" /\ t.act.does \in product.confirms => t.act.does = "create" /\ mem.question.slot = "value"
    /\ m.barred => Barred(t, mem)

\* A value that a create waits for, or a message that replaces it.
LEMMA ValueTurnIs ==
    ASSUME product \in Products, tickets \subseteq Tickets, NEW m, m.asks \in Rules, NEW mem, Pending(mem),
           mem.question.slot = "value", NEW theirs, NEW t, t = EngineTurn(m, mem, theirs)
    PROVE  TakenTurn(m, mem, t)
<1> PICK routed, after : after = Answered(mem) /\ routed = Route(m, after, theirs)
  OBVIOUS
<1>1. IsAsked(mem.question) /\ Unconfirmed(mem) /\ mem.confirmation = NoConfirmation
  BY DEF Pending, IsMemory, IsQuestion, IsAsked, NoQuestion, Unconfirmed
<1>2. IsMemory(after) /\ after.confirmation = NoConfirmation
  BY <1>1, AnsweredIs DEF Unconfirmed
<1>3. Routed(routed) /\ (m.barred => routed.kind = "refuse" /\ Clear(routed.mem))
  BY <1>2, RouteIs
<1>4. CASE m.aside \/ ~ReplacesCreate(mem.question, m, routed)
  <2>1. t = ContinueCreate(m, mem)
    BY <1>4 DEF EngineTurn
  <2>2. /\ Answering(t) /\ t.stage \in {"cancelled", "clarify", "refuse", "proposed"}
        /\ t.stage = "proposed" => t.act.does = "create"
        /\ m.aside => t.act = NoAction /\ Clear(t.mem)
    BY <1>1, <2>1, ContinueCreateIs
  <2>3. m.barred /\ ~m.aside => mem.question.field # "title"
    BY <1>3, <1>4 DEF ReplacesCreate
  <2> QED
    BY <2>2, <2>3 DEF TakenTurn, Barred
<1>5. CASE ~(m.aside \/ ~ReplacesCreate(mem.question, m, routed))
  <2>1. t = Finish(routed)
    BY <1>5 DEF EngineTurn
  <2>2. /\ Answering(t) /\ t.stage # "would_execute"
        /\ t.stage = "proposed" => t.act.does \notin product.confirms
        /\ routed.kind = "refuse" => t.stage = "refuse" /\ t.act = NoAction /\ t.mem = routed.mem
    BY <1>3, <2>1, FinishIs
  <2> QED
    BY <1>3, <2>2 DEF TakenTurn, Barred
<1> QED
  BY <1>4, <1>5

LEMMA EngineTurnIs ==
    ASSUME product \in Products, tickets \subseteq Tickets, NEW m, m.asks \in Rules, NEW mem, Pending(mem),
           NEW theirs, NEW t, t = EngineTurn(m, mem, theirs)
    PROVE  TakenTurn(m, mem, t)
<1>1. CASE mem.question.slot = "value"
  BY <1>1, ValueTurnIs
<1>2. CASE mem.question.slot # "value"
  <2> PICK routed : routed = Route(m, mem, theirs)
    OBVIOUS
  <2>1. t = Finish(routed) /\ IsMemory(mem)
    BY <1>2 DEF EngineTurn, Pending
  <2>2. CASE Routed(routed) /\ (m.barred => routed.kind = "refuse" /\ Clear(routed.mem))
    <3>1. /\ Answering(t) /\ t.stage # "would_execute"
          /\ t.stage = "proposed" => t.act.does \notin product.confirms
          /\ routed.kind = "refuse" => t.stage = "refuse" /\ t.act = NoAction /\ t.mem = routed.mem
      BY <2>1, <2>2, FinishIs
    <3> QED
      BY <2>2, <3>1 DEF TakenTurn, Barred
  <2>3. CASE /\ ~m.barred /\ mem.confirmation # NoConfirmation
             /\ routed = [kind |-> "propose", act |-> mem.confirmation.action, reason |-> "yes",
                          mem |-> [mem EXCEPT !.confirmation = NoConfirmation], kept |-> TRUE]
    <3> PICK a, x : a = mem.confirmation.action /\ x = [mem EXCEPT !.confirmation = NoConfirmation]
      OBVIOUS
    <3>1. IsAction(a) /\ WithDefaults(a) = a
      BY <2>3 DEF Pending
    <3>2. Unconfirmed(x)
      BY <2>1 DEF Unconfirmed, IsMemory, MemoryFields
    <3>3. /\ DOMAIN routed = ResultFields /\ routed.kind = "propose" /\ routed.act = a
          /\ routed.reason = "yes" /\ routed.mem = x
      BY <2>3 DEF ResultFields
    <3>4. /\ Answering(t) /\ t.stage \in {"refuse", "clarify", "would_execute"}
          /\ t.stage = "would_execute" => t.act = a
      BY <2>1, <3>1, <3>2, <3>3, FinishYesIs
    <3> QED
      BY <2>3, <3>4 DEF TakenTurn
  <2> QED
    BY <2>1, <2>2, <2>3, RouteIs
<1> QED
  BY <1>1, <1>2

\* What was not answered in time is dropped; the rest of the memory is as it was.
LEMMA NextTurnIs ==
    ASSUME NEW mem, Pending(mem), NEW skipped \in BOOLEAN, NEW x, x = NextTurn(mem, skipped)
    PROVE  /\ Pending(x)
           /\ x.confirmation # NoConfirmation => ~skipped /\ x.confirmation = mem.confirmation
           /\ x.question # NoQuestion => /\ mem.question # NoQuestion
                                         /\ x.question.slot = mem.question.slot /\ x.question.field = mem.question.field
<1> PICK q, again, follow :
        /\ again = [mem.question EXCEPT !.age = 1]
        /\ q = IF mem.question = NoQuestion THEN mem.question
               ELSE IF skipped \/ mem.question.age > 0 THEN NoQuestion ELSE again
        /\ follow = IF skipped \/ mem.follow.age > 0 THEN NoFollow ELSE [mem.follow EXCEPT !.age = 1]
  OBVIOUS
<1>1. DOMAIN mem = MemoryFields /\ IsQuestion(mem.question)
  BY DEF Pending, IsMemory
<1>2. x = [mem EXCEPT !.question = q, !.confirmation = IF skipped THEN NoConfirmation ELSE mem.confirmation,
               !.follow = follow]
  BY <1>1 DEF NextTurn, MemoryFields
<1>3. /\ DOMAIN x = MemoryFields /\ x.question = q /\ x.focus = mem.focus
      /\ x.confirmation = IF skipped THEN NoConfirmation ELSE mem.confirmation
  BY <1>1, <1>2 DEF MemoryFields
<1>4. mem.question # NoQuestion => IsQuestion(again) /\ again.slot = mem.question.slot /\ again.field = mem.question.field
  BY <1>1 DEF IsQuestion, QuestionFields
<1>5. IsQuestion(q)
  BY <1>1, <1>4 DEF IsQuestion
<1> QED
  BY <1>3, <1>4, <1>5 DEF Pending, IsMemory

\* What a model proposes is looked at, or awaits its yes as it was shown.
LEMMA ConsiderIs ==
    ASSUME product \in Products, NEW m, NEW mem, NEW t, TakenTurn(m, mem, t), t.stage = "fallback",
           NEW a \in Proposals, Validates(a), NEW u, u = Consider(a, t)
    PROVE  TakenTurn(m, mem, u)
<1>1. /\ DOMAIN t = {"stage", "act", "reason", "mem", "kept"} /\ IsMemory(t.mem) /\ DOMAIN t.mem = MemoryFields
      /\ t.mem.confirmation = NoConfirmation /\ t.mem.question = NoQuestion /\ t.reason = "none"
      /\ m.barred => mem.question.slot = "value" /\ mem.question.field # "title"
  BY DEF TakenTurn, Answering, Pending, IsMemory, Barred
<1>2. IsAction(a) /\ a.does \in {"open", "update", "create"}
  BY DEF Proposals, IsAction, ActionFields
<1>3. CASE a.does = "open"
  <2>1. u = [t EXCEPT !.stage = "proposed", !.act = a]
    BY <1>3 DEF Consider
  <2>2. /\ DOMAIN u = {"stage", "act", "reason", "mem", "kept"} /\ u.stage = "proposed" /\ u.act = a
        /\ u.mem = t.mem /\ u.reason = "none"
    BY <1>1, <2>1
  <2>3. a.does \notin product.confirms
    BY <1>3, DialogueAssumption
  <2>4. a.ticket \in tickets \cup {Nothing} /\ a.person \in people \cup {Nothing}
    BY DEF Validates
  <2>5. Answering(u)
    BY <1>1, <1>2, <2>2, <2>4 DEF Answering, Pending
  <2> QED
    BY <1>1, <2>2, <2>3, <2>5 DEF TakenTurn, Barred
<1>4. CASE a.does # "open"
  <2> PICK b, asked, x : /\ b = WithDefaults(a)
                         /\ asked = [reason |-> ConfirmationReason(a, FALSE, TRUE), action |-> b]
                         /\ x = [t.mem EXCEPT !.confirmation = asked]
    OBVIOUS
  <2>1. u = [t EXCEPT !.stage = "awaiting", !.act = b, !.reason = "model", !.mem = x]
    BY <1>1, <1>4 DEF Consider, MemoryFields
  <2>2. /\ DOMAIN u = {"stage", "act", "reason", "mem", "kept"} /\ u.stage = "awaiting" /\ u.act = b /\ u.mem = x
    BY <1>1, <2>1
  <2>3. DOMAIN x = MemoryFields /\ x.question = NoQuestion /\ x.confirmation = asked /\ x.focus = t.mem.focus
    BY <1>1 DEF MemoryFields
  <2>4. asked.action = b
    OBVIOUS
  <2>5. IsAction(b) /\ WithDefaults(b) = b
    BY <1>2, DefaultsFacts
  <2>6. Pending(x)
    BY <1>1, <2>3, <2>4, <2>5 DEF Pending, IsMemory
  <2>7. Answering(u)
    BY <2>2, <2>3, <2>4, <2>5, <2>6 DEF Answering
  <2> QED
    BY <1>1, <2>2, <2>7 DEF TakenTurn, Barred
<1> QED
  BY <1>3, <1>4

-----------------------------------------------------------------------------
(* The conversation: what is remembered, shown and answered, turn by turn. *)

\* What awaits a yes is what the last answer showed.
ShownIsAsked ==
    /\ "shown" \in DOMAIN request
    /\ memory.confirmation # NoConfirmation => memory.confirmation.action = request.shown

DialogueInv ==
    /\ product \in Products /\ tickets \subseteq Tickets /\ people \subseteq Folk
    /\ selected \in Tickets \cup {Nothing}
    /\ Pending(memory) /\ ShownIsAsked /\ StillVisible /\ ConfirmedFirst

\* What the property of the replies says of one step.
ReplySettled ==
    /\ answer'.stage = "would_execute" => answer'.act = request.shown /\ ~answer'.skipped
    /\ answer'.barred => \/ /\ answer'.act = NoAction
                            /\ memory'.question = NoQuestion /\ memory'.confirmation = NoConfirmation
                         \/ memory.question.slot = "value" /\ memory.question.field # "title"

\* What the visitor is shown is kept with the request.
LEMMA SaidWithShows ==
    ASSUME "shown" \in DOMAIN request, NEW m, NEW mem, NEW t, Answering(t), NEW x, x = SaidWith(m, t, mem)
    PROVE  /\ "shown" \in DOMAIN x
           /\ t.mem.confirmation # NoConfirmation => x.shown = t.act
<1> PICK before : before = IF t.kept THEN request ELSE [Unasked EXCEPT !.open = {mem.focus, selected}]
  OBVIOUS
<1>1. "shown" \in DOMAIN before
  BY DEF Unasked
<1>2. t.mem.confirmation # NoConfirmation => t.mem.question = NoQuestion /\ t.stage = "awaiting"
  BY DEF Answering, Pending
<1>3. NoQuestion.slot = "none" /\ DOMAIN NoQuestion = {"slot"}
  BY DEF NoQuestion
<1>4. CASE t.mem.question = NoQuestion /\ t.mem.confirmation = NoConfirmation /\ t.act.does \notin Changes
  BY <1>4 DEF SaidWith, Unasked
<1>5. CASE t.mem.question # NoQuestion /\ t.mem.question.repeats > 0
  BY <1>2, <1>5 DEF SaidWith
<1>6. CASE /\ ~(t.mem.question = NoQuestion /\ t.mem.confirmation = NoConfirmation /\ t.act.does \notin Changes)
           /\ ~(t.mem.question # NoQuestion /\ t.mem.question.repeats > 0)
  <2>1. "shown" \in DOMAIN x /\ x.shown = IF t.stage = "awaiting" THEN t.act ELSE NoAction
    BY <1>1, <1>6 DEF SaidWith
  <2> QED
    BY <1>1, <1>2, <2>1, SMTT(30)
<1> QED
  BY <1>4, <1>5, <1>6

LEMMA SayIs ==
    ASSUME DialogueInv, NEW m \in Messages, NEW skipped \in BOOLEAN, NEW theirs, Say(m, theirs, skipped)
    PROVE  DialogueInv' /\ ReplySettled
<1> PICK mem, routed : mem = NextTurn(memory, skipped) /\ routed = EngineTurn(m, mem, theirs)
  OBVIOUS
<1>1. PICK t : /\ \/ t = routed
                  \/ \E a \in Proposals : routed.stage = "fallback" /\ Supported(a, m) /\ t = Consider(a, routed)
               /\ memory' = t.mem
               /\ answer' = [stage |-> IF t.act = NoAction THEN "none" ELSE t.stage, act |-> t.act,
                             reason |-> t.reason, barred |-> m.barred,
                             named |-> IF t.act.does = "update" THEN m.ticket ELSE Nothing,
                             skipped |-> skipped /\ t.reason = "yes",
                             filled |-> t.act.does = "create" /\ mem.question.slot = "value"]
               /\ request' = SaidWith(m, t, mem)
               /\ UNCHANGED <<product, tickets, people, selected>>
  BY SMTT(30) DEF Say
<1>2. /\ Pending(mem)
      /\ mem.confirmation # NoConfirmation => ~skipped /\ mem.confirmation = memory.confirmation
      /\ mem.question # NoQuestion => /\ memory.question # NoQuestion
                                      /\ mem.question.slot = memory.question.slot
                                      /\ mem.question.field = memory.question.field
  BY NextTurnIs DEF DialogueInv
<1>3. TakenTurn(m, mem, routed)
  BY <1>2, EngineTurnIs, DialogueAssumption DEF DialogueInv
<1>4. TakenTurn(m, mem, t)
  BY <1>1, <1>3, ConsiderIs DEF DialogueInv, Supported
<1>5. Answering(t) /\ Pending(t.mem)
  BY <1>4 DEF TakenTurn, Answering
<1>6. /\ answer'.stage = IF t.act = NoAction THEN "none" ELSE t.stage
      /\ answer'.act = t.act /\ answer'.reason = t.reason
      /\ answer'.barred <=> m.barred
      /\ answer'.skipped <=> (skipped /\ t.reason = "yes")
      /\ answer'.filled <=> (t.act.does = "create" /\ mem.question.slot = "value")
  BY <1>1
<1>7. ShownIsAsked'
  BY <1>1, <1>5, SaidWithShows DEF ShownIsAsked, DialogueInv, Answering
<1>8. StillVisible'
  BY <1>1, <1>5, <1>6 DEF StillVisible, Dispatched, Answering
<1>9. ConfirmedFirst'
  BY <1>1, <1>4, <1>5, <1>6 DEF ConfirmedFirst, TakenTurn, Answering
<1>10. Pending(memory)'
  BY <1>1, <1>5 DEF Pending, IsMemory, IsQuestion, IsAction, WithDefaults
<1>11. answer'.stage = "would_execute" => answer'.act = request.shown /\ ~answer'.skipped
  BY <1>2, <1>4, <1>6 DEF TakenTurn, DialogueInv, ShownIsAsked
<1>12. NoQuestion.slot # "value"
  BY DEF NoQuestion
<1>13. m.barred => \/ answer'.act = NoAction /\ memory'.question = NoQuestion /\ memory'.confirmation = NoConfirmation
                   \/ memory.question.slot = "value" /\ memory.question.field # "title"
  BY <1>1, <1>2, <1>4, <1>6, <1>12 DEF TakenTurn, Barred, Clear, Unconfirmed
<1> QED
  BY <1>1, <1>6, <1>7, <1>8, <1>9, <1>10, <1>11, <1>13 DEF DialogueInv, ReplySettled

LEMMA InitDialogueInv == DialogueInit => DialogueInv
<1> SUFFICES ASSUME DialogueInit PROVE DialogueInv
  OBVIOUS
<1>1. /\ DOMAIN memory = MemoryFields /\ memory.question = NoQuestion /\ memory.confirmation = NoConfirmation
      /\ memory.focus = Nothing
  BY DEF DialogueInit, Fresh, MemoryFields
<1>2. Pending(memory)
  BY <1>1 DEF Pending, IsMemory, IsQuestion
<1>3. "shown" \in DOMAIN request
  BY DEF DialogueInit, Unasked
<1>4. answer.stage = "none"
  BY DEF DialogueInit, NoAnswer
<1> QED
  BY <1>1, <1>2, <1>3, <1>4 DEF DialogueInit, DialogueInv, ShownIsAsked, StillVisible, Dispatched, ConfirmedFirst

LEMMA StepDialogueInv == DialogueInv /\ [DialogueNext]_dialogueVars => DialogueInv' /\ [ReplySettled]_dialogueVars
<1> SUFFICES ASSUME DialogueInv, [DialogueNext]_dialogueVars
             PROVE  DialogueInv' /\ [ReplySettled]_dialogueVars
  OBVIOUS
<1>1. CASE Elsewhere
  <2>1. answer'.stage = "none" /\ ~answer'.barred
    BY <1>1 DEF Elsewhere, NoAnswer
  <2>2. Pending(memory)' /\ ShownIsAsked'
    BY <1>1 DEF Elsewhere, DialogueInv, Pending, IsMemory, IsQuestion, IsAction, WithDefaults, ShownIsAsked
  <2> QED
    BY <1>1, <2>1, <2>2 DEF Elsewhere, DialogueInv, StillVisible, Dispatched, ConfirmedFirst, ReplySettled
<1>2. CASE \E m \in Messages, skipped \in BOOLEAN, theirs \in SUBSET tickets : Say(m, theirs, skipped)
  BY <1>2, SayIs
<1>3. CASE UNCHANGED dialogueVars
  BY <1>3 DEF dialogueVars, DialogueInv, Pending, IsMemory, IsQuestion, IsAction, WithDefaults, ShownIsAsked,
     StillVisible, Dispatched, ConfirmedFirst
<1> QED
  BY <1>1, <1>2, <1>3 DEF DialogueNext

\* A yes does what the answer right before it showed, and no message a guardrail refuses changes
\* anything or leaves anything pending, whatever is said in whatever order (router.route,
\* conversation_engine._continue_create).
THEOREM RepliesSettled == DialogueSpec => RepliesAreSettled
<1>1. DialogueInit => DialogueInv
  BY InitDialogueInv
<1>2. DialogueInv /\ [DialogueNext]_dialogueVars => DialogueInv' /\ [ReplySettled]_dialogueVars
  BY StepDialogueInv
<1> QED
  BY <1>1, <1>2, PTL DEF DialogueSpec, RepliesAreSettled, ReplySettled

-----------------------------------------------------------------------------
(* What a change is made of: the lists a question offers, and what a       *)
(* message by itself asks for.                                             *)

\* What a list keeps: those in it which are kept, nobody twice if nobody was, and all of it if all are.
LEMMA RemainingFacts ==
    ASSUME NEW S, NEW list \in Seq(S), NEW kept, NEW left, left = Remaining(list, kept)
    PROVE  /\ left \in Seq(S) /\ ToSet(left) = ToSet(list) \cap kept
           /\ IsInjective(list) => IsInjective(left)
           /\ ToSet(list) \subseteq kept => left = list
<1> DEFINE at == {i \in DOMAIN list : list[i] \in kept}
           size == Cardinality(at)
           Nth(n) == CHOOSE i \in at : Cardinality({j \in at : j <= i}) = n
<1>1. PICK n \in Nat : DOMAIN list = 1 .. n /\ \A i \in 1 .. n : list[i] \in S
  BY SeqDef
<1>2. at \subseteq 1 .. n /\ \A i \in at : list[i] \in kept
  BY <1>1
<1>3. /\ size \in Nat
      /\ \A k \in 1 .. size : \E i \in at : Cardinality({j \in at : j <= i}) = k
      /\ \A i \in at : Cardinality({j \in at : j <= i}) \in 1 .. size
      /\ \A i, k \in at : Cardinality({j \in at : j <= i}) = Cardinality({j \in at : j <= k}) => i = k
  <2> HIDE DEF at
  <2> QED
    BY <1>2, RanksAreMet
<1>4. left = [k \in 1 .. size |-> list[Nth(k)]]
  BY DEF Remaining
<1>5. \A k \in 1 .. size : Nth(k) \in at /\ Cardinality({j \in at : j <= Nth(k)}) = k
  <2> HIDE DEF at, size
  <2> QED
    BY <1>3
<1>6. \A i \in at : Nth(Cardinality({j \in at : j <= i})) = i
  <2> HIDE DEF at, size
  <2> QED
    BY <1>3
<1>7. \A i : i \in at <=> i \in 1 .. n /\ list[i] \in kept
  BY <1>1
<1> HIDE DEF at, size, Nth
<1>8. DOMAIN left = 1 .. size /\ \A k \in 1 .. size : left[k] = list[Nth(k)]
  BY <1>4
<1>9. left \in Seq(S)
  <2>1. left \in [1 .. size -> S]
    BY <1>1, <1>4, <1>5, <1>7
  <2> QED
    BY <1>3, <2>1, SeqDef
<1>10. ToSet(left) = ToSet(list) \cap kept
  <2>1. ASSUME NEW e \in ToSet(left) PROVE e \in ToSet(list) \cap kept
    BY <1>1, <1>5, <1>7, <1>8, <2>1 DEF ToSet
  <2>2. ASSUME NEW e \in ToSet(list) \cap kept PROVE e \in ToSet(left)
    <3>1. PICK i \in 1 .. n : list[i] = e
      BY <1>1 DEF ToSet
    <3>2. PICK k \in 1 .. size : Nth(k) = i
      BY <1>3, <1>6, <1>7, <3>1
    <3> QED
      BY <1>8, <3>1, <3>2 DEF ToSet
  <2> QED
    BY <2>1, <2>2
<1>11. ASSUME IsInjective(list) PROVE IsInjective(left)
  <2>1. ASSUME NEW a \in 1 .. size, NEW b \in 1 .. size, left[a] = left[b] PROVE a = b
    <3>1. Nth(a) = Nth(b)
      BY <1>1, <1>5, <1>7, <1>8, <1>11, <2>1 DEF IsInjective
    <3> QED
      BY <1>5, <3>1
  <2> QED
    BY <1>8, <2>1 DEF IsInjective
<1>12. ASSUME ToSet(list) \subseteq kept PROVE left = list
  <2>1. at = 1 .. n
    BY <1>1, <1>7, <1>12 DEF ToSet
  <2>2. \A i \in 1 .. n : Cardinality({j \in at : j <= i}) = i
    <3> SUFFICES ASSUME NEW i \in 1 .. n PROVE Cardinality({j \in at : j <= i}) = i
      OBVIOUS
    <3>1. {j \in at : j <= i} = 1 .. i
      BY <1>1, <2>1
    <3>2. Cardinality(1 .. i) = i
      BY <1>1, FS_Interval
    <3> QED
      BY <3>1, <3>2
  <2>3. size = n
    BY <2>1, FS_Interval DEF size
  <2>4. \A k \in 1 .. n : Nth(k) = k
    BY <1>6, <2>1, <2>2
  <2>5. DOMAIN left = DOMAIN list /\ \A k \in DOMAIN list : left[k] = list[k]
    BY <1>1, <1>8, <2>3, <2>4
  <2>6. list = [k \in DOMAIN list |-> list[k]] /\ left = [k \in DOMAIN left |-> left[k]]
    BY <1>1, <1>4, SeqDef
  <2> QED
    BY <2>5, <2>6
<1> QED
  BY <1>9, <1>10, <1>11, <1>12

\* What a value, a name and a ticket of a message can be.
LEMMA OneLevelIs ==
    ASSUME NEW m
    PROVE  OneLevel(m) \in m.levels \cup {Nothing}
<1>1. Cardinality({}) = 0
  BY FS_EmptySet
<1> QED
  BY <1>1 DEF OneLevel

\* The one person whom a message names, if it names one.
LEMMA OnePersonIs ==
    ASSUME people \subseteq Folk, NEW m, ~(Cardinality(Seen(m)) > 1), Seen(m) # {}
    PROVE  Seen(m) = {OnePerson(m)}
<1>1. IsFiniteSet(Seen(m))
  <2>1. Seen(m) \in SUBSET Folk
    BY DEF Seen
  <2> QED
    BY <2>1, FS_Subset, DialogueAssumption
<1>2. Cardinality(Seen(m)) \in Nat /\ Cardinality(Seen(m)) # 0
  BY <1>1, FS_CardinalityType, FS_EmptySet
<1>3. Cardinality(Seen(m)) = 1
  BY <1>2
<1>4. \E p : Seen(m) = {p}
  BY <1>1, <1>3, FS_Singleton
<1> QED
  BY <1>4 DEF OnePerson

\* A list that a question offers: tickets or people, nobody twice.
Listed(c) == c \in Seq(Tickets \cup Folk) /\ IsInjective(c)

LEMMA NobodyListed == Listed(<<>>) /\ ToSet(<<>>) = {}
<1>1. <<>> \in Seq(Tickets \cup Folk) /\ DOMAIN <<>> = {}
  BY EmptySeq
<1> QED
  BY <1>1 DEF Listed, IsInjective, ToSet

\* The people a message could mean, and one person's tickets, as they are offered.
LEMMA SeenListed ==
    ASSUME people \subseteq Folk, NEW m
    PROVE  Listed(SetToSeq(Seen(m))) /\ ToSet(SetToSeq(Seen(m))) \subseteq Folk
<1> PICK s : s = SetToSeq(Seen(m))
  OBVIOUS
<1>1. Seen(m) \in SUBSET Folk /\ IsFiniteSet(Seen(m))
  <2>1. Seen(m) \in SUBSET Folk
    BY DEF Seen
  <2> QED
    BY <2>1, FS_Subset, DialogueAssumption
<1>2. s \in Seq(Seen(m)) /\ ToSet(s) = Seen(m) /\ IsInjective(s)
  BY <1>1, ListOfSet
<1>3. s \in Seq(Tickets \cup Folk)
  BY <1>1, <1>2, SeqMonotonic
<1> QED
  BY <1>1, <1>2, <1>3 DEF Listed

LEMMA TheirsListed ==
    ASSUME tickets \subseteq Tickets, NEW theirs, theirs \subseteq tickets
    PROVE  Listed(SetToSeq(theirs))
<1> PICK s : s = SetToSeq(theirs)
  OBVIOUS
<1>1. theirs \in SUBSET Tickets /\ IsFiniteSet(theirs)
  <2>1. theirs \in SUBSET Tickets
    OBVIOUS
  <2> QED
    BY <2>1, FS_Subset, DialogueAssumption
<1>2. s \in Seq(theirs) /\ IsInjective(s)
  BY <1>1, ListOfSet
<1>3. s \in Seq(Tickets \cup Folk)
  BY <1>1, <1>2, SeqMonotonic
<1> QED
  BY <1>2, <1>3 DEF Listed

\* The ticket a message is about: the one it names or, if it names none, the current one.
Target(t, m, focus) == t = m.ticket \/ (m.ticket = Nothing /\ t \in {focus, selected})

\* A change that a message by itself asks for.
ActOf(a, m, focus) ==
    a.does \in Changes =>
        /\ a.does = "update" => Target(a.ticket, m, focus)
        /\ a.person # Nothing => Seen(m) = {a.person}
        /\ a.level \in m.levels \cup {Nothing}

\* What a message by itself still lacks.
UnmetOf(u, does, m, focus) ==
    /\ Listed(u.candidates) /\ (u.reason = "not_visible" => u.candidates = <<>>)
    /\ does = "update" => /\ ToSet(u.candidates) \subseteq Folk
                          /\ u.candidates # <<>> => u.ticket # Nothing
    /\ u.ticket = Nothing \/ Target(u.ticket, m, focus)
    /\ u.level \in m.levels \cup {Nothing}

\* What a rule makes of a message, met or not.
EvaluatedOf(u, does, m, focus) == (u.met => ActOf(u.act, m, focus)) /\ (~u.met => UnmetOf(u, does, m, focus))

\* Each rule in turn: the update, the person, and all of them.
LEMMA MetOf ==
    ASSUME NEW a, NEW m, NEW focus, ActOf(a, m, focus), NEW does
    PROVE  EvaluatedOf(Met(a), does, m, focus)
BY DEF Met, EvaluatedOf

LEMMA UnmetGives ==
    ASSUME NEW reason, NEW slot, NEW candidates, NEW ticket, NEW level, NEW does, NEW m, NEW focus,
           Listed(candidates), reason = "not_visible" => candidates = <<>>,
           does = "update" => ToSet(candidates) \subseteq Folk /\ (candidates # <<>> => ticket # Nothing),
           ticket = Nothing \/ Target(ticket, m, focus), level \in m.levels \cup {Nothing}
    PROVE  EvaluatedOf(Unmet(reason, slot, candidates, ticket, level), does, m, focus)
<1> PICK u : u = Unmet(reason, slot, candidates, ticket, level)
  OBVIOUS
<1>1. ~u.met /\ u.reason = reason /\ u.candidates = candidates /\ u.ticket = ticket /\ u.level = level
  BY DEF Unmet
<1> QED
  BY <1>1 DEF EvaluatedOf, UnmetOf

LEMMA EvaluateUpdateOf ==
    ASSUME people \subseteq Folk, NEW m, NEW mem
    PROVE  EvaluatedOf(EvaluateUpdate(m, mem), "update", m, mem.focus)
<1> PICK focus, does, target, seen, one, reason1, reason2, reason3, record, person, choice :
       /\ focus = mem.focus /\ does = "update" /\ seen = SetToSeq(Seen(m)) /\ one = OneLevel(m)
       /\ target = IF m.ticket # Nothing THEN m.ticket ELSE CurrentTicket(mem)
       /\ reason1 = "not_visible" /\ reason2 = "missing" /\ reason3 = "ambiguous"
       /\ record = "record" /\ person = "person" /\ choice = "choice"
  OBVIOUS
<1> PICK u : u = EvaluateUpdate(m, mem)
  OBVIOUS
<1>1. target = Nothing \/ Target(target, m, focus)
  BY DEF Target, CurrentTicket
<1>2. Listed(<<>>) /\ ToSet(<<>>) = {} /\ Listed(seen) /\ ToSet(seen) \subseteq Folk /\ one \in m.levels \cup {Nothing}
  BY NobodyListed, SeenListed, OneLevelIs
<1> PICK none : none = <<>>
  OBVIOUS
<1> PICK a : a = Action("update", target, IF Seen(m) = {} THEN Nothing ELSE OnePerson(m), one, FALSE)
  OBVIOUS
<1>3. ~(Cardinality(Seen(m)) > 1) /\ target # Nothing => ActOf(a, m, focus)
  <2>1. a.does = "update" /\ a.ticket = target /\ a.level = one
        /\ a.person = IF Seen(m) = {} THEN Nothing ELSE OnePerson(m)
    BY DEF Action
  <2> QED
    BY <1>1, <1>2, <2>1, OnePersonIs DEF ActOf
<1>4. \/ u = Unmet(reason1, record, none, Nothing, Nothing)
      \/ u = Unmet(reason2, record, none, Nothing, one)
      \/ target # Nothing /\ u = Unmet(reason3, person, seen, target, Nothing)
      \/ u = Unmet(reason3, choice, none, target, Nothing)
      \/ target # Nothing /\ ~(Cardinality(Seen(m)) > 1) /\ u = Met(a)
      \/ u = Unmet(reason1, person, none, target, Nothing)
      \/ u = Unmet(reason2, person, none, target, Nothing)
      \/ u = Unmet(reason2, choice, none, target, Nothing)
  BY DEF EvaluateUpdate, Unseen, Missing
<1>5. ASSUME NEW slot, NEW reason, NEW ticket \in {Nothing, target}, NEW level \in {Nothing, one}
      PROVE  EvaluatedOf(Unmet(reason, slot, none, ticket, level), does, m, focus)
  BY <1>1, <1>2, UnmetGives
<1>6. target # Nothing => EvaluatedOf(Unmet(reason3, person, seen, target, Nothing), does, m, focus)
  BY <1>1, <1>2, UnmetGives
<1>7. EvaluatedOf(u, does, m, focus)
  BY <1>3, <1>4, <1>5, <1>6, MetOf
<1> QED
  BY <1>7

LEMMA EvaluatePersonOf ==
    ASSUME tickets \subseteq Tickets, people \subseteq Folk, NEW does \in {"create", "list", "open"}, NEW m,
           NEW theirs, theirs \subseteq tickets, NEW focus
    PROVE  EvaluatedOf(EvaluatePerson(does, m, theirs), does, m, focus)
<1> PICK seen, its, one, none, reason1, reason2, reason3, record, person :
       /\ seen = SetToSeq(Seen(m)) /\ its = SetToSeq(theirs) /\ one = OneLevel(m) /\ none = <<>>
       /\ reason1 = "not_visible" /\ reason2 = "missing" /\ reason3 = "ambiguous"
       /\ record = "record" /\ person = "person"
  OBVIOUS
<1> PICK u : u = EvaluatePerson(does, m, theirs)
  OBVIOUS
<1>1. Listed(none) /\ ToSet(none) = {} /\ Listed(seen) /\ Listed(its) /\ one \in m.levels \cup {Nothing}
  BY NobodyListed, SeenListed, TheirsListed, OneLevelIs
<1> PICK a, b, c : /\ a = Action(does, Nothing, OnePerson(m), IF m.title THEN one ELSE Nothing, m.title)
                   /\ b = Action(does, Nothing, OnePerson(m), Nothing, FALSE)
                   /\ c = Action(does, CHOOSE t \in theirs : TRUE, Nothing, Nothing, FALSE)
  OBVIOUS
<1>2. ~(Cardinality(Seen(m)) > 1) /\ Seen(m) # {} => ActOf(a, m, focus)
  <2>1. a.does = does /\ a.person = OnePerson(m) /\ a.level \in {one, Nothing}
    BY DEF Action
  <2> QED
    BY <1>1, <2>1, OnePersonIs DEF ActOf
<1>3. does # "create" => ActOf(b, m, focus) /\ ActOf(c, m, focus)
  BY DEF ActOf, Action, Changes
<1>4. \/ u = Unmet(reason3, person, seen, Nothing, Nothing)
      \/ u = Unmet(reason1, person, none, Nothing, Nothing)
      \/ u = Unmet(reason2, person, none, Nothing, Nothing)
      \/ u = Unmet(reason2, record, none, Nothing, Nothing)
      \/ u = Unmet(reason3, record, its, Nothing, Nothing)
      \/ ~(Cardinality(Seen(m)) > 1) /\ Seen(m) # {} /\ u = Met(a)
      \/ does # "create" /\ (u = Met(b) \/ u = Met(c))
  BY DEF EvaluatePerson, Unseen, Missing
<1>5. ASSUME NEW slot, NEW reason
      PROVE  EvaluatedOf(Unmet(reason, slot, none, Nothing, Nothing), does, m, focus)
  BY <1>1, UnmetGives
<1>6. reason3 # "not_visible" /\ does # "update"
  OBVIOUS
<1>7. /\ EvaluatedOf(Unmet(reason3, person, seen, Nothing, Nothing), does, m, focus)
      /\ EvaluatedOf(Unmet(reason3, record, its, Nothing, Nothing), does, m, focus)
  BY <1>1, <1>6, UnmetGives
<1> QED
  BY <1>2, <1>3, <1>4, <1>5, <1>7, MetOf

LEMMA EvaluateOf ==
    ASSUME tickets \subseteq Tickets, people \subseteq Folk, NEW m, m.asks \in Rules, MatchesARule(m), m.asks # "tie",
           NEW mem, NEW theirs, theirs \subseteq tickets
    PROVE  EvaluatedOf(Evaluate(m, mem, theirs), Does(m), m, mem.focus)
<1> PICK focus : focus = mem.focus
  OBVIOUS
<1>1. CASE m.asks = "this"
  <2> PICK a, none, reason, record, does :
         /\ a = Action("open", CurrentTicket(mem), Nothing, Nothing, FALSE) /\ none = <<>>
         /\ reason = "missing" /\ record = "record" /\ does = "open"
    OBVIOUS
  <2>1. ActOf(a, m, focus) /\ Does(m) = does
    BY <1>1 DEF ActOf, Action, Changes, Does
  <2>2. \/ Evaluate(m, mem, theirs) = Unmet(reason, record, none, Nothing, Nothing)
        \/ Evaluate(m, mem, theirs) = Met(a)
    BY <1>1 DEF Evaluate, Missing
  <2>3. Listed(none) /\ ToSet(none) = {}
    BY NobodyListed
  <2>4. EvaluatedOf(Unmet(reason, record, none, Nothing, Nothing), does, m, focus)
    BY <2>3, UnmetGives
  <2> QED
    BY <2>1, <2>2, <2>4, MetOf
<1>2. CASE m.asks \in {"assign", "set"}
  <2>1. Does(m) = "update" /\ Evaluate(m, mem, theirs) = EvaluateUpdate(m, mem)
    BY <1>2 DEF Evaluate, Does
  <2> QED
    BY <2>1, EvaluateUpdateOf
<1>3. CASE m.asks \in {"create", "draft", "open", "list"}
  <2> PICK does : does = Does(m)
    OBVIOUS
  <2>1. does \in {"create", "list", "open"} /\ Evaluate(m, mem, theirs) = EvaluatePerson(does, m, theirs)
    BY <1>3 DEF Evaluate, Does
  <2> QED
    BY <2>1, EvaluatePersonOf
<1> QED
  BY <1>1, <1>2, <1>3 DEF Rules, MatchesARule

\* A question that a message by itself leads to.
QuestionOf(q, m, focus) ==
    /\ DOMAIN q = QuestionFields /\ q.age = 0 /\ q.repeats = 0 /\ q.person = Nothing /\ q.single = Nothing
    /\ q.slot \notin {"none", "value"} /\ Listed(q.candidates)
    /\ q.does = "update" => /\ ToSet(q.candidates) \subseteq Folk
                            /\ q.candidates # <<>> => q.ticket # Nothing
    /\ q.ticket = Nothing \/ Target(q.ticket, m, focus)
    /\ q.level \in m.levels \cup {Nothing}
    /\ q.context.ticket = m.ticket /\ q.context.people = m.people /\ q.context.levels = m.levels

\* What a message by itself leads to: a change it asks for, or a question about what it lacks.
OfMessage(r, m, focus) ==
    /\ ActOf(r.act, m, focus) /\ (r.act.does \in Changes => r.mem.question = NoQuestion)
    /\ r.mem.question # NoQuestion =>
          /\ QuestionOf(r.mem.question, m, focus)
          /\ r.kind = "clarify" \/ (r.mem.question.does = "create" => r.mem.question.candidates = <<>>)

\* What is proposed, asked or answered quietly comes of the message alone.
LEMMA ProposeGives ==
    ASSUME NEW a, NEW corrected, NEW mem, NEW kept
    PROVE  /\ Propose(a, corrected, mem, kept).act = a /\ Propose(a, corrected, mem, kept).mem = mem
           /\ Propose(a, corrected, mem, kept).kept = kept
           /\ Propose(a, corrected, mem, kept).kind \in {"propose", "confirm"}
           /\ corrected /\ a.does \in Changes => Propose(a, corrected, mem, kept).kind = "confirm"
BY DEF Propose, Result, ConfirmationReason

LEMMA ResultGives ==
    ASSUME NEW kind, NEW mem, NEW kept
    PROVE  /\ Result(kind, mem, kept).kind = kind /\ Result(kind, mem, kept).act = NoAction
           /\ Result(kind, mem, kept).mem = mem /\ Result(kind, mem, kept).kept = kept
BY DEF Result

LEMMA ProposeOf ==
    ASSUME NEW m, NEW focus, NEW a, ActOf(a, m, focus), NEW mem, mem.question = NoQuestion, NEW corrected, NEW kept
    PROVE  OfMessage(Propose(a, corrected, mem, kept), m, focus)
BY ProposeGives DEF OfMessage

LEMMA QuietOf ==
    ASSUME NEW m, NEW focus, NEW kind, NEW mem, mem.question = NoQuestion, NEW kept
    PROVE  OfMessage(Result(kind, mem, kept), m, focus)
<1>1. NoAction.does \notin Changes
  BY DEF NoAction, Changes
<1> QED
  BY <1>1, ResultGives DEF OfMessage, ActOf

\* A question put to a message by itself.
LEMMA AskedOf ==
    ASSUME NEW m, NEW focus, NEW slot, slot \notin {"none", "value"}, NEW key, NEW does, NEW candidates, Listed(candidates), NEW ticket,
           does = "update" => ToSet(candidates) \subseteq Folk /\ (candidates # <<>> => ticket # Nothing),
           ticket = Nothing \/ Target(ticket, m, focus), NEW level \in m.levels \cup {Nothing},
           tickets \subseteq Tickets
    PROVE  QuestionOf(Question(slot, key, does, candidates, ticket, level, Joined(Plain, m)), m, focus)
<1> PICK context, q : context = Joined(Plain, m) /\ q = Question(slot, key, does, candidates, ticket, level, context)
  OBVIOUS
<1>1. Nothing \notin tickets
  BY DialogueAssumption
<1>2. context.ticket = m.ticket /\ context.people = m.people /\ context.levels = m.levels
  BY <1>1 DEF Joined, Plain
<1>3. /\ DOMAIN q = QuestionFields /\ q.age = 0 /\ q.repeats = 0 /\ q.person = Nothing /\ q.single = Nothing
      /\ q.slot = slot /\ q.candidates = candidates /\ q.does = does /\ q.ticket = ticket /\ q.level = level
      /\ q.context = context
  BY DEF Question, QuestionFields
<1> QED
  BY <1>2, <1>3 DEF QuestionOf

LEMMA ClarifyOf ==
    ASSUME NEW m, NEW focus, NEW mem, IsMemory(mem), NEW q, QuestionOf(q, m, focus), NEW kept
    PROVE  OfMessage(Clarify(Asking(mem, q), kept), m, focus)
<1>1. NoAction.does \notin Changes
  BY DEF NoAction, Changes
<1>2. Asking(mem, q).question = q
  BY DEF Asking, IsMemory, MemoryFields
<1>3. Clarify(Asking(mem, q), kept).kind = "clarify"
  BY DEF Clarify, Result
<1>4. Clarify(Asking(mem, q), kept).act = NoAction /\ Clarify(Asking(mem, q), kept).mem = Asking(mem, q)
  BY DEF Clarify, Result
<1> QED
  BY <1>1, <1>2, <1>3, <1>4 DEF OfMessage, ActOf

LEMMA HandleUnmetOf ==
    ASSUME tickets \subseteq Tickets, NEW m, NEW focus, NEW u, Evaluated(u), ~u.met, UnmetOf(u, Does(m), m, focus),
           m.asks \in Rules, NEW mem, Clear(mem)
    PROVE  OfMessage(HandleUnmet(u, m, mem), m, focus) /\ ~HandleUnmet(u, m, mem).kept
<1> PICK does, choice, person, record, owner, create :
        /\ does = Does(m) /\ choice = "choice" /\ person = "person"
        /\ record = "record" /\ owner = "owner" /\ create = "create"
  OBVIOUS
<1>1. IsMemory(mem) /\ mem.question = NoQuestion
  BY DEF Clear, Unconfirmed
<1>2. ASSUME NEW slot, slot \notin {"none", "value"}, NEW key, NEW ticket \in {Nothing, u.ticket}, NEW level \in {Nothing, u.level},
             ticket = Nothing => u.candidates = <<>> \/ u.ticket = Nothing
      PROVE  OfMessage(Clarify(Asking(mem, Question(slot, key, does, u.candidates, ticket, level, Joined(Plain, m))), FALSE), m, focus)
  <2> PICK candidates, q : /\ candidates = u.candidates
                           /\ q = Question(slot, key, does, candidates, ticket, level, Joined(Plain, m))
    OBVIOUS
  <2>1. /\ Listed(candidates) /\ (ticket = Nothing \/ Target(ticket, m, focus)) /\ level \in m.levels \cup {Nothing}
        /\ does = "update" => ToSet(candidates) \subseteq Folk /\ (candidates # <<>> => ticket # Nothing)
    BY <1>2 DEF UnmetOf
  <2>2. QuestionOf(q, m, focus)
    BY <1>2, <2>1, AskedOf
  <2>3. OfMessage(Clarify(Asking(mem, q), FALSE), m, focus)
    BY <1>1, <2>2, ClarifyOf
  <2> QED
    BY <2>3
<1>3. ASSUME NEW x, IsMemory(x), x.question = NoQuestion \/ (/\ QuestionOf(x.question, m, focus)
                                                             /\ x.question.candidates = <<>>)
      PROVE  OfMessage(Offer(x, FALSE), m, focus) /\ OfMessage(View(x), m, focus)
  <2> PICK a, b : /\ a = Action("offer", Nothing, Nothing, Nothing, FALSE)
                  /\ b = Action("view", Nothing, Nothing, Nothing, FALSE)
    OBVIOUS
  <2>1. a.does \notin Changes /\ b.does \notin Changes
    BY DEF Action, Changes
  <2>2. Offer(x, FALSE) = Propose(a, FALSE, x, FALSE) /\ View(x) = Propose(b, FALSE, x, FALSE)
    BY DEF Offer, View
  <2>3. Offer(x, FALSE).act = a /\ Offer(x, FALSE).mem = x /\ View(x).act = b /\ View(x).mem = x
    BY <2>2 DEF Propose, Result
  <2> QED
    BY <1>3, <2>1, <2>3 DEF OfMessage, ActOf
<1>4. OfMessage(Offer(Asking(mem, Question(person, owner, create, <<>>, Nothing, Nothing, Joined(Plain, m))), FALSE), m, focus)
  <2> PICK q, none : none = <<>> /\ q = Question(person, owner, create, none, Nothing, Nothing, Joined(Plain, m))
    OBVIOUS
  <2>1. Listed(none) /\ ToSet(none) = {} /\ person \notin {"none", "value"}
    BY NobodyListed
  <2>2. QuestionOf(q, m, focus)
    BY <2>1, AskedOf
  <2>3. q.candidates = <<>>
    BY DEF Question
  <2>4. IsMemory(Asking(mem, q)) /\ Asking(mem, q).question = q
    <3>1. DOMAIN q = QuestionFields /\ q.context.asks \in Rules
      BY DEF Question, QuestionFields, Joined, Plain, Rules
    <3> QED
      BY <1>1, <3>1 DEF Asking, IsMemory, MemoryFields, IsQuestion
  <2> QED
    BY <1>3, <2>2, <2>3, <2>4
<1>5. CASE u.reason = "ambiguous"
  <2>1. HandleUnmet(u, m, mem) = Clarify(Asking(mem, Question(choice, Key(u.slot, does), does, u.candidates, u.ticket, Nothing, Joined(Plain, m))), FALSE)
    BY <1>5 DEF HandleUnmet
  <2>2. ~HandleUnmet(u, m, mem).kept
    BY <2>1 DEF Clarify, Result
  <2> QED
    BY <1>2, <2>1, <2>2
<1>6. CASE u.reason = "missing"
  <2>1. u.slot \in {"record", "person", "choice"}
    BY <1>6 DEF Evaluated
  <2>2. CASE u.slot = "person" /\ Does(m) \notin Changes
    <3>1. HandleUnmet(u, m, mem) = View(mem)
      BY <1>6, <2>2 DEF HandleUnmet, Does, Changes
    <3>2. ~View(mem).kept
      BY DEF View, Propose, Result
    <3> QED
      BY <1>1, <1>3, <3>1, <3>2
  <2>3. CASE ~(u.slot = "person" /\ Does(m) \notin Changes) /\ m.asks = "draft"
    <3>1. HandleUnmet(u, m, mem) = Offer(Asking(mem, Question(person, owner, create, <<>>, Nothing, Nothing, Joined(Plain, m))), FALSE)
      BY <1>6, <2>3 DEF HandleUnmet, Does, Changes
    <3> QED
      BY <1>4, <3>1 DEF Offer, Propose, Result
  <2>4. CASE ~(u.slot = "person" /\ Does(m) \notin Changes) /\ m.asks # "draft"
    <3>1. HandleUnmet(u, m, mem) = Clarify(Asking(mem, Question(u.slot, Key(u.slot, does), does, u.candidates, u.ticket, u.level, Joined(Plain, m))), FALSE)
      BY <1>6, <2>4 DEF HandleUnmet
    <3>2. ~HandleUnmet(u, m, mem).kept
      BY <3>1 DEF Clarify, Result
    <3> QED
      BY <1>2, <2>1, <3>1, <3>2
  <2> QED
    BY <2>2, <2>3, <2>4
<1>7. CASE u.reason = "not_visible"
  <2>1. u.slot \in {"record", "person"} /\ u.candidates = <<>>
    BY <1>7 DEF Evaluated, UnmetOf
  <2>2. CASE u.slot = "record"
    <3>1. HandleUnmet(u, m, mem) = Clarify(Asking(mem, Question(record, Key(u.slot, does), does, u.candidates, Nothing, u.level, Joined(Plain, m))), FALSE)
      BY <1>7, <2>2 DEF HandleUnmet
    <3>2. ~HandleUnmet(u, m, mem).kept
      BY <3>1 DEF Clarify, Result
    <3> QED
      BY <1>2, <2>1, <3>1, <3>2
  <2>3. CASE u.slot = "person"
    <3>1. HandleUnmet(u, m, mem) \in {View(mem), Offer(mem, FALSE)}
      BY <1>7, <2>3 DEF HandleUnmet
    <3>2. ~View(mem).kept /\ ~Offer(mem, FALSE).kept
      BY DEF View, Offer, Propose, Result
    <3> QED
      BY <1>1, <1>3, <3>1, <3>2
  <2> QED
    BY <2>1, <2>2, <2>3
<1> QED
  BY <1>5, <1>6, <1>7 DEF Evaluated, Unmets

\* So does what is opened by name, a follow-up, and any request of its own.
LEMMA OpenNamedOf ==
    ASSUME NEW m, NEW focus, NEW mem, mem.question = NoQuestion
    PROVE  OfMessage(OpenNamed(m, mem), m, focus) /\ ~OpenNamed(m, mem).kept
<1> PICK a, kind : a = Action("open", m.ticket, Nothing, Nothing, FALSE) /\ kind = "fallback"
  OBVIOUS
<1>1. ActOf(a, m, focus)
  BY DEF ActOf, Action, Changes
<1>2. OpenNamed(m, mem) \in {Propose(a, FALSE, mem, FALSE), Result(kind, mem, FALSE)}
  BY DEF OpenNamed, Fallback
<1>3. OfMessage(Propose(a, FALSE, mem, FALSE), m, focus) /\ OfMessage(Result(kind, mem, FALSE), m, focus)
  BY <1>1, ProposeOf, QuietOf
<1>4. ~Propose(a, FALSE, mem, FALSE).kept /\ ~Result(kind, mem, FALSE).kept
  BY DEF Propose, Result
<1> QED
  BY <1>2, <1>3, <1>4

LEMMA FollowUpOf ==
    ASSUME tickets \subseteq Tickets, people \subseteq Folk, NEW m, NEW focus, NEW mem, mem.question = NoQuestion,
           NEW theirs, theirs \subseteq tickets
    PROVE  OfMessage(FollowUp(m, mem, theirs), m, focus) /\ ~FollowUp(m, mem, theirs).kept
<1> PICK does, kind : does = (IF mem.follow.does \in {"list", "create", "open"} THEN mem.follow.does ELSE "list")
                      /\ kind = "answer"
  OBVIOUS
<1> PICK u : u = EvaluatePerson(does, m, theirs)
  OBVIOUS
<1>1. EvaluatedOf(u, does, m, focus)
  BY EvaluatePersonOf
<1>2. \/ u.met /\ FollowUp(m, mem, theirs) = Propose(u.act, FALSE, mem, FALSE)
      \/ FollowUp(m, mem, theirs) = Result(kind, mem, FALSE)
      \/ FollowUp(m, mem, theirs) = OpenNamed(m, mem)
  BY DEF FollowUp
<1>3. u.met => OfMessage(Propose(u.act, FALSE, mem, FALSE), m, focus)
  <2> SUFFICES ASSUME NEW a, a = u.act, ActOf(a, m, focus) PROVE OfMessage(Propose(a, FALSE, mem, FALSE), m, focus)
    BY <1>1 DEF EvaluatedOf
  <2> QED
    BY ProposeOf
<1>4. OfMessage(Result(kind, mem, FALSE), m, focus)
  BY QuietOf
<1>5. ~Propose(u.act, FALSE, mem, FALSE).kept /\ ~Result(kind, mem, FALSE).kept
  BY DEF Propose, Result
<1> QED
  BY <1>2, <1>3, <1>4, <1>5, OpenNamedOf

LEMMA RouteFreshOf ==
    ASSUME tickets \subseteq Tickets, people \subseteq Folk, NEW m, m.asks \in Rules, NEW mem, Clear(mem),
           NEW theirs, theirs \subseteq tickets
    PROVE  OfMessage(RouteFresh(m, mem, theirs), m, mem.focus) /\ ~RouteFresh(m, mem, theirs).kept
<1> PICK focus, kind : focus = mem.focus /\ kind = "fallback"
  OBVIOUS
<1>1. mem.question = NoQuestion
  BY DEF Clear
<1>2. OfMessage(Result(kind, mem, FALSE), m, focus) /\ ~Result(kind, mem, FALSE).kept
  BY <1>1, QuietOf DEF Result
<1>3. ASSUME MatchesARule(m), m.asks # "tie"
      PROVE  OfMessage(RouteFresh(m, mem, theirs), m, focus) /\ ~RouteFresh(m, mem, theirs).kept
  <2> PICK u : u = Evaluate(m, mem, theirs)
    OBVIOUS
  <2>1. Evaluated(u) /\ EvaluatedOf(u, Does(m), m, focus)
    BY <1>3, EvaluateIs, EvaluateOf
  <2>2. RouteFresh(m, mem, theirs) = IF u.met THEN Propose(u.act, FALSE, mem, FALSE) ELSE HandleUnmet(u, m, mem)
    BY <1>3 DEF RouteFresh
  <2>3. CASE u.met
    <3>1. OfMessage(Propose(u.act, FALSE, mem, FALSE), m, focus)
      <4> SUFFICES ASSUME NEW a, a = u.act, ActOf(a, m, focus)
                   PROVE  OfMessage(Propose(a, FALSE, mem, FALSE), m, focus)
        BY <2>1, <2>3 DEF EvaluatedOf
      <4> QED
        BY <1>1, ProposeOf
    <3>2. ~Propose(u.act, FALSE, mem, FALSE).kept
      BY DEF Propose, Result
    <3> QED
      BY <2>2, <2>3, <3>1, <3>2
  <2>4. CASE ~u.met
    BY <2>1, <2>2, <2>4, HandleUnmetOf DEF EvaluatedOf
  <2> QED
    BY <2>3, <2>4
<1>4. \/ RouteFresh(m, mem, theirs) \in {Result(kind, mem, FALSE), FollowUp(m, mem, theirs), OpenNamed(m, mem)}
      \/ MatchesARule(m) /\ m.asks # "tie"
  BY DEF RouteFresh, Fallback
<1> QED
  BY <1>1, <1>2, <1>3, <1>4, FollowUpOf, OpenNamedOf

-----------------------------------------------------------------------------
(* What an answer is made of: the question it answers and the message.     *)

\* A reply to a list of people picks one of them, or leaves those who are seen and not rejected.
LEMMA ReplyOf ==
    ASSUME tickets \subseteq Tickets, people \subseteq Folk, NEW m, m.ticket \in Tickets \cup {Nothing}, NEW q,
           Listed(q.candidates), ToSet(q.candidates) \subseteq Folk, NEW reply, reply = CandidateReply(q, m)
    PROVE  /\ reply.chosen # Nothing => reply.chosen \in Picked(q, m) \cap Folk
           /\ reply.chosen = Nothing /\ reply.rejected # {} =>
                 \A p \in ToSet(q.candidates) \cap ((tickets \cup people) \ reply.rejected) :
                     p \notin m.without /\ (p \in Picked(q, m) \/ m.without \ Picked(q, m) # {})
<1> PICK list, left, visible : /\ list = q.candidates /\ visible = tickets \cup people
                               /\ left = Remaining(list, visible)
  OBVIOUS
<1> PICK listed, shown, hit, rejected, said, named :
       /\ listed = ToSet(list) /\ shown = ToSet(left) /\ hit = m.without \cap shown
       /\ rejected = (IF hit = shown THEN {} ELSE hit)
       /\ said = ((m.people \ m.without) \cup {m.ticket}) \cap shown
       /\ named = (m.people \ m.without) \cap listed \cap people
  OBVIOUS
<1>1. /\ left \in Seq(Tickets \cup Folk) /\ shown = listed \cap visible /\ (listed \subseteq visible => left = list)
  BY RemainingFacts DEF Listed
<1>2. PICK n \in Nat : DOMAIN list = 1 .. n
  BY SeqDef DEF Listed
<1>3. DOMAIN left = 1 .. Len(left)
  BY <1>1, LenProperties
<1>4. reply = IF m.nth \in 1 .. Len(left) THEN [chosen |-> left[m.nth], rejected |-> {}]
              ELSE IF Cardinality(said) = 1 THEN [chosen |-> CHOOSE c \in said : TRUE, rejected |-> {}]
              ELSE [chosen |-> Nothing, rejected |-> rejected]
  BY DEF CandidateReply
<1> PICK numbered : numbered = IF m.nth # 0 /\ ~(listed \subseteq visible) THEN listed
                               ELSE {list[i] : i \in {m.nth} \cap DOMAIN list}
  OBVIOUS
<1>5. Picked(q, m) = numbered \cup IF Cardinality(named) = 1 THEN named ELSE {}
  BY DEF Picked
<1>6. said = named
  <2>1. m.ticket \notin listed /\ listed \cap visible = listed \cap people
    BY DialogueAssumption
  <2> QED
    BY <1>1, <2>1
<1>7. shown \subseteq Folk /\ named \subseteq Folk /\ Nothing \notin Folk
  BY <1>1, DialogueAssumption
<1>8. m.nth \in 1 .. Len(left) => left[m.nth] \in numbered /\ left[m.nth] \in Folk
  <2> SUFFICES ASSUME m.nth \in 1 .. Len(left) PROVE left[m.nth] \in numbered /\ left[m.nth] \in Folk
    OBVIOUS
  <2>1. left[m.nth] \in shown /\ m.nth # 0
    <3>1. m.nth \in DOMAIN left /\ m.nth # 0
      BY <1>3
    <3> QED
      BY <3>1 DEF ToSet
  <2>2. listed \subseteq visible => m.nth \in DOMAIN list /\ left[m.nth] = list[m.nth]
    BY <1>1, <1>3
  <2> QED
    BY <1>1, <1>7, <2>1, <2>2
<1>9. Cardinality(said) = 1 => (CHOOSE c \in said : TRUE) \in named
  <2>1. Cardinality({}) = 0
    BY FS_EmptySet
  <2>2. Cardinality(said) = 1 => said # {}
    BY <2>1
  <2>3. said # {} => (CHOOSE c \in said : TRUE) \in said
    OBVIOUS
  <2> QED
    BY <1>6, <2>2, <2>3
<1>10. CASE m.nth \in 1 .. Len(left)
  <2>1. reply = [chosen |-> left[m.nth], rejected |-> {}]
    BY <1>4, <1>10
  <2>2. reply.chosen = left[m.nth] /\ left[m.nth] \in numbered \cap Folk
    BY <1>8, <1>10, <2>1
  <2>3. reply.chosen # Nothing
    BY <1>7, <2>2
  <2> QED
    BY <1>5, <2>2, <2>3
<1>11. CASE m.nth \notin 1 .. Len(left) /\ Cardinality(said) = 1
  <2>1. reply = [chosen |-> CHOOSE c \in said : TRUE, rejected |-> {}]
    BY <1>4, <1>11
  <2>2. reply.chosen \in named
    BY <1>9, <1>11, <2>1
  <2>3. reply.chosen # Nothing
    BY <1>7, <2>2
  <2> QED
    BY <1>5, <1>6, <1>7, <1>11, <2>2, <2>3
<1>12. CASE m.nth \notin 1 .. Len(left) /\ Cardinality(said) # 1
  <2>1. reply = [chosen |-> Nothing, rejected |-> rejected]
    BY <1>4, <1>12
  <2>a. reply.chosen = Nothing /\ reply.rejected = rejected
    BY <2>1
  <2> SUFFICES ASSUME rejected # {}, NEW p \in listed \cap (visible \ rejected)
               PROVE  p \notin m.without /\ (p \in Picked(q, m) \/ m.without \ Picked(q, m) # {})
    BY <2>a
  <2>2. rejected = hit /\ hit # {} /\ p \in shown /\ p \notin m.without
    BY <1>1
  <2>3. CASE m.nth # 0 /\ ~(listed \subseteq visible)
    BY <1>5, <2>2, <2>3
  <2>4. CASE m.nth # 0 /\ listed \subseteq visible
    <3>1. m.nth \notin DOMAIN list
      BY <1>1, <1>3, <1>12, <2>4
    <3>2. numbered = {}
      BY <2>4, <3>1
    <3> QED
      BY <1>5, <1>6, <1>12, <2>2, <3>2
  <2>5. CASE m.nth = 0
    <3>1. numbered = {}
      BY <1>2, <2>5
    <3> QED
      BY <1>5, <1>6, <1>12, <2>2, <3>1
  <2> QED
    BY <2>3, <2>4, <2>5
<1> QED
  BY <1>10, <1>11, <1>12

\* What a pending question offers: a change of a ticket offers people, and knows the ticket.
Offers(q) ==
    /\ DOMAIN q = QuestionFields /\ Listed(q.candidates)
    /\ q.does = "create" => q.candidates = <<>>
    /\ q.does = "update" => /\ ToSet(q.candidates) \subseteq Folk /\ q.single = Nothing
                            /\ q.candidates # <<>> => q.ticket # Nothing

\* The question a message leaves or puts instead of the one pending, and the change it completes.
SameRequest(p, q) ==
    /\ DOMAIN p = QuestionFields /\ p.age = 0 /\ Listed(p.candidates)
    /\ p.does = q.does /\ p.slot = q.slot /\ p.ticket = q.ticket /\ p.person = q.person /\ p.level = q.level
    /\ p.context = q.context

\* The question is put again, as it was or for those whom the answer leaves.
AsksOn(r, q, m) ==
    /\ r.act.does \notin Changes /\ r.mem.question # NoQuestion /\ SameRequest(r.mem.question, q)
    /\ \/ r.mem.question.repeats = 1 /\ r.mem.question.candidates = q.candidates /\ r.mem.question.single = q.single
       \/ /\ Choosing(q) /\ r.mem.question.repeats = q.repeats
          /\ q.does = "update" => /\ r.mem.question.single = Nothing
                                  /\ ToSet(r.mem.question.candidates) \subseteq ToSet(q.candidates) \ m.without

\* Nothing is changed, and nothing that is still asked can be answered in time.
LeavesNothing(r) ==
    /\ r.act.does \notin Changes
    /\ r.mem.question # NoQuestion => DOMAIN r.mem.question = QuestionFields /\ r.mem.question.age > 0
                                      /\ Listed(r.mem.question.candidates)

\* The answer picks from the list, or leaves one who is then only asked about.
Chooses(r, q, m) ==
    /\ Choosing(q) /\ r.mem.question = NoQuestion
    /\ r.act.does = "update" /\ r.act.level = q.level /\ r.act.ticket = q.ticket /\ q.does = "update"
    /\ \/ r.act.person \in Picked(q, m)
       \/ /\ r.kind = "confirm" /\ r.act.person \in ToSet(q.candidates) \ m.without
          /\ r.act.person \in Picked(q, m) \/ m.without \ Picked(q, m) # {}

\* The answer gives the ticket or the person that the question lacked.
Supplies(r, q, m) ==
    /\ ~Choosing(q) /\ r.mem.question = NoQuestion /\ r.act.does \in Changes /\ r.act.level = q.level
    /\ r.act.does = "update" => r.act.ticket # Nothing
    /\ r.act.ticket \in {q.ticket, m.ticket} /\ (r.act.person = q.person \/ Seen(m) = {r.act.person})

\* What the answer to a question is: it leaves nothing, or asks on, chooses or supplies what was
\* asked for, or it is read together with what was said before.
Answers(r, m, mem) ==
    LET q == mem.question
    IN /\ r.kind # "fallback" /\ r.kept /\ q # NoQuestion
       /\ \/ AsksOn(r, q, m)
          \/ Chooses(r, q, m)
          \/ Supplies(r, q, m)
          \/ ~Choosing(q) /\ OfMessage(r, Joined(q.context, m), mem.focus)

\* Where all that is routed comes from: the message, nothing, or the question it answers.
Origin(r, m, mem) ==
    \/ ~r.kept /\ OfMessage(r, m, mem.focus)
    \/ r.kind # "fallback" /\ LeavesNothing(r)
    \/ Answers(r, m, mem)

\* What completing the request with an answer can lead to.
Completes(r, q, chosen, corrected) ==
    /\ r.kept /\ r.kind # "fallback"
    /\ \/ r.act.does \notin Changes /\ r.mem.question = NoQuestion
       \/ /\ r.act.does \notin Changes /\ DOMAIN r.mem.question = QuestionFields
          /\ r.mem.question.age = q.age /\ r.mem.question.candidates = <<>>
          /\ q.does = "update" => \/ (chosen \notin Tickets /\ q.ticket = Nothing)
                                  \/ (chosen \notin Folk \/ chosen = Nothing)
       \/ /\ r.act.does \in Changes /\ r.mem.question = NoQuestion /\ r.act.does = q.does
          /\ r.act.ticket = IF chosen \in Tickets THEN chosen ELSE q.ticket
          /\ r.act.person = IF chosen \in Folk THEN chosen ELSE q.person
          /\ r.act.level = q.level /\ (r.act.does = "update" => r.act.ticket # Nothing)
          /\ corrected => r.kind = "confirm"

\* A completed question is all that it held and what was chosen.
LEMMA CompleteGives ==
    ASSUME NEW q, NEW chosen, NEW corrected, NEW mem, IsMemory(mem), mem.question = NoQuestion, DOMAIN q = QuestionFields,
           NEW r, r = CompletePending(q, chosen, corrected, mem)
    PROVE  Completes(r, q, chosen, corrected)
<1> USE DEF Completes
<1> PICK person, ticket, why : /\ person = (IF chosen \in Folk THEN chosen ELSE q.person)
                               /\ ticket = (IF chosen \in Tickets THEN chosen ELSE q.ticket)
                               /\ why = corrected
  OBVIOUS
<1> PICK a, b, c : /\ a = Action(q.does, ticket, person, q.level, q.title)
                   /\ b = Action("list", Nothing, person, Nothing, FALSE)
                   /\ c = Action("open", ticket, Nothing, Nothing, FALSE)
  OBVIOUS
<1>1. Nothing \notin Tickets
  BY DialogueAssumption
<1>2. ASSUME NEW e, r = Propose(e, corrected, mem, TRUE)
      PROVE  /\ r.kept /\ r.kind # "fallback" /\ r.act = e /\ r.mem = mem
             /\ corrected /\ e.does \in Changes => r.kind = "confirm"
  BY <1>2 DEF Propose, Result, ConfirmationReason
<1>3. ASSUME NEW e, r = Clarify(Asking(mem, e), TRUE)
      PROVE  r.kept /\ r.kind # "fallback" /\ r.act.does \notin Changes /\ r.mem.question = e
  <2>1. Asking(mem, e).question = e
    BY DEF Asking, IsMemory, MemoryFields
  <2>2. r.kept /\ r.kind # "fallback" /\ r.act = NoAction /\ r.mem = Asking(mem, e)
    BY <1>3 DEF Clarify, Result
  <2> QED
    BY <2>1, <2>2 DEF NoAction, Changes
<1>4. /\ a.does = q.does /\ a.ticket = ticket /\ a.person = person /\ a.level = q.level /\ a.title = q.title
      /\ b.does \notin Changes /\ c.does \notin Changes
  BY DEF Action, Changes
<1> PICK d, f : /\ d = [q EXCEPT !.candidates = <<>>, !.single = Nothing, !.person = person]
                /\ f = [Question("choice", "choice", "update", <<>>, ticket, Nothing, q.context) EXCEPT !.age = q.age]
  OBVIOUS
<1>5. /\ DOMAIN d = QuestionFields /\ d.age = q.age /\ d.candidates = <<>>
      /\ DOMAIN f = QuestionFields /\ f.age = q.age /\ f.candidates = <<>>
  BY DEF Question, QuestionFields
<1>6. \/ r = Propose(b, corrected, mem, TRUE)
      \/ r = Propose(c, corrected, mem, TRUE)
      \/ ticket = Nothing /\ r = Clarify(Asking(mem, d), TRUE)
      \/ ~HasFields(a) /\ r = Clarify(Asking(mem, f), TRUE)
      \/ r = Propose(a, corrected, mem, TRUE) /\ (q.does = "update" => ticket # Nothing)
  BY DEF CompletePending
<1>7. CASE r = Propose(b, corrected, mem, TRUE) \/ r = Propose(c, corrected, mem, TRUE)
  BY <1>2, <1>4, <1>7
<1>8. CASE ticket = Nothing /\ r = Clarify(Asking(mem, d), TRUE)
  BY <1>1, <1>3, <1>5, <1>8
<1>9. CASE ~HasFields(a) /\ r = Clarify(Asking(mem, f), TRUE)
  BY <1>3, <1>4, <1>5, <1>9 DEF HasFields
<1>10. CASE r = Propose(a, corrected, mem, TRUE) /\ (q.does = "update" => ticket # Nothing)
  <2>1. r.kept /\ r.kind # "fallback" /\ r.act = a /\ r.mem = mem /\ (corrected /\ a.does \in Changes => r.kind = "confirm")
    BY <1>2, <1>10
  <2>2. CASE a.does \in Changes
    BY <1>4, <1>10, <2>1, <2>2
  <2>3. CASE a.does \notin Changes
    BY <2>1, <2>3
  <2> QED
    BY <2>2, <2>3
<1> QED
  BY <1>6, <1>7, <1>8, <1>9, <1>10

\* What a message means by itself.
Alone(r, m, focus) == ~r.kept /\ OfMessage(r, m, focus)

\* The question that is put once more.
LEMMA AskAgainGives ==
    ASSUME NEW q, DOMAIN q = QuestionFields, Listed(q.candidates), NEW m, NEW mem, IsMemory(mem), NEW alone,
           NEW r, r = AskAgain(q, mem, alone)
    PROVE  r = alone \/ (r.kept /\ r.kind # "fallback" /\ AsksOn(r, q, m))
<1> PICK p : p = [q EXCEPT !.repeats = 1, !.age = 0]
  OBVIOUS
<1>1. /\ DOMAIN p = QuestionFields /\ p.age = 0 /\ p.repeats = 1 /\ p.candidates = q.candidates /\ p.single = q.single
      /\ p.does = q.does /\ p.slot = q.slot /\ p.ticket = q.ticket /\ p.person = q.person /\ p.level = q.level
      /\ p.context = q.context
  BY DEF QuestionFields
<1>2. SUFFICES ASSUME r # alone PROVE r.kept /\ r.kind # "fallback" /\ AsksOn(r, q, m)
  OBVIOUS
<1>3. r = Clarify(Asking(mem, p), TRUE)
  BY <1>2 DEF AskAgain
<1>4. Asking(mem, p).question = p
  BY DEF Asking, IsMemory, MemoryFields
<1>5. r.kept /\ r.kind # "fallback" /\ r.act = NoAction /\ r.mem = Asking(mem, p)
  BY <1>3 DEF Clarify, Result
<1>6. p # NoQuestion /\ r.act.does \notin Changes
  <2>1. p # NoQuestion
    BY <1>1 DEF QuestionFields, NoQuestion
  <2> QED
    BY <1>5, <2>1 DEF NoAction, Changes
<1>7. SameRequest(p, q)
  BY <1>1 DEF SameRequest
<1>8. r.mem.question = p
  BY <1>4, <1>5
<1> QED
  BY <1>1, <1>5, <1>6, <1>7, <1>8 DEF AsksOn

\* Of a list, a rejection leaves people who are not rejected.
Spares(q, gone, m) ==
    q.does = "update" =>
       \A p \in ToSet(q.candidates) \cap ((tickets \cup people) \ gone) :
          p \notin m.without /\ (p \in Picked(q, m) \/ m.without \ Picked(q, m) # {})

\* What is left of a list: the last person left is only asked about.
LEMMA AfterRejectionGives ==
    ASSUME tickets \subseteq Tickets, people \subseteq Folk, NEW q, Offers(q), Choosing(q), NEW m, NEW gone,
           Spares(q, gone, m),
           NEW mem, IsMemory(mem), mem.question = NoQuestion, NEW r, r = AfterRejection(q, gone, mem)
    PROVE  r.kept /\ r.kind # "fallback" /\ (LeavesNothing(r) \/ AsksOn(r, q, m) \/ Chooses(r, q, m))
<1> PICK list, left, kept : list = q.candidates /\ kept = (tickets \cup people) \ gone /\ left = Remaining(list, kept)
  OBVIOUS
<1> PICK p : p = [q EXCEPT !.candidates = left, !.single = Nothing, !.age = 0]
  OBVIOUS
<1> PICK o : o = [p EXCEPT !.single = left[1]]
  OBVIOUS
<1>1. /\ left \in Seq(Tickets \cup Folk) /\ ToSet(left) = ToSet(list) \cap kept /\ IsInjective(left)
  BY RemainingFacts DEF Listed, Offers
<1>2. Listed(left)
  BY <1>1 DEF Listed
<1>3. DOMAIN q = QuestionFields
  BY DEF Offers
<1>4. /\ DOMAIN p = QuestionFields /\ p.age = 0 /\ p.repeats = q.repeats /\ p.candidates = left /\ p.single = Nothing
      /\ p.does = q.does /\ p.slot = q.slot /\ p.ticket = q.ticket /\ p.person = q.person /\ p.level = q.level
      /\ p.context = q.context
  BY <1>3 DEF QuestionFields
<1>5. /\ DOMAIN o = QuestionFields /\ o.age = 0 /\ o.repeats = q.repeats /\ o.candidates = left
      /\ o.does = q.does /\ o.slot = q.slot /\ o.ticket = q.ticket /\ o.person = q.person /\ o.level = q.level
      /\ o.context = q.context
  BY <1>4 DEF QuestionFields
<1>6. SameRequest(p, q) /\ SameRequest(o, q) /\ p # NoQuestion /\ o # NoQuestion
  BY <1>2, <1>4, <1>5 DEF SameRequest, QuestionFields, NoQuestion
<1>7. q.does = "update" => ToSet(left) \subseteq ToSet(list) \ m.without
  BY <1>1 DEF Spares
<1>8. ASSUME NEW e, e # NoQuestion, r = Clarify(Asking(mem, e), TRUE), SameRequest(e, q), e.repeats = q.repeats,
             e.candidates = left, q.does = "update" => e.single = Nothing
      PROVE  r.kept /\ r.kind # "fallback" /\ AsksOn(r, q, m)
  <2>1. Asking(mem, e).question = e
    BY DEF Asking, IsMemory, MemoryFields
  <2>2. r.kept /\ r.kind # "fallback" /\ r.act = NoAction /\ r.mem = Asking(mem, e)
    BY <1>8 DEF Clarify, Result
  <2>3. r.act.does \notin Changes
    BY <2>2 DEF NoAction, Changes
  <2> QED
    BY <1>7, <1>8, <2>1, <2>2, <2>3 DEF AsksOn
<1>9. CASE Len(left) # 1
  <2>1. r = Clarify(Asking(mem, p), TRUE)
    BY <1>9 DEF AfterRejection
  <2> QED
    BY <1>4, <1>6, <1>8, <2>1
<1>10. CASE Len(left) = 1 /\ q.does \notin Changes
  <2>1. r = Clarify(Asking(mem, o), TRUE)
    BY <1>4, <1>10 DEF AfterRejection
  <2>2. q.does # "update"
    BY <1>10 DEF Changes
  <2> QED
    BY <1>5, <1>6, <1>8, <2>1, <2>2
<1>11. CASE Len(left) = 1 /\ q.does \in Changes
  <2> PICK last, sure : last = left[1] /\ sure = TRUE
    OBVIOUS
  <2>1. q.does = "update"
    BY <1>11 DEF Offers, Choosing, Changes
  <2>2. last \in ToSet(left)
    <3>1. DOMAIN left = 1 .. 1
      BY <1>1, <1>11, LenProperties
    <3>2. 1 \in DOMAIN left
      BY <3>1
    <3> QED
      BY <3>2 DEF ToSet
  <2>3. last \in Folk /\ last \notin Tickets /\ last # Nothing /\ q.ticket # Nothing
    BY <1>1, <2>1, <2>2, DialogueAssumption DEF Offers, Choosing
  <2>4. r = CompletePending(p, last, sure, mem)
    <3>1. r = CompletePending(p, left[1], TRUE, mem)
      BY <1>4, <1>11 DEF AfterRejection
    <3> QED
      BY <3>1
  <2>5. Completes(r, p, last, sure)
    BY <1>4, <2>4, CompleteGives
  <2>6. last \in ToSet(list) \cap kept
    BY <1>1, <2>2
  <2>7. CASE r.act.does \notin Changes /\ r.mem.question = NoQuestion
    BY <2>5, <2>7 DEF LeavesNothing, Completes
  <2>8. CASE ~(r.act.does \notin Changes /\ r.mem.question = NoQuestion)
    <3>1. /\ r.kept /\ r.kind = "confirm" /\ r.mem.question = NoQuestion /\ r.act.does = "update"
          /\ r.act.ticket = q.ticket /\ r.act.person = last /\ r.act.level = q.level
      BY <1>4, <2>1, <2>3, <2>5, <2>8 DEF Completes
    <3> QED
      BY <2>1, <2>6, <3>1 DEF Chooses, Spares
  <2> QED
    BY <2>7, <2>8
<1> QED
  BY <1>9, <1>10, <1>11

\* The answer to a list.
LEMMA AnswerChoiceGives ==
    ASSUME tickets \subseteq Tickets, people \subseteq Folk, NEW m, m.ticket \in Tickets \cup {Nothing},
           NEW mem, IsMemory(mem), NEW q, q = mem.question, Offers(q), Choosing(q), q.age > 0, NEW alone,
           Alone(alone, m, mem.focus), NEW r, r = AnswerChoice(q, m, mem, alone, CandidateReply(q, m))
    PROVE  Origin(r, m, mem)
<1> PICK reply, again, no : reply = CandidateReply(q, m) /\ again = Answered(mem) /\ no = FALSE
  OBVIOUS
<1>1. IsMemory(again) /\ again.question = NoQuestion
  BY AnsweredIs
<1>2. DOMAIN q = QuestionFields /\ Listed(q.candidates) /\ q # NoQuestion
  BY DEF Offers, Choosing
<1>3. ASSUME r.kept, r.kind # "fallback", LeavesNothing(r) \/ AsksOn(r, q, m) \/ Chooses(r, q, m)
      PROVE  Origin(r, m, mem)
  BY <1>2, <1>3 DEF Origin, Answers
<1>4. r = alone => Origin(r, m, mem)
  BY DEF Origin, Alone
<1>5. ASSUME q.does = "update"
      PROVE  /\ reply.chosen # Nothing => reply.chosen \in Picked(q, m) \cap Folk
             /\ reply.chosen = Nothing /\ reply.rejected # {} =>
                 \A p \in ToSet(q.candidates) \cap ((tickets \cup people) \ reply.rejected) :
                     p \notin m.without /\ (p \in Picked(q, m) \/ m.without \ Picked(q, m) # {})
  BY <1>5, ReplyOf DEF Offers
<1>6. CASE reply.chosen # Nothing
  <2> PICK chosen : chosen = reply.chosen
    OBVIOUS
  <2>1. r = CompletePending(q, chosen, no, again)
    BY <1>6 DEF AnswerChoice
  <2>2. /\ r.kept /\ r.kind # "fallback"
        /\ \/ r.act.does \notin Changes /\ r.mem.question = NoQuestion
           \/ /\ r.act.does \notin Changes /\ DOMAIN r.mem.question = QuestionFields
              /\ r.mem.question.age = q.age /\ r.mem.question.candidates = <<>>
           \/ /\ r.act.does \in Changes /\ r.mem.question = NoQuestion /\ r.act.does = q.does
              /\ r.act.ticket = IF chosen \in Tickets THEN chosen ELSE q.ticket
              /\ r.act.person = IF chosen \in Folk THEN chosen ELSE q.person
              /\ r.act.level = q.level
    <3>1. Completes(r, q, chosen, no)
      BY <1>1, <1>2, <2>1, CompleteGives
    <3> QED
      BY <3>1 DEF Completes
  <2>3. CASE r.act.does \notin Changes /\ r.mem.question = NoQuestion
    BY <1>3, <2>2, <2>3 DEF LeavesNothing
  <2>4. CASE /\ r.act.does \notin Changes /\ DOMAIN r.mem.question = QuestionFields
             /\ r.mem.question.age = q.age /\ r.mem.question.candidates = <<>>
    BY <1>3, <2>2, <2>4, NobodyListed DEF LeavesNothing
  <2>5. CASE /\ r.act.does \in Changes /\ r.mem.question = NoQuestion /\ r.act.does = q.does
             /\ r.act.ticket = IF chosen \in Tickets THEN chosen ELSE q.ticket
             /\ r.act.person = IF chosen \in Folk THEN chosen ELSE q.person
             /\ r.act.level = q.level
    <3>1. q.does = "update"
      BY <2>5 DEF Offers, Choosing, Changes
    <3>2. chosen \in Picked(q, m) /\ chosen \in Folk /\ chosen \notin Tickets
      BY <1>5, <1>6, <3>1, DialogueAssumption
    <3>3. Chooses(r, q, m)
      BY <2>5, <3>1, <3>2 DEF Chooses
    <3> QED
      BY <1>3, <2>2, <3>3
  <2> QED
    BY <2>2, <2>3, <2>4, <2>5
<1>7. CASE reply.chosen = Nothing /\ (reply.rejected # {} \/ (m.cue /\ q.single # Nothing))
  <2> PICK gone : gone = IF reply.rejected # {} THEN reply.rejected ELSE {q.single}
    OBVIOUS
  <2>1. r = AfterRejection(q, gone, again)
    BY <1>7 DEF AnswerChoice
  <2>2. Spares(q, gone, m)
    <3> SUFFICES ASSUME q.does = "update"
                 PROVE  \A p \in ToSet(q.candidates) \cap ((tickets \cup people) \ gone) :
                            p \notin m.without /\ (p \in Picked(q, m) \/ m.without \ Picked(q, m) # {})
      BY DEF Spares
    <3>1. q.single = Nothing
      BY DEF Offers
    <3>2. reply.rejected # {} /\ gone = reply.rejected
      BY <1>7, <3>1
    <3> QED
      BY <1>5, <1>7, <3>2
  <2>3. r.kept /\ r.kind # "fallback" /\ (LeavesNothing(r) \/ AsksOn(r, q, m) \/ Chooses(r, q, m))
    BY <1>1, <2>1, <2>2, AfterRejectionGives
  <2> QED
    BY <1>3, <2>3
<1>8. CASE reply.chosen = Nothing /\ ~(reply.rejected # {} \/ (m.cue /\ q.single # Nothing))
  <2>1. r = alone \/ r = AskAgain(q, mem, alone)
    BY <1>8 DEF AnswerChoice
  <2>2. r = AskAgain(q, mem, alone) => r = alone \/ (r.kept /\ r.kind # "fallback" /\ AsksOn(r, q, m))
    BY <1>2, AskAgainGives
  <2> QED
    BY <1>3, <1>4, <2>1, <2>2
<1> QED
  BY <1>6, <1>7, <1>8

\* The answer to a question which offers no list.
LEMMA AnswerSlotGives ==
    ASSUME tickets \subseteq Tickets, people \subseteq Folk, NEW m,
           NEW mem, IsMemory(mem), NEW q, q = mem.question, Offers(q), ~Choosing(q), q.age > 0, NEW alone,
           Alone(alone, m, mem.focus), NEW joined, OfMessage(joined, Joined(q.context, m), mem.focus),
           DOMAIN joined = ResultFields, NEW r, r = AnswerSlot(q, m, mem, alone, joined)
    PROVE  Origin(r, m, mem)
<1> PICK again, no, got : again = Answered(mem) /\ no = FALSE /\ got = SuppliedSlot(q, m)
  OBVIOUS
<1>1. IsMemory(again) /\ again.question = NoQuestion
  BY AnsweredIs
<1>2. DOMAIN q = QuestionFields /\ Listed(q.candidates)
  BY DEF Offers
<1>3. q # NoQuestion
  BY <1>2 DEF QuestionFields, NoQuestion
<1>4. ASSUME r.kept, r.kind # "fallback", LeavesNothing(r) \/ AsksOn(r, q, m) \/ Supplies(r, q, m)
      PROVE  Origin(r, m, mem)
  BY <1>3, <1>4 DEF Origin, Answers
<1>5. r = alone => Origin(r, m, mem)
  BY DEF Origin, Alone
<1>6. r = AskAgain(q, mem, alone) => Origin(r, m, mem)
  <2>1. r = AskAgain(q, mem, alone) => r = alone \/ (r.kept /\ r.kind # "fallback" /\ AsksOn(r, q, m))
    BY <1>2, AskAgainGives
  <2> QED
    BY <1>4, <1>5, <2>1
<1>7. CASE got # Nothing
  <2>1. r = CompletePending(q, got, no, again)
    BY <1>7 DEF AnswerSlot
  <2>2. Completes(r, q, got, no)
    BY <1>1, <1>2, <2>1, CompleteGives
  <2>3. \/ got \in Folk /\ got \notin Tickets /\ Seen(m) = {got}
        \/ got \in Tickets /\ got \notin Folk /\ got = m.ticket
    <3>1. CASE q.slot = "person" /\ Cardinality(Seen(m)) = 1
      <4>1. got = OnePerson(m)
        BY <3>1 DEF SuppliedSlot
      <4>2. Seen(m) # {} /\ ~(Cardinality(Seen(m)) > 1)
        <5>1. Cardinality({}) = 0
          BY FS_EmptySet
        <5> QED
          BY <3>1, <5>1
      <4>3. Seen(m) = {got}
        BY <4>1, <4>2, OnePersonIs
      <4>4. Seen(m) \subseteq Folk
        BY DEF Seen
      <4> QED
        BY <4>3, <4>4, DialogueAssumption
    <3>2. CASE ~(q.slot = "person" /\ Cardinality(Seen(m)) = 1)
      <4>1. got = m.ticket /\ m.ticket \in tickets
        BY <1>7, <3>2 DEF SuppliedSlot
      <4> QED
        BY <4>1, DialogueAssumption
    <3> QED
      BY <3>1, <3>2
  <2>4. CASE r.act.does \notin Changes /\ r.mem.question = NoQuestion
    BY <1>4, <2>2, <2>4 DEF LeavesNothing, Completes
  <2>5. CASE /\ r.act.does \notin Changes /\ DOMAIN r.mem.question = QuestionFields
             /\ r.mem.question.age = q.age /\ r.mem.question.candidates = <<>>
    BY <1>4, <2>2, <2>5, NobodyListed DEF LeavesNothing, Completes
  <2>6. CASE /\ r.act.does \in Changes /\ r.mem.question = NoQuestion
             /\ r.act.ticket = IF got \in Tickets THEN got ELSE q.ticket
             /\ r.act.person = IF got \in Folk THEN got ELSE q.person
             /\ r.act.level = q.level /\ (r.act.does = "update" => r.act.ticket # Nothing)
    <3>1. r.act.ticket \in {q.ticket, m.ticket} /\ (r.act.person = q.person \/ Seen(m) = {r.act.person})
      BY <2>3, <2>6
    <3>2. Supplies(r, q, m)
      BY <2>6, <3>1 DEF Supplies
    <3> QED
      BY <1>4, <2>2, <3>2 DEF Completes
  <2> QED
    BY <2>2, <2>4, <2>5, <2>6 DEF Completes
<1>8. CASE got = Nothing /\ q.slot = "person" /\ Unknown(m) /\ Seen(m) = {}
  <2> PICK a : a = Action("offer", Nothing, Nothing, Nothing, FALSE)
    OBVIOUS
  <2>1. r = Propose(a, FALSE, again, TRUE)
    BY <1>8 DEF AnswerSlot, Offer
  <2>2. a.does \notin Changes
    BY DEF Action, Changes
  <2>3. r.kept /\ r.kind # "fallback" /\ r.act = a /\ r.mem = again
    BY <2>1 DEF Propose, Result
  <2> QED
    BY <1>1, <1>4, <2>2, <2>3 DEF LeavesNothing
<1>9. CASE r = [joined EXCEPT !.kept = TRUE] /\ joined.kind # "fallback"
  <2>1. r.kept /\ r.kind = joined.kind /\ r.act = joined.act /\ r.mem = joined.mem
    BY <1>9 DEF ResultFields
  <2>2. OfMessage(r, Joined(q.context, m), mem.focus)
    BY <2>1 DEF OfMessage
  <2> QED
    BY <1>3, <1>9, <2>1, <2>2 DEF Origin, Answers
<1>10. \/ got # Nothing
       \/ got = Nothing /\ q.slot = "person" /\ Unknown(m) /\ Seen(m) = {}
       \/ r = alone
       \/ r = [joined EXCEPT !.kept = TRUE] /\ joined.kind # "fallback"
       \/ r = AskAgain(q, mem, alone)
  BY DEF AnswerSlot
<1> QED
  BY <1>5, <1>6, <1>7, <1>8, <1>9, <1>10

\* A memory whose question, if any, was put in a turn before.
Answerable(mem) == IsMemory(mem) /\ (mem.question # NoQuestion => Offers(mem.question) /\ mem.question.age > 0)

\* The answer to either kind of question, and then whatever is routed.
LEMMA AnswerClarificationGives ==
    ASSUME product \in Products, tickets \subseteq Tickets, people \subseteq Folk, NEW m, m.asks \in Rules,
           m.ticket \in Tickets \cup {Nothing}, NEW mem, Answerable(mem), Unconfirmed(mem), mem.question # NoQuestion,
           NEW theirs, theirs \subseteq tickets, NEW alone, Alone(alone, m, mem.focus), NEW r,
           r = AnswerClarification(m, mem, theirs, alone)
    PROVE  Origin(r, m, mem)
<1> PICK q : q = mem.question
  OBVIOUS
<1>1. IsMemory(mem) /\ Offers(q) /\ q.age > 0 /\ q.context.asks \in Rules
  BY DEF Answerable, IsMemory, IsQuestion
<1>2. CASE m.aside
  <2>1. r = Result("cancelled", Answered(mem), FALSE)
    BY <1>2 DEF AnswerClarification
  <2>2. Answered(mem).question = NoQuestion
    BY <1>1, AnsweredIs
  <2>3. r.kind # "fallback" /\ r.act = NoAction /\ r.mem.question = NoQuestion
    BY <2>1, <2>2 DEF Result
  <2> QED
    BY <2>3 DEF Origin, LeavesNothing, NoAction, Changes
<1>3. CASE ~m.aside /\ Choosing(q)
  <2>1. r = AnswerChoice(q, m, mem, alone, CandidateReply(q, m))
    BY <1>3 DEF AnswerClarification
  <2> QED
    BY <1>1, <1>3, <2>1, AnswerChoiceGives
<1>4. CASE ~m.aside /\ ~Choosing(q)
  <2> PICK j, again, joined, focus : /\ j = Joined(q.context, m) /\ again = Answered(mem) /\ focus = mem.focus
                                     /\ joined = RouteFresh(j, again, theirs)
    OBVIOUS
  <2>1. r = AnswerSlot(q, m, mem, alone, joined)
    BY <1>4 DEF AnswerClarification
  <2>2. j.asks \in Rules
    BY <1>1, JoinedIs
  <2>3. Clear(again)
    BY AnsweredIs DEF Unconfirmed, Clear
  <2>4. again.focus = focus
    BY <1>1 DEF IsMemory, Answered, MemoryFields
  <2>5. OfMessage(joined, j, focus)
    BY <2>2, <2>3, <2>4, RouteFreshOf
  <2>6. DOMAIN joined = ResultFields
    BY <2>2, <2>3, RouteFreshIs DEF Routed
  <2> QED
    BY <1>1, <1>4, <2>1, <2>5, <2>6, AnswerSlotGives
<1> QED
  BY <1>2, <1>3, <1>4

\* What a message leads to, unless it is a pending yes.
LEMMA RouteOrigin ==
    ASSUME product \in Products, tickets \subseteq Tickets, people \subseteq Folk, NEW m, m.asks \in Rules,
           m.ticket \in Tickets \cup {Nothing}, NEW mem, Answerable(mem),
           ~(~m.barred /\ mem.confirmation # NoConfirmation /\ m.yes),
           NEW theirs, theirs \subseteq tickets, NEW r, r = Route(m, mem, theirs)
    PROVE  Origin(r, m, mem) /\ (mem.question = NoQuestion => ~r.kept)
<1> PICK after : after = [mem EXCEPT !.confirmation = NoConfirmation]
  OBVIOUS
<1> PICK again, alone, focus : again = Answered(after) /\ alone = RouteFresh(m, again, theirs) /\ focus = mem.focus
  OBVIOUS
<1>1. /\ Unconfirmed(after) /\ after.question = mem.question /\ after.focus = focus
      /\ IsMemory(mem)
  BY DEF Answerable, Unconfirmed, IsMemory, MemoryFields
<1>2. Answerable(after)
  BY <1>1 DEF Answerable, Unconfirmed
<1>3. Clear(again)
  BY <1>1, AnsweredIs DEF Unconfirmed, Clear
<1>4. again.focus = focus
  BY <1>1 DEF Answered, Unconfirmed, IsMemory, MemoryFields
<1>5. Alone(alone, m, focus) /\ Routed(alone)
  BY <1>3, <1>4, RouteFreshOf, RouteFreshIs DEF Alone
<1>6. CASE m.barred
  <2>1. r = Result("refuse", Discarded(mem), FALSE)
    BY <1>6 DEF Route
  <2>2. Discarded(mem).question = NoQuestion
    BY <1>1, DiscardedIs DEF Clear
  <2>3. ~r.kept /\ r.kind # "fallback" /\ r.act = NoAction /\ r.mem.question = NoQuestion
    BY <2>1, <2>2 DEF Result
  <2> QED
    BY <2>3 DEF Origin, LeavesNothing, NoAction, Changes
<1>7. CASE ~m.barred
  <2> PICK s : s = IF after.question # NoQuestion THEN AnswerClarification(m, after, theirs, alone) ELSE alone
    OBVIOUS
  <2>1. r = s \/ (s.kind = "fallback" /\ r = [s EXCEPT !.kind = "cancelled"])
    BY <1>7 DEF Route
  <2>2. Origin(s, m, after)
    <3>1. CASE after.question # NoQuestion
      BY <1>1, <1>2, <1>5, <3>1, AnswerClarificationGives
    <3>2. CASE after.question = NoQuestion
      BY <1>1, <1>5, <3>2 DEF Origin, Alone
    <3> QED
      BY <3>1, <3>2
  <2>3. Origin(s, m, mem)
    BY <1>1, <2>2 DEF Origin, Answers
  <2>5. mem.question = NoQuestion => ~s.kept
    BY <1>1, <1>5 DEF Alone
  <2>4. CASE s.kind = "fallback" /\ r = [s EXCEPT !.kind = "cancelled"]
    <3>1. ~s.kept /\ OfMessage(s, m, mem.focus)
      BY <2>3, <2>4 DEF Origin, Answers
    <3>2. DOMAIN s = ResultFields
      <4>1. after.question # NoQuestion => Routed(s)
        BY <1>1, <1>5, AnswerClarificationIs
      <4> QED
        BY <1>5, <4>1 DEF Routed
    <3>3. r.kept = s.kept /\ r.kind = "cancelled" /\ r.act = s.act /\ r.mem = s.mem
      BY <2>4, <3>2 DEF ResultFields
    <3>4. OfMessage(r, m, mem.focus)
      BY <2>4, <3>1, <3>3 DEF OfMessage
    <3> QED
      BY <2>5, <3>1, <3>3, <3>4 DEF Origin
  <2> QED
    BY <2>1, <2>3, <2>4, <2>5
<1> QED
  BY <1>6, <1>7

-----------------------------------------------------------------------------
(* What was said for a request, and what a change and a question hold of   *)
(* it: every turn keeps the two together.                                  *)

\* What is kept of a request, for the properties: see SaidWith.
RequestFields == {"tickets", "people", "picked", "without", "levels", "open", "asked", "shown"}

\* What is being served when a turn begins: the request before it, or nothing yet.
Served(t, mem) == IF t.kept THEN request ELSE [Unasked EXCEPT !.open = {mem.focus, selected}]

\* A turn that keeps or begins a request, and does not put its question once more.
Goes(t) ==
    /\ t.mem.question # NoQuestion \/ t.act.does \in Changes
    /\ t.mem.question # NoQuestion => ~(t.mem.question.repeats > 0)

\* What a message adds to what was said before.
Gathers(x, before, m) ==
    /\ x.levels = before.levels \cup m.levels /\ before.tickets \cup ({m.ticket} \ {Nothing}) \subseteq x.tickets
    /\ before.asked \subseteq x.asked
    /\ \A who \in before.people \cup {m.people} :
          /\ who # {} => who \in x.people
          /\ who \cap people # {} => who \cap people \in x.people

\* A turn serves the request before it, or begins its own.
LEMMA ServedFacts ==
    ASSUME DOMAIN request = RequestFields, NEW t, NEW mem, NEW before, before = Served(t, mem)
    PROVE  /\ DOMAIN before = RequestFields
           /\ t.kept => before = request
           /\ ~t.kept => /\ before.tickets = {} /\ before.asked = {} /\ before.people = {} /\ before.levels = {} /\ before.without = {}
                         /\ before.open = {mem.focus, selected}
BY DEF Served, Unasked, RequestFields

LEMMA SaidWithFields ==
    ASSUME DOMAIN request = RequestFields, NEW m, NEW t, NEW mem, NEW x, x = SaidWith(m, t, mem)
    PROVE  /\ DOMAIN x = RequestFields
           /\ t.mem.question # NoQuestion /\ t.mem.question.repeats > 0 => x = request
<1>1. DOMAIN Unasked = RequestFields
  BY DEF Unasked, RequestFields
<1>2. DOMAIN Served(t, mem) = RequestFields
  BY ServedFacts
<1> PICK before : before = Served(t, mem)
  OBVIOUS
<1>3. CASE t.mem.question = NoQuestion /\ t.mem.confirmation = NoConfirmation /\ t.act.does \notin Changes
  BY <1>1, <1>3 DEF SaidWith
<1>4. CASE t.mem.question # NoQuestion /\ t.mem.question.repeats > 0
  BY <1>4 DEF SaidWith
<1>5. CASE /\ ~(t.mem.question = NoQuestion /\ t.mem.confirmation = NoConfirmation /\ t.act.does \notin Changes)
           /\ ~(t.mem.question # NoQuestion /\ t.mem.question.repeats > 0)
  <2>1. DOMAIN x = DOMAIN before
    BY <1>5 DEF SaidWith, Served
  <2> QED
    BY <1>2, <1>5, <2>1
<1> QED
  BY <1>3, <1>4, <1>5

\* Whether what a turn is about is the ticket the question was about.
Settles(mem, about) ==
    mem.question # NoQuestion /\ about # Nothing /\ about \in {mem.question.ticket, mem.question.context.ticket}

\* What is kept of a turn with the request it goes on with.
Keeps(x, before, m, t, mem, about) ==
    /\ Gathers(x, before, m)
    /\ t.kept /\ Choosing(mem.question) =>
          /\ {about} \cap ((before.tickets \cup before.open \cup before.asked) \ {Nothing}) \subseteq x.asked
          /\ x.open = before.open
          /\ Picked(mem.question, m) \subseteq x.picked
          /\ t.mem.question = NoQuestion \/ Choosing(t.mem.question) =>
                x.without = (before.without \ (m.people \cup Picked(mem.question, m)))
                               \cup (m.without \ Picked(mem.question, m))
          /\ ~(t.mem.question = NoQuestion \/ Choosing(t.mem.question)) => x.without = {}
    /\ ~(t.kept /\ Choosing(mem.question)) =>
          /\ t.kept /\ Settles(mem, about) =>
                {about} \cap ((before.tickets \cup before.open \cup before.asked) \ {Nothing}) \subseteq x.asked
          /\ x.open = IF before.open = {} \/ m.ticket \in (IF t.kept THEN tickets ELSE Tickets) THEN {}
                      ELSE before.open \cup {mem.focus, selected}
          /\ x.without = {}

\* What a turn adds to what was said, choosing from a list or not.
LEMMA SaidWithGives ==
    ASSUME DOMAIN request = RequestFields, NEW m, NEW t, Goes(t), NEW mem, NEW x, x = SaidWith(m, t, mem),
           NEW before, before = Served(t, mem),
           NEW about, about = IF t.mem.question # NoQuestion THEN t.mem.question.ticket ELSE t.act.ticket
    PROVE  Keeps(x, before, m, t, mem, about)
<1> USE DEF Keeps
<1> PICK named, askedA, openA, openB, persons, picks, withoutA, shows, spoken :
        /\ named = before.tickets \cup ({m.ticket} \ {Nothing})
        /\ askedA = before.asked \cup ({about} \cap ((before.tickets \cup before.open \cup before.asked) \ {Nothing}))
        /\ openA = before.open
        /\ openB = IF before.open = {} \/ m.ticket \in (IF t.kept THEN tickets ELSE Tickets) THEN {}
                   ELSE before.open \cup {mem.focus, selected}
        /\ persons = ({who \cap people : who \in before.people \cup {m.people}} \cup before.people \cup {m.people}) \ {{}}
        /\ picks = Picked(mem.question, m)
        /\ withoutA = IF t.mem.question = NoQuestion \/ Choosing(t.mem.question)
                      THEN (before.without \ (m.people \cup picks)) \cup (m.without \ picks) ELSE {}
        /\ shows = IF t.stage = "awaiting" THEN t.act ELSE NoAction
        /\ spoken = before.levels \cup m.levels
  OBVIOUS
<1>1. DOMAIN before = RequestFields
  BY ServedFacts
<1>2. ~(t.mem.question = NoQuestion /\ t.mem.confirmation = NoConfirmation /\ t.act.does \notin Changes)
  BY DEF Goes
<1>3. ~(t.mem.question # NoQuestion /\ t.mem.question.repeats > 0)
  BY DEF Goes
<1>4. CASE t.kept /\ Choosing(mem.question)
  <2>1. x = [before EXCEPT !.tickets = named, !.asked = askedA, !.open = openA, !.people = persons,
                !.picked = before.picked \cup picks, !.without = withoutA, !.levels = spoken, !.shown = shows]
    BY <1>2, <1>3, <1>4 DEF SaidWith, Served
  <2>2. /\ x.tickets = named /\ x.asked = askedA /\ x.open = openA /\ x.people = persons /\ x.picked = before.picked \cup picks
        /\ x.without = withoutA /\ x.levels = spoken
    BY <1>1, <2>1 DEF RequestFields
  <2>3. Gathers(x, before, m)
    BY <2>2 DEF Gathers
  <2> QED
    BY <1>4, <2>2, <2>3
<1>5. CASE ~(t.kept /\ Choosing(mem.question)) /\ t.kept /\ Settles(mem, about)
  <2>1. x = [before EXCEPT !.tickets = named, !.asked = askedA, !.open = openB, !.people = persons,
                !.picked = before.picked \cup {}, !.without = {}, !.levels = spoken, !.shown = shows]
    BY <1>2, <1>3, <1>5 DEF SaidWith, Served, Settles
  <2>2. x.tickets = named /\ x.asked = askedA /\ x.open = openB /\ x.people = persons /\ x.without = {} /\ x.levels = spoken
    BY <1>1, <2>1 DEF RequestFields
  <2>3. Gathers(x, before, m)
    BY <2>2 DEF Gathers
  <2> QED
    BY <1>5, <2>2, <2>3
<1>6. CASE ~(t.kept /\ Choosing(mem.question)) /\ ~(t.kept /\ Settles(mem, about))
  <2>1. x = [before EXCEPT !.tickets = named, !.asked = before.asked \cup {}, !.open = openB, !.people = persons,
                !.picked = before.picked \cup {}, !.without = {}, !.levels = spoken, !.shown = shows]
    BY <1>2, <1>3, <1>6 DEF SaidWith, Served, Settles
  <2>2. x.tickets = named /\ x.asked = before.asked /\ x.open = openB /\ x.people = persons /\ x.without = {} /\ x.levels = spoken
    BY <1>1, <2>1 DEF RequestFields
  <2>3. Gathers(x, before, m)
    BY <2>2 DEF Gathers
  <2> QED
    BY <1>6, <2>2, <2>3
<1> QED
  BY <1>4, <1>5, <1>6

\* Names that were all said before, each together with the others it could stand for.
Recalls(named, before) == \A p \in named : \E who \in before : p \in who /\ who \subseteq named

\* What a pending question keeps was said for the request it serves.
AskedFor(q, R) ==
    /\ q.level \in R.levels \cup {Nothing, product.default} /\ q.context.levels \subseteq R.levels
    /\ Recalls(q.context.people, R.people)
    /\ q.person # Nothing => {q.person} \in R.people
    /\ q.context.ticket \in R.tickets \cup {Nothing}
    /\ q.slot = "value" => q.does = "create"
    /\ q.slot # "value" => /\ q.ticket \in R.tickets \cup R.open \cup R.asked \cup {Nothing}
                           /\ R.open = {} => q.context.ticket # Nothing
    /\ q.does = "create" => q.candidates = <<>>
    /\ q.does = "update" => /\ ToSet(q.candidates) \subseteq Folk \ R.without /\ q.single = Nothing
                            /\ q.candidates # <<>> => q.ticket # Nothing

\* What a request and the answer to its question hold together.
LEMMA JoinedFacts ==
    ASSUME NEW before, NEW m, NEW j, j = Joined(before, m)
    PROVE  /\ j.levels = m.levels \cup before.levels /\ j.people = m.people \cup before.people
           /\ j.ticket = IF before.ticket \in tickets \/ m.ticket = Nothing THEN before.ticket ELSE m.ticket
BY DEF Joined, Plain

\* The one person a message means, by itself or read with what was said before.
LEMMA PersonSaid ==
    ASSUME NEW x, NEW before, NEW m, Gathers(x, before, m), NEW p, Seen(m) = {p}
    PROVE  {p} \in x.people
<1>1. m.people \cap people = {p}
  BY DEF Seen
<1> QED
  BY <1>1 DEF Gathers

\* The same of a name which the request and the answer say together.
LEMMA PersonJoined ==
    ASSUME NEW x, NEW before, NEW m, Gathers(x, before, m), NEW context, NEW j, j = Joined(context, m),
           Recalls(context.people, before.people),
           NEW p, Seen(j) = {p}
    PROVE  {p} \in x.people
<1>1. (m.people \cup context.people) \cap people = {p}
  BY JoinedFacts DEF Seen
<1>2. CASE p \in m.people
  <2>1. Seen(m) = {p}
    BY <1>1, <1>2 DEF Seen
  <2> QED
    BY <2>1, PersonSaid
<1>3. CASE p \notin m.people
  <2>1. p \in context.people
    BY <1>1, <1>3
  <2>2. PICK who \in before.people : p \in who /\ who \subseteq context.people
    BY <2>1 DEF Recalls
  <2>3. who \cap people = {p}
    BY <1>1, <2>2
  <2> QED
    BY <2>2, <2>3 DEF Gathers
<1> QED
  BY <1>2, <1>3

\* A value and a person of a change are the request's; only a list's choice is judged by itself.
ValuesMeant(a, x) ==
    /\ a.level \in x.levels \cup {Nothing, product.default}
    /\ a.person # Nothing => {a.person} \in x.people

\* The level and the person of a change are among what was said, or picked from the list.
LEMMA ValuesOf ==
    ASSUME NEW m, NEW mem, mem.question # NoQuestion => AskedFor(mem.question, request),
           NEW r, Origin(r, m, mem), r.act.does \in Changes,
           NEW before, r.kept => before = request, NEW x, Gathers(x, before, m)
    PROVE  \/ ValuesMeant(r.act, x)
           \/ r.kept /\ mem.question # NoQuestion /\ Chooses(r, mem.question, m)
<1> PICK q : q = mem.question
  OBVIOUS
<1>1. x.levels = before.levels \cup m.levels /\ \A who \in before.people : who # {} => who \in x.people
  BY DEF Gathers
<1>2. CASE ~r.kept /\ OfMessage(r, m, mem.focus)
  <2>1. r.act.level \in m.levels \cup {Nothing} /\ (r.act.person # Nothing => Seen(m) = {r.act.person})
    BY <1>2 DEF OfMessage, ActOf
  <2>2. r.act.person # Nothing => {r.act.person} \in x.people
    BY <2>1, PersonSaid
  <2> QED
    BY <1>1, <2>1, <2>2 DEF ValuesMeant
<1>3. CASE r.kept /\ q # NoQuestion /\ Supplies(r, q, m)
  <2>1. AskedFor(q, request) /\ before = request
    BY <1>3
  <2>2. r.act.level = q.level /\ (r.act.person = q.person \/ Seen(m) = {r.act.person})
    BY <1>3 DEF Supplies
  <2>3. r.act.level \in x.levels \cup {Nothing, product.default}
    BY <1>1, <2>1, <2>2 DEF AskedFor
  <2>4. q.person # Nothing => {q.person} \in x.people
    BY <1>1, <2>1 DEF AskedFor
  <2>5. Seen(m) = {r.act.person} => {r.act.person} \in x.people
    BY PersonSaid
  <2> QED
    BY <2>2, <2>3, <2>4, <2>5 DEF ValuesMeant
<1>4. CASE r.kept /\ q # NoQuestion /\ OfMessage(r, Joined(q.context, m), mem.focus)
  <2> PICK j, context : context = q.context /\ j = Joined(context, m)
    OBVIOUS
  <2>1. /\ context.levels \subseteq request.levels /\ before = request
        /\ Recalls(context.people, before.people)
    BY <1>4 DEF AskedFor
  <2>2. r.act.level \in j.levels \cup {Nothing} /\ (r.act.person # Nothing => Seen(j) = {r.act.person})
    BY <1>4 DEF OfMessage, ActOf
  <2>3. j.levels \subseteq x.levels
    <3>1. j.levels = m.levels \cup context.levels
      BY JoinedFacts
    <3> QED
      BY <1>1, <2>1, <3>1
  <2>4. r.act.person # Nothing => {r.act.person} \in x.people
    <3> SUFFICES ASSUME NEW p, p = r.act.person, Seen(j) = {p} PROVE {p} \in x.people
      BY <2>2
    <3> QED
      BY <2>1, PersonJoined
  <2> QED
    BY <2>2, <2>3, <2>4 DEF ValuesMeant
<1> QED
  BY <1>2, <1>3, <1>4 DEF Origin, Answers, LeavesNothing, AsksOn

\* What a turn starts from: a request, and a question put for it in the turn before.
Started(m, mem) ==
    /\ DOMAIN request = RequestFields /\ tickets \subseteq Tickets /\ people \subseteq Folk
    /\ m.ticket \in Tickets \cup {Nothing} /\ Answerable(mem)
    /\ mem.question # NoQuestion => AskedFor(mem.question, request)

\* Whom a change of a ticket names is meant: what the invariants say of one that is put forward.
PersonMeant(p, awaiting, x) ==
    p # Nothing =>
        /\ p \notin x.without
        /\ (awaiting /\ x.without # {}) \/ p \in x.picked \/ {p} \in x.people

\* The ticket a message by itself is about is kept with the request it begins.
LEMMA TargetSaid ==
    ASSUME NEW m, m.ticket \in Tickets \cup {Nothing}, NEW mem, NEW t, Goes(t), ~t.kept,
           DOMAIN request = RequestFields, NEW x, x = SaidWith(m, t, mem)
    PROVE  /\ {m.ticket} \ {Nothing} \subseteq x.tickets /\ x.without = {}
           /\ m.ticket = Nothing => {mem.focus, selected} \subseteq x.open
           /\ x.open = {} => m.ticket # Nothing
<1> PICK before, about : /\ before = Served(t, mem)
                         /\ about = IF t.mem.question # NoQuestion THEN t.mem.question.ticket ELSE t.act.ticket
  OBVIOUS
<1>1. before.open = {mem.focus, selected}
  BY ServedFacts
<1>2. /\ {m.ticket} \ {Nothing} \subseteq x.tickets
      /\ x.open = IF before.open = {} \/ m.ticket \in (IF t.kept THEN tickets ELSE Tickets) THEN {}
                  ELSE before.open \cup {mem.focus, selected}
      /\ x.without = {}
  <2>1. Keeps(x, before, m, t, mem, about)
    BY SaidWithGives
  <2> QED
    BY <2>1 DEF Keeps, Gathers
<1>3. Nothing \notin Tickets
  BY DialogueAssumption
<1> QED
  BY <1>1, <1>2, <1>3

\* The ticket a message is about together with the request it answers is kept with that request.
LEMMA TargetJoined ==
    ASSUME NEW m, NEW mem, Started(m, mem), NEW q, q = mem.question, q # NoQuestion, ~Choosing(q), q.slot # "value",
           NEW t, Goes(t), t.kept, NEW x, x = SaidWith(m, t, mem), NEW j, j = Joined(q.context, m),
           NEW about, about = IF t.mem.question # NoQuestion THEN t.mem.question.ticket ELSE t.act.ticket,
           about = Nothing \/ Target(about, j, mem.focus)
    PROVE  /\ j.ticket \in x.tickets \cup {Nothing} /\ x.without = {}
           /\ about \in x.tickets \cup x.open \cup x.asked \cup {Nothing}
           /\ x.open = {} => j.ticket # Nothing
<1> PICK before, was : before = Served(t, mem) /\ was = q.context.ticket
  OBVIOUS
<1>1. before = request
  BY ServedFacts DEF Started
<1>2. /\ Gathers(x, before, m)
      /\ t.kept /\ Settles(mem, about) => {about} \cap ((before.tickets \cup before.open \cup before.asked) \ {Nothing}) \subseteq x.asked
      /\ x.open = IF before.open = {} \/ m.ticket \in (IF t.kept THEN tickets ELSE Tickets) THEN {}
                  ELSE before.open \cup {mem.focus, selected}
      /\ x.without = {}
  <2>1. Keeps(x, before, m, t, mem, about)
    BY SaidWithGives DEF Started
  <2> QED
    BY <2>1 DEF Keeps
<1>3. /\ was \in request.tickets \cup {Nothing} /\ q.ticket \in request.tickets \cup request.open \cup request.asked \cup {Nothing}
      /\ request.open = {} => was # Nothing
  BY DEF Started, AskedFor
<1>4. request.tickets \cup ({m.ticket} \ {Nothing}) \subseteq x.tickets
  BY <1>1, <1>2 DEF Gathers
<1>5. j.ticket = IF was \in tickets \/ m.ticket = Nothing THEN was ELSE m.ticket
  BY JoinedFacts
<1>6. Nothing \notin tickets
  BY DialogueAssumption DEF Started
<1>7. CASE was \in tickets \/ m.ticket = Nothing
  <2>1. j.ticket = was
    BY <1>5, <1>7
  <2>2. CASE was = Nothing
    <3>1. m.ticket = Nothing /\ request.open # {}
      BY <1>3, <1>6, <1>7, <2>2
    <3>2. x.open = request.open \cup {mem.focus, selected}
      BY <1>1, <1>2, <1>6, <3>1
    <3>3. about = Nothing \/ about \in {mem.focus, selected}
      BY <2>1, <2>2 DEF Target
    <3> QED
      BY <1>2, <2>1, <2>2, <3>1, <3>2, <3>3
  <2>3. CASE was # Nothing
    <3>1. about = Nothing \/ about = was
      BY <2>1, <2>3 DEF Target
    <3> QED
      BY <1>2, <1>3, <1>4, <2>1, <2>3, <3>1
  <2> QED
    BY <2>2, <2>3
<1>8. CASE ~(was \in tickets \/ m.ticket = Nothing)
  <2>1. j.ticket = m.ticket /\ m.ticket # Nothing
    BY <1>5, <1>8
  <2>2. about = Nothing \/ about = m.ticket
    BY <2>1 DEF Target
  <2>3. m.ticket \in x.tickets
    BY <1>4, <2>1
  <2> QED
    BY <1>2, <2>1, <2>2, <2>3
<1> QED
  BY <1>7, <1>8

\* A change of a ticket that routing leads to, as it stands with what was said for it.
LEMMA UpdateOf ==
    ASSUME NEW m, NEW mem, Started(m, mem),
           NEW r, Origin(r, m, mem), Answers(r, m, mem) => mem.question.slot # "value", r.act.does = "update",
           NEW t, t.kept = r.kept, t.mem.question = NoQuestion, t.act.does = "update", t.act.ticket = r.act.ticket,
           NEW x, x = SaidWith(m, t, mem)
    PROVE  /\ r.act.level \in x.levels \cup {Nothing, product.default}
           /\ r.act.ticket \in {m.ticket} \cup x.tickets \cup x.open \cup x.asked
           /\ PersonMeant(r.act.person, r.kind = "confirm", x)
<1> PICK before, about, q, p : before = Served(t, mem) /\ about = r.act.ticket /\ q = mem.question /\ p = r.act.person
  OBVIOUS
<1>1. Goes(t) /\ r.act.does \in Changes /\ DOMAIN request = RequestFields
  BY DEF Goes, Changes, Started
<1>2. about = IF t.mem.question # NoQuestion THEN t.mem.question.ticket ELSE t.act.ticket
  OBVIOUS
<1>a. Keeps(x, before, m, t, mem, about)
  BY <1>1, <1>2, SaidWithGives
<1>3. Gathers(x, before, m)
  BY <1>a DEF Keeps
<1>4. r.kept => before = request
  <2>1. t.kept => before = request
    BY <1>1, ServedFacts
  <2> QED
    BY <2>1
<1>5. \/ ValuesMeant(r.act, x)
      \/ r.kept /\ q # NoQuestion /\ Chooses(r, q, m)
  BY <1>1, <1>3, <1>4, ValuesOf DEF Started
<1>6. CASE r.kept /\ q # NoQuestion /\ Chooses(r, q, m)
  <2> PICK picks : picks = Picked(q, m)
    OBVIOUS
  <2>1. AskedFor(q, request) /\ Choosing(q) /\ t.kept /\ before = request
    BY <1>4, <1>6 DEF Started, Chooses
  <2>2. /\ r.act.level = q.level /\ about = q.ticket /\ q.does = "update"
        /\ p \in picks \/ (r.kind = "confirm" /\ p \in ToSet(q.candidates) \ m.without /\ (p \in picks \/ m.without \ picks # {}))
    BY <1>6 DEF Chooses
  <2>3. /\ {about} \cap ((before.tickets \cup before.open \cup before.asked) \ {Nothing}) \subseteq x.asked
        /\ picks \subseteq x.picked
        /\ t.mem.question = NoQuestion => x.without = (before.without \ (m.people \cup picks)) \cup (m.without \ picks)
    BY <1>a, <2>1 DEF Keeps
  <2>4. x.without = (request.without \ (m.people \cup picks)) \cup (m.without \ picks)
    BY <2>1, <2>3
  <2>5. /\ q.ticket \in request.tickets \cup request.open \cup request.asked /\ q.ticket # Nothing
        /\ ToSet(q.candidates) \cap request.without = {}
    BY <1>6, <2>1, <2>2 DEF AskedFor, Choosing
  <2>6. about \in x.asked
    BY <2>1, <2>2, <2>3, <2>5
  <2>7. r.act.level \in x.levels \cup {Nothing, product.default}
    BY <1>3, <2>1, <2>2 DEF AskedFor, Gathers
  <2>8. PersonMeant(p, r.kind = "confirm", x)
    <3>1. CASE p \in picks
      BY <2>3, <2>4, <3>1 DEF PersonMeant
    <3>2. CASE p \notin picks
      <4>1. r.kind = "confirm" /\ p \notin x.without /\ x.without # {}
        BY <2>2, <2>4, <2>5, <3>2
      <4> QED
        BY <4>1 DEF PersonMeant
    <3> QED
      BY <3>1, <3>2
  <2> QED
    BY <2>6, <2>7, <2>8
<1>7. CASE ValuesMeant(r.act, x) /\ ~(r.kept /\ q # NoQuestion /\ Chooses(r, q, m))
  <2>1. r.act.level \in x.levels \cup {Nothing, product.default} /\ (p # Nothing => {p} \in x.people)
    BY <1>7 DEF ValuesMeant
  <2>2. CASE ~r.kept /\ OfMessage(r, m, mem.focus)
    <3>1. Target(about, m, mem.focus)
      BY <2>2 DEF OfMessage, ActOf, Changes
    <3>2. /\ {m.ticket} \ {Nothing} \subseteq x.tickets /\ x.without = {}
          /\ m.ticket = Nothing => {mem.focus, selected} \subseteq x.open
      BY <1>1, <2>2, TargetSaid DEF Started
    <3> QED
      BY <2>1, <3>1, <3>2 DEF Target, PersonMeant
  <2>3. CASE Answers(r, m, mem) /\ r.kept /\ q # NoQuestion /\ Supplies(r, q, m)
    <3>1. /\ AskedFor(q, request) /\ ~Choosing(q) /\ t.kept /\ before = request /\ q.slot # "value"
          /\ about # Nothing /\ about \in {q.ticket, m.ticket}
      BY <1>4, <2>3 DEF Started, Supplies
    <3>2. /\ Settles(mem, about) => {about} \cap ((before.tickets \cup before.open \cup before.asked) \ {Nothing}) \subseteq x.asked
          /\ x.without = {}
      BY <1>a, <3>1 DEF Keeps
    <3>3. about = q.ticket => about \in x.asked
      BY <2>3, <3>1, <3>2 DEF AskedFor, Settles
    <3> QED
      BY <2>1, <3>1, <3>2, <3>3 DEF PersonMeant
  <2>4. CASE Answers(r, m, mem) /\ r.kept /\ q # NoQuestion /\ ~Choosing(q) /\ OfMessage(r, Joined(q.context, m), mem.focus)
    <3> PICK j : j = Joined(q.context, m)
      OBVIOUS
    <3>1. Target(about, j, mem.focus)
      BY <2>4 DEF OfMessage, ActOf, Changes
    <3>2. x.without = {} /\ about \in x.tickets \cup x.open \cup x.asked \cup {Nothing} /\ j.ticket \in x.tickets \cup {Nothing}
      BY <1>1, <1>2, <2>4, <3>1, TargetJoined
    <3>3. about = Nothing => m.ticket = Nothing
      <4>1. CASE j.ticket = Nothing
        BY <4>1, JoinedFacts, DialogueAssumption DEF Started
      <4>2. CASE j.ticket # Nothing
        BY <3>1, <4>2 DEF Target
      <4> QED
        BY <4>1, <4>2
    <3> QED
      BY <2>1, <3>2, <3>3 DEF PersonMeant
  <2> QED
    BY <1>1, <1>7, <2>2, <2>3, <2>4 DEF Origin, Answers, LeavesNothing, AsksOn
<1> QED
  BY <1>5, <1>6, <1>7

\* A question that may be answered in the next turn keeps what was said for its request.
QuestionMeant(q, R) ==
    q # NoQuestion => /\ DOMAIN q = QuestionFields /\ Listed(q.candidates)
                      /\ q.age > 0 \/ AskedFor(q, R)

\* A question that a message by itself leads to.
LEMMA AskedSaid ==
    ASSUME NEW q, NEW j, NEW focus, QuestionOf(q, j, focus), NEW x,
           j.levels \subseteq x.levels, Recalls(j.people, x.people), j.ticket \in x.tickets \cup {Nothing},
           q.ticket \in x.tickets \cup x.open \cup x.asked \cup {Nothing}, x.open = {} => j.ticket # Nothing, x.without = {},
           q.does = "create" => q.candidates = <<>>
    PROVE  QuestionMeant(q, x)
BY DEF QuestionOf, QuestionMeant, AskedFor

\* What was recalled before still is, with the names of one message more.
LEMMA RecallsSaid ==
    ASSUME NEW x, NEW before, NEW m, Gathers(x, before, m)
    PROVE  /\ Recalls(m.people, x.people)
           /\ \A named : Recalls(named, before.people) =>
                 Recalls(named, x.people) /\ Recalls(m.people \cup named, x.people)
BY DEF Gathers, Recalls

\* The question that routing leaves, as it stands with what was said for it.
LEMMA AskOf ==
    ASSUME NEW m, NEW mem, Started(m, mem),
           NEW r, Origin(r, m, mem), Answers(r, m, mem) => mem.question.slot # "value", r.mem.question # NoQuestion,
           ~(r.kind = "clarify" /\ UnstartedCreate(r.mem.question)),
           NEW t, t.kept = r.kept, t.mem.question = r.mem.question, NEW x, x = SaidWith(m, t, mem)
    PROVE  QuestionMeant(t.mem.question, x)
<1> PICK before, p, q, about : /\ before = Served(t, mem) /\ p = r.mem.question /\ q = mem.question
                               /\ about = IF t.mem.question # NoQuestion THEN t.mem.question.ticket ELSE t.act.ticket
  OBVIOUS
<1>1. t.mem.question = p /\ p # NoQuestion /\ about = p.ticket /\ DOMAIN request = RequestFields
  BY DEF Started
<1>2. t.kept => before = request
  BY <1>1, ServedFacts
<1>3. Goes(t) => Keeps(x, before, m, t, mem, about)
  BY <1>1, SaidWithGives
<1>4. Goes(t) => Gathers(x, before, m)
  BY <1>3 DEF Keeps
<1>5. ASSUME NEW j, NEW focus, OfMessage(r, j, focus)
      PROVE  /\ QuestionOf(p, j, focus) /\ Goes(t) /\ (about = Nothing \/ Target(about, j, focus))
             /\ p.does = "create" => p.candidates = <<>>
  <2>1. QuestionOf(p, j, focus) /\ (r.kind = "clarify" \/ (p.does = "create" => p.candidates = <<>>))
    BY <1>5 DEF OfMessage
  <2>2. r.kind = "clarify" => p.does # "create"
    BY <2>1 DEF UnstartedCreate, QuestionOf
  <2> QED
    BY <1>1, <2>1, <2>2 DEF QuestionOf, Goes
<1>6. CASE ~r.kept /\ OfMessage(r, m, mem.focus)
  <2> PICK focus : focus = mem.focus
    OBVIOUS
  <2>1. /\ QuestionOf(p, m, focus) /\ Goes(t) /\ (about = Nothing \/ Target(about, m, focus))
        /\ p.does = "create" => p.candidates = <<>>
    BY <1>5, <1>6
  <2>2. Gathers(x, before, m) /\ ~t.kept /\ m.ticket \in Tickets \cup {Nothing}
    BY <1>4, <1>6, <2>1 DEF Started
  <2>3. /\ {m.ticket} \ {Nothing} \subseteq x.tickets /\ x.without = {}
        /\ m.ticket = Nothing => {mem.focus, selected} \subseteq x.open
        /\ x.open = {} => m.ticket # Nothing
    BY <1>1, <2>1, <2>2, TargetSaid
  <2>4. Recalls(m.people, x.people)
    BY <2>2, RecallsSaid
  <2>5. m.levels \subseteq x.levels
    BY <2>2 DEF Gathers
  <2>6. m.ticket \in x.tickets \cup {Nothing} /\ p.ticket \in x.tickets \cup x.open \cup x.asked \cup {Nothing}
    BY <1>1, <2>1, <2>3 DEF Target
  <2>7. QuestionMeant(p, x)
    BY <2>1, <2>3, <2>4, <2>5, <2>6, AskedSaid
  <2> QED
    BY <1>1, <2>7
<1>7. CASE LeavesNothing(r)
  BY <1>1, <1>7 DEF LeavesNothing, QuestionMeant
<1>8. CASE r.kept /\ q # NoQuestion /\ AsksOn(r, q, m)
  <2>1. AskedFor(q, request) /\ t.kept /\ before = request
    BY <1>2, <1>8 DEF Started
  <2>2. SameRequest(p, q)
    BY <1>8 DEF AsksOn
  <2>3. CASE p.repeats > 0 /\ q.does # "update"
    <3>1. x = request
      BY <1>1, <2>3, SaidWithFields
    <3>2. p.does = "create" => p.candidates = <<>>
      BY <1>8, <2>1, <2>2 DEF AsksOn, AskedFor, SameRequest, Choosing
    <3> QED
      BY <1>1, <2>1, <2>2, <2>3, <3>1, <3>2 DEF QuestionMeant, SameRequest, AskedFor
  <2>4. CASE p.repeats > 0 /\ q.does = "update"
    <3>1. x = request
      BY <1>1, <2>4, SaidWithFields
    <3>2. /\ ToSet(p.candidates) \subseteq ToSet(q.candidates) /\ p.single = Nothing
          /\ p.candidates # <<>> => q.candidates # <<>>
      BY <1>8, <2>1, <2>4 DEF AsksOn, AskedFor, Choosing
    <3>3. AskedFor(p, request)
      BY <2>1, <2>2, <2>4, <3>2 DEF SameRequest, AskedFor
    <3> QED
      BY <1>1, <2>2, <3>1, <3>3 DEF QuestionMeant, SameRequest
  <2>5. CASE ~(p.repeats > 0)
    <3>1. Goes(t) /\ Choosing(q)
      BY <1>1, <1>8, <2>5 DEF Goes, AsksOn
    <3>2. /\ Keeps(x, request, m, t, mem, about) /\ Gathers(x, request, m)
      BY <1>3, <1>4, <2>1, <3>1
    <3>3. /\ {about} \cap ((request.tickets \cup request.open \cup request.asked \cup request.asked) \ {Nothing}) \subseteq x.asked
          /\ x.open = request.open
          /\ Choosing(p) => x.without = (request.without \ (m.people \cup Picked(q, m))) \cup (m.without \ Picked(q, m))
          /\ ~Choosing(p) => x.without = {}
      BY <1>1, <2>1, <3>1, <3>2 DEF Keeps
    <3>4. request.levels \subseteq x.levels /\ request.tickets \subseteq x.tickets
      BY <3>2 DEF Gathers
    <3>5. Recalls(q.context.people, x.people)
      BY <2>1, <3>2, RecallsSaid DEF AskedFor
    <3>6. q.person # Nothing => {q.person} \in x.people
      BY <2>1, <3>2 DEF AskedFor, Gathers
    <3>7. q.does # "create"
      BY <2>1, <3>1 DEF AskedFor, Choosing
    <3>8. q.does = "update" => /\ ToSet(p.candidates) \subseteq Folk \ x.without /\ p.single = Nothing
                               /\ p.candidates # <<>> => q.ticket # Nothing
      <4> SUFFICES ASSUME q.does = "update"
                   PROVE  /\ ToSet(p.candidates) \subseteq Folk \ x.without /\ p.single = Nothing
                          /\ q.ticket # Nothing
        OBVIOUS
      <4>1. /\ ToSet(q.candidates) \subseteq Folk \ request.without /\ q.single = Nothing /\ q.ticket # Nothing
        BY <2>1, <3>1 DEF AskedFor, Choosing
      <4>2. p.single = Nothing /\ ToSet(p.candidates) \subseteq ToSet(q.candidates) \ m.without
        <5>1. p.repeats # 1
          BY <2>5
        <5> QED
          BY <1>8, <5>1 DEF AsksOn
      <4>3. CASE Choosing(p)
        BY <3>3, <4>1, <4>2, <4>3
      <4>4. CASE ~Choosing(p)
        BY <3>3, <4>1, <4>2, <4>4
      <4> QED
        BY <4>1, <4>2, <4>3, <4>4
    <3>9. AskedFor(p, x)
      BY <1>1, <2>1, <2>2, <3>3, <3>4, <3>5, <3>6, <3>7, <3>8 DEF AskedFor, SameRequest
    <3> QED
      BY <1>1, <2>2, <3>9 DEF QuestionMeant, SameRequest
  <2> QED
    BY <2>3, <2>4, <2>5
<1>9. CASE Answers(r, m, mem) /\ r.kept /\ q # NoQuestion /\ ~Choosing(q) /\ OfMessage(r, Joined(q.context, m), mem.focus)
  <2> PICK j, context, focus : context = q.context /\ j = Joined(context, m) /\ focus = mem.focus
    OBVIOUS
  <2>1. /\ QuestionOf(p, j, focus) /\ Goes(t) /\ (about = Nothing \/ Target(about, j, focus))
        /\ p.does = "create" => p.candidates = <<>>
    BY <1>5, <1>9
  <2>2. AskedFor(q, request) /\ t.kept /\ before = request /\ Gathers(x, before, m) /\ q.slot # "value"
    BY <1>2, <1>4, <1>9, <2>1 DEF Started
  <2>3. /\ j.ticket \in x.tickets \cup {Nothing} /\ x.without = {}
        /\ about \in x.tickets \cup x.open \cup x.asked \cup {Nothing}
        /\ x.open = {} => j.ticket # Nothing
    BY <1>9, <2>1, <2>2, TargetJoined
  <2>4. j.levels = m.levels \cup context.levels /\ j.people = m.people \cup context.people
    BY JoinedFacts
  <2>5. Recalls(j.people, x.people)
    <3>1. Recalls(context.people, before.people)
      BY <2>2 DEF AskedFor
    <3>2. Recalls(m.people \cup context.people, x.people)
      BY <2>2, <3>1, RecallsSaid
    <3> QED
      BY <2>4, <3>2
  <2>6. j.levels \subseteq x.levels
    BY <2>2, <2>4 DEF AskedFor, Gathers
  <2>7. QuestionMeant(p, x)
    BY <1>1, <2>1, <2>3, <2>5, <2>6, AskedSaid
  <2> QED
    BY <1>1, <2>7
<1> QED
  BY <1>6, <1>7, <1>8, <1>9 DEF Origin, Answers, Chooses, Supplies

-----------------------------------------------------------------------------
(* The whole turn: what is finished, continued, or proposed by the model.  *)

\* A create that waits for its yes lacks nothing.
Whole(mem) ==
    mem.confirmation # NoConfirmation /\ mem.confirmation.action.does = "create" =>
        FirstMissing(mem.confirmation.action) = "none"

\* What is put forward, or asked, is made of what was said for it.
ChangeMeant(t, m, x) ==
    /\ t.act.level \in x.levels \cup {Nothing, product.default}
    /\ t.act.does = "update" => t.act.ticket \in {m.ticket} \cup x.tickets \cup x.open \cup x.asked
    /\ \/ PersonMeant(t.act.person, t.stage = "awaiting", x)
       \/ t.reason = "model" /\ t.act.person \in UNION x.people /\ t.act.person \notin x.without

\* A turn leaves, asks and puts forward only what is meant.
Meant(t, m, x) ==
    /\ QuestionMeant(t.mem.question, x) /\ Whole(t.mem)
    /\ t.stage \in {"proposed", "awaiting"} /\ t.act.does \in Changes => ChangeMeant(t, m, x)

\* A turn that leaves no question and puts no change forward.
LEMMA QuietMeant ==
    ASSUME NEW t, t.mem.question = NoQuestion, t.mem.confirmation = NoConfirmation, t.act.does \notin Changes \/ t.stage = "would_execute",
           NEW m, NEW x
    PROVE  Meant(t, m, x)
BY DEF Meant, QuestionMeant, Whole

\* The defaults of a definition take nothing from a change.
LEMMA DefaultsLackNothing ==
    ASSUME NEW a, IsAction(a)
    PROVE  /\ FirstMissing(a) = "none" => FirstMissing(WithDefaults(a)) = "none"
           /\ WithDefaults(a).level \in {a.level, product.default}
           /\ a.does = "update" => WithDefaults(a) = a
<1> PICK b : b = [a EXCEPT !.level = product.default]
  OBVIOUS
<1>1. b.title = a.title /\ b.person = a.person /\ b.level = product.default
  BY DEF IsAction, ActionFields
<1>2. WithDefaults(a) = IF a.does = "create" /\ a.level = Nothing THEN b ELSE a
  BY DEF WithDefaults
<1>3. FirstMissing(a) = "none" => FirstMissing(b) = "none" \/ a.level # Nothing
  BY <1>1 DEF FirstMissing
<1> QED
  BY <1>1, <1>2, <1>3

\* A create is made of what was said for it, and so is the question for what it lacks.
LEMMA ProposeCreateOf ==
    ASSUME NEW m, NEW mem, DOMAIN request = RequestFields, NEW a, IsAction(a), a.does = "create", NEW known, Clear(known),
           NEW kept, ~(kept /\ Choosing(mem.question)), NEW t, t = ProposeCreate(a, known, kept),
           NEW x, x = SaidWith(m, t, mem), Gathers(x, Served(t, mem), m) => ValuesMeant(a, x)
    PROVE  Meant(t, m, x) /\ t.stage # "fallback"
<1> PICK field, b, before, about : /\ field = FirstMissing(a) /\ b = WithDefaults(a) /\ before = Served(t, mem)
                                   /\ about = IF t.mem.question # NoQuestion THEN t.mem.question.ticket ELSE t.act.ticket
  OBVIOUS
<1>1. t.kept = kept
  BY DEF ProposeCreate, Turned
<1>2. Goes(t) => Keeps(x, before, m, t, mem, about)
  BY SaidWithGives
<1>3. Goes(t) => ValuesMeant(a, x) /\ x.without = {}
  <2> SUFFICES ASSUME Goes(t) PROVE ValuesMeant(a, x) /\ x.without = {}
    OBVIOUS
  <2>1. Keeps(x, before, m, t, mem, about)
    BY <1>2
  <2>2. Gathers(x, before, m) /\ x.without = {}
    BY <1>1, <2>1 DEF Keeps
  <2> QED
    BY <2>2
<1>4. CASE ~Validates(a)
  <2>1. t.stage = "refuse" /\ t.act = NoAction /\ t.mem = Discarded(known)
    BY <1>4 DEF ProposeCreate, Turned
  <2>2. Clear(Discarded(known))
    BY DiscardedIs DEF Clear, Unconfirmed
  <2>3. NoAction.does \notin Changes
    BY DEF NoAction, Changes
  <2>4. t.mem.question = NoQuestion /\ t.mem.confirmation = NoConfirmation /\ t.act.does \notin Changes
    BY <2>1, <2>2, <2>3 DEF Clear, Unconfirmed
  <2> QED
    BY <2>1, <2>4, QuietMeant
<1>5. CASE Validates(a) /\ field # "none"
  <2> PICK q : q = ValueQuestion(a, field)
    OBVIOUS
  <2>1. /\ DOMAIN q = QuestionFields /\ q.slot = "value" /\ q.does = "create" /\ q.candidates = <<>> /\ q.level = a.level
        /\ q.person = a.person /\ q.repeats = 0 /\ q.context = Plain
    BY DEF ValueQuestion, Question, QuestionFields
  <2>2. q # NoQuestion
    BY <2>1 DEF QuestionFields, NoQuestion
  <2>3. /\ t.stage = "clarify" /\ t.act = NoAction
        /\ t.mem = [known EXCEPT !.question = q, !.confirmation = NoConfirmation]
    BY <1>5 DEF ProposeCreate, Turned
  <2>4. t.mem.question = q /\ t.mem.confirmation = NoConfirmation
    BY <2>3 DEF Clear, Unconfirmed, IsMemory, MemoryFields
  <2>5. Goes(t)
    BY <2>1, <2>2, <2>4 DEF Goes
  <2>6. /\ q.context.levels = {} /\ q.context.people = {} /\ q.context.ticket = Nothing
    BY <2>1 DEF Plain
  <2>7. AskedFor(q, x)
    BY <1>3, <2>1, <2>5, <2>6 DEF AskedFor, ValuesMeant, Recalls
  <2>8. QuestionMeant(q, x)
    BY <2>1, <2>7, NobodyListed DEF QuestionMeant
  <2> QED
    BY <2>3, <2>4, <2>8 DEF Meant, Whole
<1>6. CASE Validates(a) /\ field = "none"
  <2>1. t.stage = "proposed" /\ t.act = b /\ t.mem = Accepted(known, b, "none")
    BY <1>6 DEF ProposeCreate, Turned
  <2>2. b.does = "create" /\ b.person = a.person /\ b.level \in {a.level, product.default}
    BY DefaultsFacts, DefaultsLackNothing
  <2>3. t.mem.question = NoQuestion /\ t.mem.confirmation = NoConfirmation
    BY <2>1 DEF Accepted, Clear, Unconfirmed, IsMemory, MemoryFields
  <2>4. Goes(t)
    BY <2>1, <2>2, <2>3 DEF Goes, Changes
  <2>5. ChangeMeant(t, m, x)
    <3>1. ValuesMeant(a, x) /\ x.without = {}
      BY <1>3, <2>4
    <3>2. t.act.level \in x.levels \cup {Nothing, product.default} /\ t.act.does # "update"
      BY <2>1, <2>2, <3>1 DEF ValuesMeant
    <3>3. t.act.person # Nothing => {t.act.person} \in x.people
      BY <2>1, <2>2, <3>1 DEF ValuesMeant
    <3>4. PersonMeant(t.act.person, t.stage = "awaiting", x)
      BY <3>1, <3>3 DEF PersonMeant
    <3> QED
      BY <3>2, <3>4 DEF ChangeMeant
  <2> QED
    BY <2>1, <2>3, <2>5 DEF Meant, QuestionMeant, Whole
<1> QED
  BY <1>4, <1>5, <1>6

\* A create that routing leads to comes of no list, and leaves no question of its own.
LEMMA CreateOf ==
    ASSUME NEW m, NEW mem, Started(m, mem), NEW r, Origin(r, m, mem), r.act.does \in Changes
    PROVE  /\ r.mem.question = NoQuestion
           /\ r.act.does = "create" => ~(r.kept /\ Choosing(mem.question))
BY DEF Origin, Answers, LeavesNothing, AsksOn, Chooses, Supplies, OfMessage, Choosing

\* What is proposed, and what routing leaves to be asked, is meant.
LEMMA FinishOf ==
    ASSUME product \in Products, NEW m, NEW mem, Started(m, mem), NEW r, Routed(r), Origin(r, m, mem),
           Answers(r, m, mem) => mem.question.slot # "value",
           NEW t, t = Finish(r), NEW x, x = SaidWith(m, t, mem)
    PROVE  Meant(t, m, x) /\ (t.stage = "fallback" => ~t.kept)
<1> PICK a, b, known : a = r.act /\ b = WithDefaults(a) /\ known = r.mem
  OBVIOUS
<1>1. /\ IsAction(a) /\ Unconfirmed(known) /\ DOMAIN r = ResultFields /\ r.reason # "yes"
      /\ known.confirmation = NoConfirmation /\ DOMAIN known = MemoryFields
  BY DEF Routed, Unconfirmed, IsMemory
<1>2. NoAction.does \notin Changes
  BY DEF NoAction, Changes
<1>3. a.does \in Changes => /\ known.question = NoQuestion
                            /\ a.does = "create" => ~(r.kept /\ Choosing(mem.question))
  BY CreateOf
<1>4. ASSUME known.question # NoQuestion, ~(r.kind = "clarify" /\ UnstartedCreate(known.question)),
             t.kept = r.kept, t.mem.question = known.question
      PROVE  QuestionMeant(t.mem.question, x)
  BY <1>4, AskOf
<1>5. ASSUME NEW before, before = Served(t, mem), Gathers(x, before, m), t.kept = r.kept, a.does = "create"
      PROVE  ValuesMeant(a, x)
  <2>1. t.kept => before = request
    BY <1>5, ServedFacts DEF Started
  <2>2. r.kept => before = request
    BY <1>5, <2>1
  <2>3. a.does \in Changes
    BY <1>5 DEF Changes
  <2>4. ValuesMeant(r.act, x) \/ (r.kept /\ mem.question # NoQuestion /\ Chooses(r, mem.question, m))
    BY <1>5, <2>2, <2>3, ValuesOf DEF Started
  <2> QED
    BY <1>5, <2>4 DEF Chooses
<1>6. CASE r.kind \in {"propose", "confirm"} /\ ~Validates(a)
  <2>1. t.stage = "refuse" /\ t.act = NoAction /\ t.mem = Discarded(known)
    BY <1>6 DEF Finish, Turned
  <2>2. Clear(Discarded(known))
    BY <1>1, DiscardedIs DEF Unconfirmed
  <2>3. t.mem.question = NoQuestion /\ t.mem.confirmation = NoConfirmation /\ t.act.does \notin Changes
    BY <1>2, <2>1, <2>2 DEF Clear, Unconfirmed
  <2> QED
    BY <2>1, <2>3, QuietMeant
<1>7. CASE r.kind \in {"propose", "confirm"} /\ Validates(a) /\ a.does = "create" /\ FirstMissing(a) # "none"
  <2> PICK kept : kept = r.kept
    OBVIOUS
  <2>1. t = ProposeCreate(a, known, kept)
    BY <1>7 DEF Finish
  <2>2. t.kept = r.kept
    BY <2>1 DEF ProposeCreate, Turned
  <2>3. Clear(known) /\ ~(kept /\ Choosing(mem.question))
    BY <1>1, <1>3, <1>7 DEF Clear, Changes
  <2>4. Gathers(x, Served(t, mem), m) => ValuesMeant(a, x)
    BY <1>5, <1>7, <2>2
  <2> QED
    BY <1>1, <1>7, <2>1, <2>3, <2>4, ProposeCreateOf DEF Started
<1>8. CASE r.kind \in {"propose", "confirm"} /\ Validates(a) /\ ~(a.does = "create" /\ FirstMissing(a) # "none")
  <2> PICK held, stage : /\ held = IF r.kind = "confirm" THEN r.reason ELSE "none"
                         /\ stage = IF r.kind = "confirm" THEN "awaiting" ELSE "proposed"
    OBVIOUS
  <2>1. t = Turned(stage, b, r.reason, Accepted(known, b, held), r.kept)
    BY <1>1, <1>8 DEF Finish
  <2>2. t.stage = stage /\ t.act = b /\ t.mem = Accepted(known, b, held) /\ t.kept = r.kept
    BY <2>1 DEF Turned
  <2>3. /\ t.mem.question = known.question
        /\ t.mem.confirmation # NoConfirmation => t.mem.confirmation.action = b
    BY <1>1, <2>2 DEF Accepted, MemoryFields
  <2>4. /\ b.does = a.does /\ b.ticket = a.ticket /\ b.person = a.person
        /\ b.level \in {a.level, product.default} /\ (a.does = "update" => b = a)
        /\ FirstMissing(a) = "none" => FirstMissing(b) = "none"
    BY <1>1, DefaultsFacts, DefaultsLackNothing
  <2>5. Whole(t.mem)
    BY <1>8, <2>3, <2>4 DEF Whole
  <2>6. QuestionMeant(t.mem.question, x)
    <3>1. CASE known.question = NoQuestion
      BY <2>3, <3>1 DEF QuestionMeant
    <3>2. CASE known.question # NoQuestion
      BY <1>4, <1>8, <2>2, <2>3, <3>2
    <3> QED
      BY <3>1, <3>2
  <2>7. ASSUME a.does = "update" PROVE ChangeMeant(t, m, x)
    <3>1. t.act = a /\ t.mem.question = NoQuestion /\ t.act.does = "update" /\ t.act.ticket = r.act.ticket
      BY <1>3, <2>2, <2>3, <2>4, <2>7 DEF Changes
    <3>2. /\ a.level \in x.levels \cup {Nothing, product.default}
          /\ a.ticket \in {m.ticket} \cup x.tickets \cup x.open \cup x.asked
          /\ PersonMeant(r.act.person, r.kind = "confirm", x)
      BY <2>2, <2>7, <3>1, UpdateOf
    <3>3. PersonMeant(t.act.person, t.stage = "awaiting", x)
      BY <2>2, <3>1, <3>2 DEF PersonMeant
    <3> QED
      BY <3>1, <3>2, <3>3 DEF ChangeMeant
  <2>8. ASSUME a.does = "create" PROVE ChangeMeant(t, m, x)
    <3> PICK before, about : /\ before = Served(t, mem)
                             /\ about = IF t.mem.question # NoQuestion THEN t.mem.question.ticket ELSE t.act.ticket
      OBVIOUS
    <3>1. Goes(t) /\ t.mem.question = NoQuestion /\ ~(t.kept /\ Choosing(mem.question))
      BY <1>3, <2>2, <2>3, <2>4, <2>8 DEF Changes, Goes
    <3>2. Keeps(x, before, m, t, mem, about)
      BY <3>1, SaidWithGives DEF Started
    <3>3. Gathers(x, before, m) /\ x.without = {}
      BY <3>1, <3>2 DEF Keeps
    <3>4. ValuesMeant(a, x)
      BY <1>5, <2>2, <2>8, <3>3
    <3>5. t.act.level \in x.levels \cup {Nothing, product.default} /\ t.act.does # "update"
      BY <2>2, <2>4, <2>8, <3>4 DEF ValuesMeant
    <3>6. t.act.person # Nothing => {t.act.person} \in x.people
      BY <2>2, <2>4, <3>4 DEF ValuesMeant
    <3>7. PersonMeant(t.act.person, t.stage = "awaiting", x)
      BY <3>3, <3>6 DEF PersonMeant
    <3> QED
      BY <3>5, <3>7 DEF ChangeMeant
  <2>9. t.act.does \in Changes => a.does \in {"update", "create"}
    BY <2>2, <2>4 DEF Changes
  <2> QED
    BY <2>2, <2>5, <2>6, <2>7, <2>8, <2>9 DEF Meant
<1>9. CASE r.kind = "clarify" /\ UnstartedCreate(known.question)
  <2> PICK q : q = ValueQuestion(NoAction, "title")
    OBVIOUS
  <2>1. /\ DOMAIN q = QuestionFields /\ q.slot = "value" /\ q.does = "create" /\ q.candidates = <<>> /\ q.level = Nothing
        /\ q.person = Nothing /\ q.context = Plain
    BY DEF ValueQuestion, Question, QuestionFields, NoAction
  <2>2. t.stage = "clarify" /\ t.act = NoAction /\ t.mem = Asking(known, q)
    BY <1>9 DEF Finish, Turned
  <2>3. t.mem.question = q /\ t.mem.confirmation = NoConfirmation
    BY <1>1, <2>2 DEF Asking, MemoryFields
  <2>4. /\ q.context.levels = {} /\ q.context.people = {} /\ q.context.ticket = Nothing
    BY <2>1 DEF Plain
  <2>5. AskedFor(q, x)
    BY <2>1, <2>4 DEF AskedFor, Recalls
  <2>6. QuestionMeant(q, x)
    BY <2>1, <2>5, NobodyListed DEF QuestionMeant
  <2> QED
    BY <1>2, <2>2, <2>3, <2>6 DEF Meant, Whole
<1>10. CASE r.kind \notin {"propose", "confirm"} /\ ~(r.kind = "clarify" /\ UnstartedCreate(known.question))
  <2>1. t.stage = r.kind /\ t.act = NoAction /\ t.mem = known /\ t.kept = r.kept
    BY <1>10 DEF Finish, Turned
  <2>2. QuestionMeant(t.mem.question, x)
    <3>1. CASE known.question = NoQuestion
      BY <2>1, <3>1 DEF QuestionMeant
    <3>2. CASE known.question # NoQuestion
      BY <1>4, <1>10, <2>1, <3>2
    <3> QED
      BY <3>1, <3>2
  <2>3. t.stage = "fallback" => ~t.kept
    BY <2>1 DEF Origin, Answers
  <2> QED
    BY <1>1, <1>2, <2>1, <2>2, <2>3 DEF Meant, Whole
<1> QED
  BY <1>6, <1>7, <1>8, <1>9, <1>10

\* While a create waits for a value, what it goes on with is meant.
LEMMA ContinueCreateOf ==
    ASSUME NEW m, NEW mem, Started(m, mem), Unconfirmed(mem), mem.question.slot = "value",
           NEW t, t = ContinueCreate(m, mem), NEW x, x = SaidWith(m, t, mem)
    PROVE  Meant(t, m, x) /\ t.stage # "fallback"
<1> PICK q, value, known : q = mem.question /\ value = ReadAnswer(q, m) /\ known = Answered(mem)
  OBVIOUS
<1>1. q # NoQuestion /\ AskedFor(q, request) /\ DOMAIN q = QuestionFields /\ Listed(q.candidates) /\ DOMAIN request = RequestFields
  BY DEF NoQuestion, Started, Answerable, Offers
<1>2. q.does = "create" /\ ~Choosing(q)
  BY <1>1 DEF AskedFor, Choosing
<1>3. Clear(known) /\ NoAction.does \notin Changes
  BY AnsweredIs DEF Unconfirmed, Clear, NoAction, Changes
<1>4. CASE m.aside \/ (value = Nothing /\ q.repeats > 0)
  <2>1. t.stage = "cancelled" /\ t.act = NoAction /\ t.mem = known
    BY <1>4 DEF ContinueCreate, Turned
  <2> QED
    BY <1>3, <2>1, QuietMeant DEF Clear, Unconfirmed
<1>5. CASE ~m.aside /\ value = Nothing /\ ~(q.repeats > 0)
  <2> PICK p : p = [q EXCEPT !.repeats = 1, !.age = 0]
    OBVIOUS
  <2>1. t.stage = "clarify" /\ t.act = NoAction /\ t.mem = Asking(mem, p)
    BY <1>5 DEF ContinueCreate, Turned
  <2>2. t.mem.question = p /\ t.mem.confirmation = NoConfirmation
    BY <2>1 DEF Asking, Unconfirmed, IsMemory, MemoryFields
  <2>3. /\ DOMAIN p = QuestionFields /\ p.repeats = 1 /\ p.candidates = q.candidates /\ p.single = q.single
        /\ p.does = q.does /\ p.slot = q.slot /\ p.ticket = q.ticket /\ p.person = q.person /\ p.level = q.level
        /\ p.context = q.context
    BY <1>1 DEF QuestionFields
  <2>4. p # NoQuestion
    BY <2>3 DEF QuestionFields, NoQuestion
  <2>5. x = request
    <3>1. t.mem.question # NoQuestion /\ t.mem.question.repeats > 0
      BY <2>2, <2>3, <2>4
    <3> QED
      BY <1>1, <3>1, SaidWithFields
  <2>6. AskedFor(p, x)
    BY <1>1, <2>3, <2>5 DEF AskedFor
  <2>7. QuestionMeant(p, x)
    BY <1>1, <2>3, <2>6 DEF QuestionMeant
  <2> QED
    BY <1>3, <2>1, <2>2, <2>7 DEF Meant, Whole
<1>6. CASE ~m.aside /\ value # Nothing
  <2> PICK a, kept : a = Filled(q, value) /\ kept = TRUE
    OBVIOUS
  <2>1. /\ IsAction(a) /\ a.does = "create"
        /\ a.person = IF q.field = "person" THEN value ELSE q.person
        /\ a.level = IF q.field = "level" THEN value ELSE q.level
    BY ActionIs DEF Filled, Action
  <2>2. t = ProposeCreate(a, known, kept) /\ t.kept
    BY <1>6 DEF ContinueCreate, ProposeCreate, Turned
  <2>3. ASSUME Gathers(x, Served(t, mem), m) PROVE ValuesMeant(a, x)
    <3> PICK before : before = Served(t, mem)
      OBVIOUS
    <3>1. before = request
      BY <2>2 DEF Served
    <3>2. Gathers(x, before, m) /\ before = request
      BY <2>3, <3>1
    <3>3. x.levels = request.levels \cup m.levels /\ (q.person # Nothing => {q.person} \in x.people)
      BY <1>1, <3>2 DEF Gathers, AskedFor
    <3>4. q.field = "level" => value \in m.levels
      <4>1. q.field = "level" => value = OneLevel(m)
        BY DEF ReadAnswer
      <4> QED
        BY <1>6, <4>1, OneLevelIs
    <3>5. q.field = "person" => {value} \in x.people
      <4> SUFFICES ASSUME q.field = "person" PROVE {value} \in x.people
        OBVIOUS
      <4>1. Cardinality(Seen(m)) = 1 /\ value = OnePerson(m)
        BY <1>6 DEF ReadAnswer
      <4>2. Seen(m) # {} /\ ~(Cardinality(Seen(m)) > 1)
        <5>1. Cardinality({}) = 0
          BY FS_EmptySet
        <5> QED
          BY <4>1, <5>1
      <4>3. Seen(m) = {value}
        BY <4>1, <4>2, OnePersonIs DEF Started
      <4> QED
        BY <3>2, <4>3, PersonSaid
    <3>6. q.level \in request.levels \cup {Nothing, product.default}
      BY <1>1 DEF AskedFor
    <3>7. a.level \in x.levels \cup {Nothing, product.default}
      BY <2>1, <3>3, <3>4, <3>6
    <3> QED
      BY <2>1, <3>3, <3>5, <3>7 DEF ValuesMeant
  <2> QED
    BY <1>1, <1>2, <1>3, <2>1, <2>2, <2>3, ProposeCreateOf
<1> QED
  BY <1>4, <1>5, <1>6

\* The yes to a change does it, and leaves nothing more to be asked.
LEMMA FinishYesOf ==
    ASSUME NEW m, NEW mem, Pending(mem), Whole(mem), mem.confirmation # NoConfirmation,
           NEW r, r.kind = "propose", r.act = mem.confirmation.action, r.reason = "yes",
           r.mem = [mem EXCEPT !.confirmation = NoConfirmation], NEW t, t = Finish(r), NEW x
    PROVE  Meant(t, m, x) /\ t.stage # "fallback"
<1> PICK a, known : a = r.act /\ known = r.mem
  OBVIOUS
<1>1. /\ IsMemory(mem) /\ mem.question = NoQuestion
  BY DEF Pending
<1>2. Clear(known) /\ DOMAIN known = MemoryFields
  BY <1>1 DEF Clear, Unconfirmed, IsMemory, MemoryFields
<1>3. ~(a.does = "create" /\ FirstMissing(a) # "none")
  BY DEF Whole
<1>4. CASE ~Validates(a)
  <2>1. t.stage = "refuse" /\ t.act = NoAction /\ t.mem = Discarded(known)
    BY <1>4 DEF Finish, Turned
  <2>2. Clear(Discarded(known)) /\ NoAction.does \notin Changes
    BY <1>2, DiscardedIs DEF Clear, Unconfirmed, NoAction, Changes
  <2>3. t.mem.question = NoQuestion /\ t.mem.confirmation = NoConfirmation /\ t.act.does \notin Changes
    BY <2>1, <2>2 DEF Clear, Unconfirmed
  <2> QED
    BY <2>1, <2>3, QuietMeant
<1>5. CASE Validates(a)
  <2>1. t.stage = "would_execute" /\ t.mem = Accepted(known, WithDefaults(a), "none")
    BY <1>3, <1>5 DEF Finish, Turned
  <2>2. t.mem.question = NoQuestion /\ t.mem.confirmation = NoConfirmation
    BY <1>2, <2>1 DEF Accepted, Clear, Unconfirmed, MemoryFields
  <2> QED
    BY <2>1, <2>2, QuietMeant
<1> QED
  BY <1>4, <1>5

\* One turn of the engine, and the model where the rules fall back.
LEMMA EngineTurnOf ==
    ASSUME product \in Products, NEW m, m.asks \in Rules, NEW mem, Started(m, mem), Pending(mem), Whole(mem),
           NEW theirs, theirs \subseteq tickets, NEW t, t = EngineTurn(m, mem, theirs), NEW x, x = SaidWith(m, t, mem)
    PROVE  Meant(t, m, x) /\ (t.stage = "fallback" => ~t.kept)
<1>1. IsMemory(mem) /\ Answerable(mem) /\ tickets \subseteq Tickets /\ people \subseteq Folk /\ m.ticket \in Tickets \cup {Nothing}
  BY DEF Started, Answerable
<1>2. CASE mem.question.slot = "value"
  <2> PICK known, r : known = Answered(mem) /\ r = Route(m, known, theirs)
    OBVIOUS
  <2>1. mem.question # NoQuestion /\ mem.confirmation = NoConfirmation /\ Unconfirmed(mem)
    BY <1>1, <1>2 DEF NoQuestion, Pending, Unconfirmed
  <2>2. /\ Answerable(known) /\ IsMemory(known) /\ known.confirmation = NoConfirmation /\ known.question = NoQuestion
        /\ known.focus = mem.focus
    BY <1>1, <2>1, AnsweredIs DEF Answerable, Answered, IsMemory, MemoryFields
  <2>3. Origin(r, m, known) /\ ~r.kept
    BY <1>1, <2>2, RouteOrigin
  <2>4. Origin(r, m, mem) /\ ~Answers(r, m, mem)
    BY <2>2, <2>3 DEF Origin, Answers
  <2>5. Routed(r)
    BY <2>2, RouteIs
  <2>6. t = ContinueCreate(m, mem) \/ t = Finish(r)
    BY <1>2 DEF EngineTurn
  <2> QED
    BY <1>2, <2>1, <2>4, <2>5, <2>6, ContinueCreateOf, FinishOf
<1>3. CASE mem.question.slot # "value"
  <2> PICK r : r = Route(m, mem, theirs)
    OBVIOUS
  <2>1. t = Finish(r)
    BY <1>3 DEF EngineTurn
  <2>2. CASE ~m.barred /\ mem.confirmation # NoConfirmation /\ m.yes
    <3>1. /\ r.kind = "propose" /\ r.act = mem.confirmation.action /\ r.reason = "yes"
          /\ r.mem = [mem EXCEPT !.confirmation = NoConfirmation]
      BY <2>2 DEF Route, Result
    <3> QED
      BY <2>1, <2>2, <3>1, FinishYesOf
  <2>3. CASE ~(~m.barred /\ mem.confirmation # NoConfirmation /\ m.yes)
    <3>1. Origin(r, m, mem)
      BY <1>1, <2>3, RouteOrigin
    <3>2. Routed(r)
      BY <1>1, <2>3, RouteIs
    <3> QED
      BY <1>3, <2>1, <3>1, <3>2, FinishOf
  <2> QED
    BY <2>2, <2>3
<1> QED
  BY <1>2, <1>3

\* A change that a model proposes is wholly of this message, and only awaits a yes.
LEMMA ConsiderOf ==
    ASSUME NEW m, NEW mem, Started(m, mem), NEW t, Answering(t), t.stage = "fallback", ~t.kept,
           NEW a \in Proposals, Supported(a, m), NEW u, u = Consider(a, t), NEW x, x = SaidWith(m, u, mem)
    PROVE  Meant(u, m, x)
<1>1. /\ DOMAIN t = {"stage", "act", "reason", "mem", "kept"} /\ IsMemory(t.mem) /\ DOMAIN t.mem = MemoryFields
      /\ t.mem.confirmation = NoConfirmation /\ t.mem.question = NoQuestion
  BY DEF Answering, Pending, IsMemory
<1>2. IsAction(a) /\ a.does \in {"open", "update", "create"}
  BY DEF Proposals, IsAction, ActionFields
<1>3. CASE a.does = "open"
  <2>1. u = [t EXCEPT !.stage = "proposed", !.act = a]
    BY <1>3 DEF Consider
  <2>2. u.act = a /\ u.mem = t.mem
    BY <1>1, <2>1
  <2>3. u.mem.question = NoQuestion /\ u.mem.confirmation = NoConfirmation /\ u.act.does \notin Changes
    BY <1>1, <1>3, <2>2 DEF Changes
  <2> QED
    BY <2>3, QuietMeant
<1>4. CASE a.does # "open"
  <2> PICK b, asked : b = WithDefaults(a) /\ asked = [reason |-> ConfirmationReason(a, FALSE, TRUE), action |-> b]
    OBVIOUS
  <2> PICK known : known = [t.mem EXCEPT !.confirmation = asked]
    OBVIOUS
  <2>1. u = [t EXCEPT !.stage = "awaiting", !.act = b, !.reason = "model", !.mem = known]
    BY <1>1, <1>4 DEF Consider, MemoryFields
  <2>2. /\ u.stage = "awaiting" /\ u.act = b /\ u.reason = "model" /\ u.mem = known /\ ~u.kept
    BY <1>1, <2>1
  <2>3. known.question = NoQuestion /\ known.confirmation = asked /\ asked.action = b
    BY <1>1 DEF MemoryFields
  <2>4. /\ b.does = a.does /\ b.ticket = a.ticket /\ b.person = a.person /\ b.level \in {a.level, product.default}
        /\ FirstMissing(a) = "none" => FirstMissing(b) = "none"
    BY <1>2, DefaultsFacts, DefaultsLackNothing
  <2>5. a.does \in Changes
    BY <1>2, <1>4 DEF Changes
  <2>6. Attributed(a, m) /\ (a.does = "create" => FirstMissing(a) = "none")
    BY <2>5 DEF Supported
  <2>7. Whole(u.mem) /\ QuestionMeant(u.mem.question, x)
    <3>1. b.does = "create" => FirstMissing(b) = "none"
      BY <2>4, <2>6
    <3>2. Whole(known)
      BY <2>3, <3>1 DEF Whole
    <3> QED
      BY <2>2, <2>3, <3>2 DEF QuestionMeant
  <2> PICK before, about : /\ before = Served(u, mem)
                           /\ about = IF u.mem.question # NoQuestion THEN u.mem.question.ticket ELSE u.act.ticket
    OBVIOUS
  <2>8. Goes(u) /\ DOMAIN request = RequestFields
    BY <2>2, <2>3, <2>4, <2>5 DEF Goes, Started
  <2>9. Keeps(x, before, m, u, mem, about)
    BY <2>8, SaidWithGives
  <2>10. Gathers(x, before, m) /\ x.without = {}
    BY <2>2, <2>9 DEF Keeps
  <2>11. m.levels \subseteq x.levels /\ (m.people # {} => m.people \in x.people)
    BY <2>10 DEF Gathers
  <2>12. b.level \in x.levels \cup {Nothing, product.default}
    BY <2>4, <2>6, <2>11 DEF Attributed
  <2>13. b.does = "update" => b.ticket = m.ticket
    BY <2>4, <2>6 DEF Attributed
  <2>14. b.person = Nothing \/ b.person \in UNION x.people
    BY <2>4, <2>6, <2>11 DEF Attributed
  <2>15. ChangeMeant(u, m, x)
    BY <2>2, <2>10, <2>12, <2>13, <2>14 DEF ChangeMeant, PersonMeant
  <2> QED
    BY <2>7, <2>15 DEF Meant
<1> QED
  BY <1>3, <1>4

-----------------------------------------------------------------------------
(* Over a conversation: what is asked now is answered by the next turn or  *)
(* never, so what it holds was said for the request being served.          *)

\* What is asked, held for a yes and put forward is what the visitor means by it.
MeantInv ==
    /\ DialogueInv /\ DOMAIN request = RequestFields
    /\ QuestionMeant(memory.question, request) /\ Whole(memory)
    /\ TargetsAreMeant /\ PeopleAreMeant /\ LevelsAreMeant

\* A question that is still to be answered was asked, with what it holds, in the turn before this one.
LEMMA NextTurnStarts ==
    ASSUME MeantInv, NEW m \in Messages, NEW skipped \in BOOLEAN, NEW mem, mem = NextTurn(memory, skipped)
    PROVE  Started(m, mem) /\ Pending(mem) /\ Whole(mem)
<1>1. /\ Pending(memory) /\ DOMAIN memory = MemoryFields /\ DOMAIN request = RequestFields
      /\ QuestionMeant(memory.question, request) /\ Whole(memory)
      /\ tickets \subseteq Tickets /\ people \subseteq Folk /\ m.ticket \in Tickets \cup {Nothing}
  BY DialogueAssumption DEF MeantInv, DialogueInv, Pending, IsMemory
<1>2. Pending(mem) /\ (mem.confirmation # NoConfirmation => mem.confirmation = memory.confirmation)
  BY <1>1, NextTurnIs
<1>3. Whole(mem)
  BY <1>1, <1>2 DEF Whole
<1> PICK q, p : q = memory.question /\ p = [q EXCEPT !.age = 1]
  OBVIOUS
<1>4. mem.question # NoQuestion => q # NoQuestion /\ ~(q.age > 0) /\ mem.question = p
  BY <1>1 DEF NextTurn, MemoryFields
<1>5. mem.question # NoQuestion => DOMAIN q = QuestionFields /\ Listed(q.candidates) /\ AskedFor(q, request)
  BY <1>1, <1>4 DEF QuestionMeant
<1>6. mem.question # NoQuestion => AskedFor(mem.question, request) /\ Offers(mem.question) /\ mem.question.age > 0
  <2> SUFFICES ASSUME mem.question # NoQuestion
               PROVE  AskedFor(mem.question, request) /\ Offers(mem.question) /\ mem.question.age > 0
    OBVIOUS
  <2>1. /\ DOMAIN p = QuestionFields /\ p.age = 1 /\ p.candidates = q.candidates /\ p.single = q.single
        /\ p.does = q.does /\ p.slot = q.slot /\ p.ticket = q.ticket /\ p.person = q.person /\ p.level = q.level
        /\ p.context = q.context
    BY <1>5 DEF QuestionFields
  <2>2. AskedFor(p, request)
    BY <1>5, <2>1 DEF AskedFor
  <2>3. Offers(p)
    BY <1>5, <2>1, <2>2 DEF AskedFor, Offers
  <2>4. p.age > 0
    BY <2>1
  <2> QED
    BY <1>4, <2>2, <2>3, <2>4
<1>7. IsMemory(mem)
  BY <1>2 DEF Pending
<1> QED
  BY <1>1, <1>2, <1>3, <1>6, <1>7 DEF Started, Answerable

\* Whatever is answered to a message, by the rules or by the model, is what its request means.
LEMMA SayMeans ==
    ASSUME MeantInv, NEW m \in Messages, NEW skipped \in BOOLEAN, NEW theirs, theirs \subseteq tickets,
           Say(m, theirs, skipped)
    PROVE  MeantInv'
<1> PICK mem, routed : mem = NextTurn(memory, skipped) /\ routed = EngineTurn(m, mem, theirs)
  OBVIOUS
<1>1. PICK t : /\ \/ t = routed
                  \/ \E a \in Proposals : routed.stage = "fallback" /\ Supported(a, m) /\ t = Consider(a, routed)
               /\ memory' = t.mem
               /\ answer' = [stage |-> IF t.act = NoAction THEN "none" ELSE t.stage, act |-> t.act,
                             reason |-> t.reason, barred |-> m.barred,
                             named |-> IF t.act.does = "update" THEN m.ticket ELSE Nothing,
                             skipped |-> skipped /\ t.reason = "yes",
                             filled |-> t.act.does = "create" /\ mem.question.slot = "value"]
               /\ request' = SaidWith(m, t, mem)
               /\ UNCHANGED <<product, tickets, people, selected>>
  BY SMTT(30) DEF Say
<1>2. DialogueInv'
  BY SayIs DEF MeantInv
<1>3. /\ product \in Products /\ DOMAIN request = RequestFields /\ m.asks \in Rules
  BY DialogueAssumption DEF MeantInv, DialogueInv
<1>4. Started(m, mem) /\ Pending(mem) /\ Whole(mem)
  BY NextTurnStarts
<1> PICK x : x = SaidWith(m, t, mem)
  OBVIOUS
<1>5. DOMAIN x = RequestFields
  BY <1>3, SaidWithFields
<1>6. Meant(routed, m, SaidWith(m, routed, mem)) /\ (routed.stage = "fallback" => ~routed.kept)
  BY <1>3, <1>4, EngineTurnOf
<1>7. Answering(routed)
  <2>1. Pending(mem) /\ tickets \subseteq Tickets
    BY <1>4 DEF MeantInv, DialogueInv
  <2> QED
    BY <1>3, <2>1, EngineTurnIs DEF TakenTurn
<1>8. Meant(t, m, x)
  <2>1. CASE t = routed
    BY <1>6, <2>1
  <2>2. CASE t # routed
    <3>1. PICK a \in Proposals : routed.stage = "fallback" /\ Supported(a, m) /\ t = Consider(a, routed)
      BY <1>1, <2>2
    <3> QED
      BY <1>4, <1>6, <1>7, <3>1, ConsiderOf
  <2> QED
    BY <2>1, <2>2
<1>9. /\ answer'.act = t.act /\ answer'.reason = t.reason /\ product' = product /\ memory' = t.mem /\ request' = x
      /\ answer'.stage = IF t.act = NoAction THEN "none" ELSE t.stage
      /\ t.act.does = "update" => answer'.named = m.ticket
  BY <1>1
<1>10. QuestionMeant(memory.question, request)' /\ Whole(memory)'
  <2>1. QuestionMeant(t.mem.question, x) /\ Whole(t.mem)
    BY <1>8 DEF Meant
  <2> QED
    BY <1>9, <2>1 DEF QuestionMeant, AskedFor, Whole, FirstMissing
<1>11. PutForward' => ChangeMeant(t, m, x) /\ answer'.stage = t.stage
  <2>1. NoAction.does \notin Changes
    BY DEF NoAction, Changes
  <2> QED
    BY <1>8, <1>9, <2>1 DEF PutForward, Meant
<1>12. TargetsAreMeant'
  BY <1>9, <1>11 DEF TargetsAreMeant, ChangeMeant
<1>13. PeopleAreMeant'
  BY <1>9, <1>11 DEF PeopleAreMeant, ChangeMeant, PersonMeant
<1>14. LevelsAreMeant'
  BY <1>9, <1>11 DEF LevelsAreMeant, ChangeMeant
<1> QED
  BY <1>2, <1>5, <1>9, <1>10, <1>12, <1>13, <1>14 DEF MeantInv

\* The invariant holds at first, and every step keeps it.
LEMMA InitMeantInv == DialogueInit => MeantInv
<1> SUFFICES ASSUME DialogueInit PROVE MeantInv
  OBVIOUS
<1>1. memory.question = NoQuestion /\ memory.confirmation = NoConfirmation
  BY DEF DialogueInit, Fresh
<1>2. answer.stage = "none"
  BY DEF DialogueInit, NoAnswer
<1>3. DOMAIN request = RequestFields
  BY DEF DialogueInit, Unasked, RequestFields
<1> QED
  BY <1>1, <1>2, <1>3, InitDialogueInv
     DEF MeantInv, QuestionMeant, Whole, TargetsAreMeant, PeopleAreMeant, LevelsAreMeant, PutForward

LEMMA StepMeantInv == MeantInv /\ [DialogueNext]_dialogueVars => MeantInv'
<1> SUFFICES ASSUME MeantInv, [DialogueNext]_dialogueVars PROVE MeantInv'
  OBVIOUS
<1>1. DialogueInv'
  BY StepDialogueInv DEF MeantInv
<1>2. CASE Elsewhere
  <2>1. answer'.stage = "none" /\ memory' = memory /\ request' = request /\ product' = product
    BY <1>2 DEF Elsewhere, NoAnswer
  <2>2. QuestionMeant(memory.question, request)' /\ Whole(memory)'
    BY <2>1 DEF MeantInv, QuestionMeant, AskedFor, Whole, FirstMissing
  <2> QED
    BY <1>1, <2>1, <2>2 DEF MeantInv, TargetsAreMeant, PeopleAreMeant, LevelsAreMeant, PutForward
<1>3. ASSUME NEW m \in Messages, NEW skipped \in BOOLEAN, NEW theirs \in SUBSET tickets, Say(m, theirs, skipped)
      PROVE  MeantInv'
  BY <1>3, SayMeans
<1>4. CASE UNCHANGED dialogueVars
  <2>1. answer' = answer /\ memory' = memory /\ request' = request /\ product' = product
    BY <1>4 DEF dialogueVars
  <2>2. QuestionMeant(memory.question, request)' /\ Whole(memory)'
    BY <2>1 DEF MeantInv, QuestionMeant, AskedFor, Whole, FirstMissing
  <2> QED
    BY <1>1, <2>1, <2>2 DEF MeantInv, TargetsAreMeant, PeopleAreMeant, LevelsAreMeant, PutForward
<1> QED
  BY <1>2, <1>3, <1>4 DEF DialogueNext

\* A change that is put forward is made to a ticket, of people and of levels that the visitor said or
\* picked for this request, names nobody they rejected, and is visible and confirmed as it must be, over
\* any number of questions, answers and people who come and go (router.py, conversation_engine.turn).
THEOREM ChangesMeant == DialogueSpec => []ChangesAreMeant
<1>1. DialogueInit => MeantInv
  BY InitMeantInv
<1>2. MeantInv /\ [DialogueNext]_dialogueVars => MeantInv'
  BY StepMeantInv
<1>3. MeantInv => ChangesAreMeant
  BY DEF MeantInv, DialogueInv, ChangesAreMeant
<1> QED
  BY <1>1, <1>2, <1>3, PTL DEF DialogueSpec

\* The memory keeps its shape, and no list that is offered, however often it was cut down, holds anybody
\* twice (router._ask, router._after_rejection, memory.py).
THEOREM DialogueTyped == DialogueSpec => []DialogueTypeOK
<1>1. DialogueInit => MeantInv
  BY InitMeantInv
<1>2. MeantInv /\ [DialogueNext]_dialogueVars => MeantInv'
  BY StepMeantInv
<1>3. MeantInv => DialogueTypeOK
  BY DEF MeantInv, DialogueInv, Pending, IsMemory, QuestionMeant, Listed, Choosing, DialogueTypeOK
<1> QED
  BY <1>1, <1>2, <1>3, PTL DEF DialogueSpec

\* Every reachable state of the two engines' conversations is well typed, on every list that is offered
\* and whatever the legacy engine remembers (memory.py, router.py, services/agent.py).
THEOREM ConversationTyped == DialogueSpec /\ AgentSpec => []TypeOK
BY DialogueTyped, AgentTyped, PTL DEF TypeOK
=============================================================================
