------------------------------ MODULE Dialogue ------------------------------
(***************************************************************************)
(* What the definition engine takes a conversation's messages to mean:     *)
(* engine/router.py, conversation_engine.py, model_turn.py, provenance.py, *)
(* validator.py and memory.py. One step is one turn. A message is what the *)
(* rules find in it, never its words; between two turns what the caller    *)
(* may see, and the record open in the client, change freely. Where the    *)
(* memory lives, and which of two turns keeps it, is EngineMemory.         *)
(***************************************************************************)
EXTENDS FiniteSets, SequencesExt

CONSTANTS
    Tickets,      \* what a change is made to
    Folk,         \* whom a change may name
    Levels,       \* the values of the one choice a change may set
    Products,     \* definitions: the level's default, and the actions which need a yes
    Messages,     \* what is said: see Plain
    Nothing

(* The rules a message may match: "also" is a follow-up ("what about ..."), "tie" two rules that   *)
(* fit equally well.                                                                             *)
Rules == {"assign", "set", "create", "draft", "this", "open", "list", "also", "tie", "none"}

ASSUME DialogueAssumption ==
    /\ Nothing \notin Tickets \cup Folk \cup Levels /\ Tickets \cap Folk = {}
    /\ IsFiniteSet(Tickets) /\ IsFiniteSet(Folk)
    /\ Products \subseteq [default : Levels \cup {Nothing}, confirms : SUBSET {"update", "create"}]
    /\ \A m \in Messages : m.asks \in Rules /\ m.ticket \in Tickets \cup {Nothing}

VARIABLES
    product,   \* the pinned definition
    tickets,   \* the tickets the caller may see
    people,    \* the people the caller may see
    selected,  \* the ticket open in the client
    memory,    \* what the conversation remembers
    answer,    \* what the last turn put forward
    request    \* for the properties: what was said for the request being served
dialogueVars == <<product, tickets, people, selected, memory, answer, request>>

Changes == {"update", "create"}
NoAction == [does |-> "nothing", ticket |-> Nothing, person |-> Nothing, level |-> Nothing, title |-> FALSE]
Action(does, ticket, person, level, title) ==
    [does |-> does, ticket |-> ticket, person |-> person, level |-> level, title |-> title]
HasFields(a) == a.person # Nothing \/ a.level # Nothing \/ a.title

(* What the rules find in a message. `asks' is the rule it matches, `ticket' the identifier it   *)
(* names, `people' those its names could be, `stranger' a name nobody visible has, `levels' the  *)
(* values it says, `nth' an ordinal and `without' whom it rejects; `bare' is a name and nothing   *)
(* else, and `go' begins as one asks to be shown something ("show me ...").                       *)
Plain ==
    [asks |-> "none", ticket |-> Nothing, people |-> {}, stranger |-> FALSE, levels |-> {}, title |-> FALSE,
     brief |-> TRUE, bare |-> FALSE, go |-> FALSE, nth |-> 0, without |-> {}, yes |-> FALSE, aside |-> FALSE, barred |-> FALSE, cue |-> FALSE]
MatchesARule(m) == m.asks \notin {"also", "none"}

Seen(m) == m.people \cap people
(* A name that nobody the caller may see has: of those who left it is not known that they exist. *)
Unknown(m) == m.stranger \/ (m.people # {} /\ Seen(m) = {})

(* A request read together with the answer to the question it led to. Of two rules the one the   *)
(* answer matches is taken.                                                                      *)
Joined(before, m) ==
    [Plain EXCEPT !.asks = IF MatchesARule(m) THEN m.asks ELSE before.asks,
        !.ticket = IF before.ticket \in tickets \/ m.ticket = Nothing THEN before.ticket ELSE m.ticket,
        !.people = m.people \cup before.people, !.stranger = Unknown(m) \/ Unknown(before),
        !.levels = m.levels \cup before.levels, !.title = m.title \/ before.title]

(* -------------------------------- Memory -------------------------------- *)

NoQuestion == [slot |-> "none"]
NoConfirmation == [reason |-> "none"]
NoFollow == [does |-> "none", age |-> 1]
(* The response that asks: who is meant is asked of a change and of a view in different words. *)
Key(slot, does) ==
    IF slot # "person" THEN slot ELSE IF does \in Changes THEN "assign" ELSE "person"
Question(slot, key, does, candidates, ticket, level, context) ==
    [slot |-> slot, key |-> key, does |-> does, candidates |-> candidates, single |-> Nothing, ticket |-> ticket,
     person |-> Nothing, level |-> level, title |-> FALSE, field |-> "none", context |-> context,
     age |-> 0, repeats |-> 0]

Fresh == [question |-> NoQuestion, confirmation |-> NoConfirmation, focus |-> Nothing, follow |-> NoFollow]

(* A mutant: a confirmation survives turns that never reached the engine. *)
NextTurnKeepsConfirmation(mem, skipped) ==
    [mem EXCEPT !.question =
            IF @ = NoQuestion THEN @ ELSE IF skipped \/ @.age > 0 THEN NoQuestion ELSE [@ EXCEPT !.age = 1],
        !.follow = IF skipped \/ @.age > 0 THEN NoFollow ELSE [@ EXCEPT !.age = 1]]

(* The turn advances: what was not answered in time is dropped. A question keeps the turn it was *)
(* asked in, whoever keeps it, so one carried over unanswered is a turn old already.             *)
NextTurn(mem, skipped) ==
    [mem EXCEPT !.question =
            IF @ = NoQuestion THEN @ ELSE IF skipped \/ @.age > 0 THEN NoQuestion ELSE [@ EXCEPT !.age = 1],
        !.confirmation = IF skipped THEN NoConfirmation ELSE @,
        !.follow = IF skipped \/ @.age > 0 THEN NoFollow ELSE [@ EXCEPT !.age = 1]]

Choosing(q) == q # NoQuestion /\ q.candidates # <<>>
Discarded(mem) == [mem EXCEPT !.question = NoQuestion, !.confirmation = NoConfirmation, !.follow = NoFollow]
Answered(mem) == [mem EXCEPT !.question = NoQuestion]
Asking(mem, q) == [mem EXCEPT !.question = q]

(* A mutant: what is remembered as the ticket talked about is whoever the change names. *)
AcceptedRemembersThePerson(mem, a, reason) ==
    IF reason # "none" THEN [mem EXCEPT !.confirmation = [reason |-> reason, action |-> a]]
    ELSE [mem EXCEPT !.focus = IF a.person # Nothing THEN a.person ELSE a.ticket, !.follow = [does |-> a.does, age |-> 0]]

(* Memory once the validator has accepted a proposal. *)
Accepted(mem, a, reason) ==
    IF reason # "none" THEN [mem EXCEPT !.confirmation = [reason |-> reason, action |-> a]]
    ELSE [mem EXCEPT !.focus = IF a.ticket # Nothing THEN a.ticket ELSE @, !.follow = [does |-> a.does, age |-> 0]]

(* -------------------------- Results of routing -------------------------- *)

(* `kept': the turn serves the request before it, not one of its own. *)
Result(kind, mem, kept) == [kind |-> kind, act |-> NoAction, reason |-> "none", mem |-> mem, kept |-> kept]
Fallback(mem) == Result("fallback", mem, FALSE)
Clarify(mem, kept) == Result("clarify", mem, kept)

ConfirmationReason(a, corrected, byModel) ==
    IF byModel /\ a.does \in Changes THEN "model"
    ELSE IF a.does \in product.confirms THEN "definition"
    ELSE IF corrected /\ a.does \in Changes THEN "correction"
    ELSE "none"

Propose(a, corrected, mem, kept) ==
    LET why == ConfirmationReason(a, corrected, FALSE)
    IN [Result(IF why = "none" THEN "propose" ELSE "confirm", mem, kept) EXCEPT !.act = a, !.reason = why]

(* The control that adds a person, offered with the name nobody visible has. *)
Offer(mem, kept) == Propose(Action("offer", Nothing, Nothing, Nothing, FALSE), FALSE, mem, kept)
View(mem) == Propose(Action("view", Nothing, Nothing, Nothing, FALSE), FALSE, mem, FALSE)

(* ------------------------- A request of its own ------------------------- *)

OneLevel(m) == IF Cardinality(m.levels) = 1 THEN CHOOSE v \in m.levels : TRUE ELSE Nothing
OnePerson(m) == CHOOSE p \in Seen(m) : TRUE

(* The ticket the conversation is about, else the one open in the client: never one unseen. *)
CurrentTicket(mem) ==
    IF mem.focus \in tickets THEN mem.focus
    ELSE IF selected \in tickets THEN selected ELSE Nothing

Met(a) == [met |-> TRUE, act |-> a]
Unmet(reason, slot, candidates, ticket, level) ==
    [met |-> FALSE, reason |-> reason, slot |-> slot, candidates |-> candidates, ticket |-> ticket, level |-> level]
Missing(slot, ticket, level) == Unmet("missing", slot, <<>>, ticket, level)
Unseen(slot, ticket) == Unmet("not_visible", slot, <<>>, ticket, Nothing)

EvaluateUpdate(m, mem) ==
    LET target == IF m.ticket # Nothing THEN m.ticket ELSE CurrentTicket(mem)
    IN IF m.ticket # Nothing /\ m.ticket \notin tickets THEN Unseen("record", Nothing)
       ELSE IF target = Nothing THEN Missing("record", Nothing, OneLevel(m))
       ELSE IF Cardinality(Seen(m)) > 1 THEN Unmet("ambiguous", "person", SetToSeq(Seen(m)), target, Nothing)
       ELSE IF Cardinality(m.levels) > 1 THEN Unmet("ambiguous", "choice", <<>>, target, Nothing)
       ELSE IF Seen(m) # {} \/ m.levels # {}
            THEN Met(Action("update", target, IF Seen(m) = {} THEN Nothing ELSE OnePerson(m), OneLevel(m), FALSE))
       ELSE IF m.asks = "assign" /\ Unknown(m) THEN Unseen("person", target)
       ELSE Missing(IF m.asks = "assign" THEN "person" ELSE "choice", target, Nothing)

(* A request which needs a person: exactly one visible match, or a question, or unknown. *)
EvaluatePerson(does, m, theirs) ==
    IF Cardinality(Seen(m)) > 1 THEN Unmet("ambiguous", "person", SetToSeq(Seen(m)), Nothing, Nothing)
    ELSE IF Unknown(m) /\ (Seen(m) = {} \/ does = "create") THEN Unseen("person", Nothing)
    ELSE IF Seen(m) = {} THEN Missing("person", Nothing, Nothing)
    ELSE CASE does = "create" ->
                Met(Action(does, Nothing, OnePerson(m), IF m.title THEN OneLevel(m) ELSE Nothing, m.title))
           [] does = "list" -> Met(Action(does, Nothing, OnePerson(m), Nothing, FALSE))
           [] does = "open" ->
                IF theirs = {} THEN Missing("record", Nothing, Nothing)
                ELSE IF Cardinality(theirs) > 1
                     THEN Unmet("ambiguous", "record", SetToSeq(theirs), Nothing, Nothing)
                ELSE Met(Action(does, CHOOSE t \in theirs : TRUE, Nothing, Nothing, FALSE))

Does(m) ==
    CASE m.asks \in {"assign", "set"} -> "update"
      [] m.asks = "draft" -> "create"
      [] m.asks = "this" -> "open"
      [] OTHER -> m.asks

Evaluate(m, mem, theirs) ==
    IF m.asks = "this"
    THEN IF CurrentTicket(mem) = Nothing THEN Missing("record", Nothing, Nothing)
         ELSE Met(Action("open", CurrentTicket(mem), Nothing, Nothing, FALSE))
    ELSE IF Does(m) = "update" THEN EvaluateUpdate(m, mem)
    ELSE EvaluatePerson(Does(m), m, theirs)

(* A request that cannot be completed asks, offers, or falls to a less specific view. *)
HandleUnmet(u, m, mem) ==
    LET hasView == m.asks \in {"open", "list"}
        ask(slot, ticket, level) ==
            Clarify(Asking(mem, Question(slot, Key(u.slot, Does(m)), Does(m), u.candidates, ticket, level, Joined(Plain, m))), FALSE)
        whose == Question("person", "owner", "create", <<>>, Nothing, Nothing, Joined(Plain, m))
    IN CASE u.reason = "ambiguous" -> ask("choice", u.ticket, Nothing)
         [] u.reason = "missing" /\ u.slot = "person" /\ Does(m) \notin Changes -> View(mem)
         [] u.reason = "missing" /\ m.asks = "draft" -> Offer(Asking(mem, whose), FALSE)
         [] u.reason = "missing" /\ m.asks # "draft" /\ (u.slot # "person" \/ Does(m) \in Changes) -> ask(u.slot, u.ticket, u.level)
         [] u.reason = "not_visible" /\ u.slot = "record" -> ask("record", Nothing, u.level)
         [] u.reason = "not_visible" /\ u.slot = "person" -> IF hasView THEN View(mem) ELSE Offer(mem, FALSE)

(* A ticket named and nothing else: it is opened. *)
OpenNamed(m, mem) ==
    IF m.ticket \in tickets THEN Propose(Action("open", m.ticket, Nothing, Nothing, FALSE), FALSE, mem, FALSE)
    ELSE Fallback(mem)

(* "What about <person>", on the turn after a request was accepted, applies it to that person. *)
FollowUp(m, mem, theirs) ==
    LET does == IF mem.follow.does \in {"list", "create", "open"} THEN mem.follow.does ELSE "list"
        Apply(u) ==
            IF u.met THEN Propose(u.act, FALSE, mem, FALSE)
            ELSE IF u.reason = "not_visible" THEN Result("answer", mem, FALSE)
            ELSE OpenNamed(m, mem)
    IN Apply(EvaluatePerson(does, m, theirs))

RouteFresh(m, mem, theirs) ==
    LET Act(u) == IF u.met THEN Propose(u.act, FALSE, mem, FALSE) ELSE HandleUnmet(u, m, mem)
    IN IF m.asks = "tie" THEN Fallback(mem)
       ELSE IF MatchesARule(m) THEN Act(Evaluate(m, mem, theirs))
       ELSE IF m.asks = "also" /\ mem.follow # NoFollow /\ (Cardinality(Seen(m)) = 1) # Unknown(m) /\ Cardinality(Seen(m)) < 2
       THEN FollowUp(m, mem, theirs)
       ELSE OpenNamed(m, mem)

(* ---------------------- The answer to a question ------------------------ *)

(* `alone' is what the message means by itself. *)
AskAgain(q, mem, alone) ==
    IF q.repeats > 0 THEN alone
    ELSE Clarify(Asking(mem, [q EXCEPT !.repeats = 1, !.age = 0]), TRUE)

(* A choice or a slot completes the request it was asked for; what is still missing is asked.   *)
(* The question put here keeps the turn of the one it follows.                                   *)
CompletePending(q, chosen, corrected, mem) ==
    LET person == IF chosen \in Folk THEN chosen ELSE q.person
        ticket == IF chosen \in Tickets THEN chosen ELSE q.ticket
        a == Action(q.does, ticket, person, q.level, q.title)
    IN CASE q.does = "list" -> Propose(Action("list", Nothing, person, Nothing, FALSE), corrected, mem, TRUE)
         [] q.does = "open" /\ ticket # Nothing ->
                Propose(Action("open", ticket, Nothing, Nothing, FALSE), corrected, mem, TRUE)
         [] q.does \in {"open", "update"} /\ ticket = Nothing ->
                Clarify(Asking(mem, [q EXCEPT !.candidates = <<>>, !.single = Nothing, !.person = person]), TRUE)
         [] q.does = "update" /\ ticket # Nothing /\ ~HasFields(a) ->
                Clarify(Asking(mem, [Question("choice", "choice", "update", <<>>, ticket, Nothing, q.context) EXCEPT !.age = q.age]), TRUE)
         [] OTHER -> Propose(a, corrected, mem, TRUE)

(* What a list keeps of a set, in its order: entry n is the one which n of those kept come up to. *)
Remaining(list, kept) ==
    LET at == {i \in DOMAIN list : list[i] \in kept}
    IN [n \in 1 .. Cardinality(at) |-> list[CHOOSE i \in at : Cardinality({j \in at : j <= i}) = n]]

(* A mutant: of a change, the last candidate a rejection leaves is taken without a yes. *)
AfterRejectionTakesTheLast(q, gone, mem) ==
    LET left == Remaining(q.candidates, (tickets \cup people) \ gone)
        corrected == [q EXCEPT !.candidates = left, !.single = Nothing, !.age = 0]
    IN IF Len(left) # 1 THEN Clarify(Asking(mem, corrected), TRUE) ELSE CompletePending(corrected, left[1], FALSE, mem)

(* Rejected candidates leave the list and the rest is asked about: of a change, the last one left *)
(* is proposed, and only a yes does it.                                                           *)
AfterRejection(q, gone, mem) ==
    LET left == Remaining(q.candidates, (tickets \cup people) \ gone)
        corrected == [q EXCEPT !.candidates = left, !.single = Nothing, !.age = 0]
    IN IF Len(left) # 1 THEN Clarify(Asking(mem, corrected), TRUE)
       ELSE IF q.does \in Changes THEN CompletePending(corrected, left[1], TRUE, mem)
       ELSE Clarify(Asking(mem, [corrected EXCEPT !.single = left[1]]), TRUE)

(* The candidate a reply selects and the ones it rejects, among those still visible. *)
CandidateReply(q, m) ==
    LET left == Remaining(q.candidates, tickets \cup people)
        hit == m.without \cap ToSet(left)
        rejected == IF hit = ToSet(left) THEN {} ELSE hit
        said == ((m.people \ m.without) \cup {m.ticket}) \cap ToSet(left)
    IN IF m.nth \in 1..Len(left) THEN [chosen |-> left[m.nth], rejected |-> {}]
       ELSE IF Cardinality(said) = 1 THEN [chosen |-> CHOOSE c \in said : TRUE, rejected |-> {}]
       ELSE [chosen |-> Nothing, rejected |-> rejected]

AnswerChoice(q, m, mem, alone, reply) ==
    IF reply.chosen # Nothing THEN CompletePending(q, reply.chosen, FALSE, Answered(mem))
    ELSE IF reply.rejected # {} \/ (m.cue /\ q.single # Nothing)
    THEN AfterRejection(q, IF reply.rejected # {} THEN reply.rejected ELSE {q.single}, Answered(mem))
    ELSE IF ~m.cue /\ MatchesARule(m) THEN alone
    ELSE AskAgain(q, mem, alone)

SuppliedSlot(q, m) ==
    IF q.slot = "person" /\ Cardinality(Seen(m)) = 1 THEN OnePerson(m)
    ELSE IF q.slot = "record" /\ m.ticket \in tickets THEN m.ticket
    ELSE Nothing

(* A question with no candidates: the slot it waits for, the request completed by the answer, a *)
(* request of its own, or the question once more. `joined' is what the two mean together; where *)
(* it leads to a question in the same words, also about who of several, it is not taken.        *)
AnswerSlot(q, m, mem, alone, joined) ==
    LET again == joined.kind = "clarify" /\ joined.mem.question.key = q.key
    IN IF SuppliedSlot(q, m) # Nothing THEN CompletePending(q, SuppliedSlot(q, m), FALSE, Answered(mem))
       ELSE IF q.slot = "person" /\ Unknown(m) /\ Seen(m) = {} THEN Offer(Answered(mem), TRUE)
       ELSE IF ~m.brief /\ alone.kind \in {"propose", "confirm"} THEN alone
       ELSE IF joined.kind # "fallback" /\ ~again THEN [joined EXCEPT !.kept = TRUE]
       ELSE IF MatchesARule(m) THEN alone
       ELSE AskAgain(q, mem, alone)

AnswerClarification(m, mem, theirs, alone) ==
    LET q == mem.question
    IN IF m.aside THEN Result("cancelled", Answered(mem), FALSE)
       ELSE IF Choosing(q) THEN AnswerChoice(q, m, mem, alone, CandidateReply(q, m))
       ELSE AnswerSlot(q, m, mem, alone, RouteFresh(Joined(q.context, m), Answered(mem), theirs))

(* Refusals first, then a pending yes, then a pending question, then the message itself. *)
Route(m, mem, theirs) ==
    LET after == [mem EXCEPT !.confirmation = NoConfirmation]
        Answer(alone) == IF after.question # NoQuestion THEN AnswerClarification(m, after, theirs, alone) ELSE alone
        Unless(dropped, r) == IF dropped /\ r.kind = "fallback" THEN [r EXCEPT !.kind = "cancelled"] ELSE r
    IN IF m.barred THEN Result("refuse", Discarded(mem), FALSE)
       ELSE IF mem.confirmation # NoConfirmation /\ m.yes
       THEN [Result("propose", after, TRUE) EXCEPT !.act = mem.confirmation.action, !.reason = "yes"]
       ELSE Unless(mem.confirmation # NoConfirmation, Answer(RouteFresh(m, Answered(after), theirs)))

(* ------------------------- Validation and answers ----------------------- *)

WithDefaults(a) ==
    IF a.does = "create" /\ a.level = Nothing THEN [a EXCEPT !.level = product.default] ELSE a

FirstMissing(a) ==
    CASE ~a.title -> "title"
      [] a.title /\ a.level = Nothing /\ product.default = Nothing -> "level"
      [] OTHER -> IF a.person = Nothing THEN "person" ELSE "none"

(* Every reference is looked up again in this turn's snapshot. *)
Validates(a) == a.ticket \in tickets \cup {Nothing} /\ a.person \in people \cup {Nothing}

Turned(stage, a, reason, mem, kept) == [stage |-> stage, act |-> a, reason |-> reason, mem |-> mem, kept |-> kept]

ValueQuestion(a, field) ==
    [Question("value", "value", "create", <<>>, Nothing, a.level, Plain)
        EXCEPT !.person = a.person, !.title = a.title, !.field = field]
(* A create nothing is known of yet is asked for its first field, whatever the question was. *)
UnstartedCreate(q) == q.slot \notin {"none", "value"} /\ q.does = "create"

(* A create is asked for what it lacks, one field at a time, refused, or proposed. *)
ProposeCreate(a, mem, kept) ==
    LET field == FirstMissing(a)
    IN IF ~Validates(a) THEN Turned("refuse", NoAction, "none", Discarded(mem), kept)
       ELSE IF field # "none"
       THEN Turned("clarify", NoAction, "none",
                   [mem EXCEPT !.question = ValueQuestion(a, field), !.confirmation = NoConfirmation], kept)
       ELSE Turned("proposed", WithDefaults(a), "none", Accepted(mem, WithDefaults(a), "none"), kept)

Finish(r) ==
    LET a == WithDefaults(r.act)
        stage == CASE r.kind = "confirm" -> "awaiting" [] r.reason = "yes" -> "would_execute" [] OTHER -> "proposed"
        held == IF r.kind = "confirm" THEN r.reason ELSE "none"
        proposes == r.kind \in {"propose", "confirm"}
        lacking == r.act.does = "create" /\ FirstMissing(r.act) # "none"
    IN CASE proposes /\ ~Validates(r.act) -> Turned("refuse", NoAction, "none", Discarded(r.mem), r.kept)
         [] proposes /\ Validates(r.act) /\ lacking -> ProposeCreate(r.act, r.mem, r.kept)
         [] proposes /\ Validates(r.act) /\ ~lacking -> Turned(stage, a, r.reason, Accepted(r.mem, a, held), r.kept)
         [] r.kind = "clarify" /\ UnstartedCreate(r.mem.question) ->
                Turned("clarify", NoAction, "none", Asking(r.mem, ValueQuestion(NoAction, "title")), r.kept)
         [] OTHER -> Turned(r.kind, NoAction, "none", r.mem, r.kept)

(* ----------------------- The field a create waits for ------------------- *)

(* What the message gives the field: free text is anything that is not a plain yes or no, and a   *)
(* person is one whom the message names, saying nothing else.                                     *)
ReadAnswer(q, m) ==
    CASE q.field = "title" -> IF m.yes THEN Nothing ELSE "title"
      [] q.field = "level" -> OneLevel(m)
      [] q.field = "person" -> IF m.bare /\ ~m.stranger /\ Cardinality(Seen(m)) = 1 THEN OnePerson(m) ELSE Nothing

Filled(q, value) ==
    Action("create", Nothing, IF q.field = "person" THEN value ELSE q.person,
           IF q.field = "level" THEN value ELSE q.level, q.field = "title" \/ q.title)

(* A new request replaces the unfinished create; while free text is awaited only a change, a view *)
(* asked for as one or a refusal does, and a value that was found is not looked at twice.         *)
ReplacesCreate(q, m, probe) ==
    LET free == q.field = "title"
    IN /\ free \/ ReadAnswer(q, m) = Nothing
       /\ \/ probe.kind = "refuse"
          \/ probe.kind \in {"propose", "confirm"} /\ (~free \/ probe.act.does \in Changes \/ (m.go /\ probe.act.does = "view"))
          \/ probe.kind = "clarify" /\ ~free

ContinueCreate(m, mem) ==
    LET q == mem.question
        value == ReadAnswer(q, m)
    IN IF m.aside \/ (value = Nothing /\ q.repeats > 0)
       THEN Turned("cancelled", NoAction, "none", Answered(mem), FALSE)
       ELSE IF value = Nothing
       THEN Turned("clarify", NoAction, "none", Asking(mem, [q EXCEPT !.repeats = 1, !.age = 0]), TRUE)
       ELSE ProposeCreate(Filled(q, value), Answered(mem), TRUE)

EngineTurn(m, mem, theirs) ==
    LET waiting == mem.question.slot = "value"
        Continue(routed) ==
            IF waiting /\ (m.aside \/ ~ReplacesCreate(mem.question, m, routed)) THEN ContinueCreate(m, mem)
            ELSE Finish(routed)
    IN Continue(Route(m, IF waiting THEN Answered(mem) ELSE mem, theirs))

(* ------------------------------- The model ------------------------------ *)

(* Every parameter of a change a model proposes is traced to what this message says. *)
Attributed(a, m) ==
    /\ a.does = "update" => a.ticket # Nothing /\ a.ticket = m.ticket
    /\ a.person # Nothing => a.person \in m.people \cap people
    /\ a.level # Nothing => a.level \in m.levels \/ (a.does = "create" /\ a.level = product.default)
    /\ a.title => m.title

Proposals ==
    [does : {"open"}, ticket : Tickets, person : {Nothing}, level : {Nothing}, title : {FALSE}]
    \cup [does : {"update"}, ticket : Tickets, person : Folk \cup {Nothing}, level : Levels \cup {Nothing}, title : {FALSE}]
    \cup [does : {"create"}, ticket : {Nothing}, person : Folk \cup {Nothing}, level : Levels \cup {Nothing}, title : BOOLEAN]

(* What of a model's proposals survives: a record to look at, or a change wholly of this message *)
(* and short of nothing.                                                                         *)
Supported(a, m) ==
    /\ Validates(a)
    /\ a.does \in Changes => Attributed(a, m) /\ HasFields(a)
    /\ a.does = "create" => FirstMissing(a) = "none"

(* The turn that fell back, with such a proposal in place: a change only ever awaits a yes. *)
Consider(a, t) ==
    IF a.does = "open" THEN [t EXCEPT !.stage = "proposed", !.act = a]
    ELSE [t EXCEPT !.stage = "awaiting", !.act = WithDefaults(a), !.reason = "model",
             !.mem.confirmation = [reason |-> ConfirmationReason(a, FALSE, TRUE), action |-> WithDefaults(a)]]

(* -------------------------------- Actions ------------------------------- *)

NoAnswer == [stage |-> "none", act |-> NoAction, reason |-> "none", barred |-> FALSE, named |-> Nothing, skipped |-> FALSE, filled |-> FALSE]
Unasked == [tickets |-> {}, people |-> {}, picked |-> {}, without |-> {}, levels |-> {}, open |-> {}, asked |-> {}, shown |-> NoAction]

(* Whom an answer picks from a list: the one an ordinal points at, as long as the whole list is  *)
(* still visible, and the only one still listed whom it names and does not reject.               *)
Picked(q, m) ==
    LET listed == ToSet(q.candidates)
        named == (m.people \ m.without) \cap listed \cap people
        numbered == IF m.nth # 0 /\ ~(listed \subseteq tickets \cup people) THEN listed
                    ELSE {q.candidates[i] : i \in {m.nth} \cap DOMAIN q.candidates}
    IN numbered \cup IF Cardinality(named) = 1 THEN named ELSE {}

(* What was said for the request this turn serves: its own words, and those of the turns before it *)
(* which it answers.                                                                               *)
SaidWith(m, t, mem) ==
    LET before == IF t.kept THEN request ELSE [Unasked EXCEPT !.open = {mem.focus, selected}]
        choosing == t.kept /\ Choosing(mem.question)
        picked == IF choosing THEN Picked(mem.question, m) ELSE {}
        about == IF t.mem.question # NoQuestion THEN t.mem.question.ticket ELSE t.act.ticket
        settled == mem.question # NoQuestion /\ about # Nothing /\ about \in {mem.question.ticket, mem.question.context.ticket}
        of == IF choosing \/ (t.kept /\ settled)
              THEN {about} \cap ((before.tickets \cup before.open \cup before.asked) \ {Nothing}) ELSE {}
        now == m.people \cup picked
    IN IF t.mem.question = NoQuestion /\ t.mem.confirmation = NoConfirmation /\ t.act.does \notin Changes THEN Unasked
       ELSE IF t.mem.question # NoQuestion /\ t.mem.question.repeats > 0 THEN request
       ELSE [before EXCEPT
                !.tickets = @ \cup ({m.ticket} \ {Nothing}),
                !.asked = @ \cup of,
                !.open = IF choosing THEN @
                         ELSE IF @ = {} \/ m.ticket \in (IF t.kept THEN tickets ELSE Tickets) THEN {}
                         ELSE @ \cup {mem.focus, selected},
                !.people = ({who \cap people : who \in @ \cup {m.people}} \cup @ \cup {m.people}) \ {{}},
                !.picked = @ \cup picked,
                !.without = IF choosing /\ (t.mem.question = NoQuestion \/ Choosing(t.mem.question))
                            THEN (@ \ now) \cup (m.without \ picked) ELSE {},
                !.levels = @ \cup m.levels,
                !.shown = IF t.stage = "awaiting" THEN t.act ELSE NoAction]

(* One turn of the conversation. `theirs' are the tickets of the one person named, and `skipped'  *)
(* says that turns in between never reached the engine. Where the rules fall back, a model is     *)
(* asked, and proposes anything or nothing.                                                       *)
Say(m, theirs, skipped) ==
    LET mem == NextTurn(memory, skipped)
        Answers(routed) ==
            {routed} \cup {Consider(a, routed) :
                              a \in {p \in Proposals : routed.stage = "fallback" /\ Supported(p, m)}}
    IN \E t \in Answers(EngineTurn(m, mem, theirs)) :
        /\ memory' = t.mem
        /\ answer' = [stage |-> IF t.act = NoAction THEN "none" ELSE t.stage, act |-> t.act, reason |-> t.reason, barred |-> m.barred,
                      named |-> IF t.act.does = "update" THEN m.ticket ELSE Nothing,
                      skipped |-> skipped /\ t.reason = "yes",
                      filled |-> t.act.does = "create" /\ mem.question.slot = "value"]
        /\ request' = SaidWith(m, t, mem)
        /\ UNCHANGED <<product, tickets, people, selected>>

(* Records and people come and go, and the client opens another ticket, between two turns. *)
Elsewhere ==
    /\ tickets' \in SUBSET Tickets /\ people' \in SUBSET Folk
    /\ selected' \in Tickets \cup {Nothing}
    /\ answer' = NoAnswer
    /\ UNCHANGED <<product, memory, request>>

DialogueInit ==
    /\ product \in Products
    /\ tickets = Tickets /\ people = Folk /\ selected \in Tickets \cup {Nothing}
    /\ memory = Fresh /\ answer = NoAnswer /\ request = Unasked

DialogueNext ==
    \/ Elsewhere
    \/ \E m \in Messages, skipped \in BOOLEAN, theirs \in SUBSET tickets : Say(m, theirs, skipped)

DialogueSpec == DialogueInit /\ [][DialogueNext]_dialogueVars

(* ------------------------------ Properties ------------------------------ *)

(* Every variable has its type, and a list offered names nobody twice (memory.py, router.py). *)
DialogueTypeOK ==
    /\ product \in Products /\ tickets \subseteq Tickets /\ people \subseteq Folk
    /\ selected \in Tickets \cup {Nothing} /\ memory.focus \in Tickets \cup {Nothing}
    /\ Choosing(memory.question) => IsInjective(memory.question.candidates)

Dispatched == answer.stage \in {"proposed", "would_execute"} /\ answer.act.does \in Changes
(* A change done on the visitor's own words, or that they are asked to confirm. *)
PutForward == answer.stage \in {"proposed", "awaiting"} /\ answer.act.does \in Changes

(* What is dispatched names only what the caller may see now, however long ago it was named. *)
StillVisible ==
    Dispatched => /\ answer.act.ticket \in tickets \cup {Nothing}
                  /\ answer.act.person \in people \cup {Nothing}

(* A change is made to a ticket the request names or, before it names one the caller may see, to *)
(* one that was open; or to the one that the question it answers was about, which wins over one  *)
(* that the answer names (router.py, _answer_clarification).                                     *)
TargetsAreMeant ==
    PutForward /\ answer.act.does = "update" =>
        answer.act.ticket \in {answer.named} \cup request.tickets \cup request.open \cup request.asked

(* Nobody is written into a change whom the visitor neither singled out nor picked from the list, *)
(* or rejected and did not name again; the last one a rejection leaves is only asked about.       *)
PeopleAreMeant ==
    LET p == answer.act.person
    IN PutForward /\ p # Nothing =>
        /\ p \notin request.without
        /\ \/ answer.stage = "awaiting" /\ request.without # {}
           \/ answer.reason = "model" /\ p \in UNION request.people
           \/ p \in request.picked
           \/ {p} \in request.people

(* A level is one the visitor said for this request, or the definition's default. *)
LevelsAreMeant ==
    PutForward /\ answer.act.level # Nothing =>
        answer.act.level \in request.levels \cup {product.default}

(* What needs a yes is not done without one; but a create which was asked for what it lacked is,   *)
(* whatever its definition says (_propose_create gives it no reason to be confirmed).             *)
ConfirmedFirst ==
    answer.stage = "proposed" =>
        /\ answer.act.does \in product.confirms => answer.filled
        /\ answer.reason \notin {"correction", "model"}

(* A change that is put forward is the one the visitor asked for, over any number of questions, *)
(* follow-ups, corrections and people who come and go (router.py, conversation_engine.turn).    *)
ChangesAreMeant == StillVisible /\ TargetsAreMeant /\ PeopleAreMeant /\ LevelsAreMeant /\ ConfirmedFirst

(* A yes does what the answer right before it asked about; a message a guardrail refuses changes  *)
(* nothing and ends what was pending, unless it holds the value a create is waiting for (router.  *)
(* route, conversation_engine._continue_create).                                                  *)
RepliesAreSettled ==
    [][/\ answer'.stage = "would_execute" => answer'.act = request.shown /\ ~answer'.skipped
       /\ answer'.barred => \/ /\ answer'.act = NoAction
                               /\ memory'.question = NoQuestion /\ memory'.confirmation = NoConfirmation
                            \/ memory.question.slot = "value" /\ memory.question.field # "title"]_dialogueVars
=============================================================================
