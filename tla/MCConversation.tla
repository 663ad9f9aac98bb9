--------------------------- MODULE MCConversation ---------------------------
(***************************************************************************)
(* Instances of Dialogue and of LegacyAgent for TLC, one of them at a      *)
(* time: what is said to the definition engine, in a product whose changes *)
(* need a yes and in one whose creates fill in a default; and what is said *)
(* to the legacy engine, in two turns of a session.                        *)
(***************************************************************************)
EXTENDS Dialogue, LegacyAgent

VARIABLE part

CONSTANTS t1, t2, m1, m2, r1, r2

TwoProducts == {[default |-> Nothing, confirms |-> {"update", "create"}], [default |-> "hi", confirms |-> {}]}

(* Every combination of a rule, a ticket, a name, a value and a title. A message is brief unless *)
(* it holds a whole request; one that matches no rule is a bare name; and "open m1's ticket" asks *)
(* to be shown something, where "m1's tickets" does not.                                          *)
Said(asks, who, named, said, titled) ==
    {[Plain EXCEPT !.asks = rule, !.ticket = t, !.people = w.people, !.stranger = w.stranger, !.levels = l,
        !.title = titled, !.bare = rule = "none", !.go = rule = "open", !.brief = ~titled /\ (t = Nothing \/ (w.people = {} /\ ~w.stranger /\ l = {}))] :
        rule \in asks, w \in who, t \in named, l \in said}

Both == [people |-> {m1, m2}, stranger |-> FALSE]    \* a name two people have
One == [people |-> {m1}, stranger |-> FALSE]
Other == [people |-> {}, stranger |-> TRUE]        \* a name nobody has
Nobody == [people |-> {}, stranger |-> FALSE]
High == {"hi"}

Heard ==
    {[Plain EXCEPT !.yes = TRUE], [Plain EXCEPT !.aside = TRUE], [Plain EXCEPT !.cue = TRUE],
     [Plain EXCEPT !.nth = 2], [Plain EXCEPT !.without = {m1}], [Plain EXCEPT !.barred = TRUE, !.levels = High]}
    \cup Said({"assign"}, {Both, Other, Nobody}, {t1, Nothing}, {{}}, FALSE)
    \cup Said({"assign"}, {One}, {t1}, {High}, FALSE)
    \cup Said({"set"}, {Nobody}, {t2}, {{}}, FALSE) \cup Said({"set"}, {Nobody}, {Nothing}, {High}, FALSE)
    \cup Said({"create"}, {Both, Other}, {Nothing}, {{}}, FALSE)
    \cup Said({"create"}, {Both, One}, {Nothing}, {High}, TRUE)
    \cup Said({"draft", "this"}, {Nobody}, {Nothing}, {{}}, FALSE)
    \cup Said({"open"}, {Both, One}, {Nothing}, {{}}, FALSE)
    \cup Said({"also"}, {One, Other}, {Nothing}, {{}}, FALSE)
    \cup Said({"list", "none"}, {One}, {Nothing}, {{}}, FALSE)
    \cup Said({"tie"}, {One}, {t1}, {High}, TRUE)
    \cup Said({"none"}, {Nobody}, {Nothing}, {{}, High}, FALSE)
    \cup Said({"none"}, {Nobody}, {t2}, {{}}, FALSE)

(* Where changes need a yes, one thing is otherwise: ticket t1 is open in the client, not t2, or *)
(* t2 or person m1 is gone. When it matters: something is pending, or nothing is remembered yet.  *)
Around ==
    /\ product.confirms # {}
    /\ \/ memory.question # NoQuestion \/ memory.confirmation # NoConfirmation
       \/ memory.focus = Nothing
    /\ Elsewhere
    /\ <<Tickets \ tickets', Folk \ people', selected'>> \in {<<{}, {}, t1>>, <<{}, {}, t2>>, <<{t2}, {}, t2>>, <<{}, {m1}, t2>>}
    /\ <<tickets, people, selected>>' # <<tickets, people, selected>>

(* A request names two things at most, tickets or sets of people, and is asked about one ticket. *)
Turn ==
    \E m \in Messages, skipped \in BOOLEAN, theirs \in {{}, tickets} :
        /\ skipped => m.yes
        /\ theirs = tickets \/ m.asks \in {"open", "also"}
        /\ Say(m, theirs, skipped)
        /\ Cardinality(request'.people) + Cardinality(request'.tickets) <= 2 /\ Cardinality(request'.asked) <= 1

-------------------------------------------------------------------------------
(* What the legacy engine's rules find in messages like the one quoted. *)
On(cues) == [Remark EXCEPT !.cues = cues]
OfTickets(cues) == [Remark EXCEPT !.cues = cues \cup {"verb", "ticket"}, !.feature = "issues"]
Naming(m, who) == [m EXCEPT !.names = who]
Owning(m, who) == [m EXCEPT !.to = who, !.names = @ \cup {who}]

ToldTheAgent ==
    {On({"chat"}), On({"chat", "boundary"}), On({"boundary", "verb"}), On({"vague", "verb"}), On({"all", "verb"}),
     On({}), On({"voice"}), On({"mail"}), Naming(On({"list"}), {m1}),
     [On({"instead"}) EXCEPT !.feature = "issues"], [On({"verb"}) EXCEPT !.feature = "cycles"],
     [On({"change", "it", "verb"}) EXCEPT !.level = TRUE],                              \* make it high
     [OfTickets({"change"}) EXCEPT !.issue = t1, !.level = TRUE],                       \* set LIN-1 to done
     [Naming(OfTickets({"change"}), {m2}) EXCEPT !.whose = {m2}, !.level = TRUE],         \* make m2's ticket high
     [Owning(OfTickets({"assign", "it", "change"}), m1) EXCEPT !.plain = TRUE],          \* assign it to m1
     Owning(OfTickets({"assign", "change"}), m1),                                        \* assign the ticket to m1
     [Owning(Naming(OfTickets({"assign", "change"}), {m1}), m2) EXCEPT !.whose = {m1}],    \* assign m1's ticket to m2
     [Owning(Naming(OfTickets({"assign", "change"}), {m2}), m1) EXCEPT !.plain = TRUE],   \* for m2's, owner is m1
     [Owning(OfTickets({"form", "assign"}), m2) EXCEPT !.plain = TRUE],                  \* open one, assign it to m2
     Owning(OfTickets({"new"}), m1), Owning(OfTickets({"new", "full"}), m1),              \* a new ticket for m1
     Owning(OfTickets({"new", "boundary"}), m1),
     OfTickets({"new", "draft"}), OfTickets({"howAssign", "assign", "question"}), OfTickets({"current"}),
     Naming(OfTickets({}), {m1}), Naming(OfTickets({"many"}), {m1, m2})}

(* Each has a ticket and works here; ticket t2 is gone and m2 has left; a member with both has left. *)
EachOne == [owner |-> (t1 :> m1 @@ t2 :> m2), team |-> {m1, m2}]
OneLeft == [owner |-> (t1 :> m1 @@ t2 :> NoOne), team |-> {m1}]
OwnerLeft == [owner |-> (t1 :> m1 @@ t2 :> m1), team |-> {m2}]

TwoTickets == <<t1, t2>>

(* What is said in a turn that another one overlaps: it asks the model, shows a view, changes a  *)
(* ticket or is asked back.                                                                      *)
Overlapping ==
    {On({}), On({"all", "verb"}), [On({"verb"}) EXCEPT !.feature = "cycles"],
     [OfTickets({"change"}) EXCEPT !.issue = t1, !.level = TRUE]}

(* Ticket t2 may be open in the client. The second asker comes with the second message. *)
AgentReceives ==
    \E r \in Askers, t \in 1 .. LastTurn, m \in Remarks, i \in {t2, NoOne} :
        /\ r = r2 <=> work[r1].at # "idle"
        /\ r = r2 => /\ work[r1].turn # t /\ {m, work[r1].m} \subseteq Overlapping
                     /\ i = NoOne /\ work[r1].selected = NoOne /\ work[r1].seen = EachOne
        /\ work[r].at = "idle" /\ Receive(r, t, m, i)

(* In turns that overlap, the model proposes one change or nothing. *)
AgentServes ==
    \E r \in Askers :
        /\ TurnSteps(r)
        /\ work'[r].byModel /\ (r = r2 \/ work[r2].at # "idle") => work'[r].act \in {NoAct, Act("update", t1, m1, TRUE)}
AgentCancelled == \E t \in 1 .. LastTurn : CancelActive(t)
(* The records change while a turn is served, which goes on with those it read. *)
RecordsChange == stored = EachOne /\ activeTurn # 0 /\ ChangeRecords(OneLeft)

MCInit ==
    /\ DialogueInit /\ selected = t2
    /\ AgentInit /\ stored \in {EachOne, OneLeft, OwnerLeft}
    /\ part \in {"dialogue", "agent"}
    /\ part = "dialogue" => stored = EachOne
    /\ part = "agent" => product = CHOOSE d \in Products : TRUE

MCNext ==
    /\ UNCHANGED part
    /\ \/ part = "dialogue" /\ (Around \/ Turn) /\ UNCHANGED agentVars
       \/ part = "agent" /\ (AgentReceives \/ AgentServes \/ AgentCancelled \/ RecordsChange) /\ UNCHANGED dialogueVars

MCSpec == MCInit /\ [][MCNext]_<<dialogueVars, agentVars, part>>

(* The type invariants of the two modules. *)
TypeOK == DialogueTypeOK /\ AgentTypeOK
=============================================================================
