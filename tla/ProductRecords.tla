--------------------------- MODULE ProductRecords ---------------------------
(***************************************************************************)
(* The records of a product that is only a definition: record_store.py,    *)
(* what a caller sees of them (generic_package.py) and the routes that     *)
(* show, create and change them (main.py), used by the console's forms.    *)
(*                                                                         *)
(* Two kinds of record: books, which areas of the product are anchored at, *)
(* and keepers, which refer to books and belong to the areas of those.     *)
(* Only keepers are written here; nothing deletes a record. The execution  *)
(* key of an assistant's change is TurnLedger's business: a proposal here  *)
(* is one whose key is still usable.                                       *)
(*                                                                         *)
(* A request reads its caller's grant first, on a connection of its own,   *)
(* and is judged with what it read: an administrator may change the grant  *)
(* meanwhile. Only a keyed change looks at the grant in its transaction.   *)
(***************************************************************************)
EXTENDS Integers, Sequences, FiniteSetsExt

CONSTANTS
    Readers,      \* people with a grant on the product
    Areas,        \* record_scopes
    Books,        \* anchor records
    Notes,        \* values of a keeper's own field
    MaxRecords,   \* MAX_RECORDS_PER_SPACE
    MaxVersion    \* bound: the highest revision the model lets an edit reach

ASSUME ProductRecordsAssumption ==
    /\ IsFiniteSet(Books) /\ MaxRecords \in Nat /\ MaxVersion \in Nat \ {0}
    /\ Cardinality(Books) <= MaxRecords + 1  \* the books found space themselves

VARIABLES
    reach,      \* record_grants: what each reader may see
    granted,       \* the grant that a reader's request in hand has read
    anchored,   \* record_scope_anchors: the areas of each book
    keepers,    \* keeper -> its contents, from its first revision to the current one
    proposal,   \* what the assistant may still carry out for each reader
    reading,    \* fields read whose version is still to be read
    form,       \* the record a reader has in a form, as it was shown, and its version
    lastWrite   \* history: how each keeper was last written, and what its author saw and might see
productVars == <<reach, granted, anchored, keepers, proposal, reading, form, lastWrite>>

Content == [books : SUBSET Books, note : Notes]
RecordGrant == [admin : BOOLEAN, areas : SUBSET Areas]
NoGrant == [admin |-> FALSE, areas |-> {}]  \* no row: a request is refused
Blank == [keeper |-> 0]

(* The store keeps the last of a keeper's contents; how many there were is its revision. *)
Keepers == DOMAIN keepers
Held(k) == keepers[k][Len(keepers[k])]
Revision(k) == Len(keepers[k])

(* A product that no area divides shows all its records to whoever reaches it; once areas exist, *)
(* a record without a path to an anchor is visible to no one but an administrator.               *)
SeenWith(grant, content) ==
    \/ grant.admin
    \/ \A b \in Books : anchored[b] = {}
    \/ \E b \in content.books : anchored[b] \cap grant.areas # {}
GrantOf(area) == [admin |-> FALSE, areas |-> {area}]
InArea(area, content) == SeenWith(GrantOf(area), content)
MayUse(grant, area) == grant.admin \/ area \in grant.areas

(* The count is compared before the record is in, so one record more than the limit fits. *)
HasSpace == Cardinality(Keepers) + Cardinality(Books) <= MaxRecords

Wrote(w, how, knew, grant, content) ==
    [how |-> how, knew |-> knew, with |-> grant, reached |-> SeenWith(reach[w], content)]

(* One more than the highest number in use. *)
Minted == Max({0} \cup Keepers) + 1

Insert(content, wrote) ==
    /\ keepers' = [k \in Keepers \cup {Minted} |-> IF k = Minted THEN <<content>> ELSE keepers[k]]
    /\ lastWrite' = [k \in Keepers \cup {Minted} |-> IF k = Minted THEN wrote ELSE lastWrite[k]]

(* Only the fields that are sent are replaced. *)
Merged(changes, content) ==
    [f \in DOMAIN content |-> IF f \in DOMAIN changes THEN changes[f] ELSE content[f]]

Update(k, changes, wrote) ==
    /\ keepers' = [keepers EXCEPT ![k] = Append(@, Merged(changes, Held(k)))]
    /\ lastWrite' = [lastWrite EXCEPT ![k] = wrote]

(* -------------------------------- Grants -------------------------------- *)

(* An administrator changes somebody's role, or removes them: their grants go at once, *)
DropGrant(w) ==
    /\ reach[w] # NoGrant
    /\ reach' = [reach EXCEPT ![w] = NoGrant]
    /\ UNCHANGED <<granted, anchored, keepers, proposal, reading, form, lastWrite>>

(* and those of the new role are given in another transaction, unless there are some by then. *)
GiveGrant(w) ==
    /\ reach[w] = NoGrant
    /\ \E grant \in RecordGrant \ {NoGrant} : reach' = [reach EXCEPT ![w] = grant]
    /\ UNCHANGED <<granted, anchored, keepers, proposal, reading, form, lastWrite>>

(* A request begins: one without a grant is refused here. *)
ReadGrant(w) ==
    /\ granted[w] = NoGrant /\ reach[w] # NoGrant
    /\ granted' = [granted EXCEPT ![w] = reach[w]]
    /\ UNCHANGED <<reach, anchored, keepers, proposal, reading, form, lastWrite>>

Answered(w) == granted' = [granted EXCEPT ![w] = NoGrant]

(* A request that is refused for another reason, or that shows or proposes nothing. *)
TurnAway(w) ==
    /\ granted[w] # NoGrant
    /\ Answered(w)
    /\ UNCHANGED <<reach, anchored, keepers, proposal, reading, form, lastWrite>>

(* ------------------------------- Showing -------------------------------- *)

(* A reader's screen is filled in two reads: what a turn would see, then the versions. *)
ReadFields(w) ==
    \E k \in Keepers :
        /\ granted[w] # NoGrant /\ SeenWith(granted[w], Held(k))
        /\ reading' = [reading EXCEPT ![w] = [keeper |-> k, fields |-> Held(k)]]
        /\ form' = [form EXCEPT ![w] = Blank]
        /\ Answered(w)
        /\ UNCHANGED <<reach, anchored, keepers, proposal, lastWrite>>

ReadVersions(w) ==
    LET r == reading[w]
    IN /\ r # Blank
       /\ form' = [form EXCEPT ![w] = [keeper |-> r.keeper, fields |-> r.fields, version |-> Revision(r.keeper)]]
       /\ reading' = [reading EXCEPT ![w] = Blank]
       /\ UNCHANGED <<reach, granted, anchored, keepers, proposal, lastWrite>>

(* -------------------------- A person's own form ------------------------- *)

(* A form sends what differs from what it showed, and everything if nothing does. *)
Sent(shown, typed) ==
    LET differs == {f \in DOMAIN typed : typed[f] # shown[f]}
    IN [f \in IF differs = {} THEN DOMAIN typed ELSE differs |-> typed[f]]

(* A mutant: an edit is not judged by where it leaves the record. *)
EditIsAcceptedAnywhere(w, k, changes) == SeenWith(granted[w], Held(k)) /\ form[w].version = Revision(k)

(* Judged in the transaction of the change, with the grant read before it: seen before, of this *)
(* version, and seen after.                                                                     *)
EditIsAccepted(w, k, changes) ==
    /\ SeenWith(granted[w], Held(k))
    /\ form[w].version = Revision(k)
    /\ SeenWith(granted[w], Merged(changes, Held(k)))

SubmitEdit(w) ==
    LET shown == form[w]
        k == shown.keeper
    IN /\ granted[w] # NoGrant /\ shown # Blank
       /\ \E typed \in Content :
            LET changes == Sent(shown.fields, typed)
            IN /\ EditIsAccepted(w, k, changes) /\ Revision(k) < MaxVersion
               /\ Update(k, changes, Wrote(w, "form", shown.fields = Held(k), granted[w], Merged(changes, Held(k))))
       /\ form' = [form EXCEPT ![w] = Blank]
       /\ Answered(w)
       /\ UNCHANGED <<reach, anchored, proposal, reading>>

(* A refused edit is shown the record as it is now, read like any other: fields, then version. *)
EditConflicts(w) ==
    LET k == form[w].keeper
    IN /\ granted[w] # NoGrant /\ form[w] # Blank /\ form[w].version # Revision(k)
       /\ form' = [form EXCEPT ![w] = Blank]
       /\ reading' = [reading EXCEPT ![w] =
                        IF SeenWith(granted[w], Held(k)) THEN [keeper |-> k, fields |-> Held(k)] ELSE Blank]
       /\ Answered(w)
       /\ UNCHANGED <<reach, anchored, keepers, proposal, lastWrite>>

CreateDirectly(w) ==
    /\ granted[w] # NoGrant /\ HasSpace
    /\ \E content \in Content :
          /\ SeenWith(granted[w], content)
          /\ Insert(content, Wrote(w, "form", TRUE, granted[w], content))
    /\ Answered(w)
    /\ UNCHANGED <<reach, anchored, proposal, reading, form>>

(* ------------------------ A change of the assistant --------------------- *)

(* What a turn in one workspace may propose: the record, and the books a change refers to, are   *)
(* ones it sees there. A create may leave its books out.                                         *)
Referred(changes) == IF "books" \in DOMAIN changes THEN changes.books ELSE {}
MayPropose(area, p) ==
    /\ \A b \in Referred(p.changes) : InArea(area, [books |-> {b}])
    /\ p.does = "update" =>
          /\ InArea(area, Held(p.keeper))
          /\ "books" \in DOMAIN p.changes => p.changes.books # {}

Proposed ==
    [does : {"create"}, keeper : {0}, changes : Content]
    \cup [does : {"update"}, keeper : Keepers, changes : [books : SUBSET Books] \cup [note : Notes]]

Propose(w) ==
    /\ proposal[w] = <<>>
    /\ \E area \in Areas, p \in Proposed :
          /\ MayUse(granted[w], area) /\ MayPropose(area, p)
          /\ proposal' = [proposal EXCEPT ![w] = <<[area |-> area, does |-> p.does, keeper |-> p.keeper, changes |-> p.changes]>>]
    /\ Answered(w)
    /\ UNCHANGED <<reach, anchored, keepers, reading, form, lastWrite>>

(* Expired, overtaken or withdrawn; also one whose workspace its reader may no longer use, whose *)
(* record has left it, or that finds no room.                                                    *)
Lapse(w) ==
    /\ proposal[w] # <<>>
    /\ proposal' = [proposal EXCEPT ![w] = <<>>]
    /\ UNCHANGED <<reach, granted, anchored, keepers, reading, form, lastWrite>>

(* A keyed create is not judged by where it lands. *)
KeyedCreate(w, p) ==
    /\ p.does = "create" /\ HasSpace
    /\ Insert(p.changes, Wrote(w, "keyed create", TRUE, GrantOf(p.area), p.changes))

(* A keyed change is judged by where the record is, not by its version. *)
KeyedChange(w, p) ==
    /\ p.does = "update" /\ InArea(p.area, Held(p.keeper)) /\ Revision(p.keeper) < MaxVersion
    /\ Update(p.keeper, p.changes,
              Wrote(w, "keyed update", TRUE, GrantOf(p.area), Merged(p.changes, Held(p.keeper))))

(* The grant is read in the transaction of the change. *)
CarryOut(w) ==
    /\ proposal[w] # <<>> /\ MayUse(reach[w], proposal[w][1].area)
    /\ KeyedCreate(w, proposal[w][1]) \/ KeyedChange(w, proposal[w][1])
    /\ proposal' = [proposal EXCEPT ![w] = <<>>]
    /\ UNCHANGED <<reach, granted, anchored, reading, form>>

(* ------------------------------------------------------------------------ *)

ProductRecordsInit ==
    /\ reach \in [Readers -> RecordGrant] /\ granted = [w \in Readers |-> NoGrant]
    /\ anchored \in [Books -> SUBSET Areas]
    /\ keepers = <<>> /\ lastWrite = <<>>
    /\ proposal = [w \in Readers |-> <<>>]
    /\ reading = [w \in Readers |-> Blank] /\ form = [w \in Readers |-> Blank]

ProductRecordsNext ==
    \E w \in Readers :
        \/ DropGrant(w) \/ GiveGrant(w) \/ ReadGrant(w) \/ TurnAway(w)
        \/ ReadFields(w) \/ ReadVersions(w)
        \/ SubmitEdit(w) \/ EditConflicts(w) \/ CreateDirectly(w)
        \/ Propose(w) \/ Lapse(w) \/ CarryOut(w)

ProductRecordsSpec == ProductRecordsInit /\ [][ProductRecordsNext]_productVars

(* ------------------------------ Properties ------------------------------ *)

(* Every variable has its type, and no keeper is newer than its bound. *)
ProductRecordsTypeOK ==
    /\ \A k \in Keepers : \A r \in DOMAIN keepers[k] : keepers[k][r] \in Content
    /\ DOMAIN lastWrite = Keepers
    /\ \A w \in Readers :
          /\ form[w] = Blank \/ form[w].keeper \in Keepers
          /\ Len(proposal[w]) <= 1

(* What a form shows was the record's content, at the version it names or before: never after it. *)
FormsShowThePast ==
    \A w \in Readers : form[w] # Blank =>
        /\ form[w].version <= Revision(form[w].keeper)
        /\ \E r \in 1..form[w].version : keepers[form[w].keeper][r] = form[w].fields

(* A form leaves a record where the grant its request has read sees it: not where that of the     *)
(* moment does, though _direct_record says that nothing can move in between. The assistant, whose *)
(* changes are not looked at again, leaves what it changes in the workspace it was asked in, and  *)
(* where its reader may see it at that moment, whatever was granted or taken since the proposal.  *)
ChangesStayInReach ==
    \A k \in Keepers :
        LET last == lastWrite[k]
        IN /\ last.how \in {"form", "keyed update"} => SeenWith(last.with, Held(k))
           /\ last.how = "keyed update" => last.reached

(* However creates interleave, a space never holds more than one record beyond its limit. *)
SpacesAreBounded == Cardinality(Keepers) + Cardinality(Books) <= MaxRecords + 1

(* The records of a product without code: what is shown, written and counted (record_store.py,   *)
(* main.py: _direct_record, _keyed_record, read_product_records).                                *)
ProductRecordsAreSound == FormsShowThePast /\ ChangesStayInReach /\ SpacesAreBounded

(* An accepted edit replaces what its author was shown, so nobody else's work is lost            *)
(* (main.py, edit_product_record).                                                               *)
NobodysWorkIsLost ==
    \A k \in Keepers : lastWrite[k].knew
=============================================================================
