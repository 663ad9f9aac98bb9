---------------------------- MODULE ProductProofs ----------------------------
(***************************************************************************)
(* A product's records and its definition, for any readers, grants, areas  *)
(* and limits, and for any versions, organizations, teams, conversations   *)
(* and people at work.                                                     *)
(*                                                                         *)
(* ProductRecords: a keeper's contents only grow, so what was read once is *)
(* among them (ReadIsPast), and a form, whose version is read after its    *)
(* fields, shows what the record was at that version or before. The        *)
(* assistant looks at the books of a change when it is proposed and at the *)
(* record when it is carried out; that both stay true in between is what   *)
(* leaves the record in its workspace (ProposalsAreSeen).                  *)
(*                                                                         *)
(* DefinitionLifecycle: what runs was published, because whatever is read  *)
(* before it is written - a binding to come, a pin to be stored - is a     *)
(* version that was published when it was read, and no transition leads    *)
(* back. It is its organization's to use, because the owner of a           *)
(* definition never changes once there is a version. What is read and not  *)
(* yet written therefore is as good as what is written (AllRunnable), and  *)
(* the two are inductive together.                                         *)
(*                                                                         *)
(* RecordsTyped and LifecycleTyped are the types of the two: RowsFit for   *)
(* what is stored or may be, Typed and TalksApart for a definition's life. *)
(***************************************************************************)
EXTENDS DefinitionLifecycle, ProductRecords, FiniteSetTheorems, TLAPS

-----------------------------------------------------------------------------
(* A product's records.                                                    *)

Fields == {"books", "note"}
Values == (SUBSET Books) \cup Notes
Rows == [Fields -> Values]

IsChange(changes) == DOMAIN changes \subseteq Fields /\ \A f \in DOMAIN changes : changes[f] \in Values

(* Nothing deletes a keeper: their numbers have no gap. *)
Stored ==
    /\ \E n \in Nat : Keepers = 1..n
    /\ \A k \in Keepers : keepers[k] \in Seq(Rows) /\ Len(keepers[k]) > 0
    /\ DOMAIN lastWrite = Keepers
    /\ DOMAIN reading = Readers /\ DOMAIN form = Readers /\ DOMAIN proposal = Readers

(* What a reader has read is one of the record's contents so far. *)
ReadIsPast ==
    \A w \in Readers : reading[w] # Blank =>
        /\ reading[w].keeper \in Keepers
        /\ \E r \in 1..Revision(reading[w].keeper) : keepers[reading[w].keeper][r] = reading[w].fields

FormsAreOfKeepers ==
    \A w \in Readers : form[w] # Blank => form[w].keeper \in Keepers /\ form[w].version \in Nat

(* A proposal refers to books seen in its workspace. *)
ProposalsAreSeen ==
    \A w \in Readers : proposal[w] # <<>> =>
        LET p == proposal[w][1]
        IN /\ IsChange(p.changes)
           /\ p.does = "create" => DOMAIN p.changes = Fields /\ p.changes \in Rows
           /\ p.does = "update" =>
                /\ p.keeper \in Keepers
                /\ "books" \in DOMAIN p.changes =>
                      p.changes.books # {} /\ \A b \in p.changes.books : InArea(p.area, [books |-> {b}])

PInv ==
    /\ Stored /\ ReadIsPast /\ FormsAreOfKeepers /\ ProposalsAreSeen
    /\ FormsShowThePast /\ ChangesStayInReach /\ SpacesAreBounded

-----------------------------------------------------------------------------
LEMMA ContentIsRow == Content \subseteq Rows
  BY DEF Content, Rows, Fields, Values

LEMMA MergedIsRow ==
    ASSUME NEW content \in Rows, NEW changes, IsChange(changes)
    PROVE  /\ Merged(changes, content) \in Rows
           /\ Merged(changes, content).books =
                 IF "books" \in DOMAIN changes THEN changes.books ELSE content.books
  BY DEF Merged, Rows, IsChange, Fields

LEMMA MintedIsNew ==
    ASSUME NEW n \in Nat, Keepers = 1..n
    PROVE  Minted = n + 1
<1>1. n \in {0} \cup Keepers /\ \A y \in {0} \cup Keepers : n >= y
  OBVIOUS
<1>2. Max({0} \cup Keepers) \in {0} \cup Keepers /\ \A y \in {0} \cup Keepers : Max({0} \cup Keepers) >= y
  <2> DEFINE S == {0} \cup Keepers
  <2>1. \E x \in S : \A y \in S : x >= y
    BY <1>1
  <2>2. (CHOOSE x \in S : \A y \in S : x >= y) \in S /\ \A z \in S : (CHOOSE x \in S : \A y \in S : x >= y) >= z
    BY <2>1
  <2> QED
    BY <2>2 DEF Max
<1>3. ASSUME NEW m \in {0} \cup Keepers, \A y \in {0} \cup Keepers : m >= y
      PROVE  m = n
  <2>1. m \in Int /\ m >= n /\ n >= m
    BY <1>1, <1>3
  <2> QED
    BY <2>1
<1>4. Max({0} \cup Keepers) = n
  BY <1>2, <1>3
<1> QED
  BY <1>4 DEF Minted

LEMMA InitPInv == ProductRecordsInit => PInv
<1> SUFFICES ASSUME ProductRecordsInit PROVE PInv
  OBVIOUS
<1> USE DEF ProductRecordsInit
<1>1. Keepers = {} /\ Keepers = 1..0 /\ DOMAIN lastWrite = {}
  BY DEF Keepers
<1>2. Stored
  BY <1>1 DEF Stored
<1>3. ReadIsPast /\ FormsAreOfKeepers /\ ProposalsAreSeen /\ FormsShowThePast /\ ChangesStayInReach
  BY <1>1 DEF ReadIsPast, FormsAreOfKeepers, ProposalsAreSeen, FormsShowThePast, ChangesStayInReach
<1>4. SpacesAreBounded
  BY <1>1, FS_EmptySet, FS_CardinalityType, ProductRecordsAssumption DEF SpacesAreBounded
<1> QED
  BY <1>2, <1>3, <1>4 DEF PInv

-----------------------------------------------------------------------------
(* Nothing that was stored is lost or rewritten. *)
Grown ==
    \A k \in Keepers :
        /\ k \in Keepers'
        /\ Len(keepers[k]) <= Len(keepers'[k])
        /\ \A r \in 1..Len(keepers[k]) : keepers'[k][r] = keepers[k][r]

LEMMA Updated ==
    ASSUME Stored, NEW k \in Keepers, NEW changes, IsChange(changes), NEW wrote, Update(k, changes, wrote)
    PROVE  /\ Keepers' = Keepers /\ Grown
           /\ keepers'[k] \in Seq(Rows) /\ Len(keepers'[k]) > 0
           /\ keepers'[k][Len(keepers'[k])] = Merged(changes, Held(k)) /\ Held(k) \in Rows
           /\ lastWrite'[k] = wrote /\ DOMAIN lastWrite' = Keepers
           /\ \A j \in Keepers \ {k} : keepers'[j] = keepers[j] /\ lastWrite'[j] = lastWrite[j]
<1>1. keepers[k] \in Seq(Rows) /\ Len(keepers[k]) > 0
  BY DEF Stored
<1>2. Held(k) \in Rows
  BY <1>1 DEF Held
<1>3. Merged(changes, Held(k)) \in Rows
  BY <1>2, MergedIsRow
<1>4. /\ keepers'[k] = Append(keepers[k], Merged(changes, Held(k))) /\ DOMAIN keepers' = DOMAIN keepers
      /\ lastWrite'[k] = wrote /\ DOMAIN lastWrite' = Keepers
      /\ \A j \in Keepers \ {k} : keepers'[j] = keepers[j] /\ lastWrite'[j] = lastWrite[j]
  BY DEF Update, Stored, Keepers
<1>5. /\ keepers'[k] \in Seq(Rows) /\ Len(keepers'[k]) = Len(keepers[k]) + 1
      /\ keepers'[k][Len(keepers'[k])] = Merged(changes, Held(k))
      /\ \A r \in 1..Len(keepers[k]) : keepers'[k][r] = keepers[k][r]
  BY <1>1, <1>3, <1>4
<1>6. \A j \in Keepers : Len(keepers[j]) \in Nat
  BY DEF Stored
<1>7. Grown
  BY <1>4, <1>5, <1>6 DEF Grown, Keepers
<1> QED
  BY <1>1, <1>2, <1>4, <1>5, <1>7 DEF Keepers

LEMMA Inserted ==
    ASSUME Stored, NEW content \in Rows, NEW wrote, Insert(content, wrote)
    PROVE  /\ Minted \notin Keepers /\ Keepers' = Keepers \cup {Minted} /\ Grown
           /\ keepers'[Minted] = <<content>>
           /\ lastWrite'[Minted] = wrote /\ DOMAIN lastWrite' = Keepers'
           /\ \A j \in Keepers : keepers'[j] = keepers[j] /\ lastWrite'[j] = lastWrite[j]
           /\ \E n \in Nat : Keepers = 1..n /\ Keepers' = 1..(n + 1)
<1>1. PICK n \in Nat : Keepers = 1..n
  BY DEF Stored
<1>2. Minted = n + 1
  BY <1>1, MintedIsNew
<1>3. /\ Minted \notin Keepers /\ Keepers' = Keepers \cup {Minted}
      /\ keepers'[Minted] = <<content>>
      /\ lastWrite'[Minted] = wrote /\ DOMAIN lastWrite' = Keepers'
      /\ \A j \in Keepers : keepers'[j] = keepers[j] /\ lastWrite'[j] = lastWrite[j]
  BY <1>1, <1>2 DEF Insert, Keepers
<1>4. Keepers' = 1..(n + 1)
  BY <1>1, <1>2, <1>3
<1>5. \A j \in Keepers : Len(keepers[j]) \in Nat
  BY DEF Stored
<1>6. Grown
  BY <1>3, <1>5 DEF Grown
<1> QED
  BY <1>1, <1>3, <1>4, <1>6

-----------------------------------------------------------------------------
(* A write leaves what has been read, and what the forms it does not close show, in the past. *)
LEMMA ReadsOutliveWrites ==
    ASSUME Stored, Stored', Grown, ReadIsPast, FormsAreOfKeepers, FormsShowThePast,
           reading' = reading, \A w \in Readers : form'[w] \in {Blank, form[w]}
    PROVE  ReadIsPast' /\ FormsAreOfKeepers' /\ FormsShowThePast'
<1>1. \A k \in Keepers : Len(keepers[k]) \in Nat /\ Len(keepers'[k]) \in Nat
  BY DEF Stored, Grown
<1>2. ReadIsPast'
  <2> SUFFICES ASSUME NEW w \in Readers, reading[w] # Blank
               PROVE  /\ reading[w].keeper \in Keepers'
                      /\ \E r \in 1..Len(keepers'[reading[w].keeper]) :
                            keepers'[reading[w].keeper][r] = reading[w].fields
    BY DEF ReadIsPast, Revision, Blank
  <2> DEFINE k == reading[w].keeper
  <2>1. PICK r \in 1..Len(keepers[k]) : keepers[k][r] = reading[w].fields
    BY DEF ReadIsPast, Revision
  <2>2. k \in Keepers
    BY DEF ReadIsPast
  <2>3. k \in Keepers' /\ keepers'[k][r] = reading[w].fields /\ Len(keepers[k]) <= Len(keepers'[k])
    BY <2>1, <2>2 DEF Grown
  <2>4. r \in 1..Len(keepers'[k])
    BY <1>1, <2>2, <2>3
  <2> QED
    BY <2>3, <2>4
<1>3. FormsAreOfKeepers'
  BY DEF FormsAreOfKeepers, Grown, Blank
<1>4. FormsShowThePast'
  <2> SUFFICES ASSUME NEW w \in Readers, form'[w] # Blank
               PROVE  /\ form'[w].version <= Len(keepers'[form'[w].keeper])
                      /\ \E r \in 1..form'[w].version : keepers'[form'[w].keeper][r] = form'[w].fields
    BY DEF FormsShowThePast, Revision, Blank
  <2> DEFINE k == form[w].keeper
  <2>1. form'[w] = form[w] /\ k \in Keepers /\ form[w].version \in Nat
    BY DEF FormsAreOfKeepers
  <2>2. form[w].version <= Len(keepers[k]) /\ \E r \in 1..form[w].version : keepers[k][r] = form[w].fields
    BY <2>1 DEF FormsShowThePast, Revision
  <2>3. PICK r \in 1..form[w].version : keepers[k][r] = form[w].fields
    BY <2>2
  <2>4. r \in 1..Len(keepers[k])
    BY <1>1, <2>1, <2>2
  <2>5. keepers'[k][r] = form[w].fields /\ Len(keepers[k]) <= Len(keepers'[k])
    BY <2>1, <2>3, <2>4 DEF Grown
  <2>6. form[w].version <= Len(keepers'[k])
    BY <1>1, <2>1, <2>2, <2>5
  <2> QED
    BY <2>1, <2>3, <2>5, <2>6
<1> QED
  BY <1>2, <1>3, <1>4

(* Where one record was written, the others stay where they were put. *)
LEMMA OthersStayInReach ==
    ASSUME ChangesStayInReach, anchored' = anchored, NEW k,
           Keepers' \subseteq Keepers \cup {k},
           \A j \in Keepers \ {k} : keepers'[j] = keepers[j] /\ lastWrite'[j] = lastWrite[j],
           lastWrite'[k].how \in {"form", "keyed update"} =>
               SeenWith(lastWrite'[k].with, keepers'[k][Len(keepers'[k])]),
           lastWrite'[k].how = "keyed update" => lastWrite'[k].reached
    PROVE  ChangesStayInReach'
<1>1. ASSUME NEW j \in Keepers', lastWrite'[j].how \in {"form", "keyed update"}
      PROVE  SeenWith(lastWrite[j].with, Held(j))'
  <2>1. SeenWith(lastWrite'[j].with, keepers'[j][Len(keepers'[j])])
    <3>1. CASE j = k
      BY <1>1, <3>1
    <3>2. CASE j # k
      BY <1>1, <3>2 DEF ChangesStayInReach, Held
    <3> QED
      BY <3>1, <3>2
  <2> QED
    BY <2>1 DEF SeenWith, Held
<1>2. ASSUME NEW j \in Keepers', lastWrite'[j].how = "keyed update"
      PROVE  lastWrite'[j].reached
  <2>1. CASE j = k
    BY <1>2, <2>1
  <2>2. CASE j # k
    BY <1>2, <2>2 DEF ChangesStayInReach
  <2> QED
    BY <2>1, <2>2
<1> QED
  BY <1>1, <1>2 DEF ChangesStayInReach

LEMMA UntouchedStayInReach ==
    ASSUME ChangesStayInReach, UNCHANGED <<anchored, keepers, lastWrite>>
    PROVE  ChangesStayInReach'
<1>1. ASSUME NEW j \in Keepers', lastWrite'[j].how \in {"form", "keyed update"}
      PROVE  SeenWith(lastWrite[j].with, Held(j))'
  <2>1. SeenWith(lastWrite[j].with, Held(j))
    BY <1>1 DEF ChangesStayInReach, Keepers
  <2> QED
    BY <2>1 DEF SeenWith, Held
<1>2. ASSUME NEW j \in Keepers', lastWrite'[j].how = "keyed update"
      PROVE  lastWrite'[j].reached
  BY <1>2 DEF ChangesStayInReach, Keepers
<1> QED
  BY <1>1, <1>2 DEF ChangesStayInReach

(* A proposal is withdrawn or stays, and refers to what it referred to. *)
LEMMA ProposalsKept ==
    ASSUME ProposalsAreSeen, anchored' = anchored, Keepers \subseteq Keepers',
           \A w \in Readers : proposal'[w] \in {<<>>, proposal[w]}
    PROVE  ProposalsAreSeen'
<1> SUFFICES ASSUME NEW w \in Readers, proposal[w] # <<>>, proposal'[w] = proposal[w]
             PROVE  LET p == proposal[w][1]
                    IN /\ IsChange(p.changes)
                       /\ p.does = "create" => DOMAIN p.changes = Fields /\ p.changes \in Rows
                       /\ p.does = "update" =>
                            /\ p.keeper \in Keepers'
                            /\ "books" \in DOMAIN p.changes =>
                                  /\ p.changes.books # {}
                                  /\ \A b \in p.changes.books : InArea(p.area, [books |-> {b}])
  BY DEF ProposalsAreSeen, InArea, SeenWith, IsChange, Fields, Values, Rows
<1> QED
  BY DEF ProposalsAreSeen

(* One record more, where there was space. *)
LEMMA InsertedFits ==
    ASSUME HasSpace, NEW n \in Nat, Keepers = 1..n, Keepers' = 1..(n + 1)
    PROVE  SpacesAreBounded'
<1>1. Cardinality(Keepers) = n /\ Cardinality(Keepers') = n + 1
  <2>1. Cardinality(1..n) = n
    BY FS_Interval
  <2>2. Cardinality(1..(n + 1)) = n + 1
    BY FS_Interval
  <2> QED
    BY <2>1, <2>2
<1>2. Cardinality(Books) \in Nat /\ MaxRecords \in Nat
  BY FS_CardinalityType, ProductRecordsAssumption
<1> QED
  BY <1>1, <1>2 DEF HasSpace, SpacesAreBounded

-----------------------------------------------------------------------------
(* What is left to show of a write once Updated or Inserted has said what it stores. *)
LEMMA WriteKeepsPInv ==
    ASSUME PInv, Stored', Grown, ChangesStayInReach', SpacesAreBounded',
           reading' = reading, anchored' = anchored,
           \A w \in Readers : form'[w] \in {Blank, form[w]},
           \A w \in Readers : proposal'[w] \in {<<>>, proposal[w]}
    PROVE  PInv'
<1>1. ReadIsPast' /\ FormsAreOfKeepers' /\ FormsShowThePast'
  BY ReadsOutliveWrites DEF PInv
<1>2. Keepers \subseteq Keepers'
  BY DEF Grown
<1>3. ProposalsAreSeen'
  BY <1>2, ProposalsKept DEF PInv
<1> QED
  BY <1>1, <1>3 DEF PInv

(* The content of a written record is judged where the write lands. *)
Lands(wrote, content) ==
    /\ wrote.how \in {"form", "keyed update"} => SeenWith(wrote.with, content)
    /\ wrote.how = "keyed update" => wrote.reached

LEMMA UpdateKeepsPInv ==
    ASSUME PInv, NEW k \in Keepers, NEW changes, IsChange(changes), NEW wrote, Update(k, changes, wrote),
           Lands(wrote, Merged(changes, Held(k))),
           anchored' = anchored, reading' = reading,
           DOMAIN form' = Readers, DOMAIN proposal' = Readers,
           \A w \in Readers : form'[w] \in {Blank, form[w]},
           \A w \in Readers : proposal'[w] \in {<<>>, proposal[w]}
    PROVE  PInv'
<1>1. /\ Keepers' = Keepers /\ Grown
      /\ keepers'[k] \in Seq(Rows) /\ Len(keepers'[k]) > 0
      /\ keepers'[k][Len(keepers'[k])] = Merged(changes, Held(k))
      /\ lastWrite'[k] = wrote /\ DOMAIN lastWrite' = Keepers
      /\ \A j \in Keepers \ {k} : keepers'[j] = keepers[j] /\ lastWrite'[j] = lastWrite[j]
  BY Updated DEF PInv
<1>2. Stored'
  BY <1>1 DEF PInv, Stored
<1>3. ChangesStayInReach'
  BY <1>1, OthersStayInReach, ZenonT(60) DEF PInv, Lands
<1>4. SpacesAreBounded'
  BY <1>1 DEF PInv, SpacesAreBounded
<1> QED
  BY <1>1, <1>2, <1>3, <1>4, WriteKeepsPInv

LEMMA InsertKeepsPInv ==
    ASSUME PInv, HasSpace, NEW content \in Rows, NEW wrote, Insert(content, wrote), Lands(wrote, content),
           anchored' = anchored, reading' = reading,
           DOMAIN form' = Readers, DOMAIN proposal' = Readers,
           \A w \in Readers : form'[w] \in {Blank, form[w]},
           \A w \in Readers : proposal'[w] \in {<<>>, proposal[w]}
    PROVE  PInv'
<1>1. /\ Minted \notin Keepers /\ Keepers' = Keepers \cup {Minted} /\ Grown
      /\ keepers'[Minted] = <<content>>
      /\ lastWrite'[Minted] = wrote /\ DOMAIN lastWrite' = Keepers'
      /\ \A j \in Keepers : keepers'[j] = keepers[j] /\ lastWrite'[j] = lastWrite[j]
      /\ \E n \in Nat : Keepers = 1..n /\ Keepers' = 1..(n + 1)
  BY Inserted DEF PInv
<1>2. PICK n \in Nat : Keepers = 1..n /\ Keepers' = 1..(n + 1)
  BY <1>1
<1>3. <<content>> \in Seq(Rows) /\ Len(<<content>>) = 1 /\ <<content>>[1] = content
  OBVIOUS
<1>4. \A j \in Keepers' : keepers'[j] \in Seq(Rows) /\ Len(keepers'[j]) > 0
  <2>1. keepers'[Minted] \in Seq(Rows) /\ Len(keepers'[Minted]) > 0
    BY <1>1, <1>3
  <2>2. \A j \in Keepers : keepers[j] \in Seq(Rows) /\ Len(keepers[j]) > 0
    BY DEF PInv, Stored
  <2> QED
    BY <1>1, <2>1, <2>2
<1>5. Stored'
  BY <1>1, <1>2, <1>4 DEF PInv, Stored
<1>6. ChangesStayInReach'
  <2>1. keepers'[Minted][Len(keepers'[Minted])] = content
    BY <1>1, <1>3
  <2> QED
    BY <1>1, <2>1, OthersStayInReach DEF PInv, Lands
<1>7. SpacesAreBounded'
  BY <1>2, InsertedFits
<1> QED
  BY <1>1, <1>5, <1>6, <1>7, WriteKeepsPInv

-----------------------------------------------------------------------------
(* The reads: a version read now is that of a record whose contents include the fields read before. *)
LEMMA ReadsKeepPInv ==
    ASSUME PInv, NEW w \in Readers, ReadFields(w) \/ ReadVersions(w) \/ EditConflicts(w)
    PROVE  PInv'
<1> USE DEF PInv
<1>1. UNCHANGED <<anchored, keepers, proposal, lastWrite>>
  BY DEF ReadFields, ReadVersions, EditConflicts
<1>2. Stored'
  BY <1>1 DEF Stored, Keepers, ReadFields, ReadVersions, EditConflicts
<1>3. ProposalsAreSeen' /\ ChangesStayInReach' /\ SpacesAreBounded'
  <2>1. Keepers' = Keepers
    BY <1>1 DEF Keepers
  <2> QED
    BY <1>1, <2>1, ProposalsKept, UntouchedStayInReach DEF SpacesAreBounded
<1>4. ASSUME NEW k \in Keepers
      PROVE  k \in Keepers' /\ Len(keepers[k]) \in Nat \ {0} /\ Len(keepers[k]) \in 1..Len(keepers[k])
  <2>1. Len(keepers[k]) \in Nat /\ Len(keepers[k]) > 0
    BY DEF Stored
  <2> QED
    BY <1>1, <2>1 DEF Keepers
<1>5. /\ \A v \in Readers : reading'[v] \in {Blank, reading[v]}
                \/ \E k \in Keepers : reading'[v] = [keeper |-> k, fields |-> keepers[k][Len(keepers[k])]]
      /\ \A v \in Readers : form'[v] \in {Blank, form[v]}
                \/ /\ reading[v] # Blank
                   /\ form'[v] = [keeper |-> reading[v].keeper, fields |-> reading[v].fields,
                                  version |-> Len(keepers[reading[v].keeper])]
  <2>1. CASE ReadFields(w)
    BY <2>1 DEF ReadFields, Stored, Held
  <2>2. CASE ReadVersions(w)
    BY <2>2 DEF ReadVersions, Stored, Revision
  <2>3. CASE EditConflicts(w)
    BY <2>3 DEF EditConflicts, Stored, FormsAreOfKeepers, Held
  <2> QED
    BY <2>1, <2>2, <2>3
<1>6. ReadIsPast'
  <2> SUFFICES ASSUME NEW v \in Readers, reading'[v] # Blank
               PROVE  /\ reading'[v].keeper \in Keepers'
                      /\ \E r \in 1..Len(keepers[reading'[v].keeper]) :
                            keepers[reading'[v].keeper][r] = reading'[v].fields
    BY <1>1 DEF ReadIsPast, Revision, Blank
  <2>1. CASE reading'[v] = reading[v]
    BY <1>4, <2>1 DEF ReadIsPast, Revision
  <2>2. CASE \E k \in Keepers : reading'[v] = [keeper |-> k, fields |-> keepers[k][Len(keepers[k])]]
    <3>1. PICK k \in Keepers : reading'[v] = [keeper |-> k, fields |-> keepers[k][Len(keepers[k])]]
      BY <2>2
    <3> QED
      BY <1>4, <3>1
  <2> QED
    BY <1>5, <2>1, <2>2
<1>7. ASSUME NEW v \in Readers, form'[v] # Blank
      PROVE  /\ form'[v].keeper \in Keepers' /\ form'[v].version \in Nat
             /\ form'[v].version <= Len(keepers[form'[v].keeper])
             /\ \E r \in 1..form'[v].version : keepers[form'[v].keeper][r] = form'[v].fields
  <2>1. CASE form'[v] = form[v]
    BY <1>4, <1>7, <2>1 DEF FormsShowThePast, FormsAreOfKeepers, Revision
  <2>2. CASE /\ reading[v] # Blank
             /\ form'[v] = [keeper |-> reading[v].keeper, fields |-> reading[v].fields,
                            version |-> Len(keepers[reading[v].keeper])]
    <3>1. /\ reading[v].keeper \in Keepers
          /\ \E r \in 1..Len(keepers[reading[v].keeper]) : keepers[reading[v].keeper][r] = reading[v].fields
      BY <2>2 DEF ReadIsPast, Revision
    <3> QED
      BY <1>4, <2>2, <3>1
  <2> QED
    BY <1>5, <1>7, <2>1, <2>2
<1>8. FormsAreOfKeepers' /\ FormsShowThePast'
  BY <1>1, <1>7 DEF FormsAreOfKeepers, FormsShowThePast, Revision, Blank
<1> QED
  BY <1>2, <1>3, <1>6, <1>8

(* A proposal is made of books that its workspace sees. *)
LEMMA ProposeKeepsPInv ==
    ASSUME PInv, NEW w \in Readers, Propose(w)
    PROVE  PInv'
<1> USE DEF PInv
<1>1. UNCHANGED <<anchored, keepers, reading, form, lastWrite>>
  BY DEF Propose
<1>2. Stored' /\ ReadIsPast' /\ FormsAreOfKeepers' /\ SpacesAreBounded'
  BY <1>1 DEF Stored, ReadIsPast, FormsAreOfKeepers, SpacesAreBounded, Keepers, Revision, Propose, Blank
<1>3. FormsShowThePast'
  BY <1>1 DEF FormsShowThePast, Revision, Blank
<1>4. ChangesStayInReach'
  BY <1>1, UntouchedStayInReach
<1>5. PICK area \in Areas, p \in Proposed :
          /\ MayPropose(area, p)
          /\ proposal' = [proposal EXCEPT ![w] = <<[area |-> area, does |-> p.does, keeper |-> p.keeper, changes |-> p.changes]>>]
  BY DEF Propose
<1>6. /\ IsChange(p.changes)
      /\ p.does = "create" => DOMAIN p.changes = Fields /\ p.changes \in Rows
      /\ p.does = "update" =>
            /\ p.keeper \in Keepers
            /\ "books" \in DOMAIN p.changes =>
                  p.changes.books # {} /\ \A b \in p.changes.books : InArea(area, [books |-> {b}])
  <2>1. CASE p \in [does : {"create"}, keeper : {0}, changes : Content]
    <3>1. p.does = "create" /\ p.changes \in Rows
      BY <2>1, ContentIsRow
    <3>2. DOMAIN p.changes = Fields /\ \A f \in Fields : p.changes[f] \in Values
      BY <3>1 DEF Rows
    <3> QED
      BY <3>1, <3>2 DEF IsChange
  <2>2. CASE p \in [does : {"update"}, keeper : Keepers, changes : [books : SUBSET Books] \cup [note : Notes]]
    <3>1. p.does = "update" /\ p.keeper \in Keepers
      BY <2>2
    <3>2. p.changes \in [books : SUBSET Books] \cup [note : Notes]
      BY <2>2
    <3>3. IsChange(p.changes)
      BY <3>2 DEF IsChange, Fields, Values
    <3>4. "books" \in DOMAIN p.changes =>
              p.changes.books # {} /\ \A b \in p.changes.books : InArea(area, [books |-> {b}])
      BY <1>5, <3>1 DEF MayPropose, Referred
    <3> QED
      BY <3>1, <3>3, <3>4
  <2> QED
    BY <2>1, <2>2 DEF Proposed
<1>7. ProposalsAreSeen'
  <2> SUFFICES ASSUME NEW v \in Readers, proposal'[v] # <<>>
               PROVE  LET q == proposal'[v][1]
                      IN /\ IsChange(q.changes)
                         /\ q.does = "create" => DOMAIN q.changes = Fields /\ q.changes \in Rows
                         /\ q.does = "update" =>
                              /\ q.keeper \in Keepers
                              /\ "books" \in DOMAIN q.changes =>
                                    /\ q.changes.books # {}
                                    /\ \A b \in q.changes.books : InArea(q.area, [books |-> {b}])
    BY <1>1 DEF ProposalsAreSeen, InArea, SeenWith, IsChange, Fields, Values, Rows, Keepers
  <2>1. CASE v = w
    BY <1>5, <1>6, <2>1 DEF Stored
  <2>2. CASE v # w
    BY <1>5, <2>2 DEF ProposalsAreSeen, Stored
  <2> QED
    BY <2>1, <2>2
<1> QED
  BY <1>2, <1>3, <1>4, <1>7

-----------------------------------------------------------------------------
(* An accepted edit is seen by its author where it leaves the record. *)
LEMMA SubmitEditKeepsPInv ==
    ASSUME PInv, NEW w \in Readers, SubmitEdit(w)
    PROVE  PInv'
<1> DEFINE k == form[w].keeper
<1>1. k \in Keepers /\ DOMAIN form = Readers /\ DOMAIN proposal = Readers
  BY DEF PInv, FormsAreOfKeepers, Stored, SubmitEdit
<1>2. PICK typed \in Content :
          /\ EditIsAccepted(w, k, Sent(form[w].fields, typed))
          /\ Update(k, Sent(form[w].fields, typed), Wrote(w, "form", form[w].fields = Held(k), granted[w],
                            Merged(Sent(form[w].fields, typed), Held(k))))
  BY DEF SubmitEdit
<1> DEFINE changes == Sent(form[w].fields, typed)
           wrote == Wrote(w, "form", form[w].fields = Held(k), granted[w], Merged(changes, Held(k)))
<1>3. IsChange(changes)
  <2>1. DOMAIN typed = Fields /\ \A f \in Fields : typed[f] \in Values
    BY ContentIsRow DEF Rows
  <2> QED
    BY <2>1 DEF Sent, IsChange
<1>4. Lands(wrote, Merged(changes, Held(k)))
  BY <1>2 DEF EditIsAccepted, Wrote, Lands
<1>5. UNCHANGED <<anchored, proposal, reading>> /\ form' = [form EXCEPT ![w] = Blank]
  BY DEF SubmitEdit
<1>6. /\ DOMAIN form' = Readers /\ DOMAIN proposal' = Readers
      /\ \A v \in Readers : form'[v] \in {Blank, form[v]} /\ proposal'[v] \in {<<>>, proposal[v]}
  BY <1>1, <1>5
<1>7. Update(k, changes, wrote)
  BY <1>2
<1> HIDE DEF k, changes, wrote
<1> QED
  BY <1>1, <1>3, <1>4, <1>5, <1>6, <1>7, UpdateKeepsPInv

LEMMA CreateDirectlyKeepsPInv ==
    ASSUME PInv, NEW w \in Readers, CreateDirectly(w)
    PROVE  PInv'
<1>1. PICK content \in Content :
          SeenWith(granted[w], content) /\ Insert(content, Wrote(w, "form", TRUE, granted[w], content))
  BY DEF CreateDirectly
<1>2. HasSpace /\ UNCHANGED <<anchored, proposal, reading, form>>
  BY DEF CreateDirectly
<1>3. content \in Rows /\ Lands(Wrote(w, "form", TRUE, granted[w], content), content)
  BY <1>1, ContentIsRow DEF Wrote, Lands
<1>4. /\ DOMAIN form' = Readers /\ DOMAIN proposal' = Readers
      /\ \A v \in Readers : form'[v] \in {Blank, form[v]} /\ proposal'[v] \in {<<>>, proposal[v]}
  BY <1>2 DEF PInv, Stored
<1> QED
  BY <1>1, <1>2, <1>3, <1>4, InsertKeepsPInv

LEMMA LapseKeepsPInv ==
    ASSUME PInv, NEW w \in Readers, Lapse(w)
    PROVE  PInv'
<1> USE DEF PInv
<1>1. UNCHANGED <<anchored, keepers, reading, form, lastWrite>>
      /\ proposal' = [proposal EXCEPT ![w] = <<>>]
  BY DEF Lapse
<1>2. Keepers' = Keepers /\ \A v \in Readers : proposal'[v] \in {<<>>, proposal[v]}
  BY <1>1 DEF Keepers, Stored
<1>3. Stored' /\ ReadIsPast' /\ FormsAreOfKeepers' /\ SpacesAreBounded'
  BY <1>1 DEF Stored, ReadIsPast, FormsAreOfKeepers, SpacesAreBounded, Keepers, Revision, Blank
<1>4. FormsShowThePast'
  BY <1>1 DEF FormsShowThePast, Revision, Blank
<1>5. ProposalsAreSeen' /\ ChangesStayInReach'
  BY <1>1, <1>2, ProposalsKept, UntouchedStayInReach
<1> QED
  BY <1>3, <1>4, <1>5

(* A record that is in a workspace stays there if the books it is moved to were seen there. *)
LEMMA MovedWithinWorkspace ==
    ASSUME NEW area, NEW content \in Rows, InArea(area, content), NEW changes, IsChange(changes),
           "books" \in DOMAIN changes =>
               changes.books # {} /\ \A b \in changes.books : InArea(area, [books |-> {b}])
    PROVE  InArea(area, Merged(changes, content))
<1>1. CASE "books" \in DOMAIN changes
  <2>1. Merged(changes, content).books = changes.books
    BY <1>1, MergedIsRow
  <2>2. PICK b \in changes.books : InArea(area, [books |-> {b}])
    BY <1>1
  <2>3. (\A c \in Books : anchored[c] = {}) \/ anchored[b] \cap {area} # {}
    BY <2>2 DEF InArea, SeenWith, GrantOf
  <2> QED
    BY <2>1, <2>3 DEF InArea, SeenWith, GrantOf
<1>2. CASE "books" \notin DOMAIN changes
  BY <1>2, MergedIsRow DEF InArea, SeenWith
<1> QED
  BY <1>1, <1>2

LEMMA CarryOutKeepsPInv ==
    ASSUME PInv, NEW w \in Readers, CarryOut(w)
    PROVE  PInv'
<1> DEFINE p == proposal[w][1]
<1>1. UNCHANGED <<anchored, reading, form>> /\ proposal' = [proposal EXCEPT ![w] = <<>>]
  BY DEF CarryOut
<1>2. /\ DOMAIN form' = Readers /\ DOMAIN proposal' = Readers
      /\ \A v \in Readers : form'[v] \in {Blank, form[v]} /\ proposal'[v] \in {<<>>, proposal[v]}
  BY <1>1 DEF PInv, Stored
<1>3. /\ IsChange(p.changes)
      /\ p.does = "create" => DOMAIN p.changes = Fields /\ p.changes \in Rows
      /\ p.does = "update" =>
            /\ p.keeper \in Keepers
            /\ "books" \in DOMAIN p.changes =>
                  p.changes.books # {} /\ \A b \in p.changes.books : InArea(p.area, [books |-> {b}])
  BY DEF PInv, ProposalsAreSeen, CarryOut
<1>0. MayUse(reach[w], p.area)
  BY DEF CarryOut
<1>4. KeyedCreate(w, p) \/ KeyedChange(w, p)
  BY DEF CarryOut
<1> HIDE DEF p
<1>5. CASE KeyedCreate(w, p)
  <2>1. HasSpace /\ p.changes \in Rows /\ Insert(p.changes, Wrote(w, "keyed create", TRUE, GrantOf(p.area), p.changes))
    BY <1>3, <1>5 DEF KeyedCreate
  <2>2. Lands(Wrote(w, "keyed create", TRUE, GrantOf(p.area), p.changes), p.changes)
    BY DEF Wrote, Lands
  <2> QED
    BY <1>1, <1>2, <2>1, <2>2, InsertKeepsPInv
<1>6. CASE KeyedChange(w, p)
  <2> DEFINE wrote == Wrote(w, "keyed update", TRUE, GrantOf(p.area), Merged(p.changes, Held(p.keeper)))
  <2>1. /\ p.keeper \in Keepers /\ InArea(p.area, Held(p.keeper))
        /\ Update(p.keeper, p.changes, wrote)
    BY <1>3, <1>6 DEF KeyedChange
  <2>2. Held(p.keeper) \in Rows
    BY <1>3, <2>1, Updated DEF PInv
  <2>3. InArea(p.area, Merged(p.changes, Held(p.keeper)))
    BY <1>3, <1>6, <2>1, <2>2, MovedWithinWorkspace DEF KeyedChange
  <2>4. SeenWith(reach[w], Merged(p.changes, Held(p.keeper)))
    BY <1>0, <2>3 DEF MayUse, InArea, GrantOf, SeenWith
  <2>5. Lands(wrote, Merged(p.changes, Held(p.keeper)))
    BY <2>3, <2>4 DEF Wrote, Lands, InArea
  <2> HIDE DEF wrote
  <2> QED
    BY <1>1, <1>2, <1>3, <2>1, <2>5, UpdateKeepsPInv
<1> QED
  BY <1>4, <1>5, <1>6

-----------------------------------------------------------------------------
(* A request that begins or is refused, and a grant that changes, leave the records alone. *)
LEMMA GrantsKeepPInv ==
    ASSUME PInv, UNCHANGED <<anchored, keepers, proposal, reading, form, lastWrite>>
    PROVE  PInv'
<1> USE DEF PInv
<1>1. Keepers' = Keepers
  BY DEF Keepers
<1>2. Stored' /\ ReadIsPast' /\ FormsAreOfKeepers' /\ SpacesAreBounded'
  BY DEF Stored, ReadIsPast, FormsAreOfKeepers, SpacesAreBounded, Keepers, Revision, Blank
<1>3. FormsShowThePast'
  BY DEF FormsShowThePast, Revision, Blank
<1>4. ProposalsAreSeen' /\ ChangesStayInReach'
  BY <1>1, ProposalsKept, UntouchedStayInReach
<1> QED
  BY <1>2, <1>3, <1>4

LEMMA NextKeepsPInv == PInv /\ [ProductRecordsNext]_productVars => PInv'
<1> SUFFICES ASSUME PInv, [ProductRecordsNext]_productVars PROVE PInv'
  OBVIOUS
<1>1. CASE UNCHANGED productVars
  BY <1>1, GrantsKeepPInv DEF productVars
<1>0. ASSUME NEW w \in Readers, DropGrant(w) \/ GiveGrant(w) \/ ReadGrant(w) \/ TurnAway(w)
      PROVE  PInv'
  BY <1>0, GrantsKeepPInv DEF DropGrant, GiveGrant, ReadGrant, TurnAway
<1>2. ASSUME NEW w \in Readers, ReadFields(w) \/ ReadVersions(w) \/ EditConflicts(w)
      PROVE  PInv'
  BY <1>2, ReadsKeepPInv
<1>3. ASSUME NEW w \in Readers, SubmitEdit(w)
      PROVE  PInv'
  BY <1>3, SubmitEditKeepsPInv
<1>4. ASSUME NEW w \in Readers, CreateDirectly(w)
      PROVE  PInv'
  BY <1>4, CreateDirectlyKeepsPInv
<1>5. ASSUME NEW w \in Readers, Propose(w)
      PROVE  PInv'
  BY <1>5, ProposeKeepsPInv
<1>6. ASSUME NEW w \in Readers, Lapse(w)
      PROVE  PInv'
  BY <1>6, LapseKeepsPInv
<1>7. ASSUME NEW w \in Readers, CarryOut(w)
      PROVE  PInv'
  BY <1>7, CarryOutKeepsPInv
<1> QED
  BY <1>0, <1>1, <1>2, <1>3, <1>4, <1>5, <1>6, <1>7 DEF ProductRecordsNext

(* Whatever the grants, areas, forms and proposals, and however they interleave and change: a     *)
(* form shows a record as it was at the version it names or before; a form leaves a record within *)
(* the grant its request has read, which may be gone by then, and a carried-out change within its *)
(* workspace and within what its reader may see when it is carried out; and a space holds at most *)
(* one record beyond its limit (record_store.py; main.py: _direct_record, _keyed_record).         *)
THEOREM RecordsSound == ProductRecordsSpec => []ProductRecordsAreSound
<1>1. PInv => ProductRecordsAreSound
  BY DEF PInv, ProductRecordsAreSound
<1> QED
  BY InitPInv, NextKeepsPInv, <1>1, PTL DEF ProductRecordsSpec

-----------------------------------------------------------------------------
(* Rows keep their shape: what is stored, and what the assistant may still store. *)

Fit(changes) ==
    /\ DOMAIN changes \subseteq Fields
    /\ "books" \in DOMAIN changes => changes.books \in SUBSET Books
    /\ "note" \in DOMAIN changes => changes.note \in Notes

RowsFit ==
    /\ \A k \in Keepers : keepers[k] \in Seq(Content)
    /\ \A w \in Readers : proposal[w] # <<>> =>
          /\ Len(proposal[w]) = 1
          /\ proposal[w][1].does = "create" => proposal[w][1].changes \in Content
          /\ proposal[w][1].does = "update" => Fit(proposal[w][1].changes)

LEMMA MergedIsContent ==
    ASSUME NEW content \in Content, NEW changes, Fit(changes)
    PROVE  Merged(changes, content) \in Content
  BY DEF Merged, Content, Fit, Fields

(* What a form sends fits, whatever it showed. *)
LEMMA SentFits ==
    ASSUME NEW shown, NEW typed \in Content
    PROVE  Fit(Sent(shown, typed))
  BY DEF Sent, Content, Fit, Fields

(* A write of a row that fits leaves rows that fit. *)
LEMMA UpdateKeepsRows ==
    ASSUME Stored, RowsFit, NEW k \in Keepers, NEW changes, Fit(changes), NEW wrote, Update(k, changes, wrote),
           \A w \in Readers : proposal'[w] \in {<<>>, proposal[w]}
    PROVE  RowsFit'
<1>1. keepers[k] \in Seq(Content) /\ keepers[k] # <<>>
  BY DEF RowsFit, Stored
<1>2. Held(k) \in Content
  BY <1>1 DEF Held
<1>3. Append(keepers[k], Merged(changes, Held(k))) \in Seq(Content)
  BY <1>1, <1>2, MergedIsContent
<1>4. Keepers' = Keepers /\ \A j \in Keepers : keepers'[j] \in Seq(Content)
  BY <1>3 DEF Update, Keepers, RowsFit
<1> QED
  BY <1>4 DEF RowsFit, Fit

LEMMA InsertKeepsRows ==
    ASSUME RowsFit, NEW content \in Content, NEW wrote, Insert(content, wrote),
           \A w \in Readers : proposal'[w] \in {<<>>, proposal[w]}
    PROVE  RowsFit'
<1>1. <<content>> \in Seq(Content)
  OBVIOUS
<1>2. \A j \in Keepers' : keepers'[j] \in Seq(Content)
  BY <1>1 DEF Insert, Keepers, RowsFit
<1> QED
  BY <1>2 DEF RowsFit, Fit

LEMMA StepRows == PInv /\ RowsFit /\ [ProductRecordsNext]_productVars => RowsFit'
<1> SUFFICES ASSUME PInv, RowsFit, [ProductRecordsNext]_productVars PROVE RowsFit'
  OBVIOUS
<1>0. Stored /\ DOMAIN proposal = Readers
  BY DEF PInv, Stored
<1>1. ASSUME keepers' = keepers, \A w \in Readers : proposal'[w] \in {<<>>, proposal[w]}
      PROVE  RowsFit'
  BY <1>1 DEF RowsFit, Fit, Keepers
<1>2. ASSUME NEW w \in Readers, DropGrant(w) \/ GiveGrant(w) \/ ReadGrant(w) \/ TurnAway(w)
                               \/ ReadFields(w) \/ ReadVersions(w) \/ EditConflicts(w) \/ Lapse(w)
      PROVE  RowsFit'
  BY <1>0, <1>1, <1>2
  DEF DropGrant, GiveGrant, ReadGrant, TurnAway, ReadFields, ReadVersions, EditConflicts, Lapse
<1>3. ASSUME NEW w \in Readers, SubmitEdit(w)
      PROVE  RowsFit'
  <2> DEFINE k == form[w].keeper
  <2>1. k \in Keepers
    BY <1>3 DEF PInv, FormsAreOfKeepers, SubmitEdit
  <2>2. PICK typed \in Content :
            Update(k, Sent(form[w].fields, typed),
                   Wrote(w, "form", form[w].fields = Held(k), granted[w], Merged(Sent(form[w].fields, typed), Held(k))))
    BY <1>3 DEF SubmitEdit
  <2>3. proposal' = proposal
    BY <1>3 DEF SubmitEdit
  <2> QED
    BY <1>0, <2>1, <2>2, <2>3, SentFits, UpdateKeepsRows
<1>4. ASSUME NEW w \in Readers, CreateDirectly(w)
      PROVE  RowsFit'
  BY <1>4, InsertKeepsRows DEF CreateDirectly
<1>5. ASSUME NEW w \in Readers, Propose(w)
      PROVE  RowsFit'
  <2>1. keepers' = keepers
    BY <1>5 DEF Propose
  <2>2. PICK area \in Areas, p \in Proposed :
            proposal' = [proposal EXCEPT ![w] = <<[area |-> area, does |-> p.does, keeper |-> p.keeper, changes |-> p.changes]>>]
    BY <1>5 DEF Propose
  <2>3. /\ p.does = "create" => p.changes \in Content
        /\ p.does = "update" => Fit(p.changes)
    BY DEF Proposed, Fit, Fields
  <2>4. /\ Len(proposal'[w]) = 1 /\ proposal'[w][1].does = p.does /\ proposal'[w][1].changes = p.changes
        /\ \A v \in Readers \ {w} : proposal'[v] = proposal[v]
    BY <1>0, <2>2
  <2> QED
    BY <2>1, <2>3, <2>4 DEF RowsFit, Fit, Keepers
<1>6. ASSUME NEW w \in Readers, CarryOut(w)
      PROVE  RowsFit'
  <2> DEFINE p == proposal[w][1]
  <2>1. proposal' = [proposal EXCEPT ![w] = <<>>] /\ (KeyedCreate(w, p) \/ KeyedChange(w, p))
    BY <1>6 DEF CarryOut
  <2>2. /\ p.does = "create" => p.changes \in Content
        /\ p.does = "update" => Fit(p.changes) /\ p.keeper \in Keepers
    BY <1>6 DEF CarryOut, RowsFit, PInv, ProposalsAreSeen
  <2>3. \A v \in Readers : proposal'[v] \in {<<>>, proposal[v]}
    BY <1>0, <2>1
  <2> HIDE DEF p
  <2>4. CASE KeyedCreate(w, p)
    BY <2>2, <2>3, <2>4, InsertKeepsRows DEF KeyedCreate
  <2>5. CASE KeyedChange(w, p)
    BY <1>0, <2>2, <2>3, <2>5, UpdateKeepsRows DEF KeyedChange
  <2> QED
    BY <2>1, <2>4, <2>5
<1>7. CASE UNCHANGED productVars
  BY <1>0, <1>1, <1>7 DEF productVars
<1> QED
  BY <1>2, <1>3, <1>4, <1>5, <1>6, <1>7 DEF ProductRecordsNext

(* Rows are made of a product's books and notes, and each reader's assistant has one proposal at *)
(* most (record_store.py).                                                                       *)
THEOREM RecordsTyped == ProductRecordsSpec => []ProductRecordsTypeOK
<1>1. ProductRecordsInit => RowsFit
  BY DEF ProductRecordsInit, RowsFit, Keepers
<1>2. PInv /\ RowsFit => ProductRecordsTypeOK
  <2> SUFFICES ASSUME PInv, RowsFit PROVE ProductRecordsTypeOK
    OBVIOUS
  <2>1. \A k \in Keepers : \A r \in DOMAIN keepers[k] : keepers[k][r] \in Content
    BY DEF RowsFit
  <2>2. \A w \in Readers : Len(proposal[w]) <= 1
    <3> SUFFICES ASSUME NEW w \in Readers PROVE Len(proposal[w]) <= 1
      OBVIOUS
    <3>1. CASE proposal[w] = <<>>
      BY <3>1
    <3>2. CASE proposal[w] # <<>>
      <4>1. Len(proposal[w]) = 1
        BY <3>2, Zenon DEF RowsFit
      <4> QED
        BY <4>1
    <3> QED
      BY <3>1, <3>2
  <2> QED
    BY <2>1, <2>2 DEF PInv, Stored, FormsAreOfKeepers, ProductRecordsTypeOK
<1> QED
  BY InitPInv, NextKeepsPInv, <1>1, StepRows, <1>2, PTL DEF ProductRecordsSpec

-----------------------------------------------------------------------------
(* The definition's versions, bindings and conversations.                  *)

USE DEF places, talks, records

Pin == [tenant : Tenants, team : Teams, version : Versions]
Job ==
    {NoJob} \cup [does : {"publish"}, version : Versions, migrates : BOOLEAN]
            \cup [does : {"bind", "move"}, tenant : Tenants, version : Versions]

Typed ==
    /\ shipped \in BOOLEAN /\ identity \in Owners \cup {None}
    /\ sources \in [DOMAIN sources -> Owners] /\ DOMAIN sources \subseteq Versions
    /\ versions \in [DOMAIN versions -> [state : {"draft", "validated"} \cup EverPublished, owner : Owners]]
    /\ DOMAIN versions \subseteq DOMAIN sources
    /\ bindings \in [DOMAIN bindings -> [version : Versions, team : Teams, state : {"active", "disabled"}]]
    /\ DOMAIN bindings \subseteq Tenants
    /\ jobs \in [Operators -> Job]
    /\ starting \in [DOMAIN starting -> Pin]
    /\ pinned \in [DOMAIN pinned -> [pin : Pin, version : Versions, expired : BOOLEAN, since : Nat]]
    /\ migrated \in Versions \cup {0} /\ migrations \in Nat

(* The versions that were published, each with an organization that may use their definition. *)
Runnable == {x \in Tenants \X Versions : State(x[2]) \in EverPublished /\ identity \in {Shared, x[1]}}

(* What runs may be run, and what was read to be written later is as good as what is written. *)
BoundRunnable == \A t \in DOMAIN bindings : <<t, bindings[t].version>> \in Runnable
PinnedRunnable == \A s \in DOMAIN pinned : <<pinned[s].pin.tenant, pinned[s].version>> \in Runnable
JobsRunnable ==
    \A p \in Operators : jobs[p].does \in {"bind", "move"} => <<jobs[p].tenant, jobs[p].version>> \in Runnable
StartingRunnable == \A s \in DOMAIN starting : <<starting[s].tenant, starting[s].version>> \in Runnable
AllRunnable == BoundRunnable /\ PinnedRunnable /\ JobsRunnable /\ StartingRunnable

(* A conversation that is not over and pinned below the last migration was opened after it. *)
SurvivorsAreNewer ==
    \A s \in DOMAIN pinned :
        ~pinned[s].expired /\ pinned[s].version < migrated => pinned[s].since = migrations

LInv == Typed /\ OwnersAgree /\ AllRunnable /\ SurvivorsAreNewer

-----------------------------------------------------------------------------
LEMMA InitLInv == LifecycleInit => LInv
<1> SUFFICES ASSUME LifecycleInit PROVE LInv
  OBVIOUS
<1> USE LifecycleAssumption DEF LifecycleInit
<1>1. /\ DOMAIN sources = {} /\ DOMAIN versions = {} /\ DOMAIN bindings = {}
      /\ DOMAIN starting = {} /\ DOMAIN pinned = {}
  OBVIOUS
<1>2. Typed
  BY <1>1 DEF Typed, Job
<1> QED
  BY <1>1, <1>2 DEF LInv, OwnersAgree, AllRunnable, BoundRunnable, PinnedRunnable, JobsRunnable,
     StartingRunnable, SurvivorsAreNewer, NoJob, None

LEMMA StepTyped == Typed /\ [LifecycleNext]_lifecycleVars => Typed'
<1> SUFFICES ASSUME Typed, [LifecycleNext]_lifecycleVars PROVE Typed'
  OBVIOUS
<1> USE LifecycleAssumption DEF Typed
<1>1. ASSUME NEW v \in Versions, NEW owner \in Owners, Ship(v, owner)
      PROVE  Typed'
  BY <1>1 DEF Ship, Put
<1>2. ASSUME NEW v \in Versions, NEW owner \in Owners, Store(v, owner)
      PROVE  Typed'
  BY <1>2 DEF Store, Put
<1>3. ASSUME NEW v \in Versions, Register(v)
      PROVE  Typed'
  BY <1>3 DEF Register, Put
<1>4. ASSUME NEW v \in Versions, Transition(v)
      PROVE  Typed'
  BY <1>4 DEF Transition, Put, State, None, EverPublished
<1>5. ASSUME NEW v \in Versions, NEW p \in Operators, PublishReads(p, v)
      PROVE  Typed'
  BY <1>5 DEF PublishReads, Job, Breaking
<1>6. ASSUME NEW v \in Versions, NEW p \in Operators, NEW t \in Tenants, BindReads(p, t, v)
      PROVE  Typed'
  BY <1>6 DEF BindReads, Job
<1>7. ASSUME NEW p \in Operators, PublishCommits(p)
      PROVE  Typed'
  <2> DEFINE v == jobs[p].version
  <2>1. /\ v \in Versions /\ v \in DOMAIN versions
        /\ jobs[p].migrates \in BOOLEAN
    BY <1>7 DEF PublishCommits, Job, NoJob, None, State
  <2>2. versions' \in [DOMAIN versions' -> [state : {"draft", "validated"} \cup EverPublished, owner : Owners]]
    BY <1>7, <2>1 DEF PublishCommits, Put, EverPublished
  <2>3. /\ DOMAIN versions' = DOMAIN versions
        /\ jobs' \in [Operators -> Job]
    BY <1>7, <2>1 DEF PublishCommits, Put, Job
  <2>4. /\ pinned' \in [DOMAIN pinned' -> [pin : Pin, version : Versions, expired : BOOLEAN, since : Nat]]
        /\ migrated' \in Versions \cup {0} /\ migrations' \in Nat
    <3>1. CASE jobs[p].migrates
      <4>1. ASSUME NEW s \in DOMAIN pinned
            PROVE  [pinned[s] EXCEPT !.expired = TRUE] \in [pin : Pin, version : Versions, expired : BOOLEAN, since : Nat]
        BY ZenonT(60)
      <4> QED
        BY <1>7, <2>1, <3>1, <4>1 DEF PublishCommits
    <3>2. CASE ~jobs[p].migrates
      BY <1>7, <3>2 DEF PublishCommits
    <3> QED
      BY <3>1, <3>2
  <2> QED
    BY <1>7, <2>2, <2>3, <2>4 DEF PublishCommits
<1>8. ASSUME NEW p \in Operators, BindCommits(p)
      PROVE  Typed'
  BY <1>8 DEF BindCommits, Job, NoJob, None, Put
<1>9. ASSUME NEW p \in Operators, JobFails(p)
      PROVE  Typed'
  BY <1>9 DEF JobFails, Job
<1>10. ASSUME NEW t \in Tenants, SetOrganization(t)
      PROVE  Typed'
  BY <1>10 DEF SetOrganization
<1>11. ASSUME NEW t \in Tenants, SetProduct(t)
      PROVE  Typed'
  BY <1>11 DEF SetProduct
<1>12. ASSUME NEW t \in Tenants, NEW m \in Teams, SetTeam(t, m)
      PROVE  Typed'
  BY <1>12 DEF SetTeam
<1>13. ASSUME NEW t \in Tenants, NEW m \in Teams, TransferProduct(t, m)
      PROVE  Typed'
  BY <1>13 DEF TransferProduct
<1>14. ASSUME NEW s \in Sessions, NEW t \in Tenants, PinSession(s, t)
      PROVE  Typed'
  BY <1>14 DEF PinSession, Put, Pin, Authorized
<1>15. ASSUME NEW s \in Sessions, OpenSession(s)
      PROVE  Typed'
  <2>1. starting[s] \in Pin
    BY <1>15 DEF OpenSession
  <2>2. [pin |-> starting[s], version |-> starting[s].version, expired |-> FALSE, since |-> migrations]
            \in [pin : Pin, version : Versions, expired : BOOLEAN, since : Nat]
    BY <2>1 DEF Pin
  <2>3. pinned' \in [DOMAIN pinned' -> [pin : Pin, version : Versions, expired : BOOLEAN, since : Nat]]
    BY <1>15, <2>2 DEF OpenSession, Put
  <2>4. starting' \in [DOMAIN starting' -> Pin]
    BY <1>15 DEF OpenSession
  <2> QED
    BY <1>15, <2>3, <2>4 DEF OpenSession
<1>16. ASSUME NEW s \in Sessions, AgeOut(s)
      PROVE  Typed'
  BY <1>16 DEF AgeOut
<1>17. CASE UNCHANGED lifecycleVars
  BY <1>17 DEF lifecycleVars
<1> QED
  BY <1>1, <1>2, <1>3, <1>4, <1>5, <1>6, <1>7, <1>8, <1>9, <1>10, <1>11, <1>12, <1>13, <1>14,
     <1>15, <1>16, <1>17
  DEF LifecycleNext

LEMMA StepOwnersAgree == Typed /\ OwnersAgree /\ [LifecycleNext]_lifecycleVars => OwnersAgree'
<1> SUFFICES ASSUME Typed, OwnersAgree, [LifecycleNext]_lifecycleVars PROVE OwnersAgree'
  OBVIOUS
<1> USE LifecycleAssumption
(* Without an owner there is no version, and no upload. *)
<1>1. ASSUME identity = None
      PROVE  DOMAIN versions = {} /\ (~shipped => DOMAIN sources = {})
  <2>1. ASSUME NEW v \in DOMAIN versions PROVE versions[v].owner \in Owners
    BY DEF Typed
  <2>2. ASSUME NEW v \in DOMAIN sources PROVE sources[v] \in Owners
    BY DEF Typed
  <2> QED
    BY <1>1, <2>1, <2>2 DEF OwnersAgree
<1>2. ASSUME NEW v \in Versions, NEW owner \in Owners, Ship(v, owner)
      PROVE  OwnersAgree'
  BY <1>2 DEF Ship, Put, OwnersAgree
<1>3. ASSUME NEW v \in Versions, NEW owner \in Owners, Store(v, owner)
      PROVE  OwnersAgree'
  BY <1>3, <1>1 DEF Store, Put, Typed, OwnersAgree
<1>4. ASSUME NEW v \in Versions, Register(v)
      PROVE  OwnersAgree'
  BY <1>4, <1>1 DEF Register, OwnerAgrees, Put, Typed, OwnersAgree
<1>5. ASSUME NEW v \in Versions, Transition(v)
      PROVE  OwnersAgree'
  BY <1>5 DEF Transition, Put, State, None, EverPublished, Typed, OwnersAgree
<1>6. ASSUME NEW v \in Versions, NEW p \in Operators, PublishReads(p, v)
      PROVE  OwnersAgree'
  BY <1>6 DEF PublishReads, OwnersAgree
<1>7. ASSUME NEW v \in Versions, NEW p \in Operators, NEW t \in Tenants, BindReads(p, t, v)
      PROVE  OwnersAgree'
  BY <1>7 DEF BindReads, OwnersAgree
<1>8. ASSUME NEW p \in Operators, PublishCommits(p)
      PROVE  OwnersAgree'
  BY <1>8 DEF PublishCommits, Put, State, None, Typed, OwnersAgree
<1>9. ASSUME NEW p \in Operators, BindCommits(p)
      PROVE  OwnersAgree'
  BY <1>9 DEF BindCommits, Put, OwnersAgree
<1>10. ASSUME NEW p \in Operators, JobFails(p)
      PROVE  OwnersAgree'
  BY <1>10 DEF JobFails, OwnersAgree
<1>11. ASSUME NEW t \in Tenants, SetOrganization(t)
      PROVE  OwnersAgree'
  BY <1>11 DEF SetOrganization, OwnersAgree
<1>12. ASSUME NEW t \in Tenants, SetProduct(t)
      PROVE  OwnersAgree'
  BY <1>12 DEF SetProduct, OwnersAgree
<1>13. ASSUME NEW t \in Tenants, NEW m \in Teams, SetTeam(t, m)
      PROVE  OwnersAgree'
  BY <1>13 DEF SetTeam, OwnersAgree
<1>14. ASSUME NEW t \in Tenants, NEW m \in Teams, TransferProduct(t, m)
      PROVE  OwnersAgree'
  BY <1>14 DEF TransferProduct, OwnersAgree
<1>15. ASSUME NEW s \in Sessions, NEW t \in Tenants, PinSession(s, t)
      PROVE  OwnersAgree'
  BY <1>15 DEF PinSession, Put, OwnersAgree
<1>16. ASSUME NEW s \in Sessions, OpenSession(s)
      PROVE  OwnersAgree'
  BY <1>16 DEF OpenSession, Put, OwnersAgree
<1>17. ASSUME NEW s \in Sessions, AgeOut(s)
      PROVE  OwnersAgree'
  BY <1>17 DEF AgeOut, OwnersAgree
<1>18. CASE UNCHANGED lifecycleVars
  BY <1>18 DEF lifecycleVars, OwnersAgree
<1> QED
  BY <1>2, <1>3, <1>4, <1>5, <1>6, <1>7, <1>8, <1>9, <1>10, <1>11, <1>12, <1>13, <1>14, <1>15,
     <1>16, <1>17, <1>18
  DEF LifecycleNext

(* What an organization may run stays so: no transition leads back from a published version, and  *)
(* once there is a version its owner is the definition's for good.                                *)
LEMMA RunnableStays == Typed /\ OwnersAgree /\ [LifecycleNext]_lifecycleVars => Runnable \subseteq Runnable'
<1> SUFFICES ASSUME Typed, OwnersAgree, [LifecycleNext]_lifecycleVars,
                    NEW u \in Tenants, NEW x \in Versions, <<u, x>> \in Runnable
             PROVE  State(x)' \in EverPublished /\ identity' \in {Shared, u}
  BY DEF Runnable, EverPublished
<1> USE LifecycleAssumption
<1>1. x \in DOMAIN versions /\ versions[x].state \in EverPublished /\ identity \in {Shared, u} /\ identity # None
  BY DEF Runnable, State, EverPublished, None, Owners
<1>2. ASSUME NEW v \in Versions, NEW owner \in Owners, Ship(v, owner)
      PROVE  State(x)' \in EverPublished /\ identity' \in {Shared, u}
  BY <1>2, <1>1 DEF Ship, Put, State
<1>3. ASSUME NEW v \in Versions, NEW owner \in Owners, Store(v, owner)
      PROVE  State(x)' \in EverPublished /\ identity' \in {Shared, u}
  BY <1>3, <1>1 DEF Store, Put, State
<1>4. ASSUME NEW v \in Versions, Register(v)
      PROVE  State(x)' \in EverPublished /\ identity' \in {Shared, u}
  BY <1>4, <1>1 DEF Register, OwnerAgrees, Put, State, Typed, OwnersAgree
<1>5. ASSUME NEW v \in Versions, Transition(v)
      PROVE  State(x)' \in EverPublished /\ identity' \in {Shared, u}
  BY <1>5, <1>1 DEF Transition, Put, State, EverPublished, None, Typed
<1>6. ASSUME NEW v \in Versions, NEW p \in Operators, PublishReads(p, v)
      PROVE  State(x)' \in EverPublished /\ identity' \in {Shared, u}
  BY <1>6, <1>1 DEF PublishReads, State
<1>7. ASSUME NEW v \in Versions, NEW p \in Operators, NEW t \in Tenants, BindReads(p, t, v)
      PROVE  State(x)' \in EverPublished /\ identity' \in {Shared, u}
  BY <1>7, <1>1 DEF BindReads, State
<1>8. ASSUME NEW p \in Operators, PublishCommits(p)
      PROVE  State(x)' \in EverPublished /\ identity' \in {Shared, u}
  BY <1>8, <1>1 DEF PublishCommits, Put, State, EverPublished, None, Typed
<1>9. ASSUME NEW p \in Operators, BindCommits(p)
      PROVE  State(x)' \in EverPublished /\ identity' \in {Shared, u}
  BY <1>9, <1>1 DEF BindCommits, Put, State
<1>10. ASSUME NEW p \in Operators, JobFails(p)
      PROVE  State(x)' \in EverPublished /\ identity' \in {Shared, u}
  BY <1>10, <1>1 DEF JobFails, State
<1>11. ASSUME NEW t \in Tenants, SetOrganization(t)
      PROVE  State(x)' \in EverPublished /\ identity' \in {Shared, u}
  BY <1>11, <1>1 DEF SetOrganization, State
<1>12. ASSUME NEW t \in Tenants, SetProduct(t)
      PROVE  State(x)' \in EverPublished /\ identity' \in {Shared, u}
  BY <1>12, <1>1 DEF SetProduct, State
<1>13. ASSUME NEW t \in Tenants, NEW m \in Teams, SetTeam(t, m)
      PROVE  State(x)' \in EverPublished /\ identity' \in {Shared, u}
  BY <1>13, <1>1 DEF SetTeam, State
<1>14. ASSUME NEW t \in Tenants, NEW m \in Teams, TransferProduct(t, m)
      PROVE  State(x)' \in EverPublished /\ identity' \in {Shared, u}
  BY <1>14, <1>1 DEF TransferProduct, State
<1>15. ASSUME NEW s \in Sessions, NEW t \in Tenants, PinSession(s, t)
      PROVE  State(x)' \in EverPublished /\ identity' \in {Shared, u}
  BY <1>15, <1>1 DEF PinSession, Put, State
<1>16. ASSUME NEW s \in Sessions, OpenSession(s)
      PROVE  State(x)' \in EverPublished /\ identity' \in {Shared, u}
  BY <1>16, <1>1 DEF OpenSession, Put, State
<1>17. ASSUME NEW s \in Sessions, AgeOut(s)
      PROVE  State(x)' \in EverPublished /\ identity' \in {Shared, u}
  BY <1>17, <1>1 DEF AgeOut, State
<1>18. CASE UNCHANGED lifecycleVars
  BY <1>18, <1>1 DEF lifecycleVars, State
<1> QED
  BY <1>2, <1>3, <1>4, <1>5, <1>6, <1>7, <1>8, <1>9, <1>10, <1>11, <1>12, <1>13, <1>14, <1>15,
     <1>16, <1>17, <1>18
  DEF LifecycleNext

LEMMA StepAllRunnable ==
    Typed /\ OwnersAgree /\ AllRunnable /\ [LifecycleNext]_lifecycleVars => AllRunnable'
<1> SUFFICES ASSUME Typed, OwnersAgree, AllRunnable, [LifecycleNext]_lifecycleVars PROVE AllRunnable'
  OBVIOUS
<1> USE LifecycleAssumption DEF AllRunnable, BoundRunnable, PinnedRunnable, JobsRunnable, StartingRunnable
<1>1. Runnable \subseteq Runnable'
  BY RunnableStays
<1>2. ASSUME NEW v \in Versions, NEW owner \in Owners, Ship(v, owner)
      PROVE  AllRunnable'
  BY <1>2, <1>1 DEF Ship, Typed
<1>3. ASSUME NEW v \in Versions, NEW owner \in Owners, Store(v, owner)
      PROVE  AllRunnable'
  BY <1>3, <1>1 DEF Store, Typed
<1>4. ASSUME NEW v \in Versions, Register(v)
      PROVE  AllRunnable'
  BY <1>4, <1>1 DEF Register, Typed
<1>5. ASSUME NEW v \in Versions, Transition(v)
      PROVE  AllRunnable'
  BY <1>5, <1>1 DEF Transition, Typed
<1>6. ASSUME NEW v \in Versions, NEW p \in Operators, PublishReads(p, v)
      PROVE  AllRunnable'
  BY <1>6, <1>1 DEF PublishReads, Typed
<1>7. ASSUME NEW v \in Versions, NEW p \in Operators, NEW t \in Tenants, BindReads(p, t, v)
      PROVE  AllRunnable'
  <2>1. <<t, v>> \in Runnable /\ <<t, v>> \in Runnable'
    BY <1>7, <1>1 DEF BindReads, Bindable, Runnable, State, EverPublished, OwnersAgree, None
  <2>2. JobsRunnable'
    BY <1>7, <1>1, <2>1 DEF BindReads, Typed
  <2> QED
    BY <1>7, <1>1, <2>2 DEF BindReads
<1>8. ASSUME NEW p \in Operators, PublishCommits(p)
      PROVE  AllRunnable'
  <2>1. JobsRunnable'
    BY <1>8, <1>1 DEF PublishCommits, NoJob, None, Typed
  <2>2. PinnedRunnable'
    <3>1. DOMAIN pinned' = DOMAIN pinned
      BY <1>8 DEF PublishCommits
    <3>2. ASSUME NEW s \in DOMAIN pinned
          PROVE  pinned'[s].pin = pinned[s].pin /\ pinned'[s].version = pinned[s].version
      BY <1>8 DEF PublishCommits, Typed
    <3> QED
      BY <1>1, <3>1, <3>2
  <2> QED
    BY <1>8, <1>1, <2>1, <2>2 DEF PublishCommits
<1>9. ASSUME NEW p \in Operators, BindCommits(p)
      PROVE  AllRunnable'
  <2> DEFINE t == jobs[p].tenant
  <2>1. JobsRunnable'
    BY <1>9, <1>1 DEF BindCommits, NoJob, None, Typed
  <2>2. jobs[p].does \in {"bind", "move"} /\ <<t, jobs[p].version>> \in Runnable
    BY <1>9 DEF BindCommits
  <2>3. BoundRunnable'
    <3>1. CASE jobs[p].does = "bind"
      BY <1>9, <1>1, <2>2, <3>1 DEF BindCommits, Put
    <3>2. CASE jobs[p].does = "move"
      BY <1>9, <1>1, <2>2, <3>2 DEF BindCommits, Typed
    <3> QED
      BY <2>2, <3>1, <3>2
  <2> QED
    BY <1>9, <1>1, <2>1, <2>3 DEF BindCommits
<1>10. ASSUME NEW p \in Operators, JobFails(p)
      PROVE  AllRunnable'
  <2>1. JobsRunnable'
    BY <1>10, <1>1 DEF JobFails, NoJob, None, Typed
  <2> QED
    BY <1>10, <1>1, <2>1 DEF JobFails
<1>11. ASSUME NEW t \in Tenants, SetOrganization(t)
      PROVE  AllRunnable'
  BY <1>11, <1>1 DEF SetOrganization, Typed
<1>12. ASSUME NEW t \in Tenants, SetProduct(t)
      PROVE  AllRunnable'
  BY <1>12, <1>1 DEF SetProduct, Typed
<1>13. ASSUME NEW t \in Tenants, NEW m \in Teams, SetTeam(t, m)
      PROVE  AllRunnable'
  BY <1>13, <1>1 DEF SetTeam, Typed
<1>14. ASSUME NEW t \in Tenants, NEW m \in Teams, TransferProduct(t, m)
      PROVE  AllRunnable'
  BY <1>14, <1>1 DEF TransferProduct, Typed
<1>15. ASSUME NEW s \in Sessions, NEW t \in Tenants, PinSession(s, t)
      PROVE  AllRunnable'
  <2>1. <<t, bindings[t].version>> \in Runnable'
    BY <1>15, <1>1 DEF PinSession, Authorized
  <2>2. StartingRunnable'
    BY <1>15, <1>1, <2>1 DEF PinSession, Put
  <2> QED
    BY <1>15, <1>1, <2>2 DEF PinSession
<1>16. ASSUME NEW s \in Sessions, OpenSession(s)
      PROVE  AllRunnable'
  <2>1. <<starting[s].tenant, starting[s].version>> \in Runnable'
    BY <1>16, <1>1 DEF OpenSession
  <2>2. PinnedRunnable'
    BY <1>16, <1>1, <2>1 DEF OpenSession, Put
  <2>3. StartingRunnable'
    BY <1>16, <1>1 DEF OpenSession
  <2> QED
    BY <1>16, <1>1, <2>2, <2>3 DEF OpenSession
<1>17. ASSUME NEW s \in Sessions, AgeOut(s)
      PROVE  AllRunnable'
  BY <1>17, <1>1 DEF AgeOut, Typed
<1>18. CASE UNCHANGED lifecycleVars
  BY <1>18, <1>1 DEF lifecycleVars, Typed
<1> QED
  BY <1>2, <1>3, <1>4, <1>5, <1>6, <1>7, <1>8, <1>9, <1>10, <1>11, <1>12, <1>13, <1>14, <1>15,
     <1>16, <1>17, <1>18
  DEF LifecycleNext

LEMMA StepSurvivors ==
    Typed /\ SurvivorsAreNewer /\ [LifecycleNext]_lifecycleVars => SurvivorsAreNewer'
<1> SUFFICES ASSUME Typed, SurvivorsAreNewer, [LifecycleNext]_lifecycleVars PROVE SurvivorsAreNewer'
  OBVIOUS
<1> USE LifecycleAssumption DEF SurvivorsAreNewer
(* A migration ends every conversation below the version it moves the records to. *)
<1>1. ASSUME NEW p \in Operators, PublishCommits(p)
      PROVE  SurvivorsAreNewer'
  <2>1. CASE jobs[p].migrates
    <3> SUFFICES ASSUME NEW s \in DOMAIN pinned', ~pinned'[s].expired, pinned'[s].version < migrated'
                 PROVE  FALSE
      OBVIOUS
    <3>1. /\ DOMAIN pinned' = DOMAIN pinned /\ migrated' = jobs[p].version
          /\ pinned'[s] = IF s \in Ended(jobs[p].version) THEN [pinned[s] EXCEPT !.expired = TRUE] ELSE pinned[s]
      BY <1>1, <2>1 DEF PublishCommits
    <3>2. pinned'[s].version = pinned[s].version
      BY <3>1 DEF Typed
    <3>3. s \in Ended(jobs[p].version)
      BY <3>1, <3>2 DEF Ended
    <3> QED
      BY <3>1, <3>3 DEF Typed
  <2>2. CASE ~jobs[p].migrates
    BY <1>1, <2>2 DEF PublishCommits
  <2> QED
    BY <2>1, <2>2
<1>2. ASSUME NEW s \in Sessions, OpenSession(s)
      PROVE  SurvivorsAreNewer'
  BY <1>2 DEF OpenSession, Put
<1>3. ASSUME NEW s \in Sessions, AgeOut(s)
      PROVE  SurvivorsAreNewer'
  <2>1. ASSUME NEW z \in DOMAIN pinned'
        PROVE  /\ z \in DOMAIN pinned /\ (~pinned'[z].expired => ~pinned[z].expired)
               /\ pinned'[z].version = pinned[z].version /\ pinned'[z].since = pinned[z].since
    BY <1>3, <2>1 DEF AgeOut, Typed
  <2> QED
    BY <1>3, <2>1 DEF AgeOut
<1>4. CASE UNCHANGED <<pinned, migrated, migrations>>
  BY <1>4
<1> QED
  BY <1>1, <1>2, <1>3, <1>4
  DEF LifecycleNext, lifecycleVars, Ship, Store, Register, Transition, PublishReads, BindReads, BindCommits, JobFails,
      SetOrganization, SetProduct, SetTeam, TransferProduct, PinSession

THEOREM LInvHolds == LifecycleSpec => []LInv
<1>1. LInv /\ [LifecycleNext]_lifecycleVars => LInv'
  BY StepTyped, StepOwnersAgree, StepAllRunnable, StepSurvivors DEF LInv
<1> QED
  BY InitLInv, <1>1, PTL DEF LifecycleSpec

(* PinsFitTheirRecords: nobody disagrees who owns a definition; a product runs, and a conversation *)
(* is pinned to, a version that was published and that its organization may use, whatever was      *)
(* revoked, registered or published between the reading and the writing; and no conversation that  *)
(* was open when a migration moved the records reads them through an older version (registry.py,   *)
(* organizations.py, sessions.py).                                                                 *)
THEOREM PinsFit == LifecycleSpec => []PinsFitTheirRecords
<1>1. LInv => BoundToPublished
  <2> SUFFICES ASSUME LInv PROVE BoundToPublished
    OBVIOUS
  <2> USE DEF LInv, AllRunnable, Runnable
  <2>1. ASSUME NEW t \in DOMAIN bindings
        PROVE  State(bindings[t].version) \in EverPublished /\ identity \in {Shared, t}
    BY DEF BoundRunnable
  <2>2. ASSUME NEW s \in DOMAIN pinned
        PROVE  State(pinned[s].version) \in EverPublished /\ identity \in {Shared, pinned[s].pin.tenant}
    BY DEF PinnedRunnable
  <2> QED
    BY <2>1, <2>2 DEF BoundToPublished
<1>2. LInv => MigrationsEndOlder
  BY DEF LInv, SurvivorsAreNewer, MigrationsEndOlder, MayContinue
<1>3. LInv => PinsFitTheirRecords
  BY <1>1, <1>2 DEF LInv, PinsFitTheirRecords
<1> QED
  BY LInvHolds, <1>3, PTL

(* A conversation is being opened or is open, never both, and migrations are counted. *)
TalksApart ==
    /\ DOMAIN starting \cap DOMAIN pinned = {}
    /\ DOMAIN starting \cup DOMAIN pinned \subseteq Sessions
    /\ migrations <= MaxMigrations

LEMMA StepTalksApart == Typed /\ TalksApart /\ [LifecycleNext]_lifecycleVars => TalksApart'
<1> SUFFICES ASSUME Typed, TalksApart, [LifecycleNext]_lifecycleVars PROVE TalksApart'
  OBVIOUS
<1>1. ASSUME NEW p \in Operators, PublishCommits(p)
      PROVE  TalksApart'
  <2>1. DOMAIN pinned' = DOMAIN pinned /\ starting' = starting
    BY <1>1 DEF PublishCommits
  <2>2. migrations' = migrations \/ (migrations < MaxMigrations /\ migrations' = migrations + 1)
    BY <1>1 DEF PublishCommits
  <2> QED
    BY <2>1, <2>2, LifecycleAssumption DEF TalksApart, Typed
<1>2. ASSUME NEW s \in Sessions, NEW t \in Tenants, PinSession(s, t)
      PROVE  TalksApart'
  <2>1. s \notin DOMAIN pinned /\ DOMAIN starting' = DOMAIN starting \cup {s} /\ UNCHANGED <<pinned, migrations>>
    BY <1>2 DEF PinSession, Put
  <2> QED
    BY <2>1 DEF TalksApart
<1>3. ASSUME NEW s \in Sessions, OpenSession(s)
      PROVE  TalksApart'
  <2>1. /\ DOMAIN pinned' = DOMAIN pinned \cup {s} /\ DOMAIN starting' = DOMAIN starting \ {s}
        /\ migrations' = migrations
    BY <1>3 DEF OpenSession, Put
  <2> QED
    BY <2>1 DEF TalksApart
<1>4. ASSUME NEW s \in Sessions, AgeOut(s)
      PROVE  TalksApart'
  BY <1>4 DEF AgeOut, TalksApart
<1>5. ASSUME UNCHANGED <<starting, pinned, migrations>>
      PROVE  TalksApart'
  BY <1>5 DEF TalksApart
<1> QED
  BY <1>1, <1>2, <1>3, <1>4, <1>5
  DEF LifecycleNext, lifecycleVars, Ship, Store, Register, Transition, PublishReads, BindReads, BindCommits, JobFails,
      SetOrganization, SetProduct, SetTeam, TransferProduct

(* Versions, bindings and conversations are rows of their vocabularies, and a pin is stored once *)
(* (registry.py, sessions.py).                                                                   *)
THEOREM LifecycleTyped == LifecycleSpec => []LifecycleTypeOK
<1>1. LifecycleInit => TalksApart
  BY LifecycleAssumption DEF LifecycleInit, TalksApart
<1>2. Typed /\ TalksApart => LifecycleTypeOK
  BY LifecycleAssumption DEF Typed, TalksApart, LifecycleTypeOK
<1>3. LifecycleInit => Typed
  BY InitLInv DEF LInv
<1> QED
  BY <1>1, <1>3, StepTyped, StepTalksApart, <1>2, PTL DEF LifecycleSpec
=============================================================================
