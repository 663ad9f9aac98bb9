---------------------------- MODULE WorkspaceProofs ----------------------------
(***************************************************************************)
(* Proofs about the workspace: private demo instances (DemoInstances), the *)
(* shared records and their idle reset (SharedRecords), and accounts,      *)
(* members and grants (Accounts), for every value of their constants.      *)
(*                                                                         *)
(* BusyKept: an instance that disappears had expired or was unused, since  *)
(* it notes its visitor's last request (ActivityIsNoted).                  *)
(*                                                                         *)
(* InstancesWhole: what an instance holds and how many there are, from     *)
(* WholeInv, which says of each instance what fits its dates, its          *)
(* contents, its visitor's logins and the answers it gave.                 *)
(*                                                                         *)
(* EditsNoticed: shared records that differ from the seed are marked       *)
(* changed, from RInv, which follows a reset through the steps it is made  *)
(* of.                                                                     *)
(*                                                                         *)
(* OneRecord: a key retried is answered with one record, in both demos.    *)
(*                                                                         *)
(* AccountsSound: codes open once, accounts have members, grants fit       *)
(* roles, from CodesFit, PeopleFit and GrantsFit. What a thread has still  *)
(* to do is part of them: whoever lacks a grant awaits it from some        *)
(* thread.                                                                 *)
(*                                                                         *)
(* WorkspaceTyped: the types of the five modules, from RowsInv, SInv,      *)
(* TriesFit, AllowanceFits and MembersFit, and for records and definitions *)
(* from ProductProofs.                                                     *)
(***************************************************************************)
EXTENDS MCWorkspace, ProductProofs, DataLemmas, FiniteSetTheorems, TLAPS

Columns == {"generation", "expires", "idle", "lastActive", "records", "receipts"}

(* Every instance notes its visitor's last request, or something later. *)
ActivityIsNoted ==
    /\ clock \in Int
    /\ DOMAIN usedAt = Started /\ DOMAIN instances \subseteq Started
    /\ \A v \in DOMAIN instances :
          /\ Columns \subseteq DOMAIN instances[v]
          /\ usedAt[v] \in Int /\ instances[v].lastActive \in Int /\ usedAt[v] <= instances[v].lastActive

-----------------------------------------------------------------------------
(* Before the first request there is nothing to note. *)
LEMMA InitActivity == InstanceInit => ActivityIsNoted
  BY DEF InstanceInit, ActivityIsNoted, Started

(* What a step may do to an instance without disturbing what is noted. *)
LEMMA KeepsActivity ==
    ASSUME ActivityIsNoted, UNCHANGED <<clock, usedAt>>, Started' = Started,
           DOMAIN instances' \subseteq DOMAIN instances,
           \A v \in DOMAIN instances' : /\ DOMAIN instances'[v] = DOMAIN instances[v]
                                        /\ instances'[v].lastActive = instances[v].lastActive
    PROVE  ActivityIsNoted'
  BY DEF ActivityIsNoted

(* Every request that is let through notes itself, and no step takes that back. *)
LEMMA StepActivity == ActivityIsNoted /\ [InstanceNext]_instanceVars => ActivityIsNoted'
<1> SUFFICES ASSUME ActivityIsNoted, [InstanceNext]_instanceVars PROVE ActivityIsNoted'
  OBVIOUS
<1>1. ASSUME NEW v \in Visitors, StartVisitor(v)
      PROVE  ActivityIsNoted'
  <2>1. Started' = Started \cup {v} /\ v \notin DOMAIN instances
    <3>1. issued' = issued \cup {Token(v, 1)} /\ Token(v, 1).visitor = v
      BY <1>1 DEF StartVisitor, Token
    <3>2. v \notin DOMAIN instances
      BY <1>1 DEF StartVisitor, ActivityIsNoted
    <3> QED
      BY <3>1, <3>2 DEF Started
  <2>2. PICK gone, evicted :
            instances' = [w \in (DOMAIN instances \ (gone \cup evicted)) \cup {v} |->
                             IF w = v THEN Fresh ELSE instances[w]]
    BY <1>1 DEF StartVisitor
  <2>3. DOMAIN Fresh = Columns /\ Fresh.lastActive = clock
    BY DEF Fresh, Columns
  <2>4. /\ clock' = clock /\ usedAt' = [w \in Started \cup {v} |-> IF w = v THEN clock ELSE usedAt[w]]
    BY <1>1 DEF StartVisitor
  <2> QED
    BY <2>1, <2>2, <2>3, <2>4 DEF ActivityIsNoted
<1>2. ASSUME NEW c \in Calls, NEW t \in issued, Enter(c, t)
      PROVE  ActivityIsNoted'
  <2> DEFINE v == t.visitor
  <2>1. v \in DOMAIN instances /\ Started' = Started /\ clock' = clock
    BY <1>2 DEF Enter, Available, Started
  <2>2. /\ DOMAIN instances' = DOMAIN instances
        /\ DOMAIN instances'[v] = DOMAIN instances[v] /\ instances'[v].lastActive = clock
        /\ \A w \in DOMAIN instances \ {v} : instances'[w] = instances[w]
    BY <1>2, <2>1 DEF Enter, Touch, ActivityIsNoted, Columns
  <2>3. /\ DOMAIN usedAt' = DOMAIN usedAt /\ usedAt'[v] = clock
        /\ \A w \in DOMAIN usedAt \ {v} : usedAt'[w] = usedAt[w]
    BY <1>2, <2>1 DEF Enter, ActivityIsNoted
  <2> QED
    BY <2>1, <2>2, <2>3 DEF ActivityIsNoted
<1>3. ASSUME NEW c \in Calls, Create(c) \/ Edit(c)
      PROVE  ActivityIsNoted'
  <2>1. /\ DOMAIN instances' = DOMAIN instances
        /\ \A w \in DOMAIN instances : /\ DOMAIN instances'[w] = DOMAIN instances[w]
                                       /\ instances'[w].lastActive = instances[w].lastActive
    <3> DEFINE v == calls[c].token.visitor
    <3>1. CASE Create(c)
      <4>1. PICK held, given :
                instances' = [instances EXCEPT ![v].records = held, ![v].receipts = given]
        BY <3>1 DEF Create
      <4> QED
        BY <4>1
    <3>2. CASE Edit(c)
      <4>1. PICK held : instances' = [instances EXCEPT ![v].records = held]
        BY <3>2 DEF Edit
      <4> QED
        BY <4>1
    <3> QED
      BY <1>3, <3>1, <3>2
  <2>2. UNCHANGED <<clock, usedAt, issued>>
    BY <1>3 DEF Create, Edit
  <2> QED
    BY <2>1, <2>2, KeepsActivity DEF Started
<1>4. ASSUME NEW c \in Calls, Reset(c)
      PROVE  ActivityIsNoted'
  <2> DEFINE v == calls[c].token.visitor
  <2>1. v \in Started /\ Started' = Started \cup {v}
    BY <1>4 DEF Reset, Available, Started, Token, ActivityIsNoted
  <2>2. /\ DOMAIN instances' = DOMAIN instances
        /\ \A w \in DOMAIN instances : /\ DOMAIN instances'[w] = DOMAIN instances[w]
                                       /\ instances'[w].lastActive = instances[w].lastActive
    BY <1>4 DEF Reset
  <2>3. UNCHANGED <<clock, usedAt>>
    BY <1>4 DEF Reset
  <2> QED
    BY <2>1, <2>2, <2>3, KeepsActivity
<1>5. CASE Restart
  BY <1>5, KeepsActivity DEF Restart, Active, Started
<1>6. CASE InstanceTick
  BY <1>6 DEF InstanceTick, ActivityIsNoted, Started
<1>7. CASE UNCHANGED <<clock, instances, issued, usedAt>>
  BY <1>7 DEF ActivityIsNoted, Started
<1> QED
  BY <1>1, <1>2, <1>3, <1>4, <1>5, <1>6, <1>7 DEF InstanceNext, instanceVars, Read, Repeat, Refuse

(* BusyAreKept: an instance disappears only when it has expired, or when its visitor has got no    *)
(* request through for the reclaim time (demo_instances.py, _prune_expired and _reclaim_unused).   *)
THEOREM BusyKept == InstanceSpec => BusyAreKept
<1>1. ActivityIsNoted /\ [InstanceNext]_instanceVars =>
          [\A v \in DOMAIN instances \ DOMAIN instances' :
               Live(v) => usedAt[v] <= clock - ReclaimAfter]_instanceVars
  <2> SUFFICES ASSUME ActivityIsNoted, InstanceNext,
                      NEW v \in DOMAIN instances \ DOMAIN instances', Live(v)
               PROVE  usedAt[v] <= clock - ReclaimAfter
    BY DEF instanceVars
  <2>1. ASSUME NEW w \in Visitors, StartVisitor(w)
        PROVE  usedAt[v] <= clock - ReclaimAfter
    <3>1. PICK gone \in Pruned(Batch), evicted \in (IF Full THEN Reclaimed ELSE {{}}) :
              instances' = [u \in (DOMAIN instances \ (gone \cup evicted)) \cup {w} |->
                               IF u = w THEN Fresh ELSE instances[u]]
      BY <2>1 DEF StartVisitor
    <3>2. v \in Active /\ v \notin gone
      BY <3>1 DEF Pruned, Active
    <3>3. v \in evicted
      BY <3>1, <3>2
    <3>4. v \in Unused
      BY <3>1, <3>3 DEF Reclaimed
    <3>5. ReclaimAfter \in Int
      BY LimitsAssumption
    <3> QED
      BY <3>4, <3>5 DEF Unused, ActivityIsNoted
  <2>2. CASE Restart
    BY <2>2 DEF Restart, Active
  <2>3. ASSUME DOMAIN instances' = DOMAIN instances
        PROVE  usedAt[v] <= clock - ReclaimAfter
    BY <2>3
  <2>4. ASSUME NEW c \in Calls, NEW t \in issued, Enter(c, t)
        PROVE  DOMAIN instances' = DOMAIN instances
    BY <2>4 DEF Enter, Touch
  <2> QED
    BY <2>1, <2>2, <2>3, <2>4 DEF InstanceNext, Read, Create, Repeat, Edit, Reset, Refuse, InstanceTick
<1> QED
  BY InitActivity, StepActivity, <1>1, PTL DEF InstanceSpec, BusyAreKept

-----------------------------------------------------------------------------
(* Instances are whole, and a create retried under its key makes one record. *)

DatesFit(v) ==
    /\ instances[v].generation \in Int /\ instances[v].expires \in Int /\ instances[v].idle \in Int
    /\ instances[v].expires <= clock + Absolute

ContentsFit(v) ==
    /\ Seed \subseteq DOMAIN instances[v].records
    /\ IsFiniteSet(DOMAIN instances[v].records)
    /\ Cardinality(DOMAIN instances[v].records) <= RecordLimit
    /\ \A k \in DOMAIN instances[v].receipts : instances[v].receipts[k] \in DOMAIN instances[v].records

(* A visitor's logins are for its newest token, and one outlives the instance. *)
LoginsFit(v) ==
    /\ \A l \in logins : l.token.visitor = v => l.token = Token(v, instances[v].generation)
    /\ instances[v].expires > clock => \E l \in logins : l.token.visitor = v /\ l.expires >= instances[v].expires

(* What this generation answered is in its receipts, and no later generation has answered. *)
AnswersFit(v) ==
    \A m \in made : m.token.visitor = v =>
        /\ m.token.generation \in Int /\ m.token.generation <= instances[v].generation
        /\ m.token.generation = instances[v].generation =>
              m.key \in DOMAIN instances[v].receipts /\ instances[v].receipts[m.key] = m.record

HistoryFits ==
    /\ clock \in Int
    /\ \A l \in logins : l.token.visitor \in Started /\ l.expires \in Int
    /\ \A m \in made : m.token.visitor \in Started

CapacityFits == IsFiniteSet(DOMAIN instances) /\ Cardinality(Active) <= ActiveLimit

InstanceFits(v) == DatesFit(v) /\ ContentsFit(v) /\ LoginsFit(v) /\ AnswersFit(v)

WholeInv == 
    /\ ActivityIsNoted /\ HistoryFits /\ CapacityFits /\ PrivateKeyMeansOneRecord
    /\ \A v \in DOMAIN instances : InstanceFits(v)

(* The limits as numbers. *)
LEMMA Limits ==
    /\ {ActiveLimit, RecordLimit, Absolute, IdleFor, TokenAge} \subseteq Int /\ Absolute >= 0
    /\ TokenAge \in Int /\ Absolute <= TokenAge
    /\ IsFiniteSet(Seed) /\ Cardinality(Seed) <= RecordLimit
  BY LimitsAssumption

(* The earlier of two times is one of them. *)
LEMMA EarlierOfTwo ==
    ASSUME NEW a \in Int, NEW b \in Int
    PROVE  Min({a, b}) \in {a, b} /\ Min({a, b}) <= a /\ Min({a, b}) <= b
<1>1. \E x \in {a, b} : \A y \in {a, b} : x =< y
  OBVIOUS
<1> QED
  BY <1>1 DEF Min

(* No instance, no login and no answer. *)
LEMMA InitWhole == InstanceInit => WholeInv
<1> SUFFICES ASSUME InstanceInit PROVE WholeInv
  OBVIOUS
<1>1. CapacityFits
  <2>1. DOMAIN instances = {}
    BY DEF InstanceInit
  <2>2. Active = {}
    BY <2>1 DEF Active
  <2> QED
    BY <2>1, <2>2, FS_EmptySet, LimitsAssumption DEF CapacityFits
<1> QED
  BY <1>1, InitActivity DEF InstanceInit, WholeInv, HistoryFits, PrivateKeyMeansOneRecord

(* Instances that are active were active: capacity holds. *)
LEMMA NoMoreActive ==
    ASSUME CapacityFits, DOMAIN instances' \subseteq DOMAIN instances, Active' \subseteq Active
    PROVE  CapacityFits'
<1>1. IsFiniteSet(Active)
  BY FS_Subset DEF CapacityFits, Active
<1>2. IsFiniteSet(DOMAIN instances') /\ Cardinality(Active') <= Cardinality(Active)
  BY <1>1, FS_Subset DEF CapacityFits
<1>3. Cardinality(Active') \in Nat /\ Cardinality(Active) \in Nat /\ ActiveLimit \in Nat
  BY <1>1, FS_Subset, FS_CardinalityType, LimitsAssumption
<1> QED
  BY <1>2, <1>3 DEF CapacityFits

(* A new instance, in the place of the expired and, at capacity, of one unused. *)
LEMMA WholeStart ==
    ASSUME WholeInv, NEW v \in Visitors, StartVisitor(v)
    PROVE  WholeInv'
<1>1. PICK gone \in Pruned(Batch), evicted \in (IF Full THEN Reclaimed ELSE {{}}) :
          instances' = [w \in (DOMAIN instances \ (gone \cup evicted)) \cup {v} |->
                           IF w = v THEN Fresh ELSE instances[w]]
  BY DEF StartVisitor
<1>2. /\ clock' = clock /\ made' = made /\ issued' = issued \cup {Token(v, 1)}
      /\ logins' = {l \in logins : l.expires >= clock} \cup
                      {[token |-> Token(v, 1), expires |-> clock + TokenAge]}
  BY DEF StartVisitor
<1>3. Token(v, 1).visitor = v /\ Token(v, 1).generation = 1 /\ Started' = Started \cup {v} /\ v \notin Started
  <2>1. Token(v, 1).visitor = v /\ Token(v, 1).generation = 1
    BY DEF Token
  <2> QED
    BY <1>2, <2>1 DEF Started, StartVisitor
<1>4. ActivityIsNoted'
  BY StepActivity DEF WholeInv, InstanceNext
<1>5. HistoryFits'
  BY <1>2, <1>3, Limits DEF WholeInv, HistoryFits
<1>6. v \notin DOMAIN instances /\ DOMAIN instances \subseteq Started
  BY <1>3 DEF WholeInv, ActivityIsNoted
<1>7. CapacityFits'
  <2>1. Active' \subseteq (Active \ evicted) \cup {v}
    BY <1>1, <1>2, <1>6 DEF Active, Live
  <2>2. /\ IsFiniteSet(Active) /\ Cardinality(Active) \in Nat
        /\ IsFiniteSet(DOMAIN instances) /\ Cardinality(Active) <= ActiveLimit /\ ActiveLimit \in Nat
    BY FS_Subset, FS_CardinalityType, LimitsAssumption DEF WholeInv, CapacityFits, Active
  <2>3. IsFiniteSet(DOMAIN instances')
    <3>1. IsFiniteSet(DOMAIN instances \ (gone \cup evicted))
      BY <2>2, FS_Subset
    <3> QED
      BY <1>1, <3>1, FS_AddElement
  <2>4. /\ IsFiniteSet(Active \ evicted) /\ Cardinality(Active \ evicted) \in Nat
        /\ Cardinality(Active \ evicted) + 1 <= ActiveLimit
    <3>1. CASE Full
      <4>1. PICK u \in Active : evicted = {u}
        BY <1>1, <3>1 DEF Reclaimed, Unused
      <4>2. Active \ evicted = Active \ {u}
        BY <4>1
      <4>3. IsFiniteSet(Active \ {u}) /\ Cardinality(Active \ {u}) = Cardinality(Active) - 1
        BY <2>2, FS_RemoveElement
      <4>4. Cardinality(Active \ {u}) \in Nat
        BY <4>3, FS_CardinalityType
      <4> QED
        BY <2>2, <4>2, <4>3, <4>4
    <3>2. CASE ~Full
      <4>1. evicted = {} /\ Active \ evicted = Active
        BY <1>1, <3>2
      <4> QED
        BY <2>2, <3>2, <4>1 DEF Full
    <3> QED
      BY <3>1, <3>2
  <2>5. /\ IsFiniteSet((Active \ evicted) \cup {v})
        /\ Cardinality((Active \ evicted) \cup {v}) <= ActiveLimit
        /\ Cardinality((Active \ evicted) \cup {v}) \in Nat
    <3>1. /\ IsFiniteSet((Active \ evicted) \cup {v})
          /\ \/ Cardinality((Active \ evicted) \cup {v}) = Cardinality(Active \ evicted)
             \/ Cardinality((Active \ evicted) \cup {v}) = Cardinality(Active \ evicted) + 1
      BY <2>4, FS_AddElement
    <3>2. Cardinality((Active \ evicted) \cup {v}) \in Nat
      BY <3>1, FS_CardinalityType
    <3> QED
      BY <2>2, <2>4, <3>1, <3>2
  <2>6. Cardinality(Active') <= Cardinality((Active \ evicted) \cup {v}) /\ Cardinality(Active') \in Nat
    BY <2>1, <2>5, FS_Subset, FS_CardinalityType
  <2> QED
    BY <2>2, <2>3, <2>5, <2>6 DEF CapacityFits
<1>8. InstanceFits(v)'
  <2>1. instances'[v] = Fresh
    BY <1>1
  <2>2. DatesFit(v)'
    BY <2>1, <1>2, Limits DEF Fresh, DatesFit, WholeInv, HistoryFits
  <2>3. ContentsFit(v)'
    <3>1. DOMAIN instances'[v].records = Seed /\ DOMAIN instances'[v].receipts = {}
      BY <2>1 DEF Fresh, Seeded
    <3> QED
      BY <3>1, Limits DEF ContentsFit
  <2>4. LoginsFit(v)'
    <3>1. \A l \in logins' : l.token.visitor = v => l = [token |-> Token(v, 1), expires |-> clock + TokenAge]
      BY <1>2, <1>3 DEF WholeInv, HistoryFits
    <3>2. instances'[v].generation = 1 /\ instances'[v].expires = clock + Absolute
      BY <2>1 DEF Fresh
    <3>3. [token |-> Token(v, 1), expires |-> clock + TokenAge] \in logins'
      BY <1>2
    <3>4. clock + TokenAge >= clock + Absolute
      BY Limits DEF WholeInv, HistoryFits
    <3> QED
      BY <1>3, <3>1, <3>2, <3>3, <3>4 DEF LoginsFit, Token
  <2>5. AnswersFit(v)'
    BY <1>2, <1>3 DEF AnswersFit, WholeInv, HistoryFits
  <2> QED
    BY <2>2, <2>3, <2>4, <2>5 DEF InstanceFits
<1>9. ASSUME NEW w \in DOMAIN instances' \ {v}
      PROVE  InstanceFits(w)'
  <2>1. w \in DOMAIN instances /\ instances'[w] = instances[w] /\ w # v
    BY <1>1
  <2>2. InstanceFits(w)
    BY <2>1 DEF WholeInv
  <2>3. DatesFit(w)' /\ ContentsFit(w)' /\ AnswersFit(w)'
    BY <1>2, <2>1, <2>2 DEF InstanceFits, DatesFit, ContentsFit, AnswersFit
  <2>4. LoginsFit(w)'
    <3>1. \A l \in logins' : l.token.visitor = w => l \in logins
      BY <1>2, <1>3, <2>1
    <3>2. \A l \in logins : l.expires >= instances[w].expires /\ instances[w].expires > clock => l \in logins'
      BY <1>2, <2>2 DEF InstanceFits, DatesFit, WholeInv, HistoryFits
    <3> QED
      BY <1>2, <2>1, <2>2, <3>1, <3>2 DEF InstanceFits, LoginsFit
  <2> QED
    BY <2>3, <2>4 DEF InstanceFits
<1>10. PrivateKeyMeansOneRecord'
  BY <1>2 DEF WholeInv, PrivateKeyMeansOneRecord
<1> QED
  BY <1>4, <1>5, <1>7, <1>8, <1>9, <1>10 DEF WholeInv

(* A change to one active instance, which others do not notice. *)
LEMMA OneChanges ==
    ASSUME WholeInv, NEW v \in Active, clock' = clock, ActivityIsNoted', HistoryFits',
           PrivateKeyMeansOneRecord', DOMAIN instances' = DOMAIN instances,
           \A w \in DOMAIN instances \ {v} : instances'[w] = instances[w],
           \A l \in logins \cup logins' : l.token.visitor # v => l \in logins \cap logins',
           \A m \in made' \ made : m.token.visitor = v,
           InstanceFits(v)'
    PROVE  WholeInv'
<1>1. ASSUME NEW w \in DOMAIN instances \ {v}
      PROVE  InstanceFits(w)'
  <2>1. InstanceFits(w) /\ instances'[w] = instances[w]
    BY DEF WholeInv
  <2> QED
    BY <2>1 DEF InstanceFits, DatesFit, ContentsFit, LoginsFit, AnswersFit
<1>2. CapacityFits'
  BY NoMoreActive DEF WholeInv, Active, Live
<1> QED
  BY <1>1, <1>2 DEF WholeInv

(* What Touch and Reset compute of an idle deadline. *)
(* An instance becomes idle at a time. *)
LEMMA IdleIsNumber ==
    ASSUME WholeInv, NEW v \in DOMAIN instances
    PROVE  IdleUntil(v) \in Int
<1>1. instances[v].expires \in Int /\ clock + IdleFor \in Int
  BY Limits DEF WholeInv, InstanceFits, DatesFit, HistoryFits
<1> QED
  BY <1>1, EarlierOfTwo DEF IdleUntil

(* Requests are let through to active instances only. *)
LEMMA AvailableIsActive ==
    ASSUME NEW t, Available(t)
    PROVE  t.visitor \in Active /\ t.visitor \in DOMAIN instances
  BY DEF Available, Active

(* A request let through moves the idle time of its instance. *)
LEMMA WholeEnter ==
    ASSUME WholeInv, NEW c \in Calls, NEW t \in issued, Enter(c, t)
    PROVE  WholeInv'
<1> DEFINE v == t.visitor
<1>1. v \in Active /\ v \in DOMAIN instances
  BY AvailableIsActive DEF Enter
<1>2. UNCHANGED <<clock, logins, issued, made>> /\ instances' = Touch(v)
  BY DEF Enter
<1>3. ActivityIsNoted' /\ ActivityIsNoted
  BY StepActivity DEF WholeInv, InstanceNext
<1>4. /\ DOMAIN instances' = DOMAIN instances
      /\ \A w \in DOMAIN instances \ {v} : instances'[w] = instances[w]
      /\ instances'[v] = [instances[v] EXCEPT !.idle = IdleUntil(v), !.lastActive = clock]
  BY <1>1, <1>2 DEF Touch
<1>5. /\ instances'[v].idle = IdleUntil(v) /\ instances'[v].generation = instances[v].generation
      /\ instances'[v].expires = instances[v].expires /\ instances'[v].records = instances[v].records
      /\ instances'[v].receipts = instances[v].receipts
  BY <1>1, <1>3, <1>4 DEF ActivityIsNoted, Columns
<1>6. InstanceFits(v)'
  BY <1>1, <1>2, <1>5, IdleIsNumber DEF WholeInv, InstanceFits, DatesFit, ContentsFit, LoginsFit, AnswersFit
<1> HIDE DEF v
<1>7. HistoryFits' /\ PrivateKeyMeansOneRecord'
  BY <1>2 DEF WholeInv, HistoryFits, PrivateKeyMeansOneRecord, Started
<1> QED
  BY <1>1, <1>2, <1>3, <1>4, <1>6, <1>7, OneChanges

(* A create adds a record, below the limit, and a receipt for it if it has a key. *)
LEMMA WholeCreate ==
    ASSUME WholeInv, NEW c \in Calls, Create(c)
    PROVE  WholeInv'
<1> DEFINE ask == calls[c]
<1> PICK v : v = ask.token.visitor
  OBVIOUS
<1> DEFINE r == <<ask.kind, NewNumber(instances[v].records, ask.kind)>>
<1>1. v \in Active /\ v \in DOMAIN instances /\ instances[v].generation = ask.token.generation
  BY AvailableIsActive DEF Create, Available
<1>2. /\ UNCHANGED <<clock, logins, issued>> /\ ask.key \notin DOMAIN instances[v].receipts
      /\ made' = Answer(ask, r) /\ Creatable(ask)
  BY DEF Create
<1>3. ActivityIsNoted' /\ ActivityIsNoted
  BY StepActivity DEF WholeInv, InstanceNext
<1>4. instances' = [instances EXCEPT
             ![v].records = With(instances[v].records, r),
             ![v].receipts = [k \in DOMAIN instances[v].receipts \cup ({ask.key} \ {NoKey}) |->
                                 IF k = ask.key THEN r ELSE instances[v].receipts[k]]]
  BY DEF Create
<1>5. r \notin DOMAIN instances[v].records /\ HasRoom(instances[v].records)
  BY <1>2 DEF Creatable
<1> HIDE DEF r
<1>6. /\ DOMAIN instances' = DOMAIN instances
      /\ \A w \in DOMAIN instances \ {v} : instances'[w] = instances[w]
      /\ instances'[v].idle = instances[v].idle /\ instances'[v].generation = instances[v].generation
      /\ instances'[v].expires = instances[v].expires
      /\ instances'[v].records = With(instances[v].records, r)
      /\ instances'[v].receipts =
            [k \in DOMAIN instances[v].receipts \cup ({ask.key} \ {NoKey}) |->
                IF k = ask.key THEN r ELSE instances[v].receipts[k]]
  BY <1>1, <1>3, <1>4 DEF ActivityIsNoted, Columns
<1>7. \A m \in made' \ made : m.token = ask.token /\ m.key = ask.key /\ m.record = r /\ ask.key # NoKey
  BY <1>2 DEF Answer
<1>8. InstanceFits(v)
  BY <1>1 DEF WholeInv
<1>9. ContentsFit(v)'
  <2> DEFINE R == DOMAIN instances[v].records
  <2>1. DOMAIN instances'[v].records = R \cup {r}
    BY <1>6 DEF With
  <2>2. IsFiniteSet(R) /\ Cardinality(R) \in Nat /\ Cardinality(R) < RecordLimit /\ RecordLimit \in Nat
    BY <1>5, <1>8, FS_CardinalityType, LimitsAssumption DEF InstanceFits, ContentsFit, HasRoom
  <2>3. r \notin R
    BY <1>5
  <2> HIDE DEF R
  <2>4. IsFiniteSet(R \cup {r}) /\ Cardinality(R \cup {r}) = Cardinality(R) + 1
    BY <2>2, <2>3, FS_AddElement
  <2>5. Cardinality(R \cup {r}) <= RecordLimit
    BY <2>2, <2>4
  <2>6. \A k \in DOMAIN instances'[v].receipts : instances'[v].receipts[k] \in R \cup {r}
    BY <1>6, <1>8, ZenonT(60) DEF InstanceFits, ContentsFit, R
  <2>7. Seed \subseteq R
    BY <1>8 DEF InstanceFits, ContentsFit, R
  <2> QED
    BY <2>1, <2>4, <2>5, <2>6, <2>7 DEF ContentsFit
<1>10. AnswersFit(v)'
  <2> SUFFICES ASSUME NEW m \in made', m.token.visitor = v
               PROVE  /\ m.token.generation \in Int /\ m.token.generation <= instances'[v].generation
                      /\ m.token.generation = instances'[v].generation =>
                            m.key \in DOMAIN instances'[v].receipts /\ instances'[v].receipts[m.key] = m.record
    BY DEF AnswersFit
  <2>1. CASE m \in made
    BY <1>2, <1>6, <1>8, <2>1 DEF InstanceFits, AnswersFit
  <2>2. CASE m \notin made
    BY <1>1, <1>6, <1>7, <1>8, <2>2 DEF InstanceFits, DatesFit
  <2> QED
    BY <2>1, <2>2
<1>11. InstanceFits(v)'
  BY <1>2, <1>6, <1>8, <1>9, <1>10 DEF InstanceFits, DatesFit, LoginsFit
<1>12. HistoryFits'
  BY <1>1, <1>2, <1>3, <1>7 DEF WholeInv, HistoryFits, Started, ActivityIsNoted
<1>13. PrivateKeyMeansOneRecord'
  <2>1. \A b \in made : b.token = ask.token => b.key # ask.key
    BY <1>1, <1>2, <1>8 DEF InstanceFits, AnswersFit
  <2> QED
    BY <1>7, <2>1 DEF WholeInv, PrivateKeyMeansOneRecord
<1>14. \A m \in made' \ made : m.token.visitor = v
  BY <1>7
<1> QED
  BY <1>1, <1>2, <1>3, <1>6, <1>11, <1>12, <1>13, <1>14, OneChanges

(* A create repeated under its key is answered with the record of its receipt. *)
LEMMA WholeRepeat ==
    ASSUME WholeInv, NEW c \in Calls, Repeat(c)
    PROVE  WholeInv'
<1> DEFINE ask == calls[c]
<1> PICK v : v = ask.token.visitor
  OBVIOUS
<1> DEFINE r == instances[v].receipts[ask.key]
<1>1. v \in Active /\ v \in DOMAIN instances /\ instances[v].generation = ask.token.generation
  BY AvailableIsActive DEF Repeat, Available
<1>2. /\ UNCHANGED <<clock, instances, logins, issued>> /\ ask.key \in DOMAIN instances[v].receipts
      /\ made' = Answer(ask, r)
  BY DEF Repeat
<1>3. ActivityIsNoted' /\ ActivityIsNoted
  BY StepActivity DEF WholeInv, InstanceNext
<1>4. \A m \in made' \ made : m.token = ask.token /\ m.key = ask.key /\ m.record = r
  BY <1>2 DEF Answer
<1>5. InstanceFits(v)
  BY <1>1 DEF WholeInv
<1>6. AnswersFit(v)'
  <2> SUFFICES ASSUME NEW m \in made', m.token.visitor = v
               PROVE  /\ m.token.generation \in Int /\ m.token.generation <= instances[v].generation
                      /\ m.token.generation = instances[v].generation =>
                            m.key \in DOMAIN instances[v].receipts /\ instances[v].receipts[m.key] = m.record
    BY <1>2 DEF AnswersFit
  <2>1. CASE m \in made
    BY <1>5, <2>1 DEF InstanceFits, AnswersFit
  <2>2. CASE m \notin made
    <3>1. m.token = ask.token /\ m.key = ask.key /\ m.record = r
      BY <1>4, <2>2
    <3>2. instances[v].generation \in Int
      BY <1>5 DEF InstanceFits, DatesFit
    <3> QED
      BY <1>1, <1>2, <3>1, <3>2
  <2> QED
    BY <2>1, <2>2
<1>7. InstanceFits(v)'
  BY <1>2, <1>5, <1>6 DEF InstanceFits, DatesFit, ContentsFit, LoginsFit
<1>8. HistoryFits'
  BY <1>1, <1>2, <1>3, <1>4 DEF WholeInv, HistoryFits, Started, ActivityIsNoted
<1>9. PrivateKeyMeansOneRecord'
  <2>1. \A b \in made : b.token = ask.token /\ b.key = ask.key => b.record = r
    BY <1>1, <1>5 DEF InstanceFits, AnswersFit
  <2> QED
    BY <1>4, <2>1 DEF WholeInv, PrivateKeyMeansOneRecord
<1>10. \A m \in made' \ made : m.token.visitor = v
  BY <1>4
<1> QED
  BY <1>1, <1>2, <1>3, <1>7, <1>8, <1>9, <1>10, OneChanges

(* An edit changes a record that is there. *)
LEMMA WholeEdit ==
    ASSUME WholeInv, NEW c \in Calls, Edit(c)
    PROVE  WholeInv'
<1> PICK v : v = calls[c].token.visitor
  OBVIOUS
<1>1. v \in Active /\ v \in DOMAIN instances
  BY AvailableIsActive DEF Edit, Editable
<1>2. /\ UNCHANGED <<clock, logins, issued, made>>
      /\ instances' = [instances EXCEPT ![v].records[calls[c].record] = @ + 1]
  BY DEF Edit
<1>3. ActivityIsNoted' /\ ActivityIsNoted
  BY StepActivity DEF WholeInv, InstanceNext
<1>4. /\ DOMAIN instances' = DOMAIN instances
      /\ \A w \in DOMAIN instances \ {v} : instances'[w] = instances[w]
      /\ instances'[v].idle = instances[v].idle /\ instances'[v].generation = instances[v].generation
      /\ instances'[v].expires = instances[v].expires
      /\ DOMAIN instances'[v].records = DOMAIN instances[v].records
      /\ instances'[v].receipts = instances[v].receipts
  BY <1>1, <1>2, <1>3 DEF ActivityIsNoted, Columns
<1>5. InstanceFits(v)'
  <2>1. InstanceFits(v)
    BY <1>1 DEF WholeInv
  <2>2. DatesFit(v)' /\ ContentsFit(v)'
    BY <1>2, <1>4, <2>1 DEF InstanceFits, DatesFit, ContentsFit
  <2>3. LoginsFit(v)' /\ AnswersFit(v)'
    BY <1>2, <1>4, <2>1, ZenonT(60) DEF InstanceFits, LoginsFit, AnswersFit
  <2> QED
    BY <2>2, <2>3 DEF InstanceFits
<1>6. HistoryFits' /\ PrivateKeyMeansOneRecord'
  BY <1>2 DEF WholeInv, HistoryFits, PrivateKeyMeansOneRecord, Started
<1> QED
  BY <1>1, <1>2, <1>3, <1>4, <1>5, <1>6, OneChanges

(* A reset begins a new generation, whose token replaces the visitor's logins. *)
LEMMA WholeReset ==
    ASSUME WholeInv, NEW c \in Calls, Reset(c)
    PROVE  WholeInv'
<1> PICK v : v = calls[c].token.visitor
  OBVIOUS
<1> PICK g : g = instances[v].generation + 1
  OBVIOUS
<1> DEFINE new == [token |-> Token(v, g), expires |-> clock + TokenAge]
<1>1. v \in Active /\ v \in DOMAIN instances
  BY AvailableIsActive DEF Reset
<1>2. /\ UNCHANGED <<clock, made>>
      /\ instances' = [instances EXCEPT
             ![v] = [@ EXCEPT !.generation = g, !.idle = IdleUntil(v), !.records = Seeded, !.receipts = <<>>]]
      /\ logins' = LoginsWithout(v) \cup {new} /\ issued' = issued \cup {Token(v, g)}
  BY DEF Reset, Token
<1>3. ActivityIsNoted' /\ ActivityIsNoted /\ v \in Started
  BY <1>1, StepActivity DEF WholeInv, InstanceNext, ActivityIsNoted
<1>4. InstanceFits(v) /\ g \in Int /\ new.token.visitor = v /\ Token(v, g).visitor = v
  <2>1. InstanceFits(v)
    BY <1>1 DEF WholeInv
  <2> QED
    BY <2>1 DEF InstanceFits, DatesFit, Token
<1>5. /\ DOMAIN instances' = DOMAIN instances
      /\ \A w \in DOMAIN instances \ {v} : instances'[w] = instances[w]
      /\ instances'[v].idle = IdleUntil(v) /\ instances'[v].generation = g
      /\ instances'[v].expires = instances[v].expires
      /\ instances'[v].records = Seeded /\ instances'[v].receipts = <<>>
  BY <1>1, <1>2, <1>3 DEF ActivityIsNoted, Columns
<1>6. LoginsFit(v)'
  <2>1. \A l \in logins' : l.token.visitor = v => l = new
    BY <1>2 DEF LoginsWithout
  <2>2. new \in logins' /\ new.expires = clock + TokenAge /\ new.token = Token(v, g)
    BY <1>2
  <2>3. instances[v].expires \in Int /\ instances[v].expires <= clock + Absolute /\ clock \in Int
    BY <1>4 DEF InstanceFits, DatesFit, WholeInv, HistoryFits
  <2>4. clock + TokenAge >= instances[v].expires
    BY <2>3, Limits
  <2> HIDE DEF new
  <2> QED
    BY <1>4, <1>5, <2>1, <2>2, <2>4 DEF LoginsFit
<1>7. AnswersFit(v)'
  <2>0. made' = made /\ instances'[v].generation = g /\ g \in Int
    BY <1>2, <1>4, <1>5
  <2> SUFFICES ASSUME NEW m \in made, m.token.visitor = v
               PROVE  m.token.generation \in Int /\ m.token.generation < g
    BY <2>0 DEF AnswersFit
  <2>1. instances[v].generation \in Int
    BY <1>4 DEF InstanceFits, DatesFit
  <2>2. m.token.generation \in Int /\ m.token.generation <= instances[v].generation
    BY <1>4 DEF InstanceFits, AnswersFit
  <2> QED
    BY <2>1, <2>2
<1>8. DatesFit(v)'
  BY <1>1, <1>2, <1>4, <1>5, IdleIsNumber DEF InstanceFits, DatesFit
<1>9. ContentsFit(v)'
  BY <1>5, Limits DEF ContentsFit, Seeded
<1>10. HistoryFits'
  <2>1. Started' = Started
    BY <1>2, <1>3, <1>4 DEF Started
  <2>2. new.expires \in Int
    BY Limits DEF WholeInv, HistoryFits
  <2> QED
    BY <1>2, <1>3, <1>4, <2>1, <2>2 DEF WholeInv, HistoryFits, LoginsWithout
<1>11. PrivateKeyMeansOneRecord'
  BY <1>2 DEF WholeInv, PrivateKeyMeansOneRecord
<1>12. \A l \in logins \cup logins' : l.token.visitor # v => l \in logins \cap logins'
  BY <1>2, <1>4 DEF LoginsWithout
<1>13. InstanceFits(v)'
  BY <1>6, <1>7, <1>8, <1>9 DEF InstanceFits
<1> QED
  BY <1>1, <1>2, <1>3, <1>5, <1>10, <1>11, <1>12, <1>13, OneChanges

(* A restart prunes the expired instances. *)
LEMMA WholeRestart ==
    ASSUME WholeInv, Restart
    PROVE  WholeInv'
<1>1. /\ DOMAIN instances' = Active /\ \A v \in Active : instances'[v] = instances[v]
      /\ UNCHANGED <<clock, logins, issued, made>> /\ Active \subseteq DOMAIN instances
  BY DEF Restart, Active
<1>2. ActivityIsNoted'
  BY StepActivity DEF WholeInv, InstanceNext
<1>3. CapacityFits'
  BY <1>1, NoMoreActive DEF WholeInv, Active, Live
<1>4. ASSUME NEW v \in Active
      PROVE  InstanceFits(v)'
  <2>1. InstanceFits(v) /\ instances'[v] = instances[v]
    BY <1>1 DEF WholeInv
  <2> QED
    BY <1>1, <2>1 DEF InstanceFits, DatesFit, ContentsFit, LoginsFit, AnswersFit
<1> QED
  BY <1>1, <1>2, <1>3, <1>4 DEF WholeInv, HistoryFits, PrivateKeyMeansOneRecord, Started

(* Time only takes instances and logins out of use. *)
LEMMA WholeTick ==
    ASSUME WholeInv, InstanceTick
    PROVE  WholeInv'
<1>1. clock \in Int /\ clock' = clock + 1 /\ UNCHANGED <<instances, logins, issued, made>>
  BY DEF InstanceTick, WholeInv, HistoryFits
<1>2. ActivityIsNoted'
  BY StepActivity DEF WholeInv, InstanceNext
<1>3. \A v \in DOMAIN instances : DatesFit(v)
  BY DEF WholeInv, InstanceFits
<1>4. CapacityFits'
  <2>1. Active' \subseteq Active
    BY <1>1, <1>3 DEF Active, Live, DatesFit
  <2> QED
    BY <1>1, <2>1, NoMoreActive DEF WholeInv
<1>5. ASSUME NEW v \in DOMAIN instances
      PROVE  InstanceFits(v)'
  <2>1. InstanceFits(v)
    BY DEF WholeInv
  <2>2. DatesFit(v)'
    BY <1>1, <2>1, Limits DEF InstanceFits, DatesFit
  <2>3. LoginsFit(v)'
    BY <1>1, <2>1 DEF InstanceFits, LoginsFit, DatesFit
  <2> QED
    BY <1>1, <2>1, <2>2, <2>3 DEF InstanceFits, ContentsFit, AnswersFit
<1> QED
  BY <1>1, <1>2, <1>4, <1>5 DEF WholeInv, HistoryFits, PrivateKeyMeansOneRecord, Started

(* One lemma per action. *)
LEMMA StepWhole == WholeInv /\ [InstanceNext]_instanceVars => WholeInv'
<1> SUFFICES ASSUME WholeInv, [InstanceNext]_instanceVars PROVE WholeInv'
  OBVIOUS
<1>1. ASSUME UNCHANGED <<clock, instances, logins, issued, usedAt, made>>
      PROVE  WholeInv'
  BY <1>1 DEF WholeInv, ActivityIsNoted, HistoryFits, CapacityFits, PrivateKeyMeansOneRecord, InstanceFits,
              DatesFit, ContentsFit, LoginsFit, AnswersFit, Active, Live, Started
<1>2. ASSUME NEW c \in Calls, Read(c) \/ Refuse(c)
      PROVE  UNCHANGED <<clock, instances, logins, issued, usedAt, made>>
  BY <1>2 DEF Read, Refuse
<1> QED
  BY <1>1, <1>2, WholeStart, WholeEnter, WholeCreate, WholeRepeat, WholeEdit, WholeReset, WholeRestart, WholeTick
  DEF InstanceNext, instanceVars

(* InstancesAreWhole: there is never an active private demo beyond the limit; each has its seeded  *)
(* records, no more records than its limit, and receipts for records it has; and the one token     *)
(* that works while it lives is its newest (demo_instances.py, allocate and reset; auth.py,        *)
(* replace_visitor_token).                                                                         *)
THEOREM InstancesWhole == InstanceSpec => []InstancesAreWhole
<1>1. WholeInv => InstancesAreWhole
  <2> SUFFICES ASSUME WholeInv PROVE InstancesAreWhole
    OBVIOUS
  <2>1. ASSUME NEW v \in DOMAIN instances, Live(v)
        PROVE  {l.token : l \in {m \in logins : m.token.visitor = v}} = {Token(v, instances[v].generation)}
    <3>1. LoginsFit(v) /\ instances[v].expires > clock
      BY <2>1 DEF WholeInv, InstanceFits, Live
    <3>2. PICK l \in logins : l.token.visitor = v
      BY <3>1 DEF LoginsFit
    <3> QED
      BY <3>1, <3>2 DEF LoginsFit
  <2> QED
    BY <2>1 DEF WholeInv, InstanceFits, ContentsFit, CapacityFits, InstancesAreWhole
<1> QED
  BY InitWhole, StepWhole, <1>1, PTL DEF InstanceSpec

-----------------------------------------------------------------------------
(* Every thread has work, with a kind and a stage. *)
Working == DOMAIN work = Workers /\ \A w \in Workers : {"does", "stage"} \subseteq DOMAIN work[w]

At(stages) == \E w \in Workers : work[w].stage \in stages

ChangesAreMarked == (\E w \in Workers : Changes(work[w])) => changed \/ overtaken

DifferencesAreMarked ==
    \/ changed \/ overtaken
    \/ issues = AllSeed
    \/ issues = <<>> /\ At({"wipe base"})
    \/ issues = <<>> /\ ~based /\ At({"wipe receipts", "fill"})

RInv == Working /\ ChangesAreMarked /\ DifferencesAreMarked

-----------------------------------------------------------------------------
(* A worker at another stage does what it did. *)
LEMMA MovesOn ==
    ASSUME Working, NEW w \in Workers, NEW stage, To(w, stage)
    PROVE  /\ Working'
           /\ work'[w].stage = stage /\ work'[w].does = work[w].does
           /\ \A u \in Workers \ {w} : work'[u] = work[u]
  BY DEF Working, To

(* A worker that ends rests, and the others go on. *)
LEMMA RestsAgain ==
    ASSUME Working, NEW w \in Workers, End(w)
    PROVE  /\ Working' /\ work'[w] = Resting
           /\ \A u \in Workers \ {w} : work'[u] = work[u]
  BY DEF Working, End, Resting

(* A resting worker takes up a job. *)
LEMMA BeginsWork ==
    ASSUME Working, NEW w \in Workers, NEW job, {"does", "stage"} \subseteq DOMAIN job, Begins(w, job)
    PROVE  /\ Working' /\ work[w] = Resting /\ work'[w] = job
           /\ \A u \in Workers \ {w} : work'[u] = work[u]
  BY DEF Working, Begins

(* The seed, and nobody at work. *)
LEMMA InitRInv == SharedInit => RInv
  BY DEF SharedInit, RInv, Working, ChangesAreMarked, DifferencesAreMarked, Resting

(* Whoever goes on to another stage changes as much, or as little, as before. *)
LEMMA GoesOn ==
    ASSUME RInv, NEW w \in Workers, NEW stage, To(w, stage), UNCHANGED <<changed, overtaken>>
    PROVE  Working' /\ ChangesAreMarked'
<1>1. /\ Working' /\ work'[w].does = work[w].does
      /\ \A u \in Workers \ {w} : work'[u] = work[u]
  BY MovesOn DEF RInv
<1>2. \A u \in Workers : Changes(work'[u]) <=> Changes(work[u])
  BY <1>1 DEF Changes
<1> QED
  BY <1>1, <1>2 DEF RInv, ChangesAreMarked

(* Whoever is done no longer changes anything. *)
LEMMA IsDone ==
    ASSUME RInv, NEW w \in Workers, End(w), UNCHANGED <<changed, overtaken>>
    PROVE  Working' /\ ChangesAreMarked'
<1>1. Working' /\ work'[w] = Resting /\ \A u \in Workers \ {w} : work'[u] = work[u]
  BY RestsAgain DEF RInv
<1> QED
  BY <1>1 DEF RInv, ChangesAreMarked, Changes, Resting

(* Work that begins is at no stage of a reset that has deleted anything, and takes nobody's place. *)
LEMMA BeginsAtCheck ==
    ASSUME RInv, NEW w \in Workers, NEW job, {"does", "stage"} \subseteq DOMAIN job, Begins(w, job),
           UNCHANGED <<issues, based>>, (changed \/ overtaken) => (changed \/ overtaken)',
           Changes(job) => (changed \/ overtaken)'
    PROVE  RInv'
<1>1. /\ Working' /\ work[w] = Resting /\ work'[w] = job
      /\ \A u \in Workers \ {w} : work'[u] = work[u]
  BY BeginsWork DEF RInv
<1>2. ChangesAreMarked'
  BY <1>1 DEF RInv, ChangesAreMarked
<1>3. \A u \in Workers : work[u].stage # "none" => work'[u] = work[u]
  BY <1>1 DEF Resting
<1>4. DifferencesAreMarked'
  BY <1>3 DEF RInv, DifferencesAreMarked, At
<1> QED
  BY <1>1, <1>2, <1>4 DEF RInv

(* A step of SharedRecords: an edit, a create, a stage of a reset, or time. *)
LEMMA StepRInv == RInv /\ [SharedNext]_sharedVars => RInv'
<1> SUFFICES ASSUME RInv, [SharedNext]_sharedVars PROVE RInv'
  OBVIOUS
<1>1. ASSUME NEW w \in Workers, Request(w)
      PROVE  RInv'
  <2>1. PICK job : /\ {"does", "stage"} \subseteq DOMAIN job /\ Begins(w, job)
                   /\ changed' = (changed \/ Changes(job)) /\ overtaken' = (overtaken /\ ~Changes(job))
    BY <1>1 DEF Request
  <2> QED
    BY <1>1, <2>1, BeginsAtCheck DEF Request
<1>2. ASSUME NEW w \in Workers, TurnReads(w) \/ AdministratorResets(w) \/ SignInRestores(w)
      PROVE  RInv'
  <2>1. PICK job : /\ {"does", "stage"} \subseteq DOMAIN job /\ ~Changes(job) /\ Begins(w, job)
    BY <1>2 DEF TurnReads, AdministratorResets, SignInRestores, Changes
  <2>2. UNCHANGED <<issues, based, changed, overtaken>>
    BY <1>2 DEF TurnReads, AdministratorResets, SignInRestores
  <2> QED
    BY <2>1, <2>2, BeginsAtCheck
<1>3. ASSUME NEW w \in Workers, Check(w)
      PROVE  RInv'
  <2>1. PICK stage : To(w, stage)
    BY <1>3 DEF Check
  <2>2. \A u \in Workers : work[u].stage # "check" => work'[u] = work[u]
    BY <1>3, <2>1, MovesOn DEF Check, RInv
  <2> QED
    BY <1>3, <2>1, <2>2, GoesOn DEF Check, RInv, DifferencesAreMarked, At
<1>4. ASSUME NEW w \in Workers, WipeRecords(w)
      PROVE  RInv'
  <2>1. work'[w].stage = "wipe base"
    BY <1>4, MovesOn DEF WipeRecords, RInv
  <2> QED
    BY <1>4, <2>1, GoesOn DEF WipeRecords, RInv, DifferencesAreMarked, At
<1>5. ASSUME NEW w \in Workers, WipeBase(w)
      PROVE  RInv'
  <2>1. work'[w].stage = "wipe receipts"
    BY <1>5, MovesOn DEF WipeBase, RInv
  <2> QED
    BY <1>5, <2>1, GoesOn DEF WipeBase, RInv, DifferencesAreMarked, At
<1>6. ASSUME NEW w \in Workers, WipeReceipts(w)
      PROVE  RInv'
  <2>1. work'[w].stage = "fill" /\ \A u \in Workers \ {w} : work'[u] = work[u]
    BY <1>6, MovesOn DEF WipeReceipts, RInv
  <2> QED
    BY <1>6, <2>1, GoesOn DEF WipeReceipts, RInv, DifferencesAreMarked, At
<1>7. ASSUME NEW w \in Workers, Fill(w)
      PROVE  RInv'
  <2>1. issues = <<>> \/ issues = AllSeed => issues' = AllSeed
    BY <1>7 DEF Fill, AllSeed
  <2> QED
    BY <1>7, <2>1, GoesOn DEF Fill, RInv, DifferencesAreMarked, At
<1>8. ASSUME NEW w \in Workers, FillFails(w)
      PROVE  RInv'
  <2>1. \A u \in Workers : work[u].stage = "wipe base" => work'[u] = work[u]
    BY <1>8, RestsAgain DEF FillFails, RInv
  <2> QED
    BY <1>8, <2>1, IsDone DEF FillFails, RInv, DifferencesAreMarked, At
(* A restore that others overtook leaves its mark; any other leaves the seed. *)
<1>9. ASSUME NEW w \in Workers, EndRestore(w)
      PROVE  RInv'
  <2>1. Working' /\ work'[w] = Resting /\ \A u \in Workers \ {w} : work'[u] = work[u]
    BY <1>9, RestsAgain DEF EndRestore, RInv
  <2>2. ChangesAreMarked'
    <3> SUFFICES ASSUME NEW u \in Workers, Changes(work'[u]) PROVE overtaken'
      BY DEF ChangesAreMarked
    <3>1. u # w /\ work'[u] = work[u]
      BY <2>1 DEF Changes, Resting
    <3> QED
      BY <1>9, <3>1 DEF EndRestore, Restored
  <2>3. DifferencesAreMarked'
    BY <1>9 DEF EndRestore, Restored, DifferencesAreMarked
  <2> QED
    BY <2>1, <2>2, <2>3 DEF RInv
<1>10. ASSUME NEW w \in Workers, ReadAll(w) \/ RepeatIssue(w) \/ RefuseWork(w)
      PROVE  RInv'
  <2>1. \A u \in Workers : work[u].stage # "work" => work'[u] = work[u]
    BY <1>10, RestsAgain DEF ReadAll, RepeatIssue, RefuseWork, RInv
  <2>2. End(w) /\ UNCHANGED <<issues, based, changed, overtaken>>
    BY <1>10 DEF ReadAll, RepeatIssue, RefuseWork
  <2> QED
    BY <2>1, <2>2, IsDone DEF RInv, DifferencesAreMarked, At
(* A change was marked when it began. *)
<1>11. ASSUME NEW w \in Workers, CreateIssue(w) \/ UpdateIssue(w)
      PROVE  RInv'
  <2>1. changed \/ overtaken
    BY <1>11 DEF CreateIssue, UpdateIssue, RInv, ChangesAreMarked, Changes
  <2>2. End(w) /\ UNCHANGED <<changed, overtaken>>
    BY <1>11 DEF CreateIssue, UpdateIssue
  <2> QED
    BY <2>1, <2>2, IsDone DEF RInv, DifferencesAreMarked
<1>12. CASE ServerRestarts
  BY <1>12 DEF ServerRestarts, RInv, Working, ChangesAreMarked, DifferencesAreMarked, Resting
<1>13. CASE UNCHANGED <<issues, based, changed, overtaken, work>>
  BY <1>13 DEF RInv, Working, ChangesAreMarked, DifferencesAreMarked, At
<1> QED
  BY <1>1, <1>2, <1>3, <1>4, <1>5, <1>6, <1>7, <1>8, <1>9, <1>10, <1>11, <1>12, <1>13
  DEF SharedNext, sharedVars, SignIn, TimePasses

(* EditsAreNoticed: whenever nothing is being restored, shared records that differ from the seed  *)
(* are marked changed, so that the next idle demo is restored, or the last restore ended while a   *)
(* change was under way (demo_refresh.py, touched and restored).                                   *)
THEOREM EditsNoticed == SharedSpec => []EditsAreNoticed
<1>1. RInv => EditsAreNoticed
  BY DEF RInv, DifferencesAreMarked, At, EditsAreNoticed, Wiping
<1> QED
  BY InitRInv, StepRInv, <1>1, PTL DEF SharedSpec

(* Every answer under a key is what the key's receipt says. *)
AnswersAreReceipts ==
    \A a \in answered :
        /\ a.key \in DOMAIN receipts
        /\ a = [key |-> a.key, body |-> receipts[a.key].body, issue |-> receipts[a.key].issue]

(* A receipt is written with its answer, and dropped only with all answers of its time. *)
LEMMA StepAnswers == AnswersAreReceipts /\ [SharedNext]_sharedVars => AnswersAreReceipts'
<1> SUFFICES ASSUME AnswersAreReceipts, [SharedNext]_sharedVars PROVE AnswersAreReceipts'
  OBVIOUS
<1>1. ASSUME NEW w \in Workers, CreateIssue(w)
      PROVE  AnswersAreReceipts'
  <2> PICK key, body, number : key = work[w].key /\ body = work[w].body /\ number = NewIssue
    OBVIOUS
  <2>1. /\ key \notin DOMAIN receipts /\ answered' = answered \cup {[key |-> key, body |-> body, issue |-> number]}
        /\ receipts' = [k \in DOMAIN receipts \cup {key} |->
                          IF k = key THEN [body |-> body, issue |-> number] ELSE receipts[k]]
    BY <1>1 DEF CreateIssue
  <2> QED
    BY <2>1 DEF AnswersAreReceipts
<1>2. ASSUME NEW w \in Workers, RepeatIssue(w)
      PROVE  AnswersAreReceipts'
  <2> PICK key, body : key = work[w].key /\ body = work[w].body
    OBVIOUS
  <2>1. /\ key \in DOMAIN receipts /\ receipts[key].body = body /\ receipts' = receipts
        /\ answered' = answered \cup {[key |-> key, body |-> body, issue |-> receipts[key].issue]}
    BY <1>2 DEF RepeatIssue, SameChange
  <2> QED
    BY <2>1 DEF AnswersAreReceipts
<1>3. ASSUME NEW w \in Workers, WipeReceipts(w)
      PROVE  AnswersAreReceipts'
  BY <1>3 DEF WipeReceipts, AnswersAreReceipts
<1>4. CASE ServerRestarts
  BY <1>4 DEF ServerRestarts, AnswersAreReceipts
<1>5. ASSUME UNCHANGED <<receipts, answered>>
      PROVE  AnswersAreReceipts'
  BY <1>5 DEF AnswersAreReceipts
<1>6. ASSUME NEW w \in Workers,
             \/ Request(w) \/ TurnReads(w) \/ AdministratorResets(w) \/ SignInRestores(w) \/ SignIn(w)
             \/ Check(w) \/ WipeRecords(w) \/ WipeBase(w)
      PROVE  AnswersAreReceipts'
  <2>1. Request(w) => UNCHANGED <<receipts, answered>>
    BY DEF Request
  <2>2. TurnReads(w) \/ AdministratorResets(w) \/ SignInRestores(w) => UNCHANGED <<receipts, answered>>
    BY DEF TurnReads, AdministratorResets, SignInRestores
  <2>3. SignIn(w) \/ Check(w) \/ WipeRecords(w) \/ WipeBase(w) => UNCHANGED <<receipts, answered>>
    BY DEF SignIn, Check, WipeRecords, WipeBase
  <2> QED
    BY <1>5, <1>6, <2>1, <2>2, <2>3
<1>7. ASSUME NEW w \in Workers,
             \/ Fill(w) \/ FillFails(w) \/ EndRestore(w) \/ ReadAll(w) \/ UpdateIssue(w) \/ RefuseWork(w)
      PROVE  AnswersAreReceipts'
  BY <1>5, <1>7 DEF Fill, FillFails, EndRestore, ReadAll, UpdateIssue, RefuseWork
<1>8. CASE TimePasses \/ UNCHANGED sharedVars
  BY <1>5, <1>8 DEF TimePasses, sharedVars
<1> QED
  BY <1>1, <1>2, <1>3, <1>4, <1>6, <1>7, <1>8 DEF SharedNext

(* OneRecordPerKey: a create retried under its key is answered with the record the first try made, *)
(* in a private demo and, from one reset to the next, in the shared one (product_data_store.py,    *)
(* _private_create_record and _create_record).                                                     *)
THEOREM OneRecord == InstanceSpec /\ SharedSpec => []OneRecordPerKey
<1>1. WholeInv => PrivateKeyMeansOneRecord
  BY DEF WholeInv
<1>2. SharedInit => AnswersAreReceipts
  BY DEF SharedInit, AnswersAreReceipts
<1>3. AnswersAreReceipts => SharedKeyMeansOneRecord
  BY DEF AnswersAreReceipts, SharedKeyMeansOneRecord
<1>4. InstanceSpec => []PrivateKeyMeansOneRecord
  BY InitWhole, StepWhole, <1>1, PTL DEF InstanceSpec
<1>5. SharedSpec => []SharedKeyMeansOneRecord
  BY <1>2, StepAnswers, <1>3, PTL DEF SharedSpec
<1> QED
  BY <1>4, <1>5, PTL DEF OneRecordPerKey

-----------------------------------------------------------------------------
(* Codes open once, accounts have members, and grants fit roles. *)

Challenge == [email : Emails, used : BOOLEAN, old : BOOLEAN, tries : Nat, opened : Nat]

(* A code that has opened the door is used, and of an address's codes all but one are. *)
CodesFit ==
    /\ challenges \in Seq(Challenge)
    /\ \A c \in DOMAIN challenges :
          challenges[c].opened <= 1 /\ (challenges[c].used \/ challenges[c].opened = 0)
    /\ \A c, d \in DOMAIN challenges :
          c # d /\ challenges[c].email = challenges[d].email => challenges[c].used \/ challenges[d].used

OfOrg(u, org) == u \in DOMAIN members => members[u].org = org

(* What the work of a thread says of the person it is for. *)
AccountComes(r) ==
    doing[r].does = "account" =>
        /\ doing[r].user \in 1..users
        /\ OfOrg(doing[r].user, doing[r].org)
        /\ doing[r].user \in DOMAIN members \cup removed
        /\ \A e \in DOMAIN accounts : accounts[e].user # doing[r].user
        /\ \A q \in Threads \ {r} : doing[q].does = "account" => doing[q].user # doing[r].user

ChangeComes(r) ==
    /\ doing[r].does \in {"change", "clear"} =>
          doing[r] = [does |-> doing[r].does, user |-> doing[r].user, role |-> doing[r].role]
    /\ doing[r].does \in {"change", "clear", "products"} =>
          doing[r].user \in 1..users /\ OfOrg(doing[r].user, House)

AccountFits(e) ==
    /\ accounts[e].user \in 1..users
    /\ OfOrg(accounts[e].user, accounts[e].org)
    /\ accounts[e].user \in DOMAIN members \cup removed

PeopleFit ==
    /\ DOMAIN doing = Threads /\ users \in Nat \ {0} /\ DOMAIN members \subseteq 1..users
    /\ \A e \in DOMAIN accounts : AccountFits(e)
    /\ \A d, e \in DOMAIN accounts : accounts[d].user = accounts[e].user => d = e
    /\ \A r \in Threads : AccountComes(r) /\ ChangeComes(r)

(* Some thread will still give the user a grant on the product, or take all its grants first. *)
GrantsAll(job, u) == job.does \in {"account", "clear", "products"} /\ job.user = u
GrantsOne(job, u, p) ==
    \/ job.does \in {"maker", "everyone"} /\ job.product = p
    \/ job.does = "grant" /\ \E g \in job.rest : g.user = u /\ g.product = p
Awaits(u, p) == \E r \in Threads : GrantsAll(doing[r], u) \/ GrantsOne(doing[r], u, p)
Clears(u) == \E r \in Threads : doing[r].does = "clear" /\ doing[r].user = u

(* The grants a thread has still to make are of known users, on products that are there. *)
GrantsCome(job) ==
    /\ job.does = "maker" => job.user \in 1..users
    /\ job.does \in {"maker", "everyone"} => job.product \in DOMAIN bound
    /\ job.does = "grant" => \A g \in job.rest : g.user \in 1..users /\ g.product \in DOMAIN bound

HasGrant(u, p) ==
    \/ <<u, p>> \notin DOMAIN grants /\ Awaits(u, p)
    \/ /\ <<u, p>> \in DOMAIN grants
       /\ grants[<<u, p>>] = Reach(members[u].role) \/ u \in stale \/ bound[p] = u \/ Clears(u)

GrantsFit ==
    /\ DOMAIN bound \subseteq Products
    /\ DOMAIN grants \subseteq (1..users) \X DOMAIN bound
    /\ \A r \in Threads : GrantsCome(doing[r])
    /\ \A u \in InHouse \ cut, p \in DOMAIN bound : HasGrant(u, p)
    /\ \A g \in DOMAIN grants : g[1] \in InHouse \cup stale

(* Challenges with other contents are still a list of challenges. *)
LEMMA ContentsOfChallenges ==
    ASSUME CodesFit
    PROVE  /\ DOMAIN challenges = 1 .. Len(challenges) /\ Len(challenges) \in Nat
           /\ challenges \in [DOMAIN challenges -> Challenge]
           /\ \A f \in [DOMAIN challenges -> Challenge] : f \in Seq(Challenge) /\ Len(f) = Len(challenges)
<1>1. DOMAIN challenges = 1 .. Len(challenges) /\ Len(challenges) \in Nat
  BY SeqFacts DEF CodesFit
<1>2. challenges \in [DOMAIN challenges -> Challenge]
  BY <1>1, ElementOfSeq, SeqDef DEF CodesFit
<1> QED
  BY <1>1, <1>2, FunctionIsSeq

(* A change to one challenge which opens the door only with a live code, and closes it for good. *)
LEMMA OneChallengeChanges ==
    ASSUME CodesFit, NEW c, NEW x,
           challenges' = [challenges EXCEPT ![c] = x],
           c \in DOMAIN challenges =>
               /\ x \in Challenge /\ x.email = challenges[c].email /\ x.opened <= 1
               /\ x.used \/ x.opened = 0
               /\ challenges[c].used => x.used
    PROVE  CodesFit'
<1>1. /\ DOMAIN challenges = 1 .. Len(challenges) /\ challenges \in [DOMAIN challenges -> Challenge]
      /\ \A f \in [DOMAIN challenges -> Challenge] : f \in Seq(Challenge) /\ Len(f) = Len(challenges)
  BY ContentsOfChallenges
<1>2. challenges' \in [DOMAIN challenges -> Challenge]
  BY <1>1
<1>3. challenges' \in Seq(Challenge) /\ DOMAIN challenges' = DOMAIN challenges
  BY <1>1, <1>2
<1>4. \A d \in DOMAIN challenges : challenges'[d] = IF d = c THEN x ELSE challenges[d]
  BY <1>1
<1> QED
  BY <1>1, <1>3, <1>4 DEF CodesFit

(* A new code for an address uses up the earlier ones. *)
LEMMA RequestKeepsCodes ==
    ASSUME CodesFit, NEW r \in Threads, NEW e \in Emails, RequestCode(r, e)
    PROVE  CodesFit'
<1> DEFINE closed == [i \in DOMAIN challenges |-> IF challenges[i].email = e THEN Used(challenges[i])
                                                  ELSE challenges[i]]
           new == [email |-> e, used |-> FALSE, old |-> FALSE, tries |-> 0, opened |-> 0]
           n == Len(challenges)
<1>1. /\ DOMAIN challenges = 1 .. n /\ challenges \in [DOMAIN challenges -> Challenge] /\ n \in Nat
      /\ \A f \in [DOMAIN challenges -> Challenge] : f \in Seq(Challenge) /\ Len(f) = Len(challenges)
  BY ContentsOfChallenges
<1>2. closed \in [DOMAIN challenges -> Challenge]
  BY <1>1 DEF Used, Challenge
<1>3. closed \in Seq(Challenge) /\ Len(closed) = n /\ new \in Challenge
  BY <1>1, <1>2 DEF Challenge
<1>4. \A i \in 1 .. n : /\ closed[i].email = challenges[i].email /\ closed[i].opened = challenges[i].opened
                        /\ challenges[i].used \/ challenges[i].email = e => closed[i].used
  BY <1>1 DEF Used, Challenge
<1>5. challenges' = Append(closed, new) /\ new.email = e /\ ~new.used /\ new.opened = 0
  BY DEF RequestCode
<1> HIDE DEF closed, new, n
<1>6. /\ Append(closed, new) \in Seq(Challenge) /\ Len(Append(closed, new)) = n + 1
      /\ \A i \in 1 .. n : Append(closed, new)[i] = closed[i]
      /\ Append(closed, new)[n + 1] = new
  BY <1>3, AppendProperties
<1>7. /\ challenges' \in Seq(Challenge) /\ DOMAIN challenges' = 1 .. n + 1
      /\ \A i \in 1 .. n : challenges'[i] = closed[i]
      /\ challenges'[n + 1] = new
  <2>1. challenges' \in Seq(Challenge) /\ Len(challenges') = n + 1
    BY <1>5, <1>6
  <2>2. DOMAIN challenges' = 1 .. n + 1
    BY <2>1, LenProperties
  <2> QED
    BY <1>5, <1>6, <2>1, <2>2
<1>8. \A i \in 1 .. n + 1 : i \in 1 .. n \/ i = n + 1
  BY <1>1
<1>9. ASSUME NEW i \in DOMAIN challenges'
      PROVE  challenges'[i].opened <= 1 /\ (challenges'[i].used \/ challenges'[i].opened = 0)
  BY <1>1, <1>4, <1>5, <1>7, <1>8 DEF CodesFit
<1>10. ASSUME NEW i \in DOMAIN challenges', NEW j \in DOMAIN challenges',
              i # j, challenges'[i].email = challenges'[j].email
       PROVE  challenges'[i].used \/ challenges'[j].used
  <2>1. CASE i \in 1 .. n /\ j \in 1 .. n
    BY <1>1, <1>4, <1>7, <1>10, <2>1 DEF CodesFit
  <2>2. CASE i = n + 1 \/ j = n + 1
    BY <1>4, <1>5, <1>7, <1>8, <1>10, <2>2
  <2> QED
    BY <1>7, <1>8, <2>1, <2>2
<1> QED
  BY <1>7, <1>9, <1>10 DEF CodesFit

(* What verifying a code makes of its challenge. *)
LEMMA VerifiedFits ==
    ASSUME NEW y \in Challenge, y.opened = 0
    PROVE  LET x == [y EXCEPT !.used = TRUE, !.tries = @ + 1, !.opened = @ + 1]
           IN x \in Challenge /\ x.email = y.email /\ x.opened <= 1 /\ x.used
<1> DEFINE a == [y EXCEPT !.used = TRUE]
           b == [a EXCEPT !.tries = @ + 1]
           x == [b EXCEPT !.opened = @ + 1]
<1>1. a \in Challenge /\ a.used /\ a.email = y.email /\ a.opened = 0
  BY DEF Challenge
<1> HIDE DEF a
<1>2. b \in Challenge /\ b.used /\ b.email = y.email /\ b.opened = 0
  BY <1>1 DEF Challenge
<1> HIDE DEF b
<1>3. x \in Challenge /\ x.used /\ x.email = y.email /\ x.opened = 1
  BY <1>2 DEF Challenge
<1>4. x = [y EXCEPT !.used = TRUE, !.tries = @ + 1, !.opened = @ + 1]
  BY DEF a, b
<1> QED
  BY <1>3, <1>4

(* Challenges change by a request, a verification and time only. *)
LEMMA StepCodes == CodesFit /\ [AccountsNext]_accountVars => CodesFit'
<1> SUFFICES ASSUME CodesFit, [AccountsNext]_accountVars PROVE CodesFit'
  OBVIOUS
<1>0. challenges \in [DOMAIN challenges -> Challenge]
  BY ContentsOfChallenges
<1>1. ASSUME NEW r \in Threads, CodeNotSent(r)
      PROVE  CodesFit'
  <2> PICK c : c = doing[r].challenge
    OBVIOUS
  <2>1. challenges' = [challenges EXCEPT ![c] = Used(challenges[c])]
    BY <1>1 DEF CodeNotSent
  <2>2. c \in DOMAIN challenges =>
            /\ Used(challenges[c]) \in Challenge /\ Used(challenges[c]).email = challenges[c].email
            /\ Used(challenges[c]).opened <= 1 /\ Used(challenges[c]).used
    BY <1>0 DEF Used, Challenge, CodesFit
  <2> QED
    BY <2>1, <2>2, OneChallengeChanges
<1>2. ASSUME NEW r \in Threads, NEW c \in DOMAIN challenges, VerifyCode(r, c)
      PROVE  CodesFit'
  <2> DEFINE x == [challenges[c] EXCEPT !.used = TRUE, !.tries = @ + 1, !.opened = @ + 1]
  <2>1. challenges' = [challenges EXCEPT ![c] = x]
    BY <1>2 DEF VerifyCode
  <2>2. challenges[c] \in Challenge /\ challenges[c].opened = 0
    BY <1>0, <1>2 DEF VerifyCode, Opens, CodesFit
  <2>3. x \in Challenge /\ x.email = challenges[c].email /\ x.opened <= 1 /\ x.used
    BY <2>2, VerifiedFits
  <2> QED
    BY <2>1, <2>3, OneChallengeChanges
<1>3. ASSUME NEW c \in DOMAIN challenges, VerifyWrongCode(c) \/ Expire(c)
      PROVE  CodesFit'
  <2>1. challenges[c] \in Challenge
    BY <1>0
  <2>2. PICK x : challenges' = [challenges EXCEPT ![c] = x] /\ x \in Challenge
                 /\ x.email = challenges[c].email /\ x.opened = challenges[c].opened
                 /\ x.used = challenges[c].used
    <3>1. CASE VerifyWrongCode(c)
      <4> DEFINE x == [challenges[c] EXCEPT !.tries = @ + 1]
      <4>1. challenges' = [challenges EXCEPT ![c] = x]
        BY <3>1 DEF VerifyWrongCode
      <4>2. /\ x \in Challenge /\ x.email = challenges[c].email /\ x.opened = challenges[c].opened
            /\ x.used = challenges[c].used
        BY <2>1 DEF Challenge
      <4> QED
        BY <4>1, <4>2
    <3>2. CASE Expire(c)
      <4> DEFINE x == [challenges[c] EXCEPT !.old = TRUE]
      <4>1. challenges' = [challenges EXCEPT ![c] = x]
        BY <3>2 DEF Expire
      <4>2. /\ x \in Challenge /\ x.email = challenges[c].email /\ x.opened = challenges[c].opened
            /\ x.used = challenges[c].used
        BY <2>1 DEF Challenge
      <4> QED
        BY <4>1, <4>2
    <3> QED
      BY <1>3, <3>1, <3>2
  <2> QED
    BY <2>2, OneChallengeChanges DEF CodesFit
<1>4. ASSUME UNCHANGED challenges
      PROVE  CodesFit'
  BY <1>4 DEF CodesFit
<1>5. ASSUME NEW r \in Threads,
             \/ CodeSent(r) \/ Found(r) \/ InsertAccount(r) \/ AddressTaken(r) \/ AddMember(r) \/ SetRole(r)
             \/ ClearGrants(r) \/ DeletePerson(r) \/ ReadProducts(r) \/ GrantMaker(r) \/ ReadMembers(r) \/ Grant(r)
      PROVE  UNCHANGED challenges
  BY <1>5 DEF CodeSent, Found, InsertAccount, AddressTaken, AddMember, SetRole, ClearGrants, DeletePerson, ReadProducts,
              GrantMaker, ReadMembers, Grant, signIn
<1>6. ASSUME NEW r \in Threads,
             \/ \E e \in Emails : OpenSign(r, e) \/ \E role \in Roles : AddPerson(r, e, role)
             \/ \E u \in DOMAIN members : \/ RemovePerson(r, u) \/ \E role \in Roles : ChangePerson(r, u, role)
                                          \/ \E p \in Products : AddProduct(r, p, u)
      PROVE  UNCHANGED challenges
  BY <1>6 DEF OpenSign, AddPerson, RemovePerson, ChangePerson, AddProduct, signIn
<1>7. ASSUME \/ \E e \in Emails : HourPasses(e)
             \/ ServerStops
             \/ UNCHANGED accountVars
      PROVE  UNCHANGED challenges
  BY <1>7 DEF HourPasses, ServerStops, accountVars, signIn
<1> QED
  BY <1>1, <1>2, <1>3, <1>4, <1>5, <1>6, <1>7, RequestKeepsCodes DEF AccountsNext

-----------------------------------------------------------------------------
(* A thread has other work, and the other threads what they had. *)
LEMMA ThreadGoesOn ==
    ASSUME DOMAIN doing = Threads, NEW r \in Threads, NEW job, Now(r, job)
    PROVE  /\ DOMAIN doing' = Threads /\ doing'[r] = job
           /\ \A q \in Threads \ {r} : doing'[q] = doing[q]
  BY DEF Now

(* A thread takes up work for nobody's account, and for a person of House if it changes one. *)
LEMMA WorkKeepsPeople ==
    ASSUME PeopleFit, NEW r \in Threads, NEW job, Now(r, job), UNCHANGED people, removed \subseteq removed',
           job.does # "account",
           job.does \in {"change", "clear"} => job = [does |-> job.does, user |-> job.user, role |-> job.role],
           job.does \in {"change", "clear", "products"} => job.user \in 1..users /\ OfOrg(job.user, House)
    PROVE  PeopleFit'
<1>1. /\ DOMAIN doing' = Threads /\ doing'[r] = job
      /\ \A q \in Threads \ {r} : doing'[q] = doing[q]
  BY ThreadGoesOn DEF PeopleFit
<1>2. UNCHANGED <<accounts, members, users>>
  BY DEF people
<1>3. ASSUME NEW q \in Threads
      PROVE  AccountComes(q)' /\ ChangeComes(q)'
  <2>1. CASE q = r
    BY <1>1, <1>2, <2>1 DEF AccountComes, ChangeComes, OfOrg
  <2>2. CASE q # r
    <3>1. AccountComes(q) /\ ChangeComes(q) /\ doing'[q] = doing[q]
      BY <1>1, <2>2 DEF PeopleFit
    <3>2. AccountComes(q)'
      BY <1>1, <1>2, <3>1 DEF AccountComes, OfOrg
    <3>3. ChangeComes(q)'
      BY <1>2, <3>1 DEF ChangeComes, OfOrg
    <3> QED
      BY <3>2, <3>3
  <2> QED
    BY <2>1, <2>2
<1>4. ASSUME NEW e \in DOMAIN accounts'
      PROVE  AccountFits(e)'
  BY <1>2 DEF PeopleFit, AccountFits, OfOrg
<1> QED
  BY <1>1, <1>2, <1>3, <1>4 DEF PeopleFit

(* A new member, with an account still to come. *)
LEMMA MemberKeepsPeople ==
    ASSUME PeopleFit, NEW r \in Threads, NEW org, NEW role, NEW email, NEW u, u = users + 1,
           users' = u, members' = Entered(members, u, [org |-> org, role |-> role]), UNCHANGED <<accounts, removed>>,
           Now(r, [does |-> "account", email |-> email, user |-> u, org |-> org, role |-> role])
    PROVE  PeopleFit'
<1>1. /\ DOMAIN doing' = Threads
      /\ doing'[r] = [does |-> "account", email |-> email, user |-> u, org |-> org, role |-> role]
      /\ \A q \in Threads \ {r} : doing'[q] = doing[q]
  BY ThreadGoesOn DEF PeopleFit
<1>2. /\ DOMAIN members' = DOMAIN members \cup {u} /\ members'[u].org = org
      /\ \A w \in DOMAIN members \ {u} : members'[w] = members[w]
  BY DEF Entered
<1>3. u \in Nat \ {0} /\ 1..users \subseteq 1..u /\ u \in 1..u /\ u \notin 1..users
  BY DEF PeopleFit
<1>4. \A w \in 1..users : \A o : OfOrg(w, o) => OfOrg(w, o)'
  BY <1>2, <1>3 DEF OfOrg
<1>5. \A e \in DOMAIN accounts : accounts[e].user \in 1..users
  BY DEF PeopleFit, AccountFits
<1>6. \A q \in Threads : AccountComes(q) /\ ChangeComes(q)
  BY DEF PeopleFit
<1>7. \A q \in Threads \ {r} : doing[q].does = "account" => doing[q].user \in 1..users
  BY <1>6 DEF AccountComes
<1>8. AccountComes(r)' /\ ChangeComes(r)'
  BY <1>1, <1>2, <1>3, <1>5, <1>7 DEF AccountComes, ChangeComes, OfOrg
<1>9. ASSUME NEW q \in Threads \ {r}
      PROVE  AccountComes(q)' /\ ChangeComes(q)'
  <2>1. AccountComes(q)'
    BY <1>1, <1>2, <1>3, <1>4, <1>6, <1>7 DEF AccountComes
  <2>2. ChangeComes(q)'
    BY <1>1, <1>3, <1>4, <1>6 DEF ChangeComes
  <2> QED
    BY <2>1, <2>2
<1>10. ASSUME NEW e \in DOMAIN accounts'
      PROVE  AccountFits(e)'
  BY <1>2, <1>3, <1>4 DEF PeopleFit, AccountFits
<1>11. DOMAIN members' \subseteq 1..users'
  BY <1>2, <1>3 DEF PeopleFit
<1> QED
  BY <1>1, <1>3, <1>8, <1>9, <1>10, <1>11 DEF PeopleFit

(* An account for a user who had none. *)
LEMMA AccountKeepsPeople ==
    ASSUME PeopleFit, NEW r \in Threads, InsertAccount(r)
    PROVE  PeopleFit'
<1> PICK job : job = doing[r]
  OBVIOUS
<1>0. UNCHANGED fates /\ UNCHANGED <<members, users>>
  BY DEF InsertAccount
<1>1. /\ job.does = "account" /\ job.email \notin DOMAIN accounts
      /\ accounts' = Entered(accounts, job.email, [user |-> job.user, org |-> job.org])
      /\ UNCHANGED <<members, users, removed>>
  BY <1>0 DEF InsertAccount, Does, fates
<1>2. PICK next : /\ Now(r, next) /\ next.does \in {"nothing", "products"}
                  /\ next.does = "products" => job.org = House /\ next.user = job.user
  BY DEF InsertAccount, Idle
<1>3. /\ DOMAIN doing' = Threads /\ doing'[r] = next
      /\ \A q \in Threads \ {r} : doing'[q] = doing[q]
  BY <1>2, ThreadGoesOn DEF PeopleFit
<1>4. \A q \in Threads : AccountComes(q) /\ ChangeComes(q)
  BY DEF PeopleFit
<1>5. /\ job.user \in 1..users /\ OfOrg(job.user, job.org) /\ job.user \in DOMAIN members \cup removed
      /\ \A e \in DOMAIN accounts : accounts[e].user # job.user
      /\ \A q \in Threads \ {r} : doing[q].does = "account" => doing[q].user # job.user
  BY <1>1, <1>4 DEF AccountComes
<1>6. /\ DOMAIN accounts' = DOMAIN accounts \cup {job.email}
      /\ accounts'[job.email].user = job.user /\ accounts'[job.email].org = job.org
      /\ \A e \in DOMAIN accounts : accounts'[e] = accounts[e]
  BY <1>1 DEF Entered
<1>7. \A w, o : OfOrg(w, o) <=> OfOrg(w, o)'
  BY <1>1 DEF OfOrg
<1>8. AccountComes(r)' /\ ChangeComes(r)'
  BY <1>1, <1>2, <1>3, <1>5, <1>7 DEF AccountComes, ChangeComes
<1>9. ASSUME NEW q \in Threads \ {r}
      PROVE  AccountComes(q)' /\ ChangeComes(q)'
  <2>1. AccountComes(q)'
    BY <1>1, <1>2, <1>3, <1>4, <1>5, <1>6, <1>7 DEF AccountComes
  <2>2. ChangeComes(q)'
    BY <1>1, <1>3, <1>4, <1>7 DEF ChangeComes
  <2> QED
    BY <2>1, <2>2
<1>10. ASSUME NEW e \in DOMAIN accounts'
      PROVE  AccountFits(e)'
  BY <1>1, <1>5, <1>6, <1>7 DEF PeopleFit, AccountFits
<1>11. \A d, e \in DOMAIN accounts' : accounts'[d].user = accounts'[e].user => d = e
  BY <1>5, <1>6 DEF PeopleFit
<1> QED
  BY <1>1, <1>3, <1>8, <1>9, <1>10, <1>11 DEF PeopleFit

(* Another role, in the same organization. *)
LEMMA RoleKeepsPeople ==
    ASSUME PeopleFit, NEW r \in Threads, SetRole(r)
    PROVE  PeopleFit'
<1> PICK job : job = doing[r]
  OBVIOUS
<1>0. UNCHANGED fates
  BY DEF SetRole
<1>1. /\ job.does = "change" /\ UNCHANGED <<accounts, users, removed>>
      /\ job = [does |-> job.does, user |-> job.user, role |-> job.role]
      /\ job.user \in 1..users /\ OfOrg(job.user, House)
  BY <1>0 DEF SetRole, Does, fates, PeopleFit, ChangeComes
<1>2. CASE job.user \notin DOMAIN members
  <2>1. Now(r, Idle) /\ UNCHANGED people
    BY <1>1, <1>2 DEF SetRole, Ends, people
  <2> QED
    BY <1>1, <2>1, WorkKeepsPeople DEF Idle
<1>3. CASE job.user \in DOMAIN members
  <2> DEFINE next == [does |-> "clear", user |-> job.user, role |-> job.role]
  <2>1. next = [job EXCEPT !.does = "clear"]
    BY <1>1
  <2>2. members' = Entered(members, job.user, [org |-> House, role |-> job.role]) /\ Now(r, next)
    BY <1>3, <2>1 DEF SetRole
  <2>3. /\ DOMAIN doing' = Threads /\ doing'[r] = next
        /\ \A q \in Threads \ {r} : doing'[q] = doing[q]
    BY <2>2, ThreadGoesOn DEF PeopleFit
  <2>4. DOMAIN members' = DOMAIN members /\ \A w, o : OfOrg(w, o) => OfOrg(w, o)'
    BY <1>1, <1>3, <2>2 DEF Entered, OfOrg
  <2>5. \A q \in Threads : AccountComes(q) /\ ChangeComes(q)
    BY DEF PeopleFit
  <2>6. AccountComes(r)' /\ ChangeComes(r)'
    BY <1>1, <2>3, <2>4 DEF AccountComes, ChangeComes
  <2>7. ASSUME NEW q \in Threads \ {r}
        PROVE  AccountComes(q)' /\ ChangeComes(q)'
    <3>1. AccountComes(q)'
      BY <1>1, <2>3, <2>4, <2>5 DEF AccountComes
    <3>2. ChangeComes(q)'
      BY <1>1, <2>3, <2>4, <2>5 DEF ChangeComes
    <3> QED
      BY <3>1, <3>2
  <2>8. ASSUME NEW e \in DOMAIN accounts'
      PROVE  AccountFits(e)'
    BY <1>1, <2>4 DEF PeopleFit, AccountFits
  <2> QED
    BY <1>1, <2>3, <2>4, <2>6, <2>7, <2>8 DEF PeopleFit
<1> QED
  BY <1>2, <1>3

(* A person goes, with the account. *)
LEMMA RemovalKeepsPeople ==
    ASSUME PeopleFit, NEW r \in Threads, DeletePerson(r)
    PROVE  PeopleFit'
<1> PICK u : u = doing[r].user
  OBVIOUS
<1>1. /\ DOMAIN members' = DOMAIN members \ {u} /\ \A w \in DOMAIN members' : members'[w] = members[w]
      /\ DOMAIN accounts' \subseteq DOMAIN accounts
      /\ \A e \in DOMAIN accounts' : accounts'[e] = accounts[e] /\ accounts[e].user # u
      /\ users' = users
  BY DEF DeletePerson, Only
<1>2. /\ removed \subseteq removed'
      /\ \A q \in Threads : doing[q].does = "account" /\ doing[q].user = u => u \in removed'
  BY DEF DeletePerson, Does
<1>3. /\ DOMAIN doing' = Threads /\ doing'[r] = Idle
      /\ \A q \in Threads \ {r} : doing'[q] = doing[q]
  BY ThreadGoesOn DEF DeletePerson, Ends, PeopleFit
<1>4. AccountComes(r)' /\ ChangeComes(r)'
  BY <1>3 DEF AccountComes, ChangeComes, Idle
<1>5. \A w, o : OfOrg(w, o) => OfOrg(w, o)'
  BY <1>1 DEF OfOrg
<1>6. ASSUME NEW q \in Threads \ {r}
      PROVE  AccountComes(q)' /\ ChangeComes(q)'
  <2>1. AccountComes(q) /\ ChangeComes(q)
    BY DEF PeopleFit
  <2>2. AccountComes(q)'
    BY <1>1, <1>2, <1>3, <1>5, <2>1 DEF AccountComes, Idle
  <2>3. ChangeComes(q)'
    BY <1>1, <1>3, <1>5, <2>1 DEF ChangeComes
  <2> QED
    BY <2>2, <2>3
<1>7. ASSUME NEW e \in DOMAIN accounts'
      PROVE  AccountFits(e)'
  BY <1>1, <1>2, <1>5 DEF PeopleFit, AccountFits
<1> QED
  BY <1>1, <1>3, <1>4, <1>6, <1>7 DEF PeopleFit

(* A restart cuts all work short. *)
LEMMA StopKeepsPeople ==
    ASSUME PeopleFit, ServerStops
    PROVE  PeopleFit'
<1>1. /\ DOMAIN doing' = Threads /\ \A q \in Threads : doing'[q].does = "nothing"
      /\ UNCHANGED <<accounts, members, users>> /\ removed \subseteq removed'
  BY DEF ServerStops, Idle, people
<1>2. \A q \in Threads : AccountComes(q)' /\ ChangeComes(q)'
  BY <1>1 DEF AccountComes, ChangeComes
<1> QED
  BY <1>1, <1>2 DEF PeopleFit, AccountFits, OfOrg

(* Work that is not about what a person has yet. *)
Plain == {"nothing", "send", "register", "add", "remove"}

(* Steps that leave accounts, members and grants alone. *)
LEMMA PlainSteps ==
    ASSUME NEW r \in Threads,
           \/ \E e \in Emails : \/ RequestCode(r, e) \/ OpenSign(r, e)
                                \/ \E role \in Roles : AddPerson(r, e, role)
           \/ \E c \in DOMAIN challenges : VerifyCode(r, c)
           \/ \E u \in DOMAIN members : RemovePerson(r, u)
           \/ CodeSent(r) \/ CodeNotSent(r)
    PROVE  /\ UNCHANGED <<people, access, cut, removed>> /\ doing[r].does \in Plain
           /\ \E job : Now(r, job) /\ job.does \in Plain
<1>1. ASSUME NEW e \in Emails, RequestCode(r, e)
      PROVE  /\ UNCHANGED <<people, access, cut, removed>> /\ doing[r].does \in Plain
             /\ \E job : Now(r, job) /\ job.does \in Plain
  BY <1>1 DEF RequestCode, Starts, fates, Plain, Idle
<1>2. ASSUME NEW e \in Emails, OpenSign(r, e)
      PROVE  /\ UNCHANGED <<people, access, cut, removed>> /\ doing[r].does \in Plain
             /\ \E job : Now(r, job) /\ job.does \in Plain
  BY <1>2 DEF OpenSign, Starts, fates, Plain, Idle, Welcome
<1>3. ASSUME NEW e \in Emails, NEW role \in Roles, AddPerson(r, e, role)
      PROVE  /\ UNCHANGED <<people, access, cut, removed>> /\ doing[r].does \in Plain
             /\ \E job : Now(r, job) /\ job.does \in Plain
  BY <1>3 DEF AddPerson, Starts, fates, Plain, Idle
<1>4. ASSUME NEW c \in DOMAIN challenges, VerifyCode(r, c)
      PROVE  /\ UNCHANGED <<people, access, cut, removed>> /\ doing[r].does \in Plain
             /\ \E job : Now(r, job) /\ job.does \in Plain
  <2>1. \A e, may : Welcome(e, may).does \in Plain
    BY DEF Welcome, Idle, Plain
  <2>2. doing[r] = Idle /\ Now(r, Welcome(challenges[c].email, selfSignUp)) /\ UNCHANGED <<people, access, cut, removed>>
    BY <1>4 DEF VerifyCode, Starts, fates
  <2> QED
    BY <2>1, <2>2 DEF Idle, Plain
<1>5. ASSUME CodeSent(r) \/ CodeNotSent(r)
      PROVE  /\ UNCHANGED <<people, access, cut, removed>> /\ doing[r].does \in Plain
             /\ \E job : Now(r, job) /\ job.does \in Plain
  BY <1>5 DEF CodeSent, CodeNotSent, Ends, Does, fates, Plain, Idle
<1>6. ASSUME NEW u \in DOMAIN members, RemovePerson(r, u)
      PROVE  /\ UNCHANGED <<people, access, cut, removed>> /\ doing[r].does \in Plain
             /\ \E job : Now(r, job) /\ job.does \in Plain
  BY <1>6 DEF RemovePerson, Starts, fates, Plain, Idle
<1> QED
  BY <1>1, <1>2, <1>3, <1>4, <1>5, <1>6

(* What remains when all grants are given. *)
LEMMA GrantingDoes == \A gs : Granting(gs).does = IF gs = {} THEN "nothing" ELSE "grant"
  BY DEF Granting, Idle

(* One case per action. *)
LEMMA StepPeople == PeopleFit /\ [AccountsNext]_accountVars => PeopleFit'
<1> SUFFICES ASSUME PeopleFit, [AccountsNext]_accountVars PROVE PeopleFit'
  OBVIOUS
<1>1. ASSUME NEW r \in Threads,
             \/ \E e \in Emails : \/ RequestCode(r, e) \/ OpenSign(r, e)
                                  \/ \E role \in Roles : AddPerson(r, e, role)
             \/ \E c \in DOMAIN challenges : VerifyCode(r, c)
             \/ \E u \in DOMAIN members : RemovePerson(r, u)
             \/ CodeSent(r) \/ CodeNotSent(r)
      PROVE  PeopleFit'
  <2>1. /\ UNCHANGED <<people, removed>>
        /\ \E job : Now(r, job) /\ job.does \in Plain
    BY <1>1, PlainSteps
  <2>2. PICK job : Now(r, job) /\ job.does \in Plain
    BY <2>1
  <2> QED
    BY <2>1, <2>2, WorkKeepsPeople DEF Plain
<1>2. ASSUME NEW r \in Threads, Found(r)
      PROVE  PeopleFit'
  <2> PICK u : u = users + 1
    OBVIOUS
  <2>1. /\ users' = u /\ UNCHANGED <<accounts, removed>>
        /\ members' = Entered(members, u, [org |-> u, role |-> "org_admin"])
        /\ Now(r, [does |-> "account", email |-> doing[r].email, user |-> u, org |-> u, role |-> "org_admin"])
    BY <1>2 DEF Found, fates
  <2> QED
    BY <2>1, MemberKeepsPeople
<1>3. ASSUME NEW r \in Threads, AddMember(r)
      PROVE  PeopleFit'
  <2> PICK u : u = users + 1
    OBVIOUS
  <2>1. /\ users' = u /\ UNCHANGED <<accounts, removed>>
        /\ members' = Entered(members, u, [org |-> House, role |-> doing[r].role])
        /\ Now(r, [does |-> "account", email |-> doing[r].email, user |-> u, org |-> House,
                   role |-> doing[r].role])
    BY <1>3 DEF AddMember, fates
  <2> QED
    BY <2>1, MemberKeepsPeople
<1>4. ASSUME NEW r \in Threads, AddressTaken(r)
      PROVE  PeopleFit'
  <2>1. Now(r, Idle) /\ UNCHANGED people /\ removed \subseteq removed'
    BY <1>4 DEF AddressTaken, Ends
  <2> QED
    BY <2>1, WorkKeepsPeople DEF Idle
<1>5. ASSUME NEW r \in Threads, NEW u \in DOMAIN members, NEW role \in Roles, ChangePerson(r, u, role)
      PROVE  PeopleFit'
  <2>1. /\ Now(r, [does |-> "change", user |-> u, role |-> role]) /\ UNCHANGED people /\ removed' = removed
        /\ u \in 1..users /\ OfOrg(u, House)
    BY <1>5 DEF ChangePerson, Starts, PeopleFit, InHouse, OfOrg
  <2> QED
    BY <2>1, WorkKeepsPeople
<1>6. ASSUME NEW r \in Threads, ClearGrants(r)
      PROVE  PeopleFit'
  <2> PICK u, role : u = doing[r].user /\ role = doing[r].role
    OBVIOUS
  <2>1. doing[r] = [does |-> "clear", user |-> u, role |-> role] /\ u \in 1..users /\ OfOrg(u, House)
    BY <1>6 DEF ClearGrants, Does, PeopleFit, ChangeComes
  <2>2. Now(r, [does |-> "products", user |-> u, role |-> role]) /\ UNCHANGED people /\ removed' = removed
    BY <1>6, <2>1 DEF ClearGrants, fates
  <2> QED
    BY <2>1, <2>2, WorkKeepsPeople
<1>7. ASSUME NEW r \in Threads, ReadProducts(r) \/ ReadMembers(r) \/ Grant(r)
      PROVE  PeopleFit'
  <2>1. PICK gs : Now(r, Granting(gs))
    BY <1>7 DEF ReadProducts, ReadMembers, Grant
  <2>2. UNCHANGED people /\ removed' = removed
    BY <1>7 DEF ReadProducts, ReadMembers, Grant, fates
  <2> QED
    BY <2>1, <2>2, GrantingDoes, WorkKeepsPeople
<1>8. ASSUME NEW r \in Threads,
             GrantMaker(r) \/ \E u \in DOMAIN members, p \in Products : AddProduct(r, p, u)
      PROVE  PeopleFit'
  <2>1. PICK job : Now(r, job) /\ job.does \in {"maker", "everyone"}
    <3>1. ASSUME NEW u \in DOMAIN members, NEW p \in Products, AddProduct(r, p, u)
          PROVE  \E job : Now(r, job) /\ job.does \in {"maker", "everyone"}
      BY <3>1 DEF AddProduct, Starts
    <3>2. ASSUME GrantMaker(r)
          PROVE  \E job : Now(r, job) /\ job.does \in {"maker", "everyone"}
      BY <3>2 DEF GrantMaker
    <3> QED
      BY <1>8, <3>1, <3>2
  <2>2. UNCHANGED people /\ removed' = removed
    BY <1>8 DEF GrantMaker, AddProduct, fates
  <2> QED
    BY <2>1, <2>2, WorkKeepsPeople
<1>9. ASSUME UNCHANGED <<people, removed, doing>>
      PROVE  PeopleFit'
  BY <1>9 DEF people, PeopleFit, AccountFits, AccountComes, ChangeComes, OfOrg
<1>10. ASSUME \/ \E c \in DOMAIN challenges : VerifyWrongCode(c) \/ Expire(c)
              \/ \E e \in Emails : HourPasses(e)
              \/ UNCHANGED accountVars
       PROVE  UNCHANGED <<people, removed, doing>>
  BY <1>10 DEF VerifyWrongCode, Expire, HourPasses, accountVars, fates
<1> QED
  BY <1>1, <1>2, <1>3, <1>4, <1>5, <1>6, <1>7, <1>8, <1>9, <1>10, AccountKeepsPeople, RoleKeepsPeople,
     RemovalKeepsPeople, StopKeepsPeople DEF AccountsNext

-----------------------------------------------------------------------------
(* Who awaited a grant still does when a thread goes on with what the user awaited. *)
LEMMA StillAwaited ==
    ASSUME DOMAIN doing = Threads, NEW r \in Threads, NEW job, Now(r, job), NEW u, NEW p,
           GrantsAll(doing[r], u) \/ GrantsOne(doing[r], u, p) => GrantsAll(job, u) \/ GrantsOne(job, u, p)
    PROVE  Awaits(u, p) => Awaits(u, p)'
<1>1. /\ doing'[r] = job /\ \A q \in Threads \ {r} : doing'[q] = doing[q]
  BY ThreadGoesOn
<1> SUFFICES ASSUME NEW q \in Threads, GrantsAll(doing[q], u) \/ GrantsOne(doing[q], u, p)
             PROVE  \E t \in Threads : GrantsAll(doing'[t], u) \/ GrantsOne(doing'[t], u, p)
  BY DEF Awaits, GrantsAll, GrantsOne
<1> QED
  BY <1>1

(* Grants that are to be dropped still are. *)
LEMMA StillClears ==
    ASSUME DOMAIN doing = Threads, NEW r \in Threads, NEW job, Now(r, job), NEW u,
           doing[r].does = "clear" => doing[r].user # u
    PROVE  Clears(u) => Clears(u)'
<1>1. \A q \in Threads \ {r} : doing'[q] = doing[q]
  BY ThreadGoesOn
<1> QED
  BY <1>1 DEF Clears

(* What is to be granted stays so while users and products only come. *)
LEMMA GrantsStillCome ==
    ASSUME GrantsFit, DOMAIN doing = Threads, NEW r \in Threads, NEW job, Now(r, job), 1..users \subseteq 1..users',
           DOMAIN bound \subseteq DOMAIN bound', GrantsCome(job)'
    PROVE  \A q \in Threads : GrantsCome(doing[q])'
<1>1. doing'[r] = job /\ \A q \in Threads \ {r} : doing'[q] = doing[q]
  BY ThreadGoesOn
<1>2. ASSUME NEW q \in Threads
      PROVE  GrantsCome(doing[q])'
  <2>1. CASE q = r
    BY <1>1, <2>1 DEF GrantsCome
  <2>2. CASE q # r
    <3>1. GrantsCome(doing[q]) /\ doing'[q] = doing[q]
      BY <1>1, <2>2 DEF GrantsFit
    <3> QED
      BY <3>1 DEF GrantsCome
  <2> QED
    BY <2>1, <2>2
<1> QED
  BY <1>2

(* A thread goes on, and who awaited a grant from it still does, or is cut short. *)
LEMMA WorkKeepsGrants ==
    ASSUME GrantsFit, DOMAIN doing = Threads, NEW r \in Threads, NEW job, Now(r, job), cut \subseteq cut',
           UNCHANGED <<members, users, access>>, GrantsCome(job), doing[r].does # "clear",
           \A u \in InHouse \ cut', p \in DOMAIN bound :
               GrantsAll(doing[r], u) \/ GrantsOne(doing[r], u, p) => GrantsAll(job, u) \/ GrantsOne(job, u, p)
    PROVE  GrantsFit'
<1>1. UNCHANGED <<bound, grants, stale>> /\ InHouse' = InHouse
  BY DEF access, InHouse
<1>2. GrantsCome(job)'
  BY <1>1 DEF GrantsCome
<1>3. \A q \in Threads : GrantsCome(doing[q])'
  BY <1>1, <1>2, GrantsStillCome
<1>4. ASSUME NEW u \in InHouse \ cut', NEW p \in DOMAIN bound
      PROVE  HasGrant(u, p)'
  <2>1. HasGrant(u, p)
    BY <1>4 DEF GrantsFit
  <2>2. (Awaits(u, p) => Awaits(u, p)') /\ (Clears(u) => Clears(u)')
    BY StillAwaited, StillClears
  <2> QED
    BY <1>1, <2>1, <2>2 DEF HasGrant
<1> QED
  BY <1>1, <1>3, <1>4 DEF GrantsFit

(* A new member awaits every grant. *)
LEMMA MemberKeepsGrants ==
    ASSUME GrantsFit, PeopleFit, NEW r \in Threads, NEW org, NEW role, NEW email, NEW u, u = users + 1,
           users' = u, members' = Entered(members, u, [org |-> org, role |-> role]),
           UNCHANGED <<access, cut>>, doing[r].does \in Plain,
           Now(r, [does |-> "account", email |-> email, user |-> u, org |-> org, role |-> role])
    PROVE  GrantsFit'
<1> DEFINE job == [does |-> "account", email |-> email, user |-> u, org |-> org, role |-> role]
<1>1. UNCHANGED <<bound, grants, stale>> /\ DOMAIN doing = Threads
  BY DEF access, PeopleFit
<1>2. 1..users \subseteq 1..users' /\ u \notin 1..users /\ DOMAIN members \subseteq 1..users
  BY DEF PeopleFit
<1>3. /\ DOMAIN members' = DOMAIN members \cup {u}
      /\ \A w \in DOMAIN members : members'[w] = members[w]
  BY <1>2 DEF Entered
<1>4. InHouse \subseteq InHouse' /\ InHouse' \subseteq InHouse \cup {u} /\ InHouse \subseteq DOMAIN members
  BY <1>3 DEF InHouse
<1>5. \A q \in Threads : GrantsCome(doing[q])'
  <2>1. GrantsCome(job)'
    BY DEF GrantsCome
  <2> QED
    BY <1>1, <1>2, <2>1, GrantsStillCome
<1>6. ASSUME NEW w \in InHouse' \ cut', NEW p \in DOMAIN bound
      PROVE  HasGrant(w, p)'
  <2>1. CASE w = u
    <3>1. <<u, p>> \notin DOMAIN grants
      BY <1>2 DEF GrantsFit
    <3>2. doing'[r] = job
      BY <1>1, ThreadGoesOn
    <3> QED
      BY <1>1, <2>1, <3>1, <3>2 DEF HasGrant, Awaits, GrantsAll
  <2>2. CASE w # u
    <3>1. HasGrant(w, p) /\ members'[w] = members[w]
      BY <1>3, <1>4, <1>6, <2>2 DEF GrantsFit
    <3>2. (Awaits(w, p) => Awaits(w, p)') /\ (Clears(w) => Clears(w)')
      BY <1>1, StillAwaited, StillClears DEF Plain, GrantsAll, GrantsOne
    <3> QED
      BY <1>1, <3>1, <3>2 DEF HasGrant
  <2> QED
    BY <2>1, <2>2
<1>7. DOMAIN grants' \subseteq (1..users') \X DOMAIN bound'
  BY <1>1, <1>2 DEF GrantsFit
<1> QED
  BY <1>1, <1>4, <1>5, <1>6, <1>7 DEF GrantsFit

(* With another role, the user's grants are to be dropped and given again. *)
LEMMA RoleKeepsGrants ==
    ASSUME GrantsFit, PeopleFit, NEW r \in Threads, SetRole(r)
    PROVE  GrantsFit'
<1> PICK job : job = doing[r]
  OBVIOUS
<1>0. UNCHANGED <<fates, access>>
  BY DEF SetRole
<1>1. /\ job.does = "change" /\ UNCHANGED <<users, bound, grants, stale, cut>> /\ DOMAIN doing = Threads
      /\ job = [does |-> job.does, user |-> job.user, role |-> job.role]
      /\ OfOrg(job.user, House)
  BY <1>0 DEF SetRole, Does, fates, access, PeopleFit, ChangeComes
<1>2. CASE job.user \notin DOMAIN members
  <2>1. Now(r, Idle) /\ UNCHANGED members
    BY <1>2 DEF SetRole, Ends
  <2> QED
    BY <1>0, <1>1, <2>1, WorkKeepsGrants DEF Idle, GrantsCome, GrantsAll, GrantsOne
<1>3. CASE job.user \in DOMAIN members
  <2> DEFINE next == [does |-> "clear", user |-> job.user, role |-> job.role]
  <2>1. next = [job EXCEPT !.does = "clear"]
    BY <1>1
  <2>2. members' = Entered(members, job.user, [org |-> House, role |-> job.role]) /\ Now(r, next)
    BY <1>3, <2>1 DEF SetRole
  <2>3. doing'[r] = next
    BY <1>1, <2>2, ThreadGoesOn
  <2>4. /\ DOMAIN members' = DOMAIN members /\ members'[job.user].org = House
        /\ \A w \in DOMAIN members \ {job.user} : members'[w] = members[w]
    BY <1>3, <2>2 DEF Entered
  <2>5. InHouse' = InHouse /\ InHouse \subseteq DOMAIN members
    BY <1>1, <1>3, <2>4 DEF InHouse, OfOrg
  <2>6. \A q \in Threads : GrantsCome(doing[q])'
    <3>1. GrantsCome(next)'
      BY DEF GrantsCome
    <3> QED
      BY <1>1, <2>2, <3>1, GrantsStillCome
  <2>7. ASSUME NEW w \in InHouse \ cut, NEW p \in DOMAIN bound
        PROVE  HasGrant(w, p)'
    <3>1. HasGrant(w, p)
      BY DEF GrantsFit
    <3>2. (Awaits(w, p) => Awaits(w, p)') /\ (Clears(w) => Clears(w)')
      BY <1>1, <2>2, StillAwaited, StillClears DEF GrantsAll, GrantsOne
    <3>3. CASE w = job.user
      <4>1. Clears(w)'
        BY <2>3, <3>3 DEF Clears
      <4> QED
        BY <1>1, <3>1, <3>2, <4>1 DEF HasGrant
    <3>4. CASE w # job.user
      <4>1. members'[w] = members[w]
        BY <2>4, <2>5, <3>4
      <4> QED
        BY <1>1, <3>1, <3>2, <4>1 DEF HasGrant
    <3> QED
      BY <3>3, <3>4
  <2> QED
    BY <1>1, <2>5, <2>6, <2>7 DEF GrantsFit
<1> QED
  BY <1>2, <1>3

(* Dropping a user's grants leaves everyone else's in place. *)
LEMMA ClearKeepsGrants ==
    ASSUME GrantsFit, PeopleFit, NEW r \in Threads, ClearGrants(r)
    PROVE  GrantsFit'
<1> PICK u, role : u = doing[r].user /\ role = doing[r].role
  OBVIOUS
<1> DEFINE next == [does |-> "products", user |-> u, role |-> role]
<1>1. /\ doing[r] = [does |-> "clear", user |-> u, role |-> role] /\ u \in 1..users /\ DOMAIN doing = Threads
      /\ users \in Nat \ {0}
  BY DEF ClearGrants, Does, PeopleFit, ChangeComes
<1>2. Now(r, next) /\ UNCHANGED <<members, users, cut>>
  BY <1>1 DEF ClearGrants, fates, people
<1>3. /\ grants' = Only(grants, {g \in DOMAIN grants : g[1] # u})
      /\ bound' = [p \in DOMAIN bound |-> IF bound[p] = u THEN NoOne ELSE bound[p]]
      /\ stale' = stale \ {u}
  BY DEF ClearGrants, DropGrants
<1>4. /\ DOMAIN grants' = {g \in DOMAIN grants : g[1] # u}
      /\ \A g \in DOMAIN grants' : grants'[g] = grants[g]
      /\ DOMAIN bound' = DOMAIN bound
      /\ \A p \in DOMAIN bound : \A w : w # u /\ bound[p] = w => bound'[p] = w
  BY <1>3 DEF Only
<1>5. InHouse' = InHouse /\ InHouse \subseteq DOMAIN members
  BY <1>2 DEF InHouse
<1>6. \A q \in Threads : GrantsCome(doing[q])'
  <2>1. GrantsCome(next)'
    BY DEF GrantsCome
  <2> QED
    BY <1>1, <1>2, <1>4, <2>1, GrantsStillCome
<1>7. ASSUME NEW w \in InHouse \ cut, NEW p \in DOMAIN bound
      PROVE  HasGrant(w, p)'
  <2>1. HasGrant(w, p)
    BY DEF GrantsFit
  <2>2. Awaits(w, p) => Awaits(w, p)'
    <3>1. GrantsAll(doing[r], w) \/ GrantsOne(doing[r], w, p) => GrantsAll(next, w)
      BY <1>1 DEF GrantsAll, GrantsOne
    <3> HIDE DEF next
    <3> QED
      BY <1>1, <1>2, <3>1, StillAwaited
  <2>3. CASE w = u
    <3>1. doing'[r] = next
      BY <1>1, <1>2, ThreadGoesOn
    <3>2. Awaits(w, p)'
      BY <2>3, <3>1 DEF Awaits, GrantsAll
    <3>3. <<w, p>> \notin DOMAIN grants'
      BY <1>4, <2>3
    <3> QED
      BY <3>2, <3>3 DEF HasGrant
  <2>4. CASE w # u
    <3>1. Clears(w) => Clears(w)'
      BY <1>1, <1>2, <2>4, StillClears
    <3>2. <<w, p>> \in DOMAIN grants' <=> <<w, p>> \in DOMAIN grants
      BY <1>4, <1>5, <2>4 DEF GrantsFit
    <3> QED
      BY <1>2, <1>3, <1>4, <2>1, <2>2, <2>4, <3>1, <3>2 DEF HasGrant
  <2> QED
    BY <2>3, <2>4
<1>8. DOMAIN grants' \subseteq (1..users') \X DOMAIN bound'
  BY <1>2, <1>4 DEF GrantsFit
<1>9. ASSUME NEW g \in DOMAIN grants'
      PROVE  g[1] \in InHouse' \cup stale'
  BY <1>3, <1>4, <1>5 DEF GrantsFit
<1> QED
  BY <1>2, <1>4, <1>5, <1>6, <1>7, <1>8, <1>9 DEF GrantsFit

(* A new product is awaited by everyone. *)
LEMMA ProductKeepsGrants ==
    ASSUME GrantsFit, PeopleFit, NEW r \in Threads, NEW p \in Products, NEW u \in DOMAIN members,
           AddProduct(r, p, u)
    PROVE  GrantsFit'
<1> DEFINE next == [does |-> "maker", product |-> p, user |-> u]
<1>1. /\ doing[r] = Idle /\ Now(r, next) /\ UNCHANGED <<grants, stale, members, users, cut>>
      /\ DOMAIN doing = Threads /\ u \in 1..users /\ p \notin DOMAIN bound /\ bound' = Entered(bound, p, u)
  BY DEF AddProduct, Starts, fates, people, PeopleFit
<1>2. /\ DOMAIN bound' = DOMAIN bound \cup {p} /\ \A q \in DOMAIN bound : bound'[q] = bound[q]
  BY <1>1 DEF Entered
<1>3. InHouse' = InHouse
  BY <1>1 DEF InHouse
<1>4. \A q \in Threads : GrantsCome(doing[q])'
  <2>1. GrantsCome(next)'
    BY <1>1, <1>2 DEF GrantsCome
  <2> QED
    BY <1>1, <1>2, <2>1, GrantsStillCome
<1>5. ASSUME NEW w \in InHouse \ cut, NEW q \in DOMAIN bound'
      PROVE  HasGrant(w, q)'
  <2>1. CASE q = p
    <3>1. <<w, p>> \notin DOMAIN grants
      BY <1>1 DEF GrantsFit
    <3>2. doing'[r] = next
      BY <1>1, ThreadGoesOn
    <3>3. Awaits(w, p)'
      BY <3>2 DEF Awaits, GrantsOne
    <3> QED
      BY <1>1, <2>1, <3>1, <3>3 DEF HasGrant
  <2>2. CASE q \in DOMAIN bound
    <3>1. HasGrant(w, q)
      BY <2>2 DEF GrantsFit
    <3>2. (Awaits(w, q) => Awaits(w, q)') /\ (Clears(w) => Clears(w)')
      BY <1>1, StillAwaited, StillClears DEF Idle, GrantsAll, GrantsOne
    <3> QED
      BY <1>1, <1>2, <2>2, <3>1, <3>2 DEF HasGrant
  <2> QED
    BY <1>2, <2>1, <2>2
<1>6. DOMAIN grants' \subseteq (1..users') \X DOMAIN bound'
  BY <1>1, <1>2 DEF GrantsFit
<1> QED
  BY <1>1, <1>2, <1>3, <1>4, <1>5, <1>6 DEF GrantsFit

(* One grant is made by a thread that goes on with the others. *)
LEMMA GrantedKeepsGrants ==
    ASSUME GrantsFit, DOMAIN doing = Threads, NEW r \in Threads, NEW job, Now(r, job),
           NEW u \in 1..users, NEW p \in DOMAIN bound, NEW may, Granted(u, p, may),
           UNCHANGED <<members, users, bound, cut>>, GrantsCome(job), doing[r].does # "clear",
           \A w \in InHouse \ cut, q \in DOMAIN bound :
               <<w, q>> # <<u, p>> /\ (GrantsAll(doing[r], w) \/ GrantsOne(doing[r], w, q))
                   => GrantsAll(job, w) \/ GrantsOne(job, w, q)
    PROVE  GrantsFit'
<1>1. InHouse' = InHouse
  BY DEF InHouse
<1>2. /\ DOMAIN grants' = DOMAIN grants \cup {<<u, p>>} /\ stale \subseteq stale'
      /\ \A g \in DOMAIN grants : grants'[g] = grants[g]
      /\ <<u, p>> \in DOMAIN grants \/ u \in stale' \/
            (u \in InHouse /\ (grants'[<<u, p>>] = Reach(members[u].role) \/ bound[p] = u))
  <2>1. CASE <<u, p>> \in DOMAIN grants
    BY <2>1 DEF Granted
  <2>2. CASE <<u, p>> \notin DOMAIN grants
    <3>1. /\ grants' = Entered(grants, <<u, p>>, may)
          /\ stale' = IF u \in InHouse /\ (may = Reach(members[u].role) \/ bound[p] = u) THEN stale
                      ELSE stale \cup {u}
      BY <2>2 DEF Granted
    <3> QED
      BY <2>2, <3>1 DEF Entered
  <2> QED
    BY <2>1, <2>2
<1>3. \A q \in Threads : GrantsCome(doing[q])'
  <2>1. GrantsCome(job)'
    BY DEF GrantsCome
  <2> QED
    BY <2>1, GrantsStillCome
<1>4. ASSUME NEW w \in InHouse \ cut, NEW q \in DOMAIN bound
      PROVE  HasGrant(w, q)'
  <2>1. HasGrant(w, q) /\ (Clears(w) => Clears(w)')
    BY StillClears DEF GrantsFit
  <2>2. CASE <<w, q>> \in DOMAIN grants
    BY <1>2, <2>1, <2>2 DEF HasGrant
  <2>3. CASE <<w, q>> \notin DOMAIN grants /\ <<w, q>> = <<u, p>>
    BY <1>2, <2>3 DEF HasGrant
  <2>4. CASE <<w, q>> \notin DOMAIN grants /\ <<w, q>> # <<u, p>>
    <3>1. Awaits(w, q)'
      BY <2>1, <2>4, StillAwaited DEF HasGrant
    <3> QED
      BY <1>2, <2>4, <3>1 DEF HasGrant
  <2> QED
    BY <2>2, <2>3, <2>4
<1>5. DOMAIN grants' \subseteq (1..users') \X DOMAIN bound'
  BY <1>2 DEF GrantsFit
<1>6. ASSUME NEW g \in DOMAIN grants'
      PROVE  g[1] \in InHouse' \cup stale'
  <2>1. CASE g \in DOMAIN grants
    BY <1>1, <1>2, <2>1 DEF GrantsFit
  <2>2. CASE g \notin DOMAIN grants
    BY <1>1, <1>2, <2>2
  <2> QED
    BY <2>1, <2>2
<1> QED
  BY <1>1, <1>3, <1>4, <1>5, <1>6 DEF GrantsFit

(* A person goes, with all grants. *)
LEMMA RemovalKeepsGrants ==
    ASSUME GrantsFit, PeopleFit, NEW r \in Threads, DeletePerson(r)
    PROVE  GrantsFit'
<1> PICK u : u = doing[r].user
  OBVIOUS
<1>0. DOMAIN doing = Threads /\ Now(r, Idle) /\ doing[r].does = "remove"
  BY DEF DeletePerson, Ends, Does, PeopleFit
<1>1. /\ DOMAIN members' = DOMAIN members \ {u} /\ \A w \in DOMAIN members' : members'[w] = members[w]
      /\ DOMAIN grants' = {g \in DOMAIN grants : g[1] # u}
      /\ \A g \in DOMAIN grants' : grants'[g] = grants[g]
      /\ UNCHANGED <<users, bound, stale, cut>>
  BY DEF DeletePerson, Only
<1>2. InHouse' = InHouse \ {u} /\ InHouse \subseteq DOMAIN members
  BY <1>1 DEF InHouse
<1>3. \A q \in Threads : GrantsCome(doing[q])'
  BY <1>0, <1>1, GrantsStillCome DEF Idle, GrantsCome
<1>4. ASSUME NEW w \in InHouse' \ cut', NEW p \in DOMAIN bound
      PROVE  HasGrant(w, p)'
  <2>1. HasGrant(w, p)
    BY <1>1, <1>2, <1>4 DEF GrantsFit
  <2>2. (Awaits(w, p) => Awaits(w, p)') /\ (Clears(w) => Clears(w)')
    BY <1>0, StillAwaited, StillClears DEF GrantsAll, GrantsOne
  <2>3. <<w, p>> \in DOMAIN grants' <=> <<w, p>> \in DOMAIN grants
    BY <1>1, <1>2, <1>4 DEF GrantsFit
  <2>4. members'[w] = members[w]
    BY <1>1, <1>2, <1>4
  <2> QED
    BY <1>1, <2>1, <2>2, <2>3, <2>4 DEF HasGrant
<1>5. ASSUME NEW g \in DOMAIN grants'
      PROVE  g[1] \in InHouse' \cup stale'
  BY <1>1, <1>2 DEF GrantsFit
<1> QED
  BY <1>1, <1>3, <1>4, <1>5 DEF GrantsFit

(* Whoever awaits a grant has work under way. *)
LEMMA AwaitedIsUnfinished ==
    ASSUME NEW u \in InHouse, NEW p, Awaits(u, p) \/ Clears(u)
    PROVE  \E r \in Threads : u \in Unfinished(doing[r])
<1>1. PICK r \in Threads : \/ GrantsAll(doing[r], u) \/ GrantsOne(doing[r], u, p)
                           \/ doing[r].does = "clear" /\ doing[r].user = u
  BY DEF Awaits, Clears
<1> PICK job : job = doing[r]
  OBVIOUS
<1>2. u \in Unfinished(job)
  <2>1. CASE job.does \in {"account", "clear", "products"}
    BY <1>1, <2>1 DEF GrantsAll, GrantsOne, Unfinished
  <2>2. CASE job.does \in {"maker", "everyone"}
    BY <1>1, <2>2 DEF Unfinished
  <2>3. CASE job.does = "grant"
    BY <1>1, <2>3 DEF GrantsAll, GrantsOne, Unfinished
  <2> QED
    BY <1>1, <2>1, <2>2, <2>3 DEF GrantsAll, GrantsOne
<1> QED
  BY <1>2

(* Whoever still awaited something is cut short by a restart. *)
LEMMA StopKeepsGrants ==
    ASSUME GrantsFit, PeopleFit, ServerStops
    PROVE  GrantsFit'
<1>1. /\ DOMAIN doing' = Threads /\ \A q \in Threads : doing'[q] = Idle
      /\ UNCHANGED <<members, users, bound, grants, stale>>
      /\ cut' = cut \cup UNION {Unfinished(doing[r]) : r \in Threads}
  BY DEF ServerStops, people, access
<1>2. InHouse' = InHouse
  BY <1>1 DEF InHouse
<1>3. \A q \in Threads : GrantsCome(doing[q])'
  BY <1>1 DEF GrantsCome, Idle
<1>4. ASSUME NEW w \in InHouse \ cut', NEW p \in DOMAIN bound
      PROVE  HasGrant(w, p)'
  <2>1. HasGrant(w, p) /\ \A q \in Threads : w \notin Unfinished(doing[q])
    BY <1>1, <1>4 DEF GrantsFit
  <2>2. ~Awaits(w, p) /\ ~Clears(w)
    BY <1>4, <2>1, AwaitedIsUnfinished
  <2> QED
    BY <1>1, <2>1, <2>2 DEF HasGrant
<1> QED
  BY <1>1, <1>2, <1>3, <1>4 DEF GrantsFit

(* One case per action. *)
LEMMA StepGrants == GrantsFit /\ PeopleFit /\ [AccountsNext]_accountVars => GrantsFit'
<1> SUFFICES ASSUME GrantsFit, PeopleFit, [AccountsNext]_accountVars PROVE GrantsFit'
  OBVIOUS
<1>0. DOMAIN doing = Threads
  BY DEF PeopleFit
<1>1. ASSUME NEW r \in Threads,
             \/ \E e \in Emails : \/ RequestCode(r, e) \/ OpenSign(r, e)
                                  \/ \E role \in Roles : AddPerson(r, e, role)
             \/ \E c \in DOMAIN challenges : VerifyCode(r, c)
             \/ \E u \in DOMAIN members : RemovePerson(r, u)
             \/ CodeSent(r) \/ CodeNotSent(r)
      PROVE  GrantsFit'
  <2>1. /\ UNCHANGED <<people, access, cut>> /\ doing[r].does \in Plain
        /\ \E job : Now(r, job) /\ job.does \in Plain
    BY <1>1, PlainSteps
  <2>2. PICK job : Now(r, job) /\ job.does \in Plain
    BY <2>1
  <2>3. UNCHANGED <<members, users>>
    BY <2>1 DEF people
  <2> QED
    BY <1>0, <2>1, <2>2, <2>3, WorkKeepsGrants DEF Plain, GrantsCome, GrantsAll, GrantsOne
<1>2. ASSUME NEW r \in Threads, Found(r)
      PROVE  GrantsFit'
  <2> PICK u : u = users + 1
    OBVIOUS
  <2>1. /\ users' = u /\ UNCHANGED <<access, cut>> /\ doing[r].does \in Plain
        /\ members' = Entered(members, u, [org |-> u, role |-> "org_admin"])
        /\ Now(r, [does |-> "account", email |-> doing[r].email, user |-> u, org |-> u, role |-> "org_admin"])
    BY <1>2 DEF Found, fates, Does, Plain
  <2> QED
    BY <2>1, MemberKeepsGrants
<1>3. ASSUME NEW r \in Threads, AddMember(r)
      PROVE  GrantsFit'
  <2> PICK u : u = users + 1
    OBVIOUS
  <2>1. /\ users' = u /\ UNCHANGED <<access, cut>> /\ doing[r].does \in Plain
        /\ members' = Entered(members, u, [org |-> House, role |-> doing[r].role])
        /\ Now(r, [does |-> "account", email |-> doing[r].email, user |-> u, org |-> House,
                   role |-> doing[r].role])
    BY <1>3 DEF AddMember, fates, Does, Plain
  <2> QED
    BY <2>1, MemberKeepsGrants
(* Only a member of House awaits the products with its account. *)
<1>4. ASSUME NEW r \in Threads, InsertAccount(r)
      PROVE  GrantsFit'
  <2> PICK user, org, role : user = doing[r].user /\ org = doing[r].org /\ role = doing[r].role
    OBVIOUS
  <2> DEFINE next == IF org # House THEN Idle ELSE [does |-> "products", user |-> user, role |-> role]
  <2>1. doing[r].does = "account" /\ Now(r, next) /\ UNCHANGED <<members, users, access, fates>>
    BY <1>4 DEF InsertAccount, Does
  <2>2. OfOrg(user, org) /\ cut' = cut
    BY <2>1 DEF PeopleFit, AccountComes, fates
  <2>3. GrantsCome(next)
    BY DEF GrantsCome, Idle
  <2>4. ASSUME NEW u \in InHouse, NEW p, GrantsAll(doing[r], u) \/ GrantsOne(doing[r], u, p)
        PROVE  GrantsAll(next, u)
    <3>1. u = user /\ org = House
      BY <2>1, <2>2, <2>4 DEF GrantsAll, GrantsOne, InHouse, OfOrg
    <3> QED
      BY <3>1 DEF GrantsAll
  <2> HIDE DEF next
  <2> QED
    BY <1>0, <2>1, <2>2, <2>3, <2>4, WorkKeepsGrants
<1>5. ASSUME NEW r \in Threads, AddressTaken(r)
      PROVE  GrantsFit'
  <2>1. /\ Now(r, Idle) /\ UNCHANGED <<members, users, access>> /\ cut' = cut \cup {doing[r].user}
        /\ doing[r].does = "account"
    BY <1>5 DEF AddressTaken, Does, Ends, people
  <2>2. \A u, p : GrantsAll(doing[r], u) \/ GrantsOne(doing[r], u, p) => u \in cut'
    BY <2>1 DEF GrantsAll, GrantsOne
  <2> QED
    BY <1>0, <2>1, <2>2, WorkKeepsGrants DEF Idle, GrantsCome
<1>6. ASSUME NEW r \in Threads, NEW u \in DOMAIN members, NEW role \in Roles, ChangePerson(r, u, role)
      PROVE  GrantsFit'
  <2>1. /\ doing[r] = Idle /\ Now(r, [does |-> "change", user |-> u, role |-> role])
        /\ UNCHANGED <<members, users, access, cut>>
    BY <1>6 DEF ChangePerson, Starts, people
  <2> QED
    BY <1>0, <2>1, WorkKeepsGrants DEF Idle, GrantsCome, GrantsAll, GrantsOne
<1>7. ASSUME NEW r \in Threads, ReadProducts(r)
      PROVE  GrantsFit'
  <2> PICK user, role : user = doing[r].user /\ role = doing[r].role
    OBVIOUS
  <2> PICK gs : gs = {[user |-> user, product |-> p, role |-> role] : p \in DOMAIN bound}
    OBVIOUS
  <2>1. doing[r].does = "products" /\ Now(r, Granting(gs)) /\ UNCHANGED <<people, access, fates>>
    BY <1>7 DEF ReadProducts, Does
  <2>2. UNCHANGED <<members, users, cut>> /\ user \in 1..users
    BY <2>1 DEF people, fates, PeopleFit, ChangeComes
  <2>3. GrantsCome(Granting(gs))
    BY <2>2 DEF Granting, Idle, GrantsCome
  <2>4. ASSUME NEW u \in InHouse, NEW p \in DOMAIN bound, GrantsAll(doing[r], u) \/ GrantsOne(doing[r], u, p)
        PROVE  GrantsOne(Granting(gs), u, p)
    <3>1. u = user
      BY <2>1, <2>4 DEF GrantsAll, GrantsOne
    <3>2. [user |-> user, product |-> p, role |-> role] \in gs
      OBVIOUS
    <3>3. Granting(gs) = [does |-> "grant", rest |-> gs]
      BY <3>2 DEF Granting
    <3> QED
      BY <3>1, <3>2, <3>3 DEF GrantsOne
  <2> QED
    BY <1>0, <2>1, <2>2, <2>3, <2>4, WorkKeepsGrants
<1>8. ASSUME NEW r \in Threads, ReadMembers(r)
      PROVE  GrantsFit'
  <2> PICK product : product = doing[r].product
    OBVIOUS
  <2>0. PICK gs : gs = {[user |-> u, product |-> product, role |-> members[u].role] : u \in InHouse}
    OBVIOUS
  <2>1. /\ \A g \in gs : g.user \in InHouse /\ g.product = product
        /\ \A u \in InHouse : \E g \in gs : g.user = u /\ g.product = product
    <3>1. \A g \in gs : \E u \in InHouse : g = [user |-> u, product |-> product, role |-> members[u].role]
      BY <2>0, Zenon
    <3>2. \A u \in InHouse : [user |-> u, product |-> product, role |-> members[u].role] \in gs
      BY <2>0, Zenon
    <3>3. ASSUME NEW g \in gs
          PROVE  g.user \in InHouse /\ g.product = product
      <4>1. PICK u \in InHouse : g = [user |-> u, product |-> product, role |-> members[u].role]
        BY <3>1
      <4> QED
        BY <4>1
    <3>4. ASSUME NEW u \in InHouse
          PROVE  \E g \in gs : g.user = u /\ g.product = product
      <4> PICK role : role = members[u].role
        OBVIOUS
      <4>1. [user |-> u, product |-> product, role |-> role] \in gs
        BY <3>2
      <4> QED
        BY <4>1
    <3> QED
      BY <3>3, <3>4
  <2>2. doing[r].does = "everyone" /\ Now(r, Granting(gs)) /\ UNCHANGED <<people, access, fates>>
    BY <1>8, <2>0 DEF ReadMembers, Does
  <2>3. UNCHANGED <<members, users, cut>> /\ product \in DOMAIN bound /\ InHouse \subseteq 1..users
    BY <2>2 DEF people, fates, GrantsFit, GrantsCome, InHouse, PeopleFit
  <2>4. GrantsCome(Granting(gs))
    BY <2>3, <2>1 DEF Granting, Idle, GrantsCome
  <2>5. ASSUME NEW u \in InHouse, NEW p \in DOMAIN bound, GrantsAll(doing[r], u) \/ GrantsOne(doing[r], u, p)
        PROVE  GrantsOne(Granting(gs), u, p)
    <3>1. p = product
      BY <2>2, <2>5 DEF GrantsAll, GrantsOne
    <3>2. PICK g \in gs : g.user = u /\ g.product = product
      BY <2>1
    <3>3. Granting(gs) = [does |-> "grant", rest |-> gs]
      BY <3>2 DEF Granting
    <3> QED
      BY <3>1, <3>2, <3>3 DEF GrantsOne
  <2> QED
    BY <1>0, <2>2, <2>3, <2>4, <2>5, WorkKeepsGrants
<1>9. ASSUME NEW r \in Threads, GrantMaker(r)
      PROVE  GrantsFit'
  <2> PICK u, p : u = doing[r].user /\ p = doing[r].product
    OBVIOUS
  <2> DEFINE next == [does |-> "everyone", product |-> p]
  <2>1. doing[r].does = "maker" /\ Now(r, next) /\ Granted(u, p, "admin") /\ UNCHANGED <<people, bound, fates>>
    BY <1>9 DEF GrantMaker, Does
  <2>2. UNCHANGED <<members, users, cut>> /\ u \in 1..users /\ p \in DOMAIN bound
    BY <2>1 DEF people, fates, GrantsFit, GrantsCome
  <2>3. GrantsCome(next)
    BY <2>2 DEF GrantsCome
  <2>4. \A w, q : GrantsAll(doing[r], w) \/ GrantsOne(doing[r], w, q) => GrantsOne(next, w, q)
    BY <2>1 DEF GrantsAll, GrantsOne
  <2> HIDE DEF next
  <2> QED
    BY <1>0, <2>1, <2>2, <2>3, <2>4, GrantedKeepsGrants
<1>10. ASSUME NEW r \in Threads, Grant(r)
       PROVE  GrantsFit'
  <2> PICK rest : rest = doing[r].rest
    OBVIOUS
  <2>1. PICK g \in rest : Granted(g.user, g.product, Reach(g.role)) /\ Now(r, Granting(rest \ {g}))
    BY <1>10 DEF Grant
  <2>2. PICK u, p, may, next :
            u = g.user /\ p = g.product /\ may = Reach(g.role) /\ next = Granting(rest \ {g})
    OBVIOUS
  <2>3. doing[r].does = "grant" /\ UNCHANGED <<people, bound, fates>>
    BY <1>10 DEF Grant, Does
  <2>4. /\ UNCHANGED <<members, users, bound, cut>>
        /\ \A h \in rest : h.user \in 1..users /\ h.product \in DOMAIN bound
    BY <2>3 DEF people, fates, GrantsFit, GrantsCome
  <2>5. GrantsCome(next)
    BY <2>2, <2>4 DEF Granting, Idle, GrantsCome
  <2>6. ASSUME NEW w, NEW q, <<w, q>> # <<u, p>>, GrantsAll(doing[r], w) \/ GrantsOne(doing[r], w, q)
        PROVE  GrantsOne(next, w, q)
    <3>1. PICK h \in rest : h.user = w /\ h.product = q
      BY <2>3, <2>6 DEF GrantsAll, GrantsOne
    <3>2. h \in rest \ {g}
      BY <2>2, <2>6, <3>1
    <3>3. next = [does |-> "grant", rest |-> rest \ {g}]
      BY <2>2, <3>2 DEF Granting
    <3> QED
      BY <3>1, <3>2, <3>3 DEF GrantsOne
  <2>7. u \in 1..users /\ p \in DOMAIN bound /\ doing[r].does # "clear"
    BY <2>2, <2>3, <2>4
  <2>8. Granted(u, p, may) /\ Now(r, next)
    BY <2>1, <2>2
  <2> QED
    BY <1>0, <2>4, <2>5, <2>6, <2>7, <2>8, GrantedKeepsGrants
<1>12. ASSUME UNCHANGED <<people, access, cut, doing>>
       PROVE  GrantsFit'
  BY <1>12 DEF people, access, GrantsFit, GrantsCome, HasGrant, Awaits, Clears, InHouse, GrantsAll, GrantsOne
<1>13. ASSUME \/ \E c \in DOMAIN challenges : VerifyWrongCode(c) \/ Expire(c)
              \/ \E e \in Emails : HourPasses(e)
              \/ UNCHANGED accountVars
       PROVE  UNCHANGED <<people, access, cut, doing>>
  BY <1>13 DEF VerifyWrongCode, Expire, HourPasses, accountVars, fates
<1> QED
  BY <1>1, <1>2, <1>3, <1>4, <1>5, <1>6, <1>7, <1>8, <1>9, <1>10, <1>12, <1>13, RoleKeepsGrants,
     ClearKeepsGrants, ProductKeepsGrants, RemovalKeepsGrants, StopKeepsGrants DEF AccountsNext

(* One member, no account, no code and no grant. *)
LEMMA InitAccounts == AccountsInit => CodesFit /\ PeopleFit /\ GrantsFit
<1> SUFFICES ASSUME AccountsInit PROVE CodesFit /\ PeopleFit /\ GrantsFit
  OBVIOUS
<1>1. CodesFit
  BY EmptySeq DEF AccountsInit, CodesFit
<1>2. PeopleFit
  BY DEF AccountsInit, PeopleFit, AccountFits, AccountComes, ChangeComes, Idle, Boss
<1>3. GrantsFit
  BY DEF AccountsInit, GrantsFit, GrantsCome, Idle
<1> QED
  BY <1>1, <1>2, <1>3

(* AccountsAreSound: an address has one live code at most, which opens the door once; an account  *)
(* belongs to one user, a member of its organization; and when nothing is under way the grants of  *)
(* the people of an organization are complete and fit their roles - but for the ways out Accounts  *)
(* names (account_api.py, organization_api.py).                                                    *)
THEOREM AccountsSound == AccountsSpec => []AccountsAreSound
<1>1. CodesFit => CodesOpenOnce
  BY DEF CodesFit, CodesOpenOnce
<1>2. PeopleFit => AccountsHaveMembers
  BY DEF PeopleFit, AccountFits, OfOrg, AccountsHaveMembers
<1>3. GrantsFit => GrantsFitRoles
  <2> SUFFICES ASSUME GrantsFit, \A r \in Threads : Unfinished(doing[r]) = {}
               PROVE  /\ \A u \in InHouse \ cut, p \in DOMAIN bound :
                            /\ <<u, p>> \in DOMAIN grants
                            /\ \/ grants[<<u, p>>] = Reach(members[u].role)
                               \/ u \in stale \/ bound[p] = u
                      /\ \A g \in DOMAIN grants : g[1] \in InHouse \cup stale
    BY DEF GrantsFitRoles
  <2>1. ASSUME NEW u \in InHouse \ cut, NEW p \in DOMAIN bound
        PROVE  HasGrant(u, p) /\ ~Awaits(u, p) /\ ~Clears(u)
    BY AwaitedIsUnfinished DEF GrantsFit
  <2> QED
    BY <2>1 DEF HasGrant, GrantsFit
<1> QED
  BY InitAccounts, StepCodes, StepPeople, StepGrants, <1>1, <1>2, <1>3, PTL DEF AccountsSpec, AccountsAreSound

-----------------------------------------------------------------------------
(* The rows of a private demo, and what its requests carry, have their types. *)

RowFits(v) ==
    /\ instances[v].generation \in 1..MaxGeneration
    /\ instances[v].lastActive <= clock
    /\ instances[v].expires \in Nat /\ instances[v].idle \in Int
    /\ instances[v].idle <= instances[v].expires \/ instances[v].idle - IdleFor = instances[v].expires - Absolute
    /\ \A r \in DOMAIN instances[v].records : instances[v].records[r] \in Nat \ {0}
    /\ DOMAIN instances[v].receipts \subseteq Keys

AskFits(ask) == ask.token \in issued /\ (ask.does = "create" => ask.key \in Keys \cup {NoKey})

RequestsFit ==
    /\ DOMAIN calls = Calls
    /\ \A c \in Calls : calls[c] # Idling => AskFits(calls[c])

RowsInv ==
    /\ clock \in 0..MaxClock /\ Started \subseteq Visitors
    /\ \A l \in logins : l.token \in issued
    /\ RequestsFit
    /\ \A v \in DOMAIN instances : RowFits(v)

(* The limits the rows are made with. *)
LEMMA RowLimits == {Absolute, IdleFor, MaxClock} \subseteq Nat /\ MaxGeneration \in Nat /\ MaxGeneration >= 1
  BY LimitsAssumption

(* Requests end, and nothing is issued. *)
LEMMA RequestEnds ==
    ASSUME RequestsFit, NEW c \in Calls, Done(c), issued \subseteq issued'
    PROVE  RequestsFit'
<1>1. DOMAIN calls' = Calls /\ calls'[c] = Idling /\ \A d \in Calls \ {c} : calls'[d] = calls[d]
  BY DEF RequestsFit, Done
<1> QED
  BY <1>1 DEF RequestsFit, AskFits

(* One row changes, and fits. *)
LEMMA OneRowChanges ==
    ASSUME RowsInv, NEW v \in DOMAIN instances, clock' = clock, issued' = issued, logins' = logins,
           RequestsFit', DOMAIN instances' = DOMAIN instances,
           \A w \in DOMAIN instances \ {v} : instances'[w] = instances[w],
           RowFits(v)'
    PROVE  RowsInv'
<1>1. ASSUME NEW w \in DOMAIN instances \ {v}
      PROVE  RowFits(w)'
  <2>1. RowFits(w) /\ instances'[w] = instances[w]
    BY DEF RowsInv
  <2> QED
    BY <2>1 DEF RowFits
<1> QED
  BY <1>1 DEF RowsInv, Started

(* A new row of its own. *)
LEMMA RowsStart ==
    ASSUME RowsInv, WholeInv, NEW v \in Visitors, StartVisitor(v)
    PROVE  RowsInv'
<1>1. PICK gone \in Pruned(Batch), evicted \in (IF Full THEN Reclaimed ELSE {{}}) :
          instances' = [w \in (DOMAIN instances \ (gone \cup evicted)) \cup {v} |->
                           IF w = v THEN Fresh ELSE instances[w]]
  BY DEF StartVisitor
<1>2. /\ UNCHANGED <<clock, calls>> /\ issued' = issued \cup {Token(v, 1)}
      /\ logins' = {l \in logins : l.expires >= clock} \cup
                      {[token |-> Token(v, 1), expires |-> clock + TokenAge]}
  BY DEF StartVisitor
<1>3. Started' \subseteq Visitors
  <2>1. Token(v, 1).visitor = v
    BY DEF Token
  <2> QED
    BY <1>2, <2>1 DEF RowsInv, Started
<1>4. \A l \in logins' : l.token \in issued'
  BY <1>2 DEF RowsInv
<1>5. RequestsFit'
  BY <1>2 DEF RowsInv, RequestsFit, AskFits
<1>6. RowFits(v)'
  <2>1. instances'[v] = Fresh
    BY <1>1
  <2>2. DOMAIN Seeded = Seed /\ \A r \in Seed : Seeded[r] = 1
    BY DEF Seeded
  <2>3. clock \in Nat
    BY RowLimits DEF RowsInv
  <2> QED
    BY <1>2, <2>1, <2>2, <2>3, RowLimits DEF Fresh, RowFits
<1>7. ASSUME NEW w \in DOMAIN instances' \ {v}
      PROVE  RowFits(w)'
  <2>1. w \in DOMAIN instances /\ instances'[w] = instances[w]
    BY <1>1
  <2> QED
    BY <1>2, <2>1 DEF RowsInv, RowFits
<1> QED
  BY <1>2, <1>3, <1>4, <1>5, <1>6, <1>7 DEF RowsInv

(* A touched row is idle no later than it expires. *)
LEMMA TouchedInTime ==
    ASSUME RowsInv, NEW v \in DOMAIN instances
    PROVE  IdleUntil(v) \in Int /\ IdleUntil(v) <= instances[v].expires
<1>1. instances[v].expires \in Int /\ clock + IdleFor \in Int
  BY RowLimits DEF RowsInv, RowFits
<1> QED
  BY <1>1, EarlierOfTwo DEF IdleUntil

(* What a request asks for is asked under its token, and a create under a key or none. *)
LEMMA AskedForIt ==
    ASSUME NEW t, NEW ask \in Asked(t)
    PROVE  ask.token = t /\ (ask.does = "create" => ask.key \in Keys \cup {NoKey})
<1> DEFINE first == {[does |-> "read", token |-> t], [does |-> "reset", token |-> t]}
           creates == {[does |-> "create", token |-> t, kind |-> kind, key |-> key] :
                          kind \in Kinds, key \in Keys \cup {NoKey}}
           Edits(r) == {[does |-> "edit", token |-> t, record |-> r, revision |-> n] :
                           n \in 1..Min({instances[t.visitor].records[r], MaxRevision - 1})}
           edits == {Edits(r) : r \in {q \in DOMAIN instances[t.visitor].records : q[1] = "issues"}}
<1>1. Asked(t) = first \cup creates \cup UNION edits
  BY DEF Asked
<1>2. CASE ask \in first
  BY <1>2
<1>3. CASE ask \in creates
  BY <1>3
<1>4. CASE ask \in UNION edits
  <2>1. PICK r : ask \in Edits(r)
    BY <1>4
  <2> QED
    BY <2>1
<1> HIDE DEF first, creates, edits
<1>5. ask \in first \/ ask \in creates \/ ask \in UNION edits
  BY <1>1
<1> QED
  BY <1>2, <1>3, <1>4, <1>5

(* A request that is let in touches its visitor's row. *)
LEMMA RowsEnter ==
    ASSUME RowsInv, WholeInv, NEW c \in Calls, NEW t \in issued, Enter(c, t)
    PROVE  RowsInv'
<1> DEFINE v == t.visitor
<1>1. v \in DOMAIN instances
  BY AvailableIsActive DEF Enter
<1>2. UNCHANGED <<clock, logins, issued>> /\ instances' = Touch(v)
  BY DEF Enter
<1>3. RequestsFit'
  <2>1. PICK ask \in Asked(t) : calls' = [calls EXCEPT ![c] = ask]
    BY DEF Enter
  <2>2. ask.token = t /\ (ask.does = "create" => ask.key \in Keys \cup {NoKey})
    BY <2>1, AskedForIt
  <2>3. DOMAIN calls' = Calls /\ calls'[c] = ask /\ \A d \in Calls \ {c} : calls'[d] = calls[d]
    BY <2>1 DEF RowsInv, RequestsFit
  <2> QED
    BY <1>2, <2>2, <2>3 DEF RowsInv, RequestsFit, AskFits
<1>4. Columns \subseteq DOMAIN instances[v] /\ clock \in Nat
  BY <1>1, RowLimits DEF WholeInv, ActivityIsNoted, RowsInv
<1>5. /\ DOMAIN instances' = DOMAIN instances
      /\ \A w \in DOMAIN instances \ {v} : instances'[w] = instances[w]
      /\ instances'[v] = [instances[v] EXCEPT !.idle = IdleUntil(v), !.lastActive = clock]
  BY <1>1, <1>2 DEF Touch
<1>6. /\ instances'[v].idle = IdleUntil(v) /\ instances'[v].generation = instances[v].generation
      /\ instances'[v].lastActive = clock
      /\ instances'[v].expires = instances[v].expires /\ instances'[v].records = instances[v].records
      /\ instances'[v].receipts = instances[v].receipts
  BY <1>4, <1>5 DEF Columns
<1>7. RowFits(v)'
  <2>1. RowFits(v)
    BY <1>1 DEF RowsInv
  <2> QED
    BY <1>1, <1>2, <1>4, <1>6, <2>1, TouchedInTime DEF RowFits
<1> HIDE DEF v
<1> QED
  BY <1>1, <1>2, <1>3, <1>5, <1>7, OneRowChanges

(* A record that is created begins at revision 1; its workspace's moves on by one. *)
LEMMA RowsCreate ==
    ASSUME RowsInv, WholeInv, NEW c \in Calls, Create(c)
    PROVE  RowsInv'
<1> PICK ask : ask = calls[c]
  OBVIOUS
<1> PICK v : v = ask.token.visitor
  OBVIOUS
<1> PICK r : r = <<ask.kind, NewNumber(instances[v].records, ask.kind)>>
  OBVIOUS
<1> PICK kept, given : kept = instances[v].records /\ given = instances[v].receipts
  OBVIOUS
<1>1. v \in DOMAIN instances /\ ask.does = "create"
  BY AvailableIsActive DEF Create
<1>2. UNCHANGED <<clock, logins, issued>> /\ Done(c)
  BY DEF Create
<1>3. ask.key \in Keys \cup {NoKey}
  BY <1>1 DEF RowsInv, RequestsFit, AskFits, Idling
<1>4. instances' = [instances EXCEPT
             ![v].records = With(kept, r),
             ![v].receipts = [k \in DOMAIN given \cup ({ask.key} \ {NoKey}) |->
                                 IF k = ask.key THEN r ELSE given[k]]]
  BY DEF Create
<1>5. Columns \subseteq DOMAIN instances[v] /\ RowFits(v)
  BY <1>1 DEF WholeInv, ActivityIsNoted, RowsInv
<1>6. /\ DOMAIN instances' = DOMAIN instances
      /\ \A w \in DOMAIN instances \ {v} : instances'[w] = instances[w]
      /\ instances'[v].idle = instances[v].idle /\ instances'[v].generation = instances[v].generation
      /\ instances'[v].expires = instances[v].expires /\ instances'[v].lastActive = instances[v].lastActive
      /\ instances'[v].records = With(kept, r)
      /\ DOMAIN instances'[v].receipts = DOMAIN given \cup ({ask.key} \ {NoKey})
  BY <1>1, <1>4, <1>5 DEF Columns
<1>7. \A q \in DOMAIN instances'[v].records : instances'[v].records[q] \in Nat \ {0}
  <2>1. \A q \in DOMAIN kept : kept[q] \in Nat \ {0}
    BY <1>5 DEF RowFits
  <2>2. DOMAIN With(kept, r) = DOMAIN kept \cup {r}
    BY DEF With
  <2>3. \A q \in DOMAIN kept \cup {r} :
            With(kept, r)[q] = 1 \/ (q \in DOMAIN kept /\ With(kept, r)[q] \in {kept[q], kept[q] + 1})
    BY DEF With
  <2>4. ASSUME NEW q \in DOMAIN kept \cup {r}
        PROVE  With(kept, r)[q] \in Nat \ {0}
    <3>1. CASE With(kept, r)[q] = 1
      BY <3>1
    <3>2. CASE With(kept, r)[q] # 1
      <4>1. q \in DOMAIN kept /\ With(kept, r)[q] \in {kept[q], kept[q] + 1}
        BY <2>3, <3>2
      <4> QED
        BY <2>1, <4>1
    <3> QED
      BY <3>1, <3>2
  <2> QED
    BY <1>6, <2>2, <2>4
<1>8. RowFits(v)'
  BY <1>2, <1>3, <1>5, <1>6, <1>7 DEF RowFits
<1> QED
  BY <1>1, <1>2, <1>6, <1>8, RequestEnds, OneRowChanges DEF RowsInv

(* An edit is the next revision of its record. *)
LEMMA RowsEdit ==
    ASSUME RowsInv, WholeInv, NEW c \in Calls, Edit(c)
    PROVE  RowsInv'
<1> PICK v, r : v = calls[c].token.visitor /\ r = calls[c].record
  OBVIOUS
<1>1. v \in DOMAIN instances /\ r \in DOMAIN instances[v].records
  BY AvailableIsActive DEF Edit, Editable
<1>2. /\ UNCHANGED <<clock, logins, issued>> /\ Done(c)
      /\ instances' = [instances EXCEPT ![v].records[r] = @ + 1]
  BY DEF Edit
<1>3. Columns \subseteq DOMAIN instances[v] /\ RowFits(v)
  BY <1>1 DEF WholeInv, ActivityIsNoted, RowsInv
<1>4. /\ DOMAIN instances' = DOMAIN instances
      /\ \A w \in DOMAIN instances \ {v} : instances'[w] = instances[w]
      /\ instances'[v].idle = instances[v].idle /\ instances'[v].generation = instances[v].generation
      /\ instances'[v].expires = instances[v].expires /\ instances'[v].lastActive = instances[v].lastActive
      /\ instances'[v].records = [instances[v].records EXCEPT ![r] = @ + 1]
      /\ instances'[v].receipts = instances[v].receipts
  BY <1>1, <1>2, <1>3 DEF Columns
<1>5. \A q \in DOMAIN instances'[v].records : instances'[v].records[q] \in Nat \ {0}
  <2>1. \A q \in DOMAIN instances[v].records : instances[v].records[q] \in Nat \ {0}
    BY <1>3 DEF RowFits
  <2>2. DOMAIN instances'[v].records = DOMAIN instances[v].records
    BY <1>4
  <2>3. ASSUME NEW q \in DOMAIN instances[v].records
        PROVE  instances'[v].records[q] \in Nat \ {0}
    <3>1. instances'[v].records[q] \in {instances[v].records[q], instances[v].records[q] + 1}
      BY <1>4
    <3> QED
      BY <2>1, <3>1
  <2> QED
    BY <2>2, <2>3
<1>6. RowFits(v)'
  BY <1>2, <1>3, <1>4, <1>5 DEF RowFits
<1> QED
  BY <1>1, <1>2, <1>4, <1>6, RequestEnds, OneRowChanges DEF RowsInv

(* A reset seeds the row again, under its next generation. *)
LEMMA RowsReset ==
    ASSUME RowsInv, WholeInv, NEW c \in Calls, Reset(c)
    PROVE  RowsInv'
<1> PICK v : v = calls[c].token.visitor
  OBVIOUS
<1> PICK g : g = instances[v].generation + 1
  OBVIOUS
<1>1. v \in DOMAIN instances /\ v \in Started
  <2>1. v \in DOMAIN instances
    BY AvailableIsActive DEF Reset
  <2> QED
    BY <2>1 DEF WholeInv, ActivityIsNoted
<1>2. /\ UNCHANGED clock /\ Done(c) /\ g <= MaxGeneration
      /\ instances' = [instances EXCEPT
             ![v] = [@ EXCEPT !.generation = g, !.idle = IdleUntil(v), !.records = Seeded, !.receipts = <<>>]]
      /\ logins' = LoginsWithout(v) \cup {[token |-> Token(v, g), expires |-> clock + TokenAge]}
      /\ issued' = issued \cup {Token(v, g)}
  BY DEF Reset, Token
<1>3. Columns \subseteq DOMAIN instances[v] /\ RowFits(v)
  BY <1>1 DEF WholeInv, ActivityIsNoted, RowsInv
<1>4. /\ DOMAIN instances' = DOMAIN instances
      /\ \A w \in DOMAIN instances \ {v} : instances'[w] = instances[w]
      /\ instances'[v].idle = IdleUntil(v) /\ instances'[v].generation = g
      /\ instances'[v].expires = instances[v].expires /\ instances'[v].lastActive = instances[v].lastActive
      /\ instances'[v].records = Seeded /\ instances'[v].receipts = <<>>
  BY <1>1, <1>2, <1>3 DEF Columns
<1>5. RowFits(v)'
  <2>1. DOMAIN Seeded = Seed /\ \A r \in Seed : Seeded[r] = 1
    BY DEF Seeded
  <2>2. g \in 1..MaxGeneration
    <3>1. instances[v].generation \in 1..MaxGeneration
      BY <1>3 DEF RowFits
    <3>2. g \in Nat /\ g >= 1
      BY <3>1
    <3> QED
      BY <1>2, <3>2, RowLimits
  <2>3. DOMAIN instances'[v].receipts = {}
    BY <1>4
  <2>4. instances'[v].idle \in Int /\ instances'[v].idle <= instances'[v].expires
    BY <1>1, <1>4, TouchedInTime
  <2>5. instances'[v].expires \in Nat /\ instances'[v].lastActive <= clock'
    BY <1>2, <1>3, <1>4 DEF RowFits
  <2> QED
    BY <1>4, <2>1, <2>2, <2>3, <2>4, <2>5 DEF RowFits
<1>6. ASSUME NEW w \in DOMAIN instances \ {v}
      PROVE  RowFits(w)'
  BY <1>2, <1>4 DEF RowsInv, RowFits
<1>7. Started' = Started
  <2>1. Token(v, g).visitor = v
    BY DEF Token
  <2> QED
    BY <1>1, <1>2, <2>1 DEF Started
<1>8. \A l \in logins' : l.token \in issued'
  BY <1>2 DEF RowsInv, LoginsWithout
<1>9. RequestsFit'
  BY <1>2, RequestEnds DEF RowsInv
<1> QED
  BY <1>2, <1>4, <1>5, <1>6, <1>7, <1>8, <1>9 DEF RowsInv

(* The other steps write no row: they end requests, prune, or let time pass. *)
LEMMA StepRowsInv == RowsInv /\ WholeInv /\ [InstanceNext]_instanceVars => RowsInv'
<1> SUFFICES ASSUME RowsInv, WholeInv, [InstanceNext]_instanceVars PROVE RowsInv'
  OBVIOUS
<1>1. ASSUME NEW c \in Calls, Read(c) \/ Repeat(c) \/ Refuse(c)
      PROVE  RowsInv'
  <2>1. UNCHANGED <<clock, instances, logins, issued>> /\ Done(c)
    BY <1>1 DEF Read, Repeat, Refuse
  <2>2. RequestsFit'
    BY <2>1, RequestEnds DEF RowsInv
  <2> QED
    BY <2>1, <2>2 DEF RowsInv, RowFits, Started
<1>2. CASE Restart
  <2>1. /\ DOMAIN instances' = Active /\ \A v \in Active : instances'[v] = instances[v]
        /\ UNCHANGED <<clock, logins, issued>> /\ Active \subseteq DOMAIN instances
    BY <1>2 DEF Restart, Active
  <2>2. RequestsFit'
    BY <1>2 DEF Restart, RequestsFit
  <2> QED
    BY <2>1, <2>2 DEF RowsInv, RowFits, Started
<1>3. CASE InstanceTick
  <2>1. clock' = clock + 1 /\ clock' \in 0..MaxClock /\ UNCHANGED <<instances, logins, issued, calls>>
    BY <1>3, RowLimits DEF InstanceTick, RowsInv
  <2>2. \A v \in DOMAIN instances : instances[v].lastActive \in Int
    BY DEF WholeInv, ActivityIsNoted
  <2>3. \A v \in DOMAIN instances : RowFits(v)'
    BY <2>1, <2>2 DEF RowsInv, RowFits
  <2>4. RequestsFit'
    BY <2>1 DEF RowsInv, RequestsFit, AskFits
  <2> QED
    BY <2>1, <2>3, <2>4 DEF RowsInv, Started
<1>4. CASE UNCHANGED instanceVars
  <2>1. UNCHANGED <<clock, instances, logins, issued, calls>>
    BY <1>4 DEF instanceVars
  <2> QED
    BY <2>1 DEF RowsInv, RowFits, RequestsFit, AskFits, Started
<1> QED
  BY <1>1, <1>2, <1>3, <1>4, RowsStart, RowsEnter, RowsCreate, RowsEdit, RowsReset DEF InstanceNext

(* InstanceTypeOK: visitors, instances, logins and requests are rows of their shapes, and once its *)
(* visitor has been let in an instance is idle no later than it expires (demo_instances.py).       *)
THEOREM InstancesTyped == InstanceSpec => []InstanceTypeOK
<1>1. InstanceInit => RowsInv
  BY RowLimits DEF InstanceInit, RowsInv, RequestsFit, Started
<1>2. WholeInv /\ RowsInv => InstanceTypeOK
  BY DEF WholeInv, ActivityIsNoted, RowsInv, RequestsFit, AskFits, RowFits, InstanceTypeOK
<1> QED
  BY InitWhole, StepWhole, <1>1, StepRowsInv, <1>2, PTL DEF InstanceSpec

-----------------------------------------------------------------------------
(* The shared records have their types, and a restore that holds the lock is at work. *)

JobFits(job) ==
    /\ {"does", "stage"} \subseteq DOMAIN job
    /\ job.stage \in Wiping \cup {"none", "check", "work"}
    /\ job.does = "create" => "key" \in DOMAIN job /\ job.key \in RequestKeys

(* Whoever holds the lock of the idle restore is signing somebody in. *)
WorkHolds ==
    /\ Working /\ \A w \in Workers : JobFits(work[w])
    /\ holder # Nobody => holder \in Workers /\ work[holder].does = "sign in"

TablesHold ==
    /\ DOMAIN issues \subseteq SeedIssues \cup 1..MaxIssue
    /\ \A n \in DOMAIN issues : issues[n] \in {"seed", "changed"}
    /\ DOMAIN receipts \subseteq RequestKeys

FlagsHold == {based, changed, overtaken} \subseteq BOOLEAN /\ quiet \in 0..IdleTicks

SInv == WorkHolds /\ TablesHold /\ FlagsHold

(* A thread goes on to another stage of what it does. *)
LEMMA NextStageFits ==
    ASSUME WorkHolds, NEW w \in Workers, NEW stage \in Wiping \cup {"none", "check", "work"},
           To(w, stage), UNCHANGED holder
    PROVE  WorkHolds'
<1>1. /\ Working' /\ work'[w].stage = stage /\ work'[w].does = work[w].does
      /\ \A u \in Workers \ {w} : work'[u] = work[u]
  BY MovesOn DEF WorkHolds
<1>2. work'[w] = [work[w] EXCEPT !.stage = stage]
  BY DEF To, WorkHolds, Working
<1>3. JobFits(work'[w])
  <2>1. JobFits(work[w])
    BY DEF WorkHolds
  <2> QED
    BY <1>1, <1>2, <2>1 DEF JobFits
<1> QED
  BY <1>1, <1>3 DEF WorkHolds

(* A thread that rests again holds nothing. *)
LEMMA RestFits ==
    ASSUME WorkHolds, NEW w \in Workers, End(w),
           \/ holder' = Nobody
           \/ UNCHANGED holder /\ (holder # w \/ work[w].does # "sign in")
    PROVE  WorkHolds'
<1>1. /\ Working' /\ work'[w] = Resting
      /\ \A u \in Workers \ {w} : work'[u] = work[u]
  BY RestsAgain DEF WorkHolds
<1>2. JobFits(Resting)
  BY DEF JobFits, Resting
<1> QED
  BY <1>1, <1>2 DEF WorkHolds

(* A thread begins work, with the lock if it is to restore. *)
LEMMA BeginningFits ==
    ASSUME WorkHolds, NEW w \in Workers, NEW job, JobFits(job), Begins(w, job),
           UNCHANGED holder \/ (holder' = w /\ job.does = "sign in")
    PROVE  WorkHolds'
<1>1. /\ Working' /\ work[w] = Resting /\ work'[w] = job
      /\ \A u \in Workers \ {w} : work'[u] = work[u]
  BY BeginsWork DEF WorkHolds, JobFits
<1>2. Resting.does # "sign in"
  BY DEF Resting
<1> QED
  BY <1>1, <1>2 DEF WorkHolds

(* The number of a new ticket is above all numbers in use. *)
LEMMA NewIssueIsPositive ==
    ASSUME TablesHold
    PROVE  NewIssue \in Nat \ {0}
<1> DEFINE S == {0} \cup DOMAIN issues
<1>1. IsFiniteSet(DOMAIN issues)
  <2>1. IsFiniteSet(SeedIssues) /\ 1 \in Int /\ MaxIssue \in Int
    BY SharedAssumption
  <2>2. IsFiniteSet(1..MaxIssue)
    BY <2>1, FS_Interval
  <2>3. IsFiniteSet(SeedIssues \cup 1..MaxIssue)
    BY <2>1, <2>2, FS_Union
  <2> QED
    BY <2>3, FS_Subset DEF TablesHold
<1>2. IsFiniteSet(S) /\ S # {}
  BY <1>1, FS_AddElement
<1>3. S \subseteq Nat
  <2>1. SeedIssues \subseteq Nat /\ 1..MaxIssue \subseteq Nat
    BY SharedAssumption
  <2>2. DOMAIN issues \subseteq SeedIssues \cup 1..MaxIssue
    BY DEF TablesHold
  <2>3. DOMAIN issues \subseteq Nat
    BY <2>1, <2>2, Zenon
  <2> QED
    BY <2>3
<1> HIDE DEF S
<1>4. Max(S) \in Nat
  <2>1. S \subseteq Int
    BY <1>3
  <2> QED
    BY <1>2, <1>3, <2>1, MaxFacts
<1> QED
  BY <1>4 DEF NewIssue, S

(* The seed, and nobody at work. *)
LEMMA InitSInv == SharedInit => SInv
<1> SUFFICES ASSUME SharedInit PROVE SInv
  OBVIOUS
<1>1. WorkHolds
  BY DEF SharedInit, WorkHolds, Working, JobFits, Resting
<1>2. TablesHold
  BY DEF SharedInit, TablesHold, AllSeed
<1>3. FlagsHold
  <2>1. 0 \in 0..IdleTicks
    BY SharedAssumption
  <2> QED
    BY <2>1 DEF SharedInit, FlagsHold
<1> QED
  BY <1>1, <1>2, <1>3 DEF SInv

(* A thread begins, goes on or ends: at a stage there is, with the lock if it restores. *)
LEMMA StepWorkHolds == WorkHolds /\ [SharedNext]_sharedVars => WorkHolds'
<1> SUFFICES ASSUME WorkHolds, [SharedNext]_sharedVars PROVE WorkHolds'
  OBVIOUS
<1>1. ASSUME NEW w \in Workers, Request(w)
      PROVE  WorkHolds'
  <2>1. PICK job : JobFits(job) /\ Begins(w, job)
    <3>1. PICK job \in {[does |-> "read", stage |-> "check"]} \cup
                       {[does |-> "update", stage |-> "check", issue |-> n] : n \in DOMAIN issues} \cup
                       {[does |-> "create", stage |-> "check", key |-> k, body |-> b] :
                           k \in RequestKeys, b \in Bodies} : Begins(w, job)
      BY <1>1 DEF Request
    <3>2. JobFits(job)
      BY DEF JobFits
    <3> QED
      BY <3>1, <3>2
  <2> QED
    BY <1>1, <2>1, BeginningFits DEF Request
<1>2. ASSUME NEW w \in Workers, TurnReads(w) \/ AdministratorResets(w) \/ SignInRestores(w)
      PROVE  WorkHolds'
  <2>1. /\ JobFits([does |-> "turn", stage |-> "check"])
        /\ JobFits([does |-> "reset", stage |-> "wipe records"])
        /\ JobFits([does |-> "sign in", stage |-> "wipe records"])
    BY DEF JobFits, Wiping
  <2>2. CASE TurnReads(w)
    BY <2>1, <2>2, BeginningFits DEF TurnReads
  <2>3. CASE AdministratorResets(w)
    BY <2>1, <2>3, BeginningFits DEF AdministratorResets
  <2>4. CASE SignInRestores(w)
    BY <2>1, <2>4, BeginningFits DEF SignInRestores
  <2> QED
    BY <1>2, <2>2, <2>3, <2>4
<1>3. ASSUME NEW w \in Workers, Check(w) \/ WipeRecords(w) \/ WipeBase(w) \/ WipeReceipts(w) \/ Fill(w)
      PROVE  WorkHolds'
  <2>1. PICK stage \in Wiping \cup {"none", "check", "work"} : To(w, stage)
    BY <1>3 DEF Check, WipeRecords, WipeBase, WipeReceipts, Fill, Wiping
  <2>2. UNCHANGED holder
    BY <1>3 DEF Check, WipeRecords, WipeBase, WipeReceipts, Fill
  <2> QED
    BY <2>1, <2>2, NextStageFits
<1>4. ASSUME NEW w \in Workers, FillFails(w) \/ EndRestore(w)
      PROVE  WorkHolds'
  <2>1. End(w) /\ (holder' = Nobody \/ (UNCHANGED holder /\ holder # w))
    BY <1>4 DEF FillFails, EndRestore
  <2> QED
    BY <2>1, RestFits
<1>5. ASSUME NEW w \in Workers, ReadAll(w) \/ CreateIssue(w) \/ RepeatIssue(w) \/ UpdateIssue(w) \/ RefuseWork(w)
      PROVE  WorkHolds'
  <2>1. End(w) /\ UNCHANGED holder /\ work[w].does # "sign in"
    BY <1>5 DEF ReadAll, CreateIssue, RepeatIssue, UpdateIssue, RefuseWork
  <2> QED
    BY <2>1, RestFits
<1>6. CASE ServerRestarts
  BY <1>6 DEF ServerRestarts, WorkHolds, Working, JobFits, Resting
<1>7. ASSUME UNCHANGED <<work, holder>>
      PROVE  WorkHolds'
  BY <1>7 DEF WorkHolds, Working
<1>8. ASSUME (\E w \in Workers : SignIn(w)) \/ TimePasses \/ UNCHANGED sharedVars
      PROVE  UNCHANGED <<work, holder>>
  BY <1>8 DEF SignIn, TimePasses, sharedVars
<1> QED
  BY <1>1, <1>2, <1>3, <1>4, <1>5, <1>6, <1>7, <1>8 DEF SharedNext

(* A table takes a ticket of the seed or one under a number of its own, and a receipt of its key. *)
LEMMA StepTablesHold == WorkHolds /\ TablesHold /\ [SharedNext]_sharedVars => TablesHold'
<1> SUFFICES ASSUME WorkHolds, TablesHold, [SharedNext]_sharedVars PROVE TablesHold'
  OBVIOUS
<1>1. ASSUME NEW w \in Workers, CreateIssue(w)
      PROVE  TablesHold'
  <2> PICK key, n : key = work[w].key /\ n = NewIssue
    OBVIOUS
  <2>1. /\ n <= MaxIssue /\ key \in RequestKeys
        /\ issues' = [m \in DOMAIN issues \cup {n} |-> IF m = n THEN "changed" ELSE issues[m]]
        /\ DOMAIN receipts' = DOMAIN receipts \cup {key}
    BY <1>1 DEF CreateIssue, WorkHolds, JobFits
  <2>2. n \in 1..MaxIssue
    <3>1. n \in Nat \ {0}
      BY NewIssueIsPositive
    <3> QED
      BY <2>1, <3>1, SharedAssumption
  <2> QED
    BY <2>1, <2>2 DEF TablesHold
<1>2. ASSUME NEW w \in Workers, UpdateIssue(w)
      PROVE  TablesHold'
  <2>1. /\ DOMAIN issues' = DOMAIN issues /\ UNCHANGED receipts
        /\ \A n \in DOMAIN issues : issues'[n] \in {issues[n], "changed"}
    BY <1>2 DEF UpdateIssue
  <2> QED
    BY <2>1 DEF TablesHold
<1>3. ASSUME NEW w \in Workers, WipeRecords(w) \/ WipeReceipts(w)
      PROVE  TablesHold'
  <2>1. issues' \in {issues, <<>>} /\ receipts' \in {receipts, <<>>}
    BY <1>3 DEF WipeRecords, WipeReceipts
  <2>2. DOMAIN <<>> = {}
    OBVIOUS
  <2> QED
    BY <2>1, <2>2 DEF TablesHold
<1>4. ASSUME NEW w \in Workers, Fill(w)
      PROVE  TablesHold'
  <2>1. /\ DOMAIN issues' = SeedIssues \cup DOMAIN issues /\ UNCHANGED receipts
        /\ \A n \in DOMAIN issues' : issues'[n] = IF n \in SeedIssues THEN "seed" ELSE issues[n]
    BY <1>4 DEF Fill, AllSeed
  <2> QED
    BY <2>1 DEF TablesHold
<1>5. CASE ServerRestarts
  BY <1>5 DEF ServerRestarts, TablesHold, AllSeed
<1>6. ASSUME UNCHANGED <<issues, receipts>>
      PROVE  TablesHold'
  BY <1>6 DEF TablesHold
<1>7. ASSUME NEW w \in Workers,
             \/ Request(w) \/ TurnReads(w) \/ AdministratorResets(w) \/ SignInRestores(w) \/ SignIn(w)
             \/ Check(w) \/ WipeBase(w) \/ FillFails(w)
      PROVE  UNCHANGED <<issues, receipts>>
  <2>1. Request(w) \/ TurnReads(w) => UNCHANGED <<issues, receipts>>
    BY DEF Request, TurnReads
  <2>2. AdministratorResets(w) \/ SignInRestores(w) \/ SignIn(w) => UNCHANGED <<issues, receipts>>
    BY DEF AdministratorResets, SignInRestores, SignIn
  <2>3. Check(w) \/ WipeBase(w) \/ FillFails(w) => UNCHANGED <<issues, receipts>>
    BY DEF Check, WipeBase, FillFails
  <2> QED
    BY <1>7, <2>1, <2>2, <2>3
<1>8. ASSUME NEW w \in Workers, EndRestore(w) \/ ReadAll(w) \/ RepeatIssue(w) \/ RefuseWork(w)
      PROVE  UNCHANGED <<issues, receipts>>
  BY <1>8 DEF EndRestore, ReadAll, RepeatIssue, RefuseWork
<1>9. ASSUME TimePasses \/ UNCHANGED sharedVars
      PROVE  UNCHANGED <<issues, receipts>>
  BY <1>9 DEF TimePasses, sharedVars
<1> QED
  BY <1>1, <1>2, <1>3, <1>4, <1>5, <1>6, <1>7, <1>8, <1>9 DEF SharedNext

(* The fields of the idle restore stay what they are, and its quiet time is counted to the limit. *)
LEMMA StepFlagsHold == FlagsHold /\ [SharedNext]_sharedVars => FlagsHold'
<1> SUFFICES ASSUME FlagsHold, [SharedNext]_sharedVars PROVE FlagsHold'
  OBVIOUS
<1>0. 0 \in 0..IdleTicks
  BY SharedAssumption
<1>1. ASSUME NEW w \in Workers, Request(w)
      PROVE  FlagsHold'
  BY <1>0, <1>1 DEF Request, Changes, FlagsHold
<1>2. ASSUME NEW w \in Workers, SignIn(w) \/ WipeBase(w) \/ Fill(w)
      PROVE  FlagsHold'
  BY <1>0, <1>2 DEF SignIn, WipeBase, Fill, FlagsHold
<1>3. ASSUME NEW w \in Workers, EndRestore(w)
      PROVE  FlagsHold'
  BY <1>0, <1>3 DEF EndRestore, Restored, FlagsHold
<1>4. CASE ServerRestarts
  BY <1>0, <1>4 DEF ServerRestarts, FlagsHold
<1>5. CASE TimePasses
  BY <1>5, SharedAssumption DEF TimePasses, FlagsHold
<1>6. ASSUME UNCHANGED <<based, changed, overtaken, quiet>>
      PROVE  FlagsHold'
  BY <1>6 DEF FlagsHold
<1>7. ASSUME NEW w \in Workers,
             \/ TurnReads(w) \/ AdministratorResets(w) \/ SignInRestores(w) \/ Check(w)
             \/ WipeRecords(w) \/ WipeReceipts(w) \/ FillFails(w)
      PROVE  UNCHANGED <<based, changed, overtaken, quiet>>
  BY <1>7 DEF TurnReads, AdministratorResets, SignInRestores, Check, WipeRecords, WipeReceipts, FillFails
<1>8. ASSUME NEW w \in Workers, ReadAll(w) \/ CreateIssue(w) \/ RepeatIssue(w) \/ UpdateIssue(w) \/ RefuseWork(w)
      PROVE  UNCHANGED <<based, changed, overtaken, quiet>>
  BY <1>8 DEF ReadAll, CreateIssue, RepeatIssue, UpdateIssue, RefuseWork
<1>9. ASSUME UNCHANGED sharedVars
      PROVE  UNCHANGED <<based, changed, overtaken, quiet>>
  BY <1>9 DEF sharedVars
<1> QED
  BY <1>1, <1>2, <1>3, <1>4, <1>5, <1>6, <1>7, <1>8, <1>9 DEF SharedNext

(* SharedTypeOK: the shared tables, the fields of the idle restore and the stage of every thread are *)
(* what their types say, and its lock is held only by a sign-in that restores (demo_refresh.py).     *)
THEOREM SharedTyped == SharedSpec => []SharedTypeOK
<1>1. SInv /\ [SharedNext]_sharedVars => SInv'
  BY StepWorkHolds, StepTablesHold, StepFlagsHold DEF SInv
<1>2. SInv => SharedTypeOK
  BY DEF SInv, WorkHolds, JobFits, TablesHold, FlagsHold, SharedTypeOK
<1> QED
  BY InitSInv, <1>1, <1>2, PTL DEF SharedSpec

-----------------------------------------------------------------------------
(* The rows of accounts have their types. *)

TriesFit == \A c \in DOMAIN challenges : challenges[c].tries <= Tries
AllowanceFits == allowance \in [Emails -> 0..CodesPerHour]

(* An address that is asked for is one, and so is the role a person is to have. *)
JobTyped(job) ==
    /\ job.does \in {"register", "add", "account"} => job.email \in Emails
    /\ job.does \in {"add", "change"} => job.role \in Roles

MembersFit ==
    /\ DOMAIN accounts \subseteq Emails /\ users <= MaxUsers
    /\ \A u \in DOMAIN members : members[u].org \in 1..users /\ members[u].role \in Roles
    /\ \A r \in Threads : JobTyped(doing[r])

(* One challenge changes, and still has tries left or just used the last. *)
LEMMA OneChallengeTried ==
    ASSUME CodesFit, TriesFit, NEW c, NEW x, challenges' = [challenges EXCEPT ![c] = x],
           c \in DOMAIN challenges => x.tries <= Tries
    PROVE  TriesFit'
  BY DEF TriesFit

(* A challenge that opens, or might have, counts a try more. *)
LEMMA StepTries == CodesFit /\ TriesFit /\ [AccountsNext]_accountVars => TriesFit'
<1> SUFFICES ASSUME CodesFit, TriesFit, [AccountsNext]_accountVars PROVE TriesFit'
  OBVIOUS
<1>0. challenges \in [DOMAIN challenges -> Challenge]
  BY ContentsOfChallenges
<1>1. ASSUME NEW r \in Threads, NEW e \in Emails, RequestCode(r, e)
      PROVE  TriesFit'
  <2> DEFINE closed == [i \in DOMAIN challenges |-> IF challenges[i].email = e THEN Used(challenges[i])
                                                    ELSE challenges[i]]
             new == [email |-> e, used |-> FALSE, old |-> FALSE, tries |-> 0, opened |-> 0]
             n == Len(challenges)
  <2>1. /\ DOMAIN challenges = 1..n /\ n \in Nat
        /\ \A f \in [DOMAIN challenges -> Challenge] : f \in Seq(Challenge) /\ Len(f) = Len(challenges)
    BY ContentsOfChallenges
  <2>2. closed \in [DOMAIN challenges -> Challenge]
    BY <1>0 DEF Used, Challenge
  <2>3. closed \in Seq(Challenge) /\ Len(closed) = n /\ new \in Challenge
    BY <2>1, <2>2 DEF Challenge
  <2>4. \A i \in 1..n : closed[i].tries = challenges[i].tries
    BY <1>0, <2>1 DEF Used, Challenge
  <2>5. challenges' = Append(closed, new) /\ new.tries = 0
    BY <1>1 DEF RequestCode
  <2> HIDE DEF closed, new, n
  <2>6. /\ Append(closed, new) \in Seq(Challenge) /\ Len(Append(closed, new)) = n + 1
        /\ \A i \in 1..n : Append(closed, new)[i] = closed[i]
        /\ Append(closed, new)[n + 1] = new
    BY <2>3, AppendProperties
  <2>7. DOMAIN challenges' = 1..n + 1
    BY <2>5, <2>6, LenProperties
  <2>8. ASSUME NEW i \in 1..n + 1
        PROVE  challenges'[i].tries <= Tries
    <3>1. CASE i = n + 1
      BY <2>5, <2>6, <3>1, AccountsAssumption
    <3>2. CASE i # n + 1
      <4>1. i \in 1..n
        BY <2>1, <3>2
      <4> QED
        BY <2>1, <2>4, <2>5, <2>6, <4>1 DEF TriesFit
    <3> QED
      BY <3>1, <3>2
  <2> QED
    BY <2>7, <2>8 DEF TriesFit
<1>2. ASSUME NEW r \in Threads, CodeNotSent(r)
      PROVE  TriesFit'
  <2> PICK c : c = doing[r].challenge
    OBVIOUS
  <2>1. challenges' = [challenges EXCEPT ![c] = Used(challenges[c])]
    BY <1>2 DEF CodeNotSent
  <2>2. c \in DOMAIN challenges => Used(challenges[c]).tries = challenges[c].tries
    BY <1>0 DEF Used, Challenge
  <2> QED
    BY <2>1, <2>2, OneChallengeTried DEF TriesFit
<1>3. ASSUME NEW r \in Threads, NEW c \in DOMAIN challenges, VerifyCode(r, c)
      PROVE  TriesFit'
  <2> DEFINE a == [challenges[c] EXCEPT !.used = TRUE]
             b == [a EXCEPT !.tries = @ + 1]
             x == [b EXCEPT !.opened = @ + 1]
  <2>1. challenges' = [challenges EXCEPT ![c] = x]
    BY <1>3 DEF VerifyCode
  <2>2. challenges[c] \in Challenge /\ challenges[c].tries < Tries
    BY <1>0, <1>3 DEF VerifyCode, Opens
  <2>3. a \in Challenge /\ a.tries = challenges[c].tries
    BY <2>2 DEF Challenge
  <2> HIDE DEF a
  <2>4. b \in Challenge /\ b.tries = challenges[c].tries + 1
    BY <2>3 DEF Challenge
  <2> HIDE DEF b
  <2>5. x.tries = challenges[c].tries + 1
    BY <2>4 DEF Challenge
  <2> HIDE DEF x
  <2>6. challenges[c].tries \in Nat /\ Tries \in Nat
    BY <2>2, AccountsAssumption DEF Challenge
  <2>7. x.tries <= Tries
    BY <2>2, <2>5, <2>6
  <2> QED
    BY <2>1, <2>7, OneChallengeTried
<1>4. ASSUME NEW c \in DOMAIN challenges, VerifyWrongCode(c)
      PROVE  TriesFit'
  <2> DEFINE x == [challenges[c] EXCEPT !.tries = @ + 1]
  <2>1. challenges' = [challenges EXCEPT ![c] = x]
    BY <1>4 DEF VerifyWrongCode
  <2>2. challenges[c] \in Challenge /\ challenges[c].tries < Tries
    BY <1>0, <1>4 DEF VerifyWrongCode, Opens
  <2>3. x.tries = challenges[c].tries + 1 /\ challenges[c].tries \in Nat /\ Tries \in Nat
    BY <2>2, AccountsAssumption DEF Challenge
  <2> HIDE DEF x
  <2>4. x.tries <= Tries
    BY <2>2, <2>3
  <2> QED
    BY <2>1, <2>4, OneChallengeTried
<1>5. ASSUME NEW c \in DOMAIN challenges, Expire(c)
      PROVE  TriesFit'
  <2> DEFINE x == [challenges[c] EXCEPT !.old = TRUE]
  <2>1. challenges' = [challenges EXCEPT ![c] = x]
    BY <1>5 DEF Expire
  <2>2. x.tries = challenges[c].tries
    BY <1>0 DEF Challenge
  <2> QED
    BY <2>1, <2>2, OneChallengeTried DEF TriesFit
<1>6. ASSUME UNCHANGED challenges
      PROVE  TriesFit'
  BY <1>6 DEF TriesFit
<1>7. ASSUME NEW r \in Threads,
             \/ CodeSent(r) \/ Found(r) \/ InsertAccount(r) \/ AddressTaken(r) \/ AddMember(r) \/ SetRole(r)
             \/ ClearGrants(r) \/ DeletePerson(r) \/ ReadProducts(r) \/ GrantMaker(r) \/ ReadMembers(r) \/ Grant(r)
      PROVE  UNCHANGED challenges
  BY <1>7 DEF CodeSent, Found, InsertAccount, AddressTaken, AddMember, SetRole, ClearGrants, DeletePerson, ReadProducts,
              GrantMaker, ReadMembers, Grant, signIn
<1>8. ASSUME NEW r \in Threads,
             \/ \E e \in Emails : OpenSign(r, e) \/ \E role \in Roles : AddPerson(r, e, role)
             \/ \E u \in DOMAIN members : \/ RemovePerson(r, u) \/ \E role \in Roles : ChangePerson(r, u, role)
                                          \/ \E p \in Products : AddProduct(r, p, u)
      PROVE  UNCHANGED challenges
  BY <1>8 DEF OpenSign, AddPerson, RemovePerson, ChangePerson, AddProduct, signIn
<1>9. ASSUME \/ \E e \in Emails : HourPasses(e)
             \/ ServerStops
             \/ UNCHANGED accountVars
      PROVE  UNCHANGED challenges
  BY <1>9 DEF HourPasses, ServerStops, accountVars, signIn
<1> QED
  BY <1>1, <1>2, <1>3, <1>4, <1>5, <1>6, <1>7, <1>8, <1>9 DEF AccountsNext

(* An address's allowance goes up to its limit and down to none. *)
LEMMA StepAllowance == AllowanceFits /\ [AccountsNext]_accountVars => AllowanceFits'
<1> SUFFICES ASSUME AllowanceFits, [AccountsNext]_accountVars PROVE AllowanceFits'
  OBVIOUS
<1>0. CodesPerHour \in Nat
  BY AccountsAssumption
<1>1. ASSUME NEW e, NEW n, allowance' = [allowance EXCEPT ![e] = n], e \in Emails => n \in 0..CodesPerHour
      PROVE  AllowanceFits'
  BY <1>1 DEF AllowanceFits
<1>2. ASSUME NEW r \in Threads, NEW e \in Emails, RequestCode(r, e)
      PROVE  AllowanceFits'
  <2>1. allowance' = [allowance EXCEPT ![e] = allowance[e] + 1] /\ allowance[e] < CodesPerHour
    BY <1>2 DEF RequestCode
  <2>2. allowance[e] + 1 \in 0..CodesPerHour
    BY <1>0, <2>1 DEF AllowanceFits
  <2> QED
    BY <1>1, <2>1, <2>2
<1>3. ASSUME NEW r \in Threads, CodeNotSent(r)
      PROVE  AllowanceFits'
  <2> PICK e : e = challenges[doing[r].challenge].email
    OBVIOUS
  <2>1. allowance' = [allowance EXCEPT ![e] = IF allowance[e] = 0 THEN 0 ELSE allowance[e] - 1]
    BY <1>3 DEF CodeNotSent
  <2>2. e \in Emails => (IF allowance[e] = 0 THEN 0 ELSE allowance[e] - 1) \in 0..CodesPerHour
    <3>1. e \in Emails => allowance[e] \in 0..CodesPerHour
      BY DEF AllowanceFits
    <3> QED
      BY <1>0, <3>1
  <2> QED
    BY <1>1, <2>1, <2>2
<1>4. ASSUME NEW e \in Emails, HourPasses(e)
      PROVE  AllowanceFits'
  <2>1. allowance' = [allowance EXCEPT ![e] = 0]
    BY <1>4 DEF HourPasses
  <2>2. 0 \in 0..CodesPerHour
    BY <1>0
  <2> QED
    BY <1>1, <2>1, <2>2
<1>5. ASSUME UNCHANGED allowance
      PROVE  AllowanceFits'
  BY <1>5 DEF AllowanceFits
<1>6. ASSUME NEW r \in Threads,
             \/ CodeSent(r) \/ Found(r) \/ InsertAccount(r) \/ AddressTaken(r) \/ AddMember(r) \/ SetRole(r)
             \/ ClearGrants(r) \/ DeletePerson(r) \/ ReadProducts(r) \/ GrantMaker(r) \/ ReadMembers(r) \/ Grant(r)
      PROVE  UNCHANGED allowance
  BY <1>6 DEF CodeSent, Found, InsertAccount, AddressTaken, AddMember, SetRole, ClearGrants, DeletePerson, ReadProducts,
              GrantMaker, ReadMembers, Grant, signIn
<1>7. ASSUME NEW r \in Threads,
             \/ \E e \in Emails : OpenSign(r, e) \/ \E role \in Roles : AddPerson(r, e, role)
             \/ \E c \in DOMAIN challenges : VerifyCode(r, c)
             \/ \E u \in DOMAIN members : \/ RemovePerson(r, u) \/ \E role \in Roles : ChangePerson(r, u, role)
                                          \/ \E p \in Products : AddProduct(r, p, u)
      PROVE  UNCHANGED allowance
  BY <1>7 DEF OpenSign, AddPerson, VerifyCode, RemovePerson, ChangePerson, AddProduct, signIn
<1>8. ASSUME \/ \E c \in DOMAIN challenges : VerifyWrongCode(c) \/ Expire(c)
             \/ ServerStops
             \/ UNCHANGED accountVars
      PROVE  UNCHANGED allowance
  BY <1>8 DEF VerifyWrongCode, Expire, ServerStops, accountVars, signIn
<1> QED
  BY <1>2, <1>3, <1>4, <1>5, <1>6, <1>7, <1>8 DEF AccountsNext

(* A thread takes up work of its type. *)
LEMMA WorkKeepsMembers ==
    ASSUME MembersFit, PeopleFit, NEW r \in Threads, NEW job, Now(r, job), JobTyped(job), UNCHANGED people
    PROVE  MembersFit'
<1>1. /\ doing'[r] = job /\ \A q \in Threads \ {r} : doing'[q] = doing[q]
  BY ThreadGoesOn DEF PeopleFit
<1>2. \A q \in Threads : JobTyped(doing'[q])
  BY <1>1 DEF MembersFit
<1> QED
  BY <1>2 DEF MembersFit, JobTyped, people

(* A member comes under the next number, to House or to an organization of the same number. *)
LEMMA ComerFits ==
    ASSUME MembersFit, PeopleFit, NEW r \in Threads, NEW job, Now(r, job), JobTyped(job), UNCHANGED accounts,
           NEW u, u = users + 1, NEW org \in {House, u}, NEW role \in Roles,
           users < MaxUsers, users' = u, members' = Entered(members, u, [org |-> org, role |-> role])
    PROVE  MembersFit'
<1>1. /\ doing'[r] = job /\ \A q \in Threads \ {r} : doing'[q] = doing[q]
  BY ThreadGoesOn DEF PeopleFit
<1>2. \A q \in Threads : JobTyped(doing'[q])
  BY <1>1 DEF MembersFit
<1>3. u \in Nat \ {0} /\ u <= MaxUsers /\ 1..users \subseteq 1..u
  BY AccountsAssumption DEF PeopleFit
<1>4. org \in 1..u
  BY <1>3 DEF House
<1>5. /\ DOMAIN members' = DOMAIN members \cup {u} /\ members'[u] = [org |-> org, role |-> role]
      /\ \A w \in DOMAIN members \ {u} : members'[w] = members[w]
  BY DEF Entered
<1>6. ASSUME NEW w \in DOMAIN members'
      PROVE  members'[w].org \in 1..u /\ members'[w].role \in Roles
  <2>1. CASE w = u
    BY <1>4, <1>5, <2>1
  <2>2. CASE w # u
    <3>1. members[w].org \in 1..users /\ members[w].role \in Roles /\ members'[w] = members[w]
      BY <1>5, <2>2 DEF MembersFit
    <3> QED
      BY <1>3, <3>1
  <2> QED
    BY <2>1, <2>2
<1> QED
  BY <1>2, <1>3, <1>6 DEF MembersFit, JobTyped

(* Every action, by the work it leaves to its thread and the rows it writes. *)
LEMMA StepMembers ==
    MembersFit /\ PeopleFit /\ CodesFit /\ [AccountsNext]_accountVars => MembersFit'
<1> SUFFICES ASSUME MembersFit, PeopleFit, CodesFit, [AccountsNext]_accountVars PROVE MembersFit'
  OBVIOUS
<1>0. JobTyped(Idle)
  BY DEF JobTyped, Idle
<1>1. ASSUME NEW r \in Threads, NEW e \in Emails, RequestCode(r, e)
      PROVE  MembersFit'
  <2>1. /\ JobTyped([does |-> "send", challenge |-> Len(challenges) + 1])
        /\ Now(r, [does |-> "send", challenge |-> Len(challenges) + 1]) /\ UNCHANGED people
    BY <1>1 DEF RequestCode, Starts, JobTyped
  <2> QED
    BY <2>1, WorkKeepsMembers
<1>2. ASSUME NEW e \in Emails, NEW may
      PROVE  JobTyped(Welcome(e, may))
  BY <1>0 DEF Welcome, JobTyped
<1>3. ASSUME NEW r \in Threads, NEW e \in Emails, OpenSign(r, e)
      PROVE  MembersFit'
  <2>1. Now(r, Welcome(e, TRUE)) /\ UNCHANGED people
    BY <1>3 DEF OpenSign, Starts
  <2> QED
    BY <1>2, <2>1, WorkKeepsMembers
<1>4. ASSUME NEW r \in Threads, NEW c \in DOMAIN challenges, VerifyCode(r, c)
      PROVE  MembersFit'
  <2>1. challenges[c].email \in Emails
    BY ContentsOfChallenges DEF Challenge
  <2>2. Now(r, Welcome(challenges[c].email, selfSignUp)) /\ UNCHANGED people
    BY <1>4 DEF VerifyCode, Starts
  <2> QED
    BY <1>2, <2>1, <2>2, WorkKeepsMembers
<1>5. ASSUME NEW r \in Threads, NEW e \in Emails, NEW role \in Roles, AddPerson(r, e, role)
      PROVE  MembersFit'
  <2>1. /\ Now(r, [does |-> "add", email |-> e, role |-> role]) /\ UNCHANGED people
        /\ JobTyped([does |-> "add", email |-> e, role |-> role])
    BY <1>5 DEF AddPerson, Starts, JobTyped
  <2> QED
    BY <2>1, WorkKeepsMembers
<1>6. ASSUME NEW r \in Threads, NEW u \in DOMAIN members, NEW role \in Roles, ChangePerson(r, u, role)
      PROVE  MembersFit'
  <2>1. /\ Now(r, [does |-> "change", user |-> u, role |-> role]) /\ UNCHANGED people
        /\ JobTyped([does |-> "change", user |-> u, role |-> role])
    BY <1>6 DEF ChangePerson, Starts, JobTyped
  <2> QED
    BY <2>1, WorkKeepsMembers
<1>7. ASSUME NEW r \in Threads, NEW u \in DOMAIN members, NEW p \in Products, AddProduct(r, p, u)
      PROVE  MembersFit'
  <2>1. /\ Now(r, [does |-> "maker", product |-> p, user |-> u]) /\ UNCHANGED people
        /\ JobTyped([does |-> "maker", product |-> p, user |-> u])
    BY <1>7 DEF AddProduct, Starts, JobTyped
  <2> QED
    BY <2>1, WorkKeepsMembers
<1>8. ASSUME NEW r \in Threads, CodeSent(r) \/ CodeNotSent(r) \/ AddressTaken(r)
      PROVE  MembersFit'
  <2>1. Now(r, Idle) /\ UNCHANGED people
    BY <1>8 DEF CodeSent, CodeNotSent, AddressTaken, Ends
  <2> QED
    BY <1>0, <2>1, WorkKeepsMembers
<1>9. ASSUME NEW r \in Threads, Found(r)
      PROVE  MembersFit'
  <2> PICK u, e : u = users + 1 /\ e = doing[r].email
    OBVIOUS
  <2> DEFINE job == [does |-> "account", email |-> e, user |-> u, org |-> u, role |-> "org_admin"]
  <2>1. /\ users < MaxUsers /\ users' = u /\ members' = Entered(members, u, [org |-> u, role |-> "org_admin"])
        /\ Now(r, job) /\ UNCHANGED accounts
    BY <1>9 DEF Found
  <2>2. e \in Emails
    BY <1>9 DEF Found, Does, MembersFit, JobTyped
  <2>3. JobTyped(job) /\ "org_admin" \in Roles
    BY <2>2 DEF JobTyped, Roles
  <2> HIDE DEF job
  <2> QED
    BY <2>1, <2>3, ComerFits
<1>10. ASSUME NEW r \in Threads, AddMember(r)
       PROVE  MembersFit'
  <2> PICK u, e, role : u = users + 1 /\ e = doing[r].email /\ role = doing[r].role
    OBVIOUS
  <2> DEFINE job == [does |-> "account", email |-> e, user |-> u, org |-> House, role |-> role]
  <2>1. /\ users < MaxUsers /\ users' = u /\ members' = Entered(members, u, [org |-> House, role |-> role])
        /\ Now(r, job) /\ UNCHANGED accounts
    BY <1>10 DEF AddMember
  <2>2. e \in Emails /\ role \in Roles
    BY <1>10 DEF AddMember, Does, MembersFit, JobTyped
  <2>3. JobTyped(job)
    BY <2>2 DEF JobTyped
  <2> HIDE DEF job
  <2> QED
    BY <2>1, <2>2, <2>3, ComerFits
<1>11. ASSUME NEW r \in Threads, InsertAccount(r)
       PROVE  MembersFit'
  <2>1. PICK job : Now(r, job) /\ job.does \in {"nothing", "products"}
    BY <1>11 DEF InsertAccount, Idle
  <2>2. /\ DOMAIN accounts' = DOMAIN accounts \cup {doing[r].email} /\ UNCHANGED <<members, users>>
        /\ doing[r].does = "account"
    BY <1>11 DEF InsertAccount, Does, Entered
  <2>3. doing[r].email \in Emails
    BY <2>2 DEF MembersFit, JobTyped
  <2>4. /\ doing'[r] = job /\ \A q \in Threads \ {r} : doing'[q] = doing[q]
    BY <2>1, ThreadGoesOn DEF PeopleFit
  <2>5. \A q \in Threads : JobTyped(doing'[q])
    BY <2>1, <2>4 DEF MembersFit, JobTyped
  <2> QED
    BY <2>2, <2>3, <2>5 DEF MembersFit, JobTyped
<1>12. ASSUME NEW r \in Threads, SetRole(r)
       PROVE  MembersFit'
  <2> PICK u, role : u = doing[r].user /\ role = doing[r].role
    OBVIOUS
  <2>1. /\ UNCHANGED <<accounts, users>> /\ role \in Roles
        /\ doing[r] = [does |-> "change", user |-> u, role |-> role]
    BY <1>12 DEF SetRole, Does, MembersFit, JobTyped, PeopleFit, ChangeComes
  <2>2. CASE u \notin DOMAIN members
    <3>1. Now(r, Idle) /\ UNCHANGED people
      BY <1>12, <2>1, <2>2 DEF SetRole, Ends, people
    <3> QED
      BY <1>0, <3>1, WorkKeepsMembers
  <2>3. CASE u \in DOMAIN members
    <3> DEFINE job == [does |-> "clear", user |-> u, role |-> role]
    <3>1. job = [doing[r] EXCEPT !.does = "clear"]
      BY <2>1
    <3>2. members' = Entered(members, u, [org |-> House, role |-> role]) /\ Now(r, job)
      BY <1>12, <2>3, <3>1 DEF SetRole
    <3>3. /\ doing'[r] = job /\ \A q \in Threads \ {r} : doing'[q] = doing[q]
      BY <3>2, ThreadGoesOn DEF PeopleFit
    <3>4. \A q \in Threads : JobTyped(doing'[q])
      BY <3>3 DEF MembersFit, JobTyped
    <3>5. House \in 1..users
      BY DEF PeopleFit, House
    <3>6. /\ DOMAIN members' = DOMAIN members /\ members'[u] = [org |-> House, role |-> role]
          /\ \A w \in DOMAIN members \ {u} : members'[w] = members[w]
      BY <2>3, <3>2 DEF Entered
    <3>7. \A w \in DOMAIN members' : members'[w].org \in 1..users /\ members'[w].role \in Roles
      BY <2>1, <3>5, <3>6 DEF MembersFit
    <3> QED
      BY <2>1, <3>4, <3>7 DEF MembersFit, JobTyped
  <2> QED
    BY <2>2, <2>3
<1>13. ASSUME NEW r \in Threads, ClearGrants(r)
       PROVE  MembersFit'
  <2> PICK u, role : u = doing[r].user /\ role = doing[r].role
    OBVIOUS
  <2>1. doing[r] = [does |-> "clear", user |-> u, role |-> role]
    BY <1>13 DEF ClearGrants, Does, PeopleFit, ChangeComes
  <2>2. Now(r, [does |-> "products", user |-> u, role |-> role]) /\ UNCHANGED people
    BY <1>13, <2>1 DEF ClearGrants
  <2>3. JobTyped([does |-> "products", user |-> u, role |-> role])
    BY DEF JobTyped
  <2> QED
    BY <2>2, <2>3, WorkKeepsMembers
<1>14. ASSUME NEW r \in Threads, ReadProducts(r) \/ ReadMembers(r) \/ Grant(r) \/ GrantMaker(r)
       PROVE  MembersFit'
  <2>1. PICK job : Now(r, job) /\ job.does \in {"nothing", "grant", "everyone"}
    <3>1. ASSUME ReadProducts(r) \/ ReadMembers(r) \/ Grant(r)
          PROVE  \E gs : Now(r, Granting(gs))
      BY <3>1 DEF ReadProducts, ReadMembers, Grant
    <3>2. ASSUME GrantMaker(r)
          PROVE  \E job : Now(r, job) /\ job.does = "everyone"
      BY <3>2 DEF GrantMaker
    <3> QED
      BY <1>14, <3>1, <3>2, GrantingDoes
  <2>2. UNCHANGED people
    BY <1>14 DEF ReadProducts, ReadMembers, Grant, GrantMaker
  <2>3. JobTyped(job)
    BY <2>1 DEF JobTyped
  <2> QED
    BY <2>1, <2>2, <2>3, WorkKeepsMembers
<1>15. ASSUME NEW r \in Threads, DeletePerson(r)
       PROVE  MembersFit'
  <2>1. /\ DOMAIN members' \subseteq DOMAIN members /\ \A w \in DOMAIN members' : members'[w] = members[w]
        /\ DOMAIN accounts' \subseteq DOMAIN accounts /\ users' = users
    BY <1>15 DEF DeletePerson, Only
  <2>2. doing'[r] = Idle /\ \A q \in Threads \ {r} : doing'[q] = doing[q]
    BY <1>15, ThreadGoesOn DEF DeletePerson, Ends, PeopleFit
  <2>3. \A q \in Threads : JobTyped(doing'[q])
    BY <2>2 DEF MembersFit, JobTyped, Idle
  <2> QED
    BY <2>1, <2>3 DEF MembersFit, JobTyped
<1>16. ASSUME NEW r \in Threads, NEW u \in DOMAIN members, RemovePerson(r, u)
       PROVE  MembersFit'
  <2>1. /\ Now(r, [does |-> "remove", user |-> u]) /\ UNCHANGED people
        /\ JobTyped([does |-> "remove", user |-> u])
    BY <1>16 DEF RemovePerson, Starts, JobTyped
  <2> QED
    BY <2>1, WorkKeepsMembers
<1>17. CASE ServerStops
  BY <1>17 DEF ServerStops, MembersFit, JobTyped, Idle, people
<1>18. ASSUME UNCHANGED <<people, doing>>
       PROVE  MembersFit'
  BY <1>18 DEF people, MembersFit, JobTyped
<1>19. ASSUME \/ \E c \in DOMAIN challenges : VerifyWrongCode(c) \/ Expire(c)
              \/ \E e \in Emails : HourPasses(e)
              \/ UNCHANGED accountVars
       PROVE  UNCHANGED <<people, doing>>
  BY <1>19 DEF VerifyWrongCode, Expire, HourPasses, accountVars
<1> QED
  BY <1>1, <1>3, <1>4, <1>5, <1>6, <1>7, <1>8, <1>9, <1>10, <1>11, <1>12, <1>13, <1>14, <1>15, <1>16, <1>17,
     <1>18, <1>19 DEF AccountsNext

(* AccountsTypeOK: every row of accounts names known addresses, users, organizations and roles; no   *)
(* challenge is tried, and no address given codes, more often than is allowed (account_api.py).      *)
THEOREM AccountsTyped == AccountsSpec => []AccountsTypeOK
<1>1. AccountsInit => TriesFit /\ AllowanceFits /\ MembersFit
  <2> SUFFICES ASSUME AccountsInit PROVE TriesFit /\ AllowanceFits /\ MembersFit
    OBVIOUS
  <2>1. 0 \in 0..CodesPerHour /\ Boss <= MaxUsers /\ House \in 1..Boss
    BY AccountsAssumption DEF Boss, House
  <2>2. TriesFit
    BY DEF AccountsInit, TriesFit
  <2>3. AllowanceFits
    BY <2>1 DEF AccountsInit, AllowanceFits
  <2>4. MembersFit
    BY <2>1 DEF AccountsInit, MembersFit, JobTyped, Idle, Roles
  <2> QED
    BY <2>2, <2>3, <2>4
<1>2. CodesFit /\ PeopleFit /\ GrantsFit /\ TriesFit /\ AllowanceFits /\ MembersFit => AccountsTypeOK
  <2> SUFFICES ASSUME CodesFit, PeopleFit, GrantsFit, TriesFit, AllowanceFits, MembersFit PROVE AccountsTypeOK
    OBVIOUS
  <2>1. ASSUME NEW c \in DOMAIN challenges
        PROVE  challenges[c].tries \in 0..Tries
    <3>1. challenges[c].tries \in Nat
      BY ContentsOfChallenges DEF Challenge
    <3> QED
      BY <3>1, AccountsAssumption DEF TriesFit
  <2> QED
    BY <2>1 DEF PeopleFit, GrantsFit, AllowanceFits, MembersFit, AccountsTypeOK
<1> QED
  BY InitAccounts, StepCodes, StepPeople, StepGrants, StepTries, StepAllowance, StepMembers, <1>1, <1>2, PTL
  DEF AccountsSpec

-----------------------------------------------------------------------------
(* TypeOK: whatever the workspace's five modules do, their tables, histories and requests keep the  *)
(* types their invariants state (demo_instances.py, product_data_store.py, demo_refresh.py,          *)
(* keeper_store.py, registry.py, account_api.py, organization_api.py).                               *)
THEOREM WorkspaceTyped ==
    InstanceSpec /\ SharedSpec /\ ProductRecordsSpec /\ LifecycleSpec /\ AccountsSpec => []TypeOK
<1> QED
  BY InstancesTyped, SharedTyped, RecordsTyped, LifecycleTyped, AccountsTyped, PTL DEF TypeOK
=============================================================================
