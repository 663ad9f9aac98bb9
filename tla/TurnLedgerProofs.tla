--------------------------- MODULE TurnLedgerProofs ---------------------------
(***************************************************************************)
(* Proofs about TurnLedger, for every number of users, sessions,           *)
(* workspaces, keys, requests, turns and generations.                      *)
(*                                                                         *)
(* The argument has three layers.  Typed says every variable has its type  *)
(* and that requests and key rows carry what they use.  TurnInv orders     *)
(* turns, keys and durable memory inside a session.  RecordInv ties a      *)
(* key's row to the effects and receipts it has had.  Each layer is        *)
(* inductive once the ones below it are known; the safety properties       *)
(* follow from them, and the step properties from the classification of    *)
(* what one step may do to the ledger (LedgerStep).                        *)
(***************************************************************************)
EXTENDS TurnLedger, TLAPS

USE DEF sessionVars, memoryVars, rowVars, worldVars, requestVars, history

-------------------------------------------------------------------------------
(* Types. *)

Typed == TypeOK /\ Shape

LEMMA InitTyped == Init => Typed
  BY BoundsAssumption, SetsAssumption, NoneAssumption
     DEF Init, Typed, TypeOK, Shape, KeyState, Settled, PC

LEMMA StepTyped == Typed /\ [Next]_vars => Typed'
<1> SUFFICES ASSUME Typed, [Next]_vars PROVE Typed'
  OBVIOUS
<1> USE NoneAssumption, BoundsAssumption, SetsAssumption
    DEF Typed, TypeOK, Shape, Job, PC, KeyState, Settled, Code, Rules, Turns
<1>1. ASSUME NEW r \in Requests, NEW u \in Users, NEW s \in Sessions, NEW t \in Turns,
             NEW x \in Scopes, Admit(r, u, s, t, x)
      PROVE  Typed'
  BY <1>1 DEF Admit, Principal, Owner
<1>2. ASSUME NEW r \in Requests, EnsureSession(r)
      PROVE  Typed'
  BY <1>2 DEF EnsureSession, Move
<1>3. ASSUME NEW r \in Requests, Deny(r)
      PROVE  Typed'
  BY <1>3 DEF Deny, Finish
<1>4. ASSUME NEW r \in Requests, ActivateTurn(r)
      PROVE  Typed'
  BY <1>4 DEF ActivateTurn, MayActivate, UnusedKeys, Dispatched, SettleAll, Move
<1>5. ASSUME NEW r \in Requests, StaleActivation(r)
      PROVE  Typed'
  BY <1>5 DEF StaleActivation, Finish
<1>6. ASSUME NEW r \in Requests, DenyContext(r)
      PROVE  Typed'
  BY <1>6 DEF DenyContext, ClearActive, Finish
<1>7. ASSUME NEW r \in Requests, LoadState(r)
      PROVE  Typed'
  BY <1>7 DEF LoadState
<1>8. ASSUME NEW r \in Requests, FinalizeAnswer(r)
      PROVE  Typed'
  BY <1>8 DEF FinalizeAnswer, CommitState, ClearActive, Finish
<1>9. ASSUME NEW r \in Requests, LoseRace(r)
      PROVE  Typed'
  BY <1>9 DEF LoseRace, Finish
<1>10. ASSUME NEW r \in Requests, CheckActive(r)
      PROVE  Typed'
  BY <1>10 DEF CheckActive, Move, Finish
<1>11. ASSUME NEW r \in Requests, NEW m \in BOOLEAN, LegacyComplete(r, m)
      PROVE  Typed'
  BY <1>11 DEF LegacyComplete, ClearActive, Move, Finish
<1>12. ASSUME NEW r \in Requests, RefuseDispatch(r)
      PROVE  Typed'
  BY <1>12 DEF RefuseDispatch, Finish
<1>13. ASSUME NEW r \in Requests, NEW k \in Keys, NEW c \in Changes, FinalizeDispatch(r, k, c)
      PROVE  Typed'
  BY <1>13 DEF FinalizeDispatch, CommitState, Dispatch, ClearActive, Finish, Binding
<1>14. ASSUME NEW r \in Requests, NEW k \in Keys, NEW c \in Changes, DispatchIfCurrent(r, k, c)
      PROVE  Typed'
  BY <1>14 DEF DispatchIfCurrent, Dispatch, Finish, Binding
<1>15. ASSUME NEW r \in Requests, RequestFails(r)
      PROVE  Typed'
  BY <1>15 DEF RequestFails, Finish
<1>16. ASSUME NEW p \in Principals, NEW s \in Sessions,
             NEW k \in Keys, NEW c \in Changes, Replay(p, s, k, c)
      PROVE  Typed'
  BY <1>16 DEF Replay, Answers, Answer, Unavailable, Receipt
<1>17. ASSUME NEW p \in Principals, NEW s \in Sessions,
             NEW k \in Keys, ClaimExpired(p, s, k)
      PROVE  Typed'
  BY <1>17 DEF ClaimExpired, Claimable, Settle, SettleAll, Receipt
<1>18. ASSUME NEW p \in Principals, NEW s \in Sessions,
             NEW k \in Keys, NEW c \in Changes, ClaimMismatched(p, s, k, c)
      PROVE  Typed'
  BY <1>18 DEF ClaimMismatched, Claimable, Settle, SettleAll, Receipt
<1>19. ASSUME NEW p \in Principals, NEW s \in Sessions,
             NEW k \in Keys, NEW c \in Changes, WriteRejected(p, s, k, c)
      PROVE  Typed'
  <2>1. PICK reason \in Rules \cup {"scope_unavailable"} : Settle(k, "failed", reason, "failed")
    BY <1>19 DEF WriteRejected
  <2> QED
    BY <1>19, <2>1 DEF WriteRejected, Claimable, Settle, SettleAll, Receipt
<1>20. ASSUME NEW p \in Principals, NEW s \in Sessions,
             NEW k \in Keys, NEW c \in Changes, WriteApplied(p, s, k, c)
      PROVE  Typed'
  BY <1>20 DEF WriteApplied, Claimable, Settle, SettleAll, Receipt
<1>21. ASSUME NEW p \in Principals, NEW s \in Sessions,
             NEW t \in Turns, CancelTurn(p, s, t)
      PROVE  Typed'
  BY <1>21 DEF CancelTurn, ClearActive, UnusedKeys, Dispatched, SettleAll
<1>22. ASSUME NEW p \in Principals, NEW s \in Sessions,
             CloseConversation(p, s)
      PROVE  Typed'
  BY <1>22 DEF CloseConversation, UnusedKeys, Dispatched, SettleAll
<1>23. ASSUME NEW u \in Users, ResetDemo(u)
      PROVE  Typed'
  BY <1>23 DEF ResetDemo, Dispatched, SettleAll
<1>24. ASSUME NEW u \in Users, NEW a \in {None} \cup SUBSET Scopes, ChangeAccess(u, a)
      PROVE  Typed'
  BY <1>24 DEF ChangeAccess
<1>25. ASSUME NEW m \in Modes, Restart(m)
      PROVE  Typed'
  BY <1>25 DEF Restart
<1>26. ASSUME NEW s \in Sessions, PruneState(s)
      PROVE  Typed'
  BY <1>26 DEF PruneState
<1>27. ASSUME NEW K \in SUBSET Keys, PruneLedger(K)
      PROVE  Typed'
  BY <1>27 DEF PruneLedger, Prunable
<1>28. ASSUME Tick
      PROVE  Typed'
  BY <1>28 DEF Tick
<1>29. CASE UNCHANGED vars
  BY <1>29 DEF vars
<1> HIDE DEF Typed, TypeOK, Shape, Job, PC, KeyState, Settled, Code, Rules, Turns
<1> QED
  BY <1>1, <1>2, <1>3, <1>4, <1>5, <1>6, <1>7, <1>8, <1>9, <1>10, <1>11, <1>12, <1>13, <1>14,
     <1>15, <1>16, <1>17, <1>18, <1>19, <1>20, <1>21, <1>22, <1>23, <1>24, <1>25, <1>26, <1>27,
     <1>28, <1>29
     DEF Next, TurnStep, WriteStep

(* Every reachable state of TurnLedger has the types its module declares: TypeOK. *)
THEOREM TypeCorrect == Spec => []TypeOK
<1>1. Spec => []Typed
  BY InitTyped, StepTyped, PTL DEF Spec
<1> QED
  BY <1>1, PTL DEF Typed

-------------------------------------------------------------------------------
(* Turns, keys and memory inside a session. *)

LEMMA InitTurns == Init => TurnInv
  BY NoneAssumption
     DEF Init, TurnInv, TurnOrder, EngagedTurnsAreAlone, Engaged, KeysFollowTurns,
         UsableKeysAreCurrent, Dispatched, OneKeyPerTurn, LoadedRevisionHolds

LEMMA StepTurns == Typed /\ Typed' /\ TurnInv /\ [Next]_vars => TurnInv'
<1> SUFFICES ASSUME Typed, Typed', TurnInv, [Next]_vars PROVE TurnInv'
  OBVIOUS
<1> USE NoneAssumption, BoundsAssumption, SetsAssumption
    DEF Typed, TypeOK, Shape, Job, Binding, Owner, PC, KeyState, Settled, Code, Rules, Turns,
        TurnInv, TurnOrder, EngagedTurnsAreAlone, Engaged, SameTurn, KeysFollowTurns,
        UsableKeysAreCurrent, Dispatched, OneKeyPerTurn, LoadedRevisionHolds
<1>1. ASSUME NEW r \in Requests, NEW u \in Users, NEW s \in Sessions, NEW t \in Turns,
             NEW x \in Scopes, Admit(r, u, s, t, x)
      PROVE  TurnInv'
  BY <1>1 DEF Admit, Principal
<1>2. ASSUME NEW r \in Requests, EnsureSession(r)
      PROVE  TurnInv'
  BY <1>2 DEF EnsureSession, Move
<1>3. ASSUME NEW r \in Requests, Deny(r)
      PROVE  TurnInv'
  BY <1>3 DEF Deny, Finish
<1>4. ASSUME NEW r \in Requests, ActivateTurn(r)
      PROVE  TurnInv'
  BY <1>4 DEF ActivateTurn, MayActivate, UnusedKeys, Dispatched, SettleAll, Move
<1>5. ASSUME NEW r \in Requests, StaleActivation(r)
      PROVE  TurnInv'
  BY <1>5 DEF StaleActivation, Finish
<1>6. ASSUME NEW r \in Requests, DenyContext(r)
      PROVE  TurnInv'
  BY <1>6 DEF DenyContext, ClearActive, Finish
<1>7. ASSUME NEW r \in Requests, LoadState(r)
      PROVE  TurnInv'
  <2>1. TurnOrder'
    BY <1>7 DEF LoadState
  <2>2. EngagedTurnsAreAlone'
    BY <1>7 DEF LoadState
  <2>3. KeysFollowTurns' /\ UsableKeysAreCurrent' /\ OneKeyPerTurn'
    BY <1>7 DEF LoadState
  <2>4. LoadedRevisionHolds'
    BY <1>7 DEF LoadState
  <2> QED
    BY <2>1, <2>2, <2>3, <2>4
<1>8. ASSUME NEW r \in Requests, FinalizeAnswer(r)
      PROVE  TurnInv'
  <2>1. TurnOrder'
    BY <1>8 DEF FinalizeAnswer, CommitState, ClearActive, Finish, IsCurrent, MayCommit
  <2>2. EngagedTurnsAreAlone'
    BY <1>8 DEF FinalizeAnswer, CommitState, ClearActive, Finish, IsCurrent, MayCommit
  <2>3. KeysFollowTurns' /\ UsableKeysAreCurrent' /\ OneKeyPerTurn'
    BY <1>8 DEF FinalizeAnswer, CommitState, ClearActive, Finish, IsCurrent, MayCommit
  <2>4. LoadedRevisionHolds'
    BY <1>8 DEF FinalizeAnswer, CommitState, ClearActive, Finish, IsCurrent, MayCommit
  <2> QED
    BY <2>1, <2>2, <2>3, <2>4
<1>9. ASSUME NEW r \in Requests, LoseRace(r)
      PROVE  TurnInv'
  BY <1>9 DEF LoseRace, Finish
<1>10. ASSUME NEW r \in Requests, CheckActive(r)
      PROVE  TurnInv'
  <2>1. TurnOrder'
    BY <1>10 DEF CheckActive, Move, Finish
  <2>2. EngagedTurnsAreAlone'
    <3>1. Engaged' \subseteq Engaged /\ \A q \in Engaged' : job'[q] = job[q]
      BY <1>10 DEF CheckActive, Move, Finish
    <3>2. UNCHANGED <<latest, bound>>
      BY <1>10 DEF CheckActive, Move, Finish
    <3> HIDE DEF Engaged
    <3> QED
      BY <3>1, <3>2
  <2>3. KeysFollowTurns' /\ UsableKeysAreCurrent' /\ OneKeyPerTurn'
    BY <1>10 DEF CheckActive, Move, Finish
  <2>4. LoadedRevisionHolds'
    BY <1>10 DEF CheckActive, Move, Finish
  <2> QED
    BY <2>1, <2>2, <2>3, <2>4
<1>11. ASSUME NEW r \in Requests, NEW m \in BOOLEAN, LegacyComplete(r, m)
      PROVE  TurnInv'
  <2>1. TurnOrder'
    BY <1>11 DEF LegacyComplete, ClearActive, Move, Finish
  <2>2. EngagedTurnsAreAlone'
    <3>1. Engaged' \subseteq Engaged /\ \A q \in Engaged' : job'[q] = job[q]
      BY <1>11 DEF LegacyComplete, ClearActive, Move, Finish
    <3>2. UNCHANGED <<latest, bound>>
      BY <1>11 DEF LegacyComplete, ClearActive, Move, Finish
    <3> HIDE DEF Engaged
    <3> QED
      BY <3>1, <3>2
  <2>3. KeysFollowTurns' /\ UsableKeysAreCurrent' /\ OneKeyPerTurn'
    BY <1>11 DEF LegacyComplete, ClearActive, Move, Finish
  <2>4. LoadedRevisionHolds'
    BY <1>11 DEF LegacyComplete, ClearActive, Move, Finish
  <2> QED
    BY <2>1, <2>2, <2>3, <2>4
<1>12. ASSUME NEW r \in Requests, RefuseDispatch(r)
      PROVE  TurnInv'
  BY <1>12 DEF RefuseDispatch, Finish
<1>13. ASSUME NEW r \in Requests, NEW k \in Keys, NEW c \in Changes, FinalizeDispatch(r, k, c)
      PROVE  TurnInv'
  <2>1. TurnOrder'
    BY <1>13 DEF FinalizeDispatch, CommitState, Dispatch, ClearActive, Finish, IsCurrent,
       MayCommit
  <2>2. EngagedTurnsAreAlone'
    <3>1. /\ Engaged' \subseteq Engaged \ {r}
          /\ \A q \in Engaged' : job'[q] = job[q]
          /\ r \in Engaged
      BY <1>13 DEF FinalizeDispatch, CommitState, Dispatch, ClearActive, Finish, IsCurrent,
         MayCommit
    <3>2. /\ latest' = latest
          /\ bound'[k] # None /\ SameTurn(bound'[k], job[r])
          /\ \A q \in Keys \ {k} : bound'[q] = bound[q]
      BY <1>13 DEF FinalizeDispatch, CommitState, Dispatch, ClearActive, Finish, IsCurrent,
         MayCommit
    <3>3. EngagedTurnsAreAlone
      OBVIOUS
    <3> HIDE DEF Typed, TypeOK, Shape, Job, Binding, Owner, TurnInv, TurnOrder, Engaged,
             KeysFollowTurns, UsableKeysAreCurrent, OneKeyPerTurn, LoadedRevisionHolds
    <3> QED
      BY <3>1, <3>2, <3>3
  <2>3. KeysFollowTurns'
    BY <1>13 DEF FinalizeDispatch, CommitState, Dispatch, ClearActive, Finish, IsCurrent,
       MayCommit
  <2>4. UsableKeysAreCurrent'
    BY <1>13 DEF FinalizeDispatch, CommitState, Dispatch, ClearActive, Finish, IsCurrent,
       MayCommit
  <2>5. OneKeyPerTurn'
    BY <1>13 DEF FinalizeDispatch, CommitState, Dispatch, ClearActive, Finish, IsCurrent,
       MayCommit
  <2>6. LoadedRevisionHolds'
    BY <1>13 DEF FinalizeDispatch, CommitState, Dispatch, ClearActive, Finish, IsCurrent,
       MayCommit
  <2> QED
    BY <2>1, <2>2, <2>3, <2>4, <2>5, <2>6
<1>14. ASSUME NEW r \in Requests, NEW k \in Keys, NEW c \in Changes, DispatchIfCurrent(r, k, c)
      PROVE  TurnInv'
  <2>1. TurnOrder'
    BY <1>14 DEF DispatchIfCurrent, Dispatch, Finish, IsLatest
  <2>2. EngagedTurnsAreAlone'
    <3>1. /\ Engaged' \subseteq Engaged \ {r}
          /\ \A q \in Engaged' : job'[q] = job[q]
          /\ r \in Engaged
      BY <1>14 DEF DispatchIfCurrent, Dispatch, Finish, IsLatest
    <3>2. /\ latest' = latest
          /\ bound'[k] # None /\ SameTurn(bound'[k], job[r])
          /\ \A q \in Keys \ {k} : bound'[q] = bound[q]
      BY <1>14 DEF DispatchIfCurrent, Dispatch, Finish, IsLatest
    <3>3. EngagedTurnsAreAlone
      OBVIOUS
    <3> HIDE DEF Typed, TypeOK, Shape, Job, Binding, Owner, TurnInv, TurnOrder, Engaged,
             KeysFollowTurns, UsableKeysAreCurrent, OneKeyPerTurn, LoadedRevisionHolds
    <3> QED
      BY <3>1, <3>2, <3>3
  <2>3. KeysFollowTurns' /\ UsableKeysAreCurrent'
    BY <1>14 DEF DispatchIfCurrent, Dispatch, Finish, IsLatest
  <2>4. OneKeyPerTurn'
    BY <1>14 DEF DispatchIfCurrent, Dispatch, Finish, IsLatest
  <2>5. LoadedRevisionHolds'
    BY <1>14 DEF DispatchIfCurrent, Dispatch, Finish, IsLatest
  <2> QED
    BY <2>1, <2>2, <2>3, <2>4, <2>5
<1>15. ASSUME NEW r \in Requests, RequestFails(r)
      PROVE  TurnInv'
  BY <1>15 DEF RequestFails, Finish
<1>16. ASSUME NEW p \in Principals, NEW s \in Sessions,
             NEW k \in Keys, NEW c \in Changes, Replay(p, s, k, c)
      PROVE  TurnInv'
  BY <1>16 DEF Replay, Answers, Answer, Unavailable
<1>17. ASSUME NEW p \in Principals, NEW s \in Sessions,
             NEW k \in Keys, ClaimExpired(p, s, k)
      PROVE  TurnInv'
  BY <1>17 DEF ClaimExpired, Claimable, Settle, SettleAll
<1>18. ASSUME NEW p \in Principals, NEW s \in Sessions,
             NEW k \in Keys, NEW c \in Changes, ClaimMismatched(p, s, k, c)
      PROVE  TurnInv'
  BY <1>18 DEF ClaimMismatched, Claimable, Settle, SettleAll
<1>19. ASSUME NEW p \in Principals, NEW s \in Sessions,
             NEW k \in Keys, NEW c \in Changes, WriteRejected(p, s, k, c)
      PROVE  TurnInv'
  BY <1>19 DEF WriteRejected, Claimable, Settle, SettleAll
<1>20. ASSUME NEW p \in Principals, NEW s \in Sessions,
             NEW k \in Keys, NEW c \in Changes, WriteApplied(p, s, k, c)
      PROVE  TurnInv'
  BY <1>20 DEF WriteApplied, Claimable, Settle, SettleAll
<1>21. ASSUME NEW p \in Principals, NEW s \in Sessions,
             NEW t \in Turns, CancelTurn(p, s, t)
      PROVE  TurnInv'
  BY <1>21 DEF CancelTurn, ClearActive, UnusedKeys, Dispatched, SettleAll
<1>22. ASSUME NEW p \in Principals, NEW s \in Sessions,
             CloseConversation(p, s)
      PROVE  TurnInv'
  BY <1>22 DEF CloseConversation, UnusedKeys, Dispatched, SettleAll
<1>23. ASSUME NEW u \in Users, ResetDemo(u)
      PROVE  TurnInv'
  BY <1>23 DEF ResetDemo, Dispatched, SettleAll
<1>24. ASSUME NEW u \in Users, NEW a \in {None} \cup SUBSET Scopes, ChangeAccess(u, a)
      PROVE  TurnInv'
  BY <1>24 DEF ChangeAccess
<1>25. ASSUME NEW m \in Modes, Restart(m)
      PROVE  TurnInv'
  BY <1>25 DEF Restart
<1>26. ASSUME NEW s \in Sessions, PruneState(s)
      PROVE  TurnInv'
  BY <1>26 DEF PruneState
<1>27. ASSUME NEW K \in SUBSET Keys, PruneLedger(K)
      PROVE  TurnInv'
  BY <1>27 DEF PruneLedger, Prunable
<1>28. ASSUME Tick
      PROVE  TurnInv'
  BY <1>28 DEF Tick
<1>29. CASE UNCHANGED vars
  BY <1>29 DEF vars
<1> HIDE DEF Typed, TypeOK, Shape, Job, Binding, Owner, PC, KeyState, Settled, Code, Rules, Turns,
        TurnInv, TurnOrder, EngagedTurnsAreAlone, Engaged, SameTurn, KeysFollowTurns,
        UsableKeysAreCurrent, Dispatched, OneKeyPerTurn, LoadedRevisionHolds
<1> QED
  BY <1>1, <1>2, <1>3, <1>4, <1>5, <1>6, <1>7, <1>8, <1>9, <1>10, <1>11, <1>12, <1>13, <1>14,
     <1>15, <1>16, <1>17, <1>18, <1>19, <1>20, <1>21, <1>22, <1>23, <1>24, <1>25, <1>26, <1>27,
     <1>28, <1>29
     DEF Next, TurnStep, WriteStep

-------------------------------------------------------------------------------
(* Effects and receipts of a key. *)

LEMMA InitRecords == Init => RecordInv
  BY DEF Init, RecordInv, EffectsFollowState, ReceiptsFollowState, ReceiptsAgree, Settled

LEMMA StepRecords == Typed /\ Typed' /\ RecordInv /\ [Next]_vars => RecordInv'
<1> SUFFICES ASSUME Typed, Typed', RecordInv, [Next]_vars PROVE RecordInv'
  OBVIOUS
<1> USE NoneAssumption, BoundsAssumption, SetsAssumption
    DEF Typed, TypeOK, Shape, KeyState, Settled, Code, Rules, RecordInv, EffectsFollowState,
        ReceiptsFollowState, ReceiptsAgree, Answers, Answer, Unavailable
<1>1. ASSUME NEW r \in Requests, NEW u \in Users, NEW s \in Sessions, NEW t \in Turns,
             NEW x \in Scopes, Admit(r, u, s, t, x)
      PROVE  RecordInv'
  BY <1>1 DEF Admit, Principal
<1>2. ASSUME NEW r \in Requests, EnsureSession(r)
      PROVE  RecordInv'
  BY <1>2 DEF EnsureSession, Move
<1>3. ASSUME NEW r \in Requests, Deny(r)
      PROVE  RecordInv'
  BY <1>3 DEF Deny, Finish
<1>4. ASSUME NEW r \in Requests, ActivateTurn(r)
      PROVE  RecordInv'
  BY <1>4 DEF ActivateTurn, MayActivate, UnusedKeys, Dispatched, SettleAll, Move
<1>5. ASSUME NEW r \in Requests, StaleActivation(r)
      PROVE  RecordInv'
  BY <1>5 DEF StaleActivation, Finish
<1>6. ASSUME NEW r \in Requests, DenyContext(r)
      PROVE  RecordInv'
  BY <1>6 DEF DenyContext, ClearActive, Finish
<1>7. ASSUME NEW r \in Requests, LoadState(r)
      PROVE  RecordInv'
  BY <1>7 DEF LoadState
<1>8. ASSUME NEW r \in Requests, FinalizeAnswer(r)
      PROVE  RecordInv'
  BY <1>8 DEF FinalizeAnswer, CommitState, ClearActive, Finish
<1>9. ASSUME NEW r \in Requests, LoseRace(r)
      PROVE  RecordInv'
  BY <1>9 DEF LoseRace, Finish
<1>10. ASSUME NEW r \in Requests, CheckActive(r)
      PROVE  RecordInv'
  BY <1>10 DEF CheckActive, Move, Finish
<1>11. ASSUME NEW r \in Requests, NEW m \in BOOLEAN, LegacyComplete(r, m)
      PROVE  RecordInv'
  BY <1>11 DEF LegacyComplete, ClearActive, Move, Finish
<1>12. ASSUME NEW r \in Requests, RefuseDispatch(r)
      PROVE  RecordInv'
  BY <1>12 DEF RefuseDispatch, Finish
<1>13. ASSUME NEW r \in Requests, NEW k \in Keys, NEW c \in Changes, FinalizeDispatch(r, k, c)
      PROVE  RecordInv'
  BY <1>13 DEF FinalizeDispatch, CommitState, Dispatch, ClearActive, Finish
<1>14. ASSUME NEW r \in Requests, NEW k \in Keys, NEW c \in Changes, DispatchIfCurrent(r, k, c)
      PROVE  RecordInv'
  BY <1>14 DEF DispatchIfCurrent, Dispatch, Finish
<1>15. ASSUME NEW r \in Requests, RequestFails(r)
      PROVE  RecordInv'
  BY <1>15 DEF RequestFails, Finish
<1>16. ASSUME NEW p \in Principals, NEW s \in Sessions,
             NEW k \in Keys, NEW c \in Changes, Replay(p, s, k, c)
      PROVE  RecordInv'
  BY <1>16 DEF Replay, Answers, Answer, Unavailable
<1>17. ASSUME NEW p \in Principals, NEW s \in Sessions,
             NEW k \in Keys, ClaimExpired(p, s, k)
      PROVE  RecordInv'
  BY <1>17 DEF ClaimExpired, Claimable, Settle, SettleAll
<1>18. ASSUME NEW p \in Principals, NEW s \in Sessions,
             NEW k \in Keys, NEW c \in Changes, ClaimMismatched(p, s, k, c)
      PROVE  RecordInv'
  BY <1>18 DEF ClaimMismatched, Claimable, Settle, SettleAll
<1>19. ASSUME NEW p \in Principals, NEW s \in Sessions,
             NEW k \in Keys, NEW c \in Changes, WriteRejected(p, s, k, c)
      PROVE  RecordInv'
  <2>1. PICK reason \in Rules \cup {"scope_unavailable"} : Settle(k, "failed", reason, "failed")
    BY <1>19 DEF WriteRejected
  <2> QED
    BY <1>19, <2>1 DEF WriteRejected, Claimable, Settle, SettleAll
<1>20. ASSUME NEW p \in Principals, NEW s \in Sessions,
             NEW k \in Keys, NEW c \in Changes, WriteApplied(p, s, k, c)
      PROVE  RecordInv'
  BY <1>20 DEF WriteApplied, Claimable, Settle, SettleAll
<1>21. ASSUME NEW p \in Principals, NEW s \in Sessions,
             NEW t \in Turns, CancelTurn(p, s, t)
      PROVE  RecordInv'
  BY <1>21 DEF CancelTurn, ClearActive, UnusedKeys, Dispatched, SettleAll
<1>22. ASSUME NEW p \in Principals, NEW s \in Sessions,
             CloseConversation(p, s)
      PROVE  RecordInv'
  BY <1>22 DEF CloseConversation, UnusedKeys, Dispatched, SettleAll
<1>23. ASSUME NEW u \in Users, ResetDemo(u)
      PROVE  RecordInv'
  BY <1>23 DEF ResetDemo, Dispatched, SettleAll
<1>24. ASSUME NEW u \in Users, NEW a \in {None} \cup SUBSET Scopes, ChangeAccess(u, a)
      PROVE  RecordInv'
  BY <1>24 DEF ChangeAccess
<1>25. ASSUME NEW m \in Modes, Restart(m)
      PROVE  RecordInv'
  BY <1>25 DEF Restart
<1>26. ASSUME NEW s \in Sessions, PruneState(s)
      PROVE  RecordInv'
  BY <1>26 DEF PruneState
<1>27. ASSUME NEW K \in SUBSET Keys, PruneLedger(K)
      PROVE  RecordInv'
  BY <1>27 DEF PruneLedger, Prunable
<1>28. ASSUME Tick
      PROVE  RecordInv'
  BY <1>28 DEF Tick
<1>29. CASE UNCHANGED vars
  BY <1>29 DEF vars
<1> HIDE DEF Typed, TypeOK, Shape, KeyState, Settled, Code, Rules, RecordInv, EffectsFollowState,
        ReceiptsFollowState, ReceiptsAgree, Answers, Answer, Unavailable
<1> QED
  BY <1>1, <1>2, <1>3, <1>4, <1>5, <1>6, <1>7, <1>8, <1>9, <1>10, <1>11, <1>12, <1>13, <1>14,
     <1>15, <1>16, <1>17, <1>18, <1>19, <1>20, <1>21, <1>22, <1>23, <1>24, <1>25, <1>26, <1>27,
     <1>28, <1>29
     DEF Next, TurnStep, WriteStep

-------------------------------------------------------------------------------
(* The invariants. *)

(* The inductive invariant holds in every reachable state. *)
THEOREM Invariance == Spec => [](Typed /\ IInv)
<1>1. Init => Typed /\ TurnInv /\ RecordInv
  BY InitTyped, InitTurns, InitRecords
<1>2. Typed /\ TurnInv /\ RecordInv /\ [Next]_vars => (Typed /\ TurnInv /\ RecordInv)'
  BY StepTyped, StepTurns, StepRecords
<1>3. Typed /\ TurnInv /\ RecordInv => Typed /\ IInv
  BY DEF Typed, IInv
<1> QED
  BY <1>1, <1>2, <1>3, PTL DEF Spec

(* UsableKeysAreCurrent: supersession leaves no usable key of an older turn, another workspace or
   another owner behind, for any interleaving of any number of turn requests. *)
THEOREM KeysAreCurrent == Spec => []UsableKeysAreCurrent
<1>1. IInv => UsableKeysAreCurrent
  BY DEF IInv, TurnInv
<1> QED
  BY <1>1, Invariance, PTL

(* OneKeyPerTurn: a turn of a session never has two keys, in either engine mode. *)
THEOREM TurnsHaveOneKey == Spec => []OneKeyPerTurn
<1>1. IInv => OneKeyPerTurn
  BY DEF IInv, TurnInv
<1> QED
  BY <1>1, Invariance, PTL

(* LedgerTellsTheTruth: a key's change reaches the records at most once, exactly when the ledger
   says so. *)
THEOREM LedgerIsTrue == Spec => []LedgerTellsTheTruth
<1>1. Typed /\ IInv => LedgerTellsTheTruth
  BY DEF Typed, TypeOK, IInv, RecordInv, EffectsFollowState, LedgerTellsTheTruth, KeyState, Settled
<1> QED
  BY <1>1, Invariance, PTL

(* ReceiptsAgree: every receipt of a key reports the outcome its record change really had. *)
THEOREM ReceiptsAreConsistent == Spec => []ReceiptsAgree
<1>1. IInv => ReceiptsAgree
  BY DEF IInv, RecordInv
<1> QED
  BY <1>1, Invariance, PTL

(* CurrentTurnsKeepTheirMemory: the optimistic revision check of EngineStateStore.commit can only
   fail a turn that has already lost its place as the active turn. *)
THEOREM MemoryFollowsTheTurn == Spec => []CurrentTurnsKeepTheirMemory
<1>1. Typed /\ IInv => CurrentTurnsKeepTheirMemory
  <2> SUFFICES ASSUME Typed, IInv, NEW r \in Requests, pc[r] = "loaded", IsCurrent(job[r])
               PROVE  MayCommit(job[r])
    BY DEF CurrentTurnsKeepTheirMemory
  <2>1. /\ job[r] \in Job
        /\ active[job[r].session] = job[r].turn
        /\ job[r].turn # 0
    BY BoundsAssumption DEF Typed, TypeOK, Shape, IsCurrent, Job, Turns
  <2>2. revision[job[r].session] \in {0, job[r].base}
    BY <2>1 DEF IInv, TurnInv, LoadedRevisionHolds
  <2>3. revision[job[r].session] # 0 => lastTurn[job[r].session] < job[r].turn
    BY <2>1 DEF IInv, TurnInv, TurnOrder, Job
  <2> QED
    BY <2>2, <2>3 DEF MayCommit
<1> QED
  BY <1>1, Invariance, PTL

-------------------------------------------------------------------------------
(* What one step may do to the ledger. *)

Issues(k) == \E j \in Job, c \in Changes : Dispatch(k, j, c) /\ UNCHANGED effects

Withdraws(K) ==
    /\ \E outcome \in {"failed", "cancelled"}, reason \in Code : SettleAll(K, outcome, reason)
    /\ UNCHANGED effects

Applies(k) ==
    /\ SettleAll({k}, "executed", "applied")
    /\ effects' = [effects EXCEPT ![k] = @ + 1]

Prunes(K) ==
    /\ \A k \in K : state[k] \in Settled \cup {"dispatched"}
    /\ state' = [k \in Keys |-> IF k \in K THEN "deleted" ELSE state[k]]
    /\ \A k \in Keys \ K : code'[k] = code[k] /\ bound'[k] = bound[k]
    /\ UNCHANGED effects

LedgerStep ==
    \/ UNCHANGED <<state, bound, code, effects>>
    \/ \E k \in Keys : Issues(k)
    \/ \E K \in SUBSET Dispatched : Withdraws(K)
    \/ \E k \in Dispatched : Applies(k)
    \/ \E K \in SUBSET Keys : Prunes(K)

LEMMA LedgerSteps == Typed /\ [Next]_vars => LedgerStep
<1> SUFFICES ASSUME Typed, [Next]_vars PROVE LedgerStep
  OBVIOUS
<1> USE DEF LedgerStep, Issues, Withdraws, Applies, Prunes, Code, Rules
<1>1. ASSUME NEW r \in Requests, NEW u \in Users, NEW s \in Sessions, NEW t \in Turns,
             NEW x \in Scopes, Admit(r, u, s, t, x)
      PROVE  LedgerStep
  BY <1>1 DEF Admit
<1>2. ASSUME NEW r \in Requests, EnsureSession(r)
      PROVE  LedgerStep
  BY <1>2 DEF EnsureSession
<1>3. ASSUME NEW r \in Requests, Deny(r)
      PROVE  LedgerStep
  BY <1>3 DEF Deny
<1>4. ASSUME NEW r \in Requests, ActivateTurn(r)
      PROVE  LedgerStep
  <2> DEFINE K == {k \in UnusedKeys(job[r].session, job[r].owner) : bound[k].turn < job[r].turn}
  <2>1. K \in SUBSET Dispatched
    BY DEF UnusedKeys
  <2>2. SettleAll(K, "cancelled", "superseded") /\ UNCHANGED effects
    BY <1>4 DEF ActivateTurn
  <2> QED
    BY <2>1, <2>2
<1>5. ASSUME NEW r \in Requests, StaleActivation(r)
      PROVE  LedgerStep
  BY <1>5 DEF StaleActivation
<1>6. ASSUME NEW r \in Requests, DenyContext(r)
      PROVE  LedgerStep
  BY <1>6 DEF DenyContext
<1>7. ASSUME NEW r \in Requests, LoadState(r)
      PROVE  LedgerStep
  BY <1>7 DEF LoadState
<1>8. ASSUME NEW r \in Requests, FinalizeAnswer(r)
      PROVE  LedgerStep
  BY <1>8 DEF FinalizeAnswer
<1>9. ASSUME NEW r \in Requests, LoseRace(r)
      PROVE  LedgerStep
  BY <1>9 DEF LoseRace
<1>10. ASSUME NEW r \in Requests, CheckActive(r)
      PROVE  LedgerStep
  BY <1>10 DEF CheckActive
<1>11. ASSUME NEW r \in Requests, NEW m \in BOOLEAN, LegacyComplete(r, m)
      PROVE  LedgerStep
  BY <1>11 DEF LegacyComplete
<1>12. ASSUME NEW r \in Requests, RefuseDispatch(r)
      PROVE  LedgerStep
  BY <1>12 DEF RefuseDispatch
<1>13. ASSUME NEW r \in Requests, NEW k \in Keys, NEW c \in Changes, FinalizeDispatch(r, k, c)
      PROVE  LedgerStep
  <2>1. job[r] \in Job
    BY <1>13 DEF FinalizeDispatch, Typed, TypeOK, Shape
  <2>2. Dispatch(k, job[r], c) /\ UNCHANGED effects
    BY <1>13 DEF FinalizeDispatch
  <2> QED
    BY <2>1, <2>2
<1>14. ASSUME NEW r \in Requests, NEW k \in Keys, NEW c \in Changes, DispatchIfCurrent(r, k, c)
      PROVE  LedgerStep
  <2>1. job[r] \in Job
    BY <1>14 DEF DispatchIfCurrent, Typed, TypeOK, Shape
  <2>2. Dispatch(k, job[r], c) /\ UNCHANGED effects
    BY <1>14 DEF DispatchIfCurrent
  <2> QED
    BY <2>1, <2>2
<1>15. ASSUME NEW r \in Requests, RequestFails(r)
      PROVE  LedgerStep
  BY <1>15 DEF RequestFails
<1>16. ASSUME NEW p \in Principals, NEW s \in Sessions,
             NEW k \in Keys, NEW c \in Changes, Replay(p, s, k, c)
      PROVE  LedgerStep
  BY <1>16 DEF Replay
<1>17. ASSUME NEW p \in Principals, NEW s \in Sessions,
             NEW k \in Keys, ClaimExpired(p, s, k)
      PROVE  LedgerStep
  <2>1. {k} \in SUBSET Dispatched
    BY <1>17 DEF ClaimExpired, Claimable, Dispatched
  <2>2. SettleAll({k}, "cancelled", "expired") /\ UNCHANGED effects
    BY <1>17 DEF ClaimExpired, Settle
  <2> QED
    BY <2>1, <2>2
<1>18. ASSUME NEW p \in Principals, NEW s \in Sessions,
             NEW k \in Keys, NEW c \in Changes, ClaimMismatched(p, s, k, c)
      PROVE  LedgerStep
  <2>1. {k} \in SUBSET Dispatched
    BY <1>18 DEF ClaimMismatched, Claimable, Dispatched
  <2>2. SettleAll({k}, "failed", "invalid_change") /\ UNCHANGED effects
    BY <1>18 DEF ClaimMismatched, Settle
  <2> QED
    BY <2>1, <2>2
<1>19. ASSUME NEW p \in Principals, NEW s \in Sessions,
             NEW k \in Keys, NEW c \in Changes, WriteRejected(p, s, k, c)
      PROVE  LedgerStep
  <2>1. {k} \in SUBSET Dispatched
    BY <1>19 DEF WriteRejected, Claimable, Dispatched
  <2>2. PICK reason \in Code : SettleAll({k}, "failed", reason)
    BY <1>19, SetsAssumption DEF WriteRejected, Settle
  <2>3. UNCHANGED effects
    BY <1>19 DEF WriteRejected
  <2> QED
    BY <2>1, <2>2, <2>3
<1>20. ASSUME NEW p \in Principals, NEW s \in Sessions,
             NEW k \in Keys, NEW c \in Changes, WriteApplied(p, s, k, c)
      PROVE  LedgerStep
  <2>1. k \in Dispatched
    BY <1>20 DEF WriteApplied, Claimable, Dispatched
  <2>2. SettleAll({k}, "executed", "applied") /\ effects' = [effects EXCEPT ![k] = @ + 1]
    BY <1>20 DEF WriteApplied, Settle
  <2> QED
    BY <2>1, <2>2
<1>21. ASSUME NEW p \in Principals, NEW s \in Sessions,
             NEW t \in Turns, CancelTurn(p, s, t)
      PROVE  LedgerStep
  <2> DEFINE K == {k \in UnusedKeys(s, p) : bound[k].turn = t}
  <2>1. K \in SUBSET Dispatched
    BY DEF UnusedKeys
  <2>2. SettleAll(K, "cancelled", "user_cancelled") /\ UNCHANGED effects
    BY <1>21 DEF CancelTurn
  <2> QED
    BY <2>1, <2>2
<1>22. ASSUME NEW p \in Principals, NEW s \in Sessions,
             CloseConversation(p, s)
      PROVE  LedgerStep
  <2> DEFINE K == UnusedKeys(s, p)
  <2>1. K \in SUBSET Dispatched
    BY DEF UnusedKeys
  <2>2. SettleAll(K, "cancelled", "user_cancelled") /\ UNCHANGED effects
    BY <1>22 DEF CloseConversation
  <2> QED
    BY <2>1, <2>2
<1>23. ASSUME NEW u \in Users, ResetDemo(u)
      PROVE  LedgerStep
  <2> DEFINE K == {k \in Dispatched : bound[k].owner = Principal(u)}
  <2>1. K \in SUBSET Dispatched
    BY DEF UnusedKeys
  <2>2. SettleAll(K, "cancelled", "instance_reset") /\ UNCHANGED effects
    BY <1>23 DEF ResetDemo
  <2> QED
    BY <2>1, <2>2
<1>24. ASSUME NEW u \in Users, NEW a \in {None} \cup SUBSET Scopes, ChangeAccess(u, a)
      PROVE  LedgerStep
  BY <1>24 DEF ChangeAccess
<1>25. ASSUME NEW m \in Modes, Restart(m)
      PROVE  LedgerStep
  BY <1>25 DEF Restart
<1>26. ASSUME NEW s \in Sessions, PruneState(s)
      PROVE  LedgerStep
  BY <1>26 DEF PruneState
<1>27. ASSUME NEW K \in SUBSET Keys, PruneLedger(K)
      PROVE  LedgerStep
  <2>1. Prunes(K)
    BY <1>27 DEF PruneLedger, Prunable, Typed, TypeOK
  <2> QED
    BY <2>1
<1>28. ASSUME Tick
      PROVE  LedgerStep
  BY <1>28 DEF Tick
<1>29. CASE UNCHANGED vars
  BY <1>29 DEF vars
<1> HIDE DEF LedgerStep, Issues, Withdraws, Applies, Prunes, Code, Rules
<1> QED
  BY <1>1, <1>2, <1>3, <1>4, <1>5, <1>6, <1>7, <1>8, <1>9, <1>10, <1>11, <1>12, <1>13, <1>14,
     <1>15, <1>16, <1>17, <1>18, <1>19, <1>20, <1>21, <1>22, <1>23, <1>24, <1>25, <1>26, <1>27,
     <1>28, <1>29
     DEF Next, TurnStep, WriteStep

(* OutcomesAreFinal: a settled key keeps its outcome until retention deletes its row, and a deleted
   key never comes back. *)
THEOREM OutcomesHold == Spec => OutcomesAreFinal
<1> DEFINE Final == \A k \in Keys :
               /\ state[k] \in Settled =>
                     \/ state'[k] = "deleted"
                     \/ state'[k] = state[k] /\ code'[k] = code[k] /\ bound'[k] = bound[k]
               /\ state[k] = "deleted" => state'[k] = "deleted"
<1>1. Typed /\ [Next]_vars => Final
  <2> SUFFICES ASSUME Typed, LedgerStep PROVE Final
    BY LedgerSteps
  <2> USE DEF Typed, TypeOK, KeyState, Settled
  <2>1. CASE UNCHANGED <<state, bound, code, effects>>
    BY <2>1
  <2>2. ASSUME NEW k \in Keys, Issues(k) PROVE Final
    BY <2>2 DEF Issues, Dispatch
  <2>3. ASSUME NEW K \in SUBSET Dispatched, Withdraws(K) PROVE Final
    BY <2>3 DEF Withdraws, SettleAll, Dispatched
  <2>4. ASSUME NEW k \in Dispatched, Applies(k) PROVE Final
    BY <2>4 DEF Applies, SettleAll, Dispatched
  <2>5. ASSUME NEW K \in SUBSET Keys, Prunes(K) PROVE Final
    BY <2>5 DEF Prunes
  <2> HIDE DEF Final
  <2> QED
    BY <2>1, <2>2, <2>3, <2>4, <2>5 DEF LedgerStep
<1> QED
  BY <1>1, Invariance, PTL DEF Spec, OutcomesAreFinal

(* KeysAreOneShot: the ledger implements OneShotKeys. *)
THEOREM LedgerImplementsOneShotKeys == Spec => KeysAreOneShot
<1>1. Init => OneShot!Init
  BY DEF Init, OneShot!Init, Life
<1>2. Typed /\ IInv /\ [Next]_vars => [OneShot!Next]_OneShot!vars
  <2> SUFFICES ASSUME Typed, EffectsFollowState, LedgerStep
               PROVE  [OneShot!Next]_OneShot!vars
    BY LedgerSteps DEF IInv, RecordInv
  <2> USE DEF Typed, TypeOK, KeyState, Settled, EffectsFollowState, Life
  <2>1. CASE UNCHANGED <<state, bound, code, effects>>
    BY <2>1 DEF OneShot!vars
  <2> DEFINE Becomes(k, l) == Life' = [q \in Keys |-> IF q = k THEN l ELSE Life[q]]
  <2>a. \A k \in Keys : \A l : Becomes(k, l) => Life' = [Life EXCEPT ![k] = l]
    <3>1. Life = [q \in Keys |-> Life[q]]
      OBVIOUS
    <3> HIDE DEF Life
    <3> QED
      BY <3>1
  <2>2. ASSUME NEW k \in Keys, Issues(k) PROVE OneShot!Issue(k)
    <3>1. Life[k] = "unissued" /\ Becomes(k, "usable")
      BY <2>2 DEF Issues, Dispatch
    <3> HIDE DEF Life, Becomes
    <3> QED
      BY <2>2, <2>a, <3>1 DEF Issues, OneShot!Issue
  <2>3. ASSUME NEW K \in SUBSET Dispatched, Withdraws(K), K # {} PROVE OneShot!Void(K)
    <3>1. \A k \in K : Life[k] = "usable"
      BY DEF Dispatched
    <3>2. Life' = [k \in Keys |-> IF k \in K THEN "void" ELSE Life[k]]
      BY <2>3 DEF Withdraws, SettleAll, Dispatched
    <3> HIDE DEF Life
    <3> QED
      BY <2>3, <3>1, <3>2 DEF Withdraws, OneShot!Void
  <2>4. ASSUME Withdraws({}) PROVE UNCHANGED OneShot!vars
    BY <2>4 DEF Withdraws, SettleAll, OneShot!vars
  <2>5. ASSUME NEW k \in Dispatched, Applies(k) PROVE OneShot!Apply(k)
    <3>1. Life[k] = "usable" /\ k \in Keys
      BY DEF Dispatched
    <3>2. /\ state' = [q \in Keys |-> IF q = k THEN "executed" ELSE state[q]]
          /\ effects' = [effects EXCEPT ![k] = effects[k] + 1]
          /\ effects'[k] > 0
      BY <2>5, <3>1 DEF Applies, SettleAll
    <3>3. Becomes(k, "applied")
      BY <3>1, <3>2
    <3> HIDE DEF Life, Becomes
    <3> QED
      BY <2>a, <3>1, <3>2, <3>3 DEF OneShot!Apply
  <2>6. ASSUME NEW K \in SUBSET Keys, Prunes(K), K \cap Dispatched # {}
        PROVE  OneShot!Void(K \cap Dispatched)
    BY <2>6 DEF Prunes, Dispatched, OneShot!Void
  <2>7. ASSUME NEW K \in SUBSET Keys, Prunes(K), K \cap Dispatched = {}
        PROVE  UNCHANGED OneShot!vars
    BY <2>7 DEF Prunes, Dispatched, OneShot!vars
  <2> HIDE DEF Typed, TypeOK, KeyState, Settled, EffectsFollowState, Life
  <2>8. Dispatched \subseteq Keys
    BY DEF Dispatched
  <2> QED
    BY <2>1, <2>2, <2>3, <2>4, <2>5, <2>6, <2>7, <2>8 DEF LedgerStep, OneShot!Next
<1> QED
  BY <1>1, <1>2, Invariance, PTL DEF Spec, KeysAreOneShot, OneShot!Spec

-------------------------------------------------------------------------------
(* Who may write. *)

LEMMA EffectsAreWrites ==
    [Next]_vars => \/ UNCHANGED effects
                   \/ \E p \in Principals, s \in Sessions, k \in Keys, c \in Changes :
                         WriteApplied(p, s, k, c)
<1>1. ASSUME NEW r \in Requests, TurnStep(r) PROVE UNCHANGED effects
  BY <1>1 DEF TurnStep, Admit, EnsureSession, Deny, ActivateTurn, StaleActivation, DenyContext,
              LoadState, FinalizeAnswer, LoseRace, CheckActive, LegacyComplete, RefuseDispatch,
              FinalizeDispatch, DispatchIfCurrent, RequestFails
<1>2. ASSUME NEW p, NEW s, NEW k, WriteStep(p, s, k)
      PROVE  UNCHANGED effects \/ \E c \in Changes : WriteApplied(p, s, k, c)
  BY <1>2 DEF WriteStep, Replay, ClaimExpired, ClaimMismatched, WriteRejected
<1>3. ASSUME NEW p, NEW s, CloseConversation(p, s) \/ \E t \in Turns : CancelTurn(p, s, t)
      PROVE  UNCHANGED effects
  BY <1>3 DEF CloseConversation, CancelTurn
<1>4. ASSUME NEW u, ResetDemo(u) \/ \E a \in {None} \cup SUBSET Scopes : ChangeAccess(u, a)
      PROVE  UNCHANGED effects
  BY <1>4 DEF ResetDemo, ChangeAccess
<1>5. ASSUME \/ \E m \in Modes : Restart(m)
             \/ \E s \in Sessions : PruneState(s)
             \/ \E K \in SUBSET Keys : PruneLedger(K)
             \/ Tick \/ UNCHANGED vars
      PROVE  UNCHANGED effects
  BY <1>5 DEF Restart, PruneState, PruneLedger, Tick, vars
<1> QED
  BY <1>1, <1>2, <1>3, <1>4, <1>5 DEF Next

(* OnlyCurrentCallersWrite: an applied change is the newest turn's, in its owner's current
   generation and grant, with an unexpired key. *)
THEOREM WritersAreCurrent == Spec => OnlyCurrentCallersWrite
<1> DEFINE Current(k) ==
               LET b == bound[k] IN
               /\ b.owner.gen = generation[b.owner.user]
               /\ MayUse(b.owner.user, b.scope)
               /\ latest[b.session] = b.turn
               /\ ~Expired(k)
<1>1. ASSUME Typed, UsableKeysAreCurrent,
             NEW p \in Principals, NEW s \in Sessions, NEW k \in Keys, NEW c \in Changes,
             WriteApplied(p, s, k, c)
      PROVE  \A q \in Keys : effects'[q] # effects[q] => Current(q)
  <2>1. \A q \in Keys : effects'[q] # effects[q] => q = k
    BY <1>1 DEF WriteApplied, Typed, TypeOK
  <2>2. Claimable(p, s, k) /\ ~Expired(k) /\ MayUse(p.user, bound[k].scope)
    BY <1>1 DEF WriteApplied
  <2>3. bound[k].owner = p /\ p.gen = generation[p.user] /\ k \in Dispatched
    BY <2>2 DEF Claimable, Recognised, Authorised, Dispatched
  <2>4. latest[bound[k].session] = bound[k].turn
    BY <1>1, <2>3 DEF UsableKeysAreCurrent
  <2> QED
    BY <2>1, <2>2, <2>3, <2>4
<1>2. Typed /\ IInv /\ [Next]_vars => \A k \in Keys : effects'[k] # effects[k] => Current(k)
  <2>1. IInv => UsableKeysAreCurrent
    BY DEF IInv, TurnInv
  <2> HIDE DEF Current
  <2> QED
    BY <1>1, <2>1, EffectsAreWrites
<1> QED
  BY <1>2, Invariance, PTL DEF Spec, OnlyCurrentCallersWrite

-------------------------------------------------------------------------------
(* Cancelled turns, in a server that only ever runs the definition engine. *)

CancelInv ==
    /\ mode = "definition"
    /\ \A r \in Requests : pc[r] \notin {"answering", "decided"}
    /\ \A s \in Sessions, t \in Turns :
          <<s, t>> \in cancelled => t <= latest[s] /\ active[s] # t
    /\ CancelledTurnsStayCancelled

LEMMA StepCancelled ==
    Modes = {"definition"} /\ Typed /\ TurnInv /\ CancelInv /\ [Next]_vars => CancelInv'
<1> SUFFICES ASSUME Modes = {"definition"}, Typed, TurnInv, CancelInv, [Next]_vars
             PROVE  CancelInv'
  OBVIOUS
<1> USE NoneAssumption, BoundsAssumption
    DEF Typed, TypeOK, Shape, Job, Binding, Turns, TurnInv, TurnOrder, UsableKeysAreCurrent,
        CancelInv, CancelledTurnsStayCancelled, Dispatched
<1>1. ASSUME NEW r \in Requests, NEW u \in Users, NEW s \in Sessions, NEW t \in Turns,
             NEW x \in Scopes, Admit(r, u, s, t, x)
      PROVE  CancelInv'
  BY <1>1 DEF Admit, Principal
<1>2. ASSUME NEW r \in Requests, EnsureSession(r)
      PROVE  CancelInv'
  BY <1>2 DEF EnsureSession, Move
<1>3. ASSUME NEW r \in Requests, Deny(r)
      PROVE  CancelInv'
  BY <1>3 DEF Deny, Finish
<1>4. ASSUME NEW r \in Requests, ActivateTurn(r)
      PROVE  CancelInv'
  BY <1>4 DEF ActivateTurn, MayActivate, UnusedKeys, Dispatched, SettleAll, Move
<1>5. ASSUME NEW r \in Requests, StaleActivation(r)
      PROVE  CancelInv'
  BY <1>5 DEF StaleActivation, Finish
<1>6. ASSUME NEW r \in Requests, DenyContext(r)
      PROVE  CancelInv'
  BY <1>6 DEF DenyContext, ClearActive, Finish
<1>7. ASSUME NEW r \in Requests, LoadState(r)
      PROVE  CancelInv'
  BY <1>7 DEF LoadState
<1>8. ASSUME NEW r \in Requests, FinalizeAnswer(r)
      PROVE  CancelInv'
  BY <1>8 DEF FinalizeAnswer, CommitState, ClearActive, Finish, IsCurrent
<1>9. ASSUME NEW r \in Requests, LoseRace(r)
      PROVE  CancelInv'
  BY <1>9 DEF LoseRace, Finish
<1>10. ASSUME NEW r \in Requests, CheckActive(r)
      PROVE  CancelInv'
  BY <1>10 DEF CheckActive, Move, Finish
<1>11. ASSUME NEW r \in Requests, NEW m \in BOOLEAN, LegacyComplete(r, m)
      PROVE  CancelInv'
  BY <1>11 DEF LegacyComplete, ClearActive, Move, Finish
<1>12. ASSUME NEW r \in Requests, RefuseDispatch(r)
      PROVE  CancelInv'
  BY <1>12 DEF RefuseDispatch, Finish
<1>13. ASSUME NEW r \in Requests, NEW k \in Keys, NEW c \in Changes, FinalizeDispatch(r, k, c)
      PROVE  CancelInv'
  BY <1>13 DEF FinalizeDispatch, CommitState, Dispatch, ClearActive, Finish, IsCurrent
<1>14. ASSUME NEW r \in Requests, NEW k \in Keys, NEW c \in Changes, DispatchIfCurrent(r, k, c)
      PROVE  CancelInv'
  BY <1>14 DEF DispatchIfCurrent, Dispatch, Finish
<1>15. ASSUME NEW r \in Requests, RequestFails(r)
      PROVE  CancelInv'
  BY <1>15 DEF RequestFails, Finish
<1>16. ASSUME NEW p \in Principals, NEW s \in Sessions,
             NEW k \in Keys, NEW c \in Changes, Replay(p, s, k, c)
      PROVE  CancelInv'
  BY <1>16 DEF Replay, Answers, Answer, Unavailable
<1>17. ASSUME NEW p \in Principals, NEW s \in Sessions,
             NEW k \in Keys, ClaimExpired(p, s, k)
      PROVE  CancelInv'
  BY <1>17 DEF ClaimExpired, Claimable, Settle, SettleAll
<1>18. ASSUME NEW p \in Principals, NEW s \in Sessions,
             NEW k \in Keys, NEW c \in Changes, ClaimMismatched(p, s, k, c)
      PROVE  CancelInv'
  BY <1>18 DEF ClaimMismatched, Claimable, Settle, SettleAll
<1>19. ASSUME NEW p \in Principals, NEW s \in Sessions,
             NEW k \in Keys, NEW c \in Changes, WriteRejected(p, s, k, c)
      PROVE  CancelInv'
  BY <1>19 DEF WriteRejected, Claimable, Settle, SettleAll
<1>20. ASSUME NEW p \in Principals, NEW s \in Sessions,
             NEW k \in Keys, NEW c \in Changes, WriteApplied(p, s, k, c)
      PROVE  CancelInv'
  BY <1>20 DEF WriteApplied, Claimable, Settle, SettleAll
<1>21. ASSUME NEW p \in Principals, NEW s \in Sessions,
             NEW t \in Turns, CancelTurn(p, s, t)
      PROVE  CancelInv'
  BY <1>21 DEF CancelTurn, ClearActive, UnusedKeys, Dispatched, SettleAll
<1>22. ASSUME NEW p \in Principals, NEW s \in Sessions,
             CloseConversation(p, s)
      PROVE  CancelInv'
  BY <1>22 DEF CloseConversation, UnusedKeys, Dispatched, SettleAll
<1>23. ASSUME NEW u \in Users, ResetDemo(u)
      PROVE  CancelInv'
  BY <1>23 DEF ResetDemo, Dispatched, SettleAll
<1>24. ASSUME NEW u \in Users, NEW a \in {None} \cup SUBSET Scopes, ChangeAccess(u, a)
      PROVE  CancelInv'
  BY <1>24 DEF ChangeAccess
<1>25. ASSUME NEW m \in Modes, Restart(m)
      PROVE  CancelInv'
  BY <1>25 DEF Restart
<1>26. ASSUME NEW s \in Sessions, PruneState(s)
      PROVE  CancelInv'
  BY <1>26 DEF PruneState
<1>27. ASSUME NEW K \in SUBSET Keys, PruneLedger(K)
      PROVE  CancelInv'
  BY <1>27 DEF PruneLedger, Prunable
<1>28. ASSUME Tick
      PROVE  CancelInv'
  BY <1>28 DEF Tick
<1>29. CASE UNCHANGED vars
  BY <1>29 DEF vars
<1> HIDE DEF Typed, TypeOK, Shape, Job, Binding, Turns, TurnInv, TurnOrder, UsableKeysAreCurrent,
        CancelInv, CancelledTurnsStayCancelled, Dispatched
<1> QED
  BY <1>1, <1>2, <1>3, <1>4, <1>5, <1>6, <1>7, <1>8, <1>9, <1>10, <1>11, <1>12, <1>13, <1>14,
     <1>15, <1>16, <1>17, <1>18, <1>19, <1>20, <1>21, <1>22, <1>23, <1>24, <1>25, <1>26, <1>27,
     <1>28, <1>29
     DEF Next, TurnStep, WriteStep

(* CancelledTurnsStayCancelled: where the legacy engine is never started, a turn whose cancel was
   acknowledged never has a usable key, however late its engine finishes. *)
THEOREM CancelsHold ==
    ASSUME Modes = {"definition"}
    PROVE  Spec => []CancelledTurnsStayCancelled
<1>1. Init => CancelInv
  BY DEF Init, CancelInv, CancelledTurnsStayCancelled, Dispatched
<1>2. Typed /\ IInv => TurnInv
  BY DEF IInv
<1>3. Typed /\ TurnInv /\ CancelInv /\ [Next]_vars => CancelInv'
  BY StepCancelled
<1>4. CancelInv => CancelledTurnsStayCancelled
  BY DEF CancelInv
<1> QED
  BY <1>1, <1>2, <1>3, <1>4, Invariance, PTL DEF Spec
===============================================================================
