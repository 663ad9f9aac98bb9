----------------------------- MODULE OneShotKeys -----------------------------
(***************************************************************************)
(* What the execution ledger promises about one-time execution keys, with  *)
(* nothing of how it keeps the promise: a key is issued once, may be used  *)
(* for one change, and once used or withdrawn can never be used again.     *)
(* Module TurnLedger implements this specification.                        *)
(***************************************************************************)
EXTENDS Naturals

CONSTANT Keys

VARIABLES
    life,       \* what a key may still do
    effects     \* how many times the change bound to a key reached the records

vars == <<life, effects>>

Lives == {"unissued", "usable", "applied", "void"}

Init ==
    /\ life = [k \in Keys |-> "unissued"]
    /\ effects = [k \in Keys |-> 0]

(* A validated mutation is handed to a client under a fresh key. *)
Issue(k) ==
    /\ life[k] = "unissued"
    /\ life' = [life EXCEPT ![k] = "usable"]
    /\ UNCHANGED effects

(* The client presents the key and its change is made. *)
Apply(k) ==
    /\ life[k] = "usable"
    /\ life' = [life EXCEPT ![k] = "applied"]
    /\ effects' = [effects EXCEPT ![k] = @ + 1]

(* Unused keys are withdrawn together: superseded, cancelled, expired, refused, pruned. *)
Void(K) ==
    /\ K # {}
    /\ \A k \in K : life[k] = "usable"
    /\ life' = [k \in Keys |-> IF k \in K THEN "void" ELSE life[k]]
    /\ UNCHANGED effects

Next ==
    \/ \E k \in Keys : Issue(k) \/ Apply(k)
    \/ \E K \in SUBSET Keys : Void(K)

Spec == Init /\ [][Next]_vars
==============================================================================
