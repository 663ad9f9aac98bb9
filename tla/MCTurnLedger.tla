----------------------------- MODULE MCTurnLedger -----------------------------
(***************************************************************************)
(* Instances of TurnLedger for TLC.                                        *)
(***************************************************************************)
EXTENDS TurnLedger, TLC

(* Model values that are never ordered or named are interchangeable. *)
Symmetry == Permutations(Keys) \cup Permutations(Requests) \cup Permutations(Scopes)
                \cup Permutations(Changes) \cup Permutations(Sessions) \cup Permutations(Users)
===============================================================================
