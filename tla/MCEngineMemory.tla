---------------------------- MODULE MCEngineMemory ----------------------------
(***************************************************************************)
(* Instances of EngineMemory for TLC: one session with several turns, and  *)
(* a second one with a single turn that competes for the cache.            *)
(***************************************************************************)
EXTENDS EngineMemory, TLC

CONSTANTS s1, s2

ThreeAndOne == (s1 :> 3) @@ (s2 :> 1)
TwoOfOne == s1 :> 2

(* Bounds: the second session is there for its place in the cache, and has nothing to remember; a
   behaviour has a restart or a wait, not both. *)
OneTalks == row[s2] # None => row[s2].whole = Empty
RestartsOrWaits == epoch = 0 \/ now = 0

(* The workspaces are interchangeable. *)
Symmetry == Permutations(Workspaces)
===============================================================================
