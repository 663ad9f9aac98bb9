---------------------------- MODULE MCShadowEngine ----------------------------
(***************************************************************************)
(* An instance of ShadowEngine for TLC: three requests, the first two of   *)
(* one session in either order, the third of it or of another.             *)
(***************************************************************************)
EXTENDS ShadowEngine

CONSTANTS s1, s2

TwoSessions == <<{<<s1, 2>>}, {<<s1, 1>>}, {<<s2, 1>>, <<s1, 2>>}>>
===============================================================================
