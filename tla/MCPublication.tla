---------------------------- MODULE MCPublication ----------------------------
(***************************************************************************)
(* Two owners: one publishes inside the body of another publication or     *)
(* after it, the other competes with both.                                 *)
(***************************************************************************)
EXTENDS Publication, TLC

CONSTANTS a1, a2, a3, p, q

MCOwnerOf == (a1 :> p) @@ (a2 :> p) @@ (a3 :> q)
=============================================================================
