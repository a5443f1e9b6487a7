----------------------------- MODULE MCMembers -----------------------------
(***************************************************************************)
(* An instance of Members for TLC: two browsers and the seed script over   *)
(* two addresses, one of them typed in two ways.                           *)
(***************************************************************************)
EXTENDS Members, TLC

CONSTANTS b1, b2, a1, a2, A1

Browsers == Permutations({b1, b2})

MCNorm == a1 :> a1 @@ A1 :> a1 @@ a2 :> a2
=============================================================================
