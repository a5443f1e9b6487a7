---------------------------- MODULE MCCollectors ----------------------------
(***************************************************************************)
(* An instance of Collectors for TLC: pages of two rows, at most two of    *)
(* them, lists of up to three rows at first and five later.                *)
(***************************************************************************)
EXTENDS Collectors, TLC

CONSTANTS p1, p2, p3, p4, g1, g2

MCGroup == p1 :> g1 @@ p2 :> g1 @@ p3 :> g2 @@ p4 :> g2

Rowed(s) == [i \in DOMAIN s |-> [of |-> s[i], open |-> TRUE, linked |-> FALSE]]
MCLists == {<<>>, Rowed(<<p1, p2>>), Rowed(<<p3, p1, p2>>)}
=============================================================================
