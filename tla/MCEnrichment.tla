---------------------------- MODULE MCEnrichment ----------------------------
(***************************************************************************)
(* Instances of Enrichment for TLC: two LH notices, one of them the newest *)
(* and with an attachment that can never be analysed, and a GH notice.     *)
(***************************************************************************)
EXTENDS Enrichment, TLC

CONSTANTS lh1, lh2, gh1

MCDate == lh1 :> 1 @@ gh1 :> 2 @@ lh2 :> 3
=============================================================================
