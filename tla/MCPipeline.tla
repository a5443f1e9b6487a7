----------------------------- MODULE MCPipeline -----------------------------
(***************************************************************************)
(* Instances of Pipeline for TLC: an LH notice, its correction, and a      *)
(* Cheongyak Home notice, in one run above the price limit and in another  *)
(* one whose message Telegram refuses.                                     *)
(***************************************************************************)
EXTENDS Pipeline, TLC

CONSTANTS original, correction, house, p1, p2

MCUpsertOrder == <<"applyhome", "house_types", "lh">>
MCSource ==
  original :> "lh" @@ correction :> "lh" @@ house :> "applyhome"
MCHouse == original :> "" @@ correction :> "" @@ house :> "1"
MCName == [n \in Notices |-> "name"]

(* The correction bears the day of the original, and its number comes      *)
(* before: only the prefix tells that it is the later one.                 *)
MCPrefixes == original :> 0 @@ correction :> 1 @@ house :> 0
MCPublished == [n \in Notices |-> 1]
MCNumber == original :> 2 @@ correction :> 1 @@ house :> 3

(* The correction has no end of reception; the original closes on day 1,   *)
(* the house on day 2, the end of its special supply.                      *)
MCDeadline == original :> 1 @@ correction :> NoDeadline @@ house :> 1
MCSpecial  == original :> NoDeadline @@ correction :> NoDeadline @@ house :> 2

(* For liveness: the original's special supply closes on the last day, and *)
(* neither the refused house nor the correction has an end, so either may  *)
(* come first.                                                             *)
MCDeadlineOpen == original :> 1 @@ correction :> NoDeadline @@ house :> NoDeadline
MCSpecialOpen  == original :> 2 @@ correction :> NoDeadline @@ house :> NoDeadline
=============================================================================
