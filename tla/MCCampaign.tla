------------------------------ MODULE MCCampaign ------------------------------
(***************************************************************************)
(* Instances of Campaign for TLC: two packs, one replicate of each planned. *)
(* Attempt 2 is a second replicate of the first pack, which a command line  *)
(* may ask for all the same.                                                *)
(***************************************************************************)
EXTENDS Campaign

TwoPacks == {1, 3}
WithReplicate == {1, 2, 3}
AnyRequest == {{1}, {1, 2}, {1, 3}}
AllOrFirst == {TwoPacks, {1}}
NoneBroken == {{}}
SomeBroken == {{}, {3}}
=============================================================================
