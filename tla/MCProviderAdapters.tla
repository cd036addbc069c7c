------------------------- MODULE MCProviderAdapters -------------------------
(* ProviderAdapters with two events and two queries of it: one sees both   *)
(* events, the other the first alone, while both are available to it.      *)
EXTENDS ProviderAdapters, TLC

CONSTANTS early, late

MCEvents == {1, 2}
MCQueries == {early, late}
MCVisible == early :> {1} @@ late :> {1, 2}
MCAvailable == early :> {1, 2} @@ late :> {1, 2}
MCGold == early :> {1} @@ late :> {2}
MCTooLong == {2}
=============================================================================
