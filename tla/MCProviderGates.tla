--------------------------- MODULE MCProviderGates ----------------------------
(* ProviderGates with the four events of the conformance corpus and its    *)
(* four kinds of query.                                                    *)
EXTENDS ProviderGates, TLC

MCEvents == {1, 2, 3, 4}
MCQueries == {current, future, other, unknown}
MCVisible == current :> {1, 4} @@ future :> {1, 4} @@ other :> {3} @@ unknown :> {}
MCAvailable == current :> {1, 3, 4} @@ future :> {1, 3, 4} @@ other :> {1, 3, 4} @@ unknown :> {}
MCGold == current :> {1} @@ future :> {} @@ other :> {3} @@ unknown :> {}
=============================================================================
