--------------------------- MODULE MCGatewayProxy ---------------------------
(* Small instances of the model gateway for TLC.                           *)
EXTENDS GatewayProxy

CONSTANTS c1, c2, r1, r2

OneClient == {c1}
TwoClients == {c1, c2}
OneRun == {r1}
TwoRuns == {r1, r2}

AllOnOneRun == [c \in Clients |-> r1]
OneOnItsOwnRun == [c \in Clients |-> IF c = c1 THEN r2 ELSE r1]

\* Room for one request on run r1 and for one in all, each set by another
\* meter (prices are 1 and 2 per token).
TightRun == [requests |-> 1, tokens |-> 10, cost |-> 10]
TightGlobal == [requests |-> 9, tokens |-> 1, cost |-> 9]
Roomy == [requests |-> 100, tokens |-> 100, cost |-> 100]
=============================================================================
