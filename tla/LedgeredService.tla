--------------------------- MODULE LedgeredService ---------------------------
(***************************************************************************)
(* What the model gateway promises its callers: a request is answered at   *)
(* most once, and only with an outcome the ledger already holds            *)
(* (benchmark/gateway/server.py, docstring of _send: "Append the ledger    *)
(* entry BEFORE the response so an observed response always has a durable  *)
(* record").  Records are never withdrawn, not even by a restart.          *)
(***************************************************************************)
CONSTANTS Attempts, \* the requests ever posted to the gateway
          Outcomes  \* how the gateway may answer one

VARIABLES recorded, \* the <<attempt, outcome>> pairs held by the ledger
          observed  \* the pairs some caller has received

vars == <<recorded, observed>>

Init == recorded = {} /\ observed = {}

Record(a, o) ==
    /\ recorded' = recorded \union {<<a, o>>}
    /\ UNCHANGED observed

Answer(a, o) ==
    /\ <<a, o>> \in recorded
    /\ \A p \in Outcomes : <<a, p>> \notin observed
    /\ observed' = observed \union {<<a, o>>}
    /\ UNCHANGED recorded

Next == \E a \in Attempts, o \in Outcomes : Record(a, o) \/ Answer(a, o)

Spec == Init /\ [][Next]_vars
=============================================================================
