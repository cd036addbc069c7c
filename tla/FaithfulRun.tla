----------------------------- MODULE FaithfulRun -----------------------------
(***************************************************************************)
(* What a baseline run promises whoever reads its traces: checkpoint by    *)
(* checkpoint every query is answered once, from nothing but the memory an *)
(* ideal provider would hold at that checkpoint, and only a run that       *)
(* answered all of them completes (benchmark/runner.py, lifecycle.py).     *)
(***************************************************************************)
EXTENDS Naturals

CONSTANTS Queries,      \* the queries of the run
          CheckpointOf, \* the checkpoint of each query
          Facts         \* the facts a corpus may hold

VARIABLES memory,  \* the facts an ideal provider holds at each checkpoint
          answers, \* the answered queries, with the evidence they were given
          verdict  \* what the run says of itself

vars == <<memory, answers, verdict>>

Answered == {a.query : a \in answers}

Init ==
    /\ \A q \in Queries : memory[CheckpointOf[q]] \subseteq Facts
    /\ answers = {}
    /\ verdict = "running"

Answer(q) ==
    /\ verdict = "running"
    /\ q \notin Answered
    /\ \A p \in Answered : CheckpointOf[p] <= CheckpointOf[q]
    /\ \E evidence \in SUBSET memory[CheckpointOf[q]] :
          answers' = answers \union {[query |-> q, evidence |-> evidence]}
    /\ UNCHANGED <<memory, verdict>>

Complete ==
    /\ verdict = "running"
    /\ Answered = Queries
    /\ verdict' = "completed"
    /\ UNCHANGED <<memory, answers>>

Abandon ==
    /\ verdict = "running"
    /\ verdict' = "abandoned"
    /\ UNCHANGED <<memory, answers>>

Next ==
    \/ \E q \in Queries : Answer(q)
    \/ Complete
    \/ Abandon

Spec == Init /\ [][Next]_vars
=============================================================================
