---------------------------- MODULE CampaignProofs ----------------------------
(***************************************************************************)
(* What holds of Campaign for any number of attempts and executions: its   *)
(* types, the attempt accounting of the QA, that a paid execution that     *)
(* comes to its end leaves every attempt on record, that the rows scored   *)
(* are paid ones, and that a completed participant has completed.          *)
(***************************************************************************)
EXTENDS Campaign, FiniteSetTheorems, TLAPS

\* Every variable keeps its type.
THEOREM CampaignTypeCorrect == Spec => []TypeOK
<1>1. Init => TypeOK
  <2>1. \A B \in Broken : B \subseteq Attempts
    BY CampaignAssumption
  <2>2. ASSUME Init PROVE broken \subseteq Attempts
    BY <2>1, <2>2 DEF Init
  <2>3. Init => /\ manifest \in [Attempts -> ManifestType \union {NoManifest}]
                /\ traces \in [Attempts -> Modes \union {None}]
                /\ failed \in [Attempts -> Modes \union {None}]
    BY DEF Init
  <2>4. Init => mode \in Modes /\ runs \in Nat
    BY SMT DEF Init, Modes
  <2>5. Init => data \in BOOLEAN
    BY Zenon DEF Init
  <2>6. Init => /\ requested \subseteq Attempts /\ left \subseteq Attempts
                /\ current \subseteq Attempts
                /\ dirs \subseteq Attempts
                /\ outcomes = {}
                /\ pc = "idle" /\ preflight = "pending"
    BY DEF Init
  <2> QED BY <2>2, <2>3, <2>4, <2>5, <2>6 DEF TypeOK
<1>2. ASSUME TypeOK, [Next]_vars PROVE TypeOK'
  <2>1. ASSUME NEW m \in Modes, NEW request \in Requests, Start(m, request) PROVE TypeOK'
    <3>1. request \subseteq Attempts
      BY CampaignAssumption
    <3>2. /\ pc' \in {"settle", "preflight"} /\ left' \in {{}, request}
          /\ mode' = m /\ requested' = request /\ preflight' = "pending"
          /\ outcomes' = {} /\ current' = {} /\ runs' = runs + 1
          /\ data' \in {data, FALSE}
          /\ UNCHANGED <<dirs, manifest, traces, failed, broken>>
      BY <2>1 DEF Start
    <3>3. left' \subseteq Attempts /\ data' \in BOOLEAN
      BY <1>2, <3>1, <3>2 DEF TypeOK
    <3> QED BY <1>2, <3>1, <3>2, <3>3 DEF TypeOK
  <2>2. ASSUME NEW result \in {"passed", "failed", "raised"}, Preflight(result) PROVE TypeOK'
    BY <1>2, <2>2 DEF Preflight, TypeOK
  <2>3. ASSUME NEW a \in Attempts, BeginAttempt(a) PROVE TypeOK'
    BY <1>2, <2>3 DEF BeginAttempt, TypeOK, execution
  <2>4. ASSUME NEW a \in Attempts, NEW status \in Invalid, EndInvalid(a, status) PROVE TypeOK'
    BY <1>2, <2>4 DEF EndInvalid, Outcome, TypeOK, ManifestType, execution
  <2>5. ASSUME NEW a \in Attempts, WriteTraces(a) PROVE TypeOK'
    BY <1>2, <2>5 DEF WriteTraces, TypeOK, execution, work
  <2>6. ASSUME NEW a \in Attempts, WriteManifest(a) PROVE TypeOK'
    BY <1>2, <2>6 DEF WriteManifest, Outcome, TypeOK, ManifestType, execution
  <2>7. ASSUME NEW a \in Attempts, RecordFailure(a) PROVE TypeOK'
    BY <1>2, <2>7 DEF RecordFailure, Outcome, TypeOK, execution
  <2>8. CASE Replay \/ LeaveLoop \/ Kill
    BY <1>2, <2>8 DEF Replay, LeaveLoop, Kill, TypeOK, execution, work, files
  <2>9. CASE Settle
    BY <1>2, <2>9 DEF Settle, TypeOK, execution, work, files
  <2>10. CASE UNCHANGED vars
    BY <1>2, <2>10 DEF vars, TypeOK, execution, work, files
  <2> QED
    BY <1>2, <2>1, <2>2, <2>3, <2>4, <2>5, <2>6, <2>7, <2>8, <2>9, <2>10 DEF Next, Step
<1> QED BY <1>1, <1>2, PTL DEF Spec

-----------------------------------------------------------------------------
(* The accounting.                                                         *)

\* If two disjoint finite sets are together no smaller than a third, what the
\* third has beyond them is no larger than what they have beyond it.
LEMMA CountedInstead ==
    ASSUME NEW P, NEW A, NEW B, IsFiniteSet(P), IsFiniteSet(A), IsFiniteSet(B),
           A \intersect B = {},
           Cardinality(P) - Cardinality(A) - Cardinality(B) <= 0
    PROVE  Cardinality(P \ (A \union B)) <= Cardinality((A \union B) \ P)
<1> DEFINE C == A \union B
<1>1. /\ IsFiniteSet(C)
      /\ Cardinality(C) = Cardinality(A) + Cardinality(B) - Cardinality(A \intersect B)
  BY FS_Union
<1>2. Cardinality(A \intersect B) = 0
  BY FS_EmptySet
<1>3. /\ Cardinality(P \ C) = Cardinality(P) - Cardinality(P \intersect C)
      /\ Cardinality(C \ P) = Cardinality(C) - Cardinality(C \intersect P)
      /\ IsFiniteSet(P \ C) /\ IsFiniteSet(C \ P) /\ IsFiniteSet(P \intersect C)
  BY <1>1, FS_Difference, FS_Intersection
<1>4. P \intersect C = C \intersect P
  OBVIOUS
<1>5. /\ Cardinality(P) \in Nat /\ Cardinality(A) \in Nat /\ Cardinality(B) \in Nat
      /\ Cardinality(C) \in Nat /\ Cardinality(P \intersect C) \in Nat
  BY <1>1, <1>3, FS_CardinalityType
<1>6. /\ Cardinality(P \ C) = Cardinality(P) - Cardinality(P \intersect C)
      /\ Cardinality(C \ P) = Cardinality(C) - Cardinality(P \intersect C)
  BY <1>3, <1>4
<1>7. Cardinality(C) = Cardinality(A) + Cardinality(B)
  BY <1>1, <1>2, <1>5
<1>8. Cardinality(P) <= Cardinality(C)
  BY <1>5, <1>7
<1> HIDE DEF C
<1>9. Cardinality(P \ C) <= Cardinality(C \ P)
  BY <1>5, <1>6, <1>8
<1> QED BY <1>9 DEF C

\* However often it was executed, killed or rehearsed, and whatever was asked
\* for beyond the plan: if the QA passes on its counts, at most as many planned
\* attempts are missing as unplanned ones were counted (qa_checks).
THEOREM CampaignQAAccounts == Spec => []QAAccounts
<1>1. QAAccounts
  <2>1. IsFiniteSet(Scored) /\ IsFiniteSet(Attributed) /\ IsFiniteSet(Planned)
    <3>1. Scored \subseteq Attempts /\ Attributed \subseteq Attempts
      BY DEF Scored, Attributed
    <3> QED BY <3>1, FS_Subset, CampaignAssumption
  <2>2. Scored \intersect Attributed = {}
    BY DEF Scored, Attributed
  <2>3. Unaccounted <= 0 => Cardinality(Planned \ Counted) <= Cardinality(Counted \ Planned)
    BY <2>1, <2>2, CountedInstead DEF Unaccounted, Counted
  <2> QED BY <2>3 DEF QAAccounts, QAPasses
<1> QED BY <1>1, PTL

-----------------------------------------------------------------------------
(* Paid executions.                                                        *)

OnRecord(a) ==
    \/ HasManifest(a) /\ manifest[a].mode = "paid"
    \/ failed[a] = "paid"

\* The attempts a paid execution has gone past are on record, and it gets to
\* its end only when it has gone past all of them.
RecordInv ==
    /\ pc = "preflight" => left = requested
    /\ pc \in {"preflight", "loop", "settle"} => current = {}
    /\ pc = "settle" => left = {}
    /\ pc \in {"loop", "attempt", "replay", "traced"} => preflight \in {"passed", "failed"}
    /\ \A a, b \in current : a = b
    /\ requested \subseteq Attempts
    /\ pc # "idle" /\ mode = "paid" /\ preflight # "raised" =>
          \A a \in requested \ (left \union current) : OnRecord(a)

LEMMA RecordStep ==
    ASSUME TypeOK, RecordInv, [Next]_vars
    PROVE  RecordInv'
<1>1. ASSUME NEW m \in Modes, NEW request \in Requests, Start(m, request) PROVE RecordInv'
  <2>1. request \subseteq Attempts
    BY CampaignAssumption
  <2>2. Complete(request, "paid") => \A a \in request : OnRecord(a)
    BY DEF Complete, Satisfies, OnRecord
  <2>3. UNCHANGED <<manifest, failed>> /\ mode' = m /\ requested' = request /\ current' = {}
    BY <1>1 DEF Start
  <2>4. CASE Complete(request, m) /\ pc' = "settle" /\ left' = {}
    BY <2>1, <2>2, <2>3, <2>4 DEF RecordInv, OnRecord, HasManifest
  <2>5. CASE pc' = "preflight" /\ left' = request
    BY <2>1, <2>3, <2>5 DEF RecordInv
  <2> QED BY <1>1, <2>4, <2>5 DEF Start
<1>2. ASSUME NEW result \in {"passed", "failed", "raised"}, Preflight(result) PROVE RecordInv'
  BY <1>2 DEF Preflight, RecordInv, OnRecord, HasManifest
<1>3. ASSUME NEW a \in Attempts, BeginAttempt(a) PROVE RecordInv'
  <2>1. /\ pc = "loop" /\ pc' = "attempt" /\ a \in left
        /\ left' = left \ {a} /\ current' = {a}
        /\ UNCHANGED <<mode, requested, preflight, manifest, failed>>
    BY <1>3 DEF BeginAttempt, execution
  <2>2. current = {} /\ left' \union current' = left
    BY <2>1 DEF RecordInv
  <2> QED BY <2>1, <2>2 DEF RecordInv, OnRecord, HasManifest
<1>4. ASSUME NEW a \in Attempts,
             \/ \E status \in Invalid : EndInvalid(a, status)
             \/ WriteManifest(a) \/ RecordFailure(a)
      PROVE  RecordInv'
  <2>1. /\ UNCHANGED <<mode, requested, preflight, left>> /\ pc' = "loop" /\ current' = {}
        /\ pc # "idle" /\ a \in current
    BY <1>4 DEF EndInvalid, WriteManifest, RecordFailure, RecordInv, execution
  <2>2. \A b \in Attempts : OnRecord(b) /\ mode = "paid" => OnRecord(b)'
    BY <1>4 DEF EndInvalid, WriteManifest, RecordFailure, OnRecord, HasManifest, TypeOK,
                NoManifest, None
  <2>3. mode = "paid" => OnRecord(a)'
    BY <1>4 DEF EndInvalid, WriteManifest, RecordFailure, OnRecord, HasManifest, TypeOK,
                NoManifest, None
  <2>4. current = {a}
    BY <2>1 DEF RecordInv
  <2>5. preflight \in {"passed", "failed"} /\ requested \subseteq Attempts
    BY <1>4 DEF EndInvalid, WriteManifest, RecordFailure, RecordInv
  <2>6. mode = "paid" => \A b \in requested \ (left \union {a}) : OnRecord(b)
    BY <2>1, <2>4, <2>5 DEF RecordInv
  <2>7. mode = "paid" => \A b \in requested \ left : OnRecord(b)'
    BY <2>2, <2>3, <2>5, <2>6
  <2> QED BY <2>1, <2>5, <2>7 DEF RecordInv
<1>5. ASSUME NEW a \in Attempts, WriteTraces(a) PROVE RecordInv'
  BY <1>5 DEF WriteTraces, RecordInv, OnRecord, HasManifest, execution, work
<1>6. CASE Replay \/ LeaveLoop \/ Kill
  BY <1>6 DEF Replay, LeaveLoop, Kill, RecordInv, OnRecord, HasManifest, execution, work, files
<1>7. CASE Settle
  BY <1>7 DEF Settle, RecordInv, OnRecord, HasManifest, execution, work, files
<1>8. CASE UNCHANGED vars
  BY <1>8 DEF vars, RecordInv, OnRecord, HasManifest, execution, work, files
<1> QED BY <1>1, <1>2, <1>3, <1>4, <1>5, <1>6, <1>7, <1>8 DEF Next, Step

\* A paid execution that comes to its end has every attempt it was asked for on
\* record as a paid one (run_participant, _run_one).
THEOREM CampaignPaidOnRecord == Spec => []PaidOnRecord
<1>1. Init => RecordInv
  BY DEF Init, RecordInv
<1>2. TypeOK /\ RecordInv /\ [Next]_vars => RecordInv'
  BY RecordStep
<1>3. RecordInv => PaidOnRecord
  BY DEF RecordInv, PaidOnRecord, OnRecord
<1> QED BY <1>1, <1>2, <1>3, CampaignTypeCorrect, PTL DEF Spec

-----------------------------------------------------------------------------
(* Rehearsals first.                                                       *)

\* As long as no rehearsal follows a paid execution, there is no paid manifest
\* while there are rehearsals, and beside a paid completed one lie paid traces.
RowsInv ==
    /\ mode = "rehearsal" => \A a \in Attempts : manifest[a].mode # "paid"
    /\ pc = "traced" => \A a \in current : traces[a] = mode
    /\ \A a \in Attempts : LiveCompleted(a) => traces[a] = "paid"

LEMMA RowsStep ==
    ASSUME ~LateRehearsal, TypeOK, RecordInv, RowsInv, [Next]_vars
    PROVE  RowsInv'
<1> USE DEF LiveCompleted, HasManifest, NoManifest, None
<1>1. ASSUME NEW m \in Modes, NEW request \in Requests, Start(m, request) PROVE RowsInv'
  <2>1. /\ UNCHANGED <<manifest, traces>> /\ mode' = m /\ pc' # "traced"
        /\ m = "rehearsal" => mode = "rehearsal"
    BY <1>1 DEF Start
  <2> QED BY <2>1 DEF RowsInv
<1>2. ASSUME NEW result \in {"passed", "failed", "raised"}, Preflight(result) PROVE RowsInv'
  BY <1>2 DEF Preflight, RowsInv
<1>3. ASSUME NEW a \in Attempts, BeginAttempt(a) PROVE RowsInv'
  BY <1>3 DEF BeginAttempt, RowsInv, execution
<1>4. ASSUME NEW a \in Attempts, NEW status \in Invalid, EndInvalid(a, status) PROVE RowsInv'
  <2>1. /\ manifest' = [manifest EXCEPT ![a] = [mode |-> mode, status |-> status]]
        /\ UNCHANGED <<mode, traces>> /\ pc' = "loop" /\ status # "completed"
    BY <1>4 DEF EndInvalid, execution, Invalid
  <2> QED BY <2>1 DEF RowsInv, TypeOK
<1>5. ASSUME NEW a \in Attempts, WriteTraces(a) PROVE RowsInv'
  <2>1. /\ traces' = [traces EXCEPT ![a] = mode] /\ a \in current
        /\ UNCHANGED <<mode, manifest, current>>
    BY <1>5 DEF WriteTraces, execution, work
  <2>2. \A b \in Attempts : LiveCompleted(b)' => traces'[b] = "paid"
    BY <2>1 DEF RowsInv, TypeOK, Modes
  <2>3. \A b \in current' : traces'[b] = mode'
    BY <2>1 DEF RecordInv, TypeOK
  <2> QED BY <2>1, <2>2, <2>3 DEF RowsInv
<1>6. ASSUME NEW a \in Attempts, WriteManifest(a) PROVE RowsInv'
  <2>1. /\ manifest' = [manifest EXCEPT ![a] = [mode |-> mode, status |-> "completed"]]
        /\ traces[a] = mode
        /\ UNCHANGED <<mode, traces>> /\ pc' = "loop"
    BY <1>6 DEF WriteManifest, RowsInv, execution
  <2> QED BY <2>1 DEF RowsInv, TypeOK
<1>7. ASSUME NEW a \in Attempts, RecordFailure(a) PROVE RowsInv'
  BY <1>7 DEF RecordFailure, RowsInv, execution
<1>8. CASE Replay \/ LeaveLoop \/ Settle \/ Kill
  BY <1>8 DEF Replay, LeaveLoop, Settle, Kill, RowsInv, execution, work, files
<1>9. CASE UNCHANGED vars
  BY <1>9 DEF vars, RowsInv, execution, work, files
<1> QED BY <1>1, <1>2, <1>3, <1>4, <1>5, <1>6, <1>7, <1>8, <1>9 DEF Next, Step

\* The rows that are scored are the live reader's, however often it was executed
\* and killed, if all rehearsals come before the first paid execution
\* (_live_completed_run).
THEOREM CampaignRowsArePaid ==
    ASSUME ~LateRehearsal
    PROVE  Spec => []RowsArePaid
<1>1. Init => RecordInv /\ RowsInv
  BY DEF Init, RecordInv, RowsInv, LiveCompleted, HasManifest, NoManifest, None
<1>2. TypeOK /\ RecordInv /\ RowsInv /\ [Next]_vars => RecordInv' /\ RowsInv'
  BY RecordStep, RowsStep
<1>3. RowsInv => RowsArePaid
  BY DEF RowsInv, RowsArePaid, Scored
<1> QED BY <1>1, <1>2, <1>3, CampaignTypeCorrect, PTL DEF Spec

-----------------------------------------------------------------------------
(* The reported status.                                                    *)

Done(a) == \E o \in outcomes : o.attempt = a

\* Every attempt an execution has gone past has an outcome, and the outcomes
\* that _participant_status does not ask about have their causes.
StatusInv ==
    /\ pc = "preflight" => outcomes = {}
    /\ pc # "idle" /\ preflight \in {"passed", "failed"} =>
          \A a \in requested \ (left \union current) : Done(a)
    /\ \A o \in outcomes :
          /\ o.status = "invalid_dataset" => o.attempt \in broken
          /\ o.status = "aborted_preflight" => preflight = "failed"

LEMMA StatusStep ==
    ASSUME TypeOK, RecordInv, StatusInv, [Next]_vars
    PROVE  StatusInv'
<1>1. ASSUME NEW m \in Modes, NEW request \in Requests, Start(m, request) PROVE StatusInv'
  BY <1>1 DEF Start, StatusInv, Done
<1>2. ASSUME NEW result \in {"passed", "failed", "raised"}, Preflight(result) PROVE StatusInv'
  <2>1. /\ preflight' = result /\ UNCHANGED <<requested, current, outcomes, broken>>
        /\ result # "raised" => left' = left
        /\ pc = "preflight"
    BY <1>2 DEF Preflight
  <2>2. left = requested
    BY <2>1 DEF RecordInv
  <2>3. outcomes = {}
    BY <2>1 DEF StatusInv, Done
  <2> QED BY <2>1, <2>2, <2>3 DEF StatusInv, Done
<1>3. ASSUME NEW a \in Attempts, BeginAttempt(a) PROVE StatusInv'
  <2>1. /\ pc = "loop" /\ a \in left /\ left' = left \ {a} /\ current' = {a}
        /\ UNCHANGED <<requested, preflight, outcomes, broken>> /\ pc' = "attempt"
    BY <1>3 DEF BeginAttempt, execution
  <2>2. current = {}
    BY <2>1 DEF RecordInv
  <2> QED BY <2>1, <2>2 DEF StatusInv, Done
<1>4. ASSUME NEW a \in Attempts,
             NEW status \in Invalid \union {"completed", "reader_failure"},
             \/ EndInvalid(a, status)
             \/ status = "completed" /\ WriteManifest(a)
             \/ status = "reader_failure" /\ RecordFailure(a)
      PROVE  StatusInv'
  <2>1. /\ outcomes' = outcomes \union {[attempt |-> a, status |-> status]}
        /\ UNCHANGED <<requested, preflight, left, broken>> /\ current' = {} /\ pc' = "loop"
        /\ pc # "idle" /\ a \in current
    BY <1>4 DEF EndInvalid, WriteManifest, RecordFailure, Outcome, execution
  <2>2. /\ status = "invalid_dataset" => a \in broken
        /\ status = "aborted_preflight" => preflight = "failed"
    BY <1>4 DEF EndInvalid
  <2>3. current = {a}
    BY <2>1 DEF RecordInv
  <2>4. Done(a)' /\ \A b : Done(b) => Done(b)'
    <3>1. [attempt |-> a, status |-> status] \in outcomes' /\ outcomes \subseteq outcomes'
      BY <2>1
    <3>2. [attempt |-> a, status |-> status].attempt = a
      OBVIOUS
    <3> QED BY <3>1, <3>2 DEF Done
  <2>5. preflight \in {"passed", "failed"} => \A b \in requested \ left : Done(b)'
    BY <2>1, <2>3, <2>4 DEF StatusInv, Done
  <2>6. \A o \in outcomes' :
           /\ o.status = "invalid_dataset" => o.attempt \in broken
           /\ o.status = "aborted_preflight" => preflight = "failed"
    BY <2>1, <2>2 DEF StatusInv
  <2>7. /\ UNCHANGED <<requested, preflight, left, broken>> /\ current' = {} /\ pc' = "loop"
    BY <2>1
  <2> QED BY <2>5, <2>6, <2>7 DEF StatusInv
<1>5. ASSUME NEW a \in Attempts, WriteTraces(a) PROVE StatusInv'
  BY <1>5 DEF WriteTraces, StatusInv, Done, execution, work
<1>6. CASE Replay \/ LeaveLoop \/ Settle \/ Kill
  BY <1>6 DEF Replay, LeaveLoop, Settle, Kill, StatusInv, Done, execution, work
<1>7. CASE UNCHANGED vars
  BY <1>7 DEF vars, StatusInv, Done, execution, work
<1> QED BY <1>1, <1>2, <1>3, <1>4, <1>5, <1>6, <1>7 DEF Next, Step

\* A participant is reported as completed only when this execution completed
\* every attempt it was asked for whose dataset is valid (_participant_status).
THEOREM CampaignStatusHonest == Spec => []StatusHonest
<1>1. Init => RecordInv /\ StatusInv
  BY DEF Init, RecordInv, StatusInv
<1>2. TypeOK /\ RecordInv /\ StatusInv /\ [Next]_vars => RecordInv' /\ StatusInv'
  BY RecordStep, StatusStep
<1>3. TypeOK /\ RecordInv /\ StatusInv => StatusHonest
  <2> SUFFICES ASSUME TypeOK, RecordInv, StatusInv, pc = "settle", Status = "completed",
                      NEW a \in requested \ broken
               PROVE  [attempt |-> a, status |-> "completed"] \in outcomes
    BY DEF StatusHonest
  <2>1. preflight = "passed" /\ Outcomes("invalid_invariant") = {}
        /\ Outcomes("reader_failure") = {}
    BY DEF Status, TypeOK
  <2>2. PICK o \in outcomes : o.attempt = a
    BY <2>1 DEF RecordInv, StatusInv, Done
  <2>3. o.status = "completed"
    BY <2>1, <2>2 DEF Outcomes, StatusInv, TypeOK, Invalid
  <2>4. o = [attempt |-> a, status |-> "completed"]
    BY <2>2, <2>3 DEF TypeOK
  <2> QED BY <2>2, <2>4
<1> QED BY <1>1, <1>2, <1>3, CampaignTypeCorrect, PTL DEF Spec
=============================================================================
