------------------------------- MODULE Campaign -------------------------------
(***************************************************************************)
(* One participant of the protocol campaign (scripts/run_protocol_v1.py)   *)
(* over executions that are killed and repeated: rehearsals with the       *)
(* offline stub reader and paid runs with the live reader share one run    *)
(* root, every execution goes through the requested attempts (pack x       *)
(* replicate) in order, and the analysis reads whatever files they left.   *)
(*                                                                         *)
(* An attempt is a number, in execution order, all its queries as one      *)
(* unit; --replicates may ask for more attempts than are planned.  Files   *)
(* are replaced atomically (benchmark/manifests.py), so a kill falls       *)
(* between two of them.  CheckpointRun models what happens inside an       *)
(* attempt; here it is one of its endings.                                 *)
(***************************************************************************)
EXTENDS Integers, FiniteSets

CONSTANTS
    Attempts,      \* the attempts a command line can name
    Planned,       \* those of the plan: three packs, three replicates
    Requests,      \* the sets of attempts a command line may ask for
    Broken,        \* the sets of attempts whose dataset may be invalid
    LateRehearsal, \* rehearsals may follow a paid execution
    MaxExecutions  \* bound: executions of the script

ASSUME CampaignAssumption ==
    /\ Attempts \subseteq Nat /\ IsFiniteSet(Attempts) /\ Planned \subseteq Attempts
    /\ Requests \subseteq SUBSET Attempts
    /\ Broken \subseteq SUBSET Attempts
    /\ LateRehearsal \in BOOLEAN
    /\ MaxExecutions \in Nat

Modes == {"rehearsal", "paid"}
Invalid == {"invalid_invariant", "invalid_dataset", "aborted_preflight"}
None == "none"
NoManifest == [mode |-> None, status |-> None]

VARIABLES
    pc,        \* where the script is
    mode,      \* of the current or last execution
    requested, \* the attempts this execution was asked for
    left,      \* those not yet run
    current,   \* the attempts being run: one, or none
    preflight, \* "pending", or how the preflight of this execution went
    outcomes,  \* outcomes of this execution, by attempt
    dirs,      \* attempts that have a directory
    data,      \* the provider's data directory exists
    manifest,  \* manifest.json of each attempt: mode and status
    traces,    \* retrieval_trace.jsonl of each attempt: its mode, or None
    failed,    \* FAILED.json of each attempt: its mode, or None
    runs,      \* executions so far
    broken     \* the attempts whose dataset is invalid

execution == <<mode, requested, preflight, runs>>
work == <<left, current, outcomes>>
files == <<dirs, data, manifest, traces, failed>>
vars == <<pc, execution, work, files, broken>>

-----------------------------------------------------------------------------
(* What is read back from the files.                                       *)

HasManifest(a) == manifest[a] # NoManifest

\* Mutant: the reader's mode is not looked at.
AnyCompleted(a) == HasManifest(a) /\ manifest[a].status = "completed"

LiveCompleted(a) ==
    HasManifest(a) /\ manifest[a].mode = "paid" /\ manifest[a].status = "completed"

\* A paid execution wants the validated reader; mutant: any completed manifest.
SatisfiesAnyway(a, m) == HasManifest(a) /\ manifest[a].status = "completed"
Satisfies(a, m) ==
    /\ HasManifest(a)
    /\ manifest[a].status = "completed"
    /\ m = "paid" => manifest[a].mode = "paid"

Complete(request, m) == \A a \in request : Satisfies(a, m)

\* The attempts whose rows enter the metrics.
Scored == {a \in Attempts : LiveCompleted(a) /\ traces[a] # None}

\* The attempts counted as failed; mutant: with those of a completed run.
AllFailed == {a \in Attempts : failed[a] # None}
Attributed == {a \in Attempts : failed[a] # None /\ ~LiveCompleted(a)}

RunStatus(a) == IF HasManifest(a) THEN manifest[a].status ELSE "reader_failure"
RunStatuses == {RunStatus(a) : a \in {b \in Attempts : HasManifest(b) \/ failed[b] # None}}

InvalidByDesign == RunStatuses = {"invalid_invariant"}
NotRun == Scored = {} /\ dirs = {} /\ ~data
Unaccounted == Cardinality(Planned) - Cardinality(Scored) - Cardinality(Attributed)
QAPasses == InvalidByDesign \/ NotRun \/ Unaccounted <= 0

-----------------------------------------------------------------------------
Init ==
    /\ pc = "idle" /\ mode = "rehearsal" /\ requested = {} /\ left = {} /\ current = {}
    /\ preflight = "pending" /\ outcomes = {} /\ runs = 0
    /\ dirs = {} /\ data = FALSE
    /\ manifest = [a \in Attempts |-> NoManifest]
    /\ traces = [a \in Attempts |-> None]
    /\ failed = [a \in Attempts |-> None]
    /\ broken \in Broken

\* main calls run_participant, which skips a participant that is complete and
\* otherwise removes its data directory.
Start(m, request) ==
    /\ pc = "idle"
    /\ runs < MaxExecutions
    /\ m = "rehearsal" /\ ~LateRehearsal => mode = "rehearsal"
    /\ runs' = runs + 1
    /\ mode' = m /\ requested' = request
    /\ preflight' = "pending" /\ outcomes' = {} /\ current' = {}
    /\ \/ /\ Complete(request, m)
          /\ pc' = "settle" /\ left' = {}
          /\ UNCHANGED data
       \/ /\ ~Complete(request, m)
          /\ pc' = "preflight" /\ left' = request
          /\ data' = FALSE
    /\ UNCHANGED <<dirs, manifest, traces, failed, broken>>

\* The checks of the first pack stand for all attempts; the provider they build
\* may leave its data directory behind.
Preflight(result) ==
    /\ pc = "preflight"
    /\ preflight' = result
    /\ pc' = IF result = "raised" THEN "settle" ELSE "loop"
    /\ left' = IF result = "raised" THEN {} ELSE left
    /\ data' \in BOOLEAN
    /\ UNCHANGED <<mode, requested, runs, current, outcomes>>
    /\ UNCHANGED <<dirs, manifest, traces, failed, broken>>

\* Mutant: an attempt that has been run is run again.
BeginAttemptAgain(a) ==
    /\ pc = "loop"
    /\ a \in left /\ \A b \in left : a <= b
    /\ current' = {a}
    /\ dirs' = dirs \union {a}
    /\ data' \in {data, TRUE}
    /\ pc' = "attempt"
    /\ UNCHANGED <<execution, left, outcomes, manifest, traces, failed, broken>>

BeginAttempt(a) ==
    /\ pc = "loop"
    /\ a \in left /\ \A b \in left : a <= b
    /\ left' = left \ {a}
    /\ current' = {a}
    /\ dirs' = dirs \union {a}
    /\ data' \in {data, TRUE}
    /\ pc' = "attempt"
    /\ UNCHANGED <<execution, outcomes, manifest, traces, failed, broken>>

\* run_baseline found nothing against the attempt and goes through its
\* checkpoints.
Replay ==
    /\ pc = "attempt" /\ preflight = "passed" /\ current \intersect broken = {}
    /\ pc' = "replay"
    /\ UNCHANGED <<execution, work, files, broken>>

Outcome(a, status) == outcomes' = outcomes \union {[attempt |-> a, status |-> status]}

\* run_baseline ends without results: its manifest replaces any earlier one,
\* the traces of an earlier execution stay.
EndInvalid(a, status) ==
    /\ a \in current
    /\ \/ pc = "attempt" /\ status = "invalid_dataset" /\ a \in broken
       \/ /\ pc = "attempt" /\ status = "aborted_preflight"
          /\ preflight = "failed" /\ a \notin broken
       \/ pc = "replay" /\ status = "invalid_invariant"
    /\ manifest' = [manifest EXCEPT ![a] = [mode |-> mode, status |-> status]]
    /\ Outcome(a, status)
    /\ current' = {} /\ pc' = "loop"
    /\ UNCHANGED <<execution, left, dirs, data, traces, failed, broken>>

WriteTraces(a) ==
    /\ pc = "replay" /\ a \in current
    /\ traces' = [traces EXCEPT ![a] = mode]
    /\ pc' = "traced"
    /\ UNCHANGED <<execution, work, dirs, data, manifest, failed, broken>>

WriteManifest(a) ==
    /\ pc = "traced" /\ a \in current
    /\ manifest' = [manifest EXCEPT ![a] = [mode |-> mode, status |-> "completed"]]
    /\ Outcome(a, "completed")
    /\ current' = {} /\ pc' = "loop"
    /\ UNCHANGED <<execution, left, dirs, data, traces, failed, broken>>

\* Mutant: a failure is written down as a manifest.
FailureAsManifest(a) ==
    /\ pc \in {"attempt", "replay", "traced"} /\ a \in current
    /\ manifest' = [manifest EXCEPT ![a] = [mode |-> mode, status |-> "reader_failure"]]
    /\ Outcome(a, "reader_failure")
    /\ current' = {} /\ pc' = "loop"
    /\ UNCHANGED <<execution, left, dirs, data, traces, failed, broken>>

\* Any other exception is written to FAILED.json; the files of an earlier
\* execution stay where they are.
RecordFailure(a) ==
    /\ pc \in {"attempt", "replay", "traced"} /\ a \in current
    /\ failed' = [failed EXCEPT ![a] = mode]
    /\ Outcome(a, "reader_failure")
    /\ current' = {} /\ pc' = "loop"
    /\ UNCHANGED <<execution, left, dirs, data, manifest, traces, broken>>

LeaveLoop ==
    /\ pc = "loop" /\ left = {}
    /\ pc' = "settle"
    /\ UNCHANGED <<execution, work, files, broken>>

Outcomes(status) == {o \in outcomes : o.status = status}

\* Mutant: failed attempts are passed over.
StatusOfManifests ==
    IF preflight = "pending" THEN "skipped_complete"
    ELSE IF preflight \in {"raised", "failed"} THEN "aborted_preflight"
    ELSE IF Outcomes("invalid_invariant") # {} THEN "invalid_invariant"
    ELSE IF Outcomes("completed") # {} THEN "completed"
    ELSE "not_run"

\* What run_participant returns (_participant_status and the early returns).
Status ==
    IF preflight = "pending" THEN "skipped_complete"
    ELSE IF preflight = "raised" THEN "aborted_preflight"
    ELSE IF outcomes = {} THEN "not_run"
    ELSE IF preflight = "failed" THEN "aborted_preflight"
    ELSE IF Outcomes("invalid_invariant") # {} THEN "invalid_invariant"
    ELSE IF Outcomes("reader_failure") # {} THEN "reader_failure"
    ELSE "completed"

\* run_participant returns its summary to main, which goes on.
Settle ==
    /\ pc = "settle"
    /\ pc' = "idle"
    /\ UNCHANGED <<execution, work, files, broken>>

\* The script is killed, or an error outside the attempt's try block ends it.
Kill ==
    /\ pc # "idle"
    /\ pc' = "idle"
    /\ UNCHANGED <<execution, work, files, broken>>

Step ==
    \/ \E result \in {"passed", "failed", "raised"} : Preflight(result)
    \/ \E a \in Attempts :
          \/ BeginAttempt(a)
          \/ \E status \in Invalid : EndInvalid(a, status)
          \/ WriteTraces(a) \/ WriteManifest(a) \/ RecordFailure(a)
    \/ Replay \/ LeaveLoop \/ Settle

Next ==
    \/ \E m \in Modes, request \in Requests : Start(m, request)
    \/ Step \/ Kill

Spec == Init /\ [][Next]_vars

\* The script is one thread, and every attempt returns or raises (RunEnds of
\* CheckpointRun); nobody has to start or to kill it.
FairSpec == Spec /\ WF_vars(Step)

-----------------------------------------------------------------------------
(* Properties.                                                             *)

ManifestType == [mode : Modes, status : Invalid \union {"completed"}]

\* Every variable holds a value of its type.
TypeOK ==
    /\ pc \in {"idle", "preflight", "loop", "attempt", "replay", "traced", "settle"}
    /\ mode \in Modes
    /\ requested \subseteq Attempts /\ left \subseteq Attempts /\ current \subseteq Attempts
    /\ preflight \in {"pending", "passed", "failed", "raised"}
    /\ outcomes \subseteq
          [attempt : Attempts, status : Invalid \union {"completed", "reader_failure"}]
    /\ dirs \subseteq Attempts /\ data \in BOOLEAN
    /\ manifest \in [Attempts -> ManifestType \union {NoManifest}]
    /\ traces \in [Attempts -> Modes \union {None}]
    /\ failed \in [Attempts -> Modes \union {None}]
    /\ runs \in Nat
    /\ broken \subseteq Attempts

Counted == Scored \union Attributed

\* Whatever was killed, repeated or rehearsed: when the QA passes on its counts,
\* planned attempts it never saw are at most as many as the attempts beyond
\* the plan that it counted; a failure beside a completed run does not stand
\* in for a missing attempt (qa_checks, _failed_missing_attempts).  Extra
\* replicates do, since every directory is counted against a fixed plan; and
\* the QA passes without counting when nothing has run or all recorded
\* attempts are invalid.
QAAccounts ==
    QAPasses /\ ~InvalidByDesign /\ ~NotRun =>
        Cardinality(Planned \ Counted) <= Cardinality(Counted \ Planned)

\* When a paid execution gets to its end, each attempt it was asked for is on
\* record as a paid one: a failing attempt neither stops the others nor
\* vanishes, and a rehearsal does not stand in for it (_run_one,
\* _participant_complete).
PaidOnRecord ==
    pc = "settle" /\ mode = "paid" /\ preflight # "raised" =>
        \A a \in requested : \/ HasManifest(a) /\ manifest[a].mode = "paid"
                             \/ failed[a] = "paid"

\* The rows that enter the metrics are answers of the live reader, never of the
\* offline stub ("stale stub traces must not enter the analysis",
\* tests/test_protocol_v1.py; _live_completed_run).
RowsArePaid == pc = "idle" => \A a \in Scored : traces[a] = "paid"

\* A participant is reported as completed only if every attempt it was asked
\* for was completed by this execution; attempts on an invalid dataset aside,
\* which have no status of their own (_participant_status).
StatusHonest ==
    pc = "settle" /\ Status = "completed" =>
        \A a \in requested \ broken : [attempt |-> a, status |-> "completed"] \in outcomes

\* An execution comes to its end, whatever fails in it.
ExecutionEnds == pc # "idle" ~> pc = "idle"
=============================================================================
