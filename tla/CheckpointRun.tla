---------------------------- MODULE CheckpointRun ----------------------------
(***************************************************************************)
(* One baseline run (benchmark/runner.py) over one memory provider: for    *)
(* each checkpoint the provider is brought to the state of that moment     *)
(* (lifecycle.py, clock.py), its snapshot hash becomes the baseline, and   *)
(* each query of the checkpoint is retrieved between two snapshots and     *)
(* answered; traces, scores and the manifest are written at the end.       *)
(*                                                                         *)
(* An event is its id, whose order is the order of the id strings.  Times  *)
(* are ticks, Resolution of them to a second.  The clock formats "now"     *)
(* without the fraction, and the code compares some times as dates and     *)
(* some as strings: both are modelled (Second, TextKey).  What a provider  *)
(* retrieves is any part of its store; an exception of the provider, of    *)
(* the reader or of the file system ends the run (Raise).  A provider that *)
(* loses a fact on its own is Drift.  State hashes are the hashed sets.    *)
(***************************************************************************)
EXTENDS Naturals, FiniteSets

CONSTANTS
    Events, NoEvent, \* event ids (naturals); the target of an upsert
    Inputs,          \* the pairs of a corpus and a setup a run may be given
    Queries,         \* query ids (naturals)
    CheckpointOf,    \* the checkpoint of each query
    Checkpoints,     \* how many distinct as_of values the queries have
    AsOf,            \* the as_of of each checkpoint, in the order they run
    Resolution,      \* ticks per second
    MaxDrifts        \* bound: facts the provider loses on its own

\* An event of a corpus: when it becomes available, what it deletes.
EventType == [at : Nat, target : Events \union {NoEvent}]

\* How a run is set up: RunConfig.incremental; whether the provider implements
\* delete(); whether its snapshot() hashes what retrieve() searches, or the
\* adapter's own list of events.
SetupType == [incremental : BOOLEAN, deletes : BOOLEAN, hashesStore : BOOLEAN]

\* Strings order a fraction of a second before the second itself: in
\* "10.5Z" < "10Z" the point sorts before the Z.
TextKey(t) == IF t % Resolution = 0 THEN t + Resolution - 1 ELSE t - 1

ASSUME ConstantsAssumption ==
    /\ Events \subseteq Nat /\ IsFiniteSet(Events) /\ NoEvent \notin Events
    /\ Resolution \in Nat \ {0}
    /\ Inputs \subseteq [Events -> EventType] \X SetupType
    /\ Queries \subseteq Nat /\ IsFiniteSet(Queries)
    /\ Checkpoints \in Nat
    /\ CheckpointOf \in [Queries -> 1 .. Checkpoints]
    /\ AsOf \in [1 .. Checkpoints -> Nat]
    /\ MaxDrifts \in Nat

\* run_baseline goes through the as_of strings in sorted order.
ASSUME CheckpointsInOrder ==
    \A i, j \in 1 .. Checkpoints : i < j => TextKey(AsOf[i]) < TextKey(AsOf[j])

VARIABLES
    corpus,   \* the events of this run
    setup,    \* how it is set up
    pc,       \* where run_baseline is
    k,        \* the current checkpoint
    todo,     \* eligible events not yet gone through
    pending,  \* upserts collected for the next ingest() call
    actions,  \* lifecycle_actions: targets deleted in this ingestion
    store,    \* what the provider searches
    listed,   \* the events the adapter has on its own list
    queue,    \* queries of the checkpoint not yet answered
    baseline, \* state hash of the checkpoint
    before,   \* state hash before the retrieval
    got,      \* evidence retrieved for the current query
    rows,     \* trace rows
    status,   \* status of the run
    disk,     \* files written
    drifts,   \* facts lost so far
    held,     \* history: the store the current query was retrieved from
    bases     \* history: the store at each checkpoint's baseline

ingestVars == <<todo, pending, actions>>
providerVars == <<store, listed, drifts>>
queryVars == <<baseline, before, got, held, bases>>
resultVars == <<rows, status, disk>>
vars == <<corpus, setup, pc, k, ingestVars, providerVars, queue, queryVars, resultVars>>

-----------------------------------------------------------------------------
(* The clock and the order of events.                                      *)

\* BenchmarkClock.now(): the fraction of a second is not formatted.
Now(t) == (t \div Resolution) * Resolution

At(e) == corpus[e].at
Target(e) == corpus[e].target
IsDelete(e) == Target(e) # NoEvent

\* Sorted by (available_at, event_id), as strings.
Before(e, f) ==
    \/ TextKey(At(e)) < TextKey(At(f))
    \/ TextKey(At(e)) = TextKey(At(f)) /\ e < f

\* Mutant: events are gone through by id alone.
FirstById(e, S) == e \in S /\ \A f \in S : e <= f

First(e, S) == e \in S /\ \A f \in S \ {e} : Before(e, f)

\* events_available_by: compared as dates.
Available(n) == {e \in Events : At(e) <= Now(AsOf[n])}

Incremental == setup.incremental
SupportsDelete == setup.deletes
HashesStore == setup.hashesStore

\* Newer than the previous checkpoint: compared as strings.
NewSince(e, n) == TextKey(At(e)) > TextKey(AsOf[n - 1])

Eligible(n) == {e \in Available(n) : Incremental /\ n > 1 => NewSince(e, n)}

\* validate_corpus: a delete names an upsert or delete that is earlier, as strings.
CorpusValid ==
    \A e \in Events : IsDelete(e) => TextKey(At(Target(e))) < TextKey(At(e))

Init ==
    /\ \E input \in Inputs : corpus = input[1] /\ setup = input[2]
    /\ pc = "start" /\ k = 0
    /\ todo = {} /\ pending = {} /\ actions = {}
    /\ store = {} /\ listed = {} /\ drifts = 0
    /\ queue = {}
    /\ baseline = {} /\ before = {} /\ got = {} /\ held = {}
    /\ bases = [n \in 1 .. Checkpoints |-> {}]
    /\ rows = {} /\ status = "created" /\ disk = {}

-----------------------------------------------------------------------------
(* Before the first checkpoint.                                            *)

\* The corpus is invalid, or a required preflight check failed.
Refuse ==
    /\ pc = "start"
    /\ \/ ~CorpusValid /\ status' = "invalid_dataset"
       \/ CorpusValid /\ status' = "aborted_preflight"
    /\ pc' = "close"
    /\ UNCHANGED <<corpus, setup, k, ingestVars, providerVars, queue, queryVars, rows, disk>>

Begin ==
    /\ pc = "start"
    /\ CorpusValid
    /\ pc' = "open"
    /\ UNCHANGED <<corpus, setup, k, ingestVars, providerVars, queue, queryVars, resultVars>>

-----------------------------------------------------------------------------
(* Ingestion (run_ingestion).                                              *)

\* The next checkpoint: reset the provider, unless incremental.
OpenCheckpoint ==
    /\ pc = "open"
    /\ k < Checkpoints
    /\ k' = k + 1
    /\ store' = IF Incremental THEN store ELSE {}
    /\ listed' = IF Incremental THEN listed ELSE {}
    /\ todo' = Eligible(k + 1)
    /\ actions' = {}
    /\ pc' = "ingest"
    /\ UNCHANGED <<corpus, setup, pending, drifts, queue, queryVars, resultVars>>

TakeUpsert(e) ==
    /\ pc = "ingest"
    /\ First(e, todo)
    /\ ~IsDelete(e)
    /\ todo' = todo \ {e}
    /\ pending' = pending \union {e}
    /\ UNCHANGED <<corpus, setup, pc, k, actions, providerVars, queue, queryVars, resultVars>>

\* flush() comes before a delete and after the last event.
FlushDue == todo = {} \/ \E e \in todo : First(e, todo) /\ IsDelete(e)

Flush ==
    /\ pc = "ingest"
    /\ pending # {}
    /\ FlushDue
    /\ store' = store \union pending
    /\ listed' = listed \union pending
    /\ pending' = {}
    /\ UNCHANGED <<corpus, setup, pc, k, todo, actions, drifts, queue, queryVars, resultVars>>

Invalidate ==
    /\ status' = "invalid_invariant"
    /\ pc' = "close"

\* What a delete adds to lifecycle_actions: the event it deleted.  A mutant
\* adds the delete's own id.
OwnId(e) == e
Deleted(e) == Target(e)

Delete(e) ==
    /\ pc = "ingest"
    /\ First(e, todo)
    /\ IsDelete(e)
    /\ pending = {}
    /\ SupportsDelete
    /\ store' = store \ {Target(e)}
    /\ listed' = listed \ {Target(e)}
    /\ actions' = actions \union {Deleted(e)}
    /\ todo' = todo \ {e}
    /\ UNCHANGED <<corpus, setup, pc, k, pending, drifts, queue, queryVars, resultVars>>

\* Mutant: a delete the provider cannot execute is passed over.
DeletePassedOver(e) ==
    /\ pc = "ingest"
    /\ First(e, todo)
    /\ IsDelete(e)
    /\ pending = {}
    /\ ~SupportsDelete
    /\ todo' = todo \ {e}
    /\ UNCHANGED <<corpus, setup, pc, k, pending, actions, providerVars, queue, queryVars, resultVars>>

\* CapabilityNotSupported becomes a LifecycleError.
DeleteUnsupported(e) ==
    /\ pc = "ingest"
    /\ First(e, todo)
    /\ IsDelete(e)
    /\ pending = {}
    /\ ~SupportsDelete
    /\ Invalidate
    /\ UNCHANGED <<corpus, setup, k, ingestVars, providerVars, queue, queryVars, rows, disk>>

\* What snapshot() hashes.
Hash == IF HashesStore THEN store ELSE listed

\* await_ready: the provider is ready and its snapshot is the baseline, or the
\* run is invalid.
AwaitReady ==
    /\ pc = "ingest"
    /\ todo = {} /\ pending = {}
    /\ \/ /\ baseline' = Hash
          /\ bases' = [bases EXCEPT ![k] = store]
          /\ queue' = {q \in Queries : CheckpointOf[q] = k}
          /\ pc' = "query"
          /\ UNCHANGED status
       \/ /\ Invalidate
          /\ UNCHANGED <<queue, baseline, bases>>
    /\ UNCHANGED <<corpus, setup, k, ingestVars, providerVars, before, got, held, rows, disk>>

-----------------------------------------------------------------------------
(* The queries of a checkpoint (_run_query).                               *)

Current(q) == q \in queue /\ \A p \in queue : q <= p

\* The state still equals the baseline.
AtBaseline == Hash = baseline

SnapshotBefore ==
    /\ pc = "query"
    /\ queue # {}
    /\ before' = Hash
    /\ \/ AtBaseline /\ pc' = "retrieve" /\ UNCHANGED status
       \/ ~AtBaseline /\ Invalidate
    /\ UNCHANGED <<corpus, setup, k, ingestVars, providerVars, queue, baseline, got, held, bases,
                   rows, disk>>

Retrieve ==
    /\ pc = "retrieve"
    /\ \E evidence \in SUBSET store : got' = evidence
    /\ held' = store
    /\ pc' = "check"
    /\ UNCHANGED <<corpus, setup, k, ingestVars, providerVars, queue, baseline, before, bases,
                   resultVars>>

\* check_no_mutation on the two snapshots around the retrieval.
SnapshotAfter ==
    /\ pc = "check"
    /\ \/ Hash = before /\ pc' = "answer" /\ UNCHANGED status
       \/ Hash # before /\ Invalidate
    /\ UNCHANGED <<corpus, setup, k, ingestVars, providerVars, queue, queryVars, rows, disk>>

\* The trace row; a mutant leaves the deletions out.
RowUndeleted(q) == [query |-> q, cp |-> k, evidence |-> got, held |-> held]

Row(q) == [query |-> q, cp |-> k, evidence |-> got, deleted |-> actions, held |-> held]

\* The reader answers, the scorer is given the deletions of the checkpoint.
Answer(q) ==
    /\ pc = "answer"
    /\ Current(q)
    /\ rows' = rows \union {Row(q)}
    /\ queue' = queue \ {q}
    /\ pc' = "query"
    /\ UNCHANGED <<corpus, setup, k, ingestVars, providerVars, queryVars, status, disk>>

CloseCheckpoint ==
    /\ pc = "query"
    /\ queue = {}
    /\ pc' = "open"
    /\ UNCHANGED <<corpus, setup, k, ingestVars, providerVars, queue, queryVars, resultVars>>

-----------------------------------------------------------------------------
(* After the last checkpoint.                                              *)

\* The loop over the checkpoints is over; a mutant leaves it after any of them,
\* another never does.
AnyCheckpoint == k > 0
PastLastCheckpoint == k > Checkpoints
LastCheckpoint == k = Checkpoints

Finish ==
    /\ pc = "open"
    /\ LastCheckpoint
    /\ status' = "completed"
    /\ pc' = "traces"
    /\ UNCHANGED <<corpus, setup, k, ingestVars, providerVars, queue, queryVars, rows, disk>>

Write(file, next) ==
    /\ disk' = disk \union {file}
    /\ pc' = next
    /\ UNCHANGED <<corpus, setup, k, ingestVars, providerVars, queue, queryVars, rows, status>>

\* Mutant: the scores are not written.
WriteTracesOnly == pc = "traces" /\ Write("traces", "close")

WriteTraces == pc = "traces" /\ Write("traces", "scores")
WriteScores == pc = "scores" /\ Write("scores", "close")

\* The finally block: stats() and cleanup(), whatever came before.
Close ==
    /\ pc = "close"
    /\ pc' = "manifest"
    /\ UNCHANGED <<corpus, setup, k, ingestVars, providerVars, queue, queryVars, resultVars>>

WriteManifest == pc = "manifest" /\ Write("manifest", "done")

Ended == pc \in {"done", "failed"}

\* Any other exception: the finally block runs and the exception leaves
\* run_baseline; no manifest is written.  A killed process leaves the same files.
Raise ==
    /\ ~Ended
    /\ pc' = "failed"
    /\ UNCHANGED <<corpus, setup, k, ingestVars, providerVars, queue, queryVars, resultVars>>

\* The provider loses a fact it was given, while the run goes on.
Drift(e) ==
    /\ ~Ended
    /\ drifts < MaxDrifts
    /\ e \in store
    /\ store' = store \ {e}
    /\ drifts' = drifts + 1
    /\ UNCHANGED <<corpus, setup, pc, k, ingestVars, listed, queue, queryVars, resultVars>>

Step ==
    \/ Refuse \/ Begin
    \/ OpenCheckpoint
    \/ \E e \in Events : TakeUpsert(e) \/ Delete(e) \/ DeleteUnsupported(e)
    \/ Flush \/ AwaitReady
    \/ SnapshotBefore \/ Retrieve \/ SnapshotAfter
    \/ \E q \in Queries : Answer(q)
    \/ CloseCheckpoint \/ Finish
    \/ WriteTraces \/ WriteScores \/ Close \/ WriteManifest

Next == Step \/ Raise \/ \E e \in Events : Drift(e)

Spec == Init /\ [][Next]_vars

\* The run is one thread and every call it makes returns or raises.
FairSpec == Spec /\ WF_vars(Step)

-----------------------------------------------------------------------------
(* Properties.                                                             *)

\* The memory of an ideal provider at a checkpoint: the upserts available by
\* then, at the precision the clock shows, without those deleted by then.
Known(n) == {e \in Events : At(e) <= Now(AsOf[n])}
DeletedBy(n) == {Target(e) : e \in {d \in Known(n) : IsDelete(d)}}
Replay(n) == {e \in Known(n) : ~IsDelete(e)} \ DeletedBy(n)

PCs == {"start", "open", "ingest", "query", "retrieve", "check", "answer", "traces", "scores",
        "close", "manifest", "done", "failed"}
Statuses == {"created", "completed", "invalid_invariant", "invalid_dataset", "aborted_preflight"}
RowType == [query : Queries, cp : 0 .. Checkpoints, evidence : SUBSET Events,
            deleted : SUBSET Events, held : SUBSET Events]

\* Every variable holds a value of its type.
TypeOK ==
    /\ corpus \in [Events -> EventType] /\ setup \in SetupType
    /\ pc \in PCs /\ k \in 0 .. Checkpoints
    /\ todo \subseteq Events /\ pending \subseteq Events /\ actions \subseteq Events
    /\ store \subseteq Events /\ listed \subseteq Events /\ drifts \in Nat
    /\ queue \subseteq Queries
    /\ baseline \subseteq Events /\ before \subseteq Events
    /\ got \subseteq Events /\ held \subseteq Events
    /\ bases \in [1 .. Checkpoints -> SUBSET Events]
    /\ rows \subseteq RowType
    /\ status \in Statuses
    /\ disk \subseteq {"traces", "scores", "manifest"}

Querying == pc \in {"query", "retrieve", "check", "answer"}

\* When a checkpoint's queries run, a provider that lost nothing holds exactly
\* the memory of that moment, whether it was reset before or extended:
\* batching, flushing before a delete and sorting by string lose and resurrect
\* nothing, and nothing of the future is in (run_ingestion).
StateIsReplay == Querying /\ drifts = 0 => store = Replay(k)

\* A completed run vouches for every row: it was retrieved from the very state
\* its checkpoint's baseline was taken of (the comment in _run_query: "the
\* state must still equal the checkpoint baseline before retrieval, and any
\* mutation caused by retrieval invalidates the run").
RetrievedAtBaseline ==
    status = "completed" => \A r \in rows : r.held = bases[r.cp]

\* A provider that cannot delete never completes a run in which something had
\* to be deleted: the missing capability is recorded, never faked
\* (CapabilityNotSupported turned into LifecycleError).
NeverFaked ==
    ~SupportsDelete /\ status = "completed" => \A n \in 1 .. Checkpoints : DeletedBy(n) = {}

\* In a run that resets at each checkpoint, what is scored as deleted evidence
\* there is all that was deleted by then, so that a deleted fact that comes
\* back is counted (_run_query's deleted_event_ids, the scorer's
\* deleted_evidence).  An incremental run hands over the last deletions only.
DeletionsRemembered == ~Incremental => \A r \in rows : r.deleted = DeletedBy(r.cp)

\* Results on disk are those of a run that answered everything, and a manifest
\* that says completed has them beside it (finally block, write order).
ResultsBehindManifest ==
    /\ disk \intersect {"traces", "scores"} # {} => status = "completed"
    /\ "manifest" \in disk /\ status = "completed" => {"traces", "scores"} \subseteq disk

Verdict ==
    CASE status = "completed" -> "completed"
      [] status = "created" /\ pc # "failed" -> "running"
      [] OTHER -> "abandoned"

\* The run is a faithful run: queries answered once, checkpoint by checkpoint,
\* from nothing but the memory of the checkpoint, and all of them if it
\* completes.
Faithful == INSTANCE FaithfulRun WITH
    Facts <- Events,
    memory <- [n \in 1 .. Checkpoints |-> Replay(n)],
    answers <- {[query |-> r.query, evidence |-> r.evidence] : r \in rows},
    verdict <- Verdict

FaithfulRunSpec == Faithful!Spec

\* A run ends, with a manifest or an exception.
RunEnds == <>Ended
=============================================================================
