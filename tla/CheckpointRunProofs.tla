------------------------ MODULE CheckpointRunProofs ------------------------
(***************************************************************************)
(* Proofs about one baseline run: its types; that its files are those of   *)
(* its status; that a provider which loses nothing holds exactly the       *)
(* memory of the checkpoint when its queries are run, always when it is    *)
(* reset at each checkpoint, and in incremental runs when the events and   *)
(* the checkpoints built on fall on whole seconds (an event on a fraction  *)
(* can fall between two checkpoints and is never ingested); what the run   *)
(* knows of deletions; and that it is a faithful run.                      *)
(***************************************************************************)
EXTENDS CheckpointRun, TLAPS

\* Every variable of a baseline run keeps its type.
THEOREM RunTypeCorrect == Spec => []TypeOK
<1> USE ConstantsAssumption
<1>1. Init => TypeOK
  <2>1. ASSUME Init PROVE corpus \in [Events -> EventType] /\ setup \in SetupType
    <3>1. PICK input \in Inputs : corpus = input[1] /\ setup = input[2]
      BY <2>1 DEF Init
    <3>2. input \in [Events -> EventType] \X SetupType
      OBVIOUS
    <3> QED BY <3>1, <3>2
  <2> QED BY <2>1 DEF Init, TypeOK, PCs, Statuses
<1>2. TypeOK /\ [Next]_vars => TypeOK'
  <2> SUFFICES ASSUME TypeOK, [Next]_vars PROVE TypeOK'
    OBVIOUS
  <2>1. CASE Refuse \/ Begin
    BY <2>1 DEF TypeOK, Refuse, Begin, PCs, Statuses, ingestVars, providerVars, queryVars,
                resultVars
  <2>2. CASE OpenCheckpoint
    BY <2>2 DEF TypeOK, OpenCheckpoint, Eligible, Available, PCs, queryVars, resultVars
  <2>3. ASSUME NEW e \in Events, TakeUpsert(e) \/ Delete(e) \/ DeleteUnsupported(e)
        PROVE  TypeOK'
    <3>1. CASE TakeUpsert(e)
      BY <3>1 DEF TypeOK, TakeUpsert, providerVars, queryVars, resultVars
    <3>2. CASE Delete(e)
      <4>1. Target(e) \in Events
        BY <3>2 DEF Delete, IsDelete, Target, TypeOK, EventType
      <4> QED BY <3>2, <4>1 DEF TypeOK, Delete, Deleted, queryVars, resultVars
    <3>3. CASE DeleteUnsupported(e)
      BY <3>3 DEF TypeOK, DeleteUnsupported, Invalidate, PCs, Statuses, ingestVars,
                  providerVars, queryVars
    <3> QED BY <2>3, <3>1, <3>2, <3>3
  <2>4. CASE Flush
    BY <2>4 DEF TypeOK, Flush, queryVars, resultVars
  <2>5. CASE AwaitReady
    <3>h. /\ store \in SUBSET Events /\ listed \in SUBSET Events
          /\ bases \in [1 .. Checkpoints -> SUBSET Events]
      BY DEF TypeOK
    <3>1. bases' = bases \/ bases' = [bases EXCEPT ![k] = store]
      BY <2>5 DEF AwaitReady
    <3>2. bases' \in [1 .. Checkpoints -> SUBSET Events]
      BY <3>h, <3>1
    <3>3. queue' \subseteq Queries /\ baseline' \subseteq Events
      BY <2>5, <3>h DEF AwaitReady, Hash, TypeOK
    <3>4. pc' \in PCs /\ status' \in Statuses
      BY <2>5 DEF TypeOK, AwaitReady, Invalidate, PCs, Statuses
    <3> QED BY <2>5, <3>2, <3>3, <3>4 DEF TypeOK, AwaitReady, ingestVars, providerVars
  <2>6. CASE SnapshotBefore \/ Retrieve \/ SnapshotAfter
    <3>1. CASE SnapshotBefore
      BY <3>1 DEF TypeOK, SnapshotBefore, Hash, Invalidate, PCs, Statuses, ingestVars,
                  providerVars
    <3>2. CASE Retrieve
      BY <3>2 DEF TypeOK, Retrieve, PCs, ingestVars, providerVars, resultVars
    <3>3. CASE SnapshotAfter
      BY <3>3 DEF TypeOK, SnapshotAfter, Invalidate, PCs, Statuses, ingestVars, providerVars,
                  queryVars
    <3> QED BY <2>6, <3>1, <3>2, <3>3
  <2>7. ASSUME NEW q \in Queries, Answer(q)
        PROVE  TypeOK'
    <3>1. Row(q) \in RowType
      BY DEF TypeOK, Row, RowType
    <3> QED BY <2>7, <3>1 DEF TypeOK, Answer, PCs, ingestVars, providerVars, queryVars
  <2>8. CASE CloseCheckpoint \/ Finish
    BY <2>8 DEF TypeOK, CloseCheckpoint, Finish, PCs, Statuses, ingestVars, providerVars,
                queryVars, resultVars
  <2>9. CASE WriteTraces \/ WriteScores \/ Close \/ WriteManifest
    BY <2>9 DEF TypeOK, WriteTraces, WriteScores, Close, WriteManifest, Write, PCs,
                ingestVars, providerVars, queryVars, resultVars
  <2>10. CASE Raise \/ \E e \in Events : Drift(e)
    <3>1. CASE Raise
      BY <3>1 DEF TypeOK, Raise, PCs, ingestVars, providerVars, queryVars, resultVars
    <3>2. ASSUME NEW e \in Events, Drift(e) PROVE TypeOK'
      BY <3>2 DEF TypeOK, Drift, ingestVars, queryVars, resultVars
    <3> QED BY <2>10, <3>1, <3>2
  <2>11. CASE UNCHANGED vars
    BY <2>11 DEF TypeOK, vars, ingestVars, providerVars, queryVars, resultVars
  <2> QED BY <2>1, <2>2, <2>3, <2>4, <2>5, <2>6, <2>7, <2>8, <2>9, <2>10, <2>11
          DEF Next, Step
<1> QED BY <1>1, <1>2, PTL DEF Spec

-----------------------------------------------------------------------------
(* The files of a run.                                                     *)

After == {"traces", "scores", "close", "manifest", "done", "failed"}

\* A run completes once, at the last checkpoint, and writes in this order:
\* traces, scores, and the manifest last.
FilesInv ==
    /\ status = "completed" => pc \in After /\ k = Checkpoints
    /\ pc \in {"traces", "scores"} => status = "completed"
    /\ disk \intersect {"traces", "scores"} # {} => status = "completed"
    /\ pc = "scores" => "traces" \in disk
    /\ pc \in {"close", "manifest", "done"} /\ status = "completed" =>
          {"traces", "scores"} \subseteq disk
    /\ "manifest" \in disk => pc = "done"

LEMMA FilesInit == Init => FilesInv
BY DEF Init, FilesInv

LEMMA FilesStep ==
    ASSUME FilesInv, [Next]_vars
    PROVE  FilesInv'
<1> USE DEF FilesInv, After
<1>1. CASE Refuse \/ Begin \/ OpenCheckpoint \/ Flush \/ CloseCheckpoint
  BY <1>1 DEF Refuse, Begin, OpenCheckpoint, Flush, CloseCheckpoint, resultVars
<1>2. ASSUME NEW e \in Events,
             TakeUpsert(e) \/ Delete(e) \/ DeleteUnsupported(e) \/ Drift(e)
      PROVE  FilesInv'
  BY <1>2 DEF TakeUpsert, Delete, DeleteUnsupported, Invalidate, Drift, resultVars
<1>3. CASE AwaitReady \/ SnapshotBefore \/ Retrieve \/ SnapshotAfter
  BY <1>3 DEF AwaitReady, SnapshotBefore, Retrieve, SnapshotAfter, Invalidate, resultVars
<1>4. ASSUME NEW q \in Queries, Answer(q) PROVE FilesInv'
  BY <1>4 DEF Answer
<1>5. CASE Finish
  BY <1>5 DEF Finish, LastCheckpoint
<1>6. CASE WriteTraces \/ WriteScores \/ WriteManifest
  BY <1>6 DEF WriteTraces, WriteScores, WriteManifest, Write
<1>7. CASE Close \/ Raise
  BY <1>7 DEF Close, Raise, Ended, resultVars
<1>8. CASE UNCHANGED vars
  BY <1>8 DEF vars, resultVars
<1> QED BY <1>1, <1>2, <1>3, <1>4, <1>5, <1>6, <1>7, <1>8 DEF Next, Step

LEMMA FilesInvariant == Spec => []FilesInv
BY FilesInit, FilesStep, PTL DEF Spec

\* Results on disk are those of a run that completed, and beside a manifest
\* that says completed they are all there, wherever the run was interrupted
\* (the order of writes in run_baseline).
THEOREM RunResultsBehindManifest == Spec => []ResultsBehindManifest
<1>1. FilesInv => ResultsBehindManifest
  BY DEF FilesInv, ResultsBehindManifest
<1> QED BY <1>1, FilesInvariant, PTL

-----------------------------------------------------------------------------
(* The memory of a checkpoint.                                             *)

\* In an incremental run every event falls on a whole second, and so does every
\* checkpoint that another one follows.
OrdersAgree ==
    \A input \in Inputs : input[2].incremental =>
        /\ \A n \in 1 .. Checkpoints : n + 1 \in 1 .. Checkpoints => AsOf[n] % Resolution = 0
        /\ \A e \in Events : input[1][e].at % Resolution = 0

\* What Available and Replay say, with the corpus as a parameter.
By(c, n) == {e \in Events : c[e].at <= Now(AsOf[n])}
Kept(c, S) ==
    {e \in S : c[e].target = NoEvent} \ {c[d].target : d \in {x \in S : c[x].target # NoEvent}}

LEMMA ReplayIsKept == ASSUME NEW n PROVE Replay(n) = Kept(corpus, By(corpus, n))
BY DEF Replay, Known, DeletedBy, Kept, By, At, Target, IsDelete

LEMMA KeptNothing == ASSUME NEW c PROVE Kept(c, {}) = {}
BY DEF Kept

LEMMA KeptUpsert ==
    ASSUME NEW c \in [Events -> EventType], NEW S \in SUBSET Events, NEW e \in Events,
           c[e].target = NoEvent, \A d \in S : c[d].target # e
    PROVE  Kept(c, S \union {e}) = Kept(c, S) \union {e}
<1>1. NoEvent \notin Events
  BY ConstantsAssumption
<1> QED BY <1>1 DEF Kept

LEMMA KeptDelete ==
    ASSUME NEW c \in [Events -> EventType], NEW S \in SUBSET Events, NEW e \in Events,
           c[e].target # NoEvent
    PROVE  Kept(c, S \union {e}) = Kept(c, S) \ {c[e].target}
BY DEF Kept

-----------------------------------------------------------------------------
(* Seconds.                                                                *)

LEMMA WholeSecond ==
    ASSUME NEW t \in Nat, t % Resolution = 0
    PROVE  Now(t) = t /\ TextKey(t) = t + Resolution - 1
<1>1. Resolution \in Nat /\ Resolution > 0
  BY ConstantsAssumption
<1>2. (t \div Resolution) * Resolution = t
  BY <1>1
<1> QED BY <1>2 DEF Now, TextKey

\* Cutting off the fraction of a later time does not go back past a whole second.
LEMMA SecondsInOrder ==
    ASSUME NEW s \in Nat, NEW t \in Nat, s % Resolution = 0, TextKey(s) < TextKey(t)
    PROVE  s <= Now(t)
<1>1. Resolution \in Nat /\ Resolution > 0
  BY ConstantsAssumption
<1>2. TextKey(s) = s + Resolution - 1
  BY WholeSecond
<1>3. s <= t
  BY <1>1, <1>2 DEF TextKey
<1> DEFINE p == s \div Resolution
           q == t \div Resolution
<1>4. p \in Nat /\ q \in Nat /\ s = p * Resolution /\ t < (q + 1) * Resolution
  BY <1>1
<1> HIDE DEF p, q
<1>5. ~(p >= q + 1)
  <2> SUFFICES ASSUME p >= q + 1 PROVE FALSE
    OBVIOUS
  <2>1. p * Resolution >= (q + 1) * Resolution
    BY <1>1, <1>4
  <2> QED BY <1>1, <1>3, <1>4, <2>1
<1>6. p * Resolution <= q * Resolution
  BY <1>1, <1>4, <1>5
<1> QED BY <1>4, <1>6 DEF Now, q

\* In an incremental run the events not eligible at a checkpoint are those of
\* the checkpoint before it.
LEMMA Increment ==
    ASSUME OrdersAgree, Incremental, TypeOK, <<corpus, setup>> \in Inputs,
           NEW n \in 1 .. Checkpoints, n + 1 \in 1 .. Checkpoints
    PROVE  /\ By(corpus, n + 1) \ Eligible(n + 1) = By(corpus, n)
           /\ \A d \in By(corpus, n), f \in Eligible(n + 1) :
                 TextKey(At(d)) <= TextKey(At(f))
<1>1. /\ Resolution \in Nat /\ Resolution > 0 /\ Checkpoints \in Nat
      /\ AsOf[n] \in Nat /\ AsOf[n + 1] \in Nat
  BY ConstantsAssumption
<1>n. Now(AsOf[n + 1]) \in Nat
  <2>1. AsOf[n + 1] \div Resolution \in Nat
    BY <1>1
  <2> QED BY <1>1, <2>1 DEF Now
<1>o. AsOf[n] % Resolution = 0 /\ \A e \in Events : corpus[e].at % Resolution = 0
  <2>1. PICK input \in Inputs : input = <<corpus, setup>>
    OBVIOUS
  <2>2. input[1] = corpus /\ input[2] = setup
    BY <2>1
  <2>3. input[2].incremental
    BY <2>2 DEF Incremental
  <2> QED BY <2>2, <2>3 DEF OrdersAgree
<1>2. Now(AsOf[n]) = AsOf[n] /\ TextKey(AsOf[n]) = AsOf[n] + Resolution - 1
  BY <1>1, <1>o, WholeSecond
<1>3. AsOf[n] <= Now(AsOf[n + 1])
  <2>1. TextKey(AsOf[n]) < TextKey(AsOf[n + 1])
    BY CheckpointsInOrder
  <2> QED BY <2>1, <1>1, <1>o, SecondsInOrder
<1>4. ASSUME NEW e \in Events
      PROVE  /\ At(e) \in Nat /\ TextKey(At(e)) = At(e) + Resolution - 1
             /\ NewSince(e, n + 1) <=> At(e) > AsOf[n]
  <2>1. At(e) \in Nat
    BY DEF TypeOK, EventType, At
  <2>2. At(e) % Resolution = 0
    BY <1>o DEF At
  <2>3. TextKey(At(e)) = At(e) + Resolution - 1
    BY <2>1, <2>2, WholeSecond
  <2>4. (n + 1) - 1 = n
    OBVIOUS
  <2> QED BY <1>1, <1>2, <2>1, <2>3, <2>4 DEF NewSince
<1>5. \A e : e \in Eligible(n + 1) <=> /\ e \in Events /\ At(e) <= Now(AsOf[n + 1])
                                       /\ At(e) > AsOf[n]
  BY <1>4 DEF Eligible, Available
<1>6. /\ By(corpus, n) = {e \in Events : At(e) <= AsOf[n]}
      /\ By(corpus, n + 1) = {e \in Events : At(e) <= Now(AsOf[n + 1])}
  BY <1>2 DEF By, At
<1> QED BY <1>1, <1>n, <1>3, <1>4, <1>5, <1>6

-----------------------------------------------------------------------------
(* The invariant.                                                          *)

Basis == IF k = 0 THEN {} ELSE By(corpus, k)
Done == By(corpus, k) \ todo

\* S is what is kept of the events E, but for what the provider lost.
Holds(S, E) == S \subseteq Kept(corpus, E) /\ (drifts = 0 => S = Kept(corpus, E))

Ingesting ==
    /\ k > 0
    /\ todo \subseteq By(corpus, k)
    /\ \A d \in Done, f \in todo : TextKey(At(d)) <= TextKey(At(f))
    /\ Holds(store \union pending, Done)

Settled == pending = {} /\ Holds(store, Basis)

ReplayInv ==
    /\ <<corpus, setup>> \in Inputs
    /\ pc \in {"open", "ingest"} \/ Querying => CorpusValid
    /\ pc = "ingest" => Ingesting
    /\ pc \in {"start", "open"} \/ Querying => Settled
    /\ Querying => k > 0

\* A run keeps what it was given.
LEMMA InputKept == [Next]_vars => UNCHANGED <<corpus, setup>>
BY DEF Next, Step, vars, Refuse, Begin, OpenCheckpoint, TakeUpsert, Delete, DeleteUnsupported,
       Flush, AwaitReady, SnapshotBefore, Retrieve, SnapshotAfter, Answer, CloseCheckpoint,
       Finish, WriteTraces, WriteScores, Write, Close, WriteManifest, Raise, Drift

LEMMA ReplayInit == Init => ReplayInv
<1> SUFFICES ASSUME Init PROVE ReplayInv
  OBVIOUS
<1>1. <<corpus, setup>> \in Inputs
  <2>1. PICK input \in Inputs : corpus = input[1] /\ setup = input[2]
    BY DEF Init
  <2>2. input \in [Events -> EventType] \X SetupType
    BY ConstantsAssumption
  <2> QED BY <2>1, <2>2
<1> QED BY <1>1, KeptNothing DEF Init, ReplayInv, Querying, Settled, Holds, Basis

LEMMA OpenCheckpointReplays ==
    ASSUME OrdersAgree, TypeOK, ReplayInv, OpenCheckpoint
    PROVE  ReplayInv'
<1>1. /\ pc = "open" /\ pc' = "ingest" /\ k' = k + 1 /\ k \in Nat /\ k + 1 \in 1 .. Checkpoints
      /\ corpus' = corpus /\ setup' = setup /\ pending' = pending /\ drifts' = drifts /\ todo' = Eligible(k + 1)
      /\ store' = IF Incremental THEN store ELSE {}
  BY ConstantsAssumption DEF OpenCheckpoint, TypeOK
<1>2. <<corpus, setup>> \in Inputs /\ CorpusValid /\ CorpusValid' /\ pending = {} /\ Holds(store, Basis)
  BY <1>1 DEF ReplayInv, Settled, CorpusValid, At, Target, IsDelete
<1>3. todo' \subseteq By(corpus, k + 1)
  BY <1>1 DEF Eligible, Available, By, At
<1>4. /\ Holds(store', By(corpus, k + 1) \ todo')
      /\ \A d \in By(corpus, k + 1) \ todo', f \in todo' : TextKey(At(d)) <= TextKey(At(f))
  <2>1. CASE ~Incremental \/ k = 0
    <3>1. todo' = By(corpus, k + 1)
      BY <1>1, <2>1 DEF Eligible, Available, By, At
    <3>2. Holds(store', {})
      BY <1>1, <1>2, <2>1, KeptNothing DEF Holds, Basis
    <3>3. By(corpus, k + 1) \ todo' = {}
      BY <3>1
    <3> QED BY <3>2, <3>3
  <2>2. CASE Incremental /\ k # 0
    <3>1. k \in 1 .. Checkpoints
      BY <1>1, <2>2, ConstantsAssumption
    <3>2. Holds(store', By(corpus, k))
      BY <1>1, <1>2, <2>2 DEF Basis
    <3> QED BY <1>1, <1>2, <2>2, <3>1, <3>2, Increment
  <2> QED BY <2>1, <2>2
<1>5. Ingesting'
  <2>1. Done' = By(corpus, k + 1) \ todo'
    BY <1>1 DEF Done
  <2>2. (store \union pending)' = store'
    BY <1>1, <1>2
  <2>3. Holds(store \union pending, Done)'
    BY <1>1, <1>4, <2>1, <2>2 DEF Holds
  <2>4. \A d \in Done', f \in todo' : TextKey(At(d))' <= TextKey(At(f))'
    BY <1>1, <1>4, <2>1 DEF At
  <2>5. k' > 0 /\ todo' \subseteq By(corpus', k')
    BY <1>1, <1>3
  <2> QED BY <2>3, <2>4, <2>5 DEF Ingesting
<1> QED BY <1>1, <1>2, <1>5 DEF ReplayInv, Querying

LEMMA TakeUpsertReplays ==
    ASSUME TypeOK, ReplayInv, NEW e \in Events, TakeUpsert(e)
    PROVE  ReplayInv'
<1>1. /\ pc = "ingest" /\ pc' = pc /\ k' = k /\ UNCHANGED <<corpus, setup, drifts>>
      /\ store' = store /\ e \in todo /\ todo' = todo \ {e}
      /\ pending' = pending \union {e}
      /\ corpus[e].target = NoEvent
      /\ \A f \in todo \ {e} : Before(e, f)
  BY DEF TakeUpsert, First, IsDelete, Target, providerVars
<1>2. <<corpus, setup>> \in Inputs /\ CorpusValid /\ Ingesting
  BY <1>1 DEF ReplayInv
<1>3. corpus \in [Events -> EventType] /\ By(corpus, k) \in SUBSET Events /\ Resolution \in Nat \ {0}
  BY ConstantsAssumption DEF By, TypeOK
<1>h. \A f \in Events : At(f) \in Nat /\ TextKey(At(f)) \in Nat
  BY <1>3 DEF EventType, At, TextKey
<1>4. /\ Done' = Done \union {e} /\ Done \in SUBSET Events
      /\ Done' = By(corpus, k) \ todo' /\ todo \subseteq By(corpus, k)
  BY <1>1, <1>2, <1>3 DEF Done, Ingesting
<1>5. \A d \in Done : corpus[d].target # e
  <2> SUFFICES ASSUME NEW d \in Done, corpus[d].target = e PROVE FALSE
    OBVIOUS
  <2>1. corpus[d].target # NoEvent
    BY ConstantsAssumption
  <2>2. TextKey(At(e)) < TextKey(At(d))
    BY <1>2, <1>4, <2>1 DEF CorpusValid, IsDelete, Target
  <2>3. TextKey(At(d)) <= TextKey(At(e))
    BY <1>1, <1>2 DEF Ingesting
  <2> QED BY <2>2, <2>3, <1>h, <1>4
<1>6. Kept(corpus, Done') = Kept(corpus, Done) \union {e}
  BY <1>1, <1>3, <1>4, <1>5, KeptUpsert
<1>7. Holds(store \union pending, Done)'
  <2>1. (store \union pending)' = (store \union pending) \union {e}
    BY <1>1
  <2>2. Holds(store \union pending, Done)
    BY <1>2 DEF Ingesting
  <2> QED BY <1>1, <1>6, <2>1, <2>2 DEF Holds
<1>8. \A d \in Done', f \in todo' : TextKey(At(d))' <= TextKey(At(f))'
  <2> SUFFICES ASSUME NEW d \in Done', NEW f \in todo'
               PROVE  TextKey(At(d)) <= TextKey(At(f))
    BY <1>1 DEF At
  <2>1. CASE d = e
    BY <1>1, <1>h, <1>4, <1>3, <2>1 DEF Before
  <2>2. CASE d \in Done
    BY <1>1, <1>2, <2>2 DEF Ingesting
  <2> QED BY <1>4, <2>1, <2>2
<1>9. Ingesting'
  BY <1>1, <1>2, <1>4, <1>7, <1>8 DEF Ingesting
<1> QED BY <1>1, <1>2, <1>9 DEF ReplayInv, Querying, CorpusValid, At, Target, IsDelete

LEMMA DeleteReplays ==
    ASSUME TypeOK, ReplayInv, NEW e \in Events, Delete(e)
    PROVE  ReplayInv'
<1>1. /\ pc = "ingest" /\ pc' = pc /\ k' = k /\ UNCHANGED <<corpus, setup, drifts>>
      /\ e \in todo /\ todo' = todo \ {e} /\ pending = {} /\ pending' = {}
      /\ store' = store \ {corpus[e].target}
      /\ corpus[e].target # NoEvent
      /\ \A f \in todo \ {e} : Before(e, f)
  BY DEF Delete, First, IsDelete, Target
<1>2. <<corpus, setup>> \in Inputs /\ CorpusValid /\ Ingesting
  BY <1>1 DEF ReplayInv
<1>3. corpus \in [Events -> EventType] /\ By(corpus, k) \in SUBSET Events /\ Resolution \in Nat \ {0}
  BY ConstantsAssumption DEF By, TypeOK
<1>h. \A f \in Events : At(f) \in Nat /\ TextKey(At(f)) \in Nat
  BY <1>3 DEF EventType, At, TextKey
<1>4. /\ Done' = Done \union {e} /\ Done \in SUBSET Events
      /\ Done' = By(corpus, k) \ todo' /\ todo \subseteq By(corpus, k)
  BY <1>1, <1>2, <1>3 DEF Done, Ingesting
<1>6. Kept(corpus, Done') = Kept(corpus, Done) \ {corpus[e].target}
  BY <1>1, <1>3, <1>4, KeptDelete
<1>7. Holds(store \union pending, Done)'
  <2>1. (store \union pending)' = (store \union pending) \ {corpus[e].target}
    BY <1>1
  <2>2. Holds(store \union pending, Done)
    BY <1>2 DEF Ingesting
  <2> QED BY <1>1, <1>6, <2>1, <2>2 DEF Holds
<1>8. \A d \in Done', f \in todo' : TextKey(At(d))' <= TextKey(At(f))'
  <2> SUFFICES ASSUME NEW d \in Done', NEW f \in todo'
               PROVE  TextKey(At(d)) <= TextKey(At(f))
    BY <1>1 DEF At
  <2>1. CASE d = e
    BY <1>1, <1>h, <1>4, <1>3, <2>1 DEF Before
  <2>2. CASE d \in Done
    BY <1>1, <1>2, <2>2 DEF Ingesting
  <2> QED BY <1>4, <2>1, <2>2
<1>9. Ingesting'
  BY <1>1, <1>2, <1>4, <1>7, <1>8 DEF Ingesting
<1> QED BY <1>1, <1>2, <1>9 DEF ReplayInv, Querying, CorpusValid, At, Target, IsDelete

LEMMA StepReplays ==
    ASSUME OrdersAgree, TypeOK, ReplayInv, Next
    PROVE  ReplayInv'
<1>k. CorpusValid /\ corpus' = corpus => CorpusValid'
  BY DEF CorpusValid, At, Target, IsDelete
<1>1. CASE Refuse \/ Begin
  BY <1>1, <1>k DEF Refuse, Begin, ReplayInv, Querying, Settled, Holds, Basis, ingestVars,
                    providerVars
<1>2. CASE OpenCheckpoint
  BY <1>2, OpenCheckpointReplays
<1>3. CASE \E e \in Events : TakeUpsert(e) \/ Delete(e) \/ DeleteUnsupported(e)
  <2>1. ASSUME NEW e \in Events, DeleteUnsupported(e) PROVE ReplayInv'
    BY <2>1 DEF DeleteUnsupported, Invalidate, ReplayInv, Querying
  <2> QED BY <1>3, <2>1, TakeUpsertReplays, DeleteReplays
<1>4. CASE Flush
  <2>1. (store \union pending)' = store \union pending
    BY <1>4 DEF Flush
  <2>2. Ingesting'
    BY <1>4, <2>1 DEF Flush, ReplayInv, Ingesting, Holds, Done, At
  <2> QED BY <1>4, <1>k, <2>2 DEF Flush, ReplayInv, Querying
<1>5. CASE AwaitReady
  <2>1. /\ todo = {} /\ pending = {} /\ pc = "ingest" /\ pc' \in {"query", "close"}
        /\ UNCHANGED <<corpus, setup, k, ingestVars, providerVars>>
    BY <1>5 DEF AwaitReady, Invalidate
  <2>2. k > 0 /\ Holds(store \union pending, Done) /\ Done = By(corpus, k) /\ CorpusValid
    BY <2>1 DEF ReplayInv, Ingesting, Done
  <2>3. k # 0 /\ store \union pending = store
    BY <2>1, <2>2, ConstantsAssumption DEF TypeOK
  <2>4. Holds(store, Basis)
    BY <2>2, <2>3 DEF Basis
  <2>5. Settled'
    BY <2>1, <2>4 DEF Settled, Holds, Basis, ingestVars, providerVars
  <2> QED BY <1>k, <2>1, <2>2, <2>5 DEF ReplayInv, Querying
<1>6. CASE SnapshotBefore \/ Retrieve \/ SnapshotAfter
  BY <1>6, <1>k DEF SnapshotBefore, Retrieve, SnapshotAfter, Invalidate, ReplayInv, Querying,
              Settled, Holds, Basis, ingestVars, providerVars
<1>7. CASE (\E q \in Queries : Answer(q)) \/ CloseCheckpoint
  BY <1>7, <1>k DEF Answer, CloseCheckpoint, ReplayInv, Querying, Settled, Holds, Basis,
              ingestVars, providerVars
<1>8. CASE Finish \/ WriteTraces \/ WriteScores \/ Close \/ WriteManifest \/ Raise
  BY <1>8 DEF Finish, WriteTraces, WriteScores, Close, WriteManifest, Write, Raise, ReplayInv,
              Querying
<1>9. ASSUME NEW e \in Events, Drift(e) PROVE ReplayInv'
  <2>1. drifts' # 0 /\ store' \subseteq store
    BY <1>9 DEF Drift, TypeOK
  <2>2. pc = "ingest" => Ingesting'
    BY <1>9, <2>1 DEF Drift, ReplayInv, Ingesting, Holds, Done, ingestVars, At
  <2>3. Settled => Settled'
    BY <1>9, <2>1 DEF Drift, Settled, Holds, Basis, ingestVars
  <2> QED BY <1>9, <1>k, <2>2, <2>3 DEF Drift, ReplayInv, Querying
<1> QED BY <1>1, <1>2, <1>3, <1>4, <1>5, <1>6, <1>7, <1>8, <1>9 DEF Next, Step

LEMMA ReplayInvariant == ASSUME OrdersAgree PROVE Spec => []ReplayInv
<1>1. ReplayInv /\ UNCHANGED vars => ReplayInv'
  BY DEF vars, ingestVars, providerVars, queryVars, resultVars, ReplayInv, Querying, Ingesting,
         Settled, Holds, Basis, Done, CorpusValid, At, Target, IsDelete
<1>2. TypeOK /\ ReplayInv /\ [Next]_vars => ReplayInv'
  BY <1>1, StepReplays
<1> QED BY <1>2, ReplayInit, RunTypeCorrect, PTL DEF Spec

\* When a checkpoint's queries run, a provider that lost nothing holds exactly
\* the memory of that moment, for every corpus, checkpoint plan and clock
\* resolution, whatever exceptions and losses there may be
\* (run_ingestion, benchmark/lifecycle.py).
THEOREM RunStateIsReplay == ASSUME OrdersAgree PROVE Spec => []StateIsReplay
<1>1. TypeOK /\ ReplayInv => StateIsReplay
  BY ReplayIsKept DEF ReplayInv, StateIsReplay, Settled, Holds, Basis, TypeOK
<1> QED BY <1>1, ReplayInvariant, RunTypeCorrect, PTL

-----------------------------------------------------------------------------
(* Deletions.                                                              *)

DeletedIn(S) == {Target(d) : d \in {x \in S : IsDelete(x)}}

LEMMA DeletedByIsIn == ASSUME NEW n PROVE DeletedBy(n) = DeletedIn(By(corpus, n))
BY DEF DeletedBy, DeletedIn, Known, By, At

\* lifecycle_actions are the deletions gone through at this checkpoint.
DeletionsInv ==
    /\ pc = "ingest" => actions = DeletedIn(Done)
    /\ Querying => actions = DeletedIn(By(corpus, k))
    /\ \A r \in rows : r.deleted = DeletedIn(By(corpus, r.cp))

LEMMA DeletionsInit == Init => DeletionsInv
BY DEF Init, DeletionsInv, Querying

\* What a step that takes an event from todo makes of those gone through.
LEMMA OneMoreDone ==
    ASSUME TypeOK, ReplayInv, pc = "ingest", NEW e \in todo, todo' = todo \ {e},
           UNCHANGED <<corpus, k>>
    PROVE  /\ Done' = Done \union {e}
           /\ DeletedIn(Done)' = IF IsDelete(e) THEN DeletedIn(Done) \union {Target(e)}
                                               ELSE DeletedIn(Done)
<1>1. todo \subseteq By(corpus, k)
  BY DEF ReplayInv, Ingesting
<1>2. Done' = Done \union {e}
  BY <1>1 DEF Done
<1> QED BY <1>2 DEF DeletedIn, Target, IsDelete

LEMMA DeletionsStep ==
    ASSUME ~Incremental, TypeOK, ReplayInv, DeletionsInv, [Next]_vars
    PROVE  DeletionsInv'
<1> USE DEF DeletionsInv, Querying
<1>k. UNCHANGED corpus /\ UNCHANGED rows =>
          (\A r \in rows : r.deleted = DeletedIn(By(corpus, r.cp)))'
  BY DEF DeletedIn, Target, IsDelete
<1>1. CASE Refuse \/ Begin \/ CloseCheckpoint \/ Finish \/ Raise
  BY <1>1, <1>k DEF Refuse, Begin, CloseCheckpoint, Finish, Raise, resultVars
<1>2. CASE OpenCheckpoint
  <2>1. /\ pc' = "ingest" /\ actions' = {} /\ UNCHANGED <<corpus, rows>>
        /\ k' = k + 1 /\ todo' = Eligible(k + 1)
    BY <1>2 DEF OpenCheckpoint, resultVars
  <2>2. Done' = {}
    BY <2>1 DEF Done, By, Eligible, Available, At
  <2> QED BY <2>1, <2>2, <1>k DEF DeletedIn
<1>3. ASSUME NEW e \in Events, TakeUpsert(e) PROVE DeletionsInv'
  BY <1>3, <1>k, OneMoreDone DEF TakeUpsert, First, resultVars
<1>4. ASSUME NEW e \in Events, Delete(e) PROVE DeletionsInv'
  BY <1>4, <1>k, OneMoreDone DEF Delete, First, Deleted, resultVars
<1>5. ASSUME NEW e \in Events, DeleteUnsupported(e) PROVE DeletionsInv'
  BY <1>5, <1>k DEF DeleteUnsupported, Invalidate
<1>6. CASE Flush
  BY <1>6, <1>k DEF Flush, Done, DeletedIn, Target, IsDelete, resultVars
<1>7. CASE AwaitReady
  <2>1. /\ todo = {} /\ pc = "ingest" /\ pc' \in {"query", "close"}
        /\ UNCHANGED <<corpus, k, actions, rows>>
    BY <1>7 DEF AwaitReady, Invalidate, ingestVars
  <2>2. actions = DeletedIn(By(corpus, k))
    BY <2>1 DEF Done
  <2> QED BY <2>1, <2>2, <1>k DEF DeletedIn, Target, IsDelete
<1>8. CASE SnapshotBefore \/ Retrieve \/ SnapshotAfter
  BY <1>8, <1>k DEF SnapshotBefore, Retrieve, SnapshotAfter, Invalidate, DeletedIn, Target,
                    IsDelete, ingestVars, resultVars
<1>9. ASSUME NEW q \in Queries, Answer(q) PROVE DeletionsInv'
  <2>1. /\ rows' = rows \union {Row(q)} /\ pc = "answer" /\ pc' = "query"
        /\ UNCHANGED <<corpus, k, actions>>
    BY <1>9 DEF Answer, ingestVars
  <2>2. Row(q).cp = k /\ Row(q).deleted = actions
    BY DEF Row
  <2>3. actions = DeletedIn(By(corpus, k))
    BY <2>1
  <2> QED BY <2>1, <2>2, <2>3 DEF DeletedIn, Target, IsDelete
<1>10. CASE WriteTraces \/ WriteScores \/ Close \/ WriteManifest
  BY <1>10, <1>k DEF WriteTraces, WriteScores, Close, WriteManifest, Write, resultVars
<1>11. ASSUME NEW e \in Events, Drift(e) PROVE DeletionsInv'
  BY <1>11, <1>k DEF Drift, Done, DeletedIn, Target, IsDelete, ingestVars, resultVars
<1>12. CASE UNCHANGED vars
  BY <1>12, <1>k DEF vars, Done, DeletedIn, Target, IsDelete, ingestVars, resultVars
<1> QED BY <1>1, <1>2, <1>3, <1>4, <1>5, <1>6, <1>7, <1>8, <1>9, <1>10, <1>11, <1>12
        DEF Next, Step

\* When the provider is reset at each checkpoint, what a row is scored against
\* as deleted is all that was deleted by its checkpoint (lifecycle_actions).
\* An incremental run forgets the deletions of earlier checkpoints.
THEOREM RunDeletionsRemembered == ASSUME OrdersAgree PROVE Spec => []DeletionsRemembered
<1>1. (Incremental \/ DeletionsInv) => DeletionsRemembered
  BY DeletedByIsIn DEF DeletionsInv, DeletionsRemembered
<1>2. Spec => []ReplayInv
  BY ReplayInvariant
<1>3. TypeOK /\ ReplayInv /\ (Incremental \/ DeletionsInv) /\ [Next]_vars
         => (Incremental \/ DeletionsInv)'
  BY DeletionsStep, InputKept DEF Incremental
<1> QED BY <1>1, <1>2, <1>3, DeletionsInit, RunTypeCorrect, PTL DEF Spec

NoDeletes(S) == \A d \in S : ~IsDelete(d)

\* Without delete() there is no delete among the events gone through, be it at
\* this checkpoint or an earlier one.
UnfakedInv ==
    /\ \A n \in 1 .. Checkpoints :
          n < k \/ (n = k /\ (pc = "open" \/ Querying \/ status = "completed"))
             => NoDeletes(By(corpus, n))
    /\ pc = "ingest" => NoDeletes(Done)
    /\ pc = "start" => k = 0

LEMMA UnfakedInit == Init => UnfakedInv
BY ConstantsAssumption DEF Init, UnfakedInv, Querying

LEMMA OpenUnfaked ==
    ASSUME OrdersAgree, TypeOK, ReplayInv, UnfakedInv, OpenCheckpoint
    PROVE  NoDeletes(By(corpus, k + 1) \ Eligible(k + 1))
<1>1. pc = "open" /\ k \in Nat /\ k + 1 \in 1 .. Checkpoints /\ Checkpoints \in Nat
  BY ConstantsAssumption DEF OpenCheckpoint, TypeOK
<1>2. CASE ~Incremental \/ k = 0
  <2>1. By(corpus, k + 1) = Eligible(k + 1)
    BY <1>1, <1>2 DEF Eligible, Available, By, At
  <2> QED BY <2>1 DEF NoDeletes
<1>3. CASE Incremental /\ k # 0
  <2>1. k \in 1 .. Checkpoints
    BY <1>1, <1>3
  <2>2. By(corpus, k + 1) \ Eligible(k + 1) = By(corpus, k)
    BY <1>1, <1>3, <2>1, Increment DEF ReplayInv
  <2> QED BY <1>1, <2>1, <2>2 DEF UnfakedInv
<1> QED BY <1>2, <1>3

LEMMA UnfakedStep ==
    ASSUME OrdersAgree, ~SupportsDelete, TypeOK, ReplayInv, FilesInv, UnfakedInv, [Next]_vars
    PROVE  UnfakedInv'
<1> USE DEF Querying
<1>k. UNCHANGED corpus => \A S : NoDeletes(S)' = NoDeletes(S)
  BY DEF NoDeletes, IsDelete, Target
<1>t. k \in Nat /\ Checkpoints \in Nat
  BY ConstantsAssumption DEF TypeOK
<1>1. CASE OpenCheckpoint
  <2>1. /\ k' = k + 1 /\ pc = "open" /\ pc' = "ingest" /\ UNCHANGED <<corpus, status>>
        /\ todo' = Eligible(k + 1)
    BY <1>1 DEF OpenCheckpoint, resultVars
  <2>2. Done' = By(corpus, k + 1) \ Eligible(k + 1)
    BY <2>1 DEF Done
  <2>3. NoDeletes(Done)'
    BY <1>1, <2>1, <2>2, OpenUnfaked DEF NoDeletes, IsDelete, Target
  <2>4. status' # "completed"
    BY <2>1 DEF FilesInv, After
  <2>5. ASSUME NEW n \in 1 .. Checkpoints, n < k' PROVE NoDeletes(By(corpus, n))'
    BY <1>t, <2>1, <2>5 DEF UnfakedInv, NoDeletes, IsDelete, Target
  <2> QED BY <2>1, <2>3, <2>4, <2>5 DEF UnfakedInv
<1>2. ASSUME NEW e \in Events, TakeUpsert(e) PROVE UnfakedInv'
  <2>1. /\ UNCHANGED <<corpus, pc, k, status>> /\ pc = "ingest" /\ ~IsDelete(e)
        /\ e \in todo /\ todo' = todo \ {e}
    BY <1>2 DEF TakeUpsert, First, resultVars
  <2>2. Done' = Done \union {e}
    BY <2>1, OneMoreDone
  <2>3. NoDeletes(Done)'
    BY <2>1, <2>2 DEF UnfakedInv, NoDeletes, IsDelete, Target
  <2> QED BY <2>1, <2>3 DEF UnfakedInv, NoDeletes, IsDelete, Target
<1>3. ASSUME NEW e \in Events, Delete(e) \/ DeleteUnsupported(e) PROVE UnfakedInv'
  <2>1. /\ UNCHANGED <<corpus, k>> /\ pc' = "close" /\ status' = "invalid_invariant"
    BY <1>3 DEF Delete, DeleteUnsupported, Invalidate
  <2> QED BY <2>1 DEF UnfakedInv, NoDeletes, IsDelete, Target
<1>4. CASE AwaitReady
  <2>1. /\ UNCHANGED <<corpus, k>> /\ pc = "ingest" /\ todo = {}
        /\ pc' = "query" \/ (pc' = "close" /\ status' = "invalid_invariant")
    BY <1>4 DEF AwaitReady, Invalidate
  <2>2. Done = By(corpus, k)
    BY <2>1 DEF Done
  <2> QED BY <2>1, <2>2 DEF UnfakedInv, NoDeletes, IsDelete, Target
<1>5. CASE /\ UNCHANGED <<corpus, k, todo>>
           /\ pc' = "ingest" => pc = "ingest"
           /\ pc' = "start" => pc = "start"
           /\ (pc = "open" \/ Querying \/ status = "completed")' =>
                 pc = "open" \/ Querying \/ status = "completed" \/ k = 0
  <2>1. Done' = Done
    BY <1>5 DEF Done
  <2> QED BY <1>5, <1>t, <2>1 DEF UnfakedInv, NoDeletes, IsDelete, Target
<1>6. ASSUME \/ Refuse \/ Begin \/ Flush
             \/ SnapshotBefore \/ Retrieve \/ SnapshotAfter
             \/ (\E q \in Queries : Answer(q)) \/ CloseCheckpoint \/ Finish
      PROVE  UnfakedInv'
  BY <1>5, <1>6 DEF Refuse, Begin, Flush, SnapshotBefore, Retrieve, SnapshotAfter, Answer,
                    CloseCheckpoint, Finish, Invalidate, ingestVars, resultVars, UnfakedInv
<1>7. ASSUME \/ WriteTraces \/ WriteScores \/ Close \/ WriteManifest
             \/ Raise \/ (\E e \in Events : Drift(e)) \/ UNCHANGED vars
      PROVE  UnfakedInv'
  BY <1>5, <1>7 DEF WriteTraces, WriteScores, Close, WriteManifest, Write, Raise, Drift, vars,
                    ingestVars, resultVars
<1> QED BY <1>1, <1>2, <1>3, <1>4, <1>6, <1>7 DEF Next, Step

\* A provider that cannot delete never completes a run in which something had
\* to be deleted (CapabilityNotSupported, LifecycleError).
THEOREM RunNeverFaked == ASSUME OrdersAgree PROVE Spec => []NeverFaked
<1>1. TypeOK /\ ReplayInv /\ FilesInv /\ (SupportsDelete \/ UnfakedInv) /\ [Next]_vars
         => (SupportsDelete \/ UnfakedInv)'
  BY UnfakedStep, InputKept DEF SupportsDelete
<1>2. TypeOK /\ FilesInv /\ (SupportsDelete \/ UnfakedInv) => NeverFaked
  <2> SUFFICES ASSUME TypeOK, FilesInv, UnfakedInv, status = "completed",
                      NEW n \in 1 .. Checkpoints
               PROVE  DeletedBy(n) = {}
    BY DEF NeverFaked
  <2>1. n < k \/ n = k
    BY ConstantsAssumption DEF FilesInv
  <2>2. NoDeletes(By(corpus, n))
    BY <2>1 DEF UnfakedInv
  <2> QED BY <2>2, DeletedByIsIn DEF DeletedIn, NoDeletes
<1> QED BY <1>1, <1>2, UnfakedInit, RunTypeCorrect, ReplayInvariant, FilesInvariant, PTL DEF Spec

-----------------------------------------------------------------------------
(***************************************************************************)
(* Proofs about the rows of a baseline run: the run is a faithful run.     *)
(***************************************************************************)

Answered == {r.query : r \in rows}

\* Which queries have been answered, by where the run is.
Progress ==
    /\ pc = "start" => rows = {} /\ k = 0
    /\ pc = "open" => \A q \in Queries : q \in Answered <=> CheckpointOf[q] <= k
    /\ pc = "ingest" => \A q \in Queries : q \in Answered <=> CheckpointOf[q] < k
    /\ Querying =>
          /\ \A q \in Queries : q \in Answered \union queue <=> CheckpointOf[q] <= k
          /\ \A q \in queue : CheckpointOf[q] = k /\ q \notin Answered

\* What a row says of its query, the rows of the current checkpoint included.
RowOK(r) ==
    /\ r.cp = CheckpointOf[r.query]
    /\ r.cp <= k
    /\ r.evidence \subseteq Kept(corpus, By(corpus, r.cp))

RowsInv ==
    /\ pc \in {"start", "open", "ingest"} \/ Querying => status = "created"
    /\ pc \in {"traces", "scores"} => status = "completed"
    /\ pc \in {"close", "manifest", "done"} => status # "created"
    /\ Progress
    /\ \A r \in rows : RowOK(r)
    /\ pc \in {"check", "answer"} => got \subseteq Kept(corpus, By(corpus, k))

LEMMA RowsInit == Init => RowsInv
BY ConstantsAssumption DEF Init, RowsInv, Progress, Querying

\* A step that leaves k, rows and the corpus alone leaves the rows as they were.
LEMMA RowsKept ==
    ASSUME RowsInv, UNCHANGED <<corpus, rows>>, k' \in {k, k + 1}, TypeOK
    PROVE  (\A r \in rows : RowOK(r))' /\ Answered' = Answered
<1>1. \A r \in rows : r.cp \in Nat
  BY ConstantsAssumption DEF TypeOK, RowType
<1>2. k \in Nat
  BY ConstantsAssumption DEF TypeOK
<1>3. ASSUME NEW r \in rows PROVE RowOK(r)'
  BY <1>1, <1>2 DEF RowsInv, RowOK
<1> QED BY <1>3 DEF Answered

LEMMA AnswerRows ==
    ASSUME TypeOK, ReplayInv, RowsInv, NEW q \in Queries, Answer(q)
    PROVE  /\ RowsInv' /\ CheckpointOf[q] = k /\ q \notin Answered
           /\ \A p \in Answered : CheckpointOf[p] <= k
           /\ got \subseteq Kept(corpus, By(corpus, k))
<1>1. /\ pc = "answer" /\ pc' = "query" /\ q \in queue /\ queue' = queue \ {q}
      /\ rows' = rows \union {Row(q)} /\ UNCHANGED <<corpus, k, status>>
  BY DEF Answer, Current
<1>2. /\ Row(q).query = q /\ Row(q).cp = k /\ Row(q).evidence = got
  BY DEF Row
<1>3. Answered' = Answered \union {q}
  BY <1>1, <1>2 DEF Answered
<1>4. k \in Nat
  BY ConstantsAssumption DEF TypeOK
<1>5. /\ \A p \in Queries : p \in Answered \union queue <=> CheckpointOf[p] <= k
      /\ \A p \in queue : CheckpointOf[p] = k /\ p \notin Answered
      /\ got \subseteq Kept(corpus, By(corpus, k))
  BY <1>1 DEF RowsInv, Progress, Querying
<1>6. ASSUME NEW r, r = Row(q) PROVE RowOK(r)'
  BY <1>1, <1>2, <1>4, <1>5, <1>6 DEF RowOK
<1>7. ASSUME NEW r \in rows PROVE RowOK(r)'
  BY <1>1 DEF RowsInv, RowOK
<1>a. (\A r \in rows : RowOK(r))'
  BY <1>1, <1>6, <1>7
<1>8. Answered \subseteq Queries
  BY DEF TypeOK, RowType, Answered
<1>9. Progress'
  BY <1>1, <1>3, <1>5 DEF Progress, Querying
<1>10. RowsInv'
  BY <1>1, <1>a, <1>9 DEF RowsInv, Querying
<1> QED BY <1>5, <1>8, <1>10, <1>1

LEMMA StepRows ==
    ASSUME TypeOK, ReplayInv, RowsInv, [Next]_vars
    PROVE  RowsInv'
<1>k. k \in Nat /\ Checkpoints \in Nat /\ CheckpointOf \in [Queries -> 1 .. Checkpoints]
      /\ \A q \in Queries : CheckpointOf[q] \in Nat
  BY ConstantsAssumption DEF TypeOK
<1>1. CASE Refuse \/ Begin
  BY <1>1, <1>k DEF Refuse, Begin, RowsInv, RowOK, Progress, Querying, Answered, queryVars,
                    resultVars
<1>2. CASE OpenCheckpoint
  <2>1. /\ pc = "open" /\ pc' = "ingest" /\ k' = k + 1 /\ UNCHANGED <<corpus, rows, status>>
    BY <1>2 DEF OpenCheckpoint, resultVars
  <2>2. (\A r \in rows : RowOK(r))' /\ Answered' = Answered
    BY <2>1, RowsKept
  <2>3. Progress'
    BY <2>1, <2>2, <1>k DEF RowsInv, Progress, Querying
  <2> QED BY <2>1, <2>2, <2>3 DEF RowsInv, Querying
<1>3. ASSUME NEW e \in Events, TakeUpsert(e) \/ Delete(e) \/ DeleteUnsupported(e)
      PROVE  RowsInv'
  BY <1>3 DEF TakeUpsert, Delete, DeleteUnsupported, Invalidate, RowsInv, RowOK, Progress,
              Querying, Answered, queryVars, resultVars
<1>4. CASE Flush
  BY <1>4 DEF Flush, RowsInv, RowOK, Progress, Querying, Answered, queryVars, resultVars
<1>5. CASE AwaitReady
  <2>1. /\ pc = "ingest" /\ UNCHANGED <<corpus, k, rows, got>>
        /\ \/ /\ pc' = "query" /\ queue' = {q \in Queries : CheckpointOf[q] = k}
              /\ status' = status
           \/ pc' = "close" /\ status' = "invalid_invariant"
    BY <1>5 DEF AwaitReady, Invalidate
  <2>2. (\A r \in rows : RowOK(r))' /\ Answered' = Answered
    BY <2>1, RowsKept
  <2>3. Progress'
    BY <2>1, <2>2, <1>k DEF RowsInv, Progress, Querying
  <2> QED BY <2>1, <2>2, <2>3 DEF RowsInv, Querying
<1>6. CASE SnapshotBefore \/ SnapshotAfter
  BY <1>6 DEF SnapshotBefore, SnapshotAfter, Invalidate, RowsInv, RowOK, Progress, Querying,
              Answered, queryVars, resultVars
<1>7. CASE Retrieve
  <2>1. got' \subseteq store /\ pc = "retrieve" /\ pc' = "check" /\ k > 0
        /\ UNCHANGED <<corpus, k, rows, queue, status>>
    BY <1>7 DEF Retrieve, ReplayInv, Querying, resultVars
  <2>2. store \subseteq Kept(corpus, By(corpus, k))
    BY <2>1, <1>k DEF ReplayInv, Querying, Settled, Holds, Basis
  <2> QED BY <2>1, <2>2 DEF RowsInv, RowOK, Progress, Querying, Answered
<1>8. ASSUME NEW q \in Queries, Answer(q) PROVE RowsInv'
  BY <1>8, AnswerRows
<1>9. CASE CloseCheckpoint
  BY <1>9 DEF CloseCheckpoint, RowsInv, RowOK, Progress, Querying, Answered, queryVars,
              resultVars
<1>10. CASE Finish \/ WriteTraces \/ WriteScores \/ Close \/ WriteManifest \/ Raise
  BY <1>10 DEF Finish, WriteTraces, WriteScores, Close, WriteManifest, Write, Raise, RowsInv,
               RowOK, Progress, Querying, queryVars, resultVars
<1>11. ASSUME NEW e \in Events, Drift(e) PROVE RowsInv'
  BY <1>11 DEF Drift, RowsInv, RowOK, Progress, Querying, Answered, queryVars, resultVars
<1>12. CASE UNCHANGED vars
  BY <1>12 DEF vars, RowsInv, RowOK, Progress, Querying, Answered, queryVars, resultVars
<1> QED BY <1>1, <1>2, <1>3, <1>4, <1>5, <1>6, <1>7, <1>8, <1>9, <1>10, <1>11, <1>12
        DEF Next, Step

LEMMA RowsInvariant == ASSUME OrdersAgree PROVE Spec => [](TypeOK /\ ReplayInv /\ RowsInv)
BY RowsInit, StepRows, RunTypeCorrect, ReplayInvariant, PTL DEF Spec

-----------------------------------------------------------------------------
(* Refinement of FaithfulRun.                                              *)

FMemory == [n \in 1 .. Checkpoints |-> Replay(n)]
FAnswers == {[query |-> r.query, evidence |-> r.evidence] : r \in rows}

LEMMA MemoryKept == UNCHANGED corpus => UNCHANGED FMemory
BY DEF FMemory, Replay, Known, DeletedBy, At, Target, IsDelete

LEMMA FaithfulAnswered == Faithful!Answered = Answered
<1>1. Faithful!Answered = {a.query : a \in FAnswers}
  BY DEF Faithful!Answered, FAnswers
<1>2. ASSUME NEW q, q \in {a.query : a \in FAnswers} PROVE q \in Answered
  <2>1. PICK a \in FAnswers : q = a.query
    BY <1>2
  <2>2. PICK r \in rows : a = [query |-> r.query, evidence |-> r.evidence]
    BY DEF FAnswers
  <2> QED BY <2>1, <2>2 DEF Answered
<1>3. ASSUME NEW q, q \in Answered PROVE q \in {a.query : a \in FAnswers}
  <2>1. PICK r \in rows : q = r.query
    BY <1>3 DEF Answered
  <2>2. [query |-> r.query, evidence |-> r.evidence] \in FAnswers
    BY DEF FAnswers
  <2>3. [query |-> r.query, evidence |-> r.evidence].query = q
    BY <2>1
  <2> QED BY <2>2, <2>3
<1> QED BY <1>1, <1>2, <1>3

LEMMA FaithfulStep ==
    ASSUME TypeOK, ReplayInv, RowsInv, [Next]_vars
    PROVE  [Faithful!Next]_(Faithful!vars)
<1>k. k \in Nat /\ Checkpoints \in Nat /\ CheckpointOf \in [Queries -> 1 .. Checkpoints]
  BY ConstantsAssumption DEF TypeOK
<1>m. corpus' = corpus
  BY InputKept
<1>u. UNCHANGED FMemory
  BY <1>m, MemoryKept
<1>s. UNCHANGED <<rows, Verdict>> => UNCHANGED Faithful!vars
  BY <1>u DEF Faithful!vars, FMemory
<1>a. UNCHANGED rows /\ Verdict = "running" /\ Verdict' = "abandoned" => Faithful!Next
  BY <1>u DEF Faithful!Next, Faithful!Abandon, FMemory
<1>1. CASE Refuse
  BY <1>1, <1>a DEF Refuse, Verdict, RowsInv
<1>2. CASE Begin \/ OpenCheckpoint \/ Flush \/ Retrieve \/ CloseCheckpoint \/ Close
  BY <1>2, <1>s DEF Begin, OpenCheckpoint, Flush, Retrieve, CloseCheckpoint, Close, Verdict,
                    resultVars
<1>3. ASSUME NEW e \in Events, TakeUpsert(e) \/ Delete(e)
      PROVE  [Faithful!Next]_(Faithful!vars)
  BY <1>3, <1>s DEF TakeUpsert, Delete, Verdict, resultVars
<1>4. ASSUME NEW e \in Events, DeleteUnsupported(e)
      PROVE  [Faithful!Next]_(Faithful!vars)
  BY <1>4, <1>a DEF DeleteUnsupported, Invalidate, Verdict, RowsInv
<1>5. CASE AwaitReady \/ SnapshotBefore \/ SnapshotAfter
  <2>1. /\ UNCHANGED rows /\ status = "created" /\ pc # "failed"
        /\ \/ status' = status /\ pc' # "failed"
           \/ status' = "invalid_invariant" /\ pc' = "close"
    BY <1>5 DEF AwaitReady, SnapshotBefore, SnapshotAfter, Invalidate, RowsInv, Querying
  <2> QED BY <2>1, <1>a, <1>s DEF Verdict
<1>6. ASSUME NEW q \in Queries, Answer(q)
      PROVE  [Faithful!Next]_(Faithful!vars)
  <2>1. /\ CheckpointOf[q] = k /\ q \notin Answered /\ \A p \in Answered : CheckpointOf[p] <= k
        /\ got \subseteq Kept(corpus, By(corpus, k))
    BY <1>6, AnswerRows
  <2>2. k \in 1 .. Checkpoints
    BY <2>1, <1>k
  <2>3. FMemory[CheckpointOf[q]] = Replay(k) /\ got \subseteq Replay(k)
    BY <2>1, <2>2, ReplayIsKept DEF FMemory
  <2>4. FAnswers' = FAnswers \union {[query |-> q, evidence |-> got]}
    <3>1. rows' = rows \union {Row(q)} /\ Row(q).query = q /\ Row(q).evidence = got
      BY <1>6 DEF Answer, Row
    <3> QED BY <3>1 DEF FAnswers
  <2>5. Verdict = "running" /\ UNCHANGED Verdict
    BY <1>6 DEF Answer, Verdict, RowsInv, Querying
  <2>6. Faithful!Answer(q)
    <3>1. got \in SUBSET FMemory[CheckpointOf[q]]
      BY <2>3
    <3>2. \E evidence \in SUBSET FMemory[CheckpointOf[q]] :
             FAnswers' = FAnswers \union {[query |-> q, evidence |-> evidence]}
      BY <2>4, <3>1
    <3>3. Verdict = "running" /\ q \notin Faithful!Answered
          /\ \A p \in Faithful!Answered : CheckpointOf[p] <= CheckpointOf[q]
      BY <2>1, <2>5, FaithfulAnswered
    <3> QED BY <3>2, <3>3, <2>5, <1>u DEF Faithful!Answer, FMemory, FAnswers
  <2> QED BY <2>6 DEF Faithful!Next
<1>7. CASE Finish
  <2>1. /\ pc = "open" /\ k = Checkpoints /\ pc' = "traces" /\ status' = "completed"
        /\ UNCHANGED rows
    BY <1>7 DEF Finish, LastCheckpoint
  <2>2. Answered = Queries
    <3>1. \A q \in Queries : q \in Answered
      BY <2>1, <1>k DEF RowsInv, Progress
    <3>2. Answered \subseteq Queries
      BY DEF TypeOK, RowType, Answered
    <3> QED BY <3>1, <3>2
  <2>3. Verdict = "running" /\ Verdict' = "completed"
    BY <2>1 DEF Verdict, RowsInv
  <2>4. Faithful!Complete
    BY <2>1, <2>2, <2>3, <1>u, FaithfulAnswered DEF Faithful!Complete, FMemory
  <2> QED BY <2>4 DEF Faithful!Next
<1>8. CASE WriteTraces \/ WriteScores \/ WriteManifest
  BY <1>8, <1>s DEF WriteTraces, WriteScores, WriteManifest, Write, Verdict, RowsInv
<1>9. CASE Raise
  <2>1. UNCHANGED <<rows, status>> /\ pc # "failed" /\ pc' = "failed"
    BY <1>9 DEF Raise, Ended, resultVars
  <2> QED BY <2>1, <1>a, <1>s DEF Verdict
<1>10. ASSUME NEW e \in Events, Drift(e)
       PROVE  [Faithful!Next]_(Faithful!vars)
  BY <1>10, <1>s DEF Drift, Verdict, resultVars
<1>11. CASE UNCHANGED vars
  BY <1>11, <1>s DEF vars, Verdict, resultVars
<1> QED BY <1>1, <1>2, <1>3, <1>4, <1>5, <1>6, <1>7, <1>8, <1>9, <1>10, <1>11 DEF Next, Step

\* The run is a faithful run: its queries are answered once each, checkpoint by
\* checkpoint, from nothing but the memory of their checkpoint, and all of
\* them if it completes (run_baseline, _run_query).
THEOREM RunIsFaithful == ASSUME OrdersAgree PROVE Spec => FaithfulRunSpec
<1>1. Init => Faithful!Init
  BY ConstantsAssumption
     DEF Init, Faithful!Init, Replay, Known, Verdict
<1> QED BY <1>1, FaithfulStep, RowsInvariant, PTL DEF Spec, FaithfulRunSpec, Faithful!Spec
=============================================================================
