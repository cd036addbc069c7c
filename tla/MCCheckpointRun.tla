--------------------------- MODULE MCCheckpointRun ---------------------------
(* Small instances of a baseline run for TLC.                               *)
EXTENDS CheckpointRun

Upsert(t) == [at |-> t, target |-> NoEvent]
DeleteOf(e, t) == [at |-> t, target |-> e]

\* Two ticks to a second.  Every corpus, in the times given, of two upserts
\* and an event whose id is before theirs: a third upsert or a delete of one.
CorporaAt(times) ==
    {[e \in {1, 2, 3} |-> c[e]] :
        c \in {<<first, Upsert(a), Upsert(b)>> :
                 first \in {Upsert(t) : t \in times}
                             \union {DeleteOf(e, t) : e \in {2, 3}, t \in times},
                 a \in times, b \in times}}

Setup(incremental, deletes, hashesStore) ==
    [incremental |-> incremental, deletes |-> deletes, hashesStore |-> hashesStore]

\* The provider is reset at each checkpoint and hashes its list (Mem0,
\* Hindsight, gbrain, SQLite FTS); checkpoints are built on one another by a
\* provider that hashes what it searches (OptMem, the BM25 control), all times
\* on whole seconds; or the provider cannot delete.
AllInputs ==
    CorporaAt({2, 3, 4, 5}) \X {Setup(FALSE, TRUE, FALSE)}
        \union CorporaAt({0, 2, 4}) \X {Setup(TRUE, TRUE, TRUE), Setup(FALSE, FALSE, TRUE)}

ListHashed == CorporaAt({2}) \X {Setup(FALSE, TRUE, FALSE)}

ThreeEvents == {1, 2, 3}
TwoQueries == {1, 2}
OneEach == [q \in Queries |-> q]
ThreeQueries == {1, 2, 3}
TwoAtFirst == [q \in Queries |-> IF q = 3 THEN 2 ELSE 1]

\* The second checkpoint is on a fraction of a second.
FractionAsOf == <<2, 5>>
=============================================================================
