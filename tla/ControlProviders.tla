-------------------------- MODULE ControlProviders --------------------------
(***************************************************************************)
(* The controls: providers/full_context.py and random_retrieval.py (both   *)
(* a list of events, differing in what they answer), no_memory.py and      *)
(* oracle.py (whose list has no part in the answer).                       *)
(***************************************************************************)
EXTENDS AdapterState

CONSTANTS SampleSize,   \* k of the random control
          Gold          \* Gold[q]: the gold events of the query

ListNew(a) == {Returned([a EXCEPT !.listed = {}], {})}
ListReset(a) == {Returned([a EXCEPT !.listed = {}], {})}
ListIngest(a, batch) ==
    {Returned([a EXCEPT !.listed = @ \cup batch], Cardinality(batch \ a.listed))}
ListDelete(a, e) == {Returned([a EXCEPT !.listed = @ \ {e}], e \in a.listed)}

(* The full context is every listed event the query may see; the random    *)
(* control a sample of SampleSize of them, or all when there are fewer.    *)
Eligible(a, q) == a.listed \cap Visible[q]
FullRetrieve(a, q) == {Returned(a, Eligible(a, q))}
RandomRetrieve(a, q) ==
    LET size == IF Cardinality(Eligible(a, q)) < SampleSize
                THEN Cardinality(Eligible(a, q)) ELSE SampleSize
    IN  {Returned(a, S) : S \in {T \in SUBSET Eligible(a, q) : Cardinality(T) = size}}
ListSnapshot(a) == [hash |-> <<a.listed>>, events |-> a.listed]
ListRestore(a, snap) == Then(ListReset(a), LAMBDA b : ListIngest(b, snap.events))

-----------------------------------------------------------------------------
(* No-memory and oracle replace their list at every ingest, call every     *)
(* deletion done, and have one hash for every state.                       *)
FixedIngest(a, batch) == {Returned([a EXCEPT !.listed = batch], Cardinality(batch))}
FixedDelete(a, e) == {Returned([a EXCEPT !.listed = @ \ {e}], TRUE)}
NoMemoryRetrieve(a, q) == {Returned(a, {})}
FixedSnapshot(a) == [hash |-> <<>>, events |-> {}]
FixedRestore(a, snap) == ListReset(a)

(* The oracle answers from the ground truth: events already available.     *)
OracleRetrieve(a, q, available) == {Returned(a, Gold[q] \cap available)}
=============================================================================
