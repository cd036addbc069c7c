-------------------------- MODULE LexicalProviders --------------------------
(***************************************************************************)
(* The lexical baselines of providers/bm25.py.  SqliteFts keeps its rows   *)
(* in a database file beside the list of events and answers from the rows  *)
(* alone; PureBm25 keeps the documents in memory (here: listed) with the   *)
(* document frequencies rebuilt from them.                                 *)
(***************************************************************************)
EXTENDS AdapterState

CONSTANT TopK      \* k, the longest answer

Rows(S) == S \X {0}
AtMostK(S) == {T \in SUBSET S : Cardinality(T) <= TopK}

(* The database file is replaced; unlinking or the schema may fail.        *)
FtsReset(a) ==
    LET gone == [a EXCEPT !.store = {}]
    IN  {Returned([gone EXCEPT !.listed = {}], {}), RaisedFrom(a), RaisedFrom(gone)}

FtsNew(a) == FtsReset([a EXCEPT !.listed = {}])

(* Rows are inserted one by one and committed at the end; the list grows   *)
(* with each insert, so that a failure leaves it ahead of the database.    *)
FtsIngest(a, batch) ==
    LET fresh == batch \ a.listed
    IN  {Returned([a EXCEPT !.store = @ \cup Rows(fresh), !.listed = @ \cup fresh],
                  Cardinality(fresh))}
        \cup {RaisedFrom([a EXCEPT !.listed = @ \cup S]) : S \in SUBSET fresh}

\* Mutants: the row goes and the list keeps the event, and the reverse.
FtsDeleteRow(a, e) ==
    {Returned([a EXCEPT !.store = @ \ Rows({e})], e \in Stored(a))}
FtsDeleteListed(a, e) ==
    {Returned([a EXCEPT !.listed = @ \ {e}], e \in Stored(a))}

(* The row decides, not the list.                                          *)
FtsDelete(a, e) ==
    IF e \notin Stored(a) THEN {Returned(a, FALSE)}
    ELSE {Returned([a EXCEPT !.store = @ \ Rows({e}), !.listed = @ \ {e}], TRUE),
          RaisedFrom(a)}

(* Rows matching all terms, or, when there are none, any; filtered by the  *)
(* query in SQL and cut at k.                                              *)
FtsSearch(a, q, matching) == AtMostK(matching \cap Stored(a) \cap Visible[q])
FtsRetrieve(a, q) ==
    {RaisedFrom(a)}
    \cup UNION {{Returned(a, rows) : rows \in FtsSearch(a, q, matching)} :
                   matching \in SUBSET Stored(a)}

FtsSnapshot(a) == [hash |-> <<a.listed>>, events |-> a.listed]
FtsRestore(a, snap) == Then(FtsReset(a), LAMBDA b : FtsIngest(b, snap.events))

-----------------------------------------------------------------------------
PureReset(a) == {Returned([a EXCEPT !.listed = {}], {})}
PureNew(a) == PureReset(a)
Rebuilt(a, docs, count) == {Returned([a EXCEPT !.listed = docs], count)}
PureIngest(a, batch) ==
    Rebuilt(a, a.listed \cup batch, Cardinality(batch \ a.listed))
PureDelete(a, e) == Rebuilt(a, a.listed \ {e}, e \in a.listed)

(* The documents the query may see that score above zero, the best k.      *)
PureRetrieve(a, q) ==
    {Returned(a, best) : best \in AtMostK(a.listed \cap Visible[q])}
PureSnapshot(a) == [hash |-> <<a.listed>>, events |-> a.listed]
PureRestore(a, snap) == Then(PureReset(a), LAMBDA b : PureIngest(b, snap.events))
=============================================================================
