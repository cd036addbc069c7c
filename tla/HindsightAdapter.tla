-------------------------- MODULE HindsightAdapter --------------------------
(***************************************************************************)
(* providers/hindsight/adapter.py.  The memories lie in a bank of the      *)
(* Hindsight server whose name is derived from data_dir, so that a later   *)
(* adapter object on the same directory finds the same bank.  A memory is  *)
(* the document of one event (identity 0).                                 *)
(***************************************************************************)
EXTENDS AdapterState

Documents(S) == S \X {0}

(* The constructor only makes sure that the bank exists (_ensure_bank).    *)
New(a) == LET b == [a EXCEPT !.listed = {}] IN {Returned(b, {}), RaisedFrom(b)}

\* Mutant: the bank is ensured, never deleted.
ResetKeepsBank(a) == New(a)

(* A refused DELETE of the bank is swallowed; an unreachable server is     *)
(* not, and _ensure_bank may fail before the lists are cleared.            *)
Reset(a) ==
    LET gone == [a EXCEPT !.store = {}]
    IN  {Returned([b EXCEPT !.listed = {}], {}) : b \in {gone, Failing(a)}}
        \cup {RaisedFrom(b) : b \in {gone, a}}

Ingest(a, batch) ==
    LET fresh == batch \ a.listed
        retained(S) == [a EXCEPT !.store = @ \cup Documents(S)]
    IN  IF fresh = {} THEN {Returned(a, 0)}
        ELSE {Returned([retained(fresh) EXCEPT !.listed = @ \cup fresh], Cardinality(fresh))}
             \cup {RaisedFrom(retained(S)) : S \in SUBSET fresh}

AwaitReady(a) == {Returned(a, {}), RaisedFrom(a)}

Delete(a, e) ==
    LET gone == [a EXCEPT !.store = @ \ Documents({e})]
    IN  IF e \notin a.listed THEN {Returned(a, FALSE)}
        ELSE {Returned([gone EXCEPT !.listed = @ \ {e}], TRUE)}
             \cup {RaisedFrom(b) : b \in {a, gone}}

\* Mutant: every document of the bank, listed or not.
RetrieveUnlisted(a, q) ==
    {Returned(a, hits \cap Visible[q]) : hits \in SUBSET Stored(a)}
Retrieve(a, q) ==
    {Returned(a, hits \cap a.listed \cap Visible[q]) : hits \in SUBSET Stored(a)}
    \cup {RaisedFrom(a)}

Hash(a) == <<a.listed>>
Snapshot(a) == [hash |-> Hash(a), events |-> a.listed]
Restore(a, snap) == Then(Reset(a), LAMBDA b : Ingest(b, snap.events))
Export(a) == [events |-> a.listed, keys |-> {}]
ImportData(a, data) == Then(Reset(a), LAMBDA b : Ingest(b, data.events))
=============================================================================
