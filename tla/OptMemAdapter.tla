---------------------------- MODULE OptMemAdapter ---------------------------
(***************************************************************************)
(* providers/optmem/adapter.py.  An append-only log under data_dir, read   *)
(* and written by the `memo` command.  The identity of a memory is its     *)
(* line in the log, so that the log's order is part of the state.          *)
(* filtering is FALSE in the product-native mode.                          *)
(***************************************************************************)
EXTENDS AdapterState

CONSTANT TooLong   \* events whose line exceeds the 280 bytes of an entry

Reset(a) ==
    {Returned([a EXCEPT !.store = {}, !.listed = {}], {}),
     RaisedFrom(a),                                        \* rmtree
     RaisedFrom([a EXCEPT !.store = {}])}                  \* memo init

New(a) == Reset([a EXCEPT !.listed = {}])

(* The lines S appends, in (available_at, event_id) order.                 *)
Lines(a, S) ==
    {<<e, Cardinality(a.store) + Cardinality({f \in S : f <= e})>> : e \in S}

(* A line that is too long ends the batch before anything is imported; an  *)
(* import that fails may have appended the first lines.                    *)
Ingest(a, batch) ==
    LET fresh == batch \ a.listed
        imported(S) == [a EXCEPT !.store = @ \cup Lines(a, S)]
        prefixes == {{f \in fresh : f < e} : e \in fresh}
    IN  IF fresh = {} THEN {Returned(a, 0)}
        ELSE IF fresh \cap TooLong # {} THEN {Refused(a)}
        ELSE {Returned([imported(fresh) EXCEPT !.listed = @ \cup fresh], Cardinality(fresh))}
             \cup {RaisedFrom(imported(S)) : S \in prefixes}

AwaitReady(a) == {Returned(a, {})}

(* CapabilityNotSupported.                                                 *)
Delete(a, e) == {Refused(a)}

(* A recall that fails answers nothing, one that times out raises.         *)
Retrieve(a, q, filtering) ==
    {Returned(a, hits \cap a.listed \cap (IF filtering THEN Visible[q] ELSE Events)) :
        hits \in SUBSET Stored(a)}
    \cup {RaisedFrom(a)}

(* The hash covers the list and the bytes of LOG.txt.                      *)
Hash(a) == <<a.listed, a.store>>
Snapshot(a) == [hash |-> Hash(a), events |-> a.listed]
Restore(a, snap) == Then(Reset(a), LAMBDA b : Ingest(b, snap.events))
Export(a) == [events |-> a.listed, keys |-> {}]
ImportData(a, data) == Then(Reset(a), LAMBDA b : Ingest(b, data.events))
=============================================================================
