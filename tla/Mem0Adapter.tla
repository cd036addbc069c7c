---------------------------- MODULE Mem0Adapter -----------------------------
(***************************************************************************)
(* providers/mem0/adapter.py.  The Mem0 store lies under data_dir and      *)
(* outlives the adapter object; the object holds the list of events, the   *)
(* keys under which memories can be deleted, and a lazily opened Memory.   *)
(* infer is TRUE on the native track (native_llm given).                   *)
(*                                                                         *)
(* Bounds: one event of a batch meets a failure, the others store at once; *)
(* inference keeps no fact of an event or two.                             *)
(***************************************************************************)
EXTENDS AdapterState

Opened(a) == [a EXCEPT !.open = TRUE]                 \* _memory_instance

(* Mem0 is asked to clear its store only through an open Memory, and a     *)
(* failure of that call is swallowed.  The directories are made before the *)
(* lists are emptied, the registry file is written after; either may fail. *)
Reset(a) ==
    LET closed(b) == [b EXCEPT !.open = FALSE]
        emptied(b) == [b EXCEPT !.listed = {}, !.keys = {}, !.open = FALSE]
        asked == IF a.open THEN {[a EXCEPT !.store = {}], Failing(a)} ELSE {a}
    IN  {Returned(emptied(b), {}) : b \in asked}
        \cup {RaisedFrom(closed(b)) : b \in asked} \cup {RaisedFrom(emptied(b)) : b \in asked}

(* The constructor starts with no Memory and empty lists, and then resets. *)
New(a) == Reset([a EXCEPT !.listed = {}, !.keys = {}, !.open = FALSE])

(* The two calls of add for one event: what a failed first call left       *)
(* behind, what the answered call stored, whether one was answered.        *)
Adds(infer) ==
    LET kept == IF infer THEN {0, 2} ELSE {1}
    IN  [left : {0}, kept : kept, answered : {TRUE}, faults : {0}]
        \cup [left : 0 .. 1, kept : kept, answered : {TRUE}, faults : {1}]
        \cup [left : 0 .. 1, kept : {0}, answered : {FALSE}, faults : {2}]

(* The store gains S and the list of keys K; identities are spent.         *)
Added(a, S, K) ==
    [Opened(a) EXCEPT !.store = @ \cup S, !.keys = @ \cup K, !.made = @ + 3]

Plain(a, S) == {<<e, a.made + 1>> : e \in S}           \* one memory of each event
Numbered(a, e, I) == {<<e, a.made + i>> : i \in I}

(* All of the batch was sent and is listed: event e met the failures add.  *)
Sent(a, fresh, e, add) ==
    LET others == Plain(a, fresh \ {e})
        stored == others \cup Numbered(a, e, 1 .. (add.left + add.kept))
        keyed == others \cup Numbered(a, e, (add.left + 1) .. (add.left + add.kept))
    IN  [Added(a, stored, keyed) EXCEPT !.listed = @ \cup fresh, !.faults = @ + add.faults]

(* infer=False and an answer without exactly one id: the batch ends        *)
(* unlisted, after the events S.  The registry file is written last.       *)
CutShort(a, S) == Added(a, Plain(a, S), Plain(a, S))

Ingest(a, batch, infer) ==
    LET fresh == batch \ a.listed
        count(add) == Cardinality(fresh) - (IF add.answered THEN 0 ELSE 1)
    IN  IF fresh = {} THEN {Returned(a, 0)}
        ELSE {Returned(Sent(a, fresh, e, add), count(add)) : e \in fresh, add \in Adds(infer)}
             \cup {RaisedFrom(Sent(a, fresh, e, add)) : e \in fresh, add \in Adds(infer)}
             \cup {RaisedFrom(CutShort(a, S)) :
                      S \in IF infer THEN {} ELSE (SUBSET fresh) \ {fresh}}
             \cup {RaisedFrom(a)}                          \* Memory cannot be opened

AwaitReady(a) == {Returned(Opened(a), {}), RaisedFrom(a)}

KeysOf(a, e) == {k \in a.keys : k[1] = e}

(* Without a key nothing is done; "not found" counts as deleted; any other *)
(* error, the registry file's among them, leaves the call with some or all *)
(* memories already gone.                                                  *)
Delete(a, e) ==
    LET without(D) == [Opened(a) EXCEPT !.store = @ \ D, !.keys = @ \ D]
    IN  IF KeysOf(a, e) = {} THEN {Returned(a, FALSE)}
        ELSE {Returned([without(KeysOf(a, e)) EXCEPT !.listed = @ \ {e}], TRUE)}
             \cup {RaisedFrom(without(D)) : D \in SUBSET KeysOf(a, e)}

(* Of what the search returns, only listed events the query may see.       *)
Retrieve(a, q) ==
    {Returned(Opened(a), hits \cap a.listed \cap Visible[q]) : hits \in SUBSET Stored(a)}
    \cup {RaisedFrom(Opened(a))}

Hash(a) == <<a.listed>>
Snapshot(a) == [hash |-> Hash(a), events |-> a.listed]
Restore(a, snap, infer) == Then(Reset(a), LAMBDA b : Ingest(b, snap.events, infer))
Export(a) == [events |-> a.listed, keys |-> a.keys]

(* The exported keys replace those the ingest has just made.               *)
ImportData(a, data, infer) ==
    {IF r.raised \/ data.keys = {} THEN r
     ELSE Returned([r.a EXCEPT !.keys = data.keys], r.value) :
        r \in Then(Reset(a), LAMBDA b : Ingest(b, data.events, infer))}

Restart(a) == {Returned(Opened(a), {}), RaisedFrom([a EXCEPT !.open = FALSE])}
Cleanup(a) == {Returned([a EXCEPT !.open = FALSE], {})}
=============================================================================
