---------------------------- MODULE GBrainAdapter ---------------------------
(***************************************************************************)
(* providers/gbrain/adapter.py.  Three stores in a row: the page files of  *)
(* the brain, the git commit made of them, and the index that `gbrain      *)
(* sync` builds from the commit and `gbrain search` answers from.  All lie *)
(* in the home directory, which outlives the adapter object.  home is      *)
(* "bare" when the directory holds neither .gbrain nor gbrain.yml,         *)
(* "partial" when .gbrain is there without gbrain.yml, and "unsourced"     *)
(* when gbrain.yml is there and the brain not registered as its source.    *)
(***************************************************************************)
EXTENDS AdapterState

Pages(S) == S \X {0}
Vacant(a) == [a EXCEPT !.pages = {}, !.head = {}, !.store = {}, !.home = "none"]

\* Mutant: a failing set-up leaves the home in a state nothing looks for.
BootstrapUnknown(b) ==
    IF b.home \in {"ready", "unsourced"}
    THEN {Returned(b, {})}
    ELSE {Returned([b EXCEPT !.home = "ready", !.store = {}], {})}
         \cup {RaisedFrom([b EXCEPT !.home = "unlisted", !.store = {}])}

(* A partial home is renamed away; a missing one is initialised, and a     *)
(* failure leaves it bare (git), partial (init) or unsourced (sources), of *)
(* which the last is taken for a ready one the next time.                  *)
Bootstrap(b) ==
    IF b.home \in {"ready", "unsourced"}
    THEN {Returned(b, {})}
    ELSE {Returned([b EXCEPT !.home = "ready", !.store = {}], {})}
         \cup {RaisedFrom([b EXCEPT !.home = h, !.store = {}]) :
                  h \in {"bare", "partial", "unsourced"}}

\* Mutant: a partial home is taken for a bare one, which .gbrain makes fail.
EnsureInPlace(a) == IF a.home = "partial" THEN {Refused(a)} ELSE Bootstrap(a)

(* providers/gbrain/adapter.py names the trash after the clock,            *)
EnsureBrain(a) == Bootstrap(IF a.home = "partial" THEN Vacant(a) ELSE a)

(* providers/gbrain/local_ollama.py always the same: os.rename onto the    *)
(* trash of an earlier partial home fails.                                 *)
EnsureBrainOllama(a) ==
    IF a.home = "partial" /\ a.trash THEN {Refused(a)}
    ELSE Bootstrap(IF a.home = "partial" THEN [Vacant(a) EXCEPT !.trash = TRUE] ELSE a)

Ensure(a, ollama) == IF ollama THEN EnsureBrainOllama(a) ELSE EnsureBrain(a)

New(a, ollama) == Ensure([a EXCEPT !.listed = {}], ollama)

(* The list is brought up to date last, after commands that returned.      *)
ThenListed(r, L, v) == IF r.raised THEN r ELSE Returned([r.a EXCEPT !.listed = L], v)

(* The home is renamed to trash, or deleted when the rename fails.        *)
Reset(a, ollama) ==
    {ThenListed(r, {}, {}) : r \in Ensure(Vacant(a), ollama)}
    \cup (IF a.home = "none" THEN {}
          ELSE {RaisedFrom([a EXCEPT !.pages = kept]) : kept \in SUBSET a.pages})

(* _git_commit then sync: the commit holds the page files as they are, the *)
(* index what the commit holds; either command may fail.  What a sync does *)
(* that finds no source is not known: it may also index nothing.           *)
Committed(a) == [a EXCEPT !.head = a.pages]
Synced(a) == [a EXCEPT !.store = Pages(a.head)]
Indexed(a) == {Synced(a)} \cup (IF a.home = "unsourced" THEN {a} ELSE {})
\* Mutant: the index is left to a later sync.
CommitOnly(a) == {Returned(Committed(a), {}), RaisedFrom(a), RaisedFrom(Committed(a))}
CommitAndSync(a) ==
    {Returned(b, {}) : b \in Indexed(Committed(a))}
    \cup {RaisedFrom(a), RaisedFrom(Committed(a))}

Written(a, fresh) == [a EXCEPT !.pages = @ \cup fresh]
Unlinked(a, e) == [a EXCEPT !.pages = @ \ {e}]

(* The pages are written one after the other.                              *)
Ingest(a, batch) ==
    LET fresh == batch \ a.listed
    IN  IF fresh = {} THEN {Returned(a, 0)}
        ELSE {ThenListed(r, a.listed \cup fresh, Cardinality(fresh)) :
                 r \in CommitAndSync(Written(a, fresh))}
             \cup {RaisedFrom(Written(a, S)) : S \in (SUBSET fresh) \ {fresh}}

AwaitReady(a) == {Returned(a, {}), RaisedFrom(a)}

(* The page file decides, not the list.                                    *)
Delete(a, e) ==
    LET existed == e \in a.pages
        done == IF existed THEN CommitAndSync(Unlinked(a, e)) ELSE {Returned(a, {})}
    IN  {ThenListed(r, a.listed \ {e}, existed) : r \in done}

(* Each search that fails is passed over; one that times out raises.       *)
Retrieve(a, q) ==
    {Returned(a, hits \cap a.listed \cap Visible[q]) : hits \in SUBSET Stored(a)}
    \cup {RaisedFrom(a)}

Hash(a) == <<a.listed>>
Snapshot(a) == [hash |-> Hash(a), events |-> a.listed]
Restore(a, snap, ollama) == Then(Reset(a, ollama), LAMBDA b : Ingest(b, snap.events))
Export(a) == [events |-> a.listed, keys |-> {}]
ImportData(a, data, ollama) ==
    Then(Reset(a, ollama), LAMBDA b : Ingest(b, data.events))
Cleanup(a) == {Returned([a EXCEPT !.trash = t], {}) : t \in {FALSE, a.trash}}
=============================================================================
