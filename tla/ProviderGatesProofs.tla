------------------------- MODULE ProviderGatesProofs --------------------------
(* Proofs about ProviderGates, for any corpus, any products and surroundings *)
(* and any number of failures.                                             *)
EXTENDS ProviderGates, AdaptersProofs, FiniteSetTheorems, TLAPS

-----------------------------------------------------------------------------
(* Only Mem0 opens anything.                                               *)
Tight(p, s) == "open" \in DOMAIN s /\ (p \notin Mem0s => s.open = FALSE)

Outcome(p, r) == r = [a |-> r.a, raised |-> r.raised, value |-> r.value] /\ Tight(p, r.a)

LEMMA OutcomeOf ==
    ASSUME NEW p, NEW s, Tight(p, s), NEW v
    PROVE  /\ Outcome(p, Returned(s, v)) /\ Outcome(p, Refused(s)) /\ Outcome(p, RaisedFrom(s))
           /\ Outcome(p, Mem0!Returned(s, v)) /\ Outcome(p, Mem0!RaisedFrom(s))
           /\ Outcome(p, Hindsight!Returned(s, v)) /\ Outcome(p, Hindsight!RaisedFrom(s))
           /\ Outcome(p, GBrain!Returned(s, v)) /\ Outcome(p, GBrain!RaisedFrom(s))
           /\ Outcome(p, GBrain!Refused(s))
           /\ Outcome(p, OptMem!Returned(s, v)) /\ Outcome(p, OptMem!RaisedFrom(s))
           /\ Outcome(p, OptMem!Refused(s))
           /\ Outcome(p, Lexical!Returned(s, v)) /\ Outcome(p, Lexical!RaisedFrom(s))
           /\ Outcome(p, Control!Returned(s, v))
<1>1. Outcome(p, [a |-> s, raised |-> FALSE, value |-> v])
  BY DEF Outcome
<1>2. Outcome(p, [a |-> s, raised |-> TRUE, value |-> {}])
  BY DEF Outcome
<1> DEFINE f == [s EXCEPT !.faults = @ + 1]
<1>3. Tight(p, f)
  BY DEF Tight
<1>4. Outcome(p, [a |-> f, raised |-> TRUE, value |-> {}])
  <2> HIDE DEF f
  <2> QED BY <1>3 DEF Outcome
<1> HIDE DEF Outcome
<1> QED BY <1>1, <1>2, <1>4
  DEF Returned, Refused, RaisedFrom, Failing, Mem0!Returned, Mem0!RaisedFrom, Mem0!Refused,
      Mem0!Failing, Hindsight!Returned, Hindsight!RaisedFrom, Hindsight!Refused,
      Hindsight!Failing, GBrain!Returned, GBrain!RaisedFrom, GBrain!Refused, GBrain!Failing,
      OptMem!Returned, OptMem!RaisedFrom, OptMem!Refused, OptMem!Failing, Lexical!Returned,
      Lexical!RaisedFrom, Lexical!Refused, Lexical!Failing, Control!Returned

(* A change of any other field.                                            *)
LEMMA TightWith ==
    ASSUME NEW p, NEW s, Tight(p, s), NEW v
    PROVE  /\ Tight(p, [s EXCEPT !.listed = v]) /\ Tight(p, [s EXCEPT !.store = v])
           /\ Tight(p, [s EXCEPT !.keys = v]) /\ Tight(p, [s EXCEPT !.pages = v])
           /\ Tight(p, [s EXCEPT !.head = v]) /\ Tight(p, [s EXCEPT !.home = v])
           /\ Tight(p, [s EXCEPT !.trash = v]) /\ Tight(p, [s EXCEPT !.made = v])
           /\ Tight(p, [s EXCEPT !.faults = v])
  BY DEF Tight

LEMMA Mem0Tight ==
    ASSUME NEW p \in Mem0s, NEW s, Tight(p, s)
    PROVE  /\ \A r \in NewOf(p, s) : Outcome(p, r)
           /\ \A r \in ResetOf(p, s) : Outcome(p, r)
           /\ \A b : \A r \in IngestOf(p, s, b) : Outcome(p, r)
           /\ \A e : \A r \in DeleteOf(p, s, e) : Outcome(p, r)
           /\ \A r \in AwaitReadyOf(p, s) : Outcome(p, r)
           /\ \A q : \A r \in RetrieveOf(p, s, q) : Outcome(p, r)
           /\ \A r \in CleanupOf(p, s) : Outcome(p, r) /\ r.a.open = FALSE
<1> DEFINE Has(b) == "open" \in DOMAIN b
<1>0. \A b : Has(b) <=> Tight(p, b)
  BY DEF Tight
<1>1. /\ Has(s) /\ Has([s EXCEPT !.listed = {}, !.keys = {}, !.open = FALSE])
      /\ Has(Mem0!Opened(s))
  BY DEF Tight, Mem0!Opened
<1>r. ASSUME NEW b, Has(b), NEW r \in Mem0!Reset(b) PROVE Outcome(p, r)
  <2> DEFINE e(c) == [c EXCEPT !.listed = {}, !.keys = {}, !.open = FALSE]
             f(c) == [c EXCEPT !.open = FALSE]
             asked == IF b.open THEN {[b EXCEPT !.store = {}], Mem0!Failing(b)} ELSE {b}
  <2>1. \A c \in asked : Has(e(c)) /\ Has(f(c))
    BY <1>r DEF Mem0!Failing
  <2>2. \E c \in asked : \/ r = Mem0!Returned(e(c), {})
                         \/ r = Mem0!RaisedFrom(f(c)) \/ r = Mem0!RaisedFrom(e(c))
    BY DEF Mem0!Reset
  <2> HIDE DEF e, f, asked, Has
  <2> QED BY <1>0, <2>1, <2>2, OutcomeOf
<1>2. \A r \in NewOf(p, s) : Outcome(p, r)
  <2>1. NewOf(p, s) = Mem0!Reset([s EXCEPT !.listed = {}, !.keys = {}, !.open = FALSE])
    BY DEF NewOf, Mem0!New, Mem0s, GBrains, OptMems, Lists, Fixed
  <2> HIDE DEF Has
  <2> QED BY <1>1, <1>r, <2>1
<1>3. \A r \in ResetOf(p, s) : Outcome(p, r)
  <2>1. ResetOf(p, s) = Mem0!Reset(s)
    BY DEF ResetOf, Mem0s, GBrains, OptMems, Lists, Fixed
  <2> HIDE DEF Has
  <2> QED BY <1>1, <1>r, <2>1
<1>4. ASSUME NEW b, NEW r \in IngestOf(p, s, b) PROVE Outcome(p, r)
  <2>1. r \in Mem0!Ingest(s, b, Infer(p))
    BY DEF IngestOf, Mem0s, GBrains, OptMems, Lists, Fixed
  <2>2. ASSUME NEW S, NEW K PROVE Has(Mem0!Added(s, S, K))
    BY DEF Mem0!Added, Mem0!Opened, Tight
  <2>3. ASSUME NEW fresh, NEW e, NEW add PROVE Has(Mem0!Sent(s, fresh, e, add))
    <3> DEFINE others == Mem0!Plain(s, fresh \ {e})
               stored == others \cup Mem0!Numbered(s, e, 1 .. (add.left + add.kept))
               keyed == others \cup Mem0!Numbered(s, e, (add.left + 1) .. (add.left + add.kept))
               w == Mem0!Added(s, stored, keyed)
    <3>1. Has(w)
      BY <2>2
    <3>2. Mem0!Sent(s, fresh, e, add) =
             [w EXCEPT !.listed = @ \cup fresh, !.faults = @ + add.faults]
      BY DEF Mem0!Sent
    <3> HIDE DEF w
    <3> QED BY <3>1, <3>2
  <2>4. ASSUME NEW S PROVE Has(Mem0!CutShort(s, S))
    BY <2>2 DEF Mem0!CutShort
  <2>5. \/ \E c, v : Has(c) /\ r = Mem0!Returned(c, v)
        \/ \E c : Has(c) /\ r = Mem0!RaisedFrom(c)
    <3> HIDE DEF Has
    <3> QED BY <1>1, <2>1, <2>3, <2>4 DEF Mem0!Ingest
  <2> HIDE DEF Has
  <2> QED BY <1>0, <2>5, OutcomeOf
<1>5. ASSUME NEW e, NEW r \in DeleteOf(p, s, e) PROVE Outcome(p, r)
  <2> DEFINE without(D) == [Mem0!Opened(s) EXCEPT !.store = @ \ D, !.keys = @ \ D]
             gone == [without(Mem0!KeysOf(s, e)) EXCEPT !.listed = @ \ {e}]
  <2>1. Has(gone) /\ \A D : Has(without(D))
    BY <1>1
  <2>2. \/ r = Mem0!Returned(s, FALSE) \/ r = Mem0!Returned(gone, TRUE)
        \/ \E D : r = Mem0!RaisedFrom(without(D))
    BY DEF DeleteOf, Mem0!Delete, Mem0s, GBrains, OptMems, Lists, Fixed
  <2> HIDE DEF Has, without, gone
  <2> QED BY <1>0, <1>1, <2>1, <2>2, OutcomeOf
<1>6. \A r \in AwaitReadyOf(p, s) : Outcome(p, r)
  <2>1. AwaitReadyOf(p, s) = {Mem0!Returned(Mem0!Opened(s), {}), Mem0!RaisedFrom(s)}
    BY DEF AwaitReadyOf, Mem0!AwaitReady, Mem0s, GBrains, OptMems, Lists, Fixed
  <2> HIDE DEF Has
  <2> QED BY <1>0, <1>1, <2>1, OutcomeOf
<1>7. ASSUME NEW q, NEW r \in RetrieveOf(p, s, q) PROVE Outcome(p, r)
  <2>1. \/ \E v : r = Mem0!Returned(Mem0!Opened(s), v)
        \/ r = Mem0!RaisedFrom(Mem0!Opened(s))
    BY DEF RetrieveOf, Mem0!Retrieve, Mem0s, GBrains, OptMems, Lists, Fixed
  <2> HIDE DEF Has
  <2> QED BY <1>0, <1>1, <2>1, OutcomeOf
<1>8. \A r \in CleanupOf(p, s) : Outcome(p, r) /\ r.a.open = FALSE
  <2> DEFINE c == [s EXCEPT !.open = FALSE]
  <2>1. CleanupOf(p, s) = {Mem0!Returned(c, {})}
    BY DEF CleanupOf, Mem0!Cleanup, Mem0s, GBrains, OptMems, Lists, Fixed
  <2>2. c.open = FALSE /\ Has(c)
    BY <1>1
  <2> HIDE DEF Has, c
  <2> QED BY <1>0, <2>1, <2>2, OutcomeOf DEF Mem0!Returned
<1> QED BY <1>2, <1>3, <1>4, <1>5, <1>6, <1>7, <1>8

(* All of the operations of a gate, but for the open Memory.               *)
Sealed(p, s) ==
    /\ \A r \in NewOf(p, s) : Outcome(p, r)
    /\ \A r \in ResetOf(p, s) : Outcome(p, r)
    /\ \A b : \A r \in IngestOf(p, s, b) : Outcome(p, r)
    /\ \A e : \A r \in DeleteOf(p, s, e) : Outcome(p, r)
    /\ \A r \in AwaitReadyOf(p, s) : Outcome(p, r)
    /\ \A q : \A r \in RetrieveOf(p, s, q) : Outcome(p, r)
    /\ \A r \in CleanupOf(p, s) : Outcome(p, r) /\ r.a.open = FALSE

LEMMA ClosedAlready ==
    ASSUME NEW p, p \notin Mem0s, NEW s, Tight(p, s), NEW r, r = Returned(s, {})
    PROVE  Outcome(p, r) /\ r.a.open = FALSE
<1>1. Outcome(p, r)
  BY OutcomeOf
<1>2. r.a = s
  BY DEF Returned
<1> QED BY <1>1, <1>2 DEF Tight

LEMMA HindsightTight ==
    ASSUME NEW p, p = "hindsight", NEW s, Tight(p, s)
    PROVE  Sealed(p, s)
<1> USE DEF Mem0s, GBrains, OptMems, Lists, Fixed
<1>1. \A r \in NewOf(p, s) : Outcome(p, r)
  <2>1. NewOf(p, s) = Hindsight!New(s)
    BY DEF NewOf
  <2> QED BY <2>1, TightWith, OutcomeOf, ZenonT(60) DEF Hindsight!New
<1>2. \A r \in ResetOf(p, s) : Outcome(p, r)
  <2>1. ResetOf(p, s) = Hindsight!Reset(s)
    BY DEF ResetOf
  <2> DEFINE gone == [s EXCEPT !.store = {}]
             fail == [s EXCEPT !.faults = @ + 1]
             blank(b) == [b EXCEPT !.listed = {}]
  <2>2. Tight(p, gone) /\ Tight(p, fail) /\ \A b : Tight(p, b) => Tight(p, blank(b))
    BY TightWith
  <2>3. ASSUME NEW r \in ResetOf(p, s)
        PROVE  \/ \E b \in {gone, fail} : r = Hindsight!Returned(blank(b), {})
               \/ \E b \in {gone, s} : r = Hindsight!RaisedFrom(b)
    BY <2>1 DEF Hindsight!Reset, Hindsight!Failing
  <2> HIDE DEF gone, fail, blank
  <2> QED BY <2>2, <2>3, OutcomeOf
<1>3. ASSUME NEW b, NEW r \in IngestOf(p, s, b) PROVE Outcome(p, r)
  <2>1. IngestOf(p, s, b) = Hindsight!Ingest(s, b)
    BY DEF IngestOf
  <2> DEFINE retained(S) == [s EXCEPT !.store = @ \cup Hindsight!Documents(S)]
             done(S) == [retained(S) EXCEPT !.listed = @ \cup S]
  <2>2. \A S : Tight(p, retained(S)) /\ Tight(p, done(S))
    BY TightWith
  <2>3. \/ r = Hindsight!Returned(s, 0)
        \/ \E S : \E v : r = Hindsight!Returned(done(S), v)
        \/ \E S : r = Hindsight!RaisedFrom(retained(S))
    BY <2>1 DEF Hindsight!Ingest
  <2> HIDE DEF done, retained
  <2> QED BY <2>2, <2>3, OutcomeOf
<1>4. ASSUME NEW e, NEW r \in DeleteOf(p, s, e) PROVE Outcome(p, r)
  <2>1. DeleteOf(p, s, e) = Hindsight!Delete(s, e)
    BY DEF DeleteOf
  <2> DEFINE gone == [s EXCEPT !.store = @ \ Hindsight!Documents({e})]
             done == [gone EXCEPT !.listed = @ \ {e}]
  <2>2. Tight(p, gone) /\ Tight(p, done)
    BY TightWith
  <2>3. \/ r = Hindsight!Returned(s, FALSE) \/ r = Hindsight!Returned(done, TRUE)
        \/ \E b \in {s, gone} : r = Hindsight!RaisedFrom(b)
    BY <2>1 DEF Hindsight!Delete
  <2> HIDE DEF done, gone
  <2> QED BY <2>2, <2>3, OutcomeOf
<1>5. \A r \in AwaitReadyOf(p, s) : Outcome(p, r)
  <2>1. AwaitReadyOf(p, s) = Hindsight!AwaitReady(s)
    BY DEF AwaitReadyOf
  <2> QED BY <2>1, OutcomeOf DEF Hindsight!AwaitReady
<1>6. ASSUME NEW q, NEW r \in RetrieveOf(p, s, q) PROVE Outcome(p, r)
  <2>1. RetrieveOf(p, s, q) = Hindsight!Retrieve(s, q)
    BY DEF RetrieveOf
  <2>2. r = Hindsight!RaisedFrom(s) \/ \E v : r = Hindsight!Returned(s, v)
    BY <2>1 DEF Hindsight!Retrieve
  <2> QED BY <2>2, OutcomeOf
<1>7. \A r \in CleanupOf(p, s) : Outcome(p, r) /\ r.a.open = FALSE
  <2>1. CleanupOf(p, s) = {Returned(s, {})}
    BY DEF CleanupOf
  <2> QED BY <2>1, ClosedAlready
<1> QED BY <1>1, <1>2, <1>3, <1>4, <1>5, <1>6, <1>7 DEF Sealed

LEMMA GBrainTight ==
    ASSUME NEW p \in GBrains, NEW s, Tight(p, s)
    PROVE  Sealed(p, s)
<1> USE DEF Mem0s, GBrains, OptMems, Lists, Fixed
<1>v. ASSUME NEW b, Tight(p, b) PROVE Tight(p, GBrain!Vacant(b))
  BY <1>v DEF Tight, GBrain!Vacant
<1>b. ASSUME NEW b, Tight(p, b), NEW r \in GBrain!Bootstrap(b) PROVE Outcome(p, r)
  <2>1. \A h : Tight(p, [b EXCEPT !.home = h, !.store = {}])
    BY <1>b DEF Tight
  <2>2. \/ r = GBrain!Returned(b, {})
        \/ \E h : \/ r = GBrain!Returned([b EXCEPT !.home = h, !.store = {}], {})
                 \/ r = GBrain!RaisedFrom([b EXCEPT !.home = h, !.store = {}])
    BY DEF GBrain!Bootstrap
  <2> QED BY <1>b, <2>1, <2>2, OutcomeOf
<1>e. ASSUME NEW b, Tight(p, b), NEW o, NEW r \in GBrain!Ensure(b, o) PROVE Outcome(p, r)
  <2> DEFINE w == GBrain!Vacant(b)
             t == [w EXCEPT !.trash = TRUE]
  <2>1. Tight(p, w) /\ Tight(p, t)
    BY <1>e, <1>v, TightWith
  <2>2. r = GBrain!Refused(b) \/ \E c \in {b, w, t} : r \in GBrain!Bootstrap(c)
    BY DEF GBrain!Ensure, GBrain!EnsureBrain, GBrain!EnsureBrainOllama
  <2> HIDE DEF w, t
  <2> QED BY <1>b, <1>e, <2>1, <2>2, OutcomeOf
<1>t. ASSUME NEW f, Outcome(p, f), NEW L, NEW v PROVE Outcome(p, GBrain!ThenListed(f, L, v))
  <2> DEFINE w == [f.a EXCEPT !.listed = L]
  <2>1. Tight(p, w)
    BY <1>t, TightWith DEF Outcome
  <2>2. GBrain!ThenListed(f, L, v) \in {f, GBrain!Returned(w, v)}
    BY DEF GBrain!ThenListed
  <2> HIDE DEF w
  <2> QED BY <1>t, <2>1, <2>2, OutcomeOf
<1>c. ASSUME NEW b, Tight(p, b), NEW r \in GBrain!CommitAndSync(b) PROVE Outcome(p, r)
  <2> DEFINE d == GBrain!Committed(b)
             y == GBrain!Synced(d)
  <2>1. Tight(p, d)
    BY <1>c, TightWith DEF GBrain!Committed
  <2>2. Tight(p, y)
    BY <2>1, TightWith DEF GBrain!Synced
  <2>3. \E u \in {b, d, y} : r = GBrain!Returned(u, {}) \/ r = GBrain!RaisedFrom(u)
    BY DEF GBrain!CommitAndSync, GBrain!Indexed
  <2> HIDE DEF d, y
  <2> QED BY <1>c, <2>1, <2>2, <2>3, OutcomeOf
<1>1. ASSUME NEW r \in NewOf(p, s) PROVE Outcome(p, r)
  <2>1. NewOf(p, s) = GBrain!Ensure([s EXCEPT !.listed = {}], Ollama(p))
    BY DEF NewOf, GBrain!New
  <2> QED BY <1>e, <2>1, TightWith
<1>2. ASSUME NEW r \in ResetOf(p, s) PROVE Outcome(p, r)
  <2>1. ResetOf(p, s) = GBrain!Reset(s, Ollama(p))
    BY DEF ResetOf
  <2>2. \/ \E f \in GBrain!Ensure(GBrain!Vacant(s), Ollama(p)) : r = GBrain!ThenListed(f, {}, {})
        \/ \E k : r = GBrain!RaisedFrom([s EXCEPT !.pages = k])
    BY <2>1 DEF GBrain!Reset
  <2> QED BY <1>e, <1>t, <1>v, <2>2, TightWith, OutcomeOf
<1>3. ASSUME NEW b, NEW r \in IngestOf(p, s, b) PROVE Outcome(p, r)
  <2>1. IngestOf(p, s, b) = GBrain!Ingest(s, b)
    BY DEF IngestOf
  <2>2. \/ r = GBrain!Returned(s, 0)
        \/ \E F : \E f \in GBrain!CommitAndSync(GBrain!Written(s, F)) :
              \E L : \E v : r = GBrain!ThenListed(f, L, v)
        \/ \E F : r = GBrain!RaisedFrom(GBrain!Written(s, F))
    BY <2>1 DEF GBrain!Ingest
  <2>3. \A F : Tight(p, GBrain!Written(s, F))
    BY TightWith DEF GBrain!Written
  <2> QED BY <1>c, <1>t, <2>2, <2>3, OutcomeOf
<1>4. ASSUME NEW e, NEW r \in DeleteOf(p, s, e) PROVE Outcome(p, r)
  <2>1. DeleteOf(p, s, e) = GBrain!Delete(s, e)
    BY DEF DeleteOf
  <2>2. \E f : /\ f \in GBrain!CommitAndSync(GBrain!Unlinked(s, e)) \/ f = GBrain!Returned(s, {})
               /\ \E L : \E v : r = GBrain!ThenListed(f, L, v)
    BY <2>1 DEF GBrain!Delete
  <2>3. Tight(p, GBrain!Unlinked(s, e))
    BY TightWith DEF GBrain!Unlinked
  <2> QED BY <1>c, <1>t, <2>2, <2>3, OutcomeOf
<1>5. \A r \in AwaitReadyOf(p, s) : Outcome(p, r)
  <2>1. AwaitReadyOf(p, s) = GBrain!AwaitReady(s)
    BY DEF AwaitReadyOf
  <2> QED BY <2>1, OutcomeOf DEF GBrain!AwaitReady
<1>6. ASSUME NEW q, NEW r \in RetrieveOf(p, s, q) PROVE Outcome(p, r)
  <2>1. RetrieveOf(p, s, q) = GBrain!Retrieve(s, q)
    BY DEF RetrieveOf
  <2>2. r = GBrain!RaisedFrom(s) \/ \E v : r = GBrain!Returned(s, v)
    BY <2>1 DEF GBrain!Retrieve
  <2> QED BY <2>2, OutcomeOf
<1>7. ASSUME NEW r \in CleanupOf(p, s) PROVE Outcome(p, r) /\ r.a.open = FALSE
  <2>1. CleanupOf(p, s) = GBrain!Cleanup(s)
    BY DEF CleanupOf
  <2>2. PICK t : r = GBrain!Returned([s EXCEPT !.trash = t], {})
    BY <2>1 DEF GBrain!Cleanup
  <2>3. Outcome(p, r)
    BY <2>2, TightWith, OutcomeOf
  <2> QED BY <2>3 DEF Outcome, Tight
<1> QED BY <1>1, <1>2, <1>3, <1>4, <1>5, <1>6, <1>7 DEF Sealed

LEMMA OptMemTight ==
    ASSUME NEW p \in OptMems, NEW s, Tight(p, s)
    PROVE  Sealed(p, s)
<1> USE DEF Mem0s, GBrains, OptMems, Lists, Fixed
<1>r. ASSUME NEW b, Tight(p, b), NEW r \in OptMem!Reset(b) PROVE Outcome(p, r)
  <2>1. Tight(p, [b EXCEPT !.store = {}, !.listed = {}]) /\ Tight(p, [b EXCEPT !.store = {}])
    BY <1>r DEF Tight
  <2> QED BY <1>r, <2>1, OutcomeOf DEF OptMem!Reset
<1>1. ASSUME NEW r \in NewOf(p, s) PROVE Outcome(p, r)
  <2>1. NewOf(p, s) = OptMem!Reset([s EXCEPT !.listed = {}])
    BY DEF NewOf, OptMem!New
  <2> QED BY <1>r, <2>1, TightWith
<1>2. ASSUME NEW r \in ResetOf(p, s) PROVE Outcome(p, r)
  <2>1. ResetOf(p, s) = OptMem!Reset(s)
    BY DEF ResetOf
  <2> QED BY <1>r, <2>1
<1>3. ASSUME NEW b, NEW r \in IngestOf(p, s, b) PROVE Outcome(p, r)
  <2>1. IngestOf(p, s, b) = OptMem!Ingest(s, b)
    BY DEF IngestOf
  <2> DEFINE imported(S) == [s EXCEPT !.store = @ \cup OptMem!Lines(s, S)]
             done(S) == [imported(S) EXCEPT !.listed = @ \cup S]
  <2>2. \A S : Tight(p, imported(S)) /\ Tight(p, done(S))
    BY TightWith
  <2>3. \/ r = OptMem!Returned(s, 0) \/ r = OptMem!Refused(s)
        \/ \E S : \E v : r = OptMem!Returned(done(S), v)
        \/ \E S : r = OptMem!RaisedFrom(imported(S))
    BY <2>1 DEF OptMem!Ingest
  <2> HIDE DEF done, imported
  <2> QED BY <2>2, <2>3, OutcomeOf
<1>4. ASSUME NEW e, NEW r \in DeleteOf(p, s, e) PROVE Outcome(p, r)
  <2>1. DeleteOf(p, s, e) = OptMem!Delete(s, e)
    BY DEF DeleteOf
  <2> QED BY <2>1, OutcomeOf DEF OptMem!Delete
<1>5. \A r \in AwaitReadyOf(p, s) : Outcome(p, r)
  <2>1. AwaitReadyOf(p, s) = OptMem!AwaitReady(s)
    BY DEF AwaitReadyOf
  <2> QED BY <2>1, OutcomeOf DEF OptMem!AwaitReady
<1>6. ASSUME NEW q, NEW r \in RetrieveOf(p, s, q) PROVE Outcome(p, r)
  <2>1. RetrieveOf(p, s, q) = OptMem!Retrieve(s, q, p = "optmem")
    BY DEF RetrieveOf
  <2>2. r = OptMem!RaisedFrom(s) \/ \E v : r = OptMem!Returned(s, v)
    BY <2>1 DEF OptMem!Retrieve
  <2> QED BY <2>2, OutcomeOf
<1>7. \A r \in CleanupOf(p, s) : Outcome(p, r) /\ r.a.open = FALSE
  <2>1. CleanupOf(p, s) = {Returned(s, {})}
    BY DEF CleanupOf
  <2> QED BY <2>1, ClosedAlready
<1> QED BY <1>1, <1>2, <1>3, <1>4, <1>5, <1>6, <1>7 DEF Sealed

(* The baselines and the controls.                                         *)
LEMMA LexicalTight ==
    ASSUME NEW p \in {"bm25-sqlite-fts", "bm25-pure"}, NEW s, Tight(p, s)
    PROVE  Sealed(p, s)
<1> USE DEF Mem0s, GBrains, OptMems, Lists, Fixed
<1>r. ASSUME NEW b, Tight(p, b), NEW r \in Lexical!FtsReset(b) PROVE Outcome(p, r)
  BY <1>r, TightWith, OutcomeOf DEF Lexical!FtsReset
<1>p. ASSUME NEW docs, NEW n, NEW r \in Lexical!Rebuilt(s, docs, n) PROVE Outcome(p, r)
  BY <1>p, TightWith, OutcomeOf DEF Lexical!Rebuilt
<1>1. ASSUME NEW r \in NewOf(p, s) \cup ResetOf(p, s) PROVE Outcome(p, r)
  <2>1. CASE p = "bm25-sqlite-fts"
    <3>1. /\ NewOf(p, s) = Lexical!FtsReset([s EXCEPT !.listed = {}])
          /\ ResetOf(p, s) = Lexical!FtsReset(s)
      BY <2>1 DEF NewOf, ResetOf, Lexical!FtsNew
    <3> QED BY <1>r, <3>1, TightWith
  <2>2. CASE p = "bm25-pure"
    <3>1. NewOf(p, s) = Lexical!PureReset(s) /\ ResetOf(p, s) = Lexical!PureReset(s)
      BY <2>2 DEF NewOf, ResetOf, Lexical!PureNew
    <3>2. r = Lexical!Returned([s EXCEPT !.listed = {}], {})
      BY <3>1 DEF Lexical!PureReset
    <3> QED BY <3>2, TightWith, OutcomeOf
  <2> QED BY <2>1, <2>2
<1>3. ASSUME NEW b, NEW r \in IngestOf(p, s, b) PROVE Outcome(p, r)
  <2>1. CASE p = "bm25-sqlite-fts"
    <3>1. IngestOf(p, s, b) = Lexical!FtsIngest(s, b)
      BY <2>1 DEF IngestOf
    <3> DEFINE w(S) == [s EXCEPT !.store = @ \cup Lexical!Rows(S), !.listed = @ \cup S]
    <3>2. \A S : Tight(p, w(S))
      BY DEF Tight
    <3>3. \/ \E S : \E v : r = Lexical!Returned(w(S), v)
          \/ \E S : r = Lexical!RaisedFrom([s EXCEPT !.listed = @ \cup S])
      BY <3>1 DEF Lexical!FtsIngest
    <3> HIDE DEF w
    <3> QED BY <3>2, <3>3, TightWith, OutcomeOf
  <2>2. CASE p = "bm25-pure"
    <3>1. IngestOf(p, s, b) = Lexical!PureIngest(s, b)
      BY <2>2 DEF IngestOf
    <3> QED BY <1>p, <3>1 DEF Lexical!PureIngest
  <2> QED BY <2>1, <2>2
<1>4. ASSUME NEW e, NEW r \in DeleteOf(p, s, e) PROVE Outcome(p, r)
  <2>1. CASE p = "bm25-sqlite-fts"
    <3>1. DeleteOf(p, s, e) = Lexical!FtsDelete(s, e)
      BY <2>1 DEF DeleteOf
    <3> DEFINE w == [s EXCEPT !.store = @ \ Lexical!Rows({e}), !.listed = @ \ {e}]
    <3>2. Tight(p, w)
      BY DEF Tight
    <3>3. \/ \E v : r = Lexical!Returned(w, v) \/ r = Lexical!Returned(s, v)
          \/ r = Lexical!RaisedFrom(s)
      BY <3>1 DEF Lexical!FtsDelete
    <3> HIDE DEF w
    <3> QED BY <3>2, <3>3, OutcomeOf
  <2>2. CASE p = "bm25-pure"
    <3>1. DeleteOf(p, s, e) = Lexical!PureDelete(s, e)
      BY <2>2 DEF DeleteOf
    <3> QED BY <1>p, <3>1 DEF Lexical!PureDelete
  <2> QED BY <2>1, <2>2
<1>5. \A r \in AwaitReadyOf(p, s) : Outcome(p, r)
  <2>1. AwaitReadyOf(p, s) = OptMem!AwaitReady(s)
    BY DEF AwaitReadyOf
  <2> QED BY <2>1, OutcomeOf DEF OptMem!AwaitReady
<1>6. ASSUME NEW q, NEW r \in RetrieveOf(p, s, q) PROVE Outcome(p, r)
  <2>1. CASE p = "bm25-sqlite-fts"
    <3>1. RetrieveOf(p, s, q) = Lexical!FtsRetrieve(s, q)
      BY <2>1 DEF RetrieveOf
    <3>2. r = Lexical!RaisedFrom(s) \/ \E v : r = Lexical!Returned(s, v)
      BY <3>1 DEF Lexical!FtsRetrieve
    <3> QED BY <3>2, OutcomeOf
  <2>2. CASE p = "bm25-pure"
    <3>1. RetrieveOf(p, s, q) = Lexical!PureRetrieve(s, q)
      BY <2>2 DEF RetrieveOf
    <3>2. \E v : r = Lexical!Returned(s, v)
      BY <3>1 DEF Lexical!PureRetrieve
    <3> QED BY <3>2, OutcomeOf
  <2> QED BY <2>1, <2>2
<1>7. \A r \in CleanupOf(p, s) : Outcome(p, r) /\ r.a.open = FALSE
  <2>1. CleanupOf(p, s) = {Returned(s, {})}
    BY DEF CleanupOf
  <2> QED BY <2>1, ClosedAlready
<1> QED BY <1>1, <1>3, <1>4, <1>5, <1>6, <1>7 DEF Sealed

LEMMA ControlTight ==
    ASSUME NEW p \in Lists \cup Fixed, NEW s, Tight(p, s)
    PROVE  Sealed(p, s)
<1> USE DEF Mem0s, GBrains, OptMems, Lists, Fixed
<1>l. ASSUME NEW L, NEW v PROVE Outcome(p, Control!Returned([s EXCEPT !.listed = L], v))
  BY TightWith, OutcomeOf
<1>1. ASSUME NEW r \in NewOf(p, s) \cup ResetOf(p, s) PROVE Outcome(p, r)
  <2>1. \E L : r = Control!Returned([s EXCEPT !.listed = L], {})
    BY DEF NewOf, ResetOf, Control!ListNew, Control!ListReset
  <2> QED BY <1>l, <2>1
<1>3. ASSUME NEW b, NEW r \in IngestOf(p, s, b) PROVE Outcome(p, r)
  <2>1. \E L : \E v : r = Control!Returned([s EXCEPT !.listed = L], v)
    BY DEF IngestOf, Control!ListIngest, Control!FixedIngest
  <2> QED BY <1>l, <2>1
<1>4. ASSUME NEW e, NEW r \in DeleteOf(p, s, e) PROVE Outcome(p, r)
  <2>1. \E L : \E v : r = Control!Returned([s EXCEPT !.listed = L], v)
    BY DEF DeleteOf, Control!ListDelete, Control!FixedDelete
  <2> QED BY <1>l, <2>1
<1>5. \A r \in AwaitReadyOf(p, s) : Outcome(p, r)
  <2>1. AwaitReadyOf(p, s) = OptMem!AwaitReady(s)
    BY DEF AwaitReadyOf
  <2> QED BY <2>1, OutcomeOf DEF OptMem!AwaitReady
<1>6. ASSUME NEW q, NEW r \in RetrieveOf(p, s, q) PROVE Outcome(p, r)
  <2>1. \E v : r = Control!Returned(s, v)
    BY DEF RetrieveOf, Control!FullRetrieve, Control!RandomRetrieve, Control!NoMemoryRetrieve,
       Control!OracleRetrieve
  <2> QED BY <2>1, OutcomeOf
<1>7. \A r \in CleanupOf(p, s) : Outcome(p, r) /\ r.a.open = FALSE
  <2>1. CleanupOf(p, s) = {Returned(s, {})}
    BY DEF CleanupOf
  <2> QED BY <2>1, ClosedAlready
<1> QED BY <1>1, <1>3, <1>4, <1>5, <1>6, <1>7 DEF Sealed

LEMMA SealedOf ==
    ASSUME NEW p \in AllProducts, NEW s, Tight(p, s)
    PROVE  Sealed(p, s)
<1>1. \/ p \in Mem0s \/ p = "hindsight" \/ p \in GBrains \/ p \in OptMems
      \/ p \in {"bm25-sqlite-fts", "bm25-pure"} \/ p \in Lists \cup Fixed
  BY DEF AllProducts, Exporting
<1>2. CASE p \in Mem0s
  BY <1>2, Mem0Tight DEF Sealed
<1> QED BY <1>1, <1>2, HindsightTight, GBrainTight, OptMemTight, LexicalTight, ControlTight

-----------------------------------------------------------------------------
(* The checks of validate_provider.                                        *)
Outs(F) == \A x \in F : Outcome(product, x)
Words(F, W) == \A x \in F : ~x.raised => x.value.is \in W
SaidAfter(F, w) == Then(F, LAMBDA b : Says(b, w))

LEMMA Said ==
    ASSUME NEW s, Tight(product, s), NEW w
    PROVE  Outs(Says(s, w)) /\ \A r \in Says(s, w) : r.a = s /\ ~r.raised /\ r.value.is = w
<1>1. ASSUME NEW r \in Says(s, w) PROVE r = Returned(s, [is |-> w, ids |-> answer])
  BY DEF Says
<1>2. ASSUME NEW r \in Says(s, w) PROVE r.a = s /\ ~r.raised /\ r.value.is = w
  BY <1>1 DEF Returned
<1>3. Outs(Says(s, w))
  BY <1>1, OutcomeOf DEF Outs
<1> QED BY <1>2, <1>3

LEMMA OutsCaught ==
    ASSUME NEW F, Outs(F), NEW w, NEW W, Words(F, W)
    PROVE  Outs(Caught(F, w)) /\ Words(Caught(F, w), W \cup {w})
<1> SUFFICES ASSUME NEW r \in Caught(F, w)
             PROVE  Outcome(product, r) /\ (~r.raised => r.value.is \in W \cup {w})
  BY DEF Outs, Words
<1>1. PICK x \in F : r \in IF x.raised THEN Says(x.a, w) ELSE {x}
  BY DEF Caught
<1>2. Outcome(product, x) /\ Tight(product, x.a)
  BY DEF Outs, Outcome
<1>3. CASE x.raised
  BY <1>1, <1>2, <1>3, Said DEF Outs
<1>4. CASE ~x.raised
  BY <1>1, <1>2, <1>4 DEF Words
<1> QED BY <1>3, <1>4

LEMMA OutsSaid ==
    ASSUME NEW F, Outs(F), NEW w
    PROVE  /\ Outs(SaidAfter(F, w)) /\ Words(SaidAfter(F, w), {w})
           /\ \A r \in SaidAfter(F, w) : \E x \in F : r.a = x.a
<1> SUFFICES ASSUME NEW r \in SaidAfter(F, w)
             PROVE  /\ Outcome(product, r) /\ (~r.raised => r.value.is = w)
                    /\ \E x \in F : r.a = x.a
  BY DEF Outs, Words
<1>1. PICK x \in F : r \in IF x.raised THEN {x} ELSE Says(x.a, w)
  BY DEF SaidAfter, Then, ThenWith
<1>2. Outcome(product, x) /\ Tight(product, x.a)
  BY DEF Outs, Outcome
<1>3. CASE x.raised
  BY <1>1, <1>2, <1>3
<1>4. CASE ~x.raised
  BY <1>1, <1>2, <1>4, Said DEF Outs
<1> QED BY <1>3, <1>4

(* The adapter under the gate, flawed or not.                              *)
LEMMA OutsFlawed ==
    ASSUME product \in AllProducts, NEW s, Tight(product, s)
    PROVE  /\ Outs(New(s)) /\ Outs(Reset(s)) /\ \A b : Outs(Ingest(s, b))
           /\ Outs(AwaitReadyOf(product, s)) /\ \A e : Outs(DeleteOf(product, s, e))
           /\ \A q : Outs(Retrieve(s, q))
           /\ Outs(CleanupOf(product, s)) /\ \A r \in CleanupOf(product, s) : r.a.open = FALSE
<1>0. Sealed(product, s)
  BY SealedOf
<1>v. ASSUME NEW x, Outcome(product, x), NEW v PROVE Outcome(product, [x EXCEPT !.value = v])
  BY <1>v DEF Outcome
<1>1. Outs(Reset(s))
  BY <1>0, OutcomeOf DEF Reset, Outs, Sealed
<1>2. ASSUME NEW b PROVE Outs(Ingest(s, b))
  <2>1. ASSUME NEW r \in Ingest(s, b)
        PROVE  \E x \in IngestOf(product, s, b) : \E v : r = x \/ r = [x EXCEPT !.value = v]
    BY DEF Ingest
  <2> QED BY <1>0, <1>v, <2>1 DEF Outs, Sealed
<1>3. ASSUME NEW q PROVE Outs(Retrieve(s, q))
  <2>1. ASSUME NEW x, Outcome(product, x)
        PROVE  Outcome(product, Distorted(x))
    <3>1. Outcome(product, [x EXCEPT !.a.made = @ + 1])
      <4> DEFINE w == [x.a EXCEPT !.made = @ + 1]
      <4>1. Tight(product, w)
        BY <2>1, TightWith DEF Outcome
      <4>2. [x EXCEPT !.a.made = @ + 1] = [x EXCEPT !.a = w]
        BY <2>1 DEF Outcome
      <4> HIDE DEF w
      <4> QED BY <2>1, <4>1, <4>2 DEF Outcome
    <3>2. \/ \E v : Distorted(x) = [x EXCEPT !.value = v]
          \/ Distorted(x) \in {x, [x EXCEPT !.a.made = @ + 1]}
      <4> DEFINE f(v) == [x EXCEPT !.value = v]
                 m == [x EXCEPT !.a.made = @ + 1]
      <4>1. Distorted(x) =
               IF x.raised THEN x
               ELSE CASE flaw = "sees-future" -> f(x.value \cup (x.a.listed \cap {Future}))
                      [] flaw = "sees-others" -> f(x.value \cup (x.a.listed \ {Future}))
                      [] flaw = "misses" -> f(x.value \ {Asked})
                      [] flaw = "mutates" -> m
                      [] OTHER -> x
        BY DEF Distorted
      <4> HIDE DEF f, m
      <4>2. (\E v : Distorted(x) = f(v)) \/ Distorted(x) \in {x, m}
        BY <4>1
      <4> QED BY <4>2 DEF f, m
    <3> QED BY <1>v, <2>1, <3>1, <3>2
  <2>2. ASSUME NEW r \in Retrieve(s, q)
        PROVE  \E x \in RetrieveOf(product, s, q) : r = Distorted(x)
    BY DEF Retrieve
  <2> QED BY <1>0, <2>1, <2>2 DEF Outs, Sealed
<1> QED BY <1>0, <1>1, <1>2, <1>3 DEF Outs, Sealed, New

LEMMA OutsOrCleanUp ==
    ASSUME product \in AllProducts, NEW s, NEW F, Outs(F)
    PROVE  Outs(OrCleanUp(s, F)) /\ Words(OrCleanUp(s, F), {"PASS", "FAIL"})
<1> DEFINE G == Caught(SaidAfter(F, "PASS"), "FAIL")
<1>1. Outs(G) /\ Words(G, {"PASS", "FAIL"})
  <2>1. Outs(SaidAfter(F, "PASS")) /\ Words(SaidAfter(F, "PASS"), {"PASS"})
    BY OutsSaid
  <2>2. {"PASS"} \cup {"FAIL"} = {"PASS", "FAIL"}
    OBVIOUS
  <2>3. Outs(G) /\ Words(G, {"PASS"} \cup {"FAIL"})
    BY <2>1, OutsCaught
  <2> QED BY <2>2, <2>3
<1>2. OrCleanUp(s, F) =
         UNION {IF r.value.is = "FAIL" THEN SaidAfter(CleanupOf(product, r.a), "FAIL")
                ELSE {r} : r \in G}
  BY DEF OrCleanUp, SaidAfter
<1> HIDE DEF G
<1> SUFFICES ASSUME NEW r \in OrCleanUp(s, F)
             PROVE  Outcome(product, r) /\ (~r.raised => r.value.is \in {"PASS", "FAIL"})
  BY DEF Outs, Words
<1>3. PICK x \in G :
         r \in IF x.value.is = "FAIL" THEN SaidAfter(CleanupOf(product, x.a), "FAIL") ELSE {x}
  BY <1>2
<1>4. Outcome(product, x) /\ Tight(product, x.a) /\ (~x.raised => x.value.is \in {"PASS", "FAIL"})
  BY <1>1 DEF Outs, Words, Outcome
<1>5. CASE x.value.is = "FAIL"
  <2>1. Outs(CleanupOf(product, x.a))
    BY <1>4, OutsFlawed
  <2> QED BY <1>3, <1>5, <2>1, OutsSaid DEF Outs, Words
<1>6. CASE x.value.is # "FAIL"
  BY <1>3, <1>4, <1>6
<1> QED BY <1>5, <1>6

LEMMA ValidationOutcome ==
    ASSUME product \in AllProducts, Tight(product, a), NEW check,
           check \in {"import", "manifest", "reset", "ingest", "readiness", "retrieval",
                      "deletion", "cleanup", "tracks"},
           NEW r \in ValidationCheck(check, a), ~r.raised
    PROVE  /\ Tight(product, r.a)
           /\ check \in {"ingest", "retrieval"} => r.value.is \in {"PASS", "FAIL"}
           /\ check = "cleanup" => r.a.open = FALSE
           /\ check = "tracks" => r.a = a
<1> DEFINE W == {"PASS", "FAIL"}
<1>1. CASE check = "import"
  <2>1. Tight(product, Apart(a))
    BY DEF Apart, Blank, Tight
  <2>2. Outs(SaidAfter(New(Apart(a)), "PASS"))
    BY <2>1, OutsFlawed, OutsSaid
  <2>3. PICK x \in SaidAfter(New(Apart(a)), "PASS") : r = Back(a, x)
    BY <1>1 DEF ValidationCheck, SaidAfter
  <2>4. r.a = [a EXCEPT !.faults = x.a.faults]
    <3> DEFINE w == [a EXCEPT !.faults = x.a.faults]
    <3>1. r = [x EXCEPT !.a = w]
      BY <2>3 DEF Back
    <3>2. x = [a |-> x.a, raised |-> x.raised, value |-> x.value]
      BY <2>2 DEF Outs, Outcome
    <3> HIDE DEF w
    <3>3. r.a = w
      BY <3>1, <3>2
    <3> QED BY <3>3 DEF w
  <2>5. Tight(product, [a EXCEPT !.faults = x.a.faults])
    BY TightWith
  <2>6. Tight(product, r.a)
    BY <2>4, <2>5
  <2> QED BY <1>1, <2>6
<1>2. CASE check = "manifest"
  <2>1. PICK w : r \in Says(a, w)
    BY <1>2 DEF ValidationCheck
  <2> QED BY <1>2, <2>1, Said
<1>3. CASE check = "reset"
  <2>1. Outs(New(a))
    BY OutsFlawed
  <2>2. PICK x \in New(a) :
           r \in IF x.raised THEN {x} ELSE Caught(SaidAfter(Reset(x.a), "PASS"), "NOT_RUN")
    BY <1>3 DEF ValidationCheck, ValidateReset, SaidAfter, Then, ThenWith
  <2>3. Outcome(product, x) /\ Tight(product, x.a)
    BY <2>1 DEF Outs, Outcome
  <2>4. Outs(Caught(SaidAfter(Reset(x.a), "PASS"), "NOT_RUN"))
    BY <2>3, OutsFlawed, OutsSaid, OutsCaught
  <2> QED BY <1>3, <2>2, <2>3, <2>4 DEF Outs, Outcome
<1>4. CASE check = "ingest"
  <2>1. Outs(Ingest(a, {Asked, Doomed}))
    BY OutsFlawed
  <2>2. r \in OrCleanUp(a, Ingest(a, {Asked, Doomed}))
    BY <1>4 DEF ValidationCheck
  <2> QED BY <1>4, <2>1, <2>2, OutsOrCleanUp DEF Outs, Words, Outcome
<1>5. CASE check = "readiness"
  <2>1. r \in Caught(SaidAfter(AwaitReadyOf(product, a), "PASS"), "WARN")
    BY <1>5 DEF ValidationCheck, SaidAfter
  <2>2. Outs(Caught(SaidAfter(AwaitReadyOf(product, a), "PASS"), "WARN"))
    BY OutsFlawed, OutsSaid, OutsCaught
  <2> QED BY <1>5, <2>1, <2>2 DEF Outs, Outcome
<1>6. CASE check = "retrieval"
  <2>1. Outs(ThreeQueries(a))
    <3> SUFFICES ASSUME NEW t \in ThreeQueries(a) PROVE Outcome(product, t)
      BY DEF Outs
    <3>1. PICK x \in Retrieve(a, current) :
             \/ x.raised /\ t = x
             \/ ~x.raised /\ \E y \in Retrieve(x.a, other) :
                    \/ y.raised /\ t = y
                    \/ ~y.raised /\ t \in Retrieve(y.a, unknown)
      BY DEF ThreeQueries, Then, ThenWith
    <3>2. Outcome(product, x) /\ Tight(product, x.a)
      BY OutsFlawed DEF Outs, Outcome
    <3>3. ASSUME NEW y \in Retrieve(x.a, other)
          PROVE  Outcome(product, y) /\ Tight(product, y.a)
      BY <3>2, OutsFlawed, ZenonT(60) DEF Outs, Outcome
    <3>4. ASSUME NEW y \in Retrieve(x.a, other), NEW z \in Retrieve(y.a, unknown)
          PROVE  Outcome(product, z)
      BY <3>3, OutsFlawed DEF Outs
    <3> QED BY <3>1, <3>2, <3>3, <3>4
  <2>2. r \in OrCleanUp(a, ThreeQueries(a))
    BY <1>6 DEF ValidationCheck
  <2> QED BY <1>6, <2>1, <2>2, OutsOrCleanUp DEF Outs, Words, Outcome
<1>7. CASE check = "deletion"
  <2>1. \/ r \in Says(a, "UNSUPPORTED")
        \/ r \in Caught(SaidAfter(DeleteOf(product, a, Missing), "PASS"), "PASS")
    BY <1>7 DEF ValidationCheck, ValidateDelete, SaidAfter
  <2>2. /\ Outs(Says(a, "UNSUPPORTED"))
        /\ Outs(Caught(SaidAfter(DeleteOf(product, a, Missing), "PASS"), "PASS"))
    BY Said, OutsFlawed, OutsSaid, OutsCaught
  <2> QED BY <1>7, <2>1, <2>2 DEF Outs, Outcome
<1>8. CASE check = "cleanup"
  <2>1. r \in SaidAfter(CleanupOf(product, a), "native")
    BY <1>8 DEF ValidationCheck, Closing, SaidAfter
  <2>2. Outs(CleanupOf(product, a)) /\ \A x \in CleanupOf(product, a) : x.a.open = FALSE
    BY OutsFlawed
  <2>3. Outcome(product, r) /\ \E x \in CleanupOf(product, a) : r.a = x.a
    BY <2>1, <2>2, OutsSaid DEF Outs
  <2> QED BY <1>8, <2>2, <2>3 DEF Outcome
<1>9. CASE check = "tracks"
  <2>1. \E w : r \in Says(a, w)
    BY <1>9 DEF ValidationCheck
  <2> QED BY <1>9, <2>1, Said
<1> QED BY <1>1, <1>2, <1>3, <1>4, <1>5, <1>6, <1>7, <1>8, <1>9

-----------------------------------------------------------------------------
(* The list of a gate, and how far it is worked through.                   *)
LEMMA PlanFacts ==
    ASSUME gate \in Gates
    PROVE  /\ Plan \in Seq({Plan[i] : i \in 1 .. Len(Plan)}) /\ Len(Plan) \in Nat
           /\ gate = "validation" =>
                /\ Len(Plan) = 9 /\ Plan[4] = "ingest" /\ Plan[6] = "retrieval"
                /\ Plan[8] = "cleanup" /\ Plan[9] = "tracks"
                /\ \A i \in 1 .. 9 :
                     /\ Plan[i] = "cleanup" => i = 8
                     /\ Plan[i] \in {"import", "manifest", "reset", "ingest", "readiness",
                                    "retrieval", "deletion", "cleanup", "tracks"}
<1>1. CASE gate = "contract"
  <2> DEFINE P == <<"metadata", "unregistered", "probe", "factory", "fresh_state", "dedup",
                    "ordering", "readiness", "canary_current", "read_only_retrieval",
                    "snapshot_restore", "canary_future", "canary_cross_user",
                    "canary_authority", "canary_multi_hop", "canary_deleted",
                    "error_normalization", "unknown_principal", "export_import", "restart",
                    "cleanup">>
  <2>1. Plan = P
    BY <1>1 DEF Plan
  <2>2. Len(P) = 21 /\ P = [i \in 1 .. 21 |-> P[i]]
    OBVIOUS
  <2> HIDE DEF P
  <2> QED BY <1>1, <2>1, <2>2
<1>2. CASE gate = "preflight"
  <2> DEFINE P == <<"network_egress", "compose_policy", "gold_inaccessibility",
                    "no_memory_control", "oracle_control", "canary_isolation",
                    "cross_user_isolation", "future_leakage", "query_mutation",
                    "fresh_state", "reader_statelessness">>
  <2>1. Plan = P
    BY <1>2 DEF Plan
  <2>2. Len(P) = 11 /\ P = [i \in 1 .. 11 |-> P[i]]
    OBVIOUS
  <2> HIDE DEF P
  <2> QED BY <1>2, <2>1, <2>2
<1>3. CASE gate = "validation"
  <2> DEFINE P == <<"import", "manifest", "reset", "ingest", "readiness", "retrieval",
                    "deletion", "cleanup", "tracks">>
  <2>1. Plan = P
    BY <1>3 DEF Plan
  <2>2. Len(P) = 9 /\ P = [i \in 1 .. 9 |-> P[i]]
    OBVIOUS
  <2>3. P[4] = "ingest" /\ P[6] = "retrieval" /\ P[8] = "cleanup" /\ P[9] = "tracks"
    OBVIOUS
  <2>4. \A i \in 1 .. 9 :
          /\ P[i] = "cleanup" => i = 8
          /\ P[i] \in {"import", "manifest", "reset", "ingest", "readiness",
                      "retrieval", "deletion", "cleanup", "tracks"}
    OBVIOUS
  <2> HIDE DEF P
  <2> QED BY <2>1, <2>2, <2>3, <2>4
<1>4. CASE gate = "supplement"
  <2> DEFINE P == <<"network_egress", "compose_policy", "gold_inaccessibility",
                    "no_memory_control", "oracle_control", "provider", "empty_at_start",
                    "probe_events", "canary_isolation", "cross_user_isolation",
                    "future_leakage", "query_mutation", "reader_statelessness", "cleanup">>
  <2>1. Plan = P
    BY <1>4 DEF Plan
  <2>2. Len(P) = 14 /\ P = [i \in 1 .. 14 |-> P[i]]
    OBVIOUS
  <2> HIDE DEF P
  <2> QED BY <1>4, <2>1, <2>2
<1> QED BY <1>1, <1>2, <1>3, <1>4 DEF Gates

Done(n) ==
    /\ n \in 0 .. Len(Plan)
    /\ Len(todo) = Len(Plan) - n
    /\ \A i \in 1 .. Len(todo) : todo[i] = Plan[n + i]
    /\ DOMAIN results = {Plan[i] : i \in 1 .. n}

CutShort == /\ gate = "contract" /\ todo = << >>
            /\ "contract_execution" \in DOMAIN results
            /\ results["contract_execution"] = "failed"

Passing(check) == check \in DOMAIN results => results[check] = "PASS"

(* While nothing has failed the records are those of the checks done, and  *)
(* of a validation the core steps passed.                                  *)
GateInv ==
    /\ gate \in Gates /\ product \in AllProducts /\ (\E S : todo \in Seq(S))
    /\ registry \subseteq {product} /\ (gate # "contract" => registry = {})
    /\ (\E n \in Nat : Done(n)) \/ CutShort
    /\ verdict = "passed" => todo = << >> /\ Failed = {}
    /\ gate = "validation" /\ verdict \in {"running", "passed"} =>
         /\ Tight(product, a)
         /\ Passing("ingest") /\ Passing("retrieval")
         /\ "cleanup" \in DOMAIN results => a.open = FALSE
    /\ product \in registry /\ "unregistered" \in DOMAIN results => verdict = "passed"

LEMMA GateInvInit == Init => GateInv
<1> SUFFICES ASSUME Init PROVE GateInv
  OBVIOUS
<1>1. gate \in Gates /\ product \in AllProducts
  BY ProductsAssumption DEF Init, ProductsOf
<1>2. todo = Plan /\ results = << >> /\ DOMAIN results = {}
  BY DEF Init
<1>3. Plan \in Seq({Plan[i] : i \in 1 .. Len(Plan)}) /\ Len(Plan) \in Nat
  BY <1>1, PlanFacts
<1>4. Done(0)
  BY <1>2, <1>3 DEF Done
<1>5. Tight(product, a)
  BY DEF Init, Blank, Tight
<1>6. registry \subseteq {product} /\ (gate # "contract" => registry = {})
  BY DEF Init
<1>7. verdict = "running"
  BY DEF Init
<1> QED BY <1>1, <1>2, <1>3, <1>4, <1>5, <1>6, <1>7 DEF GateInv, Passing

LEMMA SamePlan == gate' = gate => Plan' = Plan
<1> SUFFICES ASSUME gate' = gate PROVE Plan' = Plan
  OBVIOUS
<1> QED BY DEF Plan

LEMMA StepReturns == GateInv /\ CheckReturns => GateInv'
<1> SUFFICES ASSUME GateInv, CheckReturns PROVE GateInv'
  OBVIOUS
<1>1. /\ gate \in Gates /\ product \in AllProducts /\ registry \subseteq {product}
      /\ gate # "contract" => registry = {}
      /\ gate = "validation" =>
           /\ Tight(product, a) /\ Passing("ingest") /\ Passing("retrieval")
           /\ "cleanup" \in DOMAIN results => a.open = FALSE
      /\ product \in registry => "unregistered" \notin DOMAIN results
  BY DEF GateInv, CheckReturns
<1>2. /\ gate' = gate /\ product' = product /\ registry' = registry
      /\ todo # << >> /\ todo' = Tail(todo)
  BY DEF CheckReturns
<1>3. PICK n \in Nat : Done(n)
  BY <1>2 DEF GateInv, CutShort
<1>4. PICK S : todo \in Seq(S)
  BY DEF GateInv
<1>c. PICK c : c = Head(todo)
  OBVIOUS
<1>5. PICK r \in CheckOf(c, a) :
         /\ ~r.raised /\ a' = r.a
         /\ results' = Recorded(c, IF Measured(c) THEN "not_applicable" ELSE r.value.is)
         /\ verdict' = IF EndsWith(c, IF Measured(c) THEN "not_applicable" ELSE r.value.is)
                       THEN "failed" ELSE "running"
  BY <1>c DEF CheckReturns
<1>6. Plan' = Plan /\ Len(Plan) \in Nat
  BY <1>1, <1>2, SamePlan, PlanFacts
<1>7. /\ n < Len(Plan) /\ c = Plan[n + 1] /\ Len(todo') = Len(Plan) - (n + 1)
      /\ \A i \in 1 .. Len(todo') : todo'[i] = Plan[(n + 1) + i]
      /\ todo' \in Seq(S)
  <2>1. Len(todo) \in Nat \ {0} /\ Len(todo) = Len(Plan) - n /\ n < Len(Plan)
    BY <1>2, <1>3, <1>4, <1>6 DEF Done
  <2>2. /\ c = todo[1] /\ Len(todo') = Len(todo) - 1 /\ todo' \in Seq(S)
        /\ \A i \in 1 .. Len(todo') : todo'[i] = todo[i + 1]
    BY <1>2, <1>4, <1>c, <2>1
  <2>3. \A i \in 1 .. Len(todo) : todo[i] = Plan[n + i]
    BY <1>3 DEF Done
  <2>4. ASSUME NEW i \in 1 .. Len(todo') PROVE todo'[i] = Plan[(n + 1) + i]
    <3>1. i + 1 \in 1 .. Len(todo) /\ n + (i + 1) = (n + 1) + i
      BY <2>1, <2>2
    <3> QED BY <2>2, <2>3, <3>1
  <2>5. c = Plan[n + 1] /\ Len(todo') = Len(Plan) - (n + 1)
    <3>1. 1 \in 1 .. Len(todo)
      BY <2>1
    <3> QED BY <1>6, <2>1, <2>2, <2>3, <3>1
  <2> QED BY <2>1, <2>2, <2>4, <2>5
<1>8. /\ DOMAIN results' = {c} \cup DOMAIN results
      /\ results'[c] = IF Measured(c) THEN "not_applicable" ELSE r.value.is
      /\ \A d \in DOMAIN results \ {c} : results'[d] = results[d]
  <2>w. PICK w : w = IF Measured(c) THEN "not_applicable" ELSE r.value.is
    OBVIOUS
  <2>1. results' = Recorded(c, w)
    BY <1>5, <2>w
  <2>2. /\ DOMAIN results' = {c} \cup DOMAIN results /\ results'[c] = w
        /\ \A d \in DOMAIN results \ {c} : results'[d] = results[d]
    BY <2>1 DEF Recorded
  <2> QED BY <2>2, <2>w
<1>9. Done(n + 1)'
  <2>1. DOMAIN results' = {Plan[i] : i \in 1 .. n + 1}
    <3>1. DOMAIN results = {Plan[i] : i \in 1 .. n}
      BY <1>3 DEF Done
    <3>2. 1 .. n + 1 = (1 .. n) \cup {n + 1}
      OBVIOUS
    <3> QED BY <1>7, <1>8, <3>1, <3>2
  <2> QED BY <1>6, <1>7, <2>1 DEF Done
<1>10. product \in registry => "unregistered" \notin DOMAIN results'
  <2> SUFFICES ASSUME product \in registry, c = "unregistered" PROVE FALSE
    BY <1>1, <1>8
  <2>1. gate = "contract"
    BY <1>1
  <2>2. r \in {Refused(a)}
    BY <1>5, <2>1 DEF CheckOf, ContractCheck
  <2> QED BY <1>5, <2>2 DEF Refused
<1>11. ASSUME gate = "validation", verdict' \in {"running", "passed"}
       PROVE  /\ Tight(product, a')
              /\ Passing("ingest")' /\ Passing("retrieval")'
              /\ "cleanup" \in DOMAIN results' => a'.open = FALSE
  <2>1. /\ n + 1 \in 1 .. 9 /\ Plan[9] = "tracks"
        /\ \A i \in 1 .. 9 : Plan[i] = "cleanup" => i = 8
        /\ c \in {"import", "manifest", "reset", "ingest", "readiness",
                  "retrieval", "deletion", "cleanup", "tracks"}
    <3>1. Len(Plan) = 9
      BY <1>1, <1>11, PlanFacts
    <3>2. n + 1 \in 1 .. 9
      BY <1>7, <3>1
    <3> QED BY <1>1, <1>7, <1>11, <3>2, PlanFacts
  <2>2. r \in ValidationCheck(c, a)
    BY <1>5, <1>11 DEF CheckOf
  <2>3. /\ Tight(product, r.a)
        /\ c \in {"ingest", "retrieval"} => r.value.is \in {"PASS", "FAIL"}
        /\ c = "cleanup" => r.a.open = FALSE
        /\ c = "tracks" => r.a = a
    BY <1>1, <1>5, <1>11, <2>1, <2>2, ValidationOutcome
  <2>4. ~Measured(c)
    BY <2>1 DEF Measured
  <2>5. c \in {"ingest", "retrieval"} => results'[c] = "PASS"
    BY <1>5, <1>8, <1>11, <2>3, <2>4 DEF EndsWith
  <2>6. Passing("ingest")' /\ Passing("retrieval")'
    BY <1>1, <1>8, <1>11, <2>5 DEF Passing
  <2>7. ASSUME "cleanup" \in DOMAIN results' PROVE a'.open = FALSE
    <3>1. CASE c = "cleanup"
      BY <1>5, <2>3, <3>1
    <3>2. CASE c # "cleanup"
      <4>1. "cleanup" \in DOMAIN results
        BY <1>8, <2>7, <3>2
      <4>2. PICK i \in 1 .. n : Plan[i] = "cleanup"
        BY <1>3, <4>1 DEF Done
      <4>3. n + 1 = 9
        BY <2>1, <3>2, <4>2, <1>7
      <4> QED BY <1>1, <1>5, <1>7, <1>11, <2>1, <2>3, <4>1, <4>3
    <3> QED BY <3>1, <3>2
  <2> QED BY <1>5, <2>3, <2>6, <2>7
<1>12. verdict' # "passed"
  BY <1>5
<1>13. \E m \in Nat : Done(m)'
  BY <1>9
<1>14. \E T : todo' \in Seq(T)
  BY <1>7
<1> QED BY <1>1, <1>2, <1>10, <1>11, <1>12, <1>13, <1>14 DEF GateInv

LEMMA StepRaises == GateInv /\ CheckRaises => GateInv'
<1> SUFFICES ASSUME GateInv, CheckRaises PROVE GateInv'
  OBVIOUS
<1>1. /\ gate' = gate /\ product' = product /\ registry' = registry
      /\ verdict = "running" /\ todo # << >>
  BY DEF CheckRaises
<1>2. Plan' = Plan
  BY <1>1, SamePlan
<1>3. CASE Unguarded(Head(todo))
  <2>1. verdict' = "raised" /\ todo' = todo /\ results' = results
    BY <1>3 DEF CheckRaises
  <2>2. \A n : Done(n)' <=> Done(n)
    BY <1>2, <2>1 DEF Done
  <2>3. CutShort' <=> CutShort
    BY <1>1, <2>1 DEF CutShort
  <2> QED BY <1>1, <2>1, <2>2, <2>3 DEF GateInv
<1>4. CASE ~Unguarded(Head(todo))
  <2>1. /\ results' = Recorded("contract_execution", "failed")
        /\ todo' = << >> /\ verdict' = verdict /\ gate = "contract"
    BY <1>4 DEF CheckRaises, Unguarded
  <2>2. /\ DOMAIN results' = {"contract_execution"} \cup DOMAIN results
        /\ results'["contract_execution"] = "failed"
    BY <2>1 DEF Recorded
  <2>3. CutShort'
    BY <1>1, <2>1, <2>2 DEF CutShort
  <2>4. todo' \in Seq({})
    BY <2>1
  <2> QED BY <1>1, <2>1, <2>2, <2>3, <2>4 DEF GateInv
<1> QED BY <1>3, <1>4

LEMMA StepConcludes == GateInv /\ Conclude => GateInv'
<1> SUFFICES ASSUME GateInv, Conclude PROVE GateInv'
  OBVIOUS
<1>1. /\ gate' = gate /\ product' = product /\ todo' = todo /\ results' = results /\ a' = a
      /\ verdict = "running" /\ todo = << >>
      /\ verdict' = IF Failed = {} THEN "passed" ELSE "failed"
      /\ registry' = IF gate = "contract" /\ Failed = {} THEN registry \cup {product} ELSE registry
  BY DEF Conclude
<1>2. Plan' = Plan
  BY <1>1, SamePlan
<1>3. \A n : Done(n)' <=> Done(n)
  BY <1>1, <1>2 DEF Done
<1>4. CutShort' <=> CutShort
  BY <1>1 DEF CutShort
<1>5. /\ Failed' = Failed /\ (Passing("ingest")' <=> Passing("ingest"))
      /\ (Passing("retrieval")' <=> Passing("retrieval"))
  BY <1>1 DEF Failed, Passing
<1> QED BY <1>1, <1>3, <1>4, <1>5 DEF GateInv

LEMMA GateInvNext == GateInv /\ [Next]_vars => GateInv'
<1>1. GateInv /\ UNCHANGED vars => GateInv'
  <2> SUFFICES ASSUME GateInv, UNCHANGED vars PROVE GateInv'
    OBVIOUS
  <2>1. /\ gate' = gate /\ product' = product /\ todo' = todo /\ results' = results /\ a' = a
        /\ verdict' = verdict /\ registry' = registry
    BY DEF vars
  <2>2. \A n : Done(n)' <=> Done(n)
    BY <2>1, SamePlan, SMTT(30) DEF Done
  <2>3. /\ CutShort' <=> CutShort
        /\ Failed' = Failed /\ (Passing("ingest")' <=> Passing("ingest"))
        /\ (Passing("retrieval")' <=> Passing("retrieval"))
    BY <2>1 DEF CutShort, Failed, Passing
  <2> QED BY <2>1, <2>2, <2>3 DEF GateInv
<1> QED BY <1>1, StepReturns, StepRaises, StepConcludes DEF Next

LEMMA PassedOnceDone == GateInv => PassedIsComplete
<1> SUFFICES ASSUME GateInv PROVE PassedIsComplete
  OBVIOUS
<1>1. product \in registry /\ "unregistered" \in DOMAIN results => verdict = "passed"
  BY DEF GateInv
<1>2. ASSUME verdict = "passed"
      PROVE  /\ DOMAIN results = {Plan[i] : i \in 1 .. Len(Plan)}
             /\ gate = "validation" =>
                  results["ingest"] = "PASS" /\ results["retrieval"] = "PASS" /\ ~a.open
  <2>1. todo = << >> /\ Failed = {} /\ gate \in Gates
    BY <1>2 DEF GateInv
  <2>2. ~CutShort
    BY <2>1 DEF CutShort, Failed
  <2>3. PICK n \in Nat : Done(n)
    BY <2>2 DEF GateInv
  <2>4. n = Len(Plan)
    <3>1. Len(todo) = 0 /\ Len(Plan) \in Nat /\ Len(todo) = Len(Plan) - n
      BY <2>1, <2>3, PlanFacts DEF Done
    <3> QED BY <3>1
  <2>5. DOMAIN results = {Plan[i] : i \in 1 .. Len(Plan)}
    BY <2>3, <2>4 DEF Done
  <2>6. ASSUME gate = "validation"
        PROVE  {"ingest", "retrieval", "cleanup"} \subseteq DOMAIN results
    <3>1. Len(Plan) = 9 /\ Plan[4] = "ingest" /\ Plan[6] = "retrieval" /\ Plan[8] = "cleanup"
      BY <2>1, <2>6, PlanFacts
    <3>2. 4 \in 1 .. 9 /\ 6 \in 1 .. 9 /\ 8 \in 1 .. 9
      OBVIOUS
    <3> QED BY <2>5, <3>1, <3>2
  <2>7. gate = "validation" =>
           /\ Passing("ingest") /\ Passing("retrieval")
           /\ "cleanup" \in DOMAIN results => a.open = FALSE
    BY <1>2 DEF GateInv
  <2> QED BY <2>5, <2>6, <2>7 DEF Passing
<1> QED BY <1>1, <1>2 DEF PassedIsComplete

(* A gate that passes has made and recorded every check of its list, and   *)
(* what was not registered before is so only once its contract has passed  *)
(* (run_contract, registry.py); a validation that passes has ingested,     *)
(* retrieved and closed the provider (scripts/validate_provider.py).       *)
THEOREM GatesPassedIsComplete == Spec => []PassedIsComplete
<1>1. Init => GateInv
  BY GateInvInit
<1>2. GateInv /\ [Next]_vars => GateInv'
  BY GateInvNext
<1>3. GateInv => PassedIsComplete
  BY PassedOnceDone
<1> QED BY <1>1, <1>2, <1>3, PTL DEF Spec

-----------------------------------------------------------------------------
(* What a gate looks for in the surroundings is among its first checks.    *)
LEMMA PlanLooks ==
    ASSUME gate \in Gates
    PROVE  /\ gate = "contract" => Len(Plan) = 21 /\ Plan[1] = "metadata" /\ Plan[3] = "probe"
           /\ gate \in {"preflight", "supplement"} =>
                /\ Len(Plan) \in {11, 14}
                /\ Plan[1] = "network_egress" /\ Plan[2] = "compose_policy"
                /\ Plan[3] = "gold_inaccessibility" /\ Plan[4] = "no_memory_control"
<1>1. CASE gate = "contract"
  BY <1>1 DEF Plan
<1>2. CASE gate = "preflight"
  BY <1>2 DEF Plan
<1>3. CASE gate = "validation"
  BY <1>3
<1>4. CASE gate = "supplement"
  BY <1>4 DEF Plan
<1> QED BY <1>1, <1>2, <1>3, <1>4 DEF Gates

FailedIf(check, wrong) == check \in DOMAIN results /\ wrong => results[check] = "failed"

(* What the checks of the surroundings recorded.                           *)
Surrounded ==
    /\ gate \in {"preflight", "supplement"} =>
         setup.compose = {"missing file"}
           \/ setup.compose \subseteq {"host network", "no internal network", "private mount"}
    /\ gate = "validation" => setup.manifest \in {"PASS", "FAIL", "MISSING", "MISMATCH"}

LookedAround ==
    /\ Surrounded
    /\ gate = "contract" =>
         /\ "metadata" \in DOMAIN results => setup.meta
         /\ "probe" \in DOMAIN results /\ verdict \in {"running", "passed"} =>
              (setup.containerized => setup.probe)
    /\ gate \in {"preflight", "supplement"} =>
         /\ FailedIf("network_egress", setup.containerized)
         /\ FailedIf("compose_policy", ComposeIssues(setup.compose) # {})
         /\ FailedIf("gold_inaccessibility", setup.goldInside)
         /\ FailedIf("no_memory_control", setup.reader \in {"leaks", "fails", "none"})
    /\ gate = "validation" =>
         ("tracks" \in DOMAIN results /\ verdict \in {"running", "passed"} => setup.manifest # "MISMATCH")

LEMMA LookedNext == GateInv /\ LookedAround /\ [Next]_vars => LookedAround'
<1> SUFFICES ASSUME GateInv, LookedAround, [Next]_vars PROVE LookedAround'
  OBVIOUS
<1>1. ASSUME CheckReturns PROVE LookedAround'
  <2>1. gate' = gate /\ setup' = setup /\ gate \in Gates /\ verdict = "running"
    BY <1>1 DEF CheckReturns, GateInv
  <2>c. PICK c : c = Head(todo)
    OBVIOUS
  <2>2. PICK r \in CheckOf(c, a) :
           /\ ~r.raised
           /\ results' = Recorded(c, IF Measured(c) THEN "not_applicable" ELSE r.value.is)
           /\ verdict' = IF EndsWith(c, IF Measured(c) THEN "not_applicable" ELSE r.value.is)
                         THEN "failed" ELSE "running"
    BY <1>1, <2>c DEF CheckReturns
  <2>w. PICK w : w = IF Measured(c) THEN "not_applicable" ELSE r.value.is
    OBVIOUS
  <2>3. /\ DOMAIN results' = {c} \cup DOMAIN results /\ results'[c] = w
        /\ \A d \in DOMAIN results \ {c} : results'[d] = results[d]
        /\ verdict' = IF EndsWith(c, w) THEN "failed" ELSE "running"
    BY <2>2, <2>w DEF Recorded
  <2>4. c \in {"metadata", "probe", "network_egress", "compose_policy",
              "gold_inaccessibility", "no_memory_control", "tracks"} => w = r.value.is
    BY <2>w DEF Measured
  <2>s. ASSUME NEW word, r \in Says(a, word) PROVE ~r.raised /\ r.value.is = word
    BY <2>s DEF Says, Returned
  <2>j. ASSUME NEW ok, r \in Judge(a, ok) PROVE r.value.is = IF ok THEN "native" ELSE "failed"
    BY <2>j DEF Judge, Found, Returned
  <2>5. ASSUME gate = "contract"
        PROVE  /\ "metadata" \in DOMAIN results' => setup.meta
               /\ "probe" \in DOMAIN results' /\ verdict' \in {"running", "passed"} =>
                    (setup.containerized => setup.probe)
    <3>1. r \in ContractCheck(c, a)
      BY <2>2, <2>5 DEF CheckOf
    <3>2. c = "metadata" => setup.meta
      BY <2>2, <3>1 DEF ContractCheck, Refused
    <3>3. ASSUME c = "probe", verdict' # "failed" PROVE setup.containerized => setup.probe
      <4>1. r \in Judge(a, setup.containerized => setup.probe)
        BY <3>1, <3>3 DEF ContractCheck
      <4> QED BY <2>3, <2>4, <2>j, <3>3, <4>1 DEF EndsWith
    <3> QED BY <2>1, <2>3, <2>5, <3>2, <3>3 DEF LookedAround
  <2>6. ASSUME gate \in {"preflight", "supplement"}
        PROVE  /\ FailedIf("network_egress", setup.containerized)'
               /\ FailedIf("compose_policy", ComposeIssues(setup.compose) # {})'
               /\ FailedIf("gold_inaccessibility", setup.goldInside)'
               /\ FailedIf("no_memory_control", setup.reader \in {"leaks", "fails", "none"})'
    <3>1. ASSUME c \in {"network_egress", "compose_policy", "gold_inaccessibility",
                       "no_memory_control"}
          PROVE  r \in PreflightCheck(c, a)
      BY <2>2, <2>6, <3>1 DEF CheckOf, SupplementCheck
    <3>2. c = "network_egress" => (setup.containerized => w = "failed")
      <4>1. c = "network_egress" =>
               r \in Says(a, IF setup.containerized THEN "failed" ELSE "not_applicable")
        BY <3>1 DEF PreflightCheck
      <4> QED BY <2>4, <2>s, <4>1
    <3>3. c = "compose_policy" => (ComposeIssues(setup.compose) # {} => w = "failed")
      <4>1. c = "compose_policy" => r \in Judge(a, ComposeIssues(setup.compose) = {})
        BY <3>1 DEF PreflightCheck
      <4> QED BY <2>4, <2>j, <4>1
    <3>4. c = "gold_inaccessibility" => (setup.goldInside => w = "failed")
      <4>1. c = "gold_inaccessibility" => r \in Judge(a, ~setup.goldInside)
        BY <3>1 DEF PreflightCheck
      <4> QED BY <2>4, <2>j, <4>1
    <3>5. c = "no_memory_control" =>
             (setup.reader \in {"leaks", "fails", "none"} => w = "failed")
      <4>1. c = "no_memory_control" => r \in ReaderAbstains(a)
        BY <3>1 DEF PreflightCheck
      <4>2. c = "no_memory_control" =>
               r \in Says(a, CASE setup.reader = "offline" -> "not_applicable"
                               [] setup.reader = "abstains" -> "native"
                               [] OTHER -> "failed")
        BY <4>1 DEF ReaderAbstains
      <4> QED BY <2>4, <2>s, <4>2
    <3>6. ASSUME NEW check, NEW wrong, FailedIf(check, wrong),
                 c = check => (wrong => w = "failed")
          PROVE  check \in DOMAIN results' /\ wrong => results'[check] = "failed"
      BY <2>3, <3>6 DEF FailedIf
    <3>7. /\ FailedIf("network_egress", setup.containerized)
          /\ FailedIf("compose_policy", ComposeIssues(setup.compose) # {})
          /\ FailedIf("gold_inaccessibility", setup.goldInside)
          /\ FailedIf("no_memory_control", setup.reader \in {"leaks", "fails", "none"})
      BY <2>6 DEF LookedAround
    <3> QED BY <2>1, <3>2, <3>3, <3>4, <3>5, <3>6, <3>7 DEF FailedIf
  <2>7. ASSUME gate = "validation"
        PROVE  "tracks" \in DOMAIN results' /\ verdict' \in {"running", "passed"} =>
                 setup.manifest # "MISMATCH"
    <3>1. c = "tracks" =>
             r \in Says(a, IF setup.manifest = "MISMATCH" THEN "MISMATCH" ELSE "PASS")
      BY <2>2, <2>7 DEF CheckOf, ValidationCheck
    <3>2. c = "tracks" /\ setup.manifest = "MISMATCH" => verdict' = "failed"
      BY <2>3, <2>4, <2>7, <2>s, <3>1 DEF EndsWith
    <3> QED BY <2>1, <2>3, <2>7, <3>2 DEF LookedAround
  <2>8. Surrounded'
    BY <2>1 DEF LookedAround, Surrounded
  <2> QED BY <2>1, <2>5, <2>6, <2>7, <2>8 DEF LookedAround
<1>2. ASSUME CheckRaises PROVE LookedAround'
  <2>1. gate' = gate /\ setup' = setup /\ verdict = "running" /\ verdict' \in {"running", "raised"}
    BY <1>2 DEF CheckRaises
  <2>2. CASE results' = results
    <3>1. CASE gate = "contract"
      BY <2>1, <2>2, <3>1 DEF LookedAround, Surrounded
    <3>2. CASE gate \in {"preflight", "supplement"}
      BY <2>1, <2>2, <3>2 DEF LookedAround, FailedIf, Surrounded
    <3>3. CASE gate = "validation"
      BY <2>1, <2>2, <3>3 DEF LookedAround, Surrounded
    <3> QED BY <3>1, <3>2, <3>3 DEF GateInv, Gates
  <2>3. CASE gate = "contract" /\ results' = Recorded("contract_execution", "failed")
    <3>1. DOMAIN results' = {"contract_execution"} \cup DOMAIN results
      BY <2>3 DEF Recorded
    <3> QED BY <2>1, <2>3, <3>1 DEF LookedAround, Surrounded
  <2> QED BY <1>2, <2>2, <2>3 DEF CheckRaises, Unguarded
<1>3. ASSUME Conclude PROVE LookedAround'
  <2>1. gate' = gate /\ setup' = setup /\ results' = results /\ verdict = "running"
    BY <1>3 DEF Conclude
  <2>2. CASE gate = "contract"
    BY <2>1, <2>2 DEF LookedAround, Surrounded
  <2>3. CASE gate \in {"preflight", "supplement"}
    BY <2>1, <2>3 DEF LookedAround, FailedIf, Surrounded
  <2>4. CASE gate = "validation"
    BY <2>1, <2>4 DEF LookedAround, Surrounded
  <2> QED BY <2>2, <2>3, <2>4 DEF GateInv, Gates
<1>4. ASSUME UNCHANGED vars PROVE LookedAround'
  <2>1. gate' = gate /\ setup' = setup /\ results' = results /\ verdict' = verdict
    BY <1>4 DEF vars
  <2>2. CASE gate = "contract"
    BY <2>1, <2>2 DEF LookedAround, Surrounded
  <2>3. CASE gate \in {"preflight", "supplement"}
    BY <2>1, <2>3 DEF LookedAround, FailedIf, Surrounded
  <2>4. CASE gate = "validation"
    BY <2>1, <2>4 DEF LookedAround, Surrounded
  <2> QED BY <2>2, <2>3, <2>4 DEF GateInv, Gates
<1> QED BY <1>1, <1>2, <1>3, <1>4 DEF Next

SuspectFails == Suspect => verdict # "passed"

LEMMA SuspectFailsThen == GateInv /\ LookedAround => SuspectFails
<1> SUFFICES ASSUME GateInv, LookedAround, verdict = "passed" PROVE ~Suspect
  BY DEF SuspectFails
<1>1. /\ gate \in Gates /\ Failed = {}
      /\ DOMAIN results = {Plan[i] : i \in 1 .. Len(Plan)}
  BY PassedOnceDone DEF PassedIsComplete, GateInv
<1>2. \A check \in DOMAIN results : results[check] # "failed"
  BY <1>1 DEF Failed
<1>3. CASE gate = "contract"
  <2>1. "metadata" \in DOMAIN results /\ "probe" \in DOMAIN results
    <3>1. 1 \in 1 .. 21 /\ 3 \in 1 .. 21
      OBVIOUS
    <3> QED BY <1>1, <1>3, <3>1, PlanLooks
  <2> QED BY <1>3, <2>1 DEF LookedAround, Suspect
<1>4. CASE gate \in {"preflight", "supplement"}
  <2>1. {"network_egress", "compose_policy", "gold_inaccessibility", "no_memory_control"}
           \subseteq DOMAIN results
    <3>1. Len(Plan) \in {11, 14}
      BY <1>1, <1>4, PlanLooks
    <3>2. \A i \in 1 .. 4 : i \in 1 .. Len(Plan)
      <4>1. \A i \in 1 .. 4 : i \in 1 .. 11 /\ i \in 1 .. 14
        OBVIOUS
      <4>2. Len(Plan) = 11 \/ Len(Plan) = 14
        BY <3>1
      <4>3. CASE Len(Plan) = 11
        BY <4>1, <4>3
      <4>4. CASE Len(Plan) = 14
        BY <4>1, <4>4
      <4> QED BY <4>2, <4>3, <4>4
    <3>3. /\ Plan[1] = "network_egress" /\ Plan[2] = "compose_policy"
          /\ Plan[3] = "gold_inaccessibility" /\ Plan[4] = "no_memory_control"
      BY <1>1, <1>4, PlanLooks
    <3>4. \A i \in 1 .. Len(Plan) : Plan[i] \in DOMAIN results
      BY <1>1
    <3>5. /\ Plan[1] \in DOMAIN results /\ Plan[2] \in DOMAIN results
          /\ Plan[3] \in DOMAIN results /\ Plan[4] \in DOMAIN results
      <4>1. 1 \in 1 .. 4 /\ 2 \in 1 .. 4 /\ 3 \in 1 .. 4 /\ 4 \in 1 .. 4
        OBVIOUS
      <4> QED BY <3>2, <3>4, <4>1
    <3> QED BY <3>3, <3>5
  <2>2. /\ ~setup.containerized /\ ComposeIssues(setup.compose) = {} /\ ~setup.goldInside
        /\ setup.reader \notin {"leaks", "fails", "none"}
    BY <1>2, <1>4, <2>1 DEF LookedAround, FailedIf
  <2>3. setup.compose \ Noted = {}
    BY <1>4, <2>2 DEF LookedAround, Surrounded, ComposeIssues, Noted
  <2> QED BY <1>4, <2>2, <2>3 DEF Suspect
<1>5. CASE gate = "validation"
  <2>1. "tracks" \in DOMAIN results
    <3>1. 9 \in 1 .. 9
      OBVIOUS
    <3> QED BY <1>1, <1>5, <3>1, PlanFacts
  <2> QED BY <1>1, <1>5, <2>1 DEF LookedAround, Surrounded, Suspect, Noted
<1> QED BY <1>1, <1>3, <1>4, <1>5 DEF Gates

LEMMA LookedInit == Init => LookedAround
<1> SUFFICES ASSUME Init PROVE LookedAround
  OBVIOUS
<1>1. DOMAIN results = {}
  BY DEF Init
<1>2. Surrounded
  BY DEF Init, Setups, Surrounded
<1> QED BY <1>1, <1>2 DEF LookedAround, FailedIf

-----------------------------------------------------------------------------
(* The adapters that are given flaws, and what the checks can tell of      *)
(* their state: what is listed, and of Hindsight that it is stored.        *)
Flawable == {"hindsight", "full-context", "gbrain-ollama"}

Plain(p, s) ==
    /\ {"listed", "store", "made", "faults"} \subseteq DOMAIN s
    /\ s.made \in Nat
    /\ p = "hindsight" => s.listed \X {0} \subseteq s.store

Leaves(p, r, L) == ~r.raised => Plain(p, r.a) /\ r.a.listed = L

(* The calls of a sound adapter, as far as the checks depend on them.      *)
Moves(p, s) ==
    /\ \A r \in NewOf(p, s) : Leaves(p, r, {})
    /\ \A r \in ResetOf(p, s) : Leaves(p, r, {})
    /\ \A b : \A r \in IngestOf(p, s, b) : Leaves(p, r, s.listed \cup b)
    /\ \A r \in AwaitReadyOf(p, s) : Leaves(p, r, s.listed)
    /\ \A q : \A r \in RetrieveOf(p, s, q) :
         /\ r = [a |-> r.a, raised |-> r.raised, value |-> r.value]
         /\ ~r.raised => r.a = s /\ r.value \subseteq s.listed \cap Visible[q]
    /\ SnapshotOf(p, s).hash = <<s.listed>> /\ SnapshotOf(p, s).events = s.listed

(* What the contract asks for besides.                                     *)
MovesOn(p, s) ==
    /\ \A e : \A r \in DeleteOf(p, s, e) : Leaves(p, r, s.listed \ {e})
    /\ \A q : Returned(s, s.listed \cap Visible[q]) \in RetrieveOf(p, s, q)

LEMMA HindsightMoves ==
    ASSUME NEW p, p = "hindsight", NEW s, Plain(p, s)
    PROVE  Moves(p, s) /\ MovesOn(p, s)
<1> USE DEF Mem0s, GBrains, OptMems, Lists, Fixed
<1>1. ASSUME NEW r \in NewOf(p, s), ~r.raised PROVE Plain(p, r.a) /\ r.a.listed = {}
  <2>1. r = Hindsight!Returned([s EXCEPT !.listed = {}], {})
    BY <1>1 DEF NewOf, Hindsight!New, Hindsight!RaisedFrom, Hindsight!Refused
  <2>2. Plain(p, [s EXCEPT !.listed = {}]) /\ [s EXCEPT !.listed = {}].listed = {}
    BY DEF Plain
  <2> QED BY <2>1, <2>2 DEF Hindsight!Returned
<1>2. ASSUME NEW r \in ResetOf(p, s), ~r.raised PROVE Plain(p, r.a) /\ r.a.listed = {}
  <2>1. \E b \in {[s EXCEPT !.store = {}], Hindsight!Failing(s)} :
           r.a = [b EXCEPT !.listed = {}]
    BY <1>2 DEF ResetOf, Hindsight!Reset, Hindsight!RaisedFrom, Hindsight!Refused, Hindsight!Returned
  <2>2. CASE r.a = [[s EXCEPT !.store = {}] EXCEPT !.listed = {}]
    BY <2>2 DEF Plain
  <2>3. CASE r.a = [Hindsight!Failing(s) EXCEPT !.listed = {}]
    BY <2>3 DEF Plain, Hindsight!Failing
  <2> QED BY <2>1, <2>2, <2>3
<1>3. ASSUME NEW b, NEW r \in IngestOf(p, s, b), ~r.raised
      PROVE  Plain(p, r.a) /\ r.a.listed = s.listed \cup b
  <2> DEFINE fresh == b \ s.listed
             w == [s EXCEPT !.store = @ \cup (fresh \X {0})]
             x == [w EXCEPT !.listed = @ \cup fresh]
  <2>0. \/ fresh = {} /\ r = Hindsight!Returned(s, 0)
        \/ \E v : r = Hindsight!Returned(x, v)
        \/ \E c : r = Hindsight!RaisedFrom(c)
    <3>1. r \in Hindsight!Ingest(s, b)
      BY DEF IngestOf
    <3> QED BY <3>1 DEF Hindsight!Ingest, Hindsight!Documents
  <2>1. \/ fresh = {} /\ r.a = s
        \/ r.a = x
    <3> HIDE DEF x, w, fresh
    <3> QED BY <1>3, <2>0 DEF Hindsight!RaisedFrom, Hindsight!Refused, Hindsight!Returned
  <2>2. Plain(p, x) /\ x.listed = s.listed \cup fresh
    <3>1. DOMAIN x = DOMAIN s /\ x.made = s.made /\ x.listed = s.listed \cup fresh
          /\ x.store = s.store \cup (fresh \X {0})
      BY DEF Plain
    <3> HIDE DEF x, w
    <3> QED BY <3>1 DEF Plain
  <2>3. s.listed \cup fresh = s.listed \cup b
    OBVIOUS
  <2> HIDE DEF x
  <2> QED BY <2>1, <2>2, <2>3
<1>4. ASSUME NEW r \in AwaitReadyOf(p, s), ~r.raised PROVE r.a = s
  BY <1>4 DEF AwaitReadyOf, Hindsight!AwaitReady, Hindsight!RaisedFrom, Hindsight!Refused,
              Hindsight!Returned
<1>5. ASSUME NEW e, NEW r \in DeleteOf(p, s, e), ~r.raised
      PROVE  Plain(p, r.a) /\ r.a.listed = s.listed \ {e}
  <2> DEFINE w == [s EXCEPT !.store = @ \ ({e} \X {0})]
             x == [w EXCEPT !.listed = @ \ {e}]
  <2>1. \/ e \notin s.listed /\ r.a = s
        \/ r.a = x
    BY <1>5 DEF DeleteOf, Hindsight!Delete, Hindsight!RaisedFrom, Hindsight!Refused,
                Hindsight!Returned, Hindsight!Documents
  <2>2. Plain(p, x) /\ x.listed = s.listed \ {e}
    <3>1. DOMAIN x = DOMAIN s /\ x.made = s.made /\ x.listed = s.listed \ {e}
          /\ x.store = s.store \ ({e} \X {0})
      BY DEF Plain
    <3> HIDE DEF x, w
    <3> QED BY <3>1 DEF Plain
  <2> HIDE DEF x
  <2> QED BY <2>1, <2>2
<1>6. ASSUME NEW q, NEW r \in RetrieveOf(p, s, q)
      PROVE  /\ r = [a |-> r.a, raised |-> r.raised, value |-> r.value]
             /\ ~r.raised => r.a = s /\ r.value \subseteq s.listed \cap Visible[q]
  <2>1. \/ r = Hindsight!RaisedFrom(s)
        \/ \E hits : r = Hindsight!Returned(s, hits \cap s.listed \cap Visible[q])
    BY DEF RetrieveOf, Hindsight!Retrieve
  <2> QED BY <2>1 DEF Hindsight!RaisedFrom, Hindsight!Refused, Hindsight!Returned
<1>7. ASSUME NEW q PROVE Returned(s, s.listed \cap Visible[q]) \in RetrieveOf(p, s, q)
  <2>1. s.listed \subseteq Hindsight!Stored(s)
    <3> SUFFICES ASSUME NEW e \in s.listed PROVE e \in {m[1] : m \in s.store}
      BY DEF Hindsight!Stored
    <3>1. <<e, 0>> \in s.store
      BY DEF Plain
    <3> QED BY <3>1
  <2>2. s.listed \cap Visible[q] = s.listed \cap s.listed \cap Visible[q]
    OBVIOUS
  <2>3. Hindsight!Returned(s, s.listed \cap s.listed \cap Visible[q]) \in Hindsight!Retrieve(s, q)
    BY <2>1 DEF Hindsight!Retrieve
  <2> QED BY <2>2, <2>3 DEF RetrieveOf, Returned, Hindsight!Returned
<1>8. SnapshotOf(p, s).hash = <<s.listed>> /\ SnapshotOf(p, s).events = s.listed
  BY DEF SnapshotOf, Hindsight!Snapshot, Hindsight!Hash
<1> HIDE DEF Mem0s, GBrains, OptMems, Lists, Fixed
<1>9. Moves(p, s)
  BY <1>1, <1>2, <1>3, <1>4, <1>6, <1>8 DEF Moves, Leaves
<1>10. MovesOn(p, s)
  BY <1>5, <1>7 DEF MovesOn, Leaves
<1> QED BY <1>9, <1>10

LEMMA FullMoves ==
    ASSUME NEW p, p = "full-context", NEW s, Plain(p, s)
    PROVE  Moves(p, s) /\ MovesOn(p, s)
<1> USE DEF Mem0s, GBrains, OptMems, Lists, Fixed
<1>w. ASSUME NEW L PROVE Plain(p, [s EXCEPT !.listed = L]) /\ [s EXCEPT !.listed = L].listed = L
  BY DEF Plain
<1>1. ASSUME NEW r \in NewOf(p, s) \cup ResetOf(p, s) PROVE r.a = [s EXCEPT !.listed = {}]
  BY DEF NewOf, ResetOf, Control!ListNew, Control!ListReset, Control!Returned
<1>3. ASSUME NEW b, NEW r \in IngestOf(p, s, b) PROVE r.a = [s EXCEPT !.listed = @ \cup b]
  BY DEF IngestOf, Control!ListIngest, Control!Returned
<1>4. ASSUME NEW r \in AwaitReadyOf(p, s) PROVE r.a = s
  BY DEF AwaitReadyOf, OptMem!AwaitReady, OptMem!Returned
<1>5. ASSUME NEW e, NEW r \in DeleteOf(p, s, e) PROVE r.a = [s EXCEPT !.listed = @ \ {e}]
  BY DEF DeleteOf, Control!ListDelete, Control!Returned
<1>6. ASSUME NEW q PROVE RetrieveOf(p, s, q) = {Returned(s, s.listed \cap Visible[q])}
  BY DEF RetrieveOf, Control!FullRetrieve, Control!Eligible, Control!Returned, Returned
<1>8. SnapshotOf(p, s).hash = <<s.listed>> /\ SnapshotOf(p, s).events = s.listed
  BY DEF SnapshotOf, Control!ListSnapshot
<1> HIDE DEF Mem0s, GBrains, OptMems, Lists, Fixed
<1>9. ASSUME NEW b, NEW r \in IngestOf(p, s, b) PROVE Leaves(p, r, s.listed \cup b)
  <2> DEFINE L == s.listed \cup b
             w == [s EXCEPT !.listed = L]
  <2>1. r.a = w
    BY <1>3
  <2>2. Plain(p, w) /\ w.listed = L
    BY <1>w
  <2> HIDE DEF w
  <2> QED BY <2>1, <2>2 DEF Leaves
<1>10. ASSUME NEW e, NEW r \in DeleteOf(p, s, e) PROVE Leaves(p, r, s.listed \ {e})
  <2> DEFINE L == s.listed \ {e}
             w == [s EXCEPT !.listed = L]
  <2>1. r.a = w
    BY <1>5
  <2>2. Plain(p, w) /\ w.listed = L
    BY <1>w
  <2> HIDE DEF w
  <2> QED BY <2>1, <2>2 DEF Leaves
<1>11. ASSUME NEW r \in NewOf(p, s) \cup ResetOf(p, s) PROVE Leaves(p, r, {})
  BY <1>w, <1>1 DEF Leaves
<1>12. ASSUME NEW r \in AwaitReadyOf(p, s) PROVE Leaves(p, r, s.listed)
  BY <1>4 DEF Leaves
<1>13. Moves(p, s)
  <2>1. ASSUME NEW q, NEW r \in RetrieveOf(p, s, q)
        PROVE  /\ r = [a |-> r.a, raised |-> r.raised, value |-> r.value]
               /\ ~r.raised => r.a = s /\ r.value \subseteq s.listed \cap Visible[q]
    BY <1>6 DEF Returned
  <2> QED BY <1>8, <1>9, <1>11, <1>12, <2>1 DEF Moves
<1>14. MovesOn(p, s)
  BY <1>6, <1>10 DEF MovesOn
<1> QED BY <1>13, <1>14

LEMMA GBrainMoves ==
    ASSUME NEW p, p = "gbrain-ollama", NEW s, Plain(p, s)
    PROVE  Moves(p, s)
<1> USE DEF Mem0s, GBrains, OptMems, Lists, Fixed
<1>b. ASSUME NEW b, Plain(p, b), NEW r \in GBrain!Ensure(b, TRUE), ~r.raised
      PROVE  Plain(p, r.a) /\ r.a.listed = b.listed
  <2>1. ASSUME NEW c, Plain(p, c), c.listed = b.listed, NEW x \in GBrain!Bootstrap(c), ~x.raised
        PROVE  Plain(p, x.a) /\ x.a.listed = b.listed
    <3> DEFINE w == [c EXCEPT !.home = "ready", !.store = {}]
    <3>1. Plain(p, w) /\ w.listed = c.listed
      BY <2>1 DEF Plain
    <3>2. x.a = c \/ x.a = w
      <4> HIDE DEF w
      <4>1. \/ x = GBrain!Returned(c, {}) \/ x = GBrain!Returned(w, {})
            \/ \E d : x = GBrain!RaisedFrom(d)
        BY <2>1 DEF GBrain!Bootstrap, w
      <4> QED BY <2>1, <4>1 DEF GBrain!Returned, GBrain!RaisedFrom, GBrain!Refused
    <3> HIDE DEF w
    <3> QED BY <2>1, <3>1, <3>2
  <2> DEFINE v == [GBrain!Vacant(b) EXCEPT !.trash = TRUE]
  <2>2. Plain(p, v) /\ v.listed = b.listed
    BY <1>b DEF GBrain!Vacant, Plain
  <2> HIDE DEF v
  <2>3. r = GBrain!Refused(b) \/ r \in GBrain!Bootstrap(v) \/ r \in GBrain!Bootstrap(b)
    BY <1>b DEF GBrain!Ensure, GBrain!EnsureBrainOllama, v
  <2> QED BY <1>b, <2>1, <2>2, <2>3 DEF GBrain!Refused
<1>w. ASSUME NEW b, Plain(p, b), NEW L
      PROVE  Plain(p, [b EXCEPT !.listed = L]) /\ [b EXCEPT !.listed = L].listed = L
  BY <1>w DEF Plain
<1>1. ASSUME NEW r \in NewOf(p, s), ~r.raised PROVE Plain(p, r.a) /\ r.a.listed = {}
  <2> DEFINE w == [s EXCEPT !.listed = {}]
  <2>1. r \in GBrain!Ensure(w, TRUE)
    BY DEF NewOf, GBrain!New, Ollama
  <2>2. Plain(p, w) /\ w.listed = {}
    BY <1>w
  <2> HIDE DEF w
  <2> QED BY <1>1, <1>b, <2>1, <2>2
<1>2. ASSUME NEW r \in ResetOf(p, s), ~r.raised PROVE Plain(p, r.a) /\ r.a.listed = {}
  <2>1. r \in GBrain!Reset(s, TRUE)
    BY DEF ResetOf, Ollama
  <2>2. \/ \E x \in GBrain!Ensure(GBrain!Vacant(s), TRUE) : r = GBrain!ThenListed(x, {}, {})
        \/ \E d : r = GBrain!RaisedFrom(d)
    BY <2>1 DEF GBrain!Reset
  <2>r. ASSUME NEW d, r = GBrain!RaisedFrom(d) PROVE FALSE
    BY <1>2, <2>r DEF GBrain!RaisedFrom, GBrain!Refused
  <2>3. PICK x \in GBrain!Ensure(GBrain!Vacant(s), TRUE) : r = GBrain!ThenListed(x, {}, {})
    BY <2>2, <2>r
  <2>4. ~x.raised /\ r = GBrain!Returned([x.a EXCEPT !.listed = {}], {})
    BY <1>2, <2>3 DEF GBrain!ThenListed
  <2>5. Plain(p, GBrain!Vacant(s))
    BY DEF Plain, GBrain!Vacant
  <2>6. Plain(p, x.a)
    BY <1>b, <2>3, <2>4, <2>5
  <2> DEFINE w == [x.a EXCEPT !.listed = {}]
  <2>7. Plain(p, w) /\ w.listed = {} /\ r = GBrain!Returned(w, {})
    BY <1>w, <2>4, <2>6
  <2> HIDE DEF w
  <2> QED BY <2>7 DEF GBrain!Returned
<1>3. ASSUME NEW b, NEW r \in IngestOf(p, s, b), ~r.raised
      PROVE  Plain(p, r.a) /\ r.a.listed = s.listed \cup b
  <2> DEFINE fresh == b \ s.listed
             d == GBrain!Written(s, fresh)
             h == GBrain!Committed(d)
             u == GBrain!Synced(h)
  <2>1. r \in GBrain!Ingest(s, b)
    BY DEF IngestOf
  <2>2. \/ fresh = {} /\ r = GBrain!Returned(s, 0)
        \/ \E x \in GBrain!CommitAndSync(d) : \E v : r = GBrain!ThenListed(x, s.listed \cup fresh, v)
        \/ \E S : r = GBrain!RaisedFrom(GBrain!Written(s, S))
    BY <2>1 DEF GBrain!Ingest
  <2>3. s.listed \cup fresh = s.listed \cup b
    OBVIOUS
  <2>4. CASE fresh = {} /\ r = GBrain!Returned(s, 0)
    BY <2>3, <2>4 DEF GBrain!Returned
  <2>5. ASSUME NEW x \in GBrain!CommitAndSync(d), NEW v,
               r = GBrain!ThenListed(x, s.listed \cup fresh, v)
        PROVE  Plain(p, r.a) /\ r.a.listed = s.listed \cup b
    <3>1. Plain(p, u) /\ Plain(p, h)
      BY DEF Plain, GBrain!Written, GBrain!Synced, GBrain!Committed
    <3> HIDE DEF u, h, d, fresh
    <3>2. ~x.raised /\ r = GBrain!Returned([x.a EXCEPT !.listed = s.listed \cup fresh], v)
      BY <1>3, <2>5 DEF GBrain!ThenListed
    <3>3. x.a = u \/ x.a = h
      <4>1. \/ x = GBrain!Returned(u, {}) \/ x = GBrain!Returned(h, {})
            \/ \E c : x = GBrain!RaisedFrom(c)
        BY <2>5 DEF GBrain!CommitAndSync, GBrain!Indexed, u, h
      <4> QED BY <3>2, <4>1 DEF GBrain!Returned, GBrain!RaisedFrom, GBrain!Refused
    <3> QED BY <1>w, <2>3, <3>1, <3>2, <3>3 DEF GBrain!Returned
  <2>6. ASSUME NEW S, r = GBrain!RaisedFrom(GBrain!Written(s, S)) PROVE FALSE
    BY <1>3, <2>6 DEF GBrain!RaisedFrom, GBrain!Refused
  <2> QED BY <2>2, <2>4, <2>5, <2>6
<1>4. ASSUME NEW r \in AwaitReadyOf(p, s), ~r.raised PROVE r.a = s
  BY <1>4 DEF AwaitReadyOf, GBrain!AwaitReady, GBrain!RaisedFrom, GBrain!Refused,
              GBrain!Returned
<1>6. ASSUME NEW q, NEW r \in RetrieveOf(p, s, q)
      PROVE  /\ r = [a |-> r.a, raised |-> r.raised, value |-> r.value]
             /\ ~r.raised => r.a = s /\ r.value \subseteq s.listed \cap Visible[q]
  <2>1. \/ \E hits : r = GBrain!Returned(s, hits \cap s.listed \cap Visible[q])
        \/ r = GBrain!RaisedFrom(s)
    BY DEF RetrieveOf, GBrain!Retrieve
  <2> QED BY <2>1 DEF GBrain!Returned, GBrain!RaisedFrom, GBrain!Refused
<1>8. SnapshotOf(p, s).hash = <<s.listed>> /\ SnapshotOf(p, s).events = s.listed
  BY DEF SnapshotOf, GBrain!Snapshot, GBrain!Hash
<1> HIDE DEF Mem0s, GBrains, OptMems, Lists, Fixed
<1> QED BY <1>1, <1>2, <1>3, <1>4, <1>6, <1>8 DEF Moves, Leaves

(* The calls of an adapter with a flaw.                                    *)
LEMMA FlawedMoves ==
    ASSUME product \in Flawable, thorough, NEW s, Plain(product, s)
    PROVE  /\ \A r \in New(s) : Leaves(product, r, {})
           /\ flaw # "keeps-state" => \A r \in Reset(s) : Leaves(product, r, {})
           /\ flaw = "keeps-state" => Reset(s) = {Returned(s, {})}
           /\ \A b : \A r \in Ingest(s, b) :
                /\ Leaves(product, r, s.listed \cup b)
                /\ flaw = "counts-again" /\ ~r.raised => r.value = Cardinality(b)
           /\ \A r \in AwaitReadyOf(product, s) : Leaves(product, r, s.listed)
           /\ \A q : \A r \in Retrieve(s, q) : ~r.raised =>
                /\ Plain(product, r.a) /\ r.a.listed = s.listed
                /\ flaw = "mutates" => r.a.made = s.made + 1
                /\ flaw = "sees-future" => s.listed \cap {Future} \subseteq r.value
                /\ flaw = "sees-others" => s.listed \ {Future} \subseteq r.value
                /\ flaw = "misses" => Asked \notin r.value
                /\ flaw \in {"keeps-deleted", "forgets"} /\ product # "gbrain-ollama" =>
                     r.value = s.listed \cap Visible[q]
           /\ HashOf(s) = <<<<s.listed>>, IF flaw = "mutates" THEN s.made ELSE 0>>
           /\ SnapshotOf(product, s).events = s.listed
<1>1. Moves(product, s) /\ (product # "gbrain-ollama" => MovesOn(product, s))
  BY HindsightMoves, FullMoves, GBrainMoves DEF Flawable
<1>2. ASSUME NEW r \in New(s) PROVE Leaves(product, r, {})
  BY <1>1 DEF New, Moves
<1>3. /\ flaw # "keeps-state" => \A r \in Reset(s) : Leaves(product, r, {})
      /\ flaw = "keeps-state" => Reset(s) = {Returned(s, {})}
  BY <1>1 DEF Reset, Moves
<1>4. ASSUME NEW b, NEW r \in Ingest(s, b)
      PROVE  /\ Leaves(product, r, s.listed \cup b)
             /\ flaw = "counts-again" /\ ~r.raised => r.value = Cardinality(b)
  <2>1. PICK x \in IngestOf(product, s, b) :
           r = IF flaw = "counts-again" /\ ~x.raised
               THEN [x EXCEPT !.value = Cardinality(b)] ELSE x
    BY DEF Ingest
  <2>2. Leaves(product, x, s.listed \cup b)
    BY <1>1 DEF Moves
  <2> QED BY <2>1, <2>2 DEF Leaves
<1>5. ASSUME NEW q, NEW r \in Retrieve(s, q), ~r.raised
      PROVE  /\ Plain(product, r.a) /\ r.a.listed = s.listed
             /\ flaw = "mutates" => r.a.made = s.made + 1
             /\ flaw = "sees-future" => s.listed \cap {Future} \subseteq r.value
             /\ flaw = "sees-others" => s.listed \ {Future} \subseteq r.value
             /\ flaw = "misses" => Asked \notin r.value
             /\ flaw \in {"keeps-deleted", "forgets"} /\ product # "gbrain-ollama" =>
                  r.value = s.listed \cap Visible[q]
  <2>1. PICK x \in RetrieveOf(product, s, q) :
           /\ r = Distorted(x) /\ ~x.raised
           /\ \A y \in RetrieveOf(product, s, q) : x.value \subseteq y.value => y.value = x.value
    <3>1. PICK x \in RetrieveOf(product, s, q) :
             /\ r = Distorted(x)
             /\ ~x.raised
             /\ \A y \in RetrieveOf(product, s, q) : x.value \subseteq y.value => y.value = x.value
      BY DEF Retrieve
    <3> QED BY <3>1
  <2>2. /\ x = [a |-> s, raised |-> FALSE, value |-> x.value]
        /\ x.value \subseteq s.listed \cap Visible[q]
    BY <1>1, <2>1 DEF Moves
  <2> DEFINE m == [s EXCEPT !.made = @ + 1]
  <2>3. Plain(product, m) /\ m.listed = s.listed /\ m.made = s.made + 1
    <3>1. s.made \in Nat /\ s.made + 1 \in Nat
      BY DEF Plain
    <3> QED BY <3>1 DEF Plain
  <2> HIDE DEF m
  <2>5. /\ flaw = "sees-future" => r.a = s /\ r.value = x.value \cup (s.listed \cap {Future})
        /\ flaw = "sees-others" => r.a = s /\ r.value = x.value \cup (s.listed \ {Future})
        /\ flaw = "misses" => r.a = s /\ r.value = x.value \ {Asked}
        /\ flaw = "mutates" => r.a = m
        /\ flaw \notin {"sees-future", "sees-others", "misses", "mutates"} => r = x
    <3>1. x.a = s
      BY <2>2
    <3>2. /\ flaw = "sees-future" => r = [x EXCEPT !.value = x.value \cup (x.a.listed \cap {Future})]
          /\ flaw = "sees-others" => r = [x EXCEPT !.value = x.value \cup (x.a.listed \ {Future})]
          /\ flaw = "misses" => r = [x EXCEPT !.value = x.value \ {Asked}]
      BY <2>1 DEF Distorted
    <3>3. ASSUME NEW u PROVE [x EXCEPT !.value = u].a = s /\ [x EXCEPT !.value = u].value = u
      BY <2>2
    <3>4. flaw = "mutates" => r = [x EXCEPT !.a.made = @ + 1]
      BY <2>1 DEF Distorted
    <3>5. [x EXCEPT !.a.made = @ + 1].a = m
      BY <2>2 DEF m
    <3>6. flaw \notin {"sees-future", "sees-others", "misses", "mutates"} => r = x
      BY <2>1 DEF Distorted
    <3> QED BY <3>1, <3>2, <3>3, <3>4, <3>5, <3>6
  <2>6. r.a = IF flaw = "mutates" THEN m ELSE s
    BY <2>2, <2>5
  <2>7. ASSUME flaw \in {"keeps-deleted", "forgets"}, product # "gbrain-ollama"
        PROVE  r.value = s.listed \cap Visible[q]
    <3>1. Returned(s, s.listed \cap Visible[q]) \in RetrieveOf(product, s, q)
      BY <1>1, <2>7 DEF MovesOn
    <3>2. Returned(s, s.listed \cap Visible[q]).value = s.listed \cap Visible[q]
      BY DEF Returned
    <3>3. x.value = s.listed \cap Visible[q]
      BY <2>1, <2>2, <3>1, <3>2
    <3> QED BY <2>5, <2>7, <3>3
  <2> QED BY <2>3, <2>5, <2>6, <2>7
<1>6. HashOf(s) = <<<<s.listed>>, IF flaw = "mutates" THEN s.made ELSE 0>>
  BY <1>1 DEF HashOf, Moves
<1>7. /\ \A r \in AwaitReadyOf(product, s) : Leaves(product, r, s.listed)
      /\ SnapshotOf(product, s).events = s.listed
  BY <1>1 DEF Moves
<1> QED BY <1>2, <1>3, <1>4, <1>5, <1>6, <1>7

LEMMA NewMoves ==
    ASSUME product \in Flawable, thorough, NEW s, Plain(product, s), NEW r \in New(s), ~r.raised
    PROVE  Plain(product, r.a) /\ r.a.listed = {}
  BY FlawedMoves DEF Leaves

LEMMA ResetMoves ==
    ASSUME product \in Flawable, thorough, NEW s, Plain(product, s), NEW r \in Reset(s), ~r.raised
    PROVE  /\ Plain(product, r.a)
           /\ flaw # "keeps-state" => r.a.listed = {}
           /\ flaw = "keeps-state" => r.a = s
<1>1. flaw # "keeps-state" => Leaves(product, r, {})
  BY FlawedMoves
<1>2. flaw = "keeps-state" => r = Returned(s, {})
  BY FlawedMoves
<1> QED BY <1>1, <1>2 DEF Leaves, Returned

LEMMA IngestMoves ==
    ASSUME product \in Flawable, thorough, NEW s, Plain(product, s), NEW b,
           NEW r \in Ingest(s, b), ~r.raised
    PROVE  /\ Plain(product, r.a) /\ r.a.listed = s.listed \cup b
           /\ flaw = "counts-again" => r.value = Cardinality(b)
  BY FlawedMoves DEF Leaves

LEMMA AwaitMoves ==
    ASSUME product \in Flawable, thorough, NEW s, Plain(product, s),
           NEW r \in AwaitReadyOf(product, s), ~r.raised
    PROVE  Plain(product, r.a) /\ r.a.listed = s.listed
  BY FlawedMoves DEF Leaves

LEMMA RetrieveMoves ==
    ASSUME product \in Flawable, thorough, NEW s, Plain(product, s), NEW q,
           NEW r \in Retrieve(s, q), ~r.raised
    PROVE  /\ Plain(product, r.a) /\ r.a.listed = s.listed
           /\ flaw = "mutates" => r.a.made = s.made + 1
           /\ flaw = "sees-future" => s.listed \cap {Future} \subseteq r.value
           /\ flaw = "sees-others" => s.listed \ {Future} \subseteq r.value
           /\ flaw = "misses" => Asked \notin r.value
           /\ flaw \in {"keeps-deleted", "forgets"} /\ product # "gbrain-ollama" =>
                r.value = s.listed \cap Visible[q]
  BY FlawedMoves

LEMMA HashMoves ==
    ASSUME product \in Flawable, thorough, NEW s, Plain(product, s)
    PROVE  /\ HashOf(s) = <<<<s.listed>>, IF flaw = "mutates" THEN s.made ELSE 0>>
           /\ SnapshotOf(product, s).events = s.listed
  BY FlawedMoves

(* What a check that has ended with a record says.                         *)
LEMMA Told ==
    ASSUME NEW s, NEW ok, NEW ids, NEW r \in Found(s, ok, ids)
    PROVE  r.a = s /\ ~r.raised /\ (~ok => r.value.is = "failed")
  BY DEF Found, Returned

LEMMA Judged ==
    ASSUME NEW s, NEW ok, NEW r \in Judge(s, ok)
    PROVE  r.a = s /\ ~r.raised /\ (~ok => r.value.is = "failed")
  BY Told DEF Judge

LEMMA Worded ==
    ASSUME NEW s, NEW w, NEW r \in Says(s, w)
    PROVE  r.a = s /\ ~r.raised /\ r.value.is = w
  BY DEF Says, Returned

-----------------------------------------------------------------------------
(* The checks that tell of a flaw.                                         *)
LEMMA FreshStateTells ==
    ASSUME product \in Flawable, thorough, flaw = "keeps-state", NEW s, Plain(product, s),
           s.listed = {}, NEW r \in FreshState(s), ~r.raised
    PROVE  r.value.is = "failed"
<1>1. PICK b \in Reset(s) : /\ ~b.raised
                            /\ r \in Then(Ingest(b.a, Events), LAMBDA c :
                                     Then(AwaitReadyOf(product, c), LAMBDA d :
                                     Then(Reset(d), LAMBDA e : Judge(e, HashOf(e) = HashOf(b.a)))))
  BY DEF FreshState, Then, ThenWith
<1>2. PICK c \in Ingest(b.a, Events) :
         /\ ~c.raised
         /\ r \in Then(AwaitReadyOf(product, c.a), LAMBDA d :
                  Then(Reset(d), LAMBDA e : Judge(e, HashOf(e) = HashOf(b.a))))
  BY <1>1 DEF Then, ThenWith
<1>3. PICK d \in AwaitReadyOf(product, c.a) :
         /\ ~d.raised
         /\ r \in Then(Reset(d.a), LAMBDA e : Judge(e, HashOf(e) = HashOf(b.a)))
  BY <1>2 DEF Then, ThenWith
<1>4. PICK e \in Reset(d.a) : ~e.raised /\ r \in Judge(e.a, HashOf(e.a) = HashOf(b.a))
  BY <1>3 DEF Then, ThenWith
<1>5. Plain(product, b.a) /\ b.a.listed = {}
  BY <1>1, ResetMoves
<1>6. Plain(product, c.a) /\ c.a.listed = Events
  <2>1. {} \cup Events = Events
    OBVIOUS
  <2>2. Plain(product, c.a) /\ c.a.listed = b.a.listed \cup Events
    BY <1>2, <1>5, IngestMoves
  <2> QED BY <1>5, <2>1, <2>2
<1>7. Plain(product, d.a) /\ d.a.listed = Events
  BY <1>3, <1>6, AwaitMoves
<1>8. Plain(product, e.a) /\ e.a.listed = Events
  BY <1>4, <1>7, ResetMoves
<1>9. HashOf(e.a) = <<<<Events>>, 0>> /\ HashOf(b.a) = <<<<{}>>, 0>>
  BY <1>5, <1>8, HashMoves
<1>10. Events # {}
  BY CorpusAssumption
<1>11. HashOf(e.a) # HashOf(b.a)
  BY <1>9, <1>10
<1> QED BY <1>4, <1>11 DEF Judge, Found, Returned

LEMMA BackKeeps ==
    ASSUME NEW s, NEW x
    PROVE  Back(s, x).raised = x.raised /\ Back(s, x).value = x.value
  BY DEF Back

(* What a probe in a directory of its own says, before it is cleaned up.   *)
LEMMA ProbeSaid ==
    ASSUME NEW s, NEW F, NEW r \in {Back(s, y) : y \in AndCleanUp(F)}, ~r.raised
    PROVE  \E x \in F : ~x.raised /\ x.value = r.value
<1>1. PICK y \in AndCleanUp(F) : r = Back(s, y)
  OBVIOUS
<1>2. ~y.raised /\ y.value = r.value
  BY <1>1, BackKeeps
<1>3. PICK x \in F :
         \/ x.raised /\ y = x
         \/ ~x.raised /\ \E c \in CleanupOf(product, x.a) : y = Returned(c.a, x.value)
  BY DEF AndCleanUp, ThenWith
<1> QED BY <1>2, <1>3 DEF Returned

LEMMA FreshProbeTells ==
    ASSUME product \in Flawable, thorough, flaw = "keeps-state", NEW s,
           NEW r \in FreshStateProbe(s), ~r.raised
    PROVE  r.value.is = "failed"
<1>0. Plain(product, Apart(s)) /\ Apart(s).listed = {}
  BY DEF Plain, Apart, Blank
<1>1. PICK x : /\ ~x.raised /\ x.value = r.value
               /\ x \in Then(New(Apart(s)), LAMBDA b : Then(Reset(b), LAMBDA c :
                        Then(Ingest(c, {Asked}), LAMBDA d : Then(AwaitReadyOf(product, d), LAMBDA e :
                        Then(Reset(e), LAMBDA f : Judge(f, HashOf(f) = HashOf(c)))))))
  BY ProbeSaid DEF FreshStateProbe
<1>2. ~x.raised /\ x.value = r.value
  BY <1>1
<1>3. PICK b \in New(Apart(s)) :
         /\ ~b.raised
         /\ x \in Then(Reset(b.a), LAMBDA c :
                  Then(Ingest(c, {Asked}), LAMBDA d : Then(AwaitReadyOf(product, d), LAMBDA e :
                  Then(Reset(e), LAMBDA f : Judge(f, HashOf(f) = HashOf(c))))))
  BY <1>1, <1>2 DEF Then, ThenWith
<1>4. PICK c \in Reset(b.a) :
         /\ ~c.raised
         /\ x \in Then(Ingest(c.a, {Asked}), LAMBDA d : Then(AwaitReadyOf(product, d), LAMBDA e :
                  Then(Reset(e), LAMBDA f : Judge(f, HashOf(f) = HashOf(c.a)))))
  BY <1>2, <1>3 DEF Then, ThenWith
<1>5. PICK d \in Ingest(c.a, {Asked}) :
         /\ ~d.raised
         /\ x \in Then(AwaitReadyOf(product, d.a), LAMBDA e :
                  Then(Reset(e), LAMBDA f : Judge(f, HashOf(f) = HashOf(c.a))))
  BY <1>2, <1>4 DEF Then, ThenWith
<1>6. PICK e \in AwaitReadyOf(product, d.a) :
         ~e.raised /\ x \in Then(Reset(e.a), LAMBDA f : Judge(f, HashOf(f) = HashOf(c.a)))
  BY <1>2, <1>5 DEF Then, ThenWith
<1>7. PICK f \in Reset(e.a) : ~f.raised /\ x \in Judge(f.a, HashOf(f.a) = HashOf(c.a))
  BY <1>2, <1>6 DEF Then, ThenWith
<1>8. Plain(product, b.a) /\ b.a.listed = {}
  BY <1>0, <1>3, NewMoves
<1>9. Plain(product, c.a) /\ c.a.listed = {}
  BY <1>4, <1>8, ResetMoves
<1>10. Plain(product, d.a) /\ d.a.listed = {Asked}
  BY <1>5, <1>9, IngestMoves
<1>11. Plain(product, e.a) /\ e.a.listed = {Asked}
  BY <1>6, <1>10, AwaitMoves
<1>12. Plain(product, f.a) /\ f.a.listed = {Asked}
  BY <1>7, <1>11, ResetMoves
<1>13. HashOf(f.a) = <<<<{Asked}>>, 0>> /\ HashOf(c.a) = <<<<{}>>, 0>>
  BY <1>9, <1>12, HashMoves
<1>14. HashOf(f.a) # HashOf(c.a)
  BY <1>13
<1> QED BY <1>2, <1>7, <1>14 DEF Judge, Found, Returned

LEMMA DedupTells ==
    ASSUME product \in Flawable, thorough, flaw = "counts-again", NEW s, Plain(product, s),
           NEW r \in Dedup(s), ~r.raised
    PROVE  r.value.is = "failed"
<1>1. PICK b \in Ingest(s, Events) :
         /\ ~b.raised
         /\ r \in ThenWith(Ingest(b.a, {Asked, Future}), LAMBDA c, n : Judge(c, n = 0))
  BY DEF Dedup, Then, ThenWith
<1>2. PICK c \in Ingest(b.a, {Asked, Future}) : ~c.raised /\ r \in Judge(c.a, c.value = 0)
  BY <1>1 DEF ThenWith
<1>3. c.value = Cardinality({Asked, Future})
  BY <1>1, <1>2, IngestMoves
<1>4. Cardinality({Asked, Future}) # 0
  <2>1. IsFiniteSet({Asked}) /\ Cardinality({Asked}) = 1
    BY FS_Singleton
  <2>2. Cardinality({Asked} \cup {Future}) = 1 + 1
    BY <2>1, FS_AddElement, CorpusAssumption
  <2>3. {Asked} \cup {Future} = {Asked, Future}
    OBVIOUS
  <2> QED BY <2>2, <2>3
<1> QED BY <1>2, <1>3, <1>4 DEF Judge, Found, Returned

LEMMA MissTells ==
    ASSUME product \in Flawable, thorough, flaw = "misses", NEW s, Plain(product, s),
           NEW r \in CanaryCurrent(s) \cup OwnCanary(s), ~r.raised
    PROVE  r.value.is = "failed"
<1>1. CASE r \in CanaryCurrent(s)
  <2>1. PICK b \in Retrieve(s, current) :
           /\ ~b.raised
           /\ r \in ThenWith(Retrieve(b.a, current), LAMBDA c, ids : Found(c, Asked \in ids, ids))
    BY <1>1 DEF CanaryCurrent, Then, ThenWith
  <2>2. PICK c \in Retrieve(b.a, current) :
           ~c.raised /\ r \in Found(c.a, Asked \in c.value, c.value)
    BY <2>1 DEF ThenWith
  <2>3. Asked \notin c.value
    BY <2>1, <2>2, RetrieveMoves
  <2> QED BY <2>2, <2>3 DEF Found, Returned
<1>2. CASE r \in OwnCanary(s)
  <2>1. PICK b \in Retrieve(s, current) :
           /\ ~b.raised
           /\ r \in Then(Retrieve(b.a, unknown), LAMBDA c :
                    Then(Retrieve(c, unknown), LAMBDA d : Judge(d, Asked \in b.value)))
    BY <1>2 DEF OwnCanary, ThenWith
  <2>2. \E d : r \in Judge(d, Asked \in b.value)
    BY <2>1 DEF Then, ThenWith
  <2>3. Asked \notin b.value
    BY <2>1, RetrieveMoves
  <2> QED BY <2>2, <2>3 DEF Judge, Found, Returned
<1> QED BY <1>1, <1>2

LEMMA IsolationTells ==
    ASSUME product \in Flawable, thorough, flaw = "misses", NEW s,
           NEW r \in CanaryIsolation(s), ~r.raised
    PROVE  r.value.is = "failed"
<1>0. Plain(product, Apart(s)) /\ Apart(s).listed = {}
  BY DEF Plain, Apart, Blank
<1>p. PICK x : /\ ~x.raised /\ x.value = r.value
               /\ x \in Then(New(Apart(s)), LAMBDA b : Then(Reset(b), LAMBDA c :
                        Then(Ingest(c, {Asked}), LAMBDA d : Then(AwaitReadyOf(product, d), LAMBDA e :
                        ThenWith(Retrieve(e, current), LAMBDA f, mine :
                        ThenWith(Retrieve(f, current), LAMBDA g, ids :
                        Judge(g, Asked \in mine /\ ids \subseteq {Asked})))))))
  BY ProbeSaid DEF CanaryIsolation, Primed
<1>1. ~x.raised /\ x.value = r.value
  BY <1>p
<1>2. PICK b \in New(Apart(s)) :
         /\ ~b.raised
         /\ x \in Then(Reset(b.a), LAMBDA c :
                  Then(Ingest(c, {Asked}), LAMBDA d : Then(AwaitReadyOf(product, d), LAMBDA e :
                  ThenWith(Retrieve(e, current), LAMBDA f, mine :
                        ThenWith(Retrieve(f, current), LAMBDA g, ids :
                        Judge(g, Asked \in mine /\ ids \subseteq {Asked}))))))
  BY <1>p, <1>1 DEF Then, ThenWith
<1>3. PICK c \in Reset(b.a) :
         /\ ~c.raised
         /\ x \in Then(Ingest(c.a, {Asked}), LAMBDA d : Then(AwaitReadyOf(product, d), LAMBDA e :
                  ThenWith(Retrieve(e, current), LAMBDA f, mine :
                        ThenWith(Retrieve(f, current), LAMBDA g, ids :
                        Judge(g, Asked \in mine /\ ids \subseteq {Asked})))))
  BY <1>1, <1>2 DEF Then, ThenWith
<1>4. PICK d \in Ingest(c.a, {Asked}) :
         /\ ~d.raised
         /\ x \in Then(AwaitReadyOf(product, d.a), LAMBDA e :
                  ThenWith(Retrieve(e, current), LAMBDA f, mine :
                        ThenWith(Retrieve(f, current), LAMBDA g, ids :
                        Judge(g, Asked \in mine /\ ids \subseteq {Asked}))))
  BY <1>1, <1>3 DEF Then, ThenWith
<1>5. PICK e \in AwaitReadyOf(product, d.a) :
         /\ ~e.raised
         /\ x \in ThenWith(Retrieve(e.a, current), LAMBDA f, mine :
                        ThenWith(Retrieve(f, current), LAMBDA g, ids :
                        Judge(g, Asked \in mine /\ ids \subseteq {Asked})))
  BY <1>1, <1>4 DEF Then, ThenWith
<1>6. Plain(product, c.a) /\ c.a.listed = {}
  BY <1>0, <1>2, <1>3, NewMoves, ResetMoves
<1>7. Plain(product, d.a) /\ d.a.listed = {Asked}
  <2>1. Plain(product, d.a) /\ d.a.listed = c.a.listed \cup {Asked}
    BY <1>4, <1>6, IngestMoves
  <2>2. {} \cup {Asked} = {Asked}
    OBVIOUS
  <2> QED BY <1>6, <2>1, <2>2
<1>8. Plain(product, e.a) /\ e.a.listed = {Asked}
  BY <1>5, <1>7, AwaitMoves
<1>9. PICK f \in Retrieve(e.a, current) :
         /\ ~f.raised
         /\ x \in ThenWith(Retrieve(f.a, current), LAMBDA g, ids :
                  Judge(g, Asked \in f.value /\ ids \subseteq {Asked}))
  BY <1>1, <1>5 DEF ThenWith
<1>10. PICK g, ids : x \in Judge(g, Asked \in f.value /\ ids \subseteq {Asked})
  BY <1>1, <1>9 DEF ThenWith
<1>11. Asked \notin f.value
  BY <1>8, <1>9, RetrieveMoves
<1>12. x.value.is = "failed"
  <2>1. ~(Asked \in f.value /\ ids \subseteq {Asked})
    BY <1>11
  <2> QED BY <1>10, <2>1 DEF Judge, Found, Returned
<1> QED BY <1>1, <1>12

LEMMA LeakTells ==
    ASSUME product \in Flawable, thorough, NEW s, NEW e,
           flaw = "sees-future" => e = Future, flaw # "sees-future" => flaw = "sees-others" /\ e = Other,
           NEW r \in NotRetrieved(s, e), ~r.raised
    PROVE  r.value.is = "failed"
<1>0. Plain(product, Apart(s)) /\ Apart(s).listed = {}
  BY DEF Plain, Apart, Blank
<1>p. PICK x : /\ ~x.raised /\ x.value = r.value
               /\ x \in Then(New(Apart(s)), LAMBDA b : Then(Reset(b), LAMBDA c :
                        Then(Ingest(c, {e}), LAMBDA d : Then(AwaitReadyOf(product, d), LAMBDA h :
                        ThenWith(Retrieve(h, current), LAMBDA f, ids : Judge(f, e \notin ids))))))
  BY ProbeSaid DEF NotRetrieved, Primed
<1>1. ~x.raised /\ x.value = r.value
  BY <1>p
<1>2. PICK b \in New(Apart(s)) :
         /\ ~b.raised
         /\ x \in Then(Reset(b.a), LAMBDA c :
                  Then(Ingest(c, {e}), LAMBDA d : Then(AwaitReadyOf(product, d), LAMBDA h :
                  ThenWith(Retrieve(h, current), LAMBDA f, ids : Judge(f, e \notin ids)))))
  BY <1>p, <1>1 DEF Then, ThenWith
<1>3. PICK c \in Reset(b.a) :
         /\ ~c.raised
         /\ x \in Then(Ingest(c.a, {e}), LAMBDA d : Then(AwaitReadyOf(product, d), LAMBDA h :
                  ThenWith(Retrieve(h, current), LAMBDA f, ids : Judge(f, e \notin ids))))
  BY <1>1, <1>2 DEF Then, ThenWith
<1>4. PICK d \in Ingest(c.a, {e}) :
         /\ ~d.raised
         /\ x \in Then(AwaitReadyOf(product, d.a), LAMBDA h :
                  ThenWith(Retrieve(h, current), LAMBDA f, ids : Judge(f, e \notin ids)))
  BY <1>1, <1>3 DEF Then, ThenWith
<1>5. PICK h \in AwaitReadyOf(product, d.a) :
         /\ ~h.raised
         /\ x \in ThenWith(Retrieve(h.a, current), LAMBDA f, ids : Judge(f, e \notin ids))
  BY <1>1, <1>4 DEF Then, ThenWith
<1>6. Plain(product, c.a) /\ c.a.listed = {}
  BY <1>0, <1>2, <1>3, NewMoves, ResetMoves
<1>7. Plain(product, d.a) /\ d.a.listed = {e}
  <2>1. Plain(product, d.a) /\ d.a.listed = c.a.listed \cup {e}
    BY <1>4, <1>6, IngestMoves
  <2>2. {} \cup {e} = {e}
    OBVIOUS
  <2> QED BY <1>6, <2>1, <2>2
<1>8. Plain(product, h.a) /\ h.a.listed = {e}
  BY <1>5, <1>7, AwaitMoves
<1>9. PICK f \in Retrieve(h.a, current) : ~f.raised /\ x \in Judge(f.a, e \notin f.value)
  BY <1>1, <1>5 DEF ThenWith
<1>10. e \in f.value
  <2>1. Other # Future
    BY CorpusAssumption
  <2>2. /\ flaw = "sees-future" => {e} \cap {Future} \subseteq f.value
        /\ flaw = "sees-others" => {e} \ {Future} \subseteq f.value
    BY <1>8, <1>9, RetrieveMoves
  <2> QED BY <2>1, <2>2
<1>11. x.value.is = "failed"
  BY <1>9, <1>10 DEF Judge, Found, Returned
<1> QED BY <1>1, <1>11

LEMMA MutationTells ==
    ASSUME product \in Flawable, thorough, flaw = "mutates", NEW s,
           NEW r, ~r.raised,
           r \in QueryMutation(s) \/ (Plain(product, s) /\ r \in ReadOnlyRetrieval(s))
    PROVE  r.value.is = "failed"
<1>1. ASSUME NEW b, Plain(product, b), NEW x, ~x.raised,
             x \in ReadOnlyRetrieval(b)
      PROVE  x.value.is = "failed"
  <2>1. PICK c \in Retrieve(b, current) : ~c.raised /\ x \in Judge(c.a, HashOf(c.a) = HashOf(b))
    BY <1>1 DEF ReadOnlyRetrieval, Then, ThenWith
  <2>2. Plain(product, c.a) /\ c.a.made = b.made + 1
    BY <1>1, <2>1, RetrieveMoves
  <2>3. HashOf(c.a) = <<<<c.a.listed>>, c.a.made>> /\ HashOf(b) = <<<<b.listed>>, b.made>>
    BY <1>1, <2>2, HashMoves
  <2>4. b.made \in Nat
    BY <1>1 DEF Plain
  <2>5. HashOf(c.a) # HashOf(b)
    BY <2>2, <2>3, <2>4
  <2> QED BY <2>1, <2>5 DEF Judge, Found, Returned
<1>2. CASE Plain(product, s) /\ r \in ReadOnlyRetrieval(s)
  BY <1>1, <1>2
<1>3. CASE r \in QueryMutation(s)
  <2>0. Plain(product, Apart(s)) /\ Apart(s).listed = {}
    BY DEF Plain, Apart, Blank
  <2>p. PICK x : /\ ~x.raised /\ x.value = r.value
                 /\ x \in Then(New(Apart(s)), LAMBDA b : Then(Reset(b), LAMBDA c :
                          Then(Ingest(c, {Asked, Doomed}), LAMBDA d : Then(AwaitReadyOf(product, d), LAMBDA e :
                          Then(Retrieve(e, current), LAMBDA f : Judge(f, HashOf(f) = HashOf(e)))))))
    BY <1>3, ProbeSaid DEF QueryMutation, Primed
  <2>1. ~x.raised /\ x.value = r.value
    BY <2>p
  <2>2. PICK b \in New(Apart(s)) :
           /\ ~b.raised
           /\ x \in Then(Reset(b.a), LAMBDA c :
                    Then(Ingest(c, {Asked, Doomed}), LAMBDA d : Then(AwaitReadyOf(product, d), LAMBDA e :
                    Then(Retrieve(e, current), LAMBDA f : Judge(f, HashOf(f) = HashOf(e))))))
    BY <2>p, <2>1 DEF Then, ThenWith
  <2>3. PICK c \in Reset(b.a) :
           /\ ~c.raised
           /\ x \in Then(Ingest(c.a, {Asked, Doomed}), LAMBDA d : Then(AwaitReadyOf(product, d), LAMBDA e :
                    Then(Retrieve(e, current), LAMBDA f : Judge(f, HashOf(f) = HashOf(e)))))
    BY <2>1, <2>2 DEF Then, ThenWith
  <2>4. PICK d \in Ingest(c.a, {Asked, Doomed}) :
           /\ ~d.raised
           /\ x \in Then(AwaitReadyOf(product, d.a), LAMBDA e :
                    Then(Retrieve(e, current), LAMBDA f : Judge(f, HashOf(f) = HashOf(e))))
    BY <2>1, <2>3 DEF Then, ThenWith
  <2>5. PICK e \in AwaitReadyOf(product, d.a) :
           /\ ~e.raised
           /\ x \in Then(Retrieve(e.a, current), LAMBDA f : Judge(f, HashOf(f) = HashOf(e.a)))
    BY <2>1, <2>4 DEF Then, ThenWith
  <2>6. Plain(product, c.a) /\ c.a.listed = {}
    BY <2>0, <2>2, <2>3, NewMoves, ResetMoves
  <2>7. Plain(product, d.a) /\ d.a.listed = {Asked, Doomed}
    <3>1. Plain(product, d.a) /\ d.a.listed = c.a.listed \cup {Asked, Doomed}
      BY <2>4, <2>6, IngestMoves
    <3>2. {} \cup {Asked, Doomed} = {Asked, Doomed}
      OBVIOUS
    <3> QED BY <2>6, <3>1, <3>2
  <2>8. Plain(product, e.a) /\ e.a.listed = {Asked, Doomed}
    BY <2>5, <2>7, AwaitMoves
  <2>9. x \in ReadOnlyRetrieval(e.a)
    BY <2>5 DEF ReadOnlyRetrieval, Then, ThenWith
  <2> QED BY <1>1, <1>3, <2>1, <2>8, <2>9
<1> QED BY <1>2, <1>3

LEMMA SightTells ==
    ASSUME product \in Flawable, thorough, NEW s, Plain(product, s), NEW r, ~r.raised,
           \/ flaw = "sees-future" /\ Future \in s.listed
                /\ r \in CanaryFuture(s) \cup NoLeak(s, Future)
           \/ flaw = "sees-others" /\ Asked \in s.listed /\ r \in CanaryCrossUser(s)
           \/ flaw = "sees-others" /\ Other \in s.listed /\ r \in NoLeak(s, Other)
    PROVE  r.value.is = "failed"
<1>0. Asked # Future /\ Other # Future /\ Asked # Other
  BY CorpusAssumption
<1>1. CASE flaw = "sees-future" /\ Future \in s.listed /\ r \in CanaryFuture(s)
  <2>1. PICK b \in Retrieve(s, future) : ~b.raised /\ r \in Judge(b.a, Future \notin b.value)
    BY <1>1 DEF CanaryFuture, ThenWith
  <2>2. Future \in b.value
    BY <1>1, <2>1, RetrieveMoves
  <2> QED BY <2>1, <2>2 DEF Judge, Found, Returned
<1>2. CASE flaw = "sees-future" /\ Future \in s.listed /\ r \in NoLeak(s, Future)
  <2>1. PICK b \in Retrieve(s, current) : ~b.raised /\ r \in Judge(b.a, Future \notin b.value)
    BY <1>2 DEF NoLeak, ThenWith
  <2>2. Future \in b.value
    BY <1>2, <2>1, RetrieveMoves
  <2> QED BY <2>1, <2>2 DEF Judge, Found, Returned
<1>3. CASE flaw = "sees-others" /\ Asked \in s.listed /\ r \in CanaryCrossUser(s)
  <2>1. PICK b \in Retrieve(s, other) : ~b.raised /\ r \in Judge(b.a, b.value = {Other})
    BY <1>3 DEF CanaryCrossUser, ThenWith
  <2>2. Asked \in b.value
    BY <1>0, <1>3, <2>1, RetrieveMoves
  <2>3. b.value # {Other}
    BY <1>0, <2>2
  <2> QED BY <2>1, <2>3 DEF Judge, Found, Returned
<1>4. CASE flaw = "sees-others" /\ Other \in s.listed /\ r \in NoLeak(s, Other)
  <2>1. PICK b \in Retrieve(s, current) : ~b.raised /\ r \in Judge(b.a, Other \notin b.value)
    BY <1>4 DEF NoLeak, ThenWith
  <2>2. Other \in b.value
    BY <1>0, <1>4, <2>1, RetrieveMoves
  <2> QED BY <2>1, <2>2 DEF Judge, Found, Returned
<1> QED BY <1>1, <1>2, <1>3, <1>4

LEMMA DeletionTells ==
    ASSUME product \in {"hindsight", "full-context"}, thorough, flaw = "keeps-deleted",
           NEW s, Plain(product, s), Doomed \in s.listed, NEW r \in CanaryDeleted(s), ~r.raised
    PROVE  r.value.is = "failed"
<1>1. PICK b \in Delete(s, Doomed) :
         ~b.raised /\ r \in ThenWith(Retrieve(b.a, current), LAMBDA c, ids : Judge(c, Doomed \notin ids))
  BY DEF CanaryDeleted, SupportsDelete, OptMems, Then, ThenWith
<1>d. \A x \in Delete(s, Doomed) : x.a = s
  BY DEF Delete, Returned
<1>2. b.a = s
  BY <1>1, <1>d
<1>3. PICK c \in Retrieve(s, current) : ~c.raised /\ r \in Judge(c.a, Doomed \notin c.value)
  BY <1>1, <1>2 DEF ThenWith
<1>4. c.value = s.listed \cap Visible[current]
  BY <1>3, RetrieveMoves DEF Flawable
<1>5. Doomed \in c.value
  BY <1>4, CorpusAssumption
<1> QED BY <1>3, <1>5 DEF Judge, Found, Returned

LEMMA CaughtSound ==
    ASSUME NEW F, NEW r \in Caught(F, "failed"), ~r.raised, r.value.is # "failed"
    PROVE  r \in F
<1>1. PICK x \in F : r \in IF x.raised THEN Says(x.a, "failed") ELSE {x}
  BY DEF Caught
<1> QED BY <1>1, Worded

LEMMA RestartTells ==
    ASSUME product = "hindsight", thorough, flaw = "forgets",
           NEW s, Plain(product, s), Asked \in s.listed, NEW r \in RestartKeeps(s), ~r.raised
    PROVE  r.value.is = "failed"
<1> SUFFICES ASSUME r.value.is # "failed" PROVE FALSE
  OBVIOUS
<1>1. r \in SameAnswer(s, Restart)
  BY CaughtSound DEF RestartKeeps, Exporting
<1>2. PICK b \in Retrieve(s, current) :
         /\ ~b.raised
         /\ r \in Then(Restart(b.a), LAMBDA c :
                  ThenWith(Retrieve(c, current), LAMBDA d, post : Judge(d, post = b.value)))
  BY <1>1 DEF SameAnswer, ThenWith
<1>3. PICK c \in Restart(b.a) :
         /\ ~c.raised
         /\ r \in ThenWith(Retrieve(c.a, current), LAMBDA d, post : Judge(d, post = b.value))
  BY <1>2 DEF Then, ThenWith
<1>4. PICK d \in Retrieve(c.a, current) : ~d.raised /\ r \in Judge(d.a, d.value = b.value)
  BY <1>3 DEF ThenWith
<1>r. \A x \in Retrieve(s, current) : ~x.raised =>
         Plain(product, x.a) /\ x.value = s.listed \cap Visible[current]
  BY RetrieveMoves DEF Flawable
<1>5. Plain(product, b.a) /\ b.value = s.listed \cap Visible[current]
  BY <1>2, <1>r
<1> DEFINE w == [b.a EXCEPT !.listed = {}]
<1>6. Plain(product, w) /\ w.listed = {}
  BY <1>5 DEF Plain
<1>f. \A x \in Restart(b.a) : x.a = w
  BY DEF Restart, Returned
<1>7. c.a = w
  BY <1>3, <1>f
<1> HIDE DEF w
<1>8. d.value = {} \cap Visible[current]
  BY <1>4, <1>6, <1>7, RetrieveMoves DEF Flawable
<1>9. d.value # b.value
  BY <1>5, <1>8, CorpusAssumption
<1> QED BY <1>4, <1>9 DEF Judge, Found, Returned

-----------------------------------------------------------------------------
(* What the checks of the contract that do not fail leave of the list.     *)
LEMMA RebuildMoves ==
    ASSUME NEW p, p \in {"hindsight", "full-context"}, NEW s, Plain(p, s), NEW data, NEW r, ~r.raised,
           r \in RestoreOf(p, s, data) \/ (p = "hindsight" /\ r \in ImportOf(p, s, data))
    PROVE  Plain(p, r.a) /\ r.a.listed = data.events
<1> USE DEF Mem0s, GBrains, OptMems, Lists, Fixed
<1>e. \A S : {} \cup S = S
  OBVIOUS
<1>1. CASE p = "hindsight"
  <2>1. PICK b \in Hindsight!Reset(s) : ~b.raised /\ r \in Hindsight!Ingest(b.a, data.events)
    <3>1. CASE r \in RestoreOf(p, s, data)
      BY <1>1, <3>1 DEF RestoreOf, Hindsight!Restore, Hindsight!Then, Hindsight!ThenWith
    <3>2. CASE r \in ImportOf(p, s, data)
      BY <1>1, <3>2 DEF ImportOf, Hindsight!ImportData, Hindsight!Then, Hindsight!ThenWith
    <3> QED BY <1>1, <3>1, <3>2
  <2>2. b \in ResetOf(p, s)
    BY <1>1, <2>1 DEF ResetOf
  <2>3. Plain(p, b.a) /\ b.a.listed = {}
    BY <1>1, <2>1, <2>2, HindsightMoves DEF Moves, Leaves
  <2>4. r \in IngestOf(p, b.a, data.events)
    BY <1>1, <2>1 DEF IngestOf
  <2>m. Moves(p, b.a)
    BY <1>1, <2>3, HindsightMoves
  <2>5. Plain(p, r.a) /\ r.a.listed = b.a.listed \cup data.events
    BY <2>m, <2>4 DEF Moves, Leaves
  <2> QED BY <1>e, <2>3, <2>5
<1>2. CASE p = "full-context"
  <2>1. PICK b \in Control!ListReset(s) : ~b.raised /\ r \in Control!ListIngest(b.a, data.events)
    BY <1>2 DEF RestoreOf, Control!ListRestore, Control!Then, Control!ThenWith
  <2>2. b \in ResetOf(p, s)
    BY <1>2, <2>1 DEF ResetOf
  <2>3. Plain(p, b.a) /\ b.a.listed = {}
    BY <1>2, <2>1, <2>2, FullMoves DEF Moves, Leaves
  <2>4. r \in IngestOf(p, b.a, data.events)
    BY <1>2, <2>1 DEF IngestOf
  <2>m. Moves(p, b.a)
    BY <1>2, <2>3, FullMoves
  <2>5. Plain(p, r.a) /\ r.a.listed = b.a.listed \cup data.events
    BY <2>m, <2>4 DEF Moves, Leaves
  <2> QED BY <1>e, <2>3, <2>5
<1> QED BY <1>1, <1>2

Steady(s, r) == Plain(product, r.a) /\ r.a.listed = s.listed

LEMMA QuestionsSteady ==
    ASSUME product \in Flawable, thorough, NEW s, Plain(product, s), NEW r, ~r.raised,
           \/ r \in Readiness(s) \/ r \in CanaryCurrent(s) \/ r \in ReadOnlyRetrieval(s)
           \/ r \in CanaryFuture(s) \/ r \in CanaryCrossUser(s) \/ r \in CanaryReach(s)
           \/ r \in UnknownPrincipal(s)
    PROVE  Steady(s, r)
<1>1. CASE r \in Readiness(s)
  <2>1. PICK b \in AwaitReadyOf(product, s) : ~b.raised /\ r \in Says(b.a, "native")
    BY <1>1 DEF Readiness, Then, ThenWith
  <2> QED BY <2>1, AwaitMoves, Worded DEF Steady
<1>2. CASE r \in CanaryCurrent(s)
  <2>1. PICK b \in Retrieve(s, current) :
           /\ ~b.raised
           /\ \E c \in Retrieve(b.a, current) :
                ~c.raised /\ r \in Found(c.a, Asked \in c.value, c.value)
    BY <1>2 DEF CanaryCurrent, Then, ThenWith
  <2>2. PICK c \in Retrieve(b.a, current) :
           ~c.raised /\ r \in Found(c.a, Asked \in c.value, c.value)
    BY <2>1
  <2>3. r.a = c.a
    BY <2>2 DEF Found, Returned
  <2>4. Plain(product, b.a) /\ b.a.listed = s.listed
    BY <2>1, RetrieveMoves
  <2>5. Plain(product, c.a) /\ c.a.listed = s.listed
    BY <2>2, <2>4, RetrieveMoves
  <2> QED BY <2>3, <2>5 DEF Steady
<1>4. ASSUME \/ r \in ReadOnlyRetrieval(s) \/ r \in CanaryFuture(s)
             \/ r \in CanaryCrossUser(s) \/ r \in CanaryReach(s) \/ r \in UnknownPrincipal(s)
      PROVE  \E q : \E b \in Retrieve(s, q) : ~b.raised /\ r.a = b.a
  BY <1>4 DEF ReadOnlyRetrieval, CanaryFuture, CanaryCrossUser, CanaryReach, UnknownPrincipal,
         Then, ThenWith, Judge, Found, Returned
<1>5. ASSUME NEW q, NEW b \in Retrieve(s, q), ~b.raised, r.a = b.a PROVE Steady(s, r)
  BY <1>5, RetrieveMoves DEF Steady
<1> QED BY <1>1, <1>2, <1>4, <1>5

LEMMA OrderingSteady ==
    ASSUME NEW s, Plain(product, s), NEW r \in Ordering(s), ~r.raised
    PROVE  Steady(s, r)
<1>2. PICK b \in New(Apart(s)) :
         /\ ~b.raised
         /\ r \in Then(New(Apart(b.a)), LAMBDA c : Then(Ingest(b.a, Events), LAMBDA d :
                  Then(Ingest([c EXCEPT !.faults = d.faults], Events), LAMBDA e :
                  Judge([s EXCEPT !.faults = e.faults], HashOf(d) = HashOf(e)))))
  BY DEF Ordering, Then, ThenWith
<1>3. PICK c \in New(Apart(b.a)) :
         /\ ~c.raised
         /\ r \in Then(Ingest(b.a, Events), LAMBDA d :
                  Then(Ingest([c.a EXCEPT !.faults = d.faults], Events), LAMBDA e :
                  Judge([s EXCEPT !.faults = e.faults], HashOf(d) = HashOf(e))))
  BY <1>2 DEF Then, ThenWith
<1> DEFINE Rest(x) == Then(Ingest([c.a EXCEPT !.faults = x.faults], Events), LAMBDA e :
                         Judge([s EXCEPT !.faults = e.faults], HashOf(x) = HashOf(e)))
<1>r. r \in Then(Ingest(b.a, Events), LAMBDA d : Rest(d))
  BY <1>3
<1> HIDE DEF Rest
<1>4. PICK d \in Ingest(b.a, Events) : ~d.raised /\ r \in Rest(d.a)
  BY <1>r DEF Then, ThenWith
<1>5. PICK e \in Ingest([c.a EXCEPT !.faults = d.a.faults], Events) :
         r \in Judge([s EXCEPT !.faults = e.a.faults], HashOf(d.a) = HashOf(e.a))
  BY <1>4, ZenonT(180) DEF Rest, Then, ThenWith
<1>1. r.a = [s EXCEPT !.faults = e.a.faults]
  BY <1>5 DEF Judge, Found, Returned
<1> QED BY <1>1 DEF Steady, Plain

LEMMA RestoreSteady ==
    ASSUME product \in {"hindsight", "full-context"}, thorough, flaw # "keeps-state",
           NEW s, Plain(product, s), NEW r \in SnapshotRestore(s), ~r.raised
    PROVE  Steady(s, r)
<1>1. PICK b \in RestoreOf(product, s, SnapshotOf(product, s)) :
         ~b.raised /\ \E c \in Retrieve(b.a, current) : ~c.raised /\ r.a = c.a
  BY DEF SnapshotRestore, Then, ThenWith, Judge, Found, Returned
<1>2. SnapshotOf(product, s).events = s.listed
  BY HashMoves DEF Flawable
<1>3. Plain(product, b.a) /\ b.a.listed = s.listed
  BY <1>1, <1>2, RebuildMoves
<1> QED BY <1>1, <1>3, RetrieveMoves DEF Steady, Flawable

(* A deletion leaves all but its event.                                    *)
LEMMA DeleteSteady ==
    ASSUME product \in {"hindsight", "full-context"}, thorough, NEW s, Plain(product, s), NEW r,
           ~r.raised, r.value.is # "failed",
           r \in CanaryDeleted(s) \/ r \in ErrorNormalization(s)
    PROVE  /\ Plain(product, r.a)
           /\ r.a.listed \in {s.listed, s.listed \ {Doomed}, s.listed \ {Missing}}
           /\ r \in ErrorNormalization(s) => r.a.listed = s.listed \ {Missing}
<1>1. Moves(product, s) /\ MovesOn(product, s)
  BY HindsightMoves, FullMoves
<1>2. ASSUME NEW e, NEW b \in DeleteOf(product, s, e), ~b.raised
      PROVE  Plain(product, b.a) /\ b.a.listed = s.listed \ {e}
  BY <1>1, <1>2 DEF MovesOn, Leaves
<1>3. SupportsDelete
  BY DEF SupportsDelete, OptMems
<1>4. ASSUME r \in ErrorNormalization(s)
      PROVE  Plain(product, r.a) /\ r.a.listed = s.listed \ {Missing}
  <2>1. r \in SaidAfter(DeleteOf(product, s, Missing), "native")
    BY <1>3, <1>4, CaughtSound DEF ErrorNormalization, SaidAfter
  <2>2. PICK b \in DeleteOf(product, s, Missing) : ~b.raised /\ r \in Says(b.a, "native")
    BY <2>1 DEF SaidAfter, Then, ThenWith
  <2> QED BY <1>2, <2>2, Worded
<1>5. ASSUME r \in CanaryDeleted(s)
      PROVE  Plain(product, r.a) /\ r.a.listed \in {s.listed, s.listed \ {Doomed}}
  <2>1. PICK b \in Delete(s, Doomed) :
           ~b.raised /\ \E c \in Retrieve(b.a, current) : ~c.raised /\ r.a = c.a
    BY <1>3, <1>5 DEF CanaryDeleted, Then, ThenWith, Judge, Found, Returned
  <2>2. Plain(product, b.a) /\ b.a.listed \in {s.listed, s.listed \ {Doomed}}
    <3>1. b = Returned(s, TRUE) \/ b \in DeleteOf(product, s, Doomed)
      BY <2>1 DEF Delete
    <3> QED BY <1>2, <2>1, <3>1 DEF Returned
  <2> QED BY <2>1, <2>2, RetrieveMoves DEF Flawable
<1> QED BY <1>4, <1>5

LEMMA ImportSteady ==
    ASSUME product \in {"hindsight", "full-context"}, thorough, flaw # "keeps-state",
           NEW s, Plain(product, s), NEW r \in ExportImport(s), ~r.raised, r.value.is # "failed"
    PROVE  Steady(s, r)
<1>1. CASE product = "full-context"
  <2>1. r \in Says(s, "unsupported")
    BY <1>1 DEF ExportImport, Exporting, Mem0s, GBrains, OptMems
  <2> QED BY <2>1, Worded DEF Steady
<1>2. CASE product = "hindsight"
  <2>1. r \in SameAnswer(s, LAMBDA b :
                  Then(Reset(b), LAMBDA c : ImportOf(product, c, ExportOf(product, b))))
    BY <1>2, CaughtSound DEF ExportImport, Exporting
  <2>2. PICK b \in Retrieve(s, current) :
           /\ ~b.raised
           /\ r \in Then(Then(Reset(b.a), LAMBDA c : ImportOf(product, c, ExportOf(product, b.a))),
                         LAMBDA x : ThenWith(Retrieve(x, current), LAMBDA d, post :
                                        Judge(d, post = b.value)))
    BY <2>1 DEF SameAnswer, ThenWith
  <2>3. PICK x \in Then(Reset(b.a), LAMBDA c : ImportOf(product, c, ExportOf(product, b.a))) :
           /\ ~x.raised
           /\ r \in ThenWith(Retrieve(x.a, current), LAMBDA d, post : Judge(d, post = b.value))
    BY <2>2 DEF Then, ThenWith
  <2>4. PICK c \in Reset(b.a) : ~c.raised /\ x \in ImportOf(product, c.a, ExportOf(product, b.a))
    BY <2>3 DEF Then, ThenWith
  <2>5. PICK d \in Retrieve(x.a, current) : ~d.raised /\ r \in Judge(d.a, d.value = b.value)
    BY <2>3 DEF ThenWith
  <2>a. \A y \in Retrieve(s, current) : ~y.raised => Plain(product, y.a) /\ y.a.listed = s.listed
    BY RetrieveMoves DEF Flawable
  <2>6. Plain(product, b.a) /\ b.a.listed = s.listed
    BY <2>2, <2>a
  <2>7. Plain(product, c.a)
    BY <2>4, <2>6, ResetMoves DEF Flawable
  <2>8. ExportOf(product, b.a).events = b.a.listed
    BY <1>2 DEF ExportOf, Hindsight!Export, Mem0s, GBrains, OptMems
  <2>n. ~x.raised
    BY <2>3
  <2>9. Plain(product, x.a) /\ x.a.listed = s.listed
    BY <1>2, <2>n, <2>4, <2>6, <2>7, <2>8, RebuildMoves
  <2>10. Plain(product, d.a) /\ d.a.listed = s.listed
    BY <2>5, <2>9, RetrieveMoves DEF Flawable
  <2>11. r.a = d.a
    BY <2>5 DEF Judge, Found, Returned
  <2> QED BY <2>10, <2>11 DEF Steady
<1> QED BY <1>1, <1>2

LEMMA RestartSteady ==
    ASSUME product \in {"hindsight", "full-context"}, thorough, flaw # "forgets",
           NEW s, Plain(product, s), NEW r \in RestartKeeps(s), ~r.raised, r.value.is # "failed"
    PROVE  Steady(s, r)
<1>1. CASE product = "full-context"
  <2>1. r \in Says(s, "unsupported")
    BY <1>1 DEF RestartKeeps, Exporting, Mem0s, GBrains, OptMems
  <2> QED BY <2>1, Worded DEF Steady
<1>2. CASE product = "hindsight"
  <2>1. r \in SameAnswer(s, Restart)
    BY <1>2, CaughtSound DEF RestartKeeps, Exporting
  <2>2. PICK b \in Retrieve(s, current) :
           /\ ~b.raised
           /\ r \in Then(Restart(b.a), LAMBDA c :
                    ThenWith(Retrieve(c, current), LAMBDA d, post : Judge(d, post = b.value)))
    BY <2>1 DEF SameAnswer, ThenWith
  <2>3. PICK c \in Restart(b.a) :
           /\ ~c.raised
           /\ r \in ThenWith(Retrieve(c.a, current), LAMBDA d, post : Judge(d, post = b.value))
    BY <2>2 DEF Then, ThenWith
  <2>4. PICK d \in Retrieve(c.a, current) : ~d.raised /\ r \in Judge(d.a, d.value = b.value)
    BY <2>3 DEF ThenWith
  <2>a. \A y \in Retrieve(s, current) : ~y.raised => Plain(product, y.a) /\ y.a.listed = s.listed
    BY RetrieveMoves DEF Flawable
  <2>b. \A y \in Restart(b.a) : y.a = b.a
    BY <1>2 DEF Restart, RestartOf, Mem0s, Returned
  <2>5. Plain(product, c.a) /\ c.a.listed = s.listed
    BY <2>2, <2>3, <2>a, <2>b
  <2>6. Plain(product, d.a) /\ d.a.listed = s.listed
    BY <2>4, <2>5, RetrieveMoves DEF Flawable
  <2>7. r.a = d.a
    BY <2>4 DEF Judge, Found, Returned
  <2> QED BY <2>6, <2>7 DEF Steady
<1> QED BY <1>1, <1>2

LEMMA DedupSteady ==
    ASSUME product \in Flawable, thorough, NEW s, Plain(product, s), NEW r \in Dedup(s), ~r.raised
    PROVE  Plain(product, r.a) /\ r.a.listed = s.listed \cup Events
<1>1. PICK b \in Ingest(s, Events) :
         ~b.raised /\ \E c \in Ingest(b.a, {Asked, Future}) : ~c.raised /\ r.a = c.a
  BY DEF Dedup, Then, ThenWith, Judge, Found, Returned
<1>2. PICK c \in Ingest(b.a, {Asked, Future}) : ~c.raised /\ r.a = c.a
  BY <1>1
<1>3. Plain(product, b.a) /\ b.a.listed = s.listed \cup Events
  BY <1>1, IngestMoves
<1>4. Plain(product, c.a) /\ c.a.listed = b.a.listed \cup {Asked, Future}
  BY <1>2, <1>3, IngestMoves
<1>5. (s.listed \cup Events) \cup {Asked, Future} = s.listed \cup Events
  BY CorpusAssumption
<1> QED BY <1>2, <1>3, <1>4, <1>5

LEMMA FreshSteady ==
    ASSUME product \in Flawable, thorough, NEW s, Plain(product, s), NEW r \in FreshState(s),
           ~r.raised
    PROVE  Plain(product, r.a)
<1>1. PICK b \in Reset(s) : /\ ~b.raised
                            /\ r \in Then(Ingest(b.a, Events), LAMBDA c :
                                     Then(AwaitReadyOf(product, c), LAMBDA d :
                                     Then(Reset(d), LAMBDA e : Judge(e, HashOf(e) = HashOf(b.a)))))
  BY DEF FreshState, Then, ThenWith
<1>2. PICK c \in Ingest(b.a, Events) :
         /\ ~c.raised
         /\ r \in Then(AwaitReadyOf(product, c.a), LAMBDA d :
                  Then(Reset(d), LAMBDA e : Judge(e, HashOf(e) = HashOf(b.a))))
  BY <1>1 DEF Then, ThenWith
<1>3. PICK d \in AwaitReadyOf(product, c.a) :
         /\ ~d.raised
         /\ r \in Then(Reset(d.a), LAMBDA e : Judge(e, HashOf(e) = HashOf(b.a)))
  BY <1>2 DEF Then, ThenWith
<1>4. PICK e \in Reset(d.a) : ~e.raised /\ r \in Judge(e.a, HashOf(e.a) = HashOf(b.a))
  BY <1>3 DEF Then, ThenWith
<1>5. r.a = e.a
  BY <1>4 DEF Judge, Found, Returned
<1>6. \A x \in Reset(s) : ~x.raised => Plain(product, x.a)
  BY ResetMoves
<1>7. \A x \in Ingest(b.a, Events) : ~x.raised => Plain(product, x.a)
  BY <1>1, <1>6, IngestMoves
<1>8. \A x \in AwaitReadyOf(product, c.a) : ~x.raised => Plain(product, x.a)
  BY <1>2, <1>7, AwaitMoves
<1> QED BY <1>3, <1>4, <1>5, <1>8, ResetMoves

-----------------------------------------------------------------------------
(* The check that tells of a flaw, in each gate that looks for it.         *)
TellsInContract ==
    {<<"keeps-state", "fresh_state">>, <<"counts-again", "dedup">>, <<"misses", "canary_current">>,
     <<"mutates", "read_only_retrieval">>, <<"sees-future", "canary_future">>,
     <<"sees-others", "canary_cross_user">>, <<"keeps-deleted", "canary_deleted">>,
     <<"forgets", "restart">>}
TellsInPreflight ==
    {<<"keeps-state", "fresh_state">>, <<"misses", "canary_isolation">>,
     <<"mutates", "query_mutation">>, <<"sees-future", "future_leakage">>,
     <<"sees-others", "cross_user_isolation">>}

Tells(check) ==
    \/ gate = "contract" /\ <<flaw, check>> \in TellsInContract
    \/ gate = "preflight" /\ <<flaw, check>> \in TellsInPreflight
    \/ gate = "supplement" /\ flaw # "keeps-state" /\ <<flaw, check>> \in TellsInPreflight

LEMMA ContractSteps ==
    ASSUME product \in {"hindsight", "full-context"}, thorough, flaw \in Flaws,
           flaw = "forgets" => product = "hindsight", Plain(product, a), NEW c, NEW r, ~r.raised,
           r.value.is # "failed", r \in ContractCheck(c, a),
           c \in {"metadata", "unregistered", "probe", "factory", "fresh_state", "dedup",
                  "ordering", "readiness", "canary_current", "read_only_retrieval",
                  "snapshot_restore", "canary_future", "canary_cross_user",
                  "canary_authority", "canary_multi_hop", "canary_deleted",
                  "error_normalization", "unknown_principal", "export_import", "restart",
                  "cleanup"}
    PROVE  /\ c \in {"metadata", "unregistered", "probe"} => Steady(a, r)
           /\ c = "factory" => Plain(product, r.a) /\ r.a.listed = {}
           /\ flaw # "keeps-state" /\ ~(flaw = "forgets" /\ c = "restart") =>
                /\ Plain(product, r.a)
                /\ c = "dedup" => Events \subseteq r.a.listed
                /\ c \notin {"factory", "fresh_state"} =>
                     /\ a.listed \ {Missing, Doomed} \subseteq r.a.listed
                     /\ c # "canary_deleted" => a.listed \ {Missing} \subseteq r.a.listed
           /\ <<flaw, c>> \in TellsInContract =>
                \/ flaw = "keeps-state" /\ a.listed # {}
                \/ flaw = "sees-future" /\ Future \notin a.listed
                \/ flaw = "sees-others" /\ Asked \notin a.listed
                \/ flaw = "keeps-deleted" /\ Doomed \notin a.listed
                \/ flaw = "forgets" /\ Asked \notin a.listed
<1> DEFINE Goal ==
           /\ c \in {"metadata", "unregistered", "probe"} => Steady(a, r)
           /\ c = "factory" => Plain(product, r.a) /\ r.a.listed = {}
           /\ flaw # "keeps-state" /\ ~(flaw = "forgets" /\ c = "restart") =>
                /\ Plain(product, r.a)
                /\ c = "dedup" => Events \subseteq r.a.listed
                /\ c \notin {"factory", "fresh_state"} =>
                     /\ a.listed \ {Missing, Doomed} \subseteq r.a.listed
                     /\ c # "canary_deleted" => a.listed \ {Missing} \subseteq r.a.listed
           /\ <<flaw, c>> \in TellsInContract =>
                \/ flaw = "keeps-state" /\ a.listed # {}
                \/ flaw = "sees-future" /\ Future \notin a.listed
                \/ flaw = "sees-others" /\ Asked \notin a.listed
                \/ flaw = "keeps-deleted" /\ Doomed \notin a.listed
                \/ flaw = "forgets" /\ Asked \notin a.listed
<1>f. product \in Flawable
  BY DEF Flawable
<1>s. ASSUME Steady(a, r), c \notin {"factory", "dedup"},
             <<flaw, c>> \notin TellsInContract
      PROVE  Goal
  BY <1>s DEF Steady
<1>1. CASE c \in {"metadata", "unregistered", "probe"}
  <2>r. \A x \in {Refused(a)} : x.a = a
    BY DEF Refused
  <2>w. \A w : \A x \in Says(a, w) : x.a = a
    BY Worded
  <2>j. \A x \in Judge(a, setup.containerized => setup.probe) : x.a = a
    BY DEF Judge, Found, Returned
  <2>m. c = "metadata" => r \in Says(a, "native") \/ r \in {Refused(a)}
    BY DEF ContractCheck
  <2>u. c = "unregistered" => r \in Says(a, "native") \/ r \in {Refused(a)}
    BY DEF ContractCheck
  <2>p. c = "probe" => r \in Judge(a, setup.containerized => setup.probe)
    BY DEF ContractCheck
  <2>1. r.a = a
    BY <1>1, <2>r, <2>w, <2>j, <2>m, <2>u, <2>p
  <2>2. Steady(a, r)
    BY <2>1 DEF Steady
  <2>3. <<flaw, c>> \notin TellsInContract
    BY <1>1 DEF TellsInContract
  <2> QED BY <1>1, <1>s, <2>2, <2>3
<1>2. CASE c = "factory"
  <2>1. PICK b \in New(a) : ~b.raised /\ r \in Says(b.a, "native")
    BY <1>2 DEF ContractCheck, Then, ThenWith
  <2>2. Plain(product, r.a) /\ r.a.listed = {}
    BY <1>f, <2>1, NewMoves, Worded
  <2>3. <<flaw, c>> \notin TellsInContract
    BY <1>2 DEF TellsInContract
  <2> QED BY <1>2, <2>2, <2>3
<1>3. CASE c = "fresh_state"
  <2>1. r \in FreshState(a)
    BY <1>3 DEF ContractCheck
  <2>2. Plain(product, r.a)
    BY <1>f, <2>1, FreshSteady
  <2>3. flaw = "keeps-state" => a.listed # {}
    BY <1>f, <2>1, FreshStateTells
  <2>4. <<flaw, c>> \in TellsInContract => flaw = "keeps-state"
    BY <1>3 DEF TellsInContract
  <2> QED BY <1>3, <2>2, <2>3, <2>4
<1>4. CASE c = "dedup"
  <2>1. r \in Dedup(a)
    BY <1>4 DEF ContractCheck
  <2>2. Plain(product, r.a) /\ r.a.listed = a.listed \cup Events
    BY <1>f, <2>1, DedupSteady
  <2>3. <<flaw, c>> \in TellsInContract => flaw = "counts-again"
    BY <1>4 DEF TellsInContract
  <2>4. flaw # "counts-again"
    BY <1>f, <2>1, DedupTells
  <2> QED BY <1>4, <2>2, <2>3, <2>4
<1>5. CASE c = "ordering"
  <2>1. Steady(a, r)
    BY <1>5, OrderingSteady DEF ContractCheck
  <2>2. <<flaw, c>> \notin TellsInContract
    BY <1>5 DEF TellsInContract
  <2> QED BY <1>5, <1>s, <2>1, <2>2
<1>6. CASE c \in {"readiness", "canary_authority", "canary_multi_hop", "unknown_principal"}
  <2>1. r \in Readiness(a) \/ r \in CanaryReach(a) \/ r \in UnknownPrincipal(a)
    BY <1>6 DEF ContractCheck
  <2>2. Steady(a, r)
    BY <1>f, <2>1, QuestionsSteady
  <2>3. <<flaw, c>> \notin TellsInContract
    BY <1>6 DEF TellsInContract
  <2> QED BY <1>6, <1>s, <2>2, <2>3
<1>7. CASE c \in {"canary_current", "read_only_retrieval", "canary_future", "canary_cross_user"}
  <2>1. /\ c = "canary_current" => r \in CanaryCurrent(a)
        /\ c = "read_only_retrieval" => r \in ReadOnlyRetrieval(a)
        /\ c = "canary_future" => r \in CanaryFuture(a)
        /\ c = "canary_cross_user" => r \in CanaryCrossUser(a)
    BY <1>7 DEF ContractCheck
  <2>2. Steady(a, r)
    BY <1>7, <1>f, <2>1, QuestionsSteady
  <2>3. <<flaw, c>> \in TellsInContract =>
           \/ flaw = "misses" /\ c = "canary_current"
           \/ flaw = "mutates" /\ c = "read_only_retrieval"
           \/ flaw = "sees-future" /\ c = "canary_future"
           \/ flaw = "sees-others" /\ c = "canary_cross_user"
    BY <1>7 DEF TellsInContract
  <2>4. ~(flaw = "misses" /\ c = "canary_current")
    BY <1>f, <2>1, MissTells
  <2>5. ~(flaw = "mutates" /\ c = "read_only_retrieval")
    BY <1>f, <2>1, MutationTells
  <2>6. flaw = "sees-future" /\ c = "canary_future" => Future \notin a.listed
    BY <1>f, <2>1, SightTells
  <2>7. flaw = "sees-others" /\ c = "canary_cross_user" => Asked \notin a.listed
    BY <1>f, <2>1, SightTells
  <2>8. <<flaw, c>> \in TellsInContract =>
           \/ flaw = "sees-future" /\ Future \notin a.listed
           \/ flaw = "sees-others" /\ Asked \notin a.listed
    BY <2>3, <2>4, <2>5, <2>6, <2>7
  <2> QED BY <1>7, <2>2, <2>8 DEF Steady
<1>8. CASE c = "snapshot_restore"
  <2>1. flaw # "keeps-state" => Steady(a, r)
    BY <1>8, RestoreSteady DEF ContractCheck
  <2>2. <<flaw, c>> \notin TellsInContract
    BY <1>8 DEF TellsInContract
  <2> QED BY <1>8, <2>1, <2>2 DEF Steady
<1>9. CASE c \in {"canary_deleted", "error_normalization"}
  <2>1. /\ c = "canary_deleted" => r \in CanaryDeleted(a)
        /\ c = "error_normalization" => r \in ErrorNormalization(a)
    BY <1>9 DEF ContractCheck
  <2>2. /\ Plain(product, r.a)
        /\ r.a.listed \in {a.listed, a.listed \ {Doomed}, a.listed \ {Missing}}
        /\ c = "error_normalization" => r.a.listed = a.listed \ {Missing}
    BY <1>9, <2>1, DeleteSteady
  <2>3. <<flaw, c>> \in TellsInContract => flaw = "keeps-deleted" /\ c = "canary_deleted"
    BY <1>9 DEF TellsInContract
  <2>4. flaw = "keeps-deleted" /\ c = "canary_deleted" => Doomed \notin a.listed
    BY <2>1, DeletionTells
  <2>5. /\ a.listed \ {Missing, Doomed} \subseteq r.a.listed
        /\ c # "canary_deleted" => a.listed \ {Missing} \subseteq r.a.listed
    BY <1>9, <2>2
  <2> QED BY <1>9, <2>2, <2>3, <2>4, <2>5
<1>10. CASE c = "export_import"
  <2>1. flaw # "keeps-state" => Steady(a, r)
    BY <1>10, ImportSteady DEF ContractCheck
  <2>2. <<flaw, c>> \notin TellsInContract
    BY <1>10 DEF TellsInContract
  <2> QED BY <1>10, <2>1, <2>2 DEF Steady
<1>11. CASE c = "restart"
  <2>1. r \in RestartKeeps(a)
    BY <1>11 DEF ContractCheck
  <2>2. flaw # "forgets" => Steady(a, r)
    BY <2>1, RestartSteady
  <2>3. <<flaw, c>> \in TellsInContract => flaw = "forgets"
    BY <1>11 DEF TellsInContract
  <2>4. flaw = "forgets" => Asked \notin a.listed
    BY <2>1, RestartTells
  <2> QED BY <1>11, <2>2, <2>3, <2>4 DEF Steady
<1>12. CASE c = "cleanup"
  <2>1. r \in Closing(a)
    BY <1>12 DEF ContractCheck
  <2>2. CleanupOf(product, a) = {Returned(a, {})}
    BY DEF CleanupOf, Mem0s, GBrains
  <2>3. PICK b \in CleanupOf(product, a) : r \in Says(b.a, "native")
    BY <2>1, <2>2 DEF Closing, Then, ThenWith, Returned
  <2>4. Steady(a, r)
    BY <2>2, <2>3, Worded DEF Steady, Returned
  <2>5. <<flaw, c>> \notin TellsInContract
    BY <1>12 DEF TellsInContract
  <2> QED BY <1>12, <1>s, <2>4, <2>5
<1> QED BY <1>1, <1>2, <1>3, <1>4, <1>5, <1>6, <1>7, <1>8, <1>9, <1>10, <1>11, <1>12

LEMMA PreflightSteps ==
    ASSUME product \in {"hindsight", "full-context"}, thorough, NEW c, NEW r, ~r.raised,
           r \in PreflightCheck(c, a), <<flaw, c>> \in TellsInPreflight
    PROVE  r.value.is = "failed"
<1>f. product \in Flawable /\ product \notin Controls
  BY DEF Flawable, Controls
<1>1. CASE flaw = "keeps-state" /\ c = "fresh_state"
  <2>1. r \in FreshStateProbe(a)
    BY <1>1 DEF PreflightCheck
  <2> QED BY <1>1, <1>f, <2>1, FreshProbeTells
<1>2. ASSUME c \in {"canary_isolation", "query_mutation", "future_leakage", "cross_user_isolation"}
      PROVE  r \in MemoryCheck(c, a)
  BY <1>2, <1>f DEF PreflightCheck
<1>3. CASE flaw = "misses" /\ c = "canary_isolation"
  <2>1. r \in CanaryIsolation(a)
    BY <1>2, <1>3 DEF MemoryCheck
  <2> QED BY <1>3, <1>f, <2>1, IsolationTells
<1>4. CASE flaw = "mutates" /\ c = "query_mutation"
  <2>1. r \in QueryMutation(a)
    BY <1>2, <1>4 DEF MemoryCheck
  <2> QED BY <1>4, <1>f, <2>1, MutationTells
<1>5. CASE flaw = "sees-future" /\ c = "future_leakage"
  <2>1. r \in NotRetrieved(a, Future)
    BY <1>2, <1>5 DEF MemoryCheck
  <2> QED BY <1>5, <1>f, <2>1, LeakTells
<1>6. CASE flaw = "sees-others" /\ c = "cross_user_isolation"
  <2>1. r \in NotRetrieved(a, Other)
    BY <1>2, <1>6 DEF MemoryCheck
  <2> QED BY <1>6, <1>f, <2>1, LeakTells
<1> QED BY <1>1, <1>3, <1>4, <1>5, <1>6 DEF TellsInPreflight

LEMMA FinallySound ==
    ASSUME NEW F, NEW r \in OrFinally(F), ~r.raised
    PROVE  r \in F
<1>1. PICK x \in F :
         r \in IF x.raised THEN {Refused(c.a) : c \in CleanupOf(product, x.a)} ELSE {x}
  BY DEF OrFinally
<1>2. \A c : Refused(c).raised
  BY DEF Refused
<1> QED BY <1>1, <1>2

LEMMA SupplementSteps ==
    ASSUME product = "gbrain-ollama", thorough, Plain(product, a), NEW c, NEW r, ~r.raised,
           r.value.is # "failed", flaw # "keeps-state", r \in SupplementCheck(c, a),
           c \in {"network_egress", "compose_policy", "gold_inaccessibility", "no_memory_control",
                  "oracle_control", "provider", "empty_at_start", "probe_events",
                  "canary_isolation", "cross_user_isolation", "future_leakage", "query_mutation",
                  "reader_statelessness", "cleanup"}
    PROVE  /\ Plain(product, r.a)
           /\ c = "probe_events" => Events \subseteq r.a.listed
           /\ c # "provider" => a.listed \subseteq r.a.listed
           /\ <<flaw, c>> \in TellsInPreflight =>
                \/ flaw = "sees-future" /\ Future \notin a.listed
                \/ flaw = "sees-others" /\ Other \notin a.listed
<1>f. product \in Flawable
  BY DEF Flawable
<1>1. CASE c \in {"network_egress", "compose_policy", "gold_inaccessibility", "no_memory_control",
                  "oracle_control", "reader_statelessness"}
  <2>1. r \in PreflightCheck(c, a)
    BY <1>1 DEF SupplementCheck
  <2>2. r.a = a
    <3>w. \A w : \A x \in Says(a, w) : x.a = a
      BY Worded
    <3>j. ASSUME NEW x \in Judge(a, ComposeIssues(setup.compose) = {}) \cup Judge(a, ~setup.goldInside)
          PROVE  x.a = a
      BY DEF Judge, Found, Returned
    <3>o. \A x \in OracleComplete(a) : x.a = a
      BY <3>w DEF OracleComplete, Judge, Found, Returned
    <3>1. CASE c = "network_egress"
      BY <2>1, <3>1, <3>w DEF PreflightCheck
    <3>2. CASE c = "compose_policy"
      BY <2>1, <3>2, <3>j DEF PreflightCheck
    <3>3. CASE c = "gold_inaccessibility"
      BY <2>1, <3>3, <3>j DEF PreflightCheck
    <3>4. CASE c = "no_memory_control"
      BY <2>1, <3>4, <3>w DEF PreflightCheck, ReaderAbstains
    <3>5. CASE c = "oracle_control"
      BY <2>1, <3>5, <3>o DEF PreflightCheck
    <3>6. CASE c = "reader_statelessness"
      BY <2>1, <3>6, <3>w DEF PreflightCheck
    <3> QED BY <1>1, <3>1, <3>2, <3>3, <3>4, <3>5, <3>6
  <2>3. <<flaw, c>> \notin TellsInPreflight
    BY <1>1 DEF TellsInPreflight
  <2> QED BY <1>1, <2>2, <2>3
<1>2. CASE c = "provider"
  <2>1. PICK b \in New(Apart(a)) : ~b.raised /\ r \in Says(b.a, "native")
    BY <1>2 DEF SupplementCheck, Then, ThenWith
  <2>2. Plain(product, Apart(a))
    BY DEF Plain, Apart, Blank
  <2>3. Plain(product, r.a)
    BY <1>f, <2>1, <2>2, NewMoves, Worded
  <2>4. <<flaw, c>> \notin TellsInPreflight
    BY <1>2 DEF TellsInPreflight
  <2> QED BY <1>2, <2>3, <2>4
<1>3. CASE c = "empty_at_start"
  <2>1. r \in EmptyAtStart(a)
    BY <1>3, FinallySound DEF SupplementCheck
  <2>2. r.a = a
    BY <2>1 DEF EmptyAtStart, Judge, Found, Returned
  <2>3. <<flaw, c>> \notin TellsInPreflight
    BY <1>3 DEF TellsInPreflight
  <2> QED BY <1>3, <2>2, <2>3
<1>4. CASE c = "probe_events"
  <2>1. r \in ProbeEvents(a)
    BY <1>4, FinallySound DEF SupplementCheck
  <2>2. PICK b \in Ingest(a, Events) :
           ~b.raised /\ \E d \in AwaitReadyOf(product, b.a) : ~d.raised /\ r \in Says(d.a, "native")
    BY <2>1 DEF ProbeEvents, Then, ThenWith
  <2>3. PICK d \in AwaitReadyOf(product, b.a) : ~d.raised /\ r \in Says(d.a, "native")
    BY <2>2
  <2>4. Plain(product, b.a) /\ b.a.listed = a.listed \cup Events
    BY <1>f, <2>2, IngestMoves
  <2>5. Plain(product, d.a) /\ d.a.listed = a.listed \cup Events
    BY <1>f, <2>3, <2>4, AwaitMoves
  <2>6. r.a = d.a
    BY <2>3, Worded
  <2>7. <<flaw, c>> \notin TellsInPreflight
    BY <1>4 DEF TellsInPreflight
  <2> QED BY <1>4, <2>5, <2>6, <2>7
<1>5. CASE c \in {"canary_isolation", "cross_user_isolation", "future_leakage", "query_mutation"}
  <2>1. /\ c = "canary_isolation" => r \in OwnCanary(a)
        /\ c = "cross_user_isolation" => r \in NoLeak(a, Other)
        /\ c = "future_leakage" => r \in NoLeak(a, Future)
        /\ c = "query_mutation" => r \in ReadOnlyRetrieval(a)
    BY <1>5, FinallySound DEF SupplementCheck
  <2>2. Steady(a, r)
    <3>1. CASE r \in ReadOnlyRetrieval(a)
      BY <1>f, <3>1, QuestionsSteady
    <3>2. ASSUME NEW e, r \in NoLeak(a, e) PROVE Steady(a, r)
      <4>1. \E b \in Retrieve(a, current) : ~b.raised /\ r.a = b.a
        BY <3>2 DEF NoLeak, ThenWith, Judge, Found, Returned
      <4> QED BY <1>f, <4>1, RetrieveMoves DEF Steady
    <3>3. CASE r \in OwnCanary(a)
      <4>1. PICK b \in Retrieve(a, current) :
               /\ ~b.raised
               /\ r \in Then(Retrieve(b.a, unknown), LAMBDA d :
                        Then(Retrieve(d, unknown), LAMBDA e : Judge(e, Asked \in b.value)))
        BY <3>3 DEF OwnCanary, ThenWith
      <4>2. PICK d \in Retrieve(b.a, unknown) :
               ~d.raised /\ r \in Then(Retrieve(d.a, unknown), LAMBDA e : Judge(e, Asked \in b.value))
        BY <4>1 DEF Then, ThenWith
      <4>3. PICK e \in Retrieve(d.a, unknown) : ~e.raised /\ r \in Judge(e.a, Asked \in b.value)
        BY <4>2 DEF Then, ThenWith
      <4>4. \A x \in Retrieve(a, current) : ~x.raised => Plain(product, x.a) /\ x.a.listed = a.listed
        BY <1>f, RetrieveMoves
      <4>5. Plain(product, b.a) /\ b.a.listed = a.listed
        BY <4>1, <4>4
      <4>6. \A x \in Retrieve(b.a, unknown) : ~x.raised => Plain(product, x.a) /\ x.a.listed = a.listed
        BY <1>f, <4>5, RetrieveMoves
      <4>7. Plain(product, d.a) /\ d.a.listed = a.listed
        BY <4>2, <4>6
      <4>8. Plain(product, e.a) /\ e.a.listed = a.listed
        BY <1>f, <4>3, <4>7, RetrieveMoves
      <4>9. r.a = e.a
        BY <4>3 DEF Judge, Found, Returned
      <4> QED BY <4>8, <4>9 DEF Steady
    <3> QED BY <1>5, <2>1, <3>1, <3>2, <3>3
  <2>3. <<flaw, c>> \in TellsInPreflight =>
           \/ flaw = "misses" /\ c = "canary_isolation"
           \/ flaw = "mutates" /\ c = "query_mutation"
           \/ flaw = "sees-future" /\ c = "future_leakage"
           \/ flaw = "sees-others" /\ c = "cross_user_isolation"
    BY <1>5 DEF TellsInPreflight
  <2>4. ~(flaw = "misses" /\ c = "canary_isolation")
    BY <1>f, <2>1, MissTells
  <2>5. ~(flaw = "mutates" /\ c = "query_mutation")
    BY <1>f, <2>1, MutationTells
  <2>6. flaw = "sees-future" /\ c = "future_leakage" => Future \notin a.listed
    BY <1>f, <2>1, SightTells
  <2>7. flaw = "sees-others" /\ c = "cross_user_isolation" => Other \notin a.listed
    BY <1>f, <2>1, SightTells
  <2> QED BY <1>5, <2>2, <2>3, <2>4, <2>5, <2>6, <2>7 DEF Steady
<1>6. CASE c = "cleanup"
  <2>1. r \in Closing(a)
    BY <1>6 DEF SupplementCheck
  <2>2. PICK b \in CleanupOf(product, a) : r \in Says(b.a, "native")
    BY <2>1 DEF Closing, Then, ThenWith, CleanupOf, Mem0s, GBrains, GBrain!Cleanup, GBrain!Returned
  <2>3. \E t : b.a = [a EXCEPT !.trash = t]
    BY <2>2 DEF CleanupOf, Mem0s, GBrains, GBrain!Cleanup, GBrain!Returned
  <2>4. Steady(a, b)
    BY <2>3 DEF Steady, Plain
  <2>5. r.a = b.a
    BY <2>2, Worded
  <2>6. <<flaw, c>> \notin TellsInPreflight
    BY <1>6 DEF TellsInPreflight
  <2> QED BY <1>6, <2>4, <2>5, <2>6 DEF Steady
<1> QED BY <1>1, <1>2, <1>3, <1>4, <1>5, <1>6

-----------------------------------------------------------------------------
(* Where the checks stand in the lists.                                    *)
LEMMA ContractOrder ==
    ASSUME gate = "contract"
    PROVE  /\ Len(Plan) = 21 /\ \A i, j \in 1 .. 21 : Plan[i] = Plan[j] => i = j
           /\ \A i \in 1 .. 21 :
                /\ Plan[i] \in {"metadata", "unregistered", "probe", "factory"} <=> i < 5
                /\ (Plan[i] = "fresh_state" <=> i = 5) /\ (Plan[i] = "dedup" <=> i = 6)
                /\ Plan[i] \in {"metadata", "unregistered", "probe", "factory", "fresh_state",
                     "dedup", "ordering", "readiness", "canary_current", "read_only_retrieval",
                     "snapshot_restore", "canary_future", "canary_cross_user",
                     "canary_authority", "canary_multi_hop", "canary_deleted",
                     "error_normalization", "unknown_principal", "export_import", "restart",
                     "cleanup"}
           /\ Plan[9] = "canary_current" /\ Plan[10] = "read_only_retrieval"
           /\ Plan[12] = "canary_future" /\ Plan[13] = "canary_cross_user"
           /\ Plan[16] = "canary_deleted" /\ Plan[20] = "restart"
<1> DEFINE P == <<"metadata", "unregistered", "probe", "factory", "fresh_state", "dedup",
                  "ordering", "readiness", "canary_current", "read_only_retrieval",
                  "snapshot_restore", "canary_future", "canary_cross_user",
                  "canary_authority", "canary_multi_hop", "canary_deleted",
                  "error_normalization", "unknown_principal", "export_import", "restart",
                  "cleanup">>
<1>1. Plan = P
  BY DEF Plan
<1>2. Len(P) = 21
  OBVIOUS
<1>3. \A i, j \in 1 .. 21 : P[i] = P[j] => i = j
  OBVIOUS
<1>4. \A i \in 1 .. 21 :
        /\ P[i] \in {"metadata", "unregistered", "probe", "factory"} <=> i < 5
        /\ (P[i] = "fresh_state" <=> i = 5) /\ (P[i] = "dedup" <=> i = 6)
        /\ P[i] \in {"metadata", "unregistered", "probe", "factory", "fresh_state",
             "dedup", "ordering", "readiness", "canary_current", "read_only_retrieval",
             "snapshot_restore", "canary_future", "canary_cross_user",
             "canary_authority", "canary_multi_hop", "canary_deleted",
             "error_normalization", "unknown_principal", "export_import", "restart",
             "cleanup"}
  OBVIOUS
<1>5. /\ P[9] = "canary_current" /\ P[10] = "read_only_retrieval" /\ P[12] = "canary_future"
      /\ P[13] = "canary_cross_user" /\ P[16] = "canary_deleted" /\ P[20] = "restart"
  OBVIOUS
<1> HIDE DEF P
<1> QED BY <1>1, <1>2, <1>3, <1>4, <1>5

LEMMA PreflightOrder ==
    ASSUME gate = "preflight"
    PROVE  /\ Len(Plan) = 11 /\ \A i, j \in 1 .. 11 : Plan[i] = Plan[j] => i = j
           /\ Plan[6] = "canary_isolation" /\ Plan[7] = "cross_user_isolation"
           /\ Plan[8] = "future_leakage" /\ Plan[9] = "query_mutation" /\ Plan[10] = "fresh_state"
<1> DEFINE P == <<"network_egress", "compose_policy", "gold_inaccessibility",
                  "no_memory_control", "oracle_control", "canary_isolation",
                  "cross_user_isolation", "future_leakage", "query_mutation",
                  "fresh_state", "reader_statelessness">>
<1>1. Plan = P
  BY DEF Plan
<1>2. Len(P) = 11
  OBVIOUS
<1>3. \A i, j \in 1 .. 11 : P[i] = P[j] => i = j
  OBVIOUS
<1>4. /\ P[6] = "canary_isolation" /\ P[7] = "cross_user_isolation"
      /\ P[8] = "future_leakage" /\ P[9] = "query_mutation" /\ P[10] = "fresh_state"
  OBVIOUS
<1> HIDE DEF P
<1> QED BY <1>1, <1>2, <1>3, <1>4

LEMMA SupplementOrder ==
    ASSUME gate = "supplement"
    PROVE  /\ Len(Plan) = 14 /\ \A i, j \in 1 .. 14 : Plan[i] = Plan[j] => i = j
           /\ \A i \in 1 .. 14 :
                /\ Plan[i] \in {"network_egress", "compose_policy", "gold_inaccessibility",
                     "no_memory_control", "oracle_control", "provider", "empty_at_start",
                     "probe_events", "canary_isolation", "cross_user_isolation",
                     "future_leakage", "query_mutation", "reader_statelessness", "cleanup"}
                /\ (Plan[i] = "provider" <=> i = 6) /\ (Plan[i] = "probe_events" <=> i = 8)
           /\ Plan[9] = "canary_isolation" /\ Plan[10] = "cross_user_isolation"
           /\ Plan[11] = "future_leakage" /\ Plan[12] = "query_mutation"
<1> DEFINE P == <<"network_egress", "compose_policy", "gold_inaccessibility",
                  "no_memory_control", "oracle_control", "provider", "empty_at_start",
                  "probe_events", "canary_isolation", "cross_user_isolation",
                  "future_leakage", "query_mutation", "reader_statelessness", "cleanup">>
<1>1. Plan = P
  BY DEF Plan
<1>2. Len(P) = 14
  OBVIOUS
<1>3. \A i, j \in 1 .. 14 : P[i] = P[j] => i = j
  OBVIOUS
<1>4. \A i \in 1 .. 14 :
        /\ P[i] \in {"network_egress", "compose_policy", "gold_inaccessibility",
             "no_memory_control", "oracle_control", "provider", "empty_at_start",
             "probe_events", "canary_isolation", "cross_user_isolation",
             "future_leakage", "query_mutation", "reader_statelessness", "cleanup"}
        /\ (P[i] = "provider" <=> i = 6) /\ (P[i] = "probe_events" <=> i = 8)
  OBVIOUS
<1>5. /\ P[9] = "canary_isolation" /\ P[10] = "cross_user_isolation"
      /\ P[11] = "future_leakage" /\ P[12] = "query_mutation"
  OBVIOUS
<1> HIDE DEF P
<1> QED BY <1>1, <1>2, <1>3, <1>4, <1>5

(* The check that is made next, and those made before it.                  *)
LEMMA NextCheck ==
    ASSUME GateInv, todo # << >>
    PROVE  \E n \in Nat : Done(n) /\ n < Len(Plan) /\ Head(todo) = Plan[n + 1]
<1>1. PICK n \in Nat : Done(n)
  BY DEF GateInv, CutShort
<1>2. PICK S : todo \in Seq(S)
  BY DEF GateInv
<1>3. Len(Plan) \in Nat
  BY PlanFacts DEF GateInv
<1>4. Len(todo) \in Nat \ {0} /\ Len(todo) = Len(Plan) - n /\ n < Len(Plan)
  BY <1>1, <1>2, <1>3 DEF Done
<1>5. Head(todo) = todo[1] /\ 1 \in 1 .. Len(todo)
  BY <1>2, <1>4
<1>6. todo[1] = Plan[n + 1]
  BY <1>1, <1>5 DEF Done
<1> QED BY <1>1, <1>4, <1>5, <1>6

LEMMA NextOrder ==
    ASSUME gate \in {"contract", "preflight", "supplement"}, NEW n \in Nat, Done(n), n < Len(Plan),
           NEW c, c = Plan[n + 1]
    PROVE  /\ c \notin DOMAIN results
           /\ gate = "contract" =>
                /\ "fresh_state" \notin DOMAIN results =>
                     c \in {"metadata", "unregistered", "probe", "factory", "fresh_state"}
                /\ c \in {"factory", "fresh_state"} => "dedup" \notin DOMAIN results
                /\ c \in {"canary_future", "canary_cross_user", "canary_deleted", "restart"} =>
                     "dedup" \in DOMAIN results
           /\ gate = "supplement" =>
                /\ c = "provider" => "probe_events" \notin DOMAIN results
                /\ c \in {"future_leakage", "cross_user_isolation"} =>
                     "probe_events" \in DOMAIN results
<1>1. /\ DOMAIN results = {Plan[i] : i \in 1 .. n}
      /\ Len(Plan) \in {11, 14, 21}
      /\ \A i, j \in 1 .. Len(Plan) : Plan[i] = Plan[j] => i = j
  <2>1. DOMAIN results = {Plan[i] : i \in 1 .. n}
    BY DEF Done
  <2>2. CASE gate = "contract"
    <3>1. Len(Plan) = 21 /\ \A i, j \in 1 .. 21 : Plan[i] = Plan[j] => i = j
      BY <2>2, ContractOrder
    <3> QED BY <2>1, <3>1
  <2>3. CASE gate = "preflight"
    <3>1. Len(Plan) = 11 /\ \A i, j \in 1 .. 11 : Plan[i] = Plan[j] => i = j
      BY <2>3, PreflightOrder
    <3> QED BY <2>1, <3>1
  <2>4. CASE gate = "supplement"
    <3>1. Len(Plan) = 14 /\ \A i, j \in 1 .. 14 : Plan[i] = Plan[j] => i = j
      BY <2>4, SupplementOrder
    <3> QED BY <2>1, <3>1
  <2> QED BY <2>2, <2>3, <2>4
<1>2. Len(Plan) \in Nat /\ n + 1 \in 1 .. Len(Plan) /\ \A i \in 1 .. n : i \in 1 .. Len(Plan)
  BY <1>1
<1>3. c \notin DOMAIN results
  BY <1>1, <1>2
<1>4. ASSUME NEW k \in 1 .. Len(Plan), k < n + 1 PROVE Plan[k] \in DOMAIN results
  BY <1>1, <1>2, <1>4
<1>5. ASSUME NEW k \in 1 .. Len(Plan), k > n PROVE Plan[k] \notin DOMAIN results
  BY <1>1, <1>2, <1>5
<1>6. ASSUME gate = "contract"
      PROVE  /\ "fresh_state" \notin DOMAIN results =>
                  c \in {"metadata", "unregistered", "probe", "factory", "fresh_state"}
             /\ c \in {"factory", "fresh_state"} => "dedup" \notin DOMAIN results
             /\ c \in {"canary_future", "canary_cross_user", "canary_deleted", "restart"} =>
                  "dedup" \in DOMAIN results
  <2>l. Len(Plan) = 21
    BY <1>6, ContractOrder
  <2>0. Len(Plan) = 21 /\ n + 1 \in 1 .. 21 /\ 5 \in 1 .. 21 /\ 6 \in 1 .. 21
    BY <1>2, <2>l
  <2>p. /\ Plan[5] = "fresh_state" <=> 5 = 5
        /\ Plan[6] = "dedup" <=> 6 = 6
    BY <1>6, <2>0, ContractOrder
  <2>1. Len(Plan) = 21 /\ n + 1 \in 1 .. 21 /\ 5 \in 1 .. 21 /\ 6 \in 1 .. 21
        /\ Plan[5] = "fresh_state" /\ Plan[6] = "dedup"
    BY <2>0, <2>p
  <2>2. /\ c \in {"metadata", "unregistered", "probe", "factory"} <=> n + 1 < 5
        /\ (c = "fresh_state" <=> n + 1 = 5) /\ (c = "dedup" <=> n + 1 = 6)
    BY <1>6, <2>1, ContractOrder
  <2>3. 5 < n + 1 => "fresh_state" \in DOMAIN results
    BY <1>4, <2>1
  <2>4. 6 < n + 1 => "dedup" \in DOMAIN results
    BY <1>4, <2>1
  <2>5. 6 > n => "dedup" \notin DOMAIN results
    BY <1>5, <2>1
  <2> QED BY <2>2, <2>3, <2>4, <2>5
<1>7. ASSUME gate = "supplement"
      PROVE  /\ c = "provider" => "probe_events" \notin DOMAIN results
             /\ c \in {"future_leakage", "cross_user_isolation"} =>
                  "probe_events" \in DOMAIN results
  <2>l. Len(Plan) = 14
    BY <1>7, SupplementOrder
  <2>0. Len(Plan) = 14 /\ n + 1 \in 1 .. 14 /\ 8 \in 1 .. 14 /\ 10 \in 1 .. 14 /\ 11 \in 1 .. 14
    BY <1>2, <2>l
  <2>p. Plan[8] = "probe_events" <=> 8 = 8
    BY <1>7, <2>0, SupplementOrder
  <2>1. Len(Plan) = 14 /\ n + 1 \in 1 .. 14 /\ 8 \in 1 .. 14 /\ 10 \in 1 .. 14 /\ 11 \in 1 .. 14
        /\ Plan[8] = "probe_events"
    BY <2>0, <2>p
  <2>2. /\ c = "provider" => n + 1 = 6
        /\ c = "future_leakage" => n + 1 = 11
        /\ c = "cross_user_isolation" => n + 1 = 10
    BY <1>7, <2>1, SupplementOrder
  <2>3. 8 < n + 1 => "probe_events" \in DOMAIN results
    BY <1>4, <2>1
  <2>4. 8 > n => "probe_events" \notin DOMAIN results
    BY <1>5, <2>1
  <2> QED BY <2>2, <2>3, <2>4
<1> QED BY <1>3, <1>6, <1>7

-----------------------------------------------------------------------------
(* While nothing has failed, the check that tells of the flaw has not been *)
(* made, and the list holds what it will look for.                         *)
Suspects == IF gate = "supplement" THEN {"gbrain-ollama"} ELSE {"hindsight", "full-context"}

Stocked ==
    /\ Plain(product, a)
    /\ gate = "contract" =>
         /\ flaw = "keeps-state" => a.listed = {}
         /\ flaw # "keeps-state" /\ "dedup" \in DOMAIN results =>
              /\ {Asked, Future} \subseteq a.listed
              /\ "canary_deleted" \notin DOMAIN results => Doomed \in a.listed
    /\ gate = "supplement" /\ "probe_events" \in DOMAIN results =>
         {Future, Other} \subseteq a.listed

FlawInv ==
    flaw \in Sought =>
        /\ thorough /\ product \in Suspects /\ (flaw = "forgets" => product = "hindsight")
        /\ verdict \in {"running", "passed"} /\ Failed = {} =>
             /\ \A c \in DOMAIN results : ~Tells(c)
             /\ gate \in {"contract", "supplement"} => Stocked

LEMMA FlawInvInit == Init => FlawInv
<1> SUFFICES ASSUME Init, flaw \in Sought PROVE FlawInv
  BY DEF FlawInv
<1>1. gate \in {"contract", "preflight", "supplement"} /\ flaw # "none"
  BY DEF Init, Gates, Sought, SoughtBy, Flaws
<1>2. thorough /\ product \in Suspects /\ (flaw = "forgets" => product = "hindsight")
  <2>1. thorough
    BY <1>1 DEF Init
  <2>2. CASE gate = "supplement"
    <3>1. product \in Suspects
      BY <2>2 DEF Init, ProductsOf, Suspects
    <3>2. flaw # "forgets"
      BY <2>2 DEF Sought, SoughtBy
    <3> QED BY <2>1, <3>1, <3>2
  <2>3. CASE gate # "supplement"
    <3>1. flaw \in IF product = "full-context" THEN Flaws \ {"forgets"}
                   ELSE IF product = "hindsight" THEN Flaws ELSE {"none"}
      BY <2>3 DEF Init
    <3> QED BY <1>1, <2>1, <2>3, <3>1 DEF Suspects
  <2> QED BY <2>2, <2>3
<1>3. DOMAIN results = {}
  BY DEF Init
<1>4. Plain(product, a) /\ a.listed = {}
  BY DEF Init, Blank, Plain
<1> QED BY <1>2, <1>3, <1>4 DEF FlawInv, Stocked

(* A check that has been made without failing.                             *)
LEMMA FlawInvReturns == GateInv /\ FlawInv /\ CheckReturns => FlawInv'
<1> SUFFICES ASSUME GateInv, FlawInv, CheckReturns, (flaw \in Sought)' PROVE FlawInv'
  BY DEF FlawInv
<1>1. /\ gate' = gate /\ product' = product /\ flaw' = flaw /\ thorough' = thorough
      /\ setup' = setup /\ verdict = "running" /\ todo # << >>
  BY DEF CheckReturns
<1>2. /\ flaw \in Sought /\ thorough /\ product \in Suspects
      /\ flaw = "forgets" => product = "hindsight"
  <2>1. flaw \in Sought
    BY <1>1 DEF Sought, SoughtBy, Overlooked
  <2> QED BY <2>1 DEF FlawInv
<1>3. gate \in {"contract", "preflight", "supplement"}
  <2>1. gate \in Gates
    BY DEF GateInv
  <2> QED BY <1>2, <2>1 DEF Gates, Sought, SoughtBy
<1>c. PICK c : c = Head(todo)
  OBVIOUS
<1>4. PICK n \in Nat : Done(n) /\ n < Len(Plan) /\ c = Plan[n + 1]
  BY <1>1, <1>c, NextCheck
<1>5. PICK r \in CheckOf(c, a) :
         /\ ~r.raised /\ a' = r.a
         /\ results' = Recorded(c, IF Measured(c) THEN "not_applicable" ELSE r.value.is)
  BY <1>c DEF CheckReturns
<1>w. PICK w : w = IF Measured(c) THEN "not_applicable" ELSE r.value.is
  OBVIOUS
<1>6. /\ gate # "preflight" => ~Measured(c)
      /\ ~Measured(c) => w = r.value.is
  BY <1>w DEF Measured
<1>7. /\ DOMAIN results' = {c} \cup DOMAIN results /\ results'[c] = w
      /\ \A d \in DOMAIN results \ {c} : results'[d] = results[d]
  <2>1. results' = Recorded(c, w)
    BY <1>5, <1>w
  <2> QED BY <2>1 DEF Recorded
<1>8. c \notin DOMAIN results
  BY <1>3, <1>4, NextOrder
<1> SUFFICES ASSUME (Failed = {})'
             PROVE  /\ \A d \in DOMAIN results' : ~Tells(d)'
                    /\ gate \in {"contract", "supplement"} => Stocked'
  <2>1. Suspects' = Suspects
    BY <1>1 DEF Suspects
  <2> QED BY <1>1, <1>2, <2>1 DEF FlawInv
<1>9. /\ ~Measured(c) => r.value.is # "failed"
      /\ Failed = {}
  <2>1. \A d \in DOMAIN results' : results'[d] # "failed"
    BY DEF Failed
  <2> QED BY <1>6, <1>7, <1>8, <2>1 DEF Failed
<1>10. /\ \A d \in DOMAIN results : ~Tells(d)
       /\ gate \in {"contract", "supplement"} => Stocked
  BY <1>1, <1>2, <1>9 DEF FlawInv
<1>t. \A d : Tells(d)' <=> Tells(d)
  BY <1>1 DEF Tells
<1>11. ASSUME ~Tells(c) PROVE \A d \in DOMAIN results' : ~Tells(d)'
  BY <1>7, <1>10, <1>11, <1>t
<1>e. /\ {Asked, Future, Other, Doomed} \subseteq Events /\ Missing \notin Events
      /\ Asked # Doomed /\ Future # Doomed
  BY CorpusAssumption
<1>12. CASE gate = "preflight"
  <2>1. r \in PreflightCheck(c, a)
    BY <1>5, <1>12 DEF CheckOf
  <2>2. <<flaw, c>> \notin TellsInPreflight
    <3>1. CASE Measured(c)
      <4>1. flaw \notin {"sees-future", "sees-others", "misses"}
        BY <1>2, <1>12, <3>1 DEF Measured, Sought, Overlooked
      <4>2. c \notin {"fresh_state", "query_mutation"}
        BY <3>1 DEF Measured
      <4> QED BY <4>1, <4>2 DEF TellsInPreflight
    <3>2. CASE ~Measured(c)
      BY <1>2, <1>5, <1>9, <1>12, <2>1, <3>2, PreflightSteps DEF Suspects
    <3> QED BY <3>1, <3>2
  <2>3. ~Tells(c)
    BY <1>12, <2>2 DEF Tells
  <2> QED BY <1>11, <1>12, <2>3
<1>13. CASE gate = "supplement"
  <2>1. r \in SupplementCheck(c, a)
    BY <1>5, <1>13 DEF CheckOf
  <2>2. product = "gbrain-ollama" /\ Plain(product, a) /\ flaw # "keeps-state"
    BY <1>2, <1>10, <1>13 DEF Suspects, Stocked, Sought, SoughtBy, Overlooked
  <2>3. c \in {"network_egress", "compose_policy", "gold_inaccessibility", "no_memory_control",
               "oracle_control", "provider", "empty_at_start", "probe_events",
               "canary_isolation", "cross_user_isolation", "future_leakage", "query_mutation",
               "reader_statelessness", "cleanup"}
    <3>1. Len(Plan) = 14
      BY <1>13, SupplementOrder
    <3>2. n + 1 \in 1 .. 14
      BY <1>4, <3>1
    <3> QED BY <1>4, <1>13, <3>2, SupplementOrder
  <2>4. /\ Plain(product, r.a)
        /\ c = "probe_events" => Events \subseteq r.a.listed
        /\ c # "provider" => a.listed \subseteq r.a.listed
        /\ <<flaw, c>> \in TellsInPreflight =>
             \/ flaw = "sees-future" /\ Future \notin a.listed
             \/ flaw = "sees-others" /\ Other \notin a.listed
    BY <1>2, <1>5, <1>6, <1>9, <1>13, <2>1, <2>2, <2>3, SupplementSteps
  <2>5. /\ c = "provider" => "probe_events" \notin DOMAIN results
        /\ c \in {"future_leakage", "cross_user_isolation"} => "probe_events" \in DOMAIN results
    BY <1>3, <1>4, <1>13, NextOrder
  <2>6. "probe_events" \in DOMAIN results => {Future, Other} \subseteq a.listed
    BY <1>10, <1>13 DEF Stocked
  <2>7. "probe_events" \in DOMAIN results' => {Future, Other} \subseteq a'.listed
    BY <1>5, <1>7, <1>e, <2>4, <2>5, <2>6
  <2>8. Stocked'
    BY <1>1, <1>5, <1>13, <2>4, <2>7 DEF Stocked
  <2>9. <<flaw, c>> \notin TellsInPreflight
    <3>1. /\ <<flaw, c>> \in TellsInPreflight /\ flaw = "sees-future" => c = "future_leakage"
          /\ <<flaw, c>> \in TellsInPreflight /\ flaw = "sees-others" => c = "cross_user_isolation"
      BY DEF TellsInPreflight
    <3> QED BY <2>4, <2>5, <2>6, <3>1
  <2>10. ~Tells(c)
    BY <1>13, <2>9 DEF Tells
  <2> QED BY <1>11, <2>8, <2>10
<1>14. CASE gate = "contract"
  <2>1. r \in ContractCheck(c, a)
    BY <1>5, <1>14 DEF CheckOf
  <2>2. /\ product \in {"hindsight", "full-context"} /\ Plain(product, a) /\ flaw \in Flaws
        /\ flaw = "keeps-state" => a.listed = {}
        /\ flaw # "keeps-state" /\ "dedup" \in DOMAIN results =>
             /\ {Asked, Future} \subseteq a.listed
             /\ "canary_deleted" \notin DOMAIN results => Doomed \in a.listed
    BY <1>2, <1>10, <1>14 DEF Suspects, Stocked, Sought, SoughtBy, Overlooked
  <2>3. c \in {"metadata", "unregistered", "probe", "factory", "fresh_state", "dedup",
               "ordering", "readiness", "canary_current", "read_only_retrieval",
               "snapshot_restore", "canary_future", "canary_cross_user",
               "canary_authority", "canary_multi_hop", "canary_deleted",
               "error_normalization", "unknown_principal", "export_import", "restart",
               "cleanup"}
    <3>1. Len(Plan) = 21
      BY <1>14, ContractOrder
    <3>2. n + 1 \in 1 .. 21
      BY <1>4, <3>1
    <3> QED BY <1>4, <1>14, <3>2, ContractOrder
  <2>4. /\ c \in {"metadata", "unregistered", "probe"} => Steady(a, r)
        /\ c = "factory" => Plain(product, r.a) /\ r.a.listed = {}
        /\ flaw # "keeps-state" /\ ~(flaw = "forgets" /\ c = "restart") =>
             /\ Plain(product, r.a)
             /\ c = "dedup" => Events \subseteq r.a.listed
             /\ c \notin {"factory", "fresh_state"} =>
                  /\ a.listed \ {Missing, Doomed} \subseteq r.a.listed
                  /\ c # "canary_deleted" => a.listed \ {Missing} \subseteq r.a.listed
        /\ <<flaw, c>> \in TellsInContract =>
             \/ flaw = "keeps-state" /\ a.listed # {}
             \/ flaw = "sees-future" /\ Future \notin a.listed
             \/ flaw = "sees-others" /\ Asked \notin a.listed
             \/ flaw = "keeps-deleted" /\ Doomed \notin a.listed
             \/ flaw = "forgets" /\ Asked \notin a.listed
    BY <1>2, <1>5, <1>6, <1>9, <1>14, <2>1, <2>2, <2>3, ContractSteps
  <2>5. /\ "fresh_state" \notin DOMAIN results =>
             c \in {"metadata", "unregistered", "probe", "factory", "fresh_state"}
        /\ c \in {"factory", "fresh_state"} => "dedup" \notin DOMAIN results
        /\ c \in {"canary_future", "canary_cross_user", "canary_deleted", "restart"} =>
             "dedup" \in DOMAIN results
    BY <1>3, <1>4, <1>14, NextOrder
  <2>6. <<flaw, c>> \notin TellsInContract
    <3>1. <<flaw, c>> \in TellsInContract =>
             /\ flaw = "sees-future" => c = "canary_future"
             /\ flaw = "sees-others" => c = "canary_cross_user"
             /\ flaw = "keeps-deleted" => c = "canary_deleted"
             /\ flaw = "forgets" => c = "restart"
      BY DEF TellsInContract
    <3> QED BY <1>8, <2>2, <2>4, <2>5, <3>1
  <2>7. ~Tells(c)
    BY <1>14, <2>6 DEF Tells
  <2>8. ASSUME flaw = "keeps-state" PROVE Plain(product, r.a) /\ r.a.listed = {}
    <3>1. <<"keeps-state", "fresh_state">> \in TellsInContract
      BY DEF TellsInContract
    <3>2. "fresh_state" \notin DOMAIN results /\ c # "fresh_state"
      BY <1>10, <1>14, <2>6, <2>8, <3>1 DEF Tells
    <3> QED BY <2>2, <2>4, <2>5, <2>8, <3>2 DEF Steady
  <2>9. ASSUME flaw # "keeps-state"
        PROVE  /\ Plain(product, r.a)
               /\ "dedup" \in DOMAIN results' =>
                    /\ {Asked, Future} \subseteq r.a.listed
                    /\ "canary_deleted" \notin DOMAIN results' => Doomed \in r.a.listed
    <3>1. ~(flaw = "forgets" /\ c = "restart")
      BY <2>6 DEF TellsInContract
    <3>2. CASE c = "dedup"
      BY <1>e, <2>4, <2>9, <3>1, <3>2
    <3>3. CASE c # "dedup"
      <4>1. SUFFICES ASSUME "dedup" \in DOMAIN results
                     PROVE  /\ {Asked, Future} \subseteq r.a.listed
                            /\ "canary_deleted" \notin DOMAIN results' => Doomed \in r.a.listed
        BY <1>7, <2>4, <2>9, <3>1, <3>3
      <4>2. /\ a.listed \ {Missing, Doomed} \subseteq r.a.listed
            /\ c # "canary_deleted" => a.listed \ {Missing} \subseteq r.a.listed
        BY <2>4, <2>5, <2>9, <3>1, <4>1
      <4>3. /\ {Asked, Future} \subseteq a.listed
            /\ "canary_deleted" \notin DOMAIN results => Doomed \in a.listed
        BY <2>2, <2>9, <4>1
      <4> QED BY <1>7, <1>e, <4>2, <4>3
    <3> QED BY <3>2, <3>3
  <2>10. Stocked'
    BY <1>1, <1>5, <1>14, <2>8, <2>9 DEF Stocked
  <2> QED BY <1>11, <2>7, <2>10
<1> QED BY <1>3, <1>12, <1>13, <1>14

LEMMA FlawInvNext == GateInv /\ FlawInv /\ [Next]_vars => FlawInv'
<1> SUFFICES ASSUME GateInv, FlawInv, [Next]_vars PROVE FlawInv'
  OBVIOUS
<1>1. CASE CheckReturns
  BY <1>1, FlawInvReturns
<1>s. ASSUME gate' = gate, product' = product, flaw' = flaw, thorough' = thorough, setup' = setup
      PROVE  /\ Sought' = Sought /\ Suspects' = Suspects
             /\ \A c : Tells(c)' <=> Tells(c)
  BY <1>s DEF Sought, SoughtBy, Overlooked, Suspects, Tells
<1>2. CASE CheckRaises
  <2>1. /\ gate' = gate /\ product' = product /\ flaw' = flaw /\ thorough' = thorough
        /\ setup' = setup
    BY <1>2 DEF CheckRaises
  <2>2. verdict' = "raised" \/ results' = Recorded("contract_execution", "failed")
    BY <1>2 DEF CheckRaises
  <2>3. results' = Recorded("contract_execution", "failed") => "contract_execution" \in Failed'
    BY DEF Recorded, Failed
  <2> QED BY <1>s, <2>1, <2>2, <2>3 DEF FlawInv
<1>3. CASE Conclude \/ UNCHANGED vars
  <2>1. /\ gate' = gate /\ product' = product /\ flaw' = flaw /\ thorough' = thorough
        /\ setup' = setup
        /\ results' = results /\ a' = a
        /\ verdict' \in {"running", "passed"} => verdict \in {"running", "passed"}
    BY <1>3 DEF Conclude, vars
  <2>2. Failed' = Failed
    BY <2>1 DEF Failed
  <2>3. Stocked' <=> Stocked
    BY <2>1 DEF Stocked
  <2> QED BY <1>s, <2>1, <2>2, <2>3 DEF FlawInv
<1> QED BY <1>1, <1>2, <1>3 DEF Next

LEMMA FlawsCaughtThen == GateInv /\ LookedAround /\ FlawInv => FlawsCaught
<1> SUFFICES ASSUME GateInv, FlawInv, flaw \in Sought, verdict = "passed" PROVE FALSE
  BY SuspectFailsThen DEF SuspectFails, FlawsCaught
<1>1. /\ gate \in Gates /\ Failed = {}
      /\ DOMAIN results = {Plan[i] : i \in 1 .. Len(Plan)}
  BY PassedOnceDone DEF PassedIsComplete, GateInv
<1>2. \A c \in DOMAIN results : ~Tells(c)
  BY <1>1 DEF FlawInv
<1>3. CASE gate = "contract"
  <2>1. /\ 5 \in 1 .. 21 /\ 6 \in 1 .. 21 /\ 9 \in 1 .. 21 /\ 10 \in 1 .. 21 /\ 12 \in 1 .. 21
        /\ 13 \in 1 .. 21 /\ 16 \in 1 .. 21 /\ 20 \in 1 .. 21
    OBVIOUS
  <2>2. Plan[5] = "fresh_state" /\ Plan[6] = "dedup"
    <3>1. (Plan[5] = "fresh_state" <=> 5 = 5) /\ (Plan[6] = "dedup" <=> 6 = 6)
      BY <1>3, <2>1, ContractOrder
    <3> QED BY <3>1
  <2>3. {"fresh_state", "dedup", "canary_current", "read_only_retrieval", "canary_future",
         "canary_cross_user", "canary_deleted", "restart"} \subseteq DOMAIN results
    <3>1. \A i \in 1 .. 21 : Plan[i] \in DOMAIN results
      BY <1>1, <1>3, ContractOrder
    <3>2. /\ Plan[5] \in DOMAIN results /\ Plan[6] \in DOMAIN results /\ Plan[9] \in DOMAIN results
          /\ Plan[10] \in DOMAIN results /\ Plan[12] \in DOMAIN results
          /\ Plan[13] \in DOMAIN results /\ Plan[16] \in DOMAIN results
          /\ Plan[20] \in DOMAIN results
      BY <2>1, <3>1
    <3> QED BY <1>3, <2>2, <3>2, ContractOrder
  <2>4. flaw \in Flaws \ {"none"}
    BY <1>3 DEF Sought, SoughtBy, Overlooked
  <2>5. \A c : <<flaw, c>> \in TellsInContract => Tells(c)
    BY <1>3 DEF Tells
  <2> QED BY <1>2, <2>3, <2>4, <2>5 DEF Flaws, TellsInContract
<1>4. CASE gate = "preflight"
  <2>1. 6 \in 1 .. 11 /\ 7 \in 1 .. 11 /\ 8 \in 1 .. 11 /\ 9 \in 1 .. 11 /\ 10 \in 1 .. 11
    OBVIOUS
  <2>2. {"canary_isolation", "cross_user_isolation", "future_leakage", "query_mutation",
         "fresh_state"} \subseteq DOMAIN results
    BY <1>1, <1>4, <2>1, PreflightOrder, ZenonT(60)
  <2>3. flaw \in {"keeps-state", "sees-future", "sees-others", "mutates", "misses"}
    BY <1>4 DEF Sought, SoughtBy, Overlooked
  <2>4. \A c : <<flaw, c>> \in TellsInPreflight => Tells(c)
    BY <1>4 DEF Tells
  <2> QED BY <1>2, <2>2, <2>3, <2>4 DEF TellsInPreflight
<1>5. CASE gate = "supplement"
  <2>1. 9 \in 1 .. 14 /\ 10 \in 1 .. 14 /\ 11 \in 1 .. 14 /\ 12 \in 1 .. 14
    OBVIOUS
  <2>2. {"canary_isolation", "cross_user_isolation", "future_leakage", "query_mutation"}
           \subseteq DOMAIN results
    <3>1. \A i \in 1 .. 14 : Plan[i] \in DOMAIN results
      BY <1>1, <1>5, SupplementOrder
    <3>2. /\ Plan[9] \in DOMAIN results /\ Plan[10] \in DOMAIN results
          /\ Plan[11] \in DOMAIN results /\ Plan[12] \in DOMAIN results
      BY <2>1, <3>1
    <3> QED BY <1>5, <3>2, SupplementOrder
  <2>3. flaw \in {"sees-future", "sees-others", "mutates", "misses"}
    BY <1>5 DEF Sought, SoughtBy, Overlooked
  <2>4. \A c : <<flaw, c>> \in TellsInPreflight => Tells(c)
    BY <1>5, <2>3 DEF Tells
  <2> QED BY <1>2, <2>2, <2>3, <2>4 DEF TellsInPreflight
<1>6. CASE gate = "validation"
  BY <1>6 DEF Sought, SoughtBy, Overlooked
<1> QED BY <1>1, <1>3, <1>4, <1>5, <1>6 DEF Gates

(* No gate passes an adapter that has a flaw the gate looks for, however   *)
(* the calls before the telling one went and whichever of them failed, nor *)
(* one in suspect surroundings: a compose file that is missing or declares *)
(* a network that is not isolated, gold within reach, a reader that knows  *)
(* the answers, metadata missing, tracks that disagree.  Left out by name  *)
(* are what the supplement and the native track overlook (Overlooked) and  *)
(* what is only written down, a private mount and an unread manifest       *)
(* (Noted; run_contract, contamination/checks.py,                          *)
(* scripts/run_gbrain_native_local.py, scripts/validate_provider.py).      *)
THEOREM GatesCatchFlaws == Spec => []FlawsCaught
<1>1. Init => GateInv /\ LookedAround /\ FlawInv
  BY GateInvInit, LookedInit, FlawInvInit
<1>2. GateInv /\ LookedAround /\ FlawInv /\ [Next]_vars
        => GateInv' /\ LookedAround' /\ FlawInv'
  BY GateInvNext, LookedNext, FlawInvNext
<1>3. GateInv /\ LookedAround /\ FlawInv => FlawsCaught
  BY FlawsCaughtThen
<1> QED BY <1>1, <1>2, <1>3, PTL DEF Spec

-----------------------------------------------------------------------------
(* A sound adapter: it has no flaw and a thorough search.                  *)
Calm == product \in AllProducts /\ flaw = "none" /\ thorough

LEMMA Flawless ==
    ASSUME flaw = "none"
    PROVE  /\ \A s : Reset(s) = ResetOf(product, s)
           /\ \A s, b : Ingest(s, b) = IngestOf(product, s, b)
           /\ \A s, e : Delete(s, e) = DeleteOf(product, s, e)
           /\ \A s : Restart(s) = RestartOf(product, s)
           /\ \A s : HashOf(s) = <<SnapshotOf(product, s).hash, 0>>
           /\ \A s, q : Retrieve(s, q) \subseteq RetrieveOf(product, s, q)
<1>1. \A s : Reset(s) = ResetOf(product, s)
  BY DEF Reset
<1>2. \A s, b : Ingest(s, b) = IngestOf(product, s, b)
  BY DEF Ingest
<1>3. \A s, e : Delete(s, e) = DeleteOf(product, s, e)
  BY DEF Delete
<1>4. \A s : Restart(s) = RestartOf(product, s)
  BY DEF Restart
<1>5. \A s : HashOf(s) = <<SnapshotOf(product, s).hash, 0>>
  BY DEF HashOf
<1>6. \A r : Distorted(r) = r
  BY DEF Distorted
<1>7. \A s, q : Retrieve(s, q) \subseteq RetrieveOf(product, s, q)
  BY <1>6 DEF Retrieve
<1> QED BY <1>1, <1>2, <1>3, <1>4, <1>5, <1>7

(* A thorough search never raises, and finds all there is.                 *)
LEMMA Thorough ==
    ASSUME Calm, NEW s, NEW q, NEW r \in Retrieve(s, q)
    PROVE  /\ r \in RetrieveOf(product, s, q) /\ ~r.raised
           /\ \A x \in RetrieveOf(product, s, q) : r.value \subseteq x.value => x.value = r.value
<1>1. \A x : Distorted(x) = x
  BY DEF Distorted, Calm
<1>2. thorough
  BY DEF Calm
<1> DEFINE all == RetrieveOf(product, s, q)
           most(x) == /\ ~x.raised
                      /\ \A y \in all : x.value \subseteq y.value => y.value = x.value
<1>3. PICK x \in all : r = Distorted(x) /\ most(x)
  BY <1>2 DEF Retrieve
<1>4. r = x
  BY <1>1, <1>3
<1> QED BY <1>3, <1>4

(* Its operations, and what they leave the adapter with.                   *)
LEMMA ResetTurns ==
    ASSUME Calm, NEW s, Tame(product, s), NEW r \in Reset(s)
    PROVE  Goes(product, s, r) /\ (~r.raised => r.a.listed = {})
<1>1. r \in ResetOf(product, s) /\ product \in AllProducts
  BY Flawless DEF Calm
<1> QED BY <1>1, ResetGoes

LEMMA IngestTurns ==
    ASSUME Calm, NEW s, Tame(product, s), NEW b \in SUBSET Events, NEW r \in Ingest(s, b)
    PROVE  /\ Goes(product, s, r)
           /\ ~r.raised /\ product \notin Fixed =>
                r.a.listed = s.listed \cup b /\ (b \subseteq s.listed => r.value = 0)
<1>1. r \in IngestOf(product, s, b) /\ product \in AllProducts
  BY Flawless DEF Calm
<1>2. b \cap TooLong = {}
  BY QuestionsAssumption
<1>3. Goes(product, s, r) /\ (~r.raised /\ product \notin Fixed => r.a.listed = s.listed \cup b)
  BY <1>1, <1>2, IngestGoes
<1>4. ASSUME product \notin Fixed, b \subseteq s.listed, ~r.raised PROVE r.value = 0
  <2>1. product \in AllProducts \ Fixed
    BY <1>1, <1>4
  <2> QED BY <1>1, <1>4, <2>1, NothingNew
<1> QED BY <1>3, <1>4

LEMMA AwaitTurns ==
    ASSUME Calm, NEW s, Tame(product, s), NEW r \in AwaitReadyOf(product, s)
    PROVE  Goes(product, s, r) /\ (~r.raised => r.a.listed = s.listed)
<1>1. product \in AllProducts
  BY DEF Calm
<1> QED BY <1>1, QuietGoes

LEMMA NewTurns ==
    ASSUME Calm, NEW s \in Wide, Bare(s), NEW r \in New(s)
    PROVE  /\ Goes(product, s, r)
           /\ ~r.raised => r.a.listed = {} /\ r.a.store = {} /\ Fit(product, r.a)
<1>1. product \in AllProducts /\ r \in NewOf(product, s)
  BY DEF Calm, New
<1> QED BY <1>1, NewGoes

LEMMA RetrieveTurns ==
    ASSUME Calm, NEW s, Tame(product, s), NEW q \in Queries, NEW r \in Retrieve(s, q)
    PROVE  /\ Goes(product, s, r) /\ ~r.raised
           /\ r.a.listed = s.listed /\ r.a.store = s.store
           /\ product \notin Fixed \cup {"mem0-native"} /\ Ready(product, s) =>
                r.value = Best(product, s, q)
<1>1. product \in AllProducts
  BY DEF Calm
<1>2. r \in RetrieveOf(product, s, q) /\ ~r.raised
  BY Thorough
<1>3. Goes(product, s, r) /\ r.a.listed = s.listed /\ r.a.store = s.store
  BY <1>1, <1>2, QuietGoes
<1>4. ASSUME product \notin Fixed \cup {"mem0-native"}, Ready(product, s)
      PROVE  r.value = Best(product, s, q)
  <2>1. product \in AllProducts \ (Fixed \cup {"mem0-native"}) /\ s \in Wide /\ Ample
    BY <1>1, <1>4, QuestionsAssumption DEF Tame, Ample
  <2>2. r.value \subseteq Best(product, s, q)
    BY <1>2, <1>4, <2>1, NothingBetter
  <2>3. PICK x \in RetrieveOf(product, s, q) : ~x.raised /\ x.value = Best(product, s, q)
    BY <1>4, <2>1, BestAnswer
  <2> QED BY <2>2, <2>3, Thorough
<1> QED BY <1>2, <1>3, <1>4

LEMMA ApartBare ==
    ASSUME NEW s \in Wide
    PROVE  /\ Apart(s) \in Wide /\ Bare(Apart(s)) /\ Tame(product, Apart(s))
           /\ Apart(s).faults = s.faults /\ Fit(product, Apart(s))
<1>1. s.faults \in Nat
  BY DEF Wide
<1>2. Blank \in Wide
  BY DEF Blank, Wide, Homes
<1>3. Apart(s) \in Wide /\ Apart(s).faults = s.faults
  BY <1>1, <1>2 DEF Apart, Wide
<1>4. Bare(Apart(s))
  BY DEF Apart, Blank, Bare
<1>5. Fit(product, Apart(s))
  BY <1>3, <1>4, BareFit
<1> QED BY <1>3, <1>4, <1>5 DEF Fit

(* The adapter itself is left alone by what is done to another.            *)
LEMMA Aside ==
    ASSUME NEW s, Tame(product, s), NEW t, t \in Wide, t.faults >= s.faults,
           NEW r, r.a = [s EXCEPT !.faults = t.faults]
    PROVE  /\ Tame(product, r.a) /\ r.a.faults = t.faults
           /\ r.a.listed = s.listed /\ r.a.store = s.store
           /\ t.faults = s.faults => r.a = s
<1>1. s \in Wide /\ t.faults \in Nat
  BY DEF Tame, Wide
<1> DEFINE w == [s EXCEPT !.faults = t.faults]
<1>2. w \in Wide /\ w.faults = t.faults /\ w.listed = s.listed /\ w.store = s.store
  BY <1>1 DEF Wide
<1>3. t.faults = s.faults => w = s
  BY <1>1 DEF Wide
<1> HIDE DEF w
<1>4. r.a = w
  BY DEF w
<1>5. Shaped(product, w)
  BY <1>2 DEF Tame, Shaped
<1> QED BY <1>2, <1>3, <1>4, <1>5 DEF Tame

-----------------------------------------------------------------------------
(* The checks, with a sound adapter: an outcome goes on, and where nothing *)
(* fails and P holds before it is no failed check, and leaves the list L   *)
(* and the answer ids.                                                     *)
Clears(s, r, P, L, ids) ==
    /\ Goes(product, s, r)
    /\ P /\ Fit(product, s) /\ r.a.faults = s.faults =>
         r.value.is # "failed" /\ r.a.listed = L /\ r.value.ids = ids

LEMMA Raising ==
    ASSUME NEW s, NEW r, Goes(product, s, r), r.raised, NEW P, NEW L, NEW ids
    PROVE  Clears(s, r, P, L, ids)
  BY DEF Clears, Goes

LEMMA Ending ==
    ASSUME NEW s, NEW b, Goes(product, s, b), ~b.raised, NEW ok, NEW ids, NEW P, NEW L, NEW i,
           P /\ Fit(product, s) /\ b.a.faults = s.faults => ok /\ b.a.listed = L /\ ids = i,
           NEW r \in Found(b.a, ok, ids)
    PROVE  Clears(s, r, P, L, i)
<1>1. /\ r.a = b.a /\ r.raised = FALSE /\ r.value.ids = ids
      /\ ok => r.value.is = "native"
  BY DEF Found, Returned
<1> QED BY <1>1 DEF Clears, Goes

LEMMA Saying ==
    ASSUME NEW s, NEW b, Goes(product, s, b), ~b.raised, NEW word, word # "failed",
           NEW P, NEW L,
           P /\ Fit(product, s) /\ b.a.faults = s.faults => b.a.listed = L,
           NEW r \in Says(b.a, word)
    PROVE  Clears(s, r, P, L, answer)
<1>1. r.a = b.a /\ r.raised = FALSE /\ r.value.ids = answer /\ r.value.is = word
  BY DEF Says, Returned
<1> QED BY <1>1 DEF Clears, Goes

LEMMA SayingAtOnce ==
    ASSUME NEW s, Tame(product, s), NEW word, word # "failed", NEW P, NEW r \in Says(s, word)
    PROVE  Clears(s, r, P, s.listed, answer)
<1>1. r.a = s /\ r.raised = FALSE /\ r.value.ids = answer /\ r.value.is = word
  BY DEF Says, Returned
<1>2. s.faults >= s.faults
  BY DEF Tame, Wide
<1> QED BY <1>1, <1>2 DEF Clears, Goes

LEMMA RestoreTurns ==
    ASSUME Calm, product \notin Fixed, NEW s, Tame(product, s),
           NEW r \in IF flaw = "keeps-state" THEN {Returned(s, {})}
                     ELSE RestoreOf(product, s, SnapshotOf(product, s))
    PROVE  Goes(product, s, r) /\ (~r.raised => r.a.listed = s.listed)
<1>1. product \in AllProducts \ Fixed /\ r \in RestoreOf(product, s, SnapshotOf(product, s))
  BY DEF Calm
<1>2. SnapshotOf(product, s).events = s.listed
  BY <1>1, SnapshotIs
<1>3. s.listed \in SUBSET Events /\ s.listed \cap TooLong = {}
  BY QuestionsAssumption DEF Tame, Wide
<1>4. Refills(product, s, s.listed, r)
  BY <1>1, <1>2, RestoreRefills
<1> QED BY <1>1, <1>3, <1>4, RefillGoes

LEMMA DeleteTurns ==
    ASSUME Calm, SupportsDelete, NEW s, Tame(product, s), NEW e, NEW r,
           r \in Delete(s, e) \cup DeleteOf(product, s, e)
    PROVE  /\ Goes(product, s, r)
           /\ Fit(product, s) /\ r.a.faults = s.faults /\ product # "mem0-native" =>
                e \notin r.a.listed
<1>1. product \in AllProducts \ OptMems /\ r \in DeleteOf(product, s, e)
  BY Flawless DEF Calm, SupportsDelete
<1> QED BY <1>1, DeleteGoes

(* The questions are put to the events that are listed.                    *)
LEMMA Asking ==
    ASSUME Calm, product \notin Fixed \cup Natives, NEW s, Tame(product, s), NEW q \in Queries,
           NEW r \in Retrieve(s, q)
    PROVE  /\ Goes(product, s, r) /\ ~r.raised
           /\ r.a.listed = s.listed /\ r.a.store = s.store
           /\ Ready(product, s) => Ready(product, r.a) /\ r.value = s.listed \cap Visible[q]
<1>1. product \notin Fixed \cup {"mem0-native"} /\ product # "optmem-native"
  BY DEF Natives
<1>2. /\ Goes(product, s, r) /\ ~r.raised
      /\ r.a.listed = s.listed /\ r.a.store = s.store
      /\ Ready(product, s) => r.value = Best(product, s, q)
  BY <1>1, RetrieveTurns
<1> QED BY <1>1, <1>2 DEF Best, Ready

LEMMA SameHash ==
    ASSUME Calm, NEW s, NEW t, s.listed = t.listed, s.store = t.store
    PROVE  HashOf(s) = HashOf(t)
<1>1. SnapshotOf(product, s).hash = SnapshotOf(product, t).hash
  BY SnapshotIs DEF Calm
<1> QED BY <1>1, Flawless DEF Calm

LEMMA FreshStateClears ==
    ASSUME Calm, NEW s, Tame(product, s), NEW r \in FreshState(s)
    PROVE  Clears(s, r, TRUE, {}, answer)
<1>1. \A b \in Reset(s) : Goes(product, s, b) /\ (~b.raised => b.a.listed = {})
  BY ResetTurns
<1>2. SUFFICES ASSUME NEW b \in Reset(s), ~b.raised, r \in Then(Ingest(b.a,
      Events), LAMBDA c : Then(AwaitReadyOf(product, c), LAMBDA d : Then(Reset(d),
      LAMBDA e : Judge(e, HashOf(e) = HashOf(b.a))))) PROVE Clears(s, r, TRUE, {},
      answer)
  BY <1>1, Raising DEF Then, ThenWith, FreshState
<1>3. \A c \in Ingest(b.a, Events) : Goes(product, s, c) /\ (c.a.faults = s.faults
      => b.a.faults = s.faults)
  <2>0. Goes(product, s, b) /\ Tame(product, b.a) /\ ~b.raised
    BY <1>1, <1>2 DEF Goes
  <2>1. \A c \in Ingest(b.a, Events) : Goes(product, b.a, c)
    BY <2>0, IngestTurns
  <2> QED BY <2>0, <2>1, GoesThen
<1>4. SUFFICES ASSUME NEW c \in Ingest(b.a, Events), ~c.raised, r \in
      Then(AwaitReadyOf(product, c.a), LAMBDA d : Then(Reset(d), LAMBDA e :
      Judge(e, HashOf(e) = HashOf(b.a)))) PROVE Clears(s, r, TRUE, {}, answer)
  BY <1>3, <1>2, Raising DEF Then, ThenWith
<1>5. \A d \in AwaitReadyOf(product, c.a) : Goes(product, s, d) /\ (d.a.faults =
      s.faults => c.a.faults = s.faults)
  <2>0. Goes(product, s, c) /\ Tame(product, c.a) /\ ~c.raised
    BY <1>3, <1>4 DEF Goes
  <2>1. \A d \in AwaitReadyOf(product, c.a) : Goes(product, c.a, d)
    BY <2>0, AwaitTurns
  <2> QED BY <2>0, <2>1, GoesThen
<1>6. SUFFICES ASSUME NEW d \in AwaitReadyOf(product, c.a), ~d.raised, r \in
      Then(Reset(d.a), LAMBDA e : Judge(e, HashOf(e) = HashOf(b.a))) PROVE
      Clears(s, r, TRUE, {}, answer)
  BY <1>5, <1>4, Raising DEF Then, ThenWith
<1>7. \A e \in Reset(d.a) : Goes(product, s, e) /\ (e.a.faults = s.faults =>
      d.a.faults = s.faults) /\ (~e.raised => e.a.listed = {})
  <2>0. Goes(product, s, d) /\ Tame(product, d.a) /\ ~d.raised
    BY <1>5, <1>6 DEF Goes
  <2>1. \A e \in Reset(d.a) : Goes(product, d.a, e) /\ (~e.raised => e.a.listed =
        {})
    BY <2>0, ResetTurns
  <2> QED BY <2>0, <2>1, GoesThen
<1>8. SUFFICES ASSUME NEW e \in Reset(d.a), ~e.raised, r \in Judge(e.a, HashOf(e.a)
      = HashOf(b.a)) PROVE Clears(s, r, TRUE, {}, answer)
  BY <1>7, <1>6, Raising DEF Then, ThenWith
<1>9. ASSUME Fit(product, s), e.a.faults = s.faults PROVE HashOf(e.a) = HashOf(b.a)
  <2>1. Fit(product, b.a) /\ Fit(product, e.a)
    BY <1>1, <1>2, <1>3, <1>4, <1>5, <1>6, <1>7, <1>8, <1>9 DEF Goes
  <2>2. SnapshotOf(product, b.a).hash = SnapshotOf(product, e.a).hash
    BY <1>1, <1>2, <1>7, <1>8, <2>1, EmptyHash DEF Calm
  <2> QED BY <2>2, Flawless DEF Calm
<1> QED BY <1>7, <1>8, <1>9, Ending DEF Judge

LEMMA DedupClears ==
    ASSUME Calm, product \notin Fixed, NEW s, Tame(product, s), NEW r \in Dedup(s)
    PROVE  Clears(s, r, TRUE, Events, answer)
<1>1. \A b \in Ingest(s, Events) : Goes(product, s, b) /\ (~b.raised => b.a.listed
      = s.listed \cup Events)
  BY IngestTurns
<1>2. SUFFICES ASSUME NEW b \in Ingest(s, Events), ~b.raised, r \in
      ThenWith(Ingest(b.a, {Asked, Future}), LAMBDA c, n : Judge(c, n = 0)) PROVE
      Clears(s, r, TRUE, Events, answer)
  BY <1>1, Raising DEF Then, ThenWith, Dedup
<1>3. \A c \in Ingest(b.a, {Asked, Future}) : Goes(product, s, c) /\ (c.a.faults =
      s.faults => b.a.faults = s.faults) /\ (~c.raised => c.a.listed = b.a.listed
      \cup {Asked, Future} /\ ({Asked, Future} \subseteq b.a.listed => c.value =
      0))
  <2>0. Goes(product, s, b) /\ Tame(product, b.a) /\ ~b.raised
    BY <1>1, <1>2 DEF Goes
  <2>1. \A c \in Ingest(b.a, {Asked, Future}) : Goes(product, b.a, c) /\ (~c.raised
        => c.a.listed = b.a.listed \cup {Asked, Future} /\ ({Asked, Future}
        \subseteq b.a.listed => c.value = 0))
    BY <2>0, CorpusAssumption, IngestTurns
  <2> QED BY <2>0, <2>1, GoesThen
<1>4. SUFFICES ASSUME NEW c \in Ingest(b.a, {Asked, Future}), ~c.raised, r \in
      Judge(c.a, c.value = 0) PROVE Clears(s, r, TRUE, Events, answer)
  BY <1>3, <1>2, Raising DEF Then, ThenWith
<1>5. s.listed \subseteq Events /\ {Asked, Future} \subseteq Events
  BY CorpusAssumption DEF Tame, Wide
<1>6. c.value = 0 /\ c.a.listed = Events
  BY <1>1, <1>2, <1>3, <1>4, <1>5
<1> QED BY <1>3, <1>4, <1>6, Ending DEF Judge

LEMMA ReadinessClears ==
    ASSUME Calm, NEW s, Tame(product, s), NEW r \in Readiness(s)
    PROVE  Clears(s, r, TRUE, s.listed, answer)
<1>1. \A b \in AwaitReadyOf(product, s) : Goes(product, s, b) /\ (~b.raised =>
      b.a.listed = s.listed)
  BY AwaitTurns
<1>2. SUFFICES ASSUME NEW b \in AwaitReadyOf(product, s), ~b.raised, r \in
      Says(b.a, "native") PROVE Clears(s, r, TRUE, s.listed, answer)
  BY <1>1, Raising DEF Then, ThenWith, Readiness
<1> QED BY <1>1, <1>2, Saying

LEMMA CurrentClears ==
    ASSUME Calm, product \notin Fixed \cup Natives, NEW s, Tame(product, s), NEW r
           \in CanaryCurrent(s)
    PROVE  Clears(s, r, s.listed = Events, Events, Events \cap Visible[current])
<1>1. \A b \in Retrieve(s, current) : Goes(product, s, b) /\ b.a.listed = s.listed
      /\ (Ready(product, s) => Ready(product, b.a) /\ b.value = s.listed \cap
      Visible[current])
  BY CorpusAssumption, Asking
<1>2. SUFFICES ASSUME NEW b \in Retrieve(s, current), ~b.raised, r \in
      ThenWith(Retrieve(b.a, current), LAMBDA c, ids : Found(c, Asked \in ids,
      ids)) PROVE Clears(s, r, s.listed = Events, Events, Events \cap
      Visible[current])
  BY <1>1, Raising DEF Then, ThenWith, CanaryCurrent
<1>3. \A c \in Retrieve(b.a, current) : Goes(product, s, c) /\ (c.a.faults =
      s.faults => b.a.faults = s.faults) /\ c.a.listed = b.a.listed /\
      (Ready(product, b.a) => Ready(product, c.a) /\ c.value = b.a.listed \cap
      Visible[current])
  <2>0. Goes(product, s, b) /\ Tame(product, b.a) /\ ~b.raised
    BY <1>1, <1>2 DEF Goes
  <2>1. \A c \in Retrieve(b.a, current) : Goes(product, b.a, c) /\ c.a.listed =
        b.a.listed /\ (Ready(product, b.a) => Ready(product, c.a) /\ c.value =
        b.a.listed \cap Visible[current])
    BY <2>0, CorpusAssumption, Asking
  <2> QED BY <2>0, <2>1, GoesThen
<1>4. SUFFICES ASSUME NEW c \in Retrieve(b.a, current), ~c.raised, r \in Found(c.a,
      Asked \in c.value, c.value) PROVE Clears(s, r, s.listed = Events, Events,
      Events \cap Visible[current])
  BY <1>3, <1>2, Raising DEF Then, ThenWith
<1>5. ASSUME s.listed = Events, Fit(product, s)
      PROVE  c.value = Events \cap Visible[current] /\ Asked \in c.value /\ c.a.listed = Events
  <2>1. Ready(product, s)
    BY <1>5, FitReady
  <2> QED BY <1>1, <1>2, <1>3, <1>4, <1>5, <2>1, CorpusAssumption
<1> QED BY <1>3, <1>4, <1>5, Ending

LEMMA ReadOnlyClears ==
    ASSUME Calm, NEW s, Tame(product, s), NEW r \in ReadOnlyRetrieval(s)
    PROVE  Clears(s, r, TRUE, s.listed, answer)
<1>1. \A b \in Retrieve(s, current) : Goes(product, s, b) /\ b.a.listed = s.listed
      /\ b.a.store = s.store
  BY CorpusAssumption, RetrieveTurns
<1>2. SUFFICES ASSUME NEW b \in Retrieve(s, current), ~b.raised, r \in Judge(b.a,
      HashOf(b.a) = HashOf(s)) PROVE Clears(s, r, TRUE, s.listed, answer)
  BY <1>1, Raising DEF Then, ThenWith, ReadOnlyRetrieval
<1>3. HashOf(b.a) = HashOf(s)
  BY <1>1, <1>2, SameHash
<1> QED BY <1>1, <1>2, <1>3, Ending DEF Judge

LEMMA FutureClears ==
    ASSUME Calm, product \notin Fixed \cup Natives, NEW s, Tame(product, s), NEW r
           \in CanaryFuture(s)
    PROVE  Clears(s, r, TRUE, s.listed, answer)
<1>1. \A b \in Retrieve(s, future) : Goes(product, s, b) /\ b.a.listed = s.listed
      /\ (Ready(product, s) => Ready(product, b.a) /\ b.value = s.listed \cap
      Visible[future])
  BY QuestionsAssumption, Asking
<1>2. SUFFICES ASSUME NEW b \in Retrieve(s, future), ~b.raised, r \in Judge(b.a,
      Future \notin b.value) PROVE Clears(s, r, TRUE, s.listed, answer)
  BY <1>1, Raising DEF Then, ThenWith, CanaryFuture
<1>3. ASSUME TRUE, Fit(product, s) PROVE Future \notin b.value
  <2>1. b.value = s.listed \cap Visible[future]
    BY <1>1, <1>2, <1>3, FitReady
  <2> QED BY <1>3, <2>1, CorpusAssumption, QuestionsAssumption
<1> QED BY <1>1, <1>2, <1>3, Ending DEF Judge

LEMMA CrossUserClears ==
    ASSUME Calm, product \notin Fixed \cup Natives, NEW s, Tame(product, s), NEW r
           \in CanaryCrossUser(s)
    PROVE  Clears(s, r, s.listed = Events, s.listed, answer)
<1>1. \A b \in Retrieve(s, other) : Goes(product, s, b) /\ b.a.listed = s.listed /\
      (Ready(product, s) => Ready(product, b.a) /\ b.value = s.listed \cap
      Visible[other])
  BY QuestionsAssumption, Asking
<1>2. SUFFICES ASSUME NEW b \in Retrieve(s, other), ~b.raised, r \in Judge(b.a,
      b.value = {Other}) PROVE Clears(s, r, s.listed = Events, s.listed, answer)
  BY <1>1, Raising DEF Then, ThenWith, CanaryCrossUser
<1>3. ASSUME s.listed = Events, Fit(product, s) PROVE b.value = {Other}
  <2>1. b.value = s.listed \cap Visible[other]
    BY <1>1, <1>2, <1>3, FitReady
  <2> QED BY <1>3, <2>1, CorpusAssumption, QuestionsAssumption
<1> QED BY <1>1, <1>2, <1>3, Ending DEF Judge

LEMMA ReachClears ==
    ASSUME Calm, product \notin Fixed \cup Natives, NEW s, Tame(product, s), NEW r
           \in CanaryReach(s)
    PROVE  Clears(s, r, s.listed = Events, s.listed, answer)
<1>1. \A b \in Retrieve(s, current) : Goes(product, s, b) /\ b.a.listed = s.listed
      /\ (Ready(product, s) => Ready(product, b.a) /\ b.value = s.listed \cap
      Visible[current])
  BY CorpusAssumption, Asking
<1>2. SUFFICES ASSUME NEW b \in Retrieve(s, current), ~b.raised, r \in Judge(b.a,
      Asked \in b.value) PROVE Clears(s, r, s.listed = Events, s.listed, answer)
  BY <1>1, Raising DEF Then, ThenWith, CanaryReach
<1>3. ASSUME s.listed = Events, Fit(product, s) PROVE Asked \in b.value
  <2>1. b.value = s.listed \cap Visible[current]
    BY <1>1, <1>2, <1>3, FitReady
  <2> QED BY <1>3, <2>1, CorpusAssumption, QuestionsAssumption
<1> QED BY <1>1, <1>2, <1>3, Ending DEF Judge

LEMMA UnknownClears ==
    ASSUME Calm, product \notin Fixed \cup Natives, NEW s, Tame(product, s), NEW r
           \in UnknownPrincipal(s)
    PROVE  Clears(s, r, TRUE, s.listed, answer)
<1>1. \A b \in Retrieve(s, unknown) : Goes(product, s, b) /\ b.a.listed = s.listed
      /\ (Ready(product, s) => Ready(product, b.a) /\ b.value = s.listed \cap
      Visible[unknown])
  BY QuestionsAssumption, Asking
<1>2. SUFFICES ASSUME NEW b \in Retrieve(s, unknown), ~b.raised, r \in Judge(b.a,
      b.value = {}) PROVE Clears(s, r, TRUE, s.listed, answer)
  BY <1>1, Raising DEF Then, ThenWith, UnknownPrincipal
<1>3. ASSUME TRUE, Fit(product, s) PROVE b.value = {}
  <2>1. b.value = s.listed \cap Visible[unknown]
    BY <1>1, <1>2, <1>3, FitReady
  <2> QED BY <1>3, <2>1, CorpusAssumption, QuestionsAssumption
<1> QED BY <1>1, <1>2, <1>3, Ending DEF Judge

LEMMA RestoreClears ==
    ASSUME Calm, product \notin Fixed \cup Natives, NEW s, Tame(product, s), NEW r
           \in SnapshotRestore(s)
    PROVE  Clears(s, r, s.listed = Events /\ answer = Events \cap Visible[current],
           s.listed, answer)
<1>1. \A b \in IF flaw = "keeps-state" THEN {Returned(s, {})} ELSE
      RestoreOf(product, s, SnapshotOf(product, s)) : Goes(product, s, b) /\
      (~b.raised => b.a.listed = s.listed)
  BY RestoreTurns
<1>2. SUFFICES ASSUME NEW b \in IF flaw = "keeps-state" THEN {Returned(s, {})} ELSE
      RestoreOf(product, s, SnapshotOf(product, s)), ~b.raised, r \in
      ThenWith(Retrieve(b.a, current), LAMBDA c, ids : Judge(c, ids = answer))
      PROVE Clears(s, r, s.listed = Events /\ answer = Events \cap
      Visible[current], s.listed, answer)
  BY <1>1, Raising DEF Then, ThenWith, SnapshotRestore
<1>3. \A c \in Retrieve(b.a, current) : Goes(product, s, c) /\ (c.a.faults =
      s.faults => b.a.faults = s.faults) /\ c.a.listed = b.a.listed /\
      (Ready(product, b.a) => Ready(product, c.a) /\ c.value = b.a.listed \cap
      Visible[current])
  <2>0. Goes(product, s, b) /\ Tame(product, b.a) /\ ~b.raised
    BY <1>1, <1>2 DEF Goes
  <2>1. \A c \in Retrieve(b.a, current) : Goes(product, b.a, c) /\ c.a.listed =
        b.a.listed /\ (Ready(product, b.a) => Ready(product, c.a) /\ c.value =
        b.a.listed \cap Visible[current])
    BY <2>0, CorpusAssumption, Asking
  <2> QED BY <2>0, <2>1, GoesThen
<1>4. SUFFICES ASSUME NEW c \in Retrieve(b.a, current), ~c.raised, r \in Judge(c.a,
      c.value = answer) PROVE Clears(s, r, s.listed = Events /\ answer = Events
      \cap Visible[current], s.listed, answer)
  BY <1>3, <1>2, Raising DEF Then, ThenWith
<1>5. ASSUME s.listed = Events, answer = Events \cap Visible[current], Fit(product, s),
             c.a.faults = s.faults
      PROVE  c.value = answer /\ c.a.listed = s.listed
  <2>1. Fit(product, b.a) /\ b.a.listed = s.listed
    BY <1>1, <1>2, <1>3, <1>4, <1>5 DEF Goes
  <2>2. Ready(product, b.a)
    BY <2>1, FitReady
  <2> QED BY <1>3, <1>4, <1>5, <2>1, <2>2
<1> QED BY <1>3, <1>4, <1>5, Ending DEF Judge

LEMMA DeletedClears ==
    ASSUME Calm, product \notin Fixed \cup Natives, SupportsDelete, NEW s,
           Tame(product, s), NEW r \in CanaryDeleted(s)
    PROVE  Clears(s, r, TRUE, r.a.listed, answer)
<1>1. \A b \in Delete(s, Doomed) : Goes(product, s, b) /\ (Fit(product, s) /\
      b.a.faults = s.faults /\ product # "mem0-native" => Doomed \notin b.a.listed)
  BY DeleteTurns
<1>2. SUFFICES ASSUME NEW b \in Delete(s, Doomed), ~b.raised, r \in
      ThenWith(Retrieve(b.a, current), LAMBDA c, ids : Judge(c, Doomed \notin ids))
      PROVE Clears(s, r, TRUE, r.a.listed, answer)
  BY <1>1, Raising DEF Then, ThenWith, CanaryDeleted
<1>3. \A c \in Retrieve(b.a, current) : Goes(product, s, c) /\ (c.a.faults =
      s.faults => b.a.faults = s.faults) /\ c.a.listed = b.a.listed /\
      (Ready(product, b.a) => Ready(product, c.a) /\ c.value = b.a.listed \cap
      Visible[current])
  <2>0. Goes(product, s, b) /\ Tame(product, b.a) /\ ~b.raised
    BY <1>1, <1>2 DEF Goes
  <2>1. \A c \in Retrieve(b.a, current) : Goes(product, b.a, c) /\ c.a.listed =
        b.a.listed /\ (Ready(product, b.a) => Ready(product, c.a) /\ c.value =
        b.a.listed \cap Visible[current])
    BY <2>0, CorpusAssumption, Asking
  <2> QED BY <2>0, <2>1, GoesThen
<1>4. SUFFICES ASSUME NEW c \in Retrieve(b.a, current), ~c.raised, r \in Judge(c.a,
      Doomed \notin c.value) PROVE Clears(s, r, TRUE, r.a.listed, answer)
  BY <1>3, <1>2, Raising DEF Then, ThenWith
<1>5. ASSUME Fit(product, s), c.a.faults = s.faults PROVE Doomed \notin c.value
  <2>1. Fit(product, b.a) /\ Doomed \notin b.a.listed
    BY <1>1, <1>2, <1>3, <1>4, <1>5 DEF Goes, Natives
  <2>2. Ready(product, b.a)
    BY <2>1, FitReady
  <2> QED BY <1>3, <1>4, <2>1, <2>2
<1>6. r.a = c.a
  BY <1>4 DEF Judge, Found, Returned
<1> QED BY <1>3, <1>4, <1>5, <1>6, Ending DEF Judge

LEMMA SaidClears ==
    ASSUME NEW s, NEW F, \A x \in F : Goes(product, s, x), NEW word, word # "failed",
           NEW r \in SaidAfter(F, word)
    PROVE  Clears(s, r, TRUE, r.a.listed, answer) /\ (~r.raised => r.value.is = word)
<1>1. SUFFICES ASSUME NEW b \in F, ~b.raised, r \in Says(b.a, word)
               PROVE  Clears(s, r, TRUE, r.a.listed, answer) /\ (~r.raised => r.value.is = word)
  BY Raising DEF SaidAfter, Then, ThenWith
<1>2. r.a = b.a /\ r.value.is = word
  BY <1>1 DEF Says, Returned
<1> QED BY <1>1, <1>2, Saying

(* An exception that is recorded is one all the same.                      *)
LEMMA CaughtClears ==
    ASSUME NEW s, NEW F, \A x \in F : Goes(product, s, x), NEW word, NEW r \in Caught(F, word)
    PROVE  /\ Goes(product, s, r) /\ ~r.raised
           /\ Fit(product, s) /\ r.a.faults = s.faults => r \in F
<1>1. PICK x \in F : r \in IF x.raised THEN Says(x.a, word) ELSE {x}
  BY DEF Caught
<1>2. CASE x.raised
  <2>1. r.a = x.a /\ r.raised = FALSE
    BY <1>1, <1>2 DEF Says, Returned
  <2> QED BY <1>1, <1>2, <2>1 DEF Goes
<1>3. CASE ~x.raised
  BY <1>1, <1>3
<1> QED BY <1>2, <1>3

LEMMA ErrorClears ==
    ASSUME Calm, SupportsDelete, NEW s, Tame(product, s), NEW r \in ErrorNormalization(s)
    PROVE  Clears(s, r, TRUE, r.a.listed, answer)
<1> DEFINE F == SaidAfter(DeleteOf(product, s, Missing), "native")
<1>1. r \in Caught(F, "failed")
  BY DEF ErrorNormalization, SaidAfter
<1>2. \A x \in DeleteOf(product, s, Missing) : Goes(product, s, x)
  BY DeleteTurns
<1>3. \A x \in F : Clears(s, x, TRUE, x.a.listed, answer)
  BY <1>2, SaidClears
<1>4. \A x \in F : Goes(product, s, x)
  BY <1>3 DEF Clears
<1> HIDE DEF F
<1>5. /\ Goes(product, s, r)
      /\ Fit(product, s) /\ r.a.faults = s.faults => r \in F
  BY <1>1, <1>4, CaughtClears
<1> QED BY <1>3, <1>5 DEF Clears

LEMMA OrderingClears ==
    ASSUME Calm, product \notin Fixed, NEW s, Tame(product, s), NEW r \in Ordering(s)
    PROVE  Clears(s, r, TRUE, s.listed, answer)
<1>1. /\ Apart(s) \in Wide /\ Bare(Apart(s)) /\ Apart(s).faults = s.faults
      /\ Fit(product, Apart(s))
  BY ApartBare DEF Tame
<1>2. \A b \in New(Apart(s)) :
         /\ Goes(product, Apart(s), b) /\ (b.raised => Goes(product, s, b))
         /\ ~b.raised => b.a.listed = {} /\ b.a.store = {} /\ Fit(product, b.a)
  BY <1>1, NewTurns DEF Goes
<1>3. SUFFICES ASSUME NEW b \in New(Apart(s)), ~b.raised,
                      r \in Then(New(Apart(b.a)), LAMBDA c : Then(Ingest(b.a, Events), LAMBDA d :
                            Then(Ingest([c EXCEPT !.faults = d.faults], Events), LAMBDA e :
                            Judge([s EXCEPT !.faults = e.faults], HashOf(d) = HashOf(e)))))
               PROVE  Clears(s, r, TRUE, s.listed, answer)
  BY <1>2, Raising DEF Ordering, Then, ThenWith
<1>4. /\ b.a \in Wide /\ Fit(product, b.a) /\ b.a.faults >= s.faults
      /\ b.a.listed = {} /\ b.a.store = {}
      /\ Apart(b.a) \in Wide /\ Bare(Apart(b.a)) /\ Apart(b.a).faults = b.a.faults
      /\ Fit(product, Apart(b.a))
  <2>1. b.a \in Wide /\ Fit(product, b.a) /\ b.a.listed = {} /\ b.a.store = {}
    BY <1>2, <1>3 DEF Fit, Tame
  <2>2. b.a.faults >= s.faults
    BY <1>1, <1>2, <1>3 DEF Goes
  <2> QED BY <2>1, <2>2, ApartBare
<1>s. s \in Wide /\ s.faults \in Nat
  BY DEF Tame, Wide
(* What has raised on the way has done so at a failure.                    *)
<1>5. ASSUME NEW t, Fit(product, t), t.faults >= s.faults, t.faults \in Nat,
             NEW x, Goes(product, t, x), x.raised
      PROVE  Clears(s, x, TRUE, s.listed, answer)
  <2>1. x.a \in Wide /\ x.a.faults \in Nat /\ x.a.faults >= t.faults /\ x.a.faults # t.faults
    BY <1>5 DEF Goes, Tame, Wide
  <2>2. x.a.faults >= s.faults /\ x.a.faults # s.faults
    BY <1>s, <1>5, <2>1
  <2> QED BY <1>5, <2>2, Raising DEF Goes
<1>6. \A c \in New(Apart(b.a)) :
         /\ Goes(product, Apart(b.a), c)
         /\ ~c.raised => c.a.listed = {} /\ c.a.store = {} /\ Fit(product, c.a)
         /\ c.raised => Clears(s, c, TRUE, s.listed, answer)
  <2>1. Apart(b.a).faults >= s.faults /\ Apart(b.a).faults \in Nat
    BY <1>4 DEF Wide
  <2> QED BY <1>4, <1>5, <2>1, NewTurns
<1>7. SUFFICES ASSUME NEW c \in New(Apart(b.a)), ~c.raised,
                      r \in Then(Ingest(b.a, Events), LAMBDA d :
                            Then(Ingest([c.a EXCEPT !.faults = d.faults], Events), LAMBDA e :
                            Judge([s EXCEPT !.faults = e.faults], HashOf(d) = HashOf(e))))
               PROVE  Clears(s, r, TRUE, s.listed, answer)
  BY <1>3, <1>6 DEF Then, ThenWith
<1>8. \A d \in Ingest(b.a, Events) :
         /\ Goes(product, b.a, d) /\ (~d.raised => d.a.listed = Events)
         /\ d.raised => Clears(s, d, TRUE, s.listed, answer)
  <2>1. b.a.faults \in Nat /\ Tame(product, b.a)
    BY <1>4 DEF Wide, Fit
  <2>2. \A d \in Ingest(b.a, Events) :
           Goes(product, b.a, d) /\ (~d.raised => d.a.listed = b.a.listed \cup Events)
    BY <2>1, IngestTurns
  <2> QED BY <1>4, <1>5, <2>1, <2>2
<1>9. SUFFICES ASSUME NEW d \in Ingest(b.a, Events), ~d.raised,
                      r \in Then(Ingest([c.a EXCEPT !.faults = d.a.faults], Events), LAMBDA e :
                            Judge([s EXCEPT !.faults = e.faults], HashOf(d.a) = HashOf(e)))
               PROVE  Clears(s, r, TRUE, s.listed, answer)
  BY <1>7, <1>8 DEF Then, ThenWith
<1> DEFINE v == [c.a EXCEPT !.faults = d.a.faults]
<1>10. /\ Fit(product, v) /\ v.listed = {} /\ v.store = {} /\ v \in Wide
       /\ v.faults \in Nat /\ v.faults >= s.faults
  <2>1. Fit(product, c.a) /\ c.a.listed = {} /\ c.a.store = {}
    BY <1>6, <1>7
  <2>2. d.a.faults \in Nat /\ d.a.faults >= s.faults
    <3>1. d.a \in Wide /\ d.a.faults >= b.a.faults
      BY <1>8, <1>9 DEF Goes, Tame
    <3> QED BY <1>s, <1>4, <3>1 DEF Wide
  <2>3. /\ v \in Wide /\ v.faults = d.a.faults /\ v.listed = c.a.listed /\ v.store = c.a.store
        /\ v.keys = c.a.keys /\ v.pages = c.a.pages /\ v.head = c.a.head /\ v.home = c.a.home
        /\ v.open = c.a.open
    BY <2>1, <2>2 DEF Fit, Tame, Wide
  <2> HIDE DEF v
  <2>4. Shaped(product, v) /\ Unopened(product, v)
    BY <2>1, <2>3 DEF Fit, Tame, Shaped, Unopened
  <2>5. Agree(product, v) /\ Intact(product, v)
    BY <2>1, <2>3 DEF Fit, Agree, Intact
  <2> QED BY <2>1, <2>2, <2>3, <2>4, <2>5 DEF Fit, Tame
<1>11. r \in Then(Ingest(v, Events), LAMBDA e :
                  Judge([s EXCEPT !.faults = e.faults], HashOf(d.a) = HashOf(e)))
  BY <1>9
<1> HIDE DEF v
<1>12. \A e \in Ingest(v, Events) :
          /\ Goes(product, v, e) /\ (~e.raised => e.a.listed = Events)
          /\ e.raised => Clears(s, e, TRUE, s.listed, answer)
  <2>1. Tame(product, v)
    BY <1>10 DEF Fit
  <2>2. \A e \in Ingest(v, Events) :
           Goes(product, v, e) /\ (~e.raised => e.a.listed = v.listed \cup Events)
    BY <2>1, IngestTurns
  <2> QED BY <1>5, <1>10, <2>2
<1>13. SUFFICES ASSUME NEW e \in Ingest(v, Events), ~e.raised,
                       r \in Judge([s EXCEPT !.faults = e.a.faults], HashOf(d.a) = HashOf(e.a))
                PROVE  Clears(s, r, TRUE, s.listed, answer)
  BY <1>11, <1>12 DEF Then, ThenWith
<1>14. HashOf(d.a) = HashOf(e.a)
  <2>1. d.a.listed = Events /\ e.a.listed = Events
    BY <1>8, <1>9, <1>12, <1>13
  <2>2. ASSUME product \in OptMems PROVE d.a.store = e.a.store
    <3>1. d \in IngestOf(product, b.a, Events) /\ e \in IngestOf(product, v, Events)
      BY Flawless DEF Calm
    <3>2. Events \in SUBSET Events /\ Events \cap TooLong = {}
      BY QuestionsAssumption
    <3> QED BY <1>4, <1>9, <1>10, <1>13, <2>2, <3>1, <3>2, SameLines
  <2>3. SnapshotOf(product, d.a).hash = SnapshotOf(product, e.a).hash
    BY <2>1, <2>2, SnapshotIs, ZenonT(60) DEF Calm
  <2> QED BY <2>3, Flawless DEF Calm
<1>15. /\ r.a = [s EXCEPT !.faults = e.a.faults] /\ r.raised = FALSE
       /\ r.value.is = "native" /\ r.value.ids = answer
  BY <1>13, <1>14 DEF Judge, Found, Returned
<1>16. e.a \in Wide /\ e.a.faults >= s.faults
  <2>1. e.a \in Wide /\ e.a.faults >= v.faults
    BY <1>12, <1>13 DEF Goes, Tame
  <2> QED BY <1>s, <1>10, <2>1 DEF Wide
<1>17. /\ Tame(product, r.a) /\ r.a.faults = e.a.faults /\ r.a.listed = s.listed
       /\ e.a.faults = s.faults => r.a = s
  BY <1>15, <1>16, Aside
<1> QED BY <1>15, <1>16, <1>17 DEF Clears, Goes

(* The last two checks that ask the adapter leave it ready to answer, and  *)
(* no more is needed after them.                                           *)
Settles(s, r, P) ==
    /\ Tame(product, r.a) /\ r.a.faults >= s.faults /\ (r.raised = TRUE \/ r.raised = FALSE)
    /\ P /\ r.a.faults = s.faults =>
         ~r.raised /\ r.value.is # "failed" /\ Ready(product, r.a)

LEMMA CaughtSettles ==
    ASSUME NEW s, NEW P, NEW F, \A x \in F : Settles(s, x, P), NEW r \in Caught(F, "failed")
    PROVE  Settles(s, r, P)
<1>1. PICK x \in F : r \in IF x.raised THEN Says(x.a, "failed") ELSE {x}
  BY DEF Caught
<1>2. CASE x.raised
  <2>1. r.a = x.a /\ r.raised = FALSE
    BY <1>1, <1>2 DEF Says, Returned
  <2> QED BY <1>1, <1>2, <2>1 DEF Settles
<1>3. CASE ~x.raised
  BY <1>1, <1>3
<1> QED BY <1>2, <1>3

LEMMA EndSettles ==
    ASSUME NEW s, s \in Wide, NEW P, NEW b, b.a \in Wide, b.a.faults >= s.faults,
           NEW d, Goes(product, b.a, d), NEW ok,
           P /\ d.a.faults = s.faults => ok /\ Ready(product, d.a),
           NEW r \in Judge(d.a, ok)
    PROVE  Settles(s, r, P)
<1>1. r.a = d.a /\ r.raised = FALSE /\ (ok => r.value.is = "native")
  BY DEF Judge, Found, Returned
<1>2. Tame(product, d.a) /\ d.a.faults >= b.a.faults
  BY DEF Goes
<1>3. d.a.faults >= s.faults
  BY <1>2 DEF Tame, Wide
<1> QED BY <1>1, <1>2, <1>3 DEF Settles

LEMMA RebuildSettles ==
    ASSUME Calm, product \notin Fixed \cup Natives, product \in Exporting,
           NEW s, Tame(product, s), NEW r \in ExportImport(s)
    PROVE  Settles(s, r, Fit(product, s))
<1> DEFINE F == SameAnswer(s, LAMBDA b :
                    Then(Reset(b), LAMBDA c : ImportOf(product, c, ExportOf(product, b))))
<1>1. r \in Caught(F, "failed")
  BY DEF ExportImport
<1>2. SUFFICES ASSUME NEW x \in F PROVE Settles(s, x, Fit(product, s))
  <2> HIDE DEF F
  <2> QED BY <1>1, <1>2, CaughtSettles
<1>3. \A b \in Retrieve(s, current) :
         /\ Goes(product, s, b) /\ ~b.raised /\ b.a.listed = s.listed
         /\ Ready(product, s) => b.value = s.listed \cap Visible[current]
  BY CorpusAssumption, Asking
<1> DEFINE M(t) == Then(Reset(t), LAMBDA c : ImportOf(product, c, ExportOf(product, t)))
<1>4. SUFFICES ASSUME NEW b \in Retrieve(s, current),
                      x \in Then(M(b.a), LAMBDA c : ThenWith(Retrieve(c, current),
                            LAMBDA d, post : Judge(d, post = b.value)))
               PROVE  Settles(s, x, Fit(product, s))
  BY <1>3 DEF SameAnswer, ThenWith
<1>5. /\ Goes(product, s, b) /\ ~b.raised /\ Tame(product, b.a) /\ b.a.listed = s.listed
      /\ Ready(product, s) => b.value = s.listed \cap Visible[current]
  BY <1>3, <1>4 DEF Goes
<1>s. s \in Wide /\ s.faults \in Nat
  BY DEF Tame, Wide
<1>6. ASSUME NEW c \in M(b.a)
      PROVE  /\ Tame(product, c.a) /\ c.a.faults >= s.faults
             /\ (c.raised = TRUE \/ c.raised = FALSE)
             /\ Fit(product, s) /\ c.a.faults = s.faults =>
                  ~c.raised /\ Ready(product, c.a) /\ c.a.listed = s.listed
  <2>1. \A f \in Reset(b.a) : Goes(product, b.a, f)
    BY <1>5, ResetTurns
  <2>2. \A f \in Reset(b.a) : Goes(product, s, f)
    BY <1>5, <2>1, GoesThen
  <2>3. \/ c \in Reset(b.a) /\ c.raised
        \/ \E f \in Reset(b.a) : ~f.raised /\ c \in ImportOf(product, f.a, ExportOf(product, b.a))
    BY <1>6 DEF Then, ThenWith
  <2>4. CASE c \in Reset(b.a) /\ c.raised
    BY <2>2, <2>4 DEF Goes
  <2>5. CASE \E f \in Reset(b.a) :
               ~f.raised /\ c \in ImportOf(product, f.a, ExportOf(product, b.a))
    <3>1. PICK f \in Reset(b.a) :
             ~f.raised /\ c \in ImportOf(product, f.a, ExportOf(product, b.a))
      BY <2>5
    <3>2. Goes(product, s, f) /\ Tame(product, f.a) /\ f.a.faults >= s.faults
      BY <2>2, <3>1 DEF Goes
    <3>3. b.a \in Wide /\ b.a.listed \in SUBSET Events /\ b.a.listed \cap TooLong = {}
      BY <1>5, QuestionsAssumption DEF Tame, Wide
    <3>4. /\ ExportOf(product, b.a).events = b.a.listed
          /\ ExportOf(product, b.a).keys \in SUBSET Memories
      BY <3>3, SavedOf DEF Calm
    <3> DEFINE data == ExportOf(product, b.a)
    <3>d. data.events \in SUBSET Events /\ data.events \cap TooLong = {}
          /\ data.keys \in SUBSET Memories /\ c \in ImportOf(product, f.a, data)
      BY <3>1, <3>3, <3>4
    <3> HIDE DEF data
    <3>5. /\ Tame(product, c.a) /\ c.a.faults >= f.a.faults
          /\ (c.raised = TRUE \/ c.raised = FALSE)
          /\ Fit(product, f.a) /\ c.a.faults = f.a.faults =>
               ~c.raised /\ Ready(product, c.a) /\ c.a.listed = data.events
      BY <3>2, <3>d, ImportGoes, ZenonT(180)
    <3>6. c.a.faults \in Nat /\ f.a.faults \in Nat
      BY <3>2, <3>5 DEF Tame, Wide
    <3>7. c.a.faults >= s.faults /\ (c.a.faults = s.faults =>
                                       f.a.faults = s.faults /\ c.a.faults = f.a.faults)
      BY <1>s, <3>2, <3>5, <3>6
    <3>8. Fit(product, s) /\ f.a.faults = s.faults => Fit(product, f.a)
      BY <3>2 DEF Goes
    <3>9. data.events = s.listed
      BY <1>5, <3>4 DEF data
    <3> QED BY <3>5, <3>7, <3>8, <3>9
  <2> QED BY <2>3, <2>4, <2>5
<1>7. SUFFICES ASSUME NEW c \in M(b.a), ~c.raised,
                      x \in ThenWith(Retrieve(c.a, current),
                            LAMBDA d, post : Judge(d, post = b.value))
               PROVE  Settles(s, x, Fit(product, s))
  <2>1. \/ x \in M(b.a) /\ x.raised
        \/ \E c \in M(b.a) : /\ ~c.raised
                             /\ x \in ThenWith(Retrieve(c.a, current),
                                       LAMBDA d, post : Judge(d, post = b.value))
    <3> HIDE DEF M
    <3> QED BY <1>4 DEF Then, ThenWith
  <2>2. CASE x \in M(b.a) /\ x.raised
    BY <1>6, <2>2 DEF Settles
  <2> QED BY <1>7, <2>1, <2>2
<1>8. Tame(product, c.a) /\ c.a \in Wide /\ c.a.faults >= s.faults
  BY <1>6, <1>7 DEF Tame
<1>9. \A d \in Retrieve(c.a, current) :
         /\ Goes(product, c.a, d) /\ ~d.raised
         /\ Ready(product, c.a) =>
              Ready(product, d.a) /\ d.value = c.a.listed \cap Visible[current]
  BY <1>8, CorpusAssumption, Asking
<1>10. SUFFICES ASSUME NEW d \in Retrieve(c.a, current), x \in Judge(d.a, d.value = b.value)
                PROVE  Settles(s, x, Fit(product, s))
  BY <1>7, <1>9 DEF ThenWith
<1>11. ASSUME Fit(product, s), d.a.faults = s.faults
       PROVE  d.value = b.value /\ Ready(product, d.a)
  <2>1. c.a.faults = s.faults
    <3>1. d.a.faults >= c.a.faults /\ c.a.faults \in Nat
      BY <1>8, <1>9, <1>10 DEF Goes, Wide
    <3> QED BY <1>s, <1>8, <1>11, <3>1
  <2>2. Ready(product, c.a) /\ c.a.listed = s.listed
    BY <1>6, <1>7, <1>11, <2>1
  <2>3. Ready(product, s)
    BY <1>11, FitReady
  <2> QED BY <1>5, <1>9, <1>10, <2>2, <2>3
<1> QED BY <1>s, <1>8, <1>9, <1>10, <1>11, EndSettles

LEMMA RestartSettles ==
    ASSUME Calm, product \notin Fixed \cup Natives, product \in Exporting,
           NEW s, Tame(product, s), NEW r \in RestartKeeps(s)
    PROVE  Settles(s, r, Ready(product, s))
<1> DEFINE F == SameAnswer(s, Restart)
<1>1. r \in Caught(F, "failed")
  BY DEF RestartKeeps
<1>2. SUFFICES ASSUME NEW x \in F PROVE Settles(s, x, Ready(product, s))
  <2> HIDE DEF F
  <2> QED BY <1>1, <1>2, CaughtSettles
<1>3. \A b \in Retrieve(s, current) :
         /\ Goes(product, s, b) /\ ~b.raised /\ b.a.listed = s.listed
         /\ Ready(product, s) =>
              Ready(product, b.a) /\ b.value = s.listed \cap Visible[current]
  BY CorpusAssumption, Asking
<1>4. SUFFICES ASSUME NEW b \in Retrieve(s, current),
                      x \in Then(Restart(b.a), LAMBDA c : ThenWith(Retrieve(c, current),
                            LAMBDA d, post : Judge(d, post = b.value)))
               PROVE  Settles(s, x, Ready(product, s))
  BY <1>3 DEF SameAnswer, ThenWith
<1>5. /\ Tame(product, b.a) /\ b.a.listed = s.listed /\ b.a.faults >= s.faults
      /\ Ready(product, s) =>
           Ready(product, b.a) /\ b.value = s.listed \cap Visible[current]
  BY <1>3, <1>4 DEF Goes
<1>s. s \in Wide /\ s.faults \in Nat /\ b.a.faults \in Nat
  BY <1>5 DEF Tame, Wide
<1>6. \A c \in Restart(b.a) :
         /\ Tame(product, c.a) /\ c.a.faults >= s.faults
         /\ (c.raised = TRUE \/ c.raised = FALSE)
         /\ c.raised => c.a.faults # s.faults
         /\ ~c.raised => c.a.listed = b.a.listed /\ (Ready(product, b.a) => Ready(product, c.a))
  <2>1. \A c \in Restart(b.a) : c \in RestartOf(product, b.a)
    BY Flawless DEF Calm
  <2>2. \A c \in Restart(b.a) :
           /\ Goes(product, b.a, c) /\ (c.raised => c.a.faults # b.a.faults)
           /\ ~c.raised => c.a.listed = b.a.listed /\ c.a.store = b.a.store
    BY <1>5, <2>1, QuietGoes DEF Calm
  <2>3. \A c \in Restart(b.a) :
           /\ Tame(product, c.a) /\ c.a.faults >= b.a.faults /\ c.a.faults \in Nat
           /\ (c.raised = TRUE \/ c.raised = FALSE)
    BY <2>2 DEF Goes, Tame, Wide
  <2>4. \A c \in Restart(b.a) : c.a.faults >= s.faults /\ (c.raised => c.a.faults # s.faults)
    BY <1>s, <1>5, <2>2, <2>3
  <2> QED BY <2>2, <2>3, <2>4 DEF Ready
<1>7. SUFFICES ASSUME NEW c \in Restart(b.a), ~c.raised,
                      x \in ThenWith(Retrieve(c.a, current),
                            LAMBDA d, post : Judge(d, post = b.value))
               PROVE  Settles(s, x, Ready(product, s))
  <2>1. \/ x \in Restart(b.a) /\ x.raised
        \/ \E c \in Restart(b.a) : /\ ~c.raised
                                   /\ x \in ThenWith(Retrieve(c.a, current),
                                             LAMBDA d, post : Judge(d, post = b.value))
    BY <1>4 DEF Then, ThenWith
  <2>2. CASE x \in Restart(b.a) /\ x.raised
    BY <1>6, <2>2 DEF Settles
  <2> QED BY <1>7, <2>1, <2>2
<1>8. /\ Tame(product, c.a) /\ c.a \in Wide /\ c.a.faults >= s.faults
      /\ c.a.listed = b.a.listed /\ (Ready(product, b.a) => Ready(product, c.a))
  BY <1>6, <1>7 DEF Tame
<1>9. \A d \in Retrieve(c.a, current) :
         /\ Goes(product, c.a, d) /\ ~d.raised
         /\ Ready(product, c.a) =>
              Ready(product, d.a) /\ d.value = c.a.listed \cap Visible[current]
  BY <1>8, CorpusAssumption, Asking
<1>10. SUFFICES ASSUME NEW d \in Retrieve(c.a, current), x \in Judge(d.a, d.value = b.value)
                PROVE  Settles(s, x, Ready(product, s))
  BY <1>7, <1>9 DEF ThenWith
<1>11. Ready(product, s) => d.value = b.value /\ Ready(product, d.a)
  BY <1>5, <1>8, <1>9, <1>10
<1> QED BY <1>s, <1>8, <1>9, <1>10, <1>11, EndSettles

LEMMA ClosingEnds ==
    ASSUME Calm, NEW s, Tame(product, s), NEW r \in Closing(s)
    PROVE  /\ Tame(product, r.a) /\ r.a.faults = s.faults /\ r.raised = FALSE
           /\ r.value.is = "native"
<1>1. \A b \in CleanupOf(product, s) :
         Tame(product, b.a) /\ b.a.faults = s.faults /\ b.raised = FALSE
  BY CleanupGoes DEF Calm
<1>2. PICK b \in CleanupOf(product, s) : r \in Says(b.a, "native")
  BY <1>1 DEF Closing, Then, ThenWith
<1> QED BY <1>1, <1>2 DEF Says, Returned

-----------------------------------------------------------------------------
(* A sound adapter under a gate, n checks done and none of them failed:    *)
(* the part of the gate up to which the adapter must be fit, and what its  *)
(* list and the remembered answer are by then.                             *)
InUse == CASE gate = "contract" -> 18 [] gate = "preflight" -> 11
           [] gate = "validation" -> 7 [] gate = "supplement" -> 13

Stage(n, s, ids) ==
    /\ n <= InUse => Fit(product, s)
    /\ gate = "contract" =>
         /\ n <= 3 => Bare(s)
         /\ n <= 5 => s.listed = {}
         /\ n \in 6 .. 15 => s.listed = Events
         /\ n \in 9 .. 10 => ids = Events \cap Visible[current]
         /\ n \in 19 .. 20 => Ready(product, s)
    /\ gate = "validation" /\ n <= 2 => Bare(s)
    /\ gate = "supplement" =>
         /\ n <= 7 => s.listed = {}
         /\ n \in 8 .. 13 => s.listed = Events

(* From one stage to the next, unless something fails.                     *)
Advances(n, s, r) ==
    /\ Tame(product, r.a) /\ r.a.faults >= s.faults /\ (r.raised = TRUE \/ r.raised = FALSE)
    /\ Stage(n, s, answer) /\ r.a.faults = s.faults =>
         ~r.raised /\ r.value.is # "failed" /\ Stage(n + 1, r.a, r.value.ids)

Onto(n, s, r) ==
    /\ Goes(product, s, r)
    /\ Stage(n, s, answer) /\ r.a.faults = s.faults =>
         /\ r.value.is # "failed"
         /\ n <= 4 => r.a.listed = {}
         /\ n \in 5 .. 14 => r.a.listed = Events
         /\ n \in 8 .. 9 => r.value.ids = Events \cap Visible[current]

LEMMA OntoAdvances ==
    ASSUME gate = "contract", NEW n \in 3 .. 17, NEW s, NEW r, Onto(n, s, r)
    PROVE  Advances(n, s, r)
<1>1. Goes(product, s, r)
  BY DEF Onto
<1>2. ASSUME Stage(n, s, answer), r.a.faults = s.faults
      PROVE  ~r.raised /\ r.value.is # "failed" /\ Stage(n + 1, r.a, r.value.ids)
  <2>1. Fit(product, s)
    BY <1>2 DEF Stage, InUse
  <2>2. ~r.raised /\ Fit(product, r.a)
    BY <1>1, <1>2, <2>1 DEF Goes
  <2>3. n \in Int /\ 3 <= n /\ n <= 17
    OBVIOUS
  <2> QED BY <1>2, <2>2, <2>3 DEF Onto, Stage, InUse
<1> QED BY <1>1, <1>2 DEF Goes, Advances

LEMMA ContractPlan ==
    ASSUME gate = "contract"
    PROVE  /\ Plan[1] = "metadata" /\ Plan[2] = "unregistered" /\ Plan[3] = "probe"
           /\ Plan[4] = "factory" /\ Plan[5] = "fresh_state" /\ Plan[6] = "dedup"
           /\ Plan[7] = "ordering" /\ Plan[8] = "readiness" /\ Plan[9] = "canary_current"
           /\ Plan[10] = "read_only_retrieval" /\ Plan[11] = "snapshot_restore"
           /\ Plan[12] = "canary_future" /\ Plan[13] = "canary_cross_user"
           /\ Plan[14] = "canary_authority" /\ Plan[15] = "canary_multi_hop"
           /\ Plan[16] = "canary_deleted" /\ Plan[17] = "error_normalization"
           /\ Plan[18] = "unknown_principal" /\ Plan[19] = "export_import"
           /\ Plan[20] = "restart" /\ Plan[21] = "cleanup"
  BY DEF Plan

LEMMA NewTame ==
    ASSUME Calm, NEW s, Tame(product, s), NEW r \in New(s)
    PROVE  Tame(product, r.a) /\ r.a.faults >= s.faults /\ (r.raised = TRUE \/ r.raised = FALSE)
<1>1. product \in AllProducts /\ s \in Wide /\ Shaped(product, s) /\ r \in NewOf(product, s)
  BY DEF Calm, Tame, New
<1>2. Built(product, s, r)
  BY <1>1, BuiltOf
<1> QED BY <1>1, <1>2 DEF Built, Sound, Tame

LEMMA ContractAdvances ==
    ASSUME Calm, gate = "contract", ~Suspect, product \notin Fixed \cup Natives,
           NEW n \in 0 .. 20, NEW check, check = Plan[n + 1],
           check = "unregistered" => product \notin registry,
           NEW s, Tame(product, s), NEW r \in ContractCheck(check, s)
    PROVE  Advances(n, s, r)
<1>s. s.faults >= s.faults /\ product \notin Fixed
  BY DEF Tame, Wide
<1>0. CASE n \in 0 .. 2
  <2>1. check \in {"metadata", "unregistered", "probe"}
    BY <1>0, ContractPlan
  <2>2. setup.meta /\ (setup.containerized => setup.probe)
    BY DEF Suspect
  <2>3. r \in Says(s, "native") \cup Judge(s, TRUE)
    <3>1. check = "metadata" => r \in Says(s, "native")
      BY <2>2 DEF ContractCheck
    <3>2. check = "unregistered" => r \in Says(s, "native")
      BY DEF ContractCheck
    <3>3. check = "probe" => r \in Judge(s, TRUE)
      BY <2>2 DEF ContractCheck, Judge, Found
    <3> QED BY <2>1, <3>1, <3>2, <3>3
  <2>5. r.a = s /\ r.raised = FALSE /\ r.value.is = "native"
    BY <2>3 DEF Says, Judge, Found, Returned
  <2>4. n \in Int /\ 0 <= n /\ n <= 2
    BY <1>0
  <2> QED BY <1>s, <2>4, <2>5 DEF Advances, Stage, InUse
<1>3. CASE n = 3
  <2>1. r \in SaidAfter(New(s), "native")
    BY <1>3, ContractPlan DEF ContractCheck, SaidAfter
  <2>2. PICK b \in New(s) : r.a = b.a /\ r.raised = b.raised /\
                            (~b.raised => r.value.is = "native")
    <3>1. \/ r \in New(s) /\ r.raised
          \/ \E b \in New(s) : ~b.raised /\ r \in Says(b.a, "native")
      BY <2>1 DEF SaidAfter, Then, ThenWith
    <3>2. \A b : r \in Says(b.a, "native") =>
                   r.a = b.a /\ r.raised = FALSE /\ r.value.is = "native"
      BY DEF Says, Returned
    <3>3. \A b \in New(s) : b.raised = TRUE \/ b.raised = FALSE
      BY NewTame
    <3> QED BY <3>1, <3>2, <3>3
  <2>3. Tame(product, b.a) /\ b.a.faults >= s.faults /\ (b.raised = TRUE \/ b.raised = FALSE)
    BY NewTame
  <2>4. ASSUME Stage(n, s, answer), r.a.faults = s.faults
        PROVE  ~r.raised /\ r.value.is # "failed" /\ Stage(n + 1, r.a, r.value.ids)
    <3>1. Fit(product, s) /\ Bare(s) /\ s \in Wide
      BY <1>3, <2>4 DEF Stage, InUse, Tame
    <3>2. ~b.raised /\ b.a.listed = {} /\ Fit(product, b.a)
      BY <2>2, <2>4, <3>1, NewTurns DEF Goes
    <3> QED BY <1>3, <2>2, <3>2 DEF Stage, InUse
  <2> QED BY <2>2, <2>3, <2>4 DEF Advances
<1>4. CASE n = 4
  <2>1. r \in FreshState(s)
    BY <1>4, ContractPlan DEF ContractCheck
  <2>2. Clears(s, r, TRUE, {}, answer)
    BY <1>s, <2>1, FreshStateClears
  <2>3. Onto(n, s, r)
    BY <1>4, <2>2 DEF Clears, Onto, Stage, InUse
  <2> QED BY <1>4, <2>3, OntoAdvances
<1>5. CASE n = 5
  <2>1. r \in Dedup(s)
    BY <1>5, ContractPlan DEF ContractCheck
  <2>2. Clears(s, r, TRUE, Events, answer)
    BY <1>s, <2>1, DedupClears
  <2>3. Onto(n, s, r)
    BY <1>5, <2>2 DEF Clears, Onto, Stage, InUse
  <2> QED BY <1>5, <2>3, OntoAdvances
<1>6. CASE n = 6
  <2>1. r \in Ordering(s)
    BY <1>6, ContractPlan DEF ContractCheck
  <2>2. Clears(s, r, TRUE, s.listed, answer)
    BY <1>s, <2>1, OrderingClears
  <2>3. Onto(n, s, r)
    BY <1>6, <2>2 DEF Clears, Onto, Stage, InUse
  <2> QED BY <1>6, <2>3, OntoAdvances
<1>7. CASE n = 7
  <2>1. r \in Readiness(s)
    BY <1>7, ContractPlan DEF ContractCheck
  <2>2. Clears(s, r, TRUE, s.listed, answer)
    BY <1>s, <2>1, ReadinessClears
  <2>3. Onto(n, s, r)
    BY <1>7, <2>2 DEF Clears, Onto, Stage, InUse
  <2> QED BY <1>7, <2>3, OntoAdvances
<1>8. CASE n = 8
  <2>1. r \in CanaryCurrent(s)
    BY <1>8, ContractPlan DEF ContractCheck
  <2>2. Clears(s, r, s.listed = Events, Events, Events \cap Visible[current])
    BY <1>s, <2>1, CurrentClears
  <2>3. Onto(n, s, r)
    BY <1>8, <2>2 DEF Clears, Onto, Stage, InUse
  <2> QED BY <1>8, <2>3, OntoAdvances
<1>9. CASE n = 9
  <2>1. r \in ReadOnlyRetrieval(s)
    BY <1>9, ContractPlan DEF ContractCheck
  <2>2. Clears(s, r, TRUE, s.listed, answer)
    BY <1>s, <2>1, ReadOnlyClears
  <2>3. Onto(n, s, r)
    BY <1>9, <2>2 DEF Clears, Onto, Stage, InUse
  <2> QED BY <1>9, <2>3, OntoAdvances
<1>10. CASE n = 10
  <2>1. r \in SnapshotRestore(s)
    BY <1>10, ContractPlan DEF ContractCheck
  <2>2. Clears(s, r, s.listed = Events /\ answer = Events \cap Visible[current],
              s.listed, answer)
    BY <1>s, <2>1, RestoreClears
  <2>3. Onto(n, s, r)
    BY <1>10, <2>2 DEF Clears, Onto, Stage, InUse
  <2> QED BY <1>10, <2>3, OntoAdvances
<1>11. CASE n = 11
  <2>1. r \in CanaryFuture(s)
    BY <1>11, ContractPlan DEF ContractCheck
  <2>2. Clears(s, r, TRUE, s.listed, answer)
    BY <1>s, <2>1, FutureClears
  <2>3. Onto(n, s, r)
    BY <1>11, <2>2 DEF Clears, Onto, Stage, InUse
  <2> QED BY <1>11, <2>3, OntoAdvances
<1>12. CASE n = 12
  <2>1. r \in CanaryCrossUser(s)
    BY <1>12, ContractPlan DEF ContractCheck
  <2>2. Clears(s, r, s.listed = Events, s.listed, answer)
    BY <1>s, <2>1, CrossUserClears
  <2>3. Onto(n, s, r)
    BY <1>12, <2>2 DEF Clears, Onto, Stage, InUse
  <2> QED BY <1>12, <2>3, OntoAdvances
<1>13. CASE n = 13
  <2>1. r \in CanaryReach(s)
    BY <1>13, ContractPlan DEF ContractCheck
  <2>2. Clears(s, r, s.listed = Events, s.listed, answer)
    BY <1>s, <2>1, ReachClears
  <2>3. Onto(n, s, r)
    BY <1>13, <2>2 DEF Clears, Onto, Stage, InUse
  <2> QED BY <1>13, <2>3, OntoAdvances
<1>14. CASE n = 14
  <2>1. r \in CanaryReach(s)
    BY <1>14, ContractPlan DEF ContractCheck
  <2>2. Clears(s, r, s.listed = Events, s.listed, answer)
    BY <1>s, <2>1, ReachClears
  <2>3. Onto(n, s, r)
    BY <1>14, <2>2 DEF Clears, Onto, Stage, InUse
  <2> QED BY <1>14, <2>3, OntoAdvances
<1>15. CASE n = 15
  <2>1. r \in CanaryDeleted(s)
    BY <1>15, ContractPlan DEF ContractCheck
  <2>2. CASE SupportsDelete
    <3>1. Clears(s, r, TRUE, r.a.listed, answer)
      BY <2>1, <2>2, DeletedClears
    <3>2. Onto(n, s, r)
      BY <1>15, <3>1 DEF Clears, Onto, Stage, InUse
    <3> QED BY <1>15, <3>2, OntoAdvances
  <2>3. CASE ~SupportsDelete
    <3>1. r \in Says(s, "not_applicable")
      BY <2>1, <2>3 DEF CanaryDeleted
    <3>2. Clears(s, r, TRUE, s.listed, answer)
      BY <3>1, SayingAtOnce
    <3>3. Onto(n, s, r)
      BY <1>15, <3>2 DEF Clears, Onto, Stage, InUse
    <3> QED BY <1>15, <3>3, OntoAdvances
  <2> QED BY <2>2, <2>3
<1>16. CASE n = 16
  <2>1. r \in ErrorNormalization(s)
    BY <1>16, ContractPlan DEF ContractCheck
  <2>2. CASE SupportsDelete
    <3>1. Clears(s, r, TRUE, r.a.listed, answer)
      BY <2>1, <2>2, ErrorClears
    <3>2. Onto(n, s, r)
      BY <1>16, <3>1 DEF Clears, Onto, Stage, InUse
    <3> QED BY <1>16, <3>2, OntoAdvances
  <2>3. CASE ~SupportsDelete
    <3>1. r \in Says(s, "not_applicable")
      BY <2>1, <2>3 DEF ErrorNormalization
    <3>2. Clears(s, r, TRUE, s.listed, answer)
      BY <3>1, SayingAtOnce
    <3>3. Onto(n, s, r)
      BY <1>16, <3>2 DEF Clears, Onto, Stage, InUse
    <3> QED BY <1>16, <3>3, OntoAdvances
  <2> QED BY <2>2, <2>3
<1>17. CASE n = 17
  <2>1. r \in UnknownPrincipal(s)
    BY <1>17, ContractPlan DEF ContractCheck
  <2>2. Clears(s, r, TRUE, s.listed, answer)
    BY <1>s, <2>1, UnknownClears
  <2>3. Onto(n, s, r)
    BY <1>17, <2>2 DEF Clears, Onto, Stage, InUse
  <2> QED BY <1>17, <2>3, OntoAdvances
<1>18. CASE n = 18
  <2>1. r \in ExportImport(s)
    BY <1>18, ContractPlan DEF ContractCheck
  <2>2. Stage(n, s, answer) => Fit(product, s) /\ Ready(product, s)
    BY <1>18, FitReady DEF Stage, InUse
  <2>3. Stage(19, r.a, r.value.ids) <=> Ready(product, r.a)
    BY DEF Stage, InUse
  <2>4. CASE product \in Exporting
    <3>1. Settles(s, r, Fit(product, s))
      BY <2>1, <2>4, RebuildSettles
    <3> QED BY <1>18, <2>2, <2>3, <3>1 DEF Settles, Advances
  <2>5. CASE product \notin Exporting
    <3>1. r.a = s /\ r.raised = FALSE /\ r.value.is = "unsupported"
      BY <2>1, <2>5 DEF ExportImport, Says, Returned
    <3> QED BY <1>s, <1>18, <2>2, <2>3, <3>1 DEF Advances
  <2> QED BY <2>4, <2>5
<1>19. CASE n = 19
  <2>1. r \in RestartKeeps(s)
    BY <1>19, ContractPlan DEF ContractCheck
  <2>2. Stage(n, s, answer) => Ready(product, s)
    BY <1>19 DEF Stage, InUse
  <2>3. Stage(20, r.a, r.value.ids) <=> Ready(product, r.a)
    BY DEF Stage, InUse
  <2>4. CASE product \in Exporting
    <3>1. Settles(s, r, Ready(product, s))
      BY <2>1, <2>4, RestartSettles
    <3> QED BY <1>19, <2>2, <2>3, <3>1 DEF Settles, Advances
  <2>5. CASE product \notin Exporting
    <3>1. r.a = s /\ r.raised = FALSE /\ r.value.is = "unsupported"
      BY <2>1, <2>5 DEF RestartKeeps, Says, Returned
    <3> QED BY <1>s, <1>19, <2>2, <2>3, <3>1 DEF Advances
  <2> QED BY <2>4, <2>5
<1>20. CASE n = 20
  <2>1. r \in Closing(s)
    BY <1>20, ContractPlan DEF ContractCheck
  <2>2. Stage(21, r.a, r.value.ids)
    BY DEF Stage, InUse
  <2>3. /\ Tame(product, r.a) /\ r.a.faults = s.faults /\ r.raised = FALSE
        /\ r.value.is = "native"
    BY <2>1, ClosingEnds
  <2> QED BY <1>s, <1>20, <2>2, <2>3 DEF Advances
<1> QED
  BY <1>0, <1>3, <1>4, <1>5, <1>6, <1>7, <1>8, <1>9, <1>10, <1>11, <1>12, <1>13, <1>14, <1>15, <1>16, <1>17, <1>18, <1>19, <1>20

-----------------------------------------------------------------------------
(* A new provider in a directory of its own, up to the look at it: c is it *)
(* reset, e it ready with the batch, or the one of its calls that raised.  *)
Primes(t, batch, c, e) ==
    \/ e \in New(t) /\ e.raised
    \/ \E b \in New(t) :
         /\ ~b.raised
         /\ \/ e \in Reset(b.a) /\ e.raised
            \/ /\ c \in Reset(b.a) /\ ~c.raised
               /\ \/ e \in Ingest(c.a, batch) /\ e.raised
                  \/ \E d \in Ingest(c.a, batch) : ~d.raised /\ e \in AwaitReadyOf(product, d.a)

LEMMA PrimesGoes ==
    ASSUME Calm, NEW t \in Wide, Bare(t), Tight(product, t), NEW batch \in SUBSET Events,
           NEW c, NEW e, Primes(t, batch, c, e)
    PROVE  /\ Goes(product, t, e) /\ Outcome(product, e)
           /\ ~e.raised =>
                /\ Goes(product, t, c) /\ ~c.raised /\ c.a.listed = {}
                /\ e.a.faults = t.faults => c.a.faults = t.faults
                /\ product \notin Fixed => e.a.listed = batch
<1>p. product \in AllProducts
  BY DEF Calm
<1>1. \A b \in New(t) : Goes(product, t, b) /\ Outcome(product, b) /\ Tight(product, b.a)
  BY <1>p, NewTurns, OutsFlawed DEF Outs, Outcome
<1>2. CASE e \in New(t) /\ e.raised
  BY <1>1, <1>2
<1>3. ASSUME NEW b \in New(t), ~b.raised,
             \/ e \in Reset(b.a) /\ e.raised
             \/ /\ c \in Reset(b.a) /\ ~c.raised
                /\ \/ e \in Ingest(c.a, batch) /\ e.raised
                   \/ \E d \in Ingest(c.a, batch) : ~d.raised /\ e \in AwaitReadyOf(product, d.a)
      PROVE  /\ Goes(product, t, e) /\ Outcome(product, e)
             /\ ~e.raised =>
                  /\ Goes(product, t, c) /\ ~c.raised /\ c.a.listed = {}
                  /\ e.a.faults = t.faults => c.a.faults = t.faults
                  /\ product \notin Fixed => e.a.listed = batch
  <2>1. /\ Goes(product, t, b) /\ Tame(product, b.a) /\ Tight(product, b.a) /\ Tame(product, t)
        /\ \A x \in Reset(b.a) : Goes(product, b.a, x) /\ (~x.raised => x.a.listed = {})
    <3>1. Goes(product, t, b) /\ Tame(product, b.a) /\ Tight(product, b.a)
      BY <1>1, <1>3 DEF Goes
    <3>2. Tame(product, t)
      BY BareFit DEF Fit
    <3> QED BY <3>1, <3>2, ResetTurns
  <2>2. \A x \in Reset(b.a) :
           /\ Goes(product, t, x) /\ (~x.raised => x.a.listed = {})
           /\ Outcome(product, x) /\ Tight(product, x.a)
    BY <1>p, <1>3, <2>1, GoesThen, OutsFlawed DEF Outs, Outcome
  <2>3. CASE e \in Reset(b.a) /\ e.raised
    BY <2>2, <2>3
  <2>4. ASSUME c \in Reset(b.a), ~c.raised,
               \/ e \in Ingest(c.a, batch) /\ e.raised
               \/ \E d \in Ingest(c.a, batch) : ~d.raised /\ e \in AwaitReadyOf(product, d.a)
        PROVE  /\ Goes(product, t, e) /\ Outcome(product, e)
               /\ ~e.raised =>
                    /\ Goes(product, t, c) /\ ~c.raised /\ c.a.listed = {}
                    /\ e.a.faults = t.faults => c.a.faults = t.faults
                    /\ product \notin Fixed => e.a.listed = batch
    <3>1. /\ Goes(product, t, c) /\ c.a.listed = {} /\ Tight(product, c.a)
          /\ Tame(product, c.a)
      BY <2>2, <2>4 DEF Goes
    <3>2. \A x \in Ingest(c.a, batch) :
             /\ Goes(product, c.a, x) /\ (~x.raised /\ product \notin Fixed => x.a.listed = batch)
             /\ Outcome(product, x) /\ Tight(product, x.a)
      <4>1. \A x \in Ingest(c.a, batch) :
               /\ Goes(product, c.a, x)
               /\ ~x.raised /\ product \notin Fixed => x.a.listed = c.a.listed \cup batch
        BY <3>1, IngestTurns
      <4>2. c.a.listed \cup batch = batch
        BY <3>1
      <4>3. \A x \in Ingest(c.a, batch) : Outcome(product, x)
        BY <1>p, <3>1, OutsFlawed DEF Outs
      <4>4. \A x : Outcome(product, x) => Tight(product, x.a)
        BY DEF Outcome
      <4> QED BY <4>1, <4>2, <4>3, <4>4
    <3>3. \A x \in Ingest(c.a, batch) :
             /\ Goes(product, t, x)
             /\ x.a.faults = t.faults => c.a.faults = t.faults
      BY <2>1, <2>4, <3>1, <3>2, GoesThen
    <3>4. CASE e \in Ingest(c.a, batch) /\ e.raised
      BY <3>2, <3>3, <3>4
    <3>5. ASSUME NEW d \in Ingest(c.a, batch), ~d.raised, e \in AwaitReadyOf(product, d.a)
          PROVE  /\ Goes(product, t, e) /\ Outcome(product, e)
                 /\ ~e.raised =>
                      /\ e.a.faults = t.faults => c.a.faults = t.faults
                      /\ product \notin Fixed => e.a.listed = batch
      <4>1. /\ Goes(product, t, d) /\ Tight(product, d.a) /\ Tame(product, d.a)
            /\ product \notin Fixed => d.a.listed = batch
            /\ d.a.faults = t.faults => c.a.faults = t.faults
        BY <3>2, <3>3, <3>5 DEF Goes
      <4>2. Goes(product, d.a, e) /\ (~e.raised => e.a.listed = d.a.listed)
        BY <3>5, <4>1, AwaitTurns
      <4>3. Goes(product, t, e) /\ (e.a.faults = t.faults => d.a.faults = t.faults)
        BY <2>1, <3>5, <4>1, <4>2, GoesThen
      <4>4. Outcome(product, e)
        BY <1>p, <3>5, <4>1, OutsFlawed DEF Outs
      <4> QED BY <4>1, <4>2, <4>3, <4>4
    <3> QED BY <2>4, <3>1, <3>4, <3>5
  <2> QED BY <1>3, <2>3, <2>4
<1> QED BY <1>2, <1>3 DEF Primes

(* What comes back leaves the adapter as it was.                           *)
LEMMA BackFields ==
    ASSUME NEW s, NEW x, Outcome(product, x)
    PROVE  /\ Back(s, x).a = [s EXCEPT !.faults = x.a.faults]
           /\ Back(s, x).raised = x.raised /\ Back(s, x).value = x.value
<1> DEFINE w == [s EXCEPT !.faults = x.a.faults]
<1>1. Back(s, x) = [x EXCEPT !.a = w]
  BY DEF Back
<1>2. x = [a |-> x.a, raised |-> x.raised, value |-> x.value]
  BY DEF Outcome
<1> HIDE DEF w
<1>3. Back(s, x).a = w /\ Back(s, x).raised = x.raised /\ Back(s, x).value = x.value
  BY <1>1, <1>2
<1> QED BY <1>3 DEF w

LEMMA Restored ==
    ASSUME NEW s, Tame(product, s), NEW x, Goes(product, Apart(s), x),
           NEW r, r.a = [s EXCEPT !.faults = x.a.faults], r.raised = x.raised, r.value = x.value
    PROVE  /\ Goes(product, s, r) /\ r.a.faults = x.a.faults /\ r.a.listed = s.listed
           /\ r.a.faults = s.faults => r.a = s
<1>1. /\ Apart(s).faults = s.faults /\ Fit(product, Apart(s))
  BY ApartBare DEF Tame
<1>2. x.a \in Wide /\ x.a.faults >= s.faults
  BY <1>1 DEF Goes, Tame
<1>3. /\ Tame(product, r.a) /\ r.a.faults = x.a.faults /\ r.a.listed = s.listed
      /\ x.a.faults = s.faults => r.a = s
  BY <1>2, Aside
<1> QED BY <1>1, <1>2, <1>3 DEF Goes

(* Closing a provider made for one check changes nothing that comes back.  *)
Shuts(x, y) ==
    \/ x.raised /\ y = x
    \/ ~x.raised /\ \E c \in CleanupOf(product, x.a) : y = Returned(c.a, x.value)

LEMMA ProbeShuts ==
    ASSUME NEW s, NEW F, NEW r \in {Back(s, y) : y \in AndCleanUp(F)}
    PROVE  \E x \in F : \E y : r = Back(s, y) /\ Shuts(x, y)
<1>1. PICK y \in AndCleanUp(F) : r = Back(s, y)
  OBVIOUS
<1>2. PICK x \in F : Shuts(x, y)
  BY DEF AndCleanUp, ThenWith, Shuts
<1> QED BY <1>1, <1>2

LEMMA BackClears ==
    ASSUME Calm, NEW s, Tame(product, s),
           NEW x, Goes(product, Apart(s), x), Outcome(product, x),
           NEW P, P /\ ~x.raised /\ x.a.faults = s.faults => x.value.is # "failed",
           NEW y, Shuts(x, y), NEW r, r = Back(s, y)
    PROVE  Clears(s, r, P, s.listed, r.value.ids)
<1>1. CASE x.raised
  <2>1. r = Back(s, x)
    BY <1>1 DEF Shuts
  <2>2. /\ r.a = [s EXCEPT !.faults = x.a.faults]
        /\ r.raised = x.raised /\ r.value = x.value
    BY <2>1, BackFields
  <2>3. Goes(product, s, r) /\ r.a.faults = x.a.faults /\ r.a.listed = s.listed
    BY <2>2, Restored
  <2> QED BY <2>2, <2>3, <1>1 DEF Clears, Goes
<1>2. CASE ~x.raised
  <2>1. PICK c \in CleanupOf(product, x.a) : y = Returned(c.a, x.value)
    BY <1>2 DEF Shuts
  <2>2. c.a.faults = x.a.faults /\ Tight(product, c.a)
    <3>1. Tame(product, x.a) /\ product \in AllProducts /\ Tight(product, x.a)
      BY DEF Goes, Calm, Outcome
    <3>2. \A z \in CleanupOf(product, x.a) : z.a.faults = x.a.faults /\ Outcome(product, z)
      BY <3>1, CleanupGoes, OutsFlawed DEF Outs
    <3> QED BY <3>2 DEF Outcome
  <2>3. y.a = c.a /\ y.raised = x.raised /\ y.value = x.value
    BY <1>2, <2>1 DEF Returned, Goes
  <2>4. Outcome(product, y)
    BY <2>1, <2>2, OutcomeOf
  <2>5. r.a = [s EXCEPT !.faults = y.a.faults] /\ r.raised = y.raised /\ r.value = y.value
    BY <2>4, BackFields
  <2>6. /\ r.a = [s EXCEPT !.faults = x.a.faults]
        /\ r.raised = x.raised /\ r.value = x.value
    BY <2>2, <2>3, <2>5
  <2>7. Goes(product, s, r) /\ r.a.faults = x.a.faults /\ r.a.listed = s.listed
    BY <2>6, Restored
  <2> QED BY <1>2, <2>6, <2>7 DEF Clears
<1> QED BY <1>1, <1>2

LEMMA JudgedBack ==
    ASSUME Calm, NEW s, Tame(product, s), NEW d, Goes(product, Apart(s), d), ~d.raised,
           Tight(product, d.a), NEW ok, NEW P, P /\ d.a.faults = s.faults => ok,
           NEW x \in Judge(d.a, ok), NEW y, Shuts(x, y), NEW r, r = Back(s, y)
    PROVE  Clears(s, r, P, s.listed, r.value.ids)
<1>1. /\ x.a = d.a /\ x.raised = FALSE /\ (ok => x.value.is = "native")
  BY DEF Judge, Found, Returned
<1>2. Outcome(product, x)
  BY OutcomeOf DEF Judge, Found
<1>3. Goes(product, Apart(s), x)
  BY <1>1 DEF Goes
<1> QED BY <1>1, <1>2, <1>3, BackClears

(* The look at it, with one retrieval of what has been ingested.           *)
LEMMA LooksBack ==
    ASSUME Calm, product \notin Fixed \cup {"mem0-native"}, NEW t \in Wide, Bare(t),
           NEW e, Goes(product, t, e), Tight(product, e.a), ~e.raised,
           NEW f \in Retrieve(e.a, current)
    PROVE  /\ Goes(product, t, f) /\ Tight(product, f.a) /\ ~f.raised
           /\ f.a.listed = e.a.listed /\ f.a.store = e.a.store
           /\ f.a.faults = t.faults => f.value = Best(product, e.a, current)
<1>p. product \in AllProducts /\ current \in Queries
  BY CorpusAssumption DEF Calm
<1>1. Fit(product, t) /\ Tame(product, t) /\ Tame(product, e.a)
  BY BareFit DEF Fit, Goes
<1>2. /\ Goes(product, e.a, f) /\ ~f.raised
      /\ f.a.listed = e.a.listed /\ f.a.store = e.a.store
      /\ Ready(product, e.a) => f.value = Best(product, e.a, current)
  BY <1>p, <1>1, RetrieveTurns
<1>3. Goes(product, t, f) /\ (f.a.faults = t.faults => e.a.faults = t.faults)
  BY <1>1, <1>2, GoesThen
<1>4. e.a.faults = t.faults => Ready(product, e.a)
  BY <1>1, FitReady DEF Goes
<1>5. Tight(product, f.a)
  BY <1>p, OutsFlawed DEF Outs, Outcome
<1> QED BY <1>2, <1>3, <1>4, <1>5

LEMMA IsolationClears ==
    ASSUME Calm, product \notin Fixed \cup {"mem0-native"}, NEW s, Tame(product, s),
           NEW r \in CanaryIsolation(s)
    PROVE  Clears(s, r, TRUE, s.listed, r.value.ids)
<1>0. /\ Apart(s) \in Wide /\ Bare(Apart(s)) /\ Tight(product, Apart(s))
      /\ Apart(s).faults = s.faults /\ {Asked} \in SUBSET Events
  <2>1. Tight(product, Apart(s))
    BY DEF Apart, Blank, Tight
  <2> QED BY <2>1, ApartBare, CorpusAssumption DEF Tame
<1> DEFINE Look(e) == ThenWith(Retrieve(e, current), LAMBDA f, mine :
                     ThenWith(Retrieve(f, current), LAMBDA g, ids :
                     Judge(g, Asked \in mine /\ ids \subseteq {Asked})))
<1>x. PICK x, y : /\ r = Back(s, y) /\ Shuts(x, y)
               /\ x \in Then(New(Apart(s)), LAMBDA b : Then(Reset(b), LAMBDA c :
                        Then(Ingest(c, {Asked}), LAMBDA d :
                        Then(AwaitReadyOf(product, d), LAMBDA e : Look(e)))))
  BY ProbeShuts DEF CanaryIsolation, Primed
<1>1. PICK c, e : /\ Primes(Apart(s), {Asked}, c, e)
                  /\ \/ e.raised /\ x = e
                     \/ ~e.raised /\ x \in Look(e.a)
  <2> HIDE DEF Look
  <2>1. PICK b \in New(Apart(s)) :
           \/ b.raised /\ x = b
           \/ /\ ~b.raised
              /\ x \in Then(Reset(b.a), LAMBDA c : Then(Ingest(c, {Asked}), LAMBDA d :
                       Then(AwaitReadyOf(product, d), LAMBDA e : Look(e))))
    BY <1>x DEF Then, ThenWith
  <2>2. CASE b.raised /\ x = b
    BY <2>2 DEF Primes
  <2>3. ASSUME ~b.raised, NEW c \in Reset(b.a), ~c.raised,
               x \in Then(Ingest(c.a, {Asked}), LAMBDA d :
                     Then(AwaitReadyOf(product, d), LAMBDA e : Look(e)))
        PROVE  \E e : /\ Primes(Apart(s), {Asked}, c, e)
                      /\ \/ e.raised /\ x = e
                         \/ ~e.raised /\ x \in Look(e.a)
    <3>1. PICK d \in Ingest(c.a, {Asked}) :
             \/ d.raised /\ x = d
             \/ ~d.raised /\ x \in Then(AwaitReadyOf(product, d.a), LAMBDA e : Look(e))
      BY <2>3 DEF Then, ThenWith
    <3>2. CASE d.raised /\ x = d
      BY <2>3, <3>2 DEF Primes
    <3>3. CASE ~d.raised /\ x \in Then(AwaitReadyOf(product, d.a), LAMBDA e : Look(e))
      <4>1. PICK e \in AwaitReadyOf(product, d.a) :
               \/ e.raised /\ x = e
               \/ ~e.raised /\ x \in Look(e.a)
        BY <3>3 DEF Then, ThenWith
      <4>2. Primes(Apart(s), {Asked}, c, e)
        BY <2>3, <3>3 DEF Primes
      <4> QED BY <4>1, <4>2
    <3> QED BY <3>1, <3>2, <3>3
  <2>4. ASSUME ~b.raised, NEW c \in Reset(b.a), c.raised, x = c
        PROVE  Primes(Apart(s), {Asked}, c, x)
    BY <2>4 DEF Primes
  <2>5. b.raised \/ \E c \in Reset(b.a) :
           \/ c.raised /\ x = c
           \/ /\ ~c.raised
              /\ x \in Then(Ingest(c.a, {Asked}), LAMBDA d :
                       Then(AwaitReadyOf(product, d), LAMBDA e : Look(e)))
    BY <2>1 DEF Then, ThenWith
  <2> QED BY <2>1, <2>2, <2>3, <2>4, <2>5
<1>2. /\ Goes(product, Apart(s), e) /\ Outcome(product, e) /\ Tight(product, e.a)
      /\ ~e.raised => e.a.listed = {Asked}
  <2>b. PICK B \in SUBSET Events : B = {Asked}
    BY <1>0
  <2>c. Primes(Apart(s), B, c, e)
    BY <1>1, <2>b
  <2>1. /\ Goes(product, Apart(s), e) /\ Outcome(product, e)
        /\ ~e.raised =>
             /\ Goes(product, Apart(s), c) /\ ~c.raised /\ c.a.listed = {}
             /\ e.a.faults = Apart(s).faults => c.a.faults = Apart(s).faults
             /\ product \notin Fixed => e.a.listed = B
    <3>1. Apart(s) \in Wide /\ Bare(Apart(s)) /\ Tight(product, Apart(s))
      BY <1>0
    <3> QED BY <2>c, <3>1, PrimesGoes
  <2> QED BY <1>0, <2>b, <2>1 DEF Outcome
<1>3. CASE e.raised
  BY <1>x, <1>1, <1>2, <1>3, BackClears
<1>4. CASE ~e.raised
  <2>1. PICK f \in Retrieve(e.a, current) :
           \/ f.raised /\ x = f
           \/ \E g \in Retrieve(f.a, current) :
                \/ g.raised /\ x = g
                \/ x \in Judge(g.a, Asked \in f.value /\ g.value \subseteq {Asked})
    BY <1>1, <1>4 DEF ThenWith
  <2>2. /\ Goes(product, Apart(s), f) /\ Tight(product, f.a) /\ ~f.raised
        /\ f.a.listed = {Asked}
        /\ f.a.faults = s.faults => f.value = Best(product, e.a, current)
    BY <1>0, <1>2, <1>4, <2>1, LooksBack
  <2>3. PICK g \in Retrieve(f.a, current) :
           \/ g.raised /\ x = g
           \/ x \in Judge(g.a, Asked \in f.value /\ g.value \subseteq {Asked})
    BY <2>1, <2>2
  <2>4. /\ Goes(product, Apart(s), g) /\ Tight(product, g.a) /\ ~g.raised
        /\ g.a.faults = s.faults => g.value = Best(product, f.a, current)
    BY <1>0, <2>2, <2>3, LooksBack
  <2>5. g.a.faults = s.faults => f.a.faults = s.faults
    <3>1. Tame(product, f.a) /\ Goes(product, f.a, g)
      BY <2>2, <2>3, RetrieveTurns, CorpusAssumption DEF Goes
    <3>2. Tame(product, Apart(s))
      BY <1>0, BareFit DEF Fit
    <3> QED BY <1>0, <2>2, <3>1, <3>2, GoesThen
  <2>6. Best(product, e.a, current) = {Asked} /\ Best(product, f.a, current) = {Asked}
    BY <1>2, <1>4, <2>2, CorpusAssumption DEF Best
  <2> QED BY <2>2, <2>3, <2>4, <2>5, <2>6, <1>x, JudgedBack
<1> QED BY <1>3, <1>4

LEMMA NotRetrievedClears ==
    ASSUME Calm, product \notin Fixed \cup {"mem0-native"}, NEW s, Tame(product, s),
           NEW z \in {Future, Other}, NEW r \in NotRetrieved(s, z)
    PROVE  Clears(s, r, product # "optmem-native", s.listed, r.value.ids)
<1>0. /\ Apart(s) \in Wide /\ Bare(Apart(s)) /\ Tight(product, Apart(s))
      /\ Apart(s).faults = s.faults /\ {z} \in SUBSET Events
  <2>1. Tight(product, Apart(s))
    BY DEF Apart, Blank, Tight
  <2> QED BY <2>1, ApartBare, CorpusAssumption DEF Tame
<1> DEFINE Look(e) == ThenWith(Retrieve(e, current), LAMBDA f, ids : Judge(f, z \notin ids))
<1>x. PICK x, y : /\ r = Back(s, y) /\ Shuts(x, y)
               /\ x \in Then(New(Apart(s)), LAMBDA b : Then(Reset(b), LAMBDA c :
                        Then(Ingest(c, {z}), LAMBDA d :
                        Then(AwaitReadyOf(product, d), LAMBDA e : Look(e)))))
  BY ProbeShuts DEF NotRetrieved, Primed
<1>1. PICK c, e : /\ Primes(Apart(s), {z}, c, e)
                  /\ \/ e.raised /\ x = e
                     \/ ~e.raised /\ x \in Look(e.a)
  <2> HIDE DEF Look
  <2>1. PICK b \in New(Apart(s)) :
           \/ b.raised /\ x = b
           \/ /\ ~b.raised
              /\ x \in Then(Reset(b.a), LAMBDA c : Then(Ingest(c, {z}), LAMBDA d :
                       Then(AwaitReadyOf(product, d), LAMBDA e : Look(e))))
    BY <1>x DEF Then, ThenWith
  <2>2. CASE b.raised /\ x = b
    BY <2>2 DEF Primes
  <2>3. ASSUME ~b.raised, NEW c \in Reset(b.a), ~c.raised,
               x \in Then(Ingest(c.a, {z}), LAMBDA d :
                     Then(AwaitReadyOf(product, d), LAMBDA e : Look(e)))
        PROVE  \E e : /\ Primes(Apart(s), {z}, c, e)
                      /\ \/ e.raised /\ x = e
                         \/ ~e.raised /\ x \in Look(e.a)
    <3>1. PICK d \in Ingest(c.a, {z}) :
             \/ d.raised /\ x = d
             \/ ~d.raised /\ x \in Then(AwaitReadyOf(product, d.a), LAMBDA e : Look(e))
      BY <2>3 DEF Then, ThenWith
    <3>2. CASE d.raised /\ x = d
      BY <2>3, <3>2 DEF Primes
    <3>3. CASE ~d.raised /\ x \in Then(AwaitReadyOf(product, d.a), LAMBDA e : Look(e))
      <4>1. PICK e \in AwaitReadyOf(product, d.a) :
               \/ e.raised /\ x = e
               \/ ~e.raised /\ x \in Look(e.a)
        BY <3>3 DEF Then, ThenWith
      <4>2. Primes(Apart(s), {z}, c, e)
        BY <2>3, <3>3 DEF Primes
      <4> QED BY <4>1, <4>2
    <3> QED BY <3>1, <3>2, <3>3
  <2>4. ASSUME ~b.raised, NEW c \in Reset(b.a), c.raised, x = c
        PROVE  Primes(Apart(s), {z}, c, x)
    BY <2>4 DEF Primes
  <2>5. b.raised \/ \E c \in Reset(b.a) :
           \/ c.raised /\ x = c
           \/ /\ ~c.raised
              /\ x \in Then(Ingest(c.a, {z}), LAMBDA d :
                       Then(AwaitReadyOf(product, d), LAMBDA e : Look(e)))
    BY <2>1 DEF Then, ThenWith
  <2> QED BY <2>1, <2>2, <2>3, <2>4, <2>5
<1>2. /\ Goes(product, Apart(s), e) /\ Outcome(product, e) /\ Tight(product, e.a)
      /\ ~e.raised => e.a.listed = {z}
  <2>1. /\ Goes(product, Apart(s), e) /\ Outcome(product, e)
        /\ ~e.raised => e.a.listed = {z}
    BY <1>0, <1>1, PrimesGoes, ZenonT(60)
  <2> QED BY <2>1 DEF Outcome
<1>3. CASE e.raised
  BY <1>x, <1>1, <1>2, <1>3, BackClears
<1>4. CASE ~e.raised
  <2>1. PICK f \in Retrieve(e.a, current) :
           \/ f.raised /\ x = f
           \/ x \in Judge(f.a, z \notin f.value)
    BY <1>1, <1>4 DEF ThenWith
  <2>2. /\ Goes(product, Apart(s), f) /\ Tight(product, f.a) /\ ~f.raised
        /\ f.a.faults = s.faults => f.value = Best(product, e.a, current)
    BY <1>0, <1>2, <1>4, <2>1, LooksBack
  <2>3. product # "optmem-native" => z \notin Best(product, e.a, current)
    BY <1>2, <1>4, QuestionsAssumption DEF Best
  <2> QED BY <1>x, <2>1, <2>2, <2>3, JudgedBack
<1> QED BY <1>3, <1>4

LEMMA MutationClears ==
    ASSUME Calm, product \notin Fixed \cup {"mem0-native"}, NEW s, Tame(product, s),
           NEW r \in QueryMutation(s)
    PROVE  Clears(s, r, TRUE, s.listed, r.value.ids)
<1>0. /\ Apart(s) \in Wide /\ Bare(Apart(s)) /\ Tight(product, Apart(s))
      /\ Apart(s).faults = s.faults /\ {Asked, Doomed} \in SUBSET Events
  <2>1. Tight(product, Apart(s))
    BY DEF Apart, Blank, Tight
  <2> QED BY <2>1, ApartBare, CorpusAssumption DEF Tame
<1> DEFINE Look(e) == Then(Retrieve(e, current), LAMBDA f : Judge(f, HashOf(f) = HashOf(e)))
<1>x. PICK x, y : /\ r = Back(s, y) /\ Shuts(x, y)
               /\ x \in Then(New(Apart(s)), LAMBDA b : Then(Reset(b), LAMBDA c :
                        Then(Ingest(c, {Asked, Doomed}), LAMBDA d :
                        Then(AwaitReadyOf(product, d), LAMBDA e : Look(e)))))
  BY ProbeShuts DEF QueryMutation, Primed
<1>1. PICK c, e : /\ Primes(Apart(s), {Asked, Doomed}, c, e)
                  /\ \/ e.raised /\ x = e
                     \/ ~e.raised /\ x \in Look(e.a)
  <2> HIDE DEF Look
  <2>1. PICK b \in New(Apart(s)) :
           \/ b.raised /\ x = b
           \/ /\ ~b.raised
              /\ x \in Then(Reset(b.a), LAMBDA c : Then(Ingest(c, {Asked, Doomed}), LAMBDA d :
                       Then(AwaitReadyOf(product, d), LAMBDA e : Look(e))))
    BY <1>x DEF Then, ThenWith
  <2>2. CASE b.raised /\ x = b
    BY <2>2 DEF Primes
  <2>3. ASSUME ~b.raised, NEW c \in Reset(b.a), ~c.raised,
               x \in Then(Ingest(c.a, {Asked, Doomed}), LAMBDA d :
                     Then(AwaitReadyOf(product, d), LAMBDA e : Look(e)))
        PROVE  \E e : /\ Primes(Apart(s), {Asked, Doomed}, c, e)
                      /\ \/ e.raised /\ x = e
                         \/ ~e.raised /\ x \in Look(e.a)
    <3>1. PICK d \in Ingest(c.a, {Asked, Doomed}) :
             \/ d.raised /\ x = d
             \/ ~d.raised /\ x \in Then(AwaitReadyOf(product, d.a), LAMBDA e : Look(e))
      BY <2>3 DEF Then, ThenWith
    <3>2. CASE d.raised /\ x = d
      BY <2>3, <3>2 DEF Primes
    <3>3. CASE ~d.raised /\ x \in Then(AwaitReadyOf(product, d.a), LAMBDA e : Look(e))
      <4>1. PICK e \in AwaitReadyOf(product, d.a) :
               \/ e.raised /\ x = e
               \/ ~e.raised /\ x \in Look(e.a)
        BY <3>3 DEF Then, ThenWith
      <4>2. Primes(Apart(s), {Asked, Doomed}, c, e)
        BY <2>3, <3>3 DEF Primes
      <4> QED BY <4>1, <4>2
    <3> QED BY <3>1, <3>2, <3>3
  <2>4. ASSUME ~b.raised, NEW c \in Reset(b.a), c.raised, x = c
        PROVE  Primes(Apart(s), {Asked, Doomed}, c, x)
    BY <2>4 DEF Primes
  <2>5. b.raised \/ \E c \in Reset(b.a) :
           \/ c.raised /\ x = c
           \/ /\ ~c.raised
              /\ x \in Then(Ingest(c.a, {Asked, Doomed}), LAMBDA d :
                       Then(AwaitReadyOf(product, d), LAMBDA e : Look(e)))
    BY <2>1 DEF Then, ThenWith
  <2> QED BY <2>1, <2>2, <2>3, <2>4, <2>5
<1>2. /\ Goes(product, Apart(s), e) /\ Outcome(product, e) /\ Tight(product, e.a)
  <2>1. /\ Goes(product, Apart(s), e) /\ Outcome(product, e)
    BY <1>0, <1>1, PrimesGoes
  <2> QED BY <2>1 DEF Outcome
<1>3. CASE e.raised
  BY <1>x, <1>1, <1>2, <1>3, BackClears
<1>4. CASE ~e.raised
  <2>1. PICK f \in Retrieve(e.a, current) :
           \/ f.raised /\ x = f
           \/ x \in Judge(f.a, HashOf(f.a) = HashOf(e.a))
    BY <1>1, <1>4 DEF Then, ThenWith
  <2>2. /\ Goes(product, Apart(s), f) /\ Tight(product, f.a) /\ ~f.raised
        /\ f.a.listed = e.a.listed /\ f.a.store = e.a.store
    BY <1>0, <1>2, <1>4, <2>1, LooksBack
  <2>3. HashOf(f.a) = HashOf(e.a)
    BY <2>2, SameHash
  <2> QED BY <1>x, <2>1, <2>2, <2>3, JudgedBack
<1> QED BY <1>3, <1>4

LEMMA FreshProbeClears ==
    ASSUME Calm, NEW s, Tame(product, s), NEW r \in FreshStateProbe(s)
    PROVE  Clears(s, r, TRUE, s.listed, r.value.ids)
<1>0. /\ Apart(s) \in Wide /\ Bare(Apart(s)) /\ Tight(product, Apart(s))
      /\ Apart(s).faults = s.faults /\ {Asked} \in SUBSET Events
      /\ Fit(product, Apart(s)) /\ Tame(product, Apart(s)) /\ product \in AllProducts
  <2>1. Tight(product, Apart(s))
    BY DEF Apart, Blank, Tight
  <2> QED BY <2>1, ApartBare, CorpusAssumption DEF Tame, Calm
<1> DEFINE Look(e, c) == Then(Reset(e), LAMBDA f : Judge(f, HashOf(f) = HashOf(c)))
<1>x. PICK x, y : /\ r = Back(s, y) /\ Shuts(x, y)
               /\ x \in Then(New(Apart(s)), LAMBDA b : Then(Reset(b), LAMBDA c :
                        Then(Ingest(c, {Asked}), LAMBDA d :
                        Then(AwaitReadyOf(product, d), LAMBDA e : Look(e, c)))))
  BY ProbeShuts DEF FreshStateProbe
<1>1. PICK c, e : /\ Primes(Apart(s), {Asked}, c, e)
                  /\ \/ e.raised /\ x = e
                     \/ ~e.raised /\ x \in Look(e.a, c.a)
  <2> HIDE DEF Look
  <2>1. PICK b \in New(Apart(s)) :
           \/ b.raised /\ x = b
           \/ /\ ~b.raised
              /\ x \in Then(Reset(b.a), LAMBDA c : Then(Ingest(c, {Asked}), LAMBDA d :
                       Then(AwaitReadyOf(product, d), LAMBDA e : Look(e, c))))
    BY <1>x DEF Then, ThenWith
  <2>2. CASE b.raised /\ x = b
    BY <2>2 DEF Primes
  <2>3. ASSUME ~b.raised, NEW c \in Reset(b.a), ~c.raised,
               x \in Then(Ingest(c.a, {Asked}), LAMBDA d :
                     Then(AwaitReadyOf(product, d), LAMBDA e : Look(e, c.a)))
        PROVE  \E e : /\ Primes(Apart(s), {Asked}, c, e)
                      /\ \/ e.raised /\ x = e
                         \/ ~e.raised /\ x \in Look(e.a, c.a)
    <3>1. PICK d \in Ingest(c.a, {Asked}) :
             \/ d.raised /\ x = d
             \/ ~d.raised /\ x \in Then(AwaitReadyOf(product, d.a), LAMBDA e : Look(e, c.a))
      BY <2>3 DEF Then, ThenWith
    <3>2. CASE d.raised /\ x = d
      BY <2>3, <3>2 DEF Primes
    <3>3. CASE ~d.raised /\ x \in Then(AwaitReadyOf(product, d.a), LAMBDA e : Look(e, c.a))
      <4>1. PICK e \in AwaitReadyOf(product, d.a) :
               \/ e.raised /\ x = e
               \/ ~e.raised /\ x \in Look(e.a, c.a)
        BY <3>3 DEF Then, ThenWith
      <4>2. Primes(Apart(s), {Asked}, c, e)
        BY <2>3, <3>3 DEF Primes
      <4> QED BY <4>1, <4>2
    <3> QED BY <3>1, <3>2, <3>3
  <2>4. ASSUME ~b.raised, NEW c \in Reset(b.a), c.raised, x = c
        PROVE  Primes(Apart(s), {Asked}, c, x)
    BY <2>4 DEF Primes
  <2>5. b.raised \/ \E c \in Reset(b.a) :
           \/ c.raised /\ x = c
           \/ /\ ~c.raised
              /\ x \in Then(Ingest(c.a, {Asked}), LAMBDA d :
                       Then(AwaitReadyOf(product, d), LAMBDA e : Look(e, c.a)))
    BY <2>1 DEF Then, ThenWith
  <2> QED BY <2>1, <2>2, <2>3, <2>4, <2>5
<1>2. /\ Goes(product, Apart(s), e) /\ Outcome(product, e) /\ Tight(product, e.a)
      /\ ~e.raised => /\ Goes(product, Apart(s), c) /\ ~c.raised /\ c.a.listed = {}
                      /\ e.a.faults = s.faults => c.a.faults = s.faults
  <2>b. PICK B \in SUBSET Events : B = {Asked}
    BY <1>0
  <2>c. Primes(Apart(s), B, c, e)
    BY <1>1, <2>b
  <2>1. /\ Goes(product, Apart(s), e) /\ Outcome(product, e)
        /\ ~e.raised =>
             /\ Goes(product, Apart(s), c) /\ ~c.raised /\ c.a.listed = {}
             /\ e.a.faults = Apart(s).faults => c.a.faults = Apart(s).faults
             /\ product \notin Fixed => e.a.listed = B
    <3>1. Apart(s) \in Wide /\ Bare(Apart(s)) /\ Tight(product, Apart(s))
      BY <1>0
    <3> QED BY <2>c, <3>1, PrimesGoes
  <2> QED BY <1>0, <2>b, <2>1 DEF Outcome
<1>3. CASE e.raised
  BY <1>x, <1>1, <1>2, <1>3, BackClears
<1>4. CASE ~e.raised
  <2>1. PICK f \in Reset(e.a) :
           \/ f.raised /\ x = f
           \/ ~f.raised /\ x \in Judge(f.a, HashOf(f.a) = HashOf(c.a))
    BY <1>1, <1>4 DEF Then, ThenWith
  <2>2. Goes(product, e.a, f) /\ (~f.raised => f.a.listed = {})
    BY <1>2, <2>1, ResetTurns DEF Goes
  <2>3. Goes(product, Apart(s), f) /\ (f.a.faults = s.faults => e.a.faults = s.faults)
    BY <1>0, <1>2, <1>4, <2>2, GoesThen
  <2>4. Outcome(product, f) /\ Tight(product, f.a)
    BY <1>0, <1>2, <2>1, OutsFlawed DEF Outs, Outcome
  <2>5. CASE f.raised
    <3>1. x = f
      BY <2>1, <2>5
    <3> QED BY <1>x, <2>3, <2>4, <2>5, <3>1, BackClears
  <2>6. CASE ~f.raised
    <3>1. ASSUME f.a.faults = s.faults PROVE HashOf(f.a) = HashOf(c.a)
      <4>1. Fit(product, f.a) /\ Fit(product, c.a) /\ f.a.listed = {} /\ c.a.listed = {}
        BY <1>0, <1>2, <1>4, <2>2, <2>3, <2>6, <3>1 DEF Goes
      <4>2. SnapshotOf(product, f.a).hash = SnapshotOf(product, c.a).hash
        BY <1>0, <4>1, EmptyHash
      <4> QED BY <4>2, Flawless DEF Calm
    <3> QED BY <1>x, <2>1, <2>3, <2>4, <2>6, <3>1, JudgedBack
  <2> QED BY <2>5, <2>6
<1> QED BY <1>3, <1>4

LEMMA PreflightPlan ==
    ASSUME gate = "preflight"
    PROVE  \A i \in 1 .. 11 :
              Plan[i] \in {"network_egress", "compose_policy", "gold_inaccessibility",
                           "no_memory_control", "oracle_control", "canary_isolation",
                           "cross_user_isolation", "future_leakage", "query_mutation",
                           "fresh_state", "reader_statelessness"}
  BY DEF Plan

LEMMA OracleClears ==
    ASSUME NEW s, Tame(product, s), NEW r \in OracleComplete(s)
    PROVE  Clears(s, r, TRUE, s.listed, r.value.ids)
<1>1. \A q \in Queries : \A x \in Control!OracleRetrieve(s, q, Available[q]) : x.value = Gold[q]
  <2> SUFFICES ASSUME NEW q \in Queries,
                      NEW x \in Control!OracleRetrieve(s, q, Available[q])
               PROVE  x.value = Gold[q]
    OBVIOUS
  <2>1. x.value = Gold[q] \cap Available[q]
    BY DEF Control!OracleRetrieve, Control!Returned
  <2> QED BY <2>1, QuestionsAssumption
<1>2. r \in Says(s, "not_applicable") \/ r \in Judge(s, TRUE)
  BY <1>1 DEF OracleComplete, Judge, Found
<1>3. r.a = s /\ r.raised = FALSE /\ r.value.is \in {"not_applicable", "native"}
  BY <1>2 DEF Says, Judge, Found, Returned
<1>4. s.faults >= s.faults
  BY DEF Tame, Wide
<1> QED BY <1>3, <1>4 DEF Clears, Goes

(* A check of the preflight, in clean surroundings, finds nothing against  *)
(* a sound adapter that it gates on.                                       *)
LEMMA PreflightClears ==
    ASSUME Calm, product # "mem0-native", gate \in {"preflight", "supplement"}, ~Suspect,
           product = "optmem-native" => gate = "preflight" /\ setup.native,
           setup.reader \in {"offline", "abstains"},
           NEW check, check \in {"network_egress", "compose_policy", "gold_inaccessibility",
                           "no_memory_control", "oracle_control", "canary_isolation",
                           "cross_user_isolation", "future_leakage", "query_mutation",
                           "fresh_state", "reader_statelessness"},
           NEW s, Tame(product, s), NEW r \in PreflightCheck(check, s)
    PROVE  Clears(s, r, ~Measured(check), s.listed, r.value.ids)
<1>s. ~setup.containerized /\ ComposeIssues(setup.compose) = {} /\ ~setup.goldInside
  BY DEF Suspect, ComposeIssues, Noted
<1>f. s.faults >= s.faults
  BY DEF Tame, Wide
<1>1. CASE check \in {"network_egress", "compose_policy", "gold_inaccessibility",
                     "no_memory_control", "reader_statelessness"}
  <2>1. \/ r \in Says(s, "not_applicable") \/ r \in Says(s, "native") \/ r \in Judge(s, TRUE)
    <3>1. check = "network_egress" => r \in Says(s, "not_applicable")
      BY <1>s DEF PreflightCheck
    <3>2. check = "compose_policy" => r \in Judge(s, TRUE)
      BY <1>s DEF PreflightCheck, Judge, Found
    <3>3. check = "gold_inaccessibility" => r \in Judge(s, TRUE)
      BY <1>s DEF PreflightCheck, Judge, Found
    <3>4. check = "no_memory_control" => r \in Says(s, "not_applicable") \/ r \in Says(s, "native")
      BY DEF PreflightCheck, ReaderAbstains
    <3>5. check = "reader_statelessness" =>
             r \in Says(s, "not_applicable") \/ r \in Says(s, "native")
      BY DEF PreflightCheck
    <3> QED BY <1>1, <3>1, <3>2, <3>3, <3>4, <3>5
  <2>2. r.a = s /\ r.raised = FALSE /\ r.value.is \in {"not_applicable", "native"}
    BY <2>1 DEF Says, Judge, Found, Returned
  <2> QED BY <1>f, <2>2 DEF Clears, Goes
<1>2. CASE check = "oracle_control"
  <2>1. r \in OracleComplete(s)
    BY <1>2 DEF PreflightCheck
  <2> QED BY <2>1, OracleClears DEF Clears
<1>3. CASE check = "fresh_state"
  <2>1. r \in FreshStateProbe(s)
    BY <1>3 DEF PreflightCheck
  <2> QED BY <2>1, FreshProbeClears DEF Clears
<1>4. CASE check \in {"canary_isolation", "cross_user_isolation", "future_leakage",
                     "query_mutation"}
  <2>1. CASE product \in Controls
    <3>1. r \in Says(s, "not_applicable")
      BY <1>4, <2>1 DEF PreflightCheck
    <3>2. r.a = s /\ r.raised = FALSE /\ r.value.is = "not_applicable"
      BY <3>1 DEF Says, Returned
    <3> QED BY <1>f, <3>2 DEF Clears, Goes
  <2>2. CASE product \notin Controls
    <3>1. r \in MemoryCheck(check, s)
      BY <1>4, <2>2 DEF PreflightCheck
    <3>2. product \notin Fixed \cup {"mem0-native"}
      BY <2>2 DEF Controls, Fixed
    <3>3. CASE check = "canary_isolation"
      <4>1. r \in CanaryIsolation(s)
        BY <3>1, <3>3 DEF MemoryCheck
      <4> QED BY <3>2, <4>1, IsolationClears DEF Clears
    <3>4. CASE check = "cross_user_isolation"
      <4>1. r \in NotRetrieved(s, Other)
        BY <3>1, <3>4 DEF MemoryCheck
      <4>2. Clears(s, r, product # "optmem-native", s.listed, r.value.ids)
        BY <3>2, <4>1, NotRetrievedClears
      <4> QED BY <3>4, <4>2 DEF Clears, Measured
    <3>5. CASE check = "future_leakage"
      <4>1. r \in NotRetrieved(s, Future)
        BY <3>1, <3>5 DEF MemoryCheck
      <4>2. Clears(s, r, product # "optmem-native", s.listed, r.value.ids)
        BY <3>2, <4>1, NotRetrievedClears
      <4> QED BY <3>5, <4>2 DEF Clears, Measured
    <3>6. CASE check = "query_mutation"
      <4>1. r \in QueryMutation(s)
        BY <3>1, <3>6 DEF MemoryCheck
      <4> QED BY <3>2, <4>1, MutationClears DEF Clears
    <3> QED BY <1>4, <3>3, <3>4, <3>5, <3>6
  <2> QED BY <2>1, <2>2
<1> QED BY <1>1, <1>2, <1>3, <1>4

-----------------------------------------------------------------------------
(* What is recorded of a check, the measured ones included, and the next   *)
(* stage with nothing against the adapter.                                 *)
Recording(check, r) == IF Measured(check) THEN "not_applicable" ELSE r.value.is

Proceeds(check, n, s, r) ==
    /\ Tame(product, r.a) /\ r.a.faults >= s.faults /\ (r.raised = TRUE \/ r.raised = FALSE)
    /\ Stage(n, s, answer) /\ r.a.faults = s.faults =>
         /\ ~r.raised /\ Stage(n + 1, r.a, r.value.ids)
         /\ Recording(check, r) # "failed" /\ ~EndsWith(check, Recording(check, r))

LEMMA AdvancesProceeds ==
    ASSUME gate # "validation", NEW check, NEW n, NEW s, NEW r, Advances(n, s, r)
    PROVE  Proceeds(check, n, s, r)
  BY DEF Advances, Proceeds, Recording, EndsWith

LEMMA PreflightProceeds ==
    ASSUME Calm, product # "mem0-native", gate = "preflight", ~Suspect,
           product = "optmem-native" => setup.native, setup.reader \in {"offline", "abstains"},
           NEW n \in 0 .. 10, NEW check, check = Plan[n + 1],
           NEW s, Tame(product, s), NEW r \in PreflightCheck(check, s)
    PROVE  Proceeds(check, n, s, r)
<1>1. n + 1 \in 1 .. 11 /\ n <= 11
  OBVIOUS
<1>2. Clears(s, r, ~Measured(check), s.listed, r.value.ids)
  BY <1>1, PreflightPlan, PreflightClears
<1>3. Stage(n, s, answer) <=> Fit(product, s)
  BY <1>1 DEF Stage, InUse
<1>4. Fit(product, r.a) => Stage(n + 1, r.a, r.value.ids)
  BY <1>1 DEF Stage, InUse
<1>5. Goes(product, s, r)
  BY <1>2 DEF Clears
<1>6. Fit(product, s) /\ r.a.faults = s.faults => Recording(check, r) # "failed"
  BY <1>2 DEF Clears, Recording
<1>7. \A w : w # "failed" => ~EndsWith(check, w)
  BY DEF EndsWith
<1> QED BY <1>3, <1>4, <1>5, <1>6, <1>7 DEF Goes, Proceeds

LEMMA OrCleanUpGoes ==
    ASSUME product \in AllProducts, NEW s, NEW F, \A x \in F : Goes(product, s, x),
           NEW r \in OrCleanUp(s, F)
    PROVE  /\ Goes(product, s, r)
           /\ Fit(product, s) /\ r.a.faults = s.faults => r.value.is = "PASS"
<1> DEFINE S == SaidAfter(F, "PASS")
           G == Caught(S, "FAIL")
<1>1. ASSUME NEW x \in S
      PROVE  Goes(product, s, x) /\ (~x.raised => x.value.is = "PASS")
  <2>1. x \in SaidAfter(F, "PASS") /\ "PASS" # "failed"
    OBVIOUS
  <2> HIDE DEF S
  <2>2. Clears(s, x, TRUE, x.a.listed, answer) /\ (~x.raised => x.value.is = "PASS")
    BY <2>1, SaidClears, ZenonT(60)
  <2> QED BY <2>2 DEF Clears
<1>2. OrCleanUp(s, F) =
         UNION {IF x.value.is = "FAIL" THEN SaidAfter(CleanupOf(product, x.a), "FAIL")
                ELSE {x} : x \in G}
  BY DEF OrCleanUp, SaidAfter
<1>3. \A x \in G : /\ Goes(product, s, x) /\ ~x.raised
                   /\ Fit(product, s) /\ x.a.faults = s.faults => x.value.is = "PASS"
  <2> HIDE DEF S
  <2>1. \A x \in S : Goes(product, s, x)
    BY <1>1
  <2>2. \A x \in G : /\ Goes(product, s, x) /\ ~x.raised
                     /\ Fit(product, s) /\ x.a.faults = s.faults => x \in S
    BY <2>1, CaughtClears
  <2> QED BY <1>1, <2>2
<1> HIDE DEF G
<1>4. PICK x \in G :
         r \in IF x.value.is = "FAIL" THEN SaidAfter(CleanupOf(product, x.a), "FAIL") ELSE {x}
  BY <1>2
<1>5. CASE x.value.is = "FAIL"
  <2>1. \A c \in CleanupOf(product, x.a) :
           Tame(product, c.a) /\ c.a.faults = x.a.faults /\ c.raised = FALSE
    BY <1>3, CleanupGoes DEF Goes
  <2>2. PICK c \in CleanupOf(product, x.a) : r \in Says(c.a, "FAIL")
    BY <1>4, <1>5, <2>1 DEF SaidAfter, Then, ThenWith
  <2>3. r.a = c.a /\ r.raised = FALSE
    BY <2>2 DEF Says, Returned
  <2>4. ~(Fit(product, s) /\ x.a.faults = s.faults)
    BY <1>3, <1>5
  <2> QED BY <1>3, <2>1, <2>2, <2>3, <2>4 DEF Goes
<1>6. CASE x.value.is # "FAIL"
  BY <1>3, <1>4, <1>6
<1> QED BY <1>5, <1>6

LEMMA ThreeQueriesGo ==
    ASSUME Calm, NEW s, Tame(product, s), NEW r \in ThreeQueries(s)
    PROVE  Goes(product, s, r)
<1>q. {current, other, unknown} \subseteq Queries
  BY CorpusAssumption, QuestionsAssumption
<1>1. \A b \in Retrieve(s, current) : Goes(product, s, b) /\ ~b.raised /\ Tame(product, b.a)
  BY <1>q, RetrieveTurns DEF Goes
<1>2. PICK b \in Retrieve(s, current) :
         r \in Then(Retrieve(b.a, other), LAMBDA c : Retrieve(c, unknown))
  BY <1>1 DEF ThreeQueries, Then, ThenWith
<1>3. \A c \in Retrieve(b.a, other) : Goes(product, b.a, c) /\ ~c.raised /\ Tame(product, c.a)
  BY <1>q, <1>1, RetrieveTurns DEF Goes
<1>4. PICK c \in Retrieve(b.a, other) : r \in Retrieve(c.a, unknown)
  BY <1>2, <1>3 DEF Then, ThenWith
<1>5. Goes(product, c.a, r)
  BY <1>q, <1>3, <1>4, RetrieveTurns
<1>6. Goes(product, b.a, r)
  BY <1>1, <1>3, <1>5, GoesThen
<1> QED BY <1>1, <1>6, GoesThen

(* An operation that is said to have passed when it returns.               *)
LEMMA SaidPasses ==
    ASSUME NEW s, NEW F, \A x \in F : Goes(product, s, x), NEW word,
           NEW r \in Caught(SaidAfter(F, "PASS"), word)
    PROVE  /\ Goes(product, s, r) /\ ~r.raised
           /\ Fit(product, s) /\ r.a.faults = s.faults => r.value.is = "PASS"
<1> DEFINE S == SaidAfter(F, "PASS")
<1>1. ASSUME NEW x \in S
      PROVE  Goes(product, s, x) /\ (~x.raised => x.value.is = "PASS")
  <2>1. x \in SaidAfter(F, "PASS") /\ "PASS" # "failed"
    OBVIOUS
  <2> HIDE DEF S
  <2>2. Clears(s, x, TRUE, x.a.listed, answer) /\ (~x.raised => x.value.is = "PASS")
    BY <2>1, SaidClears, ZenonT(60)
  <2> QED BY <2>2 DEF Clears
<1> HIDE DEF S
<1>2. \A x \in S : Goes(product, s, x)
  BY <1>1
<1>3. /\ Goes(product, s, r) /\ ~r.raised
      /\ Fit(product, s) /\ r.a.faults = s.faults => r \in S
  BY <1>2, CaughtClears DEF S
<1> QED BY <1>1, <1>3

(* A step of the validation that passes or that it can do without.         *)
LEMMA ValidProceeds ==
    ASSUME gate = "validation", NEW n \in 2 .. 6, NEW check,
           check \in {"reset", "ingest", "readiness", "retrieval", "deletion"},
           NEW s, NEW r, Tame(product, r.a), r.a.faults >= s.faults,
           r.raised = TRUE \/ r.raised = FALSE,
           Stage(n, s, answer) /\ r.a.faults = s.faults =>
              ~r.raised /\ Fit(product, r.a) /\ r.value.is \in {"PASS", "NOT_RUN", "UNSUPPORTED"}
    PROVE  Proceeds(check, n, s, r)
<1>1. ~Measured(check)
  BY DEF Measured
<1>2. n + 1 > 2
  OBVIOUS
<1>3. Fit(product, r.a) => Stage(n + 1, r.a, r.value.ids)
  BY <1>2 DEF Stage, InUse
<1>4. \A w \in {"PASS", "NOT_RUN", "UNSUPPORTED"} : w # "failed" /\ ~EndsWith(check, w)
  BY DEF EndsWith
<1> QED BY <1>1, <1>3, <1>4 DEF Proceeds, Recording

LEMMA ResetProceeds ==
    ASSUME Calm, gate = "validation", NEW s, Tame(product, s), NEW r \in ValidateReset(s)
    PROVE  Proceeds("reset", 2, s, r)
<1>1. \A b \in New(s) :
         Tame(product, b.a) /\ b.a.faults >= s.faults /\ (b.raised = TRUE \/ b.raised = FALSE)
  BY NewTame
<1>2. Stage(2, s, answer) => Bare(s) /\ Fit(product, s) /\ s \in Wide
  BY DEF Stage, InUse, Tame
<1>n. 2 \in 2 .. 6 /\ "reset" \in {"reset", "ingest", "readiness", "retrieval", "deletion"}
  OBVIOUS
<1>3. PICK b \in New(s) :
         \/ b.raised /\ r = b
         \/ ~b.raised /\ r \in Caught(SaidAfter(Reset(b.a), "PASS"), "NOT_RUN")
  BY DEF ValidateReset, SaidAfter, Then, ThenWith
<1>4. Stage(2, s, answer) =>
         Goes(product, s, b) /\ Fit(product, s) /\ (~b.raised => Fit(product, b.a))
  BY <1>2, NewTurns
<1>5. CASE b.raised /\ r = b
  <2>1. ~(Stage(2, s, answer) /\ r.a.faults = s.faults)
    BY <1>4, <1>5 DEF Goes
  <2>2. Tame(product, r.a) /\ r.a.faults >= s.faults /\ (r.raised = TRUE \/ r.raised = FALSE)
    BY <1>1, <1>5
  <2> QED BY <1>n, <2>1, <2>2, ValidProceeds
<1>6. CASE ~b.raised /\ r \in Caught(SaidAfter(Reset(b.a), "PASS"), "NOT_RUN")
  <2>1. Tame(product, b.a) /\ b.a.faults >= s.faults
    BY <1>1
  <2>2. \A c \in Reset(b.a) : Goes(product, b.a, c)
    BY <2>1, ResetTurns
  <2>3. /\ Goes(product, b.a, r) /\ ~r.raised
        /\ Fit(product, b.a) /\ r.a.faults = b.a.faults => r.value.is = "PASS"
    BY <1>6, <2>2, SaidPasses
  <2>4. Tame(product, r.a) /\ r.a.faults >= b.a.faults /\ (r.raised = TRUE \/ r.raised = FALSE)
    BY <2>3 DEF Goes
  <2>5. /\ s.faults \in Nat /\ b.a.faults \in Nat /\ r.a.faults \in Nat
    BY <2>1, <2>4 DEF Tame, Wide
  <2>6. r.a.faults >= s.faults /\ (r.a.faults = s.faults => r.a.faults = b.a.faults)
    BY <2>1, <2>4, <2>5
  <2>7. Stage(2, s, answer) /\ r.a.faults = s.faults =>
           ~r.raised /\ Fit(product, r.a) /\ r.value.is \in {"PASS", "NOT_RUN", "UNSUPPORTED"}
    BY <1>4, <1>6, <2>3, <2>6 DEF Goes
  <2> QED BY <1>n, <2>4, <2>6, <2>7, ValidProceeds
<1> QED BY <1>3, <1>5, <1>6

LEMMA ValidationPlan ==
    ASSUME gate = "validation"
    PROVE  /\ Plan[1] = "import" /\ Plan[2] = "manifest" /\ Plan[3] = "reset"
           /\ Plan[4] = "ingest" /\ Plan[5] = "readiness" /\ Plan[6] = "retrieval"
           /\ Plan[7] = "deletion" /\ Plan[8] = "cleanup" /\ Plan[9] = "tracks"
  BY DEF Plan

LEMMA ValidationProceeds ==
    ASSUME Calm, gate = "validation", ~Suspect,
           setup.manifest \in {"PASS", "FAIL", "MISSING", "MISMATCH"}, NEW n \in 0 .. 8, NEW check, check = Plan[n + 1],
           NEW s, Tame(product, s), NEW r \in ValidationCheck(check, s)
    PROVE  Proceeds(check, n, s, r)
<1>p. product \in AllProducts /\ {Asked, Doomed} \in SUBSET Events
  BY CorpusAssumption DEF Calm
<1>f. s.faults >= s.faults /\ s \in Wide
  BY DEF Tame, Wide
<1>s. n \in 2 .. 6 => (Stage(n, s, answer) => Fit(product, s))
  BY DEF Stage, InUse
(* Those that go on from s and pass.                                       *)
<1>g. ASSUME n \in 3 .. 6, check \in {"ingest", "readiness", "retrieval", "deletion"},
             Goes(product, s, r),
             Fit(product, s) /\ r.a.faults = s.faults => r.value.is \in {"PASS", "UNSUPPORTED"}
      PROVE  Proceeds(check, n, s, r)
  <2>1. n \in 2 .. 6
    BY <1>g
  <2>2. Tame(product, r.a) /\ r.a.faults >= s.faults /\ (r.raised = TRUE \/ r.raised = FALSE)
    BY <1>g DEF Goes
  <2>3. Stage(n, s, answer) /\ r.a.faults = s.faults =>
           ~r.raised /\ Fit(product, r.a) /\ r.value.is \in {"PASS", "NOT_RUN", "UNSUPPORTED"}
    BY <1>s, <1>g, <2>1 DEF Goes
  <2> QED BY <1>g, <2>1, <2>2, <2>3, ValidProceeds
<1>0. CASE n = 0
  <2>1. check = "import"
    BY <1>0, ValidationPlan
  <2>2. PICK x \in SaidAfter(New(Apart(s)), "PASS") : r = Back(s, x)
    BY <2>1 DEF ValidationCheck, SaidAfter
  <2>3. /\ Apart(s) \in Wide /\ Bare(Apart(s)) /\ Tight(product, Apart(s))
    <3>1. Tight(product, Apart(s))
      BY DEF Apart, Blank, Tight
    <3> QED BY <1>f, <3>1, ApartBare
  <2>4. \A b \in New(Apart(s)) : Goes(product, Apart(s), b)
    BY <2>3, NewTurns
  <2>5. Goes(product, Apart(s), x) /\ (~x.raised => x.value.is = "PASS")
    <3>1. Clears(Apart(s), x, TRUE, x.a.listed, answer) /\ (~x.raised => x.value.is = "PASS")
      BY <2>4, SaidClears
    <3> QED BY <3>1 DEF Clears
  <2>6. Outcome(product, x)
    <3>1. Outs(New(Apart(s)))
      BY <1>p, <2>3, OutsFlawed
    <3> QED BY <3>1, OutsSaid DEF Outs
  <2>8. Goes(product, s, r) /\ (r.a.faults = s.faults => r.a = s)
    <3>1. /\ r.a = [s EXCEPT !.faults = x.a.faults]
          /\ r.raised = x.raised /\ r.value = x.value
      BY <2>2, <2>6, BackFields
    <3> QED BY <2>5, <3>1, Restored
  <2>9. r.raised = x.raised /\ r.value = x.value
    BY <2>2, BackKeeps
  <2>10. Goes(product, s, r)
    BY <2>8 DEF Clears
  <2>11. Stage(0, s, answer) => Fit(product, s) /\ Bare(s)
    BY DEF Stage, InUse
  <2>12. Fit(product, s) /\ Bare(s) => Stage(1, s, r.value.ids)
    BY DEF Stage, InUse
  <2>13. ~Measured(check) /\ ~EndsWith(check, "PASS")
    BY <2>1 DEF Measured, EndsWith
  <2> QED BY <1>0, <2>5, <2>8, <2>9, <2>10, <2>11, <2>12, <2>13 DEF Proceeds, Recording, Goes
<1>1. CASE n = 1
  <2>1. check = "manifest"
    BY <1>1, ValidationPlan
  <2>2. r \in Says(s, setup.manifest) /\ setup.manifest \in {"PASS", "FAIL", "MISSING"}
    <3>1. setup.manifest # "MISMATCH"
      BY DEF Suspect, Noted
    <3> QED BY <2>1, <3>1 DEF ValidationCheck
  <2>3. r.a = s /\ r.raised = FALSE /\ r.value.is \in {"PASS", "FAIL", "MISSING"}
    BY <2>2 DEF Says, Returned
  <2>4. Stage(1, s, answer) => Stage(2, s, r.value.ids)
    BY DEF Stage, InUse
  <2>5. ~Measured(check) /\ \A w : ~EndsWith(check, w)
    BY <2>1 DEF Measured, EndsWith
  <2> QED BY <1>f, <1>1, <2>3, <2>4, <2>5 DEF Proceeds, Recording
<1>2. CASE n = 2
  <2>1. check = "reset"
    BY <1>2, ValidationPlan
  <2>2. r \in ValidateReset(s)
    BY <2>1 DEF ValidationCheck
  <2> QED BY <1>2, <2>1, <2>2, ResetProceeds
<1>3. CASE n = 3
  <2>1. check = "ingest"
    BY <1>3, ValidationPlan
  <2>2. r \in OrCleanUp(s, Ingest(s, {Asked, Doomed}))
    BY <2>1 DEF ValidationCheck
  <2>3. \A x \in Ingest(s, {Asked, Doomed}) : Goes(product, s, x)
    BY <1>p, IngestTurns
  <2>4. Goes(product, s, r) /\ (Fit(product, s) /\ r.a.faults = s.faults => r.value.is = "PASS")
    BY <1>p, <2>2, <2>3, OrCleanUpGoes
  <2> QED BY <1>3, <1>g, <2>1, <2>4
<1>4. CASE n = 4
  <2>1. check = "readiness"
    BY <1>4, ValidationPlan
  <2>2. r \in Caught(SaidAfter(AwaitReadyOf(product, s), "PASS"), "WARN")
    BY <2>1 DEF ValidationCheck, SaidAfter
  <2>3. \A x \in AwaitReadyOf(product, s) : Goes(product, s, x)
    BY AwaitTurns
  <2>4. Goes(product, s, r) /\ (Fit(product, s) /\ r.a.faults = s.faults => r.value.is = "PASS")
    BY <2>2, <2>3, SaidPasses
  <2> QED BY <1>4, <1>g, <2>1, <2>4
<1>5. CASE n = 5
  <2>1. check = "retrieval"
    BY <1>5, ValidationPlan
  <2>2. r \in OrCleanUp(s, ThreeQueries(s))
    BY <2>1 DEF ValidationCheck
  <2>3. \A x \in ThreeQueries(s) : Goes(product, s, x)
    BY ThreeQueriesGo
  <2>4. Goes(product, s, r) /\ (Fit(product, s) /\ r.a.faults = s.faults => r.value.is = "PASS")
    BY <1>p, <2>2, <2>3, OrCleanUpGoes
  <2> QED BY <1>5, <1>g, <2>1, <2>4
<1>6. CASE n = 6
  <2>1. check = "deletion"
    BY <1>6, ValidationPlan
  <2>2. r \in ValidateDelete(s)
    BY <2>1 DEF ValidationCheck
  <2>3. CASE SupportsDelete
    <3>1. r \in Caught(SaidAfter(DeleteOf(product, s, Missing), "PASS"), "PASS")
      BY <2>2, <2>3 DEF ValidateDelete, SaidAfter
    <3>2. \A x \in DeleteOf(product, s, Missing) : Goes(product, s, x)
      BY <2>3, DeleteTurns
    <3>3. Goes(product, s, r) /\ (Fit(product, s) /\ r.a.faults = s.faults => r.value.is = "PASS")
      BY <3>1, <3>2, SaidPasses
    <3> QED BY <1>6, <1>g, <2>1, <3>3
  <2>4. CASE ~SupportsDelete
    <3>1. r \in Says(s, "UNSUPPORTED")
      BY <2>2, <2>4 DEF ValidateDelete
    <3>2. r.a = s /\ r.raised = FALSE /\ r.value.is = "UNSUPPORTED"
      BY <3>1 DEF Says, Returned
    <3>3. Goes(product, s, r)
      BY <1>f, <3>2 DEF Goes
    <3> QED BY <1>6, <1>g, <2>1, <3>2, <3>3
  <2> QED BY <2>3, <2>4
<1>7. CASE n = 7
  <2>1. check = "cleanup"
    BY <1>7, ValidationPlan
  <2>2. r \in Closing(s)
    BY <2>1 DEF ValidationCheck
  <2>3. /\ Tame(product, r.a) /\ r.a.faults = s.faults /\ r.raised = FALSE
        /\ r.value.is = "native"
    BY <2>2, ClosingEnds
  <2>4. Stage(8, r.a, r.value.ids)
    BY DEF Stage, InUse
  <2>5. ~Measured(check) /\ ~EndsWith(check, "native")
    BY <2>1 DEF Measured, EndsWith
  <2> QED BY <1>f, <1>7, <2>3, <2>4, <2>5 DEF Proceeds, Recording
<1>8. CASE n = 8
  <2>1. check = "tracks"
    BY <1>8, ValidationPlan
  <2>2. r \in Says(s, "PASS")
    BY <2>1 DEF ValidationCheck, Suspect, Noted
  <2>3. r.a = s /\ r.raised = FALSE /\ r.value.is = "PASS"
    BY <2>2 DEF Says, Returned
  <2>4. Stage(9, r.a, r.value.ids)
    BY DEF Stage, InUse
  <2>5. ~Measured(check) /\ ~EndsWith(check, "PASS")
    BY <2>1 DEF Measured, EndsWith
  <2> QED BY <1>f, <1>8, <2>3, <2>4, <2>5 DEF Proceeds, Recording
<1> QED BY <1>0, <1>1, <1>2, <1>3, <1>4, <1>5, <1>6, <1>7, <1>8

(* The checks of the supplement, whose provider is closed in any case.     *)
LEMMA FinallyClears ==
    ASSUME product \in AllProducts, NEW s, NEW P, NEW L,
           NEW F, \A x \in F : Clears(s, x, P, L, x.value.ids), NEW r \in OrFinally(F)
    PROVE  Clears(s, r, P, L, r.value.ids)
<1>1. PICK x \in F : r \in IF x.raised THEN {Refused(c.a) : c \in CleanupOf(product, x.a)} ELSE {x}
  BY DEF OrFinally
<1>2. Clears(s, x, P, L, x.value.ids)
  OBVIOUS
<1>3. CASE x.raised
  <2>1. PICK c \in CleanupOf(product, x.a) : r = Refused(c.a)
    BY <1>1, <1>3
  <2>2. Tame(product, c.a) /\ c.a.faults = x.a.faults
    BY <1>2, <2>1, CleanupGoes DEF Clears, Goes
  <2>3. r.a = c.a /\ r.raised = TRUE
    BY <2>1 DEF Refused
  <2> QED BY <1>2, <1>3, <2>2, <2>3 DEF Clears, Goes
<1>4. CASE ~x.raised
  BY <1>1, <1>2, <1>4
<1> QED BY <1>3, <1>4

LEMMA EmptyStartClears ==
    ASSUME Calm, product \notin Fixed, NEW s, Tame(product, s), NEW r \in EmptyAtStart(s)
    PROVE  Clears(s, r, s.listed = {}, s.listed, r.value.ids)
<1>1. SnapshotOf(product, s).events = s.listed
  BY SnapshotIs DEF Calm
<1>2. r.a = s /\ r.raised = FALSE /\ (s.listed = {} => r.value.is = "native")
  BY <1>1 DEF EmptyAtStart, Judge, Found, Returned
<1>3. s.faults >= s.faults
  BY DEF Tame, Wide
<1> QED BY <1>2, <1>3 DEF Clears, Goes

LEMMA ProbeEventsClears ==
    ASSUME Calm, product \notin Fixed, NEW s, Tame(product, s), NEW r \in ProbeEvents(s)
    PROVE  Clears(s, r, TRUE, Events, r.value.ids)
<1>1. \A b \in Ingest(s, Events) :
         Goes(product, s, b) /\ (~b.raised => b.a.listed = s.listed \cup Events)
  BY IngestTurns
<1>2. s.listed \cup Events = Events
  BY DEF Tame, Wide
<1>3. PICK b \in Ingest(s, Events) :
         \/ b.raised /\ r = b
         \/ ~b.raised /\ r \in SaidAfter(AwaitReadyOf(product, b.a), "native")
  BY DEF ProbeEvents, SaidAfter, Then, ThenWith
<1>4. CASE b.raised /\ r = b
  BY <1>1, <1>4 DEF Clears, Goes
<1>5. CASE ~b.raised /\ r \in SaidAfter(AwaitReadyOf(product, b.a), "native")
  <2>1. Goes(product, s, b) /\ Tame(product, b.a) /\ b.a.listed = Events
    BY <1>1, <1>2, <1>5 DEF Goes
  <2>2. \A c \in AwaitReadyOf(product, b.a) :
           Goes(product, b.a, c) /\ (~c.raised => c.a.listed = Events)
    BY <2>1, AwaitTurns
  <2>3. \A c \in AwaitReadyOf(product, b.a) : Goes(product, s, c)
    BY <1>5, <2>1, <2>2, GoesThen
  <2>4. Clears(s, r, TRUE, r.a.listed, answer)
    BY <1>5, <2>3, SaidClears
  <2>5. ~r.raised => r.a.listed = Events
    <3>1. PICK c \in AwaitReadyOf(product, b.a) :
             \/ c.raised /\ r = c
             \/ ~c.raised /\ r \in Says(c.a, "native")
      BY <1>5 DEF SaidAfter, Then, ThenWith
    <3> QED BY <2>2, <3>1 DEF Says, Returned
  <2> QED BY <2>4, <2>5 DEF Clears, Goes
<1> QED BY <1>3, <1>4, <1>5

LEMMA OwnCanaryClears ==
    ASSUME Calm, product \notin Fixed \cup Natives, NEW s, Tame(product, s),
           NEW r \in OwnCanary(s)
    PROVE  Clears(s, r, s.listed = Events, s.listed, r.value.ids)
<1>q. {current, unknown} \subseteq Queries /\ Asked \in Events \cap Visible[current]
  BY CorpusAssumption, QuestionsAssumption
<1>1. \A b \in Retrieve(s, current) :
         /\ Goes(product, s, b) /\ ~b.raised /\ b.a.listed = s.listed
         /\ Ready(product, s) => b.value = s.listed \cap Visible[current]
  BY <1>q, Asking
<1>2. PICK b \in Retrieve(s, current) :
         r \in Then(Retrieve(b.a, unknown), LAMBDA c : Then(Retrieve(c, unknown), LAMBDA d :
               Judge(d, Asked \in b.value)))
  BY <1>1 DEF OwnCanary, ThenWith
<1>3. Tame(product, b.a)
  BY <1>1 DEF Goes
<1>4. \A c \in Retrieve(b.a, unknown) :
         Goes(product, b.a, c) /\ ~c.raised /\ c.a.listed = s.listed /\ Tame(product, c.a)
  <2>1. \A c \in Retrieve(b.a, unknown) :
           Goes(product, b.a, c) /\ ~c.raised /\ c.a.listed = b.a.listed
    BY <1>3, <1>q, Asking
  <2>2. b.a.listed = s.listed
    BY <1>1
  <2> QED BY <2>1, <2>2 DEF Goes
<1>5. PICK c \in Retrieve(b.a, unknown) :
         r \in Then(Retrieve(c.a, unknown), LAMBDA d : Judge(d, Asked \in b.value))
  BY <1>2, <1>4 DEF Then, ThenWith
<1>6. \A d \in Retrieve(c.a, unknown) :
         Goes(product, c.a, d) /\ ~d.raised /\ d.a.listed = s.listed
  BY <1>4, <1>q, Asking
<1>7. PICK d \in Retrieve(c.a, unknown) : r \in Judge(d.a, Asked \in b.value)
  BY <1>5, <1>6 DEF Then, ThenWith
<1>8. Goes(product, b.a, d)
  BY <1>3, <1>4, <1>6, GoesThen
<1>9. Goes(product, s, d)
  BY <1>1, <1>8, GoesThen
<1>10. s.listed = Events /\ Fit(product, s) => Asked \in b.value
  BY <1>1, <1>q, FitReady
<1>11. r.value.ids = answer
  BY <1>7 DEF Judge, Found, Returned
<1>12. Clears(s, r, s.listed = Events, s.listed, answer)
  BY <1>6, <1>7, <1>9, <1>10, Ending DEF Judge
<1> QED BY <1>11, <1>12

LEMMA NoLeakClears ==
    ASSUME Calm, product \notin Fixed \cup Natives, NEW s, Tame(product, s),
           NEW z \in {Future, Other}, NEW r \in NoLeak(s, z)
    PROVE  Clears(s, r, TRUE, s.listed, r.value.ids)
<1>1. \A b \in Retrieve(s, current) :
         /\ Goes(product, s, b) /\ ~b.raised /\ b.a.listed = s.listed
         /\ Ready(product, s) => b.value = s.listed \cap Visible[current]
  BY CorpusAssumption, Asking
<1>2. PICK b \in Retrieve(s, current) : r \in Judge(b.a, z \notin b.value)
  BY <1>1 DEF NoLeak, ThenWith
<1>3. Fit(product, s) => z \notin b.value
  BY <1>1, FitReady, QuestionsAssumption
<1>4. r.a = b.a /\ r.raised = FALSE /\ (z \notin b.value => r.value.is = "native")
  BY <1>2 DEF Judge, Found, Returned
<1> QED BY <1>1, <1>2, <1>3, <1>4 DEF Clears, Goes

LEMMA SupplementPlan ==
    ASSUME gate = "supplement"
    PROVE  /\ Plan[1] = "network_egress" /\ Plan[2] = "compose_policy"
           /\ Plan[3] = "gold_inaccessibility" /\ Plan[4] = "no_memory_control"
           /\ Plan[5] = "oracle_control" /\ Plan[6] = "provider" /\ Plan[7] = "empty_at_start"
           /\ Plan[8] = "probe_events" /\ Plan[9] = "canary_isolation"
           /\ Plan[10] = "cross_user_isolation" /\ Plan[11] = "future_leakage"
           /\ Plan[12] = "query_mutation" /\ Plan[13] = "reader_statelessness"
           /\ Plan[14] = "cleanup"
  BY DEF Plan

(* The one provider of the supplement is empty up to the probe events, and *)
(* has all of them from there on.                                          *)
Fills(n, s, r) ==
    /\ Goes(product, s, r)
    /\ Stage(n, s, answer) /\ r.a.faults = s.faults =>
         /\ r.value.is # "failed"
         /\ r.a.listed = IF n <= 6 THEN {} ELSE Events

LEMMA FillsAdvances ==
    ASSUME gate = "supplement", NEW n \in 0 .. 12, NEW s, NEW r, Fills(n, s, r)
    PROVE  Advances(n, s, r)
<1>1. n \in Int /\ 0 <= n /\ n <= 12
  OBVIOUS
<1>2. Goes(product, s, r)
  BY DEF Fills
<1>3. ASSUME Stage(n, s, answer), r.a.faults = s.faults
      PROVE  ~r.raised /\ r.value.is # "failed" /\ Stage(n + 1, r.a, r.value.ids)
  <2>1. Fit(product, s)
    BY <1>1, <1>3 DEF Stage, InUse
  <2>2. ~r.raised /\ Fit(product, r.a)
    BY <1>2, <1>3, <2>1 DEF Goes
  <2>3. r.value.is # "failed" /\ r.a.listed = IF n <= 6 THEN {} ELSE Events
    BY <1>3 DEF Fills
  <2>4. (n + 1 <= 7 => r.a.listed = {}) /\ (n + 1 \in 8 .. 13 => r.a.listed = Events)
    BY <1>1, <2>3
  <2> QED BY <2>2, <2>3, <2>4 DEF Stage, InUse
<1> QED BY <1>2, <1>3 DEF Goes, Advances

LEMMA SupplementAdvances ==
    ASSUME Calm, product = "gbrain-ollama", gate = "supplement", ~Suspect,
           setup.reader \in {"offline", "abstains"},
           NEW n \in 0 .. 13, NEW check, check = Plan[n + 1],
           NEW s, Tame(product, s), NEW r \in SupplementCheck(check, s)
    PROVE  Advances(n, s, r)
<1>p. /\ product \in AllProducts /\ product \notin Fixed \cup Natives /\ product \notin Fixed
      /\ product # "mem0-native" /\ gate \in {"preflight", "supplement"}
  BY DEF Calm, Fixed, Natives
<1>f. s.faults >= s.faults /\ s \in Wide
  BY DEF Tame, Wide
<1>m. ~Measured(check)
  BY <1>p DEF Measured
<1>0. CASE n \in 0 .. 4 \cup {12}
  <2>1. check \in {"network_egress", "compose_policy", "gold_inaccessibility",
                   "no_memory_control", "oracle_control", "reader_statelessness"}
    BY <1>0, SupplementPlan
  <2>2. r \in PreflightCheck(check, s)
    BY <2>1 DEF SupplementCheck
  <2>3. Clears(s, r, ~Measured(check), s.listed, r.value.ids)
    BY <1>p, <2>1, <2>2, PreflightClears
  <2>4. n \in 0 .. 12 /\ (n <= 4 \/ n = 12) /\ n \in Int /\ 0 <= n
    BY <1>0
  <2>5. Fills(n, s, r)
    BY <1>m, <2>3, <2>4 DEF Clears, Fills, Stage, InUse
  <2> QED BY <2>4, <2>5, FillsAdvances
<1>5. CASE n = 5
  <2>1. r \in SaidAfter(New(Apart(s)), "native")
    BY <1>5, SupplementPlan DEF SupplementCheck, SaidAfter
  <2>2. /\ Apart(s) \in Wide /\ Bare(Apart(s)) /\ Apart(s).faults = s.faults
        /\ Fit(product, Apart(s))
    BY <1>f, ApartBare
  <2>3. \A b \in New(Apart(s)) :
           Goes(product, Apart(s), b) /\ (~b.raised => b.a.listed = {})
    BY <2>2, NewTurns
  <2>g. \A b \in New(Apart(s)) : Goes(product, Apart(s), b)
    BY <2>3
  <2>4. Clears(Apart(s), r, TRUE, r.a.listed, answer) /\ (~r.raised => r.value.is = "native")
    BY <2>1, <2>g, SaidClears
  <2>5. ~r.raised => r.a.listed = {}
    <3>1. PICK b \in New(Apart(s)) :
             \/ b.raised /\ r = b
             \/ ~b.raised /\ r \in Says(b.a, "native")
      BY <2>1 DEF SaidAfter, Then, ThenWith
    <3> QED BY <2>3, <3>1 DEF Says, Returned
  <2>6. Fit(product, r.a) /\ r.a.listed = {} => Stage(6, r.a, r.value.ids)
    BY DEF Stage, InUse
  <2> QED BY <1>5, <2>2, <2>4, <2>5, <2>6 DEF Clears, Goes, Advances
<1>6. CASE n = 6
  <2>1. r \in OrFinally(EmptyAtStart(s))
    BY <1>6, SupplementPlan DEF SupplementCheck
  <2>2. Clears(s, r, s.listed = {}, s.listed, r.value.ids)
    BY <1>p, <2>1, EmptyStartClears, FinallyClears
  <2>4. Fills(n, s, r)
    BY <1>6, <2>2 DEF Clears, Fills, Stage, InUse
  <2> QED BY <1>6, <2>4, FillsAdvances
<1>7. CASE n = 7
  <2>1. r \in OrFinally(ProbeEvents(s))
    BY <1>7, SupplementPlan DEF SupplementCheck
  <2>2. \A x \in ProbeEvents(s) : Clears(s, x, n = 7, Events, x.value.ids)
    BY <1>p, <1>7, ProbeEventsClears DEF Clears
  <2>3. Clears(s, r, n = 7, Events, r.value.ids)
    BY <1>p, <2>1, <2>2, FinallyClears
  <2>4. Fills(n, s, r)
    BY <1>7, <2>3 DEF Clears, Fills, Stage, InUse
  <2> QED BY <1>7, <2>4, FillsAdvances
<1>8. CASE n = 8
  <2>1. r \in OrFinally(OwnCanary(s))
    BY <1>8, SupplementPlan DEF SupplementCheck
  <2>2. Clears(s, r, s.listed = Events, s.listed, r.value.ids)
    BY <1>p, <2>1, OwnCanaryClears, FinallyClears
  <2>4. Fills(n, s, r)
    BY <1>8, <2>2 DEF Clears, Fills, Stage, InUse
  <2> QED BY <1>8, <2>4, FillsAdvances
<1>9. CASE n \in {9, 10}
  <2>1. PICK z \in {Future, Other} : r \in OrFinally(NoLeak(s, z))
    BY <1>9, SupplementPlan DEF SupplementCheck
  <2>2. \A x \in NoLeak(s, z) : Clears(s, x, n # 7, s.listed, x.value.ids)
    BY <1>p, <1>9, NoLeakClears DEF Clears
  <2>3. Clears(s, r, n # 7, s.listed, r.value.ids)
    BY <1>p, <2>1, <2>2, FinallyClears
  <2>4. Fills(n, s, r)
    BY <1>9, <2>3 DEF Clears, Fills, Stage, InUse
  <2> QED BY <1>9, <2>4, FillsAdvances
<1>11. CASE n = 11
  <2>1. r \in OrFinally(ReadOnlyRetrieval(s))
    BY <1>11, SupplementPlan DEF SupplementCheck
  <2>2. \A x \in ReadOnlyRetrieval(s) : Clears(s, x, n # 7, s.listed, x.value.ids)
    BY <1>f, <1>11, ReadOnlyClears DEF Clears
  <2>3. Clears(s, r, n # 7, s.listed, r.value.ids)
    BY <1>p, <2>1, <2>2, FinallyClears
  <2>4. Fills(n, s, r)
    BY <1>11, <2>3 DEF Clears, Fills, Stage, InUse
  <2> QED BY <1>11, <2>4, FillsAdvances
<1>13. CASE n = 13
  <2>1. r \in Closing(s)
    BY <1>13, SupplementPlan DEF SupplementCheck
  <2>2. /\ Tame(product, r.a) /\ r.a.faults = s.faults /\ r.raised = FALSE
        /\ r.value.is = "native"
    BY <2>1, ClosingEnds
  <2>3. Stage(14, r.a, r.value.ids)
    BY DEF Stage, InUse
  <2> QED BY <1>f, <1>13, <2>2, <2>3 DEF Advances
<1> QED BY <1>0, <1>5, <1>6, <1>7, <1>8, <1>9, <1>11, <1>13

-----------------------------------------------------------------------------
(* While nothing fails, a gate finds nothing against a sound adapter: it   *)
(* is at the stage that the checks done have brought it to, none of them   *)
(* failed, and the gate has not ended but by passing - or by the one       *)
(* refusal that is not about the adapter, a name registered already.       *)
Gentle == Suitable /\ ~Suspect /\ thorough /\ flaw = "none"

Spared ==
    a.faults = 0 =>
      /\ verdict \in {"running", "passed"} \/ (gate = "contract" /\ "unregistered" \notin DOMAIN results)
      /\ verdict = "running" => Failed = {} /\ Stage(Len(Plan) - Len(todo), a, answer)

SoundInv ==
    /\ setup \in Setups /\ (gate = "supplement" => product = "gbrain-ollama")
    /\ Gentle => Tame(product, a) /\ Spared

LEMMA PlanLength ==
    /\ gate = "contract" => Len(Plan) = 21
    /\ gate = "preflight" => Len(Plan) = 11
    /\ gate = "validation" => Len(Plan) = 9
    /\ gate = "supplement" => Len(Plan) = 14
<1>1. gate = "contract" => Len(Plan) = 21
  BY DEF Plan
<1>2. gate = "preflight" => Len(Plan) = 11
  BY DEF Plan
<1>3. gate = "validation" => Len(Plan) = 9
  BY DEF Plan
<1>4. gate = "supplement" => Len(Plan) = 14
  BY DEF Plan
<1> QED BY <1>1, <1>2, <1>3, <1>4

LEMMA CheckProceeds ==
    ASSUME product \in AllProducts, gate \in Gates, Gentle, setup \in Setups,
           gate = "supplement" => product = "gbrain-ollama",
           NEW n \in Nat, n < Len(Plan), NEW check, check = Plan[n + 1],
           gate = "contract" /\ check = "unregistered" => product \notin registry,
           NEW s, Tame(product, s), NEW r \in CheckOf(check, s)
    PROVE  Proceeds(check, n, s, r)
<1>1. Calm /\ ~Suspect
  BY DEF Gentle, Calm
<1>2. CASE gate = "contract"
  <2>1. product \notin Fixed \cup Natives
    BY <1>2 DEF Gentle, Suitable
  <2>2. n \in 0 .. 20
    <3>1. Len(Plan) = 21
      BY <1>2, PlanLength
    <3> QED BY <3>1
  <2>3. r \in ContractCheck(check, s)
    BY <1>2 DEF CheckOf
  <2>4. Advances(n, s, r)
    BY <1>1, <1>2, <2>1, <2>2, <2>3, ContractAdvances
  <2> QED BY <1>2, <2>4, AdvancesProceeds
<1>3. CASE gate = "preflight"
  <2>1. product # "mem0-native"
    BY <1>3 DEF Gentle, Suitable
  <2>2. setup.reader \in {"offline", "abstains"}
    BY <1>1, <1>3 DEF Setups, Suspect
  <2>5. product = "optmem-native" => setup.native
    BY <1>3 DEF Setups, Natives
  <2>3. n \in 0 .. 10
    <3>1. Len(Plan) = 11
      BY <1>3, PlanLength
    <3> QED BY <3>1
  <2>4. r \in PreflightCheck(check, s)
    BY <1>3 DEF CheckOf
  <2> QED BY <1>1, <1>3, <2>1, <2>2, <2>3, <2>4, <2>5, PreflightProceeds
<1>4. CASE gate = "validation"
  <2>1. setup.manifest \in {"PASS", "FAIL", "MISSING", "MISMATCH"}
    BY <1>4 DEF Setups
  <2>2. n \in 0 .. 8
    <3>1. Len(Plan) = 9
      BY <1>4, PlanLength
    <3> QED BY <3>1
  <2>3. r \in ValidationCheck(check, s)
    BY <1>4 DEF CheckOf
  <2> QED BY <1>1, <1>4, <2>1, <2>2, <2>3, ValidationProceeds
<1>5. CASE gate = "supplement"
  <2>1. setup.reader \in {"offline", "abstains"}
    BY <1>1, <1>5 DEF Setups, Suspect
  <2>2. n \in 0 .. 13
    <3>1. Len(Plan) = 14
      BY <1>5, PlanLength
    <3> QED BY <3>1
  <2>3. r \in SupplementCheck(check, s)
    BY <1>5 DEF CheckOf
  <2>4. Advances(n, s, r)
    BY <1>1, <1>5, <2>1, <2>2, <2>3, SupplementAdvances
  <2> QED BY <1>5, <2>4, AdvancesProceeds
<1> QED BY <1>2, <1>3, <1>4, <1>5 DEF Gates

LEMMA SoundInvInit == Init => SoundInv
<1> SUFFICES ASSUME Init PROVE SoundInv
  OBVIOUS
<1>1. /\ setup \in Setups /\ product \in ProductsOf(gate) /\ gate \in Gates
      /\ a = Blank /\ todo = Plan /\ results = << >> /\ verdict = "running"
  BY DEF Init
<1>2. gate = "supplement" => product = "gbrain-ollama"
  BY <1>1 DEF ProductsOf
<1>3. Blank \in Wide /\ Bare(Blank)
  BY DEF Blank, Wide, Homes, Bare
<1>4. Fit(product, Blank) /\ Tame(product, Blank)
  BY <1>3, BareFit DEF Fit
<1>5. Failed = {}
  BY <1>1 DEF Failed
<1>6. Len(Plan) - Len(todo) = 0
  <2>1. Len(Plan) \in Nat
    BY <1>1, PlanFacts
  <2> QED BY <1>1, <2>1
<1>7. Stage(0, Blank, answer)
  BY <1>3, <1>4 DEF Stage, InUse, Bare
<1>8. Spared
  BY <1>1, <1>5, <1>6, <1>7 DEF Spared
<1> QED BY <1>1, <1>2, <1>4, <1>8 DEF SoundInv

LEMMA GentleSame ==
    ASSUME UNCHANGED <<gate, product, flaw, thorough, setup>>
    PROVE  /\ Gentle' <=> Gentle
           /\ Setups' = Setups
           /\ \A n, s, ids : Stage(n, s, ids)' <=> Stage(n, s, ids)
<1>1. /\ gate' = gate /\ product' = product /\ flaw' = flaw /\ thorough' = thorough
      /\ setup' = setup
  OBVIOUS
<1>2. Gentle' <=> Gentle
  BY <1>1 DEF Gentle, Suitable, Suspect
<1>3. Setups' = Setups
  BY <1>1 DEF Setups
<1>4. \A n, s, ids : Stage(n, s, ids)' <=> Stage(n, s, ids)
  BY <1>1 DEF Stage, InUse
<1> QED BY <1>2, <1>3, <1>4

LEMMA StepIsSound ==
    ASSUME GateInv, SoundInv, Gentle, verdict = "running", todo # << >>,
           UNCHANGED <<gate, product, flaw, thorough, setup, registry>>,
           NEW c, c = Head(todo), NEW r \in CheckOf(c, a), a' = r.a,
           \/ /\ ~r.raised /\ answer' = r.value.ids /\ todo' = Tail(todo)
              /\ results' = Recorded(c, Recording(c, r))
              /\ verdict' = IF EndsWith(c, Recording(c, r)) THEN "failed" ELSE verdict
           \/ /\ r.raised
              /\ gate = "contract" /\ c = "unregistered" => results' = results /\ verdict' = "raised"
    PROVE  Tame(product, a') /\ Spared'
<1>1. /\ product \in AllProducts /\ gate \in Gates /\ setup \in Setups
      /\ gate = "supplement" => product = "gbrain-ollama"
      /\ Tame(product, a) /\ Spared
  BY DEF GateInv, SoundInv
<1>2. PICK n \in Nat : Done(n) /\ n < Len(Plan) /\ c = Plan[n + 1]
  BY NextCheck
<1>3. a.faults \in Nat
  BY <1>1 DEF Tame, Wide
<1>u. gate' = gate /\ product' = product /\ Plan' = Plan
  BY SamePlan
(* A name that is registered already.                                      *)
<1>4. CASE gate = "contract" /\ c = "unregistered" /\ product \in registry
  <2>1. r = Refused(a)
    BY <1>4 DEF CheckOf, ContractCheck
  <2>2. r.a = a /\ r.raised = TRUE
    BY <2>1 DEF Refused
  <2>3. "unregistered" \notin DOMAIN results
    BY <1>2, <1>4, NextOrder
  <2>4. results' = results /\ verdict' = "raised"
    BY <1>4, <2>2
  <2> QED BY <1>1, <1>4, <1>u, <2>2, <2>3, <2>4 DEF Spared
<1>5. CASE ~(gate = "contract" /\ c = "unregistered" /\ product \in registry)
  <2>1. Proceeds(c, n, a, r)
    BY <1>1, <1>2, <1>5, CheckProceeds
  <2>2. Tame(product, r.a) /\ r.a.faults >= a.faults /\ r.a.faults \in Nat
    BY <2>1 DEF Proceeds, Tame, Wide
  <2>3. ASSUME a'.faults = 0
        PROVE  /\ verdict' = "running" /\ Failed' = {}
               /\ Stage(Len(Plan) - Len(todo), a, answer)'
    <3>1. a.faults = 0 /\ r.a.faults = a.faults
      BY <1>3, <2>2, <2>3
    <3>2. Len(Plan) \in Nat /\ Len(todo) = Len(Plan) - n
      BY <1>1, <1>2, PlanFacts DEF Done
    <3>3. Failed = {} /\ Stage(n, a, answer)
      <4>1. Len(Plan) - Len(todo) = n
        BY <3>2
      <4> QED BY <1>1, <3>1, <4>1 DEF Spared
    <3>4. /\ ~r.raised /\ Stage(n + 1, r.a, r.value.ids)
          /\ Recording(c, r) # "failed" /\ ~EndsWith(c, Recording(c, r))
      BY <2>1, <3>1, <3>3 DEF Proceeds
    <3>5. PICK w : w = Recording(c, r)
      OBVIOUS
    <3>6. /\ answer' = r.value.ids /\ todo' = Tail(todo) /\ results' = Recorded(c, w)
          /\ verdict' = "running"
      BY <3>4, <3>5
    <3>7. Failed' = {}
      BY <3>3, <3>4, <3>5, <3>6 DEF Failed, Recorded
    <3>8. Len(Plan') - Len(todo') = n + 1
      <4>1. PICK S : todo \in Seq(S)
        BY DEF GateInv
      <4>2. Len(todo') = Len(todo) - 1
        BY <3>6, <4>1
      <4> QED BY <1>u, <1>2, <3>2, <4>2
    <3>9. Stage(Len(Plan) - Len(todo), a, answer)'
      BY <1>u, <3>4, <3>6, <3>8 DEF Stage, InUse
    <3> QED BY <3>6, <3>7, <3>9
  <2> QED BY <1>u, <2>2, <2>3 DEF Spared
<1> QED BY <1>4, <1>5

LEMMA SoundInvNext == GateInv /\ SoundInv /\ [Next]_vars => SoundInv'
<1> SUFFICES ASSUME GateInv, SoundInv, [Next]_vars PROVE SoundInv'
  OBVIOUS
<1>1. UNCHANGED <<gate, product, flaw, thorough, setup>>
  BY DEF Next, CheckReturns, CheckRaises, Conclude, vars
<1>2. (Gentle' <=> Gentle) /\ Setups' = Setups
  BY <1>1, GentleSame
<1>3. gate' = gate /\ product' = product /\ Plan' = Plan /\ setup' = setup
  BY <1>1, SamePlan
<1>4. ASSUME Gentle PROVE Tame(product, a') /\ Spared'
  <2>1. CASE CheckReturns
    <3>1. PICK c : c = Head(todo)
      OBVIOUS
    <3>2. PICK r \in CheckOf(c, a) :
             /\ ~r.raised /\ a' = r.a /\ answer' = r.value.ids
             /\ results' = Recorded(c, Recording(c, r))
             /\ verdict' = IF EndsWith(c, Recording(c, r)) THEN "failed" ELSE verdict
      BY <2>1, <3>1 DEF CheckReturns, Recording
    <3>3. /\ verdict = "running" /\ todo # << >> /\ todo' = Tail(todo)
          /\ UNCHANGED <<gate, product, flaw, thorough, setup, registry>>
      BY <2>1 DEF CheckReturns
    <3> QED BY <1>4, <3>1, <3>2, <3>3, StepIsSound
  <2>2. CASE CheckRaises
    <3>1. PICK c : c = Head(todo)
      OBVIOUS
    <3>2. PICK r \in CheckOf(c, a) : r.raised /\ a' = r.a
      BY <2>2, <3>1 DEF CheckRaises
    <3>3. /\ verdict = "running" /\ todo # << >>
          /\ UNCHANGED <<gate, product, flaw, thorough, setup, registry>>
      BY <2>2 DEF CheckRaises
    <3>4. gate = "contract" /\ c = "unregistered" => results' = results /\ verdict' = "raised"
      BY <2>2, <3>1 DEF CheckRaises, Unguarded
    <3> QED BY <1>4, <3>1, <3>2, <3>3, <3>4, StepIsSound
  <2>3. CASE Conclude
    <3>1. /\ a' = a /\ results' = results /\ verdict = "running"
          /\ verdict' = IF Failed = {} THEN "passed" ELSE "failed"
      BY <2>3 DEF Conclude
    <3>2. Tame(product, a) /\ Spared
      BY <1>4 DEF SoundInv
    <3> QED BY <3>1, <3>2 DEF Spared
  <2>4. CASE UNCHANGED vars
    <3>1. /\ a' = a /\ results' = results /\ verdict' = verdict /\ todo' = todo /\ answer' = answer
      BY <2>4 DEF vars
    <3>2. Tame(product, a) /\ Spared
      BY <1>4 DEF SoundInv
    <3>3. Failed' = Failed
      BY <3>1 DEF Failed
    <3>4. Stage(Len(Plan) - Len(todo), a, answer)' <=> Stage(Len(Plan) - Len(todo), a, answer)
      BY <1>3, <3>1 DEF Stage, InUse
    <3> QED BY <1>3, <3>1, <3>2, <3>3, <3>4 DEF Spared
  <2> QED BY <2>1, <2>2, <2>3, <2>4 DEF Next
<1> QED BY <1>2, <1>3, <1>4 DEF SoundInv

(* A gate turns no sound adapter away: one without a flaw, whose search    *)
(* finds all it can, passes the gate in clean surroundings - a private     *)
(* mount in the compose file counts as clean - if none of the              *)
(* product's calls fails on the way - every check of the contract, of the  *)
(* two preflights and of the validation finds in order what the adapter    *)
(* does in the state the checks before it have left.  Left out are a name  *)
(* registered already, and the products whose answers cannot be judged.    *)
THEOREM GatesPassSound == Spec => []SoundPass
<1>1. Init => GateInv /\ SoundInv
  BY GateInvInit, SoundInvInit
<1>2. GateInv /\ SoundInv /\ [Next]_vars => GateInv' /\ SoundInv'
  BY GateInvNext, SoundInvNext
<1>3. GateInv /\ SoundInv => SoundPass
  BY DEF SoundInv, Gentle, Spared, SoundPass, Ended
<1> QED BY <1>1, <1>2, <1>3, PTL DEF Spec
=============================================================================
