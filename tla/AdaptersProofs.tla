---------------------------- MODULE AdaptersProofs ----------------------------
(* What the operations of the adapters do, product by product, to the      *)
(* parts of the state the properties of ProviderAdapters speak of.         *)
EXTENDS Adapters, FiniteSetTheorems, TLAPS

-----------------------------------------------------------------------------
(* States without the two bounds, which the operations never leave.        *)
Wide ==
    [listed : SUBSET Events, store : SUBSET Memories, keys : SUBSET Memories,
     pages : SUBSET Events, head : SUBSET Events, home : Homes,
     trash : BOOLEAN, open : BOOLEAN, made : Nat, faults : Nat]

Of(S) == {m[1] : m \in S}    \* the events of a set of memories

LEMMA WithinBounds ==
    \A s : s \in AdapterStates <=> s \in Wide /\ Within(s)
<1>1. \A s : s \in AdapterStates => s \in Wide /\ Within(s)
  BY AdapterAssumption DEF AdapterStates, Wide, Within
<1>2. ASSUME NEW s \in Wide, Within(s) PROVE s \in AdapterStates
  <2>1. s.made \in 0 .. MaxIds /\ s.faults \in 0 .. MaxFaults
    BY <1>2, AdapterAssumption DEF Wide, Within
  <2> QED BY <2>1 DEF AdapterStates, Wide
<1> QED BY <1>1, <1>2

(* An outcome that raises met a failure of the product.                    *)
LEMMA Faulted ==
    ASSUME NEW s \in Wide
    PROVE  LET f == [s EXCEPT !.faults = @ + 1]
           IN  /\ f \in Wide /\ f.faults = s.faults + 1
               /\ f.faults >= s.faults /\ f.faults # s.faults
<1>1. s.faults \in Nat /\ s.faults + 1 \in Nat /\ s.faults + 1 > s.faults
  BY DEF Wide
<1>2. [s EXCEPT !.faults = @ + 1].faults = s.faults + 1
  BY DEF Wide
<1>3. [s EXCEPT !.faults = @ + 1] \in Wide
  BY <1>1 DEF Wide
<1> QED BY <1>1, <1>2, <1>3

-----------------------------------------------------------------------------
(* What holds of a product's state between the calls.                      *)
Storeless == Lists \cup Fixed \cup {"bm25-pure"}
Single == GBrains \cup {"hindsight", "bm25-sqlite-fts"}   \* one memory of an event

Shaped(p, s) ==
    /\ p \in Storeless => s.store = {}
    /\ p \in Single => s.store \subseteq Events \X {0}
    /\ p \in OptMems => IsFiniteSet(s.store)

Tidy(p, s) ==
    /\ p = "bm25-sqlite-fts" => Of(s.store) \subseteq s.listed
    /\ p \in GBrains => s.listed \subseteq s.pages

Unopened(p, s) == p \in Mem0s /\ ~s.open => s.listed = {}

Intact(p, s) ==
    /\ p = "bm25-sqlite-fts" => Of(s.store) = s.listed
    /\ p \in GBrains => s.home # "partial"

Shut(p, s) == p = "mem0-native" /\ ~s.open => s.store = {}

Keyed(p, s) ==
    /\ p = "mem0" => s.listed \subseteq Of(s.keys)
    /\ p = "mem0-native" => s.store = s.keys

Agree(p, s) ==
    /\ p \in GBrains => s.home # "unsourced"
    /\ Of(s.store) \subseteq s.listed
    /\ p \in Exporting \ {"mem0-native"} => Of(s.store) = s.listed
    /\ p \in Mem0s => s.keys = s.store
    /\ p \in GBrains => s.pages = s.head /\ s.head = Of(s.store)

(* The events a deletion takes an event from, and an answer is taken from. *)
Held(p, s) == IF p \in {"mem0-native", "bm25-sqlite-fts"} THEN Of(s.store) ELSE s.listed

Sound(s, r) == r.a \in Wide /\ r.a.faults >= s.faults /\ (r.raised = TRUE \/ r.raised = FALSE)

(* What every operation on an object preserves.                            *)
Kept(p, s, r) ==
    /\ Sound(s, r)
    /\ Shaped(p, s) => Shaped(p, r.a)
    /\ ~r.raised /\ Tidy(p, s) => Tidy(p, r.a)
    /\ ~r.raised /\ Unopened(p, s) => Unopened(p, r.a)
    /\ ~r.raised /\ Intact(p, s) => Intact(p, r.a)
    /\ ~r.raised /\ r.a.faults = s.faults /\ Shut(p, s) => Shut(p, r.a)
    /\ ~r.raised /\ r.a.faults = s.faults /\ Shut(p, s) /\ Keyed(p, s) => Keyed(p, r.a)
    /\ r.a.faults = s.faults /\ Shaped(p, s) /\ Unopened(p, s) /\ Agree(p, s) => Agree(p, r.a)

(* What an operation that leaves the memories alone does,                  *)
Unmoved(p, s, r) ==
    /\ Kept(p, s, r)
    /\ r.raised => r.a.faults # s.faults
    /\ ~r.raised => r.a.listed = s.listed /\ r.a.store = s.store

(* the construction of an object,                                          *)
Built(p, s, r) ==
    /\ Sound(s, r)
    /\ Shaped(p, s) => Shaped(p, r.a)
    /\ r.raised /\ ~(p = "gbrain-ollama" /\ s.home = "partial") => r.a.faults # s.faults
    /\ ~r.raised => r.a.listed = {} /\ Tidy(p, r.a) /\ Intact(p, r.a)
    /\ p = "mem0" => Keyed(p, r.a)
    /\ p = "mem0-native" /\ s.store = {} => Shut(p, r.a) /\ Keyed(p, r.a)

(* the deletion of an event,                                               *)
Deleted(p, s, e, r) ==
    /\ Kept(p, s, r)
    /\ r.raised /\ p \notin OptMems => r.a.faults # s.faults
    /\ ~r.raised =>
          /\ \/ r.value = FALSE /\ (Tidy(p, s) => r.a.listed = s.listed)
             \/ r.value = TRUE /\ r.a.listed = s.listed \ {e}
          /\ Keyed(p, s) /\ (p \in Mem0s => r.a.faults = s.faults) =>
                Held(p, r.a) \subseteq Held(p, s) \ {e}

(* a reset,                                                                *)
Emptied(p, s, r) ==
    /\ Kept(p, s, r)
    /\ r.raised => r.a.faults # s.faults
    /\ ~r.raised => r.a.listed = {}
    /\ ~r.raised /\ r.a.faults = s.faults /\ Shaped(p, s) /\ (p \in Mem0s => s.open) =>
          Agree(p, r.a)

(* an ingest of batch,                                                     *)
Filled(p, s, batch, r) ==
    /\ Kept(p, s, r)
    /\ r.raised /\ (p \in OptMems => batch \cap TooLong = {}) => r.a.faults # s.faults
    /\ ~r.raised /\ p \notin Fixed => r.a.listed = s.listed \cup batch
    /\ ~r.raised /\ (p \in Mem0s => r.a.faults = s.faults) =>
          Held(p, r.a) \subseteq Held(p, s) \cup batch

(* a reset followed by an ingest of the events ev: restore,                *)
Refilled(p, s, ev, r) ==
    /\ Kept(p, s, r)
    /\ ~r.raised /\ p \notin Fixed => r.a.listed = ev

(* the clean-up at the end of an attempt,                                  *)
Closed(p, s, r) ==
    /\ r.a \in Wide /\ r.a.faults = s.faults /\ r.a.listed = s.listed
    /\ r.a.store = s.store /\ r.a.keys = s.keys /\ r.a.pages = s.pages /\ r.a.head = s.head
    /\ r.a.home = s.home

(* and import_data, which may replace the keys.                            *)
Imported(p, s, data, r) ==
    /\ Sound(s, r)
    /\ Shaped(p, s) => Shaped(p, r.a)
    /\ ~r.raised => r.a.listed = data.events
    /\ ~r.raised /\ Tidy(p, s) => Tidy(p, r.a)
    /\ ~r.raised /\ Unopened(p, s) => Unopened(p, r.a)
    /\ ~r.raised /\ r.a.faults = s.faults /\ Shut(p, s) => Shut(p, r.a)
    /\ /\ ~r.raised /\ p = "mem0" /\ r.a.faults = s.faults /\ Keyed(p, s)
       /\ data.keys # {} => data.events \subseteq Of(data.keys)
       => Keyed(p, r.a)

LEMMA OfUnion ==
    /\ \A S, T : Of(S \cup T) = Of(S) \cup Of(T)
    /\ Of({}) = {}
  BY DEF Of

LEMMA OfSingle ==
    ASSUME NEW S
    PROVE  Of(S \X {0}) = S
<1>1. \A e \in S : <<e, 0>> \in S \X {0} /\ <<e, 0>>[1] = e
  OBVIOUS
<1>2. \A m \in S \X {0} : m[1] \in S
  OBVIOUS
<1>3. Of(S \X {0}) \subseteq S
  BY <1>2 DEF Of
<1>4. S \subseteq Of(S \X {0})
  BY <1>1 DEF Of
<1> QED BY <1>3, <1>4

LEMMA OfWithout ==
    ASSUME NEW S, S \subseteq Events \X {0}, NEW e
    PROVE  Of(S \ ({e} \X {0})) = Of(S) \ {e}
<1>1. \A m \in S : (m \in {e} \X {0}) <=> m[1] = e
  OBVIOUS
<1> QED BY <1>1 DEF Of

LEMMA KeptThen ==
    ASSUME NEW p, NEW s \in Wide, NEW f, NEW r, Kept(p, s, f), ~f.raised, Kept(p, f.a, r)
    PROVE  Kept(p, s, r)
<1>1. Sound(s, f) /\ Sound(f.a, r)
  BY DEF Kept
<1>2. Sound(s, r) /\ (r.a.faults = s.faults => f.a.faults = s.faults /\ r.a.faults = f.a.faults)
  <2>1. s.faults \in Nat /\ f.a.faults \in Nat /\ r.a.faults \in Nat
    BY <1>1 DEF Sound, Wide
  <2> QED BY <1>1, <2>1 DEF Sound
<1> QED BY <1>2 DEF Kept

(* An outcome that raised met a failure, and left the store in its shape.  *)
LEMMA RaisedKept ==
    ASSUME NEW p, NEW s \in Wide, NEW r, r.raised = TRUE, Sound(s, r),
           r.a.faults # s.faults, Shaped(p, s) => Shaped(p, r.a)
    PROVE  Kept(p, s, r)
  BY DEF Kept

LEMMA RaisedAfter ==
    ASSUME NEW p, NEW s \in Wide, NEW w \in Wide, w.faults = s.faults,
           Shaped(p, s) => Shaped(p, w),
           NEW r, r.raised = TRUE, r.a = [w EXCEPT !.faults = @ + 1]
    PROVE  Kept(p, s, r) /\ r.a.faults # s.faults
<1>1. r.a \in Wide /\ r.a.faults >= s.faults /\ r.a.faults # s.faults
  BY Faulted
<1>2. r.a.store = w.store
  BY DEF Wide
<1>3. Sound(s, r) /\ (Shaped(p, s) => Shaped(p, r.a))
  BY <1>1, <1>2 DEF Sound, Shaped
<1> QED BY <1>1, <1>3, RaisedKept

(* Without the open Memory and the keys of Mem0 there is less to keep.     *)
LEMMA KeptWithout ==
    ASSUME NEW p, p \notin Mem0s, NEW s, NEW r, Sound(s, r), Shaped(p, s) => Shaped(p, r.a),
           ~r.raised /\ Tidy(p, s) => Tidy(p, r.a),
           ~r.raised /\ Intact(p, s) => Intact(p, r.a),
           r.a.faults = s.faults /\ Shaped(p, s) /\ Agree(p, s) => Agree(p, r.a)
    PROVE  Kept(p, s, r)
  BY DEF Kept, Unopened, Shut, Keyed, Mem0s

LEMMA SameKept ==
    ASSUME NEW p, NEW s \in Wide, NEW r, r.a = s, r.raised = TRUE \/ r.raised = FALSE
    PROVE  Kept(p, s, r)
<1>1. s.faults >= s.faults
  BY DEF Wide
<1> QED BY <1>1 DEF Kept, Sound

LEMMA RefilledThen ==
    ASSUME NEW p \in AllProducts \ Fixed, NEW s \in Wide, NEW ev,
           NEW f, Emptied(p, s, f), ~f.raised, NEW r, Filled(p, f.a, ev, r)
    PROVE  Refilled(p, s, ev, r)
<1>1. Kept(p, s, f) /\ f.a.listed = {} /\ Kept(p, f.a, r)
  BY DEF Emptied, Filled
<1>2. Kept(p, s, r)
  BY <1>1, KeptThen
<1>3. ~r.raised => r.a.listed = ev
  BY <1>1 DEF Filled
<1> QED BY <1>2, <1>3 DEF Refilled

(* Without keys an import is a restore.                                    *)
LEMMA RefilledImported ==
    ASSUME NEW p \in Exporting \ Mem0s, NEW s, NEW data, NEW r, Refilled(p, s, data.events, r)
    PROVE  Imported(p, s, data, r)
  BY DEF Refilled, Imported, Kept, Unopened, Shut, Keyed, Mem0s, Fixed, Exporting, GBrains, OptMems

-----------------------------------------------------------------------------
(* Mem0.                                                                   *)
LEMMA Mem0Adds ==
    ASSUME NEW infer \in BOOLEAN, NEW add \in Mem0!Adds(infer)
    PROVE  /\ add.left \in Nat /\ add.kept \in Nat /\ add.faults \in Nat
           /\ add.faults = 0 => add.left = 0 /\ (~infer => add.kept = 1)
<1> DEFINE kept == IF infer THEN {0, 2} ELSE {1}
<1>0. kept \subseteq Nat /\ (~infer => kept = {1})
  OBVIOUS
<1>1. \/ add \in [left : {0}, kept : kept, answered : {TRUE}, faults : {0}]
      \/ add \in [left : 0 .. 1, kept : kept, answered : {TRUE}, faults : {1}]
      \/ add \in [left : 0 .. 1, kept : {0}, answered : {FALSE}, faults : {2}]
  BY DEF Mem0!Adds
<1> HIDE DEF kept
<1>2. CASE add \in [left : {0}, kept : kept, answered : {TRUE}, faults : {0}]
  <2>1. add.left \in {0} /\ add.kept \in kept /\ add.faults \in {0}
    BY <1>2
  <2>2. add.kept \in Nat /\ (~infer => add.kept = 1)
    BY <1>0, <2>1
  <2> QED BY <2>1, <2>2
<1>3. CASE add \in [left : 0 .. 1, kept : kept, answered : {TRUE}, faults : {1}]
  <2>1. add.left \in 0 .. 1 /\ add.kept \in kept /\ add.faults \in {1}
    BY <1>3
  <2>2. add.kept \in Nat /\ (~infer => add.kept = 1)
    BY <1>0, <2>1
  <2> QED BY <2>1, <2>2
<1>4. CASE add \in [left : 0 .. 1, kept : {0}, answered : {FALSE}, faults : {2}]
  BY <1>4
<1> QED BY <1>1, <1>2, <1>3, <1>4

LEMMA Mem0Plain ==
    ASSUME NEW s \in Wide, NEW S \in SUBSET Events
    PROVE  Mem0!Plain(s, S) \in SUBSET Memories /\ Of(Mem0!Plain(s, S)) = S
<1> DEFINE n == s.made + 1
<1>1. n \in Nat
  BY DEF Wide
<1>2. Mem0!Plain(s, S) = {<<e, n>> : e \in S}
  BY DEF Mem0!Plain
<1> HIDE DEF n
<1>3. \A e \in S : e \in Of(Mem0!Plain(s, S))
  <2> SUFFICES ASSUME NEW e \in S PROVE e \in Of(Mem0!Plain(s, S))
    OBVIOUS
  <2>1. <<e, n>>[1] = e /\ <<e, n>> \in Mem0!Plain(s, S)
    BY <1>2
  <2> QED BY <2>1 DEF Of
<1>4. \A m \in Mem0!Plain(s, S) : m[1] \in S /\ m \in Memories
  BY <1>1, <1>2 DEF Memories
<1> QED BY <1>3, <1>4 DEF Of

LEMMA Mem0Added ==
    \A s \in Wide : \A S, K :
       S \subseteq Memories /\ K \subseteq Memories =>
       LET w == Mem0!Added(s, S, K)
       IN  /\ w \in Wide /\ w.listed = s.listed /\ w.store = s.store \cup S
           /\ w.keys = s.keys \cup K /\ w.open = TRUE /\ w.faults = s.faults
<1> TAKE s \in Wide
<1> TAKE S, K
<1> HAVE S \subseteq Memories /\ K \subseteq Memories
<1>1. s.made + 3 \in Nat
  BY DEF Wide
<1>2. Mem0!Added(s, S, K) \in Wide
  BY <1>1 DEF Wide, Mem0!Added, Mem0!Opened
<1> QED BY <1>2 DEF Wide, Mem0!Added, Mem0!Opened

(* The state w after a batch was sent from s.                              *)
AfterSending(s, fresh, infer, w) ==
    /\ w \in Wide /\ w.faults >= s.faults
    /\ w.listed = s.listed \cup fresh /\ w.open = TRUE
    /\ w.faults = s.faults =>
          \E K \in SUBSET Memories :
             /\ w.keys = s.keys \cup K /\ w.store = s.store \cup K
             /\ Of(K) \subseteq fresh /\ (~infer => Of(K) = fresh)

LEMMA Mem0Sent ==
    ASSUME NEW s \in Wide, NEW fresh, fresh \subseteq Events, NEW e \in fresh,
           NEW infer \in BOOLEAN, NEW add \in Mem0!Adds(infer)
    PROVE  AfterSending(s, fresh, infer, Mem0!Sent(s, fresh, e, add))
<1> DEFINE others == Mem0!Plain(s, fresh \ {e})
           first == Mem0!Numbered(s, e, 1 .. (add.left + add.kept))
           second == Mem0!Numbered(s, e, (add.left + 1) .. (add.left + add.kept))
           v == Mem0!Added(s, others \cup first, others \cup second)
           w == [v EXCEPT !.listed = @ \cup fresh, !.faults = @ + add.faults]
<1>1. /\ add.left \in Nat /\ add.kept \in Nat /\ add.faults \in Nat
      /\ add.faults = 0 => add.left = 0 /\ (~infer => add.kept = 1)
  BY Mem0Adds
<1>2. Mem0!Sent(s, fresh, e, add) = w
  BY DEF Mem0!Sent
<1>3. \A I \in SUBSET Nat : /\ Mem0!Numbered(s, e, I) \in SUBSET Memories
                           /\ Of(Mem0!Numbered(s, e, I)) \subseteq {e}
  <2> SUFFICES ASSUME NEW I \in SUBSET Nat
               PROVE  \A m \in Mem0!Numbered(s, e, I) : m \in Memories /\ m[1] = e
    BY DEF Of
  <2>1. \A i \in I : s.made + i \in Nat
    BY DEF Wide
  <2> QED BY <2>1 DEF Memories, Mem0!Numbered
<1>4. first \in SUBSET Memories /\ second \in SUBSET Memories /\ Of(second) \subseteq {e}
  BY <1>1, <1>3
<1>5. others \in SUBSET Memories /\ Of(others) = fresh \ {e}
  BY Mem0Plain
<1>6. /\ v \in Wide /\ v.listed = s.listed /\ v.store = s.store \cup (others \cup first)
      /\ v.keys = s.keys \cup (others \cup second) /\ v.open = TRUE /\ v.faults = s.faults
  <2> DEFINE S == others \cup first
             K == others \cup second
  <2>1. S \subseteq Memories /\ K \subseteq Memories
    BY <1>4, <1>5
  <2>2. v = Mem0!Added(s, S, K)
    OBVIOUS
  <2> HIDE DEF S, K, v
  <2>3. /\ v \in Wide /\ v.listed = s.listed /\ v.store = s.store \cup S
        /\ v.keys = s.keys \cup K /\ v.open = TRUE /\ v.faults = s.faults
    BY <2>1, <2>2, Mem0Added
  <2> QED BY <2>3 DEF S, K
<1> HIDE DEF v, others, first, second
<1>7. /\ w \in Wide /\ w.listed = s.listed \cup fresh /\ w.open = TRUE
      /\ w.faults = s.faults + add.faults
      /\ w.store = s.store \cup (others \cup first)
      /\ w.keys = s.keys \cup (others \cup second)
  <2>1. v.faults + add.faults \in Nat /\ v.listed \cup fresh \in SUBSET Events
    BY <1>1, <1>6 DEF Wide
  <2>2. w \in Wide
    BY <1>6, <2>1 DEF Wide
  <2> QED BY <1>6, <2>2 DEF Wide
<1> HIDE DEF w
<1>8. ASSUME w.faults = s.faults
      PROVE  /\ first = second /\ Of(others \cup second) \subseteq fresh
             /\ ~infer => Of(others \cup second) = fresh
  <2>1. add.left = 0 /\ (~infer => add.kept = 1)
    <3>1. s.faults \in Nat
      BY DEF Wide
    <3> QED BY <1>1, <1>7, <1>8, <3>1
  <2>2. first = second
    BY <2>1 DEF first, second
  <2>3. ~infer => e \in Of(second)
    <3>1. ~infer => <<e, s.made + 1>> \in second
      BY <2>1 DEF second, Mem0!Numbered
    <3>2. <<e, s.made + 1>>[1] = e
      OBVIOUS
    <3> QED BY <3>1, <3>2 DEF Of
  <2>4. Of(others \cup second) = Of(others) \cup Of(second)
    BY DEF Of
  <2> QED BY <1>4, <1>5, <2>2, <2>3, <2>4
<1> DEFINE K == others \cup second
<1>9. K \in SUBSET Memories
  BY <1>4, <1>5
<1>10. w.faults >= s.faults
  <2>1. s.faults \in Nat
    BY DEF Wide
  <2> QED BY <1>1, <1>7, <2>1
<1> HIDE DEF K
<1>11. w.faults = s.faults =>
          /\ w.keys = s.keys \cup K /\ w.store = s.store \cup K
          /\ Of(K) \subseteq fresh /\ (~infer => Of(K) = fresh)
  BY <1>7, <1>8 DEF K
<1> QED BY <1>2, <1>7, <1>9, <1>10, <1>11 DEF AfterSending

LEMMA Mem0Products ==
    ASSUME NEW p \in Mem0s
    PROVE  /\ p \notin Storeless /\ p \notin Single /\ p \notin GBrains /\ p \notin Fixed
           /\ p # "bm25-sqlite-fts" /\ p \in Exporting /\ p \notin OptMems
           /\ p = "mem0-native" <=> p # "mem0"
           /\ \A s : Intact(p, s)
  BY DEF Mem0s, Storeless, Single, GBrains, Lists, Fixed, Exporting, OptMems, Intact

(* A reset that returns empties the lists; only one of an open Memory, if  *)
(* nothing fails, empties the store.                                       *)
LEMMA Mem0Reset ==
    \A p \in Mem0s : \A s \in Wide : \A r \in Mem0!Reset(s) :
        /\ Kept(p, s, r) /\ (r.raised => r.a.faults # s.faults)
        /\ ~r.raised => r.a.listed = {} /\ r.a.keys = {} /\ r.a.open = FALSE
        /\ ~r.raised /\ s.open /\ r.a.faults = s.faults => r.a.store = {}
        /\ ~s.open => r.a.store = s.store
        /\ s.listed = {} /\ s.keys = {} => r.a.listed = {} /\ r.a.keys = {}
<1> TAKE p \in Mem0s
<1> TAKE s \in Wide
<1> TAKE r \in Mem0!Reset(s)
<1> DEFINE closed(b) == [b EXCEPT !.open = FALSE]
           emptied(b) == [b EXCEPT !.listed = {}, !.keys = {}, !.open = FALSE]
           asked == IF s.open THEN {[s EXCEPT !.store = {}], Mem0!Failing(s)} ELSE {s}
<1>0. s.faults \in Nat /\ s.faults + 1 \in Nat /\ s.faults + 1 > s.faults
  BY DEF Wide
<1>1. \A b \in asked :
         /\ b \in Wide /\ b.faults >= s.faults /\ b.listed = s.listed /\ b.keys = s.keys
         /\ s.open /\ b.faults = s.faults => b.store = {}
         /\ ~s.open => b.store = s.store
  BY <1>0 DEF Mem0!Failing, Wide
<1>2. \E b \in asked : \/ r = Mem0!Returned(emptied(b), {})
                       \/ r = Mem0!RaisedFrom(closed(b))
                       \/ r = Mem0!RaisedFrom(emptied(b))
  BY DEF Mem0!Reset
<1> HIDE DEF asked
<1>3. PICK b \in asked : \/ r = Mem0!Returned(emptied(b), {})
                        \/ r = Mem0!RaisedFrom(closed(b))
                        \/ r = Mem0!RaisedFrom(emptied(b))
  BY <1>2
<1>4. b \in Wide /\ b.faults \in Nat
  BY <1>1 DEF Wide
<1>5. /\ emptied(b) \in Wide /\ emptied(b).listed = {} /\ emptied(b).keys = {}
      /\ emptied(b).open = FALSE /\ emptied(b).faults = b.faults
      /\ emptied(b).store = b.store
  BY <1>4 DEF Wide
<1>6. /\ closed(b) \in Wide /\ closed(b).listed = b.listed /\ closed(b).keys = b.keys
      /\ closed(b).faults = b.faults /\ closed(b).store = b.store
  BY <1>4 DEF Wide
<1> HIDE DEF emptied, closed
<1>7. CASE r = Mem0!Returned(emptied(b), {})
  <2>1. r.a = emptied(b) /\ r.raised = FALSE
    BY <1>7 DEF Mem0!Returned
  <2>2. /\ Sound(s, r) /\ r.a.listed = {} /\ r.a.keys = {} /\ r.a.open = FALSE
        /\ s.open /\ r.a.faults = s.faults => r.a.store = {}
        /\ ~s.open => r.a.store = s.store
    BY <1>1, <1>5, <2>1 DEF Sound
  <2>3. ~s.open /\ Unopened(p, s) /\ Agree(p, s) => s.store = {}
    BY DEF Unopened, Agree, Of
  <2>4. /\ Shaped(p, r.a) /\ Tidy(p, r.a) /\ Unopened(p, r.a)
        /\ r.a.store = {} => Agree(p, r.a)
    BY <2>2, OfUnion, Mem0Products DEF Shaped, Tidy, Unopened, Agree
  <2>5. r.a.faults = s.faults /\ Shut(p, s) => Shut(p, r.a) /\ Keyed(p, r.a)
    BY <2>2, Mem0Products DEF Shut, Keyed
  <2> QED BY <2>1, <2>2, <2>3, <2>4, <2>5, Mem0Products DEF Kept
<1>8. ASSUME NEW w \in {closed(b), emptied(b)}, r = Mem0!RaisedFrom(w)
      PROVE  /\ Kept(p, s, r) /\ r.raised = TRUE /\ r.a.faults # s.faults
             /\ ~s.open => r.a.store = s.store
             /\ s.listed = {} /\ s.keys = {} => r.a.listed = {} /\ r.a.keys = {}
  <2>1. /\ w \in Wide /\ w.faults = b.faults /\ w.store = b.store
        /\ s.listed = {} /\ s.keys = {} => w.listed = {} /\ w.keys = {}
    BY <1>1, <1>5, <1>6
  <2>2. r.raised = TRUE /\ r.a = [w EXCEPT !.faults = @ + 1]
    BY <1>8 DEF Mem0!RaisedFrom, Mem0!Refused, Mem0!Failing
  <2>3. /\ r.a \in Wide /\ r.a.faults = w.faults + 1
        /\ r.a.store = w.store /\ r.a.listed = w.listed /\ r.a.keys = w.keys
    BY <2>1, <2>2, Faulted DEF Wide
  <2>4. r.a.faults >= s.faults /\ r.a.faults # s.faults
    BY <1>0, <1>1, <1>4, <2>1, <2>3
  <2>5. Sound(s, r) /\ Shaped(p, r.a)
    BY <2>2, <2>3, <2>4, Mem0Products DEF Sound, Shaped
  <2> QED BY <1>1, <2>1, <2>2, <2>3, <2>4, <2>5, RaisedKept
<1> QED BY <1>1, <1>3, <1>5, <1>7, <1>8 DEF Mem0!Returned

Mem0Outcome(s, fresh, infer, r) ==
    \/ fresh = {} /\ r = Mem0!Returned(s, 0)
    \/ \E e \in fresh, add \in Mem0!Adds(infer) : \E v :
          \/ r = Mem0!Returned(Mem0!Sent(s, fresh, e, add), v)
          \/ r = Mem0!RaisedFrom(Mem0!Sent(s, fresh, e, add))
    \/ \E S \in SUBSET fresh : r = Mem0!RaisedFrom(Mem0!CutShort(s, S))
    \/ r = Mem0!RaisedFrom(s)

LEMMA Mem0Outcomes ==
    ASSUME NEW s, NEW batch, NEW infer, NEW r \in Mem0!Ingest(s, batch, infer)
    PROVE  Mem0Outcome(s, batch \ s.listed, infer, r)
  BY DEF Mem0!Ingest, Mem0Outcome

LEMMA Mem0Ingest ==
    \A p \in Mem0s : \A s \in Wide : \A batch \in SUBSET Events :
        \A r \in Mem0!Ingest(s, batch, Infer(p)) :
            /\ Kept(p, s, r) /\ (r.raised => r.a.faults # s.faults)
            /\ ~r.raised => r.a.listed = s.listed \cup batch
            /\ ~r.raised /\ r.a.faults = s.faults =>
                  Held(p, r.a) \subseteq Held(p, s) \cup batch
<1> TAKE p \in Mem0s
<1> TAKE s \in Wide
<1> TAKE batch \in SUBSET Events
<1> TAKE r \in Mem0!Ingest(s, batch, Infer(p))
<1> DEFINE fresh == batch \ s.listed
<1>0. /\ Infer(p) \in BOOLEAN /\ (Infer(p) <=> p = "mem0-native") /\ fresh \in SUBSET Events
      /\ s.faults >= s.faults
  BY DEF Infer, Wide
<1>1. CASE fresh = {} /\ r = Mem0!Returned(s, 0)
  <2>1. r.a = s /\ r.raised = FALSE
    BY <1>1 DEF Mem0!Returned
  <2>2. Kept(p, s, r)
    BY <1>0, <2>1 DEF Kept, Sound
  <2>3. s.listed = s.listed \cup batch
    BY <1>1
  <2> QED BY <2>1, <2>2, <2>3
<1>2. ASSUME NEW e \in fresh, NEW add \in Mem0!Adds(Infer(p)), NEW v,
             r = Mem0!Returned(Mem0!Sent(s, fresh, e, add), v)
      PROVE  /\ Kept(p, s, r) /\ r.raised = FALSE
             /\ r.a.listed = s.listed \cup batch
             /\ r.a.faults = s.faults => Held(p, r.a) \subseteq Held(p, s) \cup batch
  <2> DEFINE w == Mem0!Sent(s, fresh, e, add)
  <2>1. r.a = w /\ r.raised = FALSE
    BY <1>2 DEF Mem0!Returned
  <2>2. /\ w \in Wide /\ w.faults >= s.faults
        /\ w.listed = s.listed \cup fresh /\ w.open = TRUE
        /\ w.faults = s.faults =>
              \E K \in SUBSET Memories :
                 /\ w.keys = s.keys \cup K /\ w.store = s.store \cup K
                 /\ Of(K) \subseteq fresh /\ (~Infer(p) => Of(K) = fresh)
    <3>1. fresh \subseteq Events /\ Infer(p) \in BOOLEAN
      BY <1>0
    <3>2. AfterSending(s, fresh, Infer(p), w)
      <4> HIDE DEF fresh
      <4> QED BY <3>1, Mem0Sent
    <3> HIDE DEF fresh, w
    <3> QED BY <3>2 DEF AfterSending
  <2> HIDE DEF w
  <2>3. Sound(s, r) /\ r.a.listed = s.listed \cup batch /\ r.a.open = TRUE
    BY <2>1, <2>2 DEF Sound
  <2>4. ASSUME r.a.faults = s.faults
        PROVE  /\ Keyed(p, s) => Keyed(p, r.a)
               /\ Agree(p, s) => Agree(p, r.a)
               /\ Held(p, r.a) \subseteq Held(p, s) \cup batch
    <3>1. PICK K \in SUBSET Memories :
             /\ r.a.keys = s.keys \cup K /\ r.a.store = s.store \cup K
             /\ Of(K) \subseteq fresh /\ (~Infer(p) => Of(K) = fresh)
      BY <2>1, <2>2, <2>4
    <3>2. Of(r.a.store) = Of(s.store) \cup Of(K) /\ Of(r.a.keys) = Of(s.keys) \cup Of(K)
      BY <3>1, OfUnion
    <3>3. fresh = batch \ s.listed
      OBVIOUS
    <3> HIDE DEF fresh
    <3> QED BY <1>0, <2>3, <3>1, <3>2, <3>3, Mem0Products, ZenonT(60) DEF Keyed, Agree, Held
  <2>5. Shaped(p, r.a) /\ Tidy(p, r.a) /\ Unopened(p, r.a) /\ Shut(p, r.a)
    BY <2>3, Mem0Products DEF Shaped, Tidy, Unopened, Shut
  <2> QED BY <2>1, <2>3, <2>4, <2>5, Mem0Products DEF Kept
<1>3. ASSUME NEW S \in SUBSET fresh, r = Mem0!RaisedFrom(Mem0!CutShort(s, S))
      PROVE  Kept(p, s, r) /\ r.raised = TRUE /\ r.a.faults # s.faults
  <2> DEFINE w == Mem0!CutShort(s, S)
  <2>1. Mem0!Plain(s, S) \subseteq Memories
    BY <1>0, Mem0Plain
  <2>2. w \in Wide /\ w.faults = s.faults
    BY <2>1, Mem0Added DEF Mem0!CutShort
  <2> HIDE DEF w
  <2>3. r.a = [w EXCEPT !.faults = @ + 1] /\ r.raised = TRUE
    BY <1>3 DEF Mem0!RaisedFrom, Mem0!Refused, Mem0!Failing, w
  <2>4. r.a \in Wide /\ r.a.faults >= s.faults /\ r.a.faults # s.faults
    BY <2>2, <2>3, Faulted
  <2>5. Sound(s, r) /\ Shaped(p, r.a)
    BY <2>3, <2>4, Mem0Products DEF Sound, Shaped
  <2> QED BY <2>3, <2>4, <2>5, RaisedKept
<1>4. CASE r = Mem0!RaisedFrom(s)
  <2>1. r.a = [s EXCEPT !.faults = @ + 1] /\ r.raised = TRUE
    BY <1>4 DEF Mem0!RaisedFrom, Mem0!Refused, Mem0!Failing
  <2>2. r.a \in Wide /\ r.a.faults >= s.faults /\ r.a.faults # s.faults
    BY <2>1, Faulted
  <2>3. Sound(s, r) /\ Shaped(p, r.a)
    BY <2>1, <2>2, Mem0Products DEF Sound, Shaped
  <2> QED BY <2>1, <2>2, <2>3, RaisedKept
<1>5. Mem0Outcome(s, fresh, Infer(p), r)
  BY Mem0Outcomes
<1>8. ASSUME NEW e \in fresh, NEW add \in Mem0!Adds(Infer(p)),
             r = Mem0!RaisedFrom(Mem0!Sent(s, fresh, e, add))
      PROVE  Kept(p, s, r) /\ r.raised = TRUE /\ r.a.faults # s.faults
  <2> DEFINE w == Mem0!Sent(s, fresh, e, add)
  <2>1. AfterSending(s, fresh, Infer(p), w)
    <3>1. fresh \subseteq Events /\ Infer(p) \in BOOLEAN
      BY <1>0
    <3> HIDE DEF fresh
    <3> QED BY <3>1, Mem0Sent
  <2> HIDE DEF w
  <2>2. w \in Wide /\ w.faults >= s.faults /\ w.faults \in Nat /\ s.faults \in Nat
    BY <2>1 DEF AfterSending, Wide
  <2>3. r.a = [w EXCEPT !.faults = @ + 1] /\ r.raised = TRUE
    BY <1>8 DEF Mem0!RaisedFrom, Mem0!Refused, Mem0!Failing, w
  <2>4. r.a \in Wide /\ r.a.faults = w.faults + 1
    BY <2>2, <2>3, Faulted
  <2>5. r.a.faults >= s.faults /\ r.a.faults # s.faults
    BY <2>2, <2>4
  <2>6. Sound(s, r) /\ Shaped(p, r.a)
    BY <2>3, <2>4, <2>5, Mem0Products DEF Sound, Shaped
  <2> QED BY <2>3, <2>5, <2>6, RaisedKept
<1>6. CASE \E e \in fresh, add \in Mem0!Adds(Infer(p)) : \E v :
              \/ r = Mem0!Returned(Mem0!Sent(s, fresh, e, add), v)
              \/ r = Mem0!RaisedFrom(Mem0!Sent(s, fresh, e, add))
  BY <1>2, <1>6, <1>8
<1>7. CASE \E S \in SUBSET fresh : r = Mem0!RaisedFrom(Mem0!CutShort(s, S))
  BY <1>3, <1>7
<1> HIDE DEF fresh
<1> QED BY <1>1, <1>4, <1>5, <1>6, <1>7 DEF Mem0Outcome

LEMMA Mem0Opened ==
    ASSUME NEW p \in Mem0s, NEW s \in Wide, NEW r, r.raised = FALSE, r.a = Mem0!Opened(s)
    PROVE  Unmoved(p, s, r)
<1>1. /\ r.a \in Wide /\ r.a.listed = s.listed /\ r.a.store = s.store /\ r.a.keys = s.keys
      /\ r.a.open = TRUE /\ r.a.faults = s.faults
  BY DEF Mem0!Opened, Wide
<1>2. s.faults >= s.faults
  BY DEF Wide
<1> QED BY <1>1, <1>2, Mem0Products
        DEF Unmoved, Kept, Sound, Shaped, Tidy, Unopened, Shut, Keyed, Agree

(* A raised outcome that left the memories alone, the Memory open or not.  *)
LEMMA Mem0Raised ==
    ASSUME NEW p \in Mem0s, NEW s \in Wide, NEW o \in BOOLEAN, NEW r,
           r.raised = TRUE, r.a = [[s EXCEPT !.open = o] EXCEPT !.faults = @ + 1]
    PROVE  Unmoved(p, s, r)
<1> DEFINE w == [s EXCEPT !.open = o]
<1>1. w \in Wide /\ w.faults = s.faults /\ r.a = [w EXCEPT !.faults = @ + 1]
  BY DEF Wide
<1> HIDE DEF w
<1>2. r.a \in Wide /\ r.a.faults >= s.faults /\ r.a.faults # s.faults
  BY <1>1, Faulted
<1>3. Sound(s, r) /\ r.a.faults # s.faults
  BY <1>1, <1>2 DEF Sound
<1>4. Shaped(p, r.a)
  BY Mem0Products DEF Shaped
<1> QED BY <1>3, <1>4, RaisedKept DEF Unmoved

LEMMA Mem0Quiet ==
    ASSUME NEW p \in Mem0s, NEW s \in Wide,
           NEW r \in Mem0!AwaitReady(s) \cup Mem0!Restart(s)
    PROVE  Unmoved(p, s, r)
<1>1. s.open \in BOOLEAN /\ s = [s EXCEPT !.open = s.open]
  BY DEF Wide
<1>2. \/ r = Mem0!Returned(Mem0!Opened(s), {})
      \/ r = Mem0!RaisedFrom(s)
      \/ r = Mem0!RaisedFrom([s EXCEPT !.open = FALSE])
  BY DEF Mem0!AwaitReady, Mem0!Restart
<1>3. CASE r = Mem0!Returned(Mem0!Opened(s), {})
  BY <1>3, Mem0Opened DEF Mem0!Returned
<1>4. CASE r = Mem0!RaisedFrom(s)
  <2>1. r.raised = TRUE /\ r.a = [[s EXCEPT !.open = s.open] EXCEPT !.faults = @ + 1]
    BY <1>1, <1>4 DEF Mem0!RaisedFrom, Mem0!Refused, Mem0!Failing
  <2> QED BY <1>1, <2>1, Mem0Raised
<1>5. CASE r = Mem0!RaisedFrom([s EXCEPT !.open = FALSE])
  <2>1. r.raised = TRUE /\ r.a = [[s EXCEPT !.open = FALSE] EXCEPT !.faults = @ + 1]
    BY <1>5 DEF Mem0!RaisedFrom, Mem0!Refused, Mem0!Failing
  <2> QED BY <2>1, Mem0Raised
<1> QED BY <1>2, <1>3, <1>4, <1>5

LEMMA Mem0Retrieve ==
    ASSUME NEW p \in Mem0s, NEW s \in Wide, NEW q, NEW r \in Mem0!Retrieve(s, q)
    PROVE  /\ Unmoved(p, s, r)
           /\ r.raised => r.value = {}
           /\ ~r.raised => /\ r.value \subseteq s.listed \cap Visible[q]
                          /\ r.value \subseteq Of(s.store)
<1>1. CASE r = Mem0!RaisedFrom(Mem0!Opened(s))
  <2>1. /\ r.raised = TRUE /\ r.value = {}
        /\ r.a = [[s EXCEPT !.open = TRUE] EXCEPT !.faults = @ + 1]
    BY <1>1 DEF Mem0!RaisedFrom, Mem0!Refused, Mem0!Failing, Mem0!Opened
  <2> QED BY <2>1, Mem0Raised
<1>2. ASSUME NEW hits \in SUBSET Mem0!Stored(s),
             r = Mem0!Returned(Mem0!Opened(s), hits \cap s.listed \cap Visible[q])
      PROVE  /\ Unmoved(p, s, r) /\ r.raised = FALSE
             /\ r.value \subseteq s.listed \cap Visible[q] /\ r.value \subseteq Of(s.store)
  <2>1. /\ r.raised = FALSE /\ r.a = Mem0!Opened(s)
        /\ r.value = hits \cap s.listed \cap Visible[q]
    BY <1>2 DEF Mem0!Returned
  <2>2. hits \subseteq Of(s.store)
    BY DEF Of, Mem0!Stored
  <2> QED BY <2>1, <2>2, Mem0Opened
<1> QED BY <1>1, <1>2 DEF Mem0!Retrieve

LEMMA Mem0New ==
    ASSUME NEW p \in Mem0s, NEW s \in Wide, NEW r \in Mem0!New(s)
    PROVE  Built(p, s, r) /\ r.a.listed = {} /\ r.a.keys = {} /\ r.a.store = s.store
<1> DEFINE t == [s EXCEPT !.listed = {}, !.keys = {}, !.open = FALSE]
<1>1. /\ t \in Wide /\ t.open = FALSE /\ t.faults = s.faults /\ t.store = s.store
      /\ t.listed = {} /\ t.keys = {}
  BY DEF Wide
<1>2. r \in Mem0!Reset(t)
  BY DEF Mem0!New
<1> HIDE DEF t
<1>3. /\ Kept(p, t, r) /\ (r.raised => r.a.faults # s.faults) /\ r.a.listed = {}
      /\ r.a.keys = {} /\ r.a.store = s.store
  BY <1>1, <1>2, Mem0Reset
<1>4. Sound(s, r)
  BY <1>1, <1>3 DEF Kept, Sound
<1> QED BY <1>3, <1>4, Mem0Products DEF Built, Shaped, Tidy, Unopened, Shut, Keyed

LEMMA Mem0Cleanup ==
    ASSUME NEW p \in Mem0s, NEW s \in Wide, NEW r \in Mem0!Cleanup(s)
    PROVE  Closed(p, s, r)
<1>1. r.a = [s EXCEPT !.open = FALSE]
  BY DEF Mem0!Cleanup, Mem0!Returned
<1>2. /\ r.a \in Wide /\ r.a.faults = s.faults /\ r.a.listed = s.listed
      /\ r.a.store = s.store /\ r.a.keys = s.keys /\ r.a.pages = s.pages /\ r.a.head = s.head
      /\ r.a.home = s.home
  BY <1>1 DEF Wide
<1> QED BY <1>2 DEF Closed

LEMMA Mem0Delete ==
    ASSUME NEW p \in Mem0s, NEW s \in Wide, NEW e, NEW r \in Mem0!Delete(s, e)
    PROVE  Deleted(p, s, e, r)
<1> DEFINE D == Mem0!KeysOf(s, e)
           without(E) == [Mem0!Opened(s) EXCEPT !.store = @ \ E, !.keys = @ \ E]
<1>0. \A E : LET w == without(E)
            IN  /\ w \in Wide /\ w.listed = s.listed /\ w.store = s.store \ E
                /\ w.keys = s.keys \ E /\ w.open = TRUE /\ w.faults = s.faults
  BY DEF Mem0!Opened, Wide
<1>1. \A k : k \in D <=> k \in s.keys /\ k[1] = e
  BY DEF Mem0!KeysOf
<1>2. Of(s.keys \ D) = Of(s.keys) \ {e}
  BY <1>1 DEF Of
<1>3. CASE D = {} /\ r = Mem0!Returned(s, FALSE)
  <2>1. r.a = s /\ r.raised = FALSE /\ r.value = FALSE /\ s.faults >= s.faults
    BY <1>3 DEF Mem0!Returned, Wide
  <2>2. Kept(p, s, r)
    BY <2>1 DEF Kept, Sound
  <2>3. e \notin Of(s.keys)
    BY <1>1, <1>3 DEF Of
  <2>4. Keyed(p, s) => e \notin Held(p, s)
    BY <2>3, Mem0Products DEF Keyed, Held
  <2> QED BY <2>1, <2>2, <2>4 DEF Deleted
<1>4. CASE r = Mem0!Returned([without(D) EXCEPT !.listed = @ \ {e}], TRUE)
  <2> DEFINE w == without(D)
  <2>1. r.a = [w EXCEPT !.listed = @ \ {e}] /\ r.raised = FALSE /\ r.value = TRUE
    BY <1>4 DEF Mem0!Returned
  <2>2. /\ w \in Wide /\ w.listed = s.listed /\ w.store = s.store \ D
        /\ w.keys = s.keys \ D /\ w.open = TRUE /\ w.faults = s.faults
    BY <1>0
  <2> HIDE DEF w, D
  <2>3. /\ r.a \in Wide /\ r.a.listed = s.listed \ {e} /\ r.a.store = s.store \ D
        /\ r.a.keys = s.keys \ D /\ r.a.open = TRUE /\ r.a.faults = s.faults
    BY <2>1, <2>2 DEF Wide
  <2>4. Sound(s, r)
    BY <2>1, <2>3 DEF Sound, Wide
  <2>5. (Keyed(p, s) => Keyed(p, r.a)) /\ (Agree(p, s) => Agree(p, r.a))
    BY <1>2, <2>3, Mem0Products DEF Keyed, Agree
  <2>6. Shaped(p, r.a) /\ Tidy(p, r.a) /\ Unopened(p, r.a) /\ Shut(p, r.a)
    BY <2>3, Mem0Products DEF Shaped, Tidy, Unopened, Shut
  <2>7. Keyed(p, s) => Held(p, r.a) \subseteq Held(p, s) \ {e}
    BY <1>2, <2>3, Mem0Products DEF Keyed, Held
  <2> QED BY <2>1, <2>3, <2>4, <2>5, <2>6, <2>7, Mem0Products DEF Deleted, Kept
<1>5. ASSUME NEW E \in SUBSET D, r = Mem0!RaisedFrom(without(E))
      PROVE  Deleted(p, s, e, r)
  <2> DEFINE w == without(E)
  <2>1. r.a = [w EXCEPT !.faults = @ + 1] /\ r.raised = TRUE
    BY <1>5 DEF Mem0!RaisedFrom, Mem0!Refused, Mem0!Failing
  <2>2. w \in Wide /\ w.faults = s.faults
    BY <1>0
  <2> HIDE DEF w
  <2>3. r.a \in Wide /\ r.a.faults >= s.faults /\ r.a.faults # s.faults
    BY <2>1, <2>2, Faulted
  <2>4. Sound(s, r) /\ Shaped(p, r.a)
    BY <2>1, <2>3, Mem0Products DEF Sound, Shaped
  <2> QED BY <2>1, <2>3, <2>4, RaisedKept DEF Deleted
<1>6. \/ D = {} /\ r = Mem0!Returned(s, FALSE)
      \/ r = Mem0!Returned([without(D) EXCEPT !.listed = @ \ {e}], TRUE)
      \/ \E E \in SUBSET D : r = Mem0!RaisedFrom(without(E))
  BY DEF Mem0!Delete
<1> HIDE DEF D, without
<1> QED BY <1>3, <1>4, <1>5, <1>6

(* A reset and an ingest of the events ev: the first did not return, or it *)
(* did and the second ran.                                                 *)
LEMMA Mem0ResetIngest ==
    ASSUME NEW p \in Mem0s, NEW s \in Wide, NEW ev \in SUBSET Events,
           NEW f \in Mem0!Reset(s), ~f.raised, NEW r \in Mem0!Ingest(f.a, ev, Infer(p))
    PROVE  Refilled(p, s, ev, r) /\ (~r.raised => Unopened(p, r.a) /\ Tidy(p, r.a))
<1>1. Kept(p, s, f) /\ f.a.listed = {} /\ f.a \in Wide
  BY Mem0Reset DEF Kept, Sound
<1>2. /\ Kept(p, f.a, r) /\ (r.raised => r.a.faults # f.a.faults)
      /\ ~r.raised => r.a.listed = f.a.listed \cup ev
  <2>1. f.a \in Wide
    BY <1>1
  <2> QED BY <2>1, Mem0Ingest
<1>3. Kept(p, s, r)
  BY <1>1, <1>2, KeptThen
<1>4. ~r.raised => r.a.listed = ev
  BY <1>1, <1>2
<1>5. Unopened(p, f.a) /\ Tidy(p, f.a)
  BY <1>1, Mem0Products DEF Unopened, Tidy
<1> QED BY <1>2, <1>3, <1>4, <1>5 DEF Refilled, Kept

LEMMA Mem0Restore ==
    ASSUME NEW p \in Mem0s, NEW s \in Wide, NEW sn, sn.events \in SUBSET Events,
           NEW r \in Mem0!Restore(s, sn, Infer(p))
    PROVE  Refilled(p, s, sn.events, r)
<1>1. \/ r \in Mem0!Reset(s) /\ r.raised
      \/ \E f \in Mem0!Reset(s) : ~f.raised /\ r \in Mem0!Ingest(f.a, sn.events, Infer(p))
  BY DEF Mem0!Restore, Mem0!Then, Mem0!ThenWith
<1>2. CASE r \in Mem0!Reset(s) /\ r.raised
  BY <1>2, Mem0Reset, Mem0Products DEF Refilled
<1>3. ASSUME NEW f \in Mem0!Reset(s), ~f.raised, r \in Mem0!Ingest(f.a, sn.events, Infer(p))
      PROVE  Refilled(p, s, sn.events, r)
  BY <1>3, Mem0ResetIngest
<1> QED BY <1>1, <1>2, <1>3

LEMMA Mem0Import ==
    ASSUME NEW p \in Mem0s, NEW s \in Wide, NEW data, data.events \in SUBSET Events,
           data.keys \in SUBSET Memories, NEW r \in Mem0!ImportData(s, data, Infer(p))
    PROVE  Imported(p, s, data, r)
<1> DEFINE then == Mem0!Then(Mem0!Reset(s), LAMBDA b : Mem0!Ingest(b, data.events, Infer(p)))
<1>1. \E t \in then : r = IF t.raised \/ data.keys = {} THEN t
                         ELSE Mem0!Returned([t.a EXCEPT !.keys = data.keys], t.value)
  BY DEF Mem0!ImportData
<1>2. PICK t \in then : r = IF t.raised \/ data.keys = {} THEN t
                         ELSE Mem0!Returned([t.a EXCEPT !.keys = data.keys], t.value)
  BY <1>1
<1>3. \/ t \in Mem0!Reset(s) /\ t.raised
      \/ \E f \in Mem0!Reset(s) : ~f.raised /\ t \in Mem0!Ingest(f.a, data.events, Infer(p))
  BY DEF Mem0!Then, Mem0!ThenWith
<1> HIDE DEF then
<1>4. Refilled(p, s, data.events, t) /\ (~t.raised => Unopened(p, t.a) /\ Tidy(p, t.a))
  <2>1. CASE t \in Mem0!Reset(s) /\ t.raised
    BY <2>1, Mem0Reset DEF Refilled
  <2>2. ASSUME NEW f \in Mem0!Reset(s), ~f.raised, t \in Mem0!Ingest(f.a, data.events, Infer(p))
        PROVE  /\ Refilled(p, s, data.events, t)
               /\ ~t.raised => Unopened(p, t.a) /\ Tidy(p, t.a)
    BY <2>2, Mem0ResetIngest
  <2> QED BY <1>3, <2>1, <2>2
<1>5. CASE t.raised \/ data.keys = {}
  <2>1. r = t
    BY <1>2, <1>5
  <2>2. Sound(s, r) /\ Shaped(p, r.a)
    BY <1>4, <2>1, Mem0Products DEF Refilled, Kept, Shaped
  <2>3. /\ ~r.raised => r.a.listed = data.events /\ Tidy(p, r.a) /\ Unopened(p, r.a)
        /\ ~r.raised /\ r.a.faults = s.faults /\ Shut(p, s) => Shut(p, r.a)
    BY <1>4, <2>1, Mem0Products DEF Refilled, Kept
  <2>4. ~r.raised /\ p = "mem0" /\ r.a.faults = s.faults /\ Keyed(p, s) => Keyed(p, r.a)
    BY <1>4, <2>1 DEF Refilled, Kept, Shut
  <2> QED BY <2>2, <2>3, <2>4 DEF Imported
<1>6. CASE ~t.raised /\ data.keys # {}
  <2>1. r.a = [t.a EXCEPT !.keys = data.keys] /\ r.raised = FALSE
    BY <1>2, <1>6 DEF Mem0!Returned
  <2>2. t.a \in Wide /\ t.a.faults >= s.faults /\ t.a.listed = data.events
    BY <1>4, <1>6, Mem0Products DEF Refilled, Kept, Sound
  <2>3. /\ r.a \in Wide /\ r.a.faults = t.a.faults /\ r.a.listed = data.events
        /\ r.a.keys = data.keys /\ r.a.store = t.a.store /\ r.a.open = t.a.open
    BY <2>1, <2>2 DEF Wide
  <2>4. Sound(s, r) /\ Shaped(p, r.a)
    BY <2>1, <2>2, <2>3, Mem0Products DEF Sound, Shaped
  <2>5. /\ Tidy(p, r.a) /\ Unopened(p, r.a)
        /\ r.a.faults = s.faults /\ Shut(p, s) => Shut(p, r.a)
    BY <1>4, <1>6, <2>3, Mem0Products DEF Refilled, Kept, Tidy, Unopened, Shut
  <2>6. p = "mem0" /\ data.events \subseteq Of(data.keys) => Keyed(p, r.a)
    BY <2>3 DEF Keyed
  <2> QED BY <1>6, <2>1, <2>3, <2>4, <2>5, <2>6 DEF Imported
<1> QED BY <1>5, <1>6

-----------------------------------------------------------------------------
(* Hindsight.                                                              *)
LEMMA HindsightProduct ==
    LET p == "hindsight"
    IN  /\ p \notin Storeless /\ p \in Single /\ p \notin GBrains /\ p \notin Fixed
        /\ p \notin Mem0s /\ p \in Exporting /\ p \in AllProducts /\ p \notin OptMems
        /\ \A s : Intact(p, s)
  BY DEF Mem0s, Storeless, Single, GBrains, Lists, Fixed, Exporting, AllProducts, OptMems, Intact

LEMMA HindsightReset ==
    ASSUME NEW s \in Wide, NEW r \in Hindsight!Reset(s)
    PROVE  Emptied("hindsight", s, r)
<1> DEFINE gone == [s EXCEPT !.store = {}]
           failed == [s EXCEPT !.faults = @ + 1]
<1>0. s.faults \in Nat /\ s.faults + 1 \in Nat /\ s.faults + 1 > s.faults
  BY DEF Wide
<1>1. gone \in Wide /\ gone.store = {} /\ gone.faults = s.faults
  BY DEF Wide
<1>2. failed \in Wide /\ failed.store = s.store /\ failed.faults = s.faults + 1
  BY <1>0 DEF Wide
<1>3. \/ r = Hindsight!Returned([gone EXCEPT !.listed = {}], {})
      \/ r = Hindsight!Returned([failed EXCEPT !.listed = {}], {})
      \/ r = Hindsight!RaisedFrom(gone)
      \/ r = Hindsight!RaisedFrom(s)
  BY DEF Hindsight!Reset, Hindsight!Failing
<1> HIDE DEF gone, failed
<1>4. CASE r = Hindsight!Returned([gone EXCEPT !.listed = {}], {})
  <2>1. r.a = [gone EXCEPT !.listed = {}] /\ r.raised = FALSE
    BY <1>4 DEF Hindsight!Returned
  <2>2. r.a \in Wide /\ r.a.listed = {} /\ r.a.store = {} /\ r.a.faults = s.faults
    BY <1>1, <2>1 DEF Wide
  <2>3. Sound(s, r) /\ Agree("hindsight", r.a) /\ Shaped("hindsight", r.a)
    BY <1>0, <2>1, <2>2, HindsightProduct, OfUnion DEF Sound, Agree, Shaped
  <2> QED BY <2>1, <2>2, <2>3, HindsightProduct DEF Emptied, Kept, Tidy, Unopened, Shut, Keyed
<1>5. CASE r = Hindsight!Returned([failed EXCEPT !.listed = {}], {})
  <2>1. r.a = [failed EXCEPT !.listed = {}] /\ r.raised = FALSE
    BY <1>5 DEF Hindsight!Returned
  <2>2. r.a \in Wide /\ r.a.listed = {} /\ r.a.store = s.store /\ r.a.faults = s.faults + 1
    BY <1>2, <2>1 DEF Wide
  <2>3. Sound(s, r) /\ r.a.faults # s.faults
    BY <1>0, <2>1, <2>2 DEF Sound
  <2> QED BY <2>1, <2>2, <2>3, HindsightProduct
          DEF Emptied, Kept, Shaped, Tidy, Unopened, Shut, Keyed
<1>6. ASSUME NEW w \in {gone, s}, r = Hindsight!RaisedFrom(w)
      PROVE  Emptied("hindsight", s, r)
  <2>1. w \in Wide /\ w.faults = s.faults /\ w.store \in {{}, s.store}
    BY <1>1
  <2>2. r.a = [w EXCEPT !.faults = @ + 1] /\ r.raised = TRUE
    BY <1>6 DEF Hindsight!RaisedFrom, Hindsight!Refused, Hindsight!Failing
  <2>3. Shaped("hindsight", s) => Shaped("hindsight", w)
    BY <2>1, HindsightProduct DEF Shaped
  <2>4. Kept("hindsight", s, r) /\ r.a.faults # s.faults
    BY <2>1, <2>2, <2>3, RaisedAfter, ZenonT(60)
  <2> QED BY <2>2, <2>4 DEF Emptied
<1> QED BY <1>3, <1>4, <1>5, <1>6

LEMMA HindsightNew ==
    ASSUME NEW s \in Wide, NEW r \in Hindsight!New(s)
    PROVE  Built("hindsight", s, r)
<1> DEFINE w == [s EXCEPT !.listed = {}]
<1>1. /\ w \in Wide /\ w.listed = {} /\ w.store = s.store /\ w.faults = s.faults
      /\ s.faults >= s.faults
  BY DEF Wide
<1>2. r = Hindsight!Returned(w, {}) \/ r = Hindsight!RaisedFrom(w)
  BY DEF Hindsight!New
<1> HIDE DEF w
<1>3. CASE r = Hindsight!Returned(w, {})
  <2>1. r.a = w /\ r.raised = FALSE
    BY <1>3 DEF Hindsight!Returned
  <2> QED BY <1>1, <2>1, HindsightProduct DEF Built, Sound, Shaped, Tidy
<1>4. CASE r = Hindsight!RaisedFrom(w)
  <2>1. r.a = [w EXCEPT !.faults = @ + 1] /\ r.raised = TRUE
    BY <1>4 DEF Hindsight!RaisedFrom, Hindsight!Refused, Hindsight!Failing
  <2>2. Shaped("hindsight", s) => Shaped("hindsight", w)
    BY <1>1 DEF Shaped
  <2>3. Kept("hindsight", s, r) /\ r.a.faults # s.faults
    <3>1. w \in Wide /\ w.faults = s.faults
      BY <1>1
    <3> QED BY <2>1, <2>2, <3>1, RaisedAfter, ZenonT(60)
  <2> QED BY <2>1, <2>3 DEF Built, Kept
<1> QED BY <1>2, <1>3, <1>4

LEMMA HindsightIngest ==
    ASSUME NEW s \in Wide, NEW batch \in SUBSET Events, NEW r \in Hindsight!Ingest(s, batch)
    PROVE  Filled("hindsight", s, batch, r)
<1> DEFINE fresh == batch \ s.listed
           retained(S) == [s EXCEPT !.store = @ \cup Hindsight!Documents(S)]
<1>1. \A S \in SUBSET fresh :
         /\ retained(S) \in Wide /\ retained(S).listed = s.listed
         /\ retained(S).store = s.store \cup (S \X {0}) /\ retained(S).faults = s.faults
  <2> TAKE S \in SUBSET fresh
  <2>1. S \X {0} \subseteq Memories
    BY DEF Memories
  <2> QED BY <2>1 DEF Wide, Hindsight!Documents
<1>2. \/ fresh = {} /\ r = Hindsight!Returned(s, 0)
      \/ \E v : r = Hindsight!Returned([retained(fresh) EXCEPT !.listed = @ \cup fresh], v)
      \/ \E S \in SUBSET fresh : r = Hindsight!RaisedFrom(retained(S))
  BY DEF Hindsight!Ingest
<1>3. CASE fresh = {} /\ r = Hindsight!Returned(s, 0)
  <2>1. r.a = s /\ r.raised = FALSE
    BY <1>3 DEF Hindsight!Returned
  <2>2. s.listed = s.listed \cup batch
    BY <1>3
  <2> QED BY <2>1, <2>2, SameKept DEF Filled, Held
<1>4. ASSUME NEW v, r = Hindsight!Returned([retained(fresh) EXCEPT !.listed = @ \cup fresh], v)
      PROVE  Filled("hindsight", s, batch, r)
  <2> DEFINE w == retained(fresh)
  <2>1. /\ w \in Wide /\ w.listed = s.listed /\ w.store = s.store \cup (fresh \X {0})
        /\ w.faults = s.faults
    BY <1>1
  <2>2. r.a = [w EXCEPT !.listed = @ \cup fresh] /\ r.raised = FALSE
    BY <1>4 DEF Hindsight!Returned
  <2> HIDE DEF w
  <2>3. /\ r.a \in Wide /\ r.a.listed = s.listed \cup batch /\ r.a.faults = s.faults
        /\ r.a.store = s.store \cup (fresh \X {0})
    BY <2>1, <2>2 DEF Wide
  <2>4. Of(r.a.store) = Of(s.store) \cup fresh
    <3>1. Of(fresh \X {0}) = fresh
      BY OfSingle
    <3> QED BY <2>3, <3>1, OfUnion
  <2>5. Sound(s, r) /\ (Agree("hindsight", s) => Agree("hindsight", r.a))
    BY <2>2, <2>3, <2>4, HindsightProduct DEF Sound, Agree, Wide
  <2>6. Shaped("hindsight", s) => Shaped("hindsight", r.a)
    BY <2>3, HindsightProduct DEF Shaped
  <2>7. Kept("hindsight", s, r)
    BY <2>5, <2>6, HindsightProduct, KeptWithout DEF Tidy
  <2> QED BY <2>2, <2>3, <2>7 DEF Filled, Held
<1>5. ASSUME NEW S \in SUBSET fresh, r = Hindsight!RaisedFrom(retained(S))
      PROVE  Filled("hindsight", s, batch, r)
  <2> DEFINE w == retained(S)
  <2>1. /\ w \in Wide /\ w.store = s.store \cup (S \X {0}) /\ w.faults = s.faults
    BY <1>1
  <2>2. r.a = [w EXCEPT !.faults = @ + 1] /\ r.raised = TRUE
    BY <1>5 DEF Hindsight!RaisedFrom, Hindsight!Refused, Hindsight!Failing
  <2> HIDE DEF w
  <2>3. Shaped("hindsight", s) => Shaped("hindsight", w)
    BY <2>1, HindsightProduct DEF Shaped
  <2>4. Kept("hindsight", s, r) /\ r.a.faults # s.faults
    <3>1. w \in Wide /\ w.faults = s.faults
      BY <2>1
    <3> QED BY <2>2, <2>3, <3>1, RaisedAfter, ZenonT(60)
  <2> QED BY <2>2, <2>4 DEF Filled
<1> HIDE DEF fresh, retained
<1> QED BY <1>2, <1>3, <1>4, <1>5

LEMMA HindsightQuiet ==
    ASSUME NEW s \in Wide, NEW r \in Hindsight!AwaitReady(s)
    PROVE  Unmoved("hindsight", s, r)
<1>1. r = Hindsight!Returned(s, {}) \/ r = Hindsight!RaisedFrom(s)
  BY DEF Hindsight!AwaitReady
<1>2. CASE r = Hindsight!Returned(s, {})
  BY <1>2, SameKept DEF Hindsight!Returned, Unmoved
<1>3. CASE r = Hindsight!RaisedFrom(s)
  <2>1. r.a = [s EXCEPT !.faults = @ + 1] /\ r.raised = TRUE
    BY <1>3 DEF Hindsight!RaisedFrom, Hindsight!Refused, Hindsight!Failing
  <2> QED BY <2>1, RaisedAfter DEF Unmoved
<1> QED BY <1>1, <1>2, <1>3

LEMMA HindsightRetrieve ==
    ASSUME NEW s \in Wide, NEW q, NEW r \in Hindsight!Retrieve(s, q)
    PROVE  /\ Unmoved("hindsight", s, r)
           /\ r.raised => r.value = {}
           /\ ~r.raised => r.value \subseteq s.listed \cap Visible[q]
<1>1. \/ \E hits : r = Hindsight!Returned(s, hits \cap s.listed \cap Visible[q])
      \/ r = Hindsight!RaisedFrom(s)
  BY DEF Hindsight!Retrieve
<1>2. ASSUME NEW hits, r = Hindsight!Returned(s, hits \cap s.listed \cap Visible[q])
      PROVE  /\ Unmoved("hindsight", s, r) /\ r.raised = FALSE
             /\ r.value \subseteq s.listed \cap Visible[q]
  BY <1>2, SameKept DEF Hindsight!Returned, Unmoved
<1>3. CASE r = Hindsight!RaisedFrom(s)
  <2>1. r.a = [s EXCEPT !.faults = @ + 1] /\ r.raised = TRUE /\ r.value = {}
    BY <1>3 DEF Hindsight!RaisedFrom, Hindsight!Refused, Hindsight!Failing
  <2> QED BY <2>1, RaisedAfter DEF Unmoved
<1> QED BY <1>1, <1>2, <1>3

LEMMA HindsightDelete ==
    ASSUME NEW s \in Wide, NEW e, NEW r \in Hindsight!Delete(s, e)
    PROVE  Deleted("hindsight", s, e, r)
<1> DEFINE gone == [s EXCEPT !.store = @ \ Hindsight!Documents({e})]
<1>1. /\ gone \in Wide /\ gone.listed = s.listed /\ gone.faults = s.faults
      /\ gone.store = s.store \ ({e} \X {0})
  BY DEF Wide, Hindsight!Documents
<1>2. \/ e \notin s.listed /\ r = Hindsight!Returned(s, FALSE)
      \/ r = Hindsight!Returned([gone EXCEPT !.listed = @ \ {e}], TRUE)
      \/ r = Hindsight!RaisedFrom(gone) \/ r = Hindsight!RaisedFrom(s)
  BY DEF Hindsight!Delete
<1> HIDE DEF gone
<1>3. CASE e \notin s.listed /\ r = Hindsight!Returned(s, FALSE)
  <2>1. r.a = s /\ r.raised = FALSE /\ r.value = FALSE
    BY <1>3 DEF Hindsight!Returned
  <2> QED BY <1>3, <2>1, SameKept DEF Deleted, Held
<1>4. CASE r = Hindsight!Returned([gone EXCEPT !.listed = @ \ {e}], TRUE)
  <2>1. r.a = [gone EXCEPT !.listed = @ \ {e}] /\ r.raised = FALSE /\ r.value = TRUE
    BY <1>4 DEF Hindsight!Returned
  <2>2. /\ r.a \in Wide /\ r.a.listed = s.listed \ {e} /\ r.a.faults = s.faults
        /\ r.a.store = s.store \ ({e} \X {0})
    BY <1>1, <2>1 DEF Wide
  <2>3. Shaped("hindsight", s) => Of(r.a.store) = Of(s.store) \ {e}
    BY <2>2, OfWithout, HindsightProduct DEF Shaped
  <2>4. /\ Sound(s, r)
        /\ Shaped("hindsight", s) /\ Agree("hindsight", s) => Agree("hindsight", r.a)
    BY <2>1, <2>2, <2>3, HindsightProduct DEF Sound, Agree, Wide
  <2>5. Shaped("hindsight", s) => Shaped("hindsight", r.a)
    BY <2>2, HindsightProduct DEF Shaped
  <2>6. Kept("hindsight", s, r)
    BY <2>4, <2>5, HindsightProduct, KeptWithout DEF Tidy
  <2> QED BY <2>1, <2>2, <2>6 DEF Deleted, Held
<1>5. ASSUME NEW w \in {gone, s}, r = Hindsight!RaisedFrom(w)
      PROVE  Deleted("hindsight", s, e, r)
  <2>1. w \in Wide /\ w.faults = s.faults /\ w.store \subseteq s.store
    BY <1>1
  <2>2. r.a = [w EXCEPT !.faults = @ + 1] /\ r.raised = TRUE
    BY <1>5 DEF Hindsight!RaisedFrom, Hindsight!Refused, Hindsight!Failing
  <2>3. Shaped("hindsight", s) => Shaped("hindsight", w)
    BY <2>1, HindsightProduct DEF Shaped
  <2>4. Kept("hindsight", s, r) /\ r.a.faults # s.faults
    BY <2>1, <2>2, <2>3, RaisedAfter
  <2> QED BY <2>2, <2>4 DEF Deleted
<1> QED BY <1>2, <1>3, <1>4, <1>5

LEMMA HindsightRefill ==
    ASSUME NEW s \in Wide, NEW sn, sn.events \in SUBSET Events,
           NEW r \in Hindsight!Restore(s, sn) \cup Hindsight!ImportData(s, sn)
    PROVE  Refilled("hindsight", s, sn.events, r)
<1>1. \/ r \in Hindsight!Reset(s) /\ r.raised
      \/ \E f \in Hindsight!Reset(s) : ~f.raised /\ r \in Hindsight!Ingest(f.a, sn.events)
  BY DEF Hindsight!Restore, Hindsight!ImportData, Hindsight!Then, Hindsight!ThenWith
<1>2. CASE r \in Hindsight!Reset(s) /\ r.raised
  BY <1>2, HindsightReset DEF Emptied, Refilled
<1>3. ASSUME NEW f \in Hindsight!Reset(s), ~f.raised, r \in Hindsight!Ingest(f.a, sn.events)
      PROVE  Refilled("hindsight", s, sn.events, r)
  <2>1. Emptied("hindsight", s, f) /\ f.a \in Wide
    BY HindsightReset DEF Emptied, Kept, Sound
  <2>2. Filled("hindsight", f.a, sn.events, r)
    BY <1>3, <2>1, HindsightIngest
  <2> QED BY <1>3, <2>1, <2>2, RefilledThen, HindsightProduct
<1> QED BY <1>1, <1>2, <1>3

-----------------------------------------------------------------------------
(* GBrain.                                                                 *)
LEMMA GBrainProducts ==
    ASSUME NEW p \in GBrains
    PROVE  /\ p \notin Storeless /\ p \in Single /\ p \notin Fixed /\ p \notin Mem0s
           /\ p \in Exporting /\ p \in AllProducts /\ p \in Exporting \ {"mem0-native"}
           /\ p # "bm25-sqlite-fts" /\ p # "mem0-native" /\ p # "mem0"
           /\ p \notin OptMems /\ (Ollama(p) <=> p = "gbrain-ollama")
  BY DEF OptMems, Mem0s, GBrains, Storeless, Single, Lists, Fixed, Exporting, AllProducts, Ollama

(* A failure that keeps the store or empties it.                           *)
Broken(s, r) ==
    /\ r.raised = TRUE /\ r.value = {}
    /\ \E w \in Wide : /\ w.faults = s.faults /\ (w.store = s.store \/ w.store = {})
                       /\ r.a = [w EXCEPT !.faults = @ + 1]

LEMMA BrokenKept ==
    ASSUME NEW p, p \notin Mem0s, NEW s \in Wide, NEW r, Broken(s, r)
    PROVE  Kept(p, s, r) /\ r.a.faults # s.faults /\ r.raised = TRUE
<1>1. PICK w \in Wide : /\ w.faults = s.faults /\ (w.store = s.store \/ w.store = {})
                       /\ r.a = [w EXCEPT !.faults = @ + 1]
  BY DEF Broken
<1>2. Shaped(p, s) => Shaped(p, w)
  BY <1>1, FS_EmptySet DEF Shaped
<1>3. r.raised = TRUE
  BY DEF Broken
<1>4. w \in Wide /\ w.faults = s.faults
  BY <1>1
<1>5. r.a = [w EXCEPT !.faults = @ + 1]
  BY <1>1
<1> QED BY <1>2, <1>3, <1>4, <1>5, RaisedAfter, ZenonT(60)

(* The home is set up: what was listed stays, the store may be emptied.    *)
Booted(b, r) ==
    /\ r.raised = FALSE /\ r.a \in Wide /\ r.a.faults = b.faults
    /\ r.a.listed = b.listed /\ r.a.pages = b.pages /\ r.a.head = b.head
    /\ r.a.store = b.store \/ r.a.store = {}
    /\ b.home \notin {"ready", "unsourced"} => r.a.store = {} /\ r.a.home = "ready"
    /\ r.a.home \in {"ready", "unsourced"}

BootedAfter(b, r) ==
    \E w \in Wide :
       /\ w.faults = b.faults /\ w.listed = b.listed /\ w.store = {}
       /\ Booted(w, r) \/ Broken(w, r)

LEMMA GBrainBootstrap ==
    ASSUME NEW b \in Wide, NEW r \in GBrain!Bootstrap(b)
    PROVE  Booted(b, r) \/ Broken(b, r)
<1> DEFINE set(h) == [b EXCEPT !.home = h, !.store = {}]
<1>1. \A h \in Homes :
         /\ set(h) \in Wide /\ set(h).faults = b.faults /\ set(h).listed = b.listed
         /\ set(h).pages = b.pages /\ set(h).head = b.head /\ set(h).store = {}
         /\ set(h).home = h
  BY DEF Wide
<1>2. \/ b.home \in {"ready", "unsourced"} /\ r = GBrain!Returned(b, {})
      \/ r = GBrain!Returned(set("ready"), {})
      \/ \E h \in {"bare", "partial", "unsourced"} : r = GBrain!RaisedFrom(set(h))
  BY DEF GBrain!Bootstrap
<1> HIDE DEF set
<1>3. CASE b.home \in {"ready", "unsourced"} /\ r = GBrain!Returned(b, {})
  BY <1>3 DEF GBrain!Returned, Booted
<1>4. CASE r = GBrain!Returned(set("ready"), {})
  BY <1>1, <1>4 DEF GBrain!Returned, Booted, Homes
<1>5. ASSUME NEW h \in {"bare", "partial", "unsourced"}, r = GBrain!RaisedFrom(set(h))
      PROVE  Broken(b, r)
  <2>1. set(h) \in Wide /\ set(h).faults = b.faults /\ set(h).store = {}
    BY <1>1 DEF Homes
  <2>2. /\ r.raised = TRUE /\ r.value = {}
        /\ r.a = [set(h) EXCEPT !.faults = @ + 1]
    BY <1>5 DEF GBrain!RaisedFrom, GBrain!Refused, GBrain!Failing
  <2> QED BY <2>1, <2>2 DEF Broken
<1> QED BY <1>2, <1>3, <1>4, <1>5

LEMMA GBrainVacant ==
    ASSUME NEW b \in Wide
    PROVE  LET w == GBrain!Vacant(b)
           IN  /\ w \in Wide /\ w.faults = b.faults /\ w.listed = b.listed /\ w.home = "none"
               /\ w.store = {} /\ w.pages = {} /\ w.head = {}
  BY DEF GBrain!Vacant, Wide, Homes

(* A partial home of the Ollama variant whose trash exists is refused.     *)
LEMMA GBrainEnsure ==
    ASSUME NEW b \in Wide, NEW o \in BOOLEAN, NEW r \in GBrain!Ensure(b, o)
    PROVE  \/ o /\ b.home = "partial" /\ r.a = b /\ r.raised = TRUE
           \/ b.home # "partial" /\ (Booted(b, r) \/ Broken(b, r))
           \/ BootedAfter(b, r)
<1> DEFINE v == GBrain!Vacant(b)
           u == [v EXCEPT !.trash = TRUE]
<1>1. v \in Wide /\ v.faults = b.faults /\ v.listed = b.listed /\ v.store = {}
  BY GBrainVacant
<1>2. u \in Wide /\ u.faults = b.faults /\ u.listed = b.listed /\ u.store = {}
  <2> HIDE DEF v
  <2> QED BY <1>1 DEF Wide
<1>3. \/ o /\ b.home = "partial" /\ r = GBrain!Refused(b)
      \/ b.home # "partial" /\ r \in GBrain!Bootstrap(b)
      \/ r \in GBrain!Bootstrap(v)
      \/ r \in GBrain!Bootstrap(u)
  BY DEF GBrain!Ensure, GBrain!EnsureBrain, GBrain!EnsureBrainOllama
<1> HIDE DEF v, u
<1>4. CASE o /\ b.home = "partial" /\ r = GBrain!Refused(b)
  BY <1>4 DEF GBrain!Refused
<1>5. CASE b.home # "partial" /\ r \in GBrain!Bootstrap(b)
  BY <1>5, GBrainBootstrap
<1>6. ASSUME NEW w \in {v, u}, r \in GBrain!Bootstrap(w)
      PROVE  BootedAfter(b, r)
  <2>1. w \in Wide /\ w.faults = b.faults /\ w.listed = b.listed /\ w.store = {}
    BY <1>1, <1>2
  <2>2. Booted(w, r) \/ Broken(w, r)
    BY <1>6, <2>1, GBrainBootstrap
  <2> QED BY <2>1, <2>2 DEF BootedAfter
<1> QED BY <1>3, <1>4, <1>5, <1>6

LEMMA GBrainNew ==
    ASSUME NEW p \in GBrains, NEW s \in Wide, NEW r \in GBrain!New(s, Ollama(p))
    PROVE  Built(p, s, r)
<1> DEFINE b == [s EXCEPT !.listed = {}]
<1>1. /\ b \in Wide /\ b.listed = {} /\ b.store = s.store /\ b.faults = s.faults
      /\ b.home = s.home
  BY DEF Wide
<1>2. s.faults >= s.faults
  BY DEF Wide
<1>3. r \in GBrain!Ensure(b, Ollama(p)) /\ Ollama(p) \in BOOLEAN
  BY DEF GBrain!New, Ollama
<1> HIDE DEF b
<1>4. CASE Ollama(p) /\ b.home = "partial" /\ r.a = b /\ r.raised = TRUE
  BY <1>1, <1>2, <1>4, GBrainProducts DEF Built, Sound, Shaped
<1>5. ASSUME NEW w \in Wide, w.faults = s.faults, w.listed = {},
             w.store = s.store \/ w.store = {}, Booted(w, r) \/ Broken(w, r)
      PROVE  Built(p, s, r)
  <2>1. CASE Booted(w, r)
    <3>1. /\ Sound(s, r) /\ r.a.listed = {} /\ r.raised = FALSE /\ r.a.home # "partial"
          /\ r.a.store = s.store \/ r.a.store = {}
      BY <1>2, <1>5, <2>1 DEF Booted, Sound
    <3>2. Shaped(p, s) => Shaped(p, r.a)
      BY <3>1, GBrainProducts DEF Shaped
    <3> QED BY <3>1, <3>2, GBrainProducts DEF Built, Tidy, Intact
  <2>2. CASE Broken(w, r)
    <3>1. Kept(p, w, r) /\ r.a.faults # s.faults /\ r.raised = TRUE
      BY <1>5, <2>2, BrokenKept, GBrainProducts
    <3>2. Sound(s, r)
      BY <1>5, <3>1 DEF Kept, Sound
    <3>3. Shaped(p, s) => Shaped(p, r.a)
      BY <1>5, <3>1, GBrainProducts DEF Kept, Shaped
    <3> QED BY <3>1, <3>2, <3>3, GBrainProducts DEF Built, Mem0s
  <2> QED BY <1>5, <2>1, <2>2
<1>6. \/ Ollama(p) /\ b.home = "partial" /\ r.a = b /\ r.raised = TRUE
      \/ Booted(b, r) \/ Broken(b, r)
      \/ BootedAfter(b, r)
  BY <1>1, <1>3, GBrainEnsure
<1>7. CASE Booted(b, r) \/ Broken(b, r)
  BY <1>1, <1>5, <1>7
<1>8. CASE BootedAfter(b, r)
  <2>1. PICK w \in Wide :
           /\ w.faults = b.faults /\ w.listed = b.listed /\ w.store = {}
           /\ Booted(w, r) \/ Broken(w, r)
    BY <1>8 DEF BootedAfter
  <2>2. w.faults = s.faults /\ w.listed = {} /\ (w.store = s.store \/ w.store = {})
    BY <1>1, <2>1
  <2>3. Booted(w, r) \/ Broken(w, r)
    BY <2>1
  <2> QED BY <1>5, <2>2, <2>3
<1> QED BY <1>4, <1>6, <1>7, <1>8

LEMMA GBrainReset ==
    ASSUME NEW p \in GBrains, NEW s \in Wide, NEW r \in GBrain!Reset(s, Ollama(p))
    PROVE  Emptied(p, s, r)
<1> DEFINE v == GBrain!Vacant(s)
           o == Ollama(p)
           kept(P) == [s EXCEPT !.pages = P]
<1>1. /\ v \in Wide /\ v.faults = s.faults /\ v.home = "none"
      /\ v.store = {} /\ v.pages = {} /\ v.head = {}
  BY GBrainVacant
<1>2. \/ \E f \in GBrain!Ensure(v, o) :
            r = GBrain!ThenListed(f, {}, {})
      \/ \E P \in SUBSET s.pages : r = GBrain!RaisedFrom(kept(P))
  BY DEF GBrain!Reset
<1> HIDE DEF v
<1>3. ASSUME NEW f \in GBrain!Ensure(v, o), r = GBrain!ThenListed(f, {}, {})
      PROVE  Emptied(p, s, r)
  <2>1. f \in GBrain!Bootstrap(v)
    BY <1>1 DEF GBrain!Ensure, GBrain!EnsureBrain, GBrain!EnsureBrainOllama
  <2>2. Booted(v, f) \/ Broken(v, f)
    BY <1>1, <2>1, GBrainBootstrap
  <2>3. CASE Booted(v, f)
    <3>1. /\ f.raised = FALSE /\ f.a \in Wide /\ f.a.faults = s.faults
          /\ f.a.pages = {} /\ f.a.head = {} /\ f.a.store = {} /\ f.a.home = "ready"
      BY <1>1, <2>3 DEF Booted
    <3>2. r.raised = FALSE /\ r.a = [f.a EXCEPT !.listed = {}]
      BY <1>3, <3>1 DEF GBrain!ThenListed, GBrain!Returned
    <3>3. /\ r.a \in Wide /\ r.a.faults = s.faults /\ r.a.listed = {}
          /\ r.a.pages = {} /\ r.a.head = {} /\ r.a.store = {} /\ r.a.home = "ready"
      BY <3>1, <3>2 DEF Wide
    <3>4. Sound(s, r)
      BY <3>2, <3>3 DEF Sound, Wide
    <3>5. Shaped(p, r.a) /\ Tidy(p, r.a) /\ Agree(p, r.a) /\ Intact(p, r.a)
      BY <3>3, OfUnion, GBrainProducts DEF Shaped, Tidy, Agree, Intact
    <3> QED BY <3>2, <3>3, <3>4, <3>5, GBrainProducts, KeptWithout DEF Emptied
  <2>4. CASE Broken(v, f)
    <3>1. r = f /\ r.raised = TRUE
      BY <1>3, <2>4 DEF GBrain!ThenListed, Broken
    <3>2. Broken(s, r)
      BY <1>1, <2>4, <3>1 DEF Broken
    <3> QED BY <3>2, BrokenKept, GBrainProducts DEF Emptied
  <2> QED BY <2>2, <2>3, <2>4
<1>4. ASSUME NEW P \in SUBSET s.pages, r = GBrain!RaisedFrom(kept(P))
      PROVE  Emptied(p, s, r)
  <2> DEFINE w == kept(P)
  <2>1. w \in Wide /\ w.faults = s.faults /\ w.store = s.store
    BY DEF Wide
  <2>2. r.raised = TRUE /\ r.value = {} /\ r.a = [w EXCEPT !.faults = @ + 1]
    BY <1>4 DEF GBrain!RaisedFrom, GBrain!Refused, GBrain!Failing
  <2> HIDE DEF w
  <2>3. Broken(s, r)
    BY <2>1, <2>2 DEF Broken
  <2> QED BY <2>3, BrokenKept, GBrainProducts DEF Emptied
<1> HIDE DEF o, kept
<1> QED BY <1>2, <1>3, <1>4

(* Both commands succeed, or one of them fails.                            *)
Synced(b, r) ==
    /\ r.raised = FALSE /\ r.a \in Wide /\ r.a.faults = b.faults
    /\ r.a.listed = b.listed /\ r.a.pages = b.pages /\ r.a.head = b.pages
    /\ r.a.store \subseteq Events \X {0} \/ r.a.store = b.store
    /\ b.home # "unsourced" => r.a.store = b.pages \X {0}
    /\ r.a.home = b.home

LEMMA GBrainCommit ==
    ASSUME NEW b \in Wide, NEW r \in GBrain!CommitAndSync(b)
    PROVE  Synced(b, r) \/ Broken(b, r)
<1> DEFINE c == GBrain!Committed(b)
           y == GBrain!Synced(c)
<1>1. /\ c \in Wide /\ c.faults = b.faults /\ c.store = b.store /\ c.listed = b.listed
      /\ c.pages = b.pages /\ c.head = b.pages /\ c.home = b.home
  BY DEF Wide, GBrain!Committed
<1>2. \/ r = GBrain!Returned(y, {})
      \/ c.home = "unsourced" /\ r = GBrain!Returned(c, {})
      \/ r = GBrain!RaisedFrom(b) \/ r = GBrain!RaisedFrom(c)
  BY DEF GBrain!CommitAndSync, GBrain!Indexed
<1> HIDE DEF c
<1>3. /\ y \in Wide /\ y.faults = b.faults /\ y.listed = b.listed
      /\ y.pages = b.pages /\ y.head = b.pages /\ y.store = b.pages \X {0}
      /\ y.home = b.home /\ y.store \subseteq Events \X {0}
  <2>1. c.head \X {0} \subseteq Memories /\ c.head \X {0} \subseteq Events \X {0}
    BY <1>1 DEF Memories, Wide
  <2> QED BY <1>1, <2>1 DEF Wide, GBrain!Synced, GBrain!Pages
<1> HIDE DEF y
<1>4. CASE r = GBrain!Returned(y, {})
  BY <1>3, <1>4 DEF GBrain!Returned, Synced
<1>6. CASE c.home = "unsourced" /\ r = GBrain!Returned(c, {})
  BY <1>1, <1>6 DEF GBrain!Returned, Synced
<1>5. ASSUME NEW w \in {b, c}, r = GBrain!RaisedFrom(w)
      PROVE  Broken(b, r)
  <2>1. w \in Wide /\ w.faults = b.faults /\ w.store = b.store
    BY <1>1
  <2>2. r.raised = TRUE /\ r.value = {} /\ r.a = [w EXCEPT !.faults = @ + 1]
    BY <1>5 DEF GBrain!RaisedFrom, GBrain!Refused, GBrain!Failing
  <2> QED BY <2>1, <2>2 DEF Broken
<1> QED BY <1>2, <1>4, <1>5, <1>6

LEMMA GBrainIngest ==
    ASSUME NEW p \in GBrains, NEW s \in Wide, NEW batch \in SUBSET Events,
           NEW r \in GBrain!Ingest(s, batch)
    PROVE  Filled(p, s, batch, r)
<1> DEFINE fresh == batch \ s.listed
           written == GBrain!Written(s, fresh)
<1>1. /\ written \in Wide /\ written.listed = s.listed /\ written.faults = s.faults
      /\ written.store = s.store /\ written.pages = s.pages \cup fresh
      /\ written.home = s.home
  BY DEF Wide, GBrain!Written
<1>2. \/ fresh = {} /\ r = GBrain!Returned(s, 0)
      \/ \E f \in GBrain!CommitAndSync(written) : \E v :
            r = GBrain!ThenListed(f, s.listed \cup fresh, v)
      \/ \E S \in SUBSET fresh : r = GBrain!RaisedFrom(GBrain!Written(s, S))
  BY DEF GBrain!Ingest
<1> HIDE DEF written
<1>3. CASE fresh = {} /\ r = GBrain!Returned(s, 0)
  <2>1. r.a = s /\ r.raised = FALSE
    BY <1>3 DEF GBrain!Returned
  <2>2. s.listed = s.listed \cup batch
    BY <1>3
  <2> QED BY <2>1, <2>2, SameKept DEF Filled, Held
<1>4. ASSUME NEW f \in GBrain!CommitAndSync(written), NEW v,
             r = GBrain!ThenListed(f, s.listed \cup fresh, v)
      PROVE  Filled(p, s, batch, r)
  <2>1. Synced(written, f) \/ Broken(written, f)
    BY <1>1, GBrainCommit
  <2>2. CASE Synced(written, f)
    <3>1. /\ f.raised = FALSE /\ f.a \in Wide /\ f.a.faults = s.faults
          /\ f.a.listed = s.listed /\ f.a.pages = s.pages \cup fresh
          /\ f.a.head = s.pages \cup fresh
          /\ f.a.store \subseteq Events \X {0} \/ f.a.store = s.store
          /\ s.home # "unsourced" => f.a.store = (s.pages \cup fresh) \X {0}
          /\ f.a.home = s.home
      BY <1>1, <2>2 DEF Synced
    <3>2. r.raised = FALSE /\ r.a = [f.a EXCEPT !.listed = s.listed \cup fresh]
      BY <1>4, <3>1 DEF GBrain!ThenListed, GBrain!Returned
    <3>3. /\ r.a \in Wide /\ r.a.faults = s.faults /\ r.a.listed = s.listed \cup batch
          /\ r.a.pages = s.pages \cup fresh /\ r.a.head = s.pages \cup fresh
          /\ r.a.store \subseteq Events \X {0} \/ r.a.store = s.store
          /\ s.home # "unsourced" => r.a.store = (s.pages \cup fresh) \X {0}
          /\ r.a.home = s.home
      BY <3>1, <3>2 DEF Wide
    <3>4. Sound(s, r)
      BY <3>2, <3>3 DEF Sound, Wide
    <3>5. Of((s.pages \cup fresh) \X {0}) = s.pages \cup fresh
      BY OfSingle
    <3>6. Agree(p, s) => Agree(p, r.a)
      BY <3>3, <3>5, GBrainProducts DEF Agree
    <3>7. /\ Shaped(p, s) => Shaped(p, r.a)
          /\ Tidy(p, s) => Tidy(p, r.a)
          /\ Intact(p, s) => Intact(p, r.a)
      BY <3>3, GBrainProducts DEF Shaped, Tidy, Intact, Wide
    <3>8. Kept(p, s, r)
      BY <3>4, <3>6, <3>7, GBrainProducts, KeptWithout
    <3> QED BY <3>2, <3>3, <3>8, GBrainProducts DEF Filled, Held
  <2>3. CASE Broken(written, f)
    <3>1. r = f
      BY <1>4, <2>3 DEF GBrain!ThenListed, Broken
    <3>2. Broken(s, r)
      BY <1>1, <2>3, <3>1 DEF Broken
    <3> QED BY <3>2, BrokenKept, GBrainProducts DEF Filled
  <2> QED BY <2>1, <2>2, <2>3
<1>5. ASSUME NEW S \in SUBSET fresh, r = GBrain!RaisedFrom(GBrain!Written(s, S))
      PROVE  Filled(p, s, batch, r)
  <2> DEFINE w == GBrain!Written(s, S)
  <2>1. w \in Wide /\ w.faults = s.faults /\ w.store = s.store
    BY DEF Wide, GBrain!Written
  <2>2. r.raised = TRUE /\ r.value = {} /\ r.a = [w EXCEPT !.faults = @ + 1]
    BY <1>5 DEF GBrain!RaisedFrom, GBrain!Refused, GBrain!Failing
  <2> HIDE DEF w
  <2>3. Broken(s, r)
    BY <2>1, <2>2 DEF Broken
  <2> QED BY <2>3, BrokenKept, GBrainProducts DEF Filled
<1> HIDE DEF fresh
<1> QED BY <1>2, <1>3, <1>4, <1>5

LEMMA GBrainDelete ==
    ASSUME NEW p \in GBrains, NEW s \in Wide, NEW e, NEW r \in GBrain!Delete(s, e)
    PROVE  Deleted(p, s, e, r)
<1> DEFINE unlinked == GBrain!Unlinked(s, e)
           after(f, v) == GBrain!ThenListed(f, s.listed \ {e}, v)
<1>1. /\ unlinked \in Wide /\ unlinked.listed = s.listed /\ unlinked.faults = s.faults
      /\ unlinked.store = s.store /\ unlinked.pages = s.pages \ {e}
      /\ unlinked.home = s.home
  BY DEF Wide, GBrain!Unlinked
<1>2. \/ e \in s.pages /\ \E f \in GBrain!CommitAndSync(unlinked) : r = after(f, e \in s.pages)
      \/ e \notin s.pages /\ r = after(GBrain!Returned(s, {}), e \in s.pages)
  BY DEF GBrain!Delete
<1> HIDE DEF unlinked
<1>3. ASSUME e \in s.pages, NEW f \in GBrain!CommitAndSync(unlinked), r = after(f, e \in s.pages)
      PROVE  Deleted(p, s, e, r)
  <2>1. Synced(unlinked, f) \/ Broken(unlinked, f)
    BY <1>1, GBrainCommit
  <2>2. CASE Synced(unlinked, f)
    <3>1. /\ f.raised = FALSE /\ f.a \in Wide /\ f.a.faults = s.faults
          /\ f.a.listed = s.listed /\ f.a.pages = s.pages \ {e}
          /\ f.a.head = s.pages \ {e}
          /\ f.a.store \subseteq Events \X {0} \/ f.a.store = s.store
          /\ s.home # "unsourced" => f.a.store = (s.pages \ {e}) \X {0}
          /\ f.a.home = s.home
      BY <1>1, <2>2 DEF Synced
    <3>2. r.raised = FALSE /\ r.value = TRUE /\ r.a = [f.a EXCEPT !.listed = s.listed \ {e}]
      BY <1>3, <3>1 DEF GBrain!ThenListed, GBrain!Returned
    <3>3. /\ r.a \in Wide /\ r.a.faults = s.faults /\ r.a.listed = s.listed \ {e}
          /\ r.a.pages = s.pages \ {e} /\ r.a.head = s.pages \ {e}
          /\ r.a.store \subseteq Events \X {0} \/ r.a.store = s.store
          /\ s.home # "unsourced" => r.a.store = (s.pages \ {e}) \X {0}
          /\ r.a.home = s.home
      BY <3>1, <3>2 DEF Wide
    <3>4. Sound(s, r)
      BY <3>2, <3>3 DEF Sound, Wide
    <3>5. Of((s.pages \ {e}) \X {0}) = s.pages \ {e}
      BY OfSingle
    <3>6. Agree(p, s) => Agree(p, r.a)
      BY <3>3, <3>5, GBrainProducts DEF Agree
    <3>7. /\ Shaped(p, s) => Shaped(p, r.a)
          /\ Tidy(p, s) => Tidy(p, r.a)
          /\ Intact(p, s) => Intact(p, r.a)
      BY <3>3, GBrainProducts DEF Shaped, Tidy, Intact, Wide
    <3>8. Kept(p, s, r)
      BY <3>4, <3>6, <3>7, GBrainProducts, KeptWithout
    <3> QED BY <3>2, <3>3, <3>8, GBrainProducts DEF Deleted, Held
  <2>3. CASE Broken(unlinked, f)
    <3>1. r = f
      BY <1>3, <2>3 DEF GBrain!ThenListed, Broken
    <3>2. Broken(s, r)
      BY <1>1, <2>3, <3>1 DEF Broken
    <3> QED BY <3>2, BrokenKept, GBrainProducts DEF Deleted
  <2> QED BY <2>1, <2>2, <2>3
<1>4. CASE e \notin s.pages /\ r = after(GBrain!Returned(s, {}), e \in s.pages)
  <2>a. r = GBrain!Returned([s EXCEPT !.listed = s.listed \ {e}], e \in s.pages)
    BY <1>4 DEF GBrain!ThenListed, GBrain!Returned
  <2>1. r.raised = FALSE /\ r.value = FALSE /\ r.a = [s EXCEPT !.listed = @ \ {e}]
    <3>1. (e \in s.pages) = FALSE
      BY <1>4
    <3>2. r = [a |-> [s EXCEPT !.listed = s.listed \ {e}], raised |-> FALSE, value |-> FALSE]
      BY <2>a, <3>1 DEF GBrain!Returned
    <3> QED BY <3>2
  <2>2. /\ r.a \in Wide /\ r.a.faults = s.faults /\ r.a.listed = s.listed \ {e}
        /\ r.a.pages = s.pages /\ r.a.head = s.head /\ r.a.store = s.store
        /\ r.a.home = s.home
    BY <2>1 DEF Wide
  <2>3. Sound(s, r)
    BY <2>1, <2>2 DEF Sound, Wide
  <2>4. Agree(p, s) => Agree(p, r.a)
    BY <1>4, <2>2, GBrainProducts DEF Agree
  <2>5. /\ Shaped(p, s) => Shaped(p, r.a)
        /\ Tidy(p, s) => Tidy(p, r.a)
        /\ Intact(p, s) => Intact(p, r.a)
    BY <2>2, GBrainProducts DEF Shaped, Tidy, Intact
  <2>6. Kept(p, s, r)
    BY <2>3, <2>4, <2>5, GBrainProducts, KeptWithout
  <2>7. Tidy(p, s) => r.a.listed = s.listed
    BY <1>4, <2>2 DEF Tidy
  <2> QED BY <2>1, <2>2, <2>6, <2>7, GBrainProducts DEF Deleted, Held
<1> HIDE DEF after
<1> QED BY <1>2, <1>3, <1>4

LEMMA GBrainQuiet ==
    ASSUME NEW p \in GBrains, NEW s \in Wide, NEW r \in GBrain!AwaitReady(s)
    PROVE  Unmoved(p, s, r)
<1>1. r = GBrain!Returned(s, {}) \/ r = GBrain!RaisedFrom(s)
  BY DEF GBrain!AwaitReady
<1>2. CASE r = GBrain!Returned(s, {})
  BY <1>2, SameKept DEF GBrain!Returned, Unmoved
<1>3. CASE r = GBrain!RaisedFrom(s)
  <2>1. r.a = [s EXCEPT !.faults = @ + 1] /\ r.raised = TRUE
    BY <1>3 DEF GBrain!RaisedFrom, GBrain!Refused, GBrain!Failing
  <2> QED BY <2>1, RaisedAfter DEF Unmoved
<1> QED BY <1>1, <1>2, <1>3

LEMMA GBrainRetrieve ==
    ASSUME NEW p \in GBrains, NEW s \in Wide, NEW q, NEW r \in GBrain!Retrieve(s, q)
    PROVE  /\ Unmoved(p, s, r) /\ (r.raised => r.value = {})
           /\ ~r.raised => r.value \subseteq s.listed \cap Visible[q]
<1>1. \/ \E hits : r = GBrain!Returned(s, hits \cap s.listed \cap Visible[q])
      \/ r = GBrain!RaisedFrom(s)
  BY DEF GBrain!Retrieve
<1>2. ASSUME NEW hits, r = GBrain!Returned(s, hits \cap s.listed \cap Visible[q])
      PROVE  Unmoved(p, s, r) /\ r.raised = FALSE /\ r.value \subseteq s.listed \cap Visible[q]
  BY <1>2, SameKept DEF GBrain!Returned, Unmoved
<1>3. CASE r = GBrain!RaisedFrom(s)
  <2>1. r.a = [s EXCEPT !.faults = @ + 1] /\ r.raised = TRUE /\ r.value = {}
    BY <1>3 DEF GBrain!RaisedFrom, GBrain!Refused, GBrain!Failing
  <2> QED BY <2>1, RaisedAfter DEF Unmoved
<1> QED BY <1>1, <1>2, <1>3

LEMMA GBrainRefill ==
    ASSUME NEW p \in GBrains, NEW s \in Wide, NEW sn, sn.events \in SUBSET Events,
           NEW r \in GBrain!Restore(s, sn, Ollama(p)) \cup GBrain!ImportData(s, sn, Ollama(p))
    PROVE  Refilled(p, s, sn.events, r)
<1>1. \/ r \in GBrain!Reset(s, Ollama(p)) /\ r.raised
      \/ \E f \in GBrain!Reset(s, Ollama(p)) :
            ~f.raised /\ r \in GBrain!Ingest(f.a, sn.events)
  BY DEF GBrain!Restore, GBrain!ImportData, GBrain!Then, GBrain!ThenWith
<1>2. CASE r \in GBrain!Reset(s, Ollama(p)) /\ r.raised
  BY <1>2, GBrainReset DEF Emptied, Refilled
<1>3. ASSUME NEW f \in GBrain!Reset(s, Ollama(p)), ~f.raised,
             r \in GBrain!Ingest(f.a, sn.events)
      PROVE  Refilled(p, s, sn.events, r)
  <2>1. Emptied(p, s, f) /\ f.a \in Wide
    BY GBrainReset DEF Emptied, Kept, Sound
  <2>2. Filled(p, f.a, sn.events, r)
    BY <1>3, <2>1, GBrainIngest
  <2> QED BY <1>3, <2>1, <2>2, RefilledThen, GBrainProducts
<1> QED BY <1>1, <1>2, <1>3

LEMMA GBrainCleanup ==
    ASSUME NEW p \in GBrains, NEW s \in Wide, NEW r \in GBrain!Cleanup(s)
    PROVE  Closed(p, s, r)
<1>1. PICK t \in {FALSE, s.trash} : r = GBrain!Returned([s EXCEPT !.trash = t], {})
  BY DEF GBrain!Cleanup
<1>2. r.a = [s EXCEPT !.trash = t] /\ r.raised = FALSE
  BY <1>1 DEF GBrain!Returned
<1>3. /\ r.a \in Wide /\ r.a.faults = s.faults /\ r.a.listed = s.listed
      /\ r.a.store = s.store /\ r.a.keys = s.keys /\ r.a.pages = s.pages /\ r.a.head = s.head
      /\ r.a.home = s.home
  BY <1>2 DEF Wide
<1> QED BY <1>3 DEF Closed

-----------------------------------------------------------------------------
(* OptMem.                                                                 *)
LEMMA OptMemProducts ==
    ASSUME NEW p \in OptMems
    PROVE  /\ p \notin Storeless /\ p \notin Single /\ p \notin Fixed /\ p \notin Mem0s
           /\ p \notin GBrains /\ p \in AllProducts /\ p \in Exporting \ {"mem0-native"}
           /\ p # "bm25-sqlite-fts" /\ p # "mem0-native" /\ p # "mem0"
           /\ p # "gbrain-ollama" /\ \A s : Intact(p, s)
  BY DEF OptMems, Mem0s, GBrains, Storeless, Single, Lists, Fixed, Exporting, AllProducts,
         Intact

LEMMA OptMemReset ==
    ASSUME NEW p \in OptMems, NEW s \in Wide, NEW r \in OptMem!Reset(s)
    PROVE  Emptied(p, s, r)
<1> DEFINE fresh == [s EXCEPT !.store = {}, !.listed = {}]
           gone == [s EXCEPT !.store = {}]
<1>1. fresh \in Wide /\ fresh.store = {} /\ fresh.listed = {} /\ fresh.faults = s.faults
  BY DEF Wide
<1>2. gone \in Wide /\ gone.store = {} /\ gone.faults = s.faults
  BY DEF Wide
<1>3. \/ r = OptMem!Returned(fresh, {})
      \/ r = OptMem!RaisedFrom(s) \/ r = OptMem!RaisedFrom(gone)
  BY DEF OptMem!Reset
<1> HIDE DEF fresh, gone
<1>4. CASE r = OptMem!Returned(fresh, {})
  <2>1. r.a = fresh /\ r.raised = FALSE
    BY <1>4 DEF OptMem!Returned
  <2>2. Sound(s, r)
    BY <1>1, <2>1 DEF Sound, Wide
  <2>3. Shaped(p, r.a) /\ Tidy(p, r.a) /\ Agree(p, r.a)
    BY <1>1, <2>1, OfUnion, FS_EmptySet, OptMemProducts DEF Shaped, Tidy, Agree
  <2> QED BY <1>1, <2>1, <2>2, <2>3, OptMemProducts, KeptWithout DEF Emptied
<1>5. ASSUME NEW w \in {s, gone}, r = OptMem!RaisedFrom(w)
      PROVE  Emptied(p, s, r)
  <2>1. w \in Wide /\ w.faults = s.faults /\ (w.store = s.store \/ w.store = {})
    BY <1>2
  <2>2. r.raised = TRUE /\ r.value = {} /\ r.a = [w EXCEPT !.faults = @ + 1]
    BY <1>5 DEF OptMem!RaisedFrom, OptMem!Refused, OptMem!Failing
  <2>3. Broken(s, r)
    BY <2>1, <2>2 DEF Broken
  <2> QED BY <2>3, BrokenKept, OptMemProducts DEF Emptied
<1> QED BY <1>3, <1>4, <1>5

LEMMA OptMemNew ==
    ASSUME NEW p \in OptMems, NEW s \in Wide, NEW r \in OptMem!New(s)
    PROVE  Built(p, s, r)
<1> DEFINE t == [s EXCEPT !.listed = {}]
<1>1. t \in Wide /\ t.store = s.store /\ t.faults = s.faults
  BY DEF Wide
<1>2. r \in OptMem!Reset(t)
  BY DEF OptMem!New
<1> HIDE DEF t
<1>3. Emptied(p, t, r)
  BY <1>1, <1>2, OptMemReset
<1>4. Sound(s, r) /\ (Shaped(p, s) => Shaped(p, r.a))
  BY <1>1, <1>3 DEF Emptied, Kept, Sound, Shaped
<1>5. r.raised => r.a.faults # s.faults
  <2>1. ASSUME r.raised PROVE r.a.faults # s.faults
    <3>1. r = OptMem!RaisedFrom(t) \/ r = OptMem!RaisedFrom([t EXCEPT !.store = {}])
      BY <1>2, <2>1 DEF OptMem!Reset, OptMem!Returned
    <3>2. [t EXCEPT !.store = {}] \in Wide /\ [t EXCEPT !.store = {}].faults = t.faults
      BY <1>1 DEF Wide
    <3>3. CASE r = OptMem!RaisedFrom(t)
      BY <1>1, <3>3 DEF OptMem!RaisedFrom, OptMem!Refused, OptMem!Failing, Wide
    <3>4. CASE r = OptMem!RaisedFrom([t EXCEPT !.store = {}])
      <4> DEFINE u == [t EXCEPT !.store = {}]
      <4>1. u \in Wide /\ u.faults = t.faults /\ r = OptMem!RaisedFrom(u)
        BY <3>2, <3>4
      <4> HIDE DEF u
      <4>2. r.a = [u EXCEPT !.faults = @ + 1]
        BY <4>1 DEF OptMem!RaisedFrom, OptMem!Refused, OptMem!Failing
      <4>3. r.a.faults = u.faults + 1
        BY <4>1, <4>2, Faulted
      <4> QED BY <1>1, <4>1, <4>3 DEF Wide
    <3> QED BY <3>1, <3>3, <3>4
  <2> QED BY <2>1
<1>6. ~r.raised => r.a.listed = {} /\ Tidy(p, r.a)
  BY <1>3, OptMemProducts DEF Emptied, Tidy
<1> QED BY <1>4, <1>5, <1>6, OptMemProducts DEF Built

(* The log's lines are numbered.                                           *)
LEMMA OptMemLines ==
    ASSUME NEW s \in Wide, IsFiniteSet(s.store), NEW S, S \subseteq Events
    PROVE  /\ OptMem!Lines(s, S) \subseteq Memories /\ IsFiniteSet(OptMem!Lines(s, S))
           /\ Of(OptMem!Lines(s, S)) = S
<1> DEFINE n(e) == OptMem!Cardinality(s.store) + OptMem!Cardinality({f \in S : f <= e})
<1>1. \A T : OptMem!Cardinality(T) = Cardinality(T)
  BY DEF OptMem!Cardinality, Cardinality
<1>2. IsFiniteSet(S)
  BY AdapterAssumption, FS_Subset
<1>3. \A e : n(e) \in Nat
  <2> TAKE e
  <2>1. IsFiniteSet({f \in S : f <= e})
    BY <1>2, FS_Subset
  <2>2. Cardinality(s.store) \in Nat /\ Cardinality({f \in S : f <= e}) \in Nat
    BY <2>1, FS_CardinalityType
  <2> QED BY <1>1, <2>2
<1>4. OptMem!Lines(s, S) = {<<e, n(e)>> : e \in S}
  BY DEF OptMem!Lines
<1> HIDE DEF n
<1>5. \A m \in OptMem!Lines(s, S) : m \in Memories /\ m[1] \in S
  BY <1>3, <1>4 DEF Memories
<1>6. \A e \in S : e \in Of(OptMem!Lines(s, S))
  <2> TAKE e \in S
  <2>1. <<e, n(e)>> \in OptMem!Lines(s, S) /\ <<e, n(e)>>[1] = e
    BY <1>4
  <2> QED BY <2>1 DEF Of
<1>7. IsFiniteSet(OptMem!Lines(s, S))
  <2> DEFINE g == [e \in S |-> <<e, n(e)>>]
  <2>1. OptMem!Lines(s, S) = {g[e] : e \in S}
    BY <1>4
  <2>2. g \in Surjection(S, OptMem!Lines(s, S))
    BY <1>4 DEF Surjection
  <2> HIDE DEF g
  <2> QED BY <1>2, <2>2, FS_Surjection
<1>8. Of(OptMem!Lines(s, S)) \subseteq S
  BY <1>5 DEF Of
<1> QED BY <1>5, <1>6, <1>7, <1>8

LEMMA OptMemIngest ==
    ASSUME NEW p \in OptMems, NEW s \in Wide, Shaped(p, s), NEW batch \in SUBSET Events,
           NEW r \in OptMem!Ingest(s, batch)
    PROVE  Filled(p, s, batch, r)
<1> DEFINE fresh == batch \ s.listed
           imported(S) == [s EXCEPT !.store = @ \cup OptMem!Lines(s, S)]
<1>0. IsFiniteSet(s.store)
  BY DEF Shaped
<1>1. \A S \in SUBSET fresh :
         /\ imported(S) \in Wide /\ imported(S).listed = s.listed
         /\ imported(S).store = s.store \cup OptMem!Lines(s, S)
         /\ imported(S).faults = s.faults /\ IsFiniteSet(imported(S).store)
         /\ Of(imported(S).store) = Of(s.store) \cup S
  <2> TAKE S \in SUBSET fresh
  <2>1. /\ OptMem!Lines(s, S) \subseteq Memories /\ IsFiniteSet(OptMem!Lines(s, S))
        /\ Of(OptMem!Lines(s, S)) = S
    BY <1>0, OptMemLines
  <2>2. /\ imported(S) \in Wide /\ imported(S).listed = s.listed
        /\ imported(S).store = s.store \cup OptMem!Lines(s, S)
        /\ imported(S).faults = s.faults
    BY <2>1 DEF Wide
  <2>3. IsFiniteSet(s.store \cup OptMem!Lines(s, S))
    BY <1>0, <2>1, FS_Union
  <2> QED BY <2>1, <2>2, <2>3, OfUnion
<1>2. \/ fresh = {} /\ r = OptMem!Returned(s, 0)
      \/ fresh \cap TooLong # {} /\ r = OptMem!Refused(s)
      \/ \E v : r = OptMem!Returned([imported(fresh) EXCEPT !.listed = @ \cup fresh], v)
      \/ \E S \in SUBSET fresh : r = OptMem!RaisedFrom(imported(S))
  BY DEF OptMem!Ingest
<1>3. CASE fresh = {} /\ r = OptMem!Returned(s, 0)
  <2>1. r.a = s /\ r.raised = FALSE
    BY <1>3 DEF OptMem!Returned
  <2>2. s.listed = s.listed \cup batch
    BY <1>3
  <2> QED BY <2>1, <2>2, SameKept DEF Filled, Held
<1>4. CASE fresh \cap TooLong # {} /\ r = OptMem!Refused(s)
  <2>1. r.a = s /\ r.raised = TRUE
    BY <1>4 DEF OptMem!Refused
  <2> QED BY <1>4, <2>1, SameKept DEF Filled
<1>5. ASSUME NEW v, r = OptMem!Returned([imported(fresh) EXCEPT !.listed = @ \cup fresh], v)
      PROVE  Filled(p, s, batch, r)
  <2> DEFINE w == imported(fresh)
  <2>1. /\ w \in Wide /\ w.listed = s.listed /\ w.faults = s.faults
        /\ IsFiniteSet(w.store) /\ Of(w.store) = Of(s.store) \cup fresh
    BY <1>1
  <2>2. r.a = [w EXCEPT !.listed = @ \cup fresh] /\ r.raised = FALSE
    BY <1>5 DEF OptMem!Returned
  <2> HIDE DEF w
  <2>3. /\ r.a \in Wide /\ r.a.listed = s.listed \cup batch /\ r.a.faults = s.faults
        /\ r.a.store = w.store
    BY <2>1, <2>2 DEF Wide
  <2>4. Sound(s, r)
    BY <2>2, <2>3 DEF Sound, Wide
  <2>5. Shaped(p, r.a) /\ Tidy(p, r.a) /\ (Agree(p, s) => Agree(p, r.a))
    BY <2>1, <2>3, OptMemProducts DEF Shaped, Tidy, Agree
  <2>6. Kept(p, s, r)
    BY <2>4, <2>5, OptMemProducts, KeptWithout
  <2> QED BY <2>2, <2>3, <2>6, OptMemProducts DEF Filled, Held
<1>6. ASSUME NEW S \in SUBSET fresh, r = OptMem!RaisedFrom(imported(S))
      PROVE  Filled(p, s, batch, r)
  <2> DEFINE w == imported(S)
  <2>1. w \in Wide /\ w.faults = s.faults /\ IsFiniteSet(w.store)
    BY <1>1
  <2>2. r.a = [w EXCEPT !.faults = @ + 1] /\ r.raised = TRUE
    BY <1>6 DEF OptMem!RaisedFrom, OptMem!Refused, OptMem!Failing
  <2> HIDE DEF w
  <2>3. Shaped(p, w)
    BY <2>1, OptMemProducts DEF Shaped
  <2>4. Kept(p, s, r) /\ r.a.faults # s.faults
    BY <2>1, <2>2, <2>3, RaisedAfter, ZenonT(60)
  <2> QED BY <2>2, <2>4 DEF Filled
<1> HIDE DEF fresh, imported
<1> QED BY <1>2, <1>3, <1>4, <1>5, <1>6

LEMMA OptMemRetrieve ==
    ASSUME NEW p \in OptMems, NEW s \in Wide, NEW q,
           NEW r \in OptMem!Retrieve(s, q, p = "optmem")
    PROVE  /\ Unmoved(p, s, r) /\ (r.raised => r.value = {})
           /\ ~r.raised => r.value \subseteq s.listed
           /\ ~r.raised /\ p = "optmem" => r.value \subseteq Visible[q]
<1> DEFINE answer(hits) == hits \cap s.listed
                           \cap (IF p = "optmem" THEN Visible[q] ELSE Events)
<1>1. \/ \E hits : r = OptMem!Returned(s, answer(hits))
      \/ r = OptMem!RaisedFrom(s)
  BY DEF OptMem!Retrieve
<1>2. ASSUME NEW hits, r = OptMem!Returned(s, answer(hits))
      PROVE  /\ Unmoved(p, s, r) /\ r.raised = FALSE /\ r.value \subseteq s.listed
             /\ p = "optmem" => r.value \subseteq Visible[q]
  BY <1>2, SameKept DEF OptMem!Returned, Unmoved
<1>3. CASE r = OptMem!RaisedFrom(s)
  <2>1. r.a = [s EXCEPT !.faults = @ + 1] /\ r.raised = TRUE /\ r.value = {}
    BY <1>3 DEF OptMem!RaisedFrom, OptMem!Refused, OptMem!Failing
  <2> QED BY <2>1, RaisedAfter DEF Unmoved
<1> QED BY <1>1, <1>2, <1>3

LEMMA OptMemRefill ==
    ASSUME NEW p \in OptMems, NEW s \in Wide, Shaped(p, s),
           NEW sn, sn.events \in SUBSET Events,
           NEW r \in OptMem!Restore(s, sn) \cup OptMem!ImportData(s, sn)
    PROVE  Refilled(p, s, sn.events, r)
<1>1. \/ r \in OptMem!Reset(s) /\ r.raised
      \/ \E f \in OptMem!Reset(s) : ~f.raised /\ r \in OptMem!Ingest(f.a, sn.events)
  BY DEF OptMem!Restore, OptMem!ImportData, OptMem!Then, OptMem!ThenWith
<1>2. CASE r \in OptMem!Reset(s) /\ r.raised
  BY <1>2, OptMemReset DEF Emptied, Refilled
<1>3. ASSUME NEW f \in OptMem!Reset(s), ~f.raised, r \in OptMem!Ingest(f.a, sn.events)
      PROVE  Refilled(p, s, sn.events, r)
  <2>1. Emptied(p, s, f) /\ f.a \in Wide /\ Shaped(p, f.a)
    BY OptMemReset DEF Emptied, Kept, Sound
  <2>2. Filled(p, f.a, sn.events, r)
    BY <1>3, <2>1, OptMemIngest
  <2> QED BY <1>3, <2>1, <2>2, RefilledThen, OptMemProducts
<1> QED BY <1>1, <1>2, <1>3
-----------------------------------------------------------------------------
(* SqliteFts.                                                              *)
LEMMA FtsProduct ==
    /\ "bm25-sqlite-fts" \notin Storeless /\ "bm25-sqlite-fts" \in Single
    /\ "bm25-sqlite-fts" \notin Fixed /\ "bm25-sqlite-fts" \notin Mem0s
    /\ "bm25-sqlite-fts" \notin GBrains /\ "bm25-sqlite-fts" \notin OptMems
    /\ "bm25-sqlite-fts" \notin Exporting /\ "bm25-sqlite-fts" \in AllProducts
  BY DEF OptMems, Mem0s, GBrains, Storeless, Single, Lists, Fixed, Exporting, AllProducts

(* The database is replaced and the list emptied, or a failure met.        *)
Wiped(s, r) ==
    \/ Broken(s, r)
    \/ /\ r.raised = FALSE /\ r.a \in Wide /\ r.a.faults = s.faults
       /\ r.a.store = {} /\ r.a.listed = {}

LEMMA FtsWiped ==
    ASSUME NEW s \in Wide, NEW r \in Lexical!FtsReset(s)
    PROVE  Wiped(s, r)
<1> DEFINE gone == [s EXCEPT !.store = {}]
           fresh == [gone EXCEPT !.listed = {}]
<1>1. gone \in Wide /\ gone.store = {} /\ gone.faults = s.faults
  BY DEF Wide
<1>2. \/ r = Lexical!Returned(fresh, {})
      \/ r = Lexical!RaisedFrom(s) \/ r = Lexical!RaisedFrom(gone)
  BY DEF Lexical!FtsReset
<1>3. fresh \in Wide /\ fresh.store = {} /\ fresh.listed = {} /\ fresh.faults = s.faults
  BY <1>1 DEF Wide
<1> HIDE DEF fresh, gone
<1>4. CASE r = Lexical!Returned(fresh, {})
  BY <1>3, <1>4 DEF Lexical!Returned, Wiped
<1>5. ASSUME NEW w \in {s, gone}, r = Lexical!RaisedFrom(w)
      PROVE  Wiped(s, r)
  <2>1. w \in Wide /\ w.faults = s.faults /\ (w.store = s.store \/ w.store = {})
    BY <1>1
  <2>2. r.raised = TRUE /\ r.value = {} /\ r.a = [w EXCEPT !.faults = @ + 1]
    BY <1>5 DEF Lexical!RaisedFrom, Lexical!Refused, Lexical!Failing
  <2>3. Broken(s, r)
    BY <2>1, <2>2 DEF Broken
  <2> QED BY <2>3 DEF Wiped
<1> QED BY <1>2, <1>4, <1>5

LEMMA FtsReset ==
    ASSUME NEW s \in Wide, NEW r \in Lexical!FtsReset(s)
    PROVE  Emptied("bm25-sqlite-fts", s, r)
<1>1. CASE Broken(s, r)
  BY <1>1, BrokenKept, FtsProduct DEF Emptied
<1>2. ASSUME r.raised = FALSE, r.a \in Wide, r.a.faults = s.faults,
             r.a.store = {}, r.a.listed = {}
      PROVE  Emptied("bm25-sqlite-fts", s, r)
  <2>1. Sound(s, r)
    BY <1>2 DEF Sound, Wide
  <2>2. /\ Shaped("bm25-sqlite-fts", r.a) /\ Tidy("bm25-sqlite-fts", r.a)
        /\ Agree("bm25-sqlite-fts", r.a) /\ Intact("bm25-sqlite-fts", r.a)
    BY <1>2, OfUnion, FS_EmptySet, FtsProduct DEF Shaped, Tidy, Agree, Intact
  <2>3. Kept("bm25-sqlite-fts", s, r)
    BY <2>1, <2>2, FtsProduct, KeptWithout
  <2> QED BY <1>2, <2>2, <2>3 DEF Emptied
<1> QED BY <1>1, <1>2, FtsWiped DEF Wiped

LEMMA FtsNew ==
    ASSUME NEW s \in Wide, NEW r \in Lexical!FtsNew(s)
    PROVE  Built("bm25-sqlite-fts", s, r)
<1> DEFINE t == [s EXCEPT !.listed = {}]
<1>1. t \in Wide /\ t.store = s.store /\ t.faults = s.faults
  BY DEF Wide
<1>2. r \in Lexical!FtsReset(t)
  BY DEF Lexical!FtsNew
<1> HIDE DEF t
<1>3. Emptied("bm25-sqlite-fts", t, r)
  BY <1>1, <1>2, FtsReset
<1>4. /\ Sound(s, r)
      /\ Shaped("bm25-sqlite-fts", s) => Shaped("bm25-sqlite-fts", r.a)
  BY <1>1, <1>3 DEF Emptied, Kept, Sound, Shaped
<1>5. r.raised => r.a.faults # s.faults
  <2>1. Wiped(t, r)
    BY <1>1, <1>2, FtsWiped
  <2>2. Broken(t, r) => r.a.faults # s.faults
    BY <1>1, BrokenKept, FtsProduct
  <2> QED BY <2>1, <2>2 DEF Wiped
<1>6. ~r.raised => /\ r.a.listed = {} /\ Tidy("bm25-sqlite-fts", r.a)
                   /\ Intact("bm25-sqlite-fts", r.a)
  <2>1. Wiped(t, r)
    BY <1>1, <1>2, FtsWiped
  <2> QED BY <2>1, OfUnion, FtsProduct DEF Wiped, Broken, Tidy, Intact
<1> QED BY <1>4, <1>5, <1>6, FtsProduct DEF Built, Mem0s

LEMMA FtsIngest ==
    ASSUME NEW s \in Wide, NEW batch \in SUBSET Events, NEW r \in Lexical!FtsIngest(s, batch)
    PROVE  Filled("bm25-sqlite-fts", s, batch, r)
<1> DEFINE fresh == batch \ s.listed
           w == [s EXCEPT !.store = @ \cup Lexical!Rows(fresh), !.listed = @ \cup fresh]
           ahead(S) == [s EXCEPT !.listed = @ \cup S]
<1>1. (\E v : r = Lexical!Returned(w, v)) \/ (\E S \in SUBSET fresh : r = Lexical!RaisedFrom(ahead(S)))
  BY DEF Lexical!FtsIngest
<1>2. ASSUME NEW v, r = Lexical!Returned(w, v)
      PROVE  Filled("bm25-sqlite-fts", s, batch, r)
  <2>1. fresh \X {0} \subseteq Memories
    BY DEF Memories
  <2>2. /\ w \in Wide /\ w.listed = s.listed \cup batch /\ w.faults = s.faults
        /\ w.store = s.store \cup (fresh \X {0})
    BY <2>1 DEF Wide, Lexical!Rows
  <2>3. r.a = w /\ r.raised = FALSE
    BY <1>2 DEF Lexical!Returned
  <2> HIDE DEF w
  <2>4. Of(w.store) = Of(s.store) \cup fresh
    <3>1. Of(fresh \X {0}) = fresh
      BY OfSingle
    <3> QED BY <2>2, <3>1, OfUnion
  <2>5. Sound(s, r)
    BY <2>2, <2>3 DEF Sound, Wide
  <2>6. /\ Shaped("bm25-sqlite-fts", s) => Shaped("bm25-sqlite-fts", r.a)
        /\ Tidy("bm25-sqlite-fts", s) => Tidy("bm25-sqlite-fts", r.a)
        /\ Intact("bm25-sqlite-fts", s) => Intact("bm25-sqlite-fts", r.a)
    <3>1. fresh \X {0} \subseteq Events \X {0}
      OBVIOUS
    <3>2. Shaped("bm25-sqlite-fts", s) => Shaped("bm25-sqlite-fts", r.a)
      BY <2>2, <2>3, <3>1, FtsProduct DEF Shaped
    <3>3. /\ Tidy("bm25-sqlite-fts", s) => Tidy("bm25-sqlite-fts", r.a)
          /\ Intact("bm25-sqlite-fts", s) => Intact("bm25-sqlite-fts", r.a)
      BY <2>2, <2>3, <2>4, FtsProduct DEF Tidy, Intact
    <3> QED BY <3>2, <3>3
  <2>7. Agree("bm25-sqlite-fts", s) => Agree("bm25-sqlite-fts", r.a)
    BY <2>2, <2>3, <2>4, FtsProduct DEF Agree
  <2>8. Kept("bm25-sqlite-fts", s, r)
    BY <2>5, <2>6, <2>7, FtsProduct, KeptWithout
  <2>9. Held("bm25-sqlite-fts", r.a) \subseteq Held("bm25-sqlite-fts", s) \cup batch
    BY <2>3, <2>4 DEF Held
  <2> QED BY <2>2, <2>3, <2>8, <2>9 DEF Filled
<1>3. ASSUME NEW S \in SUBSET fresh, r = Lexical!RaisedFrom(ahead(S))
      PROVE  Filled("bm25-sqlite-fts", s, batch, r)
  <2> DEFINE x == ahead(S)
  <2>1. x \in Wide /\ x.faults = s.faults /\ x.store = s.store
    BY DEF Wide
  <2>2. r.a = [x EXCEPT !.faults = @ + 1] /\ r.raised = TRUE
    BY <1>3 DEF Lexical!RaisedFrom, Lexical!Refused, Lexical!Failing
  <2> HIDE DEF x
  <2>3. Shaped("bm25-sqlite-fts", s) => Shaped("bm25-sqlite-fts", x)
    BY <2>1 DEF Shaped
  <2>4. Kept("bm25-sqlite-fts", s, r) /\ r.a.faults # s.faults
    <3>1. x \in Wide /\ x.faults = s.faults
      BY <2>1
    <3> QED BY <2>2, <2>3, <3>1, RaisedAfter, ZenonT(60)
  <2> QED BY <2>2, <2>4 DEF Filled
<1> HIDE DEF fresh, w, ahead
<1> QED BY <1>1, <1>2, <1>3

LEMMA FtsDelete ==
    ASSUME NEW s \in Wide, Shaped("bm25-sqlite-fts", s), NEW e,
           NEW r \in Lexical!FtsDelete(s, e)
    PROVE  Deleted("bm25-sqlite-fts", s, e, r)
<1> DEFINE w == [s EXCEPT !.store = @ \ Lexical!Rows({e}), !.listed = @ \ {e}]
<1>1. \/ e \notin Of(s.store) /\ r = Lexical!Returned(s, FALSE)
      \/ r = Lexical!Returned(w, TRUE) \/ r = Lexical!RaisedFrom(s)
  BY DEF Lexical!FtsDelete, Lexical!Stored, Of
<1>2. CASE e \notin Of(s.store) /\ r = Lexical!Returned(s, FALSE)
  <2>1. r.a = s /\ r.raised = FALSE /\ r.value = FALSE
    BY <1>2 DEF Lexical!Returned
  <2> QED BY <1>2, <2>1, SameKept DEF Deleted, Held
<1>3. CASE r = Lexical!Returned(w, TRUE)
  <2>1. r.a = w /\ r.raised = FALSE /\ r.value = TRUE
    BY <1>3 DEF Lexical!Returned
  <2>2. /\ w \in Wide /\ w.listed = s.listed \ {e} /\ w.faults = s.faults
        /\ w.store = s.store \ ({e} \X {0})
    BY DEF Wide, Lexical!Rows
  <2> HIDE DEF w
  <2>3. Of(w.store) = Of(s.store) \ {e}
    BY <2>2, OfWithout, FtsProduct DEF Shaped
  <2>4. Sound(s, r)
    BY <2>1, <2>2 DEF Sound, Wide
  <2>5. /\ Shaped("bm25-sqlite-fts", r.a)
        /\ Tidy("bm25-sqlite-fts", s) => Tidy("bm25-sqlite-fts", r.a)
        /\ Intact("bm25-sqlite-fts", s) => Intact("bm25-sqlite-fts", r.a)
    BY <2>1, <2>2, <2>3, FtsProduct DEF Shaped, Tidy, Intact
  <2>6. Agree("bm25-sqlite-fts", s) => Agree("bm25-sqlite-fts", r.a)
    BY <2>1, <2>2, <2>3, FtsProduct DEF Agree
  <2>7. Kept("bm25-sqlite-fts", s, r)
    BY <2>4, <2>5, <2>6, FtsProduct, KeptWithout
  <2> QED BY <2>1, <2>2, <2>3, <2>7 DEF Deleted, Held
<1>4. CASE r = Lexical!RaisedFrom(s)
  <2>1. r.a = [s EXCEPT !.faults = @ + 1] /\ r.raised = TRUE
    BY <1>4 DEF Lexical!RaisedFrom, Lexical!Refused, Lexical!Failing
  <2> QED BY <2>1, RaisedAfter DEF Deleted
<1> HIDE DEF w
<1> QED BY <1>1, <1>2, <1>3, <1>4

LEMMA FtsRetrieve ==
    ASSUME NEW s \in Wide, NEW q, NEW r \in Lexical!FtsRetrieve(s, q)
    PROVE  /\ Unmoved("bm25-sqlite-fts", s, r)
           /\ r.raised => r.value = {}
           /\ ~r.raised => r.value \subseteq Of(s.store) \cap Visible[q]
<1>1. \/ r = Lexical!RaisedFrom(s)
      \/ \E rows \in SUBSET (Of(s.store) \cap Visible[q]) : r = Lexical!Returned(s, rows)
  <2>1. \A matching : \A rows \in Lexical!FtsSearch(s, q, matching) :
            rows \in SUBSET (Of(s.store) \cap Visible[q])
    BY DEF Lexical!FtsSearch, Lexical!AtMostK, Lexical!Stored, Of
  <2> QED BY <2>1 DEF Lexical!FtsRetrieve
<1>2. CASE r = Lexical!RaisedFrom(s)
  <2>1. r.a = [s EXCEPT !.faults = @ + 1] /\ r.raised = TRUE /\ r.value = {}
    BY <1>2 DEF Lexical!RaisedFrom, Lexical!Refused, Lexical!Failing
  <2> QED BY <2>1, RaisedAfter DEF Unmoved
<1>3. ASSUME NEW rows \in SUBSET (Of(s.store) \cap Visible[q]), r = Lexical!Returned(s, rows)
      PROVE  /\ Unmoved("bm25-sqlite-fts", s, r) /\ r.raised = FALSE
             /\ r.value \subseteq Of(s.store) \cap Visible[q]
  BY <1>3, SameKept DEF Lexical!Returned, Unmoved
<1> QED BY <1>1, <1>2, <1>3

LEMMA FtsRefill ==
    ASSUME NEW s \in Wide, NEW sn, sn.events \in SUBSET Events,
           NEW r \in Lexical!FtsRestore(s, sn)
    PROVE  Refilled("bm25-sqlite-fts", s, sn.events, r)
<1>1. \/ r \in Lexical!FtsReset(s) /\ r.raised
      \/ \E f \in Lexical!FtsReset(s) : ~f.raised /\ r \in Lexical!FtsIngest(f.a, sn.events)
  BY DEF Lexical!FtsRestore, Lexical!Then, Lexical!ThenWith
<1>2. CASE r \in Lexical!FtsReset(s) /\ r.raised
  BY <1>2, FtsReset DEF Emptied, Refilled
<1>3. ASSUME NEW f \in Lexical!FtsReset(s), ~f.raised, r \in Lexical!FtsIngest(f.a, sn.events)
      PROVE  Refilled("bm25-sqlite-fts", s, sn.events, r)
  <2>1. Emptied("bm25-sqlite-fts", s, f) /\ f.a \in Wide
    BY FtsReset DEF Emptied, Kept, Sound
  <2>2. Filled("bm25-sqlite-fts", f.a, sn.events, r)
    BY <1>3, <2>1, FtsIngest
  <2> QED BY <1>3, <2>1, <2>2, RefilledThen, FtsProduct
<1> QED BY <1>1, <1>2, <1>3

-----------------------------------------------------------------------------
(* The products that are their list.                                       *)
LEMMA StorelessProducts ==
    ASSUME NEW p \in Storeless
    PROVE  /\ p \notin Single /\ p \notin Mem0s /\ p \notin GBrains /\ p \notin OptMems
           /\ p \notin Exporting /\ p \in AllProducts
           /\ p # "bm25-sqlite-fts" /\ p # "mem0-native" /\ p # "mem0"
           /\ \A s : Intact(p, s)
  BY DEF OptMems, Mem0s, GBrains, Storeless, Single, Lists, Fixed, Exporting, AllProducts,
         Intact

(* The list becomes L, and nothing else.                                   *)
Listing(s, L, r) == r.raised = FALSE /\ r.a = [s EXCEPT !.listed = L]

LEMMA ListingKept ==
    \A p \in Storeless : \A s \in Wide : \A L, r :
        L \subseteq Events /\ Listing(s, L, r) =>
           /\ Kept(p, s, r) /\ r.raised = FALSE /\ r.a.listed = L
           /\ r.a.faults = s.faults /\ r.a.store = s.store
           /\ Shaped(p, s) => Agree(p, r.a)
<1> TAKE p \in Storeless
<1> TAKE s \in Wide
<1> TAKE L, r
<1> HAVE L \subseteq Events /\ Listing(s, L, r)
<1>1. /\ r.a \in Wide /\ r.a.listed = L /\ r.a.store = s.store
      /\ r.a.faults = s.faults /\ r.raised = FALSE
  BY DEF Listing, Wide
<1>2. Sound(s, r) /\ (Shaped(p, s) => Shaped(p, r.a)) /\ Tidy(p, r.a)
  BY <1>1, StorelessProducts DEF Sound, Shaped, Tidy, Wide
<1>3. Shaped(p, s) => Agree(p, r.a)
  BY <1>1, OfUnion, StorelessProducts DEF Shaped, Agree
<1>4. Kept(p, s, r)
  BY <1>2, <1>3, StorelessProducts, KeptWithout
<1> QED BY <1>1, <1>3, <1>4

LEMMA ListingSame ==
    ASSUME NEW s \in Wide
    PROVE  s = [s EXCEPT !.listed = s.listed] /\ s.listed \in SUBSET Events
  BY DEF Wide

LEMMA ListingBuilt ==
    ASSUME NEW p \in Storeless, NEW s \in Wide, NEW r, Listing(s, {}, r)
    PROVE  Built(p, s, r) /\ Emptied(p, s, r)
<1>1. /\ Kept(p, s, r) /\ r.raised = FALSE /\ r.a.listed = {}
      /\ Shaped(p, s) => Agree(p, r.a)
  BY ListingKept
<1>2. Tidy(p, r.a)
  BY StorelessProducts DEF Tidy
<1> QED BY <1>1, <1>2, StorelessProducts DEF Built, Emptied, Kept

LEMMA ListingFilled ==
    ASSUME NEW p \in Storeless, NEW s \in Wide, NEW batch, batch \subseteq Events, NEW r,
           \/ Listing(s, s.listed \cup batch, r)
           \/ p \in Fixed /\ Listing(s, batch, r)
    PROVE  Filled(p, s, batch, r)
<1>1. s.listed \cup batch \subseteq Events
  BY DEF Wide
<1>2. CASE Listing(s, s.listed \cup batch, r)
  <2>1. Kept(p, s, r) /\ r.raised = FALSE /\ r.a.listed = s.listed \cup batch
    BY <1>1, <1>2, ListingKept
  <2> QED BY <2>1, StorelessProducts DEF Filled, Held
<1>3. CASE p \in Fixed /\ Listing(s, batch, r)
  <2>1. Kept(p, s, r) /\ r.raised = FALSE /\ r.a.listed = batch
    BY <1>3, ListingKept
  <2> QED BY <1>3, <2>1, StorelessProducts DEF Filled, Held
<1> QED BY <1>2, <1>3

LEMMA ListingDeleted ==
    ASSUME NEW p \in Storeless, NEW s \in Wide, NEW e, NEW r,
           Listing(s, s.listed \ {e}, r), r.value = TRUE \/ (r.value = FALSE /\ e \notin s.listed)
    PROVE  Deleted(p, s, e, r)
<1>1. s.listed \ {e} \subseteq Events
  BY DEF Wide
<1>2. Kept(p, s, r) /\ r.raised = FALSE /\ r.a.listed = s.listed \ {e}
  BY <1>1, ListingKept
<1> QED BY <1>2, StorelessProducts DEF Deleted, Held

(* A deletion that tells whether the event was listed, or that it was.     *)
LEMMA ListingTold ==
    ASSUME NEW s, NEW e, NEW r,
           \/ r = [a |-> [s EXCEPT !.listed = s.listed \ {e}], raised |-> FALSE,
                   value |-> e \in s.listed]
           \/ r = [a |-> [s EXCEPT !.listed = s.listed \ {e}], raised |-> FALSE,
                   value |-> TRUE]
    PROVE  /\ Listing(s, s.listed \ {e}, r)
           /\ r.value = TRUE \/ (r.value = FALSE /\ e \notin s.listed)
<1>1. CASE e \in s.listed
  <2>1. (e \in s.listed) = TRUE
    BY <1>1
  <2>2. r = [a |-> [s EXCEPT !.listed = s.listed \ {e}], raised |-> FALSE, value |-> TRUE]
    BY <2>1
  <2> QED BY <2>2 DEF Listing
<1>2. CASE e \notin s.listed
  <2>1. (e \in s.listed) = FALSE
    BY <1>2
  <2>2. \/ r = [a |-> [s EXCEPT !.listed = s.listed \ {e}], raised |-> FALSE, value |-> FALSE]
        \/ r = [a |-> [s EXCEPT !.listed = s.listed \ {e}], raised |-> FALSE, value |-> TRUE]
    BY <2>1
  <2> QED BY <1>2, <2>2 DEF Listing
<1> QED BY <1>1, <1>2

LEMMA ListingUnmoved ==
    ASSUME NEW p \in Storeless, NEW s \in Wide, NEW v, NEW r,
           r = [a |-> s, raised |-> FALSE, value |-> v]
    PROVE  Unmoved(p, s, r) /\ r.raised = FALSE
  BY SameKept DEF Unmoved

LEMMA PureProduct ==
    "bm25-pure" \in Storeless /\ "bm25-pure" \notin Fixed
  BY DEF Storeless, Fixed

LEMMA PureOperations ==
    ASSUME NEW s \in Wide, NEW r
    PROVE  /\ r \in Lexical!PureNew(s) => Built("bm25-pure", s, r)
           /\ r \in Lexical!PureReset(s) => Emptied("bm25-pure", s, r)
           /\ \A batch \in SUBSET Events :
                 r \in Lexical!PureIngest(s, batch) => Filled("bm25-pure", s, batch, r)
           /\ \A e :
                 r \in Lexical!PureDelete(s, e) => Deleted("bm25-pure", s, e, r)
<1>1. r \in Lexical!PureNew(s) \cup Lexical!PureReset(s) => Listing(s, {}, r)
  BY DEF Lexical!PureNew, Lexical!PureReset, Lexical!Returned, Listing
<1>2. \A batch : r \in Lexical!PureIngest(s, batch) => Listing(s, s.listed \cup batch, r)
  BY DEF Lexical!PureIngest, Lexical!Rebuilt, Lexical!Returned, Listing
<1>3. \A e : r \in Lexical!PureDelete(s, e) =>
                /\ Listing(s, s.listed \ {e}, r)
                /\ r.value = TRUE \/ (r.value = FALSE /\ e \notin s.listed)
  <2> TAKE e
  <2> HAVE r \in Lexical!PureDelete(s, e)
  <2>1. r = [a |-> [s EXCEPT !.listed = s.listed \ {e}], raised |-> FALSE,
             value |-> e \in s.listed]
    BY DEF Lexical!PureDelete, Lexical!Rebuilt, Lexical!Returned
  <2> QED BY <2>1, ListingTold
<1> QED BY <1>1, <1>2, <1>3, PureProduct, ListingBuilt, ListingFilled, ListingDeleted

LEMMA PureRetrieve ==
    ASSUME NEW s \in Wide, NEW q, NEW r \in Lexical!PureRetrieve(s, q)
    PROVE  /\ Unmoved("bm25-pure", s, r) /\ r.raised = FALSE
           /\ r.value \subseteq s.listed \cap Visible[q]
<1>1. PICK best \in SUBSET (s.listed \cap Visible[q]) :
           r = [a |-> s, raised |-> FALSE, value |-> best]
  BY DEF Lexical!PureRetrieve, Lexical!AtMostK, Lexical!Returned
<1> QED BY <1>1, PureProduct, ListingUnmoved

LEMMA PureRefill ==
    ASSUME NEW s \in Wide, NEW sn, sn.events \in SUBSET Events,
           NEW r \in Lexical!PureRestore(s, sn)
    PROVE  Refilled("bm25-pure", s, sn.events, r)
<1>1. \/ r \in Lexical!PureReset(s) /\ r.raised
      \/ \E f \in Lexical!PureReset(s) : ~f.raised /\ r \in Lexical!PureIngest(f.a, sn.events)
  BY DEF Lexical!PureRestore, Lexical!Then, Lexical!ThenWith
<1>2. CASE r \in Lexical!PureReset(s) /\ r.raised
  BY <1>2, PureOperations DEF Emptied, Refilled
<1>3. ASSUME NEW f \in Lexical!PureReset(s), ~f.raised, r \in Lexical!PureIngest(f.a, sn.events)
      PROVE  Refilled("bm25-pure", s, sn.events, r)
  <2>1. Emptied("bm25-pure", s, f) /\ f.a \in Wide
    BY PureOperations DEF Emptied, Kept, Sound
  <2>2. Filled("bm25-pure", f.a, sn.events, r)
    BY <1>3, <2>1, PureOperations
  <2> QED BY <1>3, <2>1, <2>2, RefilledThen, PureProduct, StorelessProducts
<1> QED BY <1>1, <1>2, <1>3

-----------------------------------------------------------------------------
(* The controls.                                                           *)
LEMMA ControlProducts ==
    ASSUME NEW p \in Lists \cup Fixed
    PROVE  p \in Storeless /\ (p \in Lists <=> p \notin Fixed)
  BY DEF Storeless, Lists, Fixed

LEMMA ControlOperations ==
    ASSUME NEW p \in Lists \cup Fixed, NEW s \in Wide, NEW r
    PROVE  /\ r \in Control!ListNew(s) => Built(p, s, r)
           /\ r \in Control!ListReset(s) => Emptied(p, s, r)
           /\ \A batch \in SUBSET Events :
                 \/ r \in Control!ListIngest(s, batch)
                 \/ p \in Fixed /\ r \in Control!FixedIngest(s, batch)
                 => Filled(p, s, batch, r)
           /\ \A e :
                 r \in Control!ListDelete(s, e) \cup Control!FixedDelete(s, e) =>
                    Deleted(p, s, e, r)
<1>0. p \in Storeless
  BY ControlProducts
<1>1. r \in Control!ListNew(s) \cup Control!ListReset(s) => Listing(s, {}, r)
  BY DEF Control!ListNew, Control!ListReset, Control!Returned, Listing
<1>2. \A batch : r \in Control!ListIngest(s, batch) => Listing(s, s.listed \cup batch, r)
  BY DEF Control!ListIngest, Control!Returned, Listing
<1>3. \A batch : r \in Control!FixedIngest(s, batch) => Listing(s, batch, r)
  BY DEF Control!FixedIngest, Control!Returned, Listing
<1>4. \A e : r \in Control!ListDelete(s, e) \cup Control!FixedDelete(s, e) =>
                /\ Listing(s, s.listed \ {e}, r)
                /\ r.value = TRUE \/ (r.value = FALSE /\ e \notin s.listed)
  <2> TAKE e
  <2> HAVE r \in Control!ListDelete(s, e) \cup Control!FixedDelete(s, e)
  <2>1. \/ r = [a |-> [s EXCEPT !.listed = s.listed \ {e}], raised |-> FALSE,
                value |-> e \in s.listed]
        \/ r = [a |-> [s EXCEPT !.listed = s.listed \ {e}], raised |-> FALSE, value |-> TRUE]
    BY DEF Control!ListDelete, Control!FixedDelete, Control!Returned
  <2> QED BY <2>1, ListingTold
<1> QED BY <1>0, <1>1, <1>2, <1>3, <1>4, ListingBuilt, ListingFilled, ListingDeleted

LEMMA ListRetrieve ==
    ASSUME NEW p \in Lists, NEW s \in Wide, NEW q,
           NEW r \in Control!FullRetrieve(s, q) \cup Control!RandomRetrieve(s, q)
    PROVE  /\ Unmoved(p, s, r) /\ r.raised = FALSE
           /\ r.value \subseteq s.listed \cap Visible[q]
<1>1. PICK S \in SUBSET (s.listed \cap Visible[q]) :
           r = [a |-> s, raised |-> FALSE, value |-> S]
  BY DEF Control!FullRetrieve, Control!RandomRetrieve, Control!Eligible, Control!Returned
<1> QED BY <1>1, ControlProducts, ListingUnmoved

LEMMA FixedRetrieve ==
    ASSUME NEW p \in Fixed, NEW s \in Wide, NEW q, NEW r
    PROVE  /\ r \in Control!NoMemoryRetrieve(s, q) =>
                 Unmoved(p, s, r) /\ r.raised = FALSE /\ r.value = {}
           /\ r \in Control!OracleRetrieve(s, q, Available[q]) =>
                 Unmoved(p, s, r) /\ r.raised = FALSE /\ r.value \subseteq Gold[q]
<1>0. p \in Storeless
  BY ControlProducts
<1>1. r \in Control!NoMemoryRetrieve(s, q) => r = [a |-> s, raised |-> FALSE, value |-> {}]
  BY DEF Control!NoMemoryRetrieve, Control!Returned
<1>2. r \in Control!OracleRetrieve(s, q, Available[q]) =>
         r = [a |-> s, raised |-> FALSE, value |-> Gold[q] \cap Available[q]]
  BY DEF Control!OracleRetrieve, Control!Returned
<1>3. \A v : r = [a |-> s, raised |-> FALSE, value |-> v] =>
                 Unmoved(p, s, r) /\ r.raised = FALSE /\ r.value = v
  <2> TAKE v
  <2> HAVE r = [a |-> s, raised |-> FALSE, value |-> v]
  <2>1. Unmoved(p, s, r) /\ r.raised = FALSE
    BY <1>0, ListingUnmoved
  <2> QED BY <2>1
<1>4. Gold[q] \cap Available[q] \subseteq Gold[q]
  OBVIOUS
<1> QED BY <1>1, <1>2, <1>3, <1>4

LEMMA ControlRefill ==
    ASSUME NEW p \in Lists \cup Fixed, NEW s \in Wide, NEW sn, sn.events \in SUBSET Events,
           NEW r, r \in (IF p \in Lists THEN Control!ListRestore(s, sn)
                                         ELSE Control!FixedRestore(s, sn))
    PROVE  Refilled(p, s, sn.events, r)
<1>1. CASE p \in Fixed
  <2>1. r \in Control!ListReset(s)
    BY <1>1, ControlProducts DEF Control!FixedRestore
  <2> QED BY <1>1, <2>1, ControlOperations DEF Emptied, Refilled
<1>2. CASE p \in Lists
  <2>1. \/ r \in Control!ListReset(s) /\ r.raised
        \/ \E f \in Control!ListReset(s) : ~f.raised /\ r \in Control!ListIngest(f.a, sn.events)
    BY <1>2 DEF Control!ListRestore, Control!Then, Control!ThenWith
  <2>2. CASE r \in Control!ListReset(s) /\ r.raised
    BY <2>2, ControlOperations DEF Emptied, Refilled
  <2>3. ASSUME NEW f \in Control!ListReset(s), ~f.raised,
               r \in Control!ListIngest(f.a, sn.events)
        PROVE  Refilled(p, s, sn.events, r)
    <3>1. Emptied(p, s, f) /\ f.a \in Wide
      BY ControlOperations DEF Emptied, Kept, Sound
    <3>2. Filled(p, f.a, sn.events, r)
      BY <2>3, <3>1, ControlOperations
    <3>3. p \in AllProducts \ Fixed
      BY <1>2, ControlProducts, StorelessProducts
    <3> QED BY <2>3, <3>1, <3>2, <3>3, RefilledThen
  <2> QED BY <2>1, <2>2, <2>3
<1> QED BY <1>1, <1>2
-----------------------------------------------------------------------------
(* The operations of any product.                                          *)
LEMMA Families ==
    \A p \in AllProducts :
       \/ p \in Mem0s \/ p = "hindsight" \/ p \in GBrains \/ p \in OptMems
       \/ p = "bm25-sqlite-fts" \/ p = "bm25-pure" \/ p \in Lists \cup Fixed
  BY DEF AllProducts, Exporting

(* A query's answer.                                                       *)
Answered(p, s, q, r) ==
    /\ Unmoved(p, s, r)
    /\ r.raised => r.value = {}
    /\ ~r.raised /\ p # "oracle" =>
          r.value \subseteq Held(p, s) /\ (Tidy(p, s) => r.value \subseteq s.listed)
    /\ ~r.raised /\ p \notin {"optmem-native", "oracle"} => r.value \subseteq Visible[q]
    /\ p = "no-memory" => r.value = {}
    /\ r.value \subseteq Events

LEMMA BuiltOf ==
    ASSUME NEW p \in AllProducts, NEW s \in Wide, Shaped(p, s),
           NEW r \in NewOf(p, s)
    PROVE  Built(p, s, r)
<1>1. CASE p \in Mem0s
  <2>1. r \in Mem0!New(s)
    BY <1>1 DEF NewOf, Mem0s, GBrains, OptMems, Lists, Fixed
  <2> QED BY <1>1, <2>1, Mem0New
<1>2. CASE p = "hindsight"
  <2>1. r \in Hindsight!New(s)
    BY <1>2 DEF NewOf, Mem0s, GBrains, OptMems, Lists, Fixed
  <2> QED BY <1>2, <2>1, HindsightNew
<1>3. CASE p \in GBrains
  <2>1. r \in GBrain!New(s, Ollama(p))
    BY <1>3 DEF NewOf, Mem0s, GBrains, OptMems, Lists, Fixed
  <2> QED BY <1>3, <2>1, GBrainNew
<1>4. CASE p \in OptMems
  <2>1. r \in OptMem!New(s)
    BY <1>4 DEF NewOf, Mem0s, GBrains, OptMems, Lists, Fixed
  <2> QED BY <1>4, <2>1, OptMemNew
<1>5. CASE p = "bm25-sqlite-fts"
  <2>1. r \in Lexical!FtsNew(s)
    BY <1>5 DEF NewOf, Mem0s, GBrains, OptMems, Lists, Fixed
  <2> QED BY <1>5, <2>1, FtsNew
<1>6. CASE p = "bm25-pure"
  <2>1. r \in Lexical!PureNew(s)
    BY <1>6 DEF NewOf, Mem0s, GBrains, OptMems, Lists, Fixed
  <2> QED BY <1>6, <2>1, PureOperations
<1>7. CASE p \in Lists \cup Fixed
  <2>1. r \in Control!ListNew(s)
    BY <1>7 DEF NewOf, Mem0s, GBrains, OptMems, Lists, Fixed
  <2> QED BY <1>7, <2>1, ControlOperations
<1> QED BY <1>1, <1>2, <1>3, <1>4, <1>5, <1>6, <1>7, Families

LEMMA EmptiedBy ==
    ASSUME NEW p \in AllProducts, NEW s \in Wide, Shaped(p, s),
           NEW r \in ResetOf(p, s)
    PROVE  Emptied(p, s, r)
<1>1. CASE p \in Mem0s
  <2>1. r \in Mem0!Reset(s)
    BY <1>1 DEF ResetOf, Mem0s, GBrains, OptMems, Lists, Fixed
  <2>2. /\ Kept(p, s, r) /\ (r.raised => r.a.faults # s.faults)
        /\ ~r.raised => r.a.listed = {} /\ r.a.keys = {}
        /\ ~r.raised /\ s.open /\ r.a.faults = s.faults => r.a.store = {}
    BY <1>1, <2>1, Mem0Reset
  <2>3. ~r.raised /\ r.a.store = {} => Agree(p, r.a)
    BY <1>1, <2>2, OfUnion, Mem0Products DEF Agree
  <2> QED BY <1>1, <2>2, <2>3 DEF Emptied
<1>2. CASE p = "hindsight"
  <2>1. r \in Hindsight!Reset(s)
    BY <1>2 DEF ResetOf, Mem0s, GBrains, OptMems, Lists, Fixed
  <2> QED BY <1>2, <2>1, HindsightReset
<1>3. CASE p \in GBrains
  <2>1. r \in GBrain!Reset(s, Ollama(p))
    BY <1>3 DEF ResetOf, Mem0s, GBrains, OptMems, Lists, Fixed
  <2> QED BY <1>3, <2>1, GBrainReset
<1>4. CASE p \in OptMems
  <2>1. r \in OptMem!Reset(s)
    BY <1>4 DEF ResetOf, Mem0s, GBrains, OptMems, Lists, Fixed
  <2> QED BY <1>4, <2>1, OptMemReset
<1>5. CASE p = "bm25-sqlite-fts"
  <2>1. r \in Lexical!FtsReset(s)
    BY <1>5 DEF ResetOf, Mem0s, GBrains, OptMems, Lists, Fixed
  <2> QED BY <1>5, <2>1, FtsReset
<1>6. CASE p = "bm25-pure"
  <2>1. r \in Lexical!PureReset(s)
    BY <1>6 DEF ResetOf, Mem0s, GBrains, OptMems, Lists, Fixed
  <2> QED BY <1>6, <2>1, PureOperations
<1>7. CASE p \in Lists \cup Fixed
  <2>1. r \in Control!ListReset(s)
    BY <1>7 DEF ResetOf, Mem0s, GBrains, OptMems, Lists, Fixed
  <2> QED BY <1>7, <2>1, ControlOperations
<1> QED BY <1>1, <1>2, <1>3, <1>4, <1>5, <1>6, <1>7, Families

LEMMA FilledBy ==
    ASSUME NEW p \in AllProducts, NEW s \in Wide, Shaped(p, s), NEW batch \in SUBSET Events,
           NEW r \in IngestOf(p, s, batch)
    PROVE  Filled(p, s, batch, r)
<1>1. CASE p \in Mem0s
  <2>1. r \in Mem0!Ingest(s, batch, Infer(p))
    BY <1>1 DEF IngestOf, Mem0s, GBrains, OptMems, Lists, Fixed
  <2>2. /\ Kept(p, s, r) /\ (r.raised => r.a.faults # s.faults)
        /\ ~r.raised => r.a.listed = s.listed \cup batch
        /\ ~r.raised /\ r.a.faults = s.faults => Held(p, r.a) \subseteq Held(p, s) \cup batch
    BY <1>1, <2>1, Mem0Ingest
  <2> QED BY <1>1, <2>2 DEF Filled
<1>2. CASE p = "hindsight"
  <2>1. r \in Hindsight!Ingest(s, batch)
    BY <1>2 DEF IngestOf, Mem0s, GBrains, OptMems, Lists, Fixed
  <2> QED BY <1>2, <2>1, HindsightIngest
<1>3. CASE p \in GBrains
  <2>1. r \in GBrain!Ingest(s, batch)
    BY <1>3 DEF IngestOf, Mem0s, GBrains, OptMems, Lists, Fixed
  <2> QED BY <1>3, <2>1, GBrainIngest
<1>4. CASE p \in OptMems
  <2>1. r \in OptMem!Ingest(s, batch)
    BY <1>4 DEF IngestOf, Mem0s, GBrains, OptMems, Lists, Fixed
  <2> QED BY <1>4, <2>1, OptMemIngest
<1>5. CASE p = "bm25-sqlite-fts"
  <2>1. r \in Lexical!FtsIngest(s, batch)
    BY <1>5 DEF IngestOf, Mem0s, GBrains, OptMems, Lists, Fixed
  <2> QED BY <1>5, <2>1, FtsIngest
<1>6. CASE p = "bm25-pure"
  <2>1. r \in Lexical!PureIngest(s, batch)
    BY <1>6 DEF IngestOf, Mem0s, GBrains, OptMems, Lists, Fixed
  <2> QED BY <1>6, <2>1, PureOperations
<1>7. CASE p \in Lists \cup Fixed
  <2>1. r \in (IF p \in Lists THEN Control!ListIngest(s, batch)
                                     ELSE Control!FixedIngest(s, batch))
    BY <1>7 DEF IngestOf, Mem0s, GBrains, OptMems, Lists, Fixed
  <2>2. r \in Control!ListIngest(s, batch) \/ (p \in Fixed /\ r \in Control!FixedIngest(s, batch))
    BY <1>7, <2>1
  <2> QED BY <1>7, <2>2, ControlOperations
<1> QED BY <1>1, <1>2, <1>3, <1>4, <1>5, <1>6, <1>7, Families

LEMMA QuietOf ==
    ASSUME NEW p \in AllProducts, NEW s \in Wide,
           NEW r \in AwaitReadyOf(p, s) \cup RestartOf(p, s)
    PROVE  Unmoved(p, s, r)
<1>1. CASE r = [a |-> s, raised |-> FALSE, value |-> {}]
  BY <1>1, SameKept DEF Unmoved
<1>2. CASE p \in Mem0s
  <2>1. AwaitReadyOf(p, s) = Mem0!AwaitReady(s)
    BY <1>2 DEF AwaitReadyOf, Mem0s, GBrains
  <2>2. RestartOf(p, s) = Mem0!Restart(s)
    BY <1>2 DEF RestartOf
  <2> QED BY <1>2, <2>1, <2>2, Mem0Quiet
<1>3. CASE p = "hindsight"
  <2>1. AwaitReadyOf(p, s) = Hindsight!AwaitReady(s)
    BY <1>3 DEF AwaitReadyOf, Mem0s, GBrains
  <2>2. r \in RestartOf(p, s) => r = [a |-> s, raised |-> FALSE, value |-> {}]
    BY <1>3 DEF RestartOf, Returned, Mem0s
  <2> QED BY <1>1, <1>3, <2>1, <2>2, HindsightQuiet
<1>4. CASE p \in GBrains
  <2>1. r \in GBrain!AwaitReady(s) \/ r = [a |-> s, raised |-> FALSE, value |-> {}]
    BY <1>4 DEF AwaitReadyOf, RestartOf, Returned, Mem0s, GBrains
  <2> QED BY <1>1, <1>4, <2>1, GBrainQuiet
<1>5. CASE p \notin Mem0s \cup GBrains \cup {"hindsight"}
  <2>1. r = [a |-> s, raised |-> FALSE, value |-> {}]
    BY <1>5 DEF AwaitReadyOf, RestartOf, Returned, OptMem!AwaitReady, OptMem!Returned
  <2> QED BY <1>1, <2>1
<1> QED BY <1>2, <1>3, <1>4, <1>5

LEMMA DeletedBy ==
    ASSUME NEW p \in AllProducts, NEW s \in Wide, Shaped(p, s), NEW e,
           NEW r \in DeleteOf(p, s, e)
    PROVE  Deleted(p, s, e, r)
<1>1. CASE p \in Mem0s
  <2>1. r \in Mem0!Delete(s, e)
    BY <1>1 DEF DeleteOf, Mem0s, GBrains, OptMems, Lists, Fixed
  <2> QED BY <1>1, <2>1, Mem0Delete
<1>2. CASE p = "hindsight"
  <2>1. r \in Hindsight!Delete(s, e)
    BY <1>2 DEF DeleteOf, Mem0s, GBrains, OptMems, Lists, Fixed
  <2> QED BY <1>2, <2>1, HindsightDelete
<1>3. CASE p \in GBrains
  <2>1. r \in GBrain!Delete(s, e)
    BY <1>3 DEF DeleteOf, Mem0s, GBrains, OptMems, Lists, Fixed
  <2> QED BY <1>3, <2>1, GBrainDelete
<1>4. CASE p \in OptMems
  <2>1. r \in OptMem!Delete(s, e)
    BY <1>4 DEF DeleteOf, Mem0s, GBrains, OptMems, Lists, Fixed
  <2>2. r.a = s /\ r.raised = TRUE
    BY <2>1 DEF OptMem!Delete, OptMem!Refused
  <2> QED BY <1>4, <2>2, SameKept DEF Deleted
<1>5. CASE p = "bm25-sqlite-fts"
  <2>1. r \in Lexical!FtsDelete(s, e)
    BY <1>5 DEF DeleteOf, Mem0s, GBrains, OptMems, Lists, Fixed
  <2> QED BY <1>5, <2>1, FtsDelete
<1>6. CASE p = "bm25-pure"
  <2>1. r \in Lexical!PureDelete(s, e)
    BY <1>6 DEF DeleteOf, Mem0s, GBrains, OptMems, Lists, Fixed
  <2> QED BY <1>6, <2>1, PureOperations
<1>7. CASE p \in Lists \cup Fixed
  <2>1. r \in Control!ListDelete(s, e) \cup Control!FixedDelete(s, e)
    BY <1>7 DEF DeleteOf, Mem0s, GBrains, OptMems, Lists, Fixed
  <2> QED BY <1>7, <2>1, ControlOperations
<1> QED BY <1>1, <1>2, <1>3, <1>4, <1>5, <1>6, <1>7, Families

LEMMA RefilledBy ==
    ASSUME NEW p \in AllProducts, NEW s \in Wide, Shaped(p, s), NEW sn, sn.events \in SUBSET Events,
           NEW r \in RestoreOf(p, s, sn)
    PROVE  Refilled(p, s, sn.events, r)
<1>1. CASE p \in Mem0s
  <2>1. r \in Mem0!Restore(s, sn, Infer(p))
    BY <1>1 DEF RestoreOf, Mem0s, GBrains, OptMems, Lists, Fixed
  <2> QED BY <1>1, <2>1, Mem0Restore
<1>2. CASE p = "hindsight"
  <2>1. r \in Hindsight!Restore(s, sn)
    BY <1>2 DEF RestoreOf, Mem0s, GBrains, OptMems, Lists, Fixed
  <2> QED BY <1>2, <2>1, HindsightRefill
<1>3. CASE p \in GBrains
  <2>1. r \in GBrain!Restore(s, sn, Ollama(p))
    BY <1>3 DEF RestoreOf, Mem0s, GBrains, OptMems, Lists, Fixed
  <2> QED BY <1>3, <2>1, GBrainRefill
<1>4. CASE p \in OptMems
  <2>1. r \in OptMem!Restore(s, sn)
    BY <1>4 DEF RestoreOf, Mem0s, GBrains, OptMems, Lists, Fixed
  <2> QED BY <1>4, <2>1, OptMemRefill
<1>5. CASE p = "bm25-sqlite-fts"
  <2>1. r \in Lexical!FtsRestore(s, sn)
    BY <1>5 DEF RestoreOf, Mem0s, GBrains, OptMems, Lists, Fixed
  <2> QED BY <1>5, <2>1, FtsRefill
<1>6. CASE p = "bm25-pure"
  <2>1. r \in Lexical!PureRestore(s, sn)
    BY <1>6 DEF RestoreOf, Mem0s, GBrains, OptMems, Lists, Fixed
  <2> QED BY <1>6, <2>1, PureRefill
<1>7. CASE p \in Lists \cup Fixed
  <2>1. r \in (IF p \in Lists THEN Control!ListRestore(s, sn)
                                     ELSE Control!FixedRestore(s, sn))
    BY <1>7 DEF RestoreOf, Mem0s, GBrains, OptMems, Lists, Fixed
  <2> QED BY <1>7, <2>1, ControlRefill
<1> QED BY <1>1, <1>2, <1>3, <1>4, <1>5, <1>6, <1>7, Families

(* A reset, and so a restore, leaves the keys of Mem0 right even where an  *)
(* import had replaced them.                                               *)
LEMMA EmptiedKeyed ==
    ASSUME NEW p \in AllProducts, NEW s \in Wide, Shaped(p, s), Shut(p, s),
           NEW r \in ResetOf(p, s), r.a.faults = s.faults
    PROVE  Keyed(p, r.a)
<1>1. CASE p \in Mem0s
  <2>1. r \in Mem0!Reset(s)
    BY <1>1 DEF ResetOf, Mem0s, GBrains, OptMems, Lists, Fixed
  <2>2. /\ r.a.listed = {} /\ r.a.keys = {}
        /\ s.open => r.a.store = {}
        /\ ~s.open => r.a.store = s.store
    BY <1>1, <2>1, Mem0Reset
  <2> QED BY <2>2 DEF Keyed, Shut
<1>2. CASE p \notin Mem0s
  BY <1>2 DEF Keyed, Mem0s
<1> QED BY <1>1, <1>2

LEMMA RefilledKeyed ==
    ASSUME NEW p \in AllProducts, NEW s \in Wide, Shaped(p, s), Shut(p, s),
           NEW sn, sn.events \in SUBSET Events, NEW r \in RestoreOf(p, s, sn),
           ~r.raised, r.a.faults = s.faults
    PROVE  Keyed(p, r.a)
<1>1. CASE p \in Mem0s
  <2>1. r \in Mem0!Restore(s, sn, Infer(p))
    BY <1>1 DEF RestoreOf, Mem0s, GBrains, OptMems, Lists, Fixed
  <2>2. PICK f \in Mem0!Reset(s) : ~f.raised /\ r \in Mem0!Ingest(f.a, sn.events, Infer(p))
    BY <2>1 DEF Mem0!Restore, Mem0!Then, Mem0!ThenWith
  <2>3. f \in ResetOf(p, s)
    BY <1>1, <2>2 DEF ResetOf, Mem0s, GBrains, OptMems, Lists, Fixed
  <2>4. Kept(p, s, f)
    BY <2>3, EmptiedBy DEF Emptied
  <2>5. f.a \in Wide /\ f.a.faults >= s.faults
    BY <2>4 DEF Kept, Sound
  <2>6. Kept(p, f.a, r)
    BY <1>1, <2>2, <2>5, Mem0Ingest
  <2>7. f.a.faults = s.faults /\ r.a.faults = f.a.faults
    <3>1. r.a \in Wide /\ r.a.faults >= f.a.faults
      BY <2>6 DEF Kept, Sound
    <3> QED BY <2>5, <3>1 DEF Wide
  <2>8. Shut(p, f.a)
    BY <2>2, <2>4, <2>7 DEF Kept
  <2>9. Keyed(p, f.a)
    BY <2>3, <2>7, EmptiedKeyed
  <2> QED BY <2>6, <2>7, <2>8, <2>9 DEF Kept
<1>2. CASE p \notin Mem0s
  BY <1>2 DEF Keyed, Mem0s
<1> QED BY <1>1, <1>2

LEMMA ImportedBy ==
    ASSUME NEW p \in Exporting, NEW s \in Wide, Shaped(p, s), NEW data,
           data.events \in SUBSET Events, data.keys \in SUBSET Memories,
           NEW r \in ImportOf(p, s, data)
    PROVE  Imported(p, s, data, r)
<1>1. CASE p \in Mem0s
  <2>1. r \in Mem0!ImportData(s, data, Infer(p))
    BY <1>1 DEF ImportOf, Mem0s, GBrains, OptMems
  <2> QED BY <1>1, <2>1, Mem0Import
<1>2. CASE p = "hindsight"
  <2>1. r \in Hindsight!ImportData(s, data)
    BY <1>2 DEF ImportOf, Mem0s, GBrains, OptMems
  <2>2. Refilled(p, s, data.events, r)
    BY <1>2, <2>1, HindsightRefill
  <2> QED BY <1>2, <2>2, RefilledImported, HindsightProduct
<1>3. CASE p \in GBrains
  <2>1. r \in GBrain!ImportData(s, data, Ollama(p))
    BY <1>3 DEF ImportOf, Mem0s, GBrains, OptMems
  <2>2. Refilled(p, s, data.events, r)
    BY <1>3, <2>1, GBrainRefill
  <2> QED BY <1>3, <2>2, RefilledImported, GBrainProducts
<1>4. CASE p \in OptMems
  <2>1. r \in OptMem!ImportData(s, data)
    BY <1>4 DEF ImportOf, Mem0s, GBrains, OptMems
  <2>2. Refilled(p, s, data.events, r)
    BY <1>4, <2>1, OptMemRefill
  <2> QED BY <1>4, <2>2, RefilledImported, OptMemProducts
<1> QED BY <1>1, <1>2, <1>3, <1>4 DEF Exporting

LEMMA ClosedBy ==
    ASSUME NEW p \in AllProducts, NEW s \in Wide, NEW r \in CleanupOf(p, s)
    PROVE  Closed(p, s, r)
<1>1. CASE p \in Mem0s
  <2>1. r \in Mem0!Cleanup(s)
    BY <1>1 DEF CleanupOf, Mem0s, GBrains
  <2> QED BY <1>1, <2>1, Mem0Cleanup
<1>2. CASE p \in GBrains
  <2>1. r \in GBrain!Cleanup(s)
    BY <1>2 DEF CleanupOf, Mem0s, GBrains
  <2> QED BY <1>2, <2>1, GBrainCleanup
<1>3. CASE p \notin Mem0s \cup GBrains
  <2>1. r.a = s
    BY <1>3 DEF CleanupOf, Returned
  <2> QED BY <2>1 DEF Closed
<1> QED BY <1>1, <1>2, <1>3

LEMMA HeldIsEvents ==
    ASSUME NEW p, NEW s \in Wide
    PROVE  Of(s.store) \subseteq Events /\ s.listed \subseteq Events /\ Held(p, s) \subseteq Events
  BY DEF Wide, Of, Held, Memories

(* An answer taken from what the product holds.                            *)
LEMMA AnsweredFrom ==
    ASSUME NEW p, NEW s \in Wide, NEW q, NEW r, Unmoved(p, s, r), r.raised => r.value = {},
           ~r.raised => r.value \subseteq Held(p, s) /\ (Tidy(p, s) => r.value \subseteq s.listed),
           ~r.raised /\ p # "optmem-native" => r.value \subseteq Visible[q],
           p = "no-memory" => r.value = {}
    PROVE  Answered(p, s, q, r)
  BY HeldIsEvents DEF Answered, Unmoved, Kept, Sound

LEMMA AnsweredBy ==
    ASSUME NEW p \in AllProducts, NEW s \in Wide, NEW q \in Queries,
           NEW r \in RetrieveOf(p, s, q)
    PROVE  Answered(p, s, q, r)
<1>1. CASE p \in Mem0s
  <2>1. r \in Mem0!Retrieve(s, q)
    BY <1>1 DEF RetrieveOf, Mem0s, GBrains, OptMems
  <2>2. /\ Unmoved(p, s, r) /\ (r.raised => r.value = {})
        /\ ~r.raised => r.value \subseteq s.listed \cap Visible[q] /\ r.value \subseteq Of(s.store)
    BY <1>1, <2>1, Mem0Retrieve
  <2>3. ~r.raised => r.value \subseteq Held(p, s)
    BY <2>2 DEF Held
  <2> QED BY <1>1, <2>2, <2>3, AnsweredFrom DEF Mem0s
<1>2. CASE p = "hindsight"
  <2>1. r \in Hindsight!Retrieve(s, q)
    BY <1>2 DEF RetrieveOf, Mem0s, GBrains, OptMems
  <2>2. /\ Unmoved(p, s, r) /\ (r.raised => r.value = {})
        /\ ~r.raised => r.value \subseteq s.listed \cap Visible[q]
    BY <1>2, <2>1, HindsightRetrieve
  <2>3. Held(p, s) = s.listed
    BY <1>2 DEF Held
  <2> QED BY <1>2, <2>2, <2>3, AnsweredFrom
<1>3. CASE p \in GBrains
  <2>1. r \in GBrain!Retrieve(s, q)
    BY <1>3 DEF RetrieveOf, Mem0s, GBrains, OptMems
  <2>2. /\ Unmoved(p, s, r) /\ (r.raised => r.value = {})
        /\ ~r.raised => r.value \subseteq s.listed \cap Visible[q]
    BY <1>3, <2>1, GBrainRetrieve
  <2>3. Held(p, s) = s.listed
    BY <1>3, GBrainProducts DEF Held
  <2> QED BY <1>3, <2>2, <2>3, AnsweredFrom DEF GBrains
<1>4. CASE p \in OptMems
  <2>1. r \in OptMem!Retrieve(s, q, p = "optmem")
    BY <1>4 DEF RetrieveOf, Mem0s, GBrains, OptMems
  <2>2. /\ Unmoved(p, s, r) /\ (r.raised => r.value = {})
        /\ ~r.raised => r.value \subseteq s.listed
        /\ ~r.raised /\ p = "optmem" => r.value \subseteq Visible[q]
    BY <1>4, <2>1, OptMemRetrieve
  <2>3. Held(p, s) = s.listed /\ (p # "optmem-native" => p = "optmem")
    BY <1>4, OptMemProducts DEF Held, OptMems
  <2> QED BY <1>4, <2>2, <2>3, AnsweredFrom DEF OptMems
<1>5. CASE p = "bm25-sqlite-fts"
  <2>1. r \in Lexical!FtsRetrieve(s, q)
    BY <1>5 DEF RetrieveOf, Mem0s, GBrains, OptMems
  <2>2. /\ Unmoved(p, s, r) /\ (r.raised => r.value = {})
        /\ ~r.raised => r.value \subseteq Of(s.store) \cap Visible[q]
    BY <1>5, <2>1, FtsRetrieve
  <2>3. Held(p, s) = Of(s.store) /\ (Tidy(p, s) => Of(s.store) \subseteq s.listed)
    BY <1>5 DEF Held, Tidy
  <2> QED BY <1>5, <2>2, <2>3, AnsweredFrom
<1>6. CASE p = "bm25-pure"
  <2>1. r \in Lexical!PureRetrieve(s, q)
    BY <1>6 DEF RetrieveOf, Mem0s, GBrains, OptMems
  <2>2. /\ Unmoved(p, s, r) /\ r.raised = FALSE
        /\ r.value \subseteq s.listed \cap Visible[q]
    BY <1>6, <2>1, PureRetrieve
  <2>3. Held(p, s) = s.listed
    BY <1>6 DEF Held
  <2> QED BY <1>6, <2>2, <2>3, AnsweredFrom
<1>7. CASE p \in Lists
  <2>1. r \in Control!FullRetrieve(s, q) \cup Control!RandomRetrieve(s, q)
    BY <1>7 DEF RetrieveOf, Mem0s, GBrains, OptMems, Lists
  <2>2. /\ Unmoved(p, s, r) /\ r.raised = FALSE
        /\ r.value \subseteq s.listed \cap Visible[q]
    BY <1>7, <2>1, ListRetrieve
  <2>3. Held(p, s) = s.listed
    BY <1>7 DEF Held, Lists
  <2> QED BY <1>7, <2>2, <2>3, AnsweredFrom DEF Lists
<1>8. CASE p = "no-memory"
  <2>1. r \in Control!NoMemoryRetrieve(s, q)
    BY <1>8 DEF RetrieveOf, Mem0s, GBrains, OptMems
  <2>2. Unmoved(p, s, r) /\ r.raised = FALSE /\ r.value = {}
    BY <1>8, <2>1, FixedRetrieve DEF Fixed
  <2> QED BY <1>8, <2>2, AnsweredFrom
<1>9. CASE p = "oracle"
  <2>1. r \in Control!OracleRetrieve(s, q, Available[q])
    BY <1>9 DEF RetrieveOf, Mem0s, GBrains, OptMems
  <2>2. Unmoved(p, s, r) /\ r.raised = FALSE /\ r.value \subseteq Gold[q]
    BY <1>9, <2>1, FixedRetrieve DEF Fixed
  <2> QED BY <1>9, <2>2, GoldAssumption DEF Answered
<1> QED BY <1>1, <1>2, <1>3, <1>4, <1>5, <1>6, <1>7, <1>8, <1>9, Families DEF Fixed

LEMMA SavedOf ==
    ASSUME NEW p \in AllProducts, NEW s \in Wide
    PROVE  /\ SnapshotOf(p, s).events \in SUBSET Events
           /\ p \in Exporting => /\ ExportOf(p, s).events = s.listed
                                 /\ ExportOf(p, s).keys \in SUBSET Memories
                                 /\ p \in Mem0s => ExportOf(p, s).keys = s.keys
<1>1. s.listed \in SUBSET Events /\ s.keys \in SUBSET Memories /\ {} \in SUBSET Events
  BY DEF Wide
<1>2. CASE p \in Mem0s
  <2>1. SnapshotOf(p, s) = Mem0!Snapshot(s)
    BY <1>2 DEF SnapshotOf, Mem0s, GBrains, OptMems, Lists, Fixed
  <2>4. ExportOf(p, s) = Mem0!Export(s)
    BY <1>2 DEF ExportOf, Mem0s, GBrains, OptMems
  <2>2. Mem0!Snapshot(s).events = s.listed
    BY DEF Mem0!Snapshot
  <2>3. Mem0!Export(s).events = s.listed /\ Mem0!Export(s).keys = s.keys
    BY DEF Mem0!Export
  <2> QED BY <1>1, <2>1, <2>2, <2>3, <2>4
<1>3. CASE p = "hindsight"
  <2>1. SnapshotOf(p, s) = Hindsight!Snapshot(s)
    BY <1>3 DEF SnapshotOf, Mem0s, GBrains, OptMems, Lists, Fixed
  <2>4. ExportOf(p, s) = Hindsight!Export(s)
    BY <1>3 DEF ExportOf, Mem0s, GBrains, OptMems
  <2>2. Hindsight!Snapshot(s).events = s.listed
    BY DEF Hindsight!Snapshot
  <2>3. Hindsight!Export(s).events = s.listed /\ Hindsight!Export(s).keys = {}
    BY DEF Hindsight!Export
  <2> QED BY <1>1, <1>3, <2>1, <2>2, <2>3, <2>4 DEF Mem0s, GBrains, OptMems
<1>4. CASE p \in GBrains
  <2>1. SnapshotOf(p, s) = GBrain!Snapshot(s)
    BY <1>4 DEF SnapshotOf, Mem0s, GBrains, OptMems, Lists, Fixed
  <2>4. ExportOf(p, s) = GBrain!Export(s)
    BY <1>4 DEF ExportOf, Mem0s, GBrains, OptMems
  <2>2. GBrain!Snapshot(s).events = s.listed
    BY DEF GBrain!Snapshot
  <2>3. GBrain!Export(s).events = s.listed /\ GBrain!Export(s).keys = {}
    BY DEF GBrain!Export
  <2> QED BY <1>1, <1>4, <2>1, <2>2, <2>3, <2>4 DEF Mem0s, GBrains, OptMems
<1>5. CASE p \in OptMems
  <2>1. SnapshotOf(p, s) = OptMem!Snapshot(s)
    BY <1>5 DEF SnapshotOf, Mem0s, GBrains, OptMems, Lists, Fixed
  <2>4. ExportOf(p, s) = OptMem!Export(s)
    BY <1>5 DEF ExportOf, Mem0s, GBrains, OptMems
  <2>2. OptMem!Snapshot(s).events = s.listed
    BY DEF OptMem!Snapshot
  <2>3. OptMem!Export(s).events = s.listed /\ OptMem!Export(s).keys = {}
    BY DEF OptMem!Export
  <2> QED BY <1>1, <1>5, <2>1, <2>2, <2>3, <2>4 DEF Mem0s, GBrains, OptMems
<1>6. CASE p = "bm25-sqlite-fts"
  <2>1. SnapshotOf(p, s) = Lexical!FtsSnapshot(s)
    BY <1>6 DEF SnapshotOf, Mem0s, GBrains, OptMems, Lists, Fixed
  <2>2. Lexical!FtsSnapshot(s).events = s.listed
    BY DEF Lexical!FtsSnapshot
  <2> QED BY <1>1, <1>6, <2>1, <2>2 DEF Exporting, Mem0s, GBrains, OptMems
<1>7. CASE p = "bm25-pure"
  <2>1. SnapshotOf(p, s) = Lexical!PureSnapshot(s)
    BY <1>7 DEF SnapshotOf, Mem0s, GBrains, OptMems, Lists, Fixed
  <2>2. Lexical!PureSnapshot(s).events = s.listed
    BY DEF Lexical!PureSnapshot
  <2> QED BY <1>1, <1>7, <2>1, <2>2 DEF Exporting, Mem0s, GBrains, OptMems
<1>8. CASE p \in Lists \cup Fixed
  <2>1. SnapshotOf(p, s) = Control!ListSnapshot(s) \/ SnapshotOf(p, s) = Control!FixedSnapshot(s)
    BY <1>8 DEF SnapshotOf, Mem0s, GBrains, OptMems, Lists, Fixed
  <2>2. Control!ListSnapshot(s).events = s.listed /\ Control!FixedSnapshot(s).events = {}
    BY DEF Control!ListSnapshot, Control!FixedSnapshot
  <2> QED BY <1>1, <1>8, <2>1, <2>2 DEF Exporting, Mem0s, GBrains, OptMems, Lists, Fixed
<1> QED BY <1>2, <1>3, <1>4, <1>5, <1>6, <1>7, <1>8, Families
-----------------------------------------------------------------------------
(* Operations during which nothing fails: a state that nothing has gone    *)
(* wrong in, and an outcome that raises only where something failed.       *)
Tame(p, s) == s \in Wide /\ Shaped(p, s)
Fit(p, s) == Tame(p, s) /\ Unopened(p, s) /\ Agree(p, s) /\ Intact(p, s)

Goes(p, s, r) ==
    /\ Tame(p, r.a) /\ r.a.faults >= s.faults /\ (r.raised = TRUE \/ r.raised = FALSE)
    /\ Fit(p, s) /\ r.a.faults = s.faults => ~r.raised /\ Fit(p, r.a)

LEMMA KeptGoes ==
    ASSUME NEW p, NEW s, Tame(p, s), NEW r, Kept(p, s, r), r.raised => r.a.faults # s.faults
    PROVE  Goes(p, s, r)
  BY DEF Tame, Fit, Goes, Kept, Sound

(* One after the other.                                                    *)
LEMMA GoesThen ==
    ASSUME NEW p, NEW s, Tame(p, s), NEW b, Goes(p, s, b), NEW r, Goes(p, b.a, r), ~b.raised
    PROVE  /\ Goes(p, s, r)
           /\ r.a.faults = s.faults => b.a.faults = s.faults /\ r.a.faults = b.a.faults
<1>1. s.faults \in Nat /\ b.a.faults \in Nat /\ r.a.faults \in Nat
  BY DEF Goes, Tame, Wide
<1>2. /\ r.a.faults >= s.faults
      /\ r.a.faults = s.faults => b.a.faults = s.faults /\ r.a.faults = b.a.faults
  BY <1>1 DEF Goes
<1> QED BY <1>2 DEF Goes

LEMMA ResetGoes ==
    ASSUME NEW p \in AllProducts, NEW s, Tame(p, s), NEW r \in ResetOf(p, s)
    PROVE  Goes(p, s, r) /\ (~r.raised => r.a.listed = {})
<1>1. Emptied(p, s, r)
  BY EmptiedBy DEF Tame
<1> QED BY <1>1, KeptGoes DEF Emptied

LEMMA IngestGoes ==
    ASSUME NEW p \in AllProducts, NEW s, Tame(p, s),
           NEW batch \in SUBSET Events, batch \cap TooLong = {}, NEW r \in IngestOf(p, s, batch)
    PROVE  Goes(p, s, r) /\ (~r.raised /\ p \notin Fixed => r.a.listed = s.listed \cup batch)
<1>1. Filled(p, s, batch, r)
  BY FilledBy DEF Tame
<1> QED BY <1>1, KeptGoes DEF Filled

LEMMA QuietGoes ==
    ASSUME NEW p \in AllProducts, NEW s, Tame(p, s), NEW r,
           \/ r \in AwaitReadyOf(p, s) \cup RestartOf(p, s)
           \/ \E q \in Queries : r \in RetrieveOf(p, s, q)
    PROVE  /\ Goes(p, s, r) /\ (r.raised => r.a.faults # s.faults)
           /\ ~r.raised => r.a.listed = s.listed /\ r.a.store = s.store
<1>1. Unmoved(p, s, r)
  BY QuietOf, AnsweredBy DEF Tame, Answered
<1> QED BY <1>1, KeptGoes DEF Unmoved

LEMMA DeleteGoes ==
    ASSUME NEW p \in AllProducts \ OptMems, NEW s, Tame(p, s), NEW e, NEW r \in DeleteOf(p, s, e)
    PROVE  /\ Goes(p, s, r)
           /\ Fit(p, s) /\ r.a.faults = s.faults /\ p # "mem0-native" => e \notin r.a.listed
<1>1. Deleted(p, s, e, r)
  BY DeletedBy DEF Tame
<1>2. Goes(p, s, r)
  BY <1>1, KeptGoes DEF Deleted
<1>3. ASSUME Fit(p, s), r.a.faults = s.faults, p # "mem0-native" PROVE e \notin r.a.listed
  <2>1. ~r.raised /\ Fit(p, r.a)
    BY <1>2, <1>3 DEF Goes
  <2>2. Keyed(p, s)
    BY <1>3 DEF Fit, Agree, Keyed, Mem0s, Exporting
  <2>3. Held(p, r.a) \subseteq Held(p, s) \ {e}
    BY <1>1, <1>3, <2>1, <2>2 DEF Deleted
  <2>4. Held(p, r.a) = r.a.listed
    BY <1>3, <2>1 DEF Held, Fit, Intact
  <2> QED BY <2>3, <2>4
<1> QED BY <1>2, <1>3

(* A reset followed by an ingest: restore, and all that import_data does   *)
(* but for the keys.                                                       *)
Refills(p, s, ev, r) ==
    \/ r \in ResetOf(p, s) /\ r.raised
    \/ \E f \in ResetOf(p, s) : ~f.raised /\ r \in IngestOf(p, f.a, ev)

LEMMA RefillGoes ==
    ASSUME NEW p \in AllProducts, NEW s, Tame(p, s),
           NEW ev \in SUBSET Events, ev \cap TooLong = {}, NEW r, Refills(p, s, ev, r)
    PROVE  Goes(p, s, r) /\ (~r.raised /\ p \notin Fixed => r.a.listed = ev)
<1>1. CASE r \in ResetOf(p, s) /\ r.raised
  BY <1>1, ResetGoes
<1>2. ASSUME NEW f \in ResetOf(p, s), ~f.raised, r \in IngestOf(p, f.a, ev)
      PROVE  Goes(p, s, r) /\ (~r.raised /\ p \notin Fixed => r.a.listed = ev)
  <2>1. Goes(p, s, f) /\ f.a.listed = {}
    BY <1>2, ResetGoes
  <2>2. Tame(p, f.a)
    BY <2>1 DEF Goes
  <2>3. Goes(p, f.a, r) /\ (~r.raised /\ p \notin Fixed => r.a.listed = f.a.listed \cup ev)
    BY <1>2, <2>2, IngestGoes
  <2>4. {} \cup ev = ev
    OBVIOUS
  <2> QED BY <1>2, <2>1, <2>3, <2>4, GoesThen
<1> QED BY <1>1, <1>2 DEF Refills

LEMMA RestoreRefills ==
    ASSUME NEW p \in AllProducts \ Fixed, NEW s, NEW sn, NEW r \in RestoreOf(p, s, sn)
    PROVE  Refills(p, s, sn.events, r)
<1> USE DEF Mem0s, GBrains, OptMems, Lists, Fixed
<1>1. CASE p \in Mem0s
  <2>1. r \in Mem0!Restore(s, sn, Infer(p))
    BY <1>1 DEF RestoreOf
  <2>2. /\ ResetOf(p, s) = Mem0!Reset(s)
        /\ \A b : IngestOf(p, b, sn.events) = Mem0!Ingest(b, sn.events, Infer(p))
    BY <1>1 DEF ResetOf, IngestOf
  <2>3. \/ r \in Mem0!Reset(s) /\ r.raised
        \/ \E f \in Mem0!Reset(s) : ~f.raised /\ r \in Mem0!Ingest(f.a, sn.events, Infer(p))
    BY <2>1 DEF Mem0!Restore, Mem0!Then, Mem0!ThenWith
  <2> QED BY <2>2, <2>3 DEF Refills
<1>2. CASE p = "hindsight"
  <2>1. r \in Hindsight!Restore(s, sn)
    BY <1>2 DEF RestoreOf
  <2>2. /\ ResetOf(p, s) = Hindsight!Reset(s)
        /\ \A b : IngestOf(p, b, sn.events) = Hindsight!Ingest(b, sn.events)
    BY <1>2 DEF ResetOf, IngestOf
  <2>3. \/ r \in Hindsight!Reset(s) /\ r.raised
        \/ \E f \in Hindsight!Reset(s) : ~f.raised /\ r \in Hindsight!Ingest(f.a, sn.events)
    BY <2>1 DEF Hindsight!Restore, Hindsight!Then, Hindsight!ThenWith
  <2> QED BY <2>2, <2>3 DEF Refills
<1>3. CASE p \in GBrains
  <2>1. r \in GBrain!Restore(s, sn, Ollama(p))
    BY <1>3 DEF RestoreOf
  <2>2. /\ ResetOf(p, s) = GBrain!Reset(s, Ollama(p))
        /\ \A b : IngestOf(p, b, sn.events) = GBrain!Ingest(b, sn.events)
    BY <1>3 DEF ResetOf, IngestOf
  <2>3. \/ r \in GBrain!Reset(s, Ollama(p)) /\ r.raised
        \/ \E f \in GBrain!Reset(s, Ollama(p)) : ~f.raised /\ r \in GBrain!Ingest(f.a, sn.events)
    BY <2>1 DEF GBrain!Restore, GBrain!Then, GBrain!ThenWith
  <2> QED BY <2>2, <2>3 DEF Refills
<1>4. CASE p \in OptMems
  <2>1. r \in OptMem!Restore(s, sn)
    BY <1>4 DEF RestoreOf
  <2>2. /\ ResetOf(p, s) = OptMem!Reset(s)
        /\ \A b : IngestOf(p, b, sn.events) = OptMem!Ingest(b, sn.events)
    BY <1>4 DEF ResetOf, IngestOf
  <2>3. \/ r \in OptMem!Reset(s) /\ r.raised
        \/ \E f \in OptMem!Reset(s) : ~f.raised /\ r \in OptMem!Ingest(f.a, sn.events)
    BY <2>1 DEF OptMem!Restore, OptMem!Then, OptMem!ThenWith
  <2> QED BY <2>2, <2>3 DEF Refills
<1>5. CASE p = "bm25-sqlite-fts"
  <2>1. r \in Lexical!FtsRestore(s, sn)
    BY <1>5 DEF RestoreOf
  <2>2. /\ ResetOf(p, s) = Lexical!FtsReset(s)
        /\ \A b : IngestOf(p, b, sn.events) = Lexical!FtsIngest(b, sn.events)
    BY <1>5 DEF ResetOf, IngestOf
  <2>3. \/ r \in Lexical!FtsReset(s) /\ r.raised
        \/ \E f \in Lexical!FtsReset(s) : ~f.raised /\ r \in Lexical!FtsIngest(f.a, sn.events)
    BY <2>1 DEF Lexical!FtsRestore, Lexical!Then, Lexical!ThenWith
  <2> QED BY <2>2, <2>3 DEF Refills
<1>6. CASE p = "bm25-pure"
  <2>1. r \in Lexical!PureRestore(s, sn)
    BY <1>6 DEF RestoreOf
  <2>2. /\ ResetOf(p, s) = Lexical!PureReset(s)
        /\ \A b : IngestOf(p, b, sn.events) = Lexical!PureIngest(b, sn.events)
    BY <1>6 DEF ResetOf, IngestOf
  <2>3. \/ r \in Lexical!PureReset(s) /\ r.raised
        \/ \E f \in Lexical!PureReset(s) : ~f.raised /\ r \in Lexical!PureIngest(f.a, sn.events)
    BY <2>1 DEF Lexical!PureRestore, Lexical!Then, Lexical!ThenWith
  <2> QED BY <2>2, <2>3 DEF Refills
<1>7. CASE p \in Lists
  <2>1. r \in Control!ListRestore(s, sn)
    BY <1>7 DEF RestoreOf
  <2>2. /\ ResetOf(p, s) = Control!ListReset(s)
        /\ \A b : IngestOf(p, b, sn.events) = Control!ListIngest(b, sn.events)
    BY <1>7 DEF ResetOf, IngestOf
  <2>3. \/ r \in Control!ListReset(s) /\ r.raised
        \/ \E f \in Control!ListReset(s) : ~f.raised /\ r \in Control!ListIngest(f.a, sn.events)
    BY <2>1 DEF Control!ListRestore, Control!Then, Control!ThenWith
  <2> QED BY <2>2, <2>3 DEF Refills
<1> QED BY <1>1, <1>2, <1>3, <1>4, <1>5, <1>6, <1>7, Families

(* What it takes for an answer to be complete.                             *)
Ready(p, s) ==
    p \in (Exporting \ {"mem0-native"}) \cup {"bm25-sqlite-fts"} => Of(s.store) = s.listed

LEMMA FitReady == \A p, s : Fit(p, s) => Ready(p, s)
  BY DEF Fit, Agree, Intact, Ready

LEMMA ImportGoes ==
    ASSUME NEW p \in Exporting, NEW s, Tame(p, s), NEW data,
           data.events \in SUBSET Events, data.events \cap TooLong = {},
           data.keys \in SUBSET Memories, NEW r \in ImportOf(p, s, data)
    PROVE  /\ Tame(p, r.a) /\ r.a.faults >= s.faults /\ (r.raised = TRUE \/ r.raised = FALSE)
           /\ Fit(p, s) /\ r.a.faults = s.faults =>
                ~r.raised /\ Ready(p, r.a) /\ r.a.listed = data.events
<1> USE DEF Mem0s, GBrains, OptMems, Lists, Fixed
<1>0. p \in AllProducts \ Fixed
  BY DEF AllProducts, Exporting, Fixed
<1>1. ASSUME NEW x, Refills(p, s, data.events, x)
      PROVE  Goes(p, s, x) /\ (~x.raised => x.a.listed = data.events)
  BY <1>0, <1>1, RefillGoes
<1>2. CASE p \notin Mem0s
  <2>1. Refills(p, s, data.events, r)
    <3>1. CASE p = "hindsight"
      <4>1. r \in Hindsight!ImportData(s, data)
        BY <3>1 DEF ImportOf
      <4>2. ResetOf(p, s) = Hindsight!Reset(s)
            /\ \A b : IngestOf(p, b, data.events) = Hindsight!Ingest(b, data.events)
        BY <3>1 DEF ResetOf, IngestOf
      <4>3. \/ r \in Hindsight!Reset(s) /\ r.raised
            \/ \E f \in Hindsight!Reset(s) : ~f.raised /\ r \in Hindsight!Ingest(f.a, data.events)
        BY <4>1 DEF Hindsight!ImportData, Hindsight!Then, Hindsight!ThenWith
      <4> QED BY <4>2, <4>3 DEF Refills
    <3>2. CASE p \in GBrains
      <4>1. r \in GBrain!ImportData(s, data, Ollama(p))
        BY <3>2 DEF ImportOf
      <4>2. ResetOf(p, s) = GBrain!Reset(s, Ollama(p))
            /\ \A b : IngestOf(p, b, data.events) = GBrain!Ingest(b, data.events)
        BY <3>2 DEF ResetOf, IngestOf
      <4>3. \/ r \in GBrain!Reset(s, Ollama(p)) /\ r.raised
            \/ \E f \in GBrain!Reset(s, Ollama(p)) :
                  ~f.raised /\ r \in GBrain!Ingest(f.a, data.events)
        BY <4>1 DEF GBrain!ImportData, GBrain!Then, GBrain!ThenWith
      <4> QED BY <4>2, <4>3 DEF Refills
    <3>3. CASE p \in OptMems
      <4>1. r \in OptMem!ImportData(s, data)
        BY <3>3 DEF ImportOf
      <4>2. ResetOf(p, s) = OptMem!Reset(s)
            /\ \A b : IngestOf(p, b, data.events) = OptMem!Ingest(b, data.events)
        BY <3>3 DEF ResetOf, IngestOf
      <4>3. \/ r \in OptMem!Reset(s) /\ r.raised
            \/ \E f \in OptMem!Reset(s) : ~f.raised /\ r \in OptMem!Ingest(f.a, data.events)
        BY <4>1 DEF OptMem!ImportData, OptMem!Then, OptMem!ThenWith
      <4> QED BY <4>2, <4>3 DEF Refills
    <3> QED BY <1>2, <3>1, <3>2, <3>3 DEF Exporting
  <2>2. Goes(p, s, r) /\ (~r.raised => r.a.listed = data.events)
    BY <1>1, <2>1
  <2> QED BY <2>2, FitReady DEF Goes
<1>3. CASE p \in Mem0s
  <2>1. r \in Mem0!ImportData(s, data, Infer(p))
    BY <1>3 DEF ImportOf
  <2>2. ResetOf(p, s) = Mem0!Reset(s)
        /\ \A b : IngestOf(p, b, data.events) = Mem0!Ingest(b, data.events, Infer(p))
    BY <1>3 DEF ResetOf, IngestOf
  <2>3. PICK x \in Mem0!Then(Mem0!Reset(s), LAMBDA b : Mem0!Ingest(b, data.events, Infer(p))) :
           r = IF x.raised \/ data.keys = {} THEN x
               ELSE Mem0!Returned([x.a EXCEPT !.keys = data.keys], x.value)
    BY <2>1 DEF Mem0!ImportData
  <2>4. \/ x \in Mem0!Reset(s) /\ x.raised
        \/ \E f \in Mem0!Reset(s) : ~f.raised /\ x \in Mem0!Ingest(f.a, data.events, Infer(p))
    BY <2>3 DEF Mem0!Then, Mem0!ThenWith
  <2>5. Refills(p, s, data.events, x)
    BY <2>2, <2>4 DEF Refills
  <2>6. Goes(p, s, x) /\ (~x.raised => x.a.listed = data.events)
    BY <1>1, <2>5
  <2>7. CASE r = x
    BY <2>6, <2>7, FitReady DEF Goes
  <2>8. CASE r = Mem0!Returned([x.a EXCEPT !.keys = data.keys], x.value) /\ ~x.raised
    <3> DEFINE w == [x.a EXCEPT !.keys = data.keys]
    <3>1. x.a \in Wide /\ Shaped(p, x.a) /\ x.a.faults >= s.faults
      BY <2>6 DEF Goes, Tame
    <3>2. w \in Wide /\ w.listed = x.a.listed /\ w.store = x.a.store /\ w.faults = x.a.faults
      BY <3>1 DEF Wide
    <3>3. r.a = w /\ r.raised = FALSE
      BY <2>8 DEF Mem0!Returned
    <3> HIDE DEF w
    <3>4. Tame(p, w)
      BY <3>1, <3>2 DEF Tame, Shaped
    <3>5. Fit(p, s) /\ w.faults = s.faults => Ready(p, w) /\ w.listed = data.events
      <4>1. Fit(p, s) /\ x.a.faults = s.faults => Ready(p, x.a) /\ x.a.listed = data.events
        BY <2>6, FitReady DEF Goes
      <4> QED BY <3>2, <4>1 DEF Ready
    <3> QED BY <3>1, <3>2, <3>3, <3>4, <3>5
  <2> QED BY <2>3, <2>7, <2>8
<1> QED BY <1>2, <1>3

LEMMA CleanupGoes ==
    ASSUME NEW p \in AllProducts, NEW s, Tame(p, s), NEW r \in CleanupOf(p, s)
    PROVE  Tame(p, r.a) /\ r.a.faults = s.faults /\ r.raised = FALSE
<1>1. Closed(p, s, r)
  BY ClosedBy DEF Tame
<1>2. r.raised = FALSE
  BY DEF CleanupOf, Returned, Mem0!Cleanup, Mem0!Returned, GBrain!Cleanup, GBrain!Returned
<1> QED BY <1>1, <1>2 DEF Closed, Tame, Shaped

(* A directory that nothing has been put into yet.                         *)
Bare(s) ==
    /\ s.listed = {} /\ s.store = {} /\ s.keys = {} /\ s.pages = {} /\ s.head = {}
    /\ s.home \notin {"partial", "unsourced"}

LEMMA BareFit ==
    ASSUME NEW p, NEW s \in Wide, Bare(s)
    PROVE  Fit(p, s)
<1>1. Of(s.store) = {} /\ IsFiniteSet({})
  BY OfUnion, FS_EmptySet DEF Bare
<1> QED BY <1>1 DEF Bare, Fit, Tame, Shaped, Unopened, Agree, Intact

LEMMA NewBare ==
    ASSUME NEW p \in AllProducts, NEW s \in Wide, Bare(s), NEW r \in NewOf(p, s), ~r.raised
    PROVE  /\ r.a.store = {} /\ r.a.keys = {} /\ r.a.pages = {} /\ r.a.head = {}
           /\ p \in GBrains => r.a.home # "unsourced"
<1> USE DEF Mem0s, GBrains, OptMems, Lists, Fixed
<1>0. /\ s.store = {} /\ s.keys = {} /\ s.pages = {} /\ s.head = {}
      /\ s.home # "partial" /\ s.home # "unsourced"
  BY DEF Bare
<1>1. CASE p \in Mem0s
  <2> DEFINE t == [s EXCEPT !.listed = {}, !.keys = {}, !.open = FALSE]
             w == [t EXCEPT !.listed = {}, !.keys = {}, !.open = FALSE]
  <2>1. /\ w.store = {} /\ w.keys = {} /\ w.pages = {} /\ w.head = {} /\ t.open = FALSE
    BY <1>0 DEF Wide
  <2>2. r \in Mem0!Reset(t)
    BY <1>1 DEF NewOf, Mem0!New
  <2>3. r = Mem0!Returned(w, {})
    BY <2>1, <2>2 DEF Mem0!Reset, Mem0!RaisedFrom, Mem0!Refused
  <2>4. r.a = w
    BY <2>3 DEF Mem0!Returned
  <2> HIDE DEF w
  <2> QED BY <1>1, <2>1, <2>4
<1>2. CASE p = "hindsight"
  <2> DEFINE w == [s EXCEPT !.listed = {}]
  <2>1. w.store = {} /\ w.keys = {} /\ w.pages = {} /\ w.head = {}
    BY <1>0 DEF Wide
  <2>2. r = Hindsight!Returned(w, {}) \/ r = Hindsight!RaisedFrom(w)
    BY <1>2 DEF NewOf, Hindsight!New
  <2>3. r.a = w
    BY <2>2 DEF Hindsight!Returned, Hindsight!RaisedFrom, Hindsight!Refused
  <2> HIDE DEF w
  <2> QED BY <1>2, <2>1, <2>3
<1>3. CASE p \in GBrains
  <2> DEFINE b == [s EXCEPT !.listed = {}]
             w == [b EXCEPT !.home = "ready", !.store = {}]
  <2>1. /\ b.store = {} /\ b.keys = {} /\ b.pages = {} /\ b.head = {} /\ b.home # "partial"
        /\ w.store = {} /\ w.keys = {} /\ w.pages = {} /\ w.head = {}
        /\ b.home # "unsourced" /\ w.home = "ready"
    BY <1>0 DEF Wide
  <2>2. r \in GBrain!Ensure(b, Ollama(p))
    BY <1>3 DEF NewOf, GBrain!New
  <2> HIDE DEF b
  <2>3. r \in GBrain!Bootstrap(b)
    BY <2>1, <2>2 DEF GBrain!Ensure, GBrain!EnsureBrain, GBrain!EnsureBrainOllama
  <2>4. \/ r = GBrain!Returned(b, {}) \/ r = GBrain!Returned(w, {})
        \/ \E h \in {"bare", "partial", "unsourced"} :
              r = GBrain!RaisedFrom([b EXCEPT !.home = h, !.store = {}])
    BY <2>3 DEF GBrain!Bootstrap
  <2>5. r.a = b \/ r.a = w
    BY <2>4 DEF GBrain!Returned, GBrain!RaisedFrom, GBrain!Refused
  <2> HIDE DEF w
  <2> QED BY <2>1, <2>5
<1>4. CASE p \in OptMems
  <2> DEFINE b == [s EXCEPT !.listed = {}]
             w == [b EXCEPT !.store = {}, !.listed = {}]
  <2>1. w.store = {} /\ w.keys = {} /\ w.pages = {} /\ w.head = {}
    BY <1>0 DEF Wide
  <2>2. \/ r = OptMem!Returned(w, {}) \/ r = OptMem!RaisedFrom(b)
        \/ r = OptMem!RaisedFrom([b EXCEPT !.store = {}])
    BY <1>4 DEF NewOf, OptMem!New, OptMem!Reset
  <2>3. r.a = w
    BY <2>2 DEF OptMem!Returned, OptMem!RaisedFrom, OptMem!Refused
  <2> HIDE DEF w
  <2> QED BY <1>4, <2>1, <2>3
<1>5. CASE p = "bm25-sqlite-fts"
  <2> DEFINE b == [s EXCEPT !.listed = {}]
             g == [b EXCEPT !.store = {}]
             w == [g EXCEPT !.listed = {}]
  <2>1. w.store = {} /\ w.keys = {} /\ w.pages = {} /\ w.head = {}
    BY <1>0 DEF Wide
  <2>2. r = Lexical!Returned(w, {}) \/ r = Lexical!RaisedFrom(b) \/ r = Lexical!RaisedFrom(g)
    BY <1>5 DEF NewOf, Lexical!FtsNew, Lexical!FtsReset
  <2>3. r.a = w
    BY <2>2 DEF Lexical!Returned, Lexical!RaisedFrom, Lexical!Refused
  <2> HIDE DEF w
  <2> QED BY <1>5, <2>1, <2>3
<1>6. CASE p = "bm25-pure" \/ p \in Lists \cup Fixed
  <2> DEFINE w == [s EXCEPT !.listed = {}]
  <2>1. w.store = {} /\ w.keys = {} /\ w.pages = {} /\ w.head = {}
    BY <1>0 DEF Wide
  <2>2. r = Lexical!Returned(w, {}) \/ r = Control!Returned(w, {})
    BY <1>6 DEF NewOf, Lexical!PureNew, Lexical!PureReset, Control!ListNew
  <2>3. r.a = w
    BY <2>2 DEF Lexical!Returned, Control!Returned
  <2> HIDE DEF w
  <2> QED BY <1>6, <2>1, <2>3
<1> QED BY <1>1, <1>2, <1>3, <1>4, <1>5, <1>6, Families

LEMMA NewGoes ==
    ASSUME NEW p \in AllProducts, NEW s \in Wide, Bare(s), NEW r \in NewOf(p, s)
    PROVE  /\ Goes(p, s, r)
           /\ ~r.raised => r.a.listed = {} /\ r.a.store = {} /\ Fit(p, r.a)
<1>1. Fit(p, s)
  BY BareFit
<1>2. Built(p, s, r)
  BY <1>1, BuiltOf DEF Fit, Tame
<1>3. /\ Tame(p, r.a) /\ r.a.faults >= s.faults /\ (r.raised = TRUE \/ r.raised = FALSE)
      /\ r.raised => r.a.faults # s.faults
      /\ ~r.raised => r.a.listed = {} /\ Intact(p, r.a)
  BY <1>1, <1>2 DEF Built, Sound, Fit, Tame, Bare
<1>4. ASSUME ~r.raised PROVE Fit(p, r.a) /\ r.a.listed = {} /\ r.a.store = {}
  <2>1. /\ r.a.store = {} /\ r.a.keys = {} /\ r.a.pages = {} /\ r.a.head = {}
        /\ r.a.listed = {} /\ (p \in GBrains => r.a.home # "unsourced")
    BY <1>3, <1>4, NewBare
  <2>2. Agree(p, r.a) /\ Unopened(p, r.a)
    BY <2>1, OfUnion DEF Agree, Unopened
  <2> QED BY <1>3, <1>4, <2>1, <2>2 DEF Fit
<1> QED BY <1>3, <1>4 DEF Goes

(* The hash sees the list, and of OptMem the log.                          *)
LEMMA SnapshotIs ==
    ASSUME NEW p \in AllProducts, NEW s
    PROVE  /\ SnapshotOf(p, s).hash = IF p \in Fixed THEN <<>>
                                       ELSE IF p \in OptMems THEN <<s.listed, s.store>>
                                       ELSE <<s.listed>>
           /\ p \notin Fixed => SnapshotOf(p, s).events = s.listed
<1> USE DEF Mem0s, GBrains, OptMems, Lists, Fixed
<1>1. CASE p \in Mem0s
  <2>1. SnapshotOf(p, s) = [hash |-> <<s.listed>>, events |-> s.listed]
    BY <1>1 DEF SnapshotOf, Mem0!Snapshot, Mem0!Hash
  <2> QED BY <1>1, <2>1
<1>2. CASE p = "hindsight"
  <2>1. SnapshotOf(p, s) = [hash |-> <<s.listed>>, events |-> s.listed]
    BY <1>2 DEF SnapshotOf, Hindsight!Snapshot, Hindsight!Hash
  <2> QED BY <1>2, <2>1
<1>3. CASE p \in GBrains
  <2>1. SnapshotOf(p, s) = [hash |-> <<s.listed>>, events |-> s.listed]
    BY <1>3 DEF SnapshotOf, GBrain!Snapshot, GBrain!Hash
  <2> QED BY <1>3, <2>1
<1>4. CASE p \in OptMems
  <2>1. SnapshotOf(p, s) = [hash |-> <<s.listed, s.store>>, events |-> s.listed]
    BY <1>4 DEF SnapshotOf, OptMem!Snapshot, OptMem!Hash
  <2> QED BY <1>4, <2>1
<1>5. CASE p = "bm25-sqlite-fts" \/ p = "bm25-pure"
  <2>1. SnapshotOf(p, s) = [hash |-> <<s.listed>>, events |-> s.listed]
    BY <1>5 DEF SnapshotOf, Lexical!FtsSnapshot, Lexical!PureSnapshot
  <2> QED BY <1>5, <2>1
<1>6. CASE p \in Lists
  <2>1. SnapshotOf(p, s) = [hash |-> <<s.listed>>, events |-> s.listed]
    BY <1>6 DEF SnapshotOf, Control!ListSnapshot
  <2> QED BY <1>6, <2>1
<1>7. CASE p \in Fixed
  <2>1. SnapshotOf(p, s) = [hash |-> <<>>, events |-> {}]
    BY <1>7 DEF SnapshotOf, Control!FixedSnapshot
  <2> QED BY <1>7, <2>1
<1> QED BY <1>1, <1>2, <1>3, <1>4, <1>5, <1>6, <1>7, Families

(* Two states in which nothing is listed have one hash.                    *)
LEMMA EmptyHash ==
    ASSUME NEW p \in AllProducts, NEW s, Fit(p, s), NEW t, Fit(p, t),
           s.listed = {}, t.listed = {}
    PROVE  SnapshotOf(p, s).hash = SnapshotOf(p, t).hash
<1>1. \A x : Fit(p, x) /\ x.listed = {} /\ p \in OptMems => x.store = {}
  <2> SUFFICES ASSUME NEW x, Fit(p, x), x.listed = {} PROVE x.store = {}
    OBVIOUS
  <2>1. Of(x.store) = {}
    BY DEF Fit, Agree
  <2> QED BY <2>1 DEF Of
<1> QED BY <1>1, SnapshotIs

(* Events that are listed are not ingested again.                          *)
LEMMA NothingNew ==
    ASSUME NEW p \in AllProducts \ Fixed, NEW s, NEW batch, batch \subseteq s.listed,
           NEW r \in IngestOf(p, s, batch), ~r.raised
    PROVE  r.value = 0
<1> USE DEF Mem0s, GBrains, OptMems, Lists, Fixed
<1>0. batch \ s.listed = {} /\ Cardinality({}) = 0
  BY FS_EmptySet
<1>c. Lexical!Cardinality({}) = 0 /\ Control!Cardinality({}) = 0
  BY <1>0 DEF Lexical!Cardinality, Control!Cardinality, Cardinality
<1>1. CASE p \in Mem0s
  <2>1. r = Mem0!Returned(s, 0)
    BY <1>0, <1>1 DEF IngestOf, Mem0!Ingest
  <2> QED BY <2>1 DEF Mem0!Returned
<1>2. CASE p = "hindsight"
  <2>1. r = Hindsight!Returned(s, 0)
    BY <1>0, <1>2 DEF IngestOf, Hindsight!Ingest
  <2> QED BY <2>1 DEF Hindsight!Returned
<1>3. CASE p \in GBrains
  <2>1. r = GBrain!Returned(s, 0)
    BY <1>0, <1>3 DEF IngestOf, GBrain!Ingest
  <2> QED BY <2>1 DEF GBrain!Returned
<1>4. CASE p \in OptMems
  <2>1. r = OptMem!Returned(s, 0)
    BY <1>0, <1>4 DEF IngestOf, OptMem!Ingest
  <2> QED BY <2>1 DEF OptMem!Returned
<1>5. CASE p = "bm25-sqlite-fts"
  <2>1. r \in Lexical!FtsIngest(s, batch)
    BY <1>5 DEF IngestOf
  <2>2. \/ \E w : r = Lexical!Returned(w, Lexical!Cardinality(batch \ s.listed))
        \/ \E w : r = Lexical!RaisedFrom(w)
    BY <2>1 DEF Lexical!FtsIngest
  <2> QED BY <1>0, <1>c, <2>2 DEF Lexical!Returned, Lexical!RaisedFrom, Lexical!Refused
<1>6. CASE p = "bm25-pure"
  <2>1. r \in Lexical!PureIngest(s, batch)
    BY <1>6 DEF IngestOf
  <2>2. \E w : r = Lexical!Returned(w, Lexical!Cardinality(batch \ s.listed))
    BY <2>1 DEF Lexical!PureIngest, Lexical!Rebuilt
  <2> QED BY <1>0, <1>c, <2>2 DEF Lexical!Returned
<1>7. CASE p \in Lists
  <2>1. r \in Control!ListIngest(s, batch)
    BY <1>7 DEF IngestOf
  <2>2. \E w : r = Control!Returned(w, Control!Cardinality(batch \ s.listed))
    BY <2>1 DEF Control!ListIngest
  <2> QED BY <1>0, <1>c, <2>2 DEF Control!Returned
<1> QED BY <1>1, <1>2, <1>3, <1>4, <1>5, <1>6, <1>7, Families

(* The lines of a log do not depend on the object that appends them.       *)
LEMMA SameLines ==
    ASSUME NEW p \in OptMems, NEW batch, batch \in SUBSET Events, batch \cap TooLong = {},
           NEW s, s \in Wide, s.listed = {}, s.store = {},
           NEW t, t \in Wide, t.listed = {}, t.store = {},
           NEW r \in IngestOf(p, s, batch), ~r.raised, NEW x \in IngestOf(p, t, batch), ~x.raised
    PROVE  r.a.store = x.a.store
<1> DEFINE lines == {<<e, OptMem!Cardinality({}) + OptMem!Cardinality({f \in batch : f <= e})>> :
                       e \in batch}
<1>1. ASSUME NEW b \in Wide, b.listed = {}, b.store = {}, NEW y \in IngestOf(p, b, batch), ~y.raised
      PROVE  y.a.store = lines
  <2>1. y \in OptMem!Ingest(b, batch) /\ batch \ b.listed = batch /\ {} \cup lines = lines
    BY <1>1 DEF IngestOf, Mem0s, GBrains, OptMems, Lists, Fixed
  <2>2. OptMem!Lines(b, batch) = lines
    BY <1>1 DEF OptMem!Lines
  <2>3. CASE batch = {}
    <3>1. y = OptMem!Returned(b, 0) /\ lines = {}
      BY <2>1, <2>3 DEF OptMem!Ingest
    <3> QED BY <1>1, <3>1 DEF OptMem!Returned
  <2>4. CASE batch # {}
    <3> DEFINE w == [b EXCEPT !.store = b.store \cup OptMem!Lines(b, batch)]
               v == [w EXCEPT !.listed = @ \cup batch]
    <3>1. \/ \E n : y = OptMem!Returned(v, n)
          \/ \E u : y = OptMem!RaisedFrom(u)
      BY <2>1, <2>4 DEF OptMem!Ingest
    <3>2. v.store = lines
      <4> HIDE DEF lines
      <4>1. w.store = lines /\ "store" \in DOMAIN w
        BY <1>1, <2>1, <2>2 DEF Wide
      <4> HIDE DEF w
      <4> QED BY <4>1
    <3> HIDE DEF v, lines
    <3>3. \A u : OptMem!RaisedFrom(u).raised = TRUE
      BY DEF OptMem!RaisedFrom, OptMem!Refused
    <3>4. \A n : OptMem!Returned(v, n).a = v
      BY DEF OptMem!Returned
    <3> QED BY <1>1, <3>1, <3>2, <3>3, <3>4
  <2> QED BY <2>3, <2>4
<1> HIDE DEF lines
<1> QED BY <1>1

(* The most a query can be answered with, where no limit cuts it short.    *)
Best(p, s, q) == s.listed \cap (IF p = "optmem-native" THEN Events ELSE Visible[q])
Ample == /\ TopK \in Nat /\ SampleSize \in Nat
         /\ Cardinality(Events) <= TopK /\ Cardinality(Events) <= SampleSize

LEMMA NothingBetter ==
    ASSUME NEW p \in AllProducts \ (Fixed \cup {"mem0-native"}), NEW s \in Wide, Ready(p, s),
           NEW q \in Queries, NEW r \in RetrieveOf(p, s, q), ~r.raised
    PROVE  r.value \subseteq Best(p, s, q)
<1>1. Answered(p, s, q, r)
  BY AnsweredBy
<1>2. Held(p, s) = s.listed
  BY DEF Held, Ready
<1>3. r.value \subseteq s.listed /\ r.value \subseteq Events
  BY <1>1, <1>2 DEF Answered, Fixed
<1>4. p # "optmem-native" => r.value \subseteq Visible[q]
  BY <1>1 DEF Answered, Fixed
<1> QED BY <1>3, <1>4 DEF Best

LEMMA BestAnswer ==
    ASSUME Ample, NEW p \in AllProducts \ (Fixed \cup {"mem0-native"}), NEW s \in Wide, Ready(p, s),
           NEW q \in Queries
    PROVE  \E r \in RetrieveOf(p, s, q) : ~r.raised /\ r.value = Best(p, s, q)
<1> USE DEF Mem0s, GBrains, OptMems, Lists, Fixed
<1>0. s.listed \subseteq Events
  BY DEF Wide
<1>c. \A S : S \subseteq Events => Cardinality(S) \in Nat /\ Cardinality(S) <= Cardinality(Events)
  BY AdapterAssumption, FS_Subset, FS_CardinalityType
<1>n. Cardinality(Events) \in Nat
  BY AdapterAssumption, FS_CardinalityType
<1>1. CASE p = "mem0"
  <2>1. RetrieveOf(p, s, q) = Mem0!Retrieve(s, q)
    BY <1>1 DEF RetrieveOf
  <2>2. Mem0!Stored(s) = s.listed
    BY <1>1 DEF Ready, Exporting, Mem0!Stored, Of
  <2> DEFINE r == Mem0!Returned(Mem0!Opened(s), s.listed \cap s.listed \cap Visible[q])
  <2>3. r \in Mem0!Retrieve(s, q)
    BY <2>2 DEF Mem0!Retrieve
  <2>4. ~r.raised /\ r.value = Best(p, s, q)
    BY <1>1 DEF Mem0!Returned, Best
  <2> QED BY <2>1, <2>3, <2>4
<1>2. CASE p = "hindsight"
  <2>1. RetrieveOf(p, s, q) = Hindsight!Retrieve(s, q)
    BY <1>2 DEF RetrieveOf
  <2>2. Hindsight!Stored(s) = s.listed
    BY <1>2 DEF Ready, Exporting, Hindsight!Stored, Of
  <2> DEFINE r == Hindsight!Returned(s, s.listed \cap s.listed \cap Visible[q])
  <2>3. r \in Hindsight!Retrieve(s, q)
    BY <2>2 DEF Hindsight!Retrieve
  <2>4. ~r.raised /\ r.value = Best(p, s, q)
    BY <1>2 DEF Hindsight!Returned, Best
  <2> QED BY <2>1, <2>3, <2>4
<1>3. CASE p \in GBrains
  <2>1. RetrieveOf(p, s, q) = GBrain!Retrieve(s, q)
    BY <1>3 DEF RetrieveOf
  <2>2. GBrain!Stored(s) = s.listed
    BY <1>3 DEF Ready, Exporting, GBrain!Stored, Of
  <2> DEFINE r == GBrain!Returned(s, s.listed \cap s.listed \cap Visible[q])
  <2>3. r \in GBrain!Retrieve(s, q)
    BY <2>2 DEF GBrain!Retrieve
  <2>4. ~r.raised /\ r.value = Best(p, s, q)
    BY <1>3 DEF GBrain!Returned, Best
  <2> QED BY <2>1, <2>3, <2>4
<1>4. CASE p \in OptMems
  <2>1. RetrieveOf(p, s, q) = OptMem!Retrieve(s, q, p = "optmem")
    BY <1>4 DEF RetrieveOf
  <2>2. OptMem!Stored(s) = s.listed
    BY <1>4 DEF Ready, Exporting, OptMem!Stored, Of
  <2> DEFINE r == OptMem!Returned(s, s.listed \cap s.listed \cap
                                       (IF p = "optmem" THEN Visible[q] ELSE Events))
  <2>3. r \in OptMem!Retrieve(s, q, p = "optmem")
    BY <2>2 DEF OptMem!Retrieve
  <2>4. ~r.raised /\ r.value = Best(p, s, q)
    BY <1>4 DEF OptMem!Returned, Best
  <2> QED BY <2>1, <2>3, <2>4
<1>5. CASE p = "bm25-sqlite-fts"
  <2>1. RetrieveOf(p, s, q) = Lexical!FtsRetrieve(s, q)
    BY <1>5 DEF RetrieveOf
  <2>2. Lexical!Stored(s) = s.listed
    BY <1>5 DEF Ready, Lexical!Stored, Of
  <2> DEFINE T == s.listed \cap s.listed \cap Visible[q]
             r == Lexical!Returned(s, T)
  <2>3. T \in Lexical!AtMostK(T)
    <3>1. Cardinality(T) <= TopK
      BY <1>0, <1>c, <1>n DEF Ample
    <3> HIDE DEF T
    <3> QED BY <3>1 DEF Lexical!AtMostK, Lexical!Cardinality, Cardinality
  <2>4. T \in Lexical!FtsSearch(s, q, s.listed)
    BY <2>2, <2>3 DEF Lexical!FtsSearch
  <2> HIDE DEF T
  <2>5. r \in Lexical!FtsRetrieve(s, q)
    <3>1. r \in {Lexical!Returned(s, rows) : rows \in Lexical!FtsSearch(s, q, s.listed)}
      BY <2>4
    <3> HIDE DEF r
    <3> QED BY <2>2, <3>1 DEF Lexical!FtsRetrieve
  <2>6. ~r.raised /\ r.value = Best(p, s, q)
    BY <1>5 DEF Lexical!Returned, Best, T
  <2> QED BY <2>1, <2>5, <2>6
<1>6. CASE p = "bm25-pure"
  <2>1. RetrieveOf(p, s, q) = Lexical!PureRetrieve(s, q)
    BY <1>6 DEF RetrieveOf
  <2> DEFINE T == s.listed \cap Visible[q]
             r == Lexical!Returned(s, T)
  <2>3. T \in Lexical!AtMostK(T)
    <3>1. Cardinality(T) <= TopK
      BY <1>0, <1>c, <1>n DEF Ample
    <3> HIDE DEF T
    <3> QED BY <3>1 DEF Lexical!AtMostK, Lexical!Cardinality, Cardinality
  <2>5. r \in Lexical!PureRetrieve(s, q)
    BY <2>3 DEF Lexical!PureRetrieve
  <2>6. ~r.raised /\ r.value = Best(p, s, q)
    BY <1>6 DEF Lexical!Returned, Best
  <2> QED BY <2>1, <2>5, <2>6
<1>7. CASE p = "full-context"
  <2>1. RetrieveOf(p, s, q) = Control!FullRetrieve(s, q)
    BY <1>7 DEF RetrieveOf
  <2> DEFINE r == Control!Returned(s, s.listed \cap Visible[q])
  <2>5. r \in Control!FullRetrieve(s, q)
    BY DEF Control!FullRetrieve, Control!Eligible
  <2>6. ~r.raised /\ r.value = Best(p, s, q)
    BY <1>7 DEF Control!Returned, Best
  <2> QED BY <2>1, <2>5, <2>6
<1>8. CASE p = "random-retrieval"
  <2>1. RetrieveOf(p, s, q) = Control!RandomRetrieve(s, q)
    BY <1>8 DEF RetrieveOf
  <2> DEFINE T == s.listed \cap Visible[q]
             r == Control!Returned(s, T)
  <2>2. Control!Eligible(s, q) = T
    BY DEF Control!Eligible
  <2>3. Control!Cardinality(T) =
           IF Control!Cardinality(T) < SampleSize THEN Control!Cardinality(T) ELSE SampleSize
    <3>1. Cardinality(T) \in Nat /\ Cardinality(T) <= SampleSize
      BY <1>0, <1>c, <1>n DEF Ample
    <3>2. Control!Cardinality(T) = Cardinality(T)
      BY DEF Control!Cardinality, Cardinality
    <3> HIDE DEF T
    <3> QED BY <3>1, <3>2 DEF Ample
  <2> HIDE DEF T
  <2>4. T \in {S \in SUBSET T : Control!Cardinality(S) =
                  IF Control!Cardinality(T) < SampleSize THEN Control!Cardinality(T) ELSE SampleSize}
    BY <2>3
  <2>5. r \in Control!RandomRetrieve(s, q)
    BY <2>2, <2>4 DEF Control!RandomRetrieve
  <2>6. ~r.raised /\ r.value = Best(p, s, q)
    BY <1>8 DEF Control!Returned, Best, T
  <2> QED BY <2>1, <2>5, <2>6
<1> QED BY <1>1, <1>2, <1>3, <1>4, <1>5, <1>6, <1>7, <1>8, Families
=============================================================================
