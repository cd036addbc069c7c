----------------------------- MODULE CapabilityRun -----------------------------
(***************************************************************************)
(* scripts/run_capability_attribution.py: executions, one per provider and *)
(* several at a time, that are killed and repeated.  Each starts a gateway *)
(* proxy with what the ledgers leave of the experiment's ceiling and works *)
(* through the packs; a pack is run once, in a directory of its own, and   *)
(* whatever an attempt leaves behind is kept.                              *)
(*                                                                         *)
(* These are executions for the test split over all its packs: main        *)
(* refuses them the offline reader, so each has a proxy.                   *)
(*                                                                         *)
(* Abstracted: a reader cell (query, condition, replicate) is one post of  *)
(* estimated cost 1, whose retries GatewayProxy models; its answer and its *)
(* scores.  The calls of the provider under test are ProviderAdapters';    *)
(* here they return or raise.                                              *)
(***************************************************************************)
EXTENDS Integers, FiniteSets, Sequences

CONSTANTS
    Slots,         \* processes the script may run in at the same time
    Providers,     \* the providers studied
    PackCount,     \* the packs, run in order, are 1 .. PackCount
    Properties,    \* the properties of the selected queries, in order
    Replicates,    \* replicates of a reader cell
    Ceiling,       \* the experiment's ceiling, and
    PerRun,        \* the ceiling of one proxy, in estimated calls
    MaxCost,       \* bound: what a call may cost, the estimate being 1
    MaxExecutions  \* bound: executions

ASSUME CapabilityAssumption ==
    /\ IsFiniteSet(Slots)
    /\ Properties \in Seq(STRING)
    /\ PackCount \in Nat /\ Replicates \in Nat
    /\ Ceiling \in Nat /\ PerRun \in Nat
    /\ MaxCost \in Nat /\ MaxExecutions \in Nat

VARIABLES
    pc,        \* where each process is
    provider,  \* the provider its execution is about
    number,    \* the number of its execution
    pack,      \* the pack it is at
    query,     \* the position of the query it is at
    cell,      \* the next reader cell of the query
    rows,      \* cells with a row in memory
    observed,  \* queries with a retrieval row in memory
    cap,       \* the proxy's ceiling
    charged,   \* and what it has charged
    flying,    \* the cost of the post in flight
    dirs,      \* the run directory of each provider and pack
    summary,   \* the providers with a summary.json
    ledger,    \* cost on the ledgers
    spent,     \* cost incurred
    hidden,    \* cost that no ledger shows
    excess,    \* cost beyond the estimates since a proxy was last started alone
    runs,      \* executions so far
    overlapped \* two executions have been running at a time

place == <<pc, provider, number, pack, query, cell>>
memory == <<rows, observed>>
proxy == <<cap, charged, flying>>
costs == <<ledger, spent, hidden, excess>>
disk == <<dirs, summary>>
history == <<runs, overlapped>>
vars == <<place, memory, proxy, costs, disk, history>>

-----------------------------------------------------------------------------
(* The reader cells of a query: conditions of the preregistered design,    *)
(* each asked several times.                                               *)
Conditions(p, property) ==
    CASE property \in {"authority", "provenance"} -> {"M0P0", "M1P0", "M0P1", "M1P1"}
      [] property = "temporal" -> IF p = "hindsight" THEN {} ELSE {"C0-native", "C1-assisted"}
      [] property = "scope" -> {"D0-native", "D1-assisted"}
      [] OTHER -> {}                            \* deletion: no reader is asked

Positions == 1 .. Len(Properties)
CellsOf(p, i) == 1 .. Cardinality(Conditions(p, Properties[i])) * Replicates
Skipped(p, i) == p = "hindsight" /\ Properties[i] = "temporal"

(* What a finished pack consists of.                                       *)
AllObserved(p) == {i \in Positions : ~Skipped(p, i)}
AllRows(p) == UNION {{i} \X CellsOf(p, i) : i \in AllObserved(p)}

Parts == {"attempts.jsonl", "retrieval-observations.jsonl", "deletion-attribution.jsonl"}
NoDir == [owner |-> 0, manifest |-> "none", parts |-> {}, rows |-> {}, observed |-> {},
          sealed |-> FALSE]
Made(d) == d.owner # 0

Smaller(m, n) == IF m < n THEN m ELSE n

\* Mutant: what earlier executions have cost is not looked at.
WholeCeiling == Ceiling
Remaining == Ceiling - ledger

Dir(x) == dirs[provider[x]][pack[x]]
Becomes(x, d) == dirs' = [dirs EXCEPT ![provider[x]][pack[x]] = d]
Goes(x, where) == pc' = [pc EXCEPT ![x] = where]

-----------------------------------------------------------------------------
Init ==
    /\ pc = [x \in Slots |-> "idle"]
    /\ provider \in [Slots -> Providers]
    /\ number = [x \in Slots |-> 0]
    /\ pack = [x \in Slots |-> 1] /\ query = [x \in Slots |-> 1] /\ cell = [x \in Slots |-> 1]
    /\ rows = [x \in Slots |-> {}] /\ observed = [x \in Slots |-> {}]
    /\ cap = [x \in Slots |-> 0] /\ charged = [x \in Slots |-> 0] /\ flying = [x \in Slots |-> 0]
    /\ dirs = [p \in Providers |-> [k \in 1 .. PackCount |-> NoDir]]
    /\ summary = {}
    /\ ledger = 0 /\ spent = 0 /\ hidden = 0 /\ excess = 0
    /\ runs = 0 /\ overlapped = FALSE

Alone == \A y \in Slots : pc[y] = "idle"

(* No proxy is started when nothing remains; a changed work tree or a      *)
(* missing key ends the script just as early, with nothing done.           *)
Start(x, p) ==
    /\ pc[x] = "idle" /\ runs < MaxExecutions /\ Remaining > 0
    /\ Goes(x, "look")
    /\ provider' = [provider EXCEPT ![x] = p]
    /\ number' = [number EXCEPT ![x] = runs + 1]
    /\ cap' = [cap EXCEPT ![x] = Smaller(PerRun, Remaining)]
    /\ excess' = IF Alone THEN 0 ELSE excess
    /\ runs' = runs + 1
    /\ overlapped' = (overlapped \/ ~Alone)
    /\ UNCHANGED <<pack, query, cell, memory, charged, flying, ledger, spent, hidden, disk>>

(* The execution ends, by an exception or at the end of the packs: its     *)
(* proxy is stopped, its memory gone.                                      *)
Ends(x) ==
    /\ Goes(x, "idle")
    /\ number' = [number EXCEPT ![x] = 0]
    /\ pack' = [pack EXCEPT ![x] = 1] /\ query' = [query EXCEPT ![x] = 1]
    /\ cell' = [cell EXCEPT ![x] = 1]
    /\ rows' = [rows EXCEPT ![x] = {}] /\ observed' = [observed EXCEPT ![x] = {}]
    /\ cap' = [cap EXCEPT ![x] = 0] /\ charged' = [charged EXCEPT ![x] = 0]
    /\ flying' = [flying EXCEPT ![x] = 0]
    /\ UNCHANGED <<provider, history>>

(* A completed pack is passed over; any other manifest stops the script.   *)
Look(x) ==
    /\ pc[x] = "look" /\ pack[x] <= PackCount
    /\ \/ /\ Dir(x).manifest = "none"
          /\ Goes(x, "make")
          /\ UNCHANGED <<provider, number, pack, query, cell, memory, proxy, history>>
       \/ /\ Dir(x).manifest = "completed"
          /\ pack' = [pack EXCEPT ![x] = @ + 1]
          /\ UNCHANGED <<pc, provider, number, query, cell, memory, proxy, history>>
       \/ Dir(x).manifest \in {"running", "failed"} /\ Ends(x)
    /\ UNCHANGED <<costs, disk>>

\* Mutant: exist_ok=True.
MakeDirAnyway(x) ==
    /\ pc[x] = "make"
    /\ Goes(x, "load") /\ Becomes(x, [Dir(x) EXCEPT !.owner = number[x]])
    /\ UNCHANGED <<provider, number, pack, query, cell, memory, proxy, costs, summary, history>>

(* mkdir(exist_ok=False): a directory without a manifest, of an attempt    *)
(* that is running or was stopped early, stops the script.                 *)
MakeDir(x) ==
    /\ pc[x] = "make"
    /\ \/ Made(Dir(x)) /\ Ends(x) /\ UNCHANGED dirs
       \/ /\ ~Made(Dir(x))
          /\ Goes(x, "load") /\ Becomes(x, [Dir(x) EXCEPT !.owner = number[x]])
          /\ UNCHANGED <<provider, number, pack, query, cell, memory, proxy, history>>
    /\ UNCHANGED <<costs, summary>>

(* The pack is loaded and checked, its commitment included, before there   *)
(* is a manifest.                                                          *)
Load(x) ==
    /\ pc[x] = "load"
    /\ Goes(x, "populate") /\ Becomes(x, [Dir(x) EXCEPT !.manifest = "running"])
    /\ UNCHANGED <<provider, number, pack, query, cell, memory, proxy, costs, summary, history>>

LoadRaises(x) == pc[x] = "load" /\ Ends(x) /\ UNCHANGED <<costs, disk>>

(* The provider is created, the upserts ingested, the deletions made.      *)
Populate(x) ==
    /\ pc[x] = "populate"
    /\ Goes(x, "ask")
    /\ query' = [query EXCEPT ![x] = 1]
    /\ rows' = [rows EXCEPT ![x] = {}] /\ observed' = [observed EXCEPT ![x] = {}]
    /\ UNCHANGED <<provider, number, pack, cell, proxy, costs, disk, history>>

(* Retrieval, between two snapshots that must equal the baseline; then the *)
(* reader cells of the query.                                              *)
Ask(x) ==
    /\ pc[x] = "ask" /\ query[x] \in Positions
    /\ IF Skipped(provider[x], query[x])
       THEN /\ query' = [query EXCEPT ![x] = @ + 1]
            /\ UNCHANGED <<pc, cell, observed>>
       ELSE /\ Goes(x, "read")
            /\ cell' = [cell EXCEPT ![x] = 1]
            /\ observed' = [observed EXCEPT ![x] = @ \cup {query[x]}]
            /\ UNCHANGED query
    /\ UNCHANGED <<provider, number, pack, rows, proxy, costs, disk, history>>

Answered(x) ==
    /\ rows' = [rows EXCEPT ![x] = @ \cup {<<query[x], cell[x]>>}]
    /\ cell' = [cell EXCEPT ![x] = @ + 1]

(* A post the proxy refuses is a row with a reader error.                  *)
Refuse(x) ==
    /\ pc[x] = "read" /\ cell[x] \in CellsOf(provider[x], query[x])
    /\ charged[x] + 1 > cap[x]
    /\ Answered(x)
    /\ UNCHANGED <<pc, provider, number, pack, query, observed, proxy, costs, disk, history>>

\* Mutant: the proxy does not enforce its ceiling.
PostUnchecked(x, cost) ==
    /\ pc[x] = "read" /\ cell[x] \in CellsOf(provider[x], query[x])
    /\ Goes(x, "reader")
    /\ charged' = [charged EXCEPT ![x] = @ + 1]
    /\ flying' = [flying EXCEPT ![x] = cost]
    /\ spent' = spent + cost
    /\ excess' = excess + (IF cost > 1 THEN cost - 1 ELSE 0)
    /\ UNCHANGED <<provider, number, pack, query, cell, memory, cap, ledger, hidden, disk, history>>
Post(x, cost) ==
    /\ pc[x] = "read" /\ cell[x] \in CellsOf(provider[x], query[x])
    /\ charged[x] + 1 <= cap[x]
    /\ Goes(x, "reader")
    /\ charged' = [charged EXCEPT ![x] = @ + 1]
    /\ flying' = [flying EXCEPT ![x] = cost]
    /\ spent' = spent + cost
    /\ excess' = excess + (IF cost > 1 THEN cost - 1 ELSE 0)
    /\ UNCHANGED <<provider, number, pack, query, cell, memory, cap, ledger, hidden, disk, history>>

(* The proxy appends to its ledger, then answers; an answer that reports a *)
(* failure is a row all the same.  The entry has the usage of a 200 that   *)
(* was well-formed and nothing of the calls before it that failed or timed *)
(* out, nor of any call when the last was none: those count as free.       *)
Answer(x) ==
    /\ pc[x] = "reader"
    /\ Goes(x, "read")
    /\ Answered(x)
    /\ \E recorded \in 0 .. flying[x] :
          /\ ledger' = ledger + recorded
          /\ hidden' = hidden + (flying[x] - recorded)
    /\ flying' = [flying EXCEPT ![x] = 0]
    /\ UNCHANGED <<provider, number, pack, query, observed, cap, charged, spent, excess, disk, history>>

NextQuery(x) ==
    /\ pc[x] = "read" /\ cell[x] \notin CellsOf(provider[x], query[x])
    /\ Goes(x, "ask")
    /\ query' = [query EXCEPT ![x] = @ + 1]
    /\ UNCHANGED <<provider, number, pack, cell, memory, proxy, costs, disk, history>>

(* The three files of rows, one after the other, each written at once.     *)
WrittenBefore(part) ==
    CASE part = "attempts.jsonl"               -> {}
      [] part = "retrieval-observations.jsonl" -> {"attempts.jsonl"}
      [] part = "deletion-attribution.jsonl"   -> Parts \ {part}

Write(x, part) ==
    /\ pc[x] = "ask" /\ query[x] \notin Positions
    /\ Dir(x).parts = WrittenBefore(part)
    /\ Becomes(x, [Dir(x) EXCEPT !.parts = @ \cup {part}, !.rows = rows[x],
                                 !.observed = observed[x]])
    /\ UNCHANGED <<place, memory, proxy, costs, summary, history>>

\* Mutant: the manifest goes first.
CompleteEarly(x) ==
    /\ pc[x] = "ask" /\ query[x] \notin Positions
    /\ Goes(x, "seal") /\ Becomes(x, [Dir(x) EXCEPT !.manifest = "completed"])
    /\ UNCHANGED <<provider, number, pack, query, cell, memory, proxy, costs, summary, history>>

Complete(x) ==
    /\ pc[x] = "ask" /\ query[x] \notin Positions /\ Dir(x).parts = Parts
    /\ Goes(x, "seal") /\ Becomes(x, [Dir(x) EXCEPT !.manifest = "completed"])
    /\ UNCHANGED <<provider, number, pack, query, cell, memory, proxy, costs, summary, history>>

Seal(x) ==                                       \* manifest.sha256
    /\ pc[x] = "seal"
    /\ Goes(x, "look") /\ Becomes(x, [Dir(x) EXCEPT !.sealed = TRUE])
    /\ pack' = [pack EXCEPT ![x] = @ + 1]
    /\ UNCHANGED <<provider, number, query, cell, memory, proxy, costs, summary, history>>

(* Any exception between the first and the last manifest, the writing of   *)
(* manifest.sha256 included; one of the reader is a row.                   *)
Fail(x) ==
    /\ pc[x] \in {"populate", "ask", "read", "seal"}
    /\ Ends(x) /\ Becomes(x, [Dir(x) EXCEPT !.manifest = "failed"])
    /\ UNCHANGED <<costs, summary>>

Summarise(x) ==
    /\ pc[x] = "look" /\ pack[x] > PackCount
    /\ Ends(x)
    /\ summary' = summary \cup {provider[x]}
    /\ UNCHANGED <<costs, dirs>>

(* The process is killed, and its proxy with it.                           *)
Kill(x) ==
    /\ pc[x] # "idle"
    /\ Ends(x)
    /\ hidden' = hidden + flying[x]
    /\ UNCHANGED <<ledger, spent, excess, disk>>

Step(x) ==
    \/ \E p \in Providers : Start(x, p)
    \/ Look(x) \/ MakeDir(x) \/ Load(x) \/ LoadRaises(x) \/ Populate(x)
    \/ Ask(x) \/ Refuse(x) \/ (\E cost \in 0 .. MaxCost : Post(x, cost))
    \/ Answer(x) \/ NextQuery(x) \/ (\E part \in Parts : Write(x, part)) \/ Complete(x) \/ Seal(x)
    \/ Fail(x) \/ Summarise(x) \/ Kill(x)

Next == \E x \in Slots : Step(x)

Spec == Init /\ [][Next]_vars

-----------------------------------------------------------------------------
Places == {"idle", "look", "make", "load", "populate", "ask", "read", "reader", "seal"}
Manifests == {"none", "running", "completed", "failed"}
DirType == [owner : Nat, manifest : Manifests, parts : SUBSET Parts,
            rows : SUBSET (Nat \X Nat), observed : SUBSET Nat, sealed : BOOLEAN]

TypeOK ==
    /\ pc \in [Slots -> Places] /\ provider \in [Slots -> Providers]
    /\ number \in [Slots -> Nat] /\ pack \in [Slots -> 1 .. PackCount + 1]
    /\ query \in [Slots -> Nat] /\ cell \in [Slots -> Nat]
    /\ rows \in [Slots -> SUBSET (Nat \X Nat)] /\ observed \in [Slots -> SUBSET Nat]
    /\ cap \in [Slots -> 0 .. Ceiling] /\ charged \in [Slots -> Nat]
    /\ \A x \in Slots : charged[x] <= cap[x]
    /\ flying \in [Slots -> 0 .. MaxCost]
    /\ dirs \in [Providers -> [1 .. PackCount -> DirType]]
    /\ summary \subseteq Providers
    /\ ledger \in Nat /\ spent \in Nat /\ hidden \in Nat /\ excess \in Nat
    /\ runs \in 0 .. MaxExecutions /\ overlapped \in BOOLEAN

(* A pack that counts as completed has all its files, with one row for     *)
(* every reader cell and every retrieval of the design, whatever was       *)
(* refused, killed or repeated on the way.  A summary stands on whole      *)
(* packs; that they count as completed is only true as long as no other    *)
(* execution was about to seal one of them.                                *)
Whole(p, d) == d.parts = Parts /\ d.rows = AllRows(p) /\ d.observed = AllObserved(p)

CompletedIsWhole ==
    \A p \in Providers, k \in 1 .. PackCount :
        /\ dirs[p][k].manifest = "completed" \/ p \in summary => Whole(p, dirs[p][k])
        /\ p \in summary /\ ~overlapped => dirs[p][k].manifest = "completed"

(* "preserve and diagnose before retry": only the execution that made a    *)
(* directory ever changes it, and only while it runs; an attempt that was  *)
(* stopped stays as it is, also under two executions of one provider.      *)
AttemptsPreserved ==
    [][\A p \in Providers, k \in 1 .. PackCount :
          Made(dirs[p][k]) /\ dirs'[p][k] # dirs[p][k] =>
              \E x \in Slots : pc[x] # "idle" /\ number[x] = dirs[p][k].owner]_vars

(* preregistration.md:255 promises a hard ceiling, enforced fail-closed.   *)
(* What the code keeps is this: executions one after the other stay within *)
(* the ceiling, except for cost no ledger shows (of killed posts, and of   *)
(* calls whose usage was not recorded) and what calls cost beyond their    *)
(* estimate since a proxy was last started alone; once there have been two *)
(* at a time, for every process a ceiling.                                 *)
SpendBounded ==
    spent <= (IF overlapped THEN Cardinality(Slots) ELSE 1) * Ceiling + hidden + excess
=============================================================================
