---------------------------- MODULE ProviderGates -----------------------------
(***************************************************************************)
(* What stands between an adapter and a scored run: the provider contract  *)
(* (providers/compliance.py) before registration (providers/registry.py),  *)
(* the contamination preflight (contamination/) before a run, the shorter  *)
(* preflight of the gbrain supplement (scripts/run_gbrain_native_local.py) *)
(* and scripts/validate_provider.py for a contributor.  Each is a list of  *)
(* checks worked through in order; a check is a composition of calls of    *)
(* the adapter, each of which may raise.                                   *)
(*                                                                         *)
(* To see what the gates let through, an adapter may have a flaw, as the   *)
(* MutatingProvider of tests/contract/test_provider_contract.py has, and   *)
(* its search may be thorough (it finds all it can) or at times find       *)
(* nothing or fail.                                                        *)
(* Of the conformance corpus four events are left: one the questions ask   *)
(* for, one of the future, one of another owner, one to be deleted.        *)
(***************************************************************************)
EXTENDS Adapters, Sequences

CONSTANTS Asked, Future, Other, Doomed,   \* the four events
          Missing,                        \* an id of no event
          current, future, other, unknown \* the queries that ask for them

(* CONFORMANCE_EVENTS, EVENT_IDS: what is asked for and what is deleted    *)
(* are events of the user that query() speaks for, before its time.        *)
ASSUME CorpusAssumption ==
    /\ {Asked, Future, Other, Doomed} \subseteq Events /\ Missing \notin Events
    /\ Asked \notin {Future, Other, Doomed} /\ Future \notin {Other, Doomed} /\ Other # Doomed
    /\ current \in Queries /\ {Asked, Doomed} \subseteq Visible[current]

(* CONFORMANCE_QUESTIONS: no question may be answered with the future      *)
(* event, one is asked for the other owner and one for nobody.  The eight  *)
(* events are short, and fewer than the ten that the answers are cut to.   *)
ASSUME QuestionsAssumption ==
    /\ {future, other, unknown} \subseteq Queries
    /\ Visible[current] \cap {Future, Other} = {} /\ Future \notin Visible[future]
    /\ Visible[other] = {Other} /\ Visible[unknown] = {}
    /\ \A q \in Queries : Gold[q] \subseteq Available[q]
    /\ Events \cap TooLong = {}
    /\ TopK \in Nat /\ SampleSize \in Nat
    /\ Cardinality(Events) <= TopK /\ Cardinality(Events) <= SampleSize

VARIABLES gate,      \* contract, preflight, validation or supplement
          product, flaw, thorough,
          setup,     \* the surroundings a gate looks at
          a,         \* the adapter under the contract or the validation
          todo,      \* the checks still to do
          results,   \* the checks done, with their outcomes
          answer,    \* current_ids of the contract
          verdict,   \* running, passed, failed or raised
          registry   \* the registered names: this product's or none

vars == <<gate, product, flaw, thorough, setup, a, todo, results, answer, verdict, registry>>

Gates == {"contract", "preflight", "validation", "supplement"}
ProductsOf(g) == IF g = "supplement" THEN Products \cap {"gbrain-ollama"} ELSE Products
Flaws == {"none", "keeps-state", "keeps-deleted", "counts-again", "sees-future",
          "sees-others", "mutates", "misses", "forgets"}
Controls == {"no-memory", "oracle", "random-retrieval"}
Natives == {"mem0-native", "optmem-native"}
SupportsDelete == product \notin OptMems

-----------------------------------------------------------------------------
(* The adapter, its flaw included.                                         *)
Reset(s) == IF flaw = "keeps-state" THEN {Returned(s, {})} ELSE ResetOf(product, s)

Ingest(s, batch) ==
    {IF flaw = "counts-again" /\ ~r.raised THEN [r EXCEPT !.value = Cardinality(batch)] ELSE r :
        r \in IngestOf(product, s, batch)}

Delete(s, e) == IF flaw = "keeps-deleted" THEN {Returned(s, TRUE)} ELSE DeleteOf(product, s, e)

Distorted(r) ==
    IF r.raised THEN r
    ELSE CASE flaw = "sees-future" -> [r EXCEPT !.value = @ \cup (r.a.listed \cap {Future})]
           [] flaw = "sees-others" -> [r EXCEPT !.value = @ \cup (r.a.listed \ {Future})]
           [] flaw = "misses" -> [r EXCEPT !.value = @ \ {Asked}]
           [] flaw = "mutates" -> [r EXCEPT !.a.made = @ + 1]
           [] OTHER -> r

Retrieve(s, q) ==
    LET all == RetrieveOf(product, s, q)
        most(r) == /\ ~r.raised
                   /\ \A x \in all : r.value \subseteq x.value => x.value = r.value
        nothing(r) == r.raised \/ r.value = {}
    IN  {Distorted(r) : r \in {x \in all : most(x) \/ (~thorough /\ nothing(x))}}

HashOf(s) == <<SnapshotOf(product, s).hash, IF flaw = "mutates" THEN s.made ELSE 0>>

Restart(s) ==
    IF flaw = "forgets" THEN {Returned([s EXCEPT !.listed = {}], {})} ELSE RestartOf(product, s)

(* A directory of its own, for a provider made for one check.              *)
Apart(s) == [Blank EXCEPT !.faults = s.faults]
New(s) == NewOf(product, s)
Back(s, r) == [r EXCEPT !.a = [s EXCEPT !.faults = r.a.faults]]

-----------------------------------------------------------------------------
(* The checks.  An outcome is the adapter afterwards, whether the check    *)
(* raised, and what it recorded.                                           *)
Says(s, word) == {Returned(s, [is |-> word, ids |-> answer])}
Found(s, ok, ids) == {Returned(s, [is |-> IF ok THEN "native" ELSE "failed", ids |-> ids])}
Judge(s, ok) == Found(s, ok, answer)

FreshState(s) ==
    Then(Reset(s), LAMBDA b : Then(Ingest(b, Events), LAMBDA c :
    Then(AwaitReadyOf(product, c), LAMBDA d : Then(Reset(d), LAMBDA e :
        Judge(e, HashOf(e) = HashOf(b))))))

\* Mutant: takes the length of the batch for the expected count.
DedupCounts(s) ==
    Then(Ingest(s, Events), LAMBDA b : ThenWith(Ingest(b, {Asked, Future}), LAMBDA c, n :
        Judge(c, n = 2)))
Dedup(s) ==
    Then(Ingest(s, Events), LAMBDA b : ThenWith(Ingest(b, {Asked, Future}), LAMBDA c, n :
        Judge(c, n = 0)))

Ordering(s) ==
    Then(New(Apart(s)), LAMBDA b : Then(New(Apart(b)), LAMBDA c :
    Then(Ingest(b, Events), LAMBDA d : Then(Ingest([c EXCEPT !.faults = d.faults], Events), LAMBDA e :
        Judge([s EXCEPT !.faults = e.faults], HashOf(d) = HashOf(e))))))

Readiness(s) == Then(AwaitReadyOf(product, s), LAMBDA b : Says(b, "native"))

(* The raw trace and the canary are looked for in two answers.             *)
CanaryCurrent(s) ==
    Then(Retrieve(s, current), LAMBDA b : ThenWith(Retrieve(b, current), LAMBDA c, ids :
        Found(c, Asked \in ids, ids)))

ReadOnlyRetrieval(s) ==
    Then(Retrieve(s, current), LAMBDA b : Judge(b, HashOf(b) = HashOf(s)))

SnapshotRestore(s) ==
    Then(IF flaw = "keeps-state" THEN {Returned(s, {})}
         ELSE RestoreOf(product, s, SnapshotOf(product, s)),
         LAMBDA b : ThenWith(Retrieve(b, current), LAMBDA c, ids : Judge(c, ids = answer)))

CanaryFuture(s) ==
    ThenWith(Retrieve(s, future), LAMBDA b, ids : Judge(b, Future \notin ids))

CanaryCrossUser(s) ==
    ThenWith(Retrieve(s, other), LAMBDA b, ids : Judge(b, ids = {Other}))

(* Authority and multi-hop: other questions for events like Asked.         *)
CanaryReach(s) ==
    ThenWith(Retrieve(s, current), LAMBDA b, ids : Judge(b, Asked \in ids))

\* Mutant: does not look whether the event is gone.
CanaryDeletedUnasked(s) ==
    IF ~SupportsDelete THEN Says(s, "not_applicable")
    ELSE Then(Delete(s, Doomed), LAMBDA b : Says(b, "native"))
CanaryDeleted(s) ==
    IF ~SupportsDelete THEN Says(s, "not_applicable")
    ELSE Then(Delete(s, Doomed), LAMBDA b : ThenWith(Retrieve(b, current), LAMBDA c, ids :
            Judge(c, Doomed \notin ids)))

(* These three record an exception as a failed check and go on.            *)
Caught(outcomes, word) ==
    UNION {IF r.raised THEN Says(r.a, word) ELSE {r} : r \in outcomes}

ErrorNormalization(s) ==
    IF ~SupportsDelete THEN Says(s, "not_applicable")
    ELSE Caught(Then(DeleteOf(product, s, Missing), LAMBDA b : Says(b, "native")), "failed")

SameAnswer(s, Between(_)) ==
    ThenWith(Retrieve(s, current), LAMBDA b, pre : Then(Between(b), LAMBDA c :
    ThenWith(Retrieve(c, current), LAMBDA d, post : Judge(d, post = pre))))

ExportImport(s) ==
    IF product \notin Exporting THEN Says(s, "unsupported")
    ELSE Caught(SameAnswer(s, LAMBDA b :
            Then(Reset(b), LAMBDA c : ImportOf(product, c, ExportOf(product, b)))), "failed")

RestartKeeps(s) ==
    IF product \notin Exporting THEN Says(s, "unsupported") ELSE Caught(SameAnswer(s, Restart), "failed")

UnknownPrincipal(s) ==
    ThenWith(Retrieve(s, unknown), LAMBDA b, ids : Judge(b, ids = {}))

Closing(s) == Then(CleanupOf(product, s), LAMBDA b : Says(b, "native"))

-----------------------------------------------------------------------------
(* Checks of the preflight: a new provider in a temporary directory is     *)
(* given a few events, looked at and closed.                               *)
AndCleanUp(outcomes) ==
    ThenWith(outcomes, LAMBDA b, said : {Returned(c.a, said) : c \in CleanupOf(product, b)})

Primed(s, batch, Look(_)) ==
    {Back(s, r) : r \in AndCleanUp(
        Then(New(Apart(s)), LAMBDA b : Then(Reset(b), LAMBDA c : Then(Ingest(c, batch), LAMBDA d :
        Then(AwaitReadyOf(product, d), Look)))))}

CanaryIsolation(s) ==
    Primed(s, {Asked}, LAMBDA b : ThenWith(Retrieve(b, current), LAMBDA c, mine :
        ThenWith(Retrieve(c, current), LAMBDA d, ids :
            Judge(d, Asked \in mine /\ ids \subseteq {Asked}))))

NotRetrieved(s, e) ==
    Primed(s, {e}, LAMBDA b : ThenWith(Retrieve(b, current), LAMBDA c, ids :
        Judge(c, e \notin ids)))

QueryMutation(s) ==
    Primed(s, {Asked, Doomed}, LAMBDA b : Then(Retrieve(b, current), LAMBDA c :
        Judge(c, HashOf(c) = HashOf(b))))

FreshStateProbe(s) ==
    {Back(s, r) : r \in AndCleanUp(
        Then(New(Apart(s)), LAMBDA b : Then(Reset(b), LAMBDA c :
        Then(Ingest(c, {Asked}), LAMBDA d : Then(AwaitReadyOf(product, d), LAMBDA e :
        Then(Reset(e), LAMBDA f : Judge(f, HashOf(f) = HashOf(c))))))))}

(* The issues the verdict rests on: that of a private mount is appended    *)
(* after it is taken.                                                      *)
ComposeIssues(compose) == compose \cap {"missing file", "host network", "no internal network"}

ReaderAbstains(s) ==
    Says(s, CASE setup.reader = "offline" -> "not_applicable"
              [] setup.reader = "abstains" -> "native"
              [] OTHER -> "failed")             \* none, leaks, fails

OracleComplete(s) ==
    LET answerable == {q \in Queries : Gold[q] # {}}
        right(q) == \A r \in Control!OracleRetrieve(s, q, Available[q]) : r.value = Gold[q]
    IN  IF answerable = {} THEN Says(s, "not_applicable")
        ELSE Judge(s, \A q \in answerable : right(q))

(* The native track measures what the controlled track gates; the checks   *)
(* run all the same.                                                       *)
Measured(check) ==
    /\ gate = "preflight" /\ setup.native
    /\ \/ check \in {"cross_user_isolation", "future_leakage"}
       \/ check = "canary_isolation" /\ product \in {"mem0-native", "hindsight"}

-----------------------------------------------------------------------------
(* Steps of validate_provider.  reset builds the provider first; when that *)
(* fails the script goes on without one, and stops at its first use.       *)
ValidateReset(s) ==
    Then(New(s), LAMBDA b : Caught(Then(Reset(b), LAMBDA c : Says(c, "PASS")), "NOT_RUN"))

OrCleanUp(s, outcomes) ==
    LET failed == Caught(Then(outcomes, LAMBDA b : Says(b, "PASS")), "FAIL")
    IN  UNION {IF r.value.is = "FAIL" THEN Then(CleanupOf(product, r.a), LAMBDA b : Says(b, "FAIL"))
               ELSE {r} : r \in failed}

ThreeQueries(s) ==
    Then(Retrieve(s, current), LAMBDA b : Then(Retrieve(b, other), LAMBDA c : Retrieve(c, unknown)))

ValidateDelete(s) ==
    IF ~SupportsDelete THEN Says(s, "UNSUPPORTED")
    ELSE Caught(Then(DeleteOf(product, s, Missing), LAMBDA b : Says(b, "PASS")), "PASS")

-----------------------------------------------------------------------------
(* The checks of the gbrain supplement share one provider, which a finally *)
(* block cleans up.                                                        *)
EmptyAtStart(s) == Judge(s, SnapshotOf(product, s).events = {})

ProbeEvents(s) ==
    Then(Ingest(s, Events), LAMBDA b : Then(AwaitReadyOf(product, b), LAMBDA c : Says(c, "native")))

\* The two foreign markers belong to no event.
OwnCanary(s) ==
    ThenWith(Retrieve(s, current), LAMBDA b, mine : Then(Retrieve(b, unknown), LAMBDA c :
        Then(Retrieve(c, unknown), LAMBDA d : Judge(d, Asked \in mine))))

NoLeak(s, e) == ThenWith(Retrieve(s, current), LAMBDA b, ids : Judge(b, e \notin ids))

OrFinally(outcomes) ==
    UNION {IF r.raised THEN {Refused(c.a) : c \in CleanupOf(product, r.a)} ELSE {r} : r \in outcomes}

-----------------------------------------------------------------------------
Plan ==
    CASE gate = "contract" ->
           <<"metadata", "unregistered", "probe", "factory", "fresh_state", "dedup", "ordering",
             "readiness", "canary_current", "read_only_retrieval", "snapshot_restore",
             "canary_future", "canary_cross_user", "canary_authority", "canary_multi_hop",
             "canary_deleted", "error_normalization", "unknown_principal",
             "export_import", "restart", "cleanup">>
      [] gate = "preflight" ->
           <<"network_egress", "compose_policy", "gold_inaccessibility", "no_memory_control",
             "oracle_control", "canary_isolation", "cross_user_isolation",
             "future_leakage", "query_mutation", "fresh_state", "reader_statelessness">>
      [] gate = "validation" ->
           <<"import", "manifest", "reset", "ingest", "readiness", "retrieval",
             "deletion", "cleanup", "tracks">>
      [] gate = "supplement" ->
           <<"network_egress", "compose_policy", "gold_inaccessibility", "no_memory_control",
             "oracle_control", "provider", "empty_at_start", "probe_events", "canary_isolation",
             "cross_user_isolation", "future_leakage", "query_mutation",
             "reader_statelessness", "cleanup">>

ContractCheck(check, s) ==
    CASE check = "metadata" -> IF setup.meta THEN Says(s, "native") ELSE {Refused(s)}
      [] check = "unregistered" -> IF product \in registry THEN {Refused(s)} ELSE Says(s, "native")
      [] check = "probe" -> Judge(s, setup.containerized => setup.probe)
      [] check = "factory" -> Then(New(s), LAMBDA b : Says(b, "native"))
      [] check = "fresh_state" -> FreshState(s)
      [] check = "dedup" -> Dedup(s)
      [] check = "ordering" -> Ordering(s)
      [] check = "readiness" -> Readiness(s)
      [] check = "canary_current" -> CanaryCurrent(s)
      [] check = "read_only_retrieval" -> ReadOnlyRetrieval(s)
      [] check = "snapshot_restore" -> SnapshotRestore(s)
      [] check = "canary_future" -> CanaryFuture(s)
      [] check = "canary_cross_user" -> CanaryCrossUser(s)
      [] check \in {"canary_authority", "canary_multi_hop"} -> CanaryReach(s)
      [] check = "canary_deleted" -> CanaryDeleted(s)
      [] check = "error_normalization" -> ErrorNormalization(s)
      [] check = "unknown_principal" -> UnknownPrincipal(s)
      [] check = "export_import" -> ExportImport(s)
      [] check = "restart" -> RestartKeeps(s)
      [] check = "cleanup" -> Closing(s)

(* The controls keep no memory to look into.                               *)
MemoryCheck(check, s) ==
    CASE check = "canary_isolation" -> CanaryIsolation(s)
      [] check = "cross_user_isolation" -> NotRetrieved(s, Other)
      [] check = "future_leakage" -> NotRetrieved(s, Future)
      [] check = "query_mutation" -> QueryMutation(s)

PreflightCheck(check, s) ==
    CASE check = "network_egress" -> Says(s, IF setup.containerized THEN "failed" ELSE "not_applicable")
      [] check = "compose_policy" -> Judge(s, ComposeIssues(setup.compose) = {})
      [] check = "gold_inaccessibility" -> Judge(s, ~setup.goldInside)
      [] check = "no_memory_control" -> ReaderAbstains(s)
      [] check = "oracle_control" -> OracleComplete(s)
      [] check = "fresh_state" -> FreshStateProbe(s)
      [] check = "reader_statelessness" ->
            Says(s, CASE setup.reader = "offline" -> "not_applicable"
                      [] setup.reader = "none" -> "failed" [] OTHER -> "native")
      [] OTHER -> IF product \in Controls THEN Says(s, "not_applicable") ELSE MemoryCheck(check, s)

ValidationCheck(check, s) ==
    CASE check = "import" -> {Back(s, r) : r \in Then(New(Apart(s)), LAMBDA b : Says(b, "PASS"))}
      [] check = "manifest" ->
            Says(s, IF setup.manifest = "MISMATCH" THEN "PASS" ELSE setup.manifest)
      [] check = "reset" -> ValidateReset(s)
      [] check = "ingest" -> OrCleanUp(s, Ingest(s, {Asked, Doomed}))
      [] check = "readiness" -> Caught(Then(AwaitReadyOf(product, s), LAMBDA b : Says(b, "PASS")), "WARN")
      [] check = "retrieval" -> OrCleanUp(s, ThreeQueries(s))
      [] check = "deletion" -> ValidateDelete(s)
      [] check = "cleanup" -> Closing(s)
      [] check = "tracks" -> Says(s, IF setup.manifest = "MISMATCH" THEN "MISMATCH" ELSE "PASS")

SupplementCheck(check, s) ==
    CASE check = "provider" -> Then(New(Apart(s)), LAMBDA b : Says(b, "native"))
      [] check = "empty_at_start" -> OrFinally(EmptyAtStart(s))
      [] check = "probe_events" -> OrFinally(ProbeEvents(s))
      [] check = "canary_isolation" -> OrFinally(OwnCanary(s))
      [] check = "cross_user_isolation" -> OrFinally(NoLeak(s, Other))
      [] check = "future_leakage" -> OrFinally(NoLeak(s, Future))
      [] check = "query_mutation" -> OrFinally(ReadOnlyRetrieval(s))
      [] check = "cleanup" -> Closing(s)
      [] OTHER -> PreflightCheck(check, s)

CheckOf(check, s) ==
    CASE gate = "contract" -> ContractCheck(check, s)
      [] gate = "preflight" -> PreflightCheck(check, s)
      [] gate = "validation" -> ValidationCheck(check, s)
      [] gate = "supplement" -> SupplementCheck(check, s)

-----------------------------------------------------------------------------
(* A missing compose file says nothing else; a manifest that could not be  *)
(* read is not compared with the registry.  Hindsight is the same adapter  *)
(* in both tracks, but for its time-outs.                                  *)
Setups ==
    CASE gate = "contract" -> [meta : BOOLEAN, containerized : BOOLEAN, probe : BOOLEAN]
      [] gate \in {"preflight", "supplement"} ->
           [compose : {{"missing file"}} \cup
                      SUBSET {"host network", "no internal network", "private mount"},
            native : IF gate = "preflight" /\ product = "hindsight" THEN BOOLEAN
                     ELSE {gate = "preflight" /\ product \in Natives},
            goldInside : BOOLEAN, containerized : BOOLEAN,
            reader : {"offline", "abstains", "leaks", "fails", "none"}]
      [] gate = "validation" ->
           [manifest : {"PASS", "FAIL", "MISSING", "MISMATCH"}]

Init ==
    /\ gate \in Gates
    /\ product \in ProductsOf(gate)
    /\ flaw \in IF product = "full-context" THEN Flaws \ {"forgets"}
                ELSE IF product = "hindsight" \/ gate = "supplement" THEN Flaws ELSE {"none"}
    /\ thorough \in IF flaw = "none" THEN BOOLEAN ELSE {TRUE}
    /\ setup \in Setups
    /\ a = Blank
    /\ todo = Plan
    /\ results = << >>
    /\ answer = {}
    /\ verdict = "running"
    /\ registry \in IF gate = "contract" THEN {{}, {product}} ELSE {{}}

(* An exception outside the try of run_contract, and any in the other two, *)
(* leaves the gate.                                                        *)
Unguarded(check) == gate # "contract" \/ check \in {"metadata", "unregistered", "factory"}

(* A verdict reached before the end of the list.                           *)
EndsWith(check, word) ==
    \/ check = "probe" /\ word = "failed"
    \/ gate = "validation" /\ check # "manifest" /\ word \in {"FAIL", "MISMATCH"}

Recorded(check, word) ==
    [c \in DOMAIN results \cup {check} |-> IF c = check THEN word ELSE results[c]]

CheckReturns ==
    /\ verdict = "running" /\ todo # << >>
    /\ \E r \in CheckOf(Head(todo), a) :
          LET word == IF Measured(Head(todo)) THEN "not_applicable" ELSE r.value.is
          IN  /\ ~r.raised /\ Within(r.a)
              /\ a' = r.a /\ answer' = r.value.ids
              /\ results' = Recorded(Head(todo), word)
              /\ verdict' = IF EndsWith(Head(todo), word) THEN "failed" ELSE verdict
    /\ todo' = Tail(todo)
    /\ UNCHANGED <<gate, product, flaw, thorough, setup, registry>>

\* Mutant: an exception ends the contract without a failed check.
CheckRaisesUnmarked ==
    /\ verdict = "running" /\ todo # << >>
    /\ \E r \in CheckOf(Head(todo), a) : r.raised /\ Within(r.a) /\ a' = r.a
    /\ todo' = << >>
    /\ UNCHANGED <<gate, product, flaw, thorough, setup, results, answer, verdict, registry>>
CheckRaises ==
    /\ verdict = "running" /\ todo # << >>
    /\ \E r \in CheckOf(Head(todo), a) : r.raised /\ Within(r.a) /\ a' = r.a
    /\ IF Unguarded(Head(todo))
       THEN verdict' = "raised" /\ UNCHANGED <<todo, results>>
       ELSE /\ results' = Recorded("contract_execution", "failed")
            /\ todo' = << >> /\ UNCHANGED verdict
    /\ UNCHANGED <<gate, product, flaw, thorough, setup, answer, registry>>

Failed == {check \in DOMAIN results : results[check] = "failed"}

(* A passed contract is written to the registry.                           *)
Conclude ==
    /\ verdict = "running" /\ todo = << >>
    /\ verdict' = IF Failed = {} THEN "passed" ELSE "failed"
    /\ registry' = IF gate = "contract" /\ Failed = {} THEN registry \cup {product} ELSE registry
    /\ UNCHANGED <<gate, product, flaw, thorough, setup, a, todo, results, answer>>

Next == CheckReturns \/ CheckRaises \/ Conclude

Spec == Init /\ [][Next]_vars

-----------------------------------------------------------------------------
Ended == verdict # "running"

(* What a gate writes down and lets pass: a private mount in the compose   *)
(* file, a capability manifest that is missing or cannot be read.          *)
Noted == {"private mount", "FAIL", "MISSING"}

(* Surroundings that no gate may let pass, from the settings themselves    *)
(* and not from the gates' verdicts on them.                               *)
Suspect ==
    CASE gate = "contract" -> ~setup.meta \/ (setup.containerized /\ ~setup.probe)
      [] gate \in {"preflight", "supplement"} ->
           \/ setup.compose \ Noted # {} \/ setup.goldInside \/ setup.containerized
           \/ setup.reader \in {"leaks", "fails", "none"}
      [] gate = "validation" -> setup.manifest \notin Noted \cup {"PASS"}

(* The flaws a gate claims to look for.  The supplement keeps "the same    *)
(* ... assertions" as the preflight.                                       *)
SoughtBy ==
    CASE gate = "contract" -> Flaws \ {"none"}
      [] gate \in {"preflight", "supplement"} ->
           {"keeps-state", "sees-future", "sees-others", "mutates", "misses"}
      [] gate = "validation" -> {}

(* And lets pass all the same: the supplement's fresh_state looks only at  *)
(* the empty start and resets nothing; the native track measures.          *)
Overlooked ==
    CASE gate = "supplement" -> {"keeps-state"}
      [] gate = "preflight" /\ setup.native -> {"sees-future", "sees-others", "misses"}
      [] OTHER -> {}

Sought == SoughtBy \ Overlooked

(* But for what is overlooked and noted, a gate lets no adapter pass that  *)
(* has a flaw it looks for, however the calls before the telling one went, *)
(* nor one in suspect surroundings.                                        *)
FlawsCaught == flaw \in Sought \/ Suspect => verdict # "passed"

(* Adapters that answer with all they should: no inference, filters.       *)
Suitable ==
    IF gate = "contract" THEN product \notin Fixed \cup Natives ELSE product # "mem0-native"

(* A gate turns no sound adapter away: with nothing failing, a thorough    *)
(* search and nothing suspect around it, it passes; also with a private    *)
(* mount, or with a manifest it could not read.                            *)
SoundPass ==
    /\ Ended /\ Suitable /\ ~Suspect /\ thorough /\ flaw = "none" /\ a.faults = 0
    /\ ~(gate = "contract" /\ "unregistered" \notin DOMAIN results)
    => verdict = "passed"

(* Passed means that every check was made and recorded, the exceptions and *)
(* early returns on the way notwithstanding, and of validate_provider that *)
(* the core steps did what they had to and the provider was closed; a      *)
(* registry entry that was not there before means passed.                  *)
PassedIsComplete ==
    /\ verdict = "passed" =>
          /\ DOMAIN results = {Plan[i] : i \in 1 .. Len(Plan)}
          /\ gate = "validation" =>
                results["ingest"] = "PASS" /\ results["retrieval"] = "PASS" /\ ~a.open
    /\ product \in registry /\ "unregistered" \in DOMAIN results => verdict = "passed"

=============================================================================
