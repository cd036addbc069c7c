# TLA+ models of AMSB, the agent memory sovereignty bench

AMSB measures memory providers for agents. A *campaign* runs each provider
(a *participant*) over hidden *packs* of events and queries, several times
(*replicates*); each such run replays events up to a *checkpoint*, asks the
queries of that checkpoint, sends the retrieved evidence to a *reader* model
through a metered gateway, and scores the answers. This directory models the
parts of it whose behaviour over time decides whether a published number can be
trusted, checks them with TLC on small instances, and proves the most important
properties with TLAPS for all values of the constants.

Contents: [inventory](#inventory), [plan](#plan), [modules](#modules),
[runs](#runs), [fairness](#fairness), [proofs](#proofs),
[what the checks found](#what-the-checks-found), [not modelled](#not-modelled).

## Inventory

| component | state it keeps | operations | hard behaviour | what makes it correct |
|---|---|---|---|---|
| Gateway proxy (`benchmark/gateway/server.py`) | one handler thread per post, the ledger entry it fills in | `do_POST`, `_forward`, `_send` | threads, upstream retries, failed response writes, restarts | an answer is on record before it is seen, every thread ends |
| Budget (`gateway/policy.py`) | meters per run and global, a lock | `check_and_charge` | check-then-act under a lock | ceilings hold for all handlers together, refusals are free |
| Ledger (`gateway/ledger.py`) | a file of hash-chained lines, a lock | `append`, `_last_hash`, `verify` | read-then-append, restart on an old file | the chain is intact |
| Reader client (`benchmark/model_gateway.py`) | retry counters | `generate`, `_post_with_retries`, `_post` | nested retry loops, time-outs | bounded calls, every call ends |
| Baseline run (`benchmark/runner.py`, `lifecycle.py`, `clock.py`, `snapshots.py`, `manifests.py`) | checkpoint, batch, baseline hash, rows, status, files | `run_baseline`, `run_ingestion`, `_run_query` | deletions among batched upserts, two notions of time order, drifting providers, exceptions anywhere | queries see exactly the memory of their checkpoint; a completed run answered everything from its baselines |
| Providers (`providers/*/adapter.py`, `benchmark/providers.py`) | the memory system's store, a registry file, in-memory lists | `reset`, `ingest`, `delete`, `retrieve`, `snapshot`, `export`, `import_data`, `restart` | state that outlives the adapter object, partial failure of multi-call operations, retries | the adapter implements the `MemoryProvider` contract |
| Protocol campaign (`scripts/run_protocol_v1.py`) | a directory per attempt with `manifest.json` or `FAILED.json`, a cost state file | `run_participant`, `_run_one`, `aggregate_participant`, `main` | kill and re-run, attempts of an earlier execution on disk | no attempt leaves the denominator, nothing is counted twice |
| Capability experiment (`scripts/run_capability_attribution.py`) | pack directories, manifest "running"/"completed", its own proxy | `run_pack`, `_start_proxy`, `_ledger_summary` | resume after a crash, what is left of a budget | completed packs are final, the ceiling holds over resumes |
| Contamination preflight (`contamination/`) | check results | `run_preflight`, `checks.py` | passed/applicable/required | nothing runs that a required check failed |
| Scoring (`benchmark/scorer.py`, `statistics.py`, `metrics.py`) | none (pure) | scores, aggregates, paired statistics | rounding, empty inputs | agreement with the definitions of the protocol |
| Lexical baselines (`providers/bm25.py`, `full_context`, `random_retrieval`, `no_memory`, `oracle`) | event lists, one SQLite index | the provider operations | determinism | the contract, ranking order |
| Reader validation (`benchmark/reader_validation.py`) | report files | paired replays of a reader | restarts | as the protocol |
| Provider contract and registry (`providers/compliance.py`, `registry.py`), `scripts/validate_provider.py` | check results, one provider under test, `registry.json` | `run_contract`, `register`, `main` | each check depends on what the earlier ones left, exceptions in the middle | no flaw passes that is looked for, no sound adapter fails, passed means complete |
| Semantic exit (`scripts/run_semantic_memory_exit.py`, `run_semantic_exit_corrections.py`) | original and rebuilt runtimes, a Docker stack, a gateway, `observation.json` | `_run_provider`, `_populate`, `_hindsight_stack`, exports and recoveries | failures at any step with a gateway, containers and directories to clean up | a completed exit rebuilt from the export alone, and its export held what was stored; nothing is left running |
| gbrain supplement, freeze, audit, analysis scripts | report files | one pass each | none or few | as the protocol |
| Dataset generators (`datasets/`), Docker and host isolation (`docker/`, `isolation/`), templates | files | generation, probing | none over time | out of scope |

How they interact: the campaign builds a provider and a gateway for every
attempt and calls `run_baseline`; the run calls the provider and the reader
client; the client posts to the proxy, which charges the budget, calls the
upstream and appends to the ledger; campaign and capability experiment read
manifests and ledger files back to aggregate scores and cost. Providers whose
memory system calls a model go through the same proxy. Before a campaign, a
provider passes the contract to be registered; before a run, the preflight.

## Plan

The modules were written in order of importance: the gateway, the run, the
campaign; then the adapters behind the contract the run takes for granted, the
gates that judge adapters, the capability experiment, the exit experiment.

What could come next: several participants in `Campaign`.

## Modules

| module | what it is |
|---|---|
| `GatewayProxy` | reader clients, handler threads, budget and ledger |
| `LedgeredService` | abstract: a request is answered once, and only with what is on record |
| `MCGatewayProxy` | instances of the gateway |
| `GatewayProofs` | its theorems |
| `CheckpointRun` | one baseline run over one provider |
| `FaithfulRun` | abstract: each query answered once, from the memory of its checkpoint |
| `MCCheckpointRun` | instances of the run |
| `CheckpointRunProofs` | its theorems |
| `Campaign`, `MCCampaign`, `CampaignProofs` | executions of one participant, instances, theorems |
| `AdapterState` | what an adapter and its product keep, and how outcomes of calls are composed |
| `Mem0Adapter`, `HindsightAdapter`, `GBrainAdapter`, `OptMemAdapter`, `LexicalProviders`, `ControlProviders` | the operations of each adapter, as sets of outcomes |
| `Adapters` | which adapter's operation is called for which product |
| `AdaptersProofs` | lemmas: what each operation of each product does to its state and what it returns |
| `ProviderAdapters`, `MCProviderAdapters`, `ProviderAdaptersProofs` | callers of one adapter after the other on one directory, instances, theorems |
| `ProviderGates`, `MCProviderGates`, `ProviderGatesProofs` | contract and registry, preflight, validation, over the same adapters; instances, theorems |
| `CapabilityRun`, `MCCapabilityRun`, `CapabilityRunProofs` | executions of the capability experiment, instances, theorems |
| `SemanticExit`, `MCSemanticExit`, `SemanticExitProofs` | the two exit scripts over the same adapters, instances, theorems |

### GatewayProxy

A *client* is one `generate()` call of `DeepSeekGateway`. `cpc` says where it is,
`retries` and `parses` are the two loop counters of `_post_with_retries` and of
the parse loop around it. `Post` is the request arriving, which starts a handler
thread of the `ThreadingHTTPServer`; since a client that stops waiting never posts
again, a client has at most one thread and the handler variables are indexed by
the client.

The handler goes through `do_POST`: `Admit` (path, JSON, policy), `LockBudget`
and `CheckAndCharge` (`check_and_charge`, split where another thread could get
in if the lock were not there), `UpstreamAnswers` and `UpstreamFails` (`_forward`
with its retry loop), `LockLedger` and `AppendEntry` (`Ledger.append`, split the
same way), and `Respond`, `RespondToNobody` or `RespondRaises` (the write of
`_send`). The `except Exception` clause, which calls `_send` with the entry as far as
it is filled in, is reached from three places: a body that parses but is no object,
or a header that is no number (kind `malformed`), an upstream error whose body
cannot be read (`ForwardRaises`), and the write of a response (`RespondRaises`);
`Kept` is the error class an entry had by then, which the clause keeps. `Crash` restarts the process on the ledger file it
left: locks and counters are lost, the file is not.

Abstractions: token counts are numbers; hash of line *i* is *i*, so SHA-256 is
taken as injective; a body is its kind; each ledger line is written in one step.
`observed`, `paid` and `calls` are history variables.

### CheckpointRun

`pc` follows `run_baseline`: validation and preflight (`Refuse`, `Begin`), then for
each checkpoint `OpenCheckpoint` (reset, `events_available_by`, the novelty test
of incremental runs), `TakeUpsert`, `Flush`, `Delete` or `DeleteUnsupported` and
`AwaitReady` (`run_ingestion`), then per query `SnapshotBefore`, `Retrieve`,
`SnapshotAfter`, `Answer` (`_run_query`), at last `Finish`, `WriteTraces`,
`WriteScores`, `Close`, `WriteManifest`. `Raise` is an exception, or a kill, at any
point. `Drift` is a provider that loses a fact on its own. What a snapshot hashes is
part of the setup of a run: the store that is searched, or the adapter's own list of
events (`listed`), as Mem0, Hindsight, gbrain and the SQLite index do
(`mem0/adapter.py:312`, `hindsight/adapter.py:231`, `gbrain/adapter.py:295`,
`bm25.py:203`).

Time is where this component is delicate: the code compares availability as
dates, sorts and tests for novelty by string, and formats the clock without
fractions. The model keeps all three (`Available`, `TextKey`, `Now`) over ticks of
which `Resolution` make a second. Text, scores and token budgets are left out;
what a provider retrieves is any subset of its store.

### Campaign

One participant, any number of executions of the script, each a rehearsal or
paid. `Start` is `main` calling `run_participant` (skip test, removal of the data
directory), `Preflight`, then per attempt `BeginAttempt` (`mkdir`), one of the
endings of `run_baseline` (`EndInvalid`; `WriteTraces`, then `WriteManifest`) or
`RecordFailure` (`FAILED.json`), then `LeaveLoop` and `Settle` (the cost state).
`Kill` is possible everywhere. The files are `manifest`, `traces`, `failed`, `dirs`
and `data`; the analysis and the QA are operators over them (`Scored`,
`Attributed`, `Unaccounted`, `QAPasses`). `Planned` are the attempts of the fixed plan
(three packs, three replicates); a command line may ask for others (`--replicates` has
no upper bound), and they are counted against the same plan. The cost state file is
not modelled, nor is the planned count of requests checked: `qa_checks` takes "no
more missing than planned" where `analysis-plan.md:124` speaks of equal counts, and
that is the inequality the model has. All queries of an attempt are one unit;
`CheckpointRun` models what happens inside.

### Adapters and ProviderAdapters

An adapter's state `a` is a record (`AdapterState`): what its product stores, by
memory and by key, the adapter's own lists (`listed`, `seen`), GBrain's pages and
commit, open connections, partial set-ups, and how many failures there have been.
An operation is a function from a state to the set of its outcomes
(`Returned`, `Refused` with an exception, and the state either leaves); `Then` and
`ThenWith` compose calls, an exception ending the composition. That is what lets
`ProviderAdapters`, `ProviderGates` and `SemanticExit` share one translation of
`providers/`: each calls the operations in its own order.

Every call that leaves the process (a library, a command, a request, SQLite, the
file system) may fail before or after it took effect, up to `MaxFaults` times.
What a search finds is any subset of what is stored; the adapter's filters are
then applied. Mem0's inference stores any facts of a batch, or none.

`ProviderAdapters` is the caller: `New` on a directory other objects have used,
then any operation in any order until an exception or `Cleanup`. `given` and
`deleted` are what the caller was told, and the properties compare store, list and
answers with them.

### ProviderGates

`gate` is one of four lists of checks (`Plan`): `run_contract` before `register`, the
preflight, `validate_provider`, and the preflight of the gbrain supplement. Each
check is a composition of adapter calls; `CheckReturns` and `CheckRaises` take the
next one, and the early returns and `except` clauses decide what is left. The
adapter under test may have one of the flaws of the `MutatingProvider` of the
tests, so that the properties can say what a gate lets through. The surroundings
(`setup`: compose file, place of the gold answers, reader, capability manifest, track)
are inputs, and `Suspect` is defined from them, not from the verdicts. `FlawsCaught`
excepts by name what the code lets through: `Overlooked` (the supplement's
`fresh_state` resets nothing, so a provider that keeps its state passes; on the native
track leaks and misses are measured, not judged) and `Noted` (a private mount in the
compose file, a capability manifest that is missing or cannot be read).

### CapabilityRun

Executions for the test split over all its packs, several at a time (`Slots`), each for
one provider. `main` refuses them the offline reader (`:641`), so each has a proxy; the
dev split and a choice of packs (`--pack`) are left out, and so is an execution that
ends at the clean-tree or key check, before it has done anything. `Start` is
`_start_proxy` (ceiling from the ledgers), then per pack `Look`, `MakeDir`, `Load`,
`Populate`, per query `Ask` and the reader cells (`Post`, `Answer`, `Refuse`), then
`Write` for each of the three files, `Complete`, `Seal`, at last `Summarise`. `Fail`
is the `except` clause, `Kill` takes process and proxy away. `dirs` is the disk;
`spent`, `hidden`, `excess`, `overlapped` are history variables, and `owner` of a
directory is the number of the execution that made it. The files of rows are
written in one order (`WrittenBefore`).

A post is charged its estimate and costs what it costs; the ledger shows any part of
that (`Answer`), because usage is recorded of a well-formed 200 only and
`_ledger_summary` counts every other call as free. `hidden` is the rest, with the
posts that were killed. That a ledger can also show an answer twice (see below) only
lowers the next ceiling and is left out. `excess` starts again when a proxy is started with no other
process running (`Alone`): it takes its ceiling from the ledgers, so what those show
is accounted for. `overlapped` never starts again: what two executions side by
side have spent stays spent.

### SemanticExit

Each product's part of a script is a list of steps (`Program`) inside a `try`;
`phase` follows exceptions through the inner `finally`, the `except` and the outer
`finally`. `Up`, `Leave` are the stack's context manager, `Make`, `PopulateIngest`,
`PopulateDelete`, `Ask` call the operations of `Adapters`. `Exported` is the whole store
but for Hindsight under the first script, whose `GET /export` gives the bank's version
only (`docs/reports/semantic-memory-exit-v1.md:24`). An import takes in any part of
the artifact (`Rebuilt`): none of the scripts looks at what it took in. The `except`
clause may itself raise (the ledger is read there), and so may stopping the gateway and
writing `observation.json`.

In each module a few operators are marked *Mutant*: plausible mistakes in one
definition, each of which makes TLC report a property as violated. They are not
part of the specifications.

## Runs

Runs that pass:

| run | question | instance, and why it is enough |
|---|---|---|
| `gateway_concurrent` | Do ceilings, the chain and record-before-response survive two threads and a restart, and does every thread end? (`WithinCeilings`, `ChargesAccounted`, `RefusalsAreFree`, `ChainIntact`, `LedgeredServiceSpec`, `HandlerEnds`, `TypeOK`) | Two clients on different runs, ceilings with room for one request on one run (requests) and one in all (tokens), one upstream retry, one restart. Races over a lock need two threads. The run ceiling binds by its count of requests and the global one by its tokens; the cost meters have room. Requests are well-formed, malformed or against the policy. |
| `gateway_retries` | How many paid calls can one query cause, and does it always end? (`CallsBounded`, `CallEnds`) | One client with one retry on each of the three nested levels and strict attestation: the product of the levels is reached. |
| `run` | Is what is queried the ideal memory, are deletions remembered and never faked, are results backed by a manifest, does a run end? (`StateIsReplay`, `DeletionsRemembered`, `NeverFaked`, `ResultsBehindManifest`, `FaithfulRunSpec`, `RunEnds`, `TypeOK`) | All corpora of two upserts and one upsert or delete, two checkpoints, one lost fact, over three kinds of setup (`Inputs`): reset at each checkpoint with times on four ticks, two to a second, and both checkpoints within one second of each other; incremental on whole seconds; and without `delete()`. Batching needs two upserts around a delete, the three notions of time differ within a second. |
| `campaign` | Is every attempt accounted for, and only paid rows scored? (`QAAccounts`, `PaidOnRecord`, `RowsArePaid`, `StatusHonest`, `ExecutionEnds`, `TypeOK`) | Three attempts, two planned and one a replicate beyond the plan, asked for in pairs or singly, one possibly with an invalid dataset, three executions: what one leaves, one overwrites and one reads. `MaxExecutions` is the only bound. |
| `adapters` | Do lists, stores and answers stay what the caller gave and may see, does a reset repair what failures left, does an interrupted set-up block the next object? (`ListMirrorsCalls`, `AnswersAreCurrent`, `DeletedNotFound`, `StaysInStep`, `ResetHeals`, `PartialHomeRecovered`, `TypeOK`) | All twelve products, two events, one of them late, two failures, two objects on one directory, six memory ids: a leftover needs one failure or one earlier object, and a second failure hits the repair. |
| `gates` | Does a gate let a flaw through that it looks for, turn a sound adapter away, or pass with checks missing? (`FlawsCaught`, `SoundPass`, `PassedIsComplete`) | Four gates, all products, every flaw for Hindsight, for full context (a product with a store elsewhere and one without) and for the products of the supplement, every surrounding, one failing call. `FlawsCaught` is about a thorough search: a search that finds nothing hides a leak. |
| `capability` | Are completed packs whole, earlier attempts kept, and the ceiling held over restarts and side by side? (`CompletedIsWhole`, `AttemptsPreserved`, `SpendBounded`, `TypeOK`) | Two processes, three executions, two packs of two queries with two reader cells each (one of them skipped for Hindsight), a ceiling of two calls, one of which a proxy may use, calls that cost nothing to twice the estimate and show any part of it on the ledger. Two executions can overlap and a third finds what both left; cells are posted, and refused, under both providers. |
| `exit` | Is a completed exit about the memory that was stored, rebuilt from the export alone, and is nothing left running? (`ExitKeepsMemory`, `NothingLeftRunning`) | Both scripts, three products one after the other, two ingests, a withdrawal of the first and a third ingest, imports that take in any part, two failures of an adapter and two of docker or the gateway: one in the try and one in the cleaning up. |

Bounds that are in guards: `MaxCrashes` (restarts of the proxy), `MaxDrifts` (lost
facts), `MaxExecutions`, `MaxLives` (adapter objects), `MaxFaults` (failing calls of an
adapter), `MaxIds` (memory ids handed out), `MaxBreakdowns` (docker, gateway),
and `MaxCost` (what a call may cost). All other counters are bounded by the code.
`CHECK_DEADLOCK FALSE` is set everywhere because clients finish, runs end and
nobody has to start another execution.

Runs in which TLC finds the code to differ from what the repository says of it
are described under [what the checks found](#what-the-checks-found).

## Fairness

- *Gateway*: weak fairness of each client's own steps and of each handler thread.
  Threads are scheduled by the operating system, and every upstream call returns
  because `urlopen` has a timeout. Weak fairness is enough for the locks because
  a thread waiting for one has no rival that can take it again and again: every
  thread takes a lock a bounded number of times. Starting a call, time-outs,
  refused connections and restarts are not fair.
- *Run*: weak fairness of `Step`. The run is one thread, and every call it makes
  returns or raises. A lost fact or an exception need not happen.
- *Campaign*: weak fairness of `Step`. The script is one thread, and each attempt
  returns or raises, which is what `RunEnds` says. Nobody has to start an
  execution or to kill one, and paid calls are not owed.
- *Adapters, gates, capability experiment, exit*: none; their properties are safety
  properties.

## Proofs

The proofs hold for every value of the constants that satisfies the named
assumptions. Most of those only give constants their types:
`ConstantsAssumption`, `CampaignAssumption`, `CapabilityAssumption`,
`AdapterAssumption`, `LivesAssumption`, `ExitAssumption` (clients, events, queries and
attempts are finite); `CorpusAssumption` says of the conformance corpus that its four
events differ, that the missing id is none of them, and that the query of the checks may
see what it asks for and what is going to be deleted; `QuestionsAssumption` says of the
same corpus which of its events the questions of the contract may see (none the future
event, one only the other owner's, one nothing), that gold answers are available at the
time of their question, and that its eight events are short and no more than the ten
that answers are cut to; `ProductsAssumption` and `GoldAssumption` say that products are
known ones and that gold answers are events. `CheckpointsInOrder` says that
checkpoints come in the order of their strings, which the `sorted` call of
`run_baseline` establishes.

| theorem | says | argument |
|---|---|---|
| `GatewayTypeCorrect` | types, and bounds of the retry counters | with `PostsInv`: after *p* parse retries and *r* retries at most *p(R+1)+r* posts have failed |
| `GatewayChainIntact` | `ChainIntact` | `ChainInv`: a handler about to append holds the lock and knows the length of the file |
| `GatewayIsLedgeredService` | the gateway implements `LedgeredService` | refinement under `RecordInv`: what is about to be answered is recorded, and the awaited post has not been answered |
| `GatewayChargesAccounted`, `GatewayWithinCeilings` | `ChargesAccounted`, `WithinCeilings` | `BudgetInv`: a handler about to charge holds the lock and has the current counters; counters equal the number of paid posts times the charge |
| `GatewayCallsBounded` | `CallsBounded` | `CallsInv`: a post makes at most `ProxyRetries + 1` upstream calls, and `PostsInv` bounds the posts |
| `GatewayRefusalsFree` | `RefusalsAreFree` | `RefusalInv`: a handler that may still be charged has no refusal in the ledger, and the refusals there belong to posts already numbered |
| `RunTypeCorrect` | types | one step per action |
| `RunStateIsReplay` | `StateIsReplay` | `ReplayInv`: while ingesting, store and batch together are the ideal memory of the events gone through so far, and those are a prefix of the order |
| `RunIsFaithful` | the run implements `FaithfulRun` | refinement under `RowsInv`: each row is of a past query, its evidence is from that checkpoint's memory, and the open queries are those of no row |
| `RunResultsBehindManifest` | `ResultsBehindManifest` | `FilesInv`: a run completes once, at its last checkpoint, and writes traces, scores, manifest in this order |
| `RunDeletionsRemembered` | `DeletionsRemembered` | `DeletionsInv` over `ReplayInv`: the recorded actions are the deletions among the events gone through |
| `RunNeverFaked` | `NeverFaked` | `UnfakedInv` over `ReplayInv`: without `delete()` no delete is among the events gone through, at this checkpoint or an earlier one |
| `CampaignTypeCorrect` | types | one step per action |
| `CampaignQAAccounts` | `QAAccounts` | the two counts are of disjoint sets, so their sum is the size of `Counted`; if that is no less than the plan's, no more of the plan is outside of it than of it outside of the plan (lemma `CountedInstead`) |
| `CampaignPaidOnRecord` | `PaidOnRecord` | `RecordInv`: the attempts an execution has gone past are on record as paid |
| `CampaignRowsArePaid` | `RowsArePaid` | `RowsInv`: beside a paid completed manifest lie paid traces, and a rehearsal finds no paid manifest |
| `CampaignStatusHonest` | `StatusHonest` | `StatusInv`: every attempt gone past has an outcome, and the outcomes that `_participant_status` does not ask about have their causes |
| `AdaptersInvariant`, `AdaptersTypeOK` | the invariant below; types | one step per operation of the caller, from the lemmas of `AdaptersProofs` |
| `AdaptersMirrorCalls`, `AdaptersAnswerCurrent`, `AdaptersForget` | `ListMirrorsCalls`, `AnswersAreCurrent`, `DeletedNotFound` | parts of that invariant, or what it says of the next answer |
| `AdaptersStayInStep`, `AdaptersResetHeals`, `AdaptersRecoverHome` | `StaysInStep`, `ResetHeals`, `PartialHomeRecovered` | steps from a state of that invariant |
| `GatesPassedIsComplete` | `PassedIsComplete` | `GateInv`: as long as no exception cut the list short, what is recorded are the checks gone through; a step of a validation that went on had passed; no check opens what `cleanup` closed |
| `GatesCatchFlaws` | `FlawsCaught` | `LookedAround`: what the checks of the surroundings recorded, for each surrounding that `Suspect` names; `FlawInv`, explained below, for the flaws of the adapter |
| `GatesPassSound` | `SoundPass` | `SoundInv`, explained below, over `GateInv`: check by check, the state a sound adapter is in |
| `CapabilityTypeCorrect` | types, and that no proxy charges beyond its ceiling | `TypeInv`, in five parts; `EndsTyped` once for all the ways an execution ends |
| `CapabilityAttemptsPreserved` | `AttemptsPreserved` | `OwnInv`: execution numbers are unique among the running ones and never above `runs`; a process between `load` and `seal` is at a directory it made. `StepOnDisk` says what a step may do to a directory |
| `CapabilityCompletedIsWhole` | `CompletedIsWhole` | `ProgressInv`: the rows in memory are those of the queries and cells gone through; `WorkInv`: the directory a process works in has no files until all is in memory, then all of it; `SettledInv`: a pack that counts, has been passed or is summarised is whole, and stays so |
| `CapabilitySpendBounded` | `SpendBounded` | `SpendInv`: what the ledgers show, what is in flight and what some proxy still allows never exceeds the ceiling (of each process, once two have been side by side) but by the excess over the estimates; spent is what the ledgers show, what is hidden and what is in flight. `FlightInv` for one process. Sums over the processes are folds, with lemmas on changing one term |
| `ExitLeavesNothingRunning` | `NothingLeftRunning` | `RunningInv`: stack and gateway are held by exactly the clean-up steps still to come |
| `ExitResultsAboutMemory` | `ExitKeepsMemory` | `MemoryInv`, with `Filling` and `Tried` below |

None of the properties is inductive as it stands: each speaks of one moment (an
append, a query, the end of an execution) and follows from what holds between
the steps that lead there.

The invariant of the adapters, `Inv`, has two parts. `Carried` is about the
directory and the object: `Shaped` (which products store
at all, and how many memories of an event), `Tidy` (what store, list and pages of an
object that is still in use have in common), `Unopened` (a Mem0 object that is not open
lists nothing), `OpenBeforeStored` (a Mem0 `Memory` that is
not open has stored nothing unless something failed), `FirstUse`, `SavedKeys` (an
export has a key for each event). `Told` is about the caller: `Mirrored` (the list is
what was given), `Forgotten` (what was deleted is neither stored nor keyed) and the
two properties about answers. `AdaptersProofs` says once, for each product, what an
operation does, as predicates on the states before and after (`Kept`, `Built`,
`Filled`, `Deleted`, `Emptied`, `Unmoved`), for calls that return and calls that raise;
the proof of a step of `ProviderAdapters` then does not open the operations again.

The exit experiment takes each event through several operations of two runtimes.
`Filling` says during the filling what is stored, listed, committed and copied to
pages, relative to what the script has recorded as `kept` and `withdrawn`; the export
turns it into a statement about the artifact alone, and `Tried` carries that one past
destruction, restart and rebuilding, step by step of `Program`.

`FlawInv` follows a flawed adapter through the list of a gate. As long as nothing has
failed, no check that tells of the flaw (`Tells`, a table of flaws and checks) has been
made, and the adapter holds what that check will look for (`Stocked`): the contract has
ingested the future event before it searches for it and has not deleted the doomed one
before `canary_deleted`, the supplement has ingested its probes. The lemmas
`HindsightMoves`, `FullMoves` and `GBrainMoves` say what the calls of the products that
are given flaws do to the list and return; from them follows that a check in `Tells`
cannot end as passed, whichever call fails; and `ContractOrder`, `PreflightOrder`,
`SupplementOrder` say where the checks stand in the lists. A gate that passes has made
every check of its list (`GatesPassedIsComplete`), the telling one too.

`SoundInv` is its counterpart for a sound adapter. `Stage` says of each gate what state
the adapter is in when *n* checks are done and nothing has failed: it is `Fit` (list,
store, keys and pages of the product agree, and nothing is half-way), its list is empty
or holds all events of the gate, and the answer kept for the next comparison is what the
last question may see. It rests on two kinds of lemmas in `AdaptersProofs`: an operation
during which nothing fails returns and leaves a fit adapter fit (`Goes`, one lemma for
each operation), and a search that finds all it can answers with the listed events that
the question may see, no more and no less (`BestAnswer`, `NothingBetter`). From these,
no check of any gate fails and each leads to the next stage (`ContractAdvances`,
`PreflightProceeds`, `ValidationProceeds`, `SupplementAdvances`). The stage is needed
because a check is judged by what the ones before it left: `canary_current` of the
contract finds what `dedup` ingested, and `snapshot_restore` compares its answer with the
one that `canary_current` kept.

Some theorems need more than the types of the constants:

- `OrdersAgree` (in `RunStateIsReplay`, `RunIsFaithful`, `RunDeletionsRemembered`,
  `RunNeverFaked`) says that a run resets at every checkpoint or has all its times on
  whole seconds: an incremental run never ingests an event on a fraction, see below.
- `~LateRehearsal` (in `CampaignRowsArePaid`) says that rehearsals come first; the
  run `campaign_late_rehearsal` shows what happens otherwise.
- `StoredOnce` (in `ExitResultsAboutMemory`) says that the dataset ingests no event
  twice, as `semantic-exit-v1/events.jsonl` does not: a deletion that failed
  half-way, followed by the same event again, leaves a list and a store that differ.

`DeletionsRemembered` itself excepts incremental runs, which hand the scorer the
deletions of the last ingestion only.

Only model-checked: the four runs that expect a violation, and all liveness
(`HandlerEnds`, `CallEnds`, `RunEnds`, `ExecutionEnds`), which the prover does not treat.
Every invariant and every property of steps that a passing run checks is also a theorem.

## What the checks found

Four runs have one property each, which TLC finds violated.

| run | property | what happens |
|---|---|---|
| `run_drift` | `RetrievedAtBaseline` | A provider loses a fact between the baseline and a retrieval; its snapshot hashes the adapter's own list of events (`mem0/adapter.py:312`, `hindsight/adapter.py:231`, `gbrain/adapter.py:295`, `bm25.py:203`), so both hash checks are satisfied, the run completes and the query is answered from another state. `runner.py:220-222` says that any mutation invalidates the run. |
| `exit_v1` | `RuntimeRecovered` | The first exit script records a runtime as `recovered` and its index as rebuilt whatever the export held and the import took in; a completed exit of Hindsight has nothing in the recovered runtime. `docs/reports/semantic-memory-exit-v1.md:150` gives it as recovered while `:24-26` says that the artifact held the version only; the errata (`:20-21`) retract it. |
| `campaign_late_rehearsal` | `RowsArePaid` | A rehearsal over an incomplete paid run root that is stopped between traces and manifest leaves stub rows beside the paid manifest, and they are scored. |
| `adapters_reset` | `ResetIsFresh` | `reset()` of a new Mem0 adapter has no open `Memory` and leaves the store as it is; all attempts of a participant share one directory (`run_protocol_v1.py:418`), so a search in a later attempt can reach memories of an earlier one. `AnswersAreCurrent` shows that the filter of `retrieve` keeps them out of the answers until the same event is ingested again; they still take places among the hits. |

Further observations, made while modelling and not kept as runs. Gateway and run:

- the `except` clause of `do_POST` (`server.py:155`) records an answer a second time,
  usage included, when the write of the response raises; costs summed over the
  ledger count it twice (`protocols/v1/personal-native.md:96` counts from the ledger);
- the budget is charged with estimates before dispatch (`server.py:102`) and never
  corrected, so the ledgered cost can pass a ceiling (`preregistration.md:249`);
- an event at 00:00:01.5 is not newer than a checkpoint at 00:00:01 for the string
  comparison of incremental runs (`lifecycle.py:53`), and is never ingested;
- in incremental runs the scorer is told only of the deletions since the previous
  checkpoint (`runner.py`, `lifecycle_actions`);
- what `run_drift` shows of hashes over the adapter's own list is also true of the
  fresh-state checks of the gates.

Campaign:

- the QA compares the directories it finds with a constant plan
  (`run_protocol_v1.py:1097`), and `--replicates` (`:1412`) may add any number of
  directories: an attempt beyond the plan stands in for a planned one that is missing,
  which `QAAccounts` states (its two differences);
- one invalid attempt makes a participant "invalid by design"; attempts without any
  file are then missing from the QA (`run_protocol_v1.py:1328`), hence the first
  conjunct of `QAAccounts`;
- each paid execution adds the cost of the whole ledger to the running total (`:1470`;
  seen in the code, not modelled);
- `_participant_status` has no case for `invalid_dataset`, so such attempts do not
  keep a participant from being reported as completed (hence the restriction in
  `StatusHonest`);
- when a paid execution is repeated, all attempts run again in place, and an
  aborted one replaces the manifest of a completed one;
- the `FAILED.json` of a rehearsal counts as that of a paid attempt (`:777`);
- rates are computed over the rows of completed attempts, failed ones are only
  counted in `attempts`.

Adapters and gates:

- a Mem0 `add` that failed after it stored leaves a memory without a key, which no
  deletion reaches; with inference an event may have no key at all, and `delete`
  returns False, which `run_ingestion` (`lifecycle.py:75`) does not look at;
- Hindsight's `reset` goes on with the old bank when its `DELETE` fails (`:113`);
- gbrain's local variant moves a partial home to one fixed name
  (`local_ollama.py:78`); a second partial home cannot be moved, so
  `PartialHomeRecovered` excepts it;
- SQLite BM25 lists events before the commit of their rows (`bm25.py:110`); a failed
  commit leaves them listed, and they are not inserted when given again;
- gbrain's `init` writes `gbrain.yml` before `sources add` (`:172`): an interruption
  between them leaves a home that later objects take for ready and whose sync indexes
  nothing until a reset moves it aside. `StaysInStep` excepts a home without a source;
- the supplement claims the preflight's fresh-state assertions
  (`run_gbrain_native_local.py:106`) but resets nothing, so a provider that keeps its
  state passes; a capability manifest that is missing or cannot be read is noted by
  `validate_provider` (`:171`) and does not fail it;
- `check_compose_policy` computes `passed` before it looks for private mounts
  (`checks.py:290`), so that issue alone does not fail the check;
- `validate_provider` uses the provider it could not build (`:115`) and does not catch
  every exception of the factory (`:78`);
- `Registry.register` reads the file before the contract and writes it after
  (`registry.py:45`): two registrations at a time lose one.

Capability experiment:

- a second execution of a provider accepts a pack between its manifest "completed" and
  its seal; when the seal then fails, the manifest turns "failed" under a summary
  that counts the pack (the reason for `overlapped` in `CompletedIsWhole`);
- when the budget is used up the remaining cells become rows with errors and the pack
  completes;
- `preregistration.md:255` promises a hard ceiling of USD 2.00, enforced fail-closed.
  The code keeps less, and `SpendBounded` says how much less: executions side by side
  each get what the ledgers leave (a ceiling for each); usage is recorded of well-formed
  200s only (`server.py:138`) and everything else counts as free
  (`run_capability_attribution.py:357`), as does the call in flight at a kill
  (`hidden`); a call may cost more than the estimate it was charged (`excess`).

Exit experiment:

- when `docker compose down` times out in the `finally`, the gateway is not stopped and
  the observation not written (`run_semantic_memory_exit.py:419`); when `up` fails,
  nothing takes down what it started (`:331`);
- a directory that could not be removed does not keep an exit from counting as
  completed; the first script removes the original after a failure before there is
  an export (`:413`);
- an adapter of the correction that cannot be built ends the script
  (`run_semantic_exit_corrections.py:174` is outside the `try`).

## Not modelled

- *Scoring, statistics, metrics, token budgets, capability contrasts and labels, the
  matrix of the report*: pure, sequential functions of finished rows, most of them in
  floating point, which TLA+ does not have.
- *Reader validation pilot, phase 0 and development runners, freeze, audit and
  analysis scripts*: single sequential passes that call what is modelled or write
  files.
- *Dataset generators, events and schema, Docker and host isolation, templates*:
  text generation, parsing, configuration.
- In the modelled parts: torn ledger lines (a line is written in one step), the
  gbrain supplement's own loop over packs, several participants at a time, texts,
  scores and ranking (what a search finds is any subset of what it may find).

`PROJECT.json` lists every part with its state.
