---------------------------- MODULE GatewayProxy ----------------------------
(***************************************************************************)
(* The model gateway: reader clients (benchmark/model_gateway.py) posting  *)
(* to the threaded proxy (benchmark/gateway/server.py), which charges a    *)
(* shared budget (policy.py) and appends to a hash-chained ledger file     *)
(* (ledger.py).                                                            *)
(*                                                                         *)
(* One handler thread serves one post.  A client has one post outstanding  *)
(* at a time and fails for good when it stops waiting, so the handler of   *)
(* its latest post is the only one it can have, and the handler variables  *)
(* are indexed by the client.  Tokens are natural numbers; bodies, headers *)
(* and the hash function are abstracted: the hash of ledger line i is the  *)
(* number i (SHA-256 taken as injective) and GENESIS is 0.  The reader     *)
(* sends no max_tokens, so EstOut is 0 for it; other clients may.          *)
(***************************************************************************)
EXTENDS Naturals, Sequences, FiniteSets

CONSTANTS
    Clients,         \* the concurrent generate() calls
    Runs,            \* run identities (X-Sovbench-Run-Id)
    RunOf,           \* the run each client belongs to
    Kinds,           \* kinds of request a client may post
    ClientRetries,   \* Settings.max_retries of the reader
    ProxyRetries,    \* GatewayPolicy.max_retries
    RunCeiling,      \* per-run ceiling of each meter
    GlobalCeiling,   \* global ceiling of each meter
    EnforceBudget,   \* GatewayPolicy.enforce_budget
    RequireIdentity, \* server.require_identity
    Strict,          \* attestation_mode = "strict"
    EstIn, EstOut,   \* estimated tokens of a request
    PriceIn, PriceOut,
    OutTokens,       \* completion tokens an upstream answer may report
    MaxCrashes,      \* bound: restarts of the proxy process
    Global, NoOne    \* the global budget scope; the owner of a free lock

RequestKinds == {"valid", "bad_path", "bad_json", "malformed", "bad_policy"}
Meters == {"requests", "tokens", "cost"}

ASSUME ConstantsAssumption ==
    /\ IsFiniteSet(Clients)
    /\ RunOf \in [Clients -> Runs]
    /\ Kinds \subseteq RequestKinds
    /\ ClientRetries \in Nat /\ ProxyRetries \in Nat
    /\ RunCeiling \in [Meters -> Nat] /\ GlobalCeiling \in [Meters -> Nat]
    /\ EnforceBudget \in BOOLEAN /\ RequireIdentity \in BOOLEAN /\ Strict \in BOOLEAN
    /\ EstIn \in Nat /\ EstOut \in Nat /\ PriceIn \in Nat /\ PriceOut \in Nat
    /\ OutTokens \subseteq Nat
    /\ MaxCrashes \in Nat
    /\ Global \notin Runs /\ NoOne \notin Clients

VARIABLES
    \* The client side of each generate() call.
    cpc,      \* where it is
    posts,    \* posts it has made
    retries,  \* retries of the current _post_with_retries
    parses,   \* parse retries
    reply,    \* the outcome of its last post
    \* The handler thread of its latest post, and the ledger entry it fills in.
    pc,       \* where it is
    kind,     \* what was posted
    tries,    \* upstream retries
    outcome,  \* status and error_class of the entry
    usage,    \* usage of the entry
    prev,     \* the last hash it read from the ledger
    seen,     \* the budget counters it read
    again,    \* it is already in an except clause of do_POST
    \* Shared by the handlers.
    charged,    \* BudgetState: what each scope has been charged
    budgetLock, \* BudgetState.lock
    ledger,     \* the lines of the ledger file
    ledgerLock, \* Ledger._lock
    \* History.
    observed,   \* <<attempt, outcome>> received by a client
    paid,       \* attempts charged since the proxy started
    calls,      \* upstream calls made for each client
    crashes     \* restarts so far

retryVars == <<retries, parses>>
clientVars == <<cpc, posts, retryVars, reply, observed>>
entryVars == <<kind, tries, outcome, usage, prev, seen, again>>
handlerVars == <<pc, entryVars>>
budgetVars == <<charged, budgetLock, paid>>
ledgerVars == <<ledger, ledgerLock>>
vars == <<clientVars, handlerVars, budgetVars, ledgerVars, calls, crashes>>

-----------------------------------------------------------------------------
(* Outcomes: the error class of the entry and the body, that of upstream   *)
(* errors together with what the client makes of their status.             *)

Outcomes == {"ok", "unsupported_path", "invalid_request_json", "refused",
             "budget_exceeded", "upstream_transient", "upstream_fatal",
             "invalid_response", "attestation_failed", "internal_error"}

\* 429 and 5xx answers, which _post turns into GatewayRateLimit.
Retryable == {"budget_exceeded", "upstream_transient", "invalid_response",
              "attestation_failed", "internal_error"}

\* Each parse retry runs the whole retry loop again.
MaxPosts == (ClientRetries + 1) * (ClientRetries + 1)
Attempts == Clients \X (0 .. MaxPosts)
NoUsage == [prompt |-> 0, completion |-> 0]
UsageReports == [prompt : Nat, completion : Nat]

ClientPCs == {"idle", "post", "wait", "got", "done", "failed"}
HandlerPCs == {"idle", "recv", "budget", "charge", "forward", "log", "append", "send"}
Scopes == Runs \union {Global}

Attempt(c) == <<c, posts[c]>>

-----------------------------------------------------------------------------
(* The budget (BudgetState.check_and_charge).                              *)

Charge == [requests |-> 1,
           tokens   |-> EstIn + EstOut,
           cost     |-> EstIn * PriceIn + EstOut * PriceOut]

CeilingOf(s) == IF s = Global THEN GlobalCeiling ELSE RunCeiling

ScopesOf(c) == {RunOf[c], Global}

\* None of the six ceilings is passed by charging once more on top of what c saw.
Fits(c) ==
    \A s \in ScopesOf(c), m \in Meters : seen[c][s][m] + Charge[m] <= CeilingOf(s)[m]

\* The counters after charging once more; a mutant charges the run alone.
ChargedRunOnly(c) ==
    [s \in Scopes |->
        IF s = RunOf[c] THEN [m \in Meters |-> seen[c][s][m] + Charge[m]]
                        ELSE charged[s]]

Charged(c) ==
    [s \in Scopes |->
        IF s \in ScopesOf(c) THEN [m \in Meters |-> seen[c][s][m] + Charge[m]]
                             ELSE charged[s]]

Zero == [s \in Scopes |-> [m \in Meters |-> 0]]

-----------------------------------------------------------------------------
(* The ledger file.                                                        *)

LastHash == Len(ledger)

\* Ledger.verify() returns no errors.
Verifies == \A i \in DOMAIN ledger : ledger[i].prev = i - 1

\* The line appended; a mutant leaves its prev_hash out.
EntryUnchained(c) == [attempt |-> Attempt(c), outcome |-> outcome[c], usage |-> usage[c]]

Entry(c) == [attempt |-> Attempt(c), outcome |-> outcome[c],
             usage |-> usage[c], prev |-> prev[c]]

-----------------------------------------------------------------------------
Init ==
    /\ cpc = [c \in Clients |-> "idle"]
    /\ posts = [c \in Clients |-> 0]
    /\ retries = [c \in Clients |-> 0]
    /\ parses = [c \in Clients |-> 0]
    /\ reply = [c \in Clients |-> "ok"]
    /\ pc = [c \in Clients |-> "idle"]
    /\ kind = [c \in Clients |-> "valid"]
    /\ tries = [c \in Clients |-> 0]
    /\ outcome = [c \in Clients |-> "ok"]
    /\ usage = [c \in Clients |-> NoUsage]
    /\ prev = [c \in Clients |-> 0]
    /\ seen = [c \in Clients |-> Zero]
    /\ again = [c \in Clients |-> FALSE]
    /\ charged = Zero
    /\ budgetLock = NoOne
    /\ ledger = <<>>
    /\ ledgerLock = NoOne
    /\ observed = {}
    /\ paid = {}
    /\ calls = [c \in Clients |-> 0]
    /\ crashes = 0

-----------------------------------------------------------------------------
(* The reader client (DeepSeekGateway.generate, _post_with_retries, _post) *)

ClientGoesTo(c, where) == cpc' = [cpc EXCEPT ![c] = where]

Generate(c) ==
    /\ cpc[c] = "idle"
    /\ ClientGoesTo(c, "post")
    /\ UNCHANGED <<posts, retryVars, reply, observed, handlerVars, budgetVars, ledgerVars,
                   calls, crashes>>

\* _post: the request reaches the proxy, which starts a handler thread.
Post(c, k) ==
    /\ cpc[c] = "post"
    /\ ClientGoesTo(c, "wait")
    /\ posts' = [posts EXCEPT ![c] = @ + 1]
    /\ pc' = [pc EXCEPT ![c] = "recv"]
    /\ kind' = [kind EXCEPT ![c] = k]
    /\ UNCHANGED <<retryVars, reply, observed, tries, outcome, usage, prev, seen, again,
                   budgetVars, ledgerVars, calls, crashes>>

\* One more failed round of the retry loop: give up past max_retries.
Retry(c) ==
    /\ \/ /\ retries[c] + 1 > ClientRetries
          /\ ClientGoesTo(c, "failed")
          /\ UNCHANGED retries
       \/ /\ retries[c] + 1 <= ClientRetries
          /\ ClientGoesTo(c, "post")
          /\ retries' = [retries EXCEPT ![c] = @ + 1]
    /\ UNCHANGED <<posts, parses, reply, observed, handlerVars, budgetVars, ledgerVars,
                   calls, crashes>>

\* The proxy cannot be reached: urlopen raises URLError.
ConnectFails(c) == cpc[c] = "post" /\ Retry(c)

\* A 429 or 5xx answer, whoever it comes from, is retried.
RetryReply(c) == cpc[c] = "got" /\ reply[c] \in Retryable /\ Retry(c)

\* Any other HTTP error is a GatewayError and ends the call; a well-formed
\* answer ends it too.  (A strict client attests the returned model as well:
\* the proxy in front of it already has.)
FinishOnReply(c) ==
    /\ cpc[c] = "got" /\ reply[c] \notin Retryable
    /\ ClientGoesTo(c, IF reply[c] = "ok" THEN "done" ELSE "failed")
    /\ UNCHANGED <<posts, retryVars, reply, observed, handlerVars, budgetVars, ledgerVars,
                   calls, crashes>>

\* A 200 whose content _parse_structured rejects starts a fresh retry loop.
ParseFails(c) ==
    /\ cpc[c] = "got" /\ reply[c] = "ok"
    /\ \/ /\ parses[c] + 1 > ClientRetries
          /\ ClientGoesTo(c, "failed")
          /\ UNCHANGED retryVars
       \/ /\ parses[c] + 1 <= ClientRetries
          /\ ClientGoesTo(c, "post")
          /\ parses' = [parses EXCEPT ![c] = @ + 1]
          /\ retries' = [retries EXCEPT ![c] = 0]
    /\ UNCHANGED <<posts, reply, observed, handlerVars, budgetVars, ledgerVars,
                   calls, crashes>>

\* No answer within timeout_s: TimeoutError is not a URLError, so it leaves
\* generate() while the handler thread goes on.
ClientTimesOut(c) ==
    /\ cpc[c] = "wait"
    /\ ClientGoesTo(c, "failed")
    /\ UNCHANGED <<posts, retryVars, reply, observed, handlerVars, budgetVars, ledgerVars,
                   calls, crashes>>

-----------------------------------------------------------------------------
(* The handler thread (GatewayProxyHandler.do_POST).                       *)

HandlerGoesTo(c, where) == pc' = [pc EXCEPT ![c] = where]

\* Mutant: the response is sent and the entry never appended.
ConcludeUnlogged(c, o, u) ==
    /\ HandlerGoesTo(c, "send")
    /\ outcome' = [outcome EXCEPT ![c] = o]
    /\ usage' = [usage EXCEPT ![c] = u]

\* The entry is filled in; _send will append it and answer.
Conclude(c, o, u) ==
    /\ HandlerGoesTo(c, "log")
    /\ outcome' = [outcome EXCEPT ![c] = o]
    /\ usage' = [usage EXCEPT ![c] = u]

EndThread(c) ==
    /\ HandlerGoesTo(c, "idle")
    /\ kind' = [kind EXCEPT ![c] = "valid"]
    /\ tries' = [tries EXCEPT ![c] = 0]
    /\ outcome' = [outcome EXCEPT ![c] = "ok"]
    /\ usage' = [usage EXCEPT ![c] = NoUsage]
    /\ prev' = [prev EXCEPT ![c] = 0]
    /\ again' = [again EXCEPT ![c] = FALSE]
    /\ UNCHANGED seen

\* Path, JSON and policy checks, each with its own early return.  A body that
\* is no JSON object, or a Content-Length that is no number, raises instead.
Refusal(k) ==
    CASE k = "bad_path" -> "unsupported_path"
      [] k = "bad_json" -> "invalid_request_json"
      [] k = "malformed" -> "internal_error"
      [] k = "bad_policy" /\ RequireIdentity -> "refused"
      [] OTHER -> "ok"

Admit(c) ==
    /\ pc[c] = "recv"
    /\ \/ /\ Refusal(kind[c]) = "ok"
          /\ HandlerGoesTo(c, "budget")
          /\ UNCHANGED <<outcome, usage, again>>
       \/ /\ Refusal(kind[c]) # "ok"
          /\ Conclude(c, Refusal(kind[c]), NoUsage)
          /\ again' = [again EXCEPT ![c] = Refusal(kind[c]) = "internal_error"]
    /\ UNCHANGED <<clientVars, kind, tries, prev, seen, budgetVars, ledgerVars, calls, crashes>>

\* "with self.lock": one handler at a time reads and writes the counters.
BudgetUnlocked == TRUE
BudgetFree == budgetLock = NoOne

\* check_and_charge: take the lock and read the counters ...
LockBudget(c) ==
    /\ pc[c] = "budget"
    /\ BudgetFree
    /\ budgetLock' = c
    /\ seen' = [seen EXCEPT ![c] = charged]
    /\ HandlerGoesTo(c, "charge")
    /\ UNCHANGED <<clientVars, kind, tries, outcome, usage, prev, again, charged, paid,
                   ledgerVars, calls, crashes>>

\* Mutant: the counters are incremented before the ceilings are compared.
ChargeThenCheck(c) ==
    /\ pc[c] = "charge"
    /\ budgetLock' = NoOne
    /\ seen' = [seen EXCEPT ![c] = Zero]
    /\ charged' = Charged(c)
    /\ paid' = paid \union {Attempt(c)}
    /\ IF EnforceBudget /\ ~Fits(c)
       THEN HandlerGoesTo(c, "log") /\ outcome' = [outcome EXCEPT ![c] = "budget_exceeded"]
       ELSE HandlerGoesTo(c, "forward") /\ UNCHANGED outcome
    /\ UNCHANGED <<clientVars, kind, tries, usage, prev, again, ledgerVars, calls, crashes>>

\* ... then charge all of them, or refuse before dispatch; release the lock.
CheckAndCharge(c) ==
    /\ pc[c] = "charge"
    /\ budgetLock' = NoOne
    /\ seen' = [seen EXCEPT ![c] = Zero]
    /\ \/ /\ EnforceBudget => Fits(c)
          /\ charged' = Charged(c)
          /\ paid' = paid \union {Attempt(c)}
          /\ HandlerGoesTo(c, "forward")
          /\ UNCHANGED outcome
       \/ /\ EnforceBudget /\ ~Fits(c)
          /\ outcome' = [outcome EXCEPT ![c] = "budget_exceeded"]
          /\ HandlerGoesTo(c, "log")
          /\ UNCHANGED <<charged, paid>>
    /\ UNCHANGED <<clientVars, kind, tries, usage, prev, again, ledgerVars, calls, crashes>>

\* _forward: the upstream answers 200.  A body that is not JSON raises
\* JSONDecodeError and is reported as the caller's own bad request; a payload
\* check_response rejects is reported before its usage is copied.
UpstreamAnswers(c) ==
    /\ pc[c] = "forward"
    /\ calls' = [calls EXCEPT ![c] = @ + 1]
    /\ \/ \E out \in OutTokens : \E o \in {"ok", "attestation_failed"} :
            /\ o = "attestation_failed" => Strict
            /\ Conclude(c, o, [prompt |-> EstIn, completion |-> out])
       \/ \E o \in {"invalid_request_json", "invalid_response"} : Conclude(c, o, NoUsage)
    /\ UNCHANGED <<clientVars, kind, tries, prev, seen, again, budgetVars, ledgerVars, crashes>>

\* The retry test of _forward, and a mutant that is off by one.
OneRetryMore(c) == tries[c] <= ProxyRetries
MayRetry(c) == tries[c] < ProxyRetries

\* _forward: 429/5xx or unreachable, retried max_retries times; or another
\* HTTP error, returned at once.
UpstreamFails(c) ==
    /\ pc[c] = "forward"
    /\ calls' = [calls EXCEPT ![c] = @ + 1]
    /\ \/ /\ MayRetry(c)
          /\ tries' = [tries EXCEPT ![c] = @ + 1]
          /\ UNCHANGED <<pc, outcome, usage>>
       \/ /\ ~MayRetry(c)
          /\ Conclude(c, "upstream_transient", NoUsage)
          /\ UNCHANGED tries
       \/ /\ Conclude(c, "upstream_fatal", NoUsage)
          /\ UNCHANGED tries
    /\ UNCHANGED <<clientVars, kind, prev, seen, again, budgetVars, ledgerVars, crashes>>

\* _forward: reading the upstream's answer, or the body of its error, raises
\* what _forward does not catch; do_POST's "except Exception" does.
ForwardRaises(c) ==
    /\ pc[c] = "forward"
    /\ calls' = [calls EXCEPT ![c] = @ + 1]
    /\ Conclude(c, "internal_error", NoUsage)
    /\ again' = [again EXCEPT ![c] = TRUE]
    /\ UNCHANGED <<clientVars, kind, tries, prev, seen, budgetVars, ledgerVars, crashes>>

\* "with self._lock": one handler at a time appends.
LedgerUnlocked == TRUE
LedgerFree == ledgerLock = NoOne

\* _send, first half (Ledger.append): lock, read the last hash ...
LockLedger(c) ==
    /\ pc[c] = "log"
    /\ LedgerFree
    /\ ledgerLock' = c
    /\ prev' = [prev EXCEPT ![c] = LastHash]
    /\ HandlerGoesTo(c, "append")
    /\ UNCHANGED <<clientVars, kind, tries, outcome, usage, seen, again, budgetVars, ledger,
                   calls, crashes>>

\* Mutant: the lock is not released.
AppendAndKeepLock(c) ==
    /\ pc[c] = "append"
    /\ ledger' = Append(ledger, Entry(c))
    /\ HandlerGoesTo(c, "send")
    /\ UNCHANGED <<ledgerLock, clientVars, entryVars, budgetVars, calls, crashes>>

\* ... write the line chained to it, release the lock.
AppendEntry(c) ==
    /\ pc[c] = "append"
    /\ ledger' = Append(ledger, Entry(c))
    /\ ledgerLock' = NoOne
    /\ HandlerGoesTo(c, "send")
    /\ UNCHANGED <<clientVars, entryVars, budgetVars, calls, crashes>>

\* _send, second half: the response reaches a client that still waits.
Respond(c) ==
    /\ pc[c] = "send"
    /\ cpc[c] = "wait"
    /\ ClientGoesTo(c, "got")
    /\ reply' = [reply EXCEPT ![c] = outcome[c]]
    /\ observed' = observed \union {<<Attempt(c), outcome[c]>>}
    /\ EndThread(c)
    /\ UNCHANGED <<posts, retryVars, budgetVars, ledgerVars, calls, crashes>>

\* _send, second half: the client is gone and the write goes unnoticed.
RespondToNobody(c) ==
    /\ pc[c] = "send"
    /\ cpc[c] # "wait"
    /\ EndThread(c)
    /\ UNCHANGED <<clientVars, budgetVars, ledgerVars, calls, crashes>>

\* _send, second half: the client is gone and the write raises.  do_POST's
\* "except Exception" logs the same entry once more with status 500, and
\* keeps its error class if it has one; a raise inside an except clause ends
\* the thread.
Kept(o) == IF o = "ok" THEN "internal_error" ELSE o

RespondRaises(c) ==
    /\ pc[c] = "send"
    /\ cpc[c] # "wait"
    /\ \/ /\ again[c] \/ outcome[c] = "invalid_request_json"
          /\ EndThread(c)
       \/ /\ ~again[c] /\ outcome[c] # "invalid_request_json"
          /\ again' = [again EXCEPT ![c] = TRUE]
          /\ Conclude(c, Kept(outcome[c]), usage[c])
          /\ UNCHANGED <<kind, tries, prev, seen>>
    /\ UNCHANGED <<clientVars, budgetVars, ledgerVars, calls, crashes>>

-----------------------------------------------------------------------------
\* The proxy process stops and is started again on the same ledger file:
\* handlers, locks and the in-memory BudgetState are gone; a waiting client's
\* connection breaks, which is no URLError either.
Crash ==
    /\ crashes < MaxCrashes
    /\ crashes' = crashes + 1
    /\ pc' = [c \in Clients |-> "idle"]
    /\ kind' = [c \in Clients |-> "valid"]
    /\ tries' = [c \in Clients |-> 0]
    /\ outcome' = [c \in Clients |-> "ok"]
    /\ usage' = [c \in Clients |-> NoUsage]
    /\ prev' = [c \in Clients |-> 0]
    /\ seen' = [c \in Clients |-> Zero]
    /\ again' = [c \in Clients |-> FALSE]
    /\ charged' = Zero
    /\ paid' = {}
    /\ budgetLock' = NoOne
    /\ ledgerLock' = NoOne
    /\ cpc' = [c \in Clients |-> IF cpc[c] = "wait" THEN "failed" ELSE cpc[c]]
    /\ UNCHANGED <<posts, retryVars, reply, observed, ledger, calls>>

ClientStep(c) ==
    \/ \E k \in Kinds : Post(c, k)
    \/ RetryReply(c)
    \/ FinishOnReply(c)
    \/ ParseFails(c)

HandlerStep(c) ==
    \/ Admit(c)
    \/ LockBudget(c)
    \/ CheckAndCharge(c)
    \/ UpstreamAnswers(c)
    \/ UpstreamFails(c)
    \/ ForwardRaises(c)
    \/ LockLedger(c)
    \/ AppendEntry(c)
    \/ Respond(c)
    \/ RespondToNobody(c)
    \/ RespondRaises(c)

Disturbance(c) == ConnectFails(c) \/ ClientTimesOut(c)

Next ==
    \/ \E c \in Clients : \/ Generate(c)
                         \/ ClientStep(c)
                         \/ HandlerStep(c)
                         \/ Disturbance(c)
    \/ Crash

Spec == Init /\ [][Next]_vars

\* Threads are scheduled and every upstream call returns (urlopen has a
\* timeout); nothing forces a client to start, to time out, or the proxy to
\* stop.
Fairness == \A c \in Clients : WF_vars(ClientStep(c)) /\ WF_vars(HandlerStep(c))

FairSpec == Spec /\ Fairness

-----------------------------------------------------------------------------
(* Properties.                                                             *)

EntryType == [attempt : Attempts, outcome : Outcomes, usage : UsageReports, prev : Nat]

\* Every variable holds a value of its type.
TypeOK ==
    /\ cpc \in [Clients -> ClientPCs] /\ reply \in [Clients -> Outcomes]
    /\ posts \in [Clients -> Nat] /\ retries \in [Clients -> Nat] /\ parses \in [Clients -> Nat]
    /\ tries \in [Clients -> Nat] /\ prev \in [Clients -> Nat] /\ calls \in [Clients -> Nat]
    /\ pc \in [Clients -> HandlerPCs] /\ kind \in [Clients -> RequestKinds]
    /\ outcome \in [Clients -> Outcomes] /\ usage \in [Clients -> UsageReports]
    /\ seen \in [Clients -> [Scopes -> [Meters -> Nat]]]
    /\ again \in [Clients -> BOOLEAN]
    /\ charged \in [Scopes -> [Meters -> Nat]]
    /\ budgetLock \in Clients \union {NoOne}
    /\ ledger \in Seq(EntryType)
    /\ ledgerLock \in Clients \union {NoOne}
    /\ observed \subseteq Attempts \X Outcomes
    /\ paid \subseteq Attempts
    /\ crashes \in Nat

\* Whatever the interleaving of handler threads, and across restarts of the
\* proxy, the ledger's hash chain stays intact: every line is chained to the
\* line before it (Ledger.append under _lock; Ledger.verify reports nothing).
ChainIntact == Verifies

\* The posts charged in scope s since the proxy started.
PaidIn(s) == {a \in paid : s \in ScopesOf(a[1])}

\* Concurrent handlers can never together go past a ceiling that each of them
\* alone respects: the posts let through to the upstream fit every ceiling
\* (check_and_charge under BudgetState.lock).
WithinCeilings ==
    EnforceBudget =>
        \A s \in Scopes, m \in Meters :
            Cardinality(PaidIn(s)) * Charge[m] <= CeilingOf(s)[m]

\* No charge is lost or made twice: the meters of a scope account for exactly
\* the posts charged in it, and a post goes upstream only once it is charged.
ChargesAccounted ==
    /\ \A s \in Scopes, m \in Meters :
          charged[s][m] = Cardinality(PaidIn(s)) * Charge[m]
    /\ \A c \in Clients : pc[c] = "forward" => Attempt(c) \in paid

\* A post the gateway refused (path, policy or budget) was never charged.
RefusalsAreFree ==
    \A i \in DOMAIN ledger :
        ledger[i].outcome \in {"unsupported_path", "refused", "budget_exceeded"}
            => ledger[i].attempt \notin paid

\* Retries of the client, of its parser and of the proxy multiply, but stay
\* bounded: one generate() reaches the paid upstream at most so many times.
CallsBounded ==
    \A c \in Clients :
        calls[c] <= MaxPosts * (ProxyRetries + 1)

\* The gateway is a ledgered service: every response a caller observes is in
\* the ledger by then, and no post is answered twice (_send).
Service == INSTANCE LedgeredService WITH
    recorded <- {<<ledger[i].attempt, ledger[i].outcome>> : i \in DOMAIN ledger}

LedgeredServiceSpec == Service!Spec

\* Once started, a generate() call ends, with an answer or an error.
CallEnds == \A c \in Clients : cpc[c] = "post" ~> cpc[c] \in {"done", "failed"}

\* Every handler thread ends, also when its client has gone: no lock is kept,
\* no thread left behind.
HandlerEnds == \A c \in Clients : pc[c] # "idle" ~> pc[c] = "idle"

=============================================================================
