-------------------------- MODULE GatewayProofs --------------------------
(***************************************************************************)
(* The model gateway, for every number of clients, runs, retries and every *)
(* ceiling.  Types, the budget, the ledger.                                *)
(*                                                                         *)
(* PostsInv is part of the type invariant: an attempt number stays in      *)
(* Attempts because the retry loops are bounded.                           *)
(***************************************************************************)
EXTENDS GatewayProxy, FiniteSetTheorems, TLAPS

-----------------------------------------------------------------------------
(* Type correctness and the bound on the posts of one generate() call.     *)

\* After p parse retries and r retries of the current loop at most this many
\* posts have failed, and one may be under way.
Failed(p, r) == p * (ClientRetries + 1) + r

PostsInv ==
    \A c \in Clients :
        /\ parses[c] <= ClientRetries
        /\ retries[c] <= ClientRetries
        /\ cpc[c] \in {"idle", "post"} => posts[c] <= Failed(parses[c], retries[c])
        /\ posts[c] <= Failed(parses[c], retries[c]) + 1

LEMMA FailedBound ==
    ASSUME NEW p \in Nat, NEW r \in Nat, p <= ClientRetries, r <= ClientRetries
    PROVE  /\ Failed(p, r) \in Nat
           /\ Failed(p, r) + 1 <= MaxPosts
           /\ Failed(p, r + 1) = Failed(p, r) + 1
           /\ Failed(p, r) + 1 <= Failed(p + 1, 0)
<1>0. ClientRetries \in Nat
  BY ConstantsAssumption
<1>1. p * (ClientRetries + 1) <= ClientRetries * (ClientRetries + 1)
  BY <1>0, SMT
<1>2. /\ (ClientRetries + 1) * (ClientRetries + 1)
           = ClientRetries * (ClientRetries + 1) + ClientRetries + 1
      /\ (p + 1) * (ClientRetries + 1) = p * (ClientRetries + 1) + ClientRetries + 1
  BY <1>0, SMT
<1>3. p * (ClientRetries + 1) \in Nat /\ ClientRetries * (ClientRetries + 1) \in Nat
  BY <1>0, SMT
<1> QED
  BY <1>0, <1>1, <1>2, <1>3, SMT DEF Failed, MaxPosts

\* No post is numbered past MaxPosts, so every attempt is in Attempts.
LEMMA PostsInRange ==
    ASSUME TypeOK, PostsInv, NEW c \in Clients
    PROVE  posts[c] \in 0 .. MaxPosts /\ Attempt(c) \in Attempts
<1>1. posts[c] \in Nat /\ parses[c] \in Nat /\ retries[c] \in Nat
  BY DEF TypeOK
<1>2. posts[c] <= Failed(parses[c], retries[c]) + 1
  BY DEF PostsInv
<1>3. Failed(parses[c], retries[c]) \in Nat /\ Failed(parses[c], retries[c]) + 1 <= MaxPosts
  BY <1>1, FailedBound DEF PostsInv
<1>4. ClientRetries \in Nat /\ MaxPosts \in Nat
  BY ConstantsAssumption, SMT DEF MaxPosts
<1> QED
  BY <1>1, <1>2, <1>3, <1>4 DEF Attempt, Attempts

LEMMA TypeInit == Init => TypeOK /\ PostsInv
<1> SUFFICES ASSUME Init PROVE TypeOK /\ PostsInv
  OBVIOUS
<1>1. TypeOK
  BY ConstantsAssumption
  DEF Init, TypeOK, ClientPCs, HandlerPCs, Zero, NoUsage, UsageReports, Outcomes, RequestKinds
<1>2. 0 <= Failed(0, 0)
  BY ConstantsAssumption DEF Failed
<1>3. PostsInv
  BY <1>2, ConstantsAssumption DEF Init, PostsInv, Failed
<1> QED
  BY <1>1, <1>3

LEMMA ClientTypes ==
    ASSUME TypeOK, PostsInv, NEW c \in Clients,
           Generate(c) \/ ClientStep(c) \/ Disturbance(c)
    PROVE  TypeOK' /\ PostsInv'
<1> USE DEF clientVars, retryVars, handlerVars, entryVars, budgetVars, ledgerVars,
            ClientGoesTo, ClientPCs
<1>a. ClientRetries \in Nat /\ Kinds \subseteq RequestKinds
  BY ConstantsAssumption
<1>0. /\ posts \in [Clients -> Nat] /\ retries \in [Clients -> Nat]
      /\ parses \in [Clients -> Nat] /\ cpc \in [Clients -> ClientPCs]
  BY DEF TypeOK
<1>b. /\ posts[c] + 1 \in Nat /\ retries[c] + 1 \in Nat /\ parses[c] + 1 \in Nat
      /\ Failed(parses[c], retries[c]) \in Nat
      /\ Failed(parses[c], retries[c] + 1) = Failed(parses[c], retries[c]) + 1
      /\ Failed(parses[c], retries[c]) + 1 <= Failed(parses[c] + 1, 0)
  BY <1>0, <1>a, FailedBound DEF PostsInv
<1>1. CASE Generate(c)
  BY <1>1 DEF Generate, PostsInv, TypeOK
<1>2. ASSUME NEW k \in Kinds, Post(c, k)
      PROVE  TypeOK' /\ PostsInv'
  <2>1. TypeOK'
    BY <1>2, <1>a, <1>b DEF Post, HandlerPCs, TypeOK
  <2>2. PostsInv'
    BY <1>0, <1>2, <1>a, <1>b DEF Post, PostsInv
  <2> QED
    BY <2>1, <2>2
<1>3. CASE RetryReply(c) \/ ConnectFails(c)
  <2>1. Retry(c) /\ cpc[c] \in {"got", "post"}
    BY <1>3 DEF RetryReply, ConnectFails
  <2>2. cpc' \in [Clients -> ClientPCs] /\ retries' \in [Clients -> Nat]
    BY <2>1, <1>0, <1>b DEF Retry
  <2>3. TypeOK'
    BY <2>1, <2>2 DEF Retry, TypeOK
  <2>4. PostsInv'
    BY <2>1, <1>0, <1>a, <1>b DEF Retry, PostsInv
  <2> QED
    BY <2>3, <2>4
<1>4. CASE FinishOnReply(c) \/ ClientTimesOut(c)
  BY <1>4 DEF FinishOnReply, ClientTimesOut, PostsInv, TypeOK
<1>5. CASE ParseFails(c)
  <2>1. /\ cpc' \in [Clients -> ClientPCs] /\ retries' \in [Clients -> Nat]
        /\ parses' \in [Clients -> Nat]
    BY <1>5, <1>0, <1>b DEF ParseFails
  <2>2. TypeOK'
    BY <1>5, <2>1 DEF ParseFails, TypeOK
  <2>3. PostsInv'
    <3>1. CASE parses[c] + 1 > ClientRetries
      BY <1>5, <3>1, <1>0, <1>a, <1>b DEF ParseFails, PostsInv
    <3>2. CASE parses[c] + 1 <= ClientRetries
      <4>1. posts[c] <= Failed(parses[c] + 1, 0) /\ Failed(parses[c] + 1, 0) \in Nat
        BY <3>2, <1>0, <1>a, <1>b, FailedBound DEF PostsInv
      <4>2. /\ parses' = [parses EXCEPT ![c] = @ + 1] /\ retries' = [retries EXCEPT ![c] = 0]
            /\ cpc' = [cpc EXCEPT ![c] = "post"] /\ UNCHANGED posts
        BY <1>5, <3>2, <1>0, <1>a DEF ParseFails
      <4> QED
        BY <4>1, <4>2, <3>2, <1>0, <1>a DEF PostsInv
    <3> QED
      BY <3>1, <3>2, <1>0, <1>a
  <2> QED
    BY <2>2, <2>3
<1> QED
  BY <1>1, <1>2, <1>3, <1>4, <1>5 DEF ClientStep, Disturbance

\* The handler steps leave the clients alone but for Respond.
LEMMA HandlerTypes ==
    ASSUME TypeOK, PostsInv, NEW c \in Clients, HandlerStep(c)
    PROVE  TypeOK' /\ PostsInv'
<1> USE DEF clientVars, retryVars, handlerVars, entryVars, budgetVars, ledgerVars,
            HandlerGoesTo, HandlerPCs, Conclude
<1>a. Attempt(c) \in Attempts /\ NoUsage \in UsageReports
  BY PostsInRange DEF NoUsage, UsageReports
<1>h. /\ pc \in [Clients -> HandlerPCs] /\ kind \in [Clients -> RequestKinds]
      /\ tries \in [Clients -> Nat] /\ outcome \in [Clients -> Outcomes]
      /\ usage \in [Clients -> UsageReports] /\ prev \in [Clients -> Nat]
      /\ again \in [Clients -> BOOLEAN] /\ calls \in [Clients -> Nat]
      /\ seen \in [Clients -> [Scopes -> [Meters -> Nat]]]
      /\ charged \in [Scopes -> [Meters -> Nat]] /\ paid \subseteq Attempts
      /\ ledger \in Seq(EntryType) /\ observed \subseteq Attempts \X Outcomes
      /\ cpc \in [Clients -> ClientPCs] /\ reply \in [Clients -> Outcomes]
  BY DEF TypeOK
<1>b. EndThread(c) => /\ pc' \in [Clients -> HandlerPCs] /\ kind' \in [Clients -> RequestKinds]
                      /\ tries' \in [Clients -> Nat] /\ outcome' \in [Clients -> Outcomes]
                      /\ usage' \in [Clients -> UsageReports] /\ prev' \in [Clients -> Nat]
                      /\ again' \in [Clients -> BOOLEAN]
                      /\ UNCHANGED seen
  BY <1>a, <1>h DEF EndThread, RequestKinds, Outcomes
<1>1. CASE Admit(c)
  <2>1. Refusal(kind[c]) \in Outcomes
    BY DEF Refusal, Outcomes
  <2>2. /\ pc' \in [Clients -> HandlerPCs] /\ outcome' \in [Clients -> Outcomes]
        /\ usage' \in [Clients -> UsageReports]
    <3>1. CASE HandlerGoesTo(c, "budget") /\ UNCHANGED <<outcome, usage>>
      BY <3>1, <1>h
    <3>2. CASE Conclude(c, Refusal(kind[c]), NoUsage)
      BY <3>2, <1>a, <1>h, <2>1
    <3> QED
      BY <1>1, <3>1, <3>2 DEF Admit
  <2>3. again' \in [Clients -> BOOLEAN]
    BY <1>1, <1>h DEF Admit
  <2> QED
    BY <1>1, <2>2, <2>3 DEF Admit, TypeOK, PostsInv
<1>2. CASE LockBudget(c)
  BY <1>2 DEF LockBudget, TypeOK, PostsInv
<1>3. CASE CheckAndCharge(c)
  <2>1. Zero \in [Scopes -> [Meters -> Nat]]
    BY DEF Zero
  <2>2. Charged(c) \in [Scopes -> [Meters -> Nat]]
    <3>1. \A m \in Meters : Charge[m] \in Nat
      BY ConstantsAssumption DEF Charge, Meters
    <3> QED
      BY <3>1, <1>h DEF Charged
  <2>3. /\ pc' \in [Clients -> HandlerPCs] /\ outcome' \in [Clients -> Outcomes]
        /\ seen' \in [Clients -> [Scopes -> [Meters -> Nat]]]
        /\ charged' \in [Scopes -> [Meters -> Nat]] /\ paid' \subseteq Attempts
    BY <1>3, <1>a, <1>h, <2>1, <2>2 DEF CheckAndCharge, Outcomes
  <2> QED
    BY <1>3, <2>3 DEF CheckAndCharge, TypeOK, PostsInv
<1>4. CASE UpstreamAnswers(c)
  <2>1. calls' \in [Clients -> Nat]
    BY <1>4, <1>h DEF UpstreamAnswers
  <2>2. \A out \in OutTokens : [prompt |-> EstIn, completion |-> out] \in UsageReports
    BY ConstantsAssumption DEF UsageReports
  <2>3. \E o \in Outcomes, u \in UsageReports : Conclude(c, o, u)
    BY <1>4, <2>2, <1>a DEF UpstreamAnswers, Outcomes
  <2>4. /\ pc' \in [Clients -> HandlerPCs] /\ outcome' \in [Clients -> Outcomes]
        /\ usage' \in [Clients -> UsageReports]
    <3>1. PICK o \in Outcomes, u \in UsageReports : Conclude(c, o, u)
      BY <2>3
    <3> QED
      BY <3>1, <1>h
  <2> QED
    BY <1>4, <2>1, <2>4 DEF UpstreamAnswers, TypeOK, PostsInv
<1>5. CASE UpstreamFails(c)
  <2>1. calls' \in [Clients -> Nat]
    BY <1>5, <1>h DEF UpstreamFails, MayRetry
  <2>2. tries[c] + 1 \in Nat
    BY <1>h
  <2>3. tries' \in [Clients -> Nat]
    BY <1>5, <1>h, <2>2 DEF UpstreamFails, MayRetry
  <2>4. /\ pc' \in [Clients -> HandlerPCs] /\ outcome' \in [Clients -> Outcomes]
        /\ usage' \in [Clients -> UsageReports]
    <3>1. CASE UNCHANGED <<pc, outcome, usage>>
      BY <3>1, <1>h
    <3>2. ASSUME NEW o \in {"upstream_transient", "upstream_fatal"}, Conclude(c, o, NoUsage)
          PROVE  /\ pc' \in [Clients -> HandlerPCs] /\ outcome' \in [Clients -> Outcomes]
                 /\ usage' \in [Clients -> UsageReports]
      BY <3>2, <1>a, <1>h DEF Outcomes
    <3> QED
      BY <1>5, <3>1, <3>2 DEF UpstreamFails, MayRetry
  <2> QED
    BY <1>5, <2>1, <2>3, <2>4 DEF UpstreamFails, MayRetry, TypeOK, PostsInv
<1>6. CASE LockLedger(c)
  <2>1. LastHash \in Nat
    BY <1>h DEF LastHash
  <2>2. prev' \in [Clients -> Nat] /\ pc' \in [Clients -> HandlerPCs]
    BY <1>6, <1>h, <2>1 DEF LockLedger
  <2> QED
    BY <1>6, <2>2 DEF LockLedger, TypeOK, PostsInv
<1>7. CASE AppendEntry(c)
  <2>1. Entry(c) \in EntryType
    BY <1>a, <1>h DEF Entry, EntryType
  <2>2. ledger' \in Seq(EntryType) /\ pc' \in [Clients -> HandlerPCs]
    BY <1>7, <1>h, <2>1 DEF AppendEntry
  <2> QED
    BY <1>7, <2>2 DEF AppendEntry, TypeOK, PostsInv
<1>8. CASE Respond(c)
  <2>1. observed' \subseteq Attempts \X Outcomes
    BY <1>8, <1>a, <1>h DEF Respond
  <2>2. cpc' \in [Clients -> ClientPCs] /\ reply' \in [Clients -> Outcomes]
    BY <1>8, <1>h DEF Respond, ClientGoesTo, ClientPCs
  <2>3. TypeOK'
    BY <1>8, <1>b, <2>1, <2>2 DEF Respond, TypeOK
  <2>4. PostsInv'
    BY <1>8, <1>h DEF Respond, ClientGoesTo, PostsInv
  <2> QED
    BY <2>3, <2>4
<1>9. CASE RespondToNobody(c)
  BY <1>9, <1>b DEF RespondToNobody, TypeOK, PostsInv
<1>10. CASE RespondRaises(c)
  <2>1. CASE EndThread(c)
    BY <1>10, <2>1, <1>b DEF RespondRaises, TypeOK, PostsInv
  <2>2. CASE ~EndThread(c)
    <3>1. /\ pc' \in [Clients -> HandlerPCs] /\ outcome' \in [Clients -> Outcomes]
          /\ usage' \in [Clients -> UsageReports] /\ again' \in [Clients -> BOOLEAN]
      BY <1>10, <1>h, <2>2 DEF RespondRaises, Kept, Outcomes
    <3> QED
      BY <1>10, <2>2, <3>1 DEF RespondRaises, TypeOK, PostsInv
  <2> QED
    BY <2>1, <2>2
<1>11. CASE ForwardRaises(c)
  <2>1. /\ pc' \in [Clients -> HandlerPCs] /\ outcome' \in [Clients -> Outcomes]
        /\ usage' \in [Clients -> UsageReports] /\ again' \in [Clients -> BOOLEAN]
        /\ calls' \in [Clients -> Nat]
    BY <1>11, <1>a, <1>h DEF ForwardRaises, Outcomes
  <2> QED
    BY <1>11, <2>1 DEF ForwardRaises, TypeOK, PostsInv
<1> QED
  BY <1>1, <1>2, <1>3, <1>4, <1>5, <1>6, <1>7, <1>8, <1>9, <1>10, <1>11 DEF HandlerStep

LEMMA CrashTypes ==
    ASSUME TypeOK, PostsInv, Crash
    PROVE  TypeOK' /\ PostsInv'
<1>1. Zero \in [Scopes -> [Meters -> Nat]] /\ NoUsage \in UsageReports
  BY DEF Zero, NoUsage, UsageReports
<1>2. cpc' \in [Clients -> ClientPCs]
  BY DEF Crash, TypeOK, ClientPCs
<1>3. TypeOK'
  BY <1>1, <1>2 DEF Crash, TypeOK, HandlerPCs, RequestKinds, Outcomes, retryVars
<1>4. PostsInv'
  BY DEF Crash, PostsInv, retryVars
<1> QED
  BY <1>3, <1>4

\* Type correctness of the gateway and its clients, and the bound on the posts
\* of one generate() call, whatever the number of clients and retries.
THEOREM GatewayTypeCorrect == Spec => [](TypeOK /\ PostsInv)
<1>1. TypeOK /\ PostsInv /\ UNCHANGED vars => TypeOK' /\ PostsInv'
  BY DEF vars, clientVars, retryVars, handlerVars, entryVars, budgetVars, ledgerVars,
         TypeOK, PostsInv
<1>2. TypeOK /\ PostsInv /\ [Next]_vars => TypeOK' /\ PostsInv'
  BY <1>1, ClientTypes, HandlerTypes, CrashTypes DEF Next
<1> QED
  BY TypeInit, <1>2, PTL DEF Spec

-----------------------------------------------------------------------------
(* Charges.  A handler between reading the counters and charging them      *)
(* holds the lock, and nobody has charged since.                           *)

NotCharged == {"recv", "budget", "charge"}

BudgetInv ==
    /\ IsFiniteSet(paid)
    /\ \A a \in paid : a[2] <= posts[a[1]]
    /\ \A c \in Clients :
          /\ pc[c] \in NotCharged => Attempt(c) \notin paid
          /\ pc[c] = "charge" => budgetLock = c /\ seen[c] = charged
    /\ EnforceBudget => \A s \in Scopes, m \in Meters : charged[s][m] <= CeilingOf(s)[m]
    /\ ChargesAccounted

LEMMA ChargeType ==
    /\ \A m \in Meters : Charge[m] \in Nat
    /\ \A s \in Scopes, m \in Meters : CeilingOf(s)[m] \in Nat
    /\ \A c \in Clients : ScopesOf(c) \subseteq Scopes
  BY ConstantsAssumption DEF Charge, Meters, CeilingOf, ScopesOf, Scopes

LEMMA PaidInFinite ==
    ASSUME BudgetInv, NEW s \in Scopes
    PROVE  IsFiniteSet(PaidIn(s)) /\ Cardinality(PaidIn(s)) \in Nat
<1>1. PaidIn(s) \subseteq paid /\ IsFiniteSet(paid)
  BY DEF PaidIn, BudgetInv
<1> QED
  BY <1>1, FS_Subset, FS_CardinalityType

\* Charging the post of c adds it to the scopes of c and to no other.
LEMMA ChargeOne ==
    ASSUME TypeOK, BudgetInv, NEW c \in Clients, NEW s \in Scopes,
           Attempt(c) \notin paid, paid' = paid \union {Attempt(c)}
    PROVE  Cardinality(PaidIn(s))'
             = Cardinality(PaidIn(s)) + (IF s \in ScopesOf(c) THEN 1 ELSE 0)
<1>0. IsFiniteSet(PaidIn(s)) /\ Cardinality(PaidIn(s)) \in Nat /\ Attempt(c)[1] = c
  BY PaidInFinite DEF Attempt
<1>1. CASE s \in ScopesOf(c)
  <2>1. PaidIn(s)' = PaidIn(s) \union {Attempt(c)} /\ Attempt(c) \notin PaidIn(s)
    BY <1>0, <1>1 DEF PaidIn, ScopesOf
  <2> QED
    BY <1>0, <1>1, <2>1, FS_AddElement
<1>2. CASE s \notin ScopesOf(c)
  <2>1. PaidIn(s)' = PaidIn(s)
    BY <1>0, <1>2 DEF PaidIn, ScopesOf
  <2> QED
    BY <1>0, <1>2, <2>1
<1> QED
  BY <1>1, <1>2

LEMMA NothingCharged ==
    \A s \in Scopes, m \in Meters : Zero[s][m] = Cardinality({}) * Charge[m]
<1>1. \A k \in Nat : 0 * k = 0
  BY SMT
<1>2. Cardinality({}) = 0
  BY FS_EmptySet
<1> QED
  BY <1>1, <1>2, ChargeType DEF Zero

LEMMA BudgetInit == Init => BudgetInv
<1> SUFFICES ASSUME Init PROVE BudgetInv
  OBVIOUS
<1>1. paid = {} /\ charged = Zero /\ \A c \in Clients : pc[c] = "idle"
  BY DEF Init
<1>2. \A s \in Scopes : PaidIn(s) = {}
  BY <1>1 DEF PaidIn
<1>3. ChargesAccounted
  BY <1>1, <1>2, NothingCharged DEF ChargesAccounted
<1>4. \A s \in Scopes, m \in Meters : charged[s][m] <= CeilingOf(s)[m]
  BY <1>1, ChargeType DEF Zero
<1>5. IsFiniteSet(paid)
  BY <1>1, FS_EmptySet
<1> QED
  BY <1>1, <1>3, <1>4, <1>5 DEF BudgetInv, NotCharged

\* A step that charges nobody and lets nobody through unpaid.
LEMMA BudgetUnchanged ==
    ASSUME TypeOK, BudgetInv, NEW c \in Clients,
           UNCHANGED <<charged, paid, posts>>,
           \A d \in Clients \ {c} : pc'[d] = pc[d] /\ seen'[d] = seen[d],
           pc'[c] \in NotCharged => pc[c] \in NotCharged,
           pc'[c] = "charge" => budgetLock' = c /\ seen'[c] = charged,
           \A d \in Clients \ {c} : budgetLock = d => budgetLock' = d,
           pc'[c] = "forward" => pc[c] = "forward"
    PROVE  BudgetInv'
<1>1. ChargesAccounted'
  BY DEF BudgetInv, ChargesAccounted, PaidIn, Attempt
<1>2. \A d \in Clients :
        /\ pc'[d] \in NotCharged => Attempt(d)' \notin paid'
        /\ pc'[d] = "charge" => budgetLock' = d /\ seen'[d] = charged'
  BY DEF BudgetInv, Attempt
<1> QED
  BY <1>1, <1>2 DEF BudgetInv

LEMMA BudgetClientStep ==
    ASSUME TypeOK, BudgetInv, NEW c \in Clients,
           Generate(c) \/ ClientStep(c) \/ Disturbance(c)
    PROVE  BudgetInv'
<1> USE DEF clientVars, retryVars, handlerVars, entryVars, budgetVars, ledgerVars, ClientGoesTo
<1>0. pc \in [Clients -> HandlerPCs] /\ posts \in [Clients -> Nat] /\ paid \subseteq Attempts
  BY DEF TypeOK
<1>1. UNCHANGED <<charged, paid, budgetLock, seen>>
  BY DEF Generate, ClientStep, Disturbance, Post, RetryReply, ConnectFails, Retry,
         FinishOnReply, ParseFails, ClientTimesOut
<1>2. CASE \E k \in Kinds : Post(c, k)
  <2>1. posts' = [posts EXCEPT ![c] = @ + 1] /\ pc' = [pc EXCEPT ![c] = "recv"]
    BY <1>2 DEF Post
  <2>2. \A a \in paid : a[1] \in Clients /\ a[2] \in Nat
    BY <1>0 DEF Attempts
  <2>3. \A a \in paid : a[2] <= posts'[a[1]]
    BY <2>1, <2>2, <1>0 DEF BudgetInv
  <2>4. Attempt(c)' \notin paid
    BY <2>1, <1>0 DEF BudgetInv, Attempt
  <2>5. \A d \in Clients \ {c} : Attempt(d)' = Attempt(d) /\ pc'[d] = pc[d]
    BY <2>1, <1>0 DEF Attempt
  <2>6. ChargesAccounted'
    BY <1>0, <1>1, <2>1, <2>5 DEF BudgetInv, ChargesAccounted, PaidIn
  <2> QED
    BY <1>0, <1>1, <2>1, <2>3, <2>4, <2>5, <2>6 DEF BudgetInv
<1>3. CASE ~\E k \in Kinds : Post(c, k)
  <2>1. UNCHANGED <<posts, pc>>
    BY <1>3
    DEF Generate, ClientStep, Disturbance, RetryReply, ConnectFails, Retry,
        FinishOnReply, ParseFails, ClientTimesOut
  <2> QED
    BY <1>1, <2>1, BudgetUnchanged DEF BudgetInv
<1> QED
  BY <1>2, <1>3

LEMMA BudgetCharge ==
    ASSUME TypeOK, BudgetInv, NEW c \in Clients, CheckAndCharge(c), charged' = Charged(c),
           EnforceBudget => Fits(c), paid' = paid \union {Attempt(c)},
           HandlerGoesTo(c, "forward")
    PROVE  BudgetInv'
<1>0. /\ pc \in [Clients -> HandlerPCs] /\ posts \in [Clients -> Nat]
      /\ charged \in [Scopes -> [Meters -> Nat]] /\ seen \in [Clients -> [Scopes -> [Meters -> Nat]]]
  BY DEF TypeOK
<1>1. /\ pc[c] = "charge" /\ seen[c] = charged /\ budgetLock = c /\ Attempt(c) \notin paid
      /\ UNCHANGED posts
  BY DEF CheckAndCharge, BudgetInv, NotCharged, clientVars
<1>2. pc' = [pc EXCEPT ![c] = "forward"]
  BY DEF HandlerGoesTo
<1>3. \A s \in Scopes, m \in Meters :
        charged'[s][m] = IF s \in ScopesOf(c) THEN charged[s][m] + Charge[m] ELSE charged[s][m]
  BY <1>0, <1>1 DEF Charged
<1>4. \A s \in Scopes : /\ Cardinality(PaidIn(s)) \in Nat
                        /\ Cardinality(PaidIn(s))'
                             = Cardinality(PaidIn(s)) + (IF s \in ScopesOf(c) THEN 1 ELSE 0)
  BY <1>1, ChargeOne, PaidInFinite
<1>5. \A s \in Scopes, m \in Meters :
        charged'[s][m] = Cardinality(PaidIn(s))' * Charge[m]
  <2>1. \A n, k \in Nat : (n + 1) * k = n * k + k
    BY SMT
  <2>2. \A s \in Scopes, m \in Meters : charged[s][m] = Cardinality(PaidIn(s)) * Charge[m]
    BY DEF BudgetInv, ChargesAccounted
  <2> SUFFICES ASSUME NEW s \in Scopes, NEW m \in Meters
               PROVE  charged'[s][m] = Cardinality(PaidIn(s))' * Charge[m]
    OBVIOUS
  <2>3. Charge[m] \in Nat
    BY ChargeType
  <2>4. CASE s \in ScopesOf(c)
    BY <1>3, <1>4, <2>1, <2>2, <2>3, <2>4
  <2>5. CASE s \notin ScopesOf(c)
    BY <1>3, <1>4, <2>2, <2>3, <2>5
  <2> QED
    BY <2>4, <2>5
<1>6. EnforceBudget => \A s \in Scopes, m \in Meters : charged'[s][m] <= CeilingOf(s)[m]
  <2> SUFFICES ASSUME EnforceBudget, NEW s \in Scopes, NEW m \in Meters
               PROVE  charged'[s][m] <= CeilingOf(s)[m]
    OBVIOUS
  <2>1. CASE s \in ScopesOf(c)
    BY <1>1, <1>3, <2>1 DEF Fits
  <2>2. CASE s \notin ScopesOf(c)
    BY <1>3, <2>2 DEF BudgetInv
  <2> QED
    BY <2>1, <2>2
<1>7. \A d \in Clients : pc'[d] = "forward" => Attempt(d)' \in paid'
  BY <1>0, <1>1, <1>2 DEF BudgetInv, ChargesAccounted, Attempt
<1>8. ChargesAccounted'
  BY <1>5, <1>7 DEF ChargesAccounted
<1>9. \A d \in Clients : pc'[d] # "charge" /\ (pc'[d] \in NotCharged => Attempt(d)' \notin paid')
  <2> SUFFICES ASSUME NEW d \in Clients
               PROVE  pc'[d] # "charge" /\ (pc'[d] \in NotCharged => Attempt(d)' \notin paid')
    OBVIOUS
  <2>1. CASE d = c
    BY <1>0, <1>2, <2>1 DEF NotCharged
  <2>2. CASE d # c
    <3>1. pc'[d] = pc[d] /\ Attempt(d)' = Attempt(d) /\ Attempt(d) # Attempt(c)
      BY <1>0, <1>1, <1>2, <2>2 DEF Attempt
    <3>2. pc[d] # "charge" /\ (pc[d] \in NotCharged => Attempt(d) \notin paid)
      BY <1>1, <2>2 DEF BudgetInv
    <3> QED
      BY <3>1, <3>2
  <2> QED
    BY <2>1, <2>2
<1>10. IsFiniteSet(paid')
  BY FS_AddElement DEF BudgetInv
<1>11. \A a \in paid' : a[2] <= posts'[a[1]]
  <2>1. posts[c] <= posts[c] /\ Attempt(c)[1] = c /\ Attempt(c)[2] = posts[c]
    BY <1>0 DEF Attempt
  <2> QED
    BY <1>1, <2>1 DEF BudgetInv
<1> QED
  BY <1>6, <1>8, <1>9, <1>10, <1>11 DEF BudgetInv

LEMMA BudgetHandlerStep ==
    ASSUME TypeOK, BudgetInv, NEW c \in Clients, HandlerStep(c)
    PROVE  BudgetInv'
<1> USE DEF clientVars, handlerVars, entryVars, budgetVars, ledgerVars, HandlerGoesTo,
            Conclude, NotCharged
<1>0. /\ pc \in [Clients -> HandlerPCs] /\ seen \in [Clients -> [Scopes -> [Meters -> Nat]]]
      /\ NoOne \notin Clients
  BY ConstantsAssumption DEF TypeOK
<1>1. CASE LockBudget(c)
  <2>1. /\ pc[c] = "budget" /\ budgetLock = NoOne /\ budgetLock' = c
        /\ pc' = [pc EXCEPT ![c] = "charge"] /\ seen' = [seen EXCEPT ![c] = charged]
        /\ UNCHANGED <<charged, paid, posts>>
    BY <1>1 DEF LockBudget, BudgetFree
  <2> QED
    BY <1>0, <2>1, BudgetUnchanged
<1>2. CASE CheckAndCharge(c)
  <2>1. CASE EnforceBudget /\ ~Fits(c) /\ HandlerGoesTo(c, "log") /\ UNCHANGED <<charged, paid>>
    <3>1. pc[c] = "charge" /\ seen' = [seen EXCEPT ![c] = Zero] /\ UNCHANGED posts
      BY <1>2 DEF CheckAndCharge
    <3>2. budgetLock = c
      BY <3>1 DEF BudgetInv
    <3> QED
      BY <1>0, <2>1, <3>1, <3>2, BudgetUnchanged
  <2>2. CASE /\ EnforceBudget => Fits(c)
             /\ charged' = Charged(c) /\ paid' = paid \union {Attempt(c)}
             /\ HandlerGoesTo(c, "forward")
    BY <1>2, <2>2, BudgetCharge
  <2> QED
    BY <1>2, <2>1, <2>2 DEF CheckAndCharge
<1>3. CASE ~LockBudget(c) /\ ~CheckAndCharge(c)
  <2>1. UNCHANGED <<charged, paid, posts, budgetLock, seen>>
    BY <1>3
    DEF HandlerStep, Admit, UpstreamAnswers, UpstreamFails, ForwardRaises, LockLedger,
        AppendEntry, Respond, RespondToNobody, RespondRaises, EndThread
  <2>2. /\ \A d \in Clients \ {c} : pc'[d] = pc[d]
        /\ pc'[c] \in NotCharged => pc[c] \in NotCharged
        /\ pc'[c] # "charge"
        /\ pc'[c] = "forward" => pc[c] = "forward"
    <3>1. CASE Admit(c)
      BY <3>1, <1>0 DEF Admit
    <3>2. CASE UpstreamAnswers(c) \/ UpstreamFails(c) \/ ForwardRaises(c)
      BY <3>2, <1>0 DEF UpstreamAnswers, UpstreamFails, ForwardRaises
    <3>3. CASE LockLedger(c) \/ AppendEntry(c)
      BY <3>3, <1>0 DEF LockLedger, AppendEntry
    <3>4. CASE Respond(c) \/ RespondToNobody(c) \/ RespondRaises(c)
      BY <3>4, <1>0 DEF Respond, RespondToNobody, RespondRaises, EndThread
    <3> QED
      BY <1>3, <3>1, <3>2, <3>3, <3>4 DEF HandlerStep
  <2> QED
    BY <2>1, <2>2, BudgetUnchanged
<1> QED
  BY <1>1, <1>2, <1>3

\* A restart forgets all charges, and the posts they were made for.
LEMMA BudgetCrash ==
    ASSUME BudgetInv, Crash
    PROVE  BudgetInv'
<1>1. paid' = {} /\ charged' = Zero /\ \A c \in Clients : pc'[c] = "idle"
  BY DEF Crash
<1>2. \A s \in Scopes : PaidIn(s)' = {}
  BY <1>1 DEF PaidIn
<1>3. \A s \in Scopes, m \in Meters : charged'[s][m] = Cardinality(PaidIn(s))' * Charge[m]
  BY <1>1, <1>2, NothingCharged
<1>4. ChargesAccounted'
  BY <1>1, <1>3 DEF ChargesAccounted
<1>5. \A s \in Scopes, m \in Meters : charged'[s][m] <= CeilingOf(s)[m]
  BY <1>1, ChargeType DEF Zero
<1>6. IsFiniteSet(paid')
  BY <1>1, FS_EmptySet
<1> QED
  BY <1>1, <1>4, <1>5, <1>6 DEF BudgetInv, NotCharged

\* The budget's invariant holds in every state.
LEMMA BudgetInvariant == Spec => []BudgetInv
<1>1. TypeOK /\ BudgetInv /\ [Next]_vars => BudgetInv'
  <2>1. BudgetInv /\ UNCHANGED vars => BudgetInv'
    BY DEF vars, clientVars, retryVars, handlerVars, entryVars, budgetVars, ledgerVars, BudgetInv,
           ChargesAccounted, PaidIn, Attempt
  <2> QED
    BY <2>1, BudgetClientStep, BudgetHandlerStep, BudgetCrash DEF Next
<1> QED
  BY BudgetInit, <1>1, GatewayTypeCorrect, PTL DEF Spec

\* Whatever the number of concurrent handlers and the ceilings, no charge is
\* lost or doubled (check_and_charge under BudgetState.lock),
THEOREM GatewayChargesAccounted == Spec => []ChargesAccounted
<1>1. BudgetInv => ChargesAccounted
  BY DEF BudgetInv
<1> QED
  BY BudgetInvariant, <1>1, PTL

\* and the posts let through fit every ceiling.
THEOREM GatewayWithinCeilings == Spec => []WithinCeilings
<1>1. BudgetInv => WithinCeilings
  BY DEF BudgetInv, ChargesAccounted, WithinCeilings
<1> QED
  BY BudgetInvariant, <1>1, PTL

-----------------------------------------------------------------------------
(* Refusals.  A refused handler has not been charged, and a handler that   *)
(* may still be charged has no refusal in the ledger: posts are numbered,  *)
(* so the entries of earlier posts are not those of this one.              *)

FreeOutcomes == {"unsupported_path", "refused", "budget_exceeded"}

\* The posts the ledger records as refused.
Refused == {ledger[i].attempt : i \in {j \in DOMAIN ledger : ledger[j].outcome \in FreeOutcomes}}

RefusalInv ==
    /\ Refused \intersect paid = {}
    /\ \A a \in Refused : a[2] <= posts[a[1]]
    /\ \A c \in Clients :
          /\ pc[c] \in NotCharged => Attempt(c) \notin Refused
          /\ pc[c] \in {"log", "append", "send"} /\ outcome[c] \in FreeOutcomes
                => Attempt(c) \notin paid

LEMMA RefusedAttempts ==
    ASSUME TypeOK
    PROVE  Refused \subseteq Attempts
<1>1. \A i \in DOMAIN ledger : ledger[i] \in EntryType
  BY DEF TypeOK
<1> QED
  BY <1>1 DEF Refused, EntryType

LEMMA RefusalClientStep ==
    ASSUME TypeOK, BudgetInv, RefusalInv, NEW c \in Clients,
           Generate(c) \/ ClientStep(c) \/ Disturbance(c)
    PROVE  RefusalInv'
<1> USE DEF clientVars, retryVars, handlerVars, entryVars, budgetVars, ledgerVars, ClientGoesTo
<1>0. pc \in [Clients -> HandlerPCs] /\ posts \in [Clients -> Nat]
  BY DEF TypeOK
<1>1. UNCHANGED <<Refused, paid, outcome>>
  BY DEF Generate, ClientStep, Disturbance, Post, RetryReply, ConnectFails, Retry,
         FinishOnReply, ParseFails, ClientTimesOut, Refused
<1>2. CASE \E k \in Kinds : Post(c, k)
  <2>1. posts' = [posts EXCEPT ![c] = @ + 1] /\ pc' = [pc EXCEPT ![c] = "recv"]
    BY <1>2 DEF Post
  <2>2. \A a \in Refused : a[1] \in Clients /\ a[2] \in Nat /\ a[2] <= posts[a[1]]
    BY RefusedAttempts DEF Attempts, RefusalInv
  <2>3. \A a \in Refused : a[2] <= posts'[a[1]]
    BY <2>1, <2>2, <1>0
  <2>4. Attempt(c)' \notin Refused
    BY <2>1, <2>2, <1>0 DEF Attempt
  <2>5. \A d \in Clients \ {c} : Attempt(d)' = Attempt(d) /\ pc'[d] = pc[d]
    BY <2>1, <1>0 DEF Attempt
  <2>6. pc'[c] = "recv"
    BY <2>1, <1>0
  <2> QED
    BY <1>1, <2>3, <2>4, <2>5, <2>6 DEF RefusalInv
<1>3. CASE ~\E k \in Kinds : Post(c, k)
  <2>1. UNCHANGED <<posts, pc>>
    BY <1>3
    DEF Generate, ClientStep, Disturbance, RetryReply, ConnectFails, Retry,
        FinishOnReply, ParseFails, ClientTimesOut
  <2> QED
    BY <1>1, <2>1 DEF RefusalInv, Attempt
<1> QED
  BY <1>2, <1>3

LEMMA AppendRefuses ==
    ASSUME TypeOK, NEW c \in Clients, AppendEntry(c)
    PROVE  Refused' = Refused \union (IF outcome[c] \in FreeOutcomes THEN {Attempt(c)} ELSE {})
<1>1. /\ ledger \in Seq(EntryType) /\ ledger' = Append(ledger, Entry(c))
      /\ Entry(c).attempt = Attempt(c) /\ Entry(c).outcome = outcome[c]
  BY DEF TypeOK, AppendEntry, Entry
<1>2. /\ DOMAIN ledger' = DOMAIN ledger \union {Len(ledger) + 1}
      /\ \A i \in DOMAIN ledger : ledger'[i] = ledger[i]
      /\ ledger'[Len(ledger) + 1] = Entry(c)
  BY <1>1
<1> QED
  BY <1>1, <1>2 DEF Refused

LEMMA RefusalHandlerStep ==
    ASSUME TypeOK, BudgetInv, RefusalInv, NEW c \in Clients, HandlerStep(c)
    PROVE  RefusalInv'
<1> USE DEF clientVars, handlerVars, entryVars, budgetVars, ledgerVars, HandlerGoesTo, Conclude
<1>0. /\ pc \in [Clients -> HandlerPCs] /\ posts \in [Clients -> Nat]
      /\ outcome \in [Clients -> Outcomes]
  BY DEF TypeOK
<1>p. UNCHANGED posts
  BY DEF HandlerStep, Admit, LockBudget, CheckAndCharge, UpstreamAnswers, UpstreamFails,
         ForwardRaises, LockLedger, AppendEntry, Respond, RespondToNobody, RespondRaises
<1>a. \A d \in Clients : Attempt(d)' = Attempt(d) /\ (d # c => Attempt(d) # Attempt(c))
  BY <1>p DEF Attempt
<1>o. \A d \in Clients \ {c} : pc'[d] = pc[d] /\ outcome'[d] = outcome[d]
  BY <1>0
  DEF HandlerStep, Admit, LockBudget, CheckAndCharge, UpstreamAnswers, UpstreamFails,
      ForwardRaises, LockLedger, AppendEntry, Respond, RespondToNobody, RespondRaises, EndThread
<1>1. CASE AppendEntry(c)
  <2>1. /\ pc[c] = "append" /\ pc'[c] = "send" /\ UNCHANGED <<paid, outcome>>
        /\ Refused' = Refused \union (IF outcome[c] \in FreeOutcomes THEN {Attempt(c)} ELSE {})
    BY <1>0, <1>1, AppendRefuses DEF AppendEntry
  <2>2. Attempt(c)[2] = posts[Attempt(c)[1]] /\ posts[c] \in Nat
    BY <1>0 DEF Attempt
  <2>3. \A a \in Refused' : a[2] <= posts[a[1]]
    BY <1>0, <2>1, <2>2 DEF RefusalInv, Attempt
  <2>4. Refused' \intersect paid' = {}
    BY <2>1 DEF RefusalInv
  <2>5. /\ pc'[c] \notin NotCharged
        /\ pc'[c] \in {"log", "append", "send"} /\ outcome'[c] \in FreeOutcomes
              => Attempt(c)' \notin paid'
    BY <1>a, <2>1 DEF RefusalInv, NotCharged
  <2>6. \A d \in Clients \ {c} :
          /\ pc'[d] \in NotCharged => Attempt(d)' \notin Refused'
          /\ pc'[d] \in {"log", "append", "send"} /\ outcome'[d] \in FreeOutcomes
                => Attempt(d)' \notin paid'
    BY <1>a, <1>o, <2>1 DEF RefusalInv
  <2> QED
    BY <1>p, <2>3, <2>4, <2>5, <2>6 DEF RefusalInv
<1>2. CASE ~AppendEntry(c)
  <2>1. UNCHANGED Refused
    BY <1>2
    DEF HandlerStep, Admit, LockBudget, CheckAndCharge, UpstreamAnswers, UpstreamFails,
        ForwardRaises, LockLedger, Respond, RespondToNobody, RespondRaises, Refused
  <2>2. \/ UNCHANGED paid
        \/ paid' = paid \union {Attempt(c)} /\ pc[c] = "charge" /\ pc'[c] = "forward"
    BY <1>0, <1>2
    DEF HandlerStep, Admit, LockBudget, CheckAndCharge, UpstreamAnswers, UpstreamFails,
        ForwardRaises, LockLedger, Respond, RespondToNobody, RespondRaises
  <2>3. Refused' \intersect paid' = {}
    BY <2>1, <2>2 DEF RefusalInv, NotCharged
  <2>4. pc'[c] \in NotCharged => pc[c] \in NotCharged
    <3>1. CASE Admit(c) \/ LockBudget(c) \/ CheckAndCharge(c)
      BY <3>1, <1>0 DEF Admit, LockBudget, CheckAndCharge, NotCharged
    <3>2. CASE UpstreamAnswers(c) \/ UpstreamFails(c) \/ ForwardRaises(c)
      BY <3>2, <1>0 DEF UpstreamAnswers, UpstreamFails, ForwardRaises, NotCharged
    <3>3. CASE LockLedger(c) \/ Respond(c) \/ RespondToNobody(c) \/ RespondRaises(c)
      BY <3>3, <1>0
      DEF LockLedger, Respond, RespondToNobody, RespondRaises, EndThread, NotCharged
    <3> QED
      BY <1>2, <3>1, <3>2, <3>3 DEF HandlerStep
  <2>5. pc'[c] \in {"log", "append", "send"} /\ outcome'[c] \in FreeOutcomes
          => Attempt(c) \notin paid /\ UNCHANGED paid
    <3>1. CASE Admit(c) \/ LockBudget(c) \/ CheckAndCharge(c)
      <4>1. pc[c] \in NotCharged => Attempt(c) \notin paid
        BY DEF BudgetInv
      <4> QED
        BY <3>1, <4>1, <1>0 DEF Admit, LockBudget, CheckAndCharge, NotCharged
    <3>2. CASE UpstreamAnswers(c) \/ UpstreamFails(c) \/ ForwardRaises(c)
      BY <3>2, <1>0 DEF UpstreamAnswers, UpstreamFails, ForwardRaises, FreeOutcomes
    <3>3. CASE LockLedger(c)
      BY <3>3, <1>0 DEF LockLedger, RefusalInv
    <3>4. CASE Respond(c) \/ RespondToNobody(c) \/ RespondRaises(c)
      BY <3>4, <1>0
      DEF Respond, RespondToNobody, RespondRaises, Kept, EndThread, FreeOutcomes, RefusalInv
    <3> QED
      BY <1>2, <3>1, <3>2, <3>3, <3>4 DEF HandlerStep
  <2>6. \A d \in Clients \ {c} :
          pc'[d] \in {"log", "append", "send"} /\ outcome'[d] \in FreeOutcomes
             => Attempt(d) \notin paid'
    BY <1>a, <1>o, <2>2 DEF RefusalInv
  <2>7. \A d \in Clients : pc'[d] \in NotCharged => Attempt(d) \notin Refused
    BY <1>o, <2>4 DEF RefusalInv
  <2>8. \A d \in Clients :
          pc'[d] \in {"log", "append", "send"} /\ outcome'[d] \in FreeOutcomes
             => Attempt(d) \notin paid'
    BY <2>5, <2>6
  <2> QED
    BY <1>a, <1>p, <2>1, <2>3, <2>7, <2>8 DEF RefusalInv
<1> QED
  BY <1>1, <1>2

\* A post the gateway refused, for its path, its policy headers or its budget,
\* was not charged and never will be, whatever else is under way and across
\* restarts (the early returns of do_POST; BudgetExceeded raised before the
\* counters are touched).
THEOREM GatewayRefusalsFree == Spec => []RefusalsAreFree
<1>1. Init => RefusalInv
  BY DEF Init, RefusalInv, Refused, NotCharged
<1>2. TypeOK /\ BudgetInv /\ RefusalInv /\ [Next]_vars => RefusalInv'
  <2>1. RefusalInv /\ UNCHANGED vars => RefusalInv'
    BY DEF vars, clientVars, retryVars, handlerVars, entryVars, budgetVars, ledgerVars,
           RefusalInv, Refused, Attempt
  <2>2. RefusalInv /\ Crash => RefusalInv'
    BY DEF Crash, RefusalInv, Refused, NotCharged
  <2> QED
    BY <2>1, <2>2, RefusalClientStep, RefusalHandlerStep DEF Next
<1>3. RefusalInv => RefusalsAreFree
  BY DEF RefusalInv, Refused, RefusalsAreFree, FreeOutcomes
<1> QED
  BY <1>1, <1>2, <1>3, GatewayTypeCorrect, BudgetInvariant, PTL DEF Spec

-----------------------------------------------------------------------------
(* Upstream calls.  Every post of a client makes at most ProxyRetries + 1. *)

CallsFor(n) == n * (ProxyRetries + 1)

CallsInv ==
    \A c \in Clients :
        /\ cpc[c] \in {"idle", "post", "got"} => pc[c] = "idle"
        /\ pc[c] \in NotCharged \union {"idle"} => tries[c] = 0
        /\ pc[c] \in NotCharged => calls[c] + ProxyRetries + 1 <= CallsFor(posts[c])
        /\ pc[c] = "forward" => /\ tries[c] <= ProxyRetries
                               /\ calls[c] + ProxyRetries + 1 <= CallsFor(posts[c]) + tries[c]
        /\ calls[c] <= CallsFor(posts[c])

LEMMA CallsForMore ==
    ASSUME NEW n \in Nat
    PROVE  /\ CallsFor(n) \in Nat
           /\ CallsFor(n + 1) = CallsFor(n) + ProxyRetries + 1
           /\ \A m \in Nat : n <= m => CallsFor(n) <= CallsFor(m)
<1>0. ProxyRetries \in Nat
  BY ConstantsAssumption
<1>1. n * (ProxyRetries + 1) \in Nat
  BY <1>0, SMT
<1>2. (n + 1) * (ProxyRetries + 1) = n * (ProxyRetries + 1) + (ProxyRetries + 1)
  BY <1>0, SMT
<1>3. \A m \in Nat : n <= m => n * (ProxyRetries + 1) <= m * (ProxyRetries + 1)
  BY <1>0, SMT
<1> QED
  BY <1>0, <1>1, <1>2, <1>3 DEF CallsFor

LEMMA CallsClientStep ==
    ASSUME TypeOK, CallsInv, NEW c \in Clients,
           Generate(c) \/ ClientStep(c) \/ Disturbance(c)
    PROVE  CallsInv'
<1> USE DEF clientVars, retryVars, handlerVars, entryVars, ClientGoesTo, NotCharged
<1>0. /\ posts \in [Clients -> Nat] /\ pc \in [Clients -> HandlerPCs]
      /\ cpc \in [Clients -> ClientPCs] /\ calls \in [Clients -> Nat]
      /\ ProxyRetries \in Nat
  BY ConstantsAssumption DEF TypeOK
<1>1. UNCHANGED <<calls, tries>>
  BY DEF Generate, ClientStep, Disturbance, Post, RetryReply, ConnectFails, Retry,
         FinishOnReply, ParseFails, ClientTimesOut
<1>2. CASE \E k \in Kinds : Post(c, k)
  <2>1. /\ cpc[c] = "post" /\ posts' = [posts EXCEPT ![c] = @ + 1]
        /\ cpc' = [cpc EXCEPT ![c] = "wait"] /\ pc' = [pc EXCEPT ![c] = "recv"]
    BY <1>2 DEF Post
  <2>2. /\ calls[c] <= CallsFor(posts[c]) /\ tries[c] = 0
        /\ CallsFor(posts[c]) \in Nat
        /\ CallsFor(posts[c] + 1) = CallsFor(posts[c]) + ProxyRetries + 1
    BY <1>0, <2>1, CallsForMore DEF CallsInv
  <2> QED
    BY <1>0, <1>1, <2>1, <2>2 DEF CallsInv
<1>3. CASE ~\E k \in Kinds : Post(c, k)
  <2>1. UNCHANGED <<posts, pc>>
    BY <1>3
    DEF Generate, ClientStep, Disturbance, RetryReply, ConnectFails, Retry,
        FinishOnReply, ParseFails, ClientTimesOut
  <2>2. /\ \A d \in Clients \ {c} : cpc'[d] = cpc[d]
        /\ cpc'[c] \in {"idle", "post", "got"} => cpc[c] \in {"idle", "post", "got"}
    BY <1>0, <1>3
    DEF Generate, ClientStep, Disturbance, RetryReply, ConnectFails, Retry,
        FinishOnReply, ParseFails, ClientTimesOut
  <2> QED
    BY <1>1, <2>1, <2>2 DEF CallsInv
<1> QED
  BY <1>2, <1>3

LEMMA CallsHandlerStep ==
    ASSUME TypeOK, CallsInv, NEW c \in Clients, HandlerStep(c)
    PROVE  CallsInv'
<1> USE DEF clientVars, handlerVars, entryVars, HandlerGoesTo, Conclude, NotCharged
<1>0. /\ posts \in [Clients -> Nat] /\ pc \in [Clients -> HandlerPCs]
      /\ cpc \in [Clients -> ClientPCs] /\ calls \in [Clients -> Nat]
      /\ tries \in [Clients -> Nat] /\ ProxyRetries \in Nat
      /\ CallsFor(posts[c]) \in Nat
  BY ConstantsAssumption, CallsForMore DEF TypeOK
<1>1. CASE UpstreamAnswers(c) \/ ForwardRaises(c)
  <2>1. /\ pc[c] = "forward" /\ calls' = [calls EXCEPT ![c] = @ + 1]
        /\ pc' = [pc EXCEPT ![c] = "log"] /\ UNCHANGED <<cpc, posts, tries>>
    BY <1>1 DEF UpstreamAnswers, ForwardRaises
  <2> QED
    BY <1>0, <2>1 DEF CallsInv
<1>2. CASE UpstreamFails(c)
  <2>1. /\ pc[c] = "forward" /\ calls' = [calls EXCEPT ![c] = @ + 1]
        /\ UNCHANGED <<cpc, posts>>
        /\ \/ tries[c] < ProxyRetries /\ tries' = [tries EXCEPT ![c] = @ + 1] /\ UNCHANGED pc
           \/ UNCHANGED tries /\ pc' = [pc EXCEPT ![c] = "log"]
    BY <1>2 DEF UpstreamFails, MayRetry
  <2>2. /\ cpc[c] \notin {"idle", "post", "got"} /\ tries[c] <= ProxyRetries
        /\ calls[c] + ProxyRetries + 1 <= CallsFor(posts[c]) + tries[c]
    BY <2>1 DEF CallsInv
  <2>3. CASE UNCHANGED pc
    BY <1>0, <2>1, <2>2, <2>3 DEF CallsInv
  <2>4. CASE pc' = [pc EXCEPT ![c] = "log"] /\ UNCHANGED tries
    BY <1>0, <2>1, <2>2, <2>4 DEF CallsInv
  <2> QED
    BY <2>1, <2>3, <2>4
<1>3. CASE CheckAndCharge(c)
  <2>1. /\ pc[c] = "charge" /\ UNCHANGED <<cpc, posts, tries, calls>>
        /\ pc' = [pc EXCEPT ![c] = "forward"] \/ pc' = [pc EXCEPT ![c] = "log"]
    BY <1>3 DEF CheckAndCharge
  <2> QED
    BY <1>0, <2>1 DEF CallsInv
<1>4. CASE Admit(c) \/ LockBudget(c) \/ LockLedger(c) \/ AppendEntry(c) \/ RespondRaises(c)
           \/ RespondToNobody(c) \/ Respond(c)
  <2>1. /\ UNCHANGED <<posts, calls>>
        /\ \A d \in Clients \ {c} : pc'[d] = pc[d] /\ tries'[d] = tries[d] /\ cpc'[d] = cpc[d]
    BY <1>0, <1>4
    DEF Admit, LockBudget, LockLedger, AppendEntry, RespondRaises, RespondToNobody, Respond,
        EndThread, ClientGoesTo
  <2>2. \/ /\ pc[c] # "idle" /\ UNCHANGED <<cpc, tries>>
           /\ pc'[c] \in NotCharged => pc[c] \in NotCharged
           /\ pc'[c] \notin {"idle", "forward"}
        \/ pc'[c] = "idle" /\ tries'[c] = 0
    <3>1. CASE Admit(c) \/ LockBudget(c) \/ LockLedger(c) \/ AppendEntry(c)
      BY <1>0, <3>1 DEF Admit, LockBudget, LockLedger, AppendEntry
    <3>2. CASE Respond(c) \/ RespondToNobody(c)
      BY <1>0, <3>2 DEF Respond, RespondToNobody, EndThread
    <3>3. CASE RespondRaises(c)
      BY <1>0, <3>3 DEF RespondRaises, EndThread
    <3> QED
      BY <1>4, <3>1, <3>2, <3>3
  <2> QED
    BY <2>1, <2>2 DEF CallsInv
<1> QED
  BY <1>1, <1>2, <1>3, <1>4 DEF HandlerStep

\* The retries of the client, of its parser and of the proxy multiply but stay
\* bounded: one generate() makes at most MaxPosts posts, each of which reaches
\* the upstream at most ProxyRetries + 1 times.
THEOREM GatewayCallsBounded == Spec => []CallsBounded
<1>1. Init => CallsInv
  <2> SUFFICES ASSUME Init PROVE CallsInv
    OBVIOUS
  <2>1. CallsFor(0) \in Nat
    BY CallsForMore
  <2> QED
    BY <2>1 DEF Init, CallsInv, NotCharged
<1>2. TypeOK /\ CallsInv /\ [Next]_vars => CallsInv'
  <2>1. CallsInv /\ UNCHANGED vars => CallsInv'
    BY DEF vars, clientVars, retryVars, handlerVars, entryVars, CallsInv
  <2>2. CallsInv /\ Crash => CallsInv'
    BY DEF Crash, CallsInv, NotCharged
  <2> QED
    BY <2>1, <2>2, CallsClientStep, CallsHandlerStep DEF Next
<1>3. TypeOK /\ PostsInv /\ CallsInv => CallsBounded
  <2> SUFFICES ASSUME TypeOK, PostsInv, CallsInv, NEW c \in Clients
               PROVE  calls[c] <= MaxPosts * (ProxyRetries + 1)
    BY DEF CallsBounded
  <2>1. posts[c] \in Nat /\ MaxPosts \in Nat /\ posts[c] <= MaxPosts
    <3>1. posts[c] \in 0 .. MaxPosts
      BY PostsInRange
    <3>2. MaxPosts \in Nat
      BY ConstantsAssumption, SMT DEF MaxPosts
    <3> QED
      BY <3>1, <3>2
  <2>2. CallsFor(posts[c]) <= CallsFor(MaxPosts) /\ calls[c] <= CallsFor(posts[c])
    BY <2>1, CallsForMore DEF CallsInv
  <2>3. CallsFor(posts[c]) \in Nat /\ CallsFor(MaxPosts) \in Nat /\ calls[c] \in Nat
    BY <2>1, CallsForMore DEF TypeOK
  <2> QED
    BY <2>2, <2>3 DEF CallsFor
<1> QED
  BY <1>1, <1>2, <1>3, GatewayTypeCorrect, PTL DEF Spec

-----------------------------------------------------------------------------
(* The hash chain.  A handler between reading the last hash and writing    *)
(* its line holds the lock, and nobody has written since.                  *)

ChainInv ==
    /\ ChainIntact
    /\ \A c \in Clients :
          pc[c] = "append" => ledgerLock = c /\ prev[c] = Len(ledger)

LEMMA ChainStep ==
    ASSUME TypeOK, ChainInv, [Next]_vars
    PROVE  ChainInv'
<1> USE DEF ChainInv, ChainIntact, Verifies, vars, clientVars, retryVars, handlerVars, entryVars,
            budgetVars, ledgerVars, HandlerGoesTo, Conclude
<1>0. /\ pc \in [Clients -> HandlerPCs] /\ prev \in [Clients -> Nat] /\ NoOne \notin Clients
      /\ ledger \in Seq(EntryType)
  BY ConstantsAssumption DEF TypeOK
<1>1. CASE UNCHANGED vars
  BY <1>1
<1>2. CASE Crash
  BY <1>2 DEF Crash
<1>3. ASSUME NEW c \in Clients, Generate(c) \/ ClientStep(c) \/ Disturbance(c)
      PROVE  ChainInv'
  <2>1. UNCHANGED <<ledgerVars, prev>> /\ (pc' = pc \/ pc' = [pc EXCEPT ![c] = "recv"])
    BY <1>3 DEF Generate, ClientStep, Disturbance, Post, RetryReply, ConnectFails, Retry,
                FinishOnReply, ParseFails, ClientTimesOut
  <2> QED
    BY <2>1, <1>0
<1>4. ASSUME NEW c \in Clients, HandlerStep(c)
      PROVE  ChainInv'
  <2>1. CASE LockLedger(c)
    BY <2>1, <1>0 DEF LockLedger, LastHash, LedgerFree
  <2>2. CASE AppendEntry(c)
    <3>1. /\ ledger' = Append(ledger, Entry(c)) /\ Entry(c).prev = Len(ledger)
          /\ pc' = [pc EXCEPT ![c] = "send"]
          /\ pc[c] = "append" /\ UNCHANGED prev
      BY <2>2 DEF AppendEntry, Entry
    <3>2. /\ DOMAIN ledger' = 1 .. Len(ledger) + 1
          /\ \A i \in DOMAIN ledger : ledger'[i] = ledger[i]
          /\ ledger'[Len(ledger) + 1] = Entry(c)
      BY <3>1, <1>0
    <3>3. Verifies'
      BY <3>1, <3>2, <1>0
    <3>4. \A d \in Clients : pc'[d] # "append"
      BY <3>1, <1>0
    <3> QED
      BY <3>3, <3>4
  <2>3. CASE ~LockLedger(c) /\ ~AppendEntry(c)
    <3>1. UNCHANGED ledgerVars
      BY <1>4, <2>3 DEF HandlerStep, Admit, LockBudget, CheckAndCharge, UpstreamAnswers,
             UpstreamFails, ForwardRaises, Respond, RespondToNobody, RespondRaises
    <3>2. /\ pc[c] # "append"
          /\ \/ UNCHANGED pc
             \/ HandlerGoesTo(c, "idle") \/ HandlerGoesTo(c, "budget") \/ HandlerGoesTo(c, "charge")
             \/ HandlerGoesTo(c, "forward") \/ HandlerGoesTo(c, "log")
      <4>1. CASE Admit(c) \/ LockBudget(c) \/ CheckAndCharge(c)
        BY <4>1 DEF Admit, LockBudget, CheckAndCharge
      <4>2. CASE UpstreamAnswers(c) \/ UpstreamFails(c) \/ ForwardRaises(c)
        BY <4>2 DEF UpstreamAnswers, UpstreamFails, ForwardRaises
      <4>3. CASE Respond(c) \/ RespondToNobody(c) \/ RespondRaises(c)
        BY <4>3 DEF Respond, RespondToNobody, RespondRaises, EndThread
      <4> QED
        BY <1>4, <2>3, <4>1, <4>2, <4>3 DEF HandlerStep
    <3>3. \A d \in Clients \ {c} : prev'[d] = prev[d]
      BY <1>4, <2>3, <1>0
      DEF HandlerStep, Admit, LockBudget, CheckAndCharge, UpstreamAnswers, UpstreamFails,
          ForwardRaises, Respond, RespondToNobody, RespondRaises, EndThread
    <3> QED
      BY <3>1, <3>2, <3>3, <1>0
  <2> QED
    BY <2>1, <2>2, <2>3
<1> QED
  BY <1>1, <1>2, <1>3, <1>4 DEF Next

\* The hash chain of the ledger is intact in every reachable state: any number
\* of handler threads, any interleaving, any number of restarts.
THEOREM GatewayChainIntact == Spec => []ChainIntact
<1>1. Init => ChainInv
  BY DEF Init, ChainInv, ChainIntact, Verifies
<1>2. TypeOK /\ ChainInv /\ [Next]_vars => ChainInv'
  BY ChainStep
<1>3. ChainInv => ChainIntact
  BY DEF ChainInv
<1> QED
  BY <1>1, <1>2, <1>3, GatewayTypeCorrect, PTL DEF Spec

-----------------------------------------------------------------------------
(* The gateway is a ledgered service.                                      *)

Recorded == {<<ledger[i].attempt, ledger[i].outcome>> : i \in DOMAIN ledger}

\* What was answered is recorded, and what is about to be answered; the post a
\* client waits for is not answered yet.
RecordInv ==
    /\ observed \subseteq Recorded
    /\ \A c \in Clients : pc[c] = "send" => <<Attempt(c), outcome[c]>> \in Recorded
    /\ \A c \in Clients, n \in Nat, o \in Outcomes :
          <<<<c, n>>, o>> \in observed => n <= posts[c] /\ (cpc[c] = "wait" => n < posts[c])

LEMMA AppendRecords ==
    ASSUME TypeOK, NEW c \in Clients, AppendEntry(c)
    PROVE  Recorded' = Recorded \union {<<Attempt(c), outcome[c]>>}
<1>1. /\ ledger \in Seq(EntryType) /\ ledger' = Append(ledger, Entry(c))
      /\ Entry(c).attempt = Attempt(c) /\ Entry(c).outcome = outcome[c]
  BY DEF TypeOK, AppendEntry, Entry
<1>2. /\ DOMAIN ledger' = DOMAIN ledger \union {Len(ledger) + 1}
      /\ \A i \in DOMAIN ledger : ledger'[i] = ledger[i]
      /\ ledger'[Len(ledger) + 1] = Entry(c)
  BY <1>1
<1> QED
  BY <1>1, <1>2 DEF Recorded

LEMMA RecordClientStep ==
    ASSUME TypeOK, PostsInv, RecordInv, NEW c \in Clients,
           Generate(c) \/ ClientStep(c) \/ Disturbance(c)
    PROVE  RecordInv' /\ UNCHANGED <<Recorded, observed>>
<1> USE DEF clientVars, retryVars, handlerVars, entryVars, budgetVars, ledgerVars, ClientGoesTo
<1>0. /\ posts \in [Clients -> Nat] /\ cpc \in [Clients -> ClientPCs]
      /\ pc \in [Clients -> HandlerPCs]
  BY DEF TypeOK
<1>1. UNCHANGED <<Recorded, observed, outcome>>
  BY DEF Generate, ClientStep, Disturbance, Post, RetryReply, ConnectFails, Retry,
         FinishOnReply, ParseFails, ClientTimesOut, Recorded
<1>2. CASE \E k \in Kinds : Post(c, k)
  <2>1. /\ posts' = [posts EXCEPT ![c] = @ + 1] /\ cpc' = [cpc EXCEPT ![c] = "wait"]
        /\ pc' = [pc EXCEPT ![c] = "recv"]
    BY <1>2 DEF Post
  <2>2. \A d \in Clients : pc'[d] = "send" => pc[d] = "send" /\ Attempt(d)' = Attempt(d)
    BY <2>1, <1>0 DEF Attempt
  <2> QED
    BY <2>1, <2>2, <1>0, <1>1 DEF RecordInv
<1>3. CASE ~\E k \in Kinds : Post(c, k)
  <2>1. /\ UNCHANGED <<posts, pc>>
        /\ \A d \in Clients : cpc'[d] = "wait" => cpc[d] = "wait"
    BY <1>3, <1>0
    DEF Generate, ClientStep, Disturbance, RetryReply, ConnectFails, Retry,
        FinishOnReply, ParseFails, ClientTimesOut
  <2> QED
    BY <2>1, <1>0, <1>1 DEF RecordInv, Attempt
<1> QED
  BY <1>1, <1>2, <1>3

LEMMA RecordHandlerStep ==
    ASSUME TypeOK, PostsInv, RecordInv, NEW c \in Clients, HandlerStep(c)
    PROVE  RecordInv' /\ [Service!Next]_<<Recorded, observed>>
<1> USE DEF clientVars, retryVars, handlerVars, entryVars, budgetVars, ledgerVars,
            HandlerGoesTo, ClientGoesTo
<1>0. /\ posts \in [Clients -> Nat] /\ cpc \in [Clients -> ClientPCs]
      /\ pc \in [Clients -> HandlerPCs] /\ outcome \in [Clients -> Outcomes]
      /\ Attempt(c) \in Attempts
  BY PostsInRange DEF TypeOK
<1>1. CASE AppendEntry(c)
  <2>1. Recorded' = Recorded \union {<<Attempt(c), outcome[c]>>}
    BY <1>1, AppendRecords
  <2>2. UNCHANGED <<clientVars, outcome>> /\ pc' = [pc EXCEPT ![c] = "send"]
    BY <1>1 DEF AppendEntry
  <2>3. RecordInv'
    BY <2>1, <2>2, <1>0 DEF RecordInv, Attempt
  <2>4. /\ Attempt(c) \in Attempts /\ outcome[c] \in Outcomes
        /\ Recorded' = Recorded \union {<<Attempt(c), outcome[c]>>} /\ UNCHANGED observed
    BY <2>1, <2>2, <1>0
  <2>5. \E a \in Attempts, o \in Outcomes : Service!Record(a, o)
    BY <2>4 DEF Service!Record, Recorded
  <2>6. Service!Next
    BY <2>5 DEF Service!Next
  <2> QED
    BY <2>3, <2>6
<1>2. CASE Respond(c)
  <2>1. /\ observed' = observed \union {<<Attempt(c), outcome[c]>>}
        /\ pc[c] = "send" /\ cpc[c] = "wait"
        /\ pc' = [pc EXCEPT ![c] = "idle"] /\ cpc' = [cpc EXCEPT ![c] = "got"]
        /\ outcome' = [outcome EXCEPT ![c] = "ok"]
        /\ UNCHANGED <<posts, ledger, Recorded>>
    BY <1>2 DEF Respond, EndThread, Recorded
  <2>2. \A o \in Outcomes : <<Attempt(c), o>> \notin observed
    BY <2>1, <1>0 DEF RecordInv, Attempt
  <2>3. RecordInv'
    <3>1. observed' \subseteq Recorded'
      BY <2>1 DEF RecordInv
    <3>2. \A d \in Clients : pc'[d] = "send" => <<Attempt(d)', outcome'[d]>> \in Recorded'
      BY <2>1, <1>0 DEF RecordInv, Attempt
    <3>3. \A d \in Clients, n \in Nat, o \in Outcomes :
             <<<<d, n>>, o>> \in observed'
                => n <= posts'[d] /\ (cpc'[d] = "wait" => n < posts'[d])
      BY <2>1, <1>0 DEF RecordInv, Attempt
    <3> QED
      BY <3>1, <3>2, <3>3 DEF RecordInv
  <2>4. Service!Answer(Attempt(c), outcome[c])
    BY <2>1, <2>2 DEF Service!Answer, RecordInv, Recorded
  <2> QED
    BY <2>3, <2>4, <1>0 DEF Service!Next
<1>3. CASE ~AppendEntry(c) /\ ~Respond(c)
  <2>1. UNCHANGED <<clientVars, ledger, Recorded>>
    BY <1>3
    DEF HandlerStep, Admit, LockBudget, CheckAndCharge, UpstreamAnswers, UpstreamFails,
        ForwardRaises, LockLedger, RespondToNobody, RespondRaises, Recorded
  <2>2. \A d \in Clients : pc'[d] = "send" => pc[d] = "send" /\ outcome'[d] = outcome[d]
    <3>1. CASE Admit(c) \/ LockBudget(c) \/ CheckAndCharge(c)
      BY <3>1, <1>0 DEF Admit, LockBudget, CheckAndCharge, Conclude
    <3>2. CASE UpstreamAnswers(c) \/ UpstreamFails(c) \/ ForwardRaises(c)
      BY <3>2, <1>0 DEF UpstreamAnswers, UpstreamFails, ForwardRaises, Conclude
    <3>3. CASE LockLedger(c) \/ RespondToNobody(c) \/ RespondRaises(c)
      BY <3>3, <1>0 DEF LockLedger, RespondToNobody, RespondRaises, EndThread, Conclude
    <3> QED
      BY <1>3, <3>1, <3>2, <3>3 DEF HandlerStep
  <2> QED
    BY <2>1, <2>2 DEF RecordInv, Attempt
<1> QED
  BY <1>1, <1>2, <1>3

LEMMA RecordCrash ==
    ASSUME TypeOK, RecordInv, Crash
    PROVE  RecordInv' /\ UNCHANGED <<Recorded, observed>>
  BY DEF Crash, RecordInv, Recorded, TypeOK, retryVars

\* The gateway implements the ledgered service: whoever receives a response,
\* it is in the ledger by then, no post is answered twice, and a restart
\* withdraws nothing (_send).
THEOREM GatewayIsLedgeredService == Spec => LedgeredServiceSpec
<1>1. Init => RecordInv /\ Service!Init
  BY DEF Init, RecordInv, Recorded, Service!Init
<1>2. TypeOK /\ PostsInv /\ RecordInv /\ [Next]_vars
         => RecordInv' /\ [Service!Next]_<<Recorded, observed>>
  <2>1. RecordInv /\ UNCHANGED vars => RecordInv' /\ UNCHANGED <<Recorded, observed>>
    BY DEF vars, clientVars, retryVars, handlerVars, entryVars, ledgerVars, RecordInv,
           Recorded, Attempt
  <2> QED
    BY <2>1, RecordClientStep, RecordHandlerStep, RecordCrash DEF Next
<1>3. Service!vars = <<Recorded, observed>>
  BY DEF Service!vars, Recorded
<1>4. [Service!Next]_<<Recorded, observed>> => [Service!Next]_(Service!vars)
  BY <1>3 DEF Service!vars, Recorded
<1> QED
  BY <1>1, <1>2, <1>4, GatewayTypeCorrect, PTL DEF Spec, LedgeredServiceSpec, Service!Spec
=============================================================================
