------------------------ MODULE ProviderAdaptersProofs ------------------------
(***************************************************************************)
(* What holds of ProviderAdapters for every pack, every product and every  *)
(* number of failures, identities and objects.  The operations' effects    *)
(* are the lemmas of AdaptersProofs; here is the invariant that carries    *)
(* them from call to call.                                                 *)
(***************************************************************************)
EXTENDS ProviderAdapters, AdaptersProofs

-----------------------------------------------------------------------------
(* The object is one whose deletions are followed.                         *)
Tracked ==
    /\ product \in Mem0s => a.faults = 0
    /\ product = "mem0-native" => lives = 1 /\ ~imported

(* What the directory and the object carry from call to call.  A Memory of *)
(* Mem0 that is not open has stored nothing, as long as nothing failed; an *)
(* export of it has a key for each of its events.                          *)
OpenBeforeStored ==
    /\ ~closed
    /\ product \in Mem0s => a.faults = 0
    /\ product = "mem0-native" => lives = 1
    => Shut(product, a)

FirstUse == lives = 0 => a.store = {} /\ closed

SavedKeys ==
    /\ product = "mem0" /\ a.faults = 0 /\ saved.kind = "export"
    => saved.keys = {} \/ saved.events \subseteq Of(saved.keys)

Carried ==
    /\ product \in Products /\ a \in AdapterStates /\ closed \in BOOLEAN
    /\ lives \in 0 .. MaxLives
    /\ saved.kind \in {"none", "snapshot", "export"}
    /\ saved.events \in SUBSET Events /\ saved.keys \in SUBSET Memories
    /\ Shaped(product, a)
    /\ ~closed => Tidy(product, a) /\ Unopened(product, a)
    /\ OpenBeforeStored /\ FirstUse /\ SavedKeys

(* What the caller was told, and what it was answered.                     *)
Mirrored == ~closed /\ product \notin Fixed => a.listed = given

Forgotten ==
    ~closed /\ Tracked => Keyed(product, a) /\ deleted \cap Held(product, a) = {}

Told ==
    /\ given \in SUBSET Events /\ deleted \in SUBSET Events /\ found \in SUBSET Events
    /\ asked \in SUBSET Queries /\ imported \in BOOLEAN
    /\ Mirrored /\ Forgotten /\ AnswersAreCurrent /\ DeletedNotFound

Inv == Carried /\ Told

(* What Kept and Imported have in common.                                  *)
Passed(p, s, r) ==
    /\ Sound(s, r)
    /\ Shaped(p, s) => Shaped(p, r.a)
    /\ ~r.raised /\ Tidy(p, s) => Tidy(p, r.a)
    /\ ~r.raised /\ Unopened(p, s) => Unopened(p, r.a)
    /\ ~r.raised /\ r.a.faults = s.faults /\ Shut(p, s) => Shut(p, r.a)

LEMMA KeptPassed ==
    \A p, s, r : Kept(p, s, r) => Passed(p, s, r)
  BY DEF Kept, Passed

LEMMA ImportedPassed ==
    \A p, s, data, r : Imported(p, s, data, r) => Passed(p, s, r)
  BY DEF Imported, Passed

LEMMA WithoutMem0 ==
    ASSUME NEW p, p \notin Mem0s, NEW s
    PROVE  Keyed(p, s) /\ Shut(p, s)
  BY DEF Keyed, Shut, Mem0s

LEMMA InvReady ==
    ASSUME Carried
    PROVE  product \in AllProducts /\ a \in Wide /\ Shaped(product, a) /\ a.faults \in Nat
  BY ProductsAssumption, WithinBounds DEF Carried, Wide

LEMMA InvInit ==
    Init => Inv
<1> SUFFICES ASSUME Init PROVE Inv
  OBVIOUS
<1>1. a = Blank /\ a \in AdapterStates /\ a.store = {}
  BY AdapterAssumption DEF Init, Blank, AdapterStates, Homes
<1>2. Shaped(product, a)
  BY <1>1, FS_EmptySet DEF Shaped
<1>3. 0 \in 0 .. MaxLives
  BY LivesAssumption
<1>4. Carried
  BY <1>1, <1>2, <1>3 DEF Init, Carried, OpenBeforeStored, FirstUse, SavedKeys
<1>5. Told
  BY DEF Init, Told, Mirrored, Forgotten, AnswersAreCurrent, DeletedNotFound
<1> QED BY <1>4, <1>5 DEF Inv

(* A call on an object carries what an object carries.                     *)
LEMMA CarriedStep ==
    ASSUME Inv, ~closed, NEW r, Outcome(r), Passed(product, a, r),
           UNCHANGED <<product, lives, saved>>
    PROVE  Carried' /\ a'.faults >= a.faults /\ a' = r.a /\ a' \in Wide
<1>0. /\ Carried /\ a' = r.a /\ closed' = r.raised /\ Within(r.a)
      /\ product' = product /\ lives' = lives /\ saved' = saved
  BY DEF Inv, Outcome
<1>1. /\ a \in Wide /\ Shaped(product, a) /\ a.faults \in Nat
      /\ r.a \in Wide /\ r.a.faults >= a.faults /\ closed' \in BOOLEAN
  BY <1>0, InvReady DEF Passed, Sound
<1>2. a' \in AdapterStates
  BY <1>0, <1>1, WithinBounds
<1>3. Shaped(product, a') /\ (~closed' => Tidy(product, a') /\ Unopened(product, a'))
  BY <1>0, <1>1 DEF Carried, Passed
<1>4. OpenBeforeStored'
  <2> SUFFICES ASSUME ~closed', product \in Mem0s => a'.faults = 0,
                      product = "mem0-native" => lives = 1
               PROVE  Shut(product, a')
    BY <1>0 DEF OpenBeforeStored
  <2>1. CASE product \notin Mem0s
    BY <2>1, WithoutMem0
  <2>2. CASE product \in Mem0s
    <3>1. a.faults = 0 /\ r.a.faults = a.faults
      BY <1>0, <1>1, <2>2 DEF Wide
    <3>2. Shut(product, a)
      BY <1>0, <3>1 DEF Carried, OpenBeforeStored
    <3> QED BY <1>0, <3>1, <3>2 DEF Passed
  <2> QED BY <2>1, <2>2
<1>5. FirstUse'
  BY <1>0 DEF Carried, FirstUse
<1>6. SavedKeys'
  <2>1. a'.faults = 0 => a.faults = 0
    BY <1>0, <1>1 DEF Wide
  <2> QED BY <1>0, <2>1 DEF Carried, SavedKeys
<1>7. Carried'
  BY <1>0, <1>1, <1>2, <1>3, <1>4, <1>5, <1>6 DEF Carried
<1> QED BY <1>0, <1>1, <1>7

(* A call that does not begin the following of deletions anew.             *)
LEMMA FollowedStep ==
    ASSUME Inv, ~closed, NEW r, Outcome(r), Kept(product, a, r),
           UNCHANGED <<product, lives, saved, imported>>, ~closed', Tracked'
    PROVE  /\ product \in Mem0s => r.a.faults = a.faults
           /\ Keyed(product, a) /\ Keyed(product, a')
           /\ deleted \cap Held(product, a) = {}
<1>0. /\ a' = r.a /\ closed' = r.raised /\ product' = product /\ lives' = lives
      /\ imported' = imported /\ Carried /\ Told
  BY DEF Inv, Outcome
<1>1. a'.faults >= a.faults /\ a' \in Wide /\ a.faults \in Nat
  BY <1>0, InvReady DEF Kept, Sound
<1>2. product \in Mem0s => a.faults = 0 /\ r.a.faults = a.faults
  BY <1>0, <1>1 DEF Tracked, Wide
<1>3. Tracked
  BY <1>0, <1>2 DEF Tracked
<1>4. Keyed(product, a) /\ deleted \cap Held(product, a) = {}
  BY <1>0, <1>3 DEF Told, Forgotten
<1>5. Keyed(product, a')
  <2>1. CASE product \notin Mem0s
    BY <2>1, WithoutMem0
  <2>2. CASE product \in Mem0s
    <3>1. Shut(product, a)
      BY <1>0, <1>2, <1>3, <2>2 DEF Carried, OpenBeforeStored, Tracked
    <3> QED BY <1>0, <1>2, <1>4, <2>2, <3>1 DEF Kept
  <2> QED BY <2>1, <2>2
<1> QED BY <1>2, <1>4, <1>5

(* Without an answer there is nothing wrong in it.                         *)
LEMMA NothingFound ==
    ASSUME NoAnswer, given' \in SUBSET Events, deleted' \in SUBSET Events,
           imported' \in BOOLEAN, Mirrored', Forgotten'
    PROVE  Told'
  BY DEF NoAnswer, Told, AnswersAreCurrent, DeletedNotFound

(* The store of a new object is empty, or will be when its Memory opens.   *)
LEMMA NewStep ==
    ASSUME Inv, New
    PROVE  Inv' /\ (a'.faults = a.faults /\ product # "gbrain-ollama" => ~closed')
<1>0. Carried /\ product \in AllProducts /\ a \in Wide /\ Shaped(product, a) /\ a.faults \in Nat
  BY InvReady DEF Inv
<1>1. PICK r \in NewOf(product, a) : Outcome(r)
  BY DEF New
<1>2. /\ a' = r.a /\ closed' = r.raised /\ Within(r.a) /\ product' = product
      /\ saved' = saved /\ lives' = lives + 1 /\ lives < MaxLives /\ lives \in 0 .. MaxLives
      /\ given' = {} /\ deleted' = {} /\ imported' = FALSE /\ NoAnswer
  BY <1>0, <1>1 DEF New, Outcome, Carried
<1>3. Built(product, a, r)
  BY <1>0, BuiltOf
<1>4. /\ r.a \in Wide /\ r.a.faults >= a.faults /\ closed' \in BOOLEAN
      /\ Shaped(product, r.a)
  BY <1>0, <1>2, <1>3 DEF Built, Sound
<1>5. a' \in AdapterStates /\ lives' \in 0 .. MaxLives /\ lives' # 0 /\ (lives' = 1 => lives = 0)
  BY <1>2, <1>4, WithinBounds, LivesAssumption
<1>6. ~closed' => Tidy(product, a') /\ Unopened(product, a') /\ a'.listed = {}
  BY <1>2, <1>3 DEF Built, Unopened
<1>7. product = "mem0-native" /\ lives' = 1 => Shut(product, a') /\ Keyed(product, a')
  BY <1>0, <1>2, <1>3, <1>5 DEF Built, Carried, FirstUse
<1>8. product # "mem0-native" => Shut(product, a')
  BY DEF Shut
<1>9. product # "mem0-native" => Keyed(product, a')
  <2>1. product = "mem0" => Keyed(product, a')
    BY <1>2, <1>3 DEF Built
  <2> QED BY <2>1, WithoutMem0 DEF Mem0s
<1>10. OpenBeforeStored'
  BY <1>2, <1>7, <1>8 DEF OpenBeforeStored
<1>11. FirstUse'
  BY <1>5 DEF FirstUse
<1>12. SavedKeys'
  <2>1. a'.faults = 0 => a.faults = 0
    BY <1>0, <1>2, <1>4 DEF Wide
  <2> QED BY <1>0, <1>2, <2>1 DEF Carried, SavedKeys
<1>13. Carried'
  BY <1>0, <1>2, <1>4, <1>5, <1>6, <1>10, <1>11, <1>12 DEF Carried
<1>14. Mirrored' /\ Forgotten'
  BY <1>2, <1>6, <1>7, <1>9 DEF Mirrored, Forgotten, Tracked
<1>15. Told'
  BY <1>2, <1>14, NothingFound
<1>16. a'.faults = a.faults /\ product # "gbrain-ollama" => ~closed'
  BY <1>2, <1>3 DEF Built
<1> QED BY <1>13, <1>15, <1>16 DEF Inv

(* What a call does to the agreement of list and store.                    *)
Steady == Agree(product, a) /\ a'.faults = a.faults => Agree(product, a')

LEMMA SteadyStep ==
    ASSUME Inv, ~closed, NEW r, Kept(product, a, r), a' = r.a
    PROVE  Steady
<1>1. Shaped(product, a) /\ Unopened(product, a)
  BY DEF Inv, Carried
<1> QED BY <1>1 DEF Steady, Kept

LEMMA ResetStep ==
    ASSUME Inv, Reset
    PROVE  /\ Inv' /\ Steady
           /\ /\ ~closed' /\ a'.faults = a.faults /\ (product \in Mem0s => a.open)
              => Agree(product, a')
<1>0. /\ Carried /\ product \in AllProducts /\ a \in Wide /\ Shaped(product, a)
      /\ a.faults \in Nat /\ ~closed
  BY InvReady DEF Inv, Reset
<1>1. PICK r \in ResetOf(product, a) : Outcome(r)
  BY DEF Reset
<1>2. /\ a' = r.a /\ closed' = r.raised /\ product' = product /\ saved' = saved
      /\ lives' = lives /\ given' = {} /\ deleted' = {} /\ imported' = FALSE /\ NoAnswer
  BY <1>1 DEF Reset, Outcome
<1>3. Emptied(product, a, r) /\ Kept(product, a, r)
  BY <1>0, EmptiedBy DEF Emptied
<1>4. Carried' /\ a'.faults >= a.faults /\ a' \in Wide
  BY <1>0, <1>1, <1>2, <1>3, KeptPassed, CarriedStep
<1>5. Mirrored'
  BY <1>2, <1>3 DEF Mirrored, Emptied
<1>6. Forgotten'
  <2> SUFFICES ASSUME ~closed', Tracked' PROVE Keyed(product, a')
    BY <1>2 DEF Forgotten
  <2>1. CASE product \notin Mem0s
    BY <2>1, WithoutMem0
  <2>2. CASE product \in Mem0s
    <3>1. a.faults = 0 /\ r.a.faults = a.faults
      BY <1>0, <1>2, <1>4, <2>2 DEF Tracked, Wide
    <3>2. Shut(product, a)
      BY <1>0, <1>2, <3>1 DEF Carried, OpenBeforeStored, Tracked
    <3> QED BY <1>0, <1>2, <3>1, <3>2, EmptiedKeyed
  <2> QED BY <2>1, <2>2
<1>7. Told'
  BY <1>2, <1>5, <1>6, NothingFound
<1>8. Steady
  BY <1>0, <1>2, <1>3, SteadyStep
<1>9. /\ ~closed' /\ a'.faults = a.faults /\ (product \in Mem0s => a.open)
      => Agree(product, a')
  BY <1>0, <1>2, <1>3 DEF Emptied
<1> QED BY <1>4, <1>7, <1>8, <1>9 DEF Inv

LEMMA IngestStep ==
    ASSUME Inv, NEW batch \in SUBSET Events, Ingest(batch)
    PROVE  Inv' /\ Steady
<1>0. /\ Told /\ product \in AllProducts /\ a \in Wide /\ Shaped(product, a) /\ ~closed
  BY InvReady DEF Inv, Ingest
<1>1. PICK r \in IngestOf(product, a, batch) : Outcome(r)
  BY DEF Ingest
<1>2. /\ a' = r.a /\ closed' = r.raised /\ product' = product /\ saved' = saved
      /\ lives' = lives /\ imported' = imported /\ NoAnswer
      /\ given' = given \cup batch /\ deleted' = deleted \ batch
  BY <1>1 DEF Ingest, Outcome
<1>3. Filled(product, a, batch, r) /\ Kept(product, a, r)
  BY <1>0, FilledBy DEF Filled
<1>4. Carried'
  BY <1>0, <1>1, <1>2, <1>3, KeptPassed, CarriedStep
<1>5. Mirrored'
  BY <1>0, <1>2, <1>3 DEF Told, Mirrored, Filled
<1>6. Forgotten'
  <2> SUFFICES ASSUME ~closed', Tracked'
               PROVE  Keyed(product, a') /\ deleted' \cap Held(product, a') = {}
    BY <1>2 DEF Forgotten
  <2>1. /\ product \in Mem0s => r.a.faults = a.faults
        /\ Keyed(product, a') /\ deleted \cap Held(product, a) = {}
    BY <1>0, <1>1, <1>2, <1>3, FollowedStep
  <2>2. Held(product, a') \subseteq Held(product, a) \cup batch
    BY <1>2, <1>3, <2>1 DEF Filled
  <2> QED BY <1>2, <2>1, <2>2
<1>7. Told'
  BY <1>0, <1>2, <1>5, <1>6, NothingFound DEF Told
<1>8. Steady
  BY <1>0, <1>2, <1>3, SteadyStep
<1> QED BY <1>4, <1>7, <1>8 DEF Inv

LEMMA DeleteStep ==
    ASSUME Inv, NEW e \in Events, Delete(e)
    PROVE  Inv' /\ Steady
<1>0. /\ Carried /\ Told /\ product \in AllProducts /\ a \in Wide /\ Shaped(product, a)
      /\ ~closed /\ Tidy(product, a)
  BY InvReady DEF Inv, Delete, Carried
<1>1. PICK r \in DeleteOf(product, a, e) :
             /\ Outcome(r)
             /\ given' = IF r.raised \/ r.value = FALSE THEN given ELSE given \ {e}
             /\ deleted' = IF r.raised THEN deleted ELSE deleted \cup {e}
  BY DEF Delete
<1>2. /\ a' = r.a /\ closed' = r.raised /\ product' = product /\ saved' = saved
      /\ lives' = lives /\ imported' = imported /\ NoAnswer
  BY <1>1 DEF Delete, Outcome
<1>3. Deleted(product, a, e, r) /\ Kept(product, a, r)
  BY <1>0, DeletedBy DEF Deleted
<1>4. Carried'
  BY <1>0, <1>1, <1>2, <1>3, KeptPassed, CarriedStep
<1>5. Mirrored'
  BY <1>0, <1>1, <1>2, <1>3 DEF Told, Mirrored, Deleted
<1>6. Forgotten'
  <2> SUFFICES ASSUME ~closed', Tracked'
               PROVE  Keyed(product, a') /\ deleted' \cap Held(product, a') = {}
    BY <1>2 DEF Forgotten
  <2>1. /\ product \in Mem0s => r.a.faults = a.faults
        /\ Keyed(product, a) /\ Keyed(product, a') /\ deleted \cap Held(product, a) = {}
    BY <1>0, <1>1, <1>2, <1>3, FollowedStep
  <2>2. Held(product, a') \subseteq Held(product, a) \ {e}
    BY <1>2, <1>3, <2>1 DEF Deleted
  <2> QED BY <1>1, <1>2, <2>1, <2>2
<1>7. Told'
  BY <1>0, <1>1, <1>2, <1>5, <1>6, NothingFound DEF Told
<1>8. Steady
  BY <1>0, <1>2, <1>3, SteadyStep
<1> QED BY <1>4, <1>7, <1>8 DEF Inv

(* A call that moves nothing: the two lists of the caller still fit.       *)
LEMMA UnmovedStep ==
    ASSUME Inv, ~closed, NEW r, Outcome(r), Unmoved(product, a, r),
           UNCHANGED <<product, lives, given, deleted, saved, imported>>
    PROVE  Carried' /\ Mirrored' /\ Forgotten' /\ Steady
<1>0. /\ a' = r.a /\ closed' = r.raised /\ product' = product /\ saved' = saved
      /\ lives' = lives /\ imported' = imported /\ given' = given /\ deleted' = deleted
      /\ Told
  BY DEF Inv, Outcome
<1>1. /\ Kept(product, a, r)
      /\ ~closed' => a'.listed = a.listed /\ a'.store = a.store
  BY <1>0 DEF Unmoved
<1>2. Carried'
  BY <1>0, <1>1, KeptPassed, CarriedStep
<1>3. Mirrored'
  BY <1>0, <1>1 DEF Told, Mirrored
<1>4. Forgotten'
  <2> SUFFICES ASSUME ~closed', Tracked'
               PROVE  Keyed(product, a') /\ deleted' \cap Held(product, a') = {}
    BY <1>0 DEF Forgotten
  <2>1. Keyed(product, a') /\ deleted \cap Held(product, a) = {}
    BY <1>0, <1>1, FollowedStep
  <2>2. Held(product, a') = Held(product, a)
    BY <1>1 DEF Held
  <2> QED BY <1>0, <2>1, <2>2
<1>5. Steady
  BY <1>0, <1>1, SteadyStep
<1> QED BY <1>2, <1>3, <1>4, <1>5

LEMMA QuietStep ==
    ASSUME Inv, AwaitReady \/ Restart
    PROVE  Inv' /\ Steady
<1>0. product \in AllProducts /\ a \in Wide /\ ~closed /\ Told
  BY InvReady DEF Inv, AwaitReady, Restart
<1>1. PICK r \in AwaitReadyOf(product, a) \cup RestartOf(product, a) : Outcome(r)
  BY DEF AwaitReady, Restart
<1>2. /\ UNCHANGED <<product, lives, given, deleted, saved, imported>> /\ NoAnswer
  BY DEF AwaitReady, Restart
<1>3. Unmoved(product, a, r)
  BY <1>0, QuietOf
<1>4. Carried' /\ Mirrored' /\ Forgotten' /\ Steady
  BY <1>0, <1>1, <1>2, <1>3, UnmovedStep
<1>5. Told'
  BY <1>0, <1>2, <1>4, NothingFound DEF Told
<1> QED BY <1>4, <1>5 DEF Inv

LEMMA RetrieveStep ==
    ASSUME Inv, NEW q \in Queries, Retrieve(q)
    PROVE  Inv' /\ Steady
<1>0. /\ product \in AllProducts /\ a \in Wide /\ ~closed /\ Told /\ Tidy(product, a)
      /\ a.faults \in Nat
  BY InvReady DEF Inv, Retrieve, Carried
<1>1. PICK r \in RetrieveOf(product, a, q) : Outcome(r) /\ found' = r.value
  BY DEF Retrieve
<1>2. /\ a' = r.a /\ closed' = r.raised /\ product' = product /\ lives' = lives
      /\ given' = given /\ deleted' = deleted /\ saved' = saved /\ imported' = imported
      /\ asked' = {q}
  BY <1>1 DEF Retrieve, Outcome
<1>3. Answered(product, a, q, r)
  BY <1>0, AnsweredBy
<1>4. Carried' /\ Mirrored' /\ Forgotten' /\ Steady
  BY <1>0, <1>1, <1>2, <1>3, UnmovedStep DEF Answered
<1>5. AnswersAreCurrent'
  <2>1. product # "oracle" => found' \subseteq given'
    <3>1. CASE r.raised
      BY <1>1, <1>3, <3>1 DEF Answered
    <3>2. CASE product = "no-memory"
      BY <1>1, <1>3, <3>2 DEF Answered
    <3>3. CASE ~r.raised /\ product \notin Fixed
      BY <1>0, <1>1, <1>2, <1>3, <3>3 DEF Answered, Told, Mirrored, Fixed
    <3> QED BY <3>1, <3>2, <3>3 DEF Fixed
  <2>2. product \notin {"optmem-native", "oracle"} => found' \subseteq Visible[q]
    BY <1>1, <1>3 DEF Answered
  <2> QED BY <1>2, <2>1, <2>2 DEF AnswersAreCurrent
<1>6. DeletedNotFound'
  <2> SUFFICES ASSUME Tracked', product # "oracle"
               PROVE  found' \cap deleted' = {}
    BY <1>2 DEF DeletedNotFound, Tracked
  <2>1. CASE r.raised
    BY <1>1, <1>3, <2>1 DEF Answered
  <2>2. CASE ~r.raised
    <3>1. Kept(product, a, r)
      BY <1>3 DEF Answered, Unmoved
    <3>2. deleted \cap Held(product, a) = {}
      BY <1>0, <1>1, <1>2, <2>2, <3>1, FollowedStep
    <3>3. found' \subseteq Held(product, a)
      BY <1>1, <1>3, <2>2 DEF Answered
    <3> QED BY <1>2, <3>2, <3>3
  <2> QED BY <2>1, <2>2
<1>7. found' \in SUBSET Events
  BY <1>1, <1>3 DEF Answered
<1>8. Told'
  BY <1>0, <1>2, <1>4, <1>5, <1>6, <1>7 DEF Told
<1> QED BY <1>4, <1>8 DEF Inv

LEMMA RestoreStep ==
    ASSUME Inv, Restore
    PROVE  Inv' /\ Steady
<1>0. /\ Carried /\ Told /\ product \in AllProducts /\ a \in Wide /\ Shaped(product, a)
      /\ ~closed /\ a.faults \in Nat /\ saved.events \in SUBSET Events
  BY InvReady DEF Inv, Restore, Carried
<1>1. PICK r \in RestoreOf(product, a, saved) : Outcome(r)
  BY DEF Restore
<1>2. /\ a' = r.a /\ closed' = r.raised /\ product' = product /\ saved' = saved
      /\ lives' = lives /\ given' = saved.events /\ deleted' = {} /\ imported' = FALSE
      /\ NoAnswer
  BY <1>1 DEF Restore, Outcome
<1>3. Refilled(product, a, saved.events, r) /\ Kept(product, a, r)
  BY <1>0, RefilledBy DEF Refilled
<1>4. Carried' /\ a'.faults >= a.faults /\ a' \in Wide
  BY <1>0, <1>1, <1>2, <1>3, KeptPassed, CarriedStep
<1>5. Mirrored'
  BY <1>2, <1>3 DEF Mirrored, Refilled
<1>6. Forgotten'
  <2> SUFFICES ASSUME ~closed', Tracked' PROVE Keyed(product, a')
    BY <1>2 DEF Forgotten
  <2>1. CASE product \notin Mem0s
    BY <2>1, WithoutMem0
  <2>2. CASE product \in Mem0s
    <3>1. a.faults = 0 /\ r.a.faults = a.faults
      BY <1>0, <1>2, <1>4, <2>2 DEF Tracked, Wide
    <3>2. Shut(product, a)
      BY <1>0, <1>2, <3>1 DEF Carried, OpenBeforeStored, Tracked
    <3> QED BY <1>0, <1>2, <3>1, <3>2, RefilledKeyed
  <2> QED BY <2>1, <2>2
<1>7. Told'
  BY <1>0, <1>2, <1>5, <1>6, NothingFound
<1>8. Steady
  BY <1>0, <1>2, <1>3, SteadyStep
<1> QED BY <1>4, <1>7, <1>8 DEF Inv

LEMMA ImportStep ==
    ASSUME Inv, ImportData
    PROVE  Inv'
<1>0. /\ Carried /\ Told /\ product \in AllProducts /\ a \in Wide /\ Shaped(product, a)
      /\ ~closed /\ a.faults \in Nat /\ saved.events \in SUBSET Events
      /\ saved.keys \in SUBSET Memories
  BY InvReady DEF Inv, ImportData, Carried
<1>1. PICK r \in ImportOf(product, a, saved) : Outcome(r)
  BY DEF ImportData
<1>2. /\ a' = r.a /\ closed' = r.raised /\ product' = product /\ saved' = saved
      /\ lives' = lives /\ given' = saved.events /\ deleted' = {} /\ imported' = TRUE
      /\ NoAnswer /\ product \in Exporting /\ saved.kind = "export"
  BY <1>1 DEF ImportData, Outcome
<1>3. Imported(product, a, saved, r)
  BY <1>0, <1>2, ImportedBy
<1>4. Carried' /\ a'.faults >= a.faults /\ a' \in Wide
  BY <1>0, <1>1, <1>2, <1>3, ImportedPassed, CarriedStep
<1>5. Mirrored'
  BY <1>2, <1>3 DEF Mirrored, Imported
<1>6. Forgotten'
  <2> SUFFICES ASSUME ~closed', Tracked' PROVE Keyed(product, a')
    BY <1>2 DEF Forgotten
  <2>1. CASE product \notin Mem0s
    BY <2>1, WithoutMem0
  <2>2. CASE product \in Mem0s
    <3>1. a.faults = 0 /\ r.a.faults = a.faults
      BY <1>0, <1>2, <1>4, <2>2 DEF Tracked, Wide
    <3>2. product = "mem0"
      BY <1>2, <2>2 DEF Tracked, Mem0s
    <3>3. Keyed(product, a)
      BY <1>0, <3>1, <3>2 DEF Told, Forgotten, Tracked
    <3>4. saved.keys # {} => saved.events \subseteq Of(saved.keys)
      BY <1>0, <1>2, <3>1, <3>2 DEF Carried, SavedKeys
    <3> QED BY <1>2, <1>3, <3>1, <3>2, <3>3, <3>4 DEF Imported
  <2> QED BY <2>1, <2>2
<1>7. Told'
  BY <1>0, <1>2, <1>5, <1>6, NothingFound
<1> QED BY <1>4, <1>7 DEF Inv

(* The caller keeps what the object gives it.                              *)
LEMMA SaveStep ==
    ASSUME Inv, Snapshot \/ Export
    PROVE  Inv' /\ Steady
<1>0. /\ Carried /\ Told /\ product \in AllProducts /\ a \in Wide /\ ~closed
  BY InvReady DEF Inv, Snapshot, Export
<1>1. /\ product' = product /\ a' = a /\ closed' = closed /\ lives' = lives
      /\ given' = given /\ deleted' = deleted /\ imported' = imported /\ NoAnswer
  BY DEF Snapshot, Export
<1>2. /\ saved'.kind \in {"none", "snapshot", "export"}
      /\ saved'.events \in SUBSET Events /\ saved'.keys \in SUBSET Memories
      /\ product \in Mem0s /\ saved'.kind = "export" =>
            saved'.events = a.listed /\ saved'.keys = a.keys
  <2>1. CASE Snapshot
    <3>1. saved' = [kind |-> "snapshot", events |-> SnapshotOf(product, a).events, keys |-> {}]
      BY <2>1 DEF Snapshot
    <3>2. SnapshotOf(product, a).events \in SUBSET Events
      BY <1>0, SavedOf
    <3> QED BY <3>1, <3>2
  <2>2. CASE Export
    <3>1. /\ product \in Exporting
          /\ saved' = [kind |-> "export", events |-> ExportOf(product, a).events,
                       keys |-> ExportOf(product, a).keys]
      BY <2>2 DEF Export
    <3>2. /\ ExportOf(product, a).events = a.listed
          /\ ExportOf(product, a).keys \in SUBSET Memories
          /\ product \in Mem0s => ExportOf(product, a).keys = a.keys
      BY <1>0, <3>1, SavedOf
    <3>3. a.listed \in SUBSET Events
      BY <1>0 DEF Wide
    <3> QED BY <3>1, <3>2, <3>3
  <2> QED BY <2>1, <2>2
<1>3. SavedKeys'
  <2> SUFFICES ASSUME product = "mem0", a.faults = 0, saved'.kind = "export"
               PROVE  saved'.events \subseteq Of(saved'.keys)
    BY <1>1 DEF SavedKeys
  <2>1. Keyed(product, a)
    BY <1>0 DEF Told, Forgotten, Tracked
  <2> QED BY <1>2, <2>1 DEF Keyed, Mem0s
<1>4. OpenBeforeStored' /\ FirstUse'
  BY <1>0, <1>1 DEF Carried, OpenBeforeStored, FirstUse
<1>5. Carried'
  BY <1>0, <1>1, <1>2, <1>3, <1>4 DEF Carried
<1>6. Mirrored' /\ Forgotten'
  BY <1>0, <1>1 DEF Told, Mirrored, Forgotten, Tracked
<1>7. Told'
  BY <1>0, <1>1, <1>6, NothingFound DEF Told
<1>8. Steady
  BY <1>1 DEF Steady
<1> QED BY <1>5, <1>7, <1>8 DEF Inv

LEMMA CleanupStep ==
    ASSUME Inv, Cleanup
    PROVE  Inv' /\ Steady
<1>0. /\ Carried /\ Told /\ product \in AllProducts /\ a \in Wide /\ Shaped(product, a)
  BY InvReady DEF Inv
<1>1. PICK r \in CleanupOf(product, a) : Within(r.a) /\ a' = r.a
  BY DEF Cleanup
<1>2. /\ product' = product /\ closed' = TRUE /\ lives' = lives /\ lives > 0
      /\ given' = given /\ deleted' = deleted /\ saved' = saved /\ imported' = imported
      /\ NoAnswer
  BY DEF Cleanup
<1>3. /\ a' \in Wide /\ a'.faults = a.faults /\ a'.listed = a.listed /\ a'.store = a.store
      /\ a'.keys = a.keys /\ a'.pages = a.pages /\ a'.head = a.head /\ a'.home = a.home
  BY <1>0, <1>1, ClosedBy DEF Closed
<1>4. a' \in AdapterStates
  BY <1>1, <1>3, WithinBounds
<1>5. Shaped(product, a')
  BY <1>0, <1>3 DEF Shaped
<1>6. OpenBeforeStored' /\ FirstUse' /\ SavedKeys'
  BY <1>0, <1>2, <1>3 DEF Carried, OpenBeforeStored, FirstUse, SavedKeys
<1>7. Carried'
  BY <1>0, <1>2, <1>4, <1>5, <1>6 DEF Carried
<1>8. Mirrored' /\ Forgotten'
  BY <1>2 DEF Mirrored, Forgotten
<1>9. Told'
  BY <1>0, <1>2, <1>8, NothingFound DEF Told
<1>10. Steady
  BY <1>3 DEF Steady, Agree
<1> QED BY <1>7, <1>9, <1>10 DEF Inv

-----------------------------------------------------------------------------
LEMMA InvNext ==
    Inv /\ [Next]_vars => Inv'
<1> SUFFICES ASSUME Inv, [Next]_vars PROVE Inv'
  OBVIOUS
<1>1. CASE New
  BY <1>1, NewStep
<1>2. CASE Reset
  BY <1>2, ResetStep
<1>3. CASE AwaitReady \/ Restart
  BY <1>3, QuietStep
<1>4. ASSUME NEW batch \in (SUBSET Events) \ {{}}, Ingest(batch) PROVE Inv'
  BY <1>4, IngestStep
<1>5. ASSUME NEW e \in Events, Delete(e) PROVE Inv'
  BY <1>5, DeleteStep
<1>6. ASSUME NEW q \in Queries, Retrieve(q) PROVE Inv'
  BY <1>6, RetrieveStep
<1>7. CASE Snapshot \/ Export
  BY <1>7, SaveStep
<1>8. CASE Restore
  BY <1>8, RestoreStep
<1>9. CASE ImportData
  BY <1>9, ImportStep
<1>10. CASE Cleanup
  BY <1>10, CleanupStep
<1>11. CASE UNCHANGED vars
  BY <1>11 DEF vars, Inv, Carried, Told, OpenBeforeStored, FirstUse, SavedKeys, Mirrored,
               Forgotten, Tracked, AnswersAreCurrent, DeletedNotFound
<1> QED BY <1>1, <1>2, <1>3, <1>4, <1>5, <1>6, <1>7, <1>8, <1>9, <1>10, <1>11 DEF Next

(* The invariant the results below rest on.                                *)
THEOREM AdaptersInvariant == Spec => []Inv
<1>1. Init => Inv
  BY InvInit
<1>2. Inv /\ [Next]_vars => Inv'
  BY InvNext
<1> QED BY <1>1, <1>2, PTL DEF Spec

(* Every variable keeps its type.                                          *)
THEOREM AdaptersTypeOK == Spec => []TypeOK
<1>1. Inv => TypeOK
  BY DEF Inv, Carried, Told, TypeOK
<1> QED BY <1>1, AdaptersInvariant, PTL

(* As long as an object is used, its list is what its caller gave it and   *)
(* has not been told is deleted, whatever failed on the way, and SqliteFts *)
(* has no row of an event that is not listed.                              *)
THEOREM AdaptersMirrorCalls == Spec => []ListMirrorsCalls
<1>1. Inv => ListMirrorsCalls
  BY DEF Inv, Carried, Told, Mirrored, Tidy, ListMirrorsCalls, Stored, Of
<1> QED BY <1>1, AdaptersInvariant, PTL

(* Nothing an earlier object stored, nothing withdrawn and nothing the     *)
(* query may not see is answered, by any product but the two that do not   *)
(* filter.                                                                 *)
THEOREM AdaptersAnswerCurrent == Spec => []AnswersAreCurrent
<1>1. Inv => AnswersAreCurrent
  BY DEF Inv, Told
<1> QED BY <1>1, AdaptersInvariant, PTL

(* A deletion that returned is not undone by anything but giving the event *)
(* again.                                                                  *)
THEOREM AdaptersForget == Spec => []DeletedNotFound
<1>1. Inv => DeletedNotFound
  BY DEF Inv, Told
<1> QED BY <1>1, AdaptersInvariant, PTL

LEMMA InStepAgrees ==
    a.home # "unsourced" => (InStep <=> Agree(product, a))
  BY DEF InStep, Agree, Stored, Of

(* As long as nothing fails, list and store stay in agreement, whatever    *)
(* the calls on an object.                                                 *)
THEOREM AdaptersStayInStep == Spec => StaysInStep
<1> DEFINE Step == /\ InStep /\ a'.faults = a.faults /\ lives' = lives /\ ~imported'
                   /\ a.home # "unsourced"
                   => InStep'
<1>1. Inv /\ [Next]_vars => [Step]_vars
  <2> SUFFICES ASSUME Inv, Next, InStep, a'.faults = a.faults, lives' = lives, ~imported',
                      a.home # "unsourced"
               PROVE  InStep'
    OBVIOUS
  <2>1. product' = product /\ Agree(product, a)
    BY InStepAgrees DEF Next, New, Reset, AwaitReady, Ingest, Delete, Retrieve, Snapshot,
                        Restore, Export, ImportData, Restart, Cleanup
  <2>2. ~New /\ ~ImportData
    <3>1. lives \in 0 .. MaxLives
      BY DEF Inv, Carried
    <3> QED BY <3>1, LivesAssumption DEF New, ImportData
  <2>3. Steady
    <3>1. CASE Reset
      BY <3>1, ResetStep
    <3>2. CASE AwaitReady \/ Restart
      BY <3>2, QuietStep
    <3>3. ASSUME NEW batch \in (SUBSET Events) \ {{}}, Ingest(batch) PROVE Steady
      BY <3>3, IngestStep
    <3>4. ASSUME NEW e \in Events, Delete(e) PROVE Steady
      BY <3>4, DeleteStep
    <3>5. ASSUME NEW q \in Queries, Retrieve(q) PROVE Steady
      BY <3>5, RetrieveStep
    <3>6. CASE Snapshot \/ Export
      BY <3>6, SaveStep
    <3>7. CASE Restore
      BY <3>7, RestoreStep
    <3>8. CASE Cleanup
      BY <3>8, CleanupStep
    <3> QED BY <2>2, <3>1, <3>2, <3>3, <3>4, <3>5, <3>6, <3>7, <3>8 DEF Next
  <2>4. Agree(product', a')
    BY <2>1, <2>3 DEF Steady
  <2> QED BY <2>4 DEF InStep, Agree, Stored, Of
<1> QED BY <1>1, AdaptersInvariant, PTL DEF Spec, StaysInStep

(* A reset that returns without a new failure brings list and store back   *)
(* in step, whatever state the failures before it left them in.            *)
THEOREM AdaptersResetHeals == Spec => ResetHeals
<1> DEFINE Step == /\ ~closed' /\ a'.faults = a.faults
                   /\ product \in Mem0s => a.open
                   /\ Reset
                   => InStep'
<1>1. Inv /\ [Next]_vars => [Step]_vars
  <2> SUFFICES ASSUME Inv, ~closed', a'.faults = a.faults, product \in Mem0s => a.open, Reset
               PROVE  InStep'
    OBVIOUS
  <2>1. product' = product
    BY DEF Reset
  <2>2. Agree(product', a')
    BY <2>1, ResetStep
  <2> QED BY <2>2 DEF InStep, Agree, Stored, Of
<1> QED BY <1>1, AdaptersInvariant, PTL DEF Spec, ResetHeals

(* An object can be built on any directory, however partial, unless the    *)
(* product fails again.                                                    *)
THEOREM AdaptersRecoverHome == Spec => PartialHomeRecovered
<1> DEFINE Step == lives' # lives /\ a'.faults = a.faults /\ product # "gbrain-ollama"
                   => ~closed'
<1>1. Inv /\ [Next]_vars => [Step]_vars
  <2> SUFFICES ASSUME Inv, Next, lives' # lives, a'.faults = a.faults,
                      product # "gbrain-ollama"
               PROVE  ~closed'
    OBVIOUS
  <2>1. New
    BY DEF Next, New, Reset, AwaitReady, Ingest, Delete, Retrieve, Snapshot,
           Restore, Export, ImportData, Restart, Cleanup
  <2> QED BY <2>1, NewStep
<1> QED BY <1>1, AdaptersInvariant, PTL DEF Spec, PartialHomeRecovered
=============================================================================
