-------------------------- MODULE SemanticExitProofs ---------------------------
(* Proofs about SemanticExit, for any selection of products, any corpus    *)
(* and any number of failures.                                             *)
EXTENDS SemanticExit, AdaptersProofs

-----------------------------------------------------------------------------
(* What a script starts it also stops.  Only Hindsight's program raises a  *)
(* stack, and GBrain's starts no gateway, so that its early exits leave    *)
(* none behind.                                                            *)

Products3 == {"gbrain-ollama", "mem0-native", "hindsight"}
Steps == {"gateway", "up", "make", "ready", "populate", "ask", "export", "copy", "destroy",
          "sync", "rebuild", "forget", "down"}

Records == {"none", "running", "completed", "failed", "raised", "unwritten"}

PlaceType ==
    /\ script \in Scripts
    /\ turn \in Nat /\ step \in Nat /\ step >= 1
    /\ phase \in {"try", "unwind", "except", "finally", "record", "over"}
    /\ status \in {"running", "completed", "failed", "raised"}
    /\ gateway \in BOOLEAN /\ stack \in BOOLEAN /\ held \in {"none", "stack", "fresh"}
    /\ breakdowns \in Nat
    /\ observed \in [1 .. Len(Selected) -> Records]
    /\ Selected = <<>> => phase = "over" /\ status = "running"
    /\ Selected # <<>> => turn \in 1 .. Len(Selected)

RunningInv ==
    /\ stack => breakdowns > 0 \/ held # "none"
    /\ held # "none" => Selected # <<>> /\ name = "hindsight"
    /\ Selected # <<>> /\ name = "gbrain-ollama" => ~gateway
    /\ phase = "try" => status = "running"
    /\ phase \in {"unwind", "except"} => status = "failed"
    /\ phase = "unwind" => Selected # <<>> /\ name = "hindsight"
    /\ phase \in {"record", "over"} => held = "none"
    /\ phase = "record" => ~gateway
    /\ phase = "over" => \/ breakdowns > 0
                         \/ /\ ~gateway
                            /\ status = "completed" => observed[turn] \in {"completed", "unwritten"}

LEMMA SelectedType ==
    /\ Len(Selected) \in Nat
    /\ \A i \in 1 .. Len(Selected) : Selected[i] \in Products3
    /\ Selected = <<>> <=> Len(Selected) = 0
  BY ExitAssumption DEF Products3

(* Which steps a product's program has.                                    *)
LEMMA ProgramSteps ==
    /\ Len(Program) \in Nat
    /\ \A i \in 1 .. Len(Program) :
          /\ name = "gbrain-ollama" => Program[i] \notin {"gateway", "up", "down"}
          /\ name = "mem0-native" => Program[i] \notin {"up", "down"}
<1>1. CASE name = "gbrain-ollama" /\ script = "v1"
  BY <1>1 DEF Program, Fill
<1>2. CASE name = "gbrain-ollama" /\ script # "v1"
  BY <1>2 DEF Program, Fill
<1>3. CASE name = "mem0-native"
  BY <1>3 DEF Program, Fill
<1>4. CASE name \notin {"gbrain-ollama", "mem0-native"} /\ script = "v1"
  BY <1>4 DEF Program, Fill
<1>5. CASE name \notin {"gbrain-ollama", "mem0-native"} /\ script # "v1"
  BY <1>5 DEF Program, Fill
<1> QED BY <1>1, <1>2, <1>3, <1>4, <1>5

LEMMA PlaceInit == Init => PlaceType /\ RunningInv
<1> SUFFICES ASSUME Init PROVE PlaceType /\ RunningInv
  OBVIOUS
<1>1. /\ observed \in [1 .. Len(Selected) -> Records]
      /\ script \in Scripts /\ turn = 1 /\ step = 1 /\ breakdowns = 0 /\ status = "running"
      /\ gateway = FALSE /\ stack = FALSE /\ held = "none"
      /\ phase = (IF Selected = <<>> THEN "over" ELSE "try")
  BY DEF Init, Records
<1>2. Selected # <<>> => 1 \in 1 .. Len(Selected)
  BY SelectedType
<1>3. PlaceType
  <2>1. phase \in {"try", "over"} /\ gateway \in BOOLEAN /\ stack \in BOOLEAN
    BY <1>1
  <2> QED BY <1>1, <1>2, <2>1 DEF PlaceType
<1>4. RunningInv
  BY <1>1 DEF RunningInv
<1> QED BY <1>3, <1>4

(* The steps of the program that leave the services alone, returning or    *)
(* raising.                                                                *)
Quiet ==
    /\ phase = "try" /\ UNCHANGED <<turnVars, services, observed>>
    /\ \/ phase' = "try" /\ step' \in {step, step + 1} /\ UNCHANGED status
       \/ Thrown

LEMMA QuietSteps ==
    ASSUME Raise \/ Make \/ AwaitReady \/ PopulateIngest \/ PopulateDelete \/ Populated \/ Ask
           \/ Export \/ CopyRaw \/ Destroy \/ Forget \/ Rebuild \/ SyncRepository
    PROVE  Quiet
<1> USE DEF At, Proceed
<1>1. CASE Raise
  BY <1>1 DEF Raise, Quiet
<1>2. CASE Make
  BY <1>2 DEF Make, Quiet
<1>3. CASE AwaitReady \/ Populated \/ Ask
  BY <1>3 DEF AwaitReady, Populated, Ask, Quiet
<1>4. CASE PopulateIngest \/ PopulateDelete
  BY <1>4 DEF PopulateIngest, PopulateDelete, Comes, Quiet
<1>5. CASE Export \/ CopyRaw \/ Destroy \/ Forget
  BY <1>5 DEF Export, CopyRaw, Destroy, Forget, Quiet
<1>6. CASE Rebuild \/ SyncRepository
  BY <1>6 DEF Rebuild, SyncRepository, Rebuilt, Quiet
<1> QED BY <1>1, <1>2, <1>3, <1>4, <1>5, <1>6

LEMMA QuietRuns ==
    ASSUME PlaceType, RunningInv, Quiet
    PROVE  PlaceType' /\ RunningInv'
<1> USE DEF turnVars, services
<1>1. Selected # <<>> /\ status = "running"
  BY DEF Quiet, PlaceType, RunningInv
<1>2. CASE phase' = "try" /\ step' \in {step, step + 1} /\ UNCHANGED status
  <2>1. PlaceType'
    BY <1>1, <1>2 DEF Quiet, PlaceType
  <2> QED BY <1>1, <1>2, <2>1 DEF Quiet, RunningInv, name
<1>3. CASE Thrown
  <2>1. \/ phase' = "over" /\ status' = "running" /\ name = "gbrain-ollama"
        \/ phase' = "unwind" /\ status' = "failed" /\ held = "fresh"
        \/ phase' = "except" /\ status' = "failed"
    BY <1>1, <1>3 DEF Thrown, Outside
  <2>2. PlaceType'
    BY <1>1, <1>3, <2>1 DEF Quiet, PlaceType, Thrown
  <2>3. name' = name
    BY DEF Quiet, name
  <2> QED BY <1>1, <2>1, <2>2, <2>3 DEF Quiet, RunningInv
<1> QED BY <1>2, <1>3 DEF Quiet

LEMMA GatewayRuns ==
    ASSUME PlaceType, RunningInv, StartGateway
    PROVE  PlaceType' /\ RunningInv'
<1>1. /\ phase = "try" /\ phase' = "try" /\ step' = step + 1 /\ gateway' = TRUE
      /\ step <= Len(Program) /\ Program[step] = "gateway"
      /\ UNCHANGED <<script, turn, stack, held, breakdowns, status, observed>>
  BY DEF StartGateway, At, Proceed, turnVars
<1>2. step \in 1 .. Len(Program)
  BY <1>1, ProgramSteps DEF PlaceType
<1>3. name # "gbrain-ollama" /\ name' = name
  BY <1>1, <1>2, ProgramSteps DEF name
<1>4. PlaceType'
  BY <1>1 DEF PlaceType
<1> QED BY <1>1, <1>3, <1>4 DEF RunningInv

LEMMA UpRuns ==
    ASSUME PlaceType, RunningInv, Up
    PROVE  PlaceType' /\ RunningInv'
<1>1. /\ phase = "try" /\ step <= Len(Program) /\ Program[step] = "up"
      /\ UNCHANGED <<script, turn, gateway, observed>>
  BY DEF Up, At, turnVars
<1>2. step \in 1 .. Len(Program)
  BY <1>1, ProgramSteps DEF PlaceType
<1>3. /\ Selected # <<>> /\ name \in Products3 /\ name' = name
      /\ name \notin {"gbrain-ollama", "mem0-native"}
  <2>1. Selected # <<>> /\ turn \in 1 .. Len(Selected)
    BY <1>1 DEF PlaceType
  <2> QED BY <1>1, <1>2, <2>1, ProgramSteps, SelectedType DEF name
<1>4. name = "hindsight"
  BY <1>3 DEF Products3
<1>5. CASE /\ Proceed /\ stack' = TRUE /\ held' \in {"stack", "fresh"}
           /\ UNCHANGED <<breakdowns, status>>
  <2>1. PlaceType'
    BY <1>1, <1>5 DEF PlaceType, Proceed
  <2> QED BY <1>1, <1>3, <1>4, <1>5, <2>1 DEF RunningInv, Proceed
<1>6. CASE /\ breakdowns' = breakdowns + 1 /\ Thrown /\ stack' \in {stack, TRUE} /\ UNCHANGED held
  <2>1. /\ phase' \in {"unwind", "except"} /\ status' = "failed" /\ step' = step
    BY <1>4, <1>6 DEF Thrown, Outside
  <2>2. stack' \in BOOLEAN
    BY <1>6 DEF PlaceType
  <2>3. breakdowns' \in Nat /\ breakdowns' > 0
    BY <1>6 DEF PlaceType
  <2>4. PlaceType'
    BY <1>1, <1>3, <1>6, <2>1, <2>2, <2>3 DEF PlaceType
  <2> QED BY <1>1, <1>3, <1>4, <1>6, <2>1, <2>3, <2>4 DEF RunningInv
<1> QED BY <1>5, <1>6 DEF Up

(* A removal by Docker either takes the stack down or counts its fault.    *)
LEMMA FaultsCount ==
    ASSUME breakdowns \in Nat, stack \in BOOLEAN,
           \/ stack' = FALSE /\ breakdowns' = breakdowns
           \/ breakdowns' = breakdowns + 1 /\ stack' = stack
    PROVE  /\ breakdowns' \in Nat /\ stack' \in BOOLEAN /\ (stack' => breakdowns' > 0)
           /\ breakdowns > 0 => breakdowns' > 0
<1>1. CASE stack' = FALSE /\ breakdowns' = breakdowns
  <2>1. breakdowns' \in Nat /\ (breakdowns > 0 => breakdowns' > 0)
    BY <1>1
  <2> QED BY <1>1, <2>1, Zenon
<1>2. CASE breakdowns' = breakdowns + 1 /\ stack' = stack
  <2>1. breakdowns' \in Nat /\ breakdowns' > 0
    BY <1>2
  <2> QED BY <1>2, <2>1, Zenon
<1> QED BY <1>1, <1>2

LEMMA DownRuns ==
    ASSUME PlaceType, RunningInv, Down
    PROVE  PlaceType' /\ RunningInv'
<1>1. /\ phase = "try" /\ held' = "none" /\ UNCHANGED <<script, turn, gateway, observed>>
      /\ \/ phase' = "try" /\ status' = status /\ step' = step + 1
         \/ phase' = "except" /\ status' = "failed" /\ step' = step
  BY DEF Down, At, Leave, Proceed, turnVars
<1>2. \/ stack' = FALSE /\ breakdowns' = breakdowns
      \/ breakdowns' = breakdowns + 1 /\ stack' = stack
  BY DEF Down, At, Leave
<1>3. breakdowns' \in Nat /\ stack' \in BOOLEAN /\ (stack' => breakdowns' > 0)
  BY <1>2, FaultsCount DEF PlaceType
<1>4. Selected # <<>> /\ name' = name /\ status = "running"
  BY <1>1 DEF PlaceType, RunningInv, name
<1>5. PlaceType'
  BY <1>1, <1>3, <1>4 DEF PlaceType
<1>6. (phase' = "over" => FALSE) /\ (phase' = "try" => status' = "running")
  BY <1>1, <1>4
<1> QED BY <1>1, <1>3, <1>4, <1>5, <1>6 DEF RunningInv

LEMMA UnwindRuns ==
    ASSUME PlaceType, RunningInv, Unwind
    PROVE  PlaceType' /\ RunningInv'
<1>1. /\ phase = "unwind" /\ phase' = "except" /\ UNCHANGED <<step, status>>
      /\ held' = "none" /\ UNCHANGED <<script, turn, gateway, observed>>
  BY DEF Unwind, Leave, turnVars
<1>a. \/ stack' = FALSE /\ breakdowns' = breakdowns
      \/ breakdowns' = breakdowns + 1 /\ stack' = stack
  BY DEF Unwind, Leave
<1>2. breakdowns' \in Nat /\ stack' \in BOOLEAN /\ (stack' => breakdowns' > 0)
  BY <1>a, FaultsCount DEF PlaceType
<1>3. status = "failed" /\ Selected # <<>>
  BY <1>1 DEF RunningInv
<1>4. PlaceType'
  BY <1>1, <1>2, <1>3 DEF PlaceType
<1>5. name' = name
  BY <1>1 DEF name
<1> QED BY <1>1, <1>2, <1>3, <1>4, <1>5 DEF RunningInv

LEMMA CompleteRuns ==
    ASSUME PlaceType, RunningInv, Complete
    PROVE  PlaceType' /\ RunningInv'
<1>1. /\ phase = "try" /\ phase' = "finally" /\ status' = "completed"
      /\ UNCHANGED <<script, turn, step, gateway, stack, held, breakdowns, observed>>
  BY DEF Complete, turnVars, services
<1>2. Selected # <<>> /\ name' = name
  BY <1>1 DEF PlaceType, name
<1>3. PlaceType'
  BY <1>1, <1>2 DEF PlaceType
<1> QED BY <1>1, <1>2, <1>3 DEF RunningInv

LEMMA ExceptRuns ==
    ASSUME PlaceType, RunningInv, Except
    PROVE  PlaceType' /\ RunningInv'
<1>1. /\ phase = "except" /\ phase' = "finally" /\ status' \in {status, "raised"}
      /\ UNCHANGED <<script, turn, step, gateway, stack, held, breakdowns, observed>>
  BY DEF Except, turnVars, services
<1>2. status = "failed" /\ Selected # <<>> /\ name' = name
  BY <1>1 DEF RunningInv, PlaceType, name
<1>3. PlaceType'
  BY <1>1, <1>2 DEF PlaceType
<1> QED BY <1>1, <1>2, <1>3 DEF RunningInv

LEMMA FinallyRuns ==
    ASSUME PlaceType, RunningInv, Finally
    PROVE  PlaceType' /\ RunningInv'
<1>0. phase = "finally" /\ Selected # <<>>
  BY DEF Finally, PlaceType
<1>1. CASE held # "none"
  <2>1. /\ held' = "none" /\ UNCHANGED <<script, turn, gateway, observed, step, status>>
        /\ phase' \in {phase, "over"}
    BY <1>1 DEF Finally, Leave, turnVars
  <2>2. \/ stack' = FALSE /\ breakdowns' = breakdowns /\ phase' = phase
        \/ breakdowns' = breakdowns + 1 /\ stack' = stack
    BY <1>1 DEF Finally, Leave
  <2>3. /\ breakdowns' \in Nat /\ stack' \in BOOLEAN /\ (stack' => breakdowns' > 0)
    BY <2>2, FaultsCount DEF PlaceType
  <2>a. phase' = phase \/ (phase' = "over" /\ breakdowns' > 0)
    <3>1. breakdowns \in Nat
      BY DEF PlaceType
    <3> QED BY <2>1, <2>2, <3>1
  <2>4. PlaceType'
    BY <1>0, <2>1, <2>a, <2>3 DEF PlaceType
  <2>5. name' = name
    BY <2>1 DEF name
  <2> QED BY <1>0, <2>1, <2>a, <2>3, <2>4, <2>5 DEF RunningInv
<1>2. CASE held = "none"
  <2>1. /\ UNCHANGED <<script, turn, step, stack, held, status, observed>>
        /\ breakdowns \in Nat
    BY <1>2 DEF Finally, turnVars, PlaceType
  <2>2. \/ /\ gateway' = FALSE /\ breakdowns' = breakdowns
           /\ phase' = "record" \/ (phase' = "over" /\ status = "raised")
        \/ /\ gateway' = gateway /\ phase' = "over"
           /\ breakdowns' \in Nat /\ breakdowns' > 0
    BY <1>2, <2>1 DEF Finally, StopGateway
  <2>3. PlaceType' /\ name' = name
    BY <1>0, <2>1, <2>2 DEF PlaceType, name
  <2> QED BY <1>0, <1>2, <2>1, <2>2, <2>3 DEF RunningInv
<1> QED BY <1>1, <1>2

LEMMA RecordRuns ==
    ASSUME PlaceType, RunningInv, Record
    PROVE  PlaceType' /\ RunningInv'
<1>1. /\ phase = "record" /\ observed' = [observed EXCEPT ![turn] = status]
      /\ UNCHANGED <<script, gateway, stack, held, breakdowns>>
      /\ \/ /\ turn < Len(Selected) /\ turn' = turn + 1 /\ phase' = "try" /\ step' = 1
            /\ status' = "running"
         \/ phase' = "over" /\ UNCHANGED <<turn, step, status>>
  BY DEF Record, services
<1>2. Selected # <<>> /\ turn \in 1 .. Len(Selected) /\ Len(Selected) \in Nat
  BY <1>1, SelectedType DEF PlaceType
<1>3. held = "none" /\ ~gateway
  BY <1>1 DEF RunningInv
<1>4. observed'[turn] = status
  BY <1>1, <1>2 DEF PlaceType
<1>5. PlaceType'
  <2>1. observed' \in [1 .. Len(Selected) -> Records]
    BY <1>1 DEF PlaceType, Records
  <2>2. turn' \in 1 .. Len(Selected) /\ turn' \in Nat
    BY <1>1, <1>2
  <2> QED BY <1>1, <1>2, <2>1, <2>2 DEF PlaceType
<1> QED BY <1>1, <1>2, <1>3, <1>4, <1>5 DEF RunningInv

LEMMA RecordFailsRuns ==
    ASSUME PlaceType, RunningInv, RecordFails
    PROVE  PlaceType' /\ RunningInv'
<1>1. /\ phase = "record" /\ phase' = "over"
      /\ observed' = [observed EXCEPT ![turn] = "unwritten"]
      /\ UNCHANGED <<script, turn, step, gateway, stack, held, breakdowns, status>>
  BY DEF RecordFails, turnVars, services
<1>2. Selected # <<>> /\ turn \in 1 .. Len(Selected) /\ held = "none" /\ ~gateway
  BY <1>1 DEF PlaceType, RunningInv
<1>3. PlaceType' /\ observed'[turn] = "unwritten" /\ name' = name
  BY <1>1, <1>2 DEF PlaceType, Records, name
<1> QED BY <1>1, <1>2, <1>3 DEF RunningInv

(* Whatever fails, of either script, on any selection of products and any  *)
(* corpus, the next product finds neither a gateway nor a stack running    *)
(* unless docker itself failed, and a completed exit is on record unless   *)
(* leaving the stack, stopping the gateway or the writing failed (the      *)
(* finally blocks of run_semantic_memory_exit.py and                       *)
(* run_semantic_exit_corrections.py).                                      *)
THEOREM ExitLeavesNothingRunning == Spec => []NothingLeftRunning
<1>1. PlaceType /\ RunningInv /\ [Next]_vars => (PlaceType /\ RunningInv)'
  <2>1. PlaceType /\ RunningInv /\ UNCHANGED vars => (PlaceType /\ RunningInv)'
    BY DEF vars, turnVars, control, services, PlaceType, RunningInv, name
  <2>2. PlaceType /\ RunningInv /\ Next => (PlaceType /\ RunningInv)'
    BY QuietSteps, QuietRuns, GatewayRuns, UpRuns, DownRuns, UnwindRuns, CompleteRuns,
       ExceptRuns, FinallyRuns, RecordRuns, RecordFailsRuns
    DEF Next
  <2> QED BY <2>1, <2>2
<1>2. PlaceType /\ RunningInv => NothingLeftRunning
  BY DEF PlaceType, RunningInv, NothingLeftRunning
<1> QED BY PlaceInit, <1>1, <1>2, PTL DEF Spec
-----------------------------------------------------------------------------
(* What an exit keeps of the memory.  The filling is followed through the  *)
(* stores of the product; from the export on the artifact takes over.      *)

(* The corpus stores each of its events once, as every valid corpus does.  *)
StoredOnce ==
    \A i, j \in 1 .. Len(Operations) :
        /\ ~Operations[i].delete /\ ~Operations[j].delete
        /\ Operations[i].event = Operations[j].event
        => i = j

(* The events of the corpus before position n.                             *)
Seen(n) ==
    {Operations[i].event : i \in {j \in 1 .. Len(Operations) : j < n /\ ~Operations[j].delete}}

(* Where a product keeps the events; GBrain's index, commit and page files *)
(* follow each other.                                                      *)
Copies(p, s) == IF p = "gbrain-ollama" THEN {Of(s.store), s.head, s.pages} ELSE {Of(s.store)}

(* S is about the memory recorded as stored: k was kept, w was withdrawn.  *)
Clean(p, faults, w, S) == p # "mem0-native" \/ faults = 0 => S \cap w = {}
Good(p, faults, k, w, S) == (p # "mem0-native" => k \subseteq S) /\ Clean(p, faults, w, S)

(* A product's state s while it is filled, n operations being next.        *)
Filling(p, s, k, w, n) ==
    /\ s \in Wide
    /\ \A S \in Copies(p, s) : Good(p, s.faults, k, w, S)
    /\ p # "mem0-native" => /\ s.listed \subseteq Seen(n) /\ w \subseteq Seen(n)
                            /\ \A S \in Copies(p, s) : S \subseteq Seen(n)
    /\ p = "hindsight" => s.store \subseteq Events \X {0}
    /\ p = "gbrain-ollama" => s.home # "unsourced"
    /\ p = "mem0-native" /\ s.faults = 0 => Shut(p, s) /\ Keyed(p, s)

(* Positions in the program of a product p under a script c.               *)
MakeAt(p) == CASE p = "gbrain-ollama" -> 1 [] p = "mem0-native" -> 2 [] OTHER -> 3
ExportAt(p) == MakeAt(p) + 4
ForgetAt(c) == IF c = "v1" THEN 9 ELSE 8        \* Hindsight's
SyncAt == 8                                     \* GBrain's, in the correction
RebuildAt(p, c) ==
    CASE p = "gbrain-ollama" -> IF c = "v1" THEN 8 ELSE 9
      [] p = "mem0-native" -> 9
      [] OTHER -> IF c = "v1" THEN 12 ELSE 11
Two(p, c) == c = "correction" /\ p = "gbrain-ollama"   \* two runtimes are rebuilt

(* The artifact A carries the memory recorded, in each of its kinds; the   *)
(* first script's of Hindsight nothing at all.                             *)
Carries(p, c, faults, k, w, A) ==
    /\ Clean(p, faults, w, A["export"])
    /\ ~(c = "v1" /\ p = "hindsight") => Good(p, faults, k, w, A["export"])
    /\ Two(p, c) => Good(p, faults, k, w, A["canonical"])

(* What holds in the try: script c runs product p, m is the next step, n   *)
(* the next operation, s the state of the product, A the artifact, B what  *)
(* the new runtimes held and R what they recovered.                        *)
Tried(p, c, m, n, s, k, w, A, B, R) ==
    /\ n \in Nat /\ n >= 1 /\ B = {}
    /\ m <= MakeAt(p) => s = Blank /\ k = {} /\ w = {} /\ n = 1
    /\ m > MakeAt(p) /\ m <= ExportAt(p) => Filling(p, s, k, w, n)
    /\ m > ExportAt(p) => Carries(p, c, s.faults, k, w, A)
    /\ m > ForgetAt(c) /\ p = "hindsight" => s.store = {}
    /\ m > RebuildAt(p, c) => R["export"] \subseteq A["export"]
    /\ m > SyncAt /\ Two(p, c) => R["canonical"] \subseteq A["canonical"]

TryInv == Tried(name, script, step, next, a, kept, withdrawn, artifact, bases, recovered)

MemoryInv ==
    /\ a \in Wide
    /\ recovered = [k \in Kinds |-> recovered[k]]
    /\ phase = "try" => TryInv
    /\ status = "completed" =>
          /\ bases = {} /\ Carries(name, script, a.faults, kept, withdrawn, artifact)
          /\ \A k \in Reached : recovered[k] \subseteq artifact[k]

LEMMA ProgramPlaces ==
    ASSUME name \in Products3, script \in {"v1", "correction"}
    PROVE  /\ Len(Program) \in Nat /\ Len(Program) >= RebuildAt(name, script)
           /\ \A i \in 1 .. Len(Program) :
                 /\ Program[i] = "make" <=> i = MakeAt(name)
                 /\ Program[i] = "export" <=> i = ExportAt(name)
                 /\ Program[i] = "rebuild" <=> i = RebuildAt(name, script)
                 /\ Program[i] = "sync" <=> Two(name, script) /\ i = SyncAt
                 /\ Program[i] = "forget" <=> name = "hindsight" /\ i = ForgetAt(script)
                 /\ Program[i] \in {"ready", "populate", "ask"} =>
                       i > MakeAt(name) /\ i < ExportAt(name)
                 /\ Program[i] \in {"copy", "destroy", "down"} => i > ExportAt(name)
                 /\ Program[i] \in Steps
<1> USE DEF Program, Fill, MakeAt, ExportAt, RebuildAt, SyncAt, ForgetAt, Two, Steps
<1>1. CASE name = "gbrain-ollama" /\ script = "v1"
  BY <1>1
<1>2. CASE name = "gbrain-ollama" /\ script = "correction"
  BY <1>2
<1>3. CASE name = "mem0-native"
  BY <1>3
<1>4. CASE name = "hindsight" /\ script = "v1"
  <2>2. /\ MakeAt(name) = 3 /\ ExportAt(name) = 7 /\ ForgetAt(script) = 9 /\ ~Two(name, script)
        /\ RebuildAt(name, script) = 12
    BY <1>4
  <2>1. Program = <<"gateway", "up">> \o Fill
                    \o <<"export", "destroy", "forget", "down", "up", "rebuild">>
    BY <1>4
  <2>3. /\ Len(Program) = 12 /\ Program[1] = "gateway" /\ Program[2] = "up"
        /\ Program[3] = "make" /\ Program[4] = "ready" /\ Program[5] = "populate"
        /\ Program[6] = "ask" /\ Program[7] = "export" /\ Program[8] = "destroy"
        /\ Program[9] = "forget" /\ Program[10] = "down" /\ Program[11] = "up"
        /\ Program[12] = "rebuild"
    <3> HIDE DEF Program
    <3> QED BY <2>1
  <2>4. \A i \in 1 .. 12 : \/ i = 3 \/ i = 7 \/ i = 9 \/ i = 12
                         \/ i \in {1, 2, 11} \/ i \in {4, 5, 6} \/ i \in {8, 10}
    OBVIOUS
  <2> HIDE DEF Program, Fill, MakeAt, ExportAt, RebuildAt, SyncAt, ForgetAt, Two
  <2>5. /\ Program[3] = "make" /\ Program[7] = "export" /\ Program[9] = "forget"
        /\ Program[12] = "rebuild" /\ \A i \in {1, 2, 11} : Program[i] \in {"gateway", "up"}
        /\ \A i \in {4, 5, 6} : Program[i] \in {"ready", "populate", "ask"}
        /\ \A i \in {8, 10} : Program[i] \in {"destroy", "down"}
    BY <2>3
  <2> QED BY <1>4, <2>2, <2>3, <2>4, <2>5
<1>5. CASE name = "hindsight" /\ script = "correction"
  BY <1>5
<1> QED BY <1>1, <1>2, <1>3, <1>4, <1>5 DEF Products3

-----------------------------------------------------------------------------
(* Filling, operation by operation.                                        *)
LEMMA SeenNext ==
    ASSUME NEW n \in 1 .. Len(Operations)
    PROVE  /\ Operations[n].event \in Events
           /\ Operations[n].delete => Seen(n + 1) = Seen(n)
           /\ ~Operations[n].delete => /\ Seen(n + 1) = Seen(n) \cup {Operations[n].event}
                                       /\ StoredOnce => Operations[n].event \notin Seen(n)
<1>1. /\ Len(Operations) \in Nat
      /\ Operations[n].event \in Events /\ Operations[n].delete \in BOOLEAN
  <2> DEFINE O == [event : Events, delete : BOOLEAN]
  <2>1. Operations \in Seq(O)
    BY ExitAssumption
  <2>2. \A i \in 1 .. Len(Operations) : Operations[i] \in O
    <3> HIDE DEF O
    <3> QED BY <2>1
  <2>3. Len(Operations) \in Nat
    BY <2>1
  <2> QED BY <2>2, <2>3
<1>2. \A j \in 1 .. Len(Operations) : j < n + 1 <=> j < n \/ j = n
  BY <1>1
<1>3. \A e, m : e \in Seen(m) <=>
         \E j \in 1 .. Len(Operations) : j < m /\ ~Operations[j].delete /\ Operations[j].event = e
  BY DEF Seen
<1>4. CASE Operations[n].delete
  <2>1. \A e : e \in Seen(n + 1) <=> e \in Seen(n)
    BY <1>2, <1>3, <1>4
  <2> QED BY <1>1, <1>4, <2>1
<1>5. CASE ~Operations[n].delete
  <2>1. \A e : e \in Seen(n + 1) <=> e \in Seen(n) \/ e = Operations[n].event
    BY <1>2, <1>3, <1>5
  <2>2. StoredOnce => Operations[n].event \notin Seen(n)
    <3>1. \A j \in 1 .. Len(Operations) : j < n => j # n
      OBVIOUS
    <3> QED BY <1>3, <1>5, <3>1 DEF StoredOnce
  <2> QED BY <1>1, <1>5, <2>1, <2>2
<1> QED BY <1>4, <1>5

(* What an ingest and a deletion of event e do to each copy.               *)
Gains(p, s, e, r) ==
    /\ r.a \in Wide /\ (p = "hindsight" => r.a.store \subseteq Events \X {0})
    /\ p = "gbrain-ollama" => r.a.home = s.home
    /\ r.a.listed \subseteq s.listed \cup {e}
    /\ \A T \in Copies(p, r.a) : \E S \in Copies(p, s) :
          T = S \cup {e} \/ (r.raised /\ T = S)

Loses(p, s, e, r) ==
    /\ r.a \in Wide /\ (p = "hindsight" => r.a.store \subseteq Events \X {0})
    /\ p = "gbrain-ollama" => r.a.home = s.home
    /\ r.a.listed \subseteq s.listed
    /\ \A T \in Copies(p, r.a) : \E S \in Copies(p, s) :
          \/ T = S \ {e} /\ (r.raised \/ r.value = TRUE)
          \/ T = S /\ (r.raised \/ r.value # TRUE)
    /\ ~r.raised /\ r.value = TRUE => e \in s.listed \/ \E S \in Copies(p, s) : e \in S

(* What the program records of an operation.                               *)
KeptAfter(k, e, r, delete) ==
    IF delete THEN IF r.raised \/ r.value = TRUE THEN k \ {e} ELSE k
    ELSE IF r.raised THEN k ELSE k \cup {e}
WithdrawnAfter(w, e, r, delete) ==
    IF delete THEN IF ~r.raised /\ r.value = TRUE THEN w \cup {e} ELSE w
    ELSE IF r.raised THEN w ELSE w \ {e}

LEMMA HindsightIngested ==
    ASSUME NEW s \in Wide, s.store \subseteq Events \X {0}, NEW e \in Events,
           e \notin s.listed, NEW r \in Hindsight!Ingest(s, {e})
    PROVE  Gains("hindsight", s, e, r)
<1> DEFINE with(S) == [s EXCEPT !.store = @ \cup (S \X {0})]
<1>1. ASSUME NEW S \in SUBSET {e}
      PROVE  /\ with(S) \in Wide /\ with(S).store \subseteq Events \X {0}
             /\ with(S).listed = s.listed
             /\ Of(with(S).store) = Of(s.store) \cup S
  <2> DEFINE T == s.store \cup (S \X {0})
  <2>1. S \X {0} \subseteq Events \X {0} /\ Events \X {0} \subseteq Memories
    BY DEF Memories
  <2>2. Of(S \X {0}) = S
    BY OfSingle
  <2>3. Of(T) = Of(s.store) \cup S
    BY <2>2, OfUnion
  <2>4. T \in SUBSET Memories /\ T \subseteq Events \X {0}
    BY <2>1
  <2>5. with(S) = [s EXCEPT !.store = T]
    BY DEF Wide
  <2> HIDE DEF T, with
  <2> QED BY <2>3, <2>4, <2>5 DEF Wide
<1>2. \/ \E n : r = Hindsight!Returned([with({e}) EXCEPT !.listed = @ \cup {e}], n)
      \/ \E S \in SUBSET {e} : r = Hindsight!RaisedFrom(with(S))
  <2>1. {e} \ s.listed = {e}
    OBVIOUS
  <2> QED BY <2>1 DEF Hindsight!Ingest, Hindsight!Documents
<1> HIDE DEF with
<1>3. ASSUME NEW n, r = Hindsight!Returned([with({e}) EXCEPT !.listed = @ \cup {e}], n)
      PROVE  Gains("hindsight", s, e, r)
  <2> DEFINE w == with({e})
  <2>1. r.a = [w EXCEPT !.listed = @ \cup {e}] /\ r.raised = FALSE
    BY <1>3 DEF Hindsight!Returned
  <2>2. /\ w \in Wide /\ w.store \subseteq Events \X {0} /\ w.listed = s.listed
        /\ Of(w.store) = Of(s.store) \cup {e}
    BY <1>1
  <2> HIDE DEF w
  <2>3. r.a \in Wide /\ r.a.store = w.store /\ r.a.listed = s.listed \cup {e}
    BY <2>1, <2>2 DEF Wide
  <2> QED BY <2>2, <2>3 DEF Gains, Copies
<1>4. ASSUME NEW S \in SUBSET {e}, r = Hindsight!RaisedFrom(with(S))
      PROVE  Gains("hindsight", s, e, r)
  <2> DEFINE w == with(S)
  <2>1. r.a = [w EXCEPT !.faults = @ + 1] /\ r.raised = TRUE
    BY <1>4 DEF Hindsight!RaisedFrom, Hindsight!Refused, Hindsight!Failing
  <2>2. /\ w \in Wide /\ w.store \subseteq Events \X {0} /\ w.listed = s.listed
        /\ Of(w.store) = Of(s.store) \cup S
    BY <1>1
  <2>4. Of(w.store) = Of(s.store) \/ Of(w.store) = Of(s.store) \cup {e}
    <3> HIDE DEF w
    <3>1. S = {} \/ S = {e}
      OBVIOUS
    <3> QED BY <2>2, <3>1
  <2> HIDE DEF w
  <2>3. r.a \in Wide /\ r.a.store = w.store /\ r.a.listed = s.listed
    BY <2>1, <2>2 DEF Wide
  <2> QED BY <2>1, <2>2, <2>3, <2>4 DEF Gains, Copies
<1> QED BY <1>2, <1>3, <1>4

LEMMA HindsightDeleted ==
    ASSUME NEW s \in Wide, s.store \subseteq Events \X {0}, NEW e \in Events,
           NEW r \in Hindsight!Delete(s, e)
    PROVE  Loses("hindsight", s, e, r)
<1> DEFINE gone == [s EXCEPT !.store = @ \ ({e} \X {0})]
<1>1. /\ gone \in Wide /\ gone.store = s.store \ ({e} \X {0}) /\ gone.listed = s.listed
      /\ gone.store \subseteq Events \X {0}
  BY DEF Wide
<1>2. Of(gone.store) = Of(s.store) \ {e}
  BY <1>1, OfWithout
<1>3. \/ r = Hindsight!Returned(s, FALSE)
      \/ e \in s.listed /\ r = Hindsight!Returned([gone EXCEPT !.listed = @ \ {e}], TRUE)
      \/ \E b \in {s, gone} : r = Hindsight!RaisedFrom(b)
  BY DEF Hindsight!Delete, Hindsight!Documents
<1> HIDE DEF gone
<1>4. CASE r = Hindsight!Returned(s, FALSE)
  BY <1>4 DEF Hindsight!Returned, Loses, Copies
<1>5. CASE e \in s.listed /\ r = Hindsight!Returned([gone EXCEPT !.listed = @ \ {e}], TRUE)
  <2>1. r.a = [gone EXCEPT !.listed = @ \ {e}] /\ r.raised = FALSE /\ r.value = TRUE
    BY <1>5 DEF Hindsight!Returned
  <2>2. r.a \in Wide /\ r.a.store = gone.store /\ r.a.listed = s.listed \ {e}
    BY <1>1, <2>1 DEF Wide
  <2> QED BY <1>1, <1>2, <1>5, <2>1, <2>2 DEF Loses, Copies
<1>6. ASSUME NEW b \in {s, gone}, r = Hindsight!RaisedFrom(b)
      PROVE  Loses("hindsight", s, e, r)
  <2>1. r.a = [b EXCEPT !.faults = @ + 1] /\ r.raised = TRUE /\ b \in Wide
        /\ b.listed = s.listed
    BY <1>1, <1>6 DEF Hindsight!RaisedFrom, Hindsight!Refused, Hindsight!Failing
  <2>2. r.a \in Wide /\ r.a.store = b.store /\ r.a.listed = s.listed
    BY <2>1 DEF Wide
  <2>3. b.store = s.store \/ b.store = gone.store
    OBVIOUS
  <2> QED BY <1>1, <1>2, <2>1, <2>2, <2>3 DEF Loses, Copies
<1> QED BY <1>3, <1>4, <1>5, <1>6

(* GBrain: page files, commit and index, one after the other.              *)
LEMMA GBrainCopies ==
    ASSUME NEW s \in Wide, NEW b \in Wide, b.head = s.head, b.store = s.store,
           b.listed = s.listed, b.home = s.home, s.home # "unsourced",
           NEW r \in GBrain!CommitAndSync(b)
    PROVE  /\ r.a \in Wide /\ r.a.listed = s.listed /\ r.a.home = s.home
           /\ \A T \in Copies("gbrain-ollama", r.a) :
                 T = b.pages \/ (r.raised /\ T \in Copies("gbrain-ollama", s))
<1> DEFINE c == GBrain!Committed(b)
           y == GBrain!Synced(c)
<1>1. /\ c \in Wide /\ c.store = s.store /\ c.listed = s.listed
      /\ c.pages = b.pages /\ c.head = b.pages /\ c.home = s.home
  BY DEF Wide, GBrain!Committed
<1>2. r = GBrain!Returned(y, {}) \/ r = GBrain!RaisedFrom(b) \/ r = GBrain!RaisedFrom(c)
  <2>1. GBrain!Indexed(c) = {y}
    BY <1>1 DEF GBrain!Indexed
  <2> QED BY <2>1 DEF GBrain!CommitAndSync
<1> HIDE DEF c
<1>3. /\ y \in Wide /\ y.listed = s.listed /\ y.home = s.home
      /\ y.pages = b.pages /\ y.head = b.pages /\ y.store = b.pages \X {0}
  <2>1. c.head \X {0} \subseteq Memories
    BY <1>1 DEF Memories, Wide
  <2> QED BY <1>1, <2>1 DEF Wide, GBrain!Synced, GBrain!Pages
<1> HIDE DEF y
<1>4. CASE r = GBrain!Returned(y, {})
  <2>1. Of(b.pages \X {0}) = b.pages
    BY OfSingle
  <2>2. r.a = y
    BY <1>4 DEF GBrain!Returned
  <2> QED BY <1>3, <2>1, <2>2 DEF Copies
<1>5. ASSUME NEW w \in {b, c}, r = GBrain!RaisedFrom(w)
      PROVE  /\ r.a \in Wide /\ r.a.listed = s.listed /\ r.raised = TRUE /\ r.a.home = s.home
             /\ r.a.pages = b.pages /\ r.a.store = s.store
             /\ r.a.head = b.pages \/ r.a.head = s.head
  <2>1. /\ w \in Wide /\ w.listed = s.listed /\ w.pages = b.pages /\ w.store = s.store
        /\ w.home = s.home
        /\ w.head = b.pages \/ w.head = s.head
    BY <1>1
  <2>2. r.raised = TRUE /\ r.a = [w EXCEPT !.faults = @ + 1]
    BY <1>5 DEF GBrain!RaisedFrom, GBrain!Refused, GBrain!Failing
  <2> QED BY <2>1, <2>2 DEF Wide
<1>6. CASE \E w \in {b, c} : r = GBrain!RaisedFrom(w)
  BY <1>5, <1>6 DEF Copies
<1> QED BY <1>2, <1>4, <1>6

LEMMA GBrainIngested ==
    ASSUME NEW s \in Wide, s.home # "unsourced", NEW e \in Events, e \notin s.listed,
           NEW r \in GBrain!Ingest(s, {e})
    PROVE  Gains("gbrain-ollama", s, e, r)
<1> DEFINE b == GBrain!Written(s, {e})
<1>1. /\ b \in Wide /\ b.head = s.head /\ b.store = s.store /\ b.listed = s.listed /\ b.home = s.home
      /\ b.pages = s.pages \cup {e}
  BY DEF Wide, GBrain!Written
<1>2. {e} \ s.listed = {e}
  OBVIOUS
<1>3. \/ \E f \in GBrain!CommitAndSync(b) : \E v : r = GBrain!ThenListed(f, s.listed \cup {e}, v)
      \/ r = GBrain!RaisedFrom(s)
  <2>1. \A S \in (SUBSET {e}) \ {{e}} : S = {}
    OBVIOUS
  <2>2. GBrain!Written(s, {}) = s
    BY DEF Wide, GBrain!Written
  <2>3. \/ \E f \in GBrain!CommitAndSync(b) : \E v : r = GBrain!ThenListed(f, s.listed \cup {e}, v)
        \/ \E S \in (SUBSET {e}) \ {{e}} : r = GBrain!RaisedFrom(GBrain!Written(s, S))
    BY <1>2 DEF GBrain!Ingest
  <2> QED BY <2>1, <2>2, <2>3
<1> HIDE DEF b
<1>5. s.pages \in Copies("gbrain-ollama", s)
  BY DEF Copies
<1>8. ASSUME NEW f \in GBrain!CommitAndSync(b), NEW v,
             r = GBrain!ThenListed(f, s.listed \cup {e}, v)
      PROVE  Gains("gbrain-ollama", s, e, r)
  <2>4. /\ f.a \in Wide /\ f.a.listed = s.listed /\ f.a.home = s.home
        /\ \A T \in Copies("gbrain-ollama", f.a) :
              T = b.pages \/ (f.raised /\ T \in Copies("gbrain-ollama", s))
    BY <1>1, GBrainCopies
  <2>6. CASE f.raised
    <3>1. r = f
      BY <1>8, <2>6 DEF GBrain!ThenListed
    <3> QED BY <1>1, <2>4, <1>5, <2>6, <3>1 DEF Gains
  <2>7. CASE ~f.raised
    <3>1. r.a = [f.a EXCEPT !.listed = s.listed \cup {e}]
      BY <1>8, <2>7 DEF GBrain!ThenListed, GBrain!Returned
    <3>2. /\ r.a \in Wide /\ r.a.listed = s.listed \cup {e} /\ r.a.store = f.a.store
          /\ r.a.head = f.a.head /\ r.a.pages = f.a.pages /\ r.a.home = f.a.home
      BY <2>4, <3>1 DEF Wide
    <3>3. Copies("gbrain-ollama", r.a) = Copies("gbrain-ollama", f.a)
      BY <3>2 DEF Copies
    <3> QED BY <1>1, <2>4, <1>5, <2>7, <3>2, <3>3 DEF Gains
  <2> QED BY <2>6, <2>7
<1>9. CASE r = GBrain!RaisedFrom(s)
  <2>1. r.a = [s EXCEPT !.faults = @ + 1] /\ r.raised = TRUE
    BY <1>9 DEF GBrain!RaisedFrom, GBrain!Refused, GBrain!Failing
  <2>2. /\ r.a \in Wide /\ r.a.listed = s.listed /\ r.a.store = s.store /\ r.a.head = s.head
        /\ r.a.pages = s.pages /\ r.a.home = s.home
    BY <2>1 DEF Wide
  <2>3. Copies("gbrain-ollama", r.a) = Copies("gbrain-ollama", s)
    BY <2>2 DEF Copies
  <2> QED BY <2>1, <2>2, <2>3 DEF Gains
<1> QED BY <1>3, <1>8, <1>9

LEMMA GBrainDeleted ==
    ASSUME NEW s \in Wide, s.home # "unsourced", NEW e \in Events, NEW r \in GBrain!Delete(s, e)
    PROVE  Loses("gbrain-ollama", s, e, r)
<1> DEFINE b == GBrain!Unlinked(s, e)
<1>1. /\ b \in Wide /\ b.head = s.head /\ b.store = s.store /\ b.listed = s.listed /\ b.home = s.home
      /\ b.pages = s.pages \ {e}
  BY DEF Wide, GBrain!Unlinked
<1>2. \/ /\ e \in s.pages
         /\ \E f \in GBrain!CommitAndSync(b) : r = GBrain!ThenListed(f, s.listed \ {e}, TRUE)
      \/ r = GBrain!ThenListed(GBrain!Returned(s, {}), s.listed \ {e}, FALSE)
  <2>1. CASE e \in s.pages
    <3>1. (e \in s.pages) = TRUE
      BY <2>1
    <3>2. \E f \in GBrain!CommitAndSync(b) : r = GBrain!ThenListed(f, s.listed \ {e}, e \in s.pages)
      BY <2>1 DEF GBrain!Delete
    <3> QED BY <2>1, <3>1, <3>2
  <2>2. CASE e \notin s.pages
    <3>1. (e \in s.pages) = FALSE
      BY <2>2
    <3>2. r = GBrain!ThenListed(GBrain!Returned(s, {}), s.listed \ {e}, e \in s.pages)
      BY <2>2 DEF GBrain!Delete
    <3> QED BY <3>1, <3>2
  <2> QED BY <2>1, <2>2
<1> HIDE DEF b
<1>3. s.pages \in Copies("gbrain-ollama", s)
  BY DEF Copies
<1>4. ASSUME NEW f, f.a \in Wide, f.a.listed = s.listed, f.a.home = s.home, ~f.raised, NEW v,
             r = GBrain!ThenListed(f, s.listed \ {e}, v)
      PROVE  /\ r.a.home = s.home
             /\ r.a \in Wide /\ r.a.listed = s.listed \ {e} /\ r.raised = FALSE /\ r.value = v
             /\ Copies("gbrain-ollama", r.a) = Copies("gbrain-ollama", f.a)
  <2>1. r.a = [f.a EXCEPT !.listed = s.listed \ {e}] /\ r.raised = FALSE /\ r.value = v
    BY <1>4 DEF GBrain!ThenListed, GBrain!Returned
  <2>2. /\ r.a \in Wide /\ r.a.listed = s.listed \ {e} /\ r.a.store = f.a.store
        /\ r.a.head = f.a.head /\ r.a.pages = f.a.pages /\ r.a.home = f.a.home
    BY <1>4, <2>1 DEF Wide
  <2>3. Copies("gbrain-ollama", r.a) = Copies("gbrain-ollama", f.a)
    BY <2>2 DEF Copies
  <2> QED BY <1>4, <2>1, <2>2, <2>3
<1>5. CASE r = GBrain!ThenListed(GBrain!Returned(s, {}), s.listed \ {e}, FALSE)
  <2> DEFINE f == GBrain!Returned(s, {})
  <2>1. f.a = s /\ f.raised = FALSE
    BY DEF GBrain!Returned
  <2> HIDE DEF f
  <2>2. /\ r.a \in Wide /\ r.a.listed = s.listed \ {e} /\ r.raised = FALSE /\ r.value = FALSE
        /\ r.a.home = s.home
        /\ Copies("gbrain-ollama", r.a) = Copies("gbrain-ollama", s)
    <3>1. r = GBrain!ThenListed(f, s.listed \ {e}, FALSE)
      BY <1>5 DEF f
    <3>2. f.a \in Wide /\ f.a.listed = s.listed /\ f.a.home = s.home /\ ~f.raised /\ f.a = s
      BY <2>1
    <3> QED BY <1>4, <3>1, <3>2
  <2> QED BY <2>2 DEF Loses
<1>6. ASSUME e \in s.pages, NEW f \in GBrain!CommitAndSync(b),
             r = GBrain!ThenListed(f, s.listed \ {e}, TRUE)
      PROVE  Loses("gbrain-ollama", s, e, r)
  <2>1. /\ f.a \in Wide /\ f.a.listed = s.listed /\ f.a.home = s.home
        /\ \A T \in Copies("gbrain-ollama", f.a) :
              T = b.pages \/ (f.raised /\ T \in Copies("gbrain-ollama", s))
    BY <1>1, GBrainCopies
  <2>2. CASE f.raised
    <3>1. r = f
      BY <1>6, <2>2 DEF GBrain!ThenListed
    <3> QED BY <1>1, <1>3, <1>6, <2>1, <2>2, <3>1 DEF Loses
  <2>3. CASE ~f.raised
    <3>1. /\ r.a \in Wide /\ r.a.listed = s.listed \ {e} /\ r.raised = FALSE /\ r.value = TRUE
          /\ r.a.home = s.home
          /\ Copies("gbrain-ollama", r.a) = Copies("gbrain-ollama", f.a)
      BY <1>4, <1>6, <2>1, <2>3
    <3> QED BY <1>1, <1>3, <1>6, <2>1, <2>3, <3>1 DEF Loses
  <2> QED BY <2>2, <2>3
<1> QED BY <1>2, <1>5, <1>6

(* Mem0's inference: only a call that met no failure is followed.          *)
LEMMA Mem0Faults ==
    ASSUME NEW s, NEW b \in Wide, b.faults = s.faults, NEW r, r = Mem0!RaisedFrom(b)
    PROVE  r.a.faults # s.faults
<1>1. r.a = [b EXCEPT !.faults = @ + 1]
  BY DEF Mem0!RaisedFrom, Mem0!Refused, Mem0!Failing
<1> QED BY <1>1, Faulted

LEMMA Mem0DeleteFaults ==
    ASSUME NEW s \in Wide, NEW e, NEW r \in Mem0!Delete(s, e), r.raised
    PROVE  r.a.faults # s.faults
<1> DEFINE D == Mem0!KeysOf(s, e)
           without(E) == [Mem0!Opened(s) EXCEPT !.store = @ \ E, !.keys = @ \ E]
<1>0. \A E : LET w == without(E) IN w \in Wide /\ w.faults = s.faults
  BY DEF Mem0!Opened, Wide
<1>1. \/ r = Mem0!Returned(s, FALSE)
      \/ r = Mem0!Returned([without(D) EXCEPT !.listed = @ \ {e}], TRUE)
      \/ \E E \in SUBSET D : r = Mem0!RaisedFrom(without(E))
  BY DEF Mem0!Delete
<1> HIDE DEF D, without
<1>2. \A b, v : r # Mem0!Returned(b, v)
  BY DEF Mem0!Returned
<1>3. PICK E \in SUBSET D : r = Mem0!RaisedFrom(without(E))
  BY <1>1, <1>2
<1> QED BY <1>0, <1>3, Mem0Faults

LEMMA Mem0IngestFaults ==
    ASSUME NEW s \in Wide, NEW e \in Events, NEW r \in Mem0!Ingest(s, {e}, TRUE), r.raised
    PROVE  r.a.faults # s.faults
<1>1. "mem0-native" \in Mem0s /\ Infer("mem0-native") = TRUE /\ {e} \in SUBSET Events
  BY DEF Mem0s, Infer
<1> QED BY <1>1, Mem0Ingest

-----------------------------------------------------------------------------
(* One operation of the corpus.                                            *)
LEMMA FillingGains ==
    ASSUME NEW p \in {"gbrain-ollama", "hindsight"}, NEW s, NEW k, NEW w,
           NEW n \in 1 .. Len(Operations), Filling(p, s, k, w, n), ~Operations[n].delete, StoredOnce,
           NEW r, Gains(p, s, Operations[n].event, r)
    PROVE  Filling(p, r.a, KeptAfter(k, Operations[n].event, r, FALSE),
                   WithdrawnAfter(w, Operations[n].event, r, FALSE), n + 1)
<1> DEFINE e == Operations[n].event
           j == KeptAfter(k, e, r, FALSE)
           v == WithdrawnAfter(w, e, r, FALSE)
<1>0. p # "mem0-native"
  OBVIOUS
<1>1. e \notin Seen(n) /\ Seen(n + 1) = Seen(n) \cup {e}
  BY SeenNext
<1>2. /\ r.raised => j = k /\ v = w
      /\ ~r.raised => j = k \cup {e} /\ v = w \ {e}
  BY DEF KeptAfter, WithdrawnAfter
<1> HIDE DEF e, j, v
<1>3. /\ \A S \in Copies(p, s) : k \subseteq S /\ S \cap w = {} /\ S \subseteq Seen(n)
      /\ s.listed \subseteq Seen(n) /\ w \subseteq Seen(n)
  BY <1>0 DEF Filling, Good, Clean
<1>4. /\ r.a \in Wide /\ (p = "hindsight" => r.a.store \subseteq Events \X {0})
      /\ p = "gbrain-ollama" => r.a.home # "unsourced"
      /\ r.a.listed \subseteq s.listed \cup {e}
      /\ \A T \in Copies(p, r.a) : \E S \in Copies(p, s) :
            T = S \cup {e} \/ (r.raised /\ T = S)
  BY DEF Gains, e, Filling
<1>5. ASSUME NEW T \in Copies(p, r.a)
      PROVE  j \subseteq T /\ T \cap v = {} /\ T \subseteq Seen(n + 1)
  <2>1. PICK S \in Copies(p, s) : T = S \cup {e} \/ (r.raised /\ T = S)
    BY <1>4
  <2>2. k \subseteq S /\ S \cap w = {} /\ S \subseteq Seen(n)
    BY <1>3
  <2>3. CASE r.raised
    BY <1>1, <1>2, <1>3, <2>1, <2>2, <2>3
  <2>4. CASE ~r.raised
    BY <1>1, <1>2, <2>1, <2>2, <2>4
  <2> QED BY <2>3, <2>4
<1>6. v \subseteq Seen(n + 1) /\ r.a.listed \subseteq Seen(n + 1)
  BY <1>1, <1>2, <1>3, <1>4
<1>7. Filling(p, r.a, j, v, n + 1)
  BY <1>0, <1>4, <1>5, <1>6 DEF Filling, Good, Clean
<1> QED BY <1>7 DEF j, v, e

LEMMA FillingLoses ==
    ASSUME NEW p \in {"gbrain-ollama", "hindsight"}, NEW s, NEW k, NEW w,
           NEW n \in 1 .. Len(Operations), Filling(p, s, k, w, n), Operations[n].delete,
           NEW r, Loses(p, s, Operations[n].event, r)
    PROVE  Filling(p, r.a, KeptAfter(k, Operations[n].event, r, TRUE),
                   WithdrawnAfter(w, Operations[n].event, r, TRUE), n + 1)
<1> DEFINE e == Operations[n].event
           j == KeptAfter(k, e, r, TRUE)
           v == WithdrawnAfter(w, e, r, TRUE)
<1>0. p # "mem0-native"
  OBVIOUS
<1>1. Seen(n + 1) = Seen(n)
  BY SeenNext
<1>2. /\ r.raised => j = k \ {e} /\ v = w
      /\ ~r.raised /\ r.value = TRUE => j = k \ {e} /\ v = w \cup {e}
      /\ ~r.raised /\ r.value # TRUE => j = k /\ v = w
  BY DEF KeptAfter, WithdrawnAfter
<1> HIDE DEF e, j, v
<1>3. /\ \A S \in Copies(p, s) : k \subseteq S /\ S \cap w = {} /\ S \subseteq Seen(n)
      /\ s.listed \subseteq Seen(n) /\ w \subseteq Seen(n)
  BY <1>0 DEF Filling, Good, Clean
<1>4. /\ r.a \in Wide /\ (p = "hindsight" => r.a.store \subseteq Events \X {0})
      /\ p = "gbrain-ollama" => r.a.home # "unsourced"
      /\ r.a.listed \subseteq s.listed
      /\ \A T \in Copies(p, r.a) : \E S \in Copies(p, s) :
            \/ T = S \ {e} /\ (r.raised \/ r.value = TRUE)
            \/ T = S /\ (r.raised \/ r.value # TRUE)
      /\ ~r.raised /\ r.value = TRUE => e \in s.listed \/ \E S \in Copies(p, s) : e \in S
  BY DEF Loses, e, Filling
<1>5. ASSUME NEW T \in Copies(p, r.a)
      PROVE  j \subseteq T /\ T \cap v = {} /\ T \subseteq Seen(n + 1)
  <2>1. PICK S \in Copies(p, s) :
          \/ T = S \ {e} /\ (r.raised \/ r.value = TRUE)
          \/ T = S /\ (r.raised \/ r.value # TRUE)
    BY <1>4
  <2>2. k \subseteq S /\ S \cap w = {} /\ S \subseteq Seen(n)
    BY <1>3
  <2>3. CASE r.raised
    <3>1. j = k \ {e} /\ v = w
      BY <1>2, <2>3
    <3> QED BY <1>1, <2>1, <2>2, <3>1
  <2>4. CASE ~r.raised /\ r.value = TRUE
    <3>1. j = k \ {e} /\ v = w \cup {e} /\ T = S \ {e}
      BY <1>2, <2>1, <2>4
    <3> QED BY <1>1, <2>2, <3>1
  <2>5. CASE ~r.raised /\ r.value # TRUE
    <3>1. j = k /\ v = w
      BY <1>2, <2>5
    <3>2. T = S
      BY <2>1, <2>5
    <3> QED BY <1>1, <2>2, <3>1, <3>2
  <2> QED BY <2>3, <2>4, <2>5
<1>6. v \subseteq Seen(n + 1) /\ r.a.listed \subseteq Seen(n + 1)
  <2>1. ~r.raised /\ r.value = TRUE => e \in Seen(n)
    BY <1>3, <1>4
  <2>2. v = w \/ (v = w \cup {e} /\ e \in Seen(n))
    BY <1>2, <2>1
  <2> QED BY <1>1, <1>3, <1>4, <2>2
<1>7. Filling(p, r.a, j, v, n + 1)
  BY <1>0, <1>4, <1>5, <1>6 DEF Filling, Good, Clean
<1> QED BY <1>7 DEF j, v, e

LEMMA FillingMem0 ==
    ASSUME NEW s \in Wide, NEW k, NEW w, NEW n, NEW m, Filling("mem0-native", s, k, w, n),
           NEW e \in Events, NEW delete \in BOOLEAN,
           NEW r \in IF delete THEN DeleteOf("mem0-native", s, e)
                              ELSE IngestOf("mem0-native", s, {e})
    PROVE  Filling("mem0-native", r.a, KeptAfter(k, e, r, delete),
                   WithdrawnAfter(w, e, r, delete), m)
<1> DEFINE p == "mem0-native"
           v == WithdrawnAfter(w, e, r, delete)
<1>0. p \in Mem0s /\ p \in AllProducts /\ Infer(p) = TRUE /\ Shaped(p, s)
  BY DEF Mem0s, AllProducts, Exporting, Infer, Shaped, Storeless, Single, GBrains, OptMems,
         Lists, Fixed
<1>1. s.faults = 0 => Of(s.store) \cap w = {} /\ Shut(p, s) /\ Keyed(p, s)
  BY DEF Filling, Good, Clean, Copies
<1>2. Held(p, s) = Of(s.store) /\ Held(p, r.a) = Of(r.a.store)
  BY DEF Held
<1>3. ASSUME Kept(p, s, r), r.raised => r.a.faults # s.faults,
             ~r.raised /\ r.a.faults = s.faults /\ Keyed(p, s) =>
                \/ delete /\ r.value # TRUE /\ Held(p, r.a) \subseteq Held(p, s)
                \/ delete /\ r.value = TRUE /\ Held(p, r.a) \subseteq Held(p, s) \ {e}
                \/ ~delete /\ Held(p, r.a) \subseteq Held(p, s) \cup {e}
      PROVE  Filling(p, r.a, KeptAfter(k, e, r, delete), v, m)
  <2>1. r.a \in Wide /\ r.a.faults \in Nat /\ s.faults \in Nat /\ r.a.faults >= s.faults
    BY <1>3 DEF Kept, Sound, Wide
  <2>2. ASSUME r.a.faults = 0
        PROVE  Of(r.a.store) \cap v = {} /\ Shut(p, r.a) /\ Keyed(p, r.a)
    <3>1. s.faults = 0 /\ ~r.raised /\ r.a.faults = s.faults
      BY <1>3, <2>1, <2>2
    <3>2. Shut(p, r.a) /\ Keyed(p, r.a)
      BY <1>1, <1>3, <3>1 DEF Kept
    <3>3. /\ delete /\ r.value = TRUE => v = w \cup {e}
          /\ delete /\ r.value # TRUE => v = w
          /\ ~delete => v = w \ {e}
      BY <3>1 DEF WithdrawnAfter
    <3> HIDE DEF v
    <3>4. Of(r.a.store) \cap v = {}
      BY <1>1, <1>2, <1>3, <3>1, <3>3
    <3> QED BY <3>2, <3>4
  <2> QED BY <2>1, <2>2 DEF Filling, Good, Clean, Copies
<1>4. CASE delete
  <2>0. DeleteOf(p, s, e) = Mem0!Delete(s, e)
    BY DEF DeleteOf, Mem0s, GBrains, OptMems, Lists, Fixed
  <2>1. r \in Mem0!Delete(s, e)
    BY <1>4, <2>0
  <2>2. Deleted(p, s, e, r)
    BY <1>0, <2>1, Mem0Delete
  <2>3. r.raised => r.a.faults # s.faults
    BY <2>1, Mem0DeleteFaults
  <2>4. Kept(p, s, r)
    BY <2>2 DEF Deleted
  <2>5. ~r.raised /\ r.a.faults = s.faults /\ Keyed(p, s) => Held(p, r.a) \subseteq Held(p, s) \ {e}
    BY <1>0, <2>2 DEF Deleted
  <2> QED BY <1>3, <1>4, <2>3, <2>4, <2>5
<1>5. CASE ~delete
  <2>0. IngestOf(p, s, {e}) = Mem0!Ingest(s, {e}, TRUE)
    BY <1>0 DEF IngestOf, Mem0s, GBrains, OptMems, Lists, Fixed
  <2>1. r \in Mem0!Ingest(s, {e}, TRUE) /\ r \in IngestOf(p, s, {e})
    BY <1>5, <2>0
  <2>2. Filled(p, s, {e}, r)
    BY <1>0, <2>1, FilledBy
  <2>3. r.raised => r.a.faults # s.faults
    BY <2>1, Mem0IngestFaults
  <2>4. Kept(p, s, r)
    BY <2>2 DEF Filled
  <2>5. ~r.raised /\ r.a.faults = s.faults => Held(p, r.a) \subseteq Held(p, s) \cup {e}
    BY <1>0, <2>2 DEF Filled
  <2> QED BY <1>3, <1>5, <2>3, <2>4, <2>5
<1> QED BY <1>4, <1>5

LEMMA FillingIngest ==
    ASSUME NEW p \in Products3, NEW s, NEW k, NEW w, NEW n \in 1 .. Len(Operations),
           Filling(p, s, k, w, n), ~Operations[n].delete, StoredOnce,
           NEW r \in IngestOf(p, s, {Operations[n].event})
    PROVE  Filling(p, r.a, KeptAfter(k, Operations[n].event, r, FALSE),
                   WithdrawnAfter(w, Operations[n].event, r, FALSE), n + 1)
<1> DEFINE e == Operations[n].event
<1>0. e \in Events /\ s \in Wide
  BY SeenNext DEF Filling
<1>1. p # "mem0-native" => e \notin s.listed
  <2>1. e \notin Seen(n)
    BY SeenNext
  <2> QED BY <2>1 DEF Filling
<1>2. r \in IngestOf(p, s, {e})
  OBVIOUS
<1> HIDE DEF e
<1>3. CASE p = "mem0-native"
  <2>1. r \in IF FALSE THEN DeleteOf("mem0-native", s, e) ELSE IngestOf("mem0-native", s, {e})
    BY <1>2, <1>3
  <2> QED BY <1>0, <1>3, <2>1, FillingMem0 DEF e
<1>4. CASE p = "hindsight"
  <2>1. IngestOf(p, s, {e}) = Hindsight!Ingest(s, {e})
    BY <1>4 DEF IngestOf, Mem0s, GBrains, OptMems, Lists, Fixed
  <2>2. s.store \subseteq Events \X {0}
    BY <1>4 DEF Filling
  <2>3. Gains(p, s, e, r)
    BY <1>0, <1>1, <1>2, <1>4, <2>1, <2>2, HindsightIngested
  <2> QED BY <1>4, <2>3, FillingGains DEF e
<1>5. CASE p = "gbrain-ollama"
  <2>1. IngestOf(p, s, {e}) = GBrain!Ingest(s, {e})
    BY <1>5 DEF IngestOf, Mem0s, GBrains, OptMems, Lists, Fixed
  <2>2. Gains(p, s, e, r)
    BY <1>0, <1>1, <1>2, <1>5, <2>1, GBrainIngested DEF Filling
  <2> QED BY <1>5, <2>2, FillingGains DEF e
<1> QED BY <1>3, <1>4, <1>5 DEF Products3

LEMMA FillingDelete ==
    ASSUME NEW p \in Products3, NEW s, NEW k, NEW w, NEW n \in 1 .. Len(Operations),
           Filling(p, s, k, w, n), Operations[n].delete,
           NEW r \in DeleteOf(p, s, Operations[n].event)
    PROVE  Filling(p, r.a, KeptAfter(k, Operations[n].event, r, TRUE),
                   WithdrawnAfter(w, Operations[n].event, r, TRUE), n + 1)
<1> DEFINE e == Operations[n].event
<1>0. e \in Events /\ s \in Wide
  BY SeenNext DEF Filling
<1>2. r \in DeleteOf(p, s, e)
  OBVIOUS
<1> HIDE DEF e
<1>3. CASE p = "mem0-native"
  <2>1. r \in IF TRUE THEN DeleteOf("mem0-native", s, e) ELSE IngestOf("mem0-native", s, {e})
    BY <1>2, <1>3
  <2> QED BY <1>0, <1>3, <2>1, FillingMem0 DEF e
<1>4. CASE p = "hindsight"
  <2>1. DeleteOf(p, s, e) = Hindsight!Delete(s, e)
    BY <1>4 DEF DeleteOf, Mem0s, GBrains, OptMems, Lists, Fixed
  <2>2. s.store \subseteq Events \X {0}
    BY <1>4 DEF Filling
  <2>3. Loses(p, s, e, r)
    BY <1>0, <1>2, <1>4, <2>1, <2>2, HindsightDeleted
  <2> QED BY <1>4, <2>3, FillingLoses DEF e
<1>5. CASE p = "gbrain-ollama"
  <2>1. DeleteOf(p, s, e) = GBrain!Delete(s, e)
    BY <1>5 DEF DeleteOf, Mem0s, GBrains, OptMems, Lists, Fixed
  <2>2. Loses(p, s, e, r)
    BY <1>0, <1>2, <1>5, <2>1, GBrainDeleted DEF Filling
  <2> QED BY <1>5, <2>2, FillingLoses DEF e
<1> QED BY <1>3, <1>4, <1>5 DEF Products3

(* Waiting and asking move nothing.                                        *)
Still(s, b) ==
    /\ b \in Wide /\ b.faults >= s.faults /\ b.store = s.store /\ b.keys = s.keys
    /\ b.listed = s.listed /\ b.pages = s.pages /\ b.head = s.head /\ (s.open => b.open)
    /\ b.home = s.home

LEMMA FillingStill ==
    ASSUME NEW p, NEW s, NEW k, NEW w, NEW n, Filling(p, s, k, w, n), NEW b, Still(s, b)
    PROVE  Filling(p, b, k, w, n)
<1>1. s.faults \in Nat /\ b.faults \in Nat /\ (b.faults = 0 => s.faults = 0)
  BY DEF Filling, Still, Wide
<1>2. Copies(p, b) = Copies(p, s)
  BY DEF Still, Copies
<1>3. (Shut(p, s) => Shut(p, b)) /\ (Keyed(p, s) => Keyed(p, b))
  BY DEF Still, Shut, Keyed
<1>4. \A S : Good(p, s.faults, k, w, S) => Good(p, b.faults, k, w, S)
  BY <1>1 DEF Good, Clean
<1> QED BY <1>1, <1>2, <1>3, <1>4 DEF Filling, Still

LEMMA StillOf ==
    ASSUME NEW p \in Products3, NEW s \in Wide, NEW q,
           NEW r \in AwaitReadyOf(p, s) \cup RetrieveOf(p, s, q)
    PROVE  Still(s, r.a)
<1> DEFINE o == Mem0!Opened(s)
<1>1. /\ o \in Wide /\ o.faults = s.faults /\ o.store = s.store /\ o.keys = s.keys
      /\ o.listed = s.listed /\ o.pages = s.pages /\ o.head = s.head /\ o.open /\ o.home = s.home
  BY DEF Mem0!Opened, Wide
<1> HIDE DEF o
<1>2. r.a \in {s, o} \/ r.a = [s EXCEPT !.faults = @ + 1] \/ r.a = [o EXCEPT !.faults = @ + 1]
  <2>1. CASE p = "mem0-native"
    <3>1. /\ AwaitReadyOf(p, s) = Mem0!AwaitReady(s)
          /\ RetrieveOf(p, s, q) = Mem0!Retrieve(s, q)
      BY <2>1 DEF AwaitReadyOf, RetrieveOf, Mem0s, GBrains, OptMems
    <3>2. r \in Mem0!AwaitReady(s) \/ r \in Mem0!Retrieve(s, q)
      BY <3>1
    <3>3. CASE r \in Mem0!AwaitReady(s)
      <4>1. r = Mem0!Returned(o, {}) \/ r = Mem0!RaisedFrom(s)
        BY <3>3 DEF Mem0!AwaitReady, o
      <4> QED BY <4>1 DEF Mem0!RaisedFrom, Mem0!Refused, Mem0!Failing, Mem0!Returned
    <3>4. CASE r \in Mem0!Retrieve(s, q)
      <4>1. \/ r = Mem0!RaisedFrom(o)
            \/ \E hits \in SUBSET Mem0!Stored(s) :
                  r = Mem0!Returned(o, hits \cap s.listed \cap Visible[q])
        BY <3>4 DEF Mem0!Retrieve, o
      <4> QED BY <4>1 DEF Mem0!RaisedFrom, Mem0!Refused, Mem0!Failing, Mem0!Returned
    <3> QED BY <3>2, <3>3, <3>4
  <2>2. CASE p = "hindsight"
    <3>1. /\ AwaitReadyOf(p, s) = Hindsight!AwaitReady(s)
          /\ RetrieveOf(p, s, q) = Hindsight!Retrieve(s, q)
      BY <2>2 DEF AwaitReadyOf, RetrieveOf, Mem0s, GBrains, OptMems
    <3>2. r \in Hindsight!AwaitReady(s) \/ r \in Hindsight!Retrieve(s, q)
      BY <3>1
    <3>3. CASE r \in Hindsight!AwaitReady(s)
      <4>1. r = Hindsight!Returned(s, {}) \/ r = Hindsight!RaisedFrom(s)
        BY <3>3 DEF Hindsight!AwaitReady
      <4> QED BY <4>1 DEF Hindsight!RaisedFrom, Hindsight!Refused, Hindsight!Failing, Hindsight!Returned
    <3>4. CASE r \in Hindsight!Retrieve(s, q)
      <4>1. \/ r = Hindsight!RaisedFrom(s)
            \/ \E hits \in SUBSET Hindsight!Stored(s) :
                  r = Hindsight!Returned(s, hits \cap s.listed \cap Visible[q])
        BY <3>4 DEF Hindsight!Retrieve
      <4> QED BY <4>1 DEF Hindsight!RaisedFrom, Hindsight!Refused, Hindsight!Failing, Hindsight!Returned
    <3> QED BY <3>2, <3>3, <3>4
  <2>3. CASE p = "gbrain-ollama"
    <3>1. /\ AwaitReadyOf(p, s) = GBrain!AwaitReady(s)
          /\ RetrieveOf(p, s, q) = GBrain!Retrieve(s, q)
      BY <2>3 DEF AwaitReadyOf, RetrieveOf, Mem0s, GBrains, OptMems
    <3>2. r \in GBrain!AwaitReady(s) \/ r \in GBrain!Retrieve(s, q)
      BY <3>1
    <3>3. CASE r \in GBrain!AwaitReady(s)
      <4>1. r = GBrain!Returned(s, {}) \/ r = GBrain!RaisedFrom(s)
        BY <3>3 DEF GBrain!AwaitReady
      <4> QED BY <4>1 DEF GBrain!RaisedFrom, GBrain!Refused, GBrain!Failing, GBrain!Returned
    <3>4. CASE r \in GBrain!Retrieve(s, q)
      <4>1. \/ r = GBrain!RaisedFrom(s)
            \/ \E hits \in SUBSET GBrain!Stored(s) :
                  r = GBrain!Returned(s, hits \cap s.listed \cap Visible[q])
        BY <3>4 DEF GBrain!Retrieve
      <4> QED BY <4>1 DEF GBrain!RaisedFrom, GBrain!Refused, GBrain!Failing, GBrain!Returned
    <3> QED BY <3>2, <3>3, <3>4
  <2> QED BY <2>1, <2>2, <2>3 DEF Products3
<1>3. ASSUME NEW b \in {s, o}
      PROVE  Still(s, b) /\ Still(s, [b EXCEPT !.faults = @ + 1])
  <2>1. /\ b \in Wide /\ b.faults = s.faults /\ b.store = s.store /\ b.keys = s.keys
        /\ b.listed = s.listed /\ b.pages = s.pages /\ b.head = s.head /\ (s.open => b.open)
        /\ b.home = s.home
    BY <1>1
  <2>2. b.faults \in Nat /\ s.faults \in Nat
    BY <2>1 DEF Wide
  <2> QED BY <2>1, <2>2 DEF Still, Wide
<1> QED BY <1>2, <1>3

(* A new runtime is empty, on a directory of its own and over an emptied   *)
(* bank.                                                                   *)
LEMMA BlankType == Blank \in Wide /\ Blank.store = {} /\ Blank.home = "none" /\ Blank.pages = {}
                   /\ Blank.head = {} /\ Blank.listed = {} /\ Blank.faults = 0
  BY DEF Blank, Wide, Homes

LEMMA NewEmpty ==
    ASSUME NEW p \in Products3, NEW s \in Wide, s.store = {}, p # "hindsight" => s = Blank,
           NEW r \in NewOf(p, s)
    PROVE  /\ r.a \in Wide
           /\ ~r.raised => Stored(r.a) = {} /\ Filling(p, r.a, {}, {}, 1)
<1>0. p \in AllProducts /\ Shaped(p, s)
  BY FS_EmptySet DEF Products3, AllProducts, Exporting, GBrains, Mem0s, Shaped
<1>1. Built(p, s, r) /\ r.a \in Wide
  BY <1>0, BuiltOf DEF Built, Sound
<1>2. CASE p = "mem0-native"
  <2>0. NewOf(p, s) = Mem0!New(s) /\ p \in Mem0s
    BY <1>2 DEF NewOf, Ollama, Mem0s, GBrains, OptMems, Lists, Fixed
  <2>1. r \in Mem0!New(s)
    BY <2>0
  <2>2. r.a.store = {}
    BY <2>0, <2>1, Mem0New
  <2>3. ~r.raised => Shut(p, r.a) /\ Keyed(p, r.a)
    BY <1>1, <1>2, <2>0, <2>1 DEF Built
  <2> QED BY <1>1, <1>2, <2>2, <2>3, OfUnion DEF Filling, Good, Clean, Copies, Stored
<1>3. CASE p = "hindsight"
  <2>0. NewOf(p, s) = Hindsight!New(s)
    BY <1>3 DEF NewOf, Ollama, Mem0s, GBrains, OptMems, Lists, Fixed
  <2> DEFINE b == [s EXCEPT !.listed = {}]
  <2>1. b.store = {} /\ b.listed = {}
    BY DEF Wide
  <2>a. r = Hindsight!Returned(b, {}) \/ r = Hindsight!RaisedFrom(b)
    BY <2>0 DEF Hindsight!New
  <2> HIDE DEF b
  <2>2. ~r.raised => r.a.store = {} /\ r.a.listed = {}
    BY <2>1, <2>a DEF Hindsight!Returned, Hindsight!RaisedFrom, Hindsight!Refused
  <2> QED BY <1>1, <1>3, <2>2, OfUnion DEF Filling, Good, Clean, Copies, Stored
<1>4. CASE p = "gbrain-ollama"
  <2> DEFINE b == [s EXCEPT !.listed = {}]
  <2>0. NewOf(p, s) = GBrain!New(s, TRUE) /\ s = Blank
    BY <1>4 DEF NewOf, Ollama, Mem0s, GBrains, OptMems, Lists, Fixed
  <2>1. b \in Wide /\ b.home = "none" /\ b.store = {} /\ b.pages = {} /\ b.head = {} /\ b.listed = {}
    BY <2>0, BlankType DEF Wide
  <2>2. r \in GBrain!Ensure(b, TRUE)
    BY <2>0 DEF GBrain!New
  <2> HIDE DEF b
  <2>3. r \in GBrain!Bootstrap(b)
    BY <2>1, <2>2 DEF GBrain!Ensure, GBrain!EnsureBrainOllama
  <2>4. ~r.raised => /\ r.a.store = {} /\ r.a.pages = {} /\ r.a.head = {} /\ r.a.listed = {}
                     /\ r.a.home # "unsourced"
    BY <2>1, <2>3, GBrainBootstrap DEF Booted, Broken
  <2> QED BY <1>1, <1>4, <2>4, OfUnion DEF Filling, Good, Clean, Copies, Stored
<1> QED BY <1>2, <1>3, <1>4 DEF Products3

-----------------------------------------------------------------------------
(* The steps of the try, for a product p under a script c.                 *)
LEMMA PlaceOrder ==
    ASSUME NEW p \in Products3, NEW c \in {"v1", "correction"}
    PROVE  /\ MakeAt(p) \in Nat /\ ExportAt(p) \in Nat /\ ForgetAt(c) \in Nat
           /\ RebuildAt(p, c) \in Nat /\ SyncAt \in Nat
           /\ MakeAt(p) >= 1 /\ ExportAt(p) = MakeAt(p) + 4 /\ RebuildAt(p, c) > ExportAt(p)
           /\ p = "hindsight" => ForgetAt(c) > ExportAt(p) /\ RebuildAt(p, c) > ForgetAt(c)
           /\ Two(p, c) => SyncAt > ExportAt(p) /\ RebuildAt(p, c) > SyncAt
  BY DEF Products3, MakeAt, ExportAt, ForgetAt, RebuildAt, SyncAt, Two

LEMMA Beside ==
    ASSUME NEW m \in Nat
    PROVE  \A x \in Nat : x # m => (m + 1 <= x <=> m <= x) /\ (m + 1 > x <=> m > x)
  OBVIOUS

(* A step that is none of the marked ones.                                 *)
LEMMA TriedMoved ==
    ASSUME NEW p \in Products3, NEW c \in {"v1", "correction"}, NEW m \in Nat, NEW n, NEW s, NEW k,
           NEW w, NEW A, NEW B, NEW R, Tried(p, c, m, n, s, k, w, A, B, R),
           m # MakeAt(p), m # ExportAt(p), m # RebuildAt(p, c),
           p = "hindsight" => m # ForgetAt(c), Two(p, c) => m # SyncAt,
           NEW t, \/ t = s
                  \/ m > MakeAt(p) /\ m < ExportAt(p) /\ Still(s, t)
                  \/ m > ExportAt(p) /\ t.faults = s.faults /\ (s.store = {} => t.store = {})
    PROVE  Tried(p, c, m + 1, n, t, k, w, A, B, R)
<1>1. /\ m + 1 <= MakeAt(p) <=> m <= MakeAt(p)
      /\ m + 1 > MakeAt(p) <=> m > MakeAt(p)
      /\ m + 1 <= ExportAt(p) <=> m <= ExportAt(p)
      /\ m + 1 > ExportAt(p) <=> m > ExportAt(p)
      /\ m + 1 > RebuildAt(p, c) <=> m > RebuildAt(p, c)
      /\ p = "hindsight" => (m + 1 > ForgetAt(c) <=> m > ForgetAt(c))
      /\ Two(p, c) => (m + 1 > SyncAt <=> m > SyncAt)
  BY Beside, PlaceOrder
<1>2. CASE t = s
  BY <1>1, <1>2 DEF Tried
<1>3. CASE m > MakeAt(p) /\ m < ExportAt(p) /\ Still(s, t)
  <2>1. /\ ~(m <= MakeAt(p)) /\ ~(m > ExportAt(p)) /\ ~(m > RebuildAt(p, c)) /\ m <= ExportAt(p)
        /\ p = "hindsight" => ~(m > ForgetAt(c))
        /\ Two(p, c) => ~(m > SyncAt)
    BY <1>3, PlaceOrder
  <2>2. Filling(p, t, k, w, n)
    BY <1>3, <2>1, FillingStill DEF Tried
  <2> QED BY <1>1, <2>1, <2>2 DEF Tried
<1>4. CASE m > ExportAt(p) /\ t.faults = s.faults /\ (s.store = {} => t.store = {})
  <2>1. ~(m <= MakeAt(p)) /\ ~(m <= ExportAt(p))
    BY <1>4, PlaceOrder
  <2> QED BY <1>1, <1>4, <2>1 DEF Tried
<1> QED BY <1>2, <1>3, <1>4

LEMMA TriedMade ==
    ASSUME NEW p \in Products3, NEW c \in {"v1", "correction"}, NEW n, NEW s, NEW k,
           NEW w, NEW A, NEW B, NEW R, Tried(p, c, MakeAt(p), n, s, k, w, A, B, R),
           NEW t, Filling(p, t, {}, {}, 1)
    PROVE  Tried(p, c, MakeAt(p) + 1, n, t, k, w, A, B, R)
<1> DEFINE m == MakeAt(p) + 1
<1>1. /\ MakeAt(p) <= MakeAt(p) /\ ~(m <= MakeAt(p)) /\ ~(m > ExportAt(p)) /\ ~(m > RebuildAt(p, c))
      /\ p = "hindsight" => ~(m > ForgetAt(c))
      /\ Two(p, c) => ~(m > SyncAt)
  BY PlaceOrder
<1>2. k = {} /\ w = {} /\ n = 1 /\ n \in Nat /\ n >= 1 /\ B = {}
  BY <1>1 DEF Tried
<1> HIDE DEF m
<1>3. Tried(p, c, m, n, t, k, w, A, B, R)
  BY <1>1, <1>2 DEF Tried
<1> QED BY <1>3 DEF m

LEMMA TriedFilled ==
    ASSUME NEW p \in Products3, NEW c \in {"v1", "correction"}, NEW m \in Nat, NEW n, NEW s, NEW k,
           NEW w, NEW A, NEW B, NEW R, Tried(p, c, m, n, s, k, w, A, B, R),
           m > MakeAt(p), m < ExportAt(p),
           NEW t, NEW j, NEW v, Filling(p, t, j, v, n + 1)
    PROVE  Tried(p, c, m, n + 1, t, j, v, A, B, R)
<1>1. /\ ~(m <= MakeAt(p)) /\ ~(m > ExportAt(p)) /\ ~(m > RebuildAt(p, c))
      /\ p = "hindsight" => ~(m > ForgetAt(c))
      /\ Two(p, c) => ~(m > SyncAt)
  BY PlaceOrder
<1>2. n + 1 \in Nat /\ n + 1 >= 1 /\ B = {}
  BY DEF Tried
<1> QED BY <1>1, <1>2 DEF Tried

LEMMA TriedExported ==
    ASSUME NEW p \in Products3, NEW c \in {"v1", "correction"}, NEW n, NEW s, NEW k,
           NEW w, NEW A, NEW B, NEW R, Tried(p, c, ExportAt(p), n, s, k, w, A, B, R),
           NEW E, E["export"] = (IF c = "v1" /\ p = "hindsight" THEN {} ELSE Of(s.store)),
           Two(p, c) => E["canonical"] = s.head
    PROVE  Tried(p, c, ExportAt(p) + 1, n, s, k, w, E, B, R)
<1> DEFINE x == ExportAt(p)
           m == x + 1
<1>1. /\ x > MakeAt(p) /\ x <= x /\ ~(m <= MakeAt(p)) /\ ~(m <= ExportAt(p)) /\ ~(m > RebuildAt(p, c))
      /\ p = "hindsight" => ~(m > ForgetAt(c))
      /\ Two(p, c) => ~(m > SyncAt)
  BY PlaceOrder
<1>2. Filling(p, s, k, w, n) /\ n \in Nat /\ n >= 1 /\ B = {}
  BY <1>1 DEF Tried
<1>3. Of(s.store) \in Copies(p, s) /\ (Two(p, c) => s.head \in Copies(p, s))
  BY DEF Copies, Two
<1>4. Carries(p, c, s.faults, k, w, E)
  <2>1. Good(p, s.faults, k, w, Of(s.store)) /\ (Two(p, c) => Good(p, s.faults, k, w, s.head))
    BY <1>2, <1>3 DEF Filling
  <2>2. Clean(p, s.faults, w, {})
    BY DEF Clean
  <2> QED BY <2>1, <2>2 DEF Carries, Good
<1> HIDE DEF m, x
<1>5. Tried(p, c, m, n, s, k, w, E, B, R)
  BY <1>1, <1>2, <1>4 DEF Tried
<1> QED BY <1>5 DEF m, x

LEMMA TriedForgotten ==
    ASSUME NEW c \in {"v1", "correction"}, NEW n, NEW s, NEW k,
           NEW w, NEW A, NEW B, NEW R, Tried("hindsight", c, ForgetAt(c), n, s, k, w, A, B, R),
           NEW t, t.faults = s.faults, t.store = {}
    PROVE  Tried("hindsight", c, ForgetAt(c) + 1, n, t, k, w, A, B, R)
<1> DEFINE p == "hindsight"
           x == ForgetAt(c)
           m == x + 1
<1>1. /\ x > ExportAt(p) /\ ~(m <= MakeAt(p)) /\ ~(m <= ExportAt(p)) /\ ~(m > RebuildAt(p, c))
  BY PlaceOrder DEF Products3
<1>2. ~Two(p, c)
  BY DEF Two
<1>3. /\ n \in Nat /\ n >= 1 /\ B = {} /\ Carries(p, c, s.faults, k, w, A)
  BY <1>1 DEF Tried
<1> HIDE DEF m, x, p
<1>4. Tried(p, c, m, n, t, k, w, A, B, R)
  BY <1>1, <1>2, <1>3 DEF Tried
<1> QED BY <1>4 DEF m, x, p

(* A runtime is rebuilt from the artifact of its kind.                     *)
LEMMA TriedRebuilt ==
    ASSUME NEW p \in Products3, NEW c \in {"v1", "correction"}, NEW n, NEW s, NEW k,
           NEW w, NEW A, NEW B, NEW R, Tried(p, c, RebuildAt(p, c), n, s, k, w, A, B, R),
           NEW S, S["export"] \subseteq A["export"], S["canonical"] = R["canonical"]
    PROVE  Tried(p, c, RebuildAt(p, c) + 1, n, s, k, w, A, B, S)
<1> DEFINE x == RebuildAt(p, c)
           m == x + 1
<1>1. /\ x > ExportAt(p) /\ ~(m <= MakeAt(p)) /\ ~(m <= ExportAt(p))
      /\ p = "hindsight" => x > ForgetAt(c)
      /\ Two(p, c) => x > SyncAt
  BY PlaceOrder
<1> HIDE DEF m, x
<1>2. Tried(p, c, x, n, s, k, w, A, B, R)
  BY DEF x
<1>3. Tried(p, c, m, n, s, k, w, A, B, S)
  BY <1>1, <1>2 DEF Tried
<1> QED BY <1>3 DEF m, x

LEMMA TriedSynced ==
    ASSUME NEW p \in Products3, NEW c \in {"v1", "correction"}, NEW n, NEW s, NEW k, Two(p, c),
           NEW w, NEW A, NEW B, NEW R, Tried(p, c, SyncAt, n, s, k, w, A, B, R),
           NEW S, S["canonical"] \subseteq A["canonical"]
    PROVE  Tried(p, c, SyncAt + 1, n, s, k, w, A, B, S)
<1> DEFINE x == SyncAt
           m == x + 1
<1>1. /\ x > ExportAt(p) /\ ~(m <= MakeAt(p)) /\ ~(m <= ExportAt(p)) /\ ~(m > RebuildAt(p, c))
      /\ p # "hindsight"
  BY PlaceOrder DEF Two
<1> HIDE DEF m, x
<1>2. Tried(p, c, x, n, s, k, w, A, B, R)
  BY DEF x
<1>3. Tried(p, c, m, n, s, k, w, A, B, S)
  BY <1>1, <1>2 DEF Tried
<1> QED BY <1>3 DEF m, x
-----------------------------------------------------------------------------
(* The steps of the scripts.                                               *)
Whole == recovered = [k \in Kinds |-> recovered[k]]

LEMMA TryFacts ==
    ASSUME PlaceType, RunningInv, MemoryInv, phase = "try"
    PROVE  /\ name \in Products3 /\ script \in {"v1", "correction"} /\ Selected # <<>>
           /\ step \in Nat /\ Len(Program) \in Nat /\ status = "running" /\ a \in Wide
           /\ step <= Len(Program) => step \in 1 .. Len(Program)
           /\ Tried(name, script, step, next, a, kept, withdrawn, artifact, bases, recovered)
           /\ Whole
<1>1. Selected # <<>> /\ turn \in 1 .. Len(Selected) /\ step \in Nat /\ step >= 1
  BY DEF PlaceType
<1>2. name \in Products3 /\ Len(Program) \in Nat
  BY <1>1, SelectedType, ProgramSteps DEF name
<1>3. script \in {"v1", "correction"}
  BY ExitAssumption DEF PlaceType
<1>4. step <= Len(Program) => step \in 1 .. Len(Program)
  BY <1>1, <1>2
<1>5. TryInv /\ a \in Wide /\ Whole
  BY DEF MemoryInv, Whole
<1> QED BY <1>1, <1>2, <1>3, <1>4, <1>5 DEF RunningInv, TryInv

(* A step on, within the try.                                              *)
LEMMA InTheTry ==
    ASSUME phase' = "try", status' = "running", a' \in Wide, Whole', UNCHANGED turnVars,
           Tried(name, script, step', next', a', kept', withdrawn', artifact', bases', recovered')
    PROVE  MemoryInv'
<1>1. name' = name /\ script' = script
  BY DEF turnVars, name
<1>2. TryInv'
  BY <1>1 DEF TryInv
<1> QED BY <1>2 DEF MemoryInv, Whole

(* Out of the try, what is completed stays as it is.                       *)
LEMMA OutOfTheTry ==
    ASSUME MemoryInv, phase' # "try", a' \in Wide, UNCHANGED <<script, turn, artifact, recovered>>,
           status' = "completed" =>
              /\ status = "completed" /\ a'.faults = a.faults
              /\ UNCHANGED <<kept, withdrawn, bases>>
    PROVE  MemoryInv'
<1>1. name' = name /\ Reached' = Reached
  BY DEF name, Reached
<1>2. recovered' = [k \in Kinds |-> recovered'[k]]
  BY DEF MemoryInv
<1>3. ASSUME status' = "completed"
      PROVE  /\ bases' = {} /\ Carries(name', script', a'.faults, kept', withdrawn', artifact')
             /\ \A k \in Reached' : recovered'[k] \subseteq artifact'[k]
  BY <1>1, <1>3 DEF MemoryInv
<1> QED BY <1>2, <1>3 DEF MemoryInv

LEMMA OfThrown ==
    ASSUME status = "running", Thrown
    PROVE  phase' # "try" /\ status' # "completed"
  BY DEF Thrown

(* The steps that are none of the marked ones.                             *)
LEMMA StepMoves ==
    ASSUME PlaceType, RunningInv, MemoryInv, phase = "try", step <= Len(Program), Proceed,
           UNCHANGED <<turnVars, kept, withdrawn, copies, status>>,
           Program[step] \notin {"make", "export", "rebuild", "sync", "forget"},
           a' \in Wide,
           \/ a' = a
           \/ Program[step] \in {"ready", "populate", "ask"} /\ Still(a, a')
           \/ /\ Program[step] \in {"copy", "destroy", "down"}
              /\ a'.faults = a.faults /\ (a.store = {} => a'.store = {})
    PROVE  MemoryInv'
<1> DEFINE p == name
           m == step
<1>1. /\ p \in Products3 /\ script \in {"v1", "correction"} /\ m \in Nat /\ m \in 1 .. Len(Program)
      /\ Tried(p, script, m, next, a, kept, withdrawn, artifact, bases, recovered)
      /\ status = "running" /\ Whole
  BY TryFacts
<1>2. /\ m # MakeAt(p) /\ m # ExportAt(p) /\ m # RebuildAt(p, script)
      /\ p = "hindsight" => m # ForgetAt(script)
      /\ Two(p, script) => m # SyncAt
      /\ Program[m] \in {"ready", "populate", "ask"} => m > MakeAt(p) /\ m < ExportAt(p)
      /\ Program[m] \in {"copy", "destroy", "down"} => m > ExportAt(p)
  BY <1>1, ProgramPlaces
<1>3. \/ a' = a
      \/ m > MakeAt(p) /\ m < ExportAt(p) /\ Still(a, a')
      \/ m > ExportAt(p) /\ a'.faults = a.faults /\ (a.store = {} => a'.store = {})
  BY <1>2
<1>4. /\ phase' = "try" /\ next' = next /\ step' = m + 1 /\ UNCHANGED turnVars /\ status' = "running"
      /\ UNCHANGED <<kept, withdrawn, artifact, bases, recovered>>
  BY <1>1 DEF Proceed, copies
<1>5. Tried(p, script, m + 1, next, a', kept, withdrawn, artifact, bases, recovered)
  <2> HIDE DEF p, m
  <2> QED BY <1>1, <1>2, <1>3, TriedMoved
<1>6. Whole'
  BY <1>1, <1>4 DEF Whole
<1> HIDE DEF m
<1> QED BY <1>4, <1>5, <1>6, InTheTry

LEMMA MemoryGateway ==
    ASSUME PlaceType, RunningInv, MemoryInv, StartGateway \/ CopyRaw \/ Populated
    PROVE  MemoryInv'
<1>1. /\ phase = "try" /\ step <= Len(Program) /\ Program[step] \in {"gateway", "copy", "populate"}
      /\ Proceed /\ UNCHANGED <<turnVars, kept, withdrawn, copies, status>> /\ a' = a
  BY DEF StartGateway, CopyRaw, Populated, At, original
<1>2. a' \in Wide
  BY <1>1, TryFacts
<1> QED BY <1>1, <1>2, StepMoves

LEMMA MemoryUp ==
    ASSUME PlaceType, RunningInv, MemoryInv, Up
    PROVE  MemoryInv'
<1>1. /\ phase = "try" /\ step <= Len(Program) /\ Program[step] = "up"
      /\ UNCHANGED <<turnVars, kept, withdrawn, copies>> /\ a' = a
  BY DEF Up, At, original
<1>2. a' \in Wide /\ status = "running"
  BY <1>1, TryFacts
<1>3. CASE Proceed /\ UNCHANGED status
  BY <1>1, <1>2, <1>3, StepMoves
<1>4. CASE Thrown
  <2>1. phase' # "try" /\ status' # "completed"
    BY <1>2, <1>4, OfThrown
  <2> QED BY <1>1, <1>2, <2>1, OutOfTheTry DEF turnVars, copies
<1> QED BY <1>3, <1>4 DEF Up

LEMMA MemoryWaits ==
    ASSUME PlaceType, RunningInv, MemoryInv, AwaitReady \/ Ask
    PROVE  MemoryInv'
<1>1. /\ phase = "try" /\ step <= Len(Program) /\ Program[step] \in {"ready", "ask"}
      /\ Proceed /\ UNCHANGED <<turnVars, kept, withdrawn, copies, status>>
  BY DEF AwaitReady, Ask, At
<1>2. name \in Products3 /\ a \in Wide
  BY <1>1, TryFacts
<1>3. \E q : \E r \in AwaitReadyOf(name, a) \cup RetrieveOf(name, a, q) : a' = r.a
  BY DEF AwaitReady, Ask
<1>4. Still(a, a')
  BY <1>2, <1>3, StillOf
<1> QED BY <1>1, <1>4, StepMoves DEF Still

LEMMA MemoryRemoved ==
    ASSUME a \in Wide, Removed
    PROVE  a' \in Wide /\ a'.faults = a.faults /\ (a.store = {} => a'.store = {})
<1>1. a' = a \/ a' = [Blank EXCEPT !.faults = a.faults]
  BY DEF Removed
<1>2. CASE a' = [Blank EXCEPT !.faults = a.faults]
  BY <1>2, BlankType DEF Wide
<1> QED BY <1>1, <1>2

LEMMA MemoryLeft ==
    ASSUME a \in Wide, NEW X, NEW Y, Leave(X, Y)
    PROVE  /\ a' \in Wide /\ a'.faults = a.faults /\ (a.store = {} => a'.store = {})
           /\ UNCHANGED <<turnVars, kept, withdrawn, copies>> /\ (X \/ Y)
<1>1. a' = a \/ a' = [a EXCEPT !.store = {}]
  BY DEF Leave
<1> QED BY <1>1 DEF Leave, Wide

LEMMA MemoryDestroy ==
    ASSUME PlaceType, RunningInv, MemoryInv, Destroy
    PROVE  MemoryInv'
<1>1. /\ phase = "try" /\ step <= Len(Program) /\ Program[step] = "destroy" /\ Removed
      /\ Proceed /\ UNCHANGED <<turnVars, kept, withdrawn, copies, status>>
  BY DEF Destroy, At
<1>2. a' \in Wide /\ a'.faults = a.faults /\ (a.store = {} => a'.store = {})
  BY <1>1, TryFacts, MemoryRemoved
<1> QED BY <1>1, <1>2, StepMoves

LEMMA MemoryDown ==
    ASSUME PlaceType, RunningInv, MemoryInv, Down
    PROVE  MemoryInv'
<1>1. /\ phase = "try" /\ step <= Len(Program) /\ Program[step] = "down"
  BY DEF Down, At
<1>2. a \in Wide
  BY <1>1, TryFacts
<1>3. /\ a' \in Wide /\ a'.faults = a.faults /\ (a.store = {} => a'.store = {})
      /\ UNCHANGED <<turnVars, kept, withdrawn, copies>>
  BY <1>2, MemoryLeft DEF Down
<1>4. \/ Proceed /\ UNCHANGED status
      \/ phase' = "except" /\ status' = "failed"
  BY DEF Down, Leave
<1>5. CASE Proceed /\ UNCHANGED status
  BY <1>1, <1>3, <1>5, StepMoves
<1>6. CASE phase' = "except" /\ status' = "failed"
  BY <1>3, <1>6, OutOfTheTry DEF turnVars, copies
<1> QED BY <1>4, <1>5, <1>6

LEMMA MemoryMake ==
    ASSUME PlaceType, RunningInv, MemoryInv, Make
    PROVE  MemoryInv'
<1>1. /\ phase = "try" /\ step <= Len(Program) /\ Program[step] = "make"
      /\ UNCHANGED <<turnVars, kept, withdrawn, copies>>
  BY DEF Make, At
<1>2. /\ name \in Products3 /\ script \in {"v1", "correction"} /\ step \in 1 .. Len(Program)
      /\ Tried(name, script, step, next, a, kept, withdrawn, artifact, bases, recovered)
      /\ status = "running" /\ Whole
  BY <1>1, TryFacts
<1>3. step = MakeAt(name) /\ MakeAt(name) <= MakeAt(name)
  BY <1>1, <1>2, ProgramPlaces, PlaceOrder
<1>4. a = Blank
  BY <1>2, <1>3 DEF Tried
<1>5. PICK r \in NewOf(name, a) :
         a' = r.a /\ IF r.raised THEN Thrown ELSE Proceed /\ UNCHANGED status
  BY DEF Make
<1>6. a' \in Wide /\ (~r.raised => Filling(name, a', {}, {}, 1))
  BY <1>2, <1>4, <1>5, BlankType, NewEmpty
<1>7. CASE r.raised
  <2>1. phase' # "try" /\ status' # "completed"
    BY <1>2, <1>5, <1>7, OfThrown
  <2> QED BY <1>1, <1>6, <2>1, OutOfTheTry DEF turnVars, copies
<1>8. CASE ~r.raised
  <2>1. /\ phase' = "try" /\ next' = next /\ step' = MakeAt(name) + 1 /\ status' = "running"
        /\ UNCHANGED <<kept, withdrawn, artifact, bases, recovered>>
    BY <1>1, <1>2, <1>3, <1>5, <1>8 DEF Proceed, copies
  <2>2. Tried(name, script, MakeAt(name) + 1, next, a', kept, withdrawn, artifact, bases, recovered)
    BY <1>2, <1>3, <1>6, <1>8, TriedMade
  <2>3. Whole'
    BY <1>2, <2>1 DEF Whole
  <2> QED BY <1>1, <1>6, <2>1, <2>2, <2>3, InTheTry
<1> QED BY <1>7, <1>8

LEMMA MemoryPopulate ==
    ASSUME PlaceType, RunningInv, MemoryInv, StoredOnce, PopulateIngest \/ PopulateDelete
    PROVE  MemoryInv'
<1>1. /\ phase = "try" /\ step <= Len(Program) /\ Program[step] = "populate"
      /\ next <= Len(Operations) /\ next' = next + 1 /\ step' = step /\ phase' = "try"
      /\ UNCHANGED <<turnVars, copies, status>>
  BY DEF PopulateIngest, PopulateDelete, Comes, At
<1>2. /\ name \in Products3 /\ script \in {"v1", "correction"} /\ step \in 1 .. Len(Program)
      /\ Tried(name, script, step, next, a, kept, withdrawn, artifact, bases, recovered)
      /\ step \in Nat /\ status = "running" /\ Whole
  BY <1>1, TryFacts
<1>3. step > MakeAt(name) /\ step < ExportAt(name) /\ step <= ExportAt(name)
  BY <1>1, <1>2, ProgramPlaces, PlaceOrder
<1>4. next \in 1 .. Len(Operations) /\ Filling(name, a, kept, withdrawn, next)
  <2>1. next \in Nat /\ next >= 1 /\ Filling(name, a, kept, withdrawn, next)
    BY <1>2, <1>3 DEF Tried
  <2>2. Len(Operations) \in Nat
    BY ExitAssumption
  <2> QED BY <1>1, <2>1, <2>2
<1>5. Filling(name, a', kept', withdrawn', next + 1)
  <2> DEFINE e == Operations[next].event
  <2>1. CASE PopulateIngest
    <3>1. PICK r \in IngestOf(name, a, {e}) :
             /\ a' = r.a
             /\ kept' = KeptAfter(kept, e, r, FALSE)
             /\ withdrawn' = WithdrawnAfter(withdrawn, e, r, FALSE)
      BY <2>1 DEF PopulateIngest, KeptAfter, WithdrawnAfter
    <3>2. ~Operations[next].delete
      BY <2>1 DEF PopulateIngest, Comes
    <3> QED BY <1>2, <1>4, <3>1, <3>2, FillingIngest
  <2>2. CASE PopulateDelete
    <3>1. PICK r \in DeleteOf(name, a, e) :
             /\ a' = r.a
             /\ kept' = KeptAfter(kept, e, r, TRUE)
             /\ withdrawn' = WithdrawnAfter(withdrawn, e, r, TRUE)
      BY <2>2 DEF PopulateDelete, KeptAfter, WithdrawnAfter
    <3>2. Operations[next].delete
      BY <2>2 DEF PopulateDelete, Comes
    <3> QED BY <1>2, <1>4, <3>1, <3>2, FillingDelete
  <2> QED BY <2>1, <2>2
<1>6. a' \in Wide
  BY <1>5 DEF Filling
<1>7. Tried(name, script, step, next + 1, a', kept', withdrawn', artifact, bases, recovered)
  BY <1>2, <1>3, <1>5, TriedFilled
<1>8. UNCHANGED <<artifact, bases, recovered>> /\ status' = "running" /\ Whole'
  BY <1>1, <1>2 DEF copies, Whole
<1> QED BY <1>1, <1>6, <1>7, <1>8, InTheTry

LEMMA MemoryExport ==
    ASSUME PlaceType, RunningInv, MemoryInv, Export
    PROVE  MemoryInv'
<1>1. /\ phase = "try" /\ step <= Len(Program) /\ Program[step] = "export"
      /\ phase' = "try" /\ step' = step + 1 /\ next' = next
      /\ UNCHANGED <<turnVars, original, bases, recovered, status>>
  BY DEF Export, At, Proceed
<1>2. /\ name \in Products3 /\ script \in {"v1", "correction"} /\ step \in 1 .. Len(Program)
      /\ Tried(name, script, step, next, a, kept, withdrawn, artifact, bases, recovered)
      /\ a \in Wide /\ status = "running" /\ Whole
  BY <1>1, TryFacts
<1>3. step = ExportAt(name)
  BY <1>1, <1>2, ProgramPlaces
<1>4. /\ artifact'["export"] = (IF script = "v1" /\ name = "hindsight" THEN {} ELSE Of(a.store))
      /\ Two(name, script) => artifact'["canonical"] = a.head
  BY DEF Export, Exported, VersionOnly, Kinds, Two, Stored, Of
<1>5. Tried(name, script, ExportAt(name) + 1, next, a, kept, withdrawn, artifact', bases, recovered)
  BY <1>2, <1>3, <1>4, TriedExported
<1>6. UNCHANGED <<a, kept, withdrawn, bases, recovered>> /\ status' = "running" /\ Whole'
  BY <1>1, <1>2 DEF original, Whole
<1> QED BY <1>1, <1>2, <1>3, <1>5, <1>6, InTheTry

LEMMA MemoryForget ==
    ASSUME PlaceType, RunningInv, MemoryInv, Forget
    PROVE  MemoryInv'
<1>1. /\ phase = "try" /\ step <= Len(Program) /\ Program[step] = "forget"
      /\ phase' = "try" /\ step' = step + 1 /\ next' = next
      /\ a' = [a EXCEPT !.store = {}]
      /\ UNCHANGED <<turnVars, kept, withdrawn, copies, status>>
  BY DEF Forget, At, Proceed
<1>2. /\ name \in Products3 /\ script \in {"v1", "correction"} /\ step \in 1 .. Len(Program)
      /\ Tried(name, script, step, next, a, kept, withdrawn, artifact, bases, recovered)
      /\ a \in Wide /\ status = "running" /\ Whole
  BY <1>1, TryFacts
<1>3. name = "hindsight" /\ step = ForgetAt(script)
  BY <1>1, <1>2, ProgramPlaces
<1>4. a' \in Wide /\ a'.faults = a.faults /\ a'.store = {}
  BY <1>1, <1>2 DEF Wide
<1>5. Tried(name, script, step + 1, next, a', kept, withdrawn, artifact, bases, recovered)
  BY <1>2, <1>3, <1>4, TriedForgotten
<1>6. UNCHANGED <<artifact, bases, recovered>> /\ status' = "running" /\ Whole'
  BY <1>1, <1>2 DEF copies, Whole
<1> QED BY <1>1, <1>4, <1>5, <1>6, InTheTry

(* What a new runtime is built on, and what it finds.                      *)
LEMMA Founded ==
    ASSUME name \in Products3, a \in Wide, NEW k \in Kinds, Rebuilt(k), Whole, bases = {},
           name = "hindsight" => a.store = {}
    PROVE  /\ bases' = {} /\ Whole' /\ recovered'[k] \subseteq artifact[k]
           /\ \A j \in Kinds : j # k => recovered'[j] = recovered[j]
<1> DEFINE s == IF script = "correction" /\ name = "hindsight" THEN a ELSE Blank
<1>1. s \in Wide /\ s.store = {} /\ (name # "hindsight" => s = Blank)
  BY BlankType
<1>2. PICK r \in NewOf(name, s), arrived \in SUBSET artifact[k] :
         /\ ~r.raised
         /\ bases' = bases \cup Stored(r.a)
         /\ recovered' = [recovered EXCEPT ![k] = Stored(r.a) \cup arrived]
  BY DEF Rebuilt
<1> HIDE DEF s
<1>3. Stored(r.a) = {}
  BY <1>1, <1>2, NewEmpty
<1>4. recovered' = [j \in Kinds |-> IF j = k THEN arrived ELSE recovered[j]]
  BY <1>2, <1>3 DEF Whole
<1> QED BY <1>2, <1>3, <1>4 DEF Whole

LEMMA MemoryRebuilt ==
    ASSUME PlaceType, RunningInv, MemoryInv, Rebuild \/ SyncRepository
    PROVE  MemoryInv'
<1>1. /\ phase = "try" /\ step <= Len(Program) /\ Program[step] \in {"rebuild", "sync"}
      /\ phase' = "try" /\ step' = step + 1 /\ next' = next
      /\ UNCHANGED <<turnVars, original, artifact, status>>
  BY DEF Rebuild, SyncRepository, Rebuilt, At, Proceed
<1>2. /\ name \in Products3 /\ script \in {"v1", "correction"} /\ step \in 1 .. Len(Program)
      /\ Tried(name, script, step, next, a, kept, withdrawn, artifact, bases, recovered)
      /\ a \in Wide /\ status = "running" /\ Whole
  BY <1>1, TryFacts
<1>3. UNCHANGED <<a, kept, withdrawn, artifact>> /\ status' = "running" /\ bases = {}
  BY <1>1, <1>2 DEF original, Tried
<1>4. CASE Rebuild
  <2>1. step = RebuildAt(name, script) /\ Rebuilt("export")
    BY <1>2, <1>4, ProgramPlaces DEF Rebuild, At
  <2>2. name = "hindsight" => a.store = {}
    <3>1. name = "hindsight" => step > ForgetAt(script)
      BY <1>2, <2>1, PlaceOrder
    <3> QED BY <1>2, <3>1 DEF Tried
  <2>3. /\ bases' = {} /\ Whole' /\ recovered'["export"] \subseteq artifact["export"]
        /\ recovered'["canonical"] = recovered["canonical"]
    BY <1>2, <1>3, <2>1, <2>2, Founded DEF Kinds
  <2>4. Tried(name, script, step + 1, next, a, kept, withdrawn, artifact, bases, recovered')
    BY <1>2, <2>1, <2>3, TriedRebuilt
  <2> QED BY <1>1, <1>2, <1>3, <2>3, <2>4, InTheTry
<1>5. CASE SyncRepository
  <2>1. step = SyncAt /\ Two(name, script) /\ Rebuilt("canonical")
    BY <1>2, <1>5, ProgramPlaces DEF SyncRepository, At
  <2>2. name # "hindsight"
    BY <2>1 DEF Two
  <2>3. bases' = {} /\ Whole' /\ recovered'["canonical"] \subseteq artifact["canonical"]
    BY <1>2, <1>3, <2>1, <2>2, Founded DEF Kinds
  <2>4. Tried(name, script, step + 1, next, a, kept, withdrawn, artifact, bases, recovered')
    BY <1>2, <2>1, <2>3, TriedSynced
  <2> QED BY <1>1, <1>2, <1>3, <2>3, <2>4, InTheTry
<1> QED BY <1>4, <1>5

LEMMA MemoryComplete ==
    ASSUME PlaceType, RunningInv, MemoryInv, Complete
    PROVE  MemoryInv'
<1>1. /\ phase = "try" /\ step > Len(Program) /\ phase' = "finally"
      /\ UNCHANGED <<script, turn, a, kept, withdrawn, artifact, bases, recovered>>
  BY DEF Complete, turnVars, original, copies
<1>2. /\ name \in Products3 /\ script \in {"v1", "correction"} /\ step \in Nat /\ a \in Wide
      /\ Tried(name, script, step, next, a, kept, withdrawn, artifact, bases, recovered)
      /\ Whole
  BY <1>1, TryFacts
<1>3. step > RebuildAt(name, script) /\ (Two(name, script) => step > SyncAt)
  <2>1. Len(Program) \in Nat /\ Len(Program) >= RebuildAt(name, script)
    BY <1>2, ProgramPlaces
  <2>2. /\ RebuildAt(name, script) \in Nat /\ SyncAt \in Nat
        /\ Two(name, script) => RebuildAt(name, script) > SyncAt
    BY <1>2, PlaceOrder
  <2> QED BY <1>1, <1>2, <2>1, <2>2
<1>4. /\ bases = {} /\ Carries(name, script, a.faults, kept, withdrawn, artifact)
      /\ recovered["export"] \subseteq artifact["export"]
      /\ Two(name, script) => recovered["canonical"] \subseteq artifact["canonical"]
  <2>1. step > ExportAt(name)
    BY <1>2, <1>3, PlaceOrder
  <2> QED BY <1>2, <1>3, <2>1 DEF Tried
<1>5. \A k \in Reached : recovered[k] \subseteq artifact[k]
  BY <1>4 DEF Reached, Kinds, Two
<1>6. name' = name /\ Reached' = Reached
  BY <1>1 DEF name, Reached
<1>7. Whole'
  BY <1>1, <1>2 DEF Whole
<1> QED BY <1>1, <1>2, <1>4, <1>5, <1>6, <1>7 DEF MemoryInv, Whole

LEMMA MemoryEnds ==
    ASSUME PlaceType, RunningInv, MemoryInv, Raise \/ Unwind \/ Except \/ Finally \/ RecordFails
    PROVE  MemoryInv'
<1>0. a \in Wide
  BY DEF MemoryInv
<1>1. CASE Raise
  <2>1. Thrown /\ status = "running" /\ UNCHANGED <<turnVars, original, copies>>
    BY <1>1, TryFacts DEF Raise
  <2>2. phase' # "try" /\ status' # "completed"
    BY <2>1, OfThrown
  <2> QED BY <1>0, <2>1, <2>2, OutOfTheTry DEF turnVars, original, copies
<1>2. CASE Unwind
  <2>1. Leave(TRUE, TRUE) /\ phase' = "except" /\ UNCHANGED status
    BY <1>2 DEF Unwind
  <2>2. /\ a' \in Wide /\ a'.faults = a.faults
        /\ UNCHANGED <<turnVars, kept, withdrawn, copies>>
    BY <1>0, <2>1, MemoryLeft
  <2> QED BY <2>1, <2>2, OutOfTheTry DEF turnVars, copies
<1>3. CASE Except
  <2>1. /\ Removed \/ a' = a
        /\ phase' # "try" /\ UNCHANGED <<turnVars, kept, withdrawn, copies>>
        /\ status' = "completed" => status = "completed"
    BY <1>3 DEF Except
  <2>2. a' \in Wide /\ a'.faults = a.faults
    BY <1>0, <2>1, MemoryRemoved
  <2> QED BY <2>1, <2>2, OutOfTheTry DEF turnVars, copies
<1>4. CASE Finally
  <2>1. CASE held # "none"
    <3> DEFINE X == UNCHANGED <<phase, step, next, status>>
               Y == phase' = "over" /\ UNCHANGED <<step, next, status>>
    <3>1. Leave(X, Y) /\ phase = "finally"
      BY <1>4, <2>1 DEF Finally
    <3>2. /\ a' \in Wide /\ a'.faults = a.faults
          /\ UNCHANGED <<turnVars, kept, withdrawn, copies>> /\ (X \/ Y)
      BY <1>0, <3>1, MemoryLeft
    <3> QED BY <3>1, <3>2, OutOfTheTry DEF turnVars, copies
  <2>2. CASE held = "none"
    <3>1. phase' # "try" /\ UNCHANGED <<turnVars, original, copies, status>>
      BY <1>4, <2>2 DEF Finally, StopGateway
    <3> QED BY <1>0, <3>1, OutOfTheTry DEF turnVars, original, copies
  <2> QED BY <2>1, <2>2
<1>5. CASE RecordFails
  <2>1. phase' = "over" /\ UNCHANGED <<turnVars, original, copies, status>>
    BY <1>5 DEF RecordFails
  <2> QED BY <1>0, <2>1, OutOfTheTry DEF turnVars, original, copies
<1> QED BY <1>1, <1>2, <1>3, <1>4, <1>5

LEMMA TriedFirst ==
    ASSUME NEW p \in Products3, NEW c \in {"v1", "correction"}, NEW A, NEW R
    PROVE  Tried(p, c, 1, 1, Blank, {}, {}, A, {}, R)
<1>1. /\ 1 <= MakeAt(p) /\ ~(1 > MakeAt(p)) /\ ~(1 > ExportAt(p)) /\ ~(1 > RebuildAt(p, c))
      /\ p = "hindsight" => ~(1 > ForgetAt(c))
      /\ Two(p, c) => ~(1 > SyncAt)
  BY PlaceOrder
<1> QED BY <1>1 DEF Tried

LEMMA MemoryRecord ==
    ASSUME PlaceType, RunningInv, MemoryInv, Record
    PROVE  MemoryInv'
<1>1. CASE turn < Len(Selected)
  <2>1. /\ UNCHANGED script /\ turn' = turn + 1 /\ step' = 1 /\ next' = 1
        /\ a' = Blank /\ kept' = {} /\ withdrawn' = {}
        /\ bases' = {} /\ recovered' = Nothing /\ status' = "running"
    BY <1>1 DEF Record
  <2>2. script \in {"v1", "correction"} /\ turn' \in 1 .. Len(Selected)
    BY <1>1, <2>1, ExitAssumption, SelectedType DEF PlaceType
  <2>3. name' \in Products3
    BY <2>2, SelectedType DEF name
  <2>4. Tried(name', script', step', next', a', kept', withdrawn', artifact', bases', recovered')
    BY <2>1, <2>2, <2>3, TriedFirst
  <2>5. recovered' = [k \in Kinds |-> recovered'[k]]
    BY <2>1 DEF Nothing
  <2> QED BY <2>1, <2>4, <2>5, BlankType DEF MemoryInv, TryInv
<1>2. CASE ~(turn < Len(Selected))
  <2>1. phase' = "over" /\ UNCHANGED <<script, turn, original, copies, status>>
    BY <1>2 DEF Record
  <2>2. a \in Wide
    BY DEF MemoryInv
  <2> QED BY <2>1, <2>2, OutOfTheTry DEF original, copies
<1> QED BY <1>1, <1>2

LEMMA MemoryInit == Init /\ Selected # <<>> => MemoryInv
<1> SUFFICES ASSUME Init, Selected # <<>> PROVE MemoryInv
  OBVIOUS
<1>1. /\ script \in {"v1", "correction"} /\ turn = 1 /\ step = 1 /\ next = 1
      /\ a = Blank /\ kept = {} /\ withdrawn = {}
      /\ bases = {} /\ recovered = Nothing /\ status = "running"
  BY ExitAssumption DEF Init
<1>2. name \in Products3
  BY <1>1, SelectedType DEF name
<1>3. Tried(name, script, step, next, a, kept, withdrawn, artifact, bases, recovered)
  BY <1>1, <1>2, TriedFirst
<1>4. recovered = [k \in Kinds |-> recovered[k]]
  BY <1>1 DEF Nothing
<1> QED BY <1>1, <1>3, <1>4, BlankType DEF MemoryInv, TryInv

(* Whatever fails on the way, of either script, on any selection of        *)
(* products and any corpus that stores each event once: in a completed     *)
(* exit all that was recorded as stored outlived the original in the       *)
(* artifact (but for Hindsight's under the first script, and Mem0's), the  *)
(* new runtimes were empty and hold nothing that is not from the artifact, *)
(* and nothing that was withdrawn came back (_populate, the exports and    *)
(* the rebuilding of run_semantic_memory_exit.py and                       *)
(* run_semantic_exit_corrections.py).                                      *)
THEOREM ExitResultsAboutMemory ==
    ASSUME StoredOnce
    PROVE  Spec => []ExitKeepsMemory
<1> DEFINE Inv == PlaceType /\ RunningInv /\ (Selected # <<>> => MemoryInv)
<1>1. Init => Inv
  BY PlaceInit, MemoryInit
<1>2. Inv /\ [Next]_vars => Inv'
  <2> SUFFICES ASSUME Inv, [Next]_vars PROVE Inv'
    OBVIOUS
  <2>1. PlaceType' /\ RunningInv'
    <3>1. CASE UNCHANGED vars
      BY <3>1 DEF vars, turnVars, control, services, PlaceType, RunningInv, name
    <3>2. CASE Next
      BY <3>2, QuietSteps, QuietRuns, GatewayRuns, UpRuns, DownRuns, UnwindRuns, CompleteRuns,
         ExceptRuns, FinallyRuns, RecordRuns, RecordFailsRuns
      DEF Next
    <3> QED BY <3>1, <3>2
  <2>2. ASSUME Selected # <<>> PROVE MemoryInv'
    <3>1. CASE UNCHANGED vars
      <4>1. UNCHANGED <<script, turn, phase, step, next, a, kept, withdrawn, artifact, bases,
                        recovered, status>>
        BY <3>1 DEF vars, turnVars, control, original, copies
      <4> QED BY <2>2, <4>1 DEF MemoryInv, TryInv, Reached, name
    <3>2. CASE Next
      BY <2>2, <3>2, MemoryGateway, MemoryUp, MemoryWaits, MemoryDestroy, MemoryDown, MemoryMake,
         MemoryPopulate, MemoryExport, MemoryForget, MemoryRebuilt, MemoryComplete, MemoryEnds,
         MemoryRecord
      DEF Next
    <3> QED BY <3>1, <3>2
  <2> QED BY <2>1, <2>2
<1>3. Inv => ExitKeepsMemory
  <2> SUFFICES ASSUME Inv, status = "completed"
               PROVE  /\ bases = {}
                      /\ \A k \in Reached :
                            /\ name # "mem0-native" /\ ~VersionOnly => kept \subseteq artifact[k]
                            /\ recovered[k] \subseteq artifact[k]
                            /\ name # "mem0-native" \/ a.faults = 0 =>
                                  recovered[k] \cap withdrawn = {}
    BY DEF ExitKeepsMemory
  <2>1. Selected # <<>>
    BY DEF PlaceType
  <2>2. /\ bases = {} /\ Carries(name, script, a.faults, kept, withdrawn, artifact)
        /\ \A k \in Reached : recovered[k] \subseteq artifact[k]
    BY <2>1 DEF MemoryInv
  <2>3. ASSUME NEW k \in Reached
        PROVE  /\ name # "mem0-native" /\ ~VersionOnly => kept \subseteq artifact[k]
               /\ Clean(name, a.faults, withdrawn, artifact[k])
    <3>1. CASE k = "export"
      BY <2>2, <3>1 DEF Carries, Good, VersionOnly
    <3>2. CASE k # "export"
      <4>1. k = "canonical" /\ Two(name, script)
        BY <3>2 DEF Reached, Kinds, Two
      <4> QED BY <2>2, <4>1 DEF Carries, Good
    <3> QED BY <3>1, <3>2
  <2> QED BY <2>2, <2>3 DEF Clean
<1> QED BY <1>1, <1>2, <1>3, PTL DEF Spec
=============================================================================
