-------------------------- MODULE CapabilityRunProofs ---------------------------
(* Proofs about CapabilityRun, for any number of processes, packs, queries *)
(* and executions.                                                         *)
EXTENDS CapabilityRun, TLAPS, FiniteSetTheorems

-----------------------------------------------------------------------------
(* Types, in five parts.                                                   *)

(* A process inside a pack: from the look at its directory to its seal.    *)
Inside == {"make", "load", "populate", "ask", "read", "reader", "seal"}

ControlType ==
    /\ pc \in [Slots -> Places] /\ provider \in [Slots -> Providers]
    /\ number \in [Slots -> Nat] /\ pack \in [Slots -> 1 .. PackCount + 1]
    /\ query \in [Slots -> Nat] /\ cell \in [Slots -> Nat]
    /\ rows \in [Slots -> SUBSET (Nat \X Nat)] /\ observed \in [Slots -> SUBSET Nat]
    /\ \A x \in Slots : pc[x] \in Inside => pack[x] <= PackCount

ProxyType ==
    /\ cap \in [Slots -> 0 .. Ceiling] /\ charged \in [Slots -> Nat]
    /\ flying \in [Slots -> 0 .. MaxCost]
    /\ \A x \in Slots : charged[x] <= cap[x]
    /\ \A x \in Slots : pc[x] = "idle" => charged[x] = 0

CostType == ledger \in Nat /\ spent \in Nat /\ hidden \in Nat /\ excess \in Nat
DiskType ==
    /\ dirs \in [Providers -> [1 .. PackCount -> DirType]]
    /\ summary \subseteq Providers
HistoryType == runs \in 0 .. MaxExecutions /\ overlapped \in BOOLEAN

TypeInv == ControlType /\ ProxyType /\ CostType /\ DiskType /\ HistoryType

LEMMA TypeInvIsTypeOK == TypeInv => TypeOK
  BY DEF TypeInv, ControlType, ProxyType, CostType, DiskType, HistoryType, TypeOK

LEMMA TypeInit == Init => TypeInv
<1> SUFFICES ASSUME Init PROVE TypeInv
  OBVIOUS
<1>1. 1 \in 1 .. PackCount + 1 /\ 0 \in 0 .. Ceiling /\ 0 \in 0 .. MaxCost
      /\ 0 \in 0 .. MaxExecutions
  BY CapabilityAssumption
<1>2. ControlType
  BY <1>1 DEF Init, ControlType, Places, Inside
<1>3. ProxyType
  BY <1>1 DEF Init, ProxyType
<1>4. NoDir \in DirType
  BY DEF NoDir, DirType, Manifests, Parts
<1>5. DiskType
  BY <1>4 DEF Init, DiskType
<1>6. overlapped \in BOOLEAN
  BY Zenon DEF Init
<1>7. HistoryType /\ CostType
  BY <1>1, <1>6 DEF Init, HistoryType, CostType
<1> QED BY <1>2, <1>3, <1>5, <1>7 DEF TypeInv

(* An execution that ends leaves control and proxy typed.                  *)
LEMMA EndsTyped ==
    ASSUME TypeInv, NEW x \in Slots, Ends(x)
    PROVE  ControlType' /\ ProxyType'
<1>1. 0 \in 0 .. Ceiling /\ 0 \in 0 .. MaxCost /\ 1 \in 1 .. PackCount + 1
  BY CapabilityAssumption
<1>2. ControlType'
  <2>1. /\ pc' \in [Slots -> Places] /\ provider' \in [Slots -> Providers]
        /\ number' \in [Slots -> Nat] /\ pack' \in [Slots -> 1 .. PackCount + 1]
        /\ query' \in [Slots -> Nat] /\ cell' \in [Slots -> Nat]
    BY <1>1 DEF Ends, Goes, TypeInv, ControlType, Places
  <2>2. rows' \in [Slots -> SUBSET (Nat \X Nat)] /\ observed' \in [Slots -> SUBSET Nat]
    BY DEF Ends, TypeInv, ControlType
  <2>3. \A y \in Slots : pc'[y] \in Inside => pack'[y] <= PackCount
    BY DEF Ends, Goes, Inside, TypeInv, ControlType
  <2> QED BY <2>1, <2>2, <2>3 DEF ControlType
<1>3. ProxyType'
  <2>1. /\ cap' \in [Slots -> 0 .. Ceiling] /\ charged' \in [Slots -> Nat]
        /\ flying' \in [Slots -> 0 .. MaxCost]
    BY <1>1 DEF Ends, TypeInv, ProxyType
  <2>2. \A y \in Slots : charged'[y] <= cap'[y] /\ (pc'[y] = "idle" => charged'[y] = 0)
    BY DEF Ends, Goes, TypeInv, ProxyType, ControlType
  <2> QED BY <2>1, <2>2 DEF ProxyType
<1> QED BY <1>2, <1>3

LEMMA HistoryNext ==
    ASSUME TypeInv, NEW x \in Slots, Step(x)
    PROVE  HistoryType'
<1>1. ASSUME NEW p \in Providers, Start(x, p) PROVE HistoryType'
  <2>1. overlapped' \in BOOLEAN
    BY <1>1, Zenon DEF Start
  <2>2. runs' \in 0 .. MaxExecutions
    BY <1>1, CapabilityAssumption DEF Start, TypeInv, HistoryType
  <2> QED BY <2>1, <2>2 DEF HistoryType
<1>2. CASE UNCHANGED history
  BY <1>2 DEF history, TypeInv, HistoryType
<1>3. (\E p \in Providers : Start(x, p)) \/ UNCHANGED history
  BY DEF Step, Look, MakeDir, Load, LoadRaises, Populate, Ask, Refuse, Post, Answer,
         NextQuery, Write, Complete, Seal, Fail, Summarise, Kill, Ends
<1> QED BY <1>1, <1>2, <1>3

LEMMA CostNext ==
    ASSUME TypeInv, NEW x \in Slots, Step(x)
    PROVE  CostType'
<1> USE DEF TypeInv, CostType
<1>1. flying[x] \in Nat
  BY CapabilityAssumption DEF ProxyType
<1>2. ASSUME NEW p \in Providers, Start(x, p) PROVE CostType'
  BY <1>2 DEF Start
<1>3. ASSUME NEW cost \in 0 .. MaxCost, Post(x, cost) PROVE CostType'
  BY <1>3 DEF Post
<1>4. CASE Answer(x)
  <2>1. PICK recorded \in 0 .. flying[x] : /\ ledger' = ledger + recorded
                                          /\ hidden' = hidden + (flying[x] - recorded)
    BY <1>4 DEF Answer
  <2>2. recorded \in Nat /\ flying[x] - recorded \in Nat
    BY <1>1
  <2>3. UNCHANGED <<spent, excess>>
    BY <1>4 DEF Answer
  <2> QED BY <2>1, <2>2, <2>3
<1>5. CASE Kill(x)
  BY <1>1, <1>5 DEF Kill
<1>6. CASE UNCHANGED costs
  BY <1>6 DEF costs
<1>7. \/ \E p \in Providers : Start(x, p)
      \/ \E cost \in 0 .. MaxCost : Post(x, cost)
      \/ Answer(x) \/ Kill(x) \/ UNCHANGED costs
  BY DEF Step, Look, MakeDir, Load, LoadRaises, Populate, Ask, Refuse,
         NextQuery, Write, Complete, Seal, Fail, Summarise
<1> QED BY <1>2, <1>3, <1>4, <1>5, <1>6, <1>7

LEMMA ProxyNext ==
    ASSUME TypeInv, NEW x \in Slots, Step(x)
    PROVE  ProxyType'
<1> USE DEF TypeInv, ProxyType, ControlType
<1>1. ASSUME NEW p \in Providers, Start(x, p) PROVE ProxyType'
  <2>1. Smaller(PerRun, Remaining) \in 0 .. Ceiling
    BY <1>1, CapabilityAssumption DEF Start, Smaller, Remaining, CostType
  <2>2. cap' \in [Slots -> 0 .. Ceiling] /\ charged' = charged /\ flying' = flying
    BY <1>1, <2>1 DEF Start
  <2>3. ASSUME NEW y \in Slots
        PROVE  charged'[y] <= cap'[y] /\ (pc'[y] = "idle" => charged'[y] = 0)
    <3>1. CASE y = x
      BY <1>1, <2>1, <2>2, <3>1, CapabilityAssumption DEF Start, Goes
    <3>2. CASE y # x
      BY <1>1, <2>2, <3>2 DEF Start, Goes
    <3> QED BY <3>1, <3>2
  <2> QED BY <2>2, <2>3
<1>2. ASSUME NEW cost \in 0 .. MaxCost, Post(x, cost) PROVE ProxyType'
  <2>1. cap' = cap /\ charged' \in [Slots -> Nat] /\ flying' \in [Slots -> 0 .. MaxCost]
    BY <1>2 DEF Post
  <2>2. ASSUME NEW y \in Slots
        PROVE  charged'[y] <= cap'[y] /\ (pc'[y] = "idle" => charged'[y] = 0)
    BY <1>2, <2>1, CapabilityAssumption DEF Post, Goes
  <2> QED BY <2>1, <2>2
<1>3. CASE Answer(x)
  <2>1. 0 \in 0 .. MaxCost
    BY CapabilityAssumption
  <2> QED BY <1>3, <2>1 DEF Answer, Goes
<1>4. CASE Ends(x)
  BY <1>4, EndsTyped
<1>5. CASE UNCHANGED proxy /\ \A y \in Slots : pc'[y] = "idle" => pc[y] = "idle"
  BY <1>5 DEF proxy
<1>6. \/ \E p \in Providers : Start(x, p)
      \/ \E cost \in 0 .. MaxCost : Post(x, cost)
      \/ Answer(x) \/ Ends(x)
      \/ UNCHANGED proxy /\ \A y \in Slots : pc'[y] = "idle" => pc[y] = "idle"
  BY DEF Step, Look, MakeDir, Load, LoadRaises, Populate, Ask, Refuse, NextQuery, Write,
         Complete, Seal, Fail, Summarise, Kill, Goes, place
<1> QED BY <1>1, <1>2, <1>3, <1>4, <1>5, <1>6

(* The one directory a step may change, and to what.                       *)
LEMMA DiskNext ==
    ASSUME TypeInv, NEW x \in Slots, Step(x)
    PROVE  DiskType'
<1> USE DEF TypeInv, DiskType
<1>1. pc[x] \in Inside => provider[x] \in Providers /\ pack[x] \in 1 .. PackCount
  BY DEF ControlType
<1>2. pc[x] \in Inside => Dir(x) \in DirType
  BY <1>1 DEF Dir
<1>3. ASSUME NEW d \in DirType, pc[x] \in Inside, Becomes(x, d)
      PROVE  dirs' \in [Providers -> [1 .. PackCount -> DirType]]
  BY <1>1, <1>3 DEF Becomes
<1>4. /\ number[x] \in Nat /\ rows[x] \in SUBSET (Nat \X Nat) /\ observed[x] \in SUBSET Nat
      /\ provider[x] \in Providers
  BY DEF ControlType
<1>5. CASE MakeDir(x)
  <2>1. pc[x] \in Inside /\ summary' = summary
    BY <1>5 DEF MakeDir, Inside
  <2>2. [Dir(x) EXCEPT !.owner = number[x]] \in DirType
    BY <1>2, <1>4, <2>1 DEF DirType
  <2> QED BY <1>3, <1>5, <2>1, <2>2 DEF MakeDir
<1>6. ASSUME NEW m \in Manifests, pc[x] \in Inside,
             Becomes(x, [Dir(x) EXCEPT !.manifest = m]), summary' = summary
      PROVE  DiskType'
  <2>1. [Dir(x) EXCEPT !.manifest = m] \in DirType
    BY <1>2, <1>6 DEF DirType
  <2> QED BY <1>3, <1>6, <2>1
<1>7. CASE Load(x) \/ Complete(x) \/ Fail(x)
  BY <1>6, <1>7 DEF Load, Complete, Fail, Inside, Manifests
<1>8. ASSUME NEW part \in Parts, Write(x, part) PROVE DiskType'
  <2>1. pc[x] \in Inside /\ summary' = summary
    BY <1>8 DEF Write, Inside
  <2>2. [Dir(x) EXCEPT !.parts = @ \cup {part}, !.rows = rows[x], !.observed = observed[x]]
           \in DirType
    BY <1>2, <1>4, <2>1 DEF DirType
  <2> QED BY <1>3, <1>8, <2>1, <2>2 DEF Write
<1>9. CASE Seal(x)
  <2>1. pc[x] \in Inside /\ summary' = summary
    BY <1>9 DEF Seal, Inside
  <2>2. [Dir(x) EXCEPT !.sealed = TRUE] \in DirType
    BY <1>2, <2>1 DEF DirType
  <2> QED BY <1>3, <1>9, <2>1, <2>2 DEF Seal
<1>10. CASE Summarise(x)
  BY <1>4, <1>10 DEF Summarise
<1>11. CASE UNCHANGED disk
  BY <1>11 DEF disk
<1>12. \/ MakeDir(x) \/ Load(x) \/ Complete(x) \/ Fail(x) \/ Seal(x) \/ Summarise(x)
       \/ \E part \in Parts : Write(x, part)
       \/ UNCHANGED disk
  BY DEF Step, Start, Look, LoadRaises, Populate, Ask, Refuse, Post, Answer, NextQuery, Kill
<1> QED BY <1>5, <1>7, <1>8, <1>9, <1>10, <1>11, <1>12

LEMMA ControlNext ==
    ASSUME TypeInv, NEW x \in Slots, Step(x)
    PROVE  ControlType'
<1> USE DEF TypeInv, ControlType
<1>1. CASE Ends(x)
  BY <1>1, EndsTyped
<1>2. CASE UNCHANGED <<place, memory>>
  BY <1>2 DEF place, memory
<1>3. ASSUME NEW p \in Providers, Start(x, p) PROVE ControlType'
  <2>1. /\ pc' \in [Slots -> Places] /\ provider' \in [Slots -> Providers]
        /\ pack' = pack /\ query' = query /\ cell' = cell /\ rows' = rows /\ observed' = observed
    BY <1>3 DEF Start, Goes, Places, memory
  <2>2. number' \in [Slots -> Nat]
    BY <1>3 DEF Start, HistoryType
  <2>3. \A y \in Slots : pc'[y] \in Inside => pc[y] \in Inside
    BY <1>3 DEF Start, Goes, Inside
  <2> QED BY <2>1, <2>2, <2>3
<1>4. CASE Look(x) /\ ~Ends(x)
  <2>1. pack[x] <= PackCount /\ pack[x] + 1 \in 1 .. PackCount + 1
    BY <1>4, CapabilityAssumption DEF Look
  <2>2. CASE Goes(x, "make") /\ UNCHANGED pack
    BY <1>4, <2>1, <2>2 DEF Look, Goes, Places, memory, Inside
  <2>3. CASE pack' = [pack EXCEPT ![x] = @ + 1] /\ UNCHANGED pc
    BY <1>4, <2>1, <2>3 DEF Look, memory, Inside
  <2> QED BY <1>4, <2>2, <2>3 DEF Look
<1>5. ASSUME NEW where \in Places, pc[x] \in Inside, Goes(x, where),
             UNCHANGED <<provider, number, pack>>
      PROVE  /\ pc' \in [Slots -> Places] /\ provider' \in [Slots -> Providers]
             /\ number' \in [Slots -> Nat] /\ pack' \in [Slots -> 1 .. PackCount + 1]
             /\ \A y \in Slots : pc'[y] \in Inside => pack'[y] <= PackCount
  BY <1>5 DEF Goes
<1>6. CASE (MakeDir(x) /\ ~Ends(x)) \/ Load(x) \/ Complete(x)
  <2>1. /\ pc[x] \in Inside /\ \E where \in Places : Goes(x, where)
        /\ UNCHANGED <<provider, number, pack>>
    BY <1>6 DEF MakeDir, Load, Complete, Inside, Places
  <2>2. UNCHANGED <<query, cell, rows, observed>>
    BY <1>6 DEF MakeDir, Load, Complete, memory
  <2> QED BY <1>5, <2>1, <2>2
<1>7. CASE Populate(x)
  <2>1. pc[x] \in Inside /\ Goes(x, "ask") /\ UNCHANGED <<provider, number, pack>>
    BY <1>7 DEF Populate, Inside
  <2>2. /\ query' \in [Slots -> Nat] /\ cell' \in [Slots -> Nat]
        /\ rows' \in [Slots -> SUBSET (Nat \X Nat)] /\ observed' \in [Slots -> SUBSET Nat]
    BY <1>7 DEF Populate
  <2> QED BY <1>5, <2>1, <2>2 DEF Places
<1>8. CASE Ask(x)
  <2>1. CASE UNCHANGED pc
    BY <1>8, <2>1 DEF Ask, Goes
  <2>2. CASE Goes(x, "read")
    <3>1. pc[x] \in Inside /\ UNCHANGED <<provider, number, pack>>
      BY <1>8 DEF Ask, Inside
    <3>2. query[x] \in Nat
      OBVIOUS
    <3>3. /\ query' \in [Slots -> Nat] /\ cell' \in [Slots -> Nat]
          /\ rows' \in [Slots -> SUBSET (Nat \X Nat)] /\ observed' \in [Slots -> SUBSET Nat]
      BY <1>8, <3>2 DEF Ask
    <3> QED BY <1>5, <2>2, <3>1, <3>3 DEF Places
  <2> QED BY <1>8, <2>1, <2>2 DEF Ask
<1>9. ASSUME Answered(x)
      PROVE  cell' \in [Slots -> Nat] /\ rows' \in [Slots -> SUBSET (Nat \X Nat)]
  BY <1>9 DEF Answered
<1>10. CASE Refuse(x)
  BY <1>9, <1>10 DEF Refuse
<1>11. ASSUME NEW cost \in 0 .. MaxCost, Post(x, cost) PROVE ControlType'
  <2>1. pc[x] \in Inside /\ Goes(x, "reader") /\ UNCHANGED <<provider, number, pack>>
    BY <1>11 DEF Post, Inside
  <2>2. UNCHANGED <<query, cell, rows, observed>>
    BY <1>11 DEF Post, memory
  <2> QED BY <1>5, <2>1, <2>2 DEF Places
<1>12. CASE Answer(x)
  <2>1. pc[x] \in Inside /\ Goes(x, "read") /\ UNCHANGED <<provider, number, pack>>
    BY <1>12 DEF Answer, Inside
  <2>2. UNCHANGED <<query, observed>>
    BY <1>12 DEF Answer
  <2> QED BY <1>5, <1>9, <1>12, <2>1, <2>2 DEF Places, Answer
<1>13. CASE NextQuery(x)
  <2>1. pc[x] \in Inside /\ Goes(x, "ask") /\ UNCHANGED <<provider, number, pack>>
    BY <1>13 DEF NextQuery, Inside
  <2>2. query' \in [Slots -> Nat] /\ UNCHANGED <<cell, rows, observed>>
    BY <1>13 DEF NextQuery, memory
  <2> QED BY <1>5, <2>1, <2>2 DEF Places
<1>14. CASE Seal(x)
  <2>1. pack[x] <= PackCount /\ pack[x] + 1 \in 1 .. PackCount + 1
    BY <1>14, CapabilityAssumption DEF Seal, Inside
  <2> QED BY <1>14, <2>1 DEF Seal, Goes, Places, Inside, memory
<1>15. CASE UNCHANGED <<place, memory>> \/ Ends(x)
  BY <1>1, <1>2, <1>15
<1>16. (\E part \in Parts : Write(x, part)) => UNCHANGED <<place, memory>>
  BY DEF Write
<1>17. (LoadRaises(x) \/ Fail(x) \/ Summarise(x) \/ Kill(x)) => Ends(x)
  BY DEF LoadRaises, Fail, Summarise, Kill
<1> QED BY <1>1, <1>2, <1>3, <1>4, <1>6, <1>7, <1>8, <1>10, <1>11, <1>12, <1>13, <1>14,
           <1>16, <1>17 DEF Step

LEMMA TypeNext == TypeInv /\ [Next]_vars => TypeInv'
<1> SUFFICES ASSUME TypeInv, [Next]_vars PROVE TypeInv'
  OBVIOUS
<1>1. CASE UNCHANGED vars
  BY <1>1 DEF vars, place, memory, proxy, costs, disk, history, TypeInv, ControlType,
              ProxyType, CostType, DiskType, HistoryType
<1>2. ASSUME NEW x \in Slots, Step(x) PROVE TypeInv'
  BY <1>2, ControlNext, ProxyNext, CostNext, DiskNext, HistoryNext DEF TypeInv
<1> QED BY <1>1, <1>2 DEF Next

(* Every variable keeps its type, and no proxy charges more than it was    *)
(* started with, however many executions run and are killed.               *)
THEOREM CapabilityTypeCorrect == Spec => []TypeOK
<1>1. Spec => []TypeInv
  BY TypeInit, TypeNext, PTL DEF Spec
<1> QED BY <1>1, TypeInvIsTypeOK, PTL

-----------------------------------------------------------------------------
(* Directories belong to executions.                                       *)

(* Past the making of its directory, a process has one of its own.         *)
Working == Inside \ {"make"}

OwnInv ==
    /\ \A x \in Slots : (pc[x] # "idle" <=> number[x] # 0) /\ number[x] <= runs
    /\ \A x, y \in Slots : x # y /\ pc[x] # "idle" /\ pc[y] # "idle" =>
          number[x] # number[y] /\ overlapped
    /\ \A p \in Providers, k \in 1 .. PackCount : dirs[p][k].owner <= runs
    /\ \A x \in Slots : pc[x] \in Working => Dir(x).owner = number[x]

LEMMA OwnInit == Init => OwnInv
  BY DEF Init, OwnInv, NoDir, Working, Inside, Dir

(* What a step of x is to the others.                                      *)
LEMMA StepIsLocal ==
    ASSUME TypeInv, NEW x \in Slots, Step(x), NEW y \in Slots, y # x
    PROVE  /\ pc'[y] = pc[y] /\ provider'[y] = provider[y] /\ number'[y] = number[y]
           /\ pack'[y] = pack[y] /\ query'[y] = query[y] /\ cell'[y] = cell[y]
           /\ rows'[y] = rows[y] /\ observed'[y] = observed[y]
<1> USE DEF TypeInv, ControlType
<1>1. CASE Ends(x)
  BY <1>1 DEF Ends, Goes
<1>2. CASE UNCHANGED <<place, memory>>
  BY <1>2 DEF place, memory
<1>3. CASE \E p \in Providers : Start(x, p)
  BY <1>3 DEF Start, Goes, memory
<1>4. CASE Look(x) /\ ~Ends(x)
  BY <1>4 DEF Look, Goes, memory
<1>5. CASE (MakeDir(x) /\ ~Ends(x)) \/ Load(x) \/ Complete(x) \/ Seal(x)
  BY <1>5 DEF MakeDir, Load, Complete, Seal, Goes, memory
<1>6. CASE Populate(x)
  BY <1>6 DEF Populate, Goes
<1>7. CASE Ask(x)
  BY <1>7 DEF Ask, Goes
<1>8. CASE Refuse(x) \/ Answer(x)
  BY <1>8 DEF Refuse, Answer, Answered, Goes
<1>9. CASE \E cost \in 0 .. MaxCost : Post(x, cost)
  BY <1>9 DEF Post, Goes, memory
<1>10. CASE NextQuery(x)
  BY <1>10 DEF NextQuery, Goes, memory
<1>11. (\E part \in Parts : Write(x, part)) => UNCHANGED <<place, memory>>
  BY DEF Write
<1>12. (LoadRaises(x) \/ Fail(x) \/ Summarise(x) \/ Kill(x)) => Ends(x)
  BY DEF LoadRaises, Fail, Summarise, Kill
<1> QED BY <1>1, <1>2, <1>3, <1>4, <1>5, <1>6, <1>7, <1>8, <1>9, <1>10, <1>11, <1>12 DEF Step

(* A step leaves the directories as they are, or makes the one it is at,   *)
(* which was not there, or changes the one its process works in.           *)
Makes(x) ==
    /\ pc[x] = "make" /\ pc'[x] = "load" /\ ~Made(Dir(x))
    /\ Becomes(x, [Dir(x) EXCEPT !.owner = number[x]])

Fills(x) ==
    /\ pc[x] \in Working
    /\ \/ \E m \in Manifests : Becomes(x, [Dir(x) EXCEPT !.manifest = m])
       \/ \E part \in Parts : Becomes(x, [Dir(x) EXCEPT !.parts = @ \cup {part},
                                          !.rows = rows[x], !.observed = observed[x]])
       \/ Becomes(x, [Dir(x) EXCEPT !.sealed = TRUE])

LEMMA StepOnDisk ==
    ASSUME TypeInv, NEW x \in Slots, Step(x)
    PROVE  UNCHANGED dirs \/ Makes(x) \/ Fills(x)
<1>1. CASE MakeDir(x)
  BY <1>1 DEF MakeDir, Makes, Goes, TypeInv, ControlType
<1>2. CASE Load(x) \/ Complete(x) \/ Fail(x)
  BY <1>2 DEF Load, Complete, Fail, Fills, Working, Inside, Manifests
<1>3. ASSUME NEW part \in Parts, Write(x, part) PROVE Fills(x)
  BY <1>3 DEF Write, Fills, Working, Inside
<1>4. CASE Seal(x)
  BY <1>4 DEF Seal, Fills, Working, Inside
<1>5. \/ MakeDir(x) \/ Load(x) \/ Complete(x) \/ Fail(x) \/ Seal(x)
      \/ \E part \in Parts : Write(x, part)
      \/ UNCHANGED dirs
  BY DEF Step, Start, Look, LoadRaises, Populate, Ask, Refuse, Post, Answer, NextQuery, Kill,
         Summarise, disk
<1> QED BY <1>1, <1>2, <1>3, <1>4, <1>5

LEMMA StepLife ==
    ASSUME TypeInv, NEW x \in Slots, Step(x)
    PROVE  \/ Ends(x)
           \/ \E p \in Providers : Start(x, p)
           \/ /\ pc[x] # "idle" /\ pc'[x] # "idle"
              /\ number' = number /\ provider' = provider /\ UNCHANGED history
<1> USE DEF TypeInv, ControlType, Goes
<1>1. CASE Look(x) \/ MakeDir(x) \/ Load(x) \/ Populate(x) \/ Complete(x) \/ Seal(x)
  BY <1>1 DEF Look, MakeDir, Load, Populate, Complete, Seal
<1>2. CASE Ask(x) \/ Refuse(x) \/ Answer(x) \/ NextQuery(x)
  BY <1>2 DEF Ask, Refuse, Answer, NextQuery
<1>3. CASE \E cost \in 0 .. MaxCost : Post(x, cost)
  BY <1>3 DEF Post
<1>4. CASE \E part \in Parts : Write(x, part)
  BY <1>4 DEF Write, place
<1>5. (LoadRaises(x) \/ Fail(x) \/ Summarise(x) \/ Kill(x)) => Ends(x)
  BY DEF LoadRaises, Fail, Summarise, Kill
<1> QED BY <1>1, <1>2, <1>3, <1>4, <1>5 DEF Step

LEMMA StepWithin ==
    ASSUME TypeInv, NEW x \in Slots, Step(x), pc'[x] \in Working
    PROVE  /\ pc[x] \in Working \/ Makes(x)
           /\ pack'[x] = pack[x] /\ provider'[x] = provider[x] /\ number'[x] = number[x]
<1> USE DEF TypeInv, ControlType, Goes, Working, Inside
<1>1. ~Ends(x)
  BY DEF Ends
<1>2. CASE Look(x) \/ Load(x) \/ Populate(x) \/ Complete(x) \/ Seal(x)
  BY <1>1, <1>2 DEF Look, Load, Populate, Complete, Seal
<1>3. CASE MakeDir(x)
  BY <1>1, <1>3 DEF MakeDir, Makes
<1>4. CASE Ask(x) \/ Refuse(x) \/ Answer(x) \/ NextQuery(x)
  BY <1>4 DEF Ask, Refuse, Answer, NextQuery
<1>5. CASE \E cost \in 0 .. MaxCost : Post(x, cost)
  BY <1>5 DEF Post
<1>6. CASE \E part \in Parts : Write(x, part)
  BY <1>6 DEF Write, place
<1>7. CASE \E p \in Providers : Start(x, p)
  BY <1>7 DEF Start
<1>8. ~(LoadRaises(x) \/ Fail(x) \/ Summarise(x) \/ Kill(x))
  BY <1>1 DEF LoadRaises, Fail, Summarise, Kill
<1> QED BY <1>2, <1>3, <1>4, <1>5, <1>6, <1>7, <1>8 DEF Step

(* Which directory a step may touch, seen from any directory.              *)
LEMMA OtherDirs ==
    ASSUME TypeInv, NEW x \in Slots, Step(x), NEW p \in Providers, NEW k \in 1 .. PackCount,
           p # provider[x] \/ k # pack[x]
    PROVE  dirs'[p][k] = dirs[p][k]
<1>1. (Makes(x) \/ Fills(x)) => pc[x] \in Inside
  BY DEF Makes, Fills, Working, Inside
<1>2. pc[x] \in Inside => provider[x] \in Providers /\ pack[x] \in 1 .. PackCount
  BY DEF TypeInv, ControlType
<1>3. ASSUME NEW d, pc[x] \in Inside, Becomes(x, d) PROVE dirs'[p][k] = dirs[p][k]
  BY <1>2, <1>3 DEF Becomes, TypeInv, DiskType
<1>4. CASE Makes(x)
  BY <1>1, <1>3, <1>4 DEF Makes
<1>5. CASE Fills(x)
  BY <1>1, <1>3, <1>5 DEF Fills
<1> QED BY <1>4, <1>5, StepOnDisk

(* The owner of a directory is set when it is made and never again.        *)
LEMMA OwnerKept ==
    ASSUME TypeInv, NEW x \in Slots, Step(x), NEW p \in Providers, NEW k \in 1 .. PackCount
    PROVE  \/ dirs'[p][k].owner = dirs[p][k].owner
           \/ /\ Makes(x) /\ p = provider[x] /\ k = pack[x]
              /\ dirs[p][k].owner = 0 /\ dirs'[p][k].owner = number[x]
<1>1. CASE p # provider[x] \/ k # pack[x]
  BY <1>1, OtherDirs
<1>2. CASE p = provider[x] /\ k = pack[x]
  <2>1. dirs[p][k] \in DirType /\ Dir(x) = dirs[p][k]
    BY <1>2 DEF TypeInv, DiskType, Dir
  <2>2. ASSUME NEW d, Becomes(x, d) PROVE dirs'[p][k] = d
    BY <1>2, <2>2 DEF Becomes, TypeInv, DiskType
  <2>3. CASE Makes(x)
    <3>1. dirs'[p][k] = [dirs[p][k] EXCEPT !.owner = number[x]]
      BY <2>1, <2>2, <2>3 DEF Makes
    <3> QED BY <1>2, <2>1, <2>3, <3>1 DEF Makes, Made, DirType
  <2>4. CASE Fills(x)
    BY <2>1, <2>2, <2>4 DEF Fills, DirType
  <2> QED BY <2>3, <2>4, StepOnDisk
<1> QED BY <1>1, <1>2

LEMMA OwnNext ==
    ASSUME TypeInv, OwnInv, NEW x \in Slots, Step(x)
    PROVE  OwnInv'
<1> USE DEF OwnInv
<1>1. TypeInv' /\ runs \in Nat /\ number \in [Slots -> Nat]
  BY TypeNext DEF Next, TypeInv, HistoryType, ControlType
<1>2. \/ Ends(x) /\ runs' = runs /\ overlapped' = overlapped
         /\ pc'[x] = "idle" /\ number'[x] = 0
      \/ /\ pc[x] = "idle" /\ pc'[x] # "idle" /\ runs' = runs + 1 /\ number'[x] = runs + 1
         /\ overlapped' = (overlapped \/ \E y \in Slots : pc[y] # "idle")
      \/ /\ pc[x] # "idle" /\ pc'[x] # "idle" /\ number' = number
         /\ runs' = runs /\ overlapped' = overlapped
  <2>1. Ends(x) => /\ runs' = runs /\ overlapped' = overlapped
                   /\ pc'[x] = "idle" /\ number'[x] = 0
    BY DEF Ends, Goes, history, TypeInv, ControlType
  <2>2. ASSUME NEW p \in Providers, Start(x, p)
        PROVE  /\ pc[x] = "idle" /\ pc'[x] # "idle" /\ runs' = runs + 1 /\ number'[x] = runs + 1
               /\ overlapped' = (overlapped \/ \E y \in Slots : pc[y] # "idle")
    <3>1. overlapped' = (overlapped \/ \E y \in Slots : pc[y] # "idle")
      BY <2>2, Zenon DEF Start, Alone
    <3> QED BY <2>2, <3>1 DEF Start, Goes, TypeInv, ControlType
  <2> QED BY <2>1, <2>2, StepLife DEF history
<1>3. \A y \in Slots \ {x} : pc'[y] = pc[y] /\ number'[y] = number[y]
  BY StepIsLocal
<1>4. \A y \in Slots : (pc'[y] # "idle" <=> number'[y] # 0) /\ number'[y] <= runs'
  BY <1>1, <1>2, <1>3
<1>5. ASSUME NEW y \in Slots, NEW z \in Slots, y # z, pc'[y] # "idle", pc'[z] # "idle"
      PROVE  number'[y] # number'[z] /\ overlapped'
  <2>1. CASE y = x
    <3>1. number'[z] = number[z] /\ pc[z] # "idle" /\ number[z] <= runs
      BY <1>3, <1>5, <2>1
    <3>2. CASE pc[x] = "idle"
      <4>1. number'[x] = runs + 1 /\ number'[x] # number'[z]
        BY <1>1, <1>2, <1>5, <2>1, <3>1, <3>2
      <4>2. overlapped'
        BY <1>2, <1>5, <2>1, <3>1, <3>2, Zenon
      <4> QED BY <2>1, <4>1, <4>2
    <3>3. CASE pc[x] # "idle"
      <4>1. number' = number /\ overlapped' = overlapped
        BY <1>2, <1>5, <2>1, <3>3
      <4> QED BY <1>5, <2>1, <3>1, <3>3, <4>1
    <3> QED BY <3>2, <3>3
  <2>2. CASE z = x
    <3>1. number'[y] = number[y] /\ pc[y] # "idle" /\ number[y] <= runs
      BY <1>3, <1>5, <2>2
    <3>2. CASE pc[x] = "idle"
      <4>1. number'[x] = runs + 1 /\ number'[x] # number'[y]
        BY <1>1, <1>2, <1>5, <2>2, <3>1, <3>2
      <4>2. overlapped'
        BY <1>2, <1>5, <2>2, <3>1, <3>2, Zenon
      <4> QED BY <2>2, <4>1, <4>2
    <3>3. CASE pc[x] # "idle"
      <4>1. number' = number /\ overlapped' = overlapped
        BY <1>2, <1>5, <2>2, <3>3
      <4> QED BY <1>5, <2>2, <3>1, <3>3, <4>1
    <3> QED BY <3>2, <3>3
  <2>3. CASE y # x /\ z # x
    <3>1. overlapped
      BY <1>3, <1>5, <2>3
    <3> QED BY <1>2, <1>3, <1>5, <2>3, <3>1
  <2> QED BY <2>1, <2>2, <2>3
<1>6. ASSUME NEW p \in Providers, NEW k \in 1 .. PackCount PROVE dirs'[p][k].owner <= runs'
  <2>1. dirs[p][k].owner \in Nat /\ dirs[p][k].owner <= runs
    BY DEF TypeInv, DiskType, DirType
  <2>2. number[x] \in Nat /\ number[x] <= runs
    BY <1>1
  <2>3. runs' \in Nat /\ runs <= runs'
    BY <1>1, <1>2
  <2>4. dirs'[p][k].owner \in {dirs[p][k].owner, number[x]}
    BY OwnerKept
  <2> QED BY <1>1, <2>1, <2>2, <2>3, <2>4
<1>7. ASSUME NEW y \in Slots, pc'[y] \in Working PROVE Dir(y)'.owner = number'[y]
  <2>1. CASE y = x
    <3>1. /\ pc[x] \in Working \/ Makes(x)
          /\ pack'[x] = pack[x] /\ provider'[x] = provider[x] /\ number'[x] = number[x]
      BY <1>7, <2>1, StepWithin
    <3>2. pc[x] \in Inside
      BY <3>1 DEF Working, Inside, Makes
    <3>3. provider[x] \in Providers /\ pack[x] \in 1 .. PackCount
      BY <3>2 DEF TypeInv, ControlType
    <3>4. CASE pc[x] \in Working
      <4>1. Dir(x).owner = number[x] /\ number[x] # 0
        BY <3>4 DEF Working, Inside
      <4> QED BY <2>1, <3>1, <3>3, <4>1, OwnerKept DEF Dir
    <3>5. CASE Makes(x)
      <4>1. dirs'[provider[x]][pack[x]] = [Dir(x) EXCEPT !.owner = number[x]]
        BY <3>3, <3>5 DEF Makes, Becomes, TypeInv, DiskType
      <4>2. Dir(x) \in DirType
        BY <3>3 DEF Dir, TypeInv, DiskType
      <4> QED BY <2>1, <3>1, <4>1, <4>2 DEF Dir, DirType
    <3> QED BY <3>1, <3>4, <3>5
  <2>2. CASE y # x
    <3>1. /\ pc[y] \in Working /\ number'[y] = number[y]
          /\ provider'[y] = provider[y] /\ pack'[y] = pack[y]
      BY <1>7, <2>2, StepIsLocal
    <3>2. provider[y] \in Providers /\ pack[y] \in 1 .. PackCount
      BY <3>1 DEF TypeInv, ControlType, Working
    <3>3. Dir(y).owner = number[y] /\ number[y] # 0
      BY <3>1 DEF Working, Inside
    <3> QED BY <3>1, <3>2, <3>3, OwnerKept DEF Dir
  <2> QED BY <2>1, <2>2
<1> QED BY <1>4, <1>5, <1>6, <1>7

LEMMA OwnStutters == OwnInv /\ UNCHANGED vars => OwnInv'
  BY DEF OwnInv, Dir, vars, place, disk, history

LEMMA OwnNextOrStutters == TypeInv /\ OwnInv /\ [Next]_vars => OwnInv'
  BY OwnNext, OwnStutters DEF Next

(* An attempt's directory is only ever changed by the execution that made  *)
(* it, while it runs: no later or parallel execution writes over it.       *)
THEOREM CapabilityAttemptsPreserved == Spec => AttemptsPreserved
<1> DEFINE Preserved ==
       \A p \in Providers, k \in 1 .. PackCount :
          Made(dirs[p][k]) /\ dirs'[p][k] # dirs[p][k] =>
              \E x \in Slots : pc[x] # "idle" /\ number[x] = dirs[p][k].owner
<1>1. TypeInv /\ OwnInv /\ [Next]_vars => [Preserved]_vars
  <2> SUFFICES ASSUME TypeInv, OwnInv, NEW x \in Slots, Step(x),
                      NEW p \in Providers, NEW k \in 1 .. PackCount,
                      Made(dirs[p][k]), dirs'[p][k] # dirs[p][k]
               PROVE  pc[x] # "idle" /\ number[x] = dirs[p][k].owner
    BY DEF Next
  <2>1. p = provider[x] /\ k = pack[x]
    BY OtherDirs
  <2>2. ~Makes(x)
    BY <2>1 DEF Makes, Dir
  <2>3. pc[x] \in Working
    BY <2>2, StepOnDisk DEF Fills
  <2> QED BY <2>1, <2>3 DEF OwnInv, Dir, Working, Inside
<1>2. Spec => [](TypeInv /\ OwnInv)
  BY TypeInit, OwnInit, TypeNext, OwnNextOrStutters, PTL DEF Spec
<1> QED BY <1>1, <1>2, PTL DEF Spec, AttemptsPreserved

-----------------------------------------------------------------------------
(* Completed packs.                                                        *)

(* What the queries before the n-th leave in memory.                       *)
ObservedBefore(p, n) == {i \in AllObserved(p) : i < n}
RowsBefore(p, n) == UNION {{i} \X CellsOf(p, i) : i \in ObservedBefore(p, n)}

(* The rows in memory are those of the queries done, and of the cells of   *)
(* the one being read.                                                     *)
AskProgress(x) ==
    /\ query[x] # 0
    /\ observed[x] = ObservedBefore(provider[x], query[x])
    /\ rows[x] = RowsBefore(provider[x], query[x])

ReadProgress(x) ==
    /\ query[x] \in AllObserved(provider[x])
    /\ cell[x] # 0 /\ 1 .. cell[x] - 1 \subseteq CellsOf(provider[x], query[x])
    /\ observed[x] = ObservedBefore(provider[x], query[x]) \cup {query[x]}
    /\ rows[x] = RowsBefore(provider[x], query[x]) \cup ({query[x]} \X (1 .. cell[x] - 1))

Progress(x) ==
    /\ pc[x] = "idle" => pack[x] = 1
    /\ pc[x] = "ask" => AskProgress(x)
    /\ pc[x] \in {"read", "reader"} => ReadProgress(x)
    /\ pc[x] = "reader" => cell[x] \in CellsOf(provider[x], query[x])
ProgressInv == \A x \in Slots : Progress(x)

(* The directory a process works in holds nothing before all is in memory, *)
(* then all of it.                                                         *)
Filled(p, d) == d.rows = AllRows(p) /\ d.observed = AllObserved(p)

Work(x) ==
    /\ pc[x] \in {"load", "populate", "read", "reader"} => Dir(x).parts = {}
    /\ pc[x] = "ask" =>
          Dir(x).parts = {} \/ (query[x] \notin Positions /\ Filled(provider[x], Dir(x)))
    /\ pc[x] = "seal" => Dir(x).manifest = "completed" /\ Whole(provider[x], Dir(x))

WorkInv ==
    /\ \A p \in Providers, k \in 1 .. PackCount : ~Made(dirs[p][k]) => dirs[p][k] = NoDir
    /\ \A x \in Slots : Work(x)

(* Packs that count, have been passed over or are summarised are whole,    *)
(* and the latter two count unless executions have overlapped.             *)
Settled(p, k) ==
    /\ Whole(p, dirs[p][k])
    /\ overlapped \/ dirs[p][k].manifest = "completed"

SettledInv ==
    /\ \A p \in Providers, k \in 1 .. PackCount :
          /\ dirs[p][k].manifest = "completed" => Whole(p, dirs[p][k])
          /\ p \in summary => Settled(p, k)
    /\ \A x \in Slots, k \in 1 .. PackCount :
          pc[x] # "idle" /\ k < pack[x] => Settled(provider[x], k)
    /\ \A x \in Slots : pc[x] \in Inside /\ provider[x] \in summary => overlapped


LEMMA CellsFromOne ==
    ASSUME NEW p, NEW i
    PROVE  \E n \in Nat : CellsOf(p, i) = 1 .. n
<1> DEFINE All == {"M0P0", "M1P0", "M0P1", "M1P1"} \cup {"C0-native", "C1-assisted"}
                  \cup {"D0-native", "D1-assisted"}
<1>1. IsFiniteSet(All)
  <2>1. IsFiniteSet({"M0P0"} \cup {"M1P0"} \cup {"M0P1"} \cup {"M1P1"} \cup {"C0-native"}
                    \cup {"C1-assisted"} \cup {"D0-native"} \cup {"D1-assisted"})
    BY FS_Singleton, FS_Union
  <2>2. All = {"M0P0"} \cup {"M1P0"} \cup {"M0P1"} \cup {"M1P1"} \cup {"C0-native"}
              \cup {"C1-assisted"} \cup {"D0-native"} \cup {"D1-assisted"}
    OBVIOUS
  <2> QED BY <2>1, <2>2
<1>2. Conditions(p, Properties[i]) \subseteq All
  BY DEF Conditions
<1>3. Cardinality(Conditions(p, Properties[i])) \in Nat
  BY <1>1, <1>2, FS_Subset, FS_CardinalityType
<1> HIDE DEF All
<1>4. Cardinality(Conditions(p, Properties[i])) * Replicates \in Nat
  BY <1>3, CapabilityAssumption
<1> QED BY <1>4 DEF CellsOf

LEMMA PositionsAreNat == Len(Properties) \in Nat /\ Positions = 1 .. Len(Properties)
  BY CapabilityAssumption DEF Positions

(* The first query finds nothing, the next one what the last one left.     *)
LEMMA BeforeFirst ==
    ASSUME NEW p
    PROVE  ObservedBefore(p, 1) = {} /\ RowsBefore(p, 1) = {}
<1>1. ObservedBefore(p, 1) = {}
  BY PositionsAreNat DEF ObservedBefore, AllObserved
<1> QED BY <1>1 DEF RowsBefore

LEMMA BeforeSkipped ==
    ASSUME NEW p, NEW n \in Nat, n \notin AllObserved(p)
    PROVE  ObservedBefore(p, n + 1) = ObservedBefore(p, n) /\ RowsBefore(p, n + 1) = RowsBefore(p, n)
<1>1. ObservedBefore(p, n + 1) = ObservedBefore(p, n)
  BY PositionsAreNat DEF ObservedBefore, AllObserved
<1> QED BY <1>1 DEF RowsBefore

LEMMA BeforeNext ==
    ASSUME NEW p, NEW n \in Nat, n \in AllObserved(p)
    PROVE  /\ ObservedBefore(p, n + 1) = ObservedBefore(p, n) \cup {n}
           /\ RowsBefore(p, n + 1) = RowsBefore(p, n) \cup ({n} \X CellsOf(p, n))
<1>1. ObservedBefore(p, n + 1) = ObservedBefore(p, n) \cup {n}
  BY PositionsAreNat DEF ObservedBefore, AllObserved
<1> DEFINE Of(i) == {i} \X CellsOf(p, i)  S == ObservedBefore(p, n)
<1>2. RowsBefore(p, n + 1) = UNION {Of(i) : i \in S \cup {n}} /\ RowsBefore(p, n) = UNION {Of(i) : i \in S}
  BY <1>1 DEF RowsBefore
<1>3. Of(n) = {n} \X CellsOf(p, n)
  OBVIOUS
<1> HIDE DEF Of, S
<1>4. UNION {Of(i) : i \in S \cup {n}} = (UNION {Of(i) : i \in S}) \cup Of(n)
  OBVIOUS
<1> QED BY <1>1, <1>2, <1>3, <1>4

(* Past the last query everything is there.                                *)
LEMMA BeforeEnd ==
    ASSUME NEW p, NEW n \in Nat, n # 0, n \notin Positions
    PROVE  ObservedBefore(p, n) = AllObserved(p) /\ RowsBefore(p, n) = AllRows(p)
<1>1. ObservedBefore(p, n) = AllObserved(p)
  BY PositionsAreNat DEF ObservedBefore, AllObserved
<1> QED BY <1>1 DEF RowsBefore, AllRows

-----------------------------------------------------------------------------
LEMMA ProgressInit == Init => ProgressInv
  BY DEF Init, ProgressInv, Progress

(* One cell more, refused or answered.                                     *)
LEMMA CellProgress ==
    ASSUME TypeInv, NEW x \in Slots, ReadProgress(x), cell[x] \in CellsOf(provider[x], query[x]),
           Answered(x), UNCHANGED <<provider, query, observed>>
    PROVE  ReadProgress(x)'
<1> DEFINE p == provider[x]  q == query[x]  c == cell[x]
<1>1. c \in Nat /\ cell'[x] = c + 1 /\ rows'[x] = rows[x] \cup {<<q, c>>}
      /\ provider'[x] = p /\ query'[x] = q /\ observed'[x] = observed[x]
  BY DEF Answered, TypeInv, ControlType
<1>2. 1 .. (c + 1) - 1 = (1 .. c - 1) \cup {c}
  BY <1>1 DEF ReadProgress
<1>3. 1 .. (c + 1) - 1 \subseteq CellsOf(p, q)
  BY <1>2 DEF ReadProgress
<1>4. {q} \X (1 .. (c + 1) - 1) = ({q} \X (1 .. c - 1)) \cup {<<q, c>>}
  BY <1>2
<1>5. rows'[x] = RowsBefore(p, q) \cup ({q} \X (1 .. (c + 1) - 1))
  BY <1>1, <1>4 DEF ReadProgress
<1>6. c + 1 # 0
  BY <1>1
<1> HIDE DEF p, q, c
<1>7. /\ q \in AllObserved(p) /\ observed[x] = ObservedBefore(p, q) \cup {q}
  BY DEF ReadProgress, p, q
<1>8. /\ query'[x] \in AllObserved(provider'[x])
      /\ cell'[x] # 0 /\ 1 .. cell'[x] - 1 \subseteq CellsOf(provider'[x], query'[x])
      /\ observed'[x] = ObservedBefore(provider'[x], query'[x]) \cup {query'[x]}
      /\ rows'[x] = RowsBefore(provider'[x], query'[x]) \cup ({query'[x]} \X (1 .. cell'[x] - 1))
  BY <1>1, <1>3, <1>5, <1>6, <1>7
<1> QED BY <1>8 DEF ReadProgress

LEMMA ProgressOwn ==
    ASSUME TypeInv, ProgressInv, NEW x \in Slots, Step(x)
    PROVE  Progress(x)'
<1> DEFINE p == provider[x]  q == query[x]
<1>1. Progress(x)
  BY DEF ProgressInv
<1>2. q \in Nat /\ p \in Providers /\ pack[x] \in Nat /\ cell[x] \in Nat
  BY DEF TypeInv, ControlType
<1> USE DEF TypeInv, ControlType
<1>3. CASE Ends(x)
  <2>1. pc'[x] = "idle" /\ pack'[x] = 1
    BY <1>3 DEF Ends, Goes
  <2> QED BY <2>1 DEF Progress
<1>4. CASE pc'[x] \in {"look", "make", "load", "populate", "seal"}
  BY <1>4 DEF Progress
<1>5. CASE Populate(x)
  <2>1. /\ pc'[x] = "ask" /\ query'[x] = 1 /\ rows'[x] = {} /\ observed'[x] = {}
    BY <1>5 DEF Populate, Goes
  <2> QED BY <2>1, BeforeFirst DEF Progress, AskProgress
<1>6. CASE Ask(x) /\ Skipped(p, q)
  <2>1. /\ pc'[x] = "ask" /\ query'[x] = q + 1 /\ rows'[x] = rows[x] /\ observed'[x] = observed[x]
        /\ provider'[x] = p /\ pc[x] = "ask"
    BY <1>6 DEF Ask
  <2>2. q \notin AllObserved(p)
    BY <1>6 DEF AllObserved
  <2>3. AskProgress(x)
    BY <1>1, <2>1 DEF Progress
  <2>4. AskProgress(x)'
    BY <1>2, <2>1, <2>2, <2>3, BeforeSkipped DEF AskProgress
  <2> QED BY <2>1, <2>4 DEF Progress
<1>7. CASE Ask(x) /\ ~Skipped(p, q)
  <2>1. /\ pc'[x] = "read" /\ query'[x] = q /\ rows'[x] = rows[x]
        /\ observed'[x] = observed[x] \cup {q} /\ cell'[x] = 1
        /\ provider'[x] = p /\ pc[x] = "ask"
    BY <1>7 DEF Ask, Goes
  <2>2. q \in AllObserved(p)
    BY <1>7 DEF AllObserved, Ask
  <2>3. AskProgress(x)
    BY <1>1, <2>1 DEF Progress
  <2>4. 1 .. 1 - 1 = {}
    OBVIOUS
  <2>5. ReadProgress(x)'
    BY <2>1, <2>2, <2>3, <2>4 DEF ReadProgress, AskProgress
  <2> QED BY <2>1, <2>5 DEF Progress
<1>8. CASE Refuse(x) \/ Answer(x)
  <2>1. /\ pc[x] \in {"read", "reader"} /\ pc'[x] = "read" /\ Answered(x)
        /\ UNCHANGED <<provider, query, observed>>
        /\ pc[x] = "read" => cell[x] \in CellsOf(p, q)
    BY <1>8 DEF Refuse, Answer, Goes
  <2>2. ReadProgress(x) /\ cell[x] \in CellsOf(p, q)
    BY <1>1, <2>1 DEF Progress
  <2>3. ReadProgress(x)'
    BY <2>1, <2>2, CellProgress
  <2> QED BY <2>1, <2>3 DEF Progress
<1>9. ASSUME NEW cost \in 0 .. MaxCost, Post(x, cost) PROVE Progress(x)'
  <2>1. /\ pc[x] = "read" /\ pc'[x] = "reader" /\ cell[x] \in CellsOf(p, q)
        /\ UNCHANGED <<provider, query, cell, rows, observed>>
    BY <1>9 DEF Post, Goes, memory
  <2>2. ReadProgress(x)
    BY <1>1, <2>1 DEF Progress
  <2>3. ReadProgress(x)' /\ cell'[x] \in CellsOf(provider'[x], query'[x])
    BY <2>1, <2>2 DEF ReadProgress
  <2> QED BY <2>1, <2>3 DEF Progress
<1>10. CASE NextQuery(x)
  <2>1. /\ pc[x] = "read" /\ pc'[x] = "ask" /\ cell[x] \notin CellsOf(p, q)
        /\ query'[x] = q + 1 /\ rows'[x] = rows[x] /\ observed'[x] = observed[x]
        /\ provider'[x] = p
    BY <1>10 DEF NextQuery, Goes, memory
  <2>2. ReadProgress(x)
    BY <1>1, <2>1 DEF Progress
  <2>3. 1 .. cell[x] - 1 = CellsOf(p, q)
    <3>1. PICK n \in Nat : CellsOf(p, q) = 1 .. n
      BY CellsFromOne
    <3>2. 1 .. cell[x] - 1 \subseteq 1 .. n /\ cell[x] # 0 /\ cell[x] \notin 1 .. n
      BY <2>1, <2>2, <3>1 DEF ReadProgress
    <3>3. cell[x] = n + 1
      BY <1>2, <3>2
    <3> QED BY <3>1, <3>3
  <2>4. q \in AllObserved(p) /\ q + 1 # 0
    BY <1>2, <2>2 DEF ReadProgress
  <2>5. /\ observed[x] = ObservedBefore(p, q) \cup {q}
        /\ rows[x] = RowsBefore(p, q) \cup ({q} \X CellsOf(p, q))
    BY <2>2, <2>3 DEF ReadProgress
  <2>6. observed[x] = ObservedBefore(p, q + 1) /\ rows[x] = RowsBefore(p, q + 1)
    BY <1>2, <2>4, <2>5, BeforeNext
  <2>7. AskProgress(x)'
    BY <2>1, <2>4, <2>6 DEF AskProgress
  <2> QED BY <2>1, <2>7 DEF Progress
<1>11. ASSUME NEW part \in Parts, Write(x, part) PROVE Progress(x)'
  BY <1>1, <1>11 DEF Write, place, memory, Progress, AskProgress, ReadProgress
<1>12. ((Look(x) \/ MakeDir(x)) /\ ~Ends(x)) \/ Load(x) \/ Complete(x) \/ Seal(x)
         \/ (\E s \in Providers : Start(x, s))
       => pc'[x] \in {"look", "make", "load", "populate", "seal"}
  BY DEF Look, MakeDir, Load, Complete, Seal, Start, Goes
<1>13. (LoadRaises(x) \/ Fail(x) \/ Summarise(x) \/ Kill(x)) => Ends(x)
  BY DEF LoadRaises, Fail, Summarise, Kill
<1> QED BY <1>3, <1>4, <1>5, <1>6, <1>7, <1>8, <1>9, <1>10, <1>11, <1>12, <1>13 DEF Step

LEMMA ProgressNext ==
    ASSUME TypeInv, ProgressInv, NEW x \in Slots, Step(x)
    PROVE  ProgressInv'
<1>1. ASSUME NEW y \in Slots, y # x PROVE Progress(y)'
  <2>1. Progress(y)
    BY DEF ProgressInv
  <2> QED BY <1>1, <2>1, StepIsLocal DEF Progress, AskProgress, ReadProgress
<1> QED BY <1>1, ProgressOwn DEF ProgressInv

-----------------------------------------------------------------------------
LEMMA WorkInit == Init => WorkInv
  BY DEF Init, WorkInv, Work, Made

(* A directory somebody works in is safe from the others.                  *)
LEMMA WorkKept ==
    ASSUME TypeInv, OwnInv, NEW x \in Slots, Step(x), NEW y \in Slots, y # x, pc[y] \in Working
    PROVE  Dir(y)' = Dir(y)
<1>1. provider'[y] = provider[y] /\ pack'[y] = pack[y]
  BY StepIsLocal
<1>2. provider[y] \in Providers /\ pack[y] \in 1 .. PackCount
  BY DEF TypeInv, ControlType, Working
<1>3. CASE provider[y] # provider[x] \/ pack[y] # pack[x]
  BY <1>1, <1>2, <1>3, OtherDirs DEF Dir
<1>4. CASE provider[y] = provider[x] /\ pack[y] = pack[x]
  <2>1. Dir(x) = Dir(y) /\ Dir(y).owner = number[y] /\ number[y] # 0
    BY <1>4 DEF Dir, OwnInv, Working, Inside
  <2>2. ~Makes(x)
    BY <2>1 DEF Makes, Made
  <2>3. ~Fills(x)
    BY <2>1 DEF Fills, OwnInv, Working, Inside
  <2> QED BY <1>1, <2>2, <2>3, StepOnDisk DEF Dir
<1> QED BY <1>3, <1>4

(* What a step of x makes of the directory it is at.                       *)
LEMMA BecomesDir ==
    ASSUME TypeInv, NEW x \in Slots, pc[x] \in Inside, NEW d, Becomes(x, d),
           UNCHANGED <<provider, pack>>
    PROVE  Dir(x)' = d
<1>1. provider[x] \in Providers /\ pack[x] \in 1 .. PackCount
  BY DEF TypeInv, ControlType
<1> QED BY <1>1 DEF Becomes, Dir, TypeInv, DiskType

LEMMA DirTyped ==
    ASSUME TypeInv, NEW x \in Slots, pc[x] \in Inside
    PROVE  Dir(x) \in DirType
<1>1. provider[x] \in Providers /\ pack[x] \in 1 .. PackCount
  BY DEF TypeInv, ControlType
<1> QED BY <1>1 DEF Dir, TypeInv, DiskType

(* A directory that is not made is the empty one.                          *)
LEMMA UnmadeNext ==
    ASSUME TypeInv, OwnInv, WorkInv, NEW x \in Slots, Step(x),
           NEW p \in Providers, NEW k \in 1 .. PackCount, ~Made(dirs'[p][k])
    PROVE  dirs'[p][k] = NoDir
<1>1. CASE p # provider[x] \/ k # pack[x]
  BY <1>1, OtherDirs DEF WorkInv
<1>2. CASE p = provider[x] /\ k = pack[x]
  <2>1. ~Makes(x)
    <3> SUFFICES ASSUME Makes(x) PROVE FALSE
      OBVIOUS
    <3>1. dirs'[p][k].owner = number[x]
      <4>1. dirs'[p][k] = [Dir(x) EXCEPT !.owner = number[x]]
        BY <1>2 DEF Makes, Becomes, TypeInv, DiskType
      <4>2. Dir(x) \in DirType
        BY DirTyped DEF Makes, Inside
      <4> QED BY <4>1, <4>2 DEF DirType
    <3> QED BY <3>1 DEF Made, Makes, OwnInv
  <2>2. CASE Fills(x)
    <3>1. dirs[p][k].owner = number[x] /\ number[x] # 0
      BY <1>2, <2>2 DEF Fills, OwnInv, Dir, Working, Inside
    <3> QED BY <2>1, <3>1, OwnerKept DEF Made
  <2>3. CASE UNCHANGED dirs
    BY <2>3 DEF WorkInv
  <2> QED BY <2>1, <2>2, <2>3, StepOnDisk
<1> QED BY <1>1, <1>2

LEMMA WorkOwn ==
    ASSUME TypeInv, ProgressInv, WorkInv, NEW x \in Slots, Step(x)
    PROVE  Work(x)'
<1>1. Work(x) /\ Progress(x)
  BY DEF WorkInv, ProgressInv
<1>2. query[x] \in Nat
  BY DEF TypeInv, ControlType
<1> USE DEF TypeInv, ControlType
<1>3. CASE pc'[x] \in {"idle", "look", "make"}
  BY <1>3 DEF Work
<1>4. CASE MakeDir(x) /\ ~Ends(x)
  <2>1. /\ pc[x] = "make" /\ pc'[x] = "load" /\ ~Made(Dir(x))
        /\ Becomes(x, [Dir(x) EXCEPT !.owner = number[x]]) /\ UNCHANGED <<provider, pack>>
    BY <1>4 DEF MakeDir, Goes
  <2>2. Dir(x)' = [Dir(x) EXCEPT !.owner = number[x]]
    BY <2>1, BecomesDir DEF Inside
  <2>3. Dir(x) = NoDir
    BY <2>1 DEF WorkInv, Dir, Inside
  <2>4. Dir(x)'.parts = {}
    BY <2>2, <2>3 DEF NoDir
  <2> QED BY <2>1, <2>4 DEF Work
<1>5. CASE Load(x)
  <2>1. /\ pc[x] = "load" /\ pc'[x] = "populate"
        /\ Becomes(x, [Dir(x) EXCEPT !.manifest = "running"]) /\ UNCHANGED <<provider, pack>>
    BY <1>5 DEF Load, Goes
  <2>2. Dir(x)' = [Dir(x) EXCEPT !.manifest = "running"] /\ Dir(x) \in DirType
    BY <2>1, BecomesDir, DirTyped DEF Inside
  <2>3. Dir(x)'.parts = {}
    BY <1>1, <2>1, <2>2 DEF Work, DirType
  <2> QED BY <2>1, <2>3 DEF Work
<1>6. ASSUME UNCHANGED <<dirs, provider, pack>>, Dir(x).parts = {},
             pc'[x] \in {"populate", "ask", "read", "reader"}
      PROVE  Work(x)'
  <2>1. Dir(x)' = Dir(x)
    BY <1>6 DEF Dir
  <2> QED BY <1>6, <2>1 DEF Work
<1>7. CASE Populate(x) \/ Refuse(x) \/ Answer(x) \/ NextQuery(x)
  <2>1. /\ pc[x] \in {"populate", "read", "reader"} /\ UNCHANGED <<dirs, provider, pack>>
        /\ pc'[x] \in {"ask", "read"}
    BY <1>7 DEF Populate, Refuse, Answer, NextQuery, Goes, disk
  <2> QED BY <1>1, <1>6, <2>1 DEF Work
<1>8. ASSUME NEW cost \in 0 .. MaxCost, Post(x, cost) PROVE Work(x)'
  <2>1. /\ pc[x] = "read" /\ UNCHANGED <<dirs, provider, pack>> /\ pc'[x] = "reader"
    BY <1>8 DEF Post, Goes, disk
  <2> QED BY <1>1, <1>6, <2>1 DEF Work
<1>9. CASE Ask(x)
  <2>1. /\ pc[x] = "ask" /\ UNCHANGED <<dirs, provider, pack>> /\ pc'[x] \in {"ask", "read"}
        /\ query[x] \in Positions
    BY <1>9 DEF Ask, Goes, disk
  <2> QED BY <1>1, <1>6, <2>1 DEF Work
<1>10. ASSUME NEW part \in Parts, Write(x, part) PROVE Work(x)'
  <2>1. /\ pc[x] = "ask" /\ pc'[x] = "ask" /\ query[x] \notin Positions
        /\ UNCHANGED <<provider, pack>> /\ query'[x] = query[x] /\ provider'[x] = provider[x]
        /\ Becomes(x, [Dir(x) EXCEPT !.parts = @ \cup {part}, !.rows = rows[x],
                                     !.observed = observed[x]])
    BY <1>10 DEF Write, place
  <2>2. /\ Dir(x)' = [Dir(x) EXCEPT !.parts = @ \cup {part}, !.rows = rows[x],
                                    !.observed = observed[x]]
        /\ Dir(x) \in DirType
    BY <2>1, BecomesDir, DirTyped DEF Inside
  <2>3. AskProgress(x)
    BY <1>1, <2>1 DEF Progress
  <2>4. rows[x] = AllRows(provider[x]) /\ observed[x] = AllObserved(provider[x])
    BY <1>2, <2>1, <2>3, BeforeEnd DEF AskProgress
  <2>5. Filled(provider[x], Dir(x)')
    BY <2>2, <2>4 DEF Filled, DirType
  <2> QED BY <2>1, <2>5 DEF Work, Filled
<1>11. CASE Complete(x)
  <2>1. /\ pc[x] = "ask" /\ pc'[x] = "seal" /\ query[x] \notin Positions
        /\ Dir(x).parts = Parts
        /\ UNCHANGED <<provider, pack>>
        /\ Becomes(x, [Dir(x) EXCEPT !.manifest = "completed"])
    BY <1>11 DEF Complete, Goes
  <2>2. /\ Dir(x)' = [Dir(x) EXCEPT !.manifest = "completed"]
        /\ Dir(x) \in DirType
    BY <2>1, BecomesDir, DirTyped DEF Inside
  <2>3. Filled(provider[x], Dir(x))
    BY <1>1, <2>1 DEF Work, Parts
  <2>4. Dir(x)'.manifest = "completed" /\ Whole(provider[x], Dir(x)')
    BY <2>1, <2>2, <2>3 DEF Whole, Filled, DirType
  <2> QED BY <2>1, <2>4 DEF Work, Whole
<1>12. Ends(x) \/ (Look(x) /\ ~Ends(x)) \/ Seal(x) \/ (\E p \in Providers : Start(x, p))
         => pc'[x] \in {"idle", "look", "make"}
  BY DEF Ends, Look, Seal, Start, Goes
<1>13. (LoadRaises(x) \/ Fail(x) \/ Summarise(x) \/ Kill(x)) => Ends(x)
  BY DEF LoadRaises, Fail, Summarise, Kill
<1> QED BY <1>3, <1>4, <1>5, <1>7, <1>8, <1>9, <1>10, <1>11, <1>12, <1>13 DEF Step

LEMMA WorkNext ==
    ASSUME TypeInv, OwnInv, ProgressInv, WorkInv, NEW x \in Slots, Step(x)
    PROVE  WorkInv'
<1>1. ASSUME NEW y \in Slots, y # x PROVE Work(y)'
  <2>1. Work(y)
    BY DEF WorkInv
  <2>2. pc'[y] = pc[y] /\ query'[y] = query[y] /\ provider'[y] = provider[y]
    BY <1>1, StepIsLocal
  <2>3. CASE pc[y] \in Working
    <3>1. Dir(y)' = Dir(y)
      BY <1>1, <2>3, WorkKept
    <3> QED BY <2>1, <2>2, <3>1 DEF Work, Filled, Whole
  <2>4. CASE pc[y] \notin Working
    BY <2>2, <2>4 DEF Work, Working, Inside
  <2> QED BY <2>3, <2>4
<1> QED BY <1>1, WorkOwn, UnmadeNext DEF WorkInv

-----------------------------------------------------------------------------
LEMMA SettledInit == Init => SettledInv
<1> SUFFICES ASSUME Init PROVE SettledInv
  OBVIOUS
<1>1. \A p \in Providers, k \in 1 .. PackCount : dirs[p][k].manifest = "none"
  BY DEF Init, NoDir
<1>2. summary = {} /\ \A x \in Slots : pc[x] = "idle"
  BY DEF Init
<1> QED BY <1>1, <1>2 DEF SettledInv, Inside

(* What is whole stays whole.                                              *)
LEMMA WholeStable ==
    ASSUME TypeInv, ProgressInv, NEW x \in Slots, Step(x),
           NEW p \in Providers, NEW k \in 1 .. PackCount, Whole(p, dirs[p][k])
    PROVE  Whole(p, dirs'[p][k])
<1> DEFINE d == dirs[p][k]
<1>1. d \in DirType
  BY DEF TypeInv, DiskType
<1>2. CASE p # provider[x] \/ k # pack[x]
  BY <1>2, OtherDirs
<1>3. CASE p = provider[x] /\ k = pack[x]
  <2>1. Dir(x) = d /\ \A e : Becomes(x, e) => dirs'[p][k] = e
    BY <1>3 DEF Dir, Becomes, TypeInv, DiskType
  <2>2. CASE MakeDir(x) \/ Load(x) \/ Complete(x) \/ Fail(x) \/ Seal(x)
    <3>1. \/ UNCHANGED dirs
          \/ Becomes(x, [d EXCEPT !.owner = number[x]])
          \/ \E m : Becomes(x, [d EXCEPT !.manifest = m])
          \/ Becomes(x, [d EXCEPT !.sealed = TRUE])
      BY <2>1, <2>2 DEF MakeDir, Load, Complete, Fail, Seal
    <3> QED BY <1>1, <2>1, <3>1 DEF Whole, DirType
  <2>3. ASSUME NEW part \in Parts, Write(x, part) PROVE Whole(p, dirs'[p][k])
    <3>1. AskProgress(x) /\ query[x] \in Nat /\ query[x] \notin Positions
      BY <2>3 DEF Write, ProgressInv, Progress, TypeInv, ControlType
    <3>2. rows[x] = AllRows(p) /\ observed[x] = AllObserved(p)
      BY <1>3, <3>1, BeforeEnd DEF AskProgress
    <3>3. dirs'[p][k] = [d EXCEPT !.parts = @ \cup {part}, !.rows = rows[x],
                                  !.observed = observed[x]]
      BY <2>1, <2>3 DEF Write
    <3> QED BY <1>1, <3>2, <3>3 DEF Whole, DirType
  <2>4. \/ MakeDir(x) \/ Load(x) \/ Complete(x) \/ Fail(x) \/ Seal(x)
        \/ \E part \in Parts : Write(x, part)
        \/ UNCHANGED dirs
    BY DEF Step, Start, Look, LoadRaises, Populate, Ask, Refuse, Post, Answer, NextQuery, Kill,
           Summarise, disk
  <2> QED BY <2>2, <2>3, <2>4
<1> QED BY <1>2, <1>3

(* Only a process inside a pack changes the manifest of its directory, and *)
(* only to "completed" when it goes to seal it.                            *)
LEMMA ManifestStep ==
    ASSUME TypeInv, NEW x \in Slots, Step(x),
           NEW p \in Providers, NEW k \in 1 .. PackCount,
           dirs'[p][k].manifest # dirs[p][k].manifest
    PROVE  /\ p = provider[x] /\ k = pack[x] /\ pc[x] \in Inside
           /\ dirs'[p][k].manifest = "completed" =>
                 pc'[x] = "seal" /\ UNCHANGED <<provider, pack>>
<1> DEFINE d == dirs[p][k]
<1>1. d \in DirType
  BY DEF TypeInv, DiskType
<1>2. p = provider[x] /\ k = pack[x]
  BY OtherDirs
<1>3. Dir(x) = d /\ \A e : Becomes(x, e) => dirs'[p][k] = e
  BY <1>2 DEF Dir, Becomes, TypeInv, DiskType
<1>4. ~(MakeDir(x) \/ Seal(x) \/ UNCHANGED dirs)
  <2>1. (MakeDir(x) \/ Seal(x)) =>
          \/ UNCHANGED dirs
          \/ Becomes(x, [d EXCEPT !.owner = number[x]])
          \/ Becomes(x, [d EXCEPT !.sealed = TRUE])
    BY <1>3 DEF MakeDir, Seal
  <2> QED BY <1>1, <1>3, <2>1 DEF DirType
<1>5. ~\E part \in Parts : Write(x, part)
  <2> SUFFICES ASSUME NEW part \in Parts, Write(x, part) PROVE FALSE
    OBVIOUS
  <2>1. dirs'[p][k] = [d EXCEPT !.parts = @ \cup {part}, !.rows = rows[x], !.observed = observed[x]]
    BY <1>3 DEF Write
  <2>2. dirs'[p][k].manifest = d.manifest
    BY <1>1, <2>1 DEF DirType
  <2> QED BY <2>2
<1>6. CASE Load(x) \/ Fail(x)
  <2>1. pc[x] \in Inside
    BY <1>6 DEF Load, Fail, Inside
  <2>2. dirs'[p][k].manifest \in {"running", "failed"}
    BY <1>1, <1>3, <1>6 DEF Load, Fail, DirType
  <2> QED BY <1>2, <2>1, <2>2
<1>7. CASE Complete(x)
  BY <1>2, <1>7 DEF Complete, Goes, Inside, TypeInv, ControlType
<1>8. \/ MakeDir(x) \/ Load(x) \/ Complete(x) \/ Fail(x) \/ Seal(x)
      \/ \E part \in Parts : Write(x, part)
      \/ UNCHANGED dirs
  BY DEF Step, Start, Look, LoadRaises, Populate, Ask, Refuse, Post, Answer, NextQuery, Kill,
         Summarise, disk
<1> QED BY <1>4, <1>5, <1>6, <1>7, <1>8

(* Executions that have overlapped have.                                   *)
LEMMA OverlappedStays ==
    ASSUME TypeInv, NEW x \in Slots, Step(x), overlapped
    PROVE  overlapped'
<1>1. Ends(x) => overlapped' = overlapped
  BY DEF Ends, history
<1>2. (\E p \in Providers : Start(x, p)) => overlapped'
  BY Zenon DEF Start, Alone
<1>3. UNCHANGED history => overlapped' = overlapped
  BY DEF history
<1> QED BY <1>1, <1>2, <1>3, StepLife

(* An execution that runs while another makes a step overlaps with it.     *)
LEMMA OthersOverlap ==
    ASSUME TypeInv, OwnInv, NEW x \in Slots, Step(x), NEW y \in Slots, y # x, pc[y] # "idle"
    PROVE  overlapped'
<1>1. CASE pc[x] # "idle"
  BY <1>1, OverlappedStays DEF OwnInv
<1>2. CASE pc[x] = "idle"
  <2>1. \E p \in Providers : Start(x, p)
    BY <1>2 DEF Step, Look, MakeDir, Load, LoadRaises, Populate, Ask, Refuse, Post, Answer,
                NextQuery, Write, Complete, Seal, Fail, Summarise, Kill
  <2> QED BY <2>1, Zenon DEF Start, Alone
<1> QED BY <1>1, <1>2

(* How a process gets into a pack, and past one.                           *)
LEMMA StepInside ==
    ASSUME TypeInv, NEW x \in Slots, Step(x), pc'[x] \in Inside
    PROVE  /\ provider'[x] = provider[x] /\ summary' = summary
           /\ \/ pc[x] \in Inside
              \/ pc[x] = "look" /\ pack[x] <= PackCount /\ Dir(x).manifest = "none"
<1> USE DEF TypeInv, ControlType, Goes, Inside
<1>1. ~Ends(x)
  BY DEF Ends
<1>2. CASE Look(x)
  BY <1>1, <1>2 DEF Look, disk
<1>3. CASE MakeDir(x) \/ Load(x) \/ Populate(x) \/ Complete(x) \/ Seal(x)
  BY <1>1, <1>3 DEF MakeDir, Load, Populate, Complete, Seal, disk
<1>4. CASE Ask(x) \/ Refuse(x) \/ Answer(x) \/ NextQuery(x)
  BY <1>4 DEF Ask, Refuse, Answer, NextQuery, disk
<1>5. CASE \E cost \in 0 .. MaxCost : Post(x, cost)
  BY <1>5 DEF Post, disk
<1>6. CASE \E part \in Parts : Write(x, part)
  BY <1>6 DEF Write, place
<1>7. CASE \E p \in Providers : Start(x, p)
  BY <1>7 DEF Start
<1>8. ~(LoadRaises(x) \/ Fail(x) \/ Summarise(x) \/ Kill(x))
  BY <1>1 DEF LoadRaises, Fail, Summarise, Kill
<1> QED BY <1>2, <1>3, <1>4, <1>5, <1>6, <1>7, <1>8 DEF Step

LEMMA StepPast ==
    ASSUME TypeInv, NEW x \in Slots, Step(x), pc'[x] # "idle", pc[x] # "idle"
    PROVE  /\ provider'[x] = provider[x] /\ UNCHANGED history
           /\ \/ pack'[x] = pack[x]
              \/ /\ pack'[x] = pack[x] + 1 /\ pack[x] <= PackCount
                 /\ \/ Dir(x).manifest = "completed" /\ UNCHANGED dirs
                    \/ Seal(x)
<1> USE DEF TypeInv, ControlType, Goes
<1>1. ~Ends(x)
  BY DEF Ends
<1>2. provider'[x] = provider[x] /\ UNCHANGED history
  BY <1>1, StepLife DEF Start
<1>3. CASE Look(x)
  BY <1>1, <1>2, <1>3 DEF Look, disk
<1>4. CASE Seal(x)
  BY <1>2, <1>4 DEF Seal, Inside
<1>5. CASE MakeDir(x) \/ Load(x) \/ Populate(x) \/ Complete(x)
  BY <1>1, <1>2, <1>5 DEF MakeDir, Load, Populate, Complete
<1>6. CASE Ask(x) \/ Refuse(x) \/ Answer(x) \/ NextQuery(x)
  BY <1>2, <1>6 DEF Ask, Refuse, Answer, NextQuery
<1>7. CASE \E cost \in 0 .. MaxCost : Post(x, cost)
  BY <1>2, <1>7 DEF Post
<1>8. CASE \E part \in Parts : Write(x, part)
  BY <1>2, <1>8 DEF Write, place
<1>9. ~\E p \in Providers : Start(x, p)
  BY DEF Start
<1>10. ~(LoadRaises(x) \/ Fail(x) \/ Summarise(x) \/ Kill(x))
  BY <1>1 DEF LoadRaises, Fail, Summarise, Kill
<1> QED BY <1>3, <1>4, <1>5, <1>6, <1>7, <1>8, <1>9, <1>10 DEF Step

(* What is settled stays so.                                               *)
LEMMA SettledStays ==
    ASSUME TypeInv, OwnInv, ProgressInv, SettledInv, NEW x \in Slots, Step(x),
           NEW p \in Providers, NEW k \in 1 .. PackCount, Settled(p, k),
           \/ overlapped'
           \/ dirs'[p][k].manifest = dirs[p][k].manifest
    PROVE  Settled(p, k)'
<1>1. Whole(p, dirs'[p][k])
  BY WholeStable DEF Settled
<1>2. overlapped' \/ dirs'[p][k].manifest = "completed"
  BY OverlappedStays DEF Settled
<1> QED BY <1>1, <1>2 DEF Settled, Whole

LEMMA SettledNext ==
    ASSUME TypeInv, OwnInv, ProgressInv, WorkInv, SettledInv, NEW x \in Slots, Step(x)
    PROVE  SettledInv'
<1>0. /\ PackCount \in Nat /\ pack[x] \in 1 .. PackCount + 1 /\ provider[x] \in Providers
  BY CapabilityAssumption DEF TypeInv, ControlType
<1>1. ASSUME NEW p \in Providers, NEW k \in 1 .. PackCount, dirs'[p][k].manifest = "completed"
      PROVE  Whole(p, dirs'[p][k])
  <2>1. CASE dirs[p][k].manifest = "completed"
    BY <2>1, WholeStable DEF SettledInv
  <2>2. CASE dirs[p][k].manifest # "completed"
    <3>1. p = provider[x] /\ k = pack[x] /\ pc'[x] = "seal" /\ UNCHANGED <<provider, pack>>
      BY <1>1, <2>2, ManifestStep
    <3>2. Work(x)'
      BY WorkOwn
    <3> QED BY <3>1, <3>2 DEF Work, Dir, Whole
  <2> QED BY <2>1, <2>2
<1>2. ASSUME NEW p \in Providers, NEW k \in 1 .. PackCount, p \in summary'
      PROVE  Settled(p, k)'
  <2>1. CASE p \in summary
    <3>1. Settled(p, k)
      BY <2>1 DEF SettledInv
    <3>2. CASE dirs'[p][k].manifest = dirs[p][k].manifest
      BY <3>1, <3>2, SettledStays
    <3>3. CASE dirs'[p][k].manifest # dirs[p][k].manifest
      <4>1. p = provider[x] /\ pc[x] \in Inside
        BY <3>3, ManifestStep
      <4>2. overlapped'
        BY <2>1, <4>1, OverlappedStays DEF SettledInv
      <4> QED BY <3>1, <4>2, SettledStays
    <3> QED BY <3>2, <3>3
  <2>2. CASE p \notin summary
    <3>1. Summarise(x)
      BY <1>2, <2>2 DEF Step, Start, Look, MakeDir, Load, LoadRaises, Populate, Ask, Refuse,
                        Post, Answer, NextQuery, Write, Complete, Seal, Fail, Kill, disk
    <3>2. p = provider[x] /\ pc[x] = "look" /\ pack[x] > PackCount /\ dirs' = dirs
      BY <1>2, <2>2, <3>1 DEF Summarise
    <3>3. Settled(p, k)
      BY <1>0, <3>2 DEF SettledInv
    <3> QED BY <3>2, <3>3, SettledStays
  <2> QED BY <2>1, <2>2
<1>3. ASSUME NEW y \in Slots, NEW k \in 1 .. PackCount, pc'[y] # "idle", k < pack'[y]
      PROVE  Settled(provider[y], k)' /\ provider'[y] = provider[y]
  <2>0. provider[y] \in Providers /\ pack[y] \in 1 .. PackCount + 1
    BY DEF TypeInv, ControlType
  <2>1. CASE y # x
    <3>1. pc[y] # "idle" /\ k < pack[y] /\ provider'[y] = provider[y]
      BY <1>3, <2>1, StepIsLocal
    <3>2. Settled(provider[y], k)
      BY <3>1 DEF SettledInv
    <3>3. overlapped'
      BY <2>1, <3>1, OthersOverlap
    <3>4. \A p \in Providers : Settled(p, k) => Settled(p, k)'
      BY <3>3, SettledStays
    <3>5. Settled(provider[y], k)'
      BY <2>0, <3>1, <3>2, <3>4 DEF Settled
    <3> QED BY <3>1, <3>5
  <2>2. CASE y = x /\ pc[x] = "idle"
    <3>1. pack'[x] = 1
      <4>1. ~Ends(x)
        BY <1>3, <2>2 DEF Ends, Goes, TypeInv, ControlType
      <4> QED BY <2>2, <4>1, StepLife DEF Start, ProgressInv, Progress
    <3> QED BY <1>3, <2>2, <3>1
  <2>3. CASE y = x /\ pc[x] # "idle"
    <3>1. /\ provider'[x] = provider[x] /\ UNCHANGED history
          /\ \/ pack'[x] = pack[x]
             \/ /\ pack'[x] = pack[x] + 1 /\ pack[x] <= PackCount
                /\ \/ Dir(x).manifest = "completed" /\ UNCHANGED dirs
                   \/ Seal(x)
      BY <1>3, <2>3, StepPast
    <3>2. CASE k < pack[x]
      <4>1. Settled(provider[x], k)
        BY <2>3, <3>2 DEF SettledInv
      <4>2. dirs'[provider[x]][k] = dirs[provider[x]][k]
        BY <1>0, <3>2, OtherDirs
      <4>3. \A p \in Providers : p = provider[x] => Settled(p, k)'
        BY <4>1, <4>2, SettledStays
      <4> QED BY <1>0, <2>3, <3>1, <4>3 DEF Settled
    <3>3. CASE ~(k < pack[x])
      <4>1. k = pack[x] /\ pack'[x] = pack[x] + 1
        BY <1>0, <1>3, <2>3, <3>1, <3>3
      <4>2. CASE Dir(x).manifest = "completed" /\ UNCHANGED dirs
        <5>1. Whole(provider[x], Dir(x))
          BY <1>0, <4>1, <4>2 DEF SettledInv, Dir
        <5> QED BY <2>3, <3>1, <4>1, <4>2, <5>1 DEF Settled, Dir, Whole
      <4>3. CASE Seal(x)
        <5>1. pc[x] = "seal" /\ Becomes(x, [Dir(x) EXCEPT !.sealed = TRUE])
          BY <4>3 DEF Seal
        <5>2. Dir(x).manifest = "completed" /\ Whole(provider[x], Dir(x)) /\ Dir(x) \in DirType
          BY <5>1, DirTyped DEF WorkInv, Work, Inside
        <5>3. dirs'[provider[x]][k] = [Dir(x) EXCEPT !.sealed = TRUE]
          BY <1>0, <4>1, <5>1 DEF Becomes, TypeInv, DiskType
        <5>4. dirs'[provider[x]][k].manifest = "completed" /\ Whole(provider[x], dirs'[provider[x]][k])
          BY <5>2, <5>3 DEF Whole, DirType
        <5> QED BY <2>3, <3>1, <5>4 DEF Settled, Whole
      <4> QED BY <3>1, <4>1, <4>2, <4>3
    <3> QED BY <3>2, <3>3
  <2> QED BY <2>1, <2>2, <2>3
<1>4. ASSUME NEW y \in Slots, pc'[y] \in Inside, provider'[y] \in summary'
      PROVE  overlapped'
  <2>1. CASE y # x
    <3>1. pc[y] # "idle"
      BY <1>4, <2>1, StepIsLocal DEF Inside
    <3> QED BY <2>1, <3>1, OthersOverlap
  <2>2. CASE y = x
    <3>1. /\ provider[x] \in summary
          /\ \/ pc[x] \in Inside
             \/ pc[x] = "look" /\ pack[x] <= PackCount /\ Dir(x).manifest = "none"
      BY <1>4, <2>2, StepInside
    <3>2. overlapped
      <4>1. CASE pc[x] \in Inside
        BY <3>1, <4>1 DEF SettledInv
      <4>2. CASE pack[x] <= PackCount /\ Dir(x).manifest = "none"
        <5>1. Settled(provider[x], pack[x])
          BY <1>0, <3>1, <4>2 DEF SettledInv
        <5> QED BY <4>2, <5>1 DEF Settled, Dir
      <4> QED BY <3>1, <4>1, <4>2
    <3> QED BY <3>2, OverlappedStays
  <2> QED BY <2>1, <2>2
<1>5. \A y \in Slots, k \in 1 .. PackCount : pc'[y] # "idle" /\ k < pack'[y] => Settled(provider[y], k)'
  BY <1>3 DEF Settled
<1> QED BY <1>1, <1>2, <1>4, <1>5 DEF SettledInv, Settled, Whole

LEMMA WholeStutters ==
    ProgressInv /\ WorkInv /\ SettledInv /\ UNCHANGED vars
       => ProgressInv' /\ WorkInv' /\ SettledInv'
<1> SUFFICES ASSUME ProgressInv, WorkInv, SettledInv, UNCHANGED vars
             PROVE  ProgressInv' /\ WorkInv' /\ SettledInv'
  OBVIOUS
<1> USE DEF vars, place, memory, disk, history
<1>1. ProgressInv'
  BY DEF ProgressInv, Progress, AskProgress, ReadProgress
<1>2. WorkInv'
  BY DEF WorkInv, Work, Dir, Filled, Whole
<1>3. SettledInv'
  BY DEF SettledInv, Settled, Whole
<1> QED BY <1>1, <1>2, <1>3

(* A pack that counts has all its files and one row for every cell and     *)
(* every retrieval, and a summary stands on whole packs, whatever was      *)
(* refused, killed, repeated or run side by side.                          *)
THEOREM CapabilityCompletedIsWhole == Spec => []CompletedIsWhole
<1>1. TypeInv /\ OwnInv /\ ProgressInv /\ WorkInv /\ SettledInv /\ [Next]_vars
        => ProgressInv' /\ WorkInv' /\ SettledInv'
  BY ProgressNext, WorkNext, SettledNext, WholeStutters DEF Next
<1>2. TypeInv /\ SettledInv => CompletedIsWhole
  BY DEF SettledInv, Settled, CompletedIsWhole
<1> QED BY <1>1, <1>2, TypeInit, OwnInit, ProgressInit, WorkInit, SettledInit,
           TypeNext, OwnNextOrStutters, PTL DEF Spec

-----------------------------------------------------------------------------
(* Spending.  Sums over the processes are counted as stacks of tokens, one *)
(* column for each process.                                                *)

Stack(f) == {s \in Slots \X Nat : s[2] \in 1 .. f[s[1]]}
Total(f) == Cardinality(Stack(f))

(* More than any process holds of anything summed up here.                 *)
Most == Ceiling + MaxCost + 1

LEMMA ColumnSize ==
    ASSUME NEW x \in Slots, NEW n \in Nat
    PROVE  IsFiniteSet({x} \X (1 .. n)) /\ Cardinality({x} \X (1 .. n)) = n
<1>1. IsFiniteSet({x}) /\ Cardinality({x}) = 1
  BY FS_Singleton
<1>2. IsFiniteSet(1 .. n) /\ Cardinality(1 .. n) = n
  BY FS_Interval
<1>3. /\ IsFiniteSet({x} \X (1 .. n))
      /\ Cardinality({x} \X (1 .. n)) = Cardinality({x}) * Cardinality(1 .. n)
  BY <1>1, <1>2, FS_Product
<1>4. 1 * n = n
  OBVIOUS
<1> QED BY <1>1, <1>2, <1>3, <1>4

LEMMA StackFinite ==
    ASSUME NEW f \in [Slots -> 0 .. Most]
    PROVE  IsFiniteSet(Stack(f)) /\ Total(f) \in Nat
<1>1. IsFiniteSet(Slots) /\ Most \in Nat
  BY CapabilityAssumption DEF Most
<1>2. IsFiniteSet(0 .. Most)
  BY <1>1, FS_Interval
<1>3. IsFiniteSet(Slots \X (0 .. Most))
  BY <1>1, <1>2, FS_Product
<1>4. Stack(f) \subseteq Slots \X (0 .. Most)
  <2> SUFFICES ASSUME NEW s \in Stack(f) PROVE s \in Slots \X (0 .. Most)
    OBVIOUS
  <2>1. s \in Slots \X Nat /\ s[2] \in 1 .. f[s[1]] /\ f[s[1]] \in 0 .. Most
    BY DEF Stack
  <2> QED BY <1>1, <2>1
<1> QED BY <1>3, <1>4, FS_Subset, FS_CardinalityType DEF Total

(* One process changes what it holds: the sum changes by as much.          *)
LEMMA TotalChange ==
    ASSUME NEW f \in [Slots -> 0 .. Most], NEW g \in [Slots -> 0 .. Most], NEW x \in Slots,
           \A y \in Slots \ {x} : g[y] = f[y]
    PROVE  Total(f) \in Nat /\ Total(g) \in Nat /\ Total(g) + f[x] = Total(f) + g[x]
<1> DEFINE Others == {s \in Stack(f) : s[1] # x}
<1>0. Most \in Nat /\ f[x] \in Nat /\ g[x] \in Nat
  BY CapabilityAssumption DEF Most
<1>1. Stack(f) = Others \cup ({x} \X (1 .. f[x])) /\ Others \cap ({x} \X (1 .. f[x])) = {}
  BY <1>0 DEF Stack
<1>2. Stack(g) = Others \cup ({x} \X (1 .. g[x])) /\ Others \cap ({x} \X (1 .. g[x])) = {}
  BY <1>0 DEF Stack
<1>3. IsFiniteSet(Others) /\ Cardinality(Others) \in Nat
  BY StackFinite, FS_Subset, FS_CardinalityType
<1> HIDE DEF Others
<1>4. Total(f) = Cardinality(Others) + f[x]
  <2>1. IsFiniteSet({x} \X (1 .. f[x])) /\ Cardinality({x} \X (1 .. f[x])) = f[x]
    BY <1>0, ColumnSize
  <2>2. Cardinality(Others \cup ({x} \X (1 .. f[x]))) = Cardinality(Others) + f[x] - Cardinality({})
    BY <1>3, <1>1, <2>1, FS_Union
  <2> QED BY <1>0, <1>1, <1>3, <2>2, FS_EmptySet DEF Total
<1>5. Total(g) = Cardinality(Others) + g[x]
  <2>1. IsFiniteSet({x} \X (1 .. g[x])) /\ Cardinality({x} \X (1 .. g[x])) = g[x]
    BY <1>0, ColumnSize
  <2>2. Cardinality(Others \cup ({x} \X (1 .. g[x]))) = Cardinality(Others) + g[x] - Cardinality({})
    BY <1>3, <1>2, <2>1, FS_Union
  <2> QED BY <1>0, <1>2, <1>3, <2>2, FS_EmptySet DEF Total
<1> QED BY <1>0, <1>3, <1>4, <1>5

LEMMA TotalGrows ==
    ASSUME NEW f \in [Slots -> 0 .. Most], NEW g \in [Slots -> 0 .. Most],
           \A y \in Slots : f[y] <= g[y]
    PROVE  Total(f) <= Total(g)
<1>1. Stack(f) \subseteq Stack(g)
  <2> SUFFICES ASSUME NEW s \in Stack(f) PROVE s \in Stack(g)
    OBVIOUS
  <2>1. s \in Slots \X Nat /\ s[2] \in 1 .. f[s[1]] /\ s[1] \in Slots
    BY DEF Stack
  <2>2. f[s[1]] \in 0 .. Most /\ g[s[1]] \in 0 .. Most /\ f[s[1]] <= g[s[1]] /\ Most \in Nat
    BY <2>1, CapabilityAssumption DEF Most
  <2>3. s[2] \in 1 .. g[s[1]]
    BY <2>1, <2>2
  <2> QED BY <2>1, <2>3 DEF Stack
<1> QED BY <1>1, StackFinite, FS_Subset DEF Total

(* All but an empty-handed one of them hold at most n each.                *)
LEMMA TotalOfOthers ==
    ASSUME NEW f \in [Slots -> 0 .. Most], NEW x \in Slots, f[x] = 0, NEW n \in Nat,
           \A y \in Slots : f[y] <= n
    PROVE  /\ Cardinality(Slots) \in Nat /\ Cardinality(Slots) >= 1
           /\ Total(f) <= (Cardinality(Slots) - 1) * n
<1>1. IsFiniteSet(Slots)
  BY CapabilityAssumption
<1>2. /\ IsFiniteSet(Slots \ {x}) /\ Cardinality(Slots \ {x}) = Cardinality(Slots) - 1
      /\ Cardinality(Slots) \in Nat /\ Cardinality(Slots \ {x}) \in Nat
  BY <1>1, FS_RemoveElement, FS_CardinalityType
<1>3. IsFiniteSet(1 .. n) /\ Cardinality(1 .. n) = n
  BY FS_Interval
<1>4. /\ IsFiniteSet((Slots \ {x}) \X (1 .. n))
      /\ Cardinality((Slots \ {x}) \X (1 .. n)) = (Cardinality(Slots) - 1) * n
  <2>1. /\ IsFiniteSet((Slots \ {x}) \X (1 .. n))
        /\ Cardinality((Slots \ {x}) \X (1 .. n)) = Cardinality(Slots \ {x}) * Cardinality(1 .. n)
    BY <1>2, <1>3, FS_Product
  <2> QED BY <1>2, <1>3, <2>1
<1>5. Stack(f) \subseteq (Slots \ {x}) \X (1 .. n)
  <2> SUFFICES ASSUME NEW s \in Stack(f) PROVE s \in (Slots \ {x}) \X (1 .. n)
    OBVIOUS
  <2>1. s \in Slots \X Nat /\ s[2] \in 1 .. f[s[1]] /\ s[1] \in Slots
    BY DEF Stack
  <2>2. f[s[1]] \in 0 .. Most /\ f[s[1]] <= n /\ Most \in Nat
    BY <2>1, CapabilityAssumption DEF Most
  <2>3. s[1] # x /\ s[2] \in 1 .. n
    BY <2>1, <2>2
  <2> QED BY <2>1, <2>3
<1> QED BY <1>2, <1>4, <1>5, FS_Subset DEF Total

LEMMA TotalOfNothing ==
    ASSUME NEW f \in [Slots -> 0 .. Most], \A y \in Slots : f[y] = 0
    PROVE  Total(f) = 0
<1>1. Stack(f) = {}
  BY DEF Stack
<1> QED BY <1>1, FS_EmptySet DEF Total

(* A post in flight costs what was charged for it and what is beyond; a    *)
(* process may still spend what its proxy has not charged.                 *)
Within == [x \in Slots |-> IF flying[x] > 0 THEN 1 ELSE 0]
Beyond == [x \in Slots |-> IF flying[x] > 1 THEN flying[x] - 1 ELSE 0]
Claim == [x \in Slots |-> Within[x] + (cap[x] - charged[x])]

Shares == IF overlapped THEN Cardinality(Slots) ELSE 1

FlightInv ==
    \A x \in Slots : /\ pc[x] # "reader" => flying[x] = 0
                     /\ pc[x] = "idle" => cap[x] = 0
                     /\ Claim[x] <= Ceiling

SpendInv ==
    /\ spent = ledger + hidden + Total(Within) + Total(Beyond)
    /\ Total(Beyond) <= excess
    /\ ledger + Total(Claim) + Total(Beyond) <= Shares * Ceiling + excess

HoldingsType ==
    /\ Within \in [Slots -> 0 .. Most] /\ Beyond \in [Slots -> 0 .. Most]
    /\ Claim \in [Slots -> 0 .. Most]

LEMMA HoldingsTyped == TypeInv => HoldingsType
<1> SUFFICES ASSUME TypeInv PROVE HoldingsType
  OBVIOUS
<1>1. \A x \in Slots : /\ flying[x] \in 0 .. MaxCost /\ cap[x] \in 0 .. Ceiling
                       /\ charged[x] \in Nat /\ charged[x] <= cap[x]
  BY DEF TypeInv, ProxyType
<1>2. MaxCost \in Nat /\ Ceiling \in Nat /\ Most = Ceiling + MaxCost + 1
  BY CapabilityAssumption DEF Most
<1>3. Within \in [Slots -> 0 .. 1] /\ Beyond \in [Slots -> 0 .. Most]
  BY <1>1, <1>2 DEF Within, Beyond
<1>4. \A x \in Slots : Within[x] + (cap[x] - charged[x]) \in 0 .. Most
  BY <1>1, <1>2, <1>3
<1>5. \A x \in Slots : Within[x] \in 0 .. Most
  BY <1>2, <1>3
<1> QED BY <1>3, <1>4, <1>5 DEF Claim, Within, HoldingsType

LEMMA SharesTyped ==
    ASSUME NEW x \in Slots
    PROVE  Cardinality(Slots) \in Nat /\ Cardinality(Slots) >= 1 /\ Shares \in Nat /\ Shares >= 1
<1>1. IsFiniteSet(Slots)
  BY CapabilityAssumption
<1>2. Cardinality(Slots) \in Nat /\ Cardinality(Slots) # 0
  BY <1>1, FS_CardinalityType, FS_EmptySet
<1> QED BY <1>2 DEF Shares

(* What a step does to the proxies and to the costs.                       *)
Frees(x) ==
    /\ pc'[x] = "idle" /\ cap'[x] = 0 /\ charged'[x] = 0 /\ flying'[x] = 0
    /\ hidden' = hidden + flying[x]
    /\ UNCHANGED <<ledger, spent, excess, overlapped>>
Opens(x) ==
    /\ pc[x] = "idle" /\ pc'[x] = "look"
    /\ cap'[x] + ledger <= Ceiling
    /\ UNCHANGED <<charged, flying, ledger, spent, hidden>>
    /\ \/ Alone /\ excess' = 0 /\ (overlapped' <=> overlapped)
       \/ excess' = excess /\ overlapped'
Spends(x) ==
    /\ pc[x] = "read" /\ pc'[x] = "reader"
    /\ charged[x] + 1 <= cap[x] /\ cap' = cap /\ charged'[x] = charged[x] + 1
    /\ spent' = spent + flying'[x]
    /\ excess' = excess + (IF flying'[x] > 1 THEN flying'[x] - 1 ELSE 0)
    /\ UNCHANGED <<ledger, hidden, overlapped>>
Books(x) ==
    /\ pc'[x] = "read" /\ flying'[x] = 0
    /\ ledger' + hidden' = ledger + hidden + flying[x]
    /\ ledger' <= ledger + flying[x]
    /\ UNCHANGED <<cap, charged, spent, excess, overlapped>>
Idles(x) ==
    /\ pc[x] # "reader" /\ pc'[x] # "idle"
    /\ UNCHANGED <<proxy, costs, overlapped>>

LEMMA EndsFrees ==
    ASSUME TypeInv, FlightInv, NEW x \in Slots, Ends(x),
           (UNCHANGED costs /\ pc[x] # "reader") \/ Kill(x)
    PROVE  Frees(x)
<1>1. pc'[x] = "idle" /\ cap'[x] = 0 /\ charged'[x] = 0 /\ flying'[x] = 0 /\ UNCHANGED overlapped
  BY DEF Ends, Goes, history, TypeInv, ControlType, ProxyType
<1>2. flying[x] \in Nat /\ hidden \in Nat
  BY CapabilityAssumption DEF TypeInv, ProxyType, CostType
<1>3. CASE UNCHANGED costs /\ pc[x] # "reader"
  BY <1>1, <1>2, <1>3 DEF FlightInv, costs, Frees
<1>4. CASE Kill(x)
  BY <1>1, <1>4 DEF Kill, Frees
<1> QED BY <1>3, <1>4

LEMMA StartOpens ==
    ASSUME TypeInv, NEW x \in Slots, NEW p \in Providers, Start(x, p)
    PROVE  Opens(x)
<1>1. cap'[x] = Smaller(PerRun, Ceiling - ledger) /\ ledger \in Nat /\ Ceiling - ledger > 0
  BY DEF Start, Remaining, TypeInv, ProxyType, CostType
<1>2. cap'[x] + ledger <= Ceiling
  BY <1>1, CapabilityAssumption DEF Smaller
<1>3. \/ Alone /\ excess' = 0 /\ (overlapped' <=> overlapped)
      \/ excess' = excess /\ overlapped'
  <2>1. CASE Alone
    BY <2>1, Zenon DEF Start
  <2>2. CASE ~Alone
    BY <2>2, Zenon DEF Start
  <2> QED BY <2>1, <2>2
<1>4. /\ pc[x] = "idle" /\ pc'[x] = "look"
      /\ UNCHANGED <<charged, flying, ledger, spent, hidden>>
  BY DEF Start, Goes, TypeInv, ControlType
<1> QED BY <1>2, <1>3, <1>4 DEF Opens

LEMMA StepOnCosts ==
    ASSUME TypeInv, FlightInv, NEW x \in Slots, Step(x)
    PROVE  Frees(x) \/ Opens(x) \/ Spends(x) \/ Books(x) \/ Idles(x)
<1> USE DEF Goes
<1>0. pc \in [Slots -> Places] /\ charged \in [Slots -> Nat] /\ flying \in [Slots -> 0 .. MaxCost]
  BY DEF TypeInv, ControlType, ProxyType
<1>1. ASSUME NEW p \in Providers, Start(x, p) PROVE Opens(x)
  BY <1>1, StartOpens
<1>2. CASE Look(x)
  <2>1. CASE Ends(x)
    BY <1>2, <2>1, EndsFrees DEF Look
  <2>2. CASE ~Ends(x)
    BY <1>0, <1>2, <2>2 DEF Look, Idles, history, proxy
  <2> QED BY <2>1, <2>2
<1>3. CASE MakeDir(x)
  <2>1. CASE Ends(x)
    BY <1>3, <2>1, EndsFrees DEF MakeDir
  <2>2. CASE ~Ends(x)
    BY <1>0, <1>3, <2>2 DEF MakeDir, Idles, history
  <2> QED BY <2>1, <2>2
<1>4. CASE LoadRaises(x) \/ Fail(x) \/ Summarise(x) \/ Kill(x)
  BY <1>4, EndsFrees DEF LoadRaises, Fail, Summarise, Kill
<1>5. CASE Load(x) \/ Populate(x) \/ Complete(x) \/ Seal(x)
  BY <1>0, <1>5 DEF Load, Populate, Complete, Seal, Idles, history
<1>6. CASE Ask(x) \/ Refuse(x) \/ NextQuery(x)
  BY <1>0, <1>6 DEF Ask, Refuse, NextQuery, Idles, history
<1>7. ASSUME NEW part \in Parts, Write(x, part) PROVE Idles(x)
  BY <1>0, <1>7 DEF Write, place, Idles, history
<1>8. ASSUME NEW cost \in 0 .. MaxCost, Post(x, cost) PROVE Spends(x)
  <2>1. /\ pc' = [pc EXCEPT ![x] = "reader"] /\ charged' = [charged EXCEPT ![x] = @ + 1]
        /\ flying' = [flying EXCEPT ![x] = cost]
        /\ pc[x] = "read" /\ charged[x] + 1 <= cap[x] /\ spent' = spent + cost
        /\ excess' = excess + (IF cost > 1 THEN cost - 1 ELSE 0)
        /\ UNCHANGED <<cap, ledger, hidden, overlapped>>
    BY <1>8 DEF Post, history
  <2> QED BY <1>0, <2>1 DEF Spends
<1>9. CASE Answer(x)
  <2>1. ledger \in Nat /\ hidden \in Nat /\ flying[x] \in Nat
    BY <1>0, CapabilityAssumption DEF TypeInv, CostType
  <2>2. PICK recorded \in 0 .. flying[x] : /\ ledger' = ledger + recorded
                                          /\ hidden' = hidden + (flying[x] - recorded)
    BY <1>9 DEF Answer
  <2>3. /\ ledger' + hidden' = ledger + hidden + flying[x]
        /\ ledger' <= ledger + flying[x]
    BY <2>1, <2>2
  <2>4. /\ pc'[x] = "read" /\ flying'[x] = 0
        /\ UNCHANGED <<cap, charged, spent, excess, overlapped>>
    BY <1>0, <1>9 DEF Answer, history
  <2> QED BY <2>3, <2>4 DEF Books
<1> QED BY <1>1, <1>2, <1>3, <1>4, <1>5, <1>6, <1>7, <1>8, <1>9 DEF Step

LEMMA ProxyIsLocal ==
    ASSUME TypeInv, NEW x \in Slots, Step(x), NEW y \in Slots, y # x
    PROVE  cap'[y] = cap[y] /\ charged'[y] = charged[y] /\ flying'[y] = flying[y]
<1> USE DEF TypeInv, ProxyType
<1>1. Ends(x) => cap'[y] = cap[y] /\ charged'[y] = charged[y] /\ flying'[y] = flying[y]
  BY DEF Ends
<1>2. CASE \E p \in Providers : Start(x, p)
  BY <1>2 DEF Start
<1>3. CASE (\E cost \in 0 .. MaxCost : Post(x, cost)) \/ Answer(x)
  BY <1>3 DEF Post, Answer
<1>4. CASE UNCHANGED proxy
  BY <1>4 DEF proxy
<1> QED
  BY <1>1, <1>2, <1>3, <1>4
  DEF Step, Look, MakeDir, Load, LoadRaises, Populate, Ask, Refuse, NextQuery, Write,
      Complete, Seal, Fail, Summarise, Kill

LEMMA FlightNext ==
    ASSUME TypeInv, FlightInv, NEW x \in Slots, Step(x)
    PROVE  FlightInv'
<1>1. TypeInv'
  BY TypeNext DEF Next
<1>2. ASSUME NEW y \in Slots, y # x
      PROVE  /\ pc'[y] = pc[y] /\ cap'[y] = cap[y] /\ charged'[y] = charged[y]
             /\ flying'[y] = flying[y]
  BY <1>2, StepIsLocal, ProxyIsLocal
<1>3. ASSUME NEW y \in Slots, y # x
      PROVE  /\ pc'[y] # "reader" => flying'[y] = 0
             /\ pc'[y] = "idle" => cap'[y] = 0
             /\ Claim'[y] <= Ceiling
  BY <1>2, <1>3 DEF FlightInv, Claim, Within
<1>4. /\ flying[x] \in Nat /\ flying'[x] \in Nat /\ cap[x] \in Nat /\ charged[x] \in Nat
      /\ charged[x] <= cap[x] /\ cap[x] <= Ceiling
      /\ cap'[x] \in Nat /\ charged'[x] \in Nat /\ charged'[x] <= cap'[x] /\ cap'[x] <= Ceiling
      /\ ledger \in Nat /\ Ceiling \in Nat
      /\ (pc[x] = "idle" => charged[x] = 0)
  BY <1>1, CapabilityAssumption DEF TypeInv, ProxyType, CostType
<1>5. /\ Claim[x] = (IF flying[x] > 0 THEN 1 ELSE 0) + (cap[x] - charged[x])
      /\ Claim'[x] = (IF flying'[x] > 0 THEN 1 ELSE 0) + (cap'[x] - charged'[x])
  BY DEF Claim, Within
<1>6. /\ pc[x] # "reader" => flying[x] = 0
      /\ pc[x] = "idle" => cap[x] = 0
      /\ Claim[x] <= Ceiling
  BY DEF FlightInv
<1>7. /\ pc'[x] # "reader" => flying'[x] = 0
      /\ pc'[x] = "idle" => cap'[x] = 0
      /\ Claim'[x] <= Ceiling
  <2>1. CASE Frees(x)
    BY <1>4, <1>5, <2>1 DEF Frees
  <2>2. CASE Opens(x)
    BY <1>4, <1>5, <1>6, <2>2 DEF Opens
  <2>3. CASE Spends(x)
    BY <1>4, <1>5, <1>6, <2>3 DEF Spends
  <2>4. CASE Books(x)
    BY <1>4, <1>5, <1>6, <2>4 DEF Books
  <2>5. CASE Idles(x)
    BY <1>4, <1>5, <1>6, <2>5 DEF Idles, proxy
  <2> QED BY <2>1, <2>2, <2>3, <2>4, <2>5, StepOnCosts
<1> QED BY <1>3, <1>7 DEF FlightInv

(* How the three sums move with what one process holds.                    *)
LEMMA SumsNext ==
    ASSUME TypeInv, NEW x \in Slots, Step(x)
    PROVE  /\ Total(Within) \in Nat /\ Total(Within)' \in Nat
           /\ Total(Within)' + Within[x] = Total(Within) + Within'[x]
           /\ Total(Beyond) \in Nat /\ Total(Beyond)' \in Nat
           /\ Total(Beyond)' + Beyond[x] = Total(Beyond) + Beyond'[x]
           /\ Total(Claim) \in Nat /\ Total(Claim)' \in Nat
           /\ Total(Claim)' + Claim[x] = Total(Claim) + Claim'[x]
<1>1. /\ Within \in [Slots -> 0 .. Most] /\ Beyond \in [Slots -> 0 .. Most]
      /\ Claim \in [Slots -> 0 .. Most]
  BY HoldingsTyped DEF HoldingsType
<1>2. TypeInv'
  BY TypeNext DEF Next
<1>3. /\ Within' \in [Slots -> 0 .. Most] /\ Beyond' \in [Slots -> 0 .. Most]
      /\ Claim' \in [Slots -> 0 .. Most]
  <2>1. HoldingsType'
    BY <1>2, HoldingsTyped, PTL
  <2> QED BY <2>1 DEF HoldingsType, Most
<1>4. \A y \in Slots \ {x} : /\ Within'[y] = Within[y] /\ Beyond'[y] = Beyond[y]
                             /\ Claim'[y] = Claim[y]
  BY ProxyIsLocal DEF Within, Beyond, Claim
<1>5. /\ Total(Within) \in Nat /\ Total(Within') \in Nat
      /\ Total(Within') + Within[x] = Total(Within) + Within'[x]
  BY <1>1, <1>3, <1>4, TotalChange
<1>6. /\ Total(Beyond) \in Nat /\ Total(Beyond') \in Nat
      /\ Total(Beyond') + Beyond[x] = Total(Beyond) + Beyond'[x]
  BY <1>1, <1>3, <1>4, TotalChange
<1>7. /\ Total(Claim) \in Nat /\ Total(Claim') \in Nat
      /\ Total(Claim') + Claim[x] = Total(Claim) + Claim'[x]
  BY <1>1, <1>3, <1>4, TotalChange
<1> QED BY <1>5, <1>6, <1>7 DEF Total, Stack

LEMMA SpendStart ==
    ASSUME TypeInv, FlightInv, SpendInv, NEW x \in Slots, Step(x), Opens(x)
    PROVE  SpendInv'
<1>1. /\ flying[x] = 0 /\ flying'[x] = 0 /\ charged[x] = 0 /\ charged'[x] = 0 /\ cap[x] = 0
      /\ cap'[x] \in Nat /\ ledger \in Nat /\ Ceiling \in Nat /\ excess \in Nat
      /\ cap'[x] + ledger <= Ceiling
  <2>1. TypeInv'
    BY TypeNext DEF Next
  <2> QED BY <2>1, CapabilityAssumption DEF Opens, FlightInv, TypeInv, ProxyType, CostType
<1>2. /\ Within[x] = 0 /\ Within'[x] = 0 /\ Beyond[x] = 0 /\ Beyond'[x] = 0
      /\ Claim[x] = 0 /\ Claim'[x] = cap'[x]
  BY <1>1 DEF Within, Beyond, Claim
<1>3. /\ Total(Within) \in Nat /\ Total(Within)' = Total(Within)
      /\ Total(Beyond) \in Nat /\ Total(Beyond)' = Total(Beyond)
      /\ Total(Claim) \in Nat /\ Total(Claim)' = Total(Claim) + cap'[x]
  BY <1>1, <1>2, SumsNext
<1>4. UNCHANGED <<ledger, spent, hidden>>
  BY DEF Opens
<1>5. spent' = ledger' + hidden' + Total(Within)' + Total(Beyond)'
  BY <1>3, <1>4 DEF SpendInv
<1>6. CASE Alone /\ excess' = 0 /\ (overlapped' <=> overlapped)
  <2>1. \A y \in Slots : flying[y] = 0 /\ cap[y] = 0 /\ charged[y] = 0
    BY <1>6 DEF Alone, FlightInv, TypeInv, ProxyType
  <2>2. \A y \in Slots : Beyond[y] = 0 /\ Claim[y] = 0
    BY <2>1 DEF Beyond, Within, Claim
  <2>3. Total(Beyond) = 0 /\ Total(Claim) = 0
    BY <2>2, HoldingsTyped, TotalOfNothing DEF HoldingsType
  <2>4. Shares' \in Nat /\ Shares' >= 1
    BY SharesTyped DEF Shares
  <2>5. 1 * Ceiling = Ceiling /\ \A n \in Nat : n >= 1 => n * Ceiling >= Ceiling
    BY <1>1
  <2>6. Shares' * Ceiling >= Ceiling /\ Shares' * Ceiling \in Nat
    BY <1>1, <2>4, <2>5
  <2>7. ledger' + Total(Claim)' + Total(Beyond)' <= Shares' * Ceiling + excess'
    BY <1>1, <1>3, <1>4, <1>6, <2>3, <2>6
  <2> QED BY <1>1, <1>3, <1>5, <1>6, <2>3, <2>7 DEF SpendInv
<1>7. CASE excess' = excess /\ overlapped'
  <2>1. \A y \in Slots : Claim[y] <= Ceiling
    BY DEF FlightInv
  <2>2. /\ Cardinality(Slots) \in Nat /\ Cardinality(Slots) >= 1
        /\ Total(Claim) <= (Cardinality(Slots) - 1) * Ceiling
    BY <1>1, <1>2, <2>1, HoldingsTyped, TotalOfOthers DEF HoldingsType
  <2>3. Shares' = Cardinality(Slots)
    BY <1>7 DEF Shares
  <2>4. \A n \in Nat : n >= 1 => n * Ceiling = (n - 1) * Ceiling + Ceiling /\ (n - 1) * Ceiling \in Nat
    BY <1>1
  <2>5. ledger' + Total(Claim)' + Total(Beyond)' <= Shares' * Ceiling + excess'
    BY <1>1, <1>3, <1>4, <1>7, <2>2, <2>3, <2>4 DEF SpendInv
  <2> QED BY <1>3, <1>5, <1>7, <2>5 DEF SpendInv
<1> QED BY <1>6, <1>7 DEF Opens

LEMMA SpendNext ==
    ASSUME TypeInv, FlightInv, SpendInv, NEW x \in Slots, Step(x)
    PROVE  SpendInv'
<1>1. TypeInv'
  BY TypeNext DEF Next
<1>2. /\ flying[x] \in Nat /\ flying'[x] \in Nat /\ cap[x] \in Nat /\ charged[x] \in Nat
      /\ charged[x] <= cap[x] /\ cap'[x] \in Nat /\ charged'[x] \in Nat
      /\ ledger \in Nat /\ spent \in Nat /\ hidden \in Nat /\ excess \in Nat /\ Ceiling \in Nat
  BY <1>1, CapabilityAssumption DEF TypeInv, ProxyType, CostType
<1>3. /\ Within[x] = (IF flying[x] > 0 THEN 1 ELSE 0)
      /\ Within'[x] = (IF flying'[x] > 0 THEN 1 ELSE 0)
      /\ Beyond[x] = (IF flying[x] > 1 THEN flying[x] - 1 ELSE 0)
      /\ Beyond'[x] = (IF flying'[x] > 1 THEN flying'[x] - 1 ELSE 0)
      /\ Claim[x] = Within[x] + (cap[x] - charged[x])
      /\ Claim'[x] = Within'[x] + (cap'[x] - charged'[x])
  BY DEF Within, Beyond, Claim
<1>4. /\ flying[x] = Within[x] + Beyond[x] /\ flying'[x] = Within'[x] + Beyond'[x]
      /\ Within[x] \in Nat /\ Within'[x] \in Nat /\ Beyond[x] \in Nat /\ Beyond'[x] \in Nat
      /\ Claim[x] \in Int /\ Claim'[x] \in Int
  BY <1>2, <1>3
<1>5. /\ Total(Within) \in Nat /\ Total(Within)' \in Nat
      /\ Total(Within)' + Within[x] = Total(Within) + Within'[x]
      /\ Total(Beyond) \in Nat /\ Total(Beyond)' \in Nat
      /\ Total(Beyond)' + Beyond[x] = Total(Beyond) + Beyond'[x]
      /\ Total(Claim) \in Nat /\ Total(Claim)' \in Nat
      /\ Total(Claim)' + Claim[x] = Total(Claim) + Claim'[x]
  BY SumsNext
<1>6. Shares * Ceiling \in Nat
  <2>1. Shares \in Nat
    BY SharesTyped
  <2> QED BY <1>2, <2>1
<1>7. /\ spent = ledger + hidden + Total(Within) + Total(Beyond)
      /\ Total(Beyond) <= excess
      /\ ledger + Total(Claim) + Total(Beyond) <= Shares * Ceiling + excess
  BY DEF SpendInv
<1>8. UNCHANGED overlapped => Shares' = Shares
  BY DEF Shares
<1>9. /\ spent' = ledger' + hidden' + Total(Within)' + Total(Beyond)'
      /\ Total(Beyond)' <= excess'
      /\ ledger' + Total(Claim)' + Total(Beyond)' <= Shares * Ceiling + excess'
      /\ Shares' = Shares
      => SpendInv'
  BY DEF SpendInv
<1>10. CASE Opens(x)
  BY <1>10, SpendStart
<1>11. CASE Frees(x)
  <2>1. /\ Within'[x] = 0 /\ Beyond'[x] = 0 /\ Claim'[x] = 0
        /\ hidden' = hidden + flying[x] /\ UNCHANGED <<ledger, spent, excess, overlapped>>
    BY <1>3, <1>11 DEF Frees
  <2>2. Claim[x] >= Within[x]
    BY <1>2, <1>3, <1>4
  <2>3. spent' = ledger' + hidden' + Total(Within)' + Total(Beyond)'
    BY <1>2, <1>4, <1>5, <1>7, <2>1
  <2>4. Total(Beyond)' <= excess'
    BY <1>2, <1>4, <1>5, <1>7, <2>1
  <2>5. ledger' + Total(Claim)' + Total(Beyond)' <= Shares * Ceiling + excess'
    BY <1>2, <1>4, <1>5, <1>6, <1>7, <2>1, <2>2
  <2> QED BY <1>8, <1>9, <2>1, <2>3, <2>4, <2>5
<1>12. CASE Spends(x)
  <2>1. /\ cap'[x] = cap[x] /\ charged'[x] = charged[x] + 1
        /\ spent' = spent + flying'[x] /\ excess' = excess + Beyond'[x]
        /\ Within[x] = 0 /\ Beyond[x] = 0
        /\ UNCHANGED <<ledger, hidden, overlapped>>
    BY <1>3, <1>12 DEF Spends, FlightInv
  <2>2. Claim'[x] <= Claim[x]
    BY <1>2, <1>3, <1>4, <2>1
  <2>3. spent' = ledger' + hidden' + Total(Within)' + Total(Beyond)'
    <3>1. Total(Within)' = Total(Within) + Within'[x] /\ Total(Beyond)' = Total(Beyond) + Beyond'[x]
      BY <1>4, <1>5, <2>1
    <3>2. spent' = spent + (Within'[x] + Beyond'[x]) /\ ledger' = ledger /\ hidden' = hidden
      BY <1>4, <2>1
    <3> QED BY <1>2, <1>4, <1>5, <1>7, <3>1, <3>2
  <2>4. Total(Beyond)' <= excess'
    BY <1>2, <1>4, <1>5, <1>7, <2>1
  <2>5. ledger' + Total(Claim)' + Total(Beyond)' <= Shares * Ceiling + excess'
    BY <1>2, <1>4, <1>5, <1>6, <1>7, <2>1, <2>2
  <2> QED BY <1>8, <1>9, <2>1, <2>3, <2>4, <2>5
<1>13. CASE Books(x)
  <2>1. /\ cap'[x] = cap[x] /\ charged'[x] = charged[x] /\ Within'[x] = 0 /\ Beyond'[x] = 0
        /\ ledger' + hidden' = ledger + hidden + flying[x] /\ ledger' <= ledger + flying[x]
        /\ UNCHANGED <<spent, excess, overlapped>>
    BY <1>3, <1>13 DEF Books
  <2>2. Claim[x] = Claim'[x] + Within[x]
    BY <1>2, <1>3, <1>4, <2>1
  <2>6. ledger' \in Nat /\ hidden' \in Nat
    BY <1>1 DEF TypeInv, CostType
  <2>3. spent' = ledger' + hidden' + Total(Within)' + Total(Beyond)'
    BY <1>2, <1>4, <1>5, <1>7, <2>1, <2>6
  <2>4. Total(Beyond)' <= excess'
    BY <1>2, <1>4, <1>5, <1>7, <2>1
  <2>5. ledger' + Total(Claim)' + Total(Beyond)' <= Shares * Ceiling + excess'
    BY <1>2, <1>4, <1>5, <1>6, <1>7, <2>1, <2>2, <2>6
  <2> QED BY <1>8, <1>9, <2>1, <2>3, <2>4, <2>5
<1>14. CASE Idles(x)
  BY <1>14 DEF Idles, proxy, costs, SpendInv, Total, Stack, Within, Beyond, Claim, Shares
<1> QED BY <1>10, <1>11, <1>12, <1>13, <1>14, StepOnCosts

(* How far the ceiling of the experiment holds (_existing_experiment_cost  *)
(* read in _start_proxy, enforced by the proxy): executions one after the  *)
(* other spend no more than it, but for cost that no ledger shows and what *)
(* calls cost beyond their estimates; once two were side by side, no more  *)
(* than one ceiling for each process.  The hard ceiling of the             *)
(* preregistration is more than this, and the code does not keep it.       *)
THEOREM CapabilitySpendBounded == Spec => []SpendBounded
<1>1. Init => TypeInv /\ FlightInv /\ SpendInv
  <2> SUFFICES ASSUME Init PROVE TypeInv /\ FlightInv /\ SpendInv
    OBVIOUS
  <2>1. TypeInv
    BY TypeInit
  <2>2. \A x \in Slots : flying[x] = 0 /\ cap[x] = 0 /\ charged[x] = 0
    BY DEF Init
  <2>3. \A x \in Slots : Within[x] = 0 /\ Beyond[x] = 0 /\ Claim[x] = 0
    BY <2>2 DEF Within, Beyond, Claim
  <2>4. Total(Within) = 0 /\ Total(Beyond) = 0 /\ Total(Claim) = 0
    BY <2>1, <2>3, HoldingsTyped, TotalOfNothing DEF HoldingsType
  <2>5. ledger = 0 /\ spent = 0 /\ hidden = 0 /\ excess = 0 /\ overlapped = FALSE
    BY DEF Init
  <2>6. Shares = 1 /\ 1 * Ceiling = Ceiling /\ Ceiling \in Nat
    BY <2>5, CapabilityAssumption DEF Shares
  <2>7. SpendInv
    BY <2>4, <2>5, <2>6 DEF SpendInv
  <2>8. FlightInv
    BY <2>2, <2>3, CapabilityAssumption DEF FlightInv
  <2> QED BY <2>1, <2>7, <2>8
<1>2. TypeInv /\ FlightInv /\ SpendInv /\ [Next]_vars => (TypeInv /\ FlightInv /\ SpendInv)'
  <2>1. TypeInv /\ FlightInv /\ SpendInv /\ Next => (TypeInv /\ FlightInv /\ SpendInv)'
    BY TypeNext, FlightNext, SpendNext DEF Next
  <2>2. FlightInv /\ SpendInv /\ UNCHANGED vars => FlightInv' /\ SpendInv'
    BY DEF vars, place, proxy, costs, history, FlightInv, SpendInv, Total, Stack, Within,
           Beyond, Claim, Shares
  <2> QED BY <2>1, <2>2, TypeNext
<1>3. TypeInv /\ FlightInv /\ SpendInv => SpendBounded
  <2> SUFFICES ASSUME TypeInv, FlightInv, SpendInv PROVE SpendBounded
    OBVIOUS
  <2>1. \A x \in Slots : Within[x] <= Claim[x]
    <3> SUFFICES ASSUME NEW x \in Slots PROVE Within[x] <= Claim[x]
      OBVIOUS
    <3>1. /\ cap[x] \in Nat /\ charged[x] \in Nat /\ charged[x] <= cap[x]
          /\ Within[x] \in {0, 1} /\ Claim[x] = Within[x] + (cap[x] - charged[x])
      BY CapabilityAssumption DEF TypeInv, ProxyType, Within, Claim
    <3> QED BY <3>1
  <2>2. Total(Within) <= Total(Claim)
    BY <2>1, HoldingsTyped, TotalGrows DEF HoldingsType
  <2>3. Total(Within) \in Nat /\ Total(Claim) \in Nat /\ Total(Beyond) \in Nat
    BY HoldingsTyped, StackFinite DEF HoldingsType
  <2>4. ledger \in Nat /\ hidden \in Nat /\ excess \in Nat /\ spent \in Nat
    BY DEF TypeInv, CostType
  <2>5. Shares * Ceiling \in Nat
    <3>1. Cardinality(Slots) \in Nat
      BY CapabilityAssumption, FS_CardinalityType
    <3>2. Shares \in Nat /\ Ceiling \in Nat
      BY <3>1, CapabilityAssumption DEF Shares
    <3> QED BY <3>2
  <2>6. spent <= Shares * Ceiling + hidden + excess
    BY <2>2, <2>3, <2>4, <2>5 DEF SpendInv
  <2> QED BY <2>6 DEF SpendBounded, Shares
<1> QED BY <1>1, <1>2, <1>3, PTL DEF Spec
===============================================================================
