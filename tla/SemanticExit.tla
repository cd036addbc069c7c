----------------------------- MODULE SemanticExit ------------------------------
(***************************************************************************)
(* The semantic-exit experiment, in its first form (script "v1",           *)
(* scripts/run_semantic_memory_exit.py) and corrected (script              *)
(* "correction", scripts/run_semantic_exit_corrections.py).  One product   *)
(* after the other is filled through its adapter, exported, destroyed and  *)
(* rebuilt in a fresh runtime from the export alone.  Hindsight lives in a *)
(* Docker stack of its own; Hindsight and Mem0 call a model gateway.       *)
(*                                                                         *)
(* The adapters' operations and the products' stores are those of          *)
(* Adapters.  Each product's part of a script is a list of steps inside a  *)
(* try, with its except and finally.  Abstracted: texts and timestamps,    *)
(* and so the fidelity classification; hashes; the answers to queries.     *)
(***************************************************************************)
EXTENDS Adapters, Sequences

CONSTANTS Scripts,         \* the scripts, "v1" and "correction"
          Selected,        \* the products, in the order they are run
          Operations,      \* the corpus, sorted: [event |-> e, delete |-> b]
          MaxBreakdowns    \* bound on breakdowns

ASSUME ExitAssumption ==
    /\ Scripts \subseteq {"v1", "correction"}
    /\ Selected \in Seq(Products \cap {"gbrain-ollama", "mem0-native", "hindsight"})
    /\ Operations \in Seq([event : Events, delete : BOOLEAN])
    /\ MaxBreakdowns \in Nat

VARIABLES
    script,     \* the script running
    turn,       \* the position of the product in Selected
    phase,      \* "try", "unwind", "except", "finally", "record" or "over"
    step,       \* the position in the product's list of steps
    next,       \* the position in the corpus
    a,          \* the original runtime
    root,       \* its directory exists
    kept,       \* events whose storing was recorded as ok, less those whose
                \* deletion was, or may have been, done
    withdrawn,  \* events whose deletion was recorded as done
    artifact,   \* the exported events, by kind of export
    bases,      \* what the runtimes rebuilt into held before
    recovered,  \* the events of the rebuilt runtimes
    gateway,    \* the gateway runs
    stack,      \* containers and volumes of the stack exist
    held,       \* the stack context to be left: "none", "stack" or "fresh"
    status,     \* of the product's run; "raised" once the except has raised
    observed,   \* observed[i]: the status in the i-th observation.json, or
                \* "unwritten" when writing it failed
    breakdowns  \* docker commands, and stops of the gateway, that failed

turnVars == <<script, turn>>
control == <<phase, step, next>>
original == <<a, root, kept, withdrawn>>
copies == <<artifact, bases, recovered>>
services == <<gateway, stack, held, breakdowns>>
vars == <<turnVars, control, original, copies, services, status, observed>>

-----------------------------------------------------------------------------
name == Selected[turn]
Kinds == {"export", "canonical"}
Nothing == [k \in Kinds |-> {}]

Fill == <<"make", "ready", "populate", "ask">>

\* Mutant: the bank is left to `docker compose down -v`.
ProgramWithoutForget ==
    CASE name = "gbrain-ollama" -> Fill \o <<"export", "copy", "destroy", "rebuild">>
      [] name = "mem0-native" -> <<"gateway">> \o Fill \o <<"export", "copy", "destroy", "rebuild">>
      [] OTHER -> <<"gateway", "up">> \o Fill \o <<"export", "down", "up", "rebuild", "down">>

(* The steps of the try, in order.                                         *)
Program ==
    CASE name = "gbrain-ollama" ->
            Fill \o <<"export", "copy", "destroy">>
                 \o (IF script = "v1" THEN <<"rebuild">> ELSE <<"sync", "rebuild">>)
      [] name = "mem0-native" ->
            <<"gateway">> \o Fill \o <<"export", "copy", "destroy", "rebuild">>
      [] OTHER ->
            <<"gateway", "up">> \o Fill
                \o (IF script = "v1"
                    THEN <<"export", "destroy", "forget", "down", "up", "rebuild">>
                    ELSE <<"export", "forget", "down", "up", "rebuild", "down">>)

At(s) == phase = "try" /\ step <= Len(Program) /\ Program[step] = s
Proceed == step' = step + 1 /\ UNCHANGED <<phase, next>>

(* An exception in the try.  Around the second stack the correction has a  *)
(* finally of its own; its GBrain adapter is built before the try.         *)
Outside == script = "correction" /\ name = "gbrain-ollama" /\ At("make")
Thrown ==
    /\ phase' = IF Outside THEN "over" ELSE IF held = "fresh" THEN "unwind" ELSE "except"
    /\ status' = IF Outside THEN status ELSE "failed"
    /\ UNCHANGED <<step, next>>

-----------------------------------------------------------------------------
Init ==
    /\ script \in Scripts /\ turn = 1
    /\ phase = (IF Selected = <<>> THEN "over" ELSE "try") /\ step = 1 /\ next = 1
    /\ a = Blank /\ root = FALSE /\ kept = {} /\ withdrawn = {}
    /\ artifact = Nothing /\ bases = {} /\ recovered = Nothing
    /\ gateway = FALSE /\ stack = FALSE /\ held = "none" /\ breakdowns = 0
    /\ status = "running" /\ observed = [i \in 1 .. Len(Selected) |-> "none"]

(* Every step but the filling may raise (a command, the file system, the   *)
(* product) and change nothing; docker's and the adapters' own failures    *)
(* are below.                                                              *)
Raise ==
    /\ phase = "try" /\ step <= Len(Program)
    /\ Program[step] \notin {"populate", "up", "down"}
    /\ Thrown
    /\ UNCHANGED <<turnVars, original, copies, services, observed>>

StartGateway ==
    /\ At("gateway") /\ Proceed
    /\ gateway' = TRUE
    /\ UNCHANGED <<turnVars, original, copies, stack, held, breakdowns, status, observed>>

(* _hindsight_stack up to its yield.  When `up` fails or the server does   *)
(* not become healthy, whatever it started stays and no context is left.   *)
Up ==
    /\ At("up")
    /\ \/ /\ Proceed
          /\ stack' = TRUE
          /\ held' = (IF script = "correction" /\ step > 2 THEN "fresh" ELSE "stack")
          /\ UNCHANGED <<breakdowns, status>>
       \/ /\ breakdowns < MaxBreakdowns /\ breakdowns' = breakdowns + 1
          /\ Thrown
          /\ stack' \in {stack, TRUE}
          /\ UNCHANGED held
    /\ UNCHANGED <<turnVars, original, copies, gateway, observed>>

(* `docker compose down -v`: its return code is not looked at, a time-out  *)
(* raises; in either case the context counts as left.                      *)
Leave(Returns, Raises) ==
    /\ held' = "none"
    /\ \/ /\ Returns
          /\ stack' = FALSE /\ a' = [a EXCEPT !.store = {}]
          /\ UNCHANGED breakdowns
       \/ /\ breakdowns < MaxBreakdowns /\ breakdowns' = breakdowns + 1
          /\ Returns \/ Raises
          /\ UNCHANGED <<stack, a>>
    /\ UNCHANGED <<turnVars, root, kept, withdrawn, copies, gateway, observed>>

Down ==
    /\ At("down")
    /\ Leave(Proceed /\ UNCHANGED status,
             phase' = "except" /\ status' = "failed" /\ UNCHANGED <<step, next>>)

(* The adapter is built on a directory of its own, then awaited.           *)
Make ==
    /\ At("make")
    /\ \E r \in NewOf(name, a) :
          /\ Within(r.a)
          /\ a' = r.a
          /\ IF r.raised THEN Thrown ELSE Proceed /\ UNCHANGED status
    /\ root' = TRUE
    /\ UNCHANGED <<turnVars, kept, withdrawn, copies, services, observed>>

AwaitReady ==
    /\ At("ready")
    /\ \E r \in AwaitReadyOf(name, a) : ~r.raised /\ a' = r.a
    /\ Proceed
    /\ UNCHANGED <<turnVars, root, kept, withdrawn, copies, services, status, observed>>

(* _populate: one operation after the other, an exception being a row.     *)
Comes(isDelete) ==
    /\ At("populate") /\ next <= Len(Operations)
    /\ Operations[next].delete = isDelete
    /\ next' = next + 1
    /\ UNCHANGED <<turnVars, phase, step, root, copies, services, status, observed>>

PopulateIngest ==
    /\ Comes(FALSE)
    /\ LET e == Operations[next].event
       IN  \E r \in IngestOf(name, a, {e}) :
              /\ Within(r.a)
              /\ a' = r.a
              /\ kept' = IF r.raised THEN kept ELSE kept \cup {e}
              /\ withdrawn' = IF r.raised THEN withdrawn ELSE withdrawn \ {e}

PopulateDelete ==
    /\ Comes(TRUE)
    /\ LET e == Operations[next].event
       IN  \E r \in DeleteOf(name, a, e) :
              /\ Within(r.a)
              /\ a' = r.a
              /\ kept' = IF r.raised \/ r.value = TRUE THEN kept \ {e} ELSE kept
              /\ withdrawn' = IF ~r.raised /\ r.value = TRUE
                              THEN withdrawn \cup {e} ELSE withdrawn

Populated ==
    /\ At("populate") /\ next > Len(Operations)
    /\ Proceed
    /\ UNCHANGED <<turnVars, original, copies, services, status, observed>>

(* _query_observations: an exception is a row.                             *)
Ask ==
    /\ At("ask")
    /\ \E q \in Queries : \E r \in RetrieveOf(name, a, q) : Within(r.a) /\ a' = r.a
    /\ Proceed
    /\ UNCHANGED <<turnVars, root, kept, withdrawn, copies, services, status, observed>>

(* The product's own export: what it answers from; the correction also     *)
(* copies GBrain's repository, of which a later sync reads the commit.     *)
(* The endpoint the first script asks Hindsight's export of answers with   *)
(* the bank's version only (docs/reports/semantic-memory-exit-v1.md:24).   *)
VersionOnly == script = "v1" /\ name = "hindsight"
Exported ==
    [k \in Kinds |->
        CASE k = "export" -> IF VersionOnly THEN {} ELSE Stored(a)
          [] OTHER -> IF script = "correction" /\ name = "gbrain-ollama" THEN a.head ELSE {}]

Export ==
    /\ At("export") /\ Proceed
    /\ artifact' = Exported
    /\ UNCHANGED <<turnVars, original, bases, recovered, services, status, observed>>

(* The raw copy is kept beside the export and never read.                  *)
CopyRaw ==
    /\ At("copy") /\ Proceed
    /\ UNCHANGED <<turnVars, original, copies, services, status, observed>>

(* The directory is removed, or after some tries is not; either way the    *)
(* script goes on.  Hindsight's memories lie in the stack.                 *)
Removed ==
    \/ /\ root' = FALSE
       /\ a' = IF name = "hindsight" THEN a ELSE [Blank EXCEPT !.faults = a.faults]
    \/ UNCHANGED <<root, a>>

Destroy ==
    /\ At("destroy") /\ Proceed
    /\ Removed
    /\ UNCHANGED <<turnVars, kept, withdrawn, copies, services, status, observed>>

Forget ==                                        \* DELETE of the bank
    /\ At("forget") /\ Proceed
    /\ a' = [a EXCEPT !.store = {}]
    /\ UNCHANGED <<turnVars, root, kept, withdrawn, copies, services, status, observed>>

(* A runtime is built in a directory of its own; the correction imports    *)
(* into the bank of the same name.  The artifact is all that goes in; what *)
(* of it arrived is looked at by neither script, and the first script's    *)
(* GBrain, whose source is not the artifact's, answered with none of it.   *)
Rebuilt(k) ==
    /\ \E r \in NewOf(name, IF script = "correction" /\ name = "hindsight" THEN a ELSE Blank) :
       \E arrived \in SUBSET artifact[k] :
          /\ ~r.raised
          /\ bases' = bases \cup Stored(r.a)
          /\ recovered' = [recovered EXCEPT ![k] = Stored(r.a) \cup arrived]
    /\ Proceed
    /\ UNCHANGED <<turnVars, original, artifact, services, status, observed>>

Rebuild == At("rebuild") /\ Rebuilt("export")
SyncRepository == At("sync") /\ Rebuilt("canonical")

-----------------------------------------------------------------------------
Complete ==
    /\ phase = "try" /\ step > Len(Program)
    /\ phase' = "finally" /\ status' = "completed"
    /\ UNCHANGED <<turnVars, step, next, original, copies, services, observed>>

(* The inner finally of the correction's Hindsight part.                   *)
Unwind ==
    /\ phase = "unwind"
    /\ phase' = "except" /\ UNCHANGED <<step, next, status>>
    /\ Leave(TRUE, TRUE)

(* The first script, and the correction for GBrain, remove what is left of *)
(* the original.  The sum over the gateway's ledger may raise, and so may  *)
(* the correction's removal: the exception leaves the script through the   *)
(* finally.                                                                *)
Except ==
    /\ phase = "except" /\ phase' = "finally"
    /\ \/ /\ IF root /\ (script = "v1" \/ name = "gbrain-ollama")
             THEN Removed ELSE UNCHANGED <<root, a>>
          /\ UNCHANGED status
       \/ /\ script = "correction" \/ name # "gbrain-ollama"
          /\ status' = "raised" /\ UNCHANGED <<root, a>>
    /\ UNCHANGED <<turnVars, step, next, kept, withdrawn, copies, services, observed>>

\* Mutant: the stack is left to the operator.
FinallyGatewayOnly ==
    /\ phase = "finally"
    /\ gateway' = FALSE /\ phase' = "record"
    /\ UNCHANGED <<turnVars, step, next, original, copies, stack, held, breakdowns, status, observed>>

(* The gateway is stopped; an exception on its way out goes on.            *)
StopGateway ==
    \/ /\ gateway' = FALSE
       /\ phase' = IF status = "raised" THEN "over" ELSE "record"
       /\ UNCHANGED breakdowns
    \/ /\ gateway /\ breakdowns < MaxBreakdowns
       /\ breakdowns' = breakdowns + 1 /\ phase' = "over"
       /\ UNCHANGED gateway

(* The stack is left first; if that raises, the gateway is not stopped and *)
(* the observation not written.                                            *)
Finally ==
    /\ phase = "finally"
    /\ IF held # "none"
       THEN Leave(UNCHANGED <<phase, step, next, status>>,
                  phase' = "over" /\ UNCHANGED <<step, next, status>>)
       ELSE /\ StopGateway
            /\ UNCHANGED <<turnVars, step, next, original, copies, stack, held, status, observed>>

(* observation.json; then the next product, or the analysis input.  A      *)
(* failing write leaves the script.                                        *)
Record ==
    /\ phase = "record"
    /\ observed' = [observed EXCEPT ![turn] = status]
    /\ IF turn < Len(Selected)
       THEN /\ turn' = turn + 1 /\ phase' = "try" /\ step' = 1 /\ next' = 1
            /\ a' = Blank /\ root' = FALSE /\ kept' = {} /\ withdrawn' = {}
            /\ artifact' = Nothing /\ bases' = {} /\ recovered' = Nothing
            /\ status' = "running"
       ELSE phase' = "over" /\ UNCHANGED <<turn, step, next, original, copies, status>>
    /\ UNCHANGED <<script, services>>

RecordFails ==
    /\ phase = "record" /\ phase' = "over"
    /\ observed' = [observed EXCEPT ![turn] = "unwritten"]
    /\ UNCHANGED <<turnVars, step, next, original, copies, services, status>>

Next ==
    \/ Raise \/ StartGateway \/ Up \/ Down \/ Make \/ AwaitReady
    \/ PopulateIngest \/ PopulateDelete \/ Populated \/ Ask \/ Export \/ CopyRaw \/ Destroy \/ Forget
    \/ Rebuild \/ SyncRepository
    \/ Complete \/ Unwind \/ Except \/ Finally \/ Record \/ RecordFails

Spec == Init /\ [][Next]_vars

-----------------------------------------------------------------------------
(* The result of an exit that counts as completed is about the memory that *)
(* was recorded as stored, rebuilt from the artifact and nothing else,     *)
(* whatever failed on the way: all that was stored and not withdrawn       *)
(* outlived the original in the artifact (but for the version the first    *)
(* script gets of Hindsight, and Mem0, whose inference may keep nothing);  *)
(* each new runtime was empty and holds nothing that is not from the       *)
(* artifact; and nothing withdrawn has come back (a failed add of Mem0     *)
(* leaves memories that no deletion reaches).  How much of the artifact a  *)
(* product's import took in, no step of a script finds out.                *)
Reached == {k \in Kinds : k = "export" \/ (script = "correction" /\ name = "gbrain-ollama")}
ExitKeepsMemory ==
    status = "completed" =>
        /\ bases = {}
        /\ \A k \in Reached :
              /\ name # "mem0-native" /\ ~VersionOnly => kept \subseteq artifact[k]
              /\ recovered[k] \subseteq artifact[k]
              /\ name # "mem0-native" \/ a.faults = 0 => recovered[k] \cap withdrawn = {}

(* docs/reports/semantic-memory-exit-v1.md:148-150 gives the recovery      *)
(* runtime of each completed exit of the first script as "recovered".      *)
RuntimeRecovered ==
    status = "completed" /\ name # "mem0-native" => kept \subseteq recovered["export"]

(* Whatever fails, the next product finds neither a gateway nor a stack,   *)
(* unless docker itself failed; a gateway outlives its product, and a      *)
(* completed exit goes unrecorded, only when leaving the stack, or         *)
(* stopping the gateway, raised; or when the record could not be written.  *)
NothingLeftRunning ==
    phase \in {"record", "over"} =>
        /\ stack => breakdowns > 0
        /\ gateway => phase = "over" /\ breakdowns > 0
        /\ status = "completed" /\ phase = "over" /\ breakdowns = 0 =>
              observed[turn] \in {"completed", "unwritten"}
=============================================================================
