-------------------------- MODULE ProviderAdapters --------------------------
(***************************************************************************)
(* The provider contract of benchmark/providers.py as its callers meet it: *)
(* the checkpoint loop, the capability runner and the compliance suite     *)
(* build an adapter object on a data directory and call its operations one *)
(* after the other.  The directory, and what the product keeps for it,     *)
(* outlives the object: every attempt of a participant uses the same one.  *)
(*                                                                         *)
(* Modelled: the ten products of providers/, their failures, the order of  *)
(* writes to the product's stores and the adapter's lists.  Abstracted:    *)
(* what a search finds (any stored events), texts, scores and timing.  An  *)
(* exception ends the use of an object, as it ends the attempt that called *)
(* it.                                                                     *)
(***************************************************************************)
EXTENDS Adapters

CONSTANT MaxLives     \* bound on the adapter objects built on the directory

ASSUME LivesAssumption == MaxLives \in Nat

VARIABLES product,    \* the adapter
          a,          \* its state and the product's
          closed,     \* no object, it was cleaned up, or an exception left a call
          lives,      \* objects built so far
          given,      \* events whose storing the caller was told of, less those
                      \* whose deletion it was told of
          deleted,    \* events whose deletion was called and returned
          found,      \* what the last call retrieved, and
          asked,      \* the query it retrieved for, or no query
          saved,      \* the last snapshot or export; the caller keeps one
          imported    \* this object was filled by import_data

vars == <<product, a, closed, lives, given, deleted, found, asked, saved, imported>>

-----------------------------------------------------------------------------
NoAnswer == found' = {} /\ asked' = {}

(* One of the outcomes, within the bounds.                                 *)
Outcome(r) ==
    /\ Within(r.a)
    /\ a' = r.a /\ closed' = r.raised

Init ==
    /\ product \in Products
    /\ a = Blank /\ closed = TRUE /\ lives = 0
    /\ given = {} /\ deleted = {} /\ found = {} /\ asked = {}
    /\ saved = [kind |-> "none", events |-> {}, keys |-> {}]
    /\ imported = FALSE

(* An attempt, or a check, builds a new object on the directory.           *)
New ==
    /\ lives < MaxLives
    /\ \E r \in NewOf(product, a) : Outcome(r)
    /\ lives' = lives + 1
    /\ given' = {} /\ deleted' = {} /\ imported' = FALSE
    /\ NoAnswer /\ UNCHANGED <<product, saved>>

Reset ==
    /\ ~closed
    /\ \E r \in ResetOf(product, a) : Outcome(r)
    /\ given' = {} /\ deleted' = {} /\ imported' = FALSE
    /\ NoAnswer /\ UNCHANGED <<product, lives, saved>>

Ingest(batch) ==
    /\ ~closed
    /\ \E r \in IngestOf(product, a, batch) : Outcome(r)
    /\ given' = given \cup batch
    /\ deleted' = deleted \ batch
    /\ NoAnswer /\ UNCHANGED <<product, lives, saved, imported>>

AwaitReady ==
    /\ ~closed
    /\ \E r \in AwaitReadyOf(product, a) : Outcome(r)
    /\ NoAnswer /\ UNCHANGED <<product, lives, given, deleted, saved, imported>>

(* The caller does not look at what delete returns.                        *)
Delete(e) ==
    /\ ~closed
    /\ \E r \in DeleteOf(product, a, e) :
          /\ Outcome(r)
          /\ given' = IF r.raised \/ r.value = FALSE THEN given ELSE given \ {e}
          /\ deleted' = IF r.raised THEN deleted ELSE deleted \cup {e}
    /\ NoAnswer /\ UNCHANGED <<product, lives, saved, imported>>

Retrieve(q) ==
    /\ ~closed
    /\ \E r \in RetrieveOf(product, a, q) : Outcome(r) /\ found' = r.value
    /\ asked' = {q}
    /\ UNCHANGED <<product, lives, given, deleted, saved, imported>>

Snapshot ==
    /\ ~closed
    /\ saved' = [kind |-> "snapshot", events |-> SnapshotOf(product, a).events, keys |-> {}]
    /\ NoAnswer /\ UNCHANGED <<product, a, closed, lives, given, deleted, imported>>

Restore ==
    /\ ~closed /\ saved.kind = "snapshot"
    /\ \E r \in RestoreOf(product, a, saved) : Outcome(r)
    /\ given' = saved.events /\ deleted' = {} /\ imported' = FALSE
    /\ NoAnswer /\ UNCHANGED <<product, lives, saved>>

Export ==
    /\ ~closed /\ product \in Exporting
    /\ LET x == ExportOf(product, a)
       IN  saved' = [kind |-> "export", events |-> x.events, keys |-> x.keys]
    /\ NoAnswer /\ UNCHANGED <<product, a, closed, lives, given, deleted, imported>>

ImportData ==
    /\ ~closed /\ product \in Exporting /\ saved.kind = "export"
    /\ \E r \in ImportOf(product, a, saved) : Outcome(r)
    /\ given' = saved.events /\ deleted' = {} /\ imported' = TRUE
    /\ NoAnswer /\ UNCHANGED <<product, lives, saved>>

Restart ==
    /\ ~closed /\ product \in Exporting
    /\ \E r \in RestartOf(product, a) : Outcome(r)
    /\ NoAnswer /\ UNCHANGED <<product, lives, given, deleted, saved, imported>>

(* Called at the end of every attempt, whatever came before.               *)
Cleanup ==
    /\ lives > 0
    /\ \E r \in CleanupOf(product, a) : Within(r.a) /\ a' = r.a
    /\ closed' = TRUE
    /\ NoAnswer /\ UNCHANGED <<product, lives, given, deleted, saved, imported>>

Next ==
    \/ New \/ Reset \/ AwaitReady
    \/ \E batch \in (SUBSET Events) \ {{}} : Ingest(batch)
    \/ \E e \in Events : Delete(e)
    \/ \E q \in Queries : Retrieve(q)
    \/ Snapshot \/ Restore \/ Export \/ ImportData \/ Restart \/ Cleanup

Spec == Init /\ [][Next]_vars

-----------------------------------------------------------------------------
TypeOK ==
    /\ product \in Products
    /\ a \in AdapterStates
    /\ closed \in BOOLEAN /\ imported \in BOOLEAN
    /\ lives \in 0 .. MaxLives
    /\ given \in SUBSET Events /\ deleted \in SUBSET Events /\ found \in SUBSET Events
    /\ asked \in SUBSET Queries
    /\ saved.kind \in {"none", "snapshot", "export"}
    /\ saved.events \in SUBSET Events /\ saved.keys \in SUBSET Memories

(* The memory, as the adapter lists it, is what its caller gave it and has *)
(* not been told is deleted, whatever failed on the way; SQLite's rows are *)
(* among the listed events.                                                *)
ListMirrorsCalls ==
    ~closed /\ product \notin Fixed =>
        /\ a.listed = given
        /\ product = "bm25-sqlite-fts" => Stored(a) \subseteq a.listed

(* Nothing an earlier object left in the store, nothing withdrawn, and     *)
(* nothing the query may not see is ever answered.                         *)
AnswersAreCurrent ==
    /\ product # "oracle" => found \subseteq given
    /\ product \notin {"optmem-native", "oracle"} =>
          \A q \in asked : found \subseteq Visible[q]

(* An event whose deletion was called and returned is not answered before  *)
(* it is given again; with Mem0 as long as nothing failed, and with its    *)
(* inference, which may keep no fact of an event and so no key to delete   *)
(* by, neither after an import nor on a directory an earlier object used.  *)
DeletedNotFound ==
    /\ product \in Mem0s => a.faults = 0
    /\ product = "mem0-native" => lives = 1 /\ ~imported
    /\ product # "oracle"
    => found \cap deleted = {}

(* List and store, and the three stores of GBrain, agree.                  *)
InStep ==
    /\ Stored(a) \subseteq a.listed
    /\ product \in Exporting \ {"mem0-native"} => Stored(a) = a.listed
    /\ product \in Mem0s => a.keys = a.store
    /\ product \in GBrains => a.pages = a.head /\ a.head = Stored(a)

(* As long as nothing fails, no sequence of calls on an object drives list *)
(* and store apart; excepted are import_data and GBrain's home without a   *)
(* source, which a failed set-up left and the next object takes for ready. *)
StaysInStep ==
    [][/\ InStep /\ a'.faults = a.faults /\ lives' = lives /\ ~imported'
       /\ a.home # "unsourced"
       => InStep']_vars

(* A reset that returns without a new failure brings list and store back   *)
(* in step whatever failed before (a batch half stored, a page unlinked    *)
(* but not committed, a list ahead of its rows); Mem0's only while its     *)
(* Memory is open.                                                         *)
ResetHeals ==
    [][/\ ~closed' /\ a'.faults = a.faults
       /\ product \in Mem0s => a.open
       /\ Reset
       => InStep']_vars

(* benchmark/providers.py:93 says that reset returns the provider to an    *)
(* empty, fresh state.                                                     *)
ResetIsFresh == [][~closed' /\ Reset => Stored(a') = {}]_vars

(* Building an object on a directory an interrupted run left partial works *)
(* unless the product itself fails again.                                  *)
PartialHomeRecovered ==
    [][lives' # lives /\ a'.faults = a.faults /\ product # "gbrain-ollama" => ~closed']_vars
=============================================================================
