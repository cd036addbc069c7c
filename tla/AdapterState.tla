---------------------------- MODULE AdapterState ----------------------------
(***************************************************************************)
(* What a provider adapter under providers/ keeps, and the outcomes of its *)
(* calls.  An adapter object holds a list of the events it believes its    *)
(* product remembers; the product holds memories of its own, reached       *)
(* through an SDK, HTTP, a command line or SQLite.  Every operation of an  *)
(* adapter is written as the set of its outcomes: the new state, whether   *)
(* an exception left the call, and the value returned.                     *)
(*                                                                         *)
(* Event numbers follow (available_at, event_id), so that sorting a batch  *)
(* is reading its numbers in order.  A memory is <<event, id>>: the event  *)
(* it was made from and the identity the product gave it.                  *)
(***************************************************************************)
EXTENDS Naturals, FiniteSets

CONSTANTS Events,   \* the events of a pack
          Queries,  \* the queries asked
          Visible,  \* Visible[q]: the events q may see (as_of, principal, scope)
          MaxIds,   \* bound on the identities a product gives out
          MaxFaults \* bound on the failures of a product's calls

ASSUME AdapterAssumption ==
    /\ Events \subseteq Nat /\ IsFiniteSet(Events)
    /\ Visible \in [Queries -> SUBSET Events]
    /\ MaxIds \in Nat /\ MaxFaults \in Nat

Memories == Events \X Nat
Homes == {"none", "bare", "partial", "unsourced", "ready"}

(* listed is _events (and the ids in _seen); store is what the product     *)
(* answers from; keys is Mem0's event_memory_ids; pages, head and home are *)
(* GBrain's page files, last commit and home directory, trash whether the  *)
(* directory its Ollama variant renames a partial home to exists; open is  *)
(* Mem0's _memory; made counts the identities given out.                   *)
AdapterStates ==
    [listed : SUBSET Events, store : SUBSET Memories, keys : SUBSET Memories,
     pages : SUBSET Events, head : SUBSET Events, home : Homes,
     trash : BOOLEAN, open : BOOLEAN, made : 0 .. MaxIds, faults : 0 .. MaxFaults]

Blank == [listed |-> {}, store |-> {}, keys |-> {}, pages |-> {}, head |-> {},
          home |-> "none", trash |-> FALSE, open |-> FALSE, made |-> 0, faults |-> 0]

Stored(a) == {m[1] : m \in a.store}
Failing(a) == [a EXCEPT !.faults = @ + 1]

Within(a) == a.faults <= MaxFaults /\ a.made <= MaxIds   \* the two bounds

Returned(a, v) == [a |-> a, raised |-> FALSE, value |-> v]
Refused(a) == [a |-> a, raised |-> TRUE, value |-> {}]   \* raised by the adapter itself
RaisedFrom(a) == Refused(Failing(a))                     \* raised by the product

(* A call of two parts: the second runs when the first has returned, and   *)
(* may use what it returned.                                               *)
ThenWith(first, Second(_, _)) ==
    UNION {IF r.raised THEN {r} ELSE Second(r.a, r.value) : r \in {x \in first : Within(x.a)}}
Then(first, Second(_)) == ThenWith(first, LAMBDA a, v : Second(a))
=============================================================================
