------------------------------ MODULE Adapters -------------------------------
(***************************************************************************)
(* The ten adapters of providers/, two of them in two variants each, by    *)
(* the name the registry and the scripts give them: which adapter's        *)
(* operation is called for which product.                                  *)
(***************************************************************************)
EXTENDS AdapterState

CONSTANTS Products,   \* the adapters under study
          TooLong, TopK, SampleSize, Gold,
          Available   \* Available[q]: events with available_at <= q.as_of

Mem0 == INSTANCE Mem0Adapter
Hindsight == INSTANCE HindsightAdapter
GBrain == INSTANCE GBrainAdapter
OptMem == INSTANCE OptMemAdapter
Lexical == INSTANCE LexicalProviders
Control == INSTANCE ControlProviders

Mem0s == {"mem0", "mem0-native"}
GBrains == {"gbrain", "gbrain-ollama"}
OptMems == {"optmem", "optmem-native"}
Lists == {"full-context", "random-retrieval"}
Fixed == {"no-memory", "oracle"}
Exporting == Mem0s \cup GBrains \cup OptMems \cup {"hindsight"}
AllProducts == Exporting \cup Lists \cup Fixed \cup {"bm25-sqlite-fts", "bm25-pure"}

ASSUME ProductsAssumption == Products \subseteq AllProducts
ASSUME GoldAssumption == Gold \in [Queries -> SUBSET Events]

Infer(p) == p = "mem0-native"
Ollama(p) == p = "gbrain-ollama"

-----------------------------------------------------------------------------
(* The operations of product p in state s.                                 *)
NewOf(p, s) ==
    CASE p \in Mem0s -> Mem0!New(s)
      [] p = "hindsight" -> Hindsight!New(s)
      [] p \in GBrains -> GBrain!New(s, Ollama(p))
      [] p \in OptMems -> OptMem!New(s)
      [] p = "bm25-sqlite-fts" -> Lexical!FtsNew(s)
      [] p = "bm25-pure" -> Lexical!PureNew(s)
      [] p \in Lists \cup Fixed -> Control!ListNew(s)

ResetOf(p, s) ==
    CASE p \in Mem0s -> Mem0!Reset(s)
      [] p = "hindsight" -> Hindsight!Reset(s)
      [] p \in GBrains -> GBrain!Reset(s, Ollama(p))
      [] p \in OptMems -> OptMem!Reset(s)
      [] p = "bm25-sqlite-fts" -> Lexical!FtsReset(s)
      [] p = "bm25-pure" -> Lexical!PureReset(s)
      [] p \in Lists \cup Fixed -> Control!ListReset(s)

IngestOf(p, s, batch) ==
    CASE p \in Mem0s -> Mem0!Ingest(s, batch, Infer(p))
      [] p = "hindsight" -> Hindsight!Ingest(s, batch)
      [] p \in GBrains -> GBrain!Ingest(s, batch)
      [] p \in OptMems -> OptMem!Ingest(s, batch)
      [] p = "bm25-sqlite-fts" -> Lexical!FtsIngest(s, batch)
      [] p = "bm25-pure" -> Lexical!PureIngest(s, batch)
      [] p \in Lists -> Control!ListIngest(s, batch)
      [] p \in Fixed -> Control!FixedIngest(s, batch)

AwaitReadyOf(p, s) ==
    CASE p \in Mem0s -> Mem0!AwaitReady(s)
      [] p = "hindsight" -> Hindsight!AwaitReady(s)
      [] p \in GBrains -> GBrain!AwaitReady(s)
      [] OTHER -> OptMem!AwaitReady(s)        \* "sync": nothing to wait for

DeleteOf(p, s, e) ==
    CASE p \in Mem0s -> Mem0!Delete(s, e)
      [] p = "hindsight" -> Hindsight!Delete(s, e)
      [] p \in GBrains -> GBrain!Delete(s, e)
      [] p \in OptMems -> OptMem!Delete(s, e)
      [] p = "bm25-sqlite-fts" -> Lexical!FtsDelete(s, e)
      [] p = "bm25-pure" -> Lexical!PureDelete(s, e)
      [] p \in Lists -> Control!ListDelete(s, e)
      [] p \in Fixed -> Control!FixedDelete(s, e)

RetrieveOf(p, s, q) ==
    CASE p \in Mem0s -> Mem0!Retrieve(s, q)
      [] p = "hindsight" -> Hindsight!Retrieve(s, q)
      [] p \in GBrains -> GBrain!Retrieve(s, q)
      [] p \in OptMems -> OptMem!Retrieve(s, q, p = "optmem")
      [] p = "bm25-sqlite-fts" -> Lexical!FtsRetrieve(s, q)
      [] p = "bm25-pure" -> Lexical!PureRetrieve(s, q)
      [] p = "full-context" -> Control!FullRetrieve(s, q)
      [] p = "random-retrieval" -> Control!RandomRetrieve(s, q)
      [] p = "no-memory" -> Control!NoMemoryRetrieve(s, q)
      [] p = "oracle" -> Control!OracleRetrieve(s, q, Available[q])

SnapshotOf(p, s) ==
    CASE p \in Mem0s -> Mem0!Snapshot(s)
      [] p = "hindsight" -> Hindsight!Snapshot(s)
      [] p \in GBrains -> GBrain!Snapshot(s)
      [] p \in OptMems -> OptMem!Snapshot(s)
      [] p = "bm25-sqlite-fts" -> Lexical!FtsSnapshot(s)
      [] p = "bm25-pure" -> Lexical!PureSnapshot(s)
      [] p \in Lists -> Control!ListSnapshot(s)
      [] p \in Fixed -> Control!FixedSnapshot(s)

RestoreOf(p, s, sn) ==
    CASE p \in Mem0s -> Mem0!Restore(s, sn, Infer(p))
      [] p = "hindsight" -> Hindsight!Restore(s, sn)
      [] p \in GBrains -> GBrain!Restore(s, sn, Ollama(p))
      [] p \in OptMems -> OptMem!Restore(s, sn)
      [] p = "bm25-sqlite-fts" -> Lexical!FtsRestore(s, sn)
      [] p = "bm25-pure" -> Lexical!PureRestore(s, sn)
      [] p \in Lists -> Control!ListRestore(s, sn)
      [] p \in Fixed -> Control!FixedRestore(s, sn)

ExportOf(p, s) ==
    CASE p \in Mem0s -> Mem0!Export(s)
      [] p = "hindsight" -> Hindsight!Export(s)
      [] p \in GBrains -> GBrain!Export(s)
      [] p \in OptMems -> OptMem!Export(s)

ImportOf(p, s, data) ==
    CASE p \in Mem0s -> Mem0!ImportData(s, data, Infer(p))
      [] p = "hindsight" -> Hindsight!ImportData(s, data)
      [] p \in GBrains -> GBrain!ImportData(s, data, Ollama(p))
      [] p \in OptMems -> OptMem!ImportData(s, data)

(* Only Mem0 does anything at a restart; all others keep no connection.    *)
RestartOf(p, s) == IF p \in Mem0s THEN Mem0!Restart(s) ELSE {Returned(s, {})}

CleanupOf(p, s) ==
    CASE p \in Mem0s -> Mem0!Cleanup(s)
      [] p \in GBrains -> GBrain!Cleanup(s)
      [] OTHER -> {Returned(s, {})}
=============================================================================
