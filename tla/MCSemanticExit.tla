---------------------------- MODULE MCSemanticExit -----------------------------
(* SemanticExit with three events, the first of which is withdrawn before  *)
(* the third comes.                                                        *)
EXTENDS SemanticExit, TLC

CONSTANT all

MCEvents == {1, 2, 3}
MCQueries == {all}
MCVisible == all :> {1, 2, 3}
MCSelected == <<"hindsight", "mem0-native", "gbrain-ollama">>
Ingest(e) == [event |-> e, delete |-> FALSE]
Withdraw(e) == [event |-> e, delete |-> TRUE]
MCOperations == <<Ingest(1), Ingest(2), Withdraw(1), Ingest(3)>>
=============================================================================
