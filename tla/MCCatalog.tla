----------------------------- MODULE MCCatalog -----------------------------
(***************************************************************************)
(* A small instance of ModelCatalog.                                       *)
(***************************************************************************)
EXTENDS ModelCatalog

Entry == [id |-> "openrouter/free", free |-> TRUE, router |-> TRUE, structured |-> TRUE,
          quick |-> FALSE, reasoning |-> FALSE, context |-> "long"]
Sonnet == [Entry EXCEPT !.id = "claude", !.free = FALSE, !.router = FALSE, !.reasoning = TRUE]
Haiku == [Entry EXCEPT !.id = "haiku", !.free = FALSE, !.router = FALSE, !.quick = TRUE]
Llama == [Entry EXCEPT !.id = "llama3.2", !.router = FALSE]

Routed == [Entry EXCEPT !.context = "middle"]

Rescue == <<Entry, Sonnet, Llama>>
OpenRouterLists == {<<Haiku>>, <<Routed>>}
OllamaLists == {<<Llama>>}

\* The interfaces do not differ.
Interchangeable == Permutations(Process)
=============================================================================
