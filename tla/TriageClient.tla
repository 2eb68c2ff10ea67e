---------------------------- MODULE TriageClient ----------------------------
(***************************************************************************)
(* A request to a language model (agent/internal/infrastructure/ai/        *)
(* triage.go): which model it goes to, and the text the caller gets back,  *)
(* where a failure is a text like an answer is.  The use case that made    *)
(* the request tells the two apart by the phrases in it                    *)
(* (agent/internal/core/usecases/diagnose_container.go).                   *)
(***************************************************************************)
EXTENDS FiniteSets

Slot == {"fast", "deep"}

\* AvailableProviders: those that ask for a key, and those that do not.
Keyed == {"openrouter", "openai", "anthropic"}
Keyless == {"ollama", "vllm", "lmstudio", "custom"}
Provider == Keyed \union Keyless

-----------------------------------------------------------------------------
(* Where the request goes.                                                 *)

NoModel == [id |-> "", provider |-> ""]
FreeRouter == [id |-> "openrouter/free", provider |-> "openrouter"]
DefaultSlotPolicy == [s \in Slot |-> FreeRouter]

\* The operator's choice for the slot, when there is one.
GetAssignedModel(slot, policy) ==
  IF policy[slot] # NoModel THEN policy[slot] ELSE DefaultSlotPolicy[slot]

\* DiagnoseContainerWithSlot.  Without a slot the selection mode decides.  A slot always
\* has a model, so the catalogue that would stand in is never asked.
ContainerModel(slot, selection, severe, policy, active) ==
  LET chosen == IF slot \in Slot THEN slot
                ELSE IF selection = "auto" THEN IF severe THEN "deep" ELSE "fast"
                ELSE selection
  IN IF chosen \in Slot THEN GetAssignedModel(chosen, policy) ELSE active

\* DiagnoseIncident: a copy of that choice, without the mode.
IncidentModel(slot, policy) ==
  GetAssignedModel(IF slot \in Slot THEN slot ELSE "deep", policy)

-----------------------------------------------------------------------------
(* What comes back.                                                        *)

\* How the request can end; "answer" is text from the model, "empty" none.
Failure ==
  {"no key", "encoding", "address", "timeout", "network", "busy", "status",
   "unreadable", "inconclusive", "empty"}
Outcome == Failure \union {"answer"}

Text(head, has) == [head |-> head, has |-> has]

\* The failures the three callers word alike: callAnthropic, callOpenAI, callOllama.
CommonFailure(outcome) ==
  CASE outcome = "no key" -> Text("diagnostico no configurado", {})
    [] outcome = "encoding" -> Text("error serializando", {})
    [] outcome = "address" -> Text("error preparando", {})
    [] outcome = "unreadable" -> Text("error leyendo", {})
    [] outcome = "inconclusive" -> Text("respuesta no concluyente", {})
    [] outcome = "empty" -> Text("", {})

CallAnthropic(outcome) ==
  CASE outcome \in {"timeout", "network"} -> Text("diagnostico no disponible", {"no disponible"})
    [] outcome \in {"busy", "status"} -> Text("anthropic no disponible", {"no disponible"})
    [] OTHER -> CommonFailure(outcome)

CallOpenAI(outcome) ==
  CASE outcome \in {"timeout", "network"} -> Text("diagnostico no disponible", {"no disponible"})
    [] outcome = "busy" -> Text("cuota saturada", {})
    [] outcome = "status" -> Text("modelo no disponible", {"no disponible"})
    [] OTHER -> CommonFailure(outcome)

CallOllama(outcome) ==
  CASE outcome = "timeout" -> Text("ollama no responde", {})
    [] outcome = "network" -> Text("ollama local no disponible", {"no disponible"})
    [] outcome \in {"busy", "status"} -> Text("ollama error", {})
    [] OTHER -> CommonFailure(outcome)

FailureText(provider, outcome) ==
  CASE provider = "anthropic" -> CallAnthropic(outcome)
    [] provider = "ollama" -> CallOllama(outcome)
    [] OTHER -> CallOpenAI(outcome)

\* A slip of IsAIFailure: only the start of the text is looked at.
IsAIFailureByStart(text) ==
  text.head \in {"", "error al", "error conectando", "error preparando", "error leyendo",
                 "error serializando", "error http", "diagnostico no configurado"}

\* isAIFailure: a failure by how the text starts, or by what is anywhere in it.
IsAIFailure(text) ==
  \/ text.head \in {"", "error al", "error conectando", "error preparando", "error leyendo",
                    "error serializando", "error http"}
  \/ (text.has \union {text.head}) \intersect
       {"diagnostico no configurado", "no disponible", "tiempo de espera agotado",
        "cuota saturada", "respuesta no concluyente", "401 unauthorized",
        "429 too many requests"} # {}

-----------------------------------------------------------------------------
(* Properties.                                                             *)

LOCAL Chosen == {[id |-> p, provider |-> p] : p \in {"ollama", "anthropic"}}

\* The two copies of the choice of a model agree: for a slot that is named, an incident
\* and a container are diagnosed by one model, the operator's if he chose.  And a
\* failed request is taken for one whichever provider failed, in every way it can
\* fail; but Ollama's timeout and its HTTP errors pass for an answer.
RequestsExact ==
  /\ \A slot \in Slot, policy \in [Slot -> Chosen \union {NoModel}], active \in Chosen,
        selection \in {"auto", "fast", "deep", "manual"}, severe \in BOOLEAN :
       /\ ContainerModel(slot, selection, severe, policy, active) = IncidentModel(slot, policy)
       /\ policy[slot] # NoModel => IncidentModel(slot, policy) = policy[slot]
  /\ \A p \in Provider, o \in Failure :
       \/ IsAIFailure(FailureText(p, o))
       \/ p = "ollama" /\ o \in {"timeout", "busy", "status"}
=============================================================================
