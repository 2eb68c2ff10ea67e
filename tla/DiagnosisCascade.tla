-------------------------- MODULE DiagnosisCascade --------------------------
(***************************************************************************)
(* The diagnosis of containers in the terminal interface:                  *)
(*   agent/internal/delivery/tui/model.go, update.go   who asks, and what  *)
(*                                             becomes of the result       *)
(*   agent/internal/core/usecases/diagnose_container.go   the cascade: a   *)
(*                    model, a deeper one, the local rules, the bare signal *)
(* The handlers of the interface run on one goroutine.  A diagnosis is a   *)
(* goroutine of its own; they share the journal, step by step, and the map *)
(* of re-executed events.                                                  *)
(***************************************************************************)
EXTENDS CrashJournal, TriageClient, AIResponseParser, LocalRules

CONSTANTS
  Unreadable,   \* the containers whose inspection may fail
  Route,        \* the providers the slots may be assigned to
  StatusOf,     \* StatusOf[k]: what the rules read of a status of kind k
  MaxCalls      \* bound: the diagnoses of the model

ASSUME CascadeAssumption ==
  /\ Unreadable \subseteq Container /\ Route \subseteq Provider
  /\ MaxCalls \in Nat

VARIABLES
  fleet,        \* fleet[c]: the kind of its last change and when that was
  past,         \* history: past[c][k]: how often c changed to kind k
  shown,        \* the snapshots on the screen (metrics)
  mode,         \* the selection mode: "manual", or another, which are alike here
  calls,        \* calls[i]: the i-th diagnosis, from its start to its result
  pending,      \* the containers waiting for a model (triagePending)
  cached,       \* ... that have its answer (diagnosisCache)
  metered,      \* the requests the session's meter shows (AIMeter)
  reExecuted    \* the crashes a deeper model was asked about

fleetVars == <<now, fleet, past>>
interfaceVars == <<shown, mode, pending, cached, metered>>
vars == <<fleetVars, journalVars, interfaceVars, calls, reExecuted>>

CallId == 1 .. MaxCalls
NoSnapshot == [container |-> "", kind |-> "", ago |-> 0, stamp |-> 0]
Unused ==
  [phase |-> "unused", snapshot |-> NoSnapshot, local |-> FALSE, level |-> "SIG",
   deepened |-> FALSE, recurrent |-> FALSE, used |-> 0]

Init ==
  /\ JournalInit
  /\ fleet \in [Container -> [kind : Kind, since : {1}]]
  /\ past = [c \in Container |-> [k \in Kind |-> IF k = fleet[c].kind THEN 1 ELSE 0]]
  /\ shown = [c \in Container |-> NoSnapshot]
  /\ mode \in {"auto", "manual"}
  /\ calls = [i \in CallId |-> Unused]
  /\ pending = {} /\ cached = {} /\ metered = 0 /\ reExecuted = {}

-----------------------------------------------------------------------------
(* The containers and the collections.                                     *)

Tick ==
  /\ now < MaxTime
  /\ now' = now + 1
  /\ UNCHANGED <<fleet, past, journalVars, interfaceVars, calls, reExecuted>>

\* A container crashes, is started, ...: at most once an instant.
ChangeState(c) ==
  /\ fleet[c].since < now
  /\ \E k \in Kind :
       /\ fleet' = [fleet EXCEPT ![c] = [kind |-> k, since |-> now]]
       /\ past' = [past EXCEPT ![c][k] = @ + 1]
  /\ UNCHANGED <<now, journalVars, interfaceVars, calls, reExecuted>>

\* A collection reads the time of the last change, or only the text's "... ago".
Seen(c, unread) ==
  [container |-> c, kind |-> fleet[c].kind,
   ago |-> IF unread THEN now - fleet[c].since ELSE 0,
   stamp |-> IF unread THEN 0 ELSE fleet[c].since]

-----------------------------------------------------------------------------
(* Who asks for a diagnosis.                                               *)

\* isAnomalous: any status text but the bare "running".
Anomalous(s) == s # NoSnapshot /\ s.kind # "running"

Start(s, local) ==
  \E i \in CallId :
    /\ calls[i].phase = "unused" /\ \A j \in 1 .. i - 1 : calls[j].phase # "unused"
    /\ calls' = [calls EXCEPT ![i] =
         [Unused EXCEPT !.snapshot = s, !.local = local,
                        !.phase = IF local THEN "record" ELSE "fast",
                        !.level = LocalVerdict(StatusOf[s.kind], {}).level]]

MayAsk(c, force) == c \notin pending /\ (force \/ c \notin cached)

\* triggerTriage: the rules at once, or a model unless it has answered or is asked.
TriggerTriage(s, force) ==
  \/ /\ Anomalous(s) /\ mode = "manual" /\ ~force
     /\ Start(s, TRUE)
     /\ UNCHANGED pending
  \/ /\ Anomalous(s) /\ (mode # "manual" \/ force)
     /\ MayAsk(s.container, force)
     /\ Start(s, FALSE)
     /\ pending' = pending \union {s.container}
  \/ /\ \/ ~Anomalous(s)
        \/ (mode # "manual" \/ force) /\ ~MayAsk(s.container, force)
     /\ UNCHANGED <<calls, pending>>

\* []ContainerMetric: what a collection saw arrives; the cursor is on some container.
\* The collection is part of the step: DockerCollector has those that overlap.
Metrics(unread) ==
  /\ shown' = [c \in Container |-> Seen(c, c \in unread)]
  /\ RecordAll({s \in {shown'[c] : c \in Container} : Anomalous(s)}, NoDiagnosis)
  /\ \E c \in Container : TriggerTriage(shown'[c], FALSE)
  /\ UNCHANGED <<fleetVars, mode, cached, metered, reExecuted>>

\* The cursor moves to c, or the diagnosis of c is opened or forced.
Key(c, force) ==
  /\ shown[c] # NoSnapshot
  /\ TriggerTriage(shown[c], force)
  /\ UNCHANGED <<fleetVars, journalVars, shown, mode, cached, metered, reExecuted>>

\* tab: the next selection mode.
Tab ==
  /\ mode' = IF mode = "manual" THEN "auto" ELSE "manual"
  /\ UNCHANGED <<fleetVars, journalVars, shown, pending, cached, metered, calls,
                 reExecuted>>

\* A model or a key is assigned: the answers of the former one are dropped.
Assign ==
  /\ cached' = {}
  /\ UNCHANGED <<fleetVars, journalVars, shown, mode, pending, metered, calls,
                 reExecuted>>

-----------------------------------------------------------------------------
(* The cascade: executeCascadeRaw, then enrichWithRecurrence.              *)

\* What a model answers: an object complete or not, or prose; one that speaks
\* of something "no disponible" reads like a failure.
Answers ==
  [wellFormed : BOOLEAN, severity : {"critical", "info"}, confidence : {"high", "absent"},
   has : {{}, {"no disponible"}}]

\* A reply as the cascade sees it: whether its text passes for a failure, and the
\* diagnosis read from it otherwise.
Failed(p, outcome) ==
  [refused |-> IsAIFailure(FailureText(p, outcome)), diagnosis |-> FallbackPartial]

Answered(k, a) ==
  [refused |-> IsAIFailure(Text("{", a.has)),
   diagnosis |-> Parse(a.wellFormed,
                       [rootCause |-> "text", severity |-> a.severity, action |-> "none",
                        confidence |-> a.confidence],
                       ParseExitCode(StatusOf[k]) > 0)]

Replies ==
  [k \in Kind |->
     {Failed(p, o) : p \in Route, o \in Failure} \union {Answered(k, a) : a \in Answers}]

KeepInterface == UNCHANGED <<fleetVars, interfaceVars>>

\* A critical diagnosis that is trusted goes on to the deeper model.
Deepens(r) ==
  /\ ~r.refused /\ r.diagnosis.level = "AI"
  /\ r.diagnosis.severity = "critical" /\ r.diagnosis.confidence # "low"

\* The fast model's reply: a failure degrades to the local verdict.
FastReply(i) ==
  /\ calls[i].phase = "fast"
  /\ \E r \in Replies[calls[i].snapshot.kind] :
       calls' = [calls EXCEPT ![i] =
         [@ EXCEPT !.used = IF r.refused THEN 0 ELSE 1,
                   !.level = IF r.refused THEN calls[i].level ELSE r.diagnosis.level,
                   !.phase = IF Deepens(r) THEN "check" ELSE "record"]]
  /\ UNCHANGED <<journalVars, reExecuted>> /\ KeepInterface

\* A slip of CheckReExecuted: a new use case looks into its own, empty map.
CheckOwnMap(i) ==
  /\ calls[i].phase = "check"
  /\ calls' = [calls EXCEPT ![i].phase = "mark"]
  /\ UNCHANGED <<journalVars, reExecuted>> /\ KeepInterface

\* Each use case looks into the shared map and marks it under a mutex of its own.
CheckReExecuted(i) ==
  /\ calls[i].phase = "check"
  /\ calls' = [calls EXCEPT ![i].phase =
                 IF Mark(calls[i].snapshot) \in reExecuted THEN "record" ELSE "mark"]
  /\ UNCHANGED <<journalVars, reExecuted>> /\ KeepInterface

MarkReExecuted(i) ==
  /\ calls[i].phase = "mark"
  /\ reExecuted' = reExecuted \union {Mark(calls[i].snapshot)}
  /\ calls' = [calls EXCEPT ![i].phase = "deep"]
  /\ UNCHANGED journalVars /\ KeepInterface

\* The deeper model's reply replaces the first one only if it parses.
DeepReply(i) ==
  /\ calls[i].phase = "deep"
  /\ \E r \in Replies[calls[i].snapshot.kind] :
       LET taken == ~r.refused /\ r.diagnosis.level = "AI" IN
       calls' = [calls EXCEPT ![i] =
         [@ EXCEPT !.used = IF taken THEN 2 ELSE 1, !.deepened = taken, !.phase = "record"]]
  /\ UNCHANGED <<journalVars, reExecuted>> /\ KeepInterface

\* enrichWithRecurrence: three methods of the journal, one after the other.
RecordCrash(i) ==
  /\ calls[i].phase = "record"
  /\ RecordAll({calls[i].snapshot}, calls[i].level)
  /\ calls' = [calls EXCEPT ![i].phase = "count"]
  /\ UNCHANGED reExecuted /\ KeepInterface

CountCrashes(i) ==
  /\ calls[i].phase = "count"
  /\ calls' = [calls EXCEPT
       ![i].recurrent = IsRecurrent(calls[i].snapshot.container, calls[i].snapshot.kind),
       ![i].phase = "update"]
  /\ UNCHANGED <<journalVars, reExecuted>> /\ KeepInterface

UpdateLast(i) ==
  /\ calls[i].phase = "update"
  /\ UpdateDiagnosis(calls[i].snapshot.container, calls[i].level)
  /\ calls' = [calls EXCEPT ![i].phase = "sent"]
  /\ UNCHANGED reExecuted /\ KeepInterface

ByModel(i) == calls[i].level \in {"AI", "AI~"}

\* Slips: a re-execution counts once; a diagnosis by the rules stays pending.
RequestsOnce(i) == IF ByModel(i) THEN 1 ELSE 0
ServedByModel(i) == IF ByModel(i) THEN {calls[i].snapshot.container} ELSE {}

Requests(i) == IF ~ByModel(i) THEN 0 ELSE IF calls[i].deepened THEN 2 ELSE 1
Served(i) == {calls[i].snapshot.container}

\* diagnosisResultMsg: cached and metered if a model gave it; no longer pending.
Handle(i) ==
  LET c == calls[i].snapshot.container IN
  /\ calls[i].phase = "sent"
  /\ calls' = [calls EXCEPT ![i] =
       [Unused EXCEPT !.phase = "done", !.snapshot = [NoSnapshot EXCEPT !.container = c],
                      !.local = calls[i].local, !.used = calls[i].used]]
  /\ cached' = IF ByModel(i) THEN cached \union {c} ELSE cached
  /\ UpdateDiagnosis(c, calls[i].level)
  /\ metered' = metered + Requests(i)
  /\ pending' = pending \ Served(i)
  /\ UNCHANGED <<fleetVars, shown, mode, reExecuted>>

CallStep(i) ==
  \/ FastReply(i) \/ CheckReExecuted(i) \/ MarkReExecuted(i) \/ DeepReply(i)
  \/ RecordCrash(i) \/ CountCrashes(i) \/ UpdateLast(i) \/ Handle(i)

Next ==
  \/ Tick
  \/ \E c \in Container : ChangeState(c) \/ Key(c, FALSE) \/ Key(c, TRUE)
  \/ \E unread \in SUBSET Unreadable : Metrics(unread)
  \/ Tab
  \/ Assign
  \/ \E i \in CallId : CallStep(i)

\* A request ends within the client's 6 s, a goroutine runs to its end, and the
\* interface handles every message.
Fairness == \A i \in CallId : WF_vars(CallStep(i))

Spec == Init /\ [][Next]_vars /\ Fairness

-----------------------------------------------------------------------------
(* Properties.                                                             *)

InFlight(i) == calls[i].phase \notin {"unused", "done"}
For(i, c) == calls[i].snapshot.container = c
ByRules(c) == \E i \in CallId : calls[i].local /\ For(i, c)

\* The deeper model is asked once about a crash, though nothing makes the check of the
\* shared map and its mark one step: what keeps two diagnoses apart is the mark of a
\* pending one, which a diagnosis by the rules also clears.
DeepOncePerCrash ==
  [][\A i \in CallId :
       calls[i].phase # "deep" /\ calls'[i].phase = "deep" =>
         \/ Mark(calls[i].snapshot) \notin reExecuted
         \/ ByRules(calls[i].snapshot.container)]_vars

\* Crashes noted as recurrent did happen as often, however many times each was
\* collected and diagnosed, where the time of the changes can be read; and a model is
\* told the same number as the operator.
CountsTrue ==
  /\ \A i \in CallId :
       LET s == calls[i].snapshot IN
       calls[i].recurrent /\ s.container \notin Unreadable =>
         past[s.container][s.kind] >= Threshold
  /\ \A c \in Container : BlockAgrees(c)

\* The requests whose reply made a diagnosis what it is: one that failed, or a deeper
\* one that gave nothing, is not among them.
Useful == {r \in CallId \X {1, 2} : r[2] <= calls[r[1]].used}

\* When nothing is under way the meter shows the requests whose reply was used.
MeterExact == (\A i \in CallId : ~InFlight(i)) => metered = Cardinality(Useful)

\* Every diagnosis that was begun takes its level from rules none of which is hidden by
\* another, and none of which proposes an action its signs do not ask for.
RulesApt == (\E i \in CallId : calls[i].phase # "unused") => RulesExact

\* Every request under way goes to the model chosen for its slot, and what comes back
\* is told apart from a failure, but for the failures of Ollama named with RequestsExact.
RequestsApt == (\E i \in CallId : calls[i].phase \in {"fast", "deep"}) => RequestsExact

\* Every diagnosis that is checked against the journal came from an answer whose block
\* was found whatever surrounds it and whose doubtful fields cost it its confidence.
AnswersParsed == (\E i \in CallId : calls[i].phase = "check") => ParserExact

\* A container waiting for a model gets its result.
PendingEnds == \A c \in Container : c \in pending ~> c \notin pending
=============================================================================
