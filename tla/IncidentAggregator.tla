------------------------- MODULE IncidentAggregator -------------------------
(***************************************************************************)
(* The grouping of anomalies into incidents and their diagnosis:           *)
(*   agent/internal/core/service/incident_aggregator.go  the incidents     *)
(*   agent/internal/delivery/tui/update.go  the handlers that use them     *)
(*   agent/internal/delivery/tui/helpers.go the model calls they start     *)
(* Every handler runs to its end on the interface's one goroutine, and the *)
(* aggregator's mutex is held besides; `pc` says where the handler of a    *)
(* metrics message is, since it treats one container after the other.      *)
(* Containers are known by name: one that is created again keeps its name. *)
(* The identifier matters in one place only, where the names a model gives *)
(* are looked up among the identifiers of the members.                     *)
(***************************************************************************)
EXTENDS Integers, FiniteSets

CONSTANTS
  Container,    \* the names of the containers
  NoContainer,  \* the empty name
  Id,           \* Id[c]: Docker's identifier of c
  Link,         \* pairs that share a compose project or a network
  Edge,         \* <<a, b>>: a depends on b
  Limited,      \* the containers with a memory limit
  Unreadable,   \* the containers whose inspection may fail
  Incident,     \* bound: the incidents that may be formed
  NoIncident,
  Window,       \* the adjunction window (30 s)
  EdgeLimit,    \* how long an edge lets a container join (5 min)
  Near,         \* events this close are simultaneous (1 s)
  Automatic,    \* whether the selection mode of the models is AUTO
  MaxTime,      \* bound: the last instant of the model
  MaxInputs     \* bound: faults, recoveries and keys pressed

ASSUME NameAssumption == NoContainer \notin Container /\ NoIncident \notin Incident
ASSUME IdAssumption ==
  /\ DOMAIN Id = Container
  /\ \A c \in Container : Id[c] \notin Container \union {NoContainer}
  /\ \A c, d \in Container : Id[c] = Id[d] => c = d
ASSUME LinkAssumption ==
  /\ Link \subseteq Container \X Container
  /\ \A a, b \in Container : <<a, b>> \in Link => <<b, a>> \in Link
ASSUME EdgeAssumption == Edge \subseteq Link
ASSUME ContainerAssumption ==
  IsFiniteSet(Container) /\ Limited \subseteq Container /\ Unreadable \subseteq Container
ASSUME TimeAssumption ==
  Window \in Nat \ {0} /\ EdgeLimit \in Nat /\ Near \in Nat
  /\ MaxTime \in Nat /\ MaxInputs \in Nat
ASSUME ModeAssumption == Automatic \in BOOLEAN

VARIABLES
  now,
  health,          \* health[c]: "fine", "pressed" (out of memory, running), "down"
  changed,         \* changed[c]: when its state last changed (LastStateChange)
  inputs,          \* history: faults, recoveries and keys so far
  incidents,       \* incidents[i]: an Incident, Unused before it is formed
  memberIncident,  \* memberIncident[c]: the incident c is a member of
  recentEvents,    \* recentEvents[c]: time of the event remembered, 0 for none
  pc,              \* "idle", or "ingest" while a metrics message is handled
  anomalous,       \* the anomalous containers of that message
  graph,           \* the dependencies that message shows
  todo,            \* those of them not yet considered for an adjunction
  updated,         \* the incidents it opened or added to
  calls            \* model calls whose answer has not arrived

fleetVars == <<now, health, changed>>
messageVars == <<anomalous, graph, todo, updated>>
vars == <<fleetVars, inputs, incidents, memberIncident, recentEvents, pc, messageVars,
          calls>>

Instant == 1 .. MaxTime

\* What an origin may be written as.
Label == Container \union {Id[c] : c \in Container}

\* events[c] is 0 for a container that is not a member.
IncidentRecord ==
  [status : {"unused", "open", "closed"},
   events : [Container -> Nat],
   candidateOrigin : Label \union {NoContainer},
   manualOrigin : Container \union {NoContainer},
   originConfidence : {"confirmed", "probable", "undetermined"},
   level : {"none", "rule", "ai"},
   openedAt : Nat, lastAdjunctionAt : Nat, quietUntil : Nat,
   diagnoseCount : Nat, hasFinalDiagnosis : BOOLEAN]

Unused ==
  [status |-> "unused", events |-> [c \in Container |-> 0],
   candidateOrigin |-> NoContainer, manualOrigin |-> NoContainer,
   originConfidence |-> "undetermined", level |-> "none",
   openedAt |-> 0, lastAdjunctionAt |-> 0, quietUntil |-> 0,
   diagnoseCount |-> 0, hasFinalDiagnosis |-> FALSE]

Call == [incident : Incident, number : Nat, final : BOOLEAN]

IsOpen(i) == incidents[i].status = "open"

MembersOf(inc) == {c \in Container : inc.events[c] > 0}

EffectiveOrigin(inc) ==
  IF inc.manualOrigin # NoContainer THEN inc.manualOrigin ELSE inc.candidateOrigin

Init ==
  /\ now = 1
  /\ health = [c \in Container |-> "fine"]
  /\ changed = [c \in Container |-> 1]
  /\ inputs = 0
  /\ incidents = [i \in Incident |-> Unused]
  /\ memberIncident = [c \in Container |-> NoIncident]
  /\ recentEvents = [c \in Container |-> 0]
  /\ pc = "idle"
  /\ anomalous = {} /\ graph = {} /\ todo = {} /\ updated = {}
  /\ calls = {}

-----------------------------------------------------------------------------
(* recomputeIncident.                                                      *)

Oldest(inc) ==
  {c \in MembersOf(inc) : \A d \in MembersOf(inc) : inc.events[c] <= inc.events[d]}

\* Two signals that agree, two events too close to tell, or the timeline alone.
Confidence(inc, origin) ==
  LET others == MembersOf(inc) \ {origin} IN
  IF \E c \in others : <<c, origin>> \in graph THEN "confirmed"
  ELSE IF \E c \in others : inc.events[c] - inc.events[origin] <= Near
  THEN "undetermined"
  ELSE "probable"

\* The oldest event names the origin; of several, the sort decides.
Diagnosed(inc, level) ==
  {[inc EXCEPT !.candidateOrigin = origin,
               !.originConfidence = Confidence(inc, origin),
               !.level = level] : origin \in Oldest(inc)}

\* A slip of Recomputed: the rules replace any diagnosis.
RecomputedByRules(inc) == Diagnosed(inc, "rule")

\* The rules diagnose unless a model has.
Recomputed(inc) == Diagnosed(inc, IF inc.level = "ai" THEN "ai" ELSE "rule")

-----------------------------------------------------------------------------
(* The handler of a metrics message: IngestAnomalies, CheckQuietPeriods    *)
(* and the diagnoses it asks for.                                          *)

\* c is a member of an incident that is open.
Assigned(c) == memberIncident[c] # NoIncident /\ IsOpen(memberIncident[c])

\* The anomalous containers are singled out; a running one whose statistics
\* fail is not listed.  An event is only remembered where there is none yet,
\* with the time of the state change or, if that could not be read, of now.  The
\* dependencies come from the environment, which the same inspection reads.
\* Members of an open incident are not considered for another.
ReceiveMetrics ==
  /\ pc = "idle"
  /\ \E listed \in SUBSET Container, undated \in SUBSET Unreadable :
       /\ \A c \in Container \ listed : health[c] = "pressed"
       /\ anomalous' = {c \in listed : health[c] # "fine"}
       /\ graph' = {e \in Edge : e[1] \in listed \ undated /\ e[2] \in listed}
       /\ recentEvents' = [c \in Container |->
            IF c \in anomalous' /\ recentEvents[c] = 0
            THEN IF c \in undated THEN now ELSE changed[c]
            ELSE recentEvents[c]]
  /\ todo' = {c \in anomalous' : ~Assigned(c)}
  /\ updated' = {}
  /\ pc' = "ingest"
  /\ UNCHANGED <<fleetVars, inputs, incidents, memberIncident, calls>>

\* Topology, and either the window or an edge of a young incident.
Related(c, i) ==
  /\ \E m \in MembersOf(incidents[i]) : <<c, m>> \in Link
  /\ \/ now - incidents[i].lastAdjunctionAt <= Window
     \/ /\ \E m \in MembersOf(incidents[i]) : <<c, m>> \in graph \/ <<m, c>> \in graph
        /\ now - incidents[i].openedAt < EdgeLimit

\* A slip of CanAdjoin: closed incidents are not skipped.
CanAdjoinClosed(c, i) == incidents[i].status # "unused" /\ Related(c, i)

CanAdjoin(c, i) == IsOpen(i) /\ Related(c, i)

\* Incident i with the event of c.
With(i, c) ==
  [incidents[i] EXCEPT !.events[c] = recentEvents[c],
                       !.lastAdjunctionAt = now,
                       !.quietUntil = now + 2 * Window]

\* Incident i takes c in and becomes one of outcomes.
TakeIn(c, i, outcomes) ==
  /\ pc = "ingest" /\ c \in todo
  /\ \E inc \in outcomes : incidents' = [incidents EXCEPT ![i] = inc]
  /\ memberIncident' = [memberIncident EXCEPT ![c] = i]
  /\ todo' = todo \ {c}
  /\ updated' = updated \union {i}
  /\ UNCHANGED <<fleetVars, inputs, recentEvents, pc, anomalous, graph, calls>>

\* A slip of Adjoin: the origin is not computed again.
AdjoinKeepingOrigin(c, i) == CanAdjoin(c, i) /\ TakeIn(c, i, {With(i, c)})

\* c joins one of the open incidents that can take it.
Adjoin(c, i) == CanAdjoin(c, i) /\ TakeIn(c, i, Recomputed(With(i, c)))

\* No open incident can take c.
PassOver(c) ==
  /\ pc = "ingest" /\ c \in todo
  /\ \A i \in Incident : ~CanAdjoin(c, i)
  /\ todo' = todo \ {c}
  /\ UNCHANGED <<fleetVars, inputs, incidents, memberIncident, recentEvents, pc,
                 anomalous, graph, updated, calls>>

Unassigned == {c \in anomalous : ~Assigned(c)}

\* A connected component of the anomalies that are in no incident.
ConnectedComponent(group) ==
  /\ group \subseteq Unassigned
  /\ \A a \in group, b \in Unassigned \ group : <<a, b>> \notin Link
  /\ \A part \in (SUBSET group) \ {{}, group} :
       \E a \in part, b \in group \ part : <<a, b>> \in Link

\* A slip of Component: an incident wants three containers.
ComponentOfThree(group) == Cardinality(group) > 2 /\ ConnectedComponent(group)

Component(group) == Cardinality(group) >= 2 /\ ConnectedComponent(group)

\* Such a component becomes an incident.
OpenIncident(i, group) ==
  /\ pc = "ingest" /\ todo = {}
  /\ incidents[i].status = "unused"
  /\ Component(group)
  /\ \E inc \in Recomputed(
          [Unused EXCEPT
             !.status = "open",
             !.events = [c \in Container |-> IF c \in group THEN recentEvents[c] ELSE 0],
             !.openedAt = now, !.lastAdjunctionAt = now,
             !.quietUntil = now + 2 * Window]) :
       incidents' = [incidents EXCEPT ![i] = inc]
  /\ memberIncident' = [c \in Container |-> IF c \in group THEN i ELSE memberIncident[c]]
  /\ updated' = updated \union {i}
  /\ UNCHANGED <<fleetVars, inputs, recentEvents, pc, anomalous, graph, todo, calls>>

\* The incidents whose quiet period is over.
Due == {i \in Incident : IsOpen(i) /\ now >= incidents[i].quietUntil}

Member(c, some) == \E i \in some : c \in MembersOf(incidents[i])

\* In AUTO a new incident gets its first diagnosis.
First(i) == i \in updated /\ Automatic /\ incidents[i].diagnoseCount < 1

\* A slip of Final: the budget is not looked at.
FinalWhateverSpent(i) == i \in Due /\ Automatic /\ ~incidents[i].hasFinalDiagnosis

\* In AUTO a closed incident gets its final diagnosis, if the budget of two allows.
Final(i) ==
  /\ i \in Due /\ Automatic
  /\ ~incidents[i].hasFinalDiagnosis /\ incidents[i].diagnoseCount < 2

\* The incidents that are due are closed and their events forgotten, diagnoses
\* are asked for, and the handler ends with the given index.
EndMessage(index) ==
  /\ pc = "ingest" /\ todo = {}
  /\ \A group \in SUBSET Unassigned : ~Component(group)
  /\ incidents' = [i \in Incident |->
       [incidents[i] EXCEPT
          !.status = IF i \in Due THEN "closed" ELSE @,
          !.diagnoseCount = IF Final(i) \/ First(i) THEN @ + 1 ELSE @,
          !.hasFinalDiagnosis = @ \/ Final(i)]]
  /\ memberIncident' = index
  /\ recentEvents' = [c \in Container |-> IF Member(c, Due) THEN 0 ELSE recentEvents[c]]
  /\ calls' = calls \union
       {[incident |-> i, number |-> incidents[i].diagnoseCount + 1, final |-> Final(i)] :
          i \in {j \in Incident : Final(j) \/ First(j)}}
  /\ anomalous' = {} /\ graph' = {} /\ updated' = {}
  /\ pc' = "idle"
  /\ UNCHANGED <<fleetVars, inputs, todo>>

\* A slip of CheckQuietPeriods: the membership outlives the incident.
CheckQuietPeriodsKeepingMembers == EndMessage(memberIncident)

CheckQuietPeriods ==
  EndMessage([c \in Container |->
    IF Member(c, Due) THEN NoIncident ELSE memberIncident[c]])

-----------------------------------------------------------------------------
(* The operator's keys and the answers of the models.                      *)

\* 'o': the operator names the origin; the rest of the incident stays.
NameOrigin(i, c, label) ==
  /\ pc = "idle"
  /\ inputs < MaxInputs /\ inputs' = inputs + 1
  /\ IsOpen(i)
  /\ c \in MembersOf(incidents[i])
  /\ incidents' = [incidents EXCEPT ![i].manualOrigin = label]
  /\ UNCHANGED <<fleetVars, memberIncident, recentEvents, pc, messageVars, calls>>

\* A slip of SetManualOrigin: what was passed is kept, not the member's name.
SetManualOriginAsPassed(i, c) == NameOrigin(i, c, Id[c])

SetManualOrigin(i, c) == NameOrigin(i, c, c)

\* 'i': the modal may show an incident that has been closed meanwhile.
RequestDiagnosis(i) ==
  /\ pc = "idle"
  /\ inputs < MaxInputs /\ inputs' = inputs + 1
  /\ incidents[i].status # "unused"
  /\ incidents[i].diagnoseCount < 2
  /\ incidents' = [incidents EXCEPT ![i].diagnoseCount = @ + 1]
  /\ calls' = calls \union
       {[incident |-> i, number |-> incidents[i].diagnoseCount + 1, final |-> FALSE]}
  /\ UNCHANGED <<fleetVars, memberIncident, recentEvents, pc, messageVars>>

\* The model is asked for the name of the origin; identifiers it may have read
\* in the logs.
Answer == Label \union {NoContainer}

\* A slip of Sanitize: the model is taken at its word.
Unsanitized(i, answer) == answer

\* SanitizeIncidentMembers, given the identifiers of the members.
Sanitize(i, answer) ==
  IF answer \in {Id[c] : c \in MembersOf(incidents[i])} THEN answer ELSE NoContainer

\* incidentDiagnosisResultMsg: the answer is looked for among the open
\* incidents and dropped when it is not there.
DiagnosisArrives(call, answer) ==
  /\ pc = "idle"
  /\ LET i == call.incident
         origin == Sanitize(i, answer)
     IN \/ /\ IsOpen(i)
           /\ incidents' = [incidents EXCEPT
                ![i].level = "ai",
                ![i].candidateOrigin =
                   IF origin # NoContainer /\ incidents[i].manualOrigin = NoContainer
                   THEN origin ELSE @]
        \/ ~IsOpen(i) /\ UNCHANGED incidents
  /\ calls' = calls \ {call}
  /\ UNCHANGED <<fleetVars, inputs, memberIncident, recentEvents, pc, messageVars>>

-----------------------------------------------------------------------------
(* The containers and the clock, between two messages.                     *)

\* Containers fail, alone or together.
Crash(some) ==
  /\ pc = "idle"
  /\ some # {}
  /\ inputs < MaxInputs /\ inputs' = inputs + 1
  /\ health' = [c \in Container |-> IF c \in some THEN "down" ELSE health[c]]
  /\ changed' = [c \in Container |-> IF c \in some THEN now ELSE changed[c]]
  /\ UNCHANGED <<now, incidents, memberIncident, recentEvents, pc, messageVars, calls>>

\* Memory fills up without a change of state.
Press(c) ==
  /\ pc = "idle"
  /\ inputs < MaxInputs /\ inputs' = inputs + 1
  /\ c \in Limited
  /\ health[c] = "fine"
  /\ health' = [health EXCEPT ![c] = "pressed"]
  /\ UNCHANGED <<now, changed, incidents, memberIncident, recentEvents, pc,
                 messageVars, calls>>

\* The container is started again, or its memory is released without that.
Recover(c) ==
  /\ pc = "idle"
  /\ inputs < MaxInputs /\ inputs' = inputs + 1
  /\ health[c] # "fine"
  /\ health' = [health EXCEPT ![c] = "fine"]
  /\ \E t \in {changed[c], now} :
       /\ health[c] = "down" => t = now
       /\ changed' = [changed EXCEPT ![c] = t]
  /\ UNCHANGED <<now, incidents, memberIncident, recentEvents, pc, messageVars, calls>>

Tick ==
  /\ pc = "idle"
  /\ now < MaxTime
  /\ now' = now + 1
  /\ UNCHANGED <<health, changed, inputs, incidents, memberIncident, recentEvents, pc,
                 messageVars, calls>>

Next ==
  \/ ReceiveMetrics
  \/ \E c \in Container, i \in Incident : Adjoin(c, i)
  \/ \E c \in Container : PassOver(c)
  \/ \E i \in Incident, group \in SUBSET Container : OpenIncident(i, group)
  \/ CheckQuietPeriods
  \/ \E i \in Incident, c \in Container : SetManualOrigin(i, c)
  \/ \E i \in Incident : RequestDiagnosis(i)
  \/ \E call \in calls, answer \in Answer : DiagnosisArrives(call, answer)
  \/ \E some \in SUBSET Container : Crash(some)
  \/ \E c \in Container : Press(c) \/ Recover(c)
  \/ Tick

Spec == Init /\ [][Next]_vars

-----------------------------------------------------------------------------
(* Properties.                                                             *)

TypeOK ==
  /\ now \in Nat \ {0}
  /\ health \in [Container -> {"fine", "pressed", "down"}]
  /\ changed \in [Container -> Nat \ {0}]
  /\ inputs \in Nat
  /\ incidents \in [Incident -> IncidentRecord]
  /\ memberIncident \in [Container -> Incident \union {NoIncident}]
  /\ recentEvents \in [Container -> Nat]
  /\ pc \in {"idle", "ingest"}
  /\ anomalous \subseteq Container /\ todo \subseteq anomalous /\ graph \subseteq Edge
  /\ updated \subseteq Incident
  /\ calls \subseteq Call

\* The index by container and the incidents say the same: a container indexed
\* is a member of that incident, which is open, and the members of an open
\* incident are indexed to it, so that no container is in two (memberIncident,
\* written by adjunction and opening and erased by CheckQuietPeriods).
MembersAgree ==
  /\ \A c \in Container : memberIncident[c] # NoIncident =>
       IsOpen(memberIncident[c]) /\ c \in MembersOf(incidents[memberIncident[c]])
  /\ \A i \in Incident : IsOpen(i) =>
       \A c \in MembersOf(incidents[i]) : memberIncident[c] = i

\* Whoever named it (timeline, model or operator), the origin of an incident is
\* one of its members, by name or identifier: remediations from the incident
\* modal are aimed at it (EffectiveOrigin, recomputeIncident,
\* SanitizeIncidentMembers).
OriginsAreMembers ==
  \A i \in Incident : LET inc == incidents[i] IN
    inc.status # "unused" =>
      EffectiveOrigin(inc) \in MembersOf(inc) \union {Id[c] : c \in MembersOf(inc)}

\* As long as no model has answered, the origin is the oldest event of all
\* members, the late ones included, and the confidence shown is that of this
\* origin: confirmed only if a member depends on it, in doubt only if another
\* event is as old (recomputeIncident after every adjunction).
RuleOriginIsOldest ==
  \A i \in Incident : LET inc == incidents[i]
                          others == MembersOf(inc) \ {inc.candidateOrigin} IN
    inc.status # "unused" /\ inc.level = "rule" =>
      /\ inc.candidateOrigin \in Oldest(inc)
      /\ inc.originConfidence = "confirmed" =>
           \E c \in others : <<c, inc.candidateOrigin>> \in Edge
      /\ inc.originConfidence = "undetermined" =>
           \E c \in others : inc.events[c] - inc.events[inc.candidateOrigin] <= Near

\* However openings, adjunctions, closings and the operator's key follow each
\* other, an incident costs at most two model calls, each counted once, and
\* the final one belongs to a closed incident (diagnoseCount in update.go).
BudgetKept ==
  /\ \A i \in Incident : incidents[i].diagnoseCount <= 2
  /\ \A call \in calls :
       /\ call.number \in 1 .. incidents[call.incident].diagnoseCount
       /\ call.final => incidents[call.incident].status = "closed"
       /\ \A other \in calls :
            other.incident = call.incident /\ other.number = call.number => other = call

\* A diagnosis by a model is not replaced by one by the rules when containers
\* join afterwards (the level checked at the end of recomputeIncident).
DiagnosisKept ==
  [][\A i \in Incident : incidents[i].level = "ai" => incidents'[i].level = "ai"]_vars

\* No two anomalous containers that share topology are left without an incident
\* by the message that reported them (the components of IngestAnomalies).
LinkedPairsTaken ==
  [][pc = "ingest" /\ pc' = "idle" =>
       \A a, b \in anomalous :
         a # b /\ <<a, b>> \in Link => Assigned(a) \/ Assigned(b)]_vars

\* The incidents are groups held together by topology, disjoint while open,
\* that only grow and are final once closed.
Groups == INSTANCE IncidentGroups
  WITH members <- [i \in Incident |-> MembersOf(incidents[i])],
       open <- {i \in Incident : IsOpen(i)}

ImplementsGroups == Groups!Spec
=============================================================================
