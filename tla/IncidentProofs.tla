--------------------------- MODULE IncidentProofs ---------------------------
(***************************************************************************)
(* Proofs about IncidentAggregator, for any containers, topology, windows  *)
(* and numbers of incidents.                                               *)
(***************************************************************************)
EXTENDS IncidentAggregator, FiniteSetTheorems, TLAPS

-----------------------------------------------------------------------------
(* The operators the actions are built from.                               *)

\* A container enters an incident as of now, with the event remembered for it.
LEMMA WithFacts ==
  ASSUME TypeOK, NEW i \in Incident, NEW c \in Container
  PROVE  LET inc == incidents[i]
             new == With(i, c)
         IN /\ new \in IncidentRecord
            /\ new.events = [inc.events EXCEPT ![c] = recentEvents[c]]
            /\ new.status = inc.status /\ new.level = inc.level
            /\ new.candidateOrigin = inc.candidateOrigin
            /\ new.manualOrigin = inc.manualOrigin
            /\ new.diagnoseCount = inc.diagnoseCount
  <1> DEFINE inc == incidents[i]
             later == now + 2 * Window
  <1>1. inc \in IncidentRecord
    BY DEF TypeOK
  <1>2. now \in Nat /\ later \in Nat /\ recentEvents[c] \in Nat
    BY TimeAssumption DEF TypeOK
  <1>3. [inc.events EXCEPT ![c] = recentEvents[c]] \in [Container -> Nat]
    BY <1>1, <1>2 DEF IncidentRecord
  <1>4. With(i, c) = [inc EXCEPT !.events = [inc.events EXCEPT ![c] = recentEvents[c]],
                                 !.lastAdjunctionAt = now, !.quietUntil = later]
    BY <1>1 DEF With, IncidentRecord
  <1> HIDE DEF inc, later
  <1>5. QED
    BY <1>1, <1>2, <1>3, <1>4 DEF IncidentRecord, inc

\* A recomputation changes origin, confidence and level, and the origin it names
\* has one of the oldest events.
LEMMA DiagnosedFacts ==
  ASSUME NEW inc \in IncidentRecord, NEW level \in {"rule", "ai"},
         NEW new \in Diagnosed(inc, level)
  PROVE  /\ new \in IncidentRecord
         /\ new.candidateOrigin \in Oldest(inc)
         /\ new.originConfidence = Confidence(inc, new.candidateOrigin)
         /\ new.level = level
         /\ new.events = inc.events /\ new.status = inc.status
         /\ new.manualOrigin = inc.manualOrigin
         /\ new.diagnoseCount = inc.diagnoseCount
  <1>1. PICK origin \in Oldest(inc) :
          new = [inc EXCEPT !.candidateOrigin = origin,
                            !.originConfidence = Confidence(inc, origin),
                            !.level = level]
    BY DEF Diagnosed
  <1>2. origin \in Label
    BY DEF Oldest, MembersOf, Label
  <1>3. Confidence(inc, origin) \in {"confirmed", "probable", "undetermined"}
    BY DEF Confidence
  <1> HIDE DEF Label
  <1>4. QED
    BY <1>1, <1>2, <1>3 DEF IncidentRecord

LEMMA RecomputedFacts ==
  ASSUME NEW inc \in IncidentRecord, NEW new \in Recomputed(inc)
  PROVE  /\ new \in IncidentRecord
         /\ new.candidateOrigin \in Oldest(inc)
         /\ new.originConfidence = Confidence(inc, new.candidateOrigin)
         /\ new.level = IF inc.level = "ai" THEN "ai" ELSE "rule"
         /\ new.events = inc.events /\ new.status = inc.status
         /\ new.manualOrigin = inc.manualOrigin
         /\ new.diagnoseCount = inc.diagnoseCount
  BY DiagnosedFacts DEF Recomputed

\* A new incident has the events of its group.
LEMMA FreshFacts ==
  ASSUME TypeOK, NEW group \in SUBSET Container
  PROVE  LET events == [c \in Container |-> IF c \in group THEN recentEvents[c] ELSE 0]
             new == [Unused EXCEPT
                       !.status = "open", !.events = events,
                       !.openedAt = now, !.lastAdjunctionAt = now,
                       !.quietUntil = now + 2 * Window]
         IN /\ new \in IncidentRecord
            /\ new.status = "open" /\ new.events = events /\ new.level = "none"
            /\ new.manualOrigin = NoContainer /\ new.diagnoseCount = 0
  <1> DEFINE events == [c \in Container |-> IF c \in group THEN recentEvents[c] ELSE 0]
             later == now + 2 * Window
  <1>1. now \in Nat /\ later \in Nat
    BY TimeAssumption DEF TypeOK
  <1>2. events \in [Container -> Nat]
    BY DEF TypeOK
  <1> HIDE DEF events, later
  <1>3. QED
    BY <1>1, <1>2 DEF IncidentRecord, Unused, events, later

\* Of a recomputed incident, who its members and their events are is unchanged.
LEMMA SameEvents ==
  ASSUME NEW one \in IncidentRecord, NEW two \in IncidentRecord,
         one.events = two.events
  PROVE  /\ MembersOf(one) = MembersOf(two)
         /\ Oldest(one) = Oldest(two)
  BY DEF MembersOf, Oldest

-----------------------------------------------------------------------------
(* The inductive invariant.                                                *)

\* An incident that was not formed has no members and no diagnosis; of one that
\* was, each origin is a member's.
OriginsKept ==
  \A i \in Incident : LET inc == incidents[i] IN
    /\ inc.status = "unused" => MembersOf(inc) = {} /\ inc.level = "none"
    /\ inc.status # "unused" =>
         /\ inc.manualOrigin \in MembersOf(inc) \union {NoContainer}
         /\ inc.candidateOrigin \in
              MembersOf(inc) \union {Id[c] : c \in MembersOf(inc)}

\* While a message is handled, every anomaly has an event, and those still to be
\* considered are in no open incident.
MessageKept ==
  /\ \A c \in anomalous : recentEvents[c] > 0
  /\ \A c \in todo : ~Assigned(c)

IInv == TypeOK /\ MembersAgree /\ OriginsKept /\ MessageKept

-----------------------------------------------------------------------------
(* Types.                                                                  *)

LEMMA InitTypes == Init => TypeOK
  <1> SUFFICES ASSUME Init PROVE TypeOK
    OBVIOUS
  <1>1. Unused \in IncidentRecord
    BY DEF Unused, IncidentRecord
  <1>2. QED
    BY <1>1, NameAssumption DEF Init, TypeOK

LEMMA TypeStep == TypeOK /\ [Next]_vars => TypeOK'
  <1> SUFFICES ASSUME TypeOK, [Next]_vars PROVE TypeOK'
    OBVIOUS
  <1>1. CASE ReceiveMetrics
    <2>1. PICK listed \in SUBSET Container, undated \in SUBSET Unreadable :
            /\ anomalous' = {c \in listed : health[c] # "fine"}
            /\ graph' = {e \in Edge : e[1] \in listed \ undated /\ e[2] \in listed}
            /\ recentEvents' = [c \in Container |->
                 IF c \in anomalous' /\ recentEvents[c] = 0
                 THEN IF c \in undated THEN now ELSE changed[c]
                 ELSE recentEvents[c]]
      BY <1>1 DEF ReceiveMetrics
    <2>2. recentEvents' \in [Container -> Nat]
      BY <2>1 DEF TypeOK
    <2>3. anomalous' \subseteq Container /\ todo' \subseteq anomalous' /\ graph' \subseteq Edge
      BY <1>1, <2>1 DEF ReceiveMetrics
    <2>4. QED
      BY <1>1, <2>2, <2>3 DEF ReceiveMetrics, TypeOK, fleetVars
  <1>2. ASSUME NEW c \in Container, NEW i \in Incident, Adjoin(c, i) PROVE TypeOK'
    <2>1. PICK inc \in Recomputed(With(i, c)) :
            incidents' = [incidents EXCEPT ![i] = inc]
      BY <1>2 DEF Adjoin, TakeIn
    <2>2. inc \in IncidentRecord
      BY <2>1, WithFacts, RecomputedFacts
    <2>3. incidents' \in [Incident -> IncidentRecord]
      BY <2>1, <2>2 DEF TypeOK
    <2>4. memberIncident' \in [Container -> Incident \union {NoIncident}]
      BY <1>2 DEF Adjoin, TakeIn, TypeOK
    <2>5. QED
      BY <1>2, <2>3, <2>4 DEF Adjoin, TakeIn, TypeOK, fleetVars
  <1>3. ASSUME NEW c \in Container, PassOver(c) PROVE TypeOK'
    BY <1>3 DEF PassOver, TypeOK, fleetVars
  <1>4. ASSUME NEW i \in Incident, NEW group \in SUBSET Container,
               OpenIncident(i, group)
        PROVE  TypeOK'
    <2>1. PICK inc : inc \in IncidentRecord /\ incidents' = [incidents EXCEPT ![i] = inc]
      BY <1>4, FreshFacts, RecomputedFacts DEF OpenIncident
    <2>2. incidents' \in [Incident -> IncidentRecord]
      BY <2>1 DEF TypeOK
    <2>3. memberIncident' \in [Container -> Incident \union {NoIncident}]
      BY <1>4 DEF OpenIncident, TypeOK
    <2>4. QED
      BY <1>4, <2>2, <2>3 DEF OpenIncident, TypeOK, fleetVars
  <1>5. CASE CheckQuietPeriods
    <2> DEFINE after(i) ==
          [incidents[i] EXCEPT
             !.status = IF i \in Due THEN "closed" ELSE @,
             !.diagnoseCount = IF Final(i) \/ First(i) THEN @ + 1 ELSE @,
             !.hasFinalDiagnosis = @ \/ Final(i)]
    <2>1. ASSUME NEW i \in Incident PROVE after(i) \in IncidentRecord
      <3>1. incidents[i] \in IncidentRecord
        BY DEF TypeOK
      <3>2. incidents[i].hasFinalDiagnosis \in BOOLEAN /\ incidents[i].diagnoseCount \in Nat
        BY <3>1 DEF IncidentRecord
      <3>3. (incidents[i].hasFinalDiagnosis \/ Final(i)) \in BOOLEAN
        BY <3>2, Zenon DEF Final
      <3>4. (IF Final(i) \/ First(i) THEN incidents[i].diagnoseCount + 1
             ELSE incidents[i].diagnoseCount) \in Nat
        BY <3>2
      <3>5. QED
        BY <3>1, <3>3, <3>4 DEF IncidentRecord
    <2>2. incidents' = [i \in Incident |-> after(i)]
      BY <1>5 DEF CheckQuietPeriods, EndMessage
    <2> HIDE DEF after
    <2>3. incidents' \in [Incident -> IncidentRecord]
      BY <2>1, <2>2
    <2>4. memberIncident' \in [Container -> Incident \union {NoIncident}]
      BY <1>5 DEF CheckQuietPeriods, EndMessage, TypeOK
    <2>5. recentEvents' \in [Container -> Nat]
      BY <1>5 DEF CheckQuietPeriods, EndMessage, TypeOK
    <2>6. calls' \subseteq Call
      <3>1. ASSUME NEW i \in Incident
            PROVE  [incident |-> i, number |-> incidents[i].diagnoseCount + 1,
                    final |-> Final(i)] \in Call
        <4>1. incidents[i].diagnoseCount + 1 \in Nat
          BY DEF TypeOK, IncidentRecord
        <4>2. Final(i) \in BOOLEAN
          BY Zenon DEF Final
        <4>3. QED
          BY <4>1, <4>2 DEF Call
      <3>2. calls' = calls \union
              {[incident |-> i, number |-> incidents[i].diagnoseCount + 1, final |-> Final(i)] :
                 i \in {j \in Incident : Final(j) \/ First(j)}}
        BY <1>5 DEF CheckQuietPeriods, EndMessage
      <3>3. QED
        BY <3>1, <3>2 DEF TypeOK
    <2>7. QED
      BY <1>5, <2>3, <2>4, <2>5, <2>6
      DEF CheckQuietPeriods, EndMessage, TypeOK, fleetVars
  <1>6. ASSUME NEW i \in Incident, NEW c \in Container, SetManualOrigin(i, c)
        PROVE  TypeOK'
    <2>1. [incidents[i] EXCEPT !.manualOrigin = c] \in IncidentRecord
      BY DEF TypeOK, IncidentRecord
    <2>2. incidents' \in [Incident -> IncidentRecord]
      BY <1>6, <2>1 DEF SetManualOrigin, NameOrigin, TypeOK
    <2>3. inputs' \in Nat
      BY <1>6 DEF SetManualOrigin, NameOrigin, TypeOK
    <2>4. QED
      BY <1>6, <2>2, <2>3 DEF SetManualOrigin, NameOrigin, TypeOK, fleetVars, messageVars
  <1>7. ASSUME NEW i \in Incident, RequestDiagnosis(i) PROVE TypeOK'
    <2>1. incidents[i].diagnoseCount + 1 \in Nat
      BY DEF TypeOK, IncidentRecord
    <2>2. [incidents[i] EXCEPT !.diagnoseCount = @ + 1] \in IncidentRecord
      <3> DEFINE n == incidents[i].diagnoseCount + 1
      <3>1. incidents[i] \in IncidentRecord
        BY DEF TypeOK
      <3>2. [incidents[i] EXCEPT !.diagnoseCount = @ + 1]
              = [incidents[i] EXCEPT !.diagnoseCount = n]
        BY <3>1 DEF IncidentRecord
      <3> HIDE DEF n
      <3>3. n \in Nat
        BY <2>1 DEF n
      <3>4. QED
        BY <3>1, <3>2, <3>3 DEF IncidentRecord
    <2>3. incidents' \in [Incident -> IncidentRecord]
      BY <1>7, <2>2 DEF RequestDiagnosis, TypeOK
    <2>4. calls' \subseteq Call
      <3>1. [incident |-> i, number |-> incidents[i].diagnoseCount + 1, final |-> FALSE]
              \in Call
        BY <2>1 DEF Call
      <3>2. QED
        BY <1>7, <3>1 DEF RequestDiagnosis, TypeOK
    <2>5. inputs' \in Nat
      BY <1>7 DEF RequestDiagnosis, TypeOK
    <2>6. QED
      BY <1>7, <2>3, <2>4, <2>5 DEF RequestDiagnosis, TypeOK, fleetVars, messageVars
  <1>8. ASSUME NEW call \in calls, NEW answer \in Answer, DiagnosisArrives(call, answer)
        PROVE  TypeOK'
    <2> DEFINE i == call.incident
               origin == Sanitize(i, answer)
               candidate == IF origin # NoContainer /\ incidents[i].manualOrigin = NoContainer
                            THEN origin ELSE incidents[i].candidateOrigin
    <2>1. i \in Incident
      BY DEF TypeOK, Call
    <2>2. candidate \in Label \union {NoContainer}
      BY <2>1 DEF Sanitize, Answer, TypeOK, IncidentRecord
    <2>3. \/ UNCHANGED incidents
          \/ incidents' = [incidents EXCEPT ![i].level = "ai", ![i].candidateOrigin = candidate]
      BY <1>8 DEF DiagnosisArrives
    <2> HIDE DEF origin, candidate, i
    <2>4. [incidents[i] EXCEPT !.level = "ai", !.candidateOrigin = candidate] \in IncidentRecord
      <3>1. incidents[i] \in IncidentRecord
        BY <2>1 DEF TypeOK
      <3> HIDE DEF Label
      <3>2. QED
        BY <3>1, <2>2 DEF IncidentRecord
    <2>5. incidents' \in [Incident -> IncidentRecord]
      BY <2>1, <2>3, <2>4 DEF TypeOK
    <2>6. QED
      BY <1>8, <2>5 DEF DiagnosisArrives, TypeOK, fleetVars, messageVars
  <1>9. ASSUME NEW some \in SUBSET Container, Crash(some) PROVE TypeOK'
    BY <1>9 DEF Crash, TypeOK, messageVars
  <1>10. ASSUME NEW c \in Container, Press(c) PROVE TypeOK'
    BY <1>10 DEF Press, TypeOK, messageVars
  <1>11. ASSUME NEW c \in Container, Recover(c) PROVE TypeOK'
    <2>1. PICK t \in {changed[c], now} : changed' = [changed EXCEPT ![c] = t]
      BY <1>11 DEF Recover
    <2>2. changed' \in [Container -> Nat \ {0}]
      BY <2>1 DEF TypeOK
    <2>3. QED
      BY <1>11, <2>2 DEF Recover, TypeOK, messageVars
  <1>12. CASE Tick
    BY <1>12 DEF Tick, TypeOK, messageVars
  <1>13. CASE UNCHANGED vars
    BY <1>13 DEF vars, TypeOK, fleetVars, messageVars
  <1>14. QED
    BY <1>1, <1>2, <1>3, <1>4, <1>5, <1>6, <1>7, <1>8, <1>9, <1>10, <1>11, <1>12, <1>13
    DEF Next

-----------------------------------------------------------------------------
(* What the steps do to the incidents.                                     *)

\* The steps that leave status, events and index of every incident alone.
OtherStep ==
  \/ ReceiveMetrics
  \/ \E c \in Container : PassOver(c)
  \/ \E i \in Incident, c \in Container : SetManualOrigin(i, c)
  \/ \E i \in Incident : RequestDiagnosis(i)
  \/ \E call \in calls, answer \in Answer : DiagnosisArrives(call, answer)
  \/ \E some \in SUBSET Container : Crash(some)
  \/ \E c \in Container : Press(c) \/ Recover(c)
  \/ Tick
  \/ UNCHANGED vars

LEMMA StepCases ==
  ASSUME [Next]_vars
  PROVE  \/ OtherStep
         \/ \E c \in Container, i \in Incident : Adjoin(c, i)
         \/ \E i \in Incident, group \in SUBSET Container : OpenIncident(i, group)
         \/ CheckQuietPeriods
  BY DEF Next, OtherStep

LEMMA OtherStepKeeps ==
  ASSUME TypeOK, OtherStep
  PROVE  /\ memberIncident' = memberIncident
         /\ \A i \in Incident : /\ incidents'[i].status = incidents[i].status
                                /\ incidents'[i].events = incidents[i].events
  <1> DEFINE Kept == /\ memberIncident' = memberIncident
                     /\ \A i \in Incident : /\ incidents'[i].status = incidents[i].status
                                            /\ incidents'[i].events = incidents[i].events
  <1>0. \A i \in Incident : incidents[i] \in IncidentRecord
    BY DEF TypeOK
  <1>1. ASSUME NEW i \in Incident, NEW c \in Container, SetManualOrigin(i, c) PROVE Kept
    BY <1>1, <1>0 DEF SetManualOrigin, NameOrigin, TypeOK, IncidentRecord
  <1>2. ASSUME NEW i \in Incident, RequestDiagnosis(i) PROVE Kept
    BY <1>2, <1>0 DEF RequestDiagnosis, TypeOK, IncidentRecord
  <1>3. ASSUME NEW call \in calls, NEW answer \in Answer, DiagnosisArrives(call, answer)
        PROVE  Kept
    <2>1. call.incident \in Incident
      BY DEF TypeOK, Call
    <2>2. PICK origin :
            \/ UNCHANGED incidents
            \/ incidents' = [incidents EXCEPT ![call.incident].level = "ai",
                                              ![call.incident].candidateOrigin = origin]
      BY <1>3 DEF DiagnosisArrives
    <2>3. QED
      BY <1>3, <1>0, <2>1, <2>2 DEF DiagnosisArrives, TypeOK, IncidentRecord
  <1>4. UNCHANGED <<incidents, memberIncident>> => Kept
    OBVIOUS
  <1>5. ReceiveMetrics => Kept
    BY <1>4 DEF ReceiveMetrics
  <1>6. (\E c \in Container : PassOver(c)) => Kept
    BY <1>4 DEF PassOver
  <1>7. (\E some \in SUBSET Container : Crash(some)) => Kept
    BY <1>4 DEF Crash
  <1>8. (\E c \in Container : Press(c) \/ Recover(c)) => Kept
    BY <1>4 DEF Press, Recover
  <1>9. Tick \/ UNCHANGED vars => Kept
    BY <1>4 DEF Tick, vars
  <1> HIDE DEF Kept
  <1>10. Kept
    BY <1>1, <1>2, <1>3, <1>5, <1>6, <1>7, <1>8, <1>9 DEF OtherStep
  <1>11. QED
    BY <1>10 DEF Kept

LEMMA AdjoinFacts ==
  ASSUME IInv, NEW c \in Container, NEW i \in Incident, Adjoin(c, i)
  PROVE  /\ IsOpen(i) /\ memberIncident[c] = NoIncident
         /\ memberIncident' = [memberIncident EXCEPT ![c] = i]
         /\ \A j \in Incident \ {i} : incidents'[j] = incidents[j]
         /\ incidents'[i].status = "open"
         /\ incidents'[i].events = [incidents[i].events EXCEPT ![c] = recentEvents[c]]
         /\ recentEvents[c] > 0
         /\ incidents'[i].manualOrigin = incidents[i].manualOrigin
         /\ incidents'[i].diagnoseCount = incidents[i].diagnoseCount
         /\ incidents'[i].level = IF incidents[i].level = "ai" THEN "ai" ELSE "rule"
         /\ incidents'[i].candidateOrigin \in Oldest(incidents'[i])
         /\ incidents'[i].originConfidence
              = Confidence(incidents'[i], incidents'[i].candidateOrigin)
  <1>1. PICK inc \in Recomputed(With(i, c)) : incidents' = [incidents EXCEPT ![i] = inc]
    BY DEF Adjoin, TakeIn
  <1>2. /\ With(i, c) \in IncidentRecord
        /\ inc \in IncidentRecord /\ inc.events = With(i, c).events
    BY <1>1, WithFacts, RecomputedFacts DEF IInv
  <1>3. MembersOf(inc) = MembersOf(With(i, c)) /\ Oldest(inc) = Oldest(With(i, c))
    BY <1>2, SameEvents
  <1>4. Confidence(inc, inc.candidateOrigin) = Confidence(With(i, c), inc.candidateOrigin)
    BY <1>2, <1>3 DEF Confidence
  <1>5. incidents'[i] = inc /\ \A j \in Incident \ {i} : incidents'[j] = incidents[j]
    BY <1>1 DEF IInv, TypeOK
  <1>6. c \in todo /\ c \in anomalous /\ recentEvents[c] > 0 /\ ~Assigned(c)
    BY DEF Adjoin, TakeIn, IInv, TypeOK, MessageKept
  <1>7. memberIncident[c] = NoIncident
    BY <1>6 DEF Assigned, IInv, MembersAgree
  <1>8. IsOpen(i) /\ memberIncident' = [memberIncident EXCEPT ![c] = i]
    BY DEF Adjoin, CanAdjoin, TakeIn
  <1>9. /\ inc.status = "open"
        /\ inc.events = [incidents[i].events EXCEPT ![c] = recentEvents[c]]
        /\ inc.manualOrigin = incidents[i].manualOrigin
        /\ inc.diagnoseCount = incidents[i].diagnoseCount
        /\ inc.level = IF incidents[i].level = "ai" THEN "ai" ELSE "rule"
        /\ inc.candidateOrigin \in Oldest(With(i, c))
        /\ inc.originConfidence = Confidence(With(i, c), inc.candidateOrigin)
    BY <1>1, <1>2, <1>8, WithFacts, RecomputedFacts DEF IInv, IsOpen
  <1>10. QED
    BY <1>3, <1>4, <1>5, <1>6, <1>7, <1>8, <1>9

LEMMA OpenFacts ==
  ASSUME IInv, NEW i \in Incident, NEW group \in SUBSET Container, OpenIncident(i, group)
  PROVE  /\ incidents[i].status = "unused" /\ Component(group)
         /\ \A c \in group : memberIncident[c] = NoIncident
         /\ memberIncident' =
              [c \in Container |-> IF c \in group THEN i ELSE memberIncident[c]]
         /\ \A j \in Incident \ {i} : incidents'[j] = incidents[j]
         /\ incidents'[i].status = "open"
         /\ MembersOf(incidents'[i]) = group
         /\ incidents'[i].manualOrigin = NoContainer
         /\ incidents'[i].diagnoseCount = 0
         /\ incidents'[i].level = "rule"
         /\ incidents'[i].candidateOrigin \in Oldest(incidents'[i])
         /\ incidents'[i].originConfidence
              = Confidence(incidents'[i], incidents'[i].candidateOrigin)
  <1> DEFINE events == [c \in Container |-> IF c \in group THEN recentEvents[c] ELSE 0]
             new == [Unused EXCEPT
                       !.status = "open", !.events = events,
                       !.openedAt = now, !.lastAdjunctionAt = now,
                       !.quietUntil = now + 2 * Window]
  <1>1. PICK inc \in Recomputed(new) : incidents' = [incidents EXCEPT ![i] = inc]
    BY DEF OpenIncident
  <1>2. /\ new \in IncidentRecord /\ new.status = "open" /\ new.events = events
        /\ new.level = "none" /\ new.manualOrigin = NoContainer
        /\ new.diagnoseCount = 0
    BY FreshFacts DEF IInv
  <1> HIDE DEF new
  <1>3. /\ inc \in IncidentRecord /\ inc.events = events /\ inc.status = "open"
        /\ inc.level = "rule" /\ inc.manualOrigin = NoContainer
        /\ inc.diagnoseCount = 0 /\ inc.candidateOrigin \in Oldest(new)
        /\ inc.originConfidence = Confidence(new, inc.candidateOrigin)
    BY <1>1, <1>2, RecomputedFacts
  <1>4. MembersOf(inc) = MembersOf(new) /\ Oldest(inc) = Oldest(new)
    BY <1>2, <1>3, SameEvents
  <1>5. Confidence(inc, inc.candidateOrigin) = Confidence(new, inc.candidateOrigin)
    BY <1>2, <1>3, <1>4 DEF Confidence
  <1>6. incidents'[i] = inc /\ \A j \in Incident \ {i} : incidents'[j] = incidents[j]
    BY <1>1 DEF IInv, TypeOK
  <1>7. /\ incidents[i].status = "unused" /\ Component(group)
        /\ memberIncident' =
             [c \in Container |-> IF c \in group THEN i ELSE memberIncident[c]]
    BY DEF OpenIncident
  <1>8. group \subseteq Unassigned
    BY <1>7 DEF Component, ConnectedComponent
  <1>9. \A c \in group : recentEvents[c] > 0 /\ ~Assigned(c)
    BY <1>8 DEF Unassigned, IInv, MessageKept
  <1>10. \A c \in group : memberIncident[c] = NoIncident
    BY <1>9 DEF Assigned, IInv, MembersAgree
  <1>11. MembersOf(inc) = group
    BY <1>3, <1>9 DEF MembersOf
  <1>12. QED
    BY <1>3, <1>4, <1>5, <1>6, <1>7, <1>10, <1>11

LEMMA CheckFacts ==
  ASSUME TypeOK, CheckQuietPeriods
  PROVE  /\ memberIncident' = [c \in Container |->
              IF Member(c, Due) THEN NoIncident ELSE memberIncident[c]]
         /\ anomalous' = {} /\ todo' = {}
         /\ \A i \in Incident :
              /\ incidents'[i].status = IF i \in Due THEN "closed" ELSE incidents[i].status
              /\ incidents'[i].events = incidents[i].events
              /\ incidents'[i].manualOrigin = incidents[i].manualOrigin
              /\ incidents'[i].candidateOrigin = incidents[i].candidateOrigin
              /\ incidents'[i].originConfidence = incidents[i].originConfidence
              /\ incidents'[i].level = incidents[i].level
              /\ incidents'[i].diagnoseCount =
                   IF Final(i) \/ First(i) THEN incidents[i].diagnoseCount + 1
                   ELSE incidents[i].diagnoseCount
  <1>1. incidents' = [i \in Incident |->
          [incidents[i] EXCEPT
             !.status = IF i \in Due THEN "closed" ELSE @,
             !.diagnoseCount = IF Final(i) \/ First(i) THEN @ + 1 ELSE @,
             !.hasFinalDiagnosis = @ \/ Final(i)]]
    BY DEF CheckQuietPeriods, EndMessage
  <1>2. ASSUME NEW i \in Incident
        PROVE  /\ incidents'[i].status = IF i \in Due THEN "closed" ELSE incidents[i].status
               /\ incidents'[i].events = incidents[i].events
               /\ incidents'[i].manualOrigin = incidents[i].manualOrigin
               /\ incidents'[i].candidateOrigin = incidents[i].candidateOrigin
               /\ incidents'[i].originConfidence = incidents[i].originConfidence
               /\ incidents'[i].level = incidents[i].level
               /\ incidents'[i].diagnoseCount =
                    IF Final(i) \/ First(i) THEN incidents[i].diagnoseCount + 1
                    ELSE incidents[i].diagnoseCount
    <2>1. incidents[i] \in IncidentRecord
      BY DEF TypeOK
    <2>2. QED
      BY <1>1, <2>1 DEF IncidentRecord
  <1>3. anomalous' = {} /\ todo' = {} /\ memberIncident' = [c \in Container |->
              IF Member(c, Due) THEN NoIncident ELSE memberIncident[c]]
    BY DEF CheckQuietPeriods, EndMessage
  <1>4. QED
    BY <1>2, <1>3

-----------------------------------------------------------------------------
(* Index and incidents.                                                    *)

LEMMA MembersStep == IInv /\ [Next]_vars => MembersAgree'
  <1> SUFFICES ASSUME IInv, [Next]_vars PROVE MembersAgree'
    OBVIOUS
  <1> USE NameAssumption
  <1>1. /\ \A c \in Container : memberIncident[c] # NoIncident =>
             /\ memberIncident[c] \in Incident
             /\ incidents[memberIncident[c]].status = "open"
             /\ incidents[memberIncident[c]].events[c] > 0
        /\ \A i \in Incident : incidents[i].status = "open" =>
             \A c \in Container : incidents[i].events[c] > 0 => memberIncident[c] = i
    BY DEF IInv, TypeOK, MembersAgree, IsOpen, MembersOf
  <1> DEFINE Goal ==
        /\ \A c \in Container : memberIncident'[c] # NoIncident =>
             /\ incidents'[memberIncident'[c]].status = "open"
             /\ incidents'[memberIncident'[c]].events[c] > 0
        /\ \A i \in Incident : incidents'[i].status = "open" =>
             \A c \in Container : incidents'[i].events[c] > 0 => memberIncident'[c] = i
  <1>2. CASE OtherStep
    <2>1. Goal
      BY <1>1, <1>2, OtherStepKeeps DEF IInv
    <2>2. QED
      BY <2>1 DEF MembersAgree, IsOpen, MembersOf
  <1>3. ASSUME NEW c \in Container, NEW i \in Incident, Adjoin(c, i) PROVE MembersAgree'
    <2>1. /\ IsOpen(i) /\ memberIncident[c] = NoIncident
          /\ memberIncident' = [memberIncident EXCEPT ![c] = i]
          /\ \A j \in Incident \ {i} : incidents'[j] = incidents[j]
          /\ incidents'[i].status = "open"
          /\ incidents'[i].events = [incidents[i].events EXCEPT ![c] = recentEvents[c]]
          /\ recentEvents[c] > 0
      BY <1>3, AdjoinFacts
    <2>2. memberIncident'[c] = i /\ \A d \in Container \ {c} : memberIncident'[d] = memberIncident[d]
      BY <2>1 DEF IInv, TypeOK
    <2>3. incidents'[i].events[c] > 0
          /\ \A d \in Container \ {c} : incidents'[i].events[d] = incidents[i].events[d]
      BY <2>1 DEF IInv, TypeOK, IncidentRecord
    <2>4. ASSUME NEW d \in Container, memberIncident'[d] # NoIncident
          PROVE  /\ incidents'[memberIncident'[d]].status = "open"
                 /\ incidents'[memberIncident'[d]].events[d] > 0
      <3>1. CASE d = c
        BY <2>1, <2>2, <2>3, <3>1
      <3>2. CASE d # c
        <4>1. memberIncident'[d] = memberIncident[d] /\ memberIncident[d] \in Incident
          BY <1>1, <2>2, <2>4, <3>2
        <4>2. CASE memberIncident[d] = i
          BY <1>1, <2>1, <2>3, <2>4, <3>2, <4>1, <4>2
        <4>3. CASE memberIncident[d] # i
          BY <1>1, <2>1, <2>4, <4>1, <4>3
        <4>4. QED
          BY <4>2, <4>3
      <3>3. QED
        BY <3>1, <3>2
    <2>5. ASSUME NEW j \in Incident, incidents'[j].status = "open",
                 NEW d \in Container, incidents'[j].events[d] > 0
          PROVE  memberIncident'[d] = j
      <3>1. CASE j = i
        BY <1>1, <2>1, <2>2, <2>3, <2>5, <3>1 DEF IsOpen
      <3>2. CASE j # i
        BY <1>1, <2>1, <2>2, <2>5, <3>2
      <3>3. QED
        BY <3>1, <3>2
    <2>6. QED
      BY <2>4, <2>5 DEF MembersAgree, IsOpen, MembersOf
  <1>4. ASSUME NEW i \in Incident, NEW group \in SUBSET Container, OpenIncident(i, group)
        PROVE  MembersAgree'
    <2>1. /\ incidents[i].status = "unused"
          /\ \A c \in group : memberIncident[c] = NoIncident
          /\ \A c \in Container :
               memberIncident'[c] = IF c \in group THEN i ELSE memberIncident[c]
          /\ \A j \in Incident \ {i} : incidents'[j] = incidents[j]
          /\ incidents'[i].status = "open"
          /\ \A c \in Container : incidents'[i].events[c] > 0 <=> c \in group
      BY <1>4, OpenFacts DEF MembersOf
    <2>2. Goal
      BY <1>1, <2>1
    <2>3. QED
      BY <2>2 DEF MembersAgree, IsOpen, MembersOf
  <1>5. CASE CheckQuietPeriods
    <2>1. /\ \A c \in Container : memberIncident'[c] =
               IF Member(c, Due) THEN NoIncident ELSE memberIncident[c]
          /\ \A i \in Incident :
               /\ incidents'[i].status = IF i \in Due THEN "closed" ELSE incidents[i].status
               /\ incidents'[i].events = incidents[i].events
      BY <1>5, CheckFacts DEF IInv
    <2>2. \A c \in Container :
            Member(c, Due) <=> \E i \in Incident : i \in Due /\ incidents[i].events[c] > 0
      BY DEF Member, MembersOf, Due
    <2>3. \A i \in Due : incidents[i].status = "open"
      BY DEF Due, IsOpen
    <2>4. ASSUME NEW c \in Container, memberIncident'[c] # NoIncident
          PROVE  /\ incidents'[memberIncident'[c]].status = "open"
                 /\ incidents'[memberIncident'[c]].events[c] > 0
      <3>1. ~Member(c, Due) /\ memberIncident'[c] = memberIncident[c]
        BY <2>1, <2>4
      <3>2. memberIncident[c] \notin Due
        BY <1>1, <2>2, <2>4, <3>1
      <3>3. QED
        BY <1>1, <2>1, <2>4, <3>1, <3>2
    <2>5. ASSUME NEW i \in Incident, incidents'[i].status = "open",
                 NEW c \in Container, incidents'[i].events[c] > 0
          PROVE  memberIncident'[c] = i
      <3>1. i \notin Due /\ incidents[i].status = "open" /\ incidents[i].events[c] > 0
        BY <2>1, <2>5
      <3>2. ~Member(c, Due)
        BY <1>1, <2>2, <2>3, <3>1
      <3>3. QED
        BY <1>1, <2>1, <3>1, <3>2
    <2>6. QED
      BY <2>4, <2>5 DEF MembersAgree, IsOpen, MembersOf
  <1>6. QED
    BY <1>2, <1>3, <1>4, <1>5, StepCases

-----------------------------------------------------------------------------
(* Origins and messages.                                                   *)

\* Outside the aggregator, an origin changes only to a member, and with a
\* diagnosis only by a model.
LEMMA OtherStepDiagnoses ==
  ASSUME TypeOK, OtherStep, NEW i \in Incident
  PROVE  LET one == incidents[i]
             two == incidents'[i]
         IN /\ two.manualOrigin \in {one.manualOrigin} \union MembersOf(one)
            /\ two.candidateOrigin \in
                 {one.candidateOrigin} \union {Id[c] : c \in MembersOf(one)}
            /\ \/ /\ two.level = one.level
                  /\ two.candidateOrigin = one.candidateOrigin
                  /\ two.originConfidence = one.originConfidence
               \/ one.status # "unused" /\ two.level = "ai"
  <1> DEFINE one == incidents[i]
             two == incidents'[i]
             Kept ==
               /\ two.manualOrigin \in {one.manualOrigin} \union MembersOf(one)
               /\ two.candidateOrigin \in
                    {one.candidateOrigin} \union {Id[c] : c \in MembersOf(one)}
               /\ \/ /\ two.level = one.level
                     /\ two.candidateOrigin = one.candidateOrigin
                     /\ two.originConfidence = one.originConfidence
                  \/ one.status # "unused" /\ two.level = "ai"
  <1>0. \A j \in Incident : incidents[j] \in IncidentRecord
    BY DEF TypeOK
  <1>1. ASSUME NEW j \in Incident, NEW c \in Container, SetManualOrigin(j, c) PROVE Kept
    <2>1. c \in MembersOf(incidents[j]) /\ incidents' = [incidents EXCEPT ![j].manualOrigin = c]
      BY <1>1 DEF SetManualOrigin, NameOrigin
    <2>2. QED
      BY <1>0, <2>1 DEF TypeOK, IncidentRecord
  <1>2. ASSUME NEW j \in Incident, RequestDiagnosis(j) PROVE Kept
    <2>1. PICK n : incidents' = [incidents EXCEPT ![j].diagnoseCount = n]
      BY <1>2 DEF RequestDiagnosis
    <2>2. QED
      BY <1>0, <2>1 DEF TypeOK, IncidentRecord
  <1>3. ASSUME NEW call \in calls, NEW answer \in Answer, DiagnosisArrives(call, answer)
        PROVE  Kept
    <2> DEFINE j == call.incident
    <2>1. j \in Incident
      BY DEF TypeOK, Call
    <2>2. PICK origin :
            /\ origin \in {incidents[j].candidateOrigin} \union
                            {Id[c] : c \in MembersOf(incidents[j])}
            /\ \/ UNCHANGED incidents
               \/ /\ incidents[j].status = "open"
                  /\ incidents' = [incidents EXCEPT ![j].level = "ai",
                                                    ![j].candidateOrigin = origin]
      BY <1>3 DEF DiagnosisArrives, Sanitize, IsOpen
    <2> HIDE DEF j
    <2>3. CASE UNCHANGED incidents
      BY <2>3
    <2>4. CASE incidents' = [incidents EXCEPT ![j].level = "ai", ![j].candidateOrigin = origin]
               /\ incidents[j].status = "open"
      <3>1. incidents' = [incidents EXCEPT
              ![j] = [incidents[j] EXCEPT !.level = "ai", !.candidateOrigin = origin]]
        BY <2>1, <2>4 DEF TypeOK
      <3>2. CASE i = j
        <4>1. two = [one EXCEPT !.level = "ai", !.candidateOrigin = origin]
          BY <2>1, <3>1, <3>2 DEF TypeOK
        <4>2. /\ two.level = "ai" /\ two.candidateOrigin = origin
              /\ two.manualOrigin = one.manualOrigin
          BY <1>0, <4>1 DEF IncidentRecord
        <4>3. QED
          BY <2>2, <2>4, <3>2, <4>2
      <3>3. CASE i # j
        BY <3>1, <3>3 DEF TypeOK
      <3>4. QED
        BY <3>2, <3>3
    <2>5. QED
      BY <2>2, <2>3, <2>4
  <1>4. UNCHANGED incidents => Kept
    OBVIOUS
  <1>5. ReceiveMetrics => Kept
    BY <1>4 DEF ReceiveMetrics
  <1>6. (\E c \in Container : PassOver(c)) => Kept
    BY <1>4 DEF PassOver
  <1>7. (\E some \in SUBSET Container : Crash(some)) => Kept
    BY <1>4 DEF Crash
  <1>8. (\E c \in Container : Press(c) \/ Recover(c)) => Kept
    BY <1>4 DEF Press, Recover
  <1>9. Tick \/ UNCHANGED vars => Kept
    BY <1>4 DEF Tick, vars
  <1> HIDE DEF Kept
  <1>10. Kept
    BY <1>1, <1>2, <1>3, <1>5, <1>6, <1>7, <1>8, <1>9 DEF OtherStep
  <1>11. QED
    BY <1>10 DEF Kept

LEMMA OriginsStep == IInv /\ [Next]_vars => OriginsKept'
  <1> SUFFICES ASSUME IInv, [Next]_vars, NEW j \in Incident
               PROVE  LET inc == incidents'[j] IN
                      /\ inc.status = "unused" => MembersOf(inc) = {} /\ inc.level = "none"
                      /\ inc.status # "unused" =>
                           /\ inc.manualOrigin \in MembersOf(inc) \union {NoContainer}
                           /\ inc.candidateOrigin \in
                                MembersOf(inc) \union {Id[c] : c \in MembersOf(inc)}
    BY DEF OriginsKept
  <1> DEFINE one == incidents[j]
             two == incidents'[j]
             Kept(inc) ==
               /\ inc.status = "unused" => MembersOf(inc) = {} /\ inc.level = "none"
               /\ inc.status # "unused" =>
                    /\ inc.manualOrigin \in MembersOf(inc) \union {NoContainer}
                    /\ inc.candidateOrigin \in
                         MembersOf(inc) \union {Id[c] : c \in MembersOf(inc)}
  <1>1. Kept(one)
    BY DEF IInv, OriginsKept
  <1>2. one \in IncidentRecord /\ two \in IncidentRecord
    BY TypeStep DEF IInv, TypeOK
  <1> SUFFICES Kept(two)
    OBVIOUS
  <1>3. CASE OtherStep
    <2>1. two.status = one.status /\ two.events = one.events
      BY <1>3, OtherStepKeeps DEF IInv
    <2>2. MembersOf(two) = MembersOf(one)
      BY <2>1 DEF MembersOf
    <2>3. /\ two.manualOrigin \in {one.manualOrigin} \union MembersOf(one)
          /\ two.candidateOrigin \in
               {one.candidateOrigin} \union {Id[c] : c \in MembersOf(one)}
          /\ two.level = one.level \/ one.status # "unused"
      BY <1>3, OtherStepDiagnoses DEF IInv
    <2> HIDE DEF one, two
    <2>4. QED
      BY <1>1, <2>1, <2>2, <2>3
  <1>4. ASSUME NEW c \in Container, NEW i \in Incident, Adjoin(c, i) PROVE Kept(two)
    <2>1. CASE j = i
      <3>1. /\ two.status = "open" /\ one.status = "open"
            /\ two.events = [one.events EXCEPT ![c] = recentEvents[c]]
            /\ recentEvents[c] > 0
            /\ two.manualOrigin = one.manualOrigin
            /\ two.candidateOrigin \in Oldest(two)
        BY <1>4, <2>1, AdjoinFacts DEF IsOpen
      <3>2. MembersOf(one) \subseteq MembersOf(two)
        BY <1>2, <3>1 DEF MembersOf, IncidentRecord
      <3>3. QED
        BY <1>1, <3>1, <3>2 DEF Oldest
    <2>2. CASE j # i
      <3>1. two = one
        <4>1. \A k \in Incident \ {i} : incidents'[k] = incidents[k]
          BY ONLY IInv, <1>4, AdjoinFacts
        <4>2. QED
          BY <2>2, <4>1
      <3>2. QED
        BY <1>1, <3>1
    <2>3. QED
      BY <2>1, <2>2
  <1>5. ASSUME NEW i \in Incident, NEW group \in SUBSET Container, OpenIncident(i, group)
        PROVE  Kept(two)
    <2>1. CASE j = i
      <3>1. /\ two.status = "open" /\ two.manualOrigin = NoContainer
            /\ two.candidateOrigin \in Oldest(two)
        BY <1>5, <2>1, OpenFacts
      <3>2. QED
        BY <3>1 DEF Oldest
    <2>2. CASE j # i
      <3>1. two = one
        BY <1>5, <2>2, OpenFacts
      <3>2. QED
        BY <1>1, <3>1
    <2>3. QED
      BY <2>1, <2>2
  <1>6. CASE CheckQuietPeriods
    <2>1. /\ two.status = IF j \in Due THEN "closed" ELSE one.status
          /\ two.events = one.events
          /\ two.manualOrigin = one.manualOrigin
          /\ two.candidateOrigin = one.candidateOrigin
          /\ two.level = one.level
      BY <1>6, CheckFacts DEF IInv
    <2>2. MembersOf(two) = MembersOf(one)
      BY <2>1 DEF MembersOf
    <2>3. j \in Due => one.status = "open"
      BY DEF Due, IsOpen
    <2> HIDE DEF one, two, Due
    <2>4. QED
      BY <1>1, <2>1, <2>2, <2>3
  <1> HIDE DEF Kept
  <1>7. QED
    BY <1>3, <1>4, <1>5, <1>6, StepCases

LEMMA MessageStep == IInv /\ [Next]_vars => MessageKept'
  <1> SUFFICES ASSUME IInv, [Next]_vars PROVE MessageKept'
    OBVIOUS
  <1>1. /\ \A c \in anomalous : recentEvents[c] > 0
        /\ \A c \in todo : ~Assigned(c)
    BY DEF IInv, MessageKept
  <1>2. CASE OtherStep
    <2>1. \A c \in Container : Assigned(c)' <=> Assigned(c)
      BY <1>2, OtherStepKeeps, NameAssumption DEF Assigned, IsOpen, IInv, TypeOK
    <2>2. CASE ReceiveMetrics
      <3>1. PICK undated \in SUBSET Unreadable :
              /\ anomalous' \subseteq Container
              /\ recentEvents' = [c \in Container |->
                   IF c \in anomalous' /\ recentEvents[c] = 0
                   THEN IF c \in undated THEN now ELSE changed[c]
                   ELSE recentEvents[c]]
        BY <2>2 DEF ReceiveMetrics
      <3>2. \A c \in anomalous' : recentEvents'[c] > 0
        BY <3>1 DEF IInv, TypeOK
      <3>3. todo' = {c \in anomalous' : ~Assigned(c)}
        BY <2>2 DEF ReceiveMetrics
      <3>4. \A c \in todo' : ~(Assigned(c)')
        BY <2>1, <3>1, <3>3
      <3>5. QED
        BY <3>2, <3>4 DEF MessageKept
    <2>3. CASE \/ \E c \in Container : PassOver(c)
               \/ UNCHANGED <<recentEvents, messageVars>>
      <3>1. anomalous' = anomalous /\ recentEvents' = recentEvents /\ todo' \subseteq todo
        BY <2>3 DEF PassOver, messageVars
      <3>2. \A c \in todo' : ~(Assigned(c)')
        BY <1>1, <2>1, <3>1 DEF IInv, TypeOK
      <3>3. QED
        BY <1>1, <3>1, <3>2 DEF MessageKept
    <2>4. QED
      BY <1>2, <2>2, <2>3
      DEF OtherStep, SetManualOrigin, NameOrigin, RequestDiagnosis, DiagnosisArrives,
          Crash, Press, Recover, Tick, vars, messageVars
  <1>3. ASSUME NEW c \in Container, NEW i \in Incident, Adjoin(c, i) PROVE MessageKept'
    <2>1. /\ todo' = todo \ {c} /\ anomalous' = anomalous /\ recentEvents' = recentEvents
          /\ memberIncident' = [memberIncident EXCEPT ![c] = i]
      BY <1>3 DEF Adjoin, TakeIn
    <2>2. ASSUME NEW d \in todo' PROVE memberIncident'[d] = NoIncident
      <3>1. d \in todo /\ d # c
        BY <2>1
      <3>2. memberIncident[d] = NoIncident
        BY <1>1, <3>1 DEF Assigned, IInv, TypeOK, MembersAgree
      <3>3. QED
        BY <2>1, <3>1, <3>2 DEF IInv, TypeOK
    <2>3. \A d \in todo' : ~(Assigned(d)')
      BY <2>2 DEF Assigned
    <2>4. QED
      BY <1>1, <2>1, <2>3 DEF MessageKept
  <1>4. ASSUME NEW i \in Incident, NEW group \in SUBSET Container, OpenIncident(i, group)
        PROVE  MessageKept'
    <2>1. todo' = {} /\ anomalous' = anomalous /\ recentEvents' = recentEvents
      BY <1>4 DEF OpenIncident
    <2>2. QED
      BY <1>1, <2>1 DEF MessageKept
  <1>5. CASE CheckQuietPeriods
    BY <1>5, CheckFacts DEF IInv, MessageKept
  <1>6. QED
    BY <1>2, <1>3, <1>4, <1>5, StepCases

LEMMA InitInvariant == Init => IInv
  <1> SUFFICES ASSUME Init PROVE IInv
    OBVIOUS
  <1>1. TypeOK
    BY InitTypes
  <1>2. MembersAgree
    BY DEF Init, MembersAgree, IsOpen, Unused
  <1>3. OriginsKept
    BY DEF Init, OriginsKept, Unused, MembersOf
  <1>4. MessageKept
    BY DEF Init, MessageKept
  <1>5. QED
    BY <1>1, <1>2, <1>3, <1>4 DEF IInv

LEMMA InvariantStep == IInv /\ [Next]_vars => IInv'
  BY TypeStep, MembersStep, OriginsStep, MessageStep DEF IInv

LEMMA Invariance == Spec => []IInv
  BY InitInvariant, InvariantStep, PTL DEF Spec

-----------------------------------------------------------------------------
(* The theorems.                                                           *)

\* Type correctness of the aggregator for any containers and windows.
THEOREM AggregatorTypes == Spec => []TypeOK
  <1>1. IInv => TypeOK
    BY DEF IInv
  <1>2. QED
    BY Invariance, <1>1, PTL

\* Index and incidents always agree, so no container is in two open incidents
\* (memberIncident and Members in incident_aggregator.go).
THEOREM AggregatorMembers == Spec => []MembersAgree
  <1>1. IInv => MembersAgree
    BY DEF IInv
  <1>2. QED
    BY Invariance, <1>1, PTL

\* The origin of an incident is a member of it, whoever named it and in whatever
\* order answers, keys and adjunctions came (EffectiveOrigin).
THEOREM AggregatorOrigins == Spec => []OriginsAreMembers
  <1>1. IInv => OriginsAreMembers
    BY DEF IInv, OriginsKept, OriginsAreMembers, EffectiveOrigin
  <1>2. QED
    BY Invariance, <1>1, PTL

\* What RuleOriginIsOldest says of one incident.
NamedByRules(inc) ==
  LET others == MembersOf(inc) \ {inc.candidateOrigin} IN
    inc.status # "unused" /\ inc.level = "rule" =>
      /\ inc.candidateOrigin \in Oldest(inc)
      /\ inc.originConfidence = "confirmed" =>
           \E c \in others : <<c, inc.candidateOrigin>> \in Edge
      /\ inc.originConfidence = "undetermined" =>
           \E c \in others : inc.events[c] - inc.events[inc.candidateOrigin] <= Near

LEMMA FreshConfidence ==
  ASSUME TypeOK, NEW inc \in IncidentRecord,
         inc.candidateOrigin \in Oldest(inc),
         inc.originConfidence = Confidence(inc, inc.candidateOrigin)
  PROVE  NamedByRules(inc)
  BY DEF NamedByRules, Confidence, TypeOK

LEMMA RuleStep == IInv /\ RuleOriginIsOldest /\ [Next]_vars => RuleOriginIsOldest'
  <1> SUFFICES ASSUME IInv, RuleOriginIsOldest, [Next]_vars, NEW j \in Incident
               PROVE  NamedByRules(incidents'[j])
    BY DEF RuleOriginIsOldest, NamedByRules
  <1> DEFINE one == incidents[j]
             two == incidents'[j]
  <1>1. NamedByRules(one)
    BY DEF RuleOriginIsOldest, NamedByRules
  <1>2. one \in IncidentRecord /\ two \in IncidentRecord /\ TypeOK
    BY TypeStep DEF IInv, TypeOK
  <1>3. ASSUME two.status = "unused" => one.status = "unused", two.events = one.events,
               two.level = one.level,
               two.candidateOrigin = one.candidateOrigin,
               two.originConfidence = one.originConfidence
        PROVE  NamedByRules(two)
    <2>1. MembersOf(two) = MembersOf(one) /\ Oldest(two) = Oldest(one)
      BY <1>2, <1>3, SameEvents
    <2>2. CASE one.status = "unused"
      <3>1. one.level = "none"
        BY <2>2 DEF IInv, OriginsKept
      <3>2. QED
        BY <1>3, <3>1 DEF NamedByRules
    <2>3. CASE one.status # "unused"
      BY <1>1, <1>3, <2>1, <2>3 DEF NamedByRules
    <2>4. QED
      BY <2>2, <2>3
  <1>4. CASE OtherStep
    <2>1. two.status = one.status /\ two.events = one.events
      BY <1>4, OtherStepKeeps DEF IInv
    <2>2. \/ /\ two.level = one.level
             /\ two.candidateOrigin = one.candidateOrigin
             /\ two.originConfidence = one.originConfidence
          \/ two.level = "ai"
      BY <1>4, OtherStepDiagnoses DEF IInv
    <2>3. QED
      BY <1>3, <2>1, <2>2 DEF NamedByRules
  <1>5. ASSUME NEW c \in Container, NEW i \in Incident, Adjoin(c, i)
        PROVE  NamedByRules(two)
    <2>1. CASE j = i
      BY <1>2, <1>5, <2>1, AdjoinFacts, FreshConfidence
    <2>2. CASE j # i
      <3>1. two = one
        <4>1. \A n \in Incident \ {i} : incidents'[n] = incidents[n]
          BY <1>5, AdjoinFacts
        <4>2. QED
          BY <2>2, <4>1
      <3>2. QED
        BY <1>1, <3>1
    <2>3. QED
      BY <2>1, <2>2
  <1>6. ASSUME NEW i \in Incident, NEW group \in SUBSET Container, OpenIncident(i, group)
        PROVE  NamedByRules(two)
    <2>1. CASE j = i
      BY <1>2, <1>6, <2>1, OpenFacts, FreshConfidence
    <2>2. CASE j # i
      <3>1. two = one
        BY <1>6, <2>2, OpenFacts
      <3>2. QED
        BY <1>1, <3>1
    <2>3. QED
      BY <2>1, <2>2
  <1>7. CASE CheckQuietPeriods
    <2>1. /\ two.status = IF j \in Due THEN "closed" ELSE one.status
          /\ two.events = one.events /\ two.level = one.level
          /\ two.candidateOrigin = one.candidateOrigin
          /\ two.originConfidence = one.originConfidence
      BY <1>7, CheckFacts DEF IInv
    <2>2. two.status = "unused" => one.status = "unused"
      BY <2>1
    <2>3. QED
      BY <1>3, <2>1, <2>2
  <1>8. QED
    BY <1>4, <1>5, <1>6, <1>7, StepCases

\* Until a model answers, the origin is the oldest event of all members, late ones
\* included, and the confidence shown is that of this origin (recomputeIncident).
THEOREM AggregatorRules == Spec => []RuleOriginIsOldest
  <1>1. Init => RuleOriginIsOldest
    BY DEF Init, RuleOriginIsOldest, Unused
  <1>2. QED
    BY Invariance, <1>1, RuleStep, PTL DEF Spec

\* A model's diagnosis is never replaced by one of the rules (recomputeIncident).
THEOREM AggregatorDiagnoses == Spec => DiagnosisKept
  <1>1. IInv /\ [Next]_vars =>
          [\A i \in Incident : incidents[i].level = "ai" => incidents'[i].level = "ai"]_vars
    <2> SUFFICES ASSUME IInv, [Next]_vars, NEW j \in Incident, incidents[j].level = "ai"
                 PROVE  incidents'[j].level = "ai"
      OBVIOUS
    <2>1. incidents[j].status # "unused"
      BY DEF IInv, OriginsKept
    <2>2. CASE OtherStep
      BY <2>2, OtherStepDiagnoses DEF IInv
    <2>3. ASSUME NEW c \in Container, NEW i \in Incident, Adjoin(c, i)
          PROVE  incidents'[j].level = "ai"
      <3>1. CASE j = i
        BY <2>3, <3>1, AdjoinFacts
      <3>2. CASE j # i
        BY <2>3, <3>2, AdjoinFacts
      <3>3. QED
        BY <3>1, <3>2
    <2>4. ASSUME NEW i \in Incident, NEW group \in SUBSET Container, OpenIncident(i, group)
          PROVE  incidents'[j].level = "ai"
      BY <2>1, <2>4, OpenFacts
    <2>5. CASE CheckQuietPeriods
      BY <2>5, CheckFacts DEF IInv
    <2>6. QED
      BY <2>2, <2>3, <2>4, <2>5, StepCases
  <1>2. QED
    BY Invariance, <1>1, PTL DEF Spec, DiagnosisKept

-----------------------------------------------------------------------------
(* The budget of model calls.                                              *)

\* Nobody has asked about an incident that was not formed, and none is counted
\* as opened or added to.
Uncalled ==
  \A i \in Incident : incidents[i].status = "unused" =>
    incidents[i].diagnoseCount = 0 /\ i \notin updated

LEMMA UncalledStep == IInv /\ Uncalled /\ [Next]_vars => Uncalled'
  <1> SUFFICES ASSUME IInv, Uncalled, [Next]_vars PROVE Uncalled'
    OBVIOUS
  <1>0. \A i \in Incident : incidents[i] \in IncidentRecord
    BY DEF IInv, TypeOK
  <1>1. CASE OtherStep
    <2>1. \A i \in Incident : incidents'[i].status = incidents[i].status
      BY <1>1, OtherStepKeeps DEF IInv
    <2>2. updated' \subseteq updated
      BY <1>1 DEF OtherStep, ReceiveMetrics, PassOver, SetManualOrigin, NameOrigin,
                  RequestDiagnosis, DiagnosisArrives, Crash, Press, Recover, Tick,
                  vars, messageVars
    <2> DEFINE Kept == \A i \in Incident : incidents[i].status = "unused" =>
                         incidents'[i].diagnoseCount = incidents[i].diagnoseCount
    <2>3. ASSUME NEW i \in Incident, RequestDiagnosis(i) PROVE Kept
      <3>1. PICK n : incidents' = [incidents EXCEPT ![i].diagnoseCount = n]
        BY <2>3 DEF RequestDiagnosis
      <3>2. incidents[i].status # "unused"
        BY <2>3 DEF RequestDiagnosis
      <3>3. QED
        BY <1>0, <3>1, <3>2 DEF IInv, TypeOK
    <2>4. ASSUME NEW call \in calls, NEW answer \in Answer, DiagnosisArrives(call, answer)
          PROVE  Kept
      <3>1. PICK origin :
              \/ UNCHANGED incidents
              \/ incidents' = [incidents EXCEPT ![call.incident].level = "ai",
                                                ![call.incident].candidateOrigin = origin]
        BY <2>4 DEF DiagnosisArrives
      <3>2. call.incident \in Incident
        BY DEF IInv, TypeOK, Call
      <3>3. QED
        BY <1>0, <3>1, <3>2 DEF IInv, TypeOK, IncidentRecord
    <2>5. ASSUME NEW i \in Incident, NEW c \in Container, SetManualOrigin(i, c) PROVE Kept
      <3>1. incidents' = [incidents EXCEPT ![i].manualOrigin = c]
        BY <2>5 DEF SetManualOrigin, NameOrigin
      <3>2. QED
        BY <1>0, <3>1 DEF IInv, TypeOK, IncidentRecord
    <2>6. UNCHANGED incidents => Kept
      OBVIOUS
    <2>7. ReceiveMetrics \/ (\E c \in Container : PassOver(c)) => Kept
      BY <2>6 DEF ReceiveMetrics, PassOver
    <2>8. (\E some \in SUBSET Container : Crash(some)) \/ Tick \/ UNCHANGED vars => Kept
      BY <2>6 DEF Crash, Tick, vars
    <2>9. (\E c \in Container : Press(c) \/ Recover(c)) => Kept
      BY <2>6 DEF Press, Recover
    <2> HIDE DEF Kept
    <2>10. Kept
      BY <1>1, <2>3, <2>4, <2>5, <2>7, <2>8, <2>9 DEF OtherStep
    <2>11. QED
      BY <2>1, <2>2, <2>10 DEF Uncalled, Kept
  <1>2. ASSUME NEW c \in Container, NEW i \in Incident, Adjoin(c, i) PROVE Uncalled'
    <2>1. updated' = updated \union {i}
      BY <1>2 DEF Adjoin, TakeIn
    <2>2. incidents'[i].status = "open"
          /\ \A j \in Incident \ {i} : incidents'[j] = incidents[j]
      BY <1>2, AdjoinFacts
    <2>3. QED
      BY <2>1, <2>2 DEF Uncalled
  <1>3. ASSUME NEW i \in Incident, NEW group \in SUBSET Container, OpenIncident(i, group)
        PROVE  Uncalled'
    <2>1. updated' = updated \union {i}
      BY <1>3 DEF OpenIncident
    <2>2. incidents'[i].status = "open"
          /\ \A j \in Incident \ {i} : incidents'[j] = incidents[j]
      BY <1>3, OpenFacts
    <2>3. QED
      BY <2>1, <2>2 DEF Uncalled
  <1>4. CASE CheckQuietPeriods
    <2>1. updated' = {}
      BY <1>4 DEF CheckQuietPeriods, EndMessage
    <2>2. \A i \in Incident :
            /\ incidents'[i].status = IF i \in Due THEN "closed" ELSE incidents[i].status
            /\ incidents'[i].diagnoseCount =
                 IF Final(i) \/ First(i) THEN incidents[i].diagnoseCount + 1
                 ELSE incidents[i].diagnoseCount
      BY <1>4, CheckFacts DEF IInv
    <2>3. \A i \in Incident : incidents[i].status = "unused" => ~Final(i) /\ ~First(i)
      BY DEF Final, First, Due, IsOpen, Uncalled
    <2> HIDE DEF Due
    <2>4. QED
      BY <2>1, <2>2, <2>3 DEF Uncalled
  <1>5. QED
    BY <1>1, <1>2, <1>3, <1>4, StepCases

LEMMA BudgetStep == IInv /\ Uncalled /\ BudgetKept /\ [Next]_vars => BudgetKept'
  <1> SUFFICES ASSUME IInv, Uncalled, BudgetKept, [Next]_vars PROVE BudgetKept'
    OBVIOUS
  <1> DEFINE count(i) == incidents[i].diagnoseCount
  <1>1. /\ \A i \in Incident : incidents[i] \in IncidentRecord /\ count(i) \in Nat /\ count(i) <= 2
        /\ \A call \in calls :
             /\ call.incident \in Incident
             /\ call.number \in 1 .. count(call.incident)
             /\ call.final => incidents[call.incident].status = "closed"
             /\ \A other \in calls :
                  other.incident = call.incident /\ other.number = call.number => other = call
    BY DEF IInv, TypeOK, Call, IncidentRecord, BudgetKept
  <1>2. ASSUME calls' \subseteq calls,
               \A i \in Incident : /\ incidents'[i].diagnoseCount = incidents[i].diagnoseCount
                                   /\ incidents[i].status = "closed" =>
                                        incidents'[i].status = "closed"
        PROVE  BudgetKept'
    BY <1>1, <1>2 DEF BudgetKept
  <1>3. CASE OtherStep
    <2>1. ASSUME NEW i \in Incident, RequestDiagnosis(i) PROVE BudgetKept'
      <3> DEFINE n == count(i) + 1
                 asked == [incident |-> i, number |-> n, final |-> FALSE]
      <3>1. /\ incidents' = [incidents EXCEPT ![i].diagnoseCount = n]
            /\ calls' = calls \union {asked} /\ count(i) < 2
        BY <2>1 DEF RequestDiagnosis, IInv, TypeOK
      <3>2. /\ incidents'[i].diagnoseCount = n /\ incidents'[i].status = incidents[i].status
            /\ \A j \in Incident \ {i} : incidents'[j] = incidents[j]
        BY <1>1, <3>1 DEF IInv, TypeOK, IncidentRecord
      <3>3. n \in Nat /\ n <= 2 /\ n >= 1 /\ n = count(i) + 1
        BY <1>1, <3>1
      <3> HIDE DEF n
      <3>4. /\ asked.incident = i /\ asked.number = n /\ asked.final = FALSE
        OBVIOUS
      <3> HIDE DEF asked
      <3>5. \A j \in Incident : incidents'[j].diagnoseCount <= 2
        BY <1>1, <3>2, <3>3
      <3>6. ASSUME NEW call \in calls'
            PROVE  /\ call.number \in 1 .. incidents'[call.incident].diagnoseCount
                   /\ call.final => incidents'[call.incident].status = "closed"
        <4>1. CASE call \in calls
          <5>1. CASE call.incident = i
            BY <1>1, <3>2, <3>3, <4>1, <5>1
          <5>2. CASE call.incident # i
            BY <1>1, <3>2, <4>1, <5>2
          <5>3. QED
            BY <5>1, <5>2
        <4>2. CASE call = asked
          BY <3>2, <3>3, <3>4, <4>2
        <4>3. QED
          BY <3>1, <4>1, <4>2
      <3>7. ASSUME NEW call \in calls', NEW other \in calls',
                   other.incident = call.incident, other.number = call.number
            PROVE  other = call
        <4>1. \A old \in calls : ~(old.incident = i /\ old.number = n)
          BY <1>1, <3>3
        <4>2. QED
          BY <1>1, <3>1, <3>4, <3>7, <4>1
      <3>8. QED
        BY <3>5, <3>6, <3>7 DEF BudgetKept
    <2>2. ASSUME NEW call \in calls, NEW answer \in Answer, DiagnosisArrives(call, answer)
          PROVE  BudgetKept'
      <3>1. PICK origin :
              \/ UNCHANGED incidents
              \/ incidents' = [incidents EXCEPT ![call.incident].level = "ai",
                                                ![call.incident].candidateOrigin = origin]
        BY <2>2 DEF DiagnosisArrives
      <3>2. \A i \in Incident : /\ incidents'[i].diagnoseCount = incidents[i].diagnoseCount
                                /\ incidents'[i].status = incidents[i].status
        <4>1. call.incident \in Incident
          BY <1>1
        <4>2. QED
          BY <1>1, <3>1, <4>1 DEF IInv, TypeOK, IncidentRecord
      <3>3. calls' \subseteq calls
        BY <2>2 DEF DiagnosisArrives
      <3>4. QED
        BY <1>2, <3>2, <3>3
    <2>3. ASSUME NEW i \in Incident, NEW c \in Container, SetManualOrigin(i, c)
          PROVE  BudgetKept'
      <3>1. incidents' = [incidents EXCEPT ![i].manualOrigin = c] /\ calls' = calls
        BY <2>3 DEF SetManualOrigin, NameOrigin
      <3>2. \A j \in Incident : /\ incidents'[j].diagnoseCount = incidents[j].diagnoseCount
                                /\ incidents'[j].status = incidents[j].status
        BY <1>1, <3>1 DEF IInv, TypeOK, IncidentRecord
      <3>3. QED
        BY <1>2, <3>1, <3>2
    <2>4. UNCHANGED <<incidents, calls>> => BudgetKept'
      BY <1>2
    <2>5. ReceiveMetrics \/ (\E c \in Container : PassOver(c)) => BudgetKept'
      BY <2>4 DEF ReceiveMetrics, PassOver
    <2>6. (\E some \in SUBSET Container : Crash(some)) \/ Tick \/ UNCHANGED vars => BudgetKept'
      BY <2>4 DEF Crash, Tick, vars
    <2>7. (\E c \in Container : Press(c) \/ Recover(c)) => BudgetKept'
      BY <2>4 DEF Press, Recover
    <2>8. QED
      BY <1>3, <2>1, <2>2, <2>3, <2>5, <2>6, <2>7 DEF OtherStep
  <1>4. ASSUME NEW c \in Container, NEW i \in Incident, Adjoin(c, i) PROVE BudgetKept'
    <2>1. calls' = calls
      BY <1>4 DEF Adjoin, TakeIn
    <2>2. /\ \A j \in Incident \ {i} : incidents'[j] = incidents[j]
          /\ incidents'[i].diagnoseCount = incidents[i].diagnoseCount
          /\ incidents[i].status = "open"
      BY <1>4, AdjoinFacts DEF IsOpen
    <2>3. QED
      BY <1>2, <2>1, <2>2
  <1>5. ASSUME NEW i \in Incident, NEW group \in SUBSET Container, OpenIncident(i, group)
        PROVE  BudgetKept'
    <2>1. calls' = calls
      BY <1>5 DEF OpenIncident
    <2>2. /\ \A j \in Incident \ {i} : incidents'[j] = incidents[j]
          /\ incidents'[i].diagnoseCount = 0
          /\ incidents[i].status = "unused"
      BY <1>5, OpenFacts
    <2>3. incidents[i].diagnoseCount = 0
      BY <2>2 DEF Uncalled
    <2>4. QED
      BY <1>2, <2>1, <2>2, <2>3
  <1>6. CASE CheckQuietPeriods
    <2>1. \A i \in Incident :
            /\ incidents'[i].status = IF i \in Due THEN "closed" ELSE incidents[i].status
            /\ incidents'[i].diagnoseCount =
                 IF Final(i) \/ First(i) THEN count(i) + 1 ELSE count(i)
      BY <1>6, CheckFacts DEF IInv
    <2> DEFINE asked(i) ==
          [incident |-> i, number |-> count(i) + 1, final |-> Final(i)]
    <2>2. calls' = calls \union {asked(i) : i \in {j \in Incident : Final(j) \/ First(j)}}
      BY <1>6 DEF CheckQuietPeriods, EndMessage
    <2>3. \A i \in Incident : Final(i) \/ First(i) => count(i) < 2
      BY <1>1 DEF Final, First
    <2>4. \A i \in Incident : asked(i).incident = i /\ asked(i).number = count(i) + 1
                              /\ asked(i).final = Final(i)
      OBVIOUS
    <2>5. \A i \in Incident : Final(i) => i \in Due
      BY DEF Final
    <2> HIDE DEF asked
    <2>6. \A i \in Incident : incidents'[i].diagnoseCount <= 2
      BY <1>1, <2>1, <2>3
    <2>7. ASSUME NEW call \in calls'
          PROVE  /\ call.number \in 1 .. incidents'[call.incident].diagnoseCount
                 /\ call.final => incidents'[call.incident].status = "closed"
      <3>1. CASE call \in calls
        BY <1>1, <2>1, <3>1
      <3>2. ASSUME NEW i \in Incident, Final(i) \/ First(i), call = asked(i)
            PROVE  /\ call.number \in 1 .. incidents'[call.incident].diagnoseCount
                   /\ call.final => incidents'[call.incident].status = "closed"
        BY <1>1, <2>1, <2>4, <2>5, <3>2
      <3>3. QED
        BY <2>2, <3>1, <3>2
    <2>8. ASSUME NEW call \in calls', NEW other \in calls',
                 other.incident = call.incident, other.number = call.number
          PROVE  other = call
      <3>1. ASSUME NEW old \in calls, NEW i \in Incident
            PROVE  ~(old.incident = asked(i).incident /\ old.number = asked(i).number)
        <4>1. SUFFICES ASSUME old.incident = i, old.number = count(i) + 1 PROVE FALSE
          BY <2>4
        <4>2. count(i) \in Nat /\ old.number \in 1 .. count(i)
          BY <1>1, <4>1
        <4>3. QED
          BY <4>1, <4>2
      <3>2. CASE call \in calls /\ other \in calls
        BY <1>1, <2>8, <3>2
      <3>3. CASE ~(call \in calls /\ other \in calls)
        BY <2>2, <2>4, <2>8, <3>1, <3>3
      <3>4. QED
        BY <3>2, <3>3
    <2>9. QED
      BY <2>6, <2>7, <2>8 DEF BudgetKept
  <1>7. QED
    BY <1>3, <1>4, <1>5, <1>6, StepCases

\* However openings, adjunctions, closings and the operator's key follow each
\* other, an incident costs at most two model calls, each counted once
\* (diagnoseCount in update.go).
THEOREM AggregatorBudget == Spec => []BudgetKept
  <1>1. Init => Uncalled /\ BudgetKept
    BY DEF Init, Uncalled, BudgetKept, Unused
  <1>2. QED
    BY Invariance, <1>1, UncalledStep, BudgetStep, PTL DEF Spec

-----------------------------------------------------------------------------
(* The incidents implement IncidentGroups.                                 *)

\* The variables of IncidentGroups.
Members == [i \in Incident |-> MembersOf(incidents[i])]
OpenOnes == {i \in Incident : IsOpen(i)}

LEMMA GroupsInit == Init => Groups!Init
  BY DEF Init, Groups!Init, Unused, IsOpen, MembersOf

\* Whoever has no incident in the index is in no open group.
LEMMA NotTaken ==
  ASSUME IInv, NEW c \in Container, memberIncident[c] = NoIncident
  PROVE  c \notin Groups!Taken
  BY NameAssumption DEF IInv, MembersAgree, Groups!Taken, IsOpen

LEMMA GroupsStep ==
  IInv /\ IInv' /\ [Next]_vars => [Groups!Next]_<<Members, OpenOnes>>
  <1> SUFFICES ASSUME IInv, IInv', [Next]_vars
               PROVE  Groups!Next \/ UNCHANGED <<Members, OpenOnes>>
    BY DEF Members, OpenOnes
  <1>1. CASE OtherStep
    <2>1. \A i \in Incident : /\ incidents'[i].status = incidents[i].status
                              /\ incidents'[i].events = incidents[i].events
      BY <1>1, OtherStepKeeps DEF IInv
    <2>2. QED
      BY <2>1 DEF Members, OpenOnes, MembersOf, IsOpen
  <1>2. ASSUME NEW c \in Container, NEW i \in Incident, Adjoin(c, i) PROVE Groups!Next
    <2>1. /\ IsOpen(i) /\ memberIncident[c] = NoIncident
          /\ \A j \in Incident \ {i} : incidents'[j] = incidents[j]
          /\ incidents'[i].status = "open"
          /\ incidents'[i].events = [incidents[i].events EXCEPT ![c] = recentEvents[c]]
          /\ recentEvents[c] > 0
      BY <1>2, AdjoinFacts
    <2>2. MembersOf(incidents'[i]) = MembersOf(incidents[i]) \union {c}
      BY <2>1 DEF MembersOf, IInv, TypeOK, IncidentRecord
    <2>3. Members' = [Members EXCEPT ![i] = @ \union {c}]
      BY <2>1, <2>2 DEF Members
    <2>4. OpenOnes' = OpenOnes
      BY <2>1 DEF OpenOnes, IsOpen
    <2>5. c \notin Groups!Taken
      BY <2>1, NotTaken
    <2>6. \E m \in Members[i] : <<c, m>> \in Link
      BY <1>2 DEF Adjoin, CanAdjoin, Related, Members
    <2>7. i \in OpenOnes
      BY <2>1 DEF OpenOnes
    <2>8. Groups!Join(i, c)
      BY <2>3, <2>4, <2>5, <2>6, <2>7 DEF Groups!Join, Members, OpenOnes
    <2>9. QED
      BY <2>8 DEF Groups!Next
  <1>3. ASSUME NEW i \in Incident, NEW group \in SUBSET Container, OpenIncident(i, group)
        PROVE  Groups!Next
    <2>1. /\ incidents[i].status = "unused" /\ Component(group)
          /\ \A c \in group : memberIncident[c] = NoIncident
          /\ \A j \in Incident \ {i} : incidents'[j] = incidents[j]
          /\ incidents'[i].status = "open"
          /\ MembersOf(incidents'[i]) = group
      BY <1>3, OpenFacts
    <2>2. Members[i] = {}
      BY <2>1 DEF IInv, OriginsKept, Members
    <2>3. Members' = [Members EXCEPT ![i] = group]
      BY <2>1 DEF Members
    <2>4. OpenOnes' = OpenOnes \union {i}
      BY <2>1 DEF OpenOnes, IsOpen
    <2>5. group \intersect Groups!Taken = {}
      BY <2>1, NotTaken
    <2>6. \E a, b \in group : a # b
      <3>1. SUFFICES ASSUME \A a, b \in group : a = b PROVE FALSE
        OBVIOUS
      <3>2. Cardinality(group) >= 2
        BY <2>1 DEF Component
      <3>3. CASE group = {}
        BY <3>2, <3>3, FS_EmptySet
      <3>4. CASE group # {}
        <4>1. PICK a \in group : TRUE
          BY <3>4
        <4>2. group = {a}
          BY <3>1, <4>1
        <4>3. Cardinality(group) = 1
          BY <4>2, FS_Singleton
        <4>4. QED
          BY <3>2, <4>3
      <3>5. QED
        BY <3>3, <3>4
    <2>7. Groups!Connected(group)
      BY <2>1 DEF Component, ConnectedComponent, Groups!Connected
    <2>8. Groups!Open(i, group)
      BY <2>2, <2>3, <2>4, <2>5, <2>6, <2>7 DEF Groups!Open, Members, OpenOnes
    <2>9. QED
      BY <2>8 DEF Groups!Next
  <1>4. CASE CheckQuietPeriods
    <2>1. \A i \in Incident :
            /\ incidents'[i].status = IF i \in Due THEN "closed" ELSE incidents[i].status
            /\ incidents'[i].events = incidents[i].events
      BY <1>4, CheckFacts DEF IInv
    <2>2. Members' = Members
      BY <2>1 DEF Members, MembersOf
    <2>3. Due \subseteq OpenOnes
      BY DEF Due, OpenOnes
    <2> HIDE DEF Due
    <2>4. OpenOnes' = OpenOnes \ Due
      BY <2>1 DEF OpenOnes, IsOpen
    <2>5. Groups!Close(Due)
      BY <2>2, <2>4 DEF Groups!Close, Members, OpenOnes
    <2>6. Due \in SUBSET OpenOnes
      BY <2>3
    <2>7. QED
      BY <2>5, <2>6 DEF Groups!Next, OpenOnes
  <1>5. QED
    BY <1>1, <1>2, <1>3, <1>4, StepCases

\* The aggregator implements IncidentGroups: open incidents are disjoint groups
\* held together by topology, they only grow, and closed ones stay as they are
\* (IngestAnomalies and CheckQuietPeriods).
THEOREM AggregatorImplementsGroups == Spec => ImplementsGroups
  <1>1. IInv /\ IInv' /\ [Next]_vars => [Groups!Next]_<<Members, OpenOnes>>
    BY GroupsStep
  <1>2. QED
    BY Invariance, InvariantStep, GroupsInit, <1>1, PTL
    DEF Spec, ImplementsGroups, Groups!Spec, Members, OpenOnes

-----------------------------------------------------------------------------
(* Linked anomalies are taken.                                             *)

\* What is left without an incident and linked to a, step by step: what every set
\* has that holds a and whoever shares topology with one of its own.
Closed(S) == \A x \in S, y \in Unassigned : <<x, y>> \in Link => y \in S
Reach(a) == {x \in Unassigned : \A S \in SUBSET Unassigned : a \in S /\ Closed(S) => x \in S}

LEMMA ReachIsConnected ==
  ASSUME TypeOK, NEW a \in Unassigned
  PROVE  Closed(Reach(a)) /\ ConnectedComponent(Reach(a))
  <1> DEFINE C == Reach(a)
  <1>1. Unassigned \subseteq Container
    BY DEF TypeOK, Unassigned
  <1>2. a \in C /\ C \subseteq Unassigned
    BY DEF Reach
  <1>3. \A S \in SUBSET Unassigned : a \in S /\ Closed(S) => C \subseteq S
    BY DEF Reach
  <1>4. Closed(C)
    <2> SUFFICES ASSUME NEW x \in C, NEW y \in Unassigned, <<x, y>> \in Link,
                        NEW S \in SUBSET Unassigned, a \in S, Closed(S)
                 PROVE  y \in S
      BY DEF Closed, Reach
    <2>1. x \in S
      BY <1>3
    <2>2. QED
      BY <2>1 DEF Closed
  <1> HIDE DEF C
  <1>5. ASSUME NEW part \in SUBSET C, part # {}, part # C,
               \A p \in part, q \in C \ part : <<p, q>> \notin Link
        PROVE  FALSE
    <2>1. CASE a \in part
      <3>1. Closed(part)
        BY <1>2, <1>4, <1>5 DEF Closed
      <3>2. C \subseteq part
        BY <1>2, <1>3, <2>1, <3>1
      <3>3. QED
        BY <1>5, <3>2
    <2>2. CASE a \notin part
      <3>1. Closed(C \ part)
        <4> SUFFICES ASSUME NEW x \in C \ part, NEW y \in Unassigned, <<x, y>> \in Link
                     PROVE  y \in C \ part
          BY DEF Closed
        <4>1. y \in C
          BY <1>4 DEF Closed
        <4>2. <<y, x>> \in Link
          BY <1>1, <1>2, LinkAssumption
        <4>3. QED
          BY <1>5, <4>1, <4>2
      <3>2. C \subseteq C \ part
        BY <1>2, <1>3, <2>2, <3>1
      <3>3. QED
        BY <1>5, <3>2
    <2>3. QED
      BY <2>1, <2>2
  <1>6. \A x \in C, y \in Unassigned \ C : <<x, y>> \notin Link
    BY <1>4 DEF Closed
  <1>7. ConnectedComponent(C)
    <2>1. \A part \in (SUBSET C) \ {{}, C} : \E p \in part, q \in C \ part : <<p, q>> \in Link
      BY <1>5
    <2>2. QED
      BY <1>2, <1>6, <2>1 DEF ConnectedComponent
  <1>8. QED
    BY <1>4, <1>7 DEF C

LEMMA TwoAreTwo ==
  ASSUME NEW S, IsFiniteSet(S), NEW a \in S, NEW b \in S, a # b
  PROVE  Cardinality(S) >= 2
  <1>1. IsFiniteSet({a}) /\ Cardinality({a}) = 1
    BY FS_Singleton
  <1>2. IsFiniteSet({a} \cup {b}) /\ Cardinality({a} \cup {b}) = 2
    <2>1. b \notin {a}
      OBVIOUS
    <2>2. /\ IsFiniteSet({a} \cup {b})
          /\ Cardinality({a} \cup {b}) = IF b \in {a} THEN Cardinality({a}) ELSE Cardinality({a}) + 1
      BY <1>1, FS_AddElement
    <2>3. QED
      BY <1>1, <2>1, <2>2
  <1>3. {a} \cup {b} \in SUBSET S
    OBVIOUS
  <1>4. Cardinality({a} \cup {b}) <= Cardinality(S)
    BY <1>3, FS_Subset
  <1>5. Cardinality(S) \in Nat
    BY FS_CardinalityType
  <1>6. QED
    BY <1>2, <1>4, <1>5

\* Whichever messages came before, the one that ends leaves no two of its anomalies that
\* share topology without an incident (the components of IngestAnomalies): of two that
\* were, the closure of one would be a component, which the handler opens before it ends.
THEOREM AggregatorTakesLinked == Spec => LinkedPairsTaken
  <1>1. TypeOK /\ [Next]_vars =>
          [pc = "ingest" /\ pc' = "idle" =>
             \A a, b \in anomalous :
               a # b /\ <<a, b>> \in Link => Assigned(a) \/ Assigned(b)]_vars
    <2> SUFFICES ASSUME TypeOK, Next, pc = "ingest", pc' = "idle",
                        NEW a \in anomalous, NEW b \in anomalous, a # b, <<a, b>> \in Link,
                        ~Assigned(a), ~Assigned(b)
                 PROVE  FALSE
      OBVIOUS
    <2>1. CheckQuietPeriods
      BY DEF Next, ReceiveMetrics, Adjoin, TakeIn, PassOver, OpenIncident, SetManualOrigin,
         NameOrigin, RequestDiagnosis, DiagnosisArrives, Crash, Press, Recover, Tick
    <2>2. \A group \in SUBSET Unassigned : ~Component(group)
      BY <2>1 DEF CheckQuietPeriods, EndMessage
    <2>3. a \in Unassigned /\ b \in Unassigned /\ Unassigned \subseteq Container
      BY DEF Unassigned, TypeOK
    <2>4. ConnectedComponent(Reach(a)) /\ Closed(Reach(a))
      BY <2>3, ReachIsConnected
    <2>5. Reach(a) \in SUBSET Unassigned /\ a \in Reach(a)
      BY <2>3 DEF Reach
    <2>6. b \in Reach(a)
      BY <2>3, <2>4, <2>5 DEF Closed
    <2>7. IsFiniteSet(Reach(a))
      BY <2>3, <2>5, ContainerAssumption, FS_Subset
    <2>8. Cardinality(Reach(a)) >= 2
      BY <2>5, <2>6, <2>7, TwoAreTwo
    <2>9. Component(Reach(a))
      BY <2>4, <2>8 DEF Component
    <2>10. QED
      BY <2>2, <2>5, <2>9
  <1>2. QED
    BY <1>1, AggregatorTypes, PTL DEF Spec, LinkedPairsTaken
=============================================================================
