--------------------------- MODULE InterfaceLoop ----------------------------
(***************************************************************************)
(* The terminal interface as a whole (agent/internal/delivery/tui):        *)
(* SettingsScreens and FleetScreens, the diagnosis modal, and the messages *)
(* that arrive on any screen.                                              *)
(***************************************************************************)
EXTENDS FleetScreens

CONSTANT
  Session   \* bound: the halves of the interface a behaviour uses, "fleet", "settings"

\* The origin and the cascade of an incident are of its members (recomputeIncident and
\* SanitizeIncidentMembers), and a container has a name.
ASSUME IncidentAssumption ==
  \A i \in Incidents :
    /\ IsFiniteSet(i.members) /\ NoContainer \notin i.members
    /\ i.origin \in i.members \union {NoContainer}
    /\ i.cascade \in Seq(i.members)
    /\ i = [members |-> i.members, origin |-> i.origin, cascade |-> i.cascade,
            sure |-> i.sure]

VARIABLE session   \* the half that this one uses

allVars == <<vars, session>>

-----------------------------------------------------------------------------
(* The diagnosis modal, for a container or for its incident.               *)

Named(i) == ({i.origin} \ {NoContainer}) \union ToSet(i.cascade) \union i.members

\* What puts c where it is in the list: the origin, its place in the cascade, or neither.
Rank(i, c) ==
  IF c = i.origin THEN 0
  ELSE IF c \in ToSet(i.cascade) THEN Min({k \in DOMAIN i.cascade : i.cascade[k] = c})
  ELSE Len(i.cascade) + 1

\* getIncidentContainersList: origin, cascade, then the other members in the order a
\* Go map yields them, which is another each time; each once.
ContainerLists(i) ==
  {list \in SetToSeqs(Named(i)) :
     \A j, k \in DOMAIN list : j < k => Rank(i, list[j]) <= Rank(i, list[k])}

\* A container of an incident is looked for by name among identifiers, in vain, then
\* in the fleet as listed.
Found(c) == IF c \in ToSet(metrics) THEN c ELSE NoContainer

\* GetActiveIncidentFor: the aggregator's, if the container is in one.
DiagnoseKey ==
  /\ OnTable /\ OnContainer
  /\ selected' = Current /\ pending' = Current /\ line' = 0
  /\ incident' \in {NoIncident} \union {i \in Incidents : Current \in i.members}
  /\ screen' = IF incident' = NoIncident THEN "diagnosis" ELSE "incident"
  /\ listed' \in ContainerLists(incident')
  /\ UNCHANGED <<fleetVars, action, focus, resultVars>> /\ KeepSettings

InIncident == screen = "incident"
HasActionRow == incident.sure /\ incident.origin # NoContainer

IncidentMove ==
  /\ InIncident
  /\ line' \in {line - 1, line + 1} \intersect
               (0 .. Len(listed) - (IF HasActionRow THEN 0 ELSE 1))
  /\ listed' \in ContainerLists(incident)
  /\ UNCHANGED <<screen, fleetVars, selected, pending, action, focus, incident, resultVars>>
  /\ KeepSettings

IncidentLeave == InIncident /\ BackToTable /\ UNCHANGED <<focus, orders>>

\* o: the container under the cursor is named as the origin.
NameOriginKey ==
  /\ InIncident /\ line < Len(listed)
  /\ \E list \in ContainerLists(incident) :
       incident' = [incident EXCEPT !.origin = list[line + 1], !.sure = TRUE]
  /\ listed' \in ContainerLists(incident')
  /\ UNCHANGED <<screen, line, fleetVars, selected, pending, action, focus, resultVars>>
  /\ KeepSettings

\* enter on a container: its own diagnosis, by a list made anew.
OpenMember ==
  /\ InIncident /\ line < Len(listed)
  /\ \E list \in ContainerLists(incident) :
       selected' = Found(list[line + 1]) /\ pending' = Found(list[line + 1])
  /\ incident' = NoIncident /\ listed' = << >>
  /\ screen' = "diagnosis" /\ line' = 0
  /\ UNCHANGED <<fleetVars, action, focus, resultVars>> /\ KeepSettings

\* enter on the row of the action, or r, s, x: on the origin.
RemedyOrigin ==
  /\ InIncident /\ incident.origin # NoContainer
  /\ \E act \in Action : AskToConfirm(Found(incident.origin), act)

\* GetV4Actions: what is suggested, the logs, and a model unless one has
\* answered in full.
Actions ==
  LET r == IF selected = NoContainer THEN [suggests |-> "none", level |-> ""]
           ELSE results[selected] IN
  (IF r.suggests = "none" THEN << >> ELSE <<r.suggests>>) \o <<"logs">> \o
  (IF config.mode = "manual" \/ r.level \in {"RULE", "SIG", "AI~"} THEN <<"model">> ELSE << >>)

InDiagnosis == screen = "diagnosis"

DiagnosisMove ==
  /\ InDiagnosis /\ focus = 0
  /\ line' \in {line - 1, line + 1} \intersect (0 .. Len(Actions) - 1)
  /\ UNCHANGED <<screen, fleetVars, modalVars, resultVars>> /\ KeepSettings

\* tab, when the evidence is longer than its place; enter comes back.
FocusKey ==
  /\ InDiagnosis
  /\ focus' = 1 - focus
  /\ UNCHANGED <<screen, line, fleetVars, selected, pending, action, incident, listed,
                 resultVars>>
  /\ KeepSettings

DiagnosisLeave == InDiagnosis /\ BackToTable /\ focus' = 0 /\ UNCHANGED orders

\* enter on a row, or the key of an action; a model is asked as DiagnosisCascade says.
DiagnosisEnter ==
  /\ InDiagnosis
  /\ \E row \in {Actions[i] : i \in {j \in DOMAIN Actions : j = line + 1 /\ focus = 0}}
                \union Action \union {"logs"} :
       \/ row \in Action /\ AskToConfirm(pending, row)
       \/ /\ row = "logs" /\ FetchLogs(pending)
          /\ UNCHANGED <<line, fleetVars, modalVars>> /\ KeepSettings

-----------------------------------------------------------------------------
(* Messages.                                                               *)

\* A slip of Clamped: the cursor stays where it was.
ClampedNever(n) == cursor

\* The cursor in a table of n rows.
Clamped(n) == IF cursor >= n /\ n > 0 THEN n - 1 ELSE cursor

\* []ContainerMetric: a collection, asked for on the table but free to arrive on any
\* screen; the incident that is open may have grown with it.
Metrics ==
  /\ metrics' \in Fleets
  /\ cursor' = Clamped(Cardinality(Shown(metrics')))
  /\ incident' \in {incident} \union
       {i \in Incidents : InIncident /\ incident.members \subseteq i.members}
  /\ listed' \in IF InIncident THEN ContainerLists(incident') ELSE {listed}
  /\ UNCHANGED <<screen, line, filter, pinned, selected, pending, action, focus, resultVars>>
  /\ KeepSettings

\* logsMsg: whoever's they are, the viewer shows them.
LogsArrive ==
  /\ \E c \in logRequests :
       /\ logRequests' = logRequests \ {c}
       /\ viewer' = IF screen = "logs" THEN c ELSE viewer
  /\ UNCHANGED <<screen, line, fleetVars, modalVars, results, orders>> /\ KeepSettings

\* remediationResultMsg: and a collection is asked for.
OrderEnds ==
  /\ \E o \in orders : orders' = orders \ {o}
  /\ UNCHANGED <<screen, line, fleetVars, modalVars, results, viewer, logRequests>>
  /\ KeepSettings

\* diagnosisResultMsg.
DiagnosisArrives ==
  /\ \E c \in Diagnosed, r \in Results : results' = [results EXCEPT ![c] = r]
  /\ UNCHANGED <<screen, line, fleetVars, modalVars, viewer, logRequests, orders>>
  /\ KeepSettings

FleetStep ==
  \/ MoveKey \/ Mouse \/ FilterKey \/ PinKey \/ LogsKey \/ NetworkKey \/ LeaveKey
  \/ RemedyKey \/ ConfirmKey
  \/ DiagnoseKey \/ IncidentMove \/ IncidentLeave \/ NameOriginKey \/ OpenMember
  \/ RemedyOrigin
  \/ DiagnosisMove \/ FocusKey \/ DiagnosisLeave \/ DiagnosisEnter
  \/ Metrics \/ LogsArrive \/ OrderEnds \/ DiagnosisArrives

SettingsStep ==
  \/ OpenKey \/ TabKey
  \/ /\ SettingsKey \/ (screen # "panic" /\ (Discovered \/ Synced))
     /\ UNCHANGED <<fleetVars, modalVars, resultVars>>

InterfaceInit == Init /\ session \in Session

Next ==
  /\ UNCHANGED session
  /\ \/ session = "fleet" /\ FleetStep
     \/ session = "settings" /\ SettingsStep

Spec == InterfaceInit /\ [][Next]_allVars

-----------------------------------------------------------------------------
(* Properties.                                                             *)

\* D1, no action without consent: an order starts only on the screen that asks for
\* it, for the container and the action it has shown since it opened, whatever
\* lists, results and incidents arrived since then.
ConfirmedAsShown ==
  [][/\ orders' \subseteq orders \/
          /\ screen = "confirm"
          /\ orders' = orders \union {[container |-> pending, action |-> action]}
     /\ screen = "confirm" /\ screen' = "confirm" => UNCHANGED <<pending, action>>]_allVars

\* The cursors of the table and of an incident are not beyond their lists, over
\* collections that shrink the fleet, filters, pins and incidents that grow.
CursorsInLists ==
  /\ Rows > 0 => cursor < Rows
  /\ InIncident => line <= Len(listed)
=============================================================================
