-------------------------- MODULE InterfaceProofs ---------------------------
(***************************************************************************)
(* What is proved of the terminal interface: an order is what was          *)
(* confirmed, and no cursor is beyond its list, that of the models' browser *)
(* unless the list shrank under it.                                        *)
(***************************************************************************)
EXTENDS InterfaceLoop, FiniteSetTheorems, SequenceTheorems, WellFoundedInduction, TLAPS

-----------------------------------------------------------------------------
(* What the steps leave alone.                                             *)

\* No key on the screens of the fleet, and no message, changes what is set up.
LEMMA FleetKeepsSettings == FleetStep => UNCHANGED <<ai, config, changes>>
<1> USE DEF Keep, KeepSettings, KeepModal, BackToTable
<1>1. MoveKey \/ Mouse \/ FilterKey \/ PinKey \/ LogsKey \/ NetworkKey \/ LeaveKey
      => UNCHANGED <<ai, config, changes>>
  BY DEF MoveKey, Mouse, FilterKey, PinKey, LogsKey, NetworkKey, LeaveKey
<1>2. RemedyKey \/ ConfirmKey \/ RemedyOrigin => UNCHANGED <<ai, config, changes>>
  BY DEF RemedyKey, ConfirmKey, RemedyOrigin, AskToConfirm
<1>3. DiagnoseKey \/ IncidentMove \/ IncidentLeave \/ NameOriginKey \/ OpenMember
      => UNCHANGED <<ai, config, changes>>
  BY DEF DiagnoseKey, IncidentMove, IncidentLeave, NameOriginKey, OpenMember
<1>4. DiagnosisMove \/ FocusKey \/ DiagnosisLeave \/ DiagnosisEnter
      => UNCHANGED <<ai, config, changes>>
  BY DEF DiagnosisMove, FocusKey, DiagnosisLeave, DiagnosisEnter, AskToConfirm
<1>5. Metrics \/ LogsArrive \/ OrderEnds \/ DiagnosisArrives
      => UNCHANGED <<ai, config, changes>>
  BY DEF Metrics, LogsArrive, OrderEnds, DiagnosisArrives
<1> QED BY <1>1, <1>2, <1>3, <1>4, <1>5 DEF FleetStep

\* The screens on which the program is set up leave the fleet and its orders alone.
LEMMA SettingsKeepFleet == SettingsStep => UNCHANGED <<fleetVars, modalVars, resultVars>>
BY DEF SettingsStep, OpenKey, TabKey

\* A key on a screen of settings is pressed on that screen.
LEMMA SettingsKeyScreen ==
  SettingsKey => screen \in {"help", "theme", "preferences", "language", "config"}
BY DEF SettingsKey, HelpKey, ThemeKey, PreferencesKey, LanguageKey, PolicyKey, SearchKey,
       InBrowser, BrowserKey, BrowserMove, BrowserEnter, ProvidersKey, KeyInputKey,
       EndpointKey

-----------------------------------------------------------------------------
(* Orders.                                                                 *)

\* The two halves of ConfirmedAsShown, of one step.
OrderWasShown ==
  orders' \subseteq orders \/
    /\ screen = "confirm"
    /\ orders' = orders \union {[container |-> pending, action |-> action]}
ShownIsKept == screen = "confirm" /\ screen' = "confirm" => UNCHANGED <<pending, action>>

\* Only ConfirmKey starts an order, and it starts the one the screen asks for.
LEMMA OrdersAsShown == FleetStep => OrderWasShown
<1> USE DEF OrderWasShown, resultVars, KeepModal, BackToTable
<1>1. MoveKey \/ Mouse \/ FilterKey \/ PinKey \/ LogsKey \/ NetworkKey \/ LeaveKey
      => OrderWasShown
  BY DEF MoveKey, Mouse, FilterKey, PinKey, LogsKey, NetworkKey, LeaveKey, FetchLogs
<1>2. RemedyKey \/ RemedyOrigin => OrderWasShown
  BY DEF RemedyKey, RemedyOrigin, AskToConfirm
<1>3. ConfirmKey => OrderWasShown
  BY DEF ConfirmKey, RemediateContainer, Confirmed
<1>4. DiagnoseKey \/ IncidentMove \/ IncidentLeave \/ NameOriginKey \/ OpenMember
      => OrderWasShown
  BY DEF DiagnoseKey, IncidentMove, IncidentLeave, NameOriginKey, OpenMember
<1>5. DiagnosisMove \/ FocusKey \/ DiagnosisLeave \/ DiagnosisEnter => OrderWasShown
  BY DEF DiagnosisMove, FocusKey, DiagnosisLeave, DiagnosisEnter, AskToConfirm, FetchLogs
<1>6. Metrics \/ LogsArrive \/ OrderEnds \/ DiagnosisArrives => OrderWasShown
  BY DEF Metrics, LogsArrive, OrderEnds, DiagnosisArrives
<1> QED BY <1>1, <1>2, <1>3, <1>4, <1>5, <1>6 DEF FleetStep

\* While the confirmation is open, messages arrive and change nothing of it.
LEMMA ConfirmationIsKept == FleetStep => ShownIsKept
<1> USE DEF ShownIsKept, modalVars, OnTable
<1>1. MoveKey \/ Mouse \/ FilterKey \/ PinKey \/ LogsKey \/ NetworkKey \/ LeaveKey
      => ShownIsKept
  BY DEF MoveKey, Mouse, FilterKey, PinKey, LogsKey, NetworkKey, LeaveKey
<1>2. RemedyKey \/ RemedyOrigin => ShownIsKept
  BY DEF RemedyKey, RemedyOrigin, InIncident
<1>3. ConfirmKey => ShownIsKept
  BY DEF ConfirmKey, BackToTable
<1>4. DiagnoseKey \/ IncidentMove \/ IncidentLeave \/ NameOriginKey \/ OpenMember
      => ShownIsKept
  BY DEF DiagnoseKey, IncidentMove, IncidentLeave, NameOriginKey, OpenMember, InIncident
<1>5. DiagnosisMove \/ FocusKey \/ DiagnosisLeave \/ DiagnosisEnter => ShownIsKept
  BY DEF DiagnosisMove, FocusKey, DiagnosisLeave, DiagnosisEnter, InDiagnosis
<1>6. Metrics \/ LogsArrive \/ OrderEnds \/ DiagnosisArrives => ShownIsKept
  BY DEF Metrics, LogsArrive, OrderEnds, DiagnosisArrives
<1> QED BY <1>1, <1>2, <1>3, <1>4, <1>5, <1>6 DEF FleetStep

\* ConfirmedAsShown: no action without consent, over whatever arrives between the
\* question and the answer.
THEOREM OrdersAreConfirmed == Spec => ConfirmedAsShown
<1>1. [Next]_allVars => [OrderWasShown /\ ShownIsKept]_allVars
  <2> SUFFICES ASSUME Next PROVE OrderWasShown /\ ShownIsKept
    OBVIOUS
  <2>1. CASE FleetStep BY <2>1, OrdersAsShown, ConfirmationIsKept
  <2>2. CASE SettingsStep
    BY <2>2, SettingsKeepFleet DEF OrderWasShown, ShownIsKept, modalVars, resultVars
  <2> QED BY <2>1, <2>2 DEF Next
<1>2. [OrderWasShown /\ ShownIsKept]_allVars
      <=> [/\ orders' \subseteq orders \/
                /\ screen = "confirm"
                /\ orders' = orders \union {[container |-> pending, action |-> action]}
           /\ screen = "confirm" /\ screen' = "confirm" => UNCHANGED <<pending, action>>]_allVars
  BY DEF OrderWasShown, ShownIsKept
<1> QED BY <1>1, <1>2, PTL DEF Spec, ConfirmedAsShown

-----------------------------------------------------------------------------
(* The table.                                                              *)

TableInv == metrics \in Seq(Container) /\ cursor \in Nat /\ (Rows > 0 => cursor < Rows)

\* Whatever a filter lets through, so many positions of a list are left.
LEMMA PositionsCount ==
  ASSUME NEW S, NEW list \in Seq(S), NEW left \in SUBSET DOMAIN list
  PROVE  IsFiniteSet(left) /\ Cardinality(left) \in Nat
<1>1. DOMAIN list = 1 .. Len(list) /\ Len(list) \in Nat
  OBVIOUS
<1>2. IsFiniteSet(DOMAIN list)
  BY <1>1, FS_Interval
<1> QED BY <1>2, FS_Subset, FS_CardinalityType

\* Moves wrap, clicks hit a row, a filter starts at the top, and a shorter fleet draws
\* the cursor up.
LEMMA TableStep == TableInv /\ FleetStep => TableInv'
<1> SUFFICES ASSUME TableInv, FleetStep PROVE TableInv'
  OBVIOUS
<1>0. Rows \in Nat
  <2>1. Shown(metrics) \in SUBSET DOMAIN metrics
    BY DEF Shown
  <2> QED BY <2>1, PositionsCount DEF TableInv, Rows, FilteredMetrics
<1> USE DEF KeepModal, BackToTable
<1>1. ASSUME UNCHANGED <<metrics, filter, cursor>> PROVE TableInv'
  BY <1>1 DEF TableInv, Rows, FilteredMetrics, Shown
<1>2. ASSUME UNCHANGED <<metrics, filter>>, cursor' \in Nat, Rows > 0 => cursor' < Rows
      PROVE  TableInv'
  BY <1>2 DEF TableInv, Rows, FilteredMetrics, Shown
<1>3. CASE MoveKey
  <2>1. Rows > 0 /\ UNCHANGED <<metrics, filter>>
    BY <1>3 DEF MoveKey
  <2>2. cursor + 1 \in Nat /\ cursor + Rows - 1 \in Nat
    BY <1>0, <2>1 DEF TableInv
  <2>3. \A a \in Nat : a % Rows \in 0 .. Rows - 1
    BY <1>0, <2>1
  <2>4. cursor' \in 0 .. Rows - 1
    BY <1>3, <2>2, <2>3 DEF MoveKey
  <2>5. cursor' \in Nat /\ cursor' < Rows
    BY <1>0, <2>4
  <2> QED BY <1>2, <2>1, <2>5
<1>4. CASE Mouse
  <2>1. cursor' \in 0 .. Rows - 1 /\ UNCHANGED <<metrics, filter>>
    BY <1>4 DEF Mouse
  <2>2. cursor' \in Nat /\ cursor' < Rows
    BY <1>0, <2>1
  <2> QED BY <1>2, <2>1, <2>2
<1>5. CASE FilterKey
  <2>1. CASE UNCHANGED <<filter, cursor>>
    BY <1>1, <1>5, <2>1 DEF FilterKey
  <2>2. CASE cursor' = 0
    <3>1. metrics' \in Seq(Container)
      BY <1>5 DEF FilterKey, TableInv
    <3>2. FilteredMetrics' \in SUBSET DOMAIN metrics'
      BY DEF FilteredMetrics, Shown
    <3>3. Rows' \in Nat
      BY <3>1, <3>2, PositionsCount DEF Rows
    <3> QED BY <2>2, <3>1, <3>3 DEF TableInv
  <2> QED BY <1>5, <2>1, <2>2 DEF FilterKey
<1>6. CASE Metrics
  <2>1. metrics' \in Seq(Container)
    BY <1>6, FleetAssumption DEF Metrics
  <2> DEFINE n == Cardinality(Shown(metrics'))
  <2>2. n \in Nat
    <3>1. Shown(metrics') \in SUBSET DOMAIN metrics'
      BY DEF Shown
    <3> QED BY <2>1, <3>1, PositionsCount
  <2>3. Rows' = n
    BY <1>6 DEF Metrics, Rows, FilteredMetrics, Shown
  <2>4. cursor' = Clamped(n)
    BY <1>6 DEF Metrics
  <2> HIDE DEF n
  <2>5. cursor' \in Nat /\ (n > 0 => cursor' < n)
    BY <2>2, <2>4 DEF Clamped, TableInv
  <2> QED BY <2>1, <2>3, <2>5 DEF TableInv
<1>7. CASE PinKey \/ LogsKey \/ NetworkKey \/ LeaveKey
  BY <1>1, <1>7 DEF PinKey, LogsKey, NetworkKey, LeaveKey, fleetVars
<1>8. CASE RemedyKey \/ ConfirmKey \/ RemedyOrigin
  BY <1>1, <1>8 DEF RemedyKey, ConfirmKey, RemedyOrigin, AskToConfirm, fleetVars
<1>9. CASE DiagnoseKey \/ IncidentMove \/ IncidentLeave \/ NameOriginKey \/ OpenMember
  BY <1>1, <1>9
  DEF DiagnoseKey, IncidentMove, IncidentLeave, NameOriginKey, OpenMember, fleetVars
<1>10. CASE DiagnosisMove \/ FocusKey \/ DiagnosisLeave \/ DiagnosisEnter
  BY <1>1, <1>10
  DEF DiagnosisMove, FocusKey, DiagnosisLeave, DiagnosisEnter, AskToConfirm, fleetVars
<1>11. CASE LogsArrive \/ OrderEnds \/ DiagnosisArrives
  BY <1>1, <1>11 DEF LogsArrive, OrderEnds, DiagnosisArrives, fleetVars
<1> QED BY <1>3, <1>4, <1>5, <1>6, <1>7, <1>8, <1>9, <1>10, <1>11 DEF FleetStep

-----------------------------------------------------------------------------
(* The containers of an incident.                                          *)

\* What IncidentAssumption says of one incident.
OfMembers(i) ==
  /\ IsFiniteSet(i.members) /\ NoContainer \notin i.members
  /\ i.origin \in i.members \union {NoContainer}
  /\ i.cascade \in Seq(i.members)
  /\ i = [members |-> i.members, origin |-> i.origin, cascade |-> i.cascade,
          sure |-> i.sure]

IncidentInv ==
  /\ OfMembers(incident) /\ line \in Nat
  /\ InIncident => listed \in ContainerLists(incident) /\ line <= Len(listed)

\* However the map is read, the list has every member once: its length never varies.
LEMMA EveryMemberOnce ==
  ASSUME NEW i, OfMembers(i), NEW list \in ContainerLists(i)
  PROVE  /\ list \in Seq(i.members)
         /\ Len(list) = Cardinality(i.members) /\ Cardinality(i.members) \in Nat
<1>1. Named(i) = i.members
  <2>1. ToSet(i.cascade) \subseteq i.members
    BY DEF OfMembers, ToSet
  <2> QED BY <2>1 DEF Named, OfMembers
<1>2. list \in [1 .. Cardinality(i.members) -> i.members]
  BY <1>1 DEF ContainerLists, SetToSeqs
<1>3. Cardinality(i.members) \in Nat
  BY FS_CardinalityType DEF OfMembers
<1> QED BY <1>2, <1>3

LEMMA KnownOfMembers == OfMembers(NoIncident) /\ \A i \in Incidents : OfMembers(i)
<1>1. OfMembers(NoIncident)
  BY FS_EmptySet DEF OfMembers, NoIncident, NoContainer
<1>2. \A i \in Incidents : OfMembers(i)
  BY IncidentAssumption DEF OfMembers
<1> QED BY <1>1, <1>2

\* An incident opens at its top, the cursor moves within a list that is made anew at
\* each key, and the incident only grows under it.
LEMMA IncidentStep == IncidentInv /\ FleetStep => IncidentInv'
<1> SUFFICES ASSUME IncidentInv, FleetStep PROVE IncidentInv'
  OBVIOUS
<1> USE DEF KeepModal, modalVars
<1>1. ASSUME UNCHANGED <<line, incident>>, screen' # "incident" PROVE IncidentInv'
  BY <1>1 DEF IncidentInv, InIncident, OfMembers
<1>2. ASSUME UNCHANGED <<line, incident, listed, screen>> PROVE IncidentInv'
  BY <1>2 DEF IncidentInv, InIncident
<1>3. ASSUME line' = 0, incident' = NoIncident, screen' # "incident" PROVE IncidentInv'
  <2>1. OfMembers(incident')
    BY <1>3, KnownOfMembers
  <2> QED BY <1>3, <2>1 DEF IncidentInv, InIncident
<1>4. ASSUME OfMembers(incident'), listed' \in ContainerLists(incident'), line' \in Nat,
             line' <= Cardinality(incident'.members)
      PROVE  IncidentInv'
  <2>1. Len(listed') = Cardinality(incident'.members)
    BY <1>4, EveryMemberOnce
  <2> QED BY <1>4, <2>1 DEF IncidentInv
<1>5. InIncident => /\ Len(listed) = Cardinality(incident.members)
                    /\ Len(listed) \in Nat /\ line \in Nat /\ line <= Len(listed)
  BY EveryMemberOnce DEF IncidentInv
<1>6. CASE MoveKey \/ Mouse \/ PinKey \/ LogsArrive \/ OrderEnds \/ DiagnosisArrives
  BY <1>2, <1>6 DEF MoveKey, Mouse, PinKey, LogsArrive, OrderEnds, DiagnosisArrives
<1>7. CASE FilterKey \/ LogsKey \/ NetworkKey
  BY <1>1, <1>7 DEF FilterKey, LogsKey, NetworkKey, FetchLogs, OnTable
<1>8. CASE LeaveKey \/ ConfirmKey \/ IncidentLeave \/ DiagnosisLeave
  BY <1>3, <1>8 DEF LeaveKey, ConfirmKey, IncidentLeave, DiagnosisLeave, BackToTable
<1>9. ASSUME NEW c, NEW act, AskToConfirm(c, act) PROVE IncidentInv'
  BY <1>3, <1>9 DEF AskToConfirm
<1>10. CASE RemedyKey \/ RemedyOrigin
  BY <1>9, <1>10 DEF RemedyKey, RemedyOrigin
<1>11. CASE OpenMember
  <2>1. line' = 0 /\ incident' = NoIncident /\ screen' = "diagnosis"
    <3> HIDE DEF NoIncident
    <3> QED BY <1>11 DEF OpenMember
  <2> QED BY <1>3, <2>1
<1>12. CASE DiagnosisMove
  <2>1. line' \in {line - 1, line + 1} /\ line' \in 0 .. Len(Actions) - 1
    BY <1>12 DEF DiagnosisMove
  <2>2. line' \in Nat
    BY <2>1 DEF IncidentInv
  <2>3. screen' = "diagnosis" /\ UNCHANGED incident
    BY <1>12 DEF DiagnosisMove, InDiagnosis
  <2> QED BY <2>2, <2>3 DEF IncidentInv, InIncident, OfMembers
<1>13. CASE FocusKey
  BY <1>1, <1>13 DEF FocusKey, InDiagnosis
<1>14. CASE DiagnosisEnter
  <2>1. ASSUME FetchLogs(pending), UNCHANGED <<line, fleetVars, modalVars>>
        PROVE  IncidentInv'
    BY <1>1, <2>1 DEF FetchLogs
  <2> QED BY <1>9, <1>14, <2>1 DEF DiagnosisEnter
<1>15. CASE DiagnoseKey
  <2>1. OfMembers(incident') /\ listed' \in ContainerLists(incident') /\ line' = 0
    BY <1>15, KnownOfMembers DEF DiagnoseKey
  <2>2. Cardinality(incident'.members) \in Nat
    BY <2>1, EveryMemberOnce
  <2> QED BY <1>4, <2>1, <2>2
<1>16. CASE IncidentMove
  <2>1. InIncident /\ UNCHANGED incident /\ listed' \in ContainerLists(incident')
    BY <1>16 DEF IncidentMove
  <2>2. line' \in 0 .. Len(listed) - (IF HasActionRow THEN 0 ELSE 1)
    BY <1>16 DEF IncidentMove
  <2>3. line' \in Nat /\ line' <= Len(listed)
    BY <1>5, <2>1, <2>2
  <2>4. OfMembers(incident')
    BY <2>1 DEF IncidentInv
  <2> QED BY <1>4, <1>5, <2>1, <2>3, <2>4
<1>17. CASE NameOriginKey
  <2>1. PICK list \in ContainerLists(incident) :
          incident' = [incident EXCEPT !.origin = list[line + 1], !.sure = TRUE]
    BY <1>17 DEF NameOriginKey
  <2>2. InIncident /\ line < Len(listed) /\ line' = line /\ listed' \in ContainerLists(incident')
    BY <1>17 DEF NameOriginKey
  <2>3. list[line + 1] \in incident.members
    BY <1>5, <2>2, EveryMemberOnce DEF IncidentInv
  <2>4. /\ incident'.members = incident.members /\ incident'.origin = list[line + 1]
        /\ incident'.cascade = incident.cascade
        /\ incident' = [members |-> incident'.members, origin |-> incident'.origin,
                        cascade |-> incident'.cascade, sure |-> incident'.sure]
    BY <2>1 DEF IncidentInv, OfMembers
  <2>5. OfMembers(incident')
    BY <2>3, <2>4 DEF IncidentInv, OfMembers
  <2> QED BY <1>4, <1>5, <2>2, <2>4, <2>5
<1>18. CASE Metrics
  <2>1. CASE InIncident
    <3>1. OfMembers(incident') /\ incident.members \subseteq incident'.members
      BY <1>18, KnownOfMembers DEF Metrics, IncidentInv
    <3>2. listed' \in ContainerLists(incident') /\ line' = line
      BY <1>18, <2>1 DEF Metrics
    <3>3. Cardinality(incident.members) <= Cardinality(incident'.members)
      BY <3>1, FS_Subset DEF OfMembers
    <3>4. Cardinality(incident'.members) \in Nat
      BY <3>1, FS_CardinalityType DEF OfMembers
    <3> QED BY <1>4, <1>5, <2>1, <3>1, <3>2, <3>3, <3>4
  <2>2. CASE ~InIncident
    BY <1>1, <1>18, <2>2 DEF Metrics, InIncident
  <2> QED BY <2>1, <2>2
<1> QED BY <1>6, <1>7, <1>8, <1>10, <1>11, <1>12, <1>13, <1>14, <1>15, <1>16, <1>17, <1>18
        DEF FleetStep

\* Nor is it disturbed by the screens of settings.
LEMMA IncidentKept == IncidentInv /\ SettingsStep => IncidentInv'
<1> SUFFICES ASSUME IncidentInv, SettingsStep PROVE IncidentInv'
  OBVIOUS
<1>0. UNCHANGED <<incident, listed>>
  BY SettingsKeepFleet DEF modalVars
<1>1. ASSUME screen' # "incident", line' \in Nat PROVE IncidentInv'
  BY <1>0, <1>1 DEF IncidentInv, InIncident
<1>2. ASSUME UNCHANGED <<screen, line>> PROVE IncidentInv'
  BY <1>0, <1>2 DEF IncidentInv, InIncident
<1>3. ASSUME NEW s, Open(s), s # "incident" PROVE IncidentInv'
  BY <1>1, <1>3 DEF Open
<1>4. ASSUME screen \in {"theme", "preferences", "language", "config"},
             UNCHANGED screen \/ screen' \in {"fleet", "panic", "theme"},
             line' \in Nat
      PROVE  IncidentInv'
  BY <1>1, <1>4
<1>5. line \in Nat
  BY DEF IncidentInv
<1>6. ASSUME NEW a, Show(a) PROVE IncidentInv'
  BY <1>2, <1>6 DEF Show
<1>7. CASE OpenKey
  BY <1>3, <1>7 DEF OpenKey
<1>8. CASE TabKey
  BY <1>2, <1>8 DEF TabKey
<1>9. CASE HelpKey
  BY <1>3, <1>9 DEF HelpKey
<1>10. CASE ThemeKey
  BY <1>3, <1>4, <1>5, <1>10, SettingsAssumption DEF ThemeKey, MoveLine
<1>11. CASE PreferencesKey
  BY <1>2, <1>3, <1>4, <1>5, <1>11, SettingsAssumption DEF PreferencesKey, MoveLine
<1>12. CASE LanguageKey
  BY <1>3, <1>4, <1>5, <1>12 DEF LanguageKey, MoveLine
<1>13. CASE PolicyKey
  BY <1>3, <1>6, <1>13, Zenon DEF PolicyKey
<1>14. CASE SearchKey
  BY <1>6, <1>14, Zenon DEF SearchKey
<1>15. CASE BrowserKey
  BY <1>6, <1>15, Zenon DEF BrowserKey
<1>16. CASE BrowserMove
  BY <1>4, <1>5, <1>16 DEF BrowserMove, InBrowser, settingsVars, Show
<1>17. CASE BrowserEnter
  BY <1>2, <1>17 DEF BrowserEnter, Show
<1>18. CASE ProvidersKey
  BY <1>2, <1>18 DEF ProvidersKey, Show
<1>19. CASE KeyInputKey
  BY <1>2, <1>19 DEF KeyInputKey, Show
<1>20. CASE EndpointKey
  BY <1>2, <1>20 DEF EndpointKey, Show
<1>21. CASE Discovered \/ Synced
  BY <1>6, <1>21, Zenon DEF Discovered, Synced
<1> QED BY <1>7, <1>8, <1>9, <1>10, <1>11, <1>12, <1>13, <1>14, <1>15, <1>16, <1>17, <1>18,
           <1>19, <1>20, <1>21 DEF SettingsStep, SettingsKey

-----------------------------------------------------------------------------
(* Numbers and finite sets.                                                *)

\* A set of numbers has a least one, and Min is it.
LEMMA MinIsLeast ==
  ASSUME NEW S \in SUBSET Nat, S # {}
  PROVE  Min(S) \in S /\ \A n \in S : Min(S) <= n
<1> DEFINE R == OpToRel(<, Nat)
<1>1. \A m, n \in Nat : m < n => <<m, n>> \in R
  BY DEF OpToRel
<1>2. \E m \in S : \A n \in S : <<n, m>> \notin R
  BY NatLessThanWellFounded, WFMin
<1> HIDE DEF R
<1>3. PICK m \in S : \A n \in S : <<n, m>> \notin R
  BY <1>2
<1>4. \A n \in S : ~(n < m)
  BY <1>1, <1>3
<1>5. \A n \in S : m <= n
  BY <1>4
<1> QED BY <1>5 DEF Min

\* A bounded one has a greatest: the one that is the least below the bound.
LEMMA MaxIsGreatest ==
  ASSUME NEW S \in SUBSET Nat, S # {}, NEW b \in Nat, \A n \in S : n <= b
  PROVE  Max(S) \in S
<1> DEFINE T == {b - n : n \in S}
<1>0. PICK s \in S : TRUE
  OBVIOUS
<1>1. T \in SUBSET Nat /\ b - s \in T
  OBVIOUS
<1>2. PICK d \in T : \A e \in T : d <= e
  BY <1>1, MinIsLeast
<1>3. PICK m \in S : d = b - m
  OBVIOUS
<1>4. ASSUME NEW k \in S PROVE m >= k
  <2>1. b - k \in T
    OBVIOUS
  <2>2. b - m <= b - k
    BY <1>2, <1>3, <2>1
  <2> HIDE DEF T
  <2> QED BY <2>2
<1> QED BY <1>4 DEF Max

\* The values of a function on a finite set are finitely many.
LEMMA ImageIsFinite ==
  ASSUME NEW S, IsFiniteSet(S), NEW f, DOMAIN f = S, f = [x \in S |-> f[x]]
  PROVE  IsFiniteSet({f[x] : x \in S})
<1> DEFINE T == {f[x] : x \in S}
<1>1. f \in Surjection(S, T)
  BY DEF Surjection
<1> QED BY <1>1, FS_Surjection

-----------------------------------------------------------------------------
(* The browser of models.                                                  *)

View == {"policy", "browser", "providers", "key", "endpoint"}

AiState ==
  [view : View, policy : Int, slot : Slot, cursor : Nat, free : BOOLEAN, local : BOOLEAN,
   searching : BOOLEAN, query : SUBSET Model, row : Nat, provider : STRING,
   discovered : Seq(Model), catalogue : Seq(Model), syncing : BOOLEAN, shrunk : BOOLEAN]

\* The list depends on what is offered, on the filters and on the text.
SameList(a, b) ==
  /\ a.discovered = b.discovered /\ a.catalogue = b.catalogue /\ a.free = b.free /\ a.local = b.local
  /\ a.query = b.query

LEMMA ListDependsOn ==
  ASSUME NEW a, NEW b, SameList(a, b) PROVE BrowserItems(a) = BrowserItems(b)
<1>1. Offered(a) = Offered(b)
  BY DEF SameList, Offered
<1>2. Matching(a) = Matching(b)
  BY <1>1 DEF SameList, Matching
<1> QED BY <1>1, <1>2 DEF BrowserItems

\* Every item has its group and its place in it, both numbers, so none is above itself;
\* and the list always ends with the row of a new endpoint.
LEMMA ItemsAreFew ==
  ASSUME NEW a \in AiState
  PROVE  /\ IsFiniteSet(BrowserItems(a)) /\ BrowserItems(a) # {}
         /\ \A x \in BrowserItems(a) : ~IsAbove(x, x)
<1> DEFINE offered == Offered(a)
           found == Matching(a)
           provider(i) == ProviderOf[offered[i]]
           group(i) == Min({j \in found : provider(j) = provider(i)})
           headers == {Item("header", provider(i), <<group(i), 0>>) : i \in found}
           models == {Item("model", offered[i], <<group(i), i>>) : i \in found}
           add == Item("add", "", <<Len(offered) + 1, 0>>)
<1>1. offered \in Seq(Model)
  BY SettingsAssumption DEF AiState, Offered
<1>2. found \in SUBSET DOMAIN offered /\ found \in SUBSET Nat
  BY <1>1 DEF Matching
<1>3. IsFiniteSet(found)
  BY <1>1, <1>2, PositionsCount
<1>4. BrowserItems(a) = headers \union models \union {add}
  BY DEF BrowserItems
<1> HIDE DEF found, offered
<1>5. \A i \in found : group(i) \in Nat
  <2> TAKE i \in found
  <2> DEFINE alike == {j \in found : provider(j) = provider(i)}
  <2>1. alike \in SUBSET Nat /\ i \in alike
    BY <1>2
  <2>2. Min(alike) \in alike
    BY <2>1, MinIsLeast
  <2> QED BY <2>1, <2>2
<1>6. IsFiniteSet(headers)
  <2> DEFINE f == [i \in found |-> Item("header", provider(i), <<group(i), 0>>)]
  <2>1. IsFiniteSet({f[i] : i \in found})
    BY <1>3, ImageIsFinite
  <2>2. headers = {f[i] : i \in found}
    OBVIOUS
  <2> QED BY <2>1, <2>2
<1>7. IsFiniteSet(models)
  <2> DEFINE f == [i \in found |-> Item("model", offered[i], <<group(i), i>>)]
  <2>1. IsFiniteSet({f[i] : i \in found})
    BY <1>3, ImageIsFinite
  <2>2. models = {f[i] : i \in found}
    OBVIOUS
  <2> QED BY <2>1, <2>2
<1>8. IsFiniteSet(headers \union models \union {add})
  BY <1>6, <1>7, FS_Union, FS_Singleton
<1>9. ASSUME NEW x, x.at[1] \in Int, x.at[2] \in Int PROVE ~IsAbove(x, x)
  BY <1>9 DEF IsAbove
<1>10. \A x \in headers : x.at[1] \in Int /\ x.at[2] \in Int
  <2> HIDE DEF group, provider
  <2> QED BY <1>5 DEF Item
<1>11. \A x \in models : x.at[1] \in Int /\ x.at[2] \in Int
  <2> HIDE DEF group
  <2> QED BY <1>2, <1>5 DEF Item
<1>12. add.at[1] \in Int /\ add.at[2] \in Int
  BY <1>1 DEF Item
<1> HIDE DEF headers, models, add
<1> QED BY <1>4, <1>8, <1>9, <1>10, <1>11, <1>12

\* Above an item are fewer than all items.
LEMMA PlaceInList ==
  ASSUME NEW a \in AiState, NEW x \in BrowserItems(a)
  PROVE  /\ Place(BrowserItems(a), x) \in Nat
         /\ Cardinality(BrowserItems(a)) \in Nat
         /\ Place(BrowserItems(a), x) < Cardinality(BrowserItems(a))
<1> DEFINE items == BrowserItems(a)
           above == {y \in items : IsAbove(y, x)}
<1>1. IsFiniteSet(items) /\ x \in items /\ ~IsAbove(x, x)
  BY ItemsAreFew
<1>2. above \in SUBSET items /\ x \notin above /\ x \in items
  BY <1>1
<1>3. Place(items, x) = Cardinality(above)
  BY DEF Place
<1> HIDE DEF items, above
<1>4. /\ IsFiniteSet(above) /\ Cardinality(above) <= Cardinality(items)
      /\ Cardinality(items) = Cardinality(above) => items = above
  BY <1>1, <1>2, FS_Subset
<1>5. Cardinality(above) \in Nat /\ Cardinality(items) \in Nat
  BY <1>1, <1>4, FS_CardinalityType
<1>6. Cardinality(above) < Cardinality(items)
  BY <1>2, <1>4, <1>5
<1> QED BY <1>3, <1>5, <1>6 DEF items

\* The list is never empty: its top is an item.
LEMMA TopInList ==
  ASSUME NEW a \in AiState
  PROVE  Cardinality(BrowserItems(a)) \in Nat /\ 0 < Cardinality(BrowserItems(a))
<1>1. PICK x : x \in BrowserItems(a)
  BY ItemsAreFew
<1> QED BY <1>1, PlaceInList

\* The cursor is on an item, or beyond a list that shrank.
InList(a) == a.shrunk \/ a.cursor < Cardinality(BrowserItems(a))

\* Once up has panicked, nothing moves any more.
BrowserInv == ai \in AiState /\ InList(ai) /\ (screen = "panic" => ai.shrunk)

\* The cursor is placed on an item: it is in the list.
LEMMA PlacedInList ==
  ASSUME NEW a \in AiState, NEW c \in Nat, c < Cardinality(BrowserItems(a))
  PROVE  PlacedAt(a, c) \in AiState /\ InList(PlacedAt(a, c))
<1>1. PlacedAt(a, c) \in AiState /\ PlacedAt(a, c).cursor = c /\ SameList(a, PlacedAt(a, c))
  BY DEF PlacedAt, AiState, SameList
<1>2. BrowserItems(a) = BrowserItems(PlacedAt(a, c))
  BY <1>1, ListDependsOn
<1> QED BY <1>1, <1>2 DEF InList

\* Another view is opened with the cursor at the top.
LEMMA ToOpens ==
  ASSUME NEW a \in AiState, NEW view \in View
  PROVE  /\ To(view, a) \in AiState /\ To(view, a).view = view /\ To(view, a).cursor = 0
         /\ InList(To(view, a))
<1>1. Row[1] \in STRING
  BY SettingsAssumption
<1>2. To(view, a) \in AiState /\ To(view, a).view = view /\ To(view, a).cursor = 0
  BY <1>1 DEF To, AiState, Slot
<1> QED BY <1>2, TopInList DEF InList

\* The first model, or the top when there is none, is in the list.
LEMMA FirstModelInList ==
  ASSUME NEW a \in AiState
  PROVE  AtFirstModel(a) \in AiState /\ InList(AtFirstModel(a))
<1> DEFINE items == BrowserItems(a)
           models == {Place(items, x) : x \in {y \in items : y.kind = "model"}}
           c == IF models = {} THEN 0 ELSE Min(models)
<1>1. \A p \in models : p \in Nat /\ p < Cardinality(items)
  BY PlaceInList
<1>2. Cardinality(items) \in Nat /\ 0 < Cardinality(items)
  BY TopInList
<1>3. AtFirstModel(a) = PlacedAt(a, c)
  BY DEF AtFirstModel
<1> HIDE DEF models, items
<1>4. c \in Nat /\ c < Cardinality(items)
  <2>1. CASE models = {}
    BY <1>2, <2>1
  <2>2. CASE models # {}
    <3>1. Min(models) \in models
      BY <1>1, <2>2, MinIsLeast
    <3> QED BY <1>1, <2>2, <3>1
  <2> QED BY <2>1, <2>2
<1> HIDE DEF c
<1> QED BY <1>3, <1>4, PlacedInList DEF items

\* A list that did not shrink still has the item the cursor is on.
LEMMA RelistedInList ==
  ASSUME ai \in AiState, InList(ai), NEW b \in AiState, b.cursor = ai.cursor,
         b.shrunk = ai.shrunk
  PROVE  Relisted(b) \in AiState /\ InList(Relisted(b))
<1> DEFINE before == Cardinality(BrowserItems(ai))
           after == Cardinality(BrowserItems(b))
<1>1. before \in Nat /\ after \in Nat
  BY TopInList
<1>2. Relisted(b) = [b EXCEPT !.shrunk = @ \/ after < before]
  BY DEF Relisted
<1>3. ai.shrunk \/ ai.cursor < before
  BY DEF InList
<1> HIDE DEF before, after
<1>4. /\ Relisted(b) \in AiState /\ SameList(b, Relisted(b)) /\ Relisted(b).cursor = b.cursor
      /\ (Relisted(b).shrunk <=> (b.shrunk \/ after < before))
  BY <1>2 DEF AiState, SameList
<1>5. BrowserItems(b) = BrowserItems(Relisted(b))
  BY <1>4, ListDependsOn
<1>6. ai.cursor \in Nat
  BY DEF AiState
<1>7. Relisted(b).shrunk \/ Relisted(b).cursor < after
  BY <1>1, <1>3, <1>4, <1>6
<1> QED BY <1>4, <1>5, <1>7 DEF InList, after

\* Only up, with the cursor beyond the list, makes the program panic.
LEMMA PanicsBeyondList ==
  ASSUME SettingsStep, screen' = "panic"
  PROVE  UNCHANGED ai /\ ai.cursor > Cardinality(BrowserItems(ai))
<1> USE DEF Open, Keep, Show, Configure
<1>1. CASE OpenKey BY <1>1 DEF OpenKey, OnTable
<1>2. CASE TabKey BY <1>2 DEF TabKey, OnTable
<1>3. CASE HelpKey \/ ThemeKey \/ PreferencesKey \/ LanguageKey
  BY <1>3 DEF HelpKey, ThemeKey, PreferencesKey, LanguageKey, MoveLine
<1>4. CASE PolicyKey BY <1>4 DEF PolicyKey
<1>5. CASE SearchKey \/ BrowserKey \/ BrowserEnter
  BY <1>5 DEF SearchKey, BrowserKey, BrowserEnter, InBrowser
<1>6. CASE BrowserMove BY <1>6 DEF BrowserMove, InBrowser, settingsVars
<1>7. CASE ProvidersKey BY <1>7 DEF ProvidersKey
<1>8. CASE KeyInputKey BY <1>8 DEF KeyInputKey
<1>9. CASE EndpointKey BY <1>9 DEF EndpointKey
<1>10. CASE screen # "panic" /\ (Discovered \/ Synced) BY <1>10 DEF Discovered, Synced
<1> QED BY <1>1, <1>2, <1>3, <1>4, <1>5, <1>6, <1>7, <1>8, <1>9, <1>10
        DEF SettingsStep, SettingsKey

\* Nor do the screens of the fleet and the messages.
LEMMA FleetDoesNotPanic == FleetStep /\ screen' = "panic" => screen = "panic"
<1> USE DEF KeepModal, BackToTable
<1>1. MoveKey \/ Mouse \/ FilterKey \/ PinKey \/ LogsKey \/ NetworkKey \/ LeaveKey
      => (screen' = "panic" => screen = "panic")
  BY DEF MoveKey, Mouse, FilterKey, PinKey, LogsKey, NetworkKey, LeaveKey, FetchLogs, OnTable
<1>2. RemedyKey \/ ConfirmKey \/ RemedyOrigin => (screen' = "panic" => screen = "panic")
  BY DEF RemedyKey, ConfirmKey, RemedyOrigin, AskToConfirm
<1>3. DiagnoseKey \/ IncidentMove \/ IncidentLeave \/ NameOriginKey \/ OpenMember
      => (screen' = "panic" => screen = "panic")
  BY DEF DiagnoseKey, IncidentMove, IncidentLeave, NameOriginKey, OpenMember
<1>4. DiagnosisMove \/ FocusKey \/ DiagnosisLeave \/ DiagnosisEnter
      => (screen' = "panic" => screen = "panic")
  BY DEF DiagnosisMove, FocusKey, DiagnosisLeave, DiagnosisEnter, AskToConfirm, FetchLogs
<1>5. Metrics \/ LogsArrive \/ OrderEnds \/ DiagnosisArrives
      => (screen' = "panic" => screen = "panic")
  BY DEF Metrics, LogsArrive, OrderEnds, DiagnosisArrives
<1> QED BY <1>1, <1>2, <1>3, <1>4, <1>5 DEF FleetStep

\* A key leaves the cursor of the browser in its list; a scan or a sync does too, unless it
\* is noted that the list shrank.
LEMMA BrowserStep == BrowserInv /\ SettingsStep => BrowserInv'
<1> SUFFICES ASSUME BrowserInv, SettingsStep PROVE BrowserInv'
  OBVIOUS
<1>0. ai \in AiState /\ InList(ai)
  BY DEF BrowserInv
<1>1. ASSUME ai' \in AiState, InList(ai') PROVE BrowserInv'
  <2>1. CASE screen' = "panic"
    <3>1. UNCHANGED ai /\ ai.cursor > Cardinality(BrowserItems(ai))
      BY <2>1, PanicsBeyondList
    <3>2. ai.cursor \in Nat /\ Cardinality(BrowserItems(ai)) \in Nat
      BY <1>0, TopInList DEF AiState
    <3>3. ai.shrunk
      BY <1>0, <3>1, <3>2 DEF InList
    <3> HIDE DEF InList, AiState
    <3> QED BY <1>1, <3>1, <3>3 DEF BrowserInv
  <2> HIDE DEF InList, AiState
  <2> QED BY <1>1, <2>1 DEF BrowserInv
<1>2. ASSUME UNCHANGED ai PROVE BrowserInv'
  BY <1>0, <1>1, <1>2
<1> USE DEF View
<1>4. ASSUME ai' \in AiState, ai'.cursor = 0 PROVE BrowserInv'
  BY <1>1, <1>4, TopInList DEF InList
<1>5. ASSUME NEW view \in View, NEW a \in AiState, ai' = To(view, a) PROVE BrowserInv'
  BY <1>1, <1>5, ToOpens
<1>6. ASSUME NEW a \in AiState, ai' = AtFirstModel(a) PROVE BrowserInv'
  BY <1>1, <1>6, FirstModelInList
<1>7. ASSUME ai' \in AiState, SameList(ai, ai'), ai'.shrunk = ai.shrunk,
             ai'.cursor = ai.cursor
      PROVE  BrowserInv'
  BY <1>0, <1>1, <1>7, ListDependsOn DEF InList
<1>8. CASE OpenKey
  <2>1. ai' = ai \/ ai' = [ai EXCEPT !.view = "policy", !.policy = 0]
    BY <1>8 DEF OpenKey
  <2>2. [ai EXCEPT !.view = "policy", !.policy = 0] \in AiState
    <3>1. "policy" \in View
      OBVIOUS
    <3> DEFINE b == [ai EXCEPT !.policy = 0]
    <3>2. b \in AiState
      BY <1>0 DEF AiState
    <3>3. [ai EXCEPT !.view = "policy", !.policy = 0] = [b EXCEPT !.view = "policy"]
      BY <1>0 DEF AiState
    <3> HIDE DEF b, View
    <3>4. [b EXCEPT !.view = "policy"] \in AiState
      BY <3>1, <3>2 DEF AiState
    <3> QED BY <3>3, <3>4
  <2>3. LET b == [ai EXCEPT !.view = "policy", !.policy = 0]
        IN  SameList(ai, b) /\ b.shrunk = ai.shrunk /\ b.cursor = ai.cursor
    BY <1>0 DEF AiState, SameList
  <2> QED BY <1>2, <1>7, <2>1, <2>2, <2>3
<1>9. CASE TabKey \/ HelpKey \/ ThemeKey \/ PreferencesKey \/ LanguageKey
  BY <1>2, <1>9
  DEF TabKey, HelpKey, ThemeKey, PreferencesKey, LanguageKey, MoveLine, Keep
<1>10. CASE PolicyKey
  <2>1. CASE Keep
    BY <1>2, <2>1 DEF Keep
  <2>2. ASSUME NEW p \in {ai.policy - 1, ai.policy + 1} \intersect (0 .. 2),
               ai' = [ai EXCEPT !.policy = p]
        PROVE  BrowserInv'
    <3>1. ai' \in AiState /\ SameList(ai, ai') /\ ai'.shrunk = ai.shrunk
          /\ ai'.cursor = ai.cursor
      BY <1>0, <2>2 DEF AiState, SameList
    <3> QED BY <1>7, <3>1
  <2>3. ASSUME ai' = [To("providers", ai) EXCEPT !.row = 0] PROVE BrowserInv'
    <3>1. To("providers", ai) \in AiState /\ To("providers", ai).cursor = 0
      BY <1>0, ToOpens
    <3>2. ai' \in AiState /\ ai'.cursor = 0
      <4> DEFINE b == To("providers", ai)
      <4>1. b \in AiState /\ b.cursor = 0 /\ ai' = [b EXCEPT !.row = 0]
        BY <2>3, <3>1
      <4> HIDE DEF b
      <4> QED BY <4>1 DEF AiState
    <3> QED BY <1>4, <3>2
  <2>4. ASSUME NEW s \in Slot, ai' = AtFirstModel([To("browser", ai) EXCEPT !.slot = s])
        PROVE  BrowserInv'
    <3> DEFINE b == To("browser", ai)
    <3>1. b \in AiState
      BY <1>0, ToOpens
    <3> HIDE DEF b
    <3>2. [b EXCEPT !.slot = s] \in AiState
      BY <3>1 DEF AiState
    <3> QED BY <1>6, <2>4, <3>2 DEF b
  <2>5. \/ Keep
        \/ \E p \in {ai.policy - 1, ai.policy + 1} \intersect (0 .. 2) :
             ai' = [ai EXCEPT !.policy = p]
        \/ ai' = [To("providers", ai) EXCEPT !.row = 0]
        \/ \E s \in Slot : ai' = AtFirstModel([To("browser", ai) EXCEPT !.slot = s])
    <3>1. (IF ai.policy = 0 THEN "fast" ELSE "deep") \in Slot
      BY DEF Slot
    <3> QED BY <1>10, <3>1, Zenon DEF PolicyKey, Show
  <2> HIDE DEF BrowserInv
  <2> QED BY <2>1, <2>2, <2>3, <2>4, <2>5, Zenon
<1>11. CASE SearchKey
  <2>1. \/ ai' = [ai EXCEPT !.searching = FALSE]
        \/ \E q \in Queries : ai' = PlacedAt([ai EXCEPT !.query = q], 0)
    BY <1>11, Zenon DEF SearchKey, Show, Typed
  <2>2. CASE ai' = [ai EXCEPT !.searching = FALSE]
    <3>1. ai' \in AiState /\ SameList(ai, ai') /\ ai'.shrunk = ai.shrunk
          /\ ai'.cursor = ai.cursor
      BY <1>0, <2>2 DEF AiState, SameList
    <3> QED BY <1>7, <3>1
  <2>3. ASSUME NEW q \in Queries, ai' = PlacedAt([ai EXCEPT !.query = q], 0)
        PROVE  BrowserInv'
    <3>1. q \in SUBSET Model
      BY SettingsAssumption
    <3>2. [ai EXCEPT !.query = q] \in AiState
      BY <1>0, <3>1 DEF AiState
    <3> QED BY <1>1, <2>3, <3>2, PlacedInList, TopInList
  <2> QED BY <2>1, <2>2, <2>3
<1>12. CASE BrowserKey
  <2>1. \/ ai' = To("policy", ai)
        \/ ai' = [ai EXCEPT !.searching = TRUE]
        \/ ai' = AtFirstModel([ai EXCEPT !.free = ~@])
        \/ ai' = AtFirstModel([ai EXCEPT !.local = ~@])
    BY <1>12, Zenon DEF BrowserKey, Show
  <2>2. CASE ai' = [ai EXCEPT !.searching = TRUE]
    <3>1. ai' \in AiState /\ SameList(ai, ai') /\ ai'.shrunk = ai.shrunk
          /\ ai'.cursor = ai.cursor
      BY <1>0, <2>2 DEF AiState, SameList
    <3> QED BY <1>7, <3>1
  <2>3. [ai EXCEPT !.free = ~@] \in AiState /\ [ai EXCEPT !.local = ~@] \in AiState
    BY <1>0 DEF AiState
  <2> HIDE DEF BrowserInv
  <2> QED BY <1>0, <1>5, <1>6, <2>1, <2>2, <2>3
<1>13. CASE BrowserMove
  <2> DEFINE items == BrowserItems(ai)
             stops == {Place(items, x) : x \in {y \in items : y.kind # "header"}}
             above == {p \in stops : p < ai.cursor}
             below == {p \in stops : p > ai.cursor}
  <2>1. \A p \in stops : p \in Nat /\ p < Cardinality(items)
    BY <1>0, PlaceInList
  <2>2. \/ UNCHANGED ai
        \/ above # {} /\ ai' = PlacedAt(ai, Max(above))
        \/ below # {} /\ ai' = PlacedAt(ai, Min(below))
    BY <1>13, Zenon DEF BrowserMove, settingsVars, Show
  <2>3. ai.cursor \in Nat
    BY <1>0 DEF AiState
  <2> HIDE DEF items, stops
  <2>4. ASSUME NEW p \in stops, ai' = PlacedAt(ai, p) PROVE BrowserInv'
    <3>1. p \in Nat /\ p < Cardinality(items)
      BY <2>1
    <3> QED BY <1>0, <1>1, <2>4, <3>1, PlacedInList DEF items
  <2>5. above # {} => Max(above) \in stops
    <3>1. above \in SUBSET Nat /\ \A p \in above : p <= ai.cursor
      BY <2>1, <2>3
    <3> QED BY <2>3, <3>1, MaxIsGreatest
  <2>6. below # {} => Min(below) \in stops
    <3>1. below \in SUBSET Nat
      BY <2>1
    <3> QED BY <3>1, MinIsLeast
  <2> HIDE DEF above, below, BrowserInv
  <2> QED BY <1>2, <2>2, <2>4, <2>5, <2>6
<1>14. CASE BrowserEnter
  <2>1. ai' = To("endpoint", ai) \/ ai' = To("policy", ai)
    BY <1>14 DEF BrowserEnter, Show
  <2> QED BY <1>0, <1>5, <2>1
<1>15. CASE ProvidersKey
  <2>1. \/ ai' = To("policy", ai)
        \/ \E r \in {ai.row - 1, ai.row + 1} \intersect (0 .. Len(Row)) :
             ai' = [ai EXCEPT !.row = r]
        \/ ai' = To("endpoint", ai)
        \/ ai.row < Len(Row) /\ ai' = [To("key", ai) EXCEPT !.provider = Row[ai.row + 1]]
        \/ ai' = [To("browser", ai) EXCEPT !.local = TRUE]
    BY <1>15, Zenon DEF ProvidersKey, Show
  <2>2. ASSUME NEW r \in {ai.row - 1, ai.row + 1} \intersect (0 .. Len(Row)),
               ai' = [ai EXCEPT !.row = r]
        PROVE  BrowserInv'
    <3>1. r \in Nat
      BY SettingsAssumption
    <3>2. ai' \in AiState /\ SameList(ai, ai') /\ ai'.shrunk = ai.shrunk
          /\ ai'.cursor = ai.cursor
      BY <1>0, <2>2, <3>1 DEF AiState, SameList
    <3> QED BY <1>7, <3>2
  <2>3. ASSUME ai.row < Len(Row), ai' = [To("key", ai) EXCEPT !.provider = Row[ai.row + 1]]
        PROVE  BrowserInv'
    <3> DEFINE b == To("key", ai)
    <3>1. b \in AiState /\ b.cursor = 0
      BY <1>0, ToOpens
    <3>2. Row[ai.row + 1] \in STRING
      BY <1>0, <2>3, SettingsAssumption DEF AiState
    <3> HIDE DEF b
    <3>3. [b EXCEPT !.provider = Row[ai.row + 1]] \in AiState
      BY <3>1, <3>2 DEF AiState
    <3>4. [b EXCEPT !.provider = Row[ai.row + 1]].cursor = 0
      BY <3>1 DEF AiState
    <3> QED BY <1>4, <2>3, <3>3, <3>4 DEF b
  <2>4. ASSUME ai' = [To("browser", ai) EXCEPT !.local = TRUE] PROVE BrowserInv'
    <3> DEFINE b == To("browser", ai)
    <3>1. b \in AiState /\ b.cursor = 0
      BY <1>0, ToOpens
    <3> HIDE DEF b
    <3>2. [b EXCEPT !.local = TRUE] \in AiState /\ [b EXCEPT !.local = TRUE].cursor = 0
      BY <3>1 DEF AiState
    <3> QED BY <1>4, <2>4, <3>2 DEF b
  <2> HIDE DEF BrowserInv
  <2> QED BY <1>0, <1>5, <2>1, <2>2, <2>3, <2>4
<1>16. CASE KeyInputKey
  <2>1. ai' = To("providers", ai)
    BY <1>16 DEF KeyInputKey, Show
  <2> QED BY <1>0, <1>5, <2>1
<1>17. CASE EndpointKey
  <2>1. ai' = To("providers", ai)
    BY <1>17 DEF EndpointKey, Show
  <2> QED BY <1>0, <1>5, <2>1
<1>18. CASE Discovered
  <2>1. PICK found \in Discoveries : ai' = Relisted([ai EXCEPT !.discovered = found])
    BY <1>18 DEF Discovered, Show
  <2>2. found \in Seq(Model)
    BY SettingsAssumption
  <2> DEFINE b == [ai EXCEPT !.discovered = found]
  <2>3. b \in AiState /\ b.cursor = ai.cursor /\ b.shrunk = ai.shrunk
    BY <1>0, <2>2 DEF AiState
  <2> HIDE DEF b
  <2> QED BY <1>0, <1>1, <2>1, <2>3, RelistedInList DEF b
<1>19. CASE Synced
  <2>1. PICK list \in Fetched :
          ai' = Relisted([ai EXCEPT !.catalogue = list, !.syncing = FALSE])
    BY <1>19 DEF Synced, Show
  <2>2. list \in Seq(Model)
    BY SettingsAssumption
  <2> DEFINE b == [ai EXCEPT !.catalogue = list, !.syncing = FALSE]
  <2>3. b \in AiState /\ b.cursor = ai.cursor /\ b.shrunk = ai.shrunk
    BY <1>0, <2>2 DEF AiState
  <2> HIDE DEF b
  <2> QED BY <1>0, <1>1, <2>1, <2>3, RelistedInList DEF b
<1> HIDE DEF BrowserInv
<1> QED BY <1>8, <1>9, <1>10, <1>11, <1>12, <1>13, <1>14, <1>15, <1>16, <1>17, <1>18,
           <1>19 DEF SettingsStep, SettingsKey

-----------------------------------------------------------------------------
(* The cursors.                                                            *)

CursorInv == TableInv /\ IncidentInv

\* CursorsInLists: of the table and of the incident, none is beyond its list, for any
\* fleets and incidents.
THEOREM CursorsStayInLists == Spec => []CursorsInLists
<1>1. InterfaceInit => CursorInv
  <2> SUFFICES ASSUME InterfaceInit PROVE CursorInv
    OBVIOUS
  <2>1. metrics = << >> /\ cursor = 0 /\ incident = NoIncident /\ line = 0 /\ screen # "incident"
    BY DEF InterfaceInit, Init, SettingsInit
  <2>2. TableInv
    <3>1. FilteredMetrics = {}
      BY <2>1 DEF FilteredMetrics, Shown
    <3>2. Rows = 0
      BY <3>1, FS_EmptySet DEF Rows
    <3> QED BY <2>1, <3>2 DEF TableInv
  <2>3. IncidentInv
    BY <2>1, KnownOfMembers DEF IncidentInv, InIncident
  <2> QED BY <2>2, <2>3 DEF CursorInv
<1>2. CursorInv /\ [Next]_allVars => CursorInv'
  <2> SUFFICES ASSUME CursorInv, [Next]_allVars PROVE CursorInv'
    OBVIOUS
  <2>1. TableInv /\ IncidentInv
    BY DEF CursorInv
  <2>2. ASSUME UNCHANGED fleetVars PROVE TableInv'
    BY <2>1, <2>2 DEF TableInv, Rows, FilteredMetrics, Shown, fleetVars
  <2>3. CASE FleetStep
    BY <2>1, <2>3, TableStep, IncidentStep DEF CursorInv
  <2>4. CASE SettingsStep
    BY <2>1, <2>2, <2>4, SettingsKeepFleet, IncidentKept DEF CursorInv
  <2>5. CASE UNCHANGED allVars
    <3>1. UNCHANGED <<fleetVars, line, incident, listed, screen>>
      BY <2>5 DEF allVars, vars, settingsVars, modalVars
    <3>2. IncidentInv'
      BY <2>1, <3>1 DEF IncidentInv, InIncident
    <3> QED BY <2>2, <3>1, <3>2 DEF CursorInv
  <2> QED BY <2>3, <2>4, <2>5 DEF Next
<1>3. CursorInv => CursorsInLists
  BY DEF CursorInv, TableInv, IncidentInv, CursorsInLists
<1> QED BY <1>1, <1>2, <1>3, PTL DEF Spec

\* BrowserCursorInList: the cursor of the browser is on an item, and up does not panic,
\* unless a scan or the catalogue's sync left fewer items under it; for any catalogue,
\* any syncs and scans, filters and texts.
THEOREM BrowserStaysInList == Spec => []BrowserCursorInList
<1>1. InterfaceInit => BrowserInv
  <2> SUFFICES ASSUME InterfaceInit PROVE BrowserInv
    OBVIOUS
  <2>1. Row[1] \in STRING
    BY SettingsAssumption
  <2>2. "policy" \in View /\ "fast" \in Slot /\ << >> \in Seq(Model)
        /\ Catalogue \in Seq(Model)
    BY SettingsAssumption DEF View, Slot
  <2>3. ai = [view |-> "policy", policy |-> 0, slot |-> "fast", cursor |-> 0,
              free |-> FALSE, local |-> FALSE, searching |-> FALSE, query |-> Model,
              row |-> 0, provider |-> Row[1], discovered |-> << >>, catalogue |-> Catalogue,
              syncing |-> TRUE, shrunk |-> FALSE]
    BY DEF InterfaceInit, Init, SettingsInit
  <2>4. ai \in AiState /\ ai.cursor = 0
    BY <2>1, <2>2, <2>3 DEF AiState
  <2>5. screen # "panic"
    BY DEF InterfaceInit, Init
  <2> QED BY <2>4, <2>5, TopInList DEF BrowserInv, InList
<1>2. BrowserInv /\ [Next]_allVars => BrowserInv'
  <2> SUFFICES ASSUME BrowserInv, [Next]_allVars PROVE BrowserInv'
    OBVIOUS
  <2>1. ASSUME UNCHANGED ai, screen' = "panic" => screen = "panic" PROVE BrowserInv'
    BY <2>1 DEF BrowserInv
  <2>2. CASE FleetStep
    BY <2>1, <2>2, FleetKeepsSettings, FleetDoesNotPanic
  <2>3. CASE SettingsStep
    BY <2>3, BrowserStep
  <2>4. CASE UNCHANGED allVars
    BY <2>1, <2>4 DEF allVars, vars, settingsVars
  <2> QED BY <2>2, <2>3, <2>4 DEF Next
<1>3. BrowserInv => BrowserCursorInList
  <2> SUFFICES ASSUME BrowserInv PROVE BrowserCursorInList
    OBVIOUS
  <2>1. ai.cursor \in Nat /\ Cardinality(BrowserItems(ai)) \in Nat
    BY TopInList DEF BrowserInv, AiState
  <2> QED BY <2>1 DEF BrowserInv, InList, BrowserCursorInList
<1> QED BY <1>1, <1>2, <1>3, PTL DEF Spec
=============================================================================
