---------------------------- MODULE FleetScreens ----------------------------
(***************************************************************************)
(* The screens of the terminal interface on which the fleet is watched and *)
(* acted upon (agent/internal/delivery/tui/update.go, model.go,            *)
(* view_diagnosis.go, core/usecases/remediate_container.go): table and     *)
(* filter, logs, the two faces of the diagnosis modal, confirmation.       *)
(* Update handles one message at a time; collections, logs, remediations   *)
(* and diagnoses are goroutines whose results come back as messages, on    *)
(* whatever screen.  What a diagnosis costs is DiagnosisCascade's concern, *)
(* what an incident is IncidentAggregator's.                               *)
(***************************************************************************)
EXTENDS SettingsScreens

CONSTANTS
  Container,
  Action,       \* the actions of the white list
  Fleets,       \* the lists a collection can return, in Docker's order
  Filters,      \* what a text typed leaves of the containers
  Incidents,    \* what the aggregator may hold: members, origin, cascade
  Results,      \* what a diagnosis can suggest, and from where it may come
  Diagnosed,    \* bound: the containers diagnoses arrive of
  Pinnable,     \* bound: the containers that may be pinned
  MaxUnderWay   \* bound: the orders, and the requests for logs, under way at a time

ASSUME FleetAssumption == Fleets \subseteq Seq(Container)

VARIABLES
  metrics,      \* the containers listed
  filter,       \* filterValue, as the containers it lets through
  pinned,
  cursor,
  selected,     \* the container named by the screen
  pending,      \* ... and the one that keys act upon (pendingContainer)
  action,       \* pendingAction
  focus,        \* v4FocusSection: 0 the actions, 1 the evidence
  results,      \* diagnosisResults
  incident,     \* activeIncident
  listed,       \* the incident's containers, as the last View has them
  viewer,       \* whose logs the viewer shows
  logRequests, orders   \* under way: containers, containers with actions

fleetVars == <<metrics, filter, pinned, cursor>>
modalVars == <<selected, pending, action, focus, incident, listed>>
resultVars == <<results, viewer, logRequests, orders>>
vars == <<screen, settingsVars, fleetVars, modalVars, resultVars>>

NoContainer == ""
NoIncident == [members |-> {}, origin |-> NoContainer, cascade |-> << >>, sure |-> FALSE]
Loading == "loading"

\* filteredMetrics, as positions of the list: those the filter lets through.
Shown(list) == {i \in DOMAIN list : list[i] \in filter}
FilteredMetrics == Shown(metrics)
Rows == Cardinality(FilteredMetrics)

\* The pinned ones first.
RowAbove(i, j) ==
  IF metrics[i] \in pinned <=> metrics[j] \in pinned THEN i < j ELSE metrics[i] \in pinned

OnContainer == cursor < Rows
Current ==
  metrics[CHOOSE i \in FilteredMetrics :
            Cardinality({j \in FilteredMetrics : RowAbove(j, i)}) = cursor]

Init ==
  /\ screen \in {"fleet", "language"}
  /\ SettingsInit
  /\ metrics = << >> /\ filter = Container /\ pinned = {} /\ cursor = 0
  /\ selected = NoContainer /\ pending = NoContainer /\ action = "restart"
  /\ focus = 0
  /\ results = [c \in Container |-> [suggests |-> "none", level |-> ""]]
  /\ incident = NoIncident /\ listed = << >>
  /\ viewer = NoContainer /\ logRequests = {} /\ orders = {}

KeepSettings == Keep

-----------------------------------------------------------------------------
(* The table and its filter.                                               *)

OnTable == screen = "fleet"
KeepModal == UNCHANGED <<modalVars, resultVars>> /\ KeepSettings

MoveKey ==
  /\ OnTable /\ Rows > 0
  /\ cursor' \in {(cursor + 1) % Rows, (cursor + Rows - 1) % Rows}
  /\ UNCHANGED <<screen, line, metrics, filter, pinned>> /\ KeepModal

\* A click, or the wheel.
Mouse ==
  /\ screen \in {"fleet", "filter"}
  /\ cursor' \in 0 .. Rows - 1
  /\ UNCHANGED <<screen, line, metrics, filter, pinned>> /\ KeepModal

FilterKey ==
  /\ \/ OnTable /\ screen' = "filter" /\ UNCHANGED <<filter, cursor>>
     \/ screen = "filter" /\ screen' = "fleet" /\ cursor' = 0 /\ UNCHANGED filter
     \/ screen = "filter" /\ UNCHANGED screen /\ filter' \in Filters /\ cursor' = 0
  /\ UNCHANGED <<line, metrics, pinned>> /\ KeepModal

PinKey ==
  /\ OnTable
  /\ \/ /\ OnContainer
        /\ Current \in Pinnable
        /\ pinned' = IF Current \in pinned THEN pinned \ {Current} ELSE pinned \union {Current}
     \/ pinned' = {}
  /\ UNCHANGED <<screen, line, metrics, filter, cursor>> /\ KeepModal

NextMode(mode) ==
  CASE mode = "auto" -> "fast" [] mode = "fast" -> "deep"
    [] mode = "deep" -> "manual" [] mode = "manual" -> "auto"

TabKey ==
  /\ OnTable
  /\ Configure([config EXCEPT !.mode = NextMode(@)])
  /\ UNCHANGED <<screen, line, ai, fleetVars, modalVars, resultVars>>

\* Help, preferences and the models open the same way, each at its top.
OpenKey ==
  /\ OnTable
  /\ \/ \E s \in {"help", "preferences"} : Open(s) /\ UNCHANGED ai
     \/ Open("config") /\ ai' = [ai EXCEPT !.view = "policy", !.policy = 0]
  /\ UNCHANGED <<config, changes, fleetVars, modalVars, resultVars>>

\* Back on the table: what the screen was about is forgotten, since every screen sets
\* the fields it uses when it opens.  In the code they keep their values.
BackToTable ==
  /\ screen' = "fleet" /\ line' = 0
  /\ selected' = NoContainer /\ pending' = NoContainer /\ action' = "restart"
  /\ incident' = NoIncident /\ listed' = << >> /\ viewer' = NoContainer
  /\ UNCHANGED <<fleetVars, results, logRequests>> /\ KeepSettings

\* The logs of c are asked for; the viewer says so until they come.
FetchLogs(c) ==
  /\ Cardinality(logRequests \union {c}) <= MaxUnderWay
  /\ screen' = "logs" /\ viewer' = Loading
  /\ logRequests' = logRequests \union {c}
  /\ UNCHANGED <<results, orders>>

LogsKey ==
  /\ OnTable /\ OnContainer
  /\ selected' = Current
  /\ FetchLogs(Current)
  /\ UNCHANGED <<line, fleetVars, pending, action, focus, incident, listed>>
  /\ KeepSettings

NetworkKey ==
  /\ OnTable /\ OnContainer
  /\ selected' = Current /\ pending' = Current
  /\ screen' = "network"
  /\ UNCHANGED <<line, fleetVars, action, focus, incident, listed, resultVars>>
  /\ KeepSettings

\* esc on a screen that has nothing else to do but leave.
LeaveKey ==
  /\ screen \in {"logs", "network"}
  /\ BackToTable
  /\ UNCHANGED <<focus, orders>>

\* The confirmation of `act` on `c`.
AskToConfirm(c, act) ==
  /\ pending' = c /\ action' = act
  /\ screen' = "confirm"
  /\ selected' = NoContainer /\ incident' = NoIncident /\ listed' = << >> /\ line' = 0
  /\ UNCHANGED <<fleetVars, focus, resultVars>> /\ KeepSettings

RemedyKey == OnTable /\ OnContainer /\ \E act \in Action : AskToConfirm(Current, act)

-----------------------------------------------------------------------------
(* Confirmation.                                                           *)

\* A slip of Confirmed: what the cursor is on by then.
ConfirmedUnderCursor == IF OnContainer THEN Current ELSE NoContainer

\* The container as it was when the modal opened.
Confirmed == pending

\* The use case refuses a command without a container or off the list.
RemediateContainer(c, act) ==
  orders' = IF c # NoContainer /\ act \in Action
            THEN orders \union {[container |-> c, action |-> act]} ELSE orders

\* y or n, which the two buttons stand for.
ConfirmKey ==
  /\ screen = "confirm"
  /\ \/ Cardinality(orders) < MaxUnderWay /\ RemediateContainer(Confirmed, action)
     \/ UNCHANGED orders
  /\ BackToTable
  /\ UNCHANGED focus
=============================================================================
