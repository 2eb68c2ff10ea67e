# Verification of SOLV Server Tracker

TLA+ modules of the Go agent (`src/agent`) and the FastAPI control plane
(`src/server`), the configurations TLC checks them with, and theorems checked by
TLAPS. `PROJECT.json` maps every definition to the lines it was translated from.

## The system

One **agent** per host samples Docker and does two things: as a daemon it sends
telemetry to the control plane and executes the orders it receives back; as a
terminal interface it groups anomalies into incidents, has them diagnosed by
rules or a language model, and executes remediations the user confirms. The
**control plane** stores telemetry, relays orders from Telegram (and an MCP
server), and polls its own targets.

| component | source | state | operations | hard part |
|---|---|---|---|---|
| ring buffer | `infrastructure/buffer/ring.go` | slots, head, tail, size under a mutex | Push, Pop, Drain, Len | overflow meeting a wrap-around or a reset |
| sampling loop | `delivery/cli/daemon.go`, `transport/client.go` | the buffer, the batches drained | one cycle per tick: sample, push, drain, send in order, push back the one that failed | time-outs racing the server, partial failure, outages longer than the server's window |
| ingestion | `routers/telemetry.py`, `auth/hmac_auth.py` | hosts, metric rows | check time, read the body, check signature, register the host, store rows | two commits, the await in between, answers that get lost |
| control channel, agent | `transport/ws_client.go` | connection, backoff, a goroutine per command | dial, listen, execute, acknowledge, wait, dial again | acknowledgements that outlive their connection |
| control channel, server | `services/connection_manager.py`, `routers/websocket_channel.py` | registry of connections, pending futures | connect, disconnect, send_command, handle_message | the await inside connect, time-outs, replaced connections |
| ChatOps webhook | `routers/telegram_webhook.py`, `notifications/telegram.py` | audit log | verify, dispatch, record | repeated presses, restarts, verdicts that come late |
| incident aggregator | `core/service/incident_aggregator.go`, `dependency_graph.go` | incidents, recent events, membership | ingest, adjoin, close, override the origin | time windows, membership and origin staying consistent |
| crash journal | `core/service/crash_journal.go` | ring of 50 events per container, the marks of those recorded | record, diagnose, count, summarise for a prompt | identity of an event, counts over windows |
| diagnosis cascade | `core/usecases/diagnose_container.go`, `rule_engine.go`, `ai_response_parser.go` | re-executed events, shared by use cases | model, deep model, rules, signal; then the journal | check and mark of the shared map, several callers |
| triage client | `infrastructure/ai/triage.go` | configuration | choose a model, ask it, word a failure | a failure and an answer are both texts |
| meter | `core/service/ai_meter.go` | requests and tokens of the session | record | replies that are refused or never used |
| model catalogue | `infrastructure/ai/catalog_service.go`, `catalog_provider.go` | models, statistics, ratings, cache file and its temporary file | load, synchronise, save, record, choose a slot | two processes and one temporary file, statistics outliving their model |
| vault | `infrastructure/vault/vault.go` | keyring, encrypted file, environment | save and get for each field | stores that fail independently and disagree |
| collector | `infrastructure/docker/collector.go` | previous samples | collect, execute a remediation | overlapping collections, counters that start anew |
| dependency graph | `core/service/dependency_graph.go` | none | build | the order Docker lists containers in |
| terminal interface | `delivery/tui/*` | the screen, its cursors and selections, results in flight | keys, clicks, messages of goroutines | results that arrive for a state that has moved on |
| availability monitor, targets | `server/monitor.py`, `routers/target.py`, `routers/server.py` | targets, logs | poll, alert on a change, CRUD | first observation, targets deleted in a round |
| the rest | `i18n`, `domain`, `connectors.go`, `mcp_server.py`, `ai_triage.py`, `database.py`, scripts | none of its own | | |

How they interact: the sampling loop calls the collector, the buffer and the
HTTP client from one goroutine; the HTTP client calls the ingestion handler,
which creates the host row without which the WebSocket endpoint refuses the same
agent. A webhook call awaits `send_command`, which writes on the registered
connection and waits for a future that the endpoint of *some* connection of that
host completes. In the interface everything happens in `Update`, and commands
return messages from goroutines of their own. A diagnosis is such a goroutine: it
asks the triage client, which takes its model from the configuration of the
interface or from the catalogue's slots, writes in the journal that the metrics
handler also writes in, and ends as a message that feeds the meter and the incident.

What makes each correct, in a sentence: the buffer is a bounded queue; an
acknowledged batch is stored and an undelivered one is held; an order is carried
out at most once and gets one truthful verdict; the registered connection is a
served one; an incident has the members and the origin its events give it; a
crash is counted once, and costs one deep request; what was saved in the vault is
what is read back, and a file never holds half a pair; ratings are those of the
statistics; a rate is never made up; what the user confirmed is what is executed.

## Modules

| module | what it is |
|---|---|
| `BoundedFifo` | abstract specification: a bounded queue that drops its oldest element |
| `RingBuffer` | `ring.go`; refines `BoundedFifo` |
| `TelemetryPipeline` | `daemon.go`, `client.go`, `telemetry.py`, `hmac_auth.py`; uses `BoundedFifo` for the buffer |
| `RemediationPromise` | abstract specification of one order: carried out at most once, one verdict |
| `ControlChannel` | `ws_client.go`, `connection_manager.py`, `websocket_channel.py`, `telegram_webhook.py`; refines `RemediationPromise` |
| `IncidentGroups` | abstract specification of incidents: disjoint groups held together by topology, that only grow |
| `IncidentAggregator` | `incident_aggregator.go` and the handlers of `update.go` that use it; refines `IncidentGroups` |
| `CrashJournal` | `crash_journal.go`; each container's list takes the steps of a `BoundedFifo` |
| `LocalRules`, `AIResponseParser`, `TriageClient` | pure parts of a diagnosis: the table of rules, the parser of answers, the routes and failure texts of `triage.go` |
| `DiagnosisCascade` | `diagnose_container.go`, the meter and the handlers that ask for diagnoses; composes the four above |
| `SettingsScreens`, `FleetScreens`, `InterfaceLoop` | the screens of `update.go`, each extending the one before |
| `CredentialVault` | `vault.go` |
| `ModelCatalog` | `catalog_service.go`, `catalog_provider.go` and the ratings of `ai.go` |
| `DependencyGraph`, `DockerCollector` | `dependency_graph.go`; `collector.go`, whose lists the graph is built from |
| `MCRingBuffer`, `MCTelemetry`, `MCControl`, `MCIncidents`, `MCDiagnoses`, `MCInterface`, `MCVault`, `MCCatalog`, `MCCollector` | small instances for TLC |
| `TelemetryProofs` | theorems about the buffer and the pipeline that uses it |
| `ControlProofs`, `IncidentProofs`, `DiagnosisProofs`, `InterfaceProofs`, `VaultProofs`, `CatalogProofs`, `CollectorProofs` | theorems about the component each is named for |

Definitions whose comment calls them a *slip* are mistakes that could be made in
the code; each belongs to one property, which TLC finds violated when the slip
takes the place of the definition after it.

### RingBuffer

The mutex is held for the whole of each method, so a method is one step of
`RingSpec`. `returned` is what it hands out. The refinement maps the queue to
`Contents`, the `size` slots from `head` on. The capacity asked for may be
zero or negative, which the constructor replaces by a default.

### TelemetryPipeline

The agent's loop is the program counter `pc` (`idle`, `drain`, `send`, `wait`);
`pending` is the slice `Drain` returned and the `for` walks over. A request is in
two stages because `ingest_telemetry` looks at the timestamp header before it
awaits the body: other requests, and the client's time-out, come in between. A
request the client has given up may still be handled or get lost. `healthy` is
the state of everything outside (Docker, network, database): while it is false,
calls may fail in every way; while it is true they succeed, possibly late.
Time is counted in sampling intervals and a batch is named by its sampling
instant, which is also the timestamp of the request in every attempt. A batch
may list no container, in which case the nil slice becomes `null` and the schema
refuses it. Keys are model values: what matters is whether the agent's key is
the stored one, and that an unknown host gets the default.

### ControlChannel

One host. The agent's connection loop is `loop`, each command's goroutine is
`task[c]`, a socket's server end is `handler[s]`, the registry entry is `active`,
and a webhook call is `request[c]` with its future `answer[c]`. A server coroutine
is one step between two awaits: `connect` is therefore `Accept`, then either
`Register` or `BeginReplace` and `FinishReplace`, with everything else possible
while it awaits the close of the connection it replaces. `closing` remembers that
`close` was called, because a second close or a send on such a socket raises, and
the code swallows the exception. A silent cut leaves both ends believing in the
connection; each notices at its own step. Restarts of either side drop what is
in memory; the database (`registered`, `audit`) stays. What a remediation does to
Docker is one step that succeeds or fails.

### IncidentAggregator

Update handles one message at a time, so only the answers of models and the
containers themselves run beside it. A metrics message is several steps, because
it treats one container after the other and the order matters: `ReceiveMetrics`
records the anomalies and builds the dependency graph of what is listed, `Adjoin`
or `PassOver` treats each container that is in no open incident, `OpenIncident`
makes a component of two or more an incident, and `CheckQuietPeriods` closes what
is due and asks for diagnoses. A message may leave out a running container (its
statistics failed) and may lack an inspection (`Unreadable`), which loses both the
time of the event and the container's dependencies. `recentEvents` keeps the first
event since the last incident of a container closed, as the code does, though its
comment says the last. `Link` (a compose project or a network shared) and `Edge`
(inferred dependencies) are constants; containers are known by name, and `Id`
enters only where a model's answer is compared with identifiers. Where several
events are equally old or several incidents could take a container, the sort and
the iteration over a Go map decide: the model allows each.

### CrashJournal, DiagnosisCascade and their pure parts

A snapshot is what a collection saw of a container: a kind of status, how long
ago the text says it happened, and the time the inspection gives, 0 when it
failed. `Mark` is the key the code builds of it, which tells two crashes apart
only if it has the time. `recorded` is `recordedKeys`, `journal[c]` the list of at
most `Keep` entries. Each method of the journal holds its mutex throughout and is
one operator; a diagnosis calls three of them in three steps.

`calls[i]` is one diagnosis from its start to its message. `phase` follows
`executeCascadeRaw`: `fast`, then for a trusted critical answer `check`, `mark` and
`deep`, then `record`, `count` and `update` of `enrichWithRecurrence`, then `reply`,
which the interface handles. Check and mark are two steps because every use case
locks a mutex of its own around the map they share. `pending` and `cached` are
`triagePending` and `diagnosisCache`. A fast request may be answered in every way of
`Replies`: each failure of each provider, worded as `triage.go` does, and answers
complete, incomplete or unparsable, one of which happens to contain the words of a
failure. `Metrics` is one step with the collection it brings.

`LocalRules` keeps the table in its order; what is read of a status is the exit
code and the words that the rules look for, what is read of logs the patterns they
contain. `AIResponseParser` scans texts over the five characters the scan
distinguishes, and validates fields that are absent, given, or given wrongly.
`TriageClient` holds the two copies of the choice of a model and the three
callers' texts for a failure, with the test that tells them from answers.

### SettingsScreens, FleetScreens, InterfaceLoop

Each key, click and message of `Update` is one step. The model keeps what keys and
messages decide by: the screen that is open, the cursors, the selections, the
container a screen is about, the order being confirmed, and what is under way.
Texts, colours, sizes, scrolling and preferences of display are left out, and so
is what a screen leaves behind when every way to open it sets it anew. A list is
what the code builds it from, and what is on it has a place that says where it is
drawn: `BrowserItems` are the models that match, each under the header of its group,
`Shown` the containers the filter lets through, `Actions` the actions that fit a
container. The item under a cursor is the one with as many above it. A filter
or a search is the set of what it lets through. `Metrics`, `LogsArrive`,
`OrderEnds`, `DiagnosisArrives` and `Discovered` arrive on any screen.

The browser makes its list at every key, of what a scan has found or else of the
catalogue as it is by then. `Synced` is the end of the sync that `Init` starts: it
replaces the catalogue's list once, at any moment, without a message that the screens
handle. Both it and a scan leave the cursor where it is; `ai.shrunk` notes when they left
fewer items. `Configure` stands for the five handlers that set the configuration; each
also saves it and tells the triage client (`SetConfig`, `SetLanguage`) before it
returns, which is left out: what a diagnosis reads is the configuration of some earlier
step, but for the race on its maps named below.

### CredentialVault

`keyring` holds items and `file` a payload; `Unreadable` is a file that is absent,
torn or fails to decrypt, which the code treats alike. A save sets the items of
its field in turn and, when one fails, reads, truncates and writes the file, each
of which is a step (`os.WriteFile` is not atomic). Reading goes through keyring,
file and environment (`Get`), with the values that count as absent in each.
Several processes (daemon, interface, onboarding) share the stores, and each may run in
a session with or without a keyring. `world` says which of failing halfway, ending in
the middle and overlapping a behaviour may have.

### ModelCatalog

`at[p]` is where a process is in `LoadCacheOrSeeds`, `SyncIfExpired` and `SaveCache`.
The cache is written by way of a temporary file of fixed name: `fd[p]` says whether
what a process writes to is still that file or has been renamed by another one.
Ratings are computed with the code's integers, scores in tenths. `metrics` and
`windows` outlive the model they are about, as the maps of the code do. A list may
have an identifier twice (`Of`): OpenRouter's provider puts its free router before
whatever the API lists, without looking whether it is there.

### DependencyGraph and DockerCollector

A collection takes the list of containers with their networks in one step
(`Begin`), then for each that ran asks for statistics (`ReadStats`) and updates
the shared sample under the lock (`Record`) with the time the collection began,
as the code does. An inspection may fail for the behaviours about the graph: the environment
and the aliases that the list leaves out (`Meta[c].listed` are those it has) are then
not told. Collections overlap. Remediations go through: a restart and a
stop set the counters back, an isolation may leave any of the networks.
A behaviour is about the rates of busy containers or about the graph of all of
them (`Aspects`); the two share no state but the list.

## What is checked

Passing runs:

| run | properties | bounds |
|---|---|---|
| `RingBuffer` | `HeldSlotsWritten`, `ImplementsFifo` | 3 slots, 3 batches: overflow and wrap-around at each offset; the state space is finite and explored completely |
| `Telemetry` | type, `AcknowledgedIsStored`, `UndeliveredIsHeld`, `FirstStoredInOrder`, `OldestKept`, `RecoveryWithinWindow` | 4 sampling instants, a window of 3, a skew of 1, a time-out of 1, one restart, a host known with the agent's key, with another, or not at all, empty samples: a batch can fail, be sent again, be overtaken by its own late request and leave the window |
| `ControlOrders` | type, `ExecutedIsRecorded`, `ImplementsPromise` | 2 orders of one button, 2 connections, one restart: an answer can arrive on another connection, after the time-out, after a restart |
| `ControlConnections` | `RegisteredIsServed`, `ClosedIsBeingReplaced`, `EveryCallEnds`, `Reconnects` | 2 connections at a time, each used again once forgotten, one restart, a forbidden button: one registered, one replacing it, and new ones after |
| `Incidents` | type, `MembersAgree`, `OriginsAreMembers`, `RuleOriginIsOldest`, `BudgetKept`, `DiagnosisKept`, `LinkedPairsTaken`, `ImplementsGroups` | 3 containers in a row, 2 incidents one after the other, 3 instants with a window of 1, 3 faults, recoveries and keys: a third container joins late with an older event, by window or by dependency; an incident closes, with an answer outstanding, and its containers form another |
| `Diagnoses` | `CountsTrue`, `MeterExact`, `AnswersParsed`, `RulesApt`, `RequestsApt`, `JournalIsFifo`, `DeepOncePerCrash`, `PendingEnds` | one container, 3 instants, 2 crashes remembered and 2 that make one recurrent, 2 diagnoses: they overlap on one crash, on two, and around a change of mode; the list overflows. The pure parts over all rules, all fields and texts of up to 18 characters |
| `Interface` | `CursorsInLists`, `BrowserCursorInList`, `ConfirmedAsShown` | 3 containers in lists of 3, 2 and none, an incident that grows, one pinned, one order and one request for logs under way; 4 models of 2 providers, scans and a sync that leave 3 to 5 items of 7, one change of the configuration: up panics in the model after a scan and after the sync |
| `Vault` | `LastSavedIsRead`, `FilePairsWhole` | 2 processes with or without a keyring, 2 values besides what was left, 3 saves: one over another, one that fails, one that overlaps |
| `Catalog` | `AssessmentsCurrent`, `FreeSlotIsFree` | 2 processes, 3 starts, 3 requests with a window of 2: latencies leave the window, a model is dropped from the catalogue and comes back, or is in it twice, one process renames the file another writes |
| `Collector` | `RateBounded`, `GraphIgnoresOrder` | 3 containers on 2 networks, 2 collections at a time, 3 instants, one change: restarts within, before and after collections |

`AnswersParsed`, `RulesApt` and `RequestsApt` say of every diagnosis begun that the
pure functions it rests on are right over all the inputs listed before
`ParserExact`, `RulesExact` and `RequestsExact`; the other properties are about the
behaviours.

Runs that show the code disagreeing with what the repository says of it, each a
finding in `PROJECT.json` with the line it quotes:

| run | what happens |
|---|---|
| `TelemetryWedge` | a batch older than the window is refused, pushed back and sent first for ever; nothing later is sent |
| `ControlOrphan` | two connections replacing a third can leave the live one unregistered |

Bounds that exist only in the model, each a guard: `MaxTime`, `MaxRestarts`,
`MaxInputs`, `MaxCalls`, `MaxChanges`, `MaxUnderWay`, `MaxSaves`, `MaxStarts`,
`MaxInferences`; the sets `Socket`, `Command`, `Callback`, `Incident`; and constants
that split or narrow the behaviours of a run: `Session`, `Diagnosed`, `Pinnable`
(interface), `Worlds`, `Left` (vault), `Asked` (catalogue), `Aspects`, `Busy`,
`MaxDelay` (collector). A socket is used again once both ends have forgotten it,
so `Socket` bounds how many connections exist at one time, not how many there
ever are. Runs whose bounds let the model come to an end say `CHECK_DEADLOCK FALSE`:
a terminal interface, a vault or a catalogue has nothing it must do.

Fairness. `TelemetryPipeline!FairSpec` is weakly fair in the agent's loop
(goroutine and ticker), the web server and the passing of time.
`ControlChannel!FairSpec` is weakly fair in the agent's loop, in each socket's
coroutine and in each webhook call, whose time-out is a timer of the event loop.
`DiagnosisCascade!Spec` is weakly fair in each diagnosis: a request ends within the
client's time-out, the goroutine runs to its end, and `Update` handles every message.
Nothing is assumed of the network, of Telegram or of the health of the
environment, nor that a received command is ever executed or answered: liveness
properties that need a working network have it as their premise.

## What the models show of the code

Properties are stated as the code keeps them. Where one has an exception, the
comment before it says so. Met while modelling, and not given a run:

- *Telemetry and orders.* A failed send drops the younger batches drained with it
  (`daemon.go:94`). A batch whose answer was lost is stored twice. A host without
  containers sends `null`, which the schema refuses (`collector.go:110`). A button
  delivered twice in its sixty seconds is carried out twice
  (`telegram_webhook.py:55`). An order answered after ten seconds is recorded as failed
  though carried out (`connection_manager.py:82`); a restart between dispatch and
  record leaves it without a row. The backoff is not reset after a clean close
  (`ws_client.go:86`), a heartbeat goroutine is left per connection, and two commands for
  one container may be carried out in the other order.
- *Incidents.* The final diagnosis is asked for when an incident closes and its
  answer is looked for among open ones (`update.go:1079`). A model is asked for the
  name of the origin and its answer is compared with identifiers. The time of an
  event is the first failure's (`incident_aggregator.go:140`). A diagnosis under way iterates
  over members that the interface may be changing, a race that aborts the process.
- *Diagnoses.* Ollama's time-out and HTTP errors pass for an answer
  (`triage.go:588`), and an answer that contains "no disponible" for a failure. A
  diagnosis may be written on a newer crash than its own, a result of the rules ends
  the wait of a request to a model, and an answer is kept after a new crash.
  The block for the prompt says "en la última hora" when nothing is in the window.
- *Interface.* Logs arrive under the name of another container
  (`openspec/specs/tui-low-cognitive-load/spec.md:40`). A scan, or the catalogue's sync in the
  background, may shrink the browser's list under its cursor, and up then indexes past
  its end (`update.go:636`, the screen `panic` of the model). The maps of the configuration
  are shared with the triage client, whose goroutines read them while a key writes them
  (`update.go:766`), a race that aborts the process. After a search the cursor may be on a header. A model that answers with
  identifiers, which its prompt does not show it, would put names on an incident's
  list that the next collection takes off again, under the cursor.
- *Vault.* The keyring's address and token can come from two saves when the second
  call fails, the process ends or saves overlap. A keyring that works again hides
  what was saved to the file meanwhile. Unpinning everything stores an empty list that
  reads as none, so older pins return. A file without an AI configuration yields
  the default one and hides the environment's. A torn file loses all fields at the
  next save.
- *Catalogue.* A model listed twice is rated by its last entry when a list arrives
  (`catalog_service.go:101`) and by its first after a request (`catalog_service.go:254`). Two
  processes share one temporary file and may leave a torn cache.
  The percentile's index is one rank low. After a restart the first requests turn
  "observed" back into "estimated". A custom endpoint that answers is never asked for
  its models (`connectors.go:600`).
- *Collector and graph.* Overlapping collections around a restart make up a rate. Samples
  of removed containers are kept. Isolation ignores errors. An alias two containers
  share means the one listed last, and 53/tcp and 53/udp count as a conflict.

## What is proved

For every value of the constants that satisfies the named assumptions.

| theorem | of | statement |
|---|---|---|
| `BufferTypes`, `BufferIndices`, `BufferHeldSlots` | `RingBuffer` | the three invariants |
| `BufferImplementsFifo` | | `RingSpec => ImplementsFifo` |
| `PipelineTypes`, `PipelineRetention`, `PipelineChronological`, `PipelineAcknowledged`, `PipelineUndelivered`, `PipelineSentInOrder` | `TelemetryPipeline` | its invariants |
| `PipelineStoresInOrder`, `PipelineOldestKept` | | its action properties |
| `ChannelTypes`, `ChannelRecords`, `ChannelServed`, `ChannelReplaces` | `ControlChannel` | its invariants |
| `ChannelKeepsPromise` | | `Spec => ImplementsPromise` |
| `AggregatorTypes`, `AggregatorMembers`, `AggregatorOrigins`, `AggregatorRules`, `AggregatorBudget` | `IncidentAggregator` | its invariants |
| `AggregatorDiagnoses`, `AggregatorTakesLinked` | | its action properties `DiagnosisKept` and `LinkedPairsTaken` |
| `AggregatorImplementsGroups` | | `Spec => ImplementsGroups` |
| `DiagnosesTyped`, `MeterIsExact`, `JournalCountsTrue`, `RulesAreApt`, `RequestsAreApt`, `AnswersAreParsed` | `DiagnosisCascade` | its types, `MeterExact`, `CountsTrue`, `RulesApt`, `RequestsApt`, `AnswersParsed` |
| `OneDeepRequest` | | its action property `DeepOncePerCrash` |
| `JournalKeepsPromise` | | every container's list implements a `BoundedFifo` (`JournalIsFifo`) |
| `ExtractionIsExact`, `FirstObjectFound` | `AIResponseParser` | beyond the listed texts: from a text of any length its first object is extracted and nothing else; objects may nest to any depth |
| `CursorsStayInLists`, `BrowserStaysInList` | the screens | `CursorsInLists`, `BrowserCursorInList` |
| `OrdersAreConfirmed` | | the action property `ConfirmedAsShown` |
| `VaultPairs`, `LastSaveIsRead` | `CredentialVault` | its invariants |
| `RatingsFollow`, `FreeModelFound` | `ModelCatalog` | its invariants `AssessmentsCurrent`, `FreeSlotIsFree` |
| `CollectorTyped`, `RatesBounded`, `OrderOfGraphIgnored` | `DockerCollector`, `DependencyGraph` | types, `RateBounded`, `GraphIgnoresOrder` |

`RingTypeOK` and `IndicesAgree` of the buffer, `AtMostOneRetained`, `Chronological` and
`SentInOrder` of the pipeline and the types of the diagnoses and of the collector are
proved and have no run of their own.

The assumptions that say something of the system: the buffer has at least two slots
(`CapacityAssumption`); links are symmetric and an inferred dependency is a link
(`LinkAssumption`, `EdgeAssumption`); the origin and the cascade of an incident are names of
its members (`IncidentAssumption`, which `AggregatorOrigins` shows of the origin); there are
finitely many containers (`ContainerAssumption`, `CollectorAssumption`); a setting has a name
of its own in the keyring (`VaultAssumption`); one of the seeds is free, and so are
OpenRouter's router and whatever Ollama has (`FreeAssumption`, `ai.go:313` and
`catalog_provider.go:94`, `:263`). The others give constants their types.

The arguments:

- *Ring buffer.* The inductive invariant is the type invariant with
  `IndicesAgree` and `HeldSlotsWritten`. `%` is out of the solver's reach for a
  variable divisor, so `WrapOnce` first turns `(a + b) % Capacity` into a case
  distinction. Refinement compares `Contents` before and after, element by
  element.
- *Pipeline.* `SentInOrder` and `UndeliveredIsHeld` are not inductive alone. The
  invariant adds where batches can be at each `pc` (`LoopInv`, at most two in
  all), that everything held or sent is older than the clock and younger than the
  process (`ClockInv`), and that the awaited request carries the head of
  `pending` (`RequestInv`). The capacity enters only through
  `CapacityAssumption`: with two slots the buffer never overflows.
- *Channel.* A command is on the wire, in the agent's hands or executed, never
  two of these (`OncePlaced`); an answer, wherever it is, tells the truth about
  the execution (`Truthful`); a verdict exists exactly when the call has
  concluded (`Concluded`). The registry half of the invariant adds that a closed
  connection was registered when it was closed (`ClosingWasRegistered`).
- *Incidents.* `MembersAgree` needs that what is still to be considered in a message
  is in no open incident and that every anomaly has an event (`MessageKept`);
  `OriginsAreMembers` needs both origins to be members, the one shown and the one
  behind it, and that an incident not formed is empty (`OriginsKept`). The budget
  adds that nobody asked about an incident not formed (`Uncalled`). Steps are first
  described by what they do to an incident (`AdjoinFacts`, `OpenFacts`,
  `CheckFacts`, `OtherStepKeeps`), from which each invariant and the refinement
  follow. `LinkedPairsTaken` rests on the graph being that of the message and on
  what waits to be considered being all of it that is in no incident.
- *Diagnoses.* Check and mark of the shared map are two steps, so `DeepOncePerCrash`
  needs that two diagnoses by a model of one container are never under way together
  (`OneAsking`), which needs that such a container is marked as waiting
  (`AskingIsPending`); both are void once a diagnosis by the rules ended the wait
  (`ByRules`). The list of a container is the queue of its marks. For `CountsTrue` the
  invariant has a history: there are sets of instants, no larger than what happened,
  from which every readable snapshot and every mark takes its time (`Happened`), and no
  list has a mark twice (`MarksApart`); so a list of marks within the window injects
  into what happened. The meter shows the requests of the diagnoses that ended.
- *Pure parts of a diagnosis.* `VerdictsApt` and `FailuresTold` hold of any status, any logs
  and any provider, not only of the inputs that the runs list. The scan of an answer is a
  recursive function, and induction theorems cannot be used here; so each fact about it that
  needs one (`ScanExists`: there is such a function; `QuietReturns`: it stays where it was
  over a text that means nothing there) takes the least position at which it fails and shows
  that there is none. The other texts are built up from these: a text `Returns` when a scan
  that meets it at any depth ends where it began and was never below, which strings, objects
  and texts in a row do (`QuotedReturns`, `NestedReturns`, `ConcatReturns`). Around such a
  text, the closing brace is the first at which the depth is 0 (`EnclosedIsObject`), hence
  `FirstObjectFound`; the objects of the grammar that the run enumerates are a case of it.
  `ExtractionIsExact` adds the converse: what is taken is always such an object.
- *Interface.* `CursorsInLists` is proved list by list (`TableInv`, `IncidentInv`), and
  `BrowserCursorInList` from `BrowserInv`, which adds the types and holds on every screen:
  the browser's list is a finite set of items with places, never empty, so that a cursor
  that counts the items above an item is below their number (`PlacedInList`). A list that
  another replaces keeps the cursor unless it is shorter (`RelistedInList`), which is the
  browser's one exception (`ai.shrunk`); and only up with the cursor beyond the list
  panics (`PanicsBeyondList`).
- *Vault.* A save writes both halves of a pair or carries both over from the payload
  it has read, so the invariant says that every payload, in the file or in the hands
  of a process, has equal halves, next to the types that make this meaningful. It
  takes no account of what the keyring does, which has no such property.
  `LastSaveIsRead` is about behaviours in which nothing fails halfway, ends in the middle
  or overlaps (`world`): one process at most is saving (`Alone`), the items of the keyring
  it has not set yet and the file it has not written yet still hold what was saved
  before (`KeyringFollows`, `FileFollows`).
- *Catalogue.* A file that is whole was written by a process that had a catalogue, and
  a catalogue always has a free model (`Sound`, `FreeAtHand`), so it does not matter who
  wrote the cache, how often or how far. The rating of an identifier is renewed by each
  of the steps that change its entries or its statistics (`Rated`).
- *Collector.* A rate compares two readings, so the invariant bounds each reading by
  what a container can have sent since the time written on it (`Sampled`, `ReadSince`),
  and, where collections overlap, the readings under way by each other (`ReadsAgree`,
  `NeverBack`); `OneAtATime` covers behaviours without overlaps, in which restarts are
  allowed. For the graph, every list of a collection tells of a container once
  (`OneEach`), and what the graph says of a container is an expression in the set of
  those listed.

Only model-checked: the liveness properties (`RecoveryWithinWindow`, `EveryCallEnds`,
`Reconnects`, `PendingEnds`), which need reasoning about `ENABLED` and fairness that the
prover does not have. Every invariant and every action property of the passing runs is the
statement of a theorem. What the percentile and the sums compute for all inputs is not: the
prover has no induction over data, and only the scan of answers has been worked around it
(by least counterexamples, above). No module that is proved about declares a recursive
operator. Neither does the prover see into `SelectSeq` or `FlattenSeq`; the lists that
theorems are about are therefore described by positions.

## Not modelled, and the plan

Outside: cryptography (a signature, token or payload is valid or not), texts and
translations, rendering, the Docker daemon, the wire formats of the model providers
(`connectors.go`), MCP queries, installation scripts. `PROJECT.json` gives the reason
for each component. Of the components that are modelled in part, what is left out is
what only reads (lists of hosts, of models by provider), the saves that the settings
screens make in the vault (one call each, which `CredentialVault` has), and the costs of
the meter.

What is left, in order:

1. `AvailabilityMonitor` with the targets' API: a round that alerts on changes of
   status while targets are created and deleted (`monitor.py:55` stores a
   target first seen down without an alert; `target.py:41` lacks its decorator's `@`).
2. Composition: the telemetry pipeline creating the host that the control channel
   requires, and the order ending in the collector, whose isolation can be partial.
