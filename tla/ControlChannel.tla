--------------------------- MODULE ControlChannel ---------------------------
(***************************************************************************)
(* The road of a remediation order from a Telegram button to a container:  *)
(*   server/routers/telegram_webhook.py        the operator's button       *)
(*   server/services/connection_manager.py     commands and their answers  *)
(*   server/routers/websocket_channel.py       the server end of a socket  *)
(*   agent/internal/infrastructure/transport/ws_client.go   the agent end  *)
(* for one host.  The server runs one event loop, so what it does between  *)
(* two awaits is one step; the agent runs one goroutine for its connection *)
(* and one for each command it received.                                   *)
(***************************************************************************)
EXTENDS Naturals, FiniteSets

CONSTANTS
  Socket,       \* bound: the connections that may exist at one time
  NoSocket,     \* no connection
  Command,      \* bound: the webhook calls, each of which is one command
  Callback,     \* the buttons of the alerts sent to the operators
  Forbidden,    \* the buttons whose action is not on the whitelist
  MaxBackoff,   \* longest pause between two dials, in seconds (30)
  MaxRestarts   \* bound: how often the agent or the server restarts

ASSUME SocketAssumption == NoSocket \notin Socket
ASSUME CallbackAssumption == Forbidden \subseteq Callback
ASSUME BackoffAssumption == MaxBackoff \in Nat \ {0}
ASSUME RestartAssumption == MaxRestarts \in Nat

VARIABLES
  healthy,     \* the network and the database work
  \* the agent
  loop,        \* its connection loop: "dial", "handshake", "listen", "pause"
  sock,        \* the connection being dialled or listened to
  backoff,     \* the next pause, in seconds
  task,        \* task[c]: the goroutine of c: "none", "received", "succeeded",
               \* "failed", "done"
  \* the network
  link,        \* link[s]: "down", "up", "cut" (network), "closed" (by the server)
  wire,        \* messages sent on a connection and not yet read
  \* the server's end of the connections
  handler,     \* handler[s]: "free", "handshake", "accepted", "replacing",
               \* "listening"
  active,      \* the connection registered for the host
  closing,     \* the connections the server has called close on
  registered,  \* the host has a row in the database
  \* the webhook calls
  request,     \* request[c]: "none", "arrived", "waiting", "done", "rejected",
               \* "lost"
  callback,    \* callback[c]: the button that was pressed
  answer,      \* answer[c]: what the future of c holds: "none", "ok", "error"
  audit,       \* audit[c]: the row of the audit log: "none", "success", "failed"
  invalid,     \* buttons refused: expired, forged, or pressed by a stranger
  executed,    \* history: how often the container was acted upon for c
  restarts     \* history: restarts so far

connVars == <<loop, sock, backoff>>
socketVars == <<handler, active, closing>>
webhookVars == <<request, callback, answer, audit>>
vars == <<healthy, connVars, task, link, wire, socketVars, registered,
          webhookVars, invalid, executed, restarts>>

\* What travels on a connection: commands one way, acknowledgements the other.
\* Commands are carried out concurrently, so their order on the wire is lost on
\* arrival and the wire is a set.
Message ==
  [kind : {"command"}, on : Socket, cmd : Command]
    \union [kind : {"ack"}, on : Socket, cmd : Command, ok : BOOLEAN]

Order(s, c) == [kind |-> "command", on |-> s, cmd |-> c]
Ack(s, c, ok) == [kind |-> "ack", on |-> s, cmd |-> c, ok |-> ok]

Init ==
  /\ healthy = TRUE
  /\ loop = "dial" /\ sock = NoSocket /\ backoff = 1
  /\ task = [c \in Command |-> "none"]
  /\ link = [s \in Socket |-> "down"]
  /\ wire = {}
  /\ handler = [s \in Socket |-> "free"]
  /\ active = NoSocket
  /\ closing = {}
  /\ registered \in BOOLEAN
  /\ request = [c \in Command |-> "none"]
  /\ callback \in [Command -> Callback]
  /\ answer = [c \in Command |-> "none"]
  /\ audit = [c \in Command |-> "none"]
  /\ invalid \in SUBSET Callback
  /\ executed = [c \in Command |-> 0]
  /\ restarts = 0

-----------------------------------------------------------------------------
(* The agent's connection loop: WSClient.Start and connectAndListen.       *)

Up(s) == link[s] = "up"

\* A link that was up is now interrupted.
Interrupted(s) == [link EXCEPT ![s] = IF @ = "up" THEN "cut" ELSE @]

Dial ==
  /\ loop = "dial"
  /\ \E s \in Socket :
       /\ handler[s] = "free"
       /\ sock' = s
       /\ link' = [link EXCEPT ![s] = "up"]
       /\ handler' = [handler EXCEPT ![s] = "handshake"]
       /\ closing' = closing \ {s}
       /\ wire' = {m \in wire : m.on # s}
  /\ loop' = "handshake"
  /\ UNCHANGED <<healthy, backoff, task, active, registered, webhookVars,
                 invalid, executed, restarts>>

\* The server cannot be reached, refuses, or does not answer in time: it may
\* still accept a connection the agent has given up.
DialFails ==
  /\ \/ loop = "dial" /\ ~healthy /\ UNCHANGED link
     \/ /\ loop = "handshake"
        /\ ~healthy \/ ~Up(sock)
        /\ link' = Interrupted(sock)
  /\ loop' = "pause"
  /\ UNCHANGED <<healthy, sock, backoff, task, wire, socketVars, registered,
                 webhookVars, invalid, executed, restarts>>

DialReturns ==
  /\ loop = "handshake"
  /\ handler[sock] \in {"accepted", "replacing", "listening"}
  /\ loop' = "listen"
  /\ UNCHANGED <<healthy, sock, backoff, task, link, wire, socketVars,
                 registered, webhookVars, invalid, executed, restarts>>

\* A read or a ping failed: connectAndListen closes and returns the error,
\* whatever the reason.
Disconnected ==
  /\ loop = "listen"
  /\ ~Up(sock)
  /\ loop' = "pause"
  /\ UNCHANGED <<healthy, sock, backoff, task, link, wire, socketVars,
                 registered, webhookVars, invalid, executed, restarts>>

\* Slips of PauseEnds: the longest pause is not looked at; the loop is left
\* after an error.
PauseEndsUnbounded ==
  /\ loop = "pause"
  /\ loop' = "dial"
  /\ backoff' = 2 * backoff
  /\ UNCHANGED <<healthy, sock, task, link, wire, socketVars, registered,
                 webhookVars, invalid, executed, restarts>>

PauseNeverEnds ==
  /\ loop = "pause"
  /\ backoff' = 1
  /\ UNCHANGED <<healthy, loop, sock, task, link, wire, socketVars, registered,
                 webhookVars, invalid, executed, restarts>>

\* The pause is over; the next one is twice as long.
PauseEnds ==
  /\ loop = "pause"
  /\ loop' = "dial"
  /\ backoff' = IF 2 * backoff > MaxBackoff THEN MaxBackoff ELSE 2 * backoff
  /\ UNCHANGED <<healthy, sock, task, link, wire, socketVars, registered,
                 webhookVars, invalid, executed, restarts>>

-----------------------------------------------------------------------------
(* The agent's commands: handleCommand, one goroutine for each.            *)

\* The reader takes a command off the connection and starts its goroutine.
Receive(c) ==
  /\ loop = "listen"
  /\ Order(sock, c) \in wire
  /\ wire' = wire \ {Order(sock, c)}
  /\ task' = [task EXCEPT ![c] = "received"]
  /\ UNCHANGED <<healthy, connVars, link, socketVars, registered, webhookVars,
                 invalid, executed, restarts>>

Allowed(c) == callback[c] \notin Forbidden

\* Validate, then ExecuteRemediation: the container is acted upon, or the
\* command fails.
Execute(c) ==
  /\ task[c] = "received"
  /\ \/ /\ Allowed(c)
        /\ executed' = [executed EXCEPT ![c] = @ + 1]
        /\ task' = [task EXCEPT ![c] = "succeeded"]
     \/ /\ task' = [task EXCEPT ![c] = "failed"]
        /\ UNCHANGED executed
  /\ UNCHANGED <<healthy, connVars, link, wire, socketVars, registered,
                 webhookVars, invalid, restarts>>

\* sendAck writes to the connection of the moment, which may not be the one
\* the command came by; without one the answer is dropped.
SendAck(c) ==
  /\ task[c] \in {"succeeded", "failed"}
  /\ wire' = IF loop = "listen" /\ Up(sock)
             THEN wire \union {Ack(sock, c, task[c] = "succeeded")}
             ELSE wire
  /\ task' = [task EXCEPT ![c] = "done"]
  /\ UNCHANGED <<healthy, connVars, link, socketVars, registered, webhookVars,
                 invalid, executed, restarts>>

-----------------------------------------------------------------------------
(* The server's end of a connection: agent_websocket_endpoint and the      *)
(* ConnectionManager.                                                      *)

\* A host without a row in the database is refused, and a peer that has gone
\* cannot be accepted.
Refuse(s) ==
  /\ handler[s] = "handshake"
  /\ ~registered \/ ~Up(s)
  /\ handler' = [handler EXCEPT ![s] = "free"]
  /\ link' = [link EXCEPT ![s] = IF @ = "up" THEN "closed" ELSE @]
  /\ UNCHANGED <<healthy, connVars, task, wire, active, closing, registered,
                 webhookVars, invalid, executed, restarts>>

\* connect, up to the end of its first await.
Accept(s) ==
  /\ handler[s] = "handshake"
  /\ registered
  /\ handler' = [handler EXCEPT ![s] = "accepted"]
  /\ UNCHANGED <<healthy, connVars, task, link, wire, active, closing,
                 registered, webhookVars, invalid, executed, restarts>>

\* connect, from its first await on: with no connection to replace, or one
\* that close has been called on before (which raises and is passed over), the
\* new connection is registered at once.
Register(s) ==
  /\ handler[s] = "accepted"
  /\ active \in closing \union {NoSocket}
  /\ active' = s
  /\ handler' = [handler EXCEPT ![s] = "listening"]
  /\ UNCHANGED <<healthy, connVars, task, link, wire, closing, registered,
                 webhookVars, invalid, executed, restarts>>

\* The connection registered so far is closed first, which takes as long as
\* its peer takes to answer.
BeginReplace(s) ==
  /\ handler[s] = "accepted"
  /\ active \notin closing \union {NoSocket}
  /\ closing' = closing \union {active}
  /\ link' = [link EXCEPT ![active] = IF @ = "up" THEN "closed" ELSE @]
  /\ handler' = [handler EXCEPT ![s] = "replacing"]
  /\ UNCHANGED <<healthy, connVars, task, wire, active, registered,
                 webhookVars, invalid, executed, restarts>>

\* A slip of FinishReplace: the entry is only written when there is none.
FinishReplaceIfVacant(s) ==
  /\ handler[s] = "replacing"
  /\ active' = IF active = NoSocket THEN s ELSE active
  /\ handler' = [handler EXCEPT ![s] = "listening"]
  /\ UNCHANGED <<healthy, connVars, task, link, wire, closing, registered,
                 webhookVars, invalid, executed, restarts>>

\* The await of that close is over: whatever happened meanwhile, this
\* connection becomes the registered one.
FinishReplace(s) ==
  /\ handler[s] = "replacing"
  /\ active' = s
  /\ handler' = [handler EXCEPT ![s] = "listening"]
  /\ UNCHANGED <<healthy, connVars, task, link, wire, closing, registered,
                 webhookVars, invalid, executed, restarts>>

\* A slip of HandleMessage: the answer completes every future that waits.
HandleMessageForAll(m) ==
  /\ m.kind = "ack"
  /\ handler[m.on] = "listening"
  /\ wire' = wire \ {m}
  /\ answer' = [c \in Command |->
                  IF request[c] = "waiting" /\ answer[c] = "none"
                  THEN (IF m.ok THEN "ok" ELSE "error") ELSE answer[c]]
  /\ UNCHANGED <<healthy, connVars, task, link, socketVars, registered, request,
                 callback, audit, invalid, executed, restarts>>

\* handle_message: the future of the command named in the answer is completed,
\* if somebody still waits for it.
HandleMessage(m) ==
  /\ m.kind = "ack"
  /\ handler[m.on] = "listening"
  /\ wire' = wire \ {m}
  /\ answer' = IF request[m.cmd] = "waiting" /\ answer[m.cmd] = "none"
               THEN [answer EXCEPT ![m.cmd] = IF m.ok THEN "ok" ELSE "error"]
               ELSE answer
  /\ UNCHANGED <<healthy, connVars, task, link, socketVars, registered, request,
                 callback, audit, invalid, executed, restarts>>

\* A slip of Disconnect: the endpoint returns without unregistering.
DisconnectKeepingEntry(s) ==
  /\ handler[s] = "listening"
  /\ ~Up(s)
  /\ handler' = [handler EXCEPT ![s] = "free"]
  /\ UNCHANGED <<healthy, connVars, task, link, wire, active, closing,
                 registered, webhookVars, invalid, executed, restarts>>

\* receive_text raises: disconnect unregisters the connection if it is the
\* registered one, and the endpoint returns.
Disconnect(s) ==
  /\ handler[s] = "listening"
  /\ ~Up(s)
  /\ active' = IF active = s THEN NoSocket ELSE active
  /\ handler' = [handler EXCEPT ![s] = "free"]
  /\ UNCHANGED <<healthy, connVars, task, link, wire, closing, registered,
                 webhookVars, invalid, executed, restarts>>

-----------------------------------------------------------------------------
(* The webhook: handle_telegram_webhook and send_command.                  *)

\* Telegram delivers a press of a button, for the first time or again.
Deliver(c) ==
  /\ request[c] = "none"
  /\ request' = [request EXCEPT ![c] = "arrived"]
  /\ UNCHANGED <<healthy, connVars, task, link, wire, socketVars, registered,
                 callback, answer, audit, invalid, executed, restarts>>

\* verify_and_parse_callback refuses it; nothing is recorded.
Reject(c) ==
  /\ request[c] = "arrived"
  /\ callback[c] \in invalid
  /\ request' = [request EXCEPT ![c] = "rejected"]
  /\ UNCHANGED <<healthy, connVars, task, link, wire, socketVars, registered,
                 callback, answer, audit, invalid, executed, restarts>>

\* The verdict is recorded and the webhook answers.
Conclude(c, verdict) ==
  /\ audit' = [audit EXCEPT ![c] = verdict]
  /\ request' = [request EXCEPT ![c] = "done"]

\* No connection, an action off the whitelist, or a send that raises.
CannotSend(c) ==
  /\ request[c] = "arrived"
  /\ callback[c] \notin invalid
  /\ \/ active \in closing \union {NoSocket}
     \/ ~Allowed(c)
     \/ \E s \in Socket : active = s /\ ~Up(s)

\* The order is recorded as failed without having left.
CannotDispatch(c) ==
  /\ CannotSend(c)
  /\ Conclude(c, "failed")
  /\ UNCHANGED <<healthy, connVars, task, link, wire, socketVars, registered,
                 callback, answer, invalid, executed, restarts>>

\* send_command: a future is created and the command is sent on the connection
\* registered for the host; on a broken one it is lost.
Dispatch(c) ==
  /\ request[c] = "arrived"
  /\ callback[c] \notin invalid
  /\ active \notin closing \union {NoSocket}
  /\ Allowed(c)
  /\ wire' = IF Up(active) THEN wire \union {Order(active, c)} ELSE wire
  /\ request' = [request EXCEPT ![c] = "waiting"]
  /\ UNCHANGED <<healthy, connVars, task, link, socketVars, registered,
                 callback, answer, audit, invalid, executed, restarts>>

\* wait_for returns the answer.
Answered(c) ==
  /\ request[c] = "waiting"
  /\ answer[c] # "none"
  /\ Conclude(c, IF answer[c] = "ok" THEN "success" ELSE "failed")
  /\ UNCHANGED <<healthy, connVars, task, link, wire, socketVars, registered,
                 callback, answer, invalid, executed, restarts>>

\* Slips of TimesOut: the webhook returns without a row; a call is only given up
\* when the host has no connection left.
TimesOutUnrecorded(c) ==
  /\ request[c] = "waiting"
  /\ request' = [request EXCEPT ![c] = "done"]
  /\ UNCHANGED <<healthy, connVars, task, link, wire, socketVars, registered,
                 callback, answer, audit, invalid, executed, restarts>>

TimesOutDisconnected(c) ==
  /\ request[c] = "waiting"
  /\ active = NoSocket
  /\ Conclude(c, "failed")
  /\ UNCHANGED <<healthy, connVars, task, link, wire, socketVars, registered,
                 callback, answer, invalid, executed, restarts>>

\* wait_for gives up after ten seconds, perhaps just before the answer.
TimesOut(c) ==
  /\ request[c] = "waiting"
  /\ Conclude(c, "failed")
  /\ UNCHANGED <<healthy, connVars, task, link, wire, socketVars, registered,
                 callback, answer, invalid, executed, restarts>>

\* The row cannot be committed: the webhook fails and nothing is recorded.
AuditFails(c) ==
  /\ request[c] = "waiting" \/ CannotSend(c)
  /\ ~healthy
  /\ request' = [request EXCEPT ![c] = "lost"]
  /\ UNCHANGED <<healthy, connVars, task, link, wire, socketVars, registered,
                 callback, answer, audit, invalid, executed, restarts>>

-----------------------------------------------------------------------------
(* The environment.                                                        *)

HealthChanges ==
  /\ healthy' = ~healthy
  /\ UNCHANGED <<connVars, task, link, wire, socketVars, registered,
                 webhookVars, invalid, executed, restarts>>

\* A connection breaks without either end being told.
Cut(s) ==
  /\ ~healthy
  /\ Up(s)
  /\ link' = Interrupted(s)
  /\ UNCHANGED <<healthy, connVars, task, wire, socketVars, registered,
                 webhookVars, invalid, executed, restarts>>

\* Telemetry ingestion creates the row of the host.
HostAppears ==
  /\ ~registered
  /\ registered' = TRUE
  /\ UNCHANGED <<healthy, connVars, task, link, wire, socketVars, webhookVars,
                 invalid, executed, restarts>>

\* Sixty seconds after the alert its button is no longer accepted.
Expire(b) ==
  /\ b \notin invalid
  /\ invalid' = invalid \union {b}
  /\ UNCHANGED <<healthy, connVars, task, link, wire, socketVars, registered,
                 webhookVars, executed, restarts>>

\* The agent process restarts: its goroutines are gone.
AgentRestarts ==
  /\ restarts < MaxRestarts
  /\ restarts' = restarts + 1
  /\ loop' = "dial"
  /\ backoff' = 1
  /\ task' = [c \in Command |-> IF task[c] = "none" THEN "none" ELSE "done"]
  /\ link' = IF sock = NoSocket THEN link ELSE Interrupted(sock)
  /\ UNCHANGED <<healthy, sock, wire, socketVars, registered, webhookVars,
                 invalid, executed>>

\* The server process restarts: connections, futures and webhook calls under
\* way are gone; the database stays.
ServerRestarts ==
  /\ restarts < MaxRestarts
  /\ restarts' = restarts + 1
  /\ handler' = [s \in Socket |-> "free"]
  /\ active' = NoSocket
  /\ closing' = {}
  /\ link' = [s \in Socket |-> IF Up(s) THEN "cut" ELSE link[s]]
  /\ wire' = {m \in wire : m.kind = "command"}
  /\ request' = [c \in Command |-> IF request[c] \in {"arrived", "waiting"}
                                   THEN "lost" ELSE request[c]]
  /\ answer' = [c \in Command |-> "none"]
  /\ UNCHANGED <<healthy, connVars, task, registered, callback, audit, invalid,
                 executed>>

AgentLoop == Dial \/ DialFails \/ DialReturns \/ Disconnected \/ PauseEnds

AgentTask(c) == Receive(c) \/ Execute(c) \/ SendAck(c)

SocketStep(s) ==
  \/ Refuse(s) \/ Accept(s)
  \/ Register(s) \/ BeginReplace(s) \/ FinishReplace(s)
  \/ Disconnect(s)

WebhookStep(c) ==
  Reject(c) \/ CannotDispatch(c) \/ Dispatch(c) \/ Answered(c) \/ TimesOut(c)

Next ==
  \/ AgentLoop
  \/ \E c \in Command : AgentTask(c)
  \/ \E s \in Socket : SocketStep(s)
  \/ \E m \in wire : HandleMessage(m)
  \/ \E c \in Command : Deliver(c) \/ WebhookStep(c) \/ AuditFails(c)
  \/ HealthChanges
  \/ \E s \in Socket : Cut(s)
  \/ HostAppears
  \/ \E b \in Callback : Expire(b)
  \/ AgentRestarts
  \/ ServerRestarts

Spec == Init /\ [][Next]_vars

\* The agent's loop and the server's event loop keep running: every coroutine
\* that can go on does, and every timer fires.  Nothing is said of the network.
FairSpec ==
  /\ Spec
  /\ WF_vars(AgentLoop)
  /\ \A s \in Socket : WF_vars(SocketStep(s))
  /\ \A c \in Command : WF_vars(WebhookStep(c))

-----------------------------------------------------------------------------
(* Properties.                                                             *)

TypeOK ==
  /\ healthy \in BOOLEAN /\ registered \in BOOLEAN
  /\ loop \in {"dial", "handshake", "listen", "pause"}
  /\ sock \in Socket \union {NoSocket}
  /\ loop \in {"handshake", "listen"} => sock \in Socket
  /\ backoff \in 1 .. MaxBackoff
  /\ task \in [Command -> {"none", "received", "succeeded", "failed", "done"}]
  /\ link \in [Socket -> {"down", "up", "cut", "closed"}]
  /\ wire \subseteq Message
  /\ handler \in [Socket -> {"free", "handshake", "accepted", "replacing",
                             "listening"}]
  /\ active \in Socket \union {NoSocket}
  /\ closing \subseteq Socket
  /\ request \in [Command -> {"none", "arrived", "waiting", "done", "rejected",
                              "lost"}]
  /\ callback \in [Command -> Callback]
  /\ answer \in [Command -> {"none", "ok", "error"}]
  /\ audit \in [Command -> {"none", "success", "failed"}]
  /\ invalid \subseteq Callback
  /\ executed \in [Command -> Nat]
  /\ restarts \in Nat

\* What the channel promises of each command: carried out at most once although
\* connections are replaced and answers come late, one verdict, and "success"
\* only for a command that was itself carried out (connection_manager.py
\* send_command and handle_message, ws_client.go handleCommand).
Promise == INSTANCE RemediationPromise WITH verdict <- audit

ImplementsPromise == Promise!Spec

\* A command the agent carried out is recorded with a verdict unless its webhook
\* call is still waiting or was cut short: no way out of send_command, timeout
\* and broken connection included, skips the audit log (telegram_webhook.py).
ExecutedIsRecorded ==
  \A c \in Command :
    executed[c] > 0 => request[c] \in {"waiting", "lost"} \/ audit[c] # "none"

\* The connection registered for the host is one whose endpoint is running:
\* the end of an endpoint always unregisters its own connection, whichever
\* connections were registered and replaced meanwhile (connection_manager.py).
RegisteredIsServed == active # NoSocket => handler[active] = "listening"

\* A connection the server has called close on stays registered only while the
\* endpoint that closed it is about to register its own: orders are not refused
\* for a closed connection for ever (connection_manager.py connect).
ClosedIsBeingReplaced ==
  active \in closing => \E s \in Socket : handler[s] = "replacing"

\* Every webhook call comes to an end, whether the agent answers, disappears or
\* reconnects meanwhile: no caller waits for ever (send_command's timeout).
EveryCallEnds ==
  \A c \in Command :
    request[c] = "arrived" ~> request[c] \in {"done", "rejected", "lost"}

\* Once the network works for good and the host is known, the agent has a
\* connection for good, whatever was half open or being replaced at that moment
\* (ws_client.go Start).
Reconnects ==
  <>[](healthy /\ registered) => <>[](loop = "listen" /\ Up(sock))

-----------------------------------------------------------------------------
(* What the documents say and the code does not do.                        *)

\* openspec reverse-websocket-control: the server keeps the connection of the
\* agent and has the host registered as active.  No other endpoint is on its
\* way, the agent and the server both use the connection.
LiveConnectionRegistered ==
  /\ loop = "listen" /\ Up(sock)
  /\ \A s \in Socket : handler[s] = IF s = sock THEN "listening" ELSE "free"
  => active = sock
=============================================================================
