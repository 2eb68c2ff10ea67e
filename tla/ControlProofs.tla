--------------------------- MODULE ControlProofs ---------------------------
(***************************************************************************)
(* Proofs about ControlChannel, for any number of connections, webhook     *)
(* calls, buttons and restarts.                                            *)
(***************************************************************************)
EXTENDS ControlChannel, TLAPS

\* A command is in one place only: on the wire before the agent has it, and
\* never again after; nothing of it exists before its webhook call sent it.
OncePlaced ==
  /\ \A m \in wire : m.kind = "command" =>
       /\ task[m.cmd] = "none"
       /\ request[m.cmd] \in {"waiting", "done", "lost"}
  /\ \A m, n \in wire :
       m.kind = "command" /\ n.kind = "command" /\ m.cmd = n.cmd => m = n
  /\ \A c \in Command :
       /\ task[c] # "none" => request[c] \in {"waiting", "done", "lost"}
       /\ \/ executed[c] = 0
          \/ executed[c] = 1 /\ task[c] \in {"succeeded", "done"}

\* Good news of a command, at any stage of its way back, is true.
Truthful ==
  /\ \A m \in wire : m.kind = "ack" /\ m.ok => executed[m.cmd] = 1
  /\ \A c \in Command :
       /\ task[c] = "succeeded" => executed[c] = 1
       /\ answer[c] = "ok" => executed[c] = 1
       /\ audit[c] = "success" => executed[c] = 1

\* A call has a verdict exactly when it is done.
Concluded == \A c \in Command : request[c] = "done" <=> audit[c] # "none"

\* A connection the server has called close on was registered before, so its
\* endpoint listens or has returned.
ClosingWasRegistered ==
  \A s \in closing : handler[s] \in {"listening", "free"}

\* The inductive invariant: the halves about commands and about connections
\* are independent of each other.
CommandInv == OncePlaced /\ Truthful /\ Concluded
SocketInv == RegisteredIsServed /\ ClosedIsBeingReplaced /\ ClosingWasRegistered
IInv == TypeOK /\ CommandInv /\ SocketInv

LEMMA InitInvariant == Init => IInv
  <1> SUFFICES ASSUME Init PROVE IInv
    OBVIOUS
  <1>1. TypeOK
    BY BackoffAssumption DEF Init, TypeOK
  <1>2. CommandInv
    <2>1. OncePlaced
      <3>1. wire = {}
        BY DEF Init
      <3>2. \A c \in Command : task[c] = "none" /\ executed[c] = 0
        BY DEF Init
      <3>3. QED
        BY <3>1, <3>2 DEF OncePlaced
    <2>2. Truthful
      BY DEF Init, Truthful
    <2>3. Concluded
      BY DEF Init, Concluded
    <2>4. QED
      BY <2>1, <2>2, <2>3 DEF CommandInv
  <1>3. SocketInv
    BY DEF Init, SocketInv, RegisteredIsServed, ClosedIsBeingReplaced,
       ClosingWasRegistered
  <1>4. QED
    BY <1>1, <1>2, <1>3 DEF IInv

-----------------------------------------------------------------------------
(* Types.                                                                  *)

LEMMA MessagesAreTyped ==
  ASSUME NEW s \in Socket, NEW c \in Command, NEW ok \in BOOLEAN
  PROVE  /\ Order(s, c) \in Message /\ Ack(s, c, ok) \in Message
         /\ Order(s, c).kind = "command" /\ Order(s, c).cmd = c
         /\ Order(s, c).on = s
         /\ Ack(s, c, ok).kind = "ack" /\ Ack(s, c, ok).cmd = c
         /\ Ack(s, c, ok).ok = ok
  BY DEF Message, Order, Ack

LEMMA MessageFields ==
  ASSUME NEW m \in Message
  PROVE  /\ m.kind \in {"command", "ack"} /\ m.cmd \in Command /\ m.on \in Socket
         /\ m.kind = "ack" => m.ok \in BOOLEAN
         /\ m.kind = "command" => m = Order(m.on, m.cmd)
  BY DEF Message, Order

LEMMA TypesKept == TypeOK /\ [Next]_vars => TypeOK'
  <1> SUFFICES ASSUME TypeOK, [Next]_vars PROVE TypeOK'
    OBVIOUS
  <1> USE DEF TypeOK, connVars, socketVars, webhookVars
  <1>1. CASE Dial
    BY <1>1 DEF Dial
  <1>2. CASE DialFails \/ DialReturns \/ Disconnected
    BY <1>2 DEF DialFails, DialReturns, Disconnected, Interrupted
  <1>3. CASE PauseEnds
    <2>1. (IF 2 * backoff > MaxBackoff THEN MaxBackoff ELSE 2 * backoff)
            \in 1 .. MaxBackoff
      BY BackoffAssumption
    <2>2. backoff' \in 1 .. MaxBackoff
      BY <2>1, <1>3 DEF PauseEnds
    <2>3. QED
      BY <2>2, <1>3 DEF PauseEnds
  <1>4. ASSUME NEW c \in Command, AgentTask(c) PROVE TypeOK'
    <2>1. CASE Receive(c)
      BY <2>1 DEF Receive
    <2>2. CASE Execute(c)
      BY <2>2 DEF Execute
    <2>3. CASE SendAck(c)
      <3>1. loop = "listen" => Ack(sock, c, task[c] = "succeeded") \in Message
        BY MessagesAreTyped
      <3>2. QED
        BY <2>3, <3>1 DEF SendAck
    <2>4. QED
      BY <1>4, <2>1, <2>2, <2>3 DEF AgentTask
  <1>5. ASSUME NEW s \in Socket, SocketStep(s) PROVE TypeOK'
    BY <1>5 DEF SocketStep, Refuse, Accept, Register, BeginReplace,
       FinishReplace, Disconnect
  <1>6. ASSUME NEW m \in wire, HandleMessage(m) PROVE TypeOK'
    BY <1>6 DEF HandleMessage
  <1>7. ASSUME NEW c \in Command, Deliver(c) \/ WebhookStep(c) \/ AuditFails(c)
        PROVE  TypeOK'
    <2>1. CASE Dispatch(c)
      <3>1. active \in Socket => Order(active, c) \in Message
        BY MessagesAreTyped
      <3>2. QED
        BY <2>1, <3>1 DEF Dispatch
    <2>2. CASE Deliver(c) \/ Reject(c) \/ AuditFails(c)
      BY <2>2 DEF Deliver, Reject, AuditFails, CannotSend
    <2>3. CASE CannotDispatch(c) \/ Answered(c) \/ TimesOut(c)
      BY <2>3 DEF CannotDispatch, CannotSend, Answered, TimesOut, Conclude
    <2>4. QED
      BY <1>7, <2>1, <2>2, <2>3 DEF WebhookStep
  <1>8. CASE HealthChanges \/ HostAppears
    BY <1>8 DEF HealthChanges, HostAppears
  <1>9. ASSUME NEW s \in Socket, Cut(s) PROVE TypeOK'
    BY <1>9 DEF Cut, Interrupted
  <1>10. ASSUME NEW b \in Callback, Expire(b) PROVE TypeOK'
    BY <1>10 DEF Expire
  <1>11. CASE AgentRestarts
    BY <1>11, BackoffAssumption DEF AgentRestarts, Interrupted
  <1>12. CASE ServerRestarts
    BY <1>12 DEF ServerRestarts
  <1>13. CASE UNCHANGED vars
    BY <1>13 DEF vars
  <1>14. QED
    BY <1>1, <1>2, <1>3, <1>4, <1>5, <1>6, <1>7, <1>8, <1>9, <1>10, <1>11,
       <1>12, <1>13 DEF Next, AgentLoop
-----------------------------------------------------------------------------
(* What is known of commands.                                              *)

\* Steps of connections only ever take messages away.
LEMMA ConnectionsKeepCommands ==
  ASSUME TypeOK, CommandInv, wire' \subseteq wire,
         UNCHANGED <<task, webhookVars, executed>>
  PROVE  CommandInv'
  <1>1. OncePlaced'
    BY DEF CommandInv, OncePlaced, webhookVars
  <1>2. Truthful'
    BY DEF CommandInv, Truthful, webhookVars
  <1>3. Concluded'
    BY DEF CommandInv, Concluded, webhookVars
  <1>4. QED
    BY <1>1, <1>2, <1>3 DEF CommandInv

LEMMA ReceiveKeeps ==
  ASSUME TypeOK, CommandInv, NEW c \in Command, Receive(c)
  PROVE  CommandInv'
  <1> DEFINE m == Order(sock, c)
  <1>1. /\ m \in wire /\ m.kind = "command" /\ m.cmd = c
        /\ wire' = wire \ {m}
    BY MessagesAreTyped DEF Receive, TypeOK, Order
  <1> HIDE DEF m
  <1>2. /\ task' = [task EXCEPT ![c] = "received"]
        /\ UNCHANGED <<request, answer, audit, executed>>
        /\ task \in [Command -> {"none", "received", "succeeded", "failed", "done"}]
    BY DEF Receive, webhookVars, TypeOK
  <1>3. /\ task[c] = "none" /\ request[c] \in {"waiting", "done", "lost"}
        /\ executed[c] = 0
        /\ \A n \in wire' : n.kind = "command" => n.cmd # c
    BY <1>1 DEF CommandInv, OncePlaced
  <1>4. OncePlaced'
    <2>1. \A n \in wire' : n.kind = "command" =>
            task'[n.cmd] = "none" /\ request[n.cmd] \in {"waiting", "done", "lost"}
      <3> SUFFICES ASSUME NEW n \in wire', n.kind = "command"
                   PROVE  /\ task'[n.cmd] = "none"
                          /\ request[n.cmd] \in {"waiting", "done", "lost"}
        OBVIOUS
      <3>1. n \in wire /\ n.cmd # c /\ n.cmd \in Command
        BY <1>1, <1>3, MessageFields DEF TypeOK
      <3>2. task[n.cmd] = "none" /\ request[n.cmd] \in {"waiting", "done", "lost"}
        BY <3>1 DEF CommandInv, OncePlaced
      <3>3. QED
        BY <3>1, <3>2, <1>2
    <2>2. \A k, n \in wire' :
            k.kind = "command" /\ n.kind = "command" /\ k.cmd = n.cmd => k = n
      BY <1>1 DEF CommandInv, OncePlaced
    <2>3. ASSUME NEW d \in Command
          PROVE  /\ task'[d] # "none" => request[d] \in {"waiting", "done", "lost"}
                 /\ \/ executed[d] = 0
                    \/ executed[d] = 1 /\ task'[d] \in {"succeeded", "done"}
      <3>1. CASE d = c
        BY <3>1, <1>3
      <3>2. CASE d # c
        BY <3>2, <1>2 DEF CommandInv, OncePlaced
      <3>3. QED
        BY <3>1, <3>2
    <2>4. QED
      BY <2>1, <2>2, <2>3, <1>2 DEF OncePlaced
  <1>5. Truthful'
    <2>1. \A d \in Command : task'[d] = "succeeded" => executed[d] = 1
      BY <1>2 DEF CommandInv, Truthful
    <2>2. QED
      BY <2>1, <1>1, <1>2 DEF CommandInv, Truthful
  <1>6. Concluded'
    BY <1>2 DEF CommandInv, Concluded
  <1>7. QED
    BY <1>4, <1>5, <1>6 DEF CommandInv

LEMMA ExecuteKeeps ==
  ASSUME TypeOK, CommandInv, NEW c \in Command, Execute(c)
  PROVE  CommandInv'
  <1>1. /\ task[c] = "received"
        /\ wire' = wire
        /\ UNCHANGED <<request, answer, audit>>
        /\ task \in [Command -> {"none", "received", "succeeded", "failed", "done"}]
        /\ executed \in [Command -> Nat]
    BY DEF Execute, webhookVars, TypeOK
  <1>2. executed[c] = 0 /\ request[c] \in {"waiting", "done", "lost"}
        /\ \A m \in wire : m.kind = "command" => m.cmd # c
    BY <1>1 DEF CommandInv, OncePlaced
  <1>3. /\ \A d \in Command \ {c} : task'[d] = task[d] /\ executed'[d] = executed[d]
        /\ \/ task'[c] = "succeeded" /\ executed'[c] = 1
           \/ task'[c] = "failed" /\ executed'[c] = 0
    BY <1>1, <1>2 DEF Execute
  <1>4. OncePlaced'
    <2>1. \A m \in wire : m.kind = "command" =>
            task'[m.cmd] = "none" /\ request[m.cmd] \in {"waiting", "done", "lost"}
      <3> SUFFICES ASSUME NEW m \in wire, m.kind = "command"
                   PROVE  /\ task'[m.cmd] = "none"
                          /\ request[m.cmd] \in {"waiting", "done", "lost"}
        OBVIOUS
      <3>1. m.cmd \in Command \ {c}
        BY <1>2, MessageFields DEF TypeOK
      <3>2. QED
        BY <3>1, <1>3 DEF CommandInv, OncePlaced
    <2>2. \A d \in Command :
            /\ task'[d] # "none" => request[d] \in {"waiting", "done", "lost"}
            /\ \/ executed'[d] = 0
               \/ executed'[d] = 1 /\ task'[d] \in {"succeeded", "done"}
      BY <1>2, <1>3 DEF CommandInv, OncePlaced
    <2>3. QED
      BY <2>1, <2>2, <1>1 DEF CommandInv, OncePlaced
  <1>5. Truthful'
    <2>1. \A d \in Command : executed[d] = 1 => executed'[d] = 1
      BY <1>2, <1>3
    <2>2. \A m \in wire : m.kind = "ack" /\ m.ok => executed'[m.cmd] = 1
      <3> SUFFICES ASSUME NEW m \in wire, m.kind = "ack", m.ok
                   PROVE  executed'[m.cmd] = 1
        OBVIOUS
      <3>1. m.cmd \in Command /\ executed[m.cmd] = 1
        BY MessageFields DEF TypeOK, CommandInv, Truthful
      <3>2. QED
        BY <3>1, <2>1
    <2>3. \A d \in Command : task'[d] = "succeeded" => executed'[d] = 1
      BY <1>2, <1>3 DEF CommandInv, Truthful
    <2>4. QED
      BY <2>1, <2>2, <2>3, <1>1 DEF CommandInv, Truthful
  <1>6. Concluded'
    BY <1>1 DEF CommandInv, Concluded
  <1>7. QED
    BY <1>4, <1>5, <1>6 DEF CommandInv

LEMMA SendAckKeeps ==
  ASSUME TypeOK, CommandInv, NEW c \in Command, SendAck(c)
  PROVE  CommandInv'
  <1>1. /\ task[c] \in {"succeeded", "failed"}
        /\ task' = [task EXCEPT ![c] = "done"]
        /\ UNCHANGED <<request, answer, audit, executed>>
        /\ task \in [Command -> {"none", "received", "succeeded", "failed", "done"}]
    BY DEF SendAck, webhookVars, TypeOK
  <1>2. /\ task'[c] = "done"
        /\ \A d \in Command \ {c} : task'[d] = task[d]
    BY <1>1
  <1>3. ASSUME NEW m \in wire'
        PROVE  \/ m \in wire
               \/ m.kind = "ack" /\ m.cmd = c /\ (m.ok => executed[c] = 1)
    <2>1. CASE m \in wire
      BY <2>1
    <2>2. CASE loop = "listen" /\ m = Ack(sock, c, task[c] = "succeeded")
      <3>1. m.kind = "ack" /\ m.cmd = c /\ m.ok = (task[c] = "succeeded")
        BY <2>2 DEF Ack
      <3>2. QED
        BY <3>1 DEF CommandInv, Truthful
    <2>3. QED
      BY <2>1, <2>2 DEF SendAck
  <1>4. OncePlaced'
    <2>1. ASSUME NEW m \in wire', m.kind = "command"
          PROVE  /\ m \in wire /\ task'[m.cmd] = "none"
                 /\ request[m.cmd] \in {"waiting", "done", "lost"}
      <3>1. m \in wire
        BY <1>3, <2>1
      <3>2. m.cmd \in Command /\ task[m.cmd] = "none" /\ m.cmd # c
        BY <1>1, <2>1, <3>1, MessageFields DEF TypeOK, CommandInv, OncePlaced
      <3>3. QED
        BY <1>2, <2>1, <3>1, <3>2 DEF CommandInv, OncePlaced
    <2>2. \A m, n \in wire' :
            m.kind = "command" /\ n.kind = "command" /\ m.cmd = n.cmd => m = n
      BY <2>1 DEF CommandInv, OncePlaced
    <2>3. \A d \in Command :
            /\ task'[d] # "none" => request[d] \in {"waiting", "done", "lost"}
            /\ \/ executed[d] = 0
               \/ executed[d] = 1 /\ task'[d] \in {"succeeded", "done"}
      BY <1>1, <1>2 DEF CommandInv, OncePlaced
    <2>4. QED
      BY <1>1, <2>1, <2>2, <2>3 DEF OncePlaced
  <1>5. Truthful'
    BY <1>1, <1>2, <1>3 DEF CommandInv, Truthful
  <1>6. Concluded'
    BY <1>1 DEF CommandInv, Concluded
  <1>7. QED
    BY <1>4, <1>5, <1>6 DEF CommandInv

LEMMA HandleMessageKeeps ==
  ASSUME TypeOK, CommandInv, NEW m \in wire, HandleMessage(m)
  PROVE  CommandInv'
  <1>1. /\ m.kind = "ack" /\ wire' = wire \ {m}
        /\ UNCHANGED <<task, request, audit, executed>>
    BY DEF HandleMessage
  <1>2. m.cmd \in Command /\ m.ok \in BOOLEAN /\ (m.ok => executed[m.cmd] = 1)
    BY <1>1, MessageFields DEF TypeOK, CommandInv, Truthful
  <1>3. \A d \in Command : answer'[d] = "ok" => executed[d] = 1
    <2> SUFFICES ASSUME NEW d \in Command, answer'[d] = "ok"
                 PROVE  executed[d] = 1
      OBVIOUS
    <2>1. answer[d] = "ok" => executed[d] = 1
      BY DEF CommandInv, Truthful
    <2>2. answer \in [Command -> {"none", "ok", "error"}]
      BY DEF TypeOK
    <2>3. CASE answer' = answer
      BY <2>1, <2>3
    <2>4. CASE answer' = [answer EXCEPT ![m.cmd] = IF m.ok THEN "ok" ELSE "error"]
      <3>1. CASE d = m.cmd
        <4>1. answer'[d] = IF m.ok THEN "ok" ELSE "error"
          BY <2>2, <2>4, <3>1
        <4>2. m.ok
          BY <4>1
        <4>3. QED
          BY <4>2, <3>1, <1>2
      <3>2. CASE d # m.cmd
        BY <2>1, <2>2, <2>4, <3>2
      <3>3. QED
        BY <3>1, <3>2
    <2>5. QED
      BY <2>3, <2>4 DEF HandleMessage
  <1>4. OncePlaced'
    BY <1>1 DEF CommandInv, OncePlaced
  <1>5. Truthful'
    BY <1>1, <1>3 DEF CommandInv, Truthful
  <1>6. Concluded'
    BY <1>1 DEF CommandInv, Concluded
  <1>7. QED
    BY <1>4, <1>5, <1>6 DEF CommandInv

\* A step of one webhook call that sends nothing: the call moves on, and a
\* verdict is given exactly when it becomes done.
LEMMA CallKeeps ==
  ASSUME TypeOK, CommandInv, NEW c \in Command,
         UNCHANGED <<task, wire, answer, executed>>,
         NEW next, request' = [request EXCEPT ![c] = next],
         NEW verdict, audit' = [audit EXCEPT ![c] = verdict],
         request[c] \in {"waiting", "done", "lost"}
            => next \in {"waiting", "done", "lost"},
         next = "done" <=> verdict # "none",
         verdict = "success" => executed[c] = 1
  PROVE  CommandInv'
  <1>1. /\ \A d \in Command \ {c} : request'[d] = request[d] /\ audit'[d] = audit[d]
        /\ request'[c] = next /\ audit'[c] = verdict
    BY DEF TypeOK
  <1>2. \A d \in Command : request[d] \in {"waiting", "done", "lost"}
                             => request'[d] \in {"waiting", "done", "lost"}
    BY <1>1
  <1>3. OncePlaced'
    <2>1. \A m \in wire : m.kind = "command" =>
            request'[m.cmd] \in {"waiting", "done", "lost"}
      <3> SUFFICES ASSUME NEW m \in wire, m.kind = "command"
                   PROVE  request'[m.cmd] \in {"waiting", "done", "lost"}
        OBVIOUS
      <3>1. m.cmd \in Command
        BY MessageFields DEF TypeOK
      <3>2. QED
        BY <3>1, <1>2 DEF CommandInv, OncePlaced
    <2>2. QED
      BY <2>1, <1>2 DEF CommandInv, OncePlaced
  <1>4. Truthful'
    <2>1. \A d \in Command : audit'[d] = "success" => executed[d] = 1
      BY <1>1 DEF CommandInv, Truthful
    <2>2. QED
      BY <2>1 DEF CommandInv, Truthful
  <1>5. Concluded'
    <2>1. \A d \in Command : request'[d] = "done" <=> audit'[d] # "none"
      BY <1>1 DEF CommandInv, Concluded
    <2>2. QED
      BY <2>1 DEF Concluded
  <1>6. QED
    BY <1>3, <1>4, <1>5 DEF CommandInv

LEMMA DispatchKeeps ==
  ASSUME TypeOK, CommandInv, NEW c \in Command, Dispatch(c)
  PROVE  CommandInv'
  <1>1. /\ request[c] = "arrived"
        /\ request' = [request EXCEPT ![c] = "waiting"]
        /\ UNCHANGED <<task, answer, audit, executed>>
        /\ request \in [Command -> {"none", "arrived", "waiting", "done",
                                    "rejected", "lost"}]
        /\ audit[c] = "none"
    BY DEF Dispatch, TypeOK, CommandInv, Concluded
  <1>2. /\ request'[c] = "waiting"
        /\ \A d \in Command \ {c} : request'[d] = request[d]
    BY <1>1
  <1>3. /\ task[c] = "none"
        /\ \A m \in wire : m.kind = "command" => m.cmd # c
    BY <1>1 DEF CommandInv, OncePlaced
  <1>4. ASSUME NEW m \in wire'
        PROVE  m \in wire \/ m = Order(active, c)
    BY DEF Dispatch
  <1>5. Order(active, c).kind = "command" /\ Order(active, c).cmd = c
    BY DEF Order
  <1>6. OncePlaced'
    <2>1. ASSUME NEW m \in wire', m.kind = "command"
          PROVE  /\ task[m.cmd] = "none"
                 /\ request'[m.cmd] \in {"waiting", "done", "lost"}
      <3>1. CASE m \in wire
        <4>1. m.cmd \in Command \ {c}
          BY <2>1, <3>1, <1>3, MessageFields DEF TypeOK
        <4>2. QED
          BY <2>1, <3>1, <4>1, <1>2 DEF CommandInv, OncePlaced
      <3>2. CASE m = Order(active, c)
        BY <3>2, <1>2, <1>3, <1>5
      <3>3. QED
        BY <1>4, <3>1, <3>2
    <2>2. ASSUME NEW m \in wire', NEW n \in wire', m.kind = "command",
                 n.kind = "command", m.cmd = n.cmd
          PROVE  m = n
      <3>1. CASE m \in wire /\ n \in wire
        BY <2>2, <3>1 DEF CommandInv, OncePlaced
      <3>2. CASE ~(m \in wire /\ n \in wire)
        BY <2>2, <3>2, <1>3, <1>4, <1>5
      <3>3. QED
        BY <3>1, <3>2
    <2>3. \A d \in Command :
            /\ task[d] # "none" => request'[d] \in {"waiting", "done", "lost"}
            /\ \/ executed[d] = 0
               \/ executed[d] = 1 /\ task[d] \in {"succeeded", "done"}
      BY <1>2 DEF CommandInv, OncePlaced
    <2>4. QED
      BY <1>1, <2>1, <2>2, <2>3 DEF OncePlaced
  <1>7. Truthful'
    <2>1. \A m \in wire' : m.kind = "ack" /\ m.ok => executed[m.cmd] = 1
      BY <1>4, <1>5 DEF CommandInv, Truthful
    <2>2. QED
      BY <1>1, <2>1 DEF CommandInv, Truthful
  <1>8. Concluded'
    <2>1. \A d \in Command : request'[d] = "done" <=> audit[d] # "none"
      BY <1>1, <1>2 DEF CommandInv, Concluded
    <2>2. QED
      BY <1>1, <2>1 DEF Concluded
  <1>9. QED
    BY <1>6, <1>7, <1>8 DEF CommandInv

LEMMA WebhookKeeps ==
  ASSUME TypeOK, CommandInv, NEW c \in Command,
         Deliver(c) \/ WebhookStep(c) \/ AuditFails(c)
  PROVE  CommandInv'
  <1>1. audit = [audit EXCEPT ![c] = audit[c]]
    BY DEF TypeOK
  <1>2. request[c] \in {"none", "arrived", "waiting"} => audit[c] = "none"
    BY DEF CommandInv, Concluded
  <1>3. CASE Deliver(c)
    <2>1. /\ request' = [request EXCEPT ![c] = "arrived"]
          /\ audit' = [audit EXCEPT ![c] = "none"]
          /\ UNCHANGED <<task, wire, answer, executed>> /\ request[c] = "none"
      BY <1>1, <1>2, <1>3 DEF Deliver
    <2>2. /\ request[c] \in {"waiting", "done", "lost"}
               => "arrived" \in {"waiting", "done", "lost"}
          /\ "arrived" = "done" <=> "none" # "none"
          /\ "none" = "success" => executed[c] = 1
      BY <2>1
    <2>3. QED
      BY <2>1, <2>2, CallKeeps
  <1>4. CASE Reject(c)
    <2>1. /\ request' = [request EXCEPT ![c] = "rejected"]
          /\ audit' = [audit EXCEPT ![c] = "none"]
          /\ UNCHANGED <<task, wire, answer, executed>> /\ request[c] = "arrived"
      BY <1>1, <1>2, <1>4 DEF Reject
    <2>2. /\ request[c] \in {"waiting", "done", "lost"}
               => "rejected" \in {"waiting", "done", "lost"}
          /\ "rejected" = "done" <=> "none" # "none"
          /\ "none" = "success" => executed[c] = 1
      BY <2>1
    <2>3. QED
      BY <2>1, <2>2, CallKeeps
  <1>5. CASE CannotDispatch(c) \/ TimesOut(c)
    <2>1. /\ request' = [request EXCEPT ![c] = "done"]
          /\ audit' = [audit EXCEPT ![c] = "failed"]
          /\ UNCHANGED <<task, wire, answer, executed>>
      BY <1>5 DEF CannotDispatch, CannotSend, TimesOut, Conclude
    <2>2. QED
      BY <2>1, CallKeeps
  <1>6. CASE Answered(c)
    <2> DEFINE verdict == IF answer[c] = "ok" THEN "success" ELSE "failed"
    <2>1. /\ request' = [request EXCEPT ![c] = "done"]
          /\ audit' = [audit EXCEPT ![c] = verdict]
          /\ UNCHANGED <<task, wire, answer, executed>>
      BY <1>6 DEF Answered, Conclude
    <2>2. verdict # "none" /\ (verdict = "success" => executed[c] = 1)
      BY DEF CommandInv, Truthful
    <2> HIDE DEF verdict
    <2>3. QED
      BY <2>1, <2>2, CallKeeps
  <1>7. CASE AuditFails(c)
    <2> DEFINE next == "lost"
    <2>1. /\ request' = [request EXCEPT ![c] = next]
          /\ audit' = [audit EXCEPT ![c] = "none"]
          /\ UNCHANGED <<task, wire, answer, executed>>
      BY <1>1, <1>2, <1>7 DEF AuditFails, CannotSend
    <2>2. next \in {"waiting", "done", "lost"} /\ next # "done"
      OBVIOUS
    <2> HIDE DEF next
    <2>3. QED
      BY <2>1, <2>2, CallKeeps
  <1>8. QED
    BY <1>3, <1>4, <1>5, <1>6, <1>7, DispatchKeeps DEF WebhookStep

LEMMA AgentRestartsKeeps ==
  ASSUME TypeOK, CommandInv, AgentRestarts
  PROVE  CommandInv'
  <1>1. /\ UNCHANGED <<wire, request, answer, audit, executed>>
        /\ \A c \in Command : task'[c] = IF task[c] = "none" THEN "none" ELSE "done"
    BY DEF AgentRestarts, webhookVars
  <1>2. OncePlaced'
    <2>1. \A m \in wire : m.kind = "command" => task'[m.cmd] = "none"
      <3> SUFFICES ASSUME NEW m \in wire, m.kind = "command"
                   PROVE  task'[m.cmd] = "none"
        OBVIOUS
      <3>1. m.cmd \in Command /\ task[m.cmd] = "none"
        BY MessageFields DEF TypeOK, CommandInv, OncePlaced
      <3>2. QED
        BY <3>1, <1>1
    <2>2. \A c \in Command :
            /\ task'[c] # "none" => request[c] \in {"waiting", "done", "lost"}
            /\ \/ executed[c] = 0
               \/ executed[c] = 1 /\ task'[c] \in {"succeeded", "done"}
      BY <1>1 DEF CommandInv, OncePlaced
    <2>3. QED
      BY <1>1, <2>1, <2>2 DEF CommandInv, OncePlaced
  <1>3. Truthful' /\ Concluded'
    <2>1. \A c \in Command : task'[c] # "succeeded"
      BY <1>1
    <2>2. QED
      BY <1>1, <2>1 DEF CommandInv, Truthful, Concluded
  <1>4. QED
    BY <1>2, <1>3 DEF CommandInv

LEMMA ServerRestartsKeeps ==
  ASSUME TypeOK, CommandInv, ServerRestarts
  PROVE  CommandInv'
  <1>1. /\ UNCHANGED <<task, audit, executed>>
        /\ wire' = {m \in wire : m.kind = "command"}
        /\ \A c \in Command :
             /\ answer'[c] = "none"
             /\ request'[c] = IF request[c] \in {"arrived", "waiting"}
                              THEN "lost" ELSE request[c]
    BY DEF ServerRestarts
  <1>2. OncePlaced'
    <2>1. \A m \in wire' : m.kind = "command" =>
            request'[m.cmd] \in {"waiting", "done", "lost"}
      <3> SUFFICES ASSUME NEW m \in wire', m.kind = "command"
                   PROVE  request'[m.cmd] \in {"waiting", "done", "lost"}
        OBVIOUS
      <3>1. /\ m.cmd \in Command
            /\ request[m.cmd] \in {"waiting", "done", "lost"}
        BY <1>1, MessageFields DEF TypeOK, CommandInv, OncePlaced
      <3>2. QED
        BY <3>1, <1>1
    <2>2. QED
      BY <1>1, <2>1 DEF CommandInv, OncePlaced
  <1>3. Truthful'
    <2>1. \A m \in wire' : m.kind # "ack"
      BY <1>1
    <2>2. QED
      BY <1>1, <2>1 DEF CommandInv, Truthful
  <1>4. Concluded'
    BY <1>1 DEF CommandInv, Concluded
  <1>5. QED
    BY <1>2, <1>3, <1>4 DEF CommandInv

LEMMA CommandsKept == TypeOK /\ CommandInv /\ [Next]_vars => CommandInv'
  <1> SUFFICES ASSUME TypeOK, CommandInv, [Next]_vars PROVE CommandInv'
    OBVIOUS
  <1>1. CASE AgentLoop
    <2>1. wire' \subseteq wire /\ UNCHANGED <<task, webhookVars, executed>>
      BY <1>1 DEF AgentLoop, Dial, DialFails, DialReturns, Disconnected, PauseEnds
    <2>2. QED
      BY <2>1, ConnectionsKeepCommands
  <1>2. ASSUME NEW c \in Command, AgentTask(c) PROVE CommandInv'
    BY <1>2, ReceiveKeeps, ExecuteKeeps, SendAckKeeps DEF AgentTask
  <1>3. ASSUME NEW s \in Socket, SocketStep(s) \/ Cut(s) PROVE CommandInv'
    <2>1. wire' \subseteq wire /\ UNCHANGED <<task, webhookVars, executed>>
      BY <1>3 DEF SocketStep, Refuse, Accept, Register, BeginReplace,
         FinishReplace, Disconnect, Cut
    <2>2. QED
      BY <2>1, ConnectionsKeepCommands
  <1>4. CASE \/ HealthChanges \/ HostAppears
             \/ (\E b \in Callback : Expire(b)) \/ UNCHANGED vars
    <2>1. wire' \subseteq wire /\ UNCHANGED <<task, webhookVars, executed>>
      BY <1>4 DEF HealthChanges, HostAppears, Expire, vars, webhookVars
    <2>2. QED
      BY <2>1, ConnectionsKeepCommands
  <1>5. QED
    BY <1>1, <1>2, <1>3, <1>4, HandleMessageKeeps, WebhookKeeps,
       AgentRestartsKeeps, ServerRestartsKeeps DEF Next

-----------------------------------------------------------------------------
(* What is known of connections.                                           *)

LEMMA SocketsKept == TypeOK /\ SocketInv /\ [Next]_vars => SocketInv'
  <1> SUFFICES ASSUME TypeOK, SocketInv, [Next]_vars PROVE SocketInv'
    OBVIOUS
  <1> USE DEF SocketInv, RegisteredIsServed, ClosedIsBeingReplaced,
              ClosingWasRegistered
  <1>t. /\ handler \in [Socket -> {"free", "handshake", "accepted", "replacing",
                                   "listening"}]
        /\ active \in Socket \union {NoSocket} /\ closing \subseteq Socket
        /\ NoSocket \notin Socket
    BY SocketAssumption DEF TypeOK
  <1>1. CASE UNCHANGED socketVars
    BY <1>1 DEF socketVars
  <1>2. CASE Dial
    <2>1. PICK s \in Socket :
            /\ handler[s] = "free"
            /\ handler' = [handler EXCEPT ![s] = "handshake"]
            /\ closing' = closing \ {s} /\ active' = active
      BY <1>2 DEF Dial
    <2>2. /\ \A q \in Socket \ {s} : handler'[q] = handler[q]
          /\ active # s
      BY <1>t, <2>1
    <2>3. ClosedIsBeingReplaced'
      BY <1>t, <2>1, <2>2
    <2>4. QED
      BY <1>t, <2>1, <2>2, <2>3
  <1>3. ASSUME NEW s \in Socket, Refuse(s) \/ Accept(s) PROVE SocketInv'
    <2>1. /\ handler[s] = "handshake" /\ active' = active /\ closing' = closing
          /\ \A q \in Socket \ {s} : handler'[q] = handler[q]
      BY <1>t, <1>3 DEF Refuse, Accept
    <2>2. QED
      BY <1>t, <2>1
  <1>4. ASSUME NEW s \in Socket, Register(s) \/ FinishReplace(s) PROVE SocketInv'
    <2>1. /\ handler[s] \in {"accepted", "replacing"}
          /\ active' = s /\ closing' = closing
          /\ handler' = [handler EXCEPT ![s] = "listening"]
      BY <1>4 DEF Register, FinishReplace
    <2>2. s \notin closing
      BY <2>1
    <2>3. /\ handler'[s] = "listening"
          /\ \A q \in Socket \ {s} : handler'[q] = handler[q]
      BY <1>t, <2>1
    <2>4. QED
      BY <1>t, <2>1, <2>2, <2>3
  <1>5. ASSUME NEW s \in Socket, BeginReplace(s) PROVE SocketInv'
    <2>1. /\ handler[s] = "accepted" /\ active # NoSocket /\ active' = active
          /\ closing' = closing \union {active}
          /\ handler' = [handler EXCEPT ![s] = "replacing"]
      BY <1>5 DEF BeginReplace
    <2>2. handler[active] = "listening" /\ active \in Socket \ {s}
      BY <1>t, <2>1
    <2>3. /\ handler'[s] = "replacing"
          /\ \A q \in Socket \ {s} : handler'[q] = handler[q]
      BY <1>t, <2>1
    <2>4. s \notin closing
      BY <2>1
    <2>5. QED
      BY <1>t, <2>1, <2>2, <2>3, <2>4
  <1>6. ASSUME NEW s \in Socket, Disconnect(s) PROVE SocketInv'
    <2>1. /\ handler[s] = "listening" /\ closing' = closing
          /\ active' = IF active = s THEN NoSocket ELSE active
          /\ handler' = [handler EXCEPT ![s] = "free"]
      BY <1>6 DEF Disconnect
    <2>2. /\ handler'[s] = "free"
          /\ \A q \in Socket \ {s} : handler'[q] = handler[q]
      BY <1>t, <2>1
    <2>3. QED
      BY <1>t, <2>1, <2>2
  <1>7. CASE ServerRestarts
    BY <1>7 DEF ServerRestarts
  <1>8. ASSUME NEW c \in Command, AgentTask(c) \/ Deliver(c) \/ WebhookStep(c)
                                    \/ AuditFails(c)
        PROVE  UNCHANGED socketVars
    BY <1>8 DEF AgentTask, Receive, Execute, SendAck, Deliver, WebhookStep,
       Reject, CannotDispatch, Dispatch, Answered, TimesOut, AuditFails
  <1>9. CASE DialFails \/ DialReturns \/ Disconnected \/ PauseEnds
    <2>1. UNCHANGED socketVars
      BY <1>9 DEF DialFails, DialReturns, Disconnected, PauseEnds
    <2>2. QED
      BY <2>1, <1>1
  <1>10. CASE (\E s \in Socket : Cut(s)) \/ (\E b \in Callback : Expire(b))
              \/ (\E m \in wire : HandleMessage(m))
    <2>1. UNCHANGED socketVars
      BY <1>10 DEF Cut, Expire, HandleMessage
    <2>2. QED
      BY <2>1, <1>1
  <1>11. CASE HealthChanges \/ HostAppears \/ AgentRestarts \/ UNCHANGED vars
    <2>1. UNCHANGED socketVars
      BY <1>11 DEF HealthChanges, HostAppears, AgentRestarts, vars
    <2>2. QED
      BY <2>1, <1>1
  <1>12. ASSUME NEW s \in Socket, SocketStep(s) PROVE SocketInv'
    BY <1>3, <1>4, <1>5, <1>6, <1>12 DEF SocketStep
  <1> HIDE DEF SocketInv
  <1>13. QED
    BY <1>1, <1>2, <1>7, <1>8, <1>9, <1>10, <1>11, <1>12 DEF Next, AgentLoop

-----------------------------------------------------------------------------
(* The results.                                                            *)

\* The invariant above holds of every behaviour of the channel.
THEOREM ChannelInvariant == Spec => []IInv
  <1>1. IInv /\ [Next]_vars => IInv'
    BY TypesKept, CommandsKept, SocketsKept DEF IInv
  <1>2. QED
    BY <1>1, InitInvariant, PTL DEF Spec

\* Every variable of the channel keeps its type; the pause between two dials
\* stays within its bounds.
THEOREM ChannelTypes == Spec => []TypeOK
  <1>1. IInv => TypeOK
    BY DEF IInv
  <1>2. QED
    BY <1>1, ChannelInvariant, PTL

\* A command that was carried out is recorded, unless its webhook call is still
\* waiting or was cut short by a restart or a failing database.
THEOREM ChannelRecords == Spec => []ExecutedIsRecorded
  <1>1. IInv => ExecutedIsRecorded
    <2> SUFFICES ASSUME IInv, NEW c \in Command, executed[c] > 0
                 PROVE  request[c] \in {"waiting", "lost"} \/ audit[c] # "none"
      BY DEF ExecutedIsRecorded
    <2>1. executed[c] # 0
      OBVIOUS
    <2>2. task[c] \in {"succeeded", "done"}
      BY <2>1 DEF IInv, CommandInv, OncePlaced
    <2>3. request[c] \in {"waiting", "done", "lost"}
      BY <2>2 DEF IInv, CommandInv, OncePlaced
    <2>4. QED
      BY <2>3 DEF IInv, CommandInv, Concluded
  <1>2. QED
    BY <1>1, ChannelInvariant, PTL

\* However connections overlap, the one registered is served by an endpoint.
THEOREM ChannelServed == Spec => []RegisteredIsServed
  <1>1. IInv => RegisteredIsServed
    BY DEF IInv, SocketInv
  <1>2. QED
    BY <1>1, ChannelInvariant, PTL

\* A connection close was called on stays registered only while its successor
\* is about to be.
THEOREM ChannelReplaces == Spec => []ClosedIsBeingReplaced
  <1>1. IInv => ClosedIsBeingReplaced
    BY DEF IInv, SocketInv
  <1>2. QED
    BY <1>1, ChannelInvariant, PTL

\* A step of one command that leaves its verdict alone or gives it one.
LEMMA VerdictRefines ==
  ASSUME IInv, NEW c \in Command, NEW verdict \in {"success", "failed"},
         request[c] # "done", UNCHANGED executed,
         audit' = [audit EXCEPT ![c] = verdict],
         verdict = "success" => executed[c] = 1
  PROVE  Promise!Conclude(c)
  <1>1. audit[c] = "none"
    BY DEF IInv, CommandInv, Concluded
  <1>2. QED
    BY <1>1 DEF Promise!Conclude

LEMMA StepRefines ==
  ASSUME IInv, [Next]_vars
  PROVE  [Promise!Next]_<<executed, audit>>
  <1>1. ASSUME NEW c \in Command, Execute(c)
        PROVE  Promise!CarryOut(c) \/ UNCHANGED <<executed, audit>>
    <2>1. executed[c] = 0
      BY <1>1 DEF Execute, IInv, CommandInv, OncePlaced
    <2>2. executed' = executed \/ executed' = [executed EXCEPT ![c] = executed[c] + 1]
      BY <1>1 DEF Execute
    <2>3. audit' = audit
      BY <1>1 DEF Execute, webhookVars
    <2>4. QED
      BY <2>1, <2>2, <2>3 DEF Promise!CarryOut
  <1>2. ASSUME NEW c \in Command, CannotDispatch(c) \/ TimesOut(c)
        PROVE  Promise!Conclude(c)
    <2>1. /\ request[c] # "done" /\ audit' = [audit EXCEPT ![c] = "failed"]
          /\ UNCHANGED executed
      BY <1>2 DEF CannotDispatch, CannotSend, TimesOut, Conclude
    <2>2. QED
      BY <2>1, VerdictRefines
  <1>3. ASSUME NEW c \in Command, Answered(c)
        PROVE  Promise!Conclude(c)
    <2> DEFINE verdict == IF answer[c] = "ok" THEN "success" ELSE "failed"
    <2>1. /\ request[c] # "done" /\ audit' = [audit EXCEPT ![c] = verdict]
          /\ UNCHANGED executed
      BY <1>3 DEF Answered, Conclude
    <2>2. /\ verdict \in {"success", "failed"}
          /\ verdict = "success" => executed[c] = 1
      BY DEF IInv, CommandInv, Truthful
    <2> HIDE DEF verdict
    <2>3. QED
      BY <2>1, <2>2, VerdictRefines
  <1>4. ASSUME NEW c \in Command,
               Receive(c) \/ SendAck(c) \/ Deliver(c) \/ Reject(c)
                 \/ Dispatch(c) \/ AuditFails(c)
        PROVE  UNCHANGED <<executed, audit>>
    BY <1>4 DEF Receive, SendAck, Deliver, Reject, Dispatch, AuditFails,
       webhookVars
  <1>5. CASE AgentLoop
    BY <1>5 DEF AgentLoop, Dial, DialFails, DialReturns, Disconnected,
       PauseEnds, webhookVars
  <1>6. CASE \E s \in Socket : SocketStep(s) \/ Cut(s)
    BY <1>6 DEF SocketStep, Refuse, Accept, Register, BeginReplace,
       FinishReplace, Disconnect, Cut, webhookVars
  <1>7. CASE (\E m \in wire : HandleMessage(m)) \/ (\E b \in Callback : Expire(b))
    BY <1>7 DEF HandleMessage, Expire, webhookVars
  <1>8. CASE HealthChanges \/ HostAppears \/ AgentRestarts \/ ServerRestarts
             \/ UNCHANGED vars
    BY <1>8 DEF HealthChanges, HostAppears, AgentRestarts, ServerRestarts, vars,
       webhookVars
  <1>9. QED
    BY <1>1, <1>2, <1>3, <1>4, <1>5, <1>6, <1>7, <1>8
       DEF Next, AgentTask, WebhookStep, Promise!Next

\* The channel keeps its promise: a command is carried out at most once, has at
\* most one verdict, and is recorded as a success only after it was carried
\* out, through lost, late and misrouted answers, reconnections and restarts.
THEOREM ChannelKeepsPromise == Spec => ImplementsPromise
  <1>1. Init => Promise!Init
    BY DEF Init, Promise!Init
  <1>2. IInv /\ [Next]_vars => [Promise!Next]_<<executed, audit>>
    BY StepRefines
  <1>3. QED
    BY <1>1, <1>2, ChannelInvariant, PTL
       DEF Spec, ImplementsPromise, Promise!Spec
============================================================================
