------------------------- MODULE TelemetryPipeline -------------------------
(***************************************************************************)
(* The road of a telemetry batch from one agent to the control plane's     *)
(* database:                                                               *)
(*   agent/internal/delivery/cli/daemon.go             the sampling loop   *)
(*   agent/internal/infrastructure/transport/client.go the signed POST     *)
(*   server/routers/telemetry.py, server/auth/hmac_auth.py  the ingestion  *)
(* The agent's buffer is the bounded queue that RingBuffer implements.     *)
(*                                                                         *)
(* Time is counted in sampling intervals (10 s by default).  A batch is    *)
(* identified by the instant it was sampled at.                            *)
(***************************************************************************)
EXTENDS Integers, Sequences

LOCAL INSTANCE SequencesExt

CONSTANTS
  BufferCapacity,  \* capacity of the agent's buffer
  Window,          \* how old or early a request may be, in intervals (300 s)
  SendTimeout,     \* intervals that may begin while one Send waits (8 s)
  Skew,            \* server clock minus agent clock, in intervals
  Keys,            \* the signing keys
  AgentKey,        \* the key the agent signs with
  DefaultKey,      \* the key the server registers unknown hosts with
  NoKey,           \* the host is not registered
  Provisioned,     \* what may be stored for the host at the start
  HostMayBeEmpty,  \* whether a sample may find no container at all
  MaxTime,         \* bound: the last instant of the model
  MaxRestarts      \* bound: how often the agent process restarts

\* The daemon asks for 1000 (main.go); two is what a cycle needs.
ASSUME CapacityAssumption == BufferCapacity \in Nat /\ BufferCapacity >= 2
ASSUME TimingAssumption ==
  Window \in Nat /\ SendTimeout \in Nat /\ Skew \in Int /\ MaxTime \in Nat \ {0}
ASSUME KeyAssumption ==
  /\ AgentKey \in Keys /\ DefaultKey \in Keys /\ NoKey \notin Keys
  /\ Provisioned \subseteq Keys \union {NoKey}
ASSUME EnvironmentAssumption == HostMayBeEmpty \in BOOLEAN /\ MaxRestarts \in Nat

VARIABLES
  now,        \* the agent's clock
  healthy,    \* Docker, the network and the control plane all work
  pc,         \* where the sampling loop is: "idle", "drain", "send", "wait"
  lastTick,   \* when the loop last sampled
  buffer,     \* batches in the agent's buffer, oldest first
  pending,    \* batches drained by the current cycle and not yet sent
  attempt,    \* number of the last request sent
  sentAt,     \* when it was sent
  reply,      \* what came back for it: "none", "ok" or "refused"
  requests,   \* requests in flight or being handled by the server
  hostKey,    \* the key stored for the host, NoKey if it is not registered
  rows,       \* rows[t]: how often the batch sampled at t was stored
  collected,  \* history: every batch sampled so far
  bootedAt,   \* history: the last instant before this agent process started
  restarts    \* history: restarts of the agent process

agentVars == <<pc, lastTick, buffer, pending>>
historyVars == <<bootedAt, restarts>>
sendVars == <<attempt, sentAt, reply>>
serverVars == <<hostKey, rows>>
vars == <<now, healthy, agentVars, sendVars, requests, serverVars, collected,
          historyVars>>

Instant == 1 .. MaxTime

\* A batch: its sampling instant and whether it lists any container.
Batch == [ts : Instant, some : BOOLEAN]

\* A request: "wire" until the server looks at its timestamp header, "body"
\* while the handler awaits the body.
Request == [batch : Batch, attempt : Nat, stage : {"wire", "body"}]

Queue == INSTANCE BoundedFifo WITH Item <- Batch, Capacity <- BufferCapacity,
                                   queue <- buffer, returned <- pending

Held(q) == {q[i] : i \in DOMAIN q}

\* The batches the agent still has.
Retained == Held(buffer) \union Held(pending)

Stored(b) == rows[b.ts] > 0

\* A slip of Fresh: the limit itself counts as too old.
FreshOffByOne(t) ==
  LET age == now + Skew - t IN age < Window /\ -age < Window

\* is_timestamp_valid: the age limit is symmetric.
Fresh(t) ==
  LET age == now + Skew - t IN age <= Window /\ -age <= Window

Init ==
  /\ now = 1
  /\ healthy = TRUE
  /\ pc = "idle"
  /\ lastTick = 0
  /\ buffer = << >>
  /\ pending = << >>
  /\ attempt = 0
  /\ sentAt = 0
  /\ reply = "none"
  /\ requests = {}
  /\ hostKey \in Provisioned
  /\ rows = [t \in Instant |-> 0]
  /\ collected = {}
  /\ bootedAt = 0
  /\ restarts = 0

-----------------------------------------------------------------------------
(* The agent's sampling loop.                                              *)

\* A slip of Collect: the instant is put down in another unit.
CollectInMilliseconds ==
  /\ pc = "idle"
  /\ now > lastTick
  /\ LET b == [ts |-> now * 1000, some |-> TRUE] IN
       /\ buffer' = Queue!Enqueue(buffer, b)
       /\ collected' = collected \union {b}
  /\ lastTick' = now
  /\ pc' = "drain"
  /\ UNCHANGED <<now, healthy, pending, sendVars, requests, serverVars,
                 historyVars>>

\* collectAndSend up to the Push: a sample is taken and buffered.
Collect ==
  /\ pc = "idle"
  /\ now > lastTick
  /\ \E some \in (IF HostMayBeEmpty THEN BOOLEAN ELSE {TRUE}) :
       LET b == [ts |-> now, some |-> some] IN
       /\ buffer' = Queue!Enqueue(buffer, b)
       /\ collected' = collected \union {b}
  /\ lastTick' = now
  /\ pc' = "drain"
  /\ UNCHANGED <<now, healthy, pending, sendVars, requests, serverVars,
                 historyVars>>

\* Docker cannot be asked: the cycle ends before touching the buffer, so what
\* it holds is not sent either.
CollectFails ==
  /\ pc = "idle"
  /\ now > lastTick
  /\ ~healthy
  /\ lastTick' = now
  /\ UNCHANGED <<now, healthy, pc, buffer, pending, sendVars, requests,
                 serverVars, collected, historyVars>>

\* Everything buffered is taken out before anything is sent.
DrainBuffer ==
  /\ pc = "drain"
  /\ pending' = buffer
  /\ buffer' = << >>
  /\ pc' = "send"
  /\ UNCHANGED <<now, healthy, lastTick, sendVars, requests, serverVars,
                 collected, historyVars>>

\* Send: the request carries the instant the batch was sampled at.
Send ==
  /\ pc = "send"
  /\ attempt' = attempt + 1
  /\ sentAt' = now
  /\ reply' = "none"
  /\ requests' = requests \union
       {[batch |-> Head(pending), attempt |-> attempt + 1, stage |-> "wire"]}
  /\ pc' = "wait"
  /\ UNCHANGED <<now, healthy, lastTick, buffer, pending, serverVars,
                 collected, historyVars>>

\* Send returned nil: on to the next batch.
SendSucceeds ==
  /\ pc = "wait"
  /\ reply = "ok"
  /\ pending' = Tail(pending)
  /\ pc' = IF Len(pending) = 1 THEN "idle" ELSE "send"
  /\ UNCHANGED <<now, healthy, lastTick, buffer, sendVars, requests,
                 serverVars, collected, historyVars>>

\* The client is still waiting for the answer to r.
Awaited(r) == pc = "wait" /\ r.attempt = attempt

\* Send is over without a nil error.
SendError ==
  /\ pc = "wait"
  /\ \/ reply = "refused"
     \/ reply = "none" /\ (~healthy \/ ~\E r \in requests : Awaited(r))

\* Slips of SendFails: the batch is not pushed back; the loop goes on with the next
\* batch.
SendFailsForgetting ==
  /\ SendError
  /\ pending' = << >>
  /\ pc' = "idle"
  /\ UNCHANGED <<now, healthy, lastTick, buffer, sendVars, requests,
                 serverVars, collected, historyVars>>

SendFailsGoingOn ==
  /\ SendError
  /\ buffer' = Queue!Enqueue(buffer, Head(pending))
  /\ pending' = Tail(pending)
  /\ pc' = IF Len(pending) = 1 THEN "idle" ELSE "send"
  /\ UNCHANGED <<now, healthy, lastTick, sendVars, requests, serverVars,
                 collected, historyVars>>

\* Send returned an error (refused, unreachable or timed out): this batch goes
\* back to the buffer and the loop is left, with the rest of what was drained.
SendFails ==
  /\ SendError
  /\ buffer' = Queue!Enqueue(buffer, Head(pending))
  /\ pending' = << >>
  /\ pc' = "idle"
  /\ UNCHANGED <<now, healthy, lastTick, sendVars, requests, serverVars,
                 collected, historyVars>>

\* The agent process stops and is started again: its memory is gone.
Restart ==
  /\ restarts < MaxRestarts
  /\ restarts' = restarts + 1
  /\ pc' = "idle"
  /\ bootedAt' = now
  /\ lastTick' = now
  /\ buffer' = << >>
  /\ pending' = << >>
  /\ UNCHANGED <<now, healthy, sendVars, requests, serverVars, collected>>

-----------------------------------------------------------------------------
(* The server's ingestion handler.                                         *)

\* The answer to r, which only a client still waiting for it can receive, and
\* which may be lost when the connection is in trouble.
Answer(r, verdict) ==
  \/ Awaited(r) /\ reply' = verdict
  \/ (~Awaited(r) \/ ~healthy) /\ UNCHANGED reply

\* The timestamp header is checked first, before the body is read.
CheckTimestamp(r) ==
  /\ r.stage = "wire"
  /\ \/ /\ Fresh(r.batch.ts)
        /\ requests' = (requests \ {r}) \union {[r EXCEPT !.stage = "body"]}
        /\ UNCHANGED reply
     \/ /\ ~Fresh(r.batch.ts)
        /\ requests' = requests \ {r}
        /\ Answer(r, "refused")
  /\ UNCHANGED <<now, healthy, agentVars, attempt, sentAt, serverVars,
                 collected, historyVars>>

\* A batch without containers is encoded as null, which the schema refuses.
Malformed(r) == ~r.batch.some

\* The signature matches the stored key or, for a host not yet registered,
\* the default one.
Authorised == AgentKey = (IF hostKey = NoKey THEN DefaultKey ELSE hostKey)

\* The rest of the handler: schema, signature, registration of a new host and
\* the rows of the batch, all committed before the answer.
Ingest(r) ==
  /\ r.stage = "body"
  /\ ~Malformed(r) /\ Authorised
  /\ requests' = requests \ {r}
  /\ hostKey' = AgentKey
  /\ rows' = [rows EXCEPT ![r.batch.ts] = @ + 1]
  /\ Answer(r, "ok")
  /\ UNCHANGED <<now, healthy, agentVars, attempt, sentAt, collected, historyVars>>

Refuse(r) ==
  /\ r.stage = "body"
  /\ Malformed(r) \/ ~Authorised
  /\ requests' = requests \ {r}
  /\ Answer(r, "refused")
  /\ UNCHANGED <<now, healthy, agentVars, attempt, sentAt, serverVars,
                 collected, historyVars>>

\* A slip of IngestFails: the failure is answered like a success.
IngestFailsSilently(r) ==
  /\ r.stage = "body"
  /\ ~Malformed(r) /\ Authorised
  /\ ~healthy
  /\ requests' = requests \ {r}
  /\ hostKey' = AgentKey
  /\ Answer(r, "ok")
  /\ UNCHANGED <<now, healthy, agentVars, attempt, sentAt, rows, collected,
                 historyVars>>

\* The database fails: at the first commit, and nothing is stored, or at the
\* second, and a new host stays registered without its rows.
IngestFails(r) ==
  /\ r.stage = "body"
  /\ ~Malformed(r) /\ Authorised
  /\ ~healthy
  /\ requests' = requests \ {r}
  /\ hostKey' \in {hostKey, AgentKey}
  /\ Answer(r, "refused")
  /\ UNCHANGED <<now, healthy, agentVars, attempt, sentAt, rows, collected,
                 historyVars>>

\* A request nobody waits for any more, or sent over a failing connection,
\* may never be handled.
Lose(r) ==
  /\ ~Awaited(r) \/ ~healthy
  /\ requests' = requests \ {r}
  /\ UNCHANGED <<now, healthy, agentVars, sendVars, serverVars, collected,
                 historyVars>>

-----------------------------------------------------------------------------
(* The environment.                                                        *)

HealthChanges ==
  /\ healthy' = ~healthy
  /\ UNCHANGED <<now, agentVars, sendVars, requests, serverVars, collected,
                 historyVars>>

\* Time passes while the loop waits for its ticker or for an answer, and not
\* past the deadline of the call.
Advance ==
  /\ now < MaxTime
  /\ \/ pc = "idle" /\ now = lastTick
     \/ pc = "wait" /\ now - sentAt < SendTimeout
  /\ now' = now + 1
  /\ UNCHANGED <<healthy, agentVars, sendVars, requests, serverVars, collected,
                 historyVars>>

AgentStep ==
  \/ Collect \/ CollectFails \/ DrainBuffer
  \/ Send \/ SendSucceeds \/ SendFails

ServerStep ==
  \E r \in requests : CheckTimestamp(r) \/ Ingest(r) \/ Refuse(r)

Next ==
  \/ AgentStep
  \/ Restart
  \/ ServerStep
  \/ \E r \in requests : IngestFails(r) \/ Lose(r)
  \/ HealthChanges
  \/ Advance

Spec == Init /\ [][Next]_vars

\* The ticker, the loop and the web server all run; nothing is said of health.
FairSpec ==
  /\ Spec
  /\ WF_vars(AgentStep)
  /\ WF_vars(ServerStep)
  /\ WF_vars(Advance)

-----------------------------------------------------------------------------
(* Properties.                                                             *)

TypeOK ==
  /\ now \in Instant /\ lastTick \in Nat /\ sentAt \in Nat /\ attempt \in Nat
  /\ healthy \in BOOLEAN
  /\ pc \in {"idle", "drain", "send", "wait"}
  /\ buffer \in Seq(Batch) /\ pending \in Seq(Batch)
  /\ reply \in {"none", "ok", "refused"}
  /\ requests \subseteq Request
  /\ hostKey \in Keys \union {NoKey}
  /\ rows \in [Instant -> Nat]
  /\ collected \subseteq Batch
  /\ bootedAt \in Nat /\ restarts \in Nat

\* Whatever the capacity of the buffer, the agent never holds more than the
\* batch being sampled and one older one: collectAndSend empties the buffer
\* every cycle and puts back at most the batch that failed (daemon.go).
AtMostOneRetained ==
  /\ Len(buffer) + Len(pending) <= 2
  /\ pc = "idle" => pending = << >> /\ Len(buffer) <= 1

\* What the agent holds is in the order it was sampled, so that a re-queued
\* batch is sent before every later one (daemon.go, ring.go Push and Drain).
Chronological ==
  /\ \A i, j \in DOMAIN buffer : i < j => buffer[i].ts < buffer[j].ts
  /\ \A i, j \in DOMAIN pending : i < j => pending[i].ts < pending[j].ts

\* A nil error from Send is believed: the batch is in the database when the
\* agent drops it (client.go Send, telemetry.py ingest_telemetry).
AcknowledgedIsStored ==
  pc = "wait" /\ reply = "ok" => Stored(Head(pending))

\* The batch sampled at t has reached the server or may still reach it.
Sent(t) == rows[t] > 0 \/ \E r \in requests : r.batch.ts = t

\* A batch that this agent process sent and that is not stored yet is still
\* held, whatever happened to the requests that carried it: it will be sent
\* again (daemon.go, Push of the failed batch).
UndeliveredIsHeld ==
  \A t \in Instant :
    t > bootedAt /\ Sent(t) /\ ~(rows[t] > 0) => \E b \in Retained : b.ts = t

\* Nothing sampled later than a batch still held has been sent, and of two
\* batches sent by one agent process the earlier is stored, even with requests
\* of both under way (daemon.go, the order of the loop and its break).
SentInOrder ==
  /\ \A b \in Retained, t \in Instant : Sent(t) => t <= b.ts
  /\ \A t, u \in Instant :
       bootedAt < t /\ t < u /\ Sent(t) /\ Sent(u) => rows[t] > 0

\* The server first stores the batches of one run of the agent in the order
\* they were sampled, although requests given up on are handled late: a later
\* batch is only sent once every earlier one is stored or gone.
FirstStoredInOrder ==
  [][\A t \in Instant : t > bootedAt /\ rows[t] = 0 /\ rows'[t] > 0
        => \A u \in Instant : u > t => rows[u] = 0]_vars

\* A batch leaves the agent unstored only behind an older batch that stays:
\* the oldest undelivered batch is never the one given up (daemon.go, the
\* break after the failed batch is pushed back).
OldestKept ==
  [][\A b \in Retained : b \notin Retained' /\ restarts' = restarts
        => Stored(b) \/ \E a \in Retained' : a.ts < b.ts]_vars

\* The oldest batch held is the one sampled at t, and the server has nothing
\* against it.
Oldest(t) ==
  /\ \E b \in Retained : b.ts = t /\ b.some
  /\ \A b \in Retained : t <= b.ts
  /\ Authorised

\* If everything works from some moment on, and the oldest batch held is then
\* young enough to be sent at the next tick and still reach the server inside
\* the timestamp window, it is eventually stored, even when the Send in
\* progress is already lost (daemon.go re-queue, hmac_auth.py window), unless
\* the agent restarts.
RecoveryWithinWindow ==
  \A t \in Instant \ {MaxTime} :
    []( /\ now < MaxTime
        /\ Oldest(t)
        /\ now + Skew - t < Window - SendTimeout
        /\ []healthy
      => <>(rows[t] > 0 \/ bootedAt >= t) )

-----------------------------------------------------------------------------
(* What the documents say and the code does not do.                        *)

\* openspec telemetry-ring-buffer: once the connection is back, what is
\* buffered is emptied and sent.  A batch sampled when everything works, and
\* goes on working, is eventually stored.
DeliveredOnceBack ==
  \A t \in Instant :
    [](pc = "drain" /\ lastTick = t /\ []healthy => <>(rows[t] > 0))
=============================================================================
