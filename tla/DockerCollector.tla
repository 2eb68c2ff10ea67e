-------------------------- MODULE DockerCollector --------------------------
(***************************************************************************)
(* The collector of the agent (agent/internal/infrastructure/docker/       *)
(* collector.go) over a Docker host whose containers restart, stop, are    *)
(* isolated and created anew.  A collection lists the containers, then     *)
(* asks for the statistics of each that ran; the interface asks for one    *)
(* every few seconds, so that they overlap.  Rates are computed from the   *)
(* sample before, which all collections share.  Percentages of processor   *)
(* and memory, computed from one answer alone, are left out, and so are    *)
(* ingress, which is computed as egress is, and logs.                      *)
(***************************************************************************)
EXTENDS DependencyGraph

CONSTANTS
  Container,
  Meta,         \* Meta[c]: networks, aliases, tokens and ports of c when it is created,
                \* and which of the aliases the list tells
  Busy,         \* bound: the containers with traffic
  Aspects,      \* bound: the halves a behaviour may be about: "rates" of busy
                \* containers, "graph" of all as listed by one collection at a time
  Peak,         \* the most a container sends in an instant
  Collection,   \* bound: the collections at a time
  MaxDelay,     \* the instants a collection may take
  MaxTime, MaxChanges   \* bounds

ASSUME CollectorAssumption ==
  /\ IsFiniteSet(Container) /\ Busy \subseteq Container
  /\ Peak \in Nat /\ MaxDelay \in Nat

VARIABLES
  order,        \* how Docker lists the containers
  running, networks,
  sent,         \* bytes since the container was started
  clock,
  prevStates,   \* the sample before, of each container
  runs,         \* runs[k]: the collection under way
  fleet,        \* what the last collection to end returned
  overlapped, restarted,   \* whether collections overlapped, who restarted
  changes, aspect

docker == <<order, running, networks, sent>>
history == <<overlapped, restarted, changes, aspect>>
vars == <<docker, clock, prevStates, runs, fleet, history>>

NoSample == [bytes |-> 0, at |-> -1]
Over == [at |-> "idle", begun |-> 0, todo |-> << >>, ran |-> {},
         networks |-> << >>, read |-> 0, found |-> << >>]

Init ==
  /\ aspect \in Aspects
  /\ order \in SetToSeqs(IF aspect = "rates" THEN Busy ELSE Container)
  /\ running = [c \in Container |-> TRUE]
  /\ networks = [c \in Container |-> Meta[c].networks]
  /\ sent = [c \in Container |-> 0]
  /\ clock = 0
  /\ prevStates = [c \in Container |-> NoSample]
  /\ runs = [k \in Collection |-> Over]
  /\ fleet = << >>
  /\ overlapped = FALSE /\ restarted = {} /\ changes = 0

-----------------------------------------------------------------------------
(* Docker, and what is done to a container.                                *)

Advance ==
  /\ aspect = "rates" /\ clock < MaxTime
  /\ \A k \in Collection : runs[k].at # "idle" => clock - runs[k].begun < MaxDelay
  /\ clock' = clock + 1
  /\ \E more \in [Busy -> 0 .. Peak] :
       sent' = [c \in Container |->
                 IF c \in Busy /\ running[c] THEN sent[c] + more[c] ELSE sent[c]]
  /\ UNCHANGED <<order, running, networks, prevStates, runs, fleet, history>>

Change == changes < MaxChanges /\ changes' = changes + 1

\* Counters start anew with the container.
Started(c) ==
  /\ sent' = [sent EXCEPT ![c] = 0]
  /\ restarted' = restarted \union {c}

\* ExecuteRemediation: isolation ignores the networks it could not disconnect.
ExecuteRemediation(c) ==
  /\ Change
  /\ \/ /\ running' = [running EXCEPT ![c] = TRUE] /\ Started(c)
        /\ UNCHANGED networks
     \/ /\ running' = [running EXCEPT ![c] = FALSE] /\ Started(c)
        /\ UNCHANGED networks
     \/ /\ \E left \in SUBSET networks[c] : networks' = [networks EXCEPT ![c] = left]
        /\ UNCHANGED <<running, sent, restarted>>
  /\ UNCHANGED <<order, clock, prevStates, runs, fleet, overlapped, aspect>>

\* A container created anew has an identifier, and so a sample, of its own.  It is
\* listed first, with the networks it began with.  Bound: not during a collection.
Recreate(c) ==
  /\ Change /\ \A k \in Collection : runs[k].at = "idle"
  /\ \E i \in DOMAIN order : order[i] = c /\ order' = <<c>> \o RemoveAt(order, i)
  /\ running' = [running EXCEPT ![c] = TRUE]
  /\ sent' = [sent EXCEPT ![c] = 0]
  /\ prevStates' = [prevStates EXCEPT ![c] = NoSample]
  /\ networks' = [networks EXCEPT ![c] = Meta[c].networks]
  /\ UNCHANGED <<clock, runs, fleet, overlapped, restarted, aspect>>

-----------------------------------------------------------------------------
(* Collect.                                                                *)

Begin(k) ==
  /\ runs[k].at = "idle"
  /\ aspect = "rates" \/ \A q \in Collection : runs[q].at = "idle"
  /\ runs' = [runs EXCEPT ![k] = [Over EXCEPT !.at = "next", !.begun = clock, !.todo = order,
                !.ran = {c \in Container : running[c]}, !.networks = networks]]
  /\ overlapped' = (overlapped \/ \E q \in Collection : runs[q].at # "idle")
  /\ UNCHANGED <<docker, clock, prevStates, fleet, restarted, changes, aspect>>

Inspected == IF aspect = "rates" THEN {TRUE} ELSE BOOLEAN

\* What is told of c: its networks as they were listed; its environment, and the aliases
\* that the list leaves out, unless the inspection fails.
Entry(r, c, inspected, egress) ==
  [name |-> c, running |-> c \in r.ran, networks |-> r.networks[c],
   aliases |-> IF inspected THEN Meta[c].aliases ELSE Meta[c].listed,
   tokens |-> IF inspected THEN Meta[c].tokens ELSE {}, ports |-> Meta[c].ports,
   egress |-> egress]

NoRate == [bytes |-> 0, elapsed |-> 1]

\* One that did not run when they were listed, or whose statistics failed: it is then
\* passed over.
NextWithout(k) ==
  LET r == runs[k] IN
  /\ r.at = "next" /\ r.todo # << >>
  /\ \E inspected \in Inspected, failed \in BOOLEAN :
       /\ failed <=> Head(r.todo) \in r.ran
       /\ runs' = [runs EXCEPT ![k].todo = Tail(@),
                    ![k].found = IF failed THEN @
                                 ELSE Append(@, Entry(r, Head(r.todo), inspected, NoRate))]
  /\ UNCHANGED <<docker, clock, prevStates, fleet, history>>

\* The statistics of one that ran come back.
ReadStats(k) ==
  LET r == runs[k] IN
  /\ r.at = "next" /\ r.todo # << >> /\ Head(r.todo) \in r.ran
  /\ runs' = [runs EXCEPT ![k].at = "read", ![k].read = sent[Head(r.todo)]]
  /\ UNCHANGED <<docker, clock, prevStates, fleet, history>>

\* A slip of Rate: a counter that went back wraps around.
RateWrapping(prev, bytes, now) ==
  IF prev.at >= 0 /\ now > prev.at
  THEN [bytes |-> (bytes - prev.bytes) % 1000, elapsed |-> now - prev.at] ELSE NoRate

\* None without a sample before, for a time that did not pass or a counter that went back.
Rate(prev, bytes, now) ==
  IF prev.at >= 0 /\ now > prev.at /\ bytes >= prev.bytes
  THEN [bytes |-> bytes - prev.bytes, elapsed |-> now - prev.at] ELSE NoRate

\* Under the lock; the time is that of the beginning.
Record(k) ==
  LET r == runs[k]  c == Head(r.todo) IN
  /\ r.at = "read"
  /\ \E inspected \in Inspected :
       runs' = [runs EXCEPT ![k].at = "next", ![k].todo = Tail(@),
                 ![k].found = Append(@, Entry(r, c, inspected,
                                              Rate(prevStates[c], r.read, r.begun)))]
  /\ prevStates' = [prevStates EXCEPT ![c] = [bytes |-> r.read, at |-> r.begun]]
  /\ UNCHANGED <<docker, clock, fleet, history>>

End(k) ==
  /\ runs[k].at = "next" /\ runs[k].todo = << >>
  /\ fleet' = runs[k].found
  /\ runs' = [runs EXCEPT ![k] = Over]
  /\ UNCHANGED <<docker, clock, prevStates, history>>

Next ==
  \/ Advance
  \/ \E c \in ToSet(order) : ExecuteRemediation(c) \/ Recreate(c)
  \/ \E k \in Collection :
       Begin(k) \/ NextWithout(k) \/ ReadStats(k) \/ Record(k) \/ End(k)

Spec == Init /\ [][Next]_vars

-----------------------------------------------------------------------------
(* Properties.                                                             *)

\* A rate is never above what a container can send, but for the time a collection
\* takes to read it: overlapping collections, which set the sample back in time, do
\* not make one up, nor do restarts, which set the counter back.  The two together do.
RateBounded ==
  \A i \in DOMAIN fleet :
    ~(overlapped /\ fleet[i].name \in restarted) =>
      fleet[i].egress.bytes <= Peak * (fleet[i].egress.elapsed + MaxDelay)

\* The graph of a fleet does not depend on the order Docker lists it in, as long as
\* no name or port means two of its containers.
GraphIgnoresOrder ==
  LET facts(list) == {Facts(list, i) : i \in DOMAIN list}
  IN Unambiguous(fleet) => \A other \in SetToSeqs(ToSet(fleet)) : facts(other) = facts(fleet)
=============================================================================
