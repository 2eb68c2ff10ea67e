--------------------------- MODULE IncidentGroups ---------------------------
(***************************************************************************)
(* What the incident aggregator promises of its groups, whatever the       *)
(* windows, the origins and the diagnoses: an open incident is a set of    *)
(* containers held together by topology, no container is in two of them,   *)
(* they only grow, and a closed one never changes again.                   *)
(***************************************************************************)
CONSTANTS
  Container,
  Incident,
  Link          \* pairs that share a compose project or a network

VARIABLES
  members,  \* members[i]: the containers of incident i
  open      \* the incidents that are open

\* No part of s is cut off from the rest of it.
Connected(s) ==
  \A part \in (SUBSET s) \ {{}, s} : \E a \in part, b \in s \ part : <<a, b>> \in Link

Taken == UNION {members[i] : i \in open}

Init ==
  /\ members = [i \in Incident |-> {}]
  /\ open = {}

\* An incident starts with two containers or more.
Open(i, group) ==
  /\ members[i] = {}
  /\ members' = [members EXCEPT ![i] = group]
  /\ open' = open \union {i}
  /\ group \intersect Taken = {}
  /\ \E a, b \in group : a # b
  /\ Connected(group)

Join(i, c) ==
  /\ i \in open
  /\ members' = [members EXCEPT ![i] = @ \union {c}]
  /\ UNCHANGED open
  /\ c \notin Taken
  /\ \E m \in members[i] : <<c, m>> \in Link

Close(some) ==
  /\ open' = open \ some
  /\ UNCHANGED members

Next ==
  \/ \E i \in Incident, c \in Container : Join(i, c)
  \/ \E some \in SUBSET open : Close(some)
  \/ \E i \in Incident, group \in SUBSET Container : Open(i, group)

Spec == Init /\ [][Next]_<<members, open>>
=============================================================================
