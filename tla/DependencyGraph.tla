-------------------------- MODULE DependencyGraph --------------------------
(***************************************************************************)
(* The graph inferred from a collection                                    *)
(* (agent/internal/core/service/dependency_graph.go).  A list holds, per   *)
(* container, its name (and identifier), networks, aliases, the hosts its  *)
(* environment names (ExtractHostTokens), the host ports it publishes and  *)
(* whether it runs.                                                        *)
(***************************************************************************)
EXTENDS Integers, SequencesExt

\* haveSharedNetwork.
HaveSharedNetwork(a, b) == a.networks \intersect b.networks # {}

\* A slip of Siblings: the graph is built in one pass.
SiblingsSoFar(list, i) == {j \in 1 .. i - 1 : HaveSharedNetwork(list[i], list[j])}

Siblings(list, i) == {j \in DOMAIN list \ {i} : HaveSharedNetwork(list[i], list[j])}

Identifiers(h) == {h.name} \union h.aliases

\* Whom a host name means to container i: of several siblings the last listed.
Named(list, i, token) == {j \in Siblings(list, i) : token \in Identifiers(list[j])}

GetDependencies(list, i) ==
  {list[Max(Named(list, i, t))].name : t \in {u \in list[i].tokens : Named(list, i, u) # {}}}

GetDependents(list, i) ==
  {list[j].name : j \in {k \in DOMAIN list : list[i].name \in GetDependencies(list, k)}}

GetImpactRadius(list, i) == Cardinality(Siblings(list, i))

\* Of several running containers that publish a port the last listed owns it.
Publishers(list, port) == {j \in DOMAIN list : list[j].running /\ port \in list[j].ports}

GetPortConflicts(list, i) ==
  {p \in list[i].ports : Publishers(list, p) # {} /\ Max(Publishers(list, p)) # i}

\* What the graph says of container i.
Facts(list, i) ==
  [of |-> list[i].name, needs |-> GetDependencies(list, i), serves |-> GetDependents(list, i),
   radius |-> GetImpactRadius(list, i), conflicts |-> GetPortConflicts(list, i)]

\* No two siblings answer to one host name, no two containers that run publish one port.
Unambiguous(list) ==
  /\ \A i \in DOMAIN list : \A j, k \in Siblings(list, i) :
       j # k => Identifiers(list[j]) \intersect Identifiers(list[k]) = {}
  /\ \A j, k \in DOMAIN list :
       j # k /\ list[j].running /\ list[k].running => list[j].ports \intersect list[k].ports = {}
=============================================================================
