---------------------------- MODULE MCIncidents ----------------------------
(***************************************************************************)
(* A small instance of IncidentAggregator: a, b and c in a row, b          *)
(* depending on a.  Incidents are interchangeable.                         *)
(***************************************************************************)
EXTENDS IncidentAggregator, TLC

CONSTANTS a, b, c

RowLink == {<<a, b>>, <<b, a>>, <<b, c>>, <<c, b>>}
RowEdge == {<<b, a>>}

Identifier == [n \in Container |-> <<"id", n>>]

Interchangeable == Permutations(Incident)
=============================================================================
