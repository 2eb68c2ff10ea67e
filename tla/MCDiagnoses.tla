---------------------------- MODULE MCDiagnoses -----------------------------
(***************************************************************************)
(* A small instance of DiagnosisCascade.                                   *)
(***************************************************************************)
EXTENDS DiagnosisCascade

Status ==
  [k \in Kind |->
     CASE k = "oom" -> [state |-> "exited", code |-> 137, words |-> {}]
       [] OTHER -> [state |-> "up", code |-> -1, words |-> {}]]
=============================================================================
