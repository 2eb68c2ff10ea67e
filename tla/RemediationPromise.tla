------------------------ MODULE RemediationPromise ------------------------
(***************************************************************************)
(* What the control channel promises about one remediation command,        *)
(* however many connections, timeouts and restarts lie between the         *)
(* operator and the container: it is carried out at most once, it gets at  *)
(* most one verdict, and the verdict is "success" only if it was carried   *)
(* out.  The promise is one-sided: a command recorded as failed may still  *)
(* have been, or be, carried out.                                          *)
(***************************************************************************)
EXTENDS Naturals

CONSTANT Command

VARIABLES
  executed,  \* executed[c]: how often the container was acted upon for c
  verdict    \* verdict[c]: "none", or what the audit log says of c

Init ==
  /\ executed = [c \in Command |-> 0]
  /\ verdict = [c \in Command |-> "none"]

CarryOut(c) ==
  /\ executed[c] = 0
  /\ executed' = [executed EXCEPT ![c] = 1]
  /\ UNCHANGED verdict

Conclude(c) ==
  /\ verdict[c] = "none"
  /\ \E v \in {"success", "failed"} :
       /\ v = "success" => executed[c] = 1
       /\ verdict' = [verdict EXCEPT ![c] = v]
  /\ UNCHANGED executed

Next == \E c \in Command : CarryOut(c) \/ Conclude(c)

Spec == Init /\ [][Next]_<<executed, verdict>>
=============================================================================
