------------------------------ MODULE MCVault ------------------------------
(***************************************************************************)
(* A small instance of CredentialVault.                                    *)
(***************************************************************************)
EXTENDS CredentialVault

InEnvironment == [f \in Field |-> IF f = "pinned_containers" THEN "env" ELSE Absent]
EveryWorld == {{}, {"fails", "crash", "overlap"}}
=============================================================================
