----------------------------- MODULE MCControl -----------------------------
(***************************************************************************)
(* Small instances of ControlChannel.  Connections are interchangeable,    *)
(* and so are webhook calls.                                               *)
(***************************************************************************)
EXTENDS ControlChannel, TLC

Interchangeable == Permutations(Socket) \union Permutations(Command)
=============================================================================
