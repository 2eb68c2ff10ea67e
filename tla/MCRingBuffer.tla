---------------------------- MODULE MCRingBuffer ----------------------------
(***************************************************************************)
(* A small instance of RingBuffer: more batches than slots, so that it     *)
(* overflows and wraps round at every offset.                              *)
(***************************************************************************)
EXTENDS RingBuffer
=============================================================================
