---------------------------- MODULE MCForwarder ----------------------------
(* Two messages and batches of two, so that a batch can be full or not.    *)
EXTENDS Forwarder

CONSTANTS m1, m2
=============================================================================
