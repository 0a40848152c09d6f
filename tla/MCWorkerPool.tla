---------------------------- MODULE MCWorkerPool ----------------------------
(***************************************************************************)
(* Two workers, alone or in a pool; one purchase of the one ticket and one *)
(* message that cannot be parsed; one fault at any step.                   *)
(***************************************************************************)
EXTENDS WorkerPool, TLC

CONSTANTS b, x, i1, i2

MCOrderOf == b :> [id |-> i1, type |-> "unnumbered", seat |-> NoSeat] @@
             x :> [id |-> i2, type |-> "unknown", seat |-> NoSeat]

MCCopies == [m \in Purchase |-> 1]
=============================================================================
