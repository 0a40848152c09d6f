--------------------------- MODULE MCBulkProducer ---------------------------
(***************************************************************************)
(* A file of three messages in batches of two, two workers, one ticket, one*)
(* seat, all under one request id: a wants the ticket, d and f the seat    *)
(* (a file for main.py holds one kind; add_request takes both).            *)
(* Two faults, so that a copy published again meets a second failure.      *)
(***************************************************************************)
EXTENDS BulkProducer, TLC

CONSTANTS a, d, f, i1, w1, w2

Message(type, seat) == [id |-> i1, type |-> type, seat |-> seat]

MCOrderOf == a :> Message("unnumbered", NoSeat) @@
             d :> Message("numbered", 1) @@
             f :> Message("numbered", 1)

MCFile == <<a, d, f>>

MCCopies == a :> 2 @@ d :> 1 @@ f :> 1

Symmetry == Permutations(Process)
=============================================================================
