--------------------------- MODULE MCIndirectRuns ---------------------------
(***************************************************************************)
(* Two runs with the same request id: the first wants the ticket, the      *)
(* second a seat out of range.                                             *)
(***************************************************************************)
EXTENDS IndirectRuns, TLC

CONSTANTS a1, a2, i1, w1, w2

Message(id, type, seat) == [id |-> id, type |-> type, seat |-> seat]

MCOrderOf == a1 :> Message(i1, "unnumbered", NoSeat) @@
             a2 :> Message(i1, "numbered", 2)

MCRunOf == a1 :> 1 @@ a2 :> 2

MCCopies == [m \in Purchase |-> 1]

Symmetry == Permutations(Process)
=============================================================================
