---------------------------- MODULE MCDirectApi ----------------------------
(***************************************************************************)
(* Two replicas, one ticket, one seat.  Contention: a1 and a2 carry the    *)
(* same request id, a1 and b want the last ticket, a2 and d the same seat. *)
(* Edges: f asks for a seat out of range under the id of d, and x is       *)
(* malformed.                                                              *)
(***************************************************************************)
EXTENDS DirectApi, TLC

CONSTANTS a1, a2, b, d, f, x, i1, i2, i3, r1, r2

Call(id, type, seat) == [id |-> id, type |-> type, seat |-> seat]

MCOrderOf == a1 :> Call(i1, "unnumbered", NoSeat) @@
             a2 :> Call(i1, "numbered", 1) @@
             b  :> Call(i2, "unnumbered", NoSeat) @@
             d  :> Call(i3, "numbered", 1) @@
             f  :> Call(i3, "numbered", 2) @@
             x  :> Call(i2, "numbered", NoSeat)

MCContention == {a1, a2, b, d}
MCContentionOf == [c \in MCContention |-> MCOrderOf[c]]

MCEdges == {d, f, x}
MCEdgesOf == [c \in MCEdges |-> MCOrderOf[c]]

Symmetry == Permutations(Process)
=============================================================================
