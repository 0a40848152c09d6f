-------------------------- MODULE MCLambdaHandler --------------------------
(***************************************************************************)
(* Two environments, one ticket, one seat.  a1 and a2 carry the same       *)
(* request id, the latter for the seat; b wants the ticket, c and d the    *)
(* seat; x is not JSON.  Either the first of these arrive or those that    *)
(* want the seat, in any order: all six at once are too many for TLC.      *)
(***************************************************************************)
EXTENDS LambdaHandler, TLC

CONSTANTS a1, a2, b, c, d, x, i1, i2, i3, i4, i5, e1, e2

Request(id, type, seat) == [id |-> id, type |-> type, seat |-> seat]

MCOrderOf == a1 :> Request(i1, "unnumbered", NoSeat) @@
             a2 :> Request(i1, "numbered", 1) @@
             b  :> Request(i2, "unnumbered", NoSeat) @@
             c  :> Request(i3, "numbered", 1) @@
             d  :> Request(i4, "numbered", 1) @@
             x  :> Request(i5, "unparsable", NoSeat)

MCRequests == [m \in Record |-> MCOrderOf[m]]

(* The state constraint of the run.                                        *)
OneCrowd == LET arrived == {m \in Record : place[m] # "unsent"}
            IN  arrived \subseteq {a1, a2, b, x} \/ arrived \subseteq {a2, c, d}

Symmetry == Permutations(Env)
=============================================================================
