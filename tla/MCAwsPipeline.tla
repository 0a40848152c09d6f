--------------------------- MODULE MCAwsPipeline ---------------------------
(***************************************************************************)
(* Two messages, one for the ticket and one that is not JSON.  SQS may     *)
(* receive each once more than there are errors.                           *)
(***************************************************************************)
EXTENDS AwsPipeline, TLC

CONSTANTS a, x, a1, a2, x1, x2, i1, i2, e1, e2

MCMessageOf == a1 :> a @@ a2 :> a @@ x1 :> x @@ x2 :> x

MCOrderOf == [r \in Record |->
                 IF MCMessageOf[r] = a
                 THEN [id |-> i1, type |-> "unnumbered", seat |-> NoSeat]
                 ELSE [id |-> i2, type |-> "unparsable", seat |-> NoSeat]]

Symmetry == Permutations(Env) \cup Permutations({a1, a2}) \cup Permutations({x1, x2})
=============================================================================
