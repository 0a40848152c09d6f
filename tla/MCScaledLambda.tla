--------------------------- MODULE MCScaledLambda ---------------------------
(***************************************************************************)
(* Two environments, of which the scaler releases one or both; a and d     *)
(* want the same seat.                                                     *)
(***************************************************************************)
EXTENDS ScaledLambda, TLC

CONSTANTS a, d, i1, i2, e1, e2

MCOrderOf == a :> [id |-> i1, type |-> "numbered", seat |-> 1] @@
             d :> [id |-> i2, type |-> "numbered", seat |-> 1]
=============================================================================
