---------------------------- MODULE MCDirectRuns ----------------------------
(***************************************************************************)
(* Two runs for one seat: a1 and b1 in the first one, and a2, with the     *)
(* request id of a1, in the second.                                        *)
(***************************************************************************)
EXTENDS DirectRuns, TLC

CONSTANTS a1, a2, b1, i1, i2, r1, r2

MCRunOf == a1 :> 1 @@ b1 :> 1 @@ a2 :> 2

MCOrderOf == [c \in Purchase |-> [id |-> IF c = b1 THEN i2 ELSE i1,
                                  type |-> "numbered", seat |-> 1]]
=============================================================================
