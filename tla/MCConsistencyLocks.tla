------------------------- MODULE MCConsistencyLocks -------------------------
(***************************************************************************)
(* Two threads use with_lock and two get_seat_lock.                        *)
(***************************************************************************)
EXTENDS ConsistencyLocks, TLC

CONSTANTS t1, t2, t3, t4

Symmetry == Permutations(Thread \ SeatLockers)
=============================================================================
