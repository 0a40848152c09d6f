--------------------------- MODULE TicketBackend ---------------------------
(***************************************************************************)
(* The part both transports share: the Redis store behind RedisBackend and *)
(* the TicketManager of each process (an API replica or a queue worker).   *)
(*                                                                         *)
(* Redis runs one command at a time, so each command is one step of the    *)
(* module that uses these operators.  The store itself only knows that a   *)
(* seat key exists and how high the counter is; buyers, owner and voided   *)
(* also remember for whom, which the properties need and no guard reads.   *)
(***************************************************************************)
EXTENDS Integers, FiniteSets

CONSTANTS Process,     \* the processes that hold a TicketManager
          Purchase,    \* the attempts to buy
          Ids,         \* request ids
          OrderOf,     \* what each purchase asks for
          MaxTickets,  \* RedisBackend.MAX_TICKETS
          LastSeat,    \* the highest seat buy_numbered accepts
          NoSeat,      \* seat_id = None
          Nobody       \* no purchase

ASSUME LimitsAssumption == MaxTickets \in Nat /\ LastSeat \in Nat

ASSUME PurchaseAssumption == IsFiniteSet(Purchase) /\ Nobody \notin Purchase

(* The same request id may come in several purchases, with any content.    *)
ASSUME OrderAssumption ==
    OrderOf \in [Purchase -> [id   : Ids,
                              type : {"unnumbered", "numbered", "unknown"},
                              seat : Int \cup {NoSeat}]]

ASSUME NoSeatAssumption == NoSeat \notin Int

VARIABLES count,       \* tickets:unnumbered:count, 0 when the key is absent
          buyers,      \* the purchases counted in it
          owner,       \* tickets:numbered:<seat>, Nobody when absent
          voided,      \* the purchases whose sale a reset deleted
          processed    \* processed_requests of each process

storeVars == <<count, buyers, owner, voided>>

Seats == 1..LastSeat

(* A response as clients see it: the status and the seat_id it carries.    *)
Response == [status : {"none", "success", "failed", "duplicate", "error", "invalid"},
             seat   : Int \cup {NoSeat}]

NoResponse == [status |-> "none", seat |-> NoSeat]

EmptyCache == [i \in Ids |-> NoResponse]

BackendInit == /\ count = 0
               /\ buyers = {}
               /\ owner = [s \in Seats |-> Nobody]
               /\ voided = {}
               /\ processed = [p \in Process |-> EmptyCache]

-----------------------------------------------------------------------------
(* RedisBackend *)

(* Slip: INCR tested against the limit with < turned into <=.              *)
IncrOneTooMany(c, granted) ==
    /\ granted = (count <= MaxTickets)
    /\ count' = IF granted THEN count + 1 ELSE count
    /\ buyers' = IF granted THEN buyers \cup {c} ELSE buyers
    /\ UNCHANGED <<owner, voided>>

(* Slip: no DECR when the limit is passed.                                 *)
IncrWithoutDecr(c, granted) ==
    /\ granted = (count + 1 <= MaxTickets)
    /\ count' = count + 1
    /\ buyers' = IF granted THEN buyers \cup {c} ELSE buyers
    /\ UNCHANGED <<owner, voided>>

(* The Lua script: INCR, and DECR again when the limit is passed.          *)
IncrBounded(c, granted) ==
    /\ granted = (count + 1 <= MaxTickets)
    /\ count' = IF granted THEN count + 1 ELSE count
    /\ buyers' = IF granted THEN buyers \cup {c} ELSE buyers
    /\ UNCHANGED <<owner, voided>>

(* Slip: SET without NX.                                                   *)
SetSeatAlways(c, s, granted) ==
    /\ granted = TRUE
    /\ owner' = [owner EXCEPT ![s] = c]
    /\ UNCHANGED <<count, buyers, voided>>

(* Slip: the reply of SET compared with the wrong value.                   *)
SetSeatReplyLost(c, s, granted) ==
    /\ granted = FALSE
    /\ owner' = IF owner[s] = Nobody THEN [owner EXCEPT ![s] = c] ELSE owner
    /\ UNCHANGED <<count, buyers, voided>>

(* SET key "sold" NX.                                                      *)
SetSeatNX(c, s, granted) ==
    /\ granted = (owner[s] = Nobody)
    /\ owner' = IF granted THEN [owner EXCEPT ![s] = c] ELSE owner
    /\ UNCHANGED <<count, buyers, voided>>

SoldSeats == {s \in Seats : owner[s] # Nobody}

(* DEL of the counter, and DEL of the seat keys one SCAN call returned.    *)
DeleteCounter == /\ count' = 0
                 /\ buyers' = {}
                 /\ voided' = voided \cup buyers
                 /\ UNCHANGED owner

DeleteSeats(K) == /\ owner' = [s \in Seats |-> IF s \in K THEN Nobody ELSE owner[s]]
                  /\ voided' = voided \cup {owner[s] : s \in K}
                  /\ UNCHANGED <<count, buyers>>

-----------------------------------------------------------------------------
(* TicketManager *)

(* Slip: only successful responses count as cached.                        *)
CachedIfSold(p, c) == processed[p][OrderOf[c].id].status = "success"

Cached(p, c) == processed[p][OrderOf[c].id] # NoResponse

(* The requests buy_ticket sends to the store.                             *)
NeedsStore(c) == \/ OrderOf[c].type = "unnumbered"
                 \/ OrderOf[c].type = "numbered" /\ OrderOf[c].seat \in Seats

RunCommand(c, granted) == IF OrderOf[c].type = "unnumbered"
                          THEN IncrBounded(c, granted)
                          ELSE SetSeatNX(c, OrderOf[c].seat, granted)

(* The response to a request that cannot be bought names no seat.          *)
Failure == [status |-> "failed", seat |-> NoSeat]

Answer(c, granted) ==
    [status |-> IF granted THEN "success" ELSE "failed",
     seat   |-> IF OrderOf[c].type = "numbered" THEN OrderOf[c].seat ELSE NoSeat]

DuplicateOf(resp) == [status |-> "duplicate", seat |-> resp.seat]

(* Slip: only successful responses are cached.                             *)
RememberSales(p, c, resp) ==
    processed' = IF resp.status = "success"
                 THEN [processed EXCEPT ![p][OrderOf[c].id] = resp]
                 ELSE processed

Remember(p, c, resp) == processed' = [processed EXCEPT ![p][OrderOf[c].id] = resp]

(* Slip: reset clears the store only.                                      *)
ForgetNothing(p) == UNCHANGED processed

Forget(p) == processed' = [processed EXCEPT ![p] = EmptyCache]

-----------------------------------------------------------------------------
BackendTypeOK == /\ count \in 0..MaxTickets
                 /\ buyers \in SUBSET Purchase
                 /\ owner \in [Seats -> Purchase \cup {Nobody}]
                 /\ voided \in SUBSET Purchase
                 /\ processed \in [Process -> [Ids -> Response]]

(* The purchases that hold what they asked for.                            *)
Holders == {c \in Purchase : IF OrderOf[c].type = "unnumbered"
                             THEN c \in buyers
                             ELSE \E s \in Seats : s = OrderOf[c].seat /\ owner[s] = c}
=============================================================================
