----------------------------- MODULE TicketSale -----------------------------
(***************************************************************************)
(* What every variant of the ticket system promises, whatever transport or *)
(* store it uses: a purchase that is asked for may take one unnumbered     *)
(* ticket of a limited stock, or one numbered seat nobody holds, and it is *)
(* confirmed only when it did.  An operator may withdraw what was sold.    *)
(***************************************************************************)
EXTENDS Integers, FiniteSets

CONSTANTS Purchase,    \* the attempts to buy (one HTTP call, one delivery)
          MaxTickets,  \* the stock of unnumbered tickets
          LastSeat,    \* numbered seats are 1 .. LastSeat
          Nobody       \* the holder of a free seat

VARIABLES used,        \* how much of the unnumbered stock is gone
          buyers,      \* the purchases holding an unnumbered ticket
          owner,       \* the purchase holding each seat, or Nobody
          voided,      \* the purchases whose ticket or seat was withdrawn
          phase        \* what each purchase was told

saleVars == <<used, buyers, owner, voided, phase>>

Phase == {"new", "asked", "confirmed", "closed"}

Init == /\ used = 0
        /\ buyers = {}
        /\ owner = [s \in 1..LastSeat |-> Nobody]
        /\ voided = {}
        /\ phase = [c \in Purchase |-> "new"]

Ask(c) == /\ phase[c] = "new"
          /\ phase' = [phase EXCEPT ![c] = "asked"]
          /\ UNCHANGED <<used, buyers, owner, voided>>

(* A command whose reply gets lost and that is sent again may take more of *)
(* the stock than the one ticket its purchase holds.                       *)
SellTicket(c) == /\ phase[c] = "asked"
                 /\ used < MaxTickets
                 /\ used' = used + 1
                 /\ buyers' = buyers \cup {c}
                 /\ UNCHANGED <<owner, voided, phase>>

SellSeat(c, s) == /\ phase[c] = "asked"
                  /\ owner[s] = Nobody
                  /\ owner' = [owner EXCEPT ![s] = c]
                  /\ UNCHANGED <<used, buyers, voided, phase>>

Backed(c) == \/ c \in buyers
             \/ \E s \in 1..LastSeat : owner[s] = c
             \/ c \in voided

Confirm(c) == /\ phase[c] = "asked"
              /\ Backed(c)
              /\ phase' = [phase EXCEPT ![c] = "confirmed"]
              /\ UNCHANGED <<used, buyers, owner, voided>>

(* Any other end: an answer that confirms no sale, or none at all.         *)
Close(C) == /\ \A c \in C : phase[c] = "asked"
            /\ phase' = [d \in Purchase |-> IF d \in C THEN "closed" ELSE phase[d]]
            /\ UNCHANGED <<used, buyers, owner, voided>>

WithdrawTickets == /\ used' = 0
                   /\ buyers' = {}
                   /\ voided' = voided \cup buyers
                   /\ UNCHANGED <<owner, phase>>

WithdrawSeats(S) == /\ owner' = [s \in 1..LastSeat |->
                                    IF s \in S THEN Nobody ELSE owner[s]]
                    /\ voided' = voided \cup ({owner[s] : s \in S} \ {Nobody})
                    /\ UNCHANGED <<used, buyers, phase>>

Next == \/ \E c \in Purchase : \/ Ask(c)
                               \/ SellTicket(c)
                               \/ \E s \in 1..LastSeat : SellSeat(c, s)
                               \/ Confirm(c)
        \/ \E C \in SUBSET Purchase : Close(C)
        \/ WithdrawTickets
        \/ \E S \in SUBSET (1..LastSeat) : WithdrawSeats(S)

Spec == Init /\ [][Next]_saleVars
=============================================================================
