----------------------------- MODULE DirectApi -----------------------------
(***************************************************************************)
(* The direct (REST) variant: clients POST /buy through a load balancer to *)
(* one of several API replicas that share one Redis.  A replica runs its   *)
(* handlers one after the other: the coroutines of server.py never await,  *)
(* so a handler holds the event loop from its first line to its answer.    *)
(* Handlers of different replicas interleave at every Redis command.       *)
(*                                                                         *)
(* Redis connections can break before or after a command ran, replicas     *)
(* crash and come back with an empty processed_requests, and an operator   *)
(* can POST /reset any time.  A client that stops waiting takes no step:   *)
(* the replica never notices, and what the client sends next is one more   *)
(* call, which can come at any time.                                       *)
(***************************************************************************)
EXTENDS TicketBackend

CONSTANTS RedisRetries,  \* how often redis-py repeats a command whose connection broke
          MaxFaults,     \* bound: crashes and broken Redis connections
          MaxResets      \* bound: POST /reset calls

ASSUME BoundsAssumption == RedisRetries \in Nat /\ MaxFaults \in Nat /\ MaxResets \in Nat

VARIABLES
    up,        \* the replica's process is running
    pc,        \* where the replica's current handler is
    serving,   \* the call it handles
    sold,      \* what the Redis command returned
    tries,     \* how often the command was repeated
    todo,      \* seat keys the SCAN of a reset still has to return
    stage,     \* where each call is
    at,        \* the replica the load balancer chose for it
    outcome,   \* the response the replica made for it
    quiet,     \* no call was in progress since this replica's reset began
    blind,     \* calls for which the reply of a Redis command was lost
    forgotten, \* calls whose cached response a crash or a reset dropped
    faults,    \* how many faults happened
    resets     \* how many resets began

replicaVars == <<up, pc, serving, sold, tries, todo>>
callVars    == <<stage, at, outcome>>
auxVars     == <<quiet, blind, forgotten>>
boundVars   == <<faults, resets>>
vars == <<storeVars, processed, replicaVars, callVars, auxVars, boundVars>>

Init == /\ BackendInit
        /\ up = [r \in Process |-> TRUE]
        /\ pc = [r \in Process |-> "idle"]
        /\ serving = [r \in Process |-> Nobody]
        /\ sold = [r \in Process |-> FALSE]
        /\ tries = [r \in Process |-> 0]
        /\ todo = [r \in Process |-> {}]
        /\ stage = [c \in Purchase |-> "unsent"]
        /\ at = [c \in Purchase |-> Nobody]
        /\ outcome = [c \in Purchase |-> NoResponse]
        /\ quiet = [r \in Process |-> FALSE]
        /\ blind = {}
        /\ forgotten = {}
        /\ faults = 0
        /\ resets = 0

-----------------------------------------------------------------------------
(* Clients.  DirectClient sends a call once and waits; the same request id *)
(* comes again in another call (a caller's retry, the next run of the same *)
(* workload file).  The load balancer picks a replica that is up.          *)

Send(c, r) == /\ stage[c] = "unsent"
              /\ up[r]
              /\ stage' = [stage EXCEPT ![c] = "queued"]
              /\ at' = [at EXCEPT ![c] = r]
              /\ quiet' = [q \in Process |-> FALSE]
              /\ UNCHANGED <<storeVars, processed, replicaVars, outcome, blind,
                             forgotten, boundVars>>

-----------------------------------------------------------------------------
(* POST /buy *)

(* Slip: a handler that awaits Redis lets the next one start.              *)
ReadyAnyTime(r, c) == up[r] /\ stage[c] = "queued" /\ at[c] = r

Ready(r, c) == up[r] /\ pc[r] = "idle" /\ stage[c] = "queued" /\ at[c] = r

Malformed(c) == \/ OrderOf[c].type = "unknown"
                \/ OrderOf[c].type = "numbered" /\ OrderOf[c].seat = NoSeat

(* The handler ends: the call has its response, the replica is free.       *)
Respond(r, c, resp) == /\ outcome' = [outcome EXCEPT ![c] = resp]
                       /\ stage' = [stage EXCEPT ![c] = "done"]
                       /\ pc' = [pc EXCEPT ![r] = "idle"]
                       /\ serving' = [serving EXCEPT ![r] = Nobody]
                       /\ sold' = [sold EXCEPT ![r] = FALSE]
                       /\ tries' = [tries EXCEPT ![r] = 0]
                       /\ UNCHANGED <<up, todo, at, quiet, forgotten, resets>>

(* HTTP 400, before the ticket manager is asked.                           *)
RejectMalformed(r, c) == /\ Ready(r, c)
                         /\ Malformed(c)
                         /\ Respond(r, c, [status |-> "invalid", seat |-> NoSeat])
                         /\ UNCHANGED <<storeVars, processed, blind, faults>>

(* Slip: a duplicate is answered with the seat it asks for, not the cached *)
(* one.                                                                    *)
AnswerWithOwnSeat(r, c) ==
    /\ Ready(r, c)
    /\ ~Malformed(c)
    /\ Cached(r, c)
    /\ Respond(r, c, DuplicateOf(Answer(c, TRUE)))
    /\ UNCHANGED <<storeVars, processed, blind, faults>>

AnswerDuplicate(r, c) == /\ Ready(r, c)
                         /\ ~Malformed(c)
                         /\ Cached(r, c)
                         /\ Respond(r, c, DuplicateOf(processed[r][OrderOf[c].id]))
                         /\ UNCHANGED <<storeVars, processed, blind, faults>>

(* Seat out of range: refused without a Redis command, and cached.         *)
RefuseOutOfRange(r, c) == /\ Ready(r, c)
                          /\ ~Malformed(c)
                          /\ ~Cached(r, c)
                          /\ ~NeedsStore(c)
                          /\ Remember(r, c, Failure)
                          /\ Respond(r, c, Failure)
                          /\ UNCHANGED <<storeVars, blind, faults>>

BeginPurchase(r, c) == /\ Ready(r, c)
                       /\ ~Malformed(c)
                       /\ ~Cached(r, c)
                       /\ NeedsStore(c)
                       /\ stage' = [stage EXCEPT ![c] = "serving"]
                       /\ serving' = [serving EXCEPT ![r] = c]
                       /\ pc' = [pc EXCEPT ![r] = "command"]
                       /\ UNCHANGED <<storeVars, processed, up, sold, tries, todo, at, outcome,
                                      auxVars, boundVars>>

(* Redis runs the command of the handler's call.                           *)
Execute(r) == /\ pc[r] = "command"
              /\ \E granted \in BOOLEAN :
                    /\ RunCommand(serving[r], granted)
                    /\ sold' = [sold EXCEPT ![r] = granted]
              /\ pc' = [pc EXCEPT ![r] = "reply"]
              /\ UNCHANGED <<processed, up, serving, tries, todo, callVars, auxVars,
                             boundVars>>

(* The reply arrives: buy_ticket caches the response and returns it.       *)
Finish(r) == /\ pc[r] = "reply"
             /\ Remember(r, serving[r], Answer(serving[r], sold[r]))
             /\ Respond(r, serving[r], Answer(serving[r], sold[r]))
             /\ UNCHANGED <<storeVars, blind, faults>>

-----------------------------------------------------------------------------
(* POST /reset *)

BeginReset(r) == /\ up[r] /\ pc[r] = "idle"
                 /\ resets < MaxResets
                 /\ resets' = resets + 1
                 /\ pc' = [pc EXCEPT ![r] = "del"]
                 /\ quiet' = [quiet EXCEPT ![r] =
                                 \A c \in Purchase : stage[c] \in {"unsent", "done"}]
                 /\ UNCHANGED <<storeVars, processed, up, serving, sold, tries, todo,
                                callVars, blind, forgotten, faults>>

(* Slip: the SCAN loop waits for keys that were never there.               *)
ResetCounterAllSeats(r) == /\ pc[r] = "del"
                           /\ DeleteCounter
                           /\ pc' = [pc EXCEPT ![r] = "scan"]
                           /\ todo' = [todo EXCEPT ![r] = Seats]
                           /\ UNCHANGED <<processed, up, serving, sold, tries, callVars,
                                          auxVars, boundVars>>

(* DEL of the counter; the SCAN loop begins.  SCAN is only sure to return  *)
(* the keys that are there from its start to its end.                      *)
ResetCounter(r) == /\ pc[r] = "del"
                   /\ DeleteCounter
                   /\ pc' = [pc EXCEPT ![r] = "scan"]
                   /\ todo' = [todo EXCEPT ![r] = SoldSeats]
                   /\ UNCHANGED <<processed, up, serving, sold, tries, callVars, auxVars,
                                  boundVars>>

(* One turn of the loop: SCAN returns some keys, DEL removes them.         *)
ResetBatch(r) == /\ pc[r] = "scan"
                 /\ \E K \in SUBSET SoldSeats :
                       /\ K \cap todo[r] # {}
                       /\ DeleteSeats(K)
                       /\ todo' = [q \in Process |-> todo[q] \ K]
                 /\ UNCHANGED <<processed, up, pc, serving, sold, tries, callVars, auxVars,
                                boundVars>>

(* Slip: one SCAN call instead of the loop.                                *)
FinishAfterOneScan(r) ==
    /\ pc[r] = "scan"
    /\ \E K \in SUBSET SoldSeats :
          /\ DeleteSeats(K)
          /\ todo' = [q \in Process |-> todo[q] \ K]
    /\ Forget(r)
    /\ forgotten' = forgotten \cup {c \in Purchase : at[c] = r /\ stage[c] = "done"}
    /\ pc' = [pc EXCEPT ![r] = "idle"]
    /\ quiet' = [quiet EXCEPT ![r] = FALSE]
    /\ UNCHANGED <<up, serving, sold, tries, callVars, blind, boundVars>>

(* The turn whose cursor is 0; then processed_requests.clear().            *)
FinishReset(r) == /\ pc[r] = "scan"
                  /\ \E K \in SUBSET SoldSeats :
                        /\ todo[r] \subseteq K
                        /\ DeleteSeats(K)
                        /\ todo' = [q \in Process |-> todo[q] \ K]
                  /\ Forget(r)
                  /\ forgotten' = forgotten \cup {c \in Purchase : at[c] = r /\ stage[c] = "done"}
                  /\ pc' = [pc EXCEPT ![r] = "idle"]
                  /\ quiet' = [quiet EXCEPT ![r] = FALSE]
                  /\ UNCHANGED <<up, serving, sold, tries, callVars, blind, boundVars>>

-----------------------------------------------------------------------------
(* Faults *)

(* The Redis connection breaks.  redis-py repeats the command, whether or  *)
(* not it already ran, or raises: buy_ticket then caches nothing and       *)
(* FastAPI answers 500.                                                    *)
BreakConnection(r) ==
    /\ pc[r] \in {"command", "reply"}
    /\ faults < MaxFaults
    /\ faults' = faults + 1
    /\ blind' = IF pc[r] = "reply" THEN blind \cup {serving[r]} ELSE blind
    /\ \/ /\ tries[r] < RedisRetries
          /\ tries' = [tries EXCEPT ![r] = tries[r] + 1]
          /\ pc' = [pc EXCEPT ![r] = "command"]
          /\ sold' = [sold EXCEPT ![r] = FALSE]
          /\ UNCHANGED <<up, serving, todo, callVars, quiet, forgotten, resets>>
       \/ /\ tries[r] = RedisRetries
          /\ Respond(r, serving[r], [status |-> "error", seat |-> NoSeat])
    /\ UNCHANGED <<storeVars, processed>>

(* The same during a reset: what is deleted stays deleted, the cache stays.*)
BreakReset(r) == /\ pc[r] \in {"del", "scan"}
                 /\ faults < MaxFaults
                 /\ faults' = faults + 1
                 /\ pc' = [pc EXCEPT ![r] = "idle"]
                 /\ todo' = [todo EXCEPT ![r] = {}]
                 /\ quiet' = [quiet EXCEPT ![r] = FALSE]
                 /\ UNCHANGED <<storeVars, processed, up, serving, sold, tries, callVars,
                                blind, forgotten, resets>>

(* A replica dies: its calls fail at their clients, its cache is gone.     *)
Crash(r) ==
    LET cut == {c \in Purchase : at[c] = r /\ stage[c] \in {"queued", "serving"}}
    IN  /\ up[r]
        /\ faults < MaxFaults
        /\ faults' = faults + 1
        /\ up' = [up EXCEPT ![r] = FALSE]
        /\ pc' = [pc EXCEPT ![r] = "idle"]
        /\ serving' = [serving EXCEPT ![r] = Nobody]
        /\ sold' = [sold EXCEPT ![r] = FALSE]
        /\ tries' = [tries EXCEPT ![r] = 0]
        /\ todo' = [todo EXCEPT ![r] = {}]
        /\ stage' = [c \in Purchase |-> IF c \in cut THEN "done" ELSE stage[c]]
        /\ Forget(r)
        /\ forgotten' = forgotten \cup {c \in Purchase : at[c] = r /\ stage[c] = "done"}
        /\ quiet' = [quiet EXCEPT ![r] = FALSE]
        /\ UNCHANGED <<storeVars, at, outcome, blind, resets>>

(* restart: unless-stopped                                                 *)
Restart(r) == /\ ~up[r]
              /\ up' = [up EXCEPT ![r] = TRUE]
              /\ UNCHANGED <<storeVars, processed, pc, serving, sold, tries, todo, callVars,
                             auxVars, boundVars>>

-----------------------------------------------------------------------------
Handle(r) == \/ \E c \in Purchase : \/ RejectMalformed(r, c)
                                    \/ AnswerDuplicate(r, c)
                                    \/ RefuseOutOfRange(r, c)
                                    \/ BeginPurchase(r, c)
             \/ Execute(r)
             \/ Finish(r)
             \/ ResetCounter(r)
             \/ ResetBatch(r)
             \/ FinishReset(r)

Fault(r) == BreakConnection(r) \/ BreakReset(r) \/ Crash(r)

Next == \E r \in Process : \/ \E c \in Purchase : Send(c, r)
                           \/ Handle(r)
                           \/ BeginReset(r)
                           \/ Fault(r)
                           \/ Restart(r)

Spec == Init /\ [][Next]_vars

(* A replica goes on with the calls it has, and is restarted when it dies. *)
Fairness == \A r \in Process : WF_vars(Handle(r)) /\ WF_vars(Restart(r))

FairSpec == Spec /\ Fairness

-----------------------------------------------------------------------------
(* Properties *)

TypeOK == /\ BackendTypeOK
          /\ up \in [Process -> BOOLEAN]
          /\ pc \in [Process -> {"idle", "command", "reply", "del", "scan"}]
          /\ serving \in [Process -> Purchase \cup {Nobody}]
          /\ sold \in [Process -> BOOLEAN]
          /\ tries \in [Process -> 0..RedisRetries]
          /\ todo \in [Process -> SUBSET Seats]
          /\ stage \in [Purchase -> {"unsent", "queued", "serving", "done"}]
          /\ at \in [Purchase -> Process \cup {Nobody}]
          /\ outcome \in [Purchase -> Response]
          /\ quiet \in [Process -> BOOLEAN]
          /\ blind \in SUBSET Purchase
          /\ forgotten \in SUBSET Purchase
          /\ faults \in 0..MaxFaults
          /\ resets \in 0..MaxResets

Confirmed(c) == outcome[c].status = "success" /\ c \notin voided

(* Clients are never told of more unnumbered tickets than the stock has,   *)
(* nor two of them of the same seat, whichever replicas answered, unless a *)
(* reset withdrew the sale in between (increment_unnumbered,               *)
(* set_numbered_seat).                                                     *)
NoDoubleSale ==
    /\ Cardinality({c \in Purchase : Confirmed(c) /\ OrderOf[c].type = "unnumbered"})
          <= MaxTickets
    /\ \A c, d \in Purchase :
          /\ Confirmed(c) /\ OrderOf[c].type = "numbered"
          /\ Confirmed(d) /\ OrderOf[d].type = "numbered"
          /\ OrderOf[c].seat = OrderOf[d].seat
          => c = d

(* Who got a ticket or seat is not answered FAILED or DUPLICATE: a sale    *)
(* stays untold only when a Redis reply was lost or the replica crashed.   *)
NoSilentSale ==
    \A c \in Holders : \/ \E r \in Process : serving[r] = c
                       \/ outcome[c].status = "success"
                       \/ stage[c] = "done" /\ outcome[c] = NoResponse
                       \/ c \in blind

(* One replica runs the purchase of a request id once, as long as it keeps *)
(* its processed_requests and buy_ticket does not raise.                   *)
SameReplicaIdempotent ==
    \A c, d \in Purchase :
        /\ c # d
        /\ OrderOf[c].id = OrderOf[d].id
        /\ stage[c] = "done" /\ stage[d] = "done"
        /\ at[c] = at[d]
        /\ outcome[c].status \in {"success", "failed"}
        /\ outcome[d].status \in {"success", "failed"}
        => c \in forgotten \/ d \in forgotten

(* A DUPLICATE answer repeats the seat of a call with that request id that *)
(* the same replica answered itself.                                       *)
DuplicateIsGenuine ==
    \A c \in Purchase :
        outcome[c].status = "duplicate" =>
            \E d \in Purchase : /\ OrderOf[d].id = OrderOf[c].id
                                /\ at[d] = at[c]
                                /\ outcome[d].status \in {"success", "failed"}
                                /\ outcome[d].seat = outcome[c].seat

(* The step in which the handler of a reset returns its answer.            *)
ResetReturns(r) == pc[r] = "scan" /\ pc'[r] = "idle" /\ up'[r] /\ faults' = faults

(* A cached response is never replaced: it stays until the replica crashes *)
(* or answers a reset.                                                     *)
CacheKept == \A r \in Process, i \in Ids :
                processed[r][i] # NoResponse =>
                    \/ processed'[r][i] = processed[r][i]
                    \/ processed'[r] = EmptyCache /\ (~up'[r] \/ ResetReturns(r))

CacheWriteOnce == [][CacheKept]_vars

(* When a reset answers and nothing was being bought meanwhile, Redis and  *)
(* this replica's cache are as at the start, whatever the SCAN returned    *)
(* when and whatever other resets did (server.py:124, as far as it holds). *)
QuietlyCleared == \A r \in Process :
                     ResetReturns(r) /\ quiet[r] => /\ count' = 0
                                                    /\ \A s \in Seats : owner'[s] = Nobody
                                                    /\ processed'[r] = EmptyCache

QuietResetClears == [][QuietlyCleared]_vars

(* Every call that reached a replica ends: with a response or, when the    *)
(* replica crashed, with a connection error.                               *)
CallsSettle == \A c \in Purchase : stage[c] = "queued" ~> stage[c] = "done"

(* The REST variant keeps the promise of TicketSale.                       *)
PhaseOf(st, status) == CASE st = "unsent" -> "new"
                         [] st = "done" /\ status = "success" -> "confirmed"
                         [] st = "done" /\ status # "success" -> "closed"
                         [] OTHER -> "asked"

SalePhase == [c \in Purchase |-> PhaseOf(stage[c], outcome[c].status)]

Sale == INSTANCE TicketSale WITH used <- count, phase <- SalePhase

ImplementsSale == Sale!Spec

-----------------------------------------------------------------------------
(* The inductive invariant.  Each part says what one component has to keep *)
(* straight for the properties above to survive the next step.             *)

(* A replica handles at most one call, a call sits at one replica, and the *)
(* purchase of a cached request id is never begun.                         *)
ServingOK ==
    \A r \in Process :
        /\ pc[r] # "idle" => up[r]
        /\ pc[r] \in {"command", "reply"} <=> serving[r] # Nobody
        /\ serving[r] # Nobody => /\ stage[serving[r]] = "serving"
                                  /\ at[serving[r]] = r
                                  /\ NeedsStore(serving[r])
                                  /\ ~Cached(r, serving[r])
        /\ sold[r] => pc[r] = "reply"

CallsOK == \A c \in Purchase : /\ stage[c] # "unsent" => at[c] \in Process
                               /\ stage[c] # "done" => outcome[c] = NoResponse

(* The store holds sales of the right kind, and no more than it counted.   *)
StoreOK == /\ \A c \in buyers : OrderOf[c].type = "unnumbered"
           /\ \A s \in Seats : owner[s] # Nobody =>
                 OrderOf[owner[s]].type = "numbered" /\ OrderOf[owner[s]].seat = s
           /\ Cardinality(buyers) <= count

(* Whoever was told "sold", or will be, holds the ticket or lost it again. *)
SalesBacked ==
    /\ \A c \in Purchase : outcome[c].status = "success" => c \in Holders \/ c \in voided
    /\ \A r \in Process : sold[r] => serving[r] \in Holders \/ serving[r] \in voided

SalesTold ==
    \A c \in Holders : \/ \E r \in Process : serving[r] = c /\ sold[r]
                       \/ outcome[c].status = "success"
                       \/ stage[c] = "done" /\ outcome[c] = NoResponse
                       \/ c \in blind

Ran(c) == stage[c] = "done" /\ outcome[c].status \in {"success", "failed"}

(* The cache of a replica is its answers, less the forgotten ones.         *)
CacheOK ==
    /\ \A r \in Process, i \in Ids :
          processed[r][i] # NoResponse =>
              \E c \in Purchase : /\ Ran(c) /\ at[c] = r /\ OrderOf[c].id = i
                                  /\ outcome[c] = processed[r][i]
    /\ \A c \in Purchase :
          Ran(c) /\ c \notin forgotten => processed[at[c]][OrderOf[c].id] = outcome[c]

(* A reset that nothing disturbed has left to delete what SCAN still owes. *)
QuietOK ==
    \A r \in Process :
        quiet[r] => /\ \A c \in Purchase : stage[c] \in {"unsent", "done"}
                    /\ pc[r] = "scan" => count = 0 /\ SoldSeats \subseteq todo[r]

IInv == /\ TypeOK /\ ServingOK /\ CallsOK /\ StoreOK /\ SalesBacked /\ SalesTold
        /\ CacheOK /\ SameReplicaIdempotent /\ DuplicateIsGenuine /\ QuietOK

-----------------------------------------------------------------------------
(* What the repository says of the program and the code does not keep.     *)

(* server.py:124 of POST /reset: "All ticket state cleared".               *)
ResetClearsEveryCache ==
    [][\A r \in Process :
          ResetReturns(r) /\ quiet[r] => \A q \in Process : processed'[q] = EmptyCache]_vars
=============================================================================
