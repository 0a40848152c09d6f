--------------------------- MODULE LambdaHandler ---------------------------
(***************************************************************************)
(* The AWS variant from the SQS queue on: SQS hands a batch of records to  *)
(* a Lambda environment, whose handler processes them one after the other  *)
(* with TicketProcessor.  When one of them raises, the whole batch goes    *)
(* back to the queue; a record that was received too often goes to the     *)
(* dead-letter queue.  The handler's result names no failed records, so a  *)
(* batch that returns is deleted.                                          *)
(***************************************************************************)
EXTENDS TicketProcessor, SequencesExt

CONSTANTS BatchSize,    \* records per invocation
          MaxReceives,  \* max_receive_count of the queue
          MaxFaults     \* bound: invocations that die, connections that break

ASSUME InvocationAssumption ==
    BatchSize \in Nat \ {0} /\ MaxReceives \in Nat \ {0} /\ MaxFaults \in Nat

VARIABLES place,     \* where each record is
          receives,  \* its receive count
          batch,     \* the records of each environment's invocation
          next,      \* the position of the record its handler processes
          told,      \* how often process returned "success" for each record
          faults     \* how many faults happened

handlerVars == <<place, receives, batch, next, told, faults>>
vars == <<tableVars, txVars, handlerVars>>

Init == /\ TablesInit
        /\ place = [m \in Record |-> "unsent"]
        /\ receives = [m \in Record |-> 0]
        /\ batch = [e \in Env |-> <<>>]
        /\ next = [e \in Env |-> 1]
        /\ told = [m \in Record |-> 0]
        /\ faults = 0

Members(e) == {batch[e][k] : k \in 1..Len(batch[e])}

Move(M, to) == place' = [m \in Record |-> IF m \in M THEN to ELSE place[m]]

-----------------------------------------------------------------------------
(* SQS *)

(* The forwarder's send_message_batch.                                     *)
Arrive(m) == /\ place[m] = "unsent"
             /\ Move({m}, "queued")
             /\ UNCHANGED <<tableVars, txVars, receives, batch, next, told, faults>>

(* A batch of waiting records, in any order, to an environment that is     *)
(* free.                                                                   *)
Invoke(e) ==
    /\ batch[e] = <<>>
    /\ \E M \in SUBSET {m \in Record : place[m] = "queued" /\ receives[m] < MaxReceives} :
          /\ M # {} /\ Cardinality(M) <= BatchSize
          /\ \E b \in SetToSeqs(M) : batch' = [batch EXCEPT ![e] = b]
          /\ Move(M, "inflight")
          /\ receives' = [m \in Record |-> IF m \in M THEN receives[m] + 1 ELSE receives[m]]
    /\ UNCHANGED <<tableVars, txVars, next, told, faults>>

DeadLetter(m) == /\ place[m] = "queued" /\ receives[m] = MaxReceives
                 /\ Move({m}, "dead")
                 /\ UNCHANGED <<tableVars, txVars, receives, batch, next, told, faults>>

-----------------------------------------------------------------------------
(* lambda_handler *)

Current(e) == batch[e][next[e]]

(* The invocation ends with an error: the batch is visible again.          *)
Fail(e) == /\ Move(Members(e), "queued")
           /\ batch' = [batch EXCEPT ![e] = <<>>]
           /\ next' = [next EXCEPT ![e] = 1]
           /\ Discard(e)
           /\ UNCHANGED <<tableVars, receives, told>>

(* json.loads raises.                                                      *)
Unparsable(e) == /\ pc[e] = "idle" /\ next[e] <= Len(batch[e])
                 /\ OrderOf[Current(e)].type = "unparsable"
                 /\ Fail(e)
                 /\ UNCHANGED faults

BeginRecord(e) == /\ pc[e] = "idle" /\ next[e] <= Len(batch[e])
                  /\ OrderOf[Current(e)].type # "unparsable"
                  /\ Process(e, Current(e))
                  /\ UNCHANGED <<tableVars, handlerVars>>

RunStatement(e) == Statement(e) /\ UNCHANGED handlerVars

(* process returns; the metric TicketSold counts a success.                *)
EndRecord(e) == /\ pc[e] = "return"
                /\ told' = IF result[e] = "success"
                           THEN [told EXCEPT ![job[e]] = @ + 1] ELSE told
                /\ next' = [next EXCEPT ![e] = @ + 1]
                /\ Discard(e)
                /\ UNCHANGED <<tableVars, place, receives, batch, faults>>

(* Slip: the exception is counted and not raised again.                    *)
SwallowViolation(e) == /\ Refused(e)
                       /\ next' = [next EXCEPT ![e] = @ + 1]
                       /\ Discard(e)
                       /\ UNCHANGED <<tableVars, place, receives, batch, told, faults>>

(* A unique violation: _tx rolls back, the handler raises it again.        *)
RaiseViolation(e) == /\ Refused(e)
                     /\ Fail(e)
                     /\ UNCHANGED faults

(* The handler returns; the poller deletes the batch.                      *)
FinishBatch(e) == /\ batch[e] # <<>> /\ next[e] > Len(batch[e])
                  /\ Move(Members(e), "deleted")
                  /\ batch' = [batch EXCEPT ![e] = <<>>]
                  /\ next' = [next EXCEPT ![e] = 1]
                  /\ UNCHANGED <<tableVars, txVars, receives, told, faults>>

(* The connection breaks, before or after COMMIT ran, or the invocation    *)
(* times out or dies, anywhere: PostgreSQL rolls back what is open.        *)
Interrupt(e) == /\ batch[e] # <<>>
                /\ faults < MaxFaults
                /\ faults' = faults + 1
                /\ Fail(e)

-----------------------------------------------------------------------------
Run(e) == \/ Invoke(e)
          \/ Unparsable(e)
          \/ BeginRecord(e)
          \/ RunStatement(e)
          \/ EndRecord(e)
          \/ RaiseViolation(e)
          \/ FinishBatch(e)

Next == \/ \E m \in Record : Arrive(m) \/ DeadLetter(m)
        \/ \E e \in Env : Run(e) \/ Interrupt(e)

Spec == Init /\ [][Next]_vars

-----------------------------------------------------------------------------
(* Properties *)

TypeOK == /\ TablesTypeOK
          /\ place \in [Record -> {"unsent", "queued", "inflight", "deleted", "dead"}]
          /\ receives \in [Record -> 0..MaxReceives]
          /\ batch \in [Env -> BoundedSeq(Record, BatchSize)]
          /\ next \in [Env -> 1..BatchSize + 1]
          /\ told \in [Record -> Nat]
          /\ faults \in 0..MaxFaults

(* However often the records of a request id are delivered, and to however *)
(* many environments at once, one processing at most returns success, and  *)
(* the row in PostgreSQL says so too (the idempotency check and the unique *)
(* request_id together; neither is enough).                                *)
SoldToOneRecord ==
    \A m \in Record : told[m] > 0 =>
        /\ told[m] = 1
        /\ rows[OrderOf[m].id].status = "success" /\ rows[OrderOf[m].id].by = m
        /\ \A n \in Record \ {m} : OrderOf[n].id = OrderOf[m].id => told[n] = 0

(* The locks an open transaction may have to wait for: the counter row,    *)
(* and a key that another one has inserted.                                *)
Waits(e) == \/ pc[e] = "update" /\ \E f \in Env \ {e} : HoldsCounter(f)
            \/ pc[e] = "insert" /\ ~Ready(e)

(* While records are being processed one of them can go on: transactions   *)
(* that hold the counter, the key of a request or a seat never wait for    *)
(* one another in a circle (ticket_processor.py:55-73, 88-111).            *)
NoStandstill ==
    \/ \A e \in Env : pc[e] = "idle"
    \/ \E e \in Env : pc[e] # "idle" /\ ~Waits(e)

(* A record leaves the queue for good only with a verdict: PostgreSQL has  *)
(* a row of its request id, unless the request is invalid.                 *)
DeletedIsDecided ==
    \A m \in Record :
        place[m] = "deleted" => Invalid(m) \/ rows[OrderOf[m].id] # NoRow

(* Every record is deleted or dead-lettered: no transactions wait for each *)
(* other, and what cannot be processed does not come back forever.         *)
RecordsSettle == \A m \in Record : place[m] = "queued" ~> place[m] \in {"deleted", "dead"}

(* PostgreSQL and the handler keep the promise of TicketSale.              *)
SalePhase ==
    [m \in Record |-> CASE place[m] = "unsent" -> "new"
                        [] told[m] > 0 -> "confirmed"
                        [] told[m] = 0 /\ place[m] \in {"deleted", "dead"} -> "closed"
                        [] OTHER -> "asked"]

Buyers == {rows[i].by : i \in {j \in Ids : /\ rows[j].status = "success"
                                           /\ rows[j].type = "unnumbered"}}

Owner == [s \in Seats |-> LET at == {i \in Ids : SoldSeat(rows[i], s)}
                          IN  IF at = {} THEN Nobody ELSE rows[CHOOSE i \in at : TRUE].by]

Sale == INSTANCE TicketSale WITH Purchase <- Record, MaxTickets <- MaxUnnumbered,
                                 LastSeat <- MaxSeats, used <- sold, buyers <- Buyers,
                                 owner <- Owner, voided <- {}, phase <- SalePhase

ImplementsSale == Sale!Spec

=============================================================================
