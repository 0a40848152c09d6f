--------------------------- MODULE IndirectQueue ---------------------------
(***************************************************************************)
(* The indirect (queue) variant: producers publish purchases to the        *)
(* ticket_purchases queue of RabbitMQ, workers take one message at a time, *)
(* buy at the Redis they share, publish the response to ticket_responses   *)
(* and acknowledge.  What cannot be processed goes to the dead-letter      *)
(* queue.                                                                  *)
(*                                                                         *)
(* A message may be in the queue in several copies: it was published again *)
(* after a failed flush.  RabbitMQ hands a copy out again when the channel *)
(* it was delivered on closes, even while the worker, which finds out only *)
(* at its next AMQP call, still works on it.  Such a worker ends, and its  *)
(* container starts it again with an empty processed_requests.             *)
(***************************************************************************)
EXTENDS TicketBackend

CONSTANTS RedisRetries,  \* how often redis-py repeats a command whose connection broke
          MaxCopies,     \* bound: how often each message is published
          MaxFaults      \* bound: crashes and broken connections

ASSUME QueueBoundsAssumption ==
    RedisRetries \in Nat /\ MaxCopies \in [Purchase -> Nat] /\ MaxFaults \in Nat

ASSUME WorkersAssumption == IsFiniteSet(Process)

VARIABLES
    pc,          \* where each worker is in _process_message
    serving,     \* the message it processes
    reply,       \* the response it has made for it
    tries,       \* how often it repeated the Redis command
    linked,      \* its channel to RabbitMQ is open
    published,   \* how often each message was published
    ready,       \* its copies waiting in ticket_purchases
    acked,       \* its copies acknowledged
    dead,        \* its copies in ticket_dlq
    responses,   \* how many responses of each status ticket_responses got for it
    interrupted, \* messages bought by a worker that could not say so
    faults       \* how many faults happened

workerVars == <<pc, serving, reply, tries, linked>>
queueVars  == <<published, ready, acked, dead, responses>>
vars == <<storeVars, processed, workerVars, queueVars, interrupted, faults>>

Status == {"success", "failed", "duplicate"}

(* The workers W are connected and consume.                                *)
StartWith(W) ==
        /\ BackendInit
        /\ pc = [w \in Process |-> IF w \in W THEN "idle" ELSE "off"]
        /\ serving = [w \in Process |-> Nobody]
        /\ reply = [w \in Process |-> NoResponse]
        /\ tries = [w \in Process |-> 0]
        /\ linked = [w \in Process |-> w \in W]
        /\ published = [m \in Purchase |-> 0]
        /\ ready = [m \in Purchase |-> 0]
        /\ acked = [m \in Purchase |-> 0]
        /\ dead = [m \in Purchase |-> 0]
        /\ responses = [m \in Purchase |-> [s \in Status |-> 0]]
        /\ interrupted = {}
        /\ faults = 0

Init == StartWith(Process)

One(f, m) == [f EXCEPT ![m] = f[m] + 1]

-----------------------------------------------------------------------------
(* The queue *)

(* basic_publish of a producer: the first one, or one more because the     *)
(* flush that sent it failed midway and the whole buffer is flushed again. *)
Publish(m) == /\ published[m] < MaxCopies[m]
              /\ published' = One(published, m)
              /\ ready' = One(ready, m)
              /\ UNCHANGED <<storeVars, processed, workerVars, acked, dead, responses,
                             interrupted, faults>>

(* x-message-ttl with x-dead-letter-exchange                               *)
Expire(m) == /\ ready[m] > 0
             /\ ready' = [ready EXCEPT ![m] = ready[m] - 1]
             /\ dead' = One(dead, m)
             /\ UNCHANGED <<storeVars, processed, workerVars, published, acked, responses,
                            interrupted, faults>>

(* Slip: auto_ack=True, with the explicit ack kept.                        *)
DeliverAutoAck(w, m) == /\ pc[w] = "idle" /\ linked[w]
                        /\ ready[m] > 0
                        /\ ready' = [ready EXCEPT ![m] = ready[m] - 1]
                        /\ acked' = One(acked, m)
                        /\ pc' = [pc EXCEPT ![w] = "received"]
                        /\ serving' = [serving EXCEPT ![w] = m]
                        /\ UNCHANGED <<storeVars, processed, reply, tries, linked,
                                       published, dead, responses, interrupted, faults>>

(* prefetch_count = 1: only a worker without an unacknowledged message.    *)
Deliver(w, m) == /\ pc[w] = "idle" /\ linked[w]
                 /\ ready[m] > 0
                 /\ ready' = [ready EXCEPT ![m] = ready[m] - 1]
                 /\ pc' = [pc EXCEPT ![w] = "received"]
                 /\ serving' = [serving EXCEPT ![w] = m]
                 /\ UNCHANGED <<storeVars, processed, reply, tries, linked, published,
                                acked, dead, responses, interrupted, faults>>

-----------------------------------------------------------------------------
(* _process_message *)

Malformed(m) == OrderOf[m].type = "unknown"

(* The handler is done with its message.                                   *)
Release(w) == /\ pc' = [pc EXCEPT ![w] = "idle"]
              /\ serving' = [serving EXCEPT ![w] = Nobody]
              /\ reply' = [reply EXCEPT ![w] = NoResponse]
              /\ tries' = [tries EXCEPT ![w] = 0]

(* The worker's process ends.                                              *)
End(w) == /\ pc' = [pc EXCEPT ![w] = "off"]
          /\ serving' = [serving EXCEPT ![w] = Nobody]
          /\ reply' = [reply EXCEPT ![w] = NoResponse]
          /\ tries' = [tries EXCEPT ![w] = 0]
          /\ linked' = [linked EXCEPT ![w] = FALSE]
          /\ Forget(w)

(* The except branch: nack without requeue.  On a closed channel basic_nack*)
(* raises too, which ends start_consuming and with it the process.         *)
Reject(w) == \/ /\ linked[w]
                /\ dead' = One(dead, serving[w])
                /\ Release(w)
                /\ UNCHANGED <<processed, linked>>
             \/ /\ ~linked[w]
                /\ End(w)
                /\ UNCHANGED dead

(* Slip: requeue=True.                                                     *)
RequeueMalformed(w) == /\ pc[w] = "received"
                       /\ Malformed(serving[w])
                       /\ linked[w]
                       /\ ready' = One(ready, serving[w])
                       /\ Release(w)
                       /\ UNCHANGED <<storeVars, processed, linked, published, acked, dead,
                                      responses, interrupted, faults>>

RejectMalformed(w) == /\ pc[w] = "received"
                      /\ Malformed(serving[w])
                      /\ Reject(w)
                      /\ UNCHANGED <<storeVars, published, ready, acked, responses,
                                     interrupted, faults>>

Respond(w, resp) == /\ reply' = [reply EXCEPT ![w] = resp]
                    /\ pc' = [pc EXCEPT ![w] = "respond"]
                    /\ UNCHANGED <<serving, tries, linked, queueVars, interrupted, faults>>

AnswerDuplicate(w) == /\ pc[w] = "received"
                      /\ ~Malformed(serving[w])
                      /\ Cached(w, serving[w])
                      /\ Respond(w, DuplicateOf(processed[w][OrderOf[serving[w]].id]))
                      /\ UNCHANGED <<storeVars, processed>>

(* No seat, or one out of range: refused without a Redis command, cached.  *)
RefuseSeat(w) == /\ pc[w] = "received"
                 /\ ~Malformed(serving[w])
                 /\ ~Cached(w, serving[w])
                 /\ ~NeedsStore(serving[w])
                 /\ Remember(w, serving[w], Failure)
                 /\ Respond(w, Failure)
                 /\ UNCHANGED storeVars

(* Slip: the response is cached before the store has answered.             *)
ExecuteWithCache(w) ==
    /\ pc[w] = "received"
    /\ ~Cached(w, serving[w])
    /\ NeedsStore(serving[w])
    /\ \E granted \in BOOLEAN :
          /\ RunCommand(serving[w], granted)
          /\ reply' = [reply EXCEPT ![w] = Answer(serving[w], granted)]
    /\ Remember(w, serving[w], Answer(serving[w], TRUE))
    /\ pc' = [pc EXCEPT ![w] = "reply"]
    /\ UNCHANGED <<serving, tries, linked, queueVars, interrupted, faults>>

(* Redis runs the command.                                                 *)
Execute(w) == /\ pc[w] = "received"
              /\ ~Cached(w, serving[w])
              /\ NeedsStore(serving[w])
              /\ \E granted \in BOOLEAN :
                    /\ RunCommand(serving[w], granted)
                    /\ reply' = [reply EXCEPT ![w] = Answer(serving[w], granted)]
              /\ pc' = [pc EXCEPT ![w] = "reply"]
              /\ UNCHANGED <<processed, serving, tries, linked, queueVars, interrupted,
                             faults>>

(* Its reply arrives: buy_ticket caches the response and returns it.       *)
Finish(w) == /\ pc[w] = "reply"
             /\ Remember(w, serving[w], reply[w])
             /\ Respond(w, reply[w])
             /\ UNCHANGED storeVars

PublishResponse(w) ==
    /\ pc[w] = "respond" /\ linked[w]
    /\ responses' = [responses EXCEPT ![serving[w]] = One(@, reply[w].status)]
    /\ pc' = [pc EXCEPT ![w] = "ack"]
    /\ UNCHANGED <<storeVars, processed, serving, reply, tries, linked, published, ready,
                   acked, dead, interrupted, faults>>

(* Slip: the ack does not wait for the response.                           *)
AckAtOnce(w) == /\ pc[w] \in {"respond", "ack"} /\ linked[w]
                /\ acked' = One(acked, serving[w])
                /\ Release(w)
                /\ UNCHANGED <<storeVars, processed, linked, published, ready, dead,
                               responses, interrupted, faults>>

Ack(w) == /\ pc[w] = "ack" /\ linked[w]
          /\ acked' = One(acked, serving[w])
          /\ Release(w)
          /\ UNCHANGED <<storeVars, processed, linked, published, ready, dead, responses,
                         interrupted, faults>>

(* A worker that holds a sale nobody has been told of.                     *)
Untold(w) == pc[w] \in {"reply", "respond"} /\ reply[w].status = "success"

(* The worker finds its channel closed.  While it consumes, start_consuming*)
(* raises; in the handler the publish is skipped or raises, the ack raises,*)
(* and so does the nack of the except branch.                              *)
GiveUp(w) == /\ pc[w] \in {"idle", "respond", "ack"} /\ ~linked[w]
             /\ interrupted' = IF Untold(w) THEN interrupted \cup {serving[w]}
                                            ELSE interrupted
             /\ End(w)
             /\ UNCHANGED <<storeVars, queueVars, faults>>

-----------------------------------------------------------------------------
(* Faults *)

(* RabbitMQ takes back what the worker has not acknowledged.               *)
Requeue(w) == ready' = IF linked[w] /\ serving[w] # Nobody
                       THEN One(ready, serving[w]) ELSE ready

(* The channel closes: a network failure, a missed heartbeat, a broker     *)
(* restart.  The worker does not know yet.                                 *)
CloseChannel(w) == /\ linked' = [linked EXCEPT ![w] = FALSE]
                   /\ Requeue(w)
                   /\ UNCHANGED <<storeVars, processed, pc, serving, reply, tries, published,
                                  acked, dead, responses, interrupted>>

Disconnect(w) == /\ linked[w]
                 /\ faults < MaxFaults
                 /\ faults' = faults + 1
                 /\ CloseChannel(w)

(* The process dies, or gets SIGTERM: _handle_shutdown closes the channel  *)
(* and exits, wherever the handler is.                                     *)
Crash(w) == /\ pc[w] # "off"
            /\ faults < MaxFaults
            /\ faults' = faults + 1
            /\ Requeue(w)
            /\ interrupted' = IF Untold(w) THEN interrupted \cup {serving[w]}
                                           ELSE interrupted
            /\ End(w)
            /\ UNCHANGED <<storeVars, published, acked, dead, responses>>

(* The Redis connection breaks before or after the command ran: redis-py   *)
(* repeats it, or raises, and the message is rejected.                     *)
InCommand(w) == \/ pc[w] = "received" /\ ~Cached(w, serving[w]) /\ NeedsStore(serving[w])
                \/ pc[w] = "reply"

Repeat(w) == /\ tries[w] < RedisRetries
             /\ tries' = [tries EXCEPT ![w] = tries[w] + 1]
             /\ pc' = [pc EXCEPT ![w] = "received"]
             /\ reply' = [reply EXCEPT ![w] = NoResponse]
             /\ UNCHANGED <<processed, serving, linked, dead>>

FailCommand(w, final) ==
    /\ InCommand(w)
    /\ interrupted' = IF Untold(w) THEN interrupted \cup {serving[w]} ELSE interrupted
    /\ \/ Repeat(w)
       \/ final /\ Reject(w)
    /\ UNCHANGED <<storeVars, published, ready, acked, responses>>

BreakRedis(w) == /\ faults < MaxFaults
                 /\ faults' = faults + 1
                 /\ FailCommand(w, tries[w] = RedisRetries)

(* restart: unless-stopped                                                 *)
Restart(w) == /\ pc[w] = "off"
              /\ pc' = [pc EXCEPT ![w] = "idle"]
              /\ linked' = [linked EXCEPT ![w] = TRUE]
              /\ UNCHANGED <<storeVars, processed, serving, reply, tries, queueVars,
                             interrupted, faults>>

-----------------------------------------------------------------------------
Handle(w) == \/ \E m \in Purchase : Deliver(w, m)
             \/ RejectMalformed(w)
             \/ AnswerDuplicate(w)
             \/ RefuseSeat(w)
             \/ Execute(w)
             \/ Finish(w)
             \/ PublishResponse(w)
             \/ Ack(w)
             \/ GiveUp(w)

Work(w) == Handle(w) \/ Restart(w)

Fault(w) == Disconnect(w) \/ Crash(w) \/ BreakRedis(w)

Next == \/ \E m \in Purchase : Publish(m) \/ Expire(m)
        \/ \E w \in Process : Work(w) \/ Fault(w)

Spec == Init /\ [][Next]_vars

-----------------------------------------------------------------------------
(* Properties *)

TypeOK == /\ BackendTypeOK
          /\ pc \in [Process -> {"idle", "received", "reply", "respond", "ack", "off"}]
          /\ serving \in [Process -> Purchase \cup {Nobody}]
          /\ reply \in [Process -> Response]
          /\ tries \in [Process -> 0..RedisRetries]
          /\ linked \in [Process -> BOOLEAN]
          /\ published \in [Purchase -> Nat]
          /\ ready \in [Purchase -> Nat]
          /\ acked \in [Purchase -> Nat]
          /\ dead \in [Purchase -> Nat]
          /\ responses \in [Purchase -> [Status -> Nat]]
          /\ interrupted \in SUBSET Purchase
          /\ faults \in 0..MaxFaults

(* No copy of a message is lost or multiplied, whatever closes when: each  *)
(* published copy waits in the queue, is unacknowledged at one worker, was *)
(* acknowledged, or is in the dead-letter queue (worker.py:40-41).         *)
Conservation ==
    \A m \in Purchase :
        published[m] = ready[m] + acked[m] + dead[m]
                       + Cardinality({w \in Process : serving[w] = m /\ linked[w]})

Answers(m) == responses[m]["success"] + responses[m]["failed"] + responses[m]["duplicate"]

Acknowledging(m) == {w \in Process : pc[w] = "ack" /\ serving[w] = m /\ linked[w]}

(* No copy is acknowledged before its response is in ticket_responses      *)
(* (worker.py:39), and there is one response for each, plus at most one    *)
(* for each fault, which hit a worker between its publish and its ack.     *)
AnswersMatchAcks ==
    \A m \in Purchase :
        LET owed == acked[m] + Cardinality(Acknowledging(m))
        IN  owed <= Answers(m) /\ Answers(m) <= owed + faults

(* Of all the responses a seat gets, from any worker and for any copy of   *)
(* any message, one says SUCCESS (set_numbered_seat).                      *)
SeatToldOnce ==
    \A m \in Purchase :
        OrderOf[m].type = "numbered" /\ responses[m]["success"] > 0 =>
            /\ responses[m]["success"] = 1
            /\ \A n \in Purchase \ {m} :
                  OrderOf[n].type = "numbered" /\ OrderOf[n].seat = OrderOf[m].seat =>
                      responses[n]["success"] = 0

Unnumbered == {m \in Purchase : OrderOf[m].type = "unnumbered"}

(* The SUCCESS responses for tickets, the k-th of message m as <<m, k>>.    *)
Told == UNION {{m} \X (1..responses[m]["success"]) : m \in Unnumbered}

Pending == {w \in Process : Untold(w) /\ serving[w] \in Unnumbered}

(* The counter is the tickets that were told, those workers are about to   *)
(* tell, and at most one for each fault: no other way leaks stock, and no  *)
(* SUCCESS goes out without its ticket (increment_unnumbered).             *)
StockAccounted == /\ Cardinality(Told) + Cardinality(Pending) <= count
                  /\ count <= Cardinality(Told) + Cardinality(Pending) + faults

(* Who has a ticket or seat gets the response that says so, unless the     *)
(* worker that bought it was interrupted: a sale is not answered FAILED    *)
(* just because the message came twice.                                    *)
NoUntoldSale ==
    \A m \in Holders : \/ \E w \in Process : serving[w] = m /\ Untold(w)
                       \/ responses[m]["success"] > 0
                       \/ m \in interrupted

(* A DUPLICATE response refers to a response that was published: a worker  *)
(* that fails between the cache and the publish does not keep the cache.   *)
NoOrphanDuplicate ==
    \A m \in Purchase :
        responses[m]["duplicate"] > 0 =>
            \E n \in Purchase : /\ OrderOf[n].id = OrderOf[m].id
                                /\ responses[n]["success"] + responses[n]["failed"] > 0
=============================================================================
