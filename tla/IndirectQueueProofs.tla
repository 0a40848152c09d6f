------------------------ MODULE IndirectQueueProofs ------------------------
(***************************************************************************)
(* Theorems of IndirectQueue and of BulkProducer above it, for any set of  *)
(* workers and messages, any stock, any number of copies, retries and      *)
(* faults, and any file and batch size.                                    *)
(*                                                                         *)
(* A step of BulkProducer is a step of IndirectQueue or leaves its         *)
(* variables alone, but for PublishRaises, so each part of the invariant   *)
(* has one lemma for Next and one for PublishRaises.                       *)
(***************************************************************************)
EXTENDS BulkProducer, FiniteSetTheorems, TLAPS

-----------------------------------------------------------------------------
(* The inductive invariant of the queue                                    *)

(* What a worker has in hand at each point of _process_message.            *)
WorkerOK(w) ==
    /\ serving[w] = Nobody <=> pc[w] \in {"idle", "off"}
    /\ pc[w] = "reply" => /\ NeedsStore(serving[w])
                          /\ \E granted \in BOOLEAN : reply[w] = Answer(serving[w], granted)
    /\ pc[w] \in {"respond", "ack"} => reply[w].status \in Status

WorkersOK == \A w \in Process : WorkerOK(w)

(* Who was told that it has a seat, or is about to be told, is its owner.  *)
SeatBacked(m) == OrderOf[m].seat \in Seats /\ owner[OrderOf[m].seat] = m

SeatClaims ==
    \A m \in Purchase : OrderOf[m].type = "numbered" =>
        /\ responses[m]["success"] > 0 => SeatBacked(m)
        /\ \A w \in Process : Untold(w) /\ serving[w] = m => SeatBacked(m)

(* Of all workers and copies, one carries the SUCCESS of a seat, once.     *)
SeatClaimedOnce ==
    \A m \in Purchase : OrderOf[m].type = "numbered" =>
        /\ responses[m]["success"] <= 1
        /\ \A w \in Process : Untold(w) /\ serving[w] = m =>
              /\ responses[m]["success"] = 0
              /\ \A v \in Process : Untold(v) /\ serving[v] = m => v = w

(* A response with a verdict was published for the request id.             *)
Decided(i) == \E n \in Purchase : /\ OrderOf[n].id = i
                                  /\ responses[n]["success"] + responses[n]["failed"] > 0

(* What a worker has cached was published, or is what it publishes next.   *)
CacheBacked ==
    \A w \in Process : \A i \in Ids : processed[w][i] # NoResponse =>
        \/ Decided(i)
        \/ /\ pc[w] = "respond" /\ OrderOf[serving[w]].id = i
           /\ reply[w].status \in {"success", "failed"}

DuplicateBacked ==
    \A w \in Process : pc[w] = "respond" /\ reply[w].status = "duplicate" =>
        Decided(OrderOf[serving[w]].id)

(* The workers whose channel is closed: each had a fault.                  *)
Cut == {w \in Process : pc[w] # "off" /\ ~linked[w]}

(* Stock leaks only where a worker is lost with a sale untold, and a worker*)
(* that is cut off and may still give up has its fault left to answer for. *)
StockOK == /\ IsFiniteSet(Told)
           /\ Cardinality(Told) + Cardinality(Pending) <= count
           /\ count + Cardinality(Cut) <= Cardinality(Told) + Cardinality(Pending) + faults

QueueInv == /\ TypeOK /\ WorkersOK
            /\ Conservation
            /\ AnswersMatchAcks
            /\ SeatClaims /\ SeatClaimedOnce
            /\ NoUntoldSale
            /\ StockOK
            /\ CacheBacked /\ DuplicateBacked /\ NoOrphanDuplicate

-----------------------------------------------------------------------------
(* The inductive invariant of the producer                                 *)

(* How many of the first j messages of the file are copies of m.           *)
Occurrences(m, j) == Cardinality({k \in 1..j : File[k] = m})

(* How much of the file was published since the producer last began it, or *)
(* the flush: the batches before the buffer, and what is flushed of it.    *)
Sent == position - Len(buffer) + flushed

ProducerTypeOK == /\ producer \in {"add", "flush", "failed", "done"}
                  /\ position \in 0..Len(File)
                  /\ buffer \in Seq(Purchase) /\ Len(buffer) <= position
                  /\ flushed \in 0..Len(buffer)
                  /\ raised \in Nat

(* The buffer is the last part of what was read of the file.               *)
BufferOfFile == /\ \A k \in 1..Len(buffer) : buffer[k] = File[position - Len(buffer) + k]
                /\ producer # "flush" => flushed = 0
                /\ producer = "done" => buffer = <<>> /\ position = Len(File)

SentPublished == \A k \in 1..Sent : published[File[k]] > 0

(* Every raise pays for one pass over the file, and a failed producer has  *)
(* not begun the next one.                                                 *)
Passed == IF producer = "failed" THEN 0 ELSE Sent

CopiesBounded ==
    \A m \in Purchase :
        published[m] <= raised * Occurrences(m, Len(File)) + Occurrences(m, Passed)

ProducerInv == ProducerTypeOK /\ BufferOfFile /\ SentPublished /\ CopiesBounded

-----------------------------------------------------------------------------
OneIf(b) == IF b THEN 1 ELSE 0

(* What is moved from one count to another is not lost: the arithmetic of  *)
(* the steps below.                                                        *)
LEMMA SameDifference ==
    ASSUME NEW a \in Nat, NEW b \in Nat, NEW c \in Nat, NEW d \in Nat, a - b = c - d
    PROVE  a = c + (b - d)
  OBVIOUS

(* The same with the copies in five places.                                *)
LEMMA SameBalance ==
    ASSUME NEW p \in Nat, NEW r \in Nat, NEW a \in Nat, NEW d \in Nat, NEW u \in Nat,
           NEW q \in Nat, NEW s \in Nat, NEW b \in Nat, NEW e \in Nat, NEW v \in Nat,
           NEW others \in Nat,
           q - s - b - e - v = p - r - a - d - u,
           p = r + a + d + (others + u)
    PROVE  q = s + b + e + (others + v)
  OBVIOUS

USE LimitsAssumption, PurchaseAssumption, OrderAssumption, NoSeatAssumption,
    QueueBoundsAssumption

(* The actions of Next, one by one.                                        *)
LEMMA NextCases ==
    ASSUME Next
    PROVE  \/ \E m \in Purchase : \/ Publish(m) \/ Expire(m)
                                  \/ \E w \in Process : Deliver(w, m)
           \/ \E w \in Process : \/ RejectMalformed(w) \/ AnswerDuplicate(w)
                                 \/ RefuseSeat(w) \/ Execute(w) \/ Finish(w)
                                 \/ PublishResponse(w) \/ Ack(w) \/ GiveUp(w)
                                 \/ Restart(w) \/ Disconnect(w) \/ Crash(w)
                                 \/ BreakRedis(w)
  BY DEF Next, Work, Handle, Fault

(* What one Redis command does to the store.                               *)
LEMMA CommandType ==
    ASSUME BackendTypeOK, NEW c \in Purchase, NEW granted \in BOOLEAN,
           NeedsStore(c), RunCommand(c, granted), UNCHANGED processed
    PROVE  BackendTypeOK'
  BY DEF BackendTypeOK, NeedsStore, RunCommand, IncrBounded, SetSeatNX, Seats

(* The responses a worker can make.                                        *)
LEMMA ResponseTypes ==
    /\ NoResponse \in Response /\ Failure \in Response
    /\ \A c \in Purchase, granted \in BOOLEAN : Answer(c, granted) \in Response
    /\ \A resp \in Response : DuplicateOf(resp) \in Response
  BY DEF NoResponse, Failure, Answer, DuplicateOf, Response

(* Caching a response or emptying the cache keeps its type.                *)
LEMMA CacheType ==
    ASSUME BackendTypeOK, NEW w \in Process,
           \/ Forget(w)
           \/ \E m \in Purchase, resp \in Response : Remember(w, m, resp)
    PROVE  processed' \in [Process -> [Ids -> Response]]
<1>1. processed \in [Process -> [Ids -> Response]]
  BY DEF BackendTypeOK
<1>2. CASE Forget(w)
  BY <1>1, <1>2, ResponseTypes DEF Forget, EmptyCache
<1>3. ASSUME NEW m \in Purchase, NEW resp \in Response, Remember(w, m, resp)
      PROVE  processed' \in [Process -> [Ids -> Response]]
  BY <1>1, <1>3 DEF Remember
<1> QED
  BY <1>2, <1>3

(* The types of a worker that is released, ends or fails a command.        *)
WorkerTypes == /\ pc \in [Process -> {"idle", "received", "reply", "respond", "ack", "off"}]
               /\ serving \in [Process -> Purchase \cup {Nobody}]
               /\ reply \in [Process -> Response]
               /\ tries \in [Process -> 0..RedisRetries]
               /\ linked \in [Process -> BOOLEAN]

(* A released or an ended worker keeps its types.                          *)
LEMMA ReleaseTypes ==
    ASSUME TypeOK, NEW w \in Process
    PROVE  /\ Release(w) /\ UNCHANGED linked => WorkerTypes'
           /\ End(w) => WorkerTypes' /\ processed' \in [Process -> [Ids -> Response]]
<1>1. Release(w) /\ UNCHANGED linked => WorkerTypes'
  BY ResponseTypes DEF TypeOK, WorkerTypes, Release
<1>2. End(w) => WorkerTypes'
  BY ResponseTypes DEF TypeOK, WorkerTypes, End
<1>3. End(w) => processed' \in [Process -> [Ids -> Response]]
  BY CacheType DEF TypeOK, End
<1> QED
  BY <1>1, <1>2, <1>3

(* So does one that rejects its message.                                   *)
LEMMA RejectTypes ==
    ASSUME TypeOK, NEW w \in Process, serving[w] \in Purchase, Reject(w)
    PROVE  /\ WorkerTypes'
           /\ processed' \in [Process -> [Ids -> Response]]
           /\ dead' \in [Purchase -> Nat]
<1>1. CASE linked[w]
  <2>1. WorkerTypes'
    BY <1>1, ReleaseTypes DEF Reject
  <2> QED
    BY <1>1, <2>1 DEF Reject, One, TypeOK, BackendTypeOK
<1>2. CASE ~linked[w]
  <2>1. WorkerTypes' /\ processed' \in [Process -> [Ids -> Response]]
    BY <1>2, ReleaseTypes DEF Reject
  <2> QED
    BY <1>2, <2>1 DEF Reject, TypeOK
<1> QED
  BY <1>1, <1>2

-----------------------------------------------------------------------------
(* Every variable keeps its type.                                          *)
LEMMA TypeInit == Init => TypeOK
  BY DEF Init, StartWith, BackendInit, TypeOK, BackendTypeOK, EmptyCache, NoResponse,
         Response, Seats, Status

(* Every action keeps the types of the queue.                              *)
LEMMA TypeStep ==
    ASSUME TypeOK, WorkersOK, Next
    PROVE  TypeOK'
<1> USE DEF TypeOK
<1>1. ASSUME NEW m \in Purchase, Publish(m)
      PROVE  TypeOK'
  BY <1>1 DEF Publish, One, storeVars, workerVars, BackendTypeOK
<1>2. ASSUME NEW m \in Purchase, Expire(m)
      PROVE  TypeOK'
  BY <1>2 DEF Expire, One, storeVars, workerVars, BackendTypeOK
<1>3. ASSUME NEW m \in Purchase, NEW w \in Process, Deliver(w, m)
      PROVE  TypeOK'
  BY <1>3 DEF Deliver, storeVars, BackendTypeOK
<1>4. ASSUME NEW w \in Process, RejectMalformed(w)
      PROVE  TypeOK'
  <2>1. serving[w] \in Purchase
    BY <1>4 DEF RejectMalformed, WorkersOK, WorkerOK
  <2>2. WorkerTypes' /\ processed' \in [Process -> [Ids -> Response]]
        /\ dead' \in [Purchase -> Nat]
    BY <1>4, <2>1, RejectTypes DEF RejectMalformed
  <2> QED
    BY <1>4, <2>2 DEF RejectMalformed, WorkerTypes, storeVars, BackendTypeOK
<1>5. ASSUME NEW w \in Process, AnswerDuplicate(w)
      PROVE  TypeOK'
  <2>1. serving[w] \in Purchase
    BY <1>5 DEF AnswerDuplicate, WorkersOK, WorkerOK
  <2>2. DuplicateOf(processed[w][OrderOf[serving[w]].id]) \in Response
    BY <2>1, ResponseTypes DEF BackendTypeOK
  <2> QED
    BY <1>5, <2>2 DEF AnswerDuplicate, Respond, storeVars, queueVars, BackendTypeOK
<1>6. ASSUME NEW w \in Process, RefuseSeat(w)
      PROVE  TypeOK'
  <2>1. serving[w] \in Purchase
    BY <1>6 DEF RefuseSeat, WorkersOK, WorkerOK
  <2>2. processed' \in [Process -> [Ids -> Response]]
    BY <1>6, <2>1, CacheType, ResponseTypes DEF RefuseSeat
  <2> QED
    BY <1>6, <2>2, ResponseTypes
       DEF RefuseSeat, Respond, storeVars, queueVars, BackendTypeOK
<1>7. ASSUME NEW w \in Process, Execute(w)
      PROVE  TypeOK'
  <2>1. serving[w] \in Purchase
    BY <1>7 DEF Execute, WorkersOK, WorkerOK
  <2>2. PICK granted \in BOOLEAN : /\ RunCommand(serving[w], granted)
                                   /\ reply' = [reply EXCEPT ![w] = Answer(serving[w], granted)]
    BY <1>7 DEF Execute
  <2>3. BackendTypeOK'
    BY <1>7, <2>1, <2>2, CommandType DEF Execute
  <2>4. reply' \in [Process -> Response]
    BY <2>1, <2>2, ResponseTypes
  <2> QED
    BY <1>7, <2>3, <2>4 DEF Execute, queueVars
<1>8. ASSUME NEW w \in Process, Finish(w)
      PROVE  TypeOK'
  <2>1. serving[w] \in Purchase
    BY <1>8 DEF Finish, WorkersOK, WorkerOK
  <2>2. processed' \in [Process -> [Ids -> Response]]
    BY <1>8, <2>1, CacheType DEF Finish
  <2> QED
    BY <1>8, <2>2 DEF Finish, Respond, storeVars, queueVars, BackendTypeOK
<1>9. ASSUME NEW w \in Process, PublishResponse(w)
      PROVE  TypeOK'
  <2>1. serving[w] \in Purchase /\ reply[w].status \in Status
    BY <1>9 DEF PublishResponse, WorkersOK, WorkerOK
  <2>2. One(responses[serving[w]], reply[w].status) \in [Status -> Nat]
    BY <2>1 DEF One
  <2> QED
    BY <1>9, <2>2 DEF PublishResponse, storeVars, BackendTypeOK
<1>10. ASSUME NEW w \in Process, Ack(w)
       PROVE  TypeOK'
  <2>1. serving[w] \in Purchase
    BY <1>10 DEF Ack, WorkersOK, WorkerOK
  <2>2. WorkerTypes'
    BY <1>10, ReleaseTypes DEF Ack
  <2> QED
    BY <1>10, <2>1, <2>2 DEF Ack, One, WorkerTypes, storeVars, BackendTypeOK
<1>11. ASSUME NEW w \in Process, GiveUp(w)
       PROVE  TypeOK'
  <2>1. Untold(w) => serving[w] \in Purchase
    BY DEF Untold, WorkersOK, WorkerOK
  <2>2. WorkerTypes' /\ processed' \in [Process -> [Ids -> Response]]
    BY <1>11, ReleaseTypes DEF GiveUp
  <2> QED
    BY <1>11, <2>1, <2>2 DEF GiveUp, WorkerTypes, storeVars, queueVars, BackendTypeOK
<1>12. ASSUME NEW w \in Process, Restart(w)
       PROVE  TypeOK'
  BY <1>12 DEF Restart, storeVars, queueVars, BackendTypeOK
<1>13. ASSUME NEW w \in Process, Disconnect(w)
       PROVE  TypeOK'
  BY <1>13 DEF Disconnect, CloseChannel, Requeue, One, storeVars, BackendTypeOK
<1>14. ASSUME NEW w \in Process, Crash(w)
       PROVE  TypeOK'
  <2>1. Untold(w) => serving[w] \in Purchase
    BY DEF Untold, WorkersOK, WorkerOK
  <2>2. WorkerTypes' /\ processed' \in [Process -> [Ids -> Response]]
    BY <1>14, ReleaseTypes DEF Crash
  <2>3. ready' \in [Purchase -> Nat]
    BY <1>14 DEF Crash, Requeue, One
  <2> QED
    BY <1>14, <2>1, <2>2, <2>3 DEF Crash, WorkerTypes, storeVars, BackendTypeOK
<1>15. ASSUME NEW w \in Process, BreakRedis(w)
       PROVE  TypeOK'
  <2>1. serving[w] \in Purchase
    BY <1>15 DEF BreakRedis, FailCommand, InCommand, WorkersOK, WorkerOK
  <2>2. interrupted' \in SUBSET Purchase /\ faults' \in 0..MaxFaults
    BY <1>15, <2>1 DEF BreakRedis, FailCommand
  <2>3. /\ WorkerTypes' /\ processed' \in [Process -> [Ids -> Response]]
        /\ dead' \in [Purchase -> Nat]
    <3>1. CASE Repeat(w)
      BY <3>1, ResponseTypes DEF Repeat, WorkerTypes, BackendTypeOK
    <3>2. CASE Reject(w)
      BY <2>1, <3>2, RejectTypes
    <3> QED
      BY <1>15, <3>1, <3>2 DEF BreakRedis, FailCommand
  <2> QED
    BY <1>15, <2>2, <2>3
       DEF BreakRedis, FailCommand, WorkerTypes, storeVars, BackendTypeOK
<1> QED
  BY <1>1, <1>2, <1>3, <1>4, <1>5, <1>6, <1>7, <1>8, <1>9, <1>10, <1>11, <1>12, <1>13,
     <1>14, <1>15, NextCases

-----------------------------------------------------------------------------
(* What a worker has in hand.                                              *)
LEMMA WorkersInit == Init => WorkersOK
  BY DEF Init, StartWith, WorkersOK, WorkerOK

(* A step of worker w leaves what the other workers have in hand.          *)
LEMMA OthersKeep ==
    ASSUME TypeOK, WorkersOK, NEW w \in Process,
           \A v \in Process \ {w} : /\ pc'[v] = pc[v] /\ serving'[v] = serving[v]
                                    /\ reply'[v] = reply[v],
           WorkerOK(w)'
    PROVE  WorkersOK'
<1> SUFFICES ASSUME NEW v \in Process \ {w}
             PROVE  WorkerOK(v)'
  BY DEF WorkersOK
<1> QED
  BY DEF WorkersOK, WorkerOK

(* A released or ended worker has nothing in hand.                         *)
LEMMA EmptyHanded ==
    ASSUME TypeOK, WorkersOK, NEW w \in Process, Release(w) \/ End(w)
    PROVE  WorkersOK'
<1>1. /\ pc'[w] \in {"idle", "off"} /\ serving'[w] = Nobody
      /\ \A v \in Process \ {w} : /\ pc'[v] = pc[v] /\ serving'[v] = serving[v]
                                   /\ reply'[v] = reply[v]
  BY DEF TypeOK, Release, End
<1>2. WorkerOK(w)'
  BY <1>1 DEF WorkerOK
<1> QED
  BY <1>1, <1>2, OthersKeep

(* A step leaves every worker with what its point of the code needs.       *)
LEMMA WorkersStep ==
    ASSUME TypeOK, WorkersOK, Next
    PROVE  WorkersOK'
<1>1. CASE UNCHANGED <<pc, serving, reply>>
  BY <1>1 DEF WorkersOK, WorkerOK
<1>2. ASSUME NEW m \in Purchase, Publish(m) \/ Expire(m)
      PROVE  WorkersOK'
  BY <1>1, <1>2 DEF Publish, Expire, workerVars
<1>3. ASSUME NEW m \in Purchase, NEW w \in Process, Deliver(w, m)
      PROVE  WorkersOK'
  <2>1. /\ pc'[w] = "received" /\ serving'[w] = m /\ reply' = reply
        /\ \A v \in Process \ {w} : pc'[v] = pc[v] /\ serving'[v] = serving[v]
    BY <1>3 DEF Deliver, TypeOK
  <2>2. WorkerOK(w)'
    BY <2>1 DEF WorkerOK
  <2> QED
    BY <2>1, <2>2, OthersKeep
<1>4. ASSUME NEW w \in Process, RejectMalformed(w) \/ Ack(w) \/ GiveUp(w) \/ Crash(w)
      PROVE  WorkersOK'
  BY <1>4, EmptyHanded DEF RejectMalformed, Reject, Ack, GiveUp, Crash
<1>5. ASSUME NEW w \in Process, NEW resp \in Response, Respond(w, resp),
             pc[w] \in {"received", "reply"}, resp.status \in Status
      PROVE  WorkersOK'
  <2>1. /\ pc'[w] = "respond" /\ serving' = serving /\ reply'[w] = resp
        /\ \A v \in Process \ {w} : pc'[v] = pc[v] /\ reply'[v] = reply[v]
    BY <1>5 DEF Respond, TypeOK
  <2>2. WorkerOK(w)'
    BY <1>5, <2>1 DEF WorkersOK, WorkerOK
  <2> QED
    BY <2>1, <2>2, OthersKeep
<1>6. ASSUME NEW w \in Process, AnswerDuplicate(w)
      PROVE  WorkersOK'
  <2>1. processed[w][OrderOf[serving[w]].id] \in Response
    BY <1>6 DEF AnswerDuplicate, WorkersOK, WorkerOK, TypeOK, BackendTypeOK
  <2>2. PICK resp \in Response : Respond(w, resp) /\ resp.status = "duplicate"
    BY <1>6, <2>1, ResponseTypes DEF AnswerDuplicate, DuplicateOf
  <2> QED
    BY <1>5, <1>6, <2>2 DEF AnswerDuplicate, Status
<1>7. ASSUME NEW w \in Process, RefuseSeat(w)
      PROVE  WorkersOK'
  BY <1>5, <1>7, ResponseTypes DEF RefuseSeat, Failure, Status
<1>8. ASSUME NEW w \in Process, Execute(w)
      PROVE  WorkersOK'
  <2>1. PICK granted \in BOOLEAN : reply' = [reply EXCEPT ![w] = Answer(serving[w], granted)]
    BY <1>8 DEF Execute
  <2>2. /\ pc'[w] = "reply" /\ serving' = serving
        /\ reply'[w] = Answer(serving[w], granted)
        /\ \A v \in Process \ {w} : pc'[v] = pc[v] /\ reply'[v] = reply[v]
    BY <1>8, <2>1 DEF Execute, TypeOK
  <2>3. WorkerOK(w)'
    BY <1>8, <2>2 DEF Execute, WorkersOK, WorkerOK, Answer, NeedsStore
  <2> QED
    BY <2>2, <2>3, OthersKeep
<1>9. ASSUME NEW w \in Process, Finish(w)
      PROVE  WorkersOK'
  <2>1. reply[w] \in Response /\ reply[w].status \in Status
    BY <1>9 DEF Finish, WorkersOK, WorkerOK, TypeOK, Answer, Status
  <2> QED
    BY <1>5, <1>9, <2>1 DEF Finish
<1>10. ASSUME NEW w \in Process, PublishResponse(w)
       PROVE  WorkersOK'
  <2>1. /\ pc'[w] = "ack" /\ serving' = serving /\ reply' = reply
        /\ \A v \in Process \ {w} : pc'[v] = pc[v]
    BY <1>10 DEF PublishResponse, TypeOK
  <2>2. WorkerOK(w)'
    BY <1>10, <2>1 DEF PublishResponse, WorkersOK, WorkerOK
  <2> QED
    BY <2>1, <2>2, OthersKeep
<1>11. ASSUME NEW w \in Process, Restart(w)
       PROVE  WorkersOK'
  <2>1. /\ pc'[w] = "idle" /\ serving' = serving /\ reply' = reply
        /\ \A v \in Process \ {w} : pc'[v] = pc[v]
    BY <1>11 DEF Restart, TypeOK
  <2>2. WorkerOK(w)'
    BY <1>11, <2>1 DEF Restart, WorkersOK, WorkerOK
  <2> QED
    BY <2>1, <2>2, OthersKeep
<1>12. ASSUME NEW w \in Process, Disconnect(w)
       PROVE  WorkersOK'
  BY <1>1, <1>12 DEF Disconnect, CloseChannel
<1>13. ASSUME NEW w \in Process, BreakRedis(w)
       PROVE  WorkersOK'
  <2>1. CASE Repeat(w)
    <3>1. /\ pc'[w] = "received" /\ serving' = serving
          /\ \A v \in Process \ {w} : pc'[v] = pc[v] /\ reply'[v] = reply[v]
      BY <2>1 DEF Repeat, TypeOK
    <3>2. WorkerOK(w)'
      BY <1>13, <3>1 DEF BreakRedis, FailCommand, InCommand, WorkersOK, WorkerOK
    <3> QED
      BY <3>1, <3>2, OthersKeep
  <2>2. CASE Reject(w)
    BY <2>2, EmptyHanded DEF Reject
  <2> QED
    BY <1>13, <2>1, <2>2 DEF BreakRedis, FailCommand
<1> QED
  BY <1>2, <1>3, <1>4, <1>6, <1>7, <1>8, <1>9, <1>10, <1>11, <1>12, <1>13, NextCases

-----------------------------------------------------------------------------
(* Copies of messages                                                      *)

(* A set of workers is the others and perhaps w.                           *)
LEMMA CountBut ==
    ASSUME NEW S \in SUBSET Process, NEW w
    PROVE  /\ Cardinality(S \ {w}) \in Nat
           /\ Cardinality(S) = Cardinality(S \ {w}) + OneIf(w \in S)
<1>1. IsFiniteSet(S) /\ Cardinality(S) \in Nat
  BY WorkersAssumption, FS_Subset, FS_CardinalityType
<1>2. IsFiniteSet(S \ {w}) /\ Cardinality(S \ {w}) \in Nat
  BY <1>1, FS_RemoveElement, FS_CardinalityType
<1>3. Cardinality(S \ {w}) = IF w \in S THEN Cardinality(S) - 1 ELSE Cardinality(S)
  BY <1>1, FS_RemoveElement
<1> QED
  BY <1>1, <1>2, <1>3 DEF OneIf

(* The workers that have a copy of m unacknowledged.                       *)
Unacked(m) == {w \in Process : serving[w] = m /\ linked[w]}

(* The copies of m that the other workers account for.                     *)
Elsewhere(m, w) == published[m] - ready[m] - acked[m] - dead[m] - OneIf(w \in Unacked(m))

(* Conservation survives a step of worker w that takes as many copies from *)
(* the queue, or puts as many back, as it gets or loses.                   *)
LEMMA CopiesMove ==
    ASSUME TypeOK, TypeOK', Conservation, NEW w \in Process,
           \A v \in Process \ {w} : serving'[v] = serving[v] /\ linked'[v] = linked[v],
           \A m \in Purchase : Elsewhere(m, w)' = Elsewhere(m, w)
    PROVE  Conservation'
<1> SUFFICES ASSUME NEW m \in Purchase
             PROVE  published'[m] = ready'[m] + acked'[m] + dead'[m] + Cardinality(Unacked(m)')
  BY DEF Conservation, Unacked
<1>1. /\ Cardinality(Unacked(m) \ {w}) \in Nat
      /\ Cardinality(Unacked(m)) = Cardinality(Unacked(m) \ {w}) + OneIf(w \in Unacked(m))
  BY CountBut DEF Unacked
<1>2. Cardinality(Unacked(m)') = Cardinality(Unacked(m)' \ {w}) + OneIf(w \in Unacked(m)')
  BY CountBut DEF Unacked
<1>3. Cardinality(Unacked(m)' \ {w}) = Cardinality(Unacked(m) \ {w})
  <2>1. Unacked(m)' \ {w} = Unacked(m) \ {w}
    BY DEF Unacked
  <2> QED
    BY <2>1
<1>4. published[m] = ready[m] + acked[m] + dead[m] + Cardinality(Unacked(m))
  BY DEF Conservation, Unacked
<1>5. /\ published[m] \in Nat /\ ready[m] \in Nat /\ acked[m] \in Nat /\ dead[m] \in Nat
      /\ published'[m] \in Nat /\ ready'[m] \in Nat /\ acked'[m] \in Nat /\ dead'[m] \in Nat
  BY DEF TypeOK
<1>6. published'[m] - ready'[m] - acked'[m] - dead'[m] - OneIf(w \in Unacked(m)')
        = published[m] - ready[m] - acked[m] - dead[m] - OneIf(w \in Unacked(m))
  BY DEF Elsewhere
<1> DEFINE others == Cardinality(Unacked(m) \ {w})
           before == OneIf(w \in Unacked(m))
           after  == OneIf(w \in Unacked(m)')
<1>7. others \in Nat /\ before \in Nat /\ after \in Nat
  BY <1>1 DEF OneIf
<1>8. published[m] = ready[m] + acked[m] + dead[m] + (others + before)
  BY <1>1, <1>4
<1>9. Cardinality(Unacked(m)') = others + after
  BY <1>2, <1>3
<1>10. published'[m] - ready'[m] - acked'[m] - dead'[m] - after
        = published[m] - ready[m] - acked[m] - dead[m] - before
  BY <1>6
<1> HIDE DEF others, before, after
<1>11. published'[m] = ready'[m] + acked'[m] + dead'[m] + (others + after)
  BY <1>5, <1>7, <1>8, <1>10, SameBalance
<1> QED
  BY <1>9, <1>11

(* With nothing published there is nothing to lose.                        *)
LEMMA ConservationInit == Init => Conservation
<1> SUFFICES ASSUME Init, NEW m \in Purchase
             PROVE  published[m] = ready[m] + acked[m] + dead[m] + Cardinality(Unacked(m))
  BY DEF Conservation, Unacked
<1>1. Unacked(m) = {}
  BY DEF Init, StartWith, Unacked
<1>2. Cardinality(Unacked(m)) = 0
  BY <1>1, FS_EmptySet
<1> QED
  BY <1>2 DEF Init, StartWith

(* What Reject, End and Requeue do with the copy of worker w.              *)
LEMMA RejectMoves ==
    ASSUME TypeOK, WorkersOK, NEW w \in Process, serving[w] \in Purchase, Reject(w)
    PROVE  /\ \A v \in Process \ {w} : serving'[v] = serving[v] /\ linked'[v] = linked[v]
           /\ \A m \in Purchase : /\ dead'[m] = dead[m] + OneIf(w \in Unacked(m))
                                  /\ w \notin Unacked(m)'
  BY DEF Reject, Release, End, One, Unacked, OneIf, TypeOK

(* A lost channel moves the copies of its worker back to the queue.        *)
LEMMA RequeueMoves ==
    ASSUME TypeOK, NEW w \in Process, Requeue(w)
    PROVE  \A m \in Purchase : ready'[m] = ready[m] + OneIf(w \in Unacked(m))
  BY DEF Requeue, One, Unacked, OneIf, TypeOK

(* No step loses or makes a copy.                                          *)
LEMMA ConservationStep ==
    ASSUME TypeOK, TypeOK', WorkersOK, Conservation, Next
    PROVE  Conservation'
<1> USE DEF OneIf
<1>1. CASE UNCHANGED <<published, ready, acked, dead, serving, linked>>
  BY <1>1 DEF Conservation
<1>2. ASSUME NEW m \in Purchase, Publish(m)
      PROVE  Conservation'
  <2>1. /\ UNCHANGED <<acked, dead, serving, linked>>
        /\ \A n \in Purchase : published'[n] - ready'[n] = published[n] - ready[n]
    BY <1>2 DEF Publish, One, TypeOK, workerVars
  <2> SUFFICES ASSUME NEW n \in Purchase
               PROVE  published'[n] = ready'[n] + acked'[n] + dead'[n]
                                      + Cardinality(Unacked(n)')
    BY DEF Conservation, Unacked
  <2>2. Cardinality(Unacked(n)') = Cardinality(Unacked(n)) /\ Cardinality(Unacked(n)) \in Nat
    <3>1. Unacked(n)' = Unacked(n)
      BY <2>1 DEF Unacked
    <3>2. IsFiniteSet(Unacked(n))
      BY FS_Subset, WorkersAssumption DEF Unacked
    <3> QED
      BY <3>1, <3>2, FS_CardinalityType
  <2>3. published[n] = ready[n] + acked[n] + dead[n] + Cardinality(Unacked(n))
    BY DEF Conservation, Unacked
  <2>4. /\ published[n] \in Nat /\ ready[n] \in Nat /\ acked[n] \in Nat /\ dead[n] \in Nat
        /\ published'[n] \in Nat /\ ready'[n] \in Nat
    BY DEF TypeOK
  <2>5. published'[n] = published[n] + (ready'[n] - ready[n])
    <3>1. published'[n] - ready'[n] = published[n] - ready[n]
      BY <2>1
    <3> QED
      BY <2>4, <3>1, SameDifference
  <2>6. acked'[n] = acked[n] /\ dead'[n] = dead[n]
    BY <2>1
  <2> QED
    BY <2>2, <2>3, <2>4, <2>5, <2>6
<1>3. ASSUME NEW m \in Purchase, Expire(m)
      PROVE  Conservation'
  <2>1. /\ UNCHANGED <<published, acked, serving, linked>>
        /\ \A n \in Purchase : ready'[n] + dead'[n] = ready[n] + dead[n]
    BY <1>3 DEF Expire, One, TypeOK, workerVars
  <2> SUFFICES ASSUME NEW n \in Purchase
               PROVE  published'[n] = ready'[n] + acked'[n] + dead'[n]
                                      + Cardinality(Unacked(n)')
    BY DEF Conservation, Unacked
  <2>2. Cardinality(Unacked(n)') = Cardinality(Unacked(n)) /\ Cardinality(Unacked(n)) \in Nat
    <3>1. Unacked(n)' = Unacked(n)
      BY <2>1 DEF Unacked
    <3>2. IsFiniteSet(Unacked(n))
      BY FS_Subset, WorkersAssumption DEF Unacked
    <3> QED
      BY <3>1, <3>2, FS_CardinalityType
  <2>3. published[n] = ready[n] + acked[n] + dead[n] + Cardinality(Unacked(n))
    BY DEF Conservation, Unacked
  <2>4. /\ published[n] \in Nat /\ ready[n] \in Nat /\ acked[n] \in Nat /\ dead[n] \in Nat
        /\ published'[n] \in Nat /\ ready'[n] \in Nat /\ acked'[n] \in Nat /\ dead'[n] \in Nat
    BY DEF TypeOK
  <2>5. ready'[n] + dead'[n] = ready[n] + dead[n]
    BY <2>1
  <2>6. published'[n] = published[n] /\ acked'[n] = acked[n]
    BY <2>1
  <2> HIDE DEF TypeOK, WorkersOK
  <2> QED
    BY <2>2, <2>3, <2>4, <2>5, <2>6
<1>4. ASSUME NEW m \in Purchase, NEW w \in Process, Deliver(w, m)
      PROVE  Conservation'
  <2>1. serving[w] = Nobody
    BY <1>4 DEF Deliver, WorkersOK, WorkerOK
  <2>2. \A v \in Process \ {w} : serving'[v] = serving[v] /\ linked'[v] = linked[v]
    BY <1>4 DEF Deliver, TypeOK
  <2>3. \A n \in Purchase : /\ w \notin Unacked(n)
                            /\ w \in Unacked(n)' <=> n = m
                            /\ ready'[n] = ready[n] - OneIf(n = m)
    BY <1>4, <2>1 DEF Deliver, Unacked, TypeOK
  <2>4. \A n \in Purchase : Elsewhere(n, w)' = Elsewhere(n, w)
    BY <1>4, <2>3 DEF Deliver, Elsewhere, TypeOK
  <2> QED
    BY <2>2, <2>4, CopiesMove
<1>5. ASSUME NEW w \in Process, RejectMalformed(w)
      PROVE  Conservation'
  <2>1. serving[w] \in Purchase
    BY <1>5 DEF RejectMalformed, WorkersOK, WorkerOK, TypeOK
  <2>2. /\ \A v \in Process \ {w} : serving'[v] = serving[v] /\ linked'[v] = linked[v]
        /\ \A n \in Purchase : /\ dead'[n] = dead[n] + OneIf(w \in Unacked(n))
                               /\ w \notin Unacked(n)'
    BY <1>5, <2>1, RejectMoves DEF RejectMalformed
  <2>3. \A n \in Purchase : Elsewhere(n, w)' = Elsewhere(n, w)
    BY <1>5, <2>2 DEF RejectMalformed, Elsewhere, TypeOK
  <2> QED
    BY <2>2, <2>3, CopiesMove
<1>6. ASSUME NEW w \in Process, Ack(w)
      PROVE  Conservation'
  <2>1. serving[w] \in Purchase
    BY <1>6 DEF Ack, WorkersOK, WorkerOK, TypeOK
  <2>2. /\ \A v \in Process \ {w} : serving'[v] = serving[v] /\ linked'[v] = linked[v]
        /\ \A n \in Purchase : /\ acked'[n] = acked[n] + OneIf(w \in Unacked(n))
                               /\ w \notin Unacked(n)'
    BY <1>6, <2>1 DEF Ack, Release, One, Unacked, TypeOK
  <2>3. \A n \in Purchase : Elsewhere(n, w)' = Elsewhere(n, w)
    BY <1>6, <2>2 DEF Ack, Elsewhere, TypeOK
  <2> QED
    BY <2>2, <2>3, CopiesMove
<1>7. ASSUME NEW w \in Process, GiveUp(w)
      PROVE  Conservation'
  <2>1. /\ \A v \in Process \ {w} : serving'[v] = serving[v] /\ linked'[v] = linked[v]
        /\ \A n \in Purchase : w \notin Unacked(n) /\ w \notin Unacked(n)'
    BY <1>7 DEF GiveUp, End, Unacked, TypeOK
  <2>2. \A n \in Purchase : Elsewhere(n, w)' = Elsewhere(n, w)
    BY <1>7, <2>1 DEF GiveUp, queueVars, Elsewhere
  <2> QED
    BY <2>1, <2>2, CopiesMove
<1>8. ASSUME NEW w \in Process, Restart(w)
      PROVE  Conservation'
  <2>1. /\ \A v \in Process \ {w} : serving'[v] = serving[v] /\ linked'[v] = linked[v]
        /\ \A n \in Purchase : w \notin Unacked(n) /\ w \notin Unacked(n)'
    BY <1>8 DEF Restart, WorkersOK, WorkerOK, Unacked, TypeOK
  <2>2. \A n \in Purchase : Elsewhere(n, w)' = Elsewhere(n, w)
    BY <1>8, <2>1 DEF Restart, queueVars, Elsewhere
  <2> QED
    BY <2>1, <2>2, CopiesMove
<1>9. ASSUME NEW w \in Process, CloseChannel(w)
      PROVE  Conservation'
  <2>1. /\ \A v \in Process \ {w} : serving'[v] = serving[v] /\ linked'[v] = linked[v]
        /\ \A n \in Purchase : w \notin Unacked(n)'
    BY <1>9 DEF CloseChannel, Unacked, TypeOK
  <2>2. \A n \in Purchase : ready'[n] = ready[n] + OneIf(w \in Unacked(n))
    BY <1>9, RequeueMoves DEF CloseChannel
  <2>3. \A n \in Purchase : Elsewhere(n, w)' = Elsewhere(n, w)
    BY <1>9, <2>1, <2>2 DEF CloseChannel, Elsewhere, TypeOK
  <2> QED
    BY <2>1, <2>3, CopiesMove
<1>10. ASSUME NEW w \in Process, Crash(w)
       PROVE  Conservation'
  <2>1. /\ \A v \in Process \ {w} : serving'[v] = serving[v] /\ linked'[v] = linked[v]
        /\ \A n \in Purchase : w \notin Unacked(n)'
    BY <1>10 DEF Crash, End, Unacked, TypeOK
  <2>2. \A n \in Purchase : ready'[n] = ready[n] + OneIf(w \in Unacked(n))
    BY <1>10, RequeueMoves DEF Crash
  <2>3. \A n \in Purchase : Elsewhere(n, w)' = Elsewhere(n, w)
    BY <1>10, <2>1, <2>2 DEF Crash, Elsewhere, TypeOK
  <2> QED
    BY <2>1, <2>3, CopiesMove
<1>11. ASSUME NEW w \in Process, BreakRedis(w)
       PROVE  Conservation'
  <2>1. serving[w] \in Purchase
    BY <1>11 DEF BreakRedis, FailCommand, InCommand, WorkersOK, WorkerOK, TypeOK
  <2>2. CASE Repeat(w)
    BY <1>1, <1>11, <2>2 DEF BreakRedis, FailCommand, Repeat
  <2>3. CASE Reject(w)
    <3>1. /\ \A v \in Process \ {w} : serving'[v] = serving[v] /\ linked'[v] = linked[v]
          /\ \A n \in Purchase : /\ dead'[n] = dead[n] + OneIf(w \in Unacked(n))
                                 /\ w \notin Unacked(n)'
      BY <2>1, <2>3, RejectMoves
    <3>2. \A n \in Purchase : Elsewhere(n, w)' = Elsewhere(n, w)
      BY <1>11, <3>1 DEF BreakRedis, FailCommand, Elsewhere, TypeOK
    <3> QED
      BY <3>1, <3>2, CopiesMove
  <2> QED
    BY <1>11, <2>2, <2>3 DEF BreakRedis, FailCommand
<1>12. ASSUME NEW w \in Process,
              AnswerDuplicate(w) \/ RefuseSeat(w) \/ Execute(w) \/ Finish(w) \/ PublishResponse(w)
       PROVE  Conservation'
  BY <1>1, <1>12 DEF AnswerDuplicate, RefuseSeat, Execute, Finish, PublishResponse, Respond,
                     queueVars
<1> QED
  BY <1>2, <1>3, <1>4, <1>5, <1>6, <1>7, <1>8, <1>9, <1>10, <1>11, <1>12, NextCases
     DEF Disconnect

-----------------------------------------------------------------------------
(* A step of worker w touches no other worker.                             *)
Untouched(w) ==
    \A v \in Process \ {w} : /\ pc'[v] = pc[v] /\ serving'[v] = serving[v]
                             /\ reply'[v] = reply[v] /\ linked'[v] = linked[v]
                             /\ processed'[v] = processed[v]

(* One more copy of m is one more of m and none of any other message.      *)
LEMMA OneMoves ==
    ASSUME TypeOK, NEW w \in Process,
           \/ \E m \in Purchase : Deliver(w, m)
           \/ RejectMalformed(w) \/ AnswerDuplicate(w) \/ RefuseSeat(w) \/ Execute(w)
           \/ Finish(w) \/ PublishResponse(w) \/ Ack(w) \/ GiveUp(w) \/ Restart(w)
           \/ Disconnect(w) \/ Crash(w) \/ BreakRedis(w)
    PROVE  Untouched(w)
<1> USE DEF TypeOK, BackendTypeOK, Untouched
<1>1. CASE Release(w) /\ UNCHANGED <<processed, linked>>
  BY <1>1 DEF Release
<1>2. CASE End(w)
  BY <1>2 DEF End, Forget
<1>3. CASE Reject(w)
  BY <1>1, <1>2, <1>3 DEF Reject
<1>4. ASSUME NEW m \in Purchase, Deliver(w, m)
      PROVE  Untouched(w)
  BY <1>4 DEF Deliver
<1>5. CASE RejectMalformed(w) \/ Ack(w) \/ GiveUp(w) \/ Crash(w)
  BY <1>1, <1>2, <1>3, <1>5 DEF RejectMalformed, Ack, GiveUp, Crash
<1>6. CASE AnswerDuplicate(w)
  BY <1>6 DEF AnswerDuplicate, Respond
<1>7. CASE RefuseSeat(w)
  BY <1>7 DEF RefuseSeat, Respond, Remember
<1>8. CASE Execute(w)
  BY <1>8 DEF Execute
<1>9. CASE Finish(w)
  BY <1>9 DEF Finish, Respond, Remember
<1>10. CASE PublishResponse(w) \/ Restart(w) \/ Disconnect(w)
  BY <1>10 DEF PublishResponse, Restart, Disconnect, CloseChannel
<1>11. CASE BreakRedis(w)
  BY <1>3, <1>11 DEF BreakRedis, FailCommand, Repeat
<1> QED
  BY <1>4, <1>5, <1>6, <1>7, <1>8, <1>9, <1>10, <1>11

-----------------------------------------------------------------------------
(* Responses and acknowledgements                                          *)

(* The responses of m beyond its acks, but for what worker w owes.         *)
Unowed(m, w) == Answers(m) - acked[m] - OneIf(w \in Acknowledging(m))

(* AnswersMatchAcks survives a step of worker w that publishes or          *)
(* acknowledges as it should, or does not and has a fault as its excuse.   *)
LEMMA AnswersMove ==
    ASSUME TypeOK, TypeOK', AnswersMatchAcks, NEW w \in Process, Untouched(w),
           \A m \in Purchase : /\ Unowed(m, w)' >= Unowed(m, w)
                               /\ Unowed(m, w)' - Unowed(m, w) <= faults' - faults
    PROVE  AnswersMatchAcks'
<1> SUFFICES ASSUME NEW m \in Purchase
             PROVE  /\ acked'[m] + Cardinality(Acknowledging(m)') <= Answers(m)'
                    /\ Answers(m)' <= acked'[m] + Cardinality(Acknowledging(m)') + faults'
  BY DEF AnswersMatchAcks
<1>1. /\ Cardinality(Acknowledging(m) \ {w}) \in Nat
      /\ Cardinality(Acknowledging(m)) = Cardinality(Acknowledging(m) \ {w})
                                         + OneIf(w \in Acknowledging(m))
  BY CountBut DEF Acknowledging
<1>2. Cardinality(Acknowledging(m)') = Cardinality(Acknowledging(m)' \ {w})
                                       + OneIf(w \in Acknowledging(m)')
  BY CountBut DEF Acknowledging
<1>3. Cardinality(Acknowledging(m)' \ {w}) = Cardinality(Acknowledging(m) \ {w})
  <2>1. Acknowledging(m)' \ {w} = Acknowledging(m) \ {w}
    BY DEF Acknowledging, Untouched
  <2> QED
    BY <2>1
<1>4. /\ acked[m] + Cardinality(Acknowledging(m)) <= Answers(m)
      /\ Answers(m) <= acked[m] + Cardinality(Acknowledging(m)) + faults
  BY DEF AnswersMatchAcks
<1>5. /\ Answers(m) \in Nat /\ acked[m] \in Nat /\ faults \in Nat
      /\ Answers(m)' \in Nat /\ acked'[m] \in Nat /\ faults' \in Nat
  BY DEF TypeOK, Answers, Status
<1>6. LET before == Answers(m) - acked[m] - OneIf(w \in Acknowledging(m))
          after  == Answers(m)' - acked'[m] - OneIf(w \in Acknowledging(m)')
      IN  after >= before /\ after - before <= faults' - faults
  BY DEF Unowed
<1> QED
  BY <1>1, <1>2, <1>3, <1>4, <1>5, <1>6 DEF OneIf

(* A worker before its publish, or without its channel, owes no ack.       *)
LEMMA AnswersStay ==
    ASSUME TypeOK, TypeOK', AnswersMatchAcks, NEW w \in Process, Untouched(w),
           ~(pc[w] = "ack" /\ linked[w]), ~(pc'[w] = "ack" /\ linked'[w]),
           UNCHANGED <<acked, responses>>, faults' >= faults
    PROVE  AnswersMatchAcks'
<1>1. ASSUME NEW m \in Purchase
      PROVE  /\ Unowed(m, w)' >= Unowed(m, w)
             /\ Unowed(m, w)' - Unowed(m, w) <= faults' - faults
  <2>1. Unowed(m, w) = Answers(m) - acked[m] /\ Unowed(m, w)' = Answers(m) - acked[m]
    BY DEF Unowed, Acknowledging, Answers, OneIf, TypeOK, Status
  <2>2. Answers(m) - acked[m] \in Int /\ faults \in Int /\ faults' \in Int
    BY DEF Answers, TypeOK, Status
  <2> QED
    BY <2>1, <2>2
<1> QED
  BY <1>1, AnswersMove

(* With nothing acknowledged there is nothing to answer.                   *)
LEMMA AnswersInit == Init => AnswersMatchAcks
<1> SUFFICES ASSUME Init, NEW m \in Purchase
             PROVE  /\ acked[m] + Cardinality(Acknowledging(m)) <= Answers(m)
                    /\ Answers(m) <= acked[m] + Cardinality(Acknowledging(m)) + faults
  BY DEF AnswersMatchAcks
<1>1. Acknowledging(m) = {}
  BY DEF Init, StartWith, Acknowledging
<1>2. Cardinality(Acknowledging(m)) = 0
  BY <1>1, FS_EmptySet
<1> QED
  BY <1>2 DEF Init, StartWith, Answers, Status

(* No step acknowledges without an answer, or answers twice for free.      *)
LEMMA AnswersStep ==
    ASSUME TypeOK, TypeOK', WorkersOK, AnswersMatchAcks, Next
    PROVE  AnswersMatchAcks'
<1>1. CASE UNCHANGED <<pc, serving, linked, acked, responses, faults>>
  BY <1>1 DEF AnswersMatchAcks, Answers, Acknowledging
<1>2. ASSUME NEW m \in Purchase, Publish(m) \/ Expire(m)
      PROVE  AnswersMatchAcks'
  BY <1>1, <1>2 DEF Publish, Expire, workerVars
<1>3. ASSUME NEW m \in Purchase, NEW w \in Process, Deliver(w, m)
      PROVE  AnswersMatchAcks'
  <2>1. Untouched(w)
    BY <1>3, OneMoves
  <2>2. /\ pc[w] = "idle" /\ pc'[w] = "received"
        /\ UNCHANGED <<acked, responses>> /\ faults' >= faults
    BY <1>3 DEF Deliver, TypeOK
  <2> QED
    BY <2>1, <2>2, AnswersStay
<1>4. ASSUME NEW w \in Process,
             \/ RejectMalformed(w) \/ AnswerDuplicate(w) \/ RefuseSeat(w) \/ Execute(w)
             \/ Finish(w) \/ GiveUp(w) \/ Restart(w) \/ BreakRedis(w)
      PROVE  AnswersMatchAcks'
  <2>1. Untouched(w)
    BY <1>4, OneMoves
  <2>2. ~(pc[w] = "ack" /\ linked[w])
    BY <1>4 DEF RejectMalformed, AnswerDuplicate, RefuseSeat, Execute, Finish, GiveUp,
                Restart, BreakRedis, FailCommand, InCommand
  <2>3. pc'[w] # "ack"
    BY <1>4 DEF RejectMalformed, AnswerDuplicate, RefuseSeat, Execute, Finish, GiveUp,
                Restart, BreakRedis, FailCommand, Respond, Repeat, Reject, Release, End, TypeOK
  <2>4. UNCHANGED <<acked, responses>> /\ faults' >= faults
    BY <1>4 DEF RejectMalformed, AnswerDuplicate, RefuseSeat, Execute, Finish, GiveUp,
                Restart, BreakRedis, FailCommand, Respond, queueVars, TypeOK
  <2> QED
    BY <2>1, <2>2, <2>3, <2>4, AnswersStay
<1>5. ASSUME NEW w \in Process, PublishResponse(w)
      PROVE  AnswersMatchAcks'
  <2>1. Untouched(w)
    BY <1>5, OneMoves
  <2>2. serving[w] \in Purchase /\ reply[w].status \in Status
    BY <1>5 DEF PublishResponse, WorkersOK, WorkerOK, TypeOK
  <2>3. ASSUME NEW m \in Purchase
        PROVE  Unowed(m, w)' = Unowed(m, w)
    <3>1. /\ w \notin Acknowledging(m)
          /\ w \in Acknowledging(m)' <=> serving[w] = m
      BY <1>5 DEF PublishResponse, Acknowledging, TypeOK
    <3>2. Answers(m)' = Answers(m) + OneIf(serving[w] = m)
      BY <1>5, <2>2 DEF PublishResponse, One, Answers, OneIf, TypeOK, Status
    <3>3. acked' = acked /\ Answers(m) \in Nat /\ acked[m] \in Nat
      BY <1>5 DEF PublishResponse, Answers, TypeOK, Status
    <3> QED
      BY <3>1, <3>2, <3>3 DEF Unowed, OneIf
  <2>4. faults' = faults /\ faults \in Nat /\ \A m \in Purchase : Unowed(m, w) \in Int
    BY <1>5 DEF PublishResponse, TypeOK, Unowed, Answers, OneIf, Status
  <2>5. \A m \in Purchase : /\ Unowed(m, w)' >= Unowed(m, w)
                            /\ Unowed(m, w)' - Unowed(m, w) <= faults' - faults
    BY <2>3, <2>4
  <2> QED
    BY <2>1, <2>5, AnswersMove
<1>6. ASSUME NEW w \in Process, Ack(w)
      PROVE  AnswersMatchAcks'
  <2>1. Untouched(w)
    BY <1>6, OneMoves
  <2>2. serving[w] \in Purchase
    BY <1>6 DEF Ack, WorkersOK, WorkerOK, TypeOK
  <2>3. ASSUME NEW m \in Purchase
        PROVE  Unowed(m, w)' = Unowed(m, w)
    <3>1. /\ w \in Acknowledging(m) <=> serving[w] = m
          /\ w \notin Acknowledging(m)'
      BY <1>6 DEF Ack, Release, Acknowledging, TypeOK
    <3>2. acked'[m] = acked[m] + OneIf(serving[w] = m)
      BY <1>6, <2>2 DEF Ack, One, OneIf, TypeOK
    <3>3. Answers(m)' = Answers(m) /\ Answers(m) \in Nat /\ acked[m] \in Nat
      BY <1>6 DEF Ack, Answers, TypeOK, Status
    <3> QED
      BY <3>1, <3>2, <3>3 DEF Unowed, OneIf
  <2>4. faults' = faults /\ faults \in Nat /\ \A m \in Purchase : Unowed(m, w) \in Int
    BY <1>6 DEF Ack, TypeOK, Unowed, Answers, OneIf, Status
  <2>5. \A m \in Purchase : /\ Unowed(m, w)' >= Unowed(m, w)
                            /\ Unowed(m, w)' - Unowed(m, w) <= faults' - faults
    BY <2>3, <2>4
  <2> QED
    BY <2>1, <2>5, AnswersMove
<1>7. ASSUME NEW w \in Process, Disconnect(w) \/ Crash(w)
      PROVE  AnswersMatchAcks'
  <2>1. Untouched(w)
    BY <1>7, OneMoves
  <2>2. /\ ~(pc'[w] = "ack" /\ linked'[w])
        /\ UNCHANGED <<acked, responses>> /\ faults' = faults + 1
    BY <1>7 DEF Disconnect, CloseChannel, Crash, End, TypeOK
  <2>3. ASSUME NEW m \in Purchase
        PROVE  Unowed(m, w)' = Unowed(m, w) + OneIf(w \in Acknowledging(m))
    <3>1. w \notin Acknowledging(m)'
      BY <2>2 DEF Acknowledging
    <3>2. Answers(m)' = Answers(m) /\ Answers(m) \in Nat /\ acked[m] \in Nat
      BY <2>2 DEF Answers, TypeOK, Status
    <3> QED
      BY <2>2, <3>1, <3>2 DEF Unowed, OneIf
  <2>4. faults \in Nat /\ \A m \in Purchase : Unowed(m, w) \in Int
    BY DEF TypeOK, Unowed, Answers, OneIf, Status
  <2>5. \A m \in Purchase : /\ Unowed(m, w)' >= Unowed(m, w)
                            /\ Unowed(m, w)' - Unowed(m, w) <= faults' - faults
    BY <2>2, <2>3, <2>4 DEF OneIf
  <2> QED
    BY <2>1, <2>5, AnswersMove
<1> QED
  BY <1>2, <1>3, <1>4, <1>5, <1>6, <1>7, NextCases

-----------------------------------------------------------------------------
(* Sales and who is told of them                                           *)

(* What is published or interrupted stays so, a seat keeps its owner, and  *)
(* only the command a worker runs gives anyone a ticket or seat.           *)
LEMMA StoreStep ==
    ASSUME TypeOK, WorkersOK, Next
    PROVE  /\ \A m \in Purchase, s \in Status : responses'[m][s] >= responses[m][s]
           /\ interrupted \subseteq interrupted'
           /\ \A m \in Purchase : SeatBacked(m) => SeatBacked(m)'
           /\ \A m \in Purchase : m \in Holders' =>
                 m \in Holders \/ \E w \in Process : Execute(w) /\ Untold(w)' /\ serving[w] = m
<1>1. CASE UNCHANGED <<storeVars, responses>> /\ interrupted \subseteq interrupted'
  BY <1>1 DEF storeVars, SeatBacked, Holders, TypeOK
<1>2. ASSUME NEW m \in Purchase, \/ Publish(m) \/ Expire(m)
                                 \/ \E w \in Process : Deliver(w, m)
      PROVE  UNCHANGED <<storeVars, responses>> /\ interrupted \subseteq interrupted'
  BY <1>2 DEF Publish, Expire, Deliver
<1>3. ASSUME NEW w \in Process,
             \/ RejectMalformed(w) \/ AnswerDuplicate(w) \/ RefuseSeat(w) \/ Finish(w)
             \/ Ack(w) \/ GiveUp(w) \/ Restart(w) \/ Disconnect(w) \/ Crash(w) \/ BreakRedis(w)
      PROVE  UNCHANGED <<storeVars, responses>> /\ interrupted \subseteq interrupted'
  BY <1>3 DEF RejectMalformed, AnswerDuplicate, RefuseSeat, Finish, Ack, GiveUp, Restart,
              Disconnect, CloseChannel, Crash, BreakRedis, FailCommand, Respond, queueVars
<1>4. ASSUME NEW w \in Process, PublishResponse(w)
      PROVE  /\ UNCHANGED <<storeVars, interrupted>>
             /\ \A m \in Purchase, s \in Status : responses'[m][s] >= responses[m][s]
  BY <1>4 DEF PublishResponse, One, TypeOK
<1>5. ASSUME NEW w \in Process, Execute(w)
      PROVE  /\ \A m \in Purchase : SeatBacked(m) => SeatBacked(m)'
             /\ \A m \in Purchase : m \in Holders' =>
                   m \in Holders \/ (Untold(w)' /\ serving[w] = m)
  <2>1. PICK granted \in BOOLEAN : /\ RunCommand(serving[w], granted)
                                   /\ reply' = [reply EXCEPT ![w] = Answer(serving[w], granted)]
    BY <1>5 DEF Execute
  <2>2. serving[w] \in Purchase
    BY <1>5 DEF Execute, WorkersOK, WorkerOK, TypeOK
  <2>3. granted => Untold(w)'
    BY <1>5, <2>1 DEF Execute, Untold, Answer, TypeOK
  <2>4. CASE OrderOf[serving[w]].type = "unnumbered"
    <3>1. owner' = owner /\ buyers' = IF granted THEN buyers \cup {serving[w]} ELSE buyers
      BY <2>1, <2>4 DEF RunCommand, IncrBounded
    <3>2. \A m \in Purchase : SeatBacked(m)' <=> SeatBacked(m)
      BY <3>1 DEF SeatBacked
    <3>3. CASE granted
      <4>1. \A m \in Purchase : m \in Holders' => m \in Holders \/ serving[w] = m
        BY <3>1, <3>3 DEF Holders
      <4> QED
        BY <2>3, <3>2, <3>3, <4>1
    <3>4. CASE ~granted
      <4>1. Holders' = Holders
        BY <3>1, <3>4 DEF Holders
      <4> QED
        BY <3>2, <4>1
    <3> QED
      BY <3>3, <3>4
  <2>5. CASE OrderOf[serving[w]].type # "unnumbered"
    <3>1. OrderOf[serving[w]].seat \in Seats
      BY <1>5, <2>5 DEF Execute, NeedsStore
    <3>2. buyers' = buyers
      BY <2>1, <2>5 DEF RunCommand, SetSeatNX
    <3>3. CASE granted
      <4>1. /\ owner[OrderOf[serving[w]].seat] = Nobody
            /\ owner' = [owner EXCEPT ![OrderOf[serving[w]].seat] = serving[w]]
        BY <2>1, <2>5, <3>3 DEF RunCommand, SetSeatNX
      <4>2. \A s \in Seats : owner'[s] = IF s = OrderOf[serving[w]].seat THEN serving[w]
                                                                        ELSE owner[s]
        BY <4>1 DEF TypeOK, BackendTypeOK
      <4>3. \A m \in Purchase : SeatBacked(m) => SeatBacked(m)'
        BY <4>1, <4>2 DEF SeatBacked
      <4>4. \A m \in Purchase : m \in Holders' => m \in Holders \/ serving[w] = m
        BY <3>2, <4>2 DEF Holders
      <4>5. Untold(w)'
        BY <2>3, <3>3
      <4> QED
        BY <4>3, <4>4, <4>5
    <3>4. CASE ~granted
      <4>1. owner' = owner
        BY <2>1, <2>5, <3>4 DEF RunCommand, SetSeatNX
      <4>2. Holders' = Holders
        BY <3>2, <4>1 DEF Holders
      <4>3. \A m \in Purchase : SeatBacked(m)' <=> SeatBacked(m)
        BY <4>1 DEF SeatBacked
      <4> QED
        BY <4>2, <4>3
    <3> QED
      BY <3>3, <3>4
  <2> QED
    BY <2>4, <2>5
<1>6. ASSUME NEW w \in Process, Execute(w)
      PROVE  UNCHANGED <<responses, interrupted>>
  BY <1>6 DEF Execute, queueVars
<1>7. CASE \E w \in Process : Execute(w)
  BY <1>5, <1>6, <1>7 DEF TypeOK
<1>8. CASE \E w \in Process : PublishResponse(w)
  BY <1>4, <1>8 DEF storeVars, SeatBacked, Holders
<1> QED
  BY <1>1, <1>2, <1>3, <1>7, <1>8, NextCases

(* A worker has news of a sale from the command it ran to the response it  *)
(* publishes.                                                              *)
LEMMA UntoldStep ==
    ASSUME TypeOK, WorkersOK, Next, ~(\E w \in Process : Execute(w) \/ PublishResponse(w))
    PROVE  /\ responses' = responses
           /\ \A w \in Process : Untold(w)' => Untold(w) /\ serving'[w] = serving[w]
           /\ \A w \in Process : Untold(w) => \/ Untold(w)' /\ serving'[w] = serving[w]
                                              \/ serving[w] \in interrupted'
<1> DEFINE Kept(w) == /\ Untold(w)' => Untold(w) /\ serving'[w] = serving[w]
                      /\ Untold(w) => \/ Untold(w)' /\ serving'[w] = serving[w]
                                      \/ serving[w] \in interrupted'
<1>1. ASSUME NEW v \in Process, pc'[v] = pc[v], serving'[v] = serving[v], reply'[v] = reply[v]
      PROVE  Kept(v)
  BY <1>1 DEF Untold
<1>2. ASSUME NEW v \in Process, ~Untold(v), ~Untold(v)'
      PROVE  Kept(v)
  BY <1>2
<1>3. ASSUME NEW m \in Purchase, Publish(m) \/ Expire(m)
      PROVE  responses' = responses /\ \A v \in Process : Kept(v)
  BY <1>1, <1>3 DEF Publish, Expire, workerVars
<1>4. ASSUME NEW m \in Purchase, NEW w \in Process, Deliver(w, m)
      PROVE  responses' = responses /\ Kept(w)
  <2>1. ~Untold(w) /\ ~Untold(w)'
    BY <1>4 DEF Deliver, Untold, TypeOK
  <2> QED
    BY <1>2, <1>4, <2>1 DEF Deliver
<1>5. ASSUME NEW w \in Process, RejectMalformed(w) \/ Ack(w) \/ Restart(w)
      PROVE  responses' = responses /\ Kept(w)
  <2>1. ~Untold(w) /\ ~Untold(w)'
    BY <1>5 DEF RejectMalformed, Reject, Release, End, Ack, Restart, Untold, TypeOK
  <2> QED
    BY <1>2, <1>5, <2>1 DEF RejectMalformed, Ack, Restart, queueVars
<1>6. ASSUME NEW w \in Process, AnswerDuplicate(w) \/ RefuseSeat(w)
      PROVE  responses' = responses /\ Kept(w)
  <2>1. ~Untold(w) /\ ~Untold(w)'
    BY <1>6 DEF AnswerDuplicate, RefuseSeat, Respond, DuplicateOf, Failure, Untold, TypeOK
  <2> QED
    BY <1>2, <1>6, <2>1 DEF AnswerDuplicate, RefuseSeat, Respond, queueVars
<1>7. ASSUME NEW w \in Process, Finish(w)
      PROVE  responses' = responses /\ Kept(w)
  BY <1>7 DEF Finish, Respond, queueVars, Untold, TypeOK
<1>8. ASSUME NEW w \in Process, GiveUp(w) \/ Crash(w)
      PROVE  responses' = responses /\ Kept(w)
  <2>1. ~Untold(w)' /\ responses' = responses
    BY <1>8 DEF GiveUp, Crash, End, Untold, queueVars, TypeOK
  <2>2. Untold(w) => serving[w] \in interrupted'
    BY <1>8 DEF GiveUp, Crash
  <2> QED
    BY <2>1, <2>2
<1>9. ASSUME NEW w \in Process, Disconnect(w)
      PROVE  responses' = responses /\ Kept(w)
  BY <1>1, <1>9 DEF Disconnect, CloseChannel
<1>10. ASSUME NEW w \in Process, BreakRedis(w)
       PROVE  responses' = responses /\ Kept(w)
  <2>1. ~Untold(w)' /\ responses' = responses
    BY <1>10 DEF BreakRedis, FailCommand, Repeat, Reject, Release, End, Untold, TypeOK
  <2>2. Untold(w) => serving[w] \in interrupted'
    BY <1>10 DEF BreakRedis, FailCommand
  <2> QED
    BY <2>1, <2>2
<1>11. ASSUME NEW w \in Process, Untouched(w), responses' = responses /\ Kept(w)
       PROVE  responses' = responses /\ \A v \in Process : Kept(v)
  BY <1>1, <1>11 DEF Untouched
<1>12. CASE \E m \in Purchase, w \in Process : Deliver(w, m)
  BY <1>4, <1>11, <1>12, OneMoves
<1>13. CASE \E w \in Process : \/ RejectMalformed(w) \/ Ack(w) \/ Restart(w)
                               \/ AnswerDuplicate(w) \/ RefuseSeat(w) \/ Finish(w)
                               \/ GiveUp(w) \/ Crash(w) \/ Disconnect(w) \/ BreakRedis(w)
  <2>1. PICK w \in Process : \/ RejectMalformed(w) \/ Ack(w) \/ Restart(w)
                             \/ AnswerDuplicate(w) \/ RefuseSeat(w) \/ Finish(w)
                             \/ GiveUp(w) \/ Crash(w) \/ Disconnect(w) \/ BreakRedis(w)
    BY <1>13
  <2>2. Untouched(w)
    BY <2>1, OneMoves
  <2>3. responses' = responses /\ Kept(w)
    BY <1>5, <1>6, <1>7, <1>8, <1>9, <1>10, <2>1
  <2> QED
    BY <1>11, <2>2, <2>3
<1>14. CASE \E m \in Purchase : Publish(m) \/ Expire(m)
  BY <1>3, <1>14
<1> QED
  BY <1>12, <1>13, <1>14, NextCases

(* Nobody has been told of a seat at the start.                            *)
LEMMA SeatInit == Init => SeatClaims /\ SeatClaimedOnce
  BY DEF Init, StartWith, SeatClaims, SeatClaimedOnce, Untold, Status

(* No step promises a seat to another request, or a second time.           *)
LEMMA SeatStep ==
    ASSUME TypeOK, WorkersOK, SeatClaims, SeatClaimedOnce, Next
    PROVE  SeatClaims' /\ SeatClaimedOnce'
<1>1. \A m \in Purchase : SeatBacked(m) => SeatBacked(m)'
  BY StoreStep
<1>2. CASE ~(\E w \in Process : Execute(w) \/ PublishResponse(w))
  <2>1. /\ responses' = responses
        /\ \A w \in Process : Untold(w)' => Untold(w) /\ serving'[w] = serving[w]
    BY <1>2, UntoldStep
  <2>2. SeatClaims'
    BY <1>1, <2>1 DEF SeatClaims
  <2>3. SeatClaimedOnce'
    BY <2>1 DEF SeatClaimedOnce
  <2> QED
    BY <2>2, <2>3
<1>3. ASSUME NEW w \in Process, Execute(w)
      PROVE  SeatClaims' /\ SeatClaimedOnce'
  <2>1. PICK granted \in BOOLEAN : /\ RunCommand(serving[w], granted)
                                   /\ reply' = [reply EXCEPT ![w] = Answer(serving[w], granted)]
    BY <1>3 DEF Execute
  <2>2. /\ serving[w] \in Purchase /\ NeedsStore(serving[w])
        /\ responses' = responses /\ serving' = serving
    BY <1>3 DEF Execute, WorkersOK, WorkerOK, TypeOK, queueVars
  <2>3. \A v \in Process \ {w} : Untold(v)' <=> Untold(v)
    BY <1>3, <2>1 DEF Execute, Untold, TypeOK
  <2>4. /\ ~Untold(w)
        /\ Untold(w)' => granted
    BY <1>3, <2>1 DEF Execute, Untold, Answer, TypeOK
  <2>5. CASE OrderOf[serving[w]].type = "numbered" /\ granted
    <3>1. /\ OrderOf[serving[w]].seat \in Seats
          /\ owner[OrderOf[serving[w]].seat] = Nobody
          /\ owner' = [owner EXCEPT ![OrderOf[serving[w]].seat] = serving[w]]
      BY <2>1, <2>2, <2>5 DEF NeedsStore, RunCommand, SetSeatNX
    <3>2. ~SeatBacked(serving[w]) /\ SeatBacked(serving[w])'
      BY <2>2, <3>1 DEF SeatBacked, TypeOK, BackendTypeOK
    <3>3. /\ responses[serving[w]]["success"] = 0
          /\ \A v \in Process : ~(Untold(v) /\ serving[v] = serving[w])
      BY <2>2, <2>5, <3>2 DEF SeatClaims, TypeOK, Status
    <3>4. SeatClaims'
      BY <1>1, <2>2, <2>3, <3>2 DEF SeatClaims
    <3>5. SeatClaimedOnce'
      BY <2>2, <2>3, <3>3 DEF SeatClaimedOnce
    <3> QED
      BY <3>4, <3>5
  <2>6. CASE ~(OrderOf[serving[w]].type = "numbered" /\ granted)
    <3>1. \A m \in Purchase, v \in Process :
              OrderOf[m].type = "numbered" /\ Untold(v)' /\ serving[v] = m => Untold(v)
      BY <2>3, <2>4, <2>6
    <3>2. SeatClaims'
      BY <1>1, <2>2, <3>1 DEF SeatClaims
    <3>3. SeatClaimedOnce'
      BY <2>2, <3>1 DEF SeatClaimedOnce
    <3> QED
      BY <3>2, <3>3
  <2> QED
    BY <2>5, <2>6
<1>4. ASSUME NEW w \in Process, PublishResponse(w)
      PROVE  SeatClaims' /\ SeatClaimedOnce'
  <2>1. serving[w] \in Purchase /\ serving' = serving /\ reply' = reply
    BY <1>4 DEF PublishResponse, WorkersOK, WorkerOK, TypeOK
  <2>2. /\ ~Untold(w)'
        /\ \A v \in Process \ {w} : Untold(v)' <=> Untold(v)
    BY <1>4 DEF PublishResponse, Untold, TypeOK
  <2>3. \A m \in Purchase : responses'[m]["success"] =
            IF Untold(w) /\ serving[w] = m THEN responses[m]["success"] + 1
                                           ELSE responses[m]["success"]
    BY <1>4, <2>1 DEF PublishResponse, One, Untold, TypeOK, Status
  <2>4. SeatClaims'
    BY <1>1, <2>1, <2>2, <2>3 DEF SeatClaims
  <2>5. SeatClaimedOnce'
    BY <2>1, <2>2, <2>3 DEF SeatClaimedOnce
  <2> QED
    BY <2>4, <2>5
<1> QED
  BY <1>2, <1>3, <1>4

(* The claims of two messages for one seat are claims of its one owner.    *)
LEMMA SeatToldOnceHolds ==
    ASSUME TypeOK, SeatClaims, SeatClaimedOnce
    PROVE  SeatToldOnce
<1> SUFFICES ASSUME NEW m \in Purchase, OrderOf[m].type = "numbered",
                    responses[m]["success"] > 0
             PROVE  /\ responses[m]["success"] = 1
                    /\ \A n \in Purchase \ {m} :
                          OrderOf[n].type = "numbered" /\ OrderOf[n].seat = OrderOf[m].seat =>
                              responses[n]["success"] = 0
  BY DEF SeatToldOnce
<1>1. responses[m]["success"] = 1
  BY DEF SeatClaimedOnce, TypeOK, Status
<1>2. ASSUME NEW n \in Purchase \ {m}, OrderOf[n].type = "numbered",
             OrderOf[n].seat = OrderOf[m].seat
      PROVE  responses[n]["success"] = 0
  <2>1. ~(responses[n]["success"] > 0)
    BY <1>2 DEF SeatClaims, SeatBacked
  <2> QED
    BY <2>1 DEF TypeOK, Status
<1> QED
  BY <1>1, <1>2

(* Nobody holds a seat at the start.                                       *)
LEMMA NoUntoldInit == Init => NoUntoldSale
  BY DEF Init, StartWith, BackendInit, NoUntoldSale, Holders

(* No step but a fault leaves the buyer of a seat untold.                  *)
LEMMA NoUntoldStep ==
    ASSUME TypeOK, WorkersOK, NoUntoldSale, Next
    PROVE  NoUntoldSale'
<1> SUFFICES ASSUME NEW m \in Holders'
             PROVE  \/ \E w \in Process : serving'[w] = m /\ Untold(w)'
                    \/ responses'[m]["success"] > 0
                    \/ m \in interrupted'
  BY DEF NoUntoldSale
<1>1. m \in Purchase
  BY DEF Holders
<1>2. /\ responses'[m]["success"] >= responses[m]["success"] /\ interrupted \subseteq interrupted'
      /\ responses[m]["success"] \in Nat /\ responses'[m]["success"] \in Int
  <2>1. responses'[m]["success"] >= responses[m]["success"] /\ interrupted \subseteq interrupted'
    BY <1>1, StoreStep DEF Status
  <2>2. TypeOK'
    BY TypeStep
  <2> QED
    BY <1>1, <2>1, <2>2 DEF TypeOK, Status
<1>3. CASE \E w \in Process : Execute(w) /\ Untold(w)' /\ serving[w] = m
  BY <1>3 DEF Execute
<1>4. CASE m \in Holders
  <2>1. CASE responses[m]["success"] > 0 \/ m \in interrupted
    BY <1>2, <2>1
  <2>2. ASSUME NEW w \in Process, serving[w] = m, Untold(w)
        PROVE  \/ \E v \in Process : serving'[v] = m /\ Untold(v)'
               \/ responses'[m]["success"] > 0
               \/ m \in interrupted'
    <3>1. CASE ~(\E v \in Process : Execute(v) \/ PublishResponse(v))
      BY <2>2, <3>1, UntoldStep
    <3>2. ASSUME NEW v \in Process, Execute(v)
          PROVE  serving'[w] = m /\ Untold(w)'
      <4>1. v # w
        BY <2>2, <3>2 DEF Execute, Untold
      <4> QED
        BY <2>2, <3>2, <4>1 DEF Execute, Untold, TypeOK
    <3>3. ASSUME NEW v \in Process, PublishResponse(v)
          PROVE  \/ serving'[w] = m /\ Untold(w)'
                 \/ responses'[m]["success"] > 0
      <4>1. CASE v = w
        <5>1. responses'[m]["success"] = responses[m]["success"] + 1
          BY <1>1, <2>2, <3>3, <4>1 DEF PublishResponse, One, Untold, TypeOK, Status
        <5> QED
          BY <1>2, <5>1
      <4>2. CASE v # w
        BY <2>2, <3>3, <4>2 DEF PublishResponse, Untold, TypeOK
      <4> QED
        BY <4>1, <4>2
    <3> QED
      BY <3>1, <3>2, <3>3
  <2> QED
    BY <1>4, <2>1, <2>2 DEF NoUntoldSale
<1> QED
  BY <1>1, <1>3, <1>4, StoreStep

-----------------------------------------------------------------------------
(* The caches of the workers                                               *)

(* A published verdict stays published.                                    *)
LEMMA DecidedStays ==
    ASSUME TypeOK, WorkersOK, Next, NEW i, Decided(i)
    PROVE  Decided(i)'
<1>1. PICK n \in Purchase : /\ OrderOf[n].id = i
                            /\ responses[n]["success"] + responses[n]["failed"] > 0
  BY DEF Decided
<1>2. /\ responses'[n]["success"] >= responses[n]["success"]
      /\ responses'[n]["failed"] >= responses[n]["failed"]
  BY StoreStep DEF Status
<1>3. TypeOK'
  BY TypeStep
<1>4. /\ responses[n]["success"] \in Nat /\ responses[n]["failed"] \in Nat
      /\ responses'[n]["success"] \in Nat /\ responses'[n]["failed"] \in Nat
  BY <1>3 DEF TypeOK, Status
<1>5. responses'[n]["success"] + responses'[n]["failed"] > 0
  BY <1>1, <1>2, <1>4
<1> QED
  BY <1>1, <1>5 DEF Decided

(* What one worker relies on.                                              *)
Relies(w) ==
    /\ \A i \in Ids : processed[w][i] # NoResponse =>
          \/ Decided(i)
          \/ /\ pc[w] = "respond" /\ OrderOf[serving[w]].id = i
             /\ reply[w].status \in {"success", "failed"}
    /\ pc[w] = "respond" /\ reply[w].status = "duplicate" => Decided(OrderOf[serving[w]].id)

(* The caches are empty at the start.                                      *)
LEMMA CacheInit == Init => CacheBacked /\ DuplicateBacked /\ NoOrphanDuplicate
  BY DEF Init, StartWith, BackendInit, EmptyCache, CacheBacked, DuplicateBacked,
         NoOrphanDuplicate, Status

(* What a cache holds, and what is told from it, stays backed.             *)
LEMMA CacheStep ==
    ASSUME TypeOK, WorkersOK, CacheBacked, DuplicateBacked, Next
    PROVE  CacheBacked' /\ DuplicateBacked'
<1>1. \A v \in Process : Relies(v)
  BY DEF CacheBacked, DuplicateBacked, Relies
<1>2. \A i : Decided(i) => Decided(i)'
  BY DecidedStays
<1>3. ASSUME NEW v \in Process, processed'[v] = processed[v], pc'[v] = pc[v],
             serving'[v] = serving[v], reply'[v] = reply[v]
      PROVE  Relies(v)'
  BY <1>1, <1>2, <1>3 DEF Relies
<1>4. ASSUME NEW v \in Process, processed'[v] = processed[v], pc[v] # "respond", pc'[v] # "respond"
      PROVE  Relies(v)'
  BY <1>1, <1>2, <1>4 DEF Relies
<1>5. ASSUME NEW v \in Process, End(v)
      PROVE  Relies(v)'
  <2>1. pc'[v] = "off" /\ processed'[v] = EmptyCache
    BY <1>5 DEF End, Forget, TypeOK, BackendTypeOK
  <2> QED
    BY <2>1 DEF Relies, EmptyCache
<1>6. ASSUME NEW v \in Process, NEW resp \in Response, serving[v] \in Purchase,
             pc[v] \in {"received", "reply"}, resp.status \in {"success", "failed"},
             Remember(v, serving[v], resp), Respond(v, resp)
      PROVE  Relies(v)'
  <2>1. /\ pc'[v] = "respond" /\ reply'[v] = resp /\ serving' = serving
        /\ \A i \in Ids : i # OrderOf[serving[v]].id => processed'[v][i] = processed[v][i]
    BY <1>6 DEF Remember, Respond, TypeOK, BackendTypeOK
  <2> QED
    BY <1>1, <1>2, <1>6, <2>1 DEF Relies
<1>7. ASSUME NEW m \in Purchase, Publish(m) \/ Expire(m)
      PROVE  \A v \in Process : Relies(v)'
  BY <1>3, <1>7 DEF Publish, Expire, workerVars
<1>8. ASSUME NEW w \in Process, Untouched(w), Relies(w)'
      PROVE  \A v \in Process : Relies(v)'
  BY <1>3, <1>8 DEF Untouched
<1>9. ASSUME NEW m \in Purchase, NEW w \in Process, Deliver(w, m)
      PROVE  Relies(w)'
  BY <1>4, <1>9 DEF Deliver, TypeOK
<1>10. ASSUME NEW w \in Process, RejectMalformed(w) \/ BreakRedis(w)
       PROVE  Relies(w)'
  <2>1. pc[w] \in {"received", "reply"}
    BY <1>10 DEF RejectMalformed, BreakRedis, FailCommand, InCommand
  <2>2. CASE Repeat(w)
    BY <1>4, <2>1, <2>2 DEF Repeat, TypeOK
  <2>3. CASE Reject(w)
    BY <1>4, <1>5, <2>1, <2>3 DEF Reject, Release, TypeOK
  <2> QED
    BY <1>10, <2>2, <2>3 DEF RejectMalformed, BreakRedis, FailCommand
<1>11. ASSUME NEW w \in Process, AnswerDuplicate(w)
       PROVE  Relies(w)'
  <2>1. serving[w] \in Purchase
    BY <1>11 DEF AnswerDuplicate, WorkersOK, WorkerOK, TypeOK
  <2>2. Decided(OrderOf[serving[w]].id)
    BY <1>1, <1>11, <2>1 DEF AnswerDuplicate, Cached, Relies
  <2>3. /\ processed' = processed /\ serving' = serving
        /\ pc[w] = "received" /\ reply'[w].status = "duplicate"
    BY <1>11 DEF AnswerDuplicate, Respond, DuplicateOf, TypeOK
  <2> QED
    BY <1>1, <1>2, <2>2, <2>3 DEF Relies
<1>12. ASSUME NEW w \in Process, RefuseSeat(w)
       PROVE  Relies(w)'
  <2>1. serving[w] \in Purchase
    BY <1>12 DEF RefuseSeat, WorkersOK, WorkerOK, TypeOK
  <2> QED
    BY <1>6, <1>12, <2>1, ResponseTypes DEF RefuseSeat, Failure
<1>13. ASSUME NEW w \in Process, Execute(w)
       PROVE  Relies(w)'
  BY <1>4, <1>13 DEF Execute, TypeOK
<1>14. ASSUME NEW w \in Process, Finish(w)
       PROVE  Relies(w)'
  <2>1. serving[w] \in Purchase /\ reply[w] \in Response
    BY <1>14 DEF Finish, WorkersOK, WorkerOK, TypeOK
  <2>2. \E granted \in BOOLEAN : reply[w] = Answer(serving[w], granted)
    BY <1>14 DEF Finish, WorkersOK, WorkerOK
  <2>3. reply[w].status \in {"success", "failed"}
    BY <2>2 DEF Answer
  <2> QED
    BY <1>6, <1>14, <2>1, <2>3 DEF Finish
<1>15. ASSUME NEW w \in Process, PublishResponse(w)
       PROVE  Relies(w)'
  <2>1. serving[w] \in Purchase
    BY <1>15 DEF PublishResponse, WorkersOK, WorkerOK, TypeOK
  <2>2. processed' = processed /\ serving' = serving /\ pc'[w] = "ack"
    BY <1>15 DEF PublishResponse, TypeOK
  <2>3. CASE reply[w].status \in {"success", "failed"}
    <3>1. responses'[serving[w]] = One(responses[serving[w]], reply[w].status)
      BY <1>15, <2>1 DEF PublishResponse, TypeOK
    <3>2. responses[serving[w]] \in [Status -> Nat]
      BY <2>1 DEF TypeOK
    <3>3. responses'[serving[w]]["success"] + responses'[serving[w]]["failed"] > 0
      BY <2>3, <3>1, <3>2 DEF One, Status
    <3>4. Decided(OrderOf[serving[w]].id)'
      BY <2>1, <2>2, <3>3 DEF Decided
    <3> QED
      BY <1>1, <1>2, <2>2, <3>4 DEF Relies
  <2>4. CASE reply[w].status \notin {"success", "failed"}
    BY <1>1, <1>2, <2>2, <2>4 DEF Relies
  <2> QED
    BY <2>3, <2>4
<1>16. ASSUME NEW w \in Process, Ack(w) \/ Restart(w)
       PROVE  Relies(w)'
  BY <1>4, <1>16 DEF Ack, Release, Restart, TypeOK
<1>17. ASSUME NEW w \in Process, GiveUp(w) \/ Crash(w)
       PROVE  Relies(w)'
  BY <1>5, <1>17 DEF GiveUp, Crash
<1>18. ASSUME NEW w \in Process, Disconnect(w)
       PROVE  Relies(w)'
  BY <1>3, <1>18 DEF Disconnect, CloseChannel
<1>19. \A v \in Process : Relies(v)'
  <2>1. CASE \E m \in Purchase : Publish(m) \/ Expire(m)
    BY <1>7, <2>1
  <2>2. CASE \E w \in Process, m \in Purchase : Deliver(w, m)
    BY <1>8, <1>9, <2>2, OneMoves
  <2>3. CASE \E w \in Process : \/ RejectMalformed(w) \/ BreakRedis(w) \/ AnswerDuplicate(w)
                                \/ RefuseSeat(w) \/ Execute(w) \/ Finish(w)
                                \/ PublishResponse(w) \/ Ack(w) \/ Restart(w)
                                \/ GiveUp(w) \/ Crash(w) \/ Disconnect(w)
    <3>1. PICK w \in Process : \/ RejectMalformed(w) \/ BreakRedis(w) \/ AnswerDuplicate(w)
                               \/ RefuseSeat(w) \/ Execute(w) \/ Finish(w)
                               \/ PublishResponse(w) \/ Ack(w) \/ Restart(w)
                               \/ GiveUp(w) \/ Crash(w) \/ Disconnect(w)
      BY <2>3
    <3>2. Untouched(w)
      BY <3>1, OneMoves
    <3>3. Relies(w)'
      BY <1>10, <1>11, <1>12, <1>13, <1>14, <1>15, <1>16, <1>17, <1>18, <3>1
    <3> QED
      BY <1>8, <3>2, <3>3
  <2> QED
    BY <2>1, <2>2, <2>3, NextCases
<1> QED
  BY <1>19 DEF CacheBacked, DuplicateBacked, Relies

(* No step answers DUPLICATE to a request nobody decided.                  *)
LEMMA OrphanStep ==
    ASSUME TypeOK, WorkersOK, DuplicateBacked, NoOrphanDuplicate, Next
    PROVE  NoOrphanDuplicate'
<1> SUFFICES ASSUME NEW m \in Purchase, responses'[m]["duplicate"] > 0
             PROVE  Decided(OrderOf[m].id)'
  BY DEF NoOrphanDuplicate, Decided
<1>1. CASE responses[m]["duplicate"] > 0
  <2>1. Decided(OrderOf[m].id)
    BY <1>1 DEF NoOrphanDuplicate, Decided
  <2> QED
    BY <2>1, DecidedStays
<1>2. CASE ~(responses[m]["duplicate"] > 0)
  <2>1. responses' # responses
    BY <1>2
  <2>2. PICK w \in Process : PublishResponse(w)
    <3>1. CASE ~(\E w \in Process : Execute(w) \/ PublishResponse(w))
      BY <2>1, <3>1, UntoldStep
    <3>2. CASE \E w \in Process : Execute(w)
      BY <2>1, <3>2 DEF Execute, queueVars
    <3> QED
      BY <3>1, <3>2
  <2>3. serving[w] = m /\ reply[w].status = "duplicate"
    BY <1>2, <2>2 DEF PublishResponse, One, TypeOK, WorkersOK, WorkerOK, Status
  <2>4. Decided(OrderOf[m].id)
    BY <2>2, <2>3 DEF PublishResponse, DuplicateBacked
  <2> QED
    BY <2>4, DecidedStays
<1> QED
  BY <1>1, <1>2

-----------------------------------------------------------------------------
(* The stock                                                               *)

(* One more SUCCESS for a ticket is one more that was told.                *)
LEMMA ToldMore ==
    ASSUME TypeOK, IsFiniteSet(Told), NEW m \in Purchase, NEW s \in Status,
           responses' = [responses EXCEPT ![m] = One(@, s)]
    PROVE  /\ IsFiniteSet(Told')
           /\ Cardinality(Told)' = Cardinality(Told)
                                    + OneIf(m \in Unnumbered /\ s = "success")
<1> DEFINE k == responses[m]["success"] + 1
<1>0. /\ responses \in [Purchase -> [Status -> Nat]] /\ "success" \in Status
      /\ Cardinality(Told) \in Nat
  BY FS_CardinalityType DEF TypeOK, Status
<1>1. CASE m \in Unnumbered /\ s = "success"
  <2>1. /\ responses'[m]["success"] = k
        /\ \A n \in Purchase : n # m => responses'[n]["success"] = responses[n]["success"]
    BY <1>0, <1>1 DEF One
  <2>2. /\ k \in Nat /\ k - 1 = responses[m]["success"]
        /\ 1..k = (1..(k - 1)) \cup {k} /\ k \notin 1..(k - 1)
    <3>1. responses[m]["success"] \in Nat
      BY <1>0
    <3>2. k \in Nat /\ k - 1 = responses[m]["success"]
      BY <3>1
    <3>3. \A i : i \in 1..k <=> i \in 1..(k - 1) \/ i = k
      BY <3>1
    <3>4. k \notin 1..(k - 1)
      BY <3>1
    <3> HIDE DEF k
    <3>5. 1..k = (1..(k - 1)) \cup {k}
      BY <3>3
    <3> QED
      BY <3>2, <3>4, <3>5
  <2>3. Told' = Told \cup {<<m, k>>} /\ <<m, k>> \notin Told
    <3>1. \A n \in Unnumbered : n \in Purchase
      BY DEF Unnumbered
    <3>2. \A x : x \in Told' <=>
                 \E n \in Unnumbered : \E i \in 1..responses'[n]["success"] : x = <<n, i>>
      BY DEF Told
    <3>3. \A x : x \in Told <=>
                 \E n \in Unnumbered : \E i \in 1..responses[n]["success"] : x = <<n, i>>
      BY DEF Told
    <3>4. \A x : x \in Told' <=> x \in Told \/ x = <<m, k>>
      BY <1>1, <2>1, <2>2, <3>1, <3>2, <3>3
    <3>5. <<m, k>> \notin Told
      BY <2>2, <3>3
    <3> QED
      BY <3>4, <3>5
  <2>4. IsFiniteSet(Told \cup {<<m, k>>})
        /\ Cardinality(Told \cup {<<m, k>>}) = Cardinality(Told) + 1
    BY <2>3, FS_AddElement
  <2> QED
    BY <1>1, <2>3, <2>4 DEF OneIf
<1>2. CASE ~(m \in Unnumbered /\ s = "success")
  <2>1. \A n \in Unnumbered : responses'[n]["success"] = responses[n]["success"]
    BY <1>0, <1>2 DEF One, Unnumbered
  <2>2. Told' = Told
    BY <2>1 DEF Told
  <2> QED
    BY <1>0, <1>2, <2>2 DEF OneIf
<1> QED
  BY <1>1, <1>2

(* What a step of worker w does to the claims on the counter.              *)
Claim(w) == OneIf(w \in Pending)

(* StockOK survives a step of worker w that is paid for: by the counter,   *)
(* by a response, by a fault, or by the fault that closed its channel.     *)
LEMMA StockMove ==
    ASSUME TypeOK, TypeOK', StockOK, NEW w \in Process, Untouched(w), NEW gain \in {0, 1},
           IsFiniteSet(Told'), Cardinality(Told)' = Cardinality(Told) + gain,
           gain + Claim(w)' - Claim(w) <= count' - count,
           count' - count + OneIf(w \in Cut)' - OneIf(w \in Cut)
               <= gain + Claim(w)' - Claim(w) + faults' - faults
    PROVE  StockOK'
<1>1. /\ Cardinality(Pending \ {w}) \in Nat
      /\ Cardinality(Pending) = Cardinality(Pending \ {w}) + OneIf(w \in Pending)
  BY CountBut DEF Pending
<1>2. Cardinality(Pending') = Cardinality(Pending' \ {w}) + OneIf(w \in Pending')
  BY CountBut DEF Pending
<1>3. /\ Cardinality(Cut \ {w}) \in Nat
      /\ Cardinality(Cut) = Cardinality(Cut \ {w}) + OneIf(w \in Cut)
  BY CountBut DEF Cut
<1>4. Cardinality(Cut') = Cardinality(Cut' \ {w}) + OneIf(w \in Cut')
  BY CountBut DEF Cut
<1>5. Cardinality(Pending' \ {w}) = Cardinality(Pending \ {w})
  <2>1. Pending' \ {w} = Pending \ {w}
    BY DEF Pending, Untold, Untouched
  <2> QED
    BY <2>1
<1>6. Cardinality(Cut' \ {w}) = Cardinality(Cut \ {w})
  <2>1. Cut' \ {w} = Cut \ {w}
    BY DEF Cut, Untouched
  <2> QED
    BY <2>1
<1>7. /\ Cardinality(Told) \in Nat /\ Cardinality(Told') \in Nat
      /\ Cardinality(Told') = Cardinality(Told) + gain
  BY FS_CardinalityType DEF StockOK
<1>8. /\ count \in Nat /\ count' \in Nat /\ faults \in Nat /\ faults' \in Nat
  BY DEF TypeOK, BackendTypeOK
<1>9. /\ Cardinality(Told) + Cardinality(Pending) <= count
      /\ count + Cardinality(Cut) <= Cardinality(Told) + Cardinality(Pending) + faults
  BY DEF StockOK
<1>10. LET moved == OneIf(w \in Pending') - OneIf(w \in Pending)
           cut   == OneIf(w \in Cut') - OneIf(w \in Cut)
       IN  /\ gain + moved <= count' - count
           /\ count' - count + cut <= gain + moved + faults' - faults
  BY <1>8 DEF Claim, OneIf
<1>11. \A b : OneIf(b) \in {0, 1}
  BY DEF OneIf
<1>12. /\ Cardinality(Told') + Cardinality(Pending') <= count'
       /\ count' + Cardinality(Cut') <= Cardinality(Told') + Cardinality(Pending') + faults'
  BY <1>1, <1>2, <1>3, <1>4, <1>5, <1>6, <1>7, <1>8, <1>9, <1>10, <1>11
<1> QED
  BY <1>7, <1>12 DEF StockOK

(* The same, when the step publishes no response.                          *)
LEMMA StockStay ==
    ASSUME TypeOK, TypeOK', StockOK, NEW w \in Process, Untouched(w), responses' = responses,
           Claim(w)' - Claim(w) <= count' - count,
           count' - count + OneIf(w \in Cut)' - OneIf(w \in Cut)
               <= Claim(w)' - Claim(w) + faults' - faults
    PROVE  StockOK'
<1>1. Told' = Told
  BY DEF Told
<1>2. IsFiniteSet(Told') /\ Cardinality(Told)' = Cardinality(Told) + 0
  BY <1>1, FS_CardinalityType DEF StockOK
<1>3. /\ 0 + Claim(w)' - Claim(w) <= count' - count
      /\ count' - count + OneIf(w \in Cut)' - OneIf(w \in Cut)
             <= 0 + Claim(w)' - Claim(w) + faults' - faults
  BY DEF Claim, OneIf
<1> QED
  BY <1>2, <1>3, StockMove

(* Nothing is sold or told at the start.                                   *)
LEMMA StockInit == Init => StockOK
<1> SUFFICES ASSUME Init
             PROVE  StockOK
  OBVIOUS
<1>1. Told = {}
  BY DEF Init, StartWith, Told, Unnumbered, Status
<1>2. Pending = {} /\ Cut = {}
  BY DEF Init, StartWith, Pending, Untold, Cut
<1>3. count = 0 /\ faults = 0
  BY DEF Init, StartWith, BackendInit
<1> QED
  BY <1>1, <1>2, <1>3, FS_EmptySet DEF StockOK

(* No step leaks stock but for a fault, or tells of a ticket not counted.  *)
LEMMA StockStep ==
    ASSUME TypeOK, TypeOK', WorkersOK, StockOK, Next
    PROVE  StockOK'
<1>1. CASE UNCHANGED <<pc, serving, reply, linked, count, responses, faults>>
  BY <1>1 DEF StockOK, Told, Pending, Untold, Cut
<1>2. ASSUME NEW m \in Purchase, Publish(m) \/ Expire(m)
      PROVE  StockOK'
  BY <1>1, <1>2 DEF Publish, Expire, workerVars, storeVars
<1>3. ASSUME NEW w \in Process, Untouched(w), count' = count, responses' = responses,
             faults' = faults, Claim(w)' = Claim(w), w \in Cut' => w \in Cut
      PROVE  StockOK'
  <2>1. /\ Claim(w)' - Claim(w) <= count' - count
        /\ count' - count + OneIf(w \in Cut)' - OneIf(w \in Cut)
               <= Claim(w)' - Claim(w) + faults' - faults
    BY <1>3 DEF Claim, OneIf, TypeOK, BackendTypeOK
  <2> QED
    BY <1>3, <2>1, StockStay
<1>4. ASSUME NEW m \in Purchase, NEW w \in Process, Deliver(w, m)
      PROVE  StockOK'
  <2>1. Untouched(w)
    BY <1>4, OneMoves
  <2>2. w \notin Pending /\ w \notin Pending' /\ w \notin Cut'
    BY <1>4 DEF Deliver, Pending, Untold, Cut, TypeOK
  <2> QED
    BY <1>3, <1>4, <2>1, <2>2 DEF Deliver, Claim, storeVars
<1>5. ASSUME NEW w \in Process, \/ RejectMalformed(w) \/ AnswerDuplicate(w)
                                \/ RefuseSeat(w) \/ Ack(w) \/ Restart(w)
      PROVE  StockOK'
  <2>1. Untouched(w)
    BY <1>5, OneMoves
  <2>2. w \notin Pending
    BY <1>5 DEF RejectMalformed, AnswerDuplicate, RefuseSeat, Ack, Restart, Pending, Untold
  <2>3. w \notin Pending'
    BY <1>5 DEF RejectMalformed, Reject, Release, End, AnswerDuplicate, RefuseSeat, Respond,
                DuplicateOf, Failure, Ack, Restart, Pending, Untold, TypeOK
  <2>4. w \in Cut' => w \in Cut
    BY <1>5 DEF RejectMalformed, Reject, Release, End, AnswerDuplicate, RefuseSeat, Respond,
                Ack, Restart, Cut, TypeOK
  <2>5. UNCHANGED <<count, responses, faults>>
    BY <1>5 DEF RejectMalformed, AnswerDuplicate, RefuseSeat, Respond, Ack, Restart,
                storeVars, queueVars
  <2> QED
    BY <1>3, <2>1, <2>2, <2>3, <2>4, <2>5 DEF Claim
<1>6. ASSUME NEW w \in Process, Execute(w)
      PROVE  StockOK'
  <2>1. Untouched(w)
    BY <1>6, OneMoves
  <2>2. PICK granted \in BOOLEAN : /\ RunCommand(serving[w], granted)
                                   /\ reply' = [reply EXCEPT ![w] = Answer(serving[w], granted)]
    BY <1>6 DEF Execute
  <2>3. /\ w \notin Pending
        /\ w \in Pending' <=> granted /\ serving[w] \in Unnumbered
    BY <1>6, <2>2 DEF Execute, Pending, Untold, Answer, TypeOK
  <2>4. w \in Cut' <=> w \in Cut
    BY <1>6 DEF Execute, Cut, TypeOK
  <2>5. serving[w] \in Purchase
    BY <1>6 DEF Execute, WorkersOK, WorkerOK, TypeOK
  <2>6. count' = count + Claim(w)' /\ Claim(w) = 0
    BY <2>2, <2>3, <2>5
       DEF RunCommand, IncrBounded, SetSeatNX, Unnumbered, Claim, OneIf, TypeOK, BackendTypeOK
  <2>7. UNCHANGED <<responses, faults>>
    BY <1>6 DEF Execute, queueVars
  <2>8. /\ Claim(w)' - Claim(w) <= count' - count
        /\ count' - count + OneIf(w \in Cut)' - OneIf(w \in Cut)
               <= Claim(w)' - Claim(w) + faults' - faults
    BY <2>4, <2>6, <2>7 DEF Claim, OneIf, TypeOK, BackendTypeOK
  <2> QED
    BY <2>1, <2>7, <2>8, StockStay
<1>7. ASSUME NEW w \in Process, Finish(w)
      PROVE  StockOK'
  <2>1. Untouched(w)
    BY <1>7, OneMoves
  <2>2. (w \in Pending' <=> w \in Pending) /\ (w \in Cut' <=> w \in Cut)
    BY <1>7 DEF Finish, Respond, Pending, Untold, Cut, TypeOK
  <2> QED
    BY <1>3, <1>7, <2>1, <2>2 DEF Finish, Respond, Claim, storeVars, queueVars
<1>8. ASSUME NEW w \in Process, PublishResponse(w)
      PROVE  StockOK'
  <2> DEFINE gain == OneIf(serving[w] \in Unnumbered /\ reply[w].status = "success")
  <2>1. Untouched(w)
    BY <1>8, OneMoves
  <2>2. serving[w] \in Purchase /\ reply[w].status \in Status
    BY <1>8 DEF PublishResponse, WorkersOK, WorkerOK, TypeOK
  <2>3. IsFiniteSet(Told') /\ Cardinality(Told)' = Cardinality(Told) + gain
    BY <1>8, <2>2, ToldMore DEF PublishResponse, StockOK
  <2>4. /\ w \in Pending <=> serving[w] \in Unnumbered /\ reply[w].status = "success"
        /\ w \notin Pending' /\ (w \in Cut' <=> w \in Cut)
    BY <1>8 DEF PublishResponse, Pending, Untold, Cut, TypeOK
  <2>5. UNCHANGED <<count, faults>> /\ gain \in {0, 1}
    BY <1>8 DEF PublishResponse, storeVars, OneIf
  <2>6. Claim(w) = gain /\ Claim(w)' = 0 /\ OneIf(w \in Cut)' = OneIf(w \in Cut)
    BY <2>4 DEF Claim, OneIf
  <2> HIDE DEF gain
  <2>7. /\ gain + Claim(w)' - Claim(w) <= count' - count
        /\ count' - count + OneIf(w \in Cut)' - OneIf(w \in Cut)
               <= gain + Claim(w)' - Claim(w) + faults' - faults
    <3>1. count \in Int /\ faults \in Int /\ OneIf(w \in Cut) \in Int
      BY DEF TypeOK, BackendTypeOK, OneIf
    <3> QED
      BY <2>5, <2>6, <3>1
  <2> QED
    BY <2>1, <2>3, <2>5, <2>7, StockMove
<1>9. ASSUME NEW w \in Process, GiveUp(w)
      PROVE  StockOK'
  <2>1. Untouched(w)
    BY <1>9, OneMoves
  <2>2. w \in Cut /\ w \notin Cut' /\ w \notin Pending'
    BY <1>9 DEF GiveUp, End, Cut, Pending, Untold, TypeOK
  <2>3. UNCHANGED <<count, responses, faults>>
    BY <1>9 DEF GiveUp, storeVars, queueVars
  <2>4. /\ Claim(w)' - Claim(w) <= count' - count
        /\ count' - count + OneIf(w \in Cut)' - OneIf(w \in Cut)
               <= Claim(w)' - Claim(w) + faults' - faults
    BY <2>2, <2>3 DEF Claim, OneIf, TypeOK, BackendTypeOK
  <2> QED
    BY <2>1, <2>3, <2>4, StockStay
<1>10. ASSUME NEW w \in Process, Disconnect(w)
       PROVE  StockOK'
  <2>1. Untouched(w)
    BY <1>10, OneMoves
  <2>2. w \notin Cut /\ (w \in Pending' <=> w \in Pending)
    BY <1>10 DEF Disconnect, CloseChannel, Cut, Pending, Untold
  <2>3. UNCHANGED <<count, responses>> /\ faults' = faults + 1
    BY <1>10 DEF Disconnect, CloseChannel, storeVars
  <2>4. /\ Claim(w)' - Claim(w) <= count' - count
        /\ count' - count + OneIf(w \in Cut)' - OneIf(w \in Cut)
               <= Claim(w)' - Claim(w) + faults' - faults
    BY <2>2, <2>3 DEF Claim, OneIf, TypeOK, BackendTypeOK
  <2> QED
    BY <2>1, <2>3, <2>4, StockStay
<1>11. ASSUME NEW w \in Process, Crash(w) \/ BreakRedis(w)
       PROVE  StockOK'
  <2>1. Untouched(w)
    BY <1>11, OneMoves
  <2>2. w \notin Pending' /\ (w \in Cut' => w \in Cut)
    <3>1. CASE Crash(w)
      BY <3>1 DEF Crash, End, Cut, Pending, Untold, TypeOK
    <3>2. CASE BreakRedis(w)
      <4>1. pc[w] \in {"received", "reply"}
        BY <3>2 DEF BreakRedis, FailCommand, InCommand
      <4> QED
        BY <3>2, <4>1 DEF BreakRedis, FailCommand, Repeat, Reject, Release, End, Cut, Pending,
                          Untold, TypeOK
    <3> QED
      BY <1>11, <3>1, <3>2
  <2>3. UNCHANGED <<count, responses>> /\ faults' = faults + 1
    BY <1>11 DEF Crash, BreakRedis, FailCommand, storeVars
  <2>4. /\ Claim(w)' - Claim(w) <= count' - count
        /\ count' - count + OneIf(w \in Cut)' - OneIf(w \in Cut)
               <= Claim(w)' - Claim(w) + faults' - faults
    BY <2>2, <2>3 DEF Claim, OneIf, TypeOK, BackendTypeOK
  <2> QED
    BY <2>1, <2>3, <2>4, StockStay
<1> QED
  BY <1>2, <1>4, <1>5, <1>6, <1>7, <1>8, <1>9, <1>10, <1>11, NextCases

-----------------------------------------------------------------------------
(* The queue under any producer                                            *)

(* The invariant holds at the start ...                                    *)
LEMMA QueueInit == Init => QueueInv
  BY TypeInit, WorkersInit, ConservationInit, AnswersInit, SeatInit, NoUntoldInit, StockInit,
     CacheInit DEF QueueInv

(* ... and every step of the queue keeps it.                               *)
LEMMA QueueStep ==
    ASSUME QueueInv, [Next]_vars
    PROVE  QueueInv'
<1>1. CASE Next
  <2>1. TypeOK'
    BY <1>1, TypeStep DEF QueueInv
  <2>2. WorkersOK'
    BY <1>1, WorkersStep DEF QueueInv
  <2>3. Conservation'
    BY <1>1, <2>1, ConservationStep DEF QueueInv
  <2>4. AnswersMatchAcks'
    BY <1>1, <2>1, AnswersStep DEF QueueInv
  <2>5. SeatClaims' /\ SeatClaimedOnce'
    BY <1>1, SeatStep DEF QueueInv
  <2>6. NoUntoldSale'
    BY <1>1, NoUntoldStep DEF QueueInv
  <2>7. CacheBacked' /\ DuplicateBacked'
    BY <1>1, CacheStep DEF QueueInv
  <2>8. NoOrphanDuplicate'
    BY <1>1, OrphanStep DEF QueueInv
  <2>9. StockOK'
    BY <1>1, <2>1, StockStep DEF QueueInv
  <2> QED
    BY <2>1, <2>2, <2>3, <2>4, <2>5, <2>6, <2>7, <2>8, <2>9 DEF QueueInv
<1>2. CASE UNCHANGED vars
  <2> USE <1>2 DEF vars, storeVars, workerVars, queueVars
  <2>1. TypeOK' /\ WorkersOK'
    BY DEF QueueInv, TypeOK, BackendTypeOK, WorkersOK, WorkerOK
  <2>2. Conservation' /\ AnswersMatchAcks'
    BY DEF QueueInv, Conservation, AnswersMatchAcks, Answers, Acknowledging
  <2>3. SeatClaims' /\ SeatClaimedOnce'
    BY DEF QueueInv, SeatClaims, SeatClaimedOnce, SeatBacked, Untold
  <2>4. NoUntoldSale'
    BY DEF QueueInv, NoUntoldSale, Untold, Holders
  <2>5. CacheBacked' /\ DuplicateBacked' /\ NoOrphanDuplicate'
    BY DEF QueueInv, CacheBacked, DuplicateBacked, Decided, NoOrphanDuplicate
  <2>6. Told' = Told /\ Pending' = Pending /\ Cut' = Cut
    BY DEF Told, Pending, Cut, Untold, Unnumbered
  <2>7. StockOK'
    BY <2>6 DEF QueueInv, StockOK
  <2> QED
    BY <2>1, <2>2, <2>3, <2>4, <2>5, <2>7 DEF QueueInv
<1> QED
  BY <1>1, <1>2

-----------------------------------------------------------------------------
(* The producer                                                            *)

(* Occurrences counts, one position at a time.                             *)
LEMMA OccurrencesFacts ==
    ASSUME NEW m
    PROVE  /\ \A j \in Nat : Occurrences(m, j) \in Nat
           /\ \A j \in Nat : Occurrences(m, j + 1) = Occurrences(m, j) + OneIf(File[j + 1] = m)
           /\ \A j \in Nat, l \in Nat : j <= l => Occurrences(m, j) <= Occurrences(m, l)
<1> DEFINE At(j) == {k \in 1..j : File[k] = m}
<1>1. ASSUME NEW j \in Nat
      PROVE  IsFiniteSet(At(j)) /\ Cardinality(At(j)) \in Nat
  <2>1. IsFiniteSet(1..j)
    BY FS_Interval
  <2> QED
    BY <2>1, FS_Subset, FS_CardinalityType
<1>2. ASSUME NEW j \in Nat
      PROVE  Occurrences(m, j + 1) = Occurrences(m, j) + OneIf(File[j + 1] = m)
  <2>0. 1..(j + 1) = (1..j) \cup {j + 1} /\ j + 1 \notin 1..j
    OBVIOUS
  <2>1. CASE File[j + 1] = m
    <3>1. At(j + 1) = At(j) \cup {j + 1} /\ j + 1 \notin At(j)
      BY <2>0, <2>1
    <3>2. Cardinality(At(j) \cup {j + 1}) = Cardinality(At(j)) + 1
      BY <1>1, <3>1, FS_AddElement
    <3>3. Cardinality(At(j + 1)) = Cardinality(At(j)) + 1
      BY <3>1, <3>2
    <3> QED
      BY <2>1, <3>3 DEF Occurrences, OneIf
  <2>2. CASE File[j + 1] # m
    <3>1. At(j + 1) = At(j)
      BY <2>0, <2>2
    <3>2. Cardinality(At(j + 1)) = Cardinality(At(j)) /\ Cardinality(At(j)) \in Nat
      BY <1>1, <3>1
    <3> QED
      BY <2>2, <3>2 DEF Occurrences, OneIf
  <2> QED
    BY <2>1, <2>2
<1>3. ASSUME NEW j \in Nat, NEW l \in Nat, j <= l
      PROVE  Occurrences(m, j) <= Occurrences(m, l)
  <2>1. At(j) \in SUBSET At(l) /\ IsFiniteSet(At(l))
    BY <1>1, <1>3
  <2>2. Cardinality(At(j)) <= Cardinality(At(l))
    BY <2>1, FS_Subset
  <2> QED
    BY <2>2 DEF Occurrences
<1>4. \A j \in Nat : Occurrences(m, j) \in Nat
  BY <1>1 DEF Occurrences
<1> QED
  BY <1>2, <1>3, <1>4

(* A step of the service is one of the queue, or a publish that raises.    *)
LEMMA ServiceCases ==
    ASSUME ProducerTypeOK, [ServiceNext]_serviceVars
    PROVE  [Next]_vars \/ PublishRaises
<1>1. CASE UNCHANGED serviceVars
  BY <1>1 DEF serviceVars
<1>2. CASE Produce
  <2>1. CASE PublishNext
    <3>1. buffer[flushed + 1] \in Purchase
      BY <2>1 DEF PublishNext, ProducerTypeOK
    <3> QED
      BY <2>1, <3>1 DEF PublishNext, Next
  <2> QED
    BY <1>2, <2>1 DEF Produce, AddRequest, EndOfFile, ClearBuffer
<1>3. CASE FlushAgain \/ RunAgain
  BY <1>3 DEF FlushAgain, RunAgain
<1>4. CASE (\E m \in Purchase : Expire(m)) \/ (\E w \in Process : Work(w) \/ Fault(w))
  BY <1>4 DEF Next
<1> QED
  BY <1>1, <1>2, <1>3, <1>4 DEF ServiceNext

(* A publish that raises keeps the invariant of the queue: the broker has  *)
(* the copy or it has not.                                                 *)
LEMMA RaiseStep ==
    ASSUME QueueInv, ProducerTypeOK, PublishRaises
    PROVE  QueueInv'
<1> USE DEF QueueInv
<1>1. PICK m \in Purchase : m = buffer[flushed + 1]
  BY DEF PublishRaises, ProducerTypeOK
<1>2. /\ UNCHANGED <<storeVars, processed, workerVars, acked, dead, responses, interrupted>>
      /\ faults' = faults + 1 /\ faults' \in 0..MaxFaults
      /\ \/ UNCHANGED <<published, ready>>
         \/ published' = One(published, m) /\ ready' = One(ready, m)
  BY <1>1 DEF PublishRaises, TypeOK
<1>3. /\ published' \in [Purchase -> Nat] /\ ready' \in [Purchase -> Nat]
      /\ \A n \in Purchase : published'[n] - ready'[n] = published[n] - ready[n]
  <2>1. published \in [Purchase -> Nat] /\ ready \in [Purchase -> Nat]
    BY DEF TypeOK
  <2>2. CASE UNCHANGED <<published, ready>>
    BY <2>1, <2>2
  <2>3. CASE published' = One(published, m) /\ ready' = One(ready, m)
    <3>1. published' \in [Purchase -> Nat] /\ ready' \in [Purchase -> Nat]
      BY <2>1, <2>3 DEF One
    <3>2. \A n \in Purchase : /\ published'[n] = published[n] + OneIf(n = m)
                             /\ ready'[n] = ready[n] + OneIf(n = m)
      BY <2>1, <2>3 DEF One, OneIf
    <3>3. \A n \in Purchase : /\ published[n] \in Nat /\ ready[n] \in Nat
                             /\ OneIf(n = m) \in Nat
      BY <2>1 DEF OneIf
    <3>4. \A n \in Purchase : published'[n] - ready'[n] = published[n] - ready[n]
      BY <3>2, <3>3
    <3> QED
      BY <3>1, <3>4
  <2> QED
    BY <1>2, <2>2, <2>3
<1>4. TypeOK'
  BY <1>2, <1>3 DEF TypeOK, BackendTypeOK, storeVars, workerVars
<1>5. WorkersOK'
  BY <1>2 DEF WorkersOK, WorkerOK, workerVars
<1>6. Conservation'
  <2> SUFFICES ASSUME NEW n \in Purchase
               PROVE  published'[n] = ready'[n] + acked'[n] + dead'[n]
                                      + Cardinality(Unacked(n)')
    BY DEF Conservation, Unacked
  <2>1. published'[n] - ready'[n] = published[n] - ready[n]
    BY <1>3
  <2>2. Cardinality(Unacked(n)') = Cardinality(Unacked(n)) /\ Cardinality(Unacked(n)) \in Nat
    <3>1. Unacked(n)' = Unacked(n)
      BY <1>2 DEF Unacked, workerVars
    <3>2. IsFiniteSet(Unacked(n))
      BY FS_Subset, WorkersAssumption DEF Unacked
    <3> QED
      BY <3>1, <3>2, FS_CardinalityType
  <2>3. published[n] = ready[n] + acked[n] + dead[n] + Cardinality(Unacked(n))
    BY DEF Conservation, Unacked
  <2>4. /\ published[n] \in Nat /\ ready[n] \in Nat /\ acked[n] \in Nat /\ dead[n] \in Nat
        /\ published'[n] \in Nat /\ ready'[n] \in Nat
    BY <1>3 DEF TypeOK
  <2>5. published'[n] = published[n] + (ready'[n] - ready[n])
    BY <2>1, <2>4
  <2>6. acked'[n] = acked[n] /\ dead'[n] = dead[n]
    BY <1>2
  <2> QED
    BY <2>2, <2>3, <2>4, <2>5, <2>6
<1>7. AnswersMatchAcks'
  <2> SUFFICES ASSUME NEW n \in Purchase
               PROVE  /\ acked'[n] + Cardinality(Acknowledging(n)') <= Answers(n)'
                      /\ Answers(n)' <= acked'[n] + Cardinality(Acknowledging(n)') + faults'
    BY DEF AnswersMatchAcks
  <2>1. /\ Answers(n)' = Answers(n) /\ Answers(n) \in Nat
        /\ acked' = acked /\ acked[n] \in Nat /\ faults \in Nat
    BY <1>2 DEF Answers, TypeOK, Status
  <2>2. Cardinality(Acknowledging(n)') = Cardinality(Acknowledging(n))
        /\ Cardinality(Acknowledging(n)) \in Nat
    <3>1. Acknowledging(n)' = Acknowledging(n)
      BY <1>2 DEF Acknowledging, workerVars
    <3>2. IsFiniteSet(Acknowledging(n))
      BY FS_Subset, WorkersAssumption DEF Acknowledging
    <3> QED
      BY <3>1, <3>2, FS_CardinalityType
  <2>3. /\ acked[n] + Cardinality(Acknowledging(n)) <= Answers(n)
        /\ Answers(n) <= acked[n] + Cardinality(Acknowledging(n)) + faults
    BY DEF AnswersMatchAcks
  <2> QED
    BY <1>2, <2>1, <2>2, <2>3
<1>8. SeatClaims' /\ SeatClaimedOnce'
  BY <1>2 DEF SeatClaims, SeatClaimedOnce, SeatBacked, Untold, storeVars, workerVars
<1>9. NoUntoldSale'
  BY <1>2 DEF NoUntoldSale, Holders, Untold, storeVars, workerVars
<1>10. CacheBacked' /\ DuplicateBacked' /\ NoOrphanDuplicate'
  BY <1>2 DEF CacheBacked, DuplicateBacked, NoOrphanDuplicate, Decided, workerVars
<1>11. StockOK'
  <2>1. Told' = Told /\ Pending' = Pending /\ Cut' = Cut /\ count' = count
    BY <1>2 DEF Told, Pending, Untold, Cut, storeVars, workerVars
  <2>2. IsFiniteSet(Pending) /\ IsFiniteSet(Cut)
    BY FS_Subset, WorkersAssumption DEF Pending, Cut
  <2>3. /\ Cardinality(Told) \in Nat /\ Cardinality(Pending) \in Nat
        /\ Cardinality(Cut) \in Nat /\ count \in Nat /\ faults \in Nat
    BY <2>2, FS_CardinalityType DEF StockOK, TypeOK, BackendTypeOK
  <2>4. /\ Cardinality(Told) + Cardinality(Pending) <= count
        /\ count + Cardinality(Cut) <= Cardinality(Told) + Cardinality(Pending) + faults
    BY DEF StockOK
  <2>5. count + Cardinality(Cut) <= Cardinality(Told) + Cardinality(Pending) + faults'
    BY <1>2, <2>3, <2>4
  <2> QED
    BY <2>1, <2>4, <2>5 DEF StockOK
<1> QED
  BY <1>4, <1>5, <1>6, <1>7, <1>8, <1>9, <1>10, <1>11

(* The producer begins with nothing read, buffered or published.           *)
LEMMA ProducerInvInit == ServiceInit => ProducerInv
<1> SUFFICES ASSUME ServiceInit
             PROVE  ProducerInv
  OBVIOUS
<1>1. /\ producer = "add" /\ position = 0 /\ buffer = <<>> /\ flushed = 0 /\ raised = 0
      /\ published = [m \in Purchase |-> 0]
  BY DEF ServiceInit, ProducerInit, Init, StartWith
<1>2. Len(File) \in Nat /\ Len(<<>>) = 0 /\ <<>> \in Seq(Purchase)
  BY FileAssumption
<1>3. ProducerTypeOK
  BY <1>1, <1>2 DEF ProducerTypeOK
<1>4. BufferOfFile
  BY <1>1, <1>2 DEF BufferOfFile
<1>5. Sent = 0 /\ Passed = 0
  <2>1. position = 0 /\ Len(buffer) = 0 /\ flushed = 0
    BY <1>1, <1>2
  <2>2. Sent = 0 - 0 + 0
    BY <2>1 DEF Sent
  <2>3. Sent = 0
    BY <2>2
  <2> QED
    BY <2>3 DEF Passed
<1>6. SentPublished
  BY <1>5 DEF SentPublished
<1>7. CopiesBounded
  <2> SUFFICES ASSUME NEW m \in Purchase
               PROVE  published[m] <= raised * Occurrences(m, Len(File))
                                      + Occurrences(m, Passed)
    BY DEF CopiesBounded
  <2>1. Occurrences(m, Len(File)) \in Nat /\ Occurrences(m, 0) \in Nat
    BY <1>2, OccurrencesFacts
  <2> QED
    BY <1>1, <1>5, <2>1
<1> QED
  BY <1>3, <1>4, <1>6, <1>7 DEF ProducerInv

(* Only a producer publishes.                                              *)
LEMMA OthersPublishNothing ==
    ASSUME NEW w \in Process, Work(w) \/ Fault(w)
    PROVE  published' = published
  BY DEF Work, Handle, Fault, Deliver, RejectMalformed, AnswerDuplicate, RefuseSeat, Execute,
         Finish, PublishResponse, Ack, GiveUp, Restart, Disconnect, CloseChannel, Crash,
         BreakRedis, FailCommand, Respond, queueVars

(* Sent is a position of the file, and what comes next is in the buffer.   *)
LEMMA SentFacts ==
    ASSUME ProducerTypeOK, BufferOfFile
    PROVE  /\ Sent \in 0..Len(File) /\ Len(File) \in Nat
           /\ flushed < Len(buffer) => /\ Sent + 1 <= Len(File)
                                       /\ buffer[flushed + 1] = File[Sent + 1]
<1>1. /\ position \in Nat /\ Len(buffer) \in Nat /\ flushed \in Nat /\ Len(File) \in Nat
      /\ Len(buffer) <= position /\ flushed <= Len(buffer) /\ position <= Len(File)
  BY FileAssumption DEF ProducerTypeOK
<1>2. Sent \in 0..Len(File)
  BY <1>1 DEF Sent
<1>3. ASSUME flushed < Len(buffer)
      PROVE  Sent + 1 <= Len(File) /\ buffer[flushed + 1] = File[Sent + 1]
  <2>1. buffer[flushed + 1] = File[position - Len(buffer) + (flushed + 1)]
    BY <1>1, <1>3 DEF BufferOfFile
  <2>2. position - Len(buffer) + (flushed + 1) = Sent + 1
    BY <1>1 DEF Sent
  <2> QED
    BY <1>1, <1>3, <2>1, <2>2 DEF Sent
<1> QED
  BY <1>1, <1>2, <1>3

(* The buffer and its place in the file, whatever the producer does.       *)
LEMMA BufferStep ==
    ASSUME ProducerTypeOK, BufferOfFile, [ServiceNext]_serviceVars
    PROVE  /\ ProducerTypeOK' /\ BufferOfFile'
           /\ Sent' = IF PublishNext THEN Sent + 1
                      ELSE IF PublishRaises THEN position - Len(buffer)
                      ELSE IF RunAgain THEN 0 ELSE Sent
<1> USE FileAssumption DEF ProducerTypeOK, BufferOfFile, Sent
<1>1. /\ position \in Nat /\ Len(buffer) \in Nat /\ flushed \in Nat /\ Len(File) \in Nat
      /\ raised \in Nat /\ Len(<<>>) = 0 /\ <<>> \in Seq(Purchase)
  OBVIOUS
<1>2. CASE AddRequest
  <2>1. /\ position' = position + 1 /\ position + 1 <= Len(File)
        /\ buffer' = Append(buffer, File[position + 1]) /\ File[position + 1] \in Purchase
        /\ flushed' = flushed /\ flushed = 0 /\ raised' = raised
        /\ producer = "add" /\ producer' \in {"add", "flush"}
    BY <1>1, <1>2 DEF AddRequest
  <2>2. /\ Len(buffer') = Len(buffer) + 1 /\ buffer' \in Seq(Purchase)
        /\ \A k \in 1..Len(buffer') : buffer'[k] = IF k <= Len(buffer) THEN buffer[k]
                                                    ELSE File[position + 1]
    BY <2>1
  <2>3. ProducerTypeOK'
    BY <1>1, <2>1, <2>2
  <2>4. ASSUME NEW k \in 1..Len(buffer')
        PROVE  buffer'[k] = File[position' - Len(buffer') + k]
    <3>1. /\ position' - Len(buffer') + k = position - Len(buffer) + k
          /\ k \in 1..(Len(buffer) + 1)
          /\ buffer'[k] = IF k <= Len(buffer) THEN buffer[k] ELSE File[position + 1]
      BY <1>1, <2>1, <2>2
    <3>2. CASE k \in 1..Len(buffer)
      <4>1. buffer[k] = File[position - Len(buffer) + k] /\ k <= Len(buffer)
        BY <3>2
      <4> QED
        BY <3>1, <4>1
    <3>3. CASE k = Len(buffer) + 1
      <4>1. position - Len(buffer) + k = position + 1 /\ ~(k <= Len(buffer))
        BY <1>1, <3>3
      <4> QED
        BY <3>1, <4>1
    <3> QED
      BY <1>1, <3>1, <3>2, <3>3
  <2>5. ~PublishNext /\ ~PublishRaises /\ ~RunAgain
    BY <2>1 DEF PublishNext, PublishRaises, RunAgain
  <2>6. Sent' = Sent
    BY <1>1, <2>1, <2>2
  <2> QED
    BY <2>1, <2>3, <2>4, <2>5, <2>6
<1>3. CASE EndOfFile
  <2>1. ~PublishNext /\ ~PublishRaises /\ ~RunAgain
    BY <1>3 DEF EndOfFile, PublishNext, PublishRaises, RunAgain
  <2> QED
    BY <1>3, <2>1 DEF EndOfFile
<1>4. CASE PublishNext
  BY <1>1, <1>4 DEF PublishNext
<1>5. CASE ClearBuffer
  <2>1. ~PublishNext /\ ~PublishRaises /\ ~RunAgain
    BY <1>1, <1>5 DEF ClearBuffer, PublishNext, PublishRaises, RunAgain
  <2> QED
    BY <1>1, <1>5, <2>1 DEF ClearBuffer
<1>6. CASE PublishRaises
  <2>1. ~PublishNext
    BY <1>1, <1>6 DEF PublishRaises, PublishNext
  <2> QED
    BY <1>1, <1>6, <2>1 DEF PublishRaises
<1>7. CASE FlushAgain
  <2>1. ~PublishNext /\ ~PublishRaises /\ ~RunAgain
    BY <1>7 DEF FlushAgain, PublishNext, PublishRaises, RunAgain
  <2> QED
    BY <1>7, <2>1 DEF FlushAgain
<1>8. CASE RunAgain
  <2>1. ~PublishNext /\ ~PublishRaises
    BY <1>8 DEF PublishNext, PublishRaises, RunAgain
  <2> QED
    BY <1>1, <1>8, <2>1 DEF RunAgain
<1>9. CASE UNCHANGED producerVars
  <2>1. ~PublishNext /\ ~PublishRaises /\ ~RunAgain
    BY <1>1, <1>9 DEF producerVars, PublishNext, PublishRaises, RunAgain
  <2> QED
    BY <1>9, <2>1 DEF producerVars
<1> QED
  BY <1>2, <1>3, <1>4, <1>5, <1>6, <1>7, <1>8, <1>9 DEF ServiceNext, Produce, serviceVars

(* What was sent stays published, and every copy is paid for.              *)
LEMMA SentStep ==
    ASSUME TypeOK, TypeOK', ProducerInv, [ServiceNext]_serviceVars
    PROVE  SentPublished' /\ CopiesBounded'
<1>1. /\ Sent \in 0..Len(File) /\ Len(File) \in Nat /\ raised \in Nat
      /\ published \in [Purchase -> Nat] /\ published' \in [Purchase -> Nat]
      /\ \A k \in 1..Len(File) : File[k] \in Purchase
  BY SentFacts, FileAssumption DEF ProducerInv, ProducerTypeOK, TypeOK
<1>2. ProducerTypeOK /\ BufferOfFile /\ ProducerTypeOK' /\ BufferOfFile'
  BY BufferStep DEF ProducerInv
<1>3. Sent' \in 0..Len(File) /\ raised' \in Nat
  BY <1>2, FileAssumption DEF ProducerTypeOK, Sent
<1>4. Passed \in Nat /\ Passed' \in Nat /\ Passed <= Len(File) /\ Passed' <= Len(File)
  BY <1>1, <1>3 DEF Passed
<1>5. ASSUME NEW m \in Purchase
      PROVE  /\ published[m] <= raised * Occurrences(m, Len(File)) + Occurrences(m, Passed)
             /\ raised * Occurrences(m, Len(File)) \in Nat
             /\ Occurrences(m, Len(File)) \in Nat /\ published[m] \in Nat
             /\ Occurrences(m, Passed) \in Nat /\ Occurrences(m, Passed') \in Nat
  <2>1. Occurrences(m, Len(File)) \in Nat /\ Occurrences(m, Passed) \in Nat
        /\ Occurrences(m, Passed') \in Nat
    BY <1>1, <1>4, OccurrencesFacts
  <2>2. raised * Occurrences(m, Len(File)) \in Nat
    BY <1>1, <2>1
  <2> QED
    BY <1>1, <2>1, <2>2 DEF CopiesBounded, ProducerInv
<1>6. CASE PublishNext
  <2>1. /\ Sent' = Sent + 1 /\ Sent + 1 \in 1..Len(File) /\ raised' = raised
        /\ published' = One(published, File[Sent + 1])
        /\ Passed = Sent /\ Passed' = Sent + 1
    <3>1. Sent' = Sent + 1
      BY <1>2, <1>6, BufferStep
    <3>2. /\ producer = "flush" /\ producer' = producer /\ raised' = raised
          /\ flushed < Len(buffer) /\ published' = One(published, buffer[flushed + 1])
      BY <1>6 DEF PublishNext, Publish
    <3>3. Sent + 1 <= Len(File) /\ buffer[flushed + 1] = File[Sent + 1]
      BY <1>2, <3>2, SentFacts
    <3> QED
      BY <1>1, <3>1, <3>2, <3>3 DEF Passed
  <2>2. ASSUME NEW m \in Purchase
        PROVE  /\ published'[m] = published[m] + OneIf(File[Sent + 1] = m)
               /\ OneIf(File[Sent + 1] = m) \in Nat /\ published[m] \in Nat
    BY <1>1, <2>1 DEF One, OneIf
  <2>3. SentPublished'
    <3> SUFFICES ASSUME NEW k \in 1..(Sent + 1)
                 PROVE  published'[File[k]] > 0
      BY <2>1 DEF SentPublished
    <3>1. File[k] \in Purchase
      BY <1>1, <2>1
    <3>2. /\ published'[File[k]] = published[File[k]] + OneIf(File[Sent + 1] = File[k])
          /\ OneIf(File[Sent + 1] = File[k]) \in Nat /\ published[File[k]] \in Nat
      BY <2>2, <3>1
    <3>3. CASE k = Sent + 1
      BY <3>2, <3>3 DEF OneIf
    <3>4. CASE k # Sent + 1
      <4>1. published[File[k]] > 0
        BY <1>1, <3>4 DEF SentPublished, ProducerInv
      <4> QED
        BY <3>2, <4>1
    <3> QED
      BY <3>3, <3>4
  <2>4. CopiesBounded'
    <3> SUFFICES ASSUME NEW m \in Purchase
                 PROVE  published'[m] <= raised * Occurrences(m, Len(File))
                                         + Occurrences(m, Sent + 1)
      BY <2>1 DEF CopiesBounded, Occurrences
    <3>1. Occurrences(m, Sent + 1) = Occurrences(m, Sent) + OneIf(File[Sent + 1] = m)
      <4>1. \A j \in Nat :
              Occurrences(m, j + 1) = Occurrences(m, j) + OneIf(File[j + 1] = m)
        BY OccurrencesFacts
      <4>2. Sent \in Nat
        BY <1>1
      <4> QED
        BY <4>1, <4>2
    <3>2. /\ published[m] <= raised * Occurrences(m, Len(File)) + Occurrences(m, Sent)
          /\ raised * Occurrences(m, Len(File)) \in Nat /\ Occurrences(m, Sent) \in Nat
      BY <1>5, <2>1
    <3>3. /\ published'[m] = published[m] + OneIf(File[Sent + 1] = m)
          /\ OneIf(File[Sent + 1] = m) \in Nat /\ published[m] \in Nat
      BY <2>2
    <3> QED
      BY <3>1, <3>2, <3>3
  <2> QED
    BY <2>3, <2>4
<1>7. CASE PublishRaises
  <2>1. /\ Sent' = position - Len(buffer) /\ Sent' <= Sent /\ Passed = Sent /\ Passed' = 0
        /\ Sent + 1 \in 1..Len(File) /\ raised' = raised + 1
        /\ published' = published \/ published' = One(published, File[Sent + 1])
    <3>1. /\ producer = "flush" /\ producer' = "failed" /\ flushed < Len(buffer)
          /\ position' = position /\ buffer' = buffer /\ flushed' = 0
          /\ raised' = raised + 1
          /\ published' = published \/ published' = One(published, buffer[flushed + 1])
      BY <1>7 DEF PublishRaises
    <3>2. Sent + 1 <= Len(File) /\ buffer[flushed + 1] = File[Sent + 1]
      BY <1>2, <3>1, SentFacts
    <3>3. Sent' = position - Len(buffer) /\ Sent' <= Sent
      BY <1>2, <3>1, FileAssumption DEF Sent, ProducerTypeOK
    <3> QED
      BY <1>1, <3>1, <3>2, <3>3 DEF Passed
  <2>2. ASSUME NEW m \in Purchase
        PROVE  /\ published'[m] \in Nat /\ published[m] \in Nat
               /\ OneIf(File[Sent + 1] = m) \in Nat
               /\ published'[m] >= published[m]
               /\ published'[m] <= published[m] + OneIf(File[Sent + 1] = m)
    <3>1. OneIf(File[Sent + 1] = m) \in Nat /\ published[m] \in Nat
      BY <1>1 DEF OneIf
    <3>2. CASE published' = published
      BY <3>1, <3>2
    <3>3. CASE published' = One(published, File[Sent + 1])
      <4>1. published'[m] = published[m] + OneIf(File[Sent + 1] = m)
        BY <1>1, <2>1, <3>3 DEF One, OneIf
      <4> QED
        BY <3>1, <4>1
    <3> QED
      BY <2>1, <3>2, <3>3
  <2>3. SentPublished'
    <3> SUFFICES ASSUME NEW k \in 1..Sent'
                 PROVE  published'[File[k]] > 0
      BY DEF SentPublished
    <3>1. k \in 1..Sent /\ File[k] \in Purchase
      BY <1>1, <1>3, <2>1
    <3>2. published[File[k]] > 0
      BY <3>1 DEF SentPublished, ProducerInv
    <3>3. published'[File[k]] >= published[File[k]]
          /\ published'[File[k]] \in Nat /\ published[File[k]] \in Nat
      BY <2>2, <3>1
    <3> QED
      BY <3>2, <3>3
  <2>4. CopiesBounded'
    <3> SUFFICES ASSUME NEW m \in Purchase
                 PROVE  published'[m] <= (raised + 1) * Occurrences(m, Len(File))
                                         + Occurrences(m, Passed')
      BY <2>1 DEF CopiesBounded, Occurrences
    <3>1. /\ Occurrences(m, Sent + 1) = Occurrences(m, Sent) + OneIf(File[Sent + 1] = m)
          /\ Occurrences(m, Sent + 1) <= Occurrences(m, Len(File))
      <4>1. /\ \A j \in Nat :
                   Occurrences(m, j + 1) = Occurrences(m, j) + OneIf(File[j + 1] = m)
            /\ \A j \in Nat, l \in Nat : j <= l => Occurrences(m, j) <= Occurrences(m, l)
        BY OccurrencesFacts
      <4>2. /\ Sent \in Nat /\ Sent + 1 \in Nat /\ Len(File) \in Nat
            /\ Sent + 1 <= Len(File)
        BY <1>1, <2>1
      <4> QED
        BY <4>1, <4>2
    <3>2. (raised + 1) * Occurrences(m, Len(File))
            = raised * Occurrences(m, Len(File)) + Occurrences(m, Len(File))
      BY <1>1, <1>5
    <3>3. /\ published[m] <= raised * Occurrences(m, Len(File)) + Occurrences(m, Sent)
          /\ raised * Occurrences(m, Len(File)) \in Nat /\ Occurrences(m, Sent) \in Nat
          /\ Occurrences(m, Len(File)) \in Nat /\ Occurrences(m, Passed') \in Nat
      BY <1>5, <2>1
    <3>4. /\ published'[m] \in Nat /\ published[m] \in Nat
          /\ OneIf(File[Sent + 1] = m) \in Nat
          /\ published'[m] <= published[m] + OneIf(File[Sent + 1] = m)
      BY <2>2
    <3>5. published'[m] <= raised * Occurrences(m, Len(File)) + Occurrences(m, Len(File))
      BY <3>1, <3>3, <3>4
    <3>6. published'[m] <= (raised + 1) * Occurrences(m, Len(File))
      BY <3>2, <3>5
    <3>7. (raised + 1) * Occurrences(m, Len(File)) \in Nat
      BY <3>2, <3>3
    <3> QED
      BY <3>3, <3>4, <3>6, <3>7
  <2> QED
    BY <2>3, <2>4
<1>8. CASE ~PublishNext /\ ~PublishRaises
  <2>1. published' = published /\ raised' = raised
    BY <1>8, OthersPublishNothing
       DEF ServiceNext, serviceVars, producerVars, vars, queueVars, Produce, AddRequest,
           EndOfFile, ClearBuffer, FlushAgain, RunAgain, Expire
  <2>2. Sent' = Sent \/ Sent' = 0
    BY <1>2, <1>8, BufferStep
  <2>3. SentPublished'
    BY <1>1, <2>1, <2>2 DEF SentPublished, ProducerInv
  <2>4. Passed <= Passed'
    <3>1. CASE Passed = 0
      BY <1>4, <3>1
    <3>2. CASE Passed # 0
      <4>1. producer # "failed" /\ Passed = Sent
        BY <3>2 DEF Passed
      <4>2. ~RunAgain
        BY <4>1 DEF RunAgain
      <4>3. Sent' = Sent
        BY <1>2, <1>8, <4>2, BufferStep
      <4>4. producer' # "failed"
        BY <1>8, <4>1
           DEF ServiceNext, serviceVars, producerVars, Produce, AddRequest, EndOfFile,
               ClearBuffer, FlushAgain, RunAgain
      <4> QED
        BY <1>1, <4>1, <4>3, <4>4 DEF Passed
    <3> QED
      BY <3>1, <3>2
  <2>5. CopiesBounded'
    <3> SUFFICES ASSUME NEW m \in Purchase
                 PROVE  published[m] <= raised * Occurrences(m, Len(File))
                                        + Occurrences(m, Passed')
      BY <2>1 DEF CopiesBounded, Occurrences
    <3>1. Occurrences(m, Passed) <= Occurrences(m, Passed')
      BY <1>4, <2>4, OccurrencesFacts
    <3> QED
      BY <1>5, <3>1
  <2> QED
    BY <2>3, <2>5
<1> QED
  BY <1>6, <1>7, <1>8

(* Both invariants hold at the start of the service.                       *)
LEMMA ServiceInvInit == ServiceInit => QueueInv /\ ProducerInv
  BY QueueInit, ProducerInvInit DEF ServiceInit

(* Every step of the service keeps both invariants.                        *)
LEMMA ServiceStep ==
    ASSUME QueueInv, ProducerInv, [ServiceNext]_serviceVars
    PROVE  QueueInv' /\ ProducerInv'
<1>1. QueueInv'
  BY ServiceCases, QueueStep, RaiseStep DEF ProducerInv
<1>2. ProducerTypeOK' /\ BufferOfFile'
  BY BufferStep DEF ProducerInv
<1>3. SentPublished' /\ CopiesBounded'
  BY <1>1, SentStep DEF QueueInv
<1> QED
  BY <1>1, <1>2, <1>3 DEF ProducerInv

-----------------------------------------------------------------------------
(* Theorems                                                                *)

(* The queue alone, whatever is published to it, keeps its invariant.      *)
THEOREM QueueInvariant == Spec => []QueueInv
<1>1. QueueInv /\ [Next]_vars => QueueInv'
  BY QueueStep
<1> QED
  BY QueueInit, <1>1, PTL DEF Spec

(* So does the queue under the producer, and the producer keeps its place. *)
THEOREM ServiceInvariant == ServiceSpec => [](QueueInv /\ ProducerInv)
<1>1. QueueInv /\ ProducerInv /\ [ServiceNext]_serviceVars => (QueueInv /\ ProducerInv)'
  BY ServiceStep
<1> QED
  BY ServiceInvInit, <1>1, PTL DEF ServiceSpec

(* Every variable of the queue keeps its type, within the bounds of the    *)
(* retries and the stock.                                                  *)
THEOREM TypesHold == ServiceSpec => []TypeOK
<1>1. QueueInv => TypeOK
  BY DEF QueueInv
<1> QED
  BY <1>1, ServiceInvariant, PTL

(* Every copy published is in the queue, at one worker, acknowledged or    *)
(* dead: losing a connection, a crash or a redelivery loses none and makes *)
(* none.                                                                   *)
THEOREM CopiesConserved == ServiceSpec => []Conservation
<1>1. QueueInv => Conservation
  BY DEF QueueInv
<1> QED
  BY <1>1, ServiceInvariant, PTL

(* Every copy that is acknowledged was answered, and is answered again     *)
(* only after a fault: process_message publishes, then acknowledges.       *)
THEOREM AcksFollowAnswers == ServiceSpec => []AnswersMatchAcks
<1>1. QueueInv => AnswersMatchAcks
  BY DEF QueueInv
<1> QED
  BY <1>1, ServiceInvariant, PTL

(* A numbered seat is promised to one request, once.                       *)
THEOREM OneBuyerPerSeat == ServiceSpec => []SeatToldOnce
<1>1. QueueInv => SeatToldOnce
  BY SeatToldOnceHolds DEF QueueInv
<1> QED
  BY <1>1, ServiceInvariant, PTL

(* A sold seat whose buyer is not told, nor about to be, was interrupted   *)
(* by a fault between the sale and the response.                           *)
THEOREM SalesAreTold == ServiceSpec => []NoUntoldSale
<1>1. QueueInv => NoUntoldSale
  BY DEF QueueInv
<1> QED
  BY <1>1, ServiceInvariant, PTL

(* The counter is what was told, or is about to be, and at most one ticket *)
(* for each fault besides: nothing else leaks stock (increment_unnumbered).*)
THEOREM StockIsAccounted == ServiceSpec => []StockAccounted
<1>1. ASSUME QueueInv
      PROVE  StockAccounted
  <2>1. IsFiniteSet(Pending) /\ IsFiniteSet(Cut)
    BY FS_Subset, WorkersAssumption DEF Pending, Cut
  <2>2. /\ Cardinality(Told) \in Nat /\ Cardinality(Pending) \in Nat
        /\ Cardinality(Cut) \in Nat /\ count \in Nat /\ faults \in Nat
    BY <1>1, <2>1, FS_CardinalityType DEF QueueInv, StockOK, TypeOK, BackendTypeOK
  <2>3. /\ Cardinality(Told) + Cardinality(Pending) <= count
        /\ count + Cardinality(Cut) <= Cardinality(Told) + Cardinality(Pending) + faults
    BY <1>1 DEF QueueInv, StockOK
  <2>4. count <= Cardinality(Told) + Cardinality(Pending) + faults
    BY <2>2, <2>3
  <2> QED
    BY <2>3, <2>4 DEF StockAccounted
<1> QED
  BY <1>1, ServiceInvariant, PTL

(* A DUPLICATE is answered only to a request that was decided.             *)
THEOREM DuplicatesAreDecided == ServiceSpec => []NoOrphanDuplicate
<1>1. QueueInv => NoOrphanDuplicate
  BY DEF QueueInv
<1> QED
  BY <1>1, ServiceInvariant, PTL

(* When the producer returns, the whole file was published, whatever       *)
(* raised on the way and whatever the batch size leaves for the last one.  *)
THEOREM WholeFileSent == ServiceSpec => []FileSent
<1>1. ProducerInv => FileSent
  <2> SUFFICES ASSUME ProducerInv, producer = "done", NEW k \in DOMAIN File
               PROVE  published[File[k]] > 0
    BY DEF FileSent
  <2>1. k \in 1..Len(File)
    BY FileAssumption
  <2>2. Sent = Len(File)
    <3>1. Len(buffer) = 0 /\ flushed = 0 /\ position = Len(File) /\ Len(File) \in Nat
      BY FileAssumption DEF ProducerInv, BufferOfFile, ProducerTypeOK
    <3>2. Sent = Len(File) - 0 + 0
      BY <3>1 DEF Sent
    <3> QED
      BY <3>1, <3>2
  <2> QED
    BY <2>1, <2>2 DEF ProducerInv, SentPublished
<1> QED
  BY <1>1, ServiceInvariant, PTL

(* A message is published more often than the file has it only because a   *)
(* publish raised, one pass over the file for each.                        *)
THEOREM OnePassPerFailure == ServiceSpec => []RepeatsNeedFailures
<1>1. QueueInv /\ ProducerInv => RepeatsNeedFailures
  <2> SUFFICES ASSUME QueueInv, ProducerInv, NEW m \in Purchase
               PROVE  published[m] <= Occurrences(m, Len(File)) * (1 + raised)
    BY DEF RepeatsNeedFailures, Occurrences
  <2>1. /\ Sent \in 0..Len(File) /\ Len(File) \in Nat /\ raised \in Nat
    BY SentFacts DEF ProducerInv, ProducerTypeOK
  <2>2. Passed \in Nat /\ Passed <= Len(File)
    BY <2>1 DEF Passed
  <2>3. /\ Occurrences(m, Passed) <= Occurrences(m, Len(File))
        /\ Occurrences(m, Passed) \in Nat /\ Occurrences(m, Len(File)) \in Nat
    BY <2>1, <2>2, OccurrencesFacts
  <2>4. /\ Occurrences(m, Len(File)) * (1 + raised)
              = raised * Occurrences(m, Len(File)) + Occurrences(m, Len(File))
        /\ raised * Occurrences(m, Len(File)) \in Nat
    BY <2>1, <2>3
  <2>5. /\ published[m] <= raised * Occurrences(m, Len(File)) + Occurrences(m, Passed)
        /\ published[m] \in Nat
    BY DEF ProducerInv, CopiesBounded, QueueInv, TypeOK
  <2> QED
    BY <2>3, <2>4, <2>5
<1> QED
  BY <1>1, ServiceInvariant, PTL
=============================================================================
