---------------------------- MODULE BulkProducer ----------------------------
(***************************************************************************)
(* The producer mode of the queue variant: BulkProducer reads a benchmark  *)
(* file, buffers its messages and flushes them in batches, each message    *)
(* with a publisher confirm.  When a publish raises, the flush ends where  *)
(* it is and the buffer stays; whoever called may flush again, or run the  *)
(* producer again from the start of the file.  The workers of              *)
(* IndirectQueue consume underneath.                                       *)
(***************************************************************************)
EXTENDS IndirectQueue, Sequences

CONSTANTS File,      \* the messages of the file, in its order
          BatchSize  \* batch_size

ASSUME FileAssumption == File \in Seq(Purchase) /\ BatchSize \in Nat \ {0}

VARIABLES
    producer,  \* what load_and_send_file does
    position,  \* how many entries add_request has got
    buffer,    \* _buffer
    flushed,   \* how many messages of the buffer this flush has published
    raised     \* how often a publish raised

producerVars == <<producer, position, buffer, flushed, raised>>
serviceVars == <<vars, producerVars>>

ProducerInit == /\ producer = "add"
                /\ position = 0
                /\ buffer = <<>>
                /\ flushed = 0
                /\ raised = 0

-----------------------------------------------------------------------------
(* load_and_send_file *)

AddRequest == /\ producer = "add" /\ position < Len(File)
              /\ position' = position + 1
              /\ buffer' = Append(buffer, File[position + 1])
              /\ producer' = IF Len(buffer') >= BatchSize THEN "flush" ELSE "add"
              /\ UNCHANGED <<vars, flushed, raised>>

(* Slip: no flush of the last, shorter batch.                              *)
EndWithoutFlush == /\ producer = "add" /\ position = Len(File)
                   /\ producer' = "done"
                   /\ UNCHANGED <<vars, position, buffer, flushed, raised>>

(* The flush at the end of the file; with an empty buffer it sends nothing.*)
EndOfFile == /\ producer = "add" /\ position = Len(File)
             /\ producer' = IF buffer = <<>> THEN "done" ELSE "flush"
             /\ UNCHANGED <<vars, position, buffer, flushed, raised>>

-----------------------------------------------------------------------------
(* _flush_locked *)

PublishNext == /\ producer = "flush" /\ flushed < Len(buffer)
               /\ Publish(buffer[flushed + 1])
               /\ flushed' = flushed + 1
               /\ UNCHANGED <<producer, position, buffer, raised>>

(* Slip: _buffer.clear() is missing.                                       *)
KeepBuffer == /\ producer = "flush" /\ flushed = Len(buffer)
              /\ flushed' = 0
              /\ producer' = "add"
              /\ UNCHANGED <<vars, position, buffer, raised>>

ClearBuffer == /\ producer = "flush" /\ flushed = Len(buffer)
               /\ buffer' = <<>>
               /\ flushed' = 0
               /\ producer' = "add"
               /\ UNCHANGED <<vars, position, raised>>

(* basic_publish raises: the broker has the message and its confirm is     *)
(* lost, or it has not.                                                    *)
PublishRaises ==
    /\ producer = "flush" /\ flushed < Len(buffer)
    /\ faults < MaxFaults
    /\ faults' = faults + 1
    /\ raised' = raised + 1
    /\ LET m == buffer[flushed + 1]
       IN  \/ UNCHANGED <<published, ready>>
           \/ published' = One(published, m) /\ ready' = One(ready, m)
    /\ flushed' = 0
    /\ producer' = "failed"
    /\ UNCHANGED <<storeVars, processed, workerVars, acked, dead, responses, interrupted,
                   position, buffer>>

FlushAgain == /\ producer = "failed"
              /\ producer' = "flush"
              /\ UNCHANGED <<vars, position, buffer, flushed, raised>>

RunAgain == /\ producer = "failed"
            /\ producer' = "add"
            /\ position' = 0
            /\ buffer' = <<>>
            /\ UNCHANGED <<vars, flushed, raised>>

-----------------------------------------------------------------------------
Produce == \/ AddRequest
           \/ EndOfFile
           \/ PublishNext
           \/ ClearBuffer

ServiceInit == Init /\ ProducerInit

ServiceNext == \/ Produce \/ PublishRaises \/ FlushAgain \/ RunAgain
               \/ /\ \/ \E m \in Purchase : Expire(m)
                     \/ \E w \in Process : Work(w) \/ Fault(w)
                  /\ UNCHANGED producerVars

ServiceSpec == ServiceInit /\ [][ServiceNext]_serviceVars

-----------------------------------------------------------------------------
(* Properties *)

(* When load_and_send_file returns, the broker got every message of the    *)
(* file, whatever failed before and whatever the batch size leaves over.   *)
FileSent == producer = "done" => \A k \in DOMAIN File : published[File[k]] > 0

(* A message is in the queue more often than in the file only because      *)
(* publishes raised, one copy more for each: batches do not overlap.       *)
RepeatsNeedFailures ==
    \A m \in Purchase :
        published[m] <= Cardinality({k \in 1..Len(File) : File[k] = m}) * (1 + raised)
=============================================================================
