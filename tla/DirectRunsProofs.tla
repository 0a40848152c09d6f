-------------------------- MODULE DirectRunsProofs --------------------------
(***************************************************************************)
(* Theorems of DirectRuns, for any number of runs, calls, client threads,  *)
(* replicas, retries, faults and resets.  The replicas keep the invariant  *)
(* IInv of DirectApi under the benchmark too; what is added to it follows  *)
(* the script, the calls of the current run, and what a clean start means. *)
(***************************************************************************)
EXTENDS DirectRuns, DirectApiProofs

-----------------------------------------------------------------------------
(* The inductive invariant                                                 *)

RunsTypeOK == /\ run \in 1..Runs
              /\ step \in {"reset", "run", "summary", "over"}
              /\ attempt \in 0..Retries
              /\ resetAt \in Process \cup {Nobody}
              /\ cleared \in Process \cup {Nobody}
              /\ clean \in BOOLEAN
              /\ received \in [Purchase -> {"waiting", "open", "none", "success", "failed",
                                            "duplicate", "error", "invalid"}]

Resetting(r) == pc[r] \in {"del", "scan"}

(* Only the script resets, one replica at a time and before its run; what  *)
(* it found at rest when it began is still at rest.                        *)
ScriptOK == /\ \A r \in Process : Resetting(r) <=> resetAt = r
            /\ resetAt # Nobody => /\ step = "reset" /\ attempt < Retries
                                   /\ clean => quiet[resetAt]
            /\ cleared # Nobody => step # "reset"

(* What the client knows of a call, and what has become of it.             *)
ReceivedOK ==
    \A c \in Purchase :
        /\ received[c] = "waiting" => stage[c] = "unsent"
        /\ received[c] \notin {"waiting", "open", "error"} =>
              stage[c] = "done" /\ outcome[c].status = received[c]

(* The calls of later runs wait, and at the summary none of this one does. *)
WorkloadOK ==
    \A c \in Purchase :
        /\ RunOf[c] > run \/ (RunOf[c] = run /\ step = "reset") => received[c] = "waiting"
        /\ RunOf[c] = run /\ step = "summary" => received[c] \notin {"waiting", "open"}

(* Nothing is known of a call that was not sent.                           *)
UnsentOK == \A c \in Purchase : stage[c] = "unsent" => c \notin blind \cup voided

(* No reset withdraws what the current run bought.                         *)
NoneWithdrawn == Workload \cap voided = {}

UnderWay(c) == stage[c] \in {"queued", "serving"}

(* In a run that began clean only its own calls are under way.             *)
OnlyOwn ==
    clean => \A c \in Purchase : UnderWay(c) => RunOf[c] = run /\ step # "reset"

(* The replica that the reset cleared remembers calls of this run only ... *)
FreshCache ==
    clean /\ cleared # Nobody =>
        \A i \in Ids : processed[cleared][i] # NoResponse =>
            \E d \in Workload : Ran(d) /\ at[d] = cleared /\ OrderOf[d].id = i

(* ... and so its duplicates repeat one of them.                           *)
OwnDuplicates ==
    clean =>
        \A c \in Workload : outcome[c].status = "duplicate" /\ at[c] = cleared =>
            \E d \in Workload \ {c} : Ran(d) /\ at[d] = at[c] /\ OrderOf[d].id = OrderOf[c].id

(* The call was told SUCCESS, or its replica is about to tell it.          *)
Wins(c) == \/ outcome[c].status = "success"
           \/ \E r \in Process : sold[r] /\ serving[r] = c

Winners == {c \in Workload : Wins(c)}

(* What a run that began clean sold, it told, will tell, or lost by a fault.*)
SalesPaid ==
    clean /\ step # "reset" =>
        TicketsSold <= Cardinality(Winners) + faults

RunsInv == /\ RunsTypeOK /\ ScriptOK /\ ReceivedOK /\ WorkloadOK /\ UnsentOK
           /\ NoneWithdrawn /\ OnlyOwn /\ FreshCache /\ OwnDuplicates /\ SalesPaid
-----------------------------------------------------------------------------
(* The replicas under the script                                           *)

USE RunsAssumption, LimitsAssumption, PurchaseAssumption, OrderAssumption, BoundsAssumption,
    NoSeatAssumption

(* What a replica does by itself: its handlers, its restart, its faults.   *)
Works(r) == Handle(r) \/ Restart(r) \/ Fault(r)

(* The actions of RunsNext, one by one.                                    *)
LEMMA RunsCases ==
    ASSUME RunsNext
    PROVE  \/ \E r \in Process : PostReset(r)
           \/ \E r \in Process : ResetRefused(r)
           \/ \E r \in Process : Works(r) /\ Watch(r)
           \/ \E r \in Process : \E c \in Purchase : Post(c, r)
           \/ \E r \in Process : \E c \in Purchase : Refused(c, r)
           \/ \E c \in Purchase : Receive(c)
           \/ \E c \in Purchase : TimeOut(c)
           \/ FallBack \/ EndRun \/ NextRun
<1>1. CASE Script
  BY <1>1 DEF Script
<1>2. CASE \E r \in Process : Replica(r) \/ Trouble(r)
  BY <1>2 DEF Replica, Trouble, Works
<1> QED
  BY <1>1, <1>2 DEF RunsNext

(* FLUSHDB withdraws every sale and keeps the invariant of the replicas.   *)
LEMMA FlushStep ==
    ASSUME IInv, FallBack
    PROVE  IInv'
<1> USE DEF IInv
<1>1. /\ UNCHANGED <<processed, replicaVars, callVars, auxVars, boundVars>>
      /\ \/ /\ count' = 0 /\ buyers' = {}
            /\ owner' = [s \in Seats |-> Nobody]
            /\ voided' = voided \cup buyers \cup ({owner[s] : s \in Seats} \ {Nobody})
         \/ UNCHANGED storeVars
  BY DEF FallBack
<1> USE DEF replicaVars, callVars, auxVars, boundVars, storeVars
<1>2. TypeOK'
  BY <1>1 DEF TypeOK, BackendTypeOK
<1>3. ServingOK' /\ CallsOK'
  BY <1>1 DEF ServingOK, CallsOK, Cached
<1>4. CacheOK' /\ SameReplicaIdempotent' /\ DuplicateIsGenuine'
  BY <1>1 DEF CacheOK, Ran, SameReplicaIdempotent, DuplicateIsGenuine
<1>5. CASE UNCHANGED storeVars
  BY <1>1, <1>2, <1>3, <1>4, <1>5
     DEF StoreOK, SalesBacked, SalesTold, QuietOK, Holders, SoldSeats
<1>6. CASE ~(UNCHANGED storeVars)
  <2>1. /\ count' = 0 /\ buyers' = {} /\ owner' = [s \in Seats |-> Nobody]
        /\ voided' = voided \cup buyers \cup ({owner[s] : s \in Seats} \ {Nobody})
    BY <1>1, <1>6
  <2>2. Holders' = {} /\ SoldSeats' = {}
    BY <2>1 DEF Holders, SoldSeats
  <2>3. Holders \cup voided \subseteq voided'
    BY <2>1 DEF Holders, TypeOK, BackendTypeOK
  <2>4. StoreOK'
    BY <2>1, FS_EmptySet DEF StoreOK
  <2>5. SalesBacked' /\ SalesTold'
    BY <1>1, <2>2, <2>3 DEF SalesBacked, SalesTold
  <2>6. QuietOK'
    BY <1>1, <2>1, <2>2 DEF QuietOK
  <2> QED
    BY <1>2, <1>3, <1>4, <2>4, <2>5, <2>6
<1> QED
  BY <1>5, <1>6

(* What a replica does by itself is a step of DirectApi.                   *)
LEMMA WorksIsNext ==
    ASSUME NEW r \in Process, Works(r)
    PROVE  Next
  BY DEF Works, Next

(* The replicas keep their invariant, whatever the script does.            *)
LEMMA ReplicasStep ==
    ASSUME IInv, [RunsNext]_<<vars, runVars>>
    PROVE  IInv'
<1>1. CASE FallBack
  BY <1>1, FlushStep
<1>2. CASE Next
  BY <1>2, IInvStep
<1>3. CASE UNCHANGED vars
  BY <1>3, IInvStep
<1>4. ASSUME NEW r \in Process, PostReset(r)
      PROVE  Next
  BY <1>4 DEF PostReset, Next
<1>5. ASSUME NEW r \in Process, NEW c \in Purchase, Post(c, r)
      PROVE  Next
  BY <1>5 DEF Post, Next
<1>6. ASSUME NEW r \in Process, Works(r) /\ Watch(r)
      PROVE  Next
  BY <1>6, WorksIsNext
<1>7. ASSUME NEW r \in Process, ResetRefused(r)
      PROVE  UNCHANGED vars
  BY <1>7 DEF ResetRefused
<1>8. ASSUME NEW c \in Purchase, \/ \E r \in Process : Refused(c, r)
                                \/ Receive(c) \/ TimeOut(c)
      PROVE  UNCHANGED vars
  BY <1>8 DEF Refused, Receive, TimeOut, Return
<1>9. ASSUME EndRun \/ NextRun
      PROVE  UNCHANGED vars
  BY <1>9 DEF EndRun, NextRun
<1>10. CASE RunsNext
  BY <1>1, <1>2, <1>3, <1>4, <1>5, <1>6, <1>7, <1>8, <1>9, <1>10, RunsCases
<1>11. CASE UNCHANGED <<vars, runVars>>
  BY <1>3, <1>11
<1> QED
  BY <1>10, <1>11

(* What a replica does by itself, one by one.                              *)
LEMMA WorksCases ==
    ASSUME NEW r \in Process, Works(r)
    PROVE  \/ \E c \in Purchase : \/ RejectMalformed(r, c) \/ AnswerDuplicate(r, c)
                                 \/ RefuseOutOfRange(r, c) \/ BeginPurchase(r, c)
           \/ Execute(r) \/ Finish(r)
           \/ ResetCounter(r) \/ ResetBatch(r) \/ FinishReset(r)
           \/ BreakConnection(r) \/ BreakReset(r) \/ Crash(r) \/ Restart(r)
  BY DEF Works, Handle, Fault

(* What became of the calls: none is sent, an ended one stays as it ended, *)
(* and a new SUCCESS or DUPLICATE has its reason.                          *)
CallsGoOn(r) ==
    /\ at' = at
    /\ \A c \in Purchase :
          /\ stage[c] = "unsent" <=> stage'[c] = "unsent"
          /\ stage[c] = "done" => stage'[c] = "done" /\ outcome'[c] = outcome[c]
          /\ UnderWay(c)' => UnderWay(c)
          /\ outcome'[c] = outcome[c]
             \/ /\ UnderWay(c) /\ at[c] = r
                /\ outcome'[c].status = "duplicate" => processed[r][OrderOf[c].id] # NoResponse

(* Works keeps the calls straight.                                         *)
LEMMA WorksCalls ==
    ASSUME IInv, NEW r \in Process, Works(r)
    PROVE  CallsGoOn(r)
<1> USE DEF CallsGoOn, UnderWay
<1>0. /\ stage \in [Purchase -> {"unsent", "queued", "serving", "done"}]
      /\ outcome \in [Purchase -> Response]
      /\ serving[r] # Nobody => /\ serving[r] \in Purchase
                                /\ stage[serving[r]] = "serving"
                                /\ at[serving[r]] = r
      /\ pc[r] \in {"command", "reply"} => serving[r] # Nobody
  BY DEF IInv, TypeOK, ServingOK
<1>1. ASSUME NEW c \in Purchase, NEW resp, Respond(r, c, resp),
             UnderWay(c), at[c] = r,
             resp.status = "duplicate" => processed[r][OrderOf[c].id] # NoResponse
      PROVE  CallsGoOn(r)
  BY <1>0, <1>1 DEF Respond
<1>2. ASSUME NEW c \in Purchase, RejectMalformed(r, c)
      PROVE  CallsGoOn(r)
  BY <1>1, <1>2 DEF RejectMalformed, Ready
<1>3. ASSUME NEW c \in Purchase, AnswerDuplicate(r, c)
      PROVE  CallsGoOn(r)
  BY <1>1, <1>3 DEF AnswerDuplicate, Ready, Cached
<1>4. ASSUME NEW c \in Purchase, RefuseOutOfRange(r, c)
      PROVE  CallsGoOn(r)
  BY <1>1, <1>4 DEF RefuseOutOfRange, Ready, Failure
<1>5. ASSUME NEW c \in Purchase, BeginPurchase(r, c)
      PROVE  CallsGoOn(r)
  BY <1>0, <1>5 DEF BeginPurchase, Ready
<1>6. CASE Finish(r)
  <2>1. Answer(serving[r], sold[r]).status # "duplicate"
    BY DEF Answer
  <2> QED
    BY <1>0, <1>1, <1>6, <2>1 DEF Finish
<1>7. CASE BreakConnection(r)
  <2>1. CASE UNCHANGED callVars
    BY <1>0, <2>1 DEF callVars
  <2>2. CASE Respond(r, serving[r], [status |-> "error", seat |-> NoSeat])
    BY <1>0, <1>1, <1>7, <2>2 DEF BreakConnection
  <2> QED
    BY <1>7, <2>1, <2>2 DEF BreakConnection
<1>8. CASE Crash(r)
  BY <1>0, <1>8 DEF Crash
<1>9. CASE \/ Execute(r) \/ ResetCounter(r) \/ ResetBatch(r) \/ FinishReset(r)
           \/ BreakReset(r) \/ Restart(r)
  <2>1. UNCHANGED callVars
    BY <1>9 DEF Execute, ResetCounter, ResetBatch, FinishReset, BreakReset, Restart
  <2> QED
    BY <1>0, <2>1 DEF callVars
<1> QED
  BY <1>2, <1>3, <1>4, <1>5, <1>6, <1>7, <1>8, <1>9, WorksCases

(* What became of resets: no replica begins one, and one that goes on is   *)
(* as quiet as before.                                                     *)
ResetsGoOn(r) ==
    /\ \A q \in Process \ {r} : pc'[q] = pc[q] /\ quiet'[q] = quiet[q]
    /\ Resetting(r)' => Resetting(r) /\ quiet'[r] = quiet[r]
    /\ Resetting(r) => Resetting(r)' \/ pc'[r] = "idle"
    /\ Resetting(r)' => pc'[r] # "idle"

(* Works begins no reset.                                                  *)
LEMMA WorksResets ==
    ASSUME IInv, NEW r \in Process, Works(r)
    PROVE  ResetsGoOn(r)
<1> USE DEF ResetsGoOn, Resetting
<1>0. /\ pc \in [Process -> {"idle", "command", "reply", "del", "scan"}]
      /\ quiet \in [Process -> BOOLEAN]
  BY DEF IInv, TypeOK
<1>1. ASSUME NEW c, NEW resp, Respond(r, c, resp), pc[r] \notin {"del", "scan"}
      PROVE  ResetsGoOn(r)
  BY <1>0, <1>1 DEF Respond
<1>2. ASSUME NEW c \in Purchase, \/ RejectMalformed(r, c) \/ AnswerDuplicate(r, c)
                                 \/ RefuseOutOfRange(r, c)
      PROVE  ResetsGoOn(r)
  BY <1>1, <1>2 DEF RejectMalformed, AnswerDuplicate, RefuseOutOfRange, Ready
<1>3. ASSUME NEW c \in Purchase, BeginPurchase(r, c)
      PROVE  ResetsGoOn(r)
  BY <1>0, <1>3 DEF BeginPurchase, Ready, auxVars
<1>4. CASE Execute(r) \/ ResetCounter(r)
  BY <1>0, <1>4 DEF Execute, ResetCounter, auxVars
<1>5. CASE Finish(r)
  BY <1>1, <1>5 DEF Finish
<1>6. CASE ResetBatch(r) \/ Restart(r)
  BY <1>0, <1>6 DEF ResetBatch, Restart, auxVars
<1>7. CASE FinishReset(r) \/ BreakReset(r) \/ Crash(r)
  BY <1>0, <1>7 DEF FinishReset, BreakReset, Crash
<1>8. CASE BreakConnection(r)
  BY <1>0, <1>1, <1>8 DEF BreakConnection
<1> QED
  BY <1>2, <1>3, <1>4, <1>5, <1>6, <1>7, <1>8, WorksCases

(* What a step withdraws or leaves unknown: sales of the store, only in a  *)
(* reset, and the reply of the call that was served.                       *)
Unknowns(r) ==
    /\ voided' \subseteq voided \cup Holders
    /\ ~Resetting(r) => voided' = voided
    /\ blind' \subseteq blind \cup {serving[r]}

(* Works withdraws nothing but in a reset.                                 *)
LEMMA WorksUnknowns ==
    ASSUME IInv, NEW r \in Process, Works(r)
    PROVE  Unknowns(r)
<1> USE DEF Unknowns, Resetting
<1>1. ASSUME NEW c \in Purchase, \/ RejectMalformed(r, c) \/ AnswerDuplicate(r, c)
                                 \/ RefuseOutOfRange(r, c) \/ BeginPurchase(r, c)
      PROVE  Unknowns(r)
  BY <1>1 DEF RejectMalformed, AnswerDuplicate, RefuseOutOfRange, BeginPurchase, storeVars,
              auxVars
<1>2. CASE Execute(r)
  BY <1>2 DEF Execute, RunCommand, IncrBounded, SetSeatNX, auxVars
<1>3. CASE Finish(r) \/ BreakReset(r) \/ Crash(r) \/ Restart(r)
  BY <1>3 DEF Finish, BreakReset, Crash, Restart, storeVars, auxVars
<1>4. CASE BreakConnection(r)
  BY <1>4 DEF BreakConnection, storeVars
<1>5. CASE ResetCounter(r)
  BY <1>5 DEF ResetCounter, DeleteCounter, auxVars, IInv, StoreOK, TypeOK, BackendTypeOK,
              Holders
<1>6. CASE ResetBatch(r) \/ FinishReset(r)
  <2>1. PICK K \in SUBSET SoldSeats : DeleteSeats(K)
    BY <1>6 DEF ResetBatch, FinishReset
  <2>2. \A s \in K : owner[s] \in Holders
    BY <2>1 DEF SoldSeats, IInv, StoreOK, TypeOK, BackendTypeOK, Holders
  <2>3. voided' \subseteq voided \cup Holders
    BY <2>1, <2>2 DEF DeleteSeats
  <2> QED
    BY <1>6, <2>3 DEF ResetBatch, FinishReset, auxVars
<1> QED
  BY <1>1, <1>2, <1>3, <1>4, <1>5, <1>6, WorksCases

(* What a replica learns, it answered just now.                            *)
Learns(r) ==
    /\ \A q \in Process \ {r} : processed'[q] = processed[q]
    /\ \A i \in Ids : processed'[r][i] # NoResponse =>
          \/ processed[r][i] # NoResponse
          \/ \E c \in Purchase : UnderWay(c) /\ Ran(c)' /\ at[c] = r /\ OrderOf[c].id = i

(* Works caches what it answers and nothing else.                          *)
LEMMA WorksCache ==
    ASSUME IInv, NEW r \in Process, Works(r)
    PROVE  Learns(r)
<1> USE DEF Learns
<1>0. /\ processed \in [Process -> [Ids -> Response]]
      /\ stage \in [Purchase -> {"unsent", "queued", "serving", "done"}]
      /\ outcome \in [Purchase -> Response]
  BY DEF IInv, TypeOK, BackendTypeOK
<1>1. ASSUME NEW c \in Purchase, NEW resp, Remember(r, c, resp), Respond(r, c, resp),
             UnderWay(c), at[c] = r, resp.status \in {"success", "failed"}
      PROVE  Learns(r)
  <2>1. Ran(c)'
    BY <1>0, <1>1 DEF Respond, Ran
  <2> QED
    BY <1>0, <1>1, <2>1 DEF Remember
<1>2. ASSUME NEW c \in Purchase, RefuseOutOfRange(r, c)
      PROVE  Learns(r)
  <2>1. UnderWay(c) /\ at[c] = r
    BY <1>2 DEF RefuseOutOfRange, Ready, UnderWay
  <2>2. Remember(r, c, Failure) /\ Respond(r, c, Failure)
    BY <1>2 DEF RefuseOutOfRange
  <2>3. Failure.status = "failed"
    BY DEF Failure
  <2> QED
    BY <1>1, <2>1, <2>2, <2>3
<1>3. CASE Finish(r)
  <2>1. /\ serving[r] \in Purchase /\ UnderWay(serving[r]) /\ at[serving[r]] = r
    BY <1>3 DEF Finish, IInv, TypeOK, ServingOK, UnderWay
  <2>2. Answer(serving[r], sold[r]).status \in {"success", "failed"}
    BY DEF Answer
  <2>3. /\ Remember(r, serving[r], Answer(serving[r], sold[r]))
        /\ Respond(r, serving[r], Answer(serving[r], sold[r]))
    BY <1>3 DEF Finish
  <2> QED
    BY <1>1, <2>1, <2>2, <2>3
<1>4. CASE FinishReset(r) \/ Crash(r)
  BY <1>0, <1>4 DEF FinishReset, Crash, Forget, EmptyCache
<1>5. CASE processed' = processed
  BY <1>0, <1>5
<1>6. ASSUME NEW c \in Purchase, \/ RejectMalformed(r, c) \/ AnswerDuplicate(r, c)
                                 \/ BeginPurchase(r, c)
      PROVE  processed' = processed
  BY <1>6 DEF RejectMalformed, AnswerDuplicate, BeginPurchase
<1>7. CASE \/ Execute(r) \/ ResetCounter(r) \/ ResetBatch(r) \/ BreakConnection(r)
           \/ BreakReset(r) \/ Restart(r)
  BY <1>5, <1>7 DEF Execute, ResetCounter, ResetBatch, BreakConnection, BreakReset, Restart
<1> QED
  BY <1>2, <1>3, <1>4, <1>5, <1>6, <1>7, WorksCases

(* A replica that does not reset keeps what was sold and who wins it,      *)
(* except that a fault can cost the call it serves ...                     *)
Keeps(r) ==
    /\ UNCHANGED <<count, owner>>
    /\ \/ faults' = faults /\ \A c \in Purchase : Wins(c) => Wins(c)'
       \/ faults' = faults + 1 /\ \A c \in Purchase \ {serving[r]} : Wins(c) => Wins(c)'

(* ... or it sells one ticket or seat to a call.                           *)
SellsTo(c) ==
    /\ faults' = faults
    /\ UnderWay(c) /\ ~Wins(c) /\ Wins(c)'
    /\ \A d \in Purchase : Wins(d) => Wins(d)'
    /\ \/ count' = count + 1 /\ owner' = owner
       \/ /\ count' = count
          /\ \E s \in Seats : owner[s] = Nobody /\ owner' = [owner EXCEPT ![s] = c]

(* Works outside a reset keeps the sales or adds one.                      *)
LEMMA WorksSales ==
    ASSUME IInv, NEW r \in Process, Works(r), ~Resetting(r)
    PROVE  Keeps(r) \/ \E c \in Purchase : SellsTo(c)
<1>0. /\ faults \in Nat /\ count \in Nat
      /\ sold \in [Process -> BOOLEAN]
      /\ outcome \in [Purchase -> Response]
      /\ serving \in [Process -> Purchase \cup {Nobody}]
      /\ sold[r] => pc[r] = "reply"
      /\ owner \in [Seats -> Purchase \cup {Nobody}]
  BY DEF IInv, TypeOK, BackendTypeOK, ServingOK
<1>1. ASSUME NEW c \in Purchase, NEW resp, Respond(r, c, resp), outcome[c] = NoResponse,
             UNCHANGED <<storeVars, faults>>, sold[r] => resp.status = "success",
             sold[r] => serving[r] = c
      PROVE  Keeps(r)
  <2>1. /\ outcome' = [outcome EXCEPT ![c] = resp]
        /\ serving' = [serving EXCEPT ![r] = Nobody]
        /\ sold' = [sold EXCEPT ![r] = FALSE]
    BY <1>1 DEF Respond
  <2>2. ASSUME NEW d \in Purchase, outcome[d].status = "success"
        PROVE  outcome'[d].status = "success"
    BY <1>0, <1>1, <2>1, <2>2 DEF NoResponse
  <2>3. ASSUME NEW d \in Purchase, NEW q \in Process, sold[q] /\ serving[q] = d
        PROVE  Wins(d)'
    <3>1. CASE q = r
      BY <1>0, <1>1, <2>1, <2>3, <3>1 DEF Wins
    <3>2. CASE q # r
      BY <1>0, <2>1, <2>3, <3>2 DEF Wins
    <3> QED
      BY <3>1, <3>2
  <2> QED
    BY <1>1, <2>2, <2>3 DEF Keeps, Wins, storeVars
<1>2. ASSUME NEW c \in Purchase, \/ RejectMalformed(r, c) \/ AnswerDuplicate(r, c)
                                 \/ RefuseOutOfRange(r, c)
      PROVE  Keeps(r)
  <2>1. pc[r] = "idle" /\ stage[c] = "queued"
    BY <1>2 DEF RejectMalformed, AnswerDuplicate, RefuseOutOfRange, Ready
  <2>2. outcome[c] = NoResponse /\ ~sold[r]
    BY <1>0, <2>1 DEF IInv, CallsOK
  <2>3. UNCHANGED <<storeVars, faults>> /\ \E resp : Respond(r, c, resp)
    BY <1>2 DEF RejectMalformed, AnswerDuplicate, RefuseOutOfRange
  <2> QED
    BY <1>1, <2>2, <2>3
<1>3. ASSUME NEW c \in Purchase, BeginPurchase(r, c)
      PROVE  Keeps(r)
  <2>1. pc[r] = "idle" /\ ~sold[r]
    BY <1>0, <1>3 DEF BeginPurchase, Ready
  <2>2. /\ serving' = [serving EXCEPT ![r] = c] /\ UNCHANGED <<storeVars, sold, outcome, faults>>
    BY <1>3 DEF BeginPurchase, boundVars
  <2> QED
    BY <1>0, <2>1, <2>2 DEF Keeps, Wins, storeVars
<1>4. CASE Finish(r)
  <2>1. /\ serving[r] \in Purchase /\ outcome[serving[r]] = NoResponse
    BY <1>0, <1>4 DEF Finish, IInv, ServingOK, CallsOK
  <2>2. sold[r] => Answer(serving[r], sold[r]).status = "success"
    BY DEF Answer
  <2>3. Respond(r, serving[r], Answer(serving[r], sold[r])) /\ UNCHANGED <<storeVars, faults>>
    BY <1>4 DEF Finish
  <2> QED
    BY <1>1, <2>1, <2>2, <2>3
<1>5. CASE BreakConnection(r)
  <2>1. faults' = faults + 1 /\ UNCHANGED storeVars
    BY <1>5 DEF BreakConnection
  <2>2. serving[r] \in Purchase /\ outcome[serving[r]] = NoResponse
    BY <1>0, <1>5 DEF BreakConnection, IInv, ServingOK, CallsOK
  <2>3. /\ sold' = [sold EXCEPT ![r] = FALSE]
        /\ \A q \in Process \ {r} : serving'[q] = serving[q]
        /\ \A d \in Purchase \ {serving[r]} : outcome'[d] = outcome[d]
    BY <1>0, <1>5, <2>2 DEF BreakConnection, Respond, callVars
  <2> QED
    BY <1>0, <2>1, <2>3 DEF Keeps, Wins, storeVars
<1>6. CASE Crash(r)
  <2>1. /\ faults' = faults + 1 /\ UNCHANGED <<storeVars, outcome>>
        /\ sold' = [sold EXCEPT ![r] = FALSE]
        /\ serving' = [serving EXCEPT ![r] = Nobody]
    BY <1>6 DEF Crash
  <2> QED
    BY <1>0, <2>1 DEF Keeps, Wins, storeVars
<1>7. CASE Restart(r)
  BY <1>7 DEF Restart, Keeps, Wins, storeVars, callVars, boundVars
<1>8. CASE Execute(r)
  <2>1. PICK granted \in BOOLEAN : /\ RunCommand(serving[r], granted)
                                   /\ sold' = [sold EXCEPT ![r] = granted]
    BY <1>8 DEF Execute
  <2>2. UNCHANGED <<outcome, serving, faults>> /\ pc[r] = "command"
    BY <1>8 DEF Execute, callVars, boundVars
  <2>3. ~sold[r] /\ serving[r] \in Purchase
    BY <1>0, <2>2 DEF IInv, ServingOK
  <2>4. \A c \in Purchase : Wins(c) => Wins(c)'
    BY <1>0, <2>1, <2>2, <2>3 DEF Wins
  <2>5. CASE ~granted
    <3>1. UNCHANGED <<count, owner>>
      BY <2>1, <2>5 DEF RunCommand, IncrBounded, SetSeatNX
    <3> QED
      BY <2>2, <2>4, <3>1 DEF Keeps
  <2>6. CASE granted
    <3>1. PICK c \in Purchase : c = serving[r]
      BY <2>3
    <3>2. Wins(c)'
      BY <1>0, <2>1, <2>2, <2>6, <3>1 DEF Wins
    <3>3. stage[c] = "serving" /\ at[c] = r
      BY <2>3, <3>1 DEF IInv, ServingOK
    <3>4. ~Wins(c)
      <4>1. outcome[c] = NoResponse
        BY <3>3 DEF IInv, CallsOK
      <4>2. \A q \in Process : serving[q] = c => q = r
        BY <3>3 DEF IInv, ServingOK
      <4> QED
        BY <2>3, <4>1, <4>2 DEF Wins, NoResponse
    <3>5. \/ count' = count + 1 /\ owner' = owner
          \/ /\ count' = count
             /\ \E s \in Seats : owner[s] = Nobody /\ owner' = [owner EXCEPT ![s] = c]
      <4>1. CASE OrderOf[c].type = "unnumbered"
        BY <2>1, <2>6, <3>1, <4>1 DEF RunCommand, IncrBounded
      <4>2. CASE OrderOf[c].type # "unnumbered"
        <5>1. OrderOf[c].seat \in Seats
          BY <2>3, <3>1, <4>2 DEF IInv, ServingOK, NeedsStore
        <5> QED
          BY <2>1, <2>6, <3>1, <4>2, <5>1 DEF RunCommand, SetSeatNX
      <4> QED
        BY <4>1, <4>2
    <3> QED
      BY <2>2, <2>4, <3>2, <3>3, <3>4, <3>5 DEF SellsTo, UnderWay
  <2> QED
    BY <2>5, <2>6
<1> QED
  BY <1>2, <1>3, <1>4, <1>5, <1>6, <1>7, <1>8, WorksCases
     DEF Resetting, ResetCounter, ResetBatch, FinishReset, BreakReset

-----------------------------------------------------------------------------
(* The script                                                              *)

(* The types of the script at the start.                                   *)
LEMMA RunsTypeInit == RunsInit => RunsTypeOK
<1> SUFFICES ASSUME RunsInit PROVE RunsTypeOK
  OBVIOUS
<1>1. 1 \in 1..Runs /\ 0 \in 0..Retries
  OBVIOUS
<1>2. run = 1 /\ attempt = 0
  BY DEF RunsInit
<1>3. /\ step = "reset" /\ resetAt = Nobody /\ cleared = Nobody /\ clean = FALSE
      /\ received = [c \in Purchase |-> "waiting"]
  BY DEF RunsInit
<1> QED
  BY <1>1, <1>2, <1>3 DEF RunsTypeOK

(* Every step keeps them.                                                  *)
LEMMA RunsTypeStep ==
    ASSUME IInv, RunsTypeOK, ScriptOK, RunsNext
    PROVE  RunsTypeOK'
<1> USE DEF RunsTypeOK
<1>0. Retries \in Nat /\ Runs \in Nat /\ attempt \in Nat
  OBVIOUS
<1>1. ASSUME NEW r \in Process, PostReset(r)
      PROVE  RunsTypeOK'
  BY <1>1 DEF PostReset, NothingUnderWay
<1>2. ASSUME NEW r \in Process, ResetRefused(r)
      PROVE  RunsTypeOK'
  BY <1>0, <1>2 DEF ResetRefused
<1>3. ASSUME NEW r \in Process, Watch(r)
      PROVE  RunsTypeOK'
  BY <1>0, <1>3 DEF Watch, ScriptOK, runVars
<1>4. ASSUME NEW r \in Process, NEW c \in Purchase, Post(c, r)
      PROVE  RunsTypeOK'
  BY <1>4 DEF Post
<1>5. ASSUME NEW c \in Purchase, NEW status,
             status \in {"none", "success", "failed", "duplicate", "error", "invalid"},
             Return(c, status)
      PROVE  RunsTypeOK'
  BY <1>5 DEF Return
<1>6. ASSUME NEW c \in Purchase, \/ \E r \in Process : Refused(c, r)
                                 \/ Receive(c) \/ TimeOut(c)
      PROVE  RunsTypeOK'
  <2>1. outcome[c].status \in {"none", "success", "failed", "duplicate", "error", "invalid"}
    BY DEF IInv, TypeOK, Response
  <2> QED
    BY <1>5, <1>6, <2>1 DEF Refused, Receive, TimeOut
<1>7. CASE FallBack
  BY <1>7 DEF FallBack, NothingUnderWay
<1>8. CASE EndRun
  BY <1>8 DEF EndRun
<1>9. CASE NextRun
  <2>1. run' \in 1..Runs /\ attempt' \in 0..Retries
    BY <1>0, <1>9 DEF NextRun
  <2>2. /\ step' \in {"reset", "over"} /\ clean' = FALSE /\ cleared' = Nobody
        /\ UNCHANGED <<resetAt, received>>
    BY <1>9 DEF NextRun
  <2> QED
    BY <2>1, <2>2
<1> QED
  BY <1>1, <1>2, <1>3, <1>4, <1>6, <1>7, <1>8, <1>9, RunsCases

(* No replica resets at the start.                                         *)
LEMMA ScriptInit == RunsInit => ScriptOK
  BY DEF RunsInit, Init, ScriptOK, Resetting

(* The script sees its reset through, and nobody else resets.              *)
LEMMA ScriptStep ==
    ASSUME IInv, RunsTypeOK, ScriptOK, RunsNext
    PROVE  ScriptOK'
<1> USE DEF ScriptOK, RunsTypeOK
<1>0. /\ Retries \in Nat /\ attempt \in Nat
      /\ pc \in [Process -> {"idle", "command", "reply", "del", "scan"}]
      /\ quiet \in [Process -> BOOLEAN]
  BY DEF IInv, TypeOK
<1>1. ASSUME NEW r \in Process, PostReset(r)
      PROVE  ScriptOK'
  <2>1. /\ pc' = [pc EXCEPT ![r] = "del"] /\ quiet' = [quiet EXCEPT ![r] = clean']
        /\ resetAt = Nobody /\ resetAt' = r /\ UNCHANGED <<step, attempt, cleared>>
        /\ step = "reset" /\ attempt < Retries
    BY <1>1 DEF PostReset, BeginReset, NothingUnderWay
  <2>2. \A q \in Process : Resetting(q)' <=> resetAt' = q
    BY <1>0, <2>1 DEF Resetting
  <2> QED
    BY <1>0, <2>1, <2>2
<1>2. CASE /\ resetAt = Nobody /\ resetAt' = Nobody /\ pc' = pc
           /\ cleared' # Nobody => step' # "reset"
  BY <1>2 DEF Resetting
<1>3. ASSUME NEW r \in Process, ResetRefused(r)
      PROVE  ScriptOK'
  BY <1>2, <1>3 DEF ResetRefused, vars, replicaVars
<1>4. ASSUME NEW r \in Process, Works(r), Watch(r)
      PROVE  ScriptOK'
  <2>1. ResetsGoOn(r)
    BY <1>4, WorksResets
  <2>2. CASE resetAt = r /\ pc'[r] = "idle"
    <3>1. resetAt' = Nobody /\ (cleared' # Nobody => step' # "reset")
      BY <1>4, <2>2 DEF Watch
    <3>2. \A q \in Process : ~Resetting(q)'
      BY <2>1, <2>2 DEF ResetsGoOn, Resetting
    <3> QED
      BY <3>1, <3>2
  <2>3. CASE ~(resetAt = r /\ pc'[r] = "idle")
    <3>1. UNCHANGED runVars
      BY <1>4, <2>3 DEF Watch
    <3>2. \A q \in Process : Resetting(q)' <=> resetAt' = q
      BY <2>1, <2>3, <3>1 DEF ResetsGoOn, Resetting, runVars
    <3>3. resetAt # Nobody => quiet'[resetAt] = quiet[resetAt]
      BY <2>1, <2>3 DEF ResetsGoOn
    <3> QED
      BY <3>1, <3>2, <3>3 DEF runVars
  <2> QED
    BY <2>2, <2>3
<1>5. ASSUME NEW r \in Process, NEW c \in Purchase, Post(c, r)
      PROVE  ScriptOK'
  BY <1>2, <1>5 DEF Post, Take, Send, replicaVars
<1>6. ASSUME NEW c \in Purchase, \/ \E r \in Process : Refused(c, r)
                                 \/ Receive(c) \/ TimeOut(c)
      PROVE  ScriptOK'
  <2>1. UNCHANGED <<vars, run, step, attempt, resetAt, cleared, clean>>
    BY <1>6 DEF Refused, Receive, TimeOut, Return
  <2> QED
    BY <2>1 DEF vars, replicaVars, auxVars, Resetting
<1>7. CASE FallBack
  <2>1. resetAt = Nobody
    BY <1>0, <1>7 DEF FallBack
  <2> QED
    BY <1>2, <1>7, <2>1 DEF FallBack, replicaVars
<1>8. CASE EndRun \/ NextRun
  BY <1>2, <1>8 DEF EndRun, NextRun, vars, replicaVars
<1> QED
  BY <1>1, <1>3, <1>4, <1>5, <1>6, <1>7, <1>8, RunsCases

(* What Watch changes, and that it changes nothing while a run goes on.    *)
LEMMA WatchFacts ==
    ASSUME RunsTypeOK, ScriptOK, NEW r \in Process, Watch(r)
    PROVE  /\ UNCHANGED <<run, clean, received>>
           /\ step # "reset" => step' = step /\ cleared' = cleared
           /\ step' = step \/ (step = "reset" /\ step' = "run")
           /\ Resetting(r) => step = "reset"
           /\ step = "reset" /\ step' # "reset" => resetAt = r /\ ResetReturns(r)
           /\ step = "reset" /\ step' = "reset" => cleared' = cleared
  BY DEF Watch, RunsTypeOK, ScriptOK, runVars

-----------------------------------------------------------------------------
(* What the steps of the script leave alone                                *)

(* A reset that begins.                                                    *)
LEMMA PostResetFacts ==
    ASSUME NEW r \in Process, PostReset(r)
    PROVE  /\ step = "reset" /\ clean' = NothingUnderWay
           /\ UNCHANGED <<count, buyers, owner, voided, processed, serving, sold, stage, at,
                          outcome, blind, faults, run, step, cleared, received>>
  BY DEF PostReset, BeginReset, storeVars, callVars

(* A call that is sent.                                                    *)
LEMMA PostFacts ==
    ASSUME IInv, NEW r \in Process, NEW c \in Purchase, Post(c, r)
    PROVE  /\ step = "run" /\ c \in Workload /\ received[c] = "waiting"
           /\ stage[c] = "unsent" /\ outcome[c] = NoResponse
           /\ stage' = [stage EXCEPT ![c] = "queued"]
           /\ at' = [at EXCEPT ![c] = r]
           /\ received' = [received EXCEPT ![c] = "open"]
           /\ UNCHANGED <<count, buyers, owner, voided, processed, serving, sold, outcome, blind,
                          faults, run, step, cleared, clean>>
  BY DEF Post, Take, Send, storeVars, replicaVars, boundVars, IInv, CallsOK

(* The client learns something of a call, and it is true or "error".       *)
Hears(c) ==
    \E status \in {"none", "success", "failed", "duplicate", "error", "invalid"} :
        /\ received' = [received EXCEPT ![c] = status]
        /\ \/ received[c] = "waiting" /\ c \in Workload /\ step = "run" /\ status = "error"
           \/ /\ received[c] = "open"
              /\ status = "error" \/ (stage[c] = "done" /\ outcome[c].status = status)

(* Nothing else happens when it does.                                      *)
LEMMA HearFacts ==
    ASSUME IInv, NEW c \in Purchase, (\E r \in Process : Refused(c, r)) \/ Receive(c) \/ TimeOut(c)
    PROVE  /\ Hears(c)
           /\ UNCHANGED <<count, buyers, owner, voided, processed, serving, sold, stage, at,
                          outcome, blind, faults, run, step, cleared, clean>>
<1>1. outcome[c].status \in {"none", "success", "failed", "duplicate", "error", "invalid"}
  BY DEF IInv, TypeOK, Response
<1>2. Hears(c)
  <2>1. CASE \E r \in Process : Refused(c, r)
    BY <2>1 DEF Hears, Refused, Take, Return
  <2>2. CASE Receive(c)
    BY <1>1, <2>2 DEF Hears, Receive, Return
  <2>3. CASE TimeOut(c)
    BY <2>3 DEF Hears, TimeOut, Return
  <2> QED
    BY <2>1, <2>2, <2>3
<1>3. UNCHANGED <<vars, run, step, cleared, clean>>
  BY DEF Refused, Receive, TimeOut, Return
<1> QED
  BY <1>2, <1>3 DEF vars, storeVars, replicaVars, callVars, auxVars, boundVars

(* The fall-back of the reset.                                             *)
LEMMA FallBackFacts ==
    ASSUME IInv, FallBack
    PROVE  /\ step = "reset" /\ step' = "run"
           /\ voided' \subseteq voided \cup Holders
           /\ clean' => NothingUnderWay /\ count' = 0 /\ SoldSeats' = {}
           /\ UNCHANGED <<processed, serving, sold, stage, at, outcome, blind, faults, run,
                          cleared, received>>
<1>1. /\ step = "reset" /\ step' = "run"
      /\ UNCHANGED <<processed, serving, sold, stage, at, outcome, blind, faults, run,
                     cleared, received>>
  BY DEF FallBack, replicaVars, callVars, auxVars, boundVars
<1>2. CASE /\ count' = 0
           /\ owner' = [s \in Seats |-> Nobody]
           /\ voided' = voided \cup buyers \cup ({owner[s] : s \in Seats} \ {Nobody})
           /\ clean' = NothingUnderWay
  <2>1. SoldSeats' = {}
    BY <1>2 DEF SoldSeats
  <2>2. buyers \subseteq Holders
    BY DEF IInv, TypeOK, BackendTypeOK, StoreOK, Holders
  <2>3. \A s \in Seats : owner[s] # Nobody => owner[s] \in Holders
    BY DEF IInv, TypeOK, BackendTypeOK, StoreOK, Holders
  <2> QED
    BY <1>1, <1>2, <2>1, <2>2, <2>3
<1>3. CASE UNCHANGED storeVars /\ clean' = FALSE
  BY <1>1, <1>3 DEF storeVars
<1> QED
  BY <1>2, <1>3 DEF FallBack

(* What only the script's own variables notice.                            *)
LEMMA EndFacts ==
    ASSUME (\E r \in Process : ResetRefused(r)) \/ EndRun \/ NextRun
    PROVE  /\ UNCHANGED <<count, buyers, owner, voided, processed, serving, sold, stage, at,
                          outcome, blind, faults, received>>
           /\ \/ UNCHANGED <<run, step, cleared, clean>>
              \/ EndRun /\ UNCHANGED <<run, cleared, clean>>
              \/ NextRun /\ clean' = FALSE
<1>1. UNCHANGED <<vars, received>>
  BY DEF ResetRefused, EndRun, NextRun
<1>2. \/ UNCHANGED <<run, step, cleared, clean>>
      \/ EndRun /\ UNCHANGED <<run, cleared, clean>>
      \/ NextRun /\ clean' = FALSE
  BY DEF ResetRefused, EndRun, NextRun
<1> QED
  BY <1>1, <1>2 DEF vars, storeVars, replicaVars, callVars, auxVars, boundVars

-----------------------------------------------------------------------------
(* What the client knows                                                   *)

(* At the start nothing is sent and every call waits.                      *)
LEMMA ReceivedInit == RunsInit => ReceivedOK /\ WorkloadOK /\ UnsentOK
  BY DEF RunsInit, Init, BackendInit, ReceivedOK, WorkloadOK, UnsentOK

(* What the client heard stays true: an answer is never taken back.        *)
LEMMA ReceivedStep ==
    ASSUME IInv, RunsTypeOK, ScriptOK, ReceivedOK, RunsNext
    PROVE  ReceivedOK'
<1> USE DEF ReceivedOK
<1>0. /\ received \in [Purchase -> {"waiting", "open", "none", "success", "failed",
                                    "duplicate", "error", "invalid"}]
      /\ stage \in [Purchase -> {"unsent", "queued", "serving", "done"}]
  BY DEF RunsTypeOK, IInv, TypeOK
<1>1. CASE UNCHANGED <<stage, outcome, received>>
  BY <1>1
<1>2. ASSUME NEW r \in Process, Works(r), Watch(r)
      PROVE  ReceivedOK'
  <2>1. CallsGoOn(r) /\ received' = received
    BY <1>2, WorksCalls, WatchFacts
  <2> QED
    BY <2>1 DEF CallsGoOn
<1>3. ASSUME NEW r \in Process, NEW c \in Purchase, Post(c, r)
      PROVE  ReceivedOK'
  BY <1>0, <1>3, PostFacts
<1>4. ASSUME NEW c \in Purchase, \/ \E r \in Process : Refused(c, r)
                                 \/ Receive(c) \/ TimeOut(c)
      PROVE  ReceivedOK'
  BY <1>0, <1>4, HearFacts DEF Hears
<1> QED
  BY <1>1, <1>2, <1>3, <1>4, PostResetFacts, FallBackFacts, EndFacts, RunsCases

(* A call waits until its run, and its run waits for it.                   *)
LEMMA WorkloadStep ==
    ASSUME IInv, RunsTypeOK, ScriptOK, WorkloadOK, RunsNext
    PROVE  WorkloadOK'
<1> USE DEF WorkloadOK
<1>0. /\ received \in [Purchase -> {"waiting", "open", "none", "success", "failed",
                                    "duplicate", "error", "invalid"}]
      /\ run \in Nat /\ \A c \in Purchase : RunOf[c] \in Nat
  BY DEF RunsTypeOK
<1>1. CASE UNCHANGED <<received, run, step>>
  BY <1>1
<1>2. ASSUME NEW r \in Process, Works(r), Watch(r)
      PROVE  WorkloadOK'
  <2>1. UNCHANGED <<received, run>> /\ (step' = step \/ (step = "reset" /\ step' = "run"))
    BY <1>2, WatchFacts
  <2> QED
    BY <2>1
<1>3. ASSUME NEW r \in Process, NEW c \in Purchase, Post(c, r)
      PROVE  WorkloadOK'
  BY <1>0, <1>3, PostFacts DEF Workload
<1>4. ASSUME NEW c \in Purchase, \/ \E r \in Process : Refused(c, r)
                                 \/ Receive(c) \/ TimeOut(c)
      PROVE  WorkloadOK'
  BY <1>0, <1>4, HearFacts DEF Hears, Workload
<1>5. CASE FallBack
  <2>1. UNCHANGED <<received, run>> /\ step = "reset" /\ step' = "run"
    BY <1>5, FallBackFacts
  <2> QED
    BY <2>1
<1>6. CASE EndRun
  <2>1. /\ UNCHANGED <<received, run>> /\ step = "run" /\ step' = "summary"
        /\ \A c \in Workload : received[c] \notin {"waiting", "open"}
    BY <1>6 DEF EndRun
  <2> QED
    BY <2>1 DEF Workload
<1>7. CASE NextRun
  <2>1. /\ received' = received
        /\ (run' = run + 1 /\ step' = "reset") \/ (run' = run /\ step' = "over")
    BY <1>7 DEF NextRun
  <2> QED
    BY <1>0, <2>1
<1> QED
  BY <1>1, <1>2, <1>3, <1>4, <1>5, <1>6, <1>7, PostResetFacts, EndFacts, RunsCases

(* Nothing becomes known of an unsent call.                                *)
LEMMA UnsentStep ==
    ASSUME IInv, RunsTypeOK, ScriptOK, UnsentOK, RunsNext
    PROVE  UnsentOK'
<1> USE DEF UnsentOK
<1>1. \A c \in Purchase : stage[c] = "unsent" => c \notin Holders
  <2> SUFFICES ASSUME NEW c \in Holders, stage[c] = "unsent"
               PROVE  FALSE
    OBVIOUS
  <2>1. c \in Purchase /\ c \notin blind
    BY DEF Holders
  <2>2. outcome[c] = NoResponse
    BY <2>1 DEF IInv, CallsOK
  <2>3. PICK r \in Process : serving[r] = c
    BY <2>1, <2>2 DEF IInv, SalesTold, NoResponse
  <2> QED
    BY <2>1, <2>3 DEF IInv, ServingOK
<1>2. CASE UNCHANGED <<stage, blind, voided>>
  BY <1>2
<1>3. ASSUME NEW r \in Process, Works(r), Watch(r)
      PROVE  UnsentOK'
  <2>1. CallsGoOn(r) /\ Unknowns(r)
    BY <1>3, WorksCalls, WorksUnknowns
  <2>2. \A c \in Purchase : stage[c] = "unsent" => c # serving[r]
    BY DEF IInv, ServingOK
  <2> QED
    BY <1>1, <2>1, <2>2 DEF CallsGoOn, Unknowns
<1>4. ASSUME NEW r \in Process, NEW c \in Purchase, Post(c, r)
      PROVE  UnsentOK'
  <2>1. stage' = [stage EXCEPT ![c] = "queued"] /\ UNCHANGED <<blind, voided>>
    BY <1>4, PostFacts
  <2> QED
    BY <2>1 DEF IInv, TypeOK
<1>5. CASE FallBack
  BY <1>1, <1>5, FallBackFacts
<1> QED
  BY <1>2, <1>3, <1>4, <1>5, PostResetFacts, HearFacts, EndFacts, RunsCases

(* No sale of the current run is withdrawn: resets come before it.         *)
LEMMA WithdrawnStep ==
    ASSUME IInv, RunsTypeOK, ScriptOK, ReceivedOK, WorkloadOK, UnsentOK, UnsentOK',
           NoneWithdrawn, RunsNext
    PROVE  NoneWithdrawn'
<1> USE DEF NoneWithdrawn
<1>0. run \in Nat /\ \A c \in Purchase : RunOf[c] \in Nat
  BY DEF RunsTypeOK
<1>1. CASE UNCHANGED <<run, voided>>
  BY <1>1 DEF Workload
<1>2. \A c \in Purchase : RunOf[c] > run \/ (RunOf[c] = run /\ step = "reset")
                              => stage[c] = "unsent"
  BY DEF WorkloadOK, ReceivedOK
<1>3. CASE run' = run /\ step = "reset" /\ \A c \in Purchase : stage[c] = "unsent"
                                                                => stage'[c] = "unsent"
  BY <1>2, <1>3 DEF UnsentOK, Workload
<1>4. ASSUME NEW r \in Process, Works(r), Watch(r)
      PROVE  NoneWithdrawn'
  <2>1. CallsGoOn(r) /\ Unknowns(r) /\ run' = run /\ (Resetting(r) => step = "reset")
    BY <1>4, WorksCalls, WorksUnknowns, WatchFacts
  <2>2. CASE Resetting(r)
    BY <1>3, <2>1, <2>2 DEF CallsGoOn
  <2>3. CASE ~Resetting(r)
    BY <1>1, <2>1, <2>3 DEF Unknowns
  <2> QED
    BY <2>2, <2>3
<1>5. CASE FallBack
  BY <1>3, <1>5, FallBackFacts
<1>6. CASE NextRun
  <2>1. UNCHANGED <<voided, stage>> /\ (run' = run + 1 \/ run' = run)
    BY <1>6, EndFacts DEF NextRun
  <2>2. CASE run' = run + 1
    <3>1. \A c \in Workload' : c \in Purchase /\ RunOf[c] > run
      BY <1>0, <2>2 DEF Workload
    <3> QED
      BY <1>2, <2>1, <3>1 DEF UnsentOK
  <2> QED
    BY <1>1, <2>1, <2>2
<1> QED
  BY <1>1, <1>4, <1>5, <1>6, PostResetFacts, PostFacts, HearFacts, EndFacts, RunsCases

-----------------------------------------------------------------------------
(* A run that began clean                                                  *)

(* The calls of the run are still to come while its reset goes on.         *)
LEMMA NotYetSent ==
    ASSUME IInv, ReceivedOK, WorkloadOK, step = "reset", NEW c \in Workload
    PROVE  c \in Purchase /\ stage[c] = "unsent" /\ outcome[c] = NoResponse
  BY DEF Workload, ReceivedOK, WorkloadOK, IInv, CallsOK

(* Only its own calls are ever under way.                                  *)
LEMMA OwnStep ==
    ASSUME IInv, RunsTypeOK, ScriptOK, OnlyOwn, RunsNext
    PROVE  OnlyOwn'
<1> USE DEF OnlyOwn
<1>0. stage \in [Purchase -> {"unsent", "queued", "serving", "done"}]
  BY DEF IInv, TypeOK
<1>1. CASE UNCHANGED <<stage, run, step, clean>>
  BY <1>1 DEF UnderWay
<1>2. CASE clean' => NothingUnderWay /\ stage' = stage
  BY <1>0, <1>2 DEF NothingUnderWay, UnderWay
<1>3. ASSUME NEW r \in Process, Works(r), Watch(r)
      PROVE  OnlyOwn'
  <2>1. CallsGoOn(r)
    BY <1>3, WorksCalls
  <2>2. UNCHANGED <<run, clean>> /\ (step # "reset" => step' = step)
    BY <1>3, WatchFacts
  <2> QED
    BY <2>1, <2>2 DEF CallsGoOn
<1>4. ASSUME NEW r \in Process, NEW c \in Purchase, Post(c, r)
      PROVE  OnlyOwn'
  <2>1. /\ stage' = [stage EXCEPT ![c] = "queued"] /\ UNCHANGED <<run, step, clean>>
        /\ RunOf[c] = run /\ step = "run"
    BY <1>4, PostFacts DEF Workload
  <2> QED
    BY <1>0, <2>1 DEF UnderWay
<1>5. CASE EndRun
  BY <1>5, EndFacts DEF EndRun, UnderWay
<1> QED
  BY <1>1, <1>2, <1>3, <1>4, <1>5, PostResetFacts, HearFacts, FallBackFacts, EndFacts, RunsCases

(* The replica its reset cleared remembers nothing else.                   *)
LEMMA FreshStep ==
    ASSUME IInv, RunsTypeOK, ScriptOK, ReceivedOK, WorkloadOK, OnlyOwn, FreshCache, RunsNext
    PROVE  FreshCache'
<1> USE DEF FreshCache
<1>0. step = "reset" => cleared = Nobody
  BY DEF ScriptOK
<1>1. CASE UNCHANGED <<processed, stage, outcome, at, run, cleared, clean>>
  BY <1>1 DEF Workload, Ran
<1>2. CASE cleared' = Nobody \/ ~clean'
  BY <1>2
<1>3. ASSUME NEW r \in Process, Works(r), Watch(r), clean, clean', cleared' # Nobody
      PROVE  FreshCache'
  <2>1. CallsGoOn(r) /\ Learns(r) /\ run' = run
    BY <1>3, WorksCalls, WorksCache, WatchFacts
  <2>2. \A d \in Purchase : Ran(d) => Ran(d)' /\ at'[d] = at[d]
    BY <2>1 DEF CallsGoOn, Ran
  <2>3. CASE step = "reset"
    <3>1. step' # "reset" /\ ResetReturns(r) /\ cleared' = r /\ quiet[r]
      BY <1>0, <1>3, <2>3 DEF Watch, ScriptOK, RunsTypeOK, runVars
    <3>2. processed'[r] = EmptyCache
      BY <1>3, <3>1, WorksIsNext, QuietResetStep DEF QuietlyCleared
    <3> QED
      BY <3>1, <3>2 DEF EmptyCache
  <2>4. CASE step # "reset"
    <3>1. cleared' = cleared /\ cleared \in Process
      BY <1>3, <2>4, WatchFacts DEF RunsTypeOK
    <3> SUFFICES ASSUME NEW i \in Ids, processed'[cleared][i] # NoResponse
                 PROVE  \E d \in Workload : /\ Ran(d)' /\ at'[d] = cleared
                                            /\ OrderOf[d].id = i
      BY <2>1, <3>1 DEF Workload
    <3>2. CASE processed[cleared][i] # NoResponse
      <4>1. clean /\ cleared # Nobody
        BY <1>3, <3>1
      <4>2. PICK d \in Workload : Ran(d) /\ at[d] = cleared /\ OrderOf[d].id = i
        BY <3>2, <4>1
      <4>3. d \in Purchase
        BY DEF Workload
      <4> QED
        BY <2>2, <4>2, <4>3
    <3>3. CASE processed[cleared][i] = NoResponse
      <4>1. cleared = r
        BY <2>1, <3>1, <3>3 DEF Learns
      <4>2. PICK c \in Purchase : UnderWay(c) /\ Ran(c)' /\ at[c] = r /\ OrderOf[c].id = i
        BY <2>1, <3>3, <4>1 DEF Learns
      <4>3. c \in Workload
        BY <1>3, <4>2 DEF OnlyOwn, Workload
      <4> QED
        BY <2>1, <4>1, <4>2, <4>3 DEF CallsGoOn
    <3> QED
      BY <3>2, <3>3
  <2> QED
    BY <2>3, <2>4
<1>4. ASSUME NEW r \in Process, NEW c \in Purchase, Post(c, r)
      PROVE  FreshCache'
  <2>1. /\ stage[c] = "unsent" /\ stage' = [stage EXCEPT ![c] = "queued"]
        /\ at' = [at EXCEPT ![c] = r]
        /\ UNCHANGED <<processed, outcome, run, cleared, clean>>
    BY <1>4, PostFacts
  <2>2. \A d \in Purchase : Ran(d) => Ran(d)' /\ at'[d] = at[d]
    BY <2>1 DEF Ran, IInv, TypeOK
  <2> QED
    BY <2>1, <2>2 DEF Workload
<1>5. ASSUME NEW r \in Process, PostReset(r)
      PROVE  FreshCache'
  BY <1>0, <1>2, <1>5, PostResetFacts
<1>6. CASE FallBack
  BY <1>0, <1>2, <1>6, FallBackFacts
<1>7. ASSUME NEW r \in Process, Works(r), Watch(r)
      PROVE  FreshCache'
  <2>1. clean' = clean
    BY <1>7, WatchFacts
  <2> QED
    BY <1>2, <1>3, <1>7, <2>1
<1> QED
  BY <1>1, <1>2, <1>4, <1>5, <1>6, <1>7, HearFacts, EndFacts, RunsCases

(* So a duplicate it answers repeats a call of the run.                    *)
LEMMA DuplicatesStep ==
    ASSUME IInv, RunsTypeOK, ScriptOK, ReceivedOK, WorkloadOK, OnlyOwn, FreshCache,
           OwnDuplicates, RunsNext
    PROVE  OwnDuplicates'
<1> USE DEF OwnDuplicates
<1>1. CASE UNCHANGED <<stage, outcome, at, run, cleared, clean>>
  BY <1>1 DEF Workload, Ran
<1>2. CASE ~clean'
  BY <1>2
<1>3. CASE step = "reset" /\ run' = run /\ \A c \in Workload : outcome'[c] = NoResponse
  BY <1>3 DEF Workload, NoResponse
<1>4. ASSUME step = "reset", outcome' = outcome, run' = run
      PROVE  OwnDuplicates'
  BY <1>3, <1>4, NotYetSent
<1>5. ASSUME NEW r \in Process, Works(r), Watch(r)
      PROVE  OwnDuplicates'
  <2>1. CallsGoOn(r) /\ run' = run /\ clean' = clean
    BY <1>5, WorksCalls, WatchFacts
  <2>2. CASE step = "reset"
    <3>1. ASSUME NEW c \in Workload
          PROVE  outcome'[c] = NoResponse
      <4>1. c \in Purchase /\ stage[c] = "unsent" /\ outcome[c] = NoResponse
        BY <2>2, NotYetSent
      <4> QED
        BY <2>1, <4>1 DEF CallsGoOn, UnderWay
    <3> QED
      BY <1>3, <2>1, <2>2, <3>1
  <2>3. CASE step # "reset"
    <3>1. cleared' = cleared
      BY <1>5, <2>3, WatchFacts
    <3>2. \A d \in Purchase : Ran(d) => Ran(d)' /\ at'[d] = at[d]
      BY <2>1 DEF CallsGoOn, Ran
    <3> SUFFICES ASSUME clean, NEW c \in Workload, outcome'[c].status = "duplicate",
                        at[c] = cleared
                 PROVE  \E d \in Workload \ {c} : /\ Ran(d)' /\ at'[d] = at[c]
                                                  /\ OrderOf[d].id = OrderOf[c].id
      BY <2>1, <3>1 DEF Workload, CallsGoOn
    <3>3. c \in Purchase
      BY DEF Workload
    <3>4. CASE outcome'[c] = outcome[c]
      <4>1. PICK d \in Workload \ {c} : Ran(d) /\ at[d] = at[c] /\ OrderOf[d].id = OrderOf[c].id
        BY <3>4
      <4> QED
        BY <3>2, <4>1 DEF Workload
    <3>5. CASE outcome'[c] # outcome[c]
      <4>1. UnderWay(c) /\ at[c] = r /\ processed[r][OrderOf[c].id] # NoResponse
        BY <2>1, <3>3, <3>5 DEF CallsGoOn
      <4>2. cleared = r /\ cleared # Nobody /\ OrderOf[c].id \in Ids
        BY <3>3, <4>1
      <4>3. PICK d \in Workload : Ran(d) /\ at[d] = cleared /\ OrderOf[d].id = OrderOf[c].id
        BY <4>1, <4>2 DEF FreshCache
      <4>4. d # c
        BY <4>1, <4>3 DEF Ran, UnderWay
      <4> QED
        BY <3>2, <4>3, <4>4 DEF Workload
    <3> QED
      BY <3>4, <3>5
  <2> QED
    BY <2>2, <2>3
<1>6. ASSUME NEW r \in Process, NEW c \in Purchase, Post(c, r)
      PROVE  OwnDuplicates'
  <2>1. /\ stage[c] = "unsent" /\ stage' = [stage EXCEPT ![c] = "queued"]
        /\ outcome[c] = NoResponse
        /\ at' = [at EXCEPT ![c] = r]
        /\ UNCHANGED <<outcome, run, cleared, clean>>
    BY <1>6, PostFacts
  <2>2. \A d \in Purchase : Ran(d) => Ran(d)' /\ at'[d] = at[d]
    BY <2>1 DEF Ran, IInv, TypeOK
  <2>3. \A d \in Purchase : outcome[d].status = "duplicate" => at'[d] = at[d]
    BY <2>1 DEF NoResponse, IInv, TypeOK
  <2> QED
    BY <2>1, <2>2, <2>3 DEF Workload
<1>7. ASSUME NEW r \in Process, PostReset(r)
      PROVE  OwnDuplicates'
  BY <1>4, <1>7, PostResetFacts
<1>8. CASE FallBack
  BY <1>4, <1>8, FallBackFacts
<1> QED
  BY <1>1, <1>2, <1>5, <1>6, <1>7, <1>8, HearFacts, EndFacts, RunsCases

-----------------------------------------------------------------------------
(* The sales of a run that began clean                                     *)

(* The counts are numbers.                                                 *)
LEMMA SalesFinite ==
    /\ IsFiniteSet(Winners) /\ Cardinality(Winners) \in Nat
    /\ IsFiniteSet(SoldSeats) /\ Cardinality(SoldSeats) \in Nat
<1>1. IsFiniteSet(Winners)
  BY FS_Subset DEF Winners, Workload
<1>2. IsFiniteSet(SoldSeats)
  BY FS_Interval, FS_Subset DEF SoldSeats, Seats
<1> QED
  BY <1>1, <1>2, FS_CardinalityType

(* After a step too.                                                       *)
LEMMA SalesFiniteNext ==
    /\ IsFiniteSet(Winners') /\ Cardinality(Winners') \in Nat
    /\ IsFiniteSet(SoldSeats') /\ Cardinality(SoldSeats') \in Nat
<1>1. IsFiniteSet(Winners')
  BY FS_Subset DEF Winners, Workload
<1>2. IsFiniteSet(SoldSeats')
  BY FS_Interval, FS_Subset DEF SoldSeats, Seats
<1> QED
  BY <1>1, <1>2, FS_CardinalityType

(* One more sale, one more winner.                                         *)
LEMMA SellsOne ==
    ASSUME IInv, IInv', SalesPaid, clean, step # "reset", run' = run, NEW c \in Purchase,
           SellsTo(c), RunOf[c] = run
    PROVE  TicketsSold' <= Cardinality(Winners') + faults'
<1>0. /\ count \in Nat /\ faults \in Nat /\ count' \in Nat
      /\ owner \in [Seats -> Purchase \cup {Nobody}]
  BY DEF IInv, TypeOK, BackendTypeOK
<1>1. Winners \cup {c} \subseteq Winners' /\ c \notin Winners
  <2>1. ~Wins(c) /\ Wins(c)' /\ \A d \in Purchase : Wins(d) => Wins(d)'
    BY DEF SellsTo
  <2> QED
    BY <2>1 DEF Winners, Workload
<1>2. Cardinality(Winners) + 1 <= Cardinality(Winners')
  <2>1. Cardinality(Winners \cup {c}) = Cardinality(Winners) + 1
    BY <1>1, SalesFinite, FS_AddElement
  <2>2. Cardinality(Winners \cup {c}) <= Cardinality(Winners')
    BY <1>1, SalesFiniteNext, FS_Subset
  <2> QED
    BY <2>1, <2>2
<1>3. count' + Cardinality(SoldSeats') = count + Cardinality(SoldSeats) + 1
  <2>1. CASE count' = count + 1 /\ owner' = owner
    <3>1. SoldSeats' = SoldSeats
      BY <2>1 DEF SoldSeats
    <3>2. Cardinality(SoldSeats') = Cardinality(SoldSeats)
      BY <3>1
    <3> QED
      BY <1>0, <2>1, <3>2, SalesFinite
  <2>2. ASSUME count' = count, NEW s \in Seats, owner[s] = Nobody,
               owner' = [owner EXCEPT ![s] = c]
        PROVE  count' + Cardinality(SoldSeats') = count + Cardinality(SoldSeats) + 1
    <3>1. SoldSeats' = SoldSeats \cup {s} /\ s \notin SoldSeats
      BY <1>0, <2>2 DEF SoldSeats
    <3>2. Cardinality(SoldSeats \cup {s}) = Cardinality(SoldSeats) + 1
      BY <3>1, SalesFinite, FS_AddElement
    <3>3. Cardinality(SoldSeats') = Cardinality(SoldSeats) + 1
      BY <3>1, <3>2
    <3> QED
      BY <1>0, <2>2, <3>3, SalesFinite
  <2> QED
    BY <2>1, <2>2 DEF SellsTo
<1>4. count + Cardinality(SoldSeats) <= Cardinality(Winners) + faults
  BY DEF SalesPaid, TicketsSold
<1>5. faults' = faults
  BY DEF SellsTo
<1>6. count' + Cardinality(SoldSeats') <= Cardinality(Winners') + faults'
  BY <1>0, <1>2, <1>3, <1>4, <1>5, SalesFinite, SalesFiniteNext
<1> QED
  BY <1>6 DEF TicketsSold

(* No sale, and a winner less only for a fault.                            *)
LEMMA KeepsAll ==
    ASSUME IInv, IInv', SalesPaid, clean, step # "reset", run' = run,
           NEW r \in Process, Keeps(r)
    PROVE  TicketsSold' <= Cardinality(Winners') + faults'
<1>0. /\ count \in Nat /\ faults \in Nat
      /\ SoldSeats' = SoldSeats /\ count' = count
  BY DEF IInv, TypeOK, BackendTypeOK, Keeps, SoldSeats
<1>1. Cardinality(SoldSeats') = Cardinality(SoldSeats)
  BY <1>0
<1>2. count + Cardinality(SoldSeats) <= Cardinality(Winners) + faults
  BY DEF SalesPaid, TicketsSold
<1>3. Cardinality(Winners) + faults <= Cardinality(Winners') + faults'
  <2>1. CASE faults' = faults /\ \A c \in Purchase : Wins(c) => Wins(c)'
    <3>1. Winners \subseteq Winners'
      BY <2>1 DEF Winners, Workload
    <3>2. Cardinality(Winners) <= Cardinality(Winners')
      BY <3>1, SalesFiniteNext, FS_Subset
    <3> QED
      BY <1>0, <2>1, <3>2, SalesFinite, SalesFiniteNext
  <2>2. CASE faults' = faults + 1 /\ \A c \in Purchase \ {serving[r]} : Wins(c) => Wins(c)'
    <3>1. Winners \ {serving[r]} \subseteq Winners'
      BY <2>2 DEF Winners, Workload
    <3>2. Cardinality(Winners \ {serving[r]}) <= Cardinality(Winners')
      BY <3>1, SalesFiniteNext, FS_Subset
    <3>3. /\ Cardinality(Winners \ {serving[r]}) \in Nat
          /\ Cardinality(Winners) <= Cardinality(Winners \ {serving[r]}) + 1
      <4>1. /\ IsFiniteSet(Winners \ {serving[r]})
            /\ Cardinality(Winners \ {serving[r]})
                  = IF serving[r] \in Winners THEN Cardinality(Winners) - 1
                                              ELSE Cardinality(Winners)
        BY SalesFinite, FS_RemoveElement
      <4>2. Cardinality(Winners \ {serving[r]}) \in Nat
        BY <4>1, FS_CardinalityType
      <4> QED
        BY <4>1, <4>2, SalesFinite
    <3> QED
      BY <1>0, <2>2, <3>2, <3>3, SalesFinite, SalesFiniteNext
  <2> QED
    BY <2>1, <2>2 DEF Keeps
<1>4. faults' \in Nat
  BY DEF IInv, TypeOK
<1>5. count' + Cardinality(SoldSeats') <= Cardinality(Winners') + faults'
  BY <1>0, <1>1, <1>2, <1>3, <1>4, SalesFinite, SalesFiniteNext
<1> QED
  BY <1>5 DEF TicketsSold

(* What was sold is told, will be told, or was lost to a fault.            *)
LEMMA PaidStep ==
    ASSUME IInv, IInv', RunsTypeOK, ScriptOK, OnlyOwn, SalesPaid, RunsNext
    PROVE  SalesPaid'
<1>1. CASE ~clean' \/ step' = "reset"
  BY <1>1 DEF SalesPaid
<1>2. CASE /\ UNCHANGED <<count, owner, outcome, sold, serving, faults, run, clean>>
           /\ step = "reset" => step' = "reset"
  <2>1. Winners' = Winners /\ TicketsSold' = TicketsSold
    BY <1>2 DEF Winners, Wins, Workload, TicketsSold, SoldSeats
  <2> QED
    BY <1>1, <1>2, <2>1 DEF SalesPaid
<1>3. CASE count' = 0 /\ SoldSeats' = {}
  <2>1. TicketsSold' = 0
    BY <1>3, FS_EmptySet DEF TicketsSold
  <2>2. faults' \in Nat
    BY DEF IInv, TypeOK
  <2> QED
    BY <2>1, <2>2, SalesFiniteNext DEF SalesPaid
<1>4. ASSUME NEW r \in Process, Works(r), Watch(r)
      PROVE  SalesPaid'
  <2>1. UNCHANGED <<run, clean>>
    BY <1>4, WatchFacts
  <2>2. CASE clean /\ step = "reset" /\ step' # "reset"
    <3>1. ResetReturns(r) /\ quiet[r]
      BY <1>4, <2>2, WatchFacts DEF ScriptOK
    <3>2. count' = 0 /\ \A s \in Seats : owner'[s] = Nobody
      BY <1>4, <3>1, WorksIsNext, QuietResetStep DEF QuietlyCleared
    <3> QED
      BY <1>3, <3>2 DEF SoldSeats
  <2>3. CASE clean /\ step # "reset"
    <3>1. Keeps(r) \/ \E c \in Purchase : SellsTo(c)
      BY <1>4, <2>3, WorksSales, WatchFacts
    <3>2. CASE Keeps(r)
      BY <2>1, <2>3, <3>2, KeepsAll DEF SalesPaid
    <3>3. ASSUME NEW c \in Purchase, SellsTo(c)
          PROVE  SalesPaid'
      <4>1. RunOf[c] = run
        BY <2>3, <3>3 DEF SellsTo, OnlyOwn
      <4> QED
        BY <2>1, <2>3, <3>3, <4>1, SellsOne DEF SalesPaid
    <3> QED
      BY <3>1, <3>2, <3>3
  <2> QED
    BY <1>1, <2>1, <2>2, <2>3
<1>5. ASSUME NEW r \in Process, PostReset(r)
      PROVE  SalesPaid'
  BY <1>1, <1>5, PostResetFacts
<1>6. CASE FallBack
  BY <1>1, <1>3, <1>6, FallBackFacts
<1>7. ASSUME NEW r \in Process, NEW c \in Purchase, Post(c, r)
      PROVE  SalesPaid'
  BY <1>2, <1>7, PostFacts
<1>8. ASSUME NEW c \in Purchase, \/ \E r \in Process : Refused(c, r)
                                 \/ Receive(c) \/ TimeOut(c)
      PROVE  SalesPaid'
  BY <1>2, <1>8, HearFacts
<1>9. CASE (\E r \in Process : ResetRefused(r)) \/ EndRun \/ NextRun
  BY <1>1, <1>2, <1>9, EndFacts DEF EndRun
<1> QED
  BY <1>4, <1>5, <1>6, <1>7, <1>8, <1>9, RunsCases

-----------------------------------------------------------------------------
(* The theorems                                                            *)

(* The invariant holds at the start ...                                    *)
LEMMA RunsInvInit == RunsInit => IInv /\ RunsInv
<1> SUFFICES ASSUME RunsInit PROVE IInv /\ RunsInv
  OBVIOUS
<1>1. IInv
  BY IInvInit DEF RunsInit
<1>2. RunsTypeOK /\ ScriptOK /\ ReceivedOK /\ WorkloadOK /\ UnsentOK
  BY RunsTypeInit, ScriptInit, ReceivedInit
<1>3. ~clean /\ voided = {}
  BY DEF RunsInit, Init, BackendInit
<1> QED
  BY <1>1, <1>2, <1>3 DEF RunsInv, NoneWithdrawn, OnlyOwn, FreshCache, OwnDuplicates, SalesPaid

(* ... and each step of script, clients, replicas and faults keeps it.     *)
LEMMA RunsInvStep == IInv /\ RunsInv /\ [RunsNext]_<<vars, runVars>> => (IInv /\ RunsInv)'
<1> SUFFICES ASSUME IInv, RunsInv, [RunsNext]_<<vars, runVars>>
             PROVE  IInv' /\ RunsInv'
  OBVIOUS
<1>1. IInv'
  BY ReplicasStep
<1>2. CASE RunsNext
  <2> USE <1>2 DEF RunsInv
  <2>1. RunsTypeOK' /\ ScriptOK'
    BY RunsTypeStep, ScriptStep
  <2>2. ReceivedOK' /\ WorkloadOK' /\ UnsentOK'
    BY ReceivedStep, WorkloadStep, UnsentStep
  <2>3. NoneWithdrawn'
    BY <2>2, WithdrawnStep
  <2>4. OnlyOwn' /\ FreshCache' /\ OwnDuplicates'
    BY OwnStep, FreshStep, DuplicatesStep
  <2>5. SalesPaid'
    BY <1>1, PaidStep
  <2> QED
    BY <1>1, <2>1, <2>2, <2>3, <2>4, <2>5
<1>3. CASE UNCHANGED <<vars, runVars>>
  <2> USE <1>3 DEF RunsInv, vars, runVars, storeVars, replicaVars, callVars, auxVars, boundVars
  <2>1. RunsTypeOK' /\ ScriptOK'
    BY DEF RunsTypeOK, ScriptOK, Resetting
  <2>2. ReceivedOK' /\ WorkloadOK' /\ UnsentOK'
    BY DEF ReceivedOK, WorkloadOK, UnsentOK
  <2>3. NoneWithdrawn' /\ OnlyOwn'
    BY DEF NoneWithdrawn, OnlyOwn, UnderWay, Workload
  <2>4. FreshCache' /\ OwnDuplicates'
    BY DEF FreshCache, OwnDuplicates, Ran, Workload
  <2>5. Winners' = Winners /\ TicketsSold' = TicketsSold
    BY DEF Winners, Wins, Workload, TicketsSold, SoldSeats
  <2>6. SalesPaid'
    BY <2>5 DEF SalesPaid
  <2> QED
    BY <1>1, <2>1, <2>2, <2>3, <2>4, <2>6
<1> QED
  BY <1>1, <1>2, <1>3

(* However many runs the script makes, whichever replicas serve or fail,   *)
(* replicas, script and client keep the invariant.                         *)
THEOREM RunsKeepInvariant == RunsSpec => [](IInv /\ RunsInv)
  BY RunsInvInit, RunsInvStep, PTL DEF RunsSpec

(* Calls for different seats are as many as their seats.                   *)
LEMMA SeatsCount ==
    ASSUME NEW S \in SUBSET Purchase,
           \A c, d \in S : OrderOf[c].seat = OrderOf[d].seat => c = d
    PROVE  /\ IsFiniteSet(S) /\ IsFiniteSet({OrderOf[c].seat : c \in S})
           /\ Cardinality({OrderOf[c].seat : c \in S}) = Cardinality(S)
<1> DEFINE T == {OrderOf[c].seat : c \in S}
           f == [c \in S |-> OrderOf[c].seat]
<1>1. IsFiniteSet(S)
  BY FS_Subset
<1>2. f \in [S -> T] /\ \A t \in T : \E c \in S : f[c] = t
  OBVIOUS
<1>3. f \in Injection(S, T)
  BY <1>2 DEF Injection, IsInjective
<1>4. f \in Surjection(S, T)
  BY <1>2 DEF Surjection
<1>5. ExistsBijection(S, T)
  BY <1>3, <1>4 DEF ExistsBijection, Bijection
<1> HIDE DEF T
<1>6. IsFiniteSet(T) /\ Cardinality(T) = Cardinality(S)
  BY <1>1, <1>5, FS_Bijection
<1> QED
  BY <1>1, <1>6 DEF T

(* Who was told SUCCESS in the current run has the ticket or seat.         *)
LEMMA SuccessIsHeld ==
    ASSUME IInv, RunsInv, NEW c \in Results("success")
    PROVE  c \in Holders /\ c \in Purchase /\ outcome[c].status = "success"
<1>1. c \in Purchase /\ c \in Workload /\ received[c] = "success"
  BY DEF Results, Workload
<1>2. outcome[c].status = "success"
  BY <1>1 DEF RunsInv, ReceivedOK
<1>3. c \in Holders \/ c \in voided
  BY <1>1, <1>2 DEF IInv, SalesBacked
<1> QED
  BY <1>1, <1>2, <1>3 DEF RunsInv, NoneWithdrawn

(* Two of them never have the same seat.                                   *)
LEMMA SuccessSeats ==
    ASSUME IInv, RunsInv, NEW S \in SUBSET Results("success"),
           \A c \in S : OrderOf[c].type # "unnumbered"
    PROVE  /\ S \subseteq Purchase
           /\ \A c \in S : OrderOf[c].seat \in Seats /\ owner[OrderOf[c].seat] = c
           /\ \A c, d \in S : OrderOf[c].seat = OrderOf[d].seat => c = d
<1>1. ASSUME NEW c \in S
      PROVE  c \in Purchase /\ OrderOf[c].seat \in Seats /\ owner[OrderOf[c].seat] = c
  BY SuccessIsHeld DEF Holders
<1> QED
  BY <1>1

(* No run is told twice that it has a seat, however many resets failed and *)
(* whatever calls of earlier runs still arrive.                            *)
THEOREM NeverToldTwice == RunsSpec => []NoDuplicateSales
<1>1. ASSUME IInv, RunsInv
      PROVE  NoDuplicateSales
  <2> DEFINE S == {c \in Results("success") : OrderOf[c].type = "numbered"}
  <2>1. /\ S \subseteq Purchase
        /\ \A c, d \in S : OrderOf[c].seat = OrderOf[d].seat => c = d
    BY <1>1, SuccessSeats
  <2>2. Cardinality({OrderOf[c].seat : c \in S}) = Cardinality(S) /\ Cardinality(S) \in Nat
    BY <2>1, SeatsCount, FS_CardinalityType
  <2>3. DuplicateSales = Cardinality(S) - Cardinality({OrderOf[c].seat : c \in S})
    BY DEF DuplicateSales
  <2> HIDE DEF S
  <2>4. DuplicateSales = 0
    BY <2>2, <2>3
  <2> QED
    BY <2>4 DEF NoDuplicateSales
<1> QED
  BY <1>1, RunsKeepInvariant, PTL

(* A DUPLICATE of a run that began clean, from the replica its reset       *)
(* cleared, repeats a call of that run.                                    *)
LEMMA DuplicatesRepeat ==
    ASSUME IInv, RunsInv
    PROVE  DuplicatesExplained
<1> SUFFICES ASSUME clean, NEW c \in Results("duplicate"), at[c] = cleared
             PROVE  \E d \in Workload \ {c} : at[d] = at[c] /\ OrderOf[d].id = OrderOf[c].id
  BY DEF DuplicatesExplained, Explained
<1>1. c \in Workload /\ c \in Purchase /\ received[c] = "duplicate"
  BY DEF Results, Workload
<1>2. outcome[c].status = "duplicate"
  BY <1>1 DEF RunsInv, ReceivedOK
<1> QED
  BY <1>1, <1>2 DEF RunsInv, OwnDuplicates

(* Every DUPLICATE of a run that began clean repeats a call of that run,   *)
(* except at replicas whose cache its reset did not clear.                 *)
THEOREM DuplicatesRepeatTheRun == RunsSpec => []DuplicatesExplained
  BY DuplicatesRepeat, RunsKeepInvariant, PTL

(* When a run ends, Redis has sold every SUCCESS.  If the run began clean, *)
(* the successful requests it reports exceed what Redis sold by explained  *)
(* DUPLICATEs only, and Redis exceeds the SUCCESSes by errors and faults   *)
(* only.                                                                   *)
THEOREM SummariesAgree == RunsSpec => []SummaryAgrees
<1>1. ASSUME IInv, RunsInv, step = "summary"
      PROVE  Cardinality(Results("success")) <= TicketsSold
  <2> DEFINE R == Results("success")
             U == {c \in R : OrderOf[c].type = "unnumbered"}
             S == {c \in R : OrderOf[c].type # "unnumbered"}
             T == {OrderOf[c].seat : c \in S}
  <2>1. /\ S \subseteq Purchase
        /\ \A c \in S : OrderOf[c].seat \in Seats /\ owner[OrderOf[c].seat] = c
        /\ \A c, d \in S : OrderOf[c].seat = OrderOf[d].seat => c = d
    BY <1>1, SuccessSeats
  <2>2. IsFiniteSet(S) /\ Cardinality(T) = Cardinality(S)
    BY <2>1, SeatsCount
  <2>3. T \subseteq SoldSeats
    BY <2>1 DEF SoldSeats
  <2>4. U \subseteq buyers
    BY <1>1, SuccessIsHeld DEF Holders
  <2>5. IsFiniteSet(buyers) /\ Cardinality(buyers) <= count /\ count \in Nat
    BY <1>1, FS_Subset DEF IInv, TypeOK, BackendTypeOK, StoreOK
  <2>6. R = U \cup S /\ U \cap S = {}
    OBVIOUS
  <2> HIDE DEF R, U, S, T
  <2>7. Cardinality(S) <= Cardinality(SoldSeats)
    BY <2>2, <2>3, SalesFinite, FS_Subset
  <2>8. IsFiniteSet(U) /\ Cardinality(U) <= Cardinality(buyers)
    BY <2>4, <2>5, FS_Subset
  <2>9. Cardinality(U) \in Nat /\ Cardinality(S) \in Nat /\ Cardinality(buyers) \in Nat
    BY <2>2, <2>5, <2>8, FS_CardinalityType
  <2>10. Cardinality(R) = Cardinality(U) + Cardinality(S)
    <3>1. Cardinality(U \cup S) = Cardinality(U) + Cardinality(S) - Cardinality(U \cap S)
      BY <2>2, <2>8, FS_Union
    <3>2. Cardinality(U \cap S) = 0
      BY <2>6, FS_EmptySet
    <3>3. Cardinality(R) = Cardinality(U \cup S)
      BY <2>6
    <3> QED
      BY <2>9, <3>1, <3>2, <3>3
  <2>11. Cardinality(R) <= count + Cardinality(SoldSeats)
    BY <2>5, <2>7, <2>8, <2>9, <2>10, SalesFinite
  <2> QED
    BY <2>11 DEF R, TicketsSold
<1>2. ASSUME IInv, RunsInv, step = "summary", clean
      PROVE  TicketsSold <= Cardinality(Results("success")) + Cardinality(Results("error"))
                            + faults
  <2> DEFINE R == Results("success")
             E == Results("error")
  <2>1. Winners \subseteq R \cup E
    <3> SUFFICES ASSUME NEW c \in Winners PROVE received[c] \in {"success", "error"}
      BY DEF Winners, Results
    <3>1. c \in Purchase /\ RunOf[c] = run /\ Wins(c)
      BY DEF Winners, Workload
    <3>2. received[c] \notin {"waiting", "open"}
      BY <1>2, <3>1 DEF RunsInv, WorkloadOK
    <3>3. CASE received[c] # "error"
      <4>1. stage[c] = "done" /\ outcome[c].status = received[c]
        BY <1>2, <3>1, <3>2, <3>3 DEF RunsInv, ReceivedOK
      <4>2. \A r \in Process : serving[r] # c
        BY <1>2, <3>1, <4>1 DEF IInv, ServingOK
      <4> QED
        BY <3>1, <4>1, <4>2 DEF Wins
    <3> QED
      BY <3>3
  <2>2. IsFiniteSet(R) /\ IsFiniteSet(E)
    BY FS_Subset DEF Results, Workload
  <2> HIDE DEF R, E
  <2>3. /\ Cardinality(R) \in Nat /\ Cardinality(E) \in Nat
        /\ Cardinality(R \cap E) \in Nat /\ IsFiniteSet(R \cup E)
    <3>1. IsFiniteSet(R \cap E) /\ IsFiniteSet(R \cup E)
      BY <2>2, FS_Subset, FS_Union
    <3> QED
      BY <2>2, <3>1, FS_CardinalityType
  <2>4. Cardinality(R \cup E) = Cardinality(R) + Cardinality(E) - Cardinality(R \cap E)
    BY <2>2, FS_Union
  <2>5. Cardinality(Winners) <= Cardinality(R \cup E)
    BY <2>1, <2>3, FS_Subset
  <2>6. TicketsSold <= Cardinality(Winners) + faults
    BY <1>2 DEF RunsInv, SalesPaid
  <2>7. TicketsSold \in Nat /\ faults \in Nat
    BY <1>2, SalesFinite DEF IInv, TypeOK, BackendTypeOK, TicketsSold
  <2>8. TicketsSold <= Cardinality(R) + Cardinality(E) + faults
    BY <2>3, <2>4, <2>5, <2>6, <2>7, SalesFinite
  <2> QED
    BY <2>8 DEF R, E
<1>3. ASSUME IInv, RunsInv, step = "summary", clean
      PROVE  SuccessfulRequests <= TicketsSold + Cardinality(Surplus)
  <2> DEFINE R == Results("success")
             D == Results("duplicate")
  <2>1. D = Surplus
    BY <1>3, DuplicatesRepeat DEF DuplicatesExplained, Surplus
  <2>2. IsFiniteSet(R) /\ IsFiniteSet(D)
    BY FS_Subset DEF Results, Workload
  <2>3. Cardinality(R) <= TicketsSold
    BY <1>1, <1>3
  <2>4. SuccessfulRequests = Cardinality(R \cup D)
    BY DEF SuccessfulRequests
  <2> HIDE DEF R, D
  <2>5. Cardinality(R \cup D) = Cardinality(R) + Cardinality(D) - Cardinality(R \cap D)
    BY <2>2, FS_Union
  <2>6. /\ Cardinality(R) \in Nat /\ Cardinality(D) \in Nat
        /\ Cardinality(R \cap D) \in Nat
    <3>1. IsFiniteSet(R \cap D)
      BY <2>2, FS_Subset
    <3> QED
      BY <2>2, <3>1, FS_CardinalityType
  <2>7. TicketsSold \in Nat
    BY <1>3, SalesFinite DEF IInv, TypeOK, BackendTypeOK, TicketsSold
  <2>8. Cardinality(Surplus) = Cardinality(D)
    BY <2>1
  <2> QED
    BY <2>3, <2>4, <2>5, <2>6, <2>7, <2>8
<1>4. IInv /\ RunsInv => SummaryAgrees
  BY <1>1, <1>2, <1>3 DEF SummaryAgrees
<1> QED
  BY <1>4, RunsKeepInvariant, PTL
=============================================================================
