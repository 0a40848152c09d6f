-------------------------- MODULE DirectApiProofs --------------------------
(***************************************************************************)
(* Theorems of DirectApi for any set of replicas and calls, any stock and  *)
(* any number of retries, faults and resets.                               *)
(***************************************************************************)
EXTENDS DirectApi, FiniteSetTheorems, TLAPS

USE LimitsAssumption, PurchaseAssumption, OrderAssumption, BoundsAssumption,
    NoSeatAssumption

(* What one Redis command and one batch of deletions do to the store.      *)
LEMMA CommandType ==
    ASSUME BackendTypeOK, NEW c \in Purchase, NEW granted \in BOOLEAN,
           NeedsStore(c), RunCommand(c, granted), UNCHANGED processed
    PROVE  BackendTypeOK'
  BY DEF BackendTypeOK, NeedsStore, RunCommand, IncrBounded, SetSeatNX, Seats

(* A batch of deletions leaves a store of the right type.                  *)
LEMMA DeleteSeatsType ==
    ASSUME BackendTypeOK, NEW K \in SUBSET SoldSeats, DeleteSeats(K)
    PROVE  /\ count' \in 0..MaxTickets
           /\ buyers' \in SUBSET Purchase
           /\ owner' \in [Seats -> Purchase \cup {Nobody}]
           /\ voided' \in SUBSET Purchase
  BY DEF BackendTypeOK, DeleteSeats, SoldSeats

-----------------------------------------------------------------------------
(* Every variable keeps its type.                                          *)
LEMMA TypeInit == Init => TypeOK
  BY DEF Init, BackendInit, TypeOK, BackendTypeOK, EmptyCache, NoResponse, Response, Seats

(* The end of a handler keeps the types of what it assigns.                *)
LEMMA RespondType ==
    ASSUME TypeOK, NEW r \in Process, NEW c \in Purchase, NEW resp \in Response,
           Respond(r, c, resp)
    PROVE  /\ up' \in [Process -> BOOLEAN]
           /\ pc' \in [Process -> {"idle", "command", "reply", "del", "scan"}]
           /\ serving' \in [Process -> Purchase \cup {Nobody}]
           /\ sold' \in [Process -> BOOLEAN]
           /\ tries' \in [Process -> 0..RedisRetries]
           /\ todo' \in [Process -> SUBSET Seats]
           /\ stage' \in [Purchase -> {"unsent", "queued", "serving", "done"}]
           /\ at' \in [Purchase -> Process \cup {Nobody}]
           /\ outcome' \in [Purchase -> Response]
           /\ quiet' \in [Process -> BOOLEAN]
           /\ forgotten' \in SUBSET Purchase
           /\ resets' \in 0..MaxResets
  BY DEF TypeOK, Respond

(* Adding a response to a cache, or clearing it, keeps the caches' type.   *)
LEMMA CacheType ==
    ASSUME TypeOK, NEW r \in Process, NEW c \in Purchase, NEW resp \in Response,
           Remember(r, c, resp) \/ Forget(r)
    PROVE  processed' \in [Process -> [Ids -> Response]]
<1>1. processed \in [Process -> [Ids -> Response]] /\ OrderOf[c].id \in Ids
  BY DEF TypeOK, BackendTypeOK
<1>2. CASE Remember(r, c, resp)
  BY <1>1, <1>2 DEF Remember
<1>3. CASE Forget(r)
  BY <1>1, <1>3 DEF Forget, EmptyCache, NoResponse, Response
<1> QED
  BY <1>2, <1>3

(* Everything the code answers is a response.                              *)
LEMMA ResponseTypes ==
    /\ Failure \in Response
    /\ \A c \in Purchase, granted \in BOOLEAN : Answer(c, granted) \in Response
    /\ \A resp \in Response : DuplicateOf(resp) \in Response
    /\ [status |-> "error", seat |-> NoSeat] \in Response
    /\ [status |-> "invalid", seat |-> NoSeat] \in Response
  BY DEF Failure, Answer, DuplicateOf, Response

(* Each step keeps the types.                                              *)
LEMMA TypeStep ==
    ASSUME TypeOK, ServingOK, [Next]_vars
    PROVE  TypeOK'
<1> USE DEF TypeOK
<1>1. CASE UNCHANGED vars
  BY <1>1 DEF vars, storeVars, replicaVars, callVars, auxVars, boundVars, BackendTypeOK
<1>2. ASSUME NEW r \in Process, NEW c \in Purchase, Send(c, r)
      PROVE  TypeOK'
  BY <1>2 DEF Send, storeVars, replicaVars, boundVars, BackendTypeOK
<1>3. ASSUME NEW r \in Process, NEW c \in Purchase, RejectMalformed(r, c)
      PROVE  TypeOK'
  BY <1>3, RespondType, ResponseTypes DEF RejectMalformed, storeVars, BackendTypeOK
<1>4. ASSUME NEW r \in Process, NEW c \in Purchase, AnswerDuplicate(r, c)
      PROVE  TypeOK'
  <2>1. processed[r][OrderOf[c].id] \in Response
    BY DEF BackendTypeOK
  <2> QED
    BY <1>4, <2>1, RespondType, ResponseTypes DEF AnswerDuplicate, storeVars, BackendTypeOK
<1>5. ASSUME NEW r \in Process, NEW c \in Purchase, RefuseOutOfRange(r, c)
      PROVE  TypeOK'
  BY <1>5, RespondType, CacheType, ResponseTypes DEF RefuseOutOfRange, storeVars, BackendTypeOK
<1>6. ASSUME NEW r \in Process, NEW c \in Purchase, BeginPurchase(r, c)
      PROVE  TypeOK'
  BY <1>6 DEF BeginPurchase, storeVars, auxVars, boundVars, BackendTypeOK
<1>7. ASSUME NEW r \in Process, Execute(r)
      PROVE  TypeOK'
  <2>1. PICK granted \in BOOLEAN : /\ RunCommand(serving[r], granted)
                                   /\ sold' = [sold EXCEPT ![r] = granted]
    BY <1>7 DEF Execute
  <2>2. serving[r] \in Purchase /\ NeedsStore(serving[r])
    BY <1>7 DEF Execute, ServingOK
  <2>3. BackendTypeOK'
    BY <1>7, <2>1, <2>2, CommandType DEF Execute
  <2> QED
    BY <1>7, <2>1, <2>3 DEF Execute, callVars, auxVars, boundVars
<1>8. ASSUME NEW r \in Process, Finish(r)
      PROVE  TypeOK'
  <2>1. serving[r] \in Purchase
    BY <1>8 DEF Finish, ServingOK
  <2>2. Answer(serving[r], sold[r]) \in Response
    BY <2>1, ResponseTypes
  <2> QED
    BY <1>8, <2>1, <2>2, RespondType, CacheType DEF Finish, storeVars, BackendTypeOK
<1>9. ASSUME NEW r \in Process, BeginReset(r)
      PROVE  TypeOK'
  BY <1>9 DEF BeginReset, storeVars, callVars, BackendTypeOK
<1>10. ASSUME NEW r \in Process, ResetCounter(r)
       PROVE  TypeOK'
  BY <1>10 DEF ResetCounter, DeleteCounter, SoldSeats, callVars, auxVars, boundVars, BackendTypeOK
<1>11. ASSUME NEW r \in Process, ResetBatch(r)
       PROVE  TypeOK'
  <2>1. PICK K \in SUBSET SoldSeats : /\ DeleteSeats(K)
                                      /\ todo' = [q \in Process |-> todo[q] \ K]
    BY <1>11 DEF ResetBatch
  <2> QED
    BY <1>11, <2>1, DeleteSeatsType DEF ResetBatch, callVars, auxVars, boundVars, BackendTypeOK
<1>12. ASSUME NEW r \in Process, FinishReset(r)
       PROVE  TypeOK'
  <2>1. PICK K \in SUBSET SoldSeats : /\ DeleteSeats(K)
                                      /\ todo' = [q \in Process |-> todo[q] \ K]
    BY <1>12 DEF FinishReset
  <2>2. processed' \in [Process -> [Ids -> Response]]
    BY <1>12 DEF FinishReset, Forget, BackendTypeOK, EmptyCache, NoResponse, Response
  <2> QED
    BY <1>12, <2>1, <2>2, DeleteSeatsType DEF FinishReset, callVars, boundVars, BackendTypeOK
<1>13. ASSUME NEW r \in Process, BreakConnection(r)
       PROVE  TypeOK'
  <2>1. serving[r] \in Purchase
    BY <1>13 DEF BreakConnection, ServingOK
  <2>2. blind' \in SUBSET Purchase /\ faults' \in 0..MaxFaults /\ BackendTypeOK'
    BY <1>13, <2>1 DEF BreakConnection, storeVars, BackendTypeOK
  <2>3. CASE tries[r] < RedisRetries
    <3>1. tries[r] \in Nat /\ tries[r] + 1 \in 0..RedisRetries /\ tries[r] # RedisRetries
      BY <2>3
    <3>2. /\ tries' = [tries EXCEPT ![r] = tries[r] + 1]
          /\ pc' = [pc EXCEPT ![r] = "command"]
          /\ sold' = [sold EXCEPT ![r] = FALSE]
          /\ UNCHANGED <<up, serving, todo, callVars, quiet, forgotten, resets>>
      BY <1>13, <3>1 DEF BreakConnection
    <3> QED
      BY <2>2, <3>1, <3>2 DEF callVars
  <2>4. CASE tries[r] = RedisRetries
    BY <1>13, <2>1, <2>2, <2>4, RespondType, ResponseTypes DEF BreakConnection
  <2> QED
    BY <2>3, <2>4, <1>13 DEF BreakConnection
<1>14. ASSUME NEW r \in Process, BreakReset(r)
       PROVE  TypeOK'
  BY <1>14 DEF BreakReset, storeVars, callVars, BackendTypeOK
<1>15. ASSUME NEW r \in Process, Crash(r)
       PROVE  TypeOK'
  BY <1>15 DEF Crash, storeVars, Forget, EmptyCache, NoResponse, Response, BackendTypeOK
<1>16. ASSUME NEW r \in Process, Restart(r)
       PROVE  TypeOK'
  BY <1>16 DEF Restart, storeVars, callVars, auxVars, boundVars, BackendTypeOK
<1> QED
  BY <1>1, <1>2, <1>3, <1>4, <1>5, <1>6, <1>7, <1>8, <1>9, <1>10, <1>11, <1>12, <1>13,
     <1>14, <1>15, <1>16 DEF Next, Handle, Fault

-----------------------------------------------------------------------------
(* A replica handles one call, of its own, whatever step is taken.         *)
LEMMA ServingStep ==
    ASSUME TypeOK, TypeOK', ServingOK, [Next]_vars
    PROVE  ServingOK'
<1> USE DEF ServingOK, TypeOK, BackendTypeOK, Cached, NeedsStore, Seats, NoResponse
<1>1. CASE UNCHANGED vars
  BY <1>1 DEF vars, storeVars, replicaVars, callVars, auxVars, boundVars
<1>2. ASSUME NEW r \in Process, NEW c \in Purchase, Send(c, r)
      PROVE  ServingOK'
  BY <1>2 DEF Send, storeVars, replicaVars, boundVars
<1>3. ASSUME NEW r \in Process, NEW c \in Purchase, RejectMalformed(r, c)
      PROVE  ServingOK'
  BY <1>3 DEF RejectMalformed, Ready, Respond, storeVars
<1>4. ASSUME NEW r \in Process, NEW c \in Purchase, AnswerDuplicate(r, c)
      PROVE  ServingOK'
  BY <1>4 DEF AnswerDuplicate, Ready, Respond, storeVars
<1>5. ASSUME NEW r \in Process, NEW c \in Purchase, RefuseOutOfRange(r, c)
      PROVE  ServingOK'
  BY <1>5 DEF RefuseOutOfRange, Ready, Respond, Remember, storeVars
<1>6. ASSUME NEW r \in Process, NEW c \in Purchase, BeginPurchase(r, c)
      PROVE  ServingOK'
  BY <1>6 DEF BeginPurchase, Ready, storeVars, auxVars, boundVars
<1>7. ASSUME NEW r \in Process, Execute(r)
      PROVE  ServingOK'
  BY <1>7 DEF Execute, callVars, auxVars, boundVars
<1>8. ASSUME NEW r \in Process, Finish(r)
      PROVE  ServingOK'
  BY <1>8 DEF Finish, Respond, Remember, storeVars
<1>9. ASSUME NEW r \in Process, BeginReset(r)
      PROVE  ServingOK'
  BY <1>9 DEF BeginReset, storeVars, callVars
<1>10. ASSUME NEW r \in Process, ResetCounter(r)
      PROVE  ServingOK'
  BY <1>10 DEF ResetCounter, callVars, auxVars, boundVars
<1>11. ASSUME NEW r \in Process, ResetBatch(r)
      PROVE  ServingOK'
  BY <1>11 DEF ResetBatch, callVars, auxVars, boundVars
<1>12. ASSUME NEW r \in Process, FinishReset(r)
      PROVE  ServingOK'
  BY <1>12 DEF FinishReset, Forget, callVars, boundVars
<1>13. ASSUME NEW r \in Process, BreakConnection(r)
      PROVE  ServingOK'
  BY <1>13 DEF BreakConnection, Respond, storeVars, callVars
<1>14. ASSUME NEW r \in Process, BreakReset(r)
      PROVE  ServingOK'
  BY <1>14 DEF BreakReset, storeVars, callVars
<1>15. ASSUME NEW r \in Process, Crash(r)
      PROVE  ServingOK'
  BY <1>15 DEF Crash, Forget, storeVars
<1>16. ASSUME NEW r \in Process, Restart(r)
      PROVE  ServingOK'
  BY <1>16 DEF Restart, storeVars, callVars, auxVars, boundVars
<1> QED
  BY <1>1, <1>2, <1>3, <1>4, <1>5, <1>6, <1>7, <1>8, <1>9,
     <1>10, <1>11, <1>12, <1>13, <1>14, <1>15, <1>16 DEF Next, Handle, Fault

(* A call that was sent sits at a replica, and has no answer until it ends.*)
LEMMA CallsStep ==
    ASSUME TypeOK, ServingOK, CallsOK, [Next]_vars
    PROVE  CallsOK'
<1> USE DEF CallsOK, TypeOK, ServingOK, NoResponse
<1>1. CASE UNCHANGED vars
  BY <1>1 DEF vars, storeVars, replicaVars, callVars, auxVars, boundVars
<1>2. ASSUME NEW r \in Process, NEW c \in Purchase, Send(c, r)
      PROVE  CallsOK'
  BY <1>2 DEF Send, storeVars, replicaVars, boundVars
<1>3. ASSUME NEW r \in Process, NEW c \in Purchase, RejectMalformed(r, c)
      PROVE  CallsOK'
  BY <1>3 DEF RejectMalformed, Ready, Respond, storeVars
<1>4. ASSUME NEW r \in Process, NEW c \in Purchase, AnswerDuplicate(r, c)
      PROVE  CallsOK'
  BY <1>4 DEF AnswerDuplicate, Ready, Respond, storeVars
<1>5. ASSUME NEW r \in Process, NEW c \in Purchase, RefuseOutOfRange(r, c)
      PROVE  CallsOK'
  BY <1>5 DEF RefuseOutOfRange, Ready, Respond, Remember, storeVars
<1>6. ASSUME NEW r \in Process, NEW c \in Purchase, BeginPurchase(r, c)
      PROVE  CallsOK'
  BY <1>6 DEF BeginPurchase, Ready, storeVars, auxVars, boundVars
<1>7. ASSUME NEW r \in Process, Execute(r)
      PROVE  CallsOK'
  BY <1>7 DEF Execute, callVars, auxVars, boundVars
<1>8. ASSUME NEW r \in Process, Finish(r)
      PROVE  CallsOK'
  BY <1>8 DEF Finish, Respond, Remember, storeVars
<1>9. ASSUME NEW r \in Process, BeginReset(r)
      PROVE  CallsOK'
  BY <1>9 DEF BeginReset, storeVars, callVars
<1>10. ASSUME NEW r \in Process, ResetCounter(r)
      PROVE  CallsOK'
  BY <1>10 DEF ResetCounter, callVars, auxVars, boundVars
<1>11. ASSUME NEW r \in Process, ResetBatch(r)
      PROVE  CallsOK'
  BY <1>11 DEF ResetBatch, callVars, auxVars, boundVars
<1>12. ASSUME NEW r \in Process, FinishReset(r)
      PROVE  CallsOK'
  BY <1>12 DEF FinishReset, Forget, callVars, boundVars
<1>13. ASSUME NEW r \in Process, BreakConnection(r)
      PROVE  CallsOK'
  BY <1>13 DEF BreakConnection, Respond, storeVars, callVars
<1>14. ASSUME NEW r \in Process, BreakReset(r)
      PROVE  CallsOK'
  BY <1>14 DEF BreakReset, storeVars, callVars
<1>15. ASSUME NEW r \in Process, Crash(r)
      PROVE  CallsOK'
  BY <1>15 DEF Crash, Forget, storeVars
<1>16. ASSUME NEW r \in Process, Restart(r)
      PROVE  CallsOK'
  BY <1>16 DEF Restart, storeVars, callVars, auxVars, boundVars
<1> QED
  BY <1>1, <1>2, <1>3, <1>4, <1>5, <1>6, <1>7, <1>8, <1>9,
     <1>10, <1>11, <1>12, <1>13, <1>14, <1>15, <1>16 DEF Next, Handle, Fault

-----------------------------------------------------------------------------
(* Who holds what, after each kind of store step.                          *)
LEMMA CommandHolds ==
    ASSUME BackendTypeOK, NEW c \in Purchase, NEW granted \in BOOLEAN,
           NeedsStore(c), RunCommand(c, granted)
    PROVE  /\ Holders' = IF granted THEN Holders \cup {c} ELSE Holders
           /\ voided' = voided
<1>1. CASE OrderOf[c].type = "unnumbered"
  <2>1. /\ owner' = owner /\ voided' = voided
        /\ buyers' = IF granted THEN buyers \cup {c} ELSE buyers
    BY <1>1 DEF RunCommand, IncrBounded
  <2> QED
    BY <1>1, <2>1 DEF Holders
<1>2. CASE OrderOf[c].type # "unnumbered"
  <2>1. /\ OrderOf[c].seat \in Seats
        /\ buyers' = buyers /\ voided' = voided
        /\ granted = (owner[OrderOf[c].seat] = Nobody)
        /\ owner' = IF granted THEN [owner EXCEPT ![OrderOf[c].seat] = c] ELSE owner
    BY <1>2 DEF NeedsStore, RunCommand, SetSeatNX
  <2>2. CASE ~granted
    BY <2>1, <2>2 DEF Holders
  <2>3. CASE granted
    <3>1. \A s \in Seats : owner'[s] = IF s = OrderOf[c].seat THEN c ELSE owner[s]
      BY <2>1, <2>3 DEF BackendTypeOK
    <3>2. c \in Holders'
      BY <1>2, <2>1, <3>1 DEF Holders
    <3>3. ASSUME NEW d \in Purchase, d # c
          PROVE  d \in Holders' <=> d \in Holders
      <4>1. CASE OrderOf[d].type = "unnumbered"
        BY <2>1, <4>1 DEF Holders
      <4>2. CASE OrderOf[d].type # "unnumbered"
        <5>1. \A s \in Seats : owner'[s] = d <=> owner[s] = d
          BY <2>1, <2>3, <3>1, <3>3
        <5> QED
          BY <4>2, <5>1 DEF Holders
      <4> QED
        BY <4>1, <4>2
    <3>4. Holders \subseteq Purchase /\ Holders' \subseteq Purchase
      BY DEF Holders
    <3> QED
      BY <2>1, <2>3, <3>2, <3>3, <3>4
  <2> QED
    BY <2>2, <2>3
<1> QED
  BY <1>1, <1>2

(* Deleting the counter withdraws the tickets of the buyers.               *)
LEMMA DeleteCounterHolds ==
    ASSUME BackendTypeOK, DeleteCounter
    PROVE  /\ Holders \subseteq Holders' \cup voided'
           /\ Holders' \subseteq Holders
           /\ voided \subseteq voided'
  BY DEF BackendTypeOK, DeleteCounter, Holders, Seats

(* Deleting seat keys withdraws the seats of their owners.                 *)
LEMMA DeleteSeatsHolds ==
    ASSUME BackendTypeOK, NEW K \in SUBSET SoldSeats, DeleteSeats(K)
    PROVE  /\ Holders \subseteq Holders' \cup voided'
           /\ Holders' \subseteq Holders
           /\ voided \subseteq voided'
  BY DEF BackendTypeOK, DeleteSeats, SoldSeats, Holders, Seats

(* Who holds what depends on the store alone.                              *)
LEMMA SameHolds ==
    ASSUME UNCHANGED storeVars
    PROVE  Holders' = Holders /\ voided' = voided
  BY DEF storeVars, Holders

(* The store counts every ticket it gave away.                              *)
LEMMA StoreStep ==
    ASSUME TypeOK, TypeOK', ServingOK, StoreOK, [Next]_vars
    PROVE  StoreOK'
<1> USE DEF StoreOK
<1>1. CASE UNCHANGED vars
  BY <1>1 DEF vars, storeVars, replicaVars, callVars, auxVars, boundVars
<1>2. ASSUME NEW r \in Process, NEW c \in Purchase, Send(c, r)
      PROVE  StoreOK'
  BY <1>2 DEF Send, storeVars, replicaVars, boundVars
<1>3. ASSUME NEW r \in Process, NEW c \in Purchase, RejectMalformed(r, c)
      PROVE  StoreOK'
  BY <1>3 DEF RejectMalformed, Ready, Respond, storeVars
<1>4. ASSUME NEW r \in Process, NEW c \in Purchase, AnswerDuplicate(r, c)
      PROVE  StoreOK'
  BY <1>4 DEF AnswerDuplicate, Ready, Respond, storeVars
<1>5. ASSUME NEW r \in Process, NEW c \in Purchase, RefuseOutOfRange(r, c)
      PROVE  StoreOK'
  BY <1>5 DEF RefuseOutOfRange, Ready, Respond, Remember, storeVars
<1>6. ASSUME NEW r \in Process, NEW c \in Purchase, BeginPurchase(r, c)
      PROVE  StoreOK'
  BY <1>6 DEF BeginPurchase, Ready, storeVars, auxVars, boundVars
<1>7. ASSUME NEW r \in Process, Execute(r)
      PROVE  StoreOK'
  <2>1. PICK granted \in BOOLEAN : /\ RunCommand(serving[r], granted)
                                   /\ sold' = [sold EXCEPT ![r] = granted]
    BY <1>7 DEF Execute
  <2>2. serving[r] \in Purchase /\ NeedsStore(serving[r])
    BY <1>7 DEF Execute, ServingOK, TypeOK
  <2>3. CASE OrderOf[serving[r]].type = "unnumbered"
    <3>1. CASE granted
      <4>1. /\ count' = count + 1
            /\ buyers' = buyers \cup {serving[r]}
            /\ owner' = owner
        BY <2>1, <2>3, <3>1 DEF RunCommand, IncrBounded
      <4>2. IsFiniteSet(buyers) /\ Cardinality(buyers) \in Nat
        BY FS_Subset, FS_CardinalityType DEF TypeOK, BackendTypeOK
      <4>3. Cardinality(buyers') <= Cardinality(buyers) + 1
        <5>1. Cardinality(buyers \cup {serving[r]}) =
                 IF serving[r] \in buyers THEN Cardinality(buyers) ELSE Cardinality(buyers) + 1
          BY <4>2, FS_AddElement
        <5> QED
          BY <4>1, <4>2, <5>1
      <4> QED
        <5>1. Cardinality(buyers') <= count'
          <6>1. Cardinality(buyers') \in Nat
            BY FS_Subset, FS_CardinalityType DEF TypeOK, BackendTypeOK
          <6> QED
            BY <4>1, <4>2, <4>3, <6>1 DEF TypeOK, BackendTypeOK
        <5> QED
          BY <2>3, <4>1, <5>1 DEF TypeOK, BackendTypeOK
    <3>2. CASE ~granted
      BY <2>1, <2>3, <3>2 DEF RunCommand, IncrBounded
    <3> QED
      BY <3>1, <3>2
  <2>4. CASE OrderOf[serving[r]].type # "unnumbered"
    <3>1. /\ OrderOf[serving[r]].type = "numbered" /\ OrderOf[serving[r]].seat \in Seats
          /\ count' = count /\ buyers' = buyers
          /\ owner' = IF granted THEN [owner EXCEPT ![OrderOf[serving[r]].seat] = serving[r]]
                                 ELSE owner
      BY <2>1, <2>2, <2>4 DEF RunCommand, SetSeatNX, NeedsStore
    <3> QED
      BY <2>2, <3>1 DEF TypeOK, BackendTypeOK
  <2> QED
    BY <2>3, <2>4
<1>8. ASSUME NEW r \in Process, Finish(r)
      PROVE  StoreOK'
  BY <1>8 DEF Finish, Respond, Remember, storeVars
<1>9. ASSUME NEW r \in Process, BeginReset(r)
      PROVE  StoreOK'
  BY <1>9 DEF BeginReset, storeVars, callVars
<1>10. ASSUME NEW r \in Process, ResetCounter(r)
      PROVE  StoreOK'
  BY <1>10, FS_EmptySet DEF ResetCounter, DeleteCounter
<1>11. ASSUME NEW r \in Process, ResetBatch(r)
      PROVE  StoreOK'
  <2>1. PICK K \in SUBSET SoldSeats : /\ DeleteSeats(K)
                                      /\ todo' = [q \in Process |-> todo[q] \ K]
    BY <1>11 DEF ResetBatch
  <2> QED
    BY <2>1 DEF DeleteSeats, TypeOK, BackendTypeOK
<1>12. ASSUME NEW r \in Process, FinishReset(r)
      PROVE  StoreOK'
  <2>1. PICK K \in SUBSET SoldSeats : /\ DeleteSeats(K)
                                      /\ todo' = [q \in Process |-> todo[q] \ K]
    BY <1>12 DEF FinishReset
  <2> QED
    BY <2>1 DEF DeleteSeats, TypeOK, BackendTypeOK
<1>13. ASSUME NEW r \in Process, BreakConnection(r)
      PROVE  StoreOK'
  BY <1>13 DEF BreakConnection, Respond, storeVars, callVars
<1>14. ASSUME NEW r \in Process, BreakReset(r)
      PROVE  StoreOK'
  BY <1>14 DEF BreakReset, storeVars, callVars
<1>15. ASSUME NEW r \in Process, Crash(r)
      PROVE  StoreOK'
  BY <1>15 DEF Crash, Forget, storeVars
<1>16. ASSUME NEW r \in Process, Restart(r)
      PROVE  StoreOK'
  BY <1>16 DEF Restart, storeVars, callVars, auxVars, boundVars
<1> QED
  BY <1>1, <1>2, <1>3, <1>4, <1>5, <1>6, <1>7, <1>8, <1>9,
     <1>10, <1>11, <1>12, <1>13, <1>14, <1>15, <1>16 DEF Next, Handle, Fault

(* A confirmation, given or on its way, keeps its sale.                     *)
LEMMA BackedStep ==
    ASSUME TypeOK, TypeOK', ServingOK, SalesBacked, [Next]_vars
    PROVE  SalesBacked'
<1> USE DEF SalesBacked, TypeOK
<1>1. CASE UNCHANGED vars
  BY <1>1, SameHolds DEF vars, storeVars, replicaVars, callVars, auxVars, boundVars
<1>2. ASSUME NEW r \in Process, NEW c \in Purchase, Send(c, r)
      PROVE  SalesBacked'
  BY <1>2, SameHolds DEF Send, storeVars, replicaVars, boundVars
<1>3. ASSUME NEW r \in Process, NEW c \in Purchase, RejectMalformed(r, c)
      PROVE  SalesBacked'
  BY <1>3, SameHolds DEF RejectMalformed, Ready, Respond, storeVars
<1>4. ASSUME NEW r \in Process, NEW c \in Purchase, AnswerDuplicate(r, c)
      PROVE  SalesBacked'
  BY <1>4, SameHolds DEF AnswerDuplicate, ServingOK, DuplicateOf, Ready, Respond, storeVars
<1>5. ASSUME NEW r \in Process, NEW c \in Purchase, RefuseOutOfRange(r, c)
      PROVE  SalesBacked'
  BY <1>5, SameHolds DEF RefuseOutOfRange, ServingOK, Failure, Ready, Respond, Remember, storeVars
<1>6. ASSUME NEW r \in Process, NEW c \in Purchase, BeginPurchase(r, c)
      PROVE  SalesBacked'
  BY <1>6, SameHolds DEF BeginPurchase, ServingOK, Ready, storeVars, auxVars, boundVars
<1>7. ASSUME NEW r \in Process, Execute(r)
      PROVE  SalesBacked'
  <2>1. PICK granted \in BOOLEAN : /\ RunCommand(serving[r], granted)
                                   /\ sold' = [sold EXCEPT ![r] = granted]
    BY <1>7 DEF Execute
  <2>2. serving[r] \in Purchase /\ NeedsStore(serving[r])
    BY <1>7 DEF Execute, ServingOK, TypeOK
  <2> QED
    BY <1>7, <2>1, <2>2, CommandHolds DEF Execute, callVars, ServingOK
<1>8. ASSUME NEW r \in Process, Finish(r)
      PROVE  SalesBacked'
  <2>1. serving[r] \in Purchase
    BY <1>8 DEF Finish, ServingOK
  <2>2. /\ outcome' = [outcome EXCEPT ![serving[r]] = Answer(serving[r], sold[r])]
        /\ sold' = [sold EXCEPT ![r] = FALSE]
        /\ serving' = [serving EXCEPT ![r] = Nobody]
        /\ Answer(serving[r], sold[r]).status = "success" <=> sold[r]
    BY <1>8 DEF Finish, Respond, Answer
  <2> QED
    BY <1>8, <2>1, <2>2, SameHolds DEF Finish
<1>9. ASSUME NEW r \in Process, BeginReset(r)
      PROVE  SalesBacked'
  BY <1>9, SameHolds DEF BeginReset, storeVars, callVars
<1>10. ASSUME NEW r \in Process, ResetCounter(r)
      PROVE  SalesBacked'
  BY <1>10, DeleteCounterHolds DEF ResetCounter, callVars, ServingOK
<1>11. ASSUME NEW r \in Process, ResetBatch(r)
      PROVE  SalesBacked'
  <2>1. PICK K \in SUBSET SoldSeats : /\ DeleteSeats(K)
                                      /\ todo' = [q \in Process |-> todo[q] \ K]
    BY <1>11 DEF ResetBatch
  <2> QED
    BY <1>11, <2>1, DeleteSeatsHolds DEF ResetBatch, callVars, ServingOK
<1>12. ASSUME NEW r \in Process, FinishReset(r)
      PROVE  SalesBacked'
  <2>1. PICK K \in SUBSET SoldSeats : /\ DeleteSeats(K)
                                      /\ todo' = [q \in Process |-> todo[q] \ K]
    BY <1>12 DEF FinishReset
  <2> QED
    BY <1>12, <2>1, DeleteSeatsHolds DEF FinishReset, callVars, ServingOK
<1>13. ASSUME NEW r \in Process, BreakConnection(r)
      PROVE  SalesBacked'
  <2>1. serving[r] \in Purchase /\ UNCHANGED storeVars
    BY <1>13 DEF BreakConnection, ServingOK
  <2>2. \A c \in Purchase : outcome'[c].status = "success" => outcome[c].status = "success"
    BY <1>13, <2>1 DEF BreakConnection, Respond, callVars
  <2>3. \A q \in Process : sold'[q] => sold[q] /\ serving'[q] = serving[q]
    BY <1>13, <2>1 DEF BreakConnection, Respond
  <2> QED
    BY <2>1, <2>2, <2>3, SameHolds
<1>14. ASSUME NEW r \in Process, BreakReset(r)
      PROVE  SalesBacked'
  BY <1>14, SameHolds DEF BreakReset, storeVars, callVars
<1>15. ASSUME NEW r \in Process, Crash(r)
      PROVE  SalesBacked'
  BY <1>15, SameHolds DEF Crash, Forget, storeVars
<1>16. ASSUME NEW r \in Process, Restart(r)
      PROVE  SalesBacked'
  BY <1>16, SameHolds DEF Restart, storeVars, callVars, auxVars, boundVars
<1> QED
  BY <1>1, <1>2, <1>3, <1>4, <1>5, <1>6, <1>7, <1>8, <1>9,
     <1>10, <1>11, <1>12, <1>13, <1>14, <1>15, <1>16 DEF Next, Handle, Fault

(* A sale is told to its buyer, unless a reply or the replica was lost.     *)
LEMMA ToldStep ==
    ASSUME TypeOK, TypeOK', ServingOK, CallsOK, SalesTold, [Next]_vars
    PROVE  SalesTold'
<1> USE DEF SalesTold, TypeOK, NoResponse
<1>1. CASE UNCHANGED vars
  BY <1>1, SameHolds DEF vars, storeVars, replicaVars, callVars, auxVars, boundVars
<1>2. ASSUME NEW r \in Process, NEW c \in Purchase, Send(c, r)
      PROVE  SalesTold'
  BY <1>2, SameHolds DEF Send, storeVars, replicaVars, boundVars
<1>3. ASSUME NEW r \in Process, NEW c \in Purchase, RejectMalformed(r, c)
      PROVE  SalesTold'
  BY <1>3, SameHolds DEF RejectMalformed, ServingOK, CallsOK, Ready, Respond, storeVars
<1>4. ASSUME NEW r \in Process, NEW c \in Purchase, AnswerDuplicate(r, c)
      PROVE  SalesTold'
  BY <1>4, SameHolds DEF AnswerDuplicate, ServingOK, CallsOK, Ready, Respond, storeVars
<1>5. ASSUME NEW r \in Process, NEW c \in Purchase, RefuseOutOfRange(r, c)
      PROVE  SalesTold'
  BY <1>5, SameHolds DEF RefuseOutOfRange, ServingOK, CallsOK, Ready, Respond, Remember, storeVars
<1>6. ASSUME NEW r \in Process, NEW c \in Purchase, BeginPurchase(r, c)
      PROVE  SalesTold'
  BY <1>6, SameHolds DEF BeginPurchase, ServingOK, CallsOK, Ready, storeVars, auxVars, boundVars
<1>7. ASSUME NEW r \in Process, Execute(r)
      PROVE  SalesTold'
  <2>1. PICK granted \in BOOLEAN : /\ RunCommand(serving[r], granted)
                                   /\ sold' = [sold EXCEPT ![r] = granted]
    BY <1>7 DEF Execute
  <2>2. serving[r] \in Purchase /\ NeedsStore(serving[r])
    BY <1>7 DEF Execute, ServingOK, TypeOK
  <2>3. serving[r] \in Holders => serving[r] \in blind
    <3>1. stage[serving[r]] = "serving" /\ outcome[serving[r]] = NoResponse /\ ~sold[r]
      BY <1>7, <2>2 DEF Execute, ServingOK, CallsOK
    <3>2. ~ \E q \in Process : serving[q] = serving[r] /\ sold[q]
      BY <2>2, <3>1 DEF ServingOK
    <3>3. outcome[serving[r]].status # "success" /\ stage[serving[r]] # "done"
      BY <3>1
    <3> QED
      BY <3>2, <3>3
  <2>4. IF granted THEN Holders' = Holders \cup {serving[r]} ELSE Holders' = Holders
    BY <2>1, <2>2, CommandHolds
  <2>5. UNCHANGED <<serving, outcome, stage, blind>>
    BY <1>7 DEF Execute, callVars, auxVars
  <2>6. \A q \in Process : q # r => sold'[q] = sold[q]
    BY <2>1
  <2>7. sold'[r] = granted /\ ~sold[r]
    BY <1>7, <2>1 DEF Execute, ServingOK
  <2> SUFFICES ASSUME NEW c \in Holders'
               PROVE  \/ \E q \in Process : serving[q] = c /\ sold'[q]
                      \/ outcome[c].status = "success"
                      \/ stage[c] = "done" /\ outcome[c] = NoResponse
                      \/ c \in blind
    BY <2>5
  <2>8. CASE c \in Holders
    <3>1. CASE \E q \in Process : serving[q] = c /\ sold[q]
      BY <2>6, <2>7, <3>1
    <3> QED
      BY <2>8, <3>1
  <2>9. CASE c = serving[r] /\ granted
    BY <2>7, <2>9
  <2> QED
    BY <2>4, <2>8, <2>9
<1>8. ASSUME NEW r \in Process, Finish(r)
      PROVE  SalesTold'
  <2>1. serving[r] \in Purchase
    BY <1>8 DEF Finish, ServingOK
  <2>2. /\ outcome' = [outcome EXCEPT ![serving[r]] = Answer(serving[r], sold[r])]
        /\ stage' = [stage EXCEPT ![serving[r]] = "done"]
        /\ sold' = [sold EXCEPT ![r] = FALSE]
        /\ serving' = [serving EXCEPT ![r] = Nobody]
        /\ Answer(serving[r], sold[r]).status = "success" <=> sold[r]
        /\ UNCHANGED <<storeVars, blind>>
    BY <1>8 DEF Finish, Respond, Answer
  <2>3. \A q \in Process : serving[q] = serving[r] => q = r
    <3>1. \A q \in Process : serving[q] # Nobody => at[serving[q]] = q
      BY DEF ServingOK
    <3> QED
      BY <2>1, <3>1, PurchaseAssumption
  <2>4. Holders' = Holders
    BY <2>2, SameHolds
  <2> SUFFICES ASSUME NEW c \in Holders
               PROVE  \/ \E q \in Process : serving'[q] = c /\ sold'[q]
                      \/ outcome'[c].status = "success"
                      \/ stage'[c] = "done" /\ outcome'[c] = NoResponse
                      \/ c \in blind'
    BY <2>4
  <2>5. CASE c = serving[r]
    <3>1. outcome[c] = NoResponse /\ stage[c] = "serving"
      BY <2>1, <2>5 DEF ServingOK, CallsOK
    <3>2. sold[r] \/ c \in blind
      <4>1. \A q \in Process : serving[q] = c /\ sold[q] => sold[r]
        BY <2>3, <2>5
      <4> QED
        <5>1. outcome[c].status # "success" /\ stage[c] # "done"
          BY <3>1
        <5> QED
          BY <4>1, <5>1
    <3> QED
      BY <2>1, <2>2, <2>5, <3>2
  <2>6. CASE c # serving[r]
    BY <2>1, <2>2, <2>6
  <2> QED
    BY <2>5, <2>6
<1>9. ASSUME NEW r \in Process, BeginReset(r)
      PROVE  SalesTold'
  BY <1>9, SameHolds DEF BeginReset, storeVars, callVars
<1>10. ASSUME NEW r \in Process, ResetCounter(r)
      PROVE  SalesTold'
  BY <1>10, DeleteCounterHolds DEF ResetCounter, callVars, auxVars
<1>11. ASSUME NEW r \in Process, ResetBatch(r)
      PROVE  SalesTold'
  <2>1. PICK K \in SUBSET SoldSeats : /\ DeleteSeats(K)
                                      /\ todo' = [q \in Process |-> todo[q] \ K]
    BY <1>11 DEF ResetBatch
  <2> QED
    BY <1>11, <2>1, DeleteSeatsHolds DEF ResetBatch, callVars, auxVars
<1>12. ASSUME NEW r \in Process, FinishReset(r)
      PROVE  SalesTold'
  <2>1. PICK K \in SUBSET SoldSeats : /\ DeleteSeats(K)
                                      /\ todo' = [q \in Process |-> todo[q] \ K]
    BY <1>12 DEF FinishReset
  <2> QED
    BY <1>12, <2>1, DeleteSeatsHolds DEF FinishReset, callVars
<1>13. ASSUME NEW r \in Process, BreakConnection(r)
      PROVE  SalesTold'
  <2>1. Holders' = Holders
    BY <1>13, SameHolds DEF BreakConnection
  <2>2. serving[r] \in Purchase /\ (sold[r] => serving[r] \in blind')
    BY <1>13 DEF BreakConnection, ServingOK
  <2>3. stage[serving[r]] = "serving" /\ outcome[serving[r]] = NoResponse
    BY <2>2 DEF ServingOK, CallsOK
  <2>4. /\ blind \subseteq blind'
        /\ \A q \in Process : q # r => serving'[q] = serving[q] /\ sold'[q] = sold[q]
        /\ \A c \in Purchase : c # serving[r] => outcome'[c] = outcome[c] /\ stage'[c] = stage[c]
    BY <1>13, <2>2 DEF BreakConnection, Respond, callVars
  <2>5. \A q \in Process : serving[q] = serving[r] => q = r
    BY <2>2 DEF ServingOK
  <2>6. ASSUME NEW c \in Holders, c = serving[r]
        PROVE  c \in blind'
    BY <2>2, <2>3, <2>4, <2>5, <2>6
  <2>7. ASSUME NEW c \in Holders, c # serving[r]
        PROVE  \/ \E q \in Process : serving'[q] = c /\ sold'[q]
               \/ outcome'[c].status = "success"
               \/ stage'[c] = "done" /\ outcome'[c] = NoResponse
               \/ c \in blind'
    <3>1. c \in Purchase
      BY DEF Holders
    <3> QED
      BY <2>4, <2>7, <3>1
  <2> QED
    BY <2>1, <2>6, <2>7
<1>14. ASSUME NEW r \in Process, BreakReset(r)
      PROVE  SalesTold'
  BY <1>14, SameHolds DEF BreakReset, storeVars, callVars
<1>15. ASSUME NEW r \in Process, Crash(r)
      PROVE  SalesTold'
  <2>1. Holders' = Holders
    BY <1>15, SameHolds DEF Crash
  <2>2. /\ outcome' = outcome /\ blind' = blind
        /\ \A q \in Process : q # r => serving'[q] = serving[q] /\ sold'[q] = sold[q]
        /\ \A c \in Purchase : stage[c] = "done" => stage'[c] = "done"
    BY <1>15 DEF Crash
  <2>3. ASSUME serving[r] # Nobody
        PROVE  stage'[serving[r]] = "done" /\ outcome[serving[r]] = NoResponse
    BY <1>15, <2>3 DEF Crash, ServingOK, CallsOK
  <2> SUFFICES ASSUME NEW c \in Holders
               PROVE  \/ \E q \in Process : serving'[q] = c /\ sold'[q]
                      \/ outcome'[c].status = "success"
                      \/ stage'[c] = "done" /\ outcome'[c] = NoResponse
                      \/ c \in blind'
    BY <2>1
  <2>4. c \in Purchase
    BY DEF Holders
  <2>5. CASE c = serving[r]
    BY <2>2, <2>3, <2>4, <2>5
  <2>6. CASE c # serving[r]
    BY <2>2, <2>4, <2>6
  <2> QED
    BY <2>5, <2>6
<1>16. ASSUME NEW r \in Process, Restart(r)
      PROVE  SalesTold'
  BY <1>16, SameHolds DEF Restart, storeVars, callVars, auxVars, boundVars
<1> QED
  BY <1>1, <1>2, <1>3, <1>4, <1>5, <1>6, <1>7, <1>8, <1>9,
     <1>10, <1>11, <1>12, <1>13, <1>14, <1>15, <1>16 DEF Next, Handle, Fault

(* An undisturbed reset leaves nothing behind that SCAN does not owe it.    *)
LEMMA QuietStep ==
    ASSUME TypeOK, TypeOK', ServingOK, QuietOK, [Next]_vars
    PROVE  QuietOK'
<1> USE DEF QuietOK, TypeOK, ServingOK
<1>1. CASE UNCHANGED vars
  BY <1>1 DEF vars, storeVars, SoldSeats, replicaVars, callVars, auxVars, boundVars
<1>2. ASSUME NEW r \in Process, NEW c \in Purchase, Send(c, r)
      PROVE  QuietOK'
  BY <1>2 DEF Send, storeVars, SoldSeats, replicaVars, boundVars
<1>3. ASSUME NEW r \in Process, NEW c \in Purchase, RejectMalformed(r, c)
      PROVE  QuietOK'
  BY <1>3 DEF RejectMalformed, Ready, Respond, storeVars, SoldSeats
<1>4. ASSUME NEW r \in Process, NEW c \in Purchase, AnswerDuplicate(r, c)
      PROVE  QuietOK'
  BY <1>4 DEF AnswerDuplicate, Ready, Respond, storeVars, SoldSeats
<1>5. ASSUME NEW r \in Process, NEW c \in Purchase, RefuseOutOfRange(r, c)
      PROVE  QuietOK'
  BY <1>5 DEF RefuseOutOfRange, Ready, Respond, Remember, storeVars, SoldSeats
<1>6. ASSUME NEW r \in Process, NEW c \in Purchase, BeginPurchase(r, c)
      PROVE  QuietOK'
  BY <1>6 DEF BeginPurchase, Ready, storeVars, SoldSeats, auxVars, boundVars
<1>7. ASSUME NEW r \in Process, Execute(r)
      PROVE  QuietOK'
  BY <1>7 DEF Execute, callVars, auxVars, boundVars
<1>8. ASSUME NEW r \in Process, Finish(r)
      PROVE  QuietOK'
  BY <1>8 DEF Finish, Respond, Remember, storeVars, SoldSeats
<1>9. ASSUME NEW r \in Process, BeginReset(r)
      PROVE  QuietOK'
  BY <1>9 DEF BeginReset, storeVars, SoldSeats, callVars
<1>10. ASSUME NEW r \in Process, ResetCounter(r)
      PROVE  QuietOK'
  BY <1>10 DEF ResetCounter, DeleteCounter, SoldSeats, callVars, auxVars
<1>11. ASSUME NEW r \in Process, ResetBatch(r)
      PROVE  QuietOK'
  <2>1. PICK K \in SUBSET SoldSeats : /\ DeleteSeats(K)
                                      /\ todo' = [q \in Process |-> todo[q] \ K]
    BY <1>11 DEF ResetBatch
  <2>2. count' = count /\ SoldSeats' = SoldSeats \ K
    BY <2>1 DEF DeleteSeats, SoldSeats, BackendTypeOK
  <2> QED
    BY <1>11, <2>1, <2>2 DEF ResetBatch, callVars, auxVars
<1>12. ASSUME NEW r \in Process, FinishReset(r)
      PROVE  QuietOK'
  <2>1. PICK K \in SUBSET SoldSeats : /\ DeleteSeats(K)
                                      /\ todo' = [q \in Process |-> todo[q] \ K]
    BY <1>12 DEF FinishReset
  <2>2. count' = count /\ SoldSeats' = SoldSeats \ K
    BY <2>1 DEF DeleteSeats, SoldSeats, BackendTypeOK
  <2> QED
    BY <1>12, <2>1, <2>2 DEF FinishReset, callVars
<1>13. ASSUME NEW r \in Process, BreakConnection(r)
      PROVE  QuietOK'
  BY <1>13 DEF BreakConnection, Respond, storeVars, SoldSeats, callVars
<1>14. ASSUME NEW r \in Process, BreakReset(r)
      PROVE  QuietOK'
  BY <1>14 DEF BreakReset, storeVars, SoldSeats, callVars
<1>15. ASSUME NEW r \in Process, Crash(r)
      PROVE  QuietOK'
  BY <1>15 DEF Crash, Forget, storeVars, SoldSeats
<1>16. ASSUME NEW r \in Process, Restart(r)
      PROVE  QuietOK'
  BY <1>16 DEF Restart, storeVars, SoldSeats, callVars, auxVars, boundVars
<1> QED
  BY <1>1, <1>2, <1>3, <1>4, <1>5, <1>6, <1>7, <1>8, <1>9,
     <1>10, <1>11, <1>12, <1>13, <1>14, <1>15, <1>16 DEF Next, Handle, Fault

-----------------------------------------------------------------------------
(* The handler of a call whose request id is not cached answers it for     *)
(* good: the cache gains that answer and loses none.                       *)
LEMMA RunCaches ==
    ASSUME TypeOK, TypeOK', CallsOK, CacheOK, SameReplicaIdempotent,
           NEW r \in Process, NEW c \in Purchase, NEW resp \in Response,
           resp.status \in {"success", "failed"},
           stage[c] # "done", at[c] = r, ~Cached(r, c),
           Remember(r, c, resp), Respond(r, c, resp)
    PROVE  CacheOK' /\ SameReplicaIdempotent'
<1> USE DEF TypeOK, BackendTypeOK, Ran
<1>1. /\ processed' = [processed EXCEPT ![r][OrderOf[c].id] = resp]
      /\ outcome' = [outcome EXCEPT ![c] = resp]
      /\ stage' = [stage EXCEPT ![c] = "done"]
      /\ at' = at /\ forgotten' = forgotten
  BY DEF Remember, Respond
<1>2. /\ OrderOf[c].id \in Ids
      /\ processed'[r][OrderOf[c].id] = resp
      /\ \A q \in Process, i \in Ids :
            q # r \/ i # OrderOf[c].id => processed'[q][i] = processed[q][i]
  BY <1>1
<1>3. /\ Ran(c)' /\ outcome'[c] = resp /\ ~Ran(c)
      /\ \A d \in Purchase : d # c => outcome'[d] = outcome[d] /\ stage'[d] = stage[d]
  BY <1>1
<1>4. ASSUME NEW q \in Process, NEW i \in Ids, processed'[q][i] # NoResponse
      PROVE  \E d \in Purchase : /\ Ran(d)' /\ at'[d] = q /\ OrderOf[d].id = i
                                 /\ outcome'[d] = processed'[q][i]
  <2>1. CASE q = r /\ i = OrderOf[c].id
    BY <1>1, <1>2, <1>3, <2>1
  <2>2. CASE q # r \/ i # OrderOf[c].id
    <3>1. PICK d \in Purchase : /\ Ran(d) /\ at[d] = q /\ OrderOf[d].id = i
                                /\ outcome[d] = processed[q][i]
      BY <1>2, <1>4, <2>2 DEF CacheOK
    <3> QED
      BY <1>1, <1>2, <1>3, <2>2, <3>1
  <2> QED
    BY <2>1, <2>2
<1>5. ASSUME NEW d \in Purchase, Ran(d), d \notin forgotten
      PROVE  ~(at[d] = r /\ OrderOf[d].id = OrderOf[c].id)
  <2>1. processed[at[d]][OrderOf[d].id] = outcome[d] /\ outcome[d] # NoResponse
    BY <1>5 DEF CacheOK, NoResponse
  <2> QED
    BY <2>1 DEF Cached
<1>6. ASSUME NEW d \in Purchase, Ran(d)', d \notin forgotten
      PROVE  processed'[at'[d]][OrderOf[d].id] = outcome'[d]
  <2>1. CASE d = c
    BY <1>1, <1>2, <1>3, <2>1
  <2>2. CASE d # c
    <3>1. Ran(d) /\ at[d] \in Process /\ OrderOf[d].id \in Ids
      BY <1>3, <1>6, <2>2 DEF CallsOK
    <3>2. at[d] # r \/ OrderOf[d].id # OrderOf[c].id
      BY <1>5, <1>6, <3>1
    <3> QED
      BY <1>1, <1>2, <1>3, <1>6, <2>2, <3>1, <3>2 DEF CacheOK
  <2> QED
    BY <2>1, <2>2
<1>7. CacheOK'
  <2>1. NoResponse' = NoResponse
    BY DEF NoResponse
  <2> QED
    BY <1>1, <1>4, <1>6, <2>1 DEF CacheOK
<1>8. SameReplicaIdempotent'
  <2> SUFFICES ASSUME NEW d \in Purchase, NEW e \in Purchase, d # e,
                      OrderOf[d].id = OrderOf[e].id, Ran(d)', Ran(e)',
                      at[d] = at[e], d \notin forgotten, e \notin forgotten
               PROVE  FALSE
    BY <1>1 DEF SameReplicaIdempotent
  <2>1. CASE d = c
    BY <1>3, <1>5, <2>1
  <2>2. CASE e = c
    BY <1>3, <1>5, <2>2
  <2>3. CASE d # c /\ e # c
    BY <1>3, <2>3 DEF SameReplicaIdempotent
  <2> QED
    BY <2>1, <2>2, <2>3
<1> QED
  BY <1>7, <1>8

(* Every other step keeps the answers that count, and can only forget.     *)
LEMMA KeepsCache ==
    ASSUME CacheOK, SameReplicaIdempotent,
           \A c \in Purchase : Ran(c)' <=> Ran(c),
           \A c \in Purchase : Ran(c) => outcome'[c] = outcome[c] /\ at'[c] = at[c],
           UNCHANGED <<processed, forgotten>>
    PROVE  CacheOK' /\ SameReplicaIdempotent'
<1>1. NoResponse' = NoResponse
  BY DEF NoResponse
<1>2. CacheOK'
  BY <1>1 DEF CacheOK
<1>3. SameReplicaIdempotent'
  BY DEF SameReplicaIdempotent, Ran
<1> QED
  BY <1>2, <1>3

(* A replica that forgets its cache owes its answers to nobody.            *)
LEMMA ForgetsCache ==
    ASSUME TypeOK, CallsOK, CacheOK, SameReplicaIdempotent, NEW r \in Process,
           \A c \in Purchase : Ran(c)' <=> Ran(c),
           UNCHANGED <<outcome, at>>,
           forgotten' = forgotten \cup {c \in Purchase : at[c] = r /\ stage[c] = "done"},
           Forget(r)
    PROVE  CacheOK' /\ SameReplicaIdempotent'
<1>1. NoResponse' = NoResponse
  BY DEF NoResponse
<1>2. /\ \A i \in Ids : processed'[r][i] = NoResponse
      /\ \A q \in Process : q # r => processed'[q] = processed[q]
  BY DEF Forget, EmptyCache, TypeOK, BackendTypeOK
<1>3. ASSUME NEW q \in Process, NEW i \in Ids, processed'[q][i] # NoResponse
      PROVE  \E d \in Purchase : /\ Ran(d)' /\ at'[d] = q /\ OrderOf[d].id = i
                                 /\ outcome'[d] = processed'[q][i]
  BY <1>2, <1>3 DEF CacheOK
<1>4. ASSUME NEW d \in Purchase, Ran(d)', d \notin forgotten'
      PROVE  processed'[at'[d]][OrderOf[d].id] = outcome'[d]
  <2>1. stage[d] = "done" /\ at[d] \in Process /\ at[d] # r
    BY <1>4 DEF Ran, CallsOK
  <2> QED
    BY <1>2, <1>4, <2>1 DEF CacheOK
<1>5. CacheOK'
  BY <1>1, <1>3, <1>4 DEF CacheOK
<1>6. SameReplicaIdempotent'
  BY DEF SameReplicaIdempotent, Ran
<1> QED
  BY <1>5, <1>6

(* Each replica keeps its answers, and never answers an id for good twice.  *)
LEMMA CacheStep ==
    ASSUME TypeOK, TypeOK', ServingOK, CallsOK, CacheOK,
           SameReplicaIdempotent, [Next]_vars
    PROVE  CacheOK' /\ SameReplicaIdempotent'
<1> USE DEF TypeOK
<1>1. CASE UNCHANGED vars
  <2>1. /\ \A d \in Purchase : Ran(d)' <=> Ran(d)
        /\ \A d \in Purchase : Ran(d) => outcome'[d] = outcome[d] /\ at'[d] = at[d]
        /\ UNCHANGED <<processed, forgotten>>
    BY <1>1 DEF vars, callVars, auxVars, Ran
  <2> QED
    BY <2>1, KeepsCache
<1>2. ASSUME NEW r \in Process, NEW c \in Purchase, Send(c, r)
      PROVE  CacheOK' /\ SameReplicaIdempotent'
  <2>1. /\ \A d \in Purchase : Ran(d)' <=> Ran(d)
        /\ \A d \in Purchase : Ran(d) => outcome'[d] = outcome[d] /\ at'[d] = at[d]
        /\ UNCHANGED <<processed, forgotten>>
    BY <1>2 DEF Send, storeVars, replicaVars, boundVars, Ran
  <2> QED
    BY <2>1, KeepsCache
<1>3. ASSUME NEW r \in Process, NEW c \in Purchase, RejectMalformed(r, c)
      PROVE  CacheOK' /\ SameReplicaIdempotent'
  <2>1. /\ \A d \in Purchase : Ran(d)' <=> Ran(d)
        /\ \A d \in Purchase : Ran(d) => outcome'[d] = outcome[d] /\ at'[d] = at[d]
        /\ UNCHANGED <<processed, forgotten>>
    BY <1>3 DEF RejectMalformed, Ready, Respond, storeVars, Ran
  <2> QED
    BY <2>1, KeepsCache
<1>4. ASSUME NEW r \in Process, NEW c \in Purchase, AnswerDuplicate(r, c)
      PROVE  CacheOK' /\ SameReplicaIdempotent'
  <2>1. /\ \A d \in Purchase : Ran(d)' <=> Ran(d)
        /\ \A d \in Purchase : Ran(d) => outcome'[d] = outcome[d] /\ at'[d] = at[d]
        /\ UNCHANGED <<processed, forgotten>>
    BY <1>4 DEF AnswerDuplicate, DuplicateOf, Ready, Respond, Ran
  <2> QED
    BY <2>1, KeepsCache
<1>5. ASSUME NEW r \in Process, NEW c \in Purchase, RefuseOutOfRange(r, c)
      PROVE  CacheOK' /\ SameReplicaIdempotent'
  <2>1. Failure \in Response /\ Failure.status = "failed"
    BY ResponseTypes DEF Failure
  <2> QED
    BY <1>5, <2>1, RunCaches DEF RefuseOutOfRange, Ready
<1>6. ASSUME NEW r \in Process, NEW c \in Purchase, BeginPurchase(r, c)
      PROVE  CacheOK' /\ SameReplicaIdempotent'
  <2>1. /\ \A d \in Purchase : Ran(d)' <=> Ran(d)
        /\ \A d \in Purchase : Ran(d) => outcome'[d] = outcome[d] /\ at'[d] = at[d]
        /\ UNCHANGED <<processed, forgotten>>
    BY <1>6 DEF BeginPurchase, Ready, storeVars, auxVars, boundVars, Ran
  <2> QED
    BY <2>1, KeepsCache
<1>7. ASSUME NEW r \in Process, Execute(r)
      PROVE  CacheOK' /\ SameReplicaIdempotent'
  <2>1. /\ \A d \in Purchase : Ran(d)' <=> Ran(d)
        /\ \A d \in Purchase : Ran(d) => outcome'[d] = outcome[d] /\ at'[d] = at[d]
        /\ UNCHANGED <<processed, forgotten>>
    BY <1>7 DEF Execute, callVars, auxVars, Ran
  <2> QED
    BY <2>1, KeepsCache
<1>8. ASSUME NEW r \in Process, Finish(r)
      PROVE  CacheOK' /\ SameReplicaIdempotent'
  <2>1. /\ serving[r] \in Purchase /\ stage[serving[r]] = "serving" /\ at[serving[r]] = r
        /\ ~Cached(r, serving[r])
    BY <1>8 DEF Finish, ServingOK
  <2>2. /\ Answer(serving[r], sold[r]) \in Response
        /\ Answer(serving[r], sold[r]).status \in {"success", "failed"}
    BY <2>1, ResponseTypes DEF Answer
  <2> QED
    BY <1>8, <2>1, <2>2, RunCaches DEF Finish
<1>9. ASSUME NEW r \in Process, BeginReset(r)
      PROVE  CacheOK' /\ SameReplicaIdempotent'
  <2>1. /\ \A d \in Purchase : Ran(d)' <=> Ran(d)
        /\ \A d \in Purchase : Ran(d) => outcome'[d] = outcome[d] /\ at'[d] = at[d]
        /\ UNCHANGED <<processed, forgotten>>
    BY <1>9 DEF BeginReset, storeVars, callVars, Ran
  <2> QED
    BY <2>1, KeepsCache
<1>10. ASSUME NEW r \in Process, ResetCounter(r)
      PROVE  CacheOK' /\ SameReplicaIdempotent'
  <2>1. /\ \A d \in Purchase : Ran(d)' <=> Ran(d)
        /\ \A d \in Purchase : Ran(d) => outcome'[d] = outcome[d] /\ at'[d] = at[d]
        /\ UNCHANGED <<processed, forgotten>>
    BY <1>10 DEF ResetCounter, callVars, auxVars, boundVars, Ran
  <2> QED
    BY <2>1, KeepsCache
<1>11. ASSUME NEW r \in Process, ResetBatch(r)
      PROVE  CacheOK' /\ SameReplicaIdempotent'
  <2>1. /\ \A d \in Purchase : Ran(d)' <=> Ran(d)
        /\ \A d \in Purchase : Ran(d) => outcome'[d] = outcome[d] /\ at'[d] = at[d]
        /\ UNCHANGED <<processed, forgotten>>
    BY <1>11 DEF ResetBatch, callVars, auxVars, boundVars, Ran
  <2> QED
    BY <2>1, KeepsCache
<1>12. ASSUME NEW r \in Process, FinishReset(r)
      PROVE  CacheOK' /\ SameReplicaIdempotent'
  <2>1. UNCHANGED <<outcome, at, stage>>
    BY <1>12 DEF FinishReset, callVars
  <2> QED
    BY <1>12, <2>1, ForgetsCache DEF FinishReset, Ran
<1>13. ASSUME NEW r \in Process, BreakConnection(r)
      PROVE  CacheOK' /\ SameReplicaIdempotent'
  <2>1. serving[r] \in Purchase /\ stage[serving[r]] = "serving"
    BY <1>13 DEF BreakConnection, ServingOK
  <2>2. UNCHANGED <<processed, forgotten>>
    BY <1>13 DEF BreakConnection, Respond
  <2>3. CASE UNCHANGED callVars
    BY <2>2, <2>3, KeepsCache DEF callVars, Ran
  <2>4. CASE Respond(r, serving[r], [status |-> "error", seat |-> NoSeat])
    <3>1. /\ outcome' = [outcome EXCEPT ![serving[r]] = [status |-> "error", seat |-> NoSeat]]
          /\ stage' = [stage EXCEPT ![serving[r]] = "done"]
          /\ at' = at
      BY <2>4 DEF Respond
    <3>2. \A d \in Purchase : Ran(d)' <=> Ran(d)
      BY <2>1, <3>1 DEF Ran
    <3>3. \A d \in Purchase : Ran(d) => outcome'[d] = outcome[d] /\ at'[d] = at[d]
      BY <2>1, <3>1 DEF Ran
    <3> QED
      BY <2>2, <3>2, <3>3, KeepsCache
  <2> QED
    BY <1>13, <2>3, <2>4 DEF BreakConnection
<1>14. ASSUME NEW r \in Process, BreakReset(r)
      PROVE  CacheOK' /\ SameReplicaIdempotent'
  <2>1. /\ \A d \in Purchase : Ran(d)' <=> Ran(d)
        /\ \A d \in Purchase : Ran(d) => outcome'[d] = outcome[d] /\ at'[d] = at[d]
        /\ UNCHANGED <<processed, forgotten>>
    BY <1>14 DEF BreakReset, storeVars, callVars, Ran
  <2> QED
    BY <2>1, KeepsCache
<1>15. ASSUME NEW r \in Process, Crash(r)
      PROVE  CacheOK' /\ SameReplicaIdempotent'
  <2>1. \A d \in Purchase : Ran(d)' <=> Ran(d)
    BY <1>15 DEF Crash, CallsOK, NoResponse, Ran
  <2> QED
    BY <1>15, <2>1, ForgetsCache DEF Crash
<1>16. ASSUME NEW r \in Process, Restart(r)
      PROVE  CacheOK' /\ SameReplicaIdempotent'
  <2>1. /\ \A d \in Purchase : Ran(d)' <=> Ran(d)
        /\ \A d \in Purchase : Ran(d) => outcome'[d] = outcome[d] /\ at'[d] = at[d]
        /\ UNCHANGED <<processed, forgotten>>
    BY <1>16 DEF Restart, storeVars, callVars, auxVars, boundVars, Ran
  <2> QED
    BY <2>1, KeepsCache
<1> QED
  BY <1>1, <1>2, <1>3, <1>4, <1>5, <1>6, <1>7, <1>8, <1>9,
     <1>10, <1>11, <1>12, <1>13, <1>14, <1>15, <1>16 DEF Next, Handle, Fault

(* A new answer leaves the duplicates told so far genuine.                 *)
LEMMA RespondGenuine ==
    ASSUME TypeOK, DuplicateIsGenuine, NEW c \in Purchase, NEW resp \in Response,
           outcome[c] = NoResponse,
           outcome' = [outcome EXCEPT ![c] = resp],
           at' = at,
           resp.status = "duplicate" =>
               \E d \in Purchase : /\ OrderOf[d].id = OrderOf[c].id
                                   /\ at[d] = at[c]
                                   /\ outcome[d].status \in {"success", "failed"}
                                   /\ outcome[d].seat = resp.seat
    PROVE  DuplicateIsGenuine'
<1>1. /\ outcome'[c] = resp
      /\ \A d \in Purchase : d # c => outcome'[d] = outcome[d]
  BY DEF TypeOK
<1>2. \A d \in Purchase : outcome[d].status \in {"success", "failed"} => outcome'[d] = outcome[d]
  BY <1>1 DEF NoResponse
<1> SUFFICES ASSUME NEW e \in Purchase, outcome'[e].status = "duplicate"
             PROVE  \E d \in Purchase : /\ OrderOf[d].id = OrderOf[e].id
                                        /\ at[d] = at[e]
                                        /\ outcome'[d].status \in {"success", "failed"}
                                        /\ outcome'[d].seat = outcome'[e].seat
  BY DEF DuplicateIsGenuine
<1>3. CASE e = c
  <2>1. PICK d \in Purchase : /\ OrderOf[d].id = OrderOf[c].id
                              /\ at[d] = at[c]
                              /\ outcome[d].status \in {"success", "failed"}
                              /\ outcome[d].seat = resp.seat
    BY <1>1, <1>3
  <2> QED
    BY <1>1, <1>2, <1>3, <2>1
<1>4. CASE e # c
  <2>1. PICK d \in Purchase : /\ OrderOf[d].id = OrderOf[e].id
                              /\ at[d] = at[e]
                              /\ outcome[d].status \in {"success", "failed"}
                              /\ outcome[d].seat = outcome[e].seat
    BY <1>1, <1>4 DEF DuplicateIsGenuine
  <2> QED
    BY <1>1, <1>2, <1>4, <2>1
<1> QED
  BY <1>3, <1>4

(* A duplicate answer stays backed by the answer it repeats.                *)
LEMMA GenuineStep ==
    ASSUME TypeOK, TypeOK', ServingOK, CallsOK, CacheOK, DuplicateIsGenuine, [Next]_vars
    PROVE  DuplicateIsGenuine'
<1> USE DEF TypeOK, DuplicateIsGenuine
<1>1. CASE UNCHANGED vars
  BY <1>1 DEF vars, storeVars, replicaVars, callVars, auxVars, boundVars
<1>2. ASSUME NEW r \in Process, NEW c \in Purchase, Send(c, r)
      PROVE  DuplicateIsGenuine'
  BY <1>2 DEF Send, CallsOK, NoResponse, storeVars, replicaVars, boundVars
<1>3. ASSUME NEW r \in Process, NEW c \in Purchase, RejectMalformed(r, c)
      PROVE  DuplicateIsGenuine'
  <2> HIDE DEF TypeOK, DuplicateIsGenuine
  <2>1. /\ outcome' = [outcome EXCEPT ![c] = [status |-> "invalid", seat |-> NoSeat]]
        /\ at' = at /\ outcome[c] = NoResponse
    BY <1>3 DEF RejectMalformed, Respond, Ready, CallsOK
  <2> QED
    BY <2>1, RespondGenuine, ResponseTypes
<1>4. ASSUME NEW r \in Process, NEW c \in Purchase, AnswerDuplicate(r, c)
      PROVE  DuplicateIsGenuine'
  <2>1. PICK d \in Purchase : /\ Ran(d) /\ at[d] = r /\ OrderOf[d].id = OrderOf[c].id
                              /\ outcome[d] = processed[r][OrderOf[c].id]
    BY <1>4 DEF AnswerDuplicate, Cached, CacheOK
  <2>2. /\ outcome' = [outcome EXCEPT ![c] = DuplicateOf(outcome[d])]
        /\ at' = at /\ at[c] = r /\ stage[c] = "queued"
    BY <1>4, <2>1 DEF AnswerDuplicate, Respond, Ready
  <2>3. DuplicateOf(outcome[d]) \in Response /\ DuplicateOf(outcome[d]).seat = outcome[d].seat
    BY ResponseTypes DEF DuplicateOf
  <2> HIDE DEF TypeOK, DuplicateIsGenuine
  <2>4. outcome[c] = NoResponse /\ at[d] = at[c]
    BY <2>1, <2>2 DEF CallsOK
  <2>5. OrderOf[d].id = OrderOf[c].id /\ outcome[d].status \in {"success", "failed"}
    BY <2>1 DEF Ran
  <2> QED
    BY <2>2, <2>3, <2>4, <2>5, RespondGenuine
<1>5. ASSUME NEW r \in Process, NEW c \in Purchase, RefuseOutOfRange(r, c)
      PROVE  DuplicateIsGenuine'
  BY <1>5 DEF RefuseOutOfRange, Failure, CallsOK, NoResponse, Ready, Respond, Remember, storeVars
<1>6. ASSUME NEW r \in Process, NEW c \in Purchase, BeginPurchase(r, c)
      PROVE  DuplicateIsGenuine'
  BY <1>6 DEF BeginPurchase, Ready, storeVars, auxVars, boundVars
<1>7. ASSUME NEW r \in Process, Execute(r)
      PROVE  DuplicateIsGenuine'
  BY <1>7 DEF Execute, callVars, auxVars, boundVars
<1>8. ASSUME NEW r \in Process, Finish(r)
      PROVE  DuplicateIsGenuine'
  <2>1. serving[r] \in Purchase /\ outcome[serving[r]] = NoResponse
    BY <1>8 DEF Finish, ServingOK, CallsOK
  <2>2. /\ outcome' = [outcome EXCEPT ![serving[r]] = Answer(serving[r], sold[r])]
        /\ at' = at
        /\ Answer(serving[r], sold[r]).status # "duplicate"
    BY <1>8 DEF Finish, Respond, Answer
  <2>3. Answer(serving[r], sold[r]) \in Response
    BY <2>1, ResponseTypes
  <2> HIDE DEF TypeOK, DuplicateIsGenuine
  <2> QED
    BY <2>1, <2>2, <2>3, RespondGenuine
<1>9. ASSUME NEW r \in Process, BeginReset(r)
      PROVE  DuplicateIsGenuine'
  BY <1>9 DEF BeginReset, storeVars, callVars
<1>10. ASSUME NEW r \in Process, ResetCounter(r)
      PROVE  DuplicateIsGenuine'
  BY <1>10 DEF ResetCounter, callVars, auxVars, boundVars
<1>11. ASSUME NEW r \in Process, ResetBatch(r)
      PROVE  DuplicateIsGenuine'
  BY <1>11 DEF ResetBatch, callVars, auxVars, boundVars
<1>12. ASSUME NEW r \in Process, FinishReset(r)
      PROVE  DuplicateIsGenuine'
  BY <1>12 DEF FinishReset, Forget, callVars, boundVars
<1>13. ASSUME NEW r \in Process, BreakConnection(r)
      PROVE  DuplicateIsGenuine'
  <2>1. serving[r] \in Purchase /\ outcome[serving[r]] = NoResponse
    BY <1>13 DEF BreakConnection, ServingOK, CallsOK
  <2>2. /\ \/ outcome' = [outcome EXCEPT ![serving[r]] = [status |-> "error", seat |-> NoSeat]]
           \/ outcome' = outcome
        /\ at' = at
    BY <1>13 DEF BreakConnection, Respond, callVars
  <2>3. CASE outcome' = outcome
    BY <2>2, <2>3
  <2>4. CASE outcome' # outcome
    <3> HIDE DEF TypeOK, DuplicateIsGenuine
    <3> QED
      BY <2>1, <2>2, <2>4, RespondGenuine, ResponseTypes
  <2> QED
    BY <2>3, <2>4
<1>14. ASSUME NEW r \in Process, BreakReset(r)
      PROVE  DuplicateIsGenuine'
  BY <1>14 DEF BreakReset, storeVars, callVars
<1>15. ASSUME NEW r \in Process, Crash(r)
      PROVE  DuplicateIsGenuine'
  BY <1>15 DEF Crash, Forget, storeVars
<1>16. ASSUME NEW r \in Process, Restart(r)
      PROVE  DuplicateIsGenuine'
  BY <1>16 DEF Restart, storeVars, callVars, auxVars, boundVars
<1> QED
  BY <1>1, <1>2, <1>3, <1>4, <1>5, <1>6, <1>7, <1>8, <1>9,
     <1>10, <1>11, <1>12, <1>13, <1>14, <1>15, <1>16 DEF Next, Handle, Fault

-----------------------------------------------------------------------------
(* The invariant holds at the start.                                       *)
LEMMA IInvInit == Init => IInv
<1> SUFFICES ASSUME Init PROVE IInv
  OBVIOUS
<1>1. TypeOK
  BY TypeInit
<1>2. Holders = {} /\ SoldSeats = {}
  BY DEF Init, BackendInit, Holders, SoldSeats
<1>3. ServingOK /\ CallsOK /\ QuietOK
  BY DEF Init, ServingOK, CallsOK, QuietOK
<1>4. StoreOK
  BY FS_EmptySet DEF Init, BackendInit, StoreOK
<1>5. SalesBacked /\ SalesTold /\ SameReplicaIdempotent /\ DuplicateIsGenuine
  BY <1>2 DEF Init, SalesBacked, SalesTold, SameReplicaIdempotent, DuplicateIsGenuine, NoResponse
<1>6. CacheOK
  BY DEF Init, BackendInit, EmptyCache, CacheOK, Ran
<1> QED
  BY <1>1, <1>3, <1>4, <1>5, <1>6 DEF IInv

(* Each step keeps the invariant.                                          *)
LEMMA IInvStep == IInv /\ [Next]_vars => IInv'
<1> SUFFICES ASSUME IInv, [Next]_vars PROVE IInv'
  OBVIOUS
<1>1. TypeOK'
  BY TypeStep DEF IInv
<1>2. ServingOK' /\ CallsOK' /\ StoreOK'
  BY <1>1, ServingStep, CallsStep, StoreStep DEF IInv
<1>3. SalesBacked' /\ SalesTold'
  BY <1>1, BackedStep, ToldStep DEF IInv
<1>4. CacheOK' /\ SameReplicaIdempotent' /\ DuplicateIsGenuine' /\ QuietOK'
  BY <1>1, CacheStep, GenuineStep, QuietStep DEF IInv
<1> QED
  BY <1>1, <1>2, <1>3, <1>4 DEF IInv

(* The invariant holds whatever replicas, calls, faults and resets there   *)
(* are.                                                                    *)
THEOREM Invariance == Spec => []IInv
  BY IInvInit, IInvStep, PTL DEF Spec

(* Every variable keeps its type (DirectApi as a whole).                   *)
THEOREM TypeCorrect == Spec => []TypeOK
<1>1. IInv => TypeOK
  BY DEF IInv
<1> QED
  BY <1>1, Invariance, PTL

(* Whatever replicas answer, clients are never told of more tickets than   *)
(* MAX_TICKETS nor of one seat twice (increment_unnumbered,                *)
(* set_numbered_seat), short of a reset in between.                        *)
THEOREM NeverSoldTwice == Spec => []NoDoubleSale
<1>1. ASSUME IInv
      PROVE  NoDoubleSale
  <2> DEFINE Told == {c \in Purchase : Confirmed(c) /\ OrderOf[c].type = "unnumbered"}
  <2>1. Told \subseteq buyers
    BY <1>1 DEF IInv, SalesBacked, Confirmed, Holders
  <2>2. IsFiniteSet(buyers)
    BY <1>1, FS_Subset DEF IInv, TypeOK, BackendTypeOK
  <2>3. Cardinality(Told) <= Cardinality(buyers) /\ Cardinality(Told) \in Nat
        /\ Cardinality(buyers) \in Nat
    BY <2>1, <2>2, FS_Subset, FS_CardinalityType
  <2>4. Cardinality(Told) <= MaxTickets
    BY <1>1, <2>3 DEF IInv, StoreOK, TypeOK, BackendTypeOK
  <2>5. ASSUME NEW c \in Purchase, NEW d \in Purchase,
               Confirmed(c), OrderOf[c].type = "numbered",
               Confirmed(d), OrderOf[d].type = "numbered",
               OrderOf[c].seat = OrderOf[d].seat
        PROVE  c = d
    BY <1>1, <2>5 DEF IInv, SalesBacked, Confirmed, Holders
  <2> QED
    BY <2>4, <2>5 DEF NoDoubleSale
<1> QED
  BY <1>1, Invariance, PTL

(* Who got a ticket is told so, or lost a reply or the replica             *)
(* (buy_ticket).                                                           *)
THEOREM NoSaleIsSilent == Spec => []NoSilentSale
<1>1. IInv => NoSilentSale
  BY DEF IInv, SalesTold, NoSilentSale
<1> QED
  BY <1>1, Invariance, PTL

(* One replica answers a request id for good only once while it remembers  *)
(* it (processed_requests).                                                *)
THEOREM IdempotentPerReplica == Spec => []SameReplicaIdempotent
<1>1. IInv => SameReplicaIdempotent
  BY DEF IInv
<1> QED
  BY <1>1, Invariance, PTL

(* What a replica answers as a duplicate repeats the seat it answered for  *)
(* the request id before (buy_ticket).                                     *)
THEOREM DuplicatesAreGenuine == Spec => []DuplicateIsGenuine
<1>1. IInv => DuplicateIsGenuine
  BY DEF IInv
<1> QED
  BY <1>1, Invariance, PTL

-----------------------------------------------------------------------------
(* Action properties *)

(* processed_requests is only added to, between crashes and resets.        *)
THEOREM CacheNeverRewritten == Spec => CacheWriteOnce
<1>1. ASSUME IInv, [Next]_vars
      PROVE  CacheKept
  <2>1. ASSUME NEW r \in Process, NEW c \in Purchase, NEW resp \in Response,
               Remember(r, c, resp), ~Cached(r, c)
        PROVE  CacheKept
    BY <1>1, <2>1 DEF CacheKept, Remember, Cached, IInv, TypeOK, BackendTypeOK
  <2>2. CASE processed' = processed
    BY <2>2 DEF CacheKept
  <2>3. ASSUME NEW r \in Process, Forget(r), ~up'[r] \/ ResetReturns(r)
        PROVE  CacheKept
    BY <1>1, <2>3 DEF CacheKept, Forget, IInv, TypeOK, BackendTypeOK
  <2>4. ASSUME NEW r \in Process, NEW c \in Purchase, RefuseOutOfRange(r, c)
        PROVE  CacheKept
    BY <2>1, <2>4, ResponseTypes DEF RefuseOutOfRange
  <2>5. ASSUME NEW r \in Process, Finish(r)
        PROVE  CacheKept
    <3>1. serving[r] \in Purchase /\ ~Cached(r, serving[r])
      BY <1>1, <2>5 DEF IInv, TypeOK, ServingOK, Finish
    <3>2. Answer(serving[r], sold[r]) \in Response
      BY <1>1, <3>1, ResponseTypes DEF IInv, TypeOK
    <3> QED
      BY <2>1, <2>5, <3>1, <3>2 DEF Finish
  <2>6. ASSUME NEW r \in Process, FinishReset(r)
        PROVE  CacheKept
    <3>1. ResetReturns(r)
      BY <1>1, <2>6 DEF FinishReset, ResetReturns, boundVars, IInv, TypeOK, ServingOK
    <3> QED
      BY <2>3, <2>6, <3>1 DEF FinishReset
  <2>7. ASSUME NEW r \in Process, Crash(r)
        PROVE  CacheKept
    <3>1. ~up'[r]
      BY <1>1, <2>7 DEF Crash, IInv, TypeOK
    <3> QED
      BY <2>3, <2>7, <3>1 DEF Crash
  <2> QED
    BY <1>1, <2>2, <2>4, <2>5, <2>6, <2>7
       DEF Next, Handle, Fault, vars, Send, RejectMalformed, AnswerDuplicate, BeginPurchase,
           Execute, BeginReset, ResetCounter, ResetBatch, BreakConnection, BreakReset, Restart
<1> QED
  BY <1>1, Invariance, PTL DEF Spec, CacheWriteOnce

(* A reset that nothing disturbed leaves neither a sale nor, at its own    *)
(* replica, a cached response.                                             *)
LEMMA QuietResetStep ==
    ASSUME IInv, [Next]_vars
    PROVE  QuietlyCleared
<1> SUFFICES ASSUME NEW q \in Process, ResetReturns(q), quiet[q]
             PROVE  /\ count' = 0
                    /\ \A s \in Seats : owner'[s] = Nobody
                    /\ processed'[q] = EmptyCache
  BY DEF QuietlyCleared
<1>1. FinishReset(q)
  <2>1. pc[q] = "scan" /\ pc'[q] = "idle" /\ up'[q] /\ faults' = faults
    BY DEF ResetReturns
  <2>2. serving[q] = Nobody /\ pc \in [Process -> {"idle", "command", "reply", "del", "scan"}]
        /\ faults \in Nat /\ up \in [Process -> BOOLEAN]
    BY <2>1 DEF IInv, TypeOK, ServingOK
  <2>3. pc' # pc
    BY <2>1
  <2>4. \A r \in Process : ~BreakConnection(r) /\ ~BreakReset(r) /\ ~Crash(r)
    BY <2>1, <2>2 DEF BreakConnection, BreakReset, Crash
  <2>5. \A r \in Process, c \in Purchase :
           /\ ~Send(c, r) /\ ~RejectMalformed(r, c) /\ ~AnswerDuplicate(r, c)
           /\ ~RefuseOutOfRange(r, c) /\ ~BeginPurchase(r, c)
    BY <2>1, <2>2, <2>3 DEF Send, RejectMalformed, AnswerDuplicate, RefuseOutOfRange,
                            BeginPurchase, Ready, Respond, replicaVars
  <2>6. \A r \in Process : ~Execute(r) /\ ~Finish(r) /\ ~BeginReset(r)
                           /\ ~ResetCounter(r) /\ ~ResetBatch(r) /\ ~Restart(r)
    BY <2>1, <2>2, <2>3 DEF Execute, Finish, Respond, BeginReset, ResetCounter, ResetBatch,
                            Restart
  <2>7. PICK r \in Process : FinishReset(r)
    BY <2>3, <2>4, <2>5, <2>6 DEF Next, Handle, Fault, vars, replicaVars
  <2>8. r = q
    BY <2>1, <2>2, <2>7 DEF FinishReset
  <2> QED
    BY <2>7, <2>8
<1>2. PICK K \in SUBSET SoldSeats : todo[q] \subseteq K /\ DeleteSeats(K)
  BY <1>1 DEF FinishReset
<1>3. count = 0 /\ SoldSeats \subseteq K
  BY <1>1, <1>2 DEF FinishReset, IInv, QuietOK
<1>4. count' = 0 /\ \A s \in Seats : owner'[s] = Nobody
  BY <1>2, <1>3 DEF DeleteSeats, SoldSeats
<1>5. processed'[q] = EmptyCache
  BY <1>1 DEF FinishReset, Forget, IInv, TypeOK, BackendTypeOK
<1> QED
  BY <1>4, <1>5

(* A reset that answers with nothing bought meanwhile left Redis and its   *)
(* own replica as new (RedisBackend.reset, TicketManager.reset).           *)
THEOREM QuietResetIsComplete == Spec => QuietResetClears
  BY QuietResetStep, Invariance, PTL DEF Spec, QuietResetClears

-----------------------------------------------------------------------------
(* DirectApi implements TicketSale: each step of a replica, a fault or a   *)
(* reset is a step of the abstract sale or leaves it alone.                *)

(* What the stages of a call mean to the sale.                             *)
LEMMA Phases ==
    /\ \A status : PhaseOf("unsent", status) = "new"
    /\ \A status : PhaseOf("queued", status) = "asked" /\ PhaseOf("serving", status) = "asked"
    /\ PhaseOf("done", "success") = "confirmed"
    /\ \A status : status # "success" => PhaseOf("done", status) = "closed"
  BY DEF PhaseOf

(* The abstract sale starts as the replicas do.                            *)
LEMMA SaleInit == Init => Sale!Init
  BY Phases DEF Init, BackendInit, Sale!Init, SalePhase, Seats

(* Calls that keep their stage and outcome keep their phase.               *)
LEMMA SamePhase ==
    ASSUME UNCHANGED <<stage, outcome>>
    PROVE  SalePhase' = SalePhase
  BY DEF SalePhase

(* A call that waits or is handled has been asked for.                     *)
LEMMA PhaseAsked ==
    ASSUME NEW c \in Purchase, stage[c] \in {"queued", "serving"}
    PROVE  SalePhase[c] = "asked"
  BY Phases DEF SalePhase

(* A response is the step Confirm or Close of its call.                    *)
LEMMA RespondRefines ==
    ASSUME TypeOK, NEW r \in Process, NEW c \in Purchase, NEW resp \in Response,
           Respond(r, c, resp), UNCHANGED storeVars,
           stage[c] \in {"queued", "serving"},
           resp.status = "success" => Sale!Backed(c)
    PROVE  Sale!Next
<1>1. SalePhase' = [SalePhase EXCEPT ![c] =
                       IF resp.status = "success" THEN "confirmed" ELSE "closed"]
  BY Phases DEF SalePhase, Respond, TypeOK
<1>2. SalePhase[c] = "asked"
  BY PhaseAsked
<1>3. UNCHANGED <<count, buyers, owner, voided>>
  BY DEF storeVars
<1>4. CASE resp.status = "success"
  <2>1. Sale!Confirm(c)
    BY <1>1, <1>2, <1>3, <1>4 DEF Sale!Confirm
  <2> QED
    BY <2>1 DEF Sale!Next
<1>5. CASE resp.status # "success"
  <2>1. SalePhase' = [d \in Purchase |-> IF d \in {c} THEN "closed" ELSE SalePhase[d]]
    <3>1. SalePhase = [d \in Purchase |-> SalePhase[d]]
      BY DEF SalePhase
    <3> QED
      BY <1>1, <1>5, <3>1
  <2>2. Sale!Close({c})
    BY <1>2, <1>3, <2>1 DEF Sale!Close
  <2>3. {c} \in SUBSET Purchase
    OBVIOUS
  <2> QED
    BY <2>2, <2>3 DEF Sale!Next
<1> QED
  BY <1>4, <1>5

(* A Redis command sells a ticket or a seat of the sale, or nothing.       *)
LEMMA ExecuteRefines ==
    ASSUME TypeOK, ServingOK, NEW r \in Process, Execute(r)
    PROVE  Sale!Next \/ UNCHANGED Sale!saleVars
<1>1. PICK granted \in BOOLEAN : RunCommand(serving[r], granted)
  BY DEF Execute
<1>2. serving[r] \in Purchase /\ NeedsStore(serving[r]) /\ SalePhase[serving[r]] = "asked"
  BY PhaseAsked DEF Execute, ServingOK, TypeOK
<1>3. SalePhase' = SalePhase
  BY SamePhase DEF Execute, callVars
<1>4. CASE ~granted
  BY <1>1, <1>3, <1>4 DEF RunCommand, IncrBounded, SetSeatNX, Sale!saleVars
<1>5. CASE granted /\ OrderOf[serving[r]].type = "unnumbered"
  <2>1. Sale!SellTicket(serving[r])
    <3>1. count < MaxTickets /\ count' = count + 1
      <4>1. count + 1 <= MaxTickets /\ count' = count + 1
        BY <1>1, <1>5 DEF RunCommand, IncrBounded
      <4> QED
        BY <4>1 DEF TypeOK, BackendTypeOK
    <3> QED
      BY <1>1, <1>2, <1>3, <1>5, <3>1 DEF RunCommand, IncrBounded, Sale!SellTicket
  <2> QED
    BY <1>2, <2>1 DEF Sale!Next
<1>6. CASE granted /\ OrderOf[serving[r]].type # "unnumbered"
  <2>1. OrderOf[serving[r]].seat \in 1..LastSeat
    BY <1>2, <1>6 DEF NeedsStore, Seats
  <2>2. Sale!SellSeat(serving[r], OrderOf[serving[r]].seat)
    BY <1>1, <1>2, <1>3, <1>6 DEF RunCommand, SetSeatNX, Sale!SellSeat
  <2> QED
    BY <1>2, <2>1, <2>2 DEF Sale!Next
<1> QED
  BY <1>4, <1>5, <1>6

(* A batch of deletions withdraws the seats of their owners.               *)
LEMMA DeleteSeatsRefines ==
    ASSUME NEW K \in SUBSET SoldSeats, DeleteSeats(K), UNCHANGED <<stage, outcome>>
    PROVE  Sale!Next
<1>1. SalePhase' = SalePhase
  BY SamePhase
<1>2. {owner[s] : s \in K} = {owner[s] : s \in K} \ {Nobody}
  BY DEF SoldSeats
<1>3. K \in SUBSET (1..LastSeat)
  BY DEF SoldSeats, Seats
<1>4. Sale!WithdrawSeats(K)
  BY <1>1, <1>2 DEF DeleteSeats, Sale!WithdrawSeats, Seats
<1> QED
  BY <1>3, <1>4 DEF Sale!Next

(* A crash closes the calls it cuts off.                                   *)
LEMMA CrashRefines ==
    ASSUME TypeOK, CallsOK, NEW r \in Process, Crash(r)
    PROVE  Sale!Next
<1> DEFINE cut == {c \in Purchase : at[c] = r /\ stage[c] \in {"queued", "serving"}}
<1>1. /\ stage' = [c \in Purchase |-> IF c \in cut THEN "done" ELSE stage[c]]
      /\ UNCHANGED <<count, buyers, owner, voided, outcome>>
  BY DEF Crash, storeVars
<1>2. \A c \in cut : outcome[c].status # "success"
  BY DEF CallsOK, NoResponse
<1>3. SalePhase' = [c \in Purchase |-> IF c \in cut THEN "closed" ELSE SalePhase[c]]
  <2>1. ASSUME NEW c \in Purchase
        PROVE  SalePhase'[c] = IF c \in cut THEN "closed" ELSE SalePhase[c]
    <3>1. CASE c \in cut
      <4>1. stage'[c] = "done" /\ outcome'[c].status # "success"
        BY <1>1, <1>2, <3>1
      <4> QED
        BY <3>1, <4>1, Phases DEF SalePhase
    <3>2. CASE c \notin cut
      <4>1. stage'[c] = stage[c] /\ outcome'[c] = outcome[c]
        BY <1>1, <3>2
      <4> QED
        BY <3>2, <4>1 DEF SalePhase
    <3> QED
      BY <3>1, <3>2
  <2>2. SalePhase' = [c \in Purchase |-> SalePhase'[c]]
    BY DEF SalePhase
  <2> QED
    BY <2>1, <2>2
<1>4. \A c \in cut : SalePhase[c] = "asked"
  BY PhaseAsked
<1>5. Sale!Close(cut)
  BY <1>1, <1>3, <1>4 DEF Sale!Close
<1> QED
  BY <1>5 DEF Sale!Next

(* Each step is a step of the sale or leaves it alone.                     *)
LEMMA SaleStep ==
    ASSUME IInv, [Next]_vars
    PROVE  Sale!Next \/ UNCHANGED Sale!saleVars
<1> USE DEF Sale!saleVars
<1>0. TypeOK /\ ServingOK /\ CallsOK
  BY DEF IInv
<1>1. ASSUME UNCHANGED <<count, buyers, owner, voided, stage, outcome>>
      PROVE  UNCHANGED Sale!saleVars
  BY <1>1, SamePhase
<1>2. CASE UNCHANGED vars
  BY <1>1, <1>2 DEF vars, storeVars, callVars
<1>3. ASSUME NEW r \in Process, NEW c \in Purchase, Send(c, r)
      PROVE  Sale!Next
  <2>1. /\ stage[c] = "unsent" /\ stage' = [stage EXCEPT ![c] = "queued"]
        /\ outcome' = outcome /\ UNCHANGED <<count, buyers, owner, voided>>
    BY <1>3 DEF Send, storeVars
  <2>2. SalePhase[c] = "new"
    BY <2>1, Phases DEF SalePhase
  <2>3. SalePhase' = [SalePhase EXCEPT ![c] = "asked"]
    <3>1. /\ stage'[c] = "queued"
          /\ \A d \in Purchase : d # c => stage'[d] = stage[d]
      BY <1>0, <2>1 DEF TypeOK
    <3>2. SalePhase' = [d \in Purchase |-> IF d = c THEN "asked" ELSE SalePhase[d]]
      BY <2>1, <3>1, Phases DEF SalePhase
    <3>3. SalePhase = [d \in Purchase |-> SalePhase[d]]
      BY DEF SalePhase
    <3> HIDE DEF SalePhase
    <3> QED
      BY <3>2, <3>3
  <2> QED
    BY <2>1, <2>2, <2>3 DEF Sale!Ask, Sale!Next
<1>4. ASSUME NEW r \in Process, NEW c \in Purchase,
             RejectMalformed(r, c) \/ AnswerDuplicate(r, c) \/ RefuseOutOfRange(r, c)
      PROVE  Sale!Next
  <2>1. stage[c] = "queued" /\ UNCHANGED storeVars
    BY <1>4 DEF RejectMalformed, AnswerDuplicate, RefuseOutOfRange, Ready
  <2>2. processed[r][OrderOf[c].id] \in Response
    BY <1>0 DEF TypeOK, BackendTypeOK
  <2>3. PICK resp \in Response : Respond(r, c, resp) /\ resp.status # "success"
    BY <1>4, <2>2, ResponseTypes
       DEF RejectMalformed, AnswerDuplicate, RefuseOutOfRange, DuplicateOf, Failure
  <2> QED
    BY <1>0, <2>1, <2>3, RespondRefines
<1>5. ASSUME NEW r \in Process, NEW c \in Purchase, BeginPurchase(r, c)
      PROVE  UNCHANGED Sale!saleVars
  <2>1. SalePhase' = SalePhase
    BY <1>0, <1>5, Phases DEF BeginPurchase, Ready, SalePhase, TypeOK
  <2> QED
    BY <1>5, <2>1 DEF BeginPurchase, storeVars
<1>6. ASSUME NEW r \in Process, Execute(r)
      PROVE  Sale!Next \/ UNCHANGED Sale!saleVars
  BY <1>0, <1>6, ExecuteRefines
<1>7. ASSUME NEW r \in Process, Finish(r)
      PROVE  Sale!Next
  <2>1. serving[r] \in Purchase /\ stage[serving[r]] = "serving" /\ UNCHANGED storeVars
    BY <1>0, <1>7 DEF Finish, ServingOK, TypeOK
  <2>2. Answer(serving[r], sold[r]) \in Response
    BY <1>0, <2>1, ResponseTypes DEF TypeOK
  <2>3. Answer(serving[r], sold[r]).status = "success" => sold[r]
    BY DEF Answer
  <2>4. sold[r] => Sale!Backed(serving[r])
    BY <2>1 DEF IInv, SalesBacked, Holders, Sale!Backed, Seats
  <2> QED
    BY <1>0, <1>7, <2>1, <2>2, <2>3, <2>4, RespondRefines DEF Finish
<1>8. ASSUME NEW r \in Process, ResetCounter(r)
      PROVE  Sale!Next
  <2>1. SalePhase' = SalePhase
    BY <1>8, SamePhase DEF ResetCounter, callVars
  <2> QED
    BY <1>8, <2>1 DEF ResetCounter, DeleteCounter, Sale!WithdrawTickets, Sale!Next
<1>9. ASSUME NEW r \in Process, ResetBatch(r) \/ FinishReset(r)
      PROVE  Sale!Next
  BY <1>9, DeleteSeatsRefines DEF ResetBatch, FinishReset, callVars
<1>10. ASSUME NEW r \in Process, BreakConnection(r)
       PROVE  Sale!Next \/ UNCHANGED Sale!saleVars
  <2>1. /\ serving[r] \in Purchase /\ stage[serving[r]] = "serving"
        /\ UNCHANGED storeVars
    BY <1>0, <1>10 DEF BreakConnection, ServingOK, TypeOK
  <2>2. CASE Respond(r, serving[r], [status |-> "error", seat |-> NoSeat])
    BY <1>0, <2>1, <2>2, ResponseTypes, RespondRefines
  <2>3. CASE UNCHANGED callVars
    BY <1>1, <2>1, <2>3 DEF callVars, storeVars
  <2> QED
    BY <1>10, <2>2, <2>3 DEF BreakConnection
<1>11. ASSUME NEW r \in Process, Crash(r)
       PROVE  Sale!Next
  BY <1>0, <1>11, CrashRefines
<1>12. ASSUME NEW r \in Process, BeginReset(r) \/ BreakReset(r) \/ Restart(r)
       PROVE  UNCHANGED Sale!saleVars
  BY <1>1, <1>12 DEF BeginReset, BreakReset, Restart, storeVars, callVars
<1> QED
  BY <1>2, <1>3, <1>4, <1>5, <1>6, <1>7, <1>8, <1>9, <1>10, <1>11, <1>12
     DEF Next, Handle, Fault

(* Every behaviour of the replicas is one of the abstract sale: what is    *)
(* sold is sold in one step between a request and its answer, and only     *)
(* what was sold is confirmed.                                             *)
THEOREM Implementation == Spec => ImplementsSale
  BY SaleInit, SaleStep, Invariance, PTL DEF Spec, Sale!Spec, ImplementsSale
=============================================================================
