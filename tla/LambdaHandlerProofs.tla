------------------------ MODULE LambdaHandlerProofs ------------------------
(***************************************************************************)
(* Theorems of LambdaHandler, for any set of environments, any records and *)
(* request ids, any stock and any number of deliveries: at most one        *)
(* processing of a request id sells, the counter and the seats agree with  *)
(* the rows, and the tables and the handler implement TicketSale.          *)
(*                                                                         *)
(* The heart of the invariant is what PostgreSQL keeps apart while several *)
(* transactions are open: CounterHeld for the row lock of the counter and  *)
(* Isolated for the two unique indexes.                                    *)
(***************************************************************************)
EXTENDS LambdaHandler, FiniteSetTheorems, TLAPS

-----------------------------------------------------------------------------
(* The inductive invariant                                                 *)

(* A record is in one batch at most, and in flight while it is in one.     *)
BatchesOK == /\ \A e \in Env : \A m \in Members(e) : place[m] = "inflight"
             /\ \A e, f \in Env : e # f => Members(e) \cap Members(f) = {}

(* What an environment has in hand at each statement.                      *)
Drafted(e) == /\ draft[e] = RowOf(e, result[e])
              /\ result[e] \in {"success", "oversold", "seat_taken"}

EnvOK(e) ==
    /\ pc[e] # "idle" => /\ next[e] <= Len(batch[e]) /\ job[e] = Current(e)
                         /\ Type(e) # "unparsable"
    /\ pc[e] \in {"select", "update", "lock", "insert", "commit"} => ~Invalid(job[e])
    /\ pc[e] = "update" => Type(e) = "unnumbered"
    /\ pc[e] = "lock" => Type(e) = "numbered"
    /\ pc[e] \in {"select", "update", "lock"} => draft[e] = NoRow
    /\ pc[e] = "insert" => Drafted(e)
    /\ pc[e] = "commit" => \/ Drafted(e)
                           \/ /\ draft[e] = NoRow /\ result[e] \in {"duplicate", "seat_taken"}
                              /\ rows[Id(e)] # NoRow
    /\ pc[e] = "return" => \/ Invalid(job[e]) /\ result[e] = "error"
                           \/ ~Invalid(job[e]) /\ rows[Id(e)] # NoRow

EnvsOK == \A e \in Env : EnvOK(e)

(* The row lock: one transaction at a time counts a ticket, while there is *)
(* one left.                                                               *)
CounterHeld ==
    \A e \in Env : HoldsCounter(e) =>
        /\ sold < MaxUnnumbered
        /\ \A f \in Env \ {e} : ~HoldsCounter(f)

(* The unique indexes: what is inserted and not committed collides neither *)
(* with a committed row nor with what another transaction inserted.        *)
Free(e) == \A i \in Ids : rows[i] # NoRow => ~Collides(draft[e], Id(e), rows[i], i)

Apart(e, f) == ~Collides(draft[e], Id(e), draft[f], Id(f))

Isolated ==
    \A e \in Env : Uncommitted(e) =>
        /\ Free(e)
        /\ \A f \in Env \ {e} : Uncommitted(f) => Apart(e, f)

(* A sale that is about to be told was told to nobody yet.                 *)
SaleUntold ==
    \A e \in Env : pc[e] = "return" /\ result[e] = "success" =>
        /\ rows[Id(e)] = RowOf(e, "success")
        /\ \A n \in Record : OrderOf[n].id = Id(e) => told[n] = 0

(* A record that was not sent was not told of.                             *)
UnsentUntold == \A m \in Record : place[m] = "unsent" => told[m] = 0

(* The records of a batch the handler is past have a verdict.              *)
Verdicts == {m \in Record : Invalid(m) \/ rows[OrderOf[m].id] # NoRow}

PassedDecided ==
    \A e \in Env :
        /\ batch[e] = <<>> => next[e] = 1
        /\ \A k \in 1..Len(batch[e]) : k < next[e] => batch[e][k] \in Verdicts

(* The rows the counter counts.                                            *)
Counted == {i \in Ids : rows[i].status = "success" /\ rows[i].type = "unnumbered"}

HandlerInv == /\ TypeOK /\ BatchesOK /\ EnvsOK
              /\ CounterHeld /\ IsFiniteSet(Counted) /\ CounterMatchesRows
              /\ Isolated /\ SeatSoldOnce
              /\ SaleUntold /\ SoldToOneRecord /\ UnsentUntold
              /\ PassedDecided /\ DeletedIsDecided

-----------------------------------------------------------------------------
USE TicketLimitsAssumption, RecordAssumption, RequestAssumption, SeatNumberAssumption,
    InvocationAssumption

(* The actions of Next, one by one.                                        *)
LEMMA NextCases ==
    ASSUME Next
    PROVE  \/ \E m \in Record : Arrive(m) \/ DeadLetter(m)
           \/ \E e \in Env : \/ Invoke(e) \/ Unparsable(e) \/ BeginRecord(e)
                             \/ SelectRequest(e) /\ UNCHANGED handlerVars
                             \/ UpdateCounter(e) /\ UNCHANGED handlerVars
                             \/ LockSeat(e) /\ UNCHANGED handlerVars
                             \/ Insert(e) /\ UNCHANGED handlerVars
                             \/ SkipInsert(e) /\ UNCHANGED handlerVars
                             \/ Commit(e) /\ UNCHANGED handlerVars
                             \/ EndRecord(e) \/ RaiseViolation(e) \/ FinishBatch(e)
                             \/ Interrupt(e)
  BY DEF Next, Run, RunStatement, Statement

(* A batch is a sequence of records.                                       *)
LEMMA BatchTypes ==
    /\ <<>> \in BoundedSeq(Record, BatchSize)
    /\ \A b \in BoundedSeq(Record, BatchSize) : b \in Seq(Record) /\ Len(b) \in 0..BatchSize
<1>1. <<>> \in BoundedSeq(Record, BatchSize)
  <2>1. <<>> \in [1..0 -> Record]
    OBVIOUS
  <2>2. 0 \in 0..BatchSize
    OBVIOUS
  <2> QED
    BY <2>1, <2>2 DEF BoundedSeq, SeqOf
<1>2. ASSUME NEW b \in BoundedSeq(Record, BatchSize)
      PROVE  b \in Seq(Record) /\ Len(b) \in 0..BatchSize
  <2>1. PICK n \in 0..BatchSize : b \in [1..n -> Record]
    BY <1>2 DEF BoundedSeq, SeqOf
  <2> QED
    BY <2>1
<1> QED
  BY <1>1, <1>2

(* So what is in it is records.                                            *)
LEMMA MembersAreRecords ==
    ASSUME TypeOK, NEW e \in Env
    PROVE  Members(e) \in SUBSET Record
<1>1. batch[e] \in Seq(Record)
  BY BatchTypes DEF TypeOK
<1> QED
  BY <1>1 DEF Members

(* What SQS hands over is a batch of exactly the records of M.             *)
LEMMA HandedOver ==
    ASSUME NEW M \in SUBSET Record, Cardinality(M) <= BatchSize, NEW b \in SetToSeqs(M)
    PROVE  b \in BoundedSeq(Record, BatchSize) /\ \A k \in 1..Len(b) : b[k] \in M
<1>1. IsFiniteSet(M) /\ Cardinality(M) \in Nat
  BY FS_Subset, FS_CardinalityType
<1>2. b \in [1..Cardinality(M) -> M]
  BY DEF SetToSeqs
<1>3. b \in [1..Cardinality(M) -> Record] /\ Cardinality(M) \in 0..BatchSize
  BY <1>1, <1>2
<1> QED
  BY <1>1, <1>2, <1>3 DEF BoundedSeq, SeqOf

(* An environment that is not idle processes a record.                     *)
LEMMA JobFacts ==
    ASSUME TypeOK, EnvsOK, NEW e \in Env, pc[e] # "idle"
    PROVE  /\ job[e] \in Record /\ Id(e) \in Ids /\ job[e] \in Members(e)
           /\ job[e] = batch[e][next[e]] /\ next[e] \in 1..Len(batch[e])
           /\ Type(e) \in {"unnumbered", "numbered", "unknown"}
<1>1. /\ next[e] \in 1..Len(batch[e]) /\ job[e] = batch[e][next[e]]
      /\ Type(e) # "unparsable" /\ batch[e] \in Seq(Record)
  BY BatchTypes DEF TypeOK, EnvsOK, EnvOK, Current
<1>2. job[e] \in Record
  BY <1>1
<1> QED
  BY <1>1, <1>2 DEF Id, Type, Members

(* The row of a valid record is a row.                                     *)
LEMMA RowTypes ==
    ASSUME TypeOK, EnvsOK, NEW e \in Env, pc[e] # "idle", ~Invalid(job[e]),
           NEW status \in {"success", "oversold", "seat_taken"}
    PROVE  /\ RowOf(e, status) \in Row /\ RowOf(e, status) # NoRow
           /\ Type(e) \in {"unnumbered", "numbered"}
           /\ Type(e) = "numbered" => Seat(e) \in Seats
<1>1. job[e] \in Record /\ Type(e) \in {"unnumbered", "numbered", "unknown"}
  BY JobFacts
<1>2. Type(e) # "unknown" /\ (Type(e) = "numbered" => Seat(e) \in Seats)
  BY DEF Invalid, Type, Seat
<1> QED
  BY <1>1, <1>2 DEF RowOf, Row, NoRow

-----------------------------------------------------------------------------
(* Every variable keeps its type.                                          *)
LEMMA TypeInit == Init => TypeOK
  BY BatchTypes DEF Init, TablesInit, TypeOK, TablesTypeOK, NoRow

(* A failing invocation leaves the types alone.                            *)
LEMMA FailTypes ==
    ASSUME TypeOK, NEW e \in Env, Fail(e), faults' \in 0..MaxFaults
    PROVE  TypeOK'
<1>1. place' \in [Record -> {"unsent", "queued", "inflight", "deleted", "dead"}]
  BY DEF Fail, Move, TypeOK
<1>2. batch' \in [Env -> BoundedSeq(Record, BatchSize)]
  BY BatchTypes DEF Fail, TypeOK
<1>3. next' \in [Env -> 1..BatchSize + 1]
  BY DEF Fail, TypeOK
<1> QED
  BY <1>1, <1>2, <1>3 DEF Fail, Discard, TypeOK, TablesTypeOK, tableVars

(* Every action keeps the types; COMMIT counts no ticket there is not.     *)
LEMMA TypeStep ==
    ASSUME TypeOK, EnvsOK, CounterHeld, Next
    PROVE  TypeOK'
<1>0. ASSUME NEW e \in Env, pc[e] # "idle"
      PROVE  job[e] \in Record /\ Id(e) \in Ids /\ next[e] + 1 \in 1..BatchSize + 1
  <2>1. next[e] \in 1..Len(batch[e]) /\ Len(batch[e]) \in 0..BatchSize
    BY <1>0, JobFacts, BatchTypes DEF TypeOK
  <2> QED
    BY <1>0, <2>1, JobFacts
<1> USE DEF TypeOK
<1>1. ASSUME NEW m \in Record, Arrive(m) \/ DeadLetter(m)
      PROVE  TypeOK'
  BY <1>1 DEF Arrive, DeadLetter, Move, TablesTypeOK, tableVars, txVars
<1>2. ASSUME NEW e \in Env, Invoke(e)
      PROVE  TypeOK'
  <2>1. PICK M \in SUBSET {m \in Record : place[m] = "queued" /\ receives[m] < MaxReceives} :
          /\ Cardinality(M) <= BatchSize
          /\ \E b \in SetToSeqs(M) : batch' = [batch EXCEPT ![e] = b]
          /\ Move(M, "inflight")
          /\ receives' = [m \in Record |-> IF m \in M THEN receives[m] + 1 ELSE receives[m]]
    BY <1>2 DEF Invoke
  <2>2. batch' \in [Env -> BoundedSeq(Record, BatchSize)]
    <3>1. PICK b \in SetToSeqs(M) : batch' = [batch EXCEPT ![e] = b]
      BY <2>1
    <3>2. b \in BoundedSeq(Record, BatchSize)
      BY <2>1, HandedOver
    <3> QED
      BY <3>1, <3>2
  <2>3. place' \in [Record -> {"unsent", "queued", "inflight", "deleted", "dead"}]
    BY <2>1 DEF Move
  <2>4. receives' \in [Record -> 0..MaxReceives]
    BY <2>1
  <2> QED
    BY <1>2, <2>2, <2>3, <2>4 DEF Invoke, TablesTypeOK, tableVars, txVars
<1>3. ASSUME NEW e \in Env, Unparsable(e) \/ RaiseViolation(e) \/ Interrupt(e)
      PROVE  TypeOK'
  <2>1. Fail(e) /\ faults' \in 0..MaxFaults
    BY <1>3 DEF Unparsable, RaiseViolation, Interrupt
  <2> QED
    BY <2>1, FailTypes
<1>4. ASSUME NEW e \in Env, BeginRecord(e)
      PROVE  TypeOK'
  <2>1. Current(e) \in Record
    BY <1>4, BatchTypes DEF BeginRecord, Current
  <2> QED
    BY <1>4, <2>1 DEF BeginRecord, Process, TablesTypeOK, tableVars, handlerVars
<1>5. ASSUME NEW e \in Env, SelectRequest(e), UNCHANGED handlerVars
      PROVE  TypeOK'
  BY <1>5 DEF SelectRequest, TablesTypeOK, tableVars, handlerVars
<1>6. ASSUME NEW e \in Env, UpdateCounter(e) \/ LockSeat(e), UNCHANGED handlerVars
      PROVE  TypeOK'
  <2>1. PICK status \in {"success", "oversold", "seat_taken"} :
          Draft(e, status) /\ UNCHANGED <<tableVars, job>>
    BY <1>6 DEF UpdateCounter, LockSeat
  <2>2. RowOf(e, status) \in Row
    BY <1>6, RowTypes DEF UpdateCounter, LockSeat, EnvsOK, EnvOK
  <2> QED
    BY <1>6, <2>1, <2>2 DEF Draft, TablesTypeOK, tableVars, handlerVars
<1>7. ASSUME NEW e \in Env, Insert(e) \/ SkipInsert(e), UNCHANGED handlerVars
      PROVE  TypeOK'
  BY <1>7 DEF Insert, SkipInsert, TablesTypeOK, tableVars, handlerVars
<1>8. ASSUME NEW e \in Env, Commit(e), UNCHANGED handlerVars
      PROVE  TypeOK'
  <2>1. Id(e) \in Ids
    BY <1>0, <1>8 DEF Commit
  <2>2. rows' \in [Ids -> Row \cup {NoRow}]
    BY <1>8, <2>1 DEF Commit, TablesTypeOK
  <2>3. sold' \in 0..MaxUnnumbered
    BY <1>8 DEF Commit, TablesTypeOK, CounterHeld
  <2> QED
    BY <1>8, <2>2, <2>3 DEF Commit, TablesTypeOK, handlerVars
<1>9. ASSUME NEW e \in Env, EndRecord(e)
      PROVE  TypeOK'
  <2>1. job[e] \in Record /\ next[e] + 1 \in 1..BatchSize + 1
    BY <1>0, <1>9 DEF EndRecord
  <2>2. next' \in [Env -> 1..BatchSize + 1]
    BY <1>9, <2>1 DEF EndRecord
  <2>3. told' \in [Record -> Nat]
    BY <1>9, <2>1 DEF EndRecord
  <2> QED
    BY <1>9, <2>2, <2>3 DEF EndRecord, Discard, TablesTypeOK, tableVars
<1>10. ASSUME NEW e \in Env, FinishBatch(e)
       PROVE  TypeOK'
  <2>1. place' \in [Record -> {"unsent", "queued", "inflight", "deleted", "dead"}]
    BY <1>10 DEF FinishBatch, Move
  <2>2. batch' \in [Env -> BoundedSeq(Record, BatchSize)] /\ next' \in [Env -> 1..BatchSize + 1]
    BY <1>10, BatchTypes DEF FinishBatch
  <2> QED
    BY <1>10, <2>1, <2>2 DEF FinishBatch, TablesTypeOK, tableVars, txVars
<1> QED
  BY NextCases, <1>1, <1>2, <1>3, <1>4, <1>5, <1>6, <1>7, <1>8, <1>9, <1>10

-----------------------------------------------------------------------------
(* What a step leaves alone                                                *)

(* An environment that keeps its batch and its transaction.                *)
Stays(f) == /\ pc'[f] = pc[f] /\ job'[f] = job[f]
            /\ draft'[f] = draft[f] /\ result'[f] = result[f]
            /\ batch'[f] = batch[f] /\ next'[f] = next[f]

(* No step of one environment touches another.                             *)
LEMMA OthersStay ==
    ASSUME TypeOK, NEW e \in Env, Run(e) \/ Interrupt(e), NEW f \in Env \ {e}
    PROVE  Stays(f)
<1> USE DEF TypeOK, TablesTypeOK, Stays
<1>1. CASE Invoke(e) \/ FinishBatch(e)
  BY <1>1 DEF Invoke, FinishBatch, txVars
<1>2. CASE Unparsable(e) \/ RaiseViolation(e) \/ Interrupt(e)
  BY <1>2 DEF Unparsable, RaiseViolation, Interrupt, Fail, Discard
<1>3. CASE BeginRecord(e) \/ EndRecord(e)
  BY <1>3 DEF BeginRecord, EndRecord, Process, Discard, handlerVars
<1>4. CASE RunStatement(e)
  BY <1>4 DEF RunStatement, Statement, SelectRequest, UpdateCounter, LockSeat, Insert, Draft,
              SkipInsert, Commit, handlerVars
<1> QED
  BY <1>1, <1>2, <1>3, <1>4 DEF Run

(* SQS alone touches no environment and no table.                          *)
LEMMA SqsStays ==
    ASSUME NEW m \in Record, Arrive(m) \/ DeadLetter(m)
    PROVE  /\ \A f \in Env : Stays(f)
           /\ rows' = rows /\ sold' = sold /\ told' = told
  BY DEF Arrive, DeadLetter, Stays, tableVars, txVars

(* Only COMMIT writes the tables.                                          *)
LEMMA OnlyCommitWrites ==
    ASSUME NEW e \in Env, Run(e) \/ Interrupt(e), ~Commit(e)
    PROVE  rows' = rows /\ sold' = sold
  BY DEF Run, Interrupt, Invoke, FinishBatch, Unparsable, RaiseViolation, Fail, BeginRecord,
         EndRecord, RunStatement, Statement, SelectRequest, UpdateCounter, LockSeat, Insert,
         SkipInsert, tableVars

(* What COMMIT writes: the drafted row where there was none, or nothing.   *)
LEMMA CommitWrites ==
    ASSUME TypeOK, EnvsOK, Isolated, NEW e \in Env, Commit(e)
    PROVE  /\ pc[e] = "commit" /\ job[e] \in Record /\ Id(e) \in Ids
           /\ ~Invalid(job[e]) /\ Type(e) \in {"unnumbered", "numbered"}
           /\ \/ /\ draft[e] = NoRow /\ rows' = rows /\ rows[Id(e)] # NoRow
                 /\ result[e] # "success"
              \/ /\ Drafted(e) /\ draft[e] # NoRow /\ Uncommitted(e)
                 /\ rows[Id(e)] = NoRow /\ rows' = [rows EXCEPT ![Id(e)] = draft[e]]
           /\ rows'[Id(e)] # NoRow
<1>1. pc[e] = "commit"
  BY DEF Commit
<1>2. job[e] \in Record /\ Id(e) \in Ids
  BY <1>1, JobFacts
<1>3. ~Invalid(job[e])
  BY <1>1 DEF EnvsOK, EnvOK
<1>4. Type(e) \in {"unnumbered", "numbered"}
  BY <1>1, <1>3, RowTypes
<1>5. CASE draft[e] = NoRow
  <2>1. \/ result[e] # "success" /\ rows[Id(e)] # NoRow
        \/ Drafted(e)
    BY <1>1 DEF EnvsOK, EnvOK
  <2>2. ~Drafted(e)
    <3>1. ASSUME NEW status \in {"success", "oversold", "seat_taken"}
          PROVE  RowOf(e, status) # NoRow
      BY <1>1, <1>3, RowTypes
    <3> QED
      BY <1>5, <3>1 DEF Drafted
  <2> QED
    BY <1>1, <1>2, <1>3, <1>4, <1>5, <2>1, <2>2 DEF Commit
<1>6. CASE draft[e] # NoRow
  <2>1. Drafted(e) /\ Uncommitted(e)
    BY <1>1, <1>6 DEF EnvsOK, EnvOK, Uncommitted
  <2>2. rows[Id(e)] = NoRow
    BY <1>2, <2>1 DEF Isolated, Free, Collides
  <2>3. rows' = [rows EXCEPT ![Id(e)] = draft[e]]
    BY <1>6 DEF Commit
  <2>4. rows'[Id(e)] = draft[e]
    BY <1>2, <2>3 DEF TypeOK, TablesTypeOK
  <2> QED
    BY <1>1, <1>2, <1>3, <1>4, <1>6, <2>1, <2>2, <2>3, <2>4
<1> QED
  BY <1>5, <1>6

(* A row is written once.                                                  *)
LEMMA RowsStay ==
    ASSUME TypeOK, EnvsOK, Isolated, Next
    PROVE  \A i \in Ids : rows[i] # NoRow => rows'[i] = rows[i]
<1>1. ASSUME NEW m \in Record, Arrive(m) \/ DeadLetter(m)
      PROVE  rows' = rows
  BY <1>1, SqsStays
<1>2. ASSUME NEW e \in Env, Commit(e)
      PROVE  \A i \in Ids : rows[i] # NoRow => rows'[i] = rows[i]
  BY <1>2, CommitWrites DEF TypeOK, TablesTypeOK
<1>3. ASSUME NEW e \in Env, Run(e) \/ Interrupt(e), ~Commit(e)
      PROVE  rows' = rows
  BY <1>3, OnlyCommitWrites
<1> QED
  BY <1>1, <1>2, <1>3 DEF Next

-----------------------------------------------------------------------------
(* Batches                                                                 *)

(* A batch that is over leaves its environment empty-handed, and every     *)
(* other batch where it was.                                               *)
LEMMA BatchOver ==
    ASSUME TypeOK, BatchesOK, NEW e \in Env, NEW to, Move(Members(e), to),
           batch' = [batch EXCEPT ![e] = <<>>]
    PROVE  BatchesOK'
<1>1. Members(e)' = {}
  BY DEF Members, TypeOK
<1>2. \A f \in Env \ {e} : Members(f)' = Members(f)
  BY DEF Members, TypeOK
<1>3. ASSUME NEW f \in Env, NEW m \in Members(f)'
      PROVE  place'[m] = "inflight"
  <2>1. f # e /\ m \in Members(f) /\ m \notin Members(e)
    BY <1>1, <1>2, <1>3 DEF BatchesOK
  <2>2. m \in Record
    BY <2>1, MembersAreRecords
  <2> QED
    BY <2>1, <2>2 DEF Move, BatchesOK
<1>4. ASSUME NEW f \in Env, NEW g \in Env, f # g
      PROVE  Members(f)' \cap Members(g)' = {}
  BY <1>1, <1>2, <1>4 DEF BatchesOK
<1> QED
  BY <1>3, <1>4 DEF BatchesOK

(* No record gets into two batches.                                        *)
LEMMA BatchesStep ==
    ASSUME TypeOK, BatchesOK, Next
    PROVE  BatchesOK'
<1>1. ASSUME NEW m \in Record, Arrive(m) \/ DeadLetter(m)
      PROVE  BatchesOK'
  <2>1. batch' = batch /\ place[m] # "inflight"
        /\ \A n \in Record \ {m} : place'[n] = place[n]
    BY <1>1 DEF Arrive, DeadLetter, Move
  <2>2. \A e \in Env : Members(e)' = Members(e) /\ Members(e) \in SUBSET Record
    BY <2>1, MembersAreRecords DEF Members
  <2> QED
    BY <2>1, <2>2 DEF BatchesOK
<1>2. ASSUME NEW e \in Env, Invoke(e)
      PROVE  BatchesOK'
  <2>1. PICK M \in SUBSET {m \in Record : place[m] = "queued" /\ receives[m] < MaxReceives} :
          /\ Cardinality(M) <= BatchSize
          /\ \E b \in SetToSeqs(M) : batch' = [batch EXCEPT ![e] = b]
          /\ Move(M, "inflight")
    BY <1>2 DEF Invoke
  <2>2. PICK b \in SetToSeqs(M) : batch' = [batch EXCEPT ![e] = b]
    BY <2>1
  <2>3. M \in SUBSET Record /\ \A k \in 1..Len(b) : b[k] \in M
    BY <2>1, HandedOver
  <2>4. Members(e)' \in SUBSET M
    BY <2>2, <2>3 DEF Members, TypeOK
  <2>5. \A f \in Env \ {e} : Members(f)' = Members(f)
    BY <2>2 DEF Members, TypeOK
  <2>6. \A f \in Env : \A m \in Members(f) : m \in Record /\ m \notin M
    BY <2>1, MembersAreRecords DEF BatchesOK
  <2>7. \A m \in Record : place'[m] = IF m \in M THEN "inflight" ELSE place[m]
    BY <2>1 DEF Move
  <2>8. ASSUME NEW f \in Env, NEW m \in Members(f)'
        PROVE  place'[m] = "inflight"
    <3>1. CASE f = e
      BY <2>3, <2>4, <2>7, <2>8, <3>1
    <3>2. CASE f # e
      BY <2>5, <2>6, <2>7, <2>8, <3>2 DEF BatchesOK
    <3> QED
      BY <3>1, <3>2
  <2>9. ASSUME NEW f \in Env, NEW g \in Env, f # g
        PROVE  Members(f)' \cap Members(g)' = {}
    BY <2>4, <2>5, <2>6, <2>9 DEF BatchesOK
  <2> QED
    BY <2>8, <2>9 DEF BatchesOK
<1>3. ASSUME NEW e \in Env, Unparsable(e) \/ RaiseViolation(e) \/ Interrupt(e)
      PROVE  BatchesOK'
  BY <1>3, BatchOver DEF Unparsable, RaiseViolation, Interrupt, Fail
<1>4. ASSUME NEW e \in Env, FinishBatch(e)
      PROVE  BatchesOK'
  BY <1>4, BatchOver DEF FinishBatch
<1>5. CASE batch' = batch /\ place' = place
  <2>1. \A e \in Env : Members(e)' = Members(e)
    BY <1>5 DEF Members
  <2> QED
    BY <1>5, <2>1 DEF BatchesOK
<1>6. ASSUME NEW e \in Env, BeginRecord(e) \/ RunStatement(e) \/ EndRecord(e)
      PROVE  batch' = batch /\ place' = place
  BY <1>6 DEF BeginRecord, RunStatement, EndRecord, handlerVars
<1> QED
  BY <1>1, <1>2, <1>3, <1>4, <1>5, <1>6 DEF Next, Run

-----------------------------------------------------------------------------
(* Environments                                                            *)

(* An environment that stays has in hand what it had.                      *)
LEMMA EnvStays ==
    ASSUME TypeOK, EnvsOK, NEW f \in Env, Stays(f),
           \A i \in Ids : rows[i] # NoRow => rows'[i] = rows[i]
    PROVE  EnvOK(f)'
<1>1. EnvOK(f)
  BY DEF EnvsOK
<1>2. Id(f)' = Id(f) /\ Type(f)' = Type(f) /\ Current(f)' = Current(f)
  BY DEF Id, Type, Current, Stays
<1>3. Drafted(f)' <=> Drafted(f)
  BY DEF Drafted, RowOf, Type, Seat, Stays
<1>4. pc[f] # "idle" /\ rows[Id(f)] # NoRow => rows'[Id(f)'] # NoRow
  BY <1>2, JobFacts
<1> QED
  BY <1>1, <1>2, <1>3, <1>4 DEF EnvOK, Stays

(* So has one whose transaction is over.                                   *)
LEMMA IdleOK ==
    ASSUME NEW e \in Env, pc'[e] = "idle"
    PROVE  EnvOK(e)'
  BY DEF EnvOK

(* Every statement leaves its environment what the next one needs.         *)
LEMMA EnvsStep ==
    ASSUME TypeOK, EnvsOK, Isolated, Next
    PROVE  EnvsOK'
<1>1. \A i \in Ids : rows[i] # NoRow => rows'[i] = rows[i]
  BY RowsStay
<1>2. ASSUME NEW m \in Record, Arrive(m) \/ DeadLetter(m)
      PROVE  EnvsOK'
  BY <1>1, <1>2, SqsStays, EnvStays DEF EnvsOK
<1>3. ASSUME NEW e \in Env, Run(e) \/ Interrupt(e), EnvOK(e)'
      PROVE  EnvsOK'
  BY <1>1, <1>3, OthersStay, EnvStays DEF EnvsOK
<1>4. ASSUME NEW e \in Env
      PROVE  EnvOK(e) /\ e \in DOMAIN pc /\ e \in DOMAIN job /\ e \in DOMAIN draft
             /\ e \in DOMAIN result /\ e \in DOMAIN batch /\ e \in DOMAIN next
  BY DEF EnvsOK, TypeOK, TablesTypeOK
<1>5. ASSUME NEW e \in Env, Invoke(e) \/ FinishBatch(e)
      PROVE  EnvOK(e)'
  <2>1. pc[e] = "idle"
    <3>1. CASE Invoke(e)
      <4>1. Len(batch[e]) = 0 /\ next[e] >= 1 /\ next[e] \in Nat
        BY <3>1 DEF Invoke, TypeOK
      <4> QED
        BY <1>4, <4>1 DEF EnvOK
    <3>2. CASE FinishBatch(e)
      <4>1. next[e] > Len(batch[e]) /\ next[e] \in Nat /\ Len(batch[e]) \in Nat
        BY <3>2, BatchTypes DEF FinishBatch, TypeOK
      <4> QED
        BY <1>4, <4>1 DEF EnvOK
    <3> QED
      BY <1>5, <3>1, <3>2
  <2> QED
    BY <1>5, <2>1, IdleOK DEF Invoke, FinishBatch, txVars
<1>6. ASSUME NEW e \in Env,
             Unparsable(e) \/ RaiseViolation(e) \/ Interrupt(e) \/ EndRecord(e)
      PROVE  EnvOK(e)'
  BY <1>4, <1>6, IdleOK DEF Unparsable, RaiseViolation, Interrupt, Fail, EndRecord, Discard
<1>7. ASSUME NEW e \in Env, BeginRecord(e)
      PROVE  EnvOK(e)'
  <2>1. /\ job'[e] = Current(e) /\ draft'[e] = NoRow
        /\ next' = next /\ batch' = batch
        /\ IF Invalid(Current(e)) THEN pc'[e] = "return" /\ result'[e] = "error"
                                  ELSE pc'[e] = "select"
        /\ next[e] <= Len(batch[e]) /\ OrderOf[Current(e)].type # "unparsable"
    BY <1>4, <1>7 DEF BeginRecord, Process, handlerVars
  <2> QED
    BY <2>1 DEF EnvOK, Type, Current
<1>8. ASSUME NEW e \in Env, RunStatement(e)
      PROVE  EnvOK(e)'
  <2>1. /\ job' = job /\ next' = next /\ batch' = batch
        /\ pc[e] # "idle" /\ ~Invalid(job[e]) /\ job[e] \in Record /\ Id(e) \in Ids
        /\ Type(e) \in {"unnumbered", "numbered"}
    <3>1. /\ job' = job /\ next' = next /\ batch' = batch
          /\ pc[e] \in {"select", "update", "lock", "insert", "commit"}
      BY <1>8 DEF RunStatement, Statement, SelectRequest, UpdateCounter, LockSeat, Insert,
                  SkipInsert, Commit, Ready, handlerVars
    <3>2. ~Invalid(job[e])
      BY <1>4, <3>1 DEF EnvOK
    <3> QED
      BY <3>1, <3>2, JobFacts, RowTypes
  <2>2. /\ Id(e)' = Id(e) /\ Type(e)' = Type(e) /\ Current(e)' = Current(e)
        /\ Invalid(job[e])' = Invalid(job[e])
        /\ \A status : RowOf(e, status)' = RowOf(e, status)
    BY <2>1 DEF Id, Type, Current, RowOf, Seat, Invalid
  <2>3. next[e] <= Len(batch[e]) /\ job[e] = Current(e) /\ Type(e) # "unparsable"
    BY <1>4, <2>1 DEF EnvOK
  <2>4. CASE SelectRequest(e)
    <3>1. draft'[e] = NoRow
      BY <1>4, <2>4 DEF SelectRequest, EnvOK
    <3>2. \/ /\ pc'[e] = "commit" /\ result'[e] = "duplicate" /\ rows'[Id(e)] # NoRow
          \/ pc'[e] = "update" /\ Type(e) = "unnumbered"
          \/ pc'[e] = "lock" /\ Type(e) = "numbered"
      BY <1>4, <2>1, <2>4 DEF SelectRequest, tableVars
    <3> QED
      BY <2>1, <2>2, <2>3, <3>1, <3>2 DEF EnvOK
  <2>5. CASE UpdateCounter(e) \/ LockSeat(e)
    <3>1. PICK status \in {"success", "oversold", "seat_taken"} : Draft(e, status)
      BY <2>5 DEF UpdateCounter, LockSeat
    <3>2. /\ pc'[e] = "insert" /\ result'[e] = status /\ draft'[e] = RowOf(e, status)
      BY <1>4, <3>1 DEF Draft
    <3>3. Drafted(e)'
      BY <2>1, <3>2 DEF Drafted, RowOf, Type, Seat
    <3> QED
      BY <2>1, <2>2, <2>3, <3>2, <3>3 DEF EnvOK
  <2>6. CASE Insert(e)
    <3>1. /\ pc[e] = "insert" /\ pc'[e] = "commit" /\ draft' = draft /\ result' = result
      BY <1>4, <2>6 DEF Insert, Ready
    <3>2. Drafted(e)'
      BY <1>4, <2>1, <3>1 DEF EnvOK, Drafted, RowOf, Type, Seat
    <3> QED
      BY <2>1, <2>2, <2>3, <3>1, <3>2 DEF EnvOK
  <2>7. CASE SkipInsert(e)
    <3>1. /\ pc[e] = "insert" /\ pc'[e] = "commit" /\ draft'[e] = NoRow /\ rows' = rows
          /\ result' = result /\ draft[e].status = "seat_taken" /\ Violates(e)
      BY <1>4, <2>7 DEF SkipInsert, Ready, tableVars
    <3>2. result[e] = "seat_taken"
      <4>1. draft[e] = RowOf(e, result[e])
        BY <1>4, <3>1 DEF EnvOK, Drafted
      <4>2. RowOf(e, result[e]).status = result[e]
        BY DEF RowOf
      <4> QED
        BY <3>1, <4>1, <4>2
    <3>3. rows[Id(e)] # NoRow
      BY <3>1 DEF Violates, Collides, SoldSeat
    <3> QED
      BY <2>1, <2>2, <2>3, <3>1, <3>2, <3>3 DEF EnvOK
  <2>8. CASE Commit(e)
    <3>1. pc'[e] = "return" /\ rows'[Id(e)] # NoRow
      BY <1>4, <2>8, CommitWrites DEF Commit
    <3> QED
      BY <2>1, <2>2, <2>3, <3>1 DEF EnvOK
  <2> QED
    BY <1>8, <2>4, <2>5, <2>6, <2>7, <2>8 DEF RunStatement, Statement
<1> QED
  BY <1>2, <1>3, <1>5, <1>6, <1>7, <1>8 DEF Next, Run

-----------------------------------------------------------------------------
(* The counter                                                             *)

(* A step that counts nothing and locks nothing new keeps the lock.        *)
LEMMA LockStays ==
    ASSUME CounterHeld, NEW e \in Env, \A f \in Env \ {e} : Stays(f), sold' = sold,
           HoldsCounter(e)' => HoldsCounter(e)
    PROVE  CounterHeld'
<1>1. \A f \in Env \ {e} : HoldsCounter(f)' <=> HoldsCounter(f)
  BY DEF HoldsCounter, Stays, Type
<1>2. \A f \in Env : HoldsCounter(f)' => HoldsCounter(f)
  BY <1>1
<1> QED
  BY <1>2 DEF CounterHeld

(* One transaction at a time holds the row lock of the counter.            *)
LEMMA LockStep ==
    ASSUME TypeOK, EnvsOK, CounterHeld, Next
    PROVE  CounterHeld'
<1>1. ASSUME NEW m \in Record, Arrive(m) \/ DeadLetter(m)
      PROVE  CounterHeld'
  <2>1. \A f \in Env : HoldsCounter(f)' = HoldsCounter(f)
    BY <1>1, SqsStays DEF HoldsCounter, Stays, Type
  <2>2. sold' = sold
    BY <1>1, SqsStays
  <2> QED
    BY <2>1, <2>2 DEF CounterHeld
<1>2. ASSUME NEW e \in Env, Run(e) \/ Interrupt(e), ~Commit(e),
             HoldsCounter(e)' => HoldsCounter(e)
      PROVE  CounterHeld'
  BY <1>2, OthersStay, OnlyCommitWrites, LockStays
<1>3. ASSUME NEW e \in Env
      PROVE  EnvOK(e) /\ e \in DOMAIN pc /\ e \in DOMAIN job /\ e \in DOMAIN draft
             /\ e \in DOMAIN result
  BY DEF EnvsOK, TypeOK, TablesTypeOK
<1>4. ASSUME NEW e \in Env, Commit(e), UNCHANGED handlerVars
      PROVE  CounterHeld'
  <2>1. ~HoldsCounter(e)'
    BY <1>3, <1>4 DEF Commit, HoldsCounter
  <2>2. \A f \in Env \ {e} : Stays(f)
    BY <1>4, OthersStay DEF Run, RunStatement, Statement
  <2>3. \A f \in Env \ {e} : HoldsCounter(f)' <=> HoldsCounter(f)
    BY <2>2 DEF HoldsCounter, Stays, Type
  <2>4. CASE HoldsCounter(e)
    <3>1. \A f \in Env : ~HoldsCounter(f)'
      BY <2>1, <2>3, <2>4 DEF CounterHeld
    <3> QED
      BY <3>1 DEF CounterHeld
  <2>5. CASE ~HoldsCounter(e)
    BY <1>4, <2>1, <2>2, <2>5, LockStays DEF Commit
  <2> QED
    BY <2>4, <2>5
<1>5. ASSUME NEW e \in Env, UpdateCounter(e), UNCHANGED handlerVars
      PROVE  CounterHeld'
  <2>1. \A f \in Env \ {e} : Stays(f)
    BY <1>5, OthersStay DEF Run, RunStatement, Statement
  <2>2. \A f \in Env \ {e} : ~HoldsCounter(f)'
    BY <1>5, <2>1 DEF UpdateCounter, HoldsCounter, Stays, Type
  <2>3. sold' = sold /\ (result'[e] = "success" => sold < MaxUnnumbered)
    BY <1>3, <1>5 DEF UpdateCounter, Draft, tableVars
  <2>4. HoldsCounter(e)' => sold' < MaxUnnumbered
    BY <2>3 DEF HoldsCounter
  <2> QED
    BY <2>2, <2>4 DEF CounterHeld
<1>6. ASSUME NEW e \in Env, LockSeat(e), UNCHANGED handlerVars
      PROVE  CounterHeld'
  <2>1. Type(e)' = "numbered" /\ ~Commit(e)
    BY <1>3, <1>6 DEF LockSeat, EnvOK, Type, Commit
  <2> QED
    BY <1>2, <1>6, <2>1 DEF Run, RunStatement, Statement, HoldsCounter
<1>7. ASSUME NEW e \in Env, Insert(e) \/ SkipInsert(e), UNCHANGED handlerVars
      PROVE  CounterHeld'
  <2>1. HoldsCounter(e)' => HoldsCounter(e)
    BY <1>7 DEF Insert, SkipInsert, Ready, HoldsCounter, Type
  <2>2. ~Commit(e)
    BY <1>7 DEF Insert, SkipInsert, Ready, Commit
  <2> QED
    BY <1>2, <1>7, <2>1, <2>2 DEF Run, RunStatement, Statement
<1>8. ASSUME NEW e \in Env, SelectRequest(e), UNCHANGED handlerVars
      PROVE  CounterHeld'
  <2>1. ~HoldsCounter(e)' /\ ~Commit(e)
    BY <1>3, <1>8 DEF SelectRequest, HoldsCounter, Commit
  <2> QED
    BY <1>2, <1>8, <2>1 DEF Run, RunStatement, Statement
<1>9. ASSUME NEW e \in Env, Invoke(e) \/ FinishBatch(e)
      PROVE  CounterHeld'
  <2>1. pc' = pc /\ job' = job /\ result' = result /\ sold' = sold
    BY <1>9 DEF Invoke, FinishBatch, txVars, tableVars
  <2>2. \A f \in Env : HoldsCounter(f)' = HoldsCounter(f)
    BY <2>1 DEF HoldsCounter, Type
  <2> QED
    BY <2>1, <2>2 DEF CounterHeld
<1>10. ASSUME NEW e \in Env, Unparsable(e) \/ RaiseViolation(e) \/ Interrupt(e)
                             \/ EndRecord(e) \/ BeginRecord(e)
       PROVE  CounterHeld'
  <2>1. pc'[e] \in {"idle", "select", "return"} /\ sold' = sold
    BY <1>3, <1>10 DEF Unparsable, RaiseViolation, Interrupt, Fail, Discard, EndRecord,
                       BeginRecord, Process, tableVars
  <2>2. ~HoldsCounter(e)'
    BY <2>1 DEF HoldsCounter
  <2>3. Run(e) \/ Interrupt(e)
    BY <1>10 DEF Run
  <2> QED
    BY <2>1, <2>2, <2>3, OthersStay, LockStays
<1> QED
  BY NextCases, <1>1, <1>4, <1>5, <1>6, <1>7, <1>8, <1>9, <1>10

(* The counter counts the rows: COMMIT of a counted ticket adds one row.   *)
LEMMA CountStep ==
    ASSUME TypeOK, EnvsOK, Isolated, IsFiniteSet(Counted), CounterMatchesRows, Next
    PROVE  IsFiniteSet(Counted)' /\ CounterMatchesRows'
<1>1. sold = Cardinality(Counted)
  BY DEF CounterMatchesRows, Counted
<1>2. ASSUME rows' = rows, sold' = sold
      PROVE  IsFiniteSet(Counted)' /\ CounterMatchesRows'
  <2>1. Counted' = Counted
    BY <1>2 DEF Counted
  <2>2. Cardinality(Counted') = Cardinality(Counted)
    BY <2>1
  <2> QED
    BY <1>1, <1>2, <2>1, <2>2 DEF CounterMatchesRows, Counted
<1>3. ASSUME NEW e \in Env, Commit(e)
      PROVE  IsFiniteSet(Counted)' /\ CounterMatchesRows'
  <2>1. /\ pc[e] = "commit" /\ Id(e) \in Ids
        /\ \/ rows' = rows /\ result[e] # "success"
           \/ /\ Drafted(e) /\ rows[Id(e)] = NoRow
              /\ rows' = [rows EXCEPT ![Id(e)] = draft[e]]
    BY <1>3, CommitWrites
  <2>2. CASE rows' = rows /\ result[e] # "success"
    <3>1. sold' = sold
      BY <1>3, <2>2 DEF Commit, HoldsCounter
    <3> QED
      BY <1>2, <2>2, <3>1
  <2>3. CASE /\ Drafted(e) /\ rows[Id(e)] = NoRow
             /\ rows' = [rows EXCEPT ![Id(e)] = draft[e]]
    <3>1. draft[e].status = result[e] /\ draft[e].type = Type(e)
      BY <2>3 DEF Drafted, RowOf
    <3>2. Id(e) \notin Counted
      BY <2>3 DEF Counted, NoRow
    <3>3. rows'[Id(e)] = draft[e] /\ \A i \in Ids \ {Id(e)} : rows'[i] = rows[i]
      BY <2>1, <2>3 DEF TypeOK, TablesTypeOK
    <3>4. CASE HoldsCounter(e)
      <4>1. Counted' = Counted \cup {Id(e)}
        BY <2>1, <3>1, <3>3, <3>4 DEF Counted, HoldsCounter
      <4>2. /\ IsFiniteSet(Counted \cup {Id(e)})
            /\ Cardinality(Counted \cup {Id(e)}) = Cardinality(Counted) + 1
        BY <3>2, FS_AddElement
      <4>3. sold' = sold + 1
        BY <1>3, <3>4 DEF Commit
      <4>4. Cardinality(Counted') = Cardinality(Counted) + 1
        BY <4>1, <4>2
      <4> QED
        BY <1>1, <4>1, <4>2, <4>3, <4>4 DEF CounterMatchesRows, Counted
    <3>5. CASE ~HoldsCounter(e)
      <4>1. Counted' = Counted
        BY <2>1, <3>1, <3>2, <3>3, <3>5 DEF Counted, HoldsCounter
      <4>2. sold' = sold
        BY <1>3, <3>5 DEF Commit
      <4>3. Cardinality(Counted') = Cardinality(Counted)
        BY <4>1
      <4> QED
        BY <1>1, <4>1, <4>2, <4>3 DEF CounterMatchesRows, Counted
    <3> QED
      BY <3>4, <3>5
  <2> QED
    BY <2>1, <2>2, <2>3
<1> QED
  BY <1>2, <1>3, SqsStays, OnlyCommitWrites DEF Next

-----------------------------------------------------------------------------
(* The unique indexes                                                      *)

(* Two rows collide or not, in whichever order they are compared.          *)
LEMMA CollidesBothWays ==
    ASSUME NEW row, NEW i, NEW other, NEW j, Collides(row, i, other, j)
    PROVE  Collides(other, j, row, i)
  BY DEF Collides

(* A step that writes no row and inserts none leaves the indexes alone.    *)
LEMMA IndexStays ==
    ASSUME Isolated, rows' = rows,
           \A f \in Env : Uncommitted(f)' => /\ Uncommitted(f)
                                             /\ draft'[f] = draft[f] /\ job'[f] = job[f]
    PROVE  Isolated'
<1>1. \A f \in Env : Uncommitted(f)' => draft[f]' = draft[f] /\ Id(f)' = Id(f)
  BY DEF Id
<1>2. ASSUME NEW f \in Env, Uncommitted(f)'
      PROVE  Free(f)'
  BY <1>1, <1>2 DEF Isolated, Free
<1>3. ASSUME NEW f \in Env, NEW g \in Env \ {f}, Uncommitted(f)', Uncommitted(g)'
      PROVE  Apart(f, g)'
  BY <1>1, <1>3 DEF Isolated, Apart
<1> QED
  BY <1>2, <1>3 DEF Isolated

(* No step lets two open transactions insert what the indexes keep apart.  *)
LEMMA IndexStep ==
    ASSUME TypeOK, EnvsOK, Isolated, Next
    PROVE  Isolated'
<1>1. ASSUME NEW m \in Record, Arrive(m) \/ DeadLetter(m)
      PROVE  Isolated'
  BY <1>1, SqsStays, IndexStays DEF Stays, Uncommitted
<1>2. ASSUME NEW e \in Env, Run(e) \/ Interrupt(e), ~Commit(e),
             Uncommitted(e)' => /\ Uncommitted(e)
                                /\ draft'[e] = draft[e] /\ job'[e] = job[e]
      PROVE  Isolated'
  <2>1. rows' = rows
    BY <1>2, OnlyCommitWrites
  <2>2. ASSUME NEW f \in Env, Uncommitted(f)'
        PROVE  Uncommitted(f) /\ draft'[f] = draft[f] /\ job'[f] = job[f]
    <3>1. CASE f = e
      BY <1>2, <2>2, <3>1
    <3>2. CASE f # e
      BY <1>2, <2>2, <3>2, OthersStay DEF Stays, Uncommitted
    <3> QED
      BY <3>1, <3>2
  <2> QED
    BY <2>1, <2>2, IndexStays
<1>3. ASSUME NEW e \in Env
      PROVE  EnvOK(e) /\ e \in DOMAIN pc /\ e \in DOMAIN job /\ e \in DOMAIN draft
             /\ e \in DOMAIN result
  BY DEF EnvsOK, TypeOK, TablesTypeOK
<1>4. ASSUME NEW e \in Env, Invoke(e) \/ FinishBatch(e)
      PROVE  Isolated'
  BY <1>4, IndexStays DEF Invoke, FinishBatch, tableVars, txVars, Uncommitted
<1>5. ASSUME NEW e \in Env, Unparsable(e) \/ RaiseViolation(e) \/ Interrupt(e)
                            \/ EndRecord(e) \/ BeginRecord(e)
      PROVE  Isolated'
  <2>2. pc'[e] \in {"idle", "select", "return"} /\ rows' = rows
    BY <1>3, <1>5 DEF Unparsable, RaiseViolation, Interrupt, Fail, Discard, EndRecord,
                      BeginRecord, Process, tableVars
  <2>3. ~Uncommitted(e)'
    BY <2>2 DEF Uncommitted
  <2>4. Run(e) \/ Interrupt(e)
    BY <1>5 DEF Run
  <2>5. \A f \in Env : Uncommitted(f)' => /\ Uncommitted(f)
                                          /\ draft'[f] = draft[f] /\ job'[f] = job[f]
    BY <2>3, <2>4, OthersStay DEF Stays, Uncommitted
  <2> QED
    BY <2>2, <2>5, IndexStays
<1>6. ASSUME NEW e \in Env, UNCHANGED handlerVars,
             SelectRequest(e) \/ UpdateCounter(e) \/ LockSeat(e) \/ SkipInsert(e)
      PROVE  Isolated'
  <2>1. ~Uncommitted(e)'
    BY <1>3, <1>6 DEF SelectRequest, UpdateCounter, LockSeat, Draft, SkipInsert, Uncommitted,
                      EnvOK
  <2>2. ~Commit(e)
    BY <1>6 DEF SelectRequest, UpdateCounter, LockSeat, SkipInsert, Ready, Commit
  <2>3. Run(e)
    BY <1>6 DEF Run, RunStatement, Statement
  <2> QED
    BY <1>2, <2>1, <2>2, <2>3
<1>7. ASSUME NEW e \in Env, Insert(e), UNCHANGED handlerVars
      PROVE  Isolated'
  <2>1. rows' = rows /\ draft' = draft /\ job' = job
    BY <1>7 DEF Insert, tableVars
  <2>2. \A f \in Env \ {e} : Uncommitted(f)' <=> Uncommitted(f)
    BY <1>7, OthersStay DEF Run, RunStatement, Statement, Stays, Uncommitted
  <2>3. \A f \in Env : /\ Free(f)' <=> Free(f)
                       /\ \A g \in Env : Apart(f, g)' <=> Apart(f, g)
    BY <2>1 DEF Free, Apart, Id
  <2>4. Free(e)
    BY <1>7 DEF Insert, Violates, Free
  <2>5. ASSUME NEW f \in Env \ {e}, Uncommitted(f)
        PROVE  Apart(e, f) /\ Apart(f, e)
    BY <1>7, <2>5, CollidesBothWays DEF Insert, Ready, Apart
  <2> QED
    BY <2>2, <2>3, <2>4, <2>5 DEF Isolated
<1>8. ASSUME NEW e \in Env, Commit(e), UNCHANGED handlerVars
      PROVE  Isolated'
  <2>1. ~Uncommitted(e)'
    BY <1>3, <1>8 DEF Commit, Uncommitted
  <2>2. draft' = draft /\ job' = job
    BY <1>8 DEF Commit
  <2>3. \A f \in Env \ {e} : Uncommitted(f)' => Uncommitted(f)
    BY <1>8, OthersStay DEF Run, RunStatement, Statement, Stays, Uncommitted
  <2>4. \A f \in Env, g \in Env : Apart(f, g)' <=> Apart(f, g)
    BY <2>2 DEF Apart, Id
  <2>5. ASSUME NEW f \in Env \ {e}, Uncommitted(f)
        PROVE  Free(f)'
    <3>1. Free(f)
      BY <2>5 DEF Isolated
    <3>2. CASE rows' = rows
      BY <2>2, <3>1, <3>2 DEF Free, Id
    <3>3. CASE Uncommitted(e) /\ rows' = [rows EXCEPT ![Id(e)] = draft[e]]
      <4>1. ~Collides(draft[f], Id(f), draft[e], Id(e))
        BY <2>5, <3>3 DEF Isolated, Apart
      <4>2. \A i \in Ids : rows'[i] = IF i = Id(e) THEN draft[e] ELSE rows[i]
        BY <3>3 DEF TypeOK, TablesTypeOK
      <4>3. \A i \in Ids : rows'[i] # NoRow => ~Collides(draft[f], Id(f), rows'[i], i)
        BY <3>1, <4>1, <4>2 DEF Free
      <4> QED
        BY <2>2, <4>3 DEF Free, Id
    <3> QED
      BY <1>8, <3>2, <3>3, CommitWrites
  <2> QED
    BY <2>1, <2>3, <2>4, <2>5 DEF Isolated
<1> QED
  BY NextCases, <1>1, <1>4, <1>5, <1>6, <1>7, <1>8

(* No seat is sold to two rows.                                            *)
LEMMA SeatStep ==
    ASSUME TypeOK, EnvsOK, Isolated, SeatSoldOnce, Next
    PROVE  SeatSoldOnce'
<1>1. CASE rows' = rows
  BY <1>1 DEF SeatSoldOnce
<1>2. ASSUME NEW e \in Env, Commit(e)
      PROVE  SeatSoldOnce'
  <2>1. CASE rows' = rows
    BY <1>1, <2>1
  <2>2. CASE Uncommitted(e) /\ Id(e) \in Ids /\ rows' = [rows EXCEPT ![Id(e)] = draft[e]]
    <3>1. \A i \in Ids : rows'[i] = IF i = Id(e) THEN draft[e] ELSE rows[i]
      BY <2>2 DEF TypeOK, TablesTypeOK
    <3>2. \A i \in Ids : rows[i] # NoRow => ~Collides(draft[e], Id(e), rows[i], i)
      BY <2>2 DEF Isolated, Free
    <3>3. \A i \in Ids : \A s \in Seats : SoldSeat(rows[i], s) => ~SoldSeat(draft[e], s)
      BY <3>2 DEF Collides, SoldSeat, NoRow
    <3> QED
      BY <3>1, <3>3 DEF SeatSoldOnce
  <2> QED
    BY <1>2, <2>1, <2>2, CommitWrites
<1> QED
  BY <1>1, <1>2, SqsStays, OnlyCommitWrites DEF Next

-----------------------------------------------------------------------------
(* What is told                                                            *)

(* At most one processing of a request id tells that it sold.              *)
LEMMA ToldStep ==
    ASSUME TypeOK, BatchesOK, EnvsOK, Isolated, SaleUntold, SoldToOneRecord, Next
    PROVE  SaleUntold' /\ SoldToOneRecord'
<1>1. \A i \in Ids : rows[i] # NoRow => rows'[i] = rows[i]
  BY RowsStay
<1>2. \A m \in Record : OrderOf[m].id \in Ids
  OBVIOUS
<1>3. ASSUME told' = told
      PROVE  SoldToOneRecord'
  <2>1. \A m \in Record : told[m] > 0 => rows[OrderOf[m].id] # NoRow
    BY DEF SoldToOneRecord, NoRow
  <2> QED
    BY <1>1, <1>2, <1>3, <2>1 DEF SoldToOneRecord
<1>4. ASSUME told' = told, NEW f \in Env, Stays(f), pc'[f] = "return", result'[f] = "success"
      PROVE  /\ rows'[Id(f)'] = RowOf(f, "success")'
             /\ \A n \in Record : OrderOf[n].id = Id(f)' => told'[n] = 0
  <2>1. pc[f] = "return" /\ result[f] = "success"
    BY <1>4 DEF Stays
  <2>2. /\ Id(f)' = Id(f) /\ RowOf(f, "success")' = RowOf(f, "success") /\ Id(f) \in Ids
        /\ RowOf(f, "success") # NoRow
    BY <1>4, <2>1, JobFacts DEF Id, RowOf, Type, Seat, Stays, NoRow
  <2> QED
    BY <1>1, <1>4, <2>1, <2>2 DEF SaleUntold
<1>5. ASSUME NEW m \in Record, Arrive(m) \/ DeadLetter(m)
      PROVE  SaleUntold' /\ SoldToOneRecord'
  BY <1>3, <1>4, <1>5, SqsStays DEF SaleUntold
<1>6. ASSUME NEW e \in Env, Run(e) \/ Interrupt(e), told' = told,
             ~(pc'[e] = "return" /\ result'[e] = "success")
      PROVE  SaleUntold' /\ SoldToOneRecord'
  BY <1>3, <1>4, <1>6, OthersStay DEF SaleUntold
<1>7. ASSUME NEW e \in Env
      PROVE  EnvOK(e) /\ e \in DOMAIN pc /\ e \in DOMAIN job /\ e \in DOMAIN draft
             /\ e \in DOMAIN result
  BY DEF EnvsOK, TypeOK, TablesTypeOK
<1>8. ASSUME NEW e \in Env, Invoke(e) \/ FinishBatch(e)
      PROVE  SaleUntold' /\ SoldToOneRecord'
  <2>1. pc' = pc /\ job' = job /\ result' = result /\ rows' = rows /\ told' = told
    BY <1>8 DEF Invoke, FinishBatch, txVars, tableVars
  <2>2. \A f \in Env : Id(f)' = Id(f) /\ RowOf(f, "success")' = RowOf(f, "success")
    BY <2>1 DEF Id, RowOf, Type, Seat
  <2> QED
    BY <1>3, <2>1, <2>2 DEF SaleUntold
<1>9. ASSUME NEW e \in Env,
             Unparsable(e) \/ RaiseViolation(e) \/ Interrupt(e) \/ BeginRecord(e)
      PROVE  SaleUntold' /\ SoldToOneRecord'
  <2>1. told' = told /\ ~(pc'[e] = "return" /\ result'[e] = "success")
    BY <1>7, <1>9 DEF Unparsable, RaiseViolation, Interrupt, Fail, Discard, BeginRecord,
                      Process, handlerVars
  <2> QED
    BY <1>6, <1>9, <2>1 DEF Run
<1>10. ASSUME NEW e \in Env, UNCHANGED handlerVars,
              SelectRequest(e) \/ UpdateCounter(e) \/ LockSeat(e) \/ Insert(e) \/ SkipInsert(e)
       PROVE  SaleUntold' /\ SoldToOneRecord'
  <2>1. told' = told /\ pc'[e] # "return"
    BY <1>7, <1>10 DEF SelectRequest, UpdateCounter, LockSeat, Draft, Insert, SkipInsert,
                       handlerVars
  <2> QED
    BY <1>6, <1>10, <2>1 DEF Run, RunStatement, Statement
<1>11. ASSUME NEW e \in Env, Commit(e), UNCHANGED handlerVars
       PROVE  SaleUntold' /\ SoldToOneRecord'
  <2>1. told' = told /\ job' = job /\ result' = result
    BY <1>11 DEF Commit, handlerVars
  <2>2. Run(e)
    BY <1>11 DEF Run, RunStatement, Statement
  <2>3. CASE result[e] # "success"
    BY <1>6, <2>1, <2>2, <2>3
  <2>4. CASE result[e] = "success"
    <3>1. /\ Drafted(e) /\ rows[Id(e)] = NoRow /\ Id(e) \in Ids
          /\ rows' = [rows EXCEPT ![Id(e)] = draft[e]]
      BY <1>11, <2>4, CommitWrites
    <3>2. rows'[Id(e)] = RowOf(e, "success")
      BY <2>4, <3>1 DEF Drafted, TypeOK, TablesTypeOK
    <3>3. ASSUME NEW n \in Record, OrderOf[n].id = Id(e)
          PROVE  told[n] = 0
      <4>1. told[n] > 0 => rows[OrderOf[n].id].status = "success"
        BY DEF SoldToOneRecord
      <4>2. told[n] \in Nat
        BY DEF TypeOK
      <4> QED
        BY <3>1, <3>3, <4>1, <4>2 DEF NoRow
    <3>4. Id(e)' = Id(e) /\ RowOf(e, "success")' = RowOf(e, "success")
      BY <2>1 DEF Id, RowOf, Type, Seat
    <3>5. \A f \in Env \ {e} : Stays(f)
      BY <2>2, OthersStay
    <3> QED
      BY <1>3, <1>4, <2>1, <3>2, <3>3, <3>4, <3>5 DEF SaleUntold
  <2> QED
    BY <2>3, <2>4
<1>12. ASSUME NEW e \in Env, EndRecord(e)
       PROVE  SaleUntold' /\ SoldToOneRecord'
  <2>1. pc[e] = "return" /\ pc'[e] = "idle" /\ rows' = rows
    BY <1>7, <1>12 DEF EndRecord, Discard, tableVars
  <2>2. job[e] \in Record /\ job[e] \in Members(e)
    BY <2>1, JobFacts
  <2>3. CASE result[e] # "success"
    BY <1>6, <1>12, <2>1, <2>3 DEF EndRecord, Run
  <2>4. CASE result[e] = "success"
    <3>1. told' = [told EXCEPT ![job[e]] = @ + 1]
      BY <1>12, <2>4 DEF EndRecord
    <3>2. /\ rows[Id(e)] = RowOf(e, "success")
          /\ \A n \in Record : OrderOf[n].id = Id(e) => told[n] = 0
      BY <2>1, <2>4 DEF SaleUntold
    <3>3. /\ told'[job[e]] = 1
          /\ \A n \in Record \ {job[e]} : told'[n] = told[n]
      BY <2>2, <3>1, <3>2 DEF TypeOK, Id
    <3>4. rows[Id(e)].status = "success" /\ rows[Id(e)].by = job[e]
      BY <3>2 DEF RowOf
    <3>5. SoldToOneRecord'
      <4> SUFFICES ASSUME NEW m \in Record, told'[m] > 0
                   PROVE  /\ told'[m] = 1
                          /\ rows'[OrderOf[m].id].status = "success"
                          /\ rows'[OrderOf[m].id].by = m
                          /\ \A n \in Record \ {m} :
                                OrderOf[n].id = OrderOf[m].id => told'[n] = 0
        BY DEF SoldToOneRecord
      <4>1. CASE m = job[e]
        BY <2>1, <3>2, <3>3, <3>4, <4>1 DEF Id
      <4>2. CASE m # job[e]
        <5>1. told[m] > 0 /\ OrderOf[m].id # Id(e)
          BY <3>2, <3>3, <4>2
        <5> QED
          BY <2>1, <2>2, <3>3, <4>2, <5>1 DEF SoldToOneRecord, Id
      <4> QED
        BY <4>1, <4>2
    <3>6. ASSUME NEW f \in Env \ {e}, pc'[f] = "return", result'[f] = "success"
          PROVE  /\ rows'[Id(f)'] = RowOf(f, "success")'
                 /\ \A n \in Record : OrderOf[n].id = Id(f)' => told'[n] = 0
      <4>1. Stays(f)
        BY <1>12, OthersStay DEF Run
      <4>2. /\ Id(f)' = Id(f) /\ RowOf(f, "success")' = RowOf(f, "success")
            /\ pc[f] = "return" /\ result[f] = "success"
        BY <3>6, <4>1 DEF Id, RowOf, Type, Seat, Stays
      <4>3. rows[Id(f)] = RowOf(f, "success")
            /\ \A n \in Record : OrderOf[n].id = Id(f) => told[n] = 0
        BY <4>2 DEF SaleUntold
      <4>4. Id(f) # Id(e)
        <5>1. job[f] \in Members(f)
          BY <4>2, JobFacts
        <5>2. job[f] # job[e]
          BY <2>2, <5>1 DEF BatchesOK
        <5>3. RowOf(f, "success").by = job[f]
          BY DEF RowOf
        <5> QED
          BY <3>4, <4>3, <5>2, <5>3
      <4>5. OrderOf[job[e]].id = Id(e)
        BY DEF Id
      <4> QED
        BY <2>1, <3>3, <4>2, <4>3, <4>4, <4>5
    <3> QED
      BY <2>1, <3>5, <3>6 DEF SaleUntold
  <2> QED
    BY <2>3, <2>4
<1> QED
  BY NextCases, <1>5, <1>8, <1>9, <1>10, <1>11, <1>12

(* The handler tells of no record before it was sent.                      *)
LEMMA UnsentStep ==
    ASSUME TypeOK, BatchesOK, EnvsOK, UnsentUntold, Next
    PROVE  UnsentUntold'
<1>1. \A m \in Record : place'[m] = "unsent" => place[m] = "unsent"
  BY DEF Next, Arrive, DeadLetter, Run, Interrupt, Invoke, FinishBatch, Unparsable,
         RaiseViolation, Fail, BeginRecord, EndRecord, RunStatement, handlerVars, Move
<1>2. CASE told' = told
  BY <1>1, <1>2 DEF UnsentUntold
<1>3. ASSUME NEW e \in Env, EndRecord(e)
      PROVE  UnsentUntold'
  <2>1. place[job[e]] = "inflight"
    BY <1>3, JobFacts DEF EndRecord, BatchesOK
  <2>2. \A m \in Record \ {job[e]} : told'[m] = told[m]
    BY <1>3 DEF EndRecord, TypeOK
  <2>3. place' = place
    BY <1>3 DEF EndRecord
  <2> QED
    BY <2>1, <2>2, <2>3 DEF UnsentUntold
<1> QED
  BY <1>2, <1>3 DEF Next, Arrive, DeadLetter, Run, Interrupt, Invoke, FinishBatch, Unparsable,
         RaiseViolation, Fail, BeginRecord, RunStatement, handlerVars

-----------------------------------------------------------------------------
(* What is deleted                                                         *)

(* No record leaves the queue without a verdict.                           *)
LEMMA DecidedStep ==
    ASSUME TypeOK, EnvsOK, Isolated, PassedDecided, DeletedIsDecided, Next
    PROVE  PassedDecided' /\ DeletedIsDecided'
<1>1. Verdicts \subseteq Verdicts'
  BY RowsStay DEF Verdicts, Invalid
<1>2. ASSUME NEW e \in Env
      PROVE  /\ batch[e] \in Seq(Record) /\ Len(batch[e]) \in Nat /\ next[e] \in Nat
             /\ e \in DOMAIN batch /\ e \in DOMAIN next
  BY BatchTypes DEF TypeOK
<1>3. ASSUME NEW f \in Env, batch'[f] = batch[f], next'[f] = next[f]
      PROVE  /\ batch'[f] = <<>> => next'[f] = 1
             /\ \A k \in 1..Len(batch'[f]) : k < next'[f] => batch'[f][k] \in Verdicts'
  BY <1>1, <1>3 DEF PassedDecided
<1>4. ASSUME \A m \in Record : place'[m] = "deleted" => place[m] = "deleted"
      PROVE  DeletedIsDecided'
  <2>1. \A m \in Record : place'[m] = "deleted" => m \in Verdicts
    BY <1>4 DEF DeletedIsDecided, Verdicts
  <2> QED
    BY <1>1, <2>1 DEF DeletedIsDecided, Verdicts, Invalid
<1>5. ASSUME NEW m \in Record, Arrive(m) \/ DeadLetter(m)
      PROVE  PassedDecided' /\ DeletedIsDecided'
  <2>1. \A f \in Env : batch'[f] = batch[f] /\ next'[f] = next[f]
    BY <1>5, SqsStays DEF Stays
  <2>2. PassedDecided'
    BY <1>3, <2>1 DEF PassedDecided
  <2>3. \A n \in Record : place'[n] = "deleted" => place[n] = "deleted"
    BY <1>5 DEF Arrive, DeadLetter, Move
  <2> QED
    BY <1>4, <2>2, <2>3
<1>6. ASSUME NEW e \in Env, Run(e) \/ Interrupt(e),
             /\ batch'[e] = <<>> => next'[e] = 1
             /\ \A k \in 1..Len(batch'[e]) : k < next'[e] => batch'[e][k] \in Verdicts'
      PROVE  PassedDecided'
  <2>1. \A f \in Env \ {e} : batch'[f] = batch[f] /\ next'[f] = next[f]
    BY <1>6, OthersStay DEF Stays
  <2>2. ASSUME NEW f \in Env
        PROVE  /\ batch'[f] = <<>> => next'[f] = 1
               /\ \A k \in 1..Len(batch'[f]) : k < next'[f] => batch'[f][k] \in Verdicts'
    <3>1. CASE f = e
      BY <1>6, <3>1
    <3>2. CASE f # e
      BY <1>3, <2>1, <3>2
    <3> QED
      BY <3>1, <3>2
  <2> QED
    BY <2>2 DEF PassedDecided
<1>7. ASSUME NEW e \in Env, Run(e) \/ Interrupt(e), next'[e] = 1
      PROVE  PassedDecided'
  <2>1. \A k \in 1..Len(batch'[e]) : ~(k < next'[e])
    BY <1>7
  <2> QED
    BY <1>6, <1>7, <2>1
<1>8. ASSUME NEW e \in Env, Invoke(e)
      PROVE  PassedDecided' /\ DeletedIsDecided'
  <2>1. next'[e] = 1
    BY <1>8 DEF Invoke, PassedDecided
  <2>2. \A n \in Record : place'[n] = "deleted" => place[n] = "deleted"
    BY <1>8 DEF Invoke, Move
  <2> QED
    BY <1>4, <1>7, <1>8, <2>1, <2>2 DEF Run
<1>9. ASSUME NEW e \in Env, Unparsable(e) \/ RaiseViolation(e) \/ Interrupt(e)
      PROVE  PassedDecided' /\ DeletedIsDecided'
  <2>1. next'[e] = 1
    BY <1>2, <1>9 DEF Unparsable, RaiseViolation, Interrupt, Fail
  <2>2. \A n \in Record : place'[n] = "deleted" => place[n] = "deleted"
    BY <1>9 DEF Unparsable, RaiseViolation, Interrupt, Fail, Move
  <2> QED
    BY <1>4, <1>7, <1>9, <2>1, <2>2 DEF Run
<1>10. ASSUME NEW e \in Env, BeginRecord(e) \/ RunStatement(e)
       PROVE  PassedDecided' /\ DeletedIsDecided'
  <2>1. batch' = batch /\ next' = next /\ place' = place
    BY <1>10 DEF BeginRecord, RunStatement, handlerVars
  <2>2. PassedDecided'
    BY <1>1, <2>1 DEF PassedDecided
  <2> QED
    BY <1>4, <2>1, <2>2
<1>11. ASSUME NEW e \in Env, EndRecord(e)
       PROVE  PassedDecided' /\ DeletedIsDecided'
  <2>1. /\ batch' = batch /\ place' = place
        /\ next'[e] = next[e] + 1 /\ pc[e] = "return"
    BY <1>2, <1>11 DEF EndRecord
  <2>2. next[e] \in 1..Len(batch[e]) /\ job[e] = batch[e][next[e]] /\ job[e] \in Record
    BY <2>1, JobFacts
  <2>3. job[e] \in Verdicts
    BY <2>1, <2>2 DEF EnvsOK, EnvOK, Verdicts, Id
  <2>4. \A k \in 1..Len(batch[e]) : k < next[e] + 1 => batch[e][k] \in Verdicts
    <3> SUFFICES ASSUME NEW k \in 1..Len(batch[e]), k < next[e] + 1
                 PROVE  batch[e][k] \in Verdicts
      OBVIOUS
    <3>1. k < next[e] \/ k = next[e]
      BY <1>2
    <3> QED
      BY <2>2, <2>3, <3>1 DEF PassedDecided
  <2>5. \A k \in 1..Len(batch'[e]) : k < next'[e] => batch'[e][k] \in Verdicts'
    BY <1>1, <2>1, <2>4
  <2>6. batch[e] # <<>>
    BY <2>2
  <2>7. PassedDecided'
    BY <1>6, <1>11, <2>1, <2>5, <2>6 DEF Run
  <2> QED
    BY <1>4, <2>1, <2>7
<1>12. ASSUME NEW e \in Env, FinishBatch(e)
       PROVE  PassedDecided' /\ DeletedIsDecided'
  <2>1. next'[e] = 1 /\ next[e] > Len(batch[e]) /\ Move(Members(e), "deleted")
    BY <1>2, <1>12 DEF FinishBatch
  <2>2. PassedDecided'
    BY <1>7, <1>12, <2>1 DEF Run
  <2>3. Members(e) \subseteq Verdicts
    <3> SUFFICES ASSUME NEW k \in 1..Len(batch[e])
                 PROVE  batch[e][k] \in Verdicts
      BY DEF Members
    <3>1. k < next[e]
      BY <1>2, <2>1
    <3> QED
      BY <3>1 DEF PassedDecided
  <2>4. \A m \in Record : place'[m] = "deleted" => m \in Verdicts
    <3> SUFFICES ASSUME NEW m \in Record, place'[m] = "deleted"
                 PROVE  m \in Verdicts
      OBVIOUS
    <3>1. m \in Members(e) \/ place[m] = "deleted"
      BY <2>1 DEF Move
    <3> QED
      BY <2>3, <3>1 DEF DeletedIsDecided, Verdicts
  <2> QED
    BY <1>1, <2>2, <2>4 DEF DeletedIsDecided, Verdicts, Invalid
<1> QED
  BY <1>5, <1>8, <1>9, <1>10, <1>11, <1>12 DEF Next, Run

-----------------------------------------------------------------------------
(* The invariant                                                           *)

(* Nothing has happened to the tables or the batches at the start.         *)
LEMMA HandlerInit == Init => HandlerInv
<1> SUFFICES ASSUME Init
             PROVE  HandlerInv
  OBVIOUS
<1>1. TypeOK
  BY TypeInit
<1>2. /\ rows = [i \in Ids |-> NoRow] /\ pc = [e \in Env |-> "idle"]
      /\ batch = [e \in Env |-> <<>>] /\ next = [e \in Env |-> 1]
      /\ told = [m \in Record |-> 0] /\ place = [m \in Record |-> "unsent"] /\ sold = 0
  BY DEF Init, TablesInit
<1>3. \A e \in Env : Members(e) = {}
  BY <1>2 DEF Members
<1>4. BatchesOK
  BY <1>3 DEF BatchesOK
<1>5. EnvsOK /\ CounterHeld /\ Isolated /\ SaleUntold
  BY <1>2 DEF EnvsOK, EnvOK, CounterHeld, HoldsCounter, Isolated, Uncommitted, SaleUntold
<1>6. Counted = {} /\ sold = 0
  BY <1>2 DEF Counted, NoRow
<1>7. IsFiniteSet(Counted) /\ Cardinality(Counted) = 0
  BY <1>6, FS_EmptySet
<1>8. CounterMatchesRows
  BY <1>6, <1>7 DEF CounterMatchesRows, Counted
<1>9. SeatSoldOnce /\ SoldToOneRecord /\ UnsentUntold /\ DeletedIsDecided
  BY <1>2 DEF UnsentUntold, SeatSoldOnce, SoldSeat, SoldToOneRecord, DeletedIsDecided, NoRow
<1>10. PassedDecided
  BY <1>2 DEF PassedDecided
<1> QED
  BY <1>1, <1>4, <1>5, <1>7, <1>8, <1>9, <1>10 DEF HandlerInv

(* Every step keeps it, and stuttering does.                               *)
LEMMA HandlerStep ==
    ASSUME HandlerInv, [Next]_vars
    PROVE  HandlerInv'
<1>1. CASE Next
  BY <1>1, TypeStep, BatchesStep, EnvsStep, LockStep, CountStep, IndexStep, SeatStep, ToldStep,
     UnsentStep, DecidedStep DEF HandlerInv
<1>2. CASE UNCHANGED vars
  <2> USE <1>2 DEF vars, tableVars, txVars, handlerVars, HandlerInv
  <2>1. TypeOK'
    BY DEF TypeOK, TablesTypeOK
  <2>2. BatchesOK'
    <3>1. \A e \in Env : Members(e)' = Members(e)
      BY DEF Members
    <3> QED
      BY <3>1 DEF BatchesOK
  <2>3. EnvsOK'
    BY EnvStays DEF EnvsOK, Stays
  <2>4. CounterHeld' /\ Isolated' /\ SaleUntold'
    BY DEF CounterHeld, HoldsCounter, Isolated, Free, Apart, Uncommitted, SaleUntold, RowOf,
           Id, Type, Seat
  <2>5. IsFiniteSet(Counted)' /\ CounterMatchesRows' /\ SeatSoldOnce'
    BY DEF Counted, CounterMatchesRows, SeatSoldOnce
  <2>6. SoldToOneRecord' /\ UnsentUntold' /\ PassedDecided' /\ DeletedIsDecided'
    BY DEF UnsentUntold, SoldToOneRecord, PassedDecided, DeletedIsDecided, Verdicts, Invalid
  <2> QED
    BY <2>1, <2>2, <2>3, <2>4, <2>5, <2>6
<1> QED
  BY <1>1, <1>2

-----------------------------------------------------------------------------
(* Theorems                                                                *)

(* The invariant holds however often records are delivered and whatever is *)
(* interrupted.                                                            *)
THEOREM HandlerInvariant == Spec => []HandlerInv
<1>1. HandlerInv /\ [Next]_vars => HandlerInv'
  BY HandlerStep
<1> QED
  BY HandlerInit, <1>1, PTL DEF Spec

(* Every variable keeps its type; above all, no more tickets are counted   *)
(* than there are.                                                         *)
THEOREM TypesHold == Spec => []TypeOK
<1>1. HandlerInv => TypeOK
  BY DEF HandlerInv
<1> QED
  BY <1>1, HandlerInvariant, PTL

(* As many tickets are counted as rows say sold: the UPDATE of the counter *)
(* and the INSERT of the row are one transaction.                          *)
THEOREM CounterCountsRows == Spec => []CounterMatchesRows
<1>1. HandlerInv => CounterMatchesRows
  BY DEF HandlerInv
<1> QED
  BY <1>1, HandlerInvariant, PTL

(* No seat is sold to two request ids, although SKIP LOCKED may overlook   *)
(* its row: the unique index decides.                                      *)
THEOREM SeatsSoldOnce == Spec => []SeatSoldOnce
<1>1. HandlerInv => SeatSoldOnce
  BY DEF HandlerInv
<1> QED
  BY <1>1, HandlerInvariant, PTL

(* Of all deliveries of all records of a request id, one returns success   *)
(* at most.                                                                *)
THEOREM OneSalePerRequest == Spec => []SoldToOneRecord
<1>1. HandlerInv => SoldToOneRecord
  BY DEF HandlerInv
<1> QED
  BY <1>1, HandlerInvariant, PTL

(* What the handler lets SQS delete has a row, or was invalid.             *)
THEOREM DeletedWasDecided == Spec => []DeletedIsDecided
<1>1. HandlerInv => DeletedIsDecided
  BY DEF HandlerInv
<1> QED
  BY <1>1, HandlerInvariant, PTL

(* Transactions never wait in a circle, whatever the state: one that waits *)
(* to insert waits for one that has only to commit, and one that waits for *)
(* the counter waits for one of these two.                                 *)
THEOREM SomeoneGoesOn == Spec => []NoStandstill
<1>1. NoStandstill
  <2>1. SUFFICES ASSUME NEW e \in Env, pc[e] # "idle"
                 PROVE  \E f \in Env : pc[f] # "idle" /\ ~Waits(f)
    BY DEF NoStandstill
  <2>2. ASSUME NEW f \in Env, pc[f] = "insert"
        PROVE  \E g \in Env : pc[g] # "idle" /\ ~Waits(g)
    <3>1. CASE Waits(f)
      <4>1. PICK g \in Env : Uncommitted(g)
        BY <2>2, <3>1 DEF Waits, Ready
      <4>2. pc[g] = "commit"
        BY <4>1 DEF Uncommitted
      <4> QED
        BY <4>2 DEF Waits
    <3> QED
      BY <2>2, <3>1
  <2>3. ASSUME Waits(e), pc[e] = "update"
        PROVE  \E g \in Env : pc[g] # "idle" /\ ~Waits(g)
    <3>1. PICK f \in Env : pc[f] \in {"insert", "commit"}
      BY <2>3 DEF Waits, HoldsCounter
    <3>2. CASE pc[f] = "insert"
      BY <2>2, <3>2
    <3>3. CASE pc[f] = "commit"
      BY <3>3 DEF Waits
    <3> QED
      BY <3>1, <3>2, <3>3
  <2> QED
    BY <2>1, <2>2, <2>3 DEF Waits
<1> QED
  BY <1>1, PTL

-----------------------------------------------------------------------------
(* The tables and the handler implement TicketSale                         *)

(* What a record is told, by where it is and what was told of it.          *)
LEMMA Phases ==
    ASSUME TypeOK, UnsentUntold, NEW m \in Record
    PROVE  /\ place[m] = "unsent" => SalePhase[m] = "new"
           /\ told[m] > 0 => SalePhase[m] = "confirmed"
           /\ told[m] = 0 /\ place[m] \in {"deleted", "dead"} => SalePhase[m] = "closed"
           /\ told[m] = 0 /\ place[m] \in {"queued", "inflight"} => SalePhase[m] = "asked"
  BY DEF SalePhase, TypeOK, UnsentUntold

(* The sale of the tables is the same while they are.                      *)
LEMMA SaleStays ==
    ASSUME rows' = rows
    PROVE  Buyers' = Buyers /\ Owner' = Owner
  BY DEF Buyers, Owner

(* The phases are the same while no record arrives, ends or is told of.    *)
LEMMA PhasesStay ==
    ASSUME told' = told,
           \A m \in Record : \/ place'[m] = place[m]
                             \/ /\ place[m] \in {"queued", "inflight"}
                                /\ place'[m] \in {"queued", "inflight"}
    PROVE  SalePhase' = SalePhase
<1>1. \A m \in Record : SalePhase'[m] = SalePhase[m]
  BY DEF SalePhase
<1> QED
  BY <1>1 DEF SalePhase

(* A seat is owned by who is in its row.                                   *)
LEMMA OwnerFacts ==
    ASSUME SeatSoldOnce, NEW s \in Seats
    PROVE  /\ (\A i \in Ids : ~SoldSeat(rows[i], s)) => Owner[s] = Nobody
           /\ \A i \in Ids : SoldSeat(rows[i], s) => Owner[s] = rows[i].by
<1>1. ASSUME \A i \in Ids : ~SoldSeat(rows[i], s)
      PROVE  Owner[s] = Nobody
  BY <1>1 DEF Owner
<1>2. ASSUME NEW i \in Ids, SoldSeat(rows[i], s)
      PROVE  Owner[s] = rows[i].by
  <2>1. {j \in Ids : SoldSeat(rows[j], s)} = {i}
    BY <1>2 DEF SeatSoldOnce
  <2>2. (CHOOSE j \in {i} : TRUE) = i
    OBVIOUS
  <2> QED
    BY <2>1, <2>2 DEF Owner
<1> QED
  BY <1>1, <1>2

(* At the start nothing is sold.                                           *)
LEMMA SaleInit == Init => Sale!Init
<1> SUFFICES ASSUME Init
             PROVE  Sale!Init
  OBVIOUS
<1>1. /\ sold = 0 /\ rows = [i \in Ids |-> NoRow]
      /\ \A m \in Record : place[m] = "unsent" /\ told[m] = 0
  BY DEF Init, TablesInit
<1>2. Buyers = {}
  BY <1>1 DEF Buyers, NoRow
<1>3. Owner = [s \in 1..MaxSeats |-> Nobody]
  BY <1>1 DEF Owner, SoldSeat, NoRow, Seats
<1>4. SalePhase = [m \in Record |-> "new"]
  BY <1>1 DEF SalePhase
<1> QED
  BY <1>1, <1>2, <1>3, <1>4 DEF Sale!Init

(* COMMIT sells a ticket or a seat, or nothing.                            *)
LEMMA CommitRefines ==
    ASSUME HandlerInv, HandlerInv', NEW e \in Env, Commit(e), UNCHANGED handlerVars
    PROVE  Sale!Next \/ UNCHANGED Sale!saleVars
<1> USE DEF HandlerInv
<1>1. SalePhase' = SalePhase
  BY PhasesStay DEF handlerVars
<1>2. /\ pc[e] = "commit" /\ job[e] \in Record /\ Id(e) \in Ids
      /\ Type(e) \in {"unnumbered", "numbered"}
  BY CommitWrites
<1>3. CASE rows' = rows /\ result[e] # "success"
  <2>1. sold' = sold
    BY <1>3 DEF Commit, HoldsCounter
  <2> QED
    BY <1>1, <1>3, <2>1, SaleStays DEF Sale!saleVars
<1>4. CASE /\ Drafted(e) /\ Uncommitted(e) /\ rows[Id(e)] = NoRow
           /\ rows' = [rows EXCEPT ![Id(e)] = draft[e]]
  <2>1. /\ draft[e].status = result[e] /\ draft[e].type = Type(e) /\ draft[e].by = job[e]
        /\ Type(e) = "numbered" => draft[e].seat = Seat(e)
    BY <1>4 DEF Drafted, RowOf
  <2>2. rows'[Id(e)] = draft[e] /\ \A i \in Ids \ {Id(e)} : rows'[i] = rows[i]
    BY <1>2, <1>4 DEF TypeOK, TablesTypeOK
  <2>3. \A s : ~SoldSeat(rows[Id(e)], s)
    BY <1>4 DEF SoldSeat, NoRow
  <2>4. result[e] = "success" => SalePhase[job[e]] = "asked"
    <3> SUFFICES ASSUME result[e] = "success"
                 PROVE  SalePhase[job[e]] = "asked"
      OBVIOUS
    <3>1. place[job[e]] = "inflight"
      BY <1>2, JobFacts DEF BatchesOK
    <3>2. told[job[e]] = 0
      <4>1. told[job[e]] \in Nat
        BY <1>2 DEF TypeOK
      <4>2. told[job[e]] > 0 => rows[Id(e)].status = "success"
        BY <1>2 DEF SoldToOneRecord, Id
      <4>3. rows[Id(e)].status # "success"
        BY <1>4 DEF NoRow
      <4> QED
        BY <4>1, <4>2, <4>3
    <3> QED
      BY <1>2, <3>1, <3>2, Phases
  <2>5. CASE result[e] = "success" /\ Type(e) = "unnumbered"
    <3>1. sold' = sold + 1 /\ sold < MaxUnnumbered
      BY <1>2, <2>5 DEF Commit, HoldsCounter, CounterHeld
    <3>2. Buyers' = Buyers \cup {job[e]}
      <4>1. Counted' = Counted \cup {Id(e)} /\ Id(e) \notin Counted
        BY <1>2, <1>4, <2>1, <2>2, <2>5 DEF Counted, NoRow
      <4>2. Buyers = {rows[i].by : i \in Counted} /\ Buyers' = {rows'[i].by : i \in Counted'}
        BY DEF Buyers, Counted
      <4>3. Counted \subseteq Ids
        BY DEF Counted
      <4> QED
        BY <2>1, <2>2, <4>1, <4>2, <4>3
    <3>3. Owner' = Owner
      <4>1. \A i \in Ids, s \in Seats : SoldSeat(rows'[i], s) <=> SoldSeat(rows[i], s)
        BY <2>1, <2>2, <2>3, <2>5 DEF SoldSeat
      <4>2. ASSUME NEW s \in Seats
            PROVE  Owner'[s] = Owner[s]
        <5>1. CASE \A i \in Ids : ~SoldSeat(rows[i], s)
          <6>1. \A i \in Ids : ~SoldSeat(rows'[i], s)
            BY <4>1, <5>1
          <6> QED
            BY <5>1, <6>1 DEF Owner
        <5>2. ASSUME NEW i \in Ids, SoldSeat(rows[i], s)
              PROVE  Owner'[s] = Owner[s]
          <6>1. rows'[i] = rows[i] /\ SoldSeat(rows'[i], s)
            BY <2>2, <2>3, <4>1, <5>2
          <6>2. {j \in Ids : SoldSeat(rows'[j], s)} = {j \in Ids : SoldSeat(rows[j], s)}
            BY <4>1
          <6>3. {j \in Ids : SoldSeat(rows[j], s)} = {i}
            BY <5>2 DEF SeatSoldOnce
          <6> QED
            BY <6>1, <6>2, <6>3 DEF Owner
        <5> QED
          BY <5>1, <5>2
      <4> QED
        BY <4>2 DEF Owner
    <3>4. Sale!SellTicket(job[e])
      BY <1>1, <2>4, <2>5, <3>1, <3>2, <3>3 DEF Sale!SellTicket
    <3> QED
      BY <1>2, <3>4 DEF Sale!Next
  <2>6. CASE ~(result[e] = "success" /\ Type(e) = "unnumbered")
    <3>1. sold' = sold
      BY <2>6 DEF Commit, HoldsCounter
    <3>2. Buyers' = Buyers
      <4>1. Counted' = Counted /\ Id(e) \notin Counted
        BY <1>2, <1>4, <2>1, <2>2, <2>6 DEF Counted, NoRow
      <4>2. Buyers = {rows[i].by : i \in Counted} /\ Buyers' = {rows'[i].by : i \in Counted'}
        BY DEF Buyers, Counted
      <4>3. \A i \in Counted : rows'[i] = rows[i]
        BY <2>2, <4>1 DEF Counted
      <4> QED
        BY <4>1, <4>2, <4>3
    <3>3. ASSUME NEW t \in Seats, ~SoldSeat(draft[e], t)
          PROVE  Owner'[t] = Owner[t]
      <4>1. \A i \in Ids : SoldSeat(rows'[i], t) <=> SoldSeat(rows[i], t)
        BY <2>2, <2>3, <3>3
      <4>2. {j \in Ids : SoldSeat(rows'[j], t)} = {j \in Ids : SoldSeat(rows[j], t)}
        BY <4>1
      <4>3. CASE \A i \in Ids : ~SoldSeat(rows[i], t)
        <5>1. {j \in Ids : SoldSeat(rows[j], t)} = {}
          BY <4>3
        <5> QED
          BY <3>3, <4>2, <5>1 DEF Owner
      <4>4. ASSUME NEW i \in Ids, SoldSeat(rows[i], t)
            PROVE  Owner'[t] = Owner[t]
        <5>1. {j \in Ids : SoldSeat(rows[j], t)} = {i}
          BY <4>4 DEF SeatSoldOnce
        <5>2. rows'[i] = rows[i]
          BY <2>2, <2>3, <4>4
        <5> QED
          BY <3>3, <4>2, <5>1, <5>2 DEF Owner
      <4> QED
        BY <4>3, <4>4
    <3>4. CASE result[e] # "success"
      <4>1. \A t \in Seats : Owner'[t] = Owner[t]
        BY <2>1, <3>3, <3>4 DEF SoldSeat
      <4>2. Owner' = Owner
        BY <4>1 DEF Owner
      <4> QED
        BY <1>1, <3>1, <3>2, <4>2 DEF Sale!saleVars
    <3>5. CASE result[e] = "success" /\ Type(e) = "numbered"
      <4>1. Seat(e) \in Seats
        BY <1>2, <3>5, RowTypes, CommitWrites
      <4>2. SoldSeat(draft[e], Seat(e)) /\ \A t \in Seats \ {Seat(e)} : ~SoldSeat(draft[e], t)
        BY <2>1, <3>5 DEF SoldSeat
      <4>3. \A i \in Ids : ~SoldSeat(rows[i], Seat(e))
        BY <1>4, <4>1, <4>2 DEF Isolated, Free, Collides, SoldSeat, NoRow
      <4>4. Owner[Seat(e)] = Nobody
        BY <4>1, <4>3, OwnerFacts
      <4>5. Owner'[Seat(e)] = job[e]
        <5>1. {i \in Ids : SoldSeat(rows'[i], Seat(e))} = {Id(e)}
          BY <1>2, <2>2, <4>2, <4>3
        <5>2. (CHOOSE i \in {Id(e)} : TRUE) = Id(e)
          OBVIOUS
        <5>3. Owner'[Seat(e)] = rows'[Id(e)].by
          <6>1. Seat(e)' = Seat(e)
            BY DEF Commit, Seat
          <6> QED
            BY <4>1, <5>1, <5>2 DEF Owner
        <5> QED
          BY <2>1, <2>2, <5>3
      <4>6. \A t \in Seats \ {Seat(e)} : Owner'[t] = Owner[t]
        BY <3>3, <4>2
      <4>7. Owner' = [Owner EXCEPT ![Seat(e)] = job[e]]
        BY <4>1, <4>5, <4>6 DEF Owner
      <4>8. Sale!SellSeat(job[e], Seat(e))
        BY <1>1, <2>4, <3>1, <3>2, <3>5, <4>4, <4>7 DEF Sale!SellSeat
      <4> QED
        BY <1>2, <4>1, <4>8 DEF Sale!Next, Seats
    <3> QED
      BY <1>2, <2>6, <3>4, <3>5
  <2> QED
    BY <2>5, <2>6
<1> QED
  BY <1>3, <1>4, CommitWrites

(* process returns a success: it is confirmed, and its row backs it.       *)
LEMMA EndRefines ==
    ASSUME HandlerInv, HandlerInv', NEW e \in Env, EndRecord(e)
    PROVE  Sale!Next \/ UNCHANGED Sale!saleVars
<1> USE DEF HandlerInv
<1>1. /\ pc[e] = "return" /\ rows' = rows /\ sold' = sold /\ place' = place
  BY DEF EndRecord, tableVars
<1>2. job[e] \in Record /\ Id(e) \in Ids /\ place[job[e]] = "inflight"
  BY <1>1, JobFacts DEF BatchesOK
<1>3. Buyers' = Buyers /\ Owner' = Owner
  BY <1>1, SaleStays
<1>4. CASE result[e] # "success"
  <2>1. told' = told
    BY <1>4 DEF EndRecord
  <2> QED
    BY <1>1, <1>3, <2>1, PhasesStay DEF Sale!saleVars
<1>5. CASE result[e] = "success"
  <2>1. rows[Id(e)] = RowOf(e, "success") /\ told[job[e]] = 0
    BY <1>1, <1>2, <1>5 DEF SaleUntold, Id
  <2>2. told'[job[e]] = 1 /\ \A m \in Record \ {job[e]} : told'[m] = told[m]
    BY <1>2, <1>5, <2>1 DEF EndRecord, TypeOK
  <2>3. SalePhase[job[e]] = "asked"
    BY <1>2, <2>1, Phases
  <2>4. SalePhase' = [SalePhase EXCEPT ![job[e]] = "confirmed"]
    <3>1. SalePhase'[job[e]] = "confirmed"
      BY <1>1, <1>2, <2>2 DEF SalePhase
    <3>2. \A m \in Record \ {job[e]} : SalePhase'[m] = SalePhase[m]
      BY <1>1, <2>2 DEF SalePhase
    <3>3. SalePhase = [m \in Record |-> SalePhase[m]]
          /\ SalePhase' = [m \in Record |-> SalePhase'[m]]
      BY DEF SalePhase
    <3> QED
      BY <1>2, <3>1, <3>2, <3>3
  <2>5. Sale!Backed(job[e])
    <3>1. rows[Id(e)].status = "success" /\ rows[Id(e)].by = job[e]
          /\ rows[Id(e)].type = Type(e) /\ (Type(e) = "numbered" => rows[Id(e)].seat = Seat(e))
      BY <2>1 DEF RowOf
    <3>2. rows[Id(e)] \in Row
      BY <1>2, <3>1 DEF TypeOK, TablesTypeOK, NoRow
    <3>3. CASE Type(e) = "unnumbered"
      BY <1>2, <3>1, <3>3 DEF Sale!Backed, Buyers
    <3>4. CASE Type(e) = "numbered"
      <4>1. SoldSeat(rows[Id(e)], Seat(e))
        BY <3>1, <3>4 DEF SoldSeat
      <4>2. Seat(e) \in Seats
        <5>1. ~Invalid(job[e])
          BY <1>1, <1>5 DEF EnvsOK, EnvOK
        <5> QED
          BY <1>1, <3>4, <5>1, RowTypes
      <4>3. Owner[Seat(e)] = job[e]
        BY <1>2, <3>1, <4>1, <4>2, OwnerFacts
      <4> QED
        BY <4>2, <4>3 DEF Sale!Backed, Seats
    <3> QED
      BY <3>1, <3>2, <3>3, <3>4 DEF Row
  <2>6. Sale!Confirm(job[e])
    BY <1>1, <1>3, <2>3, <2>4, <2>5 DEF Sale!Confirm
  <2> QED
    BY <1>2, <2>6 DEF Sale!Next
<1> QED
  BY <1>4, <1>5

(* Whoever leaves SQS untold is closed.                                    *)
LEMMA CloseRefines ==
    ASSUME HandlerInv, HandlerInv', NEW M \in SUBSET Record, NEW to \in {"deleted", "dead"},
           \A m \in M : place[m] \in {"queued", "inflight"}, Move(M, to),
           rows' = rows, sold' = sold, told' = told
    PROVE  Sale!Next
<1> USE DEF HandlerInv
<1>1. PICK C \in SUBSET Record : C = {m \in M : told[m] = 0}
  OBVIOUS
<1>2. \A c \in C : SalePhase[c] = "asked"
  BY <1>1, Phases
<1>3. ASSUME NEW m \in Record
      PROVE  SalePhase'[m] = IF m \in C THEN "closed" ELSE SalePhase[m]
  <2>1. place'[m] = (IF m \in M THEN to ELSE place[m]) /\ told'[m] = told[m]
        /\ told[m] \in Nat
    BY DEF Move, TypeOK
  <2>2. CASE m \in C
    BY <1>1, <2>1, <2>2 DEF SalePhase
  <2>3. CASE m \in M /\ m \notin C
    <3>1. told[m] > 0 /\ place[m] # "unsent" /\ place'[m] # "unsent"
      BY <1>1, <2>1, <2>3
    <3> QED
      BY <2>1, <2>3, <3>1 DEF SalePhase
  <2>4. CASE m \notin M
    <3>1. place'[m] = place[m] /\ m \notin C
      BY <1>1, <2>1, <2>4
    <3> QED
      BY <2>1, <3>1 DEF SalePhase
  <2> QED
    BY <2>2, <2>3, <2>4
<1>4. SalePhase' = [m \in Record |-> IF m \in C THEN "closed" ELSE SalePhase[m]]
  BY <1>3 DEF SalePhase
<1>5. Sale!Close(C)
  BY <1>2, <1>4, SaleStays DEF Sale!Close
<1> QED
  BY <1>5 DEF Sale!Next

(* Every step is one of the abstract sale, or none of its business.        *)
LEMMA SaleStep ==
    ASSUME HandlerInv, HandlerInv', [Next]_vars
    PROVE  Sale!Next \/ UNCHANGED Sale!saleVars
<1> USE DEF HandlerInv
<1>1. ASSUME rows' = rows, sold' = sold, told' = told,
             \A m \in Record : \/ place'[m] = place[m]
                               \/ /\ place[m] \in {"queued", "inflight"}
                                  /\ place'[m] \in {"queued", "inflight"}
      PROVE  UNCHANGED Sale!saleVars
  BY <1>1, SaleStays, PhasesStay DEF Sale!saleVars
<1>2. CASE UNCHANGED vars
  BY <1>1, <1>2 DEF vars, tableVars, handlerVars
<1>3. ASSUME NEW m \in Record, Arrive(m)
      PROVE  Sale!Next
  <2>1. /\ place[m] = "unsent" /\ place'[m] = "queued"
        /\ \A n \in Record \ {m} : place'[n] = place[n]
        /\ rows' = rows /\ sold' = sold /\ told' = told /\ told[m] = 0
    BY <1>3 DEF Arrive, Move, tableVars, UnsentUntold
  <2>2. SalePhase[m] = "new"
    BY <2>1, Phases
  <2>3. SalePhase' = [SalePhase EXCEPT ![m] = "asked"]
    <3>1. SalePhase'[m] = "asked"
      BY <2>1 DEF SalePhase
    <3>2. \A n \in Record \ {m} : SalePhase'[n] = SalePhase[n]
      BY <2>1 DEF SalePhase
    <3> QED
      BY <3>1, <3>2 DEF SalePhase
  <2>4. Sale!Ask(m)
    BY <2>1, <2>2, <2>3, SaleStays DEF Sale!Ask
  <2> QED
    BY <2>4 DEF Sale!Next
<1>4. ASSUME NEW m \in Record, DeadLetter(m)
      PROVE  Sale!Next
  <2>1. {m} \in SUBSET Record /\ place[m] = "queued" /\ Move({m}, "dead")
        /\ rows' = rows /\ sold' = sold /\ told' = told
    BY <1>4 DEF DeadLetter, tableVars
  <2> QED
    BY <2>1, CloseRefines
<1>5. ASSUME NEW e \in Env, FinishBatch(e)
      PROVE  Sale!Next
  <2>1. /\ Members(e) \in SUBSET Record /\ Move(Members(e), "deleted")
        /\ \A m \in Members(e) : place[m] = "inflight"
        /\ rows' = rows /\ sold' = sold /\ told' = told
    BY <1>5, MembersAreRecords DEF FinishBatch, tableVars, BatchesOK
  <2> QED
    BY <2>1, CloseRefines
<1>6. ASSUME NEW e \in Env, Unparsable(e) \/ RaiseViolation(e) \/ Interrupt(e)
      PROVE  UNCHANGED Sale!saleVars
  <2>1. Fail(e)
    BY <1>6 DEF Unparsable, RaiseViolation, Interrupt
  <2>2. \A m \in Members(e) : place[m] = "inflight"
    BY DEF BatchesOK
  <2> QED
    BY <1>1, <2>1, <2>2 DEF Fail, Move, tableVars
<1>7. ASSUME NEW e \in Env, Invoke(e)
      PROVE  UNCHANGED Sale!saleVars
  <2>1. PICK M \in SUBSET {m \in Record : place[m] = "queued" /\ receives[m] < MaxReceives} :
          Move(M, "inflight")
    BY <1>7 DEF Invoke
  <2>2. rows' = rows /\ sold' = sold /\ told' = told
    BY <1>7 DEF Invoke, tableVars
  <2> QED
    BY <1>1, <2>1, <2>2 DEF Move
<1>8. ASSUME NEW e \in Env, BeginRecord(e) \/ RunStatement(e), ~Commit(e)
      PROVE  UNCHANGED Sale!saleVars
  <2>1. rows' = rows /\ sold' = sold
    BY <1>8, OnlyCommitWrites DEF Run
  <2>2. place' = place /\ told' = told
    BY <1>8 DEF BeginRecord, RunStatement, handlerVars
  <2> QED
    BY <1>1, <2>1, <2>2
<1>9. ASSUME NEW e \in Env, Commit(e), UNCHANGED handlerVars
      PROVE  Sale!Next \/ UNCHANGED Sale!saleVars
  BY <1>9, CommitRefines
<1>10. ASSUME NEW e \in Env, BeginRecord(e)
       PROVE  ~Commit(e)
  BY <1>10 DEF BeginRecord, Commit
<1>11. ASSUME NEW e \in Env, EndRecord(e)
       PROVE  Sale!Next \/ UNCHANGED Sale!saleVars
  BY <1>11, EndRefines
<1> QED
  BY <1>2, <1>3, <1>4, <1>5, <1>6, <1>7, <1>8, <1>9, <1>10, <1>11 DEF Next, Run, RunStatement

(* Every behaviour of the tables and the handler is one of the abstract    *)
(* sale: COMMIT sells in one step, between the arrival of a record and     *)
(* what is told of it, and only what was sold is told.                     *)
THEOREM Implementation == Spec => ImplementsSale
  BY SaleInit, SaleStep, HandlerInvariant, PTL DEF Spec, Sale!Spec, ImplementsSale
=============================================================================
