-------------------------- MODULE TicketProcessor --------------------------
(***************************************************************************)
(* The purchase of the AWS variant: one PostgreSQL transaction per record, *)
(* run by the Lambda environment that got the record.  PostgreSQL runs one *)
(* statement of a transaction at a time (READ COMMITTED): a statement sees *)
(* what is committed, and waits for the row locks and the uncommitted      *)
(* index entries of other transactions it collides with.                   *)
(*                                                                         *)
(* An environment runs one transaction, so what it has written and not     *)
(* committed follows from where it is and from the row it drafts:          *)
(* HoldsCounter, HoldsSeatRow and Uncommitted.                             *)
(***************************************************************************)
EXTENDS Integers, FiniteSets

CONSTANTS Env,            \* Lambda execution environments
          Record,         \* records of the SQS queue
          Ids,            \* request ids
          OrderOf,        \* what each record asks for
          MaxUnnumbered,  \* MAX_UNNUMBERED
          MaxSeats,       \* MAX_SEATS
          NoSeat,         \* seat_number = None
          Nobody          \* no record

ASSUME TicketLimitsAssumption == MaxUnnumbered \in Nat /\ MaxSeats \in Nat

ASSUME RecordAssumption == IsFiniteSet(Record) /\ Nobody \notin Record

(* The same request id may come in several records.  The body of an        *)
(* "unparsable" record is not JSON; an "unknown" one names another type.   *)
ASSUME RequestAssumption ==
    OrderOf \in [Record -> [id   : Ids,
                            type : {"unnumbered", "numbered", "unknown", "unparsable"},
                            seat : Int \cup {NoSeat}]]

ASSUME SeatNumberAssumption == NoSeat \notin Int

VARIABLES sold,    \* ticket_counter.sold, as committed
          rows,    \* the committed row of each request id
          pc,      \* the statement each environment runs next
          job,     \* the record it processes
          draft,   \* the row its transaction inserts
          result   \* what process returns

tableVars == <<sold, rows>>
txVars    == <<pc, job, draft, result>>

Seats == 1..MaxSeats

Row == [status : {"success", "oversold", "seat_taken"},
        type   : {"unnumbered", "numbered"},
        seat   : Seats \cup {NoSeat},
        by     : Record]       \* not a column: which record inserted it

NoRow == [status |-> "none", type |-> "none", seat |-> NoSeat, by |-> Nobody]

TablesInit == /\ sold = 0
              /\ rows = [i \in Ids |-> NoRow]
              /\ pc = [e \in Env |-> "idle"]
              /\ job = [e \in Env |-> Nobody]
              /\ draft = [e \in Env |-> NoRow]
              /\ result = [e \in Env |-> "none"]

Id(e)   == OrderOf[job[e]].id
Type(e) == OrderOf[job[e]].type
Seat(e) == OrderOf[job[e]].seat

RowOf(e, status) == [status |-> status, type |-> Type(e), by |-> job[e],
                     seat |-> IF Type(e) = "numbered" THEN Seat(e) ELSE NoSeat]

SoldSeat(row, s) == row.status = "success" /\ row.type = "numbered" /\ row.seat = s

(* What transactions hold until they end.                                  *)
HoldsCounter(e) == /\ pc[e] \in {"insert", "commit"}
                   /\ Type(e) = "unnumbered" /\ result[e] = "success"

HoldsSeatRow(e, s) == /\ pc[e] \in {"insert", "commit"}
                      /\ Type(e) = "numbered" /\ Seat(e) = s /\ result[e] = "seat_taken"

Uncommitted(e) == pc[e] = "commit" /\ draft[e] # NoRow

(* What the two unique indexes of tickets keep apart: the request id, and  *)
(* idx_seat_unique, the seat of a numbered row with status success.        *)
Collides(row, i, other, j) == \/ i = j
                              \/ \E s \in Seats : SoldSeat(row, s) /\ SoldSeat(other, s)

-----------------------------------------------------------------------------
(* process: a bad seat or type is refused before any statement.            *)
Invalid(m) == \/ OrderOf[m].type = "unknown"
              \/ OrderOf[m].type = "numbered" /\ OrderOf[m].seat \notin Seats

Process(e, m) == /\ job' = [job EXCEPT ![e] = m]
                 /\ draft' = [draft EXCEPT ![e] = NoRow]
                 /\ IF Invalid(m)
                    THEN /\ pc' = [pc EXCEPT ![e] = "return"]
                         /\ result' = [result EXCEPT ![e] = "error"]
                    ELSE /\ pc' = [pc EXCEPT ![e] = "select"]
                         /\ result' = [result EXCEPT ![e] = "none"]

(* SELECT status: the idempotency check.                                   *)
SelectRequest(e) ==
    /\ pc[e] = "select"
    /\ \/ /\ rows[Id(e)] # NoRow
          /\ result' = [result EXCEPT ![e] = "duplicate"]
          /\ pc' = [pc EXCEPT ![e] = "commit"]
       \/ /\ rows[Id(e)] = NoRow
          /\ pc' = [pc EXCEPT ![e] = IF Type(e) = "unnumbered" THEN "update" ELSE "lock"]
          /\ UNCHANGED result
    /\ UNCHANGED <<tableVars, job, draft>>

Draft(e, status) == /\ draft' = [draft EXCEPT ![e] = RowOf(e, status)]
                    /\ result' = [result EXCEPT ![e] = status]
                    /\ pc' = [pc EXCEPT ![e] = "insert"]

(* Slip: the counter is read and written without its row lock.            *)
UpdateUnlocked(e) == /\ pc[e] = "update"
                     /\ Draft(e, IF sold < MaxUnnumbered THEN "success" ELSE "oversold")
                     /\ UNCHANGED <<tableVars, job>>

(* UPDATE ticket_counter: waits while another transaction holds the row.   *)
UpdateCounter(e) ==
    /\ pc[e] = "update"
    /\ \A f \in Env \ {e} : ~HoldsCounter(f)
    /\ Draft(e, IF sold < MaxUnnumbered THEN "success" ELSE "oversold")
    /\ UNCHANGED <<tableVars, job>>

(* SELECT ... FOR UPDATE SKIP LOCKED: a sold seat whose row another        *)
(* transaction has locked looks free, and the INSERT of a sale is tried.   *)
LockSeat(e) ==
    LET found == /\ \E i \in Ids : SoldSeat(rows[i], Seat(e))
                 /\ \A f \in Env \ {e} : ~HoldsSeatRow(f, Seat(e))
    IN  /\ pc[e] = "lock"
        /\ Draft(e, IF found THEN "seat_taken" ELSE "success")
        /\ UNCHANGED <<tableVars, job>>

(* Slip: idx_seat_unique is missing.                                       *)
InsertRequestOnly(e) == /\ pc[e] = "insert"
                        /\ rows[Id(e)] = NoRow
                        /\ pc' = [pc EXCEPT ![e] = "commit"]
                        /\ UNCHANGED <<tableVars, job, draft, result>>

(* Slip: the idempotency check takes a shared lock on the request id, and  *)
(* the INSERT has to wait for whoever shares it.                           *)
ReadyUpgraded(e) == /\ pc[e] = "insert"
                    /\ \A f \in Env \ {e} :
                          /\ ~(Uncommitted(f) /\ Collides(draft[e], Id(e), draft[f], Id(f)))
                          /\ pc[f] \in {"update", "lock", "insert", "commit"} => Id(f) # Id(e)

(* INSERT: it waits for the transactions it may collide with...            *)
Ready(e) == /\ pc[e] = "insert"
            /\ \A f \in Env \ {e} :
                  ~(Uncommitted(f) /\ Collides(draft[e], Id(e), draft[f], Id(f)))

Violates(e) == \E i \in Ids : rows[i] # NoRow /\ Collides(draft[e], Id(e), rows[i], i)

(* ... and then succeeds, ...                                              *)
Insert(e) == /\ Ready(e)
             /\ ~Violates(e)
             /\ pc' = [pc EXCEPT ![e] = "commit"]
             /\ UNCHANGED <<tableVars, job, draft, result>>

(* Slip: INSERT of a sale with ON CONFLICT DO NOTHING as well.             *)
SkipAnyInsert(e) == /\ pc[e] = "insert"
                    /\ \E i \in Ids : rows[i] # NoRow /\ Collides(draft[e], Id(e), rows[i], i)
                    /\ pc' = [pc EXCEPT ![e] = "commit"]
                    /\ draft' = [draft EXCEPT ![e] = NoRow]
                    /\ UNCHANGED <<tableVars, job, result>>

(* ... or does nothing (ON CONFLICT, for a rejection), ...                 *)
SkipInsert(e) == /\ Ready(e)
                 /\ Violates(e)
                 /\ draft[e].status = "seat_taken"
                 /\ pc' = [pc EXCEPT ![e] = "commit"]
                 /\ draft' = [draft EXCEPT ![e] = NoRow]
                 /\ UNCHANGED <<tableVars, job, result>>

(* ... or raises a unique violation.                                       *)
Refused(e) == /\ Ready(e)
              /\ Violates(e)
              /\ draft[e].status # "seat_taken"

(* COMMIT, when the with block ends.                                       *)
Commit(e) == /\ pc[e] = "commit"
             /\ rows' = IF draft[e] = NoRow THEN rows ELSE [rows EXCEPT ![Id(e)] = draft[e]]
             /\ sold' = IF HoldsCounter(e) THEN sold + 1 ELSE sold
             /\ pc' = [pc EXCEPT ![e] = "return"]
             /\ UNCHANGED <<job, draft, result>>

(* The transaction is over, or is rolled back.                             *)
Discard(e) == /\ pc' = [pc EXCEPT ![e] = "idle"]
              /\ job' = [job EXCEPT ![e] = Nobody]
              /\ draft' = [draft EXCEPT ![e] = NoRow]
              /\ result' = [result EXCEPT ![e] = "none"]

-----------------------------------------------------------------------------
Statement(e) == \/ SelectRequest(e)
                \/ UpdateCounter(e)
                \/ LockSeat(e)
                \/ Insert(e)
                \/ SkipInsert(e)
                \/ Commit(e)

TablesTypeOK ==
    /\ sold \in 0..MaxUnnumbered
    /\ rows \in [Ids -> Row \cup {NoRow}]
    /\ pc \in [Env -> {"idle", "select", "update", "lock", "insert", "commit", "return"}]
    /\ job \in [Env -> Record \cup {Nobody}]
    /\ draft \in [Env -> Row \cup {NoRow}]
    /\ result \in [Env -> {"none", "success", "duplicate", "oversold", "seat_taken", "error"}]

(* The counter and the rows are written by different statements and agree  *)
(* all the same: as many tickets are counted as rows say success.          *)
CounterMatchesRows ==
    sold = Cardinality({i \in Ids : rows[i].status = "success" /\ rows[i].type = "unnumbered"})

(* Each seat can be sold exactly once (setup_postgres.sh:38), also when    *)
(* SKIP LOCKED hides its row and a sale is inserted: the unique index      *)
(* refuses it.                                                             *)
SeatSoldOnce ==
    \A i, j \in Ids : \A s \in Seats :
        SoldSeat(rows[i], s) /\ SoldSeat(rows[j], s) => i = j
=============================================================================
