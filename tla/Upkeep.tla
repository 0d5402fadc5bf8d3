------------------------------- MODULE Upkeep -------------------------------
(***************************************************************************)
(* What an instance does besides answering purchases: it sweeps overdue    *)
(* orders and reservations in batches, keeps a copy of every new           *)
(* reservation in Redis for reads, and stops or crashes and starts again.  *)
(*                                                                         *)
(* Several instances sweep the same tables.  A transaction is one step;    *)
(* what follows its COMMIT, the calls to Redis and the note of a failed    *)
(* order, is a step of its own that a crash or an outage may lose.  Some   *)
(* orders can never be expired: their transaction fails every time.  What  *)
(* expiration does to the seats is Purchase's subject.                     *)
(*                                                                         *)
(* Time: an order joins overdue when its deadline passes, a reservation    *)
(* joins due.  Both are in the order of the scans: a failure noted later   *)
(* than every deadline already passed puts its order last.                 *)
(***************************************************************************)
EXTENDS Naturals, Sequences, SequencesExt

CONSTANTS
    Instances,
    Orders, Reservations,
    Stuck,           \* orders whose expiration always fails
    OrderBatch,      \* ORDER_SWEEP_BATCH_SIZE
    MaxPerSweep,     \* of the reservation sweeper
    MaxStops         \* bounds the shutdowns and crashes

ASSUME UpkeepAssumption ==
    /\ Stuck \subseteq Orders
    /\ {OrderBatch, MaxPerSweep} \subseteq Nat \ {0}

VARIABLES
    order,       \* the status of each order
    overdue,     \* pending orders past their deadline, in the order of the scan
    reservation, \* the row of each reservation
    due,         \* active reservations past their expiry, oldest first
    hold,        \* Redis: the reservation as it was created, or "none"
    calls,       \* Redis calls still to be made, per reservation
    inst,        \* the instances: life, and the batches of their sweepers
    stops        \* the shutdowns and crashes so far

upkeepVars == <<order, overdue, reservation, due, hold, calls, inst, stops>>

Final == {"released", "expired", "converted"}

\* orders and reservations are what the sweepers of an instance have left; failed is the order
\* whose failure it is about to note.
Fresh == [life |-> "up", sweeping |-> FALSE, orders |-> <<>>, failed |-> <<>>,
          reservations |-> <<>>]

UpkeepInit ==
    /\ order = [o \in Orders |-> "pending"]
    /\ overdue = <<>>
    /\ reservation = [r \in Reservations |-> "none"]
    /\ due = <<>>
    /\ hold = [r \in Reservations |-> "none"]
    /\ calls = [r \in Reservations |-> {}]
    /\ inst = [i \in Instances |-> Fresh]
    /\ stops = 0

First(s, n) == SubSeq(s, 1, IF Len(s) < n THEN Len(s) ELSE n)

rows == <<order, overdue>>
reservationVars == <<reservation, due, hold, calls>>

----------------------------------------------------------------------------
(* Orders: checkout.service and the webhook outside the sweeper.           *)

DeadlinePasses(o) ==
    /\ order[o] = "pending" /\ ~Contains(overdue, o)
    /\ overdue' = Append(overdue, o)
    /\ UNCHANGED <<order, inst, stops>> /\ UNCHANGED reservationVars

Paid(o) ==
    /\ order[o] = "pending"
    /\ order' = [order EXCEPT ![o] = "paid"]
    /\ overdue' = SelectSeq(overdue, LAMBDA x : x # o)
    /\ UNCHANGED <<inst, stops>> /\ UNCHANGED reservationVars

(* The order sweeper of instance i.                                        *)

\* sweepExpiredOrders: the scan.  A new pass begins when the last one is over.
Scan(i) ==
    /\ inst[i].life = "up" /\ ~inst[i].sweeping
    /\ inst' = [inst EXCEPT ![i].sweeping = TRUE, ![i].orders = First(overdue, OrderBatch)]
    /\ UNCHANGED rows /\ UNCHANGED reservationVars /\ UNCHANGED stops

InTurn(i) == inst[i].orders # <<>> /\ inst[i].failed = <<>> /\ inst[i].life = "up"

\* The transaction of the next order: expired now, or found final and skipped.
ExpireOrder(i, o) ==
    /\ InTurn(i) /\ o = Head(inst[i].orders)
    /\ order[o] = "pending" => o \notin Stuck
    /\ IF order[o] = "pending"
       THEN /\ order' = [order EXCEPT ![o] = "expired"]
            /\ overdue' = SelectSeq(overdue, LAMBDA x : x # o)
       ELSE UNCHANGED rows
    /\ inst' = [inst EXCEPT ![i].orders = Tail(@)]
    /\ UNCHANGED stops /\ UNCHANGED reservationVars

OrderFails(i, o) ==
    /\ InTurn(i) /\ o = Head(inst[i].orders)
    /\ inst' = [inst EXCEPT ![i].orders = Tail(@), ![i].failed = <<o>>]
    /\ UNCHANGED rows /\ UNCHANGED stops /\ UNCHANGED reservationVars

\* A failure noted nowhere: only the batch goes on.
NoteFailureNowhere(i, o) ==
    /\ inst[i].failed = <<o>>
    /\ inst' = [inst EXCEPT ![i].failed = <<>>]
    /\ UNCHANGED rows /\ UNCHANGED stops /\ UNCHANGED reservationVars

\* expiration_last_failed_at: the order goes to the end of the scan.
NoteFailure(i, o) ==
    /\ inst[i].failed = <<o>>
    /\ overdue' = IF order[o] = "pending" THEN Append(SelectSeq(overdue, LAMBDA x : x # o), o)
                  ELSE overdue
    /\ inst' = [inst EXCEPT ![i].failed = <<>>]
    /\ UNCHANGED <<order, stops>> /\ UNCHANGED reservationVars

\* The note is lost; the order keeps its place.
NoteLost(i) ==
    /\ inst[i].failed # <<>>
    /\ inst' = [inst EXCEPT ![i].failed = <<>>]
    /\ UNCHANGED rows /\ UNCHANGED stops /\ UNCHANGED reservationVars

\* The pass is over: all done, or stopped between two orders.
PassEnds(i) ==
    /\ inst[i].sweeping /\ inst[i].failed = <<>>
    /\ inst[i].orders = <<>> \/ inst[i].life # "up"
    /\ inst' = [inst EXCEPT ![i].sweeping = FALSE, ![i].orders = <<>>]
    /\ UNCHANGED rows /\ UNCHANGED stops /\ UNCHANGED reservationVars

----------------------------------------------------------------------------
(* Reservations.                                                           *)

\* createReservation commits; the hold is written afterwards.
Create(r) ==
    /\ reservation[r] = "none"
    /\ reservation' = [reservation EXCEPT ![r] = "active"]
    /\ calls' = [calls EXCEPT ![r] = @ \cup {"set"}]
    /\ UNCHANGED <<due, hold, inst, stops>> /\ UNCHANGED rows

Expires(r) ==
    /\ reservation[r] = "active" /\ ~Contains(due, r)
    /\ due' = Append(due, r)
    /\ UNCHANGED <<reservation, hold, calls, inst, stops>> /\ UNCHANGED rows

\* The row of r becomes final, and its hold is to be deleted; a final row stays as it is.
Finalise(r, status) ==
    /\ reservation' = [reservation EXCEPT ![r] = IF @ = "active" THEN status ELSE @]
    /\ due' = SelectSeq(due, LAMBDA x : x # r)
    /\ calls' = [calls EXCEPT ![r] = @ \cup {"del"}]
    /\ UNCHANGED hold /\ UNCHANGED rows

\* POST /checkouts with the reservation: converted, found overdue and expired, or
\* the replay of its order; any other final reservation is refused.
Checkout(r) ==
    /\ reservation[r] \in {"active", "converted"}
    /\ Finalise(r, IF Contains(due, r) THEN "expired" ELSE "converted")
    /\ UNCHANGED <<inst, stops>>

\* releaseReservation
Release(r) ==
    /\ reservation[r] # "none"
    /\ Finalise(r, "released")
    /\ UNCHANGED <<inst, stops>>

\* sweepExpiredReservations: the oldest due reservations.
ScanReservations(i) ==
    /\ inst[i].life = "up" /\ inst[i].reservations = <<>> /\ due # <<>>
    /\ inst' = [inst EXCEPT ![i].reservations = First(due, MaxPerSweep)]
    /\ UNCHANGED rows /\ UNCHANGED stops /\ UNCHANGED reservationVars

\* expireReservation of the next one; a failure leaves it to the next pass.
ExpireReservation(i, r) ==
    /\ inst[i].life \in {"up", "draining"}
    /\ inst[i].reservations # <<>> /\ r = Head(inst[i].reservations)
    /\ Finalise(r, "expired")
    /\ inst' = [inst EXCEPT ![i].reservations = Tail(@)]
    /\ UNCHANGED stops

ReservationFails(i) ==
    /\ inst[i].reservations # <<>>
    /\ inst' = [inst EXCEPT ![i].reservations = Tail(@)]
    /\ UNCHANGED rows /\ UNCHANGED stops /\ UNCHANGED reservationVars

\* cacheReservationHold, in any order with the deletions of later handlers.
SetHold(r) ==
    /\ "set" \in calls[r]
    /\ hold' = [hold EXCEPT ![r] = "active"]
    /\ calls' = [calls EXCEPT ![r] = @ \ {"set"}]
    /\ UNCHANGED <<reservation, due, inst, stops>> /\ UNCHANGED rows

DeleteHold(r) ==
    /\ "del" \in calls[r]
    /\ hold' = [hold EXCEPT ![r] = "none"]
    /\ calls' = [calls EXCEPT ![r] = @ \ {"del"}]
    /\ UNCHANGED <<reservation, due, inst, stops>> /\ UNCHANGED rows

\* The call fails, or its instance is gone.
CallLost(r) ==
    /\ calls[r] # {}
    /\ \E c \in calls[r] : calls' = [calls EXCEPT ![r] = @ \ {c}]
    /\ UNCHANGED <<reservation, due, hold, inst, stops>> /\ UNCHANGED rows

\* A hold written without a lifetime.
HoldStays(r) == FALSE /\ UNCHANGED upkeepVars

\* RESERVATION_TTL_SECONDS after the hold was written.
HoldEnds(r) ==
    /\ hold[r] # "none"
    /\ hold' = [hold EXCEPT ![r] = "none"]
    /\ UNCHANGED <<reservation, due, calls, inst, stops>> /\ UNCHANGED rows

\* getReservationHold: a read that fails, or finds no JSON, counts as no hold.
HoldRead(r) == {hold[r], "none"}

\* getReservationWithClient: the hold, else the row.
Found(r) == {IF copy # "none" THEN copy ELSE reservation[r] : copy \in HoldRead(r)}

\* GET /reservations/:id, where users must match: what the reservation may be answered to be.
\* To anybody but its owner it is not found.
Shown(r, owner) == IF owner THEN Found(r) ELSE {"none"}

----------------------------------------------------------------------------
(* The life of an instance.                                                *)

\* SIGTERM: the sweepers stop.  The order sweeper is waited for, the reservation sweeper is not.
Shutdown(i) ==
    /\ inst[i].life = "up" /\ stops < MaxStops
    /\ inst' = [inst EXCEPT ![i].life = "draining"]
    /\ stops' = stops + 1
    /\ UNCHANGED rows /\ UNCHANGED reservationVars

Down == [Fresh EXCEPT !.life = "down"]

Exit(i) ==
    /\ inst[i].life = "draining" /\ ~inst[i].sweeping
    /\ inst' = [inst EXCEPT ![i] = Down]
    /\ UNCHANGED rows /\ UNCHANGED stops /\ UNCHANGED reservationVars

Crash(i) ==
    /\ inst[i].life # "down" /\ stops < MaxStops
    /\ inst' = [inst EXCEPT ![i] = Down]
    /\ stops' = stops + 1
    /\ UNCHANGED rows /\ UNCHANGED reservationVars

\* The restarted instance sweeps at once.
Start(i) ==
    /\ inst[i].life = "down"
    /\ inst' = [inst EXCEPT ![i] = Fresh]
    /\ UNCHANGED rows /\ UNCHANGED stops /\ UNCHANGED reservationVars

----------------------------------------------------------------------------
SweepOrders(i) ==
    \/ Scan(i) \/ PassEnds(i) \/ NoteLost(i)
    \/ \E o \in Orders : ExpireOrder(i, o) \/ OrderFails(i, o) \/ NoteFailure(i, o)

SweepReservations(i) ==
    \/ ScanReservations(i) \/ ReservationFails(i)
    \/ \E r \in Reservations : ExpireReservation(i, r)

UpkeepNext ==
    \/ \E o \in Orders : DeadlinePasses(o) \/ Paid(o)
    \/ \E r \in Reservations :
           \/ Create(r) \/ Expires(r) \/ Checkout(r) \/ Release(r)
           \/ SetHold(r) \/ DeleteHold(r) \/ CallLost(r) \/ HoldEnds(r)
    \/ \E i \in Instances :
           \/ SweepOrders(i) \/ SweepReservations(i)
           \/ Shutdown(i) \/ Exit(i) \/ Crash(i) \/ Start(i)

\* Sweeping goes on while an instance is up, and a stopped instance is started again.  An order
\* that can be expired does not fail for ever, and its failures are not always lost.  Redis
\* keeps its promise to end a hold.
UpkeepFairness ==
    /\ \A i \in Instances : WF_upkeepVars(SweepOrders(i)) /\ WF_upkeepVars(Exit(i) \/ Start(i))
    /\ \A o \in Orders \ Stuck : SF_upkeepVars(\E i \in Instances : ExpireOrder(i, o))
    /\ \A o \in Orders : SF_upkeepVars(\E i \in Instances : NoteFailure(i, o))
    /\ \A r \in Reservations : WF_upkeepVars(HoldEnds(r))

UpkeepSpec == UpkeepInit /\ [][UpkeepNext]_upkeepVars /\ UpkeepFairness

----------------------------------------------------------------------------
\* An overdue order that can be expired is expired or paid in the end, though others fail every
\* time and fill a whole batch, instances sweep at once, stop and crash
\* (order-sweeper.ts:27, 49-62).
OrdersTurn == \A o \in Orders \ Stuck : Contains(overdue, o) ~> order[o] # "pending"

\* Once a reservation is final, its owner reads its row for good in the end, though its hold may
\* be written after the deletion that should have removed it (reservation.service.ts:163-200).
ReadsCatchUp ==
    \A r \in Reservations :
        reservation[r] \in Final ~> [](Shown(r, TRUE) = {reservation[r]})
====
