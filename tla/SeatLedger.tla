----------------------------- MODULE SeatLedger -----------------------------
(***************************************************************************)
(* What the purchase path promises about the seats of an event, with no    *)
(* reservations, orders, payments or clocks: an event opens with all its   *)
(* seats free; a step holds free seats, returns held seats, or sells held  *)
(* seats; a sold seat is never held or free again.                         *)
(***************************************************************************)
EXTENDS Integers

CONSTANTS Events, TotalSeats

VARIABLES free, held, sold

ledger == <<free, held, sold>>

Init ==
    /\ free = [e \in Events |-> 0]
    /\ held = [e \in Events |-> 0]
    /\ sold = [e \in Events |-> 0]

Open(e) ==
    /\ free[e] + held[e] + sold[e] = 0
    /\ free' = [free EXCEPT ![e] = TotalSeats[e]]
    /\ UNCHANGED <<held, sold>>

Hold(e, n) ==
    /\ free' = [free EXCEPT ![e] = @ - n]
    /\ held' = [held EXCEPT ![e] = @ + n]
    /\ UNCHANGED sold

Return(e, n) ==
    /\ free' = [free EXCEPT ![e] = @ + n]
    /\ held' = [held EXCEPT ![e] = @ - n]
    /\ UNCHANGED sold

Sell(e, n) ==
    /\ held' = [held EXCEPT ![e] = @ - n]
    /\ sold' = [sold EXCEPT ![e] = @ + n]
    /\ UNCHANGED free

Next ==
    \E e \in Events :
        \/ Open(e)
        \/ \E n \in 1 .. free[e] : Hold(e, n)
        \/ \E n \in 1 .. held[e] : Return(e, n) \/ Sell(e, n)

Spec == Init /\ [][Next]_ledger
=============================================================================
