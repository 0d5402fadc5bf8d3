------------------------- MODULE MCSettlementRequests -------------------------
(***************************************************************************)
(* Small instances of SettlementRequests for TLC.                          *)
(***************************************************************************)
EXTENDS SettlementRequests, TLC

CONSTANTS Seats, SaleEnd

\* Every event has Seats seats and leaves the sale at SaleEnd.
MCTotalSeats == [e \in Events |-> Seats]
MCEndsAt == [e \in Events |-> SaleEnd]

\* One transaction id is the demo route's for every order: there is one order.
MCDemoTx == [k \in CheckoutKeys |-> CHOOSE t \in ProviderTxs : TRUE]

Interchangeable == Permutations(Requests) \cup Permutations(CallbackKeys)
=============================================================================
