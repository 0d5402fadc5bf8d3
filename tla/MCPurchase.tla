----------------------------- MODULE MCPurchase -----------------------------
(***************************************************************************)
(* Small instances of Purchase for TLC.                                    *)
(***************************************************************************)
EXTENDS Purchase, TLC

CONSTANTS Seats, SaleEnd

\* Every event has Seats seats and leaves the sale at SaleEnd.
MCTotalSeats == [e \in Events |-> Seats]
MCEndsAt == [e \in Events |-> SaleEnd]

Interchangeable ==
    Permutations(Buyers) \cup Permutations(ReservationIds) \cup Permutations(CheckoutKeys)
      \cup Permutations(ProviderTxs) \cup Permutations(CallbackKeys)
=============================================================================
