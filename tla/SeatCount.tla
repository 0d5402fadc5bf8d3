------------------------------ MODULE SeatCount ------------------------------
(***************************************************************************)
(* How many seats the rows of a table stand for.  A table is a function    *)
(* from its row identifiers to the number of seats each row occupies.  The *)
(* seats of a row are numbered, so a total is the cardinality of a set:    *)
(* PurchaseProofs reasons about it without a recursive sum.                *)
(***************************************************************************)
EXTENDS Integers, FiniteSets

SeatsOf(quantity) ==
    UNION {{row} \X (1 .. quantity[row]) : row \in DOMAIN quantity}

SeatTotal(quantity) == Cardinality(SeatsOf(quantity))
=============================================================================
