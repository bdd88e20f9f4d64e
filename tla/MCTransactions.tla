--------------------------- MODULE MCTransactions --------------------------
(* Transactions for TLC: two goroutines, and rows that differ in the balance. *)
EXTENDS Transactions

CONSTANT u1

Rows == [uuid : {u1}, balance : {1, 2}, subUntil : {0}, status : {"active"}]
=============================================================================
