------------------------------ MODULE MCPayments ------------------------------
(* Constants of Payments for TLC. *)
EXTENDS Payments, TLC

CONSTANTS x1, x2, h1, h2, w1, w2

\* Transactions, handlers and sweeps are interchangeable.
PaymentSymmetry ==
    Permutations(Txs) \cup Permutations(Handlers) \cup Permutations(Sweepers)
=============================================================================
