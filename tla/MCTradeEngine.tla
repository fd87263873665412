---------------------------- MODULE MCTradeEngine ----------------------------
(* Constants of TradeEngine for TLC. *)
EXTENDS TradeEngineBook, TLC

CONSTANTS t1, t2, t3, r1

\* Leverage 10 at every duration.
TenTimes == [d \in Durations |-> 10]

\* Trades are interchangeable; runs too.
TradeSymmetry == Permutations(Trades)
=============================================================================
