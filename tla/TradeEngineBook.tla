--------------------------- MODULE TradeEngineBook ---------------------------
(* The trading engine implements the abstract book: the rows of the trades   *)
(* table, read through this mapping, are the book's positions.               *)
EXTENDS TradeEngine

Ceilings == {st * ProfitMultiple : st \in Stakes}
            \cup {RoundHalfUp(st * PayoutBps, Bps) : st \in Stakes}

position ==
    [t \in Trades |->
        IF status[t] = "NONE" THEN NoTicket
        ELSE [open |-> status[t] = "OPEN", acct |-> ticket[t].acct,
              stake |-> ticket[t].stake, ceiling |-> ticket[t].maxProfit,
              result |-> outcome[t].profit]]

\* What stands for no position is not one.
ASSUME PositionAssumption ==
    NoTicket \notin [open : BOOLEAN, acct : Accounts, stake : Stakes,
                     ceiling : Ceilings, result : Int]

B == INSTANCE Book WITH NoPosition <- NoTicket

\* Whatever is retried, lost or restarted, the balances and rows only ever
\* change as the book allows: opened once, closed once, paid once.
ImplementsBook == B!Spec

\* ... and, with the engine's fairness, every position is closed in the end.
ImplementsFairBook == B!FairSpec
=============================================================================
