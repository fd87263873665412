-------------------------------- MODULE Book ---------------------------------
(***************************************************************************)
(* What the trading engine promises a trader and the house: a position is  *)
(* opened by taking its stake from one balance, closed exactly once, and    *)
(* closing it pays the stake plus a result between losing the stake and the *)
(* ceiling fixed at open.  A demo balance may be topped up in between.      *)
(* Processes, timers, retries and restarts do not exist here.               *)
(***************************************************************************)
EXTENDS Integers

CONSTANTS Trades, Accounts, RealAccounts, Stakes, Ceilings, StartBalance, NoPosition

VARIABLES balance, position

bookVars == <<balance, position>>

Init ==
    /\ balance = [a \in Accounts |-> StartBalance]
    /\ position = [t \in Trades |-> NoPosition]

Position(isOpen, a, st, c, x) ==
    [open |-> isOpen, acct |-> a, stake |-> st, ceiling |-> c, result |-> x]

Open(t) ==
    /\ position[t] = NoPosition
    /\ \E a \in Accounts, st \in Stakes, c \in Ceilings :
          /\ balance[a] >= st
          /\ balance' = [balance EXCEPT ![a] = @ - st]
          /\ position' = [position EXCEPT ![t] = Position(TRUE, a, st, c, 0)]

Close(t) ==
    LET p == position[t]
    IN  /\ p # NoPosition
        /\ p.open
        /\ \E x \in -p.stake .. p.ceiling :
              /\ position' = [position EXCEPT ![t] =
                                  Position(FALSE, p.acct, p.stake, p.ceiling, x)]
              /\ balance' = [balance EXCEPT ![p.acct] = @ + p.stake + x]

TopUp(a) ==
    /\ a \in Accounts \ RealAccounts
    /\ balance' = [balance EXCEPT ![a] = StartBalance]
    /\ UNCHANGED position

Next ==
    \/ \E t \in Trades : Open(t) \/ Close(t)
    \/ \E a \in Accounts : TopUp(a)

Spec == Init /\ [][Next]_bookVars

\* Every open position is closed in the end.
FairSpec == Spec /\ \A t \in Trades : WF_bookVars(Close(t))
=============================================================================
