---------------------------- MODULE SolvencyView ----------------------------
(***************************************************************************)
(* The book's capacity to pay its winners.  The database keeps the figures    *)
(* and admits positions by them; services/solvency.ts shows a remembered copy *)
(* of them, and keeps the operator float in step with the payout wallet; the   *)
(* console sets the float by hand and notifies the trading process.           *)
(*                                                                         *)
(* The database's own functions are not in the repository in this form; what   *)
(* they do is what services/sandbox-book.ts says they do and computes.         *)
(* Accounts of the test rig are outside the book and left out.               *)
(***************************************************************************)
EXTENDS Integers, FiniteSets, Functions

CONSTANTS
    Seats,              \* room for open positions
    BookStakes,         \* what a position may stake
    MaxProfitMultiple,  \* env.maxProfitMultiple
    PositionShare,      \* env.maxPositionShare, in hundredths
    MaxStake,           \* env.maxStake
    Floats,             \* what the operator may declare, and the wallet hold
    MaxCash,            \* bound on what customers have paid in
    MaxFloatMoves       \* bound on the changes of the float and of the wallet

ASSUME SolvencyAssumption ==
    /\ IsFiniteSet(Seats)
    /\ BookStakes \subseteq Nat
    /\ MaxProfitMultiple \in Nat \ {0}
    /\ PositionShare \in 0..100
    /\ MaxStake \in Nat
    /\ Floats \subseteq Nat
    /\ MaxCash \in Nat /\ MaxFloatMoves \in Nat

VARIABLES
    cash, owed, operatorFloat,  \* fpesa_book_float: paid in, owed to traders, declared
    atRisk,             \* what open positions may take out of the book, in all
    seats,              \* the open positions: stake and most profit, or Vacant
    highFloat,          \* the largest float declared so far
    wallet,             \* what the payout wallet holds
    floatMoves,
    view,               \* SolvencyView.cached, or the figures of a read
    viewIsFresh,        \* readAt is less than ten seconds ago
    viewRead,           \* the read in flight
    walletRead,         \* a balance the float sync has read and not written yet
    floatNotice         \* the console's notice is on its way

bookMoney == <<cash, owed, operatorFloat, atRisk, seats, highFloat>>
viewVars == <<view, viewIsFresh, viewRead>>
solvencyVars == <<bookMoney, wallet, floatMoves, viewVars, walletRead, floatNotice>>

Vacant == [stake |-> 0, most |-> 0]
Positions == [stake : BookStakes, most : Nat]
NoBalance == -1

AtLeastZero(n) == IF n < 0 THEN 0 ELSE n
AtMost(n, m) == IF n < m THEN n ELSE m

Headroom == cash + operatorFloat - owed - atRisk
Figures == [float |-> operatorFloat, room |-> Headroom]

\* maxLiveStake, of a headroom.
MaxLiveStake(room) ==
    AtLeastZero(AtMost(MaxStake,
        (AtLeastZero(room) * PositionShare) \div (100 * MaxProfitMultiple)))

-----------------------------------------------------------------------------
(* The database *)

Deposits(n) ==
    /\ cash + n <= MaxCash
    /\ cash' = cash + n /\ owed' = owed + n
    /\ UNCHANGED <<operatorFloat, atRisk, seats, highFloat, wallet, floatMoves, viewVars,
                   walletRead, floatNotice>>

Withdraws(n) ==
    /\ n <= owed
    /\ cash' = cash - n /\ owed' = owed - n
    /\ UNCHANGED <<operatorFloat, atRisk, seats, highFloat, wallet, floatMoves, viewVars,
                   walletRead, floatNotice>>

\* Mutant: the ceiling that is shown decides.
CoversRemembered(most) == AtLeastZero(view.room) * PositionShare >= 100 * most

\* fpesa_place_trade, in the transaction that debits the balance.
Covers(most) == AtLeastZero(Headroom) * PositionShare >= 100 * most

AdmitPosition(s, stake) ==
    LET most == stake * MaxProfitMultiple
    IN  /\ seats[s] = Vacant
        /\ stake > 0 /\ stake <= MaxStake /\ stake <= owed
        /\ Covers(most)
        /\ seats' = [seats EXCEPT ![s] = [stake |-> stake, most |-> most]]
        /\ owed' = owed - stake
        /\ atRisk' = atRisk + stake + most
        /\ UNCHANGED <<cash, operatorFloat, highFloat, wallet, floatMoves, viewVars,
                       walletRead, floatNotice>>

\* settle of a real position: the stake and its profit go back to the trader, and
\* the view is read again.
StartRead ==
    viewRead' = IF viewRead = {} THEN {[done |-> FALSE, seen |-> view]} ELSE viewRead

SettlePosition(s) ==
    /\ seats[s] # Vacant
    /\ \E profit \in -seats[s].stake .. seats[s].most :
          owed' = owed + seats[s].stake + profit
    /\ atRisk' = atRisk - seats[s].stake - seats[s].most
    /\ seats' = [seats EXCEPT ![s] = Vacant]
    /\ StartRead
    /\ UNCHANGED <<cash, operatorFloat, highFloat, wallet, floatMoves, view, viewIsFresh,
                   walletRead, floatNotice>>

Declare(f) ==
    /\ operatorFloat' = f
    /\ highFloat' = IF f > highFloat THEN f ELSE highFloat

-----------------------------------------------------------------------------
(* Setting the float *)

\* POST /float in the console.
SetFloat(f) ==
    /\ floatMoves < MaxFloatMoves /\ floatMoves' = floatMoves + 1
    /\ Declare(f)
    /\ floatNotice' = TRUE
    /\ UNCHANGED <<cash, owed, atRisk, seats, wallet, viewVars, walletRead>>

\* notifyFloatChanged: invalidate, or lost in silence.
NoticeArrives ==
    /\ floatNotice /\ floatNotice' = FALSE
    /\ viewIsFresh' = FALSE
    /\ UNCHANGED <<bookMoney, wallet, floatMoves, view, viewRead, walletRead>>

NoticeLost ==
    /\ floatNotice /\ floatNotice' = FALSE
    /\ UNCHANGED <<bookMoney, wallet, floatMoves, viewVars, walletRead>>

WalletMoves ==
    /\ floatMoves < MaxFloatMoves /\ floatMoves' = floatMoves + 1
    /\ wallet' \in Floats
    /\ UNCHANGED <<bookMoney, viewVars, walletRead, floatNotice>>

\* startFloatSync, every minute: the balance is read ...
SyncReads ==
    /\ walletRead = NoBalance /\ walletRead' = wallet
    /\ UNCHANGED <<bookMoney, wallet, floatMoves, viewVars, floatNotice>>

\* ... and written, whatever has been declared since, or the write is refused.
SyncWrites ==
    /\ walletRead # NoBalance /\ walletRead' = NoBalance
    /\ Declare(walletRead)
    /\ viewIsFresh' = FALSE
    /\ UNCHANGED <<cash, owed, atRisk, seats, wallet, floatMoves, view, viewRead, floatNotice>>

SyncFails ==
    /\ walletRead # NoBalance /\ walletRead' = NoBalance
    /\ UNCHANGED <<bookMoney, wallet, floatMoves, viewVars, floatNotice>>

-----------------------------------------------------------------------------
(* Showing the figures *)

\* Mutant: a view that has been read once is good for ever.
AskOnce ==
    /\ ~viewIsFresh /\ view = [float |-> 0, room |-> 0]
    /\ StartRead
    /\ UNCHANGED <<bookMoney, wallet, floatMoves, view, viewIsFresh, walletRead, floatNotice>>

\* GET /config: the remembered view, or a read that is shared.
AskView ==
    /\ ~viewIsFresh
    /\ StartRead
    /\ UNCHANGED <<bookMoney, wallet, floatMoves, view, viewIsFresh, walletRead, floatNotice>>

ReadExec(r) ==
    /\ ~r.done
    /\ viewRead' = {[done |-> TRUE, seen |-> Figures]}
    /\ UNCHANGED <<bookMoney, wallet, floatMoves, view, viewIsFresh, walletRead, floatNotice>>

\* What was read is stored as fresh, though the view was dropped meanwhile.
ReadReturns(r) ==
    /\ r.done
    /\ view' = r.seen /\ viewIsFresh' = TRUE /\ viewRead' = {}
    /\ UNCHANGED <<bookMoney, wallet, floatMoves, walletRead, floatNotice>>

ReadFails(r) ==
    /\ viewRead' = {}
    /\ UNCHANGED <<bookMoney, wallet, floatMoves, view, viewIsFresh, walletRead, floatNotice>>

\* Ten seconds have passed since readAt.
ViewAges ==
    /\ viewIsFresh /\ viewIsFresh' = FALSE
    /\ UNCHANGED <<bookMoney, wallet, floatMoves, view, viewRead, walletRead, floatNotice>>

-----------------------------------------------------------------------------
SolvencyInit ==
    /\ cash = 0 /\ owed = 0 /\ operatorFloat \in Floats /\ highFloat = operatorFloat
    /\ atRisk = 0 /\ seats = [s \in Seats |-> Vacant]
    /\ wallet \in Floats /\ floatMoves = 0
    /\ view = [float |-> 0, room |-> 0] /\ viewIsFresh = FALSE /\ viewRead = {}
    /\ walletRead = NoBalance /\ floatNotice = FALSE

SolvencyNext ==
    \/ \E n \in BookStakes : Deposits(n) \/ Withdraws(n)
    \/ \E s \in Seats : SettlePosition(s) \/ \E stake \in BookStakes : AdmitPosition(s, stake)
    \/ \E f \in Floats : SetFloat(f)
    \/ NoticeArrives \/ NoticeLost
    \/ WalletMoves \/ SyncReads \/ SyncWrites \/ SyncFails
    \/ AskView \/ ViewAges
    \/ \E r \in viewRead : ReadExec(r) \/ ReadReturns(r) \/ ReadFails(r)

SolvencySpec == SolvencyInit /\ [][SolvencyNext]_solvencyVars

-----------------------------------------------------------------------------
(* Properties *)

\* Every figure is what the code keeps in it: nothing owed is negative, and what
\* is at risk is what the open positions may pay.
ViewTypes == [float : Nat, room : Int]
SolvencyTypeOK ==
    /\ cash \in Int /\ owed \in Nat /\ operatorFloat \in Nat /\ highFloat \in Nat
    /\ seats \in [Seats -> Positions \cup {Vacant}]
    /\ atRisk = SumFunction([s \in Seats |-> seats[s].stake + seats[s].most])
    /\ wallet \in Nat /\ floatMoves \in Nat
    /\ view \in ViewTypes /\ viewIsFresh \in BOOLEAN
    /\ viewRead \subseteq [done : BOOLEAN, seen : ViewTypes]
    /\ walletRead \in Nat \cup {NoBalance} /\ floatNotice \in BOOLEAN

\* "a win that can happen is always a win that can be paid": however many positions
\* are opened at once, and however old the view is by then, if all of them win
\* their most the book is short at most of what the operator has taken back.
BookCovers == Headroom >= operatorFloat - highFloat

\* What the panel is drawn from becomes the float that was declared, though the
\* notice is lost and a read that is in flight stores what it read before.
ViewFollowsFloat == <>[](view.float = operatorFloat)
=============================================================================
