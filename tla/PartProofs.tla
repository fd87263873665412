------------------------------ MODULE PartProofs ------------------------------
(***************************************************************************)
(* Proofs about the parts that share no variable with the trading engine: the  *)
(* house's book and its display, the adapters of the payment providers, the     *)
(* sandbox's shadow of production and its comparison with it, what a ticket is     *)
(* sold at and paid, the passes that lower its price, the test rig; and what the   *)
(* trader's browser keeps besides positions: the market that is shown, the files    *)
(* kept offline and the charts.                                                 *)
(***************************************************************************)
EXTENDS FiniteSets, SolvencyView, Adapters, Conformance, Tickets, TradingPass, TestRig,
        ShadowFeed, MarketView, OfflineShell, PriceFeed, SequencesExt, SequenceTheorems, Arithmetic

-----------------------------------------------------------------------------
(* SolvencyView: for all stakes, multiples, shares and floats, and any number of open
   positions, the book covers what it may have to pay.  The property speaks of sums only,
   so the number of seats is free. *)

\* What the argument needs of the types: figures are integers, the operator's are
\* not negative, and an open position may pay its stake and its most.
Figured ==
    /\ cash \in Int /\ owed \in Int /\ atRisk \in Int
    /\ operatorFloat \in Nat /\ highFloat \in Nat
    /\ wallet \in Nat /\ walletRead \in Nat \cup {NoBalance}
    /\ seats \in [Seats -> [stake : Nat, most : Nat]]

\* The highest float is no lower than the float: then what the operator has taken back
\* is never negative, and a book that covers it has something to spare.
HighIsHighest == highFloat >= operatorFloat

BookInv == Figured /\ HighIsHighest /\ BookCovers

\* A share of at most the whole is no more than the whole.
LEMMA ShareOfRoom ==
    ASSUME NEW room \in Nat, NEW share \in 0..100
    PROVE  room * share <= 100 * room
BY SMT

\* A position that is admitted is covered by the room there is, or can win nothing.
LEMMA AdmittedIsCovered ==
    ASSUME NEW most \in Nat, Headroom \in Int, Covers(most)
    PROVE  most <= AtLeastZero(Headroom)
<1> DEFINE room == AtLeastZero(Headroom)
<1>1. room \in Nat
    BY DEF AtLeastZero
<1>2. PositionShare \in 0..100
    BY SolvencyAssumption
<1>3. room * PositionShare <= 100 * room
    BY <1>1, <1>2, ShareOfRoom
<1>4. 100 * most <= room * PositionShare
    BY DEF Covers
<1>5. room * PositionShare \in Int
    BY <1>1, <1>2
<1> HIDE DEF room
<1>6. 100 * most <= 100 * room
    BY <1>1, <1>3, <1>4, <1>5
<1>7. most <= room
    BY <1>1, <1>6
<1> QED
    BY <1>7 DEF room

\* The house starts with its balances and no position, so with nothing at risk.
LEMMA BookStarts == SolvencyInit => BookInv
BY SolvencyAssumption
   DEF SolvencyInit, BookInv, Figured, HighIsHighest, BookCovers, Headroom, Vacant, NoBalance

\* Money paid in is owed, and money paid out was: the room stays.
LEMMA CustomersKeepBook ==
    ASSUME BookInv, NEW n \in BookStakes, Deposits(n) \/ Withdraws(n)
    PROVE  BookInv'
BY SolvencyAssumption
   DEF Deposits, Withdraws, BookInv, Figured, HighIsHighest, BookCovers, Headroom, viewVars

\* The stake a position puts in balances itself; its most is what the room lost.
LEMMA AdmitKeepsBook ==
    ASSUME BookInv, NEW s \in Seats, NEW stake \in BookStakes, AdmitPosition(s, stake)
    PROVE  BookInv'
<1> DEFINE most == stake * MaxProfitMultiple
<1>1. stake \in Nat /\ most \in Nat
    BY SolvencyAssumption
<1>2. /\ cash' = cash /\ operatorFloat' = operatorFloat /\ highFloat' = highFloat
      /\ wallet' = wallet /\ walletRead' = walletRead
      /\ owed' = owed - stake /\ atRisk' = atRisk + stake + most
      /\ seats' = [seats EXCEPT ![s] = [stake |-> stake, most |-> most]]
      /\ Covers(most)
    BY DEF AdmitPosition
<1> HIDE DEF most
<1>3. Headroom \in Int
    BY DEF BookInv, Figured, Headroom
<1>4. most <= AtLeastZero(Headroom)
    BY <1>1, <1>2, <1>3, AdmittedIsCovered
<1>5. Figured'
    BY <1>1, <1>2 DEF BookInv, Figured
<1>6. HighIsHighest'
    BY <1>2 DEF BookInv, HighIsHighest
<1>7. Headroom' = Headroom - most
    BY <1>1, <1>2 DEF BookInv, Figured, Headroom
<1>8. BookCovers'
    BY <1>1, <1>2, <1>3, <1>4, <1>7 DEF BookInv, Figured, HighIsHighest, BookCovers, AtLeastZero
<1> QED
    BY <1>5, <1>6, <1>8 DEF BookInv

\* A position that closes pays no more than was set aside for it.
LEMMA SettleKeepsBook ==
    ASSUME BookInv, NEW s \in Seats, SettlePosition(s)
    PROVE  BookInv'
<1>1. seats[s].stake \in Nat /\ seats[s].most \in Nat
    BY DEF BookInv, Figured
<1>2. PICK profit \in -seats[s].stake .. seats[s].most : owed' = owed + seats[s].stake + profit
    BY DEF SettlePosition
<1>3. /\ cash' = cash /\ operatorFloat' = operatorFloat /\ highFloat' = highFloat
      /\ wallet' = wallet /\ walletRead' = walletRead
      /\ atRisk' = atRisk - seats[s].stake - seats[s].most
      /\ seats' = [seats EXCEPT ![s] = Vacant]
    BY DEF SettlePosition
<1>4. Figured'
    BY <1>1, <1>2, <1>3 DEF BookInv, Figured, Vacant
<1>5. HighIsHighest'
    BY <1>3 DEF BookInv, HighIsHighest
<1>6. Headroom' = Headroom + seats[s].most - profit
    BY <1>1, <1>2, <1>3 DEF BookInv, Figured, Headroom
<1>7. BookCovers'
    BY <1>1, <1>3, <1>6 DEF BookInv, Figured, BookCovers, Headroom
<1> QED
    BY <1>4, <1>5, <1>7 DEF BookInv

\* A float that is declared moves the room by as much as it moves itself.
LEMMA DeclareKeepsBook ==
    ASSUME BookInv, NEW f \in Nat, Declare(f), UNCHANGED <<cash, owed, atRisk, seats>>,
           wallet' = wallet, walletRead' \in Nat \cup {NoBalance}
    PROVE  BookInv'
<1>1. operatorFloat' = f /\ highFloat' = IF f > highFloat THEN f ELSE highFloat
    BY DEF Declare
<1>2. Figured'
    BY <1>1 DEF BookInv, Figured
<1>3. Headroom' = Headroom - operatorFloat + f
    BY <1>1 DEF BookInv, Figured, Headroom
<1>4. HighIsHighest' /\ highFloat' >= highFloat
    BY <1>1 DEF BookInv, Figured, HighIsHighest
<1>5. BookCovers'
    BY <1>1, <1>3, <1>4 DEF BookInv, Figured, BookCovers, Headroom
<1> QED
    BY <1>2, <1>4, <1>5 DEF BookInv

\* The sync's own steps: what it reads is a balance, and what it writes is declared.
LEMMA SyncKeepsBook ==
    ASSUME BookInv, WalletMoves \/ SyncReads \/ SyncWrites \/ SyncFails
    PROVE  BookInv'
<1>1. CASE WalletMoves
    BY <1>1, SolvencyAssumption
       DEF WalletMoves, BookInv, Figured, HighIsHighest, BookCovers, Headroom, bookMoney
<1>2. CASE SyncReads
    BY <1>2 DEF SyncReads, BookInv, Figured, HighIsHighest, BookCovers, Headroom, bookMoney
<1>3. CASE SyncWrites
    <2>1. walletRead \in Nat /\ Declare(walletRead)
        BY <1>3 DEF SyncWrites, BookInv, Figured
    <2>2. /\ UNCHANGED <<cash, owed, atRisk, seats>> /\ wallet' = wallet
          /\ walletRead' \in Nat \cup {NoBalance}
        BY <1>3 DEF SyncWrites
    <2> QED
        BY <2>1, <2>2, DeclareKeepsBook
<1>4. CASE SyncFails
    BY <1>4 DEF SyncFails, BookInv, Figured, HighIsHighest, BookCovers, Headroom, bookMoney
<1> QED
    BY <1>1, <1>2, <1>3, <1>4

\* What is shown of the book does not touch it.
LEMMA ShowingKeepsBook ==
    ASSUME BookInv, UNCHANGED <<bookMoney, wallet, walletRead>>
    PROVE  BookInv'
BY DEF BookInv, Figured, HighIsHighest, BookCovers, Headroom, bookMoney

\* Whatever the house does, its figures stay those of its seats and the book stays covered.
LEMMA BookStep == BookInv /\ [SolvencyNext]_solvencyVars => BookInv'
<1> SUFFICES ASSUME BookInv, [SolvencyNext]_solvencyVars
             PROVE  BookInv'
    OBVIOUS
<1>1. CASE \E n \in BookStakes : Deposits(n) \/ Withdraws(n)
    BY <1>1, CustomersKeepBook
<1>2. CASE \E s \in Seats : SettlePosition(s)
    BY <1>2, SettleKeepsBook
<1>3. CASE \E s \in Seats, stake \in BookStakes : AdmitPosition(s, stake)
    BY <1>3, AdmitKeepsBook
<1>4. CASE \E f \in Floats : SetFloat(f)
    <2>1. PICK f \in Floats : SetFloat(f)
        BY <1>4
    <2>2. /\ Declare(f) /\ UNCHANGED <<cash, owed, atRisk, seats>> /\ wallet' = wallet
          /\ walletRead' \in Nat \cup {NoBalance}
        BY <2>1 DEF SetFloat, BookInv, Figured
    <2>3. f \in Nat
        BY SolvencyAssumption
    <2> QED
        BY <2>2, <2>3, DeclareKeepsBook
<1>5. CASE WalletMoves \/ SyncReads \/ SyncWrites \/ SyncFails
    BY <1>5, SyncKeepsBook
<1>6. CASE NoticeArrives \/ NoticeLost \/ AskView \/ ViewAges
    BY <1>6, ShowingKeepsBook DEF NoticeArrives, NoticeLost, AskView, ViewAges
<1>7. CASE \E r \in viewRead : ReadExec(r) \/ ReadReturns(r) \/ ReadFails(r)
    BY <1>7, ShowingKeepsBook DEF ReadExec, ReadReturns, ReadFails
<1>8. CASE UNCHANGED solvencyVars
    BY <1>8, ShowingKeepsBook DEF solvencyVars, bookMoney
<1> QED
    BY <1>1, <1>2, <1>3, <1>4, <1>5, <1>6, <1>7, <1>8 DEF SolvencyNext

\* Whatever is opened at once and however old the figures shown are, the book covers every
\* win but for what the operator has taken back (fpesa_place_trade, startFloatSync).
THEOREM BookCoversHolds == SolvencySpec => []BookCovers
<1>1. BookInv => BookCovers
    BY DEF BookInv
<1> QED
    BY BookStarts, BookStep, <1>1, PTL DEF SolvencySpec

-----------------------------------------------------------------------------
(* Adapters: both keep the provider's contract, for every kind of transaction and form of
   key, and any number of notices on their way. *)

\* The statuses of a transaction at PalPluss, or of an invoice at IntaSend.
Statuses == {"PENDING", "PROCESSING", "FAILED", "CANCELLED"} \cup
            (IF Adapter = "palpluss" THEN {"SUCCESS", "EXPIRED"} ELSE {"COMPLETE"})

\* What the provider's record of a request it has taken may say.  A batch is done only
\* once it has a leg.
Records ==
    IF IsBatch
    THEN {ProviderRecord("Processing", "none")} \cup
         {ProviderRecord(s, l) : s \in {"Processing", "Completed"},
                                 l \in {"Pending", "Successful", "Failed", "Cancelled"}}
    ELSE {ProviderRecord(s, "none") : s \in Statuses}
Ends == {"SUCCESS", "FAILED", "CANCELLED", "EXPIRED"}

\* A request on its way, or turned down for its key, has left no trace.
Untaken ==
    /\ taken = 0 => /\ remote \in {NoRecord, CallRefused} /\ notices = {}
                    /\ calling # "done" /\ carried # "taken"
    /\ carried \in {"request", "unauthorised"} => taken = 0 /\ remote = NoRecord
    /\ calling = "idle" => carried = "none" /\ taken = 0 /\ remote = NoRecord

\* What was taken was taken once; a notice of an end tells the end there is.
Taken ==
    taken = 1 => /\ remote \in Records
                 /\ \A n \in notices : Reading(n) = "PENDING" \/ Reading(n) = Reading(remote)

AdaptersInv ==
    /\ serving \in {"palpluss", "intasend"} \X {"DEPOSIT", "WITHDRAWAL"}
    /\ told \in {"none", "SUCCESS", "FAILED"}
    /\ taken \in {0, 1} /\ Untaken /\ Taken

(* The provider's words *)

\* mapStatus and its two IntaSend relatives answer one of the three words the wallet knows.
LEMMA ReadingIsWord ==
    ASSUME NEW r \in Records, AdaptersInv
    PROVE  Reading(r) \in Ends \cup {"PENDING"}
BY DEF Records, Statuses, Reading, ToTxn, CollectionStatus, PayoutStatus, MapStatus, MapInvoiceState,
       MapPayoutState, Among, Ends, ProviderRecord

\* The record of a request that was taken says what became of it in the wallet's words.
BecameAsRead ==
    Became = IF Reading(remote) = "PENDING" THEN "processing"
             ELSE IF Reading(remote) = "SUCCESS" THEN "SUCCESS" ELSE "FAILED"

\* What became of a request that was taken is what its record reads as.
LEMMA BecameIsReading == AdaptersInv /\ taken = 1 => BecameAsRead
<1> SUFFICES ASSUME AdaptersInv, taken = 1
             PROVE  BecameAsRead
    OBVIOUS
<1> USE DEF BecameAsRead
<1>1. remote \in Records
    BY DEF AdaptersInv, Taken
<1>2. CASE IsBatch
    <2>1. PICK s \in {"Processing", "Completed"},
               l \in {"none", "Pending", "Successful", "Failed", "Cancelled"} :
               remote = ProviderRecord(s, l) /\ (l = "none" => s = "Processing")
        BY <1>1, <1>2 DEF Records
    <2>2. remote.status = s /\ remote.leg = l
        BY <2>1 DEF ProviderRecord
    <2>3. Reading(remote) = MapPayoutState(IF l = "none" THEN s ELSE l)
        BY <1>2, <2>2 DEF Reading, Adapter, IsBatch, PayoutStatus
    <2>4. Became = CASE l \in {"none", "Pending"} -> "processing"
                     [] l = "Successful" -> "SUCCESS"
                     [] OTHER -> "FAILED"
        BY <1>2, <2>2 DEF Became
    <2> QED
        BY <2>1, <2>3, <2>4 DEF MapPayoutState, Among
<1>3. CASE ~IsBatch
    <2>1. PICK s \in Statuses : remote = ProviderRecord(s, "none")
        BY <1>1, <1>3 DEF Records
    <2>2. remote.status = s
        BY <2>1 DEF ProviderRecord
    <2>3. Adapter \in {"palpluss", "intasend"}
        BY DEF AdaptersInv, Adapter
    <2>4. Reading(remote) = IF Adapter = "palpluss" THEN MapStatus(s) ELSE MapInvoiceState(s)
        BY <1>3, <2>2, <2>3 DEF Reading, ToTxn, CollectionStatus
    <2>5. Became = CASE s \in {"PENDING", "PROCESSING"} -> "processing"
                     [] s \in {"SUCCESS", "COMPLETE"} -> "SUCCESS"
                     [] OTHER -> "FAILED"
        BY <1>3, <2>2 DEF Became
    <2> QED
        BY <2>1, <2>3, <2>4, <2>5 DEF Statuses, MapStatus, MapInvoiceState, Among
<1> QED
    BY <1>2, <1>3

(* The calls *)

\* A step of the contract, or none.
ContractStep == [Contract!ContractNext]_<<Became, told>>

\* What neither the provider nor the wallet does changes nothing the contract speaks of.
LEMMA NothingBecame ==
    ASSUME UNCHANGED <<serving, remote, taken, told>>
    PROVE  ContractStep
BY DEF ContractStep, Became, IsBatch

\* Nothing has been sent or told before the first call.
LEMMA AdaptersStart == AdaptersInit => AdaptersInv /\ Contract!ContractInit
<1> SUFFICES ASSUME AdaptersInit
             PROVE  AdaptersInv /\ Contract!ContractInit
    OBVIOUS
<1>1. AdaptersInv
    BY AdaptersAssumption DEF AdaptersInit, AdaptersInv, Untaken, Taken
<1>2. remote # CallRefused
    BY DEF AdaptersInit, NoRecord, CallRefused, ProviderRecord
<1>3. Became = "none" /\ told = "none"
    BY <1>2 DEF AdaptersInit, Became
<1> QED
    BY <1>1, <1>3 DEF Contract!ContractInit

\* Sending a request, and its second try with the other form of the key.
LEMMA SendingKeeps ==
    ASSUME AdaptersInv, InitiateStkPush \/ InitiateB2CPayout \/ Fallback
    PROVE  AdaptersInv' /\ ContractStep
<1>1. /\ UNCHANGED <<serving, keyForm, remote, taken, notices, told>>
      /\ carried' = "request" /\ calling' = "waiting"
      /\ taken = 0 /\ remote = NoRecord
    BY DEF Initiate, InitiateStkPush, InitiateB2CPayout, Fallback, MayFallBack, Sends, AdaptersInv, Untaken
<1>2. ContractStep
    BY <1>1, NothingBecame
<1>3. AdaptersInv'
    BY <1>1 DEF AdaptersInv, Untaken, Taken
<1> QED
    BY <1>2, <1>3

\* The answer, the end of waiting for it, and what other calls learn of the key.  A 401
\* is the one answer that settles what became of the request.
LEMMA AnswersKeep ==
    ASSUME AdaptersInv, Answered \/ GivesUp \/ OtherCall
    PROVE  AdaptersInv' /\ ContractStep
<1>1. CASE Answered /\ carried = "unauthorised"
    <2>1. /\ remote' = CallRefused /\ carried' = "none" /\ calling' = "failed"
          /\ UNCHANGED <<serving, taken, notices, told>>
        BY <1>1 DEF Answered
    <2>2. taken = 0 /\ remote = NoRecord
        BY <1>1 DEF AdaptersInv, Untaken
    <2>3. AdaptersInv'
        BY <2>1, <2>2 DEF AdaptersInv, Untaken, Taken
    <2>4. NoRecord # CallRefused
        BY DEF NoRecord, CallRefused, ProviderRecord
    <2>5. Became = "none" /\ Became' = "rejected"
        BY <2>1, <2>2, <2>4 DEF Became
    <2>6. ContractStep
        BY <2>1, <2>5 DEF ContractStep, Contract!ContractNext, Contract!Receives
    <2> QED
        BY <2>3, <2>6
<1>2. CASE Answered /\ carried # "unauthorised"
    <2>1. /\ UNCHANGED <<serving, remote, taken, notices, told>>
          /\ carried' = "none" /\ calling' \in {"done", "failed"}
          /\ calling' = "done" => carried = "taken"
        BY <1>2 DEF Answered
    <2>2. AdaptersInv'
        BY <2>1 DEF AdaptersInv, Untaken, Taken, Records, Statuses, Reading, Adapter, IsBatch
    <2> QED
        BY <2>1, <2>2, NothingBecame
<1>3. CASE GivesUp
    <2>1. /\ UNCHANGED <<serving, remote, taken, notices, told>>
          /\ carried' \in {carried, "none"} /\ calling' = "failed"
        BY <1>3 DEF GivesUp
    <2>2. AdaptersInv'
        BY <2>1 DEF AdaptersInv, Untaken, Taken, Records, Statuses, Reading, Adapter, IsBatch
    <2> QED
        BY <2>1, <2>2, NothingBecame
<1>4. CASE OtherCall
    <2>1. UNCHANGED <<serving, remote, taken, notices, told, carried, calling>>
        BY <1>4 DEF OtherCall
    <2>2. AdaptersInv'
        BY <2>1 DEF AdaptersInv, Untaken, Taken, Records, Statuses, Reading, Adapter, IsBatch
    <2> QED
        BY <2>1, <2>2, NothingBecame
<1> QED
    BY <1>1, <1>2, <1>3, <1>4

(* The provider *)

\* A request is taken once, or refused: it was the only one on its way.
LEMMA TakingKeeps ==
    ASSUME AdaptersInv, ProviderTakes
    PROVE  AdaptersInv' /\ ContractStep
<1>1. /\ taken = 0 /\ remote = NoRecord /\ carried = "request" /\ notices = {}
      /\ calling \notin {"idle", "done"}
      /\ UNCHANGED <<serving, calling, notices, told>>
    BY DEF ProviderTakes, AdaptersInv, Untaken
<1>2. NoRecord # CallRefused
    BY DEF NoRecord, CallRefused, ProviderRecord
<1>3. Became = "none"
    BY <1>1, <1>2 DEF Became
<1>4. CASE attempt # keyForm
    <2>1. carried' = "unauthorised" /\ UNCHANGED <<remote, taken>>
        BY <1>4 DEF ProviderTakes
    <2>2. AdaptersInv'
        BY <1>1, <2>1 DEF AdaptersInv, Untaken, Taken
    <2> QED
        BY <1>1, <2>1, <2>2, NothingBecame
<1>5. CASE carried' = "refused" /\ remote' = CallRefused /\ UNCHANGED taken
    <2>1. AdaptersInv'
        BY <1>1, <1>5 DEF AdaptersInv, Untaken, Taken
    <2>2. Became' = "rejected"
        BY <1>1, <1>5 DEF Became
    <2> QED
        BY <1>1, <1>3, <2>1, <2>2 DEF ContractStep, Contract!ContractNext, Contract!Receives
<1>6. CASE /\ carried' = "taken" /\ taken' = taken + 1
           /\ remote' = ProviderRecord(IF IsBatch THEN "Processing" ELSE "PENDING", "none")
    <2>1. remote' \in Records' /\ taken' = 1
        BY <1>1, <1>6 DEF Records, Statuses, IsBatch, Adapter
    <2>2. AdaptersInv'
        BY <1>1, <1>6, <2>1 DEF AdaptersInv, Untaken, Taken
    <2>3. Became' = "processing"
        BY <1>1, <1>6, <2>1 DEF Became, IsBatch, ProviderRecord
    <2> QED
        BY <1>1, <1>3, <2>2, <2>3 DEF ContractStep, Contract!ContractNext, Contract!Receives
<1> QED
    BY <1>4, <1>5, <1>6 DEF ProviderTakes

\* The record goes on, and an end it has reached stays.
LEMMA OnwardKeeps ==
    ASSUME AdaptersInv, NEW r \in Records, NEW n \in Onward(r)
    PROVE  n \in Records /\ (Reading(r) = "PENDING" \/ Reading(n) = Reading(r))
<1>1. CASE IsBatch
    <2>1. PICK s \in {"Processing", "Completed"},
               l \in {"none", "Pending", "Successful", "Failed", "Cancelled"} :
               r = ProviderRecord(s, l) /\ (l = "none" => s = "Processing")
        BY <1>1 DEF Records
    <2>2. r.status = s /\ r.leg = l
        BY <2>1 DEF ProviderRecord
    <2>3. \A q : Reading(q) = MapPayoutState(IF q.leg = "none" THEN q.status ELSE q.leg)
        BY <1>1 DEF Reading, Adapter, IsBatch, PayoutStatus
    <2>4. CASE l = "none"
        <3>1. n = ProviderRecord(s, "Pending")
            BY <1>1, <2>2, <2>4 DEF Onward
        <3>2. Reading(r) = "PENDING"
            BY <2>1, <2>2, <2>3, <2>4 DEF MapPayoutState, Among
        <3> QED
            BY <1>1, <2>1, <3>1, <3>2 DEF Records
    <2>5. CASE l # "none"
        <3>1. n \in {ProviderRecord("Completed", l)} \cup
                    (IF l = "Pending" THEN {ProviderRecord(s, m) : m \in {"Successful", "Failed", "Cancelled"}} ELSE {})
            BY <1>1, <2>2, <2>5 DEF Onward
        <3>2. n \in Records
            BY <1>1, <2>1, <2>5, <3>1 DEF Records
        <3>3. l = "Pending" => Reading(r) = "PENDING"
            BY <2>2, <2>3 DEF MapPayoutState, Among
        <3>4. l # "Pending" => n.leg = l
            BY <3>1 DEF ProviderRecord
        <3> QED
            BY <2>2, <2>3, <2>5, <3>2, <3>3, <3>4
    <2> QED
        BY <2>4, <2>5
<1>2. CASE ~IsBatch
    <2>1. PICK s \in Statuses : r = ProviderRecord(s, "none")
        BY <1>2 DEF Records
    <2>2. r.status = s /\ r.leg = "none"
        BY <2>1 DEF ProviderRecord
    <2>3. s \in {"PENDING", "PROCESSING"} /\ n \in {ProviderRecord(q, "none") : q \in Statuses}
        BY <1>2, <2>1, <2>2 DEF Onward, Statuses
    <2>4. Adapter \in {"palpluss", "intasend"}
        BY DEF AdaptersInv, Adapter
    <2>5. Reading(r) = "PENDING"
        BY <1>2, <2>2, <2>3, <2>4 DEF Reading, ToTxn, CollectionStatus, MapStatus, MapInvoiceState, Among
    <2> QED
        BY <1>2, <2>3, <2>5 DEF Records
<1> QED
    BY <1>1, <1>2

\* What the provider makes of what it took, and whom it notifies.
LEMMA ProviderKeeps ==
    ASSUME AdaptersInv, ProviderProceeds \/ Notifies \/ HintLost
    PROVE  AdaptersInv' /\ ContractStep
<1>1. CASE ProviderProceeds
    <2>1. /\ remote' \in Onward(remote)
          /\ UNCHANGED <<serving, calling, carried, taken, notices, told>>
        BY <1>1 DEF ProviderProceeds
    <2>2. remote \notin {NoRecord, CallRefused}
        BY <1>1 DEF ProviderProceeds
    <2>3. taken = 1 /\ remote \in Records
        BY <2>2 DEF AdaptersInv, Untaken, Taken
    <2>4. remote' \in Records /\ (Reading(remote) = "PENDING" \/ Reading(remote') = Reading(remote))
        BY <2>1, <2>3, OnwardKeeps
    <2>5. Records' = Records /\ Reading(remote)' = Reading(remote')
          /\ \A n \in notices : Reading(n)' = Reading(n)
        BY <2>1 DEF Records, Statuses, Reading, Adapter, IsBatch
    <2>6. \A n \in notices : Reading(n) = "PENDING" \/ Reading(n) = Reading(remote')
        BY <2>3, <2>4 DEF AdaptersInv, Taken
    <2>7. Taken'
        BY <2>1, <2>4, <2>5, <2>6 DEF Taken
    <2>8. Untaken'
        BY <2>1, <2>3 DEF AdaptersInv, Untaken
    <2>9. AdaptersInv'
        BY <2>1, <2>7, <2>8 DEF AdaptersInv
    <2>10. Became = IF Reading(remote) = "PENDING" THEN "processing"
                    ELSE IF Reading(remote) = "SUCCESS" THEN "SUCCESS" ELSE "FAILED"
        BY <2>3, BecameIsReading DEF BecameAsRead
    <2>11. Became' = IF Reading(remote') = "PENDING" THEN "processing"
                     ELSE IF Reading(remote') = "SUCCESS" THEN "SUCCESS" ELSE "FAILED"
        <3>1. (AdaptersInv /\ taken = 1 => BecameAsRead)'
            BY BecameIsReading, PTL
        <3> QED
            BY <2>1, <2>3, <2>5, <2>9, <3>1 DEF BecameAsRead
    <2>12. Became' = Became \/ (Became = "processing" /\ Became' \in {"SUCCESS", "FAILED"})
        BY <2>4, <2>10, <2>11
    <2> QED
        BY <2>1, <2>9, <2>12 DEF ContractStep, Contract!ContractNext, Contract!Resolves
<1>2. CASE Notifies
    <2>1. /\ notices' = notices \cup {remote} /\ remote \notin {NoRecord, CallRefused}
          /\ UNCHANGED <<serving, calling, carried, remote, taken, told>>
        BY <1>2 DEF Notifies
    <2>2. taken = 1
        BY <2>1 DEF AdaptersInv, Untaken
    <2>3. AdaptersInv'
        BY <2>1, <2>2 DEF AdaptersInv, Untaken, Taken, Records, Statuses, Reading, Adapter, IsBatch
    <2> QED
        BY <2>1, <2>3, NothingBecame
<1>3. CASE HintLost
    <2>1. /\ notices' \subseteq notices
          /\ UNCHANGED <<serving, calling, carried, remote, taken, told>>
        BY <1>3 DEF HintLost
    <2>2. AdaptersInv'
        BY <2>1 DEF AdaptersInv, Untaken, Taken, Records, Statuses, Reading, Adapter, IsBatch
    <2> QED
        BY <2>1, <2>2, NothingBecame
<1> QED
    BY <1>1, <1>2, <1>3

(* The wallet *)

\* What is still pending tells nothing; the end that is told is the one there is.
LEMMA TellingKeeps ==
    ASSUME AdaptersInv, taken = 1, NEW word, Finalise(word),
           word = "PENDING" \/ word = Reading(remote),
           UNCHANGED <<serving, calling, carried, remote, taken, notices>>
    PROVE  AdaptersInv' /\ ContractStep
<1>1. Became = IF Reading(remote) = "PENDING" THEN "processing"
               ELSE IF Reading(remote) = "SUCCESS" THEN "SUCCESS" ELSE "FAILED"
    BY BecameIsReading DEF BecameAsRead
<1>2. told' = told \/ (Became \in {"SUCCESS", "FAILED"} /\ told' = Became)
    BY <1>1 DEF Finalise
<1>3. Became' = Became
    BY DEF Became, IsBatch
<1>4. AdaptersInv'
    BY <1>2 DEF AdaptersInv, Untaken, Taken, Records, Statuses, Reading, Adapter, IsBatch
<1> QED
    BY <1>2, <1>3, <1>4 DEF ContractStep, Contract!ContractNext, Contract!Tells

\* The webhook and the sweep tell the wallet only what the record reads as.
LEMMA WalletKeeps ==
    ASSUME AdaptersInv, Notice \/ SweepReads
    PROVE  AdaptersInv' /\ ContractStep
<1>1. taken = 1
    BY DEF Notice, SweepReads, AdaptersInv, Untaken
<1>2. UNCHANGED <<serving, calling, carried, remote, taken, notices>>
    BY DEF Notice, SweepReads
<1>3. CASE Finalise(GetStatus)
    BY <1>1, <1>2, <1>3, TellingKeeps DEF GetStatus
<1>4. CASE \E body \in notices :
              Finalise(IF ParseWebhook(body) = "SUCCESS" THEN "PENDING" ELSE ParseWebhook(body))
    <2>1. PICK body \in notices :
              Finalise(IF ParseWebhook(body) = "SUCCESS" THEN "PENDING" ELSE ParseWebhook(body))
        BY <1>4
    <2>2. ParseWebhook(body) = "PENDING" \/ ParseWebhook(body) = Reading(remote)
        BY <1>1 DEF AdaptersInv, Taken, ParseWebhook
    <2> QED
        BY <1>1, <1>2, <2>1, <2>2, TellingKeeps
<1> QED
    BY <1>3, <1>4 DEF Notice, SweepReads

\* Every step of either adapter keeps the invariant and is a step of the contract.
LEMMA AdaptersStep == AdaptersInv /\ [AdaptersNext]_adapterVars => AdaptersInv' /\ ContractStep
<1> SUFFICES ASSUME AdaptersInv, [AdaptersNext]_adapterVars
             PROVE  AdaptersInv' /\ ContractStep
    OBVIOUS
<1>1. CASE UNCHANGED adapterVars
    <2>1. AdaptersInv'
        BY <1>1 DEF adapterVars, AdaptersInv, Untaken, Taken, Records, Statuses, Reading, Adapter, IsBatch
    <2> QED
        BY <1>1, <2>1, NothingBecame DEF adapterVars
<1> QED
    BY <1>1, SendingKeeps, AnswersKeep, TakingKeeps, ProviderKeeps, WalletKeeps DEF AdaptersNext

\* "Both adapters normalise to the same shape": through retried, late, repeated and lost
\* calls and notices, each is the provider the wallet relies on (payments.ts).
THEOREM AdaptersImplementContract == AdaptersSpec => AdaptersKeepContract
<1>1. AdaptersInit => Contract!ContractInit
    BY AdaptersStart
<1>2. AdaptersInv /\ [AdaptersNext]_adapterVars => [Contract!ContractNext]_<<Became, told>>
    BY AdaptersStep DEF ContractStep
<1>3. AdaptersInit => AdaptersInv
    BY AdaptersStart
<1>4. AdaptersInv /\ [AdaptersNext]_adapterVars => AdaptersInv'
    BY AdaptersStep
<1> QED
    BY <1>1, <1>2, <1>3, <1>4, PTL
       DEF AdaptersSpec, AdaptersKeepContract, Contract!ContractSpec, Contract!contractVars

-----------------------------------------------------------------------------
(* Conformance: for every ticket, stake, price and edge, and however many reads of the edge
   overlap, a report whose reads saw one edge is right. *)

Routes == {"config", "quote", "analysis", "fairness"}
Live == WithEdge(LiveTicket, edge)

\* What has been heard of production is what production has, unless its edge moved.
HeardTrue ==
    heard # NotAsked =>
        /\ DOMAIN heard = Routes
        /\ heard["fairness"] \in {Unheard, {LiveTicket.sigma}}
        /\ ~edgeMoved => /\ heard["config"] \in {Unheard, {edge}}
                         /\ heard["analysis"] \in {Unheard, {AnalyseTrade(ConformStake, Live)}}
        /\ heard["quote"] = Unheard \/ \E p \in QuotedPrices : heard["quote"] = {p}

ConformInv == HeardTrue /\ ConformityHolds

\* Four routes were asked, one is not.
LEMMA AskedRoutes ==
    /\ DOMAIN Asked = Routes /\ \A route \in Routes : Asked[route] = Unheard
    /\ \A h : DOMAIN h = Routes => h # NotAsked
<1>1. DOMAIN NotAsked = {"config"}
    BY DEF NotAsked
<1>2. DOMAIN Asked = Routes
    BY DEF Asked, Routes
<1>3. \A route \in Routes : Asked[route] = Unheard
    BY DEF Asked, Routes
<1>4. "quote" \in Routes /\ "quote" \notin {"config"}
    BY DEF Routes
<1> QED
    BY <1>1, <1>2, <1>3, <1>4

\* Before the first comparison nothing has been heard and nothing reported.
LEMMA ConformStarts == EdgeInit /\ ConformInit => ConformInv
BY DEF ConformInit, ConformInv, HeardTrue, ConformityHolds

\* Asking: nothing has been heard, and there is no report.
LEMMA AskKeepsConformity ==
    ASSUME ConformInv, AskConform
    PROVE  ConformInv'
<1>1. heard' = Asked /\ conformity' = NoReport
    BY DEF AskConform
<1>2. HeardTrue'
    BY <1>1, AskedRoutes DEF HeardTrue, Routes
<1>3. ConformityHolds'
    BY <1>1 DEF ConformityHolds
<1> QED
    BY <1>2, <1>3 DEF ConformInv

\* An answer is production's, of the moment it is given.
LEMMA AnswersKeepConformity ==
    ASSUME ConformInv, ConfigAnswers \/ QuoteAnswers \/ AnalysisAnswers \/ FairnessAnswers
    PROVE  ConformInv'
<1> DEFINE TicketGives(route, answer) ==
          /\ heard # NotAsked /\ heard[route] = Unheard
          /\ heard' = [heard EXCEPT ![route] = {answer}]
          /\ UNCHANGED <<own, conformity, edgeMoved, edgeVars>>
          /\ route = "config" => answer = edge
          /\ route = "analysis" => answer = AnalyseTrade(ConformStake, Live)
          /\ route = "fairness" => answer = LiveTicket.sigma
          /\ route = "quote" => answer \in QuotedPrices
<1>0. PICK route \in Routes : \E answer : TicketGives(route, answer)
    <2>1. CASE ConfigAnswers
        BY <2>1 DEF ConfigAnswers, RouteAnswers, Routes
    <2>2. CASE QuoteAnswers
        BY <2>2 DEF QuoteAnswers, RouteAnswers, Routes
    <2>3. CASE AnalysisAnswers
        BY <2>3 DEF AnalysisAnswers, RouteAnswers, Routes, Live
    <2>4. CASE FairnessAnswers
        BY <2>4 DEF FairnessAnswers, RouteAnswers, Routes
    <2> QED
        BY <2>1, <2>2, <2>3, <2>4
<1>1. PICK answer : TicketGives(route, answer)
    BY <1>0
<1>2. DOMAIN heard = Routes /\ HeardTrue
    BY <1>1 DEF ConformInv, HeardTrue
<1>3. edge' = edge /\ Live' = Live /\ edgeMoved' = edgeMoved
    BY <1>1 DEF edgeVars, Live
<1>4. DOMAIN heard' = Routes
    BY <1>1, <1>2
<1>5. \A other \in Routes : heard'[other] = IF other = route THEN {answer} ELSE heard[other]
    BY <1>1, <1>2
<1>6. HeardTrue'
    <2>1. heard'["fairness"] \in {Unheard, {LiveTicket.sigma}}
        BY <1>1, <1>2, <1>5 DEF HeardTrue, Routes
    <2>2. ~edgeMoved => heard'["config"] \in {Unheard, {edge}}
        BY <1>1, <1>2, <1>5 DEF HeardTrue, Routes
    <2>3. ~edgeMoved => heard'["analysis"] \in {Unheard, {AnalyseTrade(ConformStake, Live)}}
        BY <1>1, <1>2, <1>5 DEF HeardTrue, Routes
    <2>4. heard'["quote"] = Unheard \/ \E p \in QuotedPrices : heard'["quote"] = {p}
        BY <1>1, <1>2, <1>5 DEF HeardTrue, Routes
    <2> QED
        BY <1>3, <1>4, <2>1, <2>2, <2>3, <2>4 DEF HeardTrue
<1>7. ConformityHolds'
    BY <1>1, <1>3 DEF ConformInv, ConformityHolds
<1> QED
    BY <1>6, <1>7 DEF ConformInv

\* The report is drawn up from what was heard, and from one edge if none moved.
LEMMA ReportKeepsConformity ==
    ASSUME ConformInv, Reports
    PROVE  ConformInv'
<1>1. /\ heard # NotAsked /\ \A route \in Routes : heard[route] # Unheard
      /\ heard' = NotAsked /\ UNCHANGED <<own, edgeMoved, edge>>
      /\ conformity' =
            [parametersMatch |-> LiveAsHeard = own,
             arithmeticMatch |-> AnalyseTrade(ConformStake, LiveAsHeard) = Heard("analysis"),
             price |-> Heard("quote"),
             proposal |-> [dir \in Directions |-> Levels(LiveAsHeard, Heard("quote"), dir)]]
    BY DEF Reports, ConformInv, HeardTrue, edgeVars
<1>2. HeardTrue'
    BY <1>1 DEF HeardTrue
<1>3. ASSUME ~edgeMoved
      PROVE  LiveAsHeard = Live /\ Heard("analysis") = AnalyseTrade(ConformStake, Live)
    <2>1. /\ heard["config"] = {edge} /\ heard["fairness"] = {LiveTicket.sigma}
          /\ heard["analysis"] = {AnalyseTrade(ConformStake, Live)}
        BY <1>1, <1>3 DEF ConformInv, HeardTrue, Routes
    <2>2. /\ Heard("config") = edge /\ Heard("fairness") = LiveTicket.sigma
          /\ Heard("analysis") = AnalyseTrade(ConformStake, Live)
        BY <2>1 DEF Heard
    <2>3. LiveAsHeard = [WithEdge(LiveTicket, edge) EXCEPT !.sigma = LiveTicket.sigma]
        BY <2>2 DEF LiveAsHeard
    <2> QED
        BY <2>2, <2>3 DEF Live, WithEdge
<1>4. ConformityHolds'
    <2>1. SUFFICES ASSUME ~edgeMoved
                   PROVE  /\ conformity'.arithmeticMatch
                          /\ \A dir \in Directions :
                                conformity'.proposal[dir] = Levels(Live, conformity'.price, dir)
                          /\ conformity'.parametersMatch <=> (own = Live)
        BY <1>1 DEF ConformityHolds, Live
    <2>2. LiveAsHeard = Live /\ Heard("analysis") = AnalyseTrade(ConformStake, Live)
        BY <1>3, <2>1
    <2>3. conformity'.arithmeticMatch = (AnalyseTrade(ConformStake, LiveAsHeard) = Heard("analysis"))
        BY <1>1
    <2>4. conformity'.parametersMatch = (LiveAsHeard = own)
        BY <1>1
    <2>5. /\ conformity'.price = Heard("quote")
          /\ conformity'.proposal = [dir \in Directions |-> Levels(LiveAsHeard, Heard("quote"), dir)]
        BY <1>1
    <2>6. conformity'.arithmeticMatch
        BY <2>2, <2>3
    <2>7. conformity'.parametersMatch <=> (own = Live)
        BY <2>2, <2>4
    <2>8. \A dir \in Directions : conformity'.proposal[dir] = Levels(Live, conformity'.price, dir)
        BY <2>2, <2>5
    <2> QED
        BY <2>6, <2>7, <2>8
<1> QED
    BY <1>2, <1>4 DEF ConformInv

\* A read that fails forgets what was heard, and what the edge does either moves it, which
\* is noted, or leaves all that was heard true.
LEMMA OthersKeepConformity ==
    ASSUME ConformInv,
           \/ AnyReadFails
           \/ edgeMoved' = (edgeMoved \/ edge' # edge) /\ UNCHANGED <<own, heard, conformity>>
           \/ UNCHANGED <<conformVars, edgeVars>>
    PROVE  ConformInv'
<1>1. CASE AnyReadFails
    BY <1>1 DEF AnyReadFails, ConformInv, HeardTrue, ConformityHolds, edgeVars
<1>2. CASE edgeMoved' = (edgeMoved \/ edge' # edge) /\ UNCHANGED <<own, heard, conformity>>
    <2>1. CASE edge' = edge
        <3>1. Live' = Live /\ (edgeMoved' <=> edgeMoved)
            BY <1>2, <2>1 DEF Live
        <3> QED
            BY <1>2, <2>1, <3>1 DEF ConformInv, HeardTrue, ConformityHolds
    <2>2. CASE edge' # edge
        BY <1>2, <2>2 DEF ConformInv, HeardTrue, ConformityHolds
    <2> QED
        BY <2>1, <2>2
<1>3. CASE UNCHANGED <<conformVars, edgeVars>>
    BY <1>3 DEF ConformInv, HeardTrue, ConformityHolds, conformVars, edgeVars, Live
<1> QED
    BY <1>1, <1>2, <1>3

\* Asking, hearing, reporting and the edge's own steps keep what a report may say true.
LEMMA ConformStep == ConformInv /\ [ConformNext]_<<conformVars, edgeVars>> => ConformInv'
BY AskKeepsConformity, AnswersKeepConformity, ReportKeepsConformity, OthersKeepConformity
   DEF ConformNext

\* The comparison blames the code for nothing that production's figures do not show, unless
\* the edge moved while they were read (conform).
THEOREM ConformityAlways == ConformSpec => []ConformityHolds
<1>1. ConformInv => ConformityHolds
    BY DEF ConformInv
<1> QED
    BY ConformStarts, ConformStep, <1>1, PTL DEF ConformSpec

-----------------------------------------------------------------------------
(* Tickets: at every stake, price, pass, edge and multiplier a ticket is sold at the odds it
   is said to have, and is paid what the screen shows while it is open. *)

(* Rounding *)

\* A quotient and what it leaves.
LEMMA DivExact ==
    ASSUME NEW n \in Int, NEW d \in Nat \ {0}
    PROVE  d * (n \div d) <= n /\ n < d * (n \div d) + d
OBVIOUS

\* Half a divisor at most is rounded away.
LEMMA HalfRounded ==
    ASSUME NEW n \in Int, NEW d \in Nat \ {0}
    PROVE  /\ RoundHalfUp(n, d) \in Int
           /\ 2 * (d * RoundHalfUp(n, d)) <= 2 * n + d
           /\ 2 * n + d < 2 * (d * RoundHalfUp(n, d)) + 2 * d
<1> DEFINE q == (2 * n + d) \div (2 * d)
<1>1. 2 * n + d \in Int /\ 2 * d \in Nat \ {0}
    OBVIOUS
<1>2. (2 * d) * q <= 2 * n + d /\ 2 * n + d < (2 * d) * q + 2 * d
    BY <1>1, DivExact
<1>3. q \in Int
    BY <1>1, DivTyped
<1>4. RoundHalfUp(n, d) = q
    BY DEF RoundHalfUp
<1> HIDE DEF q
<1>5. (2 * d) * q = 2 * (d * q)
    BY <1>3
<1> QED
    BY <1>2, <1>3, <1>4, <1>5

\* Numbers whose multiples of d are ordered up to d are ordered.
LEMMA MultiplesOrdered ==
    ASSUME NEW d \in Nat \ {0}, NEW a \in Int, NEW b \in Int, d * a < d * b + d
    PROVE  a <= b
<1>1. SUFFICES ASSUME a >= b + 1 PROVE FALSE
    OBVIOUS
<1>2. d * (a - b - 1) \in Nat
    BY <1>1
<1>3. d * (a - b - 1) = d * a - d * b - d
    OBVIOUS
<1> QED
    BY <1>2, <1>3

\* Rounding half up and rounding away from zero differ by the direction of a half.
LEMMA RoundingsAgree ==
    ASSUME NEW n \in Int, NEW d \in Nat \ {0}
    PROVE  RoundHalfUp(n, d) - RoundAway(n, d) \in 0..1
<1>1. CASE n >= 0
    BY <1>1, RoundHalfUpTyped DEF RoundAway
<1>2. CASE n < 0
    <2> DEFINE q == RoundHalfUp(n, d)  g == RoundHalfUp(-n, d)
    <2>1. -n \in Int
        OBVIOUS
    <2>2. /\ q \in Int /\ 2 * (d * q) <= 2 * n + d /\ 2 * n + d < 2 * (d * q) + 2 * d
          /\ g \in Int /\ 2 * (d * g) <= 2 * (-n) + d /\ 2 * (-n) + d < 2 * (d * g) + 2 * d
        BY <2>1, HalfRounded
    <2>3. RoundHalfUp(n, d) = q /\ RoundAway(n, d) = -g
        BY <1>2 DEF RoundAway
    <2> HIDE DEF q, g
    <2>4. d * q \in Int /\ d * g \in Int /\ d * (q + g) = d * q + d * g /\ q + g \in Int
        BY <2>2
    <2>5. d * (q + g) < d * 1 + d /\ d * 0 < d * (q + g) + d * 2
        BY <2>2, <2>4
    <2>6. q + g <= 1
        BY <2>4, <2>5, MultiplesOrdered
    <2>7. d * 0 < d * (q + g + 1) + d /\ q + g + 1 \in Int
        BY <2>4, <2>5
    <2>8. 0 <= q + g + 1
        BY <2>7, MultiplesOrdered
    <2>9. q + g # -1
        BY <2>2, <2>4
    <2> QED
        BY <2>2, <2>3, <2>6, <2>8, <2>9
<1> QED
    BY <1>1, <1>2

(* A position that scales *)

\* The screen clamps before it rounds and the database rounds before it clamps, and their
\* roundings differ; for all that the trader is paid what was shown, or a cent less.
THEOREM ScaledShownIsPaid ==
    ASSUME NEW dir \in {"BUY", "SELL"}, NEW stake \in Nat, NEW mult \in Nat,
           NEW entry \in Nat \ {0}, NEW most \in Nat, NEW at \in Int
    PROVE  ShownScaled(dir, stake, mult, entry, most, at)
             - ScaledProfit(dir, stake, mult, entry, most, at) \in 0..1
<1> DEFINE raw == stake * mult * Sign(dir) * (at - entry)
           up == RoundHalfUp(raw, entry)
           away == RoundAway(raw, entry)
<1>1. raw \in Int
    <2>1. Sign(dir) \in Int /\ stake * mult \in Int /\ at - entry \in Int
        BY DEF Sign
    <2>2. stake * mult * Sign(dir) \in Int
        BY <2>1
    <2> QED
        BY <2>1, <2>2
<1>2. /\ ShownScaled(dir, stake, mult, entry, most, at) =
            IF raw < -stake * entry THEN -stake ELSE IF raw > most * entry THEN most ELSE up
      /\ ScaledProfit(dir, stake, mult, entry, most, at) = Clamp(away, -stake, most)
    BY DEF ShownScaled, ScaledProfit
<1> HIDE DEF raw
<1>3. /\ up \in Int /\ away \in Int /\ up - away \in 0..1
    BY <1>1, RoundHalfUpTyped, RoundAwayTyped, RoundingsAgree
<1>4. -raw \in Int
    BY <1>1
<1>5. /\ 2 * (entry * up) <= 2 * raw + entry
      /\ 2 * raw + entry < 2 * (entry * up) + 2 * entry
    BY <1>1, HalfRounded
<1>6. raw < 0 => /\ 2 * (entry * away) >= 2 * raw - entry
                 /\ 2 * raw - entry > 2 * (entry * away) - 2 * entry
    <2>1. SUFFICES ASSUME raw < 0
                   PROVE  /\ 2 * (entry * away) >= 2 * raw - entry
                          /\ 2 * raw - entry > 2 * (entry * away) - 2 * entry
        OBVIOUS
    <2> DEFINE g == RoundHalfUp(-raw, entry)
    <2>2. /\ g \in Int /\ 2 * (entry * g) <= 2 * (-raw) + entry
          /\ 2 * (-raw) + entry < 2 * (entry * g) + 2 * entry
        BY <1>4, HalfRounded
    <2>3. away = -g
        BY <1>1, <2>1 DEF RoundAway
    <2> HIDE DEF g, away
    <2>4. entry * away = -(entry * g) /\ entry * g \in Int
        BY <2>2, <2>3
    <2> QED
        BY <1>1, <2>2, <2>4
<1>7. raw >= 0 => away = up
    BY DEF RoundAway
<1> HIDE DEF up, away
<1>8. entry * up \in Int /\ entry * away \in Int
    BY <1>3
<1>9. CASE raw < -stake * entry
    <2>1. -stake * entry = entry * (-stake) /\ entry * (-stake) <= 0
        OBVIOUS
    <2>2. raw < 0 /\ raw <= entry * (-stake)
        BY <1>1, <1>9, <2>1
    <2>3. entry * away < entry * (-stake) + entry
        BY <1>1, <1>6, <1>8, <2>2
    <2>4. away <= -stake
        BY <1>3, <2>3, MultiplesOrdered
    <2>5. Clamp(away, -stake, most) = -stake
        BY <1>3, <2>4 DEF Clamp
    <2> QED
        BY <1>2, <1>9, <2>5
<1>10. CASE raw > most * entry
    <2>1. most * entry = entry * most /\ entry * most \in Nat
        OBVIOUS
    <2>2. raw >= 0 /\ ~(raw < -stake * entry)
        <3>1. -stake * entry <= 0
            OBVIOUS
        <3> QED
            BY <1>1, <1>10, <2>1, <3>1
    <2>3. entry * most < entry * up + entry
        BY <1>1, <1>5, <1>8, <1>10, <2>1
    <2>4. most <= up
        BY <1>3, <2>3, MultiplesOrdered
    <2>5. Clamp(away, -stake, most) = most
        BY <1>3, <1>7, <2>2, <2>4 DEF Clamp
    <2> QED
        BY <1>2, <1>10, <2>2, <2>5
<1>11. CASE ~(raw < -stake * entry) /\ ~(raw > most * entry)
    <2>1. /\ -stake * entry = entry * (-stake) /\ entry * (-stake) \in Int
          /\ most * entry = entry * most /\ entry * most \in Int
        OBVIOUS
    <2>2. entry * (-stake) <= raw /\ raw <= entry * most
        BY <1>1, <1>11, <2>1
    <2>3. entry * up < entry * most + entry
        BY <1>1, <1>5, <1>8, <2>1, <2>2
    <2>4. up <= most
        BY <1>3, <2>3, MultiplesOrdered
    <2>5. raw < 0 => entry * (-stake) < entry * away + entry
        BY <1>1, <1>6, <1>8, <2>1, <2>2
    <2>6. raw >= 0 => entry * (-stake) < entry * up + entry
        BY <1>1, <1>5, <1>8, <2>1, <2>2
    <2>7. -stake <= away
        BY <1>1, <1>3, <1>7, <2>5, <2>6, MultiplesOrdered
    <2>8. away <= most
        BY <1>3, <2>4
    <2>9. Clamp(away, -stake, most) = away
        BY <1>3, <2>7, <2>8 DEF Clamp
    <2> QED
        BY <1>2, <1>3, <1>11, <2>9
<1> QED
    BY <1>9, <1>10, <1>11

(* A position that pays a fixed amount *)

\* The last digit of a digit is itself.
LEMMA DigitsOfDigits == \A d \in Digits : LastDigit(d) = d
BY DEF Digits, LastDigit

\* Of the ten digits, so many win as the chance says.
LEMMA OverWins ==
    ASSUME NEW t, t.kind = "DIGITS_OVER", t.level \in 0..8
    PROVE  10 * Cardinality({d \in Digits : DigitWins(t, d)}) = 10 * (9 - t.level)
<1>1. {d \in Digits : DigitWins(t, d)} = (t.level + 1) .. 9
    BY DigitsOfDigits DEF DigitWins, Digits
<1>2. Cardinality((t.level + 1) .. 9) = 9 - t.level
    BY FS_Interval
<1> QED
    BY <1>1, <1>2

\* Under n wins on n of the ten digits.
LEMMA UnderWins ==
    ASSUME NEW t, t.kind = "DIGITS_UNDER", t.level \in 1..9
    PROVE  10 * Cardinality({d \in Digits : DigitWins(t, d)}) = 10 * t.level
<1>1. {d \in Digits : DigitWins(t, d)} = 0 .. (t.level - 1)
    BY DigitsOfDigits DEF DigitWins, Digits
<1>2. Cardinality(0 .. (t.level - 1)) = t.level
    BY FS_Interval
<1> QED
    BY <1>1, <1>2

\* Adding a new element to a finite set counts one more.
LEMMA CountsOneMore ==
    ASSUME NEW S, NEW x, NEW n \in Nat, IsFiniteSet(S), Cardinality(S) = n, x \notin S
    PROVE  IsFiniteSet(S \cup {x}) /\ Cardinality(S \cup {x}) = n + 1
BY FS_AddElement

\* Five numbers two apart are five.
LEMMA FiveApart ==
    ASSUME NEW a \in Int
    PROVE  Cardinality({a, a + 2, a + 4, a + 6, a + 8}) = 5
<1>0. PICK b, c, d, e : b = a + 2 /\ c = a + 4 /\ d = a + 6 /\ e = a + 8
    OBVIOUS
<1>1. PICK one : one = {a} /\ IsFiniteSet(one) /\ Cardinality(one) = 1
    BY FS_Singleton
<1>2. PICK two : two = one \cup {b} /\ IsFiniteSet(two) /\ Cardinality(two) = 2
    <2>1. b \notin one
        BY <1>0, <1>1
    <2>2. IsFiniteSet(one) /\ Cardinality(one) = 1
        BY <1>1
    <2>3. IsFiniteSet(one \cup {b}) /\ Cardinality(one \cup {b}) = 1 + 1
        BY <2>1, <2>2, CountsOneMore
    <2> QED
        BY <2>3
<1>3. PICK three : three = two \cup {c} /\ IsFiniteSet(three) /\ Cardinality(three) = 3
    <2>1. c \notin two
        BY <1>0, <1>1, <1>2
    <2>2. IsFiniteSet(two) /\ Cardinality(two) = 2
        BY <1>2
    <2>3. IsFiniteSet(two \cup {c}) /\ Cardinality(two \cup {c}) = 2 + 1
        BY <2>1, <2>2, CountsOneMore
    <2> QED
        BY <2>3
<1>4. PICK four : four = three \cup {d} /\ IsFiniteSet(four) /\ Cardinality(four) = 4
    <2>1. d \notin three
        BY <1>0, <1>1, <1>2, <1>3
    <2>2. IsFiniteSet(three) /\ Cardinality(three) = 3
        BY <1>3
    <2>3. IsFiniteSet(three \cup {d}) /\ Cardinality(three \cup {d}) = 3 + 1
        BY <2>1, <2>2, CountsOneMore
    <2> QED
        BY <2>3
<1>5. PICK five : five = four \cup {e} /\ IsFiniteSet(five) /\ Cardinality(five) = 5
    <2>1. e \notin four
        BY <1>0, <1>1, <1>2, <1>3, <1>4
    <2>2. IsFiniteSet(four) /\ Cardinality(four) = 4
        BY <1>4
    <2>3. IsFiniteSet(four \cup {e}) /\ Cardinality(four \cup {e}) = 4 + 1
        BY <2>1, <2>2, CountsOneMore
    <2> QED
        BY <2>3
<1>6. five = {a, a + 2, a + 4, a + 6, a + 8}
    BY <1>0, <1>1, <1>2, <1>3, <1>4, <1>5
<1> QED
    BY <1>5, <1>6

\* Even and odd each win on five of the ten digits.
LEMMA ParityWins ==
    ASSUME NEW t, t.kind \in {"DIGITS_EVEN", "DIGITS_ODD"}
    PROVE  10 * Cardinality({d \in Digits : DigitWins(t, d)}) = 50
<1>1. PICK a \in 0..1 : a = IF t.kind = "DIGITS_EVEN" THEN 0 ELSE 1
    OBVIOUS
<1>2. {d \in Digits : DigitWins(t, d)} = {a, a + 2, a + 4, a + 6, a + 8}
    BY <1>1, DigitsOfDigits DEF DigitWins, Digits
<1>3. Cardinality({a, a + 2, a + 4, a + 6, a + 8}) = 5
    BY FiveApart
<1> QED
    BY <1>2, <1>3

\* A hundred tickets return their stakes less the edge, but for half a cent a win.
LEMMA FixedIsFair ==
    ASSUME NEW stake, NEW chance, NEW charged,
           stake \in Nat, chance \in 10..90, charged \in 0..2000
    PROVE  /\ MostOf(stake, chance, charged) \in Int
           /\ 10000 * (chance * MostOf(stake, chance, charged) - (100 - chance) * stake)
                + 100 * charged * stake \in -5000 * chance .. 5000 * chance
           /\ charged <= 1000 => MostOf(stake, chance, charged) >= 0
<1> DEFINE n == stake * (10000 - 100 * chance - charged)
           d == 100 * chance
           most == MostOf(stake, chance, charged)
<1>1. n \in Int /\ d \in Nat \ {0} /\ most = RoundHalfUp(n, d)
    BY DEF MostOf
<1>2. /\ most \in Int /\ 2 * (d * most) <= 2 * n + d
      /\ 2 * n + d < 2 * (d * most) + 2 * d
    BY <1>1, HalfRounded
<1> HIDE DEF most
<1>3. chance * most \in Int /\ d * most = 100 * (chance * most)
    BY <1>2
<1>4. /\ stake * charged \in Int /\ stake * chance \in Int
      /\ n = 10000 * stake - 100 * (stake * chance) - stake * charged
    OBVIOUS
<1>5. (100 - chance) * stake = 100 * stake - stake * chance /\ 100 * charged * stake = 100 * (stake * charged)
    OBVIOUS
<1> DEFINE off == 100 * (chance * most) - n
<1>6. off \in Int /\ -50 * chance <= off /\ off <= 50 * chance
    BY <1>1, <1>2, <1>3
<1>7. 10000 * (chance * most - (100 - chance) * stake) + 100 * charged * stake = 100 * off
    BY <1>3, <1>4, <1>5
<1> HIDE DEF off
<1>8. 100 * off \in -5000 * chance .. 5000 * chance
    BY <1>6
<1>9. ASSUME charged <= 1000 PROVE most >= 0
    <2>1. 10000 - 100 * chance - charged \in Nat
        BY <1>9
    <2>2. n \in Nat
        BY <2>1
    <2> HIDE DEF n, d
    <2>3. d * most \in Int /\ d * 0 = 0 /\ d \in Int
        BY <1>1, <1>2
    <2>4. d * 0 < d * most + d
        BY <1>1, <1>2, <2>2, <2>3
    <2> QED
        BY <1>1, <1>2, <2>4, MultiplesOrdered
<1> QED
    BY <1>2, <1>7, <1>8, <1>9 DEF most

(* Every ticket the book holds *)

DigitKinds == {"DIGITS_OVER", "DIGITS_UNDER", "DIGITS_EVEN", "DIGITS_ODD"}

\* A fixed ticket is priced at the chance of what it names.
FixedShape(t) ==
    /\ t.kind \in DigitKinds \cup {"DIGITAL"}
    /\ t.stake \in Nat \ {0} /\ t.chance \in 10..90 /\ t.edge \in 50..2000
    /\ t.most = MostOf(t.stake, t.chance, t.edge)
    /\ t.kind = "DIGITS_OVER" => t.level \in 0..8 /\ t.chance = 10 * (9 - t.level)
    /\ t.kind = "DIGITS_UNDER" => t.level \in 1..9 /\ t.chance = 10 * t.level
    /\ t.kind \in {"DIGITS_EVEN", "DIGITS_ODD"} => t.chance = 50

ScaledShape(t) ==
    /\ t.kind = "SCALED" /\ t.dir \in {"BUY", "SELL"}
    /\ t.stake \in Nat \ {0} /\ t.entry \in Nat \ {0} /\ t.most \in Nat

TicketInv ==
    /\ pass \in {NoPass} \cup PassEdges
    /\ ticket = NoTicket \/ FixedShape(ticket) \/ ScaledShape(ticket)

\* The edge that a fixed payout is priced with lies between half a percent and twenty.
LEMMA EdgeInRange ==
    ASSUME NEW p, p \in Int
    PROVE  EdgeWith(p) \in 50..2000
<1>1. Clamp(DigitalEdge, 50, 2000) \in 50..2000 /\ Clamp(p, 50, 2000) \in 50..2000
    BY TicketAssumption DEF Clamp
<1> QED
    BY <1>1 DEF EdgeWith, MinEdge

\* Each kind of ticket is sold in the shape of its kind.
LEMMA SoldInShape ==
    ASSUME TicketInv, BuyTicket
    PROVE  FixedShape(ticket') \/ ScaledShape(ticket')
<1>1. PICK stake \in TicketStakes, mid \in Mids :
          \/ \E kind \in {"DIGITS_OVER", "DIGITS_UNDER"}, d \in 0..9 :
                PlaceDigit(kind, d, stake, mid)
          \/ \E kind \in {"DIGITS_EVEN", "DIGITS_ODD"} : PlaceParity(kind, stake, mid)
          \/ \E dir \in {"BUY", "SELL"} :
                \/ \E chance \in {60, 70, 80} : PlaceDigital(dir, chance, stake, mid)
                \/ \E e \in ScaledEdges : PlaceScaled(dir, stake, mid, e)
    BY DEF BuyTicket
<1>2. stake \in Nat \ {0} /\ mid \in Nat \ {0} /\ pass \in Int
    BY TicketAssumption DEF TicketInv, NoPass
<1>3. EdgeWith(pass) \in 50..2000
    BY <1>2, EdgeInRange
<1>4. CASE \E kind \in {"DIGITS_OVER", "DIGITS_UNDER"}, d \in 0..9 :
               PlaceDigit(kind, d, stake, mid)
    <2>1. PICK kind \in {"DIGITS_OVER", "DIGITS_UNDER"}, d \in 0..9 :
              PlaceDigit(kind, d, stake, mid)
        BY <1>4
    <2>2. CASE kind = "DIGITS_OVER"
        <3>1. d \in 0..8 /\ DigitChance(kind, d) = 10 * (9 - d)
            BY <2>1, <2>2 DEF PlaceDigit, Offered, DigitChance
        <3> QED
            BY <1>2, <1>3, <2>1, <2>2, <3>1
            DEF PlaceDigit, FixedTicket, FixedShape, DigitKinds
    <2>3. CASE kind = "DIGITS_UNDER"
        <3>1. d \in 1..9 /\ DigitChance(kind, d) = 10 * d
            BY <2>1, <2>3 DEF PlaceDigit, Offered, DigitChance
        <3> QED
            BY <1>2, <1>3, <2>1, <2>3, <3>1
            DEF PlaceDigit, FixedTicket, FixedShape, DigitKinds
    <2> QED
        BY <2>2, <2>3
<1>5. CASE \E kind \in {"DIGITS_EVEN", "DIGITS_ODD"} : PlaceParity(kind, stake, mid)
    BY <1>2, <1>3, <1>5 DEF PlaceParity, FixedTicket, FixedShape, DigitKinds
<1>6. ASSUME NEW dir \in {"BUY", "SELL"}, NEW chance \in {60, 70, 80},
             PlaceDigital(dir, chance, stake, mid)
      PROVE  FixedShape(ticket')
    BY <1>2, <1>3, <1>6 DEF PlaceDigital, FixedTicket, FixedShape, DigitKinds
<1>7. ASSUME NEW dir \in {"BUY", "SELL"}, NEW e \in ScaledEdges,
             PlaceScaled(dir, stake, mid, e)
      PROVE  ScaledShape(ticket')
    <2> DEFINE charged == ScaledEdgeWith(pass, e)
    <2>1. charged \in Nat /\ charged <= 2000
        BY <1>2, TicketAssumption DEF ScaledEdgeWith
    <2> HIDE DEF charged
    <2>2. ApplySpread(mid, dir, ScaledMultiplier, charged) \in Nat \ {0}
        <3>1. mid \in Nat \ {0} /\ ScaledMultiplier \in Nat \ {0}
            BY <1>2, TicketAssumption
        <3> QED
            BY <2>1, <3>1, SpreadKeepsPricePositive
    <2>3. stake * MostMultiple \in Nat
        BY <1>2, TicketAssumption
    <2>4. ticket' = [kind |-> "SCALED", dir |-> dir, level |-> mid, chance |-> 0,
                     entry |-> ApplySpread(mid, dir, ScaledMultiplier, charged),
                     stake |-> stake, edge |-> charged, most |-> stake * MostMultiple]
        BY <1>7 DEF PlaceScaled, charged
    <2> QED
        BY <1>2, <2>2, <2>3, <2>4 DEF ScaledShape
<1> QED
    BY <1>1, <1>4, <1>5, <1>6, <1>7

\* Whatever is quoted and sold, the ticket has the shape its kind is sold in.
LEMMA TicketInvHolds == TicketSpec => []TicketInv
<1>1. TicketInit => TicketInv
    BY DEF TicketInit, TicketInv
<1>2. TicketInv /\ [TicketNext]_ticketVars => TicketInv'
    <2> SUFFICES ASSUME TicketInv, [TicketNext]_ticketVars PROVE TicketInv'
        OBVIOUS
    <2>1. CASE BuyTicket
        <3>1. pass' = pass
            BY <2>1 DEF BuyTicket
        <3>2. FixedShape(ticket') \/ ScaledShape(ticket')
            BY <2>1, SoldInShape
        <3> QED
            BY <3>1, <3>2 DEF TicketInv
    <2>2. CASE CloseTicket
        BY <2>2 DEF CloseTicket, TicketInv
    <2>3. CASE \E e \in PassEdges : RedeemPass(e)
        BY <2>3 DEF RedeemPass, TicketInv, FixedShape, ScaledShape
    <2>4. CASE PassEnds
        BY <2>4 DEF PassEnds, TicketInv, FixedShape, ScaledShape
    <2>5. CASE UNCHANGED ticketVars
        BY <2>5 DEF ticketVars, TicketInv, FixedShape, ScaledShape
    <2> QED
        BY <2>1, <2>2, <2>3, <2>4, <2>5 DEF TicketNext
<1> QED
    BY <1>1, <1>2, PTL DEF TicketSpec

(* What it is worth *)

\* A digit ticket wins on as many of ten digits as its chance says.
LEMMA ChanceIsCount ==
    ASSUME NEW t, FixedShape(t), IsDigits(t)
    PROVE  10 * Cardinality({d \in Digits : DigitWins(t, d)}) = t.chance
<1>1. t.kind \in DigitKinds
    BY DEF IsDigits, DigitKinds
<1>2. CASE t.kind = "DIGITS_OVER"
    BY <1>2, OverWins DEF FixedShape
<1>3. CASE t.kind = "DIGITS_UNDER"
    BY <1>3, UnderWins DEF FixedShape
<1>4. CASE t.kind \in {"DIGITS_EVEN", "DIGITS_ODD"}
    BY <1>4, ParityWins DEF FixedShape
<1> QED
    BY <1>1, <1>2, <1>3, <1>4 DEF DigitKinds

\* A fixed payout of that shape is sold at its odds less the edge.
LEMMA InvMeansFair == TicketInv => TicketsPricedFair
<1> SUFFICES ASSUME TicketInv, ticket # NoTicket, ticket.kind # "SCALED"
             PROVE  TicketsPricedFair
    BY DEF TicketsPricedFair
<1> DEFINE wins == IF IsDigits(ticket) THEN 10 * Cardinality({d \in Digits : DigitWins(ticket, d)})
                   ELSE ticket.chance
<1>1. FixedShape(ticket)
    BY DEF TicketInv, ScaledShape
<1>2. wins = ticket.chance
    BY <1>1, ChanceIsCount
<1>3. ticket.stake \in Nat /\ ticket.chance \in 10..90 /\ ticket.edge \in 0..2000
    BY <1>1 DEF FixedShape
<1>4. ticket.most = MostOf(ticket.stake, ticket.chance, ticket.edge)
    BY <1>1 DEF FixedShape
<1>5. /\ 10000 * (ticket.chance * MostOf(ticket.stake, ticket.chance, ticket.edge)
                   - (100 - ticket.chance) * ticket.stake) + 100 * ticket.edge * ticket.stake
         \in -5000 * ticket.chance .. 5000 * ticket.chance
      /\ ticket.edge <= 1000 => MostOf(ticket.stake, ticket.chance, ticket.edge) >= 0
    BY <1>3, FixedIsFair
<1>6. ticket.edge \in MinEdge..2000
    BY <1>1 DEF FixedShape, MinEdge
<1> HIDE DEF wins
<1>7. /\ 10000 * (wins * ticket.most - (100 - wins) * ticket.stake)
            + 100 * ticket.edge * ticket.stake \in -5000 * wins .. 5000 * wins
      /\ ticket.edge <= 1000 => ticket.most >= 0
    BY <1>2, <1>4, <1>5
<1> QED
    BY <1>6, <1>7 DEF wins, TicketsPricedFair

\* A ticket of that shape is paid what the screen showed, or a cent less.
LEMMA InvMeansPaid == TicketInv => ShownIsPaid
<1> SUFFICES ASSUME TicketInv, ticket # NoTicket, ~IsDigits(ticket), NEW at \in Exits
             PROVE  ShownProfit(ticket, at) - PaidOut(ticket, at) \in 0..1
    BY DEF ShownIsPaid
<1>1. at \in Int
    BY TicketAssumption
<1>2. CASE ScaledShape(ticket)
    <2>1. ticket.kind = "SCALED"
        BY <1>2 DEF ScaledShape
    <2>2. ShownScaled(ticket.dir, ticket.stake, ScaledMultiplier, ticket.entry, ticket.most, at)
            - ScaledProfit(ticket.dir, ticket.stake, ScaledMultiplier, ticket.entry,
                           ticket.most, at) \in 0..1
        <3>1. /\ ticket.dir \in {"BUY", "SELL"} /\ ticket.stake \in Nat
              /\ ticket.entry \in Nat \ {0} /\ ticket.most \in Nat
              /\ ScaledMultiplier \in Nat
            BY <1>2, TicketAssumption DEF ScaledShape
        <3> QED
            BY <1>1, <3>1, ScaledShownIsPaid
    <2> QED
        BY <2>1, <2>2 DEF ShownProfit, PaidOut
<1>3. CASE FixedShape(ticket)
    <2>1. ticket.kind = "DIGITAL"
        BY <1>3 DEF FixedShape, DigitKinds, IsDigits
    <2>2. ticket.most \in Int /\ ticket.stake \in Int
        <3>1. ticket.stake \in Nat /\ ticket.chance \in 10..90 /\ ticket.edge \in 0..2000
            BY <1>3 DEF FixedShape
        <3>2. MostOf(ticket.stake, ticket.chance, ticket.edge) \in Int
            BY <3>1, FixedIsFair
        <3> QED
            BY <1>3, <3>1, <3>2 DEF FixedShape
    <2>3. ShownProfit(ticket, at) = PaidOut(ticket, at) /\ PaidOut(ticket, at) \in Int
        BY <2>1, <2>2 DEF ShownProfit, PaidOut, DigitalProfit, IsDigits
    <2> QED
        BY <2>3
<1> QED
    BY <1>2, <1>3 DEF TicketInv

\* Whatever is sold, at whatever stake, price, edge and pass, returns its stake less the
\* edge, and is paid what the trader was shown, or a cent less.
THEOREM TicketsHonestHolds == TicketSpec => []TicketsHonest
<1>1. TicketInv => TicketsHonest
    BY InvMeansFair, InvMeansPaid DEF TicketsHonest
<1> QED
    BY <1>1, TicketInvHolds, PTL

-----------------------------------------------------------------------------
(* TestRig: for all rates, stakes and wins, and any number of tickets, accounts and boots. *)

\* What this boot's configuration has the book leave out.
Wanting == IF armed THEN named ELSE {}

\* A flag is as the configuration has it, or has still to be written, or one of this boot
\* could not be.
FlagsOnTheWay ==
    booted > 0 /\ ~syncFailed => flagged = (Wanting \ syncing) \cup (syncing \ Wanting)

RigInv == RigTypeOK /\ RtpOnTarget /\ FlagsOnTheWay

\* A draw that is lost only above its target and won only below it leaves the total within
\* one prize of where it should be: wins of prize w, of which r parts in a hundred were due.
LEMMA DrawCorrects ==
    ASSUME NEW got \in Int, NEW due \in Int, NEW more \in Int, NEW prize \in Int, NEW most \in Int,
           Within(got - due, most), 0 <= more, more <= prize, prize <= most
    PROVE  /\ due + more - got > 0 => Within(got + prize - (due + more), most)
           /\ due + more - got < prize => Within(got - (due + more), most)
BY DEF Within

\* A rate is a part of a hundred.
LEMMA PartOfHundred ==
    ASSUME NEW rate \in 0..100, NEW n \in Nat
    PROVE  rate * n \in Nat /\ rate * n <= 100 * n
BY SMT

\* A product spreads over a sum.
LEMMA Spreads ==
    ASSUME NEW r \in Int, NEW a \in Int, NEW b \in Int
    PROVE  r * (a + b) = r * a + r * b
BY SMT

\* A ticket being settled has the shape it was opened in.
LEMMA MovesAreTickets ==
    ASSUME RigTypeOK, NEW s \in RigSlots, NEW from, At(s, from),
           NEW stage \in {"open", "loading", "settling"}, NEW force \in Opinions
    PROVE  /\ tickets[s] \in RigTickets
           /\ Move(s, stage, force) => tickets' \in [RigSlots -> RigTickets \cup {None}]
<1>1. tickets[s] \in RigTickets
    BY DEF RigTypeOK, At
<1>2. [tickets[s] EXCEPT !.stage = stage, !.force = force] \in RigTickets
    BY <1>1 DEF RigTickets
<1> QED
    BY <1>1, <1>2 DEF RigTypeOK, Move

\* Of a ticket decided for return to player, what was paid stays within a ticket of its target.
LEMMA RtpStays ==
    ASSUME RigInv, NEW t \in RigTickets, ~Steered(t), NEW outcome \in Outcomes(t),
           Record(t, outcome = "WIN")
    PROVE  /\ staked' \in Nat /\ paid' \in Nat
           /\ Within(100 * paid' - Rtp * staked', 100 * LargestPayout)
<1>1. /\ staked \in Nat /\ paid \in Nat /\ Rtp \in 0..100 /\ LargestPayout \in Nat
      /\ t.stake \in Nat \ {0} /\ t.win \in Nat /\ t.stake + t.win <= LargestPayout
    BY RigAssumption DEF RigInv, RigTypeOK, RigTickets
<1>2. staked' = staked + t.stake /\ paid' = paid + IF outcome = "WIN" THEN t.stake + t.win ELSE 0
    BY DEF Record
<1>3. Rtp * (staked + t.stake) = Rtp * staked + Rtp * t.stake
    BY <1>1, Spreads
<1>4. Rtp * t.stake \in Nat /\ Rtp * t.stake <= 100 * t.stake /\ Rtp * staked \in Nat
    BY <1>1, PartOfHundred
<1> PICK due, more \in Int : due = Rtp * staked /\ more = Rtp * t.stake
    BY <1>4
<1>5. /\ due + more - 100 * paid > 0
            => Within(100 * paid + 100 * (t.stake + t.win) - (due + more), 100 * LargestPayout)
      /\ due + more - 100 * paid < 100 * (t.stake + t.win)
            => Within(100 * paid - (due + more), 100 * LargestPayout)
    <2>1. Within(100 * paid - due, 100 * LargestPayout)
        BY DEF RigInv, RtpOnTarget
    <2>2. 0 <= more /\ more <= 100 * (t.stake + t.win) /\ 100 * (t.stake + t.win) <= 100 * LargestPayout
        BY <1>1, <1>4
    <2>3. 100 * paid \in Int /\ 100 * (t.stake + t.win) \in Int /\ 100 * LargestPayout \in Int
        BY <1>1
    <2> QED
        BY <2>1, <2>2, <2>3, DrawCorrects
<1>6. Wanted(t) = due + more - 100 * paid /\ Whole(t) = 100 * (t.stake + t.win)
    <2>1. Wanted(t) = WantedForRtp(t) /\ Whole(t) = 100 * (t.stake + t.win)
        BY DEF Wanted, Whole
    <2>2. WantedForRtp(t) = Rtp * (staked + t.stake) - 100 * paid
        BY DEF WantedForRtp
    <2> QED
        BY <1>1, <1>3, <1>4, <2>1, <2>2
<1>7. CASE outcome = "WIN"
    <2>1. due + more - 100 * paid > 0
        BY <1>6, <1>7 DEF Outcomes
    <2>2. 100 * paid' = 100 * paid + 100 * (t.stake + t.win)
        BY <1>1, <1>2, <1>7
    <2> QED
        BY <1>1, <1>2, <1>3, <1>5, <1>7, <2>1, <2>2
<1>8. CASE outcome # "WIN"
    <2>1. due + more - 100 * paid < 100 * (t.stake + t.win)
        BY <1>6, <1>8 DEF Outcomes
    <2>2. paid' = paid
        BY <1>1, <1>2, <1>8
    <2>3. Rtp * staked' = due + more
        BY <1>2, <1>3
    <2>4. staked' \in Nat /\ paid' \in Nat
        BY <1>1, <1>2, <2>2
    <2>5. Within(100 * paid - (due + more), 100 * LargestPayout)
        BY <1>5, <2>1
    <2> QED
        BY <2>2, <2>3, <2>4, <2>5
<1> QED
    BY <1>7, <1>8

\* The account and money a rate is kept for, and the rate.
RateOf(k) == IF k[2] THEN DemoRate ELSE AccountRate

\* Of a steered ticket, the account's wins stay within one of their rate.
LEMMA RateStays ==
    ASSUME RigInv, NEW t \in RigTickets, Steered(t), NEW outcome \in Outcomes(t)
    PROVE  LET k == <<t.user, t.demo>>
               wins == tally[k].wins + IF outcome = "WIN" THEN 1 ELSE 0
           IN  Within(100 * wins - RateOf(k) * (tally[k].trades + 1), 100)
<1> PICK k : k = <<t.user, t.demo>>
    OBVIOUS
<1>0. k \in Keys /\ k[1] = t.user /\ k[2] = t.demo
    BY DEF RigTickets, Keys
<1> PICK rate : rate = RateOf(k)
    OBVIOUS
<1>1. tally[k].wins \in Nat /\ tally[k].trades \in Nat /\ rate \in 0..100 /\ Rate(t) = rate
    BY <1>0, RigAssumption DEF RigInv, RigTypeOK, RateOf, Rate
<1>2. rate * (tally[k].trades + 1) = rate * tally[k].trades + rate
    BY <1>1, Spreads
<1>3. rate * tally[k].trades \in Nat
    BY <1>1, PartOfHundred
<1> PICK due \in Int : due = rate * tally[k].trades
    BY <1>3
<1>4. /\ due + rate - 100 * tally[k].wins > 0
            => Within(100 * tally[k].wins + 100 - (due + rate), 100)
      /\ due + rate - 100 * tally[k].wins < 100
            => Within(100 * tally[k].wins - (due + rate), 100)
    <2>1. Within(100 * tally[k].wins - due, 100)
        BY <1>0 DEF RigInv, RtpOnTarget, Steered, RateOf
    <2>2. 100 * tally[k].wins \in Int /\ rate \in Int /\ 0 <= rate /\ rate <= 100 /\ 100 \in Int /\ 100 <= 100
        BY <1>1
    <2> QED
        BY <2>1, <2>2, DrawCorrects DEF Within
<1>5. Wanted(t) = due + rate - 100 * tally[k].wins /\ Whole(t) = 100
    <2>1. Wanted(t) = WantedForRate(t) /\ Whole(t) = 100
        BY DEF Wanted, Whole
    <2>2. WantedForRate(t) = rate * (tally[k].trades + 1) - 100 * tally[k].wins
        BY <1>1 DEF WantedForRate
    <2>3. rate * (tally[k].trades + 1) = due + rate
        BY <1>2
    <2>4. WantedForRate(t) = (due + rate) - 100 * tally[k].wins
        BY <2>2, <2>3, Zenon
    <2>5. (due + rate) - 100 * tally[k].wins = due + rate - 100 * tally[k].wins
        BY <1>1
    <2> QED
        BY <2>1, <2>4, <2>5, Zenon
<1>6. CASE outcome = "WIN"
    <2>1. due + rate - 100 * tally[k].wins > 0
        BY <1>5, <1>6 DEF Outcomes
    <2> QED
        BY <1>1, <1>2, <1>4, <1>6, <2>1
<1>7. CASE outcome # "WIN"
    <2>1. due + rate - 100 * tally[k].wins < 100
        BY <1>5, <1>7 DEF Outcomes
    <2> QED
        BY <1>1, <1>2, <1>4, <1>7, <2>1
<1> QED
    BY <1>6, <1>7

\* A decision is recorded as it was taken, and on target.
LEMMA DecideStays ==
    ASSUME RigInv, NEW s \in RigSlots, Decide(s)
    PROVE  RigInv'
<1> PICK t : t = tickets[s]
    OBVIOUS
<1>1. t \in RigTickets
    BY MovesAreTickets DEF Decide, RigInv, Opinions
<1>2. PICK outcome \in Outcomes(t) : Record(t, outcome = "WIN") /\ Move(s, "settling", outcome)
    BY DEF Decide
<1>3. outcome \in Opinions
    BY DEF Outcomes, Opinions
<1>4. tickets' \in [RigSlots -> RigTickets \cup {None}]
    BY <1>2, <1>3, MovesAreTickets DEF Decide, RigInv
<1> PICK k : k = <<t.user, t.demo>>
    OBVIOUS
<1>5. k \in Keys /\ k[1] = t.user /\ k[2] = t.demo
    BY <1>1 DEF RigTickets, Keys
<1>6. tally' = [tally EXCEPT ![k] =
          [trades |-> tally[k].trades + 1, wins |-> tally[k].wins + IF outcome = "WIN" THEN 1 ELSE 0]]
    BY <1>2, <1>5 DEF Record, RigInv, RigTypeOK
<1>7. tally' \in [Keys -> [trades : Nat, wins : Nat]]
    BY <1>5, <1>6 DEF RigInv, RigTypeOK
<1>8. staked' \in Nat /\ paid' \in Nat /\ Within(100 * paid' - Rtp * staked', 100 * LargestPayout)
    <2>1. CASE Steered(t)
        BY <1>2, <2>1 DEF Record, RigInv, RigTypeOK, RtpOnTarget
    <2> QED
        BY <1>1, <1>2, <2>1, RtpStays
<1>9. \A j \in Keys : j[2] \/ j[1] \in named =>
          Within(100 * tally'[j].wins - RateOf(j) * tally'[j].trades, 100)
    <2> SUFFICES ASSUME NEW j \in Keys, j[2] \/ j[1] \in named
                 PROVE  Within(100 * tally'[j].wins - RateOf(j) * tally'[j].trades, 100)
        OBVIOUS
    <2>1. CASE j = k
        <3>1. Steered(t)
            BY <1>5, <2>1 DEF Steered
        <3>2. /\ tally'[j].wins = tally[k].wins + IF outcome = "WIN" THEN 1 ELSE 0
              /\ tally'[j].trades = tally[k].trades + 1
            BY <1>5, <1>6, <2>1 DEF RigInv, RigTypeOK
        <3> QED
            BY <1>1, <2>1, <3>1, <3>2, RateStays
    <2>2. CASE j # k
        <3>1. tally'[j] = tally[j]
            BY <1>6, <2>2 DEF RigInv, RigTypeOK
        <3> QED
            BY <3>1 DEF RigInv, RtpOnTarget, RateOf
    <2> QED
        BY <2>1, <2>2
<1>10. RtpOnTarget'
    BY <1>8, <1>9 DEF RtpOnTarget, RateOf, Decide, flagVars
<1> QED
    BY <1>4, <1>7, <1>8, <1>10 DEF RigInv, RigTypeOK, FlagsOnTheWay, Wanting, Decide, flagVars

\* A boot forgets its tallies, and has to write each flag that is not as configured.
LEMMA BootStays == RigInv /\ RigBoot => RigInv'
<1> SUFFICES ASSUME RigInv, RigBoot
             PROVE  RigInv'
    OBVIOUS
<1>1. tickets' \in [RigSlots -> RigTickets \cup {None}]
    <2> SUFFICES ASSUME NEW s \in RigSlots
                 PROVE  (IF tickets[s] = None THEN None
                         ELSE [tickets[s] EXCEPT !.stage = "open", !.force = "null"])
                        \in RigTickets \cup {None}
        BY DEF RigBoot
    <2> QED
        BY DEF RigInv, RigTypeOK, RigTickets, Opinions
<1>2. RtpOnTarget'
    <2>1. staked' = 0 /\ paid' = 0 /\ tally' = [k \in Keys |-> NoTrades]
        BY DEF RigBoot
    <2> QED
        BY <2>1, RigAssumption DEF RtpOnTarget, Within, NoTrades
<1>3. /\ syncing' = (flagged' \ Wanting') \cup (Wanting' \ flagged')
      /\ Wanting' \subseteq RigUsers
    BY RigAssumption DEF RigBoot, Wanting
<1>4. FlagsOnTheWay'
    BY <1>3 DEF FlagsOnTheWay
<1>5. /\ tally' \in [Keys -> [trades : Nat, wins : Nat]]
      /\ syncing' \subseteq RigUsers
    BY <1>3 DEF RigBoot, NoTrades, RigInv, RigTypeOK
<1>6. /\ armed' \in BOOLEAN /\ named' \subseteq RigNames /\ booted' \in Nat
      /\ syncFailed' \in BOOLEAN /\ flagged' \subseteq RigUsers
      /\ staked' \in Nat /\ paid' \in Nat /\ decisions' \in Nat
    <2>1. booted \in Nat /\ flagged \subseteq RigUsers
        BY DEF RigInv, RigTypeOK
    <2>2. armed' \in BOOLEAN /\ named' \subseteq RigNames /\ syncFailed' = FALSE /\ flagged' = flagged
        BY DEF RigBoot
    <2>3. booted' = booted + 1 /\ staked' = 0 /\ paid' = 0 /\ decisions' = 0
        BY DEF RigBoot
    <2>4. booted' \in Nat /\ staked' \in Nat /\ paid' \in Nat /\ decisions' \in Nat
        BY <2>1, <2>3
    <2> QED
        BY <2>1, <2>2, <2>4, Zenon
<1> QED
    BY <1>1, <1>2, <1>4, <1>5, <1>6 DEF RigInv, RigTypeOK

\* A flag that is written is as configured from then on.
LEMMA SyncStays ==
    ASSUME RigInv, SyncUnread \/ \E u \in RigUsers : SyncFlag(u)
    PROVE  RigInv'
<1>1. UNCHANGED <<armed, named, booted, staked, paid, tally, decisions, tickets>>
    BY DEF SyncUnread, SyncFlag, ledgerVars
<1>2. RtpOnTarget'
    BY <1>1 DEF RigInv, RtpOnTarget
<1>3. syncing' \subseteq RigUsers /\ flagged' \subseteq RigUsers /\ syncFailed' \in BOOLEAN
    BY DEF SyncUnread, SyncFlag, Flags, RigInv, RigTypeOK
<1>4. FlagsOnTheWay'
    BY <1>1 DEF SyncUnread, SyncFlag, Flags, RigInv, FlagsOnTheWay, Wanting
<1> QED
    BY <1>1, <1>2, <1>3, <1>4 DEF RigInv, RigTypeOK

\* The other steps of a ticket decide nothing.
LEMMA TicketsPass ==
    ASSUME RigInv, NEW s \in RigSlots,
           \/ \E user \in RigUsers, demo \in BOOLEAN, stake \in RigStakes, win \in RigWins :
                 OpenTicket(s, user, demo, stake, win)
           \/ AskRig(s) \/ StandDown(s) \/ RigSettles(s) \/ RigSettleFails(s)
    PROVE  RigInv'
<1>1. UNCHANGED <<flagVars, ledgerVars>>
    BY DEF OpenTicket, AskRig, StandDown, RigSettles, RigSettleFails
<1>2. RtpOnTarget' /\ FlagsOnTheWay'
    BY <1>1 DEF RigInv, RtpOnTarget, FlagsOnTheWay, Wanting, flagVars, ledgerVars
<1>3. tickets' \in [RigSlots -> RigTickets \cup {None}]
    <2>1. CASE \E user \in RigUsers, demo \in BOOLEAN, stake \in RigStakes, win \in RigWins :
                  OpenTicket(s, user, demo, stake, win)
        BY <2>1 DEF OpenTicket, RigInv, RigTypeOK, RigTickets, Opinions
    <2>2. CASE RigSettles(s)
        BY <2>2 DEF RigSettles, RigInv, RigTypeOK
    <2>3. CASE AskRig(s) \/ StandDown(s) \/ RigSettleFails(s)
        BY <2>3, MovesAreTickets DEF AskRig, StandDown, RigSettleFails, RigInv, Opinions
    <2> QED
        BY <2>1, <2>2, <2>3
<1> QED
    BY <1>1, <1>2, <1>3 DEF RigInv, RigTypeOK, flagVars, ledgerVars

\* The first boot starts from nothing.
LEMMA RigStarts == RigInit => RigInv
<1> SUFFICES ASSUME RigInit
             PROVE  RigInv
    OBVIOUS
<1>1. RigTypeOK
    BY DEF RigInit, RigTypeOK, NoTrades
<1>2. RtpOnTarget
    BY RigAssumption DEF RigInit, RtpOnTarget, Within, NoTrades
<1> QED
    BY <1>1, <1>2 DEF RigInit, RigInv, FlagsOnTheWay

\* Whatever the rig, its tickets and its flags do next, the invariant stays.
LEMMA RigStep == RigInv /\ [RigNext]_rigVars => RigInv'
<1> SUFFICES ASSUME RigInv, [RigNext]_rigVars
             PROVE  RigInv'
    OBVIOUS
<1>1. CASE UNCHANGED rigVars
    BY <1>1 DEF rigVars, RigInv, RigTypeOK, RtpOnTarget, FlagsOnTheWay, Wanting
<1>2. CASE \E s \in RigSlots : Decide(s)
    BY <1>2, DecideStays
<1> QED
    BY <1>1, <1>2, BootStays, SyncStays, TicketsPass DEF RigNext

\* The rig stays on target and its flags follow the configuration.
THEOREM RigHonestHolds == RigSpec => []RigHonest
<1>1. RigInv => RigHonest
    BY DEF RigInv, RigTypeOK, RigHonest, FlagsOnTheWay, FlagsFollowConfig, Wanting
<1> QED
    BY <1>1, RigStarts, RigStep, PTL DEF RigSpec

-----------------------------------------------------------------------------
(* TradingPass: for all codes, edges, limits and hours, and any number of placements and
   legs. *)

\* Time and redemptions add to what the trader has had while a placement is under way.
LEMMA GrantsKeepPass ==
    ASSUME PassHonoured, HourPasses \/ \E c \in Codes : RedeemCode(c)
    PROVE  PassHonoured'
<1>1. placing' = placing /\ (placing.on => held \subseteq held')
    BY DEF HourPasses, RedeemCode
<1> QED
    BY <1>1 DEF PassHonoured

\* A placement or a leg begins with the pass its trader has then, or with none read.
LEMMA BeginningsHonourPass ==
    ASSUME NextLeg \/ NextLegUnread \/ \E legs \in {1, RunLegs} : AskPlace(legs)
    PROVE  PassHonoured'
<1>1. CASE NextLegUnread
    <2>1. ~placing'.read
        BY <1>1 DEF NextLegUnread
    <2> QED
        BY <2>1 DEF PassHonoured
<1>2. ASSUME NEW leg, NEW left, Begins(leg, left)
      PROVE  PassHonoured'
    <2>1. placing'.pass = Pass /\ held' = {Pass}
        BY <1>2 DEF Begins
    <2> QED
        BY <2>1 DEF PassHonoured
<1> QED
    BY <1>1, <1>2 DEF NextLeg, AskPlace

\* Once it is priced or refused, no placement is under way.
LEMMA EndingsHonourPass ==
    ASSUME PlacementRefused \/ \E kind \in {"SCALED", "DIGITAL"} : Price(kind),
           DOMAIN placing = {"pass", "read", "leg", "on"}
    PROVE  PassHonoured'
<1>1. ~placing'.on
    BY DEF PlacementRefused, Price, NotPlacing
<1> QED
    BY <1>1 DEF PassHonoured

\* Whatever is redeemed, expires or is disabled while the desk is asked or a run goes on, a
\* position about to be priced carries a pass its trader has had since it was asked for
\* (toSessionUser, promoEdgeFor and placeTrade).
THEOREM PassHonouredHolds == PassSpec => []PassHonoured
<1> DEFINE Shape == DOMAIN placing = {"pass", "read", "leg", "on"}
<1>1. PassInit => PassHonoured /\ Shape
    BY DEF PassInit, PassHonoured, NotPlacing
<1>2. PassHonoured /\ Shape /\ [PassNext]_passVars => PassHonoured' /\ Shape'
    <2> SUFFICES ASSUME PassHonoured, Shape, [PassNext]_passVars
                 PROVE  PassHonoured' /\ Shape'
        OBVIOUS
    <2>1. CASE HourPasses \/ \E c \in Codes : RedeemCode(c)
        <3>1. placing' = placing
            BY <2>1 DEF HourPasses, RedeemCode
        <3> QED
            BY <2>1, <3>1, GrantsKeepPass
    <2>2. CASE NextLeg \/ NextLegUnread \/ \E legs \in {1, RunLegs} : AskPlace(legs)
        <3>1. Shape'
            BY <2>2 DEF NextLeg, NextLegUnread, AskPlace, Begins
        <3> QED
            BY <2>2, <3>1, BeginningsHonourPass
    <2>3. CASE PlacementRefused \/ \E kind \in {"SCALED", "DIGITAL"} : Price(kind)
        <3>1. Shape'
            BY <2>3 DEF PlacementRefused, Price, NotPlacing
        <3> QED
            BY <2>3, <3>1, EndingsHonourPass
    <2>4. CASE UNCHANGED <<placing, held>>
        BY <2>4 DEF PassHonoured
    <2>5. \/ HourPasses \/ \E c \in Codes : RedeemCode(c)
          \/ NextLeg \/ NextLegUnread \/ \E legs \in {1, RunLegs} : AskPlace(legs)
          \/ PlacementRefused \/ \E kind \in {"SCALED", "DIGITAL"} : Price(kind)
          \/ UNCHANGED <<placing, held>>
        BY DEF PassNext, passVars, DisableCode, CreateCode, EdgeMoves, QuoteStep, AskQuote,
               QuoteExec, EdgeQuoteArrives, EdgeQuoteFails
    <2> QED
        BY <2>1, <2>2, <2>3, <2>4, <2>5
<1> QED
    BY <1>1, <1>2, PTL DEF PassSpec

-----------------------------------------------------------------------------
(* ShadowFeed: an open position is inside its levels, for any ticks, any number of
   positions and any loss of the connection, where prices are so many steps that rounding
   does not put a level on the price a position is opened at. *)

FineSteps ==
    /\ ShadowMost >= 1
    /\ \A p \in ShadowPrices :
          p * (ShadowMultiplier * Bps - (ShadowMultiplier + 1) * ShadowEdge)
             >= ShadowMultiplier * Bps * (ShadowMultiplier + 1)

\* Math.round is within half of what it rounds.
LEMMA RoundedWithinHalf ==
  ASSUME NEW n \in Int, NEW d \in Nat \ {0}
  PROVE  /\ RoundHalfUp(n, d) \in Int
         /\ 2 * (d * RoundHalfUp(n, d)) <= 2 * n + d
         /\ 2 * n - d < 2 * (d * RoundHalfUp(n, d))
<1> DEFINE N == 2 * n + d
           D == 2 * d
           q == N \div D
<1>1. N \in Int /\ D \in Nat \ {0}
  OBVIOUS
<1>2. q \in Int /\ D * q <= N /\ N < D * q + D
  <2> HIDE DEF N, D
  <2> QED BY <1>1
<1>3. D * q = 2 * (d * q)
  <2> HIDE DEF q
  <2> QED BY <1>2
<1>4. RoundHalfUp(n, d) = q
  BY DEF RoundHalfUp
<1> HIDE DEF q
<1> QED BY <1>2, <1>3, <1>4

\* The levels of a position that is opened lie on either side of the price it is opened at.
LEMMA OpensInside ==
  ASSUME NEW p \in Nat \ {0}, NEW m \in Nat \ {0}, NEW rate \in Nat, NEW reach \in Nat \ {0},
         p * (m * Bps - (m + 1) * rate) >= m * Bps * (m + 1), NEW dir \in {"BUY", "SELL"}
  PROVE  LET entry == ApplySpread(p, dir, m, rate)
         IN  ~HitStop(dir, p, StopOut(entry, dir, m)) /\ ~HitTarget(dir, p, TakeProfit(entry, dir, m, reach))
<1> DEFINE a == m * Bps
           entry == ApplySpread(p, dir, m, rate)
           stop == StopOut(entry, dir, m)
           target == TakeProfit(entry, dir, m, reach)
           sg == Sign(dir)
           pa == p * a
           pe == p * rate
           pem == pe * m
           am == a * m
\* In terms of the products of two and three.
<1>1. a \in Nat \ {0} /\ pa \in Int /\ pe \in Nat /\ pem \in Nat /\ am \in Nat /\ sg \in {1, -1}
      /\ (dir = "BUY" => sg = 1) /\ (dir = "SELL" => sg = -1)
  BY DEF Bps, Sign
<1>2. pa - pem - pe >= am + a
  <2>1. a \in Int /\ m \in Int /\ rate \in Int /\ p \in Int
    BY <1>1
  <2>2. p * (a - (m + 1) * rate) >= a * (m + 1)
    OBVIOUS
  <2> HIDE DEF a
  <2>3. p * (a - (m + 1) * rate) = (p * a - p * rate * m) - p * rate
    BY <2>1
  <2>4. a * (m + 1) = a * m + a
    BY <2>1
  <2> QED BY <2>1, <2>2, <2>3, <2>4
<1>3. entry \in Int /\ 2 * (a * entry) <= 2 * (pa + sg * pe) + a /\ 2 * (pa + sg * pe) - a < 2 * (a * entry)
  <2>1. p * (a + sg * rate) \in Int /\ p * (a + sg * rate) = pa + sg * pe
    BY <1>1
  <2>2. entry = RoundHalfUp(p * (a + sg * rate), a)
    BY DEF ApplySpread
  <2> HIDE DEF a, sg, entry, pa, pe
  <2>3. entry \in Int /\ 2 * (a * entry) <= 2 * (p * (a + sg * rate)) + a
        /\ 2 * (p * (a + sg * rate)) - a < 2 * (a * entry)
    BY <1>1, <2>1, <2>2, RoundedWithinHalf
  <2> QED BY <2>1, <2>3
<1>4. stop \in Int /\ 2 * (m * stop) <= 2 * (entry * (m - sg)) + m /\ 2 * (entry * (m - sg)) - m < 2 * (m * stop)
  <2>1. entry * (m - sg) \in Int
    BY <1>1, <1>3
  <2>2. stop = RoundHalfUp(entry * (m - sg), m)
    BY DEF StopOut
  <2> HIDE DEF sg, entry, stop
  <2> QED BY <2>1, <2>2, RoundedWithinHalf
<1>5. target \in Int /\ 2 * (m * target) <= 2 * (entry * (m + sg * reach)) + m
      /\ 2 * (entry * (m + sg * reach)) - m < 2 * (m * target)
  <2>1. entry * (m + sg * reach) \in Int
    BY <1>1, <1>3
  <2>2. target = RoundHalfUp(entry * (m + sg * reach), m)
    BY DEF TakeProfit
  <2> HIDE DEF sg, entry, target
  <2> QED BY <2>1, <2>2, RoundedWithinHalf
<1>6. entry * m \in Int /\ a * entry \in Int /\ pa * m \in Int /\ p * m \in Int /\ p * reach \in Int
      /\ entry * reach \in Int
  BY <1>1, <1>3
<1> HIDE DEF a, entry, stop, target, sg, pe, pem, am
<1>8. p > m
  <2>1. pa >= am + a
    BY <1>1, <1>2
  <2>2. CASE p <= m
    <3>1. a * p <= a * m
      BY <1>1, <2>2
    <3> QED BY <1>1, <2>1, <3>1 DEF pa, am
  <2> QED BY <2>2
<1>7. CASE dir = "BUY"
  <2>1. entry >= p
    <3>1. 2 * pa - a < 2 * (a * entry)
      BY <1>1, <1>3, <1>6, <1>7
    <3>2. CASE entry < p
      <4>1. a * entry <= a * (p - 1)
        BY <1>1, <1>3, <3>2
      <4>2. a * (p - 1) = pa - a
        BY <1>1
      <4> QED BY <1>1, <1>6, <3>1, <4>1, <4>2
    <3> QED BY <1>3, <3>2
  <2>2. ASSUME p <= stop PROVE FALSE
    <3>1. m * p <= m * stop
      BY <1>4, <2>2
    <3>2. 2 * (m * p) <= 2 * (entry * (m - 1)) + m
      <4>1. m * p \in Int /\ m * stop \in Int /\ entry * (m - 1) \in Int
        BY <1>3, <1>4
      <4> QED BY <1>1, <1>4, <1>7, <3>1, <4>1
    <3>3. 2 * (pa * m) <= 2 * ((a * entry) * (m - 1)) + am
      <4> DEFINE l == 2 * (m * p)
                 r == 2 * (entry * (m - 1)) + m
      <4>1. l \in Int /\ r \in Int
        BY <1>3
      <4>2. a * l = 2 * (pa * m)
        BY <1>1
      <4>3. a * r = 2 * ((a * entry) * (m - 1)) + am
        BY <1>1, <1>3 DEF am
      <4>4. a * l <= a * r
        <5> HIDE DEF l, r, pa
        <5> QED BY <1>1, <3>2, <4>1 DEF l, r
      <4> QED BY <4>2, <4>3, <4>4
    <3>4. 2 * ((a * entry) * (m - 1)) <= 2 * (pa * m) - 2 * pa + 2 * pem - 2 * pe + am - a
      <4> DEFINE l == 2 * (a * entry)
                 r == 2 * (pa + pe) + a
      <4>1. l \in Int /\ r \in Int /\ l <= r /\ m - 1 \in Nat
        BY <1>1, <1>3, <1>6, <1>7
      <4>2. l * (m - 1) <= r * (m - 1)
        <5> HIDE DEF l, r
        <5> QED BY <4>1
      <4>3. l * (m - 1) = 2 * ((a * entry) * (m - 1))
        BY <1>6
      <4>4. r * (m - 1) = (2 * (pa * m) - 2 * pa + 2 * pem - 2 * pe) + (am - a)
        BY <1>1 DEF pem, am
      <4> QED BY <1>1, <1>6, <4>2, <4>3, <4>4
    <3> QED BY <1>1, <1>2, <1>6, <3>3, <3>4
  <2>3. ASSUME target <= p PROVE FALSE
    <3>1. m * target <= m * p /\ m * target \in Int
      BY <1>5, <2>3
    <3>2. 2 * (entry * m + entry * reach) - m < 2 * (m * target)
      <4>1. entry * (m + reach) = entry * m + entry * reach
        BY <1>3
      <4> QED BY <1>1, <1>5, <1>7, <4>1
    <3>3. p * m <= entry * m /\ p * reach <= entry * reach
      BY <1>3, <2>1
    <3>4. m * p = p * m
      OBVIOUS
    <3>5. 2 * (p * reach) < m
      BY <1>6, <3>1, <3>2, <3>3, <3>4
    <3>6. p <= p * reach
      OBVIOUS
    <3> QED BY <1>6, <1>8, <3>5, <3>6
  <2>4. ~HitStop(dir, p, stop) /\ ~HitTarget(dir, p, target)
    BY <1>4, <1>5, <1>7, <2>2, <2>3 DEF HitStop, HitTarget
  <2> QED BY <2>4 DEF stop, target, entry
<1>9. CASE dir = "SELL"
  <2>1. sg = -1 /\ 2 * (a * entry) <= 2 * (pa - pe) + a /\ 2 * (pa - pe) - a < 2 * (a * entry)
    BY <1>1, <1>3, <1>9
  <2>2. entry <= p
    <3>1. CASE entry >= p + 1
      <4>1. a * entry >= a * (p + 1)
        BY <1>1, <1>3, <3>1
      <4>2. a * (p + 1) = pa + a
        BY <1>1 DEF pa
      <4> QED BY <1>1, <1>6, <2>1, <4>1, <4>2
    <3> QED BY <1>3, <3>1
  <2>3. entry > m
    <3>1. CASE entry <= m
      <4>1. a * entry <= a * m
        BY <1>1, <1>3, <3>1
      <4>2. 2 * (a * entry) <= 2 * am
        BY <1>1, <1>6, <4>1 DEF am
      <4> QED BY <1>1, <1>2, <1>6, <2>1, <4>2
    <3> QED BY <1>3, <3>1
  <2>4. ASSUME stop <= p PROVE FALSE
    <3>1. m * stop <= m * p /\ m * p \in Int /\ m * stop \in Int /\ entry * (m + 1) \in Int
      BY <1>3, <1>4, <2>4
    <3>2. 2 * (entry * (m + 1)) - m < 2 * (m * p)
      BY <1>4, <2>1, <3>1
    <3>3. 2 * ((a * entry) * (m + 1)) - am < 2 * (pa * m)
      <4> DEFINE l == 2 * (entry * (m + 1)) - m
                 r == 2 * (m * p)
      <4>1. l \in Int /\ r \in Int
        BY <3>1
      <4>2. a * r = 2 * (pa * m)
        BY <1>1 DEF pa
      <4>3. a * l = 2 * ((a * entry) * (m + 1)) - am
        BY <1>1, <1>3 DEF am
      <4>4. a * l < a * r
        <5>1. l < r BY <3>2
        <5> HIDE DEF l, r
        <5> QED BY <1>1, <4>1, <5>1
      <4> QED BY <4>2, <4>3, <4>4
    <3>4. 2 * ((a * entry) * (m + 1)) >= (2 * (pa * m) + 2 * pa - 2 * pem) - (2 * pe + am + a)
      <4> DEFINE l == 2 * (pa - pe) - a
                 r == 2 * (a * entry)
      <4>1. l \in Int /\ r \in Int /\ l < r
        BY <1>1, <1>6, <2>1
      <4>2. l * (m + 1) <= r * (m + 1)
        <5> HIDE DEF l, r
        <5> QED BY <4>1
      <4>3. r * (m + 1) = 2 * ((a * entry) * (m + 1))
        BY <1>6
      <4>4. l * (m + 1) = (2 * (pa * m) + 2 * pa - 2 * pem) - (2 * pe + am + a)
        BY <1>1 DEF pem, am
      <4> QED BY <4>2, <4>3, <4>4
    <3>5. (a * entry) * (m + 1) \in Int
      BY <1>6
    <3> QED BY <1>1, <1>2, <1>6, <3>3, <3>4, <3>5
  <2>5. ASSUME target >= p PROVE FALSE
    <3>1. m * target >= m * p /\ m * target \in Int
      BY <1>5, <2>5
    <3>2. 2 * (m * target) <= 2 * (entry * m - entry * reach) + m
      <4>1. entry * (m + (-1) * reach) = entry * m - entry * reach
        BY <1>3
      <4> QED BY <1>5, <2>1, <4>1
    <3>3. entry * m <= p * m
      BY <1>3, <2>2
    <3>4. m * p = p * m
      OBVIOUS
    <3>5. 2 * (entry * reach) <= m
      BY <1>6, <3>1, <3>2, <3>3, <3>4
    <3>6. entry <= entry * reach
      BY <1>3, <2>3
    <3> QED BY <1>3, <1>6, <2>3, <3>5, <3>6
  <2>6. ~HitStop(dir, p, stop) /\ ~HitTarget(dir, p, target)
    BY <1>4, <1>5, <1>9, <2>4, <2>5 DEF HitStop, HitTarget
  <2> QED BY <2>6 DEF stop, target, entry
<1> QED BY <1>7, <1>9

\* So a position has both its levels apart from a price it is opened at.
Inside(pos, at) == ~HitStop(pos.dir, at, pos.stop) /\ ~HitTarget(pos.dir, at, pos.target)

\* What is known of each position: open, it is inside its levels; closed, it left for the
\* reason its levels give.
InsideOrLeft(pos) ==
    \/ pos.status = "NONE"
    \/ pos.status = "OPEN" /\ Inside(pos, lastTick)
    \/ /\ pos.status = "CLOSED"
       /\ (pos.reason = "STOP_OUT") = HitStop(pos.was.dir, pos.exit, pos.was.stop)
       /\ pos.reason = "EXPIRY" => ~HitTarget(pos.was.dir, pos.exit, pos.was.target)

\* Nothing is opened before a tick has come, and a market that is followed from new has none.
ShadowInv ==
    /\ lastTick \in ShadowPrices \cup {0}
    /\ shadowPhase = "new" => lastTick = 0 /\ socket = "none"
    /\ lastTick = 0 => OpenShadows = {}
    /\ expiries \subseteq OpenShadows
    /\ shadows = [i \in ShadowIds |-> shadows[i]]
    /\ \A i \in ShadowIds : InsideOrLeft(shadows[i])

\* The invariant is all that the property says.
LEMMA ShadowInvSays ==
  ASSUME ShadowInv
  PROVE  ShadowInsideLevels
<1>1. \A i \in OpenShadows : ~Breached(i, lastTick)
  BY DEF ShadowInv, OpenShadows, InsideOrLeft, Inside, Breached, StopHit, TargetHit
<1>2. \A i \in ShadowIds :
         shadows[i].status = "CLOSED" =>
            /\ (shadows[i].reason = "STOP_OUT")
                  = HitStop(shadows[i].was.dir, shadows[i].exit, shadows[i].was.stop)
            /\ shadows[i].reason = "EXPIRY"
                  => ~HitTarget(shadows[i].was.dir, shadows[i].exit, shadows[i].was.target)
  BY DEF ShadowInv, InsideOrLeft
<1> QED BY <1>1, <1>2 DEF ShadowInv, ShadowInsideLevels

\* Whether a stop is hit is a truth value.
LEMMA HitStopIsBoolean ==
  ASSUME NEW dir, NEW at, NEW stop
  PROVE  HitStop(dir, at, stop) \in BOOLEAN
<1>1. CASE dir = "BUY"
  <2>1. HitStop(dir, at, stop) = (at <= stop)
    BY <1>1 DEF HitStop
  <2> QED BY <2>1
<1>2. CASE dir # "BUY"
  <2>1. HitStop(dir, at, stop) = (at >= stop)
    BY <1>2 DEF HitStop
  <2> QED BY <2>1
<1> QED BY <1>1, <1>2

\* Some positions are closed at a price: those that stay open are inside their levels there,
\* and of those that leave, the ones that are stopped out are past the stop, and the ones
\* whose time is up past neither level.
LEMMA SettledInside ==
  ASSUME ShadowInv, NEW ids \in SUBSET OpenShadows, NEW at \in ShadowPrices \cup {0}, NEW why,
         shadows' = [i \in ShadowIds |->
            IF i \in ids THEN [status |-> "CLOSED", reason |-> why[i], exit |-> at, was |-> shadows[i]]
            ELSE shadows[i]],
         expiries' = expiries \ ids, lastTick' = at, at = 0 => lastTick = 0,
         shadowPhase' = shadowPhase, socket' = socket, shadowPhase = "new" => at = 0,
         \A i \in OpenShadows \ ids : Inside(shadows[i], at),
         \A i \in ids : /\ (why[i] = "STOP_OUT") = HitStop(shadows[i].dir, at, shadows[i].stop)
                        /\ why[i] = "EXPIRY" => ~HitTarget(shadows[i].dir, at, shadows[i].target)
  PROVE  ShadowInv'
<1>1. \A i \in ShadowIds : i \in ids => shadows'[i] =
         [status |-> "CLOSED", reason |-> why[i], exit |-> at, was |-> shadows[i]]
  OBVIOUS
<1>2. \A i \in ShadowIds : i \notin ids => shadows'[i] = shadows[i]
  OBVIOUS
<1>3. ASSUME NEW i \in ShadowIds PROVE InsideOrLeft(shadows[i])'
  <2>1. CASE i \in ids
    <3>1. shadows'[i].status = "CLOSED" /\ shadows'[i].reason = why[i] /\ shadows'[i].exit = at
          /\ shadows'[i].was = shadows[i]
      BY <1>1, <2>1
    <3>2. (why[i] = "STOP_OUT") = HitStop(shadows[i].dir, at, shadows[i].stop)
          /\ (why[i] = "EXPIRY" => ~HitTarget(shadows[i].dir, at, shadows[i].target))
      BY <2>1
    <3> QED BY <3>1, <3>2 DEF InsideOrLeft
  <2>2. CASE i \notin ids /\ i \in OpenShadows
    <3>1. shadows'[i] = shadows[i] /\ shadows[i].status = "OPEN" /\ Inside(shadows[i], at)
      BY <1>2, <2>2 DEF OpenShadows
    <3> QED BY <3>1 DEF InsideOrLeft, Inside
  <2>3. CASE i \notin ids /\ i \notin OpenShadows
    <3>1. shadows'[i] = shadows[i] /\ shadows[i].status # "OPEN" /\ InsideOrLeft(shadows[i])
      BY <1>2, <2>3 DEF OpenShadows, ShadowInv
    <3> QED BY <3>1 DEF InsideOrLeft
  <2> QED BY <2>1, <2>2, <2>3
<1>4. OpenShadows' = OpenShadows \ ids
  BY <1>1, <1>2 DEF OpenShadows
<1>5. shadows' = [i \in ShadowIds |-> shadows'[i]]
  OBVIOUS
<1> QED BY <1>3, <1>4, <1>5 DEF ShadowInv

\* Where nothing is done with the positions, and no tick comes.
LEMMA LinkKeeps ==
  ASSUME ShadowInv, UNCHANGED <<lastTick, shadows>>, expiries' \subseteq expiries, shadowPhase' # "new"
  PROVE  ShadowInv'
<1>1. OpenShadows' = OpenShadows
  BY DEF OpenShadows
<1>2. \A i \in ShadowIds : InsideOrLeft(shadows[i])'
  BY DEF ShadowInv, InsideOrLeft
<1> QED BY <1>1, <1>2 DEF ShadowInv

\* One step, of the socket, of the timers, of a tick or of whoever opens a position.
LEMMA ShadowStep ==
  ASSUME ShadowAssumption, FineSteps, ShadowInv, [ShadowNext]_shadowVars
  PROVE  ShadowInv'
<1> USE DEF linkVars, paperVars
<1>1. CASE StartShadow
  <2>1. lastTick = 0 /\ lastTick' = 0 /\ shadowPhase' # "new"
    BY <1>1 DEF StartShadow, ShadowInv
  <2> QED BY <1>1, <2>1, LinkKeeps DEF StartShadow
<1>2. CASE StopShadow
  <2>1. shadowPhase' # "new" /\ expiries' \subseteq expiries
    BY <1>2 DEF StopShadow
  <2> QED BY <1>2, <2>1, LinkKeeps DEF StopShadow
<1>3. CASE ReconnectFires \/ SocketOpens \/ SocketErrs \/ SocketCloses
  <2>1. shadowPhase # "new"
    BY <1>3 DEF ReconnectFires, SocketOpens, SocketErrs, SocketCloses, following, ShadowInv
  <2>2. shadowPhase' = shadowPhase /\ UNCHANGED <<lastTick, shadows, expiries>>
    BY <1>3 DEF ReconnectFires, SocketOpens, SocketErrs, SocketCloses
  <2> QED BY <2>1, <2>2, LinkKeeps
<1>4. ASSUME NEW p \in ShadowPrices, TickArrives(p) PROVE ShadowInv'
  <2> DEFINE ids == ClosedBy(p)
             why == [i \in ShadowIds |-> IF StopHit(i, p) THEN "STOP_OUT" ELSE "TAKE_PROFIT"]
  <2>1. /\ shadows' = [i \in ShadowIds |->
              IF i \in ids THEN [status |-> "CLOSED", reason |-> why[i], exit |-> p, was |-> shadows[i]]
              ELSE shadows[i]]
        /\ expiries' = expiries \ ids
    <3>1. shadows' = [i \in ShadowIds |->
              IF i \in ids THEN [status |-> "CLOSED",
                                 reason |-> IF StopHit(i, p) THEN "STOP_OUT" ELSE "TAKE_PROFIT",
                                 exit |-> p, was |-> shadows[i]]
              ELSE shadows[i]]
          /\ expiries' = expiries \ ids
      BY <1>4 DEF TickArrives, Settle
    <3>2. \A i \in ShadowIds : why[i] = IF StopHit(i, p) THEN "STOP_OUT" ELSE "TAKE_PROFIT"
      OBVIOUS
    <3> HIDE DEF why, ids
    <3> QED BY <3>1, <3>2
  <2>2. ids \in SUBSET OpenShadows
    BY DEF ClosedBy
  <2>3. lastTick' = p /\ p # 0 /\ UNCHANGED <<shadowPhase, socket>> /\ shadowPhase # "new"
    BY <1>4 DEF TickArrives, ShadowInv, ShadowAssumption
  <2>4. \A i \in OpenShadows \ ids : Inside(shadows[i], p)
    BY DEF ClosedBy, Breached, StopHit, TargetHit, Inside
  <2>5. ASSUME NEW i \in ids
        PROVE  /\ (why[i] = "STOP_OUT") = HitStop(shadows[i].dir, p, shadows[i].stop)
               /\ why[i] = "EXPIRY" => ~HitTarget(shadows[i].dir, p, shadows[i].target)
    <3>1. why[i] = IF StopHit(i, p) THEN "STOP_OUT" ELSE "TAKE_PROFIT"
      BY <2>2 DEF OpenShadows
    <3>2. HitStop(shadows[i].dir, p, shadows[i].stop) \in BOOLEAN
      BY HitStopIsBoolean
    <3> HIDE DEF why, ids
    <3>3. why[i] = "STOP_OUT" <=> HitStop(shadows[i].dir, p, shadows[i].stop)
      BY <3>1 DEF StopHit
    <3>4. why[i] # "EXPIRY"
      BY <3>1
    <3>5. (why[i] = "STOP_OUT") = HitStop(shadows[i].dir, p, shadows[i].stop)
      BY <3>2, <3>3
    <3> QED BY <3>4, <3>5
  <2> HIDE DEF ids, why
  <2>6. /\ p \in ShadowPrices \cup {0} /\ (p = 0 => lastTick = 0) /\ (shadowPhase = "new" => p = 0)
        /\ lastTick' = p /\ shadowPhase' = shadowPhase /\ socket' = socket
    BY <2>3
  <2> QED BY <2>1, <2>2, <2>4, <2>5, <2>6, SettledInside
<1>5. ASSUME NEW i \in ShadowIds, ExpiryFires(i) PROVE ShadowInv'
  <2> DEFINE why == [j \in ShadowIds |-> "EXPIRY"]
  <2>1. /\ shadows' = [j \in ShadowIds |->
              IF j \in {i} THEN [status |-> "CLOSED", reason |-> "EXPIRY", exit |-> lastTick, was |-> shadows[j]]
              ELSE shadows[j]]
        /\ expiries' = expiries \ {i} /\ UNCHANGED <<lastTick, shadowPhase, socket>>
    BY <1>5 DEF ExpiryFires, Settle
  <2>2. {i} \in SUBSET OpenShadows /\ lastTick \in ShadowPrices \cup {0}
    BY <1>5 DEF ExpiryFires, ShadowInv
  <2>3. \A j \in OpenShadows : Inside(shadows[j], lastTick)
    BY DEF ShadowInv, InsideOrLeft, OpenShadows
  <2>4. shadows' = [j \in ShadowIds |->
              IF j \in {i} THEN [status |-> "CLOSED", reason |-> why[j], exit |-> lastTick, was |-> shadows[j]]
              ELSE shadows[j]]
    BY <2>1
  <2>5. shadowPhase = "new" => lastTick = 0
    BY DEF ShadowInv
  <2>6. \A j \in {i} :
           /\ (why[j] = "STOP_OUT") = HitStop(shadows[j].dir, lastTick, shadows[j].stop)
           /\ why[j] = "EXPIRY" => ~HitTarget(shadows[j].dir, lastTick, shadows[j].target)
    <3>1. Inside(shadows[i], lastTick)
      BY <2>2, <2>3
    <3>2. why[i] = "EXPIRY"
      OBVIOUS
    <3>3. HitStop(shadows[i].dir, lastTick, shadows[i].stop) \in BOOLEAN
      BY HitStopIsBoolean
    <3> HIDE DEF why
    <3> QED BY <3>1, <3>2, <3>3 DEF Inside
  <2> HIDE DEF why
  <2> QED BY <2>1, <2>2, <2>3, <2>4, <2>5, <2>6, SettledInside
<1>6. ASSUME NEW i \in ShadowIds, NEW dir \in {"BUY", "SELL"}, OpenShadow(i, dir) PROVE ShadowInv'
  <2> DEFINE entry == ApplySpread(lastTick, dir, ShadowMultiplier, ShadowEdge)
             pos == [status |-> "OPEN", dir |-> dir, entry |-> entry,
                     stop |-> StopOut(entry, dir, ShadowMultiplier),
                     target |-> TakeProfit(entry, dir, ShadowMultiplier, ShadowMost)]
  <2>1. /\ shadows[i] = NoShadow /\ lastTick > 0
        /\ shadows' = [shadows EXCEPT ![i] = pos]
        /\ expiries' = expiries \cup {i} /\ UNCHANGED <<lastTick, shadowPhase, socket>>
    BY <1>6 DEF OpenShadow
  <2>2. lastTick \in ShadowPrices /\ lastTick # 0 /\ lastTick \in Nat \ {0}
    BY <2>1 DEF ShadowInv, ShadowAssumption
  <2>3. Inside(pos, lastTick)
    <3>1. ~HitStop(dir, lastTick, StopOut(entry, dir, ShadowMultiplier))
          /\ ~HitTarget(dir, lastTick, TakeProfit(entry, dir, ShadowMultiplier, ShadowMost))
      BY <2>2, OpensInside DEF FineSteps, ShadowAssumption
    <3> HIDE DEF entry
    <3> QED BY <3>1 DEF Inside
  <2>4. pos.status = "OPEN"
    OBVIOUS
  <2> HIDE DEF pos, entry
  <2>5. shadows'[i] = pos /\ \A j \in ShadowIds \ {i} : shadows'[j] = shadows[j]
    BY <2>1 DEF ShadowInv
  <2>6. shadows' = [j \in ShadowIds |-> shadows'[j]]
    BY <2>1 DEF ShadowInv
  <2>7. OpenShadows' = OpenShadows \cup {i}
    BY <2>4, <2>5 DEF OpenShadows
  <2>8. ASSUME NEW j \in ShadowIds PROVE InsideOrLeft(shadows[j])'
    <3>1. CASE j = i
      BY <2>1, <2>3, <2>4, <2>5, <3>1 DEF InsideOrLeft, Inside
    <3>2. CASE j # i
      BY <2>1, <2>5, <3>2 DEF ShadowInv, InsideOrLeft
    <3> QED BY <3>1, <3>2
  <2> QED BY <2>1, <2>2, <2>6, <2>7, <2>8 DEF ShadowInv
<1>7. CASE ResetShadow
  <2>1. \A i \in ShadowIds : shadows'[i] = NoShadow
    BY <1>7 DEF ResetShadow
  <2>2. OpenShadows' = {}
    BY <2>1 DEF OpenShadows, NoShadow
  <2>3. \A i \in ShadowIds : InsideOrLeft(shadows[i])'
    BY <2>1 DEF InsideOrLeft, NoShadow
  <2>4. shadows' = [i \in ShadowIds |-> shadows'[i]]
    BY <1>7 DEF ResetShadow
  <2> QED BY <1>7, <2>2, <2>3, <2>4 DEF ResetShadow, ShadowInv
<1>8. CASE UNCHANGED shadowVars
  BY <1>8 DEF shadowVars, ShadowInv, OpenShadows, InsideOrLeft
<1> QED BY <1>1, <1>2, <1>3, <1>4, <1>5, <1>6, <1>7, <1>8 DEF ShadowNext

\* ShadowInsideLevels, for any ticks in the order they come, any positions and any
\* connection: the shadow never keeps a position that production would have closed, and never
\* says one ran to its end that was past a level then.
THEOREM ShadowInsideHolds ==
  ASSUME FineSteps
  PROVE  ShadowSpec => []ShadowInsideLevels
<1>1. ShadowInit => ShadowInv
  BY DEF ShadowInit, ShadowInv, OpenShadows, InsideOrLeft, NoShadow
<1>2. ShadowInv /\ [ShadowNext]_shadowVars => ShadowInv'
  BY ShadowAssumption, ShadowStep
<1>3. ShadowInv => ShadowInsideLevels
  BY ShadowInvSays
<1> QED BY <1>1, <1>2, <1>3, PTL DEF ShadowSpec

-----------------------------------------------------------------------------
(* MarketView: for all markets, and any number of switches, lost sockets and failed
   requests, the hub shows a socket what the trader chose, or is about to be told. *)

\* What is on its way to the hub is a sequence of choices, the last of them in force.
ChoiceInv == watching \in Markets \cup {NoMarket} /\ watches \in Seq(Markets) /\ HubHearsChoice

\* The hub reads the last choice there is, or leaves it the last to be read.
LEMMA LastOfTail ==
    ASSUME NEW S, NEW q \in Seq(S), q # <<>>
    PROVE  /\ Tail(q) \in Seq(S)
           /\ Tail(q) = <<>> => Head(q) = Last(q)
           /\ Tail(q) # <<>> => Last(Tail(q)) = Last(q)
<1>1. Len(q) \in Nat \ {0} /\ Tail(q) \in Seq(S) /\ Len(Tail(q)) = Len(q) - 1
    OBVIOUS
<1>2. CASE Tail(q) = <<>>
    <2>1. Len(<<>>) = 0
        OBVIOUS
    <2>2. Len(Tail(q)) = 0
        BY <1>2, <2>1, Zenon
    <2>3. Len(q) = 1
        <3>1. PICK n \in Nat : n = Len(q)
            BY <1>1
        <3>2. n - 1 = 0
            BY <1>1, <2>2, <3>1
        <3> QED
            BY <3>1, <3>2
    <2> QED
        BY <1>2, <2>3 DEF Last
<1>3. CASE Tail(q) # <<>>
    <2>1. Len(Tail(q)) \in Nat \ {0}
        BY <1>1, <1>3
    <2>2. Tail(q)[Len(Tail(q))] = q[Len(Tail(q)) + 1]
        BY <1>1, <2>1
    <2> QED
        BY <1>1, <1>3, <2>1, <2>2 DEF Last
<1> QED
    BY <1>2, <1>3

\* The choice last sent is the last to be read.
LEMMA LastOfAppend ==
    ASSUME NEW S, NEW q \in Seq(S), NEW m \in S
    PROVE  Append(q, m) \in Seq(S) /\ Append(q, m) # <<>> /\ Last(Append(q, m)) = m
BY DEF Last

\* watch: a choice that is new is sent, and is then the last to be read.
LEMMA WatchKeepsChoice ==
    ASSUME ChoiceInv, NEW market \in Markets, Watch(market), symbol' = market,
           UNCHANGED <<wire, retry, served, hubWatching>>
    PROVE  ChoiceInv'
<1>1. watches' \in Seq(Markets)
    BY LastOfAppend DEF ChoiceInv, Watch
<1>2. watches' = Append(watches, market) => watches' # <<>> /\ Last(watches') = market
    BY LastOfAppend DEF ChoiceInv
<1> QED
    BY <1>1, <1>2 DEF ChoiceInv, HubHearsChoice, Watch

\* The socket's own life: a new one is told the choice again as it opens, and one that is
\* gone has a retry armed.
LEMMA SocketKeepsChoice ==
    ASSUME ChoiceInv,
           SocketOpen \/ SocketLost \/ SocketGone \/ RetryFires \/ Resume \/ Heartbeat \/ Pong
    PROVE  ChoiceInv'
<1>1. CASE SocketOpen
    <2>1. watches' = <<watching>> => watches' # <<>> /\ Last(watches') = watching
        BY DEF Last
    <2>2. watches' \in Seq(Markets)
        BY <1>1 DEF ChoiceInv, SocketOpen
    <2> QED
        BY <1>1, <2>1, <2>2 DEF ChoiceInv, HubHearsChoice, SocketOpen, pageVars, countVars
<1>2. CASE SocketLost
    BY <1>2 DEF ChoiceInv, HubHearsChoice, SocketLost, OnClose, pageVars
<1>3. CASE SocketGone
    BY <1>3 DEF ChoiceInv, HubHearsChoice, SocketGone, OnClose, pageVars, hubVars
<1>4. CASE RetryFires \/ Resume
    <2>1. UNCHANGED <<watching, symbol>> /\ Dial
        BY <1>4 DEF RetryFires, Resume, pageVars
    <2>2. CASE wire \in {"open", "connecting"}
        BY <2>1, <2>2 DEF ChoiceInv, HubHearsChoice, Dial, hubVars
    <2>3. CASE wire \notin {"open", "connecting"}
        BY <2>1, <2>3 DEF ChoiceInv, HubHearsChoice, Dial
    <2> QED
        BY <2>2, <2>3
<1>5. CASE Heartbeat
    BY <1>5 DEF ChoiceInv, HubHearsChoice, Heartbeat, pageVars, socketVars
<1>6. CASE Pong
    BY <1>6 DEF ChoiceInv, HubHearsChoice, Pong, pageVars, socketVars
<1> QED
    BY <1>1, <1>2, <1>3, <1>4, <1>5, <1>6

\* The page: only a choice of market touches what was chosen.
LEMMA PageKeepsChoice ==
    ASSUME ChoiceInv,
           Bootstrap \/ RenderView \/ HistoryArrives \/ HistoryFails \/ TickShown
           \/ \E market \in Markets :
                 Switch(market) \/ QuoteReply(market) \/ CancelledArrives(market)
    PROVE  ChoiceInv'
<1> USE ViewAssumption
<1>1. CASE Bootstrap
    <2>1. CASE symbol' = Remembered /\ Watch(Remembered)
        BY <1>1, <2>1, WatchKeepsChoice DEF Bootstrap, hubVars
    <2>2. CASE UNCHANGED <<symbol, watching, watches>>
        BY <1>1, <2>2 DEF Bootstrap, ChoiceInv, HubHearsChoice, hubVars
    <2> QED
        BY <1>1, <2>1, <2>2 DEF Bootstrap
<1>2. CASE \E market \in Markets : Switch(market)
    BY <1>2, WatchKeepsChoice DEF Switch, hubVars
<1>3. ASSUME RenderView \/ HistoryArrives \/ HistoryFails \/ TickShown
             \/ \E market \in Markets : QuoteReply(market) \/ CancelledArrives(market)
      PROVE  UNCHANGED <<symbol, watching, watches, wire, retry, served, hubWatching>>
    BY <1>3 DEF RenderView, HistoryArrives, HistoryFails, TickShown, QuoteReply, CancelledArrives,
                socketVars, hubVars
<1> QED
    BY <1>1, <1>2, <1>3 DEF ChoiceInv, HubHearsChoice

\* The hub hears the trader's choice, however switches and reconnections meet.
THEOREM HubHearsChoiceHolds == ViewSpec => []HubHearsChoice
<1>1. ViewInit => ChoiceInv
    BY DEF ViewInit, ChoiceInv, HubHearsChoice
<1>2. ChoiceInv /\ [ViewNext]_panelVars => ChoiceInv'
    <2> SUFFICES ASSUME ChoiceInv, [ViewNext]_panelVars
                 PROVE  ChoiceInv'
        OBVIOUS
    <2>1. CASE UNCHANGED panelVars
        BY <2>1 DEF ChoiceInv, HubHearsChoice, panelVars, pageVars, socketVars, hubVars
    <2>2. CASE HubTick
        BY <2>2 DEF ChoiceInv, HubHearsChoice, HubTick, pageVars, hubVars
    <2>3. CASE HubWatches
        BY <2>3, LastOfTail DEF ChoiceInv, HubHearsChoice, HubWatches, pageVars
    <2> QED
        BY <2>1, <2>2, <2>3, SocketKeepsChoice, PageKeepsChoice DEF ViewNext
<1> QED
    BY <1>1, <1>2, PTL DEF ViewSpec, ChoiceInv

-----------------------------------------------------------------------------
(* OfflineShell: for all builds and files, whatever is deployed, cached and served. *)

\* A file that SHELL or ASSETS has under a name is the file of that name; of the page
\* nothing is said, for SHELL keeps whatever a navigation was answered.
CachesHonest ==
    /\ DOMAIN shell = {Root} \cup Precached /\ DOMAIN assets = Files
    /\ \A url \in Precached : shell[url] # Missing => shell[url].of = url
    /\ \A url \in Files : assets[url] # Missing => assets[url].of = url

ShellInv == CachesHonest /\ HitIsCorrect

\* A 200 is the file that was asked for: a server that has not got it answers with its page
\* and says so, and a platform without servers says so too.
LEMMA OkIsTheFile ==
    ASSUME NEW url, NEW answer \in AnswersFor(url), answer.ok
    PROVE  answer.body.of = url
BY DEF AnswersFor, Content

\* What the caches have for a file is that file.
LEMMA MatchIsTheFile ==
    ASSUME CachesHonest, NEW url \in Files, Match(url) # Missing
    PROVE  Match(url).of = url
BY ShellAssumption DEF CachesHonest, Match, Files

\* Keeping what came with a 200 leaves ASSETS honest.
LEMMA KeepingIsHonest ==
    ASSUME ShellInv, NEW url \in Files, NEW answer \in AnswersFor(url), Keeps(url, answer),
           UNCHANGED shell
    PROVE  CachesHonest'
<1>1. CASE answer.ok
    <2>1. assets' = [assets EXCEPT ![url] = answer.body]
        BY <1>1 DEF Keeps
    <2>2. answer.body.of = url
        BY <1>1, OkIsTheFile
    <2> QED
        BY <2>1, <2>2 DEF ShellInv, CachesHonest
<1>2. CASE ~answer.ok
    BY <1>2 DEF Keeps, ShellInv, CachesHonest
<1> QED
    BY <1>1, <1>2

\* What a page is given keeps the property if it is the file or no 200.
LEMMA GivingIsHonest ==
    ASSUME CachesHonest', NEW url, NEW body, NEW ok, Gives(url, body, ok),
           ok /\ url \in Files => body.of = url
    PROVE  ShellInv'
BY DEF Gives, ShellInv, CachesHonest, HitIsCorrect, Missing, Files, Hashes

\* Loading a file, hashed or not, from a cache or from whoever answers.
LEMMA LoadsAreHonest ==
    ASSUME ShellInv, NEW url \in Files,
           LoadHashed(url) \/ LoadStatic(url) \/ LoadStaticOffline(url)
    PROVE  ShellInv'
<1>1. CachesHonest /\ HitIsCorrect
    BY DEF ShellInv
<1>2. CASE LoadHashed(url)
    <2>1. UNCHANGED shell
        BY <1>2 DEF LoadHashed
    <2>2. CASE Match(url) # Missing /\ Gives(url, Match(url), TRUE) /\ UNCHANGED assets
        BY <1>1, <2>1, <2>2, MatchIsTheFile, GivingIsHonest DEF CachesHonest
    <2>3. CASE \E answer \in AnswersFor(url) : Gives(url, answer.body, answer.ok) /\ Keeps(url, answer)
        BY <2>1, <2>3, KeepingIsHonest, OkIsTheFile, GivingIsHonest
    <2>4. CASE Gives(url, Missing, FALSE) /\ UNCHANGED assets
        BY <1>1, <2>1, <2>4, GivingIsHonest DEF CachesHonest
    <2> QED
        BY <1>2, <2>2, <2>3, <2>4 DEF LoadHashed
<1>3. CASE LoadStatic(url)
    <2>1. PICK answer \in AnswersFor(url) :
             /\ IF Match(url) # Missing THEN Gives(url, Match(url), TRUE) ELSE Gives(url, answer.body, answer.ok)
             /\ Keeps(url, answer) /\ UNCHANGED shell
        BY <1>3 DEF LoadStatic
    <2>2. CachesHonest'
        BY <2>1, KeepingIsHonest
    <2> QED
        BY <1>1, <2>1, <2>2, MatchIsTheFile, OkIsTheFile, GivingIsHonest
<1>4. CASE LoadStaticOffline(url)
    BY <1>1, <1>4, MatchIsTheFile, GivingIsHonest DEF LoadStaticOffline, CachesHonest
<1> QED
    BY <1>2, <1>3, <1>4

\* Installing the worker takes only answers that are the files.
LEMMA InstallIsHonest == ShellInv /\ InstallWorker => ShellInv'
<1> SUFFICES ASSUME ShellInv, InstallWorker
             PROVE  ShellInv'
    OBVIOUS
<1>1. CASE UNCHANGED shell
    BY <1>1 DEF InstallWorker, ShellInv, CachesHonest, HitIsCorrect
<1>2. CASE \E answer \in [{Root} \cup Precached -> UNION {AnswersFor(url) : url \in {Root} \cup Precached}] :
              /\ \A url \in DOMAIN answer : answer[url] \in AnswersFor(url) /\ answer[url].ok
              /\ shell' = [url \in DOMAIN answer |-> answer[url].body]
    <2>1. PICK answer :
             /\ DOMAIN answer = {Root} \cup Precached
             /\ \A url \in DOMAIN answer : answer[url] \in AnswersFor(url) /\ answer[url].ok
             /\ shell' = [url \in DOMAIN answer |-> answer[url].body]
        BY <1>2
    <2>2. \A url \in Precached : shell'[url].of = url
        BY <2>1, OkIsTheFile
    <2>3. CachesHonest'
        BY <2>1, <2>2 DEF InstallWorker, ShellInv, CachesHonest
    <2> QED
        BY <2>3 DEF InstallWorker, ShellInv, HitIsCorrect
<1> QED
    BY <1>1, <1>2 DEF InstallWorker

\* Navigations, and the pages they leave in SHELL, are about the page only.
LEMMA PagesAreHonest ==
    ASSUME ShellInv, NavigateOnline \/ PagePut \/ NavigateOffline
    PROVE  ShellInv'
<1>0. CachesHonest /\ HitIsCorrect /\ Root \notin Precached
    BY ShellAssumption DEF ShellInv, Files
<1>1. CASE NavigateOnline
    BY <1>0, <1>1, ShellAssumption, GivingIsHonest DEF NavigateOnline, CachesHonest
<1>2. CASE PagePut
    BY <1>0, <1>2 DEF PagePut, ShellInv, CachesHonest, HitIsCorrect
<1>3. CASE NavigateOffline
    BY <1>0, <1>3, ShellAssumption, GivingIsHonest DEF NavigateOffline, CachesHonest
<1> QED
    BY <1>1, <1>2, <1>3

\* A hit is always correct, for every set of builds and files.
THEOREM HitIsCorrectHolds == ShellSpec => []HitIsCorrect
<1>1. ShellInit => ShellInv
    BY ShellAssumption DEF ShellInit, ShellInv, CachesHonest, HitIsCorrect, Files
<1>2. ShellInv /\ [ShellNext]_shellVars => ShellInv'
    <2> SUFFICES ASSUME ShellInv, [ShellNext]_shellVars
                 PROVE  ShellInv'
        OBVIOUS
    <2>1. CASE UNCHANGED shellVars \/ Deploy \/ OldInstancesStop \/ PlatformDown
        BY <2>1 DEF shellVars, Deploy, OldInstancesStop, PlatformDown, ShellInv, CachesHonest, HitIsCorrect
    <2>2. CASE \/ \E url \in Hashes : LoadHashed(url)
               \/ \E url \in Precached \cup Runtime : LoadStatic(url) \/ LoadStaticOffline(url)
        BY <2>2, LoadsAreHonest DEF Files
    <2> QED
        BY <2>1, <2>2, InstallIsHonest, PagesAreHonest DEF ShellNext
<1> QED
    BY <1>1, <1>2, PTL DEF ShellSpec, ShellInv

-----------------------------------------------------------------------------
(* The price bars (PriceFeed) *)

BarRec == [time : Int, open : Int, high : Int, low : Int, close : Int]
Chart == [1..MaxBars -> BarRec]

\* A bucket begins at a multiple of the frame, no later than a time in it and less than a
\* frame before it.
LEMMA BucketHolds ==
  ASSUME NEW n \in Nat \ {0}, NEW t \in Int
  PROVE  /\ Bucket(n, t) \in Int
         /\ Bucket(n, t) <= t /\ t < Bucket(n, t) + n
         /\ \E k \in Int : Bucket(n, t) = k * n
<1> DEFINE k == t \div n
           r == t % n
<1>1. k \in Int /\ r \in Int /\ 0 <= r /\ r < n
  OBVIOUS
<1>2. t = n * k + r
  OBVIOUS
<1>3. Bucket(n, t) = k * n
  BY DEF Bucket
<1> HIDE DEF k, r
<1>4. k * n \in Int /\ n * k = k * n
  BY <1>1
<1> QED BY <1>1, <1>2, <1>3, <1>4

\* It is the only such multiple.
LEMMA OneBucket ==
  ASSUME NEW n \in Nat \ {0}, NEW t \in Int, NEW k \in Int, k * n <= t, t < k * n + n
  PROVE  Bucket(n, t) = k * n
<1>1. PICK j \in Int : Bucket(n, t) = j * n
  BY BucketHolds
<1>2. j * n <= t /\ t < j * n + n /\ j * n \in Int /\ k * n \in Int
  BY <1>1, BucketHolds
<1>3. ~(j < k)
  <2>1. SUFFICES ASSUME j + 1 <= k PROVE FALSE
    OBVIOUS
  <2>2. (j + 1) * n <= k * n
    BY <2>1
  <2>3. (j + 1) * n = j * n + n
    OBVIOUS
  <2> QED BY <1>2, <2>2, <2>3
<1>4. ~(k < j)
  <2>1. SUFFICES ASSUME k + 1 <= j PROVE FALSE
    OBVIOUS
  <2>2. (k + 1) * n <= j * n
    BY <2>1
  <2>3. (k + 1) * n = k * n + n
    OBVIOUS
  <2> QED BY <1>2, <2>2, <2>3
<1> QED BY <1>1, <1>3, <1>4

\* A later time is in no earlier bucket.
LEMMA BucketsAscend ==
  ASSUME NEW n \in Nat \ {0}, NEW t \in Int, NEW u \in Int, t <= u
  PROVE  Bucket(n, t) <= Bucket(n, u)
<1>1. PICK j \in Int : Bucket(n, t) = j * n
  BY BucketHolds
<1>2. PICK k \in Int : Bucket(n, u) = k * n
  BY BucketHolds
<1>3. SUFFICES ASSUME k + 1 <= j PROVE FALSE
  <2>1. SUFFICES ASSUME j <= k PROVE j * n <= k * n
    BY <1>1, <1>2
  <2> QED BY <2>1
<1>4. (k + 1) * n <= j * n
  BY <1>3
<1>5. (k + 1) * n = k * n + n /\ k * n \in Int /\ j * n \in Int
  OBVIOUS
<1>6. j * n <= t /\ u < k * n + n
  BY <1>1, <1>2, BucketHolds
<1> QED BY <1>4, <1>5, <1>6

\* A coarse bucket is made of whole fine ones.
LEMMA BucketsNest ==
  ASSUME FeedAssumption, NEW f \in Frames, NEW g \in Frames, f < g, NEW t \in Int
  PROVE  Bucket(g, Bucket(f, t)) = Bucket(g, t) /\ Bucket(g, t) <= Bucket(f, t)
<1>1. f \in Nat \ {0} /\ g \in Nat \ {0} /\ g % f = 0
  BY DEF FeedAssumption
<1> DEFINE m == g \div f
<1>2. m \in Int /\ g = f * m + (g % f)
  BY <1>1
<1> HIDE DEF m
<1>3. g = m * f
  BY <1>1, <1>2
<1>4. PICK k \in Int : Bucket(g, t) = k * g
  BY <1>1, BucketHolds
<1>5. PICK j \in Int : Bucket(f, t) = j * f
  BY <1>1, BucketHolds
<1>6. k * g = (k * m) * f /\ k * m \in Int /\ (k * m) * f \in Int /\ j * f \in Int
  BY <1>1, <1>2, <1>3
<1>7. k * g <= t /\ t < k * g + g /\ j * f <= t /\ t < j * f + f
  BY <1>1, <1>4, <1>5, BucketHolds
<1>8. k * g <= j * f
  <2> DEFINE q == k * m
  <2>0. q \in Int /\ q * f = k * g
    BY <1>6
  <2> HIDE DEF q
  <2>1. SUFFICES ASSUME j + 1 <= q PROVE FALSE
    <3>1. SUFFICES ASSUME q <= j PROVE q * f <= j * f
      BY <2>0
    <3> QED BY <1>1, <2>0, <3>1
  <2>2. (j + 1) * f <= q * f
    BY <1>1, <2>0, <2>1
  <2>3. (j + 1) * f = j * f + f
    BY <1>1
  <2> QED BY <1>1, <1>6, <1>7, <2>0, <2>2, <2>3
<1>9. j * f <= t /\ j * f < k * g + g
  BY <1>1, <1>6, <1>7
<1>10. Bucket(g, j * f) = k * g
  BY <1>1, <1>6, <1>8, <1>9, OneBucket
<1> QED BY <1>4, <1>5, <1>8, <1>10

\* What a tick makes of a chart: its running bar takes the price, or a bar is opened and the
\* oldest is let go.
LEMMA TickedChart ==
  ASSUME FeedAssumption, NEW c \in Chart, NEW f \in Frames, NEW p \in Int, NEW t \in Int
  PROVE  WithTick(c, f, p, t) =
           IF c[MaxBars].time = Bucket(f, t)
           THEN [c EXCEPT ![MaxBars] = Widened(c[MaxBars], p)]
           ELSE [k \in 1..MaxBars |->
                   IF k = MaxBars THEN Bar(Bucket(f, t), c[MaxBars].close, p) ELSE c[k + 1]]
<1>1. MaxBars \in Nat \ {0} /\ c \in Seq(BarRec) /\ Len(c) = MaxBars
  BY DEF FeedAssumption, Chart
<1>2. c[Len(c)] = c[MaxBars]
  BY <1>1
<1>3. CASE c[MaxBars].time = Bucket(f, t)
  BY <1>1, <1>2, <1>3 DEF WithTick
<1>4. CASE c[MaxBars].time # Bucket(f, t)
  <2> DEFINE new == Bar(Bucket(f, t), c[MaxBars].close, p)
             more == Append(c, new)
  <2>1. new \in BarRec
    <3>1. f \in Nat \ {0} /\ Bucket(f, t) \in Int
      BY BucketHolds DEF FeedAssumption
    <3>2. c[MaxBars] \in BarRec
      BY <1>1 DEF Chart
    <3> QED BY <3>1, <3>2 DEF Bar, BarRec
  <2> HIDE DEF new
  <2>2. more \in Seq(BarRec) /\ Len(more) = MaxBars + 1
    BY <1>1, <2>1
  <2>3. \A k \in 1..MaxBars + 1 : more[k] = IF k = MaxBars + 1 THEN new ELSE c[k]
    BY <1>1, <2>1
  <2> HIDE DEF more
  <2>4. WithTick(c, f, p, t) = Tail(more)
    BY <1>1, <1>2, <1>4, <2>2 DEF WithTick, Capped, more, new
  <2>5. Tail(more) \in Seq(BarRec) /\ Len(Tail(more)) = MaxBars
    BY <1>1, <2>2
  <2>6. \A k \in 1..MaxBars : Tail(more)[k] = more[k + 1]
    BY <1>1, <2>2
  <2>7. \A k \in 1..MaxBars : k + 1 \in 1..MaxBars + 1 /\ (k + 1 = MaxBars + 1 <=> k = MaxBars)
    BY <1>1
  <2>8. \A k \in 1..MaxBars : Tail(more)[k] = IF k = MaxBars THEN new ELSE c[k + 1]
    BY <2>3, <2>6, <2>7
  <2>9. Tail(more) = [k \in 1..MaxBars |-> IF k = MaxBars THEN new ELSE c[k + 1]]
    <3> DEFINE rest == Tail(more)
    <3>1. rest \in [1..MaxBars -> BarRec]
      <4> HIDE DEF rest
      <4>1. rest \in Seq(BarRec) /\ Len(rest) = MaxBars
        BY <2>5 DEF rest
      <4> QED BY <1>1, <4>1
    <3> HIDE DEF rest
    <3>2. rest = [k \in 1..MaxBars |-> rest[k]]
      BY <3>1
    <3> QED BY <2>8, <3>2 DEF rest
  <2> QED BY <1>4, <2>4, <2>9 DEF new
<1> QED BY <1>3, <1>4

-----------------------------------------------------------------------------

Ascends(c) == \A j, k \in 1..MaxBars : j < k => c[j].time < c[k].time

\* The bar a tick leaves last in a chart, and the one it takes out.
Added(c, f, p, t) ==
    IF c[MaxBars].time = Bucket(f, t) THEN Widened(c[MaxBars], p)
    ELSE Bar(Bucket(f, t), c[MaxBars].close, p)
Gone(c, f, t) == IF c[MaxBars].time = Bucket(f, t) THEN c[MaxBars] ELSE c[1]

\* A bar that has taken a price is still a bar of its time and its opening.
LEMMA WidenedIs ==
  ASSUME NEW b \in BarRec, NEW p \in Int
  PROVE  /\ Widened(b, p) \in BarRec
         /\ Widened(b, p).time = b.time /\ Widened(b, p).open = b.open /\ Widened(b, p).close = p
         /\ Widened(b, p).high = IF p > b.high THEN p ELSE b.high
         /\ Widened(b, p).low = IF p < b.low THEN p ELSE b.low
  BY DEF Widened, BarRec

\* A bar that is opened has the price for its extremes and its close.
LEMMA BarIs ==
  ASSUME NEW t \in Int, NEW open \in Int, NEW p \in Int
  PROVE  /\ Bar(t, open, p) \in BarRec
         /\ Bar(t, open, p).time = t /\ Bar(t, open, p).open = open
         /\ Bar(t, open, p).close = p /\ Bar(t, open, p).high = p /\ Bar(t, open, p).low = p
  BY DEF Bar, BarRec

\* A tick takes one bar out of a chart and puts one in; the chart still ascends, it ends at the
\* price in the tick's bucket, and a chart that opens a bar lets its oldest go.
LEMMA TickedIs ==
  ASSUME FeedAssumption, NEW c \in Chart, Ascends(c), NEW f \in Frames, NEW p \in Int,
         NEW s \in Int, NEW t \in Int, s <= t, c[MaxBars].time = Bucket(f, s)
  PROVE  LET ticked == WithTick(c, f, p, t)
         IN  /\ ticked \in Chart /\ Ascends(ticked)
             /\ ticked[MaxBars] = Added(c, f, p, t)
             /\ Added(c, f, p, t) \in BarRec
             /\ Added(c, f, p, t).time = Bucket(f, t) /\ Added(c, f, p, t).close = p
             /\ BarsOf(ticked) = (BarsOf(c) \ {Gone(c, f, t)}) \cup {Added(c, f, p, t)}
             /\ c[1].time <= ticked[1].time
             /\ Bucket(f, s) # Bucket(f, t) => c[1].time < ticked[1].time
<1> DEFINE ticked == WithTick(c, f, p, t)
           N == MaxBars
           added == Added(c, f, p, t)
           gone == Gone(c, f, t)
<1>1. N \in Nat \ {0} /\ N \in 1..N /\ 1 \in 1..N /\ f \in Nat \ {0} /\ p \in Int
  BY DEF FeedAssumption
<1>2. Bucket(f, s) \in Int /\ Bucket(f, t) \in Int /\ Bucket(f, s) <= Bucket(f, t)
  BY <1>1, BucketHolds, BucketsAscend
<1>3. \A k \in 1..N : c[k] \in BarRec /\ c[k].time \in Int /\ c[k].close \in Int
  BY DEF Chart, BarRec
<1>4. ticked = IF c[N].time = Bucket(f, t) THEN [c EXCEPT ![N] = added]
               ELSE [k \in 1..N |-> IF k = N THEN added ELSE c[k + 1]]
  <2>1. added = IF c[N].time = Bucket(f, t) THEN Widened(c[N], p)
                ELSE Bar(Bucket(f, t), c[N].close, p)
    BY DEF Added
  <2>2. ticked = IF c[N].time = Bucket(f, t) THEN [c EXCEPT ![N] = Widened(c[N], p)]
                 ELSE [k \in 1..N |-> IF k = N THEN Bar(Bucket(f, t), c[N].close, p) ELSE c[k + 1]]
    BY TickedChart
  <2> HIDE DEF ticked, added
  <2> QED BY <2>1, <2>2
<1>5. added \in BarRec /\ added.time = Bucket(f, t) /\ added.close = p
  <2>1. CASE c[N].time = Bucket(f, t)
    <3>1. added = Widened(c[N], p) /\ c[N] \in BarRec
      BY <1>1, <1>3, <2>1 DEF Added
    <3>2. Widened(c[N], p) \in BarRec /\ Widened(c[N], p).time = c[N].time /\ Widened(c[N], p).close = p
      BY <1>1, <3>1, WidenedIs
    <3> QED BY <2>1, <3>1, <3>2
  <2>2. CASE c[N].time # Bucket(f, t)
    <3>1. added = Bar(Bucket(f, t), c[N].close, p) /\ c[N].close \in Int
      BY <1>1, <1>3, <2>2 DEF Added
    <3> DEFINE new == Bar(Bucket(f, t), c[N].close, p)
    <3>2. new \in BarRec /\ new.time = Bucket(f, t) /\ new.close = p
      <4>1. Bucket(f, t) \in Int /\ c[N].close \in Int /\ p \in Int
        BY <1>1, <1>2, <3>1
      <4> QED BY <4>1 DEF Bar, BarRec
    <3> HIDE DEF new, added
    <3> QED BY <3>1, <3>2 DEF new
  <2> QED BY <2>1, <2>2
<1>6. added.time \in Int
  BY <1>2, <1>5
<1>7. BarsOf(c) = {c[k] : k \in 1..N} /\ DOMAIN c = 1..N
  BY DEF BarsOf, Chart
<1>8. \A j, k \in 1..N : c[j] = c[k] => j = k
  <2>1. \A j, k \in 1..N : j < k \/ k < j \/ j = k
    BY <1>1
  <2>2. \A j, k \in 1..N : j < k => c[j] # c[k]
    BY <1>3 DEF Ascends
  <2> QED BY <2>1, <2>2
<1> HIDE DEF ticked, added
<1>9. CASE c[N].time = Bucket(f, t)
  <2>1. ticked = [c EXCEPT ![N] = added]
    BY <1>4, <1>9
  <2>2. \A k \in 1..N : ticked[k] = IF k = N THEN added ELSE c[k]
    BY <1>7, <2>1
  <2>3. ticked \in Chart
    BY <1>5, <2>1 DEF Chart
  <2>4. \A k \in 1..N : ticked[k].time = c[k].time
    BY <1>5, <1>9, <2>2
  <2>5. Ascends(ticked)
    BY <2>4 DEF Ascends
  <2>6. BarsOf(ticked) = {ticked[k] : k \in 1..N}
    BY <2>3 DEF BarsOf, Chart
  <2>7. gone = c[N]
    BY <1>9 DEF Gone
  <2>8. BarsOf(ticked) = (BarsOf(c) \ {gone}) \cup {added}
    <3>1. \A k \in 1..N : ticked[k] \in (BarsOf(c) \ {c[N]}) \cup {added}
      BY <1>1, <1>7, <1>8, <2>2
    <3>2. added \in BarsOf(ticked)
      BY <1>1, <2>2, <2>6
    <3>3. ASSUME NEW k \in 1..N, c[k] # c[N] PROVE c[k] \in BarsOf(ticked)
      BY <2>2, <2>6, <3>3
    <3> QED BY <1>7, <2>6, <2>7, <3>1, <3>2, <3>3
  <2> QED BY <1>1, <1>2, <1>3, <1>5, <1>9, <2>2, <2>3, <2>4, <2>5, <2>8 DEF ticked, added
<1>10. CASE c[N].time # Bucket(f, t)
  <2>1. ticked = [k \in 1..N |-> IF k = N THEN added ELSE c[k + 1]]
    BY <1>4, <1>10
  <2>2. \A k \in 1..N : k # N => k + 1 \in 1..N /\ k < k + 1
    BY <1>1
  <2>3. \A k \in 1..N : ticked[k] = IF k = N THEN added ELSE c[k + 1]
    BY <2>1
  <2>4. ticked \in Chart
    BY <1>3, <1>5, <2>1, <2>2 DEF Chart
  <2>5. c[N].time < added.time
    BY <1>2, <1>5, <1>10
  <2>6. \A k \in 1..N : c[k].time <= c[N].time /\ c[k].time < added.time
    <3> SUFFICES ASSUME NEW k \in 1..N PROVE c[k].time <= c[N].time
      BY <1>1, <1>3, <1>6, <2>5
    <3>1. k = N \/ k < N
      BY <1>1
    <3> QED BY <1>1, <1>3, <3>1 DEF Ascends
  <2>7. Ascends(ticked)
    <3> SUFFICES ASSUME NEW j \in 1..N, NEW k \in 1..N, j < k PROVE ticked[j].time < ticked[k].time
      BY DEF Ascends
    <3>1. j # N /\ ticked[j] = c[j + 1] /\ j + 1 \in 1..N
      BY <1>1, <2>2, <2>3
    <3>2. CASE k = N
      BY <2>3, <2>6, <3>1, <3>2
    <3>3. CASE k # N
      <4>1. ticked[k] = c[k + 1] /\ k + 1 \in 1..N /\ j + 1 < k + 1
        BY <2>2, <2>3, <3>3
      <4> QED BY <3>1, <4>1 DEF Ascends
    <3> QED BY <3>2, <3>3
  <2>8. BarsOf(ticked) = {ticked[k] : k \in 1..N}
    BY <2>4 DEF BarsOf, Chart
  <2>9. gone = c[1]
    BY <1>10 DEF Gone
  <2>10. BarsOf(ticked) = (BarsOf(c) \ {gone}) \cup {added}
    <3>1. ASSUME NEW k \in 1..N PROVE ticked[k] \in (BarsOf(c) \ {c[1]}) \cup {added}
      <4>1. CASE k = N
        BY <2>3, <4>1
      <4>2. CASE k # N
        <5>1. ticked[k] = c[k + 1] /\ k + 1 \in 1..N /\ k + 1 # 1
          BY <1>1, <2>2, <2>3, <4>2
        <5> QED BY <1>1, <1>7, <1>8, <5>1
      <4> QED BY <4>1, <4>2
    <3>2. added \in BarsOf(ticked)
      BY <1>1, <2>3, <2>8
    <3>3. ASSUME NEW k \in 1..N, c[k] # c[1] PROVE c[k] \in BarsOf(ticked)
      <4>1. k - 1 \in 1..N /\ k - 1 # N /\ (k - 1) + 1 = k
        BY <1>1, <3>3
      <4>2. ticked[k - 1] = c[k]
        BY <2>3, <4>1
      <4> QED BY <2>8, <4>1, <4>2
    <3> QED BY <1>7, <2>8, <2>9, <3>1, <3>2, <3>3
  <2>11. c[1].time < ticked[1].time
    <3>1. CASE N = 1
      BY <1>1, <2>3, <2>6, <3>1
    <3>2. CASE N # 1
      <4>1. ticked[1] = c[1 + 1] /\ 1 + 1 \in 1..N /\ 1 < 1 + 1
        BY <1>1, <2>2, <2>3, <3>2
      <4> QED BY <1>1, <4>1 DEF Ascends
    <3> QED BY <3>1, <3>2
  <2>12. ticked[N] = added /\ ticked[1] \in BarRec
    BY <1>1, <2>3, <2>4 DEF Chart
  <2>13. c[1].time <= ticked[1].time
    BY <1>1, <1>3, <2>11, <2>12 DEF BarRec
  <2> QED BY <1>5, <2>4, <2>7, <2>10, <2>11, <2>12, <2>13 DEF ticked, added
<1> QED BY <1>9, <1>10

\* The latest of the finer bars takes a price, and so does the bar they tell.
LEMMA TellsOnWidened ==
  ASSUME NEW within \in SUBSET BarRec, NEW bar \in BarRec, Tell(within, bar), NEW p \in Int,
         NEW last \in within, \A b \in within \ {last} : b.time < last.time
  PROVE  Tell((within \ {last}) \cup {Widened(last, p)}, Widened(bar, p))
<1> DEFINE wide == Widened(last, p)
           grown == Widened(bar, p)
           now == (within \ {last}) \cup {wide}
<1>1. /\ last \in BarRec /\ wide \in BarRec /\ wide.time = last.time /\ wide.open = last.open /\ wide.close = p
      /\ wide.high = IF p > last.high THEN p ELSE last.high
      /\ wide.low = IF p < last.low THEN p ELSE last.low
  BY WidenedIs
<1>2. /\ grown \in BarRec /\ grown.time = bar.time /\ grown.open = bar.open /\ grown.close = p
      /\ grown.high = IF p > bar.high THEN p ELSE bar.high
      /\ grown.low = IF p < bar.low THEN p ELSE bar.low
  BY WidenedIs
<1>3. \A b \in BarRec : b.time \in Int /\ b.high \in Int /\ b.low \in Int
  BY DEF BarRec
<1> HIDE DEF wide, grown
<1>4. \A b \in within : bar.low <= b.low /\ b.high <= bar.high
  BY DEF Tell
<1>5. wide \in now /\ now # {}
  OBVIOUS
<1>6. \A b \in now : grown.low <= b.low /\ b.high <= grown.high
  <2> SUFFICES ASSUME NEW b \in now PROVE grown.low <= b.low /\ b.high <= grown.high
    OBVIOUS
  <2>1. CASE b = wide
    BY <1>1, <1>2, <1>3, <1>4, <2>1
  <2>2. CASE b \in within
    BY <1>2, <1>3, <1>4, <2>2
  <2> QED BY <2>1, <2>2
<1>7. \E b \in now : b.low = grown.low
  <2>1. PICK b \in within : b.low = bar.low
    BY DEF Tell
  <2>2. CASE b = last \/ p < bar.low
    <3>1. wide.low = grown.low
      BY <1>1, <1>2, <1>3, <1>4, <2>1, <2>2
    <3> QED BY <1>5, <3>1
  <2>3. CASE b # last /\ ~(p < bar.low)
    BY <1>2, <2>1, <2>3
  <2> QED BY <2>2, <2>3
<1>8. \E b \in now : b.high = grown.high
  <2>1. PICK b \in within : b.high = bar.high
    BY DEF Tell
  <2>2. CASE b = last \/ p > bar.high
    <3>1. wide.high = grown.high
      BY <1>1, <1>2, <1>3, <1>4, <2>1, <2>2
    <3> QED BY <1>5, <3>1
  <2>3. CASE b # last /\ ~(p > bar.high)
    BY <1>2, <2>1, <2>3
  <2> QED BY <2>2, <2>3
<1>9. \A b \in now : b.time <= wide.time
  BY <1>1, <1>3
<1>10. \E b \in now : b.open = grown.open /\ \A c \in now : b.time <= c.time
  <2>1. PICK b \in within : b.open = bar.open /\ \A c \in within : b.time <= c.time
    BY DEF Tell
  <2>2. \A c \in now : b.time <= c.time
    BY <1>1, <2>1
  <2>3. CASE b = last
    BY <1>1, <1>2, <1>5, <2>1, <2>2, <2>3
  <2>4. CASE b # last
    BY <1>2, <2>1, <2>2, <2>4
  <2> QED BY <2>3, <2>4
<1>11. \E b \in now : b.close = grown.close /\ \A c \in now : c.time <= b.time
  BY <1>1, <1>2, <1>5, <1>9
<1> QED BY <1>5, <1>6, <1>7, <1>8, <1>10, <1>11 DEF Tell, wide, grown

\* A finer bar is opened at a price that the bar they tell takes.
LEMMA TellsOnOpened ==
  ASSUME NEW within \in SUBSET BarRec, NEW bar \in BarRec, Tell(within, bar), NEW p \in Int,
         NEW new \in BarRec, new.high = p, new.low = p, new.close = p,
         \A b \in within : b.time < new.time
  PROVE  Tell(within \cup {new}, Widened(bar, p))
<1> DEFINE grown == Widened(bar, p)
           now == within \cup {new}
<1>1. /\ grown \in BarRec /\ grown.time = bar.time /\ grown.open = bar.open /\ grown.close = p
      /\ grown.high = IF p > bar.high THEN p ELSE bar.high
      /\ grown.low = IF p < bar.low THEN p ELSE bar.low
  BY WidenedIs
<1>2. \A b \in BarRec : b.time \in Int /\ b.high \in Int /\ b.low \in Int
  BY DEF BarRec
<1> HIDE DEF grown
<1>3. \A b \in within : bar.low <= b.low /\ b.high <= bar.high
  BY DEF Tell
<1>4. new \in now /\ now # {}
  OBVIOUS
<1>5. \A b \in now : grown.low <= b.low /\ b.high <= grown.high
  <2> SUFFICES ASSUME NEW b \in now PROVE grown.low <= b.low /\ b.high <= grown.high
    OBVIOUS
  <2>1. CASE b = new
    BY <1>1, <1>2, <2>1
  <2>2. CASE b \in within
    BY <1>1, <1>2, <1>3, <2>2
  <2> QED BY <2>1, <2>2
<1>6. \E b \in now : b.low = grown.low
  <2>1. PICK b \in within : b.low = bar.low
    BY DEF Tell
  <2> QED BY <1>1, <1>4, <2>1
<1>7. \E b \in now : b.high = grown.high
  <2>1. PICK b \in within : b.high = bar.high
    BY DEF Tell
  <2> QED BY <1>1, <1>4, <2>1
<1>8. \E b \in now : b.open = grown.open /\ \A c \in now : b.time <= c.time
  <2>1. PICK b \in within : b.open = bar.open /\ \A c \in within : b.time <= c.time
    BY DEF Tell
  <2>2. \A c \in now : b.time <= c.time
    BY <1>2, <2>1
  <2> QED BY <1>1, <2>1, <2>2
<1>9. \A b \in now : b.time <= new.time
  BY <1>2
<1>10. \E b \in now : b.close = grown.close /\ \A c \in now : c.time <= b.time
  BY <1>1, <1>4, <1>9
<1> QED BY <1>4, <1>5, <1>6, <1>7, <1>8, <1>10 DEF Tell, grown

\* What BarsAgree says of two charts.
Agree(fine, coarse, g, paint) ==
    \A bar \in BarsOf(coarse) :
       bar.time > paint /\ bar.time >= fine[1].time
          => Tell({b \in BarsOf(fine) : Bucket(g, b.time) = bar.time}, bar)

\* Two charts that end in one moment's buckets and at one price agree after a tick if they
\* agreed before it.
LEMMA TickKeepsAgreed ==
  ASSUME FeedAssumption, NEW f \in Frames, NEW g \in Frames, f < g,
         NEW c \in Chart, NEW d \in Chart, Ascends(c), Ascends(d), NEW paint \in Int,
         NEW s \in Int, NEW t \in Int, s <= t, NEW p \in Int,
         c[MaxBars].time = Bucket(f, s), d[MaxBars].time = Bucket(g, s),
         c[MaxBars].close = d[MaxBars].close, Agree(c, d, g, paint)
  PROVE  Agree(WithTick(c, f, p, t), WithTick(d, g, p, t), g, paint)
<1> DEFINE N == MaxBars
           fine == WithTick(c, f, p, t)
           coarse == WithTick(d, g, p, t)
           newF == Added(c, f, p, t)
           newG == Added(d, g, p, t)
           goneF == Gone(c, f, t)
           goneG == Gone(d, g, t)
<1>1. N \in Nat \ {0} /\ N \in 1..N /\ 1 \in 1..N /\ f \in Nat \ {0} /\ g \in Nat \ {0}
  BY DEF FeedAssumption
<1>2. /\ Bucket(f, s) \in Int /\ Bucket(f, t) \in Int /\ Bucket(f, s) <= Bucket(f, t)
      /\ Bucket(g, s) \in Int /\ Bucket(g, t) \in Int /\ Bucket(g, s) <= Bucket(g, t)
  BY <1>1, BucketHolds, BucketsAscend
<1>3. Bucket(g, Bucket(f, s)) = Bucket(g, s) /\ Bucket(g, Bucket(f, t)) = Bucket(g, t)
  BY BucketsNest
<1>4. /\ newF \in BarRec /\ newF.time = Bucket(f, t) /\ newF.close = p
      /\ BarsOf(fine) = (BarsOf(c) \ {goneF}) \cup {newF}
      /\ c[1].time <= fine[1].time
      /\ Bucket(f, s) # Bucket(f, t) => c[1].time < fine[1].time
      /\ fine \in Chart
  BY TickedIs
<1>5. /\ newG \in BarRec /\ newG.time = Bucket(g, t) /\ newG.close = p
      /\ BarsOf(coarse) = (BarsOf(d) \ {goneG}) \cup {newG}
  BY TickedIs
<1>6. \A b \in BarRec : b.time \in Int /\ b.close \in Int
  BY DEF BarRec
<1>7. /\ BarsOf(c) = {c[k] : k \in 1..N} /\ BarsOf(d) = {d[k] : k \in 1..N}
      /\ \A k \in 1..N : c[k] \in BarRec /\ d[k] \in BarRec
  BY DEF BarsOf, Chart
<1>8. \A b \in BarsOf(c) : b \in BarRec /\ (b = c[N] \/ b.time < Bucket(f, s))
  BY <1>1, <1>7 DEF Ascends
<1>9. \A b \in BarsOf(d) : b \in BarRec /\ (b = d[N] \/ b.time < Bucket(g, s))
  BY <1>1, <1>7 DEF Ascends
<1>10. c[1] \in BarRec /\ fine[1] \in BarRec /\ c[N] \in BarsOf(c) /\ d[N] \in BarsOf(d)
  BY <1>1, <1>4, <1>7 DEF Chart
<1>11. goneF = (IF Bucket(f, s) = Bucket(f, t) THEN c[N] ELSE c[1])
       /\ goneG = (IF Bucket(g, s) = Bucket(g, t) THEN d[N] ELSE d[1])
  BY DEF Gone
<1>12. /\ newF = (IF Bucket(f, s) = Bucket(f, t) THEN Widened(c[N], p) ELSE Bar(Bucket(f, t), c[N].close, p))
       /\ newG = (IF Bucket(g, s) = Bucket(g, t) THEN Widened(d[N], p) ELSE Bar(Bucket(g, t), d[N].close, p))
  BY DEF Added
<1> HIDE DEF fine, coarse, newF, newG, goneF, goneG
<1> SUFFICES ASSUME NEW bar \in BarsOf(coarse), bar.time > paint, bar.time >= fine[1].time
             PROVE  Tell({b \in BarsOf(fine) : Bucket(g, b.time) = bar.time}, bar)
  BY DEF Agree, fine, coarse
<1> DEFINE now == {b \in BarsOf(fine) : Bucket(g, b.time) = bar.time}
           then(at) == {b \in BarsOf(c) : Bucket(g, b.time) = at}
<1>13. bar \in BarRec /\ bar.time \in Int
  BY <1>5, <1>6, <1>9
<1>14. bar.time >= c[1].time
  BY <1>4, <1>6, <1>10, <1>13
<1>15. Bucket(f, s) # Bucket(f, t) => Bucket(g, goneF.time) # bar.time
  <2> SUFFICES ASSUME Bucket(f, s) # Bucket(f, t) PROVE Bucket(g, c[1].time) # bar.time
    BY <1>11
  <2>1. c[1].time \in Int /\ fine[1].time \in Int /\ c[1].time < fine[1].time
    BY <1>4, <1>6, <1>10
  <2>2. Bucket(g, c[1].time) <= c[1].time /\ Bucket(g, c[1].time) \in Int
    BY <1>1, <2>1, BucketHolds
  <2> QED BY <1>13, <2>1, <2>2
<1>16. CASE bar = newG
  <2>1. bar.time = Bucket(g, t) /\ newF \in now
    BY <1>3, <1>4, <1>5, <1>16
  <2>2. CASE Bucket(g, s) = Bucket(g, t)
    <3>1. d[N].time = bar.time /\ d[N] \in BarRec /\ bar = Widened(d[N], p)
      BY <1>9, <1>10, <1>12, <1>16, <2>1, <2>2
    <3>2. Tell(then(bar.time), d[N])
      BY <1>10, <1>14, <3>1 DEF Agree
    <3>3. then(bar.time) \in SUBSET BarRec
      BY <1>8
    <3>4. CASE Bucket(f, s) = Bucket(f, t)
      <4>1. goneF = c[N] /\ newF = Widened(c[N], p) /\ c[N] \in then(bar.time)
        BY <1>3, <1>10, <1>11, <1>12, <2>1, <2>2, <3>4
      <4>2. now = (then(bar.time) \ {c[N]}) \cup {Widened(c[N], p)}
        BY <1>4, <2>1, <4>1
      <4>3. \A b \in then(bar.time) \ {c[N]} : b.time < c[N].time
        BY <1>8
      <4> HIDE DEF now, then
      <4>4. Tell((then(bar.time) \ {c[N]}) \cup {Widened(c[N], p)}, Widened(d[N], p))
        BY <3>1, <3>2, <3>3, <4>1, <4>3, TellsOnWidened
      <4> QED BY <3>1, <4>2, <4>4 DEF now
    <3>5. CASE Bucket(f, s) # Bucket(f, t)
      <4>1. newF = Bar(Bucket(f, t), c[N].close, p) /\ c[N].close \in Int
        BY <1>6, <1>8, <1>10, <1>12, <3>5
      <4>2. newF.high = p /\ newF.low = p
        BY <4>1 DEF Bar
      <4>3. now = then(bar.time) \cup {newF}
        BY <1>4, <1>15, <2>1, <3>5
      <4>4. \A b \in then(bar.time) : b.time < newF.time
        BY <1>2, <1>4, <1>6, <1>8, <3>5
      <4> HIDE DEF now, then
      <4>5. Tell(then(bar.time) \cup {newF}, Widened(d[N], p))
        BY <1>4, <3>1, <3>2, <3>3, <4>2, <4>4, TellsOnOpened
      <4> QED BY <3>1, <4>3, <4>5 DEF now
    <3> QED BY <3>4, <3>5
  <2>3. CASE Bucket(g, s) # Bucket(g, t)
    <3>1. Bucket(f, s) # Bucket(f, t)
      BY <1>3, <2>3
    <3>2. newF = Bar(Bucket(f, t), c[N].close, p) /\ bar = Bar(Bucket(g, t), d[N].close, p)
      BY <1>12, <1>16, <2>3, <3>1
    <3>3. ASSUME NEW b \in BarsOf(c) PROVE Bucket(g, b.time) # bar.time
      <4>1. b.time \in Int /\ b.time <= Bucket(f, s)
        BY <1>2, <1>6, <1>8
      <4>2. Bucket(g, b.time) <= Bucket(g, s)
        BY <1>1, <1>2, <1>3, <4>1, BucketsAscend
      <4>3. Bucket(g, b.time) \in Int
        BY <1>1, <4>1, BucketHolds
      <4> QED BY <1>2, <2>1, <2>3, <4>2, <4>3
    <3>4. now = {newF}
      BY <1>4, <2>1, <3>3
    <3>5. newF.high = bar.high /\ newF.low = bar.low /\ newF.open = bar.open /\ newF.close = bar.close
      BY <3>2 DEF Bar
    <3>6. newF.high \in Int /\ newF.low \in Int /\ newF.time \in Int
      BY <1>4 DEF BarRec
    <3> HIDE DEF now
    <3>7. Tell({newF}, bar)
      BY <3>5, <3>6 DEF Tell
    <3> QED BY <3>4, <3>7 DEF now
  <2> QED BY <2>2, <2>3
<1>17. CASE bar # newG
  <2>1. bar \in BarsOf(d) /\ bar # goneG
    BY <1>5, <1>17
  <2>2. bar.time < Bucket(g, t)
    BY <1>2, <1>9, <1>11, <1>13, <2>1
  <2>3. Tell(then(bar.time), bar)
    BY <1>14, <2>1 DEF Agree
  <2>4. Bucket(g, newF.time) # bar.time
    BY <1>2, <1>3, <1>4, <1>13, <2>2
  <2>5. Bucket(g, goneF.time) # bar.time
    <3>1. CASE Bucket(f, s) = Bucket(f, t)
      BY <1>2, <1>3, <1>11, <1>13, <2>2, <3>1
    <3> QED BY <1>15, <3>1
  <2>6. now = then(bar.time)
    BY <1>4, <2>4, <2>5
  <2> HIDE DEF now, then
  <2> QED BY <2>3, <2>6 DEF now
<1> QED BY <1>16, <1>17

\* Every chart ends in the bucket of one moment, the last tick's or the last painting's, and
\* at the price; and the charts agree.
FeedInv ==
    /\ second \in Nat /\ painted \in 0..second /\ price \in FeedPrices
    /\ bars \in [Frames -> Chart]
    /\ \A f \in Frames : Ascends(bars[f]) /\ bars[f][MaxBars].close = price
    /\ \E s \in 0..second : \A f \in Frames : bars[f][MaxBars].time = Bucket(f, s)
    /\ \A f, g \in Frames : f < g => Agree(bars[f], bars[g], g, painted)

\* History that is made up is a chart, which ends in the moment's bucket and at the price; none
\* of its bars is opened after the moment.
Fresh(c, f, p, s) ==
    /\ c \in Chart /\ Ascends(c)
    /\ c[MaxBars].close = p /\ c[MaxBars].time = Bucket(f, s)
    /\ \A b \in BarsOf(c) : ~(b.time > s)

\* Painting makes such charts.
LEMMA PaintedIs ==
  ASSUME FeedAssumption, NEW f \in Frames, NEW p \in Int, NEW s \in Nat
  PROVE  Fresh(Painted(f, p, s), f, p, s)
<1> DEFINE N == MaxBars
           at(k) == Bucket(f, s) - (N - k) * f
           c == Painted(f, p, s)
<1>1. N \in Nat \ {0} /\ N \in 1..N /\ f \in Nat \ {0} /\ p \in Int /\ s \in Int
  BY DEF FeedAssumption
<1>2. Bucket(f, s) \in Int /\ Bucket(f, s) <= s
  BY <1>1, BucketHolds
<1>3. \A k \in 1..N : at(k) \in Int
  BY <1>1, <1>2
<1>4. c = [k \in 1..N |-> Bar(at(k), p, p)]
  BY DEF Painted
<1>5. ASSUME NEW k \in 1..N
      PROVE  c[k] \in BarRec /\ c[k].time = at(k) /\ c[k].close = p
  <2> HIDE DEF c
  <2>1. c[k] = Bar(at(k), p, p)
    BY <1>4
  <2>2. at(k) \in Int
    BY <1>3
  <2> HIDE DEF at
  <2> QED BY <1>1, <2>1, <2>2 DEF Bar, BarRec
<1>6. ASSUME NEW j \in 1..N, NEW k \in 1..N, j <= k
      PROVE  at(j) <= at(k) /\ (j < k => at(j) < at(k))
  <2>1. (N - j) * f = (N - k) * f + (k - j) * f
    BY <1>1
  <2>2. (k - j) * f >= 0 /\ (j < k => (k - j) * f > 0)
    BY <1>1, <1>6
  <2>3. (N - k) * f \in Int /\ (k - j) * f \in Int
    BY <1>1
  <2> QED BY <1>2, <2>1, <2>2, <2>3
<1>7. at(N) = Bucket(f, s)
  BY <1>1, <1>2
<1> HIDE DEF at
<1>8. c \in Chart
  BY <1>3, <1>1, <1>4 DEF Chart, Bar, BarRec
<1> HIDE DEF c
<1>9. Ascends(c)
  BY <1>5, <1>6 DEF Ascends
<1>10. \A k \in 1..N : ~(c[k].time > s)
  <2> SUFFICES ASSUME NEW k \in 1..N PROVE ~(at(k) > s)
    BY <1>5
  <2>1. at(k) <= at(N) /\ k <= N
    BY <1>1, <1>6
  <2> QED BY <1>2, <1>3, <1>7, <2>1
<1>11. BarsOf(c) = {c[k] : k \in 1..N}
  BY <1>8 DEF BarsOf, Chart
<1> QED BY <1>1, <1>5, <1>7, <1>8, <1>9, <1>10, <1>11 DEF c, Fresh

\* When every chart is painted anew, they agree for want of bars opened since.
LEMMA PaintingKeeps ==
  ASSUME FeedAssumption, NEW p \in FeedPrices, NEW s \in Nat,
         second' = s, painted' = s, price' = p, bars' = [f \in Frames |-> Painted(f, p, s)]
  PROVE  FeedInv'
<1>1. p \in Int
  BY DEF FeedAssumption
<1>2. \A f \in Frames : bars'[f] = Painted(f, p, s)
  OBVIOUS
<1>3. \A f \in Frames : Fresh(bars'[f], f, p, s)
  BY <1>1, <1>2, PaintedIs
<1>4. bars' \in [Frames -> Chart]
  BY <1>3 DEF Fresh
<1>5. \A f, g \in Frames : f < g => Agree(bars'[f], bars'[g], g, s)
  BY <1>3 DEF Agree, Fresh
<1>6. s \in 0..s
  OBVIOUS
<1> QED BY <1>3, <1>4, <1>5, <1>6 DEF FeedInv, Fresh

\* One step: a tick, a quote, which may paint the charts, or the start of the timer.
LEMMA FeedStep ==
  ASSUME FeedAssumption, FeedInv, [FeedNext]_feedVars
  PROVE  FeedInv'
<1>1. CASE UNCHANGED <<second, price, bars, painted>>
  BY <1>1 DEF FeedInv
<1>2. ASSUME NEW p \in FeedPrices, FeedTick(p) PROVE FeedInv'
  <2>1. PICK n \in 0..Lag : second' = second + n
    BY <1>2 DEF FeedTick
  <2> DEFINE t == second + n
  <2>2. /\ second' = t /\ t \in Nat /\ second <= t /\ price' = p /\ painted' = painted
        /\ bars' = [f \in Frames |-> WithTick(bars[f], f, p, t)]
    BY <1>2, <2>1 DEF FeedTick, FeedInv, FeedAssumption
  <2> HIDE DEF t
  <2>3. PICK s \in 0..second : \A f \in Frames : bars[f][MaxBars].time = Bucket(f, s)
    BY DEF FeedInv
  <2>4. s \in Int /\ t \in Int /\ s <= t /\ p \in Int
    <3>1. second \in Nat /\ t \in Nat /\ second <= t
      BY <2>2 DEF FeedInv
    <3>2. p \in Int
      BY DEF FeedAssumption
    <3> QED BY <2>3, <3>1, <3>2
  <2>5. \A f \in Frames : bars'[f] = WithTick(bars[f], f, p, t)
    BY <2>2
  <2>6. ASSUME NEW f \in Frames
        PROVE  /\ bars'[f] \in Chart /\ Ascends(bars'[f])
               /\ bars'[f][MaxBars].close = p /\ bars'[f][MaxBars].time = Bucket(f, t)
    <3>1. bars[f] \in Chart /\ Ascends(bars[f]) /\ bars[f][MaxBars].time = Bucket(f, s)
      BY <2>3 DEF FeedInv
    <3> QED BY <2>4, <2>5, <3>1, TickedIs
  <2>7. ASSUME NEW f \in Frames, NEW g \in Frames, f < g
        PROVE  Agree(bars'[f], bars'[g], g, painted)
    <3>1. /\ bars[f] \in Chart /\ Ascends(bars[f]) /\ bars[f][MaxBars].time = Bucket(f, s)
          /\ bars[g] \in Chart /\ Ascends(bars[g]) /\ bars[g][MaxBars].time = Bucket(g, s)
          /\ bars[f][MaxBars].close = bars[g][MaxBars].close
          /\ Agree(bars[f], bars[g], g, painted) /\ painted \in Int
      <4>0. painted \in Int
        BY DEF FeedInv
      <4>1. bars[f] \in Chart /\ bars[g] \in Chart
        BY DEF FeedInv
      <4>2. /\ Ascends(bars[f]) /\ Ascends(bars[g])
            /\ bars[f][MaxBars].close = price /\ bars[g][MaxBars].close = price
        BY DEF FeedInv
      <4>3. Agree(bars[f], bars[g], g, painted)
        BY <2>7 DEF FeedInv
      <4> QED BY <2>3, <4>0, <4>1, <4>2, <4>3
    <3>2. Agree(WithTick(bars[f], f, p, t), WithTick(bars[g], g, p, t), g, painted)
      BY <2>4, <2>7, <3>1, TickKeepsAgreed
    <3> QED BY <2>5, <3>2
  <2>8. bars' \in [Frames -> Chart]
    BY <2>2, <2>6
  <2>9. t \in 0..t /\ painted \in 0..t
    BY <2>2 DEF FeedInv
  <2> QED BY <2>2, <2>6, <2>7, <2>8, <2>9 DEF FeedInv
<1>3. ASSUME NEW p \in FeedPrices, QuoteArrives(p) PROVE FeedInv'
  <2>1. \/ UNCHANGED <<second, price, bars, painted>>
        \/ second' = second /\ price' = p /\ PaintHistory(p)
    BY <1>3 DEF QuoteArrives, ApplyUpstream
  <2>2. CASE second' = second /\ price' = p /\ PaintHistory(p)
    <3>1. second \in Nat
      BY DEF FeedInv
    <3> QED BY <2>2, <3>1, PaintingKeeps DEF PaintHistory
  <2> QED BY <1>1, <2>1, <2>2
<1>4. CASE FeedStarts
  BY <1>1, <1>4 DEF FeedStarts
<1> QED BY <1>1, <1>2, <1>3, <1>4 DEF FeedNext, feedVars

\* The charts a feed begins with are painted.
LEMMA FeedBegins ==
  ASSUME FeedAssumption, FeedInit
  PROVE  FeedInv
<1>1. second = 0 /\ painted = 0 /\ price = FirstPrice
      /\ bars = [f \in Frames |-> Painted(f, FirstPrice, 0)]
  BY DEF FeedInit
<1>2. FirstPrice \in FeedPrices /\ FirstPrice \in Int
  BY DEF FeedAssumption
<1>3. \A f \in Frames : Fresh(bars[f], f, FirstPrice, 0)
  <2>1. \A f \in Frames : bars[f] = Painted(f, FirstPrice, 0)
    BY <1>1
  <2>2. 0 \in Nat
    OBVIOUS
  <2> QED BY <1>2, <2>1, <2>2, PaintedIs
<1>4. bars \in [Frames -> Chart]
  BY <1>1, <1>3 DEF Fresh
<1>5. \A f, g \in Frames : f < g => Agree(bars[f], bars[g], g, 0)
  BY <1>3 DEF Agree, Fresh
<1>6. 0 \in 0..0 /\ 0 \in Nat
  OBVIOUS
<1> QED BY <1>1, <1>2, <1>3, <1>4, <1>5, <1>6 DEF FeedInv, Fresh

\* The charts of two timeframes tell one story (services/prices.ts folds one tick into every
\* timeframe's list, and paints all of them anew on a jump), for every set of timeframes each of
\* which is made of whole ones of the finer, every length of list and every lag between ticks.
THEOREM BarsAlwaysAgree ==
  ASSUME FeedAssumption
  PROVE  FeedSpec => []BarsAgree
<1>1. FeedInit => FeedInv
  BY FeedBegins
<1>2. FeedInv /\ [FeedNext]_feedVars => FeedInv'
  BY FeedStep
<1>3. FeedInv => BarsAgree
  BY DEF FeedInv, BarsAgree, Agree
<1> QED BY <1>1, <1>2, <1>3, PTL DEF FeedSpec

-----------------------------------------------------------------------------
(* Types: every variable of each of these parts is of the shape the code gives it. *)

(* SolvencyView: what is at risk is what the open positions may pay, which follows one
   seat at a time. *)

\* What the position of a seat may take out of the book.
Reserves == [s \in Seats |-> seats[s].stake + seats[s].most]
BookKept ==
    /\ cash \in Int /\ owed \in Nat /\ operatorFloat \in Nat /\ highFloat \in Nat
    /\ seats \in [Seats -> Positions \cup {Vacant}]
Seen == [done : BOOLEAN, seen : ViewTypes]
ViewsKept ==
    /\ wallet \in Nat /\ floatMoves \in Nat
    /\ view \in ViewTypes /\ viewIsFresh \in BOOLEAN
    /\ viewRead \subseteq Seen
    /\ walletRead \in Nat \cup {NoBalance} /\ floatNotice \in BOOLEAN

\* The type in three parts: the book, what is seen of it, and what is at risk.
LEMMA SolvencyTypeIs == SolvencyTypeOK <=> BookKept /\ ViewsKept /\ atRisk = SumFunction(Reserves)
BY DEF SolvencyTypeOK, BookKept, ViewsKept, Seen, Reserves

\* A position, or none, is of amounts.
LEMMA PositionsAreAmounts ==
  ASSUME NEW p \in Positions \cup {Vacant}
  PROVE  p.stake \in Nat /\ p.most \in Nat
<1>1. CASE p \in Positions
  BY <1>1, SolvencyAssumption DEF Positions
<1>2. CASE p = Vacant
  BY <1>2 DEF Vacant
<1> QED BY <1>1, <1>2

\* A seat's reserve is a number, and so is their sum.
LEMMA ReservesAreNumbers ==
  ASSUME BookKept
  PROVE  /\ \A s \in Seats : seats[s].stake \in Nat /\ seats[s].most \in Nat /\ Reserves[s] \in Int
         /\ SumFunction(Reserves) = SumFunctionOnSet(Reserves, Seats)
<1>1. ASSUME NEW s \in Seats
      PROVE  seats[s].stake \in Nat /\ seats[s].most \in Nat /\ Reserves[s] \in Int
  <2>1. seats[s].stake \in Nat /\ seats[s].most \in Nat
    BY PositionsAreAmounts DEF BookKept
  <2>2. Reserves[s] = seats[s].stake + seats[s].most
    BY DEF Reserves
  <2> QED BY <2>1, <2>2
<1>2. DOMAIN Reserves = Seats
  BY DEF Reserves
<1> QED BY <1>1, <1>2 DEF SumFunction

\* One seat that changes hands moves the sum by what it may pay.
LEMMA SeatMoves ==
  ASSUME BookKept, atRisk = SumFunction(Reserves), NEW s \in Seats, NEW p \in Positions \cup {Vacant},
         seats' = [seats EXCEPT ![s] = p], atRisk' = atRisk - (seats[s].stake + seats[s].most) + (p.stake + p.most)
  PROVE  seats' \in [Seats -> Positions \cup {Vacant}] /\ atRisk' = SumFunction(Reserves)'
<1> DEFINE f == Reserves
           g == [t \in Seats |-> seats'[t].stake + seats'[t].most]
           rest == Seats \ {s}
<1>1. seats' \in [Seats -> Positions \cup {Vacant}]
  BY DEF BookKept
<1>2. IsFiniteSet(Seats)
  BY SolvencyAssumption
<1>3. IsFiniteSet(rest)
  BY <1>2, FS_Subset
<1>4. p.stake \in Nat /\ p.most \in Nat
  BY PositionsAreAmounts
<1>5. f[s] = seats[s].stake + seats[s].most /\ \A t \in Seats : f[t] \in Int
  BY ReservesAreNumbers DEF Reserves
<1>6. g[s] = p.stake + p.most /\ \A t \in rest : g[t] = f[t]
  BY DEF BookKept, Reserves
<1>7. \A t \in Seats : g[t] \in Int
  <2>1. g[s] \in Int
    BY <1>4, <1>6
  <2> HIDE DEF f, g
  <2> QED BY <1>5, <1>6, <2>1
<1>8. SumFunction(f) = SumFunctionOnSet(f, Seats)
  BY ReservesAreNumbers
<1>9. SumFunction(Reserves)' = SumFunctionOnSet(g, Seats)
  BY DEF SumFunction, Reserves
<1> HIDE DEF f, g
<1>10. SumFunctionOnSet(f, Seats) = f[s] + SumFunctionOnSet(f, rest)
  BY <1>2, <1>5, SumRemove
<1>11. SumFunctionOnSet(g, Seats) = g[s] + SumFunctionOnSet(g, rest)
  BY <1>2, <1>7, SumRemove
<1>12. SumFunctionOnSet(f, rest) = SumFunctionOnSet(g, rest) /\ SumFunctionOnSet(f, rest) \in Int
  BY <1>3, <1>5, <1>6, SumSame, SumInt
<1>13. atRisk = SumFunction(f)
  BY DEF f
<1>14. atRisk' = atRisk - f[s] + g[s]
  BY <1>5, <1>6
<1>15. f[s] \in Int /\ g[s] \in Int
  BY <1>5, <1>7
<1>16. atRisk' = SumFunctionOnSet(g, Seats)
  BY <1>8, <1>10, <1>11, <1>12, <1>13, <1>14, <1>15
<1> QED BY <1>1, <1>9, <1>16

\* A read begins with what is shown.
LEMMA StartsSeen ==
  ASSUME ViewsKept, StartRead
  PROVE  viewRead' \subseteq Seen
<1>1. [done |-> FALSE, seen |-> view] \in Seen
  BY DEF ViewsKept, Seen
<1> QED BY <1>1 DEF StartRead, ViewsKept

\* A position is admitted to an empty seat, and leaves it empty.
LEMMA SeatsTyped ==
  ASSUME SolvencyTypeOK, NEW s \in Seats,
         SettlePosition(s) \/ \E stake \in BookStakes : AdmitPosition(s, stake)
  PROVE  SolvencyTypeOK'
<1>1. BookKept /\ ViewsKept /\ atRisk = SumFunction(Reserves)
  BY SolvencyTypeIs
<1>2. seats[s].stake \in Nat /\ seats[s].most \in Nat
  BY <1>1, ReservesAreNumbers
<1>3. atRisk \in Int
  <2>1. SumFunction(Reserves) = SumFunctionOnSet(Reserves, Seats) /\ \A t \in Seats : Reserves[t] \in Int
    BY <1>1, ReservesAreNumbers
  <2> QED BY <1>1, <2>1, SolvencyAssumption, SumInt
<1>4. CASE SettlePosition(s)
  <2>1. /\ seats' = [seats EXCEPT ![s] = Vacant] /\ Vacant.stake = 0 /\ Vacant.most = 0
        /\ atRisk' = atRisk - seats[s].stake - seats[s].most
    BY <1>4 DEF SettlePosition, Vacant
  <2>2. atRisk' = atRisk - (seats[s].stake + seats[s].most) + (Vacant.stake + Vacant.most)
    BY <1>2, <1>3, <2>1
  <2>3. seats' \in [Seats -> Positions \cup {Vacant}] /\ atRisk' = SumFunction(Reserves)'
    BY <1>1, <2>1, <2>2, SeatMoves
  <2>4. owed' \in Nat
    BY <1>1, <1>2, <1>4 DEF SettlePosition, BookKept
  <2>5. viewRead' \subseteq Seen
    BY <1>1, <1>4, StartsSeen DEF SettlePosition
  <2>6. BookKept'
    BY <1>1, <1>4, <2>3, <2>4 DEF SettlePosition, BookKept
  <2>7. ViewsKept'
    BY <1>1, <1>4, <2>5 DEF SettlePosition, ViewsKept
  <2> QED BY <2>3, <2>6, <2>7 DEF SolvencyTypeOK, BookKept, ViewsKept, Seen, Reserves
<1>5. ASSUME NEW stake \in BookStakes, AdmitPosition(s, stake) PROVE SolvencyTypeOK'
  <2> DEFINE most == stake * MaxProfitMultiple
             p == [stake |-> stake, most |-> most]
  <2>1. stake \in Nat /\ most \in Nat
    BY SolvencyAssumption
  <2>2. /\ seats[s] = Vacant /\ seats' = [seats EXCEPT ![s] = p] /\ atRisk' = atRisk + stake + most
        /\ owed' = owed - stake /\ stake <= owed
        /\ UNCHANGED <<cash, operatorFloat, highFloat, wallet, floatMoves, viewVars, walletRead, floatNotice>>
    BY <1>5 DEF AdmitPosition
  <2> HIDE DEF most
  <2>3. atRisk' = atRisk - (seats[s].stake + seats[s].most) + (p.stake + p.most)
    BY <1>3, <2>1, <2>2 DEF Vacant
  <2>4. p \in Positions
    BY <2>1 DEF Positions
  <2> HIDE DEF p
  <2>5. seats' \in [Seats -> Positions \cup {Vacant}] /\ atRisk' = SumFunction(Reserves)'
    BY <1>1, <2>2, <2>3, <2>4, SeatMoves
  <2>6. BookKept'
    BY <1>1, <2>1, <2>2, <2>5 DEF BookKept
  <2>7. ViewsKept'
    BY <1>1, <2>2 DEF ViewsKept, viewVars
  <2> QED BY <2>5, <2>6, <2>7 DEF SolvencyTypeOK, BookKept, ViewsKept, Seen, Reserves
<1> QED BY <1>4, <1>5

\* All else leaves the seats alone.
LEMMA UnseatedTyped ==
  ASSUME SolvencyTypeOK, UNCHANGED <<seats, atRisk>>,
         cash' \in Int, owed' \in Nat, operatorFloat' \in Nat, highFloat' \in Nat, ViewsKept'
  PROVE  SolvencyTypeOK'
<1>1. BookKept /\ atRisk = SumFunction(Reserves)
  BY SolvencyTypeIs
<1>2. BookKept'
  BY <1>1 DEF BookKept
<1>3. atRisk' = SumFunction(Reserves)'
  BY <1>1 DEF Reserves
<1> QED BY <1>2, <1>3 DEF SolvencyTypeOK, BookKept, ViewsKept, Seen, Reserves

\* Every step of the book and of its display keeps their types.
LEMMA SolvencyTyped ==
  ASSUME SolvencyTypeOK, [SolvencyNext]_solvencyVars
  PROVE  SolvencyTypeOK'
<1>0. BookKept /\ ViewsKept
  BY SolvencyTypeIs
<1>1. CASE UNCHANGED solvencyVars
  <2>1. UNCHANGED <<seats, atRisk>> /\ UNCHANGED <<cash, owed, operatorFloat, highFloat>>
    BY <1>1 DEF solvencyVars, bookMoney
  <2>2. ViewsKept'
    BY <1>0, <1>1 DEF solvencyVars, viewVars, ViewsKept
  <2> QED BY <1>0, <2>1, <2>2, UnseatedTyped DEF BookKept
<1>2. ASSUME NEW n \in BookStakes, Deposits(n) \/ Withdraws(n) PROVE SolvencyTypeOK'
  <2>1. UNCHANGED <<seats, atRisk, operatorFloat, highFloat, wallet, floatMoves, viewVars, walletRead, floatNotice>>
    BY <1>2 DEF Deposits, Withdraws
  <2>2. n \in Nat
    BY SolvencyAssumption
  <2>3. cash' \in Int /\ owed' \in Nat
    BY <1>0, <1>2, <2>2 DEF Deposits, Withdraws, BookKept
  <2>4. ViewsKept'
    BY <1>0, <2>1 DEF ViewsKept, viewVars
  <2> QED BY <1>0, <2>1, <2>3, <2>4, UnseatedTyped DEF BookKept
<1>3. ASSUME UNCHANGED <<cash, owed, atRisk, seats>>, ViewsKept',
             UNCHANGED <<operatorFloat, highFloat>> \/ \E f \in Nat : Declare(f)
      PROVE  SolvencyTypeOK'
  <2>1. operatorFloat' \in Nat /\ highFloat' \in Nat
    BY <1>0, <1>3 DEF BookKept, Declare
  <2> QED BY <1>0, <1>3, <2>1, UnseatedTyped DEF BookKept
<1>4. ASSUME NEW f \in Floats, SetFloat(f) PROVE SolvencyTypeOK'
  <2>1. f \in Nat /\ Declare(f) /\ UNCHANGED <<cash, owed, atRisk, seats>>
    BY <1>4, SolvencyAssumption DEF SetFloat
  <2>2. ViewsKept'
    BY <1>0, <1>4 DEF SetFloat, ViewsKept, viewVars
  <2> QED BY <1>3, <2>1, <2>2
<1>5. CASE NoticeArrives \/ NoticeLost \/ WalletMoves \/ SyncReads \/ SyncFails
  <2>1. UNCHANGED <<cash, owed, atRisk, seats, operatorFloat, highFloat>>
    BY <1>5 DEF NoticeArrives, NoticeLost, WalletMoves, SyncReads, SyncFails, bookMoney
  <2>2. ViewsKept'
    <3>1. CASE NoticeArrives BY <1>0, <3>1 DEF NoticeArrives, ViewsKept
    <3>2. CASE NoticeLost BY <1>0, <3>2 DEF NoticeLost, viewVars, ViewsKept
    <3>3. CASE WalletMoves BY <1>0, <3>3, SolvencyAssumption DEF WalletMoves, viewVars, ViewsKept
    <3>4. CASE SyncReads BY <1>0, <3>4 DEF SyncReads, viewVars, ViewsKept
    <3>5. CASE SyncFails BY <1>0, <3>5 DEF SyncFails, viewVars, ViewsKept
    <3> QED BY <1>5, <3>1, <3>2, <3>3, <3>4, <3>5
  <2> QED BY <1>3, <2>1, <2>2
<1>6. CASE SyncWrites
  <2>1. walletRead \in Nat /\ Declare(walletRead) /\ UNCHANGED <<cash, owed, atRisk, seats>>
    BY <1>0, <1>6 DEF SyncWrites, ViewsKept
  <2>2. ViewsKept'
    BY <1>0, <1>6 DEF SyncWrites, ViewsKept, NoBalance
  <2> QED BY <1>3, <2>1, <2>2
<1>7. CASE AskView \/ ViewAges
  <2>1. UNCHANGED <<cash, owed, atRisk, seats, operatorFloat, highFloat>>
    BY <1>7 DEF AskView, ViewAges, bookMoney
  <2>2. ViewsKept'
    <3>1. CASE AskView BY <1>0, <3>1, StartsSeen DEF AskView, ViewsKept
    <3>2. CASE ViewAges BY <1>0, <3>2 DEF ViewAges, ViewsKept
    <3> QED BY <1>7, <3>1, <3>2
  <2> QED BY <1>3, <2>1, <2>2
<1>8. ASSUME NEW r \in viewRead, ReadExec(r) \/ ReadReturns(r) \/ ReadFails(r) PROVE SolvencyTypeOK'
  <2>1. UNCHANGED <<cash, owed, atRisk, seats, operatorFloat, highFloat>>
    BY <1>8 DEF ReadExec, ReadReturns, ReadFails, bookMoney
  <2>2. Figures \in ViewTypes
    <3>1. atRisk \in Int
      <4>1. SumFunction(Reserves) = SumFunctionOnSet(Reserves, Seats) /\ \A t \in Seats : Reserves[t] \in Int
        BY <1>0, ReservesAreNumbers
      <4> QED BY <4>1, SolvencyAssumption, SumInt, SolvencyTypeIs
    <3> QED BY <1>0, <3>1 DEF Figures, Headroom, BookKept, ViewTypes
  <2>3. r.seen \in ViewTypes
    BY <1>0, <1>8 DEF ViewsKept, Seen
  <2>4. [done |-> TRUE, seen |-> Figures] \in Seen
    BY <2>2 DEF Seen
  <2>5. viewRead' \subseteq Seen /\ view' \in ViewTypes /\ viewIsFresh' \in BOOLEAN
    BY <1>0, <1>8, <2>3, <2>4 DEF ReadExec, ReadReturns, ReadFails, ViewsKept
  <2>6. ViewsKept'
    BY <1>0, <1>8, <2>5 DEF ReadExec, ReadReturns, ReadFails, ViewsKept
  <2> QED BY <1>3, <2>1, <2>6
<1> QED BY <1>1, <1>2, <1>4, <1>5, <1>6, <1>7, <1>8, SeatsTyped DEF SolvencyNext

\* The book starts with no position, and nothing at risk.
LEMMA SolvencyStarts == SolvencyInit => SolvencyTypeOK
<1> SUFFICES ASSUME SolvencyInit PROVE SolvencyTypeOK
  OBVIOUS
<1>1. BookKept
  BY SolvencyAssumption DEF SolvencyInit, BookKept
<1>2. ViewsKept
  <2>1. [float |-> 0, room |-> 0] \in ViewTypes
    BY DEF ViewTypes
  <2> QED BY <2>1, SolvencyAssumption DEF SolvencyInit, ViewsKept, NoBalance
<1>3. SumFunction(Reserves) = 0
  <2>1. SumFunction(Reserves) = SumFunctionOnSet(Reserves, Seats)
    BY <1>1, ReservesAreNumbers
  <2>2. \A s \in Seats : Reserves[s] = 0
    BY DEF SolvencyInit, Reserves, Vacant
  <2> HIDE DEF Reserves
  <2> QED BY <2>1, <2>2, SolvencyAssumption, SumZero
<1> QED BY <1>1, <1>2, <1>3, SolvencyTypeIs DEF SolvencyInit

(* Adapters *)

\* Where the call has got to, and what it is made with.
CallTyped ==
    /\ serving \in AdapterKinds /\ keyForm \in KeyForms
    /\ authMode \in {"unset", "basic", "raw"} /\ attempt \in KeyForms \cup {"basic", "raw"}
    /\ Adapter # "intasend" => attempt \in {"basic", "raw"}
    /\ calling \in {"idle", "waiting", "done", "failed"}
    /\ carried \in {"none", "request", "unauthorised", "taken", "refused"}

\* With what the adapters keep, that is their type.
LEMMA AdaptersTypedMeans == AdaptersInv /\ CallTyped => AdaptersTypeOK
BY DEF AdaptersInv, CallTyped, AdaptersTypeOK

\* No call has been made at the start.
LEMMA CallStarts == AdaptersInit => CallTyped
BY DEF AdaptersInit, CallTyped

\* Every step of a call keeps its types.
LEMMA CallStepTyped ==
  ASSUME CallTyped, [AdaptersNext]_adapterVars
  PROVE  CallTyped'
<1>0. KeyForms \subseteq {"basic", "raw", "revoked"}
      /\ AdapterKinds \subseteq {"palpluss", "intasend"} \X {"DEPOSIT", "WITHDRAWAL"}
  BY AdaptersAssumption
<1>1. ASSUME UNCHANGED <<serving, keyForm, authMode, attempt, calling, carried>> PROVE CallTyped'
  BY <1>1 DEF CallTyped, Adapter
<1>2. CASE UNCHANGED adapterVars
  BY <1>1, <1>2 DEF adapterVars
<1>3. ASSUME NEW kind, Initiate(kind) PROVE CallTyped'
  <2>1. FirstForm \in KeyForms \cup {"basic", "raw"} /\ (Adapter # "intasend" => FirstForm \in {"basic", "raw"})
    BY DEF FirstForm, CallTyped
  <2> QED BY <1>3, <2>1 DEF Initiate, Sends, CallTyped, Adapter
<1>4. CASE Fallback
  BY <1>4 DEF Fallback, Sends, CallTyped, Adapter
<1>5. CASE Answered
  <2>1. authMode' \in {"unset", "basic", "raw"}
    BY <1>5 DEF Answered, CallTyped
  <2> QED BY <1>5, <2>1 DEF Answered, CallTyped, Adapter
<1>6. CASE GivesUp
  BY <1>6 DEF GivesUp, CallTyped, Adapter
<1>7. CASE OtherCall
  <2>1. authMode' \in {"basic", "raw"}
    BY <1>0, <1>7 DEF OtherCall, CallTyped
  <2> QED BY <1>7, <2>1 DEF OtherCall, CallTyped, Adapter
<1>8. CASE ProviderTakes
  BY <1>8 DEF ProviderTakes, CallTyped, Adapter
<1>9. CASE ProviderProceeds \/ Notifies \/ Notice \/ HintLost \/ SweepReads
  BY <1>1, <1>9 DEF ProviderProceeds, Notifies, Notice, HintLost, SweepReads
<1> QED
  BY <1>2, <1>3, <1>4, <1>5, <1>6, <1>7, <1>8, <1>9 DEF AdaptersNext, InitiateStkPush, InitiateB2CPayout

(* HouseEdge and Conformance *)

\* What a read in progress may hold.
ReadValues == {Idle, Unread, NotSet} \cup ConsoleEdges \cup StrayEdges

\* What a write of the edge and a read of it leave is what may be stored.
LEMMA EdgeTyped ==
  ASSUME EdgeTypeOK, [EdgeNext]_edgeVars
  PROVE  EdgeTypeOK'
<1>0. /\ edge \in 0..LargestEdge \cup {DeployEdge} /\ edgeNotice \in BOOLEAN
      /\ storedEdge \in {NotSet} \cup ConsoleEdges \cup StrayEdges
      /\ refreshes \in [EdgeReads -> ReadValues] /\ storedEdge \in ReadValues
      /\ Idle \in ReadValues /\ Unread \in ReadValues
      /\ edgeMoves \in 0..MaxEdgeMoves /\ MaxEdgeMoves \in Nat
  BY EdgeAssumption DEF EdgeTypeOK, ReadValues
<1> DEFINE Typed == /\ storedEdge \in {NotSet} \cup ConsoleEdges \cup StrayEdges
                    /\ edge \in 0..LargestEdge \cup {DeployEdge}
                    /\ refreshes \in [EdgeReads -> ReadValues]
                    /\ edgeNotice \in BOOLEAN /\ edgeMoves \in 0..MaxEdgeMoves
<1>1. SUFFICES Typed'
  BY DEF EdgeTypeOK, ReadValues
<1> HIDE DEF ReadValues
<1>2. CASE UNCHANGED edgeVars
  BY <1>0, <1>2 DEF edgeVars
<1>3. ASSUME NEW e \in ConsoleEdges, SetEdge(e) PROVE Typed'
  BY <1>0, <1>3 DEF SetEdge
<1>4. ASSUME NEW e \in StrayEdges, WriteTable(e) PROVE Typed'
  BY <1>0, <1>4 DEF WriteTable
<1>5. CASE EdgeNoticeLost
  BY <1>0, <1>5 DEF EdgeNoticeLost
<1>6. ASSUME NEW r \in EdgeReads, EdgeNoticeArrives(r) PROVE Typed'
  BY <1>0, <1>6 DEF EdgeNoticeArrives, StartRefresh
<1>7. ASSUME NEW r \in EdgeReads, Timer(r) PROVE Typed'
  BY <1>0, <1>7 DEF Timer, StartRefresh
<1>8. ASSUME NEW r \in EdgeReads, RefreshExec(r) PROVE Typed'
  BY <1>0, <1>8 DEF RefreshExec
<1>9. ASSUME NEW r \in EdgeReads, RefreshReturns(r) PROVE Typed'
  BY <1>0, <1>9 DEF RefreshReturns, InRange
<1>10. ASSUME NEW r \in EdgeReads, RefreshFails(r) PROVE Typed'
  BY <1>0, <1>10 DEF RefreshFails
<1> QED BY <1>2, <1>3, <1>4, <1>5, <1>6, <1>7, <1>8, <1>9, <1>10 DEF EdgeNext

\* It starts with the edge of the deployment, and no read under way.
LEMMA EdgeStarts == EdgeInit => EdgeTypeOK
<1> SUFFICES ASSUME EdgeInit PROVE EdgeTypeOK
  OBVIOUS
<1>1. edgeMoves \in 0..MaxEdgeMoves /\ edgeNotice \in BOOLEAN
  <2>1. MaxEdgeMoves \in Nat /\ 0 \in 0..MaxEdgeMoves
    BY EdgeAssumption
  <2> QED BY <2>1 DEF EdgeInit
<1> QED BY <1>1 DEF EdgeInit, EdgeTypeOK

\* A comparison's answers and its verdicts keep their shape, whatever becomes of the edge.
LEMMA ConformTyped ==
  ASSUME ConformTypeOK, ConformNext \/ UNCHANGED conformVars
  PROVE  ConformTypeOK'
<1>0. /\ own \in OwnTickets /\ edgeMoved \in BOOLEAN
      /\ heard = NotAsked \/ DOMAIN heard = DOMAIN Asked
      /\ conformity # NoReport => {conformity.parametersMatch, conformity.arithmeticMatch} \subseteq BOOLEAN
  BY DEF ConformTypeOK
<1>1. CASE UNCHANGED conformVars
  BY <1>0, <1>1 DEF conformVars, ConformTypeOK
<1>2. CASE AskConform
  BY <1>0, <1>2 DEF AskConform, ConformTypeOK
<1>3. ASSUME NEW route, NEW answer, RouteAnswers(route, answer) PROVE ConformTypeOK'
  <2>1. DOMAIN heard' = DOMAIN Asked
    BY <1>0, <1>3 DEF RouteAnswers
  <2> QED BY <1>0, <1>3, <2>1 DEF RouteAnswers, ConformTypeOK
<1>4. CASE AnyReadFails
  BY <1>0, <1>4 DEF AnyReadFails, ConformTypeOK
<1>5. CASE Reports
  <2>1. {conformity'.parametersMatch, conformity'.arithmeticMatch} \subseteq BOOLEAN
    BY <1>5 DEF Reports
  <2> QED BY <1>0, <1>5, <2>1 DEF Reports, ConformTypeOK
<1>6. CASE edgeMoved' = (edgeMoved \/ edge' # edge) /\ UNCHANGED <<own, heard, conformity>>
  BY <1>0, <1>6 DEF ConformTypeOK
<1> QED
  BY <1>1, <1>2, <1>3, <1>4, <1>5, <1>6
     DEF ConformNext, ConfigAnswers, QuoteAnswers, AnalysisAnswers, FairnessAnswers

\* It starts with nothing asked and no report.
LEMMA ConformBegins == ConformInit => ConformTypeOK
BY DEF ConformInit, ConformTypeOK

(* Tickets *)

\* Whatever the odds and the edge, a win never takes more than the stake.
LEMMA MostCoversStake ==
  ASSUME NEW stake, NEW chance, NEW charged,
         stake \in Nat, chance \in 10..90, charged \in 0..2000
  PROVE  MostOf(stake, chance, charged) >= -stake
<1> DEFINE n == stake * (10000 - 100 * chance - charged)
           d == 100 * chance
           most == MostOf(stake, chance, charged)
<1>1. n \in Int /\ d \in Nat \ {0} /\ most = RoundHalfUp(n, d)
  BY DEF MostOf
<1>2. most \in Int /\ 2 * n + d < 2 * (d * most) + 2 * d
  BY <1>1, HalfRounded
<1>3. d * (-stake) <= n
  <2>1. stake * (10000 - charged) >= 0 /\ stake * (10000 - charged) \in Int
    <3>1. 10000 - charged \in Nat
      OBVIOUS
    <3> QED BY <3>1
  <2>2. n = stake * (10000 - charged) + d * (-stake)
    OBVIOUS
  <2>3. d * (-stake) \in Int
    OBVIOUS
  <2> HIDE DEF n, d
  <2> QED BY <2>1, <2>2, <2>3
<1> HIDE DEF n, d, most
<1>4. d * most \in Int /\ d * (-stake) \in Int /\ -stake \in Int
  BY <1>1, <1>2
<1>5. d * (-stake) < d * most + d
  BY <1>1, <1>2, <1>3, <1>4
<1>6. -stake <= most
  BY <1>1, <1>2, <1>4, <1>5, MultiplesOrdered
<1> QED BY <1>2, <1>6 DEF most

\* A ticket that is open is priced, and what it wins at most covers its stake.
Priced(t) ==
  /\ t.entry \in Nat \ {0} /\ t.edge \in 0..2000
  /\ t.stake \in TicketStakes /\ t.most \in Int /\ t.most >= -t.stake

\* A fixed payout is sold at a price, an edge and a stake on offer.
LEMMA FixedPriced ==
  ASSUME NEW kind, NEW dir, NEW level, NEW chance, NEW mid, NEW stake, NEW charged,
         chance \in 10..90, mid \in Mids, stake \in TicketStakes, charged \in 0..2000
  PROVE  Priced(FixedTicket(kind, dir, level, chance, mid, stake, charged))
<1>1. stake \in Nat /\ mid \in Nat \ {0} /\ chance \in 10..90 /\ charged \in 0..2000
  BY TicketAssumption
<1>2. MostOf(stake, chance, charged) \in Int
  BY <1>1, FixedIsFair
<1>3. MostOf(stake, chance, charged) >= -stake
  BY <1>1, MostCoversStake
<1> QED BY <1>1, <1>2, <1>3 DEF FixedTicket, Priced

\* So is a scaled one.
LEMMA ScaledPriced ==
  ASSUME pass \in Int, NEW dir \in {"BUY", "SELL"}, NEW mid \in Mids, NEW stake \in TicketStakes,
         NEW e \in ScaledEdges, PlaceScaled(dir, stake, mid, e)
  PROVE  Priced(ticket')
<1> DEFINE charged == ScaledEdgeWith(pass, e)
           most == stake * MostMultiple
           entry == ApplySpread(mid, dir, ScaledMultiplier, charged)
<1>1. charged \in 0..2000 /\ charged \in Nat /\ charged <= 2000
  BY TicketAssumption DEF ScaledEdgeWith
<1>2. stake \in Nat /\ mid \in Nat \ {0} /\ ScaledMultiplier \in Nat \ {0} /\ MostMultiple \in Nat
  BY TicketAssumption
<1>3. most \in Nat
  BY <1>2
<1>4. ticket' = [kind |-> "SCALED", dir |-> dir, level |-> mid, chance |-> 0, entry |-> entry,
                 stake |-> stake, edge |-> charged, most |-> most]
  BY DEF PlaceScaled
<1> HIDE DEF charged, most
<1>5. entry \in Nat \ {0}
  BY ONLY <1>1, <1>2, dir \in {"BUY", "SELL"}, SpreadKeepsPricePositive DEF entry
<1> HIDE DEF entry
<1> QED BY <1>1, <1>2, <1>3, <1>4, <1>5 DEF Priced

TicketTyped == pass \in {NoPass} \cup PassEdges /\ (ticket # NoTicket => Priced(ticket))

\* It starts with no ticket.
LEMMA TicketStarts == TicketInit => TicketTyped
BY DEF TicketInit, TicketTyped

\* A ticket that is priced is of amounts.
LEMMA TicketTypedMeans == TicketTyped => TicketTypeOK
BY DEF TicketTyped, TicketTypeOK, Priced

\* Whatever is quoted, sold or settled, a ticket is priced by one of the two rules.
LEMMA TicketStepTyped == TicketTyped /\ [TicketNext]_ticketVars => TicketTyped'
<1> SUFFICES ASSUME TicketTyped, [TicketNext]_ticketVars PROVE TicketTyped'
  OBVIOUS
<1>1. CASE BuyTicket
  <2>1. pass \in Int
    BY TicketAssumption DEF TicketTyped, NoPass
  <2>2. EdgeWith(pass) \in 0..2000
    BY <2>1, EdgeInRange
  <2>3. PICK stake \in TicketStakes, mid \in Mids :
          \/ \E kind \in {"DIGITS_OVER", "DIGITS_UNDER"}, d \in 0..9 :
                PlaceDigit(kind, d, stake, mid)
          \/ \E kind \in {"DIGITS_EVEN", "DIGITS_ODD"} : PlaceParity(kind, stake, mid)
          \/ \E dir \in {"BUY", "SELL"} :
                \/ \E chance \in {60, 70, 80} : PlaceDigital(dir, chance, stake, mid)
                \/ \E e \in ScaledEdges : PlaceScaled(dir, stake, mid, e)
    BY <1>1 DEF BuyTicket
  <2>4. ASSUME NEW kind \in {"DIGITS_OVER", "DIGITS_UNDER"}, NEW d \in 0..9, PlaceDigit(kind, d, stake, mid)
        PROVE  Priced(ticket')
    <3>1. DigitChance(kind, d) \in 10..90
      BY <2>4 DEF PlaceDigit, Offered, DigitChance
    <3>2. Priced(FixedTicket(kind, "BUY", d, DigitChance(kind, d), mid, stake, EdgeWith(pass)))
      BY <2>2, <3>1, FixedPriced
    <3> QED BY <2>4, <3>2 DEF PlaceDigit
  <2>5. ASSUME NEW kind \in {"DIGITS_EVEN", "DIGITS_ODD"}, PlaceParity(kind, stake, mid)
        PROVE  Priced(ticket')
    <3>1. 50 \in 10..90
      OBVIOUS
    <3>2. Priced(FixedTicket(kind, "BUY", 0, 50, mid, stake, EdgeWith(pass)))
      BY <2>2, <3>1, FixedPriced
    <3> QED BY <2>5, <3>2 DEF PlaceParity
  <2>6. ASSUME NEW dir \in {"BUY", "SELL"}, NEW chance \in {60, 70, 80}, PlaceDigital(dir, chance, stake, mid)
        PROVE  Priced(ticket')
    <3>1. chance \in 10..90
      OBVIOUS
    <3>2. Priced(FixedTicket("DIGITAL", dir, Barrier(dir, mid, chance), chance, mid, stake, EdgeWith(pass)))
      BY <2>2, <3>1, FixedPriced
    <3> QED BY <2>6, <3>2 DEF PlaceDigital
  <2>7. ASSUME NEW dir \in {"BUY", "SELL"}, NEW e \in ScaledEdges, PlaceScaled(dir, stake, mid, e)
        PROVE  Priced(ticket')
    BY <2>1, <2>7, ScaledPriced
  <2>8. Priced(ticket')
    BY <2>3, <2>4, <2>5, <2>6, <2>7
  <2> QED BY <1>1, <2>8 DEF BuyTicket, TicketTyped
<1>2. CASE CloseTicket
  BY <1>2 DEF CloseTicket, TicketTyped
<1>3. CASE (\E e \in PassEdges : RedeemPass(e)) \/ PassEnds
  BY <1>3 DEF RedeemPass, PassEnds, TicketTyped
<1>4. CASE UNCHANGED ticketVars
  BY <1>4 DEF ticketVars, TicketTyped
<1> QED BY <1>1, <1>2, <1>3, <1>4 DEF TicketNext

(* TradingPass *)

CodesTyped == codes \in [Codes -> CodeRecords] /\ redeemed \subseteq Codes /\ grant \in Grants
LegsTyped == placing \in Placings /\ legsLeft \in Nat /\ held \subseteq PassRange /\ sold \in SoldAs
QuotesTyped == edgeQuotes \in [QuoteSlots -> QuoteStates] /\ shown \in PassRange
StepsTyped ==
    /\ platform \in ScaledEdges
    /\ steps \in 0..MaxEdgeSteps /\ placements \in 0..MaxPlacements /\ lostQuotes \in 0..MaxLostQuotes

\* The records are made and changed within their sets.
LEMMA CodeChanged ==
  ASSUME NEW r \in CodeRecords, NEW b \in BOOLEAN, NEW n \in Nat
  PROVE  /\ [r EXCEPT !.active = b] \in CodeRecords /\ [r EXCEPT !.room = n] \in CodeRecords
         /\ r.edge \in Rates /\ r.hours \in GrantHours /\ r.room \in Nat
BY DEF CodeRecords

\* What a redeemed code grants.
LEMMA GrantMade ==
  ASSUME NEW e \in Rates, NEW h \in GrantHours
  PROVE  [edge |-> e, left |-> h] \in Grants
BY DEF Grants

\* What a position was sold at.
LEMMA SoldMade ==
  ASSUME NEW k \in {"none", "SCALED", "DIGITAL"}, NEW e \in Rates
  PROVE  [kind |-> k, edge |-> e] \in SoldAs
BY DEF SoldAs

\* A placement that goes on, and the pass it reads.
LEMMA PlacingChanged ==
  ASSUME NEW r \in Placings, NEW b \in BOOLEAN
  PROVE  [r EXCEPT !.on = b] \in Placings /\ r.pass \in PassRange
BY DEF Placings

\* The type in four parts: the codes and the grant, the placements, the quotes and the counts.
LEMMA PassTypeIs == PassTypeOK <=> CodesTyped /\ LegsTyped /\ QuotesTyped /\ StepsTyped
BY Zenon DEF PassTypeOK, CodesTyped, LegsTyped, QuotesTyped, StepsTyped

\* A pass is an edge of at most a fifth, or none.
LEMMA PassTyped ==
  ASSUME NEW g \in Grants
  PROVE  PassOf(g) \in PassRange
<1>1. g.edge \in Rates
  BY DEF Grants
<1> QED BY <1>1 DEF PassOf, PassRange

\* The codes and what is granted from them.
LEMMA CodeStepTyped ==
  ASSUME CodesTyped, LegsTyped, NEW c \in Codes,
         \/ DisableCode(c) \/ RedeemCode(c)
         \/ \E e \in CodeEdges, h \in CodeHours, n \in CodeLimits : CreateCode(c, e, h, n)
  PROVE  CodesTyped' /\ held' \subseteq PassRange
<1>0. codes[c] \in CodeRecords /\ held \subseteq PassRange
  BY DEF CodesTyped, LegsTyped
<1>1. CASE DisableCode(c)
  <2>1. [codes[c] EXCEPT !.active = FALSE] \in CodeRecords
    BY <1>0, CodeChanged
  <2>2. codes' = [codes EXCEPT ![c] = [codes[c] EXCEPT !.active = FALSE]]
    BY <1>1 DEF DisableCode
  <2>3. codes' \in [Codes -> CodeRecords]
    BY <2>1, <2>2 DEF CodesTyped
  <2> QED BY <1>0, <1>1, <2>3 DEF DisableCode, CodesTyped
<1>2. ASSUME NEW e \in CodeEdges, NEW h \in CodeHours, NEW n \in CodeLimits, CreateCode(c, e, h, n)
      PROVE  CodesTyped' /\ held' \subseteq PassRange
  <2> DEFINE code == [edge |-> e, hours |-> h, room |-> n, active |-> TRUE, made |-> TRUE]
  <2>1. code \in CodeRecords
    <3>1. e \in Rates /\ h \in GrantHours /\ n \in Nat
      BY <1>2, PassAssumption DEF CreateCode, Rates, GrantHours
    <3> QED BY <3>1 DEF CodeRecords
  <2>2. codes' = [codes EXCEPT ![c] = code]
    BY <1>2 DEF CreateCode
  <2> HIDE DEF code
  <2>3. codes' \in [Codes -> CodeRecords]
    BY <2>1, <2>2 DEF CodesTyped
  <2> QED BY <1>0, <1>2, <2>3 DEF CreateCode, CodesTyped
<1>3. CASE RedeemCode(c)
  <2>1. codes[c].room - 1 \in Nat
    <3>1. codes[c].room \in Nat
      BY <1>0, CodeChanged
    <3> QED BY <1>3, <3>1 DEF RedeemCode
  <2>2. [codes[c] EXCEPT !.room = codes[c].room - 1] \in CodeRecords
    BY <1>0, <2>1, CodeChanged
  <2>3. codes' = [codes EXCEPT ![c] = [codes[c] EXCEPT !.room = codes[c].room - 1]]
    BY <1>3 DEF RedeemCode
  <2>4. codes' \in [Codes -> CodeRecords]
    BY <2>2, <2>3 DEF CodesTyped
  <2>5. grant' \in Grants
    <3>1. codes[c].edge \in Rates /\ codes[c].hours \in GrantHours
      BY <1>0, CodeChanged
    <3>2. [edge |-> codes[c].edge, left |-> codes[c].hours] \in Grants
      BY <3>1, GrantMade
    <3> QED BY <1>3, <3>2 DEF RedeemCode
  <2>6. held' \subseteq PassRange
    BY <1>0, <1>3, <2>5, PassTyped DEF RedeemCode
  <2> QED BY <1>3, <2>4, <2>5, <2>6 DEF RedeemCode, CodesTyped
<1> QED BY <1>1, <1>2, <1>3

\* An hour of a pass that passes.
LEMMA HourTyped ==
  ASSUME CodesTyped, LegsTyped, HourPasses
  PROVE  CodesTyped' /\ held' \subseteq PassRange
<1>1. grant \in Grants /\ grant.left > 0 /\ held \subseteq PassRange
  BY DEF CodesTyped, LegsTyped, HourPasses
<1>2. [grant EXCEPT !.left = grant.left - 1] \in Grants
  <2>1. grant.left - 1 \in GrantHours
    BY <1>1 DEF Grants, GrantHours
  <2> QED BY <1>1, <2>1 DEF Grants
<1>3. grant' \in Grants
  BY <1>2 DEF HourPasses
<1>4. held' \subseteq PassRange
  BY <1>1, <1>3, PassTyped DEF HourPasses
<1> QED BY <1>3, <1>4 DEF HourPasses, CodesTyped

\* What a placement carries, and what it is sold as.
LEMMA LegStepTyped ==
  ASSUME CodesTyped, LegsTyped, StepsTyped,
         \/ NextLeg \/ NextLegUnread \/ PlacementRefused
         \/ \E legs \in {1, RunLegs} : AskPlace(legs)
         \/ \E kind \in {"SCALED", "DIGITAL"} : Price(kind)
  PROVE  LegsTyped'
<1>0. /\ Pass \in PassRange /\ NoPass \in PassRange /\ RunLegs \in Nat \ {0}
      /\ placing \in Placings /\ legsLeft \in Nat /\ held \subseteq PassRange /\ sold \in SoldAs
  BY PassTyped, PassAssumption DEF CodesTyped, LegsTyped, Pass, PassRange
<1>1. NotPlacing \in Placings
  BY <1>0 DEF NotPlacing, Placings
<1>2. ASSUME NEW p \in PassRange, NEW read \in BOOLEAN, NEW leg \in BOOLEAN
      PROVE  [pass |-> p, read |-> read, leg |-> leg, on |-> TRUE] \in Placings
  BY <1>2 DEF Placings
<1>3. ASSUME NEW leg \in BOOLEAN, NEW left \in Nat, Begins(leg, left), UNCHANGED sold PROVE LegsTyped'
  <2>1. placing' \in Placings
    BY <1>0, <1>2, <1>3 DEF Begins
  <2> QED BY <1>0, <1>3, <2>1 DEF Begins, LegsTyped
<1>4. CASE NextLeg
  <2>1. legsLeft - 1 \in Nat
    BY <1>0, <1>4 DEF NextLeg
  <2>2. Begins(TRUE, legsLeft - 1) /\ UNCHANGED sold
    BY <1>4 DEF NextLeg
  <2> QED BY <1>3, <2>1, <2>2
<1>5. CASE NextLegUnread
  <2>1. placing' \in Placings
    BY <1>0, <1>2, <1>5 DEF NextLegUnread
  <2> QED BY <1>0, <1>5, <2>1 DEF NextLegUnread, LegsTyped
<1>6. CASE PlacementRefused
  BY <1>0, <1>1, <1>6 DEF PlacementRefused, LegsTyped
<1>7. ASSUME NEW legs \in {1, RunLegs}, AskPlace(legs) PROVE LegsTyped'
  <2>1. (legs > 1) \in BOOLEAN /\ legs - 1 \in Nat
    BY <1>0
  <2> QED BY <1>3, <1>7, <2>1 DEF AskPlace
<1>8. ASSUME NEW kind \in {"SCALED", "DIGITAL"}, Price(kind) PROVE LegsTyped'
  <2>1. platform \in Rates /\ placing.pass \in PassRange
    <3>1. platform \in Rates
      BY TicketAssumption DEF StepsTyped, Rates
    <3>2. placing.pass \in PassRange
      BY <1>0, PlacingChanged
    <3> QED BY <3>1, <3>2
  <2>2. EdgeWith(placing.pass) \in Rates
    BY <2>1, EdgeInRange DEF PassRange, NoPass, Rates
  <2>3. ScaledEdgeWith(placing.pass, platform) \in Rates
    BY <2>1 DEF ScaledEdgeWith, Rates
  <2>4. sold' \in SoldAs
    <3> DEFINE e == IF kind = "SCALED" THEN ScaledEdgeWith(placing.pass, platform)
                    ELSE EdgeWith(placing.pass)
    <3>1. e \in Rates
      BY <2>2, <2>3
    <3>2. sold' = [kind |-> kind, edge |-> e]
      BY <1>8 DEF Price
    <3>3. kind \in {"none", "SCALED", "DIGITAL"}
      OBVIOUS
    <3> HIDE DEF e
    <3> QED BY <3>1, <3>2, <3>3, SoldMade
  <2>5. [placing EXCEPT !.on = FALSE] \in Placings
    BY <1>0, PlacingChanged
  <2>6. placing' \in Placings
    BY <1>1, <1>8, <2>5 DEF Price
  <2> QED BY <1>0, <1>8, <2>4, <2>6 DEF Price, LegsTyped
<1> QED BY <1>4, <1>5, <1>6, <1>7, <1>8

\* What the screen asks for and shows.
LEMMA QuoteStepTyped ==
  ASSUME CodesTyped, QuotesTyped, StepsTyped, NEW i \in QuoteSlots, QuoteStep(i)
  PROVE  QuotesTyped' /\ lostQuotes' \in 0..MaxLostQuotes
<1>0. /\ edgeQuotes \in [QuoteSlots -> QuoteStates] /\ shown \in PassRange
      /\ lostQuotes \in 0..MaxLostQuotes /\ MaxLostQuotes \in Nat
      /\ IdleQuote \in QuoteStates /\ SentQuote \in QuoteStates
  BY PassAssumption DEF QuotesTyped, StepsTyped, QuoteStates
<1>1. CASE AskQuote(i)
  BY <1>0, <1>1 DEF AskQuote, QuotesTyped
<1>2. CASE QuoteExec(i)
  <2>1. Pass \in Int
    BY PassTyped DEF CodesTyped, Pass, PassRange, NoPass, Rates
  <2>2. EdgeWith(Pass) \in QuoteStates
    BY <2>1, EdgeInRange DEF QuoteStates, Rates
  <2> QED BY <1>0, <1>2, <2>2 DEF QuoteExec, QuotesTyped
<1>3. CASE EdgeQuoteArrives(i)
  <2>1. edgeQuotes[i] \in PassRange
    BY <1>0, <1>3 DEF EdgeQuoteArrives, QuoteStates, PassRange, IdleQuote, SentQuote, Rates
  <2> QED BY <1>0, <1>3, <2>1 DEF EdgeQuoteArrives, QuotesTyped
<1>4. CASE EdgeQuoteFails(i)
  <2>1. lostQuotes' \in 0..MaxLostQuotes
    BY <1>0, <1>4 DEF EdgeQuoteFails
  <2> QED BY <1>0, <1>4, <2>1 DEF EdgeQuoteFails, QuotesTyped
<1> QED BY <1>1, <1>2, <1>3, <1>4 DEF QuoteStep

\* Every step of a pass, a placement or a quote keeps the types.
LEMMA PassStepTyped ==
  ASSUME PassTypeOK, [PassNext]_passVars
  PROVE  PassTypeOK'
<1>0. CodesTyped /\ LegsTyped /\ QuotesTyped /\ StepsTyped
  BY PassTypeIs
<1>1. SUFFICES CodesTyped' /\ LegsTyped' /\ QuotesTyped' /\ StepsTyped'
  BY Zenon DEF PassTypeOK, CodesTyped, LegsTyped, QuotesTyped, StepsTyped
<1>2. ASSUME UNCHANGED <<codes, redeemed, grant>> PROVE CodesTyped'
  BY <1>0, <1>2 DEF CodesTyped
<1>3. ASSUME UNCHANGED <<placing, legsLeft, sold>>, held' \subseteq PassRange PROVE LegsTyped'
  BY <1>0, <1>3 DEF LegsTyped
<1>4. ASSUME UNCHANGED <<edgeQuotes, shown>> PROVE QuotesTyped'
  BY <1>0, <1>4 DEF QuotesTyped
<1>5. ASSUME UNCHANGED <<platform, steps, placements, lostQuotes>> PROVE StepsTyped'
  BY <1>0, <1>5 DEF StepsTyped
<1>6. held \subseteq PassRange /\ MaxEdgeSteps \in Nat /\ MaxPlacements \in Nat
  BY <1>0, PassAssumption DEF LegsTyped
<1>7. CASE UNCHANGED passVars
  BY <1>2, <1>3, <1>4, <1>5, <1>6, <1>7 DEF passVars
<1>8. ASSUME NEW c \in Codes, NEW e \in CodeEdges, NEW h \in CodeHours, NEW n \in CodeLimits,
             CreateCode(c, e, h, n)
      PROVE  CodesTyped' /\ LegsTyped' /\ QuotesTyped' /\ StepsTyped'
  <2>1. CodesTyped' /\ held' \subseteq PassRange
    BY <1>0, <1>8, CodeStepTyped
  <2> QED BY <1>3, <1>4, <1>5, <1>8, <2>1 DEF CreateCode
<1>9. ASSUME NEW c \in Codes, DisableCode(c) \/ RedeemCode(c)
      PROVE  CodesTyped' /\ LegsTyped' /\ QuotesTyped' /\ StepsTyped'
  <2>1. CodesTyped' /\ held' \subseteq PassRange
    BY <1>0, <1>9, CodeStepTyped
  <2> QED BY <1>3, <1>4, <1>5, <1>9, <2>1 DEF DisableCode, RedeemCode
<1>10. CASE HourPasses
  <2>1. CodesTyped' /\ held' \subseteq PassRange
    BY <1>0, <1>10, HourTyped
  <2> QED BY <1>3, <1>4, <1>5, <1>10, <2>1 DEF HourPasses
<1>11. CASE NextLeg \/ NextLegUnread \/ PlacementRefused
  <2>1. LegsTyped'
    BY <1>0, <1>11, LegStepTyped
  <2> QED BY <1>2, <1>4, <1>5, <1>11, <2>1 DEF NextLeg, NextLegUnread, PlacementRefused
<1>12. ASSUME NEW kind \in {"SCALED", "DIGITAL"}, Price(kind)
       PROVE  CodesTyped' /\ LegsTyped' /\ QuotesTyped' /\ StepsTyped'
  <2>1. LegsTyped'
    BY <1>0, <1>12, LegStepTyped
  <2> QED BY <1>2, <1>4, <1>5, <1>12, <2>1 DEF Price
<1>13. ASSUME NEW legs \in {1, RunLegs}, AskPlace(legs)
       PROVE  CodesTyped' /\ LegsTyped' /\ QuotesTyped' /\ StepsTyped'
  <2>1. LegsTyped'
    BY <1>0, <1>13, LegStepTyped
  <2>2. StepsTyped'
    BY <1>0, <1>6, <1>13 DEF AskPlace, StepsTyped
  <2> QED BY <1>2, <1>4, <1>13, <2>1, <2>2 DEF AskPlace
<1>14. ASSUME NEW e \in ScaledEdges, EdgeMoves(e)
       PROVE  CodesTyped' /\ LegsTyped' /\ QuotesTyped' /\ StepsTyped'
  <2>1. StepsTyped'
    BY <1>0, <1>6, <1>14 DEF EdgeMoves, StepsTyped
  <2> QED BY <1>2, <1>3, <1>4, <1>6, <1>14, <2>1 DEF EdgeMoves
<1>15. ASSUME NEW i \in QuoteSlots, QuoteStep(i)
       PROVE  CodesTyped' /\ LegsTyped' /\ QuotesTyped' /\ StepsTyped'
  <2>1. QuotesTyped' /\ lostQuotes' \in 0..MaxLostQuotes
    BY <1>0, <1>15, QuoteStepTyped
  <2>2. UNCHANGED <<codes, redeemed, grant, placing, legsLeft, held, sold, platform, steps, placements>>
    BY <1>15 DEF QuoteStep, AskQuote, QuoteExec, EdgeQuoteArrives, EdgeQuoteFails
  <2>3. StepsTyped'
    BY <1>0, <2>1, <2>2 DEF StepsTyped
  <2> QED BY <1>2, <1>3, <1>6, <2>1, <2>2, <2>3
<1> QED
  BY <1>7, <1>8, <1>9, <1>10, <1>11, <1>12, <1>13, <1>14, <1>15 DEF PassNext

\* It starts with no code made, no grant and no placement.
LEMMA PassStarts == PassInit => PassTypeOK
<1> SUFFICES ASSUME PassInit PROVE PassTypeOK
  OBVIOUS
<1>1. /\ 0 \in 0..MaxEdgeSteps /\ 0 \in 0..MaxPlacements /\ 0 \in 0..MaxLostQuotes
      /\ NoPass \in PassRange /\ IdleQuote \in QuoteStates
  BY PassAssumption DEF PassRange, QuoteStates
<1>2. NoCode \in CodeRecords /\ [edge |-> 0, left |-> 0] \in Grants
  <2>1. 0 \in Rates /\ 0 \in GrantHours
    BY DEF Rates, GrantHours
  <2> QED BY <2>1 DEF NoCode, CodeRecords, Grants
<1>3. NotPlacing \in Placings /\ NotSold \in SoldAs
  <2>1. 0 \in Rates
    BY DEF Rates
  <2> QED BY <1>1, <2>1 DEF NotPlacing, Placings, NotSold, SoldAs
<1>4. CodesTyped
  BY <1>2 DEF PassInit, CodesTyped
<1>5. LegsTyped
  BY <1>3 DEF PassInit, LegsTyped
<1>6. QuotesTyped /\ StepsTyped
  BY <1>1 DEF PassInit, QuotesTyped, StepsTyped
<1> QED BY <1>4, <1>5, <1>6, PassTypeIs

(* ShadowFeed *)

LinkTyped ==
    /\ shadowPhase \in {"new", "following", "stopped"} /\ reconnect \in BOOLEAN
    /\ socket \in {"none", "connecting", "open", "closing"}
    /\ link \in {"connecting", "open", "closed"}

\* A position that is open has a direction and an entry to reckon its profit by.
Entered(pos) ==
    /\ pos.status \in {"NONE", "OPEN", "CLOSED"}
    /\ pos.status = "OPEN" => pos.dir \in {"BUY", "SELL"} /\ pos.entry \in Nat \ {0}

ShadowTyped ==
    /\ ShadowInv /\ LinkTyped /\ shadowCash \in Nat
    /\ \A i \in ShadowIds : Entered(shadows[i])

\* With what the shadow keeps, that is its type.
LEMMA ShadowTypedMeans == ShadowTyped => ShadowTypeOK
BY DEF ShadowTyped, ShadowInv, LinkTyped, Entered, ShadowTypeOK

\* It starts with no link, no tick and no position.
LEMMA ShadowStarts == ShadowInit => ShadowTyped
<1> SUFFICES ASSUME ShadowInit PROVE ShadowTyped
  OBVIOUS
<1>1. ShadowInv
  BY DEF ShadowInit, ShadowInv, OpenShadows, InsideOrLeft, NoShadow
<1>2. shadowCash \in Nat
  BY ShadowAssumption DEF ShadowInit
<1> QED BY <1>1, <1>2 DEF ShadowInit, ShadowTyped, LinkTyped, Entered, NoShadow

\* Where prices are fine enough, an edge never takes the whole of an entry.
LEMMA EnteredAtAPrice ==
  ASSUME NEW p \in Nat \ {0}, NEW m \in Nat \ {0}, NEW rate \in Nat, NEW dir \in {"BUY", "SELL"},
         p * (m * Bps - (m + 1) * rate) >= m * Bps * (m + 1)
  PROVE  ApplySpread(p, dir, m, rate) \in Nat \ {0}
<1> DEFINE a == m * Bps
           n == p * (a + Sign(dir) * rate)
           least == p * (a - (m + 1) * rate)
<1>1. a \in Nat \ {0} /\ Sign(dir) \in {1, -1} /\ a * m \in Nat /\ m * rate \in Nat
  BY DEF Bps, Sign
<1>2. least >= a
  <2>1. a * (m + 1) = a * m + a
    BY <1>1
  <2> HIDE DEF a
  <2> QED BY <1>1, <2>1 DEF a
<1>3. a - (m + 1) * rate <= a + Sign(dir) * rate
  <2>1. (m + 1) * rate = m * rate + rate
    OBVIOUS
  <2> HIDE DEF a
  <2> QED BY <1>1, <2>1
<1>4. n \in Int /\ least \in Int /\ least <= n
  <2>1. a - (m + 1) * rate \in Int /\ a + Sign(dir) * rate \in Int
    BY <1>1
  <2>2. \A x, y \in Int : x <= y => p * x <= p * y
    OBVIOUS
  <2> QED BY <1>3, <2>1, <2>2
<1> HIDE DEF a, n, least
<1>5. 2 * n + a \in Int /\ 2 * a \in Nat \ {0} /\ 2 * n + a >= 1 * (2 * a)
  BY <1>1, <1>2, <1>4
<1>6. (2 * n + a) \div (2 * a) \in Int /\ (2 * n + a) \div (2 * a) >= 1
  BY <1>5, DivTyped, DivBound
<1>7. ApplySpread(p, dir, m, rate) = (2 * n + a) \div (2 * a)
  BY DEF ApplySpread, RoundHalfUp, n, a
<1> QED BY <1>6, <1>7

\* A position that is closed pays back what is left of its stake.
LEMMA PaysBack ==
  ASSUME ShadowTyped, NEW i \in OpenShadows, NEW at \in Nat
  PROVE  100 * ShadowStake + ProfitAt(i, at) \in Nat
<1> DEFINE entry == shadows[i].entry
           n == 100 * ShadowStake * ShadowMultiplier * Sign(shadows[i].dir) * (at - entry)
           lo == -100 * ShadowStake
           hi == 100 * ShadowStake * ShadowMost
<1>1. shadows[i].dir \in {"BUY", "SELL"} /\ entry \in Nat \ {0}
  BY DEF ShadowTyped, Entered, OpenShadows
<1>2. lo \in Int /\ hi \in Int /\ lo <= hi
  BY ShadowAssumption
<1>3. n \in Int
  <2>1. Sign(shadows[i].dir) \in Int
    BY DEF Sign
  <2>2. 100 * ShadowStake * ShadowMultiplier \in Int
    BY ShadowAssumption
  <2>3. 100 * ShadowStake * ShadowMultiplier * Sign(shadows[i].dir) \in Int
    BY <2>1, <2>2
  <2>4. at - entry \in Int
    BY <1>1
  <2> HIDE DEF entry
  <2> QED BY <2>3, <2>4
<1>4. ProfitAt(i, at) = Clamp(RoundHalfUp(n, entry), lo, hi)
  BY DEF ProfitAt
<1> HIDE DEF n, entry, hi
<1>5. RoundHalfUp(n, entry) \in Int
  BY <1>1, <1>3, RoundHalfUpTyped
<1>6. ProfitAt(i, at) \in lo .. hi
  BY <1>2, <1>4, <1>5, ClampBounds
<1> QED BY <1>2, <1>6, ShadowAssumption

\* So the balance is never overdrawn by closing.
LEMMA SettledTyped ==
  ASSUME ShadowTyped, NEW ids \in SUBSET OpenShadows, NEW at \in Nat,
         shadowCash' = shadowCash + SumFunction([i \in ids |-> 100 * ShadowStake + ProfitAt(i, at)])
  PROVE  shadowCash' \in Nat
<1> DEFINE f == [i \in ids |-> 100 * ShadowStake + ProfitAt(i, at)]
<1>1. IsFiniteSet(ids)
  <2>1. ids \subseteq ShadowIds
    BY DEF OpenShadows
  <2> QED BY <2>1, ShadowAssumption, FS_Subset
<1>2. \A i \in ids : f[i] \in Nat
  BY PaysBack
<1>3. SumFunction(f) = SumFunctionOnSet(f, ids)
  BY DEF SumFunction
<1>4. shadowCash' = shadowCash + SumFunction(f) /\ shadowCash \in Nat
  BY DEF ShadowTyped
<1> HIDE DEF f
<1>5. SumFunction(f) \in Nat
  BY <1>1, <1>2, <1>3, SumNat
<1> QED BY <1>4, <1>5

\* Every step of the shadow keeps its types.
LEMMA ShadowStepTyped ==
  ASSUME FineSteps, ShadowTyped, [ShadowNext]_shadowVars
  PROVE  ShadowTyped'
<1>1. ShadowInv'
  BY ShadowAssumption, ShadowStep DEF ShadowTyped
<1>2. CASE StartShadow \/ StopShadow \/ ReconnectFires \/ SocketOpens \/ SocketErrs \/ SocketCloses
  <2>1. UNCHANGED <<shadows, shadowCash>>
    BY <1>2 DEF StartShadow, StopShadow, ReconnectFires, SocketOpens, SocketErrs, SocketCloses, paperVars
  <2>2. LinkTyped'
    <3>1. CASE StartShadow BY <3>1 DEF StartShadow, Connect, LinkTyped, ShadowTyped
    <3>2. CASE StopShadow BY <3>2 DEF StopShadow, LinkTyped, ShadowTyped
    <3>3. CASE ReconnectFires BY <3>3 DEF ReconnectFires, Connect, LinkTyped, ShadowTyped
    <3>4. CASE SocketOpens BY <3>4 DEF SocketOpens, LinkTyped, ShadowTyped
    <3>5. CASE SocketErrs BY <3>5 DEF SocketErrs, LinkTyped, ShadowTyped
    <3>6. CASE SocketCloses
      <4>1. reconnect' \in BOOLEAN
        BY <3>6 DEF SocketCloses, LinkTyped, ShadowTyped
      <4> QED BY <3>6, <4>1 DEF SocketCloses, LinkTyped, ShadowTyped
    <3> QED BY <1>2, <3>1, <3>2, <3>3, <3>4, <3>5, <3>6
  <2> QED BY <1>1, <2>1, <2>2 DEF ShadowTyped, Entered
<1>3. ASSUME NEW at \in ShadowPrices, TickArrives(at) PROVE ShadowTyped'
  <2>1. ClosedBy(at) \in SUBSET OpenShadows /\ at \in Nat
    BY ShadowAssumption DEF ClosedBy
  <2>2. shadowCash' = shadowCash + SumFunction([i \in ClosedBy(at) |-> 100 * ShadowStake + ProfitAt(i, at)])
    BY <1>3 DEF TickArrives, Settle
  <2>3. shadowCash' \in Nat
    BY <2>1, <2>2, SettledTyped
  <2>4. \A i \in ShadowIds : Entered(shadows[i])'
    BY <1>3 DEF TickArrives, Settle, ShadowTyped, Entered
  <2>5. LinkTyped'
    BY <1>3 DEF TickArrives, ShadowTyped, LinkTyped, linkVars
  <2> QED BY <1>1, <2>3, <2>4, <2>5 DEF ShadowTyped
<1>4. ASSUME NEW i \in ShadowIds, ExpiryFires(i) PROVE ShadowTyped'
  <2>1. {i} \in SUBSET OpenShadows /\ lastTick \in Nat
    BY <1>4, ShadowAssumption DEF ExpiryFires, ShadowTyped, ShadowInv
  <2>2. shadowCash' = shadowCash + SumFunction([j \in {i} |-> 100 * ShadowStake + ProfitAt(j, lastTick)])
    BY <1>4 DEF ExpiryFires, Settle
  <2>3. shadowCash' \in Nat
    BY <2>1, <2>2, SettledTyped
  <2>4. \A j \in ShadowIds : Entered(shadows[j])'
    BY <1>4 DEF ExpiryFires, Settle, ShadowTyped, Entered
  <2>5. LinkTyped'
    BY <1>4 DEF ExpiryFires, ShadowTyped, LinkTyped, linkVars
  <2> QED BY <1>1, <2>3, <2>4, <2>5 DEF ShadowTyped
<1>5. ASSUME NEW i \in ShadowIds, NEW dir \in {"BUY", "SELL"}, OpenShadow(i, dir) PROVE ShadowTyped'
  <2> DEFINE entry == ApplySpread(lastTick, dir, ShadowMultiplier, ShadowEdge)
             pos == [status |-> "OPEN", dir |-> dir, entry |-> entry,
                     stop |-> StopOut(entry, dir, ShadowMultiplier),
                     target |-> TakeProfit(entry, dir, ShadowMultiplier, ShadowMost)]
  <2>1. /\ shadows' = [shadows EXCEPT ![i] = pos]
        /\ shadowCash' = shadowCash - 100 * ShadowStake /\ 100 * ShadowStake <= shadowCash
        /\ UNCHANGED linkVars /\ lastTick > 0
    BY <1>5 DEF OpenShadow
  <2>2. lastTick \in ShadowPrices /\ lastTick \in Nat \ {0}
    BY <2>1, ShadowAssumption DEF ShadowTyped, ShadowInv
  <2>3. entry \in Nat \ {0}
    BY <2>2, ShadowAssumption, EnteredAtAPrice DEF FineSteps
  <2>4. Entered(pos)
    <3> HIDE DEF entry
    <3> QED BY <2>3 DEF Entered
  <2>5. shadowCash' \in Nat
    BY <2>1, ShadowAssumption DEF ShadowTyped
  <2>6. \A j \in ShadowIds : shadows'[j] = pos \/ shadows'[j] = shadows[j]
    <3> HIDE DEF pos
    <3> QED BY <2>1 DEF ShadowTyped, ShadowInv
  <2> HIDE DEF pos
  <2>7. \A j \in ShadowIds : Entered(shadows'[j])
    BY <2>4, <2>6 DEF ShadowTyped
  <2>8. LinkTyped'
    BY <2>1 DEF ShadowTyped, LinkTyped, linkVars
  <2> QED BY <1>1, <2>5, <2>7, <2>8 DEF ShadowTyped, Entered
<1>6. CASE ResetShadow
  <2>1. shadowCash' \in Nat
    BY <1>6, ShadowAssumption DEF ResetShadow
  <2>2. \A j \in ShadowIds : Entered(shadows[j])'
    BY <1>6 DEF ResetShadow, NoShadow, Entered
  <2>3. LinkTyped'
    BY <1>6 DEF ResetShadow, ShadowTyped, LinkTyped, linkVars
  <2> QED BY <1>1, <2>1, <2>2, <2>3 DEF ShadowTyped
<1>7. CASE UNCHANGED shadowVars
  BY <1>1, <1>7 DEF shadowVars, linkVars, paperVars, ShadowTyped, LinkTyped, Entered
<1> QED BY <1>2, <1>3, <1>4, <1>5, <1>6, <1>7 DEF ShadowNext

(* MarketView *)

MaybeMarket == Markets \cup {NoMarket}
PanelTyped ==
    /\ answered \in BOOLEAN /\ symbol \in Markets /\ symbolRef \in Markets /\ rendered \in Markets
    /\ shownPrice \in MaybeMarket /\ wanted \in MaybeMarket
    /\ quotes \subseteq Markets /\ staleHistories \subseteq Markets /\ chart \subseteq Markets
DigitsKept == digits \in Seq(Markets) /\ Len(digits) <= DigitRoom
TicksComing == inFlight \in Seq(Markets) /\ Len(inFlight) <= MaxInFlight
WireTyped ==
    /\ wire \in {"connecting", "open", "closing", "closed"}
    /\ leaving \in BOOLEAN /\ retry \in BOOLEAN /\ connected \in BOOLEAN
    /\ watching \in MaybeMarket /\ watches \in Seq(Markets)
HubTyped == served \in BOOLEAN /\ isAlive \in BOOLEAN /\ hubWatching \in Markets
ViewTyped == PanelTyped /\ DigitsKept /\ TicksComing /\ WireTyped /\ HubTyped

\* That is the type of the page, of its socket and of the hub's side of it.
LEMMA ViewTypedMeans == ViewTyped => ViewTypeOK
BY DEF ViewTyped, PanelTyped, DigitsKept, TicksComing, WireTyped, HubTyped, MaybeMarket, ViewTypeOK

\* The page starts with the default market, its socket connecting.
LEMMA ViewStarts == ViewInit => ViewTyped
<1> SUFFICES ASSUME ViewInit PROVE ViewTyped
  OBVIOUS
<1>1. /\ DefaultMarket \in Markets /\ DigitRoom \in Nat /\ MaxInFlight \in Nat
      /\ <<>> \in Seq(Markets) /\ Len(<<>>) = 0
  BY ViewAssumption
<1>2. PanelTyped /\ HubTyped
  BY <1>1 DEF ViewInit, PanelTyped, HubTyped, MaybeMarket
<1>3. DigitsKept /\ TicksComing
  BY <1>1 DEF ViewInit, DigitsKept, TicksComing
<1>4. WireTyped
  BY <1>1 DEF ViewInit, WireTyped, MaybeMarket
<1> QED BY <1>2, <1>3, <1>4 DEF ViewTyped

\* A tick is sent while there is room, and the last one of a sequence that is too long goes.
LEMMA TickSent ==
  ASSUME TicksComing, NEW market \in Markets,
         \/ inFlight' = Append(inFlight, market) /\ Len(inFlight) < MaxInFlight
         \/ UNCHANGED inFlight
  PROVE  TicksComing'
<1>1. CASE UNCHANGED inFlight
  BY <1>1 DEF TicksComing
<1>2. CASE inFlight' = Append(inFlight, market) /\ Len(inFlight) < MaxInFlight
  <2>1. /\ Append(inFlight, market) \in Seq(Markets) /\ Len(inFlight) \in Nat
        /\ Len(Append(inFlight, market)) = Len(inFlight) + 1
    BY DEF TicksComing
  <2>2. MaxInFlight \in Nat
    BY ViewAssumption
  <2> QED BY <1>2, <2>1, <2>2 DEF TicksComing
<1> QED BY <1>1, <1>2

\* What is left of the ticks on their way when the first has come.
LEMMA TailTyped ==
  ASSUME NEW q \in Seq(Markets), q # <<>>
  PROVE  Head(q) \in Markets /\ Tail(q) \in Seq(Markets) /\ Len(Tail(q)) = Len(q) - 1 /\ Len(q) \in Nat
OBVIOUS

\* The hub's own steps.
LEMMA HubStepTyped ==
  ASSUME ViewTyped, HubTick \/ HubWatches \/ Heartbeat \/ Pong
  PROVE  ViewTyped'
<1>0. PanelTyped /\ DigitsKept /\ TicksComing /\ WireTyped /\ HubTyped
  BY DEF ViewTyped
<1>1. ASSUME UNCHANGED pageVars PROVE PanelTyped' /\ DigitsKept'
  BY <1>0, <1>1 DEF pageVars, PanelTyped, DigitsKept
<1>2. CASE HubTick
  <2>1. TicksComing'
    BY <1>0, <1>2, TickSent DEF HubTick, HubTyped
  <2>2. WireTyped'
    BY <1>0, <1>2 DEF HubTick, WireTyped
  <2>3. HubTyped'
    BY <1>0, <1>2 DEF HubTick, HubTyped, hubVars
  <2> QED BY <1>1, <1>2, <2>1, <2>2, <2>3 DEF HubTick, ViewTyped
<1>3. CASE HubWatches
  <2>1. Head(watches) \in Markets /\ Tail(watches) \in Seq(Markets)
    BY <1>0, <1>3, TailTyped DEF HubWatches, WireTyped
  <2>2. TicksComing'
    BY <1>0, <1>3, <2>1, TickSent DEF HubWatches, SendPrice
  <2>3. WireTyped'
    BY <1>0, <1>3, <2>1 DEF HubWatches, WireTyped
  <2>4. HubTyped'
    BY <1>0, <1>3, <2>1 DEF HubWatches, HubTyped
  <2> QED BY <1>1, <1>3, <2>2, <2>3, <2>4 DEF HubWatches, ViewTyped
<1>4. CASE Heartbeat \/ Pong
  <2>1. TicksComing' /\ WireTyped'
    BY <1>0, <1>4 DEF Heartbeat, Pong, TicksComing, WireTyped, socketVars
  <2>2. HubTyped'
    BY <1>0, <1>4 DEF Heartbeat, Pong, HubTyped
  <2>3. UNCHANGED pageVars
    BY <1>4 DEF Heartbeat, Pong
  <2> QED BY <1>1, <2>1, <2>2, <2>3 DEF ViewTyped
<1> QED BY <1>2, <1>3, <1>4

\* A client that dials.
LEMMA DialTyped ==
  ASSUME TicksComing, WireTyped, HubTyped, Dial, retry' \in BOOLEAN, UNCHANGED <<watching, connected>>
  PROVE  TicksComing' /\ WireTyped' /\ HubTyped'
<1>1. CASE UNCHANGED <<wire, leaving, watches, inFlight, hubVars>>
  BY <1>1 DEF TicksComing, WireTyped, HubTyped, hubVars
<1>2. CASE /\ wire' = "connecting" /\ leaving' = (leaving \/ wire = "closing")
           /\ watches' = <<>> /\ inFlight' = <<>>
           /\ served' = FALSE /\ isAlive' = TRUE /\ hubWatching' = DefaultMarket
  <2>1. <<>> \in Seq(Markets) /\ Len(<<>>) = 0 /\ MaxInFlight \in Nat /\ DefaultMarket \in Markets
    BY ViewAssumption
  <2>2. TicksComing'
    BY <1>2, <2>1 DEF TicksComing
  <2>3. leaving' \in BOOLEAN
    BY <1>2
  <2>4. WireTyped'
    BY <1>2, <2>1, <2>3 DEF WireTyped
  <2> QED BY <1>2, <2>1, <2>2, <2>4 DEF HubTyped
<1> QED BY <1>1, <1>2 DEF Dial

\* The client's socket.
LEMMA SocketStepTyped ==
  ASSUME ViewTyped, SocketOpen \/ SocketLost \/ SocketGone \/ RetryFires \/ Resume
  PROVE  ViewTyped'
<1>0. PanelTyped /\ DigitsKept /\ TicksComing /\ WireTyped /\ HubTyped
  BY DEF ViewTyped
<1>1. ASSUME UNCHANGED pageVars PROVE PanelTyped' /\ DigitsKept'
  BY <1>0, <1>1 DEF pageVars, PanelTyped, DigitsKept
<1>2. /\ <<>> \in Seq(Markets) /\ Len(<<>>) = 0 /\ MaxInFlight \in Nat \ {0}
      /\ <<DefaultMarket>> \in Seq(Markets) /\ Len(<<DefaultMarket>>) = 1
  BY ViewAssumption
<1>3. CASE SocketOpen
  <2>1. TicksComing'
    BY <1>2, <1>3 DEF SocketOpen, TicksComing
  <2>2. watches' \in Seq(Markets)
    <3>1. CASE watching = NoMarket
      BY <1>2, <1>3, <3>1 DEF SocketOpen
    <3>2. CASE watching # NoMarket
      <4>1. watching \in Markets
        BY <1>0, <3>2 DEF WireTyped, MaybeMarket
      <4>2. <<watching>> \in Seq(Markets)
        BY <4>1
      <4> QED BY <1>3, <3>2, <4>2 DEF SocketOpen
    <3> QED BY <3>1, <3>2
  <2>3. WireTyped'
    BY <1>0, <1>3, <2>2 DEF SocketOpen, WireTyped
  <2>4. HubTyped'
    BY <1>0, <1>3 DEF SocketOpen, HubTyped
  <2> QED BY <1>1, <1>3, <2>1, <2>3, <2>4 DEF SocketOpen, ViewTyped
<1>4. CASE SocketLost
  <2>1. TicksComing'
    BY <1>2, <1>4 DEF SocketLost, TicksComing
  <2>2. WireTyped'
    BY <1>0, <1>2, <1>4 DEF SocketLost, OnClose, WireTyped
  <2>3. HubTyped'
    BY <1>0, <1>4 DEF SocketLost, HubTyped
  <2> QED BY <1>1, <1>4, <2>1, <2>2, <2>3 DEF SocketLost, ViewTyped
<1>5. CASE SocketGone
  <2>1. TicksComing'
    BY <1>0, <1>5 DEF SocketGone, TicksComing
  <2>2. WireTyped'
    BY <1>0, <1>5 DEF SocketGone, OnClose, WireTyped
  <2>3. HubTyped'
    BY <1>0, <1>5 DEF SocketGone, HubTyped, hubVars
  <2> QED BY <1>1, <1>5, <2>1, <2>2, <2>3 DEF SocketGone, ViewTyped
<1>6. CASE RetryFires
  <2>1. TicksComing' /\ WireTyped' /\ HubTyped'
    BY <1>0, <1>6, DialTyped DEF RetryFires
  <2> QED BY <1>1, <1>6, <2>1 DEF RetryFires, ViewTyped
<1>7. CASE Resume
  <2>1. TicksComing' /\ WireTyped' /\ HubTyped'
    BY <1>0, <1>7, DialTyped DEF Resume
  <2> QED BY <1>1, <1>7, <2>1 DEF Resume, ViewTyped
<1> QED BY <1>3, <1>4, <1>5, <1>6, <1>7

\* What is chosen is told to the hub.
LEMMA WatchTyped ==
  ASSUME WireTyped, NEW market \in Markets, Watch(market), UNCHANGED <<wire, leaving, retry, connected>>
  PROVE  WireTyped'
<1>1. watches \in Seq(Markets) /\ Append(watches, market) \in Seq(Markets)
  BY DEF WireTyped
<1>2. watches' \in Seq(Markets)
  BY <1>1 DEF Watch
<1>3. watching' \in MaybeMarket
  BY DEF Watch, MaybeMarket
<1> QED BY <1>2, <1>3 DEF WireTyped

\* What the page does of its own accord.
LEMMA PageStepTyped ==
  ASSUME ViewTyped,
         \/ Bootstrap \/ RenderView \/ HistoryArrives \/ HistoryFails
         \/ \E market \in Markets : Switch(market) \/ QuoteReply(market) \/ CancelledArrives(market)
  PROVE  ViewTyped'
<1>0. PanelTyped /\ DigitsKept /\ TicksComing /\ WireTyped /\ HubTyped
  BY DEF ViewTyped
<1>1. ASSUME UNCHANGED digits PROVE DigitsKept'
  BY <1>0, <1>1 DEF DigitsKept
<1>2. ASSUME UNCHANGED inFlight PROVE TicksComing'
  BY <1>0, <1>2 DEF TicksComing
<1>3. ASSUME UNCHANGED hubVars PROVE HubTyped'
  BY <1>0, <1>3 DEF HubTyped, hubVars
<1>4. ASSUME UNCHANGED <<wire, leaving, retry, watching, connected, watches>> PROVE WireTyped'
  BY <1>0, <1>4 DEF WireTyped
<1>5. Remembered \in Markets
  BY ViewAssumption
<1>6. CASE Bootstrap
  <2>1. PanelTyped'
    BY <1>0, <1>5, <1>6 DEF Bootstrap, PanelTyped, MaybeMarket
  <2>2. WireTyped'
    <3>1. CASE Watch(Remembered)
      BY <1>0, <1>5, <1>6, <3>1, WatchTyped DEF Bootstrap
    <3>2. CASE UNCHANGED <<watching, watches>>
      BY <1>4, <1>6, <3>2 DEF Bootstrap
    <3> QED BY <1>6, <3>1, <3>2 DEF Bootstrap
  <2> QED BY <1>1, <1>2, <1>3, <1>6, <2>1, <2>2 DEF Bootstrap, ViewTyped
<1>7. CASE RenderView
  <2>1. PanelTyped'
    BY <1>0, <1>7 DEF RenderView, PanelTyped, MaybeMarket
  <2> QED BY <1>1, <1>2, <1>3, <1>4, <1>7, <2>1 DEF RenderView, ViewTyped, socketVars
<1>8. CASE HistoryArrives
  <2>1. PanelTyped'
    BY <1>0, <1>8 DEF HistoryArrives, PanelTyped, MaybeMarket
  <2> QED BY <1>1, <1>2, <1>3, <1>4, <1>8, <2>1 DEF HistoryArrives, ViewTyped, socketVars
<1>9. CASE HistoryFails
  <2>1. PanelTyped'
    BY <1>0, <1>9 DEF HistoryFails, PanelTyped, MaybeMarket
  <2> QED BY <1>1, <1>2, <1>3, <1>4, <1>9, <2>1 DEF HistoryFails, ViewTyped, socketVars
<1>10. ASSUME NEW market \in Markets, Switch(market) PROVE ViewTyped'
  <2>1. PanelTyped'
    BY <1>0, <1>10 DEF Switch, PanelTyped, MaybeMarket
  <2>2. DigitsKept'
    <3>1. <<>> \in Seq(Markets) /\ Len(<<>>) = 0 /\ DigitRoom \in Nat
      BY ViewAssumption
    <3> QED BY <1>10, <3>1 DEF Switch, DigitsKept
  <2>3. WireTyped'
    BY <1>0, <1>10, WatchTyped DEF Switch
  <2> QED BY <1>2, <1>3, <1>10, <2>1, <2>2, <2>3 DEF Switch, ViewTyped
<1>11. ASSUME NEW market \in Markets, QuoteReply(market) PROVE ViewTyped'
  <2>1. PanelTyped'
    BY <1>0, <1>11 DEF QuoteReply, PanelTyped, MaybeMarket
  <2> QED BY <1>1, <1>2, <1>3, <1>4, <1>11, <2>1 DEF QuoteReply, ViewTyped, socketVars
<1>12. ASSUME NEW market \in Markets, CancelledArrives(market) PROVE ViewTyped'
  <2>1. PanelTyped'
    BY <1>0, <1>12 DEF CancelledArrives, PanelTyped, MaybeMarket
  <2> QED BY <1>1, <1>2, <1>3, <1>4, <1>12, <2>1 DEF CancelledArrives, ViewTyped, socketVars
<1> QED BY <1>6, <1>7, <1>8, <1>9, <1>10, <1>11, <1>12

\* A tick that is shown.
LEMMA TickShownTyped ==
  ASSUME ViewTyped, TickShown
  PROVE  ViewTyped'
<1>0. PanelTyped /\ DigitsKept /\ TicksComing /\ WireTyped /\ HubTyped
  BY DEF ViewTyped
<1> DEFINE market == Head(inFlight)
           kept == Append(digits, market)
<1>1. /\ market \in Markets /\ Tail(inFlight) \in Seq(Markets)
      /\ Len(Tail(inFlight)) = Len(inFlight) - 1 /\ Len(inFlight) \in Nat
  BY <1>0, TailTyped DEF TickShown, TicksComing
<1>2. /\ digits \in Seq(Markets) /\ Len(digits) \in Nat /\ Len(digits) <= DigitRoom /\ DigitRoom \in Nat
      /\ MaxInFlight \in Nat
  BY <1>0, ViewAssumption DEF DigitsKept
<1> HIDE DEF market
<1>3. kept \in Seq(Markets) /\ Len(kept) = Len(digits) + 1 /\ kept # <<>>
  BY <1>1, <1>2
<1>4. Tail(kept) \in Seq(Markets) /\ Len(Tail(kept)) = Len(kept) - 1
  BY <1>3, TailTyped
<1>5. TicksComing'
  BY <1>0, <1>1, <1>2 DEF TickShown, TicksComing
<1> HIDE DEF kept
<1>6. \/ /\ shownPrice' = market /\ digits' = IF Len(kept) > DigitRoom THEN Tail(kept) ELSE kept
      \/ UNCHANGED <<shownPrice, digits>>
  BY DEF TickShown, market, kept
<1>7. DigitsKept'
  BY <1>0, <1>2, <1>3, <1>4, <1>6 DEF DigitsKept
<1>8. chart' \subseteq chart \cup {market}
  BY DEF TickShown, market
<1>9. PanelTyped'
  BY <1>0, <1>1, <1>6, <1>8 DEF TickShown, PanelTyped, MaybeMarket
<1>10. WireTyped' /\ HubTyped'
  BY <1>0 DEF TickShown, WireTyped, HubTyped, hubVars
<1> QED BY <1>5, <1>7, <1>9, <1>10 DEF ViewTyped

\* Every step of the page, its socket and the hub keeps their types.
LEMMA ViewStepTyped ==
  ASSUME ViewTyped, [ViewNext]_panelVars
  PROVE  ViewTyped'
<1>1. CASE UNCHANGED panelVars
  BY <1>1 DEF panelVars, pageVars, socketVars, hubVars, ViewTyped, PanelTyped, DigitsKept, TicksComing,
              WireTyped, HubTyped
<1>2. CASE HubTick \/ HubWatches \/ Heartbeat \/ Pong
  BY <1>2, HubStepTyped
<1>3. CASE SocketOpen \/ SocketLost \/ SocketGone \/ RetryFires \/ Resume
  BY <1>3, SocketStepTyped
<1>4. CASE TickShown
  BY <1>4, TickShownTyped
<1>5. CASE \/ Bootstrap \/ RenderView \/ HistoryArrives \/ HistoryFails
           \/ \E market \in Markets : Switch(market) \/ QuoteReply(market) \/ CancelledArrives(market)
  BY <1>5, PageStepTyped
<1> QED BY <1>1, <1>2, <1>3, <1>4, <1>5 DEF ViewNext

(* OfflineShell *)

\* What the cache may hold of a file of fixed name.
Kept(url) == {Missing} \cup {Content(url, b) : b \in Builds}
Deployed == instances \subseteq 1..deployed /\ instances \subseteq Builds /\ deployed \in Builds \ {0}
Cached ==
    /\ DOMAIN shell = {Root} \cup Precached /\ DOMAIN assets = Files
    /\ \A url \in Precached : shell[url] \in Kept(url)
ShellTyped == Deployed /\ Cached /\ installed \in BOOLEAN /\ received.ok \in BOOLEAN

\* An answer says yes or no, and what says yes is the file of a build that answers.
LEMMA AnswerTyped ==
  ASSUME NEW url, NEW answer \in AnswersFor(url)
  PROVE  /\ answer.ok \in BOOLEAN
         /\ answer.ok => \E b \in instances : answer.body = Content(url, b)
<1>1. CASE \E b \in instances : answer = [body |-> Content(Root, b), ok |-> FALSE]
  BY <1>1
<1>2. CASE \E b \in instances : answer = [body |-> Content(url, b), ok |-> TRUE]
  BY <1>2
<1>3. CASE answer = [body |-> [of |-> "gateway", build |-> 0], ok |-> FALSE]
  BY <1>3
<1> QED BY <1>1, <1>2, <1>3 DEF AnswersFor

\* What an instance gives is the file of a build, or none.
LEMMA GivesTyped ==
  ASSUME NEW url, NEW body, NEW ok \in BOOLEAN, Gives(url, body, ok)
  PROVE  received'.ok \in BOOLEAN
BY DEF Gives

\* What is kept of an answer is the file of a build, or none.
LEMMA KeepsTyped ==
  ASSUME Cached, NEW url, NEW answer, Keeps(url, answer)
  PROVE  DOMAIN assets' = Files
BY DEF Cached, Keeps

\* Every deployment, load and request keeps the types.
LEMMA ShellStepTyped ==
  ASSUME ShellTyped, [ShellNext]_shellVars
  PROVE  ShellTyped'
<1>0. Deployed /\ Cached /\ installed \in BOOLEAN /\ received.ok \in BOOLEAN
  BY DEF ShellTyped
<1>1. SUFFICES Deployed' /\ Cached' /\ installed' \in BOOLEAN /\ received'.ok \in BOOLEAN
  BY DEF ShellTyped
<1>2. ASSUME UNCHANGED <<instances, deployed>> PROVE Deployed'
  BY <1>0, <1>2 DEF Deployed
<1>3. ASSUME UNCHANGED <<shell, assets>> PROVE Cached'
  BY <1>0, <1>3 DEF Cached
<1>4. ASSUME UNCHANGED shell, DOMAIN assets' = Files PROVE Cached'
  BY <1>0, <1>4 DEF Cached
<1>5. CASE UNCHANGED shellVars
  BY <1>0, <1>2, <1>3, <1>5 DEF shellVars
<1>6. CASE InstallWorker
  <2>1. Cached'
    <3>1. CASE UNCHANGED shell
      BY <1>3, <1>6, <3>1 DEF InstallWorker
    <3>2. ASSUME NEW answer \in [{Root} \cup Precached -> UNION {AnswersFor(url) : url \in {Root} \cup Precached}],
                 \A url \in DOMAIN answer : answer[url] \in AnswersFor(url) /\ answer[url].ok,
                 shell' = [url \in DOMAIN answer |-> answer[url].body]
          PROVE  Cached'
      <4>1. DOMAIN answer = {Root} \cup Precached /\ DOMAIN shell' = {Root} \cup Precached
        BY <3>2
      <4>2. ASSUME NEW url \in Precached PROVE shell'[url] \in Kept(url)
        <5>1. answer[url] \in AnswersFor(url) /\ answer[url].ok /\ shell'[url] = answer[url].body
          BY <3>2, <4>1
        <5>2. PICK b \in instances : answer[url].body = Content(url, b)
          BY <5>1, AnswerTyped
        <5> QED BY <1>0, <5>1, <5>2 DEF Deployed, Kept
      <4> QED BY <1>0, <1>6, <4>1, <4>2 DEF InstallWorker, Cached, Kept
    <3> QED BY <1>6, <3>1, <3>2 DEF InstallWorker
  <2> QED BY <1>0, <1>2, <1>6, <2>1 DEF InstallWorker
<1>7. CASE NavigateOnline
  <2>1. PICK answer \in AnswersFor(Root) : Gives(Root, answer.body, answer.ok)
    BY <1>7 DEF NavigateOnline
  <2>2. received'.ok \in BOOLEAN
    BY <2>1, AnswerTyped, GivesTyped
  <2> QED BY <1>0, <1>2, <1>3, <1>7, <2>2 DEF NavigateOnline
<1>8. CASE PagePut
  <2>1. PICK page \in puts : shell' = [shell EXCEPT ![Root] = page] /\ UNCHANGED assets
    BY <1>8 DEF PagePut
  <2>2. \A url \in Precached : shell'[url] = shell[url]
    BY <1>0, <2>1, ShellAssumption DEF Cached, Files
  <2>3. Cached'
    BY <1>0, <2>1, <2>2 DEF Cached, Kept
  <2> QED BY <1>0, <1>2, <1>8, <2>3 DEF PagePut
<1>9. CASE NavigateOffline
  <2>1. (Match(Root) # Missing) \in BOOLEAN
    OBVIOUS
  <2>2. received'.ok \in BOOLEAN
    BY <1>9, <2>1, GivesTyped DEF NavigateOffline
  <2> QED BY <1>0, <1>2, <1>3, <1>9, <2>2 DEF NavigateOffline
<1>10. ASSUME NEW url \in Hashes, LoadHashed(url)
       PROVE  Deployed' /\ Cached' /\ installed' \in BOOLEAN /\ received'.ok \in BOOLEAN
  <2>1. DOMAIN assets' = Files /\ received'.ok \in BOOLEAN
    <3>1. CASE Gives(url, Match(url), TRUE) /\ UNCHANGED assets
      BY <1>0, <3>1, GivesTyped DEF Cached
    <3>2. ASSUME NEW answer \in AnswersFor(url), Gives(url, answer.body, answer.ok), Keeps(url, answer)
          PROVE  DOMAIN assets' = Files /\ received'.ok \in BOOLEAN
      BY <1>0, <3>2, AnswerTyped, GivesTyped, KeepsTyped
    <3>3. CASE Gives(url, Missing, FALSE) /\ UNCHANGED assets
      BY <1>0, <3>3, GivesTyped DEF Cached
    <3> QED BY <1>10, <3>1, <3>2, <3>3 DEF LoadHashed
  <2> QED BY <1>0, <1>2, <1>4, <1>10, <2>1 DEF LoadHashed
<1>11. ASSUME NEW url \in Precached \cup Runtime, LoadStatic(url)
       PROVE  Deployed' /\ Cached' /\ installed' \in BOOLEAN /\ received'.ok \in BOOLEAN
  <2>1. PICK answer \in AnswersFor(url) :
          /\ IF Match(url) # Missing THEN Gives(url, Match(url), TRUE) ELSE Gives(url, answer.body, answer.ok)
          /\ Keeps(url, answer)
    BY <1>11 DEF LoadStatic
  <2>2. received'.ok \in BOOLEAN
    BY <2>1, AnswerTyped, GivesTyped
  <2>3. DOMAIN assets' = Files
    BY <1>0, <2>1, KeepsTyped
  <2> QED BY <1>0, <1>2, <1>4, <1>11, <2>2, <2>3 DEF LoadStatic
<1>12. ASSUME NEW url \in Precached \cup Runtime, LoadStaticOffline(url)
       PROVE  Deployed' /\ Cached' /\ installed' \in BOOLEAN /\ received'.ok \in BOOLEAN
  <2>1. received'.ok \in BOOLEAN
    BY <1>12, GivesTyped DEF LoadStaticOffline
  <2> QED BY <1>0, <1>2, <1>3, <1>12, <2>1 DEF LoadStaticOffline
<1>13. CASE Deploy
  <2>1. deployed \in Nat /\ deployed + 1 \in Builds
    BY <1>0, <1>13, ShellAssumption DEF Deploy, Deployed
  <2>2. Deployed'
    BY <1>0, <1>13, <2>1 DEF Deploy, Deployed
  <2> QED BY <1>0, <1>3, <1>13, <2>2 DEF Deploy
<1>14. CASE OldInstancesStop
  <2>1. deployed \in Nat \ {0}
    BY <1>0, ShellAssumption DEF Deployed
  <2>2. Deployed'
    BY <1>0, <1>14, <2>1 DEF OldInstancesStop, Deployed
  <2> QED BY <1>0, <1>3, <1>14, <2>2 DEF OldInstancesStop
<1>15. CASE PlatformDown
  <2>1. Deployed'
    BY <1>0, <1>15 DEF PlatformDown, Deployed
  <2> QED BY <1>0, <1>3, <1>15, <2>1 DEF PlatformDown
<1> QED
  BY <1>5, <1>6, <1>7, <1>8, <1>9, <1>10, <1>11, <1>12, <1>13, <1>14, <1>15 DEF ShellNext

\* It starts with the first build served and nothing cached.
LEMMA ShellStarts == ShellInit => ShellTyped
<1> SUFFICES ASSUME ShellInit PROVE ShellTyped
  OBVIOUS
<1>1. Deployed
  BY ShellAssumption DEF ShellInit, Deployed
<1>2. Cached
  BY DEF ShellInit, Cached, Kept
<1> QED BY <1>1, <1>2 DEF ShellInit, ShellTyped

\* That is the type of the cache and of what is served.
LEMMA ShellTypedMeans == ShellTyped => ShellTypeOK
BY DEF ShellTyped, Deployed, Cached, Kept, ShellTypeOK

(* PriceFeed *)

FeedTyped ==
    /\ FeedInv
    /\ mode \in {"synthetic", "live"} /\ second <= MaxSecond
    /\ dayOpen \in FeedPrices /\ anchored \in BOOLEAN /\ ticking \in BOOLEAN

\* With what the bars keep, that is the type of the feed.
LEMMA FeedTypedMeans == FeedTyped => FeedTypeOK
<1> SUFFICES ASSUME FeedTyped PROVE FeedTypeOK
  OBVIOUS
<1>1. second \in 0..MaxSecond /\ painted \in 0..second
  BY FeedAssumption DEF FeedTyped, FeedInv
<1>2. ASSUME NEW f \in Frames
      PROVE  /\ Len(bars[f]) = MaxBars
             /\ \A k \in 1..MaxBars - 1 : bars[f][k].time < bars[f][k + 1].time
  <2>1. bars[f] \in Chart /\ Ascends(bars[f]) /\ MaxBars \in Nat \ {0}
    BY FeedAssumption DEF FeedTyped, FeedInv
  <2>2. Len(bars[f]) = MaxBars
    BY <2>1 DEF Chart
  <2>3. ASSUME NEW k \in 1..MaxBars - 1 PROVE bars[f][k].time < bars[f][k + 1].time
    <3>1. k \in 1..MaxBars /\ k + 1 \in 1..MaxBars /\ k < k + 1
      BY <2>1
    <3> QED BY <2>1, <3>1 DEF Ascends
  <2> QED BY <2>2, <2>3
<1>3. price \in FeedPrices
  BY DEF FeedTyped, FeedInv
<1> QED BY <1>1, <1>2, <1>3 DEF FeedTyped, FeedTypeOK

\* It starts with the first price painted in every frame.
LEMMA FeedTypeStarts == FeedInit => FeedTyped
<1> SUFFICES ASSUME FeedInit PROVE FeedTyped
  OBVIOUS
<1>1. FeedInv
  BY FeedAssumption, FeedBegins
<1>2. mode \in {"synthetic", "live"} /\ second <= MaxSecond /\ dayOpen \in FeedPrices
  BY FeedAssumption DEF FeedInit
<1>3. anchored \in BOOLEAN /\ ticking \in BOOLEAN
  BY Zenon DEF FeedInit
<1> QED BY <1>1, <1>2, <1>3 DEF FeedTyped

\* Every tick, anchor and repaint keeps the types.
LEMMA FeedStepTyped == FeedTyped /\ [FeedNext]_feedVars => FeedTyped'
<1> SUFFICES ASSUME FeedTyped, [FeedNext]_feedVars PROVE FeedTyped'
  OBVIOUS
<1>1. FeedInv'
  BY FeedAssumption, FeedStep DEF FeedTyped
<1>2. CASE FeedStarts
  BY <1>1, <1>2 DEF FeedStarts, FeedTyped
<1>3. ASSUME NEW p \in FeedPrices, FeedTick(p) PROVE FeedTyped'
  BY <1>1, <1>3 DEF FeedTick, FeedTyped
<1>4. ASSUME NEW p \in FeedPrices, QuoteArrives(p) PROVE FeedTyped'
  BY <1>1, <1>4 DEF QuoteArrives, ApplyUpstream, FeedTyped
<1>5. CASE UNCHANGED feedVars
  BY <1>1, <1>5 DEF feedVars, FeedTyped
<1> QED BY <1>2, <1>3, <1>4, <1>5 DEF FeedNext
=============================================================================
