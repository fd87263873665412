------------------------------- MODULE Payments -------------------------------
(***************************************************************************)
(* Deposits and withdrawals: server/src/services/wallet.ts, the three       *)
(* database functions it moves money with, and the mobile-money provider as *)
(* palpluss.ts sees it.                                                      *)
(*                                                                         *)
(* Up to three parties try to finish one transaction: the call that started *)
(* it, when the provider's answer does not come; callbacks, which may be     *)
(* lost, repeated or late; and the sweeps, which overlap when one takes      *)
(* longer than the minute between them.  Each first reads the row and writes *)
(* later, so any of them may act on a status that is no longer there.        *)
(***************************************************************************)
EXTENDS Integers, FiniteSetsExt

CONSTANTS
    Txs,            \* identities of the transactions that may be started
    NoTx, NoCall,   \* nothing requested; nothing in progress
    Users, Amounts, StartBalance,
    Kinds,          \* of {"DEPOSIT", "WITHDRAWAL"}
    Handlers,       \* callbacks being handled at the same time
    Sweepers,       \* sweeps running at the same time
    PageSize,       \* rows one sweep looks at
    MaxDeliveries,  \* bound on callbacks delivered per transaction
    MaxRestarts,    \* bound on crashes
    Faults          \* what may go wrong, of AllFaults

AllFaults ==
    { "crash",        \* the process is killed at any moment
      "unreachable",  \* the provider's answer does not come: timeout, lost body
      "statusFails",  \* a status read fails
      "rpcError",     \* a database call fails before it executes
      "replyLost" }   \* ... the call that records a transaction executes, its
                      \* reply is lost

ASSUME ConstantsAssumption ==
    /\ NoTx \notin Txs
    /\ Amounts \subseteq Nat \ {0}
    /\ StartBalance \in Nat /\ MaxDeliveries \in Nat /\ MaxRestarts \in Nat
    /\ PageSize \in Nat \ {0}
    /\ Kinds \subseteq {"DEPOSIT", "WITHDRAWAL"}
    /\ Txs \cap Handlers = {} /\ Txs \cap Sweepers = {} /\ Handlers \cap Sweepers = {}
    /\ Faults \subseteq AllFaults

VARIABLES
    \* the database
    balance,    \* users.real_balance
    order,      \* the columns of a transaction fixed when it is requested
    row,        \* transactions.status; NONE before the row exists
    applied,    \* transactions.balance_applied
    known,      \* provider_txn_id is not null
    age,        \* 0 at first, 1 after two minutes, 2 after fifteen
    \* the provider
    post,       \* the request to it: none, sent or gone
    provider,   \* what became of the money there
    delivered,  \* callbacks delivered
    \* the process
    up, restarts,
    start,      \* where startDeposit or startWithdrawal has got to
    call,       \* finaliseTransaction in progress, by caller
    page        \* rows a sweep has loaded and not yet reached

\* A failed withdrawal is finished by the call that started it.
Callers == Txs \cup Handlers \cup Sweepers
Orders == [kind : Kinds, user : Users, amount : Amounts]
Final == {"SUCCESS", "FAILED", "EXPIRED"}
Calls == [tx : Txs, status : Final, stage : {"reading", "writing"}, id : BOOLEAN]

\* What stands for nothing is none of them.
ASSUME AbsenceAssumption == NoTx \notin Orders /\ NoCall \notin Calls

rowVars == <<balance, row, applied, known>>
providerVars == <<post, provider, delivered>>
lifeVars == <<up, restarts>>
vars == <<rowVars, order, age, providerVars, lifeVars, start, call, page>>

IsDeposit(x) == order[x].kind = "DEPOSIT"

-----------------------------------------------------------------------------
(* Starting a transaction *)

\* POST /deposit or /withdraw; every validation has passed.
Request(x) ==
    /\ up /\ order[x] = NoTx
    /\ \E o \in Orders : order' = [order EXCEPT ![x] = o]
    /\ start' = [start EXCEPT ![x] = "requested"]
    /\ UNCHANGED <<rowVars, age, providerVars, lifeVars, call, page>>

\* The call that writes the row executes, for a caller that may be dead.
Recorded(x) ==
    /\ start[x] \in {"requested", "orphaned"}
    /\ row' = [row EXCEPT ![x] = "PENDING"]
    /\ start' = [start EXCEPT ![x] = IF @ = "requested" THEN "recorded" ELSE "done"]

\* startDeposit inserts a pending row.
RecordDeposit(x) ==
    /\ Recorded(x)
    /\ IsDeposit(x)
    /\ UNCHANGED <<balance, applied, known, order, age, providerVars, lifeVars, call, page>>

\* fpesa_reserve_withdrawal: debit first, and one at a time.
Overdrawn(x) == balance[order[x].user] < order[x].amount
InFlight(x) ==
    \E y \in Txs : /\ row[y] = "PENDING" /\ ~IsDeposit(y)
                   /\ order[y].user = order[x].user

ReserveWithdrawal(x) ==
    /\ Recorded(x)
    /\ ~IsDeposit(x) /\ ~Overdrawn(x) /\ ~InFlight(x)
    /\ balance' = [balance EXCEPT ![order[x].user] = @ - order[x].amount]
    /\ applied' = [applied EXCEPT ![x] = TRUE]
    /\ UNCHANGED <<known, order, age, providerVars, lifeVars, call, page>>

\* It refuses, or fails; or it executes and the caller is told it failed.
RequestFails(x) ==
    /\ \/ start[x] \in {"requested", "orphaned"} /\ "rpcError" \in Faults
       \/ start[x] \in {"requested", "orphaned"} /\ ~IsDeposit(x)
          /\ (Overdrawn(x) \/ InFlight(x))
       \/ start[x] = "recorded" /\ "replyLost" \in Faults
    /\ start' = [start EXCEPT ![x] = "done"]
    /\ UNCHANGED <<rowVars, order, age, providerVars, lifeVars, call, page>>

\* initiateStkPush or initiateB2CPayout.
CallProvider(x) ==
    /\ start[x] = "recorded"
    /\ start' = [start EXCEPT ![x] = "calling"]
    /\ post' = [post EXCEPT ![x] = "sent"]
    /\ UNCHANGED <<rowVars, order, age, provider, delivered, lifeVars, call, page>>

\* The provider accepted it, and its id is recorded; whether that worked is not
\* looked at.
ProviderAnswers(x) ==
    /\ start[x] = "calling"
    /\ provider[x] \in {"processing", "SUCCESS", "FAILED"}
    /\ start' = [start EXCEPT ![x] = "answered"]
    /\ UNCHANGED <<rowVars, order, age, providerVars, lifeVars, call, page>>

RecordProviderId(x) ==
    /\ start[x] = "answered"
    /\ start' = [start EXCEPT ![x] = "done"]
    /\ \/ known' = [known EXCEPT ![x] = TRUE]
       \/ "rpcError" \in Faults /\ UNCHANGED known
    /\ UNCHANGED <<balance, row, applied, order, age, providerVars, lifeVars, call, page>>

\* finaliseTransaction is called.
Finalise(c, x, status, id) ==
    call' = [call EXCEPT ![c] = [tx |-> x, status |-> status, stage |-> "reading", id |-> id]]

\* The provider rejected it, or the answer has not come: a withdrawal is
\* finalised as failed, a deposit's row is about to be closed.
ProviderFails(x) ==
    /\ start[x] = "calling"
    /\ provider[x] = "rejected" \/ "unreachable" \in Faults
    /\ start' = [start EXCEPT ![x] = "failing"]
    /\ IF IsDeposit(x) THEN UNCHANGED call ELSE Finalise(x, x, "FAILED", FALSE)
    /\ UNCHANGED <<rowVars, order, age, providerVars, lifeVars, page>>

\* startDeposit closes the record out, whatever it says by now.
MarkFailed(x) ==
    /\ start[x] = "failing" /\ IsDeposit(x)
    /\ start' = [start EXCEPT ![x] = "done"]
    /\ \/ row' = [row EXCEPT ![x] = "FAILED"]
       \/ "rpcError" \in Faults /\ UNCHANGED row
    /\ UNCHANGED <<balance, applied, known, order, age, providerVars, lifeVars, call, page>>

-----------------------------------------------------------------------------
(* The provider *)

ProviderReceives(x) ==
    /\ post[x] = "sent"
    /\ post' = [post EXCEPT ![x] = "gone"]
    /\ \/ provider' = [provider EXCEPT ![x] = "processing"]
       \/ provider' = [provider EXCEPT ![x] = "rejected"]
       \/ "unreachable" \in Faults /\ UNCHANGED provider
    /\ UNCHANGED <<rowVars, order, age, delivered, lifeVars, start, call, page>>

\* The customer pays, or does not; the payout arrives, or does not.
ProviderResolves(x) ==
    /\ provider[x] = "processing"
    /\ \E s \in {"SUCCESS", "FAILED"} : provider' = [provider EXCEPT ![x] = s]
    /\ UNCHANGED <<rowVars, order, age, post, delivered, lifeVars, start, call, page>>

-----------------------------------------------------------------------------
(* Finishing a transaction *)

\* handleProviderCallback: the status is read back; a success that cannot be
\* confirmed is left to the sweep.
Callback(h, x) ==
    /\ up /\ call[h] = NoCall
    /\ provider[x] \in {"SUCCESS", "FAILED"}
    /\ delivered[x] < MaxDeliveries
    /\ delivered' = [delivered EXCEPT ![x] = @ + 1]
    /\ \/ Finalise(h, x, provider[x], TRUE)
       \/ "statusFails" \in Faults /\ provider[x] = "SUCCESS" /\ UNCHANGED call
    /\ UNCHANGED <<rowVars, order, age, post, provider, lifeVars, start, page>>

\* finaliseTransaction returns to its caller.
Return(c) ==
    /\ call' = [call EXCEPT ![c] = NoCall]
    /\ start' = IF c \in Txs THEN [start EXCEPT ![c] = "done"] ELSE start

\* finaliseTransaction reads the row and goes on only if it is pending.
FinaliseRead(c) ==
    /\ call[c] # NoCall /\ call[c].stage = "reading"
    /\ IF row[call[c].tx] = "PENDING"
       THEN call' = [call EXCEPT ![c].stage = "writing"] /\ UNCHANGED start
       ELSE Return(c)
    /\ UNCHANGED <<rowVars, order, age, providerVars, lifeVars, page>>

Pay(x) == balance' = [balance EXCEPT ![order[x].user] = @ + order[x].amount]

CloseDeposit(x, status, id) ==
    /\ row' = [row EXCEPT ![x] = status]
    /\ applied' = [applied EXCEPT ![x] = (status = "SUCCESS")]
    /\ known' = [known EXCEPT ![x] = @ \/ id]
    /\ IF status = "SUCCESS" THEN Pay(x) ELSE UNCHANGED balance

\* Mutants: a credited deposit is credited again; an expired one is credited.
ApplyDepositTwice(x, status, id) == CloseDeposit(x, status, id)
ApplyDepositUnlessFailed(x, status, id) ==
    IF applied[x] THEN UNCHANGED rowVars
    ELSE CloseDeposit(x, IF status = "FAILED" THEN status ELSE "SUCCESS", id)

\* fpesa_apply_deposit: unless its money has been credited already.
ApplyDeposit(x, status, id) ==
    IF applied[x] THEN UNCHANGED rowVars ELSE CloseDeposit(x, status, id)

CloseWithdrawal(x, status) ==
    /\ row' = [row EXCEPT ![x] = status]
    /\ applied' = [applied EXCEPT ![x] = (status = "SUCCESS")]
    /\ IF status = "SUCCESS" THEN UNCHANGED balance ELSE Pay(x)
    /\ UNCHANGED known

\* Mutant: a withdrawal is closed whatever its status.
SettleWithdrawalAgain(x, status) == CloseWithdrawal(x, status)

\* fpesa_settle_withdrawal: a pending one is closed, and refunded unless it
\* succeeded.
SettleWithdrawal(x, status) ==
    IF row[x] # "PENDING" THEN UNCHANGED rowVars ELSE CloseWithdrawal(x, status)

FinaliseWrite(c) ==
    /\ call[c] # NoCall /\ call[c].stage = "writing"
    /\ LET x == call[c].tx
       IN  IF IsDeposit(x) THEN ApplyDeposit(x, call[c].status, call[c].id)
           ELSE SettleWithdrawal(x, call[c].status)
    /\ Return(c)
    /\ UNCHANGED <<order, age, providerVars, lifeVars, page>>

\* Either call fails; it is logged and nothing is retried.
FinaliseError(c) ==
    /\ "rpcError" \in Faults
    /\ call[c] # NoCall
    /\ Return(c)
    /\ UNCHANGED <<rowVars, order, age, providerVars, lifeVars, page>>

\* startReconciliation's sweep loads rows pending for more than two minutes, in
\* no particular order.
SweepStart(w) ==
    /\ up /\ call[w] = NoCall /\ page[w] = {}
    /\ LET due == {x \in Txs : row[x] = "PENDING" /\ age[x] >= 1}
           size == IF Cardinality(due) < PageSize THEN Cardinality(due) ELSE PageSize
       IN  /\ due # {}
           /\ \E P \in kSubset(size, due) :
                 page' = [page EXCEPT ![w] = {[tx |-> x, id |-> known[x]] : x \in P}]
    /\ UNCHANGED <<rowVars, order, age, providerVars, lifeVars, start, call>>

\* Mutant: what the provider does not answer for never expires.
NeverTimedOut(x) == FALSE

\* Fifteen minutes have passed.
TimedOut(x) == age[x] = 2

\* One row of it: finish it as the provider says, or expire it after fifteen
\* minutes.
Answered(e) == e.id /\ provider[e.tx] \in {"SUCCESS", "FAILED"}

SweepEntry(w, e) ==
    /\ page' = [page EXCEPT ![w] = @ \ {e}]
    /\ \/ Answered(e) /\ Finalise(w, e.tx, provider[e.tx], FALSE)
       \/ /\ ~Answered(e) \/ "statusFails" \in Faults
          /\ IF TimedOut(e.tx) THEN Finalise(w, e.tx, "EXPIRED", FALSE) ELSE UNCHANGED call

SweepRow(w) ==
    /\ up /\ call[w] = NoCall
    /\ \E e \in page[w] : SweepEntry(w, e)
    /\ UNCHANGED <<rowVars, order, age, providerVars, lifeVars, start>>

-----------------------------------------------------------------------------
(* Time, dying and coming back *)

GrowOld(x) ==
    /\ row[x] = "PENDING" /\ age[x] < 2
    /\ age' = [age EXCEPT ![x] = @ + 1]
    /\ UNCHANGED <<rowVars, order, providerVars, lifeVars, start, call, page>>

\* Of the database calls that were sent and not executed, some may yet be.
Crash ==
    /\ "crash" \in Faults /\ up /\ restarts < MaxRestarts
    /\ up' = FALSE /\ restarts' = restarts + 1
    /\ page' = [w \in Sweepers |-> {}]
    /\ \E C \in SUBSET {c \in Callers : call[c] # NoCall /\ call[c].stage = "writing"} :
          call' = [c \in Callers |-> IF c \in C THEN call[c] ELSE NoCall]
    /\ \E S \in SUBSET {x \in Txs : start[x] = "requested"} :
          start' = [x \in Txs |-> IF start[x] = "idle" THEN "idle"
                                  ELSE IF x \in S \/ start[x] = "orphaned" THEN "orphaned"
                                  ELSE "done"]
    /\ UNCHANGED <<rowVars, order, age, providerVars>>

Restart ==
    /\ ~up /\ up' = TRUE
    /\ UNCHANGED <<rowVars, order, age, providerVars, restarts, start, call, page>>

Init ==
    /\ balance = [u \in Users |-> StartBalance]
    /\ order = [x \in Txs |-> NoTx]
    /\ row = [x \in Txs |-> "NONE"]
    /\ applied = [x \in Txs |-> FALSE] /\ known = [x \in Txs |-> FALSE]
    /\ age = [x \in Txs |-> 0]
    /\ post = [x \in Txs |-> "none"] /\ provider = [x \in Txs |-> "none"]
    /\ delivered = [x \in Txs |-> 0]
    /\ up = TRUE /\ restarts = 0
    /\ start = [x \in Txs |-> "idle"]
    /\ call = [c \in Callers |-> NoCall]
    /\ page = [w \in Sweepers |-> {}]

StartStep(x) ==
    Request(x) \/ RecordDeposit(x) \/ ReserveWithdrawal(x) \/ RequestFails(x)
    \/ CallProvider(x) \/ ProviderAnswers(x) \/ RecordProviderId(x)
    \/ ProviderFails(x) \/ MarkFailed(x)

Next ==
    \/ \E x \in Txs : StartStep(x) \/ ProviderReceives(x) \/ ProviderResolves(x)
                      \/ GrowOld(x) \/ (\E h \in Handlers : Callback(h, x))
    \/ \E c \in Callers : FinaliseRead(c) \/ FinaliseWrite(c) \/ FinaliseError(c)
    \/ \E w \in Sweepers : SweepStart(w) \/ SweepRow(w)
    \/ Crash \/ Restart

Spec == Init /\ [][Next]_vars

\* Time passes, the platform restarts the process, the sweep runs every minute,
\* and its database calls fail now and then but not every time.
Fairness ==
    /\ WF_vars(Restart)
    /\ \A x \in Txs : WF_vars(GrowOld(x))
    /\ \A w \in Sweepers : /\ WF_vars(SweepStart(w)) /\ WF_vars(SweepRow(w))
                           /\ SF_vars(FinaliseRead(w)) /\ SF_vars(FinaliseWrite(w))

FairSpec == Spec /\ Fairness

-----------------------------------------------------------------------------
(* Properties *)

\* Every variable is of the shape the code gives it; no balance is overdrawn.
TypeOK ==
    /\ balance \in [Users -> Nat]
    /\ order \in [Txs -> Orders \cup {NoTx}]
    /\ row \in [Txs -> Final \cup {"NONE", "PENDING"}]
    /\ applied \in [Txs -> BOOLEAN] /\ known \in [Txs -> BOOLEAN]
    /\ age \in [Txs -> 0..2]
    /\ post \in [Txs -> {"none", "sent", "gone"}]
    /\ provider \in [Txs -> {"none", "processing", "rejected", "SUCCESS", "FAILED"}]
    /\ delivered \in [Txs -> Nat]
    /\ up \in BOOLEAN /\ restarts \in Nat
    /\ start \in [Txs -> {"idle", "requested", "orphaned", "recorded", "calling",
                          "answered", "failing", "done"}]
    /\ call \in [Callers -> Calls \cup {NoCall}]
    /\ page \in [Sweepers -> SUBSET [tx : Txs, id : BOOLEAN]]

\* Balances are exactly what the records say: the deposits credited, less the
\* withdrawals pending or paid.  Nothing is credited or refunded twice, however
\* callbacks, sweeps, retries and crashes meet.
BalancesAddUp ==
    \A u \in Users :
        LET mine(S) == {x \in S : order[x].user = u}
            ordered == {x \in Txs : order[x] # NoTx}
            in == mine({x \in ordered : IsDeposit(x) /\ applied[x]})
            out == mine({x \in ordered : ~IsDeposit(x) /\ row[x] \in {"PENDING", "SUCCESS"}})
            sum(S) == SumFunction([x \in S |-> order[x].amount])
        IN  balance[u] = StartBalance + sum(in) - sum(out)

\* "The balance moves only when the transaction is confirmed": a deposit is
\* credited only if the customer paid it, and nothing is reported as a success
\* that the provider does not call one.
CreditedOnlyIfPaid ==
    \A x \in Txs :
        /\ order[x] # NoTx /\ applied[x] /\ IsDeposit(x) => provider[x] = "SUCCESS"
        /\ row[x] = "SUCCESS" => provider[x] = "SUCCESS"

\* "One pending payout per account at a time", whatever order the requests and
\* the calls that finish them execute in.
OnePayoutAtATime ==
    \A x, y \in Txs :
        /\ row[x] = "PENDING" /\ ~IsDeposit(x)
        /\ row[y] = "PENDING" /\ ~IsDeposit(y)
        /\ order[x].user = order[y].user
        => x = y

\* A finished withdrawal is final, and a deposit once credited stays credited.
FinishedOnce ==
    [][\A x \in Txs :
          /\ order[x] # NoTx /\ ~IsDeposit(x) /\ row[x] \in Final => row'[x] = row[x]
          /\ order[x] # NoTx /\ IsDeposit(x) /\ applied[x] => applied'[x]]_vars

\* "Webhooks also get lost, so a sweeper runs every minute": nothing stays
\* pending for ever, with full pages and failing calls too.
EveryTxEnds == \A x \in Txs : row[x] = "PENDING" ~> row[x] \in Final

\* "The STK request never reached M-Pesa, so close the record out": a deposit
\* that is recorded as failed was not paid.
FailedDepositUnpaid ==
    \A x \in Txs : row[x] = "FAILED" /\ IsDeposit(x) => provider[x] # "SUCCESS"

\* "Payout never left our side -- hand the money straight back": money handed
\* back was not also paid out.
RefundedPayoutUnpaid ==
    \A x \in Txs : row[x] = "FAILED" /\ ~IsDeposit(x) => provider[x] # "SUCCESS"

\* "The reconciliation sweep will settle it once the provider answers": a paid
\* deposit does not end as expired.
PaidDepositNotExpired ==
    \A x \in Txs : row[x] = "EXPIRED" /\ IsDeposit(x) => provider[x] # "SUCCESS"
=============================================================================
