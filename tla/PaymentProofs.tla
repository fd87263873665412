---------------------------- MODULE PaymentProofs ----------------------------
(***************************************************************************)
(* Proofs about Payments, for any number of transactions, users, callbacks,    *)
(* sweeps, restarts and amounts, and under any of the faults: money adds up,     *)
(* what is credited was paid, and what is finished stays finished.               *)
(***************************************************************************)
EXTENDS Payments, Arithmetic

\* Whatever is on record was requested, and what is being finished is on record.  So far
\* those are finitely many.
Requested ==
    /\ IsFiniteSet({x \in Txs : order[x] # NoTx})
    /\ \A x \in Txs : \/ start[x] # "idle" \/ row[x] # "NONE" \/ applied[x]
                      \/ post[x] # "none" \/ provider[x] # "none"
                      => order[x] # NoTx
    /\ \A c \in Callers : call[c] # NoCall =>
          row[call[c].tx] # "NONE" /\ (c \in Txs => call[c].tx = c)
    /\ \A w \in Sweepers : \A e \in page[w] : row[e.tx] # "NONE"

\* A transaction is recorded before the provider is asked, and the provider is asked before
\* it does anything.
InOrder ==
    \A x \in Txs :
        /\ start[x] \in {"idle", "requested", "orphaned"} => row[x] = "NONE"
        /\ start[x] \in {"idle", "requested", "orphaned", "recorded"} => post[x] = "none"
        /\ start[x] \in {"recorded", "calling", "answered", "failing"} \/ post[x] # "none"
              => row[x] # "NONE"
        /\ post[x] # "gone" => provider[x] = "none"

\* A call that is to record a success repeats what the provider said.
Repeated ==
    \A c \in Callers :
        call[c] # NoCall /\ call[c].status = "SUCCESS" => provider[call[c].tx] = "SUCCESS"

PaymentInv == TypeOK /\ Requested /\ InOrder /\ Repeated

-----------------------------------------------------------------------------
\* What is requested has an owner and an amount.
LEMMA RequestedTyped ==
    ASSUME TypeOK, NEW x \in Txs, order[x] # NoTx
    PROVE  /\ order[x] \in Orders /\ order[x].user \in Users /\ order[x].amount \in Amounts
           /\ order[x].amount \in Nat /\ order[x].kind \in Kinds
<1>1. order[x] \in Orders
    BY DEF TypeOK
<1> QED
    BY <1>1, ConstantsAssumption DEF Orders

\* A call in progress is about a transaction, and is to record that it ended.
LEMMA CallTyped ==
    ASSUME TypeOK, NEW c \in Callers, call[c] # NoCall
    PROVE  /\ call[c] \in Calls /\ call[c].tx \in Txs /\ call[c].status \in Final
           /\ call[c].stage \in {"reading", "writing"} /\ call[c].id \in BOOLEAN
    BY DEF TypeOK, Calls

\* A call to finaliseTransaction is what was asked, and no other call is touched.
LEMMA FinaliseTyped ==
    ASSUME call \in [Callers -> Calls \cup {NoCall}], NEW c \in Callers, NEW x \in Txs,
           NEW status \in Final, NEW id \in BOOLEAN, Finalise(c, x, status, id)
    PROVE  /\ call' \in [Callers -> Calls \cup {NoCall}]
           /\ call'[c].tx = x /\ call'[c].status = status
           /\ \A d \in Callers : d # c => call'[d] = call[d]
<1>1. [tx |-> x, status |-> status, stage |-> "reading", id |-> id] \in Calls
    BY DEF Calls
<1> QED
    BY <1>1 DEF Finalise

\* A caller that is answered has no call any more; if it started the transaction it is done.
LEMMA Returned ==
    ASSUME TypeOK, NEW c \in Callers, Return(c)
    PROVE  /\ call'[c] = NoCall /\ \A d \in Callers : d # c => call'[d] = call[d]
           /\ \A x \in Txs : x # c => start'[x] = start[x]
           /\ c \in Txs => start'[c] = "done"
    BY DEF Return, TypeOK

\* What closes a transaction changes its row and, perhaps, the balance of its owner.
LEMMA DepositApplied ==
    ASSUME TypeOK, NEW x \in Txs, order[x] # NoTx, NEW status \in Final, NEW id \in BOOLEAN,
           ApplyDeposit(x, status, id)
    PROVE  /\ balance' \in [Users -> Nat] /\ row' \in [Txs -> Final \cup {"NONE", "PENDING"}]
           /\ applied' \in [Txs -> BOOLEAN] /\ known' \in [Txs -> BOOLEAN]
           /\ \A y \in Txs : y # x => row'[y] = row[y] /\ applied'[y] = applied[y]
           /\ row'[x] \in {row[x], status}
           /\ applied[x] => applied'[x] /\ row'[x] = row[x] /\ balance' = balance
           /\ ~applied[x] => /\ row'[x] = status /\ applied'[x] = (status = "SUCCESS")
                             /\ balance' = IF status = "SUCCESS"
                                   THEN [balance EXCEPT ![order[x].user] = @ + order[x].amount]
                                   ELSE balance
<1>1. order[x].user \in Users /\ order[x].amount \in Nat
    BY RequestedTyped
<1>2. CASE applied[x]
    BY <1>2 DEF ApplyDeposit, TypeOK, rowVars
<1>3. CASE ~applied[x]
    <2>1. /\ row' = [row EXCEPT ![x] = status]
          /\ applied' = [applied EXCEPT ![x] = (status = "SUCCESS")]
          /\ known' = [known EXCEPT ![x] = @ \/ id]
          /\ balance' = IF status = "SUCCESS"
                THEN [balance EXCEPT ![order[x].user] = @ + order[x].amount] ELSE balance
        BY <1>3 DEF ApplyDeposit, CloseDeposit, Pay
    <2>2. balance' \in [Users -> Nat] /\ row' \in [Txs -> Final \cup {"NONE", "PENDING"}]
        BY <1>1, <2>1 DEF TypeOK
    <2>3. applied' \in [Txs -> BOOLEAN] /\ applied'[x] = (status = "SUCCESS")
        BY <2>1 DEF TypeOK
    <2>4. known' \in [Txs -> BOOLEAN]
        BY <2>1 DEF TypeOK
    <2>5. \A y \in Txs : y # x => row'[y] = row[y] /\ applied'[y] = applied[y]
        BY <2>1 DEF TypeOK
    <2>6. row'[x] = status
        BY <2>1 DEF TypeOK
    <2> QED
        BY <1>3, <2>1, <2>2, <2>3, <2>4, <2>5, <2>6
<1> QED
    BY <1>2, <1>3

\* The same of a withdrawal: only a pending one is closed, and refunded unless it succeeded.
LEMMA WithdrawalSettled ==
    ASSUME TypeOK, NEW x \in Txs, order[x] # NoTx, NEW status \in Final,
           SettleWithdrawal(x, status)
    PROVE  /\ balance' \in [Users -> Nat] /\ row' \in [Txs -> Final \cup {"NONE", "PENDING"}]
           /\ applied' \in [Txs -> BOOLEAN] /\ known' \in [Txs -> BOOLEAN]
           /\ \A y \in Txs : y # x => row'[y] = row[y] /\ applied'[y] = applied[y]
           /\ row[x] # "PENDING" => /\ row'[x] = row[x] /\ applied'[x] = applied[x]
                                    /\ balance' = balance
           /\ row[x] = "PENDING" => /\ row'[x] = status
                                    /\ balance' = IF status = "SUCCESS" THEN balance
                                         ELSE [balance EXCEPT ![order[x].user] = @ + order[x].amount]
<1>1. order[x].user \in Users /\ order[x].amount \in Nat
    BY RequestedTyped
<1>2. CASE row[x] # "PENDING"
    BY <1>2 DEF SettleWithdrawal, TypeOK, rowVars
<1>3. CASE row[x] = "PENDING"
    <2>1. /\ row' = [row EXCEPT ![x] = status]
          /\ applied' = [applied EXCEPT ![x] = (status = "SUCCESS")]
          /\ known' = known
          /\ balance' = IF status = "SUCCESS" THEN balance
                ELSE [balance EXCEPT ![order[x].user] = @ + order[x].amount]
        BY <1>3 DEF SettleWithdrawal, CloseWithdrawal, Pay
    <2>2. balance' \in [Users -> Nat] /\ row' \in [Txs -> Final \cup {"NONE", "PENDING"}]
        BY <1>1, <2>1 DEF TypeOK
    <2>3. applied' \in [Txs -> BOOLEAN] /\ known' \in [Txs -> BOOLEAN]
        BY <2>1 DEF TypeOK
    <2>4. \A y \in Txs : y # x => row'[y] = row[y] /\ applied'[y] = applied[y]
        BY <2>1 DEF TypeOK
    <2>5. row'[x] = status
        BY <2>1 DEF TypeOK
    <2> QED
        BY <1>3, <2>1, <2>2, <2>3, <2>4, <2>5
<1> QED
    BY <1>2, <1>3

\* What finaliseTransaction writes, for either kind.
LEMMA FinaliseWrites ==
    ASSUME TypeOK, Requested, NEW c \in Callers, FinaliseWrite(c)
    PROVE  /\ call[c] # NoCall /\ call[c] \in Calls /\ call[c].tx \in Txs
           /\ call[c].status \in Final /\ order[call[c].tx] # NoTx
           /\ IsDeposit(call[c].tx) => ApplyDeposit(call[c].tx, call[c].status, call[c].id)
           /\ ~IsDeposit(call[c].tx) => SettleWithdrawal(call[c].tx, call[c].status)
           /\ balance' \in [Users -> Nat] /\ row' \in [Txs -> Final \cup {"NONE", "PENDING"}]
           /\ applied' \in [Txs -> BOOLEAN] /\ known' \in [Txs -> BOOLEAN]
           /\ \A y \in Txs : y # call[c].tx => row'[y] = row[y] /\ applied'[y] = applied[y]
           /\ row'[call[c].tx] \in {row[call[c].tx], call[c].status}
           /\ UNCHANGED <<order, age, providerVars, lifeVars, page>>
           /\ call' = [call EXCEPT ![c] = NoCall]
           /\ start' \in {start, [start EXCEPT ![c] = "done"]} /\ Return(c)
<1>1. call[c] # NoCall
    BY DEF FinaliseWrite
<1>2. /\ call[c] \in Calls /\ call[c].tx \in Txs /\ call[c].status \in Final
      /\ call[c].id \in BOOLEAN
    BY <1>1, CallTyped
<1>3. order[call[c].tx] # NoTx
    BY <1>1, <1>2 DEF Requested
<1>4. CASE IsDeposit(call[c].tx)
    <2>1. ApplyDeposit(call[c].tx, call[c].status, call[c].id)
        BY <1>4 DEF FinaliseWrite
    <2> QED
        BY <1>1, <1>2, <1>3, <1>4, <2>1, DepositApplied DEF FinaliseWrite, Return
<1>5. CASE ~IsDeposit(call[c].tx)
    <2>1. SettleWithdrawal(call[c].tx, call[c].status)
        BY <1>5 DEF FinaliseWrite
    <2>2. row'[call[c].tx] \in {row[call[c].tx], call[c].status}
        BY <1>2, <1>3, <2>1, WithdrawalSettled
    <2> QED
        BY <1>1, <1>2, <1>3, <1>5, <2>1, <2>2, WithdrawalSettled DEF FinaliseWrite, Return
<1> QED
    BY <1>4, <1>5

-----------------------------------------------------------------------------
\* Every step leaves every variable in shape, and no balance overdrawn.
LEMMA StepTyped ==
    ASSUME PaymentInv, [Next]_vars
    PROVE  TypeOK'
<1> USE DEF rowVars, providerVars, lifeVars
<1>1. ASSUME NEW x \in Txs, Request(x) PROVE TypeOK'
    BY <1>1 DEF Request, PaymentInv, TypeOK
<1>2. ASSUME NEW x \in Txs, RecordDeposit(x) PROVE TypeOK'
    BY <1>2 DEF RecordDeposit, Recorded, PaymentInv, TypeOK
<1>3. ASSUME NEW x \in Txs, ReserveWithdrawal(x) PROVE TypeOK'
    <2>1. order[x] # NoTx
        BY <1>3 DEF ReserveWithdrawal, Recorded, PaymentInv, Requested
    <2>2. /\ order[x].user \in Users /\ order[x].amount \in Nat
          /\ balance[order[x].user] \in Nat
        BY <2>1, RequestedTyped DEF PaymentInv, TypeOK
    <2>3. balance[order[x].user] - order[x].amount \in Nat
        BY <1>3, <2>2 DEF ReserveWithdrawal, Overdrawn
    <2> QED
        BY <1>3, <2>2, <2>3 DEF ReserveWithdrawal, Recorded, PaymentInv, TypeOK
<1>4. ASSUME NEW x \in Txs, RequestFails(x) PROVE TypeOK'
    BY <1>4 DEF RequestFails, PaymentInv, TypeOK
<1>5. ASSUME NEW x \in Txs, CallProvider(x) PROVE TypeOK'
    BY <1>5 DEF CallProvider, PaymentInv, TypeOK
<1>6. ASSUME NEW x \in Txs, ProviderAnswers(x) PROVE TypeOK'
    BY <1>6 DEF ProviderAnswers, PaymentInv, TypeOK
<1>7. ASSUME NEW x \in Txs, RecordProviderId(x) PROVE TypeOK'
    BY <1>7 DEF RecordProviderId, PaymentInv, TypeOK
<1>8. ASSUME NEW x \in Txs, ProviderFails(x) PROVE TypeOK'
    <2>1. x \in Callers /\ x \in Txs /\ "FAILED" \in Final
        BY DEF Callers, Final
    <2>2. call' \in [Callers -> Calls \cup {NoCall}]
        BY <1>8, <2>1, FinaliseTyped DEF ProviderFails, PaymentInv, TypeOK
    <2>3. /\ start' = [start EXCEPT ![x] = "failing"]
          /\ UNCHANGED <<rowVars, order, age, providerVars, lifeVars, page>>
        BY <1>8 DEF ProviderFails
    <2> QED
        BY <2>2, <2>3 DEF PaymentInv, TypeOK
<1>9. ASSUME NEW x \in Txs, MarkFailed(x) PROVE TypeOK'
    BY <1>9 DEF MarkFailed, Final, PaymentInv, TypeOK
<1>10. ASSUME NEW x \in Txs, ProviderReceives(x) PROVE TypeOK'
    BY <1>10 DEF ProviderReceives, PaymentInv, TypeOK
<1>11. ASSUME NEW x \in Txs, ProviderResolves(x) PROVE TypeOK'
    BY <1>11 DEF ProviderResolves, PaymentInv, TypeOK
<1>12. ASSUME NEW x \in Txs, GrowOld(x) PROVE TypeOK'
    BY <1>12 DEF GrowOld, PaymentInv, TypeOK
<1>13. ASSUME NEW x \in Txs, NEW h \in Handlers, Callback(h, x) PROVE TypeOK'
    <2>1. /\ h \in Callers /\ provider[x] \in Final
          /\ call \in [Callers -> Calls \cup {NoCall}]
        BY <1>13 DEF Callback, Callers, Final, PaymentInv, TypeOK
    <2>2. call' \in [Callers -> Calls \cup {NoCall}]
        BY <1>13, <2>1, FinaliseTyped DEF Callback
    <2>3. /\ delivered' = [delivered EXCEPT ![x] = @ + 1]
          /\ UNCHANGED <<rowVars, order, age, post, provider, lifeVars, start, page>>
        BY <1>13 DEF Callback
    <2> QED
        BY <2>2, <2>3 DEF PaymentInv, TypeOK
<1>14. ASSUME NEW c \in Callers, FinaliseRead(c) PROVE TypeOK'
    <2>1. call[c] # NoCall /\ TypeOK
        BY <1>14 DEF FinaliseRead, PaymentInv
    <2>2. call[c] \in Calls
        BY <2>1, CallTyped
    <2>3. [call[c] EXCEPT !.stage = "writing"] \in Calls
        BY <2>2 DEF Calls
    <2> QED
        BY <1>14, <2>3 DEF FinaliseRead, Return, PaymentInv, TypeOK
<1>15. ASSUME NEW c \in Callers, FinaliseWrite(c) PROVE TypeOK'
    <2>1. TypeOK /\ Requested
        BY DEF PaymentInv
    <2>2. /\ balance' \in [Users -> Nat] /\ row' \in [Txs -> Final \cup {"NONE", "PENDING"}]
          /\ applied' \in [Txs -> BOOLEAN] /\ known' \in [Txs -> BOOLEAN]
          /\ UNCHANGED <<order, age, providerVars, lifeVars, page>>
          /\ call' = [call EXCEPT ![c] = NoCall]
          /\ start' \in {start, [start EXCEPT ![c] = "done"]}
        BY <1>15, <2>1, FinaliseWrites
    <2> QED
        BY <2>1, <2>2 DEF TypeOK
<1>16. ASSUME NEW c \in Callers, FinaliseError(c) PROVE TypeOK'
    BY <1>16 DEF FinaliseError, Return, PaymentInv, TypeOK
<1>17. ASSUME NEW w \in Sweepers, SweepStart(w) PROVE TypeOK'
    <2>1. \E P \in SUBSET Txs : page' = [page EXCEPT ![w] = {[tx |-> x, id |-> known[x]] : x \in P}]
        BY <1>17 DEF SweepStart, kSubset
    <2>2. PICK P \in SUBSET Txs : page' = [page EXCEPT ![w] = {[tx |-> x, id |-> known[x]] : x \in P}]
        BY <2>1
    <2>3. {[tx |-> x, id |-> known[x]] : x \in P} \in SUBSET [tx : Txs, id : BOOLEAN]
        BY DEF PaymentInv, TypeOK
    <2> QED
        BY <1>17, <2>2, <2>3 DEF SweepStart, PaymentInv, TypeOK
<1>18. ASSUME NEW w \in Sweepers, SweepRow(w) PROVE TypeOK'
    <2>1. PICK e \in page[w] : SweepEntry(w, e)
        BY <1>18 DEF SweepRow
    <2>2. page[w] \in SUBSET [tx : Txs, id : BOOLEAN]
        BY DEF PaymentInv, TypeOK
    <2>3. e.tx \in Txs /\ w \in Callers
        BY <2>2 DEF Callers
    <2>4. call' \in [Callers -> Calls \cup {NoCall}]
        <3>1. /\ "EXPIRED" \in Final
              /\ Answered(e) => provider[e.tx] \in Final
            BY DEF Answered, Final
        <3>2. call \in [Callers -> Calls \cup {NoCall}]
            BY DEF PaymentInv, TypeOK
        <3> QED
            BY <2>1, <2>3, <3>1, <3>2, FinaliseTyped DEF SweepEntry
    <2>5. page' = [page EXCEPT ![w] = page[w] \ {e}]
        BY <2>1 DEF SweepEntry
    <2>6. page' \in [Sweepers -> SUBSET [tx : Txs, id : BOOLEAN]]
        <3> DEFINE Pages == SUBSET [tx : Txs, id : BOOLEAN]
        <3>1. page[w] \ {e} \in Pages /\ page \in [Sweepers -> Pages]
            BY <2>2 DEF PaymentInv, TypeOK
        <3> HIDE DEF Pages
        <3>2. page' \in [Sweepers -> Pages]
            BY <2>5, <3>1
        <3> QED
            BY <3>2 DEF Pages
    <2>7. UNCHANGED <<rowVars, order, age, providerVars, lifeVars, start>>
        BY <1>18 DEF SweepRow
    <2> QED
        BY <2>4, <2>6, <2>7 DEF PaymentInv, TypeOK
<1>19. ASSUME Crash PROVE TypeOK'
    <2>1. call' \in [Callers -> Calls \cup {NoCall}]
        BY <1>19 DEF Crash, PaymentInv, TypeOK
    <2>2. start' \in [Txs -> {"idle", "requested", "orphaned", "recorded", "calling",
                             "answered", "failing", "done"}]
        BY <1>19 DEF Crash
    <2>3. /\ up' = FALSE /\ restarts' = restarts + 1 /\ page' = [w \in Sweepers |-> {}]
          /\ UNCHANGED <<rowVars, order, age, providerVars>>
        BY <1>19 DEF Crash
    <2>4. restarts \in Nat /\ restarts' \in Nat
        BY <2>3 DEF PaymentInv, TypeOK
    <2>5. page' \in [Sweepers -> SUBSET [tx : Txs, id : BOOLEAN]]
        BY <2>3
    <2> QED
        BY <2>1, <2>2, <2>3, <2>4, <2>5 DEF PaymentInv, TypeOK
<1>20. ASSUME Restart PROVE TypeOK'
    BY <1>20 DEF Restart, PaymentInv, TypeOK
<1>21. CASE UNCHANGED vars
    BY <1>21 DEF vars, PaymentInv, TypeOK
<1> QED
    BY <1>1, <1>2, <1>3, <1>4, <1>5, <1>6, <1>7, <1>8, <1>9,
       <1>10, <1>11, <1>12, <1>13, <1>14, <1>15, <1>16, <1>17, <1>18,
       <1>19, <1>20, <1>21
       DEF Next, StartStep

\* No step refers to what was not requested.
LEMMA StepRequested ==
    ASSUME PaymentInv, [Next]_vars
    PROVE  Requested'
<1> USE DEF rowVars, providerVars, lifeVars
<1>1. ASSUME NEW x \in Txs, Request(x) PROVE Requested'
    <2>1. order[x] = NoTx /\ \E o \in Orders : order' = [order EXCEPT ![x] = o]
        BY <1>1 DEF Request
    <2>2. order'[x] # NoTx /\ \A y \in Txs : y # x => order'[y] = order[y]
        BY <2>1, AbsenceAssumption DEF PaymentInv, TypeOK
    <2>3. {y \in Txs : order'[y] # NoTx} = {y \in Txs : order[y] # NoTx} \cup {x}
        BY <2>1, <2>2
    <2>4. IsFiniteSet({y \in Txs : order'[y] # NoTx})
        BY <2>3, FS_AddElement DEF PaymentInv, Requested
    <2> QED
        BY <1>1, <2>2, <2>4 DEF Request, PaymentInv, TypeOK, Requested, Calls
<1>2. ASSUME NEW x \in Txs, RecordDeposit(x) PROVE Requested'
    <2>1. order[x] # NoTx
        BY <1>2 DEF RecordDeposit, Recorded, PaymentInv, Requested
    <2> QED
        BY <1>2, <2>1 DEF RecordDeposit, Recorded, PaymentInv, TypeOK, Requested
<1>3. ASSUME NEW x \in Txs, ReserveWithdrawal(x) PROVE Requested'
    <2>1. order[x] # NoTx
        BY <1>3 DEF ReserveWithdrawal, Recorded, PaymentInv, Requested
    <2> QED
        BY <1>3, <2>1 DEF ReserveWithdrawal, Recorded, PaymentInv, TypeOK, Requested
<1>4. ASSUME NEW x \in Txs, RequestFails(x) PROVE Requested'
    BY <1>4 DEF RequestFails, PaymentInv, TypeOK, Requested
<1>5. ASSUME NEW x \in Txs, CallProvider(x) PROVE Requested'
    BY <1>5 DEF CallProvider, PaymentInv, TypeOK, Requested
<1>6. ASSUME NEW x \in Txs, ProviderAnswers(x) PROVE Requested'
    BY <1>6 DEF ProviderAnswers, PaymentInv, TypeOK, Requested
<1>7. ASSUME NEW x \in Txs, RecordProviderId(x) PROVE Requested'
    BY <1>7 DEF RecordProviderId, PaymentInv, TypeOK, Requested
<1>8. ASSUME NEW x \in Txs, ProviderFails(x) PROVE Requested'
    <2>1. /\ order[x] # NoTx /\ x \in Callers /\ row[x] # "NONE"
          /\ call \in [Callers -> Calls \cup {NoCall}] /\ "FAILED" \in Final
        BY <1>8 DEF ProviderFails, PaymentInv, TypeOK, Requested, InOrder, Callers, Final
    <2>2. /\ start' = [start EXCEPT ![x] = "failing"]
          /\ UNCHANGED <<rowVars, order, providerVars, page>>
        BY <1>8 DEF ProviderFails
    <2>3. CASE Finalise(x, x, "FAILED", FALSE)
        <3>1. call'[x].tx = x /\ \A d \in Callers : d # x => call'[d] = call[d]
            BY <2>1, <2>3, FinaliseTyped
        <3> QED
            BY <2>1, <2>2, <3>1 DEF PaymentInv, TypeOK, Requested
    <2>4. CASE UNCHANGED call
        BY <2>1, <2>2, <2>4 DEF PaymentInv, TypeOK, Requested
    <2> QED
        BY <1>8, <2>3, <2>4 DEF ProviderFails
<1>9. ASSUME NEW x \in Txs, MarkFailed(x) PROVE Requested'
    <2>1. order[x] # NoTx /\ row \in [Txs -> Final \cup {"NONE", "PENDING"}]
        BY <1>9 DEF MarkFailed, PaymentInv, TypeOK, Requested
    <2>2. /\ \A y \in Txs : row[y] # "NONE" => row'[y] # "NONE"
          /\ UNCHANGED <<order, applied, providerVars, call, page>>
          /\ \A y \in Txs : y # x => row'[y] = row[y] /\ start'[y] = start[y]
        BY <1>9, <2>1 DEF MarkFailed, PaymentInv, TypeOK
    <2>3. /\ \A c \in Callers : call[c] # NoCall => call[c].tx \in Txs
          /\ \A w \in Sweepers : \A e \in page[w] : e.tx \in Txs
        BY CallTyped DEF PaymentInv, TypeOK
    <2> QED
        BY <2>1, <2>2, <2>3 DEF PaymentInv, Requested
<1>10. ASSUME NEW x \in Txs, ProviderReceives(x) PROVE Requested'
    BY <1>10 DEF ProviderReceives, PaymentInv, TypeOK, Requested
<1>11. ASSUME NEW x \in Txs, ProviderResolves(x) PROVE Requested'
    BY <1>11 DEF ProviderResolves, PaymentInv, TypeOK, Requested
<1>12. ASSUME NEW x \in Txs, GrowOld(x) PROVE Requested'
    BY <1>12 DEF GrowOld, PaymentInv, TypeOK, Requested
<1>13. ASSUME NEW x \in Txs, NEW h \in Handlers, Callback(h, x) PROVE Requested'
    <2>1. /\ row[x] # "NONE" /\ h \in Callers /\ h \notin Txs
          /\ call \in [Callers -> Calls \cup {NoCall}] /\ provider[x] \in Final
        BY <1>13, ConstantsAssumption DEF Callback, Callers, Final, PaymentInv, TypeOK, InOrder
    <2>2. UNCHANGED <<rowVars, order, post, provider, start, page>>
        BY <1>13 DEF Callback
    <2>3. CASE Finalise(h, x, provider[x], TRUE)
        <3>1. call'[h].tx = x /\ \A d \in Callers : d # h => call'[d] = call[d]
            BY <2>1, <2>3, FinaliseTyped
        <3> QED
            BY <2>1, <2>2, <3>1 DEF PaymentInv, Requested
    <2>4. CASE UNCHANGED call
        BY <2>2, <2>4 DEF PaymentInv, Requested
    <2> QED
        BY <1>13, <2>3, <2>4 DEF Callback
<1>14. ASSUME NEW c \in Callers, FinaliseRead(c) PROVE Requested'
    <2>1. call[c] # NoCall /\ TypeOK /\ UNCHANGED <<rowVars, order, providerVars, page>>
        BY <1>14 DEF FinaliseRead, PaymentInv
    <2>2. call[c] \in Calls
        BY <2>1, CallTyped
    <2>3. CASE Return(c)
        BY <2>1, <2>3, Returned DEF PaymentInv, Requested
    <2>4. CASE call' = [call EXCEPT ![c].stage = "writing"] /\ UNCHANGED start
        <3>1. /\ call'[c].tx = call[c].tx
              /\ \A d \in Callers : d # c => call'[d] = call[d]
            BY <2>1, <2>2, <2>4 DEF TypeOK, Calls
        <3> QED
            BY <2>1, <2>4, <3>1 DEF PaymentInv, Requested
    <2> QED
        BY <1>14, <2>3, <2>4 DEF FinaliseRead
<1>15. ASSUME NEW c \in Callers, FinaliseWrite(c) PROVE Requested'
    <2>1. TypeOK /\ Requested
        BY DEF PaymentInv
    <2>2. /\ call[c].tx \in Txs /\ order[call[c].tx] # NoTx /\ call[c] # NoCall
          /\ \A y \in Txs : y # call[c].tx => row'[y] = row[y] /\ applied'[y] = applied[y]
          /\ row'[call[c].tx] \in {row[call[c].tx], call[c].status}
          /\ call[c].status \in Final
          /\ UNCHANGED <<order, providerVars, page>> /\ Return(c)
        BY <1>15, <2>1, FinaliseWrites
    <2>3. \A y \in Txs : row[y] # "NONE" => row'[y] # "NONE"
        BY <2>2 DEF Final
    <2> QED
        BY <2>1, <2>2, <2>3, Returned, CallTyped DEF Requested, TypeOK
<1>16. ASSUME NEW c \in Callers, FinaliseError(c) PROVE Requested'
    <2>1. /\ call[c] # NoCall /\ TypeOK /\ UNCHANGED <<rowVars, order, providerVars, page>>
          /\ Return(c)
        BY <1>16 DEF FinaliseError, PaymentInv
    <2> QED
        BY <2>1, Returned DEF PaymentInv, Requested
<1>17. ASSUME NEW w \in Sweepers, SweepStart(w) PROVE Requested'
    <2>1. PICK P \in SUBSET {x \in Txs : row[x] = "PENDING" /\ age[x] >= 1} :
             page' = [page EXCEPT ![w] = {[tx |-> x, id |-> known[x]] : x \in P}]
        BY <1>17 DEF SweepStart, kSubset
    <2>2. \A e \in {[tx |-> x, id |-> known[x]] : x \in P} : row[e.tx] # "NONE"
        OBVIOUS
    <2>3. UNCHANGED <<rowVars, order, providerVars, start, call>>
        BY <1>17 DEF SweepStart
    <2>4. \A v \in Sweepers : \A e \in page'[v] : row[e.tx] # "NONE"
        BY <2>1, <2>2 DEF PaymentInv, TypeOK, Requested
    <2> QED
        BY <2>3, <2>4 DEF PaymentInv, Requested
<1>18. ASSUME NEW w \in Sweepers, SweepRow(w) PROVE Requested'
    <2>1. PICK e \in page[w] : SweepEntry(w, e)
        BY <1>18 DEF SweepRow
    <2>2. /\ e.tx \in Txs /\ w \in Callers /\ w \notin Txs /\ row[e.tx] # "NONE"
          /\ call \in [Callers -> Calls \cup {NoCall}]
        BY ConstantsAssumption DEF Callers, PaymentInv, TypeOK, Requested
    <2>3. \A v \in Sweepers : page'[v] \subseteq page[v]
        BY <2>1 DEF SweepEntry, PaymentInv, TypeOK
    <2>4. UNCHANGED <<rowVars, order, providerVars, start>>
        BY <1>18 DEF SweepRow
    <2>5. ASSUME NEW s \in Final, Finalise(w, e.tx, s, FALSE) PROVE Requested'
        <3>1. call'[w].tx = e.tx /\ \A d \in Callers : d # w => call'[d] = call[d]
            BY <2>2, <2>5, FinaliseTyped
        <3> QED
            BY <2>2, <2>3, <2>4, <3>1 DEF PaymentInv, Requested
    <2>6. CASE UNCHANGED call
        BY <2>3, <2>4, <2>6 DEF PaymentInv, Requested
    <2> QED
        BY <2>1, <2>5, <2>6 DEF SweepEntry, Answered, Final
<1>19. ASSUME Crash PROVE Requested'
    BY <1>19 DEF Crash, PaymentInv, TypeOK, Requested
<1>20. ASSUME Restart PROVE Requested'
    BY <1>20 DEF Restart, PaymentInv, TypeOK, Requested
<1>21. CASE UNCHANGED vars
    BY <1>21 DEF vars, PaymentInv, TypeOK, Requested
<1> QED
    BY <1>1, <1>2, <1>3, <1>4, <1>5, <1>6, <1>7, <1>8, <1>9,
       <1>10, <1>11, <1>12, <1>13, <1>14, <1>15, <1>16, <1>17, <1>18,
       <1>19, <1>20, <1>21
       DEF Next, StartStep

\* No step is taken before its turn.
LEMMA StepInOrder ==
    ASSUME PaymentInv, [Next]_vars
    PROVE  InOrder'
<1> USE DEF rowVars, providerVars, lifeVars
<1>1. ASSUME NEW x \in Txs, Request(x) PROVE InOrder'
    BY <1>1 DEF Request, PaymentInv, TypeOK, Requested, InOrder
<1>2. ASSUME NEW x \in Txs, RecordDeposit(x) PROVE InOrder'
    BY <1>2 DEF RecordDeposit, Recorded, PaymentInv, TypeOK, Requested, InOrder
<1>3. ASSUME NEW x \in Txs, ReserveWithdrawal(x) PROVE InOrder'
    BY <1>3 DEF ReserveWithdrawal, Recorded, PaymentInv, TypeOK, Requested, InOrder
<1>4. ASSUME NEW x \in Txs, RequestFails(x) PROVE InOrder'
    BY <1>4 DEF RequestFails, PaymentInv, TypeOK, Requested, InOrder
<1>5. ASSUME NEW x \in Txs, CallProvider(x) PROVE InOrder'
    BY <1>5 DEF CallProvider, PaymentInv, TypeOK, Requested, InOrder
<1>6. ASSUME NEW x \in Txs, ProviderAnswers(x) PROVE InOrder'
    BY <1>6 DEF ProviderAnswers, PaymentInv, TypeOK, Requested, InOrder
<1>7. ASSUME NEW x \in Txs, RecordProviderId(x) PROVE InOrder'
    BY <1>7 DEF RecordProviderId, PaymentInv, TypeOK, Requested, InOrder
<1>8. ASSUME NEW x \in Txs, ProviderFails(x) PROVE InOrder'
    BY <1>8 DEF ProviderFails, PaymentInv, TypeOK, Requested, InOrder
<1>9. ASSUME NEW x \in Txs, MarkFailed(x) PROVE InOrder'
    BY <1>9 DEF MarkFailed, PaymentInv, TypeOK, Requested, InOrder
<1>10. ASSUME NEW x \in Txs, ProviderReceives(x) PROVE InOrder'
    BY <1>10 DEF ProviderReceives, PaymentInv, TypeOK, Requested, InOrder
<1>11. ASSUME NEW x \in Txs, ProviderResolves(x) PROVE InOrder'
    BY <1>11 DEF ProviderResolves, PaymentInv, TypeOK, Requested, InOrder
<1>12. ASSUME NEW x \in Txs, GrowOld(x) PROVE InOrder'
    BY <1>12 DEF GrowOld, PaymentInv, TypeOK, Requested, InOrder
<1>13. ASSUME NEW x \in Txs, NEW h \in Handlers, Callback(h, x) PROVE InOrder'
    BY <1>13 DEF Callback, PaymentInv, TypeOK, Requested, InOrder
<1>14. ASSUME NEW c \in Callers, FinaliseRead(c) PROVE InOrder'
    BY <1>14 DEF FinaliseRead, Return, PaymentInv, TypeOK, Requested, InOrder
<1>15. ASSUME NEW c \in Callers, FinaliseWrite(c) PROVE InOrder'
    <2>1. TypeOK /\ Requested
        BY DEF PaymentInv
    <2>2. /\ call[c].tx \in Txs /\ row'[call[c].tx] \in {row[call[c].tx], call[c].status}
          /\ \A y \in Txs : y # call[c].tx => row'[y] = row[y]
          /\ call[c].status \in Final /\ row[call[c].tx] # "NONE"
          /\ UNCHANGED <<order, providerVars>> /\ Return(c)
        BY <1>15, <2>1, FinaliseWrites DEF Requested
    <2>3. \A y \in Txs : row[y] = "NONE" <=> row'[y] = "NONE"
        BY <2>2 DEF Final
    <2> QED
        BY <2>1, <2>2, <2>3, Returned DEF PaymentInv, InOrder
<1>16. ASSUME NEW c \in Callers, FinaliseError(c) PROVE InOrder'
    BY <1>16 DEF FinaliseError, Return, PaymentInv, TypeOK, Requested, InOrder
<1>17. ASSUME NEW w \in Sweepers, SweepStart(w) PROVE InOrder'
    BY <1>17 DEF SweepStart, PaymentInv, TypeOK, Requested, InOrder
<1>18. ASSUME NEW w \in Sweepers, SweepRow(w) PROVE InOrder'
    BY <1>18 DEF SweepRow, PaymentInv, TypeOK, Requested, InOrder
<1>19. ASSUME Crash PROVE InOrder'
    BY <1>19 DEF Crash, PaymentInv, TypeOK, Requested, InOrder
<1>20. ASSUME Restart PROVE InOrder'
    BY <1>20 DEF Restart, PaymentInv, TypeOK, Requested, InOrder
<1>21. CASE UNCHANGED vars
    BY <1>21 DEF vars, PaymentInv, TypeOK, Requested, InOrder
<1> QED
    BY <1>1, <1>2, <1>3, <1>4, <1>5, <1>6, <1>7, <1>8, <1>9,
       <1>10, <1>11, <1>12, <1>13, <1>14, <1>15, <1>16, <1>17, <1>18,
       <1>19, <1>20, <1>21
       DEF Next, StartStep

\* No step puts words into the provider's mouth.
LEMMA StepRepeated ==
    ASSUME PaymentInv, [Next]_vars
    PROVE  Repeated'
<1> USE DEF rowVars, providerVars, lifeVars
<1>1. ASSUME NEW x \in Txs, Request(x) PROVE Repeated'
    BY <1>1 DEF Request, PaymentInv, TypeOK, InOrder, Repeated, Calls
<1>2. ASSUME NEW x \in Txs, RecordDeposit(x) PROVE Repeated'
    BY <1>2 DEF RecordDeposit, Recorded, PaymentInv, TypeOK, InOrder, Repeated, Calls
<1>3. ASSUME NEW x \in Txs, ReserveWithdrawal(x) PROVE Repeated'
    BY <1>3 DEF ReserveWithdrawal, Recorded, PaymentInv, TypeOK, InOrder, Repeated, Calls
<1>4. ASSUME NEW x \in Txs, RequestFails(x) PROVE Repeated'
    BY <1>4 DEF RequestFails, PaymentInv, TypeOK, InOrder, Repeated, Calls
<1>5. ASSUME NEW x \in Txs, CallProvider(x) PROVE Repeated'
    BY <1>5 DEF CallProvider, PaymentInv, TypeOK, InOrder, Repeated, Calls
<1>6. ASSUME NEW x \in Txs, ProviderAnswers(x) PROVE Repeated'
    BY <1>6 DEF ProviderAnswers, PaymentInv, TypeOK, InOrder, Repeated, Calls
<1>7. ASSUME NEW x \in Txs, RecordProviderId(x) PROVE Repeated'
    BY <1>7 DEF RecordProviderId, PaymentInv, TypeOK, InOrder, Repeated, Calls
<1>8. ASSUME NEW x \in Txs, ProviderFails(x) PROVE Repeated'
    <2>1. /\ x \in Callers /\ "FAILED" \in Final
          /\ call \in [Callers -> Calls \cup {NoCall}] /\ UNCHANGED provider
        BY <1>8 DEF ProviderFails, providerVars, Callers, Final, PaymentInv, TypeOK
    <2>2. CASE Finalise(x, x, "FAILED", FALSE)
        <3>1. call'[x].status = "FAILED" /\ \A d \in Callers : d # x => call'[d] = call[d]
            BY <2>1, <2>2, FinaliseTyped
        <3> QED
            BY <2>1, <3>1 DEF PaymentInv, Repeated
    <2>3. CASE UNCHANGED call
        BY <2>1, <2>3 DEF PaymentInv, Repeated
    <2> QED
        BY <1>8, <2>2, <2>3 DEF ProviderFails
<1>9. ASSUME NEW x \in Txs, MarkFailed(x) PROVE Repeated'
    BY <1>9 DEF MarkFailed, PaymentInv, TypeOK, InOrder, Repeated, Calls
<1>10. ASSUME NEW x \in Txs, ProviderReceives(x) PROVE Repeated'
    BY <1>10 DEF ProviderReceives, PaymentInv, TypeOK, InOrder, Repeated, Calls
<1>11. ASSUME NEW x \in Txs, ProviderResolves(x) PROVE Repeated'
    BY <1>11 DEF ProviderResolves, PaymentInv, TypeOK, InOrder, Repeated, Calls
<1>12. ASSUME NEW x \in Txs, GrowOld(x) PROVE Repeated'
    BY <1>12 DEF GrowOld, PaymentInv, TypeOK, InOrder, Repeated, Calls
<1>13. ASSUME NEW x \in Txs, NEW h \in Handlers, Callback(h, x) PROVE Repeated'
    <2>1. /\ h \in Callers /\ provider[x] \in Final
          /\ call \in [Callers -> Calls \cup {NoCall}] /\ UNCHANGED provider
        BY <1>13 DEF Callback, Callers, Final, PaymentInv, TypeOK
    <2>2. CASE Finalise(h, x, provider[x], TRUE)
        <3>1. /\ call'[h].tx = x /\ call'[h].status = provider[x]
              /\ \A d \in Callers : d # h => call'[d] = call[d]
            BY <2>1, <2>2, FinaliseTyped
        <3> QED
            BY <2>1, <3>1 DEF PaymentInv, Repeated
    <2>3. CASE UNCHANGED call
        BY <2>1, <2>3 DEF PaymentInv, Repeated
    <2> QED
        BY <1>13, <2>2, <2>3 DEF Callback
<1>14. ASSUME NEW c \in Callers, FinaliseRead(c) PROVE Repeated'
    BY <1>14 DEF FinaliseRead, Return, PaymentInv, TypeOK, InOrder, Repeated, Calls
<1>15. ASSUME NEW c \in Callers, FinaliseWrite(c) PROVE Repeated'
    BY <1>15 DEF FinaliseWrite, Return, PaymentInv, TypeOK, InOrder, Repeated, Calls
<1>16. ASSUME NEW c \in Callers, FinaliseError(c) PROVE Repeated'
    BY <1>16 DEF FinaliseError, Return, PaymentInv, TypeOK, InOrder, Repeated, Calls
<1>17. ASSUME NEW w \in Sweepers, SweepStart(w) PROVE Repeated'
    BY <1>17 DEF SweepStart, PaymentInv, TypeOK, InOrder, Repeated, Calls
<1>18. ASSUME NEW w \in Sweepers, SweepRow(w) PROVE Repeated'
    <2>1. PICK e \in page[w] : SweepEntry(w, e)
        BY <1>18 DEF SweepRow
    <2>2. /\ e.tx \in Txs /\ w \in Callers /\ UNCHANGED provider
          /\ call \in [Callers -> Calls \cup {NoCall}]
        BY <1>18 DEF SweepRow, Callers, PaymentInv, TypeOK
    <2>3. ASSUME NEW s \in Final, s = "SUCCESS" => provider[e.tx] = "SUCCESS",
                 Finalise(w, e.tx, s, FALSE)
          PROVE  Repeated'
        <3>1. /\ call'[w].tx = e.tx /\ call'[w].status = s
              /\ \A d \in Callers : d # w => call'[d] = call[d]
            BY <2>2, <2>3, FinaliseTyped
        <3> QED
            BY <2>2, <2>3, <3>1 DEF PaymentInv, Repeated
    <2>4. CASE UNCHANGED call
        BY <2>2, <2>4 DEF PaymentInv, Repeated
    <2> QED
        BY <2>1, <2>3, <2>4 DEF SweepEntry, Answered, Final
<1>19. ASSUME Crash PROVE Repeated'
    BY <1>19 DEF Crash, PaymentInv, TypeOK, InOrder, Repeated, Calls
<1>20. ASSUME Restart PROVE Repeated'
    BY <1>20 DEF Restart, PaymentInv, TypeOK, InOrder, Repeated, Calls
<1>21. CASE UNCHANGED vars
    BY <1>21 DEF vars, PaymentInv, TypeOK, InOrder, Repeated, Calls
<1> QED
    BY <1>1, <1>2, <1>3, <1>4, <1>5, <1>6, <1>7, <1>8, <1>9,
       <1>10, <1>11, <1>12, <1>13, <1>14, <1>15, <1>16, <1>17, <1>18,
       <1>19, <1>20, <1>21
       DEF Next, StartStep

\* Before anything is requested it holds.
LEMMA InitTyped == Init => PaymentInv
<1> SUFFICES ASSUME Init PROVE PaymentInv
    OBVIOUS
<1>1. TypeOK
    BY ConstantsAssumption DEF Init, TypeOK
<1>2. {x \in Txs : order[x] # NoTx} = {}
    BY DEF Init
<1>3. Requested
    BY <1>2, FS_EmptySet DEF Init, Requested
<1>4. InOrder
    BY DEF Init, InOrder
<1>5. Repeated
    BY DEF Init, Repeated
<1> QED
    BY <1>1, <1>3, <1>4, <1>5 DEF PaymentInv

\* The inductive invariant.
THEOREM PaymentInvHolds == Spec => []PaymentInv
<1>1. PaymentInv /\ [Next]_vars => PaymentInv'
    BY StepTyped, StepRequested, StepInOrder, StepRepeated DEF PaymentInv
<1> QED
    BY <1>1, InitTyped, PTL DEF Spec

\* Every variable keeps its shape, and no balance is overdrawn.
THEOREM TypeCorrect == Spec => []TypeOK
<1>1. PaymentInv => TypeOK
    BY DEF PaymentInv
<1> QED
    BY <1>1, PaymentInvHolds, PTL

-----------------------------------------------------------------------------
\* No step credits what was not paid, or takes back that it was paid.
LEMMA StepCredited ==
    ASSUME PaymentInv, CreditedOnlyIfPaid, [Next]_vars
    PROVE  CreditedOnlyIfPaid'
<1> USE DEF rowVars, providerVars, lifeVars
<1>1. ASSUME NEW x \in Txs, Request(x) PROVE CreditedOnlyIfPaid'
    <2>1. order[x] = NoTx /\ ~applied[x] /\ row[x] = "NONE"
        BY <1>1 DEF Request, PaymentInv, Requested, rowVars
    <2>2. \A y \in Txs : y # x => order'[y] = order[y]
        BY <1>1 DEF Request, PaymentInv, TypeOK
    <2> QED
        BY <1>1, <2>1, <2>2 DEF Request, CreditedOnlyIfPaid, IsDeposit
<1>2. ASSUME NEW x \in Txs, RecordDeposit(x) PROVE CreditedOnlyIfPaid'
    BY <1>2 DEF RecordDeposit, Recorded, PaymentInv, TypeOK, InOrder, CreditedOnlyIfPaid, IsDeposit
<1>3. ASSUME NEW x \in Txs, ReserveWithdrawal(x) PROVE CreditedOnlyIfPaid'
    BY <1>3 DEF ReserveWithdrawal, Recorded, PaymentInv, TypeOK, InOrder, CreditedOnlyIfPaid, IsDeposit
<1>4. ASSUME NEW x \in Txs, RequestFails(x) PROVE CreditedOnlyIfPaid'
    BY <1>4 DEF RequestFails, PaymentInv, TypeOK, InOrder, CreditedOnlyIfPaid, IsDeposit
<1>5. ASSUME NEW x \in Txs, CallProvider(x) PROVE CreditedOnlyIfPaid'
    BY <1>5 DEF CallProvider, PaymentInv, TypeOK, InOrder, CreditedOnlyIfPaid, IsDeposit
<1>6. ASSUME NEW x \in Txs, ProviderAnswers(x) PROVE CreditedOnlyIfPaid'
    BY <1>6 DEF ProviderAnswers, PaymentInv, TypeOK, InOrder, CreditedOnlyIfPaid, IsDeposit
<1>7. ASSUME NEW x \in Txs, RecordProviderId(x) PROVE CreditedOnlyIfPaid'
    BY <1>7 DEF RecordProviderId, PaymentInv, TypeOK, InOrder, CreditedOnlyIfPaid, IsDeposit
<1>8. ASSUME NEW x \in Txs, ProviderFails(x) PROVE CreditedOnlyIfPaid'
    BY <1>8 DEF ProviderFails, PaymentInv, TypeOK, InOrder, CreditedOnlyIfPaid, IsDeposit
<1>9. ASSUME NEW x \in Txs, MarkFailed(x) PROVE CreditedOnlyIfPaid'
    BY <1>9 DEF MarkFailed, PaymentInv, TypeOK, InOrder, CreditedOnlyIfPaid, IsDeposit
<1>10. ASSUME NEW x \in Txs, ProviderReceives(x) PROVE CreditedOnlyIfPaid'
    BY <1>10 DEF ProviderReceives, PaymentInv, TypeOK, InOrder, CreditedOnlyIfPaid, IsDeposit
<1>11. ASSUME NEW x \in Txs, ProviderResolves(x) PROVE CreditedOnlyIfPaid'
    BY <1>11 DEF ProviderResolves, PaymentInv, TypeOK, InOrder, CreditedOnlyIfPaid, IsDeposit
<1>12. ASSUME NEW x \in Txs, GrowOld(x) PROVE CreditedOnlyIfPaid'
    BY <1>12 DEF GrowOld, PaymentInv, TypeOK, InOrder, CreditedOnlyIfPaid, IsDeposit
<1>13. ASSUME NEW x \in Txs, NEW h \in Handlers, Callback(h, x) PROVE CreditedOnlyIfPaid'
    BY <1>13 DEF Callback, PaymentInv, TypeOK, InOrder, CreditedOnlyIfPaid, IsDeposit
<1>14. ASSUME NEW c \in Callers, FinaliseRead(c) PROVE CreditedOnlyIfPaid'
    BY <1>14 DEF FinaliseRead, Return, PaymentInv, TypeOK, InOrder, CreditedOnlyIfPaid, IsDeposit
<1>15. ASSUME NEW c \in Callers, FinaliseWrite(c) PROVE CreditedOnlyIfPaid'
    <2>1. TypeOK /\ Requested
        BY DEF PaymentInv
    <2> DEFINE x == call[c].tx
               s == call[c].status
    <2>2. /\ call[c] # NoCall /\ x \in Txs /\ s \in Final /\ order[x] # NoTx
          /\ call[c].id \in BOOLEAN
          /\ IsDeposit(x) => ApplyDeposit(x, s, call[c].id)
          /\ \A y \in Txs : y # x => row'[y] = row[y] /\ applied'[y] = applied[y]
          /\ row'[x] \in {row[x], s}
          /\ UNCHANGED <<order, providerVars>>
        BY <1>15, <2>1, FinaliseWrites, CallTyped
    <2>3. s = "SUCCESS" => provider[x] = "SUCCESS"
        BY <2>2 DEF PaymentInv, Repeated
    <2>4. row'[x] = "SUCCESS" => provider'[x] = "SUCCESS"
        BY <2>2, <2>3 DEF CreditedOnlyIfPaid
    <2>5. applied'[x] /\ IsDeposit(x) => applied[x] \/ s = "SUCCESS"
        BY <2>1, <2>2, DepositApplied
    <2>6. applied'[x] /\ IsDeposit(x) => provider'[x] = "SUCCESS"
        BY <2>2, <2>3, <2>5 DEF CreditedOnlyIfPaid
    <2> HIDE DEF x, s
    <2> QED
        BY <2>2, <2>4, <2>6 DEF CreditedOnlyIfPaid, IsDeposit
<1>16. ASSUME NEW c \in Callers, FinaliseError(c) PROVE CreditedOnlyIfPaid'
    BY <1>16 DEF FinaliseError, Return, PaymentInv, TypeOK, InOrder, CreditedOnlyIfPaid, IsDeposit
<1>17. ASSUME NEW w \in Sweepers, SweepStart(w) PROVE CreditedOnlyIfPaid'
    BY <1>17 DEF SweepStart, PaymentInv, TypeOK, InOrder, CreditedOnlyIfPaid, IsDeposit
<1>18. ASSUME NEW w \in Sweepers, SweepRow(w) PROVE CreditedOnlyIfPaid'
    BY <1>18 DEF SweepRow, PaymentInv, TypeOK, InOrder, CreditedOnlyIfPaid, IsDeposit
<1>19. ASSUME Crash PROVE CreditedOnlyIfPaid'
    BY <1>19 DEF Crash, PaymentInv, TypeOK, InOrder, CreditedOnlyIfPaid, IsDeposit
<1>20. ASSUME Restart PROVE CreditedOnlyIfPaid'
    BY <1>20 DEF Restart, PaymentInv, TypeOK, InOrder, CreditedOnlyIfPaid, IsDeposit
<1>21. CASE UNCHANGED vars
    BY <1>21 DEF vars, PaymentInv, TypeOK, InOrder, CreditedOnlyIfPaid, IsDeposit
<1> QED
    BY <1>1, <1>2, <1>3, <1>4, <1>5, <1>6, <1>7, <1>8, <1>9,
       <1>10, <1>11, <1>12, <1>13, <1>14, <1>15, <1>16, <1>17, <1>18,
       <1>19, <1>20, <1>21
       DEF Next, StartStep

\* A deposit is credited only if the customer paid it, and nothing is a success that the
\* provider does not call one.
THEOREM PaidBeforeCredit == Spec => []CreditedOnlyIfPaid
<1>1. Init => CreditedOnlyIfPaid
    BY DEF Init, CreditedOnlyIfPaid
<1>2. PaymentInv /\ CreditedOnlyIfPaid /\ [Next]_vars => CreditedOnlyIfPaid'
    BY StepCredited
<1> QED
    BY <1>1, <1>2, PaymentInvHolds, PTL DEF Spec

\* No step reopens what is finished.
LEMMA StepFinished ==
    ASSUME PaymentInv, [Next]_vars, NEW z \in Txs, order[z] # NoTx
    PROVE  /\ ~IsDeposit(z) /\ row[z] \in Final => row'[z] = row[z]
           /\ IsDeposit(z) /\ applied[z] => applied'[z]
<1> USE DEF rowVars, providerVars, lifeVars
<1>1. ASSUME NEW x \in Txs, Request(x) PROVE
           /\ ~IsDeposit(z) /\ row[z] \in Final => row'[z] = row[z]
           /\ IsDeposit(z) /\ applied[z] => applied'[z]
    BY <1>1 DEF Request, PaymentInv, TypeOK, InOrder, Final, IsDeposit
<1>2. ASSUME NEW x \in Txs, RecordDeposit(x) PROVE
           /\ ~IsDeposit(z) /\ row[z] \in Final => row'[z] = row[z]
           /\ IsDeposit(z) /\ applied[z] => applied'[z]
    BY <1>2 DEF RecordDeposit, Recorded, PaymentInv, TypeOK, InOrder, Final, IsDeposit
<1>3. ASSUME NEW x \in Txs, ReserveWithdrawal(x) PROVE
           /\ ~IsDeposit(z) /\ row[z] \in Final => row'[z] = row[z]
           /\ IsDeposit(z) /\ applied[z] => applied'[z]
    BY <1>3 DEF ReserveWithdrawal, Recorded, PaymentInv, TypeOK, InOrder, Final, IsDeposit
<1>4. ASSUME NEW x \in Txs, RequestFails(x) PROVE
           /\ ~IsDeposit(z) /\ row[z] \in Final => row'[z] = row[z]
           /\ IsDeposit(z) /\ applied[z] => applied'[z]
    BY <1>4 DEF RequestFails, PaymentInv, TypeOK, InOrder, Final, IsDeposit
<1>5. ASSUME NEW x \in Txs, CallProvider(x) PROVE
           /\ ~IsDeposit(z) /\ row[z] \in Final => row'[z] = row[z]
           /\ IsDeposit(z) /\ applied[z] => applied'[z]
    BY <1>5 DEF CallProvider, PaymentInv, TypeOK, InOrder, Final, IsDeposit
<1>6. ASSUME NEW x \in Txs, ProviderAnswers(x) PROVE
           /\ ~IsDeposit(z) /\ row[z] \in Final => row'[z] = row[z]
           /\ IsDeposit(z) /\ applied[z] => applied'[z]
    BY <1>6 DEF ProviderAnswers, PaymentInv, TypeOK, InOrder, Final, IsDeposit
<1>7. ASSUME NEW x \in Txs, RecordProviderId(x) PROVE
           /\ ~IsDeposit(z) /\ row[z] \in Final => row'[z] = row[z]
           /\ IsDeposit(z) /\ applied[z] => applied'[z]
    BY <1>7 DEF RecordProviderId, PaymentInv, TypeOK, InOrder, Final, IsDeposit
<1>8. ASSUME NEW x \in Txs, ProviderFails(x) PROVE
           /\ ~IsDeposit(z) /\ row[z] \in Final => row'[z] = row[z]
           /\ IsDeposit(z) /\ applied[z] => applied'[z]
    BY <1>8 DEF ProviderFails, PaymentInv, TypeOK, InOrder, Final, IsDeposit
<1>9. ASSUME NEW x \in Txs, MarkFailed(x) PROVE
           /\ ~IsDeposit(z) /\ row[z] \in Final => row'[z] = row[z]
           /\ IsDeposit(z) /\ applied[z] => applied'[z]
    BY <1>9 DEF MarkFailed, PaymentInv, TypeOK, InOrder, Final, IsDeposit
<1>10. ASSUME NEW x \in Txs, ProviderReceives(x) PROVE
           /\ ~IsDeposit(z) /\ row[z] \in Final => row'[z] = row[z]
           /\ IsDeposit(z) /\ applied[z] => applied'[z]
    BY <1>10 DEF ProviderReceives, PaymentInv, TypeOK, InOrder, Final, IsDeposit
<1>11. ASSUME NEW x \in Txs, ProviderResolves(x) PROVE
           /\ ~IsDeposit(z) /\ row[z] \in Final => row'[z] = row[z]
           /\ IsDeposit(z) /\ applied[z] => applied'[z]
    BY <1>11 DEF ProviderResolves, PaymentInv, TypeOK, InOrder, Final, IsDeposit
<1>12. ASSUME NEW x \in Txs, GrowOld(x) PROVE
           /\ ~IsDeposit(z) /\ row[z] \in Final => row'[z] = row[z]
           /\ IsDeposit(z) /\ applied[z] => applied'[z]
    BY <1>12 DEF GrowOld, PaymentInv, TypeOK, InOrder, Final, IsDeposit
<1>13. ASSUME NEW x \in Txs, NEW h \in Handlers, Callback(h, x) PROVE
           /\ ~IsDeposit(z) /\ row[z] \in Final => row'[z] = row[z]
           /\ IsDeposit(z) /\ applied[z] => applied'[z]
    BY <1>13 DEF Callback, PaymentInv, TypeOK, InOrder, Final, IsDeposit
<1>14. ASSUME NEW c \in Callers, FinaliseRead(c) PROVE
           /\ ~IsDeposit(z) /\ row[z] \in Final => row'[z] = row[z]
           /\ IsDeposit(z) /\ applied[z] => applied'[z]
    BY <1>14 DEF FinaliseRead, Return, PaymentInv, TypeOK, InOrder, Final, IsDeposit
<1>15. ASSUME NEW c \in Callers, FinaliseWrite(c) PROVE
           /\ ~IsDeposit(z) /\ row[z] \in Final => row'[z] = row[z]
           /\ IsDeposit(z) /\ applied[z] => applied'[z]
    <2>1. TypeOK /\ Requested
        BY DEF PaymentInv
    <2> DEFINE x == call[c].tx
               s == call[c].status
    <2>2. /\ x \in Txs /\ s \in Final /\ order[x] # NoTx /\ call[c].id \in BOOLEAN
          /\ IsDeposit(x) => ApplyDeposit(x, s, call[c].id)
          /\ ~IsDeposit(x) => SettleWithdrawal(x, s)
          /\ \A y \in Txs : y # x => row'[y] = row[y] /\ applied'[y] = applied[y]
        BY <1>15, <2>1, FinaliseWrites, CallTyped
    <2> HIDE DEF x, s
    <2>3. IsDeposit(x) /\ applied[x] => applied'[x]
        BY <2>1, <2>2, DepositApplied
    <2>4. ~IsDeposit(x) /\ row[x] \in Final => row'[x] = row[x]
        BY <2>1, <2>2, WithdrawalSettled DEF Final
    <2> QED
        BY <2>2, <2>3, <2>4
<1>16. ASSUME NEW c \in Callers, FinaliseError(c) PROVE
           /\ ~IsDeposit(z) /\ row[z] \in Final => row'[z] = row[z]
           /\ IsDeposit(z) /\ applied[z] => applied'[z]
    BY <1>16 DEF FinaliseError, Return, PaymentInv, TypeOK, InOrder, Final, IsDeposit
<1>17. ASSUME NEW w \in Sweepers, SweepStart(w) PROVE
           /\ ~IsDeposit(z) /\ row[z] \in Final => row'[z] = row[z]
           /\ IsDeposit(z) /\ applied[z] => applied'[z]
    BY <1>17 DEF SweepStart, PaymentInv, TypeOK, InOrder, Final, IsDeposit
<1>18. ASSUME NEW w \in Sweepers, SweepRow(w) PROVE
           /\ ~IsDeposit(z) /\ row[z] \in Final => row'[z] = row[z]
           /\ IsDeposit(z) /\ applied[z] => applied'[z]
    BY <1>18 DEF SweepRow, PaymentInv, TypeOK, InOrder, Final, IsDeposit
<1>19. ASSUME Crash PROVE
           /\ ~IsDeposit(z) /\ row[z] \in Final => row'[z] = row[z]
           /\ IsDeposit(z) /\ applied[z] => applied'[z]
    BY <1>19 DEF Crash, PaymentInv, TypeOK, InOrder, Final, IsDeposit
<1>20. ASSUME Restart PROVE
           /\ ~IsDeposit(z) /\ row[z] \in Final => row'[z] = row[z]
           /\ IsDeposit(z) /\ applied[z] => applied'[z]
    BY <1>20 DEF Restart, PaymentInv, TypeOK, InOrder, Final, IsDeposit
<1>21. CASE UNCHANGED vars
    BY <1>21 DEF vars, PaymentInv, TypeOK, InOrder, Final, IsDeposit
<1> QED
    BY <1>1, <1>2, <1>3, <1>4, <1>5, <1>6, <1>7, <1>8, <1>9,
       <1>10, <1>11, <1>12, <1>13, <1>14, <1>15, <1>16, <1>17, <1>18,
       <1>19, <1>20, <1>21
       DEF Next, StartStep

\* A finished withdrawal is final, and a deposit once credited stays credited.
THEOREM StaysFinished == Spec => FinishedOnce
<1> DEFINE Stays == \A x \in Txs :
               /\ order[x] # NoTx /\ ~IsDeposit(x) /\ row[x] \in Final => row'[x] = row[x]
               /\ order[x] # NoTx /\ IsDeposit(x) /\ applied[x] => applied'[x]
<1>1. PaymentInv /\ [Next]_vars => Stays
    BY StepFinished
<1>2. PaymentInv /\ [Next]_vars => [Stays]_vars
    BY <1>1
<1> QED
    BY <1>2, PaymentInvHolds, PTL DEF Spec, FinishedOnce

\* No step leaves two payouts of one account pending.
LEMMA StepOnePayout ==
    ASSUME PaymentInv, OnePayoutAtATime, [Next]_vars
    PROVE  OnePayoutAtATime'
<1> USE DEF rowVars, providerVars, lifeVars
<1>1. ASSUME NEW x \in Txs, Request(x) PROVE OnePayoutAtATime'
    <2>1. row[x] = "NONE"
        BY <1>1 DEF Request, PaymentInv, Requested, rowVars
    <2>2. \A y \in Txs : y # x => order'[y] = order[y]
        BY <1>1 DEF Request, PaymentInv, TypeOK
    <2> QED
        BY <1>1, <2>1, <2>2 DEF Request, OnePayoutAtATime, IsDeposit
<1>2. ASSUME NEW x \in Txs, RecordDeposit(x) PROVE OnePayoutAtATime'
    BY <1>2 DEF RecordDeposit, Recorded, PaymentInv, TypeOK, InOrder, OnePayoutAtATime, IsDeposit
<1>3. ASSUME NEW x \in Txs, ReserveWithdrawal(x) PROVE OnePayoutAtATime'
    <2>1. \A y \in Txs : row[y] = "PENDING" /\ ~IsDeposit(y) => order[y].user # order[x].user
        BY <1>3 DEF ReserveWithdrawal, InFlight
    <2>2. UNCHANGED order /\ \A y \in Txs : y # x => row'[y] = row[y]
        BY <1>3 DEF ReserveWithdrawal, Recorded, PaymentInv, TypeOK
    <2> QED
        BY <2>1, <2>2 DEF OnePayoutAtATime, IsDeposit
<1>4. ASSUME NEW x \in Txs, RequestFails(x) PROVE OnePayoutAtATime'
    BY <1>4 DEF RequestFails, PaymentInv, TypeOK, InOrder, OnePayoutAtATime, IsDeposit
<1>5. ASSUME NEW x \in Txs, CallProvider(x) PROVE OnePayoutAtATime'
    BY <1>5 DEF CallProvider, PaymentInv, TypeOK, InOrder, OnePayoutAtATime, IsDeposit
<1>6. ASSUME NEW x \in Txs, ProviderAnswers(x) PROVE OnePayoutAtATime'
    BY <1>6 DEF ProviderAnswers, PaymentInv, TypeOK, InOrder, OnePayoutAtATime, IsDeposit
<1>7. ASSUME NEW x \in Txs, RecordProviderId(x) PROVE OnePayoutAtATime'
    BY <1>7 DEF RecordProviderId, PaymentInv, TypeOK, InOrder, OnePayoutAtATime, IsDeposit
<1>8. ASSUME NEW x \in Txs, ProviderFails(x) PROVE OnePayoutAtATime'
    BY <1>8 DEF ProviderFails, PaymentInv, TypeOK, InOrder, OnePayoutAtATime, IsDeposit
<1>9. ASSUME NEW x \in Txs, MarkFailed(x) PROVE OnePayoutAtATime'
    BY <1>9 DEF MarkFailed, PaymentInv, TypeOK, InOrder, OnePayoutAtATime, IsDeposit
<1>10. ASSUME NEW x \in Txs, ProviderReceives(x) PROVE OnePayoutAtATime'
    BY <1>10 DEF ProviderReceives, PaymentInv, TypeOK, InOrder, OnePayoutAtATime, IsDeposit
<1>11. ASSUME NEW x \in Txs, ProviderResolves(x) PROVE OnePayoutAtATime'
    BY <1>11 DEF ProviderResolves, PaymentInv, TypeOK, InOrder, OnePayoutAtATime, IsDeposit
<1>12. ASSUME NEW x \in Txs, GrowOld(x) PROVE OnePayoutAtATime'
    BY <1>12 DEF GrowOld, PaymentInv, TypeOK, InOrder, OnePayoutAtATime, IsDeposit
<1>13. ASSUME NEW x \in Txs, NEW h \in Handlers, Callback(h, x) PROVE OnePayoutAtATime'
    BY <1>13 DEF Callback, PaymentInv, TypeOK, InOrder, OnePayoutAtATime, IsDeposit
<1>14. ASSUME NEW c \in Callers, FinaliseRead(c) PROVE OnePayoutAtATime'
    BY <1>14 DEF FinaliseRead, Return, PaymentInv, TypeOK, InOrder, OnePayoutAtATime, IsDeposit
<1>15. ASSUME NEW c \in Callers, FinaliseWrite(c) PROVE OnePayoutAtATime'
    <2>1. TypeOK /\ Requested
        BY DEF PaymentInv
    <2>2. /\ \A y \in Txs : y # call[c].tx => row'[y] = row[y]
          /\ row'[call[c].tx] \in {row[call[c].tx], call[c].status}
          /\ call[c].status \in Final /\ UNCHANGED order
        BY <1>15, <2>1, FinaliseWrites
    <2>3. \A y \in Txs : row'[y] = "PENDING" => row[y] = "PENDING"
        BY <2>2 DEF Final
    <2> QED
        BY <2>2, <2>3 DEF OnePayoutAtATime, IsDeposit
<1>16. ASSUME NEW c \in Callers, FinaliseError(c) PROVE OnePayoutAtATime'
    BY <1>16 DEF FinaliseError, Return, PaymentInv, TypeOK, InOrder, OnePayoutAtATime, IsDeposit
<1>17. ASSUME NEW w \in Sweepers, SweepStart(w) PROVE OnePayoutAtATime'
    BY <1>17 DEF SweepStart, PaymentInv, TypeOK, InOrder, OnePayoutAtATime, IsDeposit
<1>18. ASSUME NEW w \in Sweepers, SweepRow(w) PROVE OnePayoutAtATime'
    BY <1>18 DEF SweepRow, PaymentInv, TypeOK, InOrder, OnePayoutAtATime, IsDeposit
<1>19. ASSUME Crash PROVE OnePayoutAtATime'
    BY <1>19 DEF Crash, PaymentInv, TypeOK, InOrder, OnePayoutAtATime, IsDeposit
<1>20. ASSUME Restart PROVE OnePayoutAtATime'
    BY <1>20 DEF Restart, PaymentInv, TypeOK, InOrder, OnePayoutAtATime, IsDeposit
<1>21. CASE UNCHANGED vars
    BY <1>21 DEF vars, PaymentInv, TypeOK, InOrder, OnePayoutAtATime, IsDeposit
<1> QED
    BY <1>1, <1>2, <1>3, <1>4, <1>5, <1>6, <1>7, <1>8, <1>9,
       <1>10, <1>11, <1>12, <1>13, <1>14, <1>15, <1>16, <1>17, <1>18,
       <1>19, <1>20, <1>21
       DEF Next, StartStep

\* One pending payout per account at a time.
THEOREM OnePayout == Spec => []OnePayoutAtATime
<1>1. Init => OnePayoutAtATime
    BY DEF Init, OnePayoutAtATime
<1>2. PaymentInv /\ OnePayoutAtATime /\ [Next]_vars => OnePayoutAtATime'
    BY StepOnePayout
<1> QED
    BY <1>1, <1>2, PaymentInvHolds, PTL DEF Spec

-----------------------------------------------------------------------------
\* What was credited to an account, what was taken from it, and what that is worth.
Credited(u) ==
    {x \in Txs : order[x] # NoTx /\ IsDeposit(x) /\ applied[x] /\ order[x].user = u}
Debited(u) ==
    {x \in Txs : /\ order[x] # NoTx /\ ~IsDeposit(x) /\ row[x] \in {"PENDING", "SUCCESS"}
                 /\ order[x].user = u}
Worth(o, S) == SumFunctionOnSet([x \in Txs |-> o[x].amount], S)

AddsUp ==
    \A u \in Users :
        balance[u] = StartBalance + Worth(order, Credited(u)) - Worth(order, Debited(u))

\* They are finitely many, and each has an amount.
LEMMA Booked ==
    ASSUME PaymentInv, NEW u \in Users
    PROVE  /\ IsFiniteSet(Credited(u)) /\ Credited(u) \subseteq Txs
           /\ IsFiniteSet(Debited(u)) /\ Debited(u) \subseteq Txs
           /\ \A x \in Credited(u) \cup Debited(u) : order[x] # NoTx /\ order[x].amount \in Int
<1>1. IsFiniteSet({x \in Txs : order[x] # NoTx})
    BY DEF PaymentInv, Requested
<1>2. /\ Credited(u) \subseteq {x \in Txs : order[x] # NoTx}
      /\ Debited(u) \subseteq {x \in Txs : order[x] # NoTx}
    BY DEF Credited, Debited
<1>3. IsFiniteSet(Credited(u)) /\ IsFiniteSet(Debited(u))
    BY <1>1, <1>2, FS_Subset
<1> QED
    BY <1>2, <1>3, RequestedTyped DEF PaymentInv

\* A sum over the same transactions is the same, an added one counts once.
LEMMA WorthSame ==
    ASSUME NEW S, IsFiniteSet(S), S \subseteq Txs, NEW o, NEW q,
           \A x \in S : o[x].amount \in Int /\ q[x] = o[x]
    PROVE  Worth(q, S) = Worth(o, S) /\ Worth(o, S) \in Int
<1> DEFINE f == [x \in Txs |-> o[x].amount]
           h == [x \in Txs |-> q[x].amount]
<1>1. \A x \in S : f[x] \in Int /\ f[x] = h[x]
    OBVIOUS
<1> HIDE DEF f, h
<1>2. SumFunctionOnSet(f, S) = SumFunctionOnSet(h, S)
    BY <1>1, SumSame
<1>3. SumFunctionOnSet(f, S) \in Int
    BY <1>1, SumInt
<1> QED
    BY <1>2, <1>3 DEF f, h, Worth

\* One more transaction adds its amount.
LEMMA WorthMore ==
    ASSUME NEW S, IsFiniteSet(S), S \subseteq Txs, NEW x \in Txs, x \notin S, NEW o,
           \A y \in S \cup {x} : o[y].amount \in Int
    PROVE  Worth(o, S \cup {x}) = o[x].amount + Worth(o, S)
<1> DEFINE f == [y \in Txs |-> o[y].amount]
<1>1. f[x] = o[x].amount /\ \A y \in S \cup {x} : f[y] \in Int
    OBVIOUS
<1> HIDE DEF f
<1>2. SumFunctionOnSet(f, S \cup {x}) = f[x] + SumFunctionOnSet(f, S)
    BY <1>1, SumAdd
<1> QED
    BY <1>1, <1>2 DEF f, Worth

\* What neither moves money nor books it leaves the sum.
LEMMA Undisturbed ==
    ASSUME PaymentInv, AddsUp, UNCHANGED balance,
           \A x \in Txs : order[x] # NoTx => order'[x] = order[x],
           \A u \in Users : Credited(u)' = Credited(u) /\ Debited(u)' = Debited(u)
    PROVE  AddsUp'
<1> SUFFICES ASSUME NEW u \in Users
             PROVE  balance'[u] = StartBalance + Worth(order', Credited(u)') - Worth(order', Debited(u)')
    BY DEF AddsUp
<1>1. /\ \A x \in Credited(u) : order[x].amount \in Int /\ order'[x] = order[x]
      /\ \A x \in Debited(u) : order[x].amount \in Int /\ order'[x] = order[x]
      /\ IsFiniteSet(Credited(u)) /\ Credited(u) \subseteq Txs
      /\ IsFiniteSet(Debited(u)) /\ Debited(u) \subseteq Txs
    BY Booked
<1>2. Worth(order', Credited(u)) = Worth(order, Credited(u))
    BY <1>1, WorthSame
<1>3. Worth(order', Debited(u)) = Worth(order, Debited(u))
    BY <1>1, WorthSame
<1> QED
    BY <1>2, <1>3 DEF AddsUp

\* So what touches neither the records nor the orders leaves it.
LEMMA NothingBooked ==
    ASSUME PaymentInv, AddsUp, UNCHANGED <<rowVars, order>>
    PROVE  AddsUp'
<1>1. UNCHANGED <<balance, row, applied, order>>
    BY DEF rowVars
<1>2. \A u \in Users : Credited(u)' = Credited(u) /\ Debited(u)' = Debited(u)
    BY <1>1 DEF Credited, Debited, IsDeposit
<1> QED
    BY <1>1, <1>2, Undisturbed

\* What is about one transaction concerns its owner alone.
LEMMA OwnersAlone ==
    ASSUME NEW x \in Txs, UNCHANGED order,
           \A y \in Txs : y # x => row'[y] = row[y] /\ applied'[y] = applied[y],
           NEW u \in Users, order[x].user # u
    PROVE  Credited(u)' = Credited(u) /\ Debited(u)' = Debited(u)
<1>1. \A y \in Txs : order'[y] = order[y]
    OBVIOUS
<1>2. Credited(u)' = Credited(u)
    BY <1>1 DEF Credited, IsDeposit
<1>3. Debited(u)' = Debited(u)
    BY <1>1 DEF Debited, IsDeposit
<1> QED
    BY <1>2, <1>3

\* Money that moves is booked: the owner's books change by what the balance changes by.
LEMMA MovedAndBooked ==
    ASSUME PaymentInv, AddsUp, NEW x \in Txs, order[x] # NoTx, UNCHANGED order,
           \A y \in Txs : y # x => row'[y] = row[y] /\ applied'[y] = applied[y],
           NEW d \in Int,
           balance' = [balance EXCEPT ![order[x].user] = balance[order[x].user] + d],
           Worth(order, Credited(order[x].user)') - Worth(order, Debited(order[x].user)') =
           Worth(order, Credited(order[x].user)) - Worth(order, Debited(order[x].user)) + d,
           Worth(order, Credited(order[x].user)') \in Int,
           Worth(order, Debited(order[x].user)') \in Int
    PROVE  AddsUp'
<1> SUFFICES ASSUME NEW u \in Users
             PROVE  balance'[u] = StartBalance + Worth(order', Credited(u)') - Worth(order', Debited(u)')
    BY DEF AddsUp
<1>1. /\ balance[u] = StartBalance + Worth(order, Credited(u)) - Worth(order, Debited(u))
      /\ balance \in [Users -> Nat] /\ StartBalance \in Int
    BY ConstantsAssumption DEF AddsUp, PaymentInv, TypeOK
<1>2. Worth(order, Credited(u)) \in Int /\ Worth(order, Debited(u)) \in Int
    <2>1. /\ \A y \in Credited(u) : order[y].amount \in Int /\ order[y] = order[y]
          /\ \A y \in Debited(u) : order[y].amount \in Int /\ order[y] = order[y]
          /\ IsFiniteSet(Credited(u)) /\ Credited(u) \subseteq Txs
          /\ IsFiniteSet(Debited(u)) /\ Debited(u) \subseteq Txs
        BY Booked
    <2> QED
        BY <2>1, WorthSame
<1>3. CASE u = order[x].user
    <2>1. balance'[u] = balance[u] + d
        BY <1>1, <1>3
    <2>2. /\ Worth(order, Credited(u)') - Worth(order, Debited(u)') =
             Worth(order, Credited(u)) - Worth(order, Debited(u)) + d
          /\ Worth(order, Credited(u)') \in Int /\ Worth(order, Debited(u)') \in Int
        BY <1>3
    <2>3. balance'[u] = StartBalance + Worth(order, Credited(u)') - Worth(order, Debited(u)')
        BY <1>1, <1>2, <2>1, <2>2
    <2> QED
        BY <2>3
<1>4. CASE u # order[x].user
    <2>1. Credited(u)' = Credited(u) /\ Debited(u)' = Debited(u)
        BY <1>4, OwnersAlone
    <2>2. balance'[u] = balance[u]
        BY <1>1, <1>4
    <2> QED
        BY <1>1, <2>1, <2>2
<1> QED
    BY <1>3, <1>4

\* fpesa_reserve_withdrawal takes what it books.
LEMMA ReservedAndBooked ==
    ASSUME PaymentInv, AddsUp, NEW x \in Txs, ReserveWithdrawal(x)
    PROVE  AddsUp'
<1> DEFINE u == order[x].user
           a == order[x].amount
<1>1. order[x] # NoTx /\ row[x] = "NONE" /\ ~IsDeposit(x)
    BY DEF ReserveWithdrawal, Recorded, PaymentInv, Requested, InOrder
<1>2. /\ u \in Users /\ a \in Int /\ 0 - a \in Int
      /\ balance[u] \in Int /\ balance \in [Users -> Nat]
    BY <1>1, RequestedTyped DEF PaymentInv, TypeOK
<1>3. /\ row' = [row EXCEPT ![x] = "PENDING"] /\ applied' = [applied EXCEPT ![x] = TRUE]
      /\ balance' = [balance EXCEPT ![u] = balance[u] - a] /\ UNCHANGED order
    BY DEF ReserveWithdrawal, Recorded
<1>4. /\ row'[x] = "PENDING"
      /\ \A y \in Txs : y # x => row'[y] = row[y] /\ applied'[y] = applied[y]
    BY <1>3 DEF PaymentInv, TypeOK
<1>5. Credited(u)' = Credited(u)
    BY <1>1, <1>3, <1>4 DEF Credited, IsDeposit
<1>6. Debited(u)' = Debited(u) \cup {x} /\ x \notin Debited(u)
    BY <1>1, <1>3, <1>4 DEF Debited, IsDeposit
<1> HIDE DEF u, a
<1>7. /\ \A y \in Credited(u) : order[y].amount \in Int /\ order[y] = order[y]
      /\ \A y \in Debited(u) : order[y].amount \in Int /\ order[y] = order[y]
      /\ IsFiniteSet(Credited(u)) /\ Credited(u) \subseteq Txs
      /\ IsFiniteSet(Debited(u)) /\ Debited(u) \subseteq Txs
    BY <1>2, Booked
<1>8. Worth(order, Credited(u)) \in Int /\ Worth(order, Debited(u)) \in Int
    BY <1>7, WorthSame
<1>9. Worth(order, Debited(u) \cup {x}) = a + Worth(order, Debited(u))
    BY <1>2, <1>6, <1>7, WorthMore DEF a
<1>10. balance' = [balance EXCEPT ![u] = balance[u] + (0 - a)]
    <2>1. balance[u] - a = balance[u] + (0 - a)
        BY <1>2
    <2> QED
        BY <1>3, <2>1
<1>11. /\ Worth(order, Credited(u)') - Worth(order, Debited(u)') =
          Worth(order, Credited(u)) - Worth(order, Debited(u)) + (0 - a)
       /\ Worth(order, Credited(u)') \in Int /\ Worth(order, Debited(u)') \in Int
    BY <1>2, <1>5, <1>6, <1>8, <1>9
<1> QED
    BY <1>1, <1>2, <1>3, <1>4, <1>10, <1>11, MovedAndBooked DEF u

\* fpesa_apply_deposit credits what it books.
LEMMA CreditedAndBooked ==
    ASSUME PaymentInv, AddsUp, NEW x \in Txs, order[x] # NoTx, IsDeposit(x),
           NEW status \in Final, NEW id \in BOOLEAN, ApplyDeposit(x, status, id), UNCHANGED order
    PROVE  AddsUp'
<1> DEFINE u == order[x].user
           a == order[x].amount
<1>1. TypeOK
    BY DEF PaymentInv
<1>2. /\ u \in Users /\ a \in Int /\ balance[u] \in Int /\ balance \in [Users -> Nat]
    BY <1>1, RequestedTyped DEF TypeOK
<1>3. /\ \A y \in Txs : y # x => row'[y] = row[y] /\ applied'[y] = applied[y]
      /\ applied[x] => applied'[x] /\ balance' = balance
      /\ ~applied[x] => /\ applied'[x] = (status = "SUCCESS")
                        /\ balance' = IF status = "SUCCESS"
                              THEN [balance EXCEPT ![u] = balance[u] + a] ELSE balance
    BY <1>1, DepositApplied
<1>4. Debited(u)' = Debited(u) /\ \A v \in Users : v # u =>
          Credited(v)' = Credited(v) /\ Debited(v)' = Debited(v)
    <2>1. Debited(u)' = Debited(u)
        BY <1>3 DEF Debited, IsDeposit
    <2> QED
        BY <1>3, <2>1, OwnersAlone
<1>5. CASE ~applied[x] /\ status = "SUCCESS"
    <2>1. Credited(u)' = Credited(u) \cup {x} /\ x \notin Credited(u)
        BY <1>3, <1>5 DEF Credited, IsDeposit
    <2> HIDE DEF u, a
    <2>2. /\ \A y \in Credited(u) : order[y].amount \in Int /\ order[y] = order[y]
          /\ \A y \in Debited(u) : order[y].amount \in Int /\ order[y] = order[y]
          /\ IsFiniteSet(Credited(u)) /\ Credited(u) \subseteq Txs
          /\ IsFiniteSet(Debited(u)) /\ Debited(u) \subseteq Txs
        BY <1>2, Booked
    <2>3. Worth(order, Credited(u)) \in Int /\ Worth(order, Debited(u)) \in Int
        BY <2>2, WorthSame
    <2>4. Worth(order, Credited(u) \cup {x}) = a + Worth(order, Credited(u))
        BY <1>2, <2>1, <2>2, WorthMore DEF a
    <2>5. /\ Worth(order, Credited(u)') - Worth(order, Debited(u)') =
             Worth(order, Credited(u)) - Worth(order, Debited(u)) + a
          /\ Worth(order, Credited(u)') \in Int /\ Worth(order, Debited(u)') \in Int
        BY <1>2, <1>4, <2>1, <2>3, <2>4
    <2>6. balance' = [balance EXCEPT ![u] = balance[u] + a]
        BY <1>3, <1>5
    <2> QED
        BY <1>2, <1>3, <2>5, <2>6, MovedAndBooked DEF u
<1>6. CASE applied[x] \/ status # "SUCCESS"
    <2>1. balance' = balance /\ applied'[x] = applied[x]
        BY <1>1, <1>3, <1>6, DepositApplied DEF TypeOK
    <2>2. Credited(u)' = Credited(u)
        BY <1>3, <2>1 DEF Credited, IsDeposit
    <2>3. \A v \in Users : Credited(v)' = Credited(v) /\ Debited(v)' = Debited(v)
        BY <1>4, <2>2
    <2> QED
        BY <2>1, <2>3, Undisturbed
<1> QED
    BY <1>5, <1>6

\* fpesa_settle_withdrawal hands back what it takes off the books.
LEMMA SettledAndBooked ==
    ASSUME PaymentInv, AddsUp, NEW x \in Txs, order[x] # NoTx, ~IsDeposit(x),
           NEW status \in Final, SettleWithdrawal(x, status), UNCHANGED order
    PROVE  AddsUp'
<1> DEFINE u == order[x].user
           a == order[x].amount
<1>1. TypeOK
    BY DEF PaymentInv
<1>2. /\ u \in Users /\ a \in Int /\ balance[u] \in Int /\ balance \in [Users -> Nat]
    BY <1>1, RequestedTyped DEF TypeOK
<1>3. /\ \A y \in Txs : y # x => row'[y] = row[y] /\ applied'[y] = applied[y]
      /\ row[x] # "PENDING" => row'[x] = row[x] /\ balance' = balance
      /\ row[x] = "PENDING" => /\ row'[x] = status
                               /\ balance' = IF status = "SUCCESS" THEN balance
                                     ELSE [balance EXCEPT ![u] = balance[u] + a]
    BY <1>1, WithdrawalSettled
<1>4. Credited(u)' = Credited(u) /\ \A v \in Users : v # u =>
          Credited(v)' = Credited(v) /\ Debited(v)' = Debited(v)
    <2>1. Credited(u)' = Credited(u)
        BY <1>3 DEF Credited, IsDeposit
    <2> QED
        BY <1>3, <2>1, OwnersAlone
<1>5. CASE row[x] = "PENDING" /\ status # "SUCCESS"
    <2>1. Debited(u) = Debited(u)' \cup {x} /\ x \notin Debited(u)'
        BY <1>3, <1>5 DEF Debited, IsDeposit, Final
    <2> HIDE DEF u, a
    <2>2. /\ \A y \in Credited(u) : order[y].amount \in Int /\ order[y] = order[y]
          /\ \A y \in Debited(u) : order[y].amount \in Int /\ order[y] = order[y]
          /\ IsFiniteSet(Credited(u)) /\ Credited(u) \subseteq Txs
          /\ IsFiniteSet(Debited(u)) /\ Debited(u) \subseteq Txs
        BY <1>2, Booked
    <2>3. IsFiniteSet(Debited(u)') /\ Debited(u)' \subseteq Txs
        BY <2>1, <2>2, FS_Subset
    <2>4. \A y \in Debited(u)' : order[y].amount \in Int /\ order[y] = order[y]
        BY <2>1, <2>2
    <2>5. Worth(order, Credited(u)) \in Int /\ Worth(order, Debited(u)') \in Int
        BY <2>2, <2>3, <2>4, WorthSame
    <2>6. Worth(order, Debited(u)' \cup {x}) = a + Worth(order, Debited(u)')
        BY <1>2, <2>1, <2>3, <2>4, WorthMore DEF a
    <2>7. /\ Worth(order, Credited(u)') - Worth(order, Debited(u)') =
             Worth(order, Credited(u)) - Worth(order, Debited(u)) + a
          /\ Worth(order, Credited(u)') \in Int /\ Worth(order, Debited(u)') \in Int
        BY <1>2, <1>4, <2>1, <2>5, <2>6
    <2>8. balance' = [balance EXCEPT ![u] = balance[u] + a]
        BY <1>3, <1>5
    <2> QED
        BY <1>2, <1>3, <2>7, <2>8, MovedAndBooked DEF u
<1>6. CASE row[x] # "PENDING" \/ status = "SUCCESS"
    <2>1. balance' = balance /\ (row'[x] \in {"PENDING", "SUCCESS"} <=> row[x] \in {"PENDING", "SUCCESS"})
        BY <1>3, <1>6
    <2>2. Debited(u)' = Debited(u)
        BY <1>3, <2>1 DEF Debited, IsDeposit
    <2>3. \A v \in Users : Credited(v)' = Credited(v) /\ Debited(v)' = Debited(v)
        BY <1>4, <2>2
    <2> QED
        BY <2>1, <2>3, Undisturbed
<1> QED
    BY <1>5, <1>6

\* Every step moves money exactly as it books it.
LEMMA StepAddsUp ==
    ASSUME PaymentInv, AddsUp, [Next]_vars
    PROVE  AddsUp'
<1>1. ASSUME NEW x \in Txs, Request(x) PROVE AddsUp'
    <2>1. order[x] = NoTx /\ ~applied[x] /\ row[x] = "NONE" /\ UNCHANGED <<balance, row, applied>>
        BY <1>1 DEF Request, PaymentInv, Requested, rowVars
    <2>2. \A y \in Txs : y # x => order'[y] = order[y]
        BY <1>1 DEF Request, PaymentInv, TypeOK
    <2>3. \A u \in Users : Credited(u)' = Credited(u)
        BY <2>1, <2>2 DEF Credited, IsDeposit
    <2>4. \A u \in Users : Debited(u)' = Debited(u)
        BY <2>1, <2>2 DEF Debited, IsDeposit
    <2>5. \A y \in Txs : order[y] # NoTx => order'[y] = order[y]
        BY <2>1, <2>2
    <2> QED
        BY <2>1, <2>3, <2>4, <2>5, Undisturbed
<1>2. ASSUME NEW x \in Txs, RecordDeposit(x) PROVE AddsUp'
    <2>1. IsDeposit(x) /\ UNCHANGED <<balance, applied, order>>
        BY <1>2 DEF RecordDeposit, Recorded
    <2>2. \A y \in Txs : y # x => row'[y] = row[y]
        BY <1>2 DEF RecordDeposit, Recorded, PaymentInv, TypeOK
    <2>3. \A u \in Users : Credited(u)' = Credited(u)
        BY <2>1 DEF Credited, IsDeposit
    <2>4. \A u \in Users : Debited(u)' = Debited(u)
        BY <2>1, <2>2 DEF Debited, IsDeposit
    <2> QED
        BY <2>1, <2>3, <2>4, Undisturbed
<1>3. ASSUME NEW x \in Txs, ReserveWithdrawal(x) PROVE AddsUp'
    BY <1>3, ReservedAndBooked
<1>4. ASSUME NEW x \in Txs, RequestFails(x) PROVE AddsUp'
    <2>1. UNCHANGED <<rowVars, order>>
        BY <1>4 DEF RequestFails
    <2> QED
        BY <2>1, NothingBooked
<1>5. ASSUME NEW x \in Txs, CallProvider(x) PROVE AddsUp'
    <2>1. UNCHANGED <<rowVars, order>>
        BY <1>5 DEF CallProvider
    <2> QED
        BY <2>1, NothingBooked
<1>6. ASSUME NEW x \in Txs, ProviderAnswers(x) PROVE AddsUp'
    <2>1. UNCHANGED <<rowVars, order>>
        BY <1>6 DEF ProviderAnswers
    <2> QED
        BY <2>1, NothingBooked
<1>7. ASSUME NEW x \in Txs, RecordProviderId(x) PROVE AddsUp'
    <2>1. UNCHANGED <<balance, row, applied, order>>
        BY <1>7 DEF RecordProviderId
    <2>2. \A u \in Users : Credited(u)' = Credited(u) /\ Debited(u)' = Debited(u)
        BY <2>1 DEF Credited, Debited, IsDeposit
    <2> QED
        BY <2>1, <2>2, Undisturbed
<1>8. ASSUME NEW x \in Txs, ProviderFails(x) PROVE AddsUp'
    <2>1. UNCHANGED <<rowVars, order>>
        BY <1>8 DEF ProviderFails
    <2> QED
        BY <2>1, NothingBooked
<1>9. ASSUME NEW x \in Txs, MarkFailed(x) PROVE AddsUp'
    <2>1. IsDeposit(x) /\ UNCHANGED <<balance, applied, order>>
        BY <1>9 DEF MarkFailed
    <2>2. \A y \in Txs : y # x => row'[y] = row[y]
        BY <1>9 DEF MarkFailed, PaymentInv, TypeOK
    <2>3. \A u \in Users : Credited(u)' = Credited(u)
        BY <2>1 DEF Credited, IsDeposit
    <2>4. \A u \in Users : Debited(u)' = Debited(u)
        BY <2>1, <2>2 DEF Debited, IsDeposit
    <2> QED
        BY <2>1, <2>3, <2>4, Undisturbed
<1>10. ASSUME NEW x \in Txs, ProviderReceives(x) PROVE AddsUp'
    <2>1. UNCHANGED <<rowVars, order>>
        BY <1>10 DEF ProviderReceives
    <2> QED
        BY <2>1, NothingBooked
<1>11. ASSUME NEW x \in Txs, ProviderResolves(x) PROVE AddsUp'
    <2>1. UNCHANGED <<rowVars, order>>
        BY <1>11 DEF ProviderResolves
    <2> QED
        BY <2>1, NothingBooked
<1>12. ASSUME NEW x \in Txs, GrowOld(x) PROVE AddsUp'
    <2>1. UNCHANGED <<rowVars, order>>
        BY <1>12 DEF GrowOld
    <2> QED
        BY <2>1, NothingBooked
<1>13. ASSUME NEW x \in Txs, NEW h \in Handlers, Callback(h, x) PROVE AddsUp'
    <2>1. UNCHANGED <<rowVars, order>>
        BY <1>13 DEF Callback
    <2> QED
        BY <2>1, NothingBooked
<1>14. ASSUME NEW c \in Callers, FinaliseRead(c) PROVE AddsUp'
    <2>1. UNCHANGED <<rowVars, order>>
        BY <1>14 DEF FinaliseRead
    <2> QED
        BY <2>1, NothingBooked
<1>15. ASSUME NEW c \in Callers, FinaliseWrite(c) PROVE AddsUp'
    <2>1. TypeOK /\ Requested
        BY DEF PaymentInv
    <2>2. /\ call[c].tx \in Txs /\ call[c].status \in Final /\ order[call[c].tx] # NoTx
          /\ call[c].id \in BOOLEAN /\ UNCHANGED order
          /\ IsDeposit(call[c].tx) => ApplyDeposit(call[c].tx, call[c].status, call[c].id)
          /\ ~IsDeposit(call[c].tx) => SettleWithdrawal(call[c].tx, call[c].status)
        BY <1>15, <2>1, FinaliseWrites, CallTyped
    <2> QED
        BY <2>2, CreditedAndBooked, SettledAndBooked
<1>16. ASSUME NEW c \in Callers, FinaliseError(c) PROVE AddsUp'
    <2>1. UNCHANGED <<rowVars, order>>
        BY <1>16 DEF FinaliseError
    <2> QED
        BY <2>1, NothingBooked
<1>17. ASSUME NEW w \in Sweepers, SweepStart(w) PROVE AddsUp'
    <2>1. UNCHANGED <<rowVars, order>>
        BY <1>17 DEF SweepStart
    <2> QED
        BY <2>1, NothingBooked
<1>18. ASSUME NEW w \in Sweepers, SweepRow(w) PROVE AddsUp'
    <2>1. UNCHANGED <<rowVars, order>>
        BY <1>18 DEF SweepRow
    <2> QED
        BY <2>1, NothingBooked
<1>19. ASSUME Crash PROVE AddsUp'
    <2>1. UNCHANGED <<rowVars, order>>
        BY <1>19 DEF Crash
    <2> QED
        BY <2>1, NothingBooked
<1>20. ASSUME Restart PROVE AddsUp'
    <2>1. UNCHANGED <<rowVars, order>>
        BY <1>20 DEF Restart
    <2> QED
        BY <2>1, NothingBooked
<1>21. CASE UNCHANGED vars
    <2>1. UNCHANGED <<rowVars, order>>
        BY <1>21 DEF vars
    <2> QED
        BY <2>1, NothingBooked
<1> QED
    BY <1>1, <1>2, <1>3, <1>4, <1>5, <1>6, <1>7, <1>8, <1>9,
       <1>10, <1>11, <1>12, <1>13, <1>14, <1>15, <1>16, <1>17, <1>18,
       <1>19, <1>20, <1>21
       DEF Next, StartStep

\* The books as the specification states them.
LEMMA BooksAgree ==
    ASSUME PaymentInv, AddsUp
    PROVE  BalancesAddUp
<1> SUFFICES ASSUME NEW u \in Users
             PROVE  balance[u] = StartBalance
                       + SumFunction([x \in Credited(u) |-> order[x].amount])
                       - SumFunction([x \in Debited(u) |-> order[x].amount])
    <2>1. \A u \in Users :
             Credited(u) = {x \in {x \in {x \in Txs : order[x] # NoTx} : IsDeposit(x) /\ applied[x]} :
                               order[x].user = u}
        BY DEF Credited
    <2>2. \A u \in Users :
             Debited(u) = {x \in {x \in {x \in Txs : order[x] # NoTx} :
                                   ~IsDeposit(x) /\ row[x] \in {"PENDING", "SUCCESS"}} :
                              order[x].user = u}
        BY DEF Debited
    <2> QED
        BY <2>1, <2>2 DEF BalancesAddUp
<1>1. ASSUME NEW S, IsFiniteSet(S), S \subseteq Txs, \A x \in S : order[x].amount \in Int
      PROVE  SumFunction([x \in S |-> order[x].amount]) = Worth(order, S)
    <2> DEFINE f == [x \in S |-> order[x].amount]
               h == [x \in Txs |-> order[x].amount]
    <2>1. DOMAIN f = S /\ \A x \in S : f[x] \in Int /\ f[x] = h[x]
        BY <1>1
    <2> HIDE DEF f, h
    <2>2. SumFunctionOnSet(f, S) = SumFunctionOnSet(h, S)
        BY <1>1, <2>1, SumSame
    <2>3. SumFunction(f) = SumFunctionOnSet(f, S)
        BY <2>1 DEF SumFunction, SumFunctionOnSet
    <2> QED
        BY <2>2, <2>3 DEF f, h, Worth
<1>2. /\ SumFunction([x \in Credited(u) |-> order[x].amount]) = Worth(order, Credited(u))
      /\ SumFunction([x \in Debited(u) |-> order[x].amount]) = Worth(order, Debited(u))
    BY <1>1, Booked
<1> QED
    BY <1>2 DEF AddsUp

\* Balances are exactly what the records say, whatever meets, fails or is repeated.
THEOREM BooksHold == Spec => []BalancesAddUp
<1>1. Init => AddsUp
    <2> SUFFICES ASSUME Init, NEW u \in Users
                 PROVE  balance[u] = StartBalance + Worth(order, Credited(u)) - Worth(order, Debited(u))
        BY DEF AddsUp
    <2>1. Credited(u) = {} /\ Debited(u) = {}
        BY DEF Init, Credited, Debited
    <2>2. Worth(order, {}) = 0
        BY SumEmpty DEF Worth
    <2> QED
        BY <2>1, <2>2, ConstantsAssumption DEF Init
<1>2. PaymentInv /\ AddsUp /\ [Next]_vars => AddsUp'
    BY StepAddsUp
<1>3. PaymentInv /\ AddsUp => BalancesAddUp
    BY BooksAgree
<1> QED
    BY <1>1, <1>2, <1>3, PaymentInvHolds, PTL DEF Spec
===============================================================================
