--------------------------- MODULE TradeEngineProofs ---------------------------
(***************************************************************************)
(* The trading engine, proved for any number of trades, runs, accounts, prices  *)
(* and restarts.  Its types and its safety: one settlement at a time, at most    *)
(* one that pays, a loss that never exceeds the stake, and no stranded stake      *)
(* unless a placement outlives its caller or the boot cannot read the open        *)
(* trades.  That it implements the abstract book: whatever its processes do,       *)
(* rows and balances only ever change as Book allows.  And what it has booked:    *)
(* real money adds up, a trade is closed by what the row says closed it, and a     *)
(* run plays one leg at a time and reports each once.                           *)
(***************************************************************************)
EXTENDS TradeEngineBook, Arithmetic

-----------------------------------------------------------------------------
(* Types *)

\* Whatever refers to a trade refers to one that has been ordered.
Requested ==
    /\ \A t \in Trades :
          (\/ status[t] # "NONE" \/ place[t] # "idle" \/ settling[t] # "idle"
           \/ timer[t] # Off \/ t \in live \/ t \in todo \/ t \in latePlace)
          => ticket[t] \in Tickets
    /\ \A c \in lateSettle : ticket[c.trade] \in Tickets

\* A run with a row has a plan, and the next leg is placed only for such a run.
Planned ==
    \A r \in Runs :
        /\ runs[r].status # "NONE" => runs[r].plan \in Plans
        /\ runStep[r] = "leg" => runs[r].status # "NONE"

TypeInv == TypeOK /\ Requested /\ Planned

-----------------------------------------------------------------------------
\* The pricing rates, the balances at the start and the retry delay are
\* naturals, and the absent run and ticket are neither a run nor a ticket.
LEMMA ConstantFacts ==
    /\ ProfitMultiple \in Nat /\ BarrierOffset \in Nat /\ PayoutBps \in Nat
    /\ StartBalance \in Nat /\ RetryDelay \in Nat
    /\ NoRun \notin Runs /\ NoTicket \notin Tickets
  BY ConstantsAssumption DEF ConstantsAssumption

\* What may be ordered: positive prices, stakes, durations and multipliers, and
\* an edge of at most 20%.
LEMMA OrderFacts ==
    /\ \A p \in Prices : p \in Nat \ {0}
    /\ \A st \in Stakes : st \in Nat \ {0}
    /\ \A d \in Durations : d \in Nat \ {0}
    /\ \A n \in RunLengths : n \in Nat \ {0}
    /\ \A e \in Edges : e \in Nat /\ e <= 2000
    /\ \A d \in Directions : d \in {"BUY", "SELL"}
    /\ \A k \in Kinds : k \in {"SCALED", "DIGITAL"}
    /\ \A d \in Durations : Multiplier[d] \in Nat \ {0}
  BY SMTT(30), ConstantsAssumption DEF ConstantsAssumption

\* What the columns of an ordered trade range over.
LEMMA TicketFacts ==
  ASSUME NEW tk \in Tickets
  PROVE  /\ tk.acct \in Accounts /\ tk.sym \in Symbols
         /\ tk.dir \in {"BUY", "SELL"} /\ tk.kind \in {"SCALED", "DIGITAL"}
         /\ tk.stake \in Nat \ {0} /\ tk.dur \in Durations /\ tk.dur \in Nat
         /\ tk.run \in Runs \cup {NoRun} /\ tk.entry \in Nat \ {0}
         /\ tk.barrier \in Int /\ tk.maxProfit \in Nat
<1>1. tk.stake \in Stakes /\ tk.dur \in Durations
  BY DEF Tickets
<1>2. tk.stake \in Nat \ {0} /\ tk.dur \in Nat
  BY <1>1, OrderFacts
<1> QED
  BY <1>1, <1>2 DEF Tickets

\* placeTrade computes a well-formed row from every order and price: the marked
\* entry is positive, the payout is not negative.
LEMMA NewTicketTyped ==
  ASSUME TypeOK,
         NEW a \in Accounts, NEW s \in Symbols, NEW d \in Directions,
         NEW k \in {"SCALED", "DIGITAL"}, NEW st \in Stakes, NEW du \in Durations,
         NEW e \in Edges, NEW r \in Runs \cup {NoRun}
  PROVE  NewTicket(a, s, d, k, st, du, e, r) \in Tickets
<1> DEFINE m == Multiplier[du]
           entry == IF k = "SCALED" THEN ApplySpread(price[s], d, m, e) ELSE price[s]
<1>0. price[s] \in Prices
  BY DEF TypeOK
<1>1. m \in Nat \ {0} /\ d \in {"BUY", "SELL"} /\ e \in Nat /\ e <= 2000 /\ st \in Nat \ {0}
      /\ price[s] \in Nat \ {0}
  BY <1>0, OrderFacts
<1> HIDE DEF m
<1>2. entry \in Nat \ {0}
  <2>1. ASSUME NEW p \in Nat \ {0} PROVE ApplySpread(p, d, m, e) \in Nat \ {0}
    BY <1>1, SpreadKeepsPricePositive
  <2> QED BY <2>1, <1>1
<1>3. Sign(d) \in Int
  BY DEF Sign
<1> HIDE DEF entry
<1>4. StopOut(entry, d, m) \in Int
  <2>1. entry * (m - Sign(d)) \in Int
    BY <1>1, <1>2, <1>3
  <2> QED BY <2>1, <1>1, RoundHalfUpTyped DEF StopOut
<1>5. TakeProfit(entry, d, m, ProfitMultiple) \in Int
  <2>1. entry * (m + Sign(d) * ProfitMultiple) \in Int
    BY <1>1, <1>2, <1>3, ConstantFacts
  <2> QED BY <2>1, <1>1, RoundHalfUpTyped DEF TakeProfit
<1>6. price[s] - Sign(d) * BarrierOffset \in Int
  BY <1>1, <1>3, ConstantFacts
<1>7. st * ProfitMultiple \in Nat
  BY <1>1, ConstantFacts
<1>8. RoundHalfUp(st * PayoutBps, Bps) \in Nat
  BY <1>1, ConstantFacts, RoundedPayout DEF Bps
<1>9. NewTicket(a, s, d, k, st, du, e, r) =
        [acct |-> a, sym |-> s, dir |-> d, kind |-> k, stake |-> st, dur |-> du,
         run |-> r, entry |-> entry,
         stop |-> IF k = "SCALED" THEN StopOut(entry, d, m) ELSE NoLevel,
         target |-> IF k = "SCALED"
                    THEN TakeProfit(entry, d, m, ProfitMultiple) ELSE NoLevel,
         barrier |-> IF k = "DIGITAL"
                     THEN price[s] - Sign(d) * BarrierOffset ELSE NoLevel,
         maxProfit |-> IF k = "SCALED" THEN st * ProfitMultiple
                       ELSE RoundHalfUp(st * PayoutBps, Bps)]
  BY DEF NewTicket, entry, m
<1> QED
  BY <1>1, <1>2, <1>4, <1>5, <1>6, <1>7, <1>8, <1>9 DEF Tickets, NoLevel

\* What fpesa_settle_trade books for an ordered trade, at any price, lies between
\* losing the stake and its ceiling.
LEMMA ProfitInBounds ==
  ASSUME NEW t, ticket[t] \in Tickets, NEW x \in Int
  PROVE  /\ ProfitOf(t, x) \in -ticket[t].stake .. ticket[t].maxProfit
         /\ StatusOf(t, x) \in Settled
<1> DEFINE tk == ticket[t]
           m == Multiplier[tk.dur]
<1>1. /\ tk.dir \in {"BUY", "SELL"} /\ tk.stake \in Nat
      /\ tk.entry \in Nat \ {0} /\ tk.maxProfit \in Nat
      /\ tk.barrier \in Int /\ m \in Nat
  BY TicketFacts, OrderFacts
<1>2. ScaledProfit(tk.dir, tk.stake, m, tk.entry, tk.maxProfit, x)
        \in -tk.stake .. tk.maxProfit
  BY <1>1, ScaledProfitBounded
<1>3. DigitalProfit(tk.dir, tk.stake, tk.barrier, tk.maxProfit, x)
        \in -tk.stake .. tk.maxProfit
  BY <1>1, DigitalProfitBounded
<1>4. StatusOf(t, x) \in Settled
  BY DEF StatusOf, ScaledStatus, DigitalStatus, Settled
<1> QED
  BY <1>2, <1>3, <1>4 DEF ProfitOf

\* fpesa_place_trade keeps balances and rows typed: it never overdraws.
LEMMA PlaceRowTyped ==
  ASSUME TypeOK, NEW t \in Trades, ticket[t] \in Tickets, PlaceRow(t)
  PROVE  /\ balance' \in [Accounts -> Nat]
         /\ status' \in [Trades -> Settled \cup {"NONE", "OPEN"}]
         /\ left' \in [Trades -> Nat]
<1>1. /\ ticket[t].acct \in Accounts /\ ticket[t].stake \in Nat
      /\ ticket[t].dur \in Nat
  BY TicketFacts
<1>2. balance[ticket[t].acct] - ticket[t].stake \in Nat
  BY <1>1 DEF TypeOK, PlaceRow
<1> QED
  BY <1>1, <1>2 DEF TypeOK, PlaceRow

\* fpesa_settle_trade keeps balances and rows typed, and touches one open row.
LEMMA SettleRowTyped ==
  ASSUME TypeOK, NEW t \in Trades, ticket[t] \in Tickets,
         NEW c, c.reason \in OpenReasons \cup {"NONE"}, c.exit \in Int, SettleRow(t, c)
  PROVE  /\ balance' \in [Accounts -> Nat]
         /\ status' \in [Trades -> Settled \cup {"NONE", "OPEN"}]
         /\ outcome' \in [Trades -> [reason : OpenReasons \cup {"NONE"}, exit : Int,
                                     profit : Int]]
         /\ UNCHANGED <<ticket, left, runOf, runs>>
         /\ \A u \in Trades : u # t \/ status[u] # "OPEN" =>
               status'[u] = status[u] /\ outcome'[u] = outcome[u]
         /\ status[t] = "OPEN" => status'[t] \in Settled
<1>1. CASE status[t] # "OPEN"
  BY <1>1 DEF SettleRow, dbVars, TypeOK
<1>2. CASE status[t] = "OPEN"
  <2> DEFINE profit == ProfitOf(t, c.exit)
             payout == IF ticket[t].stake + profit < 0 THEN 0
                       ELSE ticket[t].stake + profit
  <2>1. /\ ticket[t].stake \in Nat /\ ticket[t].maxProfit \in Nat
        /\ ticket[t].acct \in Accounts
    BY TicketFacts
  <2>2. profit \in Int /\ StatusOf(t, c.exit) \in Settled
    BY <2>1, ProfitInBounds
  <2>3. /\ status' = [status EXCEPT ![t] = StatusOf(t, c.exit)]
        /\ outcome' = [outcome EXCEPT ![t] =
                          [reason |-> c.reason, exit |-> c.exit, profit |-> profit]]
        /\ balance' = [balance EXCEPT ![ticket[t].acct] = @ + payout]
        /\ UNCHANGED <<ticket, left, runOf, runs>>
    BY <1>2 DEF SettleRow, CloseRow
  <2> HIDE DEF profit
  <2>4. payout \in Nat
    BY <2>1, <2>2
  <2> HIDE DEF payout
  <2> QED
    BY <2>1, <2>2, <2>3, <2>4, <1>2 DEF TypeOK
<1> QED
  BY <1>1, <1>2

\* The rows of trade_runs.
RunRows == [Runs -> [status : {"NONE", "RUNNING", "DONE", "ABORTED"}, total : Nat,
                     completed : Nat, net : Int, plan : Plans \cup {NoTicket}]]

\* fpesa_advance_run keeps the rows of the runs typed and their plans as they were.
LEMMA AdvanceRowTyped ==
  ASSUME TypeOK, NEW r \in Runs, AdvanceRow(r)
  PROVE  /\ runs' \in RunRows
         /\ \A q \in Runs : /\ runs'[q].plan = runs[q].plan
                            /\ runs'[q].status = "NONE" <=> runs[q].status = "NONE"
<1>1. CASE runs[r].status # "RUNNING"
  BY <1>1 DEF AdvanceRow, TypeOK, RunRows
<1>2. CASE runs[r].status = "RUNNING"
  <2> DEFINE n == runs[r].completed + 1
             net == runs[r].net + runProfit[r]
             st == IF n >= runs[r].total THEN "DONE" ELSE runs[r].status
             new == [runs[r] EXCEPT !.completed = n, !.net = net, !.status = st]
  <2>1. /\ runs[r] \in [status : {"NONE", "RUNNING", "DONE", "ABORTED"}, total : Nat,
                         completed : Nat, net : Int, plan : Plans \cup {NoTicket}]
        /\ n \in Nat /\ net \in Int
    BY DEF TypeOK
  <2>4. st \in {"RUNNING", "DONE"}
    BY <1>2
  <2>2. /\ new \in [status : {"NONE", "RUNNING", "DONE", "ABORTED"}, total : Nat,
                    completed : Nat, net : Int, plan : Plans \cup {NoTicket}]
        /\ new.plan = runs[r].plan /\ new.status # "NONE"
    <3> HIDE DEF n, net, st
    <3> QED BY <2>1, <2>4
  <2>3. runs' = [runs EXCEPT ![r] = new]
    BY <1>2 DEF AdvanceRow, TypeOK
  <2> HIDE DEF new, n, net, st
  <2> QED
    BY <1>2, <2>2, <2>3 DEF TypeOK, RunRows
<1> QED
  BY <1>1, <1>2

-----------------------------------------------------------------------------
(* Type correctness *)

\* The engine starts typed, with nothing requested and no run.
THEOREM InitTypeInv == Init => TypeInv
<1> SUFFICES ASSUME Init PROVE TypeInv
  OBVIOUS
<1>1. TypeOK
  BY ConstantFacts DEF Init, TypeOK, NoOutcome, NoClose, Off, Settled, OpenReasons
<1>2. Requested /\ Planned
  BY DEF Init, Requested, Planned
<1> QED
  BY <1>1, <1>2 DEF TypeInv

\* The process dies: nothing it knew is left, some requests may be.
LEMMA ForgetTyped ==
  ASSUME TypeInv, Forget, restarts' \in Nat
  PROVE  TypeInv'
<1> USE DEF dbVars
<1>1. PICK L \in SUBSET {t \in Trades : place[t] = "sent"} : latePlace' = latePlace \cup L
  BY DEF Forget
<1>2. PICK M \in SUBSET {t \in Trades : settling[t] = "sent"} :
        lateSettle' = lateSettle \cup
          {[trade |-> t, reason |-> close[t].reason, exit |-> close[t].exit] : t \in M}
  BY DEF Forget
<1>3. /\ latePlace' \subseteq Trades
      /\ \A t \in latePlace' : ticket[t] \in Tickets
  BY <1>1 DEF TypeInv, TypeOK, Requested
<1>4. \A t \in M : ticket[t] \in Tickets /\ close[t].reason \in OpenReasons \cup {"NONE"}
                  /\ close[t].exit \in Int /\ t \in Trades
  BY <1>2 DEF TypeInv, TypeOK, Requested
<1>5. /\ lateSettle' \subseteq [trade : Trades, reason : OpenReasons \cup {"NONE"}, exit : Int]
      /\ \A c \in lateSettle' : ticket[c.trade] \in Tickets
  BY <1>2, <1>4 DEF TypeInv, TypeOK, Requested
<1>6. TypeOK'
  BY <1>3, <1>5 DEF TypeInv, TypeOK, Forget, NoClose, Off
<1>7. Requested'
  BY <1>3, <1>5 DEF TypeInv, TypeOK, Requested, Forget, Off
<1>8. Planned'
  BY DEF TypeInv, Planned, Forget
<1> QED
  BY <1>6, <1>7, <1>8 DEF TypeInv

\* Every action keeps the types, and never acts on a trade or a run that has not
\* been ordered.
THEOREM StepTypeInv == TypeInv /\ [Next]_vars => TypeInv'
<1> SUFFICES ASSUME TypeInv, [Next]_vars PROVE TypeInv'
  OBVIOUS
<1> USE DEF dbVars, recoverVars, watchVars, settleVars, runVars, lateVars
<1>1. ASSUME NEW t \in Trades, PlaceTrade(t) PROVE TypeInv'
  <2>1. PICK a \in Accounts, s \in Symbols, d \in Directions, k \in Kinds,
             st \in Stakes, du \in Durations, e \in Edges :
             SendPlace(t, NewTicket(a, s, d, k, st, du, e, NoRun))
    BY <1>1 DEF PlaceTrade
  <2>2. NewTicket(a, s, d, k, st, du, e, NoRun) \in Tickets
    BY NewTicketTyped, OrderFacts DEF TypeInv
  <2> QED
    BY <1>1, <2>1, <2>2 DEF PlaceTrade, SendPlace, TypeInv, TypeOK, Requested, Planned
<1>2. ASSUME NEW t \in Trades, PlaceExec(t) PROVE TypeInv'
  <2>1. ticket[t] \in Tickets
    BY <1>2 DEF PlaceExec, TypeInv, Requested
  <2>2. /\ balance' \in [Accounts -> Nat]
        /\ status' \in [Trades -> Settled \cup {"NONE", "OPEN"}]
        /\ left' \in [Trades -> Nat]
    BY <1>2, <2>1, PlaceRowTyped DEF PlaceExec, TypeInv
  <2> QED
    BY <1>2, <2>1, <2>2 DEF PlaceExec, PlaceRow, TypeInv, TypeOK, Requested, Planned
<1>3. ASSUME NEW t \in Trades, PlaceRefused(t) PROVE TypeInv'
  <2>1. ticket[t].run \in Runs \cup {NoRun}
    BY <1>3, TicketFacts DEF PlaceRefused, TypeInv, Requested
  <2> QED
    BY <1>3, <2>1 DEF PlaceRefused, AbandonLeg, TypeInv, TypeOK, Requested, Planned
<1>4. ASSUME NEW t \in Trades, PlaceReplyLost(t) PROVE TypeInv'
  <2>1. ticket[t].run \in Runs \cup {NoRun}
    BY <1>4, TicketFacts DEF PlaceReplyLost, TypeInv, Requested
  <2> QED
    BY <1>4, <2>1 DEF PlaceReplyLost, AbandonLeg, TypeInv, TypeOK, Requested, Planned
<1>5. ASSUME NEW t \in Trades, PlaceReply(t) PROVE TypeInv'
  <2>1. ticket[t] \in Tickets
    BY <1>5 DEF PlaceReply, TypeInv, Requested
  <2>2. ticket[t].run \in Runs \cup {NoRun} /\ ticket[t].dur \in Nat
    BY <2>1, TicketFacts
  <2>3. CASE ticket[t].run = NoRun
    <3>1. /\ place' = [place EXCEPT ![t] = "idle"]
          /\ live' = live \/ live' = live \cup {t}
          /\ timer' = [timer EXCEPT ![t] = ticket[t].dur]
          /\ runStep' = runStep
          /\ UNCHANGED <<dbVars, price, recoverVars, settleVars, runProfit, lateVars>>
      BY <1>5, <2>3 DEF PlaceReply, Opened, Track, Schedule
    <3> QED
      BY <2>1, <2>2, <3>1 DEF TypeInv, TypeOK, Requested, Planned
  <2>4. CASE ticket[t].run # NoRun
    <3>1. /\ place' = [place EXCEPT ![t] = "linking"]
          /\ UNCHANGED <<dbVars, price, recoverVars, watchVars, settleVars, runVars,
                         lateVars>>
      BY <1>5, <2>4 DEF PlaceReply
    <3> QED
      BY <2>1, <3>1 DEF TypeInv, TypeOK, Requested, Planned
  <2> QED
    BY <2>3, <2>4
<1>6. ASSUME NEW t \in Trades, LinkExec(t) PROVE TypeInv'
  <2>1. ticket[t].run \in Runs \cup {NoRun}
    BY <1>6, TicketFacts DEF LinkExec, TypeInv, Requested
  <2> QED
    BY <1>6, <2>1 DEF LinkExec, TypeInv, TypeOK, Requested, Planned
<1>7. ASSUME NEW t \in Trades, LinkError(t) PROVE TypeInv'
  BY <1>7 DEF LinkError, TypeInv, TypeOK, Requested, Planned
<1>8. ASSUME NEW t \in Trades, LinkReply(t) PROVE TypeInv'
  <2>1. ticket[t] \in Tickets
    BY <1>8 DEF LinkReply, TypeInv, Requested
  <2>2. ticket[t].run \in Runs \cup {NoRun} /\ ticket[t].dur \in Nat
    BY <2>1, TicketFacts
  <2> QED
    BY <1>8, <2>1, <2>2 DEF LinkReply, Opened, Track, Schedule, TypeInv, TypeOK, Requested, Planned
<1>9. ASSUME NEW t \in Trades, TimerFires(t) PROVE TypeInv'
  <2>0. timer[t] # Off
    <3>1. timer[t] = 0
      BY <1>9 DEF TimerFires
    <3> QED BY <3>1 DEF Off
  <2>1. ticket[t] \in Tickets
    BY <2>0 DEF TypeInv, Requested
  <2>2. price[ticket[t].sym] \in Int
    BY <2>1, TicketFacts, OrderFacts DEF TypeInv, TypeOK
  <2> QED
    BY <1>9, <2>1, <2>2 DEF TimerFires, StartSettle, OpenReasons, TypeInv, TypeOK, Requested, Planned
<1>10. ASSUME NEW t \in Trades, SettleExec(t) PROVE TypeInv'
  <2>1. ticket[t] \in Tickets
    BY <1>10 DEF SettleExec, TypeInv, Requested
  <2>2. close[t].reason \in OpenReasons \cup {"NONE"} /\ close[t].exit \in Int
    BY DEF TypeInv, TypeOK
  <2>3. /\ balance' \in [Accounts -> Nat]
        /\ status' \in [Trades -> Settled \cup {"NONE", "OPEN"}]
        /\ outcome' \in [Trades -> [reason : OpenReasons \cup {"NONE"}, exit : Int,
                                    profit : Int]]
        /\ UNCHANGED <<ticket, left, runOf, runs>>
        /\ \A u \in Trades : u # t => status'[u] = status[u]
    BY <1>10, <2>1, <2>2, SettleRowTyped DEF SettleExec, TypeInv
  <2> QED
    BY <1>10, <2>1, <2>3 DEF SettleExec, TypeInv, TypeOK, Requested, Planned
<1>11. ASSUME NEW t \in Trades, SettleError(t) PROVE TypeInv'
  <2>1. ticket[t] \in Tickets
    BY <1>11 DEF SettleError, TypeInv, Requested
  <2> QED
    BY <1>11, <2>1, ConstantFacts DEF SettleError, SettleReturns, Schedule, NoClose, TypeInv, TypeOK, Requested, Planned
<1>12. ASSUME NEW t \in Trades, SettleReply(t) PROVE TypeInv'
  BY <1>12 DEF SettleReply, SettleReturns, NoClose, TypeInv, TypeOK, Requested, Planned
<1>13. ASSUME NEW t \in Trades, LatePlace(t) PROVE TypeInv'
  <2>1. ticket[t] \in Tickets
    BY <1>13 DEF LatePlace, TypeInv, Requested
  <2> QED
    BY <1>13, <2>1, PlaceRowTyped DEF LatePlace, PlaceRow, TypeInv, TypeOK, Requested, Planned
<1>14. ASSUME NEW t \in Trades, RecoverRow(t) PROVE TypeInv'
  <2>1. ticket[t] \in Tickets
    BY <1>14 DEF RecoverRow, TypeInv, Requested
  <2>2. price[ticket[t].sym] \in Int
    BY <2>1, TicketFacts, OrderFacts DEF TypeInv, TypeOK
  <2> QED
    BY SMTT(30), <1>14, <2>1, <2>2 DEF RecoverRow, Rewatch, StartSettle, Track, Schedule, OpenReasons, TypeInv, TypeOK, Requested, Planned
<1>15. ASSUME NEW r \in Runs, StartRun(r) PROVE TypeInv'
  <2>1. PICK plan \in Plans, n \in RunLengths :
          runs' = [runs EXCEPT ![r] = [status |-> "RUNNING", total |-> n,
                                       completed |-> 0, net |-> 0, plan |-> plan]]
    BY <1>15 DEF StartRun
  <2>2. n \in Nat
    BY OrderFacts
  <2>3. /\ runs' \in RunRows
        /\ \A q \in Runs : runs'[q].status # "NONE" => runs'[q].plan \in Plans
        /\ runs'[r].status = "RUNNING"
        /\ \A q \in Runs \ {r} : runs'[q] = runs[q]
    BY <2>1, <2>2 DEF TypeInv, TypeOK, Planned, RunRows
  <2> QED
    BY SMTT(30), <1>15, <2>3 DEF StartRun, RunRows, TypeInv, TypeOK, Requested, Planned
<1>16. ASSUME NEW r \in Runs, LegRefused(r) PROVE TypeInv'
  BY <1>16 DEF LegRefused, TypeInv, TypeOK, Requested, Planned
<1>17. ASSUME NEW r \in Runs, AbortRun(r) PROVE TypeInv'
  <2>1. CASE runs' = [runs EXCEPT ![r].status = IF @ = "RUNNING" THEN "ABORTED" ELSE @]
    <3> DEFINE st == IF runs[r].status = "RUNNING" THEN "ABORTED" ELSE runs[r].status
               new == [runs[r] EXCEPT !.status = st]
    <3>2. /\ st \in {"NONE", "DONE", "ABORTED"} /\ (st = "NONE" <=> runs[r].status = "NONE")
          /\ runs[r] \in [status : {"NONE", "RUNNING", "DONE", "ABORTED"}, total : Nat,
                           completed : Nat, net : Int, plan : Plans \cup {NoTicket}]
      BY DEF TypeInv, TypeOK
    <3>3. /\ new \in [status : {"NONE", "RUNNING", "DONE", "ABORTED"}, total : Nat,
                      completed : Nat, net : Int, plan : Plans \cup {NoTicket}]
          /\ new.plan = runs[r].plan /\ (new.status = "NONE" <=> runs[r].status = "NONE")
      <4> HIDE DEF st
      <4> QED BY <3>2
    <3>4. runs' = [runs EXCEPT ![r] = new]
      BY <2>1 DEF TypeInv, TypeOK
    <3> HIDE DEF new, st
    <3>1. /\ runs' \in RunRows
          /\ \A q \in Runs : /\ runs'[q].plan = runs[q].plan
                             /\ runs'[q].status = "NONE" <=> runs[q].status = "NONE"
      BY <3>3, <3>4 DEF TypeInv, TypeOK, RunRows
    <3> QED
      BY <1>17, <3>1 DEF AbortRun, RunRows, TypeInv, TypeOK, Requested, Planned
  <2>2. CASE UNCHANGED runs
    BY <1>17, <2>2 DEF AbortRun, TypeInv, TypeOK, Requested, Planned
  <2> QED
    BY <1>17, <2>1, <2>2 DEF AbortRun, AbortRow
<1>18. ASSUME NEW r \in Runs, AdvanceExec(r) PROVE TypeInv'
  BY <1>18, AdvanceRowTyped DEF AdvanceExec, RunRows, TypeInv, TypeOK, Requested, Planned
<1>19. ASSUME NEW r \in Runs, AdvanceError(r) PROVE TypeInv'
  <2>1. CASE UNCHANGED runs
    BY <1>19, <2>1 DEF AdvanceError, TypeInv, TypeOK, Requested, Planned
  <2>2. CASE AdvanceRow(r)
    BY <1>19, <2>2, AdvanceRowTyped
       DEF AdvanceError, RunRows, TypeInv, TypeOK, Requested, Planned
  <2> QED
    BY <1>19, <2>1, <2>2 DEF AdvanceError
<1>20. ASSUME NEW r \in Runs, NEW t \in Trades, PlaceLeg(r, t) PROVE TypeInv'
  <2>1. runs[r].plan \in Plans
    BY <1>20 DEF PlaceLeg, TypeInv, Planned
  <2>2. PICK d \in Directions, e \in Edges :
          SendPlace(t, NewTicket(runs[r].plan.acct, runs[r].plan.sym, d, "SCALED",
                                 runs[r].plan.stake, runs[r].plan.dur, e, r))
    BY <1>20 DEF PlaceLeg
  <2>3. NewTicket(runs[r].plan.acct, runs[r].plan.sym, d, "SCALED",
                  runs[r].plan.stake, runs[r].plan.dur, e, r) \in Tickets
    BY <2>1, NewTicketTyped DEF TypeInv, Plans
  <2> QED
    BY <1>20, <2>2, <2>3 DEF PlaceLeg, SendPlace, TypeInv, TypeOK, Requested, Planned
<1>21. ASSUME NEW s \in Symbols, NEW p \in Prices, Tick(s, p) PROVE TypeInv'
  BY <1>21, OrderFacts DEF Tick, StartSettle, LevelReason, OpenReasons, TypeInv, TypeOK, Requested, Planned
<1>22. ASSUME NEW c \in lateSettle, LateSettle(c) PROVE TypeInv'
  <2>1. /\ c.trade \in Trades /\ ticket[c.trade] \in Tickets
        /\ c.reason \in OpenReasons \cup {"NONE"} /\ c.exit \in Int
    BY <1>22 DEF LateSettle, TypeInv, TypeOK, Requested
  <2>2. /\ balance' \in [Accounts -> Nat]
        /\ status' \in [Trades -> Settled \cup {"NONE", "OPEN"}]
        /\ outcome' \in [Trades -> [reason : OpenReasons \cup {"NONE"}, exit : Int,
                                    profit : Int]]
        /\ UNCHANGED <<ticket, left, runOf, runs>>
        /\ \A u \in Trades : u # c.trade => status'[u] = status[u]
    BY <1>22, <2>1, SettleRowTyped DEF LateSettle, TypeInv
  <2> QED
    BY <1>22, <2>1, <2>2 DEF LateSettle, TypeInv, TypeOK, Requested, Planned
<1>23. ASSUME NEW a \in Accounts, DemoReset(a) PROVE TypeInv'
  BY <1>23, ConstantFacts DEF DemoReset, TypeInv, TypeOK, Requested, Planned
<1>24. ASSUME Shutdown PROVE TypeInv'
  BY <1>24 DEF Shutdown, Off, TypeInv, TypeOK, Requested, Planned
<1>25. ASSUME Exit PROVE TypeInv'
  BY <1>25, ForgetTyped DEF Exit, TypeInv, TypeOK
<1>26. ASSUME Crash PROVE TypeInv'
  BY <1>26, ForgetTyped DEF Crash, TypeInv, TypeOK
<1>27. ASSUME Boot PROVE TypeInv'
  BY <1>27 DEF Boot, TypeInv, TypeOK, Requested, Planned
<1>28. ASSUME BootLoadFails PROVE TypeInv'
  BY <1>28 DEF BootLoadFails, TypeInv, TypeOK, Requested, Planned
<1>29. ASSUME RecoverDone PROVE TypeInv'
  BY <1>29 DEF RecoverDone, TypeInv, TypeOK, Requested, Planned
<1>30. ASSUME Elapse PROVE TypeInv'
  BY <1>30 DEF Elapse, Off, TypeInv, TypeOK, Requested, Planned
<1>31. CASE UNCHANGED vars
  BY <1>31 DEF vars, TypeInv, TypeOK, Requested, Planned
<1> QED
  BY <1>1, <1>2, <1>3, <1>4, <1>5, <1>6, <1>7, <1>8, <1>9, <1>10, <1>11, <1>12, <1>13, <1>14, <1>15, <1>16, <1>17, <1>18, <1>19, <1>20, <1>21, <1>22, <1>23, <1>24, <1>25, <1>26, <1>27, <1>28, <1>29, <1>30, <1>31 DEF Next, PlaceStep, SettleStep, RunStep

\* The engine's state is typed in every behaviour; in particular no placement or
\* settlement, of whatever order at whatever price, drives a balance below zero.
THEOREM TypeCorrect == Spec => []TypeOK
<1>1. Spec => []TypeInv
  BY InitTypeInv, StepTypeInv, PTL DEF Spec
<1>2. TypeInv => TypeOK
  BY DEF TypeInv
<1> QED
  BY <1>1, <1>2, PTL

-----------------------------------------------------------------------------
(* Safety *)

\* A trade is in one hand at a time: it is being placed, waits to be recovered,
\* is being settled, or is watched.  A process that is not running holds none.
OneOwner ==
    /\ \A t \in Trades :
          /\ place[t] # "idle" => settling[t] = "idle" /\ t \notin todo
          /\ (place[t] # "idle" \/ settling[t] # "idle" \/ t \in todo)
                => timer[t] = Off /\ t \notin live
          /\ t \in todo => settling[t] = "idle"
          /\ phase = "down" =>
                place[t] = "idle" /\ settling[t] = "idle" /\ timer[t] = Off /\ t \notin live
    /\ phase # "recovering" => todo = {}
    /\ phase = "down" => \A r \in Runs : runStep[r] = "idle"
    /\ \A c \in lateSettle : place[c.trade] = "idle"

\* What each hand knows of the row: unwritten while the placement is unexecuted,
\* open until it is settled, settled once a settlement has executed.
RowKnown ==
    /\ \A t \in Trades :
          /\ place[t] = "sent" \/ t \in latePlace => status[t] = "NONE"
          /\ place[t] = "sent" => t \notin latePlace
          /\ place[t] \in {"placed", "linking", "linked"} => status[t] = "OPEN"
          /\ timer[t] # Off \/ t \in live \/ settling[t] # "idle" \/ t \in todo
                => status[t] # "NONE"
          /\ settling[t] \in {"done", "already"} => status[t] \in Settled
    /\ \A c \in lateSettle : status[c.trade] # "NONE"

SafetyInv == TypeInv /\ OneOwner /\ RowKnown /\ LossBounded

-----------------------------------------------------------------------------
\* A trade not yet ordered is in nobody's hands.
LEMMA FreshTrade ==
  ASSUME TypeInv, NEW t \in Trades, ticket[t] = NoTicket
  PROVE  /\ status[t] = "NONE" /\ place[t] = "idle" /\ settling[t] = "idle"
         /\ timer[t] = Off /\ t \notin live /\ t \notin todo /\ t \notin latePlace
         /\ \A c \in lateSettle : c.trade # t
  BY ConstantFacts DEF TypeInv, Requested

\* A timer that comes due is one that was set.
LEMMA DueTimerIsSet == \A t : timer[t] = 0 => timer[t] # Off
  BY DEF Off

\* No step puts a trade in two hands.
LEMMA StepOneOwner ==
  ASSUME TypeInv, OneOwner, [Next]_vars
  PROVE  OneOwner'
<1> USE DEF dbVars, recoverVars, watchVars, settleVars, runVars, lateVars
<1>1. ASSUME NEW t \in Trades, PlaceTrade(t) PROVE OneOwner'
  <2>1. ticket[t] = NoTicket /\ place' = [place EXCEPT ![t] = "sent"]
    BY <1>1 DEF PlaceTrade, SendPlace
  <2> QED
    BY <1>1, <2>1, FreshTrade DEF PlaceTrade, TypeInv, TypeOK, Requested, OneOwner
<1>2. ASSUME NEW t \in Trades, PlaceExec(t) PROVE OneOwner'
  BY <1>2 DEF PlaceExec, PlaceRow, TypeInv, TypeOK, Requested, OneOwner
<1>3. ASSUME NEW t \in Trades, PlaceRefused(t) PROVE OneOwner'
  BY <1>3 DEF PlaceRefused, TypeInv, TypeOK, Requested, OneOwner
<1>4. ASSUME NEW t \in Trades, PlaceReplyLost(t) PROVE OneOwner'
  BY <1>4 DEF PlaceReplyLost, TypeInv, TypeOK, Requested, OneOwner
<1>5. ASSUME NEW t \in Trades, PlaceReply(t) PROVE OneOwner'
  BY <1>5 DEF PlaceReply, Opened, Track, Schedule, TypeInv, TypeOK, Requested, OneOwner
<1>6. ASSUME NEW t \in Trades, LinkExec(t) PROVE OneOwner'
  BY <1>6 DEF LinkExec, TypeInv, TypeOK, Requested, OneOwner
<1>7. ASSUME NEW t \in Trades, LinkError(t) PROVE OneOwner'
  BY <1>7 DEF LinkError, TypeInv, TypeOK, Requested, OneOwner
<1>8. ASSUME NEW t \in Trades, LinkReply(t) PROVE OneOwner'
  BY <1>8 DEF LinkReply, Opened, Track, Schedule, TypeInv, TypeOK, Requested, OneOwner
<1>9. ASSUME NEW t \in Trades, TimerFires(t) PROVE OneOwner'
  <2>1. timer[t] # Off
    BY <1>9, DueTimerIsSet DEF TimerFires
  <2> QED
    BY <1>9, <2>1 DEF TimerFires, StartSettle, TypeInv, TypeOK, Requested, OneOwner
<1>10. ASSUME NEW t \in Trades, SettleExec(t) PROVE OneOwner'
  BY <1>10 DEF SettleExec, TypeInv, TypeOK, Requested, OneOwner
<1>11. ASSUME NEW t \in Trades, SettleError(t) PROVE OneOwner'
  BY <1>11 DEF SettleError, SettleReturns, Schedule, TypeInv, TypeOK, Requested, OneOwner
<1>12. ASSUME NEW t \in Trades, SettleReply(t) PROVE OneOwner'
  BY <1>12 DEF SettleReply, SettleReturns, TypeInv, TypeOK, Requested, OneOwner
<1>13. ASSUME NEW t \in Trades, LatePlace(t) PROVE OneOwner'
  BY <1>13 DEF LatePlace, PlaceRow, TypeInv, TypeOK, Requested, OneOwner
<1>14. ASSUME NEW t \in Trades, RecoverRow(t) PROVE OneOwner'
  BY <1>14 DEF RecoverRow, Rewatch, StartSettle, Track, Schedule, TypeInv, TypeOK, Requested, OneOwner
<1>15. ASSUME NEW r \in Runs, StartRun(r) PROVE OneOwner'
  BY <1>15 DEF StartRun, TypeInv, TypeOK, Requested, OneOwner
<1>16. ASSUME NEW r \in Runs, LegRefused(r) PROVE OneOwner'
  BY <1>16 DEF LegRefused, TypeInv, TypeOK, Requested, OneOwner
<1>17. ASSUME NEW r \in Runs, AbortRun(r) PROVE OneOwner'
  BY <1>17 DEF AbortRun, TypeInv, TypeOK, Requested, OneOwner
<1>18. ASSUME NEW r \in Runs, AdvanceExec(r) PROVE OneOwner'
  BY <1>18 DEF AdvanceExec, TypeInv, TypeOK, Requested, OneOwner
<1>19. ASSUME NEW r \in Runs, AdvanceError(r) PROVE OneOwner'
  BY <1>19 DEF AdvanceError, TypeInv, TypeOK, Requested, OneOwner
<1>20. ASSUME NEW r \in Runs, NEW t \in Trades, PlaceLeg(r, t) PROVE OneOwner'
  <2>1. /\ ticket[t] = NoTicket /\ place' = [place EXCEPT ![t] = "sent"]
        /\ UNCHANGED <<balance, status, left, outcome, runOf, runs, price, recoverVars,
                      watchVars, settleVars, runProfit, lateVars>>
    BY <1>20 DEF PlaceLeg, SendPlace
  <2>2. /\ status[t] = "NONE" /\ settling[t] = "idle" /\ t \notin latePlace
        /\ timer[t] = Off /\ t \notin live /\ t \notin todo
        /\ \A c \in lateSettle : c.trade # t
    BY <2>1, FreshTrade
  <2>3. phase # "down"
    BY <1>20 DEF PlaceLeg, OneOwner
  <2> QED
    BY <2>1, <2>2, <2>3 DEF TypeInv, TypeOK, Requested, OneOwner
<1>21. ASSUME NEW s \in Symbols, NEW p \in Prices, Tick(s, p) PROVE OneOwner'
  BY <1>21 DEF Tick, StartSettle, TypeInv, TypeOK, Requested, OneOwner
<1>22. ASSUME NEW c \in lateSettle, LateSettle(c) PROVE OneOwner'
  BY <1>22 DEF LateSettle, TypeInv, TypeOK, Requested, OneOwner
<1>23. ASSUME NEW a \in Accounts, DemoReset(a) PROVE OneOwner'
  BY <1>23 DEF DemoReset, TypeInv, TypeOK, Requested, OneOwner
<1>24. ASSUME Shutdown PROVE OneOwner'
  BY <1>24 DEF Shutdown, TypeInv, TypeOK, Requested, OneOwner
<1>25. ASSUME Exit PROVE OneOwner'
  BY <1>25 DEF Exit, Forget, TypeInv, TypeOK, Requested, OneOwner
<1>26. ASSUME Crash PROVE OneOwner'
  BY <1>26 DEF Crash, Forget, TypeInv, TypeOK, Requested, OneOwner
<1>27. ASSUME Boot PROVE OneOwner'
  BY <1>27 DEF Boot, TypeInv, TypeOK, Requested, OneOwner
<1>28. ASSUME BootLoadFails PROVE OneOwner'
  BY <1>28 DEF BootLoadFails, TypeInv, TypeOK, Requested, OneOwner
<1>29. ASSUME RecoverDone PROVE OneOwner'
  BY <1>29 DEF RecoverDone, TypeInv, TypeOK, Requested, OneOwner
<1>30. ASSUME Elapse PROVE OneOwner'
  BY <1>30 DEF Elapse, Off, TypeInv, TypeOK, Requested, OneOwner
<1>31. CASE UNCHANGED vars
  BY <1>31 DEF vars, TypeInv, TypeOK, Requested, OneOwner
<1> QED
  BY <1>1, <1>2, <1>3, <1>4, <1>5, <1>6, <1>7, <1>8,
     <1>9, <1>10, <1>11, <1>12, <1>13, <1>14, <1>15, <1>16,
     <1>17, <1>18, <1>19, <1>20, <1>21, <1>22, <1>23, <1>24,
     <1>25, <1>26, <1>27, <1>28, <1>29, <1>30, <1>31
     DEF Next, PlaceStep, SettleStep, RunStep

\* No step makes what a hand knows of its row untrue.
LEMMA StepRowKnown ==
  ASSUME TypeInv, OneOwner, RowKnown, [Next]_vars
  PROVE  RowKnown'
<1> USE DEF dbVars, recoverVars, watchVars, settleVars, runVars, lateVars
<1>1. ASSUME NEW t \in Trades, PlaceTrade(t) PROVE RowKnown'
  <2>1. ticket[t] = NoTicket /\ place' = [place EXCEPT ![t] = "sent"]
    BY <1>1 DEF PlaceTrade, SendPlace
  <2> QED
    BY <1>1, <2>1, FreshTrade DEF PlaceTrade, TypeInv, TypeOK, Requested, OneOwner, RowKnown
<1>2. ASSUME NEW t \in Trades, PlaceExec(t) PROVE RowKnown'
  BY <1>2 DEF PlaceExec, PlaceRow, TypeInv, TypeOK, Requested, OneOwner, RowKnown
<1>3. ASSUME NEW t \in Trades, PlaceRefused(t) PROVE RowKnown'
  BY <1>3 DEF PlaceRefused, TypeInv, TypeOK, Requested, OneOwner, RowKnown
<1>4. ASSUME NEW t \in Trades, PlaceReplyLost(t) PROVE RowKnown'
  BY <1>4 DEF PlaceReplyLost, TypeInv, TypeOK, Requested, OneOwner, RowKnown
<1>5. ASSUME NEW t \in Trades, PlaceReply(t) PROVE RowKnown'
  BY <1>5 DEF PlaceReply, Opened, Track, Schedule, TypeInv, TypeOK, Requested, OneOwner, RowKnown
<1>6. ASSUME NEW t \in Trades, LinkExec(t) PROVE RowKnown'
  BY <1>6 DEF LinkExec, TypeInv, TypeOK, Requested, OneOwner, RowKnown
<1>7. ASSUME NEW t \in Trades, LinkError(t) PROVE RowKnown'
  BY <1>7 DEF LinkError, TypeInv, TypeOK, Requested, OneOwner, RowKnown
<1>8. ASSUME NEW t \in Trades, LinkReply(t) PROVE RowKnown'
  BY <1>8 DEF LinkReply, Opened, Track, Schedule, TypeInv, TypeOK, Requested, OneOwner, RowKnown
<1>9. ASSUME NEW t \in Trades, TimerFires(t) PROVE RowKnown'
  <2>1. timer[t] # Off
    BY <1>9, DueTimerIsSet DEF TimerFires
  <2> QED
    BY <1>9, <2>1 DEF TimerFires, StartSettle, TypeInv, TypeOK, Requested, OneOwner, RowKnown
<1>10. ASSUME NEW t \in Trades, SettleExec(t) PROVE RowKnown'
  <2>1. ticket[t] \in Tickets
    BY <1>10 DEF SettleExec, TypeInv, Requested
  <2>2. close[t].reason \in OpenReasons \cup {"NONE"} /\ close[t].exit \in Int
    BY DEF TypeInv, TypeOK
  <2>3. SettleRow(t, close[t]) /\ TypeOK
    BY <1>10 DEF SettleExec, TypeInv
  <2>4. /\ \A u \in Trades : u # t \/ status[u] # "OPEN" => status'[u] = status[u]
        /\ status[t] = "OPEN" => status'[t] \in Settled
    BY <2>1, <2>2, <2>3, SettleRowTyped
  <2>5. status[t] \in Settled \cup {"NONE", "OPEN"}
    BY DEF TypeInv, TypeOK
  <2> QED
    BY <1>10, <2>4, <2>5 DEF SettleExec, Settled, TypeInv, TypeOK, Requested, OneOwner, RowKnown
<1>11. ASSUME NEW t \in Trades, SettleError(t) PROVE RowKnown'
  BY <1>11 DEF SettleError, SettleReturns, Schedule, TypeInv, TypeOK, Requested, OneOwner, RowKnown
<1>12. ASSUME NEW t \in Trades, SettleReply(t) PROVE RowKnown'
  BY <1>12 DEF SettleReply, SettleReturns, TypeInv, TypeOK, Requested, OneOwner, RowKnown
<1>13. ASSUME NEW t \in Trades, LatePlace(t) PROVE RowKnown'
  BY <1>13 DEF LatePlace, PlaceRow, TypeInv, TypeOK, Requested, OneOwner, RowKnown
<1>14. ASSUME NEW t \in Trades, RecoverRow(t) PROVE RowKnown'
  BY <1>14 DEF RecoverRow, Rewatch, StartSettle, Track, Schedule, TypeInv, TypeOK, Requested, OneOwner, RowKnown
<1>15. ASSUME NEW r \in Runs, StartRun(r) PROVE RowKnown'
  BY <1>15 DEF StartRun, TypeInv, TypeOK, Requested, OneOwner, RowKnown
<1>16. ASSUME NEW r \in Runs, LegRefused(r) PROVE RowKnown'
  BY <1>16 DEF LegRefused, TypeInv, TypeOK, Requested, OneOwner, RowKnown
<1>17. ASSUME NEW r \in Runs, AbortRun(r) PROVE RowKnown'
  BY <1>17 DEF AbortRun, TypeInv, TypeOK, Requested, OneOwner, RowKnown
<1>18. ASSUME NEW r \in Runs, AdvanceExec(r) PROVE RowKnown'
  BY <1>18 DEF AdvanceExec, TypeInv, TypeOK, Requested, OneOwner, RowKnown
<1>19. ASSUME NEW r \in Runs, AdvanceError(r) PROVE RowKnown'
  BY <1>19 DEF AdvanceError, TypeInv, TypeOK, Requested, OneOwner, RowKnown
<1>20. ASSUME NEW r \in Runs, NEW t \in Trades, PlaceLeg(r, t) PROVE RowKnown'
  <2>1. /\ ticket[t] = NoTicket /\ place' = [place EXCEPT ![t] = "sent"]
        /\ UNCHANGED <<balance, status, left, outcome, runOf, runs, price, recoverVars,
                      watchVars, settleVars, runProfit, lateVars>>
    BY <1>20 DEF PlaceLeg, SendPlace
  <2>2. /\ status[t] = "NONE" /\ settling[t] = "idle" /\ t \notin latePlace
        /\ timer[t] = Off /\ t \notin live /\ t \notin todo
        /\ \A c \in lateSettle : c.trade # t
    BY <2>1, FreshTrade
  <2>3. phase # "down"
    BY <1>20 DEF PlaceLeg, OneOwner
  <2> QED
    BY <2>1, <2>2, <2>3 DEF TypeInv, TypeOK, Requested, OneOwner, RowKnown
<1>21. ASSUME NEW s \in Symbols, NEW p \in Prices, Tick(s, p) PROVE RowKnown'
  BY <1>21 DEF Tick, StartSettle, TypeInv, TypeOK, Requested, OneOwner, RowKnown
<1>22. ASSUME NEW c \in lateSettle, LateSettle(c) PROVE RowKnown'
  <2>1. /\ c.trade \in Trades /\ ticket[c.trade] \in Tickets
        /\ c.reason \in OpenReasons \cup {"NONE"} /\ c.exit \in Int
    BY <1>22 DEF TypeInv, TypeOK, Requested
  <2>2. SettleRow(c.trade, c) /\ TypeOK
    BY <1>22 DEF LateSettle, TypeInv
  <2>3. /\ \A u \in Trades : u # c.trade \/ status[u] # "OPEN" => status'[u] = status[u]
        /\ status[c.trade] = "OPEN" => status'[c.trade] \in Settled
    BY <2>1, <2>2, SettleRowTyped
  <2> QED
    BY <1>22, <2>1, <2>3 DEF LateSettle, Settled, TypeInv, TypeOK, Requested, OneOwner, RowKnown
<1>23. ASSUME NEW a \in Accounts, DemoReset(a) PROVE RowKnown'
  BY <1>23 DEF DemoReset, TypeInv, TypeOK, Requested, OneOwner, RowKnown
<1>24. ASSUME Shutdown PROVE RowKnown'
  BY <1>24 DEF Shutdown, TypeInv, TypeOK, Requested, OneOwner, RowKnown
<1>25. ASSUME Exit PROVE RowKnown'
  BY <1>25 DEF Exit, Forget, TypeInv, TypeOK, Requested, OneOwner, RowKnown
<1>26. ASSUME Crash PROVE RowKnown'
  BY <1>26 DEF Crash, Forget, TypeInv, TypeOK, Requested, OneOwner, RowKnown
<1>27. ASSUME Boot PROVE RowKnown'
  BY <1>27 DEF Boot, TypeInv, TypeOK, Requested, OneOwner, RowKnown
<1>28. ASSUME BootLoadFails PROVE RowKnown'
  BY <1>28 DEF BootLoadFails, TypeInv, TypeOK, Requested, OneOwner, RowKnown
<1>29. ASSUME RecoverDone PROVE RowKnown'
  BY <1>29 DEF RecoverDone, TypeInv, TypeOK, Requested, OneOwner, RowKnown
<1>30. ASSUME Elapse PROVE RowKnown'
  BY <1>30 DEF Elapse, Off, TypeInv, TypeOK, Requested, OneOwner, RowKnown
<1>31. CASE UNCHANGED vars
  BY <1>31 DEF vars, TypeInv, TypeOK, Requested, OneOwner, RowKnown
<1> QED
  BY <1>1, <1>2, <1>3, <1>4, <1>5, <1>6, <1>7, <1>8,
     <1>9, <1>10, <1>11, <1>12, <1>13, <1>14, <1>15, <1>16,
     <1>17, <1>18, <1>19, <1>20, <1>21, <1>22, <1>23, <1>24,
     <1>25, <1>26, <1>27, <1>28, <1>29, <1>30, <1>31
     DEF Next, PlaceStep, SettleStep, RunStep

\* fpesa_settle_trade books a result within the bounds, on one open row.
LEMMA SettleRowBounded ==
  ASSUME TypeOK, LossBounded, NEW t \in Trades, ticket[t] \in Tickets,
         NEW c, c.exit \in Int, SettleRow(t, c)
  PROVE  LossBounded'
<1>1. CASE status[t] # "OPEN"
  BY <1>1 DEF SettleRow, dbVars, LossBounded
<1>2. CASE status[t] = "OPEN"
  <2> DEFINE profit == ProfitOf(t, c.exit)
  <2>1. profit \in -ticket[t].stake .. ticket[t].maxProfit
    BY ProfitInBounds
  <2>2. /\ status' = [status EXCEPT ![t] = StatusOf(t, c.exit)]
        /\ outcome' = [outcome EXCEPT ![t] =
                          [reason |-> c.reason, exit |-> c.exit, profit |-> profit]]
        /\ ticket' = ticket
    BY <1>2 DEF SettleRow, CloseRow
  <2> HIDE DEF profit
  <2> QED
    BY <2>1, <2>2 DEF TypeOK, LossBounded
<1> QED
  BY <1>1, <1>2

\* No step books a result outside the bounds.
LEMMA StepLossBounded ==
  ASSUME TypeInv, LossBounded, [Next]_vars
  PROVE  LossBounded'
<1> USE DEF dbVars, recoverVars, watchVars, settleVars, runVars, lateVars
<1>1. ASSUME NEW t \in Trades, PlaceTrade(t) PROVE LossBounded'
  <2>1. status[t] = "NONE" /\ \E tk : ticket' = [ticket EXCEPT ![t] = tk]
    BY <1>1, FreshTrade DEF PlaceTrade, SendPlace
  <2> QED
    BY <1>1, <2>1 DEF PlaceTrade, Settled, TypeInv, TypeOK, LossBounded
<1>2. ASSUME NEW t \in Trades, PlaceExec(t) PROVE LossBounded'
  BY <1>2 DEF PlaceExec, PlaceRow, Settled, TypeInv, TypeOK, LossBounded
<1>3. ASSUME NEW t \in Trades, PlaceRefused(t) PROVE LossBounded'
  BY <1>3 DEF PlaceRefused, TypeInv, LossBounded
<1>4. ASSUME NEW t \in Trades, PlaceReplyLost(t) PROVE LossBounded'
  BY <1>4 DEF PlaceReplyLost, TypeInv, LossBounded
<1>5. ASSUME NEW t \in Trades, PlaceReply(t) PROVE LossBounded'
  BY <1>5 DEF PlaceReply, Opened, Track, Schedule, TypeInv, LossBounded
<1>6. ASSUME NEW t \in Trades, LinkExec(t) PROVE LossBounded'
  BY <1>6 DEF LinkExec, TypeInv, LossBounded
<1>7. ASSUME NEW t \in Trades, LinkError(t) PROVE LossBounded'
  BY <1>7 DEF LinkError, TypeInv, LossBounded
<1>8. ASSUME NEW t \in Trades, LinkReply(t) PROVE LossBounded'
  BY <1>8 DEF LinkReply, Opened, Track, Schedule, TypeInv, LossBounded
<1>9. ASSUME NEW t \in Trades, TimerFires(t) PROVE LossBounded'
  BY <1>9 DEF TimerFires, StartSettle, TypeInv, LossBounded
<1>10. ASSUME NEW t \in Trades, SettleExec(t) PROVE LossBounded'
  <2>1. /\ ticket[t] \in Tickets /\ close[t].exit \in Int
        /\ SettleRow(t, close[t]) /\ TypeOK
    BY <1>10 DEF SettleExec, TypeInv, TypeOK, Requested
  <2> QED
    BY <2>1, SettleRowBounded
<1>11. ASSUME NEW t \in Trades, SettleError(t) PROVE LossBounded'
  BY <1>11 DEF SettleError, SettleReturns, Schedule, TypeInv, LossBounded
<1>12. ASSUME NEW t \in Trades, SettleReply(t) PROVE LossBounded'
  BY <1>12 DEF SettleReply, SettleReturns, TypeInv, LossBounded
<1>13. ASSUME NEW t \in Trades, LatePlace(t) PROVE LossBounded'
  BY <1>13 DEF LatePlace, PlaceRow, Settled, TypeInv, TypeOK, LossBounded
<1>14. ASSUME NEW t \in Trades, RecoverRow(t) PROVE LossBounded'
  BY <1>14 DEF RecoverRow, Rewatch, StartSettle, Track, Schedule, TypeInv, LossBounded
<1>15. ASSUME NEW r \in Runs, StartRun(r) PROVE LossBounded'
  BY <1>15 DEF StartRun, TypeInv, LossBounded
<1>16. ASSUME NEW r \in Runs, LegRefused(r) PROVE LossBounded'
  BY <1>16 DEF LegRefused, TypeInv, LossBounded
<1>17. ASSUME NEW r \in Runs, AbortRun(r) PROVE LossBounded'
  BY <1>17 DEF AbortRun, TypeInv, LossBounded
<1>18. ASSUME NEW r \in Runs, AdvanceExec(r) PROVE LossBounded'
  BY <1>18 DEF AdvanceExec, TypeInv, LossBounded
<1>19. ASSUME NEW r \in Runs, AdvanceError(r) PROVE LossBounded'
  BY <1>19 DEF AdvanceError, TypeInv, LossBounded
<1>20. ASSUME NEW r \in Runs, NEW t \in Trades, PlaceLeg(r, t) PROVE LossBounded'
  <2>1. status[t] = "NONE" /\ \E tk : ticket' = [ticket EXCEPT ![t] = tk]
    BY <1>20, FreshTrade DEF PlaceLeg, SendPlace
  <2> QED
    BY <1>20, <2>1 DEF PlaceLeg, Settled, TypeInv, TypeOK, LossBounded
<1>21. ASSUME NEW s \in Symbols, NEW p \in Prices, Tick(s, p) PROVE LossBounded'
  BY <1>21 DEF Tick, StartSettle, TypeInv, LossBounded
<1>22. ASSUME NEW c \in lateSettle, LateSettle(c) PROVE LossBounded'
  <2>1. /\ c.trade \in Trades /\ ticket[c.trade] \in Tickets /\ c.exit \in Int
        /\ SettleRow(c.trade, c) /\ TypeOK
    BY <1>22 DEF LateSettle, TypeInv, TypeOK, Requested
  <2> QED
    BY <2>1, SettleRowBounded
<1>23. ASSUME NEW a \in Accounts, DemoReset(a) PROVE LossBounded'
  BY <1>23 DEF DemoReset, TypeInv, LossBounded
<1>24. ASSUME Shutdown PROVE LossBounded'
  BY <1>24 DEF Shutdown, TypeInv, LossBounded
<1>25. ASSUME Exit PROVE LossBounded'
  BY <1>25 DEF Exit, Forget, TypeInv, LossBounded
<1>26. ASSUME Crash PROVE LossBounded'
  BY <1>26 DEF Crash, Forget, TypeInv, LossBounded
<1>27. ASSUME Boot PROVE LossBounded'
  BY <1>27 DEF Boot, TypeInv, LossBounded
<1>28. ASSUME BootLoadFails PROVE LossBounded'
  BY <1>28 DEF BootLoadFails, TypeInv, LossBounded
<1>29. ASSUME RecoverDone PROVE LossBounded'
  BY <1>29 DEF RecoverDone, TypeInv, LossBounded
<1>30. ASSUME Elapse PROVE LossBounded'
  BY <1>30 DEF Elapse, TypeInv, LossBounded
<1>31. CASE UNCHANGED vars
  BY <1>31 DEF vars, TypeInv, LossBounded
<1> QED
  BY <1>1, <1>2, <1>3, <1>4, <1>5, <1>6, <1>7, <1>8,
     <1>9, <1>10, <1>11, <1>12, <1>13, <1>14, <1>15, <1>16,
     <1>17, <1>18, <1>19, <1>20, <1>21, <1>22, <1>23, <1>24,
     <1>25, <1>26, <1>27, <1>28, <1>29, <1>30, <1>31
     DEF Next, PlaceStep, SettleStep, RunStep

\* What SettledOnce says of one step.
SettledStep ==
    \A t \in Trades : status[t] \in Settled =>
          /\ status'[t] = status[t] /\ outcome'[t] = outcome[t]
          /\ settling'[t] # settling[t] => settling'[t] # "done"

\* No step changes a settled trade or pays it again.
LEMMA StepSettledOnce ==
  ASSUME TypeInv, RowKnown, [Next]_vars
  PROVE  SettledStep
<1> USE DEF dbVars, recoverVars, watchVars, settleVars, runVars, lateVars
<1>1. ASSUME NEW t \in Trades, PlaceTrade(t) PROVE SettledStep
  BY <1>1 DEF PlaceTrade, SendPlace, TypeInv, TypeOK, RowKnown, SettledStep, Settled
<1>2. ASSUME NEW t \in Trades, PlaceExec(t) PROVE SettledStep
  BY <1>2 DEF PlaceExec, PlaceRow, TypeInv, TypeOK, RowKnown, SettledStep, Settled
<1>3. ASSUME NEW t \in Trades, PlaceRefused(t) PROVE SettledStep
  BY <1>3 DEF PlaceRefused, TypeInv, TypeOK, RowKnown, SettledStep, Settled
<1>4. ASSUME NEW t \in Trades, PlaceReplyLost(t) PROVE SettledStep
  BY <1>4 DEF PlaceReplyLost, TypeInv, TypeOK, RowKnown, SettledStep, Settled
<1>5. ASSUME NEW t \in Trades, PlaceReply(t) PROVE SettledStep
  BY <1>5 DEF PlaceReply, Opened, Track, Schedule, TypeInv, TypeOK, RowKnown, SettledStep, Settled
<1>6. ASSUME NEW t \in Trades, LinkExec(t) PROVE SettledStep
  BY <1>6 DEF LinkExec, TypeInv, TypeOK, RowKnown, SettledStep, Settled
<1>7. ASSUME NEW t \in Trades, LinkError(t) PROVE SettledStep
  BY <1>7 DEF LinkError, TypeInv, TypeOK, RowKnown, SettledStep, Settled
<1>8. ASSUME NEW t \in Trades, LinkReply(t) PROVE SettledStep
  BY <1>8 DEF LinkReply, Opened, Track, Schedule, TypeInv, TypeOK, RowKnown, SettledStep, Settled
<1>9. ASSUME NEW t \in Trades, TimerFires(t) PROVE SettledStep
  BY <1>9 DEF TimerFires, StartSettle, TypeInv, TypeOK, RowKnown, SettledStep, Settled
<1>10. ASSUME NEW t \in Trades, SettleExec(t) PROVE SettledStep
  <2>1. ticket[t] \in Tickets
    BY <1>10 DEF SettleExec, TypeInv, Requested
  <2>2. close[t].reason \in OpenReasons \cup {"NONE"} /\ close[t].exit \in Int
    BY DEF TypeInv, TypeOK
  <2>3. SettleRow(t, close[t]) /\ TypeOK
    BY <1>10 DEF SettleExec, TypeInv
  <2>4. \A u \in Trades : u # t \/ status[u] # "OPEN" =>
            status'[u] = status[u] /\ outcome'[u] = outcome[u]
    BY <2>1, <2>2, <2>3, SettleRowTyped
  <2> QED
    BY <1>10, <2>4 DEF SettleExec, TypeInv, TypeOK, RowKnown, SettledStep, Settled
<1>11. ASSUME NEW t \in Trades, SettleError(t) PROVE SettledStep
  BY <1>11 DEF SettleError, SettleReturns, Schedule, TypeInv, TypeOK, RowKnown, SettledStep, Settled
<1>12. ASSUME NEW t \in Trades, SettleReply(t) PROVE SettledStep
  BY <1>12 DEF SettleReply, SettleReturns, TypeInv, TypeOK, RowKnown, SettledStep, Settled
<1>13. ASSUME NEW t \in Trades, LatePlace(t) PROVE SettledStep
  BY <1>13 DEF LatePlace, PlaceRow, TypeInv, TypeOK, RowKnown, SettledStep, Settled
<1>14. ASSUME NEW t \in Trades, RecoverRow(t) PROVE SettledStep
  BY <1>14 DEF RecoverRow, Rewatch, StartSettle, Track, Schedule, TypeInv, TypeOK, RowKnown, SettledStep, Settled
<1>15. ASSUME NEW r \in Runs, StartRun(r) PROVE SettledStep
  BY <1>15 DEF StartRun, TypeInv, TypeOK, RowKnown, SettledStep, Settled
<1>16. ASSUME NEW r \in Runs, LegRefused(r) PROVE SettledStep
  BY <1>16 DEF LegRefused, TypeInv, TypeOK, RowKnown, SettledStep, Settled
<1>17. ASSUME NEW r \in Runs, AbortRun(r) PROVE SettledStep
  BY <1>17 DEF AbortRun, TypeInv, TypeOK, RowKnown, SettledStep, Settled
<1>18. ASSUME NEW r \in Runs, AdvanceExec(r) PROVE SettledStep
  BY <1>18 DEF AdvanceExec, TypeInv, TypeOK, RowKnown, SettledStep, Settled
<1>19. ASSUME NEW r \in Runs, AdvanceError(r) PROVE SettledStep
  BY <1>19 DEF AdvanceError, TypeInv, TypeOK, RowKnown, SettledStep, Settled
<1>20. ASSUME NEW r \in Runs, NEW t \in Trades, PlaceLeg(r, t) PROVE SettledStep
  BY <1>20 DEF PlaceLeg, SendPlace, TypeInv, TypeOK, RowKnown, SettledStep, Settled
<1>21. ASSUME NEW s \in Symbols, NEW p \in Prices, Tick(s, p) PROVE SettledStep
  BY <1>21 DEF Tick, StartSettle, TypeInv, TypeOK, RowKnown, SettledStep, Settled
<1>22. ASSUME NEW c \in lateSettle, LateSettle(c) PROVE SettledStep
  <2>1. /\ c.trade \in Trades /\ ticket[c.trade] \in Tickets
        /\ c.reason \in OpenReasons \cup {"NONE"} /\ c.exit \in Int
    BY <1>22 DEF TypeInv, TypeOK, Requested
  <2>2. SettleRow(c.trade, c) /\ TypeOK
    BY <1>22 DEF LateSettle, TypeInv
  <2>3. \A u \in Trades : u # c.trade \/ status[u] # "OPEN" =>
            status'[u] = status[u] /\ outcome'[u] = outcome[u]
    BY <2>1, <2>2, SettleRowTyped
  <2> QED
    BY <1>22, <2>3 DEF LateSettle, TypeInv, TypeOK, RowKnown, SettledStep, Settled
<1>23. ASSUME NEW a \in Accounts, DemoReset(a) PROVE SettledStep
  BY <1>23 DEF DemoReset, TypeInv, TypeOK, RowKnown, SettledStep, Settled
<1>24. ASSUME Shutdown PROVE SettledStep
  BY <1>24 DEF Shutdown, TypeInv, TypeOK, RowKnown, SettledStep, Settled
<1>25. ASSUME Exit PROVE SettledStep
  BY <1>25 DEF Exit, Forget, TypeInv, TypeOK, RowKnown, SettledStep, Settled
<1>26. ASSUME Crash PROVE SettledStep
  BY <1>26 DEF Crash, Forget, TypeInv, TypeOK, RowKnown, SettledStep, Settled
<1>27. ASSUME Boot PROVE SettledStep
  BY <1>27 DEF Boot, TypeInv, TypeOK, RowKnown, SettledStep, Settled
<1>28. ASSUME BootLoadFails PROVE SettledStep
  BY <1>28 DEF BootLoadFails, TypeInv, TypeOK, RowKnown, SettledStep, Settled
<1>29. ASSUME RecoverDone PROVE SettledStep
  BY <1>29 DEF RecoverDone, TypeInv, TypeOK, RowKnown, SettledStep, Settled
<1>30. ASSUME Elapse PROVE SettledStep
  BY <1>30 DEF Elapse, TypeInv, TypeOK, RowKnown, SettledStep, Settled
<1>31. CASE UNCHANGED vars
  BY <1>31 DEF vars, TypeInv, TypeOK, RowKnown, SettledStep, Settled
<1> QED
  BY <1>1, <1>2, <1>3, <1>4, <1>5, <1>6, <1>7, <1>8,
     <1>9, <1>10, <1>11, <1>12, <1>13, <1>14, <1>15, <1>16,
     <1>17, <1>18, <1>19, <1>20, <1>21, <1>22, <1>23, <1>24,
     <1>25, <1>26, <1>27, <1>28, <1>29, <1>30, <1>31
     DEF Next, PlaceStep, SettleStep, RunStep

\* The faults under which a stake can be left to nobody.
Reliable == Faults \cap {"placeReplyLost", "latePlace", "loadFails"} = {}

\* Every open row is held, and no placement is still to come from a dead process.
Held == NoStrandedTrade /\ latePlace = {}

\* A delay is never the absence of a timer.
LEMMA DelayIsSet == \A n \in Nat : n # Off
  BY DEF Off

\* When nothing loses a placement or the boot, no step leaves an open row to nobody.
LEMMA StepNoStrandedTrade ==
  ASSUME Reliable, TypeInv, OneOwner, RowKnown, Held, [Next]_vars
  PROVE  Held'
<1> USE DEF dbVars, recoverVars, watchVars, settleVars, runVars, lateVars
<1>1. ASSUME NEW t \in Trades, PlaceTrade(t) PROVE Held'
  <2>1. /\ ticket[t] = NoTicket /\ place' = [place EXCEPT ![t] = "sent"]
        /\ UNCHANGED <<status, phase, todo, timer, settling, latePlace>>
    BY <1>1 DEF PlaceTrade, SendPlace
  <2>2. status[t] = "NONE"
    BY <2>1, FreshTrade
  <2> QED
    BY <2>1, <2>2 DEF TypeInv, TypeOK, NoStrandedTrade, Held
<1>2. ASSUME NEW t \in Trades, PlaceExec(t) PROVE Held'
  BY <1>2 DEF PlaceExec, PlaceRow, TypeInv, TypeOK, OneOwner, RowKnown, NoStrandedTrade, Held, Reliable
<1>3. ASSUME NEW t \in Trades, PlaceRefused(t) PROVE Held'
  BY <1>3 DEF PlaceRefused, TypeInv, TypeOK, OneOwner, RowKnown, NoStrandedTrade, Held, Reliable
<1>4. ASSUME NEW t \in Trades, PlaceReplyLost(t) PROVE Held'
  BY <1>4 DEF PlaceReplyLost, TypeInv, TypeOK, OneOwner, RowKnown, NoStrandedTrade, Held, Reliable
<1>5. ASSUME NEW t \in Trades, PlaceReply(t) PROVE Held'
  <2>1. ticket[t] \in Tickets
    BY <1>5 DEF PlaceReply, TypeInv, Requested
  <2>2. ticket[t].dur # Off
    BY <2>1, TicketFacts, DelayIsSet
  <2>3. \/ timer' = [timer EXCEPT ![t] = ticket[t].dur] /\ place' = [place EXCEPT ![t] = "idle"]
        \/ timer' = timer /\ place' = [place EXCEPT ![t] = "linking"]
    BY <1>5 DEF PlaceReply, Opened, Schedule
  <2>4. UNCHANGED <<status, phase, todo, settling, latePlace>>
    BY <1>5 DEF PlaceReply
  <2> QED
    BY <2>2, <2>3, <2>4 DEF TypeInv, TypeOK, NoStrandedTrade, Held
<1>6. ASSUME NEW t \in Trades, LinkExec(t) PROVE Held'
  BY <1>6 DEF LinkExec, TypeInv, TypeOK, OneOwner, RowKnown, NoStrandedTrade, Held, Reliable
<1>7. ASSUME NEW t \in Trades, LinkError(t) PROVE Held'
  BY <1>7 DEF LinkError, TypeInv, TypeOK, OneOwner, RowKnown, NoStrandedTrade, Held, Reliable
<1>8. ASSUME NEW t \in Trades, LinkReply(t) PROVE Held'
  <2>1. ticket[t] \in Tickets
    BY <1>8 DEF LinkReply, TypeInv, Requested
  <2>2. ticket[t].dur # Off
    BY <2>1, TicketFacts, DelayIsSet
  <2> QED
    BY <1>8, <2>2 DEF LinkReply, Opened, Schedule, TypeInv, TypeOK, OneOwner, RowKnown, NoStrandedTrade, Held, Reliable
<1>9. ASSUME NEW t \in Trades, TimerFires(t) PROVE Held'
  BY <1>9, DueTimerIsSet DEF TimerFires, StartSettle, Off, TypeInv, TypeOK, OneOwner, RowKnown, NoStrandedTrade, Held, Reliable
<1>10. ASSUME NEW t \in Trades, SettleExec(t) PROVE Held'
  <2>1. ticket[t] \in Tickets
    BY <1>10 DEF SettleExec, TypeInv, Requested
  <2>2. close[t].reason \in OpenReasons \cup {"NONE"} /\ close[t].exit \in Int
    BY DEF TypeInv, TypeOK
  <2>3. SettleRow(t, close[t]) /\ TypeOK
    BY <1>10 DEF SettleExec, TypeInv
  <2>4. /\ \A u \in Trades : u # t \/ status[u] # "OPEN" => status'[u] = status[u]
        /\ status[t] = "OPEN" => status'[t] \in Settled
    BY <2>1, <2>2, <2>3, SettleRowTyped
  <2> QED
    BY <1>10, <2>4 DEF SettleExec, Settled, TypeInv, TypeOK, OneOwner, RowKnown, NoStrandedTrade, Held, Reliable
<1>11. ASSUME NEW t \in Trades, SettleError(t) PROVE Held'
  BY <1>11, ConstantFacts, DelayIsSet DEF SettleError, SettleReturns, Schedule, TypeInv, TypeOK, OneOwner, RowKnown, NoStrandedTrade, Held, Reliable
<1>12. ASSUME NEW t \in Trades, SettleReply(t) PROVE Held'
  <2>1. status[t] # "OPEN"
    BY <1>12 DEF SettleReply, RowKnown, Settled
  <2>2. /\ settling' = [settling EXCEPT ![t] = "idle"]
        /\ UNCHANGED <<status, phase, todo, timer, place, latePlace>>
    BY <1>12 DEF SettleReply, SettleReturns
  <2> QED
    BY <2>1, <2>2 DEF TypeInv, TypeOK, NoStrandedTrade, Held
<1>13. ASSUME NEW t \in Trades, LatePlace(t) PROVE Held'
  BY <1>13 DEF LatePlace, PlaceRow, TypeInv, TypeOK, OneOwner, RowKnown, NoStrandedTrade, Held, Reliable
<1>14. ASSUME NEW t \in Trades, RecoverRow(t) PROVE Held'
  <2>1. left[t] # Off
    BY DelayIsSet DEF TypeInv, TypeOK
  <2> QED
    BY <1>14, <2>1 DEF RecoverRow, Rewatch, StartSettle, Track, Schedule, TypeInv, TypeOK, OneOwner, RowKnown, NoStrandedTrade, Held, Reliable
<1>15. ASSUME NEW r \in Runs, StartRun(r) PROVE Held'
  BY <1>15 DEF StartRun, TypeInv, TypeOK, OneOwner, RowKnown, NoStrandedTrade, Held, Reliable
<1>16. ASSUME NEW r \in Runs, LegRefused(r) PROVE Held'
  BY <1>16 DEF LegRefused, TypeInv, TypeOK, OneOwner, RowKnown, NoStrandedTrade, Held, Reliable
<1>17. ASSUME NEW r \in Runs, AbortRun(r) PROVE Held'
  BY <1>17 DEF AbortRun, TypeInv, TypeOK, OneOwner, RowKnown, NoStrandedTrade, Held, Reliable
<1>18. ASSUME NEW r \in Runs, AdvanceExec(r) PROVE Held'
  BY <1>18 DEF AdvanceExec, TypeInv, TypeOK, OneOwner, RowKnown, NoStrandedTrade, Held, Reliable
<1>19. ASSUME NEW r \in Runs, AdvanceError(r) PROVE Held'
  BY <1>19 DEF AdvanceError, TypeInv, TypeOK, OneOwner, RowKnown, NoStrandedTrade, Held, Reliable
<1>20. ASSUME NEW r \in Runs, NEW t \in Trades, PlaceLeg(r, t) PROVE Held'
  <2>1. /\ ticket[t] = NoTicket /\ place' = [place EXCEPT ![t] = "sent"]
        /\ UNCHANGED <<status, phase, todo, timer, settling, latePlace>>
    BY <1>20 DEF PlaceLeg, SendPlace
  <2>2. status[t] = "NONE"
    BY <2>1, FreshTrade
  <2> QED
    BY <2>1, <2>2 DEF TypeInv, TypeOK, NoStrandedTrade, Held
<1>21. ASSUME NEW s \in Symbols, NEW p \in Prices, Tick(s, p) PROVE Held'
  BY <1>21 DEF Tick, StartSettle, TypeInv, TypeOK, OneOwner, RowKnown, NoStrandedTrade, Held, Reliable
<1>22. ASSUME NEW c \in lateSettle, LateSettle(c) PROVE Held'
  <2>1. /\ c.trade \in Trades /\ ticket[c.trade] \in Tickets
        /\ c.reason \in OpenReasons \cup {"NONE"} /\ c.exit \in Int
    BY <1>22 DEF TypeInv, TypeOK, Requested
  <2>2. SettleRow(c.trade, c) /\ TypeOK
    BY <1>22 DEF LateSettle, TypeInv
  <2>3. /\ \A u \in Trades : u # c.trade \/ status[u] # "OPEN" => status'[u] = status[u]
        /\ status[c.trade] = "OPEN" => status'[c.trade] \in Settled
    BY <2>1, <2>2, SettleRowTyped
  <2> QED
    BY <1>22, <2>1, <2>3 DEF LateSettle, Settled, TypeInv, TypeOK, OneOwner, RowKnown, NoStrandedTrade, Held, Reliable
<1>23. ASSUME NEW a \in Accounts, DemoReset(a) PROVE Held'
  BY <1>23 DEF DemoReset, TypeInv, TypeOK, OneOwner, RowKnown, NoStrandedTrade, Held, Reliable
<1>24. ASSUME Shutdown PROVE Held'
  BY <1>24 DEF Shutdown, TypeInv, TypeOK, OneOwner, RowKnown, NoStrandedTrade, Held, Reliable
<1>25. ASSUME Exit PROVE Held'
  BY <1>25 DEF Exit, Forget, TypeInv, TypeOK, OneOwner, RowKnown, NoStrandedTrade, Held, Reliable
<1>26. ASSUME Crash PROVE Held'
  BY <1>26 DEF Crash, Forget, TypeInv, TypeOK, OneOwner, RowKnown, NoStrandedTrade, Held, Reliable
<1>27. ASSUME Boot PROVE Held'
  BY <1>27 DEF Boot, TypeInv, TypeOK, OneOwner, RowKnown, NoStrandedTrade, Held, Reliable
<1>28. ASSUME BootLoadFails PROVE Held'
  BY <1>28 DEF BootLoadFails, TypeInv, TypeOK, OneOwner, RowKnown, NoStrandedTrade, Held, Reliable
<1>29. ASSUME RecoverDone PROVE Held'
  BY <1>29 DEF RecoverDone, TypeInv, TypeOK, OneOwner, RowKnown, NoStrandedTrade, Held, Reliable
<1>30. ASSUME Elapse PROVE Held'
  BY <1>30, DueTimerIsSet DEF Elapse, Off, TypeInv, TypeOK, OneOwner, RowKnown, NoStrandedTrade, Held, Reliable
<1>31. CASE UNCHANGED vars
  BY <1>31 DEF vars, TypeInv, TypeOK, OneOwner, RowKnown, NoStrandedTrade, Held, Reliable
<1> QED
  BY <1>1, <1>2, <1>3, <1>4, <1>5, <1>6, <1>7, <1>8,
     <1>9, <1>10, <1>11, <1>12, <1>13, <1>14, <1>15, <1>16,
     <1>17, <1>18, <1>19, <1>20, <1>21, <1>22, <1>23, <1>24,
     <1>25, <1>26, <1>27, <1>28, <1>29, <1>30, <1>31
     DEF Next, PlaceStep, SettleStep, RunStep

-----------------------------------------------------------------------------
(* The theorems *)

\* No settlement starts while another of the same trade is in flight, and nothing
\* that waits to be recovered has a timer: SingleSettler, in every behaviour.
THEOREM SingleSettlerHolds == Spec => []SingleSettler
<1>1. Init => OneOwner
  BY DEF Init, OneOwner, Off
<1>2. OneOwner => SingleSettler
  <2>1. OneOwner => \A t \in todo : t \in Trades => settling[t] = "idle" /\ place[t] = "idle"
    BY DEF OneOwner
  <2> QED
    BY <2>1 DEF OneOwner, SingleSettler
<1> QED
  BY <1>1, <1>2, InitTypeInv, StepTypeInv, StepOneOwner, PTL DEF Spec

\* What the process knows of a row is true of it: it is unwritten until the
\* placement executes and settled once a settlement has.
THEOREM RowKnownHolds == Spec => [](TypeInv /\ OneOwner /\ RowKnown)
<1>1. Init => OneOwner /\ RowKnown
  BY DEF Init, OneOwner, RowKnown, Off
<1> QED
  BY <1>1, InitTypeInv, StepTypeInv, StepOneOwner, StepRowKnown, PTL DEF Spec

\* No trade books a loss above its stake or a win above its ceiling, whatever the
\* prices, the leverage and the edge: the clamps of fpesa_settle_trade.
THEOREM LossBoundedHolds == Spec => []LossBounded
<1>1. Init => LossBounded
  BY DEF Init, LossBounded, Settled
<1> QED
  BY <1>1, InitTypeInv, StepTypeInv, StepLossBounded, PTL DEF Spec

\* A settled trade never changes again and is never paid again, through every
\* retry, crash and late request: the claim fpesa_settle_trade starts with.
THEOREM SettledOnceHolds == Spec => SettledOnce
<1>1. TypeInv /\ RowKnown /\ [Next]_vars => [SettledStep]_vars
  BY StepSettledOnce
<1> QED
  BY <1>1, RowKnownHolds, PTL DEF Spec, SettledOnce, SettledStep

\* Unless a placement loses its reply or outlives its process, or the boot cannot
\* read the open trades, a running engine always holds every open row.
THEOREM NoStrandedTradeHolds ==
  ASSUME Reliable
  PROVE  Spec => []NoStrandedTrade
<1>1. Init => Held
  BY DEF Init, Held, NoStrandedTrade
<1>2. TypeInv /\ OneOwner /\ RowKnown /\ Held /\ [Next]_vars => Held'
  BY Reliable, StepNoStrandedTrade
<1>3. Held => NoStrandedTrade
  BY DEF Held
<1> QED
  BY <1>1, <1>2, <1>3, RowKnownHolds, PTL DEF Spec

-----------------------------------------------------------------------------
(* The abstract book *)

\* Nothing is booked on a row before it settles, and the ceiling of a ticket is
\* the one its stake buys.
Priced ==
    \A t \in Trades :
        /\ status[t] \in {"NONE", "OPEN"} => outcome[t].profit = 0
        /\ ticket[t] \in Tickets => ticket[t].maxProfit \in Ceilings

\* placeTrade fixes as ceiling what the stake buys.
LEMMA NewTicketPriced ==
  ASSUME NEW a, NEW s, NEW d, NEW k, NEW st \in Stakes, NEW du, NEW e, NEW r
  PROVE  NewTicket(a, s, d, k, st, du, e, r).maxProfit \in Ceilings
  BY DEF NewTicket, Ceilings

\* A new ticket leaves everything else, and the rows priced.
LEMMA SendPlacePriced ==
  ASSUME TypeInv, Priced, NEW t \in Trades, NEW a, NEW s, NEW d, NEW k,
         NEW st \in Stakes, NEW du, NEW e, NEW r,
         SendPlace(t, NewTicket(a, s, d, k, st, du, e, r)), UNCHANGED <<status, outcome>>
  PROVE  Priced'
<1> DEFINE tk == NewTicket(a, s, d, k, st, du, e, r)
<1>1. tk.maxProfit \in Ceilings
  BY NewTicketPriced
<1>2. ticket' = [ticket EXCEPT ![t] = tk]
  BY DEF SendPlace
<1> HIDE DEF tk
<1>3. Ceilings' = Ceilings /\ Tickets' = Tickets
  BY DEF Ceilings, Tickets
<1> QED
  BY <1>1, <1>2, <1>3 DEF TypeInv, TypeOK, Priced

\* fpesa_settle_trade books a result only on the row it settles.
LEMMA SettleRowPriced ==
  ASSUME TypeOK, Priced, NEW t \in Trades, ticket[t] \in Tickets,
         NEW c, c.reason \in OpenReasons \cup {"NONE"}, c.exit \in Int, SettleRow(t, c)
  PROVE  Priced'
<1>1. /\ UNCHANGED <<ticket, left, runOf, runs>>
      /\ \A u \in Trades : u # t \/ status[u] # "OPEN" =>
             status'[u] = status[u] /\ outcome'[u] = outcome[u]
      /\ status[t] = "OPEN" => status'[t] \in Settled
  BY SettleRowTyped
<1>2. Ceilings' = Ceilings /\ Tickets' = Tickets
  BY DEF Ceilings, Tickets
<1> QED
  BY <1>1, <1>2 DEF Priced, Settled

\* Every step leaves the rows priced.
LEMMA StepPriced ==
  ASSUME TypeInv, RowKnown, Priced, [Next]_vars
  PROVE  Priced'
<1> USE DEF dbVars, recoverVars, watchVars, settleVars, runVars, lateVars
<1>1. ASSUME NEW t \in Trades, PlaceTrade(t) PROVE Priced'
  <2>1. PICK a \in Accounts, s \in Symbols, d \in Directions, k \in Kinds,
             st \in Stakes, du \in Durations, e \in Edges :
             SendPlace(t, NewTicket(a, s, d, k, st, du, e, NoRun))
    BY <1>1 DEF PlaceTrade
  <2> QED
    BY <1>1, <2>1, SendPlacePriced DEF PlaceTrade
<1>2. ASSUME NEW t \in Trades, PlaceExec(t) PROVE Priced'
  <2>1. status[t] = "NONE"
    BY <1>2 DEF PlaceExec, RowKnown
  <2>2. /\ UNCHANGED <<ticket, outcome>>
        /\ status' = status \/ status' = [status EXCEPT ![t] = "OPEN"]
    BY <1>2 DEF PlaceExec, PlaceRow
  <2>3. Ceilings' = Ceilings /\ Tickets' = Tickets
    BY DEF Ceilings, Tickets
  <2> QED
    BY <2>1, <2>2, <2>3 DEF TypeInv, TypeOK, Priced
<1>3. ASSUME NEW t \in Trades, PlaceRefused(t) PROVE Priced'
  BY <1>3 DEF PlaceRefused, TypeInv, TypeOK, Requested, Priced, Ceilings, Tickets
<1>4. ASSUME NEW t \in Trades, PlaceReplyLost(t) PROVE Priced'
  BY <1>4 DEF PlaceReplyLost, TypeInv, TypeOK, Requested, Priced, Ceilings, Tickets
<1>5. ASSUME NEW t \in Trades, PlaceReply(t) PROVE Priced'
  BY <1>5 DEF PlaceReply, Opened, Track, Schedule, TypeInv, TypeOK, Requested, Priced, Ceilings, Tickets
<1>6. ASSUME NEW t \in Trades, LinkExec(t) PROVE Priced'
  BY <1>6 DEF LinkExec, TypeInv, TypeOK, Requested, Priced, Ceilings, Tickets
<1>7. ASSUME NEW t \in Trades, LinkError(t) PROVE Priced'
  BY <1>7 DEF LinkError, TypeInv, TypeOK, Requested, Priced, Ceilings, Tickets
<1>8. ASSUME NEW t \in Trades, LinkReply(t) PROVE Priced'
  BY <1>8 DEF LinkReply, Opened, Track, Schedule, TypeInv, TypeOK, Requested, Priced, Ceilings, Tickets
<1>9. ASSUME NEW t \in Trades, TimerFires(t) PROVE Priced'
  BY <1>9 DEF TimerFires, StartSettle, TypeInv, TypeOK, Requested, Priced, Ceilings, Tickets
<1>10. ASSUME NEW t \in Trades, SettleExec(t) PROVE Priced'
  <2>1. /\ ticket[t] \in Tickets /\ close[t].exit \in Int
        /\ close[t].reason \in OpenReasons \cup {"NONE"}
        /\ SettleRow(t, close[t]) /\ TypeOK
    BY <1>10 DEF SettleExec, TypeInv, TypeOK, Requested
  <2> QED
    BY <2>1, SettleRowPriced
<1>11. ASSUME NEW t \in Trades, SettleError(t) PROVE Priced'
  BY <1>11 DEF SettleError, SettleReturns, Schedule, TypeInv, TypeOK, Requested, Priced, Ceilings, Tickets
<1>12. ASSUME NEW t \in Trades, SettleReply(t) PROVE Priced'
  BY <1>12 DEF SettleReply, SettleReturns, TypeInv, TypeOK, Requested, Priced, Ceilings, Tickets
<1>13. ASSUME NEW t \in Trades, LatePlace(t) PROVE Priced'
  <2>1. status[t] = "NONE"
    BY <1>13 DEF LatePlace, RowKnown
  <2>2. /\ UNCHANGED <<ticket, outcome>>
        /\ status' = status \/ status' = [status EXCEPT ![t] = "OPEN"]
    BY <1>13 DEF LatePlace, PlaceRow
  <2>3. Ceilings' = Ceilings /\ Tickets' = Tickets
    BY DEF Ceilings, Tickets
  <2> QED
    BY <2>1, <2>2, <2>3 DEF TypeInv, TypeOK, Priced
<1>14. ASSUME NEW t \in Trades, RecoverRow(t) PROVE Priced'
  BY <1>14 DEF RecoverRow, Rewatch, StartSettle, Track, Schedule, TypeInv, TypeOK, Requested, Priced, Ceilings, Tickets
<1>15. ASSUME NEW r \in Runs, StartRun(r) PROVE Priced'
  BY <1>15 DEF StartRun, TypeInv, TypeOK, Requested, Priced, Ceilings, Tickets
<1>16. ASSUME NEW r \in Runs, LegRefused(r) PROVE Priced'
  BY <1>16 DEF LegRefused, TypeInv, TypeOK, Requested, Priced, Ceilings, Tickets
<1>17. ASSUME NEW r \in Runs, AbortRun(r) PROVE Priced'
  BY <1>17 DEF AbortRun, TypeInv, TypeOK, Requested, Priced, Ceilings, Tickets
<1>18. ASSUME NEW r \in Runs, AdvanceExec(r) PROVE Priced'
  BY <1>18 DEF AdvanceExec, TypeInv, TypeOK, Requested, Priced, Ceilings, Tickets
<1>19. ASSUME NEW r \in Runs, AdvanceError(r) PROVE Priced'
  BY <1>19 DEF AdvanceError, TypeInv, TypeOK, Requested, Priced, Ceilings, Tickets
<1>20. ASSUME NEW r \in Runs, NEW t \in Trades, PlaceLeg(r, t) PROVE Priced'
  <2>1. runs[r].plan.stake \in Stakes
    BY <1>20 DEF PlaceLeg, Plans, TypeInv, Planned
  <2>2. PICK d \in Directions, e \in Edges :
          SendPlace(t, NewTicket(runs[r].plan.acct, runs[r].plan.sym, d, "SCALED",
                                 runs[r].plan.stake, runs[r].plan.dur, e, r))
    BY <1>20 DEF PlaceLeg
  <2> QED
    BY <1>20, <2>1, <2>2, SendPlacePriced DEF PlaceLeg
<1>21. ASSUME NEW s \in Symbols, NEW p \in Prices, Tick(s, p) PROVE Priced'
  BY <1>21 DEF Tick, StartSettle, TypeInv, TypeOK, Requested, Priced, Ceilings, Tickets
<1>22. ASSUME NEW c \in lateSettle, LateSettle(c) PROVE Priced'
  <2>1. /\ c.trade \in Trades /\ ticket[c.trade] \in Tickets /\ c.exit \in Int
        /\ c.reason \in OpenReasons \cup {"NONE"}
        /\ SettleRow(c.trade, c) /\ TypeOK
    BY <1>22 DEF LateSettle, TypeInv, TypeOK, Requested
  <2> QED
    BY <2>1, SettleRowPriced
<1>23. ASSUME NEW a \in Accounts, DemoReset(a) PROVE Priced'
  BY <1>23 DEF DemoReset, TypeInv, TypeOK, Requested, Priced, Ceilings, Tickets
<1>24. ASSUME Shutdown PROVE Priced'
  BY <1>24 DEF Shutdown, TypeInv, TypeOK, Requested, Priced, Ceilings, Tickets
<1>25. ASSUME Exit PROVE Priced'
  BY <1>25 DEF Exit, Forget, TypeInv, TypeOK, Requested, Priced, Ceilings, Tickets
<1>26. ASSUME Crash PROVE Priced'
  BY <1>26 DEF Crash, Forget, TypeInv, TypeOK, Requested, Priced, Ceilings, Tickets
<1>27. ASSUME Boot PROVE Priced'
  BY <1>27 DEF Boot, TypeInv, TypeOK, Requested, Priced, Ceilings, Tickets
<1>28. ASSUME BootLoadFails PROVE Priced'
  BY <1>28 DEF BootLoadFails, TypeInv, TypeOK, Requested, Priced, Ceilings, Tickets
<1>29. ASSUME RecoverDone PROVE Priced'
  BY <1>29 DEF RecoverDone, TypeInv, TypeOK, Requested, Priced, Ceilings, Tickets
<1>30. ASSUME Elapse PROVE Priced'
  BY <1>30 DEF Elapse, TypeInv, TypeOK, Requested, Priced, Ceilings, Tickets
<1>31. CASE UNCHANGED vars
  BY <1>31 DEF vars, TypeInv, TypeOK, Requested, Priced, Ceilings, Tickets
<1> QED
  BY <1>1, <1>2, <1>3, <1>4, <1>5, <1>6, <1>7, <1>8,
     <1>9, <1>10, <1>11, <1>12, <1>13, <1>14, <1>15, <1>16,
     <1>17, <1>18, <1>19, <1>20, <1>21, <1>22, <1>23, <1>24,
     <1>25, <1>26, <1>27, <1>28, <1>29, <1>30, <1>31
     DEF Next, PlaceStep, SettleStep, RunStep

-----------------------------------------------------------------------------
\* The columns the book sees.
LEMMA SameBook ==
  ASSUME UNCHANGED <<balance, status, ticket, outcome>>
  PROVE  UNCHANGED B!bookVars
  BY DEF B!bookVars, position

\* A ticket that has no row yet is not a position.
LEMMA TicketIsNoPosition ==
  ASSUME TypeInv, NEW t \in Trades, NEW tk, SendPlace(t, tk), UNCHANGED <<balance, status, outcome>>
  PROVE  UNCHANGED B!bookVars
<1>1. status[t] = "NONE" /\ ticket' = [ticket EXCEPT ![t] = tk]
  BY FreshTrade DEF SendPlace
<1>2. \A u \in Trades : position'[u] = position[u]
  BY <1>1 DEF position, TypeInv, TypeOK
<1>3. position' = position
  BY <1>2 DEF position
<1> QED
  BY <1>3 DEF B!bookVars

\* fpesa_place_trade opens a position of the book.
LEMMA PlaceRowOpens ==
  ASSUME TypeInv, Priced, NEW t \in Trades, ticket[t] \in Tickets,
         status[t] = "NONE", PlaceRow(t)
  PROVE  B!Open(t)
<1> DEFINE tk == ticket[t]
<1>1. tk.acct \in Accounts /\ tk.stake \in Stakes /\ tk.maxProfit \in Ceilings
  BY DEF Tickets, Priced
<1>2. /\ balance[tk.acct] >= tk.stake
      /\ balance' = [balance EXCEPT ![tk.acct] = @ - tk.stake]
      /\ status' = [status EXCEPT ![t] = "OPEN"]
      /\ UNCHANGED <<ticket, outcome>>
  BY DEF PlaceRow
<1>3. outcome[t].profit = 0
  BY DEF Priced
<1>4. position[t] = NoTicket
  BY DEF position
<1>5. position' = [position EXCEPT ![t] =
                     [open |-> TRUE, acct |-> tk.acct, stake |-> tk.stake,
                      ceiling |-> tk.maxProfit, result |-> 0]]
  BY <1>2, <1>3 DEF position, TypeInv, TypeOK
<1> QED
  BY <1>1, <1>2, <1>4, <1>5 DEF B!Open, B!Position

\* fpesa_settle_trade closes a position of the book, or does nothing.
LEMMA SettleRowCloses ==
  ASSUME TypeInv, Priced, NEW t \in Trades, ticket[t] \in Tickets,
         NEW c, c.exit \in Int, SettleRow(t, c)
  PROVE  B!Close(t) \/ UNCHANGED B!bookVars
<1>1. CASE status[t] # "OPEN"
  BY <1>1, SameBook DEF SettleRow, dbVars
<1>2. CASE status[t] = "OPEN"
  <2> DEFINE tk == ticket[t]
             x == ProfitOf(t, c.exit)
             st == StatusOf(t, c.exit)
             payout == IF tk.stake + x < 0 THEN 0 ELSE tk.stake + x
             pos == [open |-> TRUE, acct |-> tk.acct, stake |-> tk.stake,
                     ceiling |-> tk.maxProfit, result |-> 0]
  <2>1. /\ tk.acct \in Accounts /\ tk.stake \in Stakes /\ tk.stake \in Nat
        /\ tk.maxProfit \in Ceilings /\ tk.maxProfit \in Nat
    BY TicketFacts DEF Tickets, Priced
  <2>2. x \in -tk.stake .. tk.maxProfit /\ st \in Settled
    BY ProfitInBounds
  <2>3. /\ status' = [status EXCEPT ![t] = st]
        /\ outcome' = [outcome EXCEPT ![t] =
                          [reason |-> c.reason, exit |-> c.exit, profit |-> x]]
        /\ balance' = [balance EXCEPT ![tk.acct] = @ + payout]
        /\ ticket' = ticket
    BY <1>2 DEF SettleRow, CloseRow
  <2>4. outcome[t].profit = 0
    BY <1>2 DEF Priced
  <2>5. position[t] = pos
    BY <1>2, <2>4 DEF position
  <2>6. pos # NoTicket
    <3>1. pos \in [open : BOOLEAN, acct : Accounts, stake : Stakes,
                  ceiling : Ceilings, result : Int]
      BY <2>1
    <3> QED BY <3>1, PositionAssumption
  <2> HIDE DEF x, st
  <2>7. payout = tk.stake + x
    BY <2>1, <2>2
  <2> HIDE DEF payout
  <2>8. st # "NONE" /\ st # "OPEN"
    BY <2>2 DEF Settled
  <2>9. position' = [position EXCEPT ![t] =
                         B!Position(FALSE, tk.acct, tk.stake, tk.maxProfit, x)]
    <3> DEFINE new == B!Position(FALSE, tk.acct, tk.stake, tk.maxProfit, x)
    <3>1. position'[t] = new
      BY <2>3, <2>8 DEF position, TypeInv, TypeOK, B!Position
    <3>2. \A u \in Trades \ {t} : position'[u] = position[u]
      BY <2>3 DEF position, TypeInv, TypeOK
    <3>3. /\ position = [u \in Trades |-> position[u]]
          /\ position' = [u \in Trades |-> position'[u]]
      BY DEF position
    <3> HIDE DEF new
    <3>4. position' = [position EXCEPT ![t] = new]
      BY <3>1, <3>2, <3>3
    <3> QED BY <3>4 DEF new
  <2>10. balance' = [balance EXCEPT ![position[t].acct] = @ + position[t].stake + x]
    <3>1. position[t].acct = tk.acct /\ position[t].stake = tk.stake
      BY <2>5
    <3>2. /\ balance[tk.acct] \in Nat /\ x \in Int
          /\ balance' = [balance EXCEPT ![tk.acct] = balance[tk.acct] + payout]
      BY <2>1, <2>2, <2>3 DEF TypeInv, TypeOK
    <3>3. balance[tk.acct] + payout = balance[tk.acct] + tk.stake + x
      BY <2>1, <2>7, <3>2
    <3> HIDE DEF tk
    <3> QED
      BY <3>1, <3>2, <3>3
  <2>11. /\ position[t].open /\ position[t].stake = tk.stake
         /\ position[t].ceiling = tk.maxProfit /\ position[t].acct = tk.acct
    BY <2>5
  <2>12. position[t] # NoTicket
    BY <2>5, <2>6
  <2>13. x \in -position[t].stake .. position[t].ceiling
    BY <2>2, <2>11
  <2> HIDE DEF pos, tk
  <2> QED
    BY <2>9, <2>10, <2>11, <2>12, <2>13 DEF B!Close
<1> QED
  BY <1>1, <1>2

\* Every step of the engine is a step of the book or leaves it alone.
LEMMA StepBook ==
  ASSUME TypeInv, RowKnown, Priced, [Next]_vars
  PROVE  [B!Next]_B!bookVars
<1> USE DEF dbVars, recoverVars, watchVars, settleVars, runVars, lateVars
<1>1. ASSUME NEW t \in Trades, PlaceTrade(t) PROVE [B!Next]_B!bookVars
  <2>1. PICK tk : SendPlace(t, tk) /\ UNCHANGED <<balance, status, outcome>>
    BY <1>1 DEF PlaceTrade
  <2> QED
    BY <2>1, TicketIsNoPosition
<1>2. ASSUME NEW t \in Trades, PlaceExec(t) PROVE [B!Next]_B!bookVars
  <2>1. ticket[t] \in Tickets /\ status[t] = "NONE"
    BY <1>2 DEF PlaceExec, TypeInv, Requested, RowKnown
  <2> QED
    BY <1>2, <2>1, PlaceRowOpens DEF PlaceExec, B!Next
<1>3. ASSUME NEW t \in Trades, PlaceRefused(t) PROVE [B!Next]_B!bookVars
  BY <1>3, SameBook DEF PlaceRefused
<1>4. ASSUME NEW t \in Trades, PlaceReplyLost(t) PROVE [B!Next]_B!bookVars
  BY <1>4, SameBook DEF PlaceReplyLost
<1>5. ASSUME NEW t \in Trades, PlaceReply(t) PROVE [B!Next]_B!bookVars
  BY <1>5, SameBook DEF PlaceReply
<1>6. ASSUME NEW t \in Trades, LinkExec(t) PROVE [B!Next]_B!bookVars
  BY <1>6, SameBook DEF LinkExec
<1>7. ASSUME NEW t \in Trades, LinkError(t) PROVE [B!Next]_B!bookVars
  BY <1>7, SameBook DEF LinkError
<1>8. ASSUME NEW t \in Trades, LinkReply(t) PROVE [B!Next]_B!bookVars
  BY <1>8, SameBook DEF LinkReply
<1>9. ASSUME NEW t \in Trades, TimerFires(t) PROVE [B!Next]_B!bookVars
  BY <1>9, SameBook DEF TimerFires
<1>10. ASSUME NEW t \in Trades, SettleExec(t) PROVE [B!Next]_B!bookVars
  <2>1. ticket[t] \in Tickets /\ close[t].exit \in Int /\ SettleRow(t, close[t])
    BY <1>10 DEF SettleExec, TypeInv, TypeOK, Requested
  <2> QED
    BY <2>1, SettleRowCloses DEF B!Next
<1>11. ASSUME NEW t \in Trades, SettleError(t) PROVE [B!Next]_B!bookVars
  BY <1>11, SameBook DEF SettleError
<1>12. ASSUME NEW t \in Trades, SettleReply(t) PROVE [B!Next]_B!bookVars
  BY <1>12, SameBook DEF SettleReply
<1>13. ASSUME NEW t \in Trades, LatePlace(t) PROVE [B!Next]_B!bookVars
  <2>1. ticket[t] \in Tickets /\ status[t] = "NONE"
    BY <1>13 DEF LatePlace, TypeInv, Requested, RowKnown
  <2> QED
    BY <1>13, <2>1, PlaceRowOpens, SameBook DEF LatePlace, B!Next
<1>14. ASSUME NEW t \in Trades, RecoverRow(t) PROVE [B!Next]_B!bookVars
  BY <1>14, SameBook DEF RecoverRow
<1>15. ASSUME NEW r \in Runs, StartRun(r) PROVE [B!Next]_B!bookVars
  BY <1>15, SameBook DEF StartRun
<1>16. ASSUME NEW r \in Runs, LegRefused(r) PROVE [B!Next]_B!bookVars
  BY <1>16, SameBook DEF LegRefused
<1>17. ASSUME NEW r \in Runs, AbortRun(r) PROVE [B!Next]_B!bookVars
  BY <1>17, SameBook DEF AbortRun
<1>18. ASSUME NEW r \in Runs, AdvanceExec(r) PROVE [B!Next]_B!bookVars
  BY <1>18, SameBook DEF AdvanceExec
<1>19. ASSUME NEW r \in Runs, AdvanceError(r) PROVE [B!Next]_B!bookVars
  BY <1>19, SameBook DEF AdvanceError
<1>20. ASSUME NEW r \in Runs, NEW t \in Trades, PlaceLeg(r, t) PROVE [B!Next]_B!bookVars
  <2>1. PICK tk : SendPlace(t, tk) /\ UNCHANGED <<balance, status, outcome>>
    BY <1>20 DEF PlaceLeg
  <2> QED
    BY <2>1, TicketIsNoPosition
<1>21. ASSUME NEW s \in Symbols, NEW p \in Prices, Tick(s, p) PROVE [B!Next]_B!bookVars
  BY <1>21, SameBook DEF Tick
<1>22. ASSUME NEW c \in lateSettle, LateSettle(c) PROVE [B!Next]_B!bookVars
  <2>1. /\ c.trade \in Trades /\ ticket[c.trade] \in Tickets /\ c.exit \in Int
        /\ SettleRow(c.trade, c)
    BY <1>22 DEF LateSettle, TypeInv, TypeOK, Requested
  <2> QED
    BY <2>1, SettleRowCloses DEF B!Next
<1>23. ASSUME NEW a \in Accounts, DemoReset(a) PROVE [B!Next]_B!bookVars
  <2>1. B!TopUp(a)
    BY <1>23 DEF DemoReset, position, B!TopUp
  <2> QED
    BY <2>1, <1>23 DEF B!Next, DemoReset
<1>24. ASSUME Shutdown PROVE [B!Next]_B!bookVars
  BY <1>24, SameBook DEF Shutdown
<1>25. ASSUME Exit PROVE [B!Next]_B!bookVars
  BY <1>25, SameBook DEF Exit, Forget
<1>26. ASSUME Crash PROVE [B!Next]_B!bookVars
  BY <1>26, SameBook DEF Crash, Forget
<1>27. ASSUME Boot PROVE [B!Next]_B!bookVars
  BY <1>27, SameBook DEF Boot
<1>28. ASSUME BootLoadFails PROVE [B!Next]_B!bookVars
  BY <1>28, SameBook DEF BootLoadFails
<1>29. ASSUME RecoverDone PROVE [B!Next]_B!bookVars
  BY <1>29, SameBook DEF RecoverDone
<1>30. ASSUME Elapse PROVE [B!Next]_B!bookVars
  BY <1>30, SameBook DEF Elapse
<1>31. CASE UNCHANGED vars
  BY <1>31, SameBook DEF vars
<1> QED
  BY <1>1, <1>2, <1>3, <1>4, <1>5, <1>6, <1>7, <1>8,
     <1>9, <1>10, <1>11, <1>12, <1>13, <1>14, <1>15, <1>16,
     <1>17, <1>18, <1>19, <1>20, <1>21, <1>22, <1>23, <1>24,
     <1>25, <1>26, <1>27, <1>28, <1>29, <1>30, <1>31
     DEF Next, PlaceStep, SettleStep, RunStep

\* The engine implements the book: every position is opened once, with its stake
\* taken, and closed at most once, with its stake and result paid, whatever is
\* retried, lost, late or restarted.
THEOREM EngineImplementsBook == Spec => ImplementsBook
<1>1. Init => B!Init
  BY DEF Init, B!Init, position
<1>2. Init => Priced
  <2>1. Init => \A t \in Trades : outcome[t].profit = 0 /\ ticket[t] = NoTicket
    BY DEF Init, NoOutcome
  <2> QED
    BY <2>1, ConstantFacts DEF Priced
<1>3. TypeInv /\ RowKnown /\ Priced /\ [Next]_vars => Priced'
  BY StepPriced
<1>4. TypeInv /\ RowKnown /\ Priced /\ [Next]_vars => [B!Next]_B!bookVars
  BY StepBook
<1> QED
  BY <1>1, <1>2, <1>3, <1>4, RowKnownHolds, PTL DEF Spec, ImplementsBook, B!Spec

-----------------------------------------------------------------------------
(* Money *)

\* The open and the settled trades of an account, and what they are worth.
AtRisk(a) == {t \in Trades : status[t] = "OPEN" /\ ticket[t].acct = a}
Booked(a) == {t \in Trades : status[t] \in Settled /\ ticket[t].acct = a}
Staked(tk, S) == SumFunctionOnSet([t \in Trades |-> tk[t].stake], S)
Won(o, S) == SumFunctionOnSet([t \in Trades |-> o[t].profit], S)

\* So far finitely many rows are written, and real balances are what they say.
Finite == IsFiniteSet({t \in Trades : status[t] # "NONE"})
Ledger ==
    \A a \in RealAccounts :
        balance[a] = StartBalance - Staked(ticket, AtRisk(a)) + Won(outcome, Booked(a))

\* A reason for closing a trade that its ticket bears out.
Fits(tk, c) ==
    /\ c.reason = "STOP_OUT" => HitStop(tk.dir, c.exit, tk.stop)
    /\ c.reason = "TAKE_PROFIT" =>
          HitTarget(tk.dir, c.exit, tk.target) /\ ~HitStop(tk.dir, c.exit, tk.stop)
    /\ tk.kind = "DIGITAL" => c.reason = "EXPIRY"

\* Only a position with exit levels is watched, and whoever is settling a trade, or has
\* settled it, has such a reason.
Reasoned ==
    /\ \A t \in Trades : ticket[t] \in Tickets /\ ticket[t].kind = "DIGITAL" =>
                            ticket[t].stop = NoLevel
    /\ \A t \in live : ticket[t].stop # NoLevel
    /\ \A t \in Trades : settling[t] = "sent" => Fits(ticket[t], close[t])
    /\ \A t \in Trades : status[t] \in Settled => Fits(ticket[t], outcome[t])
    /\ \A c \in lateSettle : Fits(ticket[c.trade], c)

\* An open trade is watched as long as its timer runs and its levels matter, and the timer
\* does not run out before the trade does; only then is it closed as expired.
Timely ==
    /\ \A t \in Trades : status[t] = "OPEN" =>
          /\ left[t] <= ticket[t].dur
          /\ timer[t] # Off => left[t] <= timer[t] /\ (ticket[t].stop # NoLevel => t \in live)
          /\ settling[t] = "sent" /\ close[t].reason = "EXPIRY" => left[t] = 0
    /\ \A c \in lateSettle : status[c.trade] = "OPEN" /\ c.reason = "EXPIRY" =>
                                left[c.trade] = 0
    /\ ExpiryNotEarly

\* A leg of a run that is being placed, is open, or has yet to be reported.
Active(t) == status[t] = "OPEN" \/ place[t] # "idle" \/ t \in latePlace \/ settling[t] = "done"
LegOf(t, r) == ticket[t] \in Tickets /\ ticket[t].run = r /\ Active(t)

\* A leg belongs to the run that ordered it, and that run was started.
Linked ==
    \A t \in Trades :
        /\ runOf[t] # NoRun => ticket[t] \in Tickets /\ runOf[t] = ticket[t].run
        /\ ticket[t] \in Tickets /\ ticket[t].run # NoRun => runs[ticket[t].run].status # "NONE"

\* A run has one such leg at most, and none when it is about to place the next or is done.
TurnOf(r) ==
    /\ \A t, u \in Trades : LegOf(t, r) /\ LegOf(u, r) => t = u
    /\ runStep[r] \in {"leg", "advancing"} \/ runs[r].status = "DONE" =>
          \A t \in Trades : ~LegOf(t, r)
    /\ runs[r].status = "DONE" => runStep[r] \notin {"leg", "advancing"}

\* The settled legs of a run.  n of them, which made p, it has yet to be told of.
Counted(r) == {t \in Trades : runOf[t] = r /\ status[t] \in Settled}
Owes(r, n, p) ==
    /\ runs[r].completed + n = Cardinality(Counted(r))
    /\ runs[r].net + p = Won(outcome, Counted(r))
ToReport(t, r) == settling[t] = "done" /\ runOf[t] = r

\* While a run can go on it has been told of every leg but the one that is to be reported;
\* it may never be told of the last, and then it does not go on.
TallyOf(r) ==
    /\ runs[r].completed <= Cardinality(Counted(r))
    /\ runs[r].status = "RUNNING" => runs[r].completed < runs[r].total
    /\ runs[r].status = "DONE" => runs[r].completed = runs[r].total
    /\ runs[r].status = "DONE" \/ runStep[r] = "leg" => Owes(r, 0, 0)
    /\ runStep[r] = "advancing" => Owes(r, 1, runProfit[r])
    /\ \A t \in Trades : LegOf(t, r) =>
          IF ToReport(t, r) THEN Owes(r, 1, outcome[t].profit) ELSE Owes(r, 0, 0)

RunInv == Linked /\ \A r \in Runs : TurnOf(r) /\ TallyOf(r)

-----------------------------------------------------------------------------
\* What ordering a trade changes.
LEMMA Ordered ==
  ASSUME TypeInv, NEW t \in Trades, NEW tk, SendPlace(t, tk)
  PROVE  /\ ticket[t] = NoTicket /\ status[t] = "NONE" /\ ticket'[t] = tk
         /\ \A u \in Trades : u # t => ticket'[u] = ticket[u]
         /\ \A u \in Trades : ticket[u] \in Tickets => ticket'[u] = ticket[u]
<1>1. ticket[t] = NoTicket /\ ticket' = [ticket EXCEPT ![t] = tk]
  BY DEF SendPlace
<1> QED
  BY <1>1, FreshTrade, ConstantFacts DEF TypeInv, TypeOK

\* What writing the row changes.
LEMMA RowPlaced ==
  ASSUME TypeInv, NEW t \in Trades, ticket[t] \in Tickets, PlaceRow(t)
  PROVE  /\ status'[t] = "OPEN" /\ left'[t] = ticket[t].dur
         /\ \A u \in Trades : u # t => status'[u] = status[u] /\ left'[u] = left[u]
         /\ ticket[t].acct \in Accounts /\ ticket[t].stake \in Nat
         /\ balance'[ticket[t].acct] = balance[ticket[t].acct] - ticket[t].stake
         /\ \A a \in Accounts : a # ticket[t].acct => balance'[a] = balance[a]
         /\ UNCHANGED <<ticket, outcome, runOf, runs>>
<1>1. ticket[t].acct \in Accounts /\ ticket[t].stake \in Nat
  BY TicketFacts
<1>2. /\ balance' = [balance EXCEPT ![ticket[t].acct] = @ - ticket[t].stake]
      /\ status' = [status EXCEPT ![t] = "OPEN"]
      /\ left' = [left EXCEPT ![t] = ticket[t].dur]
      /\ UNCHANGED <<ticket, outcome, runOf, runs>>
  BY DEF PlaceRow
<1> QED
  BY <1>1, <1>2 DEF TypeInv, TypeOK

\* What closing the row changes: it pays the stake and the result, which is never below the
\* loss of the stake.
LEMMA RowClosed ==
  ASSUME TypeInv, NEW t \in Trades, ticket[t] \in Tickets, status[t] = "OPEN",
         NEW c, c.reason \in OpenReasons \cup {"NONE"}, c.exit \in Int, SettleRow(t, c)
  PROVE  /\ status'[t] \in Settled /\ outcome'[t].profit \in Int
         /\ outcome'[t].reason = c.reason /\ outcome'[t].exit = c.exit
         /\ \A u \in Trades : u # t => status'[u] = status[u] /\ outcome'[u] = outcome[u]
         /\ ticket[t].acct \in Accounts /\ ticket[t].stake \in Nat
         /\ balance'[ticket[t].acct] =
               balance[ticket[t].acct] + ticket[t].stake + outcome'[t].profit
         /\ \A a \in Accounts : a # ticket[t].acct => balance'[a] = balance[a]
         /\ UNCHANGED <<ticket, left, runOf, runs>>
<1> DEFINE x == ProfitOf(t, c.exit)
           st == StatusOf(t, c.exit)
           payout == IF ticket[t].stake + x < 0 THEN 0 ELSE ticket[t].stake + x
<1>1. /\ ticket[t].acct \in Accounts /\ ticket[t].stake \in Nat
      /\ ticket[t].maxProfit \in Nat
  BY TicketFacts
<1>2. x \in -ticket[t].stake .. ticket[t].maxProfit /\ st \in Settled
  BY ProfitInBounds
<1>3. /\ status' = [status EXCEPT ![t] = st]
      /\ outcome' = [outcome EXCEPT ![t] =
                        [reason |-> c.reason, exit |-> c.exit, profit |-> x]]
      /\ balance' = [balance EXCEPT ![ticket[t].acct] = @ + payout]
      /\ UNCHANGED <<ticket, left, runOf, runs>>
  BY DEF SettleRow, CloseRow
<1> HIDE DEF x, st
<1>4. payout = ticket[t].stake + x /\ x \in Int
  BY <1>1, <1>2
<1> HIDE DEF payout
<1>5. /\ status'[t] = st /\ outcome'[t] = [reason |-> c.reason, exit |-> c.exit, profit |-> x]
      /\ \A u \in Trades : u # t => status'[u] = status[u] /\ outcome'[u] = outcome[u]
  BY <1>3 DEF TypeInv, TypeOK
<1>6. /\ balance'[ticket[t].acct] = balance[ticket[t].acct] + payout
      /\ \A a \in Accounts : a # ticket[t].acct => balance'[a] = balance[a]
  BY <1>1, <1>3 DEF TypeInv, TypeOK
<1>7. balance[ticket[t].acct] + payout = balance[ticket[t].acct] + ticket[t].stake + x
  BY <1>1, <1>4 DEF TypeInv, TypeOK
<1> QED
  BY <1>1, <1>2, <1>3, <1>4, <1>5, <1>6, <1>7

-----------------------------------------------------------------------------
(* Real money *)

\* The trades of an account are finitely many, and what they are worth are numbers.
LEMMA InTheLedger ==
  ASSUME TypeInv, Finite, NEW a
  PROVE  /\ IsFiniteSet(AtRisk(a)) /\ AtRisk(a) \subseteq Trades
         /\ \A t \in AtRisk(a) : ticket[t] \in Tickets /\ ticket[t].stake \in Int
         /\ IsFiniteSet(Booked(a)) /\ Booked(a) \subseteq Trades
         /\ \A t \in Booked(a) : ticket[t] \in Tickets /\ outcome[t].profit \in Int
<1>1. /\ AtRisk(a) \subseteq {t \in Trades : status[t] # "NONE"}
      /\ Booked(a) \subseteq {t \in Trades : status[t] # "NONE"}
  BY DEF AtRisk, Booked, Settled
<1>2. IsFiniteSet(AtRisk(a)) /\ IsFiniteSet(Booked(a))
  BY <1>1, FS_Subset DEF Finite
<1>3. \A t \in Trades : status[t] # "NONE" => ticket[t] \in Tickets
  BY DEF TypeInv, Requested
<1>4. \A t \in Trades : outcome[t].profit \in Int
  BY DEF TypeInv, TypeOK
<1>5. \A t \in Trades : ticket[t] \in Tickets => ticket[t].stake \in Int
  BY TicketFacts
<1> QED
  BY <1>1, <1>2, <1>3, <1>4, <1>5

\* Stakes of the same tickets add up to the same; one more trade adds its stake.
LEMMA StakedSame ==
  ASSUME NEW S, IsFiniteSet(S), S \subseteq Trades, NEW o, NEW q,
         \A t \in S : o[t].stake \in Int /\ q[t] = o[t]
  PROVE  Staked(q, S) = Staked(o, S) /\ Staked(o, S) \in Int
<1> DEFINE f == [t \in Trades |-> o[t].stake]
           h == [t \in Trades |-> q[t].stake]
<1>1. \A t \in S : f[t] \in Int /\ f[t] = h[t]
  OBVIOUS
<1> HIDE DEF f, h
<1>2. SumFunctionOnSet(f, S) = SumFunctionOnSet(h, S)
  BY <1>1, SumSame
<1>3. SumFunctionOnSet(f, S) \in Int
  BY <1>1, SumInt
<1> QED
  BY <1>2, <1>3 DEF f, h, Staked

\* One more open trade adds its stake.
LEMMA StakedMore ==
  ASSUME NEW S, IsFiniteSet(S), S \subseteq Trades, NEW t \in Trades, t \notin S, NEW o,
         \A u \in S \cup {t} : o[u].stake \in Int
  PROVE  Staked(o, S \cup {t}) = o[t].stake + Staked(o, S)
<1> DEFINE f == [u \in Trades |-> o[u].stake]
<1>1. f[t] = o[t].stake /\ \A u \in S \cup {t} : f[u] \in Int
  OBVIOUS
<1> HIDE DEF f
<1>2. SumFunctionOnSet(f, S \cup {t}) = f[t] + SumFunctionOnSet(f, S)
  BY <1>1, SumAdd
<1> QED
  BY <1>1, <1>2 DEF f, Staked

\* The same of results.
LEMMA WonSame ==
  ASSUME NEW S, IsFiniteSet(S), S \subseteq Trades, NEW o, NEW q,
         \A t \in S : o[t].profit \in Int /\ q[t] = o[t]
  PROVE  Won(q, S) = Won(o, S) /\ Won(o, S) \in Int
<1> DEFINE f == [t \in Trades |-> o[t].profit]
           h == [t \in Trades |-> q[t].profit]
<1>1. \A t \in S : f[t] \in Int /\ f[t] = h[t]
  OBVIOUS
<1> HIDE DEF f, h
<1>2. SumFunctionOnSet(f, S) = SumFunctionOnSet(h, S)
  BY <1>1, SumSame
<1>3. SumFunctionOnSet(f, S) \in Int
  BY <1>1, SumInt
<1> QED
  BY <1>2, <1>3 DEF f, h, Won

\* One more settled trade adds its result.
LEMMA WonMore ==
  ASSUME NEW S, IsFiniteSet(S), S \subseteq Trades, NEW t \in Trades, t \notin S, NEW o,
         \A u \in S \cup {t} : o[u].profit \in Int
  PROVE  Won(o, S \cup {t}) = o[t].profit + Won(o, S)
<1> DEFINE f == [u \in Trades |-> o[u].profit]
<1>1. f[t] = o[t].profit /\ \A u \in S \cup {t} : f[u] \in Int
  OBVIOUS
<1> HIDE DEF f
<1>2. SumFunctionOnSet(f, S \cup {t}) = f[t] + SumFunctionOnSet(f, S)
  BY <1>1, SumAdd
<1> QED
  BY <1>1, <1>2 DEF f, Won

\* What moves no money and touches no row leaves the ledger.
LEMMA LedgerKept ==
  ASSUME TypeInv, Finite, Ledger, UNCHANGED <<status, outcome>>,
         \A a \in RealAccounts : balance'[a] = balance[a],
         \A t \in Trades : status[t] # "NONE" => ticket'[t] = ticket[t]
  PROVE  Finite' /\ Ledger'
<1>1. Finite'
  BY DEF Finite
<1>2. ASSUME NEW a \in RealAccounts
      PROVE  balance'[a] = StartBalance - Staked(ticket', AtRisk(a)') + Won(outcome', Booked(a)')
  <2>1. AtRisk(a)' = AtRisk(a) /\ Booked(a)' = Booked(a)
    BY DEF AtRisk, Booked, Settled
  <2>2. /\ IsFiniteSet(AtRisk(a)) /\ AtRisk(a) \subseteq Trades
        /\ \A t \in AtRisk(a) : ticket[t].stake \in Int
    BY InTheLedger
  <2>3. \A t \in AtRisk(a) : ticket'[t] = ticket[t]
    BY DEF AtRisk
  <2>4. Staked(ticket', AtRisk(a)) = Staked(ticket, AtRisk(a))
    BY <2>2, <2>3, StakedSame
  <2> QED
    BY <2>1, <2>4 DEF Ledger
<1> QED
  BY <1>1, <1>2 DEF Ledger

\* fpesa_place_trade enters the stake that it takes.
LEMMA StakeEntered ==
  ASSUME TypeInv, Finite, Ledger, NEW t \in Trades, ticket[t] \in Tickets,
         status[t] = "NONE", PlaceRow(t)
  PROVE  Finite' /\ Ledger'
<1>1. /\ status'[t] = "OPEN" /\ \A u \in Trades : u # t => status'[u] = status[u]
      /\ ticket[t].acct \in Accounts /\ ticket[t].stake \in Nat
      /\ balance'[ticket[t].acct] = balance[ticket[t].acct] - ticket[t].stake
      /\ \A a \in Accounts : a # ticket[t].acct => balance'[a] = balance[a]
      /\ ticket' = ticket /\ outcome' = outcome
  BY RowPlaced
<1>2. {u \in Trades : status'[u] # "NONE"} = {u \in Trades : status[u] # "NONE"} \cup {t}
  BY <1>1
<1>3. Finite'
  BY <1>2, FS_AddElement DEF Finite
<1>4. ASSUME NEW a \in RealAccounts
      PROVE  balance'[a] = StartBalance - Staked(ticket', AtRisk(a)') + Won(outcome', Booked(a)')
  <2>1. /\ a \in Accounts /\ balance[a] \in Int /\ StartBalance \in Int
        /\ balance[a] = StartBalance - Staked(ticket, AtRisk(a)) + Won(outcome, Booked(a))
    BY ConstantsAssumption, ConstantFacts DEF TypeInv, TypeOK, Ledger
  <2>2. /\ IsFiniteSet(AtRisk(a)) /\ AtRisk(a) \subseteq Trades
        /\ \A u \in AtRisk(a) : ticket[u].stake \in Int /\ ticket[u] = ticket[u]
        /\ IsFiniteSet(Booked(a)) /\ Booked(a) \subseteq Trades
        /\ \A u \in Booked(a) : outcome[u].profit \in Int /\ outcome[u] = outcome[u]
    BY InTheLedger
  <2>3. Staked(ticket, AtRisk(a)) \in Int /\ Won(outcome, Booked(a)) \in Int
    BY <2>2, StakedSame, WonSame
  <2>4. Booked(a)' = Booked(a)
    BY <1>1 DEF Booked, Settled
  <2>5. CASE ticket[t].acct = a
    <3>1. AtRisk(a)' = AtRisk(a) \cup {t} /\ t \notin AtRisk(a)
      BY <1>1, <2>5 DEF AtRisk
    <3>2. Staked(ticket, AtRisk(a) \cup {t}) = ticket[t].stake + Staked(ticket, AtRisk(a))
      <4>1. \A u \in AtRisk(a) \cup {t} : ticket[u].stake \in Int
        BY <1>1, <2>2
      <4> QED
        BY <2>2, <3>1, <4>1, StakedMore
    <3>3. balance'[a] = balance[a] - ticket[t].stake
      BY <1>1, <2>5
    <3>4. balance'[a] = StartBalance - Staked(ticket, AtRisk(a) \cup {t}) + Won(outcome, Booked(a))
      BY <1>1, <2>1, <2>3, <3>2, <3>3
    <3> QED
      BY <1>1, <2>4, <3>1, <3>4
  <2>6. CASE ticket[t].acct # a
    <3>1. AtRisk(a)' = AtRisk(a)
      BY <1>1, <2>6 DEF AtRisk
    <3>2. balance'[a] = balance[a]
      BY <1>1, <2>1, <2>6
    <3> QED
      BY <1>1, <2>1, <2>4, <3>1, <3>2
  <2> QED
    BY <2>5, <2>6
<1> QED
  BY <1>3, <1>4 DEF Ledger

\* fpesa_settle_trade enters the result that it pays with the stake, or nothing.
LEMMA ResultEntered ==
  ASSUME TypeInv, Finite, Ledger, NEW t \in Trades, ticket[t] \in Tickets,
         NEW c, c.reason \in OpenReasons \cup {"NONE"}, c.exit \in Int, SettleRow(t, c)
  PROVE  Finite' /\ Ledger'
<1>1. CASE status[t] # "OPEN"
  BY <1>1, LedgerKept DEF SettleRow, dbVars
<1>2. CASE status[t] = "OPEN"
  <2>1. /\ status'[t] \in Settled /\ outcome'[t].profit \in Int
        /\ \A u \in Trades : u # t => status'[u] = status[u] /\ outcome'[u] = outcome[u]
        /\ ticket[t].acct \in Accounts /\ ticket[t].stake \in Nat
        /\ balance'[ticket[t].acct] =
              balance[ticket[t].acct] + ticket[t].stake + outcome'[t].profit
        /\ \A a \in Accounts : a # ticket[t].acct => balance'[a] = balance[a]
        /\ ticket' = ticket
    BY <1>2, RowClosed
  <2>2. {u \in Trades : status'[u] # "NONE"} = {u \in Trades : status[u] # "NONE"}
    BY <1>2, <2>1 DEF Settled
  <2>3. Finite'
    BY <2>2 DEF Finite
  <2>4. ASSUME NEW a \in RealAccounts
        PROVE  balance'[a] = StartBalance - Staked(ticket', AtRisk(a)') + Won(outcome', Booked(a)')
    <3>1. /\ a \in Accounts /\ balance[a] \in Int /\ StartBalance \in Int
          /\ balance[a] = StartBalance - Staked(ticket, AtRisk(a)) + Won(outcome, Booked(a))
      BY ConstantsAssumption, ConstantFacts DEF TypeInv, TypeOK, Ledger
    <3>2. /\ IsFiniteSet(AtRisk(a)) /\ AtRisk(a) \subseteq Trades
          /\ \A u \in AtRisk(a) : ticket[u].stake \in Int /\ ticket[u] = ticket[u]
          /\ IsFiniteSet(Booked(a)) /\ Booked(a) \subseteq Trades
          /\ \A u \in Booked(a) : outcome[u].profit \in Int
      BY InTheLedger
    <3>3. t \notin Booked(a) /\ \A u \in Booked(a) : outcome'[u] = outcome[u]
      BY <1>2, <2>1 DEF Booked, Settled
    <3>4. /\ Won(outcome', Booked(a)) = Won(outcome, Booked(a))
          /\ Won(outcome, Booked(a)) \in Int
      BY <3>2, <3>3, WonSame
    <3>5. CASE ticket[t].acct = a
      <4>1. AtRisk(a) = AtRisk(a)' \cup {t} /\ t \notin AtRisk(a)'
        BY <1>2, <2>1, <3>5 DEF AtRisk, Settled
      <4>2. Booked(a)' = Booked(a) \cup {t}
        BY <1>2, <2>1, <3>5 DEF Booked
      <4>3. /\ IsFiniteSet(AtRisk(a)') /\ AtRisk(a)' \subseteq Trades
            /\ \A u \in AtRisk(a)' : ticket[u].stake \in Int /\ ticket[u] = ticket[u]
        BY <3>2, <4>1, FS_Subset
      <4>4. /\ Staked(ticket, AtRisk(a)' \cup {t}) = ticket[t].stake + Staked(ticket, AtRisk(a)')
            /\ Staked(ticket, AtRisk(a)') \in Int
        <5>1. \A u \in AtRisk(a)' \cup {t} : ticket[u].stake \in Int
          BY <2>1, <4>3
        <5>2. Staked(ticket, AtRisk(a)' \cup {t}) = ticket[t].stake + Staked(ticket, AtRisk(a)')
          BY <4>1, <4>3, <5>1, StakedMore
        <5>3. Staked(ticket, AtRisk(a)') \in Int
          BY <4>3, StakedSame
        <5> QED
          BY <5>2, <5>3
      <4>5. Won(outcome', Booked(a) \cup {t}) = outcome'[t].profit + Won(outcome', Booked(a))
        <5>1. \A u \in Booked(a) \cup {t} : outcome'[u].profit \in Int
          BY <2>1, <3>2, <3>3
        <5> QED
          BY <3>2, <3>3, <5>1, WonMore
      <4>6. balance'[a] = balance[a] + ticket[t].stake + outcome'[t].profit
        BY <2>1, <3>5
      <4>7. balance'[a] = StartBalance - Staked(ticket, AtRisk(a)') + Won(outcome', Booked(a) \cup {t})
        <5>1. Staked(ticket, AtRisk(a)) = ticket[t].stake + Staked(ticket, AtRisk(a)')
          BY <4>1, <4>4
        <5>2. Won(outcome', Booked(a) \cup {t}) = outcome'[t].profit + Won(outcome, Booked(a))
          BY <3>4, <4>5
        <5>3. ticket[t].stake \in Int /\ outcome'[t].profit \in Int
          BY <2>1
        <5> QED
          BY <3>1, <3>4, <4>4, <4>6, <5>1, <5>2, <5>3
      <4> QED
        BY <2>1, <4>2, <4>7
    <3>6. CASE ticket[t].acct # a
      <4>1. AtRisk(a)' = AtRisk(a)
        BY <2>1, <3>6 DEF AtRisk
      <4>2. Booked(a)' = Booked(a)
        BY <2>1, <3>6 DEF Booked, Settled
      <4>3. balance'[a] = balance[a]
        BY <2>1, <3>1, <3>6
      <4> QED
        BY <2>1, <3>1, <3>4, <4>1, <4>2, <4>3
    <3> QED
      BY <3>5, <3>6
  <2> QED
    BY <2>3, <2>4 DEF Ledger
<1> QED
  BY <1>1, <1>2

\* Every step enters in the ledger what it does to real money.
LEMMA StepLedger ==
  ASSUME TypeInv, RowKnown, Finite, Ledger, [Next]_vars
  PROVE  Finite' /\ Ledger'
<1> USE DEF dbVars, recoverVars, watchVars, settleVars, runVars, lateVars
<1>1. ASSUME NEW t \in Trades, PlaceTrade(t) PROVE Finite' /\ Ledger'
  <2>1. PICK tk : SendPlace(t, tk) /\ UNCHANGED <<balance, status, outcome>>
    BY <1>1 DEF PlaceTrade
  <2>2. \A u \in Trades : status[u] # "NONE" => ticket'[u] = ticket[u]
    BY <2>1, Ordered
  <2> QED
    BY <2>1, <2>2, LedgerKept
<1>2. ASSUME NEW t \in Trades, PlaceExec(t) PROVE Finite' /\ Ledger'
  <2>1. ticket[t] \in Tickets /\ status[t] = "NONE" /\ PlaceRow(t)
    BY <1>2 DEF PlaceExec, TypeInv, Requested, RowKnown
  <2> QED
    BY <2>1, StakeEntered
<1>3. ASSUME NEW t \in Trades, PlaceRefused(t) PROVE Finite' /\ Ledger'
  <2>1. UNCHANGED <<balance, status, ticket, outcome>>
    BY <1>3 DEF PlaceRefused
  <2> QED
    BY <2>1, LedgerKept
<1>4. ASSUME NEW t \in Trades, PlaceReplyLost(t) PROVE Finite' /\ Ledger'
  <2>1. UNCHANGED <<balance, status, ticket, outcome>>
    BY <1>4 DEF PlaceReplyLost
  <2> QED
    BY <2>1, LedgerKept
<1>5. ASSUME NEW t \in Trades, PlaceReply(t) PROVE Finite' /\ Ledger'
  <2>1. UNCHANGED <<balance, status, ticket, outcome>>
    BY <1>5 DEF PlaceReply, Opened, Track, Schedule
  <2> QED
    BY <2>1, LedgerKept
<1>6. ASSUME NEW t \in Trades, LinkExec(t) PROVE Finite' /\ Ledger'
  <2>1. UNCHANGED <<balance, status, ticket, outcome>>
    BY <1>6 DEF LinkExec
  <2> QED
    BY <2>1, LedgerKept
<1>7. ASSUME NEW t \in Trades, LinkError(t) PROVE Finite' /\ Ledger'
  <2>1. UNCHANGED <<balance, status, ticket, outcome>>
    BY <1>7 DEF LinkError
  <2> QED
    BY <2>1, LedgerKept
<1>8. ASSUME NEW t \in Trades, LinkReply(t) PROVE Finite' /\ Ledger'
  <2>1. UNCHANGED <<balance, status, ticket, outcome>>
    BY <1>8 DEF LinkReply, Opened, Track, Schedule
  <2> QED
    BY <2>1, LedgerKept
<1>9. ASSUME NEW t \in Trades, TimerFires(t) PROVE Finite' /\ Ledger'
  <2>1. UNCHANGED <<balance, status, ticket, outcome>>
    BY <1>9 DEF TimerFires, StartSettle
  <2> QED
    BY <2>1, LedgerKept
<1>10. ASSUME NEW t \in Trades, SettleExec(t) PROVE Finite' /\ Ledger'
  <2>1. /\ ticket[t] \in Tickets /\ SettleRow(t, close[t])
        /\ close[t].reason \in OpenReasons \cup {"NONE"} /\ close[t].exit \in Int
    BY <1>10 DEF SettleExec, TypeInv, TypeOK, Requested
  <2> QED
    BY <2>1, ResultEntered
<1>11. ASSUME NEW t \in Trades, SettleError(t) PROVE Finite' /\ Ledger'
  <2>1. UNCHANGED <<balance, status, ticket, outcome>>
    BY <1>11 DEF SettleError, SettleReturns, Schedule
  <2> QED
    BY <2>1, LedgerKept
<1>12. ASSUME NEW t \in Trades, SettleReply(t) PROVE Finite' /\ Ledger'
  <2>1. UNCHANGED <<balance, status, ticket, outcome>>
    BY <1>12 DEF SettleReply, SettleReturns
  <2> QED
    BY <2>1, LedgerKept
<1>13. ASSUME NEW t \in Trades, LatePlace(t) PROVE Finite' /\ Ledger'
  <2>1. /\ ticket[t] \in Tickets /\ status[t] = "NONE"
        /\ PlaceRow(t) \/ UNCHANGED <<balance, status, ticket, outcome>>
    BY <1>13 DEF LatePlace, TypeInv, Requested, RowKnown
  <2> QED
    BY <2>1, StakeEntered, LedgerKept
<1>14. ASSUME NEW t \in Trades, RecoverRow(t) PROVE Finite' /\ Ledger'
  <2>1. UNCHANGED <<balance, status, ticket, outcome>>
    BY <1>14 DEF RecoverRow, Rewatch, StartSettle, Track, Schedule
  <2> QED
    BY <2>1, LedgerKept
<1>15. ASSUME NEW r \in Runs, StartRun(r) PROVE Finite' /\ Ledger'
  <2>1. UNCHANGED <<balance, status, ticket, outcome>>
    BY <1>15 DEF StartRun
  <2> QED
    BY <2>1, LedgerKept
<1>16. ASSUME NEW r \in Runs, LegRefused(r) PROVE Finite' /\ Ledger'
  <2>1. UNCHANGED <<balance, status, ticket, outcome>>
    BY <1>16 DEF LegRefused
  <2> QED
    BY <2>1, LedgerKept
<1>17. ASSUME NEW r \in Runs, AbortRun(r) PROVE Finite' /\ Ledger'
  <2>1. UNCHANGED <<balance, status, ticket, outcome>>
    BY <1>17 DEF AbortRun
  <2> QED
    BY <2>1, LedgerKept
<1>18. ASSUME NEW r \in Runs, AdvanceExec(r) PROVE Finite' /\ Ledger'
  <2>1. UNCHANGED <<balance, status, ticket, outcome>>
    BY <1>18 DEF AdvanceExec
  <2> QED
    BY <2>1, LedgerKept
<1>19. ASSUME NEW r \in Runs, AdvanceError(r) PROVE Finite' /\ Ledger'
  <2>1. UNCHANGED <<balance, status, ticket, outcome>>
    BY <1>19 DEF AdvanceError
  <2> QED
    BY <2>1, LedgerKept
<1>20. ASSUME NEW r \in Runs, NEW t \in Trades, PlaceLeg(r, t) PROVE Finite' /\ Ledger'
  <2>1. PICK tk : SendPlace(t, tk) /\ UNCHANGED <<balance, status, outcome>>
    BY <1>20 DEF PlaceLeg
  <2>2. \A u \in Trades : status[u] # "NONE" => ticket'[u] = ticket[u]
    BY <2>1, Ordered
  <2> QED
    BY <2>1, <2>2, LedgerKept
<1>21. ASSUME NEW s \in Symbols, NEW p \in Prices, Tick(s, p) PROVE Finite' /\ Ledger'
  <2>1. UNCHANGED <<balance, status, ticket, outcome>>
    BY <1>21 DEF Tick, StartSettle
  <2> QED
    BY <2>1, LedgerKept
<1>22. ASSUME NEW c \in lateSettle, LateSettle(c) PROVE Finite' /\ Ledger'
  <2>1. /\ c.trade \in Trades /\ ticket[c.trade] \in Tickets /\ SettleRow(c.trade, c)
        /\ c.reason \in OpenReasons \cup {"NONE"} /\ c.exit \in Int
    BY <1>22 DEF LateSettle, TypeInv, TypeOK, Requested
  <2> QED
    BY <2>1, ResultEntered
<1>23. ASSUME NEW a \in Accounts, DemoReset(a) PROVE Finite' /\ Ledger'
  <2>1. /\ a \notin RealAccounts /\ balance' = [balance EXCEPT ![a] = StartBalance]
        /\ UNCHANGED <<status, ticket, outcome>>
    BY <1>23 DEF DemoReset
  <2>2. \A b \in RealAccounts : balance'[b] = balance[b]
    BY <2>1, ConstantsAssumption DEF TypeInv, TypeOK
  <2> QED
    BY <2>1, <2>2, LedgerKept
<1>24. ASSUME Shutdown PROVE Finite' /\ Ledger'
  <2>1. UNCHANGED <<balance, status, ticket, outcome>>
    BY <1>24 DEF Shutdown
  <2> QED
    BY <2>1, LedgerKept
<1>25. ASSUME Exit PROVE Finite' /\ Ledger'
  <2>1. UNCHANGED <<balance, status, ticket, outcome>>
    BY <1>25 DEF Exit, Forget
  <2> QED
    BY <2>1, LedgerKept
<1>26. ASSUME Crash PROVE Finite' /\ Ledger'
  <2>1. UNCHANGED <<balance, status, ticket, outcome>>
    BY <1>26 DEF Crash, Forget
  <2> QED
    BY <2>1, LedgerKept
<1>27. ASSUME Boot PROVE Finite' /\ Ledger'
  <2>1. UNCHANGED <<balance, status, ticket, outcome>>
    BY <1>27 DEF Boot
  <2> QED
    BY <2>1, LedgerKept
<1>28. ASSUME BootLoadFails PROVE Finite' /\ Ledger'
  <2>1. UNCHANGED <<balance, status, ticket, outcome>>
    BY <1>28 DEF BootLoadFails
  <2> QED
    BY <2>1, LedgerKept
<1>29. ASSUME RecoverDone PROVE Finite' /\ Ledger'
  <2>1. UNCHANGED <<balance, status, ticket, outcome>>
    BY <1>29 DEF RecoverDone
  <2> QED
    BY <2>1, LedgerKept
<1>30. ASSUME Elapse PROVE Finite' /\ Ledger'
  <2>1. UNCHANGED <<balance, status, ticket, outcome>>
    BY <1>30 DEF Elapse
  <2> QED
    BY <2>1, LedgerKept
<1>31. CASE UNCHANGED vars
  <2>1. UNCHANGED <<balance, status, ticket, outcome>>
    BY <1>31 DEF vars
  <2> QED
    BY <2>1, LedgerKept
<1> QED
  BY <1>1, <1>2, <1>3, <1>4, <1>5, <1>6, <1>7, <1>8, <1>9,
     <1>10, <1>11, <1>12, <1>13, <1>14, <1>15, <1>16, <1>17, <1>18,
     <1>19, <1>20, <1>21, <1>22, <1>23, <1>24, <1>25, <1>26, <1>27,
     <1>28, <1>29, <1>30, <1>31
     DEF Next, PlaceStep, SettleStep, RunStep

\* The ledger as the specification states it.
LEMMA LedgerAgrees ==
  ASSUME TypeInv, Finite, Ledger
  PROVE  MoneyConserved
<1> SUFFICES ASSUME NEW a \in RealAccounts
             PROVE  balance[a] = StartBalance
                       - SumFunction([t \in AtRisk(a) |-> ticket[t].stake])
                       + SumFunction([t \in Booked(a) |-> outcome[t].profit])
  <2>1. \A a \in RealAccounts : AtRisk(a) = {t \in Trades : status[t] \in {"OPEN"} /\ ticket[t].acct = a}
    BY DEF AtRisk
  <2> QED
    BY <2>1 DEF MoneyConserved, Booked
<1>1. SumFunction([t \in AtRisk(a) |-> ticket[t].stake]) = Staked(ticket, AtRisk(a))
  <2> DEFINE f == [t \in AtRisk(a) |-> ticket[t].stake]
             h == [t \in Trades |-> ticket[t].stake]
  <2>1. DOMAIN f = AtRisk(a) /\ IsFiniteSet(AtRisk(a)) /\ \A t \in AtRisk(a) : f[t] \in Int /\ f[t] = h[t]
    BY InTheLedger
  <2> HIDE DEF f, h
  <2>2. SumFunctionOnSet(f, AtRisk(a)) = SumFunctionOnSet(h, AtRisk(a))
    BY <2>1, SumSame
  <2>3. SumFunction(f) = SumFunctionOnSet(f, AtRisk(a))
    BY <2>1 DEF SumFunction, SumFunctionOnSet
  <2> QED
    BY <2>2, <2>3 DEF f, h, Staked
<1>2. SumFunction([t \in Booked(a) |-> outcome[t].profit]) = Won(outcome, Booked(a))
  <2> DEFINE f == [t \in Booked(a) |-> outcome[t].profit]
             h == [t \in Trades |-> outcome[t].profit]
  <2>1. DOMAIN f = Booked(a) /\ IsFiniteSet(Booked(a)) /\ \A t \in Booked(a) : f[t] \in Int /\ f[t] = h[t]
    BY InTheLedger
  <2> HIDE DEF f, h
  <2>2. SumFunctionOnSet(f, Booked(a)) = SumFunctionOnSet(h, Booked(a))
    BY <2>1, SumSame
  <2>3. SumFunction(f) = SumFunctionOnSet(f, Booked(a))
    BY <2>1 DEF SumFunction, SumFunctionOnSet
  <2> QED
    BY <2>2, <2>3 DEF f, h, Won
<1> QED
  BY <1>1, <1>2 DEF Ledger

\* Before anything is ordered no money has moved.
LEMMA LedgerStarts ==
  ASSUME Init
  PROVE  Finite /\ Ledger
<1>1. {t \in Trades : status[t] # "NONE"} = {}
  BY DEF Init
<1>2. Finite
  BY <1>1, FS_EmptySet DEF Finite
<1>3. ASSUME NEW a \in RealAccounts
      PROVE  balance[a] = StartBalance - Staked(ticket, AtRisk(a)) + Won(outcome, Booked(a))
  <2>1. AtRisk(a) = {} /\ Booked(a) = {}
    BY DEF Init, AtRisk, Booked, Settled
  <2>2. Staked(ticket, {}) = 0 /\ Won(outcome, {}) = 0
    BY SumEmpty DEF Staked, Won
  <2>3. balance[a] = StartBalance
    BY ConstantsAssumption DEF Init
  <2> QED
    BY <2>1, <2>2, <2>3, ConstantFacts
<1> QED
  BY <1>2, <1>3 DEF Ledger

\* The ledger is kept in every behaviour.
LEMMA LedgerHolds == Spec => [](Finite /\ Ledger)
<1>1. Init => Finite /\ Ledger
  BY LedgerStarts
<1>2. TypeInv /\ RowKnown /\ Finite /\ Ledger /\ [Next]_vars => (Finite /\ Ledger)'
  BY StepLedger
<1> QED
  BY <1>1, <1>2, RowKnownHolds, PTL DEF Spec

\* Real money is neither made nor lost, whatever is retried, lost, late or restarted: a real
\* balance is what it started at, less the stakes at risk, plus the results booked.
THEOREM MoneyConservedHolds == Spec => []MoneyConserved
<1>1. TypeInv /\ Finite /\ Ledger => MoneyConserved
  BY LedgerAgrees
<1> QED
  BY <1>1, LedgerHolds, RowKnownHolds, PTL

-----------------------------------------------------------------------------
(* Why a trade was closed *)

\* A digital product has no exit levels.
LEMMA DigitalUnlevelled ==
  ASSUME NEW a, NEW s, NEW d, NEW k, NEW st, NEW du, NEW e, NEW r
  PROVE  LET tk == NewTicket(a, s, d, k, st, du, e, r)
         IN  tk.kind = "DIGITAL" => tk.stop = NoLevel
  BY DEF NewTicket

\* Ordering a trade gives no reason to close one.
LEMMA OrderReasoned ==
  ASSUME TypeInv, Reasoned, NEW t \in Trades, NEW a, NEW s, NEW d, NEW k, NEW st, NEW du,
         NEW e, NEW r, SendPlace(t, NewTicket(a, s, d, k, st, du, e, r)),
         UNCHANGED <<status, outcome, watchVars, settleVars, lateVars>>
  PROVE  Reasoned'
<1> DEFINE tk == NewTicket(a, s, d, k, st, du, e, r)
<1>1. tk.kind = "DIGITAL" => tk.stop = NoLevel
  BY DigitalUnlevelled
<1> HIDE DEF tk
<1>2. /\ status[t] = "NONE" /\ settling[t] = "idle" /\ t \notin live
      /\ \A c \in lateSettle : c.trade # t
  <2>1. ticket[t] = NoTicket
    BY DEF SendPlace
  <2> QED
    BY <2>1, FreshTrade
<1>3. ticket'[t] = tk /\ \A u \in Trades : u # t => ticket'[u] = ticket[u]
  BY Ordered DEF tk
<1>4. UNCHANGED <<status, outcome, live, settling, close, lateSettle>>
  BY DEF watchVars, settleVars, lateVars
<1>5. Tickets' = Tickets
  BY DEF Tickets
<1>6. live \subseteq Trades /\ \A c \in lateSettle : c.trade \in Trades
  BY DEF TypeInv, TypeOK
<1> QED
  BY <1>1, <1>2, <1>3, <1>4, <1>5, <1>6 DEF Reasoned, Settled

\* A row is booked with the reason it was closed for.
LEMMA CloseReasoned ==
  ASSUME TypeInv, Reasoned, NEW t \in Trades, ticket[t] \in Tickets,
         NEW c, c.reason \in OpenReasons \cup {"NONE"}, c.exit \in Int, SettleRow(t, c),
         Fits(ticket[t], c)
  PROVE  /\ ticket' = ticket
         /\ \A u \in Trades : status'[u] \in Settled => Fits(ticket'[u], outcome'[u])
<1>1. CASE status[t] # "OPEN"
  BY <1>1 DEF SettleRow, dbVars, Reasoned
<1>2. CASE status[t] = "OPEN"
  <2>1. /\ outcome'[t].reason = c.reason /\ outcome'[t].exit = c.exit /\ ticket' = ticket
        /\ \A u \in Trades : u # t => status'[u] = status[u] /\ outcome'[u] = outcome[u]
    BY <1>2, RowClosed
  <2>2. Fits(ticket[t], outcome'[t])
    BY <2>1 DEF Fits
  <2> QED
    BY <2>1, <2>2 DEF Reasoned
<1> QED
  BY <1>1, <1>2

\* A request that outlives its process keeps its reason.
LEMMA ForgetReasoned ==
  ASSUME TypeInv, Reasoned, Forget
  PROVE  Reasoned'
<1>1. PICK M \in SUBSET {t \in Trades : settling[t] = "sent"} :
        lateSettle' = lateSettle \cup
          {[trade |-> t, reason |-> close[t].reason, exit |-> close[t].exit] : t \in M}
  BY DEF Forget
<1>2. /\ UNCHANGED <<ticket, status, outcome>> /\ live' = {}
      /\ \A t \in Trades : settling'[t] = "idle"
  BY DEF Forget, dbVars
<1>3. ASSUME NEW c \in lateSettle' PROVE Fits(ticket[c.trade], c)
  <2>1. CASE c \in lateSettle
    BY <2>1 DEF Reasoned
  <2>2. ASSUME NEW t \in M,
               c = [trade |-> t, reason |-> close[t].reason, exit |-> close[t].exit]
        PROVE  Fits(ticket[c.trade], c)
    <3>1. Fits(ticket[t], close[t])
      BY <1>1 DEF Reasoned
    <3> QED
      BY <2>2, <3>1 DEF Fits
  <2> QED
    BY <1>1, <2>1, <2>2
<1>4. Tickets' = Tickets
  BY DEF Tickets
<1> QED
  BY <1>2, <1>3, <1>4 DEF Reasoned

\* Nobody starts to close a trade without a reason its ticket bears out.
LEMMA StepReasoned ==
  ASSUME TypeInv, Reasoned, [Next]_vars
  PROVE  Reasoned'
<1> USE DEF dbVars, recoverVars, watchVars, settleVars, runVars, lateVars
<1>1. ASSUME NEW t \in Trades, PlaceTrade(t) PROVE Reasoned'
  <2>1. PICK a \in Accounts, s \in Symbols, d \in Directions, k \in Kinds,
             st \in Stakes, du \in Durations, e \in Edges :
             SendPlace(t, NewTicket(a, s, d, k, st, du, e, NoRun))
    BY <1>1 DEF PlaceTrade
  <2>2. UNCHANGED <<status, outcome, watchVars, settleVars, lateVars>>
    BY <1>1 DEF PlaceTrade
  <2> QED
    BY <2>1, <2>2, OrderReasoned
<1>2. ASSUME NEW t \in Trades, PlaceExec(t) PROVE Reasoned'
  <2>1. /\ \A u \in Trades : u # t => status'[u] = status[u]
        /\ status'[t] = "OPEN" \/ status'[t] = status[t]
        /\ UNCHANGED <<ticket, outcome, live, settling, close, lateSettle>>
    BY <1>2, RowPlaced DEF PlaceExec, TypeInv, Requested
  <2> QED
    BY <2>1 DEF Reasoned, Settled, Tickets
<1>3. ASSUME NEW t \in Trades, PlaceRefused(t) PROVE Reasoned'
  <2>1. UNCHANGED <<ticket, status, outcome, lateSettle>>
    BY <1>3 DEF PlaceRefused
  <2>2. \A u \in live' : ticket[u].stop # NoLevel
    BY <1>3 DEF PlaceRefused, Reasoned
  <2>3. \A u \in Trades : settling'[u] = "sent" => settling[u] = "sent" /\ close'[u] = close[u]
    BY <1>3 DEF PlaceRefused, TypeInv, TypeOK
  <2> QED
    BY <2>1, <2>2, <2>3 DEF Reasoned, Tickets
<1>4. ASSUME NEW t \in Trades, PlaceReplyLost(t) PROVE Reasoned'
  <2>1. UNCHANGED <<ticket, status, outcome, lateSettle>>
    BY <1>4 DEF PlaceReplyLost
  <2>2. \A u \in live' : ticket[u].stop # NoLevel
    BY <1>4 DEF PlaceReplyLost, Reasoned
  <2>3. \A u \in Trades : settling'[u] = "sent" => settling[u] = "sent" /\ close'[u] = close[u]
    BY <1>4 DEF PlaceReplyLost, TypeInv, TypeOK
  <2> QED
    BY <2>1, <2>2, <2>3 DEF Reasoned, Tickets
<1>5. ASSUME NEW t \in Trades, PlaceReply(t) PROVE Reasoned'
  <2>1. UNCHANGED <<ticket, status, outcome, lateSettle>>
    BY <1>5 DEF PlaceReply, Opened, Track, Schedule
  <2>2. \A u \in live' : ticket[u].stop # NoLevel
    BY <1>5 DEF PlaceReply, Opened, Track, Schedule, Reasoned
  <2>3. \A u \in Trades : settling'[u] = "sent" => settling[u] = "sent" /\ close'[u] = close[u]
    BY <1>5 DEF PlaceReply, Opened, Track, Schedule, TypeInv, TypeOK
  <2> QED
    BY <2>1, <2>2, <2>3 DEF Reasoned, Tickets
<1>6. ASSUME NEW t \in Trades, LinkExec(t) PROVE Reasoned'
  <2>1. UNCHANGED <<ticket, status, outcome, lateSettle>>
    BY <1>6 DEF LinkExec
  <2>2. \A u \in live' : ticket[u].stop # NoLevel
    BY <1>6 DEF LinkExec, Reasoned
  <2>3. \A u \in Trades : settling'[u] = "sent" => settling[u] = "sent" /\ close'[u] = close[u]
    BY <1>6 DEF LinkExec, TypeInv, TypeOK
  <2> QED
    BY <2>1, <2>2, <2>3 DEF Reasoned, Tickets
<1>7. ASSUME NEW t \in Trades, LinkError(t) PROVE Reasoned'
  <2>1. UNCHANGED <<ticket, status, outcome, lateSettle>>
    BY <1>7 DEF LinkError
  <2>2. \A u \in live' : ticket[u].stop # NoLevel
    BY <1>7 DEF LinkError, Reasoned
  <2>3. \A u \in Trades : settling'[u] = "sent" => settling[u] = "sent" /\ close'[u] = close[u]
    BY <1>7 DEF LinkError, TypeInv, TypeOK
  <2> QED
    BY <2>1, <2>2, <2>3 DEF Reasoned, Tickets
<1>8. ASSUME NEW t \in Trades, LinkReply(t) PROVE Reasoned'
  <2>1. UNCHANGED <<ticket, status, outcome, lateSettle>>
    BY <1>8 DEF LinkReply, Opened, Track, Schedule
  <2>2. \A u \in live' : ticket[u].stop # NoLevel
    BY <1>8 DEF LinkReply, Opened, Track, Schedule, Reasoned
  <2>3. \A u \in Trades : settling'[u] = "sent" => settling[u] = "sent" /\ close'[u] = close[u]
    BY <1>8 DEF LinkReply, Opened, Track, Schedule, TypeInv, TypeOK
  <2> QED
    BY <2>1, <2>2, <2>3 DEF Reasoned, Tickets
<1>9. ASSUME NEW t \in Trades, TimerFires(t) PROVE Reasoned'
  <2>1. /\ UNCHANGED <<ticket, status, outcome, lateSettle>> /\ live' \subseteq live
        /\ close'[t].reason = "EXPIRY"
        /\ \A u \in Trades : u # t => settling'[u] = settling[u] /\ close'[u] = close[u]
    BY <1>9 DEF TimerFires, StartSettle
  <2>2. Fits(ticket[t], close'[t])
    BY <2>1 DEF Fits
  <2> QED
    BY <2>1, <2>2 DEF Reasoned, Tickets
<1>10. ASSUME NEW t \in Trades, SettleExec(t) PROVE Reasoned'
  <2>1. /\ ticket[t] \in Tickets /\ SettleRow(t, close[t]) /\ Fits(ticket[t], close[t])
        /\ close[t].reason \in OpenReasons \cup {"NONE"} /\ close[t].exit \in Int
    BY <1>10 DEF SettleExec, Reasoned, TypeInv, TypeOK, Requested
  <2>2. /\ ticket' = ticket
        /\ \A u \in Trades : status'[u] \in Settled => Fits(ticket'[u], outcome'[u])
    BY <2>1, CloseReasoned
  <2>3. /\ UNCHANGED <<live, close, lateSettle>>
        /\ \A u \in Trades : settling'[u] = "sent" => settling[u] = "sent"
    BY <1>10 DEF SettleExec, TypeInv, TypeOK
  <2> QED
    BY <2>2, <2>3 DEF Reasoned, Tickets
<1>11. ASSUME NEW t \in Trades, SettleError(t) PROVE Reasoned'
  <2>1. UNCHANGED <<ticket, status, outcome, lateSettle>>
    BY <1>11 DEF SettleError, SettleReturns, Schedule
  <2>2. \A u \in live' : ticket[u].stop # NoLevel
    BY <1>11 DEF SettleError, SettleReturns, Schedule, Reasoned
  <2>3. \A u \in Trades : settling'[u] = "sent" => settling[u] = "sent" /\ close'[u] = close[u]
    BY <1>11 DEF SettleError, SettleReturns, Schedule, TypeInv, TypeOK
  <2> QED
    BY <2>1, <2>2, <2>3 DEF Reasoned, Tickets
<1>12. ASSUME NEW t \in Trades, SettleReply(t) PROVE Reasoned'
  <2>1. UNCHANGED <<ticket, status, outcome, lateSettle>>
    BY <1>12 DEF SettleReply, SettleReturns
  <2>2. \A u \in live' : ticket[u].stop # NoLevel
    BY <1>12 DEF SettleReply, SettleReturns, Reasoned
  <2>3. \A u \in Trades : settling'[u] = "sent" => settling[u] = "sent" /\ close'[u] = close[u]
    BY <1>12 DEF SettleReply, SettleReturns, TypeInv, TypeOK
  <2> QED
    BY <2>1, <2>2, <2>3 DEF Reasoned, Tickets
<1>13. ASSUME NEW t \in Trades, LatePlace(t) PROVE Reasoned'
  <2>1. /\ \A u \in Trades : u # t => status'[u] = status[u]
        /\ status'[t] = "OPEN" \/ status'[t] = status[t]
        /\ UNCHANGED <<ticket, outcome, live, settling, close, lateSettle>>
    BY <1>13, RowPlaced DEF LatePlace, TypeInv, Requested
  <2> QED
    BY <2>1 DEF Reasoned, Settled, Tickets
<1>14. ASSUME NEW t \in Trades, RecoverRow(t) PROVE Reasoned'
  <2>1. /\ UNCHANGED <<ticket, status, outcome, lateSettle>>
        /\ \A u \in live' : u \in live \/ ticket[u].stop # NoLevel
        /\ \/ settling'[t] = settling[t] /\ close'[t] = close[t]
           \/ close'[t].reason = "EXPIRY"
        /\ \A u \in Trades : u # t => settling'[u] = settling[u] /\ close'[u] = close[u]
    BY <1>14 DEF RecoverRow, Rewatch, Track, StartSettle
  <2>2. settling'[t] = "sent" => Fits(ticket[t], close'[t])
    BY <2>1 DEF Fits, Reasoned
  <2> QED
    BY <2>1, <2>2 DEF Reasoned, Tickets
<1>15. ASSUME NEW r \in Runs, StartRun(r) PROVE Reasoned'
  <2>1. UNCHANGED <<ticket, status, outcome, lateSettle>>
    BY <1>15 DEF StartRun
  <2>2. \A u \in live' : ticket[u].stop # NoLevel
    BY <1>15 DEF StartRun, Reasoned
  <2>3. \A u \in Trades : settling'[u] = "sent" => settling[u] = "sent" /\ close'[u] = close[u]
    BY <1>15 DEF StartRun, TypeInv, TypeOK
  <2> QED
    BY <2>1, <2>2, <2>3 DEF Reasoned, Tickets
<1>16. ASSUME NEW r \in Runs, LegRefused(r) PROVE Reasoned'
  <2>1. UNCHANGED <<ticket, status, outcome, lateSettle>>
    BY <1>16 DEF LegRefused
  <2>2. \A u \in live' : ticket[u].stop # NoLevel
    BY <1>16 DEF LegRefused, Reasoned
  <2>3. \A u \in Trades : settling'[u] = "sent" => settling[u] = "sent" /\ close'[u] = close[u]
    BY <1>16 DEF LegRefused, TypeInv, TypeOK
  <2> QED
    BY <2>1, <2>2, <2>3 DEF Reasoned, Tickets
<1>17. ASSUME NEW r \in Runs, AbortRun(r) PROVE Reasoned'
  <2>1. UNCHANGED <<ticket, status, outcome, lateSettle>>
    BY <1>17 DEF AbortRun
  <2>2. \A u \in live' : ticket[u].stop # NoLevel
    BY <1>17 DEF AbortRun, Reasoned
  <2>3. \A u \in Trades : settling'[u] = "sent" => settling[u] = "sent" /\ close'[u] = close[u]
    BY <1>17 DEF AbortRun, TypeInv, TypeOK
  <2> QED
    BY <2>1, <2>2, <2>3 DEF Reasoned, Tickets
<1>18. ASSUME NEW r \in Runs, AdvanceExec(r) PROVE Reasoned'
  <2>1. UNCHANGED <<ticket, status, outcome, lateSettle>>
    BY <1>18 DEF AdvanceExec
  <2>2. \A u \in live' : ticket[u].stop # NoLevel
    BY <1>18 DEF AdvanceExec, Reasoned
  <2>3. \A u \in Trades : settling'[u] = "sent" => settling[u] = "sent" /\ close'[u] = close[u]
    BY <1>18 DEF AdvanceExec, TypeInv, TypeOK
  <2> QED
    BY <2>1, <2>2, <2>3 DEF Reasoned, Tickets
<1>19. ASSUME NEW r \in Runs, AdvanceError(r) PROVE Reasoned'
  <2>1. UNCHANGED <<ticket, status, outcome, lateSettle>>
    BY <1>19 DEF AdvanceError
  <2>2. \A u \in live' : ticket[u].stop # NoLevel
    BY <1>19 DEF AdvanceError, Reasoned
  <2>3. \A u \in Trades : settling'[u] = "sent" => settling[u] = "sent" /\ close'[u] = close[u]
    BY <1>19 DEF AdvanceError, TypeInv, TypeOK
  <2> QED
    BY <2>1, <2>2, <2>3 DEF Reasoned, Tickets
<1>20. ASSUME NEW r \in Runs, NEW t \in Trades, PlaceLeg(r, t) PROVE Reasoned'
  <2>1. PICK d \in Directions, e \in Edges :
          SendPlace(t, NewTicket(runs[r].plan.acct, runs[r].plan.sym, d, "SCALED",
                                 runs[r].plan.stake, runs[r].plan.dur, e, r))
    BY <1>20 DEF PlaceLeg
  <2>2. UNCHANGED <<status, outcome, watchVars, settleVars, lateVars>>
    BY <1>20 DEF PlaceLeg
  <2> QED
    BY <2>1, <2>2, OrderReasoned
<1>21. ASSUME NEW s \in Symbols, NEW p \in Prices, Tick(s, p) PROVE Reasoned'
  <2> DEFINE H == IF phase = "up"
                  THEN {t \in live : ticket[t].sym = s /\ Reached(t, p)} ELSE {}
             reason == [t \in H |-> LevelReason(t, p)]
  <2>1. /\ UNCHANGED <<ticket, status, outcome, lateSettle>> /\ live' = live \ H
        /\ StartSettle(H, reason, p)
    BY <1>21 DEF Tick
  <2>2. \A t \in H : t \in live /\ t \in Trades /\ Reached(t, p)
    BY DEF TypeInv, TypeOK
  <2> HIDE DEF H
  <2>3. \A t \in Trades : t \notin H => settling'[t] = settling[t] /\ close'[t] = close[t]
    BY <2>1 DEF StartSettle
  <2>4. ASSUME NEW t \in H PROVE Fits(ticket[t], close'[t])
    <3>1. close'[t].reason = LevelReason(t, p) /\ close'[t].exit = p
      BY <2>1, <2>2 DEF StartSettle
    <3>2. ticket[t].kind # "DIGITAL"
      BY <2>2 DEF Reasoned, TypeInv, Requested
    <3> QED
      BY <2>2, <3>1, <3>2 DEF Fits, LevelReason, Reached, Stopped
  <2> QED
    BY <2>1, <2>3, <2>4 DEF Reasoned, Tickets
<1>22. ASSUME NEW c \in lateSettle, LateSettle(c) PROVE Reasoned'
  <2>1. /\ c.trade \in Trades /\ ticket[c.trade] \in Tickets /\ SettleRow(c.trade, c)
        /\ c.reason \in OpenReasons \cup {"NONE"} /\ c.exit \in Int
        /\ Fits(ticket[c.trade], c)
    BY <1>22 DEF LateSettle, Reasoned, TypeInv, TypeOK, Requested
  <2>2. /\ ticket' = ticket
        /\ \A u \in Trades : status'[u] \in Settled => Fits(ticket'[u], outcome'[u])
    BY <2>1, CloseReasoned
  <2>3. UNCHANGED <<live, settling, close>> /\ lateSettle' \subseteq lateSettle
    BY <1>22 DEF LateSettle
  <2> QED
    BY <2>2, <2>3 DEF Reasoned, Tickets
<1>23. ASSUME NEW a \in Accounts, DemoReset(a) PROVE Reasoned'
  <2>1. UNCHANGED <<ticket, status, outcome, lateSettle>>
    BY <1>23 DEF DemoReset
  <2>2. \A u \in live' : ticket[u].stop # NoLevel
    BY <1>23 DEF DemoReset, Reasoned
  <2>3. \A u \in Trades : settling'[u] = "sent" => settling[u] = "sent" /\ close'[u] = close[u]
    BY <1>23 DEF DemoReset, TypeInv, TypeOK
  <2> QED
    BY <2>1, <2>2, <2>3 DEF Reasoned, Tickets
<1>24. ASSUME Shutdown PROVE Reasoned'
  <2>1. UNCHANGED <<ticket, status, outcome, lateSettle>>
    BY <1>24 DEF Shutdown
  <2>2. \A u \in live' : ticket[u].stop # NoLevel
    BY <1>24 DEF Shutdown, Reasoned
  <2>3. \A u \in Trades : settling'[u] = "sent" => settling[u] = "sent" /\ close'[u] = close[u]
    BY <1>24 DEF Shutdown, TypeInv, TypeOK
  <2> QED
    BY <2>1, <2>2, <2>3 DEF Reasoned, Tickets
<1>25. ASSUME Exit PROVE Reasoned'
  BY <1>25, ForgetReasoned DEF Exit
<1>26. ASSUME Crash PROVE Reasoned'
  BY <1>26, ForgetReasoned DEF Crash
<1>27. ASSUME Boot PROVE Reasoned'
  <2>1. UNCHANGED <<ticket, status, outcome, lateSettle>>
    BY <1>27 DEF Boot
  <2>2. \A u \in live' : ticket[u].stop # NoLevel
    BY <1>27 DEF Boot, Reasoned
  <2>3. \A u \in Trades : settling'[u] = "sent" => settling[u] = "sent" /\ close'[u] = close[u]
    BY <1>27 DEF Boot, TypeInv, TypeOK
  <2> QED
    BY <2>1, <2>2, <2>3 DEF Reasoned, Tickets
<1>28. ASSUME BootLoadFails PROVE Reasoned'
  <2>1. UNCHANGED <<ticket, status, outcome, lateSettle>>
    BY <1>28 DEF BootLoadFails
  <2>2. \A u \in live' : ticket[u].stop # NoLevel
    BY <1>28 DEF BootLoadFails, Reasoned
  <2>3. \A u \in Trades : settling'[u] = "sent" => settling[u] = "sent" /\ close'[u] = close[u]
    BY <1>28 DEF BootLoadFails, TypeInv, TypeOK
  <2> QED
    BY <2>1, <2>2, <2>3 DEF Reasoned, Tickets
<1>29. ASSUME RecoverDone PROVE Reasoned'
  <2>1. UNCHANGED <<ticket, status, outcome, lateSettle>>
    BY <1>29 DEF RecoverDone
  <2>2. \A u \in live' : ticket[u].stop # NoLevel
    BY <1>29 DEF RecoverDone, Reasoned
  <2>3. \A u \in Trades : settling'[u] = "sent" => settling[u] = "sent" /\ close'[u] = close[u]
    BY <1>29 DEF RecoverDone, TypeInv, TypeOK
  <2> QED
    BY <2>1, <2>2, <2>3 DEF Reasoned, Tickets
<1>30. ASSUME Elapse PROVE Reasoned'
  <2>1. UNCHANGED <<ticket, status, outcome, lateSettle>>
    BY <1>30 DEF Elapse
  <2>2. \A u \in live' : ticket[u].stop # NoLevel
    BY <1>30 DEF Elapse, Reasoned
  <2>3. \A u \in Trades : settling'[u] = "sent" => settling[u] = "sent" /\ close'[u] = close[u]
    BY <1>30 DEF Elapse, TypeInv, TypeOK
  <2> QED
    BY <2>1, <2>2, <2>3 DEF Reasoned, Tickets
<1>31. CASE UNCHANGED vars
  <2>1. UNCHANGED <<ticket, status, outcome, lateSettle>>
    BY <1>31 DEF vars
  <2>2. \A u \in live' : ticket[u].stop # NoLevel
    BY <1>31 DEF vars, Reasoned
  <2>3. \A u \in Trades : settling'[u] = "sent" => settling[u] = "sent" /\ close'[u] = close[u]
    BY <1>31 DEF vars, TypeInv, TypeOK
  <2> QED
    BY <2>1, <2>2, <2>3 DEF Reasoned, Tickets
<1> QED
  BY <1>1, <1>2, <1>3, <1>4, <1>5, <1>6, <1>7, <1>8, <1>9,
     <1>10, <1>11, <1>12, <1>13, <1>14, <1>15, <1>16, <1>17, <1>18,
     <1>19, <1>20, <1>21, <1>22, <1>23, <1>24, <1>25, <1>26, <1>27,
     <1>28, <1>29, <1>30, <1>31
     DEF Next, PlaceStep, SettleStep, RunStep

\* Whoever settles a trade has a reason its ticket bears out.
LEMMA ReasonedHolds == Spec => []Reasoned
<1>1. Init => Reasoned
  BY ConstantFacts DEF Init, Reasoned, Settled
<1>2. TypeInv /\ Reasoned /\ [Next]_vars => Reasoned'
  BY StepReasoned
<1> QED
  BY <1>1, <1>2, RowKnownHolds, PTL DEF Spec

-----------------------------------------------------------------------------
(* When a trade was closed *)

\* A step that leaves the times alone keeps them right: a timer is only set to no less than
\* the time left, and a trade only closed as expired when none is left.
LEMMA TimelyKept ==
  ASSUME Timely, left' = left,
         \A t \in Trades : status'[t] = "OPEN" =>
            /\ status[t] = "OPEN" /\ ticket'[t] = ticket[t]
            /\ \/ timer'[t] = Off
               \/ timer'[t] = timer[t] /\ (t \in live => t \in live')
               \/ left[t] <= timer'[t] /\ (ticket[t].stop # NoLevel => t \in live')
            /\ settling'[t] = "sent" /\ close'[t].reason = "EXPIRY" =>
                  left[t] = 0 \/ (settling[t] = "sent" /\ close'[t] = close[t]),
         \A t \in Trades : status'[t] \in Settled /\ outcome'[t].reason = "EXPIRY" =>
            left[t] = 0 \/ (status[t] \in Settled /\ outcome'[t] = outcome[t]),
         \A c \in lateSettle' : status'[c.trade] = "OPEN" /\ c.reason = "EXPIRY" =>
            left[c.trade] = 0 \/ (status[c.trade] = "OPEN" /\ c \in lateSettle)
  PROVE  Timely'
<1>1. ASSUME NEW t \in Trades, status'[t] = "OPEN"
      PROVE  /\ left'[t] <= ticket'[t].dur
             /\ timer'[t] # Off =>
                   left'[t] <= timer'[t] /\ (ticket'[t].stop # NoLevel => t \in live')
             /\ settling'[t] = "sent" /\ close'[t].reason = "EXPIRY" => left'[t] = 0
  BY <1>1 DEF Timely
<1>2. \A c \in lateSettle' : status'[c.trade] = "OPEN" /\ c.reason = "EXPIRY" =>
         left'[c.trade] = 0
  BY DEF Timely
<1>3. ExpiryNotEarly'
  BY DEF Timely, ExpiryNotEarly, Settled
<1> QED
  BY <1>1, <1>2, <1>3 DEF Timely

\* A row that is written has all its time left, and nobody yet watches or settles it.
LEMMA TimelyPlaced ==
  ASSUME TypeInv, RowKnown, Timely, NEW t \in Trades, ticket[t] \in Tickets,
         status[t] = "NONE", PlaceRow(t), UNCHANGED <<timer, live, settling, close, lateSettle>>
  PROVE  Timely'
<1>1. /\ status'[t] = "OPEN" /\ left'[t] = ticket[t].dur /\ UNCHANGED <<ticket, outcome>>
      /\ \A u \in Trades : u # t => status'[u] = status[u] /\ left'[u] = left[u]
  BY RowPlaced
<1>2. timer[t] = Off /\ settling[t] = "idle" /\ \A c \in lateSettle : c.trade # t
  BY DEF RowKnown
<1>3. ticket[t].dur \in Nat
  BY TicketFacts
<1>4. \A c \in lateSettle : c.trade \in Trades
  BY DEF TypeInv, TypeOK
<1> QED
  BY <1>1, <1>2, <1>3, <1>4 DEF Timely, ExpiryNotEarly, Settled

\* The row is closed as expired only when no time was left on it.
LEMMA TimelyClosed ==
  ASSUME TypeInv, Timely, NEW t \in Trades, ticket[t] \in Tickets,
         NEW c, c.reason \in OpenReasons \cup {"NONE"}, c.exit \in Int, SettleRow(t, c),
         status[t] = "OPEN" /\ c.reason = "EXPIRY" => left[t] = 0,
         UNCHANGED <<timer, live, close>>, lateSettle' \subseteq lateSettle,
         \A u \in Trades : settling'[u] = "sent" => settling[u] = "sent"
  PROVE  Timely'
<1>1. CASE status[t] # "OPEN"
  <2>1. UNCHANGED <<status, ticket, left, outcome>>
    BY <1>1 DEF SettleRow, dbVars
  <2> QED
    BY <2>1, TimelyKept
<1>2. CASE status[t] = "OPEN"
  <2>1. /\ outcome'[t].reason = c.reason /\ status'[t] \in Settled /\ ticket' = ticket
        /\ left' = left
        /\ \A u \in Trades : u # t => status'[u] = status[u] /\ outcome'[u] = outcome[u]
    BY <1>2, RowClosed
  <2>2. status'[t] # "OPEN"
    BY <2>1 DEF Settled
  <2>3. \A k \in lateSettle : k.trade \in Trades
    BY DEF TypeInv, TypeOK
  <2> QED
    BY <1>2, <2>1, <2>2, <2>3, TimelyKept
<1> QED
  BY <1>1, <1>2

\* A request that outlives its process was sent in time.
LEMMA ForgetTimely ==
  ASSUME TypeInv, Timely, Forget
  PROVE  Timely'
<1>1. PICK M \in SUBSET {t \in Trades : settling[t] = "sent"} :
        lateSettle' = lateSettle \cup
          {[trade |-> t, reason |-> close[t].reason, exit |-> close[t].exit] : t \in M}
  BY DEF Forget
<1>2. /\ UNCHANGED <<ticket, status, outcome, left>>
      /\ \A t \in Trades : settling'[t] = "idle" /\ timer'[t] = Off
  BY DEF Forget, dbVars
<1>3. ASSUME NEW c \in lateSettle', status[c.trade] = "OPEN", c.reason = "EXPIRY"
      PROVE  left[c.trade] = 0
  <2>1. CASE c \in lateSettle
    BY <1>3, <2>1 DEF Timely
  <2>2. ASSUME NEW t \in M,
               c = [trade |-> t, reason |-> close[t].reason, exit |-> close[t].exit]
        PROVE  left[c.trade] = 0
    <3>1. c.trade = t /\ c.reason = close[t].reason /\ settling[t] = "sent" /\ t \in Trades
      BY <1>1, <2>2
    <3> QED
      BY <1>3, <3>1 DEF Timely
  <2> QED
    BY <1>1, <2>1, <2>2
<1> QED
  BY <1>2, <1>3, TimelyKept

\* While no database call fails unexecuted, no step closes a trade before its time or lets the
\* timer of an unwatched one run.
LEMMA StepTimely ==
  ASSUME "rpcError" \notin Faults, TypeInv, OneOwner, RowKnown, Timely, [Next]_vars
  PROVE  Timely'
<1> USE DEF dbVars, recoverVars, watchVars, settleVars, runVars, lateVars
<1>1. ASSUME NEW t \in Trades, PlaceTrade(t) PROVE Timely'
  <2>1. PICK tk : SendPlace(t, tk)
    BY <1>1 DEF PlaceTrade
  <2>2. status[t] = "NONE" /\ \A u \in Trades : u # t => ticket'[u] = ticket[u]
    BY <2>1, Ordered
  <2>3. UNCHANGED <<status, left, outcome, timer, live, settling, close, lateSettle>>
    BY <1>1 DEF PlaceTrade
  <2> QED
    BY <2>2, <2>3, TimelyKept
<1>2. ASSUME NEW t \in Trades, PlaceExec(t) PROVE Timely'
  <2>1. ticket[t] \in Tickets /\ status[t] = "NONE"
    BY <1>2 DEF PlaceExec, TypeInv, Requested, RowKnown
  <2> QED
    BY <1>2, <2>1, TimelyPlaced DEF PlaceExec
<1>3. ASSUME NEW t \in Trades, PlaceRefused(t) PROVE Timely'
  <2>1. /\ UNCHANGED <<status, ticket, left, outcome, lateSettle>>
        /\ \A u \in Trades : timer'[u] = Off \/ (timer'[u] = timer[u] /\ live' = live)
        /\ \A u \in Trades : settling'[u] = "sent" => settling[u] = "sent" /\ close'[u] = close[u]
    BY <1>3 DEF PlaceRefused, TypeInv, TypeOK
  <2> QED
    BY <2>1, TimelyKept
<1>4. ASSUME NEW t \in Trades, PlaceReplyLost(t) PROVE Timely'
  <2>1. /\ UNCHANGED <<status, ticket, left, outcome, lateSettle>>
        /\ \A u \in Trades : timer'[u] = Off \/ (timer'[u] = timer[u] /\ live' = live)
        /\ \A u \in Trades : settling'[u] = "sent" => settling[u] = "sent" /\ close'[u] = close[u]
    BY <1>4 DEF PlaceReplyLost, TypeInv, TypeOK
  <2> QED
    BY <2>1, TimelyKept
<1>5. ASSUME NEW t \in Trades, PlaceReply(t) PROVE Timely'
  <2>1. place[t] = "placed" /\ t \in Trades
    BY <1>5 DEF PlaceReply
  <2>2. /\ UNCHANGED <<status, ticket, left, outcome, lateSettle, settling, close>>
        /\ \/ UNCHANGED <<timer, live>>
           \/ timer' = [timer EXCEPT ![t] = ticket[t].dur] /\ Track(t)
    BY <1>5 DEF PlaceReply, Opened, Schedule
  <2>3. /\ \A u \in Trades : u # t => timer'[u] = timer[u]
        /\ live \subseteq live'
        /\ \/ timer'[t] = timer[t]
           \/ timer'[t] = ticket[t].dur /\ (ticket[t].stop # NoLevel => t \in live')
    BY <2>2 DEF Track, TypeInv, TypeOK
  <2>4. status[t] = "OPEN" => left[t] <= ticket[t].dur
    BY DEF Timely
  <2> QED
    BY <2>2, <2>3, <2>4, TimelyKept
<1>6. ASSUME NEW t \in Trades, LinkExec(t) PROVE Timely'
  <2>1. /\ UNCHANGED <<status, ticket, left, outcome, lateSettle>>
        /\ \A u \in Trades : timer'[u] = Off \/ (timer'[u] = timer[u] /\ live' = live)
        /\ \A u \in Trades : settling'[u] = "sent" => settling[u] = "sent" /\ close'[u] = close[u]
    BY <1>6 DEF LinkExec, TypeInv, TypeOK
  <2> QED
    BY <2>1, TimelyKept
<1>7. ASSUME NEW t \in Trades, LinkError(t) PROVE Timely'
  <2>1. /\ UNCHANGED <<status, ticket, left, outcome, lateSettle>>
        /\ \A u \in Trades : timer'[u] = Off \/ (timer'[u] = timer[u] /\ live' = live)
        /\ \A u \in Trades : settling'[u] = "sent" => settling[u] = "sent" /\ close'[u] = close[u]
    BY <1>7 DEF LinkError, TypeInv, TypeOK
  <2> QED
    BY <2>1, TimelyKept
<1>8. ASSUME NEW t \in Trades, LinkReply(t) PROVE Timely'
  <2>1. place[t] = "linked" /\ t \in Trades
    BY <1>8 DEF LinkReply
  <2>2. /\ UNCHANGED <<status, ticket, left, outcome, lateSettle, settling, close>>
        /\ \/ UNCHANGED <<timer, live>>
           \/ timer' = [timer EXCEPT ![t] = ticket[t].dur] /\ Track(t)
    BY <1>8 DEF LinkReply, Opened, Schedule
  <2>3. /\ \A u \in Trades : u # t => timer'[u] = timer[u]
        /\ live \subseteq live'
        /\ \/ timer'[t] = timer[t]
           \/ timer'[t] = ticket[t].dur /\ (ticket[t].stop # NoLevel => t \in live')
    BY <2>2 DEF Track, TypeInv, TypeOK
  <2>4. status[t] = "OPEN" => left[t] <= ticket[t].dur
    BY DEF Timely
  <2> QED
    BY <2>2, <2>3, <2>4, TimelyKept
<1>9. ASSUME NEW t \in Trades, TimerFires(t) PROVE Timely'
  <2>1. status[t] = "OPEN" => left[t] = 0
    <3>1. timer[t] = 0 /\ timer[t] # Off /\ left[t] \in Nat
      BY <1>9, DueTimerIsSet DEF TimerFires, TypeInv, TypeOK
    <3> QED
      BY <3>1 DEF Timely
  <2>2. /\ UNCHANGED <<status, ticket, left, outcome, lateSettle>>
        /\ timer'[t] = Off /\ \A u \in Trades : u # t => timer'[u] = timer[u]
        /\ \A u \in live : u = t \/ u \in live'
        /\ \A u \in Trades : u # t => settling'[u] = settling[u] /\ close'[u] = close[u]
    BY <1>9 DEF TimerFires, StartSettle, TypeInv, TypeOK
  <2> QED
    BY <2>1, <2>2, TimelyKept
<1>10. ASSUME NEW t \in Trades, SettleExec(t) PROVE Timely'
  <2>1. /\ ticket[t] \in Tickets /\ SettleRow(t, close[t])
        /\ close[t].reason \in OpenReasons \cup {"NONE"} /\ close[t].exit \in Int
        /\ status[t] = "OPEN" /\ close[t].reason = "EXPIRY" => left[t] = 0
    BY <1>10 DEF SettleExec, Timely, TypeInv, TypeOK, Requested
  <2>2. /\ UNCHANGED <<timer, live, close, lateSettle>>
        /\ \A u \in Trades : settling'[u] = "sent" => settling[u] = "sent"
    BY <1>10 DEF SettleExec, TypeInv, TypeOK
  <2> QED
    BY <2>1, <2>2, TimelyClosed
<1>11. ASSUME NEW t \in Trades, SettleError(t) PROVE Timely'
  <2>1. status[t] # "OPEN"
    BY <1>11 DEF SettleError, RowKnown, Settled
  <2>2. /\ UNCHANGED <<status, ticket, left, outcome, lateSettle, live>>
        /\ \A u \in Trades : u # t =>
              timer'[u] = timer[u] /\ settling'[u] = settling[u] /\ close'[u] = close[u]
    BY <1>11 DEF SettleError, SettleReturns, Schedule, TypeInv, TypeOK
  <2> QED
    BY <2>1, <2>2, TimelyKept
<1>12. ASSUME NEW t \in Trades, SettleReply(t) PROVE Timely'
  <2>1. /\ UNCHANGED <<status, ticket, left, outcome, lateSettle>>
        /\ \A u \in Trades : timer'[u] = Off \/ (timer'[u] = timer[u] /\ live' = live)
        /\ \A u \in Trades : settling'[u] = "sent" => settling[u] = "sent" /\ close'[u] = close[u]
    BY <1>12 DEF SettleReply, SettleReturns, TypeInv, TypeOK
  <2> QED
    BY <2>1, TimelyKept
<1>13. ASSUME NEW t \in Trades, LatePlace(t) PROVE Timely'
  <2>1. ticket[t] \in Tickets /\ status[t] = "NONE"
    BY <1>13 DEF LatePlace, TypeInv, Requested, RowKnown
  <2>2. UNCHANGED <<timer, live, settling, close, lateSettle>>
    BY <1>13 DEF LatePlace
  <2>3. CASE PlaceRow(t)
    BY <2>1, <2>2, <2>3, TimelyPlaced
  <2>4. CASE UNCHANGED dbVars
    BY <2>2, <2>4, TimelyKept
  <2> QED
    BY <1>13, <2>3, <2>4 DEF LatePlace
<1>14. ASSUME NEW t \in Trades, RecoverRow(t) PROVE Timely'
  <2>1. /\ UNCHANGED <<status, ticket, left, outcome, lateSettle>>
        /\ \A u \in Trades : u # t =>
              /\ timer'[u] = timer[u] /\ settling'[u] = settling[u] /\ close'[u] = close[u]
              /\ u \in live => u \in live'
    BY <1>14 DEF RecoverRow, Rewatch, Track, Schedule, StartSettle, TypeInv, TypeOK
  <2>2. t \in todo => timer[t] = Off
    BY DEF OneOwner
  <2>3. \/ left[t] = 0 /\ timer'[t] = Off
        \/ /\ timer'[t] = left[t] /\ (ticket[t].stop # NoLevel => t \in live')
           /\ settling'[t] = settling[t] /\ close'[t] = close[t]
    BY <1>14, <2>2 DEF RecoverRow, Rewatch, Track, Schedule, TypeInv, TypeOK
  <2>4. left[t] <= left[t]
    BY DEF TypeInv, TypeOK
  <2> QED
    BY <2>1, <2>3, <2>4, TimelyKept
<1>15. ASSUME NEW r \in Runs, StartRun(r) PROVE Timely'
  <2>1. /\ UNCHANGED <<status, ticket, left, outcome, lateSettle>>
        /\ \A u \in Trades : timer'[u] = Off \/ (timer'[u] = timer[u] /\ live' = live)
        /\ \A u \in Trades : settling'[u] = "sent" => settling[u] = "sent" /\ close'[u] = close[u]
    BY <1>15 DEF StartRun, TypeInv, TypeOK
  <2> QED
    BY <2>1, TimelyKept
<1>16. ASSUME NEW r \in Runs, LegRefused(r) PROVE Timely'
  <2>1. /\ UNCHANGED <<status, ticket, left, outcome, lateSettle>>
        /\ \A u \in Trades : timer'[u] = Off \/ (timer'[u] = timer[u] /\ live' = live)
        /\ \A u \in Trades : settling'[u] = "sent" => settling[u] = "sent" /\ close'[u] = close[u]
    BY <1>16 DEF LegRefused, TypeInv, TypeOK
  <2> QED
    BY <2>1, TimelyKept
<1>17. ASSUME NEW r \in Runs, AbortRun(r) PROVE Timely'
  <2>1. /\ UNCHANGED <<status, ticket, left, outcome, lateSettle>>
        /\ \A u \in Trades : timer'[u] = Off \/ (timer'[u] = timer[u] /\ live' = live)
        /\ \A u \in Trades : settling'[u] = "sent" => settling[u] = "sent" /\ close'[u] = close[u]
    BY <1>17 DEF AbortRun, TypeInv, TypeOK
  <2> QED
    BY <2>1, TimelyKept
<1>18. ASSUME NEW r \in Runs, AdvanceExec(r) PROVE Timely'
  <2>1. /\ UNCHANGED <<status, ticket, left, outcome, lateSettle>>
        /\ \A u \in Trades : timer'[u] = Off \/ (timer'[u] = timer[u] /\ live' = live)
        /\ \A u \in Trades : settling'[u] = "sent" => settling[u] = "sent" /\ close'[u] = close[u]
    BY <1>18 DEF AdvanceExec, TypeInv, TypeOK
  <2> QED
    BY <2>1, TimelyKept
<1>19. ASSUME NEW r \in Runs, AdvanceError(r) PROVE Timely'
  <2>1. /\ UNCHANGED <<status, ticket, left, outcome, lateSettle>>
        /\ \A u \in Trades : timer'[u] = Off \/ (timer'[u] = timer[u] /\ live' = live)
        /\ \A u \in Trades : settling'[u] = "sent" => settling[u] = "sent" /\ close'[u] = close[u]
    BY <1>19 DEF AdvanceError, TypeInv, TypeOK
  <2> QED
    BY <2>1, TimelyKept
<1>20. ASSUME NEW r \in Runs, NEW t \in Trades, PlaceLeg(r, t) PROVE Timely'
  <2>1. PICK tk : SendPlace(t, tk)
    BY <1>20 DEF PlaceLeg
  <2>2. status[t] = "NONE" /\ \A u \in Trades : u # t => ticket'[u] = ticket[u]
    BY <2>1, Ordered
  <2>3. UNCHANGED <<status, left, outcome, timer, live, settling, close, lateSettle>>
    BY <1>20 DEF PlaceLeg
  <2> QED
    BY <2>2, <2>3, TimelyKept
<1>21. ASSUME NEW s \in Symbols, NEW p \in Prices, Tick(s, p) PROVE Timely'
  <2> DEFINE H == IF phase = "up"
                  THEN {t \in live : ticket[t].sym = s /\ Reached(t, p)} ELSE {}
             reason == [t \in H |-> LevelReason(t, p)]
  <2>1. /\ UNCHANGED <<status, ticket, left, outcome, lateSettle>> /\ live' = live \ H
        /\ timer' = [t \in Trades |-> IF t \in H THEN Off ELSE timer[t]]
        /\ StartSettle(H, reason, p)
    BY <1>21 DEF Tick
  <2> HIDE DEF H
  <2>2. \A t \in Trades : t \notin H =>
           timer'[t] = timer[t] /\ settling'[t] = settling[t] /\ close'[t] = close[t]
    BY <2>1 DEF StartSettle
  <2>3. \A t \in Trades : t \in H => timer'[t] = Off /\ close'[t].reason # "EXPIRY"
    BY <2>1 DEF StartSettle, LevelReason
  <2> QED
    BY <2>1, <2>2, <2>3, TimelyKept
<1>22. ASSUME NEW c \in lateSettle, LateSettle(c) PROVE Timely'
  <2>1. /\ c.trade \in Trades /\ ticket[c.trade] \in Tickets /\ SettleRow(c.trade, c)
        /\ c.reason \in OpenReasons \cup {"NONE"} /\ c.exit \in Int
        /\ status[c.trade] = "OPEN" /\ c.reason = "EXPIRY" => left[c.trade] = 0
    BY <1>22 DEF LateSettle, Timely, TypeInv, TypeOK, Requested
  <2>2. UNCHANGED <<timer, live, settling, close>> /\ lateSettle' \subseteq lateSettle
    BY <1>22 DEF LateSettle
  <2> QED
    BY <2>1, <2>2, TimelyClosed
<1>23. ASSUME NEW a \in Accounts, DemoReset(a) PROVE Timely'
  <2>1. /\ UNCHANGED <<status, ticket, left, outcome, lateSettle>>
        /\ \A u \in Trades : timer'[u] = Off \/ (timer'[u] = timer[u] /\ live' = live)
        /\ \A u \in Trades : settling'[u] = "sent" => settling[u] = "sent" /\ close'[u] = close[u]
    BY <1>23 DEF DemoReset, TypeInv, TypeOK
  <2> QED
    BY <2>1, TimelyKept
<1>24. ASSUME Shutdown PROVE Timely'
  <2>1. /\ UNCHANGED <<status, ticket, left, outcome, lateSettle>>
        /\ \A u \in Trades : timer'[u] = Off \/ (timer'[u] = timer[u] /\ live' = live)
        /\ \A u \in Trades : settling'[u] = "sent" => settling[u] = "sent" /\ close'[u] = close[u]
    BY <1>24 DEF Shutdown, TypeInv, TypeOK
  <2> QED
    BY <2>1, TimelyKept
<1>25. ASSUME Exit PROVE Timely'
  BY <1>25, ForgetTimely DEF Exit
<1>26. ASSUME Crash PROVE Timely'
  BY <1>26, ForgetTimely DEF Crash
<1>27. ASSUME Boot PROVE Timely'
  <2>1. /\ UNCHANGED <<status, ticket, left, outcome, lateSettle>>
        /\ \A u \in Trades : timer'[u] = Off \/ (timer'[u] = timer[u] /\ live' = live)
        /\ \A u \in Trades : settling'[u] = "sent" => settling[u] = "sent" /\ close'[u] = close[u]
    BY <1>27 DEF Boot, TypeInv, TypeOK
  <2> QED
    BY <2>1, TimelyKept
<1>28. ASSUME BootLoadFails PROVE Timely'
  <2>1. /\ UNCHANGED <<status, ticket, left, outcome, lateSettle>>
        /\ \A u \in Trades : timer'[u] = Off \/ (timer'[u] = timer[u] /\ live' = live)
        /\ \A u \in Trades : settling'[u] = "sent" => settling[u] = "sent" /\ close'[u] = close[u]
    BY <1>28 DEF BootLoadFails, TypeInv, TypeOK
  <2> QED
    BY <2>1, TimelyKept
<1>29. ASSUME RecoverDone PROVE Timely'
  <2>1. /\ UNCHANGED <<status, ticket, left, outcome, lateSettle>>
        /\ \A u \in Trades : timer'[u] = Off \/ (timer'[u] = timer[u] /\ live' = live)
        /\ \A u \in Trades : settling'[u] = "sent" => settling[u] = "sent" /\ close'[u] = close[u]
    BY <1>29 DEF RecoverDone, TypeInv, TypeOK
  <2> QED
    BY <2>1, TimelyKept
<1>30. ASSUME Elapse PROVE Timely'
  <2>1. /\ UNCHANGED <<status, ticket, outcome, live, settling, close, lateSettle>>
        /\ left' = [t \in Trades |-> IF status[t] = "OPEN" /\ left[t] > 0
                                     THEN left[t] - 1 ELSE left[t]]
        /\ timer' = [t \in Trades |-> IF timer[t] > 0 THEN timer[t] - 1 ELSE timer[t]]
    BY <1>30 DEF Elapse
  <2>2. ASSUME NEW t \in Trades
        PROVE  /\ left[t] = 0 => left'[t] = 0
               /\ status'[t] = "OPEN" =>
                     /\ left'[t] <= ticket[t].dur
                     /\ timer'[t] # Off => timer[t] # Off /\ left'[t] <= timer'[t]
    <3>1. left[t] \in Nat /\ timer[t] \in Nat \cup {Off}
      BY DEF TypeInv, TypeOK
    <3>2. left'[t] = IF status[t] = "OPEN" /\ left[t] > 0 THEN left[t] - 1 ELSE left[t]
      BY <2>1
    <3>3. timer'[t] = IF timer[t] > 0 THEN timer[t] - 1 ELSE timer[t]
      BY <2>1
    <3>4. status'[t] = "OPEN" =>
            /\ status[t] = "OPEN" /\ left[t] <= ticket[t].dur
            /\ timer[t] # Off => left[t] <= timer[t]
      BY <2>1 DEF Timely
    <3>5. ticket[t] \in Tickets \/ status'[t] # "OPEN"
      BY <2>1 DEF TypeInv, Requested
    <3>6. ticket[t].dur \in Nat \/ status'[t] # "OPEN"
      BY <3>5, TicketFacts
    <3> QED
      BY <3>1, <3>2, <3>3, <3>4, <3>6 DEF Off
  <2>3. \A c \in lateSettle : c.trade \in Trades
    BY DEF TypeInv, TypeOK
  <2> QED
    BY <2>1, <2>2, <2>3 DEF Timely, ExpiryNotEarly, Settled
<1>31. CASE UNCHANGED vars
  <2>1. /\ UNCHANGED <<status, ticket, left, outcome, lateSettle>>
        /\ \A u \in Trades : timer'[u] = Off \/ (timer'[u] = timer[u] /\ live' = live)
        /\ \A u \in Trades : settling'[u] = "sent" => settling[u] = "sent" /\ close'[u] = close[u]
    BY <1>31 DEF vars, TypeInv, TypeOK
  <2> QED
    BY <2>1, TimelyKept
<1> QED
  BY <1>1, <1>2, <1>3, <1>4, <1>5, <1>6, <1>7, <1>8, <1>9,
     <1>10, <1>11, <1>12, <1>13, <1>14, <1>15, <1>16, <1>17, <1>18,
     <1>19, <1>20, <1>21, <1>22, <1>23, <1>24, <1>25, <1>26, <1>27,
     <1>28, <1>29, <1>30, <1>31
     DEF Next, PlaceStep, SettleStep, RunStep

\* While no database call fails unexecuted, every trade is closed in time.
LEMMA TimelyHolds ==
  ASSUME "rpcError" \notin Faults
  PROVE  Spec => []Timely
<1>1. Init => Timely
  BY DEF Init, Timely, ExpiryNotEarly, Settled
<1>2. TypeInv /\ OneOwner /\ RowKnown /\ Timely /\ [Next]_vars => Timely'
  BY StepTimely
<1> QED
  BY <1>1, <1>2, RowKnownHolds, PTL DEF Spec

\* Unless a database call fails unexecuted, an open position with exit levels and a timer is
\* watched on every tick: through every restart, and in whichever order the calls return.
\* (A failed settlement is retried by a timer alone, the position stays unwatched.)
THEOREM LevelsWatchedHolds ==
  ASSUME "rpcError" \notin Faults
  PROVE  Spec => []LevelsWatched
<1>1. Timely => LevelsWatched
  BY DEF Timely, LevelsWatched
<1> QED
  BY <1>1, TimelyHolds, PTL

\* A trade booked as stopped out was at or past its stop, one booked as a take-profit at or
\* past its target, one booked as expired had no time left unless a database call failed:
\* whatever the tick monitor, the timers, a recovery and a late request do to each other.
THEOREM ExitMatchesReasonHolds == Spec => []ExitMatchesReason
<1>1. Reasoned /\ ("rpcError" \notin Faults => ExpiryNotEarly) => ExitMatchesReason
  BY DEF Reasoned, Fits, ExitMatchesReason
<1>2. CASE "rpcError" \in Faults
  <2>1. Reasoned => ExitMatchesReason
    BY <1>1, <1>2
  <2> QED
    BY <2>1, ReasonedHolds, PTL
<1>3. CASE "rpcError" \notin Faults
  <2>1. Reasoned /\ Timely => ExitMatchesReason
    BY <1>1 DEF Timely
  <2>2. Spec => []Timely
    BY <1>3, TimelyHolds
  <2> QED
    BY <2>1, <2>2, ReasonedHolds, PTL
<1> QED
  BY <1>2, <1>3

-----------------------------------------------------------------------------
(* What a run reports *)

\* The counted legs are finitely many, and their results are numbers.
LEMMA CountedFacts ==
  ASSUME TypeInv, Finite, NEW r
  PROVE  /\ Counted(r) \subseteq Trades /\ IsFiniteSet(Counted(r))
         /\ Cardinality(Counted(r)) \in Nat /\ Won(outcome, Counted(r)) \in Int
         /\ \A t \in Trades : outcome[t].profit \in Int
<1>1. Counted(r) \subseteq {t \in Trades : status[t] # "NONE"} /\ Counted(r) \subseteq Trades
  BY DEF Counted, Settled
<1>2. IsFiniteSet(Counted(r))
  BY <1>1, FS_Subset DEF Finite
<1>3. \A t \in Trades : outcome[t].profit \in Int
  BY DEF TypeInv, TypeOK
<1>4. \A t \in Counted(r) : outcome[t].profit \in Int
  BY <1>1, <1>3
<1> QED
  BY <1>1, <1>2, <1>3, <1>4, FS_CardinalityType, WonSame

\* A step that settles no leg of a run leaves what its legs add up to.
LEMMA CountedKept ==
  ASSUME TypeInv, Finite, NEW r,
         \A t \in Trades : (runOf'[t] = r /\ status'[t] \in Settled)
                               <=> (runOf[t] = r /\ status[t] \in Settled),
         \A t \in Trades : status[t] \in Settled => outcome'[t] = outcome[t]
  PROVE  Counted(r)' = Counted(r) /\ Won(outcome, Counted(r))' = Won(outcome, Counted(r))
<1>1. Counted(r)' = Counted(r)
  BY DEF Counted, Settled
<1>2. Counted(r) \subseteq Trades /\ IsFiniteSet(Counted(r))
  BY CountedFacts
<1>3. \A t \in Counted(r) : outcome[t].profit \in Int /\ outcome'[t] = outcome[t]
  BY CountedFacts DEF Counted
<1>4. Won(outcome', Counted(r)) = Won(outcome, Counted(r))
  BY <1>2, <1>3, WonSame
<1> QED
  BY <1>1, <1>4

\* A step that settles no leg of a run, starts none and does not move the run on (other
\* than to abort it) leaves its invariant.
LEMMA RunKept ==
  ASSUME TypeInv, RowKnown, Finite, NEW r \in Runs, TurnOf(r), TallyOf(r),
         \A t \in Trades : (runOf'[t] = r /\ status'[t] \in Settled)
                               <=> (runOf[t] = r /\ status[t] \in Settled),
         \A t \in Trades : status[t] \in Settled => outcome'[t] = outcome[t],
         /\ runs'[r].completed = runs[r].completed /\ runs'[r].total = runs[r].total
         /\ runs'[r].net = runs[r].net
         /\ runs'[r].status = runs[r].status \/ runs'[r].status = "ABORTED",
         runStep'[r] \in {"leg", "advancing"} =>
            runStep'[r] = runStep[r] /\ runProfit'[r] = runProfit[r],
         \A t \in Trades : LegOf(t, r)' =>
            LegOf(t, r) /\ (ToReport(t, r)' <=> ToReport(t, r))
  PROVE  TurnOf(r)' /\ TallyOf(r)'
<1>1. TurnOf(r)'
  BY DEF TurnOf
<1>2. Counted(r)' = Counted(r) /\ Won(outcome, Counted(r))' = Won(outcome, Counted(r))
  BY CountedKept
<1>3. ASSUME NEW n, NEW p
      PROVE  Owes(r, n, p) => Owes(r, n, p)'
  BY <1>2 DEF Owes
<1>4. Owes(r, 0, 0) => Owes(r, 0, 0)'
  BY <1>3
<1>5. runStep'[r] = "advancing" => Owes(r, 1, runProfit[r])'
  <2>1. runStep'[r] = "advancing" => runProfit'[r] = runProfit[r] /\ Owes(r, 1, runProfit[r])
    BY DEF TallyOf
  <2> QED
    BY <1>2, <2>1 DEF Owes
<1>6. ASSUME NEW t \in Trades, LegOf(t, r)'
      PROVE  IF ToReport(t, r)' THEN Owes(r, 1, outcome[t].profit)' ELSE Owes(r, 0, 0)'
  <2>1. LegOf(t, r) /\ (ToReport(t, r)' <=> ToReport(t, r))
    BY <1>6
  <2>2. CASE ToReport(t, r)
    <3>1. outcome'[t] = outcome[t]
      BY <2>2 DEF ToReport, RowKnown
    <3>2. Owes(r, 1, outcome[t].profit)
      BY <2>1, <2>2 DEF TallyOf
    <3> QED
      BY <1>2, <2>1, <2>2, <3>1, <3>2 DEF Owes
  <2>3. CASE ~ToReport(t, r)
    BY <1>4, <2>1, <2>3 DEF TallyOf
  <2> QED
    BY <2>2, <2>3
<1>7. /\ runs'[r].completed <= Cardinality(Counted(r))'
      /\ runs'[r].status = "RUNNING" => runs'[r].completed < runs'[r].total
      /\ runs'[r].status = "DONE" => runs'[r].completed = runs'[r].total
      /\ runs'[r].status = "DONE" \/ runStep'[r] = "leg" => Owes(r, 0, 0)'
  BY <1>2, <1>4 DEF TallyOf
<1> QED
  BY <1>1, <1>5, <1>6, <1>7 DEF TallyOf

\* A step that neither touches the runs nor settles a row, and after which no more trades
\* are being placed, open or to be reported, leaves the invariant of every run.
LEMMA RunsKept ==
  ASSUME TypeInv, RowKnown, Finite, RunInv,
         UNCHANGED <<ticket, outcome, runs, runOf, runProfit>>,
         \A t \in Trades : status'[t] \in Settled <=> status[t] \in Settled,
         \A t \in Trades : Active(t)' =>
            Active(t) /\ (settling'[t] = "done" <=> settling[t] = "done"),
         \A r \in Runs : runStep'[r] \in {"leg", "advancing"} => runStep'[r] = runStep[r]
  PROVE  RunInv'
<1>1. Linked'
  BY DEF RunInv, Linked, Tickets
<1>2. ASSUME NEW r \in Runs PROVE TurnOf(r)' /\ TallyOf(r)'
  <2>1. TurnOf(r) /\ TallyOf(r)
    BY DEF RunInv
  <2>2. \A t \in Trades : LegOf(t, r)' => LegOf(t, r) /\ (ToReport(t, r)' <=> ToReport(t, r))
    BY DEF LegOf, ToReport, Tickets
  <2> QED
    BY <2>1, <2>2, RunKept
<1> QED
  BY <1>1, <1>2 DEF RunInv

\* The row of a leg is settled: of its run it is the one leg, and the run has yet to be told.
LEMMA LegSettled ==
  ASSUME TypeInv, OneOwner, RowKnown, Finite, RunInv,
         NEW t \in Trades, ticket[t] \in Tickets, place[t] = "idle", settling[t] # "done",
         NEW c, c.reason \in OpenReasons \cup {"NONE"}, c.exit \in Int, SettleRow(t, c),
         UNCHANGED <<place, latePlace, runStep, runProfit>>,
         \A u \in Trades : u # t => settling'[u] = settling[u],
         status[t] # "OPEN" => settling'[t] # "done"
  PROVE  RunInv'
<1>1. CASE status[t] # "OPEN"
  <2>1. UNCHANGED <<status, ticket, outcome, runs, runOf>>
    BY <1>1 DEF SettleRow, dbVars
  <2>2. \A u \in Trades : Active(u)' =>
           Active(u) /\ (settling'[u] = "done" <=> settling[u] = "done")
    BY <1>1, <2>1 DEF Active
  <2> QED
    BY <2>1, <2>2, RunsKept
<1>2. CASE status[t] = "OPEN"
  <2>1. /\ status'[t] \in Settled /\ outcome'[t].profit \in Int
        /\ \A u \in Trades : u # t => status'[u] = status[u] /\ outcome'[u] = outcome[u]
        /\ UNCHANGED <<ticket, runOf, runs>>
    BY <1>2, RowClosed
  <2>2. status'[t] # "OPEN" /\ status[t] \notin Settled /\ t \notin latePlace
    BY <1>2, <2>1 DEF Settled, RowKnown
  <2>3. Linked'
    BY <2>1 DEF RunInv, Linked, Tickets
  <2>4. ASSUME NEW r \in Runs PROVE TurnOf(r)' /\ TallyOf(r)'
    <3>1. TurnOf(r) /\ TallyOf(r)
      BY DEF RunInv
    <3>2. \A u \in Trades : LegOf(u, r)' => LegOf(u, r)
      BY <1>2, <2>1 DEF LegOf, Active, Tickets
    <3>3. CASE runOf[t] # r
      <4>1. \A u \in Trades : (runOf'[u] = r /\ status'[u] \in Settled)
                                <=> (runOf[u] = r /\ status[u] \in Settled)
        BY <2>1, <3>3
      <4>2. \A u \in Trades : status[u] \in Settled => outcome'[u] = outcome[u]
        BY <2>1, <2>2
      <4>3. \A u \in Trades : ToReport(u, r)' <=> ToReport(u, r)
        BY <2>1, <3>3 DEF ToReport
      <4> QED
        BY <2>1, <3>1, <3>2, <4>1, <4>2, <4>3, RunKept
    <3>4. CASE runOf[t] = r
      <4>1. ticket[t].run = r /\ LegOf(t, r)
        <5>1. runOf[t] # NoRun
          BY <3>4, ConstantFacts
        <5> QED
          BY <1>2, <3>4, <5>1 DEF RunInv, Linked, LegOf, Active
      <4>2. \A u \in Trades : LegOf(u, r)' => u = t
        BY <3>1, <3>2, <4>1 DEF TurnOf
      <4>3. /\ runStep[r] \notin {"leg", "advancing"} /\ runs[r].status # "DONE"
            /\ Owes(r, 0, 0)
        BY <2>2, <3>1, <4>1 DEF TurnOf, TallyOf, ToReport
      <4>4. Owes(r, 1, outcome[t].profit)' /\ runs[r].completed <= Cardinality(Counted(r))'
        <5> DEFINE S == Counted(r)
        <5>1. S' = S \cup {t} /\ t \notin S
          BY <2>1, <2>2, <3>4 DEF Counted
        <5>2. /\ S \subseteq Trades /\ IsFiniteSet(S) /\ Cardinality(S) \in Nat
              /\ Won(outcome, S) \in Int
          BY CountedFacts
        <5>3. \A u \in Trades : outcome[u].profit \in Int
          BY CountedFacts
        <5> HIDE DEF S
        <5>4. \A u \in S : outcome[u].profit \in Int /\ outcome'[u] = outcome[u]
          BY <2>1, <5>1, <5>2, <5>3
        <5>5. \A u \in S \cup {t} : outcome'[u].profit \in Int
          BY <2>1, <5>4
        <5>6. Won(outcome', S) = Won(outcome, S)
          BY <5>2, <5>4, WonSame
        <5>7. Won(outcome', S \cup {t}) = outcome'[t].profit + Won(outcome', S)
          BY <5>1, <5>2, <5>5, WonMore
        <5>8. Cardinality(S \cup {t}) = Cardinality(S) + 1
          BY <5>1, <5>2, FS_AddElement
        <5>9. runs[r].completed \in Nat /\ runs[r].net \in Int
          BY DEF TypeInv, TypeOK
        <5>10. runs[r].completed + 0 = Cardinality(S) /\ runs[r].net + 0 = Won(outcome, S)
          BY <4>3 DEF Owes, S
        <5>11. /\ runs[r].completed + 1 = Cardinality(S \cup {t})
               /\ runs[r].completed <= Cardinality(S \cup {t})
          BY <5>2, <5>8, <5>9, <5>10
        <5>12. runs[r].net + outcome'[t].profit = Won(outcome', S \cup {t})
          BY <2>1, <5>2, <5>6, <5>7, <5>9, <5>10
        <5>13. Counted(r)' = S \cup {t}
          BY <5>1 DEF S
        <5> QED
          BY <2>1, <5>11, <5>12, <5>13 DEF Owes
      <4>5. LegOf(t, r)' => ToReport(t, r)'
        BY <2>1, <2>2, <3>4 DEF LegOf, Active, ToReport
      <4>6. TurnOf(r)'
        BY <2>1, <4>2, <4>3 DEF TurnOf
      <4>7. \A u \in Trades : LegOf(u, r)' =>
               ToReport(u, r)' /\ Owes(r, 1, outcome[u].profit)'
        BY <4>2, <4>4, <4>5
      <4>8. TallyOf(r)'
        BY <2>1, <3>1, <4>3, <4>4, <4>7 DEF TallyOf
      <4> QED
        BY <4>6, <4>8
    <3> QED
      BY <3>3, <3>4
  <2> QED
    BY <2>3, <2>4 DEF RunInv
<1> QED
  BY <1>1, <1>2

\* A trade is ordered: by a trader, or as the next leg of a run that has no other.
LEMMA LegOrdered ==
  ASSUME TypeInv, OneOwner, RowKnown, Finite, RunInv,
         NEW t \in Trades, NEW tk, SendPlace(t, tk), NEW q,
         tk.run = q,
         q = NoRun \/ (q \in Runs /\ runStep[q] = "leg" /\ runStep'[q] = "placing"),
         \A r \in Runs : r # q => runStep'[r] = runStep[r],
         UNCHANGED <<status, outcome, runs, runOf, runProfit, settling, latePlace>>
  PROVE  RunInv'
<1>1. /\ ticket[t] = NoTicket /\ status[t] = "NONE" /\ ticket'[t] = tk
      /\ \A u \in Trades : u # t => ticket'[u] = ticket[u] /\ place'[u] = place[u]
      /\ settling[t] = "idle"
  <2>1. ticket[t] = NoTicket /\ place' = [place EXCEPT ![t] = "sent"]
    BY DEF SendPlace
  <2> QED
    BY <2>1, Ordered, FreshTrade DEF TypeInv, TypeOK
<1>2. Linked'
  <2>1. runOf[t] = NoRun
    BY <1>1, ConstantFacts DEF RunInv, Linked
  <2>2. q # NoRun => runs[q].status # "NONE"
    BY DEF TypeInv, Planned
  <2> QED
    BY <1>1, <2>1, <2>2 DEF RunInv, Linked, Tickets
<1>3. ASSUME NEW r \in Runs PROVE TurnOf(r)' /\ TallyOf(r)'
  <2>1. TurnOf(r) /\ TallyOf(r)
    BY DEF RunInv
  <2>2. \A u \in Trades : u # t => (LegOf(u, r)' <=> LegOf(u, r))
    BY <1>1 DEF LegOf, Active, Tickets
  <2>3. \A u \in Trades : ToReport(u, r)' <=> ToReport(u, r)
    BY DEF ToReport
  <2>4. CASE r # q
    <3>1. ~LegOf(t, r)'
      BY <1>1, <2>4 DEF LegOf
    <3> QED
      BY <2>1, <2>2, <2>3, <2>4, <3>1, RunKept
  <2>5. CASE r = q
    <3>0. runStep[r] = "leg" /\ runStep'[r] = "placing"
      BY <2>5, ConstantFacts
    <3>1. \A u \in Trades : LegOf(u, r)' => u = t
      BY <2>1, <2>2, <3>0 DEF TurnOf
    <3>2. TurnOf(r)'
      BY <2>1, <3>0, <3>1 DEF TurnOf
    <3>3. runs[r].status # "DONE" /\ Owes(r, 0, 0)
      BY <2>1, <3>0 DEF TurnOf, TallyOf
    <3>4. Counted(r)' = Counted(r) /\ Won(outcome, Counted(r))' = Won(outcome, Counted(r))
      BY CountedKept
    <3>5. Owes(r, 0, 0)'
      BY <3>3, <3>4 DEF Owes
    <3>6. ~ToReport(t, r)'
      BY <1>1 DEF ToReport
    <3>7. \A u \in Trades : LegOf(u, r)' => ~ToReport(u, r)' /\ Owes(r, 0, 0)'
      BY <3>1, <3>5, <3>6
    <3>8. runs[r].completed <= Cardinality(Counted(r))'
      BY <2>1, <3>4 DEF TallyOf
    <3>9. TallyOf(r)'
      BY <2>1, <3>0, <3>3, <3>7, <3>8 DEF TallyOf
    <3> QED
      BY <3>2, <3>9
  <2> QED
    BY <2>4, <2>5
<1> QED
  BY <1>2, <1>3 DEF RunInv

\* fpesa_advance_run counts the leg it is told of: a run that it moves on, or finishes, has
\* been told of all its legs.
LEMMA RunAdvanced ==
  ASSUME TypeInv, RowKnown, Finite, RunInv, NEW r \in Runs, runStep[r] = "advancing",
         AdvanceRow(r) \/ UNCHANGED runs,
         \A q \in Runs : q # r => runStep'[q] = runStep[q],
         runStep'[r] = "idle" \/ (runStep'[r] = "leg" /\ AdvanceRow(r) /\ runs'[r].status = "RUNNING"),
         UNCHANGED <<status, ticket, outcome, runOf, runProfit, place, settling, latePlace>>
  PROVE  RunInv'
<1>1. \/ UNCHANGED runs /\ (runStep'[r] = "leg" => runs[r].status = "RUNNING" /\ AdvanceRow(r))
      \/ runs[r].status = "RUNNING" /\ AdvanceRow(r)
  BY DEF AdvanceRow
<1>2. \A q \in Runs, u \in Trades :
        (LegOf(u, q)' <=> LegOf(u, q)) /\ (ToReport(u, q)' <=> ToReport(u, q))
  BY DEF LegOf, Active, ToReport, Tickets
<1>3. TurnOf(r) /\ TallyOf(r) /\ \A u \in Trades : ~LegOf(u, r)
  BY DEF RunInv, TurnOf
<1>4. runs[r].status # "DONE" /\ Owes(r, 1, runProfit[r])
  BY <1>3 DEF TurnOf, TallyOf
<1>5. \A q \in Runs : Counted(q)' = Counted(q) /\ Won(outcome, Counted(q))' = Won(outcome, Counted(q))
  BY CountedKept
<1>6. /\ Cardinality(Counted(r)) \in Nat /\ Won(outcome, Counted(r)) \in Int
      /\ runs[r].completed \in Nat /\ runs[r].total \in Nat /\ runs[r].net \in Int
      /\ runProfit[r] \in Int
  BY CountedFacts DEF TypeInv, TypeOK
<1>7. CASE runs[r].status = "RUNNING" /\ AdvanceRow(r)
  <2>1. /\ runs'[r].completed = runs[r].completed + 1
        /\ runs'[r].net = runs[r].net + runProfit[r] /\ runs'[r].total = runs[r].total
        /\ runs'[r].status = IF runs[r].completed + 1 >= runs[r].total THEN "DONE" ELSE "RUNNING"
        /\ \A q \in Runs : q # r => runs'[q] = runs[q]
    BY <1>7 DEF AdvanceRow, TypeInv, TypeOK
  <2>2. runs[r].completed < runs[r].total
    BY <1>3, <1>7 DEF TallyOf
  <2>3. /\ runs'[r].completed <= runs'[r].total
        /\ runs'[r].status = "RUNNING" => runs'[r].completed < runs'[r].total
        /\ runs'[r].status = "DONE" => runs'[r].completed = runs'[r].total
        /\ runs'[r].status # "NONE"
    <3>1. CASE runs[r].completed + 1 >= runs[r].total
      <4>1. runs'[r].status = "DONE"
        BY <2>1, <3>1
      <4>2. runs[r].completed + 1 = runs[r].total
        BY <1>6, <2>2, <3>1
      <4> QED
        BY <1>6, <2>1, <4>1, <4>2
    <3>2. CASE ~(runs[r].completed + 1 >= runs[r].total)
      <4>1. runs'[r].status = "RUNNING"
        BY <2>1, <3>2
      <4>2. runs[r].completed + 1 < runs[r].total
        BY <1>6, <3>2
      <4> QED
        BY <1>6, <2>1, <4>1, <4>2
    <3> QED
      BY <3>1, <3>2
  <2>4. Owes(r, 0, 0)'
    <3>1. /\ runs[r].completed + 1 = Cardinality(Counted(r))
          /\ runs[r].net + runProfit[r] = Won(outcome, Counted(r))
      BY <1>4 DEF Owes
    <3>2. /\ runs'[r].completed + 0 = Cardinality(Counted(r))
          /\ runs'[r].net + 0 = Won(outcome, Counted(r))
      BY <1>6, <2>1, <3>1
    <3> QED
      BY <1>5, <3>2 DEF Owes
  <2>5. runs'[r].completed <= Cardinality(Counted(r))'
    <3>1. runs'[r].completed = Cardinality(Counted(r))
      BY <1>4, <2>1 DEF Owes
    <3> QED
      BY <1>5, <1>6, <3>1
  <2>6. runStep'[r] = "leg" => runs'[r].status = "RUNNING"
    OBVIOUS
  <2>7. TurnOf(r)' /\ TallyOf(r)'
    BY <1>2, <1>3, <2>3, <2>4, <2>5, <2>6 DEF TurnOf, TallyOf
  <2>8. ASSUME NEW q \in Runs, q # r PROVE TurnOf(q)' /\ TallyOf(q)'
    <3>1. TurnOf(q) /\ TallyOf(q)
      BY DEF RunInv
    <3> QED
      BY <1>2, <2>1, <2>8, <3>1, RunKept
  <2>9. Linked'
    BY <2>1, <2>3 DEF RunInv, Linked, Tickets
  <2> QED
    BY <2>7, <2>8, <2>9 DEF RunInv
<1>8. CASE UNCHANGED runs /\ runStep'[r] # "leg"
  <2>1. \A u \in Trades : Active(u)' <=> Active(u)
    BY DEF Active
  <2>2. \A q \in Runs : runStep'[q] \in {"leg", "advancing"} => runStep'[q] = runStep[q]
    BY <1>8
  <2> QED
    BY <1>8, <2>1, <2>2, RunsKept
<1> QED
  BY <1>1, <1>7, <1>8

\* fpesa_create_run writes a run that has no leg yet.
LEMMA RunStarted ==
  ASSUME TypeInv, RowKnown, Finite, RunInv, NEW r \in Runs, StartRun(r)
  PROVE  RunInv'
<1>1. PICK plan \in Plans, n \in RunLengths :
        runs' = [runs EXCEPT ![r] = [status |-> "RUNNING", total |-> n,
                                     completed |-> 0, net |-> 0, plan |-> plan]]
  BY DEF StartRun
<1>2. n \in Nat \ {0}
  BY OrderFacts
<1>3. /\ runs[r].status = "NONE" /\ (runStep'[r] = "leg" \/ runStep'[r] = runStep[r])
      /\ \A q \in Runs : q # r => runStep'[q] = runStep[q] /\ runs'[q] = runs[q]
      /\ UNCHANGED <<status, ticket, outcome, runOf, runProfit, place, settling, latePlace>>
  BY <1>1 DEF StartRun, settleVars, lateVars, TypeInv, TypeOK
<1>4. /\ runs'[r].status = "RUNNING" /\ runs'[r].total = n
      /\ runs'[r].completed = 0 /\ runs'[r].net = 0
  BY <1>1 DEF TypeInv, TypeOK
<1>5. \A q \in Runs, u \in Trades :
        (LegOf(u, q)' <=> LegOf(u, q)) /\ (ToReport(u, q)' <=> ToReport(u, q))
  BY <1>3 DEF LegOf, Active, ToReport, Tickets
<1>6. (\A u \in Trades : ~LegOf(u, r)) /\ Counted(r) = {}
  <2>1. r # NoRun
    BY ConstantFacts
  <2>2. ASSUME NEW u \in Trades, ticket[u] \in Tickets, ticket[u].run = r PROVE FALSE
    <3>1. runs[ticket[u].run].status # "NONE"
      BY <2>1, <2>2 DEF RunInv, Linked
    <3> QED
      BY <1>3, <2>2, <3>1
  <2>3. \A u \in Trades : runOf[u] # r
    BY <2>1, <2>2 DEF RunInv, Linked
  <2> QED
    BY <2>2, <2>3 DEF LegOf, Counted
<1>7. Cardinality({}) = 0 /\ Won(outcome, {}) = 0
  BY FS_EmptySet, SumEmpty DEF Won
<1>8. Counted(r)' = Counted(r) /\ Won(outcome, Counted(r))' = Won(outcome, Counted(r))
  BY <1>3, CountedKept
<1>9. Owes(r, 0, 0)' /\ runs'[r].completed <= Cardinality(Counted(r))'
  BY <1>4, <1>6, <1>7, <1>8 DEF Owes
<1>10. runStep[r] # "advancing"
  <2>1. runs[r].completed \in Nat
    BY DEF TypeInv, TypeOK
  <2>2. runs[r].completed + 1 # 0
    BY <2>1
  <2> QED
    BY <1>6, <1>7, <2>2 DEF RunInv, TallyOf, Owes
<1>11. TurnOf(r)' /\ TallyOf(r)'
  <2>1. TurnOf(r)'
    BY <1>4, <1>5, <1>6 DEF TurnOf
  <2>2. TallyOf(r)'
    BY <1>2, <1>3, <1>4, <1>5, <1>6, <1>9, <1>10 DEF TallyOf
  <2> QED
    BY <2>1, <2>2
<1>12. ASSUME NEW q \in Runs, q # r PROVE TurnOf(q)' /\ TallyOf(q)'
  <2>1. TurnOf(q) /\ TallyOf(q)
    BY DEF RunInv
  <2> QED
    BY <1>3, <1>5, <1>12, <2>1, RunKept
<1>13. Linked'
  BY <1>3, <1>4 DEF RunInv, Linked, Tickets
<1> QED
  BY <1>11, <1>12, <1>13 DEF RunInv

\* settle tells the run of its leg: it was the one leg, and it is told once.
LEMMA LegReported ==
  ASSUME TypeInv, OneOwner, RowKnown, Finite, RunInv, NEW t \in Trades, SettleReply(t)
  PROVE  RunInv'
<1>1. /\ settling[t] \in {"done", "already"}
      /\ \A u \in Trades : settling'[u] = IF u = t THEN "idle" ELSE settling[u]
      /\ UNCHANGED <<status, ticket, outcome, runOf, runs, place, latePlace>>
  BY DEF SettleReply, SettleReturns, dbVars, lateVars, TypeInv, TypeOK
<1>2. status[t] \in Settled /\ place[t] = "idle" /\ t \notin latePlace
  <2>1. status[t] \in Settled
    BY <1>1 DEF RowKnown
  <2> QED
    BY <1>1, <2>1 DEF RowKnown, OneOwner, Settled
<1>3. ~Active(t)' /\ \A u \in Trades : u # t => (Active(u)' <=> Active(u))
  BY <1>1, <1>2 DEF Active, Settled
<1>4. CASE settling[t] = "done" /\ runOf[t] # NoRun
  <2>1. PICK r \in Runs : r = runOf[t] /\ ticket[t].run = r /\ LegOf(t, r)
    <3>1. runOf[t] \in Runs
      BY <1>4 DEF TypeInv, TypeOK
    <3>2. ticket[t] \in Tickets /\ ticket[t].run = runOf[t]
      BY <1>4 DEF RunInv, Linked
    <3> QED
      BY <1>4, <3>1, <3>2 DEF LegOf, Active
  <2>2. /\ runStep'[r] = "advancing" /\ runProfit'[r] = outcome[t].profit
        /\ \A q \in Runs : q # r => runStep'[q] = runStep[q] /\ runProfit'[q] = runProfit[q]
    BY <1>4, <2>1 DEF SettleReply, TypeInv, TypeOK
  <2>3. TurnOf(r) /\ TallyOf(r) /\ ToReport(t, r)
    BY <1>4, <2>1 DEF RunInv, ToReport
  <2>3a. runs[r].status # "DONE" /\ Owes(r, 1, outcome[t].profit)
    BY <2>1, <2>3 DEF TurnOf, TallyOf
  <2>4. \A u \in Trades, q \in Runs : LegOf(u, q)' => LegOf(u, q) /\ u # t
    BY <1>1, <1>3 DEF LegOf, Tickets
  <2>5. \A u \in Trades : ~LegOf(u, r)'
    BY <2>1, <2>3, <2>4 DEF TurnOf
  <2>6. \A q \in Runs : Counted(q)' = Counted(q) /\ Won(outcome, Counted(q))' = Won(outcome, Counted(q))
    BY <1>1, CountedKept
  <2>7. TurnOf(r)'
    BY <1>1, <2>3a, <2>5 DEF TurnOf
  <2>8. runs'[r].completed + 1 = Cardinality(Counted(r))'
        /\ runs'[r].net + runProfit'[r] = Won(outcome, Counted(r))'
    BY <1>1, <2>1, <2>2, <2>3a, <2>6 DEF Owes
  <2>9. runs'[r].completed <= Cardinality(Counted(r))'
    BY <1>1, <2>1, <2>3, <2>6 DEF TallyOf
  <2>10. TallyOf(r)'
    BY <1>1, <2>2, <2>3, <2>3a, <2>5, <2>8, <2>9 DEF TallyOf, Owes
  <2>11. ASSUME NEW q \in Runs, q # r PROVE TurnOf(q)' /\ TallyOf(q)'
    <3>1. TurnOf(q) /\ TallyOf(q)
      BY DEF RunInv
    <3>2. \A u \in Trades : LegOf(u, q)' => LegOf(u, q) /\ (ToReport(u, q)' <=> ToReport(u, q))
      BY <1>1, <2>4 DEF ToReport
    <3> QED
      BY <1>1, <2>2, <2>11, <3>1, <3>2, RunKept
  <2>12. Linked'
    BY <1>1 DEF RunInv, Linked, Tickets
  <2> QED
    BY <2>7, <2>10, <2>11, <2>12 DEF RunInv
<1>5. CASE ~(settling[t] = "done" /\ runOf[t] # NoRun)
  <2>1. UNCHANGED <<runStep, runProfit>>
    BY <1>5 DEF SettleReply, runVars
  <2>2. \A u \in Trades : Active(u)' => Active(u) /\ settling'[u] = settling[u]
    BY <1>1, <1>3
  <2> QED
    BY <1>1, <2>1, <2>2, RunsKept
<1> QED
  BY <1>4, <1>5

\* A leg is linked to its run while it is open.
LEMMA LegLinked ==
  ASSUME TypeInv, OneOwner, RowKnown, Finite, RunInv, NEW t \in Trades, LinkExec(t)
  PROVE  RunInv'
<1>1. /\ place[t] = "linking"
      /\ runOf'[t] = ticket[t].run /\ \A u \in Trades : u # t => runOf'[u] = runOf[u]
      /\ \A u \in Trades : place[u] # "idle" <=> place'[u] # "idle"
      /\ UNCHANGED <<status, ticket, outcome, runs, runStep, runProfit, settling, latePlace>>
  BY DEF LinkExec, runVars, settleVars, lateVars, TypeInv, TypeOK
<1>2. status[t] = "OPEN" /\ settling[t] = "idle" /\ ticket[t] \in Tickets
  BY <1>1 DEF RowKnown, OneOwner, TypeInv, Requested
<1>3. Linked'
  BY <1>1, <1>2 DEF RunInv, Linked, Tickets
<1>4. ASSUME NEW r \in Runs PROVE TurnOf(r)' /\ TallyOf(r)'
  <2>1. TurnOf(r) /\ TallyOf(r)
    BY DEF RunInv
  <2>2. \A u \in Trades : (runOf'[u] = r /\ status'[u] \in Settled)
                            <=> (runOf[u] = r /\ status[u] \in Settled)
    BY <1>1, <1>2 DEF Settled
  <2>3. \A u \in Trades : LegOf(u, r)' => LegOf(u, r) /\ (ToReport(u, r)' <=> ToReport(u, r))
    BY <1>1, <1>2 DEF LegOf, Active, ToReport, Tickets
  <2> QED
    BY <1>1, <2>1, <2>2, <2>3, RunKept
<1> QED
  BY <1>3, <1>4 DEF RunInv

\* The process dies, and of the legs being placed only those already open or yet to be
\* placed remain.
LEMMA LegsForgotten ==
  ASSUME TypeInv, RowKnown, Finite, RunInv, Forget
  PROVE  RunInv'
<1>1. /\ UNCHANGED <<status, ticket, outcome, runs, runOf, runProfit>>
      /\ \A t \in Trades : place'[t] = "idle" /\ settling'[t] = "idle"
      /\ \A r \in Runs : runStep'[r] = "idle"
  BY DEF Forget, dbVars
<1>2. \A t \in latePlace' : t \in latePlace \/ place[t] = "sent"
  BY DEF Forget
<1>3. \A t \in Trades : Active(t)' => Active(t) /\ settling[t] # "done"
  BY <1>1, <1>2 DEF Active, RowKnown, Settled
<1> QED
  BY <1>1, <1>3, RunsKept

\* No step leaves a run with two legs, or told of a leg twice.
LEMMA StepRuns ==
  ASSUME TypeInv, OneOwner, RowKnown, Finite, RunInv, [Next]_vars
  PROVE  RunInv'
<1> USE DEF dbVars, recoverVars, watchVars, settleVars, runVars, lateVars
<1>1. ASSUME NEW t \in Trades, PlaceTrade(t) PROVE RunInv'
  <2>1. PICK a \in Accounts, s \in Symbols, d \in Directions, k \in Kinds,
             st \in Stakes, du \in Durations, e \in Edges :
             SendPlace(t, NewTicket(a, s, d, k, st, du, e, NoRun))
    BY <1>1 DEF PlaceTrade
  <2>2. NewTicket(a, s, d, k, st, du, e, NoRun).run = NoRun
    BY DEF NewTicket
  <2>3. UNCHANGED <<status, outcome, runs, runOf, runStep, runProfit, settling, latePlace>>
    BY <1>1 DEF PlaceTrade
  <2> QED
    BY <2>1, <2>2, <2>3, LegOrdered
<1>2. ASSUME NEW t \in Trades, PlaceExec(t) PROVE RunInv'
  <2>1. ticket[t] \in Tickets /\ status[t] = "NONE"
    BY <1>2 DEF PlaceExec, TypeInv, Requested, RowKnown
  <2>2. UNCHANGED <<runStep, runProfit, settling>>
    BY <1>2 DEF PlaceExec
  <2>3. UNCHANGED <<ticket, outcome, runs, runOf>>
    BY <1>2 DEF PlaceExec, PlaceRow
  <2>4. \A u \in Trades : /\ u # t => status'[u] = status[u]
                          /\ status'[t] = "OPEN" \/ status'[t] = status[t]
    BY <1>2, <2>1, RowPlaced DEF PlaceExec
  <2>5. \A u \in Trades : Active(u)' => Active(u)
    BY <1>2, <2>2, <2>4 DEF PlaceExec, Active, TypeInv, TypeOK
  <2>6. \A u \in Trades : status'[u] \in Settled <=> status[u] \in Settled
    BY <2>1, <2>4 DEF Settled
  <2> QED
    BY <2>2, <2>3, <2>5, <2>6, RunsKept
<1>3. ASSUME NEW t \in Trades, PlaceRefused(t) PROVE RunInv'
  <2>1. UNCHANGED <<status, ticket, outcome, runs, runOf, runProfit>>
    BY <1>3 DEF PlaceRefused, AbandonLeg
  <2>2. \A u \in Trades : Active(u)' =>
           Active(u) /\ (settling'[u] = "done" <=> settling[u] = "done")
    BY <1>3, <2>1 DEF PlaceRefused, AbandonLeg, Active, TypeInv, TypeOK
  <2>3. \A q \in Runs : runStep'[q] \in {"leg", "advancing"} => runStep'[q] = runStep[q]
    BY <1>3 DEF PlaceRefused, AbandonLeg, TypeInv, TypeOK
  <2> QED
    BY <2>1, <2>2, <2>3, RunsKept
<1>4. ASSUME NEW t \in Trades, PlaceReplyLost(t) PROVE RunInv'
  <2>1. UNCHANGED <<status, ticket, outcome, runs, runOf, runProfit>>
    BY <1>4 DEF PlaceReplyLost, AbandonLeg
  <2>2. \A u \in Trades : Active(u)' =>
           Active(u) /\ (settling'[u] = "done" <=> settling[u] = "done")
    BY <1>4, <2>1 DEF PlaceReplyLost, AbandonLeg, Active, TypeInv, TypeOK
  <2>3. \A q \in Runs : runStep'[q] \in {"leg", "advancing"} => runStep'[q] = runStep[q]
    BY <1>4 DEF PlaceReplyLost, AbandonLeg, TypeInv, TypeOK
  <2> QED
    BY <2>1, <2>2, <2>3, RunsKept
<1>5. ASSUME NEW t \in Trades, PlaceReply(t) PROVE RunInv'
  <2>1. UNCHANGED <<status, ticket, outcome, runs, runOf, runProfit>>
    BY <1>5 DEF PlaceReply, Opened, Track, Schedule
  <2>2. \A u \in Trades : Active(u)' =>
           Active(u) /\ (settling'[u] = "done" <=> settling[u] = "done")
    BY <1>5, <2>1 DEF PlaceReply, Opened, Track, Schedule, Active, TypeInv, TypeOK
  <2>3. \A q \in Runs : runStep'[q] \in {"leg", "advancing"} => runStep'[q] = runStep[q]
    BY <1>5 DEF PlaceReply, Opened, Track, Schedule, TypeInv, TypeOK
  <2> QED
    BY <2>1, <2>2, <2>3, RunsKept
<1>6. ASSUME NEW t \in Trades, LinkExec(t) PROVE RunInv'
  BY <1>6, LegLinked
<1>7. ASSUME NEW t \in Trades, LinkError(t) PROVE RunInv'
  <2>1. UNCHANGED <<status, ticket, outcome, runs, runOf, runProfit>>
    BY <1>7 DEF LinkError
  <2>2. \A u \in Trades : Active(u)' =>
           Active(u) /\ (settling'[u] = "done" <=> settling[u] = "done")
    BY <1>7, <2>1 DEF LinkError, Active, TypeInv, TypeOK
  <2>3. \A q \in Runs : runStep'[q] \in {"leg", "advancing"} => runStep'[q] = runStep[q]
    BY <1>7 DEF LinkError, TypeInv, TypeOK
  <2> QED
    BY <2>1, <2>2, <2>3, RunsKept
<1>8. ASSUME NEW t \in Trades, LinkReply(t) PROVE RunInv'
  <2>1. UNCHANGED <<status, ticket, outcome, runs, runOf, runProfit>>
    BY <1>8 DEF LinkReply, Opened, Track, Schedule
  <2>2. \A u \in Trades : Active(u)' =>
           Active(u) /\ (settling'[u] = "done" <=> settling[u] = "done")
    BY <1>8, <2>1 DEF LinkReply, Opened, Track, Schedule, Active, TypeInv, TypeOK
  <2>3. \A q \in Runs : runStep'[q] \in {"leg", "advancing"} => runStep'[q] = runStep[q]
    BY <1>8 DEF LinkReply, Opened, Track, Schedule, TypeInv, TypeOK
  <2> QED
    BY <2>1, <2>2, <2>3, RunsKept
<1>9. ASSUME NEW t \in Trades, TimerFires(t) PROVE RunInv'
  <2>1. UNCHANGED <<status, ticket, outcome, runs, runOf, runProfit, runStep, place, latePlace>>
    BY <1>9 DEF TimerFires
  <2>2. settling[t] = "idle"
    BY <1>9, DueTimerIsSet DEF TimerFires, OneOwner, TypeInv, TypeOK
  <2>3. \A u \in Trades : settling'[u] = "done" <=> settling[u] = "done"
    BY <1>9, <2>2 DEF TimerFires, StartSettle
  <2>4. \A u \in Trades : Active(u)' <=> Active(u)
    BY <2>1, <2>3 DEF Active
  <2> QED
    BY <2>1, <2>3, <2>4, RunsKept
<1>10. ASSUME NEW t \in Trades, SettleExec(t) PROVE RunInv'
  <2>1. /\ ticket[t] \in Tickets /\ SettleRow(t, close[t]) /\ place[t] = "idle"
        /\ close[t].reason \in OpenReasons \cup {"NONE"} /\ close[t].exit \in Int
        /\ settling[t] # "done"
    BY <1>10 DEF SettleExec, OneOwner, TypeInv, TypeOK, Requested
  <2>2. /\ UNCHANGED <<place, latePlace, runStep, runProfit>>
        /\ \A u \in Trades : u # t => settling'[u] = settling[u]
        /\ status[t] # "OPEN" => settling'[t] # "done"
    BY <1>10 DEF SettleExec, TypeInv, TypeOK
  <2> QED
    BY <2>1, <2>2, LegSettled
<1>11. ASSUME NEW t \in Trades, SettleError(t) PROVE RunInv'
  <2>1. UNCHANGED <<status, ticket, outcome, runs, runOf, runProfit, runStep, place, latePlace>>
    BY <1>11 DEF SettleError
  <2>2. settling[t] = "done" => status[t] \in Settled /\ place[t] = "idle" /\ t \notin latePlace
    <3>1. settling[t] = "done" => status[t] \in Settled
      BY DEF RowKnown
    <3> QED
      BY <3>1 DEF RowKnown, OneOwner, Settled
  <2>3. settling'[t] = "idle" /\ \A u \in Trades : u # t => settling'[u] = settling[u]
    BY <1>11 DEF SettleError, SettleReturns, TypeInv, TypeOK
  <2>4. \A u \in Trades : Active(u)' =>
           Active(u) /\ (settling'[u] = "done" <=> settling[u] = "done")
    BY <2>1, <2>2, <2>3 DEF Active, Settled
  <2> QED
    BY <2>1, <2>4, RunsKept
<1>12. ASSUME NEW t \in Trades, SettleReply(t) PROVE RunInv'
  BY <1>12, LegReported
<1>13. ASSUME NEW t \in Trades, LatePlace(t) PROVE RunInv'
  <2>1. ticket[t] \in Tickets /\ status[t] = "NONE"
    BY <1>13 DEF LatePlace, TypeInv, Requested, RowKnown
  <2>2. UNCHANGED <<runStep, runProfit, settling>>
    BY <1>13 DEF LatePlace
  <2>3. UNCHANGED <<ticket, outcome, runs, runOf>>
    BY <1>13 DEF LatePlace, PlaceRow
  <2>4. \A u \in Trades : /\ u # t => status'[u] = status[u]
                          /\ status'[t] = "OPEN" \/ status'[t] = status[t]
    BY <1>13, <2>1, RowPlaced DEF LatePlace
  <2>5. \A u \in Trades : Active(u)' => Active(u)
    BY <1>13, <2>2, <2>4 DEF LatePlace, Active, TypeInv, TypeOK
  <2>6. \A u \in Trades : status'[u] \in Settled <=> status[u] \in Settled
    BY <2>1, <2>4 DEF Settled
  <2> QED
    BY <2>2, <2>3, <2>5, <2>6, RunsKept
<1>14. ASSUME NEW t \in Trades, RecoverRow(t) PROVE RunInv'
  <2>1. UNCHANGED <<status, ticket, outcome, runs, runOf, runProfit, runStep, place, latePlace>>
    BY <1>14 DEF RecoverRow
  <2>2. settling[t] = "idle"
    BY <1>14 DEF RecoverRow, OneOwner
  <2>3. \A u \in Trades : settling'[u] = "done" <=> settling[u] = "done"
    BY <1>14, <2>2 DEF RecoverRow, Rewatch, StartSettle
  <2>4. \A u \in Trades : Active(u)' <=> Active(u)
    BY <2>1, <2>3 DEF Active
  <2> QED
    BY <2>1, <2>3, <2>4, RunsKept
<1>15. ASSUME NEW r \in Runs, StartRun(r) PROVE RunInv'
  BY <1>15, RunStarted
<1>16. ASSUME NEW r \in Runs, LegRefused(r) PROVE RunInv'
  <2>1. UNCHANGED <<status, ticket, outcome, runs, runOf, runProfit>>
    BY <1>16 DEF LegRefused
  <2>2. \A u \in Trades : Active(u)' =>
           Active(u) /\ (settling'[u] = "done" <=> settling[u] = "done")
    BY <1>16, <2>1 DEF LegRefused, Active, TypeInv, TypeOK
  <2>3. \A q \in Runs : runStep'[q] \in {"leg", "advancing"} => runStep'[q] = runStep[q]
    BY <1>16 DEF LegRefused, TypeInv, TypeOK
  <2> QED
    BY <2>1, <2>2, <2>3, RunsKept
<1>17. ASSUME NEW r \in Runs, AbortRun(r) PROVE RunInv'
  <2>1. /\ UNCHANGED <<status, ticket, outcome, runOf, runProfit, place, settling, latePlace>>
        /\ runStep'[r] = "idle" /\ \A q \in Runs : q # r => runStep'[q] = runStep[q]
    BY <1>17 DEF AbortRun, TypeInv, TypeOK
  <2>2. \A q \in Runs :
           /\ runs'[q].completed = runs[q].completed /\ runs'[q].total = runs[q].total
           /\ runs'[q].net = runs[q].net
           /\ runs'[q].status = runs[q].status \/ runs'[q].status = "ABORTED"
    BY <1>17 DEF AbortRun, AbortRow, TypeInv, TypeOK
  <2>3. \A q \in Runs, u \in Trades :
           (LegOf(u, q)' <=> LegOf(u, q)) /\ (ToReport(u, q)' <=> ToReport(u, q))
    BY <2>1 DEF LegOf, Active, ToReport, Tickets
  <2>4. ASSUME NEW q \in Runs PROVE TurnOf(q)' /\ TallyOf(q)'
    <3>1. TurnOf(q) /\ TallyOf(q)
      BY DEF RunInv
    <3>2. runStep'[q] \in {"leg", "advancing"} => runStep'[q] = runStep[q]
      BY <2>1
    <3> QED
      BY <2>1, <2>2, <2>3, <3>1, <3>2, RunKept
  <2>5. Linked'
    BY <2>1, <2>2 DEF RunInv, Linked, Tickets
  <2> QED
    BY <2>4, <2>5 DEF RunInv
<1>18. ASSUME NEW r \in Runs, AdvanceExec(r) PROVE RunInv'
  <2>1. /\ runStep[r] = "advancing" /\ AdvanceRow(r)
        /\ \A q \in Runs : q # r => runStep'[q] = runStep[q]
        /\ runStep'[r] = "idle" \/ (runStep'[r] = "leg" /\ runs'[r].status = "RUNNING")
        /\ UNCHANGED <<status, ticket, outcome, runOf, runProfit, place, settling, latePlace>>
    BY <1>18 DEF AdvanceExec, TypeInv, TypeOK
  <2> QED
    BY <2>1, RunAdvanced
<1>19. ASSUME NEW r \in Runs, AdvanceError(r) PROVE RunInv'
  <2>1. /\ runStep[r] = "advancing" /\ (AdvanceRow(r) \/ UNCHANGED runs)
        /\ \A q \in Runs : q # r => runStep'[q] = runStep[q]
        /\ runStep'[r] = "idle"
        /\ UNCHANGED <<status, ticket, outcome, runOf, runProfit, place, settling, latePlace>>
    BY <1>19 DEF AdvanceError, TypeInv, TypeOK
  <2> QED
    BY <2>1, RunAdvanced
<1>20. ASSUME NEW r \in Runs, NEW t \in Trades, PlaceLeg(r, t) PROVE RunInv'
  <2> DEFINE tk(d, e) == NewTicket(runs[r].plan.acct, runs[r].plan.sym, d, "SCALED",
                                   runs[r].plan.stake, runs[r].plan.dur, e, r)
  <2>1. PICK d \in Directions, e \in Edges : SendPlace(t, tk(d, e))
    BY <1>20 DEF PlaceLeg
  <2>2. tk(d, e).run = r
    BY DEF NewTicket
  <2>3. UNCHANGED <<status, outcome, runs, runOf, runProfit, settling, latePlace>>
    BY <1>20 DEF PlaceLeg
  <2>4. /\ runStep[r] = "leg" /\ runStep'[r] = "placing"
        /\ \A q \in Runs : q # r => runStep'[q] = runStep[q]
    BY <1>20 DEF PlaceLeg, TypeInv, TypeOK
  <2> HIDE DEF tk
  <2> QED
    BY <2>1, <2>2, <2>3, <2>4, LegOrdered
<1>21. ASSUME NEW s \in Symbols, NEW p \in Prices, Tick(s, p) PROVE RunInv'
  <2>1. UNCHANGED <<status, ticket, outcome, runs, runOf, runProfit, runStep, place, latePlace>>
    BY <1>21 DEF Tick
  <2>2. \A u \in live : u \in Trades => settling[u] = "idle"
    BY DEF OneOwner, TypeInv, TypeOK
  <2>3. \A u \in Trades : settling'[u] = "done" <=> settling[u] = "done"
    BY <1>21, <2>2 DEF Tick, StartSettle
  <2>4. \A u \in Trades : Active(u)' <=> Active(u)
    BY <2>1, <2>3 DEF Active
  <2> QED
    BY <2>1, <2>3, <2>4, RunsKept
<1>22. ASSUME NEW c \in lateSettle, LateSettle(c) PROVE RunInv'
  <2> DEFINE t == c.trade
  <2>1. /\ t \in Trades /\ ticket[t] \in Tickets /\ SettleRow(t, c) /\ place[t] = "idle"
        /\ c.reason \in OpenReasons \cup {"NONE"} /\ c.exit \in Int
    BY <1>22 DEF LateSettle, OneOwner, TypeInv, TypeOK, Requested
  <2>2. UNCHANGED <<place, latePlace, runStep, runProfit, settling>>
    BY <1>22 DEF LateSettle
  <2> HIDE DEF t
  <2>3. CASE settling[t] # "done"
    BY <2>1, <2>2, <2>3, LegSettled
  <2>4. CASE settling[t] = "done"
    <3>1. status[t] # "OPEN"
      BY <2>1, <2>4 DEF RowKnown, Settled
    <3>2. UNCHANGED <<status, ticket, outcome, runs, runOf>>
      BY <2>1, <3>1 DEF SettleRow, dbVars
    <3>3. \A u \in Trades : Active(u)' <=> Active(u)
      BY <2>2, <3>2 DEF Active
    <3> QED
      BY <2>2, <3>2, <3>3, RunsKept
  <2> QED
    BY <2>3, <2>4
<1>23. ASSUME NEW a \in Accounts, DemoReset(a) PROVE RunInv'
  <2>1. UNCHANGED <<status, ticket, outcome, runs, runOf, runProfit>>
    BY <1>23 DEF DemoReset
  <2>2. \A u \in Trades : Active(u)' =>
           Active(u) /\ (settling'[u] = "done" <=> settling[u] = "done")
    BY <1>23, <2>1 DEF DemoReset, Active, TypeInv, TypeOK
  <2>3. \A q \in Runs : runStep'[q] \in {"leg", "advancing"} => runStep'[q] = runStep[q]
    BY <1>23 DEF DemoReset, TypeInv, TypeOK
  <2> QED
    BY <2>1, <2>2, <2>3, RunsKept
<1>24. ASSUME Shutdown PROVE RunInv'
  <2>1. UNCHANGED <<status, ticket, outcome, runs, runOf, runProfit>>
    BY <1>24 DEF Shutdown
  <2>2. \A u \in Trades : Active(u)' =>
           Active(u) /\ (settling'[u] = "done" <=> settling[u] = "done")
    BY <1>24, <2>1 DEF Shutdown, Active, TypeInv, TypeOK
  <2>3. \A q \in Runs : runStep'[q] \in {"leg", "advancing"} => runStep'[q] = runStep[q]
    BY <1>24 DEF Shutdown, TypeInv, TypeOK
  <2> QED
    BY <2>1, <2>2, <2>3, RunsKept
<1>25. ASSUME Exit PROVE RunInv'
  BY <1>25, LegsForgotten DEF Exit
<1>26. ASSUME Crash PROVE RunInv'
  BY <1>26, LegsForgotten DEF Crash
<1>27. ASSUME Boot PROVE RunInv'
  <2>1. UNCHANGED <<status, ticket, outcome, runs, runOf, runProfit>>
    BY <1>27 DEF Boot
  <2>2. \A u \in Trades : Active(u)' =>
           Active(u) /\ (settling'[u] = "done" <=> settling[u] = "done")
    BY <1>27, <2>1 DEF Boot, Active, TypeInv, TypeOK
  <2>3. \A q \in Runs : runStep'[q] \in {"leg", "advancing"} => runStep'[q] = runStep[q]
    BY <1>27 DEF Boot, TypeInv, TypeOK
  <2> QED
    BY <2>1, <2>2, <2>3, RunsKept
<1>28. ASSUME BootLoadFails PROVE RunInv'
  <2>1. UNCHANGED <<status, ticket, outcome, runs, runOf, runProfit>>
    BY <1>28 DEF BootLoadFails
  <2>2. \A u \in Trades : Active(u)' =>
           Active(u) /\ (settling'[u] = "done" <=> settling[u] = "done")
    BY <1>28, <2>1 DEF BootLoadFails, Active, TypeInv, TypeOK
  <2>3. \A q \in Runs : runStep'[q] \in {"leg", "advancing"} => runStep'[q] = runStep[q]
    BY <1>28 DEF BootLoadFails, TypeInv, TypeOK
  <2> QED
    BY <2>1, <2>2, <2>3, RunsKept
<1>29. ASSUME RecoverDone PROVE RunInv'
  <2>1. UNCHANGED <<status, ticket, outcome, runs, runOf, runProfit>>
    BY <1>29 DEF RecoverDone
  <2>2. \A u \in Trades : Active(u)' =>
           Active(u) /\ (settling'[u] = "done" <=> settling[u] = "done")
    BY <1>29, <2>1 DEF RecoverDone, Active, TypeInv, TypeOK
  <2>3. \A q \in Runs : runStep'[q] \in {"leg", "advancing"} => runStep'[q] = runStep[q]
    BY <1>29 DEF RecoverDone, TypeInv, TypeOK
  <2> QED
    BY <2>1, <2>2, <2>3, RunsKept
<1>30. ASSUME Elapse PROVE RunInv'
  <2>1. UNCHANGED <<status, ticket, outcome, runs, runOf, runProfit>>
    BY <1>30 DEF Elapse
  <2>2. \A u \in Trades : Active(u)' =>
           Active(u) /\ (settling'[u] = "done" <=> settling[u] = "done")
    BY <1>30, <2>1 DEF Elapse, Active, TypeInv, TypeOK
  <2>3. \A q \in Runs : runStep'[q] \in {"leg", "advancing"} => runStep'[q] = runStep[q]
    BY <1>30 DEF Elapse, TypeInv, TypeOK
  <2> QED
    BY <2>1, <2>2, <2>3, RunsKept
<1>31. CASE UNCHANGED vars
  <2>1. UNCHANGED <<status, ticket, outcome, runs, runOf, runProfit>>
    BY <1>31 DEF vars
  <2>2. \A u \in Trades : Active(u)' =>
           Active(u) /\ (settling'[u] = "done" <=> settling[u] = "done")
    BY <1>31, <2>1 DEF vars, Active, TypeInv, TypeOK
  <2>3. \A q \in Runs : runStep'[q] \in {"leg", "advancing"} => runStep'[q] = runStep[q]
    BY <1>31 DEF vars, TypeInv, TypeOK
  <2> QED
    BY <2>1, <2>2, <2>3, RunsKept
<1> QED
  BY <1>1, <1>2, <1>3, <1>4, <1>5, <1>6, <1>7, <1>8, <1>9,
     <1>10, <1>11, <1>12, <1>13, <1>14, <1>15, <1>16, <1>17, <1>18,
     <1>19, <1>20, <1>21, <1>22, <1>23, <1>24, <1>25, <1>26, <1>27,
     <1>28, <1>29, <1>30, <1>31
     DEF Next, PlaceStep, SettleStep, RunStep

\* The sum of the results of the counted legs, as the specification states it.
LEMMA WonIsSum ==
  ASSUME TypeInv, Finite, NEW r
  PROVE  SumFunction([t \in Counted(r) |-> outcome[t].profit]) = Won(outcome, Counted(r))
<1> DEFINE S == Counted(r)
           f == [t \in S |-> outcome[t].profit]
           h == [t \in Trades |-> outcome[t].profit]
<1>1. DOMAIN f = S /\ IsFiniteSet(S) /\ \A t \in S : f[t] \in Int /\ f[t] = h[t]
  BY CountedFacts
<1> HIDE DEF S, f, h
<1>2. SumFunctionOnSet(f, S) = SumFunctionOnSet(h, S)
  BY <1>1, SumSame
<1>3. SumFunction(f) = SumFunctionOnSet(f, S)
  BY <1>1 DEF SumFunction, SumFunctionOnSet
<1> QED
  BY <1>2, <1>3 DEF f, h, S, Won

\* What the invariant of the runs says to a trader.
LEMMA RunsReported ==
  ASSUME TypeInv, Finite, RunInv
  PROVE  RunHonest
<1>1. ASSUME NEW r \in Runs
      PROVE  Cardinality({t \in Trades : /\ ticket[t] # NoTicket /\ ticket[t].run = r
                                           /\ (status[t] = "OPEN" \/ place[t] # "idle")}) <= 1
  <2> DEFINE S == {t \in Trades : /\ ticket[t] # NoTicket /\ ticket[t].run = r
                                   /\ (status[t] = "OPEN" \/ place[t] # "idle")}
  <2>1. \A t \in S : t \in Trades /\ LegOf(t, r)
    BY DEF LegOf, Active, TypeInv, TypeOK
  <2>2. \A t, u \in S : t = u
    BY <2>1 DEF RunInv, TurnOf
  <2> HIDE DEF S
  <2>3. S = {} \/ \E t : S = {t}
    BY <2>2
  <2>4. Cardinality({}) = 0 /\ \A t : Cardinality({t}) = 1
    BY FS_EmptySet, FS_Singleton
  <2>5. Cardinality(S) = 0 \/ Cardinality(S) = 1
    BY <2>3, <2>4
  <2>6. Cardinality(S) <= 1
    BY <2>5
  <2> QED
    BY <2>6 DEF S
<1>2. ASSUME NEW r \in Runs
      PROVE  /\ runs[r].completed <= Cardinality(Counted(r))
             /\ runs[r].status = "DONE" =>
                   /\ runs[r].completed = runs[r].total
                   /\ Cardinality(Counted(r)) = runs[r].total
                   /\ runs[r].net = SumFunction([t \in Counted(r) |-> outcome[t].profit])
  <2>1. TallyOf(r)
    BY DEF RunInv
  <2>2. CASE runs[r].status = "DONE"
    <3>1. runs[r].completed = runs[r].total /\ Owes(r, 0, 0)
      BY <2>1, <2>2 DEF TallyOf
    <3>2. runs[r].completed \in Nat /\ runs[r].net \in Int
      BY DEF TypeInv, TypeOK
    <3>3. runs[r].completed = Cardinality(Counted(r)) /\ runs[r].net = Won(outcome, Counted(r))
      BY <3>1, <3>2 DEF Owes
    <3> QED
      BY <2>1, <3>1, <3>3, WonIsSum DEF TallyOf
  <2> QED
    BY <2>1, <2>2 DEF TallyOf
<1>3. LegsInTurn
  BY <1>1 DEF LegsInTurn
<1>4. RunTally
  BY <1>2 DEF RunTally, Counted
<1> QED
  BY <1>3, <1>4 DEF RunHonest

\* A run plays its legs one at a time and is told of each once: it never counts more than have
\* settled, and when it is done it has counted every one and the sum of what they made,
\* whichever replies were lost, whenever the process died and whatever came late.
THEOREM RunHonestHolds == Spec => []RunHonest
<1>1. Init => RunInv
  <2> SUFFICES ASSUME Init PROVE RunInv
    OBVIOUS
  <2>1. Linked
    BY ConstantFacts DEF Init, Linked
  <2>2. ASSUME NEW r \in Runs PROVE TurnOf(r) /\ TallyOf(r)
    <3>1. \A t \in Trades : ~LegOf(t, r)
      BY ConstantFacts DEF Init, LegOf
    <3>2. Counted(r) = {}
      BY DEF Init, Counted, Settled
    <3>3. runs[r].completed = 0 /\ runs[r].status = "NONE" /\ runStep[r] = "idle"
      BY DEF Init
    <3>4. TurnOf(r)
      BY <3>1, <3>3 DEF TurnOf
    <3>5. Cardinality(Counted(r)) = 0
      BY <3>2, FS_EmptySet
    <3> QED
      BY <3>1, <3>3, <3>4, <3>5 DEF TallyOf
  <2> QED
    BY <2>1, <2>2 DEF RunInv
<1>2. TypeInv /\ OneOwner /\ RowKnown /\ Finite /\ RunInv /\ [Next]_vars => RunInv'
  BY StepRuns
<1>3. TypeInv /\ Finite /\ RunInv => RunHonest
  BY RunsReported
<1> QED
  BY <1>1, <1>2, <1>3, LedgerHolds, RowKnownHolds, PTL DEF Spec
===============================================================================
