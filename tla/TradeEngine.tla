----------------------------- MODULE TradeEngine -----------------------------
(***************************************************************************)
(* The trading engine of the server (server/src/services/trading.ts), the  *)
(* rows and money functions it drives in PostgreSQL, and the price feed it  *)
(* settles against.                                                         *)
(*                                                                         *)
(* Three parties interleave: the database, which executes one function call *)
(* at a time; the process, one Node event loop whose timers, tick monitor   *)
(* and awaits interleave between calls; and the platform, which stops and   *)
(* restarts the process.  Every call to the database is three moments: it   *)
(* is sent, it is executed, its reply is handled.  Anything may happen in   *)
(* between.                                                                *)
(*                                                                         *)
(* Time is the time LEFT: left[t] until trades.expires_at, timer[t] until a *)
(* timeout fires.  Elapse is the passing of one unit (RetryDelay is 3 s).   *)
(***************************************************************************)
EXTENDS Pricing, FiniteSets, Functions

CONSTANTS
    Trades,         \* identities of the trades that may be placed
    Runs,           \* identities of the auto-runs that may be started
    NoRun,          \* trades.run_id is null
    NoTicket,       \* nothing requested yet
    Accounts,       \* one balance each: a user's demo or real balance
    RealAccounts,   \* those holding real money
    Symbols, Prices,
    Directions, Kinds, Stakes, Durations, RunLengths,   \* what may be ordered
    Multiplier,     \* [Durations -> Nat]: multiplierFor
    Edges,          \* the edges a trader may be priced at, in basis points
    ProfitMultiple, \* env.maxProfitMultiple
    BarrierOffset,  \* how far a digital's barrier is from the price, in steps
    PayoutBps,      \* a digital's payout rate
    StartBalance,   \* every balance initially, and a demo balance after a reset
    RetryDelay,     \* how long a failed settlement waits
    Faults,         \* what may go wrong, of AllFaults
    MaxRestarts     \* bound on shutdowns and crashes

AllFaults ==
    { "crash",           \* the process is killed at any moment
      "rpcError",        \* a database call fails before it executes
      "settleReplyLost", \* ... a settlement executes, its reply is lost
      "placeReplyLost",  \* ... a placement executes, its reply is lost
      "runReplyLost",    \* ... a run insert or advance executes, reply lost
      "lateSettle",      \* a dead process's settlement executes afterwards
      "latePlace",       \* a dead process's placement executes afterwards
      "loadFails" }      \* reading the open trades at boot fails

Off == -1           \* no timer
NoLevel == 0        \* a null price column
OpenReasons == {"EXPIRY", "STOP_OUT", "TAKE_PROFIT"}
NoClose == [reason |-> "NONE", exit |-> 0]
NoOutcome == [reason |-> "NONE", exit |-> 0, profit |-> 0]
Settled == {"WON", "LOST", "TIE"}

\* The columns of a trade that are fixed when it is placed.
Tickets == [acct : Accounts, sym : Symbols, dir : {"BUY", "SELL"},
            kind : {"SCALED", "DIGITAL"}, stake : Stakes, dur : Durations,
            run : Runs \cup {NoRun}, entry : Nat \ {0}, stop : Int, target : Int,
            barrier : Int, maxProfit : Nat]

\* What an auto-run repeats.
Plans == [acct : Accounts, sym : Symbols, dir : Directions \cup {"AUTO"},
          stake : Stakes, dur : Durations]

\* The edge is bounded by 20% wherever it is read or written.
ASSUME ConstantsAssumption ==
    /\ NoRun \notin Runs /\ NoTicket \notin Tickets
    /\ RealAccounts \subseteq Accounts
    /\ Prices \subseteq Nat \ {0} /\ Prices # {}
    /\ Stakes \subseteq Nat \ {0}
    /\ Durations \subseteq Nat \ {0}
    /\ RunLengths \subseteq Nat \ {0}
    /\ Edges \subseteq 0..2000
    /\ Multiplier \in [Durations -> Nat \ {0}]
    /\ ProfitMultiple \in Nat /\ BarrierOffset \in Nat /\ PayoutBps \in Nat
    /\ StartBalance \in Nat /\ RetryDelay \in Nat /\ MaxRestarts \in Nat
    /\ Directions \subseteq {"BUY", "SELL"}
    /\ Kinds \subseteq {"SCALED", "DIGITAL"}
    /\ Faults \subseteq AllFaults

VARIABLES
    \* the database, which survives the process
    balance,    \* users.demo_balance and users.real_balance
    status,     \* trades.status; NONE before the row exists
    ticket,     \* the columns of a trade fixed when it is placed
    left,       \* trades.expires_at, as the time left
    outcome,    \* trades.close_reason, exit_price and profit
    runOf,      \* trades.run_id
    runs,       \* trade_runs
    \* the feed
    price,      \* priceFeed.current
    \* the process, which does not survive
    phase,      \* down, recovering, up or stopping
    restarts,   \* how often it has been stopped or killed
    todo,       \* rows recoverOpenTrades has loaded and not yet reached
    awaiting,   \* the row whose settlement recoverOpenTrades awaits
    timer,      \* TradingEngine.timers, as the time left
    live,       \* TradingEngine.live
    place,      \* where the call of placeTrade for a trade has got to
    settling,   \* where the call of settle for a trade has got to
    close,      \* the arguments of that call
    runStep,    \* where startRun or advanceRun has got to for a run
    runProfit,  \* the profit advanceRun is recording
    \* requests that outlive the process that sent them
    latePlace, lateSettle

dbVars == <<balance, status, ticket, left, outcome, runOf, runs>>
settleVars == <<settling, close>>
watchVars == <<timer, live>>
runVars == <<runStep, runProfit>>
recoverVars == <<phase, restarts, todo, awaiting>>
lateVars == <<latePlace, lateSettle>>
vars == <<dbVars, price, recoverVars, watchVars, place, settleVars, runVars,
          lateVars>>


-----------------------------------------------------------------------------
(* Opening a position *)

\* A placement's arguments, as placeTrade computes them from the price at the
\* moment it stamps the entry.
NewTicket(a, s, d, k, st, du, e, r) ==
    LET m == Multiplier[du]
        entry == IF k = "SCALED" THEN ApplySpread(price[s], d, m, e) ELSE price[s]
    IN  [acct |-> a, sym |-> s, dir |-> d, kind |-> k, stake |-> st, dur |-> du,
         run |-> r, entry |-> entry,
         stop |-> IF k = "SCALED" THEN StopOut(entry, d, m) ELSE NoLevel,
         target |-> IF k = "SCALED"
                    THEN TakeProfit(entry, d, m, ProfitMultiple) ELSE NoLevel,
         barrier |-> IF k = "DIGITAL"
                     THEN price[s] - Sign(d) * BarrierOffset ELSE NoLevel,
         maxProfit |-> IF k = "SCALED" THEN st * ProfitMultiple
                       ELSE RoundHalfUp(st * PayoutBps, Bps)]

\* The placement is sent to the database.
SendPlace(t, tk) ==
    /\ ticket[t] = NoTicket
    /\ ticket' = [ticket EXCEPT ![t] = tk]
    /\ place' = [place EXCEPT ![t] = "sent"]

\* A trader orders a position; every validation has passed.
PlaceTrade(t) ==
    /\ phase = "up"
    /\ \E a \in Accounts, s \in Symbols, d \in Directions, k \in Kinds,
          st \in Stakes, du \in Durations, e \in Edges :
          SendPlace(t, NewTicket(a, s, d, k, st, du, e, NoRun))
    /\ UNCHANGED <<balance, status, left, outcome, runOf, runs, price,
                   recoverVars, watchVars, settleVars, runVars, lateVars>>

\* Mutant: the balance is not checked.
PlaceRowUnchecked(t) ==
    /\ balance' = [balance EXCEPT ![ticket[t].acct] = @ - ticket[t].stake]
    /\ status' = [status EXCEPT ![t] = "OPEN"]
    /\ left' = [left EXCEPT ![t] = ticket[t].dur]
    /\ UNCHANGED <<ticket, outcome, runOf, runs>>

\* fpesa_place_trade: debit the stake and write the row, or neither.
PlaceRow(t) ==
    /\ balance[ticket[t].acct] >= ticket[t].stake
    /\ balance' = [balance EXCEPT ![ticket[t].acct] = @ - ticket[t].stake]
    /\ status' = [status EXCEPT ![t] = "OPEN"]
    /\ left' = [left EXCEPT ![t] = ticket[t].dur]
    /\ UNCHANGED <<ticket, outcome, runOf, runs>>

PlaceExec(t) ==
    /\ place[t] = "sent"
    /\ PlaceRow(t)
    /\ place' = [place EXCEPT ![t] = "placed"]
    /\ UNCHANGED <<price, recoverVars, watchVars, settleVars, runVars, lateVars>>

\* Mutant: the run is not aborted.
AbandonLegForgotten(t) ==
    runStep' = IF ticket[t].run = NoRun THEN runStep
               ELSE [runStep EXCEPT ![ticket[t].run] = "idle"]

\* The placement of a leg failed: startRun and advanceRun abort its run.
AbandonLeg(t) ==
    runStep' = IF ticket[t].run = NoRun THEN runStep
               ELSE [runStep EXCEPT ![ticket[t].run] = "aborting"]

\* The call is refused (INSUFFICIENT_FUNDS; FLOAT_LIMIT of the live book, whose
\* room is not modelled) or fails unexecuted.
PlaceRefused(t) ==
    /\ place[t] = "sent"
    /\ \/ balance[ticket[t].acct] < ticket[t].stake
       \/ ticket[t].acct \in RealAccounts
       \/ "rpcError" \in Faults
    /\ place' = [place EXCEPT ![t] = "idle"]
    /\ AbandonLeg(t)
    /\ UNCHANGED <<dbVars, price, recoverVars, watchVars, settleVars, runProfit,
                   lateVars>>

\* The row was written but the call ends in an error: TRADE_FAILED.
PlaceReplyLost(t) ==
    /\ "placeReplyLost" \in Faults
    /\ place[t] = "placed"
    /\ place' = [place EXCEPT ![t] = "idle"]
    /\ AbandonLeg(t)
    /\ UNCHANGED <<dbVars, price, recoverVars, watchVars, settleVars, runProfit,
                   lateVars>>

\* Mutant: every position is watched.
TrackAll(t) == live' = live \cup {t}

\* track: only a position with exit levels is watched.
Track(t) == live' = IF ticket[t].stop = NoLevel THEN live ELSE live \cup {t}

\* scheduleSettlement.
Schedule(t, delay) == timer' = [timer EXCEPT ![t] = delay]

\* placeTrade resolves: the position is tracked and its expiry scheduled, and
\* startRun or advanceRun returns.
Opened(t) ==
    /\ place' = [place EXCEPT ![t] = "idle"]
    /\ Track(t)
    /\ Schedule(t, ticket[t].dur)
    /\ runStep' = IF ticket[t].run = NoRun THEN runStep
                  ELSE [runStep EXCEPT ![ticket[t].run] = "idle"]

PlaceReply(t) ==
    /\ place[t] = "placed"
    /\ IF ticket[t].run = NoRun
       THEN Opened(t)
       ELSE place' = [place EXCEPT ![t] = "linking"] /\ UNCHANGED <<watchVars, runStep>>
    /\ UNCHANGED <<dbVars, price, recoverVars, settleVars, runProfit, lateVars>>

\* The run linkage is written.
LinkExec(t) ==
    /\ place[t] = "linking"
    /\ place' = [place EXCEPT ![t] = "linked"]
    /\ runOf' = [runOf EXCEPT ![t] = ticket[t].run]
    /\ UNCHANGED <<balance, status, ticket, left, outcome, runs, price,
                   recoverVars, watchVars, settleVars, runVars, lateVars>>

\* Its error is not looked at.
LinkError(t) ==
    /\ "rpcError" \in Faults
    /\ place[t] = "linking"
    /\ place' = [place EXCEPT ![t] = "linked"]
    /\ UNCHANGED <<dbVars, price, recoverVars, watchVars, settleVars, runVars,
                   lateVars>>

LinkReply(t) ==
    /\ place[t] = "linked"
    /\ Opened(t)
    /\ UNCHANGED <<dbVars, price, recoverVars, settleVars, runProfit, lateVars>>

-----------------------------------------------------------------------------
(* Closing a position *)

\* settle is called for each trade of H: the exit is the price at the call.
StartSettle(H, reason, exit) ==
    /\ settling' = [t \in Trades |-> IF t \in H THEN "sent" ELSE settling[t]]
    /\ close' = [t \in Trades |->
                    IF t \in H THEN [reason |-> reason[t], exit |-> exit]
                    ELSE close[t]]

\* checkLevels: the level a position has reached, the stop before the target.
Stopped(t, p) == HitStop(ticket[t].dir, p, ticket[t].stop)
Reached(t, p) == Stopped(t, p) \/ HitTarget(ticket[t].dir, p, ticket[t].target)
LevelReason(t, p) == IF Stopped(t, p) THEN "STOP_OUT" ELSE "TAKE_PROFIT"

\* The feed moves.  Once the engine has subscribed, every watched position of
\* that market that has reached a level is closed in the same turn.
Tick(s, p) ==
    /\ phase \in {"recovering", "up"}
    /\ price' = [price EXCEPT ![s] = p]
    /\ LET H == IF phase = "up"
                THEN {t \in live : ticket[t].sym = s /\ Reached(t, p)} ELSE {}
           reason == [t \in H |-> LevelReason(t, p)]
       IN  /\ live' = live \ H
           /\ timer' = [t \in Trades |-> IF t \in H THEN Off ELSE timer[t]]
           /\ StartSettle(H, reason, p)
    /\ UNCHANGED <<dbVars, recoverVars, place, runVars, lateVars>>

\* Mutant: the position stays on watch.
TimerFiresWatched(t) ==
    /\ timer[t] = 0
    /\ timer' = [timer EXCEPT ![t] = Off]
    /\ StartSettle({t}, [u \in {t} |-> "EXPIRY"], price[ticket[t].sym])
    /\ UNCHANGED <<dbVars, price, recoverVars, live, place, runVars, lateVars>>

\* The timeout of scheduleSettlement.  A retry fires here too.
TimerFires(t) ==
    /\ timer[t] = 0
    /\ timer' = [timer EXCEPT ![t] = Off]
    /\ live' = live \ {t}
    /\ StartSettle({t}, [u \in {t} |-> "EXPIRY"], price[ticket[t].sym])
    /\ UNCHANGED <<dbVars, price, recoverVars, place, runVars, lateVars>>

\* fpesa_settle_trade: claim the row if it is open, mark it and pay, else nothing.
ProfitOf(t, exit) ==
    LET tk == ticket[t]
    IN  IF tk.kind = "DIGITAL"
        THEN DigitalProfit(tk.dir, tk.stake, tk.barrier, tk.maxProfit, exit)
        ELSE ScaledProfit(tk.dir, tk.stake, Multiplier[tk.dur], tk.entry,
                          tk.maxProfit, exit)
StatusOf(t, exit) ==
    IF ticket[t].kind = "DIGITAL"
    THEN DigitalStatus(ticket[t].dir, ticket[t].barrier, exit)
    ELSE ScaledStatus(ProfitOf(t, exit))

CloseRow(t, c) ==
    LET profit == ProfitOf(t, c.exit)
        payout == IF ticket[t].stake + profit < 0 THEN 0 ELSE ticket[t].stake + profit
    IN  /\ status' = [status EXCEPT ![t] = StatusOf(t, c.exit)]
        /\ outcome' = [outcome EXCEPT ![t] =
              [reason |-> c.reason, exit |-> c.exit, profit |-> profit]]
        /\ balance' = [balance EXCEPT ![ticket[t].acct] = @ + payout]
        /\ UNCHANGED <<ticket, left, runOf, runs>>

\* Mutant: the row is not claimed first.
SettleRowUnclaimed(t, c) == CloseRow(t, c)

SettleRow(t, c) == IF status[t] = "OPEN" THEN CloseRow(t, c) ELSE UNCHANGED dbVars

SettleExec(t) ==
    /\ settling[t] = "sent"
    /\ SettleRow(t, close[t])
    /\ settling' = [settling EXCEPT ![t] =
                       IF status[t] = "OPEN" THEN "done" ELSE "already"]
    /\ UNCHANGED <<price, recoverVars, watchVars, place, close, runVars, lateVars>>

\* settle returns: recoverOpenTrades may go on if it was waiting for this one.
SettleReturns(t) ==
    /\ settling' = [settling EXCEPT ![t] = "idle"]
    /\ close' = [close EXCEPT ![t] = NoClose]
    /\ awaiting' = awaiting \ {t}

\* Mutant: a failed settlement is not tried again.
SettleErrorDropped(t) ==
    /\ \/ "rpcError" \in Faults /\ settling[t] = "sent"
       \/ "settleReplyLost" \in Faults /\ settling[t] \in {"done", "already"}
    /\ SettleReturns(t)
    /\ UNCHANGED <<dbVars, price, phase, restarts, todo, watchVars, place, runVars,
                   lateVars>>

\* The call fails, executed or not: try again shortly.
SettleError(t) ==
    /\ \/ "rpcError" \in Faults /\ settling[t] = "sent"
       \/ "settleReplyLost" \in Faults /\ settling[t] \in {"done", "already"}
    /\ SettleReturns(t)
    /\ Schedule(t, RetryDelay)
    /\ UNCHANGED <<dbVars, price, phase, restarts, todo, live, place, runVars,
                   lateVars>>

\* Mutant: the run is told what the leg paid out, the stake included.
SettleReplyGross(t) ==
    /\ settling[t] \in {"done", "already"}
    /\ SettleReturns(t)
    /\ IF settling[t] = "done" /\ runOf[t] # NoRun
       THEN /\ runStep' = [runStep EXCEPT ![runOf[t]] = "advancing"]
            /\ runProfit' = [runProfit EXCEPT ![runOf[t]] = outcome[t].profit + ticket[t].stake]
       ELSE UNCHANGED runVars
    /\ UNCHANGED <<dbVars, price, phase, restarts, todo, watchVars, place, lateVars>>

\* A settled leg starts advanceRun; a trade settled already does nothing more.
SettleReply(t) ==
    /\ settling[t] \in {"done", "already"}
    /\ SettleReturns(t)
    /\ IF settling[t] = "done" /\ runOf[t] # NoRun
       THEN /\ runStep' = [runStep EXCEPT ![runOf[t]] = "advancing"]
            /\ runProfit' = [runProfit EXCEPT ![runOf[t]] = outcome[t].profit]
       ELSE UNCHANGED runVars
    /\ UNCHANGED <<dbVars, price, phase, restarts, todo, watchVars, place, lateVars>>

-----------------------------------------------------------------------------
(* Auto-runs *)

\* startRun writes the run.  Losing that reply ends it: RUN_FAILED.
StartRun(r) ==
    /\ phase = "up"
    /\ runs[r].status = "NONE"
    /\ \E plan \in Plans, n \in RunLengths :
          runs' = [runs EXCEPT ![r] = [status |-> "RUNNING", total |-> n,
                                       completed |-> 0, net |-> 0, plan |-> plan]]
    /\ \/ runStep' = [runStep EXCEPT ![r] = "leg"]
       \/ "runReplyLost" \in Faults /\ UNCHANGED runStep
    /\ UNCHANGED <<balance, status, ticket, left, outcome, runOf, price, recoverVars,
                   watchVars, place, settleVars, runProfit, lateVars>>

\* The next leg is placed: the same ticket, at the price of the moment.
PlaceLeg(r, t) ==
    /\ runStep[r] = "leg"
    /\ LET plan == runs[r].plan
       IN  \E d \in Directions, e \in Edges :
             /\ plan.dir \in {d, "AUTO"}
             /\ SendPlace(t, NewTicket(plan.acct, plan.sym, d, "SCALED", plan.stake,
                                       plan.dur, e, r))
    /\ runStep' = [runStep EXCEPT ![r] = "placing"]
    /\ UNCHANGED <<balance, status, left, outcome, runOf, runs, price, recoverVars,
                   watchVars, settleVars, runProfit, lateVars>>

\* placeTrade throws before it reaches the database: the desk has closed.
LegRefused(r) ==
    /\ runStep[r] = "leg"
    /\ runs[r].plan.acct \in RealAccounts
    /\ runStep' = [runStep EXCEPT ![r] = "aborting"]
    /\ UNCHANGED <<dbVars, price, recoverVars, watchVars, place, settleVars,
                   runProfit, lateVars>>

\* fpesa_abort_run.  Its error is not looked at.
AbortRow(r) == runs' = [runs EXCEPT ![r].status = IF @ = "RUNNING" THEN "ABORTED" ELSE @]

AbortRun(r) ==
    /\ runStep[r] = "aborting"
    /\ \/ AbortRow(r)
       \/ "rpcError" \in Faults /\ UNCHANGED runs
    /\ runStep' = [runStep EXCEPT ![r] = "idle"]
    /\ UNCHANGED <<balance, status, ticket, left, outcome, runOf, price, recoverVars,
                   watchVars, place, settleVars, runProfit, lateVars>>

\* fpesa_advance_run: a run no longer running is stale; otherwise the leg is
\* counted, and the run is done after its last.
AdvanceRow(r) ==
    IF runs[r].status # "RUNNING" THEN UNCHANGED runs
    ELSE runs' = [runs EXCEPT
            ![r].completed = @ + 1,
            ![r].net = @ + runProfit[r],
            ![r].status = IF runs[r].completed + 1 >= runs[r].total THEN "DONE" ELSE @]

AdvanceExec(r) ==
    /\ runStep[r] = "advancing"
    /\ AdvanceRow(r)
    /\ runStep' = [runStep EXCEPT ![r] =
                      IF runs'[r].status = "RUNNING" THEN "leg" ELSE "idle"]
    /\ UNCHANGED <<balance, status, ticket, left, outcome, runOf, price, recoverVars,
                   watchVars, place, settleVars, runProfit, lateVars>>

\* An error is logged and the run is left as it is.
AdvanceError(r) ==
    /\ runStep[r] = "advancing"
    /\ \/ "rpcError" \in Faults /\ UNCHANGED runs
       \/ "runReplyLost" \in Faults /\ AdvanceRow(r)
    /\ runStep' = [runStep EXCEPT ![r] = "idle"]
    /\ UNCHANGED <<balance, status, ticket, left, outcome, runOf, price, recoverVars,
                   watchVars, place, settleVars, runProfit, lateVars>>

-----------------------------------------------------------------------------
(* Stopping, dying and coming back *)

\* SIGTERM: stop() forgets every timer and every watched position; calls in
\* flight go on.
Shutdown ==
    /\ phase = "up"
    /\ restarts < MaxRestarts
    /\ phase' = "stopping"
    /\ restarts' = restarts + 1
    /\ timer' = [t \in Trades |-> Off]
    /\ live' = {}
    /\ UNCHANGED <<dbVars, price, todo, awaiting, place, settleVars, runVars, lateVars>>

\* The memory of the process is gone.  Of its unexecuted requests, some may yet
\* be executed.
Forget ==
    /\ phase' = "down"
    /\ todo' = {} /\ awaiting' = {} /\ live' = {}
    /\ timer' = [t \in Trades |-> Off]
    /\ place' = [t \in Trades |-> "idle"]
    /\ settling' = [t \in Trades |-> "idle"]
    /\ close' = [t \in Trades |-> NoClose]
    /\ runStep' = [r \in Runs |-> "idle"]
    /\ \E L \in SUBSET {t \in Trades : place[t] = "sent"} :
          /\ L = {} \/ "latePlace" \in Faults
          /\ latePlace' = latePlace \cup L
    /\ \E L \in SUBSET {t \in Trades : settling[t] = "sent"} :
          /\ L = {} \/ "lateSettle" \in Faults
          /\ lateSettle' = lateSettle \cup
                {[trade |-> t, reason |-> close[t].reason, exit |-> close[t].exit] : t \in L}
    /\ UNCHANGED <<dbVars, price, runProfit>>

Exit == phase = "stopping" /\ Forget /\ UNCHANGED restarts

Crash ==
    /\ "crash" \in Faults
    /\ phase \in {"recovering", "up"}
    /\ restarts < MaxRestarts
    /\ restarts' = restarts + 1
    /\ Forget

LatePlace(t) ==
    /\ t \in latePlace
    /\ latePlace' = latePlace \ {t}
    /\ \/ PlaceRow(t)
       \/ balance[ticket[t].acct] < ticket[t].stake /\ UNCHANGED dbVars
    /\ UNCHANGED <<price, recoverVars, watchVars, place, settleVars, runVars, lateSettle>>

LateSettle(c) ==
    /\ c \in lateSettle
    /\ lateSettle' = lateSettle \ {c}
    /\ SettleRow(c.trade, c)
    /\ UNCHANGED <<price, recoverVars, watchVars, place, settleVars, runVars, latePlace>>

\* start() loads the open trades.
Boot ==
    /\ phase = "down"
    /\ phase' = "recovering"
    /\ todo' = {t \in Trades : status[t] = "OPEN"}
    /\ UNCHANGED <<dbVars, price, restarts, awaiting, watchVars, place, settleVars,
                   runVars, lateVars>>

\* ... or fails to, and goes on without them.
BootLoadFails ==
    /\ "loadFails" \in Faults
    /\ phase = "down"
    /\ phase' = "up"
    /\ UNCHANGED <<dbVars, price, restarts, todo, awaiting, watchVars, place,
                   settleVars, runVars, lateVars>>

\* Mutants: a recovered trade is not watched; it is not scheduled.
RewatchBlind(t) == UNCHANGED live /\ Schedule(t, left[t])
RewatchUntimed(t) == Track(t) /\ UNCHANGED timer

\* A recovered trade that has time left.
Rewatch(t) == Track(t) /\ Schedule(t, left[t])

\* One row of the loop of recoverOpenTrades: an expired trade is settled and
\* awaited, any other is watched again.
RecoverRow(t) ==
    /\ phase = "recovering"
    /\ awaiting = {}
    /\ t \in todo
    /\ todo' = todo \ {t}
    /\ IF left[t] = 0
       THEN /\ awaiting' = {t}
            /\ StartSettle({t}, [u \in {t} |-> "EXPIRY"], price[ticket[t].sym])
            /\ live' = live \ {t}
            /\ UNCHANGED timer
       ELSE Rewatch(t) /\ UNCHANGED <<awaiting, settleVars>>
    /\ UNCHANGED <<dbVars, price, phase, restarts, place, runVars, lateVars>>

\* The engine subscribes to ticks and the server listens.
RecoverDone ==
    /\ phase = "recovering"
    /\ todo = {} /\ awaiting = {}
    /\ phase' = "up"
    /\ UNCHANGED <<dbVars, price, restarts, todo, awaiting, watchVars, place,
                   settleVars, runVars, lateVars>>

-----------------------------------------------------------------------------
(* Time, and the other writer of a balance *)

Elapse ==
    /\ \E t \in Trades : timer[t] > 0 \/ (status[t] = "OPEN" /\ left[t] > 0)
    /\ left' = [t \in Trades |-> IF status[t] = "OPEN" /\ left[t] > 0
                                 THEN left[t] - 1 ELSE left[t]]
    /\ timer' = [t \in Trades |-> IF timer[t] > 0 THEN timer[t] - 1 ELSE timer[t]]
    /\ UNCHANGED <<balance, status, ticket, outcome, runOf, runs, price, recoverVars,
                   live, place, settleVars, runVars, lateVars>>

\* POST /auth/demo/reset overwrites a demo balance, whatever is open.
DemoReset(a) ==
    /\ phase = "up"
    /\ a \in Accounts \ RealAccounts
    /\ balance' = [balance EXCEPT ![a] = StartBalance]
    /\ UNCHANGED <<status, ticket, left, outcome, runOf, runs, price, recoverVars,
                   watchVars, place, settleVars, runVars, lateVars>>

-----------------------------------------------------------------------------
Init ==
    /\ balance = [a \in Accounts |-> StartBalance]
    /\ status = [t \in Trades |-> "NONE"]
    /\ ticket = [t \in Trades |-> NoTicket]
    /\ left = [t \in Trades |-> 0]
    /\ outcome = [t \in Trades |-> NoOutcome]
    /\ runOf = [t \in Trades |-> NoRun]
    /\ runs = [r \in Runs |-> [status |-> "NONE", total |-> 0, completed |-> 0,
                               net |-> 0, plan |-> NoTicket]]
    /\ price \in [Symbols -> Prices]
    /\ phase = "up" /\ restarts = 0 /\ todo = {} /\ awaiting = {}
    /\ timer = [t \in Trades |-> Off] /\ live = {}
    /\ place = [t \in Trades |-> "idle"]
    /\ settling = [t \in Trades |-> "idle"]
    /\ close = [t \in Trades |-> NoClose]
    /\ runStep = [r \in Runs |-> "idle"] /\ runProfit = [r \in Runs |-> 0]
    /\ latePlace = {} /\ lateSettle = {}

PlaceStep(t) ==
    PlaceExec(t) \/ PlaceRefused(t) \/ PlaceReplyLost(t) \/ PlaceReply(t)
    \/ LinkExec(t) \/ LinkError(t) \/ LinkReply(t)
SettleStep(t) ==
    TimerFires(t) \/ SettleExec(t) \/ SettleError(t) \/ SettleReply(t)
RunStep(r) ==
    LegRefused(r) \/ AbortRun(r) \/ AdvanceExec(r) \/ AdvanceError(r)

Next ==
    \/ \E t \in Trades : PlaceTrade(t) \/ PlaceStep(t) \/ SettleStep(t)
                         \/ LatePlace(t) \/ RecoverRow(t)
    \/ \E r \in Runs : StartRun(r) \/ RunStep(r)
    \/ \E r \in Runs, t \in Trades : PlaceLeg(r, t)
    \/ \E s \in Symbols, p \in Prices : Tick(s, p)
    \/ \E c \in lateSettle : LateSettle(c)
    \/ \E a \in Accounts : DemoReset(a)
    \/ Shutdown \/ Exit \/ Crash \/ Boot \/ BootLoadFails \/ RecoverDone \/ Elapse

Spec == Init /\ [][Next]_vars

\* Timers come due, calls return and the platform restarts the process.  A
\* settlement may fail again and again, but not every time it is tried.
Fairness ==
    /\ WF_vars(Elapse) /\ WF_vars(Boot) /\ WF_vars(RecoverDone) /\ WF_vars(Exit)
    /\ \A t \in Trades :
          /\ WF_vars(PlaceExec(t) \/ PlaceRefused(t)) /\ WF_vars(PlaceReply(t))
          /\ WF_vars(LinkExec(t)) /\ WF_vars(LinkReply(t))
          /\ WF_vars(TimerFires(t)) /\ SF_vars(SettleExec(t))
          /\ WF_vars(SettleReply(t)) /\ WF_vars(RecoverRow(t))
    /\ \A r \in Runs :
          /\ WF_vars(AbortRun(r)) /\ WF_vars(AdvanceExec(r))
          /\ WF_vars(LegRefused(r) \/ \E t \in Trades : PlaceLeg(r, t))

FairSpec == Spec /\ Fairness

-----------------------------------------------------------------------------
(* Properties *)

\* Every variable is of the shape the code gives it.
TypeOK ==
    /\ balance \in [Accounts -> Nat]
    /\ status \in [Trades -> Settled \cup {"NONE", "OPEN"}]
    /\ ticket \in [Trades -> Tickets \cup {NoTicket}]
    /\ left \in [Trades -> Nat]
    /\ outcome \in [Trades -> [reason : OpenReasons \cup {"NONE"}, exit : Int,
                               profit : Int]]
    /\ runOf \in [Trades -> Runs \cup {NoRun}]
    /\ runs \in [Runs -> [status : {"NONE", "RUNNING", "DONE", "ABORTED"},
                          total : Nat, completed : Nat, net : Int,
                          plan : Plans \cup {NoTicket}]]
    /\ price \in [Symbols -> Prices]
    /\ phase \in {"down", "recovering", "up", "stopping"}
    /\ restarts \in Nat
    /\ todo \subseteq Trades /\ awaiting \subseteq Trades
    /\ timer \in [Trades -> Nat \cup {Off}]
    /\ live \subseteq Trades
    /\ place \in [Trades -> {"idle", "sent", "placed", "linking", "linked"}]
    /\ settling \in [Trades -> {"idle", "sent", "done", "already"}]
    /\ close \in [Trades -> [reason : OpenReasons \cup {"NONE"}, exit : Int]]
    /\ runStep \in [Runs -> {"idle", "leg", "placing", "advancing", "aborting"}]
    /\ runProfit \in [Runs -> Int]
    /\ latePlace \subseteq Trades
    /\ lateSettle \subseteq [trade : Trades, reason : OpenReasons \cup {"NONE"},
                             exit : Int]

\* Real money is neither made nor lost: a real balance is what it started at,
\* less the stakes at risk, plus the results booked (fpesa_place_trade and
\* fpesa_settle_trade under every retry, restart and late request).
MoneyConserved ==
    \A a \in RealAccounts :
        LET mine(S) == {t \in Trades : status[t] \in S /\ ticket[t].acct = a}
            stakes == SumFunction([t \in mine({"OPEN"}) |-> ticket[t].stake])
            results == SumFunction([t \in mine(Settled) |-> outcome[t].profit])
        IN  balance[a] = StartBalance - stakes + results

\* A position can lose its stake and no more, and win its ceiling and no more,
\* at whatever price it is closed (and so no balance goes below zero).
LossBounded ==
    \A t \in Trades : status[t] \in Settled =>
        outcome[t].profit \in -ticket[t].stake .. ticket[t].maxProfit

\* "Settlement is idempotent": once settled, a trade never changes again and no
\* later settlement of it pays.
SettledOnce ==
    [][\A t \in Trades : status[t] \in Settled =>
          /\ status'[t] = status[t] /\ outcome'[t] = outcome[t]
          /\ settling'[t] # settling[t] => settling'[t] # "done"]_vars

\* settle is in flight at most once per process: while it is, no timer and no
\* price level can start it again, and nothing that waits to be recovered has a
\* timer.
SingleSettler ==
    \A t \in Trades :
        /\ (settling[t] # "idle" \/ t \in todo) => (timer[t] = Off /\ t \notin live)
        /\ t \in todo => (settling[t] = "idle" /\ place[t] = "idle")

\* "A restart must not strand money in OPEN trades": the running engine always
\* holds something that will close an open row.
NoStrandedTrade ==
    phase \in {"recovering", "up"} =>
        \A t \in Trades : status[t] = "OPEN" =>
            \/ t \in todo
            \/ timer[t] # Off
            \/ settling[t] # "idle"
            \/ place[t] \in {"placed", "linking", "linked"}

\* An open position that has exit levels and a timer is also watched on every
\* tick, after a restart too.
LevelsWatched ==
    \A t \in Trades :
        (status[t] = "OPEN" /\ timer[t] # Off /\ ticket[t].stop # NoLevel) => t \in live

\* "expiry -- the duration elapses": nothing is booked as expired while time is
\* left on it.
ExpiryNotEarly ==
    \A t \in Trades :
        status[t] \in Settled /\ outcome[t].reason = "EXPIRY" => left[t] = 0

\* A position booked as stopped out was at or past its stop, one booked as a
\* take-profit was at or past its target and not its stop, a fixed-payout position
\* only ever expires, and while no call fails nothing expires with time left on it.
ExitMatchesReason ==
    \A t \in Trades : status[t] \in Settled =>
        LET tk == ticket[t]  o == outcome[t]
        IN  /\ o.reason = "STOP_OUT" => HitStop(tk.dir, o.exit, tk.stop)
            /\ o.reason = "TAKE_PROFIT" =>
                  HitTarget(tk.dir, o.exit, tk.target) /\ ~HitStop(tk.dir, o.exit, tk.stop)
            /\ tk.kind = "DIGITAL" => o.reason = "EXPIRY"
            /\ "rpcError" \notin Faults => ExpiryNotEarly

\* Each leg of a run opens only once the previous has settled.
LegsInTurn ==
    \A r \in Runs :
        Cardinality({t \in Trades : /\ ticket[t] # NoTicket /\ ticket[t].run = r
                                    /\ (status[t] = "OPEN" \/ place[t] # "idle")}) <= 1

\* What a run reports is what its legs did: it never counts a leg twice, and
\* one that is done has booked every leg and the sum of their results.
RunTally ==
    \A r \in Runs :
        LET legs == {t \in Trades : runOf[t] = r /\ status[t] \in Settled}
        IN  /\ runs[r].completed <= Cardinality(legs)
            /\ runs[r].status = "DONE" =>
                  /\ runs[r].completed = runs[r].total
                  /\ Cardinality(legs) = runs[r].total
                  /\ runs[r].net = SumFunction([t \in legs |-> outcome[t].profit])

\* A run plays its legs one at a time, and reports each of them once.
RunHonest == LegsInTurn /\ RunTally

\* "... rather than leave a RUNNING row that nothing will ever advance": while
\* the engine is up, a running run is being worked on or has a leg that is.
NoStrandedRun ==
    phase = "up" =>
        \A r \in Runs : runs[r].status = "RUNNING" =>
            \/ runStep[r] # "idle"
            \/ \E t \in Trades : /\ runOf[t] = r
                                  /\ (status[t] = "OPEN" \/ settling[t] = "done")

\* "The tick monitor closes it the moment the barrier is crossed": no watched
\* position is at or past a level once a tick has been handled.
LiveInsideLevels ==
    phase = "up" => \A t \in live : ~Reached(t, price[ticket[t].sym])

\* "a restart mid-trade cannot ... let a position run past its stop-out": no
\* position that recovery has put back on watch is past its stop.
RecoveryHonoursStops ==
    phase = "recovering" => \A t \in live : ~Stopped(t, price[ticket[t].sym])

\* A stake at risk is always resolved in the end.
EveryTradeSettles ==
    \A t \in Trades : status[t] = "OPEN" ~> status[t] \in Settled

\* A run that nothing interrupts ends.
EveryRunEnds ==
    \A r \in Runs : runs[r].status = "RUNNING" ~> runs[r].status \in {"DONE", "ABORTED"}
=============================================================================
