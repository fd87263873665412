------------------------------- MODULE Sandbox -------------------------------
(***************************************************************************)
(* The sandbox (services/sandbox.ts): a throwaway market whose seeds are on   *)
(* display, and paper positions on it.  The running epoch and the one after    *)
(* it are computed ahead; a price is read off by the clock.  Epochs that the   *)
(* clock has passed are rotated when something looks, and positions that are   *)
(* due are swept when their session is looked at: nothing here has a timer.    *)
(*                                                                         *)
(* Time is counted in ticks.  A call that reads the clock more than once may     *)
(* find it moved.                                                            *)
(***************************************************************************)
EXTENDS Pricing, SequencesExt

CONSTANTS
    PathOf(_, _, _),    \* replayEpoch: of a seed, an epoch's number and its start
    Seeds,              \* what randomBytes may give
    BasePrice,          \* of the instrument
    TicksPerEpoch,
    PaperIds,           \* bound on the positions of the session
    PaperStakes,        \* in shillings
    Durations,          \* ALLOWED_DURATIONS, in ticks
    PaperMultiplier, PaperEdge, PaperMost,  \* multiplierFor, env.houseEdge, env.maxProfitMultiple
    StartingBalance,    \* env.sandbox.startingBalance, in shillings
    MaxClosed,          \* how many closed positions a session keeps
    CallTicks,          \* bound on the ticks that pass during a call
    MaxClock            \* bound on the clock

ASSUME SandboxAssumption ==
    /\ BasePrice \in Nat \ {0} /\ TicksPerEpoch \in Nat \ {0} /\ MaxClock \in Nat /\ CallTicks \in Nat
    /\ PaperIds \subseteq Nat /\ IsFiniteSet(PaperIds)
    /\ PaperStakes \subseteq Nat \ {0} /\ StartingBalance \in Nat
    /\ MaxClosed \in Nat
    /\ PaperMultiplier \in Nat \ {0} /\ PaperEdge \in Nat /\ PaperMost \in Nat
    \* "so a 60s position never runs off the end"
    /\ Durations \in Seq(1..TicksPerEpoch) /\ Durations # <<>>

VARIABLES
    clock,
    epochSeed, nextSeed, epochNumber, startedAt, startPrice, path, nextPath,
    paperBalance,   \* of the session, in cents
    papers,         \* the positions by id, in the order they were opened: open, closed or NoPaper
    closedPapers    \* the closed ones the session has kept, the newest first

marketVars == <<epochSeed, nextSeed, epochNumber, startedAt, startPrice, path, nextPath>>
sessionVars == <<paperBalance, papers, closedPapers>>
sandboxVars == <<clock, marketVars, sessionVars>>

NoPaper == [status |-> "NONE"]
Horizons == ToSet(Durations)

-----------------------------------------------------------------------------
(* The market *)

\* priceAtTick, of a tick counted from the start of the running epoch.
PriceAtTick(k) ==
    IF k <= 0 THEN startPrice
    ELSE IF k <= Len(path) THEN path[k]
    ELSE nextPath[k - Len(path)]

Synced == clock - startedAt < TicksPerEpoch
TickIndex == clock - startedAt
PriceNow == PriceAtTick(TickIndex)

\* The ticks that are computed, by the clock.
Known == startedAt .. startedAt + 2 * TicksPerEpoch
PriceAt(t) == PriceAtTick(t - startedAt)

\* reveal: the seed of the running epoch, from which anyone can compute it, and of
\* the next one the commitment only.
Reveal == [epoch |-> epochNumber, seed |-> epochSeed, startPrice |-> startPrice,
           startedAt |-> startedAt, endsAt |-> startedAt + TicksPerEpoch, tick |-> TickIndex]

\* Mutant: the next epoch is computed under the running one's number.
RotateEpochSameNumber(start) ==
    /\ epochNumber' = epochNumber + 1
    /\ epochSeed' = nextSeed /\ nextSeed' \in Seeds
    /\ path' = PathOf(epochSeed', epochNumber', start)
    /\ nextPath' = PathOf(nextSeed', epochNumber', path'[TicksPerEpoch])

RotateEpoch(start) ==
    /\ epochNumber' = epochNumber + 1
    /\ epochSeed' = nextSeed /\ nextSeed' \in Seeds
    /\ path' = PathOf(epochSeed', epochNumber', start)
    /\ nextPath' = PathOf(nextSeed', epochNumber' + 1, path'[TicksPerEpoch])

\* sync, one turn of its loop: nothing is read until it has caught up.
SyncEpoch ==
    /\ ~Synced
    /\ startedAt' = startedAt + TicksPerEpoch
    /\ startPrice' = path[TicksPerEpoch]
    /\ RotateEpoch(path[TicksPerEpoch])
    /\ UNCHANGED <<clock, sessionVars>>

ClockTicks ==
    /\ clock < MaxClock
    /\ \E n \in 1 .. 3 * TicksPerEpoch : clock + n <= MaxClock /\ clock' = clock + n
    /\ UNCHANGED <<marketVars, sessionVars>>

-----------------------------------------------------------------------------
(* Paper positions *)

PaperStop(dir, entry) == StopOut(entry, dir, PaperMultiplier)
PaperTarget(dir, entry) == TakeProfit(entry, dir, PaperMultiplier, PaperMost)

\* resolve, of an entry at mid and the ticks after tick from: the first past a level,
\* stop-out before take-profit, or the last.
Resolve(dir, horizon, mid, from) ==
    LET entry == ApplySpread(mid, dir, PaperMultiplier, PaperEdge)
        stop == PaperStop(dir, entry)
        target == PaperTarget(dir, entry)
        Stopped(price) == HitStop(dir, price, stop)
        hit == {n \in 1..horizon :
                   LET price == PriceAtTick(from + n)
                   IN  Stopped(price) \/ HitTarget(dir, price, target)}
        ticks == IF hit = {} THEN horizon ELSE Min(hit)
        exit == PriceAtTick(from + ticks)
        raw == RoundHalfUp(100 * PaperMultiplier * Sign(dir) * (exit - entry), entry)
    IN  [dir |-> dir, horizon |-> horizon, entry |-> entry, exit |-> exit, ticks |-> ticks,
         reason |-> IF hit = {} THEN "EXPIRY" ELSE IF Stopped(exit) THEN "STOP_OUT" ELSE "TAKE_PROFIT",
         perUnit |-> Clamp(raw, -100, 100 * PaperMost)]

\* plays: every position that could be opened now, by duration and then by side.
Plays == [n \in 1 .. 2 * Len(Durations) |->
    Resolve(IF n % 2 = 1 THEN "BUY" ELSE "SELL", Durations[(n + 1) \div 2], PriceNow, TickIndex)]

\* The reduce of oracle and of predictions: ties break towards the shorter duration.
Best(plays) ==
    LET Better(b, a) == \/ b.perUnit > a.perUnit
                        \/ b.perUnit = a.perUnit /\ b.horizon < a.horizon
        best[n \in DOMAIN plays] ==
            LET a == best[n - 1]
                b == plays[n]
            IN  IF n = 1 \/ Better(b, a) THEN b ELSE a
    IN  best[Len(plays)]

\* oracle: what is shown of the market, now and ahead.
Oracle ==
    LET plays == Plays
    IN  [price |-> PriceNow, epoch |-> Reveal, plays |-> ToSet(plays), best |-> Best(plays),
         future |-> [n \in 1..(2 * TicksPerEpoch - TickIndex) |-> PriceAtTick(TickIndex + n)]]

\* predictions: where the market will be at each duration.  Their best is the oracle's.
Predictions == [h \in Horizons |-> PriceAtTick(TickIndex + h)]

\* sweep, before every read and write.
DuePapers == {i \in PaperIds : papers[i].status = "OPEN" /\ papers[i].settles <= clock}
SweptPapers == [i \in PaperIds |->
    IF i \in DuePapers THEN [papers[i] EXCEPT !.status = "CLOSED"] ELSE papers[i]]
\* Mutant: what comes back is the profit, and the stake is kept.
SweptBalanceNoStake == paperBalance + SumFunction([i \in DuePapers |-> papers[i].profit])

SweptBalance ==
    paperBalance + SumFunction([i \in DuePapers |-> 100 * papers[i].stake + papers[i].profit])

\* Those that are due go to the front one by one, in the order they were opened.
SweptClosed ==
    LET due == CHOOSE q \in [1..Cardinality(DuePapers) -> DuePapers] :
                  \A m, n \in DOMAIN q : m < n => q[m] > q[n]
        all == due \o closedPapers
    IN  SubSeq(all, 1, Min({MaxClosed, Len(all)}))

\* state, and an open that is refused.
SweepPapers ==
    /\ DuePapers # {}
    /\ papers' = SweptPapers /\ paperBalance' = SweptBalance /\ closedPapers' = SweptClosed
    /\ UNCHANGED <<clock, marketVars>>

\* open: the outcome is decided here, and shown when the position is swept.  The
\* clock is read for the price, for the ticks ahead and for the time of opening.
OpenPaper(i, dir, stake, horizon) ==
    /\ Synced
    /\ papers[i] = NoPaper /\ \A j \in 1..i-1 : papers[j] # NoPaper
    /\ 100 * stake <= SweptBalance
    /\ closedPapers' = SweptClosed
    /\ paperBalance' = SweptBalance - 100 * stake
    /\ \E ahead \in 0..CallTicks : \E opened \in ahead..CallTicks :
          LET play == Resolve(dir, horizon, PriceNow, TickIndex + ahead)
          IN  /\ clock + opened <= MaxClock /\ clock' = clock + opened
              /\ papers' = [SweptPapers EXCEPT ![i] =
                    [status |-> "OPEN", dir |-> dir, stake |-> stake,
                     entry |-> play.entry, exit |-> play.exit, reason |-> play.reason,
                     settles |-> clock' + play.ticks, profit |-> play.perUnit * stake,
                     predicted |-> play.perUnit * stake]]
    /\ UNCHANGED marketVars

\* state: the outcome of an open position is withheld, that of a closed one is beside
\* what was predicted.
SessionState ==
    LET open == {i \in PaperIds : papers[i].status = "OPEN"}
        Matches(i) == papers[i].predicted = papers[i].profit
    IN  [balance |-> paperBalance,
         open |-> [i \in open |-> [stake |-> papers[i].stake, predicted |-> papers[i].predicted]],
         closed |-> [n \in DOMAIN closedPapers |-> papers[closedPapers[n]]],
         checked |-> Len(closedPapers),
         matched |-> Cardinality({n \in DOMAIN closedPapers : Matches(closedPapers[n])})]

\* reset: the session starts again, and forgets what was open.
ResetPaper ==
    /\ papers' = [i \in PaperIds |-> NoPaper] /\ closedPapers' = <<>>
    /\ paperBalance' = 100 * StartingBalance
    /\ UNCHANGED <<clock, marketVars>>

-----------------------------------------------------------------------------
\* start: every market is seeded and rotated once.
SandboxInit ==
    /\ clock = 0 /\ startedAt = 0 /\ startPrice = BasePrice /\ epochNumber = 1
    /\ epochSeed \in Seeds /\ nextSeed \in Seeds
    /\ path = PathOf(epochSeed, 1, BasePrice)
    /\ nextPath = PathOf(nextSeed, 2, path[TicksPerEpoch])
    /\ paperBalance = 100 * StartingBalance
    /\ papers = [i \in PaperIds |-> NoPaper] /\ closedPapers = <<>>

SandboxNext ==
    \/ ClockTicks \/ SyncEpoch \/ SweepPapers \/ ResetPaper
    \/ \E i \in PaperIds, dir \in {"BUY", "SELL"}, stake \in PaperStakes, h \in Horizons :
          OpenPaper(i, dir, stake, h)

SandboxSpec == SandboxInit /\ [][SandboxNext]_sandboxVars

-----------------------------------------------------------------------------
(* Properties *)

\* Every variable is of the shape the code gives it, and no stake is more than the
\* balance it is taken from.
SandboxTypeOK ==
    /\ clock \in 0..MaxClock /\ startedAt \in 0..MaxClock /\ startedAt <= clock
    /\ Len(path) = TicksPerEpoch /\ Len(nextPath) = TicksPerEpoch
    /\ epochSeed \in Seeds /\ nextSeed \in Seeds /\ epochNumber = startedAt \div TicksPerEpoch + 1
    /\ paperBalance \in Nat
    /\ \A i \in PaperIds : papers[i].status \in {"NONE", "OPEN", "CLOSED"}
    /\ Len(closedPapers) <= MaxClosed /\ \A n \in DOMAIN closedPapers : papers[closedPapers[n]].status = "CLOSED"

\* A session's screen adds up: while no closed position has been dropped from it, the
\* balance and the stakes that are open are the starting balance and the profits shown,
\* whatever was swept, opened and looked at in which order; and what is shown of a
\* closed position is what was predicted when it was opened.
SessionAddsUp ==
    LET screen == SessionState
        stakes == SumFunction([i \in DOMAIN screen.open |-> 100 * screen.open[i].stake])
        profits == SumFunction([n \in DOMAIN screen.closed |-> screen.closed[n].profit])
        closed == {i \in PaperIds : papers[i].status = "CLOSED"}
    IN  /\ screen.matched = screen.checked
        /\ Len(screen.closed) = Cardinality(closed) =>
              screen.balance + stakes = 100 * StartingBalance + profits

\* The oracle can be checked by hand: the running epoch's ticks it shows are what its
\* revealed seed computes, every play leaves at the tick it shows, and no play is
\* better than the best, nor as good and over sooner.  Predictions show the same prices.
OracleTrue ==
    Synced =>
        LET o == Oracle
            computed == PathOf(o.epoch.seed, o.epoch.epoch, o.epoch.startPrice)
        IN  /\ \A k \in o.epoch.tick + 1 .. TicksPerEpoch : o.future[k - o.epoch.tick] = computed[k]
            /\ \A play \in o.plays : play.exit = o.future[play.ticks]
            /\ \A play \in o.plays : /\ play.perUnit <= o.best.perUnit
                                     /\ play.perUnit = o.best.perUnit => o.best.horizon <= play.horizon
            /\ \A h \in Horizons : Predictions[h] = o.future[h]

\* What the sandbox shows of a session and of its market can be checked against each other.
SandboxHonest == SessionAddsUp /\ OracleTrue

\* "Every future tick visible": a price that was shown ahead is the price when its
\* time comes, however many epochs the clock passes before anyone looks, and an open
\* position leaves at the price the market then has, or had when its call began.
ForeseenHappens ==
    /\ [][\A t \in Known \cap Known' : PriceAt(t)' = PriceAt(t)]_sandboxVars
    /\ [](\A i \in PaperIds :
            LET times == papers[i].settles - CallTicks .. papers[i].settles
            IN  papers[i].status = "OPEN" /\ times \subseteq Known =>
                   \E t \in times : PriceAt(t) = papers[i].exit)
=============================================================================
