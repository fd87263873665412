------------------------------ MODULE PriceFeed ------------------------------
(***************************************************************************)
(* One instrument's price and its charts (services/prices.ts): a price that   *)
(* moves every tick, by the engine or, in live mode, on a walk about quotes   *)
(* that are fetched from upstream, and a list of bars for each timeframe,     *)
(* painted with made-up history at first and folded from ticks after that.    *)
(*                                                                         *)
(* How far a tick moves the price is left open.  Made-up bars are flat.       *)
(***************************************************************************)
EXTENDS Integers, Sequences

CONSTANTS
    Modes,          \* of env.priceMode: "synthetic", "live"
    FeedPrices,     \* what a price may be
    FirstPrice,     \* instrument.basePrice
    Frames,         \* TF_SECONDS
    MaxBars,        \* MAX_BARS
    SnapNum, SnapDen, \* SNAP_THRESHOLD
    MaxSecond,      \* bound on the time
    Lag             \* bound on the seconds from a tick to the next

ASSUME FeedAssumption ==
    /\ Modes \subseteq {"synthetic", "live"}
    /\ FeedPrices \subseteq Nat \ {0} /\ FirstPrice \in FeedPrices
    /\ Frames \subseteq Nat \ {0} /\ MaxBars \in Nat \ {0}
    /\ \A f, g \in Frames : f <= g => g % f = 0
    /\ SnapNum \in Nat /\ SnapDen \in Nat \ {0}
    /\ MaxSecond \in Nat /\ Lag \in Nat

VARIABLES
    mode,
    second,     \* Date.now(), in seconds
    price, dayOpen,
    anchored,   \* a quote has been applied; from the start in synthetic mode
    ticking,    \* the tick timer runs
    bars,       \* candles, by timeframe
    painted     \* the second history was last made up in

feedVars == <<mode, second, price, dayOpen, anchored, ticking, bars, painted>>

-----------------------------------------------------------------------------
(* Bars *)

Bucket(frame, t) == (t \div frame) * frame
Bar(t, open, p) == [time |-> t, open |-> open, high |-> p, low |-> p, close |-> p]

\* seedHistory: the last bar is the running one, and closes at the price.
Painted(frame, p, t) ==
    [k \in 1..MaxBars |-> Bar(Bucket(frame, t) - (MaxBars - k) * frame, p, p)]
PaintHistory(p) ==
    /\ bars' = [f \in Frames |-> Painted(f, p, second)]
    /\ painted' = second

\* A bar that is running when a tick comes.
Widened(bar, p) ==
    [bar EXCEPT !.close = p, !.high = IF p > @ THEN p ELSE @, !.low = IF p < @ THEN p ELSE @]

Capped(list) == IF Len(list) > MaxBars THEN Tail(list) ELSE list

\* Mutant: a bar runs for its length from the tick that opened it.
BarRunsOn(list, frame, p, t) ==
    LET bar == list[Len(list)]
    IN  IF t < bar.time + frame THEN [list EXCEPT ![Len(list)] = Widened(bar, p)]
        ELSE Capped(Append(list, Bar(t, bar.close, p)))

\* applyToCandles, of one timeframe.
WithTick(list, frame, p, t) ==
    LET bar == list[Len(list)]
    IN  IF bar.time = Bucket(frame, t) THEN [list EXCEPT ![Len(list)] = Widened(bar, p)]
        ELSE Capped(Append(list, Bar(Bucket(frame, t), bar.close, p)))

-----------------------------------------------------------------------------
(* The feed *)

\* tick: advance, then the bars of every timeframe.
FeedTick(p) ==
    /\ ticking
    /\ \E n \in 0..Lag : second + n <= MaxSecond /\ second' = second + n
    /\ price' = p
    /\ bars' = [f \in Frames |-> WithTick(bars[f], f, p, second')]
    /\ UNCHANGED <<mode, dayOpen, anchored, ticking, painted>>

\* applyUpstream: a gap too large to glide over is jumped, and history painted anew.
ApplyUpstream(p) ==
    LET gap == IF p > price THEN p - price ELSE price - p
        jumps == ~anchored \/ gap * SnapDen > SnapNum * p
    IN  /\ anchored' = TRUE
        /\ price' = IF jumps THEN p ELSE price
        /\ dayOpen' = IF anchored THEN dayOpen ELSE p
        /\ IF jumps THEN PaintHistory(p) ELSE UNCHANGED <<bars, painted>>

\* poll, or one of the attempts at the start: a failed fetch changes nothing.
QuoteArrives(p) ==
    /\ mode = "live"
    /\ ApplyUpstream(p)
    /\ UNCHANGED <<mode, second, ticking>>

\* fetchPreviousClose, before the timer is started, whether quotes came or not.
FeedStarts ==
    /\ ~ticking /\ ticking' = TRUE
    /\ \/ UNCHANGED dayOpen
       \/ mode = "live" /\ dayOpen' \in FeedPrices
    /\ UNCHANGED <<mode, second, price, anchored, bars, painted>>

-----------------------------------------------------------------------------
FeedInit ==
    /\ mode \in Modes /\ second = 0
    /\ price = FirstPrice /\ dayOpen = FirstPrice
    /\ anchored = (mode # "live") /\ ticking = FALSE
    /\ bars = [f \in Frames |-> Painted(f, FirstPrice, 0)] /\ painted = 0

FeedNext ==
    \/ FeedStarts
    \/ \E p \in FeedPrices : FeedTick(p) \/ QuoteArrives(p)

FeedSpec == FeedInit /\ [][FeedNext]_feedVars

-----------------------------------------------------------------------------
(* Properties *)

\* Every variable is of the shape the code gives it: of each timeframe as many bars
\* are kept as history was painted with, oldest first.
FeedTypeOK ==
    /\ mode \in {"synthetic", "live"} /\ second \in 0..MaxSecond /\ painted \in 0..second
    /\ price \in FeedPrices /\ dayOpen \in FeedPrices
    /\ anchored \in BOOLEAN /\ ticking \in BOOLEAN
    /\ \A f \in Frames :
          /\ Len(bars[f]) = MaxBars
          /\ \A k \in 1..MaxBars - 1 : bars[f][k].time < bars[f][k + 1].time

BarsOf(list) == {list[k] : k \in 1..MaxBars}

\* The finer bars within a bar, which are told apart by their times, have its extremes
\* between them; the first opens where it opens, the last closes where it closes.
Tell(within, bar) ==
    /\ within # {}
    /\ \A b \in within : bar.low <= b.low /\ b.high <= bar.high
    /\ \E b \in within : b.low = bar.low
    /\ \E b \in within : b.high = bar.high
    /\ \E b \in within : b.open = bar.open /\ \A c \in within : b.time <= c.time
    /\ \E b \in within : b.close = bar.close /\ \A c \in within : c.time <= b.time

\* The charts of two timeframes tell one story: every list ends at the price, and a bar
\* that was opened after history was last painted is told by the finer bars within it,
\* as long as they are kept.
BarsAgree ==
    /\ \A f \in Frames : bars[f][MaxBars].close = price
    /\ \A f, g \in Frames : f < g =>
          \A bar \in BarsOf(bars[g]) :
             bar.time > painted /\ bar.time >= bars[f][1].time
                => Tell({b \in BarsOf(bars[f]) : Bucket(g, b.time) = bar.time}, bar)
=============================================================================
