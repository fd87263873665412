-------------------------------- MODULE Replay --------------------------------
(***************************************************************************)
(* What the sandbox makes of the live market's history: the cached read of    *)
(* its published epochs and the replay of one of them under other settings    *)
(* (services/sandbox-replay.ts), and the strategies that are tried on all of   *)
(* them together (services/sandbox-forecast.ts).                              *)
(*                                                                         *)
(* The live market is as SyntheticEngine and FairnessChain have it: an epoch's  *)
(* ticks follow from its seed, its number and its start, and its seed is       *)
(* published when it is over, unless the process was killed.  Time is counted   *)
(* in ticks, prices in the smallest step of the instrument.                     *)
(***************************************************************************)
EXTENDS Pricing, SequencesExt

CONSTANTS
    ReplayPath(_, _, _, _),     \* replayEpoch, of a seed, a number, a start and a multiple of sigma
    ReplaySeeds,                \* seeds of the live market
    ReplayBase,                 \* where it starts
    EpochTicks,                 \* ticks of an epoch
    ReplayHorizons,             \* ALLOWED_DURATIONS, in ticks
    ReplayMultiplier, ReplayEdge, ReplayMost,  \* of the live market
    SampleTicks,                \* worstCase and the strategies take every so many ticks
    KnobChoices,                \* what is asked for: shock, edge, most, scale and entry
    MaxLived,                   \* bound on the epochs the live market opens
    MaxCuts                     \* bound on those that are cut short by a restart

ASSUME ReplayAssumption ==
    /\ EpochTicks \in Nat \ {0} /\ ReplayHorizons \subseteq 1..EpochTicks
    /\ ReplaySeeds \subseteq Nat \ {0} /\ ReplayBase \in Nat \ {0}
    /\ ReplayMultiplier \in Nat \ {0} /\ ReplayEdge \in Nat /\ ReplayMost \in Nat \ {0}
    /\ SampleTicks \in Nat \ {0} /\ MaxLived \in Nat /\ MaxCuts \in Nat
    /\ KnobChoices \subseteq [shock : Int, edge : Int, most : Int, scale : Int, entry : Int]

VARIABLES
    lived,      \* the epochs of the live market, oldest first; the last one runs
    keptEpochs, \* the cache of sandbox-replay.ts
    keptIsFresh,
    study       \* the epoch and the settings last replayed, or NoStudy

replayVars == <<lived, keptEpochs, keptIsFresh, study>>

NoStudy == [knobs |-> {}]
Withheld == 0       \* no seed is published
FalseSeed == -1     \* one that its commitment does not fit

-----------------------------------------------------------------------------
(* The live market *)

Opened(n, seed, start) == [n |-> n, seed |-> seed, start |-> start, ticked |-> 0, published |-> Withheld]
Running == Last(lived)
TrueTicks(e) == SubSeq(ReplayPath(e.seed, e.n, e.start, 1), 1, e.ticked)
Traded == FlattenSeq([i \in DOMAIN lived |-> TrueTicks(lived[i])])

LiveTicks ==
    /\ Running.ticked < EpochTicks
    /\ lived' = [lived EXCEPT ![Len(lived)].ticked = @ + 1]
    /\ UNCHANGED <<keptEpochs, keptIsFresh, study>>

LiveRotates ==
    /\ Running.ticked = EpochTicks /\ Len(lived) < MaxLived
    /\ \E s \in ReplaySeeds :
          lived' = Append([lived EXCEPT ![Len(lived)].published = Running.seed],
                          Opened(Running.n + 1, s, Last(TrueTicks(Running))))
    /\ UNCHANGED <<keptEpochs, keptIsFresh, study>>

\* A restart: the epoch ends early, its seed is published, lost with the process, or
\* another's seed takes its place; prices begin again.
LiveRestarts ==
    /\ Len(lived) < MaxLived
    /\ Cardinality({i \in 1 .. Len(lived) - 1 : lived[i].ticked < EpochTicks}) < MaxCuts
    /\ \E s \in ReplaySeeds, seed \in {Running.seed, Withheld, FalseSeed} :
          lived' = Append([lived EXCEPT ![Len(lived)].published = seed],
                          Opened(Running.n + 1, s, ReplayBase))
    /\ UNCHANGED <<keptEpochs, keptIsFresh, study>>

-----------------------------------------------------------------------------
(* Reading it *)

\* "Every seed is re-hashed here and compared with the commitment."
Verified(e) == e.published = e.seed
Published ==
    LET shown == {i \in DOMAIN lived : Verified(lived[i])}
        order == CHOOSE q \in [1..Cardinality(shown) -> shown] :
                    \A m, n \in DOMAIN q : m < n => q[m] < q[n]
    IN  [m \in DOMAIN order |-> lived[order[m]]]

\* fetchEpochs: the cache for a minute, or what is served now; or the source fails.
Fetches(epochs) ==
    /\ epochs = IF keptIsFresh THEN keptEpochs ELSE Published
    /\ keptEpochs' = epochs /\ keptIsFresh' = TRUE
AskEpochs ==
    /\ Fetches(keptEpochs') /\ ~keptIsFresh
    /\ UNCHANGED <<lived, study>>
KeptAges == keptIsFresh /\ keptIsFresh' = FALSE /\ UNCHANGED <<lived, keptEpochs, study>>

-----------------------------------------------------------------------------
(* Replaying an epoch *)

ClampKnobs(k) ==
    [shock |-> Clamp(k.shock, 1, 100), edge |-> Clamp(k.edge, 0, 9000), most |-> Clamp(k.most, 1, 100),
     scale |-> Clamp(k.scale, 1, 100), entry |-> Clamp(k.entry, 0, EpochTicks - 1)]
LiveKnobs(entry) ==
    [shock |-> 1, edge |-> ReplayEdge, most |-> ReplayMost, scale |-> 1, entry |-> entry]
IsBaseline(k) == k = LiveKnobs(k.entry)

\* runReplay: 404 for an epoch that is not there.
FindEpoch(epochs, n) == {e \in ToSet(epochs) : e.n = n}
RunReplay(n, k) ==
    /\ Fetches(keptEpochs')
    /\ \E e \in FindEpoch(keptEpochs', n) : study' = [epoch |-> e, knobs |-> ClampKnobs(k)]
    /\ UNCHANGED lived

Rebuilt(e, shock) == ReplayPath(e.published, e.n, e.start, shock)
BasePath == Rebuilt(study.epoch, 1)
VariantPath == Rebuilt(study.epoch, study.knobs.shock)

LevelHit(dir, price, stop, target) == HitStop(dir, price, stop) \/ HitTarget(dir, price, target)

\* What one position is worth in the end, per hundred staked.
Worth(dir, mult, most, entry, exit) ==
    Clamp(RoundHalfUp(100 * mult * Sign(dir) * (exit - entry), entry), -100, 100 * most)

\* resolveOn: entered at the price standing at a tick, closed at the first past a level, or
\* at the horizon or the end of the path.
ResolveOn(path, at, horizon, dir, k) ==
    LET mult == ReplayMultiplier * k.scale
        entry == ApplySpread(IF at = 0 THEN path[1] ELSE path[at], dir, mult, k.edge)
        stop == StopOut(entry, dir, mult)
        target == TakeProfit(entry, dir, mult, k.most)
        last == Min({at + horizon, Len(path)})
        hits == {i \in at + 1 .. last : LevelHit(dir, path[i], stop, target)}
        closes == IF hits = {} THEN last ELSE Min(hits)
    IN  [entry |-> entry, exit |-> path[closes],
         reason |-> IF hits = {} THEN "EXPIRY"
                    ELSE IF HitStop(dir, path[closes], stop) THEN "STOP_OUT" ELSE "TAKE_PROFIT",
         worth |-> Worth(dir, mult, k.most, entry, path[closes])]

\* worstCase, over every SampleTicks-th tick.
Samples(path) == {i \in 0 .. Len(path) - 1 : i % SampleTicks = 0}
WorstCase(path, k) ==
    Max({ResolveOn(path, i, h, dir, k).worth : i \in Samples(path), h \in ReplayHorizons, dir \in {"BUY", "SELL"}})

\* describe.
Lowest(path) == Min(ToSet(path))
Highest(path) == Max(ToSet(path))

-----------------------------------------------------------------------------
(* Trying strategies on all of it *)

\* audit: every epoch whole, oldest first, one after another.
AuditSeries == FlattenSeq([i \in DOMAIN keptEpochs |-> Rebuilt(keptEpochs[i], 1)])

\* run: one sampled position of a strategy, held for a horizon that fits the series.
StrategyTrade(series, i, horizon, dir) ==
    LET entry == ApplySpread(series[i], dir, ReplayMultiplier, ReplayEdge)
        stop == StopOut(entry, dir, ReplayMultiplier)
        target == TakeProfit(entry, dir, ReplayMultiplier, ReplayMost)
        hits == {j \in i + 1 .. i + horizon : LevelHit(dir, series[j], stop, target)}
    IN  Worth(dir, ReplayMultiplier, ReplayMost, entry,
              series[IF hits = {} THEN i + horizon ELSE Min(hits)])

-----------------------------------------------------------------------------
ReplayInit ==
    /\ lived \in {<<Opened(1, s, ReplayBase)>> : s \in ReplaySeeds}
    /\ keptEpochs = <<>> /\ keptIsFresh = FALSE /\ study = NoStudy

ReplayNext ==
    \/ LiveTicks \/ LiveRotates \/ LiveRestarts \/ AskEpochs \/ KeptAges
    \/ \E n \in 1..MaxLived, k \in KnobChoices : RunReplay(n, k)

ReplaySpec == ReplayInit /\ [][ReplayNext]_replayVars

-----------------------------------------------------------------------------
(* Properties *)

\* Every variable is of the shape the code gives it, and what is kept is over.
ReplayTypeOK ==
    /\ \A i \in DOMAIN lived : lived[i].n = i /\ lived[i].ticked \in 0..EpochTicks
    /\ ToSet(keptEpochs) \subseteq ToSet(lived) \ {Running}
    /\ keptIsFresh \in BOOLEAN
    /\ study # NoStudy => study.epoch \in ToSet(lived) /\ study.knobs.entry \in 0 .. EpochTicks - 1

\* What the live book would have done with a position opened after tick i of a series:
\* at every tick that arrives it closes at a level, stop-out first, and at the last
\* for its time is up.
LiveTrade(series, i, horizon, dir) ==
    LET entry == ApplySpread(series[i], dir, ReplayMultiplier, ReplayEdge)
        stop == StopOut(entry, dir, ReplayMultiplier)
        target == TakeProfit(entry, dir, ReplayMultiplier, ReplayMost)
        Closed(reason, price) ==
            [entry |-> entry, exit |-> price, reason |-> reason,
             worth |-> Worth(dir, ReplayMultiplier, ReplayMost, entry, price)]
        after[t \in i .. i + horizon] ==
            IF t = i THEN {}
            ELSE IF after[t - 1] # {} THEN after[t - 1]
            ELSE IF HitStop(dir, series[t], stop) THEN {Closed("STOP_OUT", series[t])}
            ELSE IF HitTarget(dir, series[t], target) THEN {Closed("TAKE_PROFIT", series[t])}
            ELSE IF t = i + horizon THEN {Closed("EXPIRY", series[t])} ELSE {}
    IN  CHOOSE result \in after[i + horizon] : TRUE

\* "The baseline is the epoch exactly as it traded": of the ticks it lived, a replay at live
\* settings closes every position where and as the live book would have; the lowest and the
\* highest price hold all that traded, and the worst case all that could have been won on a
\* sampled tick.
ReplayIsHistory ==
    study # NoStudy =>
        LET ticks == TrueTicks(study.epoch)
            k == LiveKnobs(study.knobs.entry)
        IN  /\ SubSeq(BasePath, 1, Len(ticks)) = ticks
            /\ \A price \in ToSet(ticks) : price \in Lowest(BasePath) .. Highest(BasePath)
            /\ \A i \in DOMAIN ticks, h \in ReplayHorizons, dir \in {"BUY", "SELL"} :
                  i + h <= Len(ticks) =>
                      LET was == LiveTrade(ticks, i, h, dir)
                      IN  /\ i = k.entry => ResolveOn(BasePath, i, h, dir, k) = was
                          /\ i \in Samples(BasePath) => was.worth <= WorstCase(BasePath, k)
            /\ IsBaseline(study.knobs) => VariantPath = BasePath

\* "Every tick here actually traded": while no epoch was cut short or is left out, the
\* series strategies are tried on is what traded, and they earn what they would have.
AuditIsHistory ==
    LET series == AuditSeries
    IN  (\A i \in DOMAIN keptEpochs : keptEpochs[i].n = i /\ keptEpochs[i].ticked = EpochTicks) =>
            /\ series = SubSeq(Traded, 1, Len(series))
            /\ \A i \in DOMAIN series, h \in ReplayHorizons, dir \in {"BUY", "SELL"} :
                  i + h <= Len(series) =>
                      StrategyTrade(series, i, h, dir) = LiveTrade(Traded, i, h, dir).worth

\* What the sandbox says of history is what happened, by both its readings of it.
HistoryReplayed == ReplayIsHistory /\ AuditIsHistory
=============================================================================
