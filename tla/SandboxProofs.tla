----------------------------- MODULE SandboxProofs -----------------------------
(***************************************************************************)
(* Proofs about the sandbox: what it shows of the time to come comes true, a    *)
(* session's figures add up, the oracle is what its revealed seed computes, and   *)
(* a replay of a revealed epoch is what the live market traded.                  *)
(***************************************************************************)
EXTENDS SandboxService, SequenceTheorems, Arithmetic

-----------------------------------------------------------------------------
(* Sandbox: what it shows of the time to come comes true, for any seeds and any
   computation of prices that gives one for each tick, any number of positions and
   epochs passed, when a call takes a tick at most. *)

PathsWhole ==
    \A s \in Seeds, n \in Nat, start \in Nat \ {0} :
        PathOf(s, n, start) \in [1..TicksPerEpoch -> Nat \ {0}]

\* The two epochs that are computed are those their seeds make.
Made ==
    /\ clock \in Nat /\ startedAt \in Nat /\ startedAt <= clock /\ epochNumber \in Nat
    /\ epochSeed \in Seeds /\ nextSeed \in Seeds /\ startPrice \in Nat \ {0}
    /\ path \in [1..TicksPerEpoch -> Nat \ {0}]
    /\ path = PathOf(epochSeed, epochNumber, startPrice)
    /\ nextPath = PathOf(nextSeed, epochNumber + 1, path[TicksPerEpoch])

\* A time near which a position ends: the market is computed that far, and its price then is
\* the position's, unless the market has gone by it.
EndsAt(i, t) ==
    /\ t \in papers[i].settles - CallTicks .. papers[i].settles
    /\ t <= startedAt + 2 * TicksPerEpoch
    /\ t >= startedAt => PriceAt(t) = papers[i].exit
EndsAsSaid ==
    /\ papers \in [PaperIds -> {papers[i] : i \in PaperIds}]
    /\ \A i \in PaperIds :
          /\ papers[i].status \in {"NONE", "OPEN", "CLOSED"}
          /\ papers[i].status = "OPEN" =>
                "status" \in DOMAIN papers[i] /\ papers[i].settles \in Int /\ \E t \in Int : EndsAt(i, t)
SandboxInv == Made /\ EndsAsSaid

\* The computed price of each tick of the two epochs.
LEMMA PricedAhead ==
  ASSUME PathsWhole, SandboxAssumption, Made
  PROVE  /\ Len(path) = TicksPerEpoch /\ TicksPerEpoch \in Nat \ {0}
         /\ nextPath \in [1..TicksPerEpoch -> Nat \ {0}]
         /\ \A k \in Int : PriceAtTick(k) = IF k <= 0 THEN startPrice
                                            ELSE IF k <= TicksPerEpoch THEN path[k]
                                            ELSE nextPath[k - TicksPerEpoch]
<1>1. TicksPerEpoch \in Nat \ {0}
  BY DEF SandboxAssumption
<1>2. path \in Seq(Nat \ {0}) /\ Len(path) = TicksPerEpoch
  <2>1. path \in [1..TicksPerEpoch -> Nat \ {0}] BY DEF Made
  <2> QED BY <1>1, <2>1
<1>3. path[TicksPerEpoch] \in Nat \ {0}
  BY <1>1 DEF Made
<1>4. nextSeed \in Seeds /\ epochNumber + 1 \in Nat
  BY DEF Made
<1>5. PathOf(nextSeed, epochNumber + 1, path[TicksPerEpoch]) \in [1..TicksPerEpoch -> Nat \ {0}]
  BY <1>3, <1>4 DEF PathsWhole
<1> QED
  BY <1>1, <1>2, <1>5 DEF Made, PriceAtTick

\* When an epoch is rotated the next is the one that was shown.
LEMMA RotationKeeps ==
  ASSUME PathsWhole, SandboxAssumption, Made, SyncEpoch
  PROVE  /\ Made'
         /\ \A t \in startedAt + TicksPerEpoch .. startedAt + 2 * TicksPerEpoch :
               PriceAt(t)' = PriceAt(t)
<1>1. TicksPerEpoch \in Nat \ {0} /\ Len(path) = TicksPerEpoch
      /\ nextPath \in [1..TicksPerEpoch -> Nat \ {0}]
  BY PricedAhead
<1>2. path' = nextPath
  BY DEF SyncEpoch, RotateEpoch, Made
<1>3. path[TicksPerEpoch] \in Nat \ {0}
  BY <1>1 DEF Made
<1>4. Made'
  <2>1. clock' \in Nat /\ startedAt' \in Nat /\ startedAt' <= clock' /\ epochNumber' \in Nat
    BY <1>1 DEF SyncEpoch, RotateEpoch, Made, Synced
  <2>2. epochSeed' \in Seeds /\ nextSeed' \in Seeds /\ startPrice' \in Nat \ {0}
    BY <1>3 DEF SyncEpoch, RotateEpoch, Made
  <2>3. path' \in [1..TicksPerEpoch -> Nat \ {0}]
    BY <1>1, <1>2
  <2>4. path' = PathOf(epochSeed', epochNumber', startPrice')
    BY DEF SyncEpoch, RotateEpoch
  <2>5. nextPath' = PathOf(nextSeed', epochNumber' + 1, path'[TicksPerEpoch])
    BY DEF SyncEpoch, RotateEpoch
  <2> QED BY <2>1, <2>2, <2>3, <2>4, <2>5 DEF Made
<1>5. \A k \in Int : PriceAtTick(k) = IF k <= 0 THEN startPrice
                                      ELSE IF k <= TicksPerEpoch THEN path[k]
                                      ELSE nextPath[k - TicksPerEpoch]
  BY PricedAhead
<1>6. path' \in Seq(Nat \ {0}) /\ Len(path') = TicksPerEpoch
  BY <1>1, <1>2
<1>7. ASSUME NEW t \in startedAt + TicksPerEpoch .. startedAt + 2 * TicksPerEpoch
      PROVE  PriceAt(t)' = PriceAt(t)
  <2> DEFINE j == t - startedAt
  <2>1. startedAt \in Nat /\ t \in Int /\ j \in Int /\ TicksPerEpoch <= j /\ j <= 2 * TicksPerEpoch
    BY <1>1 DEF Made
  <2>2. t - startedAt' = j - TicksPerEpoch /\ startPrice' = path[TicksPerEpoch]
    BY <2>1, <1>1 DEF SyncEpoch
  <2>3. PriceAt(t)' = IF j - TicksPerEpoch <= 0 THEN startPrice'
                      ELSE IF j - TicksPerEpoch <= Len(path') THEN path'[j - TicksPerEpoch]
                      ELSE nextPath'[(j - TicksPerEpoch) - Len(path')]
    BY <2>2 DEF PriceAt, PriceAtTick
  <2>4. PriceAt(t) = IF j <= 0 THEN startPrice
                     ELSE IF j <= TicksPerEpoch THEN path[j] ELSE nextPath[j - TicksPerEpoch]
    BY <1>5, <2>1 DEF PriceAt
  <2> HIDE DEF j
  <2>5. CASE j = TicksPerEpoch
    BY <2>1, <2>2, <2>3, <2>4, <2>5, <1>1
  <2>6. CASE j > TicksPerEpoch
    BY <2>1, <2>3, <2>4, <2>6, <1>1, <1>2, <1>6
  <2> QED BY <2>1, <2>5, <2>6, <1>1
<1> QED BY <1>4, <1>7

\* Where the market is left alone its prices are.
LEMMA MarketKeeps ==
  ASSUME Made, UNCHANGED marketVars, clock' \in Nat, clock <= clock'
  PROVE  Made' /\ startedAt' = startedAt /\ \A t \in Int : PriceAt(t)' = PriceAt(t)
<1>1. Made'
  BY DEF Made, marketVars
<1>2. startedAt' = startedAt
  BY DEF marketVars
<1>3. \A t \in Int : PriceAt(t)' = PriceAt(t)
  BY DEF marketVars, PriceAt, PriceAtTick
<1> QED BY <1>1, <1>2, <1>3

\* "A 60s position never runs off the end."
LEMMA OfferedFit ==
  ASSUME SandboxAssumption, NEW horizon \in Horizons
  PROVE  horizon \in 1..TicksPerEpoch
<1>1. Durations \in Seq(1..TicksPerEpoch)
  BY DEF SandboxAssumption
<1>2. PICK n \in DOMAIN Durations : horizon = Durations[n]
  BY DEF Horizons, ToSet
<1> QED BY <1>1, <1>2

\* Of some of the numbers up to n, Min is one.
LEMMA LeastOf ==
  ASSUME NEW n \in Nat, NEW S \in SUBSET (1..n), S # {}
  PROVE  Min(S) \in S
<1>1. \E k \in S : \A m \in S : k =< m
  BY LeastNumber
<1> QED BY <1>1 DEF Min

\* A position leaves at one of the ticks it was opened for, at the price shown for it.
LEMMA ResolvedAhead ==
  ASSUME NEW dir, NEW horizon \in Nat \ {0}, NEW mid, NEW from \in Int
  PROVE  /\ Resolve(dir, horizon, mid, from).ticks \in 1..horizon
         /\ Resolve(dir, horizon, mid, from).exit
               = PriceAtTick(from + Resolve(dir, horizon, mid, from).ticks)
<1> DEFINE entry == ApplySpread(mid, dir, PaperMultiplier, PaperEdge)
           Stopped(p) == HitStop(dir, p, PaperStop(dir, entry))
           hit == {n \in 1..horizon :
                      LET p == PriceAtTick(from + n)
                      IN  Stopped(p) \/ HitTarget(dir, p, PaperTarget(dir, entry))}
           ticks == IF hit = {} THEN horizon ELSE Min(hit)
<1>1. hit \in SUBSET Nat /\ hit \subseteq 1..horizon
  OBVIOUS
<1>2. ticks \in 1..horizon
  <2> HIDE DEF hit
  <2>1. ASSUME hit # {} PROVE Min(hit) \in 1..horizon BY <1>1, <2>1, LeastOf
  <2>2. horizon \in 1..horizon OBVIOUS
  <2> QED BY <2>1, <2>2
<1>3. Resolve(dir, horizon, mid, from).ticks = ticks
  BY DEF Resolve
<1>4. Resolve(dir, horizon, mid, from).exit = PriceAtTick(from + ticks)
  BY DEF Resolve
<1> HIDE DEF ticks
<1> QED BY <1>2, <1>3, <1>4

\* Later starts reach no less far.
LEMMA NoSooner ==
  ASSUME NEW a \in Int, NEW b \in Int, a <= b, NEW n \in Int, NEW t \in Int, t <= a + 2 * n
  PROVE  t <= b + 2 * n
  OBVIOUS

\* What a position is said to leave at holds where the market's computed prices do.
LEMMA SaidKeeps ==
  ASSUME Made, EndsAsSaid, SandboxAssumption, PathsWhole,
         startedAt' \in Nat, startedAt <= startedAt',
         \A t \in Int : t >= startedAt' /\ t <= startedAt + 2 * TicksPerEpoch => PriceAt(t)' = PriceAt(t),
         papers' \in [PaperIds -> {papers'[i] : i \in PaperIds}],
         \A i \in PaperIds :
            /\ papers'[i].status \in {"NONE", "OPEN", "CLOSED"}
            /\ papers'[i].status = "OPEN" =>
                  \/ papers'[i] = papers[i]
                  \/ /\ "status" \in DOMAIN papers'[i] /\ papers'[i].settles \in Int
                     /\ \E t \in Int : EndsAt(i, t)'
  PROVE  EndsAsSaid'
<1> SUFFICES ASSUME NEW i \in PaperIds, papers'[i].status = "OPEN", papers'[i] = papers[i]
             PROVE  "status" \in DOMAIN papers'[i] /\ papers'[i].settles \in Int /\ \E t \in Int : EndsAt(i, t)'
  BY DEF EndsAsSaid
<1>1. "status" \in DOMAIN papers[i] /\ papers[i].settles \in Int
  BY DEF EndsAsSaid
<1>2. PICK t \in Int : EndsAt(i, t)
  BY DEF EndsAsSaid
<1>3. startedAt \in Nat /\ TicksPerEpoch \in Nat
  BY DEF Made, SandboxAssumption
<1>4. t \in papers'[i].settles - CallTicks .. papers'[i].settles
  BY <1>2 DEF EndsAt
<1>5. t <= startedAt + 2 * TicksPerEpoch /\ t <= startedAt' + 2 * TicksPerEpoch
  <2>1. t <= startedAt + 2 * TicksPerEpoch
    BY <1>2 DEF EndsAt
  <2>2. t \in Int /\ startedAt \in Int /\ startedAt' \in Int /\ startedAt <= startedAt'
    BY <1>3
  <2>3. TicksPerEpoch \in Int
    BY <1>3
  <2> QED BY <2>1, <2>2, <2>3, NoSooner
<1>6. t >= startedAt' => PriceAt(t)' = papers'[i].exit
  <2> SUFFICES ASSUME t >= startedAt' PROVE PriceAt(t)' = papers'[i].exit
    OBVIOUS
  <2>1. t >= startedAt
    BY <1>3
  <2>2. PriceAt(t) = papers[i].exit
    BY <1>2, <2>1 DEF EndsAt
  <2> QED BY <1>5, <2>2
<1> QED BY <1>1, <1>4, <1>5, <1>6 DEF EndsAt

\* What sweeping leaves of the positions.
LEMMA SweptKept ==
  ASSUME EndsAsSaid
  PROVE  /\ SweptPapers \in [PaperIds -> {SweptPapers[i] : i \in PaperIds}]
         /\ \A i \in PaperIds : \/ SweptPapers[i] = papers[i]
                                \/ SweptPapers[i].status = "CLOSED"
<1>1. \A i \in PaperIds : SweptPapers[i] =
         IF i \in DuePapers THEN [papers[i] EXCEPT !.status = "CLOSED"] ELSE papers[i]
  BY DEF SweptPapers
<1>2. ASSUME NEW i \in PaperIds, i \in DuePapers PROVE SweptPapers[i].status = "CLOSED"
  <2>1. papers[i].status = "OPEN" BY <1>2 DEF DuePapers
  <2>2. "status" \in DOMAIN papers[i] BY <2>1 DEF EndsAsSaid
  <2>3. SweptPapers[i] = [papers[i] EXCEPT !.status = "CLOSED"] BY <1>1, <1>2
  <2> QED BY <2>2, <2>3
<1>3. SweptPapers \in [PaperIds -> {SweptPapers[i] : i \in PaperIds}]
  BY DEF SweptPapers
<1> QED BY <1>1, <1>2, <1>3

\* What an opened position is said to leave at.
LEMMA OpenedAhead ==
  ASSUME Made, EndsAsSaid, SandboxAssumption, PathsWhole, CallTicks \in 0..1,
         NEW i \in PaperIds, NEW dir, NEW stake, NEW horizon \in Horizons,
         OpenPaper(i, dir, stake, horizon)
  PROVE  /\ clock' \in Nat /\ clock <= clock'
         /\ papers' \in [PaperIds -> {papers'[j] : j \in PaperIds}]
         /\ \A j \in PaperIds \ {i} : papers'[j] = SweptPapers[j]
         /\ papers'[i].status = "OPEN" /\ "status" \in DOMAIN papers'[i] /\ papers'[i].settles \in Int
         /\ \E t \in Int : EndsAt(i, t)'
<1>0. TicksPerEpoch \in Nat \ {0} /\ horizon \in 1..TicksPerEpoch
  BY OfferedFit DEF SandboxAssumption
<1>1. clock \in Nat /\ startedAt \in Nat /\ startedAt <= clock /\ clock - startedAt < TicksPerEpoch
  BY DEF Made, OpenPaper, Synced
<1>2. PICK ahead \in 0..CallTicks : \E opened \in ahead..CallTicks :
        LET play == Resolve(dir, horizon, PriceNow, TickIndex + ahead)
        IN  /\ clock + opened <= MaxClock /\ clock' = clock + opened
            /\ papers' = [SweptPapers EXCEPT ![i] =
                  [status |-> "OPEN", dir |-> dir, stake |-> stake,
                   entry |-> play.entry, exit |-> play.exit, reason |-> play.reason,
                   settles |-> clock' + play.ticks, profit |-> play.perUnit * stake,
                   predicted |-> play.perUnit * stake]]
  BY DEF OpenPaper
<1> DEFINE play == Resolve(dir, horizon, PriceNow, TickIndex + ahead)
<1>3. PICK opened \in ahead..CallTicks :
            /\ clock' = clock + opened
            /\ papers' = [SweptPapers EXCEPT ![i] =
                  [status |-> "OPEN", dir |-> dir, stake |-> stake,
                   entry |-> play.entry, exit |-> play.exit, reason |-> play.reason,
                   settles |-> clock' + play.ticks, profit |-> play.perUnit * stake,
                   predicted |-> play.perUnit * stake]]
  BY <1>2
<1>4. TickIndex + ahead \in Int /\ TickIndex = clock - startedAt /\ ahead \in 0..1 /\ opened \in 0..1
      /\ ahead <= opened
  BY <1>1 DEF TickIndex
<1>5. play.ticks \in 1..horizon /\ play.exit = PriceAtTick(TickIndex + ahead + play.ticks)
  BY <1>0, <1>4, ResolvedAhead
<1> HIDE DEF play
<1>6. clock' \in Nat /\ clock <= clock'
  BY <1>1, <1>3, <1>4
<1>7. DOMAIN SweptPapers = PaperIds
  BY DEF SweptPapers
<1>8. /\ papers' \in [PaperIds -> {papers'[j] : j \in PaperIds}]
      /\ \A j \in PaperIds \ {i} : papers'[j] = SweptPapers[j]
  BY <1>3, <1>7
<1>9. papers'[i] = [status |-> "OPEN", dir |-> dir, stake |-> stake,
                   entry |-> play.entry, exit |-> play.exit, reason |-> play.reason,
                   settles |-> clock' + play.ticks, profit |-> play.perUnit * stake,
                   predicted |-> play.perUnit * stake]
  BY <1>3, <1>7
<1>10. /\ papers'[i].status = "OPEN" /\ "status" \in DOMAIN papers'[i]
       /\ papers'[i].settles = clock' + play.ticks /\ papers'[i].exit = play.exit
  BY <1>9
<1>11. PICK t \in Int : t = clock + ahead + play.ticks
  BY <1>1, <1>4, <1>5, <1>0
<1>12. EndsAt(i, t)'
  <2>1. play.ticks \in Int /\ CallTicks \in Int
    BY <1>1, <1>4, <1>5, <1>0
  <2>2. t >= (clock' + play.ticks) - CallTicks /\ t <= clock' + play.ticks
    BY <1>1, <1>3, <1>4, <1>11, <2>1
  <2>3. t <= startedAt + 2 * TicksPerEpoch
    BY <1>0, <1>1, <1>4, <1>5, <1>11
  <2>4. t - startedAt = TickIndex + ahead + play.ticks
    BY <1>1, <1>4, <1>11, <2>1
  <2>5. PriceAt(t) = play.exit
    BY <1>5, <2>4 DEF PriceAt
  <2>6. UNCHANGED marketVars
    BY DEF OpenPaper
  <2>7. startedAt' = startedAt /\ PriceAt(t)' = PriceAt(t)
    BY <2>6 DEF marketVars, PriceAt, PriceAtTick
  <2>8. t \in papers'[i].settles - CallTicks .. papers'[i].settles
    BY <1>6, <1>10, <2>1, <2>2
  <2> QED BY <1>10, <2>3, <2>5, <2>7, <2>8 DEF EndsAt
<1>13. papers'[i].settles \in Int
  BY <1>0, <1>5, <1>6, <1>10
<1> QED BY <1>6, <1>8, <1>10, <1>12, <1>13

\* It starts with two epochs computed and no position.
LEMMA SandboxStarts ==
  ASSUME SandboxAssumption, PathsWhole, SandboxInit
  PROVE  SandboxInv
<1>1. TicksPerEpoch \in Nat \ {0} /\ BasePrice \in Nat \ {0}
  BY DEF SandboxAssumption
<1>2. epochSeed \in Seeds /\ nextSeed \in Seeds /\ path = PathOf(epochSeed, 1, BasePrice)
  BY DEF SandboxInit
<1>3. path \in [1..TicksPerEpoch -> Nat \ {0}]
  BY <1>1, <1>2 DEF PathsWhole
<1>4. Made
  BY <1>1, <1>2, <1>3 DEF SandboxInit, Made
<1>5. EndsAsSaid
  BY DEF SandboxInit, EndsAsSaid, NoPaper
<1> QED BY <1>4, <1>5 DEF SandboxInv

\* One step: the invariant is kept, and so is every price that was computed.
LEMMA SandboxStep ==
  ASSUME SandboxAssumption, PathsWhole, CallTicks <= 1, SandboxInv, [SandboxNext]_sandboxVars
  PROVE  /\ SandboxInv'
         /\ \A t \in Known \cap Known' : PriceAt(t)' = PriceAt(t)
<1>0. Made /\ EndsAsSaid /\ startedAt \in Nat /\ clock \in Nat /\ TicksPerEpoch \in Nat \ {0} /\ CallTicks \in 0..1
  BY DEF SandboxInv, Made, SandboxAssumption
<1>1. ASSUME UNCHANGED marketVars, clock' \in Nat, clock <= clock',
             papers' \in [PaperIds -> {papers'[i] : i \in PaperIds}],
             \A i \in PaperIds :
                \/ papers'[i] = papers[i] \/ papers'[i].status \in {"NONE", "CLOSED"}
                \/ /\ papers'[i].status = "OPEN" /\ "status" \in DOMAIN papers'[i]
                   /\ papers'[i].settles \in Int /\ \E t \in Int : EndsAt(i, t)'
      PROVE  SandboxInv' /\ \A t \in Known \cap Known' : PriceAt(t)' = PriceAt(t)
  <2>1. Made' /\ startedAt' = startedAt /\ \A t \in Int : PriceAt(t)' = PriceAt(t)
    BY <1>0, <1>1, MarketKeeps
  <2>2. \A i \in PaperIds :
            /\ papers'[i].status \in {"NONE", "OPEN", "CLOSED"}
            /\ papers'[i].status = "OPEN" =>
                  \/ papers'[i] = papers[i]
                  \/ /\ "status" \in DOMAIN papers'[i] /\ papers'[i].settles \in Int
                     /\ \E t \in Int : EndsAt(i, t)'
    BY <1>0, <1>1 DEF EndsAsSaid
  <2>3. startedAt' \in Nat /\ startedAt <= startedAt'
    BY <1>0, <2>1
  <2>4. EndsAsSaid'
    BY <1>0, <1>1, <2>1, <2>2, <2>3, SaidKeeps
  <2>5. \A t \in Known : t \in Int
    BY <1>0 DEF Known
  <2> QED BY <2>1, <2>4, <2>5 DEF SandboxInv
<1>2. CASE ClockTicks
  <2>1. UNCHANGED marketVars /\ clock' \in Nat /\ clock <= clock' /\ papers' = papers
    BY <1>0, <1>2 DEF ClockTicks, sessionVars
  <2> QED BY <1>0, <1>1, <2>1 DEF EndsAsSaid
<1>3. CASE SyncEpoch
  <2>1. Made' /\ \A t \in startedAt + TicksPerEpoch .. startedAt + 2 * TicksPerEpoch :
                    PriceAt(t)' = PriceAt(t)
    BY <1>0, <1>3, RotationKeeps
  <2>2. startedAt' = startedAt + TicksPerEpoch /\ papers' = papers
    BY <1>3 DEF SyncEpoch, sessionVars
  <2>3. startedAt' \in Nat /\ startedAt <= startedAt'
    BY <1>0, <2>2
  <2>4. \A t \in Int : t >= startedAt' /\ t <= startedAt + 2 * TicksPerEpoch => PriceAt(t)' = PriceAt(t)
    BY <1>0, <2>1, <2>2
  <2>5. EndsAsSaid'
    BY <1>0, <2>2, <2>3, <2>4, SaidKeeps DEF EndsAsSaid
  <2>6. \A t \in Known \cap Known' : t \in Int /\ t >= startedAt' /\ t <= startedAt + 2 * TicksPerEpoch
    BY <1>0, <2>2 DEF Known
  <2> QED BY <2>1, <2>4, <2>5, <2>6 DEF SandboxInv
<1>4. CASE SweepPapers
  <2>1. UNCHANGED marketVars /\ clock' = clock /\ papers' = SweptPapers
    BY <1>4 DEF SweepPapers
  <2>2. /\ papers' \in [PaperIds -> {papers'[i] : i \in PaperIds}]
        /\ \A i \in PaperIds : papers'[i] = papers[i] \/ papers'[i].status = "CLOSED"
    BY <1>0, <2>1, SweptKept
  <2>3. clock' \in Nat /\ clock <= clock'
    BY <1>0, <2>1
  <2> QED BY <1>1, <2>1, <2>2, <2>3
<1>5. CASE ResetPaper
  <2>1. UNCHANGED marketVars /\ clock' = clock /\ papers' = [i \in PaperIds |-> NoPaper]
    BY <1>5 DEF ResetPaper
  <2> QED BY <1>0, <1>1, <2>1 DEF NoPaper
<1>6. ASSUME NEW i \in PaperIds, NEW dir \in {"BUY", "SELL"}, NEW stake \in PaperStakes,
             NEW h \in Horizons, OpenPaper(i, dir, stake, h)
      PROVE  SandboxInv' /\ \A t \in Known \cap Known' : PriceAt(t)' = PriceAt(t)
  <2>1. UNCHANGED marketVars
    BY <1>6 DEF OpenPaper
  <2>2. /\ clock' \in Nat /\ clock <= clock'
        /\ papers' \in [PaperIds -> {papers'[j] : j \in PaperIds}]
        /\ \A j \in PaperIds \ {i} : papers'[j] = SweptPapers[j]
        /\ papers'[i].status = "OPEN" /\ "status" \in DOMAIN papers'[i] /\ papers'[i].settles \in Int
        /\ \E t \in Int : EndsAt(i, t)'
    BY <1>0, <1>6, OpenedAhead
  <2>3. \A j \in PaperIds : SweptPapers[j] = papers[j] \/ SweptPapers[j].status = "CLOSED"
    BY <1>0, SweptKept
  <2> QED BY <1>1, <2>1, <2>2, <2>3
<1>7. CASE UNCHANGED sandboxVars
  <2>1. UNCHANGED marketVars /\ clock' = clock /\ papers' = papers
    BY <1>7 DEF sandboxVars, sessionVars
  <2> QED BY <1>0, <1>1, <2>1 DEF EndsAsSaid
<1> QED BY <1>2, <1>3, <1>4, <1>5, <1>6, <1>7 DEF SandboxNext

\* What the property says of an open position follows from the invariant.
Leaves ==
    \A i \in PaperIds :
        LET times == papers[i].settles - CallTicks .. papers[i].settles
        IN  papers[i].status = "OPEN" /\ times \subseteq Known =>
               \E t \in times : PriceAt(t) = papers[i].exit

\* An open position ends at a tick whose price it has.
LEMMA LeavesAsSaid ==
  ASSUME SandboxInv, SandboxAssumption
  PROVE  Leaves
<1> SUFFICES ASSUME NEW i \in PaperIds, papers[i].status = "OPEN",
                    papers[i].settles - CallTicks .. papers[i].settles \subseteq Known
             PROVE  \E t \in papers[i].settles - CallTicks .. papers[i].settles :
                       PriceAt(t) = papers[i].exit
  BY DEF Leaves
<1>1. PICK t \in Int : EndsAt(i, t)
  BY DEF SandboxInv, EndsAsSaid
<1>2. t \in papers[i].settles - CallTicks .. papers[i].settles
  BY <1>1 DEF EndsAt
<1>3. t \in Known /\ startedAt \in Nat /\ TicksPerEpoch \in Nat
  BY <1>2 DEF SandboxInv, Made, SandboxAssumption
<1>4. t >= startedAt
  BY <1>3 DEF Known
<1> QED BY <1>1, <1>2, <1>4 DEF EndsAt

\* ForeseenHappens, for any seeds, computation of prices, stakes and durations, and any
\* number of positions: what the oracle shows of the epochs ahead is what the market does,
\* and a position leaves at the price it was opened for.
THEOREM ForeseenAlways ==
  ASSUME PathsWhole, CallTicks <= 1
  PROVE  SandboxSpec => ForeseenHappens
<1>1. SandboxInit => SandboxInv
  BY SandboxAssumption, SandboxStarts
<1>2. SandboxInv /\ [SandboxNext]_sandboxVars => SandboxInv'
  BY SandboxAssumption, SandboxStep
<1>3. SandboxInv /\ [SandboxNext]_sandboxVars =>
         [\A t \in Known \cap Known' : PriceAt(t)' = PriceAt(t)]_sandboxVars
  BY SandboxAssumption, SandboxStep
<1>4. SandboxInv => Leaves
  BY SandboxAssumption, LeavesAsSaid
<1> QED BY <1>1, <1>2, <1>3, <1>4, PTL DEF SandboxSpec, ForeseenHappens, Leaves

-----------------------------------------------------------------------------
(* Sandbox: a session's figures add up, for any stakes, durations and prices, and any
   number of positions.  The invariant counts every position, not only those that the
   session still keeps: the balance and the open stakes are the starting balance and the
   profits of all that closed, and the list of closed ones names none of them twice. *)

\* What is known of a position that was opened.
Position(p) ==
    /\ {"status", "stake", "profit", "predicted"} \subseteq DOMAIN p
    /\ p.status \in {"OPEN", "CLOSED"} /\ p.stake \in Nat
    /\ p.profit \in Int /\ p.predicted = p.profit
PapersWhole(P) == \A i \in PaperIds : P[i] = NoPaper \/ Position(P[i])

Held(P, status) == {i \in PaperIds : P[i].status = status}
StakeOf(P) == [i \in PaperIds |-> IF P[i] = NoPaper THEN 0 ELSE 100 * P[i].stake]
ProfitOf(P) == [i \in PaperIds |-> IF P[i] = NoPaper THEN 0 ELSE P[i].profit]

Accounts(P, balance) ==
    /\ balance \in Int
    /\ balance + SumFunctionOnSet(StakeOf(P), Held(P, "OPEN"))
          = 100 * StartingBalance + SumFunctionOnSet(ProfitOf(P), Held(P, "CLOSED"))
Lists(P, kept) ==
    /\ kept \in Seq(PaperIds)
    /\ \A m, n \in 1..Len(kept) : kept[m] = kept[n] => m = n
    /\ \A n \in 1..Len(kept) : P[kept[n]].status = "CLOSED"

SessionInv == PapersWhole(papers) /\ Accounts(papers, paperBalance) /\ Lists(papers, closedPapers)

\* What leaves one sum for another, with what both say of it, keeps the two in balance.
LEMMA SumsMove ==
    ASSUME NEW S, IsFiniteSet(S), NEW f, NEW g, \A x \in S : f[x] \in Int /\ g[x] \in Int,
           NEW A \in SUBSET S, NEW D \in SUBSET A, NEW C \in SUBSET S, C \cap D = {},
           NEW b \in Int, NEW k \in Int,
           b + SumFunctionOnSet(f, A) = k + SumFunctionOnSet(g, C)
    PROVE  (b + (SumFunctionOnSet(f, D) + SumFunctionOnSet(g, D))) + SumFunctionOnSet(f, A \ D)
              = k + SumFunctionOnSet(g, C \cup D)
<1> DEFINE fa == SumFunctionOnSet(f, A)
           fd == SumFunctionOnSet(f, D)
           fr == SumFunctionOnSet(f, A \ D)
           gc == SumFunctionOnSet(g, C)
           gd == SumFunctionOnSet(g, D)
           gs == SumFunctionOnSet(g, C \cup D)
<1>1. D \in SUBSET S /\ A \ D \in SUBSET S /\ (A \ D) \cup D = A /\ (A \ D) \cap D = {}
  OBVIOUS
<1>2. IsFiniteSet(D) /\ IsFiniteSet(A \ D) /\ IsFiniteSet(C)
  BY <1>1, FS_Subset
<1>3. fd \in Int /\ fr \in Int /\ gc \in Int /\ gd \in Int
  BY <1>1, <1>2, SumInt
<1>4. fa = fr + fd
  <2>1. SumFunctionOnSet(f, (A \ D) \cup D) = fr + fd
    BY <1>1, SumUnion
  <2> QED BY <1>1, <2>1
<1>5. gs = gc + gd
  BY <1>1, SumUnion
<1>6. b + fa = k + gc
  OBVIOUS
<1> HIDE DEF fa, fd, fr, gc, gd, gs
<1>7. (b + (fd + gd)) + fr = k + gs
  BY <1>3, <1>4, <1>5, <1>6
<1> QED BY <1>7 DEF fa, fd, fr, gc, gd, gs

\* A position's stake and its profit are whole numbers, and only those of one that is
\* there count.
LEMMA AmountsWhole ==
  ASSUME SandboxAssumption, NEW P, PapersWhole(P)
  PROVE  /\ \A i \in PaperIds : StakeOf(P)[i] \in Int /\ ProfitOf(P)[i] \in Int
         /\ \A status : Held(P, status) \in SUBSET PaperIds /\ IsFiniteSet(Held(P, status))
<1>1. ASSUME NEW i \in PaperIds PROVE StakeOf(P)[i] \in Int /\ ProfitOf(P)[i] \in Int
  <2>1. StakeOf(P)[i] = (IF P[i] = NoPaper THEN 0 ELSE 100 * P[i].stake)
        /\ ProfitOf(P)[i] = (IF P[i] = NoPaper THEN 0 ELSE P[i].profit)
    BY DEF StakeOf, ProfitOf
  <2>2. P[i] = NoPaper \/ Position(P[i])
    BY DEF PapersWhole
  <2>3. CASE P[i] = NoPaper BY <2>1, <2>3
  <2>4. CASE P[i] # NoPaper
    <3>1. P[i].stake \in Nat /\ P[i].profit \in Int BY <2>2, <2>4 DEF Position
    <3> QED BY <2>1, <2>4, <3>1
  <2> QED BY <2>3, <2>4
<1>2. IsFiniteSet(PaperIds)
  BY DEF SandboxAssumption
<1>3. ASSUME NEW status PROVE Held(P, status) \in SUBSET PaperIds /\ IsFiniteSet(Held(P, status))
  <2>1. Held(P, status) \in SUBSET PaperIds
    BY DEF Held
  <2> QED BY <1>2, <2>1, FS_Subset
<1> QED BY <1>1, <1>3

\* Sweeping closes what is due, and changes nothing else of any position.
LEMMA SweepCloses ==
  ASSUME PapersWhole(papers)
  PROVE  /\ PapersWhole(SweptPapers) /\ DOMAIN SweptPapers = PaperIds
         /\ DuePapers \subseteq Held(papers, "OPEN")
         /\ Held(SweptPapers, "OPEN") = Held(papers, "OPEN") \ DuePapers
         /\ Held(SweptPapers, "CLOSED") = Held(papers, "CLOSED") \cup DuePapers
         /\ StakeOf(SweptPapers) = StakeOf(papers) /\ ProfitOf(SweptPapers) = ProfitOf(papers)
         /\ \A i \in PaperIds : papers[i] = NoPaper => SweptPapers[i] = NoPaper
<1>1. DOMAIN SweptPapers = PaperIds
      /\ \A i \in PaperIds : SweptPapers[i] =
            IF i \in DuePapers THEN [papers[i] EXCEPT !.status = "CLOSED"] ELSE papers[i]
  BY DEF SweptPapers
<1>2. \A i \in PaperIds : papers[i].status = "OPEN" => papers[i] # NoPaper
  BY DEF NoPaper
<1>3. DuePapers \in SUBSET PaperIds /\ \A i \in DuePapers : papers[i].status = "OPEN"
  BY DEF DuePapers
<1>4. ASSUME NEW i \in DuePapers
      PROVE  /\ Position(SweptPapers[i]) /\ SweptPapers[i].status = "CLOSED"
             /\ SweptPapers[i].stake = papers[i].stake /\ SweptPapers[i].profit = papers[i].profit
             /\ papers[i] # NoPaper /\ SweptPapers[i] # NoPaper
  <2>1. i \in PaperIds /\ papers[i] # NoPaper
    BY <1>2, <1>3
  <2>2. Position(papers[i])
    BY <2>1 DEF PapersWhole
  <2> DEFINE p == papers[i]
             q == [p EXCEPT !.status = "CLOSED"]
  <2>3. SweptPapers[i] = q
    BY <1>1, <2>1
  <2>4. {"status", "stake", "profit", "predicted"} \subseteq DOMAIN p
    BY <2>2 DEF Position
  <2>5. DOMAIN q = DOMAIN p /\ q.status = "CLOSED" /\ q.stake = p.stake /\ q.profit = p.profit
        /\ q.predicted = p.predicted
    <3> HIDE DEF p
    <3> QED BY <2>4
  <2> HIDE DEF q
  <2>6. Position(q)
    BY <2>2, <2>5 DEF Position
  <2>7. q # NoPaper
    BY <2>5 DEF NoPaper
  <2> QED BY <2>1, <2>3, <2>5, <2>6, <2>7
<1>5. \A i \in PaperIds \ DuePapers : SweptPapers[i] = papers[i]
  BY <1>1
<1>6. \A i \in DuePapers : SweptPapers[i].status = "CLOSED"
  BY <1>4
<1>7. PapersWhole(SweptPapers)
  BY <1>4, <1>5 DEF PapersWhole
<1>8. Held(SweptPapers, "OPEN") = Held(papers, "OPEN") \ DuePapers
  BY <1>3, <1>5, <1>6 DEF Held
<1>9. Held(SweptPapers, "CLOSED") = Held(papers, "CLOSED") \cup DuePapers
  BY <1>3, <1>5, <1>6 DEF Held
<1>10. StakeOf(SweptPapers) = StakeOf(papers)
  <2>1. ASSUME NEW i \in PaperIds
        PROVE  (IF SweptPapers[i] = NoPaper THEN 0 ELSE 100 * SweptPapers[i].stake)
                  = (IF papers[i] = NoPaper THEN 0 ELSE 100 * papers[i].stake)
    <3>1. CASE i \in DuePapers BY <1>4, <3>1
    <3>2. CASE i \notin DuePapers BY <1>5, <3>2
    <3> QED BY <3>1, <3>2
  <2> QED BY <2>1 DEF StakeOf
<1>11. ProfitOf(SweptPapers) = ProfitOf(papers)
  <2>1. ASSUME NEW i \in PaperIds
        PROVE  (IF SweptPapers[i] = NoPaper THEN 0 ELSE SweptPapers[i].profit)
                  = (IF papers[i] = NoPaper THEN 0 ELSE papers[i].profit)
    <3>1. CASE i \in DuePapers BY <1>4, <3>1
    <3>2. CASE i \notin DuePapers BY <1>5, <3>2
    <3> QED BY <3>1, <3>2
  <2> QED BY <2>1 DEF ProfitOf
<1>12. \A i \in PaperIds : papers[i] = NoPaper => SweptPapers[i] = NoPaper
  BY <1>2, <1>3, <1>5
<1>13. DuePapers \subseteq Held(papers, "OPEN")
  BY <1>3 DEF Held
<1> QED BY <1>1, <1>7, <1>8, <1>9, <1>10, <1>11, <1>12, <1>13

\* What sweeping pays into the balance: the stakes come back, with the profits.
LEMMA SweepPays ==
  ASSUME SandboxAssumption, PapersWhole(papers), Accounts(papers, paperBalance)
  PROVE  Accounts(SweptPapers, SweptBalance)
<1> DEFINE stakes(U) == SumFunctionOnSet(StakeOf(papers), U)
           profits(U) == SumFunctionOnSet(ProfitOf(papers), U)
           due == DuePapers
           open == Held(papers, "OPEN")
           closed == Held(papers, "CLOSED")
           back == [i \in due |-> 100 * papers[i].stake + papers[i].profit]
<1>1. /\ due \subseteq open /\ Held(SweptPapers, "OPEN") = open \ due
      /\ Held(SweptPapers, "CLOSED") = closed \cup due
      /\ StakeOf(SweptPapers) = StakeOf(papers) /\ ProfitOf(SweptPapers) = ProfitOf(papers)
  BY SweepCloses
<1>2. /\ IsFiniteSet(PaperIds) /\ open \in SUBSET PaperIds /\ closed \in SUBSET PaperIds
      /\ due \in SUBSET PaperIds
      /\ \A i \in PaperIds : StakeOf(papers)[i] \in Int /\ ProfitOf(papers)[i] \in Int
  BY <1>1, AmountsWhole DEF SandboxAssumption
<1>3. IsFiniteSet(due) /\ open \ due \in SUBSET PaperIds /\ IsFiniteSet(open \ due) /\ IsFiniteSet(closed)
  BY <1>2, FS_Subset
<1>4. closed \cap due = {}
  BY <1>1 DEF Held
<1>5. \A i \in due : back[i] = StakeOf(papers)[i] + ProfitOf(papers)[i]
  <2> SUFFICES ASSUME NEW i \in due PROVE back[i] = StakeOf(papers)[i] + ProfitOf(papers)[i]
    OBVIOUS
  <2>1. i \in PaperIds /\ papers[i] # NoPaper
    BY <1>1 DEF Held, NoPaper
  <2> QED BY <2>1 DEF StakeOf, ProfitOf
<1>6. SumFunctionOnSet(back, due) = stakes(due) + profits(due)
  <2>1. \A i \in due : /\ StakeOf(papers)[i] \in Int /\ ProfitOf(papers)[i] \in Int
                       /\ back[i] = StakeOf(papers)[i] + ProfitOf(papers)[i]
    BY <1>2, <1>5
  <2> HIDE DEF back, due
  <2> QED BY <1>3, <2>1, SumPlus
<1>7. SweptBalance = paperBalance + (stakes(due) + profits(due))
  <2>1. DOMAIN back = due
    OBVIOUS
  <2>2. SumFunction(back) = SumFunctionOnSet(back, due)
    BY <2>1 DEF SumFunction
  <2>3. SweptBalance = paperBalance + SumFunction(back)
    BY DEF SweptBalance
  <2> QED BY <1>6, <2>2, <2>3
<1> HIDE DEF due, open, closed, back
<1>10. stakes(due) \in Int /\ profits(due) \in Int
  BY <1>2, <1>3, SumInt
<1>11. /\ paperBalance \in Int /\ 100 * StartingBalance \in Int
       /\ paperBalance + stakes(open) = 100 * StartingBalance + profits(closed)
  BY DEF Accounts, SandboxAssumption, open, closed
<1>12. (paperBalance + (stakes(due) + profits(due))) + stakes(open \ due)
          = 100 * StartingBalance + profits(closed \cup due)
  <2> DEFINE f == StakeOf(papers)
             g == ProfitOf(papers)
             k == 100 * StartingBalance
             b == paperBalance
  <2>1. /\ \A i \in PaperIds : f[i] \in Int /\ g[i] \in Int
        /\ IsFiniteSet(PaperIds) /\ open \in SUBSET PaperIds /\ closed \in SUBSET PaperIds
        /\ due \in SUBSET open /\ closed \cap due = {} /\ b \in Int /\ k \in Int
    BY <1>1, <1>2, <1>4, <1>11
  <2>2. b + SumFunctionOnSet(f, open) = k + SumFunctionOnSet(g, closed)
    BY <1>11
  <2> HIDE DEF f, g, k, b
  <2>3. (b + (SumFunctionOnSet(f, due) + SumFunctionOnSet(g, due))) + SumFunctionOnSet(f, open \ due)
          = k + SumFunctionOnSet(g, closed \cup due)
    BY ONLY <2>1, <2>2, SumsMove
  <2> QED BY <2>3 DEF f, g, k, b
<1>13. SweptBalance \in Int
  BY <1>7, <1>10, <1>11
<1> QED BY <1>1, <1>7, <1>12, <1>13 DEF Accounts

\* The lesser of two numbers.
LEMMA LesserOf ==
  ASSUME NEW a \in Int, NEW b \in Int
  PROVE  Min({a, b}) \in {a, b} /\ Min({a, b}) <= a /\ Min({a, b}) <= b
<1>1. \E x \in {a, b} : \A y \in {a, b} : x =< y
  <2>1. CASE a <= b BY <2>1
  <2>2. CASE b < a BY <2>2
  <2> QED BY <2>1, <2>2
<1>2. Min({a, b}) \in {a, b} /\ \A y \in {a, b} : Min({a, b}) =< y
  BY <1>1 DEF Min
<1> QED BY <1>2

\* The list of closed positions never names one twice, nor one that is open, nor more than
\* are kept.
LEMMA SweepLists ==
  ASSUME SandboxAssumption, PapersWhole(papers), Lists(papers, closedPapers)
  PROVE  Lists(SweptPapers, SweptClosed) /\ Len(SweptClosed) <= MaxClosed
<1> DEFINE c == Cardinality(DuePapers)
           due == CHOOSE q \in [1..c -> DuePapers] : \A m, n \in DOMAIN q : m < n => q[m] > q[n]
           all == due \o closedPapers
           most == Min({MaxClosed, Len(all)})
<1>1. DuePapers \in SUBSET PaperIds /\ \A i \in DuePapers : papers[i].status = "OPEN"
  BY DEF DuePapers
<1>2. IsFiniteSet(DuePapers) /\ \A i \in PaperIds : i \in Nat
  BY <1>1, FS_Subset DEF SandboxAssumption
<1>3. c \in Nat
  BY <1>2, FS_CardinalityType
<1>4. due \in [1..c -> DuePapers] /\ \A m, n \in 1..c : m < n => due[m] > due[n]
  <2>1. \E q \in [1..c -> DuePapers] : \A m, n \in 1..c : m < n => q[m] > q[n]
    BY <1>1, <1>2, OneOrder
  <2> HIDE DEF c
  <2>2. \E q \in [1..c -> DuePapers] : \A m, n \in DOMAIN q : m < n => q[m] > q[n]
    BY <2>1
  <2>3. due \in [1..c -> DuePapers] /\ \A m, n \in DOMAIN due : m < n => due[m] > due[n]
    BY <2>2
  <2> HIDE DEF due
  <2> QED BY <2>3
<1>5. SweptClosed = SubSeq(all, 1, most)
  BY DEF SweptClosed
<1> HIDE DEF due, c
<1>6. \A m, n \in 1..c : due[m] = due[n] => m = n
  <2> SUFFICES ASSUME NEW m \in 1..c, NEW n \in 1..c, due[m] = due[n], m # n PROVE FALSE
    OBVIOUS
  <2>1. due[m] \in Nat /\ due[n] \in Nat
    BY <1>1, <1>2, <1>4
  <2>2. CASE m < n BY <1>4, <2>1, <2>2
  <2>3. CASE n < m BY <1>4, <2>1, <2>3
  <2> QED BY <1>3, <2>2, <2>3
<1>7. due \in Seq(PaperIds) /\ Len(due) = c
  <2>1. due \in [1..c -> PaperIds]
    BY <1>1, <1>4
  <2> QED BY <1>3, <2>1
<1>8. /\ closedPapers \in Seq(PaperIds)
      /\ \A m, n \in 1..Len(closedPapers) : closedPapers[m] = closedPapers[n] => m = n
      /\ \A n \in 1..Len(closedPapers) : papers[closedPapers[n]].status = "CLOSED"
  BY DEF Lists
<1>9. /\ all \in Seq(PaperIds) /\ Len(all) = c + Len(closedPapers) /\ Len(closedPapers) \in Nat
      /\ \A n \in 1..Len(all) : all[n] = IF n <= c THEN due[n] ELSE closedPapers[n - c]
  <2>1. Len(closedPapers) \in Nat
    BY <1>8, LenProperties
  <2>2. /\ due \o closedPapers \in Seq(PaperIds)
        /\ Len(due \o closedPapers) = Len(due) + Len(closedPapers)
        /\ \A n \in 1 .. Len(due) + Len(closedPapers) :
              (due \o closedPapers)[n] = IF n <= Len(due) THEN due[n] ELSE closedPapers[n - Len(due)]
    <3>1. due \in Seq(PaperIds) /\ closedPapers \in Seq(PaperIds)
      BY <1>7, <1>8
    <3> QED BY ONLY <3>1, ConcatProperties
  <2>3. all = due \o closedPapers
    OBVIOUS
  <2> HIDE DEF all
  <2> QED BY <1>7, <2>1, <2>2, <2>3
<1> HIDE DEF all
<1>10. most \in 0..Len(all) /\ most <= MaxClosed
  <2>1. MaxClosed \in Nat /\ Len(all) \in Nat
    BY <1>3, <1>9 DEF SandboxAssumption
  <2>2. most \in {MaxClosed, Len(all)} /\ most <= Len(all) /\ most <= MaxClosed
    <3> DEFINE total == Len(all)
    <3>1. MaxClosed \in Int /\ total \in Int
      BY <2>1
    <3> HIDE DEF total
    <3>2. /\ Min({MaxClosed, total}) \in {MaxClosed, total} /\ Min({MaxClosed, total}) <= total
          /\ Min({MaxClosed, total}) <= MaxClosed
      BY ONLY <3>1, LesserOf
    <3> QED BY <3>2 DEF total
  <2> HIDE DEF most
  <2> QED BY <2>1, <2>2
<1> HIDE DEF most
<1>11. /\ SweptClosed \in Seq(PaperIds) /\ Len(SweptClosed) = most
       /\ \A n \in 1..most : SweptClosed[n] = all[n]
  BY <1>5, <1>9, <1>10, SubSeqProperties
<1>12. ASSUME NEW n \in 1..Len(all)
       PROVE  /\ n <= c => all[n] = due[n] /\ n \in 1..c /\ all[n] \in DuePapers
              /\ n > c => all[n] = closedPapers[n - c] /\ n - c \in 1..Len(closedPapers)
  BY <1>3, <1>4, <1>9
<1>13. \A i \in PaperIds : papers[i].status = "CLOSED" => i \notin DuePapers
  BY <1>1
<1>14. ASSUME NEW m \in 1..Len(all), NEW n \in 1..Len(all), all[m] = all[n] PROVE m = n
  <2>0. \A k \in 1..Len(closedPapers) : closedPapers[k] \in PaperIds /\ closedPapers[k] \notin DuePapers
    BY <1>8, <1>13, ElementOfSeq
  <2>1. CASE m <= c /\ n <= c BY <1>6, <1>12, <1>14, <2>1
  <2>2. CASE m > c /\ n > c
    <3>1. m - c = n - c BY <1>8, <1>12, <1>14, <2>2
    <3> QED BY <1>3, <3>1
  <2>3. CASE m <= c /\ n > c BY <1>12, <1>14, <2>0, <2>3
  <2>4. CASE m > c /\ n <= c BY <1>12, <1>14, <2>0, <2>4
  <2> QED BY <1>3, <2>1, <2>2, <2>3, <2>4
<1>15. ASSUME NEW n \in 1..Len(all) PROVE SweptPapers[all[n]].status = "CLOSED"
  <2>1. Held(SweptPapers, "CLOSED") = Held(papers, "CLOSED") \cup DuePapers
    BY SweepCloses
  <2>2. all[n] \in Held(papers, "CLOSED") \cup DuePapers
    <3>1. CASE n <= c BY <1>12, <3>1
    <3>2. CASE n > c
      <4>1. closedPapers[n - c] \in PaperIds /\ papers[closedPapers[n - c]].status = "CLOSED"
        BY <1>8, <1>12, <3>2
      <4> QED BY <1>12, <3>2, <4>1 DEF Held
    <3> QED BY <1>3, <3>1, <3>2
  <2> QED BY <2>1, <2>2 DEF Held
<1>16. 1..most \subseteq 1..Len(all) /\ Len(SweptClosed) = most
  BY <1>3, <1>9, <1>10, <1>11
<1>17. \A m, n \in 1..Len(SweptClosed) : SweptClosed[m] = SweptClosed[n] => m = n
  BY <1>11, <1>14, <1>16
<1>18. \A n \in 1..Len(SweptClosed) : SweptPapers[SweptClosed[n]].status = "CLOSED"
  BY <1>11, <1>15, <1>16
<1> QED BY <1>10, <1>11, <1>17, <1>18 DEF Lists

\* What holds of a session's positions, balance and list together.
Opens(P, balance, kept) == PapersWhole(P) /\ Accounts(P, balance) /\ Lists(P, kept)

\* Opening a position takes its stake, and no list of closed ones has it yet.
LEMMA Opening ==
  ASSUME SandboxAssumption, NEW P, DOMAIN P = PaperIds, PapersWhole(P), NEW balance, Accounts(P, balance),
         NEW kept, Lists(P, kept),
         NEW i \in PaperIds, P[i] = NoPaper, NEW p, Position(p), p.status = "OPEN",
         NEW Q, Q = [P EXCEPT ![i] = p]
  PROVE  Opens(Q, balance - 100 * p.stake, kept)
<1>1. Q[i] = p /\ \A j \in PaperIds \ {i} : Q[j] = P[j]
  OBVIOUS
<1>2. p # NoPaper /\ p.stake \in Nat /\ p.profit \in Int
  BY DEF NoPaper, Position
<1>3. PapersWhole(Q)
  BY <1>1 DEF PapersWhole
<1>4. P[i].status = "NONE"
  BY DEF NoPaper
<1>5. Held(Q, "OPEN") = Held(P, "OPEN") \cup {i} /\ i \notin Held(P, "OPEN")
  BY <1>1, <1>4 DEF Held
<1>6. Held(Q, "CLOSED") = Held(P, "CLOSED") /\ i \notin Held(P, "CLOSED")
  BY <1>1, <1>4 DEF Held
<1>7. StakeOf(Q)[i] = 100 * p.stake /\ \A j \in PaperIds \ {i} : StakeOf(Q)[j] = StakeOf(P)[j]
  BY <1>1, <1>2 DEF StakeOf
<1>8. \A j \in PaperIds \ {i} : ProfitOf(Q)[j] = ProfitOf(P)[j]
  BY <1>1 DEF ProfitOf
<1> DEFINE open == Held(P, "OPEN")
           closed == Held(P, "CLOSED")
           f == StakeOf(P)
           h == StakeOf(Q)
           g == ProfitOf(P)
           e == ProfitOf(Q)
<1>9. /\ \A j \in PaperIds : f[j] \in Int /\ g[j] \in Int
      /\ IsFiniteSet(open) /\ IsFiniteSet(closed) /\ open \in SUBSET PaperIds /\ closed \in SUBSET PaperIds
  BY AmountsWhole
<1>10. /\ \A j \in open : h[j] \in Int /\ f[j] = h[j] /\ f[j] \in Int
       /\ \A j \in closed : g[j] \in Int /\ g[j] = e[j]
  BY <1>5, <1>6, <1>7, <1>8, <1>9
<1>11. h[i] = 100 * p.stake /\ 100 * p.stake \in Int
  BY <1>2, <1>7
<1>12. i \notin open /\ Held(Q, "OPEN") = open \cup {i} /\ Held(Q, "CLOSED") = closed
  BY <1>5, <1>6
<1>13. balance \in Int /\ 100 * StartingBalance \in Int
       /\ balance + SumFunctionOnSet(f, open) = 100 * StartingBalance + SumFunctionOnSet(g, closed)
  BY DEF Accounts, SandboxAssumption
<1> HIDE DEF open, closed, f, h, g, e
<1>14. SumFunctionOnSet(h, open \cup {i}) = 100 * p.stake + SumFunctionOnSet(f, open)
  <2>1. \A j \in open \cup {i} : h[j] \in Int
    BY <1>10, <1>11
  <2>2. SumFunctionOnSet(h, open \cup {i}) = h[i] + SumFunctionOnSet(h, open)
    BY <1>9, <1>12, <2>1, SumAdd
  <2>3. SumFunctionOnSet(f, open) = SumFunctionOnSet(h, open)
    BY <1>9, <1>10, SumSame
  <2> QED BY <1>11, <2>2, <2>3
<1>15. SumFunctionOnSet(g, closed) = SumFunctionOnSet(e, closed)
  BY <1>9, <1>10, SumSame
<1>16. SumFunctionOnSet(f, open) \in Int /\ SumFunctionOnSet(g, closed) \in Int
  BY <1>9, SumInt
<1>17. (balance - 100 * p.stake) + SumFunctionOnSet(h, open \cup {i})
          = 100 * StartingBalance + SumFunctionOnSet(e, closed)
  <2> DEFINE a == 100 * p.stake
             s == SumFunctionOnSet(f, open)
  <2>1. a \in Int /\ s \in Int /\ balance \in Int
    BY <1>11, <1>13, <1>16
  <2> HIDE DEF a, s
  <2>2. (balance - a) + (a + s) = balance + s
    BY <2>1
  <2> QED BY <1>13, <1>14, <1>15, <2>2 DEF a, s
<1>18. Accounts(Q, balance - 100 * p.stake)
  <2>1. balance - 100 * p.stake \in Int
    BY <1>11, <1>13
  <2>2. (balance - 100 * p.stake) + SumFunctionOnSet(StakeOf(Q), Held(Q, "OPEN"))
           = 100 * StartingBalance + SumFunctionOnSet(ProfitOf(Q), Held(Q, "CLOSED"))
    BY <1>12, <1>17 DEF h, e
  <2> QED BY <2>1, <2>2 DEF Accounts
<1>19. Lists(Q, kept)
  <2>1. \A n \in 1..Len(kept) : kept[n] \in PaperIds /\ P[kept[n]].status = "CLOSED"
    BY DEF Lists
  <2>2. \A n \in 1..Len(kept) : Q[kept[n]].status = "CLOSED"
    BY <1>1, <1>4, <2>1
  <2> QED BY <2>2 DEF Lists
<1> QED BY <1>3, <1>18, <1>19 DEF Opens

\* A new session has nothing in it but its balance.
LEMMA Afresh ==
  ASSUME SandboxAssumption, NEW P, P = [i \in PaperIds |-> NoPaper]
  PROVE  PapersWhole(P) /\ Accounts(P, 100 * StartingBalance) /\ Lists(P, <<>>)
<1>1. \A i \in PaperIds : P[i] = NoPaper
  OBVIOUS
<1>2. Held(P, "OPEN") = {} /\ Held(P, "CLOSED") = {}
  BY <1>1 DEF Held, NoPaper
<1>3. 100 * StartingBalance \in Int
  BY DEF SandboxAssumption
<1>4. SumFunctionOnSet(StakeOf(P), {}) = 0 /\ SumFunctionOnSet(ProfitOf(P), {}) = 0
  BY SumEmpty
<1>5. Accounts(P, 100 * StartingBalance)
  BY <1>2, <1>3, <1>4 DEF Accounts
<1>6. <<>> \in Seq(PaperIds) /\ Len(<<>>) = 0
  OBVIOUS
<1>7. Lists(P, <<>>)
  BY <1>6 DEF Lists
<1> QED BY <1>1, <1>5, <1>7 DEF PapersWhole

\* Every price that is computed is one.
LEMMA PricesPositive ==
  ASSUME PathsWhole, SandboxAssumption, Made
  PROVE  \A k \in Int : k <= 2 * TicksPerEpoch => PriceAtTick(k) \in Nat \ {0}
<1>1. /\ TicksPerEpoch \in Nat \ {0} /\ nextPath \in [1..TicksPerEpoch -> Nat \ {0}]
      /\ \A k \in Int : PriceAtTick(k) = IF k <= 0 THEN startPrice
                                         ELSE IF k <= TicksPerEpoch THEN path[k]
                                         ELSE nextPath[k - TicksPerEpoch]
  BY PricedAhead
<1>2. startPrice \in Nat \ {0} /\ path \in [1..TicksPerEpoch -> Nat \ {0}]
  BY DEF Made
<1> SUFFICES ASSUME NEW k \in Int, k <= 2 * TicksPerEpoch PROVE PriceAtTick(k) \in Nat \ {0}
  OBVIOUS
<1>3. CASE k <= 0 BY <1>1, <1>2, <1>3
<1>4. CASE k > 0 /\ k <= TicksPerEpoch
  <2>1. k \in 1..TicksPerEpoch BY <1>1, <1>4
  <2>2. PriceAtTick(k) = path[k] BY <1>1, <1>4
  <2> QED BY <1>2, <2>1, <2>2
<1>5. CASE k > TicksPerEpoch
  <2>1. k - TicksPerEpoch \in 1..TicksPerEpoch BY <1>1, <1>5
  <2>2. PriceAtTick(k) = nextPath[k - TicksPerEpoch] BY <1>1, <1>5
  <2> QED BY <1>1, <2>1, <2>2
<1> QED BY <1>1, <1>3, <1>4, <1>5

\* What a position makes of a hundred is a whole number, and loses no more than that.
LEMMA MovesWhole ==
  ASSUME NEW n \in Int, NEW entry \in Nat \ {0}, NEW most \in Nat
  PROVE  /\ Clamp(RoundHalfUp(n, entry), -100, 100 * most) \in Int
         /\ Clamp(RoundHalfUp(n, entry), -100, 100 * most) >= -100
<1>1. RoundHalfUp(n, entry) \in Int
  BY RoundHalfUpTyped
<1>2. 100 * most \in Nat /\ -100 \in Int
  OBVIOUS
<1> QED BY <1>1, <1>2 DEF Clamp

\* So is what a paper position will make, wherever the market is computed.
LEMMA ResolvedWhole ==
  ASSUME PathsWhole, SandboxAssumption, Made, PaperEdge <= 2000,
         NEW dir \in {"BUY", "SELL"}, NEW horizon \in Nat \ {0}, NEW mid \in Nat \ {0},
         NEW from \in Int, from + horizon <= 2 * TicksPerEpoch
  PROVE  /\ Resolve(dir, horizon, mid, from).perUnit \in Int
         /\ Resolve(dir, horizon, mid, from).perUnit >= -100
<1> DEFINE r == Resolve(dir, horizon, mid, from)
           entry == ApplySpread(mid, dir, PaperMultiplier, PaperEdge)
<1>1. PaperMultiplier \in Nat \ {0} /\ PaperEdge \in Nat /\ PaperMost \in Nat /\ TicksPerEpoch \in Nat
  BY DEF SandboxAssumption
<1>2. entry \in Nat \ {0}
  <2> DEFINE mult == PaperMultiplier
             edge == PaperEdge
  <2>1. mult \in Nat \ {0} /\ edge \in Nat /\ edge <= 2000
    BY <1>1
  <2>2. ApplySpread(mid, dir, mult, edge) \in Nat \ {0}
    <3> HIDE DEF mult, edge
    <3> QED BY ONLY <2>1, SpreadKeepsPricePositive
  <2> QED BY <2>2
<1>3. r.ticks \in 1..horizon /\ r.exit = PriceAtTick(from + r.ticks)
  BY ResolvedAhead
<1>4. r.perUnit = Clamp(RoundHalfUp(100 * PaperMultiplier * Sign(dir) * (r.exit - entry), entry),
                        -100, 100 * PaperMost)
  BY DEF Resolve
<1> HIDE DEF r, entry
<1>5. from + r.ticks \in Int /\ from + r.ticks <= 2 * TicksPerEpoch
  BY <1>1, <1>3
<1>6. r.exit \in Nat \ {0}
  <2>1. PriceAtTick(from + r.ticks) \in Nat \ {0}
    BY <1>5, PricesPositive
  <2> QED BY <1>3, <2>1
<1>7. Sign(dir) \in Int
  BY DEF Sign
<1>8. r.perUnit \in Int /\ r.perUnit >= -100
  <2>1. 100 * PaperMultiplier \in Int
    BY <1>1
  <2>2. 100 * PaperMultiplier * Sign(dir) \in Int
    BY <1>7, <2>1
  <2>3. r.exit - entry \in Int
    BY <1>2, <1>6
  <2>4. 100 * PaperMultiplier * Sign(dir) * (r.exit - entry) \in Int
    BY <2>2, <2>3
  <2> DEFINE n == 100 * PaperMultiplier * Sign(dir) * (r.exit - entry)
             most == PaperMost
  <2>5. n \in Int /\ most \in Nat /\ entry \in Nat \ {0} /\ r.perUnit = Clamp(RoundHalfUp(n, entry), -100, 100 * most)
    BY <1>1, <1>2, <1>4, <2>4
  <2> HIDE DEF n, most
  <2> QED BY ONLY <2>5, MovesWhole
<1> QED BY <1>8 DEF r

\* The position a call opens.
PaperOf(dir, stake, opened, play) ==
    [status |-> "OPEN", dir |-> dir, stake |-> stake,
     entry |-> play.entry, exit |-> play.exit, reason |-> play.reason,
     settles |-> opened + play.ticks, profit |-> play.perUnit * stake,
     predicted |-> play.perUnit * stake]
\* A call opens it, and takes its stake.
LEMMA OpensOne ==
  ASSUME NEW i, NEW dir, NEW stake, NEW horizon, OpenPaper(i, dir, stake, horizon)
  PROVE  \E ahead \in 0..CallTicks :
            papers' = [SweptPapers EXCEPT ![i] =
               PaperOf(dir, stake, clock', Resolve(dir, horizon, PriceNow, TickIndex + ahead))]
<1>1. PICK ahead \in 0..CallTicks : \E opened \in ahead..CallTicks :
        LET play == Resolve(dir, horizon, PriceNow, TickIndex + ahead)
        IN  /\ clock + opened <= MaxClock /\ clock' = clock + opened
            /\ papers' = [SweptPapers EXCEPT ![i] =
                  [status |-> "OPEN", dir |-> dir, stake |-> stake,
                   entry |-> play.entry, exit |-> play.exit, reason |-> play.reason,
                   settles |-> clock' + play.ticks, profit |-> play.perUnit * stake,
                   predicted |-> play.perUnit * stake]]
  BY DEF OpenPaper
<1> QED BY <1>1 DEF PaperOf

\* A call that opens a position adds it, with its profit as predicted: it may lose its
\* stake and no more.
LEMMA OpenedWhole ==
  ASSUME Made, SandboxAssumption, PathsWhole, CallTicks \in 0..1, PaperEdge <= 2000,
         NEW i \in PaperIds, NEW dir \in {"BUY", "SELL"}, NEW stake \in PaperStakes,
         NEW horizon \in Horizons, OpenPaper(i, dir, stake, horizon)
  PROVE  \E p : /\ Position(p) /\ p.status = "OPEN" /\ p.stake = stake
                /\ 100 * p.stake + p.profit \in Nat
                /\ papers' = [SweptPapers EXCEPT ![i] = p]
<1>1. TicksPerEpoch \in Nat \ {0} /\ horizon \in 1..TicksPerEpoch /\ stake \in Nat
  BY OfferedFit DEF SandboxAssumption
<1>2. clock \in Nat /\ startedAt \in Nat /\ startedAt <= clock /\ clock - startedAt < TicksPerEpoch
  BY DEF Made, OpenPaper, Synced
<1>3. PICK ahead \in 0..CallTicks :
         papers' = [SweptPapers EXCEPT ![i] =
            PaperOf(dir, stake, clock', Resolve(dir, horizon, PriceNow, TickIndex + ahead))]
  BY OpensOne
<1> DEFINE play == Resolve(dir, horizon, PriceNow, TickIndex + ahead)
           p == PaperOf(dir, stake, clock', play)
<1>4. papers' = [SweptPapers EXCEPT ![i] = p]
  BY <1>3
<1>5. TickIndex \in Int /\ TickIndex <= TicksPerEpoch - 1 /\ ahead \in 0..1
  BY <1>1, <1>2 DEF TickIndex
<1>6. PriceNow \in Nat \ {0}
  <2>1. TickIndex <= 2 * TicksPerEpoch
    BY <1>1, <1>5
  <2> QED BY <1>5, <2>1, PricesPositive DEF PriceNow
<1>7. play.perUnit \in Int /\ play.perUnit >= -100
  <2>1. TickIndex + ahead \in Int /\ (TickIndex + ahead) + horizon <= 2 * TicksPerEpoch
    BY <1>1, <1>5
  <2>2. horizon \in Nat \ {0}
    BY <1>1
  <2> QED BY <1>6, <2>1, <2>2, ResolvedWhole
<1> HIDE DEF play
<1>8. play.perUnit * stake \in Int
  BY <1>1, <1>7
<1>9. /\ {"status", "stake", "profit", "predicted"} \subseteq DOMAIN p
      /\ p.status = "OPEN" /\ p.stake = stake /\ p.profit = play.perUnit * stake
      /\ p.predicted = play.perUnit * stake
  BY DEF PaperOf
<1> HIDE DEF p
<1>10. Position(p)
  BY <1>1, <1>8, <1>9 DEF Position
<1>12. 100 * p.stake + p.profit \in Nat
  <2> DEFINE u == play.perUnit
  <2>1. u \in Int /\ u >= -100 /\ stake \in Nat
    BY <1>1, <1>7
  <2>2. p.profit = u * stake /\ p.stake = stake
    BY <1>9
  <2> HIDE DEF u
  <2>3. 100 * stake + u * stake = (100 + u) * stake /\ 100 + u \in Nat
    BY ONLY <2>1
  <2>4. (100 + u) * stake \in Nat
    BY ONLY <2>1, <2>3
  <2> QED BY <2>2, <2>3, <2>4
<1>11. /\ Position(p) /\ p.status = "OPEN" /\ p.stake = stake /\ 100 * p.stake + p.profit \in Nat
       /\ papers' = [SweptPapers EXCEPT ![i] = p]
  BY <1>4, <1>9, <1>10, <1>12
<1> QED BY ONLY <1>11, Zenon

\* Each step keeps a session's figures in balance.
LEMMA SessionStep ==
  ASSUME SandboxAssumption, PathsWhole, CallTicks <= 1, PaperEdge <= 2000, Made, SessionInv,
         [SandboxNext]_sandboxVars
  PROVE  SessionInv'
<1>1. ASSUME UNCHANGED sessionVars PROVE SessionInv'
  <2>1. papers' = papers /\ paperBalance' = paperBalance /\ closedPapers' = closedPapers
    BY <1>1 DEF sessionVars
  <2> QED BY <2>1 DEF SessionInv, PapersWhole, Accounts, Lists, Held, StakeOf, ProfitOf
<1>2. /\ PapersWhole(papers) /\ Accounts(papers, paperBalance) /\ Lists(papers, closedPapers)
      /\ PapersWhole(SweptPapers) /\ Accounts(SweptPapers, SweptBalance) /\ Lists(SweptPapers, SweptClosed)
      /\ DOMAIN SweptPapers = PaperIds
      /\ \A i \in PaperIds : papers[i] = NoPaper => SweptPapers[i] = NoPaper
  BY SweepCloses, SweepPays, SweepLists DEF SessionInv
<1>3. CASE ClockTicks BY <1>1, <1>3 DEF ClockTicks
<1>4. CASE SyncEpoch BY <1>1, <1>4 DEF SyncEpoch
<1>5. CASE SweepPapers
  <2>1. papers' = SweptPapers /\ paperBalance' = SweptBalance /\ closedPapers' = SweptClosed
    BY <1>5 DEF SweepPapers
  <2>2. PapersWhole(papers') /\ Accounts(papers', paperBalance') /\ Lists(papers', closedPapers')
    BY <1>2, <2>1
  <2> QED BY <2>2 DEF SessionInv, PapersWhole, Accounts, Lists, Held, StakeOf, ProfitOf
<1>6. CASE ResetPaper
  <2>1. /\ papers' = [i \in PaperIds |-> NoPaper] /\ paperBalance' = 100 * StartingBalance
        /\ closedPapers' = <<>>
    BY <1>6 DEF ResetPaper
  <2>2. PapersWhole(papers') /\ Accounts(papers', paperBalance') /\ Lists(papers', closedPapers')
    BY <2>1, Afresh
  <2> QED BY <2>2 DEF SessionInv, PapersWhole, Accounts, Lists, Held, StakeOf, ProfitOf
<1>7. ASSUME NEW i \in PaperIds, NEW dir \in {"BUY", "SELL"}, NEW stake \in PaperStakes,
             NEW h \in Horizons, OpenPaper(i, dir, stake, h)
      PROVE  SessionInv'
  <2>1. CallTicks \in 0..1
    BY DEF SandboxAssumption
  <2>2. PICK p : /\ Position(p) /\ p.status = "OPEN" /\ p.stake = stake
                 /\ papers' = [SweptPapers EXCEPT ![i] = p]
    BY <1>7, <2>1, OpenedWhole
  <2>3. papers[i] = NoPaper /\ paperBalance' = SweptBalance - 100 * p.stake /\ closedPapers' = SweptClosed
    BY <1>7, <2>2 DEF OpenPaper
  <2>4. SweptPapers[i] = NoPaper
    BY <1>2, <2>3
  <2>5. /\ PapersWhole(papers') /\ Accounts(papers', SweptBalance - 100 * p.stake)
        /\ Lists(papers', SweptClosed)
    <3> DEFINE P == SweptPapers
               balance == SweptBalance
               kept == SweptClosed
               Q == papers'
    <3>1. /\ DOMAIN P = PaperIds /\ PapersWhole(P) /\ Accounts(P, balance) /\ Lists(P, kept)
          /\ P[i] = NoPaper /\ Position(p) /\ p.status = "OPEN" /\ Q = [P EXCEPT ![i] = p]
      BY <1>2, <2>2, <2>4
    <3> HIDE DEF P, balance, kept, Q
    <3>2. Opens(Q, balance - 100 * p.stake, kept)
      BY ONLY <3>1, SandboxAssumption, Opening
    <3> QED BY <3>2 DEF Q, balance, kept, Opens
  <2>6. PapersWhole(papers') /\ Accounts(papers', paperBalance') /\ Lists(papers', closedPapers')
    BY <2>3, <2>5
  <2> QED BY <2>6 DEF SessionInv, PapersWhole, Accounts, Lists, Held, StakeOf, ProfitOf
<1>8. CASE UNCHANGED sandboxVars BY <1>1, <1>8 DEF sandboxVars
<1> QED BY <1>3, <1>4, <1>5, <1>6, <1>7, <1>8 DEF SandboxNext

\* So the screen adds up: when the list holds as many positions as have closed, it holds
\* those, and its profits are theirs.
LEMMA ScreenAddsUp ==
  ASSUME SandboxAssumption, SessionInv
  PROVE  SessionAddsUp
<1> DEFINE screen == SessionState
           open == Held(papers, "OPEN")
           closed == Held(papers, "CLOSED")
           count == Len(closedPapers)
           stakes == [i \in DOMAIN screen.open |-> 100 * screen.open[i].stake]
           profits == [n \in DOMAIN screen.closed |-> screen.closed[n].profit]
<1>1. PapersWhole(papers) /\ Accounts(papers, paperBalance) /\ Lists(papers, closedPapers)
  BY DEF SessionInv
<1>2. /\ \A i \in PaperIds : StakeOf(papers)[i] \in Int /\ ProfitOf(papers)[i] \in Int
      /\ open \in SUBSET PaperIds /\ IsFiniteSet(open) /\ closed \in SUBSET PaperIds /\ IsFiniteSet(closed)
  BY <1>1, AmountsWhole
<1>3. /\ closedPapers \in Seq(PaperIds) /\ count \in Nat /\ DOMAIN closedPapers = 1..count
      /\ closedPapers \in [1..count -> PaperIds]
      /\ \A m, n \in 1..count : closedPapers[m] = closedPapers[n] => m = n
      /\ \A n \in 1..count : closedPapers[n] \in closed
  <2>1. closedPapers \in Seq(PaperIds)
    BY <1>1 DEF Lists
  <2>2. count \in Nat /\ DOMAIN closedPapers = 1..count /\ closedPapers \in [1..count -> PaperIds]
    BY <2>1, LenProperties
  <2>3. \A n \in 1..count : closedPapers[n] \in PaperIds /\ papers[closedPapers[n]].status = "CLOSED"
    BY <1>1, <2>2 DEF Lists
  <2> QED BY <1>1, <2>1, <2>2, <2>3 DEF Lists, Held
<1>4. /\ screen.balance = paperBalance /\ screen.checked = count
      /\ screen.open = [i \in open |-> [stake |-> papers[i].stake, predicted |-> papers[i].predicted]]
      /\ screen.closed = [n \in DOMAIN closedPapers |-> papers[closedPapers[n]]]
      /\ screen.matched = Cardinality({n \in DOMAIN closedPapers :
                              papers[closedPapers[n]].predicted = papers[closedPapers[n]].profit})
  BY DEF SessionState, Held
<1>5. \A i \in PaperIds : papers[i] # NoPaper => Position(papers[i])
  BY <1>1 DEF PapersWhole
<1>6. \A i \in open \cup closed : papers[i] # NoPaper /\ Position(papers[i])
  <2> SUFFICES ASSUME NEW i \in open \cup closed PROVE papers[i] # NoPaper /\ Position(papers[i])
    OBVIOUS
  <2>1. i \in PaperIds /\ papers[i].status \in {"OPEN", "CLOSED"}
    BY DEF Held
  <2>2. NoPaper.status = "NONE"
    BY DEF NoPaper
  <2> QED BY <1>5, <2>1, <2>2
<1> HIDE DEF screen, count
<1>7. screen.matched = screen.checked
  <2>1. \A n \in 1..count : papers[closedPapers[n]].predicted = papers[closedPapers[n]].profit
    BY <1>3, <1>6 DEF Position
  <2>2. {n \in DOMAIN closedPapers :
           papers[closedPapers[n]].predicted = papers[closedPapers[n]].profit} = 1..count
    BY <1>3, <2>1
  <2>3. Cardinality(1..count) = count
    <3>1. 1 \in Int /\ count \in Int
      BY <1>3
    <3>2. Cardinality(1..count) = IF 1 > count THEN 0 ELSE count - 1 + 1
      BY ONLY <3>1, FS_Interval
    <3> QED BY <1>3, <3>2
  <2> QED BY <1>4, <2>2, <2>3
<1>8. SumFunction(stakes) = SumFunctionOnSet(StakeOf(papers), open)
  <2>1. DOMAIN stakes = open /\ DOMAIN screen.open = open
    BY <1>4
  <2>2. \A i \in open : stakes[i] = StakeOf(papers)[i] /\ StakeOf(papers)[i] \in Int
    <3> SUFFICES ASSUME NEW i \in open
                 PROVE  stakes[i] = StakeOf(papers)[i] /\ StakeOf(papers)[i] \in Int
      OBVIOUS
    <3>1. stakes[i] = 100 * papers[i].stake
      BY <1>4, <2>1
    <3>2. StakeOf(papers)[i] = 100 * papers[i].stake /\ i \in PaperIds
      BY <1>2, <1>6 DEF StakeOf
    <3> QED BY <1>2, <3>1, <3>2
  <2> HIDE DEF stakes, open
  <2>3. SumFunctionOnSet(StakeOf(papers), open) = SumFunctionOnSet(stakes, open)
    BY <1>2, <2>2, SumSame
  <2> QED BY <2>1, <2>3 DEF SumFunction
<1>9. ASSUME count = Cardinality(closed)
      PROVE  SumFunction(profits) = SumFunctionOnSet(ProfitOf(papers), closed)
  <2>1. DOMAIN profits = 1..count /\ DOMAIN screen.closed = 1..count
    BY <1>3, <1>4
  <2>2. closedPapers \in [1..count -> closed]
    BY <1>3
  <2>3. \A n \in 1..count : profits[n] = ProfitOf(papers)[closedPapers[n]]
    <3> SUFFICES ASSUME NEW n \in 1..count PROVE profits[n] = ProfitOf(papers)[closedPapers[n]]
      OBVIOUS
    <3>1. profits[n] = papers[closedPapers[n]].profit
      BY <1>3, <1>4, <2>1
    <3>2. closedPapers[n] \in closed /\ closedPapers[n] \in PaperIds /\ papers[closedPapers[n]] # NoPaper
      BY <1>2, <1>3, <1>6
    <3> QED BY <3>1, <3>2 DEF ProfitOf
  <2>4. \A i \in closed : ProfitOf(papers)[i] \in Int
    BY <1>2
  <2> HIDE DEF profits, closed
  <2> DEFINE f == ProfitOf(papers)
             q == closedPapers
  <2>5. /\ count \in Nat /\ IsFiniteSet(closed) /\ \A i \in closed : f[i] \in Int
        /\ q \in [1..count -> closed] /\ \A m, n \in 1..count : q[m] = q[n] => m = n
        /\ \A n \in 1..count : profits[n] = f[q[n]]
    BY <1>2, <1>3, <2>2, <2>3, <2>4
  <2> HIDE DEF f, q
  <2>6. SumFunctionOnSet(profits, 1..count) = SumFunctionOnSet(f, {q[n] : n \in 1..count})
    BY ONLY <2>5, SumAlong
  <2>7. closed = {q[n] : n \in 1..count}
    BY ONLY <2>5, <1>9, Exhausts
  <2> QED BY <2>1, <2>6, <2>7 DEF SumFunction, f
<1>10. paperBalance + SumFunctionOnSet(StakeOf(papers), open)
          = 100 * StartingBalance + SumFunctionOnSet(ProfitOf(papers), closed)
  BY <1>1 DEF Accounts
<1>11. Len(screen.closed) = count
  <2>1. screen.closed \in [1..count -> {papers[closedPapers[n]] : n \in 1..count}]
    BY <1>3, <1>4
  <2> DEFINE S == {papers[closedPapers[n]] : n \in 1..count}
  <2>2. screen.closed \in Seq(S)
    <3>1. screen.closed \in [1..count -> S] /\ count \in Nat
      BY <1>3, <2>1
    <3> HIDE DEF S
    <3> QED BY ONLY <3>1
  <2>3. DOMAIN screen.closed = 1..count /\ DOMAIN screen.closed = 1..Len(screen.closed)
        /\ Len(screen.closed) \in Nat
    BY <2>1, <2>2, LenProperties
  <2> QED BY <1>3, <2>3
<1>12. count = Cardinality(closed) =>
          screen.balance + SumFunction(stakes) = 100 * StartingBalance + SumFunction(profits)
  BY <1>4, <1>8, <1>9, <1>10
<1> QED BY <1>7, <1>11, <1>12 DEF SessionAddsUp, screen, Held

-----------------------------------------------------------------------------
(* Sandbox: the oracle can be checked by hand. *)

Better(b, a) == \/ b.perUnit > a.perUnit
                \/ b.perUnit = a.perUnit /\ b.horizon < a.horizon
Reduces(g, plays) ==
    g = [n \in DOMAIN plays |-> IF n = 1 \/ Better(plays[n], g[n - 1]) THEN plays[n] ELSE g[n - 1]]

\* What the reduce comes to.
LEMMA BestIs ==
  ASSUME NEW plays
  PROVE  Best(plays) = (CHOOSE g : Reduces(g, plays))[Len(plays)]
BY DEF Best, Reduces, Better

\* It comes to something.
LEMMA BestExists ==
  ASSUME NEW m \in Nat \ {0}, NEW plays, DOMAIN plays = 1..m
  PROVE  \E g : Reduces(g, plays)
<1> DEFINE T == {plays[n] : n \in 1..m}
           step == [k \in 2..m |-> [a \in T |-> IF Better(plays[k], a) THEN plays[k] ELSE a]]
<1>1. \A k \in 2..m : step[k] \in [T -> T]
  <2> SUFFICES ASSUME NEW k \in 2..m PROVE step[k] \in [T -> T]
    OBVIOUS
  <2>1. plays[k] \in T
    OBVIOUS
  <2> HIDE DEF T
  <2> QED BY <2>1
<1>2. plays[1] \in T
  OBVIOUS
<1>3. \A k \in 2..m : \A a \in T : step[k][a] = IF Better(plays[k], a) THEN plays[k] ELSE a
  <2> HIDE DEF T
  <2> QED OBVIOUS
<1>4. \A k \in 2..m : plays[k] \in T
  OBVIOUS
<1> HIDE DEF T, step
<1>5. PICK g \in [1..m -> T] : \A k \in 1..m : g[k] = IF k = 1 THEN plays[1] ELSE step[k][g[k - 1]]
  <2> DEFINE base == plays[1]
             first == 1
  <2>1. StepsIn(step, first, m, T)
    BY <1>1 DEF StepsIn
  <2>2. first \in Int /\ m \in Int /\ first <= m /\ base \in T
    BY <1>2
  <2> HIDE DEF base, first
  <2>3. \E g : g \in [first..m -> T] /\ Follows(g, first, m, base, step)
    BY ONLY <2>1, <2>2, Recursion
  <2> QED BY <2>3 DEF base, first, Follows
<1>6. ASSUME NEW n \in 1..m
      PROVE  g[n] = IF n = 1 \/ Better(plays[n], g[n - 1]) THEN plays[n] ELSE g[n - 1]
  <2>1. CASE n = 1 BY <1>5, <2>1
  <2>2. CASE n # 1
    <3>1. n \in 2..m /\ n - 1 \in 1..m /\ g[n - 1] \in T BY <2>2
    <3>2. g[n] = step[n][g[n - 1]] BY <1>5, <2>2
    <3> QED BY <1>3, <2>2, <3>1, <3>2
  <2> QED BY <2>1, <2>2
<1>7. Reduces(g, plays)
  BY <1>6 DEF Reduces
<1> QED BY <1>7

\* No play is better than the best.
LEMMA BestIsBest ==
  ASSUME NEW m \in Nat \ {0}, NEW plays, DOMAIN plays = 1..m, Len(plays) = m,
         \A n \in 1..m : plays[n].perUnit \in Int /\ plays[n].horizon \in Int
  PROVE  \A n \in 1..m : /\ plays[n].perUnit <= Best(plays).perUnit
                         /\ plays[n].perUnit = Best(plays).perUnit => Best(plays).horizon <= plays[n].horizon
<1> DEFINE g == CHOOSE h : Reduces(h, plays)
           Tops(k) == /\ g[k].perUnit \in Int /\ g[k].horizon \in Int
                      /\ \A n \in 1..k : /\ plays[n].perUnit <= g[k].perUnit
                                         /\ plays[n].perUnit = g[k].perUnit => g[k].horizon <= plays[n].horizon
           P == {k \in 1..m : Tops(k)}
<1>1. Reduces(g, plays)
  BY BestExists
<1> HIDE DEF g
<1>2. \A n \in 1..m : g[n] = IF n = 1 \/ Better(plays[n], g[n - 1]) THEN plays[n] ELSE g[n - 1]
  BY <1>1 DEF Reduces
<1>3. 1 \in P
  <2>1. 1 \in 1..m /\ g[1] = plays[1]
    BY <1>2
  <2> QED BY <2>1
<1>4. ASSUME NEW k \in 2..m, k - 1 \in P PROVE k \in P
  <2>1. Tops(k - 1) /\ k \in 1..m /\ k # 1
    BY <1>4
  <2> DEFINE a == g[k - 1]
             b == plays[k]
  <2>2. g[k] = IF Better(b, a) THEN b ELSE a
    BY <1>2, <2>1
  <2>3. /\ a.perUnit \in Int /\ a.horizon \in Int /\ b.perUnit \in Int /\ b.horizon \in Int
        /\ \A n \in 1 .. k - 1 : /\ plays[n].perUnit <= a.perUnit
                                 /\ plays[n].perUnit = a.perUnit => a.horizon <= plays[n].horizon
    BY <2>1
  <2>4. ASSUME NEW n \in 1..k PROVE n = k \/ n \in 1 .. k - 1
    OBVIOUS
  <2>5. \A n \in 1 .. k - 1 : plays[n].perUnit \in Int /\ plays[n].horizon \in Int
    BY <2>1
  <2> HIDE DEF a
  <2>6. CASE Better(b, a)
    <3>1. g[k] = b BY <2>2, <2>6
    <3>2. b.perUnit > a.perUnit \/ (b.perUnit = a.perUnit /\ b.horizon < a.horizon)
      BY <2>6 DEF Better
    <3>3. ASSUME NEW n \in 1..k
          PROVE  plays[n].perUnit <= b.perUnit /\ (plays[n].perUnit = b.perUnit => b.horizon <= plays[n].horizon)
      <4>1. CASE n = k BY <2>3, <4>1
      <4>2. CASE n \in 1 .. k - 1
        <5>1. /\ plays[n].perUnit <= a.perUnit /\ plays[n].perUnit \in Int /\ plays[n].horizon \in Int
              /\ plays[n].perUnit = a.perUnit => a.horizon <= plays[n].horizon
          BY <2>3, <2>5, <4>2
        <5> HIDE DEF b
        <5> QED BY <2>3, <3>2, <5>1
      <4> QED BY <2>4, <4>1, <4>2
    <3> HIDE DEF b
    <3> QED BY <2>1, <2>3, <3>1, <3>3
  <2>7. CASE ~Better(b, a)
    <3>1. g[k] = a BY <2>2, <2>7
    <3>2. b.perUnit <= a.perUnit /\ (b.perUnit = a.perUnit => a.horizon <= b.horizon)
      <4> HIDE DEF b
      <4> QED BY <2>3, <2>7 DEF Better
    <3>3. ASSUME NEW n \in 1..k
          PROVE  plays[n].perUnit <= a.perUnit /\ (plays[n].perUnit = a.perUnit => a.horizon <= plays[n].horizon)
      <4>1. CASE n = k BY <3>2, <4>1
      <4>2. CASE n \in 1 .. k - 1 BY <2>3, <4>2
      <4> QED BY <2>4, <4>1, <4>2
    <3> QED BY <2>1, <2>3, <3>1, <3>3
  <2> QED BY <2>6, <2>7
<1>5. m \in P
  <2> HIDE DEF P
  <2>1. 1 \in Int /\ m \in Int /\ \A k \in 1 + 1 .. m : k - 1 \in P => k \in P
    BY <1>4
  <2>2. 1..m \subseteq P
    BY <1>3, <2>1, Steps
  <2> QED BY <2>2
<1>6. Best(plays) = g[m]
  BY BestIs DEF g
<1> QED BY <1>5, <1>6

\* The plays that are shown: each for a duration that is offered, over before it, at the price
\* the market then has.
LEMMA PlaysShown ==
  ASSUME PathsWhole, SandboxAssumption, Made, PaperEdge <= 2000, Synced
  PROVE  \E m \in Nat \ {0} :
            /\ DOMAIN Plays = 1..m /\ Len(Plays) = m
            /\ \A n \in 1..m : /\ Plays[n].perUnit \in Int /\ Plays[n].horizon \in 1..TicksPerEpoch
                               /\ Plays[n].ticks \in 1..TicksPerEpoch
                               /\ Plays[n].exit = PriceAtTick(TickIndex + Plays[n].ticks)
<1> DEFINE m == 2 * Len(Durations)
           side(n) == IF n % 2 = 1 THEN "BUY" ELSE "SELL"
           horizon(n) == Durations[(n + 1) \div 2]
           play(n) == Resolve(side(n), horizon(n), PriceNow, TickIndex)
<1>1. TicksPerEpoch \in Nat \ {0} /\ Durations \in Seq(1..TicksPerEpoch) /\ Durations # <<>>
  BY DEF SandboxAssumption
<1>2. Len(Durations) \in Nat \ {0} /\ \A k \in 1..Len(Durations) : Durations[k] \in 1..TicksPerEpoch
  <2>1. Len(Durations) \in Nat /\ Durations \in [1..Len(Durations) -> 1..TicksPerEpoch]
    BY <1>1, LenProperties
  <2>2. Len(Durations) # 0
    BY <1>1
  <2> QED BY <2>1, <2>2
<1>3. m \in Nat \ {0}
  BY <1>2
<1>4. Plays = [n \in 1..m |-> play(n)]
  BY DEF Plays
<1>5. TickIndex \in Int /\ TickIndex <= TicksPerEpoch - 1
  BY <1>1 DEF Made, Synced, TickIndex
<1>6. PriceNow \in Nat \ {0}
  <2>1. TickIndex <= 2 * TicksPerEpoch
    BY <1>1, <1>5
  <2> QED BY <1>5, <2>1, PricesPositive DEF PriceNow
<1>7. ASSUME NEW n \in 1..m
      PROVE  /\ play(n).perUnit \in Int /\ play(n).horizon \in 1..TicksPerEpoch
             /\ play(n).ticks \in 1..TicksPerEpoch
             /\ play(n).exit = PriceAtTick(TickIndex + play(n).ticks)
  <2>1. (n + 1) \div 2 \in 1..Len(Durations)
    BY <1>2
  <2>2. horizon(n) \in 1..TicksPerEpoch
    BY <1>2, <2>1
  <2>3. side(n) \in {"BUY", "SELL"}
    OBVIOUS
  <2> DEFINE dir == side(n)
             h == horizon(n)
             r == Resolve(dir, h, PriceNow, TickIndex)
  <2>4. dir \in {"BUY", "SELL"} /\ h \in Nat \ {0} /\ h \in 1..TicksPerEpoch
        /\ TickIndex + h <= 2 * TicksPerEpoch
    <3> HIDE DEF dir, h
    <3>1. h \in 1..TicksPerEpoch /\ dir \in {"BUY", "SELL"}
      BY <2>2, <2>3 DEF dir, h
    <3> QED BY <1>1, <1>5, <3>1
  <2> HIDE DEF dir, h
  <2>5. r.horizon = h
    BY DEF Resolve
  <2>6. r.ticks \in 1..h /\ r.exit = PriceAtTick(TickIndex + r.ticks)
    BY <1>5, <2>4, ResolvedAhead
  <2>7. r.perUnit \in Int
    BY <1>5, <1>6, <2>4, ResolvedWhole
  <2>8. r = play(n)
    BY DEF dir, h
  <2> HIDE DEF r
  <2>9. r.ticks \in 1..TicksPerEpoch
    BY <1>1, <2>4, <2>6
  <2> QED BY <2>4, <2>5, <2>6, <2>7, <2>8, <2>9
<1> HIDE DEF play, m
<1>8. DOMAIN Plays = 1..m /\ \A n \in 1..m : Plays[n] = play(n)
  BY <1>4
<1>9. Len(Plays) = m
  <2> DEFINE S == {play(n) : n \in 1..m}
  <2>1. Plays \in [1..m -> S]
    BY <1>4
  <2>2. Plays \in Seq(S)
    <3> HIDE DEF S
    <3> QED BY <1>3, <2>1
  <2>3. Len(Plays) \in Nat /\ DOMAIN Plays = 1..Len(Plays)
    BY <2>2, LenProperties
  <2> QED BY <1>3, <1>8, <2>3
<1> QED BY <1>3, <1>7, <1>8, <1>9

\* The oracle, of a market whose epochs are those their seeds make.
LEMMA OracleHolds ==
  ASSUME PathsWhole, SandboxAssumption, Made, PaperEdge <= 2000
  PROVE  OracleTrue
<1> SUFFICES ASSUME Synced PROVE OracleTrue
  BY DEF OracleTrue
<1> DEFINE o == Oracle
           computed == PathOf(o.epoch.seed, o.epoch.epoch, o.epoch.startPrice)
<1>1. /\ o.plays = ToSet(Plays) /\ o.best = Best(Plays) /\ o.epoch = Reveal
      /\ o.future = [n \in 1..(2 * TicksPerEpoch - TickIndex) |-> PriceAtTick(TickIndex + n)]
  BY DEF Oracle
<1>2. /\ o.epoch.seed = epochSeed /\ o.epoch.epoch = epochNumber /\ o.epoch.startPrice = startPrice
      /\ o.epoch.tick = TickIndex
  BY <1>1 DEF Reveal
<1> HIDE DEF o
<1>3. /\ TicksPerEpoch \in Nat \ {0}
      /\ \A k \in Int : PriceAtTick(k) = IF k <= 0 THEN startPrice
                                         ELSE IF k <= TicksPerEpoch THEN path[k]
                                         ELSE nextPath[k - TicksPerEpoch]
  BY PricedAhead
<1>4. computed = path
  BY <1>2 DEF Made
<1>5. TickIndex \in Nat /\ TickIndex <= TicksPerEpoch - 1
  BY <1>3 DEF Made, Synced, TickIndex
<1>6. \A n \in 1..TicksPerEpoch : o.future[n] = PriceAtTick(TickIndex + n)
  BY <1>1, <1>3, <1>5
<1>7. ASSUME NEW k \in o.epoch.tick + 1 .. TicksPerEpoch
      PROVE  o.future[k - o.epoch.tick] = computed[k]
  <2>1. k \in Int /\ k > 0 /\ k <= TicksPerEpoch /\ k - TickIndex \in 1..TicksPerEpoch
        /\ TickIndex + (k - TickIndex) = k
    BY <1>2, <1>3, <1>5
  <2>2. o.future[k - TickIndex] = PriceAtTick(k)
    BY <1>6, <2>1
  <2> QED BY <1>2, <1>3, <1>4, <2>1, <2>2
<1>8. PICK m \in Nat \ {0} :
         /\ DOMAIN Plays = 1..m /\ Len(Plays) = m
         /\ \A n \in 1..m : /\ Plays[n].perUnit \in Int /\ Plays[n].horizon \in 1..TicksPerEpoch
                            /\ Plays[n].ticks \in 1..TicksPerEpoch
                            /\ Plays[n].exit = PriceAtTick(TickIndex + Plays[n].ticks)
  BY PlaysShown
<1>9. \A n \in 1..m : /\ Plays[n].perUnit <= Best(Plays).perUnit
                      /\ Plays[n].perUnit = Best(Plays).perUnit => Best(Plays).horizon <= Plays[n].horizon
  <2>1. /\ DOMAIN Plays = 1..m /\ Len(Plays) = m
        /\ \A n \in 1..m : Plays[n].perUnit \in Int /\ Plays[n].horizon \in Int
    BY <1>3, <1>8
  <2> QED BY ONLY <2>1, BestIsBest
<1>10. \A play \in o.plays : \E n \in 1..m : play = Plays[n]
  BY <1>1, <1>8 DEF ToSet
<1>11. \A play \in o.plays : play.exit = o.future[play.ticks]
  <2> SUFFICES ASSUME NEW play \in o.plays PROVE play.exit = o.future[play.ticks]
    OBVIOUS
  <2>1. PICK n \in 1..m : play = Plays[n]
    BY <1>10
  <2>2. play.ticks \in 1..TicksPerEpoch /\ play.exit = PriceAtTick(TickIndex + play.ticks)
    BY <1>8, <2>1
  <2> QED BY <1>6, <2>2
<1>12. \A play \in o.plays : /\ play.perUnit <= o.best.perUnit
                             /\ play.perUnit = o.best.perUnit => o.best.horizon <= play.horizon
  <2> SUFFICES ASSUME NEW play \in o.plays
               PROVE  /\ play.perUnit <= o.best.perUnit
                      /\ play.perUnit = o.best.perUnit => o.best.horizon <= play.horizon
    OBVIOUS
  <2>1. PICK n \in 1..m : play = Plays[n]
    BY <1>10
  <2> QED BY <1>1, <1>9, <2>1
<1>13. \A h \in Horizons : Predictions[h] = o.future[h]
  <2> SUFFICES ASSUME NEW h \in Horizons PROVE Predictions[h] = o.future[h]
    OBVIOUS
  <2>1. h \in 1..TicksPerEpoch
    BY OfferedFit
  <2> QED BY <1>6, <2>1 DEF Predictions
<1> QED BY <1>7, <1>11, <1>12, <1>13 DEF OracleTrue, o

\* One step keeps all that was said of the market and of the session.
LEMMA HonestStep ==
  ASSUME SandboxAssumption, PathsWhole, CallTicks <= 1, PaperEdge <= 2000,
         SandboxInv, SessionInv, [SandboxNext]_sandboxVars
  PROVE  SandboxInv' /\ SessionInv'
<1>1. Made
  BY DEF SandboxInv
<1> QED BY <1>1, SandboxStep, SessionStep

\* It is so at the start.
LEMMA HonestStarts ==
  ASSUME SandboxAssumption, PathsWhole, SandboxInit
  PROVE  SandboxInv /\ SessionInv
<1>1. PapersWhole(papers) /\ Accounts(papers, paperBalance) /\ Lists(papers, closedPapers)
  BY Afresh DEF SandboxInit
<1> QED BY <1>1, SandboxStarts DEF SessionInv

\* And what is shown can be checked.
LEMMA HonestShown ==
  ASSUME SandboxAssumption, PathsWhole, PaperEdge <= 2000, SandboxInv, SessionInv
  PROVE  SandboxHonest
<1>1. Made
  BY DEF SandboxInv
<1> QED BY <1>1, ScreenAddsUp, OracleHolds DEF SandboxHonest

\* SandboxHonest, for any seeds, stakes, durations and number of positions: whatever was
\* swept, opened and reset in which order a session's screen adds up, and the oracle is
\* what the seed it reveals computes.
THEOREM SandboxHonestAlways ==
  ASSUME PathsWhole, CallTicks <= 1, PaperEdge <= 2000
  PROVE  SandboxSpec => []SandboxHonest
<1>1. SandboxInit => SandboxInv /\ SessionInv
  BY SandboxAssumption, HonestStarts
<1>2. (SandboxInv /\ SessionInv) /\ [SandboxNext]_sandboxVars => (SandboxInv /\ SessionInv)'
  BY SandboxAssumption, HonestStep
<1>3. SandboxInv /\ SessionInv => SandboxHonest
  BY SandboxAssumption, HonestShown
<1> QED BY <1>1, <1>2, <1>3, PTL DEF SandboxSpec

-----------------------------------------------------------------------------
(* Replay: what is said of a revealed epoch is what it traded, for any seeds and any
   computation of prices that gives a positive one for each tick, any number of epochs,
   and any settings of the live market. *)

\* "Math.max(..., minPrice)": a computed price is positive.
ReplayPriced ==
    \A s \in ReplaySeeds, n \in Nat, start \in Nat \ {0} :
        ReplayPath(s, n, start, 1) \in [1..EpochTicks -> Nat \ {0}]

\* The live market's epochs, one after another, and the one that runs keeps its seed.
Epochs == [n : Nat, seed : ReplaySeeds, start : Nat \ {0}, ticked : 0..EpochTicks, published : Int]
LivedOK ==
    /\ lived \in Seq(Epochs) /\ Len(lived) >= 1
    /\ \A i \in 1 .. Len(lived) : lived[i].n = i
    /\ lived[Len(lived)].published = Withheld

\* The epochs that are over and whose seed is the one they ran on: all that is ever read.
RevealedEpochs == {lived[i] : i \in {j \in 1 .. Len(lived) - 1 : Verified(lived[j])}}
ReplayInv ==
    /\ LivedOK /\ keptEpochs \in Seq(RevealedEpochs)
    /\ study # NoStudy => study.epoch \in RevealedEpochs

\* The last epoch is one.
LEMMA RunningIs ==
  ASSUME LivedOK
  PROVE  /\ Len(lived) \in Nat \ {0} /\ lived \in Seq(Epochs)
         /\ Running = lived[Len(lived)] /\ Running \in Epochs /\ Running.n = Len(lived)
<1>1. lived \in Seq(Epochs) /\ Len(lived) \in Nat /\ Len(lived) >= 1
  BY DEF LivedOK
<1>2. Running = lived[Len(lived)]
  BY DEF Running, Last
<1>3. lived[Len(lived)] \in Epochs
  BY <1>1, ElementOfSeq
<1>4. lived[Len(lived)].n = Len(lived)
  BY <1>1 DEF LivedOK
<1> QED BY <1>1, <1>2, <1>3, <1>4

\* What a replay computes for a revealed epoch is what its market ran on.
LEMMA EpochPath ==
  ASSUME ReplayAssumption, ReplayPriced, LivedOK, NEW e \in RevealedEpochs
  PROVE  /\ e \in Epochs /\ e.published = e.seed
         /\ Rebuilt(e, 1) = ReplayPath(e.seed, e.n, e.start, 1)
         /\ Rebuilt(e, 1) \in [1..EpochTicks -> Nat \ {0}]
         /\ lived[e.n] = e /\ e.n \in 1 .. Len(lived) - 1
<1>1. PICK i \in 1 .. Len(lived) - 1 : e = lived[i] /\ Verified(lived[i])
  BY DEF RevealedEpochs
<1>2. e \in Epochs
  BY <1>1, ElementOfSeq DEF LivedOK
<1>3. e.published = e.seed
  BY <1>1 DEF Verified
<1>4. e.n = i
  BY <1>1 DEF LivedOK
<1>5. ReplayPath(e.seed, e.n, e.start, 1) \in [1..EpochTicks -> Nat \ {0}]
  BY <1>2 DEF ReplayPriced, Epochs
<1> QED BY <1>1, <1>2, <1>3, <1>4, <1>5 DEF Rebuilt

\* The epochs before the last stay as they are.
LEMMA RevealedStays ==
  ASSUME LivedOK, LivedOK', Len(lived) <= Len(lived)', \A i \in 1 .. Len(lived) - 1 : lived'[i] = lived[i]
  PROVE  RevealedEpochs \subseteq RevealedEpochs'
<1>1. Len(lived) \in Nat /\ Len(lived)' \in Nat
  BY DEF LivedOK
<1> SUFFICES ASSUME NEW e \in RevealedEpochs PROVE e \in RevealedEpochs'
  OBVIOUS
<1>2. PICK i \in 1 .. Len(lived) - 1 : e = lived[i] /\ Verified(lived[i])
  BY DEF RevealedEpochs
<1>3. i \in 1 .. Len(lived)' - 1 /\ e = lived'[i] /\ Verified(lived'[i])
  BY <1>1, <1>2
<1> QED BY <1>3 DEF RevealedEpochs, Verified

\* A tick of the epoch that runs.
LEMMA TickKeeps ==
  ASSUME ReplayAssumption, LivedOK, LiveTicks
  PROVE  LivedOK' /\ RevealedEpochs \subseteq RevealedEpochs'
<1> DEFINE L == Len(lived)
           e == [lived[L] EXCEPT !.ticked = @ + 1]
<1>1. L \in Nat /\ L >= 1 /\ L \in 1..L
  BY DEF LivedOK
<1>2. lived[L] \in Epochs
  BY <1>1, ElementOfSeq DEF LivedOK
<1>3. e \in Epochs /\ e.n = lived[L].n /\ e.published = lived[L].published
  <2>1. lived[L].ticked < EpochTicks
    BY DEF LiveTicks, Running, Last
  <2>2. lived[L].ticked + 1 \in 0..EpochTicks
    BY <1>2, <2>1 DEF Epochs, ReplayAssumption
  <2> QED BY <1>2, <2>2 DEF Epochs
<1>4. lived' = [lived EXCEPT ![L] = e]
  BY DEF LiveTicks
<1>5. lived \in Seq(Epochs)
  BY DEF LivedOK
<1> HIDE DEF e, L
<1>6. lived' \in Seq(Epochs) /\ Len(lived') = Len(lived)
      /\ \A j \in 1..Len(lived) : lived'[j] = IF j = L THEN e ELSE lived[j]
  BY <1>1, <1>3, <1>4, <1>5, ExceptSeq DEF L
<1>7. LivedOK'
  BY <1>1, <1>3, <1>6 DEF LivedOK, L
<1>8. \A i \in 1 .. Len(lived) - 1 : lived'[i] = lived[i]
  BY <1>1, <1>6 DEF L
<1> QED BY <1>1, <1>6, <1>7, <1>8, RevealedStays DEF L

\* The epoch that runs ends, and another begins.
LEMMA NextOpens ==
  ASSUME ReplayAssumption, LivedOK, NEW seed \in Int, NEW s \in ReplaySeeds, NEW start \in Nat \ {0},
         lived' = Append([lived EXCEPT ![Len(lived)].published = seed],
                         Opened(Running.n + 1, s, start))
  PROVE  LivedOK' /\ RevealedEpochs \subseteq RevealedEpochs'
<1> DEFINE L == Len(lived)
           e == [lived[L] EXCEPT !.published = seed]
           f == Opened(Running.n + 1, s, start)
           m == [lived EXCEPT ![L] = e]
<1>1. L \in Nat /\ L >= 1 /\ L \in 1..L /\ lived \in Seq(Epochs)
  BY DEF LivedOK
<1>2. lived[L] \in Epochs /\ lived[L].n = L
  BY <1>1, ElementOfSeq DEF LivedOK
<1>3. e \in Epochs /\ e.n = L
  BY <1>2 DEF Epochs
<1>4. f \in Epochs /\ f.n = L + 1 /\ f.published = Withheld
  BY <1>1, <1>2 DEF Epochs, Opened, Running, Last, Withheld, ReplayAssumption
<1>5. lived' = Append(m, f)
  OBVIOUS
<1> HIDE DEF e, L, f
<1>6. m \in Seq(Epochs) /\ Len(m) = L /\ \A j \in 1..L : m[j] = IF j = L THEN e ELSE lived[j]
  BY <1>1, <1>3, ExceptSeq DEF L
<1> HIDE DEF m
<1>7. lived' \in Seq(Epochs) /\ Len(lived') = L + 1 /\ lived'[L + 1] = f
      /\ \A j \in 1..L : lived'[j] = m[j]
  <2>1. m \in Seq(Epochs) /\ f \in Epochs /\ Len(m) = L
    BY <1>4, <1>6
  <2>2. /\ Append(m, f) \in Seq(Epochs) /\ Len(Append(m, f)) = Len(m) + 1
        /\ \A j \in 1 .. Len(m) : Append(m, f)[j] = m[j]
        /\ Append(m, f)[Len(m) + 1] = f
    BY ONLY <2>1, AppendProperties
  <2> QED BY ONLY <1>5, <2>1, <2>2
<1>8. LivedOK'
  <2>1. \A j \in 1 .. L + 1 : lived'[j].n = j
    <3> SUFFICES ASSUME NEW j \in 1 .. L + 1 PROVE lived'[j].n = j
      OBVIOUS
    <3>1. CASE j = L + 1
      BY <3>1, <1>4, <1>7
    <3>2. CASE j = L
      BY <3>2, <1>1, <1>3, <1>6, <1>7
    <3>3. CASE j < L
      BY <3>3, <1>1, <1>6, <1>7 DEF LivedOK, L
    <3> QED BY ONLY <3>1, <3>2, <3>3, <1>1, j \in 1 .. L + 1
  <2> QED BY <2>1, <1>1, <1>4, <1>7 DEF LivedOK
<1>9. \A i \in 1 .. L - 1 : lived'[i] = lived[i]
  BY <1>1, <1>6, <1>7
<1>10. L <= Len(lived')
  BY <1>1, <1>7
<1> QED BY <1>8, <1>9, <1>10, RevealedStays DEF L

\* Where the market goes on is a price.
LEMMA LastTick ==
  ASSUME ReplayAssumption, ReplayPriced, LivedOK, Running.ticked = EpochTicks
  PROVE  Last(TrueTicks(Running)) \in Nat \ {0}
<1> DEFINE P == ReplayPath(Running.seed, Running.n, Running.start, 1)
<1>1. Running \in Epochs
  BY ElementOfSeq DEF LivedOK, Running, Last
<1>2. P \in [1..EpochTicks -> Nat \ {0}]
  BY <1>1 DEF ReplayPriced, Epochs
<1>3. EpochTicks \in Nat \ {0}
  BY DEF ReplayAssumption
<1> HIDE DEF P
<1>4. \A i \in 1..EpochTicks : P[i] \in Nat \ {0}
  BY <1>2
<1> DEFINE q == SubSeq(P, 1, EpochTicks)
<1>5. Len(q) = EpochTicks /\ \A i \in 1..EpochTicks : q[i] = P[i]
  BY <1>3, <1>4, SubSeqProperties
<1>6. TrueTicks(Running) = q
  BY DEF TrueTicks, P
<1> HIDE DEF q
<1> QED BY <1>3, <1>4, <1>5, <1>6 DEF Last

\* Whatever the live market does, what is revealed stays so.
LEMMA MarketLives ==
  ASSUME ReplayAssumption, ReplayPriced, LivedOK, LiveTicks \/ LiveRotates \/ LiveRestarts
  PROVE  LivedOK' /\ RevealedEpochs \subseteq RevealedEpochs'
<1>1. Running.seed \in Int
  <2>1. Running.seed \in ReplaySeeds
    BY RunningIs DEF Epochs
  <2>2. \A seed \in ReplaySeeds : seed \in Int
    BY DEF ReplayAssumption
  <2> QED BY <2>1, <2>2
<1>2. CASE LiveTicks
  BY <1>2, TickKeeps
<1>3. CASE LiveRotates
  <2>1. Last(TrueTicks(Running)) \in Nat \ {0}
    BY <1>3, LastTick DEF LiveRotates
  <2>2. PICK s \in ReplaySeeds :
          lived' = Append([lived EXCEPT ![Len(lived)].published = Running.seed],
                          Opened(Running.n + 1, s, Last(TrueTicks(Running))))
    BY <1>3 DEF LiveRotates
  <2> QED BY <1>1, <2>1, <2>2, NextOpens
<1>4. CASE LiveRestarts
  <2>1. PICK s \in ReplaySeeds, seed \in {Running.seed, Withheld, FalseSeed} :
          lived' = Append([lived EXCEPT ![Len(lived)].published = seed],
                          Opened(Running.n + 1, s, ReplayBase))
    BY <1>4 DEF LiveRestarts
  <2>2. seed \in Int /\ ReplayBase \in Nat \ {0}
    BY <1>1 DEF Withheld, FalseSeed, ReplayAssumption
  <2> QED BY <2>1, <2>2, NextOpens
<1> QED BY <1>2, <1>3, <1>4

\* What is read now is what is revealed now.
LEMMA PublishedIs ==
  ASSUME ReplayAssumption, LivedOK
  PROVE  Published \in Seq(RevealedEpochs)
<1> DEFINE L == Len(lived)
           shown == {i \in DOMAIN lived : Verified(lived[i])}
           c == Cardinality(shown)
           Goes(q) == \A m, n \in DOMAIN q : m < n => q[m] < q[n]
           order == CHOOSE q \in [1..c -> shown] : Goes(q)
<1>1. L \in Nat /\ L >= 1 /\ DOMAIN lived = 1..L
  BY LenProperties DEF LivedOK
<1>2. lived[L].seed \in ReplaySeeds
  BY RunningIs DEF Epochs
<1>3. ~Verified(lived[L])
  BY <1>2 DEF Verified, LivedOK, Withheld, ReplayAssumption
<1>4. \A i \in shown : i \in 1 .. L - 1 /\ lived[i] \in RevealedEpochs
  BY <1>1, <1>3 DEF RevealedEpochs
<1>5. IsFiniteSet(shown) /\ c \in Nat
  <2>1. IsFiniteSet(1..L)
    BY <1>1, FS_Interval
  <2>2. shown \subseteq 1..L
    BY <1>1
  <2> HIDE DEF shown, L
  <2> QED BY <2>1, <2>2, FS_Subset, FS_CardinalityType
<1>6. Published = [m \in DOMAIN order |-> lived[order[m]]]
  BY DEF Published
<1>7. \A x \in shown : x \in Nat
  BY <1>1, <1>4
<1> HIDE DEF shown
<1>8. PICK q \in [1..c -> shown] : \A m, n \in 1..c : m < n => q[m] < q[n]
  BY <1>5, <1>7, OneOrder
<1>9. order \in [1..c -> shown]
  <2>1. Goes(q)
    BY <1>8
  <2> HIDE DEF Goes, c
  <2> QED BY <2>1
<1> HIDE DEF order, c
<1>10. Published \in [1..c -> RevealedEpochs]
  BY <1>4, <1>6, <1>9
<1> HIDE DEF L
<1> QED BY <1>5, <1>10, SeqDef

\* What is fetched is kept, and is revealed.
LEMMA FetchKeeps ==
  ASSUME ReplayAssumption, ReplayInv, UNCHANGED lived, Fetches(keptEpochs')
  PROVE  keptEpochs' \in Seq(RevealedEpochs')
<1>1. RevealedEpochs' = RevealedEpochs
  BY DEF RevealedEpochs, Verified
<1>2. Published \in Seq(RevealedEpochs)
  BY PublishedIs DEF ReplayInv
<1> QED BY <1>1, <1>2 DEF Fetches, ReplayInv

\* At first nothing is kept, and one epoch runs.
LEMMA ReplayStarts ==
  ASSUME ReplayAssumption, ReplayInit
  PROVE  ReplayInv
<1>1. PICK s \in ReplaySeeds : lived = <<Opened(1, s, ReplayBase)>>
  BY DEF ReplayInit
<1>2. Opened(1, s, ReplayBase) \in Epochs /\ Opened(1, s, ReplayBase).n = 1
      /\ Opened(1, s, ReplayBase).published = Withheld
  BY DEF Opened, Epochs, Withheld, ReplayAssumption
<1>3. LivedOK
  BY <1>1, <1>2 DEF LivedOK
<1>4. keptEpochs \in Seq(RevealedEpochs) /\ study = NoStudy
  BY DEF ReplayInit
<1> QED BY <1>3, <1>4 DEF ReplayInv

\* No step of the market or of a reader makes what is kept untrue.
LEMMA ReplayStep ==
  ASSUME ReplayAssumption, ReplayPriced, ReplayInv, [ReplayNext]_replayVars
  PROVE  ReplayInv'
<1>1. LivedOK /\ keptEpochs \in Seq(RevealedEpochs)
  BY DEF ReplayInv
<1>2. CASE LiveTicks \/ LiveRotates \/ LiveRestarts
  <2>1. LivedOK' /\ RevealedEpochs \subseteq RevealedEpochs'
    BY <1>1, <1>2, MarketLives
  <2>2. keptEpochs' = keptEpochs /\ study' = study
    BY <1>2 DEF LiveTicks, LiveRotates, LiveRestarts
  <2>3. keptEpochs' \in Seq(RevealedEpochs')
    BY <1>1, <2>1, <2>2, SeqMonotonic
  <2> QED BY <2>1, <2>2, <2>3 DEF ReplayInv
<1>3. CASE UNCHANGED lived
  <2>1. LivedOK' /\ RevealedEpochs' = RevealedEpochs
    BY <1>1, <1>3 DEF LivedOK, RevealedEpochs, Verified
  <2>2. CASE AskEpochs
    BY <2>1, <2>2, <1>3, FetchKeeps DEF AskEpochs, ReplayInv
  <2>3. CASE KeptAges
    BY <2>1, <2>3 DEF KeptAges, ReplayInv
  <2>4. ASSUME NEW n, NEW k, RunReplay(n, k) PROVE ReplayInv'
    <3>1. keptEpochs' \in Seq(RevealedEpochs')
      BY <1>3, <2>4, FetchKeeps DEF RunReplay
    <3>2. PICK e \in FindEpoch(keptEpochs', n) : study' = [epoch |-> e, knobs |-> ClampKnobs(k)]
      BY <2>4 DEF RunReplay
    <3>3. e \in RevealedEpochs'
      BY <3>1, <3>2, LenProperties DEF FindEpoch, ToSet
    <3>4. study'.epoch = e
      BY <3>2
    <3> QED BY <2>1, <3>1, <3>3, <3>4 DEF ReplayInv
  <2>5. CASE UNCHANGED replayVars
    BY <2>1, <2>5 DEF replayVars, ReplayInv
  <2>6. LiveTicks \/ LiveRotates \/ LiveRestarts => ReplayInv'
    BY <1>2
  <2> QED BY <2>2, <2>3, <2>4, <2>5, <2>6 DEF ReplayNext
<1>4. UNCHANGED lived \/ LiveTicks \/ LiveRotates \/ LiveRestarts
  BY DEF ReplayNext, AskEpochs, KeptAges, RunReplay, replayVars
<1> QED BY <1>2, <1>3, <1>4

\* A position on the live market that is opened after tick i of a series: is it closed by a
\* level at tick t, and what becomes of it when it is closed there.
AtStop(series, i, dir, t) ==
    HitStop(dir, series[t], StopOut(ApplySpread(series[i], dir, ReplayMultiplier, ReplayEdge),
                                    dir, ReplayMultiplier))
AtTarget(series, i, dir, t) ==
    HitTarget(dir, series[t], TakeProfit(ApplySpread(series[i], dir, ReplayMultiplier, ReplayEdge),
                                         dir, ReplayMultiplier, ReplayMost))
ClosedAt(series, i, dir, reason, t) ==
    [entry |-> ApplySpread(series[i], dir, ReplayMultiplier, ReplayEdge), exit |-> series[t],
     reason |-> reason,
     worth |-> Worth(dir, ReplayMultiplier, ReplayMost,
                     ApplySpread(series[i], dir, ReplayMultiplier, ReplayEdge), series[t])]

\* The ticks it could close at, the one it does, and why.
Past(series, i, h, dir) ==
    {t \in i + 1 .. i + h : AtStop(series, i, dir, t) \/ AtTarget(series, i, dir, t)}
ClosingTick(series, i, h, dir) ==
    IF Past(series, i, h, dir) = {} THEN i + h ELSE Min(Past(series, i, h, dir))
ClosingReason(series, i, h, dir) ==
    IF Past(series, i, h, dir) = {} THEN "EXPIRY"
    ELSE IF AtStop(series, i, dir, ClosingTick(series, i, h, dir)) THEN "STOP_OUT" ELSE "TAKE_PROFIT"
Outcome(series, i, h, dir) ==
    ClosedAt(series, i, dir, ClosingReason(series, i, h, dir), ClosingTick(series, i, h, dir))

\* What is watched from tick to tick.
WatchedFrom(x, series, i, h, dir, t) ==
    IF x # {} THEN x
    ELSE IF AtStop(series, i, dir, t) THEN {ClosedAt(series, i, dir, "STOP_OUT", t)}
    ELSE IF AtTarget(series, i, dir, t) THEN {ClosedAt(series, i, dir, "TAKE_PROFIT", t)}
    ELSE IF t = i + h THEN {ClosedAt(series, i, dir, "EXPIRY", t)} ELSE {}
Watches(g, series, i, h, dir) ==
    g = [t \in i .. i + h |-> IF t = i THEN {} ELSE WatchedFrom(g[t - 1], series, i, h, dir, t)]

\* The live book does.
LEMMA LiveBookWatches ==
  ASSUME NEW series, NEW i, NEW h, NEW dir
  PROVE  LiveTrade(series, i, h, dir)
            = CHOOSE result \in (CHOOSE g : Watches(g, series, i, h, dir))[i + h] : TRUE
BY DEF LiveTrade, Watches, WatchedFrom, AtStop, AtTarget, ClosedAt

\* It can be: there is one.
LEMMA WatchExists ==
  ASSUME NEW series, NEW i \in Nat, NEW h \in Nat, NEW dir
  PROVE  \E g : Watches(g, series, i, h, dir)
<1> DEFINE C(r, t) == ClosedAt(series, i, dir, r, t)
           R == {"STOP_OUT", "TAKE_PROFIT", "EXPIRY"}
           T == {{}} \cup {{C(p[1], p[2])} : p \in R \X (i .. i + h)}
           W(x, t) == WatchedFrom(x, series, i, h, dir, t)
           step == [t \in i + 1 .. i + h |-> [x \in T |-> W(x, t)]]
<1>1. \A t \in i + 1 .. i + h : \A x \in T : W(x, t) \in T
  <2> SUFFICES ASSUME NEW t \in i + 1 .. i + h, NEW x \in T PROVE W(x, t) \in T
    OBVIOUS
  <2>1. \A r \in R : {C(r, t)} \in T
    <3> SUFFICES ASSUME NEW r \in R PROVE {C(r, t)} \in T
      OBVIOUS
    <3>1. <<r, t>> \in R \X (i .. i + h)
      OBVIOUS
    <3> QED BY <3>1
  <2>2. {} \in T
    OBVIOUS
  <2>3. W(x, t) \in {x, {}, {C("STOP_OUT", t)}, {C("TAKE_PROFIT", t)}, {C("EXPIRY", t)}}
    BY DEF WatchedFrom
  <2> HIDE DEF T, W, C
  <2> QED BY <2>1, <2>2, <2>3
<1>2. {} \in T
  OBVIOUS
<1> HIDE DEF T, W
<1>3. StepsIn(step, i, i + h, T)
  BY <1>1 DEF StepsIn
<1>4. PICK g : g \in [i .. i + h -> T] /\ Follows(g, i, i + h, {}, step)
  <2>1. i \in Int /\ i + h \in Int /\ i <= i + h
    OBVIOUS
  <2> HIDE DEF step
  <2> QED BY <1>2, <1>3, <2>1, Recursion
<1>5. \A t \in i .. i + h : g[t] = IF t = i THEN {} ELSE W(g[t - 1], t)
  <2> SUFFICES ASSUME NEW t \in i .. i + h PROVE g[t] = IF t = i THEN {} ELSE W(g[t - 1], t)
    OBVIOUS
  <2>1. g[t] = IF t = i THEN {} ELSE step[t][g[t - 1]]
    BY <1>4 DEF Follows
  <2>2. CASE t = i
    BY <2>1, <2>2
  <2>3. CASE t # i
    <3>1. t \in i + 1 .. i + h /\ t - 1 \in i .. i + h
      BY <2>3
    <3>2. g[t - 1] \in T
      BY <3>1, <1>4
    <3>3. step[t][g[t - 1]] = W(g[t - 1], t)
      BY <3>1, <3>2
    <3> HIDE DEF step
    <3> QED BY <2>1, <2>3, <3>3
  <2> QED BY <2>2, <2>3
<1>6. g = [t \in i .. i + h |-> IF t = i THEN {} ELSE W(g[t - 1], t)]
  BY <1>4, <1>5
<1> QED BY <1>6 DEF W, Watches

\* The closing tick is one of those the position lives through.
LEMMA ClosesInTime ==
  ASSUME NEW series, NEW i \in Nat, NEW h \in Nat \ {0}, NEW dir
  PROVE  /\ ClosingTick(series, i, h, dir) \in i + 1 .. i + h
         /\ Past(series, i, h, dir) # {} =>
              /\ ClosingTick(series, i, h, dir) \in Past(series, i, h, dir)
              /\ \A t \in Past(series, i, h, dir) : ClosingTick(series, i, h, dir) <= t
<1> DEFINE H == Past(series, i, h, dir)
<1>1. H \subseteq i + 1 .. i + h
  BY DEF Past
<1>2. ASSUME H # {} PROVE Min(H) \in H /\ \A t \in H : Min(H) <= t
  <2>1. H \in SUBSET Nat
    BY <1>1
  <2> HIDE DEF H
  <2>2. \E k \in H : \A m \in H : k <= m
    BY <1>2, <2>1, LeastNat
  <2> QED BY <2>2 DEF Min
<1> HIDE DEF H
<1> QED BY <1>1, <1>2 DEF ClosingTick, H

\* A position closes at the first tick past a level, or for its time is up.
LEMMA LiveTradeIs ==
  ASSUME NEW series, NEW i \in Nat, NEW h \in Nat \ {0}, NEW dir
  PROVE  LiveTrade(series, i, h, dir) = Outcome(series, i, h, dir)
<1> DEFINE g == CHOOSE f : Watches(f, series, i, h, dir)
           W(x, t) == WatchedFrom(x, series, i, h, dir, t)
           H == Past(series, i, h, dir)
           c == ClosingTick(series, i, h, dir)
           r == ClosingReason(series, i, h, dir)
           C == ClosedAt(series, i, dir, r, c)
<1>1. LiveTrade(series, i, h, dir) = CHOOSE result \in g[i + h] : TRUE
  BY LiveBookWatches
<1>2. Watches(g, series, i, h, dir)
  BY WatchExists
<1> HIDE DEF g
<1>3. \A t \in i .. i + h : g[t] = IF t = i THEN {} ELSE W(g[t - 1], t)
  <2>1. g = [t \in i .. i + h |-> IF t = i THEN {} ELSE W(g[t - 1], t)]
    BY <1>2 DEF Watches
  <2> HIDE DEF W
  <2> DEFINE F(t) == IF t = i THEN {} ELSE W(g[t - 1], t)
  <2>2. g = [t \in i .. i + h |-> F(t)]
    BY <2>1
  <2> HIDE DEF F
  <2>3. \A t \in i .. i + h : g[t] = F(t)
    BY <2>2
  <2> QED BY <2>3 DEF F
<1>4. c \in i + 1 .. i + h /\ (H # {} => c \in H /\ \A t \in H : c <= t) /\ (H = {} => c = i + h)
  BY ClosesInTime DEF ClosingTick
<1>5. H = {t \in i + 1 .. i + h : AtStop(series, i, dir, t) \/ AtTarget(series, i, dir, t)}
  BY DEF Past
<1>6. r = IF H = {} THEN "EXPIRY" ELSE IF AtStop(series, i, dir, c) THEN "STOP_OUT" ELSE "TAKE_PROFIT"
  BY DEF ClosingReason
<1>7. Outcome(series, i, h, dir) = C
  BY DEF Outcome
<1> HIDE DEF H, c, r
<1> DEFINE E == {t \in i .. i + h : g[t] = {}}
           K == {t \in i .. i + h : g[t] = {C}}
<1>8. i .. c - 1 \subseteq E
  <2>1. i \in E
    BY <1>3
  <2>2. ASSUME NEW t \in i + 1 .. c - 1, t - 1 \in E PROVE t \in E
    <3>1. t \in i .. i + h /\ t \in i + 1 .. i + h /\ t # i /\ t # i + h /\ t < c
      BY <1>4
    <3>2. t \notin H
      <4>1. CASE H = {}
        BY <4>1
      <4>2. CASE H # {}
        BY <4>2, <1>4, <3>1
      <4> QED BY <4>1, <4>2
    <3>3. ~AtStop(series, i, dir, t) /\ ~AtTarget(series, i, dir, t)
      BY <3>1, <3>2, <1>5
    <3>4. g[t] = W(g[t - 1], t) /\ g[t - 1] = {}
      BY <1>3, <2>2, <3>1
    <3>5. W({}, t) = {}
      BY <3>1, <3>3 DEF WatchedFrom
    <3> HIDE DEF W
    <3>6. g[t] = {}
      BY <3>4, <3>5
    <3> QED BY <3>1, <3>6
  <2>3. i \in Int /\ c - 1 \in Int
    BY <1>4
  <2> HIDE DEF E
  <2> QED BY <2>1, <2>2, <2>3, Steps
<1>9. g[c] = {C}
  <2>1. c - 1 \in i .. c - 1 /\ c \in i .. i + h /\ c # i
    BY <1>4
  <2>2. g[c - 1] = {}
    BY <2>1, <1>8
  <2>3. g[c] = W({}, c)
    BY <2>1, <2>2, <1>3
  <2>4. W({}, c) = IF AtStop(series, i, dir, c) THEN {ClosedAt(series, i, dir, "STOP_OUT", c)}
                   ELSE IF AtTarget(series, i, dir, c) THEN {ClosedAt(series, i, dir, "TAKE_PROFIT", c)}
                   ELSE IF c = i + h THEN {ClosedAt(series, i, dir, "EXPIRY", c)} ELSE {}
    BY DEF WatchedFrom
  <2>5. CASE H = {}
    <3>1. ~AtStop(series, i, dir, c) /\ ~AtTarget(series, i, dir, c) /\ c = i + h /\ r = "EXPIRY"
      BY <2>5, <1>4, <1>5, <1>6
    <3> QED BY <2>3, <2>4, <3>1
  <2>6. CASE H # {}
    <3>1. AtStop(series, i, dir, c) \/ AtTarget(series, i, dir, c)
      BY <2>6, <1>4, <1>5
    <3>2. r = IF AtStop(series, i, dir, c) THEN "STOP_OUT" ELSE "TAKE_PROFIT"
      BY <2>6, <1>6
    <3> QED BY <2>3, <2>4, <3>1, <3>2
  <2> QED BY <2>5, <2>6
<1>10. c .. i + h \subseteq K
  <2>1. c \in K
    BY <1>4, <1>9
  <2>2. ASSUME NEW t \in c + 1 .. i + h, t - 1 \in K PROVE t \in K
    <3>1. t \in i .. i + h /\ t # i
      BY <1>4
    <3>2. g[t] = W({C}, t)
      BY <1>3, <2>2, <3>1
    <3>3. W({C}, t) = {C}
      BY DEF WatchedFrom
    <3> QED BY <3>1, <3>2, <3>3
  <2>3. c \in Int /\ i + h \in Int
    BY <1>4
  <2> HIDE DEF K
  <2> QED BY <2>1, <2>2, <2>3, Steps
<1>11. g[i + h] = {C}
  <2>1. i + h \in c .. i + h
    BY <1>4
  <2> QED BY <2>1, <1>10
<1> HIDE DEF C
<1> QED BY <1>1, <1>7, <1>11

\* Of some numbers, Min is the least.
LEMMA LeastIs ==
  ASSUME NEW H, \A t \in H : t \in Nat, H # {}
  PROVE  Min(H) \in H /\ \A t \in H : Min(H) <= t
<1>1. H \in SUBSET Nat
  OBVIOUS
<1>2. \E k \in H : \A m \in H : k <= m
  BY <1>1, LeastNat
<1> QED BY <1>2 DEF Min

\* The least and the greatest of finitely many numbers hold them all.
LEMMA Between ==
  ASSUME NEW S, \A x \in S : x \in Int, IsFiniteSet(S), NEW x \in S
  PROVE  x \in Min(S) .. Max(S)
<1>1. S \in SUBSET Int /\ S # {}
  OBVIOUS
<1>2. (\E k \in S : \A m \in S : k =< m) /\ (\E k \in S : \A m \in S : k >= m)
  BY <1>1, Extremes
<1>3. Min(S) \in S /\ Min(S) <= x
  BY <1>2 DEF Min
<1>4. Max(S) \in S /\ Max(S) >= x
  BY <1>2 DEF Max
<1> QED BY <1>3, <1>4

\* A path has finitely many prices.
LEMMA FinitelyMany ==
  ASSUME NEW n \in Nat, NEW T, NEW P \in [1..n -> T]
  PROVE  IsFiniteSet(ToSet(P)) /\ ToSet(P) = {P[i] : i \in 1..n} /\ ToSet(P) \subseteq T
<1>1. ToSet(P) = {P[i] : i \in 1..n}
  BY DEF ToSet
<1>2. P \in Surjection(1..n, ToSet(P))
  BY <1>1 DEF Surjection
<1>3. IsFiniteSet(1..n)
  BY FS_Interval
<1>4. IsFiniteSet(ToSet(P))
  BY <1>2, <1>3, FS_Surjection
<1> QED BY <1>1, <1>4

\* What a position makes of a hundred staked, between all of it and the ceiling.
LEMMA WorthBounded ==
  ASSUME NEW dir, NEW mult \in Nat, NEW most \in Nat, NEW entry \in Nat \ {0}, NEW price \in Int
  PROVE  Worth(dir, mult, most, entry, price) \in -100 .. 100 * most
<1> DEFINE n == 100 * mult * Sign(dir) * (price - entry)
<1>1. n \in Int
  <2>1. Sign(dir) \in Int
    BY DEF Sign
  <2>2. 100 * mult \in Int
    OBVIOUS
  <2>3. 100 * mult * Sign(dir) \in Int
    BY <2>1, <2>2
  <2>4. price - entry \in Int
    OBVIOUS
  <2> QED BY <2>3, <2>4
<1>2. Worth(dir, mult, most, entry, price) = Clamp(RoundHalfUp(n, entry), -100, 100 * most)
  BY DEF Worth
<1> HIDE DEF n
<1>3. RoundHalfUp(n, entry) \in Int
  BY <1>1, RoundHalfUpTyped
<1> DEFINE top == 100 * most
<1>4. top \in Int /\ -100 <= top /\ -100 \in Int
  OBVIOUS
<1> HIDE DEF top
<1>5. Clamp(RoundHalfUp(n, entry), -100, top) \in -100 .. top
  BY <1>3, <1>4, ClampBounds
<1> QED BY <1>2, <1>5 DEF top

\* A position is held for a while.
LEMMA HorizonPositive ==
  ASSUME ReplayAssumption, NEW h \in ReplayHorizons
  PROVE  h \in Nat \ {0}
<1>1. ReplayHorizons \subseteq 1..EpochTicks /\ EpochTicks \in Nat
  BY DEF ReplayAssumption
<1> QED BY ONLY <1>1, h \in ReplayHorizons

\* What becomes of a position depends on the prices of the ticks it lives through, and on
\* no other.
LEMMA OutcomeLocal ==
  ASSUME NEW p, NEW q, NEW i \in Nat, NEW h \in Nat \ {0}, NEW dir, \A j \in i .. i + h : p[j] = q[j]
  PROVE  Outcome(p, i, h, dir) = Outcome(q, i, h, dir)
<1>1. p[i] = q[i]
  OBVIOUS
<1>2. \A t \in i + 1 .. i + h : AtStop(p, i, dir, t) = AtStop(q, i, dir, t)
                                /\ AtTarget(p, i, dir, t) = AtTarget(q, i, dir, t)
                                /\ p[t] = q[t]
  BY <1>1 DEF AtStop, AtTarget
<1>3. Past(p, i, h, dir) = Past(q, i, h, dir)
  BY <1>2 DEF Past
<1>4. ClosingTick(p, i, h, dir) = ClosingTick(q, i, h, dir)
  BY <1>3 DEF ClosingTick
<1>5. ClosingTick(q, i, h, dir) \in i + 1 .. i + h
  BY ClosesInTime
<1>6. ClosingReason(p, i, h, dir) = ClosingReason(q, i, h, dir)
  BY <1>2, <1>3, <1>4, <1>5 DEF ClosingReason
<1>7. p[ClosingTick(q, i, h, dir)] = q[ClosingTick(q, i, h, dir)]
  BY <1>2, <1>5
<1> QED BY <1>1, <1>4, <1>6, <1>7 DEF Outcome, ClosedAt

\* A replay at the settings of the live market closes a position where the live book would.
LEMMA ResolveOnIs ==
  ASSUME ReplayAssumption, NEW p, Len(p) \in Nat, NEW i \in Nat \ {0}, NEW h \in Nat \ {0}, NEW dir,
         i + h <= Len(p), NEW x
  PROVE  ResolveOn(p, i, h, dir, LiveKnobs(x)) = Outcome(p, i, h, dir)
<1> DEFINE k == LiveKnobs(x)
           mult == ReplayMultiplier * k.scale
           entry == ApplySpread(IF i = 0 THEN p[1] ELSE p[i], dir, mult, k.edge)
           stop == StopOut(entry, dir, mult)
           target == TakeProfit(entry, dir, mult, k.most)
           last == Min({i + h, Len(p)})
           hits == {j \in i + 1 .. last : LevelHit(dir, p[j], stop, target)}
           closes == IF hits = {} THEN last ELSE Min(hits)
<1>1. mult = ReplayMultiplier /\ k.edge = ReplayEdge /\ k.most = ReplayMost
  BY DEF LiveKnobs, ReplayAssumption
<1>2. last = i + h
  <2> DEFINE a == i + h
             b == Len(p)
  <2>1. a \in Int /\ b \in Int /\ a <= b
    OBVIOUS
  <2> HIDE DEF a, b
  <2>2. Min({a, b}) \in {a, b} /\ Min({a, b}) <= a /\ Min({a, b}) <= b
    BY <2>1, LesserOf
  <2>3. Min({a, b}) = a
    BY <2>1, <2>2
  <2> QED BY <2>3 DEF a, b
<1>3. entry = ApplySpread(p[i], dir, ReplayMultiplier, ReplayEdge)
  BY <1>1
<1>4. hits = Past(p, i, h, dir)
  BY <1>1, <1>2, <1>3 DEF Past, AtStop, AtTarget, LevelHit
<1>5. closes = ClosingTick(p, i, h, dir)
  BY <1>2, <1>4 DEF ClosingTick
<1>6. ResolveOn(p, i, h, dir, k)
        = [entry |-> entry, exit |-> p[closes],
           reason |-> IF hits = {} THEN "EXPIRY"
                      ELSE IF HitStop(dir, p[closes], stop) THEN "STOP_OUT" ELSE "TAKE_PROFIT",
           worth |-> Worth(dir, mult, k.most, entry, p[closes])]
  BY DEF ResolveOn
<1>7. HitStop(dir, p[closes], stop) = AtStop(p, i, dir, closes)
  BY <1>1, <1>3 DEF AtStop
<1> HIDE DEF closes, hits, stop, entry, mult
<1> QED
  BY <1>1, <1>3, <1>4, <1>5, <1>6, <1>7 DEF Outcome, ClosedAt, ClosingReason

\* So does a strategy that is tried.
LEMMA StrategyTradeIs ==
  ASSUME NEW series, NEW i, NEW h, NEW dir
  PROVE  StrategyTrade(series, i, h, dir) = Outcome(series, i, h, dir).worth
BY DEF StrategyTrade, Outcome, ClosedAt, ClosingTick, Past, AtStop, AtTarget, LevelHit

\* The live market's spread leaves a price positive.
LEMMA MarkedPositive ==
  ASSUME ReplayAssumption, ReplayEdge <= 2000, NEW mid \in Nat \ {0}, NEW dir \in {"BUY", "SELL"}
  PROVE  ApplySpread(mid, dir, ReplayMultiplier, ReplayEdge) \in Nat \ {0}
<1> DEFINE mult == ReplayMultiplier
           edge == ReplayEdge
<1>1. mult \in Nat \ {0} /\ edge \in Nat /\ edge <= 2000
  BY DEF ReplayAssumption
<1> HIDE DEF mult, edge
<1>2. ApplySpread(mid, dir, mult, edge) \in Nat \ {0}
  BY ONLY <1>1, SpreadKeepsPricePositive
<1> QED BY <1>2 DEF mult, edge

\* A whole epoch's prices.
Path(p, n) == n \in Nat \ {0} /\ p \in [1..n -> Nat \ {0}] /\ Len(p) = n

\* What a hundred staked on the live market can make.
Worths == -100 .. 100 * ReplayMost

\* Wherever it is entered on a path, what it makes is a whole number between two bounds.
LEMMA ResolvedBounded ==
  ASSUME ReplayAssumption, ReplayEdge <= 2000, NEW n, NEW p, Path(p, n),
         NEW at \in 0 .. n - 1, NEW h \in Nat \ {0}, NEW dir \in {"BUY", "SELL"}, NEW x
  PROVE  ResolveOn(p, at, h, dir, LiveKnobs(x)).worth \in Worths
<1> DEFINE k == LiveKnobs(x)
           mult == ReplayMultiplier * k.scale
           mid == IF at = 0 THEN p[1] ELSE p[at]
           entry == ApplySpread(mid, dir, mult, k.edge)
           stop == StopOut(entry, dir, mult)
           target == TakeProfit(entry, dir, mult, k.most)
           last == Min({at + h, Len(p)})
           hits == {j \in at + 1 .. last : LevelHit(dir, p[j], stop, target)}
           closes == IF hits = {} THEN last ELSE Min(hits)
<1>0. n \in Nat \ {0} /\ p \in [1..n -> Nat \ {0}] /\ Len(p) = n /\ at \in Nat
  BY DEF Path
<1>1. mult = ReplayMultiplier /\ k.edge = ReplayEdge /\ k.most = ReplayMost
  BY DEF LiveKnobs, ReplayAssumption
<1>2. mult \in Nat \ {0} /\ k.edge \in Nat /\ k.edge <= 2000 /\ k.most \in Nat
  BY <1>1 DEF ReplayAssumption
<1>3. last \in at + 1 .. n
  <2> DEFINE a == at + h
             b == Len(p)
  <2>1. a \in Int /\ b \in Int /\ at + 1 <= a /\ at + 1 <= b /\ b = n
    BY <1>0
  <2> HIDE DEF a, b
  <2>2. Min({a, b}) \in {a, b} /\ Min({a, b}) <= a /\ Min({a, b}) <= b
    BY ONLY <2>1, LesserOf
  <2>3. Min({a, b}) \in at + 1 .. n
    BY <2>1, <2>2
  <2> QED BY <2>3 DEF a, b
<1>4. closes \in 1..n
  <2>1. \A j \in hits : j \in Nat /\ j \in 1..n
    BY <1>0, <1>3
  <2>2. last \in 1..n
    BY <1>0, <1>3
  <2> HIDE DEF hits, last
  <2>3. ASSUME hits # {} PROVE Min(hits) \in hits
    BY <2>1, <2>3, LeastIs
  <2> QED BY <2>1, <2>2, <2>3
<1>5. ResolveOn(p, at, h, dir, k).worth = Worth(dir, mult, k.most, entry, p[closes])
  BY DEF ResolveOn
<1> HIDE DEF k, closes, mult
<1>6. mid \in Nat \ {0} /\ p[closes] \in Int
  BY <1>0, <1>4
<1> DEFINE edge == k.edge
           most == k.most
           price == p[closes]
<1> HIDE DEF mid
<1>7. entry \in Nat \ {0}
  <2>1. ApplySpread(mid, dir, ReplayMultiplier, ReplayEdge) \in Nat \ {0}
    BY <1>6, MarkedPositive
  <2> QED BY <1>1, <2>1
<1>8. mult \in Nat /\ most \in Nat /\ price \in Int
  BY <1>2, <1>6
<1> HIDE DEF entry, most, price
<1>9. Worth(dir, mult, most, entry, price) \in -100 .. 100 * most
  BY <1>7, <1>8, WorthBounded
<1> QED BY <1>1, <1>5, <1>9 DEF k, most, price, Worths

\* The ticks an epoch lived are the first of those its seed makes.
LEMMA TicksAre ==
  ASSUME ReplayAssumption, ReplayPriced, NEW e \in Epochs
  PROVE  /\ TrueTicks(e) \in Seq(Nat \ {0}) /\ Len(TrueTicks(e)) = e.ticked
         /\ \A j \in 1 .. e.ticked : TrueTicks(e)[j] = ReplayPath(e.seed, e.n, e.start, 1)[j]
<1> DEFINE P == ReplayPath(e.seed, e.n, e.start, 1)
           m == e.ticked
           S == Nat \ {0}
<1>1. P \in [1..EpochTicks -> S]
  BY DEF ReplayPriced, Epochs
<1>2. m \in 0..EpochTicks /\ EpochTicks \in Nat
  BY DEF Epochs, ReplayAssumption
<1>3. TrueTicks(e) = SubSeq(P, 1, m)
  BY DEF TrueTicks
<1> HIDE DEF P, m, S
<1>4. \A i \in 1..m : P[i] \in S
  BY <1>1, <1>2
<1>5. m \in Int /\ 1 \in Int
  BY <1>2
<1>6. /\ SubSeq(P, 1, m) \in Seq(S)
      /\ Len(SubSeq(P, 1, m)) = IF 1 <= m THEN m - 1 + 1 ELSE 0
      /\ \A i \in 1 .. m - 1 + 1 : SubSeq(P, 1, m)[i] = P[1 + i - 1]
  BY ONLY <1>4, <1>5, SubSeqProperties
<1>7. Len(SubSeq(P, 1, m)) = m
  BY <1>2, <1>6
<1>8. \A i \in 1..m : SubSeq(P, 1, m)[i] = P[i]
  BY <1>2, <1>6
<1> QED BY <1>3, <1>6, <1>7, <1>8 DEF P, m, S

\* The worst case is at least as good as any position that is sampled.
LEMMA WorstIsWorst ==
  ASSUME ReplayAssumption, ReplayEdge <= 2000, NEW n, NEW p, Path(p, n), NEW x, NEW i \in Samples(p), NEW h \in ReplayHorizons, NEW dir \in {"BUY", "SELL"}
  PROVE  ResolveOn(p, i, h, dir, LiveKnobs(x)).worth <= WorstCase(p, LiveKnobs(x))
<1> DEFINE k == LiveKnobs(x)
           worth(j, g, d) == ResolveOn(p, j, g, d, k).worth
           S == {worth(j, g, d) : j \in Samples(p), g \in ReplayHorizons, d \in {"BUY", "SELL"}}
           most == 100 * ReplayMost
<1>1. WorstCase(p, k) = Max(S)
  BY DEF WorstCase
<1>2. ReplayHorizons \subseteq Nat \ {0} /\ most \in Int
  BY DEF ReplayAssumption
<1>3. \A j \in Samples(p), g \in ReplayHorizons, d \in {"BUY", "SELL"} : worth(j, g, d) \in -100 .. most
  <2> SUFFICES ASSUME NEW j \in Samples(p), NEW g \in ReplayHorizons, NEW d \in {"BUY", "SELL"}
               PROVE  worth(j, g, d) \in -100 .. most
    OBVIOUS
  <2>1. j \in 0 .. n - 1 /\ g \in Nat \ {0}
    BY <1>2 DEF Samples, Path
  <2>2. ResolveOn(p, j, g, d, LiveKnobs(x)).worth \in Worths
    BY <2>1, ResolvedBounded
  <2> QED BY <2>2 DEF Worths
<1> HIDE DEF worth, most, k
<1>4. worth(i, h, dir) \in S
  OBVIOUS
<1>5. S \subseteq -100 .. most
  BY <1>3
<1> HIDE DEF S
<1>6. IsFiniteSet(S)
  <2>1. -100 \in Int
    OBVIOUS
  <2>2. IsFiniteSet(-100 .. most)
    BY <1>2, <2>1, FS_Interval
  <2> DEFINE I == -100 .. most
  <2>3. IsFiniteSet(I) /\ S \subseteq I
    BY <1>5, <2>2
  <2> HIDE DEF I
  <2> QED BY <2>3, FS_Subset
<1>7. \A y \in S : y \in Int
  BY <1>2, <1>5
<1> DEFINE y == worth(i, h, dir)
<1>8. y \in S
  BY <1>4
<1> HIDE DEF y
<1>9. y \in Min(S) .. Max(S)
  BY ONLY <1>6, <1>7, <1>8, Between
<1>10. y <= Max(S)
  BY <1>9
<1> QED BY <1>1, <1>10 DEF y, worth, k

\* "The baseline is the epoch exactly as it traded."
LEMMA StudyIsHistory ==
  ASSUME ReplayAssumption, ReplayPriced, ReplayEdge <= 2000, ReplayInv
  PROVE  ReplayIsHistory
<1> DEFINE e == study.epoch
           P == ReplayPath(e.seed, e.n, e.start, 1)
           ticks == TrueTicks(e)
           k == LiveKnobs(study.knobs.entry)
           m == e.ticked
           n == EpochTicks
<1> SUFFICES ASSUME study # NoStudy
             PROVE  /\ SubSeq(BasePath, 1, Len(ticks)) = ticks
                    /\ \A price \in ToSet(ticks) : price \in Lowest(BasePath) .. Highest(BasePath)
                    /\ \A i \in DOMAIN ticks, h \in ReplayHorizons, dir \in {"BUY", "SELL"} :
                          i + h <= Len(ticks) =>
                              /\ ResolveOn(BasePath, i, h, dir, k) = LiveTrade(ticks, i, h, dir)
                              /\ i \in Samples(BasePath) => LiveTrade(ticks, i, h, dir).worth <= WorstCase(BasePath, k)
                    /\ IsBaseline(study.knobs) => VariantPath = BasePath
  BY DEF ReplayIsHistory
<1>1. e \in RevealedEpochs /\ LivedOK
  BY DEF ReplayInv
<1>2. e \in Epochs /\ BasePath = P /\ P \in [1..n -> Nat \ {0}]
  BY <1>1, EpochPath DEF BasePath
<1>3. ticks \in Seq(Nat \ {0}) /\ Len(ticks) = m /\ \A j \in 1..m : ticks[j] = P[j]
  <2>1. e \in Epochs
    BY <1>2
  <2> HIDE DEF e
  <2>2. /\ TrueTicks(e) \in Seq(Nat \ {0}) /\ Len(TrueTicks(e)) = e.ticked
        /\ \A j \in 1 .. e.ticked : TrueTicks(e)[j] = ReplayPath(e.seed, e.n, e.start, 1)[j]
    BY <2>1, TicksAre
  <2> QED BY <2>2
<1>4. m \in 0..n /\ n \in Nat \ {0}
  BY <1>2 DEF Epochs, ReplayAssumption
<1>5. ticks = SubSeq(P, 1, m)
  BY DEF TrueTicks
<1>6. DOMAIN ticks = 1..m
  BY <1>3, LenProperties
<1>7. IsBaseline(study.knobs) => VariantPath = BasePath
  <2>1. LiveKnobs(study.knobs.entry).shock = 1
    BY DEF LiveKnobs
  <2> QED BY <2>1 DEF IsBaseline, VariantPath, BasePath
<1> HIDE DEF P, ticks, m, n, k
<1>8. Len(P) = n
  <2>1. P \in Seq(Nat \ {0})
    BY <1>2, <1>4, SeqDef
  <2> QED BY <1>2, <1>4, <2>1, LenProperties
<1>9. \A price \in ToSet(ticks) : price \in Lowest(P) .. Highest(P)
  <2>1. IsFiniteSet(ToSet(P)) /\ ToSet(P) = {P[j] : j \in 1..n} /\ ToSet(P) \subseteq Nat \ {0}
    <3> DEFINE T == Nat \ {0}
    <3>1. n \in Nat /\ P \in [1..n -> T]
      BY <1>2, <1>4
    <3> HIDE DEF T
    <3>2. IsFiniteSet(ToSet(P)) /\ ToSet(P) = {P[i] : i \in 1..n} /\ ToSet(P) \subseteq T
      BY ONLY <3>1, FinitelyMany
    <3> QED BY <3>2 DEF T
  <2>2. \A price \in ToSet(ticks) : price \in ToSet(P)
    <3> SUFFICES ASSUME NEW j \in 1..m PROVE ticks[j] \in ToSet(P)
      BY <1>6 DEF ToSet
    <3>1. j \in 1..n /\ ticks[j] = P[j]
      BY <1>3, <1>4
    <3> QED BY <2>1, <3>1
  <2>3. \A x \in ToSet(P) : x \in Int
    BY <2>1
  <2> DEFINE S == ToSet(P)
  <2>4. IsFiniteSet(S) /\ \A x \in S : x \in Int
    BY <2>1, <2>3
  <2> HIDE DEF S
  <2>5. \A x \in S : x \in Min(S) .. Max(S)
    BY <2>4, Between
  <2> QED BY <2>2, <2>5 DEF S, Lowest, Highest
<1>10. ASSUME NEW i \in DOMAIN ticks, NEW h \in ReplayHorizons, NEW dir \in {"BUY", "SELL"},
              i + h <= Len(ticks)
       PROVE  /\ ResolveOn(P, i, h, dir, k) = LiveTrade(ticks, i, h, dir)
              /\ i \in Samples(P) => LiveTrade(ticks, i, h, dir).worth <= WorstCase(P, k)
  <2>1. h \in Nat \ {0} /\ i \in Nat \ {0} /\ i + h <= m
    <3>1. h \in Nat \ {0}
      BY DEF ReplayAssumption
    <3>2. i \in 1..m /\ i + h <= m
      BY <1>3, <1>6, <1>10
    <3> QED BY <1>4, <3>1, <3>2
  <2>2. LiveTrade(ticks, i, h, dir) = Outcome(ticks, i, h, dir)
    BY <2>1, LiveTradeIs
  <2>3. \A j \in i .. i + h : ticks[j] = P[j]
    BY <1>3, <1>4, <2>1
  <2>4. Outcome(ticks, i, h, dir) = Outcome(P, i, h, dir)
    BY <2>1, <2>3, OutcomeLocal
  <2>5. Len(P) \in Nat /\ i + h <= Len(P)
    BY <1>4, <1>8, <2>1
  <2>6. ResolveOn(P, i, h, dir, k) = Outcome(P, i, h, dir)
    BY <2>1, <2>5, ResolveOnIs DEF k
  <2>7. i \in Samples(P) => ResolveOn(P, i, h, dir, k).worth <= WorstCase(P, k)
    <3> DEFINE x == study.knobs.entry
    <3>1. Path(P, n)
      BY <1>2, <1>4, <1>8 DEF Path
    <3> HIDE DEF x
    <3>2. ASSUME i \in Samples(P)
          PROVE  ResolveOn(P, i, h, dir, LiveKnobs(x)).worth <= WorstCase(P, LiveKnobs(x))
      BY <3>1, <3>2, WorstIsWorst
    <3> QED BY <3>2 DEF k, x
  <2> QED BY <2>2, <2>4, <2>6, <2>7
<1>11. SubSeq(P, 1, Len(ticks)) = ticks
  BY <1>3, <1>5
<1> QED BY <1>2, <1>7, <1>9, <1>10, <1>11

-----------------------------------------------------------------------------
(* One epoch after another *)

\* g joins the first of some lists.
Joins(g, lists) == g = [i \in 1 .. Len(lists) |-> IF i = 1 THEN lists[i] ELSE g[i - 1] \o lists[i]]

\* What the community module computes.
LEMMA FlattenIs ==
  ASSUME NEW lists
  PROVE  FlattenSeq(lists) = IF Len(lists) = 0 THEN lists ELSE (CHOOSE g : Joins(g, lists))[Len(lists)]
BY DEF FlattenSeq, Joins

\* All of some lists can be joined.
LEMMA Joined ==
  ASSUME NEW T, NEW lists \in Seq(T), NEW S, T = Seq(S), Len(lists) \in Nat \ {0}
  PROVE  \E g \in [1 .. Len(lists) -> T] : Joins(g, lists)
<1> DEFINE n == Len(lists)
           step == [k \in 2..n |-> [x \in T |-> x \o lists[k]]]
<1>1. \A k \in 1..n : lists[k] \in T
  BY ElementOfSeq
<1>2. \A x, y \in T : x \o y \in T
  BY ConcatProperties
<1>3. n \in Int /\ 1 \in Int /\ 1 <= n /\ lists[1] \in T
  BY <1>1
<1> HIDE DEF n
<1>4. StepsIn(step, 1, n, T)
  BY <1>1, <1>2, <1>3 DEF StepsIn
<1>5. PICK g : g \in [1..n -> T] /\ Follows(g, 1, n, lists[1], step)
  <2> HIDE DEF step
  <2> QED BY <1>3, <1>4, Recursion
<1>6. \A i \in 1..n : g[i] = IF i = 1 THEN lists[i] ELSE g[i - 1] \o lists[i]
  <2> SUFFICES ASSUME NEW i \in 1..n PROVE g[i] = IF i = 1 THEN lists[i] ELSE g[i - 1] \o lists[i]
    OBVIOUS
  <2>1. g[i] = IF i = 1 THEN lists[1] ELSE step[i][g[i - 1]]
    BY <1>5 DEF Follows
  <2>2. CASE i # 1
    <3>1. i \in 2..n /\ i - 1 \in 1..n
      BY <1>3, <2>2
    <3>2. g[i - 1] \in T
      BY <1>5, <3>1
    <3>3. step[i][g[i - 1]] = g[i - 1] \o lists[i]
      BY <3>1, <3>2
    <3> HIDE DEF step
    <3> QED BY <2>1, <2>2, <3>3
  <2> QED BY <2>1, <2>2
<1>7. g = [i \in 1..n |-> IF i = 1 THEN lists[i] ELSE g[i - 1] \o lists[i]]
  BY <1>5, <1>6
<1> QED BY <1>5, <1>7 DEF Joins, n

\* One list is the beginning of another.
BeginsWith(a, b) == Len(a) <= Len(b) /\ \A j \in 1 .. Len(a) : a[j] = b[j]

\* A table of what the first lists make, and of what all of them do.
Adds(g, lists, n) == \A i \in 1..n : g[i] = IF i = 1 THEN lists[i] ELSE g[i - 1] \o lists[i]
Tables(g, lists, T) ==
    /\ g \in [1 .. Len(lists) -> T] /\ FlattenSeq(lists) = g[Len(lists)]
    /\ Adds(g, lists, Len(lists))

\* There is one.
LEMMA JoinedIs ==
  ASSUME NEW T, NEW lists \in Seq(T), NEW S, T = Seq(S), Len(lists) \in Nat \ {0}
  PROVE  \E g : Tables(g, lists, T)
<1> DEFINE g == CHOOSE f : Joins(f, lists)
           n == Len(lists)
<1>1. PICK f \in [1..n -> T] : Joins(f, lists)
  BY Joined
<1>2. Joins(g, lists)
  BY <1>1
<1>3. FlattenSeq(lists) = g[n]
  BY FlattenIs
<1> HIDE DEF g
<1>4. g = [i \in 1..n |-> IF i = 1 THEN lists[i] ELSE g[i - 1] \o lists[i]]
  BY <1>2 DEF Joins
<1>5. f = [i \in 1..n |-> IF i = 1 THEN lists[i] ELSE f[i - 1] \o lists[i]]
  BY <1>1 DEF Joins
<1>6. n \in Nat \ {0}
  OBVIOUS
<1> HIDE DEF n
<1>7. \A i \in 1..n : g[i] = IF i = 1 THEN lists[i] ELSE g[i - 1] \o lists[i]
  <2> DEFINE F(i) == IF i = 1 THEN lists[i] ELSE g[i - 1] \o lists[i]
  <2>1. g = [i \in 1..n |-> F(i)]
    BY <1>4
  <2> HIDE DEF F
  <2>2. \A i \in 1..n : g[i] = F(i)
    BY <2>1
  <2> QED BY <2>2 DEF F
<1>8. g \in [1..n -> T]
  <2>1. DOMAIN g = 1..n
    BY <1>4
  <2> DEFINE P == {i \in 1..n : g[i] \in T}
  <2>2. 1 \in P
    <3>1. lists[1] \in T /\ g[1] = lists[1]
      BY <1>6, <1>7, ElementOfSeq DEF n
    <3> QED BY <1>6, <3>1
  <2>3. ASSUME NEW k \in 1 + 1 .. n, k - 1 \in P PROVE k \in P
    <3>1. k \in 1..n /\ k # 1
      BY <1>6
    <3>2. g[k] = g[k - 1] \o lists[k] /\ g[k - 1] \in T /\ lists[k] \in T
      BY <1>7, <2>3, <3>1, ElementOfSeq DEF n
    <3>3. g[k] \in T
      BY <3>2, ConcatProperties
    <3> QED BY <3>1, <3>3
  <2>4. 1 \in Int /\ n \in Int
    BY <1>6
  <2> HIDE DEF P
  <2>5. 1..n \subseteq P
    BY <2>2, <2>3, <2>4, Steps
  <2>6. \A i \in 1..n : g[i] \in T
    BY <2>5 DEF P
  <2>7. g = [i \in 1..n |-> g[i]]
    BY <1>4, <2>1
  <2> QED BY <2>6, <2>7
<1>9. Adds(g, lists, n)
  BY <1>7 DEF Adds
<1> QED BY <1>3, <1>8, <1>9 DEF n, Tables

\* A list that others are added to stays their beginning.
LEMMA JoinGrows ==
  ASSUME NEW S, NEW T, T = Seq(S), NEW n \in Nat, NEW m \in Nat \ {0}, m <= n,
         NEW lists, \A i \in 1..n : lists[i] \in T,
         NEW g \in [1..n -> T], Adds(g, lists, n)
  PROVE  BeginsWith(g[m], g[n])
<1> DEFINE P == {i \in m..n : BeginsWith(g[m], g[i])}
<1>1. m \in Int /\ n \in Int /\ g[m] \in T /\ m \in m..n
  OBVIOUS
<1>2. Len(g[m]) \in Nat
  BY <1>1
<1>3. m \in P
  BY <1>1, <1>2 DEF BeginsWith
<1>4. ASSUME NEW k \in m + 1 .. n, k - 1 \in P PROVE k \in P
  <2>1. k \in 1..n /\ k # 1 /\ k - 1 \in 1..n /\ k \in m..n
    BY <1>4
  <2>2. g[k - 1] \in T /\ lists[k] \in T /\ g[k] = g[k - 1] \o lists[k]
    BY <2>1 DEF Adds
  <2> DEFINE a == g[k - 1]
             b == lists[k]
             c == g[m]
  <2>3. a \in Seq(S) /\ b \in Seq(S) /\ BeginsWith(c, a) /\ g[k] = a \o b
    BY <1>4, <2>2
  <2> HIDE DEF a, b, c
  <2>4. /\ a \o b \in Seq(S) /\ Len(a \o b) = Len(a) + Len(b)
        /\ \A i \in 1 .. Len(a) + Len(b) : (a \o b)[i] = IF i <= Len(a) THEN a[i] ELSE b[i - Len(a)]
    BY ONLY <2>3, ConcatProperties
  <2>5. Len(a) \in Nat /\ Len(b) \in Nat /\ Len(c) \in Nat
    BY <1>2, <2>3, LenProperties DEF c
  <2>6. Len(c) <= Len(a) /\ \A j \in 1 .. Len(c) : c[j] = a[j]
    BY <2>3 DEF BeginsWith
  <2>7. Len(c) <= Len(a \o b)
    BY ONLY <2>4, <2>5, <2>6
  <2>8. \A j \in 1 .. Len(c) : c[j] = (a \o b)[j]
    BY ONLY <2>4, <2>5, <2>6
  <2>9. BeginsWith(c, g[k])
    BY <2>3, <2>7, <2>8 DEF BeginsWith
  <2> QED BY <2>1, <2>9 DEF c
<1> HIDE DEF P
<1>5. m..n \subseteq P
  BY <1>1, <1>3, <1>4, Steps
<1>6. n \in m..n
  OBVIOUS
<1> QED BY <1>5, <1>6 DEF P

\* What joins the same lists, as far as both go, is the same so far.
LEMMA JoinAgrees ==
  ASSUME NEW n \in Nat \ {0}, NEW p, NEW q, \A i \in 1..n : p[i] = q[i],
         NEW f, Adds(f, p, n), NEW g, Adds(g, q, n)
  PROVE  f[n] = g[n]
<1> DEFINE P == {i \in 1..n : f[i] = g[i]}
<1>1. 1 \in P
  BY DEF Adds
<1>2. ASSUME NEW k \in 1 + 1 .. n, k - 1 \in P PROVE k \in P
  <2>1. k \in 1..n /\ k # 1 /\ f[k - 1] = g[k - 1]
    BY <1>2
  <2>2. f[k] = f[k - 1] \o p[k] /\ g[k] = g[k - 1] \o q[k] /\ p[k] = q[k]
    BY <2>1 DEF Adds
  <2> QED BY <2>1, <2>2
<1>3. 1 \in Int /\ n \in Int /\ n \in 1..n
  OBVIOUS
<1> HIDE DEF P
<1>4. 1..n \subseteq P
  BY <1>1, <1>2, <1>3, Steps
<1> QED BY <1>3, <1>4 DEF P

\* Joined, the first of some lists are the beginning of them all.
LEMMA FlattenBegins ==
  ASSUME NEW S, NEW p \in Seq(Seq(S)), NEW q \in Seq(Seq(S)), BeginsWith(p, q)
  PROVE  /\ FlattenSeq(p) \in Seq(S) /\ FlattenSeq(q) \in Seq(S)
         /\ BeginsWith(FlattenSeq(p), FlattenSeq(q))
<1> DEFINE T == Seq(S)
           m == Len(p)
           n == Len(q)
<1>1. m \in Nat /\ n \in Nat
  BY LenProperties
<1>2. \A i \in 1..m : p[i] = q[i] /\ p[i] \in T
  BY ElementOfSeq DEF BeginsWith
<1>3. m <= n
  BY DEF BeginsWith
<1>4. p \in Seq(T) /\ q \in Seq(T)
  OBVIOUS
<1>5. \A l \in Seq(T) : Len(l) = 0 => FlattenSeq(l) = <<>>
  BY FlattenIs, EmptySeq
<1>6. <<>> \in T /\ Len(<<>>) = 0
  BY EmptySeq
<1>7. ASSUME NEW l \in Seq(T), Len(l) # 0
      PROVE  \E g : Tables(g, l, T)
  <2>1. Len(l) \in Nat \ {0}
    BY <1>7, LenProperties
  <2>2. T = Seq(S)
    OBVIOUS
  <2> HIDE DEF T
  <2> QED BY <2>1, <2>2, JoinedIs
<1>8. CASE m = 0
  <2>1. FlattenSeq(p) = <<>>
    BY <1>4, <1>5, <1>8
  <2>2. FlattenSeq(q) \in T
    <3>1. CASE n = 0
      BY <1>4, <1>5, <1>6, <3>1
    <3>2. CASE n # 0
      <4>1. PICK g : Tables(g, q, T)
        BY <1>4, <1>7, <3>2
      <4>2. n \in 1..n /\ g \in [1..n -> T] /\ FlattenSeq(q) = g[n]
        BY <1>1, <3>2, <4>1 DEF Tables
      <4> HIDE DEF n, T
      <4> QED BY <4>2
    <3> QED BY <3>1, <3>2
  <2>3. BeginsWith(<<>>, FlattenSeq(q))
    <3>1. Len(FlattenSeq(q)) \in Nat
      BY <2>2, LenProperties
    <3> QED BY <1>6, <3>1 DEF BeginsWith
  <2> QED BY <1>6, <2>1, <2>2, <2>3
<1>9. CASE m # 0
  <2>1. m \in Nat \ {0} /\ n \in Nat \ {0} /\ m \in 1..n /\ n \in 1..n /\ m \in 1..m
    BY <1>1, <1>3, <1>9
  <2>2. PICK f : Tables(f, p, T)
    BY <1>4, <1>7, <1>9
  <2>3. PICK g : Tables(g, q, T)
    BY <1>4, <1>7, <2>1
  <2>4. f[m] = g[m]
    <3>1. Adds(g, q, n) /\ Adds(f, p, m)
      BY <2>2, <2>3 DEF Tables
    <3> HIDE DEF m, n, T
    <3>2. \A i \in 1..m : i \in 1..n
      BY <1>1, <1>3
    <3>3. Adds(g, q, m)
      BY <3>1, <3>2 DEF Adds
    <3>4. \A i \in 1..m : p[i] = q[i]
      BY <1>2
    <3>5. m \in Nat \ {0}
      BY <2>1
    <3> QED BY <3>1, <3>3, <3>4, <3>5, JoinAgrees
  <2>5. BeginsWith(g[m], g[n])
    <3>1. \A i \in 1..n : q[i] \in T
      BY ElementOfSeq
    <3>2. T = Seq(S)
      OBVIOUS
    <3>3. g \in [1..n -> T] /\ Adds(g, q, n) /\ n \in Nat /\ m \in Nat \ {0} /\ m <= n
      BY <1>3, <2>1, <2>3 DEF Tables
    <3> HIDE DEF m, n, T
    <3> QED BY <3>1, <3>2, <3>3, JoinGrows
  <2>6. f[m] \in T /\ g[n] \in T
    <3>1. f \in [1..m -> T] /\ g \in [1..n -> T]
      BY <2>2, <2>3 DEF Tables
    <3> HIDE DEF m, n, T
    <3> QED BY <2>1, <3>1
  <2>7. FlattenSeq(p) = f[m] /\ FlattenSeq(q) = g[n]
    BY <2>2, <2>3 DEF Tables
  <2> HIDE DEF m, n
  <2> QED BY <2>4, <2>5, <2>6, <2>7
<1> QED BY <1>8, <1>9

\* A beginning is a subsequence.
LEMMA BeginsIs ==
  ASSUME NEW S, NEW a \in Seq(S), NEW b \in Seq(S), BeginsWith(a, b)
  PROVE  a = SubSeq(b, 1, Len(a))
<1> DEFINE m == Len(a)
           c == SubSeq(b, 1, m)
<1>1. m \in Nat /\ Len(b) \in Nat /\ m <= Len(b)
  BY LenProperties DEF BeginsWith
<1>2. \A i \in 1..m : b[i] \in S
  BY <1>1, ElementOfSeq
<1> HIDE DEF m
<1>3. /\ c \in Seq(S) /\ Len(c) = IF 1 <= m THEN m - 1 + 1 ELSE 0
      /\ \A i \in 1 .. m - 1 + 1 : c[i] = b[1 + i - 1]
  <2>1. m \in Int /\ 1 \in Int
    BY <1>1
  <2> QED BY ONLY <1>2, <2>1, SubSeqProperties
<1> HIDE DEF c
<1>4. Len(c) = m
  BY <1>1, <1>3
<1>5. \A i \in 1..m : a[i] = c[i]
  BY <1>1, <1>3 DEF BeginsWith, m
<1>6. a = c
  BY <1>3, <1>4, <1>5, SeqEqual DEF m
<1> QED BY <1>6 DEF c, m

\* "Every tick here actually traded."
LEMMA AuditedIsHistory ==
  ASSUME ReplayAssumption, ReplayPriced, ReplayInv
  PROVE  AuditIsHistory
<1> SUFFICES ASSUME \A i \in DOMAIN keptEpochs : keptEpochs[i].n = i /\ keptEpochs[i].ticked = EpochTicks
             PROVE  /\ AuditSeries = SubSeq(Traded, 1, Len(AuditSeries))
                    /\ \A i \in DOMAIN AuditSeries, h \in ReplayHorizons, dir \in {"BUY", "SELL"} :
                          i + h <= Len(AuditSeries) =>
                              StrategyTrade(AuditSeries, i, h, dir) = LiveTrade(Traded, i, h, dir).worth
  BY DEF AuditIsHistory
<1> DEFINE S == Nat \ {0}
           m == Len(keptEpochs)
           n == Len(lived)
           p == [i \in DOMAIN keptEpochs |-> Rebuilt(keptEpochs[i], 1)]
           q == [i \in DOMAIN lived |-> TrueTicks(lived[i])]
<1>1. LivedOK /\ keptEpochs \in Seq(RevealedEpochs) /\ lived \in Seq(Epochs)
  BY DEF ReplayInv, LivedOK
<1>2. m \in Nat /\ DOMAIN keptEpochs = 1..m /\ \A i \in 1..m : keptEpochs[i] \in RevealedEpochs
  BY <1>1, LenProperties, ElementOfSeq
<1>3. n \in Nat /\ DOMAIN lived = 1..n /\ \A i \in 1..n : lived[i] \in Epochs
  BY <1>1, LenProperties, ElementOfSeq
<1>4. q \in [1..n -> Seq(S)]
  <2>1. \A i \in 1..n : TrueTicks(lived[i]) \in Seq(S)
    BY <1>3, TicksAre
  <2> HIDE DEF S, n
  <2> QED BY <1>3, <2>1
<1>5. \A i \in 1..m : i \in 1..n /\ Rebuilt(keptEpochs[i], 1) = TrueTicks(lived[i])
  <2> SUFFICES ASSUME NEW i \in 1..m
               PROVE  i \in 1..n /\ Rebuilt(keptEpochs[i], 1) = TrueTicks(lived[i])
    OBVIOUS
  <2> DEFINE e == keptEpochs[i]
             P == ReplayPath(e.seed, e.n, e.start, 1)
             t == TrueTicks(e)
             E == EpochTicks
  <2>1. e \in RevealedEpochs /\ e.n = i /\ e.ticked = E
    BY <1>2
  <2> HIDE DEF e
  <2>2. e \in Epochs /\ Rebuilt(e, 1) = P /\ Rebuilt(e, 1) \in [1..E -> S]
        /\ lived[e.n] = e /\ e.n \in 1 .. n - 1
    BY <1>1, <2>1, EpochPath
  <2>3. t \in Seq(S) /\ Len(t) = e.ticked /\ \A j \in 1 .. e.ticked : t[j] = P[j]
    BY <2>2, TicksAre
  <2>4. E \in Nat
    BY DEF ReplayAssumption
  <2> HIDE DEF t, P, S, n, E
  <2>5. t \in [1..E -> S]
    BY <2>1, <2>3, LenProperties
  <2>6. t = P
    BY <2>1, <2>2, <2>3, <2>5
  <2> QED BY <1>3, <2>1, <2>2, <2>6 DEF t, e
<1>6. p \in [1..m -> Seq(S)]
  <2> HIDE DEF S, m, n, q
  <2>1. \A i \in 1..m : Rebuilt(keptEpochs[i], 1) = TrueTicks(lived[i]) /\ TrueTicks(lived[i]) \in Seq(S)
    BY <1>3, <1>4, <1>5 DEF q
  <2> QED BY <1>2, <2>1
<1>7. \A i \in 1..m : p[i] = q[i]
  BY <1>2, <1>3, <1>5
<1>8. m <= n
  <2>1. CASE m = 0
    BY <1>3, <2>1
  <2>2. CASE m # 0
    <3>1. m \in 1..m
      BY <1>2, <2>2
    <3>2. m \in 1..n
      BY <1>5, <3>1
    <3> QED BY <1>3, <3>2
  <2> QED BY <2>1, <2>2
<1>9. AuditSeries = FlattenSeq(p) /\ Traded = FlattenSeq(q)
  BY DEF AuditSeries, Traded
<1> HIDE DEF S, m, n, p, q
<1>10. p \in Seq(Seq(S)) /\ Len(p) = m /\ q \in Seq(Seq(S)) /\ Len(q) = n
  <2> DEFINE T == Seq(S)
  <2>1. p \in [1..m -> T] /\ q \in [1..n -> T] /\ m \in Nat /\ n \in Nat
    BY <1>2, <1>3, <1>4, <1>6
  <2> HIDE DEF T
  <2>2. p \in Seq(T) /\ q \in Seq(T)
    BY <2>1, SeqDef
  <2>3. Len(p) = m /\ Len(q) = n
    BY <2>1, <2>2, LenProperties
  <2> QED BY <2>2, <2>3 DEF T
<1>11. BeginsWith(p, q)
  BY <1>7, <1>8, <1>10 DEF BeginsWith
<1> DEFINE a == AuditSeries
           b == Traded
<1>12. a \in Seq(S) /\ b \in Seq(S) /\ BeginsWith(a, b)
  BY <1>9, <1>10, <1>11, FlattenBegins
<1> HIDE DEF a, b
<1>13. a = SubSeq(b, 1, Len(a))
  BY <1>12, BeginsIs
<1>14. ASSUME NEW i \in DOMAIN a, NEW h \in ReplayHorizons, NEW dir \in {"BUY", "SELL"}, i + h <= Len(a)
       PROVE  StrategyTrade(a, i, h, dir) = LiveTrade(b, i, h, dir).worth
  <2>1. i \in Nat /\ h \in Nat \ {0} /\ i >= 1 /\ Len(a) \in Nat
    <3>1. h \in Nat \ {0}
      BY HorizonPositive
    <3>2. DOMAIN a = 1 .. Len(a) /\ Len(a) \in Nat
      BY <1>12, LenProperties
    <3> QED BY <3>1, <3>2
  <2>2. \A j \in i .. i + h : a[j] = b[j]
    BY <1>12, <1>14, <2>1 DEF BeginsWith
  <2>3. Outcome(a, i, h, dir) = Outcome(b, i, h, dir)
    BY <2>1, <2>2, OutcomeLocal
  <2>4. LiveTrade(b, i, h, dir) = Outcome(b, i, h, dir)
    BY <2>1, LiveTradeIs
  <2>5. StrategyTrade(a, i, h, dir) = Outcome(a, i, h, dir).worth
    BY StrategyTradeIs
  <2> QED BY <2>3, <2>4, <2>5
<1> QED BY <1>13, <1>14 DEF a, b

-----------------------------------------------------------------------------
(* Both halves *)

\* "Every tick here actually traded": a replay at live settings closes every position where
\* and as the live book would have, the worst case is no better than what could have been,
\* and the strategies earn what they would have.
THEOREM HistoryReplayedAlways ==
  ASSUME ReplayPriced, ReplayEdge <= 2000
  PROVE  ReplaySpec => []HistoryReplayed
<1>1. ReplayInit => ReplayInv
  BY ReplayStarts, ReplayAssumption
<1>2. ReplayInv /\ [ReplayNext]_replayVars => ReplayInv'
  BY ReplayStep, ReplayAssumption
<1>3. ReplayInv => HistoryReplayed
  BY StudyIsHistory, AuditedIsHistory, ReplayAssumption DEF HistoryReplayed
<1> QED BY <1>1, <1>2, <1>3, PTL DEF ReplaySpec

\* "Recomputed": whatever the sandbox shows can be checked against something else it shows.
\* A session's figures add up, the oracle is what its revealed seed computes, and what is
\* said of revealed epochs is what they traded; neither half touches the other.
THEOREM SandboxSoundHolds ==
  ASSUME PathsWhole, CallTicks <= 1, PaperEdge <= 2000, ReplayPriced, ReplayEdge <= 2000
  PROVE  ServiceSpec => []SandboxSound
<1>1. ServiceInit => SandboxInit /\ ReplayInit
  BY DEF ServiceInit
<1>2. [ServiceNext]_serviceVars => [SandboxNext]_sandboxVars /\ [ReplayNext]_replayVars
  BY DEF ServiceNext, serviceVars
<1>3. ServiceSpec => SandboxSpec /\ ReplaySpec
  BY <1>1, <1>2, PTL DEF ServiceSpec, SandboxSpec, ReplaySpec
<1>4. SandboxSpec => []SandboxHonest
  BY SandboxHonestAlways
<1>5. ReplaySpec => []HistoryReplayed
  BY HistoryReplayedAlways
<1>6. SandboxHonest /\ HistoryReplayed => SandboxSound
  BY DEF SandboxSound
<1> QED BY <1>3, <1>4, <1>5, <1>6, PTL

-----------------------------------------------------------------------------
(* Types of both halves *)

(* Sandbox: with what holds of the market and of the session, no position loses more than
   its stake, so that no balance is overdrawn. *)

Covered == \A i \in PaperIds : papers[i] # NoPaper => 100 * papers[i].stake + papers[i].profit \in Nat
SandboxTyped ==
    /\ SandboxInv /\ SessionInv /\ Covered
    /\ clock <= MaxClock /\ epochNumber \in Nat \ {0}
    /\ startedAt = (epochNumber - 1) * TicksPerEpoch
    /\ paperBalance \in Nat /\ Len(closedPapers) <= MaxClosed

\* With the computed epochs whole, that is the type of the market and of the session.
LEMMA SandboxTypedMeans ==
  ASSUME PathsWhole, SandboxTyped
  PROVE  SandboxTypeOK
<1>1. Made /\ EndsAsSaid /\ Lists(papers, closedPapers)
  BY DEF SandboxTyped, SandboxInv, SessionInv
<1>2. Len(path) = TicksPerEpoch /\ TicksPerEpoch \in Nat \ {0} /\ nextPath \in [1..TicksPerEpoch -> Nat \ {0}]
  BY <1>1, SandboxAssumption, PricedAhead
<1>3. Len(nextPath) = TicksPerEpoch
  BY <1>2
<1>4. epochNumber = startedAt \div TicksPerEpoch + 1
  <2> DEFINE k == epochNumber - 1
             d == TicksPerEpoch
  <2>1. k \in Nat /\ d \in Nat \ {0} /\ startedAt = k * d
    BY <1>2 DEF SandboxTyped
  <2> HIDE DEF k, d
  <2>2. (k * d) \div d = k
    BY ONLY <2>1
  <2>3. startedAt \div TicksPerEpoch = k
    BY <2>1, <2>2 DEF d
  <2> QED BY <2>3 DEF k, SandboxTyped
<1>5. clock \in 0..MaxClock /\ startedAt \in 0..MaxClock /\ startedAt <= clock
  BY <1>1, SandboxAssumption DEF Made, SandboxTyped
<1>6. \A n \in DOMAIN closedPapers : papers[closedPapers[n]].status = "CLOSED"
  <2>1. closedPapers \in Seq(PaperIds)
    BY <1>1 DEF Lists
  <2>2. DOMAIN closedPapers = 1 .. Len(closedPapers)
    BY <2>1, LenProperties
  <2> QED BY <1>1, <2>2 DEF Lists
<1>7. epochSeed \in Seeds /\ nextSeed \in Seeds
  BY <1>1 DEF Made
<1>8. \A i \in PaperIds : papers[i].status \in {"NONE", "OPEN", "CLOSED"}
  BY <1>1 DEF EndsAsSaid
<1>9. paperBalance \in Nat /\ Len(closedPapers) <= MaxClosed
  BY DEF SandboxTyped
<1> QED BY <1>2, <1>3, <1>4, <1>5, <1>6, <1>7, <1>8, <1>9 DEF SandboxTypeOK

\* It starts with the first epoch and the starting balance.
LEMMA SandboxTypeStarts ==
  ASSUME PathsWhole, SandboxInit
  PROVE  SandboxTyped
<1>1. SandboxInv /\ SessionInv
  BY SandboxAssumption, HonestStarts
<1>2. Covered
  BY DEF SandboxInit, Covered
<1>3. clock <= MaxClock /\ epochNumber \in Nat \ {0} /\ startedAt = (epochNumber - 1) * TicksPerEpoch
  <2>1. clock = 0 /\ epochNumber = 1 /\ startedAt = 0 /\ MaxClock \in Nat /\ TicksPerEpoch \in Nat
    BY SandboxAssumption DEF SandboxInit
  <2> QED BY <2>1
<1>4. paperBalance \in Nat /\ Len(closedPapers) <= MaxClosed
  <2>1. paperBalance = 100 * StartingBalance /\ closedPapers = <<>> /\ Len(<<>>) = 0
    BY DEF SandboxInit
  <2> QED BY <2>1, SandboxAssumption
<1> QED BY <1>1, <1>2, <1>3, <1>4 DEF SandboxTyped

\* What sweeping pays is never owed.
LEMMA SweptOwesNothing ==
  ASSUME SandboxTyped
  PROVE  SweptBalance \in Nat
<1> DEFINE due == DuePapers
           back == [i \in due |-> 100 * papers[i].stake + papers[i].profit]
<1>1. due \subseteq PaperIds /\ \A i \in due : papers[i].status = "OPEN"
  BY DEF DuePapers
<1>2. IsFiniteSet(due)
  BY <1>1, SandboxAssumption, FS_Subset
<1>3. \A i \in due : back[i] \in Nat
  <2>1. \A i \in due : papers[i] # NoPaper
    BY <1>1 DEF NoPaper
  <2> QED BY <1>1, <2>1 DEF SandboxTyped, Covered
<1>4. SweptBalance = paperBalance + SumFunction(back)
  BY DEF SweptBalance
<1>5. SumFunction(back) = SumFunctionOnSet(back, due)
  BY DEF SumFunction
<1> HIDE DEF due, back
<1>6. SumFunctionOnSet(back, due) \in Nat
  BY ONLY <1>2, <1>3, SumNat
<1>7. paperBalance \in Nat
  BY DEF SandboxTyped
<1> QED BY <1>4, <1>5, <1>6, <1>7

\* Sweeping changes neither what a position staked nor what it makes.
LEMMA SweptCovered ==
  ASSUME SandboxTyped
  PROVE  \A i \in PaperIds : SweptPapers[i] # NoPaper =>
            100 * SweptPapers[i].stake + SweptPapers[i].profit \in Nat
<1> SUFFICES ASSUME NEW i \in PaperIds, SweptPapers[i] # NoPaper
             PROVE  100 * SweptPapers[i].stake + SweptPapers[i].profit \in Nat
  OBVIOUS
<1>1. PapersWhole(papers)
  BY DEF SandboxTyped, SessionInv
<1>2. /\ StakeOf(SweptPapers) = StakeOf(papers) /\ ProfitOf(SweptPapers) = ProfitOf(papers)
      /\ papers[i] = NoPaper => SweptPapers[i] = NoPaper
  BY <1>1, SweepCloses
<1>3. papers[i] # NoPaper
  BY <1>2
<1>4. StakeOf(papers)[i] = 100 * papers[i].stake /\ ProfitOf(papers)[i] = papers[i].profit
  BY <1>3 DEF StakeOf, ProfitOf
<1>5. StakeOf(SweptPapers)[i] = 100 * SweptPapers[i].stake /\ ProfitOf(SweptPapers)[i] = SweptPapers[i].profit
  BY DEF StakeOf, ProfitOf
<1>6. 100 * papers[i].stake + papers[i].profit \in Nat
  BY <1>3 DEF SandboxTyped, Covered
<1> QED BY <1>2, <1>4, <1>5, <1>6

\* Every step keeps it: a stake is taken of what is there, and comes back with what was made of it.
LEMMA SandboxStepTyped ==
  ASSUME PathsWhole, CallTicks <= 1, PaperEdge <= 2000, SandboxTyped, [SandboxNext]_sandboxVars
  PROVE  SandboxTyped'
<1>1. SandboxInv' /\ SessionInv'
  BY SandboxAssumption, HonestStep DEF SandboxTyped
<1>2. /\ Made /\ PapersWhole(papers) /\ Lists(papers, closedPapers)
      /\ clock \in Nat /\ TicksPerEpoch \in Nat \ {0} /\ MaxClock \in Nat /\ CallTicks \in 0..1
  BY SandboxAssumption DEF SandboxTyped, SandboxInv, SessionInv, Made
<1>3. Len(SweptClosed) <= MaxClosed
  BY <1>2, SandboxAssumption, SweepLists
<1>4. CASE ClockTicks
  <2>1. clock' <= MaxClock
    BY <1>4 DEF ClockTicks
  <2> QED BY <1>1, <1>4, <2>1 DEF ClockTicks, marketVars, sessionVars, SandboxTyped, Covered
<1>5. CASE SyncEpoch
  <2> DEFINE n == epochNumber
             d == TicksPerEpoch
  <2>1. startedAt' = startedAt + d /\ epochNumber' = n + 1 /\ n \in Nat \ {0} /\ startedAt = (n - 1) * d
        /\ d \in Nat
    BY <1>2, <1>5 DEF SyncEpoch, RotateEpoch, SandboxTyped
  <2>2. clock' = clock /\ paperBalance' = paperBalance /\ papers' = papers /\ closedPapers' = closedPapers
    BY <1>5 DEF SyncEpoch, sessionVars
  <2> HIDE DEF n, d
  <2>3. n + 1 \in Nat \ {0} /\ (n - 1) * d + d = ((n + 1) - 1) * d
    BY ONLY <2>1
  <2>4. epochNumber' \in Nat \ {0} /\ startedAt' = (epochNumber' - 1) * d
    BY <2>1, <2>3
  <2> QED BY <1>1, <2>2, <2>4 DEF SandboxTyped, Covered, d
<1>6. CASE SweepPapers
  <2>1. /\ papers' = SweptPapers /\ paperBalance' = SweptBalance /\ closedPapers' = SweptClosed
        /\ clock' = clock /\ startedAt' = startedAt /\ epochNumber' = epochNumber
    BY <1>6 DEF SweepPapers, marketVars
  <2>2. Covered'
    BY <2>1, SweptCovered DEF Covered
  <2> QED BY <1>1, <1>3, <2>1, <2>2, SweptOwesNothing DEF SandboxTyped
<1>7. CASE ResetPaper
  <2>1. /\ papers' = [i \in PaperIds |-> NoPaper] /\ paperBalance' = 100 * StartingBalance
        /\ closedPapers' = <<>> /\ clock' = clock /\ startedAt' = startedAt /\ epochNumber' = epochNumber
    BY <1>7 DEF ResetPaper, marketVars
  <2>2. Covered'
    BY <2>1 DEF Covered
  <2>3. Len(<<>>) = 0 /\ MaxClosed \in Nat /\ StartingBalance \in Nat
    BY SandboxAssumption
  <2> QED BY <1>1, <2>1, <2>2, <2>3 DEF SandboxTyped
<1>8. ASSUME NEW i \in PaperIds, NEW dir \in {"BUY", "SELL"}, NEW stake \in PaperStakes,
             NEW h \in Horizons, OpenPaper(i, dir, stake, h)
      PROVE  SandboxTyped'
  <2>1. PICK p : /\ Position(p) /\ p.status = "OPEN" /\ p.stake = stake
                 /\ 100 * p.stake + p.profit \in Nat
                 /\ papers' = [SweptPapers EXCEPT ![i] = p]
    BY <1>2, <1>8, SandboxAssumption, OpenedWhole
  <2>2. DOMAIN SweptPapers = PaperIds
    BY DEF SweptPapers
  <2>3. papers'[i] = p /\ \A j \in PaperIds \ {i} : papers'[j] = SweptPapers[j]
    BY <2>1, <2>2
  <2>4. Covered'
    BY <2>1, <2>3, SweptCovered DEF Covered
  <2>5. /\ paperBalance' = SweptBalance - 100 * stake /\ 100 * stake <= SweptBalance
        /\ closedPapers' = SweptClosed /\ startedAt' = startedAt /\ epochNumber' = epochNumber
        /\ clock' <= MaxClock
    BY <1>8 DEF OpenPaper, marketVars
  <2>6. paperBalance' \in Nat
    <3>1. SweptBalance \in Nat /\ stake \in Nat
      BY SweptOwesNothing, SandboxAssumption
    <3> QED BY <2>5, <3>1
  <2> QED BY <1>1, <1>3, <2>4, <2>5, <2>6 DEF SandboxTyped
<1>9. CASE UNCHANGED sandboxVars
  BY <1>1, <1>9 DEF sandboxVars, marketVars, sessionVars, SandboxTyped, Covered
<1> QED BY <1>4, <1>5, <1>6, <1>7, <1>8, <1>9 DEF SandboxNext

(* Replay *)

ReplayTyped ==
    /\ ReplayInv /\ keptIsFresh \in BOOLEAN
    /\ study # NoStudy => study.knobs.entry \in 0 .. EpochTicks - 1

\* With what the replay keeps, that is its type.
LEMMA ReplayTypedMeans == ReplayTyped => ReplayTypeOK
<1> SUFFICES ASSUME ReplayTyped PROVE ReplayTypeOK
  OBVIOUS
<1>1. LivedOK /\ keptEpochs \in Seq(RevealedEpochs)
  BY DEF ReplayTyped, ReplayInv
<1>2. /\ Len(lived) \in Nat \ {0} /\ lived \in Seq(Epochs) /\ DOMAIN lived = 1 .. Len(lived)
      /\ Running = lived[Len(lived)]
  BY <1>1, RunningIs
<1>3. ASSUME NEW i \in DOMAIN lived
      PROVE  lived[i].n = i /\ lived[i].ticked \in 0..EpochTicks
  <2>1. lived[i] \in Epochs
    BY <1>2
  <2> QED BY <1>1, <1>2, <2>1 DEF LivedOK, Epochs
<1>4. ASSUME NEW e \in RevealedEpochs
      PROVE  e \in ToSet(lived) \ {Running}
  <2>1. PICK i \in 1 .. Len(lived) - 1 : e = lived[i]
    BY DEF RevealedEpochs
  <2> DEFINE L == Len(lived)
  <2>0. L \in Nat \ {0} /\ DOMAIN lived = 1..L /\ i \in 1 .. L - 1
    BY <1>2, <2>1
  <2> HIDE DEF L
  <2>4. i \in 1..L /\ L \in 1..L /\ i # L
    BY ONLY <2>0
  <2>2. i \in DOMAIN lived /\ Len(lived) \in DOMAIN lived /\ i # Len(lived)
    BY <2>0, <2>4 DEF L
  <2>3. lived[i] # lived[Len(lived)]
    BY <1>1, <1>2, <2>2 DEF LivedOK
  <2> QED BY <1>2, <2>1, <2>2, <2>3 DEF ToSet
<1>5. ToSet(keptEpochs) \subseteq RevealedEpochs
  BY <1>1, LenProperties DEF ToSet
<1> QED BY <1>3, <1>4, <1>5 DEF ReplayTyped, ReplayInv, ReplayTypeOK

\* It starts with one epoch running and nothing asked for.
LEMMA ReplayTypeStarts == ReplayInit => ReplayTyped
BY ReplayAssumption, ReplayStarts DEF ReplayInit, ReplayTyped

\* Every step of the live market and of a replay keeps it: what is asked for is clamped.
LEMMA ReplayStepTyped ==
  ASSUME ReplayPriced, ReplayTyped, [ReplayNext]_replayVars
  PROVE  ReplayTyped'
<1>1. ReplayInv'
  BY ReplayAssumption, ReplayStep DEF ReplayTyped
<1>2. CASE LiveTicks \/ LiveRotates \/ LiveRestarts
  BY <1>1, <1>2 DEF LiveTicks, LiveRotates, LiveRestarts, ReplayTyped
<1>3. CASE AskEpochs \/ KeptAges
  BY <1>1, <1>3 DEF AskEpochs, KeptAges, Fetches, ReplayTyped
<1>4. ASSUME NEW n \in 1..MaxLived, NEW k \in KnobChoices, RunReplay(n, k) PROVE ReplayTyped'
  <2>1. PICK e : study' = [epoch |-> e, knobs |-> ClampKnobs(k)]
    BY <1>4 DEF RunReplay
  <2> DEFINE x == k.entry
             hi == EpochTicks - 1
  <2>2. x \in Int /\ hi \in Int /\ 0 \in Int /\ 0 <= hi
    BY ReplayAssumption
  <2> HIDE DEF x, hi
  <2>6. Clamp(x, 0, hi) \in 0 .. hi
    BY ONLY <2>2, ClampBounds
  <2>3. Clamp(k.entry, 0, EpochTicks - 1) \in 0 .. EpochTicks - 1
    BY <2>6 DEF x, hi
  <2>4. study'.knobs.entry = Clamp(k.entry, 0, EpochTicks - 1)
    BY <2>1 DEF ClampKnobs
  <2>5. keptIsFresh' \in BOOLEAN
    BY <1>4 DEF RunReplay, Fetches
  <2> QED BY <1>1, <2>3, <2>4, <2>5 DEF ReplayTyped
<1>5. CASE UNCHANGED replayVars
  BY <1>1, <1>5 DEF replayVars, ReplayTyped
<1> QED BY <1>2, <1>3, <1>4, <1>5 DEF ReplayNext
=============================================================================
