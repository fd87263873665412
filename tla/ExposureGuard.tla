---------------------------- MODULE ExposureGuard ----------------------------
(***************************************************************************)
(* The daily disbursement guard (services/exposure.ts): whether the desk     *)
(* takes new positions for real money.  The figures of the day are the       *)
(* database's.  A read of them is shared by everyone who asks while it is in *)
(* flight, and remembered for fifteen seconds; whoever gets figures applies  *)
(* them to the desk: a timer every twenty seconds, and every placement.      *)
(*                                                                         *)
(* A ratio is a whole number here, and a time of reading is the number of    *)
(* the figures read.                                                         *)
(***************************************************************************)
EXTENDS Integers

CONSTANTS
    PayoutCap,      \* env.dailyPayoutCap; 0 or less disables the guard
    ReopenLevel,    \* env.dailyPayoutCap * env.dailyPayoutReopenFactor
    PayoutMinBase,  \* env.dailyPayoutMinBase
    DayDeposits, DayRatios,     \* what the figures may be
    MaxDays,        \* bound on the changes of the figures
    MaxFailedReads  \* bound on the reads that fail

ASSUME GuardAssumption ==
    /\ PayoutCap \in Int /\ ReopenLevel \in Int /\ ReopenLevel < PayoutCap
    /\ PayoutMinBase \in Nat
    /\ DayDeposits \subseteq Nat /\ DayRatios \subseteq Int
    /\ MaxDays \in Nat /\ MaxFailedReads \in Nat

VARIABLES
    day,            \* what fpesa_daily_exposure answers now
    cachedDay,      \* ExposureGuard.cached
    dayIsFresh,     \* fetchedAt is less than fifteen seconds ago
    dayLoads,       \* the loads in progress; inFlight is the last of them
    dayTicks,       \* timer ticks that await a load, with what the desk was
    dayAsks,        \* placements that await a load, by the load
    deskOpen,       \* ExposureGuard.open
    deskTold,       \* what the last desk message said; open, to begin with
    failedReads

guardVars == <<day, cachedDay, dayIsFresh, dayLoads, dayTicks, dayAsks, deskOpen, deskTold, failedReads>>

Days == [deposits : DayDeposits \cup {0}, ratio : DayRatios \cup {0}, at : 0..MaxDays]
NoDay == [deposits |-> 0, ratio |-> 0, at |-> 0]

\* deposits, withdrawals and settlements move the day's figures; midnight resets
\* them.
DayMoves ==
    /\ day.at < MaxDays
    /\ \E d \in DayDeposits, r \in DayRatios :
          day' = [deposits |-> d, ratio |-> r, at |-> day.at + 1]
    /\ UNCHANGED <<cachedDay, dayIsFresh, dayLoads, dayTicks, dayAsks, deskOpen, deskTold, failedReads>>

-----------------------------------------------------------------------------
(* The desk *)

\* Mutant: a closed desk reopens only for want of a base.
EvaluateLatched(open, d) ==
    \/ PayoutCap <= 0 /\ open
    \/ PayoutCap > 0 /\ (d.deposits < PayoutMinBase \/ (open /\ d.ratio < PayoutCap))

\* evaluate.  A disabled guard leaves the desk as it is and answers yes.
Evaluate(open, d) ==
    \/ PayoutCap <= 0 /\ open
    \/ /\ PayoutCap > 0
       /\ \/ d.deposits < PayoutMinBase
          \/ open /\ d.ratio < PayoutCap
          \/ ~open /\ d.ratio <= ReopenLevel

Apply(d) == deskOpen' = Evaluate(deskOpen, d)

\* Ticks announce a change between the moment they asked and this one.
Broadcast(ticks) ==
    deskTold' = IF \E t \in ticks : t.was # deskOpen' THEN deskOpen' ELSE deskTold

-----------------------------------------------------------------------------
(* Reading the figures *)

LoadIds == {l.id : l \in dayLoads}

\* read, when the cache will not do: the load in flight, or a new one.
JoinLoad(id) ==
    \/ id \in LoadIds /\ UNCHANGED dayLoads
    \/ /\ LoadIds = {} /\ id = 1
       /\ dayLoads' = {[id |-> id, seen |-> NoDay, done |-> FALSE]}

\* tick, every twenty seconds.
TickAsks(id) ==
    /\ JoinLoad(id)
    /\ dayTicks' = dayTicks \cup {[load |-> id, was |-> deskOpen]}
    /\ UNCHANGED <<day, cachedDay, dayIsFresh, dayAsks, deskOpen, deskTold, failedReads>>

\* GET /book and the console: a read that applies nothing.
BookAsks(id) ==
    /\ JoinLoad(id)
    /\ UNCHANGED <<day, cachedDay, dayIsFresh, dayTicks, dayAsks, deskOpen, deskTold, failedReads>>

\* allowRealTrade with a cache that will do, and without.
PlacementCached ==
    /\ dayIsFresh
    /\ Apply(cachedDay)
    /\ UNCHANGED <<day, cachedDay, dayIsFresh, dayLoads, dayTicks, dayAsks, deskTold, failedReads>>

PlacementAsks(id) ==
    /\ ~dayIsFresh
    /\ JoinLoad(id)
    /\ dayAsks' = dayAsks \cup {id}
    /\ UNCHANGED <<day, cachedDay, dayIsFresh, dayTicks, deskOpen, deskTold, failedReads>>

\* The query executes.
LoadExec(l) ==
    /\ ~l.done
    /\ dayLoads' = (dayLoads \ {l}) \cup {[l EXCEPT !.seen = day, !.done = TRUE]}
    /\ UNCHANGED <<day, cachedDay, dayIsFresh, dayTicks, dayAsks, deskOpen, deskTold, failedReads>>

\* The load is over, and what awaited it goes on before anything else can.
LoadEnds(l, d) ==
    LET ticks == {t \in dayTicks : t.load = l.id}
    IN  /\ dayLoads' = dayLoads \ {l}
        /\ dayTicks' = dayTicks \ ticks
        /\ dayAsks' = dayAsks \ {l.id}
        /\ IF ticks = {} /\ l.id \notin dayAsks THEN UNCHANGED deskOpen
           ELSE Apply(d)
        /\ Broadcast(ticks)
        /\ UNCHANGED day

LoadReturns(l) ==
    /\ l.done
    /\ cachedDay' = l.seen /\ dayIsFresh' = TRUE
    /\ LoadEnds(l, l.seen)
    /\ UNCHANGED failedReads

\* The last known figures are applied again.
LoadFails(l) ==
    /\ failedReads < MaxFailedReads /\ failedReads' = failedReads + 1
    /\ LoadEnds(l, cachedDay)
    /\ UNCHANGED <<cachedDay, dayIsFresh>>

\* Fifteen seconds have passed since fetchedAt.
DayAges ==
    /\ dayIsFresh /\ dayIsFresh' = FALSE
    /\ UNCHANGED <<day, cachedDay, dayLoads, dayTicks, dayAsks, deskOpen, deskTold, failedReads>>

-----------------------------------------------------------------------------
GuardInit ==
    /\ day = NoDay /\ cachedDay = NoDay /\ dayIsFresh = FALSE
    /\ dayLoads = {} /\ dayTicks = {} /\ dayAsks = {}
    /\ deskOpen = TRUE /\ deskTold = TRUE /\ failedReads = 0

GuardNext ==
    \/ DayMoves \/ PlacementCached \/ DayAges
    \/ \E id \in 1..2 : TickAsks(id) \/ BookAsks(id) \/ PlacementAsks(id)
    \/ \E l \in dayLoads : LoadExec(l) \/ LoadReturns(l) \/ LoadFails(l)

GuardSpec == GuardInit /\ [][GuardNext]_guardVars

-----------------------------------------------------------------------------
(* Properties *)

\* Every variable is of the shape the code gives it, and one load is in flight.
GuardTypeOK ==
    /\ day \in Days /\ cachedDay \in Days /\ dayIsFresh \in BOOLEAN
    /\ dayLoads \subseteq [id : {1}, seen : Days, done : BOOLEAN]
    /\ dayTicks \subseteq [load : LoadIds, was : BOOLEAN] /\ dayAsks \subseteq LoadIds
    /\ deskOpen \in BOOLEAN /\ deskTold \in BOOLEAN
    /\ failedReads \in 0..MaxFailedReads

\* The desk "comes back on its own": whatever is read late, shared, remembered or
\* not read at all, once the day's figures stop moving the desk is what they say
\* it should be, between the two levels what it was.
DeskFollowsDay ==
    <>[](PayoutCap > 0 =>
            /\ day.deposits < PayoutMinBase \/ day.ratio <= ReopenLevel => deskOpen
            /\ day.deposits >= PayoutMinBase /\ day.ratio >= PayoutCap => ~deskOpen)

\* "Re-checks the book on a timer and announces any change": when a tick has
\* applied its figures, what traders were told is what the desk is.
AnnouncesAnyChange ==
    [][\A t \in dayTicks : t \notin dayTicks' => deskTold' = deskOpen']_guardVars
=============================================================================
