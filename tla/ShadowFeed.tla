----------------------------- MODULE ShadowFeed -----------------------------
(***************************************************************************)
(* The sandbox's shadow of production (services/sandbox-mirror.ts): a        *)
(* socket to the live hub for each market, re-opened when it is lost, and     *)
(* paper positions that are closed on the ticks it brings or by a timer of    *)
(* their own.  One market and one session are modelled.                      *)
(*                                                                         *)
(* How long a reconnection waits (it backs off to a minute) and how long a    *)
(* position runs are left open: a timer that is armed may fire at any time.   *)
(***************************************************************************)
EXTENDS Pricing, FiniteSets, Functions

CONSTANTS
    ShadowIds,          \* bound on the positions of the session
    ShadowPrices,       \* what production's ticks may say
    ShadowStake,        \* in shillings
    ShadowMultiplier, ShadowEdge, ShadowMost,   \* as TradeEngine's
    ShadowBalance       \* env.sandbox.startingBalance, in shillings

ASSUME ShadowAssumption ==
    /\ IsFiniteSet(ShadowIds)
    /\ ShadowPrices \subseteq Nat \ {0}
    /\ ShadowStake \in Nat \ {0} /\ ShadowBalance \in Nat
    /\ ShadowMultiplier \in Nat \ {0} /\ ShadowEdge \in Nat /\ ShadowMost \in Nat

VARIABLES
    shadowPhase,    \* "new", "following" (the code's started) or "stopped" for good
    socket,         \* the newest socket: "none", "connecting", "open" or "closing"
    link,           \* Mirrored.state, as the status page shows it
    reconnect,      \* the timer 'reconnect:<symbol>' is armed
    lastTick,       \* Mirrored.price, 0 until production sent one
    shadows,        \* the positions by id, NoShadow if there is none
    expiries,       \* the ids whose timer 'expiry:<id>' is armed
    shadowCash      \* the session's balance, in cents

linkVars == <<shadowPhase, socket, link, reconnect>>
paperVars == <<shadows, expiries, shadowCash>>
shadowVars == <<linkVars, lastTick, paperVars>>

following == shadowPhase = "following"
NoShadow == [status |-> "NONE"]
OpenShadows == {i \in ShadowIds : shadows[i].status = "OPEN"}

-----------------------------------------------------------------------------
(* The connection *)

\* connect: the constructor may throw, and another attempt is armed at once.
Connect ==
    /\ link' = "connecting"
    /\ \/ socket' = "connecting" /\ reconnect' = FALSE
       \/ socket' = "none" /\ reconnect' = TRUE

StartShadow ==
    /\ shadowPhase = "new" /\ shadowPhase' = "following"
    /\ Connect
    /\ lastTick' = 0
    /\ UNCHANGED paperVars

ReconnectFires ==
    /\ reconnect /\ following
    /\ Connect
    /\ UNCHANGED <<shadowPhase, lastTick, paperVars>>

SocketOpens ==
    /\ socket = "connecting"
    /\ socket' = "open" /\ link' = "open"
    /\ UNCHANGED <<shadowPhase, reconnect, lastTick, paperVars>>

\* 'error': the socket is closed, and its 'close' comes later.
SocketErrs ==
    /\ socket \in {"connecting", "open"}
    /\ socket' = "closing" /\ link' = "closed"
    /\ UNCHANGED <<shadowPhase, reconnect, lastTick, paperVars>>

\* 'close': of a socket that failed, that was stopped or that production dropped.
SocketCloses ==
    /\ socket \in {"open", "closing"}
    /\ socket' = "none" /\ link' = "closed"
    /\ reconnect' = (reconnect \/ following)
    /\ UNCHANGED <<shadowPhase, lastTick, paperVars>>

\* stop: no timer is left, and what is open stays open.
StopShadow ==
    /\ following /\ shadowPhase' = "stopped"
    /\ socket' = IF socket = "none" THEN "none" ELSE "closing"
    /\ link' = "closed" /\ reconnect' = FALSE
    /\ expiries' = {}
    /\ UNCHANGED <<lastTick, shadows, shadowCash>>

-----------------------------------------------------------------------------
(* Positions *)

OpenShadow(i, dir) ==
    LET entry == ApplySpread(lastTick, dir, ShadowMultiplier, ShadowEdge)
    IN  /\ shadows[i] = NoShadow
        /\ lastTick > 0
        /\ 100 * ShadowStake <= shadowCash
        /\ shadowCash' = shadowCash - 100 * ShadowStake
        /\ shadows' = [shadows EXCEPT ![i] =
              [status |-> "OPEN", dir |-> dir, entry |-> entry,
               stop |-> StopOut(entry, dir, ShadowMultiplier),
               target |-> TakeProfit(entry, dir, ShadowMultiplier, ShadowMost)]]
        /\ expiries' = expiries \cup {i}
        /\ UNCHANGED <<linkVars, lastTick>>

StopHit(i, price) == HitStop(shadows[i].dir, price, shadows[i].stop)
TargetHit(i, price) == HitTarget(shadows[i].dir, price, shadows[i].target)
Breached(i, price) == StopHit(i, price) \/ TargetHit(i, price)

ProfitAt(i, price) ==
    LET s == shadows[i]
    IN  Clamp(RoundHalfUp(100 * ShadowStake * ShadowMultiplier * Sign(s.dir) * (price - s.entry),
                          s.entry),
              -100 * ShadowStake, 100 * ShadowStake * ShadowMost)

\* Mutant of what a tick closes: only the side that loses is looked at.
OnlyStops(price) == {i \in OpenShadows : StopHit(i, price)}

\* checkLevels.
ClosedBy(price) == {i \in OpenShadows : Breached(i, price)}

\* settle, of the positions of a set at a price: each for a reason of its own.
Settle(ids, price, Reason(_)) ==
    /\ shadows' = [i \in ShadowIds |->
          IF i \in ids THEN [status |-> "CLOSED", reason |-> Reason(i), exit |-> price,
                             was |-> shadows[i]]
          ELSE shadows[i]]
    /\ expiries' = expiries \ ids
    /\ shadowCash' = shadowCash + SumFunction([i \in ids |-> 100 * ShadowStake + ProfitAt(i, price)])

\* 'message', also of a socket that is closing: the levels of every position are
\* looked at before anything else sees the tick.
TickArrives(price) ==
    /\ socket \in {"open", "closing"}
    /\ lastTick' = price
    /\ Settle(ClosedBy(price), price,
              LAMBDA i : IF StopHit(i, price) THEN "STOP_OUT" ELSE "TAKE_PROFIT")
    /\ UNCHANGED linkVars

\* A position's own timer, at the last price there is.
ExpiryFires(i) ==
    /\ i \in expiries
    /\ Settle({i}, lastTick, LAMBDA j : "EXPIRY")
    /\ UNCHANGED <<linkVars, lastTick>>

ResetShadow ==
    /\ shadows' = [i \in ShadowIds |-> NoShadow]
    /\ expiries' = {}
    /\ shadowCash' = 100 * ShadowBalance
    /\ UNCHANGED <<linkVars, lastTick>>

-----------------------------------------------------------------------------
ShadowInit ==
    /\ shadowPhase = "new" /\ socket = "none" /\ link = "closed" /\ reconnect = FALSE
    /\ lastTick = 0
    /\ shadows = [i \in ShadowIds |-> NoShadow] /\ expiries = {}
    /\ shadowCash = 100 * ShadowBalance

ShadowNext ==
    \/ StartShadow \/ StopShadow
    \/ ReconnectFires \/ SocketOpens \/ SocketErrs \/ SocketCloses
    \/ \E price \in ShadowPrices : TickArrives(price)
    \/ \E i \in ShadowIds : ExpiryFires(i) \/ \E dir \in {"BUY", "SELL"} : OpenShadow(i, dir)
    \/ ResetShadow

ShadowSpec == ShadowInit /\ [][ShadowNext]_shadowVars

-----------------------------------------------------------------------------
(* Properties *)

\* Every variable is of the shape the code gives it.
ShadowTypeOK ==
    /\ shadowPhase \in {"new", "following", "stopped"} /\ reconnect \in BOOLEAN
    /\ socket \in {"none", "connecting", "open", "closing"}
    /\ link \in {"connecting", "open", "closed"}
    /\ lastTick \in ShadowPrices \cup {0}
    /\ shadowCash \in Nat
    /\ \A i \in ShadowIds : shadows[i].status \in {"NONE", "OPEN", "CLOSED"}

\* "Exactly where production runs its barrier scan: on the tick, as it arrives": a
\* position that is open is inside both its levels at the last tick, one that ran to
\* its end left inside them, and no timer is left of a position that is gone.
ShadowInsideLevels ==
    /\ \A i \in OpenShadows : ~Breached(i, lastTick)
    /\ \A i \in ShadowIds :
          LET s == shadows[i]
          IN  s.status = "CLOSED" =>
                 /\ (s.reason = "STOP_OUT") = HitStop(s.was.dir, s.exit, s.was.stop)
                 /\ s.reason = "EXPIRY" => ~HitTarget(s.was.dir, s.exit, s.was.target)
    /\ expiries \subseteq OpenShadows

=============================================================================
