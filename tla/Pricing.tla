------------------------------- MODULE Pricing -------------------------------
(***************************************************************************)
(* The arithmetic of one position, over whole numbers: prices are counted  *)
(* in the instrument's smallest step (10^-precision) and money in cents, so *)
(* every rounding of the code is a rounding to a whole number here.         *)
(*                                                                         *)
(* Translated from applySpread and exitLevels (services/trading.ts) and     *)
(* from the settlement branches of fpesa_settle_trade                       *)
(* (supabase/manual/2026-09-11-digital-settle-branch.sql).                  *)
(***************************************************************************)
EXTENDS Integers

\* One whole, in basis points: the unit of the house edge.
Bps == 10000

Sign(dir) == IF dir = "BUY" THEN 1 ELSE -1

\* Math.round(n / d) of JavaScript, d > 0: halves go up.
RoundHalfUp(n, d) == (2 * n + d) \div (2 * d)

\* round(n / d) of PostgreSQL's numeric, d > 0: halves go away from zero.
RoundAway(n, d) ==
    IF n >= 0 THEN RoundHalfUp(n, d) ELSE -RoundHalfUp(-n, d)

Clamp(x, lo, hi) == IF x < lo THEN lo ELSE IF x > hi THEN hi ELSE x

-----------------------------------------------------------------------------
(* At open *)

\* The entry marked against the trader by edge / multiplier.
ApplySpread(mid, dir, mult, edge) ==
    RoundHalfUp(mid * (mult * Bps + Sign(dir) * edge), mult * Bps)

\* The price at which the loss is the whole stake.
StopOut(entry, dir, mult) ==
    RoundHalfUp(entry * (mult - Sign(dir)), mult)

\* The price at which the profit is profitMultiple stakes.
TakeProfit(entry, dir, mult, profitMultiple) ==
    RoundHalfUp(entry * (mult + Sign(dir) * profitMultiple), mult)

\* A price at or past a level that is below (above) the market.
HitStop(dir, price, stop) == IF dir = "BUY" THEN price <= stop ELSE price >= stop
HitTarget(dir, price, target) == IF dir = "BUY" THEN price >= target ELSE price <= target

-----------------------------------------------------------------------------
(* At settlement *)

\* Mutant: the loss is not clamped to the stake.
ScaledProfitUnclamped(dir, stake, mult, entry, maxProfit, exit) ==
    LET profit == RoundAway(stake * mult * Sign(dir) * (exit - entry), entry)
    IN  IF profit > maxProfit THEN maxProfit ELSE profit

\* Profit of a scaled position: the leveraged move, between losing the stake
\* and the ceiling fixed at open.
ScaledProfit(dir, stake, mult, entry, maxProfit, exit) ==
    Clamp(RoundAway(stake * mult * Sign(dir) * (exit - entry), entry),
          -stake, maxProfit)

\* Profit of a digital: one strict comparison against the barrier.
DigitalWins(dir, barrier, exit) ==
    IF dir = "BUY" THEN exit > barrier ELSE exit < barrier
DigitalProfit(dir, stake, barrier, maxProfit, exit) ==
    IF DigitalWins(dir, barrier, exit) THEN maxProfit ELSE -stake

\* The status a settled row takes. A digital that pays nothing is still WON.
ScaledStatus(profit) ==
    IF profit > 0 THEN "WON" ELSE IF profit < 0 THEN "LOST" ELSE "TIE"
DigitalStatus(dir, barrier, exit) ==
    IF DigitalWins(dir, barrier, exit) THEN "WON" ELSE "LOST"
=============================================================================
