------------------------------- MODULE Tickets -------------------------------
(***************************************************************************)
(* Every product a trader can take, from its price to its result: what edge  *)
(* it is charged, with or without a trading pass, what it pays               *)
(* (services/digits.ts, services/digital.ts, placeTrade of                   *)
(* services/trading.ts), what the screen says it is worth while it is open   *)
(* (client/src/lib/pnl.ts), and what it is worth when it closes.             *)
(*                                                                         *)
(* Money is in cents, edges in hundredths of a percent, chances in           *)
(* hundredths, prices in the instrument's smallest step.                     *)
(***************************************************************************)
EXTENDS Pricing, FiniteSets

CONSTANTS
    DigitalEdge,    \* env.digitalEdge
    ScaledEdges,    \* what the platform's edge may be
    PassEdges,      \* what a trading pass may grant
    TicketStakes,
    Mids, Exits,    \* prices at open and later
    ScaledMultiplier, \* of the scaled product, at the duration chosen
    MostMultiple,   \* env.maxProfitMultiple
    BarrierSteps    \* how far a digital's barrier is from its entry

MinEdge == 50

ASSUME TicketAssumption ==
    /\ DigitalEdge \in Nat /\ ScaledEdges \subseteq 0..2000 /\ PassEdges \subseteq 0..2000
    /\ TicketStakes \subseteq Nat \ {0}
    /\ Mids \subseteq Nat \ {0} /\ Exits \subseteq Nat \ {0}
    /\ ScaledMultiplier \in Nat \ {0} /\ MostMultiple \in Nat /\ BarrierSteps \in Nat

VARIABLES
    pass,       \* promo_edge of a trader whose pass is valid, or NoPass
    ticket      \* the position open, or NoTicket

ticketVars == <<pass, ticket>>

NoPass == -1
NoTicket == [kind |-> "none"]

-----------------------------------------------------------------------------
(* Prices *)

\* isOfferedDigit: Over 9 and Under 0 can never win.
Offered(kind, digit) ==
    \/ kind = "DIGITS_OVER" /\ digit \in 0..8
    \/ kind = "DIGITS_UNDER" /\ digit \in 1..9

\* Mutant: landing on the digit wins.
ChanceInclusive(kind, digit) ==
    IF kind = "DIGITS_OVER" THEN 10 * (10 - digit) ELSE 10 * (digit + 1)

\* digitWinChance.
DigitChance(kind, digit) == IF kind = "DIGITS_OVER" THEN 10 * (9 - digit) ELSE 10 * digit

\* digitalEdgeFor: a pass applies when it is the better rate, floored.
EdgeWith(p) ==
    LET base == Clamp(DigitalEdge, MinEdge, 2000)
    IN  IF p # NoPass /\ p < base THEN Clamp(p, MinEdge, 2000) ELSE base

\* The pass, or the platform's edge e.
ScaledEdgeWith(p, e) == IF p \in 0..2000 THEN p ELSE e

\* payoutRate = ((1 - p) - edge) / p, as the most a stake can win.
MostOf(stake, chance, edge) ==
    RoundHalfUp(stake * (10000 - 100 * chance - edge), 100 * chance)

-----------------------------------------------------------------------------
(* Opening *)

\* A parity ticket has neither digit nor barrier: its level is 0.
FixedTicket(kind, dir, level, chance, mid, stake, edge) ==
    [kind |-> kind, dir |-> dir, level |-> level, chance |-> chance, entry |-> mid,
     stake |-> stake, edge |-> edge, most |-> MostOf(stake, chance, edge)]

PlaceDigit(kind, digit, stake, mid) ==
    /\ Offered(kind, digit)
    /\ ticket' = FixedTicket(kind, "BUY", digit, DigitChance(kind, digit), mid, stake,
                             EdgeWith(pass))

PlaceParity(kind, stake, mid) ==
    ticket' = FixedTicket(kind, "BUY", 0, 50, mid, stake, EdgeWith(pass))

\* quoteDigital: the barrier is on the losing side of the entry.
Barrier(dir, mid, chance) == mid - Sign(dir) * BarrierSteps * (chance - 50)

PlaceDigital(dir, chance, stake, mid) ==
    ticket' = FixedTicket("DIGITAL", dir, Barrier(dir, mid, chance), chance, mid, stake,
                          EdgeWith(pass))

PlaceScaled(dir, stake, mid, e) ==
    LET edge == ScaledEdgeWith(pass, e)
    IN  ticket' = [kind |-> "SCALED", dir |-> dir, level |-> mid, chance |-> 0,
                   entry |-> ApplySpread(mid, dir, ScaledMultiplier, edge),
                   stake |-> stake, edge |-> edge, most |-> stake * MostMultiple]

BuyTicket ==
    /\ ticket = NoTicket
    /\ \E stake \in TicketStakes, mid \in Mids :
          \/ \E kind \in {"DIGITS_OVER", "DIGITS_UNDER"}, d \in 0..9 :
                PlaceDigit(kind, d, stake, mid)
          \/ \E kind \in {"DIGITS_EVEN", "DIGITS_ODD"} : PlaceParity(kind, stake, mid)
          \/ \E dir \in {"BUY", "SELL"} :
                \/ \E chance \in {60, 70, 80} : PlaceDigital(dir, chance, stake, mid)
                \/ \E e \in ScaledEdges : PlaceScaled(dir, stake, mid, e)
    /\ UNCHANGED pass

-----------------------------------------------------------------------------
(* Being open, and closing *)

LastDigit(price) == price % 10

\* digitWinningAt.
DigitWins(t, price) ==
    LET d == LastDigit(price)
    IN  \/ t.kind = "DIGITS_OVER" /\ d > t.level
        \/ t.kind = "DIGITS_UNDER" /\ d < t.level
        \/ t.kind = "DIGITS_EVEN" /\ d % 2 = 0
        \/ t.kind = "DIGITS_ODD" /\ d % 2 = 1

IsDigits(t) == t.kind \in {"DIGITS_OVER", "DIGITS_UNDER", "DIGITS_EVEN", "DIGITS_ODD"}

\* unrealisedProfit of client and server: clamped, then rounded half up.
ShownScaled(dir, stake, mult, entry, most, price) ==
    LET raw == stake * mult * Sign(dir) * (price - entry)
    IN  IF raw < -stake * entry THEN -stake
        ELSE IF raw > most * entry THEN most ELSE RoundHalfUp(raw, entry)

ShownProfit(t, price) ==
    IF t.kind = "SCALED"
    THEN ShownScaled(t.dir, t.stake, ScaledMultiplier, t.entry, t.most, price)
    ELSE IF IF IsDigits(t) THEN DigitWins(t, price) ELSE DigitalWins(t.dir, t.level, price)
         THEN t.most ELSE -t.stake

\* fpesa_settle_trade.
PaidOut(t, price) ==
    IF t.kind = "SCALED"
    THEN ScaledProfit(t.dir, t.stake, ScaledMultiplier, t.entry, t.most, price)
    ELSE DigitalProfit(t.dir, t.stake, t.level, t.most, price)

CloseTicket == ticket # NoTicket /\ ticket' = NoTicket /\ UNCHANGED pass

\* POST /promo, and the end of its window.
RedeemPass(e) == pass = NoPass /\ pass' = e /\ UNCHANGED ticket
PassEnds == pass # NoPass /\ pass' = NoPass /\ UNCHANGED ticket

-----------------------------------------------------------------------------
TicketInit == pass = NoPass /\ ticket = NoTicket
TicketNext == BuyTicket \/ CloseTicket \/ (\E e \in PassEdges : RedeemPass(e)) \/ PassEnds
TicketSpec == TicketInit /\ [][TicketNext]_ticketVars

-----------------------------------------------------------------------------
(* Properties *)

\* Every variable is of the shape the code gives it: an open position was priced at an
\* edge of at most 20%.
TicketTypeOK ==
    /\ pass \in {NoPass} \cup PassEdges
    /\ ticket # NoTicket =>
          /\ ticket.entry > 0 /\ ticket.edge \in 0..2000
          /\ ticket.stake \in TicketStakes /\ ticket.most >= -ticket.stake

\* "Picking a rarer digit buys a bigger payout and nothing else": over the ten
\* digits a market may close on, a digit ticket returns its stake less the edge, to
\* half a cent a win, with or without a pass; so do a hundred digitals of which
\* the quoted share wins; and at an edge of up to a tenth every win pays.
Digits == 0..9
TicketsPricedFair ==
    ticket # NoTicket /\ ticket.kind # "SCALED" =>
        LET t == ticket
            wins == IF IsDigits(t) THEN 10 * Cardinality({d \in Digits : DigitWins(t, d)})
                    ELSE t.chance
            back == wins * t.most - (100 - wins) * t.stake
        IN  /\ 10000 * back + 100 * t.edge * t.stake \in -5000 * wins .. 5000 * wins
            /\ t.edge \in MinEdge..2000
            /\ t.edge <= 1000 => t.most >= 0

\* "so the number the trader watches while the countdown runs is the number they
\* get when it closes": at any price a position is paid what the screen shows, but
\* for a cent of rounding against the trader.
ShownIsPaid ==
    ticket # NoTicket /\ ~IsDigits(ticket) =>
        \A price \in Exits : ShownProfit(ticket, price) - PaidOut(ticket, price) \in 0..1

\* A ticket is worth what it is said to be, when it is sold and while it is open.
TicketsHonest == TicketsPricedFair /\ ShownIsPaid
=============================================================================
