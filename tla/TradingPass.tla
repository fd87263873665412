------------------------------ MODULE TradingPass ------------------------------
(***************************************************************************)
(* Trading passes: a code made in the console lowers the edge of the trader  *)
(* who redeems it, for some hours (routes/admin.routes.ts, POST /trades/promo *)
(* of routes/trade.routes.ts, lib/auth.ts), and what becomes of it between    *)
(* the moment a request is let in and the moment its position is priced: a   *)
(* placement waits for the desk, an auto-run outlives its request by          *)
(* minutes, and a quote on the screen is older still                          *)
(* (services/trading.ts, client/src/store/app.tsx).                          *)
(*                                                                         *)
(* One trader.  Edges are in hundredths of a percent, a grant's time in hours. *)
(***************************************************************************)
EXTENDS Tickets

CONSTANTS
    Codes,          \* what a code may be called
    CodeEdges,      \* what the console may ask for, out of bounds too
    CodeHours,
    CodeLimits,     \* redemptions allowed
    MaxEdgeSteps,   \* bound on the changes of the platform's edge
    MaxPlacements,  \* bound on placements and runs
    RunLegs,        \* legs of a run
    MaxLostQuotes   \* bound on quote requests that fail

ASSUME PassAssumption ==
    /\ CodeEdges \subseteq Int /\ CodeHours \subseteq Nat /\ CodeLimits \subseteq Nat
    /\ MaxEdgeSteps \in Nat /\ MaxPlacements \in Nat /\ RunLegs \in Nat \ {0} /\ MaxLostQuotes \in Nat

VARIABLES
    codes,          \* promo_codes, by code; NoCode before it is made
    redeemed,       \* the codes this trader has redeemed
    grant,          \* users.promo_edge and promo_until: the edge, and the hours left
    platform,       \* Settings.edge
    placing,        \* the placement between its pass being read and its entry being stamped
    legsLeft,       \* legs of the run that are not priced yet
    held,           \* passes the trader has had since the placement under way began
    sold,           \* how the last position was priced
    edgeQuotes,         \* requests for a quote: Idle, Sent, or the edge they were answered with
    shown,          \* edge of the digital quote on the screen, NoPass before the first
    steps, placements, lostQuotes

passVars == <<codes, redeemed, grant, platform, placing, legsLeft, held, sold, edgeQuotes, shown,
              steps, placements, lostQuotes>>

NoCode == [edge |-> 0, hours |-> 0, room |-> 0, active |-> FALSE, made |-> FALSE]
NotPlacing == [pass |-> NoPass, read |-> TRUE, leg |-> FALSE, on |-> FALSE]
NotSold == [kind |-> "none", edge |-> 0]
QuoteSlots == {1, 2}
IdleQuote == -2
SentQuote == -3

-----------------------------------------------------------------------------
(* Codes *)

\* POST /admin/promos: a valid code that is not taken.
CreateCode(c, e, h, n) ==
    /\ ~codes[c].made
    /\ e \in 0..2000 /\ h \in 1..720 /\ n >= 1
    /\ codes' = [codes EXCEPT ![c] =
                    [edge |-> e, hours |-> h, room |-> n, active |-> TRUE, made |-> TRUE]]
    /\ UNCHANGED <<redeemed, grant, platform, placing, legsLeft, held, sold, edgeQuotes, shown,
                   steps, placements, lostQuotes>>

\* POST /admin/promos/:code/disable: what has been granted stands.
DisableCode(c) ==
    /\ codes[c].active
    /\ codes' = [codes EXCEPT ![c].active = FALSE]
    /\ UNCHANGED <<redeemed, grant, platform, placing, legsLeft, held, sold, edgeQuotes, shown,
                   steps, placements, lostQuotes>>

\* toSessionUser and promoEdgeFor: the pass while its time lasts.
PassOf(g) == IF g.left > 0 THEN g.edge ELSE NoPass
Pass == PassOf(grant)

\* fpesa_redeem_promo.
RedeemCode(c) ==
    /\ codes[c].active /\ codes[c].room > 0 /\ c \notin redeemed
    /\ codes' = [codes EXCEPT ![c].room = @ - 1]
    /\ redeemed' = redeemed \cup {c}
    /\ grant' = [edge |-> codes[c].edge, left |-> codes[c].hours]
    /\ held' = IF placing.on THEN held \cup {PassOf(grant')} ELSE held
    /\ UNCHANGED <<platform, placing, legsLeft, sold, edgeQuotes, shown, steps, placements, lostQuotes>>

HourPasses ==
    /\ grant.left > 0
    /\ grant' = [grant EXCEPT !.left = @ - 1]
    /\ held' = IF placing.on THEN held \cup {PassOf(grant')} ELSE held
    /\ UNCHANGED <<codes, redeemed, platform, placing, legsLeft, sold, edgeQuotes, shown, steps,
                   placements, lostQuotes>>

\* The console moves the platform's edge, and the process has read it.
EdgeMoves(e) ==
    /\ steps < MaxEdgeSteps /\ steps' = steps + 1
    /\ e # platform /\ platform' = e
    /\ UNCHANGED <<codes, redeemed, grant, placing, legsLeft, held, sold, edgeQuotes, shown, placements,
                   lostQuotes>>

-----------------------------------------------------------------------------
(* Pricing *)

Begins(leg, left) ==
    /\ placing' = [pass |-> Pass, read |-> TRUE, leg |-> leg, on |-> TRUE]
    /\ legsLeft' = left
    /\ held' = {Pass}

\* POST /trades and POST /trades/run: the pass is on the session that attachUser loads.
AskPlace(legs) ==
    /\ ~placing.on /\ legsLeft = 0
    /\ placements < MaxPlacements /\ placements' = placements + 1
    /\ Begins(legs > 1, legs - 1)
    /\ UNCHANGED <<codes, redeemed, grant, platform, sold, edgeQuotes, shown, steps, lostQuotes>>

\* Mutant: a run's later legs are priced at the pass it began with.
NextLegAsBegun ==
    /\ ~placing.on /\ legsLeft > 0
    /\ placing' = [placing EXCEPT !.on = TRUE]
    /\ legsLeft' = legsLeft - 1
    /\ held' = {Pass}
    /\ UNCHANGED <<codes, redeemed, grant, platform, sold, edgeQuotes, shown, steps, placements, lostQuotes>>

\* advanceRun: a later leg holds no session, and its pass is read again.
NextLeg ==
    /\ ~placing.on /\ legsLeft > 0
    /\ Begins(TRUE, legsLeft - 1)
    /\ UNCHANGED <<codes, redeemed, grant, platform, sold, edgeQuotes, shown, steps, placements, lostQuotes>>

\* promoEdgeFor takes a read that fails for no pass.
NextLegUnread ==
    /\ ~placing.on /\ legsLeft > 0
    /\ placing' = [pass |-> NoPass, read |-> FALSE, leg |-> TRUE, on |-> TRUE]
    /\ legsLeft' = legsLeft - 1
    /\ held' = {Pass}
    /\ UNCHANGED <<codes, redeemed, grant, platform, sold, edgeQuotes, shown, steps, placements, lostQuotes>>

\* placeTrade after the desk has been asked: runs are of the scaled product.
Price(kind) ==
    /\ placing.on
    /\ placing.leg => kind = "SCALED"
    /\ sold' = [kind |-> kind, edge |-> IF kind = "SCALED" THEN ScaledEdgeWith(placing.pass, platform)
                                       ELSE EdgeWith(placing.pass)]
    /\ placing' = IF legsLeft > 0 THEN [placing EXCEPT !.on = FALSE] ELSE NotPlacing
    /\ held' = {}
    /\ UNCHANGED <<codes, redeemed, grant, platform, legsLeft, edgeQuotes, shown, steps, placements,
                   lostQuotes>>

\* The placement is refused: the desk is closed, or the market is not there.  A run ends.
PlacementRefused ==
    /\ placing.on
    /\ placing' = NotPlacing
    /\ legsLeft' = 0 /\ held' = {}
    /\ UNCHANGED <<codes, redeemed, grant, platform, sold, edgeQuotes, shown, steps, placements,
                   lostQuotes>>

-----------------------------------------------------------------------------
(* What the screen offers *)

\* Mutant: the quote is asked for once.
AskQuoteOnce(i) ==
    /\ edgeQuotes[i] = IdleQuote /\ shown = NoPass
    /\ edgeQuotes' = [edgeQuotes EXCEPT ![i] = SentQuote]
    /\ UNCHANGED <<codes, redeemed, grant, platform, placing, legsLeft, held, sold, shown, steps,
                   placements, lostQuotes>>

\* Every three seconds while the ticket is open, answered or not.
AskQuote(i) ==
    /\ edgeQuotes[i] = IdleQuote
    /\ edgeQuotes' = [edgeQuotes EXCEPT ![i] = SentQuote]
    /\ UNCHANGED <<codes, redeemed, grant, platform, placing, legsLeft, held, sold, shown, steps,
                   placements, lostQuotes>>

\* GET /trades/digital/quote.
QuoteExec(i) ==
    /\ edgeQuotes[i] = SentQuote
    /\ edgeQuotes' = [edgeQuotes EXCEPT ![i] = EdgeWith(Pass)]
    /\ UNCHANGED <<codes, redeemed, grant, platform, placing, legsLeft, held, sold, shown, steps,
                   placements, lostQuotes>>

EdgeQuoteArrives(i) ==
    /\ edgeQuotes[i] >= 0
    /\ shown' = edgeQuotes[i]
    /\ edgeQuotes' = [edgeQuotes EXCEPT ![i] = IdleQuote]
    /\ UNCHANGED <<codes, redeemed, grant, platform, placing, legsLeft, held, sold, steps, placements,
                   lostQuotes>>

\* The last quote is left up.
EdgeQuoteFails(i) ==
    /\ edgeQuotes[i] # IdleQuote
    /\ lostQuotes < MaxLostQuotes /\ lostQuotes' = lostQuotes + 1
    /\ edgeQuotes' = [edgeQuotes EXCEPT ![i] = IdleQuote]
    /\ UNCHANGED <<codes, redeemed, grant, platform, placing, legsLeft, held, sold, shown, steps,
                   placements>>

-----------------------------------------------------------------------------
PassInit ==
    /\ codes = [c \in Codes |-> NoCode] /\ redeemed = {}
    /\ grant = [edge |-> 0, left |-> 0]
    /\ platform \in ScaledEdges
    /\ placing = NotPlacing /\ legsLeft = 0 /\ held = {} /\ sold = NotSold
    /\ edgeQuotes = [i \in QuoteSlots |-> IdleQuote] /\ shown = NoPass
    /\ steps = 0 /\ placements = 0 /\ lostQuotes = 0

QuoteStep(i) == AskQuote(i) \/ QuoteExec(i) \/ EdgeQuoteArrives(i) \/ EdgeQuoteFails(i)

PassNext ==
    \/ \E c \in Codes : \/ DisableCode(c) \/ RedeemCode(c)
                        \/ \E e \in CodeEdges, h \in CodeHours, n \in CodeLimits : CreateCode(c, e, h, n)
    \/ HourPasses \/ NextLeg \/ NextLegUnread \/ PlacementRefused
    \/ \E e \in ScaledEdges : EdgeMoves(e)
    \/ \E legs \in {1, RunLegs} : AskPlace(legs)
    \/ \E kind \in {"SCALED", "DIGITAL"} : Price(kind)
    \/ \E i \in QuoteSlots : QuoteStep(i)

PassSpec == PassInit /\ [][PassNext]_passVars

-----------------------------------------------------------------------------
(* Properties *)

Rates == 0..2000
GrantHours == 0..720
CodeRecords == [edge : Rates, hours : GrantHours, room : Nat, active : BOOLEAN, made : BOOLEAN]
Grants == [edge : Rates, left : GrantHours]
PassRange == {NoPass} \cup Rates
Placings == [pass : PassRange, read : BOOLEAN, leg : BOOLEAN, on : BOOLEAN]
SoldAs == [kind : {"none", "SCALED", "DIGITAL"}, edge : Rates]
QuoteStates == {IdleQuote, SentQuote} \cup Rates

\* Every variable is of the shape the code gives it: an edge of at most 20% is granted,
\* and none is priced above it.
PassTypeOK ==
    /\ codes \in [Codes -> CodeRecords] /\ redeemed \subseteq Codes /\ grant \in Grants
    /\ platform \in ScaledEdges
    /\ placing \in Placings /\ legsLeft \in Nat /\ held \subseteq PassRange /\ sold \in SoldAs
    /\ edgeQuotes \in [QuoteSlots -> QuoteStates] /\ shown \in PassRange
    /\ steps \in 0..MaxEdgeSteps /\ placements \in 0..MaxPlacements /\ lostQuotes \in 0..MaxLostQuotes

\* "Redemptions already granted stand", and no longer than granted: whatever expires,
\* is redeemed or is disabled meanwhile, a position about to be priced carries a pass
\* that its trader has had since the request, or since this leg of the run, began; only
\* the leg of a run whose read of the pass failed goes without.
PassHonoured == placing.on /\ placing.read => placing.pass \in held

\* "The figures on screen are the ones it will price against": once the first quote is up,
\* and codes and hours have stopped changing, the digital quote on the screen is at the
\* edge a placement would be priced at, though answers are lost and come out of order.
QuoteCatchesUp == <>[](shown = NoPass) \/ <>[](shown = EdgeWith(Pass))

\* "Redeems a promo code, which lowers this trader's spread for a window": a pass
\* never costs its holder more than going without it.
PassNeverDearer ==
    [][sold' # sold /\ sold'.kind = "SCALED" /\ placing.pass # NoPass => sold'.edge <= platform]_passVars
=============================================================================
