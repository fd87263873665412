----------------------------- MODULE MarketView -----------------------------
(***************************************************************************)
(* The market a trader looks at: the choice of it in the page                *)
(* (client/src/store/app.tsx), the socket its ticks come by                  *)
(* (client/src/lib/ws.ts, server/src/realtime/hub.ts), and the price, the     *)
(* digits and the chart they are shown in (client/src/components/             *)
(* PriceChart.tsx).  The choice is kept in five places, each of which catches *)
(* up in its own time: the page's state, the handler's reference, the chart's *)
(* last rendering, the client's socket and the hub's.                        *)
(*                                                                         *)
(* A tick is the market it is of: how old a price is, is left out.           *)
(***************************************************************************)
EXTENDS Integers, Sequences, SequencesExt

CONSTANTS
    Markets,
    DefaultMarket,  \* of the hub, and of the page until it has a configuration
    Remembered,     \* the market the browser remembers
    DigitRoom,      \* digits kept; a thousand
    MaxInFlight,    \* bound on the ticks on their way to the client
    MaxSwitches,    \* bound on the changes of market
    MaxMishaps      \* bound on the sockets lost and the requests that fail, together

ASSUME ViewAssumption ==
    /\ DefaultMarket \in Markets /\ Remembered \in Markets
    /\ {DigitRoom, MaxInFlight} \subseteq Nat \ {0}
    /\ MaxSwitches \in Nat /\ MaxMishaps \in Nat

VARIABLES
    \* the page
    answered,     \* the first requests have been answered
    symbol,     \* the page's state
    symbolRef,  \* what the handler of ticks goes by
    rendered,   \* the symbol the chart was last rendered with
    shownPrice, \* the market whose price is on the ticket, or NoMarket
    digits,     \* the markets of the last digits kept, oldest first
    quotes,     \* the markets whose quote has been asked for
    wanted,    \* the chart's request in progress: its market, or NoMarket
    staleHistories, \* the markets of requests that were cancelled
    chart,      \* the markets of the points drawn
    \* the socket
    wire,       \* readyState of the newest socket, "none" before the first
    leaving,    \* an older socket has yet to report that it is closed
    retry,      \* retryTimer is set
    watching,   \* the client's choice, or NoMarket
    connected,  \* what the page was last told of the connection
    watches,    \* watch messages on their way to the hub
    inFlight,   \* ticks on their way to the page
    \* the hub
    served,     \* the newest socket is one of its clients
    isAlive,
    hubWatching,
    \* bounds
    switches, drops, failures

pageVars == <<answered, symbol, symbolRef, rendered, shownPrice, digits, quotes, wanted,
              staleHistories, chart>>
socketVars == <<wire, leaving, retry, watching, connected, watches, inFlight>>
hubVars == <<served, isAlive, hubWatching>>
countVars == <<switches, drops, failures>>
panelVars == <<pageVars, socketVars, hubVars, countVars>>

NoMarket == "none"

Lost == drops + failures < MaxMishaps /\ drops' = drops + 1 /\ UNCHANGED <<switches, failures>>
Failed == drops + failures < MaxMishaps /\ failures' = failures + 1 /\ UNCHANGED <<switches, drops>>

-----------------------------------------------------------------------------
(* The hub *)

SendPrice(market) ==
    inFlight' = IF wire = "open" /\ served /\ Len(inFlight) < MaxInFlight
                THEN Append(inFlight, market) ELSE inFlight

\* A tick of the market this socket is shown.
HubTick ==
    /\ served /\ Len(inFlight) < MaxInFlight
    /\ wire = "open" /\ inFlight' = Append(inFlight, hubWatching)
    /\ UNCHANGED <<pageVars, wire, leaving, retry, watching, connected, watches, hubVars, countVars>>

\* A watch message is answered with the price there is.
HubWatches ==
    /\ watches # <<>> /\ served
    /\ watches' = Tail(watches) /\ hubWatching' = Head(watches)
    /\ SendPrice(Head(watches))
    /\ UNCHANGED <<pageVars, wire, leaving, retry, watching, connected, served, isAlive, countVars>>

\* The heartbeat: who has not answered the last one is dropped, and learns of it later.
Heartbeat ==
    /\ served
    /\ \/ isAlive /\ isAlive' = FALSE /\ UNCHANGED <<served, countVars>>
       \/ ~isAlive /\ served' = FALSE /\ Lost /\ UNCHANGED isAlive
    /\ UNCHANGED <<pageVars, socketVars, hubWatching>>

Pong ==
    /\ served /\ wire = "open" /\ ~isAlive /\ isAlive' = TRUE
    /\ UNCHANGED <<pageVars, socketVars, served, hubWatching, countVars>>

-----------------------------------------------------------------------------
(* The client's socket *)

\* connect: nothing while a socket is open or opening.
Dial ==
    IF wire \in {"open", "connecting"} THEN UNCHANGED <<wire, leaving, watches, inFlight, hubVars>>
    ELSE /\ wire' = "connecting" /\ leaving' = (leaving \/ wire = "closing")
         /\ watches' = <<>> /\ inFlight' = <<>>
         /\ served' = FALSE /\ isAlive' = TRUE /\ hubWatching' = DefaultMarket

\* Mutant: the choice is sent when it changes and not again.
OpensUnrestated ==
    /\ wire = "connecting" /\ wire' = "open" /\ connected' = TRUE
    /\ served' = TRUE /\ inFlight' = <<DefaultMarket>>
    /\ UNCHANGED <<pageVars, leaving, retry, watching, watches, isAlive, hubWatching, countVars>>

\* onopen, and the hub's connection handler: it greets with the default market's
\* price, and is told the choice again.
SocketOpen ==
    /\ wire = "connecting" /\ wire' = "open" /\ connected' = TRUE
    /\ served' = TRUE /\ inFlight' = <<DefaultMarket>>
    /\ watches' = IF watching = NoMarket THEN <<>> ELSE <<watching>>
    /\ UNCHANGED <<pageVars, leaving, retry, watching, isAlive, hubWatching, countVars>>

\* onclose of the newest socket, or of an older one: what was on its way is lost.
OnClose ==
    /\ connected' = FALSE /\ retry' = TRUE

SocketLost ==
    /\ \/ wire \in {"connecting", "open"} /\ Lost
       \/ wire = "open" /\ ~served /\ UNCHANGED countVars
    /\ served' = FALSE /\ watches' = <<>> /\ inFlight' = <<>>
    /\ \/ wire' = "closed" /\ OnClose
       \/ wire' = "closing" /\ UNCHANGED <<connected, retry>>
    /\ UNCHANGED <<pageVars, leaving, watching, isAlive, hubWatching>>

SocketGone ==
    /\ \/ wire = "closing" /\ wire' = "closed" /\ UNCHANGED leaving
       \/ leaving /\ leaving' = FALSE /\ UNCHANGED wire
    /\ OnClose
    /\ UNCHANGED <<pageVars, watching, watches, inFlight, hubVars, countVars>>

RetryFires ==
    /\ retry /\ retry' = FALSE
    /\ Dial
    /\ UNCHANGED <<pageVars, watching, connected, countVars>>

\* resume: the page is looked at again, the network is back, or the trader logs in.
Resume ==
    /\ wire # "open"
    /\ retry' = FALSE
    /\ Dial
    /\ UNCHANGED <<pageVars, watching, connected, countVars>>

\* watch: sent if the socket is open, and in any case when it opens next.
Watch(market) ==
    /\ watching' = market
    /\ watches' = IF watching # market /\ wire = "open" THEN Append(watches, market) ELSE watches

-----------------------------------------------------------------------------
(* The page *)

\* The bootstrap's four requests have been answered, or have failed.  The quote is
\* that of the remembered market, whatever the configuration says.
Bootstrap ==
    /\ ~answered /\ answered' = TRUE
    /\ \/ /\ symbol' = Remembered /\ Watch(Remembered)
          /\ \/ shownPrice' = Remembered /\ UNCHANGED countVars
             \/ Failed /\ UNCHANGED shownPrice
       \/ /\ Failed /\ UNCHANGED <<symbol, watching, watches>>
          /\ shownPrice' \in {Remembered, shownPrice}
    /\ UNCHANGED <<symbolRef, rendered, digits, quotes, wanted, staleHistories, chart,
                   wire, leaving, retry, connected, inFlight, hubVars>>

\* setSymbol.  The price is the one last seen of that market, if any was.
Switch(market) ==
    /\ answered /\ switches < MaxSwitches /\ switches' = switches + 1
    /\ market # symbolRef
    /\ symbolRef' = market /\ symbol' = market
    /\ digits' = <<>>
    /\ Watch(market)
    /\ shownPrice' \in {market, shownPrice}
    /\ quotes' = quotes \cup {market}
    /\ UNCHANGED <<answered, rendered, wanted, staleHistories, chart,
                   wire, leaving, retry, connected, inFlight, hubVars, drops, failures>>

QuoteReply(market) ==
    /\ market \in quotes /\ quotes' = quotes \ {market}
    /\ \/ shownPrice' = IF market = symbolRef THEN market ELSE shownPrice
       \/ UNCHANGED shownPrice
    /\ UNCHANGED <<answered, symbol, symbolRef, rendered, digits, wanted, staleHistories, chart,
                   socketVars, hubVars, countVars>>

\* React renders: the reference follows, and the chart loads history, not waiting
\* any more for what it had asked for.
RenderView ==
    /\ rendered # symbol /\ rendered' = symbol
    /\ symbolRef' = symbol
    /\ wanted' = symbol
    /\ staleHistories' = staleHistories \cup ({wanted} \ {NoMarket})
    /\ UNCHANGED <<answered, symbol, shownPrice, digits, quotes, chart, socketVars, hubVars, countVars>>

HistoryArrives ==
    /\ wanted # NoMarket /\ wanted' = NoMarket
    /\ chart' = {wanted}
    /\ UNCHANGED <<answered, symbol, symbolRef, rendered, shownPrice, digits, quotes, staleHistories,
                   socketVars, hubVars, countVars>>

\* What is drawn stays.
HistoryFails ==
    /\ wanted # NoMarket /\ wanted' = NoMarket
    /\ Failed
    /\ UNCHANGED <<answered, symbol, symbolRef, rendered, shownPrice, digits, quotes, staleHistories,
                   chart, socketVars, hubVars>>

\* Mutant: it is drawn all the same.
CancelledDrawn(market) ==
    /\ market \in staleHistories /\ staleHistories' = staleHistories \ {market}
    /\ chart' = {market}
    /\ UNCHANGED <<answered, symbol, symbolRef, rendered, shownPrice, digits, quotes, wanted,
                   socketVars, hubVars, countVars>>

\* A request that was cancelled is answered.
CancelledArrives(market) ==
    /\ market \in staleHistories /\ staleHistories' = staleHistories \ {market}
    /\ UNCHANGED <<answered, symbol, symbolRef, rendered, shownPrice, digits, quotes, wanted, chart,
                   socketVars, hubVars, countVars>>

\* onmessage: the handlers of the page and of the chart, each by its own idea of the
\* market.
TickShown ==
    /\ inFlight # <<>> /\ inFlight' = Tail(inFlight)
    /\ LET market == Head(inFlight)
           kept == Append(digits, market)
       IN  /\ IF market = symbolRef
              THEN /\ shownPrice' = market
                   /\ digits' = IF Len(kept) > DigitRoom THEN Tail(kept) ELSE kept
              ELSE UNCHANGED <<shownPrice, digits>>
           /\ chart' = IF market = rendered THEN chart \cup {market} ELSE chart
    /\ UNCHANGED <<answered, symbol, symbolRef, rendered, quotes, wanted, staleHistories,
                   wire, leaving, retry, watching, connected, watches, hubVars, countVars>>

-----------------------------------------------------------------------------
\* The page mounts: it connects, and the chart asks for the default market's history.
ViewInit ==
    /\ answered = FALSE
    /\ symbol = DefaultMarket /\ symbolRef = DefaultMarket /\ rendered = DefaultMarket
    /\ shownPrice = NoMarket /\ digits = <<>> /\ quotes = {}
    /\ wanted = DefaultMarket /\ staleHistories = {} /\ chart = {}
    /\ wire = "connecting" /\ leaving = FALSE /\ retry = FALSE
    /\ watching = NoMarket /\ connected = FALSE /\ watches = <<>> /\ inFlight = <<>>
    /\ served = FALSE /\ isAlive = TRUE /\ hubWatching = DefaultMarket
    /\ switches = 0 /\ drops = 0 /\ failures = 0

ViewNext ==
    \/ HubTick \/ HubWatches \/ Heartbeat \/ Pong
    \/ SocketOpen \/ SocketLost \/ SocketGone \/ RetryFires \/ Resume
    \/ Bootstrap \/ RenderView \/ HistoryArrives \/ HistoryFails \/ TickShown
    \/ \E market \in Markets :
          Switch(market) \/ QuoteReply(market) \/ CancelledArrives(market)

ViewSpec == ViewInit /\ [][ViewNext]_panelVars

-----------------------------------------------------------------------------
(* Properties *)

\* Every variable is of the shape the code gives it.
ViewTypeOK ==
    /\ answered \in BOOLEAN /\ {symbol, symbolRef, rendered, hubWatching} \subseteq Markets
    /\ {shownPrice, wanted, watching} \subseteq Markets \cup {NoMarket}
    /\ digits \in Seq(Markets) /\ Len(digits) <= DigitRoom
    /\ quotes \subseteq Markets /\ staleHistories \subseteq Markets /\ chart \subseteq Markets
    /\ wire \in {"connecting", "open", "closing", "closed"}
    /\ {leaving, retry, connected, served, isAlive} \subseteq BOOLEAN
    /\ watches \in Seq(Markets) /\ inFlight \in Seq(Markets) /\ Len(inFlight) <= MaxInFlight

\* "So the choice has to be restated every time": the hub shows a socket what the
\* trader chose, or is about to be told, however switches and reconnections meet; and a
\* client that is not connected is about to be.
HubHearsChoice ==
    /\ wire = "open" /\ served /\ watching # NoMarket
          => (hubWatching = watching /\ watches = <<>>) \/ (watches # <<>> /\ Last(watches) = watching)
    /\ watching # NoMarket => watching = symbol
    /\ wire = "closed" => retry

\* "So the chart and the trade panel can never disagree about what is being traded":
\* once a page that has booted is not switched any more, and if the chart's history was
\* not refused, price, digits and chart all come to be of the market on the ticket.
PanelSettles ==
    <>[](answered /\ failures = 0 =>
            shownPrice = symbol /\ ToSet(digits) \subseteq {symbol} /\ chart = {symbol})

\* "Another market's digits say nothing about this one".  Not so: a page that opens on
\* a remembered market keeps the digits the hub sent before it knew.
DigitsOfOneMarket == rendered = symbol => ToSet(digits) \subseteq {symbol}
=============================================================================
