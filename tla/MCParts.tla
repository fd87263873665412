-------------------------------- MODULE MCParts --------------------------------
(***************************************************************************)
(* Model checking of the parts that share no variable: services that have    *)
(* nothing in common but their process, and what the trader's page keeps of   *)
(* its market and its account.  One of them moves in a behaviour, the others  *)
(* stay as they start.  A configuration chooses which may.                   *)
(***************************************************************************)
EXTENDS ExposureGuard, SolvencyView, HouseEdge, TestRig, Tickets, ChainAudit, SandboxService,
        ShadowFeed, PriceFeed, MarketView, TraderAccount,
        Conformance, Adapters, OfflineShell, TradingPass

CONSTANT Parts

VARIABLE part

AllParts == {"guard", "solvency", "edge", "rig", "tickets", "chain", "sandbox", "shadow", "feed",
             "market", "account", "replay", "conform", "adapters", "shell", "pass"}
ASSUME PartsAssumption == Parts \subseteq AllParts

partsVars == <<part, guardVars, solvencyVars, edgeVars, rigVars, ticketVars, chainVars,
               sandboxVars, shadowVars, feedVars, panelVars, accountVars, replayVars, conformVars, adapterVars, shellVars,
               passVars>>

\* A price path made up of a seed, an epoch's number and its start.
MadePath(s, n, start) ==
    [k \in 1..TicksPerEpoch |-> 500 + ((start * 3 + 397 * s + 211 * n + 173 * k) % 11) * 100]

\* The same seed under another sigma: the same moves, larger.
MadeAgain(s, n, start, shock) ==
    [k \in 1..EpochTicks |->
        LET move == shock * (40 * ((start * 3 + 397 * s + 211 * n + 173 * k) % 11) - 200)
        IN  IF start + move < 100 THEN 100 ELSE start + move]

\* Settings asked for: the live ones, and a larger sigma with all the rest out of bounds.
AskedKnobs ==
    {LiveKnobs(1), [shock |-> 2, edge |-> 10000, most |-> 0, scale |-> 0, entry |-> 99]}

\* The durations a paper position may be opened for.
OfferedDurations == <<1, 2>>

\* Two builds, of one hashed file each.
TwoBuilds(b) == IF b = 1 THEN {"index1"} ELSE {"index2"}

AllAdapters == {"palpluss", "intasend"} \X {"DEPOSIT", "WITHDRAWAL"}

\* Of the sandbox's configurations, one is production's as it starts, others differ in the
\* edge or in the odds.
TicketOf(multiplier, most, sigma) == [multiplier |-> multiplier, most |-> most, sigma |-> sigma]
ProductionTicket == TicketOf(10, 3, 4)
SandboxTickets ==
    {WithEdge(ProductionTicket, 1100), WithEdge(ProductionTicket, 500), WithEdge(TicketOf(20, 3, 4), 1100)}

\* A part that does not move starts in one way.
AnyOf(S) == CHOOSE x \in S : TRUE
Moves(p) == part = p
Init ==
    /\ part \in Parts
    /\ GuardInit /\ RigInit /\ ShadowInit /\ ViewInit /\ ShellInit
    /\ SolvencyInit /\ (Moves("solvency") \/ {operatorFloat, wallet} = {AnyOf(Floats)})
    /\ EdgeInit /\ (Moves("edge") \/ storedEdge = NotSet)
    /\ ConformInit /\ (Moves("conform") \/ own = AnyOf(OwnTickets))
    /\ AdaptersInit
    /\ Moves("adapters") \/ <<serving, keyForm>> = <<AnyOf(AdapterKinds), AnyOf(KeyForms)>>
    /\ ChainInit /\ (Moves("chain") \/ weather = AnyOf(Weathers))
    /\ SandboxInit /\ (Moves("sandbox") \/ {epochSeed, nextSeed} = {AnyOf(Seeds)})
    /\ FeedInit /\ (Moves("feed") \/ mode = AnyOf(Modes))
    /\ AccountInit /\ (Moves("account") \/ cookie = Guest)
    /\ ReplayInit /\ (Moves("replay") \/ Running.seed = AnyOf(ReplaySeeds))
    /\ TicketInit /\ PassInit /\ platform = AnyOf(ScaledEdges)

Rest ==
    /\ UNCHANGED part
    /\ part # "guard" => UNCHANGED guardVars
    /\ part # "solvency" => UNCHANGED solvencyVars
    /\ part \notin {"edge", "conform"} => UNCHANGED edgeVars
    /\ part # "rig" => UNCHANGED rigVars
    /\ part # "tickets" => UNCHANGED ticketVars
    /\ part # "chain" => UNCHANGED chainVars
    /\ part # "sandbox" => UNCHANGED sandboxVars
    /\ part # "shadow" => UNCHANGED shadowVars
    /\ part # "feed" => UNCHANGED feedVars
    /\ part # "market" => UNCHANGED panelVars
    /\ part # "account" => UNCHANGED accountVars
    /\ part # "replay" => UNCHANGED replayVars
    /\ part # "conform" => UNCHANGED conformVars
    /\ part # "adapters" => UNCHANGED adapterVars
    /\ part # "shell" => UNCHANGED shellVars
    /\ part # "pass" => UNCHANGED passVars

Next ==
    \/ part = "guard" /\ GuardNext /\ Rest
    \/ part = "solvency" /\ SolvencyNext /\ Rest
    \/ part = "edge" /\ EdgeNext /\ Rest
    \/ part = "rig" /\ RigNext /\ Rest
    \/ part = "tickets" /\ TicketNext /\ Rest
    \/ part = "chain" /\ ChainNext /\ Rest
    \/ part = "sandbox" /\ SandboxNext /\ Rest
    \/ part = "shadow" /\ ShadowNext /\ Rest
    \/ part = "feed" /\ FeedNext /\ Rest
    \/ part = "market" /\ ViewNext /\ Rest
    \/ part = "account" /\ AccountNext /\ Rest
    \/ part = "replay" /\ ReplayNext /\ Rest
    \/ part = "adapters" /\ AdaptersNext /\ Rest
    \/ part = "shell" /\ ShellNext /\ Rest
    \/ part = "pass" /\ PassNext /\ Rest
    \/ part = "conform" /\ ConformNext /\ Rest
          /\ edgeMoves' <= 1   \* bound: the edge is written once while deployments are compared

Spec == Init /\ [][Next]_partsVars

-----------------------------------------------------------------------------
(* Fairness of the part that moves: of a service's timers and of calls that are       *)
(* answered; never of what a person does.                                           *)

\* The timer keeps asking, and a query that was sent is answered.
GuardFairness ==
    /\ WF_guardVars(part = "guard" /\ \E id \in 1..2 : TickAsks(id))
    /\ WF_guardVars(part = "guard" /\ \E l \in dayLoads : LoadExec(l) \/ LoadReturns(l))

\* Pages go on being loaded, views age, and of the reads that are repeated for
\* ever some are answered.
SolvencyFairness ==
    /\ WF_solvencyVars(part = "solvency" /\ AskView) /\ WF_solvencyVars(part = "solvency" /\ ViewAges)
    /\ SF_solvencyVars(part = "solvency" /\ \E r \in viewRead : ReadExec(r))
    /\ SF_solvencyVars(part = "solvency" /\ \E r \in viewRead : ReadReturns(r))

\* The timer runs, every read ends, and of the reads that are repeated for ever
\* some are answered.
EdgeFairness ==
    LET Moving == part \in {"edge", "conform"}
    IN  /\ WF_edgeVars(Moving /\ \E r \in EdgeReads : Timer(r))
        /\ \A r \in EdgeReads :
              /\ SF_edgeVars(Moving /\ RefreshExec(r)) /\ SF_edgeVars(Moving /\ RefreshReturns(r))
              /\ WF_edgeVars(Moving /\ (RefreshReturns(r) \/ RefreshFails(r)))

\* Calls to the database return.
ChainFairness ==
    /\ WF_chainVars(part = "chain" /\ \E a \in appends : AppendExec(a))
    /\ WF_chainVars(part = "chain" /\ \E v \in reveals : RevealExec(v))

\* The feed ticks, messages arrive, requests end, the page renders, timers fire, and
\* connections that are tried are accepted; a dropped socket is noticed.
ViewFairness ==
    /\ WF_panelVars(part = "market" /\ HubTick) /\ WF_panelVars(part = "market" /\ HubWatches) /\ WF_panelVars(part = "market" /\ Pong)
    /\ WF_panelVars(part = "market" /\ SocketOpen) /\ WF_panelVars(part = "market" /\ ~served /\ SocketLost)
    /\ WF_panelVars(part = "market" /\ SocketGone) /\ WF_panelVars(part = "market" /\ RetryFires)
    /\ WF_panelVars(part = "market" /\ Bootstrap) /\ WF_panelVars(part = "market" /\ RenderView) /\ WF_panelVars(part = "market" /\ TickShown)
    /\ WF_panelVars(part = "market" /\ HistoryArrives)
    /\ \A market \in Markets : WF_panelVars(part = "market" /\ CancelledArrives(market))

\* Requests and messages arrive, timers fire and the socket reconnects.  Nothing makes
\* a trader act, a position settle or a payment end.
AccountFairness ==
    /\ WF_accountVars(part = "account" /\ LineNoticed) /\ WF_accountVars(part = "account" /\ LineBack)
    /\ WF_accountVars(part = "account" /\ OverdueAgain) /\ WF_accountVars(part = "account" /\ PollEnds)
    /\ WF_accountVars(part = "account" /\ MeExec) /\ WF_accountVars(part = "account" /\ ListExec)
    /\ WF_accountVars(part = "account" /\ \E i \in DOMAIN arriving : PageHears(i))

\* The interval asks again, and requests are answered; few fail.
PassFairness ==
    \A i \in QuoteSlots :
        /\ WF_passVars(part = "pass" /\ AskQuote(i)) /\ WF_passVars(part = "pass" /\ QuoteExec(i))
        /\ WF_passVars(part = "pass" /\ EdgeQuoteArrives(i))

\* A behaviour is one part's; the parts with strong fairness are named apart, which is
\* cheaper to check than all of it together and says the same.
FairSpec ==
    /\ Spec
    /\ \/ part = "solvency" /\ SolvencyFairness
       \/ part \in {"edge", "conform"} /\ EdgeFairness
       \/ /\ part \notin {"solvency", "edge", "conform"}
          /\ GuardFairness /\ ChainFairness /\ ViewFairness /\ AccountFairness /\ PassFairness

-----------------------------------------------------------------------------
(* What is said of a part is evaluated while it moves: a part at rest is as it starts, which *)
(* the behaviours in which it moves check as well.                                   *)

\* The variables of the part that moves are of the shape the code gives them.
TypeOK ==
    /\ part = "guard" => GuardTypeOK
    /\ part = "solvency" => SolvencyTypeOK
    /\ part = "edge" => EdgeTypeOK
    /\ part = "rig" => RigTypeOK
    /\ part = "tickets" => TicketTypeOK
    /\ part = "chain" => ChainTypeOK
    /\ part = "sandbox" => SandboxTypeOK
    /\ part = "shadow" => ShadowTypeOK
    /\ part = "feed" => FeedTypeOK
    /\ part = "market" => ViewTypeOK
    /\ part = "account" => AccountTypeOK
    /\ part = "replay" => ReplayTypeOK
    /\ part = "conform" => ConformTypeOK /\ EdgeTypeOK
    /\ part = "adapters" => AdaptersTypeOK
    /\ part = "shell" => ShellTypeOK
    /\ part = "pass" => PassTypeOK
=============================================================================
