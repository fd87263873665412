------------------------------ MODULE Conformance ------------------------------
(***************************************************************************)
(* The sandbox compares what it would quote for a ticket with what             *)
(* production quotes (services/sandbox-conform.ts).  Four routes of production  *)
(* are read at the same time, each answers when it gets to it, and the operator *)
(* may change the edge in the meantime.                                       *)
(*                                                                         *)
(* The two figures that need the normal distribution are left out of the      *)
(* comparison: they follow from the same arguments.  Both sides run this code,  *)
(* and production generates its prices.                                       *)
(***************************************************************************)
EXTENDS HouseEdge, Pricing

CONSTANTS
    LiveTicket,     \* what production has for the ticket: multiplier, most and sigma
    OwnTickets,     \* what this deployment may have: the same, and an edge
    QuotedPrices,
    ConformStake

ASSUME ConformanceAssumption ==
    /\ LiveTicket \in [multiplier : Nat \ {0}, most : Nat, sigma : Nat]
    /\ OwnTickets \subseteq [multiplier : Nat \ {0}, most : Nat, sigma : Nat, edge : Nat]
    /\ QuotedPrices \subseteq Nat /\ ConformStake \in Nat \ {0}

VARIABLES
    own,            \* the sandbox's own configuration
    heard,          \* what has been read of production, by route
    conformity,     \* the report, or NoReport
    edgeMoved       \* production's edge has changed since the reads were sent

conformVars == <<own, heard, conformity, edgeMoved>>

Unheard == {}
NoReport == [price |-> {}]
Asked == [config |-> Unheard, quote |-> Unheard, analysis |-> Unheard, fairness |-> Unheard]
NotAsked == [config |-> Unheard]
Directions == {"BUY", "SELL"}

-----------------------------------------------------------------------------
(* What a ticket is worth *)

\* analyseTrade: money in cents, moves in hundred-thousandths of a percent.
AnalyseTrade(stake, ticket) ==
    [multiplier |-> ticket.multiplier,
     spreadCost |-> RoundHalfUp(stake * ticket.edge, 100),
     breakevenMovePct |-> RoundHalfUp(1000 * ticket.edge, ticket.multiplier),
     typicalMovePct |-> ticket.sigma,
     stopOutMovePct |-> RoundHalfUp(1000 * Bps, ticket.multiplier),
     expectedResult |-> RoundHalfUp(-stake * ticket.edge, 100),
     maxProfit |-> 100 * stake * ticket.most,
     maxLoss |-> stake]

\* applySpread and exitLevels, at a price.
Levels(ticket, price, dir) ==
    LET entry == ApplySpread(price, dir, ticket.multiplier, ticket.edge)
    IN  [entry |-> entry, stopOut |-> StopOut(entry, dir, ticket.multiplier),
         takeProfit |-> TakeProfit(entry, dir, ticket.multiplier, ticket.most)]

WithEdge(ticket, e) ==
    [multiplier |-> ticket.multiplier, most |-> ticket.most, sigma |-> ticket.sigma, edge |-> e]

-----------------------------------------------------------------------------
(* Asking production *)

\* conform sends all four reads.
AskConform ==
    /\ heard = NotAsked
    /\ heard' = Asked /\ conformity' = NoReport /\ edgeMoved' = FALSE
    /\ UNCHANGED <<own, edgeVars>>

RouteAnswers(route, answer) ==
    /\ heard # NotAsked /\ heard[route] = Unheard
    /\ heard' = [heard EXCEPT ![route] = {answer}]
    /\ UNCHANGED <<own, conformity, edgeMoved, edgeVars>>

\* GET /market/config, /market/quote, /market/analyse and /fairness.
ConfigAnswers == RouteAnswers("config", edge)
QuoteAnswers == \E price \in QuotedPrices : RouteAnswers("quote", price)

\* Mutant: the odds are worked out with the edge the deployment came with.
AnalysesDeployed == RouteAnswers("analysis", AnalyseTrade(ConformStake, WithEdge(LiveTicket, DeployEdge)))
AnalysisAnswers == RouteAnswers("analysis", AnalyseTrade(ConformStake, WithEdge(LiveTicket, edge)))
FairnessAnswers == RouteAnswers("fairness", LiveTicket.sigma)

\* One of them is refused or not answered in ten seconds; the others are not waited for.
AnyReadFails ==
    /\ heard # NotAsked /\ \E route \in DOMAIN heard : heard[route] = Unheard
    /\ heard' = NotAsked
    /\ UNCHANGED <<own, conformity, edgeMoved, edgeVars>>

Heard(route) == CHOOSE answer \in heard[route] : TRUE
LiveAsHeard == [WithEdge(LiveTicket, Heard("config")) EXCEPT !.sigma = Heard("fairness")]

\* The report: parameters against parameters, and production's figures against those
\* worked out here from production's parameters.
Reports ==
    /\ heard # NotAsked /\ \A route \in DOMAIN heard : heard[route] # Unheard
    /\ conformity' =
          [parametersMatch |-> LiveAsHeard = own,
           arithmeticMatch |-> AnalyseTrade(ConformStake, LiveAsHeard) = Heard("analysis"),
           price |-> Heard("quote"),
           proposal |-> [dir \in Directions |-> Levels(LiveAsHeard, Heard("quote"), dir)]]
    /\ heard' = NotAsked
    /\ UNCHANGED <<own, edgeMoved, edgeVars>>

-----------------------------------------------------------------------------
ConformInit ==
    /\ own \in OwnTickets
    /\ heard = NotAsked /\ conformity = NoReport /\ edgeMoved = FALSE

ConformNext ==
    \/ AskConform \/ ConfigAnswers \/ QuoteAnswers \/ AnalysisAnswers \/ FairnessAnswers
    \/ AnyReadFails \/ Reports
    \/ /\ EdgeNext
       /\ edgeMoved' = (edgeMoved \/ edge' # edge)
       /\ UNCHANGED <<own, heard, conformity>>

ConformSpec == EdgeInit /\ ConformInit /\ [][ConformNext]_<<conformVars, edgeVars>>

-----------------------------------------------------------------------------
(* Properties *)

\* Every variable is of the shape the code gives it.
ConformTypeOK ==
    /\ own \in OwnTickets /\ edgeMoved \in BOOLEAN
    /\ heard = NotAsked \/ DOMAIN heard = DOMAIN Asked
    /\ conformity # NoReport => {conformity.parametersMatch, conformity.arithmeticMatch} \subseteq BOOLEAN

\* "Does the sandbox quote the same contract production would?": a report whose reads saw
\* one edge finds fault with no arithmetic, names the levels production would open the
\* ticket at, and says that parameters match exactly when the sandbox's own are those.
ConformityHolds ==
    conformity # NoReport /\ ~edgeMoved =>
        LET live == WithEdge(LiveTicket, edge)
        IN  /\ conformity.arithmeticMatch
            /\ \A dir \in Directions : conformity.proposal[dir] = Levels(live, conformity.price, dir)
            /\ conformity.parametersMatch <=> (own = live)
=============================================================================
