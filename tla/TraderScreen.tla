---------------------------- MODULE TraderScreen ----------------------------
(***************************************************************************)
(* What one trader's screen shows of the trader's positions.  A position    *)
(* reaches the screen in the reply that placed it, in a message about a leg *)
(* of an auto-run, or in a list of open trades; it leaves in a message that  *)
(* it has settled, or by missing from such a list, whose reader then asks    *)
(* what became of it (client/src/store/app.tsx, client/src/lib/ws.ts,        *)
(* server/src/realtime/hub.ts, server/src/routes/trade.routes.ts).           *)
(*                                                                         *)
(* Messages are sent once, to a socket that may be dead.  Requests overlap,  *)
(* and each is answered from the database of that moment.                    *)
(***************************************************************************)
EXTENDS Integers, Sequences, FiniteSets
LOCAL INSTANCE SequencesExt

CONSTANTS
    Trades,
    Legs,           \* those of Trades that the server opens, as legs of a run
    MaxLoads,       \* bound on calls of loadOpenTrades in progress
    MaxFaults,      \* bound on sockets lost and requests failed
    Faults          \* what may go wrong, of AllFaults

AllFaults ==
    { "socket",     \* the socket dies, and the client learns of it later
      "request",    \* a request fails, executed or not
      "overtake" }  \* a request is answered before one that was made earlier

ASSUME ScreenAssumption ==
    /\ Legs \subseteq Trades
    /\ MaxLoads \in Nat \ {0} /\ MaxFaults \in Nat
    /\ Faults \subseteq AllFaults

VARIABLES
    status,     \* trades.status: NONE, OPEN, SETTLED
    overdue,    \* trades that expired more than three seconds ago
    settled,    \* settlements that settle has yet to tell the hub of
    socket,     \* "up", "anonymous" (opened before the trader logged in), "broken"
                \* (the client does not know yet) or "down"
    inbox,      \* messages on their way to the client
    place,      \* POST /trades for each trade: idle, sent, opened, done
    shown,      \* openTrades: how often each trade is listed
    mirror,     \* openTradesRef
    announced,  \* ids announceSettled has seen
    told,       \* toasts that said how a trade ended
    reload,     \* an effect that calls loadOpenTrades is due
    refresh,    \* refreshUser is waiting for its answer
    loads,      \* calls of loadOpenTrades in progress, oldest first
    faults      \* faults so far

serverVars == <<status, overdue, settled>>
wireVars == <<socket, inbox>>
screenVars == <<shown, mirror, announced, told>>
askVars == <<reload, refresh, loads>>
traderVars == <<serverVars, wireVars, place, screenVars, askVars, faults>>

Messages == [kind : {"leg", "settled"}, trade : Trades]
Stages == {"asked", "listed", "asking", "resolved"}
LoadCalls == [stage : Stages, trades : SUBSET Trades]

Fault(f) == f \in Faults /\ faults < MaxFaults /\ faults' = faults + 1

-----------------------------------------------------------------------------
(* The server *)

\* hub.toUser: sent to the sockets it knows to be the user's, and never repeated.
ToUser(m) == inbox' = IF socket = "up" THEN Append(inbox, m) ELSE inbox

\* advanceRun has placed a leg: the one before it has settled.
LegOpens(t) ==
    /\ t \in Legs /\ status[t] = "NONE"
    /\ \E u \in Trades : status[u] = "SETTLED" /\ u \notin settled
    /\ status' = [status EXCEPT ![t] = "OPEN"]
    /\ ToUser([kind |-> "leg", trade |-> t])
    /\ UNCHANGED <<overdue, settled, socket, place, screenVars, askVars, faults>>

\* fpesa_settle_trade, at the expiry or before it.
SettleExec(t) ==
    /\ status[t] = "OPEN"
    /\ status' = [status EXCEPT ![t] = "SETTLED"]
    /\ settled' = settled \cup {t}
    /\ UNCHANGED <<overdue, wireVars, place, screenVars, askVars, faults>>

SettleReply(t) ==
    /\ t \in settled
    /\ settled' = settled \ {t}
    /\ ToUser([kind |-> "settled", trade |-> t])
    /\ UNCHANGED <<status, overdue, socket, place, screenVars, askVars, faults>>

Expire(t) ==
    /\ status[t] # "NONE" /\ t \notin overdue
    /\ overdue' = overdue \cup {t}
    /\ UNCHANGED <<status, settled, wireVars, place, screenVars, askVars, faults>>

-----------------------------------------------------------------------------
(* The socket *)

Break ==
    /\ socket \in {"up", "anonymous"} /\ Fault("socket")
    /\ socket' = "broken" /\ inbox' = <<>>
    /\ UNCHANGED <<serverVars, place, screenVars, askVars>>

\* onclose, by the heartbeat of either side.
Notice ==
    /\ socket = "broken" /\ socket' = "down"
    /\ UNCHANGED <<serverVars, inbox, place, screenVars, askVars, faults>>

\* scheduleRetry or resume, and the effect of having reconnected.
Connect ==
    /\ socket = "down" /\ socket' = "up"
    /\ reload' = TRUE /\ refresh' = TRUE
    /\ UNCHANGED <<serverVars, inbox, place, screenVars, loads, faults>>

-----------------------------------------------------------------------------
(* Placing and being told *)

\* tradeBusy: one placement at a time.
Submit(t) ==
    /\ t \notin Legs /\ place[t] = "idle"
    /\ \A u \in Trades : place[u] \in {"idle", "done"}
    /\ place' = [place EXCEPT ![t] = "sent"]
    /\ UNCHANGED <<serverVars, wireVars, screenVars, askVars, faults>>

PlaceExec(t) ==
    /\ place[t] = "sent"
    /\ place' = [place EXCEPT ![t] = "opened"]
    /\ status' = [status EXCEPT ![t] = "OPEN"]
    /\ UNCHANGED <<overdue, settled, wireVars, screenVars, askVars, faults>>

\* The error is shown and nothing else happens, whether the trade is open or not.
PlaceFails(t) ==
    /\ place[t] \in {"sent", "opened"} /\ Fault("request")
    /\ place' = [place EXCEPT ![t] = "done"]
    /\ UNCHANGED <<serverVars, wireVars, screenVars, askVars>>

\* The list grows, whatever it holds.  Setting the balance makes a new user
\* object, and so a new loadOpenTrades, whose effect runs.
Show(t) ==
    /\ shown' = [shown EXCEPT ![t] = @ + 1]
    /\ reload' = TRUE

PlaceReply(t) ==
    /\ place[t] = "opened"
    /\ place' = [place EXCEPT ![t] = "done"]
    /\ Show(t)
    /\ UNCHANGED <<serverVars, wireVars, mirror, announced, told, refresh, loads, faults>>

\* Mutant: said on every path that gets there.
AnnounceAgain(T) ==
    /\ announced' = announced \cup T
    /\ told' = [t \in Trades |-> IF t \in T THEN told[t] + 1 ELSE told[t]]

\* announceSettled: once per trade, whichever path gets there first.
Announce(T) ==
    /\ announced' = announced \cup T
    /\ told' = [t \in Trades |-> IF t \in T \ announced THEN told[t] + 1 ELSE told[t]]

\* The handler of messages.
Deliver ==
    /\ inbox # <<>>
    /\ inbox' = Tail(inbox)
    /\ LET m == Head(inbox)
       IN  \/ m.kind = "leg" /\ Show(m.trade) /\ UNCHANGED <<announced, told>>
           \/ /\ m.kind = "settled"
              /\ shown' = [shown EXCEPT ![m.trade] = 0]
              /\ reload' = TRUE
              /\ Announce({m.trade})
    /\ UNCHANGED <<serverVars, socket, place, mirror, refresh, loads, faults>>

-----------------------------------------------------------------------------
(* Asking again *)

Visible == {t \in Trades : shown[t] > 0}

Ask ==
    /\ Len(loads) < MaxLoads
    /\ loads' = Append(loads, [stage |-> "asked", trades |-> {}])

\* React renders: the mirror catches up, and the due effect runs.
Render ==
    /\ reload \/ mirror # Visible
    /\ mirror' = Visible
    /\ reload' = FALSE
    /\ IF reload THEN Ask ELSE UNCHANGED loads
    /\ UNCHANGED <<serverVars, wireVars, place, shown, announced, told, refresh, faults>>

\* Mutant: nothing looks out for positions past their expiry.
OverdueTrusted == FALSE /\ UNCHANGED traderVars

\* Every two seconds: a position that should have settled is still listed.
Overdue ==
    /\ Visible \cap overdue # {}
    /\ Ask
    /\ refresh' = TRUE
    /\ UNCHANGED <<serverVars, wireVars, place, screenVars, reload, faults>>

\* refreshUser: another user object, and so another list.
RefreshReply ==
    /\ refresh /\ refresh' = FALSE
    /\ \/ reload' = TRUE /\ UNCHANGED faults
       \/ Fault("request") /\ UNCHANGED reload
    /\ UNCHANGED <<serverVars, wireVars, place, screenVars, loads>>

\* A request that is handled: the oldest, unless it has been overtaken.
Turn(i) == i = 1 \/ "overtake" \in Faults
Advance(i, stage, T) == loads' = [loads EXCEPT ![i] = [stage |-> stage, trades |-> T]]

\* GET /trades/open and GET /trades/results.
LoadExec(i) ==
    /\ Turn(i)
    /\ \/ /\ loads[i].stage = "asked"
          /\ Advance(i, "listed", {t \in Trades : status[t] = "OPEN"})
       \/ /\ loads[i].stage = "asking"
          /\ Advance(i, "resolved", {t \in loads[i].trades : status[t] # "OPEN"})
    /\ UNCHANGED <<serverVars, wireVars, place, screenVars, reload, refresh, faults>>

\* Mutant: the list is added to what is shown.
ListReplyAdds(i) ==
    /\ Turn(i) /\ loads[i].stage = "listed"
    /\ mirror' = loads[i].trades
    /\ shown' = [t \in Trades |-> shown[t] + IF t \in loads[i].trades THEN 1 ELSE 0]
    /\ loads' = RemoveAt(loads, i)
    /\ UNCHANGED <<serverVars, wireVars, place, announced, told, reload, refresh, faults>>

\* The list replaces what is shown.  What was shown and is not in it is asked for.
ListReply(i) ==
    /\ Turn(i) /\ loads[i].stage = "listed"
    /\ mirror' = loads[i].trades
    /\ shown' = [t \in Trades |-> IF t \in loads[i].trades THEN 1 ELSE 0]
    /\ LET vanished == mirror \ loads[i].trades
       IN  IF vanished = {} THEN loads' = RemoveAt(loads, i)
           ELSE Advance(i, "asking", vanished)
    /\ UNCHANGED <<serverVars, wireVars, place, announced, told, reload, refresh, faults>>

ResultsReply(i) ==
    /\ Turn(i) /\ loads[i].stage = "resolved"
    /\ Announce(loads[i].trades)
    /\ loads' = RemoveAt(loads, i)
    /\ UNCHANGED <<serverVars, wireVars, place, shown, mirror, reload, refresh, faults>>

\* Either request fails: the list stays as it is, or the notice is lost.
LoadFails(i) ==
    /\ Fault("request")
    /\ loads' = RemoveAt(loads, i)
    /\ UNCHANGED <<serverVars, wireVars, place, screenVars, reload, refresh>>

-----------------------------------------------------------------------------
ScreenInit ==
    /\ status = [t \in Trades |-> "NONE"] /\ overdue = {} /\ settled = {}
    /\ socket \in {"up", "anonymous"} /\ inbox = <<>>
    /\ place = [t \in Trades |-> "idle"]
    /\ shown = [t \in Trades |-> 0] /\ mirror = {}
    /\ announced = {} /\ told = [t \in Trades |-> 0]
    /\ reload = TRUE /\ refresh = FALSE /\ loads = <<>>
    /\ faults = 0

LoadStep(i) == LoadExec(i) \/ ListReply(i) \/ ResultsReply(i)

ScreenNext ==
    \/ \E t \in Trades : LegOpens(t) \/ SettleExec(t) \/ SettleReply(t) \/ Expire(t)
                         \/ Submit(t) \/ PlaceExec(t) \/ PlaceFails(t) \/ PlaceReply(t)
    \/ Break \/ Notice \/ Connect \/ Deliver \/ Render \/ Overdue \/ RefreshReply
    \/ \E i \in 1..Len(loads) : LoadStep(i) \/ LoadFails(i)

ScreenSpec == ScreenInit /\ [][ScreenNext]_traderVars

\* Requests and messages arrive, the socket reconnects and the page renders.
\* Nothing makes a trade open or settle.
ScreenFairness ==
    /\ WF_traderVars(Notice) /\ WF_traderVars(Connect) /\ WF_traderVars(Deliver) /\ WF_traderVars(Render)
    /\ WF_traderVars(Overdue) /\ WF_traderVars(RefreshReply)
    /\ \A t \in Trades : WF_traderVars(Expire(t)) /\ WF_traderVars(PlaceExec(t)) /\ WF_traderVars(PlaceReply(t))
                         /\ WF_traderVars(SettleReply(t))
    /\ WF_traderVars(\E i \in 1..Len(loads) : LoadStep(i))

-----------------------------------------------------------------------------
(* Properties *)

\* Every variable is of the shape the code gives it: the panel may list a position
\* twice, once from a list and once from the message or reply that opened it, and
\* no oftener.
ScreenTypeOK ==
    /\ status \in [Trades -> {"NONE", "OPEN", "SETTLED"}]
    /\ overdue \subseteq Trades /\ settled \subseteq Trades
    /\ socket \in {"up", "anonymous", "broken", "down"} /\ inbox \in Seq(Messages)
    /\ place \in [Trades -> {"idle", "sent", "opened", "done"}]
    /\ shown \in [Trades -> 0..2] /\ mirror \subseteq Trades
    /\ announced \subseteq Trades /\ told \in [Trades -> Nat]
    /\ reload \in BOOLEAN /\ refresh \in BOOLEAN /\ loads \in Seq(LoadCalls) /\ faults \in Nat

\* "Said once per trade, whichever path gets there first": however messages,
\* lists and their results meet, a trader is told of a settlement once, and only
\* after it has happened.
ToldOnce ==
    \A t \in Trades : /\ told[t] <= 1
                      /\ told[t] = 1 => status[t] = "SETTLED"

\* "the position stays on screen for good" no longer: a settled position leaves
\* the screen and does not come back, whichever messages and requests are lost.
GhostsLeave ==
    \A t \in Trades : <>[](status[t] = "SETTLED" => shown[t] = 0)

\* A position that stays open is on the screen.  Not so: see the README.
OpenShown ==
    \A t \in Trades : <>[](status[t] = "OPEN" => shown[t] > 0)

\* "so a position never just vanishes without a result": a position that has been
\* on the screen when the page was painted is not settled for good without a word.
EveryoneTold ==
    \A t \in Trades : t \in mirror ~> [](status[t] = "SETTLED" => <>(told[t] = 1))
=============================================================================
