---------------------------- MODULE TestRig ----------------------------
(***************************************************************************)
(* The test outcome rig (services/test-rig.ts): while it is armed, it and not *)
(* the closing digit decides fixed-payout tickets, so that what it has paid   *)
(* of what was staked, and what each steered account has won, stay on target. *)
(* At every boot the accounts it names are marked in the database as outside  *)
(* the solvency book, and all others as inside.                             *)
(*                                                                         *)
(* Rates are in hundredths.  A ticket is settled as often as the call that    *)
(* settles it fails, and decided each time (trading.ts, settle).             *)
(***************************************************************************)
EXTENDS Integers

CONSTANTS
    RigSlots,       \* room for tickets being settled
    RigUsers,       \* the accounts of the database
    RigNames,       \* those of them TEST_RIG_ACCOUNTS may name
    Rtp,            \* env.testRig.rtp
    AccountRate,    \* the rate of the named accounts
    DemoRate,       \* env.testRig.demoWinRate
    RigStakes, RigWins,     \* what a ticket may stake, and pay on top of it
    LargestPayout,  \* no ticket pays more, its stake included
    MaxDecisions,   \* bound on the tickets decided by a process
    MaxBoots        \* bound on the processes

ASSUME RigAssumption ==
    /\ RigNames \subseteq RigUsers
    /\ Rtp \in 0..100 /\ AccountRate \in 0..100 /\ DemoRate \in 0..100
    /\ RigStakes \subseteq Nat \ {0} /\ RigWins \subseteq Nat
    /\ LargestPayout \in Nat
    /\ \A stake \in RigStakes, win \in RigWins : stake + win <= LargestPayout
    /\ MaxDecisions \in Nat /\ MaxBoots \in Nat

VARIABLES
    armed, named,   \* what this process was configured with
    booted,         \* processes so far
    syncing,        \* accounts whose flag syncFlags has still to write
    syncFailed,     \* a flag of this boot could not be read or written
    flagged,        \* users.is_test
    staked, paid,   \* over the tickets decided for return to player
    tally,          \* trades and wins, by account and kind of money
    decisions,      \* made by this process
    tickets         \* the tickets being settled, or None

rigVars == <<armed, named, booted, syncing, syncFailed, flagged, staked, paid, tally,
             decisions, tickets>>
ledgerVars == <<staked, paid, tally, decisions>>
flagVars == <<armed, named, booted, syncing, syncFailed, flagged>>

Keys == RigUsers \X BOOLEAN     \* of a tally: the account, and whether it is demo money
NoTrades == [trades |-> 0, wins |-> 0]
None == [stage |-> "none"]
Opinions == {"WIN", "LOSS", "null"}
RigTickets ==
    [stage : {"open", "loading", "settling"}, user : RigUsers, demo : BOOLEAN,
     stake : RigStakes, win : RigWins, force : Opinions]

-----------------------------------------------------------------------------
(* Boot *)

\* The memory of the process is gone; tickets that were open are recovered.
RigBoot ==
    /\ booted < MaxBoots /\ booted' = booted + 1
    /\ armed' \in BOOLEAN /\ named' \in SUBSET RigNames
    /\ staked' = 0 /\ paid' = 0 /\ tally' = [k \in Keys |-> NoTrades] /\ decisions' = 0
    /\ tickets' = [s \in RigSlots |->
          IF tickets[s] = None THEN None
          ELSE [tickets[s] EXCEPT !.stage = "open", !.force = "null"]]
    /\ LET wanted == IF armed' THEN named' ELSE {}
       IN  syncing' = (flagged \ wanted) \cup (wanted \ flagged)
    /\ syncFailed' = FALSE
    /\ UNCHANGED flagged

\* The accounts could not be read.
SyncUnread ==
    /\ syncing # {}
    /\ syncing' = {} /\ syncFailed' = TRUE
    /\ UNCHANGED <<armed, named, booted, flagged, ledgerVars, tickets>>

Flags(u) == IF u \in flagged THEN flagged \ {u} ELSE flagged \cup {u}

\* One account after the other; one that cannot be written is left as it was.
SyncFlag(u) ==
    /\ u \in syncing /\ syncing' = syncing \ {u}
    /\ \/ flagged' = Flags(u) /\ UNCHANGED syncFailed
       \/ syncFailed' = TRUE /\ UNCHANGED flagged
    /\ UNCHANGED <<armed, named, booted, ledgerVars, tickets>>

-----------------------------------------------------------------------------
(* Deciding *)

OpenTicket(s, user, demo, stake, win) ==
    /\ booted > 0 /\ tickets[s] = None
    /\ tickets' = [tickets EXCEPT ![s] =
          [stage |-> "open", user |-> user, demo |-> demo, stake |-> stake, win |-> win,
           force |-> "null"]]
    /\ UNCHANGED <<flagVars, ledgerVars>>

At(s, stage) == tickets[s] # None /\ tickets[s].stage = stage
Move(s, stage, force) ==
    tickets' = [tickets EXCEPT ![s] = [@ EXCEPT !.stage = stage, !.force = force]]

\* settle asks; disarmed, the rig reads nothing.
AskRig(s) ==
    /\ At(s, "open")
    /\ Move(s, IF armed THEN "loading" ELSE "settling", "null")
    /\ UNCHANGED <<flagVars, ledgerVars>>

\* The trade cannot be read, or is of no product the rig forces: the digit decides.
StandDown(s) ==
    /\ At(s, "loading")
    /\ Move(s, "settling", "null")
    /\ UNCHANGED <<flagVars, ledgerVars>>

Steered(t) == t.demo \/ t.user \in named
Rate(t) == IF t.demo THEN DemoRate ELSE AccountRate

\* What the ticket should pay, or win, to be on target, in hundredths.
WantedForRtp(t) == Rtp * (staked + t.stake) - 100 * paid
WantedForRate(t) ==
    LET k == tally[<<t.user, t.demo>>] IN Rate(t) * (k.trades + 1) - 100 * k.wins
Wanted(t) == IF Steered(t) THEN WantedForRate(t) ELSE WantedForRtp(t)
Whole(t) == IF Steered(t) THEN 100 ELSE 100 * (t.stake + t.win)

\* Mutant: a coin, whatever has been paid.
OutcomesOfCoin(t) == {"WIN", "LOSS"}

\* Math.random() < chance, for a chance of Wanted / Whole between 0 and 1.
Outcomes(t) ==
    (IF Wanted(t) > 0 THEN {"WIN"} ELSE {}) \cup (IF Wanted(t) < Whole(t) THEN {"LOSS"} ELSE {})

Record(t, win) ==
    /\ IF Steered(t) THEN UNCHANGED <<staked, paid>>
       ELSE /\ staked' = staked + t.stake
            /\ paid' = paid + IF win THEN t.stake + t.win ELSE 0
    /\ tally' = [tally EXCEPT ![<<t.user, t.demo>>] =
          [trades |-> @.trades + 1, wins |-> @.wins + IF win THEN 1 ELSE 0]]

\* decide, when its load has returned: chosen and recorded in one go.
Decide(s) ==
    /\ At(s, "loading")
    /\ decisions < MaxDecisions /\ decisions' = decisions + 1
    /\ \E outcome \in Outcomes(tickets[s]) :
          Record(tickets[s], outcome = "WIN") /\ Move(s, "settling", outcome)
    /\ UNCHANGED flagVars

\* fpesa_settle_trade returns, having closed the ticket or found it closed.
RigSettles(s) ==
    /\ At(s, "settling")
    /\ tickets' = [tickets EXCEPT ![s] = None]
    /\ UNCHANGED <<flagVars, ledgerVars>>

\* It fails, and is retried with another decision.
RigSettleFails(s) ==
    /\ At(s, "settling")
    /\ Move(s, "open", "null")
    /\ UNCHANGED <<flagVars, ledgerVars>>

-----------------------------------------------------------------------------
RigInit ==
    /\ armed = FALSE /\ named = {} /\ booted = 0
    /\ syncing = {} /\ syncFailed = FALSE /\ flagged = {}
    /\ staked = 0 /\ paid = 0 /\ tally = [k \in Keys |-> NoTrades]
    /\ decisions = 0
    /\ tickets = [s \in RigSlots |-> None]

RigNext ==
    \/ RigBoot \/ SyncUnread \/ \E u \in RigUsers : SyncFlag(u)
    \/ \E s \in RigSlots :
          \/ \E user \in RigUsers, demo \in BOOLEAN, stake \in RigStakes, win \in RigWins :
                OpenTicket(s, user, demo, stake, win)
          \/ AskRig(s) \/ StandDown(s) \/ Decide(s) \/ RigSettles(s) \/ RigSettleFails(s)

RigSpec == RigInit /\ [][RigNext]_rigVars

-----------------------------------------------------------------------------
(* Properties *)

\* Every variable is of the shape the code gives it.
RigTypeOK ==
    /\ armed \in BOOLEAN /\ named \subseteq RigNames /\ booted \in Nat
    /\ syncing \subseteq RigUsers /\ syncFailed \in BOOLEAN /\ flagged \subseteq RigUsers
    /\ staked \in Nat /\ paid \in Nat
    /\ tally \in [Keys -> [trades : Nat, wins : Nat]] /\ decisions \in Nat
    /\ tickets \in [RigSlots -> RigTickets \cup {None}]

Within(n, distance) == -distance <= n /\ n <= distance

\* "so the rig corrects its own drift": whatever is settled at the same time, stands
\* down, fails or is decided again, what was paid is never further from its target
\* than one ticket, and a steered account's wins than one win.
RtpOnTarget ==
    /\ Within(100 * paid - Rtp * staked, 100 * LargestPayout)
    /\ \A k \in Keys : k[2] \/ k[1] \in named =>
          Within(100 * tally[k].wins - (IF k[2] THEN DemoRate ELSE AccountRate) * tally[k].trades, 100)

\* "Disarming the rig therefore restores the book on its own": a boot that could
\* read and write every flag leaves outside the book the accounts it names and no
\* other, whatever an earlier boot left behind.
FlagsFollowConfig ==
    booted > 0 /\ syncing = {} /\ ~syncFailed => flagged = IF armed THEN named ELSE {}

\* The rig does what its status says and no more: it pays what it is set to pay, of the
\* accounts it names, and leaves no account marked that it does not name.
RigHonest == RtpOnTarget /\ FlagsFollowConfig
=============================================================================
