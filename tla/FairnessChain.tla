---------------------------- MODULE FairnessChain ----------------------------
(***************************************************************************)
(* The published record of one instrument's price epochs: the engine that   *)
(* opens and closes epochs (services/synthetic.ts), the reporter that links  *)
(* them into a hash chain (services/prices.ts) and the calls that append to  *)
(* and reveal in the table fairness_epochs (services/fairness-chain.ts).     *)
(* Every instrument has its own engine, chain and numbering.                 *)
(*                                                                         *)
(* The engine never waits for the record.  Appends and reveals are in flight *)
(* while epochs go on, are tried three times, and die with the process.      *)
(*                                                                         *)
(* Seeds are numbered in the order they are first used.  A chain hash        *)
(* commits to everything before it: it is the sequence of seeds it covers.   *)
(***************************************************************************)
EXTENDS Integers, Sequences, FiniteSets, SequencesExt

CONSTANTS
    PageSize,       \* rows readChain serves at once
    MaxEpochs,      \* bound on the epochs that end in a rotation
    MaxRestarts,    \* bound on shutdowns and crashes
    Weathers        \* what may go wrong together, of AllFaults

AllFaults ==
    { "crash",      \* the process is killed at any moment
      "slow",       \* a call to the database outlives its epoch
      "rpcError",   \* a call to the database fails before it executes
      "replyLost",  \* ... executes, and its reply is lost
      "late",       \* a dead process's call executes afterwards
      "loadFails" } \* reading the heads at boot fails

ASSUME ChainAssumption ==
    /\ PageSize \in Nat \ {0} /\ MaxEpochs \in Nat /\ MaxRestarts \in Nat
    /\ Weathers \subseteq SUBSET AllFaults

NoSeed == 0
NoHash == <<>>
Tries == 1..3

VARIABLES
    weather,    \* the faults this behaviour may meet
    rows,       \* fairness_epochs of this symbol, oldest first
    phase, restarts,
    head,       \* what loadHeads has read
    made,       \* seeds used so far, over all processes
    epoch,      \* SyntheticEngine.epoch
    seed,       \* SyntheticEngine.seed
    ticked,     \* the running epoch has produced a tick
    history,    \* SyntheticEngine.history
    prev,       \* prevChainHash of the reporter
    appends,    \* calls of recordEpoch in progress
    reveals,    \* calls of revealEpoch in progress
    unrecorded, \* the counter of fairness-chain.ts
    late        \* requests that outlive the process that sent them

memoryVars == <<epoch, seed, ticked, history, prev>>
callVars == <<appends, reveals, unrecorded>>
lifeVars == <<phase, restarts, head, weather>>
chainVars == <<rows, made, memoryVars, callVars, lifeVars, late>>

Commitments == [epoch : Nat, seed : Nat, prev : Seq(Nat), hash : Seq(Nat)]
Appends == [what : Commitments, try : Tries]
Reveals == [epoch : Nat, seed : Nat, try : Tries]
Rows == [what : Commitments, revealed : Nat]
NoRequests == [appends |-> {}, reveals |-> {}]

-----------------------------------------------------------------------------
(* The database *)

\* chainHashOf.
ChainHash(from, s) == Append(from, s)

HeadEpoch == IF rows = <<>> THEN 0 ELSE Last(rows).what.epoch
HeadHash == IF rows = <<>> THEN NoHash ELSE Last(rows).what.hash

\* fpesa_record_epoch refuses CHAIN_MISMATCH and EPOCH_NOT_ADVANCING.
Refused(c) == c.prev # HeadHash \/ c.epoch <= HeadEpoch
RecordRow(c) ==
    rows' = IF Refused(c) THEN rows
            ELSE Append(rows, [what |-> c, revealed |-> NoSeed])

\* fpesa_reveal_epoch refuses SEED_ALREADY_REVEALED.
RowOf(n) == {i \in DOMAIN rows : rows[i].what.epoch = n}
RevealRow(v) ==
    rows' = [i \in DOMAIN rows |->
                IF i \in RowOf(v.epoch) /\ rows[i].revealed = NoSeed
                THEN [rows[i] EXCEPT !.revealed = v.seed] ELSE rows[i]]

\* readChain over the last n rows: every row's hash and every link between two
\* of them is checked, oldest first.
Page(n) == SubSeq(rows, Len(rows) - n + 1, Len(rows))
Broken(page) ==
    {i \in DOMAIN page :
        \/ page[i].what.hash # ChainHash(page[i].what.prev, page[i].what.seed)
        \/ i > 1 /\ page[i].what.prev # page[i - 1].what.hash}
LinksValid(page) == Broken(page) = {}

-----------------------------------------------------------------------------
(* Opening and closing epochs *)

\* Mutant: the link is not advanced.
AnnounceStale(from, n, s) ==
    LET hash == ChainHash(from, s)
    IN  /\ prev' = from
        /\ appends' = appends \cup
              {[what |-> [epoch |-> n, seed |-> s, prev |-> from, hash |-> hash], try |-> 1]}

\* The reporter's announce: the link advances at once, the append is sent.
Announce(from, n, s) ==
    LET hash == ChainHash(from, s)
    IN  /\ prev' = hash
        /\ appends' = appends \cup
              {[what |-> [epoch |-> n, seed |-> s, prev |-> from, hash |-> hash], try |-> 1]}

\* rotate's second half: the next seed's epoch opens.
OpenEpoch(from, n, closed) ==
    LET s == made + 1
    IN  /\ made' = s /\ seed' = s /\ epoch' = n
        /\ history' = closed \cup {[epoch |-> n, seed |-> s, open |-> TRUE]}
        /\ Announce(from, n, s)

\* Mutant: nothing is revealed.
CloseEpochSilently == UNCHANGED reveals

\* Its first half: the running epoch's seed is revealed.
CloseEpoch == reveals' = reveals \cup {[epoch |-> epoch, seed |-> seed, try |-> 1]}
Closed == {[h EXCEPT !.open = h.open /\ h.seed # seed] : h \in history}

\* next: the epoch's time is up, so it is rotated before the tick.
Rotate ==
    /\ phase = "up"
    /\ made < MaxEpochs
    /\ "slow" \in weather \/ (appends = {} /\ reveals = {})
    /\ CloseEpoch
    /\ OpenEpoch(prev, epoch + 1, Closed)
    /\ ticked' = TRUE
    /\ UNCHANGED <<rows, unrecorded, lifeVars, late>>

Tick ==
    /\ phase = "up"
    /\ ticked' = TRUE
    /\ UNCHANGED <<rows, made, epoch, seed, history, prev, callVars, lifeVars, late>>

-----------------------------------------------------------------------------
(* Recording and revealing *)

AppendExec(a) ==
    /\ RecordRow(a.what)
    /\ appends' = appends \ {a}
    /\ unrecorded' = IF Refused(a.what) THEN unrecorded + 1 ELSE unrecorded
    /\ UNCHANGED <<made, memoryVars, reveals, lifeVars, late>>

\* Mutant: a fourth try.
RetryAppendAgain(a) ==
    /\ appends' = (appends \ {a}) \cup
          (IF a.try > 3 THEN {} ELSE {[a EXCEPT !.try = @ + 1]})
    /\ unrecorded' = IF a.try > 3 THEN unrecorded + 1 ELSE unrecorded

\* An append that failed is tried again, and counted after the third time.
RetryAppend(a) ==
    /\ appends' = (appends \ {a}) \cup
          (IF a.try = 3 THEN {} ELSE {[a EXCEPT !.try = @ + 1]})
    /\ unrecorded' = IF a.try = 3 THEN unrecorded + 1 ELSE unrecorded

AppendFails(a) ==
    /\ \/ "rpcError" \in weather /\ UNCHANGED rows
       \/ "replyLost" \in weather /\ ~Refused(a.what) /\ RecordRow(a.what)
    /\ RetryAppend(a)
    /\ UNCHANGED <<made, memoryVars, reveals, lifeVars, late>>

\* A row that has a seed keeps it, whatever is revealed.
RevealExec(v) ==
    /\ RowOf(v.epoch) # {}
    /\ RevealRow(v)
    /\ reveals' = reveals \ {v}
    /\ UNCHANGED <<made, memoryVars, appends, unrecorded, lifeVars, late>>

\* A reveal that failed, or that found no row yet, is tried again or given up.
RevealFails(v) ==
    /\ \/ ("rpcError" \in weather \/ RowOf(v.epoch) = {}) /\ UNCHANGED rows
       \/ "replyLost" \in weather /\ RevealRow(v)
    /\ reveals' = (reveals \ {v}) \cup
          (IF v.try = 3 THEN {} ELSE {[v EXCEPT !.try = @ + 1]})
    /\ UNCHANGED <<made, memoryVars, appends, unrecorded, lifeVars, late>>

-----------------------------------------------------------------------------
(* Stopping, dying and coming back *)

\* SIGTERM: the running seed is revealed and the ticks stop.
Shutdown ==
    /\ phase = "up" /\ restarts < MaxRestarts
    /\ phase' = "stopping" /\ restarts' = restarts + 1
    /\ CloseEpoch
    /\ history' = Closed
    /\ UNCHANGED <<rows, made, epoch, seed, ticked, prev, appends, unrecorded, head, weather, late>>

\* The memory of the process is gone, and its calls are not tried again.
Forget ==
    /\ phase' = "down"
    /\ epoch' = 0 /\ seed' = NoSeed /\ ticked' = FALSE /\ history' = {} /\ prev' = NoHash
    /\ appends' = {} /\ reveals' = {} /\ unrecorded' = 0
    /\ \E A \in SUBSET appends, R \in SUBSET reveals :
          /\ A \cup R = {} \/ "late" \in weather
          /\ late' = [appends |-> late.appends \cup A, reveals |-> late.reveals \cup R]
    /\ UNCHANGED <<rows, made, head, weather>>

\* The server has closed, or eight seconds have passed.
Exit == phase = "stopping" /\ Forget /\ UNCHANGED restarts

Crash ==
    /\ "crash" \in weather
    /\ phase \in {"loading", "up", "stopping"} /\ restarts < MaxRestarts
    /\ restarts' = restarts + 1
    /\ Forget

LateAppend(a) ==
    /\ RecordRow(a.what)
    /\ late' = [late EXCEPT !.appends = @ \ {a}]
    /\ UNCHANGED <<made, memoryVars, callVars, lifeVars>>

LateReveal(v) ==
    /\ RevealRow(v)
    /\ late' = [late EXCEPT !.reveals = @ \ {v}]
    /\ UNCHANGED <<made, memoryVars, callVars, lifeVars>>

\* loadHeads: where the chain ends; nothing if it cannot be read.
LoadHeads ==
    \/ head' = [epoch |-> HeadEpoch, hash |-> HeadHash]
    \/ "loadFails" \in weather /\ head' = [epoch |-> 0, hash |-> NoHash]

Boot ==
    /\ phase = "down"
    /\ phase' = "loading"
    /\ LoadHeads
    /\ UNCHANGED <<rows, made, memoryVars, callVars, restarts, weather, late>>

\* The engine is built on what was read; its constructor opens an epoch.
Started ==
    /\ phase = "loading"
    /\ phase' = "up"
    /\ OpenEpoch(head.hash, head.epoch + 1, {})
    /\ ticked' = FALSE
    /\ UNCHANGED <<rows, reveals, unrecorded, restarts, head, weather, late>>

-----------------------------------------------------------------------------
ChainInit ==
    /\ weather \in Weathers
    /\ rows = <<>> /\ made = 0
    /\ phase = "down" /\ restarts = 0
    /\ head = [epoch |-> 0, hash |-> NoHash]
    /\ epoch = 0 /\ seed = NoSeed /\ ticked = FALSE /\ history = {} /\ prev = NoHash
    /\ appends = {} /\ reveals = {} /\ unrecorded = 0
    /\ late = NoRequests

ChainNext ==
    \/ Boot \/ Started \/ Tick \/ Rotate \/ Shutdown \/ Exit \/ Crash
    \/ \E a \in appends : AppendExec(a) \/ AppendFails(a)
    \/ \E v \in reveals : RevealExec(v) \/ RevealFails(v)
    \/ \E a \in late.appends : LateAppend(a)
    \/ \E v \in late.reveals : LateReveal(v)

ChainSpec == ChainInit /\ [][ChainNext]_chainVars

-----------------------------------------------------------------------------
(* Properties *)

\* Every variable is of the shape the code gives it, and nothing is tried more
\* than three times.
ChainTypeOK ==
    /\ weather \in Weathers /\ rows \in Seq(Rows) /\ made \in Nat
    /\ phase \in {"down", "loading", "up", "stopping"} /\ restarts \in Nat
    /\ head \in [epoch : Nat, hash : Seq(Nat)]
    /\ epoch \in Nat /\ seed \in Nat /\ ticked \in BOOLEAN /\ prev \in Seq(Nat)
    /\ history \subseteq [epoch : Nat, seed : Nat, open : BOOLEAN]
    /\ appends \subseteq Appends /\ reveals \subseteq Reveals
    /\ unrecorded \in Nat
    /\ late \in [appends : SUBSET Appends, reveals : SUBSET Reveals]

\* "Counted and surfaced rather than swallowed": an epoch of this process that is missing
\* from the record, and not on its way there, has been counted.
MissingCounted ==
    LET recorded == {rows[i].what.seed : i \in DOMAIN rows}
        coming == {a.what.seed : a \in appends}
    IN  Cardinality({h \in history : h.seed \notin recorded \cup coming}) <= unrecorded

\* "So the next epoch links correctly even while this write is still in flight", and the
\* seed published for an epoch is the one its row commits to.
NothingRefused ==
    /\ unrecorded = 0
    /\ \A i \in DOMAIN rows : rows[i].revealed \in {NoSeed, rows[i].what.seed}

\* "never served until its epoch has ended": while prices are made from a seed,
\* it is neither published nor on its way to be.
LiveSeedSecret ==
    phase = "up" =>
        /\ \A i \in DOMAIN rows : rows[i].revealed # seed
        /\ \A v \in reveals \cup late.reveals : v.seed # seed
        /\ \A h \in history : h.open <=> h.seed = seed

\* Every epoch is in the record before it produces a tick.  Not so: see the README.
RecordedBeforeTick ==
    phase = "up" /\ ticked => \E i \in DOMAIN rows : rows[i].what.seed = seed

\* "a planned restart leaves no epoch committed but never revealed".
PlannedRestartReveals ==
    phase \in {"loading", "up"} =>
        \A i \in DOMAIN rows :
            \/ rows[i].revealed # NoSeed \/ rows[i].what.seed = seed
            \/ \E v \in reveals \cup late.reveals : v.seed = rows[i].what.seed

\* An epoch that closes is revealed, unless its process stops or dies before, or calls
\* to the database fail.
Finished(s) == \E h \in history : h.seed = s /\ ~h.open
Revealed(s) == \E i \in DOMAIN rows : rows[i].revealed = s
EveryEpochRevealed ==
    \A s \in 1..(MaxEpochs + MaxRestarts) :
        []<>(Finished(s) /\ weather \subseteq {"crash"} => phase = "stopping" \/ Revealed(s))
=============================================================================
