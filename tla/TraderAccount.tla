---------------------------- MODULE TraderAccount ----------------------------
(***************************************************************************)
(* The account a page shows: whose it is and what it holds                   *)
(* (client/src/store/app.tsx and components/WalletModal.tsx, server's         *)
(* routes/auth.routes.ts and lib/auth.ts).  The page learns of a change from   *)
(* the reply to a request, from a message the hub pushes to the sockets it     *)
(* knows to be the trader's, or by asking again: when the socket comes back,   *)
(* when a position is overdue, when a payment it watches is resolved.         *)
(*                                                                         *)
(* A balance is the number of changes made to it.  Replies and messages reach *)
(* the page in the order they were sent, unless one overtakes another.        *)
(***************************************************************************)
EXTENDS Integers, Sequences
LOCAL INSTANCE SequencesExt

CONSTANTS
    Accts,
    PageFaults,     \* what may go wrong, of AllPageFaults
    MaxPageFaults,  \* bound on that
    MaxEntries,     \* bound on logins and logouts
    MaxChanges,     \* bound on the changes of balances
    MaxAsks,        \* bound on the calls of refreshUser in progress
    MaxArriving     \* bound on the replies and messages on their way

AllPageFaults ==
    { "lost",       \* the socket dies, and the page learns of it later
      "failed",     \* a request of the page fails
      "overtaken",  \* a reply or message overtakes an earlier one
      "unheard" }   \* the console cannot reach the trading service

ASSUME AccountAssumption ==
    /\ PageFaults \subseteq AllPageFaults
    /\ {MaxPageFaults, MaxEntries, MaxChanges} \subseteq Nat 
    /\ {MaxAsks, MaxArriving} \subseteq Nat \ {0}

VARIABLES
    \* the server and the browser
    known,          \* accounts there are
    holds,          \* users.real_balance
    position,       \* of each account: none, open or closed (and past its expiry)
    payment,        \* its deposit: none, pending or resolved
    cookie,         \* whose session the browser holds, or Guest
    \* the line between them
    line,           \* the socket: up, broken (the page does not know) or down
    lineOf,         \* whom the hub takes the socket to be: its cookie when it opened
    arriving,       \* replies and messages on their way to the page, oldest first
    asking,         \* calls of refreshUser not yet executed
    listing,        \* loadOpenTrades is not yet executed
    \* the page
    user,           \* whose account is shown, and what it holds; Nobody
    listed,         \* a position is on the panel
    polling,        \* the wallet polls its transaction
    entries, pageFaults

serverSide == <<known, holds, position, payment>>
lineVars == <<line, lineOf>>
askingVars == <<asking, listing>>
boundVars == <<entries, pageFaults>>
accountVars == <<serverSide, cookie, lineVars, arriving, askingVars, user, listed, polling, boundVars>>

Guest == "guest"
Nobody == [who |-> Guest, has |-> 0]
Kinds == {"me", "entered", "left", "placed", "opened", "balance", "trade"}
Arrivals == [kind : Kinds, who : Accts \cup {Guest}, has : Nat]
Pushed == {"balance", "trade"}

\* What the server says of an account now.
Shown(a) == IF a = Guest THEN Nobody ELSE [who |-> a, has |-> holds[a]]
Arrive(kind, a, has) ==
    /\ Len(arriving) < MaxArriving
    /\ arriving' = Append(arriving, [kind |-> kind, who |-> a, has |-> has])
Awaits(kinds) == \E i \in DOMAIN arriving : arriving[i].kind \in kinds
PageFault(f) == f \in PageFaults /\ pageFaults < MaxPageFaults /\ pageFaults' = pageFaults + 1

-----------------------------------------------------------------------------
(* Logging in and out *)

EntryMade == entries < MaxEntries /\ entries' = entries + 1

\* POST /register, of an account there is not, and POST /login.
Enter(a) ==
    /\ user = Nobody /\ ~Awaits({"entered", "left"})
    /\ EntryMade
    /\ known' = known \cup {a} /\ cookie' = a
    /\ Arrive("entered", a, holds[a])
    /\ UNCHANGED <<holds, position, payment, lineVars, askingVars, user, listed, polling, pageFaults>>

\* POST /logout; the page goes on as if it had worked.
Leave ==
    /\ user # Nobody /\ ~Awaits({"entered", "left"})
    /\ EntryMade
    /\ \/ cookie' = Guest /\ UNCHANGED pageFaults
       \/ PageFault("failed") /\ UNCHANGED cookie
    /\ Arrive("left", Guest, 0)
    /\ UNCHANGED <<serverSide, lineVars, askingVars, user, listed, polling>>

-----------------------------------------------------------------------------
(* What changes a balance *)

Change(a) ==
    /\ \E n \in 1..MaxChanges : holds[a] = n - 1
    /\ holds' = [holds EXCEPT ![a] = @ + 1]

\* hub.toUser.
Push(kind, a) ==
    IF line = "up" /\ lineOf = a THEN Arrive(kind, a, holds'[a]) ELSE UNCHANGED arriving

\* POST /trades and its reply.
PlacePosition ==
    /\ user # Nobody /\ cookie # Guest /\ position[cookie] = "none"
    /\ Change(cookie)
    /\ position' = [position EXCEPT ![cookie] = "open"]
    /\ Arrive("placed", cookie, holds'[cookie])
    /\ UNCHANGED <<known, payment, cookie, lineVars, askingVars, user, listed, polling, boundVars>>

SettlePush(a) ==
    /\ position[a] = "open"
    /\ position' = [position EXCEPT ![a] = "closed"]
    /\ Change(a)
    /\ Push("trade", a)
    /\ UNCHANGED <<known, payment, cookie, lineVars, askingVars, user, listed, polling, boundVars>>

\* POST /deposit, whose reply starts the polling.
StartPayment ==
    /\ user # Nobody /\ cookie # Guest /\ payment[cookie] = "none"
    /\ payment' = [payment EXCEPT ![cookie] = "pending"]
    /\ polling' = TRUE
    /\ UNCHANGED <<known, holds, position, cookie, lineVars, arriving, askingVars, user, listed, boundVars>>

\* finaliseTransaction.
PaymentEnds(a) ==
    /\ payment[a] = "pending"
    /\ payment' = [payment EXCEPT ![a] = "resolved"]
    /\ Change(a)
    /\ Push("balance", a)
    /\ UNCHANGED <<known, position, cookie, lineVars, askingVars, user, listed, polling, boundVars>>

\* POST /users/:id/balance in the console, and notifyBalance.
Adjust(a) ==
    /\ a \in known
    /\ Change(a)
    /\ \/ Push("balance", a) /\ UNCHANGED pageFaults
       \/ PageFault("unheard") /\ UNCHANGED arriving
    /\ UNCHANGED <<known, position, payment, cookie, lineVars, askingVars, user, listed, polling, entries>>

-----------------------------------------------------------------------------
(* The socket *)

\* The replies among what is arriving come by another connection (SelectSeq, by the length of
\* what it has gone through).
Replies ==
    LET kept[n \in 0..Len(arriving)] ==
            IF n = 0 THEN <<>>
            ELSE IF arriving[n].kind \in Pushed THEN kept[n - 1]
            ELSE Append(kept[n - 1], arriving[n])
    IN  kept[Len(arriving)]

LineBreaks ==
    /\ line = "up" /\ line' = "broken" /\ PageFault("lost")
    /\ arriving' = Replies
    /\ UNCHANGED <<serverSide, cookie, lineOf, askingVars, user, listed, polling, entries>>

LineNoticed ==
    /\ line = "broken" /\ line' = "down"
    /\ UNCHANGED <<serverSide, cookie, lineOf, arriving, askingVars, user, listed, polling, boundVars>>

AskAgain == asking' = IF asking < MaxAsks THEN asking + 1 ELSE asking

\* Mutant: what is open is asked for again, the balance is not.
LineBackUnasked ==
    /\ line = "down" /\ line' = "up" /\ lineOf' = cookie
    /\ listing' = (user # Nobody)
    /\ UNCHANGED <<serverSide, cookie, arriving, asking, user, listed, polling, boundVars>>

\* The hub reads the cookie once; the page's effect of having reconnected.
LineBack ==
    /\ line = "down" /\ line' = "up" /\ lineOf' = cookie
    /\ AskAgain
    /\ listing' = (user # Nobody)
    /\ UNCHANGED <<serverSide, cookie, arriving, user, listed, polling, boundVars>>

-----------------------------------------------------------------------------
(* Asking again *)

\* Every two seconds, of a position past its expiry.
OverdueAgain ==
    /\ listed /\ cookie # Guest /\ position[cookie] = "closed"
    /\ AskAgain /\ listing' = (user # Nobody)
    /\ UNCHANGED <<serverSide, cookie, lineVars, arriving, user, listed, polling, boundVars>>

\* A transaction that is resolved.
PollEnds ==
    /\ polling /\ cookie # Guest /\ payment[cookie] = "resolved"
    /\ polling' = FALSE /\ AskAgain
    /\ UNCHANGED <<serverSide, cookie, lineVars, arriving, listing, user, listed, boundVars>>

\* GET /auth/me: attachUser reads the account of the cookie.
MeExec ==
    /\ asking > 0 /\ asking' = asking - 1
    /\ \/ Arrive("me", cookie, Shown(cookie).has) /\ UNCHANGED pageFaults
       \/ PageFault("failed") /\ UNCHANGED arriving
    /\ UNCHANGED <<serverSide, cookie, lineVars, listing, user, listed, polling, entries>>

\* GET /trades/open.
ListExec ==
    /\ listing /\ listing' = FALSE
    /\ \/ /\ cookie # Guest
          /\ Arrive("opened", cookie, IF position[cookie] = "open" THEN 1 ELSE 0)
          /\ UNCHANGED pageFaults
       \/ cookie = Guest /\ UNCHANGED <<arriving, pageFaults>>
       \/ PageFault("failed") /\ UNCHANGED arriving
    /\ UNCHANGED <<serverSide, cookie, lineVars, asking, user, listed, polling, entries>>

-----------------------------------------------------------------------------
(* The page *)

\* A user object other than before has the open trades loaded, or cleared.
ShowUser(u, panel) ==
    /\ user' = u
    /\ listing' = IF u # user THEN u # Nobody ELSE listing
    /\ listed' = IF u = Nobody /\ u # user THEN FALSE ELSE panel

\* setUser((prev) => ...): nothing is shown of an account nobody is logged in to.
Updated(has) == IF user = Nobody THEN Nobody ELSE [user EXCEPT !.has = has]

TakeUp(m) ==
    \/ m.kind \in {"me", "entered"}
       /\ ShowUser(IF m.who = Guest THEN Nobody ELSE [who |-> m.who, has |-> m.has], listed)
    \/ m.kind = "left" /\ ShowUser(Nobody, FALSE)
    \/ m.kind = "placed" /\ ShowUser(Updated(m.has), TRUE)
    \/ m.kind = "trade" /\ ShowUser(Updated(m.has), FALSE)
    \/ m.kind = "balance" /\ ShowUser(Updated(m.has), listed)
    \/ m.kind = "opened" /\ listed' = (m.has = 1) /\ UNCHANGED <<user, listing>>

\* resume, when logging in, opens a socket only if there is none.
PageHears(i) ==
    /\ i = 1 \/ "overtaken" \in PageFaults
    /\ arriving' = RemoveAt(arriving, i)
    /\ TakeUp(arriving[i])
    /\ UNCHANGED <<serverSide, cookie, lineVars, asking, polling, boundVars>>

-----------------------------------------------------------------------------
\* A page is opened: the bootstrap asks who is logged in, and the socket is opened
\* with the cookie there is.
AccountInit ==
    /\ cookie \in Accts \cup {Guest} /\ known = {cookie} \ {Guest}
    /\ holds = [a \in Accts |-> 0] /\ position = [a \in Accts |-> "none"]
    /\ payment = [a \in Accts |-> "none"]
    /\ line = "up" /\ lineOf = cookie /\ arriving = <<>>
    /\ asking = 1 /\ listing = FALSE
    /\ user = Nobody /\ listed = FALSE /\ polling = FALSE
    /\ entries = 0 /\ pageFaults = 0

AccountNext ==
    \/ \E a \in Accts : Enter(a) \/ SettlePush(a) \/ PaymentEnds(a) \/ Adjust(a)
    \/ Leave \/ PlacePosition \/ StartPayment
    \/ LineBreaks \/ LineNoticed \/ LineBack
    \/ OverdueAgain \/ PollEnds \/ MeExec \/ ListExec
    \/ \E i \in DOMAIN arriving : PageHears(i)

AccountSpec == AccountInit /\ [][AccountNext]_accountVars

-----------------------------------------------------------------------------
(* Properties *)

\* Every variable is of the shape the code gives it.
AccountTypeOK ==
    /\ known \subseteq Accts /\ cookie \in known \cup {Guest}
    /\ holds \in [Accts -> 0..MaxChanges]
    /\ position \in [Accts -> {"none", "open", "closed"}]
    /\ payment \in [Accts -> {"none", "pending", "resolved"}]
    /\ line \in {"up", "broken", "down"} /\ lineOf \in Accts \cup {Guest}
    /\ arriving \in Seq(Arrivals) /\ Len(arriving) <= MaxArriving
    /\ asking \in 0..MaxAsks /\ {listing, listed, polling} \subseteq BOOLEAN
    /\ user \in [who : Accts, has : Nat] \cup {Nobody}

\* "So the server is asked again on every reconnect instead of being trusted to have been
\* heard the first time": whatever was lost with a socket, a page whose socket the hub
\* knows comes to show the account that is logged in, and what it holds.
AccountSettles ==
    <>[](line = "up" /\ lineOf = cookie => user = Shown(cookie))

\* "The same repair for a settlement lost while the socket stayed up": a trader whose
\* balance has changed twice, by placing a position and by its settlement, comes to be
\* shown both.  Not so: the list of open trades that the reply to the placement has the
\* page ask for takes a position stopped out by then off the screen before it is overdue,
\* and nothing asks for the balance.
SettlementRepaired ==
    \A a \in Accts :
        <>[](user.who = a /\ cookie = a /\ position[a] = "closed" /\ holds[a] = 2
              => user.has = 2)
=============================================================================
