------------------------------- MODULE PartTypes -------------------------------
(***************************************************************************)
(* The types of the parts that share no variable with the trading engine, for  *)
(* all values of their constants: every variable of the part that moves is of   *)
(* the shape the code gives it, whatever the others started as.                 *)
(***************************************************************************)
EXTENDS MCParts, ChainProofs, SandboxProofs, PartProofs

-----------------------------------------------------------------------------
(* ExposureGuard *)

\* evaluate answers yes or no.
LEMMA EvaluateAnswers ==
  ASSUME NEW open \in BOOLEAN, NEW d
  PROVE  Evaluate(open, d) \in BOOLEAN
BY Zenon DEF Evaluate

\* There is one load, and it stays one.
LEMMA JoinLoadTyped ==
  ASSUME GuardTypeOK, NEW id, JoinLoad(id)
  PROVE  /\ dayLoads' \subseteq [id : {1}, seen : Days, done : BOOLEAN]
         /\ id \in LoadIds' /\ LoadIds \subseteq LoadIds'
<1>1. CASE id \in LoadIds /\ UNCHANGED dayLoads
  BY <1>1 DEF GuardTypeOK, LoadIds
<1>2. CASE LoadIds = {} /\ id = 1 /\ dayLoads' = {[id |-> id, seen |-> NoDay, done |-> FALSE]}
  <2>1. NoDay \in Days
    BY GuardAssumption DEF NoDay, Days
  <2>2. LoadIds' = {1}
    BY <1>2 DEF LoadIds
  <2> QED BY <1>2, <2>1, <2>2
<1> QED BY <1>1, <1>2 DEF JoinLoad

\* What is asked while a load is in flight, or of figures that are kept, leaves the guard typed.
LEMMA AsksTyped ==
  ASSUME GuardTypeOK, DayMoves \/ DayAges \/ \E id \in 1..2 : TickAsks(id) \/ BookAsks(id) \/ PlacementAsks(id)
  PROVE  GuardTypeOK'
<1>1. CASE DayMoves
  <2>1. day' \in Days
    BY <1>1, GuardAssumption DEF DayMoves, GuardTypeOK, Days
  <2> QED BY <1>1, <2>1 DEF DayMoves, GuardTypeOK, LoadIds
<1>2. CASE DayAges
  BY <1>2 DEF DayAges, GuardTypeOK, LoadIds
<1>3. ASSUME NEW id \in 1..2, TickAsks(id) PROVE GuardTypeOK'
  BY <1>3, JoinLoadTyped DEF TickAsks, GuardTypeOK
<1>4. ASSUME NEW id \in 1..2, BookAsks(id) PROVE GuardTypeOK'
  BY <1>4, JoinLoadTyped DEF BookAsks, GuardTypeOK
<1>5. ASSUME NEW id \in 1..2, PlacementAsks(id) PROVE GuardTypeOK'
  BY <1>5, JoinLoadTyped DEF PlacementAsks, GuardTypeOK
<1> QED BY <1>1, <1>2, <1>3, <1>4, <1>5

\* What awaits a load that ends goes on with it.
LEMMA LoadEndsTyped ==
  ASSUME GuardTypeOK, NEW l \in dayLoads, NEW d, LoadEnds(l, d)
  PROVE  /\ day' \in Days
         /\ dayLoads' \subseteq [id : {1}, seen : Days, done : BOOLEAN]
         /\ dayTicks' \subseteq [load : LoadIds', was : BOOLEAN] /\ dayAsks' \subseteq LoadIds'
         /\ deskOpen' \in BOOLEAN /\ deskTold' \in BOOLEAN
<1>1. deskOpen' \in BOOLEAN
  BY EvaluateAnswers DEF LoadEnds, Apply, GuardTypeOK
<1>2. deskTold' \in BOOLEAN
  BY <1>1 DEF LoadEnds, Broadcast, GuardTypeOK
<1>3. l.id = 1 /\ LoadIds \subseteq {1}
  BY DEF GuardTypeOK, LoadIds
<1>4. dayTicks' = {} /\ dayAsks' = {}
  BY <1>3 DEF LoadEnds, GuardTypeOK
<1> QED BY <1>1, <1>2, <1>4 DEF LoadEnds, GuardTypeOK

\* Every step of the guard keeps its types.
LEMMA GuardTyped ==
  ASSUME GuardTypeOK, [GuardNext]_guardVars
  PROVE  GuardTypeOK'
<1>1. CASE UNCHANGED guardVars
  BY <1>1 DEF guardVars, GuardTypeOK, LoadIds
<1>2. CASE PlacementCached
  <2>1. deskOpen' \in BOOLEAN
    BY <1>2, EvaluateAnswers DEF PlacementCached, Apply, GuardTypeOK
  <2> QED BY <1>2, <2>1 DEF PlacementCached, GuardTypeOK, LoadIds
<1>3. ASSUME NEW l \in dayLoads, LoadExec(l) PROVE GuardTypeOK'
  <2> DEFINE done == [l EXCEPT !.seen = day, !.done = TRUE]
  <2>1. done \in [id : {1}, seen : Days, done : BOOLEAN] /\ done.id = l.id
    BY DEF GuardTypeOK
  <2>2. LoadIds' = LoadIds
    BY <1>3, <2>1 DEF LoadExec, LoadIds
  <2> QED BY <1>3, <2>1, <2>2 DEF LoadExec, GuardTypeOK
<1>4. ASSUME NEW l \in dayLoads, LoadReturns(l) PROVE GuardTypeOK'
  BY <1>4, LoadEndsTyped DEF LoadReturns, GuardTypeOK
<1>5. ASSUME NEW l \in dayLoads, LoadFails(l) PROVE GuardTypeOK'
  BY <1>5, LoadEndsTyped, GuardAssumption DEF LoadFails, GuardTypeOK
<1> QED BY <1>1, <1>2, <1>3, <1>4, <1>5, AsksTyped DEF GuardNext

\* It starts with no figures, no load and an open desk.
LEMMA GuardStarts == GuardInit => GuardTypeOK
<1>1. NoDay \in Days /\ 0 \in 0..MaxFailedReads
  BY GuardAssumption DEF NoDay, Days
<1> QED BY <1>1 DEF GuardInit, GuardTypeOK, LoadIds

-----------------------------------------------------------------------------
(* TraderAccount *)

Users == [who : Accts, has : Nat] \cup {Nobody}
OnServer ==
    /\ known \subseteq Accts /\ cookie \in known \cup {Guest} /\ holds \in [Accts -> 0..MaxChanges]
    /\ position \in [Accts -> {"none", "open", "closed"}]
    /\ payment \in [Accts -> {"none", "pending", "resolved"}]
OnTheWay == arriving \in Seq(Arrivals) /\ Len(arriving) <= MaxArriving
OnPage ==
    /\ line \in {"up", "broken", "down"} /\ lineOf \in Accts \cup {Guest}
    /\ asking \in 0..MaxAsks /\ listing \in BOOLEAN /\ listed \in BOOLEAN /\ polling \in BOOLEAN
    /\ user \in Users

\* The type in three parts: the server's side, the way, and the page.
LEMMA AccountTypeIs == AccountTypeOK <=> OnServer /\ OnTheWay /\ OnPage
BY DEF AccountTypeOK, OnServer, OnTheWay, OnPage, Users

\* What is sent is of the shape of what arrives.
LEMMA ArrivesTyped ==
  ASSUME OnTheWay, NEW kind \in Kinds, NEW a \in Accts \cup {Guest}, NEW has \in Nat, Arrive(kind, a, has)
  PROVE  OnTheWay'
<1>1. [kind |-> kind, who |-> a, has |-> has] \in Arrivals
  BY DEF Arrivals
<1>2. MaxArriving \in Nat
  BY AccountAssumption
<1> QED BY <1>1, <1>2 DEF Arrive, OnTheWay

\* How what is still to arrive is gone through.
Through(g) ==
    g = [n \in 0..Len(arriving) |->
           IF n = 0 THEN <<>>
           ELSE IF arriving[n].kind \in Pushed THEN g[n - 1] ELSE Append(g[n - 1], arriving[n])]

\* The filter of what is arriving, as a table of what is left of its beginnings.
LEMMA RepliesAre == Replies = (CHOOSE g : Through(g))[Len(arriving)]
BY DEF Replies, Through

\* The replies are among what was arriving.
LEMMA RepliesTyped ==
  ASSUME arriving \in Seq(Arrivals)
  PROVE  Replies \in Seq(Arrivals) /\ Len(Replies) <= Len(arriving)
<1> DEFINE m == Len(arriving)
           T == Seq(Arrivals)
           step == [k \in 1..m |-> [s \in T |->
                      IF arriving[k].kind \in Pushed THEN s ELSE Append(s, arriving[k])]]
<1>1. m \in Nat /\ \A k \in 1..m : arriving[k] \in Arrivals
  OBVIOUS
<1>2. \A k \in 1..m : \A s \in T : step[k][s] \in T
  <2> SUFFICES ASSUME NEW k \in 1..m, NEW s \in T PROVE step[k][s] \in T
    OBVIOUS
  <2>1. Append(s, arriving[k]) \in T
    BY <1>1
  <2> QED BY <2>1
<1>3. \A k \in 1..m : \A s \in T :
         step[k][s] = IF arriving[k].kind \in Pushed THEN s ELSE Append(s, arriving[k])
  OBVIOUS
<1>4. PICK g \in [0..m -> T] : \A k \in 0..m : g[k] = IF k = 0 THEN <<>> ELSE step[k][g[k - 1]]
  <2> DEFINE base == <<>>
             first == 0
  <2>1. StepsIn(step, first, m, T)
    <3>1. \A k \in 1..m : step[k] \in [T -> T]
      BY <1>2
    <3> QED BY <3>1 DEF StepsIn
  <2>2. first \in Int /\ m \in Int /\ first <= m /\ base \in T
    BY <1>1
  <2> HIDE DEF base, first, T, m, step
  <2>3. \E g : g \in [first..m -> T] /\ Follows(g, first, m, base, step)
    BY ONLY <2>1, <2>2, Recursion
  <2> QED BY <2>3 DEF base, first, Follows
<1> HIDE DEF T, step
<1>5. ASSUME NEW n \in 0..m
      PROVE  g[n] = IF n = 0 THEN <<>>
                    ELSE IF arriving[n].kind \in Pushed THEN g[n - 1] ELSE Append(g[n - 1], arriving[n])
  <2>1. CASE n = 0 BY <1>4, <2>1
  <2>2. CASE n # 0
    <3>1. n \in 1..m /\ n - 1 \in 0..m /\ g[n - 1] \in T BY <1>1, <2>2
    <3>2. g[n] = step[n][g[n - 1]] BY <1>4, <2>2
    <3> QED BY <1>3, <2>2, <3>1, <3>2
  <2> QED BY <2>1, <2>2
<1>6. Through(g)
  BY <1>5 DEF Through
<1>7. PICK h : Through(h) /\ Replies = h[m]
  <2>1. Through(CHOOSE h : Through(h))
    BY <1>6, Zenon
  <2> QED BY <2>1, RepliesAre
<1>8. /\ h[0] = <<>>
      /\ \A n \in 1..m : h[n] = IF arriving[n].kind \in Pushed THEN h[n - 1] ELSE Append(h[n - 1], arriving[n])
  <2> DEFINE G == [n \in 0..m |->
                     IF n = 0 THEN <<>>
                     ELSE IF arriving[n].kind \in Pushed THEN h[n - 1] ELSE Append(h[n - 1], arriving[n])]
  <2>1. h = G
    BY <1>7 DEF Through
  <2>2. 0 \in 0..m /\ G[0] = <<>>
    BY <1>1
  <2>3. ASSUME NEW n \in 1..m
        PROVE  G[n] = IF arriving[n].kind \in Pushed THEN h[n - 1] ELSE Append(h[n - 1], arriving[n])
    <3>1. n \in 0..m /\ n # 0
      BY <1>1
    <3> QED BY <3>1
  <2> HIDE DEF G
  <2>4. h[0] = <<>>
    BY <2>1, <2>2
  <2>5. ASSUME NEW n \in 1..m
        PROVE  h[n] = IF arriving[n].kind \in Pushed THEN h[n - 1] ELSE Append(h[n - 1], arriving[n])
    <3>1. h[n] = G[n]
      BY <2>1
    <3> QED BY <2>3, <3>1
  <2> QED BY <2>4, <2>5
<1> DEFINE S == {n \in 0..m : h[n] \in Seq(Arrivals) /\ Len(h[n]) <= n}
<1>9. 0 \in S
  <2>1. <<>> \in Seq(Arrivals) /\ Len(<<>>) = 0 /\ 0 \in 0..m
    BY <1>1
  <2>2. h[0] = <<>>
    BY <1>8
  <2>3. h[0] \in Seq(Arrivals) /\ Len(h[0]) <= 0
    BY ONLY <2>1, <2>2
  <2> HIDE DEF m
  <2> QED BY ONLY <2>1, <2>3
<1>10. ASSUME NEW n \in 1..m, n - 1 \in S PROVE n \in S
  <2>1. h[n - 1] \in Seq(Arrivals) /\ Len(h[n - 1]) <= n - 1
    BY <1>10
  <2>2. CASE arriving[n].kind \in Pushed
    BY <1>1, <1>8, <2>1, <2>2
  <2>3. CASE arriving[n].kind \notin Pushed
    <3>1. h[n] = Append(h[n - 1], arriving[n]) /\ arriving[n] \in Arrivals
      BY <1>1, <1>8, <2>3
    <3>2. Append(h[n - 1], arriving[n]) \in Seq(Arrivals)
          /\ Len(Append(h[n - 1], arriving[n])) = Len(h[n - 1]) + 1 /\ Len(h[n - 1]) \in Nat
      BY <2>1, <3>1
    <3>3. h[n] \in Seq(Arrivals) /\ Len(h[n]) <= n
      BY <1>1, <2>1, <3>1, <3>2
    <3> HIDE DEF m
    <3> QED BY <1>1, <3>3
  <2> QED BY <2>2, <2>3
<1>11. m \in S
  <2> DEFINE low == 0
  <2>1. low \in S /\ low <= m /\ low \in Int /\ m \in Int
    BY <1>1, <1>9
  <2>2. \A n \in low + 1 .. m : n - 1 \in S => n \in S
    BY <1>10
  <2> HIDE DEF S, low, m
  <2>3. low..m \subseteq S
    BY ONLY <2>1, <2>2, Steps
  <2>4. m \in low..m
    BY <2>1
  <2> QED BY <2>3, <2>4
<1> QED BY <1>7, <1>11

\* A balance that changes stays within the bound, and may be pushed.
LEMMA ChangesTyped ==
  ASSUME OnServer, OnTheWay, NEW a \in Accts, Change(a)
  PROVE  /\ holds' \in [Accts -> 0..MaxChanges] /\ holds'[a] \in Nat
         /\ \A kind \in Kinds : Push(kind, a) \/ UNCHANGED arriving => OnTheWay'
<1>1. MaxChanges \in Nat
  BY AccountAssumption
<1>2. PICK n \in 1..MaxChanges : holds[a] = n - 1
  BY DEF Change
<1>3. holds' = [holds EXCEPT ![a] = holds[a] + 1]
  BY DEF Change
<1>4. holds[a] + 1 \in 0..MaxChanges
  BY <1>1, <1>2
<1>5. holds' \in [Accts -> 0..MaxChanges] /\ holds'[a] \in Nat
  BY <1>1, <1>3, <1>4 DEF OnServer
<1>6. ASSUME NEW kind \in Kinds, Push(kind, a) \/ UNCHANGED arriving PROVE OnTheWay'
  <2>1. CASE UNCHANGED arriving
    BY <2>1 DEF OnTheWay
  <2>2. CASE Arrive(kind, a, holds'[a])
    BY <1>5, <2>2, ArrivesTyped
  <2> QED BY <1>6, <2>1, <2>2 DEF Push
<1> QED BY <1>5, <1>6

\* What is taken up is what was sent.
LEMMA TakesUpTyped ==
  ASSUME OnPage, NEW m \in Arrivals, TakeUp(m)
  PROVE  user' \in Users /\ listing' \in BOOLEAN /\ listed' \in BOOLEAN
<1>0. m.has \in Nat /\ m.who \in Accts \cup {Guest}
  BY DEF Arrivals
<1>1. ASSUME NEW u \in Users, NEW panel \in BOOLEAN, ShowUser(u, panel)
      PROVE  user' \in Users /\ listing' \in BOOLEAN /\ listed' \in BOOLEAN
  BY <1>1 DEF ShowUser, OnPage
<1>2. Nobody \in Users
  BY DEF Users
<1>3. Updated(m.has) \in Users
  BY <1>0 DEF Updated, OnPage, Users
<1>4. (IF m.who = Guest THEN Nobody ELSE [who |-> m.who, has |-> m.has]) \in Users
  BY <1>0 DEF Users
<1>5. listed \in BOOLEAN /\ listing \in BOOLEAN /\ user \in Users
  BY DEF OnPage
<1>6. CASE m.kind = "opened" /\ listed' = (m.has = 1) /\ UNCHANGED <<user, listing>>
  BY <1>5, <1>6
<1> QED BY <1>1, <1>2, <1>3, <1>4, <1>5, <1>6 DEF TakeUp

\* Every step of the server, of the way and of the page keeps their types.
LEMMA AccountTyped ==
  ASSUME AccountTypeOK, [AccountNext]_accountVars
  PROVE  AccountTypeOK'
<1>0. OnServer /\ OnTheWay /\ OnPage
  BY AccountTypeIs
<1>1. SUFFICES OnServer' /\ OnTheWay' /\ OnPage'
  BY DEF AccountTypeOK, OnServer, OnTheWay, OnPage, Users
<1>2. ASSUME UNCHANGED serverSide, cookie' = cookie PROVE OnServer'
  BY <1>0, <1>2 DEF serverSide, OnServer
<1>3. ASSUME UNCHANGED arriving PROVE OnTheWay'
  BY <1>0, <1>3 DEF OnTheWay
<1>4. ASSUME UNCHANGED <<lineVars, askingVars, user, listed, polling>> PROVE OnPage'
  BY <1>0, <1>4 DEF OnPage, lineVars, askingVars
<1>5. /\ MaxChanges \in Nat /\ MaxAsks \in Nat \ {0} /\ cookie \in Accts \cup {Guest}
      /\ \A a \in Accts : holds[a] \in Nat
  BY <1>0, AccountAssumption DEF OnServer
<1>6. CASE UNCHANGED accountVars
  BY <1>2, <1>3, <1>4, <1>6 DEF accountVars
<1>7. ASSUME NEW a \in Accts, Enter(a) PROVE OnServer' /\ OnTheWay' /\ OnPage'
  <2>1. OnServer'
    BY <1>0, <1>7 DEF Enter, OnServer
  <2>2. OnTheWay'
    BY <1>0, <1>5, <1>7, ArrivesTyped DEF Enter, Kinds
  <2> QED BY <1>4, <1>7, <2>1, <2>2 DEF Enter
<1>8. ASSUME NEW a \in Accts, SettlePush(a) PROVE OnServer' /\ OnTheWay' /\ OnPage'
  <2>1. Change(a) /\ Push("trade", a) /\ "trade" \in Kinds
    BY <1>8 DEF SettlePush, Kinds
  <2>2. holds' \in [Accts -> 0..MaxChanges] /\ OnTheWay'
    BY <1>0, <2>1, ChangesTyped
  <2>3. OnServer'
    BY <1>0, <1>8, <2>2 DEF SettlePush, OnServer
  <2> QED BY <1>4, <1>8, <2>2, <2>3 DEF SettlePush
<1>9. ASSUME NEW a \in Accts, PaymentEnds(a) PROVE OnServer' /\ OnTheWay' /\ OnPage'
  <2>1. Change(a) /\ Push("balance", a) /\ "balance" \in Kinds
    BY <1>9 DEF PaymentEnds, Kinds
  <2>2. holds' \in [Accts -> 0..MaxChanges] /\ OnTheWay'
    BY <1>0, <2>1, ChangesTyped
  <2>3. OnServer'
    BY <1>0, <1>9, <2>2 DEF PaymentEnds, OnServer
  <2> QED BY <1>4, <1>9, <2>2, <2>3 DEF PaymentEnds
<1>10. ASSUME NEW a \in Accts, Adjust(a) PROVE OnServer' /\ OnTheWay' /\ OnPage'
  <2>1. Change(a) /\ (Push("balance", a) \/ UNCHANGED arriving) /\ "balance" \in Kinds
    BY <1>10 DEF Adjust, Kinds
  <2>2. holds' \in [Accts -> 0..MaxChanges] /\ OnTheWay'
    BY <1>0, <2>1, ChangesTyped
  <2>3. OnServer'
    BY <1>0, <1>10, <2>2 DEF Adjust, OnServer
  <2> QED BY <1>4, <1>10, <2>2, <2>3 DEF Adjust
<1>11. CASE Leave
  <2>1. OnServer'
    BY <1>0, <1>11 DEF Leave, serverSide, OnServer
  <2>2. OnTheWay'
    BY <1>0, <1>11, ArrivesTyped DEF Leave, Kinds
  <2> QED BY <1>4, <1>11, <2>1, <2>2 DEF Leave
<1>12. CASE PlacePosition
  <2>1. cookie \in Accts /\ Change(cookie) /\ Arrive("placed", cookie, holds'[cookie]) /\ "placed" \in Kinds
    BY <1>5, <1>12 DEF PlacePosition, Kinds
  <2>2. holds' \in [Accts -> 0..MaxChanges] /\ holds'[cookie] \in Nat
    BY <1>0, <2>1, ChangesTyped
  <2>3. OnTheWay'
    BY <1>0, <2>1, <2>2, ArrivesTyped
  <2>4. OnServer'
    BY <1>0, <1>12, <2>2 DEF PlacePosition, OnServer
  <2> QED BY <1>4, <1>12, <2>3, <2>4 DEF PlacePosition
<1>13. CASE StartPayment
  <2>1. OnServer'
    BY <1>0, <1>13 DEF StartPayment, OnServer
  <2>2. OnPage'
    BY <1>0, <1>13 DEF StartPayment, OnPage, lineVars, askingVars
  <2> QED BY <1>3, <1>13, <2>1, <2>2 DEF StartPayment
<1>14. CASE LineBreaks
  <2>1. OnTheWay'
    <3>1. Replies \in Seq(Arrivals) /\ Len(Replies) <= Len(arriving)
      BY <1>0, RepliesTyped DEF OnTheWay
    <3> QED BY <1>0, <1>14, <3>1, AccountAssumption DEF LineBreaks, OnTheWay
  <2>2. OnPage'
    BY <1>0, <1>14 DEF LineBreaks, OnPage, askingVars
  <2> QED BY <1>2, <1>14, <2>1, <2>2 DEF LineBreaks
<1>15. CASE LineNoticed
  <2>1. OnPage'
    BY <1>0, <1>15 DEF LineNoticed, OnPage, askingVars
  <2> QED BY <1>2, <1>3, <1>15, <2>1 DEF LineNoticed
<1>16. CASE LineBack
  <2>1. OnPage'
    BY <1>0, <1>5, <1>16 DEF LineBack, AskAgain, OnPage
  <2> QED BY <1>2, <1>3, <1>16, <2>1 DEF LineBack
<1>17. CASE OverdueAgain
  <2>1. OnPage'
    BY <1>0, <1>5, <1>17 DEF OverdueAgain, AskAgain, OnPage, lineVars
  <2> QED BY <1>2, <1>3, <1>17, <2>1 DEF OverdueAgain
<1>18. CASE PollEnds
  <2>1. OnPage'
    <3>1. asking' \in 0..MaxAsks
      BY <1>0, <1>5, <1>18 DEF PollEnds, AskAgain, OnPage
    <3> QED BY <1>0, <1>18, <3>1 DEF PollEnds, OnPage, lineVars
  <2> QED BY <1>2, <1>3, <1>18, <2>1 DEF PollEnds
<1>19. CASE MeExec
  <2>1. Shown(cookie).has \in Nat
    BY <1>5 DEF Shown, Nobody
  <2>2. OnTheWay'
    BY <1>0, <1>3, <1>5, <1>19, <2>1, ArrivesTyped DEF MeExec, Kinds
  <2>3. OnPage'
    BY <1>0, <1>5, <1>19 DEF MeExec, OnPage, lineVars
  <2> QED BY <1>2, <1>19, <2>2, <2>3 DEF MeExec
<1>20. CASE ListExec
  <2>1. OnTheWay'
    BY <1>0, <1>3, <1>5, <1>20, ArrivesTyped DEF ListExec, Kinds
  <2>2. OnPage'
    BY <1>0, <1>20 DEF ListExec, OnPage, lineVars
  <2> QED BY <1>2, <1>20, <2>1, <2>2 DEF ListExec
<1>21. ASSUME NEW i \in DOMAIN arriving, PageHears(i) PROVE OnServer' /\ OnTheWay' /\ OnPage'
  <2>1. arriving \in Seq(Arrivals) /\ i \in 1..Len(arriving) /\ arriving[i] \in Arrivals
    BY <1>0 DEF OnTheWay
  <2>2. OnTheWay'
    <3>1. RemoveAt(arriving, i) \in Seq(Arrivals) /\ Len(RemoveAt(arriving, i)) <= Len(arriving)
      <4> DEFINE before == SubSeq(arriving, 1, i - 1)
                 after == SubSeq(arriving, i + 1, Len(arriving))
      <4>1. before \in Seq(Arrivals) /\ Len(before) = i - 1
        BY <2>1
      <4>2. after \in Seq(Arrivals) /\ Len(after) = Len(arriving) - i
        BY <2>1
      <4> HIDE DEF before, after
      <4>3. before \o after \in Seq(Arrivals) /\ Len(before \o after) = Len(before) + Len(after)
        BY <4>1, <4>2
      <4>4. RemoveAt(arriving, i) = before \o after
        BY DEF RemoveAt, before, after
      <4> QED BY <2>1, <4>1, <4>2, <4>3, <4>4
    <3> QED BY <1>0, <1>21, <3>1, AccountAssumption DEF PageHears, OnTheWay
  <2>3. user' \in Users /\ listing' \in BOOLEAN /\ listed' \in BOOLEAN
    BY <1>0, <1>21, <2>1, TakesUpTyped DEF PageHears
  <2>4. OnPage'
    BY <1>0, <1>21, <2>3 DEF PageHears, OnPage, lineVars
  <2> QED BY <1>2, <1>21, <2>2, <2>4 DEF PageHears
<1> QED
  BY <1>6, <1>7, <1>8, <1>9, <1>10, <1>11, <1>12, <1>13, <1>14, <1>15, <1>16, <1>17, <1>18, <1>19,
     <1>20, <1>21 DEF AccountNext

\* It starts with whoever the cookie names, and nothing on its way.
LEMMA AccountStarts == AccountInit => AccountTypeOK
<1> SUFFICES ASSUME AccountInit PROVE AccountTypeOK
  OBVIOUS
<1>1. /\ MaxChanges \in Nat /\ MaxAsks \in Nat \ {0} /\ MaxArriving \in Nat
      /\ 0 \in 0..MaxChanges /\ 1 \in 0..MaxAsks
  BY AccountAssumption
<1>2. OnServer
  BY <1>1 DEF AccountInit, OnServer
<1>3. OnTheWay
  BY <1>1 DEF AccountInit, OnTheWay
<1>4. OnPage
  BY <1>1 DEF AccountInit, OnPage, Users
<1> QED BY <1>2, <1>3, <1>4, AccountTypeIs

-----------------------------------------------------------------------------
(* All parts *)

\* What a step of the whole is to each part: a step of its own, or none.
LEMMA PartsMove ==
  ASSUME [Next]_partsVars
  PROVE  /\ [GuardNext]_guardVars /\ [SolvencyNext]_solvencyVars /\ [EdgeNext]_edgeVars
         /\ [RigNext]_rigVars /\ [TicketNext]_ticketVars /\ [ChainNext]_chainVars
         /\ [SandboxNext]_sandboxVars /\ [ShadowNext]_shadowVars /\ [FeedNext]_feedVars
         /\ [ViewNext]_panelVars /\ [AccountNext]_accountVars /\ [ReplayNext]_replayVars
         /\ ConformNext \/ UNCHANGED conformVars
         /\ [AdaptersNext]_adapterVars /\ [ShellNext]_shellVars /\ [PassNext]_passVars
<1>1. ConformNext => [EdgeNext]_edgeVars
  BY DEF ConformNext, AskConform, ConfigAnswers, QuoteAnswers, AnalysisAnswers, FairnessAnswers,
         RouteAnswers, AnyReadFails, Reports
<1>2. CASE UNCHANGED partsVars
  BY <1>2 DEF partsVars
<1>3. CASE Next
  BY <1>1, <1>3 DEF Next, Rest
<1> QED BY <1>2, <1>3

\* With what each part keeps, the types of its variables.
PartsInv ==
    /\ GuardTypeOK /\ SolvencyTypeOK /\ EdgeTypeOK /\ ConformTypeOK
    /\ RigInv /\ TicketTyped /\ ChainInv /\ AdaptersInv /\ CallTyped
    /\ SandboxTyped /\ ReplayTyped /\ ShadowTyped /\ FeedTyped
    /\ ViewTyped /\ AccountTypeOK /\ ShellTyped /\ PassTypeOK

\* All of it holds at the start, whichever part will move.
LEMMA PartsStart ==
  ASSUME PathsWhole, Init
  PROVE  PartsInv
<1>1. /\ GuardInit /\ RigInit /\ ShadowInit /\ ViewInit /\ ShellInit /\ SolvencyInit /\ EdgeInit
      /\ ConformInit /\ AdaptersInit /\ ChainInit /\ SandboxInit /\ FeedInit /\ AccountInit
      /\ ReplayInit /\ TicketInit /\ PassInit
  BY DEF Init
<1>2. GuardTypeOK /\ SolvencyTypeOK /\ EdgeTypeOK /\ ConformTypeOK
  BY <1>1, GuardStarts, SolvencyStarts, EdgeStarts, ConformBegins
<1>3. RigInv /\ TicketTyped /\ ChainInv /\ AdaptersInv /\ CallTyped
  BY <1>1, RigStarts, TicketStarts, ChainInvInit, AdaptersStart, CallStarts
<1>4. SandboxTyped /\ ReplayTyped /\ ShadowTyped /\ FeedTyped
  BY <1>1, SandboxTypeStarts, ReplayTypeStarts, ShadowStarts, FeedTypeStarts
<1>5. ViewTyped /\ AccountTypeOK /\ ShellTyped /\ PassTypeOK
  BY <1>1, ViewStarts, AccountStarts, ShellStarts, PassStarts
<1> QED BY <1>2, <1>3, <1>4, <1>5 DEF PartsInv

\* And in every step, the other parts staying as they are.
LEMMA PartsStep ==
  ASSUME PathsWhole, CallTicks <= 1, PaperEdge <= 2000, ReplayPriced, FineSteps,
         PartsInv, [Next]_partsVars
  PROVE  PartsInv'
<1>1. /\ [GuardNext]_guardVars /\ [SolvencyNext]_solvencyVars /\ [EdgeNext]_edgeVars
      /\ [RigNext]_rigVars /\ [TicketNext]_ticketVars /\ [ChainNext]_chainVars
      /\ [SandboxNext]_sandboxVars /\ [ShadowNext]_shadowVars /\ [FeedNext]_feedVars
      /\ [ViewNext]_panelVars /\ [AccountNext]_accountVars /\ [ReplayNext]_replayVars
      /\ ConformNext \/ UNCHANGED conformVars
      /\ [AdaptersNext]_adapterVars /\ [ShellNext]_shellVars /\ [PassNext]_passVars
  BY PartsMove
<1>2. GuardTypeOK' /\ SolvencyTypeOK' /\ EdgeTypeOK' /\ ConformTypeOK'
  BY <1>1, GuardTyped, SolvencyTyped, EdgeTyped, ConformTyped DEF PartsInv
<1>3. RigInv' /\ TicketTyped' /\ ChainInv' /\ AdaptersInv' /\ CallTyped'
  BY <1>1, RigStep, TicketStepTyped, ChainInvNext, AdaptersStep, CallStepTyped DEF PartsInv
<1>4. SandboxTyped' /\ ReplayTyped' /\ ShadowTyped' /\ FeedTyped'
  BY <1>1, SandboxStepTyped, ReplayStepTyped, ShadowStepTyped, FeedStepTyped DEF PartsInv
<1>5. ViewTyped' /\ AccountTypeOK' /\ ShellTyped' /\ PassTypeOK'
  BY <1>1, ViewStepTyped, AccountTyped, ShellStepTyped, PassStepTyped DEF PartsInv
<1> QED BY <1>2, <1>3, <1>4, <1>5 DEF PartsInv

\* So each part is of its type.
LEMMA PartsTyped ==
  ASSUME PathsWhole, PartsInv
  PROVE  TypeOK
<1>1. GuardTypeOK /\ SolvencyTypeOK /\ EdgeTypeOK /\ ConformTypeOK /\ AccountTypeOK /\ PassTypeOK
  BY DEF PartsInv
<1>2. RigTypeOK /\ ChainTypeOK
  BY DEF PartsInv, RigInv, ChainInv
<1>3. TicketTypeOK /\ AdaptersTypeOK /\ ShadowTypeOK /\ FeedTypeOK /\ ViewTypeOK /\ ShellTypeOK
  BY TicketTypedMeans, AdaptersTypedMeans, ShadowTypedMeans, FeedTypedMeans, ViewTypedMeans,
     ShellTypedMeans DEF PartsInv
<1>4. SandboxTypeOK /\ ReplayTypeOK
  BY SandboxTypedMeans, ReplayTypedMeans DEF PartsInv
<1> QED BY <1>1, <1>2, <1>3, <1>4 DEF TypeOK

\* The type invariant of all parts, for any values of their constants: whatever the services,
\* the page and the sandbox do, what each keeps is of the shape the code gives it.  Of the
\* sandbox that says that no position takes more than its stake, so that no balance is
\* overdrawn, and of the display of the book that what is at risk is what the open positions
\* may pay.
THEOREM TypesHold ==
  ASSUME PathsWhole, CallTicks <= 1, PaperEdge <= 2000, ReplayPriced, FineSteps
  PROVE  Spec => []TypeOK
<1>1. Init => PartsInv
  BY PartsStart
<1>2. PartsInv /\ [Next]_partsVars => PartsInv'
  BY PartsStep
<1>3. PartsInv => TypeOK
  BY PartsTyped
<1> QED BY <1>1, <1>2, <1>3, PTL DEF Spec
=============================================================================
