----------------------------- MODULE ScreenProofs -----------------------------
(***************************************************************************)
(* Proofs about the open positions that the trader's browser shows: for any     *)
(* number of positions, legs, requests in progress and faults, a settlement is   *)
(* told once and only after it happened, and a position is listed twice at most.  *)
(***************************************************************************)
EXTENDS TraderScreen, SequenceTheorems, TLAPS
LOCAL INSTANCE SequencesExt

-----------------------------------------------------------------------------
(* What is in a sequence *)

\* A sequence holds what its places hold.
LEMMA HeldAt ==
    ASSUME NEW S, NEW q \in Seq(S), NEW n, Len(q) = n
    PROVE  ToSet(q) = {q[i] : i \in 1..n}
BY DEF ToSet

\* What is appended is added.
LEMMA HeldOfAppend ==
    ASSUME NEW S, NEW q \in Seq(S), NEW m \in S
    PROVE  ToSet(Append(q, m)) = ToSet(q) \cup {m}
<1>0. PICK r, n : r = Append(q, m) /\ n = Len(q)
    OBVIOUS
<1>1. /\ r \in Seq(S) /\ n \in Nat /\ Len(r) = n + 1
      /\ \A i \in 1..n : r[i] = q[i]
      /\ r[n + 1] = m
    BY <1>0, AppendProperties, LenProperties
<1>2. ToSet(r) = {r[i] : i \in 1..(n + 1)}
    BY <1>1, HeldAt
<1>3. ToSet(q) = {q[i] : i \in 1..n}
    BY <1>0, HeldAt
<1>4. ASSUME NEW x
      PROVE  x \in ToSet(r) <=> x \in ToSet(q) \/ x = m
    BY <1>1, <1>2, <1>3
<1> QED
    BY <1>0, <1>4

\* Taking the first leaves nothing new.
LEMMA HeldOfTail ==
    ASSUME NEW S, NEW q \in Seq(S), q # <<>>
    PROVE  /\ Tail(q) \in Seq(S) /\ Head(q) \in ToSet(q) /\ Head(q) = q[1] /\ 1 \in 1..Len(q)
           /\ ToSet(Tail(q)) \subseteq ToSet(q)
<1>0. PICK r, n : r = Tail(q) /\ n = Len(q)
    OBVIOUS
<1>1. /\ r \in Seq(S) /\ Len(r) = n - 1 /\ n \in Nat \ {0}
      /\ \A i \in 1..(n - 1) : r[i] = q[i + 1]
    BY <1>0, HeadTailProperties, EmptySeq, LenProperties
<1>2. Head(q) = q[1] /\ 1 \in 1..n
    BY <1>1
<1>3. ToSet(r) = {r[i] : i \in 1..(n - 1)}
    BY <1>1, HeldAt
<1>4. ToSet(q) = {q[i] : i \in 1..n}
    BY <1>0, HeldAt
<1>5. ToSet(r) \subseteq ToSet(q)
    <2> SUFFICES ASSUME NEW i \in 1..(n - 1)
                 PROVE  r[i] \in ToSet(q)
        BY <1>3
    <2>1. i + 1 \in 1..n /\ r[i] = q[i + 1]
        BY <1>1
    <2> QED
        BY <1>4, <2>1
<1>6. Head(q) \in ToSet(q)
    BY <1>2, <1>4
<1> QED
    BY <1>0, <1>1, <1>2, <1>5, <1>6

\* Nor does taking one out.
LEMMA HeldOfRemoveAt ==
    ASSUME NEW S, NEW q \in Seq(S), NEW i \in 1..Len(q)
    PROVE  RemoveAt(q, i) \in Seq(S) /\ ToSet(RemoveAt(q, i)) \subseteq ToSet(q)
<1>1. PICK n \in Nat : n = Len(q)
    BY LenProperties
<1>2. i \in 1..n
    BY <1>1
<1>3. PICK before, after : /\ n = Len(q)
                           /\ before = SubSeq(q, 1, i - 1) /\ after = SubSeq(q, i + 1, n)
    BY <1>1
<1>4. \A j \in 1..n : q[j] \in S
    BY <1>3, ElementOfSeq
<1>5. /\ before \in Seq(S) /\ Len(before) = i - 1
      /\ \A j \in 1..(i - 1) : before[j] = q[j]
    <2>1. 1 \in Int /\ i - 1 \in Int /\ \A j \in 1..(i - 1) : q[j] \in S
        BY <1>4, <1>2
    <2>2. /\ before \in Seq(S)
          /\ Len(before) = IF 1 <= i - 1 THEN (i - 1) - 1 + 1 ELSE 0
          /\ \A j \in 1..((i - 1) - 1 + 1) : before[j] = q[1 + j - 1]
        BY <1>3, <2>1, SubSeqProperties
    <2>3. ASSUME NEW j \in 1..(i - 1)
          PROVE  before[j] = q[j]
        <3>1. j \in 1..((i - 1) - 1 + 1) /\ 1 + j - 1 = j
            BY <1>2
        <3> QED
            BY <2>2, <3>1
    <2> QED
        BY <2>2, <2>3
<1>6. /\ after \in Seq(S) /\ Len(after) = n - i
      /\ \A j \in 1..(n - i) : after[j] = q[i + j]
    <2>1. i + 1 \in Int /\ n \in Int /\ \A j \in (i + 1)..n : q[j] \in S
        BY <1>4, <1>2
    <2>2. /\ after \in Seq(S)
          /\ Len(after) = IF i + 1 <= n THEN n - (i + 1) + 1 ELSE 0
          /\ \A j \in 1..(n - (i + 1) + 1) : after[j] = q[i + 1 + j - 1]
        BY <1>3, <2>1, SubSeqProperties
    <2>3. ASSUME NEW j \in 1..(n - i)
          PROVE  after[j] = q[i + j]
        <3>1. j \in 1..(n - (i + 1) + 1) /\ i + 1 + j - 1 = i + j
            BY <1>2
        <3> QED
            BY <2>2, <3>1
    <2> QED
        BY <1>2, <2>2, <2>3
<1>7. PICK r : r = before \o after
    OBVIOUS
<1>8. /\ r \in Seq(S) /\ Len(r) = n - 1
      /\ \A j \in 1..(n - 1) : r[j] = IF j <= i - 1 THEN before[j] ELSE after[j - (i - 1)]
    <2>1. (i - 1) + (n - i) = n - 1
        BY <1>2
    <2>2. /\ r \in Seq(S) /\ Len(r) = Len(before) + Len(after)
          /\ \A j \in 1..(Len(before) + Len(after)) :
                r[j] = IF j <= Len(before) THEN before[j] ELSE after[j - Len(before)]
        BY <1>5, <1>6, <1>7, ConcatProperties
    <2> QED
        BY <1>5, <1>6, <1>2, <2>1, <2>2
<1>9. RemoveAt(q, i) = r
    BY <1>3, <1>7 DEF RemoveAt
<1>10. ToSet(r) = {r[j] : j \in 1..(n - 1)}
    BY <1>8, HeldAt
<1>11. ToSet(q) = {q[j] : j \in 1..n}
    BY <1>3, HeldAt
<1>12. ASSUME NEW j \in 1..(n - 1)
      PROVE  r[j] \in ToSet(q)
    <2>1. CASE j <= i - 1
        <3>1. r[j] = q[j] /\ j \in 1..n
            BY <1>5, <1>8, <1>2, <2>1
        <3> QED
            BY <1>11, <3>1
    <2>2. CASE ~(j <= i - 1)
        <3>1. j - (i - 1) \in 1..(n - i) /\ i + (j - (i - 1)) = j + 1 /\ j + 1 \in 1..n
            BY <1>2, <2>2
        <3>2. r[j] = q[j + 1]
            BY <1>6, <1>8, <2>2, <3>1
        <3> QED
            BY <1>11, <3>1, <3>2
    <2> QED
        BY <2>1, <2>2
<1> QED
    BY <1>8, <1>9, <1>10, <1>12

\* Putting one in the place of another adds only that one.
LEMMA HeldOfExcept ==
    ASSUME NEW S, NEW q \in Seq(S), NEW i \in 1..Len(q), NEW m \in S
    PROVE  /\ [q EXCEPT ![i] = m] \in Seq(S)
           /\ ToSet([q EXCEPT ![i] = m]) \subseteq ToSet(q) \cup {m}
<1>0. PICK r, n : r = [q EXCEPT ![i] = m] /\ n = Len(q)
    OBVIOUS
<1>1. /\ r \in Seq(S) /\ Len(r) = n
      /\ \A j \in 1..n : r[j] = IF j = i THEN m ELSE q[j]
    BY <1>0, ExceptSeq
<1>2. ToSet(r) = {r[j] : j \in 1..n}
    BY <1>1, HeldAt
<1>3. ToSet(q) = {q[j] : j \in 1..n}
    BY <1>0, HeldAt
<1>4. ToSet(r) \subseteq ToSet(q) \cup {m}
    BY <1>1, <1>2, <1>3
<1> QED
    BY <1>0, <1>1, <1>4

-----------------------------------------------------------------------------
(* The invariant *)

\* Announced once: a toast and a mark go together, and only for what has settled.
Told ==
    \A t \in Trades : /\ told[t] = IF t \in announced THEN 1 ELSE 0
                      /\ t \in announced \cup settled => status[t] = "SETTLED"

\* What the page shows exists.  A position placed by hand is opened by its placement and
\* listed by its reply; before that only a list can have shown it.
Placed ==
    \A t \in Trades :
        /\ place[t] # "idle" => t \notin Legs
        /\ t \notin Legs /\ place[t] \in {"idle", "sent"} => status[t] = "NONE"
        /\ place[t] = "opened" => status[t] # "NONE"
        /\ t \notin Legs /\ place[t] # "done" => shown[t] <= 1
        /\ t \in mirror \/ shown[t] > 0 => status[t] # "NONE"

\* A message tells what is so; a leg whose message is on its way has been listed by a list
\* only.
MessageTrue(m) ==
    /\ m.kind = "settled" => status[m.trade] = "SETTLED"
    /\ m.kind = "leg" => m.trade \in Legs /\ status[m.trade] # "NONE" /\ shown[m.trade] <= 1

\* Each leg is sent once.
OncePerLeg(q) == \A i, j \in 1..Len(q) : q[i] = q[j] /\ q[i].kind = "leg" => i = j

InboxTrue == OncePerLeg(inbox) /\ \A m \in ToSet(inbox) : MessageTrue(m)

\* A list holds positions that were open when it was read, and a result is of one that has
\* settled: asked about is only what has been shown.
LoadTrue(l) ==
    /\ l.stage \in {"listed", "asking"} => \A t \in l.trades : status[t] # "NONE"
    /\ l.stage = "resolved" => \A t \in l.trades : status[t] = "SETTLED"

LoadsTrue == \A l \in ToSet(loads) : LoadTrue(l)

ScreenInv == ScreenTypeOK /\ Told /\ Placed /\ InboxTrue /\ LoadsTrue

\* A position opens and settles, and never the other way.
Grows ==
    \A t \in Trades : /\ status[t] # "NONE" => status'[t] # "NONE"
                      /\ status[t] = "SETTLED" => status'[t] = "SETTLED"

-----------------------------------------------------------------------------
(* Messages and requests *)

\* Only messages are on their way, and only requests in progress.
LEMMA HeldTyped ==
    ASSUME ScreenTypeOK
    PROVE  /\ ToSet(inbox) \subseteq Messages /\ ToSet(loads) \subseteq LoadCalls
           /\ \A i \in 1..Len(loads) : loads[i] \in ToSet(loads)
<1>1. inbox \in Seq(Messages) /\ loads \in Seq(LoadCalls)
    BY DEF ScreenTypeOK
<1>2. ToSet(inbox) = {inbox[i] : i \in 1..Len(inbox)} /\ ToSet(loads) = {loads[i] : i \in 1..Len(loads)}
    BY <1>1, HeldAt
<1>3. /\ \A i \in 1..Len(inbox) : inbox[i] \in Messages
      /\ \A i \in 1..Len(loads) : loads[i] \in LoadCalls
    BY <1>1, ElementOfSeq
<1> QED
    BY <1>2, <1>3

\* A leg that is not on its way may be sent.
LEMMA OnceWhenSent ==
    ASSUME NEW q \in Seq(Messages), NEW m \in Messages, OncePerLeg(q), m.kind = "leg" => m \notin ToSet(q)
    PROVE  OncePerLeg(Append(q, m))
<1>1. PICK r, n : r = Append(q, m) /\ n = Len(q)
    OBVIOUS
<1>2. /\ n \in Nat /\ Len(r) = n + 1
      /\ \A i \in 1..n : r[i] = q[i]
      /\ r[n + 1] = m
    BY <1>1, AppendProperties, LenProperties
<1>3. ToSet(q) = {q[i] : i \in 1..n}
    BY <1>1, HeldAt
<1>4. ASSUME NEW i \in 1..(n + 1), NEW j \in 1..(n + 1), r[i] = r[j], r[i].kind = "leg"
      PROVE  i = j
    <2>1. CASE i \in 1..n /\ j \in 1..n
        BY <1>1, <1>2, <1>4, <2>1 DEF OncePerLeg
    <2>2. CASE i \in 1..n /\ j = n + 1
        BY <1>2, <1>3, <1>4, <2>2
    <2>3. CASE i = n + 1 /\ j \in 1..n
        BY <1>2, <1>3, <1>4, <2>3
    <2> QED
        BY <1>2, <2>1, <2>2, <2>3
<1>5. OncePerLeg(r)
    BY <1>2, <1>4 DEF OncePerLeg
<1> QED
    BY <1>1, <1>5

\* A leg that is read is not on its way any more.
LEMMA OnceWhenRead ==
    ASSUME NEW q \in Seq(Messages), q # <<>>, OncePerLeg(q)
    PROVE  /\ OncePerLeg(Tail(q))
           /\ Head(q).kind = "leg" => Head(q) \notin ToSet(Tail(q))
<1>1. PICK r, n : r = Tail(q) /\ n = Len(q)
    OBVIOUS
<1>2. /\ r \in Seq(Messages) /\ Len(r) = n - 1 /\ n \in Nat \ {0}
      /\ \A i \in 1..(n - 1) : r[i] = q[i + 1]
    BY <1>1, HeadTailProperties, EmptySeq, LenProperties
<1>3. Head(q) = q[1]
    BY <1>1, <1>2
<1>4. ToSet(r) = {r[i] : i \in 1..(n - 1)}
    BY <1>2, HeldAt
<1>5. ASSUME NEW i \in 1..(n - 1), NEW j \in 1..(n - 1), r[i] = r[j], r[i].kind = "leg"
      PROVE  i = j
    <2>1. i + 1 \in 1..n /\ j + 1 \in 1..n /\ q[i + 1] = q[j + 1] /\ q[i + 1].kind = "leg"
        BY <1>2, <1>5
    <2>2. i + 1 = j + 1
        BY <1>1, <2>1 DEF OncePerLeg
    <2> QED
        BY <2>2
<1>6. ASSUME NEW i \in 1..(n - 1), q[1].kind = "leg"
      PROVE  r[i] # q[1]
    <2>1. i + 1 \in 1..n /\ 1 \in 1..n /\ r[i] = q[i + 1] /\ i + 1 # 1
        BY <1>2
    <2> QED
        BY <1>1, <1>6, <2>1 DEF OncePerLeg
<1>7. OncePerLeg(r)
    BY <1>2, <1>5 DEF OncePerLeg
<1> QED
    BY <1>1, <1>3, <1>4, <1>6, <1>7

\* toUser: the message is on its way, or nobody hears it.
LEMMA Sent ==
    ASSUME ScreenTypeOK, NEW m \in Messages, ToUser(m), OncePerLeg(inbox),
           m.kind = "leg" => m \notin ToSet(inbox)
    PROVE  /\ inbox' \in Seq(Messages) /\ OncePerLeg(inbox')
           /\ ToSet(inbox') \subseteq ToSet(inbox) \cup {m}
<1>1. inbox \in Seq(Messages)
    BY DEF ScreenTypeOK
<1>2. CASE inbox' = Append(inbox, m)
    BY <1>1, <1>2, HeldOfAppend, AppendProperties, OnceWhenSent
<1>3. CASE inbox' = inbox
    BY <1>1, <1>3
<1> QED
    BY <1>2, <1>3 DEF ToUser

\* What was true of a position stays true.
LEMMA LoadsStayTrue ==
    ASSUME ScreenTypeOK, LoadsTrue, Grows, NEW l, LoadTrue(l)',
           ToSet(loads)' \subseteq ToSet(loads) \cup {l}
    PROVE  LoadsTrue'
<1>1. ASSUME NEW k \in ToSet(loads)
      PROVE  LoadTrue(k)'
    <2>1. k \in LoadCalls /\ LoadTrue(k)
        BY HeldTyped DEF LoadsTrue
    <2> QED
        BY <2>1 DEF LoadTrue, Grows, LoadCalls
<1> QED
    BY <1>1 DEF LoadsTrue

\* So do messages, unless a list shows a leg twice.
LEMMA MessagesStayTrue ==
    ASSUME ScreenTypeOK, Grows, NEW m \in Messages, MessageTrue(m),
           m.kind = "leg" => shown'[m.trade] <= 1
    PROVE  MessageTrue(m)'
BY DEF MessageTrue, Grows, Messages

-----------------------------------------------------------------------------
(* Every step keeps the invariant *)

\* Where no position, message or request changes, what is said of them does not.
LEMMA NothingSaid ==
    ASSUME ScreenInv, UNCHANGED <<status, shown, inbox, loads>>
    PROVE  InboxTrue' /\ LoadsTrue'
BY DEF ScreenInv, InboxTrue, LoadsTrue, MessageTrue, LoadTrue, OncePerLeg

\* Where requests stay and positions only grow, requests stay true.
LEMMA NothingAsked ==
    ASSUME ScreenInv, Grows, UNCHANGED loads
    PROVE  LoadsTrue'
<1>1. ASSUME NEW l \in ToSet(loads)
      PROVE  LoadTrue(l)'
    <2>1. l \in LoadCalls /\ LoadTrue(l)
        BY HeldTyped DEF ScreenInv, LoadsTrue
    <2> QED
        BY <2>1 DEF LoadTrue, Grows, LoadCalls
<1> QED
    BY <1>1 DEF LoadsTrue

\* Where messages stay, positions only grow and no leg is listed again, messages stay true.
LEMMA NothingSent ==
    ASSUME ScreenInv, Grows, UNCHANGED inbox,
           \A m \in ToSet(inbox) : m.kind = "leg" => shown'[m.trade] <= 1
    PROVE  InboxTrue'
<1>1. ASSUME NEW m \in ToSet(inbox)
      PROVE  MessageTrue(m)'
    <2>1. m \in Messages /\ MessageTrue(m)
        BY HeldTyped DEF ScreenInv, InboxTrue
    <2> QED
        BY <2>1, MessagesStayTrue DEF ScreenInv
<1> QED
    BY <1>1 DEF ScreenInv, InboxTrue, OncePerLeg

\* A leg opens: its message is the first of it.
LEMMA LegOpensKeeps ==
    ASSUME ScreenInv, NEW t \in Trades, LegOpens(t)
    PROVE  ScreenInv'
<1> PICK m : m = [kind |-> "leg", trade |-> t]
    OBVIOUS
<1>1. t \in Legs /\ status[t] = "NONE" /\ status' = [status EXCEPT ![t] = "OPEN"] /\ ToUser(m)
    BY DEF LegOpens
<1>2. UNCHANGED <<overdue, settled, socket, place, shown, mirror, announced, told, reload, refresh,
                  loads, faults>>
    BY DEF LegOpens, screenVars, askVars
<1>3. ScreenTypeOK
    BY DEF ScreenInv
<1>4. Grows
    BY <1>1, <1>3 DEF Grows, ScreenTypeOK
<1>5. m \in Messages /\ m.kind = "leg" /\ m.trade = t
    BY DEF Messages
<1>6. m \notin ToSet(inbox)
    BY <1>1, <1>5 DEF ScreenInv, InboxTrue, MessageTrue
<1>7. /\ inbox' \in Seq(Messages) /\ OncePerLeg(inbox') /\ ToSet(inbox') \subseteq ToSet(inbox) \cup {m}
    BY <1>1, <1>3, <1>5, <1>6, Sent DEF ScreenInv, InboxTrue
<1>8. ~(shown[t] > 0) /\ shown[t] \in 0..2
    BY <1>1, <1>3 DEF ScreenInv, Placed, ScreenTypeOK
<1>9. MessageTrue(m)'
    BY <1>1, <1>2, <1>3, <1>5, <1>8 DEF MessageTrue, ScreenTypeOK
<1>10. ASSUME NEW n \in ToSet(inbox)
       PROVE  MessageTrue(n)'
    <2>1. n \in Messages /\ MessageTrue(n)
        BY <1>3, HeldTyped DEF ScreenInv, InboxTrue
    <2>2. n.kind = "leg" => shown'[n.trade] <= 1
        BY <1>2, <2>1 DEF MessageTrue
    <2> QED
        BY <1>3, <1>4, <2>1, <2>2, MessagesStayTrue
<1>11. InboxTrue'
    BY <1>7, <1>9, <1>10 DEF InboxTrue
<1>12. LoadsTrue'
    BY <1>2, <1>4, NothingAsked
<1>13. ScreenTypeOK'
    BY <1>1, <1>2, <1>3, <1>7 DEF ScreenTypeOK
<1>14. Told' /\ Placed'
    BY <1>1, <1>2, <1>3 DEF ScreenInv, Told, Placed, ScreenTypeOK
<1> QED
    BY <1>11, <1>12, <1>13, <1>14 DEF ScreenInv

\* A position settles, and the client is told.
LEMMA SettlesKeeps ==
    ASSUME ScreenInv, NEW t \in Trades, SettleExec(t) \/ SettleReply(t) \/ Expire(t)
    PROVE  ScreenInv'
<1>1. ScreenTypeOK
    BY DEF ScreenInv
<1>2. CASE SettleExec(t)
    <2>1. status[t] = "OPEN" /\ status' = [status EXCEPT ![t] = "SETTLED"] /\ settled' = settled \cup {t}
        BY <1>2 DEF SettleExec
    <2>2. UNCHANGED <<overdue, socket, inbox, place, shown, mirror, announced, told, reload, refresh,
                      loads, faults>>
        BY <1>2 DEF SettleExec, wireVars, screenVars, askVars
    <2>3. Grows
        BY <1>1, <2>1 DEF Grows, ScreenTypeOK
    <2>4. InboxTrue' /\ LoadsTrue'
        <3>1. \A m \in ToSet(inbox) : m.kind = "leg" => shown'[m.trade] <= 1
            BY <2>2 DEF ScreenInv, InboxTrue, MessageTrue
        <3> QED
            BY <2>2, <2>3, <3>1, NothingAsked, NothingSent
    <2>5. ScreenTypeOK'
        BY <1>1, <2>1, <2>2 DEF ScreenTypeOK
    <2>6. Told' /\ Placed'
        BY <1>1, <2>1, <2>2 DEF ScreenInv, Told, Placed, ScreenTypeOK
    <2> QED
        BY <2>4, <2>5, <2>6 DEF ScreenInv
<1>3. CASE SettleReply(t)
    <2> PICK m : m = [kind |-> "settled", trade |-> t]
        OBVIOUS
    <2>1. t \in settled /\ settled' = settled \ {t} /\ ToUser(m)
        BY <1>3 DEF SettleReply
    <2>2. UNCHANGED <<status, overdue, socket, place, shown, mirror, announced, told, reload, refresh,
                      loads, faults>>
        BY <1>3 DEF SettleReply, screenVars, askVars
    <2>3. m \in Messages /\ m.kind = "settled" /\ m.trade = t
        BY DEF Messages
    <2>4. inbox' \in Seq(Messages) /\ OncePerLeg(inbox') /\ ToSet(inbox') \subseteq ToSet(inbox) \cup {m}
        BY <1>1, <2>1, <2>3, Sent DEF ScreenInv, InboxTrue
    <2>5. MessageTrue(m)
        BY <2>1, <2>3 DEF ScreenInv, Told, MessageTrue
    <2>6. InboxTrue'
        BY <2>2, <2>4, <2>5 DEF ScreenInv, InboxTrue, MessageTrue
    <2>7. LoadsTrue'
        BY <2>2 DEF ScreenInv, LoadsTrue, LoadTrue
    <2>8. ScreenTypeOK'
        BY <1>1, <2>1, <2>2, <2>4 DEF ScreenTypeOK
    <2>9. Told' /\ Placed'
        BY <2>1, <2>2 DEF ScreenInv, Told, Placed
    <2> QED
        BY <2>6, <2>7, <2>8, <2>9 DEF ScreenInv
<1>4. CASE Expire(t)
    <2>1. /\ UNCHANGED <<status, settled, socket, inbox, place, shown, mirror, announced, told, reload,
                         refresh, loads, faults>>
          /\ overdue' = overdue \cup {t}
        BY <1>4 DEF Expire, wireVars, screenVars, askVars
    <2>2. InboxTrue' /\ LoadsTrue'
        BY <2>1, NothingSaid
    <2>3. ScreenTypeOK'
        BY <1>1, <2>1 DEF ScreenTypeOK
    <2>4. Told' /\ Placed'
        BY <2>1 DEF ScreenInv, Told, Placed
    <2> QED
        BY <2>2, <2>3, <2>4 DEF ScreenInv
<1> QED
    BY <1>2, <1>3, <1>4

\* The socket breaks, and comes back.
LEMMA WireKeeps ==
    ASSUME ScreenInv, Break \/ Notice \/ Connect
    PROVE  ScreenInv'
<1>1. /\ UNCHANGED <<status, overdue, settled, place, shown, mirror, announced, told, loads>>
      /\ reload' \in BOOLEAN /\ refresh' \in BOOLEAN /\ faults' \in Nat
      /\ socket' \in {"up", "anonymous", "broken", "down"}
    <2>1. ScreenTypeOK
        BY DEF ScreenInv
    <2>2. CASE Break
        BY <2>1, <2>2 DEF ScreenTypeOK, Break, Fault, serverVars, screenVars, askVars
    <2>3. CASE Notice
        BY <2>1, <2>3 DEF ScreenTypeOK, Notice, serverVars, screenVars, askVars
    <2>4. CASE Connect
        BY <2>1, <2>4 DEF ScreenTypeOK, Connect, serverVars, screenVars
    <2> QED
        BY <2>2, <2>3, <2>4
<1>2. inbox' = inbox \/ inbox' = <<>>
    BY DEF Break, Notice, Connect
<1>3. inbox' \in Seq(Messages) /\ InboxTrue'
    <2>1. CASE inbox' = inbox
        BY <1>1, <2>1, NothingSaid DEF ScreenInv, ScreenTypeOK
    <2>2. CASE inbox' = <<>>
        <3>1. <<>> \in Seq(Messages) /\ Len(<<>>) = 0
            OBVIOUS
        <3>2. OncePerLeg(<<>>) /\ ToSet(<<>>) = {}
            BY <3>1 DEF OncePerLeg, ToSet
        <3> QED
            BY <2>2, <3>1, <3>2 DEF InboxTrue
    <2> QED
        BY <1>2, <2>1, <2>2
<1>4. LoadsTrue'
    BY <1>1 DEF ScreenInv, LoadsTrue, LoadTrue
<1>5. ScreenTypeOK'
    BY <1>1, <1>3 DEF ScreenInv, ScreenTypeOK
<1>6. Told' /\ Placed'
    BY <1>1 DEF ScreenInv, Told, Placed
<1> QED
    BY <1>3, <1>4, <1>5, <1>6 DEF ScreenInv

\* A placement: the position is opened, or is not, and its reply lists it.
LEMMA PlacingKeeps ==
    ASSUME ScreenInv, NEW t \in Trades, Submit(t) \/ PlaceExec(t) \/ PlaceFails(t) \/ PlaceReply(t)
    PROVE  ScreenInv'
<1>1. ScreenTypeOK
    BY DEF ScreenInv
<1>2. CASE Submit(t) \/ PlaceFails(t)
    <2>1. /\ UNCHANGED <<status, overdue, settled, socket, inbox, shown, mirror, announced, told,
                         reload, refresh, loads>>
          /\ faults' \in Nat
        BY <1>1, <1>2 DEF Submit, PlaceFails, Fault, ScreenTypeOK, serverVars, wireVars, screenVars, askVars
    <2>2. \/ place' = [place EXCEPT ![t] = "sent"] /\ t \notin Legs /\ place[t] = "idle"
          \/ place' = [place EXCEPT ![t] = "done"] /\ place[t] \in {"sent", "opened"}
        BY <1>2 DEF Submit, PlaceFails
    <2>3. InboxTrue' /\ LoadsTrue'
        BY <2>1, NothingSaid
    <2>4. ScreenTypeOK'
        BY <1>1, <2>1, <2>2 DEF ScreenTypeOK
    <2>5. Told' /\ Placed'
        BY <1>1, <2>1, <2>2 DEF ScreenInv, Told, Placed, ScreenTypeOK
    <2> QED
        BY <2>3, <2>4, <2>5 DEF ScreenInv
<1>3. CASE PlaceExec(t)
    <2>1. /\ place[t] = "sent" /\ place' = [place EXCEPT ![t] = "opened"]
          /\ status' = [status EXCEPT ![t] = "OPEN"]
        BY <1>3 DEF PlaceExec
    <2>2. UNCHANGED <<overdue, settled, socket, inbox, shown, mirror, announced, told, reload, refresh,
                      loads, faults>>
        BY <1>3 DEF PlaceExec, wireVars, screenVars, askVars
    <2>3. status[t] = "NONE" /\ t \notin Legs
        BY <2>1 DEF ScreenInv, Placed
    <2>4. Grows
        BY <1>1, <2>1, <2>3 DEF Grows, ScreenTypeOK
    <2>5. InboxTrue' /\ LoadsTrue'
        <3>1. \A m \in ToSet(inbox) : m.kind = "leg" => shown'[m.trade] <= 1
            BY <2>2 DEF ScreenInv, InboxTrue, MessageTrue
        <3> QED
            BY <2>2, <2>4, <3>1, NothingAsked, NothingSent
    <2>6. ScreenTypeOK'
        BY <1>1, <2>1, <2>2 DEF ScreenTypeOK
    <2>7. Told' /\ Placed'
        BY <1>1, <2>1, <2>2, <2>3 DEF ScreenInv, Told, Placed, ScreenTypeOK
    <2> QED
        BY <2>5, <2>6, <2>7 DEF ScreenInv
<1>4. CASE PlaceReply(t)
    <2>1. /\ place[t] = "opened" /\ place' = [place EXCEPT ![t] = "done"]
          /\ shown' = [shown EXCEPT ![t] = shown[t] + 1] /\ reload' = TRUE
        BY <1>1, <1>4 DEF PlaceReply, Show, ScreenTypeOK
    <2>2. UNCHANGED <<status, overdue, settled, socket, inbox, mirror, announced, told, refresh, loads,
                      faults>>
        BY <1>4 DEF PlaceReply, serverVars, wireVars
    <2>3. t \notin Legs /\ shown[t] <= 1 /\ status[t] # "NONE"
        BY <2>1 DEF ScreenInv, Placed
    <2>4. Grows
        BY <2>2 DEF Grows
    <2>5. InboxTrue' /\ LoadsTrue'
        <3>1. \A m \in ToSet(inbox) : m.kind = "leg" => shown'[m.trade] <= 1
            BY <1>1, <2>1, <2>3, HeldTyped DEF ScreenInv, InboxTrue, MessageTrue, ScreenTypeOK, Messages
        <3> QED
            BY <2>2, <2>4, <3>1, NothingAsked, NothingSent
    <2>6. ScreenTypeOK'
        <3>1. shown[t] + 1 \in 0..2
            <4>1. shown[t] \in 0..2
                BY <1>1 DEF ScreenTypeOK
            <4> QED
                BY <2>3, <4>1
        <3>2. shown' \in [Trades -> 0..2] /\ place' \in [Trades -> {"idle", "sent", "opened", "done"}]
            BY <1>1, <2>1, <3>1 DEF ScreenTypeOK
        <3>3. reload' \in BOOLEAN
            BY <2>1
        <3> QED
            BY <1>1, <2>2, <3>2, <3>3 DEF ScreenTypeOK
    <2>7. Told' /\ Placed'
        BY <1>1, <2>1, <2>2, <2>3 DEF ScreenInv, Told, Placed, ScreenTypeOK
    <2> QED
        BY <2>5, <2>6, <2>7 DEF ScreenInv
<1> QED
    BY <1>2, <1>3, <1>4

\* announceSettled: what is announced is announced from then on, and said if it was not.
LEMMA AnnouncingKeeps ==
    ASSUME ScreenInv, NEW T \in SUBSET Trades, Announce(T), \A t \in T : status[t] = "SETTLED",
           UNCHANGED <<status, settled>>
    PROVE  announced' \subseteq Trades /\ told' \in [Trades -> Nat] /\ Told'
BY DEF Announce, ScreenInv, ScreenTypeOK, Told

\* A message is handled: a leg is listed, for the second time at most; a settlement takes
\* the position off and is announced.
LEMMA DeliverKeeps == ScreenInv /\ Deliver => ScreenInv'
<1> SUFFICES ASSUME ScreenInv, Deliver
             PROVE  ScreenInv'
    OBVIOUS
<1>1. ScreenTypeOK
    BY DEF ScreenInv
<1>2. PICK m : m = Head(inbox)
    OBVIOUS
<1>3. /\ inbox \in Seq(Messages) /\ inbox # <<>> /\ inbox' = Tail(inbox)
      /\ UNCHANGED <<status, overdue, settled, socket, place, mirror, refresh, loads, faults>>
    BY <1>1 DEF Deliver, ScreenTypeOK, serverVars
<1>4. \/ m.kind = "leg" /\ Show(m.trade) /\ UNCHANGED <<announced, told>>
      \/ /\ m.kind = "settled" /\ shown' = [shown EXCEPT ![m.trade] = 0] /\ reload' = TRUE
         /\ Announce({m.trade})
    BY <1>2 DEF Deliver
<1>5. /\ inbox' \in Seq(Messages) /\ m \in ToSet(inbox) /\ ToSet(inbox') \subseteq ToSet(inbox)
      /\ OncePerLeg(inbox')
      /\ m.kind = "leg" => m \notin ToSet(inbox')
    BY <1>2, <1>3, HeldOfTail, OnceWhenRead DEF ScreenInv, InboxTrue
<1>6. m \in Messages /\ MessageTrue(m) /\ m.trade \in Trades
    BY <1>1, <1>5, HeldTyped DEF ScreenInv, InboxTrue, Messages
<1>7. Grows
    BY <1>3 DEF Grows
<1>8. LoadsTrue'
    BY <1>3, <1>7, NothingAsked
<1>9. CASE m.kind = "leg"
    <2>1. /\ shown' = [shown EXCEPT ![m.trade] = shown[m.trade] + 1] /\ reload' = TRUE
          /\ UNCHANGED <<announced, told>>
        BY <1>1, <1>4, <1>6, <1>9 DEF Show, ScreenTypeOK
    <2>2. m.trade \in Legs /\ status[m.trade] # "NONE" /\ shown[m.trade] <= 1
        BY <1>6, <1>9 DEF MessageTrue
    <2>3. shown[m.trade] \in 0..2
        BY <1>1, <1>6 DEF ScreenTypeOK
    <2>4. shown[m.trade] + 1 \in 0..2
        BY <2>2, <2>3
    <2>5. ASSUME NEW n \in ToSet(inbox')
          PROVE  MessageTrue(n)'
        <3>1. n \in Messages /\ MessageTrue(n)
            BY <1>1, <1>5, HeldTyped DEF ScreenInv, InboxTrue
        <3>2. CASE n.kind = "leg"
            <4>1. n # m
                BY <1>5, <1>9, <2>5
            <4>2. n.trade # m.trade
                BY <1>6, <1>9, <3>1, <3>2, <4>1 DEF Messages
            <4>3. shown'[n.trade] = shown[n.trade]
                BY <1>1, <2>1, <3>1, <4>2 DEF ScreenTypeOK, Messages
            <4> QED
                BY <1>3, <3>1, <4>3 DEF MessageTrue
        <3>3. CASE n.kind # "leg"
            BY <1>3, <3>1, <3>3 DEF MessageTrue
        <3> QED
            BY <3>2, <3>3
    <2>6. InboxTrue'
        BY <1>5, <2>5 DEF InboxTrue
    <2>7. ScreenTypeOK'
        <3>1. shown' \in [Trades -> 0..2]
            BY <1>1, <1>6, <2>1, <2>4 DEF ScreenTypeOK
        <3>2. reload' \in BOOLEAN
            BY <2>1
        <3> QED
            BY <1>1, <1>3, <1>5, <2>1, <3>1, <3>2 DEF ScreenTypeOK
    <2>8. Told'
        BY <1>3, <2>1 DEF ScreenInv, Told
    <2>9. Placed'
        BY <1>1, <1>3, <2>1, <2>2 DEF ScreenInv, Placed, ScreenTypeOK
    <2> QED
        BY <1>8, <2>6, <2>7, <2>8, <2>9 DEF ScreenInv
<1>10. CASE m.kind = "settled"
    <2>1. shown' = [shown EXCEPT ![m.trade] = 0] /\ reload' = TRUE /\ Announce({m.trade})
        BY <1>4, <1>10
    <2>2. status[m.trade] = "SETTLED"
        BY <1>6, <1>10 DEF MessageTrue
    <2>3. announced' \subseteq Trades /\ told' \in [Trades -> Nat] /\ Told'
        BY <1>3, <1>6, <2>1, <2>2, AnnouncingKeeps
    <2>4. ASSUME NEW n \in ToSet(inbox')
          PROVE  MessageTrue(n)'
        <3>1. n \in Messages /\ MessageTrue(n)
            BY <1>1, <1>5, HeldTyped DEF ScreenInv, InboxTrue
        <3>2. n.kind = "leg" => shown'[n.trade] <= 1
            BY <1>1, <1>6, <2>1, <3>1 DEF ScreenTypeOK, Messages, MessageTrue
        <3> QED
            BY <1>1, <1>7, <3>1, <3>2, MessagesStayTrue
    <2>5. InboxTrue'
        BY <1>5, <2>4 DEF InboxTrue
    <2>6. ScreenTypeOK'
        <3>1. shown' \in [Trades -> 0..2]
            BY <1>1, <1>6, <2>1 DEF ScreenTypeOK
        <3>2. reload' \in BOOLEAN
            BY <2>1
        <3> QED
            BY <1>1, <1>3, <1>5, <2>3, <3>1, <3>2 DEF ScreenTypeOK
    <2>7. Placed'
        BY <1>1, <1>3, <1>6, <2>1 DEF ScreenInv, Placed, ScreenTypeOK
    <2> QED
        BY <1>8, <2>3, <2>5, <2>6, <2>7 DEF ScreenInv
<1> QED
    BY <1>4, <1>9, <1>10

\* The page asks again: nothing has been answered yet, so nothing is claimed.
LEMMA AskingKeeps ==
    ASSUME ScreenInv, Render \/ Overdue \/ RefreshReply
    PROVE  ScreenInv'
<1>1. ScreenTypeOK
    BY DEF ScreenInv
<1>2. /\ UNCHANGED <<status, overdue, settled, socket, inbox, place, shown, announced, told>>
      /\ mirror' = mirror \/ mirror' = Visible
      /\ loads' = loads \/ Ask
      /\ reload' \in BOOLEAN /\ refresh' \in BOOLEAN /\ faults' \in Nat
    <2>1. CASE Render
        BY <1>1, <2>1 DEF Render, ScreenTypeOK, serverVars, wireVars
    <2>2. CASE Overdue
        BY <1>1, <2>2 DEF Overdue, ScreenTypeOK, serverVars, wireVars, screenVars
    <2>3. CASE RefreshReply
        <3>1. /\ UNCHANGED <<serverVars, wireVars, place, screenVars, loads>> /\ refresh' = FALSE
              /\ (reload' = TRUE /\ UNCHANGED faults) \/ (faults' = faults + 1 /\ UNCHANGED reload)
            BY <2>3 DEF RefreshReply, Fault
        <3>2. reload \in BOOLEAN /\ faults \in Nat
            BY <1>1 DEF ScreenTypeOK
        <3>3. faults' \in Nat
            BY <3>1, <3>2
        <3>4. reload' \in BOOLEAN
            BY <3>1, <3>2, Zenon
        <3> QED
            BY <3>1, <3>3, <3>4 DEF serverVars, wireVars, screenVars
    <2> QED
        BY <2>1, <2>2, <2>3
<1>3. Visible \subseteq Trades /\ \A t \in Visible : status[t] # "NONE"
    BY DEF Visible, ScreenInv, Placed
<1>4. InboxTrue'
    BY <1>2 DEF ScreenInv, InboxTrue, MessageTrue, OncePerLeg
<1>5. loads' \in Seq(LoadCalls) /\ LoadsTrue'
    <2>1. loads \in Seq(LoadCalls)
        BY <1>1 DEF ScreenTypeOK
    <2>2. CASE loads' = loads
        BY <1>2, <2>1, <2>2 DEF ScreenInv, LoadsTrue, LoadTrue
    <2>3. CASE Ask
        <3> PICK l : l = [stage |-> "asked", trades |-> {}]
            OBVIOUS
        <3>1. l \in LoadCalls /\ l.stage = "asked"
            BY DEF LoadCalls, Stages
        <3>2. loads' \in Seq(LoadCalls) /\ ToSet(loads)' \subseteq ToSet(loads) \cup {l}
            BY <2>1, <2>3, <3>1, HeldOfAppend, AppendProperties DEF Ask
        <3>3. LoadTrue(l)'
            BY <3>1 DEF LoadTrue
        <3>4. Grows
            BY <1>2 DEF Grows
        <3> QED
            BY <1>1, <3>2, <3>3, <3>4, LoadsStayTrue DEF ScreenInv
    <2> QED
        BY <1>2, <2>2, <2>3
<1>6. mirror' \subseteq Trades /\ \A t \in mirror' : status[t] # "NONE"
    <2>1. mirror \subseteq Trades
        BY <1>1 DEF ScreenTypeOK
    <2>2. \A t \in mirror : status[t] # "NONE"
        BY <2>1 DEF ScreenInv, Placed
    <2>3. mirror' = mirror \/ mirror' = Visible
        BY <1>2
    <2> QED
        BY <1>3, <2>1, <2>2, <2>3
<1>7. ScreenTypeOK'
    BY <1>1, <1>2, <1>5, <1>6 DEF ScreenTypeOK
<1>8. Told'
    BY <1>2 DEF ScreenInv, Told
<1>9. Placed'
    BY <1>2, <1>6 DEF ScreenInv, Placed
<1> QED
    BY <1>4, <1>5, <1>7, <1>8, <1>9 DEF ScreenInv

\* A request is answered: from the positions of that moment.
LEMMA AnswersKeep ==
    ASSUME ScreenInv, NEW i \in 1..Len(loads), LoadExec(i)
    PROVE  ScreenInv'
<1>1. ScreenTypeOK /\ loads \in Seq(LoadCalls)
    BY DEF ScreenInv, ScreenTypeOK
<1>2. UNCHANGED <<status, overdue, settled, socket, inbox, place, shown, mirror, announced, told,
                  reload, refresh, faults>>
    BY DEF LoadExec, serverVars, wireVars, screenVars
<1>3. loads[i] \in LoadCalls /\ LoadTrue(loads[i])
    BY <1>1, HeldTyped DEF ScreenInv, LoadsTrue
<1>4. PICK l \in LoadCalls : loads' = [loads EXCEPT ![i] = l] /\ LoadTrue(l)
    <2>1. CASE /\ loads[i].stage = "asked"
               /\ Advance(i, "listed", {t \in Trades : status[t] = "OPEN"})
        <3> PICK l : l = [stage |-> "listed", trades |-> {t \in Trades : status[t] = "OPEN"}]
            OBVIOUS
        <3>1. l \in LoadCalls /\ l.stage = "listed" /\ \A t \in l.trades : status[t] = "OPEN"
            BY DEF LoadCalls, Stages
        <3> QED
            BY <2>1, <3>1 DEF Advance, LoadTrue
    <2>2. CASE /\ loads[i].stage = "asking"
               /\ Advance(i, "resolved", {t \in loads[i].trades : status[t] # "OPEN"})
        <3> PICK l : l = [stage |-> "resolved", trades |-> {t \in loads[i].trades : status[t] # "OPEN"}]
            OBVIOUS
        <3>1. l \in LoadCalls /\ l.stage = "resolved"
            BY <1>3 DEF LoadCalls, Stages
        <3>2. \A t \in l.trades : t \in Trades /\ status[t] # "NONE" /\ status[t] # "OPEN"
            BY <1>3, <2>2 DEF LoadTrue, LoadCalls
        <3>3. \A t \in l.trades : status[t] = "SETTLED"
            BY <1>1, <3>2 DEF ScreenTypeOK
        <3> QED
            BY <2>2, <3>1, <3>3 DEF Advance, LoadTrue
    <2> QED
        BY <2>1, <2>2 DEF LoadExec
<1>5. loads' \in Seq(LoadCalls) /\ ToSet(loads)' \subseteq ToSet(loads) \cup {l}
    BY <1>1, <1>4, HeldOfExcept
<1>6. LoadsTrue'
    <2>1. Grows /\ LoadTrue(l)'
        BY <1>2, <1>4 DEF Grows, LoadTrue
    <2> QED
        BY <1>1, <1>5, <2>1, LoadsStayTrue DEF ScreenInv
<1>7. InboxTrue'
    BY <1>2 DEF ScreenInv, InboxTrue, MessageTrue, OncePerLeg
<1>8. ScreenTypeOK'
    BY <1>1, <1>2, <1>5 DEF ScreenTypeOK
<1>9. Told' /\ Placed'
    BY <1>2 DEF ScreenInv, Told, Placed
<1> QED
    BY <1>6, <1>7, <1>8, <1>9 DEF ScreenInv

\* Its answer is handled: a list replaces what is shown, results are announced.
LEMMA RepliesKeep ==
    ASSUME ScreenInv, NEW i \in 1..Len(loads), ListReply(i) \/ ResultsReply(i) \/ LoadFails(i)
    PROVE  ScreenInv'
<1>1. ScreenTypeOK /\ loads \in Seq(LoadCalls)
    BY DEF ScreenInv, ScreenTypeOK
<1>2. loads[i] \in LoadCalls /\ LoadTrue(loads[i])
    BY <1>1, HeldTyped DEF ScreenInv, LoadsTrue
<1>3. /\ UNCHANGED <<status, overdue, settled, socket, inbox, place, reload, refresh>>
      /\ faults' \in Nat
    <2>1. CASE ListReply(i)
        BY <1>1, <2>1 DEF ListReply, ScreenTypeOK, serverVars, wireVars
    <2>2. CASE ResultsReply(i)
        BY <1>1, <2>2 DEF ResultsReply, ScreenTypeOK, serverVars, wireVars
    <2>3. CASE LoadFails(i)
        BY <1>1, <2>3 DEF LoadFails, Fault, ScreenTypeOK, serverVars, wireVars
    <2> QED
        BY <2>1, <2>2, <2>3
<1>4. Grows
    BY <1>3 DEF Grows
<1>5. ASSUME loads' = RemoveAt(loads, i)
      PROVE  loads' \in Seq(LoadCalls) /\ LoadsTrue'
    <2>1. loads' \in Seq(LoadCalls) /\ ToSet(loads)' \subseteq ToSet(loads)
        BY <1>1, <1>5, HeldOfRemoveAt
    <2> QED
        BY <1>3, <2>1 DEF ScreenInv, LoadsTrue, LoadTrue
<1>6. CASE ListReply(i)
    <2>1. /\ loads[i].stage = "listed" /\ mirror' = loads[i].trades
          /\ shown' = [t \in Trades |-> IF t \in loads[i].trades THEN 1 ELSE 0]
          /\ UNCHANGED <<announced, told>>
        BY <1>6 DEF ListReply
    <2>2. mirror' \subseteq Trades /\ \A t \in mirror' : status[t] # "NONE"
        BY <1>2, <2>1 DEF LoadTrue, LoadCalls
    <2>3. \A t \in Trades : shown'[t] \in 0..1 /\ (shown'[t] > 0 => t \in mirror')
        BY <2>1
    <2>4. InboxTrue'
        <3>1. \A m \in ToSet(inbox) : m.trade \in Trades
            BY <1>1, HeldTyped DEF Messages
        <3>2. \A m \in ToSet(inbox) : m.kind = "leg" => shown'[m.trade] <= 1
            BY <2>3, <3>1
        <3> QED
            BY <1>3, <1>4, <3>2, NothingSent
    <2>5. loads' \in Seq(LoadCalls) /\ LoadsTrue'
        <3>1. CASE loads' = RemoveAt(loads, i)
            BY <1>5, <3>1
        <3>2. CASE Advance(i, "asking", mirror \ loads[i].trades)
            <4>0. PICK l : l = [stage |-> "asking", trades |-> mirror \ loads[i].trades]
                OBVIOUS
            <4>1. l \in LoadCalls /\ l.stage = "asking" /\ l.trades \subseteq mirror
                BY <1>1, <4>0 DEF LoadCalls, Stages, ScreenTypeOK
            <4>2. \A t \in mirror : status[t] # "NONE"
                BY <1>1 DEF ScreenInv, Placed, ScreenTypeOK
            <4>3. LoadTrue(l)'
                BY <1>3, <4>1, <4>2 DEF LoadTrue
            <4>4. loads' = [loads EXCEPT ![i] = l]
                BY <3>2, <4>0 DEF Advance
            <4>5. loads' \in Seq(LoadCalls) /\ ToSet(loads)' \subseteq ToSet(loads) \cup {l}
                BY <1>1, <4>1, <4>4, HeldOfExcept
            <4> QED
                BY <1>1, <1>4, <4>3, <4>5, LoadsStayTrue DEF ScreenInv
        <3> QED
            BY <1>6, <3>1, <3>2 DEF ListReply
    <2>6. ScreenTypeOK'
        <3>1. shown' \in [Trades -> 0..2]
            BY <2>1
        <3> QED
            BY <1>1, <1>3, <2>1, <2>2, <2>5, <3>1 DEF ScreenTypeOK
    <2>7. Told'
        BY <1>3, <2>1 DEF ScreenInv, Told
    <2>8. Placed'
        <3>1. \A t \in Trades : shown'[t] <= 1
            BY <2>3
        <3> QED
            BY <1>3, <2>2, <2>3, <3>1 DEF ScreenInv, Placed
    <2> QED
        BY <2>4, <2>5, <2>6, <2>7, <2>8 DEF ScreenInv
<1>7. CASE ResultsReply(i)
    <2>1. /\ loads[i].stage = "resolved" /\ Announce(loads[i].trades) /\ loads' = RemoveAt(loads, i)
          /\ UNCHANGED <<shown, mirror>>
        BY <1>7 DEF ResultsReply
    <2>2. loads[i].trades \in SUBSET Trades /\ \A t \in loads[i].trades : status[t] = "SETTLED"
        BY <1>2, <2>1 DEF LoadTrue, LoadCalls
    <2>3. announced' \subseteq Trades /\ told' \in [Trades -> Nat] /\ Told'
        BY <1>3, <2>1, <2>2, AnnouncingKeeps
    <2>4. loads' \in Seq(LoadCalls) /\ LoadsTrue'
        BY <1>5, <2>1
    <2>5. InboxTrue'
        BY <1>3, <2>1 DEF ScreenInv, InboxTrue, MessageTrue, OncePerLeg
    <2>6. ScreenTypeOK'
        BY <1>1, <1>3, <2>1, <2>3, <2>4 DEF ScreenTypeOK
    <2>7. Placed'
        BY <1>3, <2>1 DEF ScreenInv, Placed
    <2> QED
        BY <2>3, <2>4, <2>5, <2>6, <2>7 DEF ScreenInv
<1>8. CASE LoadFails(i)
    <2>1. loads' = RemoveAt(loads, i) /\ UNCHANGED <<shown, mirror, announced, told>>
        BY <1>8 DEF LoadFails, screenVars
    <2>2. loads' \in Seq(LoadCalls) /\ LoadsTrue'
        BY <1>5, <2>1
    <2>3. InboxTrue'
        BY <1>3, <2>1 DEF ScreenInv, InboxTrue, MessageTrue, OncePerLeg
    <2>4. ScreenTypeOK'
        BY <1>1, <1>3, <2>1, <2>2 DEF ScreenTypeOK
    <2>5. Told' /\ Placed'
        BY <1>3, <2>1 DEF ScreenInv, Told, Placed
    <2> QED
        BY <2>2, <2>3, <2>4, <2>5 DEF ScreenInv
<1> QED
    BY <1>6, <1>7, <1>8

-----------------------------------------------------------------------------
(* The results *)

\* Whatever the server, the socket and the page do, in whatever order.
LEMMA ScreenInvHolds == ScreenSpec => []ScreenInv
<1>1. ScreenInit => ScreenInv
    <2> SUFFICES ASSUME ScreenInit
                 PROVE  ScreenInv
        OBVIOUS
    <2>1. <<>> \in Seq(Messages) /\ <<>> \in Seq(LoadCalls) /\ Len(<<>>) = 0
        OBVIOUS
    <2>2. OncePerLeg(<<>>) /\ ToSet(<<>>) = {}
        BY <2>1 DEF OncePerLeg, ToSet
    <2>3. InboxTrue /\ LoadsTrue
        BY <2>2 DEF ScreenInit, InboxTrue, LoadsTrue
    <2>4. reload \in BOOLEAN /\ refresh \in BOOLEAN
        BY DEF ScreenInit
    <2>5. ScreenTypeOK
        BY <2>1, <2>4 DEF ScreenInit, ScreenTypeOK
    <2>6. Told /\ Placed
        BY DEF ScreenInit, Told, Placed
    <2> QED
        BY <2>3, <2>5, <2>6 DEF ScreenInv
<1>2. ScreenInv /\ [ScreenNext]_traderVars => ScreenInv'
    <2> SUFFICES ASSUME ScreenInv, [ScreenNext]_traderVars
                 PROVE  ScreenInv'
        OBVIOUS
    <2>1. CASE UNCHANGED traderVars
        <3>1. UNCHANGED <<status, overdue, settled, socket, inbox, place, shown, mirror, announced, told,
                          reload, refresh, loads, faults>>
            BY <2>1 DEF traderVars, serverVars, wireVars, screenVars, askVars
        <3>2. InboxTrue' /\ LoadsTrue'
            BY <3>1, NothingSaid
        <3> QED
            BY <3>1, <3>2 DEF ScreenInv, ScreenTypeOK, Told, Placed
    <2>2. CASE \E i \in 1..Len(loads) : LoadStep(i) \/ LoadFails(i)
        BY <2>2, AnswersKeep, RepliesKeep DEF LoadStep
    <2>3. CASE \E t \in Trades : LegOpens(t) \/ SettleExec(t) \/ SettleReply(t) \/ Expire(t)
                                 \/ Submit(t) \/ PlaceExec(t) \/ PlaceFails(t) \/ PlaceReply(t)
        BY <2>3, LegOpensKeeps, SettlesKeeps, PlacingKeeps
    <2> QED
        BY <2>1, <2>2, <2>3, WireKeeps, DeliverKeeps, AskingKeeps DEF ScreenNext
<1> QED
    BY <1>1, <1>2, PTL DEF ScreenSpec

\* Every reachable state of the screen has the types the code gives its state, and no
\* position is listed more than twice.
THEOREM ScreenTypesHold == ScreenSpec => []ScreenTypeOK
<1>1. ScreenInv => ScreenTypeOK
    BY DEF ScreenInv
<1> QED
    BY <1>1, ScreenInvHolds, PTL

\* A trader is told of a settlement once, and only after it has happened.
THEOREM ToldOnceHolds == ScreenSpec => []ToldOnce
<1>1. ScreenInv => ToldOnce
    BY DEF ScreenInv, Told, ToldOnce
<1> QED
    BY <1>1, ScreenInvHolds, PTL
=============================================================================
