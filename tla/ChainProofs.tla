------------------------------ MODULE ChainProofs ------------------------------
(***************************************************************************)
(* Proofs about the published record of prices, for any number of epochs and   *)
(* restarts and under any faults: nothing that happens to the server makes the  *)
(* record read as tampered with, what is missing is counted, a seed in use is    *)
(* secret, and tampering shows.                                                *)
(***************************************************************************)
EXTENDS ChainAudit, Arithmetic, SequenceTheorems

-----------------------------------------------------------------------------
(* The invariant *)

\* A hash of seeds that have been used.
KnownSeeds(hash, m) == \A j \in 1..Len(hash) : hash[j] \in 1..m

\* A commitment whose hash covers its seed and all before it, one for each epoch so far.
Sound(c, m) ==
    /\ c.hash = ChainHash(c.prev, c.seed) /\ c.epoch = Len(c.hash)
    /\ c.seed \in 1..m /\ KnownSeeds(c.hash, m)

\* The rows are numbered from one on, and each links to the one before.
ChainedRows(r, m) ==
    /\ r \in Seq(Rows)
    /\ \A i \in 1..Len(r) : Sound(r[i].what, m) /\ r[i].what.epoch = i /\ r[i].revealed \in 0..m
    /\ \A i \in 2..Len(r) : r[i].what.prev = r[i - 1].what.hash

\* What is on its way to the table, and what the next epoch will link to.
SentSound == \A a \in appends \cup late.appends : Sound(a.what, made)
NextSound ==
    /\ epoch = Len(prev) /\ KnownSeeds(prev, made)
    /\ head.epoch = Len(head.hash) /\ KnownSeeds(head.hash, made)

\* Each epoch of a process has a seed of its own, and a seed revealed was used.
SeedsUsed ==
    /\ seed \in 0..made /\ (phase = "up" => seed > 0)
    /\ \A v \in reveals \cup late.reveals : v.seed \in 1..made
    /\ \A h \in history : h.seed \in 1..made
    /\ \A h, g \in history : h.seed = g.seed => h = g
    /\ phase \in {"down", "loading"} => history = {} /\ appends = {} /\ reveals = {}

ChainInv == ChainTypeOK /\ ChainedRows(rows, made) /\ SentSound /\ NextSound /\ SeedsUsed

\* The seeds of this process that are neither recorded nor on their way.
SeedsHere == {h.seed : h \in history}
Absent == SeedsHere \ ({rows[i].what.seed : i \in DOMAIN rows} \cup {a.what.seed : a \in appends})
Counted == IsFiniteSet(SeedsHere) /\ Cardinality(Absent) <= unrecorded

\* Where nothing happens but that processes are killed, one append at most is on its way, it
\* is the next, and of every epoch there is one seed.
Next1(a) == a.what.prev = HeadHash /\ prev = a.what.hash
OneSeed(n, s) ==
    /\ \A i \in DOMAIN rows : rows[i].what.epoch = n => rows[i].what.seed = s
    /\ \A a \in appends : a.what.epoch = n => a.what.seed = s
Quiet ==
    /\ unrecorded = 0 /\ late = NoRequests
    /\ phase = "loading" => head.hash = HeadHash
    /\ phase \in {"up", "stopping"} =>
          \/ appends = {} /\ prev = HeadHash
          \/ \E a \in appends : appends = {a} /\ Next1(a)
    /\ \A v \in reveals : OneSeed(v.epoch, v.seed)
    /\ phase = "up" => OneSeed(epoch, seed)
    /\ \A i \in DOMAIN rows : rows[i].revealed \in {NoSeed, rows[i].what.seed}
Calm == weather \subseteq {"crash"} => Quiet

-----------------------------------------------------------------------------
(* The rows *)

\* What was used stays used.
LEMMA StaysKnown ==
    ASSUME NEW m \in Nat, NEW n \in Nat, m <= n
    PROVE  /\ \A hash \in Seq(Nat) : KnownSeeds(hash, m) => KnownSeeds(hash, n)
           /\ \A c \in Commitments : Sound(c, m) => Sound(c, n)
           /\ \A r : ChainedRows(r, m) => ChainedRows(r, n)
<1>1. \A hash \in Seq(Nat) : KnownSeeds(hash, m) => KnownSeeds(hash, n)
  BY DEF KnownSeeds
<1>2. \A c \in Commitments : Sound(c, m) => Sound(c, n)
  BY <1>1 DEF Sound, Commitments
<1>3. \A r : ChainedRows(r, m) => ChainedRows(r, n)
  <2> SUFFICES ASSUME NEW r, ChainedRows(r, m) PROVE ChainedRows(r, n)
    OBVIOUS
  <2>1. r \in Seq(Rows) /\ \A i \in 2..Len(r) : r[i].what.prev = r[i - 1].what.hash
    BY DEF ChainedRows
  <2>2. ASSUME NEW i \in 1..Len(r)
        PROVE  Sound(r[i].what, n) /\ r[i].what.epoch = i /\ r[i].revealed \in 0..n
    <3>1. r[i] \in Rows BY <2>1
    <3>2. r[i].what \in Commitments BY <3>1 DEF Rows
    <3>3. Sound(r[i].what, m) /\ r[i].what.epoch = i /\ r[i].revealed \in 0..m
      BY DEF ChainedRows
    <3>4. Sound(r[i].what, n) BY <3>2, <3>3, <1>2
    <3> QED BY <3>3, <3>4
  <2> QED BY <2>1, <2>2 DEF ChainedRows
<1> QED BY <1>1, <1>2, <1>3

\* A row that has a seed links to where the chain ended.
LEMMA RowShape ==
    ASSUME NEW m \in Nat, NEW r, ChainedRows(r, m), NEW i \in 1..Len(r)
    PROVE  /\ r[i] \in Rows /\ r[i].what \in Commitments
           /\ r[i].what.hash \in Seq(Nat) /\ r[i].what.prev \in Seq(Nat)
           /\ Len(r[i].what.hash) = i /\ Len(r[i].what.prev) = i - 1
           /\ KnownSeeds(r[i].what.hash, m)
<1>1. r[i] \in Rows
  BY DEF ChainedRows
<1>2. /\ r[i].what \in Commitments /\ r[i].what.hash \in Seq(Nat) /\ r[i].what.prev \in Seq(Nat)
      /\ r[i].what.seed \in Nat /\ r[i].what.epoch \in Nat
  BY <1>1 DEF Rows, Commitments
<1>3. Sound(r[i].what, m) /\ r[i].what.epoch = i
  BY DEF ChainedRows
<1>4. Len(r[i].what.hash) = i /\ KnownSeeds(r[i].what.hash, m)
  BY <1>3 DEF Sound
<1>5. r[i].what.hash = Append(r[i].what.prev, r[i].what.seed)
  BY <1>3 DEF Sound, ChainHash
<1>6. Len(r[i].what.hash) = Len(r[i].what.prev) + 1 /\ Len(r[i].what.prev) \in Nat
  <2> DEFINE from == r[i].what.prev
             s == r[i].what.seed
  <2>1. from \in Seq(Nat) /\ s \in Nat
    BY <1>2
  <2>2. r[i].what.hash = Append(from, s)
    BY <1>5
  <2> HIDE DEF from, s
  <2>3. Len(Append(from, s)) = Len(from) + 1 /\ Len(from) \in Nat
    BY <2>1
  <2>4. Len(r[i].what.hash) = Len(from) + 1 /\ Len(from) \in Nat
    BY <2>2, <2>3
  <2> QED BY <2>4 DEF from
<1>7. Len(r[i].what.prev) = i - 1
  <2>1. i \in Int
    OBVIOUS
  <2>2. \A x \in Int, p \in Nat : x = p + 1 => p = x - 1
    OBVIOUS
  <2>3. i = Len(r[i].what.prev) + 1
    BY <1>4, <1>6
  <2> QED BY <2>1, <2>2, <2>3, <1>6
<1> QED BY <1>1, <1>2, <1>4, <1>7

\* HeadEpoch and HeadHash say how many rows there are, and what they commit to.
LEMMA HeadFacts ==
    ASSUME made \in Nat, ChainedRows(rows, made)
    PROVE  /\ HeadEpoch = Len(rows) /\ Len(rows) \in Nat
           /\ HeadHash \in Seq(Nat) /\ Len(HeadHash) = Len(rows) /\ KnownSeeds(HeadHash, made)
<1>1. rows \in Seq(Rows)
  BY DEF ChainedRows
<1>2. CASE rows = <<>>
  BY <1>2 DEF HeadEpoch, HeadHash, NoHash, KnownSeeds
<1>3. CASE rows # <<>>
  <2>1. Len(rows) \in 1..Len(rows)
    BY <1>1, <1>3
  <2>2. rows[Len(rows)].what.epoch = Len(rows)
    BY <2>1 DEF ChainedRows
  <2>3. HeadEpoch = Len(rows) /\ HeadHash = rows[Len(rows)].what.hash
    BY <1>3, <2>2 DEF HeadEpoch, HeadHash, Last
  <2> QED BY <2>1, <2>3, RowShape
<1> QED BY <1>2, <1>3

\* fpesa_record_epoch takes only what comes next, so that the table stays a chain.
LEMMA RecordKeeps ==
    ASSUME made \in Nat, ChainedRows(rows, made),
           NEW c \in Commitments, Sound(c, made), RecordRow(c)
    PROVE  /\ ChainedRows(rows', made)
           /\ \/ Refused(c) /\ rows' = rows
              \/ /\ ~Refused(c) /\ rows' = Append(rows, [what |-> c, revealed |-> NoSeed])
                 /\ c.prev = HeadHash /\ c.epoch = Len(rows) + 1
<1>1. rows \in Seq(Rows) /\ Len(rows) \in Nat
  BY DEF ChainedRows
<1>2. CASE Refused(c)
  BY <1>2 DEF RecordRow
<1>3. CASE ~Refused(c)
  <2> DEFINE new == [what |-> c, revealed |-> NoSeed]
  <2>1. rows' = Append(rows, new)
    BY <1>3 DEF RecordRow
  <2>2. c.prev = HeadHash
    BY <1>3 DEF Refused
  <2>3. c.prev \in Seq(Nat) /\ c.seed \in Nat /\ c.epoch \in Nat
    BY DEF Commitments
  <2>4. c.hash = Append(c.prev, c.seed) /\ c.epoch = Len(c.hash)
    BY DEF Sound, ChainHash
  <2>5. c.epoch = Len(rows) + 1
    <3>1. Len(c.prev) = Len(rows) BY <2>2, HeadFacts
    <3> QED BY <2>3, <2>4, <3>1
  <2>6. new \in Rows
    BY DEF Rows, NoSeed
  <2>7. rows' \in Seq(Rows) /\ Len(rows') = Len(rows) + 1 /\ rows'[Len(rows) + 1] = new
        /\ \A i \in 1..Len(rows) : rows'[i] = rows[i]
    BY <1>1, <2>1, <2>6
  <2>8. ASSUME NEW i \in 1..Len(rows')
        PROVE  Sound(rows'[i].what, made) /\ rows'[i].what.epoch = i /\ rows'[i].revealed \in 0..made
    <3>1. CASE i \in 1..Len(rows)
      BY <3>1, <2>7 DEF ChainedRows
    <3>2. CASE i = Len(rows) + 1
      BY <3>2, <2>7, <2>5 DEF NoSeed
    <3> QED BY <3>1, <3>2, <2>7, <1>1
  <2>9. ASSUME NEW i \in 2..Len(rows')
        PROVE  rows'[i].what.prev = rows'[i - 1].what.hash
    <3>1. CASE i \in 2..Len(rows)
      <4>1. i \in 1..Len(rows) /\ i - 1 \in 1..Len(rows) BY <3>1, <1>1
      <4>2. rows[i].what.prev = rows[i - 1].what.hash BY <3>1 DEF ChainedRows
      <4> QED BY <4>1, <4>2, <2>7
    <3>2. CASE i = Len(rows) + 1
      <4>1. i - 1 = Len(rows) /\ Len(rows) \in 1..Len(rows) BY <3>2, <1>1
      <4>2. rows # <<>> BY <4>1, <1>1
      <4>3. HeadHash = rows[Len(rows)].what.hash BY <4>2 DEF HeadHash, Last
      <4>4. rows'[i].what.prev = HeadHash BY <3>2, <2>7, <2>2
      <4>5. rows'[i - 1] = rows[Len(rows)] BY <4>1, <2>7
      <4> QED BY <4>3, <4>4, <4>5
    <3> QED BY <3>1, <3>2, <2>7, <1>1
  <2>10. ChainedRows(rows', made)
    BY <2>7, <2>8, <2>9 DEF ChainedRows
  <2> QED BY <1>3, <2>1, <2>2, <2>5, <2>10
<1> QED BY <1>2, <1>3

\* fpesa_reveal_epoch gives a seed to a row of that number which has none, and changes
\* nothing else.
LEMMA RevealKeeps ==
    ASSUME made \in Nat, ChainedRows(rows, made),
           NEW v, v.seed \in 1..made, RevealRow(v)
    PROVE  /\ ChainedRows(rows', made) /\ Len(rows') = Len(rows)
           /\ \A i \in 1..Len(rows) :
                 /\ rows'[i].what = rows[i].what
                 /\ \/ rows'[i].revealed = rows[i].revealed
                    \/ rows'[i].revealed = v.seed /\ rows[i].what.epoch = v.epoch
<1>1. rows \in Seq(Rows) /\ Len(rows) \in Nat /\ DOMAIN rows = 1..Len(rows)
  BY DEF ChainedRows
<1>2. rows' = [i \in 1..Len(rows) |->
                IF i \in RowOf(v.epoch) /\ rows[i].revealed = NoSeed
                THEN [rows[i] EXCEPT !.revealed = v.seed] ELSE rows[i]]
  BY <1>1 DEF RevealRow
<1>3. ASSUME NEW i \in 1..Len(rows)
      PROVE  /\ rows'[i] \in Rows
             /\ rows'[i].what = rows[i].what
             /\ \/ rows'[i].revealed = rows[i].revealed
                \/ rows'[i].revealed = v.seed /\ rows[i].what.epoch = v.epoch
  <2>1. rows[i] \in Rows
    BY <1>1
  <2>2. v.seed \in Nat
    OBVIOUS
  <2>3. CASE i \in RowOf(v.epoch) /\ rows[i].revealed = NoSeed
    <3>1. rows'[i] = [rows[i] EXCEPT !.revealed = v.seed] BY <1>2, <2>3
    <3>2. rows[i].what.epoch = v.epoch BY <2>3 DEF RowOf
    <3> QED BY <2>1, <2>2, <3>1, <3>2 DEF Rows
  <2>4. CASE ~(i \in RowOf(v.epoch) /\ rows[i].revealed = NoSeed)
    <3>1. rows'[i] = rows[i] BY <1>2, <2>4
    <3> QED BY <2>1, <3>1
  <2> QED BY <2>3, <2>4
<1>4. rows' \in Seq(Rows) /\ Len(rows') = Len(rows)
  <2>1. \A i \in 1..Len(rows) : rows'[i] \in Rows BY <1>3
  <2>2. rows' \in [1..Len(rows) -> Rows] BY <1>2, <2>1
  <2>3. rows' \in Seq(Rows) BY <2>2, <1>1
  <2>4. DOMAIN rows' = 1..Len(rows) BY <1>2
  <2> QED BY <2>3, <2>4, <1>1
<1>5. ASSUME NEW i \in 1..Len(rows')
      PROVE  Sound(rows'[i].what, made) /\ rows'[i].what.epoch = i /\ rows'[i].revealed \in 0..made
  <2>1. i \in 1..Len(rows) BY <1>4
  <2>2. Sound(rows[i].what, made) /\ rows[i].what.epoch = i /\ rows[i].revealed \in 0..made
    BY <2>1 DEF ChainedRows
  <2>3. rows'[i].what = rows[i].what BY <2>1, <1>3
  <2>4. rows'[i].revealed = rows[i].revealed \/ rows'[i].revealed = v.seed BY <2>1, <1>3
  <2>5. v.seed \in 0..made OBVIOUS
  <2> QED BY <2>2, <2>3, <2>4, <2>5
<1>6. ASSUME NEW i \in 2..Len(rows')
      PROVE  rows'[i].what.prev = rows'[i - 1].what.hash
  <2>1. i \in 1..Len(rows) /\ i - 1 \in 1..Len(rows) /\ i \in 2..Len(rows) BY <1>1, <1>4
  <2>2. rows[i].what.prev = rows[i - 1].what.hash BY <2>1 DEF ChainedRows
  <2>3. rows'[i].what = rows[i].what /\ rows'[i - 1].what = rows[i - 1].what BY <2>1, <1>3
  <2> QED BY <2>2, <2>3
<1>7. ChainedRows(rows', made)
  BY <1>4, <1>5, <1>6 DEF ChainedRows
<1> QED BY <1>3, <1>4, <1>7

\* What the next epoch commits to.
LEMMA CommitmentSound ==
    ASSUME made \in Nat, NEW from \in Seq(Nat), KnownSeeds(from, made),
           NEW n, n = Len(from) + 1
    PROVE  LET c == [epoch |-> n, seed |-> made + 1, prev |-> from, hash |-> ChainHash(from, made + 1)]
           IN  /\ c \in Commitments /\ Sound(c, made + 1)
               /\ c.hash \in Seq(Nat) /\ Len(c.hash) = n /\ KnownSeeds(c.hash, made + 1)
<1> DEFINE hash == Append(from, made + 1)
<1>1. hash \in Seq(Nat) /\ Len(hash) = n /\ Len(from) \in Nat
  OBVIOUS
<1>2. ASSUME NEW j \in 1..n
      PROVE  hash[j] \in 1..(made + 1)
  <2>1. CASE j \in 1..Len(from)
    <3>1. from[j] \in 1..made BY <2>1 DEF KnownSeeds
    <3>2. hash[j] = from[j] BY <2>1
    <3> QED BY <3>1, <3>2
  <2>2. CASE j = n
    <3>1. hash[j] = made + 1 BY <2>2
    <3> QED BY <3>1
  <2> QED BY <2>1, <2>2, <1>1
<1>3. KnownSeeds(hash, made + 1)
  BY <1>1, <1>2 DEF KnownSeeds
<1> QED BY <1>1, <1>3 DEF ChainHash, Commitments, Sound

-----------------------------------------------------------------------------
(* The invariant holds *)

\* In the beginning.
LEMMA ChainInvInit == ChainInit => ChainInv
<1> SUFFICES ASSUME ChainInit PROVE ChainInv
  OBVIOUS
<1> USE DEF ChainInit
<1>1. ChainTypeOK
  <2>1. weather \in Weathers /\ rows \in Seq(Rows) /\ made \in Nat
        /\ phase \in {"down", "loading", "up", "stopping"} /\ restarts \in Nat
    OBVIOUS
  <2>2. head \in [epoch : Nat, hash : Seq(Nat)] /\ prev \in Seq(Nat)
    BY DEF NoHash
  <2>3. /\ epoch \in Nat /\ seed \in Nat /\ ticked \in BOOLEAN
        /\ history \subseteq [epoch : Nat, seed : Nat, open : BOOLEAN]
        /\ appends \subseteq Appends /\ reveals \subseteq Reveals
        /\ unrecorded \in Nat
    BY DEF NoSeed
  <2>4. late \in [appends : SUBSET Appends, reveals : SUBSET Reveals]
    BY DEF NoRequests
  <2> QED BY <2>1, <2>2, <2>3, <2>4 DEF ChainTypeOK
<1>2. ChainedRows(rows, made)
  BY DEF ChainedRows
<1>3. SentSound
  BY DEF SentSound, NoRequests
<1>4. NextSound
  BY DEF NextSound, NoHash, KnownSeeds
<1>5. SeedsUsed
  BY DEF SeedsUsed, NoSeed, NoRequests
<1> QED BY <1>1, <1>2, <1>3, <1>4, <1>5 DEF ChainInv

\* An epoch that opens has a seed never used before, and commits to all before it.
LEMMA OpenKeeps ==
    ASSUME ChainInv, NEW from \in Seq(Nat), KnownSeeds(from, made), NEW n, n = Len(from) + 1,
           NEW closed \in SUBSET [epoch : Nat, seed : Nat, open : BOOLEAN],
           \A h \in closed : h.seed \in 1..made,
           \A h, g \in closed : h.seed = g.seed => h = g,
           OpenEpoch(from, n, closed),
           UNCHANGED <<rows, head, late>>
    PROVE  /\ made' = made + 1 /\ made' \in Nat /\ epoch' \in Nat /\ seed' = made' /\ prev' \in Seq(Nat)
           /\ history' \subseteq [epoch : Nat, seed : Nat, open : BOOLEAN]
           /\ appends' \subseteq Appends
           /\ ChainedRows(rows', made') /\ SentSound' /\ NextSound'
           /\ \A h \in history' : h.seed \in 1..made'
           /\ \A h, g \in history' : h.seed = g.seed => h = g
<1> DEFINE c == [epoch |-> n, seed |-> made + 1, prev |-> from, hash |-> ChainHash(from, made + 1)]
           here == [epoch |-> n, seed |-> made + 1, open |-> TRUE]
<1>1. made \in Nat /\ appends \subseteq Appends /\ late.appends \subseteq Appends
      /\ head \in [epoch : Nat, hash : Seq(Nat)]
  BY DEF ChainInv, ChainTypeOK
<1>2. /\ c \in Commitments /\ Sound(c, made + 1)
      /\ c.hash \in Seq(Nat) /\ Len(c.hash) = n /\ KnownSeeds(c.hash, made + 1)
  BY <1>1, CommitmentSound
<1>3. n \in Nat
  OBVIOUS
<1>4. /\ made' = made + 1 /\ seed' = made + 1 /\ epoch' = n
      /\ history' = closed \cup {here}
      /\ prev' = c.hash
      /\ appends' = appends \cup {[what |-> c, try |-> 1]}
  BY DEF OpenEpoch, Announce
<1> HIDE DEF c
<1>5. history' \subseteq [epoch : Nat, seed : Nat, open : BOOLEAN]
  <2>1. here \in [epoch : Nat, seed : Nat, open : BOOLEAN]
    BY <1>1, <1>3
  <2> HIDE DEF here
  <2> QED BY <2>1, <1>4
<1>6. [what |-> c, try |-> 1] \in Appends
  BY <1>2 DEF Appends, Tries
<1>7. ChainedRows(rows', made')
  <2>1. ChainedRows(rows, made) BY DEF ChainInv
  <2>2. made + 1 \in Nat /\ made <= made + 1 BY <1>1
  <2>3. ChainedRows(rows, made + 1) BY <2>1, <2>2, <1>1, StaysKnown
  <2> QED BY <2>3, <1>4
<1>8. SentSound'
  <2> SUFFICES ASSUME NEW a \in appends' \cup late'.appends PROVE Sound(a.what, made')
    BY DEF SentSound
  <2>1. CASE a \in appends \cup late.appends
    <3>1. Sound(a.what, made) BY <2>1 DEF ChainInv, SentSound
    <3>2. a \in Appends BY <2>1, <1>1
    <3>3. a.what \in Commitments BY <3>2 DEF Appends
    <3>4. made + 1 \in Nat /\ made <= made + 1 BY <1>1
    <3>5. \A x \in Commitments : Sound(x, made) => Sound(x, made + 1)
      BY <1>1, <3>4, StaysKnown
    <3>6. Sound(a.what, made + 1) BY <3>1, <3>3, <3>5
    <3> QED BY <3>6, <1>4
  <2>2. CASE a = [what |-> c, try |-> 1]
    BY <2>2, <1>2, <1>4
  <2> QED BY <2>1, <2>2, <1>4
<1>9. NextSound'
  <2>1. head'.epoch = Len(head'.hash) /\ KnownSeeds(head.hash, made)
    BY DEF ChainInv, NextSound
  <2>2. KnownSeeds(head'.hash, made')
    BY <2>1, <1>1, <1>4, StaysKnown
  <2> QED BY <2>1, <2>2, <1>2, <1>4 DEF NextSound
<1>10. \A h \in history' : h.seed \in 1..made'
  BY <1>1, <1>4
<1>11. \A h, g \in history' : h.seed = g.seed => h = g
  <2> SUFFICES ASSUME NEW h \in history', NEW g \in history', h.seed = g.seed PROVE h = g
    OBVIOUS
  <2>1. \A x \in closed : x.seed # here.seed
    BY <1>1
  <2>2. h \in closed \/ h = here
    BY <1>4
  <2>3. g \in closed \/ g = here
    BY <1>4
  <2> HIDE DEF here
  <2> QED BY <2>1, <2>2, <2>3
<1> QED BY <1>1, <1>2, <1>3, <1>4, <1>5, <1>6, <1>7, <1>8, <1>9, <1>10, <1>11

\* What a process knows of its past epochs, when it closes the running one.
LEMMA ClosedKeeps ==
    ASSUME ChainInv
    PROVE  /\ Closed \in SUBSET [epoch : Nat, seed : Nat, open : BOOLEAN]
           /\ \A h \in Closed : h.seed \in 1..made /\ (h.open => h.seed # seed)
           /\ \A h, g \in Closed : h.seed = g.seed => h = g
           /\ \A h \in Closed : \E g \in history : h = [g EXCEPT !.open = g.open /\ g.seed # seed]
           /\ \A g \in history : \E h \in Closed : h.seed = g.seed
<1>1. /\ history \subseteq [epoch : Nat, seed : Nat, open : BOOLEAN]
      /\ \A h \in history : h.seed \in 1..made
      /\ \A h, g \in history : h.seed = g.seed => h = g
  BY DEF ChainInv, ChainTypeOK, SeedsUsed
<1> DEFINE Cl(g) == [g EXCEPT !.open = g.open /\ g.seed # seed]
<1>2. \A g \in history :
          /\ Cl(g) \in [epoch : Nat, seed : Nat, open : BOOLEAN]
          /\ Cl(g).seed = g.seed /\ Cl(g).open = (g.open /\ g.seed # seed)
  BY <1>1
<1>3. Closed = {Cl(g) : g \in history}
  BY DEF Closed
<1> HIDE DEF Cl
<1>4. \A h \in Closed : \E g \in history : h = Cl(g)
  BY <1>3
<1>5. \A g \in history : Cl(g) \in Closed
  BY <1>3
<1>6. \A h, g \in Closed : h.seed = g.seed => h = g
  <2> SUFFICES ASSUME NEW h \in Closed, NEW g \in Closed, h.seed = g.seed PROVE h = g
    OBVIOUS
  <2>1. PICK x \in history : h = Cl(x) BY <1>4
  <2>2. PICK y \in history : g = Cl(y) BY <1>4
  <2>3. x.seed = y.seed BY <2>1, <2>2, <1>2
  <2>4. x = y BY <2>3, <1>1
  <2> QED BY <2>1, <2>2, <2>4
<1>7. \A h \in Closed : h.seed \in 1..made /\ (h.open => h.seed # seed)
                        /\ h \in [epoch : Nat, seed : Nat, open : BOOLEAN]
  <2> SUFFICES ASSUME NEW h \in Closed
               PROVE  h.seed \in 1..made /\ (h.open => h.seed # seed)
                      /\ h \in [epoch : Nat, seed : Nat, open : BOOLEAN]
    OBVIOUS
  <2>1. PICK x \in history : h = Cl(x) BY <1>4
  <2>2. h.seed = x.seed /\ h.open = (x.open /\ x.seed # seed)
        /\ h \in [epoch : Nat, seed : Nat, open : BOOLEAN]
    BY <2>1, <1>2
  <2> QED BY <2>2, <1>1
<1>8. \A g \in history : \E h \in Closed : h.seed = g.seed
  BY <1>2, <1>5
<1> QED BY <1>4, <1>6, <1>7, <1>8 DEF Cl

\* The pieces of the invariant, named for what they say.
LEMMA ChainInvParts ==
    ASSUME ChainInv
    PROVE  /\ made \in Nat /\ rows \in Seq(Rows) /\ ChainedRows(rows, made)
           /\ weather \in Weathers /\ restarts \in Nat /\ unrecorded \in Nat /\ ticked \in BOOLEAN
           /\ phase \in {"down", "loading", "up", "stopping"}
           /\ head \in [epoch : Nat, hash : Seq(Nat)] /\ head.epoch = Len(head.hash)
           /\ KnownSeeds(head.hash, made)
           /\ epoch \in Nat /\ seed \in Nat /\ prev \in Seq(Nat) /\ epoch = Len(prev) /\ KnownSeeds(prev, made)
           /\ history \subseteq [epoch : Nat, seed : Nat, open : BOOLEAN]
           /\ appends \subseteq Appends /\ reveals \subseteq Reveals
           /\ late \in [appends : SUBSET Appends, reveals : SUBSET Reveals]
           /\ late.appends \subseteq Appends /\ late.reveals \subseteq Reveals
           /\ \A a \in appends \cup late.appends : a.what \in Commitments /\ Sound(a.what, made)
           /\ \A v \in reveals \cup late.reveals : v.seed \in 1..made
<1>1. \A a \in appends \cup late.appends : a.what \in Commitments /\ Sound(a.what, made)
  BY DEF ChainInv, ChainTypeOK, SentSound, Appends
<1> QED BY <1>1 DEF ChainInv, ChainTypeOK, NextSound, SeedsUsed

\* Starting.
LEMMA StartKeeps ==
    ASSUME ChainInv, Boot \/ Started
    PROVE  ChainInv'
<1> USE ChainInvParts
<1>1. CASE Boot
  <2> USE <1>1 DEF Boot
  <2>1. UNCHANGED <<rows, made, epoch, seed, ticked, history, prev, appends, reveals, unrecorded,
                    restarts, weather, late>>
        /\ phase = "down" /\ phase' = "loading"
    BY DEF memoryVars, callVars
  <2>2. head' \in [epoch : Nat, hash : Seq(Nat)] /\ head'.epoch = Len(head'.hash) /\ KnownSeeds(head'.hash, made)
    <3>1. CASE head' = [epoch |-> HeadEpoch, hash |-> HeadHash]
      BY <3>1, HeadFacts
    <3>2. CASE head' = [epoch |-> 0, hash |-> NoHash]
      BY <3>2 DEF NoHash, KnownSeeds
    <3> QED BY <3>1, <3>2 DEF LoadHeads
  <2> HIDE <1>1 DEF Boot
  <2>3. ChainTypeOK'
    BY <2>1, <2>2 DEF ChainTypeOK
  <2>4. SentSound' /\ NextSound' /\ SeedsUsed'
    <3>1. SentSound' BY <2>1 DEF ChainInv, SentSound
    <3>2. NextSound' BY <2>1, <2>2 DEF NextSound
    <3>3. SeedsUsed' BY <2>1 DEF ChainInv, SeedsUsed
    <3> QED BY <3>1, <3>2, <3>3
  <2> QED BY <2>1, <2>3, <2>4 DEF ChainInv
<1>2. CASE Started
  <2>1. UNCHANGED <<rows, reveals, unrecorded, restarts, head, weather, late>>
        /\ phase = "loading" /\ phase' = "up" /\ ticked' = FALSE
        /\ OpenEpoch(head.hash, head.epoch + 1, {})
    BY <1>2 DEF Started
  <2>2. /\ made' = made + 1 /\ made' \in Nat /\ epoch' \in Nat /\ seed' = made' /\ prev' \in Seq(Nat)
        /\ history' \subseteq [epoch : Nat, seed : Nat, open : BOOLEAN]
        /\ appends' \subseteq Appends
        /\ ChainedRows(rows', made') /\ SentSound' /\ NextSound'
        /\ \A h \in history' : h.seed \in 1..made'
        /\ \A h, g \in history' : h.seed = g.seed => h = g
    <3>1. head.hash \in Seq(Nat) /\ KnownSeeds(head.hash, made) /\ head.epoch + 1 = Len(head.hash) + 1
      OBVIOUS
    <3>2. UNCHANGED <<rows, head, late>> /\ OpenEpoch(head.hash, head.epoch + 1, {})
      BY <2>1
    <3> DEFINE from == head.hash
               n == head.epoch + 1
    <3>3. from \in Seq(Nat) /\ KnownSeeds(from, made) /\ n = Len(from) + 1 /\ OpenEpoch(from, n, {})
      BY <3>1, <3>2
    <3>4. {} \in SUBSET [epoch : Nat, seed : Nat, open : BOOLEAN]
      OBVIOUS
    <3> HIDE DEF from, n
    <3> QED BY <3>2, <3>3, <3>4, OpenKeeps
  <2>3. ChainTypeOK'
    BY <2>1, <2>2 DEF ChainTypeOK
  <2>4. SeedsUsed'
    <3>1. \A v \in reveals' \cup late'.reveals : v.seed \in 1..made'
      BY <2>1, <2>2
    <3> QED BY <3>1, <2>1, <2>2 DEF SeedsUsed
  <2> QED BY <2>2, <2>3, <2>4 DEF ChainInv
<1> QED BY <1>1, <1>2

\* Running.
LEMMA RunKeeps ==
    ASSUME ChainInv, Tick \/ Rotate \/ Shutdown
    PROVE  ChainInv'
<1> USE ChainInvParts
<1>0. phase = "up" /\ seed > 0 /\ seed \in 1..made
  BY DEF ChainInv, SeedsUsed, Tick, Rotate, Shutdown
<1>1. CASE Tick
  <2>1. UNCHANGED <<rows, made, epoch, seed, history, prev, appends, reveals, unrecorded,
                    phase, restarts, head, weather, late>> /\ ticked' = TRUE
    BY <1>1 DEF Tick, callVars, lifeVars
  <2>2. ChainTypeOK'
    BY <2>1 DEF ChainTypeOK
  <2>3. SentSound' /\ NextSound' /\ SeedsUsed'
    BY <2>1 DEF ChainInv, SentSound, NextSound, SeedsUsed
  <2> QED BY <2>1, <2>2, <2>3 DEF ChainInv
<1> DEFINE v == [epoch |-> epoch, seed |-> seed, try |-> 1]
<1>2. v \in Reveals /\ v.seed \in 1..made
  BY <1>0 DEF Reveals, Tries
<1>3. CASE Rotate
  <2>1. UNCHANGED <<rows, unrecorded, phase, restarts, head, weather, late>>
        /\ phase = "up" /\ ticked' = TRUE /\ reveals' = reveals \cup {v}
        /\ OpenEpoch(prev, epoch + 1, Closed)
    BY <1>3 DEF Rotate, CloseEpoch, lifeVars
  <2>2. /\ made' = made + 1 /\ made' \in Nat /\ epoch' \in Nat /\ seed' = made' /\ prev' \in Seq(Nat)
        /\ history' \subseteq [epoch : Nat, seed : Nat, open : BOOLEAN]
        /\ appends' \subseteq Appends
        /\ ChainedRows(rows', made') /\ SentSound' /\ NextSound'
        /\ \A h \in history' : h.seed \in 1..made'
        /\ \A h, g \in history' : h.seed = g.seed => h = g
    BY <2>1, OpenKeeps, ClosedKeeps
  <2>3. ChainTypeOK'
    BY <2>1, <2>2, <1>2 DEF ChainTypeOK
  <2>4. SeedsUsed'
    <3>1. \A w \in reveals' \cup late'.reveals : w.seed \in 1..made'
      BY <2>1, <2>2, <1>2
    <3> QED BY <3>1, <2>1, <2>2 DEF SeedsUsed
  <2> QED BY <2>2, <2>3, <2>4 DEF ChainInv
<1>4. CASE Shutdown
  <2>1. UNCHANGED <<rows, made, epoch, seed, ticked, prev, appends, unrecorded, head, weather, late>>
        /\ phase' = "stopping" /\ restarts' \in Nat /\ reveals' = reveals \cup {v} /\ history' = Closed
    BY <1>4 DEF Shutdown, CloseEpoch
  <2>2. ChainTypeOK'
    <3>1. history' \subseteq [epoch : Nat, seed : Nat, open : BOOLEAN] BY <2>1, ClosedKeeps
    <3> QED BY <2>1, <3>1, <1>2 DEF ChainTypeOK
  <2>3. SentSound' /\ NextSound'
    BY <2>1 DEF ChainInv, SentSound, NextSound
  <2>4. SeedsUsed'
    <3>1. \A w \in reveals' \cup late'.reveals : w.seed \in 1..made'
      BY <2>1, <1>2
    <3>2. /\ \A h \in history' : h.seed \in 1..made
          /\ \A h, g \in history' : h.seed = g.seed => h = g
      BY <2>1, ClosedKeeps
    <3>3. seed' \in 0..made' BY <2>1, <1>0
    <3> QED BY <3>1, <3>2, <3>3, <2>1 DEF SeedsUsed
  <2> QED BY <2>1, <2>2, <2>3, <2>4 DEF ChainInv
<1> QED BY <1>1, <1>3, <1>4

\* Dying: what outlives the process was on its way.
LEMMA ForgetKeeps ==
    ASSUME ChainInv, Forget, restarts' \in Nat
    PROVE  ChainInv'
<1> USE ChainInvParts
<1>1. /\ UNCHANGED <<rows, made, head, weather>> /\ phase' = "down"
      /\ epoch' = 0 /\ seed' = 0 /\ ticked' = FALSE /\ history' = {} /\ prev' = <<>>
      /\ appends' = {} /\ reveals' = {} /\ unrecorded' = 0
  BY DEF Forget, NoSeed, NoHash
<1>2. /\ late'.appends \subseteq late.appends \cup appends
      /\ late'.reveals \subseteq late.reveals \cup reveals
  BY DEF Forget
<1>3. ChainTypeOK'
  <2>1. late' \in [appends : SUBSET Appends, reveals : SUBSET Reveals]
    <3>1. late' = [appends |-> late'.appends, reveals |-> late'.reveals] BY DEF Forget
    <3> QED BY <3>1, <1>2
  <2>2. <<>> \in Seq(Nat) OBVIOUS
  <2> QED BY <1>1, <2>1, <2>2 DEF ChainTypeOK
<1>4. SentSound'
  BY <1>1, <1>2 DEF SentSound
<1>5. NextSound'
  BY <1>1 DEF NextSound, KnownSeeds
<1>6. SeedsUsed'
  BY <1>1, <1>2 DEF SeedsUsed
<1> QED BY <1>1, <1>3, <1>4, <1>5, <1>6 DEF ChainInv

\* Recording.
LEMMA AppendKeeps ==
    ASSUME ChainInv,
           \/ \E a \in appends : AppendExec(a) \/ AppendFails(a)
           \/ \E a \in late.appends : LateAppend(a)
    PROVE  /\ ChainInv' /\ made' = made
           /\ UNCHANGED <<epoch, seed, history, prev, reveals, phase, head, weather, late.reveals>>
           /\ \A i \in 1..Len(rows) : rows'[i] = rows[i]
           /\ \/ rows' = rows
              \/ \E a \in appends \cup late.appends :
                    rows' = Append(rows, [what |-> a.what, revealed |-> NoSeed])
<1> USE ChainInvParts
<1>1. PICK a \in appends \cup late.appends :
          \/ a \in appends /\ (AppendExec(a) \/ AppendFails(a))
          \/ a \in late.appends /\ LateAppend(a)
  OBVIOUS
<1>2. a.what \in Commitments /\ Sound(a.what, made) /\ a \in Appends
  <2>1. a \in Appends OBVIOUS
  <2> QED BY <2>1
<1>3. rows' = rows \/ RecordRow(a.what)
  BY <1>1 DEF AppendExec, AppendFails, LateAppend
<1>4. ChainedRows(rows', made)
      /\ (rows' = rows \/ rows' = Append(rows, [what |-> a.what, revealed |-> NoSeed]))
  <2>1. CASE rows' = rows BY <2>1
  <2>2. CASE RecordRow(a.what) BY <2>2, <1>2, RecordKeeps
  <2> QED BY <1>3, <2>1, <2>2
<1>5. UNCHANGED <<made, epoch, seed, ticked, history, prev, reveals, phase, restarts, head, weather>>
      /\ late' \in [appends : SUBSET Appends, reveals : SUBSET Reveals]
      /\ late'.reveals = late.reveals /\ late'.appends \subseteq late.appends
  BY <1>1 DEF AppendExec, AppendFails, LateAppend, memoryVars, callVars, lifeVars
<1>6. unrecorded' \in Nat
  BY <1>1 DEF AppendExec, AppendFails, LateAppend, RetryAppend, callVars
<1>7. \A b \in appends' : b \in Appends /\ Sound(b.what, made) /\ (phase \notin {"down", "loading"} \/ b \in appends)
  <2>1. CASE appends' \subseteq appends
    BY <2>1
  <2>2. CASE RetryAppend(a) /\ a \in appends
    <3>1. CASE a.try = 3
      BY <2>2, <3>1 DEF RetryAppend
    <3>2. CASE a.try # 3
      <4>1. [a EXCEPT !.try = @ + 1] \in Appends /\ [a EXCEPT !.try = @ + 1].what = a.what
        <5>1. a.try + 1 \in Tries BY <3>2, <1>2 DEF Appends, Tries
        <5>2. a \in [what : Commitments, try : Tries] BY <1>2 DEF Appends
        <5> QED BY <5>1, <5>2 DEF Appends
      <4>2. appends' \subseteq appends \cup {[a EXCEPT !.try = @ + 1]}
        BY <2>2, <3>2 DEF RetryAppend
      <4>3. phase # "down" /\ phase # "loading"
        BY <2>2 DEF ChainInv, SeedsUsed
      <4> QED BY <4>1, <4>2, <4>3, <1>2
    <3> QED BY <3>1, <3>2
  <2> QED BY <1>1, <2>1, <2>2 DEF AppendExec, AppendFails, LateAppend, callVars
<1>8. ChainTypeOK'
  <2>1. rows' \in Seq(Rows) BY <1>4 DEF ChainedRows
  <2> QED BY <2>1, <1>5, <1>6, <1>7 DEF ChainTypeOK
<1>9. SentSound'
  BY <1>5, <1>7 DEF SentSound
<1>10. NextSound'
  BY <1>5 DEF NextSound
<1>11. SeedsUsed'
  <2>1. phase \in {"down", "loading"} => appends' = {}
    BY <1>7 DEF ChainInv, SeedsUsed
  <2> QED BY <2>1, <1>5 DEF ChainInv, SeedsUsed
<1>12. ChainInv'
  BY <1>4, <1>5, <1>8, <1>9, <1>10, <1>11 DEF ChainInv
<1>13. \A i \in 1..Len(rows) : rows'[i] = rows[i]
  <2>1. CASE rows' = rows BY <2>1
  <2>2. CASE rows' = Append(rows, [what |-> a.what, revealed |-> NoSeed])
    <3>1. [what |-> a.what, revealed |-> NoSeed] \in Rows BY <1>2 DEF Rows, NoSeed
    <3> QED BY <2>2, <3>1
  <2> QED BY <1>4, <2>1, <2>2
<1> QED BY <1>4, <1>5, <1>12, <1>13

\* Revealing.
LEMMA RevealStepKeeps ==
    ASSUME ChainInv,
           \/ \E v \in reveals : RevealExec(v) \/ RevealFails(v)
           \/ \E v \in late.reveals : LateReveal(v)
    PROVE  /\ ChainInv' /\ made' = made
           /\ UNCHANGED <<epoch, seed, history, prev, appends, unrecorded, phase, head, weather, late.appends>>
           /\ Len(rows') = Len(rows)
           /\ \E v \in reveals \cup late.reveals :
                 \A i \in 1..Len(rows) :
                    /\ rows'[i].what = rows[i].what
                    /\ \/ rows'[i].revealed = rows[i].revealed
                       \/ rows'[i].revealed = v.seed /\ rows[i].what.epoch = v.epoch
           /\ \A w \in reveals' \cup late'.reveals :
                 \E v \in reveals \cup late.reveals : w.epoch = v.epoch /\ w.seed = v.seed
<1> USE ChainInvParts
<1>1. PICK v \in reveals \cup late.reveals :
          \/ v \in reveals /\ (RevealExec(v) \/ RevealFails(v))
          \/ v \in late.reveals /\ LateReveal(v)
  OBVIOUS
<1>2. v.seed \in 1..made /\ v \in Reveals
  OBVIOUS
<1>3. rows' = rows \/ RevealRow(v)
  BY <1>1 DEF RevealExec, RevealFails, LateReveal
<1>4. /\ ChainedRows(rows', made) /\ Len(rows') = Len(rows)
      /\ \A i \in 1..Len(rows) :
            /\ rows'[i].what = rows[i].what
            /\ \/ rows'[i].revealed = rows[i].revealed
               \/ rows'[i].revealed = v.seed /\ rows[i].what.epoch = v.epoch
  <2>1. CASE rows' = rows BY <2>1
  <2>2. CASE RevealRow(v) BY <2>2, <1>2, RevealKeeps
  <2> QED BY <1>3, <2>1, <2>2
<1>5. UNCHANGED <<made, epoch, seed, ticked, history, prev, appends, unrecorded, phase, restarts, head, weather>>
      /\ late' \in [appends : SUBSET Appends, reveals : SUBSET Reveals]
      /\ late'.appends = late.appends /\ late'.reveals \subseteq late.reveals
  BY <1>1 DEF RevealExec, RevealFails, LateReveal, memoryVars, callVars, lifeVars
<1>6. /\ phase \in {"down", "loading"} => reveals' = {}
      /\ \A w \in reveals' : w \in Reveals /\ w.seed \in 1..made
                             /\ \E u \in reveals \cup late.reveals : w.epoch = u.epoch /\ w.seed = u.seed
  <2>1. CASE reveals' \subseteq reveals
    BY <2>1 DEF ChainInv, SeedsUsed
  <2>2. CASE v \in reveals /\ reveals' = (reveals \ {v}) \cup
                 (IF v.try = 3 THEN {} ELSE {[v EXCEPT !.try = @ + 1]})
    <3>1. CASE v.try = 3
      BY <2>2, <3>1 DEF ChainInv, SeedsUsed
    <3>2. CASE v.try # 3
      <4> DEFINE u == [v EXCEPT !.try = @ + 1]
      <4>0. v.try \in {1, 2}
        BY <3>2, <1>2 DEF Reveals, Tries
      <4>1. u \in Reveals /\ u.epoch = v.epoch /\ u.seed = v.seed
        <5>1. v.try + 1 \in Tries BY <4>0 DEF Tries
        <5>2. v \in [epoch : Nat, seed : Nat, try : Tries] BY <1>2 DEF Reveals
        <5> QED BY <5>1, <5>2 DEF Reveals
      <4>2. reveals' \subseteq reveals \cup {u}
        BY <2>2, <3>2
      <4>3. phase \notin {"down", "loading"}
        BY <2>2 DEF ChainInv, SeedsUsed
      <4> HIDE DEF u
      <4> QED BY <4>1, <4>2, <4>3, <1>2
    <3> QED BY <3>1, <3>2
  <2> QED BY <1>1, <2>1, <2>2 DEF RevealExec, RevealFails, LateReveal, callVars
<1>7. ChainTypeOK'
  <2>1. rows' \in Seq(Rows) BY <1>4 DEF ChainedRows
  <2> QED BY <2>1, <1>5, <1>6 DEF ChainTypeOK
<1>8. SentSound' /\ NextSound'
  BY <1>5 DEF SentSound, NextSound
<1>9. SeedsUsed'
  BY <1>5, <1>6 DEF ChainInv, SeedsUsed
<1>10. ChainInv'
  BY <1>4, <1>5, <1>7, <1>8, <1>9 DEF ChainInv
<1>11. \A w \in reveals' \cup late'.reveals :
          \E u \in reveals \cup late.reveals : w.epoch = u.epoch /\ w.seed = u.seed
  BY <1>5, <1>6
<1> QED BY <1>4, <1>5, <1>10, <1>11

\* No step leaves the invariant.
LEMMA ChainInvNext == ChainInv /\ [ChainNext]_chainVars => ChainInv'
<1> SUFFICES ASSUME ChainInv, [ChainNext]_chainVars PROVE ChainInv'
  OBVIOUS
<1>1. CASE Boot \/ Started
  BY <1>1, StartKeeps
<1>2. CASE Tick \/ Rotate \/ Shutdown
  BY <1>2, RunKeeps
<1>3. CASE Exit \/ Crash
  <2>1. Forget /\ restarts' \in Nat
    BY <1>3, ChainInvParts DEF Exit, Crash
  <2> QED BY <2>1, ForgetKeeps
<1>4. CASE \/ \E a \in appends : AppendExec(a) \/ AppendFails(a)
           \/ \E a \in late.appends : LateAppend(a)
  BY <1>4, AppendKeeps
<1>5. CASE \/ \E v \in reveals : RevealExec(v) \/ RevealFails(v)
           \/ \E v \in late.reveals : LateReveal(v)
  BY <1>5, RevealStepKeeps
<1>6. CASE UNCHANGED chainVars
  <2>1. UNCHANGED <<rows, made, epoch, seed, ticked, history, prev, appends, reveals, unrecorded,
                    phase, restarts, head, weather, late>>
    BY <1>6 DEF chainVars, memoryVars, callVars, lifeVars
  <2>2. ChainTypeOK' BY <2>1 DEF ChainInv, ChainTypeOK
  <2> QED BY <2>1, <2>2 DEF ChainInv, SentSound, NextSound, SeedsUsed
<1> QED BY <1>1, <1>2, <1>3, <1>4, <1>5, <1>6 DEF ChainNext

-----------------------------------------------------------------------------
(* A seed in use is secret *)

\* No step publishes the seed that prices are made from.
LEMMA SecretNext == ChainInv /\ LiveSeedSecret /\ [ChainNext]_chainVars => LiveSeedSecret'
<1> SUFFICES ASSUME ChainInv, LiveSeedSecret, [ChainNext]_chainVars, phase' = "up"
             PROVE  /\ \A i \in DOMAIN rows' : rows'[i].revealed # seed'
                    /\ \A v \in reveals' \cup late'.reveals : v.seed # seed'
                    /\ \A h \in history' : h.open <=> h.seed = seed'
  BY DEF LiveSeedSecret
<1> USE ChainInvParts
<1>1. CASE Started
  <2>1. UNCHANGED <<rows, reveals, late>> /\ OpenEpoch(head.hash, head.epoch + 1, {})
    BY <1>1 DEF Started
  <2>2. seed' = made + 1 /\ \A h \in history' : h.open /\ h.seed = seed'
    BY <2>1 DEF OpenEpoch
  <2>3. \A i \in DOMAIN rows : rows[i].revealed \in 0..made
    BY DEF ChainedRows
  <2>4. \A v \in reveals \cup late.reveals : v.seed \in 1..made
    OBVIOUS
  <2> QED BY <2>1, <2>2, <2>3, <2>4
<1>2. CASE Rotate
  <2> DEFINE v == [epoch |-> epoch, seed |-> seed, try |-> 1]
             here == [epoch |-> epoch + 1, seed |-> made + 1, open |-> TRUE]
  <2>1. UNCHANGED <<rows, late>> /\ reveals' = reveals \cup {v} /\ phase = "up"
        /\ seed' = made + 1 /\ history' = Closed \cup {here}
    BY <1>2 DEF Rotate, CloseEpoch, OpenEpoch
  <2>2. \A i \in DOMAIN rows : rows[i].revealed \in 0..made
    BY DEF ChainedRows
  <2>3. \A w \in reveals' \cup late'.reveals : w.seed \in 0..made
    <3>1. seed \in 0..made BY DEF ChainInv, SeedsUsed
    <3>2. v.seed \in 0..made BY <3>1
    <3>3. \A w \in reveals \cup late.reveals : w.seed \in 0..made OBVIOUS
    <3> QED BY <2>1, <3>2, <3>3
  <2>4. ASSUME NEW h \in Closed PROVE ~h.open /\ h.seed # made + 1
    <3>1. PICK g \in history : h = [g EXCEPT !.open = g.open /\ g.seed # seed]
      BY ClosedKeeps
    <3>2. g \in [epoch : Nat, seed : Nat, open : BOOLEAN]
      OBVIOUS
    <3>3. g.open <=> g.seed = seed
      BY <2>1 DEF LiveSeedSecret
    <3>4. h.open = (g.open /\ g.seed # seed)
      BY <3>1, <3>2
    <3>5. h.seed \in 1..made
      BY ClosedKeeps
    <3>6. ~h.open
      BY <3>3, <3>4, Zenon
    <3>7. h.seed # made + 1
      BY <3>5
    <3> QED BY <3>6, <3>7
  <2>5. here.open /\ here.seed = seed'
    BY <2>1
  <2> HIDE DEF v, here
  <2>6. \A h \in history' : h.open <=> h.seed = seed'
    BY <2>1, <2>4, <2>5
  <2>7. \A i \in DOMAIN rows' : rows'[i].revealed # seed'
    BY <2>1, <2>2
  <2> QED BY <2>1, <2>3, <2>6, <2>7
<1>3. CASE Tick
  <2>1. UNCHANGED <<rows, seed, history, reveals, late, phase>>
    BY <1>3 DEF Tick, callVars, lifeVars
  <2> QED BY <2>1 DEF LiveSeedSecret
<1>4. CASE \/ \E a \in appends : AppendExec(a) \/ AppendFails(a)
           \/ \E a \in late.appends : LateAppend(a)
  <2>1. /\ UNCHANGED <<seed, history, reveals, phase, late.reveals>>
        /\ \A i \in 1..Len(rows) : rows'[i] = rows[i]
        /\ \/ rows' = rows
           \/ \E a \in appends \cup late.appends :
                 rows' = Append(rows, [what |-> a.what, revealed |-> NoSeed])
    BY <1>4, AppendKeeps
  <2>2. seed > 0
    BY <2>1 DEF ChainInv, SeedsUsed
  <2>3. \A i \in DOMAIN rows' : i \in 1..Len(rows) \/ rows'[i].revealed = NoSeed
    <3>1. ASSUME NEW a \in appends \cup late.appends,
                 rows' = Append(rows, [what |-> a.what, revealed |-> NoSeed])
          PROVE  \A i \in DOMAIN rows' : i \in 1..Len(rows) \/ rows'[i].revealed = NoSeed
      <4> DEFINE new == [what |-> a.what, revealed |-> NoSeed]
      <4>1. a.what \in Commitments OBVIOUS
      <4>2. new \in Rows BY <4>1 DEF Rows, NoSeed
      <4>3. new.revealed = NoSeed OBVIOUS
      <4> HIDE DEF new
      <4>4. DOMAIN Append(rows, new) = 1..Len(rows) + 1 /\ Append(rows, new)[Len(rows) + 1] = new
            /\ Len(rows) \in Nat
        BY <4>2
      <4>5. rows' = Append(rows, new) BY <3>1 DEF new
      <4> QED BY <4>3, <4>4, <4>5
    <3>2. CASE rows' = rows
      BY <3>2
    <3> QED BY <2>1, <3>1, <3>2
  <2>4. ASSUME NEW i \in DOMAIN rows' PROVE rows'[i].revealed # seed'
    <3>1. CASE i \in 1..Len(rows)
      <4>1. rows[i].revealed # seed BY <3>1, <2>1 DEF LiveSeedSecret
      <4> QED BY <4>1, <3>1, <2>1
    <3>2. CASE rows'[i].revealed = NoSeed
      BY <3>2, <2>1, <2>2 DEF NoSeed
    <3> QED BY <3>1, <3>2, <2>3
  <2>5. /\ \A v \in reveals' \cup late'.reveals : v.seed # seed'
        /\ \A h \in history' : h.open <=> h.seed = seed'
    BY <2>1 DEF LiveSeedSecret
  <2> QED BY <2>4, <2>5
<1>5. CASE \/ \E v \in reveals : RevealExec(v) \/ RevealFails(v)
           \/ \E v \in late.reveals : LateReveal(v)
  <2>1. /\ UNCHANGED <<seed, history, phase>> /\ ChainInv'
        /\ Len(rows') = Len(rows)
        /\ \E v \in reveals \cup late.reveals :
              \A i \in 1..Len(rows) :
                 \/ rows'[i].revealed = rows[i].revealed
                 \/ rows'[i].revealed = v.seed
        /\ \A w \in reveals' \cup late'.reveals :
              \E v \in reveals \cup late.reveals : w.seed = v.seed
    BY <1>5, RevealStepKeeps
  <2>2. DOMAIN rows' = 1..Len(rows) /\ DOMAIN rows = 1..Len(rows)
    <3>1. rows' \in Seq(Rows) BY <2>1 DEF ChainInv, ChainTypeOK
    <3> QED BY <3>1, <2>1
  <2> QED BY <2>1, <2>2 DEF LiveSeedSecret
<1>6. CASE UNCHANGED chainVars
  <2>1. UNCHANGED <<rows, seed, history, reveals, late, phase>>
    BY <1>6 DEF chainVars, memoryVars, callVars, lifeVars
  <2> QED BY <2>1 DEF LiveSeedSecret
<1>7. ~(Boot \/ Shutdown \/ Exit \/ Crash)
  BY DEF Boot, Shutdown, Exit, Crash, Forget
<1> QED BY <1>1, <1>2, <1>3, <1>4, <1>5, <1>6, <1>7 DEF ChainNext

-----------------------------------------------------------------------------
(* What is missing has been counted *)

\* Of a finite set, what loses members or gains one has at most one more.
LEMMA OneMore ==
    ASSUME NEW S, IsFiniteSet(S), NEW G \in SUBSET S, NEW H \in SUBSET S, NEW x,
           NEW u \in Nat, Cardinality(G) <= u
    PROVE  /\ H \subseteq G => Cardinality(H) <= u
           /\ H \subseteq G \cup {x} => Cardinality(H) <= u + 1
<1>1. IsFiniteSet(G) /\ IsFiniteSet(H) /\ Cardinality(G) \in Nat /\ Cardinality(H) \in Nat
  BY FS_Subset, FS_CardinalityType
<1>2. H \subseteq G => Cardinality(H) <= Cardinality(G)
  BY <1>1, FS_Subset
<1>3. IsFiniteSet(G \cup {x}) /\ Cardinality(G \cup {x}) <= Cardinality(G) + 1
      /\ Cardinality(G \cup {x}) \in Nat
  <2>1. IsFiniteSet(G \cup {x})
        /\ Cardinality(G \cup {x}) = IF x \in G THEN Cardinality(G) ELSE Cardinality(G) + 1
    BY <1>1, FS_AddElement
  <2> QED BY <1>1, <2>1
<1>4. H \subseteq G \cup {x} => Cardinality(H) <= Cardinality(G \cup {x})
  BY <1>1, <1>3, FS_Subset
<1> QED BY <1>1, <1>2, <1>3, <1>4

\* The seeds in the record, and those on their way there.
InRecord == {rows[i].what.seed : i \in DOMAIN rows}
OnItsWay == {a.what.seed : a \in appends}

\* So what is gone is neither, now and after a step.
LEMMA GoneIs ==
    /\ Absent = SeedsHere \ (InRecord \cup OnItsWay)
    /\ Absent' = SeedsHere' \ (InRecord' \cup OnItsWay')
BY DEF Absent, InRecord, OnItsWay

\* The record only grows.
LEMMA RecordGrows == ChainInv /\ [ChainNext]_chainVars => InRecord \subseteq InRecord'
<1> SUFFICES ASSUME ChainInv, [ChainNext]_chainVars, NEW i \in DOMAIN rows
             PROVE  i \in DOMAIN rows' /\ rows'[i].what.seed = rows[i].what.seed
  BY DEF InRecord
<1> USE ChainInvParts
<1>0. ChainInv' /\ DOMAIN rows = 1..Len(rows) /\ DOMAIN rows' = 1..Len(rows') /\ Len(rows) \in Nat
  <2>1. ChainInv' BY ChainInvNext
  <2>2. rows' \in Seq(Rows) BY <2>1 DEF ChainInv, ChainTypeOK
  <2> QED BY <2>1, <2>2
<1>1. CASE rows' = rows
  BY <1>1
<1>2. CASE \/ \E a \in appends : AppendExec(a) \/ AppendFails(a)
           \/ \E a \in late.appends : LateAppend(a)
  <2>1. /\ \A j \in 1..Len(rows) : rows'[j] = rows[j]
        /\ \/ rows' = rows
           \/ \E a \in appends \cup late.appends :
                 rows' = Append(rows, [what |-> a.what, revealed |-> NoSeed])
    BY <1>2, AppendKeeps
  <2>2. ASSUME NEW a \in appends \cup late.appends,
               rows' = Append(rows, [what |-> a.what, revealed |-> NoSeed])
        PROVE  Len(rows') = Len(rows) + 1
    <3>0. a.what \in Commitments OBVIOUS
    <3>1. [what |-> a.what, revealed |-> NoSeed] \in Rows BY <3>0 DEF Rows, NoSeed
    <3> QED BY <2>2, <3>1
  <2>3. Len(rows') >= Len(rows)
    <3>1. CASE rows' = rows BY <3>1, <1>0
    <3>2. CASE rows' # rows
      <4>1. Len(rows') = Len(rows) + 1 BY <3>2, <2>1, <2>2
      <4> QED BY <4>1, <1>0
    <3> QED BY <3>1, <3>2
  <2>4. Len(rows') \in Nat
    <3>1. rows' \in Seq(Rows) BY <1>0 DEF ChainInv, ChainTypeOK
    <3> QED BY <3>1
  <2>5. i \in 1..Len(rows)
    BY <1>0
  <2>6. i \in 1..Len(rows')
    BY <2>3, <2>4, <2>5, <1>0
  <2> QED BY <2>1, <2>5, <2>6, <1>0
<1>3. CASE \/ \E v \in reveals : RevealExec(v) \/ RevealFails(v)
           \/ \E v \in late.reveals : LateReveal(v)
  BY <1>0, <1>3, RevealStepKeeps
<1>4. CASE Boot \/ Started \/ Tick \/ Rotate \/ Shutdown \/ Exit \/ Crash \/ UNCHANGED chainVars
  BY <1>1, <1>4 DEF Boot, Started, Tick, Rotate, Shutdown, Exit, Crash, Forget, chainVars
<1> QED BY <1>2, <1>3, <1>4 DEF ChainNext

\* An epoch that opens is on its way to the record.
LEMMA OpenSends ==
    ASSUME NEW from, NEW n, NEW closed, OpenEpoch(from, n, closed)
    PROVE  made + 1 \in OnItsWay' /\ OnItsWay \subseteq OnItsWay'
<1> DEFINE c == [epoch |-> n, seed |-> made + 1, prev |-> from, hash |-> ChainHash(from, made + 1)]
           a == [what |-> c, try |-> 1]
<1>1. appends' = appends \cup {a}
  BY DEF OpenEpoch, Announce
<1>2. a.what.seed = made + 1
  OBVIOUS
<1> HIDE DEF a
<1> QED BY <1>1, <1>2 DEF OnItsWay

\* No step loses an epoch of the process uncounted.
LEMMA CountedNext == ChainInv /\ Counted /\ [ChainNext]_chainVars => Counted'
<1> SUFFICES ASSUME ChainInv, Counted, [ChainNext]_chainVars PROVE Counted'
  OBVIOUS
<1> USE ChainInvParts
<1>0. InRecord \subseteq InRecord'
  BY RecordGrows
<1>1. IsFiniteSet(SeedsHere) /\ Absent \in SUBSET SeedsHere /\ Cardinality(Absent) <= unrecorded
  BY GoneIs DEF Counted
\* Where the process knows no other epochs, and nothing more is gone or one more is counted.
<1>2. ASSUME SeedsHere' = SeedsHere, unrecorded' \in Nat,
             NEW x, \/ Absent' \subseteq Absent /\ unrecorded' >= unrecorded
                    \/ Absent' \subseteq Absent \cup {x} /\ unrecorded' = unrecorded + 1
      PROVE  Counted'
  <2>1. Absent' \in SUBSET SeedsHere
    BY <1>2, GoneIs
  <2>2. /\ Absent' \subseteq Absent => Cardinality(Absent') <= unrecorded
        /\ Absent' \subseteq Absent \cup {x} => Cardinality(Absent') <= unrecorded + 1
    <3>1. \A u \in Nat : Cardinality(Absent) <= u =>
            /\ Absent' \subseteq Absent => Cardinality(Absent') <= u
            /\ Absent' \subseteq Absent \cup {x} => Cardinality(Absent') <= u + 1
      BY ONLY <1>1, <2>1, OneMore
    <3> QED BY <1>1, <3>1
  <2>3. Cardinality(Absent') \in Nat
    BY <1>1, <2>1, FS_Subset, FS_CardinalityType
  <2>4. Cardinality(Absent') <= unrecorded'
    BY <1>2, <2>2, <2>3
  <2> QED BY <1>1, <1>2, <2>4 DEF Counted
<1>3. CASE Boot \/ Tick \/ UNCHANGED chainVars
  <2>1. UNCHANGED <<rows, history, appends, unrecorded>>
    BY <1>3 DEF Boot, Tick, memoryVars, callVars, chainVars
  <2> QED BY <2>1 DEF Counted, SeedsHere, Absent
<1>4. CASE Exit \/ Crash
  <2>1. history' = {} /\ unrecorded' = 0
    BY <1>4 DEF Exit, Crash, Forget
  <2>2. SeedsHere' = {}
    BY <2>1 DEF SeedsHere
  <2>3. Absent' = {}
    BY <2>2, GoneIs
  <2> QED BY <2>1, <2>2, <2>3, FS_EmptySet DEF Counted
<1>5. CASE Started
  <2>1. /\ history' = {[epoch |-> head.epoch + 1, seed |-> made + 1, open |-> TRUE]}
        /\ OpenEpoch(head.hash, head.epoch + 1, {})
        /\ unrecorded' = unrecorded
    BY <1>5 DEF Started, OpenEpoch
  <2>2. SeedsHere' = {made + 1}
    BY <2>1 DEF SeedsHere
  <2>3. made + 1 \in OnItsWay'
    BY <2>1, OpenSends
  <2>4. Absent' = {}
    BY <2>2, <2>3, GoneIs
  <2>5. Cardinality(Absent') = 0 /\ IsFiniteSet(SeedsHere')
    BY <2>2, <2>4, FS_EmptySet, FS_Singleton
  <2> QED BY <2>1, <2>5 DEF Counted
<1>6. CASE Rotate
  <2> DEFINE here == [epoch |-> epoch + 1, seed |-> made + 1, open |-> TRUE]
  <2>1. /\ history' = Closed \cup {here}
        /\ OpenEpoch(prev, epoch + 1, Closed)
        /\ unrecorded' = unrecorded
    BY <1>6 DEF Rotate, OpenEpoch
  <2>2. SeedsHere' \subseteq SeedsHere \cup {made + 1}
    <3>1. here.seed = made + 1 OBVIOUS
    <3>2. \A h \in Closed : h.seed \in SeedsHere
      <4>1. ASSUME NEW g \in history PROVE [g EXCEPT !.open = g.open /\ g.seed # seed].seed = g.seed
        OBVIOUS
      <4> QED BY <4>1, ClosedKeeps DEF SeedsHere
    <3> HIDE DEF here
    <3> QED BY <2>1, <3>1, <3>2 DEF SeedsHere
  <2>3. made + 1 \in OnItsWay' /\ OnItsWay \subseteq OnItsWay'
    BY <2>1, OpenSends
  <2>4. Absent' \subseteq Absent
    BY <2>2, <2>3, <1>0, GoneIs
  <2>5. IsFiniteSet(SeedsHere')
    <3>1. IsFiniteSet(SeedsHere \cup {made + 1}) BY <1>1, FS_AddElement
    <3> QED BY <3>1, <2>2, FS_Subset
  <2>6. Cardinality(Absent') <= unrecorded
    <3>1. Absent' \in SUBSET SeedsHere BY <2>4, <1>1
    <3> QED BY <3>1, <2>4, <1>1, OneMore
  <2> QED BY <2>1, <2>5, <2>6 DEF Counted
<1>7. CASE Shutdown
  <2>1. history' = Closed /\ UNCHANGED <<rows, appends, unrecorded>>
    BY <1>7 DEF Shutdown
  <2>2. SeedsHere' = SeedsHere
    <3>1. \A h \in Closed : h.seed \in SeedsHere
      <4>1. ASSUME NEW g \in history PROVE [g EXCEPT !.open = g.open /\ g.seed # seed].seed = g.seed
        OBVIOUS
      <4> QED BY <4>1, ClosedKeeps DEF SeedsHere
    <3>2. \A g \in history : \E h \in Closed : h.seed = g.seed
      BY ClosedKeeps
    <3> QED BY <2>1, <3>1, <3>2 DEF SeedsHere
  <2>3. Absent' = Absent
    BY <2>1, <2>2, GoneIs DEF InRecord, OnItsWay
  <2> QED BY <2>1, <2>2, <2>3 DEF Counted
<1>8. ASSUME NEW a \in appends, AppendExec(a) \/ AppendFails(a)
      PROVE  Counted'
  <2> DEFINE x == a.what.seed
  <2>1. SeedsHere' = SeedsHere
    BY <1>8 DEF AppendExec, AppendFails, memoryVars, SeedsHere
  <2>2. \A b \in appends : b = a \/ b \in appends'
    BY <1>8 DEF AppendExec, AppendFails, RetryAppend
  <2>3. OnItsWay \subseteq OnItsWay' \cup {x}
    BY <2>2 DEF OnItsWay
  <2>4. Absent' \subseteq Absent \cup {x}
    BY <2>1, <2>3, <1>0, GoneIs
  <2>5. CASE unrecorded' = unrecorded + 1
    <3>1. unrecorded' \in Nat BY <2>5
    <3> QED BY <3>1, <2>1, <2>4, <2>5, <1>2
  <2>6. CASE unrecorded' # unrecorded + 1
    <3>1. x \in InRecord' \cup OnItsWay'
      <4>1. CASE AppendExec(a)
        <5> DEFINE new == [what |-> a.what, revealed |-> NoSeed]
        <5>1. ~Refused(a.what) BY <4>1, <2>6 DEF AppendExec
        <5>2. rows' = Append(rows, new) BY <4>1, <5>1 DEF AppendExec, RecordRow
        <5>3. a.what \in Commitments OBVIOUS
        <5>4. new \in Rows /\ new.what.seed = x BY <5>3 DEF Rows, NoSeed
        <5> HIDE DEF new
        <5>5. Len(rows) + 1 \in DOMAIN rows' /\ rows'[Len(rows) + 1] = new BY <5>2, <5>4
        <5> QED BY <5>4, <5>5 DEF InRecord
      <4>2. CASE AppendFails(a)
        <5>1. a.try # 3 /\ [a EXCEPT !.try = @ + 1] \in appends'
          BY <4>2, <2>6 DEF AppendFails, RetryAppend
        <5>2. a \in Appends OBVIOUS
        <5>3. [a EXCEPT !.try = @ + 1].what = a.what BY <5>2 DEF Appends
        <5> QED BY <5>1, <5>3 DEF OnItsWay
      <4> QED BY <1>8, <4>1, <4>2
    <3>2. Absent' \subseteq Absent
      BY <3>1, <2>1, <2>3, <1>0, GoneIs
    <3>3. unrecorded' = unrecorded
      BY <1>8, <2>6 DEF AppendExec, AppendFails, RetryAppend
    <3>4. unrecorded' \in Nat /\ unrecorded' >= unrecorded
      BY <3>3
    <3> QED BY <3>2, <3>4, <2>1, <1>2
  <2> QED BY <2>5, <2>6
<1>9. CASE \E a \in late.appends : LateAppend(a)
  <2>1. UNCHANGED <<history, appends, unrecorded>>
    BY <1>9 DEF LateAppend, memoryVars, callVars
  <2>2. SeedsHere' = SeedsHere /\ OnItsWay' = OnItsWay
    BY <2>1 DEF SeedsHere, OnItsWay
  <2>3. Absent' \subseteq Absent
    BY <2>2, <1>0, GoneIs
  <2>4. unrecorded' \in Nat /\ unrecorded' >= unrecorded
    BY <2>1
  <2> QED BY <2>2, <2>3, <2>4, <1>2
<1>10. CASE \/ \E v \in reveals : RevealExec(v) \/ RevealFails(v)
            \/ \E v \in late.reveals : LateReveal(v)
  <2>1. UNCHANGED <<history, appends, unrecorded>>
    BY <1>10, RevealStepKeeps
  <2>2. SeedsHere' = SeedsHere /\ OnItsWay' = OnItsWay
    BY <2>1 DEF SeedsHere, OnItsWay
  <2>3. Absent' \subseteq Absent
    BY <2>2, <1>0, GoneIs
  <2>4. unrecorded' \in Nat /\ unrecorded' >= unrecorded
    BY <2>1
  <2> QED BY <2>2, <2>3, <2>4, <1>2
<1> QED BY <1>3, <1>4, <1>5, <1>6, <1>7, <1>8, <1>9, <1>10 DEF ChainNext

\* Epochs of a process and their seeds are as many.
LEMMA MissingIsCounted == ChainInv /\ Counted => MissingCounted
<1> SUFFICES ASSUME ChainInv, Counted PROVE MissingCounted
  OBVIOUS
<1> DEFINE Missing == {h \in history : h.seed \notin InRecord \cup OnItsWay}
           f == [h \in Missing |-> h.seed]
<1>1. IsFiniteSet(Absent) /\ Cardinality(Absent) \in Nat /\ Cardinality(Absent) <= unrecorded /\ unrecorded \in Nat
  <2>1. Absent \in SUBSET SeedsHere BY GoneIs
  <2> QED BY <2>1, FS_Subset, FS_CardinalityType, ChainInvParts DEF Counted
<1>2. \A h \in Missing : h.seed \in Absent
  BY GoneIs DEF SeedsHere
<1>3. \A h, g \in Missing : h.seed = g.seed => h = g
  BY DEF ChainInv, SeedsUsed
<1>4. f \in [Missing -> Absent] /\ \A h, g \in Missing : f[h] = f[g] => h = g
  BY <1>2, <1>3
<1> HIDE DEF f
<1>5. IsFiniteSet(Missing) /\ Cardinality(Missing) <= Cardinality(Absent)
  BY <1>1, <1>4, NoMoreThan
<1>6. Cardinality(Missing) \in Nat
  BY <1>5, FS_CardinalityType
<1>7. Cardinality(Missing) <= unrecorded
  BY <1>1, <1>5, <1>6
<1> QED BY <1>7 DEF MissingCounted, InRecord, OnItsWay

-----------------------------------------------------------------------------
(* Where processes are only killed, nothing is refused *)

\* An epoch is opened where the chain ends: its number is new, and its append is the next.
LEMMA OpenQuietly ==
    ASSUME ChainInv, NEW from \in Seq(Nat), from = HeadHash, NEW n, n = Len(from) + 1, NEW closed,
           OpenEpoch(from, n, closed), UNCHANGED rows, appends = {}
    PROVE  /\ \E a \in appends' : appends' = {a} /\ Next1(a)'
           /\ OneSeed(epoch, seed)'
           /\ \A m \in Nat, s \in Nat : m < n /\ OneSeed(m, s) => OneSeed(m, s)'
<1> USE ChainInvParts
<1> DEFINE c == [epoch |-> n, seed |-> made + 1, prev |-> from, hash |-> ChainHash(from, made + 1)]
           a == [what |-> c, try |-> 1]
<1>1. appends' = {a} /\ prev' = c.hash /\ epoch' = n /\ seed' = made + 1
  BY DEF OpenEpoch, Announce
<1>2. a.what = c /\ c.epoch = n /\ c.seed = made + 1 /\ c.prev = from
  OBVIOUS
<1> HIDE DEF a, c
<1>3. HeadHash' = HeadHash
  BY DEF HeadHash
<1>4. \E b \in appends' : appends' = {b} /\ Next1(b)'
  BY <1>1, <1>2, <1>3 DEF Next1
<1>5. \A i \in DOMAIN rows : rows[i].what.epoch # n
  <2>1. n = Len(rows) + 1 /\ Len(rows) \in Nat BY HeadFacts
  <2>2. \A i \in 1..Len(rows) : rows[i].what.epoch = i BY DEF ChainedRows
  <2>3. \A i \in 1..Len(rows) : i # Len(rows) + 1 BY <2>1
  <2>4. DOMAIN rows = 1..Len(rows) OBVIOUS
  <2> QED BY <2>1, <2>2, <2>3, <2>4
<1>6. OneSeed(epoch, seed)'
  BY <1>1, <1>2, <1>5 DEF OneSeed
<1>7. \A m \in Nat, s \in Nat : m < n /\ OneSeed(m, s) => OneSeed(m, s)'
  <2>1. n \in Nat OBVIOUS
  <2> QED BY <2>1, <1>1, <1>2 DEF OneSeed
<1> QED BY <1>4, <1>6, <1>7

\* The append on its way is taken, and the chain ends with it.
LEMMA AppendQuietly ==
    ASSUME ChainInv, NEW a \in appends, appends = {a}, Next1(a), AppendExec(a)
    PROVE  /\ appends' = {} /\ unrecorded' = unrecorded
           /\ Len(rows') = Len(rows) + 1 /\ rows'[Len(rows) + 1] = [what |-> a.what, revealed |-> NoSeed]
           /\ \A i \in 1..Len(rows) : rows'[i] = rows[i]
           /\ DOMAIN rows' = 1..(Len(rows) + 1) /\ HeadHash' = a.what.hash
<1> USE ChainInvParts
<1> DEFINE c == a.what
           new == [what |-> c, revealed |-> NoSeed]
<1>1. c \in Commitments /\ c.hash = Append(c.prev, c.seed) /\ c.epoch = Len(c.hash)
  BY DEF Sound, ChainHash
<1>2. c.epoch = Len(c.prev) + 1 /\ Len(c.prev) \in Nat
  <2>1. \A from \in Seq(Nat), s \in Nat : Len(Append(from, s)) = Len(from) + 1 /\ Len(from) \in Nat
    OBVIOUS
  <2>2. c.prev \in Seq(Nat) /\ c.seed \in Nat BY <1>1 DEF Commitments
  <2> QED BY <1>1, <2>1, <2>2
<1>3. ~Refused(c)
  <2>1. c.prev = HeadHash BY DEF Next1
  <2>2. Len(c.prev) = HeadEpoch BY <2>1, HeadFacts
  <2>3. ~(c.epoch <= HeadEpoch) BY <1>2, <2>2
  <2> QED BY <2>1, <2>3 DEF Refused
<1>4. rows' = Append(rows, new) /\ appends' = {} /\ unrecorded' = unrecorded
  BY <1>3 DEF AppendExec, RecordRow
<1>5. new \in Rows
  BY <1>1 DEF Rows, NoSeed
<1>6. new.what = c
  OBVIOUS
<1> HIDE DEF new
<1>7. Len(rows') = Len(rows) + 1 /\ rows'[Len(rows) + 1] = new /\ DOMAIN rows' = 1..(Len(rows) + 1)
      /\ rows' # <<>> /\ \A i \in 1..Len(rows) : rows'[i] = rows[i]
  BY <1>4, <1>5
<1>8. HeadHash' = c.hash
  BY <1>6, <1>7 DEF HeadHash, Last
<1> QED BY <1>4, <1>7, <1>8 DEF new

\* No step of it is refused.
LEMMA CalmNext == ChainInv /\ Calm /\ [ChainNext]_chainVars => Calm'
<1> SUFFICES ASSUME ChainInv, Quiet, weather \subseteq {"crash"}, [ChainNext]_chainVars PROVE Quiet'
  <2>1. ChainInv /\ [ChainNext]_chainVars => weather' = weather
    BY DEF ChainNext, Boot, Started, Tick, Rotate, Shutdown, Exit, Crash, Forget, AppendExec, AppendFails,
           RevealExec, RevealFails, LateAppend, LateReveal, lifeVars, chainVars
  <2> QED BY <2>1 DEF Calm
<1> USE ChainInvParts
<1>0. /\ "slow" \notin weather /\ "rpcError" \notin weather /\ "replyLost" \notin weather
      /\ "late" \notin weather /\ "loadFails" \notin weather
  OBVIOUS
<1>1. /\ unrecorded = 0 /\ late = NoRequests
      /\ phase = "loading" => head.hash = HeadHash
      /\ phase \in {"up", "stopping"} =>
            \/ appends = {} /\ prev = HeadHash
            \/ \E a \in appends : appends = {a} /\ Next1(a)
      /\ \A v \in reveals : OneSeed(v.epoch, v.seed)
      /\ phase = "up" => OneSeed(epoch, seed)
      /\ \A i \in DOMAIN rows : rows[i].revealed \in {NoSeed, rows[i].what.seed}
  BY DEF Quiet
<1>2. phase \in {"down", "loading"} => appends = {} /\ reveals = {}
  BY DEF ChainInv, SeedsUsed
<1>3. CASE Boot
  <2>1. UNCHANGED <<rows, epoch, seed, prev, appends, reveals, unrecorded, late>>
        /\ phase = "down" /\ phase' = "loading" /\ head'.hash = HeadHash
    BY <1>0, <1>3 DEF Boot, memoryVars, callVars, LoadHeads
  <2>2. HeadHash' = HeadHash BY <2>1 DEF HeadHash
  <2> QED BY <1>1, <1>2, <2>1, <2>2 DEF Quiet
<1>4. CASE Started
  <2>1. UNCHANGED <<rows, reveals, unrecorded, late>>
        /\ phase = "loading" /\ phase' = "up" /\ OpenEpoch(head.hash, head.epoch + 1, {})
    BY <1>4 DEF Started
  <2> DEFINE from == head.hash
             n == head.epoch + 1
  <2>2. from \in Seq(Nat) /\ from = HeadHash /\ n = Len(from) + 1 /\ OpenEpoch(from, n, {})
    BY <1>1, <2>1
  <2> HIDE DEF from, n
  <2>3. (\E a \in appends' : appends' = {a} /\ Next1(a)') /\ OneSeed(epoch, seed)'
    BY <1>2, <2>1, <2>2, OpenQuietly
  <2> QED BY <1>1, <1>2, <2>1, <2>3 DEF Quiet
<1>5. CASE Tick
  <2>1. UNCHANGED <<rows, epoch, seed, prev, appends, reveals, unrecorded, late, phase, head>>
    BY <1>5 DEF Tick, callVars, lifeVars
  <2> QED BY <2>1 DEF Quiet, OneSeed, Next1, HeadHash
<1>6. CASE Rotate
  <2> DEFINE v == [epoch |-> epoch, seed |-> seed, try |-> 1]
             n == epoch + 1
  <2>1. UNCHANGED <<rows, unrecorded, late, phase>> /\ phase = "up"
        /\ appends = {} /\ reveals = {} /\ reveals' = {v} /\ OpenEpoch(prev, n, Closed)
    BY <1>0, <1>6 DEF Rotate, CloseEpoch, lifeVars
  <2>2. prev \in Seq(Nat) /\ prev = HeadHash /\ n = Len(prev) + 1 /\ n \in Nat /\ epoch < n
    BY <1>1, <2>1
  <2>3. v.epoch = epoch /\ v.seed = seed
    OBVIOUS
  <2> HIDE DEF v, n
  <2>4. /\ \E a \in appends' : appends' = {a} /\ Next1(a)'
        /\ OneSeed(epoch, seed)'
        /\ \A m \in Nat, s \in Nat : m < n /\ OneSeed(m, s) => OneSeed(m, s)'
    BY <2>1, <2>2, OpenQuietly
  <2>5. OneSeed(epoch, seed)
    BY <1>1, <2>1
  <2>6. \A w \in reveals' : OneSeed(w.epoch, w.seed)'
    BY <2>1, <2>2, <2>3, <2>4, <2>5
  <2> QED BY <1>1, <2>1, <2>4, <2>6 DEF Quiet
<1>7. CASE Shutdown
  <2> DEFINE v == [epoch |-> epoch, seed |-> seed, try |-> 1]
  <2>1. UNCHANGED <<rows, epoch, seed, prev, appends, unrecorded, late>> /\ phase = "up" /\ phase' = "stopping"
        /\ reveals' = reveals \cup {v}
    BY <1>7 DEF Shutdown, CloseEpoch
  <2>2. OneSeed(v.epoch, v.seed)
    BY <1>1, <2>1
  <2> HIDE DEF v
  <2>3. \A w \in reveals' : OneSeed(w.epoch, w.seed)
    BY <1>1, <2>1, <2>2
  <2> QED BY <1>1, <2>1, <2>3 DEF Quiet, OneSeed, Next1, HeadHash
<1>8. CASE Exit \/ Crash
  <2>1. Forget
    BY <1>8 DEF Exit, Crash
  <2>2. rows' = rows /\ unrecorded' = 0 /\ phase' = "down" /\ reveals' = {} /\ late' = NoRequests
    BY <1>0, <1>1, <2>1 DEF Forget, NoRequests
  <2> QED BY <1>1, <2>2 DEF Quiet
<1>9. ASSUME NEW a \in appends, AppendExec(a) \/ AppendFails(a) PROVE Quiet'
  <2>1. AppendExec(a)
    BY <1>0, <1>9 DEF AppendFails
  <2>2. appends = {a} /\ Next1(a) /\ phase \in {"up", "stopping"}
    BY <1>1, <1>2
  <2>3. /\ appends' = {} /\ unrecorded' = unrecorded
        /\ rows'[Len(rows) + 1] = [what |-> a.what, revealed |-> NoSeed]
        /\ \A i \in 1..Len(rows) : rows'[i] = rows[i]
        /\ DOMAIN rows' = 1..(Len(rows) + 1) /\ HeadHash' = a.what.hash
    BY <2>1, <2>2, AppendQuietly
  <2>4. UNCHANGED <<epoch, seed, prev, reveals, phase, head, late>>
    BY <2>1 DEF AppendExec, memoryVars, lifeVars
  <2>5. Len(rows) \in Nat /\ DOMAIN rows = 1..Len(rows)
    OBVIOUS
  <2>6. \A i \in DOMAIN rows' : i \in DOMAIN rows \/ i = Len(rows) + 1
    BY SMTT(30), <2>3, <2>5
  <2>7. rows'[Len(rows) + 1].what = a.what /\ rows'[Len(rows) + 1].revealed = NoSeed
    BY <2>3
  <2>8. ASSUME NEW n, NEW s, OneSeed(n, s) PROVE OneSeed(n, s)'
    BY SMTT(30), <2>3, <2>5, <2>6, <2>7, <2>8 DEF OneSeed
  <2>9. \A i \in DOMAIN rows' : rows'[i].revealed \in {NoSeed, rows'[i].what.seed}
    BY <1>1, <2>3, <2>5, <2>6, <2>7
  <2>10. prev' = HeadHash'
    BY <2>2, <2>3, <2>4 DEF Next1
  <2> QED BY <1>1, <2>2, <2>3, <2>4, <2>8, <2>9, <2>10 DEF Quiet
<1>10. CASE \/ \E v \in reveals : RevealExec(v) \/ RevealFails(v)
            \/ \E v \in late.reveals : LateReveal(v)
  <2>1. late.reveals = {}
    BY <1>1 DEF NoRequests
  <2>2. /\ ChainInv'
        /\ UNCHANGED <<epoch, seed, prev, appends, unrecorded, phase, head>>
        /\ Len(rows') = Len(rows)
        /\ \E v \in reveals :
              \A i \in 1..Len(rows) :
                 /\ rows'[i].what = rows[i].what
                 /\ \/ rows'[i].revealed = rows[i].revealed
                    \/ rows'[i].revealed = v.seed /\ rows[i].what.epoch = v.epoch
        /\ \A w \in reveals' : \E v \in reveals : w.epoch = v.epoch /\ w.seed = v.seed
    BY <1>10, <2>1, RevealStepKeeps
  <2>3. late' = late
    BY <1>10, <2>1 DEF RevealExec, RevealFails
  <2>4. DOMAIN rows' = 1..Len(rows) /\ DOMAIN rows = 1..Len(rows)
    <3>1. rows' \in Seq(Rows) BY <2>2 DEF ChainInv, ChainTypeOK
    <3> QED BY <3>1, <2>2
  <2>5. HeadHash' = HeadHash
    <3>1. rows' \in Seq(Rows) BY <2>2 DEF ChainInv, ChainTypeOK
    <3>2. CASE rows = <<>>
      <4>1. rows' = <<>> BY <2>2, <3>1, <3>2
      <4> QED BY <3>2, <4>1 DEF HeadHash
    <3>3. CASE rows # <<>>
      <4>1. rows' # <<>> /\ Len(rows) \in 1..Len(rows) BY <2>2, <3>1, <3>3
      <4>2. rows'[Len(rows)].what = rows[Len(rows)].what BY <4>1, <2>2
      <4> QED BY <3>3, <4>1, <4>2, <2>2 DEF HeadHash, Last
    <3> QED BY <3>2, <3>3
  <2>6. ASSUME NEW n, NEW s, OneSeed(n, s) PROVE OneSeed(n, s)'
    BY <2>2, <2>4, <2>6 DEF OneSeed
  <2>7. \A i \in DOMAIN rows' : rows'[i].revealed \in {NoSeed, rows'[i].what.seed}
    <3>1. PICK v \in reveals :
              \A i \in 1..Len(rows) :
                 /\ rows'[i].what = rows[i].what
                 /\ \/ rows'[i].revealed = rows[i].revealed
                    \/ rows'[i].revealed = v.seed /\ rows[i].what.epoch = v.epoch
      BY <2>2
    <3>2. OneSeed(v.epoch, v.seed) BY <1>1
    <3>3. ASSUME NEW i \in 1..Len(rows)
          PROVE  rows'[i].revealed \in {NoSeed, rows[i].what.seed} /\ rows'[i].what = rows[i].what
      <4>1. CASE rows'[i].revealed = rows[i].revealed
        BY <1>1, <2>4, <3>1, <4>1
      <4>2. CASE rows'[i].revealed = v.seed /\ rows[i].what.epoch = v.epoch
        <5>1. rows[i].what.seed = v.seed BY <2>4, <3>2, <4>2 DEF OneSeed
        <5>2. rows'[i].what = rows[i].what BY <3>1
        <5> QED BY <4>2, <5>1, <5>2
      <4> QED BY <3>1, <4>1, <4>2
    <3> QED BY <2>4, <3>3
  <2>8. \A a \in appends : Next1(a) => Next1(a)'
    BY <2>2, <2>5 DEF Next1
  <2>9. \A w \in reveals' : OneSeed(w.epoch, w.seed)'
    BY <1>1, <2>2, <2>6
  <2> QED BY <1>1, <2>2, <2>3, <2>5, <2>6, <2>7, <2>8, <2>9 DEF Quiet
<1>11. CASE \E a \in late.appends : LateAppend(a)
  BY <1>1, <1>11 DEF NoRequests
<1>12. CASE UNCHANGED chainVars
  <2>1. UNCHANGED <<rows, epoch, seed, prev, appends, reveals, unrecorded, late, phase, head>>
    BY <1>12 DEF chainVars, memoryVars, callVars, lifeVars
  <2> QED BY <2>1 DEF Quiet, OneSeed, Next1, HeadHash
<1> QED BY <1>3, <1>4, <1>5, <1>6, <1>7, <1>8, <1>9, <1>10, <1>11, <1>12 DEF ChainNext

\* The invariants hold of every behaviour.
LEMMA ChainHolds == ChainSpec => [](ChainInv /\ LiveSeedSecret /\ Counted /\ Calm)
<1>1. ChainInit => ChainInv /\ LiveSeedSecret /\ Counted /\ Calm
  <2> SUFFICES ASSUME ChainInit PROVE ChainInv /\ LiveSeedSecret /\ Counted /\ Calm
    OBVIOUS
  <2>1. ChainInv BY ChainInvInit
  <2>2. LiveSeedSecret BY DEF ChainInit, LiveSeedSecret
  <2>3. Counted
    <3>1. SeedsHere = {} BY DEF ChainInit, SeedsHere
    <3>2. Absent = {} BY <3>1, GoneIs
    <3>3. Cardinality(Absent) = 0 /\ IsFiniteSet(SeedsHere) BY <3>1, <3>2, FS_EmptySet
    <3> QED BY <3>3 DEF Counted, ChainInit
  <2>4. Quiet BY DEF ChainInit, Quiet
  <2> QED BY <2>1, <2>2, <2>3, <2>4 DEF Calm
<1>2. ChainInv /\ LiveSeedSecret /\ Counted /\ Calm /\ [ChainNext]_chainVars
        => ChainInv' /\ LiveSeedSecret' /\ Counted' /\ Calm'
  BY ChainInvNext, SecretNext, CountedNext, CalmNext
<1> QED BY <1>1, <1>2, PTL DEF ChainSpec

-----------------------------------------------------------------------------
(* What a reader sees *)

\* A page of a chain: some rows in a row.
Linked(p, base) ==
    /\ p \in Seq(Rows) /\ base \in Nat
    /\ \A k \in 1..Len(p) : Sound(p[k].what, made) /\ p[k].what.epoch = base + k /\ p[k].revealed \in 0..made
    /\ \A k \in 2..Len(p) : p[k].what.prev = p[k - 1].what.hash

\* The newest rows are such a page.
LEMMA PageLinked ==
    ASSUME ChainInv, NEW n \in 0..Len(rows)
    PROVE  /\ Linked(Page(n), Len(rows) - n) /\ Len(Page(n)) = n
           /\ \A k \in 1..n : Len(rows) - n + k \in DOMAIN rows /\ Page(n)[k] = rows[Len(rows) - n + k]
<1> USE ChainInvParts
<1> DEFINE L == Len(rows)
           base == L - n
           p == Page(n)
<1>1. L \in Nat /\ n \in Nat /\ n <= L /\ base \in Nat
  OBVIOUS
<1>2. \A i \in base + 1 .. L : rows[i] \in Rows
  BY <1>1
<1>3. p \in Seq(Rows) /\ Len(p) = n /\ \A k \in 1..n : p[k] = rows[base + k]
  <2>1. p = SubSeq(rows, base + 1, L)
    BY DEF Page
  <2>2. base + 1 \in Int /\ L \in Int
    BY <1>1
  <2>3. /\ SubSeq(rows, base + 1, L) \in Seq(Rows)
        /\ Len(SubSeq(rows, base + 1, L)) = IF base + 1 <= L THEN L - (base + 1) + 1 ELSE 0
        /\ \A k \in 1 .. L - (base + 1) + 1 : SubSeq(rows, base + 1, L)[k] = rows[(base + 1) + k - 1]
    BY <1>2, <2>2, SubSeqProperties
  <2>4. L - (base + 1) + 1 = n /\ (IF base + 1 <= L THEN L - (base + 1) + 1 ELSE 0) = n
    BY <1>1
  <2>5. \A k \in 1..n : (base + 1) + k - 1 = base + k
    BY <1>1
  <2> HIDE DEF base, L, p
  <2> QED BY <2>1, <2>3, <2>4, <2>5
<1>4. \A k \in 1..n : base + k \in 1..L
  BY <1>1
<1>5. \A k \in 2..n : base + k \in 2..L /\ base + (k - 1) = (base + k) - 1 /\ k - 1 \in 1..n /\ k \in 1..n
  BY <1>1
<1>6. /\ \A i \in 1..L : Sound(rows[i].what, made) /\ rows[i].what.epoch = i /\ rows[i].revealed \in 0..made
      /\ \A i \in 2..L : rows[i].what.prev = rows[i - 1].what.hash
  BY DEF ChainedRows
<1>7. DOMAIN rows = 1..L
  OBVIOUS
<1> HIDE DEF base, L, p
<1>8. \A k \in 2..n : p[k].what.prev = p[k - 1].what.hash
  <2> SUFFICES ASSUME NEW k \in 2..n PROVE p[k].what.prev = p[k - 1].what.hash
    OBVIOUS
  <2>1. p[k] = rows[base + k] /\ p[k - 1] = rows[(base + k) - 1]
    BY <1>3, <1>5
  <2>2. rows[base + k].what.prev = rows[(base + k) - 1].what.hash
    BY <1>5, <1>6
  <2> QED BY <2>1, <2>2
<1>9. Linked(p, base)
  <2>1. ASSUME NEW k \in 1..n
        PROVE  Sound(p[k].what, made) /\ p[k].what.epoch = base + k /\ p[k].revealed \in 0..made
    <3>1. base + k \in 1..L /\ p[k] = rows[base + k]
      BY <1>3, <1>4
    <3> QED BY <3>1, <1>6
  <2>2. p \in Seq(Rows) /\ base \in Nat /\ Len(p) = n
    BY <1>1, <1>3
  <2> QED BY <1>8, <2>1, <2>2 DEF Linked
<1> QED BY <1>3, <1>4, <1>7, <1>9 DEF base, L, p

\* Hashes grow by one from row to row, and hold no seed that was not used.
LEMMA LinkedRow ==
    ASSUME made \in Nat, NEW p, NEW base, Linked(p, base), NEW k \in 1..Len(p)
    PROVE  /\ p[k] \in Rows /\ p[k].what \in Commitments
           /\ p[k].what.hash \in Seq(Nat) /\ p[k].what.prev \in Seq(Nat)
           /\ Len(p[k].what.hash) = base + k /\ KnownSeeds(p[k].what.hash, made)
           /\ p[k].what.hash = ChainHash(p[k].what.prev, p[k].what.seed)
           /\ Len(p[k].what.prev) = (base + k) - 1
           /\ p[k].what.seed \in 1..made /\ p[k].what.epoch = base + k
           /\ p[k].revealed \in 0..made
<1>1. p[k] \in Rows
  BY DEF Linked
<1>2. /\ p[k].what \in Commitments /\ p[k].what.hash \in Seq(Nat) /\ p[k].what.prev \in Seq(Nat)
      /\ p[k].what.seed \in Nat
  BY <1>1 DEF Rows, Commitments
<1>3. Sound(p[k].what, made) /\ p[k].what.epoch = base + k /\ p[k].revealed \in 0..made /\ base \in Nat
  BY DEF Linked
<1>4. /\ Len(p[k].what.hash) = base + k /\ KnownSeeds(p[k].what.hash, made)
      /\ p[k].what.hash = Append(p[k].what.prev, p[k].what.seed) /\ p[k].what.seed \in 1..made
  BY <1>3 DEF Sound, ChainHash
<1>5. \A from \in Seq(Nat), s \in Nat : Len(Append(from, s)) = Len(from) + 1 /\ Len(from) \in Nat
  OBVIOUS
<1>6. base + k = Len(p[k].what.prev) + 1 /\ Len(p[k].what.prev) \in Nat
  BY <1>2, <1>4, <1>5
<1>7. \A x, y \in Int : x = y + 1 => y = x - 1
  OBVIOUS
<1>8. base + k \in Int
  BY <1>3
<1>9. Len(p[k].what.prev) = (base + k) - 1
  BY <1>6, <1>7, <1>8
<1> QED BY <1>1, <1>2, <1>3, <1>4, <1>9 DEF ChainHash

\* Each kind of problem, and when a row has it.
LEMMA ProblemsAre ==
    ASSUME NEW answer, NEW i
    PROVE  LET row == answer.epochs[i]
               before == answer.epochs[i - 1]
           IN  /\ "hash" \in Problems(answer, i) <=> row.what.hash # ChainHash(row.what.prev, row.what.seed)
               /\ "link" \in Problems(answer, i) <=> i > 1 /\ row.what.prev # before.what.hash
               /\ "gap" \in Problems(answer, i) <=> i > 1 /\ row.what.epoch # before.what.epoch + 1
               /\ "orphan" \in Problems(answer, i) <=> i \in answer.orphans
               /\ "seed" \in Problems(answer, i) <=> row.revealed \notin {NoSeed, row.what.seed}
               /\ Problems(answer, i) \subseteq {"hash", "link", "gap", "orphan", "seed"}
BY DEF Problems

\* A broken hash, link, number or seed is an altered record.
LEMMA ProblemShows ==
    ASSUME NEW answer, NEW i \in DOMAIN answer.epochs, NEW x \in {"hash", "link", "gap", "seed"},
           x \in Problems(answer, i)
    PROVE  Verdict(answer) \in {1, 2}
<1>1. i \in Altered(answer)
  BY DEF Altered
<1>2. answer.epochs # <<>>
  OBVIOUS
<1> QED BY <1>1, <1>2 DEF Verdict

\* The server and the verifier judge hashes and links alike.
LEMMA SameVerdict ==
    ASSUME NEW page
    PROVE  LinksValid(page) <=>
              \A k \in DOMAIN page : {"hash", "link"} \cap Problems([epochs |-> page, orphans |-> {}], k) = {}
<1> DEFINE answer == [epochs |-> page, orphans |-> {}]
<1>1. answer.epochs = page
  OBVIOUS
<1>2. ASSUME NEW k \in DOMAIN page
      PROVE  k \notin Broken(page) <=> {"hash", "link"} \cap Problems(answer, k) = {}
  <2>1. /\ "hash" \in Problems(answer, k) <=> page[k].what.hash # ChainHash(page[k].what.prev, page[k].what.seed)
        /\ "link" \in Problems(answer, k) <=> k > 1 /\ page[k].what.prev # page[k - 1].what.hash
    BY <1>1, ProblemsAre
  <2>2. k \in Broken(page) <=> "hash" \in Problems(answer, k) \/ "link" \in Problems(answer, k)
    BY <2>1 DEF Broken
  <2>3. {"hash", "link"} \cap Problems(answer, k) = {}
           <=> ~("hash" \in Problems(answer, k) \/ "link" \in Problems(answer, k))
    OBVIOUS
  <2> QED BY <2>2, <2>3
<1>3. LinksValid(page) <=> \A k \in DOMAIN page : k \notin Broken(page)
  BY DEF LinksValid, Broken
<1> QED BY <1>2, <1>3

\* How many rows a reader gets.
LEMMA ServedRows ==
    ASSUME ChainInv
    PROVE  Min({PageSize, Len(rows)}) \in 0..Len(rows)
<1>1. PageSize \in Nat /\ Len(rows) \in Nat
  BY ChainAssumption, ChainInvParts
<1> DEFINE S == {PageSize, Len(rows)}
<1>2. \E x \in S : \A y \in S : x =< y
  BY <1>1
<1>3. Min(S) \in S /\ \A y \in S : Min(S) =< y
  BY <1>2 DEF Min
<1>4. Len(rows) \in S /\ \A y \in S : y \in Nat
  BY <1>1
<1> HIDE DEF S
<1>5. Min(S) \in Nat /\ Min(S) =< Len(rows)
  BY <1>3, <1>4
<1> QED BY <1>1, <1>5 DEF S

\* Whatever is served, no hash, link or number of it is wrong; where processes are only killed,
\* no seed either.
LEMMA ServedSound ==
    ASSUME ChainInv, NEW answer \in Served, NEW i \in DOMAIN answer.epochs
    PROVE  /\ Problems(answer, i) \subseteq {"orphan", "seed"}
           /\ Quiet => answer.epochs[i].revealed \in {NoSeed, answer.epochs[i].what.seed}
<1> DEFINE n == Min({PageSize, Len(rows)})
<1>1. n \in 0..Len(rows)
  BY ServedRows
<1>2. answer.epochs = Page(n)
  BY DEF Served, Answers
<1> HIDE DEF n
<1> DEFINE p == Page(n)
           base == Len(rows) - n
<1>3. /\ Linked(p, base) /\ Len(p) = n
      /\ \A k \in 1..n : base + k \in DOMAIN rows /\ p[k] = rows[base + k]
  BY <1>1, PageLinked
<1> HIDE DEF p, base
<1>4. DOMAIN p = 1..n /\ base \in Nat /\ n \in Nat
  BY <1>1, <1>3 DEF Linked
<1>5. i \in 1..n /\ answer.epochs = p
  BY <1>2, <1>4 DEF p
<1>6. p[i].what.hash = ChainHash(p[i].what.prev, p[i].what.seed) /\ p[i].what.epoch = base + i
  <2>1. made \in Nat /\ i \in 1..Len(p)
    BY <1>3, <1>5, ChainInvParts
  <2> QED BY <2>1, <1>3, LinkedRow
<1>7. i > 1 => p[i].what.prev = p[i - 1].what.hash
  BY <1>3, <1>4, <1>5 DEF Linked
<1>8. i > 1 => p[i].what.epoch = p[i - 1].what.epoch + 1
  <2> SUFFICES ASSUME i > 1 PROVE p[i].what.epoch = p[i - 1].what.epoch + 1
    OBVIOUS
  <2>1. i - 1 \in 1..n
    BY <1>4, <1>5
  <2>2. p[i - 1].what.epoch = base + (i - 1)
    BY <2>1, <1>3 DEF Linked
  <2>3. base + i = (base + (i - 1)) + 1
    BY <1>4, <1>5
  <2> QED BY <1>6, <2>2, <2>3
<1>9. "hash" \notin Problems(answer, i) /\ "link" \notin Problems(answer, i) /\ "gap" \notin Problems(answer, i)
  BY <1>5, <1>6, <1>7, <1>8, ProblemsAre
<1>10. Problems(answer, i) \subseteq {"hash", "link", "gap", "orphan", "seed"}
  BY ProblemsAre
<1>11. Quiet => p[i].revealed \in {NoSeed, p[i].what.seed}
  BY <1>3, <1>5 DEF Quiet
<1> QED BY <1>5, <1>9, <1>10, <1>11

\* Nothing of it is held against the server.
LEMMA NoAccusation == ChainInv => NeverAccused
BY ServedSound DEF NeverAccused

\* And where processes are only killed, it verifies.
LEMMA Verifies == ChainInv /\ Quiet => Trusted
<1> SUFFICES ASSUME ChainInv, Quiet, NEW answer \in Served
             PROVE  /\ Verdict(answer) \in {0, 2, 3}
                    /\ \A i \in DOMAIN answer.epochs \ Unrevealed(answer.epochs) :
                          EpochVerdict(answer, answer.epochs[i].what.epoch) = 0
  BY DEF Trusted
<1>1. \A i \in DOMAIN answer.epochs : answer.epochs[i].revealed \in {NoSeed, answer.epochs[i].what.seed}
  BY ServedSound
<1>2. \A i \in DOMAIN answer.epochs : Problems(answer, i) \in {{}, {"orphan"}}
  <2> SUFFICES ASSUME NEW i \in DOMAIN answer.epochs PROVE Problems(answer, i) \in {{}, {"orphan"}}
    OBVIOUS
  <2>1. Problems(answer, i) \subseteq {"orphan", "seed"}
    BY ServedSound
  <2>2. "seed" \notin Problems(answer, i)
    BY <1>1, ProblemsAre
  <2> QED BY <2>1, <2>2
<1>3. Altered(answer) = {}
  BY <1>2 DEF Altered
<1>4. Verdict(answer) \in {0, 2, 3}
  BY <1>3 DEF Verdict
<1>5. ASSUME NEW i \in DOMAIN answer.epochs \ Unrevealed(answer.epochs)
      PROVE  EpochVerdict(answer, answer.epochs[i].what.epoch) = 0
  <2> DEFINE asked == {k \in DOMAIN answer.epochs \ Unrevealed(answer.epochs) :
                          answer.epochs[k].what.epoch = answer.epochs[i].what.epoch}
  <2>1. i \in asked
    OBVIOUS
  <2>2. \A k \in asked : answer.epochs[k].revealed = answer.epochs[k].what.seed
    BY <1>1 DEF Unrevealed
  <2> QED BY <2>1, <2>2 DEF EpochVerdict
<1> QED BY <1>4, <1>5

-----------------------------------------------------------------------------
(* Tampering shows *)

\* Neither a hash that covers another number of epochs nor one that covers a forged seed is
\* the head that was recorded.
LEMMA OtherHash ==
    ASSUME made \in Nat, NEW p, NEW base, Linked(p, base), NEW recorded \in 1..Len(p), NEW hash,
           Len(hash) # base + recorded \/ \E j \in 1..(base + recorded) : hash[j] = Forged
    PROVE  hash # p[recorded].what.hash
<1>1. Len(p[recorded].what.hash) = base + recorded
      /\ \A j \in 1..(base + recorded) : p[recorded].what.hash[j] \in 1..made
  BY LinkedRow DEF KnownSeeds
<1>2. \A x \in 1..made : x # made + 1
  OBVIOUS
<1> QED BY <1>1, <1>2 DEF Forged

\* A row taken out leaves a gap, or was the head.
LEMMA RemovalShows ==
    ASSUME made \in Nat, NEW p, NEW base, Linked(p, base),
           NEW recorded \in 2..Len(p), NEW i \in 2..recorded
    PROVE  LET answer == [epochs |-> RemoveAt(p, i), orphans |-> {}]
           IN  Verdict(answer) \in {1, 2} \/ ~HeadFound(answer, p[recorded].what.hash)
<1> DEFINE n == Len(p)
           q == RemoveAt(p, i)
           answer == [epochs |-> q, orphans |-> {}]
<1>1. p \in Seq(Rows) /\ n \in Nat /\ i \in Nat /\ 2 <= i /\ i <= recorded /\ recorded <= n /\ base \in Nat
      /\ recorded \in Nat
  BY DEF Linked
<1>2. Len(q) = n - 1 /\ DOMAIN q = 1..(n - 1)
      /\ (\A k \in 1..(i - 1) : q[k] = p[k]) /\ (\A k \in i..(n - 1) : q[k] = p[k + 1])
  <2> DEFINE a == SubSeq(p, 1, i - 1)
             b == SubSeq(p, i + 1, n)
  <2>1. a \in Seq(Rows) /\ Len(a) = i - 1 /\ \A k \in 1..(i - 1) : a[k] = p[k]
    BY <1>1
  <2>2. b \in Seq(Rows) /\ Len(b) = n - i /\ \A k \in 1..(n - i) : b[k] = p[i + k]
    BY <1>1
  <2>3. q = a \o b
    BY DEF RemoveAt
  <2> HIDE DEF a, b, q, n
  <2>4. Len(a) + Len(b) = n - 1
    BY <1>1, <2>1, <2>2
  <2>5. q \in Seq(Rows) /\ Len(q) = n - 1
        /\ \A k \in 1..(n - 1) : q[k] = IF k <= i - 1 THEN a[k] ELSE b[k - (i - 1)]
    <3>1. /\ a \o b \in Seq(Rows) /\ Len(a \o b) = Len(a) + Len(b)
          /\ \A k \in 1 .. Len(a) + Len(b) : (a \o b)[k] = IF k <= Len(a) THEN a[k] ELSE b[k - Len(a)]
      BY <2>1, <2>2, ConcatProperties
    <3> QED BY <2>1, <2>3, <2>4, <3>1
  <2>6. DOMAIN q = 1..(n - 1)
    BY <2>5
  <2>7. \A k \in 1..(i - 1) : q[k] = p[k]
    <3> SUFFICES ASSUME NEW k \in 1..(i - 1) PROVE q[k] = p[k]
      OBVIOUS
    <3>1. k \in 1..(n - 1) /\ k <= i - 1 BY <1>1
    <3> QED BY <2>1, <2>5, <3>1
  <2>8. \A k \in i..(n - 1) : q[k] = p[k + 1]
    <3> SUFFICES ASSUME NEW k \in i..(n - 1) PROVE q[k] = p[k + 1]
      OBVIOUS
    <3>1. k \in 1..(n - 1) /\ ~(k <= i - 1) /\ k - (i - 1) \in 1..(n - i) /\ i + (k - (i - 1)) = k + 1
      BY <1>1
    <3>2. q[k] = b[k - (i - 1)] BY <2>5, <3>1
    <3> QED BY <2>2, <3>1, <3>2
  <2> QED BY <2>5, <2>6, <2>7, <2>8
<1>3. answer.epochs = q
  OBVIOUS
<1> HIDE DEF q, n, answer
<1>4. CASE i < n
  <2>1. i \in 1..(n - 1) /\ i - 1 \in 1..(i - 1) /\ i + 1 \in 1..n /\ i - 1 \in 1..n /\ i \in i..(n - 1) /\ i > 1
    BY <1>1, <1>4
  <2>2. q[i] = p[i + 1] /\ q[i - 1] = p[i - 1]
    BY <1>2, <2>1
  <2>3. p[i + 1].what.epoch = base + (i + 1) /\ p[i - 1].what.epoch = base + (i - 1)
    BY <2>1 DEF Linked, n
  <2>4. base + (i + 1) # (base + (i - 1)) + 1
    BY <1>1
  <2>5. "gap" \in Problems(answer, i)
    BY <1>3, <2>1, <2>2, <2>3, <2>4, ProblemsAre
  <2>6. i \in DOMAIN answer.epochs
    BY <1>2, <1>3, <2>1
  <2>7. Verdict(answer) \in {1, 2}
    BY <2>5, <2>6, ProblemShows
  <2> QED BY <2>7 DEF answer, q
<1>5. CASE i = n
  <2>1. recorded = n
    BY <1>1, <1>5
  <2>2. ASSUME NEW k \in DOMAIN answer.epochs PROVE answer.epochs[k].what.hash # p[recorded].what.hash
    <3>1. k \in 1..(i - 1) /\ k \in 1..n /\ k # recorded
      BY <1>1, <1>2, <1>3, <1>5, <2>1
    <3>2. answer.epochs[k] = p[k]
      BY <1>2, <1>3, <3>1
    <3>3. Len(p[k].what.hash) = base + k
      BY <3>1, LinkedRow DEF n
    <3>4. base + k # base + recorded
      BY <1>1, <3>1
    <3>5. recorded \in 1..Len(p)
      BY <1>1 DEF n
    <3> QED BY <3>2, <3>3, <3>4, <3>5, OtherHash
  <2>3. ~HeadFound(answer, p[recorded].what.hash)
    BY <2>2 DEF HeadFound
  <2> QED BY <2>3 DEF answer, q
<1> QED BY <1>1, <1>4, <1>5

\* A row given another seed, with the hash that fits: its hash covers the forged seed.
LEMMA ForgedRow ==
    ASSUME made \in Nat, NEW p, NEW base, Linked(p, base), NEW i \in 1..Len(p)
    PROVE  LET row == WithSeed(p[i], p[i].what.prev)
           IN  row.what.hash[base + i] = Forged /\ base + i \in 1..(base + i)
<1> DEFINE row == WithSeed(p[i], p[i].what.prev)
           from == p[i].what.prev
<1>1. from \in Seq(Nat) /\ Len(from) = (base + i) - 1 /\ p[i].what \in Commitments /\ base \in Nat /\ i \in Nat
      /\ 1 <= i
  <2>1. from \in Seq(Nat) /\ Len(from) = (base + i) - 1 /\ p[i].what \in Commitments
    BY LinkedRow
  <2>2. base \in Nat /\ Len(p) \in Nat
    BY DEF Linked
  <2>3. i \in Nat /\ 1 <= i
    BY <2>2
  <2> QED BY <2>1, <2>2, <2>3
<1>2. row.what.hash = Append(from, Forged)
  BY <1>1 DEF WithSeed, ChainHash, Commitments
<1> HIDE DEF row, from
<1>3. Forged \in Nat
  BY DEF Forged
<1>4. Append(from, Forged)[Len(from) + 1] = Forged
  BY <1>1, <1>3
<1>5. Len(from) + 1 = base + i /\ base + i \in 1..(base + i)
  BY <1>1
<1> QED BY <1>2, <1>4, <1>5 DEF row, from

\* Whatever is computed anew covers the forged seed, so that the head is gone.
LEMMA RebuildingShows ==
    ASSUME made \in Nat, NEW p, NEW base, Linked(p, base),
           NEW recorded \in 2..Len(p), NEW i \in 2..recorded
    PROVE  ~HeadFound([epochs |-> RebuiltFrom(p, i), orphans |-> {}], p[recorded].what.hash)
<1> DEFINE Anew(hash) == [hash EXCEPT ![Len(p[i].what.hash)] = Forged]
           q == RebuiltFrom(p, i)
<1>1. /\ Len(p) \in Nat /\ i \in Nat /\ 2 <= i /\ i <= recorded /\ recorded <= Len(p) /\ base \in Nat
      /\ recorded \in Nat /\ i \in 1..Len(p) /\ recorded \in 1..Len(p)
  BY DEF Linked
<1>2. DOMAIN q = 1..Len(p)
  BY DEF RebuiltFrom
<1>3. ASSUME NEW k \in 1..Len(p)
      PROVE  /\ k < i => q[k] = p[k]
             /\ k = i => q[k] = WithSeed(p[k], p[k].what.prev)
             /\ k > i => q[k] = [p[k] EXCEPT !.what.prev = Anew(@), !.what.hash = Anew(@)]
  <2>1. k \in Nat
    BY <1>1
  <2>2. q[k] = CASE k < i -> p[k]
                 [] k = i -> WithSeed(p[k], p[k].what.prev)
                 [] OTHER -> [p[k] EXCEPT !.what.prev = Anew(@), !.what.hash = Anew(@)]
    BY DEF RebuiltFrom
  <2> HIDE DEF q, Anew
  <2>3. k < i => ~(k = i)
    BY <2>1, <1>1
  <2>4. k > i => ~(k < i) /\ ~(k = i)
    BY <2>1, <1>1
  <2> QED BY <2>2, <2>3, <2>4
<1> HIDE DEF q
<1>4. ASSUME NEW k \in 1..Len(p) PROVE q[k].what.hash # p[recorded].what.hash
  <2>0. k \in Nat
    BY <1>1
  <2>1. CASE k < i
    <3>1. q[k] = p[k] BY <1>3, <2>1
    <3>2. Len(p[k].what.hash) = base + k BY LinkedRow
    <3>3. base + k # base + recorded BY <1>1, <2>0, <2>1
    <3> QED BY <1>1, <3>1, <3>2, <3>3, OtherHash
  <2>2. CASE k = i
    <3>1. q[k] = WithSeed(p[i], p[i].what.prev) BY <1>1, <1>3, <2>2
    <3>2. q[k].what.hash[base + i] = Forged BY <1>1, <3>1, ForgedRow
    <3>3. base + i \in 1..(base + recorded) BY <1>1
    <3> QED BY <1>1, <3>2, <3>3, OtherHash
  <2>3. CASE k > i
    <3>1. q[k] = [p[k] EXCEPT !.what.prev = Anew(@), !.what.hash = Anew(@)]
      BY <1>3, <2>3
    <3>2. p[k] \in Rows /\ p[k].what \in Commitments /\ p[k].what.hash \in Seq(Nat)
          /\ Len(p[k].what.hash) = base + k /\ Len(p[i].what.hash) = base + i
      <4> HIDE DEF Anew
      <4>1. p[k] \in Rows /\ p[k].what \in Commitments /\ p[k].what.hash \in Seq(Nat)
            /\ Len(p[k].what.hash) = base + k
        BY LinkedRow
      <4>2. Len(p[i].what.hash) = base + i
        BY <1>1, LinkedRow
      <4> QED BY <4>1, <4>2
    <3>3. q[k].what.hash = Anew(p[k].what.hash)
      BY <3>1, <3>2 DEF Rows, Commitments
    <3>4. base + i \in DOMAIN p[k].what.hash
      BY <1>1, <2>0, <2>3, <3>2
    <3>5. q[k].what.hash[base + i] = Forged
      BY <3>2, <3>3, <3>4
    <3>6. base + i \in 1..(base + recorded) BY <1>1
    <3> QED BY <1>1, <3>5, <3>6, OtherHash
  <2> QED BY <1>1, <2>0, <2>1, <2>2, <2>3
<1> QED BY <1>2, <1>4 DEF HeadFound, q

\* A row given another seed and hash is not what the next one links to, or was the head.
LEMMA ReseedingShows ==
    ASSUME made \in Nat, NEW p, NEW base, Linked(p, base),
           NEW recorded \in 2..Len(p), NEW i \in 2..recorded
    PROVE  LET answer == [epochs |-> [p EXCEPT ![i] = WithSeed(p[i], p[i].what.prev)], orphans |-> {}]
           IN  Verdict(answer) \in {1, 2} \/ ~HeadFound(answer, p[recorded].what.hash)
<1> DEFINE q == [p EXCEPT ![i] = WithSeed(p[i], p[i].what.prev)]
           answer == [epochs |-> q, orphans |-> {}]
<1>1. /\ Len(p) \in Nat /\ i \in Nat /\ 2 <= i /\ i <= recorded /\ recorded <= Len(p) /\ base \in Nat
      /\ recorded \in Nat /\ i \in 1..Len(p) /\ recorded \in 1..Len(p) /\ DOMAIN p = 1..Len(p)
  BY DEF Linked
<1>2. DOMAIN q = 1..Len(p) /\ q[i] = WithSeed(p[i], p[i].what.prev) /\ \A k \in 1..Len(p) : k # i => q[k] = p[k]
  BY <1>1
<1>3. answer.epochs = q
  OBVIOUS
<1> HIDE DEF q, answer
<1>4. q[i].what.hash[base + i] = Forged
  BY SMTT(30), <1>1, <1>2, ForgedRow
<1>5. CASE i < recorded
  <2>1. i + 1 \in 1..Len(p) /\ i + 1 \in 2..Len(p) /\ i + 1 # i /\ (i + 1) - 1 = i /\ i + 1 > 1
    BY <1>1, <1>5
  <2>2. q[i + 1] = p[i + 1]
    BY <1>2, <2>1
  <2>3. p[i + 1].what.prev = p[i].what.hash
    BY <2>1 DEF Linked
  <2>4. base + i \in 1..(base + i)
    BY <1>1
  <2>5. q[i].what.hash # p[i].what.hash
    BY <1>1, <1>4, <2>4, OtherHash
  <2>6. "link" \in Problems(answer, i + 1)
    BY <1>3, <2>1, <2>2, <2>3, <2>5, ProblemsAre
  <2>7. i + 1 \in DOMAIN answer.epochs
    BY <1>2, <1>3, <2>1
  <2>8. Verdict(answer) \in {1, 2}
    BY <2>6, <2>7, ProblemShows
  <2> QED BY <2>8 DEF answer, q
<1>6. CASE i = recorded
  <2>1. ASSUME NEW k \in 1..Len(p) PROVE q[k].what.hash # p[recorded].what.hash
    <3>1. CASE k = i
      <4>1. base + i \in 1..(base + recorded) BY <1>1, <1>6
      <4> QED BY <1>1, <1>4, <3>1, <4>1, OtherHash
    <3>2. CASE k # i
      <4>1. q[k] = p[k] BY <1>2, <3>2
      <4>2. Len(p[k].what.hash) = base + k BY LinkedRow
      <4>3. base + k # base + recorded BY <1>1, <1>6, <3>2
      <4> QED BY <1>1, <4>1, <4>2, <4>3, OtherHash
    <3> QED BY <3>1, <3>2
  <2>2. ~HeadFound(answer, p[recorded].what.hash)
    BY <1>2, <1>3, <2>1 DEF HeadFound
  <2> QED BY <2>2 DEF answer, q
<1> QED BY <1>1, <1>5, <1>6

\* A seed exchanged does not hash to what the row says; one only revealed is not the row's.
LEMMA SwappingShows ==
    ASSUME made \in Nat, NEW p, NEW base, Linked(p, base), NEW i \in 1..Len(p)
    PROVE  /\ Verdict([epochs |-> [p EXCEPT ![i].what.seed = Forged, ![i].revealed = Forged],
                       orphans |-> {}]) \in {1, 2}
           /\ Verdict([epochs |-> [p EXCEPT ![i].revealed = Forged], orphans |-> {}]) \in {1, 2}
<1>1. DOMAIN p = 1..Len(p) /\ i \in DOMAIN p
  BY DEF Linked
<1>2. /\ p[i] \in Rows /\ p[i].what \in Commitments /\ p[i].what.prev \in Seq(Nat)
      /\ p[i].what.hash = ChainHash(p[i].what.prev, p[i].what.seed)
      /\ p[i].what.seed \in 1..made
  BY LinkedRow
<1>3. Forged \in Nat /\ Forged # p[i].what.seed /\ Forged # NoSeed
  BY <1>2 DEF Forged, NoSeed
<1>4. Verdict([epochs |-> [p EXCEPT ![i].what.seed = Forged, ![i].revealed = Forged], orphans |-> {}]) \in {1, 2}
  <2> DEFINE q == [p EXCEPT ![i].what.seed = Forged, ![i].revealed = Forged]
             answer == [epochs |-> q, orphans |-> {}]
  <2>1. answer.epochs = q /\ DOMAIN q = DOMAIN p
    OBVIOUS
  <2>2. q[i].what.seed = Forged /\ q[i].what.prev = p[i].what.prev /\ q[i].what.hash = p[i].what.hash
    BY <1>1, <1>2 DEF Rows, Commitments
  <2> HIDE DEF q, answer
  <2>3. \A from \in Seq(Nat), s, t \in Nat : Append(from, s) = Append(from, t) => s = t
    <3> SUFFICES ASSUME NEW from \in Seq(Nat), NEW s \in Nat, NEW t \in Nat, Append(from, s) = Append(from, t)
                 PROVE  s = t
      OBVIOUS
    <3>1. Append(from, s)[Len(from) + 1] = s OBVIOUS
    <3>2. Append(from, t)[Len(from) + 1] = t OBVIOUS
    <3> QED BY <3>1, <3>2
  <2>4. p[i].what.seed \in Nat
    BY <1>2
  <2>5. q[i].what.hash # ChainHash(q[i].what.prev, q[i].what.seed)
    BY <1>2, <1>3, <2>2, <2>3, <2>4 DEF ChainHash
  <2>6. "hash" \in Problems(answer, i)
    BY <2>1, <2>5, ProblemsAre
  <2>7. i \in DOMAIN answer.epochs
    BY <1>1, <2>1
  <2>8. Verdict(answer) \in {1, 2}
    BY <2>6, <2>7, ProblemShows
  <2> QED BY <2>8 DEF answer, q
<1>5. Verdict([epochs |-> [p EXCEPT ![i].revealed = Forged], orphans |-> {}]) \in {1, 2}
  <2> DEFINE q == [p EXCEPT ![i].revealed = Forged]
             answer == [epochs |-> q, orphans |-> {}]
  <2>1. answer.epochs = q /\ DOMAIN q = DOMAIN p
    OBVIOUS
  <2>2. q[i].revealed = Forged /\ q[i].what = p[i].what
    BY <1>1, <1>2 DEF Rows
  <2> HIDE DEF q, answer
  <2>3. "seed" \in Problems(answer, i)
    BY <1>3, <2>1, <2>2, ProblemsAre
  <2>4. i \in DOMAIN answer.epochs
    BY <1>1, <2>1
  <2>5. Verdict(answer) \in {1, 2}
    BY <2>3, <2>4, ProblemShows
  <2> QED BY <2>5 DEF answer, q
<1> QED BY <1>4, <1>5

\* So whatever is done to a row shows.
LEMMA TamperingShows == ChainInv => TamperShows
<1> SUFFICES ASSUME ChainInv, NEW n \in 2 .. Min({PageSize, Len(rows)}),
                    NEW recorded \in 2..n, NEW i \in 2..recorded, NEW forged \in Tampered(Page(n), i)
             PROVE  LET answer == [epochs |-> forged, orphans |-> {}]
                    IN  /\ Verdict(answer) \in {1, 2} \/ ~HeadFound(answer, Page(n)[recorded].what.hash)
                        /\ LinksValid(forged) <=>
                              \A k \in DOMAIN forged : {"hash", "link"} \cap Problems(answer, k) = {}
  BY DEF TamperShows
<1> DEFINE p == Page(n)
           base == Len(rows) - n
           answer == [epochs |-> forged, orphans |-> {}]
<1>1. made \in Nat /\ n \in 0..Len(rows)
  BY ChainInvParts, ServedRows
<1>2. Linked(p, base) /\ Len(p) = n
  BY <1>1, PageLinked
<1>3. recorded \in 2..Len(p) /\ i \in 2..recorded /\ i \in 1..Len(p)
  BY <1>1, <1>2
<1> HIDE DEF base
<1>4. \/ forged = RemoveAt(p, i)
      \/ forged = RebuiltFrom(p, i)
      \/ forged = [p EXCEPT ![i] = WithSeed(p[i], p[i].what.prev)]
      \/ forged = [p EXCEPT ![i].what.seed = Forged, ![i].revealed = Forged]
      \/ forged = [p EXCEPT ![i].revealed = Forged]
  BY DEF Tampered
<1> HIDE DEF p
<1>5. Verdict(answer) \in {1, 2} \/ ~HeadFound(answer, p[recorded].what.hash)
  <2>1. CASE forged = RemoveAt(p, i)
    BY <1>1, <1>2, <1>3, <2>1, RemovalShows
  <2>2. CASE forged = RebuiltFrom(p, i)
    BY <1>1, <1>2, <1>3, <2>2, RebuildingShows
  <2>3. CASE forged = [p EXCEPT ![i] = WithSeed(p[i], p[i].what.prev)]
    BY <1>1, <1>2, <1>3, <2>3, ReseedingShows
  <2>4. CASE forged = [p EXCEPT ![i].what.seed = Forged, ![i].revealed = Forged]
    BY <1>1, <1>2, <1>3, <2>4, SwappingShows
  <2>5. CASE forged = [p EXCEPT ![i].revealed = Forged]
    BY <1>1, <1>2, <1>3, <2>5, SwappingShows
  <2> QED BY <1>4, <2>1, <2>2, <2>3, <2>4, <2>5
<1> QED BY <1>5, SameVerdict DEF p

-----------------------------------------------------------------------------

\* An infrastructure problem never reads as tampering (verify-chain.mjs, verify-epoch.mjs):
\* under any failures and restarts, for any number of epochs, the record served verifies, what it
\* lacks is counted, no seed in use is published, and what is done to it afterwards shows.
THEOREM RecordHonestHolds == ChainSpec => []RecordHonest
<1>1. ChainInv /\ LiveSeedSecret /\ Counted /\ Calm => RecordHonest
  <2> SUFFICES ASSUME ChainInv, LiveSeedSecret, Counted, Calm PROVE RecordHonest
    OBVIOUS
  <2>1. NeverAccused /\ MissingCounted /\ LiveSeedSecret /\ TamperShows
    BY NoAccusation, MissingIsCounted, TamperingShows
  <2>2. weather \subseteq {"crash"} => NothingRefused /\ Trusted
    <3>1. Quiet => NothingRefused BY DEF Quiet, NothingRefused
    <3> QED BY <3>1, Verifies DEF Calm
  <2> QED BY <2>1, <2>2 DEF RecordHonest
<1> QED BY <1>1, ChainHolds, PTL
=============================================================================
