------------------------------ MODULE Arithmetic ------------------------------
(***************************************************************************)
(* What the proofs need of numbers: the arithmetic of a position at every      *)
(* price, multiplier, edge and stake; sums of integers over finite sets, for    *)
(* the proofs that money adds up; and sets closed under steps.  A sum is what   *)
(* SumFunctionOnSet of the community modules adds, whatever order it adds in.   *)
(* It is defined by recursion over the subsets of a set, and instead of         *)
(* induction the proofs take a smallest subset for which the claim fails.       *)
(***************************************************************************)
EXTENDS Pricing, Functions, FiniteSetTheorems, WellFoundedInduction, TLAPS

-----------------------------------------------------------------------------
(* The price and the profit of a position *)

\* Division by a positive number stays whole.
LEMMA DivTyped ==
  ASSUME NEW n \in Int, NEW d \in Nat \ {0}
  PROVE  n \div d \in Int
  OBVIOUS

\* What is at least k divisors is at least k after division.
LEMMA DivBound ==
  ASSUME NEW n \in Int, NEW d \in Nat \ {0}, NEW k \in Int, n >= k * d
  PROVE  n \div d >= k
  OBVIOUS

\* Math.round of a quotient is a whole number.
LEMMA RoundHalfUpTyped ==
  ASSUME NEW n \in Int, NEW d \in Nat \ {0}
  PROVE  RoundHalfUp(n, d) \in Int
<1>1. 2 * n + d \in Int /\ 2 * d \in Nat \ {0}
  OBVIOUS
<1> QED
  BY <1>1, DivTyped DEF RoundHalfUp

\* PostgreSQL's round of a quotient is a whole number.
LEMMA RoundAwayTyped ==
  ASSUME NEW n \in Int, NEW d \in Nat \ {0}
  PROVE  RoundAway(n, d) \in Int
<1>1. -n \in Int
  OBVIOUS
<1> QED
  BY <1>1, RoundHalfUpTyped DEF RoundAway

\* A payout rate of a stake is never negative.
LEMMA RoundedPayout ==
  ASSUME NEW a \in Nat, NEW b \in Nat, NEW d \in Nat \ {0}
  PROVE  RoundHalfUp(a * b, d) \in Nat
<1>1. a * b \in Nat
  OBVIOUS
<1>2. 2 * (a * b) + d \in Int /\ 2 * d \in Nat \ {0} /\ 2 * (a * b) + d >= 0 * (2 * d)
  BY <1>1
<1>3. (2 * (a * b) + d) \div (2 * d) \in Int /\ (2 * (a * b) + d) \div (2 * d) >= 0
  BY <1>2, DivTyped, DivBound
<1> QED
  BY <1>3 DEF RoundHalfUp

\* least(greatest(x, lo), hi) lies between lo and hi.
LEMMA ClampBounds ==
  ASSUME NEW x \in Int, NEW lo \in Int, NEW hi \in Int, lo <= hi
  PROVE  Clamp(x, lo, hi) \in lo .. hi
  BY DEF Clamp

\* An edge of at most 20% never marks an entry down to nothing.
THEOREM SpreadKeepsPricePositive ==
  ASSUME NEW mid \in Nat \ {0}, NEW dir \in {"BUY", "SELL"},
         NEW mult \in Nat \ {0}, NEW edge \in Nat, edge <= 2000
  PROVE  ApplySpread(mid, dir, mult, edge) \in Nat \ {0}
<1> DEFINE d == mult * Bps
           w == d + Sign(dir) * edge
<1>1. d \in Nat \ {0} /\ d >= 10000
  BY DEF Bps
<1>2. w \in Int /\ 2 * w >= d
  BY <1>1 DEF Sign
<1> HIDE DEF d, w
<1>3. mid * w >= w
  <2>1. w \in Nat BY <1>1, <1>2
  <2>2. mid - 1 \in Nat OBVIOUS
  <2>3. (mid - 1) * w \in Nat BY <2>1, <2>2
  <2>4. mid * w = (mid - 1) * w + w BY <2>1
  <2> QED BY <2>1, <2>3, <2>4
<1>4. mid * w \in Int
  BY <1>2
<1>5. 2 * (mid * w) + d >= 1 * (2 * d)
  BY <1>1, <1>2, <1>3, <1>4
<1>6. 2 * (mid * w) + d \in Int /\ 2 * d \in Nat \ {0}
  BY <1>1, <1>4
<1>7. (2 * (mid * w) + d) \div (2 * d) >= 1
  BY <1>5, <1>6, DivBound
<1>8. (2 * (mid * w) + d) \div (2 * d) \in Int
  BY <1>6, DivTyped
<1>9. ApplySpread(mid, dir, mult, edge) = (2 * (mid * w) + d) \div (2 * d)
  BY DEF ApplySpread, RoundHalfUp, d, w
<1> QED
  BY <1>7, <1>8, <1>9

\* A scaled position loses at most its stake and wins at most its ceiling.
THEOREM ScaledProfitBounded ==
  ASSUME NEW dir \in {"BUY", "SELL"}, NEW stake \in Nat, NEW mult \in Nat,
         NEW entry \in Nat \ {0}, NEW maxProfit \in Nat, NEW exit \in Int
  PROVE  ScaledProfit(dir, stake, mult, entry, maxProfit, exit) \in -stake .. maxProfit
<1>1. Sign(dir) \in Int
  BY DEF Sign
<1>2. stake * mult \in Int
  OBVIOUS
<1>3. stake * mult * Sign(dir) \in Int
  BY <1>1, <1>2
<1>4. exit - entry \in Int
  OBVIOUS
<1>5. stake * mult * Sign(dir) * (exit - entry) \in Int
  BY <1>3, <1>4
<1>6. RoundAway(stake * mult * Sign(dir) * (exit - entry), entry) \in Int
  BY <1>5, RoundAwayTyped
<1>7. -stake \in Int /\ maxProfit \in Int /\ -stake <= maxProfit
  OBVIOUS
<1> QED
  BY <1>6, <1>7, ClampBounds DEF ScaledProfit

\* So does a digital.
THEOREM DigitalProfitBounded ==
  ASSUME NEW dir \in {"BUY", "SELL"}, NEW stake \in Nat, NEW barrier \in Int,
         NEW maxProfit \in Nat, NEW exit \in Int
  PROVE  DigitalProfit(dir, stake, barrier, maxProfit, exit) \in -stake .. maxProfit
  BY DEF DigitalProfit

-----------------------------------------------------------------------------
(* Sums, orders and steps *)

\* Among some subsets of a finite set, one holds no other of them.
LEMMA SmallestSet ==
    ASSUME NEW S, IsFiniteSet(S), NEW C \in SUBSET (SUBSET S), C # {}
    PROVE  \E s \in C : \A t \in C : t \subseteq s => t = s
<1>1. IsWellFoundedOn(StrictSubsetOrdering(S), FiniteSubsetsOf(S))
    BY FS_StrictSubsetOrderingWellFounded
<1>2. C \subseteq FiniteSubsetsOf(S)
    BY FS_FiniteSubsetsOfFinite
<1>3. \E s \in C : \A t \in C : ~ (<<t, s>> \in StrictSubsetOrdering(S))
    BY <1>1, <1>2, WFMin
<1> QED
    BY <1>3 DEF StrictSubsetOrdering

\* The element that is added last.
First(s) == CHOOSE x \in s : TRUE

\* g holds the sums of f over the subsets of S.
Computes(g, f, S) ==
    g = [s \in SUBSET S |-> IF s = {} THEN 0 ELSE f[First(s)] + g[s \ {First(s)}]]

\* What the community module computes.
LEMMA SumIs ==
    ASSUME NEW f, NEW S
    PROVE  SumFunctionOnSet(f, S) = (CHOOSE g : Computes(g, f, S))[S]
BY DEF SumFunctionOnSet, FoldFunctionOnSet, MapThenFoldSet, Computes, First

\* What is left without it is smaller.
LEMMA FirstIn ==
    ASSUME NEW s, s # {}
    PROVE  First(s) \in s /\ s \ {First(s)} \subseteq s /\ s \ {First(s)} # s
BY DEF First

\* Two tables of the sums of functions that are equal on a set have the same sum for it.
LEMMA ComputesAgree ==
    ASSUME NEW S, IsFiniteSet(S), NEW R, NEW U \in SUBSET (S \cap R), NEW f, NEW h,
           \A x \in U : f[x] = h[x],
           NEW g, Computes(g, f, S), NEW k, Computes(k, h, R)
    PROVE  g[U] = k[U]
<1> DEFINE C == {s \in SUBSET U : g[s] # k[s]}
<1>1. SUFFICES ASSUME C # {} PROVE FALSE
    OBVIOUS
<1>2. IsFiniteSet(U)
    BY FS_Subset
<1>3. PICK s \in C : \A t \in C : t \subseteq s => t = s
    <2>1. C \in SUBSET (SUBSET U)
        OBVIOUS
    <2> HIDE DEF C
    <2> QED
        BY <1>1, <1>2, <2>1, SmallestSet
<1>4. s \in SUBSET S /\ s \in SUBSET R
    OBVIOUS
<1>5. CASE s = {}
    BY <1>3, <1>4, <1>5 DEF Computes
<1>6. CASE s # {}
    <2> DEFINE x == First(s)
    <2>1. x \in s /\ s \ {x} \subseteq s /\ s \ {x} # s
        BY <1>6, FirstIn
    <2>2. g[s \ {x}] = k[s \ {x}]
        BY <2>1, <1>3
    <2>3. g[s] = f[x] + g[s \ {x}]
        BY <1>4, <1>6 DEF Computes
    <2>4. k[s] = h[x] + k[s \ {x}]
        BY <1>4, <1>6 DEF Computes
    <2> QED
        BY <2>1, <2>2, <2>3, <2>4, <1>3
<1> QED
    BY <1>5, <1>6


\* There is a table of the sums of integers over a finite set.
LEMMA SumsExist ==
    ASSUME NEW S, IsFiniteSet(S), NEW f, \A x \in S : f[x] \in Int
    PROVE  \E g \in [SUBSET S -> Int] : Computes(g, f, S)
<1> DEFINE C == {s \in SUBSET S : ~ \E g \in [SUBSET s -> Int] : Computes(g, f, s)}
<1>1. SUFFICES ASSUME C # {} PROVE FALSE
    OBVIOUS
<1>2. PICK s \in C : \A t \in C : t \subseteq s => t = s
    <2>1. C \in SUBSET (SUBSET S)
        OBVIOUS
    <2> HIDE DEF C
    <2> QED
        BY <1>1, <2>1, SmallestSet
<1> DEFINE G(t) == CHOOSE g \in [SUBSET t -> Int] : Computes(g, f, t)
<1>3. ASSUME NEW t \in SUBSET s, t # s
      PROVE  /\ G(t) \in [SUBSET t -> Int] /\ Computes(G(t), f, t)
             /\ IsFiniteSet(t)
    <2>1. t \notin C
        BY <1>2, <1>3
    <2>2. \E g \in [SUBSET t -> Int] : Computes(g, f, t)
        BY <2>1
    <2>3. IsFiniteSet(t)
        BY FS_Subset
    <2> QED
        BY <2>2, <2>3
<1>4. ASSUME NEW t \in SUBSET s, t # s, NEW u \in SUBSET t
      PROVE  G(t)[u] = G(u)[u]
    <2>1. u # s /\ u \in SUBSET s
        BY <1>4
    <2>2. u \in SUBSET (t \cap u) /\ \A x \in u : f[x] = f[x]
        OBVIOUS
    <2> DEFINE a == G(t)
               b == G(u)
    <2> HIDE DEF G
    <2>3. Computes(a, f, t) /\ Computes(b, f, u) /\ IsFiniteSet(t)
        BY <1>3, <1>4, <2>1
    <2> HIDE DEF a, b
    <2>4. a[u] = b[u]
        BY <2>2, <2>3, ComputesAgree
    <2> QED
        BY <2>4 DEF a, b
<1>5. ASSUME NEW t \in SUBSET s, t # {}
      PROVE  /\ t \ {First(t)} \in SUBSET s /\ t \ {First(t)} # s
             /\ First(t) \in t /\ f[First(t)] \in Int
    BY <1>5, FirstIn
<1> DEFINE g == [t \in SUBSET s |-> IF t = {} THEN 0
                                    ELSE f[First(t)] + G(t \ {First(t)})[t \ {First(t)}]]
<1>6. g \in [SUBSET s -> Int]
    <2>1. ASSUME NEW t \in SUBSET s, t # {}
          PROVE  G(t \ {First(t)})[t \ {First(t)}] \in Int
        <3> DEFINE u == t \ {First(t)}
        <3>1. u \in SUBSET s /\ u # s
            BY <1>5, <2>1
        <3> HIDE DEF G, u
        <3>2. G(u) \in [SUBSET u -> Int] /\ u \in SUBSET u
            BY <1>3, <3>1
        <3>3. G(u)[u] \in Int
            BY <3>2
        <3> QED
            BY <3>3 DEF u
    <2> HIDE DEF G
    <2> QED
        BY <1>5, <2>1
<1>7. ASSUME NEW t \in SUBSET s, t # s PROVE g[t] = G(t)[t]
    <2>1. CASE t = {}
        <3> HIDE DEF G
        <3>1. G(t)[t] = 0
            BY <1>3, <1>7, <2>1 DEF Computes
        <3> QED
            BY <2>1, <3>1
    <2>2. CASE t # {}
        <3> HIDE DEF G
        <3>1. G(t)[t] = f[First(t)] + G(t)[t \ {First(t)}]
            BY <1>3, <1>7, <2>2 DEF Computes
        <3>2. G(t)[t \ {First(t)}] = G(t \ {First(t)})[t \ {First(t)}]
            <4>1. t \ {First(t)} \in SUBSET t
                OBVIOUS
            <4> QED
                BY <1>4, <1>7, <4>1
        <3> QED
            BY <2>2, <3>1, <3>2
    <2> QED
        BY <2>1, <2>2
<1>8. Computes(g, f, s)
    <2>1. ASSUME NEW t \in SUBSET s, t # {}
          PROVE  G(t \ {First(t)})[t \ {First(t)}] = g[t \ {First(t)}]
        <3> HIDE DEF G, g
        <3> QED
            BY <1>5, <1>7, <2>1
    <2>2. \A t \in SUBSET s :
            g[t] = IF t = {} THEN 0 ELSE f[First(t)] + g[t \ {First(t)}]
        <3> HIDE DEF G
        <3> QED
            BY <2>1
    <2>3. g = [t \in SUBSET s |-> g[t]]
        BY <1>6
    <2> HIDE DEF g, G
    <2> QED
        BY <2>2, <2>3 DEF Computes
<1>9. s \in SUBSET S /\ ~ \E k \in [SUBSET s -> Int] : Computes(k, f, s)
    OBVIOUS
<1> HIDE DEF C, g, G
<1> QED
    BY <1>6, <1>8, <1>9

\* ... and every sum over one of them is its value there.
Tabulates(g, f, S) ==
    /\ g \in [SUBSET S -> Int] /\ Computes(g, f, S)
    /\ \A U \in SUBSET S : SumFunctionOnSet(f, U) = g[U]

\* A sum over any subset of a finite set can be read off one table.
LEMMA SumOf ==
    ASSUME NEW S, IsFiniteSet(S), NEW f, \A x \in S : f[x] \in Int
    PROVE  \E g : Tabulates(g, f, S)
<1>1. PICK g \in [SUBSET S -> Int] : Computes(g, f, S)
    BY SumsExist
<1>2. ASSUME NEW U \in SUBSET S PROVE SumFunctionOnSet(f, U) = g[U]
    <2>1. IsFiniteSet(U) /\ \A x \in U : f[x] \in Int
        BY FS_Subset
    <2>2. \E k : Computes(k, f, U)
        BY <2>1, SumsExist
    <2> DEFINE k == CHOOSE h : Computes(h, f, U)
    <2>3. Computes(k, f, U)
        BY <2>2
    <2>4. SumFunctionOnSet(f, U) = k[U]
        BY SumIs
    <2>5. U \in SUBSET (U \cap S)
        OBVIOUS
    <2> HIDE DEF k
    <2>6. k[U] = g[U]
        BY <1>1, <2>1, <2>3, <2>5, ComputesAgree
    <2> QED
        BY <2>4, <2>6
<1> QED
    BY <1>1, <1>2 DEF Tabulates

\* A sum of integers is one.
LEMMA SumInt ==
    ASSUME NEW S, IsFiniteSet(S), NEW f, \A x \in S : f[x] \in Int
    PROVE  SumFunctionOnSet(f, S) \in Int
<1>1. PICK g : Tabulates(g, f, S)
    BY SumOf
<1> QED
    BY <1>1 DEF Tabulates

\* Nothing adds up to nothing.
LEMMA SumEmpty ==
    ASSUME NEW f
    PROVE  SumFunctionOnSet(f, {}) = 0
<1>1. IsFiniteSet({}) /\ \A x \in {} : f[x] \in Int
    BY FS_EmptySet
<1>2. PICK g : Tabulates(g, f, {})
    BY <1>1, SumOf
<1> QED
    BY <1>2 DEF Tabulates, Computes

\* An element can be taken out of a sum, whichever it is.
LEMMA SumRemove ==
    ASSUME NEW S, IsFiniteSet(S), NEW f, \A y \in S : f[y] \in Int, NEW x \in S
    PROVE  SumFunctionOnSet(f, S) = f[x] + SumFunctionOnSet(f, S \ {x})
<1> DEFINE Sum(U) == SumFunctionOnSet(f, U)
           C == {s \in SUBSET S : \E y \in s : Sum(s) # f[y] + Sum(s \ {y})}
<1>1. PICK g : Tabulates(g, f, S)
    BY SumOf
<1>2. ASSUME NEW s \in SUBSET S, s # {}
      PROVE  /\ First(s) \in s /\ Sum(s) = f[First(s)] + Sum(s \ {First(s)})
    <2>1. First(s) \in s /\ s \ {First(s)} \in SUBSET S
        BY <1>2, FirstIn
    <2>2. g[s] = f[First(s)] + g[s \ {First(s)}]
        BY <1>1, <1>2 DEF Tabulates, Computes
    <2>3. Sum(s) = g[s] /\ Sum(s \ {First(s)}) = g[s \ {First(s)}]
        BY <1>1, <2>1 DEF Tabulates
    <2> HIDE DEF Sum
    <2> QED
        BY <2>1, <2>2, <2>3
<1>3. \A U \in SUBSET S : Sum(U) \in Int
    BY <1>1 DEF Tabulates
<1> HIDE DEF Sum
<1>4. ASSUME C # {} PROVE FALSE
    <2>1. PICK s \in C : \A t \in C : t \subseteq s => t = s
        <3>1. C \in SUBSET (SUBSET S)
            OBVIOUS
        <3> HIDE DEF C
        <3> QED
            BY <1>4, <3>1, SmallestSet
    <2>2. PICK y \in s : Sum(s) # f[y] + Sum(s \ {y})
        OBVIOUS
    <2> DEFINE z == First(s)
    <2>3. s \in SUBSET S /\ z \in s /\ Sum(s) = f[z] + Sum(s \ {z})
        BY <1>2, <2>2
    <2>4. y # z
        BY <2>2, <2>3
    <2> HIDE DEF z
    <2>5. Sum(s \ {z}) = f[y] + Sum((s \ {z}) \ {y})
        <3>1. s \ {z} \notin C
            BY <2>1, <2>3
        <3>2. s \ {z} \in SUBSET S /\ y \in s \ {z}
            BY <2>2, <2>3, <2>4
        <3> QED
            BY <3>1, <3>2
    <2>6. Sum(s \ {y}) = f[z] + Sum((s \ {y}) \ {z})
        <3>1. s \ {y} \notin C
            BY <2>1, <2>2
        <3>2. s \ {y} \in SUBSET S /\ z \in s \ {y}
            BY <2>2, <2>3, <2>4
        <3> QED
            BY <3>1, <3>2
    <2>7. (s \ {z}) \ {y} = (s \ {y}) \ {z}
        OBVIOUS
    <2> DEFINE a == Sum((s \ {z}) \ {y})
    <2>8. f[y] \in Int /\ f[z] \in Int /\ a \in Int
        BY <1>3, <2>2, <2>3
    <2>9. Sum(s) = f[z] + (f[y] + a)
        BY <2>3, <2>5
    <2>10. f[y] + Sum(s \ {y}) = f[y] + (f[z] + a)
        BY <2>6, <2>7
    <2> HIDE DEF a
    <2> QED
        BY <2>2, <2>8, <2>9, <2>10
<1>5. S \in SUBSET S /\ S \notin C
    BY <1>4
<1>6. Sum(S) = f[x] + Sum(S \ {x})
    BY <1>5
<1> QED
    BY <1>6 DEF Sum

\* An element can be added to a sum.
LEMMA SumAdd ==
    ASSUME NEW S, IsFiniteSet(S), NEW x, x \notin S, NEW f,
           \A y \in S \cup {x} : f[y] \in Int
    PROVE  SumFunctionOnSet(f, S \cup {x}) = f[x] + SumFunctionOnSet(f, S)
<1>1. IsFiniteSet(S \cup {x})
    BY FS_AddElement
<1>2. (S \cup {x}) \ {x} = S
    OBVIOUS
<1> QED
    BY <1>1, <1>2, SumRemove

\* A sum depends on the values it adds, and on nothing else.
LEMMA SumSame ==
    ASSUME NEW S, IsFiniteSet(S), NEW f, NEW h, \A x \in S : f[x] \in Int /\ f[x] = h[x]
    PROVE  SumFunctionOnSet(f, S) = SumFunctionOnSet(h, S)
<1>1. \A x \in S : f[x] \in Int /\ h[x] \in Int
    OBVIOUS
<1>2. PICK g : Tabulates(g, f, S)
    BY <1>1, SumOf
<1>3. PICK k : Tabulates(k, h, S)
    BY <1>1, SumOf
<1>4. S \in SUBSET (S \cap S) /\ S \in SUBSET S /\ \A x \in S : f[x] = h[x]
    OBVIOUS
<1>5. Computes(g, f, S) /\ Computes(k, h, S)
    BY <1>2, <1>3 DEF Tabulates
<1>6. g[S] = k[S]
    BY <1>4, <1>5, ComputesAgree
<1> QED
    BY <1>2, <1>3, <1>4, <1>6 DEF Tabulates

\* What maps one to one into a finite set has no more members than it.
LEMMA NoMoreThan ==
    ASSUME NEW S, NEW T, IsFiniteSet(T), NEW f \in [S -> T], \A x, y \in S : f[x] = f[y] => x = y
    PROVE  IsFiniteSet(S) /\ Cardinality(S) <= Cardinality(T)
<1>1. f \in Injection(S, T)
  BY DEF Injection, IsInjective
<1> QED BY <1>1, FS_Injection

\* Of some of the numbers up to n one is the least.
LEMMA LeastNumber ==
    ASSUME NEW n \in Nat, NEW S \in SUBSET (1..n), S # {}
    PROVE  \E k \in S : \A m \in S : k =< m
<1> DEFINE Upto == {1..k : k \in S}
<1>1. Upto \subseteq SUBSET (1..n)
  <2> SUFFICES ASSUME NEW k \in S PROVE 1..k \subseteq 1..n
    OBVIOUS
  <2>1. k \in Nat /\ k <= n
    OBVIOUS
  <2> QED BY <2>1
<1>2. IsFiniteSet(1..n)
  <2>1. 1 \in Int /\ n \in Int
    OBVIOUS
  <2> QED BY ONLY <2>1, FS_Interval
<1>3. \E s \in Upto : \A t \in Upto : t \subseteq s => t = s
  <2>1. PICK k \in S : TRUE
    OBVIOUS
  <2>2. 1..k \in Upto
    OBVIOUS
  <2>3. Upto \in SUBSET (SUBSET (1..n)) /\ Upto # {}
    <3> HIDE DEF Upto
    <3> QED BY <1>1, <2>2
  <2> DEFINE upto == 1..n
  <2>4. IsFiniteSet(upto) /\ Upto \in SUBSET (SUBSET upto) /\ Upto # {}
    BY <1>2, <2>3
  <2> HIDE DEF Upto, upto
  <2> QED BY ONLY <2>4, SmallestSet
<1>4. PICK k \in S : \A m \in S : 1..m \subseteq 1..k => 1..m = 1..k
  <2>1. PICK s \in Upto : \A t \in Upto : t \subseteq s => t = s
    BY <1>3
  <2>2. PICK k \in S : s = 1..k
    OBVIOUS
  <2>3. \A m \in S : 1..m \in Upto
    OBVIOUS
  <2> HIDE DEF Upto
  <2> QED BY <2>1, <2>2, <2>3
<1>5. ASSUME NEW m \in S PROVE k =< m
  <2>1. k \in Nat /\ m \in Nat /\ 1 <= k /\ 1 <= m
    OBVIOUS
  <2>2. CASE m < k
    <3>1. 1..m \subseteq 1..k BY <2>1, <2>2
    <3>2. k \in 1..m BY <3>1, <1>4, <2>1
    <3> QED BY <2>1, <2>2, <3>2
  <2> QED BY <2>1, <2>2
<1> QED BY <1>5

\* A set that holds the first of some numbers, and with each the next, holds them all.
LEMMA Steps ==
    ASSUME NEW m \in Int, NEW n \in Int, NEW S, m \in S, \A k \in m + 1 .. n : k - 1 \in S => k \in S
    PROVE  m..n \subseteq S
<1> DEFINE left == {j \in 1 .. n - m + 1 : m + j - 1 \notin S}
<1>1. SUFFICES ASSUME left # {} PROVE FALSE
  <2> SUFFICES ASSUME NEW k \in m..n, k \notin S PROVE left # {}
    OBVIOUS
  <2>1. PICK j \in 1 .. n - m + 1 : m + j - 1 = k
    <3>1. k - m + 1 \in 1 .. n - m + 1 /\ m + (k - m + 1) - 1 = k
      OBVIOUS
    <3> QED BY <3>1
  <2>2. j \in left
    BY <2>1
  <2> QED BY <2>2
<1>2. n - m + 1 \in Nat
  <2>1. PICK j \in 1 .. n - m + 1 : TRUE
    BY <1>1
  <2> QED BY <2>1
<1>3. PICK j \in left : \A i \in left : j =< i
  <2>1. left \in SUBSET (1 .. n - m + 1)
    OBVIOUS
  <2> HIDE DEF left
  <2> QED BY <1>1, <1>2, <2>1, LeastNumber
<1>4. j # 1
  OBVIOUS
<1>5. j - 1 \in 1 .. n - m + 1 /\ j - 1 \notin left
  BY <1>3, <1>4
<1>6. m + j - 2 \in S /\ m + j - 1 \in m + 1 .. n
  BY <1>4, <1>5
<1>7. (m + j - 1) - 1 = m + j - 2
  OBVIOUS
<1>8. m + j - 1 \in S
  BY <1>6, <1>7
<1> QED BY <1>8

\* Any numbers have a least.
LEMMA LeastNat ==
    ASSUME NEW S \in SUBSET Nat, S # {}
    PROVE  \E k \in S : \A m \in S : k =< m
<1>1. PICK n \in S : TRUE
  OBVIOUS
<1> DEFINE T == {j \in 1 .. n + 1 : j - 1 \in S}
<1>2. n + 1 \in T
  <2>1. n \in Nat /\ n + 1 \in 1 .. n + 1 /\ (n + 1) - 1 = n
    OBVIOUS
  <2> QED BY <2>1
<1>3. PICK j \in T : \A i \in T : j =< i
  <2>1. T \in SUBSET (1 .. n + 1)
    OBVIOUS
  <2>2. n \in Nat
    OBVIOUS
  <2>3. n + 1 \in Nat
    BY <2>2
  <2> HIDE DEF T
  <2> QED BY <1>2, <2>1, <2>3, LeastNumber
<1>4. j - 1 \in S
  OBVIOUS
<1>5. ASSUME NEW i \in S PROVE j - 1 =< i
  <2>1. CASE i <= n
    <3>1. i + 1 \in T BY <2>1
    <3>2. j =< i + 1 BY <1>3, <3>1
    <3> QED BY <3>2
  <2>2. CASE i > n
    <3>1. j =< n + 1 OBVIOUS
    <3> QED BY <2>2, <3>1
  <2> QED BY <2>1, <2>2
<1> QED BY <1>4, <1>5

\* A set of subsets that holds the empty one, and with each those with one more member,
\* holds them all.
LEMMA SubsetSteps ==
    ASSUME NEW S, IsFiniteSet(S), NEW P, {} \in P,
           \A U \in SUBSET S : \A x \in S \ U : U \in P => U \cup {x} \in P
    PROVE  S \in P
<1> DEFINE left == {U \in SUBSET S : U \notin P}
<1>1. SUFFICES ASSUME left # {} PROVE FALSE
  OBVIOUS
<1>2. PICK U \in left : \A t \in left : t \subseteq U => t = U
  <2>1. left \in SUBSET (SUBSET S)
    OBVIOUS
  <2> HIDE DEF left
  <2> QED BY <1>1, <2>1, SmallestSet
<1>3. PICK x \in U : TRUE
  OBVIOUS
<1>4. U \ {x} \in SUBSET S /\ x \in S \ (U \ {x}) /\ (U \ {x}) \cup {x} = U
  OBVIOUS
<1>5. U \ {x} \in P
  BY <1>2, <1>4
<1> QED BY <1>4, <1>5

\* A finite set of integers has a least and a greatest.
LEMMA Extremes ==
    ASSUME NEW S \in SUBSET Int, IsFiniteSet(S), S # {}
    PROVE  /\ \E k \in S : \A m \in S : k =< m
           /\ \E k \in S : \A m \in S : k >= m
<1> DEFINE Has(U) == /\ \E k \in U : \A m \in U : k =< m
                     /\ \E k \in U : \A m \in U : k >= m
           P == {U \in SUBSET S : U = {} \/ Has(U)}
<1>1. {} \in P
  OBVIOUS
<1>2. ASSUME NEW U \in SUBSET S, NEW x \in S \ U, U \in P PROVE U \cup {x} \in P
  <2>1. CASE U = {}
    <3>1. \A m \in U \cup {x} : x =< m /\ x >= m BY <2>1
    <3>2. x \in U \cup {x} /\ U \cup {x} \in SUBSET S OBVIOUS
    <3> QED BY <3>1, <3>2
  <2>2. CASE U # {}
    <3>1. PICK low \in U : \A m \in U : low =< m BY <1>2, <2>2
    <3>2. PICK high \in U : \A m \in U : high >= m BY <1>2, <2>2
    <3>3. \E k \in U \cup {x} : \A m \in U \cup {x} : k =< m
      <4>1. CASE x <= low BY <3>1, <4>1
      <4>2. CASE x > low BY <3>1, <4>2
      <4> QED BY <4>1, <4>2
    <3>4. \E k \in U \cup {x} : \A m \in U \cup {x} : k >= m
      <4>1. CASE x >= high BY <3>2, <4>1
      <4>2. CASE x < high BY <3>2, <4>2
      <4> QED BY <4>1, <4>2
    <3>5. U \cup {x} \in SUBSET S OBVIOUS
    <3> QED BY <3>3, <3>4, <3>5
  <2> QED BY <2>1, <2>2
<1>3. S \in P
  <2> HIDE DEF P
  <2> QED BY <1>1, <1>2, SubsetSteps
<1> QED BY <1>3

\* A function that has a first value, and a step from each value to the next.
StepsIn(step, m, n, T) == \A k \in m + 1 .. n : step[k] \in [T -> T]
Follows(g, m, n, base, step) == \A k \in m..n : g[k] = IF k = m THEN base ELSE step[k][g[k - 1]]

\* There is one.
LEMMA Recursion ==
    ASSUME NEW m \in Int, NEW n \in Int, m <= n, NEW T, NEW base \in T, NEW step, StepsIn(step, m, n, T)
    PROVE  \E g : g \in [m..n -> T] /\ Follows(g, m, n, base, step)
<1> DEFINE Runs(k, g) == \A j \in m..k : g[j] = IF j = m THEN base ELSE step[j][g[j - 1]]
           S == {k \in m..n : \E g \in [m..k -> T] : Runs(k, g)}
<1>1. m \in S
  <2>1. [j \in m..m |-> base] \in [m..m -> T] /\ Runs(m, [j \in m..m |-> base])
    OBVIOUS
  <2>2. m \in m..n
    OBVIOUS
  <2> QED BY <2>1, <2>2
<1>2. ASSUME NEW k \in m + 1 .. n, k - 1 \in S PROVE k \in S
  <2>1. PICK g \in [m .. k - 1 -> T] : Runs(k - 1, g)
    BY <1>2
  <2> DEFINE h == [j \in m..k |-> IF j = k THEN step[k][g[k - 1]] ELSE g[j]]
  <2>2. k - 1 \in m .. k - 1 /\ g[k - 1] \in T /\ step[k][g[k - 1]] \in T
    BY DEF StepsIn
  <2>3. h \in [m..k -> T]
    <3> SUFFICES ASSUME NEW j \in m..k PROVE h[j] \in T
      OBVIOUS
    <3>1. CASE j = k BY <2>2, <3>1
    <3>2. CASE j # k
      <4>1. j \in m .. k - 1 BY <3>2
      <4> QED BY <3>2, <4>1
    <3> QED BY <3>1, <3>2
  <2>4. ASSUME NEW j \in m..k PROVE h[j] = IF j = m THEN base ELSE step[j][h[j - 1]]
    <3>1. CASE j = k
      <4>1. h[j] = step[k][g[k - 1]] /\ j # m BY <3>1
      <4>2. h[j - 1] = g[k - 1] BY <3>1
      <4> QED BY <3>1, <4>1, <4>2
    <3>2. CASE j # k
      <4>1. j \in m .. k - 1 /\ h[j] = g[j] BY <3>2
      <4>2. g[j] = IF j = m THEN base ELSE step[j][g[j - 1]] BY <2>1, <4>1
      <4>3. j # m => h[j - 1] = g[j - 1] BY <4>1
      <4> HIDE DEF h
      <4> QED BY <4>1, <4>2, <4>3
    <3> QED BY <3>1, <3>2
  <2>5. Runs(k, h)
    BY <2>4
  <2>6. k \in m..n
    OBVIOUS
  <2> HIDE DEF h, Runs
  <2> QED BY <2>3, <2>5, <2>6
<1>3. n \in S
  <2>1. m..n \subseteq S
    <3> HIDE DEF S
    <3> QED BY <1>1, <1>2, Steps
  <2>2. n \in m..n
    OBVIOUS
  <2> QED BY <2>1, <2>2
<1>4. PICK g \in [m..n -> T] : Runs(n, g)
  BY <1>3
<1> QED BY <1>4 DEF Follows

\* What is added up over two sets that share nothing is the sum over each.
LEMMA SumUnion ==
    ASSUME NEW S, IsFiniteSet(S), NEW f, \A x \in S : f[x] \in Int,
           NEW A \in SUBSET S, NEW B \in SUBSET S, A \cap B = {}
    PROVE  SumFunctionOnSet(f, A \cup B) = SumFunctionOnSet(f, A) + SumFunctionOnSet(f, B)
<1> DEFINE sum(U) == SumFunctionOnSet(f, U)
           P == {U \in SUBSET B : sum(A \cup U) = sum(A) + sum(U)}
<1>1. IsFiniteSet(A) /\ IsFiniteSet(B)
  BY FS_Subset
<1>2. sum(A) \in Int
  BY <1>1, SumInt
<1>3. {} \in P
  <2>1. A \cup {} = A /\ sum({}) = 0
    BY SumEmpty
  <2> HIDE DEF sum
  <2> QED BY <1>2, <2>1
<1>4. ASSUME NEW U \in SUBSET B, NEW x \in B \ U, U \in P PROVE U \cup {x} \in P
  <2>1. IsFiniteSet(U) /\ IsFiniteSet(A \cup U)
    BY <1>1, FS_Subset, FS_Union
  <2>2. x \notin A \cup U /\ A \cup (U \cup {x}) = (A \cup U) \cup {x}
    OBVIOUS
  <2>3. \A y \in (A \cup U) \cup {x} : f[y] \in Int
    OBVIOUS
  <2>4. sum((A \cup U) \cup {x}) = f[x] + sum(A \cup U)
    BY <2>1, <2>2, <2>3, SumAdd
  <2>5. sum(U \cup {x}) = f[x] + sum(U)
    BY <2>1, <2>3, SumAdd
  <2>6. f[x] \in Int /\ sum(U) \in Int
    BY <2>1, SumInt
  <2>7. sum(A \cup U) = sum(A) + sum(U)
    BY <1>4
  <2> HIDE DEF sum
  <2>8. sum(A \cup (U \cup {x})) = f[x] + (sum(A) + sum(U))
    BY <2>2, <2>4, <2>7
  <2>9. f[x] + (sum(A) + sum(U)) = sum(A) + (f[x] + sum(U))
    BY <1>2, <2>6
  <2>10. sum(A \cup (U \cup {x})) = sum(A) + sum(U \cup {x})
    BY <2>5, <2>8, <2>9
  <2> QED BY <2>10
<1>5. B \in P
  <2> HIDE DEF P
  <2> QED BY <1>1, <1>3, <1>4, SubsetSteps
<1> QED BY <1>5

\* The sum of sums is the sum of what they add.
LEMMA SumPlus ==
    ASSUME NEW S, IsFiniteSet(S), NEW f, NEW g, NEW h,
           \A x \in S : f[x] \in Int /\ g[x] \in Int /\ h[x] = f[x] + g[x]
    PROVE  SumFunctionOnSet(h, S) = SumFunctionOnSet(f, S) + SumFunctionOnSet(g, S)
<1> DEFINE sum(e, U) == SumFunctionOnSet(e, U)
           P == {U \in SUBSET S : sum(h, U) = sum(f, U) + sum(g, U)}
<1>1. {} \in P
  <2>1. sum(h, {}) = 0 /\ sum(f, {}) = 0 /\ sum(g, {}) = 0
    BY SumEmpty
  <2> HIDE DEF sum
  <2> QED BY <2>1
<1>2. ASSUME NEW U \in SUBSET S, NEW x \in S \ U, U \in P PROVE U \cup {x} \in P
  <2>1. IsFiniteSet(U) /\ x \notin U
    BY FS_Subset
  <2>2. \A y \in U \cup {x} : f[y] \in Int /\ g[y] \in Int /\ h[y] \in Int
    OBVIOUS
  <2>3. /\ sum(f, U \cup {x}) = f[x] + sum(f, U)
        /\ sum(g, U \cup {x}) = g[x] + sum(g, U)
        /\ sum(h, U \cup {x}) = h[x] + sum(h, U)
    BY <2>1, <2>2, SumAdd
  <2>4. sum(f, U) \in Int /\ sum(g, U) \in Int
    BY <2>1, <2>2, SumInt
  <2>5. sum(h, U) = sum(f, U) + sum(g, U)
    BY <1>2
  <2>6. f[x] \in Int /\ g[x] \in Int /\ h[x] = f[x] + g[x]
    OBVIOUS
  <2> HIDE DEF sum
  <2>7. sum(h, U \cup {x}) = sum(f, U \cup {x}) + sum(g, U \cup {x})
    BY <2>3, <2>4, <2>5, <2>6
  <2> QED BY <2>7
<1>3. S \in P
  <2> HIDE DEF P
  <2> QED BY <1>1, <1>2, SubsetSteps
<1> QED BY <1>3

\* A sum of amounts that are not negative is not negative either.
LEMMA SumNat ==
    ASSUME NEW S, IsFiniteSet(S), NEW f, \A x \in S : f[x] \in Nat
    PROVE  SumFunctionOnSet(f, S) \in Nat
<1> DEFINE sum(U) == SumFunctionOnSet(f, U)
           P == {U \in SUBSET S : sum(U) \in Nat}
<1>1. {} \in P
  BY SumEmpty
<1>2. ASSUME NEW U \in SUBSET S, NEW x \in S \ U, U \in P PROVE U \cup {x} \in P
  <2>1. IsFiniteSet(U) /\ x \notin U /\ \A y \in U \cup {x} : f[y] \in Int
    BY FS_Subset
  <2>2. sum(U \cup {x}) = f[x] + sum(U)
    BY <2>1, SumAdd
  <2>3. f[x] \in Nat /\ sum(U) \in Nat
    BY <1>2
  <2> HIDE DEF sum
  <2> QED BY <2>2, <2>3
<1>3. S \in P
  <2> HIDE DEF P
  <2> QED BY <1>1, <1>2, SubsetSteps
<1> QED BY <1>3

\* A sum of nothing but zeros is zero.
LEMMA SumZero ==
    ASSUME NEW S, IsFiniteSet(S), NEW f, \A x \in S : f[x] = 0
    PROVE  SumFunctionOnSet(f, S) = 0
<1>1. \A x \in S : f[x] \in Int /\ f[x] = f[x] + f[x]
  OBVIOUS
<1>2. SumFunctionOnSet(f, S) = SumFunctionOnSet(f, S) + SumFunctionOnSet(f, S)
  BY <1>1, SumPlus
<1>3. SumFunctionOnSet(f, S) \in Int
  BY <1>1, SumInt
<1>4. \A n \in Int : n = n + n => n = 0
  OBVIOUS
<1> QED BY <1>2, <1>3, <1>4, Zenon

\* A sum along a list without repetitions is the sum over its members.
LEMMA SumAlong ==
    ASSUME NEW n \in Nat, NEW S, IsFiniteSet(S), NEW f, \A x \in S : f[x] \in Int,
           NEW q \in [1..n -> S], \A i, j \in 1..n : q[i] = q[j] => i = j,
           NEW h, \A k \in 1..n : h[k] = f[q[k]]
    PROVE  SumFunctionOnSet(h, 1..n) = SumFunctionOnSet(f, {q[k] : k \in 1..n})
<1> DEFINE upto(k) == {q[j] : j \in 1..k}
           P == {k \in 0..n : SumFunctionOnSet(h, 1..k) = SumFunctionOnSet(f, upto(k))}
<1>1. 0 \in P
  <2>1. 1..0 = {} /\ upto(0) = {}
    OBVIOUS
  <2> HIDE DEF upto
  <2>2. SumFunctionOnSet(h, 1..0) = SumFunctionOnSet(f, upto(0))
    BY <2>1, SumEmpty
  <2> QED BY <2>2
<1>2. ASSUME NEW k \in 1..n, k - 1 \in P PROVE k \in P
  <2>1. 1..k = (1 .. k - 1) \cup {k} /\ k \notin 1 .. k - 1
    OBVIOUS
  <2>2. upto(k) = upto(k - 1) \cup {q[k]} /\ q[k] \notin upto(k - 1)
    OBVIOUS
  <2>3. IsFiniteSet(1 .. k - 1)
    <3>1. 1 \in Int /\ k - 1 \in Int
      OBVIOUS
    <3> QED BY ONLY <3>1, FS_Interval
  <2>4. upto(k - 1) \in SUBSET S
    OBVIOUS
  <2> HIDE DEF upto
  <2>5. IsFiniteSet(upto(k - 1)) /\ q[k] \in S
    BY <2>4, FS_Subset
  <2>6. SumFunctionOnSet(f, upto(k)) = f[q[k]] + SumFunctionOnSet(f, upto(k - 1))
    <3>1. \A y \in upto(k - 1) \cup {q[k]} : f[y] \in Int
      BY <2>4, <2>5
    <3> QED BY <2>2, <2>5, <3>1, SumAdd
  <2>7. SumFunctionOnSet(h, 1..k) = h[k] + SumFunctionOnSet(h, 1 .. k - 1)
    <3> DEFINE before == 1 .. k - 1
    <3>1. \A y \in before \cup {k} : h[y] \in Int
      BY <2>1
    <3>2. 1..k = before \cup {k} /\ k \notin before /\ IsFiniteSet(before)
      BY <2>1, <2>3
    <3> HIDE DEF before
    <3>3. SumFunctionOnSet(h, before \cup {k}) = h[k] + SumFunctionOnSet(h, before)
      BY ONLY <3>1, <3>2, SumAdd
    <3> QED BY <3>2, <3>3 DEF before
  <2>8. SumFunctionOnSet(h, 1 .. k - 1) = SumFunctionOnSet(f, upto(k - 1))
    BY <1>2
  <2>9. h[k] = f[q[k]]
    OBVIOUS
  <2>10. SumFunctionOnSet(h, 1..k) = SumFunctionOnSet(f, upto(k))
    BY <2>6, <2>7, <2>8, <2>9
  <2> QED BY <2>10
<1>3. n \in P
  <2>1. 0 \in Int /\ n \in Int /\ \A k \in 0 + 1 .. n : k - 1 \in P => k \in P
    BY <1>2
  <2> HIDE DEF P
  <2>2. 0..n \subseteq P
    BY <1>1, <2>1, Steps
  <2> QED BY <2>2
<1> QED BY <1>3

\* The members of a finite set of numbers can be put in order, either way.
LEMMA OneOrder ==
    ASSUME NEW S, \A x \in S : x \in Nat, IsFiniteSet(S)
    PROVE  /\ \E q \in [1..Cardinality(S) -> S] : \A m, n \in 1..Cardinality(S) : m < n => q[m] > q[n]
           /\ \E q \in [1..Cardinality(S) -> S] : \A m, n \in 1..Cardinality(S) : m < n => q[m] < q[n]
<1> DEFINE Falls(U, q) == \A m, n \in 1..Cardinality(U) : m < n => q[m] > q[n]
           P == {U \in SUBSET S : \E q \in [1..Cardinality(U) -> U] : Falls(U, q)}
           left == {U \in SUBSET S : U \notin P}
<1>0. \A C \in SUBSET (SUBSET S) : C # {} => \E s \in C : \A t \in C : t \subseteq s => t = s
  BY SmallestSet
<1>1. ASSUME left # {} PROVE FALSE
  <2>1. PICK U \in left : \A t \in left : t \subseteq U => t = U
    <3>1. IsFiniteSet(S) /\ left \in SUBSET (SUBSET S) /\ left # {}
      BY <1>1
    <3> HIDE DEF left, P, Falls
    <3> QED BY <3>1, <1>0
  <2>2. U \in SUBSET Nat /\ IsFiniteSet(U)
    BY FS_Subset
  <2>3. U # {}
    <3> SUFFICES ASSUME U = {} PROVE FALSE
      OBVIOUS
    <3>1. Cardinality(U) = 0 /\ 1..0 = {}
      BY FS_EmptySet
    <3>2. [x \in {} |-> 0] \in [1..Cardinality(U) -> U] /\ Falls(U, [x \in {} |-> 0])
      BY <3>1
    <3> QED BY <3>2
  <2>4. PICK x \in U : \A y \in U : x =< y
    BY <2>2, <2>3, LeastNat
  <2> DEFINE V == U \ {x}
             c == Cardinality(V)
  <2>5. IsFiniteSet(V) /\ Cardinality(U) = c + 1 /\ c \in Nat
    <3>1. IsFiniteSet(V) /\ c = Cardinality(U) - 1
      BY <2>2, <2>4, FS_RemoveElement
    <3>2. Cardinality(U) \in Nat /\ c \in Nat
      BY <2>2, <3>1, FS_CardinalityType
    <3> HIDE DEF c
    <3> QED BY <3>1, <3>2
  <2>6. PICK q \in [1..c -> V] : Falls(V, q)
    <3>1. V \in SUBSET S /\ V \subseteq U /\ V # U
      BY <2>4
    <3>2. V \in P
      <4> HIDE DEF V, P
      <4> QED BY <2>1, <3>1
    <3> HIDE DEF V, Falls
    <3> QED BY <3>2
  <2> DEFINE r == [k \in 1 .. c + 1 |-> IF k = c + 1 THEN x ELSE q[k]]
  <2>7. \A k \in 1 .. c + 1 : k = c + 1 \/ k \in 1..c
    <3> HIDE DEF c
    <3> QED BY <2>5
  <2>8. r \in [1 .. c + 1 -> U]
    <3> SUFFICES ASSUME NEW k \in 1 .. c + 1 PROVE r[k] \in U
      OBVIOUS
    <3>1. CASE k = c + 1 BY <3>1
    <3>2. CASE k # c + 1
      <4>1. k \in 1..c BY <2>7, <3>2
      <4> HIDE DEF c
      <4> QED BY <2>6, <3>2, <4>1
    <3> QED BY <3>1, <3>2
  <2>9. ASSUME NEW m \in 1 .. c + 1, NEW n \in 1 .. c + 1, m < n PROVE r[m] > r[n]
    <3>1. m \in 1..c
      <4> HIDE DEF c
      <4> QED BY <2>5, <2>9
    <3>2. r[m] = q[m] /\ q[m] \in V
      <4>1. m # c + 1
        <5> HIDE DEF c
        <5> QED BY <2>5, <3>1
      <4> HIDE DEF c, V
      <4> QED BY <2>6, <3>1, <4>1
    <3>3. CASE n = c + 1
      <4>1. r[n] = x BY <3>3
      <4>2. q[m] \in Nat /\ x \in Nat /\ x =< q[m] /\ q[m] # x BY <2>2, <2>4, <3>2
      <4> HIDE DEF r
      <4> QED BY <3>2, <4>1, <4>2
    <3>4. CASE n # c + 1
      <4>1. n \in 1..c BY <2>7, <3>4
      <4>2. r[n] = q[n] BY <3>4
      <4>3. q[m] > q[n] BY <2>6, <2>9, <3>1, <4>1
      <4> HIDE DEF r
      <4> QED BY <3>2, <4>2, <4>3
    <3> QED BY <3>3, <3>4
  <2>10. r \in [1..Cardinality(U) -> U] /\ Falls(U, r)
    <3> HIDE DEF r, c
    <3> QED BY <2>5, <2>8, <2>9
  <2> QED BY <2>10
<1>2. S \in P
  BY <1>1
<1>3. PICK q \in [1..Cardinality(S) -> S] : Falls(S, q)
  BY <1>2
<1> DEFINE c == Cardinality(S)
           r == [k \in 1..c |-> q[c + 1 - k]]
<1>4. c \in Nat
  BY FS_CardinalityType
<1> HIDE DEF c
<1>5. \A k \in 1..c : c + 1 - k \in 1..c
  BY <1>4
<1>6. q \in [1..c -> S] /\ \A m, n \in 1..c : m < n => q[m] > q[n]
  BY <1>3 DEF c
<1>7. r \in [1..c -> S]
  BY <1>5, <1>6
<1>8. ASSUME NEW m \in 1..c, NEW n \in 1..c, m < n PROVE r[m] < r[n]
  <2>1. c + 1 - n < c + 1 - m
    BY <1>4, <1>8
  <2>2. q[c + 1 - n] > q[c + 1 - m]
    BY <1>5, <1>6, <2>1
  <2>3. q[c + 1 - n] \in Nat /\ q[c + 1 - m] \in Nat
    BY <1>5, <1>6
  <2> QED BY <2>2, <2>3
<1> HIDE DEF r
<1>9. \E p \in [1..c -> S] : \A m, n \in 1..c : m < n => p[m] < p[n]
  BY <1>7, <1>8
<1> QED BY <1>6, <1>9 DEF c

\* A list without repetitions that is as long as its set is large holds all of it.
LEMMA Exhausts ==
    ASSUME NEW S, IsFiniteSet(S), NEW n \in Nat, n = Cardinality(S),
           NEW q \in [1..n -> S], \A i, j \in 1..n : q[i] = q[j] => i = j
    PROVE  S = {q[k] : k \in 1..n}
<1>1. q \in Injection(1..n, S)
  BY DEF Injection, IsInjective
<1>2. Cardinality(1..n) = n
  <2>1. 1 \in Int /\ n \in Int
    OBVIOUS
  <2>2. Cardinality(1..n) = IF 1 > n THEN 0 ELSE n - 1 + 1
    BY ONLY <2>1, FS_Interval
  <2> QED BY <2>2
<1>3. q \in Surjection(1..n, S)
  BY <1>1, <1>2, FS_Injection
<1> QED BY <1>3 DEF Surjection
=============================================================================
