---------------------------- MODULE BudgetsProofs -----------------------------
(* Categories keep two levels and one role along a path, and every stored      *)
(* budget period is what a recalculation of the whole timeline would give.     *)
(*                                                                             *)
(* A timeline is sound in a world when each of its results is calculated from  *)
(* the one before.  A write either recalculates a budget from the first period *)
(* it changes on, or changes nothing a period of that budget is calculated     *)
(* from; and there is only one sound timeline of given configurations.         *)
EXTENDS Budgets, FiniteSetTheorems, WellFoundedInduction, TLAPS

-----------------------------------------------------------------------------
(* The invariant.                                                              *)

TreeTyped == tree \in [Categories -> CategoryRow \cup {None}]
TxnTyped == txn \in [Transactions -> TransactionRow \cup {None}]

RowsTyped ==
    /\ TreeTyped
    /\ TxnTyped
    /\ budget \in [BudgetIds -> BudgetRow \cup {None}]
    /\ DOMAIN timeline = BudgetIds

\* A transaction is filed under a category that was created once.
Filed == \A t \in Transactions :
    txn[t] # None /\ txn[t].category # None => tree[txn[t].category] # None

\* The row of a period.
Result ==
    [complete : BOOLEAN, spending : Int, remaining : Int, effective : Int,
     status : {"overspent", "warning", "onTrack", "incomplete"}]

\* A timeline has a configuration and a result of every period it spans.
Configured(tl) ==
    /\ First(tl) \in Periods /\ Latest(tl) \in Periods /\ First(tl) <= Latest(tl)
    /\ tl.conf \in [First(tl)..Latest(tl) -> Setting]

Shaped(tl) ==
    /\ tl = [conf |-> tl.conf, res |-> tl.res]
    /\ Configured(tl)
    /\ tl.res \in [First(tl)..Latest(tl) -> Result]

\* It has the results before a period.
HasBefore(tl, from) ==
    \A p \in First(tl)..(from - 1) : p \in DOMAIN tl.res /\ tl.res[p] \in Result

Before(tl, p) == IF p = First(tl) THEN NoResult ELSE tl.res[p - 1]

Follows(w, tl, p) == tl.res[p] = Calculated(w, tl.conf, p, Before(tl, p))

\* Every result is calculated from the one before.
Chained(w, tl) == \A p \in First(tl)..Latest(tl) : Follows(w, tl, p)

OneMode(tl, mode) == \A p \in First(tl)..Latest(tl) : tl.conf[p].mode = mode

Timelines == \A b \in Budgeted : Shaped(timeline[b])

SoundIn(w, tl, mode) == Chained(w, tl) /\ OneMode(tl, mode)

Sound(b) == SoundIn(World, timeline[b], budget[b].mode)

BudgetsInv ==
    /\ RowsTyped
    /\ TwoLevelsOneRole
    /\ Filed
    /\ Timelines
    /\ \A b \in Budgeted \ remoded : Sound(b)

-----------------------------------------------------------------------------
(* Numbers.                                                                    *)

\* The order of the naturals, as a relation.
LessThan == OpToRel(<, Nat)

\* Pairs of LessThan are in order.
LEMMA LessThanIsLess == \A m, n \in Nat : <<m, n>> \in LessThan <=> m < n
  BY SMT DEF LessThan, OpToRel

\* A set of naturals has a least element: every induction below is an argument about the
\* least number something fails for.
LEMMA LeastElement ==
    ASSUME NEW T, T \subseteq Nat, T # {}
    PROVE  \E m \in T : \A n \in T : m <= n
<1>1. IsWellFoundedOn(LessThan, Nat)
  BY NatLessThanWellFounded DEF LessThan
<1>2. PICK m \in T : \A n \in T : ~ (<<n, m>> \in LessThan)
  BY <1>1, WFMin
<1>3. ASSUME NEW n \in T PROVE m <= n
  <2>1. m \in Nat /\ n \in Nat
    OBVIOUS
  <2>2. ~ (n < m)
    BY <1>2, <2>1, LessThanIsLess, Zenon
  <2> QED
    BY <2>1, <2>2
<1> QED
  BY <1>3

\* The bounds of an interval.
LEMMA IntervalBounds ==
    ASSUME NEW a \in Int, NEW z \in Int, a <= z
    PROVE  Min(a..z) = a /\ Max(a..z) = z
<1>1. a \in a..z /\ z \in a..z /\ \A x \in a..z : a <= x /\ z >= x
  OBVIOUS
<1>2. \A x \in a..z : (\A y \in a..z : x <= y) => x = a
  OBVIOUS
<1>3. \A x \in a..z : (\A y \in a..z : x >= y) => x = z
  OBVIOUS
<1>4. Min(a..z) = a
  BY <1>1, <1>2 DEF Min
<1>5. Max(a..z) = z
  BY <1>1, <1>3 DEF Max
<1> QED
  BY <1>4, <1>5

\* The least element of a non-empty set of naturals is its Min.
LEMMA LeastIsMin ==
    ASSUME NEW T, T \subseteq Nat, T # {}
    PROVE  Min(T) \in T /\ \A n \in T : Min(T) <= n
  BY LeastElement DEF Min

\* The later of two periods.
LEMMA LaterOfTwo ==
    ASSUME NEW m \in Nat, NEW n \in Nat
    PROVE  Max({m, n}) = IF m <= n THEN n ELSE m
<1>1. \A x \in {m, n} : (\A y \in {m, n} : x >= y) <=> x = IF m <= n THEN n ELSE m
  OBVIOUS
<1> QED
  BY <1>1 DEF Max

-----------------------------------------------------------------------------
(* Sums over finite sets, taken element by element as MapThenSumSet does.       *)

Pick(s) == CHOOSE x \in s : TRUE

Sums(g, val, S) ==
    g = [s \in SUBSET S |-> IF s = {} THEN 0 ELSE val[Pick(s)] + g[s \ {Pick(s)}]]

SumOf(val, S) == (CHOOSE g : Sums(g, val, S))[S]

\* Among subsets of a finite set there is a smallest one: the inductions over sums are
\* arguments about a smallest set something fails for.
LEMMA SmallestSet ==
    ASSUME NEW S, IsFiniteSet(S), NEW T, T \subseteq SUBSET S, T # {}
    PROVE  \E m \in T : \A u \in T : u \subseteq m => u = m
<1>1. T \subseteq FiniteSubsetsOf(S)
  BY FS_Subset DEF FiniteSubsetsOf
<1>2. PICK m \in T : \A u \in T : ~ (<<u, m>> \in StrictSubsetOrdering(S))
  BY <1>1, FS_StrictSubsetOrderingWellFounded, WFMin
<1>3. ASSUME NEW u \in T, u \subseteq m PROVE u = m
  BY <1>2, <1>3 DEF StrictSubsetOrdering
<1> QED
  BY <1>3

\* A part of a set without the element that is taken first.
LEMMA PickOne ==
    ASSUME NEW s, s # {}
    PROVE  Pick(s) \in s /\ s \ {Pick(s)} \subseteq s /\ s \ {Pick(s)} # s
  BY DEF Pick

\* There is one sum.
LEMMA SumsAgree ==
    ASSUME NEW val, NEW S, NEW S2, IsFiniteSet(S), NEW g, NEW h,
           Sums(g, val, S), Sums(h, val, S2), NEW u \in SUBSET S, u \in SUBSET S2
    PROVE  g[u] = h[u]
<1> DEFINE T == {s \in SUBSET S : s \in SUBSET S2 /\ g[s] # h[s]}
<1>1. SUFFICES ASSUME T # {} PROVE FALSE
  OBVIOUS
<1>2. PICK m \in T : \A s \in T : s \subseteq m => s = m
  <2> HIDE DEF T
  <2>1. T \subseteq SUBSET S
    BY DEF T
  <2> QED
    BY <1>1, <2>1, SmallestSet
<1> DEFINE r == m \ {Pick(m)}
<1>3. /\ g[m] = IF m = {} THEN 0 ELSE val[Pick(m)] + g[r]
      /\ h[m] = IF m = {} THEN 0 ELSE val[Pick(m)] + h[r]
  BY DEF Sums
<1>4. m # {}
  BY <1>3
<1>5. r \subseteq m /\ r # m
  BY <1>4, PickOne
<1>6. r \notin T
  BY <1>2, <1>5
<1> QED
  BY <1>3, <1>5, <1>6

\* The sum of a set, from that of the rest.
LEMMA SumFromRest ==
    ASSUME NEW val, NEW S, IsFiniteSet(S), \E g : Sums(g, val, S),
           \E g : Sums(g, val, S \ {Pick(S)})
    PROVE  SumOf(val, S) = IF S = {} THEN 0 ELSE val[Pick(S)] + SumOf(val, S \ {Pick(S)})
<1> DEFINE g == CHOOSE f : Sums(f, val, S)
           h == CHOOSE f : Sums(f, val, S \ {Pick(S)})
<1>1. Sums(g, val, S) /\ Sums(h, val, S \ {Pick(S)})
  OBVIOUS
<1>2. SumOf(val, S) = g[S] /\ SumOf(val, S \ {Pick(S)}) = h[S \ {Pick(S)}]
  BY DEF SumOf
<1> HIDE DEF g, h
<1>3. g[S] = IF S = {} THEN 0 ELSE val[Pick(S)] + g[S \ {Pick(S)}]
  BY <1>1 DEF Sums
<1>4. g[S \ {Pick(S)}] = h[S \ {Pick(S)}]
  <2>1. S \ {Pick(S)} \in SUBSET S
    OBVIOUS
  <2> QED
    BY <1>1, <2>1, SumsAgree
<1> QED
  BY <1>2, <1>3, <1>4

\* Every finite set has a sum.
LEMMA SumsExist ==
    ASSUME NEW val, NEW S, IsFiniteSet(S)
    PROVE  \E g : Sums(g, val, S)
<1> DEFINE T == {s \in SUBSET S : ~ \E g : Sums(g, val, s)}
<1>1. SUFFICES ASSUME T # {} PROVE FALSE
  OBVIOUS
<1>2. PICK m \in T : \A s \in T : s \subseteq m => s = m
  <2> HIDE DEF T
  <2>1. T \subseteq SUBSET S
    BY DEF T
  <2> QED
    BY <1>1, <2>1, SmallestSet
<1> DEFINE f == [u \in SUBSET m |->
                    IF u = {} THEN 0
                    ELSE IF u = m THEN val[Pick(u)] + SumOf(val, u \ {Pick(u)})
                    ELSE SumOf(val, u)]
<1>3. ASSUME NEW u \in SUBSET m
      PROVE  f[u] = IF u = {} THEN 0 ELSE val[Pick(u)] + f[u \ {Pick(u)}]
  <2> DEFINE r == u \ {Pick(u)}
  <2>1. CASE u = {}
    BY <2>1
  <2>2. CASE u # {}
    <3>1. r \subseteq m /\ r # m
      BY <2>2, PickOne
    <3>2. r \notin T /\ r \in SUBSET S
      BY <1>2, <3>1
    <3>3. IsFiniteSet(u) /\ IsFiniteSet(r)
      BY FS_Subset
    <3>4. f[r] = SumOf(val, r)
      <4>1. CASE r = {}
        <5>1. Sums([s \in SUBSET {} |-> 0], val, {})
          BY DEF Sums
        <5>2. {} \ {Pick({})} = {}
          OBVIOUS
        <5>3. SumOf(val, {}) = 0
          BY <5>1, <5>2, SumFromRest, FS_EmptySet
        <5> QED
          BY <3>1, <4>1, <5>3
      <4>2. CASE r # {}
        BY <3>1, <4>2
      <4> QED
        BY <4>1, <4>2
    <3>5. CASE u = m
      BY <2>2, <3>4, <3>5
    <3>6. CASE u # m
      <4>1. u \notin T
        BY <1>2, <3>6
      <4>2. \E g : Sums(g, val, u)
        BY <4>1
      <4>3. \E g : Sums(g, val, r)
        BY <3>2
      <4>4. SumOf(val, u) = IF u = {} THEN 0 ELSE val[Pick(u)] + SumOf(val, r)
        BY <3>3, <4>2, <4>3, SumFromRest
      <4>5. f[u] = SumOf(val, u)
        BY <2>2, <3>6
      <4> QED
        BY <2>2, <3>4, <4>4, <4>5
    <3> QED
      BY <3>5, <3>6
  <2> QED
    BY <2>1, <2>2
<1>4. f = [u \in SUBSET m |-> f[u]]
  OBVIOUS
<1> HIDE DEF f
<1>5. Sums(f, val, m)
  BY <1>3, <1>4 DEF Sums
<1> QED
  BY <1>5

\* What a finite sum is.
LEMMA SumIs ==
    ASSUME NEW val, NEW S, IsFiniteSet(S)
    PROVE  SumOf(val, S) = IF S = {} THEN 0 ELSE val[Pick(S)] + SumOf(val, S \ {Pick(S)})
<1>1. IsFiniteSet(S \ {Pick(S)})
  BY FS_Subset
<1> QED
  BY <1>1, SumsExist, SumFromRest

\* A sum of integers is one.
LEMMA SumIsInt ==
    ASSUME NEW D, IsFiniteSet(D), NEW val \in [D -> Int], NEW S \in SUBSET D
    PROVE  SumOf(val, S) \in Int
<1> DEFINE T == {s \in SUBSET D : SumOf(val, s) \notin Int}
<1>1. SUFFICES ASSUME T # {} PROVE FALSE
  OBVIOUS
<1>2. PICK m \in T : \A s \in T : s \subseteq m => s = m
  <2> HIDE DEF T
  <2>1. T \subseteq SUBSET D
    BY DEF T
  <2> QED
    BY <1>1, <2>1, SmallestSet
<1> DEFINE r == m \ {Pick(m)}
<1>3. IsFiniteSet(m)
  BY FS_Subset
<1>4. SumOf(val, m) = IF m = {} THEN 0 ELSE val[Pick(m)] + SumOf(val, r)
  BY <1>3, SumIs
<1>5. m # {}
  BY <1>4
<1>6. Pick(m) \in m /\ r \subseteq m /\ r # m
  BY <1>5, PickOne
<1>7. SumOf(val, r) \in Int /\ val[Pick(m)] \in Int
  BY <1>2, <1>6
<1> HIDE DEF r
<1> QED
  BY <1>4, <1>5, <1>7

\* One more element adds what it counts.
LEMMA SumAdds ==
    ASSUME NEW D, IsFiniteSet(D), NEW val \in [D -> Int], NEW S \in SUBSET D, NEW x \in D \ S
    PROVE  SumOf(val, S \cup {x}) = SumOf(val, S) + val[x]
<1> DEFINE Adds(s, y) == SumOf(val, s \cup {y}) = SumOf(val, s) + val[y]
           T == {s \in SUBSET D : \E y \in D \ s : ~ Adds(s, y)}
<1>1. SUFFICES ASSUME T # {} PROVE FALSE
  OBVIOUS
<1>2. PICK m \in T : \A s \in T : s \subseteq m => s = m
  <2> HIDE DEF T
  <2>1. T \subseteq SUBSET D
    BY DEF T
  <2> QED
    BY <1>1, <2>1, SmallestSet
<1>3. PICK y \in D \ m : ~ Adds(m, y)
  BY <1>2
<1> DEFINE z == Pick(m \cup {y})
<1>4. z \in m \cup {y}
  BY PickOne
<1>5. IsFiniteSet(m \cup {y})
  BY FS_Subset
<1>6. SumOf(val, m \cup {y}) = val[z] + SumOf(val, (m \cup {y}) \ {z})
  BY <1>5, SumIs
<1> HIDE DEF z
<1>7. SumOf(val, m) \in Int /\ \A e \in D : val[e] \in Int
  BY SumIsInt
<1>8. CASE z = y
  <2>1. (m \cup {y}) \ {z} = m
    BY <1>8
  <2>2. SumOf(val, m \cup {y}) = val[y] + SumOf(val, m) /\ val[y] \in Int
    BY <1>6, <1>7, <1>8, <2>1
  <2>3. Adds(m, y)
    BY <1>7, <2>2
  <2> QED
    BY <1>3, <2>3
<1>9. CASE z # y
  <2> DEFINE r == m \ {z}
  <2>1. z \in m /\ r \subseteq m /\ r # m /\ r \in SUBSET D
    BY <1>4, <1>9
  <2>2. r \notin T
    BY <1>2, <2>1
  <2>3. Adds(r, y) /\ Adds(r, z)
    BY <2>1, <2>2
  <2>4. r \cup {z} = m /\ (m \cup {y}) \ {z} = r \cup {y}
    BY <1>9, <2>1
  <2>5. SumOf(val, r) \in Int
    BY <2>1, SumIsInt
  <2> HIDE DEF r
  <2>6. SumOf(val, r \cup {y}) = SumOf(val, r) + val[y] /\ SumOf(val, m) = SumOf(val, r) + val[z]
    BY <2>3, <2>4
  <2>7. SumOf(val, m \cup {y}) = val[z] + (SumOf(val, r) + val[y])
    BY <1>6, <2>4, <2>6
  <2>8. val[z] \in Int /\ val[y] \in Int
    BY <1>7, <2>1
  <2>9. Adds(m, y)
    BY <2>5, <2>6, <2>7, <2>8
  <2> QED
    BY <1>3, <2>9
<1> QED
  BY <1>8, <1>9

\* What is summed decides the sum.
LEMMA SumAlike ==
    ASSUME NEW S, NEW val, NEW val2, \A x \in S : val[x] = val2[x]
    PROVE  SumOf(val, S) = SumOf(val2, S)
<1> DEFINE F(f) == [s \in SUBSET S |-> IF s = {} THEN 0 ELSE val[Pick(s)] + f[s \ {Pick(s)}]]
           G(f) == [s \in SUBSET S |-> IF s = {} THEN 0 ELSE val2[Pick(s)] + f[s \ {Pick(s)}]]
<1>1. \A f : F(f) = G(f)
  <2>1. \A s \in SUBSET S : s # {} => Pick(s) \in S
    BY PickOne
  <2> QED
    BY <2>1
<1>2. (CHOOSE f : f = F(f)) = (CHOOSE f : f = G(f))
  <2> HIDE DEF F, G
  <2> QED
    BY <1>1
<1>3. SumOf(val, S) = (CHOOSE f : f = F(f))[S]
  BY DEF SumOf, Sums
<1>4. SumOf(val2, S) = (CHOOSE f : f = G(f))[S]
  BY DEF SumOf, Sums
<1> QED
  BY <1>2, <1>3, <1>4

\* What each transaction would contribute.
Contributions(w, setting) == [t \in Transactions |-> Contribution(w, setting, w.txn[t])]

\* A contribution is an amount, either way, or nothing.
LEMMA ContributionIsInt ==
    ASSUME NEW w, NEW setting, NEW row
    PROVE  Contribution(w, setting, row) \in Int
<1>1. Amount \in Int /\ -Amount \in Int
  BY BudgetsAssumption
<1> HIDE DEF Contribution
<1> QED
  BY <1>1 DEF Contribution

\* Spending is the sum of the contributions of the matching transactions.
LEMMA SpendingIsSum ==
    ASSUME NEW w, NEW setting, NEW p
    PROVE  Spending(w, setting, p) = SumOf(Contributions(w, setting), Matching(w, setting, p))
<1> DEFINE S == Matching(w, setting, p)
           val == Contributions(w, setting)
           A(t) == Contribution(w, setting, w.txn[t])
           pick(s) == CHOOSE x \in s : TRUE
           F(f) == [s \in SUBSET S |-> IF s = {} THEN 0 ELSE A(pick(s)) + f[s \ {pick(s)}]]
           G(f) == [s \in SUBSET S |-> IF s = {} THEN 0 ELSE val[Pick(s)] + f[s \ {Pick(s)}]]
<1>1. \A t \in S : A(t) = val[t]
  BY DEF Contributions, Matching
<1>2. \A f : F(f) = G(f)
  <2> HIDE DEF S, A, val
  <2>1. \A s : Pick(s) = pick(s)
    BY DEF Pick
  <2>2. \A s \in SUBSET S : s # {} => A(pick(s)) = val[Pick(s)]
    BY <1>1, <2>1
  <2> HIDE DEF pick
  <2> QED
    BY <2>1, <2>2
<1>3. (CHOOSE f : f = F(f)) = (CHOOSE f : f = G(f))
  <2> HIDE DEF F, G
  <2> QED
    BY <1>2
<1>4. Spending(w, setting, p) = (CHOOSE f : f = F(f))[S]
  BY DEF Spending, MapThenSumSet, MapThenFoldSet
<1>5. SumOf(val, S) = (CHOOSE f : f = G(f))[S]
  BY DEF SumOf, Sums
<1> QED
  BY <1>3, <1>4, <1>5

\* Spending is a number.
LEMMA SpendingIsInt ==
    ASSUME NEW w, NEW setting, NEW p
    PROVE  Spending(w, setting, p) \in Int
<1>1. Contributions(w, setting) \in [Transactions -> Int]
  BY ContributionIsInt DEF Contributions
<1>2. Matching(w, setting, p) \in SUBSET Transactions
  BY DEF Matching
<1> QED
  BY <1>1, <1>2, SpendingIsSum, SumIsInt, BudgetsAssumption

\* The result of a period is one.
LEMMA PeriodResultIsTyped ==
    ASSUME NEW setting \in Setting, NEW spent \in Int, NEW complete,
           NEW before \in Result \cup {NoResult}, NEW allowed \in Int
    PROVE  PeriodResult(setting, spent, complete, before, allowed) \in Result
<1>1. before.spending \in Int /\ before.remaining \in Int
  BY DEF Result, NoResult
<1>2. Carry(setting.rollover, before, allowed) \in Int
  BY <1>1 DEF Carry
<1> DEFINE effective == setting.allowance + Carry(setting.rollover, before, allowed)
<1>3. effective \in Int
  BY <1>2 DEF Setting
<1> HIDE DEF effective
<1>4. effective - spent \in Int /\ StatusOf(spent, effective) \in {"overspent", "warning", "onTrack"}
  BY <1>3 DEF StatusOf
<1> QED
  BY <1>3, <1>4 DEF PeriodResult, Result, effective

\* What is calculated of a period is a result.
LEMMA CalculatedIsTyped ==
    ASSUME NEW w, NEW conf, NEW p, conf[p] \in Setting,
           p - 1 \in DOMAIN conf => conf[p - 1] \in Setting,
           NEW before \in Result \cup {NoResult}
    PROVE  Calculated(w, conf, p, before) \in Result
<1> DEFINE allowed == IF p - 1 \in DOMAIN conf THEN conf[p - 1].allowance ELSE 0
           complete == \A t \in Matching(w, conf[p], p) : w.txn[t].valued
<1>1. allowed \in Int
  BY DEF Setting
<1>2. Spending(w, conf[p], p) \in Int
  BY SpendingIsInt
<1>3. Calculated(w, conf, p, before) = PeriodResult(conf[p], Spending(w, conf[p], p), complete, before, allowed)
  BY DEF Calculated
<1> HIDE DEF allowed, complete
<1> QED
  BY <1>1, <1>2, <1>3, PeriodResultIsTyped

-----------------------------------------------------------------------------
(* Chains of results.                                                          *)

\* What Recalculated solves for: the results from a period on.
Solves(f, w, tl, conf, from, to) ==
    f = [p \in from..to |->
            Calculated(w, conf, p, IF p > from THEN f[p - 1]
                                   ELSE IF p = First(tl) THEN NoResult ELSE tl.res[p - 1])]

\* The recursion of Recalculated has a solution, a period at a time.
LEMMA ChainExists ==
    ASSUME NEW w, NEW tl, NEW conf, NEW from \in Nat, NEW n \in Nat
    PROVE  \E f : Solves(f, w, tl, conf, from, from + n)
<1> DEFINE T == {k \in Nat : ~ \E f : Solves(f, w, tl, conf, from, from + k)}
<1>1. SUFFICES ASSUME T # {} PROVE FALSE
  OBVIOUS
<1>2. PICK m \in T : \A k \in T : m <= k
  BY <1>1, LeastElement
<1>3. CASE m = 0
  <2> DEFINE f == [p \in from..(from + 0) |->
                    Calculated(w, conf, p, IF p = First(tl) THEN NoResult ELSE tl.res[p - 1])]
  <2>1. \A p \in from..(from + 0) : ~ (p > from)
    OBVIOUS
  <2>2. Solves(f, w, tl, conf, from, from + 0)
    BY <2>1 DEF Solves
  <2> QED
    BY <1>3, <2>2
<1>4. CASE m # 0
  <2>1. m - 1 \in Nat /\ m - 1 \notin T
    BY <1>2, <1>4
  <2>2. PICK g : Solves(g, w, tl, conf, from, from + (m - 1))
    BY <2>1
  <2> DEFINE seed(p) == IF p = First(tl) THEN NoResult ELSE tl.res[p - 1]
             f == [p \in from..(from + m) |->
                    IF p < from + m THEN g[p] ELSE Calculated(w, conf, p, g[p - 1])]
  <2>3. ASSUME NEW p \in from..(from + m)
        PROVE  f[p] = Calculated(w, conf, p, IF p > from THEN f[p - 1] ELSE seed(p))
    <3>1. CASE p < from + m
      <4>1. p \in from..(from + (m - 1)) /\ (p > from => p - 1 \in from..(from + m) /\ p - 1 < from + m)
        BY <3>1
      <4>2. g[p] = Calculated(w, conf, p, IF p > from THEN g[p - 1] ELSE seed(p))
        BY <2>2, <4>1 DEF Solves
      <4>3. p > from => f[p - 1] = g[p - 1]
        BY <4>1
      <4> QED
        BY <3>1, <4>2, <4>3
    <3>2. CASE ~ (p < from + m)
      <4>1. p > from /\ p - 1 \in from..(from + m) /\ p - 1 < from + m
        BY <3>2, <1>4
      <4> QED
        BY <3>2, <4>1
    <3> QED
      BY <3>1, <3>2
  <2>4. Solves(f, w, tl, conf, from, from + m)
    <3> HIDE DEF seed
    <3>1. f = [p \in from..(from + m) |-> f[p]]
      OBVIOUS
    <3> HIDE DEF f
    <3>2. f = [p \in from..(from + m) |-> Calculated(w, conf, p, IF p > from THEN f[p - 1] ELSE seed(p))]
      BY <2>3, <3>1
    <3> QED
      BY <3>2 DEF Solves, seed
  <2> QED
    BY <2>4
<1> QED
  BY <1>3, <1>4

\* The results f from a period on, after those a timeline has before.
Spliced(f, tl, from, to) ==
    [p \in (from..to) \cup DOMAIN tl.res |-> IF p \in from..to THEN f[p] ELSE tl.res[p]]

\* What Recalculated returns.
LEMMA RecalculatedSolves ==
    ASSUME NEW w, NEW tl, NEW from \in Nat, NEW to \in Nat, from <= to
    PROVE  \E f : /\ Solves(f, w, tl, Extended(tl, to), from, to)
                  /\ Recalculated(w, tl, from, to) =
                        [conf |-> Extended(tl, to), res |-> Spliced(f, tl, from, to)]
<1> DEFINE conf == Extended(tl, to)
           f == CHOOSE f : f = [p \in from..to |->
                    Calculated(w, conf, p, IF p > from THEN f[p - 1]
                                   ELSE IF p = First(tl) THEN NoResult ELSE tl.res[p - 1])]
<1>1. to - from \in Nat /\ from + (to - from) = to
  OBVIOUS
<1>2. \E g : Solves(g, w, tl, conf, from, to)
  <2> HIDE DEF conf
  <2>1. \E g : Solves(g, w, tl, conf, from, from + (to - from))
    BY <1>1, ChainExists
  <2> QED
    BY <1>1, <2>1
<1>3. Solves(f, w, tl, conf, from, to)
  BY <1>2 DEF Solves
<1>4. Recalculated(w, tl, from, to) = [conf |-> conf, res |-> Spliced(f, tl, from, to)]
  BY DEF Recalculated, Spliced
<1> QED
  BY <1>3, <1>4

\* The configurations of an extended timeline.
LEMMA ExtendedConfigurations ==
    ASSUME NEW tl, Configured(tl), NEW to \in Periods, Latest(tl) <= to
    PROVE  /\ Extended(tl, to) \in [First(tl)..to -> Setting]
           /\ \A p \in First(tl)..Latest(tl) : Extended(tl, to)[p] = tl.conf[p]
           /\ \A p \in First(tl)..to : p > Latest(tl) => Extended(tl, to)[p] = tl.conf[Latest(tl)]
<1>1. First(tl) \in Nat /\ Latest(tl) \in Nat /\ to \in Nat /\ First(tl) <= Latest(tl)
  BY BudgetsAssumption DEF Configured, Periods
<1>2. Max({Latest(tl), to}) = to
  BY <1>1, LaterOfTwo
<1>3. tl.conf \in [First(tl)..Latest(tl) -> Setting] /\ DOMAIN tl.conf = First(tl)..Latest(tl)
  BY DEF Configured
<1>4. Extended(tl, to) = [p \in First(tl)..to |->
          IF p \in First(tl)..Latest(tl) THEN tl.conf[p] ELSE tl.conf[Latest(tl)]]
  BY <1>2, <1>3, Zenon DEF Extended
<1> HIDE DEF First, Latest
<1>5. ASSUME NEW p \in First(tl)..to
      PROVE  /\ Extended(tl, to)[p] \in Setting
             /\ p \in First(tl)..Latest(tl) => Extended(tl, to)[p] = tl.conf[p]
             /\ p > Latest(tl) => Extended(tl, to)[p] = tl.conf[Latest(tl)]
  <2>1. Latest(tl) \in First(tl)..Latest(tl)
    BY <1>1
  <2>2. p > Latest(tl) => p \notin First(tl)..Latest(tl)
    BY <1>1
  <2> QED
    BY <1>3, <1>4, <2>1, <2>2
<1>6. First(tl)..Latest(tl) \subseteq First(tl)..to
  BY <1>1
<1>7. Extended(tl, to) \in [First(tl)..to -> Setting]
  BY <1>4, <1>5
<1> QED
  BY <1>5, <1>6, <1>7

\* A timeline of known bounds.
LEMMA BoundsOfConf ==
    ASSUME NEW tl, NEW a \in Nat, NEW z \in Nat, a <= z, DOMAIN tl.conf = a..z
    PROVE  First(tl) = a /\ Latest(tl) = z
  BY IntervalBounds DEF First, Latest

\* A timeline has the results before each of its periods.
LEMMA ShapedHasBefore ==
    ASSUME NEW tl, Shaped(tl), NEW from \in First(tl)..Latest(tl)
    PROVE  HasBefore(tl, from)
<1>1. First(tl) \in Nat /\ Latest(tl) \in Nat /\ tl.res \in [First(tl)..Latest(tl) -> Result]
  BY BudgetsAssumption DEF Shaped, Configured, Periods
<1> HIDE DEF First, Latest
<1>2. First(tl)..(from - 1) \subseteq First(tl)..Latest(tl)
  BY <1>1
<1> QED
  BY <1>1, <1>2 DEF HasBefore

\* Recalculated from a period on: its results are calculated from the ones before, and the
\* results up to there stay.
LEMMA RecalculatedFollows ==
    ASSUME NEW w, NEW tl, Configured(tl),
           NEW from \in First(tl)..Latest(tl), NEW to \in Periods, Latest(tl) <= to,
           DOMAIN tl.res \subseteq First(tl)..to, HasBefore(tl, from)
    PROVE  LET new == Recalculated(w, tl, from, to)
           IN  /\ Shaped(new) /\ First(new) = First(tl) /\ Latest(new) = to
               /\ \A p \in First(tl)..Latest(tl) : new.conf[p] = tl.conf[p]
               /\ \A p \in First(tl)..to : p > Latest(tl) => new.conf[p] = tl.conf[Latest(tl)]
               /\ \A p \in First(tl)..(from - 1) : new.res[p] = tl.res[p]
               /\ \A p \in from..to : Follows(w, new, p)
<1> DEFINE a == First(tl)
           z == Latest(tl)
           conf == Extended(tl, to)
           new == Recalculated(w, tl, from, to)
<1>1. a \in Nat /\ z \in Nat /\ to \in Nat /\ from \in Nat /\ a <= from /\ from <= z /\ z <= to
  BY BudgetsAssumption DEF Configured, Periods
<1>2. PICK f : /\ Solves(f, w, tl, conf, from, to)
               /\ new = [conf |-> conf, res |-> Spliced(f, tl, from, to)]
  BY <1>1, RecalculatedSolves
<1>3. /\ conf \in [a..to -> Setting]
      /\ \A p \in a..z : conf[p] = tl.conf[p]
      /\ \A p \in a..to : p > z => conf[p] = tl.conf[z]
  BY ExtendedConfigurations
<1> HIDE DEF a, z, conf, new
<1>4. new.conf = conf /\ new.res = Spliced(f, tl, from, to)
  BY <1>2
<1>5. First(new) = a /\ Latest(new) = to
  BY <1>1, <1>3, <1>4, BoundsOfConf
<1>6. a..to = (a..(from - 1)) \cup (from..to)
  BY <1>1
<1>7. DOMAIN tl.res \subseteq a..to /\ \A p \in a..(from - 1) : p \in DOMAIN tl.res /\ tl.res[p] \in Result
  BY DEF a, HasBefore
<1>8. (from..to) \cup DOMAIN tl.res = a..to
  BY <1>6, <1>7
<1>9. new.res = [p \in a..to |-> IF p \in from..to THEN f[p] ELSE tl.res[p]]
  BY <1>4, <1>8 DEF Spliced
<1>11. ASSUME NEW p \in a..(from - 1) PROVE new.res[p] = tl.res[p]
  <2>1. p \in a..to /\ ~ (p \in from..to)
    BY <1>1
  <2> QED
    BY <1>9, <2>1
<1>12. ASSUME NEW p \in from..to
       PROVE  Follows(w, new, p)
  <2> DEFINE before == IF p > from THEN f[p - 1]
                       ELSE IF p = First(tl) THEN NoResult ELSE tl.res[p - 1]
  <2>1. p \in Nat /\ p \in a..to
    BY <1>1
  <2>2. f[p] = Calculated(w, conf, p, before)
    BY <1>2 DEF Solves
  <2>3. new.res[p] = f[p]
    BY <1>9, <2>1
  <2>4. before = Before(new, p)
    <3>1. CASE p > from
      <4>1. p - 1 \in a..to /\ p - 1 \in from..to /\ p # a
        BY <1>1, <2>1, <3>1
      <4> QED
        BY <1>5, <1>9, <3>1, <4>1 DEF Before
    <3>2. CASE ~ (p > from) /\ p = a
      BY <1>5, <3>2 DEF Before, a
    <3>3. CASE ~ (p > from) /\ p # a
      <4>1. p - 1 \in a..to /\ ~ (p - 1 \in from..to)
        BY <1>1, <2>1, <3>3
      <4> QED
        BY <1>5, <1>9, <3>3, <4>1 DEF Before, a
    <3> QED
      BY <3>1, <3>2, <3>3
  <2> QED
    BY <1>4, <2>2, <2>3, <2>4 DEF Follows
<1>13. \A p \in a..z : new.conf[p] = tl.conf[p]
  BY <1>3, <1>4
<1>14. \A p \in a..to : p > z => new.conf[p] = tl.conf[z]
  BY <1>3, <1>4
<1> DEFINE T == {p \in a..to : new.res[p] \notin Result}
<1>15. ASSUME T # {} PROVE FALSE
  <2>1. T \subseteq Nat
    BY <1>1
  <2>2. PICK p \in T : \A q \in T : p <= q
    BY <1>15, <2>1, LeastElement
  <2>3. p \in a..to /\ p \in Nat /\ new.res[p] \notin Result /\ p - 1 \notin T
    BY <1>1, <2>2
  <2>4. p \in from..to
    BY <1>6, <1>7, <1>11, <2>3
  <2>5. Before(new, p) \in Result \cup {NoResult}
    <3>1. p # a => p - 1 \in a..to
      BY <1>1, <2>3
    <3> QED
      BY <1>5, <2>3, <3>1 DEF Before
  <2>6. conf[p] \in Setting /\ (p - 1 \in DOMAIN conf => conf[p - 1] \in Setting)
    BY <1>3, <2>3
  <2>7. new.res[p] = Calculated(w, conf, p, Before(new, p))
    BY <1>4, <1>12, <2>4 DEF Follows
  <2> QED
    BY <2>3, <2>5, <2>6, <2>7, CalculatedIsTyped
<1>10. Shaped(new)
  <2>1. Configured(new)
    BY <1>1, <1>3, <1>4, <1>5, BudgetsAssumption DEF Configured, Periods, a
  <2>2. new.res \in [a..to -> Result]
    <3>1. \A p \in a..to : new.res[p] \in Result
      BY <1>15
    <3> HIDE DEF T
    <3> QED
      BY <1>9, <3>1
  <2>3. new = [conf |-> new.conf, res |-> new.res]
    BY <1>2
  <2> QED
    BY <1>5, <2>1, <2>2, <2>3 DEF Shaped
<1> QED
  BY <1>5, <1>10, <1>11, <1>12, <1>13, <1>14 DEF a, z, new

\* Recalculated from a period on: a sound beginning becomes a sound timeline up to the last
\* period asked for.
LEMMA RecalculatedIsChained ==
    ASSUME NEW w, NEW tl, Configured(tl),
           NEW from \in First(tl)..Latest(tl), NEW to \in Periods, Latest(tl) <= to,
           DOMAIN tl.res \subseteq First(tl)..to, HasBefore(tl, from)
    PROVE  LET new == Recalculated(w, tl, from, to)
           IN  /\ Shaped(new) /\ First(new) = First(tl) /\ Latest(new) = to
               /\ \A p \in First(tl)..Latest(tl) : new.conf[p] = tl.conf[p]
               /\ \A p \in First(tl)..to : p > Latest(tl) => new.conf[p] = tl.conf[Latest(tl)]
               /\ (\A p \in First(tl)..(from - 1) : Follows(w, tl, p)) => Chained(w, new)
<1> DEFINE a == First(tl)
           z == Latest(tl)
           new == Recalculated(w, tl, from, to)
<1>1. a \in Nat /\ z \in Nat /\ to \in Nat /\ from \in Nat /\ a <= from /\ from <= z /\ z <= to
  BY BudgetsAssumption DEF Configured, Periods
<1>2. /\ Shaped(new) /\ First(new) = a /\ Latest(new) = to
      /\ \A p \in a..z : new.conf[p] = tl.conf[p]
      /\ \A p \in a..to : p > z => new.conf[p] = tl.conf[z]
      /\ \A p \in a..(from - 1) : new.res[p] = tl.res[p]
      /\ \A p \in from..to : Follows(w, new, p)
  BY RecalculatedFollows
<1>3. DOMAIN tl.conf = a..z
  BY DEF Configured
<1> HIDE DEF a, z, new
<1>4. DOMAIN new.conf = a..to
  BY <1>2 DEF Shaped, Configured
<1>5. ASSUME \A p \in a..(from - 1) : Follows(w, tl, p), NEW p \in a..(from - 1)
      PROVE  Follows(w, new, p)
  <2>1. p \in a..z /\ p \in Nat
    BY <1>1
  <2>2. tl.res[p] = Calculated(w, tl.conf, p, Before(tl, p)) /\ new.res[p] = tl.res[p]
    BY <1>2, <1>5 DEF Follows
  <2>3. Before(new, p) = Before(tl, p)
    <3>1. p # a => p - 1 \in a..(from - 1)
      BY <1>1, <2>1
    <3> QED
      BY <1>2, <3>1 DEF Before, a
  <2>4. p - 1 \in DOMAIN new.conf <=> p - 1 \in DOMAIN tl.conf
    BY <1>1, <1>3, <1>4, <2>1
  <2>5. p - 1 \in DOMAIN tl.conf => new.conf[p - 1] = tl.conf[p - 1]
    BY <1>2, <1>3
  <2>6. new.conf[p] = tl.conf[p]
    BY <1>2, <2>1
  <2>7. Calculated(w, new.conf, p, Before(tl, p)) = Calculated(w, tl.conf, p, Before(tl, p))
    BY <2>4, <2>5, <2>6 DEF Calculated
  <2> QED
    BY <2>2, <2>3, <2>7 DEF Follows
<1>6. a..to = (a..(from - 1)) \cup (from..to)
  BY <1>1
<1>7. (\A p \in a..(from - 1) : Follows(w, tl, p)) => Chained(w, new)
  BY <1>2, <1>5, <1>6 DEF Chained
<1> QED
  BY <1>2, <1>7 DEF a, z, new

\* A timeline goes on from an earlier one when it only adds periods, configured as the last.
GoesOn(new, tl) ==
    /\ First(new) = First(tl) /\ Latest(tl) <= Latest(new)
    /\ \A p \in First(tl)..Latest(tl) : new.conf[p] = tl.conf[p]
    /\ \A p \in First(tl)..Latest(new) : p > Latest(tl) => new.conf[p] = tl.conf[Latest(tl)]

\* What RecalculatedIsChained says of the new timeline, by name.
IsRecalculated(w, tl, from, to, new) ==
    /\ Shaped(new) /\ First(new) = First(tl) /\ Latest(new) = to
    /\ \A p \in First(tl)..Latest(tl) : new.conf[p] = tl.conf[p]
    /\ \A p \in First(tl)..to : p > Latest(tl) => new.conf[p] = tl.conf[Latest(tl)]
    /\ (\A p \in First(tl)..(from - 1) : Follows(w, tl, p)) => Chained(w, new)

\* A recalculated timeline is as RecalculatedIsChained says.
LEMMA RecalculatedIs ==
    ASSUME NEW w, NEW tl, Configured(tl),
           NEW from \in First(tl)..Latest(tl), NEW to \in Periods, Latest(tl) <= to,
           DOMAIN tl.res \subseteq First(tl)..to, HasBefore(tl, from)
    PROVE  IsRecalculated(w, tl, from, to, Recalculated(w, tl, from, to))
BY RecalculatedIsChained, Zenon DEF IsRecalculated

\* The measurement mode stays.
LEMMA ModeGoesOn ==
    ASSUME NEW tl, NEW new, Configured(tl), GoesOn(new, tl), NEW mode, OneMode(tl, mode)
    PROVE  OneMode(new, mode)
<1>1. First(tl) \in Nat /\ Latest(tl) \in Nat /\ First(tl) <= Latest(tl)
  BY BudgetsAssumption DEF Configured, Periods
<1>2. \A p \in First(tl)..Latest(tl) : new.conf[p].mode = mode
  BY DEF GoesOn, OneMode
<1>3. \A p \in First(tl)..Latest(new) : p > Latest(tl) => new.conf[p].mode = mode
  BY <1>1, <1>2 DEF GoesOn, OneMode
<1>4. \A p \in First(tl)..Latest(new) : p > Latest(tl) \/ p \in First(tl)..Latest(tl)
  BY <1>1
<1> QED
  BY <1>2, <1>3, <1>4 DEF GoesOn, OneMode

\* rebuild_derived makes any timeline sound.
LEMMA RebuiltIsSound ==
    ASSUME NEW w, NEW tl, Shaped(tl)
    PROVE  LET new == Rebuilt(w, tl)
           IN  Shaped(new) /\ Chained(w, new) /\ GoesOn(new, tl) /\ Latest(new) = Latest(tl)
<1>1. First(tl) \in Nat /\ Latest(tl) \in Nat /\ First(tl) <= Latest(tl) /\ Latest(tl) \in Periods
  BY BudgetsAssumption DEF Shaped, Configured, Periods
<1>2. DOMAIN tl.res = First(tl)..Latest(tl) /\ Configured(tl)
  BY Zenon DEF Shaped
<1>3. First(tl) \in First(tl)..Latest(tl) /\ First(tl)..(First(tl) - 1) = {}
  BY <1>1
<1> DEFINE new == Recalculated(w, tl, First(tl), Latest(tl))
<1>4. /\ Shaped(new) /\ First(new) = First(tl) /\ Latest(new) = Latest(tl)
      /\ \A p \in First(tl)..Latest(tl) : new.conf[p] = tl.conf[p]
      /\ \A p \in First(tl)..Latest(tl) : p > Latest(tl) => new.conf[p] = tl.conf[Latest(tl)]
      /\ (\A p \in First(tl)..(First(tl) - 1) : Follows(w, tl, p)) => Chained(w, new)
  <2>1. /\ DOMAIN tl.res \subseteq First(tl)..Latest(tl) /\ Latest(tl) <= Latest(tl)
        /\ HasBefore(tl, First(tl))
    BY <1>1, <1>2, <1>3 DEF HasBefore
  <2> HIDE DEF First, Latest
  <2> QED
    BY <1>1, <1>2, <1>3, <2>1, RecalculatedIsChained
<1> HIDE DEF new
<1>5. Chained(w, new)
  BY <1>3, <1>4
<1>6. GoesOn(new, tl)
  BY <1>1, <1>4 DEF GoesOn
<1> QED
  BY <1>4, <1>5, <1>6 DEF Rebuilt, new

\* advance_timeline keeps a sound timeline sound.
LEMMA EnsuredIsSound ==
    ASSUME NEW w, NEW tl, Shaped(tl), NEW now \in Periods, ~ Ahead(tl, now)
    PROVE  LET new == Ensured(w, tl, now)
           IN  /\ Shaped(new) /\ GoesOn(new, tl) /\ Latest(new) = now
               /\ Chained(w, tl) => Chained(w, new)
<1>1. First(tl) \in Nat /\ Latest(tl) \in Nat /\ now \in Nat /\ First(tl) <= Latest(tl) /\ Latest(tl) <= now
  BY BudgetsAssumption DEF Shaped, Configured, Periods, Ahead
<1>2. DOMAIN tl.res = First(tl)..Latest(tl) /\ Configured(tl)
  BY Zenon DEF Shaped
<1>3. /\ Latest(tl) \in First(tl)..Latest(tl) /\ DOMAIN tl.res \subseteq First(tl)..now
      /\ HasBefore(tl, Latest(tl))
  BY <1>1, <1>2, ShapedHasBefore
<1> DEFINE new == Recalculated(w, tl, Latest(tl), now)
<1>4. /\ Shaped(new) /\ First(new) = First(tl) /\ Latest(new) = now
      /\ \A p \in First(tl)..Latest(tl) : new.conf[p] = tl.conf[p]
      /\ \A p \in First(tl)..now : p > Latest(tl) => new.conf[p] = tl.conf[Latest(tl)]
      /\ (\A p \in First(tl)..(Latest(tl) - 1) : Follows(w, tl, p)) => Chained(w, new)
  <2> HIDE DEF First, Latest
  <2> QED
    BY <1>1, <1>2, <1>3, RecalculatedIsChained
<1> HIDE DEF new
<1>5. Chained(w, tl) => Chained(w, new)
  <2>1. First(tl)..(Latest(tl) - 1) \subseteq First(tl)..Latest(tl)
    BY <1>1
  <2> QED
    BY <1>4, <2>1 DEF Chained
<1>6. GoesOn(new, tl)
  BY <1>1, <1>4 DEF GoesOn
<1> QED
  BY <1>4, <1>5, <1>6 DEF Ensured, new

\* load_current_or_ensure: the timeline that is brought up to now.
LEMMA CurrentIsSound ==
    ASSUME NEW w, NEW tl, Shaped(tl), NEW now \in Periods, ~ Ahead(tl, now)
    PROVE  LET new == Current(w, tl, now)
           IN  /\ Shaped(new) /\ GoesOn(new, tl) /\ Latest(new) = now
               /\ Chained(w, tl) => Chained(w, new)
<1>1. First(tl) \in Nat /\ Latest(tl) \in Nat /\ now \in Nat /\ First(tl) <= Latest(tl) /\ Latest(tl) <= now
  BY BudgetsAssumption DEF Shaped, Configured, Periods, Ahead
<1>2. CASE Stale(tl, now)
  BY <1>2, EnsuredIsSound DEF Current
<1>3. CASE ~ Stale(tl, now)
  <2>1. Latest(tl) = now
    BY <1>1, <1>3 DEF Stale
  <2>2. GoesOn(tl, tl)
    BY <1>1 DEF GoesOn
  <2> QED
    BY <1>3, <2>1, <2>2 DEF Current
<1> QED
  BY <1>2, <1>3

\* There is one sound timeline of given configurations: what is stored is what a
\* recalculation from the first period gives.
LEMMA SoundIsRebuilt ==
    ASSUME NEW w, NEW tl, Shaped(tl), Chained(w, tl)
    PROVE  tl.res = Rebuilt(w, tl).res
<1> DEFINE new == Rebuilt(w, tl)
           a == First(tl)
           z == Latest(tl)
<1>1. a \in Nat /\ z \in Nat /\ a <= z
  BY BudgetsAssumption DEF Shaped, Configured, Periods
<1>2. Shaped(new) /\ Chained(w, new) /\ GoesOn(new, tl) /\ Latest(new) = z
  BY RebuiltIsSound
<1> HIDE DEF new
<1>3. First(new) = a /\ \A p \in a..z : new.conf[p] = tl.conf[p]
  BY <1>2 DEF GoesOn
<1>4. DOMAIN new.conf = a..z /\ DOMAIN tl.conf = a..z
  BY <1>2, <1>3 DEF Shaped, Configured
<1>5. new.res \in [a..z -> Result] /\ tl.res \in [a..z -> Result]
  BY <1>2, <1>3, Zenon DEF Shaped
<1>6. \A p \in a..z : /\ new.res[p] = Calculated(w, new.conf, p, Before(new, p))
                      /\ tl.res[p] = Calculated(w, tl.conf, p, Before(tl, p))
  BY <1>2, <1>3 DEF Chained, Follows
<1> DEFINE T == {p \in a..z : tl.res[p] # new.res[p]}
<1> HIDE DEF a, z
<1>7. ASSUME T # {} PROVE FALSE
  <2>1. T \subseteq Nat
    BY <1>1
  <2>2. PICK p \in T : \A q \in T : p <= q
    BY <1>7, <2>1, LeastElement
  <2>3. p \in a..z /\ tl.res[p] # new.res[p] /\ p - 1 \notin T
    BY <1>1, <2>2
  <2>4. Before(tl, p) = Before(new, p)
    <3>1. CASE p = a
      BY <1>3, <3>1 DEF Before, a
    <3>2. CASE p # a
      <4>1. p - 1 \in a..z
        BY <1>1, <2>3, <3>2
      <4>2. tl.res[p - 1] = new.res[p - 1]
        BY <2>3, <4>1
      <4> QED
        BY <1>3, <3>2, <4>2 DEF Before, a
    <3> QED
      BY <3>1, <3>2
  <2>5. Calculated(w, new.conf, p, Before(tl, p)) = Calculated(w, tl.conf, p, Before(tl, p))
    <3>1. p - 1 \in a..z => new.conf[p - 1] = tl.conf[p - 1]
      BY <1>3
    <3> QED
      BY <1>3, <1>4, <2>3, <3>1 DEF Calculated
  <2> QED
    BY <1>6, <2>3, <2>4, <2>5
<1>8. \A p \in a..z : tl.res[p] = new.res[p]
  BY <1>7
<1>9. tl.res = new.res
  <2>1. new.res = [p \in a..z |-> new.res[p]] /\ tl.res = [p \in a..z |-> tl.res[p]]
    BY <1>5
  <2> QED
    BY <1>8, <2>1
<1> QED
  BY <1>9 DEF new

-----------------------------------------------------------------------------
(* Worlds in which a period comes to the same.                                 *)

\* The rows a period counts are the same in both worlds, and count the same.
Alike(w, v, setting, p) ==
    /\ Matching(w, setting, p) = Matching(v, setting, p)
    /\ \A t \in Matching(w, setting, p) :
        /\ Contribution(w, setting, w.txn[t]) = Contribution(v, setting, v.txn[t])
        /\ w.txn[t].valued = v.txn[t].valued

\* The sum of what is alike is the same.
LEMMA SpendingAlike ==
    ASSUME NEW w, NEW v, NEW setting, NEW p, Alike(w, v, setting, p)
    PROVE  Spending(w, setting, p) = Spending(v, setting, p)
<1> DEFINE S == Matching(w, setting, p)
           A(t) == Contribution(w, setting, w.txn[t])
           B(t) == Contribution(v, setting, v.txn[t])
           pick(s) == CHOOSE x \in s : TRUE
           F(f) == [s \in SUBSET S |-> IF s = {} THEN 0 ELSE A(pick(s)) + f[s \ {pick(s)}]]
           G(f) == [s \in SUBSET S |-> IF s = {} THEN 0 ELSE B(pick(s)) + f[s \ {pick(s)}]]
<1>1. \A t \in S : A(t) = B(t)
  BY DEF Alike
<1>2. S = Matching(v, setting, p)
  BY DEF Alike
<1>3. \A f : F(f) = G(f)
  <2> HIDE DEF S, A, B
  <2>1. \A s \in SUBSET S : s # {} => pick(s) \in S
    OBVIOUS
  <2> QED
    BY <1>1, <2>1
<1>4. (CHOOSE f : f = F(f)) = (CHOOSE f : f = G(f))
  <2> HIDE DEF F, G
  <2> QED
    BY <1>3
<1>5. Spending(w, setting, p) = (CHOOSE f : f = F(f))[S]
  BY DEF Spending, MapThenSumSet, MapThenFoldSet
<1>6. Spending(v, setting, p) = (CHOOSE f : f = G(f))[S]
  BY <1>2 DEF Spending, MapThenSumSet, MapThenFoldSet
<1> QED
  BY <1>4, <1>5, <1>6

\* A period that is alike in both worlds comes to the same in both.
LEMMA CalculatedAlike ==
    ASSUME NEW w, NEW v, NEW conf, NEW p, NEW before, Alike(w, v, conf[p], p)
    PROVE  Calculated(w, conf, p, before) = Calculated(v, conf, p, before)
<1>1. Spending(w, conf[p], p) = Spending(v, conf[p], p)
  BY SpendingAlike
<1>2. (\A t \in Matching(w, conf[p], p) : w.txn[t].valued)
        <=> (\A t \in Matching(v, conf[p], p) : v.txn[t].valued)
  BY DEF Alike
<1> QED
  BY <1>1, <1>2 DEF Calculated

\* A timeline is as sound in one world as in the other when its periods are alike.
LEMMA ChainedAlike ==
    ASSUME NEW w, NEW v, NEW tl, Chained(w, tl),
           \A p \in First(tl)..Latest(tl) : Alike(w, v, tl.conf[p], p)
    PROVE  Chained(v, tl)
  BY CalculatedAlike DEF Chained, Follows

-----------------------------------------------------------------------------
(* The tree of categories.                                                     *)

\* A category may be looked up: its row is one, and a live child's parent is a live root.
LEMMA LiveRows ==
    ASSUME TreeTyped, TwoLevelsOneRole
    PROVE  /\ \A x \in Categories : tree[x] # None => tree[x] \in CategoryRow
           /\ \A x \in Categories : tree[x] # None /\ tree[x].live /\ tree[x].parent # None =>
                LET r == tree[x].parent IN
                /\ r \in Categories /\ tree[r] # None /\ tree[r].live /\ tree[r].parent = None
                /\ tree[x].role = tree[r].role
<1>1. \A x \in Categories : tree[x] # None => tree[x] \in CategoryRow
  BY DEF TreeTyped
<1>2. ASSUME NEW x \in Categories, tree[x] # None, tree[x].live, tree[x].parent # None
      PROVE  LET r == tree[x].parent IN
             /\ r \in Categories /\ tree[r] # None /\ tree[r].live /\ tree[r].parent = None
             /\ tree[x].role = tree[r].role
  <2>1. x \in Live
    BY <1>2 DEF Live
  <2>2. tree[x].parent \in Roots /\ tree[x].role = tree[tree[x].parent].role
    BY <1>2, <2>1 DEF TwoLevelsOneRole
  <2> QED
    BY <2>2 DEF Roots, Live
<1> QED
  BY <1>1, <1>2

\* A row below p, of p's role.
IsPlaced(row, p, role, live) ==
    /\ row \in CategoryRow /\ row # None
    /\ row.parent = p /\ row.live = live
    /\ row.role = IF p = None THEN role ELSE tree[p].role
    /\ p # None => p \in Categories /\ tree[p] # None /\ tree[p].live /\ tree[p].parent = None

\* Placed is a row, with its root's role.
LEMMA PlacedRow ==
    ASSUME TreeTyped, NEW p \in Categories \cup {None}, IsParent(p), NEW role \in Roles,
           NEW live \in BOOLEAN
    PROVE  IsPlaced(Placed(p, role, live), p, role, live)
<1>1. p # None => /\ p \in Categories /\ tree[p] # None /\ tree[p].live /\ tree[p].parent = None
  BY DEF IsParent, Roots, Live
<1>2. p # None => tree[p] \in CategoryRow
  BY <1>1 DEF TreeTyped
<1>3. p # None => tree[p].role \in Roles
  BY <1>2 DEF CategoryRow
<1>4. Placed(p, role, live) \in CategoryRow
  BY <1>3 DEF Placed, CategoryRow
<1>5. Placed(p, role, live) # None
  BY <1>4, BudgetsAssumption
<1> QED
  BY <1>1, <1>4, <1>5 DEF IsPlaced, Placed

\* A category that is created becomes a root or the child of one.
LEMMA CreatedKeepsLevels ==
    ASSUME TreeTyped, TwoLevelsOneRole, NEW c \in Categories,
           NEW p \in Categories \cup {None}, NEW role \in Roles, MayCreate(c, p),
           tree' = [tree EXCEPT ![c] = Placed(p, role, TRUE)]
    PROVE  TreeTyped' /\ TwoLevelsOneRole'
<1> DEFINE row == Placed(p, role, TRUE)
<1>1. IsParent(p) /\ tree[c] = None
  BY DEF MayCreate
<1>2. IsPlaced(row, p, role, TRUE)
  BY <1>1, PlacedRow
<1> HIDE DEF row
<1>3. TreeTyped'
  BY <1>2 DEF TreeTyped, IsPlaced, row
<1>4. \A x \in Categories : tree'[x] = IF x = c THEN row ELSE tree[x]
  BY DEF TreeTyped, row
<1>5. \A x \in Categories : tree[x] # None /\ tree[x].live /\ tree[x].parent # None =>
          LET r == tree[x].parent IN
          /\ r \in Categories /\ tree[r] # None /\ tree[r].live /\ tree[r].parent = None
          /\ tree[x].role = tree[r].role
  BY LiveRows
<1>6. ASSUME NEW x \in Categories, tree'[x] # None, tree'[x].live, tree'[x].parent # None
      PROVE  LET r == tree'[x].parent IN
             /\ r \in Categories /\ tree'[r] # None /\ tree'[r].live /\ tree'[r].parent = None
             /\ tree'[x].role = tree'[r].role
  <2>1. CASE x = c
    <3>1. p # None /\ tree'[x].parent = p /\ p # c /\ tree'[p] = tree[p]
      BY <1>1, <1>2, <1>4, <1>6, <2>1 DEF IsPlaced
    <3> QED
      BY <1>2, <1>4, <2>1, <3>1 DEF IsPlaced
  <2>2. CASE x # c
    <3>1. tree'[x] = tree[x]
      BY <1>4, <2>2
    <3>2. LET r == tree[x].parent IN
          /\ r \in Categories /\ tree[r] # None /\ tree[r].live /\ tree[r].parent = None
          /\ tree[x].role = tree[r].role
      BY <1>5, <1>6, <3>1
    <3>3. tree'[tree[x].parent] = tree[tree[x].parent]
      BY <1>1, <1>4, <3>2
    <3> QED
      BY <3>1, <3>2, <3>3
  <2> QED
    BY <2>1, <2>2
<1>7. TwoLevelsOneRole'
  BY <1>6 DEF TwoLevelsOneRole, Roots, Live
<1> QED
  BY <1>3, <1>7

\* v is the tree with c below p, in p's role or its own.
IsUpdate(v, c, p, role) ==
    /\ v \in [Categories -> CategoryRow \cup {None}]
    /\ v[c] # None /\ v[c].parent = p /\ v[c].live = tree[c].live
    /\ v[c].role = IF p = None THEN role ELSE tree[p].role
    /\ p # None => /\ p \in Categories /\ p # c /\ tree[p] # None /\ tree[p].live
                   /\ tree[p].parent = None /\ Children({c}) = {}
    /\ \A x \in Categories : x # c =>
         /\ v[x] = None <=> tree[x] = None
         /\ tree[x] # None =>
             /\ v[x].parent = tree[x].parent /\ v[x].live = tree[x].live
             /\ v[x].role = IF p = None /\ x \in Children({c}) THEN role ELSE tree[x].role

\* The rows of an updated tree.
LEMMA UpdatedRows ==
    ASSUME TreeTyped, TwoLevelsOneRole, NEW c \in Categories,
           NEW p \in Categories \cup {None}, NEW role \in Roles, MayPlace(c, p)
    PROVE  IsUpdate(Updated(c, p, role), c, p, role)
<1> DEFINE v == Updated(c, p, role)
           row == Placed(p, role, tree[c].live)
<1>1. IsParent(p) /\ tree[c] # None /\ p # c /\ (p # None => Children({c}) = {})
  BY DEF MayPlace
<1>2. \A x \in Categories : tree[x] # None => tree[x] \in CategoryRow
  BY LiveRows
<1>3. tree[c].live \in BOOLEAN
  BY <1>1, <1>2 DEF CategoryRow
<1>4. IsPlaced(row, p, role, tree[c].live)
  BY <1>1, <1>3, PlacedRow
<1>5. v[c] = row
  BY DEF Updated
<1>6. ASSUME NEW x \in Categories, x # c
      PROVE  /\ v[x] \in CategoryRow \cup {None}
             /\ v[x] = None <=> tree[x] = None
             /\ tree[x] # None =>
                  /\ v[x].parent = tree[x].parent /\ v[x].live = tree[x].live
                  /\ v[x].role = IF p = None /\ x \in Children({c}) THEN role ELSE tree[x].role
  <2>1. CASE p = None /\ x \in Children({c})
    <3>1. tree[x] # None /\ tree[x] \in CategoryRow
      BY <1>2, <2>1 DEF Children, Live
    <3>2. v[x] = [tree[x] EXCEPT !.role = role]
      BY <1>6, <2>1 DEF Updated
    <3>3. /\ v[x] \in CategoryRow
          /\ v[x].parent = tree[x].parent /\ v[x].live = tree[x].live /\ v[x].role = role
      BY <3>1, <3>2 DEF CategoryRow
    <3>4. v[x] # None
      BY <3>3, BudgetsAssumption
    <3> QED
      BY <2>1, <3>1, <3>3, <3>4
  <2>2. CASE ~ (p = None /\ x \in Children({c}))
    <3>1. v[x] = tree[x]
      BY <1>6, <2>2 DEF Updated
    <3> QED
      BY <2>2, <3>1 DEF TreeTyped
  <2> QED
    BY <2>1, <2>2
<1>7. v \in [Categories -> CategoryRow \cup {None}]
  <2>1. v = [x \in Categories |-> v[x]]
    BY DEF Updated
  <2>2. \A x \in Categories : v[x] \in CategoryRow \cup {None}
    BY <1>4, <1>5, <1>6 DEF IsPlaced
  <2> HIDE DEF v
  <2> QED
    BY <2>1, <2>2
<1> HIDE DEF v, row
<1> QED
  BY <1>1, <1>4, <1>5, <1>6, <1>7 DEF IsPlaced, IsUpdate, v

\* A category that is moved or given another role takes its root's, and its children its own.
LEMMA UpdatedKeepsLevels ==
    ASSUME TreeTyped, TwoLevelsOneRole, NEW c \in Categories,
           NEW p \in Categories \cup {None}, NEW role \in Roles, MayPlace(c, p),
           tree' = Updated(c, p, role)
    PROVE  TreeTyped' /\ TwoLevelsOneRole'
<1> DEFINE v == Updated(c, p, role)
<1>1. IsUpdate(v, c, p, role) /\ tree' = v
  BY UpdatedRows
<1> HIDE DEF v
<1>2. \A x \in Categories : tree[x] # None /\ tree[x].live /\ tree[x].parent # None =>
          LET r == tree[x].parent IN
          /\ r \in Categories /\ tree[r] # None /\ tree[r].live /\ tree[r].parent = None
          /\ tree[x].role = tree[r].role
  BY LiveRows
<1>3. \A x \in Categories : x \in Children({c}) <=> tree[x] # None /\ tree[x].live /\ tree[x].parent = c
  BY DEF Children, Live
<1>4. c # None
  BY BudgetsAssumption
<1>5. ASSUME NEW x \in Categories, tree'[x] # None, tree'[x].live, tree'[x].parent # None
      PROVE  LET r == tree'[x].parent IN
             /\ r \in Categories /\ tree'[r] # None /\ tree'[r].live /\ tree'[r].parent = None
             /\ tree'[x].role = tree'[r].role
  <2>1. CASE x = c
    <3>1. p # None /\ tree'[c].parent = p /\ p \in Categories /\ p # c
      BY <1>1, <1>5, <2>1 DEF IsUpdate
    <3>2. /\ tree'[p] # None /\ tree'[p].live /\ tree'[p].parent = None
          /\ tree'[p].role = tree[p].role
      BY <1>1, <3>1 DEF IsUpdate
    <3> QED
      BY <1>1, <2>1, <3>1, <3>2 DEF IsUpdate
  <2>2. CASE x # c
    <3> DEFINE r == tree[x].parent
    <3>1. tree[x] # None /\ tree[x].live /\ r # None /\ tree'[x].parent = r
      BY <1>1, <1>5, <2>2 DEF IsUpdate
    <3>2. /\ r \in Categories /\ tree[r] # None /\ tree[r].live /\ tree[r].parent = None
          /\ tree[x].role = tree[r].role
      BY <1>2, <3>1
    <3>3. CASE r = c
      <4>1. x \in Children({c}) /\ p = None
        BY <1>1, <1>3, <3>1, <3>3 DEF IsUpdate
      <4> QED
        BY <1>1, <2>2, <3>1, <3>2, <3>3, <4>1 DEF IsUpdate
    <3>4. CASE r # c
      <4>1. x \notin Children({c}) /\ r \notin Children({c})
        BY <1>3, <1>4, <3>2, <3>4
      <4>2. /\ tree'[r] # None /\ tree'[r].live /\ tree'[r].parent = None
            /\ tree'[r].role = tree[r].role
        BY <1>1, <3>2, <3>4, <4>1 DEF IsUpdate
      <4>3. tree'[x].role = tree[x].role
        BY <1>1, <2>2, <3>1, <4>1 DEF IsUpdate
      <4> QED
        BY <3>1, <3>2, <4>2, <4>3
    <3> QED
      BY <3>3, <3>4
  <2> QED
    BY <2>1, <2>2
<1>6. TwoLevelsOneRole'
  BY <1>5 DEF TwoLevelsOneRole, Roots, Live
<1> QED
  BY <1>1, <1>6 DEF TreeTyped, IsUpdate

\* Which children a deletion makes roots.
Promoted(ids, strategy) == IF strategy = "promote" THEN Children(ids) ELSE {}

\* v is the tree after a deletion.
IsRemoval(v, ids, strategy) ==
    /\ v \in [Categories -> CategoryRow \cup {None}]
    /\ Promoted(ids, strategy) \subseteq Live /\ Doomed(ids, strategy) \subseteq Live
    /\ \A x \in Categories :
         /\ v[x] = None <=> tree[x] = None
         /\ tree[x] # None =>
             /\ v[x].role = tree[x].role
             /\ v[x].parent = IF x \in Promoted(ids, strategy) THEN None ELSE tree[x].parent
             /\ v[x].live <=> tree[x].live /\ x \notin Doomed(ids, strategy)

\* The rows of a tree after a deletion.
LEMMA RemovedRows ==
    ASSUME TreeTyped, NEW ids \in SUBSET Live, NEW strategy \in Strategies
    PROVE  IsRemoval(Removed(ids, strategy), ids, strategy)
<1> DEFINE v == Removed(ids, strategy)
           promoted == Promoted(ids, strategy)
           doomed == Doomed(ids, strategy)
<1>1. promoted \subseteq Live /\ doomed \subseteq Live
  BY DEF Children, Doomed, Promoted
<1>2. \A x \in Live : x \in Categories /\ tree[x] # None /\ tree[x].live /\ tree[x] \in CategoryRow
  BY DEF Live, TreeTyped
<1>3. v = [x \in Categories |->
            IF x \notin promoted \cup doomed THEN tree[x]
            ELSE [tree[x] EXCEPT !.parent = IF x \in promoted THEN None ELSE @,
                                 !.live = x \notin doomed]]
  BY DEF Removed, Promoted
<1> HIDE DEF v, promoted, doomed
<1>4. ASSUME NEW x \in Categories
      PROVE  /\ v[x] \in CategoryRow \cup {None}
             /\ v[x] = None <=> tree[x] = None
             /\ tree[x] # None =>
                  /\ v[x].role = tree[x].role
                  /\ v[x].parent = IF x \in promoted THEN None ELSE tree[x].parent
                  /\ v[x].live <=> tree[x].live /\ x \notin doomed
  <2>1. CASE x \in promoted \cup doomed
    <3>1. tree[x] # None /\ tree[x].live /\ tree[x] \in CategoryRow
      BY <1>1, <1>2, <2>1
    <3> DEFINE parent == IF x \in promoted THEN None ELSE tree[x].parent
               live == x \notin doomed
    <3>2. v[x] = [tree[x] EXCEPT !.parent = parent, !.live = live]
      BY <1>3, <2>1
    <3>3. parent \in Categories \cup {None}
      BY <3>1 DEF CategoryRow
    <3>4. live \in BOOLEAN
      OBVIOUS
    <3> HIDE DEF parent, live
    <3>5. /\ v[x] \in CategoryRow /\ v[x].role = tree[x].role
          /\ v[x].parent = parent /\ v[x].live = live
      BY <3>1, <3>2, <3>3, <3>4 DEF CategoryRow
    <3>6. v[x] # None
      BY <3>5, BudgetsAssumption
    <3> QED
      BY <3>1, <3>5, <3>6 DEF parent, live
  <2>2. CASE x \notin promoted \cup doomed
    <3>1. v[x] = tree[x]
      BY <1>3, <2>2
    <3> QED
      BY <2>2, <3>1 DEF TreeTyped
  <2> QED
    BY <2>1, <2>2
<1>5. v \in [Categories -> CategoryRow \cup {None}]
  BY <1>3, <1>4
<1> QED
  BY <1>1, <1>4, <1>5 DEF IsRemoval, v, promoted, doomed

\* A deletion leaves no child of what it deleted: they go with it or become roots.
LEMMA RemovedKeepsLevels ==
    ASSUME TreeTyped, TwoLevelsOneRole, NEW ids \in SUBSET Live, NEW strategy \in Strategies,
           MayDelete(ids, strategy), tree' = Removed(ids, strategy)
    PROVE  TreeTyped' /\ TwoLevelsOneRole'
<1> DEFINE promoted == Promoted(ids, strategy)
           doomed == Doomed(ids, strategy)
<1>1. /\ tree' \in [Categories -> CategoryRow \cup {None}]
      /\ \A x \in Categories :
            /\ tree'[x] = None <=> tree[x] = None
            /\ tree[x] # None =>
                /\ tree'[x].role = tree[x].role
                /\ tree'[x].parent = IF x \in promoted THEN None ELSE tree[x].parent
                /\ tree'[x].live <=> tree[x].live /\ x \notin doomed
  <2>1. IsRemoval(tree', ids, strategy)
    BY RemovedRows
  <2> QED
    BY <2>1 DEF IsRemoval
<1>2. \A x \in Categories : tree[x] # None /\ tree[x].live /\ tree[x].parent # None =>
          LET r == tree[x].parent IN
          /\ r \in Categories /\ tree[r] # None /\ tree[r].live /\ tree[r].parent = None
          /\ tree[x].role = tree[r].role
  BY LiveRows
<1>3. \A x \in Categories : x \in Children(ids) <=> tree[x] # None /\ tree[x].live /\ tree[x].parent \in ids
  BY DEF Children, Live
<1>4. ids \subseteq Categories /\ None \notin ids
  BY BudgetsAssumption DEF Live
<1>5. \A x \in Children(ids) : x \in promoted \/ x \in doomed
  BY DEF Strategies, MayDelete, Doomed, Promoted
<1>6. \A x \in doomed : x \in ids \/ x \in Children(ids)
  BY DEF Doomed
<1> HIDE DEF promoted, doomed
<1>7. ASSUME NEW x \in Categories, tree'[x] # None, tree'[x].live, tree'[x].parent # None
      PROVE  LET r == tree'[x].parent IN
             /\ r \in Categories /\ tree'[r] # None /\ tree'[r].live /\ tree'[r].parent = None
             /\ tree'[x].role = tree'[r].role
  <2> DEFINE r == tree[x].parent
  <2>1. tree[x] # None /\ tree[x].live /\ x \notin doomed /\ x \notin promoted
    BY <1>1, <1>7
  <2>2. tree'[x].parent = r /\ r # None /\ tree'[x].role = tree[x].role
    BY <1>1, <1>7, <2>1
  <2>3. /\ r \in Categories /\ tree[r] # None /\ tree[r].live /\ tree[r].parent = None
        /\ tree[x].role = tree[r].role
    BY <1>2, <2>1, <2>2
  <2>4. x \notin Children(ids)
    BY <1>5, <2>1
  <2>5. r \notin ids
    BY <1>3, <2>1, <2>4
  <2>6. r \notin Children(ids)
    BY <1>3, <1>4, <2>3
  <2>7. r \notin doomed
    BY <1>6, <2>5, <2>6
  <2>8. /\ tree'[r] # None /\ tree'[r].live /\ tree'[r].parent = None
        /\ tree'[r].role = tree[r].role
    BY <1>1, <2>3, <2>7
  <2> QED
    BY <2>2, <2>3, <2>8
<1>8. TwoLevelsOneRole'
  BY <1>7 DEF TwoLevelsOneRole, Roots, Live
<1> QED
  BY <1>1, <1>8 DEF TreeTyped

-----------------------------------------------------------------------------
(* What the writes of categories leave alone.                                  *)

\* Worlds with the same transactions: it is enough that each is as much in scope, and that
\* the role of its category, where it counts, is the same.
LEMMA AlikeWhen ==
    ASSUME NEW w, NEW v, NEW setting \in Setting, NEW p, v.txn = w.txn,
           \A t \in Transactions : w.txn[t] # None =>
                /\ w.txn[t].category \in Expanded(w.tree, setting.scope)
                        <=> w.txn[t].category \in Expanded(v.tree, setting.scope)
                /\ InScope(w, setting.scope, w.txn[t]) /\ setting.mode = "spending"
                        /\ w.txn[t].category # None
                   => w.tree[w.txn[t].category].role = v.tree[w.txn[t].category].role
    PROVE  Alike(w, v, setting, p)
<1>1. \A t \in Transactions : w.txn[t] # None =>
          (InScope(w, setting.scope, w.txn[t]) <=> InScope(v, setting.scope, v.txn[t]))
  BY DEF InScope
<1>2. Matching(w, setting, p) = Matching(v, setting, p)
  BY <1>1 DEF Matching
<1>3. setting.mode \in {"spending", "net"}
  BY DEF Setting, Modes
<1>4. ASSUME NEW t \in Matching(w, setting, p)
      PROVE  Contribution(w, setting, w.txn[t]) = Contribution(v, setting, v.txn[t])
  <2>1. t \in Transactions /\ w.txn[t] # None /\ InScope(w, setting.scope, w.txn[t])
    BY DEF Matching
  <2> QED
    BY <1>3, <2>1 DEF Contribution
<1> QED
  BY <1>2, <1>4 DEF Alike

\* What Expanded holds.
LEMMA InExpanded ==
    ASSUME NEW w, NEW scope \in SUBSET Categories, NEW x
    PROVE  x \in Expanded(w, scope) <=>
              \/ x \in scope
              \/ x \in Categories /\ w[x] # None /\ w[x].live /\ w[x].parent \in scope
<1>1. None \notin scope
  BY BudgetsAssumption
<1> QED
  BY <1>1 DEF Expanded, Parent

\* No transaction is filed under a new category.
LEMMA CreatedIsAlike ==
    ASSUME TreeTyped, TxnTyped, Filed, NEW c \in Categories, tree[c] = None, NEW row,
           NEW setting \in Setting, NEW p
    PROVE  Alike(World, [tree |-> [tree EXCEPT ![c] = row], txn |-> txn], setting, p)
<1> DEFINE v == [tree EXCEPT ![c] = row]
           world == [tree |-> v, txn |-> txn]
<1>1. \A x \in Categories : x # c => v[x] = tree[x]
  BY DEF TreeTyped
<1>2. setting.scope \in SUBSET Categories
  BY DEF Setting
<1>3. ASSUME NEW t \in Transactions, txn[t] # None
      PROVE  /\ txn[t].category \in Expanded(tree, setting.scope)
                    <=> txn[t].category \in Expanded(v, setting.scope)
             /\ txn[t].category # None => tree[txn[t].category].role = v[txn[t].category].role
  <2> HIDE DEF v
  <2> DEFINE x == txn[t].category
  <2>1. x \in Categories \cup {None} /\ x # c
    <3>1. txn[t] \in TransactionRow
      BY <1>3 DEF TxnTyped
    <3>2. x # None => tree[x] # None
      BY <1>3 DEF Filed
    <3> QED
      BY <3>1, <3>2, BudgetsAssumption DEF TransactionRow
  <2>2. x \in Categories => v[x] = tree[x]
    BY <1>1, <2>1
  <2> HIDE DEF x
  <2>3. x \in Expanded(tree, setting.scope) <=> x \in Expanded(v, setting.scope)
    BY <1>2, <2>2, InExpanded
  <2> QED
    BY <2>1, <2>2, <2>3 DEF x
<1> HIDE DEF v
<1>4. World.tree = tree /\ World.txn = txn /\ world.tree = v /\ world.txn = txn
  BY DEF World
<1> HIDE DEF world
<1>5. Alike(World, world, setting, p)
  BY <1>3, <1>4, AlikeWhen
<1> QED
  BY <1>5 DEF world, v

\* What affected_budgets_for_update looks for in a configuration.
UpdateMatters(setting, c, p, role) ==
    \/ tree[c].parent # p /\ {tree[c].parent, p} \cap setting.scope # {}
    \/ /\ tree[c].role # role /\ setting.mode = "spending"
       /\ \/ setting.scope = {}
          \/ \E x \in {c} \cup (IF tree[c].parent = None /\ p = None THEN Children({c}) ELSE {}) :
                Covers(tree, setting.scope, x)

\* A configuration an update of a category does not matter to.
LEMMA UpdatedIsAlike ==
    ASSUME TreeTyped, TwoLevelsOneRole, TxnTyped, NEW c \in Categories,
           NEW p \in Categories \cup {None}, NEW role \in Roles, MayPlace(c, p),
           NEW setting \in Setting, NEW q,
           ~ UpdateMatters(setting, c, p, Updated(c, p, role)[c].role)
    PROVE  Alike(World, [tree |-> Updated(c, p, role), txn |-> txn], setting, q)
<1> DEFINE v == Updated(c, p, role)
           world == [tree |-> v, txn |-> txn]
           scope == setting.scope
<1>1. IsUpdate(v, c, p, role) /\ tree[c] # None
  BY UpdatedRows DEF MayPlace
<1>2. ~ UpdateMatters(setting, c, p, v[c].role)
  OBVIOUS
<1> HIDE DEF v
<1>3. scope \in SUBSET Categories /\ None \notin scope
  BY BudgetsAssumption DEF Setting
<1>4. /\ \A x \in Categories : tree[x] # None => tree[x] \in CategoryRow
      /\ \A x \in Categories : tree[x] # None /\ tree[x].live /\ tree[x].parent # None =>
            LET r == tree[x].parent IN
            /\ r \in Categories /\ tree[r] # None /\ tree[r].live /\ tree[r].parent = None
            /\ tree[x].role = tree[r].role
  BY LiveRows
<1>5. ASSUME NEW x \in Categories
      PROVE  x \in Expanded(tree, scope) <=> x \in Expanded(v, scope)
  <2>1. CASE x = c
    <3>1. tree[c].parent # p => tree[c].parent \notin scope /\ p \notin scope
      BY <1>2 DEF UpdateMatters
    <3> QED
      BY <1>1, <1>3, <2>1, <3>1, InExpanded DEF IsUpdate
  <2>2. CASE x # c
    <3>1. (v[x] = None <=> tree[x] = None) /\ (tree[x] # None =>
              v[x].parent = tree[x].parent /\ v[x].live = tree[x].live)
      BY <1>1, <2>2 DEF IsUpdate
    <3> QED
      BY <1>3, <3>1, InExpanded
  <2> QED
    BY <2>1, <2>2
<1>6. ASSUME NEW x \in Categories, scope = {} \/ x \in Expanded(tree, scope),
             setting.mode = "spending", tree[x] # None
      PROVE  tree[x].role = v[x].role
  <2>1. scope # {} => Covers(tree, scope, x)
    <3>1. scope # {} => \/ x \in scope
                        \/ tree[x] # None /\ tree[x].live /\ tree[x].parent \in scope
      BY <1>3, <1>6, InExpanded
    <3> QED
      BY <3>1 DEF Covers, Parent
  <2>2. CASE x = c
    BY <1>2, <1>6, <2>1, <2>2 DEF UpdateMatters
  <2>3. CASE x # c /\ p = None /\ x \in Children({c})
    <3>1. tree[x].live /\ tree[x].parent = c /\ c # None
      BY <2>3, BudgetsAssumption DEF Children, Live
    <3>2. tree[c].parent = None /\ tree[x].role = tree[c].role
      BY <1>4, <1>6, <3>1
    <3>3. v[c].role = role /\ v[x].role = role
      BY <1>1, <1>6, <2>3 DEF IsUpdate
    <3>4. tree[c].role = v[c].role
      BY <1>2, <1>6, <2>1, <2>3, <3>2 DEF UpdateMatters
    <3> QED
      BY <3>2, <3>3, <3>4
  <2>4. CASE x # c /\ ~ (p = None /\ x \in Children({c}))
    BY <1>1, <1>6, <2>4 DEF IsUpdate
  <2> QED
    BY <2>2, <2>3, <2>4
<1>7. World.tree = tree /\ World.txn = txn /\ world.tree = v /\ world.txn = txn
  BY DEF World
<1>8. ASSUME NEW x \in Categories, tree[x] = None
      PROVE  v[x] = tree[x]
  BY <1>1, <1>8 DEF IsUpdate
<1>9. ASSUME NEW t \in Transactions, txn[t] # None
      PROVE  /\ txn[t].category \in Expanded(tree, scope)
                    <=> txn[t].category \in Expanded(v, scope)
             /\ (scope = {} \/ txn[t].category \in Expanded(tree, scope))
                  /\ setting.mode = "spending" /\ txn[t].category # None
                => tree[txn[t].category].role = v[txn[t].category].role
  <2>1. txn[t].category \in Categories \cup {None}
    BY <1>9 DEF TxnTyped, TransactionRow
  <2>2. None \notin Expanded(tree, scope) /\ None \notin Expanded(v, scope)
    BY <1>3, BudgetsAssumption DEF Expanded
  <2> QED
    BY <1>5, <1>6, <1>8, <2>1, <2>2
<1> HIDE DEF world
<1>10. Alike(World, world, setting, q)
  BY <1>7, <1>9, AlikeWhen DEF InScope
<1> QED
  BY <1>10 DEF world, v

\* What analyze_deletion looks for in a configuration.
DeletionMatters(setting, doomed) ==
    \/ \E x \in doomed : Covers(tree, setting.scope, x)
    \/ /\ setting.scope = {} /\ setting.mode = "spending"
       /\ \E x \in doomed : tree[x].role = "spending"

\* The transactions after a deletion.
Unfiled(doomed) ==
    [t \in Transactions |->
        IF txn[t] # None /\ txn[t].category \in doomed /\ ~txn[t].linked
        THEN [txn[t] EXCEPT !.category = None] ELSE txn[t]]

\* A configuration a deletion does not matter to.
LEMMA RemovedIsAlike ==
    ASSUME TreeTyped, TxnTyped, NEW ids \in SUBSET Live, NEW strategy \in Strategies,
           NEW setting \in Setting, NEW q, ~ DeletionMatters(setting, Doomed(ids, strategy))
    PROVE  Alike(World, [tree |-> Removed(ids, strategy), txn |-> Unfiled(Doomed(ids, strategy))],
                 setting, q)
<1> DEFINE v == Removed(ids, strategy)
           doomed == Doomed(ids, strategy)
           txns == Unfiled(doomed)
           world == [tree |-> v, txn |-> txns]
           scope == setting.scope
<1>1. IsRemoval(v, ids, strategy)
  BY RemovedRows
<1>2. /\ Promoted(ids, strategy) \subseteq Live /\ doomed \subseteq Live
      /\ \A x \in Categories :
           /\ v[x] = None <=> tree[x] = None
           /\ tree[x] # None =>
               /\ v[x].role = tree[x].role
               /\ v[x].parent = IF x \in Promoted(ids, strategy) THEN None ELSE tree[x].parent
               /\ v[x].live <=> tree[x].live /\ x \notin doomed
  BY <1>1 DEF IsRemoval
<1>3. \A x \in Promoted(ids, strategy) : tree[x].parent \in doomed
  BY DEF Promoted, Doomed, Children
<1>4. ~ DeletionMatters(setting, doomed)
  OBVIOUS
<1>5. \A x \in Live : x \in Categories /\ tree[x] # None /\ tree[x].live
  BY DEF Live
<1> HIDE DEF v, doomed
<1>6. scope \in SUBSET Categories /\ None \notin scope /\ None \notin doomed
  BY <1>2, <1>5, BudgetsAssumption DEF Setting
<1>7. \A x \in doomed : x \notin scope /\ tree[x].parent \notin scope
  BY <1>2, <1>4, <1>5 DEF DeletionMatters, Covers, Parent
<1>8. ASSUME NEW x \in Categories
      PROVE  x \in Expanded(tree, scope) <=> x \in Expanded(v, scope)
  <2>1. CASE tree[x] = None
    BY <1>2, <1>6, <2>1, InExpanded
  <2>2. CASE tree[x] # None /\ x \in doomed
    <3>1. x \notin scope /\ tree[x].parent \notin scope /\ ~ v[x].live
      BY <1>2, <1>7, <2>2
    <3> QED
      BY <1>6, <3>1, InExpanded
  <2>3. CASE tree[x] # None /\ x \notin doomed /\ x \in Promoted(ids, strategy)
    <3>1. tree[x].parent \notin scope /\ v[x].parent \notin scope
      <4>1. tree[x].parent \in doomed /\ v[x].parent = None
        BY <1>2, <1>3, <2>3
      <4> QED
        BY <1>6, <1>7, <4>1
    <3> QED
      BY <1>6, <3>1, InExpanded
  <2>4. CASE tree[x] # None /\ x \notin doomed /\ x \notin Promoted(ids, strategy)
    <3>1. v[x].parent = tree[x].parent /\ (v[x].live <=> tree[x].live) /\ v[x] # None
      BY <1>2, <2>4
    <3> QED
      BY <1>6, <2>4, <3>1, InExpanded
  <2> QED
    BY <2>1, <2>2, <2>3, <2>4
<1>9. doomed \cap Expanded(tree, scope) = {} /\ doomed \cap Expanded(v, scope) = {}
  <2>1. \A x \in doomed : x \in Categories /\ x \notin Expanded(tree, scope)
    BY <1>2, <1>5, <1>6, <1>7, InExpanded
  <2> QED
    BY <1>8, <2>1
<1>10. None \notin Expanded(tree, scope) /\ None \notin Expanded(v, scope)
  BY <1>6, BudgetsAssumption DEF Expanded
<1>11. World.tree = tree /\ World.txn = txn /\ world.tree = v /\ world.txn = txns
  BY DEF World
<1>12. ASSUME NEW t \in Transactions, txn[t] # None
       PROVE  /\ txns[t] # None /\ txns[t].period = txn[t].period /\ txns[t].valued = txn[t].valued
              /\ InScope(World, scope, txn[t]) <=> InScope(world, scope, txns[t])
              /\ InScope(World, scope, txn[t]) =>
                    Contribution(World, setting, txn[t]) = Contribution(world, setting, txns[t])
  <2> DEFINE x == txn[t].category
  <2>1. txn[t] \in TransactionRow
    BY <1>12 DEF TxnTyped
  <2>2. x \in Categories \cup {None}
    BY <2>1 DEF TransactionRow
  <2>3. CASE x \in doomed /\ ~ txn[t].linked
    <3>1. txns[t] = [txn[t] EXCEPT !.category = None]
      BY <1>12, <2>3 DEF Unfiled
    <3>2. /\ txns[t].category = None /\ txns[t].kind = txn[t].kind
          /\ txns[t].period = txn[t].period /\ txns[t].valued = txn[t].valued
          /\ txns[t] \in TransactionRow
      BY <2>1, <3>1 DEF TransactionRow
    <3>3. txns[t] # None
      BY <3>2, BudgetsAssumption
    <3>4. /\ InScope(World, scope, txn[t]) <=> scope = {}
          /\ InScope(world, scope, txns[t]) <=> scope = {}
      BY <1>9, <1>10, <1>11, <2>3, <3>2 DEF InScope
    <3>5. scope = {} /\ setting.mode = "spending" => tree[x].role # "spending"
      BY <1>4, <2>3 DEF DeletionMatters
    <3>6. setting.mode \in {"spending", "net"}
      BY DEF Setting, Modes
    <3>7. scope = {} => Contribution(World, setting, txn[t]) = Contribution(world, setting, txns[t])
      BY <1>11, <3>2, <3>5, <3>6 DEF Contribution
    <3> QED
      BY <3>2, <3>3, <3>4, <3>7
  <2>4. CASE ~ (x \in doomed /\ ~ txn[t].linked)
    <3>1. txns[t] = txn[t]
      BY <1>12, <2>4 DEF Unfiled
    <3>2. x \in Expanded(tree, scope) <=> x \in Expanded(v, scope)
      BY <1>8, <1>10, <2>2
    <3>3. InScope(World, scope, txn[t]) <=> InScope(world, scope, txns[t])
      BY <1>11, <3>1, <3>2 DEF InScope
    <3>4. x # None => (tree[x].role = v[x].role \/ v[x] = tree[x])
      BY <1>2, <2>2
    <3>5. x # None => tree[x].role = v[x].role
      BY <3>4
    <3>6. Contribution(World, setting, txn[t]) = Contribution(world, setting, txns[t])
      BY <1>11, <3>1, <3>5 DEF Contribution
    <3> QED
      BY <1>12, <3>1, <3>3, <3>6
  <2> QED
    BY <2>3, <2>4
<1>13. \A t \in Transactions : txn[t] = None => txns[t] = None
  BY DEF Unfiled
<1> HIDE DEF txns, world
<1>14. Matching(World, setting, q) = Matching(world, setting, q)
  BY <1>11, <1>12, <1>13 DEF Matching
<1>15. \A t \in Matching(World, setting, q) :
          t \in Transactions /\ txn[t] # None /\ InScope(World, scope, txn[t])
  BY <1>11 DEF Matching
<1>16. Alike(World, world, setting, q)
  BY <1>11, <1>12, <1>14, <1>15 DEF Alike
<1> QED
  BY <1>16 DEF world, v, doomed, txns

\* A period neither the row before nor the row after falls in.
LEMMA WrittenIsAlike ==
    ASSUME TxnTyped, NEW t \in Transactions, NEW row, NEW setting, NEW p,
           \A r \in {txn[t], row} \ {None} : ~ (r.period = p /\ InScope(World, setting.scope, r))
    PROVE  Alike(World, [World EXCEPT !.txn[t] = row], setting, p)
<1> DEFINE txns == [txn EXCEPT ![t] = row]
           world == [World EXCEPT !.txn[t] = row]
<1>1. World.tree = tree /\ World.txn = txn /\ world.tree = tree /\ world.txn = txns
  BY DEF World
<1>2. txns[t] = row /\ \A u \in Transactions : u # t => txns[u] = txn[u]
  BY DEF TxnTyped
<1> HIDE DEF txns, world
<1>3. \A r : InScope(World, setting.scope, r) <=> InScope(world, setting.scope, r)
  BY <1>1 DEF InScope
<1>4. t \notin Matching(World, setting, p) /\ t \notin Matching(world, setting, p)
  BY <1>1, <1>2, <1>3 DEF Matching
<1>5. Matching(World, setting, p) = Matching(world, setting, p)
  BY <1>1, <1>2, <1>3, <1>4 DEF Matching
<1>6. \A u \in Matching(World, setting, p) : txns[u] = txn[u]
  BY <1>2, <1>4 DEF Matching
<1>7. \A r : Contribution(World, setting, r) = Contribution(world, setting, r)
  BY <1>1 DEF Contribution
<1> QED
  BY <1>1, <1>5, <1>6, <1>7 DEF Alike, world

-----------------------------------------------------------------------------
(* What writes make of a timeline.                                             *)

\* snapshot_budget: a budget that is watched is brought up to now.
LEMMA CurrentKeeps ==
    ASSUME NEW w, NEW tl, Shaped(tl), NEW now \in Periods, ~ Ahead(tl, now)
    PROVE  /\ Shaped(Current(w, tl, now)) /\ Latest(Current(w, tl, now)) = now
           /\ ~ Ahead(Current(w, tl, now), now)
           /\ \A mode : SoundIn(w, tl, mode) => SoundIn(w, Current(w, tl, now), mode)
<1> DEFINE new == Current(w, tl, now)
<1>1. /\ Shaped(new) /\ GoesOn(new, tl) /\ Latest(new) = now
      /\ Chained(w, tl) => Chained(w, new)
  BY CurrentIsSound
<1> HIDE DEF new
<1>2. ~ Ahead(new, now)
  BY <1>1, BudgetsAssumption DEF Ahead, Periods
<1>3. ASSUME NEW mode, SoundIn(w, tl, mode) PROVE SoundIn(w, new, mode)
  BY <1>1, <1>3, ModeGoesOn DEF SoundIn, Shaped
<1> QED
  BY <1>1, <1>2, <1>3 DEF new

\* rebuild_derived keeps the configurations.
LEMMA RebuiltKeeps ==
    ASSUME NEW w, NEW tl, Shaped(tl)
    PROVE  /\ Shaped(Rebuilt(w, tl)) /\ Latest(Rebuilt(w, tl)) = Latest(tl)
           /\ \A mode : OneMode(tl, mode) => SoundIn(w, Rebuilt(w, tl), mode)
<1> DEFINE new == Rebuilt(w, tl)
<1>1. Shaped(new) /\ Chained(w, new) /\ GoesOn(new, tl) /\ Latest(new) = Latest(tl)
  BY RebuiltIsSound
<1> HIDE DEF new
<1>2. ASSUME NEW mode, OneMode(tl, mode) PROVE SoundIn(w, new, mode)
  BY <1>1, <1>2, ModeGoesOn DEF SoundIn, Shaped
<1> QED
  BY <1>1, <1>2 DEF new

\* rebuild_derived and advance_timeline, in the world after a write of categories.
LEMMA RewrittenKeeps ==
    ASSUME NEW w, NEW tl, Shaped(tl), NEW now \in Periods, ~ Ahead(tl, now)
    PROVE  /\ Shaped(Ensured(w, Rebuilt(w, tl), now))
           /\ Latest(Ensured(w, Rebuilt(w, tl), now)) = now
           /\ \A mode : OneMode(tl, mode) => SoundIn(w, Ensured(w, Rebuilt(w, tl), now), mode)
<1> DEFINE mid == Rebuilt(w, tl)
           new == Ensured(w, mid, now)
<1>1. /\ Shaped(mid) /\ Latest(mid) = Latest(tl)
      /\ \A mode : OneMode(tl, mode) => SoundIn(w, mid, mode)
  BY RebuiltKeeps
<1> HIDE DEF mid
<1>2. ~ Ahead(mid, now)
  BY <1>1 DEF Ahead
<1>3. /\ Shaped(new) /\ GoesOn(new, mid) /\ Latest(new) = now
      /\ Chained(w, mid) => Chained(w, new)
  BY <1>1, <1>2, EnsuredIsSound
<1> HIDE DEF new
<1>4. ASSUME NEW mode, OneMode(tl, mode) PROVE SoundIn(w, new, mode)
  <2>1. SoundIn(w, mid, mode)
    BY <1>1, <1>4
  <2> QED
    BY <1>1, <1>3, <2>1, ModeGoesOn DEF SoundIn, Shaped
<1> QED
  BY <1>3, <1>4 DEF new, mid

\* refresh_current_configuration.
LEMMA ReconfiguredKeeps ==
    ASSUME NEW w, NEW tl, Shaped(tl), NEW now \in Periods, Latest(tl) = now,
           NEW setting \in Setting
    PROVE  /\ Shaped(Reconfigured(w, tl, setting, now))
           /\ Latest(Reconfigured(w, tl, setting, now)) = now
           /\ SoundIn(w, tl, setting.mode) =>
                SoundIn(w, Reconfigured(w, tl, setting, now), setting.mode)
<1> DEFINE ch == [tl EXCEPT !.conf[now] = setting]
           new == Recalculated(w, ch, now, now)
           a == First(tl)
<1>1. a \in Nat /\ now \in Nat /\ a <= now /\ now \in a..now /\ a \in Periods
  BY BudgetsAssumption DEF Shaped, Configured, Periods
<1>2. /\ tl = [conf |-> tl.conf, res |-> tl.res] /\ tl.conf \in [a..now -> Setting]
      /\ DOMAIN tl.res = a..now /\ \A p \in a..now : tl.res[p] \in Result
  BY DEF Shaped, Configured
<1>3. ch.conf = [tl.conf EXCEPT ![now] = setting] /\ ch.res = tl.res
  BY <1>2
<1> HIDE DEF ch, a
<1>4. /\ ch.conf \in [a..now -> Setting]
      /\ ch.conf[now] = setting /\ \A p \in a..now : p # now => ch.conf[p] = tl.conf[p]
  BY <1>1, <1>2, <1>3
<1>5. First(ch) = a /\ Latest(ch) = now
  BY <1>1, <1>4, BoundsOfConf
<1>6. Configured(ch)
  BY <1>1, <1>4, <1>5 DEF Configured
<1>7. /\ now \in First(ch)..Latest(ch) /\ Latest(ch) <= now
      /\ DOMAIN ch.res \subseteq First(ch)..now
      /\ HasBefore(ch, now)
  BY <1>1, <1>2, <1>3, <1>5 DEF HasBefore
<1>8. /\ Shaped(new) /\ First(new) = First(ch) /\ Latest(new) = now
      /\ \A p \in First(ch)..Latest(ch) : new.conf[p] = ch.conf[p]
      /\ \A p \in First(ch)..now : p > Latest(ch) => new.conf[p] = ch.conf[Latest(ch)]
      /\ (\A p \in First(ch)..(now - 1) : Follows(w, ch, p)) => Chained(w, new)
  <2>1. IsRecalculated(w, ch, now, now, new)
    BY <1>6, <1>7, RecalculatedIs, Zenon DEF new
  <2> QED
    BY <2>1, Zenon DEF IsRecalculated
<1> HIDE DEF new
<1>9. ASSUME Chained(w, tl), NEW p \in a..(now - 1)
      PROVE  Follows(w, ch, p)
  <2>1. p \in a..now /\ p # now
    BY <1>1
  <2>2. tl.res[p] = Calculated(w, tl.conf, p, Before(tl, p))
    BY <1>9, <2>1 DEF Chained, Follows, a
  <2>3. Before(ch, p) = Before(tl, p)
    BY <1>3, <1>5 DEF Before, a
  <2>4. ch.conf[p] = tl.conf[p]
    BY <1>4, <2>1
  <2>5. DOMAIN ch.conf = a..now /\ DOMAIN tl.conf = a..now
    BY <1>2, <1>4
  <2>6. p - 1 \in a..now => ch.conf[p - 1] = tl.conf[p - 1]
    BY <1>1, <1>4, <2>1
  <2>7. Calculated(w, ch.conf, p, Before(tl, p)) = Calculated(w, tl.conf, p, Before(tl, p))
    BY <2>4, <2>5, <2>6 DEF Calculated
  <2> QED
    BY <1>3, <2>2, <2>3, <2>7 DEF Follows
<1>10. ASSUME OneMode(tl, setting.mode)
       PROVE  OneMode(new, setting.mode)
  <2>1. \A p \in a..now : tl.conf[p].mode = setting.mode
    BY <1>10 DEF OneMode, a
  <2>2. \A p \in a..now : ch.conf[p].mode = setting.mode
    BY <1>4, <2>1
  <2> QED
    BY <1>5, <1>8, <2>2 DEF OneMode
<1>11. Chained(w, tl) => Chained(w, new)
  BY <1>5, <1>8, <1>9
<1>12. Reconfigured(w, tl, setting, now) = new
  BY DEF Reconfigured, new, ch
<1> QED
  BY <1>8, <1>10, <1>11, <1>12 DEF SoundIn

\* The first period of a new budget.
LEMMA CreatedKeeps ==
    ASSUME NEW w, NEW now \in Periods, NEW setting \in Setting
    PROVE  LET new == Recalculated(w, [conf |-> [p \in {now} |-> setting], res |-> <<>>], now, now)
           IN  Shaped(new) /\ Latest(new) = now /\ SoundIn(w, new, setting.mode)
<1> DEFINE tl == [conf |-> [p \in {now} |-> setting], res |-> <<>>]
           new == Recalculated(w, tl, now, now)
<1>1. now \in Nat /\ {now} = now..now /\ now..(now - 1) = {}
  BY BudgetsAssumption DEF Periods
<1>2. tl.conf \in [now..now -> Setting] /\ tl.conf[now] = setting /\ DOMAIN tl.res = {}
  BY <1>1
<1> HIDE DEF tl
<1>3. First(tl) = now /\ Latest(tl) = now
  <2>1. DOMAIN tl.conf = now..now /\ now <= now
    BY <1>1, <1>2
  <2> QED
    BY <1>1, <2>1, BoundsOfConf
<1>4. Configured(tl)
  BY <1>1, <1>2, <1>3 DEF Configured
<1>5. /\ now \in First(tl)..Latest(tl) /\ Latest(tl) <= now
      /\ DOMAIN tl.res \subseteq First(tl)..now
      /\ HasBefore(tl, now)
  BY <1>1, <1>2, <1>3 DEF HasBefore
<1>6. /\ Shaped(new) /\ First(new) = First(tl) /\ Latest(new) = now
      /\ \A p \in First(tl)..Latest(tl) : new.conf[p] = tl.conf[p]
      /\ \A p \in First(tl)..now : p > Latest(tl) => new.conf[p] = tl.conf[Latest(tl)]
      /\ (\A p \in First(tl)..(now - 1) : Follows(w, tl, p)) => Chained(w, new)
  <2> HIDE DEF First, Latest
  <2>1. now \in First(tl)..Latest(tl) /\ Latest(tl) <= now
    BY <1>5
  <2> QED
    BY <1>4, <1>5, <2>1, RecalculatedIsChained
<1> HIDE DEF new
<1>7. Chained(w, new)
  BY <1>1, <1>3, <1>6
<1>8. OneMode(new, setting.mode)
  BY <1>1, <1>2, <1>3, <1>6 DEF OneMode
<1> QED
  BY <1>6, <1>7, <1>8 DEF SoundIn, new, tl

\* A timeline brought up to now that was up to date stays so.
UpToDate(new, tl, now) == Latest(tl) = now => Latest(new) = now

\* repair_from_frontier: no period before the first one a row falls in changes.
LEMMA RepairedKeeps ==
    ASSUME TxnTyped, NEW t \in Transactions, NEW row, NEW tl, Shaped(tl), NEW now \in Periods,
           Frontiers(World, tl, {txn[t], row} \ {None}, now) # {} => ~ Ahead(tl, now)
    PROVE  LET w == [World EXCEPT !.txn[t] = row]
               new == Repaired(w, tl, {txn[t], row} \ {None}, now)
           IN  /\ Shaped(new) /\ UpToDate(new, tl, now)
               /\ \A mode : SoundIn(World, tl, mode) => SoundIn(w, new, mode)
<1> DEFINE w == [World EXCEPT !.txn[t] = row]
           rows == {txn[t], row} \ {None}
           new == Repaired(w, tl, rows, now)
           fr == Frontiers(World, tl, rows, now)
           a == First(tl)
           z == Latest(tl)
<1>1. a \in Nat /\ z \in Nat /\ a <= z /\ now \in Nat /\ DOMAIN tl.conf = a..z
  BY BudgetsAssumption DEF Shaped, Configured, Periods
<1>2. Frontiers(w, tl, rows, now) = fr
  <2>1. w.tree = World.tree
    BY DEF World
  <2> HIDE DEF w, rows
  <2> QED
    BY <2>1 DEF Frontiers, InScope
<1>3. fr \subseteq a..z
  <2>1. Latest(tl) \in DOMAIN tl.conf
    BY <1>1
  <2> QED
    BY <1>1, <2>1 DEF Frontiers
<1>4. \A p \in a..z : p \notin fr => Alike(World, w, tl.conf[p], p)
  <2>1. \A p \in a..z : p \notin fr =>
            \A r \in rows : ~ (r.period = p /\ InScope(World, tl.conf[p].scope, r))
    BY <1>1 DEF Frontiers
  <2> QED
    BY <2>1, WrittenIsAlike
<1>5. new = IF fr = {} THEN tl ELSE Recalculated(w, tl, Min(fr), now)
  BY <1>2 DEF Repaired
<1>6. fr # {} => ~ Ahead(tl, now)
  OBVIOUS
<1> HIDE DEF w, rows, new, fr
<1>7. CASE fr = {}
  <2>1. Chained(World, tl) => Chained(w, tl)
    BY <1>4, <1>7, ChainedAlike
  <2> QED
    BY <1>5, <1>7, <2>1 DEF SoundIn, UpToDate, w, rows, new
<1>8. CASE fr # {}
  <2> DEFINE m == Min(fr)
  <2>1. m \in fr /\ \A p \in fr : m <= p
    <3>1. fr \subseteq Nat
      BY <1>1, <1>3
    <3> QED
      BY <1>8, <3>1, LeastIsMin
  <2> HIDE DEF m
  <2>2. m \in a..z /\ z <= now
    BY <1>1, <1>3, <1>6, <1>8, <2>1 DEF Ahead
  <2>3. new = Recalculated(w, tl, m, now)
    BY <1>5, <1>8 DEF m
  <2>4. DOMAIN tl.res = a..z /\ Configured(tl)
    BY Zenon DEF Shaped
  <2>5. DOMAIN tl.res \subseteq a..now /\ HasBefore(tl, m)
    BY <1>1, <2>2, <2>4, ShapedHasBefore
  <2>6. /\ Shaped(new) /\ First(new) = a /\ Latest(new) = now
        /\ \A p \in a..z : new.conf[p] = tl.conf[p]
        /\ \A p \in a..now : p > z => new.conf[p] = tl.conf[z]
        /\ (\A p \in a..(m - 1) : Follows(w, tl, p)) => Chained(w, new)
    <3> HIDE DEF First, Latest
    <3> DEFINE re == Recalculated(w, tl, m, now)
    <3>1. /\ Shaped(re) /\ First(re) = a /\ Latest(re) = now
          /\ \A p \in a..z : re.conf[p] = tl.conf[p]
          /\ \A p \in a..now : p > z => re.conf[p] = tl.conf[z]
          /\ (\A p \in a..(m - 1) : Follows(w, tl, p)) => Chained(w, re)
      BY <2>2, <2>4, <2>5, RecalculatedIsChained
    <3> HIDE DEF re
    <3>2. new = re
      BY <2>3 DEF re
    <3> QED
      BY <3>1, <3>2
  <2>7. ASSUME Chained(World, tl), NEW p \in a..(m - 1) PROVE Follows(w, tl, p)
    <3>1. p \in a..z /\ p \notin fr
      BY <1>1, <2>1, <2>2
    <3>2. Alike(World, w, tl.conf[p], p) /\ Follows(World, tl, p)
      BY <1>4, <2>7, <3>1 DEF Chained
    <3> QED
      BY <3>2, CalculatedAlike DEF Follows
  <2>8. Chained(World, tl) => Chained(w, new)
    BY <2>6, <2>7
  <2>9. GoesOn(new, tl)
    BY <2>2, <2>6 DEF GoesOn
  <2>10. ASSUME NEW mode, SoundIn(World, tl, mode) PROVE SoundIn(w, new, mode)
    BY <2>4, <2>8, <2>9, <2>10, ModeGoesOn DEF SoundIn
  <2> QED
    BY <2>6, <2>10 DEF UpToDate, w, rows, new
<1> QED
  BY <1>7, <1>8

-----------------------------------------------------------------------------
(* The steps.                                                                  *)

\* Budgets are told apart from what is not there.
LEMMA BudgetRows ==
    ASSUME RowsTyped, NEW b \in Budgeted
    PROVE  b \in BudgetIds /\ budget[b] # None /\ budget[b] \in BudgetRow /\ ~ budget[b].deleted
  BY DEF RowsTyped, Budgeted

\* No step.
LEMMA UnchangedKeeps ==
    ASSUME BudgetsInv, UNCHANGED vars
    PROVE  BudgetsInv'
<1>1. /\ tree' = tree /\ txn' = txn /\ budget' = budget /\ timeline' = timeline
      /\ remoded' = remoded
  BY DEF vars
<1>2. RowsTyped' /\ TwoLevelsOneRole' /\ Filed'
  BY <1>1, Zenon DEF BudgetsInv, RowsTyped, TreeTyped, TxnTyped, TwoLevelsOneRole, Roots, Live, Filed
<1>3. Timelines' /\ (\A b \in Budgeted \ remoded : Sound(b))'
  BY <1>1, Zenon DEF BudgetsInv, Timelines, Sound, Budgeted, World
<1> QED
  BY <1>2, <1>3 DEF BudgetsInv

\* A step that leaves the world alone, and of the budgets keeps what is sound.
LEMMA BudgetStepKeeps ==
    ASSUME BudgetsInv, UNCHANGED <<tree, txn>>, RowsTyped',
           \A b \in Budgeted' : Shaped(timeline'[b]),
           \A b \in Budgeted' \ remoded' : SoundIn(World, timeline'[b], budget'[b].mode)
    PROVE  BudgetsInv'
<1>1. TwoLevelsOneRole' /\ Filed'
  BY Zenon DEF BudgetsInv, TwoLevelsOneRole, Roots, Live, Filed
<1>2. World' = World
  BY DEF World
<1>3. Timelines' /\ (\A b \in Budgeted \ remoded : Sound(b))'
  BY <1>2, Zenon DEF Timelines, Sound
<1> QED
  BY <1>1, <1>3 DEF BudgetsInv

\* A step that leaves the budgets alone, but for their timelines.
LEMMA WorldStepKeeps ==
    ASSUME BudgetsInv, UNCHANGED <<budget, remoded>>, DOMAIN timeline' = BudgetIds,
           TreeTyped', TxnTyped', TwoLevelsOneRole', Filed',
           \A b \in Budgeted : Shaped(timeline'[b]),
           \A b \in Budgeted \ remoded : SoundIn(World', timeline'[b], budget[b].mode)
    PROVE  BudgetsInv'
<1>1. RowsTyped'
  BY DEF BudgetsInv, RowsTyped
<1>2. Budgeted' = Budgeted
  BY DEF Budgeted
<1>3. Timelines' /\ (\A b \in Budgeted \ remoded : Sound(b))'
  BY <1>2, Zenon DEF Timelines, Sound
<1> QED
  BY <1>1, <1>3 DEF BudgetsInv

\* The end of a period.
LEMMA TickKeeps ==
    ASSUME BudgetsInv, Tick
    PROVE  BudgetsInv'
<1>1. UNCHANGED <<tree, txn, budget, timeline, remoded>>
  BY DEF Tick
<1>2. RowsTyped'
  BY <1>1, Zenon DEF BudgetsInv, RowsTyped, TreeTyped, TxnTyped
<1>3. Budgeted' = Budgeted
  BY <1>1 DEF Budgeted
<1>4. \A b \in Budgeted' : Shaped(timeline'[b])
  BY <1>1, <1>3, Zenon DEF BudgetsInv, Timelines
<1>5. \A b \in Budgeted' \ remoded' : SoundIn(World, timeline'[b], budget'[b].mode)
  BY <1>1, <1>3, Zenon DEF BudgetsInv, Sound
<1> QED
  BY <1>1, <1>2, <1>4, <1>5, BudgetStepKeeps

\* A deleted budget is no concern any more.
LEMMA DeleteBudgetKeeps ==
    ASSUME BudgetsInv, NEW b \in BudgetIds, DeleteBudget(b)
    PROVE  BudgetsInv'
<1>1. /\ UNCHANGED <<tree, txn, timeline, remoded>> /\ b \in Budgeted
      /\ budget' = [budget EXCEPT ![b].deleted = TRUE]
  BY DEF DeleteBudget
<1>2. budget[b] \in BudgetRow
  BY <1>1, BudgetRows DEF BudgetsInv
<1>3. [budget[b] EXCEPT !.deleted = TRUE] \in BudgetRow /\ [budget[b] EXCEPT !.deleted = TRUE].deleted
  BY <1>2 DEF BudgetRow
<1>4. budget \in [BudgetIds -> BudgetRow \cup {None}]
  BY DEF BudgetsInv, RowsTyped
<1>5. budget' \in [BudgetIds -> BudgetRow \cup {None}]
  BY <1>1, <1>3, <1>4
<1>6. RowsTyped'
  BY <1>1, <1>5 DEF BudgetsInv, RowsTyped, TreeTyped, TxnTyped
<1>7. \A x \in BudgetIds : x # b => budget'[x] = budget[x]
  BY <1>1, <1>4
<1>8. budget'[b].deleted
  BY <1>1, <1>3, <1>4
<1>9. Budgeted' = Budgeted \ {b}
  BY <1>7, <1>8 DEF Budgeted
<1>10. \A x \in Budgeted' : Shaped(timeline'[x])
  BY <1>1, <1>9, Zenon DEF BudgetsInv, Timelines
<1>11. \A x \in Budgeted' : x \in BudgetIds /\ x # b
  BY <1>9 DEF Budgeted
<1>12. \A x \in Budgeted' \ remoded' : SoundIn(World, timeline'[x], budget'[x].mode)
  BY <1>1, <1>7, <1>9, <1>11, Zenon DEF BudgetsInv, Sound
<1> QED
  BY <1>1, <1>6, <1>10, <1>12, BudgetStepKeeps

\* A step that changes one budget that is there, its mode only if it counts as remoded.
LEMMA OneBudgetKeeps ==
    ASSUME BudgetsInv, UNCHANGED <<tree, txn>>, NEW b \in Budgeted, NEW row \in BudgetRow,
           budget' = [budget EXCEPT ![b] = row], NEW tl, timeline' = [timeline EXCEPT ![b] = tl],
           Shaped(tl), b \notin remoded' => SoundIn(World, tl, row.mode),
           remoded \subseteq remoded'
    PROVE  BudgetsInv'
<1>1. /\ budget \in [BudgetIds -> BudgetRow \cup {None}] /\ DOMAIN timeline = BudgetIds
      /\ b \in BudgetIds /\ budget[b] # None
  BY BudgetRows DEF BudgetsInv, RowsTyped
<1>2. budget' \in [BudgetIds -> BudgetRow \cup {None}] /\ DOMAIN timeline' = BudgetIds
  BY <1>1
<1>3. RowsTyped'
  BY <1>2 DEF BudgetsInv, RowsTyped, TreeTyped, TxnTyped
<1>4. /\ budget'[b] = row /\ timeline'[b] = tl
      /\ \A x \in BudgetIds : x # b => budget'[x] = budget[x] /\ timeline'[x] = timeline[x]
  BY <1>1
<1>5. Budgeted' \subseteq Budgeted /\ Budgeted \subseteq BudgetIds
  BY <1>4 DEF Budgeted
<1>6. \A x \in Budgeted' : Shaped(timeline'[x])
  BY <1>4, <1>5 DEF BudgetsInv, Timelines
<1>7. ASSUME NEW x \in Budgeted' \ remoded'
      PROVE  SoundIn(World, timeline'[x], budget'[x].mode)
  <2>1. CASE x = b
    BY <1>4, <1>7, <2>1
  <2>2. CASE x # b
    <3>1. x \in Budgeted \ remoded /\ x \in BudgetIds
      BY <1>5, <1>7
    <3> QED
      BY <1>4, <2>2, <3>1 DEF BudgetsInv, Sound
  <2> QED
    BY <2>1, <2>2
<1> QED
  BY <1>3, <1>6, <1>7, BudgetStepKeeps

\* A budget that is there, on the clock of a call.
LEMMA TimelineOf ==
    ASSUME BudgetsInv, NEW b \in Budgeted, NEW now \in Sampled
    PROVE  /\ now \in Periods /\ Shaped(timeline[b])
           /\ b \notin remoded => SoundIn(World, timeline[b], budget[b].mode)
  BY DEF BudgetsInv, Timelines, Sound, Sampled

\* load_current_or_ensure.
LEMMA ReadBudgetKeeps ==
    ASSUME BudgetsInv, NEW b \in BudgetIds, NEW now \in Sampled, ReadBudget(b, now)
    PROVE  BudgetsInv'
<1> DEFINE tl == Current(World, timeline[b], now)
<1>1. /\ UNCHANGED <<tree, txn, budget, remoded>> /\ b \in Budgeted /\ Stale(timeline[b], now)
      /\ timeline' = [timeline EXCEPT ![b] = tl]
  BY DEF ReadBudget
<1>2. /\ now \in Periods /\ Shaped(timeline[b])
      /\ b \notin remoded => SoundIn(World, timeline[b], budget[b].mode)
  BY <1>1, TimelineOf
<1>3. ~ Ahead(timeline[b], now)
  BY <1>1, <1>2, BudgetsAssumption DEF Stale, Ahead, Shaped, Configured, Periods
<1>4. Shaped(tl) /\ \A mode : SoundIn(World, timeline[b], mode) => SoundIn(World, tl, mode)
  BY <1>2, <1>3, CurrentKeeps
<1> HIDE DEF tl
<1>5. budget[b] \in BudgetRow /\ budget' = [budget EXCEPT ![b] = budget[b]]
  BY <1>1, BudgetRows DEF BudgetsInv, RowsTyped
<1>6. b \notin remoded' => SoundIn(World, tl, budget[b].mode)
  BY <1>1, <1>2, <1>4
<1> QED
  BY <1>1, <1>4, <1>5, <1>6, OneBudgetKeeps

\* set_budget_paused.
LEMMA PauseKeeps ==
    ASSUME BudgetsInv, NEW b \in BudgetIds, NEW now \in Sampled,
           PauseBudget(b, now) \/ ResumeBudget(b, now)
    PROVE  BudgetsInv'
<1> DEFINE tl == Current(World, timeline[b], now)
<1>1. /\ UNCHANGED <<tree, txn, remoded>> /\ b \in Budgeted /\ ~ Ahead(timeline[b], now)
      /\ timeline' = [timeline EXCEPT ![b] = tl]
      /\ \E paused \in BOOLEAN : budget' = [budget EXCEPT ![b].paused = paused]
  BY DEF PauseBudget, ResumeBudget
<1>2. /\ now \in Periods /\ Shaped(timeline[b])
      /\ b \notin remoded => SoundIn(World, timeline[b], budget[b].mode)
  BY <1>1, TimelineOf
<1>3. Shaped(tl) /\ \A mode : SoundIn(World, timeline[b], mode) => SoundIn(World, tl, mode)
  BY <1>1, <1>2, CurrentKeeps
<1> HIDE DEF tl
<1>4. PICK paused \in BOOLEAN : budget' = [budget EXCEPT ![b].paused = paused]
  BY <1>1
<1> DEFINE row == [budget[b] EXCEPT !.paused = paused]
<1>5. budget[b] \in BudgetRow
  BY <1>1, BudgetRows DEF BudgetsInv
<1>6. row \in BudgetRow /\ row.mode = budget[b].mode
  BY <1>5 DEF BudgetRow
<1>7. budget' = [budget EXCEPT ![b] = row]
  BY <1>4
<1> HIDE DEF row
<1>8. b \notin remoded' => SoundIn(World, tl, row.mode)
  BY <1>1, <1>2, <1>3, <1>6
<1> QED
  BY <1>1, <1>3, <1>6, <1>7, <1>8, OneBudgetKeeps

\* What is selected of a scope is canonical.
LEMMA CanonicalSetting ==
    ASSUME NEW setting \in Setting
    PROVE  LET s == [setting EXCEPT !.scope = Canonical(tree, @)]
           IN  s \in Setting /\ s.mode = setting.mode
<1>1. Canonical(tree, setting.scope) \in SUBSET Categories
  BY DEF Canonical, Setting
<1> QED
  BY <1>1 DEF Setting

\* update_budget.
LEMMA UpdateBudgetKeeps ==
    ASSUME BudgetsInv, NEW b \in BudgetIds, NEW new \in Settings, NEW now \in Sampled,
           UpdateBudget(b, new, now)
    PROVE  BudgetsInv'
<1> DEFINE setting == [new EXCEPT !.scope = Canonical(tree, @)]
           mid == Current(World, timeline[b], now)
           tl == Reconfigured(World, mid, setting, now)
           row == [budget[b] EXCEPT !.mode = new.mode]
<1>1. setting \in Setting /\ setting.mode = new.mode /\ new.mode \in Modes
  <2>1. new \in Setting
    BY BudgetsAssumption
  <2>2. new.mode \in Modes
    BY <2>1 DEF Setting
  <2> QED
    BY <2>1, <2>2, CanonicalSetting
<1>2. Watched({b}, now)[b] = mid
  BY DEF Watched
<1>3. /\ UNCHANGED <<tree, txn>> /\ b \in Budgeted /\ ~ Ahead(timeline[b], now)
      /\ budget' = [budget EXCEPT ![b].mode = new.mode]
      /\ remoded' = IF new.mode = budget[b].mode THEN remoded ELSE remoded \cup {b}
      /\ timeline' = [timeline EXCEPT ![b] = tl]
  <2> HIDE DEF setting, mid
  <2>1. /\ UNCHANGED <<tree, txn>> /\ b \in Budgeted /\ ~ Ahead(timeline[b], now)
        /\ budget' = [budget EXCEPT ![b].mode = new.mode]
        /\ remoded' = IF new.mode = budget[b].mode THEN remoded ELSE remoded \cup {b}
    BY DEF UpdateBudget
  <2>2. timeline' = [timeline EXCEPT ![b] = tl]
    BY <1>2 DEF UpdateBudget, Emit, setting
  <2> QED
    BY <2>1, <2>2
<1>4. /\ now \in Periods /\ Shaped(timeline[b])
      /\ b \notin remoded => SoundIn(World, timeline[b], budget[b].mode)
  BY <1>3, TimelineOf
<1> HIDE DEF setting
<1>5. /\ Shaped(mid) /\ Latest(mid) = now
      /\ \A mode : SoundIn(World, timeline[b], mode) => SoundIn(World, mid, mode)
  BY <1>3, <1>4, CurrentKeeps
<1> HIDE DEF mid
<1>6. Shaped(tl) /\ (SoundIn(World, mid, setting.mode) => SoundIn(World, tl, setting.mode))
  BY <1>1, <1>4, <1>5, ReconfiguredKeeps
<1> HIDE DEF tl
<1>7. budget[b] \in BudgetRow
  BY <1>3, BudgetRows DEF BudgetsInv
<1>8. row \in BudgetRow /\ row.mode = new.mode
  BY <1>1, <1>7 DEF BudgetRow
<1>9. budget' = [budget EXCEPT ![b] = row]
  BY <1>3
<1> HIDE DEF row
<1>10. b \notin remoded' => SoundIn(World, tl, row.mode)
  <2>1. b \notin remoded' => new.mode = budget[b].mode /\ b \notin remoded
    BY <1>3
  <2> QED
    BY <1>1, <1>4, <1>5, <1>6, <1>8, <2>1
<1>11. remoded \subseteq remoded'
  BY <1>3
<1> QED
  BY <1>3, <1>6, <1>8, <1>9, <1>10, <1>11, OneBudgetKeeps

\* create_budget: no budget and no timeline was there.
LEMMA CreateBudgetKeeps ==
    ASSUME BudgetsInv, NEW b \in BudgetIds, NEW s \in Settings, NEW now \in Sampled,
           CreateBudget(b, s, now)
    PROVE  BudgetsInv'
<1> DEFINE setting == [s EXCEPT !.scope = Canonical(tree, @)]
           tl == Recalculated(World, [conf |-> [p \in {now} |-> setting], res |-> <<>>], now, now)
           row == [paused |-> FALSE, deleted |-> FALSE, mode |-> s.mode]
<1>1. setting \in Setting /\ setting.mode = s.mode /\ s.mode \in Modes
  <2>1. s \in Setting
    BY BudgetsAssumption
  <2>2. s.mode \in Modes
    BY <2>1 DEF Setting
  <2> QED
    BY <2>1, <2>2, CanonicalSetting
<1>2. /\ UNCHANGED <<tree, txn, remoded>>
      /\ budget' = [budget EXCEPT ![b] = row] /\ timeline' = [timeline EXCEPT ![b] = tl]
  BY DEF CreateBudget
<1> HIDE DEF setting
<1>3. now \in Periods
  BY DEF Sampled
<1>4. Shaped(tl) /\ SoundIn(World, tl, setting.mode)
  BY <1>1, <1>3, CreatedKeeps
<1> HIDE DEF tl
<1>5. row \in BudgetRow /\ row.mode = s.mode
  BY <1>1 DEF BudgetRow
<1> HIDE DEF row
<1>6. budget \in [BudgetIds -> BudgetRow \cup {None}] /\ DOMAIN timeline = BudgetIds
  BY DEF BudgetsInv, RowsTyped
<1>7. budget' \in [BudgetIds -> BudgetRow \cup {None}] /\ DOMAIN timeline' = BudgetIds
  BY <1>2, <1>5, <1>6
<1>8. RowsTyped'
  BY <1>2, <1>7 DEF BudgetsInv, RowsTyped, TreeTyped, TxnTyped
<1>9. /\ budget'[b] = row /\ timeline'[b] = tl
      /\ \A x \in BudgetIds : x # b => budget'[x] = budget[x] /\ timeline'[x] = timeline[x]
  BY <1>2, <1>6
<1>10. \A x \in Budgeted' : x \in BudgetIds /\ (x # b => x \in Budgeted)
  BY <1>9 DEF Budgeted
<1>11. \A x \in Budgeted' : Shaped(timeline'[x])
  BY <1>4, <1>9, <1>10 DEF BudgetsInv, Timelines
<1>12. ASSUME NEW x \in Budgeted' \ remoded'
       PROVE  SoundIn(World, timeline'[x], budget'[x].mode)
  <2>1. CASE x = b
    BY <1>1, <1>4, <1>5, <1>9, <2>1
  <2>2. CASE x # b
    <3>1. x \in Budgeted \ remoded /\ x \in BudgetIds
      BY <1>2, <1>10, <2>2
    <3> QED
      BY <1>9, <2>2, <3>1 DEF BudgetsInv, Sound
  <2> QED
    BY <2>1, <2>2
<1> QED
  BY <1>2, <1>8, <1>11, <1>12, BudgetStepKeeps

\* What a write watches of a budget.
LEMMA WatchedKeeps ==
    ASSUME BudgetsInv, NEW bs, NEW b \in Budgeted, NEW now \in Sampled,
           b \in bs => ~ Ahead(timeline[b], now)
    PROVE  LET mid == Watched(bs, now)[b]
           IN  /\ Shaped(mid) /\ (~ Ahead(timeline[b], now) => ~ Ahead(mid, now))
               /\ b \notin remoded => SoundIn(World, mid, budget[b].mode)
<1> DEFINE mid == Watched(bs, now)[b]
           cur == Current(World, timeline[b], now)
<1>1. /\ now \in Periods /\ Shaped(timeline[b])
      /\ b \notin remoded => SoundIn(World, timeline[b], budget[b].mode)
  BY TimelineOf
<1>2. mid = IF b \in bs THEN cur ELSE timeline[b]
  BY DEF Watched, Budgeted
<1> HIDE DEF mid
<1>3. CASE b \in bs
  <2>1. /\ Shaped(cur) /\ ~ Ahead(cur, now)
        /\ \A mode : SoundIn(World, timeline[b], mode) => SoundIn(World, cur, mode)
    BY <1>1, <1>3, CurrentKeeps
  <2> HIDE DEF cur
  <2>2. mid = cur
    BY <1>2, <1>3
  <2> QED
    BY <1>1, <2>1, <2>2 DEF mid
<1>4. CASE b \notin bs
  <2>1. mid = timeline[b]
    BY <1>2, <1>4
  <2> QED
    BY <1>1, <2>1 DEF mid
<1> QED
  BY <1>3, <1>4

\* reconcile_change.
LEMMA WriteTransactionKeeps ==
    ASSUME BudgetsInv, NEW t \in Transactions, NEW row \in TransactionRow \cup {None},
           row # None => row.category \in Live \cup {None},
           NEW now \in Sampled, WriteTransaction(t, row, now)
    PROVE  BudgetsInv'
<1> DEFINE w == [World EXCEPT !.txn[t] = row]
           rows == {txn[t], row} \ {None}
           mid == Watched(Active, now)
<1>1. /\ UNCHANGED <<tree, budget, remoded>> /\ txn' = [txn EXCEPT ![t] = row]
      /\ \A b \in Active : ~ Ahead(timeline[b], now)
      /\ \A b \in Budgeted : Frontiers(World, mid[b], rows, now) # {} => ~ Ahead(mid[b], now)
      /\ timeline' = [b \in BudgetIds |->
                        IF b \in Budgeted THEN Repaired(w, mid[b], rows, now) ELSE timeline[b]]
  BY DEF WriteTransaction, Emit
<1>2. w = World'
  BY <1>1 DEF World
<1>3. TreeTyped /\ TxnTyped /\ TwoLevelsOneRole /\ Filed
  BY DEF BudgetsInv, RowsTyped
<1>4. TreeTyped' /\ TxnTyped' /\ TwoLevelsOneRole'
  <2>1. TxnTyped'
    BY <1>1, <1>3 DEF TxnTyped
  <2>2. TreeTyped' /\ TwoLevelsOneRole'
    BY <1>1, <1>3, Zenon DEF TreeTyped, TwoLevelsOneRole, Roots, Live
  <2> QED
    BY <2>1, <2>2
<1>5. Filed'
  <2> SUFFICES ASSUME NEW u \in Transactions, txn'[u] # None, txn'[u].category # None
               PROVE  tree'[txn'[u].category] # None
    BY DEF Filed
  <2>1. CASE u = t
    <3>1. txn'[u] = row
      BY <1>1, <1>3, <2>1 DEF TxnTyped
    <3> QED
      BY <1>1, <3>1 DEF Live
  <2>2. CASE u # t
    <3>1. txn'[u] = txn[u]
      BY <1>1, <1>3, <2>2 DEF TxnTyped
    <3> QED
      BY <1>1, <1>3, <3>1 DEF Filed
  <2> QED
    BY <2>1, <2>2
<1>6. DOMAIN timeline' = BudgetIds
  BY <1>1
<1>7. ASSUME NEW b \in Budgeted
      PROVE  /\ Shaped(timeline'[b])
             /\ b \notin remoded => SoundIn(World', timeline'[b], budget[b].mode)
  <2> DEFINE tl == mid[b]
             new == Repaired(w, tl, rows, now)
  <2>1. timeline'[b] = new
    BY <1>1 DEF Budgeted
  <2>2. Shaped(tl) /\ (b \notin remoded => SoundIn(World, tl, budget[b].mode))
    BY <1>1, WatchedKeeps
  <2>3. Frontiers(World, tl, rows, now) # {} => ~ Ahead(tl, now)
    BY <1>1
  <2>4. now \in Periods
    BY DEF Sampled
  <2> HIDE DEF mid, tl
  <2>5. Shaped(new) /\ \A mode : SoundIn(World, tl, mode) => SoundIn(w, new, mode)
    BY <1>3, <2>2, <2>3, <2>4, RepairedKeeps
  <2> HIDE DEF new, w
  <2> QED
    BY <1>2, <2>1, <2>2, <2>5
<1> QED
  BY <1>1, <1>4, <1>5, <1>6, <1>7, WorldStepKeeps

\* A budget none of whose periods a write of categories changes.
LEMMA AlikeKeeps ==
    ASSUME BudgetsInv, NEW b \in Budgeted, NEW w,
           \A s \in Setting : \A q \in DOMAIN timeline[b].conf :
              (s = timeline[b].conf[q] /\ (b \notin remoded => s.mode = budget[b].mode)
                 /\ b \notin remoded) => Alike(World, w, s, q)
    PROVE  /\ Shaped(timeline[b])
           /\ b \notin remoded => SoundIn(w, timeline[b], budget[b].mode)
<1>1. /\ Shaped(timeline[b])
      /\ b \notin remoded => SoundIn(World, timeline[b], budget[b].mode)
  BY DEF BudgetsInv, Timelines, Sound
<1>2. ASSUME b \notin remoded
      PROVE  SoundIn(w, timeline[b], budget[b].mode)
  <2> DEFINE tl == timeline[b]
  <2>1. tl.conf \in [First(tl)..Latest(tl) -> Setting] /\ OneMode(tl, budget[b].mode) /\ Chained(World, tl)
    BY <1>1, <1>2 DEF SoundIn, Shaped, Configured
  <2> HIDE DEF First, Latest
  <2>2. ASSUME NEW q \in First(tl)..Latest(tl)
        PROVE  Alike(World, w, tl.conf[q], q)
    <3>1. tl.conf[q] \in Setting /\ q \in DOMAIN timeline[b].conf /\ tl.conf[q].mode = budget[b].mode
      BY <2>1 DEF OneMode
    <3> QED
      BY <1>2, <3>1
  <2>3. Chained(w, tl)
    BY <2>1, <2>2, ChainedAlike
  <2> QED
    BY <2>1, <2>3 DEF SoundIn
<1> QED
  BY <1>1, <1>2

\* validate_new_category: nothing to recalculate.
LEMMA CreateCategoryKeeps ==
    ASSUME BudgetsInv, NEW c \in Categories, NEW p \in Categories \cup {None},
           NEW role \in Roles, CreateCategory(c, p, role)
    PROVE  BudgetsInv'
<1> DEFINE row == Placed(p, role, TRUE)
           w == [tree |-> [tree EXCEPT ![c] = row], txn |-> txn]
<1>1. /\ MayCreate(c, p) /\ tree' = [tree EXCEPT ![c] = row]
      /\ UNCHANGED <<txn, budget, timeline, remoded>>
  BY DEF CreateCategory
<1>2. TreeTyped /\ TxnTyped /\ TwoLevelsOneRole /\ Filed /\ DOMAIN timeline = BudgetIds
  BY DEF BudgetsInv, RowsTyped
<1>3. TreeTyped' /\ TwoLevelsOneRole'
  BY <1>1, <1>2, CreatedKeepsLevels
<1>4. tree[c] = None
  BY <1>1 DEF MayCreate
<1>5. TxnTyped'
  BY <1>1, <1>2 DEF TxnTyped
<1>6. Filed'
  <2>1. \A x \in Categories : tree[x] # None => tree'[x] = tree[x]
    BY <1>1, <1>2, <1>4 DEF TreeTyped
  <2>2. \A t \in Transactions : txn[t] # None => txn[t].category \in Categories \cup {None}
    BY <1>2 DEF TxnTyped, TransactionRow
  <2> QED
    BY <1>1, <1>2, <2>1, <2>2 DEF Filed
<1>7. World' = w
  BY <1>1 DEF World
<1>8. ASSUME NEW b \in Budgeted
      PROVE  /\ Shaped(timeline'[b])
             /\ b \notin remoded => SoundIn(World', timeline'[b], budget[b].mode)
  <2>1. \A s \in Setting : \A q : Alike(World, w, s, q)
    <3> HIDE DEF row
    <3> QED
      BY <1>2, <1>4, CreatedIsAlike
  <2> HIDE DEF w
  <2>2. /\ Shaped(timeline[b])
        /\ b \notin remoded => SoundIn(w, timeline[b], budget[b].mode)
    BY <2>1, AlikeKeeps
  <2> QED
    BY <1>1, <1>7, <2>2
<1> QED
  BY <1>1, <1>2, <1>3, <1>5, <1>6, <1>8, WorldStepKeeps

\* A budget a write of categories recalculates.
LEMMA AffectedKeeps ==
    ASSUME BudgetsInv, NEW bs \in SUBSET Budgeted, NEW now \in Sampled, NEW w,
           \A b \in bs : ~ Ahead(timeline[b], now), NEW b \in bs
    PROVE  LET new == Ensured(w, Rebuilt(w, Watched(bs \cap Active, now)[b]), now)
           IN  Shaped(new) /\ (b \notin remoded => SoundIn(w, new, budget[b].mode))
<1> DEFINE mid == Watched(bs \cap Active, now)[b]
           new == Ensured(w, Rebuilt(w, mid), now)
<1>1. /\ Shaped(mid) /\ ~ Ahead(mid, now)
      /\ b \notin remoded => SoundIn(World, mid, budget[b].mode)
  BY WatchedKeeps
<1>2. now \in Periods
  BY DEF Sampled
<1> HIDE DEF mid
<1>3. Shaped(new) /\ \A mode : OneMode(mid, mode) => SoundIn(w, new, mode)
  BY <1>1, <1>2, RewrittenKeeps
<1> HIDE DEF new
<1>4. b \notin remoded => SoundIn(w, new, budget[b].mode)
  BY <1>1, <1>3 DEF SoundIn
<1> QED
  BY <1>3, <1>4 DEF new, mid

\* A write of categories: the budgets bs are recalculated, and no other is affected.
LEMMA CategoriesStepKeeps ==
    ASSUME BudgetsInv, UNCHANGED <<budget, remoded>>, NEW bs \in SUBSET Budgeted,
           NEW now \in Sampled, NEW w, w = World', Rewritten(w, bs, now),
           TreeTyped', TxnTyped', TwoLevelsOneRole', Filed',
           \A b \in Budgeted \ bs : b \notin remoded =>
              \A q \in DOMAIN timeline[b].conf :
                 (timeline[b].conf[q] \in Setting /\ timeline[b].conf[q].mode = budget[b].mode)
                    => Alike(World, w, timeline[b].conf[q], q)
    PROVE  BudgetsInv'
<1> DEFINE mid == Watched(bs \cap Active, now)
<1>1. /\ \A b \in bs : ~ Ahead(timeline[b], now)
      /\ timeline' = [b \in BudgetIds |->
                        IF b \in bs THEN Ensured(w, Rebuilt(w, mid[b]), now) ELSE timeline[b]]
  BY DEF Rewritten, Emit
<1>2. DOMAIN timeline' = BudgetIds
  BY <1>1
<1>3. ASSUME NEW b \in Budgeted
      PROVE  /\ Shaped(timeline'[b])
             /\ b \notin remoded => SoundIn(w, timeline'[b], budget[b].mode)
  <2>1. CASE b \in bs
    <3> DEFINE new == Ensured(w, Rebuilt(w, mid[b]), now)
    <3>1. timeline'[b] = new
      BY <1>1, <2>1 DEF Budgeted
    <3>2. Shaped(new) /\ (b \notin remoded => SoundIn(w, new, budget[b].mode))
      BY <1>1, <2>1, AffectedKeeps
    <3> HIDE DEF new
    <3> QED
      BY <3>1, <3>2
  <2>2. CASE b \notin bs
    <3>1. timeline'[b] = timeline[b]
      BY <1>1, <2>2 DEF Budgeted
    <3>2. /\ Shaped(timeline[b])
          /\ b \notin remoded => SoundIn(w, timeline[b], budget[b].mode)
      BY <2>2, AlikeKeeps
    <3> QED
      BY <3>1, <3>2
  <2> QED
    BY <2>1, <2>2
<1> QED
  BY <1>2, <1>3, WorldStepKeeps

\* affected_budgets_for_update: a budget it passes by comes to the same.
LEMMA UpdatePassesBy ==
    ASSUME BudgetsInv, NEW c \in Categories, NEW p \in Categories \cup {None},
           NEW role \in Roles, MayPlace(c, p),
           NEW b \in Budgeted \ AffectedByUpdate(c, p, Updated(c, p, role)[c].role),
           NEW q \in DOMAIN timeline[b].conf, timeline[b].conf[q] \in Setting,
           timeline[b].conf[q].mode = budget[b].mode
    PROVE  Alike(World, [tree |-> Updated(c, p, role), txn |-> txn], timeline[b].conf[q], q)
<1> DEFINE v == Updated(c, p, role)
           w == [tree |-> v, txn |-> txn]
           s == timeline[b].conf[q]
           after == v[c].role
<1>1. ~ UpdateMatters(s, c, p, after)
  <2> HIDE DEF v, after
  <2>1. b \notin AffectedByUpdate(c, p, after)
    BY DEF after, v
  <2> QED
    BY <2>1 DEF AffectedByUpdate, UpdateMatters
<1> HIDE DEF s
<1>2. s \in Setting
  BY DEF s
<1>3. TreeTyped /\ TxnTyped /\ TwoLevelsOneRole /\ Filed
  BY DEF BudgetsInv, RowsTyped
<1>4. Alike(World, w, s, q)
  BY <1>1, <1>2, <1>3, UpdatedIsAlike
<1> QED
  BY <1>4 DEF s

\* analyze_deletion: a budget it passes by comes to the same.
LEMMA DeletionPassesBy ==
    ASSUME BudgetsInv, NEW ids \in SUBSET Live, NEW strategy \in Strategies,
           NEW b \in Budgeted \ AffectedByDeletion(Doomed(ids, strategy)),
           NEW q \in DOMAIN timeline[b].conf, timeline[b].conf[q] \in Setting,
           timeline[b].conf[q].mode = budget[b].mode
    PROVE  Alike(World, [tree |-> Removed(ids, strategy), txn |-> Unfiled(Doomed(ids, strategy))],
                 timeline[b].conf[q], q)
<1> DEFINE doomed == Doomed(ids, strategy)
           w == [tree |-> Removed(ids, strategy), txn |-> Unfiled(doomed)]
           s == timeline[b].conf[q]
<1>1. ~ DeletionMatters(s, doomed)
  <2> HIDE DEF doomed
  <2>1. b \notin AffectedByDeletion(doomed)
    BY DEF doomed
  <2> QED
    BY <2>1 DEF AffectedByDeletion, DeletionMatters
<1> HIDE DEF s
<1>2. s \in Setting
  BY DEF s
<1>3. TreeTyped /\ TxnTyped /\ TwoLevelsOneRole /\ Filed
  BY DEF BudgetsInv, RowsTyped
<1>4. Alike(World, w, s, q)
  BY <1>1, <1>2, <1>3, RemovedIsAlike
<1> QED
  BY <1>4 DEF s

\* update_category.
LEMMA UpdateCategoryKeeps ==
    ASSUME BudgetsInv, NEW c \in Categories, NEW p \in Categories \cup {None},
           NEW role \in Roles, NEW now \in Sampled, UpdateCategory(c, p, role, now)
    PROVE  BudgetsInv'
<1> DEFINE v == Updated(c, p, role)
           w == [tree |-> v, txn |-> txn]
           bs == AffectedByUpdate(c, p, v[c].role)
<1>1. /\ MayPlace(c, p) /\ tree' = v /\ Rewritten(w, bs, now)
      /\ UNCHANGED <<txn, budget, remoded>>
  BY DEF UpdateCategory
<1>2. TreeTyped /\ TxnTyped /\ TwoLevelsOneRole /\ Filed
  BY DEF BudgetsInv, RowsTyped
<1>3. TreeTyped' /\ TwoLevelsOneRole'
  BY <1>1, <1>2, UpdatedKeepsLevels
<1>4. TxnTyped'
  BY <1>1, <1>2 DEF TxnTyped
<1>5. Filed'
  <2>1. \A x \in Categories : tree[x] # None => v[x] # None
    <3>1. IsUpdate(v, c, p, role)
      BY <1>1, <1>2, UpdatedRows
    <3> HIDE DEF v
    <3> QED
      BY <3>1 DEF IsUpdate
  <2>2. \A t \in Transactions : txn[t] # None => txn[t].category \in Categories \cup {None}
    BY <1>2 DEF TxnTyped, TransactionRow
  <2> HIDE DEF v
  <2> QED
    BY <1>1, <1>2, <2>1, <2>2 DEF Filed
<1>6. w = World'
  BY <1>1 DEF World
<1>7. bs \in SUBSET Budgeted
  BY DEF AffectedByUpdate
<1>8. ASSUME NEW b \in Budgeted \ bs, NEW q \in DOMAIN timeline[b].conf,
             timeline[b].conf[q] \in Setting, timeline[b].conf[q].mode = budget[b].mode
      PROVE  Alike(World, w, timeline[b].conf[q], q)
  BY <1>1, <1>8, UpdatePassesBy
<1> HIDE DEF w, bs, v
<1> QED
  BY <1>1, <1>3, <1>4, <1>5, <1>6, <1>7, <1>8, CategoriesStepKeeps

\* delete_categories.
LEMMA DeleteCategoriesKeeps ==
    ASSUME BudgetsInv, NEW ids \in SUBSET Live, NEW strategy \in Strategies,
           NEW now \in Sampled, DeleteCategories(ids, strategy, now)
    PROVE  BudgetsInv'
<1> DEFINE doomed == Doomed(ids, strategy)
           v == Removed(ids, strategy)
           txns == Unfiled(doomed)
           w == [tree |-> v, txn |-> txns]
           bs == AffectedByDeletion(doomed)
<1>1. /\ MayDelete(ids, strategy) /\ tree' = v /\ txn' = txns
      /\ UNCHANGED <<budget, remoded>>
  BY DEF DeleteCategories, Unfiled
<1>2. Rewritten(w, bs, now)
  BY DEF DeleteCategories, Unfiled
<1>3. TreeTyped /\ TxnTyped /\ TwoLevelsOneRole /\ Filed
  BY DEF BudgetsInv, RowsTyped
<1>4. TreeTyped' /\ TwoLevelsOneRole'
  BY <1>1, <1>3, RemovedKeepsLevels
<1>5. ASSUME NEW t \in Transactions
      PROVE  /\ txns[t] \in TransactionRow \cup {None}
             /\ txns[t] # None => txn[t] # None /\ txns[t].category \in {None, txn[t].category}
  <2>1. CASE txn[t] # None /\ txn[t].category \in doomed /\ ~ txn[t].linked
    <3>1. txns[t] = [txn[t] EXCEPT !.category = None] /\ txn[t] \in TransactionRow
      BY <1>3, <2>1 DEF TxnTyped, Unfiled
    <3> QED
      BY <2>1, <3>1 DEF TransactionRow
  <2>2. CASE ~ (txn[t] # None /\ txn[t].category \in doomed /\ ~ txn[t].linked)
    <3>1. txns[t] = txn[t]
      BY <2>2 DEF Unfiled
    <3> QED
      BY <1>3, <3>1 DEF TxnTyped
  <2> QED
    BY <2>1, <2>2
<1>6. TxnTyped'
  <2>1. txns = [t \in Transactions |-> txns[t]]
    BY DEF Unfiled
  <2> HIDE DEF txns
  <2> QED
    BY <1>1, <1>5, <2>1 DEF TxnTyped
<1>7. Filed'
  <2>1. \A x \in Categories : tree[x] # None => v[x] # None
    <3>1. IsRemoval(v, ids, strategy)
      BY <1>3, RemovedRows
    <3> HIDE DEF v
    <3> QED
      BY <3>1 DEF IsRemoval
  <2>2. \A t \in Transactions : txn[t] # None => txn[t].category \in Categories \cup {None}
    BY <1>3 DEF TxnTyped, TransactionRow
  <2> HIDE DEF v, txns
  <2> QED
    BY <1>1, <1>3, <1>5, <2>1, <2>2 DEF Filed
<1>8. w = World'
  BY <1>1 DEF World
<1>9. bs \in SUBSET Budgeted
  BY DEF AffectedByDeletion
<1>10. ASSUME NEW b \in Budgeted \ bs, NEW q \in DOMAIN timeline[b].conf,
              timeline[b].conf[q] \in Setting, timeline[b].conf[q].mode = budget[b].mode
       PROVE  Alike(World, w, timeline[b].conf[q], q)
  BY <1>10, DeletionPassesBy
<1> HIDE DEF w, bs, v, txns
<1> QED
  BY <1>1, <1>2, <1>4, <1>6, <1>7, <1>8, <1>9, <1>10, CategoriesStepKeeps

\* activate_default_generation.
LEMMA ActivateDefaultKeeps ==
    ASSUME BudgetsInv, NEW valued \in SUBSET Transactions, NEW now \in Sampled,
           ActivateDefault(valued, now)
    PROVE  BudgetsInv'
<1> DEFINE txns == [t \in Transactions |->
                       IF txn[t] = None THEN None ELSE [txn[t] EXCEPT !.valued = t \in valued]]
           w == [tree |-> tree, txn |-> txns]
<1>1. /\ \A b \in Active : ~ Ahead(timeline[b], now)
      /\ txn' = txns /\ UNCHANGED <<tree, budget, remoded>>
      /\ timeline' = [b \in BudgetIds |->
                        IF b \notin Budgeted THEN timeline[b]
                        ELSE IF b \in Active THEN Current(w, Rebuilt(w, timeline[b]), now)
                        ELSE Rebuilt(w, timeline[b])]
  BY DEF ActivateDefault
<1>2. TreeTyped /\ TxnTyped /\ TwoLevelsOneRole /\ Filed
  BY DEF BudgetsInv, RowsTyped
<1>3. TreeTyped' /\ TwoLevelsOneRole'
  BY <1>1, <1>2, Zenon DEF TreeTyped, TwoLevelsOneRole, Roots, Live
<1>4. ASSUME NEW t \in Transactions
      PROVE  /\ txns[t] \in TransactionRow \cup {None}
             /\ txns[t] # None => txn[t] # None /\ txns[t].category = txn[t].category
  <2>1. CASE txn[t] = None
    BY <2>1
  <2>2. CASE txn[t] # None
    <3> DEFINE mark == t \in valued
    <3>1. txn[t] \in TransactionRow
      BY <1>2, <2>2 DEF TxnTyped
    <3>2. txns[t] = [txn[t] EXCEPT !.valued = mark]
      BY <2>2
    <3>3. mark \in BOOLEAN
      OBVIOUS
    <3> HIDE DEF mark, txns
    <3> QED
      BY <2>2, <3>1, <3>2, <3>3 DEF TransactionRow
  <2> QED
    BY <2>1, <2>2
<1>5. TxnTyped' /\ Filed'
  <2>1. txns = [t \in Transactions |-> txns[t]]
    OBVIOUS
  <2> HIDE DEF txns
  <2>2. TxnTyped'
    BY <1>1, <1>4, <2>1 DEF TxnTyped
  <2>3. Filed'
    BY <1>1, <1>2, <1>4 DEF Filed
  <2> QED
    BY <2>2, <2>3
<1>6. w = World'
  BY <1>1 DEF World
<1>7. DOMAIN timeline' = BudgetIds
  BY <1>1
<1> HIDE DEF txns, w
<1>8. ASSUME NEW b \in Budgeted
      PROVE  /\ Shaped(timeline'[b])
             /\ b \notin remoded => SoundIn(w, timeline'[b], budget[b].mode)
  <2> DEFINE re == Rebuilt(w, timeline[b])
             new == Current(w, re, now)
  <2>1. /\ now \in Periods /\ Shaped(timeline[b])
        /\ b \notin remoded => SoundIn(World, timeline[b], budget[b].mode)
    BY TimelineOf
  <2>2. /\ Shaped(re) /\ Latest(re) = Latest(timeline[b])
        /\ \A mode : OneMode(timeline[b], mode) => SoundIn(w, re, mode)
    BY <2>1, RebuiltKeeps
  <2>3. b \notin remoded => SoundIn(w, re, budget[b].mode)
    BY <2>1, <2>2 DEF SoundIn
  <2>4. timeline'[b] = IF b \in Active THEN new ELSE re
    BY <1>1 DEF Budgeted
  <2> HIDE DEF re
  <2>5. ASSUME b \in Active
        PROVE  Shaped(new) /\ \A mode : SoundIn(w, re, mode) => SoundIn(w, new, mode)
    <3>1. ~ Ahead(re, now)
      BY <1>1, <2>2, <2>5 DEF Ahead
    <3> QED
      BY <2>1, <2>2, <3>1, CurrentKeeps
  <2> HIDE DEF new
  <2> QED
    BY <2>2, <2>3, <2>4, <2>5
<1> QED
  BY <1>1, <1>3, <1>5, <1>6, <1>7, <1>8, WorldStepKeeps

-----------------------------------------------------------------------------
(* Alerts.                                                                     *)

\* The status of a budget's latest period has been announced, unless it is a quiet one.
Told(b) ==
    LET tl == timeline[b]
        p == Latest(tl)
    IN <<b, p>> \notin quiet =>
        /\ tl.res[p].status = "overspent" => Critical(b, p)
        /\ tl.res[p].status = "warning" => Announced(b, p)

\* advancement_target_status and resume_target_status: after the alert the status has been
\* announced, by it or before.
LEMMA AlertTells ==
    ASSUME NEW b, NEW p, NEW status, StatusAlert(b, p, status) \subseteq announced',
           announced \subseteq announced'
    PROVE  /\ status = "overspent" => Critical(b, p)'
           /\ status = "warning" => Announced(b, p)'
  BY DEF StatusAlert, Critical, Announced, Alert

\* transition_target_status: the same of a status that a write changed.
LEMMA TransitionTells ==
    ASSUME NEW b, NEW p, NEW before, NEW after, before # after,
           Transition(b, p, before, after) \subseteq announced', announced \subseteq announced'
    PROVE  /\ after = "overspent" => Critical(b, p)'
           /\ after = "warning" => Announced(b, p)'
<1>1. CASE after \in {"overspent", "warning"}
  <2>1. StatusAlert(b, p, after) \subseteq announced'
    BY <1>1 DEF Transition
  <2> QED
    BY <2>1, AlertTells
<1>2. CASE after \notin {"overspent", "warning"}
  BY <1>2
<1> QED
  BY <1>1, <1>2

\* A budget that a step leaves alone.
LEMMA StaysTold ==
    ASSUME NEW b, Told(b), timeline'[b] = timeline[b], announced \subseteq announced',
           <<b, Latest(timeline[b])>> \in quiet => <<b, Latest(timeline[b])>> \in quiet'
    PROVE  Told(b)'
  BY DEF Told, Critical, Announced

\* A budget whose latest status a step announces.
LEMMA AlertedIsTold ==
    ASSUME NEW b, NEW now, Latest(timeline'[b]) = now,
           StatusAlert(b, now, timeline'[b].res[now].status) \subseteq announced',
           announced \subseteq announced'
    PROVE  Told(b)'
<1>1. /\ timeline'[b].res[now].status = "overspent" => Critical(b, now)'
      /\ timeline'[b].res[now].status = "warning" => Announced(b, now)'
  BY AlertTells
<1> QED
  BY <1>1 DEF Told

\* emit_budget_transition_alerts, at the end of a write that watches bs.
LEMMA EmittedIsTold ==
    ASSUME NEW bs, NEW mid, NEW post, NEW now, Emit(bs, mid, post, now), NEW b, Told(b),
           b \in bs => Latest(mid[b]) = now /\ Latest(post[b]) = now,
           b \notin bs => post[b] = timeline[b]
    PROVE  Told(b)'
<1>1. timeline' = post /\ announced' = announced \cup Alerts(bs, mid, post, now)
  BY DEF Emit
<1>2. quiet' = (quiet \cup {<<x, now>> : x \in {y \in bs : mid[y] # timeline[y]}})
                   \ {<<x, now>> : x \in Moved(bs, mid, post, now)}
  BY DEF Emit, Quiet
<1>3. CASE b \notin bs
  <2>1. <<b, Latest(timeline[b])>> \in quiet => <<b, Latest(timeline[b])>> \in quiet'
    BY <1>2, <1>3 DEF Moved
  <2> QED
    BY <1>1, <1>3, <2>1, StaysTold
<1>4. CASE b \in bs
  <2> DEFINE before == mid[b].res[now].status
             after == post[b].res[now].status
  <2>1. CASE before # after
    <3>1. Transition(b, now, before, after) \subseteq announced' /\ announced \subseteq announced'
      BY <1>1, <1>4 DEF Alerts
    <3> HIDE DEF before
    <3>2. /\ after = "overspent" => Critical(b, now)'
          /\ after = "warning" => Announced(b, now)'
      BY <2>1, <3>1, TransitionTells
    <3> QED
      BY <1>1, <1>4, <3>2 DEF Told
  <2>2. CASE before = after
    <3>1. b \notin Moved(bs, mid, post, now)
      BY <2>2 DEF Moved
    <3>2. CASE mid[b] # timeline[b]
      <4>1. <<b, now>> \in quiet'
        BY <1>2, <1>4, <3>1, <3>2
      <4> QED
        BY <1>1, <1>4, <4>1 DEF Told
    <3>3. CASE mid[b] = timeline[b]
      <4>1. <<b, now>> \in quiet => <<b, now>> \in quiet'
        BY <1>2, <3>1
      <4>2. Latest(timeline[b]) = now /\ Latest(timeline'[b]) = now
        BY <1>1, <1>4, <3>3
      <4>3. timeline'[b].res[now].status = timeline[b].res[now].status
        BY <1>1, <2>2, <3>3
      <4> QED
        BY <1>1, <4>1, <4>2, <4>3 DEF Told, Critical, Announced
    <3> QED
      BY <3>2, <3>3
  <2> QED
    BY <2>1, <2>2
<1> QED
  BY <1>3, <1>4

\* Reading a budget, pausing it and resuming it; the budgets beside it.
LEMMA OthersStayTold ==
    ASSUME EveryStatusIsAnnounced, NEW b \in BudgetIds,
           \A x \in BudgetIds : x # b => budget'[x] = budget[x] /\ timeline'[x] = timeline[x],
           announced \subseteq announced',
           \A x, p : x # b => (<<x, p>> \in quiet => <<x, p>> \in quiet'),
           b \in Active' => Told(b)'
    PROVE  EveryStatusIsAnnounced'
<1>1. ASSUME NEW x \in Active', x # b PROVE Told(x)'
  <2>1. x \in BudgetIds
    BY DEF Active, Budgeted
  <2>2. budget'[x] = budget[x] /\ timeline'[x] = timeline[x]
    BY <1>1, <2>1
  <2>3. x \in Active
    BY <2>1, <2>2 DEF Active, Budgeted
  <2>4. Told(x)
    BY <2>3 DEF EveryStatusIsAnnounced, Told
  <2> QED
    BY <1>1, <2>2, <2>4, StaysTold
<1>2. \A x \in Active' : Told(x)'
  BY <1>1
<1> QED
  BY <1>2 DEF EveryStatusIsAnnounced, Told

\* A step that leaves the budgets, their timelines and their alerts alone.
LEMMA NothingToTell ==
    ASSUME EveryStatusIsAnnounced, UNCHANGED <<budget, timeline, announced, quiet>>
    PROVE  EveryStatusIsAnnounced'
<1>1. Active' = Active
  BY DEF Active, Budgeted
<1>2. \A b \in Active : Told(b)
  BY DEF EveryStatusIsAnnounced, Told
<1>3. \A b \in Active' : Told(b)'
  BY <1>1, <1>2, StaysTold
<1> QED
  BY <1>3 DEF EveryStatusIsAnnounced, Told

\* A write that watches bs, of the timelines post.
LEMMA EmitTells ==
    ASSUME EveryStatusIsAnnounced, UNCHANGED budget,
           NEW bs, NEW mid, NEW post, NEW now, Emit(bs, mid, post, now),
           \A b \in Active : /\ b \in bs => Latest(mid[b]) = now /\ Latest(post[b]) = now
                             /\ b \notin bs => post[b] = timeline[b]
    PROVE  EveryStatusIsAnnounced'
<1>1. Active' = Active
  BY DEF Active, Budgeted
<1>2. \A b \in Active : Told(b)
  BY DEF EveryStatusIsAnnounced, Told
<1>3. \A b \in Active' : Told(b)'
  BY <1>1, <1>2, EmittedIsTold
<1> QED
  BY <1>3 DEF EveryStatusIsAnnounced, Told

\* reconcile_change.
LEMMA WriteTransactionTells ==
    ASSUME BudgetsInv, EveryStatusIsAnnounced, NEW t \in Transactions, NEW row,
           NEW now \in Sampled, WriteTransaction(t, row, now)
    PROVE  EveryStatusIsAnnounced'
<1> DEFINE w == [World EXCEPT !.txn[t] = row]
           rows == {txn[t], row} \ {None}
           mid == Watched(Active, now)
           post == [b \in BudgetIds |->
                      IF b \in Budgeted THEN Repaired(w, mid[b], rows, now) ELSE timeline[b]]
<1>1. /\ UNCHANGED budget /\ Emit(Active, mid, post, now)
      /\ \A b \in Active : ~ Ahead(timeline[b], now)
      /\ \A b \in Budgeted : Frontiers(World, mid[b], rows, now) # {} => ~ Ahead(mid[b], now)
  BY DEF WriteTransaction
<1>2. ASSUME NEW b \in Active
      PROVE  Latest(mid[b]) = now /\ Latest(post[b]) = now
  <2> DEFINE tl == mid[b]
  <2>1. b \in Budgeted /\ b \in BudgetIds
    BY DEF Active, Budgeted
  <2>2. tl = Current(World, timeline[b], now)
    BY <2>1 DEF Watched
  <2>3. now \in Periods /\ Shaped(timeline[b]) /\ TxnTyped
    BY <2>1, TimelineOf DEF BudgetsInv, RowsTyped
  <2>4. Shaped(tl) /\ Latest(tl) = now
    BY <1>1, <2>2, <2>3, CurrentKeeps
  <2>5. Frontiers(World, tl, rows, now) # {} => ~ Ahead(tl, now)
    BY <1>1, <2>1
  <2>6. post[b] = Repaired(w, tl, rows, now)
    BY <2>1
  <2> HIDE DEF mid, tl, post
  <2> DEFINE new == Repaired(w, tl, rows, now)
  <2>7. /\ Shaped(new) /\ UpToDate(new, tl, now)
        /\ \A mode : SoundIn(World, tl, mode) => SoundIn(w, new, mode)
    BY <2>3, <2>4, <2>5, RepairedKeeps
  <2> HIDE DEF w, rows
  <2> QED
    BY <2>4, <2>6, <2>7 DEF UpToDate, tl
<1> HIDE DEF mid, post
<1> QED
  BY <1>1, <1>2, EmitTells

\* The writes of categories.
LEMMA RewrittenTells ==
    ASSUME BudgetsInv, EveryStatusIsAnnounced, UNCHANGED budget, NEW w,
           NEW bs \in SUBSET Budgeted, NEW now \in Sampled, Rewritten(w, bs, now)
    PROVE  EveryStatusIsAnnounced'
<1> DEFINE mid == Watched(bs \cap Active, now)
           post == [b \in BudgetIds |->
                      IF b \in bs THEN Ensured(w, Rebuilt(w, mid[b]), now) ELSE timeline[b]]
<1>1. Emit(bs \cap Active, mid, post, now) /\ \A b \in bs : ~ Ahead(timeline[b], now)
  BY DEF Rewritten
<1>2. ASSUME NEW b \in Active
      PROVE  /\ b \in bs \cap Active => Latest(mid[b]) = now /\ Latest(post[b]) = now
             /\ b \notin bs \cap Active => post[b] = timeline[b]
  <2>1. b \in Budgeted /\ b \in BudgetIds
    BY DEF Active, Budgeted
  <2>2. CASE b \notin bs
    BY <2>1, <2>2
  <2>3. CASE b \in bs
    <3> DEFINE tl == mid[b]
    <3>1. tl = Current(World, timeline[b], now)
      BY <2>1, <2>3 DEF Watched
    <3>2. now \in Periods /\ Shaped(timeline[b])
      BY <2>1, TimelineOf
    <3>3. Shaped(tl) /\ Latest(tl) = now /\ ~ Ahead(tl, now)
      BY <1>1, <2>3, <3>1, <3>2, CurrentKeeps
    <3>4. post[b] = Ensured(w, Rebuilt(w, tl), now)
      BY <2>1, <2>3
    <3> HIDE DEF mid, tl, post
    <3>5. Latest(Ensured(w, Rebuilt(w, tl), now)) = now
      BY <3>2, <3>3, RewrittenKeeps
    <3> QED
      BY <2>3, <3>3, <3>4, <3>5 DEF tl
  <2> QED
    BY <2>2, <2>3
<1> HIDE DEF mid, post
<1> QED
  BY <1>1, <1>2, EmitTells

\* load_current_or_ensure, by a reader.
LEMMA ReadBudgetTells ==
    ASSUME BudgetsInv, EveryStatusIsAnnounced, NEW b \in BudgetIds, NEW now \in Sampled,
           ReadBudget(b, now)
    PROVE  EveryStatusIsAnnounced'
<1> DEFINE tl == Current(World, timeline[b], now)
           told == announced \cup
                     (IF budget[b].paused THEN {} ELSE StatusAlert(b, now, tl.res[now].status))
<1>1. /\ UNCHANGED <<budget, quiet>> /\ b \in Budgeted /\ Stale(timeline[b], now)
      /\ timeline' = [timeline EXCEPT ![b] = tl] /\ announced' = told
  BY DEF ReadBudget
<1>2. now \in Periods /\ Shaped(timeline[b]) /\ DOMAIN timeline = BudgetIds
  BY <1>1, TimelineOf DEF BudgetsInv, RowsTyped
<1>3. ~ Ahead(timeline[b], now)
  BY <1>1, <1>2, BudgetsAssumption DEF Stale, Ahead, Shaped, Configured, Periods
<1>4. Latest(tl) = now
  BY <1>2, <1>3, CurrentKeeps
<1> HIDE DEF tl
<1>5. timeline'[b] = tl /\ announced \subseteq announced'
  BY <1>1, <1>2
<1>6. ASSUME b \in Active' PROVE Told(b)'
  <2>1. ~ budget[b].paused
    BY <1>1, <1>6 DEF Active
  <2>2. StatusAlert(b, now, timeline'[b].res[now].status) \subseteq announced'
    BY <1>1, <1>5, <2>1
  <2> QED
    BY <1>4, <1>5, <2>2, AlertedIsTold
<1>7. \A x \in BudgetIds : x # b => budget'[x] = budget[x] /\ timeline'[x] = timeline[x]
  BY <1>1, <1>2
<1> QED
  BY <1>1, <1>5, <1>6, <1>7, OthersStayTold

\* set_budget_paused and delete_budget: nobody waits for alerts of a budget that is paused or gone.
LEMMA PauseTells ==
    ASSUME BudgetsInv, EveryStatusIsAnnounced, NEW b \in BudgetIds, NEW now,
           PauseBudget(b, now) \/ DeleteBudget(b)
    PROVE  EveryStatusIsAnnounced'
<1>1. b \in Budgeted /\ UNCHANGED <<announced, quiet>>
  BY DEF PauseBudget, DeleteBudget
<1>2. budget \in [BudgetIds -> BudgetRow \cup {None}] /\ budget[b] \in BudgetRow
      /\ DOMAIN timeline = BudgetIds
  BY <1>1, BudgetRows DEF BudgetsInv, RowsTyped
<1>3. (budget'[b].paused \/ budget'[b].deleted)
  <2>1. CASE PauseBudget(b, now)
    BY <1>2, <2>1 DEF PauseBudget, BudgetRow
  <2>2. CASE DeleteBudget(b)
    BY <1>2, <2>2 DEF DeleteBudget, BudgetRow
  <2> QED
    BY <2>1, <2>2
<1>4. b \notin Active'
  BY <1>3 DEF Active, Budgeted
<1>5. \A x \in BudgetIds : x # b => budget'[x] = budget[x] /\ timeline'[x] = timeline[x]
  BY <1>2 DEF PauseBudget, DeleteBudget
<1> QED
  BY <1>1, <1>4, <1>5, OthersStayTold

\* set_budget_paused, to resume: the present status is announced.
LEMMA ResumeTells ==
    ASSUME BudgetsInv, EveryStatusIsAnnounced, NEW b \in BudgetIds, NEW now \in Sampled,
           ResumeBudget(b, now)
    PROVE  EveryStatusIsAnnounced'
<1> DEFINE tl == Current(World, timeline[b], now)
<1>1. /\ b \in Budgeted /\ ~ Ahead(timeline[b], now)
      /\ timeline' = [timeline EXCEPT ![b] = tl]
      /\ announced' = announced \cup StatusAlert(b, now, tl.res[now].status)
      /\ quiet' = quiet \ {<<b, now>>}
      /\ budget' = [budget EXCEPT ![b].paused = FALSE]
  BY DEF ResumeBudget, ResumeAlert
<1>2. /\ now \in Periods /\ Shaped(timeline[b]) /\ DOMAIN timeline = BudgetIds
      /\ budget \in [BudgetIds -> BudgetRow \cup {None}]
  BY <1>1, TimelineOf DEF BudgetsInv, RowsTyped
<1>3. Latest(tl) = now
  BY <1>1, <1>2, CurrentKeeps
<1> HIDE DEF tl
<1>4. timeline'[b] = tl
  BY <1>1, <1>2
<1>5. Told(b)'
  BY <1>1, <1>3, <1>4, AlertedIsTold
<1>6. \A x \in BudgetIds : x # b => budget'[x] = budget[x] /\ timeline'[x] = timeline[x]
  BY <1>1, <1>2
<1> QED
  BY <1>1, <1>5, <1>6, OthersStayTold

\* create_budget: a first status is a quiet one.
LEMMA CreateBudgetTells ==
    ASSUME BudgetsInv, EveryStatusIsAnnounced, NEW b \in BudgetIds, NEW s \in Settings,
           NEW now \in Sampled, CreateBudget(b, s, now)
    PROVE  EveryStatusIsAnnounced'
<1> DEFINE setting == [s EXCEPT !.scope = Canonical(tree, @)]
           tl == Recalculated(World, [conf |-> [p \in {now} |-> setting], res |-> <<>>], now, now)
<1>1. /\ announced' = announced /\ quiet' = quiet \cup {<<b, now>>}
      /\ timeline' = [timeline EXCEPT ![b] = tl]
      /\ \E row : budget' = [budget EXCEPT ![b] = row]
  BY DEF CreateBudget
<1>2. setting \in Setting /\ now \in Periods
  BY BudgetsAssumption, CanonicalSetting DEF Sampled
<1> HIDE DEF setting
<1>3. Latest(tl) = now
  BY <1>2, CreatedKeeps
<1> HIDE DEF tl
<1>4. budget \in [BudgetIds -> BudgetRow \cup {None}] /\ DOMAIN timeline = BudgetIds
  BY DEF BudgetsInv, RowsTyped
<1>5. timeline'[b] = tl
  BY <1>1, <1>4
<1>6. Told(b)'
  BY <1>1, <1>3, <1>5 DEF Told
<1>7. \A x \in BudgetIds : x # b => budget'[x] = budget[x] /\ timeline'[x] = timeline[x]
  BY <1>1, <1>4
<1> QED
  BY <1>1, <1>6, <1>7, OthersStayTold

\* update_budget: the new status of a budget that is not paused is compared with the old one.
LEMMA UpdateBudgetTells ==
    ASSUME BudgetsInv, EveryStatusIsAnnounced, NEW b \in BudgetIds, NEW new \in Settings,
           NEW now \in Sampled, UpdateBudget(b, new, now)
    PROVE  EveryStatusIsAnnounced'
<1> DEFINE setting == [new EXCEPT !.scope = Canonical(tree, @)]
           mid == Watched({b}, now)
           tl == Reconfigured(World, mid[b], setting, now)
           post == [timeline EXCEPT ![b] = tl]
<1>1. /\ b \in Budgeted /\ ~ Ahead(timeline[b], now)
      /\ budget' = [budget EXCEPT ![b].mode = new.mode]
  BY DEF UpdateBudget
<1>2. IF budget[b].paused
      THEN timeline' = post /\ UNCHANGED <<announced, quiet>>
      ELSE Emit({b}, mid, post, now)
  BY DEF UpdateBudget
<1>3. /\ setting \in Setting /\ now \in Periods /\ Shaped(timeline[b])
      /\ DOMAIN timeline = BudgetIds /\ budget \in [BudgetIds -> BudgetRow \cup {None}]
      /\ budget[b] \in BudgetRow
  BY <1>1, BudgetsAssumption, CanonicalSetting, TimelineOf, BudgetRows DEF BudgetsInv, RowsTyped
<1> HIDE DEF setting
<1>4. mid[b] = Current(World, timeline[b], now)
  BY DEF Watched
<1>5. Shaped(mid[b]) /\ Latest(mid[b]) = now
  BY <1>1, <1>3, <1>4, CurrentKeeps
<1> HIDE DEF mid
<1>6. Latest(tl) = now
  BY <1>3, <1>5, ReconfiguredKeeps
<1> HIDE DEF tl
<1>7. post[b] = tl /\ \A x \in BudgetIds : x # b => post[x] = timeline[x]
  BY <1>3
<1> HIDE DEF post
<1>8. timeline' = post
  BY <1>2 DEF Emit
<1>9. budget'[b].paused = budget[b].paused
  BY <1>1, <1>3 DEF BudgetRow
<1>10. \A x \in BudgetIds : x # b => budget'[x] = budget[x] /\ timeline'[x] = timeline[x]
  BY <1>1, <1>3, <1>7, <1>8
<1>11. CASE budget[b].paused
  <2>1. b \notin Active'
    BY <1>9, <1>11 DEF Active
  <2> QED
    BY <1>2, <1>10, <1>11, <2>1, OthersStayTold
<1>12. CASE ~ budget[b].paused
  <2>1. Emit({b}, mid, post, now)
    BY <1>2, <1>12
  <2>2. Told(b)
    BY <1>1, <1>12 DEF EveryStatusIsAnnounced, Active, Told
  <2>3. Latest(mid[b]) = now /\ Latest(post[b]) = now
    BY <1>5, <1>6, <1>7
  <2>4. Told(b)'
    BY <2>1, <2>2, <2>3, EmittedIsTold
  <2>5. announced \subseteq announced' /\ \A x, p : x # b => (<<x, p>> \in quiet => <<x, p>> \in quiet')
    BY <2>1 DEF Emit, Quiet, Moved
  <2> QED
    BY <1>10, <2>4, <2>5, OthersStayTold
<1> QED
  BY <1>11, <1>12

\* activate_default_generation: the present status of every active budget is announced.
LEMMA ActivateDefaultTells ==
    ASSUME BudgetsInv, EveryStatusIsAnnounced, NEW valued \in SUBSET Transactions,
           NEW now \in Sampled, ActivateDefault(valued, now)
    PROVE  EveryStatusIsAnnounced'
<1> DEFINE txns == [t \in Transactions |->
                       IF txn[t] = None THEN None ELSE [txn[t] EXCEPT !.valued = t \in valued]]
           w == [tree |-> tree, txn |-> txns]
           post == [b \in BudgetIds |->
                      IF b \notin Budgeted THEN timeline[b]
                      ELSE IF b \in Active THEN Current(w, Rebuilt(w, timeline[b]), now)
                      ELSE Rebuilt(w, timeline[b])]
<1>1. /\ \A b \in Active : ~ Ahead(timeline[b], now)
      /\ UNCHANGED budget /\ timeline' = post
      /\ announced' = announced \cup UNION {ResumeAlert(b, post[b], now) : b \in Active}
  BY DEF ActivateDefault
<1>2. ASSUME NEW b \in Active
      PROVE  Told(b)'
  <2> DEFINE re == Rebuilt(w, timeline[b])
             tl == Current(w, re, now)
  <2>1. b \in Budgeted /\ b \in BudgetIds
    BY DEF Active, Budgeted
  <2>2. post[b] = tl
    BY <2>1
  <2>3. now \in Periods /\ Shaped(timeline[b])
    BY <2>1, TimelineOf
  <2> HIDE DEF w, post
  <2>4. Shaped(re) /\ Latest(re) = Latest(timeline[b])
    BY <2>3, RebuiltKeeps
  <2>5. ~ Ahead(re, now)
    BY <1>1, <2>4 DEF Ahead
  <2> HIDE DEF re
  <2>6. Latest(tl) = now
    BY <2>3, <2>4, <2>5, CurrentKeeps
  <2> HIDE DEF tl
  <2>7. timeline'[b] = tl
    BY <1>1, <2>2
  <2>8. ResumeAlert(b, post[b], now) \subseteq announced' /\ announced \subseteq announced'
    BY <1>1
  <2>9. StatusAlert(b, now, timeline'[b].res[now].status) \subseteq announced'
    BY <2>2, <2>7, <2>8 DEF ResumeAlert
  <2> QED
    BY <2>6, <2>7, <2>8, <2>9, AlertedIsTold
<1>3. Active' = Active
  BY <1>1 DEF Active, Budgeted
<1>4. \A b \in Active' : Told(b)'
  BY <1>2, <1>3
<1> QED
  BY <1>4 DEF EveryStatusIsAnnounced, Told

\* Every step keeps active budgets announced.
LEMMA NextTells == BudgetsInv /\ EveryStatusIsAnnounced /\ [Next]_vars => EveryStatusIsAnnounced'
<1> SUFFICES ASSUME BudgetsInv, EveryStatusIsAnnounced, [Next]_vars
             PROVE  EveryStatusIsAnnounced'
  OBVIOUS
<1>1. ASSUME NEW c \in Categories, NEW p \in Categories \cup {None}, NEW role \in Roles,
             CreateCategory(c, p, role)
      PROVE  EveryStatusIsAnnounced'
  BY <1>1, NothingToTell DEF CreateCategory
<1>2. ASSUME NEW c \in Categories, NEW p \in Categories \cup {None}, NEW role \in Roles,
             NEW now \in Sampled, UpdateCategory(c, p, role, now)
      PROVE  EveryStatusIsAnnounced'
  <2> DEFINE w == [tree |-> Updated(c, p, role), txn |-> txn]
             bs == AffectedByUpdate(c, p, Updated(c, p, role)[c].role)
  <2>1. UNCHANGED budget /\ Rewritten(w, bs, now)
    BY <1>2 DEF UpdateCategory
  <2>2. bs \in SUBSET Budgeted
    BY DEF AffectedByUpdate
  <2> HIDE DEF w, bs
  <2> QED
    BY <2>1, <2>2, RewrittenTells
<1>3. ASSUME NEW ids \in SUBSET Live \ {{}}, NEW strategy \in Strategies, NEW now \in Sampled,
             DeleteCategories(ids, strategy, now)
      PROVE  EveryStatusIsAnnounced'
  <2> DEFINE doomed == Doomed(ids, strategy)
             w == [tree |-> Removed(ids, strategy), txn |-> Unfiled(doomed)]
             bs == AffectedByDeletion(doomed)
  <2>1. UNCHANGED budget /\ Rewritten(w, bs, now)
    BY <1>3 DEF DeleteCategories, Unfiled
  <2>2. bs \in SUBSET Budgeted
    BY DEF AffectedByDeletion
  <2> HIDE DEF w, bs
  <2> QED
    BY <2>1, <2>2, RewrittenTells
<1>4. ASSUME NEW t \in Transactions, NEW row, NEW now \in Sampled, WriteTransaction(t, row, now)
      PROVE  EveryStatusIsAnnounced'
  BY <1>4, WriteTransactionTells
<1>5. ASSUME NEW valued \in SUBSET Transactions, NEW now \in Sampled, ActivateDefault(valued, now)
      PROVE  EveryStatusIsAnnounced'
  BY <1>5, ActivateDefaultTells
<1>6. ASSUME NEW b \in BudgetIds, NEW now \in Sampled, PauseBudget(b, now) \/ DeleteBudget(b)
      PROVE  EveryStatusIsAnnounced'
  BY <1>6, PauseTells
<1>7. ASSUME NEW b \in BudgetIds, DeleteBudget(b) PROVE EveryStatusIsAnnounced'
  BY <1>7, PauseTells
<1>8. ASSUME NEW b \in BudgetIds, NEW now \in Sampled, ReadBudget(b, now)
      PROVE  EveryStatusIsAnnounced'
  BY <1>8, ReadBudgetTells
<1>9. ASSUME NEW b \in BudgetIds, NEW now \in Sampled, ResumeBudget(b, now)
      PROVE  EveryStatusIsAnnounced'
  BY <1>9, ResumeTells
<1>10. ASSUME NEW b \in BudgetIds, NEW now \in Sampled, NEW s \in Settings, CreateBudget(b, s, now)
       PROVE  EveryStatusIsAnnounced'
  BY <1>10, CreateBudgetTells
<1>11. ASSUME NEW b \in BudgetIds, NEW now \in Sampled, NEW s \in Settings, UpdateBudget(b, s, now)
       PROVE  EveryStatusIsAnnounced'
  BY <1>11, UpdateBudgetTells
<1>12. CASE Tick
  BY <1>12, NothingToTell DEF Tick
<1>13. CASE UNCHANGED vars
  BY <1>13, NothingToTell DEF vars
<1> QED
  BY <1>1, <1>2, <1>3, <1>4, <1>5, <1>6, <1>7, <1>8, <1>9, <1>10, <1>11, <1>12, <1>13, Zenon
  DEF Next


-----------------------------------------------------------------------------
(* The latest period.                                                          *)

\* Whatever the measurement modes before: the latest result of a timeline is calculated in
\* the present mode from the one before.
FreshIn(w, tl, mode) == Follows(w, tl, Latest(tl)) /\ tl.conf[Latest(tl)].mode = mode

LatestMode(tl) == tl.conf[Latest(tl)].mode

\* Recalculating up to a period makes it fresh.
LEMMA RecalculatedIsFresh ==
    ASSUME NEW w, NEW tl, Configured(tl),
           NEW from \in First(tl)..Latest(tl), NEW to \in Periods, Latest(tl) <= to,
           DOMAIN tl.res \subseteq First(tl)..to, HasBefore(tl, from)
    PROVE  FreshIn(w, Recalculated(w, tl, from, to), LatestMode(tl))
<1> DEFINE new == Recalculated(w, tl, from, to)
<1>1. /\ First(tl) \in Nat /\ Latest(tl) \in Nat /\ to \in Nat /\ from \in Nat
      /\ First(tl) <= from /\ from <= Latest(tl) /\ Latest(tl) <= to
  BY BudgetsAssumption DEF Configured, Periods
<1>2. /\ Shaped(new) /\ First(new) = First(tl) /\ Latest(new) = to
      /\ \A p \in First(tl)..Latest(tl) : new.conf[p] = tl.conf[p]
      /\ \A p \in First(tl)..to : p > Latest(tl) => new.conf[p] = tl.conf[Latest(tl)]
      /\ \A p \in First(tl)..(from - 1) : new.res[p] = tl.res[p]
      /\ \A p \in from..to : Follows(w, new, p)
  BY RecalculatedFollows
<1> HIDE DEF new
<1>3. to \in from..to /\ to \in First(tl)..to /\ Latest(tl) \in First(tl)..Latest(tl)
  BY <1>1
<1>4. to = Latest(tl) \/ to > Latest(tl)
  BY <1>1
<1>5. new.conf[to] = tl.conf[Latest(tl)]
  BY <1>2, <1>3, <1>4
<1> QED
  BY <1>2, <1>3, <1>5 DEF FreshIn, LatestMode, new

\* A sound timeline is fresh.
LEMMA SoundIsFresh ==
    ASSUME NEW w, NEW tl, Shaped(tl), Chained(w, tl)
    PROVE  FreshIn(w, tl, LatestMode(tl))
<1>1. Latest(tl) \in First(tl)..Latest(tl)
  BY BudgetsAssumption DEF Shaped, Configured, Periods
<1> QED
  BY <1>1 DEF Chained, FreshIn, LatestMode

\* advance_timeline.
LEMMA EnsuredIsFresh ==
    ASSUME NEW w, NEW tl, Shaped(tl), NEW now \in Periods, ~ Ahead(tl, now)
    PROVE  FreshIn(w, Ensured(w, tl, now), LatestMode(tl))
<1>1. First(tl) \in Nat /\ Latest(tl) \in Nat /\ now \in Nat /\ First(tl) <= Latest(tl) /\ Latest(tl) <= now
  BY BudgetsAssumption DEF Shaped, Configured, Periods, Ahead
<1>2. DOMAIN tl.res = First(tl)..Latest(tl) /\ Configured(tl)
  BY Zenon DEF Shaped
<1>3. /\ Latest(tl) \in First(tl)..Latest(tl) /\ DOMAIN tl.res \subseteq First(tl)..now
      /\ HasBefore(tl, Latest(tl))
  BY <1>1, <1>2, ShapedHasBefore
<1>4. FreshIn(w, Recalculated(w, tl, Latest(tl), now), LatestMode(tl))
  BY <1>1, <1>2, <1>3, RecalculatedIsFresh
<1> QED
  BY <1>4 DEF Ensured

\* load_current_or_ensure.
LEMMA CurrentIsFresh ==
    ASSUME NEW w, NEW tl, Shaped(tl), NEW now \in Periods, ~ Ahead(tl, now), NEW mode,
           FreshIn(w, tl, mode)
    PROVE  FreshIn(w, Current(w, tl, now), mode)
<1>1. LatestMode(tl) = mode
  BY DEF FreshIn, LatestMode
<1>2. FreshIn(w, Ensured(w, tl, now), LatestMode(tl))
  BY EnsuredIsFresh
<1> QED
  BY <1>1, <1>2 DEF Current

\* rebuild_derived.
LEMMA RebuiltIsFresh ==
    ASSUME NEW w, NEW tl, Shaped(tl)
    PROVE  LET new == Rebuilt(w, tl)
           IN  Shaped(new) /\ FreshIn(w, new, LatestMode(tl)) /\ LatestMode(new) = LatestMode(tl)
<1> DEFINE new == Rebuilt(w, tl)
<1>1. Shaped(new) /\ Chained(w, new) /\ GoesOn(new, tl) /\ Latest(new) = Latest(tl)
  BY RebuiltIsSound
<1> HIDE DEF new
<1>2. Latest(tl) \in First(tl)..Latest(tl)
  BY BudgetsAssumption DEF Shaped, Configured, Periods
<1>3. LatestMode(new) = LatestMode(tl)
  BY <1>1, <1>2 DEF GoesOn, LatestMode
<1>4. FreshIn(w, new, LatestMode(new))
  BY <1>1, SoundIsFresh
<1> QED
  BY <1>1, <1>3, <1>4 DEF new

\* A timeline whose latest period a write does not change.
LEMMA AlikeIsFresh ==
    ASSUME NEW w, NEW v, NEW tl, NEW mode, FreshIn(w, tl, mode),
           Alike(w, v, tl.conf[Latest(tl)], Latest(tl))
    PROVE  FreshIn(v, tl, mode)
  BY CalculatedAlike DEF FreshIn, Follows

\* refresh_current_configuration.
LEMMA ReconfiguredIsFresh ==
    ASSUME NEW w, NEW tl, Shaped(tl), NEW now \in Periods, Latest(tl) = now,
           NEW setting \in Setting
    PROVE  FreshIn(w, Reconfigured(w, tl, setting, now), setting.mode)
<1> DEFINE ch == [tl EXCEPT !.conf[now] = setting]
           a == First(tl)
<1>1. a \in Nat /\ now \in Nat /\ a <= now /\ now \in a..now /\ a \in Periods
  BY BudgetsAssumption DEF Shaped, Configured, Periods
<1>2. /\ tl = [conf |-> tl.conf, res |-> tl.res] /\ tl.conf \in [a..now -> Setting]
      /\ DOMAIN tl.res = a..now /\ \A p \in a..now : tl.res[p] \in Result
  BY DEF Shaped, Configured
<1>3. ch.conf = [tl.conf EXCEPT ![now] = setting] /\ ch.res = tl.res
  BY <1>2
<1>4. Reconfigured(w, tl, setting, now) = Recalculated(w, ch, now, now)
  BY DEF Reconfigured
<1> HIDE DEF ch, a
<1>5. ch.conf \in [a..now -> Setting] /\ ch.conf[now] = setting
  BY <1>1, <1>2, <1>3
<1>6. First(ch) = a /\ Latest(ch) = now
  BY <1>1, <1>5, BoundsOfConf
<1>7. Configured(ch)
  BY <1>1, <1>5, <1>6 DEF Configured
<1>8. /\ now \in First(ch)..Latest(ch) /\ Latest(ch) <= now
      /\ DOMAIN ch.res \subseteq First(ch)..now
      /\ HasBefore(ch, now)
  BY <1>1, <1>2, <1>3, <1>6 DEF HasBefore
<1>9. FreshIn(w, Recalculated(w, ch, now, now), LatestMode(ch))
  BY <1>7, <1>8, RecalculatedIsFresh
<1>10. LatestMode(ch) = setting.mode
  BY <1>5, <1>6 DEF LatestMode
<1> QED
  BY <1>4, <1>9, <1>10

\* repair_from_frontier: a row of a period the timeline has not reached is repaired from the
\* latest one on.
LEMMA RepairedIsFresh ==
    ASSUME TxnTyped, NEW t \in Transactions, NEW row, NEW tl, Shaped(tl), NEW now \in Periods,
           Frontiers(World, tl, {txn[t], row} \ {None}, now) # {} => ~ Ahead(tl, now),
           NEW mode, FreshIn(World, tl, mode)
    PROVE  LET new == Repaired([World EXCEPT !.txn[t] = row], tl, {txn[t], row} \ {None}, now)
           IN  /\ FreshIn([World EXCEPT !.txn[t] = row], new, mode)
               /\ Latest(new) \in {Latest(tl), now}
<1> DEFINE w == [World EXCEPT !.txn[t] = row]
           rows == {txn[t], row} \ {None}
           new == Repaired(w, tl, rows, now)
           fr == Frontiers(World, tl, rows, now)
           a == First(tl)
           z == Latest(tl)
<1>1. a \in Nat /\ z \in Nat /\ a <= z /\ now \in Nat /\ DOMAIN tl.conf = a..z
  BY BudgetsAssumption DEF Shaped, Configured, Periods
<1>2. Frontiers(w, tl, rows, now) = fr
  <2>1. w.tree = World.tree
    BY DEF World
  <2> HIDE DEF w, rows
  <2> QED
    BY <2>1 DEF Frontiers, InScope
<1>3. fr \subseteq a..z
  <2>1. Latest(tl) \in DOMAIN tl.conf
    BY <1>1
  <2> QED
    BY <1>1, <2>1 DEF Frontiers
<1>4. new = IF fr = {} THEN tl ELSE Recalculated(w, tl, Min(fr), now)
  BY <1>2 DEF Repaired
<1>5. fr # {} => ~ Ahead(tl, now)
  OBVIOUS
<1>6. CASE fr = {}
  <2>1. \A r \in rows : ~ (r.period = z /\ InScope(World, tl.conf[z].scope, r))
    BY <1>1, <1>6 DEF Frontiers
  <2>2. Alike(World, w, tl.conf[z], z)
    BY <2>1, WrittenIsAlike
  <2> HIDE DEF w, rows, new, fr
  <2>3. FreshIn(w, tl, mode)
    BY <2>2, AlikeIsFresh DEF z
  <2>4. new = tl
    BY <1>4, <1>6
  <2> QED
    BY <2>3, <2>4 DEF new, w, rows
<1>7. CASE fr # {}
  <2> HIDE DEF w, rows, new, fr
  <2> DEFINE m == Min(fr)
  <2>1. m \in fr
    <3>1. fr \subseteq Nat
      BY <1>1, <1>3
    <3> QED
      BY <1>7, <3>1, LeastIsMin
  <2> HIDE DEF m
  <2>2. m \in a..z /\ z <= now
    BY <1>1, <1>3, <1>5, <1>7, <2>1 DEF Ahead
  <2>3. new = Recalculated(w, tl, m, now)
    BY <1>4, <1>7 DEF m
  <2>4. DOMAIN tl.res = a..z /\ Configured(tl)
    BY Zenon DEF Shaped
  <2>5. DOMAIN tl.res \subseteq a..now /\ HasBefore(tl, m)
    BY <1>1, <2>2, <2>4, ShapedHasBefore
  <2>6. FreshIn(w, Recalculated(w, tl, m, now), LatestMode(tl))
    BY <2>2, <2>4, <2>5, RecalculatedIsFresh
  <2>7. LatestMode(tl) = mode
    BY DEF FreshIn, LatestMode
  <2>8. Latest(new) = now
    <3> DEFINE re == Recalculated(w, tl, m, now)
    <3>1. /\ Shaped(re) /\ First(re) = First(tl) /\ Latest(re) = now
          /\ \A p \in First(tl)..Latest(tl) : re.conf[p] = tl.conf[p]
          /\ \A p \in First(tl)..now : p > Latest(tl) => re.conf[p] = tl.conf[Latest(tl)]
          /\ \A p \in First(tl)..(m - 1) : re.res[p] = tl.res[p]
          /\ \A p \in m..now : Follows(w, re, p)
      BY <2>2, <2>4, <2>5, RecalculatedFollows
    <3> HIDE DEF re
    <3> QED
      BY <2>3, <3>1 DEF re
  <2> QED
    BY <2>3, <2>6, <2>7, <2>8 DEF new, w, rows
<1> QED
  BY <1>6, <1>7

\* No timeline is ahead of the clock, and each is fresh.
LatestInv ==
    /\ clock \in Periods
    /\ \A b \in Budgeted :
        /\ Latest(timeline[b]) <= clock
        /\ FreshIn(World, timeline[b], budget[b].mode)

\* A call's clock is no later than the clock.
LEMMA SampledBefore ==
    ASSUME clock \in Periods, NEW now \in Sampled
    PROVE  now \in Periods /\ now <= clock
  BY BudgetsAssumption DEF Sampled, Periods

\* A step of one budget.
LEMMA OneBudgetIsFresh ==
    ASSUME LatestInv, UNCHANGED <<tree, txn, clock>>, NEW b \in BudgetIds,
           \A x \in BudgetIds : x # b => budget'[x] = budget[x] /\ timeline'[x] = timeline[x],
           b \in Budgeted' => /\ Latest(timeline'[b]) <= clock
                              /\ FreshIn(World, timeline'[b], budget'[b].mode)
    PROVE  LatestInv'
<1>1. World' = World
  BY DEF World
<1>2. ASSUME NEW x \in Budgeted'
      PROVE  Latest(timeline'[x]) <= clock /\ FreshIn(World, timeline'[x], budget'[x].mode)
  <2>1. CASE x = b
    BY <1>2, <2>1
  <2>2. CASE x # b
    <3>1. x \in BudgetIds /\ budget'[x] = budget[x] /\ timeline'[x] = timeline[x]
      BY <1>2, <2>2 DEF Budgeted
    <3>2. x \in Budgeted
      BY <1>2, <3>1 DEF Budgeted
    <3> QED
      BY <3>1, <3>2 DEF LatestInv
  <2> QED
    BY <2>1, <2>2
<1> HIDE DEF World
<1>3. clock' \in Periods /\ clock' = clock
  BY DEF LatestInv
<1> QED
  BY <1>1, <1>2, <1>3, Zenon DEF LatestInv

\* A step of the world.
LEMMA WorldIsFresh ==
    ASSUME LatestInv, UNCHANGED <<budget, clock>>,
           \A b \in Budgeted : /\ Latest(timeline'[b]) <= clock
                               /\ FreshIn(World', timeline'[b], budget[b].mode)
    PROVE  LatestInv'
<1>1. Budgeted' = Budgeted
  BY DEF Budgeted
<1>2. clock' \in Periods /\ clock' = clock
  BY DEF LatestInv
<1> QED
  BY <1>1, <1>2, Zenon DEF LatestInv

\* Reading, pausing and resuming a budget.
LEMMA AdvanceIsFresh ==
    ASSUME BudgetsInv, LatestInv, NEW b \in BudgetIds, NEW now \in Sampled,
           ReadBudget(b, now) \/ PauseBudget(b, now) \/ ResumeBudget(b, now)
    PROVE  LatestInv'
<1> DEFINE tl == Current(World, timeline[b], now)
<1>1. /\ UNCHANGED <<tree, txn, clock>> /\ b \in Budgeted
      /\ timeline' = [timeline EXCEPT ![b] = tl]
      /\ Stale(timeline[b], now) \/ ~ Ahead(timeline[b], now)
  BY DEF ReadBudget, PauseBudget, ResumeBudget
<1>2. /\ now \in Periods /\ now <= clock /\ Shaped(timeline[b]) /\ DOMAIN timeline = BudgetIds
      /\ budget \in [BudgetIds -> BudgetRow \cup {None}] /\ budget[b] \in BudgetRow
      /\ FreshIn(World, timeline[b], budget[b].mode)
  BY <1>1, TimelineOf, SampledBefore, BudgetRows DEF BudgetsInv, RowsTyped, LatestInv
<1>3. ~ Ahead(timeline[b], now)
  BY <1>1, <1>2, BudgetsAssumption DEF Stale, Ahead, Shaped, Configured, Periods
<1>4. Latest(tl) = now /\ FreshIn(World, tl, budget[b].mode)
  BY <1>2, <1>3, CurrentKeeps, CurrentIsFresh
<1> HIDE DEF tl
<1>5. /\ budget'[b].mode = budget[b].mode
      /\ \A x \in BudgetIds : x # b => budget'[x] = budget[x]
  BY <1>2 DEF ReadBudget, PauseBudget, ResumeBudget, BudgetRow
<1>6. timeline'[b] = tl /\ \A x \in BudgetIds : x # b => timeline'[x] = timeline[x]
  BY <1>1, <1>2
<1> QED
  BY <1>1, <1>2, <1>4, <1>5, <1>6, OneBudgetIsFresh

\* create_budget and update_budget.
LEMMA ConfiguringIsFresh ==
    ASSUME BudgetsInv, LatestInv, NEW b \in BudgetIds, NEW new \in Settings, NEW now \in Sampled,
           CreateBudget(b, new, now) \/ UpdateBudget(b, new, now)
    PROVE  LatestInv'
<1> DEFINE setting == [new EXCEPT !.scope = Canonical(tree, @)]
<1>1. /\ now \in Periods /\ now <= clock /\ DOMAIN timeline = BudgetIds
      /\ budget \in [BudgetIds -> BudgetRow \cup {None}]
  BY SampledBefore DEF BudgetsInv, RowsTyped, LatestInv
<1>2. setting \in Setting /\ setting.mode = new.mode
  BY BudgetsAssumption, CanonicalSetting
<1>3. CASE CreateBudget(b, new, now)
  <2> DEFINE tl == Recalculated(World, [conf |-> [p \in {now} |-> setting], res |-> <<>>], now, now)
  <2>1. /\ UNCHANGED <<tree, txn, clock>> /\ timeline' = [timeline EXCEPT ![b] = tl]
        /\ budget' = [budget EXCEPT ![b] =
                        [paused |-> FALSE, deleted |-> FALSE, mode |-> new.mode]]
    BY <1>3 DEF CreateBudget
  <2> HIDE DEF setting
  <2>2. Shaped(tl) /\ Latest(tl) = now /\ SoundIn(World, tl, setting.mode)
    BY <1>1, <1>2, CreatedKeeps
  <2> HIDE DEF tl
  <2>3. FreshIn(World, tl, new.mode)
    <3>1. FreshIn(World, tl, LatestMode(tl))
      BY <2>2, SoundIsFresh DEF SoundIn
    <3>2. Latest(tl) \in First(tl)..Latest(tl)
      BY <2>2, BudgetsAssumption DEF Shaped, Configured, Periods
    <3>3. LatestMode(tl) = new.mode
      BY <1>2, <2>2, <3>2 DEF SoundIn, OneMode, LatestMode
    <3> QED
      BY <3>1, <3>3
  <2>4. /\ timeline'[b] = tl /\ budget'[b].mode = new.mode
        /\ \A x \in BudgetIds : x # b => budget'[x] = budget[x] /\ timeline'[x] = timeline[x]
    BY <1>1, <2>1
  <2> QED
    BY <1>1, <2>1, <2>2, <2>3, <2>4, OneBudgetIsFresh
<1>4. CASE UpdateBudget(b, new, now)
  <2> DEFINE mid == Current(World, timeline[b], now)
             tl == Reconfigured(World, mid, setting, now)
  <2>1. /\ UNCHANGED <<tree, txn, clock>> /\ b \in Budgeted /\ ~ Ahead(timeline[b], now)
        /\ budget' = [budget EXCEPT ![b].mode = new.mode]
    BY <1>4 DEF UpdateBudget
  <2>2. timeline' = [timeline EXCEPT ![b] = tl]
    <3>1. Watched({b}, now)[b] = mid
      BY DEF Watched
    <3> HIDE DEF mid
    <3> QED
      BY <1>4, <3>1 DEF UpdateBudget, Emit
  <2>3. Shaped(timeline[b]) /\ budget[b] \in BudgetRow
    BY <2>1, TimelineOf, BudgetRows DEF BudgetsInv
  <2> HIDE DEF setting
  <2>4. Shaped(mid) /\ Latest(mid) = now
    BY <1>1, <2>1, <2>3, CurrentKeeps
  <2> HIDE DEF mid
  <2>5. Latest(tl) = now /\ FreshIn(World, tl, setting.mode)
    BY <1>1, <1>2, <2>4, ReconfiguredKeeps, ReconfiguredIsFresh
  <2> HIDE DEF tl
  <2>6. budget'[b].mode = new.mode
    BY <1>1, <2>1, <2>3 DEF BudgetRow
  <2>7. /\ timeline'[b] = tl
        /\ \A x \in BudgetIds : x # b => budget'[x] = budget[x] /\ timeline'[x] = timeline[x]
    BY <1>1, <2>1, <2>2
  <2> QED
    BY <1>1, <1>2, <2>1, <2>5, <2>6, <2>7, OneBudgetIsFresh
<1> QED
  BY <1>3, <1>4

\* reconcile_change.
LEMMA WriteIsFresh ==
    ASSUME BudgetsInv, LatestInv, NEW t \in Transactions, NEW row,
           NEW now \in Sampled, WriteTransaction(t, row, now)
    PROVE  LatestInv'
<1> DEFINE w == [World EXCEPT !.txn[t] = row]
           rows == {txn[t], row} \ {None}
           mid == Watched(Active, now)
<1>1. /\ UNCHANGED <<tree, budget, clock>> /\ txn' = [txn EXCEPT ![t] = row]
      /\ \A b \in Active : ~ Ahead(timeline[b], now)
      /\ \A b \in Budgeted : Frontiers(World, mid[b], rows, now) # {} => ~ Ahead(mid[b], now)
      /\ timeline' = [b \in BudgetIds |->
                        IF b \in Budgeted THEN Repaired(w, mid[b], rows, now) ELSE timeline[b]]
  BY DEF WriteTransaction, Emit
<1>2. w = World'
  BY <1>1 DEF World
<1>3. ASSUME NEW b \in Budgeted
      PROVE  Latest(timeline'[b]) <= clock /\ FreshIn(w, timeline'[b], budget[b].mode)
  <2> DEFINE tl == mid[b]
             new == Repaired(w, tl, rows, now)
             mode == budget[b].mode
  <2>1. b \in BudgetIds /\ now \in Periods /\ now <= clock /\ Shaped(timeline[b]) /\ TxnTyped
        /\ Latest(timeline[b]) <= clock /\ FreshIn(World, timeline[b], mode)
    BY TimelineOf, SampledBefore DEF Budgeted, BudgetsInv, RowsTyped, LatestInv
  <2>2. Shaped(tl) /\ Latest(tl) <= clock /\ FreshIn(World, tl, mode)
    <3>1. tl = IF b \in Active THEN Current(World, timeline[b], now) ELSE timeline[b]
      BY <2>1 DEF Watched
    <3> HIDE DEF tl, mode
    <3>2. CASE b \in Active
      BY <1>1, <2>1, <3>1, <3>2, CurrentKeeps, CurrentIsFresh
    <3>3. CASE b \notin Active
      BY <2>1, <3>1, <3>3
    <3> QED
      BY <3>2, <3>3
  <2>3. Frontiers(World, tl, rows, now) # {} => ~ Ahead(tl, now)
    BY <1>1
  <2>4. timeline'[b] = new
    BY <1>1, <2>1
  <2> HIDE DEF mid, tl, mode
  <2>5. FreshIn(w, new, mode) /\ Latest(new) \in {Latest(tl), now}
    BY <2>1, <2>2, <2>3, RepairedIsFresh
  <2> HIDE DEF new, w
  <2> QED
    BY <2>1, <2>2, <2>4, <2>5 DEF mode
<1> HIDE DEF w
<1> QED
  BY <1>1, <1>2, <1>3, WorldIsFresh

\* The writes of categories.
LEMMA RewrittenIsFresh ==
    ASSUME BudgetsInv, LatestInv, UNCHANGED <<budget, clock>>, NEW bs \in SUBSET Budgeted,
           NEW now \in Sampled, NEW w, w = World', Rewritten(w, bs, now),
           \A b \in Budgeted \ bs : \A q \in DOMAIN timeline[b].conf :
                 (timeline[b].conf[q] \in Setting /\ timeline[b].conf[q].mode = budget[b].mode)
                    => Alike(World, w, timeline[b].conf[q], q)
    PROVE  LatestInv'
<1> DEFINE mid == Watched(bs \cap Active, now)
<1>1. /\ \A b \in bs : ~ Ahead(timeline[b], now)
      /\ timeline' = [b \in BudgetIds |->
                        IF b \in bs THEN Ensured(w, Rebuilt(w, mid[b]), now) ELSE timeline[b]]
  BY DEF Rewritten, Emit
<1>2. ASSUME NEW b \in Budgeted
      PROVE  Latest(timeline'[b]) <= clock /\ FreshIn(w, timeline'[b], budget[b].mode)
  <2>1. b \in BudgetIds /\ now \in Periods /\ now <= clock /\ Shaped(timeline[b])
        /\ Latest(timeline[b]) <= clock /\ FreshIn(World, timeline[b], budget[b].mode)
    BY TimelineOf, SampledBefore DEF Budgeted, LatestInv
  <2>2. CASE b \in bs
    <3> DEFINE tl == mid[b]
               re == Rebuilt(w, tl)
    <3>1. timeline'[b] = Ensured(w, re, now)
      BY <1>1, <2>1, <2>2
    <3>2. /\ Shaped(tl) /\ FreshIn(World, tl, budget[b].mode) /\ ~ Ahead(tl, now)
      <4>1. tl = IF b \in Active THEN Current(World, timeline[b], now) ELSE timeline[b]
        BY <2>1, <2>2 DEF Watched
      <4> HIDE DEF tl
      <4>2. CASE b \in Active
        BY <1>1, <2>1, <2>2, <4>1, <4>2, CurrentKeeps, CurrentIsFresh
      <4>3. CASE b \notin Active
        BY <1>1, <2>1, <2>2, <4>1, <4>3
      <4> QED
        BY <4>2, <4>3
    <3> HIDE DEF mid, tl
    <3>3. /\ Latest(Ensured(w, re, now)) = now
      BY <2>1, <3>2, RewrittenKeeps
    <3>4. Shaped(re) /\ LatestMode(re) = LatestMode(tl) /\ Latest(re) = Latest(tl)
      BY <3>2, RebuiltIsFresh, RebuiltKeeps
    <3>5. ~ Ahead(re, now)
      BY <3>2, <3>4 DEF Ahead
    <3> HIDE DEF re
    <3>6. FreshIn(w, Ensured(w, re, now), LatestMode(re))
      BY <2>1, <3>4, <3>5, EnsuredIsFresh
    <3>7. LatestMode(re) = budget[b].mode
      BY <3>2, <3>4 DEF FreshIn, LatestMode
    <3> QED
      BY <2>1, <3>1, <3>3, <3>6, <3>7
  <2>3. CASE b \notin bs
    <3>1. timeline'[b] = timeline[b]
      BY <1>1, <2>1, <2>3
    <3> DEFINE q == Latest(timeline[b])
    <3>2. q \in DOMAIN timeline[b].conf /\ timeline[b].conf[q] \in Setting
      BY <2>1, BudgetsAssumption DEF Shaped, Configured, Periods
    <3>3. timeline[b].conf[q].mode = budget[b].mode
      BY <2>1 DEF FreshIn
    <3>4. Alike(World, w, timeline[b].conf[q], q)
      BY <2>3, <3>2, <3>3
    <3>5. FreshIn(w, timeline[b], budget[b].mode)
      BY <2>1, <3>4, AlikeIsFresh
    <3> QED
      BY <2>1, <3>1, <3>5
  <2> QED
    BY <2>2, <2>3
<1> QED
  BY <1>2, WorldIsFresh

\* activate_default_generation.
LEMMA ActivateIsFresh ==
    ASSUME BudgetsInv, LatestInv, NEW valued \in SUBSET Transactions,
           NEW now \in Sampled, ActivateDefault(valued, now)
    PROVE  LatestInv'
<1> DEFINE txns == [t \in Transactions |->
                       IF txn[t] = None THEN None ELSE [txn[t] EXCEPT !.valued = t \in valued]]
           w == [tree |-> tree, txn |-> txns]
<1>1. /\ \A b \in Active : ~ Ahead(timeline[b], now)
      /\ txn' = txns /\ UNCHANGED <<tree, budget, clock>>
      /\ timeline' = [b \in BudgetIds |->
                        IF b \notin Budgeted THEN timeline[b]
                        ELSE IF b \in Active THEN Current(w, Rebuilt(w, timeline[b]), now)
                        ELSE Rebuilt(w, timeline[b])]
  BY DEF ActivateDefault
<1>2. w = World'
  BY <1>1 DEF World
<1> HIDE DEF w
<1>3. ASSUME NEW b \in Budgeted
      PROVE  Latest(timeline'[b]) <= clock /\ FreshIn(w, timeline'[b], budget[b].mode)
  <2> DEFINE re == Rebuilt(w, timeline[b])
  <2>1. b \in BudgetIds /\ now \in Periods /\ now <= clock /\ Shaped(timeline[b])
        /\ Latest(timeline[b]) <= clock /\ FreshIn(World, timeline[b], budget[b].mode)
    BY TimelineOf, SampledBefore DEF Budgeted, LatestInv
  <2>2. timeline'[b] = IF b \in Active THEN Current(w, re, now) ELSE re
    BY <1>1, <2>1
  <2>3. Shaped(re) /\ FreshIn(w, re, LatestMode(timeline[b])) /\ Latest(re) = Latest(timeline[b])
    BY <2>1, RebuiltIsFresh, RebuiltKeeps
  <2>4. FreshIn(w, re, budget[b].mode)
    BY <2>1, <2>3 DEF FreshIn, LatestMode
  <2> HIDE DEF re
  <2>5. CASE b \in Active
    <3>1. ~ Ahead(re, now)
      BY <1>1, <2>3, <2>5 DEF Ahead
    <3>2. Latest(Current(w, re, now)) = now /\ FreshIn(w, Current(w, re, now), budget[b].mode)
      BY <2>1, <2>3, <2>4, <3>1, CurrentKeeps, CurrentIsFresh
    <3> QED
      BY <2>1, <2>2, <2>5, <3>2
  <2>6. CASE b \notin Active
    BY <2>1, <2>2, <2>3, <2>4, <2>6
  <2> QED
    BY <2>5, <2>6
<1> QED
  BY <1>1, <1>2, <1>3, WorldIsFresh

\* Every step keeps the latest results fresh.
LEMMA NextIsFresh == BudgetsInv /\ LatestInv /\ [Next]_vars => LatestInv'
<1> SUFFICES ASSUME BudgetsInv, LatestInv, [Next]_vars
             PROVE  LatestInv'
  OBVIOUS
<1>1. ASSUME NEW c \in Categories, NEW p \in Categories \cup {None}, NEW role \in Roles,
             CreateCategory(c, p, role)
      PROVE  LatestInv'
  <2> DEFINE row == Placed(p, role, TRUE)
             w == [tree |-> [tree EXCEPT ![c] = row], txn |-> txn]
  <2>1. /\ MayCreate(c, p) /\ tree' = [tree EXCEPT ![c] = row]
        /\ UNCHANGED <<txn, budget, timeline, clock>>
    BY <1>1 DEF CreateCategory
  <2>2. TreeTyped /\ TxnTyped /\ TwoLevelsOneRole /\ Filed
    BY DEF BudgetsInv, RowsTyped
  <2>3. World' = w
    BY <2>1 DEF World
  <2>4. \A s \in Setting : \A q : Alike(World, w, s, q)
    <3>1. tree[c] = None
      BY <2>1 DEF MayCreate
    <3> HIDE DEF row
    <3> QED
      BY <2>2, <3>1, CreatedIsAlike
  <2> HIDE DEF w
  <2>5. ASSUME NEW b \in Budgeted
        PROVE  Latest(timeline'[b]) <= clock /\ FreshIn(World', timeline'[b], budget[b].mode)
    <3>1. /\ Shaped(timeline[b]) /\ Latest(timeline[b]) <= clock
          /\ FreshIn(World, timeline[b], budget[b].mode)
      BY DEF BudgetsInv, Timelines, LatestInv
    <3>2. timeline[b].conf[Latest(timeline[b])] \in Setting
      BY <3>1, BudgetsAssumption DEF Shaped, Configured, Periods
    <3>3. Alike(World, w, timeline[b].conf[Latest(timeline[b])], Latest(timeline[b]))
      BY <2>4, <3>2
    <3>4. FreshIn(w, timeline[b], budget[b].mode)
      BY <3>1, <3>3, AlikeIsFresh
    <3> QED
      BY <2>1, <2>3, <3>1, <3>4
  <2> QED
    BY <2>1, <2>5, WorldIsFresh
<1>2. ASSUME NEW c \in Categories, NEW p \in Categories \cup {None}, NEW role \in Roles,
             NEW now \in Sampled, UpdateCategory(c, p, role, now)
      PROVE  LatestInv'
  <2> DEFINE v == Updated(c, p, role)
             w == [tree |-> v, txn |-> txn]
             bs == AffectedByUpdate(c, p, v[c].role)
  <2>1. /\ MayPlace(c, p) /\ tree' = v /\ Rewritten(w, bs, now)
        /\ UNCHANGED <<txn, budget, clock>>
    BY <1>2 DEF UpdateCategory
  <2>2. w = World'
    BY <2>1 DEF World
  <2>3. bs \in SUBSET Budgeted
    BY DEF AffectedByUpdate
  <2>4. ASSUME NEW b \in Budgeted \ bs, NEW q \in DOMAIN timeline[b].conf,
               timeline[b].conf[q] \in Setting, timeline[b].conf[q].mode = budget[b].mode
        PROVE  Alike(World, w, timeline[b].conf[q], q)
    BY <2>1, <2>4, UpdatePassesBy
  <2> HIDE DEF w, bs, v
  <2> QED
    BY <2>1, <2>2, <2>3, <2>4, RewrittenIsFresh
<1>3. ASSUME NEW ids \in SUBSET Live \ {{}}, NEW strategy \in Strategies, NEW now \in Sampled,
             DeleteCategories(ids, strategy, now)
      PROVE  LatestInv'
  <2> DEFINE doomed == Doomed(ids, strategy)
             v == Removed(ids, strategy)
             txns == Unfiled(doomed)
             w == [tree |-> v, txn |-> txns]
             bs == AffectedByDeletion(doomed)
  <2>1. /\ tree' = v /\ txn' = txns /\ Rewritten(w, bs, now)
        /\ UNCHANGED <<budget, clock>>
    BY <1>3 DEF DeleteCategories, Unfiled
  <2>2. w = World'
    BY <2>1 DEF World
  <2>3. bs \in SUBSET Budgeted
    BY DEF AffectedByDeletion
  <2>4. ASSUME NEW b \in Budgeted \ bs, NEW q \in DOMAIN timeline[b].conf,
               timeline[b].conf[q] \in Setting, timeline[b].conf[q].mode = budget[b].mode
        PROVE  Alike(World, w, timeline[b].conf[q], q)
    BY <2>4, DeletionPassesBy
  <2> HIDE DEF w, bs, v, txns
  <2> QED
    BY <2>1, <2>2, <2>3, <2>4, RewrittenIsFresh
<1>4. ASSUME NEW t \in Transactions, NEW row, NEW now \in Sampled, WriteTransaction(t, row, now)
      PROVE  LatestInv'
  BY <1>4, WriteIsFresh
<1>5. ASSUME NEW valued \in SUBSET Transactions, NEW now \in Sampled, ActivateDefault(valued, now)
      PROVE  LatestInv'
  BY <1>5, ActivateIsFresh
<1>6. ASSUME NEW b \in BudgetIds, DeleteBudget(b) PROVE LatestInv'
  <2>1. /\ UNCHANGED <<tree, txn, timeline, clock>> /\ b \in Budgeted
        /\ budget' = [budget EXCEPT ![b].deleted = TRUE]
    BY <1>6 DEF DeleteBudget
  <2>2. budget \in [BudgetIds -> BudgetRow \cup {None}] /\ budget[b] \in BudgetRow
    BY <2>1, BudgetRows DEF BudgetsInv, RowsTyped
  <2>3. budget'[b].deleted /\ \A x \in BudgetIds : x # b => budget'[x] = budget[x]
    BY <2>1, <2>2 DEF BudgetRow
  <2>4. b \notin Budgeted'
    BY <2>3 DEF Budgeted
  <2> QED
    BY <2>1, <2>3, <2>4, OneBudgetIsFresh
<1>7. ASSUME NEW b \in BudgetIds, NEW now \in Sampled,
             ReadBudget(b, now) \/ PauseBudget(b, now) \/ ResumeBudget(b, now)
      PROVE  LatestInv'
  BY <1>7, AdvanceIsFresh
<1>8. ASSUME NEW b \in BudgetIds, NEW now \in Sampled, NEW s \in Settings,
             CreateBudget(b, s, now) \/ UpdateBudget(b, s, now)
      PROVE  LatestInv'
  BY <1>8, ConfiguringIsFresh
<1>9. CASE Tick
  <2>1. /\ UNCHANGED <<tree, txn, budget, timeline>> /\ clock' = clock + 1 /\ clock' \in Periods
    BY <1>9, BudgetsAssumption DEF Tick, LatestInv, Periods
  <2>2. Budgeted' = Budgeted /\ World' = World
    BY <2>1 DEF Budgeted, World
  <2>3. ASSUME NEW b \in Budgeted PROVE Latest(timeline[b]) <= clock + 1
    <3>1. Latest(timeline[b]) \in Periods
      BY DEF BudgetsInv, Timelines, Shaped, Configured
    <3>2. clock \in Periods /\ Latest(timeline[b]) <= clock
      BY DEF LatestInv
    <3> QED
      BY <3>1, <3>2, BudgetsAssumption DEF Periods
  <2> QED
    BY <2>1, <2>2, <2>3, Zenon DEF LatestInv
<1>10. CASE UNCHANGED vars
  <2>1. UNCHANGED <<budget, clock, timeline>> /\ World' = World
    BY <1>10 DEF vars, World
  <2> QED
    BY <2>1, WorldIsFresh, Zenon DEF LatestInv
<1> QED
  BY <1>1, <1>2, <1>3, <1>4, <1>5, <1>6, <1>7, <1>8, <1>9, <1>10, Zenon DEF Next

-----------------------------------------------------------------------------
(* Forecasts.                                                                  *)

\* Every transaction of a period is valued.
Complete(w, setting, p) == \A t \in Matching(w, setting, p) : w.txn[t].valued

\* What is calculated of a period, in terms of it.
LEMMA CalculatedIs ==
    ASSUME NEW w, NEW conf, NEW p, NEW before
    PROVE  Calculated(w, conf, p, before) =
                PeriodResult(conf[p], Spending(w, conf[p], p), Complete(w, conf[p], p), before,
                             IF p - 1 \in DOMAIN conf THEN conf[p - 1].allowance ELSE 0)
  BY DEF Calculated, Complete

\* A row that is projected counts what it would as a transaction; no row counts nothing.
LEMMA DeltaIs ==
    ASSUME NEW setting, NEW p, NEW row
    PROVE  /\ Delta(setting, {}, p) = 0
           /\ Delta(setting, {row}, p) =
                IF row.period = p /\ InScope(World, setting.scope, row)
                THEN Contribution(World, setting, row) ELSE 0
<1> DEFINE A(x) == Contribution(World, setting, x)
           val == [x \in {row} |-> A(x)]
           In(projected) == {x \in projected : x.period = p /\ InScope(World, setting.scope, x)}
<1>1. ASSUME NEW projected \in SUBSET {row}
      PROVE  Delta(setting, projected, p) = SumOf(val, In(projected))
  <2> DEFINE S == In(projected)
             pick(s) == CHOOSE x \in s : TRUE
             F(f) == [s \in SUBSET S |-> IF s = {} THEN 0 ELSE A(pick(s)) + f[s \ {pick(s)}]]
             G(f) == [s \in SUBSET S |-> IF s = {} THEN 0 ELSE val[Pick(s)] + f[s \ {Pick(s)}]]
  <2>1. \A x \in S : A(x) = val[x]
    OBVIOUS
  <2>2. \A f : F(f) = G(f)
    <3> HIDE DEF S, A, val
    <3>1. \A s : Pick(s) = pick(s)
      BY DEF Pick
    <3>2. \A s \in SUBSET S : s # {} => A(pick(s)) = val[Pick(s)]
      BY <2>1, <3>1
    <3> HIDE DEF pick
    <3> QED
      BY <3>1, <3>2
  <2>3. (CHOOSE f : f = F(f)) = (CHOOSE f : f = G(f))
    <3> HIDE DEF F, G
    <3> QED
      BY <2>2
  <2>4. Delta(setting, projected, p) = (CHOOSE f : f = F(f))[S]
    BY DEF Delta, MapThenSumSet, MapThenFoldSet
  <2>5. SumOf(val, S) = (CHOOSE f : f = G(f))[S]
    BY DEF SumOf, Sums
  <2> QED
    BY <2>3, <2>4, <2>5
<1>2. IsFiniteSet({row}) /\ IsFiniteSet({})
  BY FS_EmptySet, FS_Singleton
<1>3. SumOf(val, {}) = 0
  BY <1>2, SumIs
<1>4. val \in [{row} -> Int] /\ val[row] = A(row) /\ A(row) \in Int
  BY ContributionIsInt
<1>5. SumOf(val, {row}) = A(row)
  <2> HIDE DEF val, A
  <2>1. row \in {row} \ {} /\ {} \cup {row} = {row} /\ {} \in SUBSET {row}
    OBVIOUS
  <2>2. SumOf(val, {} \cup {row}) = SumOf(val, {}) + val[row]
    BY <1>2, <1>4, <2>1, SumAdds
  <2> QED
    BY <1>3, <1>4, <2>1, <2>2
<1>6. In({}) = {} /\ In({row}) = IF row.period = p /\ InScope(World, setting.scope, row) THEN {row} ELSE {}
  OBVIOUS
<1>7. {} \in SUBSET {row} /\ {row} \in SUBSET {row}
  OBVIOUS
<1>8. Delta(setting, {}, p) = SumOf(val, In({})) /\ Delta(setting, {row}, p) = SumOf(val, In({row}))
  BY <1>1, <1>7
<1> HIDE DEF val, In
<1> QED
  BY <1>3, <1>5, <1>6, <1>8

\* A new transaction in a period adds what it was projected to.
LEMMA SpendingGrows ==
    ASSUME TxnTyped, NEW t \in Transactions, NEW row, row # None, txn[t] = None,
           NEW setting, NEW p
    PROVE  Spending(Written(t, row), setting, p) =
                Spending(World, setting, p) + Delta(setting, {row}, p)
<1> DEFINE w == Written(t, row)
           M == Matching(World, setting, p)
           counts == row.period = p /\ InScope(World, setting.scope, row)
           c == Contributions(World, setting)
           d == Contributions(w, setting)
<1>1. /\ w.tree = tree /\ World.tree = tree /\ World.txn = txn
      /\ w.txn[t] = row /\ \A u \in Transactions : u # t => w.txn[u] = txn[u]
  BY DEF Written, World, TxnTyped
<1> HIDE DEF w
<1>2. Matching(w, setting, p) = M \cup (IF counts THEN {t} ELSE {})
  BY <1>1 DEF Matching, InScope
<1>3. t \notin M /\ M \in SUBSET Transactions
  BY <1>1 DEF Matching
<1>4. \A r : Contribution(w, setting, r) = Contribution(World, setting, r)
  BY <1>1 DEF Contribution
<1>5. d[t] = Contribution(World, setting, row) /\ \A u \in M : d[u] = c[u]
  BY <1>1, <1>3, <1>4 DEF Contributions
<1>6. d \in [Transactions -> Int] /\ IsFiniteSet(Transactions)
  BY ContributionIsInt, BudgetsAssumption DEF Contributions
<1>7. Spending(w, setting, p) = SumOf(d, Matching(w, setting, p)) /\ Spending(World, setting, p) = SumOf(c, M)
  BY SpendingIsSum
<1> HIDE DEF c, d, M, counts
<1>8. SumOf(d, M) = SumOf(c, M)
  BY <1>5, SumAlike
<1>9. SumOf(d, M) \in Int
  BY <1>3, <1>6, SumIsInt
<1>10. Delta(setting, {row}, p) = IF counts THEN Contribution(World, setting, row) ELSE 0
  BY DeltaIs DEF counts
<1>11. CASE counts
  <2>1. SumOf(d, M \cup {t}) = SumOf(d, M) + d[t]
    BY <1>3, <1>6, SumAdds
  <2> QED
    BY <1>2, <1>5, <1>7, <1>8, <1>10, <1>11, <2>1 DEF w
<1>12. CASE ~ counts
  <2>1. Matching(w, setting, p) = M
    BY <1>2, <1>12
  <2> QED
    BY <1>7, <1>8, <1>9, <1>10, <1>12, <2>1 DEF w
<1> QED
  BY <1>11, <1>12

\* next is what the current result becomes with more spending, from its own seed.
Carries(setting, current, more, next) ==
    PeriodResult(setting, current.spending + more, current.complete, Seed(setting, current),
                 current.effective - setting.allowance) = next

\* seed_previous_for_current: the stored result of the current period carries over to what is
\* forecast of it, whatever it was calculated from.
LEMMA SeedCarries ==
    ASSUME NEW setting \in Setting, NEW spent \in Int, NEW more \in Int, NEW complete \in BOOLEAN,
           NEW before \in Result \cup {NoResult}, NEW allowed \in Int
    PROVE  Carries(setting, PeriodResult(setting, spent, complete, before, allowed), more,
                   PeriodResult(setting, spent + more, complete, before, allowed))
<1> DEFINE current == PeriodResult(setting, spent, complete, before, allowed)
           seed == Seed(setting, current)
           carry == Carry(setting.rollover, before, allowed)
           effective == setting.allowance + carry
<1>1. setting.allowance \in Int /\ setting.rollover \in Rollovers
  BY DEF Setting
<1>2. carry \in Int
  <2>1. before.spending \in Int /\ before.remaining \in Int
    BY DEF Result, NoResult
  <2> QED
    BY <2>1 DEF Carry
<1>3. effective - setting.allowance = carry /\ effective \in Int
  BY <1>1, <1>2
<1>4. CASE ~ complete \/ (setting.rollover # "off" /\ ~ before.complete)
  <2>1. current = [complete |-> FALSE, spending |-> spent, remaining |-> 0, effective |-> 0,
                   status |-> "incomplete"]
    BY <1>4 DEF PeriodResult
  <2>2. ~ current.complete /\ current.spending = spent
    BY <2>1
  <2> HIDE DEF current
  <2> QED
    BY <1>4, <2>2 DEF PeriodResult, Carries, current
<1>5. CASE ~ (~ complete \/ (setting.rollover # "off" /\ ~ before.complete))
  <2>1. current = [complete |-> TRUE, spending |-> spent, remaining |-> effective - spent,
                   effective |-> effective, status |-> StatusOf(spent, effective)]
    BY <1>5 DEF PeriodResult
  <2>2. /\ current.complete /\ current.spending = spent /\ current.effective = effective
        /\ current.status # "none"
    BY <2>1 DEF StatusOf
  <2>3. /\ seed.complete /\ seed.status # "none" /\ seed.remaining = carry /\ seed.spending = 0
    BY <1>3, <2>2 DEF Seed, NoResult
  <2>4. Carry(setting.rollover, seed, current.effective - setting.allowance) = carry
    <3>1. CASE setting.rollover = "off"
      BY <3>1 DEF Carry
    <3>2. CASE setting.rollover = "previous"
      BY <1>2, <1>3, <2>2, <2>3, <3>2 DEF Carry
    <3>3. CASE setting.rollover = "cumulative"
      BY <1>2, <1>3, <2>2, <2>3, <3>3 DEF Carry
    <3> QED
      BY <1>1, <3>1, <3>2, <3>3 DEF Rollovers
  <2> HIDE DEF current, seed, carry, effective
  <2>5. PeriodResult(setting, current.spending + more, current.complete, seed, current.effective - setting.allowance)
          = PeriodResult(setting, spent + more, complete, before, allowed)
    BY <1>5, <2>2, <2>3, <2>4 DEF PeriodResult, carry
  <2> QED
    BY <2>5 DEF current, seed, Carries
<1> QED
  BY <1>4, <1>5

\* The recursion of ForecastPeriods.
Forecast(b, projected, now, p, before) ==
    LET setting == timeline[b].conf[now]
        current == timeline[b].res[now]
    IN PeriodResult(setting, Actual(b, p, now) + Delta(setting, projected, p),
                    current.complete \/ p # now,
                    IF p = now THEN Seed(setting, current) ELSE before,
                    IF p = now THEN current.effective - setting.allowance ELSE setting.allowance)

Forecasts(g, b, projected, now) ==
    \A p \in now..MaxPeriod : g[p] = Forecast(b, projected, now, p, g[p - 1])

\* There is one forecast.
LEMMA ForecastIs ==
    ASSUME NEW b, NEW projected, NEW now \in Nat, NEW g, Forecasts(g, b, projected, now),
           NEW p \in now..MaxPeriod
    PROVE  ForecastPeriods(b, projected, now)[p] = g[p]
<1> DEFINE setting == timeline[b].conf[now]
           current == timeline[b].res[now]
           R(f) == [q \in now..MaxPeriod |->
                PeriodResult(setting, Actual(b, q, now) + Delta(setting, projected, q),
                             current.complete \/ q # now,
                             IF q = now THEN Seed(setting, current) ELSE f[q - 1],
                             IF q = now THEN current.effective - setting.allowance
                             ELSE setting.allowance)]
           f == CHOOSE f : f = R(f)
           h == [q \in now..MaxPeriod |-> g[q]]
<1>1. ForecastPeriods(b, projected, now) = f
  BY DEF ForecastPeriods
<1>2. \A x : R(x) = [q \in now..MaxPeriod |-> Forecast(b, projected, now, q, x[q - 1])]
  BY DEF Forecast
<1> HIDE DEF R
<1>3. ASSUME NEW q \in now..MaxPeriod, NEW x, NEW y, q # now => x = y
      PROVE  Forecast(b, projected, now, q, x) = Forecast(b, projected, now, q, y)
  BY <1>3 DEF Forecast
<1>4. h = R(h)
  <2>1. ASSUME NEW q \in now..MaxPeriod
        PROVE  g[q] = Forecast(b, projected, now, q, h[q - 1])
    <3>1. q # now => q - 1 \in now..MaxPeriod
      BY BudgetsAssumption
    <3>2. q # now => h[q - 1] = g[q - 1]
      BY <3>1
    <3> HIDE DEF h
    <3> QED
      BY <1>3, <3>2 DEF Forecasts
  <2> QED
    BY <1>2, <2>1
<1>5. f = R(f)
  <2> HIDE DEF h
  <2> QED
    BY <1>4
<1> HIDE DEF f, h
<1> DEFINE T == {q \in now..MaxPeriod : f[q] # g[q]}
<1>6. ASSUME T # {} PROVE FALSE
  <2>1. T \subseteq Nat
    BY BudgetsAssumption
  <2>2. PICK q \in T : \A x \in T : q <= x
    BY <1>6, <2>1, LeastElement
  <2>3. q \in now..MaxPeriod /\ f[q] # g[q]
    BY <2>2
  <2>4. q # now => f[q - 1] = g[q - 1]
    <3>1. q # now => q - 1 \in now..MaxPeriod
      BY <2>3, BudgetsAssumption
    <3>2. q - 1 \notin T
      BY <2>1, <2>2
    <3> QED
      BY <3>1, <3>2
  <2>5. f[q] = Forecast(b, projected, now, q, f[q - 1])
    BY <1>2, <1>5, <2>3
  <2>6. g[q] = Forecast(b, projected, now, q, g[q - 1])
    BY <2>3 DEF Forecasts
  <2> QED
    BY <1>3, <2>3, <2>4, <2>5, <2>6
<1> QED
  BY <1>1, <1>6

\* The rows that ForecastIsKept generates: one that exists, or a valued one.
Generated(t, row) ==
    /\ row \in TransactionRow
    /\ IF txn[t] # None THEN row = txn[t] ELSE row.valued

\* What is spent in a world with the generated row, and what is complete in it.
LEMMA GeneratedCounts ==
    ASSUME TxnTyped, NEW t \in Transactions, NEW row, Generated(t, row), NEW setting, NEW p
    PROVE  /\ Spending(Written(t, row), setting, p) =
                Spending(World, setting, p) + Delta(setting, {row} \ {txn[t]}, p)
           /\ Delta(setting, {row} \ {txn[t]}, p) \in Int
           /\ Complete(Written(t, row), setting, p) <=> Complete(World, setting, p)
<1>1. row # None
  BY BudgetsAssumption DEF Generated
<1>2. CASE txn[t] # None
  <2>1. Written(t, row) = World /\ {row} \ {txn[t]} = {}
    BY <1>2 DEF Generated, Written, World, TxnTyped
  <2>2. Spending(World, setting, p) \in Int
    BY SpendingIsInt
  <2>3. Delta(setting, {row} \ {txn[t]}, p) = 0
    BY <2>1, DeltaIs, Zenon
  <2>4. Spending(World, setting, p) = Spending(World, setting, p) + 0 /\ 0 \in Int
    BY <2>2
  <2> QED
    BY <2>1, <2>3, <2>4, Zenon
<1>3. CASE txn[t] = None
  <2>1. {row} \ {txn[t]} = {row}
    BY <1>1, <1>3
  <2>2. Spending(Written(t, row), setting, p) = Spending(World, setting, p) + Delta(setting, {row}, p)
    BY <1>1, <1>3, SpendingGrows
  <2>3. Delta(setting, {row}, p) \in Int
    <3>1. Delta(setting, {row}, p) = IF row.period = p /\ InScope(World, setting.scope, row)
                                     THEN Contribution(World, setting, row) ELSE 0
      BY DeltaIs, Zenon
    <3>2. Contribution(World, setting, row) \in Int
      BY ContributionIsInt
    <3> HIDE DEF Delta, Contribution, InScope, World
    <3> QED
      BY <3>1, <3>2
  <2>4. /\ Written(t, row).tree = tree /\ World.tree = tree /\ World.txn = txn
        /\ Written(t, row).txn[t] = row
        /\ \A u \in Transactions : u # t => Written(t, row).txn[u] = txn[u]
    BY DEF Written, World, TxnTyped
  <2>5. row.valued
    BY <1>3 DEF Generated
  <2>6. \A u \in Transactions : u # t =>
            (u \in Matching(Written(t, row), setting, p) <=> u \in Matching(World, setting, p))
    BY <2>4 DEF Matching, InScope
  <2>7. t \notin Matching(World, setting, p)
    BY <1>3, <2>4 DEF Matching
  <2>8. /\ Matching(Written(t, row), setting, p) \subseteq Transactions
        /\ Matching(World, setting, p) \subseteq Transactions
    BY DEF Matching
  <2>9. Complete(Written(t, row), setting, p) <=> Complete(World, setting, p)
    BY <2>4, <2>5, <2>6, <2>7, <2>8, Zenon DEF Complete
  <2> QED
    BY <2>1, <2>2, <2>3, <2>9
<1> QED
  BY <1>2, <1>3

\* new is the timeline recalculated from a period on: the one before up to there, and what
\* follows from it.
IsAdvanced(w, tl, from, to, new) ==
    /\ Shaped(new) /\ First(new) = First(tl) /\ Latest(new) = to
    /\ \A p \in First(tl)..Latest(tl) : new.conf[p] = tl.conf[p]
    /\ \A p \in First(tl)..to : p > Latest(tl) => new.conf[p] = tl.conf[Latest(tl)]
    /\ \A p \in First(tl)..(from - 1) : new.res[p] = tl.res[p]
    /\ \A p \in from..to : Follows(w, new, p)

\* Recalculated does that.
LEMMA RecalculatedIsAdvanced ==
    ASSUME NEW w, NEW tl, Configured(tl),
           NEW from \in First(tl)..Latest(tl), NEW to \in Periods, Latest(tl) <= to,
           DOMAIN tl.res \subseteq First(tl)..to, HasBefore(tl, from)
    PROVE  IsAdvanced(w, tl, from, to, Recalculated(w, tl, from, to))
<1> DEFINE new == Recalculated(w, tl, from, to)
<1>1. /\ Shaped(new) /\ First(new) = First(tl) /\ Latest(new) = to
      /\ \A p \in First(tl)..Latest(tl) : new.conf[p] = tl.conf[p]
      /\ \A p \in First(tl)..to : p > Latest(tl) => new.conf[p] = tl.conf[Latest(tl)]
      /\ \A p \in First(tl)..(from - 1) : new.res[p] = tl.res[p]
      /\ \A p \in from..to : Follows(w, new, p)
  BY RecalculatedFollows
<1> HIDE DEF new
<1> QED
  BY <1>1 DEF IsAdvanced, new

\* Recalculating a timeline that is fresh from its latest period on comes to what is forecast,
\* period by period.
LEMMA KeptIsForecast ==
    ASSUME TxnTyped, NEW b, Shaped(timeline[b]), NEW mode, FreshIn(World, timeline[b], mode),
           NEW now \in Nat, Latest(timeline[b]) = now,
           NEW t \in Transactions, NEW row, Generated(t, row),
           \A u \in Transactions :
                Written(t, row).txn[u] # None /\ Written(t, row).txn[u].period > now
                    => Written(t, row).txn[u].valued
    PROVE  Forecasts(Recalculated(Written(t, row), timeline[b], now, MaxPeriod).res,
                     b, {row} \ {txn[t]}, now)
<1> DEFINE tl == timeline[b]
           w == Written(t, row)
           new == Recalculated(w, tl, now, MaxPeriod)
           projected == {row} \ {txn[t]}
           S == tl.conf[now]
           current == tl.res[now]
           a == First(tl)
<1>1. /\ a \in Nat /\ a <= now /\ now <= MaxPeriod /\ MaxPeriod \in Nat /\ MaxPeriod \in Periods
      /\ now \in a..now /\ tl.conf \in [a..now -> Setting] /\ tl.res \in [a..now -> Result]
  BY BudgetsAssumption DEF Shaped, Configured, Periods
<1>2. /\ Shaped(new) /\ First(new) = a /\ Latest(new) = MaxPeriod
      /\ \A p \in a..now : new.conf[p] = tl.conf[p]
      /\ \A p \in a..MaxPeriod : p > now => new.conf[p] = S
      /\ \A p \in a..(now - 1) : new.res[p] = tl.res[p]
      /\ \A p \in now..MaxPeriod : Follows(w, new, p)
  <2>1. /\ Configured(tl) /\ now \in First(tl)..Latest(tl) /\ Latest(tl) <= MaxPeriod
        /\ DOMAIN tl.res \subseteq First(tl)..MaxPeriod
    BY <1>1 DEF Shaped
  <2>2. HasBefore(tl, now)
    BY <2>1, ShapedHasBefore
  <2>3. MaxPeriod \in Periods
    BY <1>1
  <2>4. IsAdvanced(w, tl, now, MaxPeriod, new)
    <3> HIDE DEF w, tl
    <3> QED
      BY <2>1, <2>2, <2>3, RecalculatedIsAdvanced
  <2> QED
    BY <2>4 DEF IsAdvanced
<1>3. \A setting, p :
        /\ Spending(w, setting, p) = Spending(World, setting, p) + Delta(setting, projected, p)
        /\ Delta(setting, projected, p) \in Int
        /\ Complete(w, setting, p) <=> Complete(World, setting, p)
  BY GeneratedCounts
<1>4. ASSUME NEW setting, NEW p \in (now + 1)..MaxPeriod
      PROVE  Complete(w, setting, p)
  <2>1. \A u \in Matching(w, setting, p) : u \in Transactions /\ w.txn[u] # None /\ w.txn[u].period = p
    BY DEF Matching
  <2>2. p > now
    OBVIOUS
  <2> HIDE DEF w
  <2> QED
    BY <2>1, <2>2 DEF w, Complete
<1>5. current = Calculated(World, tl.conf, now, Before(tl, now))
  BY DEF FreshIn, Follows
<1>6. Before(tl, now) \in Result \cup {NoResult}
  <2>1. now # a => now - 1 \in a..now
    BY <1>1
  <2> QED
    BY <1>1, <2>1 DEF Before
<1>7. S \in Setting
  BY <1>1
<1>8. DOMAIN tl.conf = a..now
  BY <1>1
<1> HIDE DEF tl, w, new, projected, S, current, a
<1>9. DOMAIN new.conf = a..MaxPeriod
  BY <1>2 DEF Shaped, Configured
<1>10. \A p \in now..MaxPeriod : new.conf[p] = S
  BY <1>1, <1>2 DEF S
<1>11. new.res[now] = Forecast(b, projected, now, now, new.res[now - 1])
  <2> DEFINE spent == Spending(World, S, now)
             more == Delta(S, projected, now)
             complete == Complete(World, S, now)
             before == Before(tl, now)
             allowed == IF now - 1 \in a..now THEN tl.conf[now - 1].allowance ELSE 0
  <2>1. spent \in Int /\ more \in Int
    BY <1>3, SpendingIsInt
  <2>2. allowed \in Int
    BY <1>1 DEF Setting
  <2>3. Before(new, now) = before
    <3>1. now # a => now - 1 \in a..(now - 1)
      BY <1>1
    <3> QED
      BY <1>2, <3>1 DEF Before, a
  <2>4. current = PeriodResult(S, spent, complete, before, allowed)
    BY <1>5, <1>8, CalculatedIs DEF S
  <2>5. new.res[now] = PeriodResult(S, Spending(w, S, now), Complete(w, S, now), Before(new, now),
                            IF now - 1 \in DOMAIN new.conf THEN new.conf[now - 1].allowance ELSE 0)
    <3>1. now \in now..MaxPeriod
      BY <1>1
    <3> QED
      BY <1>2, <1>10, <3>1, CalculatedIs DEF Follows
  <2>6. (IF now - 1 \in DOMAIN new.conf THEN new.conf[now - 1].allowance ELSE 0) = allowed
    <3>1. now - 1 \in a..MaxPeriod <=> now - 1 \in a..now
      BY <1>1
    <3> QED
      BY <1>2, <1>9, <3>1
  <2>7. Spending(w, S, now) = spent + more
    BY <1>3
  <2>8. Complete(w, S, now) <=> complete
    BY <1>3
  <2>9. new.res[now] = PeriodResult(S, spent + more, complete, before, allowed)
    <3> HIDE DEF spent, more, complete, before, allowed
    <3>1. new.res[now] = PeriodResult(S, spent + more, Complete(w, S, now), before, allowed)
      BY <2>3, <2>5, <2>6, <2>7
    <3> QED
      BY <2>8, <3>1 DEF PeriodResult
  <2>10. current.spending = spent
    <3> HIDE DEF spent, complete, before, allowed
    <3> QED
      BY <2>4 DEF PeriodResult
  <2>11. Carries(S, current, more, PeriodResult(S, spent + more, complete, before, allowed))
    <3>1. complete \in BOOLEAN /\ before \in Result \cup {NoResult}
      BY <1>6 DEF Complete
    <3> HIDE DEF spent, more, complete, before, allowed
    <3> QED
      BY <1>7, <2>1, <2>2, <2>4, <3>1, SeedCarries
  <2>12. Actual(b, now, now) = current.spending
    BY DEF Actual, current, tl
  <2>13. Forecast(b, projected, now, now, new.res[now - 1]) =
            PeriodResult(S, current.spending + more, current.complete \/ now # now,
                         Seed(S, current), current.effective - S.allowance)
    BY <2>12 DEF Forecast, S, current, tl
  <2>14. PeriodResult(S, current.spending + more, current.complete \/ now # now,
                      Seed(S, current), current.effective - S.allowance)
          = PeriodResult(S, current.spending + more, current.complete,
                      Seed(S, current), current.effective - S.allowance)
    BY DEF PeriodResult
  <2> HIDE DEF spent, more, complete, before, allowed
  <2> QED
    BY <2>9, <2>11, <2>13, <2>14 DEF Carries
<1>12. ASSUME NEW p \in (now + 1)..MaxPeriod
       PROVE  new.res[p] = Forecast(b, projected, now, p, new.res[p - 1])
  <2>1. p \in now..MaxPeriod /\ p # now /\ p # a /\ p - 1 \in now..MaxPeriod /\ p - 1 \in a..MaxPeriod
    BY <1>1
  <2>2. new.res[p] = PeriodResult(S, Spending(w, S, p), Complete(w, S, p),
                         new.res[p - 1], S.allowance)
    <3>1. new.conf[p] = S /\ new.conf[p - 1] = S /\ p - 1 \in DOMAIN new.conf
      BY <1>9, <1>10, <2>1
    <3>2. new.res[p] = Calculated(w, new.conf, p, new.res[p - 1])
      BY <1>2, <2>1 DEF Follows, Before
    <3> QED
      BY <3>1, <3>2, CalculatedIs
  <2>3. Complete(w, S, p)
    BY <1>4
  <2>4. Spending(w, S, p) = Actual(b, p, now) + Delta(S, projected, p)
    BY <1>3, <2>1 DEF Actual, S, tl
  <2>5. Forecast(b, projected, now, p, new.res[p - 1]) =
            PeriodResult(S, Actual(b, p, now) + Delta(S, projected, p), current.complete \/ p # now,
                         new.res[p - 1], S.allowance)
    BY <2>1 DEF Forecast, S, current, tl
  <2> QED
    BY <2>1, <2>2, <2>3, <2>4, <2>5 DEF PeriodResult
<1>13. \A p \in now..MaxPeriod : p = now \/ p \in (now + 1)..MaxPeriod
  BY <1>1
<1> QED
  BY <1>11, <1>12, <1>13 DEF Forecasts, new, w, tl, projected

\* A forecast of a fresh timeline is kept.
LEMMA FreshForecastIsKept ==
    ASSUME BudgetsInv, LatestInv, NEW b \in Active, clock \in DOMAIN timeline[b].conf,
           NEW t \in Transactions, NEW row \in Projectable(t), ~ PendingLater(Written(t, row))
    PROVE  ForecastKept(b, t, row)
<1>1. b \in Budgeted /\ Shaped(timeline[b]) /\ TxnTyped
  BY DEF Active, BudgetsInv, Timelines, RowsTyped
<1>2. FreshIn(World, timeline[b], budget[b].mode) /\ clock \in Nat
  BY <1>1, BudgetsAssumption DEF LatestInv, Periods
<1>3. Latest(timeline[b]) = clock
  <2>1. clock \in First(timeline[b])..Latest(timeline[b]) /\ Latest(timeline[b]) \in Nat
    BY <1>1, BudgetsAssumption DEF Shaped, Configured, Periods
  <2>2. Latest(timeline[b]) <= clock
    BY <1>1 DEF LatestInv
  <2> HIDE DEF First, Latest
  <2> QED
    BY <1>2, <2>1, <2>2
<1>4. Generated(t, row)
  <2>1. CASE txn[t] # None
    BY <1>1, <2>1 DEF Generated, TxnTyped, Projectable
  <2>2. CASE txn[t] = None
    <3>1. PICK q \in clock..MaxPeriod, c \in Live \cup {None}, e \in {x \in Entries : x.valued} :
              row = Dated(e, q, c)
      BY <2>2 DEF Projectable
    <3>2. q \in Periods
      BY BudgetsAssumption DEF LatestInv, Periods
    <3>3. c \in Categories \cup {None} /\ e \in Entry /\ e.valued
      BY BudgetsAssumption DEF Live
    <3>4. row \in TransactionRow /\ row.valued
      BY <3>1, <3>2, <3>3 DEF Dated, Entry, TransactionRow
    <3> QED
      BY <2>2, <3>4 DEF Generated
  <2> QED
    BY <2>1, <2>2
<1> DEFINE w == Written(t, row)
<1>5. \A u \in Transactions : w.txn[u] # None /\ w.txn[u].period > clock => w.txn[u].valued
  BY DEF PendingLater
<1>6. Forecasts(Recalculated(w, timeline[b], clock, MaxPeriod).res, b, {row} \ {txn[t]}, clock)
  BY <1>1, <1>2, <1>3, <1>4, <1>5, KeptIsForecast
<1> HIDE DEF w
<1> QED
  BY <1>2, <1>6, ForecastIs DEF w, ForecastKept

-----------------------------------------------------------------------------
(* The theorems.                                                               *)

\* Nothing is there at first.
LEMMA InitKeeps == Init => BudgetsInv
<1> SUFFICES ASSUME Init PROVE BudgetsInv
  OBVIOUS
<1>1. TreeTyped /\ TxnTyped /\ Live = {} /\ Budgeted = {}
  BY DEF Init, TreeTyped, TxnTyped, Live, Budgeted
<1>2. budget \in [BudgetIds -> BudgetRow \cup {None}] /\ DOMAIN timeline = BudgetIds
  BY DEF Init
<1>3. Filed
  BY DEF Init, Filed
<1> QED
  BY <1>1, <1>2, <1>3 DEF BudgetsInv, RowsTyped, TwoLevelsOneRole, Timelines

\* Every step keeps the invariant.
LEMMA NextKeeps == BudgetsInv /\ [Next]_vars => BudgetsInv'
<1> SUFFICES ASSUME BudgetsInv, [Next]_vars PROVE BudgetsInv'
  OBVIOUS
<1>1. ASSUME NEW c \in Categories, NEW p \in Categories \cup {None}, NEW role \in Roles,
             CreateCategory(c, p, role)
      PROVE  BudgetsInv'
  BY <1>1, CreateCategoryKeeps
<1>2. ASSUME NEW c \in Categories, NEW p \in Categories \cup {None}, NEW role \in Roles,
             NEW now \in Sampled, UpdateCategory(c, p, role, now)
      PROVE  BudgetsInv'
  BY <1>2, UpdateCategoryKeeps
<1>3. ASSUME NEW ids \in SUBSET Live \ {{}}, NEW strategy \in Strategies, NEW now \in Sampled,
             DeleteCategories(ids, strategy, now)
      PROVE  BudgetsInv'
  BY <1>3, DeleteCategoriesKeeps
<1>4. ASSUME NEW t \in Transactions, NEW now \in Sampled, WriteTransaction(t, None, now)
      PROVE  BudgetsInv'
  BY <1>4, WriteTransactionKeeps
<1>5. ASSUME NEW t \in Transactions, NEW now \in Sampled, NEW p \in Periods,
             NEW c \in Live \cup {None}, NEW e \in Entries,
             WriteTransaction(t, Dated(e, p, c), now)
      PROVE  BudgetsInv'
  <2>1. c \in Categories \cup {None} /\ e \in Entry
    BY BudgetsAssumption DEF Live
  <2>2. Dated(e, p, c) \in TransactionRow /\ Dated(e, p, c).category = c
    BY <2>1 DEF Dated, Entry, TransactionRow
  <2> QED
    BY <1>5, <2>2, WriteTransactionKeeps
<1>6. ASSUME NEW valued \in SUBSET Transactions, NEW now \in Sampled, ActivateDefault(valued, now)
      PROVE  BudgetsInv'
  BY <1>6, ActivateDefaultKeeps
<1>7. ASSUME NEW b \in BudgetIds, DeleteBudget(b) PROVE BudgetsInv'
  BY <1>7, DeleteBudgetKeeps
<1>8. ASSUME NEW b \in BudgetIds, NEW now \in Sampled, ReadBudget(b, now) PROVE BudgetsInv'
  BY <1>8, ReadBudgetKeeps
<1>9. ASSUME NEW b \in BudgetIds, NEW now \in Sampled,
             PauseBudget(b, now) \/ ResumeBudget(b, now)
      PROVE  BudgetsInv'
  BY <1>9, PauseKeeps
<1>10. ASSUME NEW b \in BudgetIds, NEW now \in Sampled, NEW s \in Settings, CreateBudget(b, s, now)
       PROVE  BudgetsInv'
  BY <1>10, CreateBudgetKeeps
<1>11. ASSUME NEW b \in BudgetIds, NEW now \in Sampled, NEW s \in Settings, UpdateBudget(b, s, now)
       PROVE  BudgetsInv'
  BY <1>11, UpdateBudgetKeeps
<1>12. CASE Tick
  BY <1>12, TickKeeps
<1>13. CASE UNCHANGED vars
  BY <1>13, UnchangedKeeps
<1> QED
  BY <1>1, <1>2, <1>3, <1>4, <1>5, <1>6, <1>7, <1>8, <1>9, <1>10, <1>11, <1>12, <1>13, Zenon
  DEF Next

\* The invariant holds in every reachable state.
THEOREM BudgetsAreSound == Spec => []BudgetsInv
  BY InitKeeps, NextKeeps, PTL DEF Spec

\* The categories keep two levels, and one role along a path (TwoLevelsOneRole), through every
\* sequence of creations, moves, changes of role, promotions and deletions.
THEOREM TreeStaysSimple == Spec => []TwoLevelsOneRole
<1>1. BudgetsInv => TwoLevelsOneRole
  BY DEF BudgetsInv
<1> QED
  BY <1>1, BudgetsAreSound, PTL

\* What is stored of a period is what a recalculation of the whole timeline gives
\* (PeriodsAgree): calculate_configuration starts at the first period a write changes, and
\* the budgets affected_budgets_for_update and analyze_deletion pass by are not changed.
THEOREM IncrementalIsComplete == Spec => []PeriodsAgree
<1>1. BudgetsInv => PeriodsAgree
  BY SoundIsRebuilt DEF BudgetsInv, Timelines, Sound, SoundIn, PeriodsAgree, ResultsAgree
<1> QED
  BY <1>1, BudgetsAreSound, PTL

\* An active budget at its warning threshold or over its allowance has been announced to be
\* (EveryStatusIsAnnounced): whatever write, reading or activation changed the status compared
\* it with the one before, for the period the timeline had been brought up to.
THEOREM StatusesAreAnnounced == Spec => []EveryStatusIsAnnounced
<1>1. Init => EveryStatusIsAnnounced
  BY DEF Init, EveryStatusIsAnnounced, Active, Budgeted
<1> QED
  BY <1>1, NextTells, BudgetsAreSound, PTL DEF Spec

\* The latest result of every budget, of whatever measurement modes before, is calculated from
\* the result before it.
LEMMA LatestIsFresh == Spec => []LatestInv
<1>1. Init => LatestInv
  BY BudgetsAssumption DEF Init, LatestInv, Budgeted, Periods
<1> QED
  BY <1>1, NextIsFresh, BudgetsAreSound, PTL DEF Spec

\* What forecast_budget_periods projects of the current and the later periods is what they come
\* to when the projected occurrence is generated (ForecastIsKept), whatever carry the current
\* period's result was stored with.
THEOREM ForecastsAreKept == Spec => []ForecastIsKept
<1>1. ASSUME BudgetsInv, LatestInv PROVE ForecastIsKept
  <2> SUFFICES ASSUME NEW b \in Active, clock \in DOMAIN timeline[b].conf,
                      NEW t \in Transactions, NEW row \in Projectable(t),
                      ~ PendingLater(Written(t, row))
               PROVE  ForecastKept(b, t, row)
    BY DEF ForecastIsKept
  <2> QED
    BY <1>1, FreshForecastIsKept
<1> QED
  BY <1>1, BudgetsAreSound, LatestIsFresh, PTL

===============================================================================
