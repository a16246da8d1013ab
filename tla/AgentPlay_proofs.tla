-------------------------- MODULE AgentPlay_proofs ---------------------------
(***************************************************************************)
(* What a right verdict is worth, for every task, every queue and every    *)
(* state of the investigations: the graders of graders/ are monotone in    *)
(* the verdicts that agree with their answer key.                          *)
(*                                                                         *)
(* And what the rule-based analyst does with its steps: each one is a new  *)
(* piece of work, until the last one submits work that is finished.        *)
(*                                                                         *)
(* And what a play can earn: a score strictly between 0 and 1, the least   *)
(* one for doing nothing.                                                  *)
(***************************************************************************)
EXTENDS AgentPlay, SOCEnvironment_proofs

-----------------------------------------------------------------------------
(* Quotients.                                                              *)

\* A quotient of natural numbers is the natural number whose multiple is reached.
LEMMA Quotient ==
  ASSUME NEW a \in Nat, NEW n \in Nat \ {0}
  PROVE  /\ a \div n \in Nat
         /\ n * (a \div n) <= a /\ a < n * (a \div n) + n
<1>1. a = n * (a \div n) + (a % n) /\ 0 <= a % n /\ a % n < n
  OBVIOUS
<1>2. a \div n \in Int
  OBVIOUS
<1>3. a \div n >= 0
  <2> SUFFICES ASSUME a \div n <= -1 PROVE FALSE
    BY <1>2
  <2>1. n * (a \div n) <= n * (-1)
    BY <1>2
  <2> QED
    BY <1>1, <2>1
<1> QED
  BY <1>1, <1>2, <1>3

\* A fraction that is no larger has no larger quotient.
LEMMA QuotientGrows ==
  ASSUME NEW a \in Nat, NEW b \in Nat, NEW n \in Nat \ {0}, NEW m \in Nat \ {0},
         a * m <= b * n
  PROVE  a \div n <= b \div m
<1> DEFINE q == a \div n
           r == b \div m
<1>1. q \in Nat /\ n * q <= a
  BY Quotient
<1>2. r \in Nat /\ b < m * r + m
  BY Quotient
<1> HIDE DEF q, r
<1> SUFFICES ASSUME r + 1 <= q PROVE FALSE
  BY <1>1, <1>2 DEF q, r
<1>3. m * (r + 1) <= m * q
  BY <1>1, <1>2
<1>4. b < m * q
  BY <1>1, <1>2, <1>3
<1>5. b * n < (m * q) * n
  BY <1>1, <1>4
<1>6. (n * q) * m <= a * m
  BY <1>1
<1>7. (m * q) * n = (n * q) * m
  BY <1>1
<1> QED
  BY <1>1, <1>5, <1>6, <1>7

\* A larger sum has no smaller share.
LEMMA QuotientMonotone ==
  ASSUME NEW a \in Nat, NEW b \in Nat, NEW n \in Nat \ {0}, a <= b
  PROVE  a \div n <= b \div n
<1>1. a * n <= b * n
  OBVIOUS
<1> QED
  BY <1>1, QuotientGrows

\* A share is a natural number and grows with what is done.
LEMMA ShareGrows ==
  ASSUME NEW k \in Nat, NEW l \in Nat, NEW n \in Nat, k <= l
  PROVE  Share(k, n) \in Nat /\ Share(l, n) \in Nat /\ Share(k, n) <= Share(l, n)
<1>1. CASE n = 0
  BY <1>1 DEF Share, One
<1>2. CASE n # 0
  <2>1. One * k \in Nat /\ One * l \in Nat /\ One * k <= One * l
    BY DEF One
  <2>2. (One * k) \div n \in Nat /\ (One * l) \div n \in Nat
    BY <1>2, <2>1, Quotient
  <2>3. (One * k) \div n <= (One * l) \div n
    BY <1>2, <2>1, QuotientMonotone
  <2> QED
    BY <1>2, <2>2, <2>3 DEF Share
<1> QED
  BY <1>1, <1>2

\* One more hit and one miss less is a better F1.
LEMMA F1Grows ==
  ASSUME NEW h \in Nat, NEW w \in Nat, NEW m \in Nat \ {0}
  PROVE  /\ F1(h, w, m) \in Nat /\ F1(h + 1, w, m - 1) \in Nat
         /\ F1(h, w, m) <= F1(h + 1, w, m - 1)
<1> DEFINE n == 2 * h + w + m
           k == 2 * h
<1>1. n \in Nat \ {0} /\ n + 1 \in Nat \ {0} /\ k \in Nat /\ k <= n /\ k + 2 \in Nat
  OBVIOUS
<1>2. 2 * (h + 1) + w + (m - 1) = n + 1 /\ 2 * (h + 1) = k + 2
  OBVIOUS
<1>3. F1(h, w, m) = IF h = 0 THEN 0 ELSE Share(k, n)
  BY DEF F1
<1>4. F1(h + 1, w, m - 1) = Share(k + 2, n + 1)
  BY <1>2 DEF F1
<1> HIDE DEF n, k
<1>5. Share(k, n) \in Nat /\ Share(k + 2, n + 1) \in Nat
  <2>1. n \in Nat /\ n + 1 \in Nat /\ k <= k /\ k + 2 <= k + 2
    BY <1>1
  <2>2. \A i, j \in Nat : Share(i, j) \in Nat
    BY ShareGrows
  <2> QED
    BY <1>1, <2>1, <2>2
<1>6. Share(k, n) <= Share(k + 2, n + 1)
  <2>1. One * k \in Nat /\ One * (k + 2) \in Nat
    BY <1>1 DEF One
  <2>2. k * (n + 1) <= (k + 2) * n
    <3>1. k * (n + 1) = k * n + k /\ (k + 2) * n = k * n + 2 * n
      BY <1>1
    <3>2. k * n \in Nat
      BY <1>1
    <3> QED
      BY <1>1, <3>1, <3>2
  <2>3. (One * k) * (n + 1) <= (One * (k + 2)) * n
    <3>1. (One * k) * (n + 1) = One * (k * (n + 1))
      BY <1>1 DEF One
    <3>2. (One * (k + 2)) * n = One * ((k + 2) * n)
      BY <1>1 DEF One
    <3>3. k * (n + 1) \in Nat /\ (k + 2) * n \in Nat
      BY <1>1
    <3> QED
      BY <2>2, <3>1, <3>2, <3>3 DEF One
  <2>4. (One * k) \div n <= (One * (k + 2)) \div (n + 1)
    BY <1>1, <2>1, <2>3, QuotientGrows
  <2> QED
    BY <1>1, <2>4 DEF Share
<1> QED
  BY <1>3, <1>4, <1>5, <1>6

\* Bounding keeps the order of two quotients.
LEMMA BoundedGrows ==
  ASSUME NEW x \in Nat, NEW y \in Nat, NEW n \in Nat \ {0}, x <= y
  PROVE  Bounded(x \div n) <= Bounded(y \div n)
<1> DEFINE q == x \div n
           r == y \div n
<1>1. q <= r /\ q \in Nat /\ r \in Nat
  BY Quotient, QuotientMonotone
<1> HIDE DEF q, r
<1> QED
  BY <1>1 DEF Bounded, q, r

\* The total grows with the weighted sum.
LEMMA TotalGrows ==
  ASSUME NEW x \in Nat, NEW y \in Nat, x <= y
  PROVE  Total(x) <= Total(y)
<1>1. x + 5000 \in Nat /\ y + 5000 \in Nat /\ x + 5000 <= y + 5000
  OBVIOUS
<1> QED
  BY <1>1, BoundedGrows DEF Total

-----------------------------------------------------------------------------
(* Sums over the alerts.  A fold is a recursive function over the subsets; *)
(* what it computes is the number of units of the values.                  *)

\* The units that make up the values of f on s.
Units(f, s) == UNION {{x} \X (1..f[x]) : x \in s}

\* A natural number is the number of its units.
LEMMA UnitsOfOne ==
  ASSUME NEW f, NEW x, f[x] \in Nat
  PROVE  IsFiniteSet({x} \X (1..f[x])) /\ Cardinality({x} \X (1..f[x])) = f[x]
<1>1. IsFiniteSet({x}) /\ Cardinality({x}) = 1
  BY FS_Singleton
<1>2. IsFiniteSet(1..f[x]) /\ Cardinality(1..f[x]) = f[x]
  BY FS_Interval
<1>3. IsFiniteSet({x} \X (1..f[x])) /\ Cardinality({x} \X (1..f[x])) = 1 * f[x]
  BY ZenonT(40), <1>1, <1>2, FS_Product
<1> QED
  BY <1>3

\* Finitely many values have finitely many units.
LEMMA UnitsFinite ==
  ASSUME NEW S, IsFiniteSet(S), NEW f \in [S -> Nat], NEW s \in SUBSET S
  PROVE  IsFiniteSet(Units(f, s))
<1> DEFINE parts == {{x} \X (1..f[x]) : x \in s}
           part == [x \in s |-> {x} \X (1..f[x])]
<1>1. IsFiniteSet(s)
  BY FS_Subset
<1>2. part \in Surjection(s, parts)
  BY DEF Surjection
<1>3. IsFiniteSet(parts)
  BY <1>1, <1>2, FS_Surjection
<1>4. \A p \in parts : IsFiniteSet(p)
  BY UnitsOfOne
<1> HIDE DEF parts
<1>5. IsFiniteSet(UNION parts)
  BY <1>3, <1>4, FS_UNION
<1> QED
  BY <1>5 DEF Units, parts

\* Setting one value aside sets its units aside.
LEMMA UnitsSplit ==
  ASSUME NEW S, IsFiniteSet(S), NEW f \in [S -> Nat], NEW s \in SUBSET S, NEW x \in s
  PROVE  Cardinality(Units(f, s)) = f[x] + Cardinality(Units(f, s \ {x}))
<1> DEFINE one == {x} \X (1..f[x])
           rest == Units(f, s \ {x})
<1>1. IsFiniteSet(one) /\ Cardinality(one) = f[x] /\ f[x] \in Nat
  BY UnitsOfOne
<1>2. IsFiniteSet(rest) /\ Cardinality(rest) \in Nat
  BY UnitsFinite, FS_CardinalityType
<1>3. one \cap rest = {} /\ Units(f, s) = one \cup rest
  BY DEF Units
<1> HIDE DEF one, rest
<1>4. Cardinality(one \cup rest) = Cardinality(one) + Cardinality(rest) - Cardinality(one \cap rest)
  BY <1>1, <1>2, FS_Union
<1>5. Cardinality(one \cap rest) = 0
  BY <1>3, FS_EmptySet
<1>6. Cardinality(one \cup rest) = f[x] + Cardinality(rest)
  BY <1>1, <1>2, <1>4, <1>5
<1> QED
  BY <1>3, <1>6 DEF rest

\* The sum of a function is the number of its units: no smallest subset on which
\* the fold and the count differ exists.
LEMMA SumCountsUnits ==
  ASSUME NEW S, IsFiniteSet(S), NEW f \in [S -> Nat]
  PROVE  SumFunction(f) = Cardinality(Units(f, S))
<1> DEFINE pick(s) == CHOOSE x \in s : TRUE
           round(g) == [s \in SUBSET S |-> IF s = {} THEN 0
                                           ELSE f[pick(s)] + g[s \ {pick(s)}]]
           count == [s \in SUBSET S |-> Cardinality(Units(f, s))]
           sum == CHOOSE g : g = round(g)
           wrong == {s \in SUBSET S : sum[s] # count[s]}
<1>1. SumFunction(f) = sum[S]
  BY DEF SumFunction, SumFunctionOnSet, FoldFunctionOnSet, MapThenFoldSet
<1>2. \A s \in SUBSET S : s # {} => pick(s) \in s
  OBVIOUS
<1> HIDE DEF pick
<1>3. count = round(count)
  <2>1. ASSUME NEW s \in SUBSET S
        PROVE  count[s] = round(count)[s]
    <3>1. CASE s = {}
      BY <3>1, FS_EmptySet DEF Units
    <3>2. CASE s # {}
      BY <1>2, <3>2, UnitsSplit
    <3> QED
      BY <3>1, <3>2
  <2> QED
    BY <2>1
<1>4. sum = round(sum)
  <2> HIDE DEF round, count
  <2> QED
    BY <1>3, Zenon
<1> HIDE DEF sum
<1>5. wrong = {}
  <2> SUFFICES ASSUME wrong # {} PROVE FALSE
    OBVIOUS
  <2>1. wrong \subseteq FiniteSubsetsOf(S)
    BY FS_Subset DEF FiniteSubsetsOf
  <2>2. IsWellFoundedOn(StrictSubsetOrdering(S), FiniteSubsetsOf(S))
    BY FS_StrictSubsetOrderingWellFounded
  <2> HIDE DEF wrong
  <2>3. PICK s \in wrong : \A t \in wrong : ~ (<<t, s>> \in StrictSubsetOrdering(S))
    BY <2>1, <2>2, WFMin, Zenon
  <2>4. s \in SUBSET S /\ sum[s] # count[s]
    BY DEF wrong
  <2>5. s # {}
    BY <1>3, <1>4, <2>4
  <2>6. pick(s) \in s /\ s \ {pick(s)} \in SUBSET S
    BY <1>2, <2>4, <2>5
  <2>7. s \ {pick(s)} \notin wrong
    BY <2>3, <2>4, <2>6 DEF StrictSubsetOrdering
  <2>8. sum[s \ {pick(s)}] = count[s \ {pick(s)}]
    BY <2>6, <2>7 DEF wrong
  <2> QED
    BY <1>3, <1>4, <2>4, <2>5, <2>8
<1>6. sum[S] = count[S]
  BY <1>5
<1> QED
  BY <1>1, <1>6

\* A mean is a natural number and grows with the scores.
LEMMA MeanGrows ==
  ASSUME NEW S, IsFiniteSet(S), NEW f \in [S -> Nat], NEW g \in [S -> Nat],
         \A x \in S : f[x] <= g[x]
  PROVE  Mean(f) \in Nat /\ Mean(g) \in Nat /\ Mean(f) <= Mean(g)
<1> DEFINE less == Units(f, S)
           more == Units(g, S)
<1>1. less \subseteq more
  <2> SUFFICES ASSUME NEW x \in S PROVE 1..f[x] \subseteq 1..g[x]
    BY DEF Units
  <2>1. f[x] \in Nat /\ g[x] \in Nat /\ f[x] <= g[x]
    OBVIOUS
  <2> QED
    BY <2>1
<1>2. IsFiniteSet(less) /\ IsFiniteSet(more)
  BY UnitsFinite
<1>3. Cardinality(less) \in Nat /\ Cardinality(more) \in Nat
  BY <1>2, FS_CardinalityType
<1>4. Cardinality(less) <= Cardinality(more)
  BY <1>1, <1>2, FS_Subset
<1>5. SumFunction(f) = Cardinality(less) /\ SumFunction(g) = Cardinality(more)
  BY SumCountsUnits
<1> HIDE DEF less, more
<1>6. CASE S = {}
  BY <1>6 DEF Mean, One
<1>7. CASE S # {}
  <2>1. Cardinality(S) \in Nat \ {0}
    BY <1>7, FS_CardinalityType, FS_EmptySet
  <2>2. /\ Cardinality(less) \div Cardinality(S) \in Nat
        /\ Cardinality(more) \div Cardinality(S) \in Nat
    BY <1>3, <2>1, Quotient
  <2>3. Cardinality(less) \div Cardinality(S) <= Cardinality(more) \div Cardinality(S)
    BY <1>3, <1>4, <2>1, QuotientMonotone
  <2> QED
    BY <1>5, <1>7, <2>2, <2>3 DEF Mean
<1> QED
  BY <1>6, <1>7

-----------------------------------------------------------------------------
(* A right first verdict, component by component.                          *)

\* What a grader relies on in a task.
Gradable(t) ==
  /\ IsFiniteSet(Alerts(t)) /\ 1 \in Alerts(t)
  /\ \A a \in Alerts(t) : /\ t.truth[a] \in Judged
                          /\ t.keys[a].techniques \in Seq(Techniques)
                          /\ t.keys[a].responses \in Seq(ResponseActions)
                          /\ t.keys[a].sources \in Seq(LogSources)
  /\ t.chains \in Seq(Seq(AlertIds)) /\ t.kill \in Seq(AlertIds)

\* The same work, but for the verdict.
SameWork(x, y) == /\ x.mapped = y.mapped /\ x.queried = y.queried
                  /\ x.recommended = y.recommended /\ x.correlated = y.correlated
                  /\ x.escalated = y.escalated

\* Between `old' and `new', alert a got its first verdict, and it is right.
RightVerdict(t, old, new, a) ==
  /\ a \in Alerts(t) /\ DOMAIN old = Alerts(t) /\ DOMAIN new = Alerts(t)
  /\ Open(old[a]) /\ new[a].classification = t.truth[a]
  /\ \A x \in Alerts(t) : /\ SameWork(new[x], old[x])
                          /\ x # a => new[x].classification = old[x].classification

\* The values of a sequence are finitely many.
LEMMA FiniteRange ==
  ASSUME NEW T, NEW seq \in Seq(T)
  PROVE  IsFiniteSet(ToSet(seq)) /\ Cardinality(ToSet(seq)) \in Nat
<1> DEFINE f == [n \in 1..Len(seq) |-> seq[n]]
<1>1. IsFiniteSet(1..Len(seq)) /\ DOMAIN seq = 1..Len(seq)
  BY FS_Interval
<1>2. f \in Surjection(1..Len(seq), ToSet(seq))
  BY <1>1 DEF Surjection, ToSet
<1>3. IsFiniteSet(ToSet(seq))
  BY <1>1, <1>2, FS_Surjection
<1> QED
  BY <1>3, FS_CardinalityType

\* A larger finite set has no smaller share.
LEMMA ShareOfMore ==
  ASSUME NEW S, NEW T, IsFiniteSet(T), S \subseteq T, NEW n \in Nat
  PROVE  /\ Share(Cardinality(S), n) \in Nat /\ Share(Cardinality(T), n) \in Nat
         /\ Share(Cardinality(S), n) <= Share(Cardinality(T), n)
<1>1. IsFiniteSet(S) /\ Cardinality(S) <= Cardinality(T)
  BY FS_Subset
<1>2. Cardinality(S) \in Nat /\ Cardinality(T) \in Nat
  BY <1>1, FS_CardinalityType
<1> QED
  BY <1>1, <1>2, ShareGrows

\* The alert joins those called by its verdict, and no other does.
LEMMA CalledGrows ==
  ASSUME NEW t, Gradable(t), NEW old, NEW new, NEW a, RightVerdict(t, old, new, a),
         NEW V \in SUBSET Judged
  PROVE  /\ a \in Alerts(t) /\ a \notin Called(old, V)
         /\ Called(new, V) = Called(old, V) \cup {x \in {a} : t.truth[a] \in V}
         /\ Called(old, V) \subseteq Alerts(t) /\ Called(new, V) \subseteq Alerts(t)
         /\ Called(old, V) \subseteq Called(new, V)
         /\ IsFiniteSet(Called(old, V)) /\ IsFiniteSet(Called(new, V))
<1>1. old[a].classification \notin Judged
  BY DEF RightVerdict, Open, Judged, Positive
<1>2. \A x \in Alerts(t) \ {a} : new[x].classification = old[x].classification
  BY DEF RightVerdict
<1>3. DOMAIN old = Alerts(t) /\ DOMAIN new = Alerts(t) /\ a \in Alerts(t)
      /\ new[a].classification = t.truth[a]
  BY DEF RightVerdict
<1>4. a \notin Called(old, V)
  BY <1>1 DEF Called
<1>5. \A x \in Alerts(t) \ {a} : x \in Called(new, V) <=> x \in Called(old, V)
  BY <1>2, <1>3 DEF Called
<1>6. a \in Called(new, V) <=> t.truth[a] \in V
  BY <1>3 DEF Called
<1>7. Called(old, V) \subseteq Alerts(t) /\ Called(new, V) \subseteq Alerts(t)
  BY <1>3 DEF Called
<1>8. Called(new, V) = Called(old, V) \cup {x \in {a} : t.truth[a] \in V}
  BY <1>3, <1>4, <1>5, <1>6, <1>7
<1>9. IsFiniteSet(Called(old, V)) /\ IsFiniteSet(Called(new, V))
  BY <1>7, FS_Subset DEF Gradable
<1> QED
  BY <1>3, <1>4, <1>7, <1>8, <1>9

\* One component of a grade before and after a right verdict.
Better(x, y) == x \in Nat /\ y \in Nat /\ x <= y

\* The right verdict is one more correct classification.
LEMMA AccuracyGrows ==
  ASSUME NEW t, Gradable(t), NEW old, NEW new, NEW a, RightVerdict(t, old, new, a)
  PROVE  Better(ClassificationAccuracy(t, old), ClassificationAccuracy(t, new))
<1> DEFINE right(invs) == {x \in Alerts(t) : invs[x].classification = t.truth[x]}
<1>1. right(old) \subseteq right(new)
  BY DEF RightVerdict
<1>2. IsFiniteSet(right(new)) /\ Cardinality(Alerts(t)) \in Nat
  BY FS_Subset, FS_CardinalityType DEF Gradable
<1> QED
  BY <1>1, <1>2, ShareOfMore DEF ClassificationAccuracy, Better

\* An alert judged stays judged, so coverage only grows.
LEMMA CoverageGrows ==
  ASSUME NEW t, Gradable(t), NEW old, NEW new, NEW a, RightVerdict(t, old, new, a)
  PROVE  Better(Coverage(t, old), Coverage(t, new))
<1>1. Called(old, Judged) \subseteq Called(new, Judged) /\ IsFiniteSet(Called(new, Judged))
  BY CalledGrows
<1>2. Cardinality(Alerts(t)) \in Nat
  BY FS_CardinalityType DEF Gradable
<1> QED
  BY <1>1, <1>2, ShareOfMore DEF Coverage, Better

\* At equal cost, efficiency is earned for no fewer alerts.
LEMMA EfficiencyGrows ==
  ASSUME NEW t, Gradable(t), NEW old, NEW new, NEW a, RightVerdict(t, old, new, a), NEW used
  PROVE  Better(EarnedEfficiency(t, old, used), EarnedEfficiency(t, new, used))
<1> DEFINE e == EfficiencyScore(t, used)
           x == Coverage(t, old)
           y == Coverage(t, new)
<1>1. e \in {10, 8, 6, 3}
  BY DEF EfficiencyScore
<1>2. x \in Nat /\ y \in Nat /\ x <= y
  BY CoverageGrows DEF Better
<1> HIDE DEF e, x, y
<1>3. e * x \in Nat /\ e * y \in Nat /\ e * x <= e * y
  BY <1>1, <1>2
<1>4. (e * x) \div 10 \in Nat /\ (e * y) \div 10 \in Nat
  BY <1>3, Quotient
<1>5. (e * x) \div 10 <= (e * y) \div 10
  BY <1>3, QuotientMonotone
<1> QED
  BY <1>4, <1>5 DEF EarnedEfficiency, Better, e, x, y

\* More alerts called complete no fewer attack chains.
LEMMA ChainsGrow ==
  ASSUME NEW t, Gradable(t), NEW S, NEW T, S \subseteq T
  PROVE  Better(ChainsWithin(t, S), ChainsWithin(t, T))
<1> DEFINE whole(s) == {n \in DOMAIN t.chains : ToSet(t.chains[n]) \subseteq s}
<1>1. DOMAIN t.chains = 1..Len(t.chains) /\ Len(t.chains) \in Nat
  BY DEF Gradable
<1>2. whole(S) \subseteq whole(T) /\ whole(T) \subseteq 1..Len(t.chains)
  <2>1. whole(S) \subseteq whole(T)
    OBVIOUS
  <2>2. whole(T) \subseteq 1..Len(t.chains)
    BY <1>1
  <2> QED
    BY <2>1, <2>2
<1>3. IsFiniteSet(whole(T))
  <2>1. IsFiniteSet(1..Len(t.chains))
    BY <1>1, FS_Interval
  <2> HIDE DEF whole
  <2> QED
    BY <1>2, <2>1, FS_Subset
<1> QED
  BY <1>1, <1>2, <1>3, ShareOfMore DEF ChainsWithin, Better

\* Calling one more of the positives, and nothing else, improves the F1.
LEMMA HitsGrow ==
  ASSUME NEW P, IsFiniteSet(P), NEW C, IsFiniteSet(C), NEW a, a \notin C,
         NEW D, D = C \/ (D = C \cup {a} /\ a \in P)
  PROVE  Better(F1(Cardinality(P \cap C), Cardinality(C \ P), Cardinality(P \ C)),
                F1(Cardinality(P \cap D), Cardinality(D \ P), Cardinality(P \ D)))
<1> DEFINE h == Cardinality(P \cap C)
           w == Cardinality(C \ P)
           m == Cardinality(P \ C)
<1>1. IsFiniteSet(P \cap C) /\ IsFiniteSet(C \ P) /\ IsFiniteSet(P \ C)
  BY FS_Subset
<1>2. h \in Nat /\ w \in Nat /\ m \in Nat
  BY <1>1, FS_CardinalityType
<1>3. CASE D = C
  <2> HIDE DEF h, w, m
  <2>1. 2 * h \in Nat /\ 2 * h + w + m \in Nat
    BY <1>2
  <2>2. Share(2 * h, 2 * h + w + m) \in Nat
    BY <2>1, ShareGrows
  <2>3. F1(h, w, m) \in Nat
    BY <2>2 DEF F1
  <2> QED
    BY <1>3, <2>3 DEF Better, h, w, m
<1>4. CASE D = C \cup {a} /\ a \in P
  <2>1. P \cap D = (P \cap C) \cup {a} /\ a \notin P \cap C
    BY <1>4
  <2>2. Cardinality(P \cap D) = h + 1
    BY <1>1, <2>1, FS_AddElement
  <2>3. D \ P = C \ P
    BY <1>4
  <2>4. P \ D = (P \ C) \ {a} /\ a \in P \ C
    BY <1>4
  <2>5. Cardinality(P \ D) = m - 1 /\ m # 0
    BY <1>1, <2>4, FS_RemoveElement, FS_EmptySet
  <2> HIDE DEF h, w, m
  <2>6. /\ F1(h, w, m) \in Nat /\ F1(h + 1, w, m - 1) \in Nat
        /\ F1(h, w, m) <= F1(h + 1, w, m - 1)
    BY <1>2, <2>5, F1Grows
  <2> QED
    BY <2>2, <2>3, <2>5, <2>6 DEF Better, h, w, m
<1> QED
  BY <1>3, <1>4

\* The right verdict is a hit gained or a false call taken back.
LEMMA PositiveF1Grows ==
  ASSUME NEW t, Gradable(t), NEW old, NEW new, NEW a, RightVerdict(t, old, new, a)
  PROVE  Better(PositiveF1(t, old), PositiveF1(t, new))
<1> DEFINE P == Alerts(t) \ Those(t, "false_positive")
           C == Called(old, Positive)
           D == Called(new, Positive)
<1>1. /\ a \in Alerts(t) /\ a \notin C /\ D = C \cup {x \in {a} : t.truth[a] \in Positive}
      /\ IsFiniteSet(C)
  BY CalledGrows DEF Judged
<1>2. IsFiniteSet(P)
  BY FS_Subset DEF Gradable
<1>3. t.truth[a] \in Positive => a \in P
  BY <1>1 DEF Those, Positive
<1>4. D = C \/ (D = C \cup {a} /\ a \in P)
  BY <1>1, <1>3
<1> HIDE DEF P, C, D
<1>5. Better(F1(Cardinality(P \cap C), Cardinality(C \ P), Cardinality(P \ C)),
             F1(Cardinality(P \cap D), Cardinality(D \ P), Cardinality(P \ D)))
  BY <1>1, <1>2, <1>4, HitsGrow
<1> QED
  BY <1>5 DEF PositiveF1, P, C, D

\* Fewer positives are missed, so less is deducted.
LEMMA MissedShrinks ==
  ASSUME NEW t, Gradable(t), NEW old, NEW new, NEW a, RightVerdict(t, old, new, a),
         NEW perTrue \in Nat, NEW perBenign \in Nat
  PROVE  Better(MissedTruePositives(t, old, perTrue, perBenign),
                MissedTruePositives(t, new, perTrue, perBenign))
<1> DEFINE missed(v, invs) == Cardinality(Those(t, v) \ Called(invs, Positive))
           cost(invs) == perTrue * missed("true_positive", invs)
                           + perBenign * missed("benign_true_positive", invs)
<1>1. Called(old, Positive) \subseteq Called(new, Positive)
  BY CalledGrows DEF Judged
<1>2. ASSUME NEW v
      PROVE  /\ missed(v, old) \in Nat /\ missed(v, new) \in Nat
             /\ missed(v, new) <= missed(v, old)
  <2>1. IsFiniteSet(Those(t, v) \ Called(old, Positive))
    BY FS_Subset DEF Those, Gradable
  <2>2. Those(t, v) \ Called(new, Positive) \subseteq Those(t, v) \ Called(old, Positive)
    BY <1>1
  <2> QED
    BY <2>1, <2>2, FS_Subset, FS_CardinalityType
<1> HIDE DEF missed
<1>3. \A k, x, y \in Nat : x <= y => k * x \in Nat /\ k * y \in Nat /\ k * x <= k * y
  OBVIOUS
<1>4. cost(old) \in Nat /\ cost(new) \in Nat /\ cost(new) <= cost(old)
  BY <1>2, <1>3
<1>5. /\ MissedTruePositives(t, old, perTrue, perBenign) =
           IF cost(old) > 100 THEN 0 ELSE One - 1000 * cost(old)
      /\ MissedTruePositives(t, new, perTrue, perBenign) =
           IF cost(new) > 100 THEN 0 ELSE One - 1000 * cost(new)
  BY DEF MissedTruePositives, missed
<1> HIDE DEF cost
<1> QED
  BY <1>4, <1>5 DEF Better, One

\* On a false alarm a verdict can only turn silence into a dismissal.
LEMMA ResponseGrows ==
  ASSUME NEW t, Gradable(t), NEW old, NEW new, NEW a, RightVerdict(t, old, new, a)
  PROVE  Better(ResponseQuality(t, old), ResponseQuality(t, new))
<1> DEFINE expected(x) == ToSet(t.keys[x].responses)
           S == {x \in Alerts(t) : expected(x) # {}}
           dismissed(x, invs) == \/ "no_action" \in invs[x].recommended
                                 \/ /\ invs[x].classification \in Judged
                                    /\ invs[x].recommended = {}
           score(x, invs) ==
             IF t.truth[x] = "false_positive" THEN IF dismissed(x, invs) THEN One ELSE 0
             ELSE Share(Cardinality(invs[x].recommended \cap expected(x)),
                        Cardinality(expected(x)))
           f == [x \in S |-> score(x, old)]
           g == [x \in S |-> score(x, new)]
<1>1. IsFiniteSet(S)
  BY FS_Subset DEF Gradable
<1>2. ASSUME NEW x \in Alerts(t)
      PROVE  Better(score(x, old), score(x, new))
  <2>1. new[x].recommended = old[x].recommended
    BY DEF RightVerdict, SameWork
  <2>2. CASE t.truth[x] = "false_positive"
    <3>1. dismissed(x, old) => dismissed(x, new)
      BY <2>1 DEF RightVerdict, Open, Judged, Positive
    <3>2. One \in Nat /\ 0 <= One
      BY DEF One
    <3> HIDE DEF dismissed
    <3> QED
      BY <2>2, <3>1, <3>2 DEF Better
  <2>3. CASE t.truth[x] # "false_positive"
    <3>1. IsFiniteSet(expected(x)) /\ Cardinality(expected(x)) \in Nat
      BY FiniteRange DEF Gradable
    <3> HIDE DEF expected
    <3>2. Share(Cardinality(old[x].recommended \cap expected(x)), Cardinality(expected(x))) \in Nat
      BY <3>1, ShareOfMore
    <3> QED
      BY <2>1, <2>3, <3>2 DEF Better
  <2> QED
    BY <2>2, <2>3
<1> HIDE DEF score
<1>3. f \in [S -> Nat] /\ g \in [S -> Nat] /\ \A x \in S : f[x] <= g[x]
  BY <1>2 DEF Better
<1>4. Mean(f) \in Nat /\ Mean(g) \in Nat /\ Mean(f) <= Mean(g)
  <2> HIDE DEF f, g, S
  <2> QED
    BY <1>1, <1>3, MeanGrows
<1>5. ResponseQuality(t, old) = Mean(f) /\ ResponseQuality(t, new) = Mean(g)
  BY DEF ResponseQuality, score
<1> QED
  BY <1>4, <1>5 DEF Better

\* The score of an alert's techniques is a natural number.
LEMMA TechniqueMatchIsNat ==
  ASSUME NEW mapped, NEW expected, IsFiniteSet(expected)
  PROVE  TechniqueMatch(mapped, expected) \in Nat
<1> DEFINE halves == {x \in expected : x \notin mapped /\ Parent(x) \in mapped}
<1>1. IsFiniteSet(halves) /\ IsFiniteSet(mapped \cap expected)
  BY FS_Subset
<1>2. /\ Cardinality(halves) \in Nat /\ Cardinality(mapped \cap expected) \in Nat
      /\ Cardinality(expected) \in Nat
  BY <1>1, FS_CardinalityType
<1> HIDE DEF halves
<1>3. /\ 2 * Cardinality(mapped \cap expected) + Cardinality(halves) \in Nat
      /\ 2 * Cardinality(expected) \in Nat
  BY <1>2
<1>4. Share(2 * Cardinality(mapped \cap expected) + Cardinality(halves),
            2 * Cardinality(expected)) \in Nat
  BY <1>3, ShareGrows
<1> QED
  BY <1>4 DEF TechniqueMatch, halves

\* The techniques mapped are the same, and so is their score.
LEMMA TechniquesKept ==
  ASSUME NEW t, Gradable(t), NEW old, NEW new, NEW a, RightVerdict(t, old, new, a)
  PROVE  Better(TechniqueAccuracy(t, old), TechniqueAccuracy(t, new))
<1> DEFINE expected(x) == ToSet(t.keys[x].techniques)
           S == {x \in Alerts(t) : expected(x) # {} /\ t.truth[x] # "false_positive"}
           f == [x \in S |-> TechniqueMatch(old[x].mapped, expected(x))]
<1>1. IsFiniteSet(S)
  BY FS_Subset DEF Gradable
<1>2. f \in [S -> Nat]
  <2>1. \A x \in S : IsFiniteSet(expected(x))
    BY FiniteRange DEF Gradable
  <2> HIDE DEF expected
  <2>2. \A x \in S : TechniqueMatch(old[x].mapped, expected(x)) \in Nat
    BY <2>1, TechniqueMatchIsNat
  <2> QED
    BY <2>2
<1>3. Mean(f) \in Nat
  <2> HIDE DEF f, S
  <2>1. \A x \in S : f[x] <= f[x]
    BY <1>2
  <2> QED
    BY <1>1, <1>2, <2>1, MeanGrows
<1>4. f = [x \in S |-> TechniqueMatch(new[x].mapped, expected(x))]
  <2>1. \A x \in S : new[x].mapped = old[x].mapped
    BY DEF RightVerdict, SameWork
  <2> QED
    BY <2>1
<1>5. TechniqueAccuracy(t, old) = Mean(f)
  BY DEF TechniqueAccuracy
<1>6. TechniqueAccuracy(t, new) = Mean([x \in S |-> TechniqueMatch(new[x].mapped, expected(x))])
  BY DEF TechniqueAccuracy
<1>7. TechniqueAccuracy(t, new) = Mean(f)
  BY <1>4, <1>6
<1> HIDE DEF f
<1> QED
  BY <1>3, <1>5, <1>7 DEF Better

\* The links found are the same, and so is the chain they make.
LEMMA ChainKept ==
  ASSUME NEW t, Gradable(t), NEW old, NEW new, NEW a, RightVerdict(t, old, new, a)
  PROVE  Better(ChainReconstruction(t, old), ChainReconstruction(t, new))
<1> DEFINE found(invs) == UNION {invs[x].correlated : x \in DOMAIN invs}
           last == Len(t.kill) - 1
           links == {{t.kill[n], t.kill[n + 1]} : n \in 1..last}
           link == [n \in 1..last |-> {t.kill[n], t.kill[n + 1]}]
<1>1. IsFiniteSet(1..last)
  <2>1. last \in Int
    BY DEF Gradable
  <2> QED
    BY <2>1, FS_Interval
<1>2. link \in Surjection(1..last, links)
  BY DEF Surjection
<1>3. IsFiniteSet(links)
  BY <1>1, <1>2, FS_Surjection
<1>4. found(old) = found(new)
  <2>1. /\ DOMAIN old = Alerts(t) /\ DOMAIN new = Alerts(t)
        /\ \A x \in Alerts(t) : new[x].correlated = old[x].correlated
    BY DEF RightVerdict, SameWork
  <2> QED
    BY <2>1
<1>5. ChainReconstruction(t, old) =
        IF Len(t.kill) < 2 THEN 0
        ELSE Share(Cardinality(links \cap found(old)), Cardinality(links))
  BY DEF ChainReconstruction
<1>6. ChainReconstruction(t, new) =
        IF Len(t.kill) < 2 THEN 0
        ELSE Share(Cardinality(links \cap found(new)), Cardinality(links))
  BY DEF ChainReconstruction
<1> HIDE DEF links, found
<1>7. Cardinality(links) \in Nat
  BY <1>3, FS_CardinalityType
<1>8. Share(Cardinality(links \cap found(old)), Cardinality(links)) \in Nat
  BY <1>3, <1>7, ShareOfMore
<1> QED
  BY <1>4, <1>5, <1>6, <1>8 DEF Better

\* The three single-alert components look at the first alert only.
LEMMA SingleGrows ==
  ASSUME NEW t, Gradable(t), NEW old, NEW new, NEW a, RightVerdict(t, old, new, a)
  PROVE  /\ Better(SingleTechnique(t, old[1]), SingleTechnique(t, new[1]))
         /\ Better(SingleEvidence(t, old[1]), SingleEvidence(t, new[1]))
         /\ Better(SingleResponse(t, old[1]), SingleResponse(t, new[1]))
<1>1. /\ new[1].mapped = old[1].mapped /\ new[1].queried = old[1].queried
      /\ new[1].recommended = old[1].recommended
  BY DEF Gradable, RightVerdict, SameWork
<1>2. /\ old[1].classification \in Judged => new[1].classification \in Judged
      /\ t.truth[1] \in Judged
  <2>1. a = 1 => new[1].classification \in Judged
    BY DEF Gradable, RightVerdict
  <2>2. a # 1 => new[1].classification = old[1].classification
    BY DEF Gradable, RightVerdict
  <2> QED
    BY <2>1, <2>2 DEF Gradable
<1>3. /\ IsFiniteSet(ToSet(t.keys[1].techniques)) /\ IsFiniteSet(ToSet(t.keys[1].responses))
      /\ IsFiniteSet(ToSet(t.keys[1].sources))
      /\ Cardinality(ToSet(t.keys[1].responses)) \in Nat
      /\ Cardinality(ToSet(t.keys[1].sources)) \in Nat
  BY FiniteRange DEF Gradable
<1>4. One \in Nat /\ One \div 2 \in Nat /\ One \div 2 <= One
  BY DEF One
<1>5. Better(SingleTechnique(t, old[1]), SingleTechnique(t, new[1]))
  <2>1. TechniqueMatch(old[1].mapped, ToSet(t.keys[1].techniques)) \in Nat
    BY <1>3, TechniqueMatchIsNat
  <2> QED
    BY <1>1, <1>2, <1>4, <2>1 DEF SingleTechnique, Better
<1>6. Better(SingleEvidence(t, old[1]), SingleEvidence(t, new[1]))
  <2>1. Share(Cardinality(old[1].queried \cap ToSet(t.keys[1].sources)),
              Cardinality(ToSet(t.keys[1].sources))) \in Nat
    BY <1>3, ShareOfMore
  <2> QED
    BY <1>1, <2>1 DEF SingleEvidence, Better
<1>7. Better(SingleResponse(t, old[1]), SingleResponse(t, new[1]))
  <2>1. Share(Cardinality(old[1].recommended \cap ToSet(t.keys[1].responses)),
              Cardinality(ToSet(t.keys[1].responses))) \in Nat
    BY <1>3, ShareOfMore
  <2> QED
    BY <1>1, <1>2, <1>4, <2>1 DEF SingleResponse, Better
<1> QED
  BY <1>5, <1>6, <1>7

-----------------------------------------------------------------------------
(* Grades.                                                                 *)

\* A right first verdict never lowers a grade, whatever else was or was not done.
LEMMA GradeGrows ==
  ASSUME NEW t, Gradable(t), t.name \in GradedTasks,
         NEW old, NEW new, NEW a, RightVerdict(t, old, new, a), NEW used
  PROVE  Grade(t, old, used) <= Grade(t, new, used)
<1>1. CASE t.name \in {"phishing", "ransomware", "cloud_compromise"}
  <2> DEFINE sum(invs) == 40 * ClassificationAccuracy(t, invs) + 20 * SingleTechnique(t, invs[1])
                            + 20 * SingleEvidence(t, invs[1]) + 20 * SingleResponse(t, invs[1])
  <2>1. sum(old) \in Nat /\ sum(new) \in Nat /\ sum(old) <= sum(new)
    BY AccuracyGrows, SingleGrows DEF Better
  <2>2. \A invs : Grade(t, invs, used) = Total(sum(invs))
    BY <1>1 DEF Grade, SingleAlertGrade
  <2> HIDE DEF sum
  <2> QED
    BY <2>1, <2>2, TotalGrows
<1>2. CASE t.name = "lateral_movement"
  <2> DEFINE sum(invs) == 30 * ClassificationAccuracy(t, invs) + 20 * TechniqueAccuracy(t, invs)
                            + 20 * ChainReconstruction(t, invs) + 20 * ResponseQuality(t, invs)
                            + 10 * EarnedEfficiency(t, invs, used)
  <2>1. sum(old) \in Nat /\ sum(new) \in Nat /\ sum(old) <= sum(new)
    BY AccuracyGrows, TechniquesKept, ChainKept, ResponseGrows, EfficiencyGrows DEF Better
  <2>2. \A invs : Grade(t, invs, used) = Total(sum(invs))
    BY <1>2 DEF Grade, LateralMovementGrade
  <2> HIDE DEF sum
  <2> QED
    BY <2>1, <2>2, TotalGrows
<1>3. /\ Better(ChainsWithin(t, Called(old, Positive)), ChainsWithin(t, Called(new, Positive)))
      /\ Better(ChainsWithin(t, Called(old, {"true_positive"})),
                ChainsWithin(t, Called(new, {"true_positive"})))
  BY CalledGrows, ChainsGrow DEF Judged, Positive
<1>4. CASE t.name = "queue_management"
  <2> DEFINE sum(invs) == 30 * PositiveF1(t, invs) + 20 * ChainsWithin(t, Called(invs, Positive))
                            + 20 * MissedTruePositives(t, invs, 20, 10)
                            + 15 * EarnedEfficiency(t, invs, used) + 15 * ResponseQuality(t, invs)
  <2>1. Better(MissedTruePositives(t, old, 20, 10), MissedTruePositives(t, new, 20, 10))
    BY MissedShrinks
  <2>2. sum(old) \in Nat /\ sum(new) \in Nat /\ sum(old) <= sum(new)
    BY <1>3, <2>1, PositiveF1Grows, ResponseGrows, EfficiencyGrows DEF Better
  <2>3. \A invs : Grade(t, invs, used) = Total(sum(invs))
    BY <1>4 DEF Grade, QueueManagementGrade
  <2> HIDE DEF sum
  <2> QED
    BY <2>2, <2>3, TotalGrows
<1>5. CASE t.name = "insider_threat"
  <2> DEFINE sum(invs) == 25 * PositiveF1(t, invs) + 25 * ChainsWithin(t, Called(invs, Positive))
                            + 20 * MissedTruePositives(t, invs, 11, 5)
                            + 15 * EarnedEfficiency(t, invs, used) + 15 * ResponseQuality(t, invs)
  <2>1. Better(MissedTruePositives(t, old, 11, 5), MissedTruePositives(t, new, 11, 5))
    BY MissedShrinks
  <2>2. sum(old) \in Nat /\ sum(new) \in Nat /\ sum(old) <= sum(new)
    BY <1>3, <2>1, PositiveF1Grows, ResponseGrows, EfficiencyGrows DEF Better
  <2>3. \A invs : Grade(t, invs, used) = Total(sum(invs))
    BY <1>5 DEF Grade, InsiderThreatGrade
  <2> HIDE DEF sum
  <2> QED
    BY <2>2, <2>3, TotalGrows
<1>6. CASE t.name = "apt_campaign"
  <2> DEFINE P == Those(t, "true_positive")
             C(invs) == Called(invs, {"true_positive"})
             f1(invs) == F1(Cardinality(P \cap C(invs)), Cardinality(C(invs) \ P),
                            Cardinality(P \ C(invs)))
             sum(invs) == 40 * f1(invs) + 25 * ChainsWithin(t, C(invs)) + 15 * Coverage(t, invs)
  <2>1. Better(f1(old), f1(new))
    <3>1. {"true_positive"} \in SUBSET Judged
      BY DEF Judged, Positive
    <3>2. /\ a \in Alerts(t) /\ a \notin C(old) /\ IsFiniteSet(C(old))
          /\ C(new) = C(old) \cup {x \in {a} : t.truth[a] \in {"true_positive"}}
      BY <3>1, CalledGrows
    <3>3. IsFiniteSet(P) /\ (t.truth[a] = "true_positive" => a \in P)
      BY <3>2, FS_Subset DEF Gradable, Those
    <3>4. C(new) = C(old) \/ (C(new) = C(old) \cup {a} /\ a \in P)
      BY <3>2, <3>3
    <3> HIDE DEF P, C
    <3> QED
      BY <3>2, <3>3, <3>4, HitsGrow
  <2>2. sum(old) \in Nat /\ sum(new) \in Nat /\ sum(old) <= sum(new)
    <3> HIDE DEF f1
    <3> QED
      BY <1>3, <2>1, CoverageGrows DEF Better
  <2>3. \A invs : Grade(t, invs, used) = Total(sum(invs))
    BY <1>6 DEF Grade, AptCampaignGrade
  <2> HIDE DEF sum
  <2> QED
    BY <2>2, <2>3, TotalGrows
<1> QED
  BY <1>1, <1>2, <1>4, <1>5, <1>6 DEF GradedTasks

-----------------------------------------------------------------------------
(* Plays.                                                                  *)

\* Every task of the benchmark can be graded, and its scenario has its verdicts.
LEMMA TaskFacts ==
  ASSUME NEW t \in Tasks
  PROVE  /\ Gradable(t) /\ t.name \in GradedTasks \cup TeamTasks
         /\ ScenarioOf(t) \in Scenario
         /\ AlertsOf(ScenarioOf(t)) = Alerts(t)
         /\ \A a \in Alerts(t) : ScenarioOf(t).truth[a] = t.truth[a]
<1>1. ScenarioOf(t) \in Scenario /\ ScenarioOf(t).alerts # <<>>
  BY TasksAreRegistered, ScenarioAssumption
<1>2. ScenarioOf(t).alerts = t.queue
  BY DEF ScenarioOf
<1>3. t.queue \in Seq(AlertIds) /\ t.queue # <<>>
  BY <1>1, <1>2 DEF Scenario
<1>4. /\ ToSet(t.queue) = DOMAIN t.alerts /\ DOMAIN t.truth = DOMAIN t.alerts
      /\ DOMAIN t.keys = DOMAIN t.alerts
  BY TasksAreValid DEF ValidScenario
<1>5. AlertsOf(ScenarioOf(t)) = Alerts(t)
  <2>1. DOMAIN t.queue = 1..Len(t.queue)
    BY <1>3
  <2> QED
    BY <1>2, <1>4, <2>1 DEF AlertsOf, Alerts, ToSet
<1>6. IsFiniteSet(Alerts(t)) /\ Alerts(t) \subseteq AlertIds
  BY <1>1, <1>5, AlertsFinite
<1>7. \A a \in Alerts(t) : ScenarioOf(t).truth[a] = t.truth[a]
  <2>1. ScenarioOf(t).truth = [a \in AlertIds |-> IF a \in DOMAIN t.truth THEN t.truth[a]
                                                  ELSE "false_positive"]
    BY DEF ScenarioOf
  <2> QED
    BY <1>6, <2>1 DEF Alerts
<1>8. /\ t.name \in GradedTasks \cup TeamTasks /\ t.truth \in Seq(Judged)
      /\ t.keys \in Seq([techniques : Seq(Techniques), responses : Seq(ResponseActions),
                         sources : Seq(LogSources), iocs : Seq(Indicators)])
      /\ t.chains \in Seq(Seq(AlertIds)) /\ t.kill \in Seq(AlertIds)
  BY TasksAreTyped
<1>9. 1 \in Alerts(t)
  <2>1. DOMAIN t.truth = 1..Len(t.truth) /\ Len(t.truth) \in Nat
    BY <1>8
  <2>2. t.queue[1] \in DOMAIN t.truth
    BY <1>3, <1>4 DEF ToSet
  <2> QED
    BY <2>1, <2>2 DEF Alerts
<1>10. \A a \in Alerts(t) : /\ t.truth[a] \in Judged
                            /\ t.keys[a].techniques \in Seq(Techniques)
                            /\ t.keys[a].responses \in Seq(ResponseActions)
                            /\ t.keys[a].sources \in Seq(LogSources)
  <2> DEFINE Keyed == [techniques : Seq(Techniques), responses : Seq(ResponseActions),
                      sources : Seq(LogSources), iocs : Seq(Indicators)]
  <2>1. ASSUME NEW a \in Alerts(t)
        PROVE  t.truth[a] \in Judged /\ t.keys[a] \in Keyed
    <3>1. a \in DOMAIN t.truth /\ a \in DOMAIN t.keys
      BY <1>4 DEF Alerts
    <3>2. t.truth \in Seq(Judged) /\ t.keys \in Seq(Keyed)
      BY <1>8
    <3> HIDE DEF Keyed
    <3> QED
      BY <3>1, <3>2
  <2> QED
    BY <2>1
<1> QED
  BY <1>1, <1>5, <1>6, <1>7, <1>8, <1>9, <1>10 DEF Gradable

\* The engine's team metric grows as well.
LEMMA TeamMetricGrows ==
  ASSUME NEW t \in Tasks, config = ScenarioOf(t),
         NEW old, NEW new, NEW a, RightVerdict(t, old, new, a)
  PROVE  TeamShared(old) \in Nat /\ TeamShared(new) \in Nat /\ TeamShared(old) <= TeamShared(new)
<1>1. /\ AlertsOf(config) = Alerts(t) /\ IsFiniteSet(Alerts(t)) /\ config \in Scenario
      /\ \A x \in Alerts(t) : config.truth[x] = t.truth[x] /\ t.truth[x] \in Judged
  BY TaskFacts DEF Gradable
<1>2. TeamShared(old) \in Nat /\ TeamShared(new) \in Nat
  BY <1>1, TeamSharedIsNat
<1> DEFINE contained(invs) ==
             {x \in Positives : /\ invs[x].classification = config.truth[x]
                                /\ invs[x].recommended # {} \/ invs[x].escalated}
           dismissed(invs) == {x \in Negatives : invs[x].classification = "false_positive"}
           c(invs) == IF Positives = {} THEN 1 ELSE Cardinality(contained(invs))
           d(invs) == IF Negatives = {} THEN 1 ELSE Cardinality(dismissed(invs))
<1>3. Positives \subseteq Alerts(t) /\ Negatives \subseteq Alerts(t)
  BY <1>1 DEF Positives, Negatives
<1>4. /\ IsFiniteSet(contained(old)) /\ IsFiniteSet(contained(new))
      /\ IsFiniteSet(dismissed(old)) /\ IsFiniteSet(dismissed(new))
  <2>1. IsFiniteSet(Positives) /\ IsFiniteSet(Negatives)
    BY <1>1, <1>3, FS_Subset
  <2> QED
    BY <2>1, FS_Subset
<1>5. \A x \in Alerts(t) : old[x].classification = config.truth[x]
                             => new[x].classification = config.truth[x]
  BY <1>1 DEF RightVerdict
<1>6. \A x \in Alerts(t) : /\ new[x].recommended = old[x].recommended
                           /\ new[x].escalated = old[x].escalated
  BY DEF RightVerdict, SameWork
<1>7. contained(old) \subseteq contained(new)
  BY <1>3, <1>5, <1>6
<1>8. dismissed(old) \subseteq dismissed(new)
  <2>1. \A x \in Negatives : config.truth[x] = "false_positive"
    BY DEF Positives, Negatives
  <2> QED
    BY <1>3, <1>5, <2>1
<1>9. TeamShared(old) = c(old) * d(old) /\ TeamShared(new) = c(new) * d(new)
  BY DEF TeamShared
<1> HIDE DEF contained, dismissed
<1>10. /\ Cardinality(contained(old)) \in Nat /\ Cardinality(contained(new)) \in Nat
       /\ Cardinality(dismissed(old)) \in Nat /\ Cardinality(dismissed(new)) \in Nat
  BY <1>4, FS_CardinalityType
<1>11. /\ Cardinality(contained(old)) <= Cardinality(contained(new))
       /\ Cardinality(dismissed(old)) <= Cardinality(dismissed(new))
  BY <1>4, <1>7, <1>8, FS_Subset
<1>12. /\ c(old) \in Nat /\ c(new) \in Nat /\ c(old) <= c(new)
       /\ d(old) \in Nat /\ d(new) \in Nat /\ d(old) <= d(new)
  BY <1>10, <1>11
<1> HIDE DEF c, d
<1>13. \A w, x, y, z \in Nat : w <= x /\ y <= z => w * y <= x * z
  <2> SUFFICES ASSUME NEW w \in Nat, NEW x \in Nat, NEW y \in Nat, NEW z \in Nat,
                      w <= x, y <= z
               PROVE  w * y <= x * z
    OBVIOUS
  <2>1. w * y <= x * y
    OBVIOUS
  <2>2. x * y <= x * z
    OBVIOUS
  <2>3. w * y \in Nat /\ x * y \in Nat /\ x * z \in Nat
    OBVIOUS
  <2> QED
    BY <2>1, <2>2, <2>3
<1>14. c(old) * d(old) <= c(new) * d(new)
  BY <1>12, <1>13
<1> QED
  BY <1>2, <1>9, <1>14

\* A submission after a right first verdict is graded no lower.
LEMMA GradeAtGrows ==
  ASSUME task \in Tasks, config = ScenarioOf(task),
         NEW old, NEW new, NEW a, RightVerdict(task, old, new, a), NEW used
  PROVE  GradeAt(used, old) <= GradeAt(used, new)
<1>1. Gradable(task) /\ task.name \in GradedTasks \cup TeamTasks /\ config \in Scenario
  BY TaskFacts
<1>2. CASE task.name \in TeamTasks
  <2> DEFINE x == 1000 * TeamShared(old)
             y == 1000 * TeamShared(new)
  <2>1. TeamShared(old) \in Nat /\ TeamShared(new) \in Nat /\ TeamShared(old) <= TeamShared(new)
    BY TeamMetricGrows
  <2>2. x \in Nat /\ y \in Nat /\ x <= y
    BY <2>1
  <2>3. Scale \in Nat \ {0}
    BY <1>1, ScaleIsPositive
  <2>4. GradeAt(used, old) = Bounded(x \div Scale) /\ GradeAt(used, new) = Bounded(y \div Scale)
    BY <1>2 DEF GradeAt
  <2> HIDE DEF x, y
  <2> QED
    BY <2>2, <2>3, <2>4, BoundedGrows
<1>3. CASE task.name \notin TeamTasks
  BY <1>1, <1>3, GradeGrows DEF GradeAt
<1> QED
  BY <1>2, <1>3

\* While a task is played, the engine holds its scenario and an investigation of
\* every one of its alerts.
PlayInv ==
  /\ task \in Tasks
  /\ player # None =>
       /\ config = ScenarioOf(task)
       /\ DOMAIN investigations = AlertsOf(config)
       /\ \A a \in AlertsOf(config) : DOMAIN investigations[a] = DOMAIN Untouched

\* A move changes at most one investigation's verdict, or none and only the evidence.
OneVerdict == \E a, c : investigations' = [investigations EXCEPT ![a].classification = c]
MoreEvidence ==
  /\ DOMAIN investigations' = DOMAIN investigations
  /\ \A a \in DOMAIN investigations :
       /\ DOMAIN investigations'[a] = DOMAIN investigations[a]
       /\ investigations'[a].classification = investigations[a].classification

\* Adding to what is known of an alert changes no verdict.
LEMMA RecordEffect ==
  ASSUME NEW a, NEW field, field # "classification", NEW x, Record(a, field, x)
  PROVE  MoreEvidence
<1>1. investigations' = [investigations EXCEPT ![a] = Noted(@, field, x)]
  BY DEF Record
<1>2. \A inv : DOMAIN Noted(inv, field, x) = DOMAIN inv
                /\ Noted(inv, field, x).classification = inv.classification
  BY DEF Noted
<1> QED
  BY <1>1, <1>2 DEF MoreEvidence

\* Any move of an agent gives at most one verdict, in an unchanged scenario.
LEMMA MoveEffect ==
  ASSUME NEW move, Play(move)
  PROVE  UNCHANGED config /\ (OneVerdict \/ MoreEvidence)
<1>1. \A sig, r : Commit(sig, r) => UNCHANGED config
  BY DEF Commit
<1>2. CASE Enrich(move[2], move[3])
  BY <1>1, <1>2, RecordEffect DEF Enrich
<1>3. CASE QueryLogs(move[2], move[3])
  BY <1>1, <1>3, RecordEffect DEF QueryLogs
<1>4. CASE Correlate(move[2], move[3])
  BY <1>1, <1>4 DEF Correlate, MoreEvidence
<1>5. CASE Classify(move[2], move[3])
  <2>1. investigations' = [investigations EXCEPT ![move[2]].classification = move[3]]
    BY <1>5 DEF Classify
  <2>2. OneVerdict
    BY <2>1, Zenon DEF OneVerdict
  <2> QED
    BY <1>1, <1>5, <2>2 DEF Classify
<1>6. CASE MapTechnique(move[2], move[3])
  BY <1>1, <1>6, RecordEffect DEF MapTechnique
<1>7. CASE RecommendAction(move[2], move[3])
  BY <1>1, <1>7, RecordEffect DEF RecommendAction
<1>8. CASE SoloSubmitScored(GradeAt(step + 1, investigations))
  BY <1>8 DEF SoloSubmitScored, casework, MoreEvidence
<1> QED
  BY <1>2, <1>3, <1>4, <1>5, <1>6, <1>7, <1>8 DEF Play

\* Whatever is played, the engine's case is that of the task.
LEMMA PlayStep ==
  ASSUME PlayInv, [PlayNext]_allVars
  PROVE  PlayInv'
<1>1. CASE StartPlay
  <2>1. Begin(ScenarioOf(task), "tier1_solo") /\ task' = task
    BY <1>1 DEF StartPlay
  <2>2. /\ config' = ScenarioOf(task)
        /\ investigations' = [a \in AlertsOf(ScenarioOf(task)) |-> Untouched]
    BY <2>1 DEF Begin
  <2> QED
    BY <2>1, <2>2 DEF PlayInv, AlertsOf
<1>2. CASE Act
  <2>1. player # None /\ Play(Move) /\ UNCHANGED <<task, player>>
    BY <1>2 DEF Act
  <2>2. UNCHANGED config /\ (OneVerdict \/ MoreEvidence)
    BY <2>1, MoveEffect
  <2>3. AlertsOf(config)' = AlertsOf(config)
    BY <2>2 DEF AlertsOf
  <2>4. DOMAIN investigations' = DOMAIN investigations
    BY <2>2 DEF OneVerdict, MoreEvidence
  <2>5. \A a \in DOMAIN investigations : DOMAIN investigations'[a] = DOMAIN investigations[a]
    BY <2>2 DEF OneVerdict, MoreEvidence
  <2> QED
    BY <2>1, <2>2, <2>3, <2>4, <2>5 DEF PlayInv
<1>3. CASE Interfere
  BY <1>3 DEF Interfere, PlayInv, vars, casework, AlertsOf
<1>4. CASE EndPlay
  BY <1>4 DEF EndPlay, PlayInv
<1>5. CASE TaskPlayed \/ UNCHANGED allVars
  BY <1>5 DEF TaskPlayed, allVars, agent, vars, casework, PlayInv, AlertsOf
<1> QED
  BY <1>1, <1>2, <1>3, <1>4, <1>5 DEF PlayNext

\* The step in which an open alert gets its right verdict is the verdict.
LEMMA VerdictPays ==
  ASSUME PlayInv, PlayNext, NEW a \in DOMAIN investigations,
         player # None, player' = player, Open(investigations[a]),
         investigations'[a].classification = config.truth[a]
  PROVE  GradeAt(step + 1, investigations') >= GradeAt(step + 1, investigations)
<1>1. /\ task \in Tasks /\ config = ScenarioOf(task)
      /\ DOMAIN investigations = AlertsOf(config)
      /\ \A x \in AlertsOf(config) : DOMAIN investigations[x] = DOMAIN Untouched
  BY DEF PlayInv
<1>2. /\ AlertsOf(config) = Alerts(task) /\ Gradable(task)
      /\ \A x \in Alerts(task) : config.truth[x] = task.truth[x]
  BY <1>1, TaskFacts
<1>3. a \in Alerts(task) /\ investigations'[a].classification = task.truth[a]
  BY <1>1, <1>2
<1>4. investigations'[a].classification # investigations[a].classification
  BY <1>2, <1>3 DEF Gradable, Open, Judged, Positive
<1>5. OneVerdict \/ MoreEvidence
  <2>1. CASE Act
    BY <2>1, MoveEffect DEF Act
  <2>2. CASE Interfere
    BY <2>2 DEF Interfere, vars, casework, MoreEvidence
  <2>3. ~StartPlay /\ ~EndPlay /\ ~TaskPlayed
    BY DEF StartPlay, EndPlay, TaskPlayed
  <2> QED
    BY <2>1, <2>2, <2>3 DEF PlayNext
<1>6. PICK b, c : investigations' = [investigations EXCEPT ![b].classification = c]
  BY <1>4, <1>5 DEF OneVerdict, MoreEvidence
<1>7. b = a
  BY <1>4, <1>6
<1>8. RightVerdict(task, investigations, investigations', a)
  <2>1. \A x \in Alerts(task) :
          /\ SameWork(investigations'[x], investigations[x])
          /\ x # a => investigations'[x].classification = investigations[x].classification
    BY <1>1, <1>2, <1>6, <1>7 DEF SameWork, Untouched
  <2>2. DOMAIN investigations' = DOMAIN investigations
    BY <1>6
  <2> QED
    BY <1>1, <1>2, <1>3, <2>1, <2>2 DEF RightVerdict
<1>9. GradeAt(step + 1, investigations) <= GradeAt(step + 1, investigations')
  BY <1>1, <1>8, GradeAtGrows
<1> QED
  BY <1>9

\* For every task, queue and policy: the first verdict on an alert, if it is the
\* answer key's, lowers the grade of no submission (graders/, compute_team_metrics).
THEOREM RightVerdictsPay == PlaySpec => RightVerdictNeverCosts
<1>1. PlayInit => PlayInv
  BY DEF PlayInit, PlayInv
<1>2. PlayInv /\ [PlayNext]_allVars => PlayInv'
  BY PlayStep
<1>3. PlayInv /\ [PlayNext]_allVars =>
        [\A a \in DOMAIN investigations :
           /\ player # None /\ player' = player
           /\ Open(investigations[a])
           /\ investigations'[a].classification = config.truth[a]
           => GradeAt(step + 1, investigations') >= GradeAt(step + 1, investigations)]_allVars
  BY VerdictPays
<1> QED
  BY <1>1, <1>2, <1>3, PTL DEF PlaySpec, RightVerdictNeverCosts

-----------------------------------------------------------------------------
(* Lists of work.  What the playbooks do to a queue is built from          *)
(* FlattenSeq, a recursive function: neither a first position at which it  *)
(* is undefined nor one at which it has lost a member exists.              *)

\* A function on the first k numbers is a sequence.
LEMMA FunctionIsSeq ==
  ASSUME NEW T, NEW k \in Nat, NEW f \in [1..k -> T]
  PROVE  f \in Seq(T) /\ Len(f) = k
<1>1. f = [n \in 1..k |-> f[n]] /\ \A n \in 1..k : f[n] \in T
  OBVIOUS
<1> QED
  BY <1>1

\* The members of a concatenation.
LEMMA ConcatMembers ==
  ASSUME NEW T, NEW s \in Seq(T), NEW t \in Seq(T)
  PROVE  s \o t \in Seq(T) /\ ToSet(s \o t) = ToSet(s) \cup ToSet(t)
<1>1. /\ s \o t \in Seq(T) /\ DOMAIN (s \o t) = 1..(Len(s) + Len(t))
      /\ DOMAIN s = 1..Len(s) /\ DOMAIN t = 1..Len(t) /\ Len(s) \in Nat /\ Len(t) \in Nat
  OBVIOUS
<1>2. \A n \in 1..Len(s) : (s \o t)[n] = s[n]
  OBVIOUS
<1>3. \A n \in 1..Len(t) : (s \o t)[Len(s) + n] = t[n]
  OBVIOUS
<1>4. \A n \in 1..(Len(s) + Len(t)) :
        n \in 1..Len(s) \/ (n - Len(s) \in 1..Len(t) /\ n = Len(s) + (n - Len(s)))
  BY <1>1
<1>5. ASSUME NEW x \in ToSet(s \o t)
      PROVE  x \in ToSet(s) \cup ToSet(t)
  <2>1. PICK n \in 1..(Len(s) + Len(t)) : x = (s \o t)[n]
    BY <1>1 DEF ToSet
  <2>2. CASE n \in 1..Len(s)
    BY <1>1, <1>2, <2>1, <2>2 DEF ToSet
  <2>3. CASE n - Len(s) \in 1..Len(t) /\ n = Len(s) + (n - Len(s))
    <3>1. x = t[n - Len(s)]
      BY <1>3, <2>1, <2>3
    <3> QED
      BY <1>1, <2>3, <3>1 DEF ToSet
  <2> QED
    BY <1>4, <2>2, <2>3
<1>6. ASSUME NEW x \in ToSet(s) \cup ToSet(t)
      PROVE  x \in ToSet(s \o t)
  <2>1. CASE x \in ToSet(s)
    <3>1. PICK n \in 1..Len(s) : x = s[n]
      BY <1>1, <2>1 DEF ToSet
    <3>2. n \in 1..(Len(s) + Len(t)) /\ x = (s \o t)[n]
      BY <1>1, <1>2, <3>1
    <3> QED
      BY <1>1, <3>2 DEF ToSet
  <2>2. CASE x \in ToSet(t)
    <3>1. PICK n \in 1..Len(t) : x = t[n]
      BY <1>1, <2>2 DEF ToSet
    <3>2. Len(s) + n \in 1..(Len(s) + Len(t)) /\ x = (s \o t)[Len(s) + n]
      BY <1>1, <1>3, <3>1
    <3> QED
      BY <1>1, <3>2 DEF ToSet
  <2> QED
    BY <2>1, <2>2
<1> QED
  BY <1>1, <1>5, <1>6

\* The members of a flattened sequence are those of its parts.
LEMMA FlattenMembers ==
  ASSUME NEW T, NEW ss \in Seq(Seq(T))
  PROVE  FlattenSeq(ss) \in Seq(T) /\ ToSet(FlattenSeq(ss)) = UNION {ToSet(ss[n]) : n \in DOMAIN ss}
<1> DEFINE L == Len(ss)
           round(g) == [i \in 1..L |-> IF i = 1 THEN ss[i] ELSE g[i - 1] \o ss[i]]
           flat == CHOOSE g : g = round(g)
           Upto(g, n) == /\ g \in [1..n -> Seq(T)]
                         /\ \A i \in 1..n : g[i] = IF i = 1 THEN ss[i] ELSE g[i - 1] \o ss[i]
           undefined == {n \in 1..L : ~ \E g : Upto(g, n)}
           parts(i) == UNION {ToSet(ss[n]) : n \in 1..i}
           wrong == {i \in 1..L : ~(flat[i] \in Seq(T) /\ ToSet(flat[i]) = parts(i))}
<1>1. L \in Nat /\ DOMAIN ss = 1..L /\ \A n \in 1..L : ss[n] \in Seq(T)
  OBVIOUS
<1>2. CASE L = 0
  <2>1. ss = <<>>
    BY <1>2
  <2> QED
    BY <1>2, <2>1 DEF FlattenSeq, ToSet
<1>3. CASE L # 0
  <2>1. L \in 1..L
    BY <1>1, <1>3
  <2>2. undefined = {}
    <3> SUFFICES ASSUME undefined # {} PROVE FALSE
      OBVIOUS
    <3>1. undefined \subseteq Nat
      BY <1>1
    <3>2. PICK n \in undefined : \A m \in undefined : n <= m
      <4> HIDE DEF undefined
      <4> QED
        BY <3>1, LeastExists
    <3>3. n \in 1..L /\ ~ \E g : Upto(g, n)
      BY <3>2
    <3>4. CASE n = 1
      <4>1. Upto([i \in 1..1 |-> ss[1]], 1)
        BY <1>1, <3>3, <3>4
      <4> QED
        BY <3>3, <3>4, <4>1
    <3>5. CASE n # 1
      <4>1. n - 1 \in 1..L /\ n - 1 \notin undefined
        <5>1. n - 1 \in 1..L /\ ~(n <= n - 1)
          BY <1>1, <3>3, <3>5
        <5> HIDE DEF undefined
        <5> QED
          BY <3>2, <5>1
      <4>2. PICK g : Upto(g, n - 1)
        BY <4>1
      <4> DEFINE h == [i \in 1..n |-> IF i = n THEN g[n - 1] \o ss[n] ELSE g[i]]
      <4>3. h \in [1..n -> Seq(T)]
        <5>1. g[n - 1] \o ss[n] \in Seq(T)
          BY <1>1, <3>3, <4>1, <4>2
        <5>2. \A i \in 1..n : i # n => g[i] \in Seq(T)
          BY <3>3, <4>2
        <5> QED
          BY <5>1, <5>2
      <4>4. \A i \in 1..n : h[i] = IF i = 1 THEN ss[i] ELSE h[i - 1] \o ss[i]
        <5>1. ASSUME NEW i \in 1..n
              PROVE  h[i] = IF i = 1 THEN ss[i] ELSE h[i - 1] \o ss[i]
          <6>1. CASE i = n
            <7>1. h[i - 1] = g[n - 1]
              BY <3>3, <3>5, <6>1
            <7> QED
              BY <3>5, <6>1, <7>1
          <6>2. CASE i # n
            <7>1. i \in 1..(n - 1) /\ h[i] = g[i]
              BY <3>3, <6>2
            <7>2. i # 1 => h[i - 1] = g[i - 1]
              BY <3>3, <6>2
            <7> QED
              BY <4>2, <7>1, <7>2
          <6> QED
            BY <6>1, <6>2
        <5> QED
          BY <5>1
      <4> HIDE DEF h
      <4> QED
        BY <3>3, <4>3, <4>4
    <3> QED
      BY <3>4, <3>5
  <2>3. PICK g : Upto(g, L)
    BY <2>1, <2>2
  <2>4. g = round(g)
    BY <2>3
  <2>5. flat = round(flat)
    <3> HIDE DEF round
    <3> QED
      BY <2>4, Zenon
  <2> HIDE DEF flat
  <2>6. wrong = {}
    <3> SUFFICES ASSUME wrong # {} PROVE FALSE
      OBVIOUS
    <3>1. wrong \subseteq Nat
      BY <1>1
    <3>2. PICK i \in wrong : \A m \in wrong : i <= m
      <4> HIDE DEF wrong
      <4> QED
        BY <3>1, LeastExists
    <3>3. i \in 1..L /\ ~(flat[i] \in Seq(T) /\ ToSet(flat[i]) = parts(i))
      BY <3>2
    <3>4. flat[i] = IF i = 1 THEN ss[i] ELSE flat[i - 1] \o ss[i]
      BY <2>5, <3>3
    <3>5. CASE i = 1
      <4>1. flat[i] = ss[1] /\ ss[1] \in Seq(T)
        BY <1>1, <3>3, <3>4, <3>5
      <4>2. 1..i = {1}
        BY <3>5
      <4>3. parts(i) = ToSet(ss[1])
        BY <4>2, Zenon
      <4> HIDE DEF parts
      <4> QED
        BY <3>3, <4>1, <4>3
    <3>6. CASE i # 1
      <4>1. i - 1 \in 1..L /\ i - 1 \notin wrong
        <5>1. i - 1 \in 1..L /\ ~(i <= i - 1)
          BY <1>1, <3>3, <3>6
        <5> HIDE DEF wrong
        <5> QED
          BY <3>2, <5>1
      <4>2. flat[i - 1] \in Seq(T) /\ ToSet(flat[i - 1]) = parts(i - 1)
        BY <4>1
      <4>3. flat[i] \in Seq(T) /\ ToSet(flat[i]) = parts(i - 1) \cup ToSet(ss[i])
        BY <1>1, <3>3, <3>4, <3>6, <4>2, ConcatMembers
      <4>4. 1..i = 1..(i - 1) \cup {i}
        BY <3>3
      <4>5. parts(i - 1) \cup ToSet(ss[i]) = parts(i)
        BY <4>4, Zenon
      <4> QED
        BY <3>3, <4>3, <4>5
    <3> QED
      BY <3>5, <3>6
  <2>7. FlattenSeq(ss) = flat[L]
    BY <1>3 DEF FlattenSeq, flat
  <2>8. flat[L] \in Seq(T) /\ ToSet(flat[L]) = parts(L)
    BY <2>1, <2>6
  <2> QED
    BY <1>1, <2>7, <2>8
<1> QED
  BY <1>2, <1>3

\* A part of a sequence is a sequence of its members.
LEMMA PickMembers ==
  ASSUME NEW T, NEW q \in Seq(T), NEW S, NEW ss, ss = [n \in DOMAIN q |-> ss[n]],
         \A n \in DOMAIN q : ss[n] = IF q[n] \in S THEN <<q[n]>> ELSE <<>>
  PROVE  FlattenSeq(ss) \in Seq(T) /\ ToSet(FlattenSeq(ss)) = ToSet(q) \cap S
<1>1. /\ DOMAIN q = 1..Len(q) /\ Len(q) \in Nat
      /\ \A n \in DOMAIN q : q[n] \in T
  OBVIOUS
<1>2. \A n \in DOMAIN q : ss[n] \in Seq(T) /\ ToSet(ss[n]) = IF q[n] \in S THEN {q[n]} ELSE {}
  <2>1. \A x \in T : <<x>> \in Seq(T) /\ ToSet(<<x>>) = {x}
    BY DEF ToSet
  <2>2. <<>> \in Seq(T) /\ ToSet(<<>>) = {}
    BY DEF ToSet
  <2> QED
    BY <1>1, <2>1, <2>2
<1>3. ss \in Seq(Seq(T)) /\ DOMAIN ss = DOMAIN q
  BY <1>1, <1>2
<1>4. FlattenSeq(ss) \in Seq(T) /\ ToSet(FlattenSeq(ss)) = UNION {ToSet(ss[n]) : n \in DOMAIN q}
  BY <1>3, FlattenMembers
<1>5. UNION {ToSet(ss[n]) : n \in DOMAIN q} = ToSet(q) \cap S
  <2>1. ASSUME NEW x \in UNION {ToSet(ss[n]) : n \in DOMAIN q}
        PROVE  x \in ToSet(q) \cap S
    <3>1. PICK n \in DOMAIN q : x \in ToSet(ss[n])
      BY Zenon
    <3>2. x = q[n] /\ q[n] \in S
      BY <1>2, <3>1
    <3> QED
      BY <3>2 DEF ToSet
  <2>2. ASSUME NEW x \in ToSet(q) \cap S
        PROVE  x \in UNION {ToSet(ss[n]) : n \in DOMAIN q}
    <3>1. PICK n \in DOMAIN q : x = q[n]
      BY DEF ToSet
    <3>2. x \in ToSet(ss[n])
      BY <1>2, <3>1
    <3> QED
      BY <3>2, Zenon
  <2> QED
    BY <2>1, <2>2
<1> QED
  BY <1>4, <1>5

\* A list of whatever it lists.
List(s) == s \in Seq(ToSet(s))

\* An entry for every member of a sequence makes a list, which is empty if the
\* sequence is, and starts with the entry of a member.
LEMMA EachMember ==
  ASSUME NEW T, NEW q \in Seq(T), NEW f, f = [n \in DOMAIN q |-> f[n]]
  PROVE  /\ List(f) /\ (f = <<>> <=> ToSet(q) = {})
         /\ f # <<>> => \E n \in DOMAIN q : q[n] \in ToSet(q) /\ Head(f) = f[n]
<1>1. DOMAIN q = 1..Len(q) /\ Len(q) \in Nat
  OBVIOUS
<1>2. \A n \in DOMAIN q : f[n] \in ToSet(f) /\ q[n] \in ToSet(q)
  BY DEF ToSet
<1>3. f \in Seq(ToSet(f)) /\ Len(f) = Len(q)
  BY <1>1, <1>2
<1>4. f = <<>> <=> Len(q) = 0
  BY <1>3
<1>5. Len(q) = 0 <=> ToSet(q) = {}
  <2>1. CASE Len(q) = 0
    <3>1. DOMAIN q = {}
      BY <1>1, <2>1
    <3> QED
      BY <2>1, <3>1 DEF ToSet
  <2>2. CASE Len(q) # 0
    <3>1. 1 \in DOMAIN q
      BY <1>1, <2>2
    <3> QED
      BY <1>2, <2>2, <3>1
  <2> QED
    BY <2>1, <2>2
<1>6. Len(q) # 0 => 1 \in DOMAIN q /\ Head(f) = f[1]
  BY <1>1, <1>3
<1> QED
  BY <1>2, <1>3, <1>4, <1>5, <1>6 DEF List

\* The head of a list of lists is the head of the first that is not empty.
LEMMA HeadOfLists ==
  ASSUME NEW s, List(s), NEW t, List(t)
  PROVE  /\ List(s \o t)
         /\ s # <<>> => s \o t # <<>> /\ Head(s \o t) = Head(s)
         /\ s = <<>> => s \o t = t
<1> DEFINE T == ToSet(s) \cup ToSet(t)
<1>1. s \in Seq(T) /\ t \in Seq(T)
  BY DEF List
<1>2. s \o t \in Seq(T) /\ ToSet(s \o t) = T
  BY <1>1, ConcatMembers
<1> HIDE DEF T
<1>3. s # <<>> => s \o t # <<>> /\ Head(s \o t) = Head(s)
  BY <1>1
<1>4. s = <<>> => s \o t = t
  BY <1>1
<1> QED
  BY <1>2, <1>3, <1>4 DEF List

\* The queue of a task, and the queue by severity.
LEMMA QueueFacts ==
  ASSUME NEW t \in Tasks
  PROVE  /\ t.queue \in Seq(AlertIds) /\ ToSet(t.queue) = Alerts(t) /\ Alerts(t) \subseteq AlertIds
         /\ \A a \in Alerts(t) :
              /\ t.alerts[a].severity \in ToSet(SeverityOrder)
              /\ t.alerts[a].indicators \in Seq([type : STRING, names : Seq(Indicators)])
<1>1. ScenarioOf(t) \in Scenario /\ AlertsOf(ScenarioOf(t)) = Alerts(t)
  BY TaskFacts
<1>2. ScenarioOf(t).alerts = t.queue
  BY DEF ScenarioOf
<1>3. t.queue \in Seq(AlertIds)
  BY <1>1, <1>2 DEF Scenario
<1>4. ToSet(t.queue) = DOMAIN t.alerts /\ DOMAIN t.truth = DOMAIN t.alerts
  BY TasksAreValid DEF ValidScenario
<1>5. Alerts(t) = DOMAIN t.alerts
  BY <1>4 DEF Alerts
<1>6. Alerts(t) \subseteq AlertIds
  BY <1>3, <1>4, <1>5 DEF ToSet
<1> QED
  BY <1>3, <1>4, <1>5, <1>6, TasksAreTyped

\* Sorting a queue by severity neither loses an alert nor invents one.
LEMMA SeverityOrdered ==
  ASSUME NEW t \in Tasks, NEW q \in Seq(AlertIds), ToSet(q) \subseteq Alerts(t)
  PROVE  BySeverity(t, q) \in Seq(AlertIds) /\ ToSet(BySeverity(t, q)) = ToSet(q)
<1> DEFINE having(r) == {a \in AlertIds : t.alerts[a].severity = SeverityOrder[r]}
           part(r) == [n \in DOMAIN q |-> IF t.alerts[q[n]].severity = SeverityOrder[r]
                                          THEN <<q[n]>> ELSE <<>>]
           ss == [r \in DOMAIN SeverityOrder |-> FlattenSeq(part(r))]
<1>1. BySeverity(t, q) = FlattenSeq(ss)
  BY DEF BySeverity, Ranked, Each, Pick
<1>2. DOMAIN SeverityOrder = 1..5
  BY DEF SeverityOrder
<1>3. ASSUME NEW r \in 1..5
      PROVE  ss[r] \in Seq(AlertIds) /\ ToSet(ss[r]) = ToSet(q) \cap having(r)
  <2>1. /\ part(r) = [n \in DOMAIN q |-> part(r)[n]]
        /\ \A n \in DOMAIN q : part(r)[n] = IF q[n] \in having(r) THEN <<q[n]>> ELSE <<>>
    OBVIOUS
  <2>2. ss[r] = FlattenSeq(part(r))
    BY <1>2
  <2> HIDE DEF part, having, ss
  <2>3. /\ FlattenSeq(part(r)) \in Seq(AlertIds)
        /\ ToSet(FlattenSeq(part(r))) = ToSet(q) \cap having(r)
    BY <2>1, PickMembers, ZenonT(30)
  <2> QED
    BY <2>2, <2>3
<1>4. ss \in [1..5 -> Seq(AlertIds)]
  <2>1. ss = [r \in 1..5 |-> ss[r]]
    BY <1>2
  <2> HIDE DEF ss
  <2> QED
    BY <1>3, <2>1
<1>5. \A a \in ToSet(q) : \E r \in 1..5 : a \in having(r)
  <2>1. ASSUME NEW a \in ToSet(q) PROVE \E r \in 1..5 : a \in having(r)
    <3>1. a \in AlertIds /\ t.alerts[a].severity \in ToSet(SeverityOrder)
      BY QueueFacts
    <3>2. PICK r \in 1..5 : t.alerts[a].severity = SeverityOrder[r]
      BY <1>2, <3>1 DEF ToSet
    <3> QED
      BY <3>1, <3>2
  <2> QED
    BY <2>1
<1> HIDE DEF ss, having, part
<1>6. ss \in Seq(Seq(AlertIds)) /\ DOMAIN ss = 1..5
  BY <1>4, FunctionIsSeq
<1>7. /\ FlattenSeq(ss) \in Seq(AlertIds)
      /\ ToSet(FlattenSeq(ss)) = UNION {ToSet(ss[r]) : r \in DOMAIN ss}
  BY <1>6, FlattenMembers
<1>8. UNION {ToSet(ss[r]) : r \in DOMAIN ss} = ToSet(q)
  <2>1. ASSUME NEW a \in ToSet(q) PROVE a \in UNION {ToSet(ss[r]) : r \in DOMAIN ss}
    <3>1. PICK r \in 1..5 : a \in having(r)
      BY <1>5
    <3>2. a \in ToSet(ss[r])
      BY <1>3, <3>1
    <3> QED
      BY <1>6, <3>2, Zenon
  <2>2. \A r \in DOMAIN ss : ToSet(ss[r]) \subseteq ToSet(q)
    BY <1>3, <1>6
  <2>3. UNION {ToSet(ss[r]) : r \in DOMAIN ss} \subseteq ToSet(q)
    BY <2>2, Zenon
  <2> QED
    BY <2>1, <2>3
<1> QED
  BY <1>1, <1>7, <1>8

\* An alert called real that lacks a technique or a response.
Due(inv) == /\ inv.classification \in {"true_positive", "benign_true_positive"}
            /\ inv.mapped = {} \/ inv.recommended = {}

\* What the lists of work hold: the alerts that lack a verdict, a technique, a
\* response, or that are called real and lack one of the last two.
LEMMA WorkLeft ==
  ASSUME NEW q \in Seq(AlertIds), NEW invs
  PROVE  /\ Unjudged(q, invs) \in Seq(AlertIds) /\ Unmapped(q, invs) \in Seq(AlertIds)
         /\ Unanswered(q, invs) \in Seq(AlertIds)
         /\ ToSet(Unjudged(q, invs)) = {a \in ToSet(q) : Open(invs[a])}
         /\ ToSet(Unmapped(q, invs)) = {a \in ToSet(q) : invs[a].mapped = {}}
         /\ ToSet(Unanswered(q, invs)) = {a \in ToSet(q) : invs[a].recommended = {}}
         /\ Unfollowed(q, invs) \in Seq(AlertIds)
         /\ ToSet(Unfollowed(q, invs)) = {a \in ToSet(q) : Due(invs[a])}
<1>1. \A n \in DOMAIN q : q[n] \in AlertIds /\ q[n] \in ToSet(q)
  BY DEF ToSet
<1>2. /\ Unjudged(q, invs) \in Seq(AlertIds)
      /\ ToSet(Unjudged(q, invs)) = {a \in ToSet(q) : Open(invs[a])}
  <2> DEFINE S == {a \in ToSet(q) : Open(invs[a])}
             ss == [n \in DOMAIN q |-> IF Open(invs[q[n]]) THEN <<q[n]>> ELSE <<>>]
  <2>1. Unjudged(q, invs) = FlattenSeq(ss)
    BY DEF Unjudged, Pick, Each
  <2>2. /\ ss = [n \in DOMAIN q |-> ss[n]]
        /\ \A n \in DOMAIN q : ss[n] = IF q[n] \in S THEN <<q[n]>> ELSE <<>>
    BY <1>1
  <2>3. ToSet(q) \cap S = S
    OBVIOUS
  <2> HIDE DEF S, ss
  <2>4. FlattenSeq(ss) \in Seq(AlertIds) /\ ToSet(FlattenSeq(ss)) = ToSet(q) \cap S
    BY <2>2, PickMembers, ZenonT(30)
  <2> QED
    BY <2>1, <2>3, <2>4 DEF S
<1>3. /\ Unmapped(q, invs) \in Seq(AlertIds)
      /\ ToSet(Unmapped(q, invs)) = {a \in ToSet(q) : invs[a].mapped = {}}
  <2> DEFINE S == {a \in ToSet(q) : invs[a].mapped = {}}
             ss == [n \in DOMAIN q |-> IF invs[q[n]].mapped = {} THEN <<q[n]>> ELSE <<>>]
  <2>1. Unmapped(q, invs) = FlattenSeq(ss)
    BY DEF Unmapped, Pick, Each
  <2>2. /\ ss = [n \in DOMAIN q |-> ss[n]]
        /\ \A n \in DOMAIN q : ss[n] = IF q[n] \in S THEN <<q[n]>> ELSE <<>>
    BY <1>1
  <2>3. ToSet(q) \cap S = S
    OBVIOUS
  <2> HIDE DEF S, ss
  <2>4. FlattenSeq(ss) \in Seq(AlertIds) /\ ToSet(FlattenSeq(ss)) = ToSet(q) \cap S
    BY <2>2, PickMembers, ZenonT(30)
  <2> QED
    BY <2>1, <2>3, <2>4 DEF S
<1>4. /\ Unanswered(q, invs) \in Seq(AlertIds)
      /\ ToSet(Unanswered(q, invs)) = {a \in ToSet(q) : invs[a].recommended = {}}
  <2> DEFINE S == {a \in ToSet(q) : invs[a].recommended = {}}
             ss == [n \in DOMAIN q |-> IF invs[q[n]].recommended = {} THEN <<q[n]>> ELSE <<>>]
  <2>1. Unanswered(q, invs) = FlattenSeq(ss)
    BY DEF Unanswered, Pick, Each
  <2>2. /\ ss = [n \in DOMAIN q |-> ss[n]]
        /\ \A n \in DOMAIN q : ss[n] = IF q[n] \in S THEN <<q[n]>> ELSE <<>>
    BY <1>1
  <2>3. ToSet(q) \cap S = S
    OBVIOUS
  <2> HIDE DEF S, ss
  <2>4. FlattenSeq(ss) \in Seq(AlertIds) /\ ToSet(FlattenSeq(ss)) = ToSet(q) \cap S
    BY <2>2, PickMembers, ZenonT(30)
  <2> QED
    BY <2>1, <2>3, <2>4 DEF S
<1>5. /\ Unfollowed(q, invs) \in Seq(AlertIds)
      /\ ToSet(Unfollowed(q, invs)) = {a \in ToSet(q) : Due(invs[a])}
  <2> DEFINE S == {a \in ToSet(q) : Due(invs[a])}
             ss == [n \in DOMAIN q |-> IF Due(invs[q[n]]) THEN <<q[n]>> ELSE <<>>]
  <2>1. Unfollowed(q, invs) = FlattenSeq(ss)
    BY DEF Unfollowed, Pick, Each, Due
  <2>2. /\ ss = [n \in DOMAIN q |-> ss[n]]
        /\ \A n \in DOMAIN q : ss[n] = IF q[n] \in S THEN <<q[n]>> ELSE <<>>
    BY <1>1
  <2>3. ToSet(q) \cap S = S
    OBVIOUS
  <2> HIDE DEF S, ss
  <2>4. FlattenSeq(ss) \in Seq(AlertIds) /\ ToSet(FlattenSeq(ss)) = ToSet(q) \cap S
    BY <2>2, PickMembers, ZenonT(30)
  <2> QED
    BY <2>1, <2>3, <2>4 DEF S
<1> QED
  BY <1>2, <1>3, <1>4, <1>5

\* A call that adds to the work on record, and is offered by the task.
Fresh(t, invs, pairs, call) ==
  \E a \in Alerts(t) :
    \/ \E i : /\ call = <<"enrich_indicator", i, a>> /\ i \notin invs[a].enriched
              /\ call \in Offered(t)
    \/ \E s : /\ call = <<"query_logs", s, a>> /\ s \notin invs[a].queried
              /\ call \in Offered(t)
    \/ \E b \in Alerts(t) : /\ call = <<"correlate_alerts", a, b>> /\ {a, b} \notin pairs
                            /\ a # b => <<"correlate_alerts", {a, b}>> \in Offered(t)
    \/ \E c \in Judged : /\ call = <<"classify_alert", a, c>> /\ Open(invs[a])
                         /\ <<"classify_alert", a>> \in Offered(t)
    \/ \E x : /\ call = <<"map_technique", a, x>> /\ invs[a].mapped = {}
              /\ <<"map_technique", a>> \in Offered(t)
    \/ \E x : /\ call = <<"recommend_action", a, x>> /\ invs[a].recommended = {}
              /\ <<"recommend_action", a>> \in Offered(t)

\* Nothing is left open.
Finished(t, invs) == \A a \in Alerts(t) : /\ ~Open(invs[a])
                                          /\ invs[a].classification # "false_positive"
                                               => invs[a].recommended # {}

\* What the next call should be: new work, or the submission of finished work.
Sensible(t, invs, pairs, call) ==
  Fresh(t, invs, pairs, call) \/ (call = Submit /\ Finished(t, invs))

\* A list that starts with new work, if it is not empty.
NewWork(t, invs, pairs, s) == List(s) /\ (s # <<>> => Fresh(t, invs, pairs, Head(s)))

\* Lists of new work make a list of new work.
LEMMA MoreNewWork ==
  ASSUME NEW t, NEW invs, NEW pairs,
         NEW s, NewWork(t, invs, pairs, s), NEW r, NewWork(t, invs, pairs, r)
  PROVE  NewWork(t, invs, pairs, s \o r) /\ (s \o r = <<>> => s = <<>> /\ r = <<>>)
<1>1. /\ List(s \o r)
      /\ s # <<>> => s \o r # <<>> /\ Head(s \o r) = Head(s)
      /\ s = <<>> => s \o r = r
  BY HeadOfLists DEF NewWork
<1> QED
  BY <1>1 DEF NewWork

\* New work and what is to be done without it.
LEMMA SensibleList ==
  ASSUME NEW t, NEW invs, NEW pairs, NEW s, NewWork(t, invs, pairs, s),
         NEW r, List(r), r # <<>>, s = <<>> => Sensible(t, invs, pairs, Head(r))
  PROVE  List(s \o r) /\ s \o r # <<>> /\ Sensible(t, invs, pairs, Head(s \o r))
<1>1. /\ List(s \o r)
      /\ s # <<>> => s \o r # <<>> /\ Head(s \o r) = Head(s)
      /\ s = <<>> => s \o r = r
  BY HeadOfLists DEF NewWork
<1> QED
  BY <1>1 DEF NewWork, Sensible

\* A last call.
LEMMA LastCall ==
  ASSUME NEW call
  PROVE  List(<<call>>) /\ <<call>> # <<>> /\ Head(<<call>>) = call
BY DEF List, ToSet

\* What each playbook may ask for is among the work its task offers.
LEMMA OfferedWork ==
  ASSUME NEW t \in Tasks, NEW a \in Alerts(t)
  PROVE  /\ <<"classify_alert", a>> \in Offered(t) /\ <<"recommend_action", a>> \in Offered(t)
         /\ ~(Len(t.queue) >= 20) =>
              /\ <<"map_technique", a>> \in Offered(t)
              /\ \A b \in Alerts(t) : a # b => <<"correlate_alerts", {a, b}>> \in Offered(t)
         /\ ~(Len(t.queue) >= 20) /\ Len(t.queue) # 5 =>
              /\ \A s \in ToSet(SmartSources(t.alerts[a])) : <<"query_logs", s, a>> \in Offered(t)
              /\ \A e \in ToSet(t.alerts[a].indicators) : \A i \in ToSet(UpTo(2, e.names)) :
                   e.type \in VALID_INDICATOR_TYPES /\ i \notin t.intel.private
                   => <<"enrich_indicator", i, a>> \in Offered(t)
<1>1. a \in ToSet(t.queue) /\ ToSet(t.queue) = Alerts(t)
  BY QueueFacts
<1>2. <<"classify_alert", a>> \in Offered(t) /\ <<"recommend_action", a>> \in Offered(t)
  BY <1>1 DEF Offered
<1>3. ASSUME ~(Len(t.queue) >= 20)
      PROVE  <<"map_technique", a>> \in Offered(t)
  BY <1>1, <1>3 DEF Offered
<1>4. ASSUME ~(Len(t.queue) >= 20), NEW b \in Alerts(t), a # b
      PROVE  <<"correlate_alerts", {a, b}>> \in Offered(t)
  <2>1. b \in ToSet(t.queue) \ {a}
    BY <1>1, <1>4
  <2> DEFINE known == ToSet(t.queue)
             with(x) == {{x, y} : y \in known \ {x}}
  <2>2. PairsOf(known) = UNION {with(x) : x \in known}
    BY DEF PairsOf
  <2>3. {a, b} \in with(a) /\ a \in known
    BY <1>1, <2>1
  <2> HIDE DEF with, known
  <2>4. {a, b} \in PairsOf(known)
    BY <2>2, <2>3, Zenon
  <2> QED
    BY <1>4, <2>4 DEF Offered, known
<1>5. ASSUME ~(Len(t.queue) >= 20), Len(t.queue) # 5
      PROVE  EvidenceOn(t, a) \subseteq Offered(t)
  <2>1. EvidenceOn(t, a) \subseteq UNION {EvidenceOn(t, x) : x \in ToSet(t.queue)}
    BY <1>1, Zenon
  <2> QED
    BY <1>5, <2>1 DEF Offered
<1>6. \A s \in ToSet(SmartSources(t.alerts[a])) : <<"query_logs", s, a>> \in EvidenceOn(t, a)
  BY DEF EvidenceOn
<1>7. ASSUME NEW e \in ToSet(t.alerts[a].indicators), NEW i \in ToSet(UpTo(2, e.names)),
             e.type \in VALID_INDICATOR_TYPES, i \notin t.intel.private
      PROVE  <<"enrich_indicator", i, a>> \in EvidenceOn(t, a)
  <2> DEFINE shown == {x \in ToSet(t.alerts[a].indicators) : x.type \in VALID_INDICATOR_TYPES}
             first(x) == ToSet(UpTo(2, x.names))
  <2>0. e \in shown /\ i \in first(e)
    BY <1>7
  <2> HIDE DEF shown, first
  <2>1. i \in UNION {first(x) : x \in shown}
    BY <2>0, Zenon
  <2>2. Enrichable(t, a) = (UNION {first(x) : x \in shown}) \ t.intel.private
    BY DEF Enrichable, shown, first
  <2>3. i \in Enrichable(t, a)
    BY <1>7, <2>1, <2>2, Zenon
  <2> QED
    BY <2>3 DEF EvidenceOn
<1> QED
  BY <1>2, <1>3, <1>4, <1>5, <1>6, <1>7

-----------------------------------------------------------------------------
(* The three playbooks.  Whatever is on record, the next call is new work  *)
(* that the task offers, or the submission of a finished play.             *)

\* A rule that matches answers; otherwise the default does.
LEMMA RuleAnswers ==
  ASSUME NEW T, NEW rules, NEW k \in Nat, DOMAIN rules = 1..k, NEW words, NEW default,
         \A n \in 1..k : rules[n][2] \in T, default \in T
  PROVE  FirstMatch(rules, words, default) \in T
<1> DEFINE hits == {n \in DOMAIN rules : rules[n][1] \cap words # {}}
<1>1. hits \subseteq Nat /\ hits \subseteq 1..k
  OBVIOUS
<1>2. ASSUME hits # {} PROVE Min(hits) \in hits
  <2>1. PICK n \in hits : \A m \in hits : n <= m
    <3> HIDE DEF hits
    <3> QED
      BY <1>1, <1>2, LeastExists
  <2> HIDE DEF hits
  <2> QED
    BY <2>1, Zenon DEF Min
<1>3. FirstMatch(rules, words, default) = IF hits = {} THEN default ELSE rules[Min(hits)][2]
  BY DEF FirstMatch
<1> HIDE DEF hits
<1> QED
  BY <1>1, <1>2, <1>3

\* The verdict by title is one of the three.
LEMMA TitleVerdict ==
  ASSUME NEW alert PROVE ClassifyByTitle(alert) \in Judged
<1> DEFINE first == TitleRules[1]
           second == TitleRules[2]
<1>1. DOMAIN TitleRules = 1..2 /\ first[2] \in Judged /\ second[2] \in Judged
  BY DEF TitleRules, Judged, Positive
<1>2. \A n \in 1..2 : TitleRules[n][2] \in Judged
  BY <1>1
<1>3. "false_positive" \in Judged
  BY DEF Judged, Positive
<1> HIDE DEF first, second
<1> QED
  BY <1>1, <1>2, <1>3, RuleAnswers DEF ClassifyByTitle

\* So is the verdict by evidence.
LEMMA EvidenceVerdict ==
  ASSUME NEW t, NEW a, NEW inv PROVE InferClassification(t, a, inv) \in Judged
BY DEF InferClassification, Judged, Positive

\* Ordering a kill chain by stage invents no alert.
LEMMA LateralOrdered ==
  ASSUME NEW t \in Tasks
  PROVE  LateralOrder(t) \in Seq(AlertIds) /\ ToSet(LateralOrder(t)) \subseteq Alerts(t)
<1> DEFINE q == t.queue
           ranks == <<0, 1, 2, 3, 4, 99>>
           having(r) == {a \in AlertIds : LateralStageRank(t.alerts[a]) = ranks[r]}
           part(r) == [n \in DOMAIN q |-> IF LateralStageRank(t.alerts[q[n]]) = ranks[r]
                                          THEN <<q[n]>> ELSE <<>>]
           ss == [r \in DOMAIN ranks |-> FlattenSeq(part(r))]
<1>1. q \in Seq(AlertIds) /\ ToSet(q) = Alerts(t)
  BY QueueFacts
<1>2. LateralOrder(t) = FlattenSeq(ss)
  BY DEF LateralOrder, Ranked, Each, Pick
<1>3. DOMAIN ranks = 1..6
  OBVIOUS
<1> HIDE DEF ranks, q
<1>4. ASSUME NEW r \in 1..6
      PROVE  ss[r] \in Seq(AlertIds) /\ ToSet(ss[r]) = ToSet(q) \cap having(r)
  <2>1. \A n \in DOMAIN q : q[n] \in AlertIds
    BY <1>1
  <2>2. /\ part(r) = [n \in DOMAIN q |-> part(r)[n]]
        /\ \A n \in DOMAIN q : part(r)[n] = IF q[n] \in having(r) THEN <<q[n]>> ELSE <<>>
    BY <2>1
  <2>3. ss[r] = FlattenSeq(part(r))
    BY <1>3
  <2> HIDE DEF part, having, ss
  <2>4. /\ FlattenSeq(part(r)) \in Seq(AlertIds)
        /\ ToSet(FlattenSeq(part(r))) = ToSet(q) \cap having(r)
    BY <1>1, <2>2, PickMembers, ZenonT(30)
  <2> QED
    BY <2>3, <2>4
<1>5. ss \in [1..6 -> Seq(AlertIds)]
  <2>1. ss = [r \in 1..6 |-> ss[r]]
    BY <1>3
  <2> HIDE DEF ss
  <2> QED
    BY <1>4, <2>1
<1> HIDE DEF ss, having, part
<1>6. ss \in Seq(Seq(AlertIds)) /\ DOMAIN ss = 1..6
  BY <1>5, FunctionIsSeq
<1>7. /\ FlattenSeq(ss) \in Seq(AlertIds)
      /\ ToSet(FlattenSeq(ss)) = UNION {ToSet(ss[r]) : r \in DOMAIN ss}
  BY <1>6, FlattenMembers
<1>8. UNION {ToSet(ss[r]) : r \in DOMAIN ss} \subseteq ToSet(q)
  BY <1>4, <1>6, Zenon
<1> QED
  BY <1>1, <1>2, <1>7, <1>8

\* The pairs of stages still to try are pairs the agent does not remember.
LEMMA StagesUntried ==
  ASSUME NEW t \in Tasks, NEW invs, NEW pairs
  PROVE  /\ UntriedStages(t, invs, pairs) \in Seq(Alerts(t) \X Alerts(t))
         /\ \A p \in ToSet(UntriedStages(t, invs, pairs)) : {p[1], p[2]} \notin pairs
<1> DEFINE s == LateralOrder(t)
           known == pairs \cup UNION {invs[a].correlated : a \in DOMAIN invs}
           stages == [n \in 1..(Len(s) - 1) |-> <<s[n], s[n + 1]>>]
           S == {p \in Alerts(t) \X Alerts(t) : {p[1], p[2]} \notin known}
           ss == [n \in DOMAIN stages |-> IF {stages[n][1], stages[n][2]} \notin known
                                          THEN <<stages[n]>> ELSE <<>>]
<1>1. UntriedStages(t, invs, pairs) = FlattenSeq(ss)
  BY DEF UntriedStages, Pick, Each
<1>2. \A p \in S : {p[1], p[2]} \notin pairs
  OBVIOUS
<1> HIDE DEF known
<1>3. s \in Seq(AlertIds) /\ ToSet(s) \subseteq Alerts(t)
  BY LateralOrdered
<1> HIDE DEF s
<1>4. stages \in Seq(Alerts(t) \X Alerts(t))
  <2>1. DOMAIN s = 1..Len(s) /\ Len(s) \in Nat
    BY <1>3
  <2>2. \A n \in 1..Len(s) : s[n] \in Alerts(t)
    BY <1>3, <2>1 DEF ToSet
  <2>3. \A n \in 1..(Len(s) - 1) : <<s[n], s[n + 1]>> \in Alerts(t) \X Alerts(t)
    BY <2>1, <2>2
  <2> DEFINE k == IF Len(s) = 0 THEN 0 ELSE Len(s) - 1
  <2>4. k \in Nat /\ 1..(Len(s) - 1) = 1..k
    <3>1. CASE Len(s) = 0
      <4>1. k = 0 /\ Len(s) - 1 = -1
        BY <3>1
      <4>2. 1..(-1) = {} /\ 1..0 = {}
        OBVIOUS
      <4> HIDE DEF k
      <4> QED
        BY <4>1, <4>2
    <3>2. CASE Len(s) # 0
      BY <2>1, <3>2
    <3> QED
      BY <3>1, <3>2
  <2> HIDE DEF k
  <2>5. stages \in [1..k -> Alerts(t) \X Alerts(t)]
    BY <2>3, <2>4
  <2> HIDE DEF stages
  <2> QED
    BY <2>4, <2>5, FunctionIsSeq
<1>5. \A n \in DOMAIN stages : stages[n] \in Alerts(t) \X Alerts(t)
  <2> HIDE DEF stages
  <2> QED
    BY <1>4
<1> HIDE DEF stages
<1>6. /\ ss = [n \in DOMAIN stages |-> ss[n]]
      /\ \A n \in DOMAIN stages : ss[n] = IF stages[n] \in S THEN <<stages[n]>> ELSE <<>>
  BY <1>5
<1> HIDE DEF S, ss
<1>7. FlattenSeq(ss) \in Seq(Alerts(t) \X Alerts(t)) /\ ToSet(FlattenSeq(ss)) = ToSet(stages) \cap S
  BY <1>4, <1>6, PickMembers, ZenonT(30)
<1> QED
  BY <1>1, <1>2, <1>7

\* Verdicts, techniques and responses for the alerts that lack them.
LEMMA JudgingFresh ==
  ASSUME NEW t \in Tasks, NEW invs, NEW pairs,
         NEW q \in Seq(AlertIds), ToSet(q) = Alerts(t),
         NEW f, f = [n \in DOMAIN Unjudged(q, invs) |-> f[n]],
         \A n \in DOMAIN Unjudged(q, invs) :
           \E c \in Judged : f[n] = <<"classify_alert", Unjudged(q, invs)[n], c>>
  PROVE  NewWork(t, invs, pairs, f) /\ (f = <<>> => \A a \in Alerts(t) : ~Open(invs[a]))
<1> DEFINE todo == Unjudged(q, invs)
<1>1. todo \in Seq(AlertIds) /\ ToSet(todo) = {a \in Alerts(t) : Open(invs[a])}
  BY WorkLeft
<1>2. /\ f = [n \in DOMAIN todo |-> f[n]]
      /\ \A n \in DOMAIN todo : \E c \in Judged : f[n] = <<"classify_alert", todo[n], c>>
  OBVIOUS
<1> HIDE DEF todo
<1>3. /\ List(f) /\ (f = <<>> <=> ToSet(todo) = {})
      /\ f # <<>> => \E n \in DOMAIN todo : todo[n] \in ToSet(todo) /\ Head(f) = f[n]
  BY <1>1, <1>2, EachMember
<1>4. ASSUME f # <<>> PROVE Fresh(t, invs, pairs, Head(f))
  <2>1. PICK n \in DOMAIN todo : todo[n] \in ToSet(todo) /\ Head(f) = f[n]
    BY <1>3, <1>4
  <2>2. PICK a \in Alerts(t), c \in Judged : Open(invs[a]) /\ Head(f) = <<"classify_alert", a, c>>
    BY <1>1, <1>2, <2>1
  <2>3. <<"classify_alert", a>> \in Offered(t)
    BY OfferedWork
  <2> QED
    BY <2>2, <2>3 DEF Fresh
<1> QED
  BY <1>1, <1>3, <1>4 DEF NewWork

\* Mapping an alert that has no technique is new work.
LEMMA MappingFresh ==
  ASSUME NEW t \in Tasks, NEW invs, NEW pairs, ~(Len(t.queue) >= 20),
         NEW q \in Seq(AlertIds), ToSet(q) = Alerts(t),
         NEW f, f = [n \in DOMAIN Unmapped(q, invs) |-> f[n]],
         \A n \in DOMAIN Unmapped(q, invs) :
           \E x : f[n] = <<"map_technique", Unmapped(q, invs)[n], x>>
  PROVE  NewWork(t, invs, pairs, f)
<1> DEFINE todo == Unmapped(q, invs)
<1>1. todo \in Seq(AlertIds) /\ ToSet(todo) = {a \in Alerts(t) : invs[a].mapped = {}}
  BY WorkLeft
<1>2. /\ f = [n \in DOMAIN todo |-> f[n]]
      /\ \A n \in DOMAIN todo : \E x : f[n] = <<"map_technique", todo[n], x>>
  OBVIOUS
<1> HIDE DEF todo
<1>3. /\ List(f)
      /\ f # <<>> => \E n \in DOMAIN todo : todo[n] \in ToSet(todo) /\ Head(f) = f[n]
  BY <1>1, <1>2, EachMember
<1>4. ASSUME f # <<>> PROVE Fresh(t, invs, pairs, Head(f))
  <2>1. PICK n \in DOMAIN todo : todo[n] \in ToSet(todo) /\ Head(f) = f[n]
    BY <1>3, <1>4
  <2> DEFINE a == todo[n]
  <2>2. a \in Alerts(t) /\ invs[a].mapped = {}
    BY <1>1, <2>1
  <2>3. PICK x : Head(f) = <<"map_technique", a, x>>
    BY <1>2, <2>1
  <2> HIDE DEF a
  <2>4. <<"map_technique", a>> \in Offered(t)
    BY <2>2, OfferedWork
  <2> QED
    BY <2>2, <2>3, <2>4 DEF Fresh
<1> QED
  BY <1>3, <1>4 DEF NewWork

\* Answering an alert that has no response is new work; without one to answer, all are.
LEMMA AnsweringFresh ==
  ASSUME NEW t \in Tasks, NEW invs, NEW pairs,
         NEW q \in Seq(AlertIds), ToSet(q) = Alerts(t),
         NEW f, f = [n \in DOMAIN Unanswered(q, invs) |-> f[n]],
         \A n \in DOMAIN Unanswered(q, invs) :
           \E x : f[n] = <<"recommend_action", Unanswered(q, invs)[n], x>>
  PROVE  /\ NewWork(t, invs, pairs, f)
         /\ f = <<>> => \A a \in Alerts(t) : invs[a].recommended # {}
<1> DEFINE todo == Unanswered(q, invs)
<1>1. todo \in Seq(AlertIds) /\ ToSet(todo) = {a \in Alerts(t) : invs[a].recommended = {}}
  BY WorkLeft
<1>2. /\ f = [n \in DOMAIN todo |-> f[n]]
      /\ \A n \in DOMAIN todo : \E x : f[n] = <<"recommend_action", todo[n], x>>
  OBVIOUS
<1> HIDE DEF todo
<1>3. /\ List(f) /\ (f = <<>> <=> ToSet(todo) = {})
      /\ f # <<>> => \E n \in DOMAIN todo : todo[n] \in ToSet(todo) /\ Head(f) = f[n]
  BY <1>1, <1>2, EachMember
<1>4. ASSUME f # <<>> PROVE Fresh(t, invs, pairs, Head(f))
  <2>1. PICK n \in DOMAIN todo : todo[n] \in ToSet(todo) /\ Head(f) = f[n]
    BY <1>3, <1>4
  <2> DEFINE a == todo[n]
  <2>2. a \in Alerts(t) /\ invs[a].recommended = {}
    BY <1>1, <2>1
  <2>3. PICK x : Head(f) = <<"recommend_action", a, x>>
    BY <1>2, <2>1
  <2> HIDE DEF a
  <2>4. <<"recommend_action", a>> \in Offered(t)
    BY <2>2, OfferedWork
  <2> QED
    BY <2>2, <2>3, <2>4 DEF Fresh
<1> QED
  BY <1>1, <1>3, <1>4 DEF NewWork

\* A pair of stages nobody tried is new work, where pairs are offered.
LEMMA LinkingFresh ==
  ASSUME NEW t \in Tasks, NEW invs, NEW pairs, ~(Len(t.queue) >= 20),
         NEW f, f = [n \in DOMAIN UntriedStages(t, invs, pairs) |-> f[n]],
         \A n \in DOMAIN UntriedStages(t, invs, pairs) :
           f[n] = <<"correlate_alerts", UntriedStages(t, invs, pairs)[n][1],
                                        UntriedStages(t, invs, pairs)[n][2]>>
  PROVE  NewWork(t, invs, pairs, f)
<1> DEFINE todo == UntriedStages(t, invs, pairs)
<1>1. todo \in Seq(Alerts(t) \X Alerts(t)) /\ \A p \in ToSet(todo) : {p[1], p[2]} \notin pairs
  BY StagesUntried
<1>2. /\ f = [n \in DOMAIN todo |-> f[n]]
      /\ \A n \in DOMAIN todo : f[n] = <<"correlate_alerts", todo[n][1], todo[n][2]>>
  OBVIOUS
<1> HIDE DEF todo
<1>3. /\ List(f)
      /\ f # <<>> => \E n \in DOMAIN todo : todo[n] \in ToSet(todo) /\ Head(f) = f[n]
  BY <1>1, <1>2, EachMember
<1>4. ASSUME f # <<>> PROVE Fresh(t, invs, pairs, Head(f))
  <2>1. PICK n \in DOMAIN todo : todo[n] \in ToSet(todo) /\ Head(f) = f[n]
    BY <1>3, <1>4
  <2> DEFINE a == todo[n][1]
             b == todo[n][2]
  <2>2. todo[n] \in Alerts(t) \X Alerts(t)
    BY <1>1, <2>1
  <2>3. a \in Alerts(t) /\ b \in Alerts(t) /\ {a, b} \notin pairs
        /\ Head(f) = <<"correlate_alerts", a, b>>
    BY <1>1, <1>2, <2>1, <2>2
  <2> HIDE DEF a, b
  <2>4. a # b => <<"correlate_alerts", {a, b}>> \in Offered(t)
    BY <2>3, OfferedWork
  <2> QED
    BY <2>3, <2>4 DEF Fresh
<1> QED
  BY <1>3, <1>4 DEF NewWork

\* The kill-chain playbook never repeats itself and submits finished work.
LEMMA LateralSensible ==
  ASSUME NEW t \in Tasks, Len(t.queue) = 5, NEW invs, NEW pairs
  PROVE  Sensible(t, invs, pairs, NextLateralAction(t, invs, pairs))
<1> DEFINE q == t.queue
           linking == [n \in DOMAIN UntriedStages(t, invs, pairs) |->
                         <<"correlate_alerts", UntriedStages(t, invs, pairs)[n][1],
                                               UntriedStages(t, invs, pairs)[n][2]>>]
           judging == [n \in DOMAIN Unjudged(q, invs) |->
                         <<"classify_alert", Unjudged(q, invs)[n], "true_positive">>]
           mapping == [n \in DOMAIN Unmapped(q, invs) |->
                         <<"map_technique", Unmapped(q, invs)[n],
                           InferTechnique(t.alerts[Unmapped(q, invs)[n]])>>]
           answering == [n \in DOMAIN Unanswered(q, invs) |->
                           <<"recommend_action", Unanswered(q, invs)[n],
                             InferResponseAction(t.alerts[Unanswered(q, invs)[n]],
                                                 "true_positive")>>]
           head == NextLateralAction(t, invs, pairs)
<1>1. head = Head(linking \o judging \o mapping \o answering \o <<Submit>>)
  BY DEF NextLateralAction, Each
<1>2. q \in Seq(AlertIds) /\ ToSet(q) = Alerts(t) /\ ~(Len(t.queue) >= 20)
  BY QueueFacts
<1>3. /\ linking = [n \in DOMAIN UntriedStages(t, invs, pairs) |-> linking[n]]
      /\ \A n \in DOMAIN UntriedStages(t, invs, pairs) :
           linking[n] = <<"correlate_alerts", UntriedStages(t, invs, pairs)[n][1],
                                              UntriedStages(t, invs, pairs)[n][2]>>
  OBVIOUS
<1>4. /\ judging = [n \in DOMAIN Unjudged(q, invs) |-> judging[n]]
      /\ \A n \in DOMAIN Unjudged(q, invs) :
           \E c \in Judged : judging[n] = <<"classify_alert", Unjudged(q, invs)[n], c>>
  BY DEF Judged, Positive
<1>5. /\ mapping = [n \in DOMAIN Unmapped(q, invs) |-> mapping[n]]
      /\ \A n \in DOMAIN Unmapped(q, invs) :
           \E x : mapping[n] = <<"map_technique", Unmapped(q, invs)[n], x>>
  OBVIOUS
<1>6. /\ answering = [n \in DOMAIN Unanswered(q, invs) |-> answering[n]]
      /\ \A n \in DOMAIN Unanswered(q, invs) :
           \E x : answering[n] = <<"recommend_action", Unanswered(q, invs)[n], x>>
  OBVIOUS
<1> HIDE DEF q, linking, judging, mapping, answering, head
<1>7. NewWork(t, invs, pairs, linking)
  BY <1>2, <1>3, LinkingFresh
<1>8. NewWork(t, invs, pairs, judging) /\ (judging = <<>> => \A a \in Alerts(t) : ~Open(invs[a]))
  BY <1>2, <1>4, JudgingFresh
<1>9. NewWork(t, invs, pairs, mapping)
  BY <1>2, <1>5, MappingFresh
<1>10. /\ NewWork(t, invs, pairs, answering)
       /\ answering = <<>> => \A a \in Alerts(t) : invs[a].recommended # {}
  BY <1>2, <1>6, AnsweringFresh
<1> DEFINE two == linking \o judging
           three == two \o mapping
           work == three \o answering
<1>11. NewWork(t, invs, pairs, two) /\ (two = <<>> => judging = <<>>)
  BY <1>7, <1>8, MoreNewWork
<1>12. head = Head(work \o <<Submit>>)
  BY <1>1
<1> HIDE DEF two
<1>13. NewWork(t, invs, pairs, three) /\ (three = <<>> => two = <<>>)
  BY <1>9, <1>11, MoreNewWork
<1> HIDE DEF three
<1>14. NewWork(t, invs, pairs, work) /\ (work = <<>> => three = <<>> /\ answering = <<>>)
  BY <1>10, <1>13, MoreNewWork
<1> HIDE DEF work
<1>15. work = <<>> => Finished(t, invs)
  BY <1>8, <1>10, <1>11, <1>13, <1>14 DEF Finished
<1>16. Sensible(t, invs, pairs, Head(work \o <<Submit>>))
  <2> DEFINE last == <<Submit>>
  <2>1. List(last) /\ last # <<>> /\ Head(last) = Submit
    BY LastCall
  <2> HIDE DEF last
  <2>2. work = <<>> => Sensible(t, invs, pairs, Head(last))
    BY <1>15, <2>1 DEF Sensible
  <2>3. Sensible(t, invs, pairs, Head(work \o last))
    BY <1>14, <2>1, <2>2, SensibleList
  <2> QED
    BY <2>3 DEF last
<1> QED
  BY <1>12, <1>16 DEF head

\* Nor does the playbook of the long queues repeat itself.
LEMMA QueueSensible ==
  ASSUME NEW t \in Tasks, NEW invs, NEW pairs
  PROVE  Sensible(t, invs, pairs, NextQueueAction(t, invs))
<1> DEFINE q == BySeverity(t, t.queue)
           judging == [n \in DOMAIN Unjudged(q, invs) |->
                         <<"classify_alert", Unjudged(q, invs)[n],
                           ClassifyByTitle(t.alerts[Unjudged(q, invs)[n]])>>]
           answering == [n \in DOMAIN Unanswered(q, invs) |->
                           <<"recommend_action", Unanswered(q, invs)[n],
                             InferResponseAction(t.alerts[Unanswered(q, invs)[n]],
                               invs[Unanswered(q, invs)[n]].classification)>>]
           head == NextQueueAction(t, invs)
<1>1. head = Head(judging \o answering \o <<Submit>>)
  BY DEF NextQueueAction, Each
<1>2. q \in Seq(AlertIds) /\ ToSet(q) = Alerts(t)
  BY QueueFacts, SeverityOrdered
<1>3. /\ judging = [n \in DOMAIN Unjudged(q, invs) |-> judging[n]]
      /\ \A n \in DOMAIN Unjudged(q, invs) :
           \E c \in Judged : judging[n] = <<"classify_alert", Unjudged(q, invs)[n], c>>
  <2> HIDE DEF q
  <2> QED
    BY TitleVerdict
<1>4. /\ answering = [n \in DOMAIN Unanswered(q, invs) |-> answering[n]]
      /\ \A n \in DOMAIN Unanswered(q, invs) :
           \E x : answering[n] = <<"recommend_action", Unanswered(q, invs)[n], x>>
  <2> HIDE DEF q
  <2> QED
    OBVIOUS
<1> HIDE DEF q, judging, answering, head
<1>5. NewWork(t, invs, pairs, judging) /\ (judging = <<>> => \A a \in Alerts(t) : ~Open(invs[a]))
  BY <1>2, <1>3, JudgingFresh
<1>6. /\ NewWork(t, invs, pairs, answering)
      /\ answering = <<>> => \A a \in Alerts(t) : invs[a].recommended # {}
  BY <1>2, <1>4, AnsweringFresh
<1> DEFINE work == judging \o answering
<1>7. NewWork(t, invs, pairs, work) /\ (work = <<>> => judging = <<>> /\ answering = <<>>)
  BY <1>5, <1>6, MoreNewWork
<1>8. head = Head(work \o <<Submit>>)
  BY <1>1
<1> HIDE DEF work
<1>9. work = <<>> => Finished(t, invs)
  BY <1>5, <1>6, <1>7 DEF Finished
<1>10. Sensible(t, invs, pairs, Head(work \o <<Submit>>))
  <2> DEFINE last == <<Submit>>
  <2>1. List(last) /\ last # <<>> /\ Head(last) = Submit
    BY LastCall
  <2> HIDE DEF last
  <2>2. work = <<>> => Sensible(t, invs, pairs, Head(last))
    BY <1>9, <2>1 DEF Sensible
  <2>3. Sensible(t, invs, pairs, Head(work \o last))
    BY <1>7, <2>1, <2>2, SensibleList
  <2> QED
    BY <2>3 DEF last
<1> QED
  BY <1>8, <1>10 DEF head

\* The first members of a list are members of it.
LEMMA FirstMembers ==
  ASSUME NEW T, NEW s \in Seq(T), NEW n \in Nat
  PROVE  /\ UpTo(n, s) \in Seq(T) /\ ToSet(UpTo(n, s)) \subseteq ToSet(s)
         /\ \A m \in Nat : m <= n => ToSet(UpTo(m, s)) \subseteq ToSet(UpTo(n, s))
<1> DEFINE k(m) == IF m < Len(s) THEN m ELSE Len(s)
<1>1. Len(s) \in Nat /\ DOMAIN s = 1..Len(s)
  OBVIOUS
<1>2. ASSUME NEW m \in Nat
      PROVE  /\ UpTo(m, s) = [i \in 1..k(m) |-> s[i]] /\ k(m) \in Nat /\ k(m) <= Len(s)
             /\ UpTo(m, s) \in Seq(T) /\ ToSet(UpTo(m, s)) = {s[i] : i \in 1..k(m)}
  <2>1. k(m) \in Nat /\ k(m) <= Len(s)
    BY <1>1
  <2>2. UpTo(m, s) = SubSeq(s, 1, k(m))
    BY DEF UpTo
  <2> HIDE DEF k
  <2>3. 1..k(m) \subseteq DOMAIN s
    BY <1>1, <2>1
  <2>4. SubSeq(s, 1, k(m)) = [i \in 1..k(m) |-> s[i]]
    BY <1>1, <2>1
  <2>5. [i \in 1..k(m) |-> s[i]] \in [1..k(m) -> T]
    BY <2>3
  <2> DEFINE f == [i \in 1..k(m) |-> s[i]]
  <2>6. f \in Seq(T)
    <3>1. f \in [1..k(m) -> T]
      BY <2>5
    <3> HIDE DEF f
    <3> QED
      BY <2>1, <3>1, FunctionIsSeq
  <2>7. ToSet(f) = {s[i] : i \in 1..k(m)}
    BY DEF ToSet
  <2> QED
    BY <2>1, <2>2, <2>4, <2>6, <2>7
<1>3. \A m \in Nat : m <= n => k(m) <= k(n)
  BY <1>1
<1> HIDE DEF k
<1>4. ToSet(UpTo(n, s)) \subseteq ToSet(s)
  <2>1. 1..k(n) \subseteq DOMAIN s
    BY <1>1, <1>2
  <2> QED
    BY <1>2, <2>1 DEF ToSet
<1>5. ASSUME NEW m \in Nat, m <= n PROVE ToSet(UpTo(m, s)) \subseteq ToSet(UpTo(n, s))
  <2>1. k(m) \in Nat /\ k(n) \in Nat /\ k(m) <= k(n)
    BY <1>2, <1>3, <1>5
  <2>2. 1..k(m) \subseteq 1..k(n)
    BY <2>1
  <2>3. ToSet(UpTo(m, s)) = {s[i] : i \in 1..k(m)} /\ ToSet(UpTo(n, s)) = {s[i] : i \in 1..k(n)}
    BY <1>2
  <2> QED
    BY <2>2, <2>3
<1> QED
  BY <1>2, <1>4, <1>5

\* The log sources the rules name.
SourceNames == {"email_gateway", "endpoint", "dns", "firewall", "auth", "ids", "proxy",
                "cloud_trail"}

\* The sources of an alert are a list of them.
LEMMA SourcesListed ==
  ASSUME NEW alert
  PROVE  SmartSources(alert) \in Seq(SourceNames)
<1> DEFINE hits == {n \in DOMAIN SourceRules : \/ SourceRules[n][1] \cap alert.words # {}
                                               \/ SourceRules[n][2] \cap alert.source # {}}
<1>1. DOMAIN SourceRules = 1..7
  BY DEF SourceRules
<1>2. \A n \in 1..7 : SourceRules[n][3] \in Seq(SourceNames)
  <2> DEFINE listed(n) == SourceRules[n][3]
  <2>1. /\ listed(1) \in Seq(SourceNames) /\ listed(2) \in Seq(SourceNames)
        /\ listed(3) \in Seq(SourceNames) /\ listed(4) \in Seq(SourceNames)
        /\ listed(5) \in Seq(SourceNames) /\ listed(6) \in Seq(SourceNames)
        /\ listed(7) \in Seq(SourceNames)
    BY DEF SourceRules, SourceNames
  <2> HIDE DEF listed
  <2>2. \A n \in 1..7 : listed(n) \in Seq(SourceNames)
    BY <2>1
  <2> QED
    BY <2>2 DEF listed
<1>3. hits \subseteq Nat /\ hits \subseteq 1..7
  BY <1>1
<1>4. ASSUME hits # {} PROVE Min(hits) \in hits
  <2>1. PICK n \in hits : \A m \in hits : n <= m
    <3> HIDE DEF hits
    <3> QED
      BY <1>3, <1>4, LeastExists
  <2> HIDE DEF hits
  <2> QED
    BY <2>1, Zenon DEF Min
<1>5. SmartSources(alert) = IF hits = {} THEN <<"endpoint", "auth", "firewall", "email_gateway">>
                            ELSE SourceRules[Min(hits)][3]
  BY DEF SmartSources
<1> HIDE DEF hits
<1>6. <<"endpoint", "auth", "firewall", "email_gateway">> \in Seq(SourceNames)
  BY DEF SourceNames
<1> QED
  BY <1>2, <1>3, <1>4, <1>5, <1>6

\* The indicators still to enrich are new, and offered.
LEMMA IndicatorsLeft ==
  ASSUME NEW t \in Tasks, ~(Len(t.queue) >= 20), Len(t.queue) # 5, NEW a \in Alerts(t),
         NEW inv, NEW open
  PROVE  /\ Unenriched(t, a, inv, open) \in Seq(Indicators)
         /\ \A i \in ToSet(Unenriched(t, a, inv, open)) :
              i \notin inv.enriched /\ <<"enrich_indicator", i, a>> \in Offered(t)
<1> DEFINE Entries == [type : STRING, names : Seq(Indicators)]
           listed == t.alerts[a].indicators
           shown == {e \in Entries : e.type \in VALID_INDICATOR_TYPES
                                     /\ (e.type = "user" => open <= 1)}
           es == [n \in DOMAIN listed |->
                    IF listed[n].type \in VALID_INDICATOR_TYPES
                       /\ (listed[n].type = "user" => open <= 1)
                    THEN <<listed[n]>> ELSE <<>>]
           entries == FlattenSeq(es)
           most == IF open >= 10 THEN 1 ELSE 2
           ns == [n \in DOMAIN entries |-> UpTo(most, entries[n].names)]
           some == FlattenSeq(ns)
           new == {i \in Indicators : i \notin t.intel.private \cup inv.enriched}
           is == [n \in DOMAIN some |->
                    IF some[n] \notin t.intel.private \cup inv.enriched
                    THEN <<some[n]>> ELSE <<>>]
<1>1. Unenriched(t, a, inv, open) = FlattenSeq(is)
  BY DEF Unenriched, Pick, Each
<1>2. most \in Nat /\ most <= 2
  OBVIOUS
<1>3. listed \in Seq(Entries)
  BY QueueFacts
<1> HIDE DEF most, listed
<1>4. entries \in Seq(Entries) /\ ToSet(entries) = ToSet(listed) \cap shown
  <2>1. \A n \in DOMAIN listed : listed[n] \in Entries
    <3> HIDE DEF Entries
    <3> QED
      BY <1>3
  <2>2. /\ es = [n \in DOMAIN listed |-> es[n]]
        /\ \A n \in DOMAIN listed : es[n] = IF listed[n] \in shown THEN <<listed[n]>> ELSE <<>>
    <3> HIDE DEF Entries
    <3> QED
      BY <2>1
  <2> HIDE DEF es, shown, Entries
  <2> QED
    BY <1>3, <2>2, PickMembers, ZenonT(30)
<1>5. \A e \in shown : e \in Entries /\ e.type \in VALID_INDICATOR_TYPES
  OBVIOUS
<1>6. \A e \in Entries : e.names \in Seq(Indicators)
  OBVIOUS
<1> HIDE DEF entries, shown, Entries
<1>7. ns \in Seq(Seq(Indicators)) /\ DOMAIN ns = DOMAIN entries
  <2>1. DOMAIN entries = 1..Len(entries) /\ Len(entries) \in Nat
    BY <1>4
  <2>2. \A n \in 1..Len(entries) : UpTo(most, entries[n].names) \in Seq(Indicators)
    <3>1. ASSUME NEW n \in 1..Len(entries)
          PROVE  UpTo(most, entries[n].names) \in Seq(Indicators)
      <4>1. entries[n].names \in Seq(Indicators)
        BY <1>4, <1>6
      <4> QED
        BY <1>2, <4>1, FirstMembers
    <3> QED
      BY <3>1
  <2>3. ns \in [1..Len(entries) -> Seq(Indicators)]
    BY <2>1, <2>2
  <2> HIDE DEF ns
  <2>4. ns \in Seq(Seq(Indicators)) /\ Len(ns) = Len(entries)
    BY <2>1, <2>3, FunctionIsSeq
  <2> QED
    BY <2>1, <2>3, <2>4
<1>8. \A n \in DOMAIN entries : ns[n] = UpTo(most, entries[n].names)
  OBVIOUS
<1> HIDE DEF ns
<1>9. some \in Seq(Indicators) /\ ToSet(some) = UNION {ToSet(ns[n]) : n \in DOMAIN ns}
  BY <1>7, FlattenMembers
<1> HIDE DEF some
<1>10. ASSUME NEW i \in ToSet(some)
       PROVE  \E e \in ToSet(listed) : e.type \in VALID_INDICATOR_TYPES
                                       /\ i \in ToSet(UpTo(2, e.names))
  <2>1. PICK n \in DOMAIN entries : i \in ToSet(ns[n])
    BY <1>7, <1>9, Zenon
  <2> DEFINE e == entries[n]
  <2>2. e \in ToSet(entries)
    BY DEF ToSet
  <2>3. e \in ToSet(listed) /\ e \in Entries /\ e.type \in VALID_INDICATOR_TYPES
    BY <1>4, <1>5, <2>2
  <2>4. i \in ToSet(UpTo(most, e.names))
    BY <1>8, <2>1
  <2> HIDE DEF e
  <2>5. i \in ToSet(UpTo(2, e.names))
    <3>1. e.names \in Seq(Indicators)
      BY <1>6, <2>3
    <3>2. ToSet(UpTo(most, e.names)) \subseteq ToSet(UpTo(2, e.names))
      BY <1>2, <3>1, FirstMembers
    <3> QED
      BY <2>4, <3>2
  <2> QED
    BY <2>3, <2>5
<1>11. /\ FlattenSeq(is) \in Seq(Indicators)
       /\ ToSet(FlattenSeq(is)) = ToSet(some) \cap new
  <2>1. \A n \in DOMAIN some : some[n] \in Indicators
    BY <1>9
  <2>2. /\ is = [n \in DOMAIN some |-> is[n]]
        /\ \A n \in DOMAIN some : is[n] = IF some[n] \in new THEN <<some[n]>> ELSE <<>>
    BY <2>1
  <2> HIDE DEF is, new
  <2> QED
    BY <1>9, <2>2, PickMembers, ZenonT(30)
<1>12. \A i \in new : i \notin t.intel.private /\ i \notin inv.enriched
  OBVIOUS
<1> HIDE DEF is, new
<1>13. ASSUME NEW i \in ToSet(FlattenSeq(is))
       PROVE  i \notin inv.enriched /\ <<"enrich_indicator", i, a>> \in Offered(t)
  <2>1. i \in ToSet(some) /\ i \notin t.intel.private /\ i \notin inv.enriched
    BY <1>11, <1>12
  <2>2. PICK e \in ToSet(listed) : e.type \in VALID_INDICATOR_TYPES
                                   /\ i \in ToSet(UpTo(2, e.names))
    BY <1>10, <2>1
  <2> QED
    BY <2>1, <2>2, OfferedWork DEF listed
<1> QED
  BY <1>1, <1>11, <1>13

\* The sources still to query are new, and offered.
LEMMA SourcesLeft ==
  ASSUME NEW t \in Tasks, ~(Len(t.queue) >= 20), Len(t.queue) # 5, NEW a \in Alerts(t),
         NEW inv, NEW budget, NEW open
  PROVE  /\ Unqueried(t, a, inv, budget, open) \in Seq(SourceNames)
         /\ \A s \in ToSet(Unqueried(t, a, inv, budget, open)) :
              s \notin inv.queried /\ <<"query_logs", s, a>> \in Offered(t)
<1> DEFINE sources == SmartSources(t.alerts[a])
           most == IF open >= 20 THEN 1
                   ELSE IF open >= 8 \/ StepsPerAlert(budget, open) <= 3 THEN 2 ELSE 4
           first == UpTo(most, sources)
           new == {s \in SourceNames : s \notin inv.queried}
           ss == [n \in DOMAIN first |-> IF first[n] \notin inv.queried THEN <<first[n]>> ELSE <<>>]
<1>1. Unqueried(t, a, inv, budget, open) = FlattenSeq(ss)
  BY DEF Unqueried, Pick, Each
<1>2. most \in Nat
  OBVIOUS
<1> HIDE DEF most
<1>3. sources \in Seq(SourceNames)
  BY SourcesListed
<1>4. \A s \in ToSet(sources) : <<"query_logs", s, a>> \in Offered(t)
  BY OfferedWork
<1> HIDE DEF sources
<1>5. first \in Seq(SourceNames) /\ ToSet(first) \subseteq ToSet(sources)
  BY <1>2, <1>3, FirstMembers
<1> HIDE DEF first
<1>6. /\ FlattenSeq(ss) \in Seq(SourceNames)
      /\ ToSet(FlattenSeq(ss)) = ToSet(first) \cap new
  <2>1. \A n \in DOMAIN first : first[n] \in SourceNames
    BY <1>5
  <2>2. /\ ss = [n \in DOMAIN first |-> ss[n]]
        /\ \A n \in DOMAIN first : ss[n] = IF first[n] \in new THEN <<first[n]>> ELSE <<>>
    BY <2>1
  <2> HIDE DEF ss, new
  <2>3. first \in Seq(SourceNames)
    BY <1>5
  <2> QED
    BY <2>2, <2>3, PickMembers, ZenonT(30)
<1> HIDE DEF ss
<1> QED
  BY <1>1, <1>4, <1>5, <1>6

\* The alerts still to correlate with are others, in pairs not yet tried.
LEMMA PairsLeft ==
  ASSUME NEW t \in Tasks, NEW a \in Alerts(t), NEW pairs, NEW budget, NEW open
  PROVE  /\ Uncorrelated(t, a, pairs, budget, open) \in Seq(AlertIds)
         /\ \A b \in ToSet(Uncorrelated(t, a, pairs, budget, open)) :
              b \in Alerts(t) /\ {a, b} \notin pairs
<1> DEFINE q == t.queue
           os == [n \in DOMAIN q |-> IF q[n] # a THEN <<q[n]>> ELSE <<>>]
           others == FlattenSeq(os)
           most == IF StepsPerAlert(budget, open) <= 3 /\ Len(others) > 3
                   THEN 3 ELSE Len(others)
           tried == Cardinality({pair \in pairs : a \in pair})
           shares(b) == Indicated(t.alerts[a]) \cap Indicated(t.alerts[b]) # {}
           sharing == {b \in AlertIds : shares(b)}
           hs == [n \in DOMAIN others |-> IF shares(others[n]) THEN <<others[n]>> ELSE <<>>]
           guesses == IF tried < most THEN UpTo(most, others) ELSE <<>>
           all == FlattenSeq(hs) \o guesses
           new == {b \in AlertIds : {a, b} \notin pairs}
           ns == [n \in DOMAIN all |-> IF {a, all[n]} \notin pairs THEN <<all[n]>> ELSE <<>>]
<1>1. Uncorrelated(t, a, pairs, budget, open) = FlattenSeq(ns)
  BY DEF Uncorrelated, Pick, Each
<1>2. q \in Seq(AlertIds) /\ ToSet(q) = Alerts(t)
  BY QueueFacts
<1> HIDE DEF q, tried, shares
<1>3. others \in Seq(AlertIds) /\ ToSet(others) \subseteq Alerts(t)
  <2> DEFINE rest == {b \in AlertIds : b # a}
  <2>1. /\ os = [n \in DOMAIN q |-> os[n]]
        /\ \A n \in DOMAIN q : os[n] = IF q[n] \in rest THEN <<q[n]>> ELSE <<>>
    BY <1>2
  <2> HIDE DEF os, rest
  <2>2. FlattenSeq(os) \in Seq(AlertIds) /\ ToSet(FlattenSeq(os)) = ToSet(q) \cap rest
    BY <1>2, <2>1, PickMembers, ZenonT(30)
  <2> QED
    BY <1>2, <2>2
<1> HIDE DEF others
<1>4. most \in Nat
  BY <1>3
<1> HIDE DEF most
<1>5. FlattenSeq(hs) \in Seq(AlertIds) /\ ToSet(FlattenSeq(hs)) \subseteq Alerts(t)
  <2>1. /\ hs = [n \in DOMAIN others |-> hs[n]]
        /\ \A n \in DOMAIN others :
             hs[n] = IF others[n] \in sharing THEN <<others[n]>> ELSE <<>>
    BY <1>3
  <2> HIDE DEF hs, sharing
  <2>2. FlattenSeq(hs) \in Seq(AlertIds) /\ ToSet(FlattenSeq(hs)) = ToSet(others) \cap sharing
    BY <1>3, <2>1, PickMembers, ZenonT(30)
  <2> QED
    BY <1>3, <2>2
<1>6. guesses \in Seq(AlertIds) /\ ToSet(guesses) \subseteq Alerts(t)
  <2>1. UpTo(most, others) \in Seq(AlertIds) /\ ToSet(UpTo(most, others)) \subseteq ToSet(others)
    BY <1>3, <1>4, FirstMembers
  <2>2. <<>> \in Seq(AlertIds) /\ ToSet(<<>>) = {}
    BY DEF ToSet
  <2> QED
    BY <1>3, <2>1, <2>2
<1> HIDE DEF hs, guesses
<1>7. all \in Seq(AlertIds) /\ ToSet(all) \subseteq Alerts(t)
  BY <1>5, <1>6, ConcatMembers
<1> HIDE DEF all
<1>8. FlattenSeq(ns) \in Seq(AlertIds) /\ ToSet(FlattenSeq(ns)) = ToSet(all) \cap new
  <2>1. /\ ns = [n \in DOMAIN all |-> ns[n]]
        /\ \A n \in DOMAIN all : ns[n] = IF all[n] \in new THEN <<all[n]>> ELSE <<>>
    BY <1>7
  <2> HIDE DEF ns, new
  <2> QED
    BY <1>7, <2>1, PickMembers, ZenonT(30)
<1> HIDE DEF ns
<1> QED
  BY <1>1, <1>7, <1>8

\* Following up on an alert called real is new work.
LEMMA FollowUpFresh ==
  ASSUME NEW t \in Tasks, ~(Len(t.queue) >= 20), NEW invs, NEW pairs,
         NEW q \in Seq(AlertIds), ToSet(q) = Alerts(t),
         NEW f, f = [n \in DOMAIN Unfollowed(q, invs) |-> f[n]],
         \A n \in DOMAIN Unfollowed(q, invs) :
           \E x : f[n] = IF invs[Unfollowed(q, invs)[n]].mapped = {}
                           THEN <<"map_technique", Unfollowed(q, invs)[n], x>>
                           ELSE <<"recommend_action", Unfollowed(q, invs)[n], x>>
  PROVE  NewWork(t, invs, pairs, f) /\ (f = <<>> => \A a \in Alerts(t) : ~Due(invs[a]))
<1> DEFINE todo == Unfollowed(q, invs)
<1>1. todo \in Seq(AlertIds) /\ ToSet(todo) = {a \in Alerts(t) : Due(invs[a])}
  BY WorkLeft
<1>2. /\ f = [n \in DOMAIN todo |-> f[n]]
      /\ \A n \in DOMAIN todo :
           \E x : f[n] = IF invs[todo[n]].mapped = {} THEN <<"map_technique", todo[n], x>>
                         ELSE <<"recommend_action", todo[n], x>>
  OBVIOUS
<1> HIDE DEF todo
<1>3. /\ List(f) /\ (f = <<>> <=> ToSet(todo) = {})
      /\ f # <<>> => \E n \in DOMAIN todo : todo[n] \in ToSet(todo) /\ Head(f) = f[n]
  BY <1>1, <1>2, EachMember
<1>4. ASSUME f # <<>> PROVE Fresh(t, invs, pairs, Head(f))
  <2>1. PICK n \in DOMAIN todo : todo[n] \in ToSet(todo) /\ Head(f) = f[n]
    BY <1>3, <1>4
  <2> DEFINE a == todo[n]
  <2>2. a \in Alerts(t) /\ Due(invs[a])
    BY <1>1, <2>1
  <2>3. PICK x : Head(f) = IF invs[a].mapped = {} THEN <<"map_technique", a, x>>
                           ELSE <<"recommend_action", a, x>>
    BY <1>2, <2>1
  <2> HIDE DEF a
  <2>4. <<"map_technique", a>> \in Offered(t) /\ <<"recommend_action", a>> \in Offered(t)
    BY <2>2, OfferedWork
  <2> QED
    BY <2>2, <2>3, <2>4 DEF Fresh, Due
<1> QED
  BY <1>1, <1>3, <1>4 DEF NewWork

\* What is still to do on alert a, the verdict included.
Investigating(t, a, invs, pairs, budget, open) ==
  [n \in DOMAIN Unenriched(t, a, invs[a], open) |->
     <<"enrich_indicator", Unenriched(t, a, invs[a], open)[n], a>>]
  \o [n \in DOMAIN Unqueried(t, a, invs[a], budget, open) |->
        <<"query_logs", Unqueried(t, a, invs[a], budget, open)[n], a>>]
  \o [n \in DOMAIN Uncorrelated(t, a, pairs, budget, open) |->
        <<"correlate_alerts", a, Uncorrelated(t, a, pairs, budget, open)[n]>>]
  \o <<<<"classify_alert", a, InferClassification(t, a, invs[a])>>>>

\* The next call on an open alert is new evidence, or the verdict.
LEMMA InvestigationFresh ==
  ASSUME NEW t \in Tasks, ~(Len(t.queue) >= 20), Len(t.queue) # 5, NEW invs, NEW pairs,
         NEW a \in Alerts(t), Open(invs[a]), NEW budget, NEW open
  PROVE  LET all == Investigating(t, a, invs, pairs, budget, open)
         IN  List(all) /\ all # <<>> /\ Sensible(t, invs, pairs, Head(all))
<1> DEFINE indicators == Unenriched(t, a, invs[a], open)
           sources == Unqueried(t, a, invs[a], budget, open)
           others == Uncorrelated(t, a, pairs, budget, open)
           enriching == [n \in DOMAIN indicators |-> <<"enrich_indicator", indicators[n], a>>]
           querying == [n \in DOMAIN sources |-> <<"query_logs", sources[n], a>>]
           linking == [n \in DOMAIN others |-> <<"correlate_alerts", a, others[n]>>]
           closing == <<"classify_alert", a, InferClassification(t, a, invs[a])>>
           all == Investigating(t, a, invs, pairs, budget, open)
<1>1. all = enriching \o querying \o linking \o <<closing>>
  BY DEF Investigating
<1>2. /\ indicators \in Seq(Indicators)
      /\ \A i \in ToSet(indicators) :
           i \notin invs[a].enriched /\ <<"enrich_indicator", i, a>> \in Offered(t)
  BY IndicatorsLeft
<1>3. /\ sources \in Seq(SourceNames)
      /\ \A s \in ToSet(sources) :
           s \notin invs[a].queried /\ <<"query_logs", s, a>> \in Offered(t)
  BY SourcesLeft
<1>4. /\ others \in Seq(AlertIds)
      /\ \A b \in ToSet(others) : b \in Alerts(t) /\ {a, b} \notin pairs
  BY PairsLeft
<1>5. Fresh(t, invs, pairs, closing)
  <2>1. InferClassification(t, a, invs[a]) \in Judged
    BY EvidenceVerdict
  <2>2. <<"classify_alert", a>> \in Offered(t)
    BY OfferedWork
  <2> DEFINE c == InferClassification(t, a, invs[a])
  <2> HIDE DEF c
  <2>3. c \in Judged /\ closing = <<"classify_alert", a, c>>
    BY <2>1 DEF c
  <2> HIDE DEF closing
  <2> QED
    BY <2>2, <2>3 DEF Fresh
<1> HIDE DEF indicators, sources, others, closing
<1>6. NewWork(t, invs, pairs, enriching)
  <2>1. /\ enriching = [n \in DOMAIN indicators |-> enriching[n]]
        /\ \A n \in DOMAIN indicators : enriching[n] = <<"enrich_indicator", indicators[n], a>>
    OBVIOUS
  <2> HIDE DEF enriching
  <2>2. /\ List(enriching)
        /\ enriching # <<>> => \E n \in DOMAIN indicators :
             indicators[n] \in ToSet(indicators) /\ Head(enriching) = enriching[n]
    BY <1>2, <2>1, EachMember
  <2>3. ASSUME enriching # <<>> PROVE Fresh(t, invs, pairs, Head(enriching))
    <3>1. PICK n \in DOMAIN indicators :
            indicators[n] \in ToSet(indicators) /\ Head(enriching) = enriching[n]
      BY <2>2, <2>3
    <3>2. PICK i : /\ Head(enriching) = <<"enrich_indicator", i, a>>
                   /\ i \notin invs[a].enriched
                   /\ <<"enrich_indicator", i, a>> \in Offered(t)
      BY <1>2, <2>1, <3>1
    <3> QED
      BY <3>2 DEF Fresh
  <2> QED
    BY <2>2, <2>3 DEF NewWork
<1>7. NewWork(t, invs, pairs, querying)
  <2>1. /\ querying = [n \in DOMAIN sources |-> querying[n]]
        /\ \A n \in DOMAIN sources : querying[n] = <<"query_logs", sources[n], a>>
    OBVIOUS
  <2> HIDE DEF querying
  <2>2. /\ List(querying)
        /\ querying # <<>> => \E n \in DOMAIN sources :
             sources[n] \in ToSet(sources) /\ Head(querying) = querying[n]
    BY <1>3, <2>1, EachMember
  <2>3. ASSUME querying # <<>> PROVE Fresh(t, invs, pairs, Head(querying))
    <3>1. PICK n \in DOMAIN sources :
            sources[n] \in ToSet(sources) /\ Head(querying) = querying[n]
      BY <2>2, <2>3
    <3>2. PICK s : /\ Head(querying) = <<"query_logs", s, a>>
                   /\ s \notin invs[a].queried
                   /\ <<"query_logs", s, a>> \in Offered(t)
      BY <1>3, <2>1, <3>1
    <3> QED
      BY <3>2 DEF Fresh
  <2> QED
    BY <2>2, <2>3 DEF NewWork
<1>8. NewWork(t, invs, pairs, linking)
  <2>1. /\ linking = [n \in DOMAIN others |-> linking[n]]
        /\ \A n \in DOMAIN others : linking[n] = <<"correlate_alerts", a, others[n]>>
    OBVIOUS
  <2> HIDE DEF linking
  <2>2. /\ List(linking)
        /\ linking # <<>> => \E n \in DOMAIN others :
             others[n] \in ToSet(others) /\ Head(linking) = linking[n]
    BY <1>4, <2>1, EachMember
  <2>3. ASSUME linking # <<>> PROVE Fresh(t, invs, pairs, Head(linking))
    <3>1. PICK n \in DOMAIN others :
            others[n] \in ToSet(others) /\ Head(linking) = linking[n]
      BY <2>2, <2>3
    <3>2. PICK b \in Alerts(t) : /\ Head(linking) = <<"correlate_alerts", a, b>>
                                 /\ {a, b} \notin pairs
      BY <1>4, <2>1, <3>1
    <3>3. a # b => <<"correlate_alerts", {a, b}>> \in Offered(t)
      BY OfferedWork
    <3> QED
      BY <3>2, <3>3 DEF Fresh
  <2> QED
    BY <2>2, <2>3 DEF NewWork
<1> HIDE DEF enriching, querying, linking
<1> DEFINE two == enriching \o querying
           work == two \o linking
<1>9. NewWork(t, invs, pairs, two)
  BY <1>6, <1>7, MoreNewWork
<1>10. all = work \o <<closing>>
  BY <1>1
<1> HIDE DEF two
<1>11. NewWork(t, invs, pairs, work)
  BY <1>8, <1>9, MoreNewWork
<1> HIDE DEF work, all
<1>12. List(all) /\ all # <<>> /\ Sensible(t, invs, pairs, Head(all))
  <2> DEFINE last == <<closing>>
  <2>1. List(last) /\ last # <<>> /\ Head(last) = closing
    BY LastCall
  <2>2. all = work \o last
    BY <1>10
  <2> HIDE DEF last
  <2>3. Sensible(t, invs, pairs, Head(last))
    BY <1>5, <2>1 DEF Sensible
  <2> QED
    BY <1>11, <2>1, <2>2, <2>3, SensibleList
<1> QED
  BY <1>12 DEF all

\* Nor does the playbook of any other queue.
LEMMA GenericSensible ==
  ASSUME NEW t \in Tasks, ~(Len(t.queue) >= 20), Len(t.queue) # 5, NEW invs, NEW pairs, NEW budget
  PROVE  Sensible(t, invs, pairs, NextGenericAction(t, invs, budget, pairs))
<1> DEFINE open == Unjudged(t.queue, invs)
           target == BySeverity(t, open)[1]
           due == Unfollowed(t.queue, invs)
           following == [n \in DOMAIN due |->
                           IF invs[due[n]].mapped = {}
                             THEN <<"map_technique", due[n], InferTechnique(t.alerts[due[n]])>>
                             ELSE <<"recommend_action", due[n],
                                    InferResponseAction(t.alerts[due[n]],
                                                        invs[due[n]].classification)>>]
           rest == IF open = <<>> THEN <<Submit>>
                   ELSE Investigating(t, target, invs, pairs, budget, Len(open))
           head == NextGenericAction(t, invs, budget, pairs)
<1>1. head = Head(following \o rest)
  BY DEF NextGenericAction, Each, Investigating
<1>2. /\ following = [n \in DOMAIN due |-> following[n]]
      /\ \A n \in DOMAIN due :
           \E x : following[n] = IF invs[due[n]].mapped = {} THEN <<"map_technique", due[n], x>>
                                 ELSE <<"recommend_action", due[n], x>>
  <2> HIDE DEF due
  <2> QED
    OBVIOUS
<1> HIDE DEF following, head
<1>4. t.queue \in Seq(AlertIds) /\ ToSet(t.queue) = Alerts(t)
  BY QueueFacts
<1>3. NewWork(t, invs, pairs, following) /\ (following = <<>> => \A a \in Alerts(t) : ~Due(invs[a]))
  BY <1>2, <1>4, FollowUpFresh DEF due
<1> HIDE DEF due
<1>5. open \in Seq(AlertIds) /\ ToSet(open) = {a \in Alerts(t) : Open(invs[a])}
  BY <1>4, WorkLeft
<1> HIDE DEF open
<1>6. CASE open = <<>>
  <2>1. rest = <<Submit>>
    BY <1>6
  <2> HIDE DEF rest
  <2>2. following = <<>> => Finished(t, invs)
    <3>1. ToSet(open) = {}
      BY <1>6 DEF ToSet
    <3>2. \A a \in Alerts(t) : ~Open(invs[a])
      BY <1>5, <3>1
    <3> QED
      BY <1>3, <3>2 DEF Finished, Due, Open
  <2>3. List(rest) /\ rest # <<>> /\ (following = <<>> => Sensible(t, invs, pairs, Head(rest)))
    BY <2>1, <2>2, LastCall DEF Sensible
  <2> QED
    BY <1>1, <1>3, <2>3, SensibleList DEF head
<1>7. CASE open # <<>>
  <2>1. target \in Alerts(t) /\ Open(invs[target])
    <3>1. /\ BySeverity(t, open) \in Seq(AlertIds)
          /\ ToSet(BySeverity(t, open)) = ToSet(open)
      BY <1>5, SeverityOrdered
    <3>2. open[1] \in ToSet(open)
      BY <1>5, <1>7 DEF ToSet
    <3>3. ToSet(<<>>) = {}
      BY DEF ToSet
    <3>4. target \in ToSet(BySeverity(t, open))
      <4> DEFINE ordered == BySeverity(t, open)
      <4> HIDE DEF ordered
      <4>1. ordered \in Seq(AlertIds) /\ ordered # <<>>
        BY <3>1, <3>2, <3>3 DEF ordered
      <4>2. ordered[1] \in ToSet(ordered)
        BY <4>1 DEF ToSet
      <4> QED
        BY <4>2 DEF ordered
    <3> QED
      BY <1>5, <3>1, <3>4
  <2> HIDE DEF target
  <2>2. rest = Investigating(t, target, invs, pairs, budget, Len(open))
    BY <1>7
  <2>3. List(rest) /\ rest # <<>> /\ Sensible(t, invs, pairs, Head(rest))
    <3> DEFINE k == Len(open)
    <3>1. rest = Investigating(t, target, invs, pairs, budget, k)
      BY <2>2
    <3> HIDE DEF rest, k
    <3> QED
      BY <2>1, <3>1, InvestigationFresh
  <2> HIDE DEF rest
  <2> QED
    BY <1>1, <1>3, <2>3, SensibleList DEF head
<1> QED
  BY <1>6, <1>7

\* Whatever is on record, the rule-based analyst's next call is new work that the
\* task offers it, or the submission of finished work.
LEMMA NextActionSensible ==
  ASSUME NEW t \in Tasks, NEW invs, NEW pairs, NEW budget
  PROVE  Sensible(t, invs, pairs, NextAction(t, invs, budget, pairs))
<1>1. Len(t.queue) \in Nat
  BY QueueFacts
<1>2. CASE Len(t.queue) = 5
  BY <1>2, LateralSensible DEF NextAction
<1>3. CASE Len(t.queue) >= 20
  <2> DEFINE k == Len(t.queue)
  <2> HIDE DEF k
  <2>1. k \in Nat /\ k >= 20
    BY <1>1, <1>3 DEF k
  <2>2. k # 5
    BY <2>1
  <2>3. NextAction(t, invs, budget, pairs) = NextQueueAction(t, invs)
    BY <1>3, <2>2 DEF NextAction, k
  <2> QED
    BY <2>3, QueueSensible
<1>4. CASE ~(Len(t.queue) >= 20) /\ Len(t.queue) # 5
  BY <1>4, GenericSensible DEF NextAction
<1> QED
  BY <1>2, <1>3, <1>4

-----------------------------------------------------------------------------
(* The work on record.                                                     *)

\* What is a piece of work on record.
LEMMA PieceCases ==
  ASSUME NEW invs, NEW pairs, NEW p
  PROVE  p \in Pieces(invs, pairs) <=>
           \/ \E a \in DOMAIN invs : \E i \in invs[a].enriched : p = <<"enrich_indicator", i, a>>
           \/ \E a \in DOMAIN invs : \E s \in invs[a].queried : p = <<"query_logs", s, a>>
           \/ \E pair \in pairs : p = <<"correlate_alerts", pair>>
           \/ \E a \in DOMAIN invs : ~Open(invs[a]) /\ p = <<"classify_alert", a>>
           \/ \E a \in DOMAIN invs : invs[a].mapped # {} /\ p = <<"map_technique", a>>
           \/ \E a \in DOMAIN invs : invs[a].recommended # {} /\ p = <<"recommend_action", a>>
<1> DEFINE found(a) == ({"enrich_indicator"} \X invs[a].enriched \X {a})
                         \cup ({"query_logs"} \X invs[a].queried \X {a})
           evidence == UNION {found(a) : a \in DOMAIN invs}
           links == {"correlate_alerts"} \X pairs
           judged == {"classify_alert"} \X {a \in DOMAIN invs : ~Open(invs[a])}
           mapped == {"map_technique"} \X {a \in DOMAIN invs : invs[a].mapped # {}}
           answered == {"recommend_action"} \X {a \in DOMAIN invs : invs[a].recommended # {}}
<1>1. \A a : p \in found(a) <=> \/ \E i \in invs[a].enriched : p = <<"enrich_indicator", i, a>>
                                \/ \E s \in invs[a].queried : p = <<"query_logs", s, a>>
  OBVIOUS
<1>2. Pieces(invs, pairs) = evidence \cup links \cup judged \cup mapped \cup answered
  BY DEF Pieces
<1>3. p \in links <=> \E pair \in pairs : p = <<"correlate_alerts", pair>>
  OBVIOUS
<1>4. p \in judged <=> \E a \in DOMAIN invs : ~Open(invs[a]) /\ p = <<"classify_alert", a>>
  OBVIOUS
<1>5. p \in mapped <=> \E a \in DOMAIN invs : invs[a].mapped # {} /\ p = <<"map_technique", a>>
  OBVIOUS
<1>6. p \in answered <=>
        \E a \in DOMAIN invs : invs[a].recommended # {} /\ p = <<"recommend_action", a>>
  OBVIOUS
<1> HIDE DEF found, links, judged, mapped, answered
<1>7. p \in evidence <=> \E a \in DOMAIN invs : p \in found(a)
  BY Zenon
<1> HIDE DEF evidence
<1> QED
  BY <1>1, <1>2, <1>3, <1>4, <1>5, <1>6, <1>7

\* A field of an investigation that gets an entry is the only one to change.
LEMMA RowAfter ==
  ASSUME NEW a \in DOMAIN investigations, DOMAIN investigations[a] = DOMAIN Untouched,
         NEW field \in {"enriched", "queried", "mapped", "recommended"}, NEW x,
         Record(a, field, x)
  PROVE  /\ DOMAIN investigations' = DOMAIN investigations
         /\ \A b \in DOMAIN investigations : b # a => investigations'[b] = investigations[b]
         /\ \A f \in {"classification", "enriched", "queried", "mapped", "recommended"} :
              investigations'[a][f] = IF f = field THEN investigations[a][f] \cup {x}
                                      ELSE investigations[a][f]
<1> DEFINE inv == Noted(investigations[a], field, x)
<1>1. investigations' = [investigations EXCEPT ![a] = inv]
  BY Zenon DEF Record
<1>2. /\ {"classification", "enriched", "queried", "mapped", "recommended"}
           \subseteq DOMAIN investigations[a]
      /\ field \in DOMAIN investigations[a]
  BY DEF Untouched
<1>3. \A f \in DOMAIN investigations[a] :
        inv[f] = IF f = field THEN investigations[a][f] \cup {x} ELSE investigations[a][f]
  BY <1>2 DEF Noted
<1> HIDE DEF inv
<1> QED
  BY <1>1, <1>2, <1>3

\* The piece of work a call is to leave.
PieceOf(call) ==
  IF call[1] \in {"enrich_indicator", "query_logs"} THEN call
  ELSE IF call[1] = "correlate_alerts" THEN <<call[1], {call[2], call[3]}>>
  ELSE <<call[1], call[2]>>

\* A step is counted, and the call is in the history once more.
StepTaken(call) == /\ step' = step + 1 /\ (done' <=> step + 1 >= config.max_steps)
                   /\ action_history' = action_history (+) SetToBag({call})

\* That is what the tail of step() does in a solo episode.
LEMMA SoloCommit ==
  ASSUME mode = "tier1_solo", NEW call, NEW r, Commit(call, r)
  PROVE  StepTaken(call)
BY DEF Commit, SoloTail, StepTaken

\* Each call leaves the piece of work it is for, and no other.
LEMMA EnrichWork ==
  ASSUME NEW a \in DOMAIN investigations, a # None, NEW i, NEW pairs,
         \A b \in DOMAIN investigations : DOMAIN investigations[b] = DOMAIN Untouched,
         i \notin investigations[a].enriched, Enrich(i, a), mode = "tier1_solo"
  PROVE  LET call == <<"enrich_indicator", i, a>>
         IN  /\ call \notin Pieces(investigations, pairs)
             /\ Pieces(investigations', pairs) = Pieces(investigations, pairs) \cup {call}
             /\ StepTaken(call)
<1> DEFINE call == <<"enrich_indicator", i, a>>
<1>1. Record(a, "enriched", i) /\ \E r : Commit(call, r)
  BY DEF Enrich, Owner, Known
<1>2. /\ DOMAIN investigations' = DOMAIN investigations
      /\ \A b \in DOMAIN investigations : b # a => investigations'[b] = investigations[b]
      /\ investigations'[a].enriched = investigations[a].enriched \cup {i}
      /\ investigations'[a].queried = investigations[a].queried
      /\ investigations'[a].classification = investigations[a].classification
      /\ investigations'[a].mapped = investigations[a].mapped
      /\ investigations'[a].recommended = investigations[a].recommended
  BY <1>1, RowAfter
<1>3. call \notin Pieces(investigations, pairs)
  BY PieceCases
<1>4. ASSUME NEW p
      PROVE  p \in Pieces(investigations', pairs)
               <=> p \in Pieces(investigations, pairs) \cup {call}
  <2>1. \A b \in DOMAIN investigations :
          /\ b # a => investigations'[b].enriched = investigations[b].enriched
          /\ investigations'[b].queried = investigations[b].queried
          /\ Open(investigations'[b]) <=> Open(investigations[b])
          /\ investigations'[b].mapped = investigations[b].mapped
          /\ investigations'[b].recommended = investigations[b].recommended
    BY <1>2 DEF Open
  <2> QED
    BY <1>2, <2>1, PieceCases
<1> QED
  BY <1>1, <1>3, <1>4, SoloCommit

\* A first query of a source is the work it leaves.
LEMMA QueryWork ==
  ASSUME NEW a \in DOMAIN investigations, a # None, NEW s, NEW pairs,
         \A b \in DOMAIN investigations : DOMAIN investigations[b] = DOMAIN Untouched,
         s \notin investigations[a].queried, QueryLogs(s, a), mode = "tier1_solo"
  PROVE  LET call == <<"query_logs", s, a>>
         IN  /\ call \notin Pieces(investigations, pairs)
             /\ Pieces(investigations', pairs) = Pieces(investigations, pairs) \cup {call}
             /\ StepTaken(call)
<1> DEFINE call == <<"query_logs", s, a>>
<1>1. Record(a, "queried", s) /\ \E r : Commit(call, r)
  BY DEF QueryLogs, OrFirst
<1>2. /\ DOMAIN investigations' = DOMAIN investigations
      /\ \A b \in DOMAIN investigations : b # a => investigations'[b] = investigations[b]
      /\ investigations'[a].enriched = investigations[a].enriched
      /\ investigations'[a].queried = investigations[a].queried \cup {s}
      /\ investigations'[a].classification = investigations[a].classification
      /\ investigations'[a].mapped = investigations[a].mapped
      /\ investigations'[a].recommended = investigations[a].recommended
  BY <1>1, RowAfter
<1>3. call \notin Pieces(investigations, pairs)
  BY PieceCases
<1>4. ASSUME NEW p
      PROVE  p \in Pieces(investigations', pairs)
               <=> p \in Pieces(investigations, pairs) \cup {call}
  <2>1. \A b \in DOMAIN investigations :
          /\ investigations'[b].enriched = investigations[b].enriched
          /\ b # a => investigations'[b].queried = investigations[b].queried
          /\ Open(investigations'[b]) <=> Open(investigations[b])
          /\ investigations'[b].mapped = investigations[b].mapped
          /\ investigations'[b].recommended = investigations[b].recommended
    BY <1>2 DEF Open
  <2> QED
    BY <1>2, <2>1, PieceCases
<1> QED
  BY <1>1, <1>3, <1>4, SoloCommit

\* A first technique is the work it leaves.
LEMMA TechniqueWork ==
  ASSUME NEW a \in DOMAIN investigations, a # None, NEW x, NEW pairs,
         \A b \in DOMAIN investigations : DOMAIN investigations[b] = DOMAIN Untouched,
         investigations[a].mapped = {}, MapTechnique(a, x), mode = "tier1_solo"
  PROVE  LET call == <<"map_technique", a, x>>
             piece == <<"map_technique", a>>
         IN  /\ piece \notin Pieces(investigations, pairs)
             /\ Pieces(investigations', pairs) = Pieces(investigations, pairs) \cup {piece}
             /\ StepTaken(call)
<1> DEFINE call == <<"map_technique", a, x>>
           piece == <<"map_technique", a>>
<1>1. Record(a, "mapped", x) /\ \E r : Commit(call, r)
  BY DEF MapTechnique, OrFirst
<1>2. /\ DOMAIN investigations' = DOMAIN investigations
      /\ \A b \in DOMAIN investigations : b # a => investigations'[b] = investigations[b]
      /\ investigations'[a].enriched = investigations[a].enriched
      /\ investigations'[a].queried = investigations[a].queried
      /\ investigations'[a].classification = investigations[a].classification
      /\ investigations'[a].mapped = investigations[a].mapped \cup {x}
      /\ investigations'[a].recommended = investigations[a].recommended
  BY <1>1, RowAfter
<1>3. piece \notin Pieces(investigations, pairs)
  BY PieceCases
<1>4. ASSUME NEW p
      PROVE  p \in Pieces(investigations', pairs)
               <=> p \in Pieces(investigations, pairs) \cup {piece}
  <2>1. \A b \in DOMAIN investigations :
          /\ investigations'[b].enriched = investigations[b].enriched
          /\ investigations'[b].queried = investigations[b].queried
          /\ Open(investigations'[b]) <=> Open(investigations[b])
          /\ b # a => investigations'[b].mapped = investigations[b].mapped
          /\ investigations'[b].recommended = investigations[b].recommended
    BY <1>2 DEF Open
  <2> QED
    BY <1>2, <2>1, PieceCases
<1> QED
  BY <1>1, <1>3, <1>4, SoloCommit

\* A first response is the work it leaves.
LEMMA ResponseWork ==
  ASSUME NEW a \in DOMAIN investigations, a # None, NEW x, NEW pairs,
         \A b \in DOMAIN investigations : DOMAIN investigations[b] = DOMAIN Untouched,
         investigations[a].recommended = {}, RecommendAction(a, x), mode = "tier1_solo"
  PROVE  LET call == <<"recommend_action", a, x>>
             piece == <<"recommend_action", a>>
         IN  /\ piece \notin Pieces(investigations, pairs)
             /\ Pieces(investigations', pairs) = Pieces(investigations, pairs) \cup {piece}
             /\ StepTaken(call)
<1> DEFINE call == <<"recommend_action", a, x>>
           piece == <<"recommend_action", a>>
<1>1. Record(a, "recommended", x) /\ \E r : Commit(call, r)
  BY DEF RecommendAction, OrFirst
<1>2. /\ DOMAIN investigations' = DOMAIN investigations
      /\ \A b \in DOMAIN investigations : b # a => investigations'[b] = investigations[b]
      /\ investigations'[a].enriched = investigations[a].enriched
      /\ investigations'[a].queried = investigations[a].queried
      /\ investigations'[a].classification = investigations[a].classification
      /\ investigations'[a].mapped = investigations[a].mapped
      /\ investigations'[a].recommended = investigations[a].recommended \cup {x}
  BY <1>1, RowAfter
<1>3. piece \notin Pieces(investigations, pairs)
  BY PieceCases
<1>4. ASSUME NEW p
      PROVE  p \in Pieces(investigations', pairs)
               <=> p \in Pieces(investigations, pairs) \cup {piece}
  <2>1. \A b \in DOMAIN investigations :
          /\ investigations'[b].enriched = investigations[b].enriched
          /\ investigations'[b].queried = investigations[b].queried
          /\ Open(investigations'[b]) <=> Open(investigations[b])
          /\ investigations'[b].mapped = investigations[b].mapped
          /\ b # a => investigations'[b].recommended = investigations[b].recommended
    BY <1>2 DEF Open
  <2> QED
    BY <1>2, <2>1, PieceCases
<1> QED
  BY <1>1, <1>3, <1>4, SoloCommit

\* A first verdict is the work it leaves.
LEMMA VerdictWork ==
  ASSUME NEW a \in DOMAIN investigations, NEW c \in Judged, NEW pairs,
         \A b \in DOMAIN investigations : DOMAIN investigations[b] = DOMAIN Untouched,
         Open(investigations[a]), Classify(a, c), mode = "tier1_solo"
  PROVE  LET call == <<"classify_alert", a, c>>
             piece == <<"classify_alert", a>>
         IN  /\ piece \notin Pieces(investigations, pairs)
             /\ Pieces(investigations', pairs) = Pieces(investigations, pairs) \cup {piece}
             /\ StepTaken(call)
<1> DEFINE call == <<"classify_alert", a, c>>
           piece == <<"classify_alert", a>>
<1>1. /\ investigations' = [investigations EXCEPT ![a].classification = c]
      /\ \E r : Commit(call, r)
  BY DEF Classify
<1>2. /\ DOMAIN investigations' = DOMAIN investigations
      /\ \A b \in DOMAIN investigations : b # a => investigations'[b] = investigations[b]
      /\ \A f \in {"enriched", "queried", "mapped", "recommended"} :
           investigations'[a][f] = investigations[a][f]
      /\ investigations'[a].classification = c
  BY <1>1 DEF Untouched
<1>3. piece \notin Pieces(investigations, pairs)
  BY PieceCases
<1>4. ASSUME NEW p
      PROVE  p \in Pieces(investigations', pairs)
               <=> p \in Pieces(investigations, pairs) \cup {piece}
  <2>1. ~Open(investigations'[a])
    BY <1>2 DEF Open, Judged, Positive
  <2>2. \A b \in DOMAIN investigations :
          /\ investigations'[b].enriched = investigations[b].enriched
          /\ investigations'[b].queried = investigations[b].queried
          /\ b # a => (Open(investigations'[b]) <=> Open(investigations[b]))
          /\ investigations'[b].mapped = investigations[b].mapped
          /\ investigations'[b].recommended = investigations[b].recommended
    BY <1>2
  <2> QED
    BY <1>2, <2>1, <2>2, PieceCases
<1> QED
  BY <1>1, <1>3, <1>4, SoloCommit

\* A first try at a pair is the work it leaves, linked or not, and in either order.
LEMMA LinkWork ==
  ASSUME NEW a, NEW b, NEW pairs, {a, b} \notin pairs,
         \A x \in DOMAIN investigations : DOMAIN investigations[x] = DOMAIN Untouched,
         Correlate(a, b), mode = "tier1_solo"
  PROVE  LET call == <<"correlate_alerts", a, b>>
             piece == <<"correlate_alerts", {a, b}>>
         IN  /\ piece \notin Pieces(investigations, pairs) /\ a # b
             /\ Pieces(investigations', pairs \cup {{a, b}})
                  = Pieces(investigations, pairs) \cup {piece}
             /\ StepTaken(call)
<1> DEFINE call == <<"correlate_alerts", a, b>>
           piece == <<"correlate_alerts", {a, b}>>
           linked(x) == x \in {a, b} /\ ({a, b} \in investigations[a].correlated
                                         \/ {a, b} \in config.linked)
<1>1. /\ investigations' = [x \in DOMAIN investigations |->
                              IF linked(x)
                                THEN [investigations[x] EXCEPT !.correlated = @ \cup {{a, b}}]
                                ELSE investigations[x]]
      /\ \E r : Commit(call, r)
      /\ a # b
  BY DEF Correlate
<1> HIDE DEF linked
<1>2. /\ DOMAIN investigations' = DOMAIN investigations
      /\ \A x \in DOMAIN investigations :
           \A f \in {"classification", "enriched", "queried", "mapped", "recommended"} :
             investigations'[x][f] = investigations[x][f]
  BY <1>1 DEF Untouched
<1>3. piece \notin Pieces(investigations, pairs)
  <2> DEFINE pair == {a, b}
  <2>1. pair \notin pairs
    OBVIOUS
  <2> HIDE DEF pair
  <2>2. <<"correlate_alerts", pair>> \notin Pieces(investigations, pairs)
    BY <2>1, PieceCases
  <2> QED
    BY <2>2 DEF pair
<1>4. ASSUME NEW p
      PROVE  p \in Pieces(investigations', pairs \cup {{a, b}})
               <=> p \in Pieces(investigations, pairs) \cup {piece}
  <2>1. \A x \in DOMAIN investigations :
          /\ investigations'[x].enriched = investigations[x].enriched
          /\ investigations'[x].queried = investigations[x].queried
          /\ Open(investigations'[x]) <=> Open(investigations[x])
          /\ investigations'[x].mapped = investigations[x].mapped
          /\ investigations'[x].recommended = investigations[x].recommended
    BY <1>2 DEF Open
  <2> QED
    BY <1>2, <2>1, PieceCases
<1> QED
  BY <1>1, <1>3, <1>4, SoloCommit

\* A call for new work leaves one more piece of it on record, one the task offers.
LEMMA CallEffect ==
  ASSUME NEW t \in Tasks, DOMAIN investigations = Alerts(t), mode = "tier1_solo",
         \A a \in DOMAIN investigations : DOMAIN investigations[a] = DOMAIN Untouched,
         NEW pairs, NEW call, Fresh(t, investigations, pairs, call), Play(call)
  PROVE  /\ PieceOf(call) \in Offered(t) \ Pieces(investigations, pairs)
         /\ Pieces(investigations', Remembered(call, pairs))
              = Pieces(investigations, pairs) \cup {PieceOf(call)}
         /\ StepTaken(call) /\ call # Submit
<1>1. PICK a \in Alerts(t) :
        \/ \E i : /\ call = <<"enrich_indicator", i, a>> /\ i \notin investigations[a].enriched
                  /\ call \in Offered(t)
        \/ \E s : /\ call = <<"query_logs", s, a>> /\ s \notin investigations[a].queried
                  /\ call \in Offered(t)
        \/ \E b \in Alerts(t) : /\ call = <<"correlate_alerts", a, b>> /\ {a, b} \notin pairs
                                /\ a # b => <<"correlate_alerts", {a, b}>> \in Offered(t)
        \/ \E c \in Judged : /\ call = <<"classify_alert", a, c>> /\ Open(investigations[a])
                             /\ <<"classify_alert", a>> \in Offered(t)
        \/ \E x : /\ call = <<"map_technique", a, x>> /\ investigations[a].mapped = {}
                  /\ <<"map_technique", a>> \in Offered(t)
        \/ \E x : /\ call = <<"recommend_action", a, x>> /\ investigations[a].recommended = {}
                  /\ <<"recommend_action", a>> \in Offered(t)
  BY DEF Fresh
<1>2. a \in DOMAIN investigations /\ a # None
  BY QueueFacts, NoneAssumption
<1>3. ASSUME NEW i, call = <<"enrich_indicator", i, a>>, i \notin investigations[a].enriched,
             call \in Offered(t)
      PROVE  /\ PieceOf(call) = call /\ call # Submit /\ Remembered(call, pairs) = pairs
             /\ call \notin Pieces(investigations, pairs)
             /\ Pieces(investigations', pairs) = Pieces(investigations, pairs) \cup {call}
             /\ StepTaken(call)
  <2>1. Enrich(i, a)
    BY <1>3 DEF Play
  <2>2. /\ call \notin Pieces(investigations, pairs)
        /\ Pieces(investigations', pairs) = Pieces(investigations, pairs) \cup {call}
        /\ StepTaken(call)
    BY <1>2, <1>3, <2>1, EnrichWork
  <2>3. PieceOf(call) = call /\ call # Submit /\ Remembered(call, pairs) = pairs
    BY <1>3 DEF PieceOf, Submit, Remembered
  <2> QED
    BY <2>2, <2>3
<1>4. ASSUME NEW s, call = <<"query_logs", s, a>>, s \notin investigations[a].queried,
             call \in Offered(t)
      PROVE  /\ PieceOf(call) = call /\ call # Submit /\ Remembered(call, pairs) = pairs
             /\ call \notin Pieces(investigations, pairs)
             /\ Pieces(investigations', pairs) = Pieces(investigations, pairs) \cup {call}
             /\ StepTaken(call)
  <2>1. QueryLogs(s, a)
    BY <1>4 DEF Play
  <2>2. /\ call \notin Pieces(investigations, pairs)
        /\ Pieces(investigations', pairs) = Pieces(investigations, pairs) \cup {call}
        /\ StepTaken(call)
    BY <1>2, <1>4, <2>1, QueryWork
  <2>3. PieceOf(call) = call /\ call # Submit /\ Remembered(call, pairs) = pairs
    BY <1>4 DEF PieceOf, Submit, Remembered
  <2> QED
    BY <2>2, <2>3
<1>5. ASSUME NEW b \in Alerts(t), call = <<"correlate_alerts", a, b>>, {a, b} \notin pairs
      PROVE  LET piece == <<"correlate_alerts", {a, b}>>
             IN  /\ PieceOf(call) = piece /\ call # Submit /\ a # b
                 /\ piece \notin Pieces(investigations, pairs)
                 /\ Pieces(investigations', Remembered(call, pairs))
                      = Pieces(investigations, pairs) \cup {piece}
                 /\ StepTaken(call)
  <2> DEFINE piece == <<"correlate_alerts", {a, b}>>
  <2>1. Correlate(a, b)
    BY <1>5 DEF Play
  <2>2. /\ piece \notin Pieces(investigations, pairs) /\ a # b
        /\ Pieces(investigations', pairs \cup {{a, b}})
             = Pieces(investigations, pairs) \cup {piece}
        /\ StepTaken(call)
    BY <1>5, <2>1, LinkWork
  <2>3. PieceOf(call) = piece /\ call # Submit /\ Remembered(call, pairs) = pairs \cup {{a, b}}
    BY <1>5 DEF PieceOf, Submit, Remembered
  <2> QED
    BY <2>2, <2>3
<1>6. ASSUME NEW c \in Judged, call = <<"classify_alert", a, c>>, Open(investigations[a])
      PROVE  LET piece == <<"classify_alert", a>>
             IN  /\ PieceOf(call) = piece /\ call # Submit /\ Remembered(call, pairs) = pairs
                 /\ piece \notin Pieces(investigations, pairs)
                 /\ Pieces(investigations', pairs) = Pieces(investigations, pairs) \cup {piece}
                 /\ StepTaken(call)
  <2> DEFINE piece == <<"classify_alert", a>>
  <2>1. Classify(a, c)
    BY <1>6 DEF Play
  <2>2. /\ piece \notin Pieces(investigations, pairs)
        /\ Pieces(investigations', pairs) = Pieces(investigations, pairs) \cup {piece}
        /\ StepTaken(call)
    BY <1>2, <1>6, <2>1, VerdictWork
  <2>3. PieceOf(call) = piece /\ call # Submit /\ Remembered(call, pairs) = pairs
    BY <1>6 DEF PieceOf, Submit, Remembered
  <2> QED
    BY <2>2, <2>3
<1>7. ASSUME NEW x, call = <<"map_technique", a, x>>, investigations[a].mapped = {}
      PROVE  LET piece == <<"map_technique", a>>
             IN  /\ PieceOf(call) = piece /\ call # Submit /\ Remembered(call, pairs) = pairs
                 /\ piece \notin Pieces(investigations, pairs)
                 /\ Pieces(investigations', pairs) = Pieces(investigations, pairs) \cup {piece}
                 /\ StepTaken(call)
  <2> DEFINE piece == <<"map_technique", a>>
  <2>1. MapTechnique(a, x)
    BY <1>7 DEF Play
  <2>2. /\ piece \notin Pieces(investigations, pairs)
        /\ Pieces(investigations', pairs) = Pieces(investigations, pairs) \cup {piece}
        /\ StepTaken(call)
    BY <1>2, <1>7, <2>1, TechniqueWork
  <2>3. PieceOf(call) = piece /\ call # Submit /\ Remembered(call, pairs) = pairs
    BY <1>7 DEF PieceOf, Submit, Remembered
  <2> QED
    BY <2>2, <2>3
<1>8. ASSUME NEW x, call = <<"recommend_action", a, x>>, investigations[a].recommended = {}
      PROVE  LET piece == <<"recommend_action", a>>
             IN  /\ PieceOf(call) = piece /\ call # Submit /\ Remembered(call, pairs) = pairs
                 /\ piece \notin Pieces(investigations, pairs)
                 /\ Pieces(investigations', pairs) = Pieces(investigations, pairs) \cup {piece}
                 /\ StepTaken(call)
  <2> DEFINE piece == <<"recommend_action", a>>
  <2>1. RecommendAction(a, x)
    BY <1>8 DEF Play
  <2>2. /\ piece \notin Pieces(investigations, pairs)
        /\ Pieces(investigations', pairs) = Pieces(investigations, pairs) \cup {piece}
        /\ StepTaken(call)
    BY <1>2, <1>8, <2>1, ResponseWork
  <2>3. PieceOf(call) = piece /\ call # Submit /\ Remembered(call, pairs) = pairs
    BY <1>8 DEF PieceOf, Submit, Remembered
  <2> QED
    BY <2>2, <2>3
<1> QED
  BY <1>1, <1>3, <1>4, <1>5, <1>6, <1>7, <1>8

-----------------------------------------------------------------------------
(* What the analyst has to show for its steps.                             *)

\* Every call of the history was made once, and left its piece of work; the
\* submission is the last one.
Worked ==
  /\ Pieces(investigations, attempted) \subseteq Offered(task)
  /\ step = Cardinality(Pieces(investigations, attempted)) + IF Submitted THEN 1 ELSE 0
  /\ \A call \in DOMAIN action_history :
       /\ action_history[call] = 1
       /\ call # Submit => PieceOf(call) \in Pieces(investigations, attempted)
  /\ done /\ ~Submitted => step >= config.max_steps

\* The invariant: an analyst submits once, and only finished work; as long as it is
\* left alone, its steps are its pieces of work.
WorkInv ==
  /\ PlayInv
  /\ disturbed \in Nat
  /\ Analyst => /\ mode = "tier1_solo"
                /\ Submitted => done /\ Finished(task, investigations)
                /\ disturbed = 0 => Worked

\* The work a task offers is finite.
LEMMA OfferedFinite ==
  ASSUME NEW t \in Tasks
  PROVE  IsFiniteSet(Offered(t))
<1> DEFINE known == ToSet(t.queue)
           pairs == {{p[1], p[2]} : p \in known \X known}
<1>1. t.queue \in Seq(AlertIds) /\ known = Alerts(t)
  BY QueueFacts
<1>2. IsFiniteSet(known)
  BY <1>1, FiniteRange
<1> HIDE DEF known
<1>3. \A S, x : IsFiniteSet(S) => IsFiniteSet({x} \X S)
  <2> TAKE S, x
  <2> HAVE IsFiniteSet(S)
  <2>1. IsFiniteSet({x})
    BY FS_Singleton
  <2> QED
    BY <2>1, FS_Product
<1>4. IsFiniteSet(PairsOf(known))
  <2>1. IsFiniteSet(known \X known)
    BY <1>2, FS_Product
  <2>2. IsFiniteSet(pairs)
    <3> DEFINE both == known \X known
               pair(p) == {p[1], p[2]}
    <3>1. pairs = {pair(p) : p \in both}
      OBVIOUS
    <3> HIDE DEF both, pair, pairs
    <3>2. [p \in both |-> pair(p)] \in Surjection(both, pairs)
      BY <3>1 DEF Surjection
    <3> QED
      BY <2>1, <3>2, FS_Surjection DEF both
  <2>3. PairsOf(known) \subseteq pairs
    <3>1. ASSUME NEW a \in known, NEW b \in known PROVE {a, b} \in pairs
      <4> DEFINE p == <<a, b>>
      <4>1. p \in known \X known /\ p[1] = a /\ p[2] = b
        OBVIOUS
      <4> HIDE DEF p
      <4>2. {p[1], p[2]} \in pairs
        BY <4>1
      <4> QED
        BY <4>1, <4>2
    <3> HIDE DEF pairs
    <3>2. \A a \in known : {{a, b} : b \in known \ {a}} \subseteq pairs
      BY <3>1
    <3> QED
      BY <3>2 DEF PairsOf
  <2> QED
    BY <2>2, <2>3, FS_Subset
<1>5. ASSUME NEW a \in known
      PROVE  IsFiniteSet(EvidenceOn(t, a))
  <2>1. IsFiniteSet(Enrichable(t, a))
    <3> DEFINE T == [type : STRING, names : Seq(Indicators)]
               listed == ToSet(t.alerts[a].indicators)
               usable == {x \in listed : x.type \in VALID_INDICATOR_TYPES}
               some(e) == ToSet(UpTo(2, e.names))
               parts == {some(e) : e \in usable}
    <3>1. t.alerts[a].indicators \in Seq(T)
      BY <1>1, QueueFacts
    <3>2. \A e \in listed : e.names \in Seq(Indicators)
      <4> DEFINE seq == t.alerts[a].indicators
      <4>1. \A n \in DOMAIN seq : seq[n] \in T
        <5> HIDE DEF T
        <5> QED
          BY <3>1
      <4>2. \A n \in DOMAIN seq : seq[n].names \in Seq(Indicators)
        BY <4>1
      <4> HIDE DEF seq
      <4>3. \A e \in ToSet(seq) : e.names \in Seq(Indicators)
        BY <4>2 DEF ToSet
      <4> QED
        BY <4>3 DEF seq
    <3>3. IsFiniteSet(listed)
      <4> HIDE DEF T
      <4> QED
        BY <3>1, FiniteRange
    <3>4. IsFiniteSet(usable)
      BY <3>3, FS_Subset
    <3>5. \A e \in usable : IsFiniteSet(some(e))
      <4> TAKE e \in usable
      <4>1. e.names \in Seq(Indicators)
        BY <3>2
      <4>2. UpTo(2, e.names) \in Seq(Indicators)
        BY <4>1, FirstMembers
      <4> QED
        BY <4>2, FiniteRange
    <3> HIDE DEF usable, some
    <3>6. [e \in usable |-> some(e)] \in Surjection(usable, parts)
      BY DEF Surjection
    <3>7. IsFiniteSet(parts)
      BY <3>4, <3>6, FS_Surjection
    <3>8. \A part \in parts : IsFiniteSet(part)
      BY <3>5
    <3>9. IsFiniteSet(UNION parts)
      <4> HIDE DEF parts
      <4> QED
        BY <3>7, <3>8, FS_UNION
    <3>10. Enrichable(t, a) \subseteq UNION parts
      BY Zenon DEF Enrichable, usable, some, listed
    <3> QED
      BY <3>9, <3>10, FS_Subset
  <2>2. IsFiniteSet(ToSet(SmartSources(t.alerts[a])))
    BY SourcesListed, FiniteRange
  <2>3. \A S, x : IsFiniteSet(S) => IsFiniteSet({x} \X S \X {a})
    <3> TAKE S, x
    <3> HAVE IsFiniteSet(S)
    <3> DEFINE T == {x} \X S \X {a}
               f == [s \in S |-> <<x, s, a>>]
    <3>1. \A s \in S : f[s] \in T
      OBVIOUS
    <3>2. \A p \in T : p[2] \in S /\ f[p[2]] = p
      OBVIOUS
    <3>3. f = [s \in S |-> f[s]]
      OBVIOUS
    <3> HIDE DEF T, f
    <3>4. f \in [S -> T]
      BY <3>1, <3>3
    <3>5. f \in Surjection(S, T)
      BY <3>2, <3>4, Zenon DEF Surjection
    <3>6. IsFiniteSet(T)
      BY <3>5, FS_Surjection
    <3> QED
      BY <3>6 DEF T
  <2> DEFINE enriching == {"enrich_indicator"} \X Enrichable(t, a) \X {a}
             querying == {"query_logs"} \X ToSet(SmartSources(t.alerts[a])) \X {a}
  <2>4. IsFiniteSet(enriching) /\ IsFiniteSet(querying)
    BY <2>1, <2>2, <2>3
  <2>5. EvidenceOn(t, a) = enriching \cup querying
    BY DEF EvidenceOn
  <2> HIDE DEF enriching, querying
  <2> QED
    BY <2>4, <2>5, FS_Union
<1> DEFINE parts == {EvidenceOn(t, a) : a \in known}
           verdicts == {"classify_alert", "recommend_action"} \X known
           techniques == {"map_technique"} \X known
           links == {"correlate_alerts"} \X PairsOf(known)
<1>6. IsFiniteSet(UNION parts)
  <2>1. [a \in known |-> EvidenceOn(t, a)] \in Surjection(known, parts)
    BY DEF Surjection
  <2>2. IsFiniteSet(parts)
    BY <1>2, <2>1, FS_Surjection
  <2>3. \A part \in parts : IsFiniteSet(part)
    BY <1>5
  <2> HIDE DEF parts
  <2> QED
    BY <2>2, <2>3, FS_UNION
<1>7. IsFiniteSet(verdicts) /\ IsFiniteSet(techniques) /\ IsFiniteSet(links)
  <2>1. IsFiniteSet({"classify_alert", "recommend_action"})
    <3>1. /\ IsFiniteSet({"classify_alert"}) /\ IsFiniteSet({"recommend_action"})
          /\ {"classify_alert", "recommend_action"} = {"classify_alert"} \cup {"recommend_action"}
      BY FS_Singleton
    <3> QED
      BY <3>1, FS_Union
  <2>2. IsFiniteSet(verdicts)
    BY <1>2, <2>1, FS_Product
  <2> QED
    BY <1>2, <1>3, <1>4, <2>2
<1>8. Offered(t) \subseteq ((verdicts \cup techniques) \cup links) \cup UNION parts
  BY Zenon DEF Offered, known
<1> HIDE DEF verdicts, techniques, links, parts
<1>9. IsFiniteSet(((verdicts \cup techniques) \cup links) \cup UNION parts)
  BY <1>6, <1>7, FS_Union
<1> QED
  BY <1>8, <1>9, FS_Subset

\* A call joins the history; a new one is in it once.
LEMMA OneMoreCall ==
  ASSUME NEW call, action_history' = action_history (+) SetToBag({call})
  PROVE  /\ DOMAIN action_history' = DOMAIN action_history \cup {call}
         /\ call \notin DOMAIN action_history => action_history'[call] = 1
         /\ \A other \in DOMAIN action_history \ {call} :
              action_history[other] = 1 => action_history'[other] = 1
<1> DEFINE one == SetToBag({call})
           sum(e) == (IF e \in DOMAIN action_history THEN action_history[e] ELSE 0)
                       + (IF e \in DOMAIN one THEN one[e] ELSE 0)
<1>1. DOMAIN one = {call} /\ one[call] = 1
  BY DEF SetToBag
<1>2. action_history' = [e \in DOMAIN action_history \cup DOMAIN one |-> sum(e)]
  BY DEF (+)
<1>3. call \notin DOMAIN action_history => sum(call) = 1
  BY <1>1
<1>4. \A other \in DOMAIN action_history \ {call} : action_history[other] = 1 => sum(other) = 1
  BY <1>1
<1> HIDE DEF sum, one
<1>5. DOMAIN action_history' = DOMAIN action_history \cup {call}
  BY <1>1, <1>2
<1>6. \A e \in DOMAIN action_history \cup {call} : action_history'[e] = sum(e)
  BY <1>1, <1>2
<1> QED
  BY <1>3, <1>4, <1>5, <1>6

\* The submission leaves the work as it is.
LEMMA SubmitEffect ==
  ASSUME NEW pairs, Play(Submit)
  PROVE  /\ mode' = mode /\ UNCHANGED <<config, investigations>>
         /\ step' = step + 1 /\ done'
         /\ action_history' = action_history (+) SetToBag({Submit})
         /\ Remembered(Submit, pairs) = pairs
<1>1. Submit[1] = "submit_investigation"
  BY DEF Submit
<1>2. SoloSubmitScored(GradeAt(step + 1, investigations))
  BY <1>1 DEF Play
<1>3. mode' = mode /\ UNCHANGED <<config, investigations>> /\ step' = step + 1 /\ done'
      /\ action_history' = action_history (+) SetToBag({Submit})
  BY <1>2 DEF SoloSubmitScored, casework, Submit
<1>4. Remembered(Submit, pairs) = pairs
  BY <1>1 DEF Remembered
<1> QED
  BY <1>3, <1>4

\* No move changes the mode of the episode or its scenario.
LEMMA SameMode ==
  ASSUME NEW move, Play(move)
  PROVE  UNCHANGED <<mode, config>>
<1>1. \A sig, r : Commit(sig, r) => UNCHANGED <<mode, config>>
  BY DEF Commit
<1> QED
  BY <1>1 DEF Play, Enrich, QueryLogs, Correlate, Classify, MapTechnique, RecommendAction,
              SoloSubmitScored

\* A call for new work is paid for by its step.
LEMMA WorkStep ==
  ASSUME WorkInv, Analyst, ~done, NEW call, Fresh(task, investigations, attempted, call),
         Play(call), UNCHANGED <<task, player, disturbed>>,
         attempted' = Remembered(call, attempted)
  PROVE  /\ ~Submitted'
         /\ disturbed = 0 => Worked'
<1> DEFINE old == Pieces(investigations, attempted)
           new == Pieces(investigations', attempted')
           piece == PieceOf(call)
<1>1. /\ task \in Tasks /\ DOMAIN investigations = Alerts(task) /\ mode = "tier1_solo"
      /\ \A a \in DOMAIN investigations : DOMAIN investigations[a] = DOMAIN Untouched
  <2>1. player # None
    BY NoneIsNoPlayer DEF Analyst, Players, ToSet
  <2>2. /\ task \in Tasks /\ config = ScenarioOf(task) /\ DOMAIN investigations = AlertsOf(config)
        /\ \A a \in AlertsOf(config) : DOMAIN investigations[a] = DOMAIN Untouched
    BY <2>1 DEF WorkInv, PlayInv
  <2> QED
    BY <2>2, TaskFacts DEF WorkInv
<1>2. /\ piece \in Offered(task) \ old /\ new = old \cup {piece}
      /\ StepTaken(call) /\ call # Submit
  BY <1>1, CallEffect
<1> HIDE DEF new, piece
<1>3. ~Submitted
  BY DEF WorkInv
<1>4. /\ DOMAIN action_history' = DOMAIN action_history \cup {call}
      /\ call \notin DOMAIN action_history => action_history'[call] = 1
      /\ \A other \in DOMAIN action_history \ {call} :
           action_history[other] = 1 => action_history'[other] = 1
  <2>1. action_history' = action_history (+) SetToBag({call})
    BY <1>2 DEF StepTaken
  <2> QED
    BY <2>1, OneMoreCall
<1>5. ~Submitted'
  BY <1>2, <1>3, <1>4 DEF Submitted, BagIn, BagToSet
<1>6. ASSUME disturbed = 0 PROVE Worked'
  <2>1. Worked
    BY <1>6 DEF WorkInv
  <2>2. old \subseteq Offered(task) /\ IsFiniteSet(old) /\ Cardinality(old) \in Nat
    BY <1>1, <2>1, OfferedFinite, FS_Subset, FS_CardinalityType DEF Worked
  <2>3. Cardinality(new) = Cardinality(old) + 1 /\ new \subseteq Offered(task)
    BY <1>2, <2>2, FS_AddElement
  <2>4. step = Cardinality(old)
    BY <1>3, <2>1, <2>2 DEF Worked
  <2>5. \A other \in DOMAIN action_history :
          /\ action_history[other] = 1
          /\ other # Submit => PieceOf(other) \in old
    BY <2>1 DEF Worked
  <2>6. call \notin DOMAIN action_history
    BY <1>2, <2>5 DEF piece
  <2>7. \A other \in DOMAIN action_history' :
          /\ action_history'[other] = 1
          /\ other # Submit => PieceOf(other) \in new
    BY <1>2, <1>4, <2>5, <2>6 DEF piece
  <2>8. step' = Cardinality(new) /\ (done' => step' >= config'.max_steps)
    <3>1. config' = config
      BY SameMode
    <3> QED
      BY <1>2, <2>2, <2>3, <2>4, <3>1 DEF StepTaken
  <2>9. Offered(task)' = Offered(task)
    BY Zenon
  <2> QED
    BY <1>5, <2>2, <2>3, <2>7, <2>8, <2>9 DEF Worked, new
<1> QED
  BY <1>5, <1>6

\* The submission closes the play on finished work.
LEMMA SubmitStep ==
  ASSUME WorkInv, Analyst, ~done, Finished(task, investigations),
         Play(Submit), UNCHANGED <<task, player, disturbed>>,
         attempted' = Remembered(Submit, attempted)
  PROVE  /\ done' /\ Finished(task, investigations)'
         /\ disturbed = 0 => Worked'
<1>1. /\ UNCHANGED <<config, investigations, attempted>> /\ step' = step + 1 /\ done'
      /\ action_history' = action_history (+) SetToBag({Submit})
  BY SubmitEffect
<1>2. ~Submitted /\ task \in Tasks
  BY DEF WorkInv, PlayInv
<1>3. /\ DOMAIN action_history' = DOMAIN action_history \cup {Submit}
      /\ Submit \notin DOMAIN action_history => action_history'[Submit] = 1
      /\ \A other \in DOMAIN action_history \ {Submit} :
           action_history[other] = 1 => action_history'[other] = 1
  <2>1. action_history' = action_history (+) SetToBag({Submit})
    BY <1>1
  <2> QED
    BY <2>1, OneMoreCall
<1>4. Submitted'
  BY <1>3 DEF Submitted, BagIn, BagToSet
<1>5. Finished(task, investigations)'
  BY <1>1 DEF Finished, Alerts
<1>6. ASSUME disturbed = 0 PROVE Worked'
  <2> DEFINE old == Pieces(investigations, attempted)
  <2>1. Worked
    BY <1>6 DEF WorkInv
  <2>2. old' = old /\ Offered(task)' = Offered(task)
    BY <1>1
  <2>3. step = Cardinality(old) /\ Cardinality(old) \in Nat /\ old \subseteq Offered(task)
    <3>1. old \subseteq Offered(task) /\ step = Cardinality(old) + 0
      BY <1>2, <2>1 DEF Worked
    <3>2. Cardinality(old) \in Nat
      BY <1>2, <3>1, OfferedFinite, FS_Subset, FS_CardinalityType
    <3> QED
      BY <3>1, <3>2
  <2>4. \A other \in DOMAIN action_history :
          /\ action_history[other] = 1
          /\ other # Submit => PieceOf(other) \in old
    BY <2>1 DEF Worked
  <2>5. Submit \notin DOMAIN action_history
    BY <1>2 DEF Submitted, BagIn, BagToSet
  <2>6. \A other \in DOMAIN action_history' :
          /\ action_history'[other] = 1
          /\ other # Submit => PieceOf(other) \in old
    BY <1>3, <2>4, <2>5
  <2>7. step' = Cardinality(old) + 1
    BY <1>1, <2>3
  <2> HIDE DEF old
  <2> QED
    BY <1>4, <2>2, <2>3, <2>6, <2>7 DEF Worked, old
<1> QED
  BY <1>1, <1>5, <1>6

\* The invariant is inductive.
LEMMA WorkStart == PlayInit => WorkInv
<1> SUFFICES ASSUME PlayInit PROVE WorkInv
  OBVIOUS
<1>1. player = None /\ disturbed = 0 /\ PlayInv
  BY DEF PlayInit, PlayInv
<1>2. ~Analyst
  BY <1>1, NoneIsNoPlayer DEF Analyst, Players, ToSet
<1> QED
  BY <1>1, <1>2 DEF WorkInv

\* Every step of every player and of every other session keeps it.
LEMMA WorkKept ==
  ASSUME WorkInv, [PlayNext]_allVars
  PROVE  WorkInv'
<1>1. PlayInv'
  BY PlayStep DEF WorkInv
<1>2. disturbed' \in Nat
  BY DEF WorkInv, PlayNext, StartPlay, Act, Interfere, EndPlay, TaskPlayed, allVars, agent
<1>3. ASSUME Analyst'
      PROVE  /\ mode' = "tier1_solo"
             /\ Submitted' => done' /\ Finished(task, investigations)'
             /\ disturbed' = 0 => Worked'
  <2>1. CASE StartPlay
    <3>1. /\ mode' = "tier1_solo" /\ action_history' = EmptyBag /\ step' = 0 /\ ~done'
          /\ attempted' = {} /\ investigations' = [a \in AlertsOf(ScenarioOf(task)) |-> Untouched]
      BY <2>1 DEF StartPlay, Begin, FreshClock
    <3>2. DOMAIN action_history' = {}
      BY <3>1 DEF EmptyBag, SetToBag
    <3>3. ~Submitted'
      BY <3>2 DEF Submitted, BagIn, BagToSet
    <3>4. Pieces(investigations', attempted') = {}
      <4>1. \A a \in DOMAIN investigations' :
              /\ investigations'[a].enriched = {} /\ investigations'[a].queried = {}
              /\ Open(investigations'[a]) /\ investigations'[a].mapped = {}
              /\ investigations'[a].recommended = {}
        BY <3>1, NoneAssumption DEF Untouched, Open, Classifications
      <4>2. \A p : p \notin Pieces(investigations', attempted')
        BY <3>1, <4>1, PieceCases
      <4> QED
        BY <4>2
    <3>5. Worked'
      <4>1. Cardinality(Pieces(investigations', attempted')) = 0
        BY <3>4, FS_EmptySet
      <4> QED
        BY <3>1, <3>2, <3>3, <3>4, <4>1 DEF Worked
    <3> QED
      BY <3>1, <3>3, <3>5
  <2>2. CASE Act
    <3>1. /\ Analyst /\ ~done /\ player # None
          /\ Play(Move) /\ UNCHANGED <<task, player, disturbed>>
          /\ attempted' = Remembered(Move, attempted)
      BY <1>3, <2>2 DEF Act, Analyst
    <3>2. Move = NextAction(task, investigations, InvestigationBudget, attempted)
      BY <3>1 DEF Move, Analyst
    <3>3. mode' = "tier1_solo"
      BY <3>1, SameMode DEF WorkInv
    <3>4. task \in Tasks
      BY DEF WorkInv, PlayInv
    <3>5. Sensible(task, investigations, attempted, Move)
      BY <3>2, <3>4, NextActionSensible
    <3>6. CASE Fresh(task, investigations, attempted, Move)
      BY <3>1, <3>3, <3>6, WorkStep
    <3>7. CASE Move = Submit /\ Finished(task, investigations)
      BY <3>1, <3>3, <3>7, SubmitStep
    <3> QED
      BY <3>5, <3>6, <3>7 DEF Sensible
  <2>3. CASE Interfere
    <3>1. /\ Analyst /\ UNCHANGED <<mode, done, task, investigations, action_history>>
          /\ disturbed' = disturbed + 1
      BY <1>3, <2>3 DEF Interfere, vars, casework, Analyst
    <3>2. Submitted' <=> Submitted
      BY <3>1 DEF Submitted
    <3>3. disturbed' # 0
      BY <3>1 DEF WorkInv
    <3> QED
      BY <3>1, <3>2, <3>3 DEF WorkInv, Finished, Alerts
  <2>4. CASE EndPlay
    <3>1. player' = None
      BY <2>4 DEF EndPlay
    <3> QED
      BY <1>3, <3>1, NoneIsNoPlayer DEF Analyst, Players, ToSet
  <2>5. CASE TaskPlayed \/ UNCHANGED allVars
    <3>1. /\ UNCHANGED <<mode, done, step, task, player, disturbed, attempted>>
          /\ UNCHANGED <<config, investigations, action_history>>
      BY <2>5 DEF TaskPlayed, allVars, agent, vars, casework
    <3>2. Analyst
      BY <1>3, <3>1 DEF Analyst
    <3>3. Submitted' <=> Submitted
      BY <3>1 DEF Submitted
    <3>4. Worked' <=> Worked
      BY <3>1, <3>3 DEF Worked
    <3> QED
      BY <3>1, <3>2, <3>3, <3>4 DEF WorkInv, Finished, Alerts
  <2> QED
    BY <2>1, <2>2, <2>3, <2>4, <2>5 DEF PlayNext
<1> QED
  BY <1>1, <1>2, <1>3 DEF WorkInv

\* The invariant holds of every play.
LEMMA WorkAlways == PlaySpec => []WorkInv
BY WorkStart, WorkKept, PTL DEF PlaySpec

\* For every task, queue and budget, and whatever the analyst has found so far: left
\* alone, it never repeats itself (baseline_agent.py).
THEOREM NoStepIsWasted == PlaySpec => []EveryStepIsNewWork
<1>1. WorkInv => EveryStepIsNewWork
  BY DEF WorkInv, Worked, EveryStepIsNewWork, BagToSet
<1> QED
  BY <1>1, WorkAlways, PTL

\* For every task, and however often another session resets or fills its memory: the
\* analyst submits nothing unfinished (baseline_agent.py; app.py, /baseline).
THEOREM NothingUnfinishedIsSubmitted == PlaySpec => []SubmitsFinishedWork
<1>1. WorkInv => SubmitsFinishedWork
  <2> SUFFICES ASSUME WorkInv, Analyst, Submitted PROVE SubmitsFinishedWork
    BY DEF SubmitsFinishedWork
  <2>1. Finished(task, investigations) /\ task \in Tasks
    BY DEF WorkInv, PlayInv
  <2>2. DOMAIN investigations = Alerts(task)
    <3>1. player # None
      BY NoneIsNoPlayer DEF Analyst, Players, ToSet
    <3> QED
      BY <2>1, <3>1, TaskFacts DEF WorkInv, PlayInv
  <2> QED
    BY <2>1, <2>2 DEF Finished, SubmitsFinishedWork
<1> QED
  BY <1>1, WorkAlways, PTL

\* Where the budget has room for all the work a task offers, the analyst left alone
\* submits in time, in whatever order it finds things (baseline_agent.py).
THEOREM AmpleBudgetsAreEnough == PlaySpec => [](Ample(task) => PlaysFinishTheirWork)
<1>1. WorkInv => (Ample(task) => PlaysFinishTheirWork)
  <2> SUFFICES ASSUME WorkInv, Ample(task), Analyst, disturbed = 0, done, ~Submitted
               PROVE  FALSE
    BY DEF PlaysFinishTheirWork
  <2> DEFINE done_ == Pieces(investigations, attempted)
  <2>1. Worked /\ task \in Tasks
    BY DEF WorkInv, PlayInv
  <2>2. config.max_steps = task.max_steps
    <3>1. player # None
      BY NoneIsNoPlayer DEF Analyst, Players, ToSet
    <3>2. config = ScenarioOf(task)
      BY <3>1 DEF WorkInv, PlayInv
    <3> QED
      BY <3>2 DEF ScenarioOf
  <2>3. task.max_steps \in Nat
    <3>1. ScenarioOf(task) \in Scenario
      BY <2>1, TaskFacts
    <3>2. ScenarioOf(task).max_steps \in Nat
      BY <3>1 DEF Scenario
    <3> QED
      BY <3>2 DEF ScenarioOf
  <2>4. /\ IsFiniteSet(Offered(task)) /\ IsFiniteSet(done_)
        /\ Cardinality(done_) <= Cardinality(Offered(task))
    BY <2>1, OfferedFinite, FS_Subset DEF Worked
  <2>5. Cardinality(done_) \in Nat /\ Cardinality(Offered(task)) \in Nat
    BY <2>4, FS_CardinalityType
  <2>6. step = Cardinality(done_) + 0 /\ step >= task.max_steps
    BY <2>1, <2>2 DEF Worked
  <2>7. Cardinality(Offered(task)) < task.max_steps
    BY DEF Ample
  <2> HIDE DEF done_
  <2> QED
    BY <2>3, <2>4, <2>5, <2>6, <2>7
<1> QED
  BY <1>1, WorkAlways, PTL

-----------------------------------------------------------------------------
(* What a grade may be, and what is paid for nothing.                      *)

\* Nothing of something is no share of it.
LEMMA NoShare ==
  ASSUME NEW n \in Nat \ {0}
  PROVE  0 \div n = 0 /\ Share(0, n) = 0
<1>1. 0 \div n = 0
  <2> DEFINE q == 0 \div n
  <2>1. q \in Nat /\ n * q <= 0
    BY Quotient
  <2> HIDE DEF q
  <2>2. q = 0
    <3> SUFFICES ASSUME q >= 1 PROVE FALSE
      BY <2>1
    <3>1. n * 1 <= n * q
      BY <2>1
    <3> QED
      BY <2>1, <3>1
  <2> QED
    BY <2>2 DEF q
<1>2. One * 0 = 0
  BY DEF One
<1> QED
  BY <1>1, <1>2 DEF Share

\* A total lies strictly between 0 and 1, and that of nothing is the least.
LEMMA TotalInRange ==
  /\ \A n \in Int : Bounded(n) \in 1..999
  /\ \A sum \in Nat : Total(sum) \in 1..999
  /\ Total(0) = 1
<1>1. \A n \in Int : Bounded(n) \in 1..999
  BY DEF Bounded
<1>2. ASSUME NEW sum \in Nat PROVE Total(sum) \in 1..999
  <2>1. sum + 5000 \in Nat
    OBVIOUS
  <2>2. (sum + 5000) \div 10000 \in Nat
    BY <2>1, Quotient
  <2> QED
    BY <1>1, <2>2 DEF Total
<1>3. Total(0) = 1
  <2>1. (0 + 5000) \div 10000 = 0
    OBVIOUS
  <2> QED
    BY <2>1 DEF Total, Bounded
<1> QED
  BY <1>1, <1>2, <1>3

\* The mean of scores is a natural number, and zero if each of them is.
LEMMA MeanInRange ==
  ASSUME NEW S, IsFiniteSet(S), NEW f \in [S -> Nat]
  PROVE  /\ Mean(f) \in Nat
         /\ S # {} /\ (\A x \in S : f[x] = 0) => Mean(f) = 0
<1>1. Mean(f) \in Nat
  <2>1. \A x \in S : f[x] <= f[x]
    OBVIOUS
  <2> QED
    BY <2>1, MeanGrows
<1>2. ASSUME S # {}, \A x \in S : f[x] = 0 PROVE Mean(f) = 0
  <2>1. Units(f, S) = {}
    BY <1>2 DEF Units
  <2>2. SumFunction(f) = 0
    BY <2>1, SumCountsUnits, FS_EmptySet
  <2>3. Cardinality(S) \in Nat \ {0}
    BY <1>2, FS_CardinalityType, FS_EmptySet
  <2> QED
    BY <1>2, <2>2, <2>3, NoShare DEF Mean
<1> QED
  BY <1>1, <1>2

\* Investigations of every alert of the task; those of an agent that did nothing.
Covers(invs, t) == DOMAIN invs = Alerts(t)
Blank(invs, t) == Covers(invs, t) /\ \A a \in Alerts(t) : invs[a] = Untouched

\* No verdict is among those of an untouched alert.
LEMMA NoVerdict ==
  ASSUME NEW t, NEW invs, Blank(invs, t)
  PROVE  /\ \A a \in Alerts(t) : /\ invs[a].classification \notin Judged
                                 /\ invs[a].mapped = {} /\ invs[a].queried = {}
                                 /\ invs[a].recommended = {} /\ invs[a].correlated = {}
                                 /\ ~invs[a].escalated
         /\ \A V \in SUBSET Judged : Called(invs, V) = {}
<1>1. None \notin Judged
  BY NoneAssumption DEF Judged, Positive, Classifications
<1>2. \A a \in Alerts(t) : /\ invs[a].classification \notin Judged
                           /\ invs[a].mapped = {} /\ invs[a].queried = {}
                           /\ invs[a].recommended = {} /\ invs[a].correlated = {}
                           /\ ~invs[a].escalated
  BY <1>1 DEF Blank, Untouched
<1>3. \A V \in SUBSET Judged : Called(invs, V) = {}
  BY <1>2 DEF Blank, Covers, Called
<1> QED
  BY <1>2, <1>3

\* Calls and coverage.
LEMMA AccuracyInRange ==
  ASSUME NEW t, Gradable(t), NEW invs, Covers(invs, t)
  PROVE  /\ ClassificationAccuracy(t, invs) \in Nat
         /\ Blank(invs, t) => ClassificationAccuracy(t, invs) = 0
<1> DEFINE right == {x \in Alerts(t) : invs[x].classification = t.truth[x]}
<1>1. Cardinality(Alerts(t)) \in Nat \ {0}
  BY FS_CardinalityType, FS_EmptySet DEF Gradable
<1>2. IsFiniteSet(right)
  BY FS_Subset DEF Gradable
<1>3. Cardinality(right) \in Nat
  BY <1>2, FS_CardinalityType
<1>4. Blank(invs, t) => right = {}
  BY NoVerdict DEF Gradable
<1>5. ClassificationAccuracy(t, invs) = Share(Cardinality(right), Cardinality(Alerts(t)))
  BY DEF ClassificationAccuracy
<1> HIDE DEF right
<1>6. Blank(invs, t) => Cardinality(right) = 0
  BY <1>4, FS_EmptySet
<1> QED
  BY <1>1, <1>3, <1>5, <1>6, ShareGrows, NoShare

\* Coverage, and the efficiency it scales.
LEMMA CoverageInRange ==
  ASSUME NEW t, Gradable(t), NEW invs, Covers(invs, t), NEW used
  PROVE  /\ Coverage(t, invs) \in Nat /\ EarnedEfficiency(t, invs, used) \in Nat
         /\ Blank(invs, t) => Coverage(t, invs) = 0 /\ EarnedEfficiency(t, invs, used) = 0
<1> DEFINE C == Called(invs, Judged)
           e == EfficiencyScore(t, used)
           x == Coverage(t, invs)
<1>1. Cardinality(Alerts(t)) \in Nat \ {0}
  BY FS_CardinalityType, FS_EmptySet DEF Gradable
<1>2. IsFiniteSet(C)
  BY FS_Subset DEF Gradable, Called, Covers
<1>3. Cardinality(C) \in Nat
  BY <1>2, FS_CardinalityType
<1>4. Blank(invs, t) => Cardinality(C) = 0
  BY NoVerdict, FS_EmptySet
<1>5. x = Share(Cardinality(C), Cardinality(Alerts(t)))
  BY DEF Coverage
<1> HIDE DEF C
<1>6. x \in Nat /\ (Blank(invs, t) => x = 0)
  BY <1>1, <1>3, <1>4, <1>5, ShareGrows, NoShare
<1>7. e \in {10, 8, 6, 3}
  BY DEF EfficiencyScore
<1>8. EarnedEfficiency(t, invs, used) = (e * x) \div 10
  BY DEF EarnedEfficiency
<1> HIDE DEF e, x
<1>9. e * x \in Nat /\ (x = 0 => e * x = 0)
  BY <1>6, <1>7
<1>10. (e * x) \div 10 \in Nat /\ (x = 0 => (e * x) \div 10 = 0)
  BY <1>9, Quotient, NoShare
<1> QED
  BY <1>6, <1>8, <1>10 DEF x

\* A list that is not empty has a member.
LEMMA ListsSomething ==
  ASSUME NEW T, NEW seq \in Seq(T), seq # <<>>
  PROVE  ToSet(seq) # {}
<1>1. 1 \in DOMAIN seq
  OBVIOUS
<1> QED
  BY <1>1 DEF ToSet

\* Nothing mapped or recommended meets none of what is expected.
LEMMA NothingMatches ==
  ASSUME NEW S, IsFiniteSet(S), S # {}
  PROVE  TechniqueMatch({}, S) = 0 /\ Share(Cardinality({} \cap S), Cardinality(S)) = 0
<1>1. Cardinality(S) \in Nat \ {0} /\ 2 * Cardinality(S) \in Nat \ {0}
  <2>1. Cardinality(S) \in Nat \ {0}
    BY FS_CardinalityType, FS_EmptySet
  <2> QED
    BY <2>1
<1>2. Cardinality({}) = 0 /\ {} \cap S = {}
  BY FS_EmptySet
<1>3. {x \in S : x \notin {} /\ Parent(x) \in {}} = {}
  OBVIOUS
<1>4. TechniqueMatch({}, S) = Share(2 * 0 + 0, 2 * Cardinality(S))
  BY <1>2, <1>3 DEF TechniqueMatch
<1>5. 2 * 0 + 0 = 0
  OBVIOUS
<1> QED
  BY <1>1, <1>2, <1>4, <1>5, NoShare

\* Techniques, evidence and responses of a single alert.
LEMMA SingleInRange ==
  ASSUME NEW t, Gradable(t), NEW invs, Covers(invs, t)
  PROVE  /\ SingleTechnique(t, invs[1]) \in Nat /\ SingleEvidence(t, invs[1]) \in Nat
         /\ SingleResponse(t, invs[1]) \in Nat
         /\ Blank(invs, t) =>
              /\ t.truth[1] = "false_positive" \/ t.keys[1].techniques # <<>>
                   => SingleTechnique(t, invs[1]) = 0
              /\ t.keys[1].sources # <<>> => SingleEvidence(t, invs[1]) = 0
              /\ t.truth[1] = "false_positive" \/ t.keys[1].responses # <<>>
                   => SingleResponse(t, invs[1]) = 0
<1> DEFINE techniques == ToSet(t.keys[1].techniques)
           sources == ToSet(t.keys[1].sources)
           responses == ToSet(t.keys[1].responses)
           inv == invs[1]
<1>1. /\ 1 \in Alerts(t) /\ t.truth[1] \in Judged
      /\ t.keys[1].techniques \in Seq(Techniques) /\ t.keys[1].sources \in Seq(LogSources)
      /\ t.keys[1].responses \in Seq(ResponseActions)
  BY DEF Gradable
<1>2. /\ IsFiniteSet(techniques) /\ IsFiniteSet(sources) /\ IsFiniteSet(responses)
      /\ Cardinality(sources) \in Nat /\ Cardinality(responses) \in Nat
  BY <1>1, FiniteRange
<1>3. /\ t.keys[1].techniques # <<>> => techniques # {}
      /\ t.keys[1].sources # <<>> => sources # {}
      /\ t.keys[1].responses # <<>> => responses # {}
  BY <1>1, ListsSomething
<1> HIDE DEF techniques, sources, responses
<1>4. One \in Nat /\ One \div 2 \in Nat
  BY DEF One
<1>5. Blank(invs, t) => /\ inv.classification \notin Judged /\ inv.mapped = {}
                        /\ inv.queried = {} /\ inv.recommended = {}
  BY <1>1, NoVerdict
<1>6. /\ TechniqueMatch(inv.mapped, techniques) \in Nat
      /\ Share(Cardinality(inv.queried \cap sources), Cardinality(sources)) \in Nat
      /\ Share(Cardinality(inv.recommended \cap responses), Cardinality(responses)) \in Nat
  <2>1. inv.queried \cap sources \subseteq sources /\ inv.recommended \cap responses \subseteq responses
    OBVIOUS
  <2> QED
    BY <1>2, <2>1, TechniqueMatchIsNat, ShareOfMore
<1>7. \A S : IsFiniteSet(S) /\ S # {} => /\ TechniqueMatch({}, S) = 0
                                         /\ Share(Cardinality({} \cap S), Cardinality(S)) = 0
  BY NothingMatches
<1>8. /\ SingleTechnique(t, inv) = IF t.truth[1] = "false_positive"
                                     THEN IF inv.classification \notin Judged THEN 0
                                          ELSE IF inv.mapped = {} THEN One ELSE One \div 2
                                     ELSE TechniqueMatch(inv.mapped, techniques)
      /\ SingleEvidence(t, inv) = Share(Cardinality(inv.queried \cap sources),
                                        Cardinality(sources))
  BY DEF SingleTechnique, SingleEvidence, techniques, sources
<1>9. SingleResponse(t, inv) \in Nat
  BY <1>4, <1>6 DEF SingleResponse, responses
<1>10. ASSUME Blank(invs, t), t.truth[1] = "false_positive" \/ t.keys[1].responses # <<>>
       PROVE  SingleResponse(t, inv) = 0
  <2>1. CASE t.truth[1] = "false_positive"
    BY <1>5, <1>10, <2>1 DEF SingleResponse
  <2>2. CASE t.truth[1] # "false_positive"
    <3>1. Share(Cardinality({} \cap responses), Cardinality(responses)) = 0
      BY <1>2, <1>3, <1>7, <1>10, <2>2
    <3> QED
      BY <1>5, <1>10, <2>2, <3>1 DEF SingleResponse, responses
  <2> QED
    BY <2>1, <2>2
<1> HIDE DEF inv
<1>11. SingleTechnique(t, inv) \in Nat /\ SingleEvidence(t, inv) \in Nat
  BY <1>4, <1>6, <1>8
<1>12. ASSUME Blank(invs, t)
       PROVE  /\ t.truth[1] = "false_positive" \/ t.keys[1].techniques # <<>>
                   => SingleTechnique(t, inv) = 0
              /\ t.keys[1].sources # <<>> => SingleEvidence(t, inv) = 0
  BY <1>2, <1>3, <1>5, <1>7, <1>8, <1>12
<1> QED
  BY <1>9, <1>10, <1>11, <1>12 DEF inv

\* The techniques of the attacks, on average.
LEMMA TechniquesInRange ==
  ASSUME NEW t, Gradable(t), NEW invs, Covers(invs, t)
  PROVE  /\ TechniqueAccuracy(t, invs) \in Nat
         /\ Blank(invs, t) /\ (\E a \in Alerts(t) \ Those(t, "false_positive") :
                                 t.keys[a].techniques # <<>>)
              => TechniqueAccuracy(t, invs) = 0
<1> DEFINE expected(x) == ToSet(t.keys[x].techniques)
           S == {x \in Alerts(t) : expected(x) # {} /\ t.truth[x] # "false_positive"}
           f == [x \in S |-> TechniqueMatch(invs[x].mapped, expected(x))]
<1>1. IsFiniteSet(S)
  BY FS_Subset DEF Gradable
<1>2. \A x \in S : IsFiniteSet(expected(x)) /\ expected(x) # {}
  BY FiniteRange DEF Gradable
<1>3. (\E a \in Alerts(t) \ Those(t, "false_positive") : t.keys[a].techniques # <<>>)
        => S # {}
  <2>1. \A a \in Alerts(t) : t.keys[a].techniques # <<>> => expected(a) # {}
    BY ListsSomething DEF Gradable
  <2> HIDE DEF expected
  <2> QED
    BY <2>1 DEF Those
<1>4. TechniqueAccuracy(t, invs) = Mean(f)
  BY DEF TechniqueAccuracy
<1>5. Blank(invs, t) => \A x \in S : invs[x].mapped = {}
  BY NoVerdict
<1> HIDE DEF expected
<1>6. \A x \in S : TechniqueMatch(invs[x].mapped, expected(x)) \in Nat
  BY <1>2, TechniqueMatchIsNat
<1>7. Blank(invs, t) => \A x \in S : TechniqueMatch(invs[x].mapped, expected(x)) = 0
  BY <1>2, <1>5, NothingMatches
<1>8. f \in [S -> Nat] /\ (Blank(invs, t) => \A x \in S : f[x] = 0)
  BY <1>6, <1>7
<1> HIDE DEF S, f
<1> QED
  BY <1>1, <1>3, <1>4, <1>8, MeanInRange

\* The responses, on average.
LEMMA ResponsesInRange ==
  ASSUME NEW t, Gradable(t), NEW invs, Covers(invs, t)
  PROVE  /\ ResponseQuality(t, invs) \in Nat
         /\ Blank(invs, t) /\ (\E a \in Alerts(t) : t.keys[a].responses # <<>>)
              => ResponseQuality(t, invs) = 0
<1> DEFINE expected(x) == ToSet(t.keys[x].responses)
           S == {x \in Alerts(t) : expected(x) # {}}
           dismissed(x) == \/ "no_action" \in invs[x].recommended
                           \/ invs[x].classification \in Judged /\ invs[x].recommended = {}
           score(x) ==
             IF t.truth[x] = "false_positive" THEN IF dismissed(x) THEN One ELSE 0
             ELSE Share(Cardinality(invs[x].recommended \cap expected(x)),
                        Cardinality(expected(x)))
           f == [x \in S |-> score(x)]
<1>1. IsFiniteSet(S)
  BY FS_Subset DEF Gradable
<1>2. \A x \in S : /\ IsFiniteSet(expected(x)) /\ expected(x) # {}
                   /\ Cardinality(expected(x)) \in Nat
  BY FiniteRange DEF Gradable
<1>3. (\E a \in Alerts(t) : t.keys[a].responses # <<>>) => S # {}
  <2>1. \A a \in Alerts(t) : t.keys[a].responses # <<>> => expected(a) # {}
    BY ListsSomething DEF Gradable
  <2> HIDE DEF expected
  <2> QED
    BY <2>1
<1>4. ResponseQuality(t, invs) = Mean(f)
  BY DEF ResponseQuality
<1>5. Blank(invs, t) => \A x \in S : invs[x].recommended = {} /\ ~dismissed(x)
  BY NoVerdict
<1> HIDE DEF expected, dismissed
<1>6. \A x \in S : score(x) \in Nat
  <2>1. \A x \in S : Share(Cardinality(invs[x].recommended \cap expected(x)),
                           Cardinality(expected(x))) \in Nat
    BY <1>2, ShareOfMore
  <2>2. One \in Nat /\ 0 \in Nat
    BY DEF One
  <2> QED
    BY <2>1, <2>2
<1>7. Blank(invs, t) => \A x \in S : score(x) = 0
  <2>1. \A x \in S : Share(Cardinality({} \cap expected(x)), Cardinality(expected(x))) = 0
    BY <1>2, NothingMatches
  <2> QED
    BY <1>5, <2>1
<1> HIDE DEF score
<1>8. f \in [S -> Nat] /\ (Blank(invs, t) => \A x \in S : f[x] = 0)
  BY <1>6, <1>7
<1> HIDE DEF S, f
<1> QED
  BY <1>1, <1>3, <1>4, <1>8, MeanInRange

\* The links of the kill chain.
LEMMA ChainInRange ==
  ASSUME NEW t, Gradable(t), NEW invs, Covers(invs, t)
  PROVE  /\ ChainReconstruction(t, invs) \in Nat
         /\ Blank(invs, t) => ChainReconstruction(t, invs) = 0
<1> DEFINE found == UNION {invs[x].correlated : x \in DOMAIN invs}
           last == Len(t.kill) - 1
           links == {{t.kill[n], t.kill[n + 1]} : n \in 1..last}
           link == [n \in 1..last |-> {t.kill[n], t.kill[n + 1]}]
<1>1. Len(t.kill) \in Nat /\ IsFiniteSet(1..last)
  <2>1. Len(t.kill) \in Nat /\ last \in Int
    BY DEF Gradable
  <2> QED
    BY <2>1, FS_Interval
<1>2. link \in Surjection(1..last, links)
  BY DEF Surjection
<1>3. IsFiniteSet(links)
  BY <1>1, <1>2, FS_Surjection
<1>4. Len(t.kill) >= 2 => links # {}
  <2>1. Len(t.kill) >= 2 => 1 \in 1..last
    BY <1>1
  <2> QED
    BY <2>1
<1>5. Blank(invs, t) => found = {}
  <2> SUFFICES ASSUME Blank(invs, t) PROVE \A x \in DOMAIN invs : invs[x].correlated = {}
    OBVIOUS
  <2> QED
    BY NoVerdict DEF Blank, Covers
<1>6. ChainReconstruction(t, invs) =
        IF Len(t.kill) < 2 THEN 0 ELSE Share(Cardinality(links \cap found), Cardinality(links))
  BY DEF ChainReconstruction
<1> HIDE DEF links, found
<1>7. Share(Cardinality(links \cap found), Cardinality(links)) \in Nat
  <2>1. Cardinality(links) \in Nat
    BY <1>3, FS_CardinalityType
  <2> QED
    BY <1>3, <2>1, ShareOfMore
<1>8. found = {} /\ links # {} => Share(Cardinality(links \cap found), Cardinality(links)) = 0
  <2>1. found = {} => links \cap found = {} \cap links
    OBVIOUS
  <2> QED
    BY <1>3, <2>1, NothingMatches
<1> QED
  BY <1>1, <1>4, <1>5, <1>6, <1>7, <1>8

\* The verdicts called, against those due.
LEMMA HitsInRange ==
  ASSUME NEW P, IsFiniteSet(P), NEW C, IsFiniteSet(C)
  PROVE  LET f1 == F1(Cardinality(P \cap C), Cardinality(C \ P), Cardinality(P \ C))
         IN  f1 \in Nat /\ (C = {} => f1 = 0)
<1> DEFINE h == Cardinality(P \cap C)
           w == Cardinality(C \ P)
           m == Cardinality(P \ C)
<1>1. IsFiniteSet(P \cap C) /\ IsFiniteSet(C \ P) /\ IsFiniteSet(P \ C)
  BY FS_Subset
<1>2. h \in Nat /\ w \in Nat /\ m \in Nat /\ (C = {} => h = 0)
  BY <1>1, FS_CardinalityType, FS_EmptySet
<1> HIDE DEF h, w, m
<1>3. 2 * h \in Nat /\ 2 * h + w + m \in Nat
  BY <1>2
<1>4. Share(2 * h, 2 * h + w + m) \in Nat
  BY <1>3, ShareGrows
<1>5. F1(h, w, m) \in Nat /\ (h = 0 => F1(h, w, m) = 0)
  BY <1>4 DEF F1
<1> QED
  BY <1>2, <1>5 DEF h, w, m

\* The components of the queue graders that look at the alerts called positive.
LEMMA CallsInRange ==
  ASSUME NEW t, Gradable(t), NEW invs, Covers(invs, t), NEW V \in SUBSET Judged,
         NEW P \in SUBSET Alerts(t)
  PROVE  LET C  == Called(invs, V)
             f1 == F1(Cardinality(P \cap C), Cardinality(C \ P), Cardinality(P \ C))
         IN  /\ f1 \in Nat /\ ChainsWithin(t, C) \in Nat
             /\ Blank(invs, t) =>
                  /\ f1 = 0
                  /\ t.chains # <<>> /\ (\A n \in DOMAIN t.chains : t.chains[n] # <<>>)
                       => ChainsWithin(t, C) = 0
<1> DEFINE C == Called(invs, V)
           whole == {n \in DOMAIN t.chains : ToSet(t.chains[n]) \subseteq C}
           f1 == F1(Cardinality(P \cap C), Cardinality(C \ P), Cardinality(P \ C))
<1>1. IsFiniteSet(C) /\ IsFiniteSet(P)
  BY FS_Subset DEF Gradable, Called, Covers
<1>2. Blank(invs, t) => C = {}
  BY NoVerdict
<1> HIDE DEF C
<1>3. f1 \in Nat /\ (Blank(invs, t) => f1 = 0)
  BY <1>1, <1>2, HitsInRange
<1>4. ChainsWithin(t, C) \in Nat
  <2>1. C \subseteq C
    OBVIOUS
  <2> QED
    BY <2>1, ChainsGrow DEF Better
<1>5. ASSUME Blank(invs, t), t.chains # <<>>, \A n \in DOMAIN t.chains : t.chains[n] # <<>>
      PROVE  ChainsWithin(t, C) = 0
  <2>1. Len(t.chains) \in Nat \ {0}
    BY <1>5 DEF Gradable
  <2>2. \A n \in DOMAIN t.chains : ToSet(t.chains[n]) # {}
    <3> TAKE n \in DOMAIN t.chains
    <3>1. t.chains[n] \in Seq(AlertIds)
      BY DEF Gradable
    <3> QED
      BY <1>5, <3>1, ListsSomething
  <2>3. whole = {}
    BY <1>2, <1>5, <2>2
  <2>4. ChainsWithin(t, C) = Share(Cardinality(whole), Len(t.chains))
    BY DEF ChainsWithin
  <2> QED
    BY <2>1, <2>3, <2>4, NoShare, FS_EmptySet
<1> QED
  BY <1>3, <1>4, <1>5 DEF C

\* What missed positives cost; all of it if the task asks for enough.
LEMMA MissedInRange ==
  ASSUME NEW t, Gradable(t), NEW invs, Covers(invs, t),
         NEW perTrue \in Nat, NEW perBenign \in Nat
  PROVE  LET all == perTrue * Cardinality(Those(t, "true_positive"))
                      + perBenign * Cardinality(Those(t, "benign_true_positive"))
             left_ == MissedTruePositives(t, invs, perTrue, perBenign)
         IN  left_ \in Nat /\ (Blank(invs, t) /\ all >= 100 => left_ = 0)
<1> DEFINE missed(v) == Cardinality(Those(t, v) \ Called(invs, Positive))
           cost == perTrue * missed("true_positive")
                     + perBenign * missed("benign_true_positive")
           all == perTrue * Cardinality(Those(t, "true_positive"))
                    + perBenign * Cardinality(Those(t, "benign_true_positive"))
<1>1. \A v : missed(v) \in Nat
  <2> TAKE v
  <2>1. IsFiniteSet(Those(t, v) \ Called(invs, Positive))
    BY FS_Subset DEF Those, Gradable
  <2> QED
    BY <2>1, FS_CardinalityType
<1>2. Blank(invs, t) => cost = all
  <2>1. Positive \in SUBSET Judged
    BY DEF Judged
  <2>2. Blank(invs, t) => Called(invs, Positive) = {}
    BY <2>1, NoVerdict
  <2>3. Called(invs, Positive) = {} => \A v : missed(v) = Cardinality(Those(t, v))
    OBVIOUS
  <2> HIDE DEF missed
  <2> QED
    BY <2>2, <2>3
<1>3. MissedTruePositives(t, invs, perTrue, perBenign)
        = IF cost > 100 THEN 0 ELSE One - 1000 * cost
  BY DEF MissedTruePositives
<1> HIDE DEF missed
<1>4. cost \in Nat
  <2>1. \A x, y \in Nat : x * y \in Nat
    OBVIOUS
  <2> QED
    BY <1>1, <2>1
<1> HIDE DEF cost, all
<1>5. (IF cost > 100 THEN 0 ELSE One - 1000 * cost) \in Nat
  BY <1>4 DEF One
<1>6. cost >= 100 => (IF cost > 100 THEN 0 ELSE One - 1000 * cost) = 0
  BY <1>4 DEF One
<1> QED
  BY <1>2, <1>3, <1>5, <1>6 DEF all

\* Every grade lies strictly between 0 and 1; that of nothing, for a task that asks for
\* something in every part, is the least.
LEMMA GradeInRange ==
  ASSUME NEW t, Gradable(t), t.name \in GradedTasks, NEW invs, Covers(invs, t), NEW used
  PROVE  /\ Grade(t, invs, used) \in 1..999
         /\ Blank(invs, t) /\ Demanding(t) => Grade(t, invs, used) = 1
<1> DEFINE real == Alerts(t) \ Those(t, "false_positive")
           cost(perTrue, perBenign) ==
             perTrue * Cardinality(Those(t, "true_positive"))
               + perBenign * Cardinality(Those(t, "benign_true_positive"))
           answered == \E a \in Alerts(t) : t.keys[a].responses # <<>>
           chained == t.chains # <<>> /\ \A n \in DOMAIN t.chains : t.chains[n] # <<>>
           nothing == Blank(invs, t) /\ Demanding(t)
           Worth(sum) == sum \in Nat /\ (nothing => sum = 0)
<1>1. \A sum : Worth(sum) => Total(sum) \in 1..999 /\ (nothing => Total(sum) = 1)
  BY TotalInRange
<1>2. CASE t.name \in {"phishing", "ransomware", "cloud_compromise"}
  <2> DEFINE sum == 40 * ClassificationAccuracy(t, invs) + 20 * SingleTechnique(t, invs[1])
                      + 20 * SingleEvidence(t, invs[1]) + 20 * SingleResponse(t, invs[1])
  <2>1. nothing => /\ t.keys[1].sources # <<>>
                   /\ t.truth[1] = "false_positive" \/ t.keys[1].techniques # <<>>
                   /\ t.truth[1] = "false_positive" \/ t.keys[1].responses # <<>>
    BY <1>2 DEF Demanding, Those, Gradable
  <2>2. Worth(sum)
    BY <2>1, AccuracyInRange, SingleInRange
  <2>3. Grade(t, invs, used) = Total(sum)
    BY <1>2 DEF Grade, SingleAlertGrade
  <2> HIDE DEF sum, Worth, nothing
  <2> QED
    BY <1>1, <2>2, <2>3 DEF nothing
<1>3. CASE t.name = "lateral_movement"
  <2> DEFINE sum == 30 * ClassificationAccuracy(t, invs) + 20 * TechniqueAccuracy(t, invs)
                      + 20 * ChainReconstruction(t, invs) + 20 * ResponseQuality(t, invs)
                      + 10 * EarnedEfficiency(t, invs, used)
  <2>1. nothing => answered /\ \E a \in real : t.keys[a].techniques # <<>>
    BY <1>3 DEF Demanding
  <2>2. /\ ClassificationAccuracy(t, invs) \in Nat /\ TechniqueAccuracy(t, invs) \in Nat
        /\ ChainReconstruction(t, invs) \in Nat
        /\ nothing => /\ ClassificationAccuracy(t, invs) = 0 /\ TechniqueAccuracy(t, invs) = 0
                      /\ ChainReconstruction(t, invs) = 0
    BY <2>1, AccuracyInRange, TechniquesInRange, ChainInRange
  <2>3. /\ ResponseQuality(t, invs) \in Nat /\ EarnedEfficiency(t, invs, used) \in Nat
        /\ nothing => ResponseQuality(t, invs) = 0 /\ EarnedEfficiency(t, invs, used) = 0
    BY <2>1, ResponsesInRange, CoverageInRange
  <2>4. Worth(sum)
    <3> HIDE DEF nothing
    <3> QED
      BY <2>2, <2>3
  <2>5. Grade(t, invs, used) = Total(sum)
    BY <1>3 DEF Grade, LateralMovementGrade
  <2> HIDE DEF sum, Worth, nothing
  <2> QED
    BY <1>1, <2>4, <2>5 DEF nothing
<1>4. /\ Positive \in SUBSET Judged /\ {"true_positive"} \in SUBSET Judged
      /\ real \in SUBSET Alerts(t) /\ Those(t, "true_positive") \in SUBSET Alerts(t)
  BY DEF Judged, Positive, Those
<1>5. /\ PositiveF1(t, invs) \in Nat /\ ChainsWithin(t, Called(invs, Positive)) \in Nat
      /\ Blank(invs, t) => /\ PositiveF1(t, invs) = 0
                           /\ chained => ChainsWithin(t, Called(invs, Positive)) = 0
  BY <1>4, CallsInRange DEF PositiveF1
<1>6. CASE t.name = "queue_management"
  <2> DEFINE sum == 30 * PositiveF1(t, invs) + 20 * ChainsWithin(t, Called(invs, Positive))
                      + 20 * MissedTruePositives(t, invs, 20, 10)
                      + 15 * EarnedEfficiency(t, invs, used) + 15 * ResponseQuality(t, invs)
  <2>1. nothing => answered /\ chained /\ cost(20, 10) >= 100
    BY <1>6 DEF Demanding
  <2>2. /\ MissedTruePositives(t, invs, 20, 10) \in Nat
        /\ nothing => MissedTruePositives(t, invs, 20, 10) = 0
    BY <2>1, MissedInRange
  <2>3. /\ ResponseQuality(t, invs) \in Nat /\ EarnedEfficiency(t, invs, used) \in Nat
        /\ nothing => ResponseQuality(t, invs) = 0 /\ EarnedEfficiency(t, invs, used) = 0
    BY <2>1, ResponsesInRange, CoverageInRange
  <2>4. Worth(sum)
    <3> HIDE DEF cost, answered, chained
    <3>1. nothing => PositiveF1(t, invs) = 0 /\ ChainsWithin(t, Called(invs, Positive)) = 0
      BY <1>5, <2>1
    <3> HIDE DEF nothing
    <3> QED
      BY <1>5, <2>2, <2>3, <3>1
  <2>5. Grade(t, invs, used) = Total(sum)
    BY <1>6 DEF Grade, QueueManagementGrade
  <2> HIDE DEF sum, Worth, nothing
  <2> QED
    BY <1>1, <2>4, <2>5 DEF nothing
<1>7. CASE t.name = "insider_threat"
  <2> DEFINE sum == 25 * PositiveF1(t, invs) + 25 * ChainsWithin(t, Called(invs, Positive))
                      + 20 * MissedTruePositives(t, invs, 11, 5)
                      + 15 * EarnedEfficiency(t, invs, used) + 15 * ResponseQuality(t, invs)
  <2>1. nothing => answered /\ chained /\ cost(11, 5) >= 100
    BY <1>7 DEF Demanding
  <2>2. /\ MissedTruePositives(t, invs, 11, 5) \in Nat
        /\ nothing => MissedTruePositives(t, invs, 11, 5) = 0
    BY <2>1, MissedInRange
  <2>3. /\ ResponseQuality(t, invs) \in Nat /\ EarnedEfficiency(t, invs, used) \in Nat
        /\ nothing => ResponseQuality(t, invs) = 0 /\ EarnedEfficiency(t, invs, used) = 0
    BY <2>1, ResponsesInRange, CoverageInRange
  <2>4. Worth(sum)
    <3> HIDE DEF cost, answered, chained
    <3>1. nothing => PositiveF1(t, invs) = 0 /\ ChainsWithin(t, Called(invs, Positive)) = 0
      BY <1>5, <2>1
    <3> HIDE DEF nothing
    <3> QED
      BY <1>5, <2>2, <2>3, <3>1
  <2>5. Grade(t, invs, used) = Total(sum)
    BY <1>7 DEF Grade, InsiderThreatGrade
  <2> HIDE DEF sum, Worth, nothing
  <2> QED
    BY <1>1, <2>4, <2>5 DEF nothing
<1>8. CASE t.name = "apt_campaign"
  <2> DEFINE P == Those(t, "true_positive")
             C == Called(invs, {"true_positive"})
             f1 == F1(Cardinality(P \cap C), Cardinality(C \ P), Cardinality(P \ C))
             sum == 40 * f1 + 25 * ChainsWithin(t, C) + 15 * Coverage(t, invs)
  <2>1. nothing => chained
    BY <1>8 DEF Demanding
  <2>2. /\ f1 \in Nat /\ ChainsWithin(t, C) \in Nat
        /\ nothing => f1 = 0 /\ ChainsWithin(t, C) = 0
    BY <1>4, <2>1, CallsInRange
  <2>3. Grade(t, invs, used) = Total(sum)
    BY <1>8 DEF Grade, AptCampaignGrade
  <2>4. Coverage(t, invs) \in Nat /\ (nothing => Coverage(t, invs) = 0)
    BY CoverageInRange
  <2> HIDE DEF f1, C, nothing
  <2>5. Worth(sum)
    BY <2>2, <2>4
  <2> HIDE DEF sum, Worth, nothing
  <2> QED
    BY <1>1, <2>3, <2>5 DEF nothing
<1> QED
  BY <1>2, <1>3, <1>6, <1>7, <1>8 DEF GradedTasks

\* So does what env.grade() returns, the team metric included.
LEMMA GradeAtInRange ==
  ASSUME task \in Tasks, config = ScenarioOf(task),
         NEW invs, Covers(invs, task), NEW used
  PROVE  /\ GradeAt(used, invs) \in 1..999
         /\ Blank(invs, task) /\ Demanding(task) => GradeAt(used, invs) = 1
<1>1. /\ Gradable(task) /\ task.name \in GradedTasks \cup TeamTasks /\ config \in Scenario
      /\ AlertsOf(config) = Alerts(task)
      /\ \A x \in Alerts(task) : config.truth[x] = task.truth[x]
  BY TaskFacts
<1>2. CASE task.name \in TeamTasks
  <2> DEFINE contained == {x \in Positives : /\ invs[x].classification = config.truth[x]
                                             /\ invs[x].recommended # {} \/ invs[x].escalated}
             dismissed == {x \in Negatives : invs[x].classification = "false_positive"}
             c == IF Positives = {} THEN 1 ELSE Cardinality(contained)
             d == IF Negatives = {} THEN 1 ELSE Cardinality(dismissed)
  <2>1. TeamShared(invs) \in Nat /\ Scale \in Nat \ {0}
    BY <1>1, TeamSharedIsNat, ScaleIsPositive
  <2>2. Blank(invs, task) => TeamShared(invs) = 0
    <3> SUFFICES ASSUME Blank(invs, task) PROVE TeamShared(invs) = 0
      OBVIOUS
    <3>1. 1 \in Positives \/ 1 \in Negatives
      BY <1>1 DEF Negatives, Gradable
    <3>2. /\ Positives \subseteq Alerts(task) /\ Negatives \subseteq Alerts(task)
          /\ "false_positive" \in Judged
      BY <1>1 DEF Positives, Negatives, Judged
    <3>3. contained = {} /\ dismissed = {}
      <4>1. \A x \in Alerts(task) : config.truth[x] \in Judged
        BY <1>1 DEF Gradable
      <4> QED
        BY <3>2, <4>1, NoVerdict
    <3>4. Cardinality(contained) = 0 /\ Cardinality(dismissed) = 0
      BY <3>3, FS_EmptySet
    <3>5. TeamShared(invs) = c * d
      BY DEF TeamShared
    <3>6. c \in {0, 1} /\ d \in {0, 1} /\ (c = 0 \/ d = 0)
      BY <3>1, <3>4
    <3> HIDE DEF c, d
    <3> QED
      BY <3>5, <3>6
  <2>3. GradeAt(used, invs) = Bounded((1000 * TeamShared(invs)) \div Scale)
    BY <1>2 DEF GradeAt
  <2>4. (1000 * TeamShared(invs)) \div Scale \in Nat
    <3>1. 1000 * TeamShared(invs) \in Nat
      BY <2>1
    <3> QED
      BY <2>1, <3>1, Quotient
  <2>5. TeamShared(invs) = 0 => (1000 * TeamShared(invs)) \div Scale = 0
    <3>1. TeamShared(invs) = 0 => 1000 * TeamShared(invs) = 0
      BY <2>1
    <3> QED
      BY <2>1, <3>1, NoShare
  <2>6. Bounded(0) = 1
    BY DEF Bounded
  <2> QED
    BY <2>2, <2>3, <2>4, <2>5, <2>6, TotalInRange
<1>3. CASE task.name \notin TeamTasks
  BY <1>1, <1>3, GradeInRange DEF GradeAt
<1> QED
  BY <1>2, <1>3

\* What a submission is paid, in units of the ledger and in thousandths.
Paid(x) == x \in Nat /\ 100 * Scale <= x /\ x <= 99900 * Scale

\* Scaled by the efficiency, a grade is still paid within bounds.
LEMMA PayInRange ==
  ASSUME task \in Tasks, config = ScenarioOf(task),
         NEW invs, Covers(invs, task), NEW used, NEW seen
  PROVE  LET final == Clamp(GradeAt(used, invs) * EfficiencyPercent(seen) * Scale)
         IN  /\ Paid(final)
             /\ Blank(invs, task) /\ Demanding(task) => final = 100 * Scale
<1> DEFINE g == GradeAt(used, invs)
           e == EfficiencyPercent(seen)
<1>1. /\ g \in 1..999
      /\ Blank(invs, task) /\ Demanding(task) => g = 1
  BY GradeAtInRange
<1>2. Scale \in Nat \ {0}
  BY TaskFacts, ScaleIsPositive
<1>3. e \in {100, 85, 70}
  BY DEF EfficiencyPercent
<1> HIDE DEF g, e
<1>4. \A x \in Nat : Paid(Clamp(x))
  BY <1>2 DEF Clamp, Paid
<1>5. g * e \in Nat /\ (g = 1 => g * e = e)
  BY <1>1, <1>3
<1>6. g * e * Scale \in Nat
  <2>1. \A x, y \in Nat : x * y \in Nat
    OBVIOUS
  <2> QED
    BY <1>2, <1>5, <2>1
<1>7. Clamp(e * Scale) = 100 * Scale
  <2>1. e * Scale <= 100 * Scale /\ e * Scale \in Nat
    BY <1>2, <1>3
  <2> QED
    BY <1>2, <2>1 DEF Clamp
<1> QED
  BY <1>1, <1>4, <1>5, <1>6, <1>7 DEF g, e

\* What is paid within bounds is a score strictly between 0 and 1.
LEMMA ScoreInRange ==
  ASSUME config \in Scenario, NEW x, Paid(x)
  PROVE  /\ x \div (100 * Scale) \in 1..999
         /\ x = 100 * Scale => x \div (100 * Scale) = 1
<1> DEFINE n == 100 * Scale
           q == x \div n
<1>1. Scale \in Nat \ {0}
  BY ScaleIsPositive
<1>2. n \in Nat \ {0} /\ x \in Nat /\ n <= x /\ x <= 999 * n
  BY <1>1 DEF Paid
<1> HIDE DEF n
<1>3. q \in Nat /\ n * q <= x /\ x < n * q + n
  BY <1>2, Quotient
<1> HIDE DEF q
<1>4. q >= 1
  <2> SUFFICES ASSUME q = 0 PROVE FALSE
    BY <1>3
  <2> QED
    BY <1>2, <1>3
<1>5. q <= 999
  <2> SUFFICES ASSUME q >= 1000 PROVE FALSE
    BY <1>3
  <2>1. n * 1000 <= n * q
    BY <1>2, <1>3
  <2> QED
    BY <1>2, <1>3, <2>1
<1>6. x = n => q = 1
  <2> SUFFICES ASSUME x = n, q >= 2 PROVE FALSE
    BY <1>3, <1>4
  <2>1. n * 2 <= n * q
    BY <1>2, <1>3
  <2> QED
    BY <1>2, <1>3, <2>1
<1> QED
  BY <1>3, <1>4, <1>5, <1>6 DEF q, n

-----------------------------------------------------------------------------
(* What a play earns.                                                      *)

\* The invariant: a submission ends the play and is paid within bounds, and the player
\* that only submits has touched nothing when it does.
FloorInv ==
  /\ PlayInv /\ InactionEarnsTheFloor
  /\ player # None =>
       /\ Submitted => done /\ Paid(reward)
       /\ player = "submit" =>
            /\ Blank(investigations, task)
            /\ done => Submitted
            /\ Submitted /\ Demanding(task) => reward = 100 * Scale

\* A move either submits, for what the grade and the efficiency are worth, or is a call
\* that is no submission.
LEMMA MoveOrSubmit ==
  ASSUME NEW move, Play(move), ~Submitted
  PROVE  \/ ~Submitted' /\ move # Submit
         \/ /\ Submitted' /\ done' /\ UNCHANGED <<config, investigations>>
            /\ reward' = Clamp(GradeAt(step + 1, investigations)
                                 * EfficiencyPercent(step + 1) * Scale) - 0
<1>1. ASSUME NEW sig, NEW r, Commit(sig, r), sig # Submit
      PROVE  ~Submitted'
  <2>1. action_history' = action_history (+) SetToBag({sig})
    BY <1>1 DEF Commit
  <2>2. DOMAIN action_history' = DOMAIN action_history \cup {sig}
    BY <2>1, OneMoreCall
  <2> QED
    BY <1>1, <2>2 DEF Submitted, BagIn, BagToSet
<1>2. CASE \/ move[1] = "enrich_indicator" /\ Enrich(move[2], move[3])
           \/ move[1] = "query_logs"       /\ QueryLogs(move[2], move[3])
           \/ move[1] = "correlate_alerts" /\ Correlate(move[2], move[3])
           \/ move[1] = "classify_alert"   /\ Classify(move[2], move[3])
           \/ move[1] = "map_technique"    /\ MapTechnique(move[2], move[3])
           \/ move[1] = "recommend_action" /\ RecommendAction(move[2], move[3])
  <2>1. \E sig, r : Commit(sig, r) /\ sig # Submit
    BY <1>2 DEF Enrich, QueryLogs, Correlate, Classify, MapTechnique, RecommendAction, Submit
  <2>2. move # Submit
    BY <1>2 DEF Submit
  <2> QED
    BY <1>1, <2>1, <2>2
<1>3. CASE SoloSubmitScored(GradeAt(step + 1, investigations))
  <2>1. action_history' = action_history (+) SetToBag({Submit})
    BY <1>3 DEF SoloSubmitScored, Submit
  <2>2. DOMAIN action_history' = DOMAIN action_history \cup {Submit}
    BY <2>1, OneMoreCall
  <2>3. Submitted'
    BY <2>2 DEF Submitted, BagIn, BagToSet
  <2>4. LoopPenalty(Submit) = 0
    BY DEF LoopPenalty, Repeats, Submitted
  <2>5. /\ done' /\ UNCHANGED <<config, investigations>>
        /\ reward' = Clamp(GradeAt(step + 1, investigations)
                             * EfficiencyPercent(step + 1) * Scale) - LoopPenalty(Submit)
    BY <1>3, Zenon DEF SoloSubmitScored, casework, Submit
  <2> QED
    BY <2>3, <2>4, <2>5
<1> QED
  BY <1>2, <1>3 DEF Play

\* While a task is played, its alerts are the ones investigated.
LEMMA PlayCovers ==
  ASSUME PlayInv, player # None
  PROVE  /\ task \in Tasks /\ config = ScenarioOf(task) /\ config \in Scenario
         /\ Covers(investigations, task)
BY TaskFacts DEF PlayInv, Covers

\* A finished play scores within the bounds; the floor if it did nothing.
LEMMA ScoreOfPlay ==
  ASSUME FloorInv, player # None, done
  PROVE  /\ PlayScore \in 1..999
         /\ player = "submit" /\ Demanding(task) => PlayScore = 1
<1>1. /\ task \in Tasks /\ config = ScenarioOf(task) /\ config \in Scenario
      /\ Covers(investigations, task)
  BY PlayCovers DEF FloorInv
<1>2. CASE Submitted
  <2>1. PlayScore = reward \div (100 * Scale)
    BY <1>2 DEF PlayScore
  <2>2. Paid(reward) /\ (player = "submit" /\ Demanding(task) => reward = 100 * Scale)
    BY <1>2 DEF FloorInv
  <2> QED
    BY <1>1, <2>1, <2>2, ScoreInRange
<1>3. CASE ~Submitted
  <2> DEFINE final == Clamp(GradeAt(step, investigations) * EfficiencyPercent(step) * Scale)
  <2>1. PlayScore = final \div (100 * Scale)
    BY <1>3 DEF PlayScore
  <2>2. Paid(final)
    BY <1>1, PayInRange
  <2>3. player # "submit"
    BY <1>3 DEF FloorInv
  <2> HIDE DEF final
  <2> QED
    BY <1>1, <2>1, <2>2, <2>3, ScoreInRange
<1> QED
  BY <1>2, <1>3

\* The invariant is inductive.
LEMMA FloorStep ==
  ASSUME FloorInv, [PlayNext]_allVars
  PROVE  FloorInv'
<1>1. PlayInv'
  BY PlayStep DEF FloorInv
<1>2. CASE StartPlay
  <2>1. /\ task' = task /\ scores' = scores /\ action_history' = EmptyBag /\ ~done'
        /\ config' = ScenarioOf(task)
        /\ investigations' = [a \in AlertsOf(ScenarioOf(task)) |-> Untouched]
    BY <1>2 DEF StartPlay, Begin, FreshClock, book
  <2>2. ~Submitted'
    BY <2>1 DEF Submitted, BagIn, BagToSet, EmptyBag, SetToBag
  <2>3. Blank(investigations', task')
    BY <2>1, TaskFacts DEF Blank, Covers, FloorInv, PlayInv
  <2>4. InactionEarnsTheFloor'
    BY <2>1 DEF FloorInv, InactionEarnsTheFloor
  <2> QED
    BY <1>1, <2>1, <2>2, <2>3, <2>4 DEF FloorInv
<1>3. CASE Act
  <2>1. /\ player # None /\ ~done /\ Play(Move)
        /\ UNCHANGED <<task, player, scores>>
    BY <1>3 DEF Act, book
  <2>2. ~Submitted
    BY <2>1 DEF FloorInv
  <2>3. InactionEarnsTheFloor'
    BY <2>1 DEF FloorInv, InactionEarnsTheFloor
  <2>4. player = "submit" => Move = Submit
    BY DEF Move
  <2>5. CASE ~Submitted' /\ Move # Submit
    BY <1>1, <2>1, <2>3, <2>4, <2>5 DEF FloorInv
  <2>6. CASE /\ Submitted' /\ done' /\ UNCHANGED <<config, investigations>>
             /\ reward' = Clamp(GradeAt(step + 1, investigations)
                                  * EfficiencyPercent(step + 1) * Scale) - 0
    <3>1. /\ task \in Tasks /\ config = ScenarioOf(task) /\ config \in Scenario
          /\ Covers(investigations, task)
      BY <2>1, PlayCovers DEF FloorInv
    <3> DEFINE final == Clamp(GradeAt(step + 1, investigations)
                                * EfficiencyPercent(step + 1) * Scale)
    <3>2. /\ Paid(final) /\ reward' = final - 0
          /\ Blank(investigations, task) /\ Demanding(task) => final = 100 * Scale
      BY <2>6, <3>1, PayInRange
    <3> HIDE DEF final
    <3>3. reward' = final
      BY <3>2 DEF Paid
    <3>4. Scale' = Scale
      BY <2>6 DEF Scale, Positives, Negatives, AlertsOf
    <3>5. Paid(reward)'
      BY <3>2, <3>3, <3>4 DEF Paid
    <3>6. player = "submit" => Blank(investigations, task)
      BY <2>1 DEF FloorInv
    <3> QED
      BY <1>1, <2>1, <2>3, <2>6, <3>2, <3>3, <3>4, <3>5, <3>6 DEF FloorInv
  <2> QED
    BY <2>1, <2>2, <2>5, <2>6, MoveOrSubmit
<1>4. CASE EndPlay
  <2>1. /\ player # None /\ done /\ player' = None /\ task' = task
        /\ scores' = [p \in DOMAIN scores \cup {player} |->
                        IF p = player THEN PlayScore ELSE scores[p]]
    BY <1>4 DEF EndPlay
  <2>2. /\ PlayScore \in 1..999
        /\ player = "submit" /\ Demanding(task) => PlayScore = 1
    BY <2>1, ScoreOfPlay
  <2>3. /\ DOMAIN scores' = DOMAIN scores \cup {player}
        /\ \A p \in DOMAIN scores' : \/ scores'[p] = PlayScore /\ p = player
                                     \/ p \in DOMAIN scores /\ scores'[p] = scores[p]
    BY <2>1
  <2>4. InactionEarnsTheFloor'
    BY <2>1, <2>2, <2>3 DEF FloorInv, InactionEarnsTheFloor
  <2> QED
    BY <1>1, <2>1, <2>4 DEF FloorInv
<1>5. CASE Interfere \/ TaskPlayed \/ UNCHANGED allVars
  <2>1. /\ UNCHANGED <<task, player, scores, done, reward>>
        /\ UNCHANGED <<config, investigations, action_history>>
    BY <1>5 DEF Interfere, TaskPlayed, allVars, agent, book, vars, casework
  <2>2. Scale' = Scale
    BY <2>1 DEF Scale, Positives, Negatives, AlertsOf
  <2>3. (Submitted' <=> Submitted) /\ (Paid(reward)' <=> Paid(reward))
    BY <2>1, <2>2 DEF Submitted, Paid
  <2>4. InactionEarnsTheFloor'
    BY <2>1 DEF FloorInv, InactionEarnsTheFloor
  <2> QED
    BY <1>1, <2>1, <2>2, <2>3, <2>4 DEF FloorInv
<1> QED
  BY <1>2, <1>3, <1>4, <1>5 DEF PlayNext

\* For every task and whatever the other agents do: no play scores outside [0.001,
\* 0.999], and where the answer key asks for work in every part, doing nothing earns
\* exactly the floor (graders/base.py, compute_team_metrics, environment.py).
THEOREM NothingIsPaidForInaction == PlaySpec => []InactionEarnsTheFloor
<1>1. PlayInit => FloorInv
  <2> SUFFICES ASSUME PlayInit PROVE FloorInv
    OBVIOUS
  <2>1. player = None /\ PlayInv /\ DOMAIN scores = {}
    BY DEF PlayInit, PlayInv
  <2> QED
    BY <2>1 DEF FloorInv, InactionEarnsTheFloor
<1>2. FloorInv /\ [PlayNext]_allVars => FloorInv'
  BY FloorStep
<1>3. FloorInv => InactionEarnsTheFloor
  BY DEF FloorInv
<1> QED
  BY <1>1, <1>2, <1>3, PTL DEF PlaySpec
=============================================================================
