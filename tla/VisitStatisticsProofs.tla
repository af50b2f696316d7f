------------------------- MODULE VisitStatisticsProofs -------------------------
(* What the statistics of any finite table of visits have in common: sums   *)
(* over classes, ranked lists, trend and engagement.                        *)
EXTENDS VisitStatistics, FiniteSetTheorems, TLAPS

--------------------------------------------------------------------------------
(* Sums.  The values of a function on a finite set are finitely many.       *)
LEMMA FiniteImage ==
    ASSUME NEW S, IsFiniteSet(S), NEW g
    PROVE  /\ IsFiniteSet({g[x] : x \in S})
           /\ Cardinality({g[x] : x \in S}) <= Cardinality(S)
<1> DEFINE f == [x \in S |-> g[x]]
<1>1. f \in Surjection(S, {g[x] : x \in S})
  BY DEF Surjection
<1> QED
  BY <1>1, FS_Surjection

(* A one-to-one correspondence, told by its function.                       *)
LEMMA Corresponds ==
    ASSUME NEW S, IsFiniteSet(S), NEW T, NEW f \in [S -> T],
           \A x, y \in S : f[x] = f[y] => x = y,
           \A t \in T : \E x \in S : f[x] = t
    PROVE  IsFiniteSet(T) /\ Cardinality(T) = Cardinality(S)
<1>1. f \in Bijection(S, T)
  BY DEF Bijection, Injection, Surjection, IsInjective
<1> QED
  BY <1>1, FS_Bijection DEF ExistsBijection

(* The pairs of an index and a member of its set.                           *)
Pairs(I, C) == UNION {{i} \X C[i] : i \in I}

LEMMA PairsAre ==
    ASSUME NEW I, NEW C
    PROVE  /\ \A i \in I : \A x \in C[i] : <<i, x>> \in Pairs(I, C)
           /\ \A p \in Pairs(I, C) : /\ p = <<p[1], p[2]>>
                                     /\ p[1] \in I /\ p[2] \in C[p[1]]
BY DEF Pairs

LEMMA FinitePairs ==
    ASSUME NEW I, IsFiniteSet(I), NEW C, \A i \in I : IsFiniteSet(C[i])
    PROVE  IsFiniteSet(Pairs(I, C))
<1> DEFINE g == [i \in I |-> {i} \X C[i]]
<1>1. \A i \in I : IsFiniteSet(g[i])
  BY FS_Product, FS_Singleton
<1>2. IsFiniteSet({g[i] : i \in I})
  <2> HIDE DEF g
  <2> QED
    BY FiniteImage
<1>3. IsFiniteSet(UNION {g[i] : i \in I})
  <2> HIDE DEF g
  <2>1. \A T \in {g[i] : i \in I} : IsFiniteSet(T)
    BY <1>1
  <2> QED
    BY <1>2, <2>1, FS_UNION
<1>4. Pairs(I, C) = UNION {g[i] : i \in I}
  BY DEF Pairs
<1> QED
  BY <1>3, <1>4

(* A sum of sizes is the size of the set of pairs.                          *)
LEMMA TotalCounts ==
    ASSUME NEW I, IsFiniteSet(I), NEW C, \A i \in I : IsFiniteSet(C[i]),
           NEW list, DOMAIN list = I, \A i \in I : list[i] = Cardinality(C[i])
    PROVE  /\ IsFiniteSet(Pairs(I, C))
           /\ Total(list) = Cardinality(Pairs(I, C))
<1> DEFINE places == [i \in I |-> 1..Cardinality(C[i])]
           number == [i \in I |-> CHOOSE g : g \in Bijection(1..Cardinality(C[i]), C[i])]
           f == [p \in Pairs(I, places) |-> <<p[1], number[p[1]][p[2]]>>]
<1>1. \A i \in I : Cardinality(C[i]) \in Nat /\ number[i] \in Bijection(1..Cardinality(C[i]), C[i])
  BY FS_CardinalityType DEF ExistsBijection
<1>2. \A i \in I : IsFiniteSet(places[i])
  <2> SUFFICES ASSUME NEW i \in I PROVE IsFiniteSet(1..Cardinality(C[i]))
    OBVIOUS
  <2>1. Cardinality(C[i]) \in Int
    BY FS_CardinalityType
  <2> QED
    BY <2>1, FS_Interval
<1>3. ASSUME NEW i \in I
      PROVE  /\ places[i] = 1..Cardinality(C[i])
             /\ \A k \in places[i] : number[i][k] \in C[i]
             /\ \A k, m \in places[i] : number[i][k] = number[i][m] => k = m
             /\ \A x \in C[i] : \E k \in places[i] : number[i][k] = x
  <2>1. places[i] = 1..Cardinality(C[i])
    OBVIOUS
  <2> HIDE DEF places, number
  <2> QED
    BY <1>1, <2>1 DEF Bijection, Injection, Surjection, IsInjective
<1>4. Total(list) = Cardinality(Pairs(I, places))
  <2>1. Pairs(I, places) = UNION {{i} \X (1..list[i]) : i \in DOMAIN list}
    BY DEF Pairs
  <2> QED
    BY <2>1 DEF Total
<1> HIDE DEF places, number
<1>5. \A p \in Pairs(I, places) : p = <<p[1], p[2]>> /\ p[1] \in I /\ p[2] \in places[p[1]]
  BY PairsAre
<1>6. f \in [Pairs(I, places) -> Pairs(I, C)]
  BY <1>3, <1>5, PairsAre
<1>7. \A p, r \in Pairs(I, places) : f[p] = f[r] => p = r
  <2> SUFFICES ASSUME NEW p \in Pairs(I, places), NEW r \in Pairs(I, places), f[p] = f[r]
               PROVE  p = r
    OBVIOUS
  <2>1. p[1] = r[1] /\ number[p[1]][p[2]] = number[r[1]][r[2]]
    OBVIOUS
  <2>2. p[2] = r[2]
    BY <1>3, <1>5, <2>1
  <2> QED
    BY <1>5, <2>1, <2>2
<1>8. ASSUME NEW t \in Pairs(I, C) PROVE \E p \in Pairs(I, places) : f[p] = t
  <2>1. t = <<t[1], t[2]>> /\ t[1] \in I /\ t[2] \in C[t[1]]
    BY PairsAre
  <2>2. PICK k \in places[t[1]] : number[t[1]][k] = t[2]
    BY <1>3, <2>1
  <2>3. <<t[1], k>> \in Pairs(I, places)
    BY <2>1, <2>2, PairsAre
  <2>4. f[<<t[1], k>>] = t
    BY <2>1, <2>2, <2>3
  <2> QED
    BY <2>3, <2>4
<1>9. IsFiniteSet(Pairs(I, places))
  BY <1>2, FinitePairs
<1> HIDE DEF f
<1>10. IsFiniteSet(Pairs(I, C)) /\ Cardinality(Pairs(I, C)) = Cardinality(Pairs(I, places))
  BY <1>6, <1>7, <1>8, <1>9, Corresponds
<1> QED
  BY <1>4, <1>10

(* The sizes of the classes of a finite set add up to its size.             *)
Class(c, x) == {r \in DOMAIN c : c[r] = x}

LEMMA ClassesAreFinite ==
    ASSUME NEW c, IsFiniteSet(DOMAIN c), NEW x
    PROVE  IsFiniteSet(Class(c, x)) /\ Cardinality(Class(c, x)) \in Nat
<1>1. Class(c, x) \in SUBSET DOMAIN c
  BY DEF Class
<1> QED
  BY <1>1, FS_Subset, FS_CardinalityType

LEMMA TotalOfClasses ==
    ASSUME NEW R, IsFiniteSet(R), NEW I, IsFiniteSet(I), NEW c \in [R -> I],
           NEW list, DOMAIN list = I, \A i \in I : list[i] = Cardinality(Class(c, i))
    PROVE  Total(list) = Cardinality(R)
<1> DEFINE C == [i \in I |-> Class(c, i)]
           f == [r \in R |-> <<c[r], r>>]
<1>1. \A i \in I : IsFiniteSet(C[i])
  BY ClassesAreFinite
<1>2. \A i \in I : list[i] = Cardinality(C[i])
  OBVIOUS
<1>3. \A i \in I : \A r : r \in C[i] <=> r \in R /\ c[r] = i
  BY DEF Class
<1> HIDE DEF C
<1>4. f \in [R -> Pairs(I, C)]
  BY <1>3, PairsAre
<1>5. \A r, q \in R : f[r] = f[q] => r = q
  OBVIOUS
<1>6. \A t \in Pairs(I, C) : \E r \in R : f[r] = t
  <2> SUFFICES ASSUME NEW t \in Pairs(I, C) PROVE \E r \in R : f[r] = t
    OBVIOUS
  <2>1. t = <<t[1], t[2]>> /\ t[2] \in R /\ c[t[2]] = t[1]
    BY <1>3, PairsAre
  <2> QED
    BY <2>1
<1> HIDE DEF f
<1>7. Cardinality(Pairs(I, C)) = Cardinality(R)
  BY <1>4, <1>5, <1>6, Corresponds
<1> QED
  BY <1>1, <1>2, <1>7, TotalCounts

(* Sets that cover another together have at least as many members.          *)
LEMMA TotalCovers ==
    ASSUME NEW I, IsFiniteSet(I), NEW C, \A i \in I : IsFiniteSet(C[i]),
           NEW list, DOMAIN list = I, \A i \in I : list[i] = Cardinality(C[i]),
           NEW W, \A w \in W : \E i \in I : w \in C[i]
    PROVE  IsFiniteSet(W) /\ Cardinality(W) <= Total(list)
<1> DEFINE P == {p \in Pairs(I, C) : p[2] \in W}
           f == [p \in P |-> p[2]]
<1>1. IsFiniteSet(P) /\ Cardinality(P) <= Cardinality(Pairs(I, C))
  <2>1. P \in SUBSET Pairs(I, C)
    OBVIOUS
  <2> QED
    BY <2>1, TotalCounts, FS_Subset
<1>2. f \in Surjection(P, W)
  <2>1. \A w \in W : \E p \in P : f[p] = w
    <3> SUFFICES ASSUME NEW w \in W PROVE \E p \in P : f[p] = w
      OBVIOUS
    <3>1. PICK i \in I : w \in C[i]
      OBVIOUS
    <3>2. <<i, w>> \in P
      BY <3>1, PairsAre
    <3> QED
      BY <3>2
  <2> QED
    BY <2>1 DEF Surjection
<1>3. IsFiniteSet(W) /\ Cardinality(W) <= Cardinality(P)
  BY <1>1, <1>2, FS_Surjection
<1>4. Cardinality(P) \in Nat /\ Cardinality(Pairs(I, C)) \in Nat /\ Cardinality(W) \in Nat
  BY <1>1, <1>3, TotalCounts, FS_CardinalityType
<1> QED
  BY <1>1, <1>3, <1>4, TotalCounts

--------------------------------------------------------------------------------
(* Ranked lists.  Entries are told apart by their values, and Before puts   *)
(* any two of them in an order.                                             *)
Orderly(E) ==
    /\ IsFiniteSet(E)
    /\ \A e \in E : e.value \in Nat /\ e.count \in Nat
    /\ \A d, e \in E : d.value = e.value => d = e

LEMMA RankFacts ==
    ASSUME NEW E, Orderly(E)
    PROVE  /\ Cardinality(E) \in Nat
           /\ \A e \in E : Rank(E, e) \in 0..(Cardinality(E) - 1)
           /\ \A d, e \in E : Before(d, e) => Rank(E, d) < Rank(E, e)
           /\ \A d, e \in E : d # e => Before(d, e) \/ Before(e, d)
<1> DEFINE Below(e) == {d \in E : Before(d, e)}
<1>1. \A e \in E : e.value \in Nat /\ e.count \in Nat
  BY DEF Orderly
<1>2. IsFiniteSet(E) /\ Cardinality(E) \in Nat
  BY FS_CardinalityType DEF Orderly
<1>3. \A e \in E : ~Before(e, e)
  BY <1>1 DEF Before
<1>4. \A c, d, e \in E : Before(c, d) /\ Before(d, e) => Before(c, e)
  BY <1>1 DEF Before
<1>5. \A d, e \in E : d # e => Before(d, e) \/ Before(e, d)
  BY <1>1 DEF Before, Orderly
<1>6. ASSUME NEW e \in E
      PROVE  /\ IsFiniteSet(Below(e)) /\ Cardinality(Below(e)) \in Nat
             /\ Cardinality(Below(e)) < Cardinality(E)
  <2>1. Below(e) \in SUBSET E /\ Below(e) # E
    BY <1>3
  <2>2. /\ IsFiniteSet(Below(e)) /\ Cardinality(Below(e)) <= Cardinality(E)
        /\ Cardinality(Below(e)) # Cardinality(E)
    BY <1>2, <2>1, FS_Subset
  <2>3. Cardinality(Below(e)) \in Nat
    BY <2>2, FS_CardinalityType
  <2> QED
    BY <1>2, <2>2, <2>3
<1>7. ASSUME NEW d \in E, NEW e \in E, Before(d, e)
      PROVE  Cardinality(Below(d)) < Cardinality(Below(e))
  <2>1. Below(d) \in SUBSET Below(e) /\ Below(d) # Below(e)
    BY <1>3, <1>4, <1>7
  <2>2. /\ Cardinality(Below(d)) <= Cardinality(Below(e))
        /\ Cardinality(Below(d)) # Cardinality(Below(e))
    BY <1>6, <2>1, FS_Subset
  <2> QED
    BY <1>6, <2>2
<1>8. \A e : Rank(E, e) = Cardinality(Below(e))
  BY DEF Rank
<1> HIDE DEF Below
<1> QED
  BY <1>2, <1>5, <1>6, <1>7, <1>8

(* Every place of the list is taken by one entry.                           *)
LEMMA RankTaken ==
    ASSUME NEW E, Orderly(E), NEW i \in 1..Cardinality(E)
    PROVE  /\ \E e \in E : Rank(E, e) = i - 1
           /\ \A d, e \in E : Rank(E, d) = Rank(E, e) => d = e
<1> DEFINE n == Cardinality(E)
           f == [e \in E |-> Rank(E, e)]
<1>1. n \in Nat /\ f \in [E -> 0..(n - 1)]
  BY RankFacts
<1>2. \A d, e \in E : Rank(E, d) = Rank(E, e) => d = e
  <2> SUFFICES ASSUME NEW d \in E, NEW e \in E, d # e PROVE Rank(E, d) # Rank(E, e)
    OBVIOUS
  <2>1. Rank(E, d) < Rank(E, e) \/ Rank(E, e) < Rank(E, d)
    BY RankFacts
  <2>2. Rank(E, d) \in Int /\ Rank(E, e) \in Int
    BY RankFacts
  <2> QED
    BY <2>1, <2>2
<1>3. f \in Injection(E, 0..(n - 1))
  BY <1>1, <1>2 DEF Injection, IsInjective
<1>4. IsFiniteSet(0..(n - 1)) /\ Cardinality(0..(n - 1)) = n
  <2>1. 0 \in Int /\ n - 1 \in Int /\ (0 > n - 1 <=> n = 0) /\ (n - 1) - 0 + 1 = n
    BY <1>1
  <2> HIDE DEF n
  <2> QED
    BY <2>1, FS_Interval
<1>5. f \in Surjection(E, 0..(n - 1))
  BY <1>3, <1>4, FS_Injection
<1>6. \E e \in E : f[e] = i - 1
  <2>1. i - 1 \in 0..(n - 1)
    BY <1>1
  <2> HIDE DEF f
  <2> QED
    BY <1>5, <2>1 DEF Surjection
<1> QED
  BY <1>2, <1>6

LEMMA Smaller ==
    ASSUME NEW a \in Int, NEW b \in Int
    PROVE  Min({a, b}) = IF a <= b THEN a ELSE b
<1>1. \E m \in {a, b} : \A k \in {a, b} : m <= k
  OBVIOUS
<1>2. Min({a, b}) \in {a, b} /\ \A k \in {a, b} : Min({a, b}) <= k
  BY <1>1 DEF Min
<1> QED
  BY <1>2

(* A ranked list is the sorted entries, up to the limit.                    *)
LEMMA RankedAre ==
    ASSUME NEW counts, NEW E, E = Entries(counts), Orderly(E), NEW limit \in Nat,
           NEW list, list = Ranked(counts, limit)
    PROVE  /\ DOMAIN list = 1..(IF limit <= Cardinality(E) THEN limit ELSE Cardinality(E))
           /\ \A i \in DOMAIN list : list[i] \in E /\ Rank(E, list[i]) = i - 1
           /\ \A i, k \in DOMAIN list :
                 i < k => list[i].value # list[k].value /\ ~Before(list[k], list[i])
<1> DEFINE m == IF limit <= Cardinality(E) THEN limit ELSE Cardinality(E)
<1>1. Cardinality(E) \in Nat /\ m \in 0..Cardinality(E)
  BY RankFacts
<1>2. list = [i \in 1..m |-> CHOOSE e \in E : Rank(E, e) = i - 1]
  BY <1>1, Smaller DEF Ranked
<1>3. ASSUME NEW i \in 1..m PROVE list[i] \in E /\ Rank(E, list[i]) = i - 1
  <2>1. \E e \in E : Rank(E, e) = i - 1
    BY <1>1, RankTaken
  <2>2. list[i] = CHOOSE e \in E : Rank(E, e) = i - 1
    BY <1>2
  <2> QED
    BY <2>1, <2>2
<1>4. ASSUME NEW i \in 1..m, NEW k \in 1..m, i < k
      PROVE  list[i].value # list[k].value /\ ~Before(list[k], list[i])
  <2>1. list[i] # list[k]
    BY <1>1, <1>3, <1>4
  <2>2. list[i].value # list[k].value
    BY <1>3, <2>1 DEF Orderly
  <2>3. ~(Rank(E, list[k]) < Rank(E, list[i]))
    BY <1>1, <1>3, <1>4
  <2> QED
    BY <1>3, <2>2, <2>3, RankFacts
<1>5. DOMAIN list = 1..m
  BY <1>2
<1> QED
  BY <1>3, <1>4, <1>5

(* The entries made of a function on finitely many rows.                    *)
Values(value) == {value[v] : v \in DOMAIN value}

LEMMA EntriesAre ==
    ASSUME NEW R, IsFiniteSet(R), NEW value, DOMAIN value = R,
           \A v \in R : value[v] \in Nat, NEW E, E = Entries(CountsOf(value))
    PROVE  /\ Orderly(E)
           /\ Cardinality(E) = Cardinality(Values(value))
           /\ \A e \in E : /\ e.value \in Values(value)
                           /\ e.count = Cardinality(Class(value, e.value))
           /\ \A v \in R : \E e \in E : e.value = value[v]
<1> DEFINE X == Values(value)
           Size(x) == Cardinality(Class(value, x))
           f == [x \in X |-> [value |-> x, count |-> Size(x)]]
<1>1. IsFiniteSet(X)
  BY FiniteImage DEF Values
<1>2. E = {[value |-> x, count |-> Size(x)] : x \in X}
  BY DEF Entries, CountsOf, Values, Class
<1>3. \A x \in X : x \in Nat
  BY DEF Values
<1>4. \A x \in X : Size(x) \in Nat
  BY ClassesAreFinite
<1>5. \A v \in R : value[v] \in X
  BY DEF Values
<1> HIDE DEF X, Size
<1>6. \A e \in E : e.value \in X /\ e.count = Size(e.value)
  BY <1>2
<1>7. \A d, e \in E : d.value = e.value => d = e
  BY <1>2
<1>8. IsFiniteSet(E) /\ Cardinality(E) = Cardinality(X)
  <2>1. f \in [X -> E] /\ \A e \in E : \E x \in X : f[x] = e
    BY <1>2
  <2>2. \A x, y \in X : f[x] = f[y] => x = y
    OBVIOUS
  <2> HIDE DEF f
  <2> QED
    BY <1>1, <2>1, <2>2, Corresponds
<1>9. Orderly(E)
  BY <1>3, <1>4, <1>6, <1>7, <1>8 DEF Orderly
<1>10. ASSUME NEW v \in R PROVE \E e \in E : e.value = value[v]
  <2>1. [value |-> value[v], count |-> Size(value[v])] \in E
    BY <1>2, <1>5
  <2> QED
    BY <2>1
<1> QED
  BY <1>6, <1>8, <1>9, <1>10 DEF X, Size

(* A ranked list accounts for the rows as far as its limit goes: each row   *)
(* has a place, that of its value, and the list counts the rows whose place *)
(* is within the limit.                                                     *)
LEMMA RankedAccounts ==
    ASSUME NEW R, IsFiniteSet(R), NEW value, DOMAIN value = R,
           \A v \in R : value[v] \in Nat, NEW limit \in Nat \ {0},
           NEW list, list = Ranked(CountsOf(value), limit)
    PROVE  /\ Accounts(list, value, limit)
           /\ \A i \in DOMAIN list : list[i].value \in Values(value)
<1> DEFINE E == Entries(CountsOf(value))
           n == Cardinality(E)
           m == IF limit <= n THEN limit ELSE n
           entry == [v \in R |-> CHOOSE e \in E : e.value = value[v]]
           c == [v \in R |-> Rank(E, entry[v]) + 1]
<1>1. /\ Orderly(E)
      /\ Cardinality(E) = Cardinality(Values(value))
      /\ \A e \in E : /\ e.value \in Values(value)
                      /\ e.count = Cardinality(Class(value, e.value))
      /\ \A v \in R : \E e \in E : e.value = value[v]
  BY EntriesAre
<1>2. n \in Nat /\ m \in Nat /\ m <= n /\ m <= limit /\ (n > 0 => m > 0) /\ (n <= limit => m = n)
  <2>1. n \in Nat
    BY <1>1, RankFacts
  <2> HIDE DEF n
  <2> QED
    BY <2>1
<1>3. /\ DOMAIN list = 1..m
      /\ \A i \in 1..m : list[i] \in E /\ Rank(E, list[i]) = i - 1
      /\ \A i, k \in DOMAIN list :
            i < k => list[i].value # list[k].value /\ ~Before(list[k], list[i])
  <2>1. E = Entries(CountsOf(value)) /\ limit \in Nat
    OBVIOUS
  <2> HIDE DEF E
  <2>2. DOMAIN list = 1..m
    BY <1>1, <2>1, RankedAre
  <2>3. /\ \A i \in DOMAIN list : list[i] \in E /\ Rank(E, list[i]) = i - 1
        /\ \A i, k \in DOMAIN list :
              i < k => list[i].value # list[k].value /\ ~Before(list[k], list[i])
    BY <1>1, <2>1, RankedAre
  <2> HIDE DEF m
  <2> QED
    BY <2>2, <2>3
<1>4. \A v \in R : entry[v] \in E /\ entry[v].value = value[v]
  BY <1>1
<1> HIDE DEF E, entry, m
<1>5. c \in [R -> 1..n]
  BY <1>1, <1>2, <1>4, RankFacts
<1>6. ASSUME NEW i \in 1..m
      PROVE  list[i].count = Cardinality(Class(c, i))
  <2>1. \A v \in R : c[v] = i <=> Rank(E, entry[v]) = Rank(E, list[i])
    BY <1>1, <1>2, <1>3, <1>4, RankFacts
  <2>2. i \in 1..n
    BY <1>2
  <2>3. \A v \in R : c[v] = i <=> entry[v] = list[i]
    BY <1>1, <1>3, <1>4, <2>1, <2>2, RankTaken
  <2>4. \A v \in R : entry[v] = list[i] <=> value[v] = list[i].value
    BY <1>1, <1>3, <1>4 DEF Orderly
  <2>5. Class(c, i) = Class(value, list[i].value)
    BY <2>3, <2>4 DEF Class
  <2> HIDE DEF c
  <2> QED
    BY <1>1, <1>3, <2>5
<1> HIDE DEF c
<1> DEFINE placed == {v \in R : c[v] <= m}
<1>7. Listed(list) = Cardinality(placed)
  <2> DEFINE places == 1..m
             counts == [i \in DOMAIN list |-> list[i].count]
             place == [v \in placed |-> c[v]]
  <2>1. \A i \in places : Class(place, i) = Class(c, i)
    BY <1>2, <1>5 DEF Class
  <2>2. DOMAIN counts = places /\ \A i \in places : counts[i] = Cardinality(Class(place, i))
    BY <1>3, <1>6, <2>1
  <2>3. IsFiniteSet(places)
    BY <1>2, FS_Interval
  <2>4. Listed(list) = Total(counts)
    BY DEF Listed
  <2>5. place \in [placed -> places]
    BY <1>2, <1>5
  <2>6. placed \in SUBSET R
    OBVIOUS
  <2> HIDE DEF places, counts, place, placed
  <2>7. IsFiniteSet(placed)
    BY <2>6, FS_Subset
  <2> QED
    BY <2>2, <2>3, <2>4, <2>5, <2>7, TotalOfClasses
<1>8. Listed(list) <= Cardinality(R) /\ (n <= limit => Listed(list) = Cardinality(R))
  <2>1. placed \in SUBSET R
    OBVIOUS
  <2>2. n <= limit => placed = R
    BY <1>2, <1>5
  <2> HIDE DEF placed
  <2> QED
    BY <1>7, <2>1, <2>2, FS_Subset
<1>9. Cardinality(R) > 0 => 1 \in DOMAIN list
  <2>1. ASSUME Cardinality(R) > 0 PROVE n > 0
    <3>1. R # {}
      BY <2>1, FS_EmptySet
    <3>2. PICK v : v \in R
      BY <3>1
    <3> QED
      BY <1>2, <1>5, <3>2
  <2> QED
    BY <1>2, <1>3, <2>1
<1>10. Accounts(list, value, limit)
  <2>1. n = Cardinality({value[v] : v \in DOMAIN value})
    BY <1>1 DEF Values
  <2>2. \A i \in DOMAIN list : i <= limit
    BY <1>2, <1>3
  <2> HIDE DEF n
  <2> QED
    BY <1>3, <1>8, <1>9, <2>1, <2>2 DEF Accounts
<1>11. \A i \in DOMAIN list : list[i].value \in Values(value)
  BY <1>1, <1>3
<1> QED
  BY <1>10, <1>11

--------------------------------------------------------------------------------
(* The lists of a table that the collector can have filled.                 *)
Readable(V) ==
    /\ IsFiniteSet(V)
    /\ \A v \in V :
          /\ v.at \in Nat /\ v.path.name \in Nat
          /\ {v.referrer, v.utm.source, v.utm.medium, v.utm.campaign} \subseteq DOMAIN Normal

LEMMA FiniteRows ==
    ASSUME NEW V, Readable(V), NEW R, R \subseteq V
    PROVE  IsFiniteSet(R) /\ Cardinality(R) \in Nat
BY FS_Subset, FS_CardinalityType DEF Readable

LEMMA AttributionValues ==
    ASSUME NEW V, Readable(V), NEW v \in V
    PROVE  /\ Source(v) \in NormalForms /\ Medium(v) \in NormalForms
           /\ Campaign(v) \in NormalForms
<1>1. {v.referrer, v.utm.source, v.utm.medium, v.utm.campaign} \subseteq DOMAIN Normal
  BY DEF Readable
<1> QED
  BY <1>1 DEF Source, Medium, Campaign, ReadUTMValue, NormalizeReferrerHost, OrElse, NormalForms

LEMMA NormalFormsAreTexts == NormalForms \subseteq Nat
BY StatisticsAssumption DEF NormalForms, Direct, Referral, NoCampaign

LEMMA AttributionAccounts ==
    ASSUME NEW V, Readable(V), NEW s, NEW value, DOMAIN value = Human(V, s),
           \A v \in Human(V, s) : value[v] \in NormalForms, NEW limit \in Nat \ {0},
           NEW list, list = Ranked(CountsOf(value), limit)
    PROVE  /\ Accounts(list, value, limit)
           /\ \A i \in DOMAIN list : list[i].value \in NormalForms
<1>1. IsFiniteSet(Human(V, s))
  BY FiniteRows DEF Human
<1>2. \A v \in Human(V, s) : value[v] \in Nat
  BY NormalFormsAreTexts
<1>3. /\ Accounts(list, value, limit)
      /\ \A i \in DOMAIN list : list[i].value \in Values(value)
  BY <1>1, <1>2, RankedAccounts
<1> QED
  BY <1>3 DEF Values

LEMMA LimitsAre ==
    ASSUME NEW n \in Int
    PROVE  /\ PagesLimit(n) \in Nat \ {0}
           /\ AttributionLimit(n) \in Nat \ {0}
           /\ AttributionLimit(n) <= AttributionMax
           /\ n > 0 => AttributionLimit(n) <= n
<1>1. /\ PagesDefault \in Nat \ {0}
      /\ AttributionMax \in Nat /\ AttributionDefault \in 1..AttributionMax
  BY StatisticsAssumption
<1> QED
  BY <1>1, Smaller DEF PagesLimit, AttributionLimit, Within

LEMMA ListsAlwaysAgree ==
    ASSUME NEW V, Readable(V), NEW s, NEW n \in Int
    PROVE  ListsAgree(V, s, n)
<1> DEFINE rows == Human(V, s)
           a == VisitAttribution(V, s, n)
           limit == AttributionLimit(n)
           source == [v \in rows |-> Source(v)]
           medium == [v \in rows |-> Medium(v)]
           campaign == [v \in rows |-> Campaign(v)]
           paged == Paged(V, s)
           path == [v \in paged |-> CanonicalPath(v.path)]
           pages == TopPages(V, s, n)
           first == TopPages(V, s, 1)
<1>1. rows \subseteq V
  BY DEF Human
<1>2. /\ limit \in Nat \ {0} /\ limit <= AttributionMax /\ (n > 0 => limit <= n)
      /\ AttributionMax \in Nat /\ PagesLimit(n) \in Nat \ {0}
  BY LimitsAre, StatisticsAssumption
<1>3. /\ Accounts(a.sources, source, limit)
      /\ Accounts(a.mediums, medium, limit)
      /\ Accounts(a.campaigns, campaign, limit)
      /\ \A list \in {a.sources, a.mediums, a.campaigns} :
            \A i \in DOMAIN list : list[i].value \in NormalForms
  <2>1. \A v \in rows : /\ Source(v) \in NormalForms /\ Medium(v) \in NormalForms
                        /\ Campaign(v) \in NormalForms
    BY <1>1, AttributionValues
  <2>2. /\ a.sources = Ranked(CountsOf(source), limit)
        /\ a.mediums = Ranked(CountsOf(medium), limit)
        /\ a.campaigns = Ranked(CountsOf(campaign), limit)
    BY DEF VisitAttribution
  <2>3. /\ DOMAIN source = rows /\ \A v \in rows : source[v] \in NormalForms
        /\ DOMAIN medium = rows /\ \A v \in rows : medium[v] \in NormalForms
        /\ DOMAIN campaign = rows /\ \A v \in rows : campaign[v] \in NormalForms
    BY <2>1
  <2> HIDE DEF source, medium, campaign, a, limit
  <2>4. /\ Accounts(a.sources, source, limit)
        /\ \A i \in DOMAIN a.sources : a.sources[i].value \in NormalForms
    BY <1>2, <2>2, <2>3, AttributionAccounts
  <2>5. /\ Accounts(a.mediums, medium, limit)
        /\ \A i \in DOMAIN a.mediums : a.mediums[i].value \in NormalForms
    BY <1>2, <2>2, <2>3, AttributionAccounts
  <2>6. /\ Accounts(a.campaigns, campaign, limit)
        /\ \A i \in DOMAIN a.campaigns : a.campaigns[i].value \in NormalForms
    BY <1>2, <2>2, <2>3, AttributionAccounts
  <2> QED
    BY <2>4, <2>5, <2>6
<1>4. IsFiniteSet(paged)
  <2>1. paged \subseteq V
    BY <1>1 DEF Paged
  <2> QED
    BY <2>1, FiniteRows
<1>5. DOMAIN path = paged /\ \A v \in paged : path[v] \in Nat
  BY <1>1 DEF CanonicalPath, Readable, Paged
<1>6. /\ pages = Ranked(CountsOf(path), PagesLimit(n))
      /\ first = Ranked(CountsOf(path), 1)
  <2>1. PagesLimit(1) = 1
    BY DEF PagesLimit
  <2> QED
    BY <2>1 DEF TopPages
<1> HIDE DEF path, paged, pages, first
<1>7. Accounts(pages, path, PagesLimit(n))
  BY <1>2, <1>4, <1>5, <1>6, RankedAccounts
<1>8. ASSUME NEW i \in DOMAIN pages PROVE pages[i].count <= first[1].count
  <2> DEFINE E == Entries(CountsOf(path))
  <2>1. Orderly(E)
    BY <1>4, <1>5, EntriesAre
  <2>2. E = Entries(CountsOf(path)) /\ 1 \in Nat /\ PagesLimit(n) \in Nat
    BY <1>2
  <2> HIDE DEF E
  <2>3. Cardinality(E) \in Nat
    BY <2>1, RankFacts
  <2>4. /\ DOMAIN pages = 1..(IF PagesLimit(n) <= Cardinality(E)
                              THEN PagesLimit(n) ELSE Cardinality(E))
        /\ pages[i] \in E
    BY <1>6, <2>1, <2>2, RankedAre
  <2>5. /\ DOMAIN first = 1..(IF 1 <= Cardinality(E) THEN 1 ELSE Cardinality(E))
        /\ \A k \in DOMAIN first : first[k] \in E /\ Rank(E, first[k]) = k - 1
    BY <1>6, <2>1, <2>2, RankedAre
  <2>6. first[1] \in E /\ Rank(E, first[1]) = 0
    BY <2>2, <2>3, <2>4, <2>5
  <2>7. ~Before(pages[i], first[1])
    BY <2>1, <2>4, <2>6, RankFacts
  <2>8. pages[i].count \in Nat /\ first[1].count \in Nat
    BY <2>1, <2>4, <2>6 DEF Orderly
  <2> QED
    BY <2>7, <2>8 DEF Before
<1>9. ASSUME NEW list, NEW value, Accounts(list, value, limit), NEW i \in DOMAIN list, i \in Int
      PROVE  i <= AttributionMax /\ (n > 0 => i <= n)
  <2>1. i <= limit
    BY <1>9 DEF Accounts
  <2> HIDE DEF limit
  <2> QED
    BY <1>2, <1>9, <2>1
<1>10. ASSUME NEW list \in {a.sources, a.mediums, a.campaigns}, NEW i \in DOMAIN list
       PROVE  i \in Int
  <2>1. \E counts : list = Ranked(counts, limit)
    BY DEF VisitAttribution
  <2> QED
    BY <1>10, <2>1 DEF Ranked
<1>11. ASSUME NEW list \in {a.sources, a.mediums, a.campaigns}, NEW i \in DOMAIN list
       PROVE  /\ list[i].value \in NormalForms
              /\ i <= AttributionMax /\ (n > 0 => i <= n)
  <2>1. \E value : Accounts(list, value, limit)
    BY <1>3, <1>11
  <2> HIDE DEF a, limit, source, medium, campaign
  <2> QED
    BY <1>3, <1>9, <1>10, <1>11, <2>1
<1> HIDE DEF a, limit
<1> QED
  BY <1>3, <1>7, <1>8, <1>11 DEF ListsAgree, a, limit, paged, path, pages, first

--------------------------------------------------------------------------------
(* Trend and engagement of the last n days.                                 *)
LEMMA WithinBounds ==
    ASSUME NEW n \in Nat \ {0}, NEW default, NEW max \in Nat, n <= max
    PROVE  Within(n, default, max) = n
BY Smaller DEF Within

LEMMA DayIsNatural == \A t \in Nat : Day(t) \in Nat
BY StatisticsAssumption DEF Day

(* The place of a visit in the trend.                                       *)
DayPlace(v, n, today) == Day(v.at) - StartDay(n, today) + 1

DayPlaces(rows, n, today) == [v \in rows |-> DayPlace(v, n, today)]

LEMMA PlacesAre ==
    ASSUME NEW V, Readable(V), NEW s, NEW n \in Nat \ {0}, NEW today \in Nat,
           \A v \in V : Day(v.at) <= today,
           NEW rows, rows = InWindow(V, s, n, today)
    PROVE  /\ rows \subseteq V /\ IsFiniteSet(rows) /\ Cardinality(rows) \in Nat
           /\ DayPlaces(rows, n, today) \in [rows -> 1..n]
           /\ rows = {v \in Human(V, s) : today - Day(v.at) < n}
<1>1. rows \subseteq V
  BY DEF InWindow, Human
<1>2. ASSUME NEW v \in V
      PROVE  /\ Day(v.at) >= StartDay(n, today) <=> today - Day(v.at) < n
             /\ Day(v.at) >= StartDay(n, today) => DayPlace(v, n, today) \in 1..n
  <2>1. Day(v.at) \in Nat /\ Day(v.at) <= today
    BY DayIsNatural DEF Readable
  <2> QED
    BY <2>1 DEF StartDay, DayPlace
<1>3. \A v \in rows : DayPlace(v, n, today) \in 1..n
  BY <1>1, <1>2 DEF InWindow
<1>4. rows = {v \in Human(V, s) : today - Day(v.at) < n}
  BY <1>2 DEF InWindow, Human
<1> QED
  BY <1>1, <1>3, <1>4, FiniteRows DEF DayPlaces

(* The entry in place i counts the visits of that day, whatever the form of *)
(* the texts of the driver.                                                 *)
VisitorsIn(R) == {v.visitor : v \in R} \ {Anonymous}

LEMMA TrendIs ==
    ASSUME NEW V, Readable(V), NEW s, NEW today \in Nat, NEW n \in 1..TrendMax,
           NEW rows, rows = InWindow(V, s, n, today),
           NEW d, d = DayPlaces(rows, n, today),
           NEW trend, trend = VisitTrend(V, s, n, today)
    PROVE  /\ DOMAIN trend = 1..n
           /\ \A i \in 1..n : /\ trend[i].views = Cardinality(Class(d, i))
                              /\ trend[i].uniques = Cardinality(VisitorsIn(Class(d, i)))
<1> DEFINE keys == {DayKey(DayText(v)) : v \in rows}
           key(i) == Formatted(StartDay(n, today) + i - 1)
           Of(k) == {v \in rows : DayKey(DayText(v)) = k}
           entry(k) == [views |-> Cardinality(Of(k)),
                        uniques |-> Cardinality(VisitorsIn(Of(k)))]
           none == [views |-> 0, uniques |-> 0]
<1>1. TrendDays(n) = n /\ n \in Nat \ {0}
  BY StatisticsAssumption, WithinBounds DEF TrendDays
<1>2. \A v \in rows : Day(v.at) \in Nat
  BY DayIsNatural DEF Readable, InWindow, Human
<1>3. \A v \in rows : DayKey(DayText(v)) = Formatted(Day(v.at))
  BY DEF DayKey, DayText, Formatted
<1>4. trend = [i \in 1..n |-> IF key(i) \in keys THEN entry(key(i)) ELSE none]
  <2>1. trend = [i \in 1..TrendDays(n) |->
                   IF Formatted(StartDay(TrendDays(n), today) + i - 1)
                        \in {DayKey(DayText(v)) : v \in InWindow(V, s, TrendDays(n), today)}
                   THEN [k \in {DayKey(DayText(v)) : v \in InWindow(V, s, TrendDays(n), today)} |->
                           [views |-> Cardinality({v \in InWindow(V, s, TrendDays(n), today) :
                                                     DayKey(DayText(v)) = k}),
                            uniques |-> Cardinality({v.visitor :
                                v \in {w \in InWindow(V, s, TrendDays(n), today) :
                                         DayKey(DayText(w)) = k}} \ {Anonymous})]]
                        [Formatted(StartDay(TrendDays(n), today) + i - 1)]
                   ELSE [views |-> 0, uniques |-> 0]]
    BY DEF VisitTrend
  <2> QED
    BY <1>1, <2>1 DEF VisitorsIn
<1>5. ASSUME NEW i \in 1..n PROVE Of(key(i)) = Class(d, i)
  <2>1. \A v \in rows : DayKey(DayText(v)) = key(i) <=> Day(v.at) = StartDay(n, today) + i - 1
    BY <1>3 DEF Formatted
  <2>2. \A v \in rows : d[v] = Day(v.at) - StartDay(n, today) + 1
    BY DEF DayPlaces, DayPlace
  <2>3. StartDay(n, today) \in Int
    BY <1>1 DEF StartDay
  <2>4. \A v \in rows : DayKey(DayText(v)) = key(i) <=> d[v] = i
    BY <1>2, <2>1, <2>2, <2>3
  <2>5. DOMAIN d = rows
    BY DEF DayPlaces
  <2> QED
    BY <2>4, <2>5 DEF Class
<1>6. \A k : k \notin keys => Of(k) = {}
  OBVIOUS
<1>7. Cardinality({}) = 0 /\ VisitorsIn({}) = {}
  BY FS_EmptySet DEF VisitorsIn
<1> HIDE DEF keys, key, Of
<1>8. ASSUME NEW i \in 1..n
      PROVE  /\ trend[i].views = Cardinality(Class(d, i))
             /\ trend[i].uniques = Cardinality(VisitorsIn(Class(d, i)))
  <2>1. CASE key(i) \in keys
    BY <1>4, <1>5, <2>1
  <2>2. CASE key(i) \notin keys
    <3>1. Class(d, i) = {}
      BY <1>5, <1>6, <2>2
    <3>2. trend[i] = none
      BY <1>4, <2>2
    <3> QED
      BY <1>7, <3>1, <3>2
  <2> QED
    BY <2>1, <2>2
<1> QED
  BY <1>4, <1>8

(* Rounding to hundredths goes up by no more than a half.                   *)
LEMMA HundredthsBound ==
    ASSUME NEW r \in Nat, NEW t \in Nat \ {0}
    PROVE  Hundredths(r, t) \in Int /\ Hundredths(r, t) * t <= 100 * r + t
<1> DEFINE a == 200 * r + t
           b == 2 * t
           q == a \div b
<1>1. a \in Nat /\ b \in Nat \ {0}
  OBVIOUS
<1> HIDE DEF a, b
<1>2. q \in Int /\ b * q <= a
  BY <1>1
<1> HIDE DEF q
<1>3. b * q = 2 * (q * t) /\ q * t \in Int
  BY <1>2 DEF b
<1>4. 2 * (q * t) <= 200 * r + t
  BY <1>2, <1>3 DEF a
<1>5. q * t <= 100 * r + t
  BY <1>3, <1>4
<1> QED
  BY <1>2, <1>5 DEF Hundredths, q, a, b

(* The three bounds make four classes.                                      *)
LEMMA SizeOfThree ==
    ASSUME NEW A, A \subseteq 1..3
    PROVE  Cardinality(A) \in 0..3 /\ (Cardinality(A) = 0 <=> A = {})
<1>1. IsFiniteSet(1..3) /\ Cardinality(1..3) = 3
  <2>1. 1 \in Int /\ 3 \in Int
    OBVIOUS
  <2>2. IsFiniteSet(1..3) /\ Cardinality(1..3) = IF 1 > 3 THEN 0 ELSE 3 - 1 + 1
    BY <2>1, FS_Interval, Zenon
  <2>3. (IF 1 > 3 THEN 0 ELSE 3 - 1 + 1) = 3
    OBVIOUS
  <2> QED
    BY <2>2
<1>2. IsFiniteSet(A) /\ Cardinality(A) <= 3
  BY <1>1, FS_Subset
<1>3. Cardinality(A) \in Nat /\ (Cardinality(A) = 0 <=> A = {})
  BY <1>2, FS_CardinalityType, FS_EmptySet
<1> QED
  BY <1>2, <1>3

LEMMA ClassesOfBounds ==
    /\ \A x : DepthClass(x) \in 1..4 /\ ObservedClass(x) \in 1..4
    /\ \A x \in Int : DepthClass(x) = 1 <=> ~(x > DepthBounds[1])
<1> DEFINE Over(x) == {i \in 1..3 : x > DepthBounds[i]}
           Long(x) == {i \in 1..3 : x >= ObservedBounds[i]}
<1>1. \A x : /\ DepthClass(x) = 1 + Cardinality(Over(x))
             /\ ObservedClass(x) = 1 + Cardinality(Long(x))
  BY DEF DepthClass, ObservedClass
<1>2. \A x : Over(x) \subseteq 1..3 /\ Long(x) \subseteq 1..3
  OBVIOUS
<1>3. ASSUME NEW x \in Int PROVE Over(x) = {} <=> ~(x > DepthBounds[1])
  <2>1. /\ DepthBounds[1] \in Nat /\ DepthBounds[2] \in Nat /\ DepthBounds[3] \in Nat
        /\ DepthBounds[1] <= DepthBounds[2] /\ DepthBounds[2] <= DepthBounds[3]
    BY StatisticsAssumption
  <2>2. \A i \in 1..3 : i = 1 \/ i = 2 \/ i = 3
    OBVIOUS
  <2> QED
    BY <2>1, <2>2
<1> HIDE DEF Over, Long
<1>4. \A x : Cardinality(Over(x)) \in 0..3 /\ Cardinality(Long(x)) \in 0..3
  BY <1>2, SizeOfThree
<1>5. \A x \in Int : Cardinality(Over(x)) = 0 <=> ~(x > DepthBounds[1])
  BY <1>2, <1>3, SizeOfThree
<1> QED
  BY <1>1, <1>4, <1>5

(* The engagement metrics are made of the identified visitors of the        *)
(* window: how many visits each made, and how long it was observed.         *)
Known(V, s, n, today) == {v \in InWindow(V, s, n, today) : v.visitor # Anonymous}
Tracked(known) == {v.visitor : v \in known}
PageCount(known) == [w \in Tracked(known) |-> Cardinality({v \in known : v.visitor = w})]

Engages(e, known) ==
    /\ e.tracked = Cardinality(Tracked(known))
    /\ e.returning = Cardinality({w \in Tracked(known) : PageCount(known)[w] > DepthBounds[1]})
    /\ e.pages = IF e.tracked = 0 THEN 0 ELSE Hundredths(Cardinality(known), e.tracked)
    /\ e.depth = [k \in 1..4 |->
                     Cardinality({w \in Tracked(known) : DepthClass(PageCount(known)[w]) = k})]
    /\ \E c : e.observed = [k \in 1..4 |->
                  Cardinality({w \in Tracked(known) : ObservedClass(c[w]) = k})]

LEMMA EngagementIs ==
    ASSUME NEW V, NEW s, NEW today, NEW n \in 1..EngagementMax
    PROVE  Engages(VisitEngagement(V, s, n, today), Known(V, s, n, today))
<1>1. EngagementDays(n) = n
  BY StatisticsAssumption, WithinBounds DEF EngagementDays
<1> QED
  BY <1>1 DEF VisitEngagement, Engages, Known, Tracked, PageCount

Views(trend) == [i \in DOMAIN trend |-> trend[i].views]
Uniques(trend) == [i \in DOMAIN trend |-> trend[i].uniques]

(* Visitors of some days of a window are visitors of the window, and each   *)
(* visitor of the window is one of some day.                                *)
LEMMA TrendAgrees ==
    ASSUME NEW V, Readable(V), NEW s, NEW today \in Nat, \A v \in V : Day(v.at) <= today,
           NEW n \in 1..TrendMax, NEW rows, rows = InWindow(V, s, n, today),
           NEW trend, trend = VisitTrend(V, s, n, today)
    PROVE  /\ DOMAIN trend = 1..n
           /\ Total(Views(trend)) = Cardinality(rows)
           /\ \A i \in DOMAIN trend : trend[i].uniques <= Cardinality(VisitorsIn(rows))
           /\ Cardinality(VisitorsIn(rows)) <= Total(Uniques(trend))
<1> DEFINE d == DayPlaces(rows, n, today)
           days == 1..n
           views == Views(trend)
           uniques == Uniques(trend)
           C == [i \in days |-> VisitorsIn(Class(d, i))]
<1>1. n \in Nat \ {0} /\ n <= TrendMax
  BY StatisticsAssumption
<1>2. /\ IsFiniteSet(rows) /\ rows \subseteq V
      /\ d \in [rows -> days]
  BY <1>1, PlacesAre
<1>3. /\ DOMAIN trend = days
      /\ \A i \in days : /\ trend[i].views = Cardinality(Class(d, i))
                         /\ trend[i].uniques = Cardinality(VisitorsIn(Class(d, i)))
  BY TrendIs
<1>4. IsFiniteSet(days)
  BY <1>1, FS_Interval
<1>5. ASSUME NEW R, R \subseteq rows
      PROVE  /\ IsFiniteSet(VisitorsIn(R)) /\ Cardinality(VisitorsIn(R)) \in Nat
             /\ VisitorsIn(R) \subseteq VisitorsIn(rows)
  <2> DEFINE g == [v \in R |-> v.visitor]
  <2>1. IsFiniteSet(R)
    BY <1>2, <1>5, FS_Subset
  <2>2. {v.visitor : v \in R} = {g[v] : v \in R}
    OBVIOUS
  <2> HIDE DEF g
  <2>3. IsFiniteSet({v.visitor : v \in R})
    BY <2>1, <2>2, FiniteImage
  <2>4. IsFiniteSet(VisitorsIn(R))
    BY <2>3, FS_Difference DEF VisitorsIn
  <2> QED
    BY <1>5, <2>4, FS_CardinalityType DEF VisitorsIn
<1>6. \A i \in days : Class(d, i) \subseteq rows
  BY <1>2 DEF Class
<1>7. \A i \in days : C[i] = VisitorsIn(Class(d, i))
  OBVIOUS
<1>8. \A i \in days : uniques[i] = Cardinality(C[i]) /\ IsFiniteSet(C[i])
  BY <1>3, <1>5, <1>6 DEF Uniques
<1>9. DOMAIN uniques = days /\ DOMAIN views = days
  BY <1>3 DEF Views, Uniques
<1>10. \A i \in days : views[i] = Cardinality(Class(d, i))
  BY <1>3 DEF Views
<1>11. ASSUME NEW w \in VisitorsIn(rows) PROVE \E i \in days : w \in C[i]
  <2>1. PICK v \in rows : v.visitor = w /\ w # Anonymous
    BY DEF VisitorsIn
  <2>2. d[v] \in days /\ v \in Class(d, d[v])
    BY <1>2 DEF Class
  <2> QED
    BY <1>7, <2>1, <2>2 DEF VisitorsIn
<1>12. \A i \in days : trend[i].uniques <= Cardinality(VisitorsIn(rows))
  <2> SUFFICES ASSUME NEW i \in days PROVE trend[i].uniques <= Cardinality(VisitorsIn(rows))
    OBVIOUS
  <2>1. VisitorsIn(Class(d, i)) \in SUBSET VisitorsIn(rows)
    BY <1>5, <1>6
  <2> QED
    BY <1>3, <1>5, <2>1, FS_Subset
<1> HIDE DEF d, days, views, uniques, C
<1>13. Total(views) = Cardinality(rows)
  BY <1>2, <1>4, <1>9, <1>10, TotalOfClasses
<1>14. Cardinality(VisitorsIn(rows)) <= Total(uniques)
  BY <1>4, <1>8, <1>9, <1>11, TotalCovers
<1> QED
  BY <1>3, <1>12, <1>13, <1>14 DEF days, views, uniques

(* A distribution over the classes of I holds everyone once.                *)
LEMMA Distributes ==
    ASSUME NEW W, IsFiniteSet(W), NEW I, IsFiniteSet(I), NEW c \in [W -> I]
    PROVE  Total([k \in I |-> Cardinality({w \in W : c[w] = k})]) = Cardinality(W)
<1> DEFINE list == [k \in I |-> Cardinality({w \in W : c[w] = k})]
<1>1. DOMAIN list = I /\ \A k \in I : list[k] = Cardinality(Class(c, k))
  BY DEF Class
<1> HIDE DEF list
<1>2. Total(list) = Cardinality(W)
  BY <1>1, TotalOfClasses
<1> QED
  BY <1>2 DEF list

LEMMA FourClasses == IsFiniteSet(1..4)
<1>1. 1 \in Int /\ 4 \in Int
  OBVIOUS
<1> QED
  BY <1>1, FS_Interval, Zenon

LEMMA EngagementAgrees ==
    ASSUME NEW V, Readable(V), NEW s, NEW today \in Nat, \A v \in V : Day(v.at) <= today,
           NEW n \in 1..EngagementMax, NEW rows, rows = InWindow(V, s, n, today),
           NEW e, e = VisitEngagement(V, s, n, today)
    PROVE  /\ e.tracked = Cardinality(VisitorsIn(rows))
           /\ e.tracked <= UniqueVisitorCount(V, s)
           /\ Total(e.depth) = e.tracked
           /\ Total(e.observed) = e.tracked
           /\ e.returning = e.tracked - e.depth[1]
           /\ e.pages * e.tracked <= 100 * Cardinality(rows) + e.tracked
<1> DEFINE known == Known(V, s, n, today)
           visitors == Tracked(known)
           count == PageCount(known)
           depth == [w \in visitors |-> DepthClass(count[w])]
           t == Cardinality(visitors)
<1>1. n \in Nat \ {0} /\ n <= EngagementMax
  BY StatisticsAssumption
<1>2. rows \subseteq Human(V, s) /\ Human(V, s) \subseteq V
  BY DEF InWindow, Human
<1>3. /\ IsFiniteSet(known) /\ Cardinality(known) \in Nat
      /\ Cardinality(rows) \in Nat /\ Cardinality(known) <= Cardinality(rows)
  <2>1. known \in SUBSET rows
    BY DEF Known
  <2>2. IsFiniteSet(rows) /\ Cardinality(rows) \in Nat
    BY <1>2, FiniteRows
  <2> HIDE DEF known
  <2> QED
    BY <2>1, <2>2, FS_Subset, FS_CardinalityType
<1>4. visitors = VisitorsIn(rows)
  BY DEF VisitorsIn, Known, Tracked
<1>5. IsFiniteSet(visitors) /\ t \in Nat
  <2> DEFINE g == [v \in known |-> v.visitor]
  <2>1. visitors = {g[v] : v \in known}
    BY DEF Tracked
  <2> HIDE DEF g, known, visitors
  <2> QED
    BY <1>3, <2>1, FiniteImage, FS_CardinalityType
<1>6. Engages(e, known)
  BY EngagementIs
<1>7. ASSUME NEW w \in visitors PROVE count[w] \in Int
  <2>1. {v \in known : v.visitor = w} \in SUBSET known
    OBVIOUS
  <2> HIDE DEF known
  <2>2. Cardinality({v \in known : v.visitor = w}) \in Nat
    BY <1>3, <2>1, FS_Subset, FS_CardinalityType
  <2> QED
    BY <2>2 DEF PageCount
<1>8. t <= UniqueVisitorCount(V, s)
  <2> DEFINE all == {v.visitor : v \in Human(V, s)}
             g == [v \in Human(V, s) |-> v.visitor]
  <2>1. IsFiniteSet(Human(V, s))
    BY <1>2, FiniteRows
  <2>2. all = {g[v] : v \in Human(V, s)}
    OBVIOUS
  <2>3. visitors \in SUBSET (all \ {Anonymous})
    BY <1>2 DEF Known, Tracked
  <2>4. UniqueVisitorCount(V, s) = Cardinality(all \ {Anonymous})
    BY DEF UniqueVisitorCount
  <2> HIDE DEF all, g, visitors
  <2>5. IsFiniteSet(all)
    BY <2>1, <2>2, FiniteImage
  <2>6. IsFiniteSet(all \ {Anonymous})
    BY <2>5, FS_Difference
  <2> QED
    BY <2>3, <2>4, <2>6, FS_Subset
<1> HIDE DEF known, visitors, count
<1>9. Total(e.depth) = t
  <2>1. depth \in [visitors -> 1..4]
    BY ClassesOfBounds
  <2>2. e.depth = [k \in 1..4 |-> Cardinality({w \in visitors : depth[w] = k})]
    BY <1>6 DEF Engages, visitors, count
  <2> DEFINE four == 1..4
  <2>3. IsFiniteSet(four)
    BY FourClasses
  <2>4. depth \in [visitors -> four]
    BY <2>1
  <2>5. e.depth = [k \in four |-> Cardinality({w \in visitors : depth[w] = k})]
    BY <2>2
  <2> HIDE DEF depth, four
  <2>6. Total([k \in four |-> Cardinality({w \in visitors : depth[w] = k})]) = Cardinality(visitors)
    BY <1>5, <2>3, <2>4, Distributes
  <2> QED
    BY <2>5, <2>6 DEF t
<1>10. Total(e.observed) = t
  <2>1. PICK c : e.observed = [k \in 1..4 |->
                     Cardinality({w \in visitors : ObservedClass(c[w]) = k})]
    BY <1>6 DEF Engages, visitors, count
  <2> DEFINE observed == [w \in visitors |-> ObservedClass(c[w])]
  <2>2. observed \in [visitors -> 1..4]
    BY ClassesOfBounds
  <2>3. e.observed = [k \in 1..4 |-> Cardinality({w \in visitors : observed[w] = k})]
    BY <2>1
  <2> DEFINE four == 1..4
  <2>4. IsFiniteSet(four)
    BY FourClasses
  <2>5. observed \in [visitors -> four]
    BY <2>2
  <2>6. e.observed = [k \in four |-> Cardinality({w \in visitors : observed[w] = k})]
    BY <2>3
  <2> HIDE DEF observed, four
  <2>7. Total([k \in four |-> Cardinality({w \in visitors : observed[w] = k})]) = Cardinality(visitors)
    BY <1>5, <2>4, <2>5, Distributes
  <2> QED
    BY <2>6, <2>7 DEF t
<1>11. e.returning = t - e.depth[1]
  <2> DEFINE once == {w \in visitors : DepthClass(count[w]) = 1}
  <2>1. {w \in visitors : count[w] > DepthBounds[1]} = visitors \ once
    BY <1>7, ClassesOfBounds
  <2>2. visitors \cap once = once
    OBVIOUS
  <2>3. Cardinality(visitors \ once) = t - Cardinality(once)
    <3> HIDE DEF once
    <3> QED
      BY <1>5, <2>2, FS_Difference
  <2>4. e.depth[1] = Cardinality(once)
    BY <1>6 DEF Engages, visitors, count
  <2> QED
    BY <1>6, <2>1, <2>3, <2>4 DEF Engages, visitors, count
<1> HIDE DEF t
<1>12. e.pages * t <= 100 * Cardinality(rows) + t
  <2>1. CASE t = 0
    BY <1>3, <1>6, <2>1 DEF Engages, visitors, count, t
  <2>2. CASE t # 0
    <3> DEFINE p == Hundredths(Cardinality(known), t)
    <3>1. e.pages = p
      BY <1>6, <2>2 DEF Engages, visitors, count, t
    <3>2. p \in Int /\ p * t <= 100 * Cardinality(known) + t
      BY <1>3, <1>5, <2>2, HundredthsBound
    <3> HIDE DEF p
    <3>3. p * t \in Int
      BY <1>5, <3>2
    <3> QED
      BY <1>3, <1>5, <3>1, <3>2, <3>3
  <2> QED
    BY <2>1, <2>2
<1> QED
  BY <1>4, <1>6, <1>8, <1>9, <1>10, <1>11, <1>12 DEF Engages, visitors, count, t

LEMMA WindowsAlwaysAgree ==
    ASSUME NEW V, Readable(V), NEW s, NEW today \in Nat, \A v \in V : Day(v.at) <= today,
           NEW n \in 1..Min({TrendMax, EngagementMax})
    PROVE  WindowsAgree(V, s, n, today)
<1> DEFINE rows == InWindow(V, s, n, today)
           trend == VisitTrend(V, s, n, today)
           e == VisitEngagement(V, s, n, today)
<1>1. n \in 1..TrendMax /\ n \in 1..EngagementMax /\ n \in Nat \ {0}
  BY StatisticsAssumption, Smaller
<1>2. rows = {v \in Human(V, s) : today - Day(v.at) < n}
  BY <1>1, PlacesAre
<1>3. /\ Total(Views(trend)) = Cardinality(rows)
      /\ \A i \in DOMAIN trend : trend[i].uniques <= Cardinality(VisitorsIn(rows))
      /\ Cardinality(VisitorsIn(rows)) <= Total(Uniques(trend))
  BY <1>1, TrendAgrees
<1>4. /\ e.tracked = Cardinality(VisitorsIn(rows))
      /\ e.tracked <= UniqueVisitorCount(V, s)
      /\ Total(e.depth) = e.tracked
      /\ Total(e.observed) = e.tracked
      /\ e.returning = e.tracked - e.depth[1]
      /\ e.pages * e.tracked <= 100 * Cardinality(rows) + e.tracked
  BY <1>1, EngagementAgrees
<1> HIDE DEF rows, trend, e
<1> QED
  BY <1>2, <1>3, <1>4 DEF WindowsAgree, trend, e, Views, Uniques

================================================================================
