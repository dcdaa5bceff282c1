------------------------- MODULE SeccompFilterProofs -------------------------
(***************************************************************************)
(* Proofs about SeccompFilter, for any presets, any numbers, any sequence  *)
(* of builder calls and any width of a jump.                               *)
(***************************************************************************)
EXTENDS SeccompFilter, FiniteSetTheorems, SequenceTheorems, NaturalsInduction,
        WellFoundedInduction, TLAPS

-----------------------------------------------------------------------------
(* Order: what the sort, the selections and the presets are made of        *)

StrictOrder(S, R) ==
  /\ \A x \in S : <<x, x>> \notin R
  /\ \A x, y, z \in S : <<x, y>> \in R /\ <<y, z>> \in R => <<x, z>> \in R
  /\ \A x, y \in S : x # y => <<x, y>> \in R \/ <<y, x>> \in R

(* The elements before x in a finite strict order are fewer than those     *)
(* before a later one, and fewer than all.                                 *)
LEMMA RanksGrow ==
  ASSUME NEW S, IsFiniteSet(S), NEW R, StrictOrder(S, R), NEW x \in S
  PROVE  /\ Cardinality({z \in S : <<z, x>> \in R}) \in 0..(Cardinality(S) - 1)
         /\ \A y \in S : <<x, y>> \in R =>
              Cardinality({z \in S : <<z, x>> \in R}) < Cardinality({z \in S : <<z, y>> \in R})
  <1> DEFINE Before(y) == {z \in S : <<z, y>> \in R}
  <1>1. ASSUME NEW T \in SUBSET S, x \in T, Before(x) \subseteq T
        PROVE  /\ Cardinality(Before(x)) \in Nat /\ Cardinality(T) \in Nat
               /\ Cardinality(Before(x)) < Cardinality(T)
    <2>1. IsFiniteSet(T)
      BY <1>1, FS_Subset
    <2>2. IsFiniteSet(T \ {x}) /\ Cardinality(T \ {x}) = Cardinality(T) - 1
      BY <1>1, <2>1, FS_RemoveElement
    <2>3. Before(x) \in SUBSET (T \ {x})
      BY <1>1 DEF StrictOrder
    <2>4. IsFiniteSet(Before(x)) /\ Cardinality(Before(x)) <= Cardinality(T \ {x})
      BY <2>2, <2>3, FS_Subset
    <2>5. Cardinality(Before(x)) \in Nat /\ Cardinality(T) \in Nat
      BY <2>1, <2>4, FS_CardinalityType
    <2> QED BY <2>2, <2>4, <2>5
  <1>2. /\ Cardinality(Before(x)) \in Nat /\ Cardinality(S) \in Nat
        /\ Cardinality(Before(x)) < Cardinality(S)
    BY <1>1
  <1>3. ASSUME NEW y \in S, <<x, y>> \in R
        PROVE  Cardinality(Before(x)) < Cardinality(Before(y))
    <2>1. x \in Before(y) /\ Before(x) \subseteq Before(y) /\ Before(y) \in SUBSET S
      BY <1>3 DEF StrictOrder
    <2> QED BY <1>1, <2>1
  <1> QED BY <1>2, <1>3

(* InOrder lists every element of the set once, in order.                  *)
LEMMA ListedInOrder ==
  ASSUME NEW S, IsFiniteSet(S), NEW R, StrictOrder(S, R)
  PROVE  /\ Cardinality(S) \in Nat
         /\ InOrder(S, R) \in [1..Cardinality(S) -> S]
         /\ \A x \in S : \E k \in 1..Cardinality(S) : InOrder(S, R)[k] = x
         /\ \A j, k \in 1..Cardinality(S) :
              j < k => <<InOrder(S, R)[j], InOrder(S, R)[k]>> \in R
  <1> DEFINE n == Cardinality(S)
             rank == [x \in S |-> Cardinality({z \in S : <<z, x>> \in R})]
             e == InOrder(S, R)
  <1>1. n \in Nat
    BY FS_CardinalityType
  <1>2. rank \in [S -> 0..(n - 1)]
    BY RanksGrow
  <1>3. \A x, y \in S : <<x, y>> \in R => rank[x] < rank[y]
    BY RanksGrow
  <1>4. \A x, y \in S : rank[x] = rank[y] => x = y
    <2> HIDE DEF rank, n, e
    <2> SUFFICES ASSUME NEW x \in S, NEW y \in S, rank[x] = rank[y], x # y PROVE FALSE
      OBVIOUS
    <2>1. rank[x] \in Int /\ rank[y] \in Int
      BY <1>1, <1>2
    <2>2. <<x, y>> \in R \/ <<y, x>> \in R
      BY DEF StrictOrder
    <2> QED BY <1>3, <2>1, <2>2
  <1>5. \A k \in 0..(n - 1) : \E x \in S : rank[x] = k
    <2> HIDE DEF rank
    <2>1. rank \in Injection(S, 0..(n - 1))
      BY <1>2, <1>4 DEF Injection, IsInjective
    <2>2. IsFiniteSet(0..(n - 1)) /\ Cardinality(0..(n - 1)) = n
      BY <1>1, FS_Interval
    <2>3. rank \in Surjection(S, 0..(n - 1))
      BY <2>1, <2>2, FS_Injection
    <2> QED BY <2>3 DEF Surjection
  <1>6. \A k \in 1..n : e[k] \in S /\ rank[e[k]] = k - 1
    <2> SUFFICES ASSUME NEW k \in 1..n PROVE e[k] \in S /\ rank[e[k]] = k - 1
      OBVIOUS
    <2>1. e[k] = CHOOSE x \in S : Cardinality({y \in S : <<y, x>> \in R}) = k - 1
      BY DEF InOrder
    <2>2. k - 1 \in 0..(n - 1)
      BY <1>1
    <2>3. \E x \in S : Cardinality({y \in S : <<y, x>> \in R}) = k - 1
      BY <1>5, <2>2
    <2>4. e[k] \in S /\ Cardinality({y \in S : <<y, e[k]>> \in R}) = k - 1
      BY <2>1, <2>3
    <2> QED BY <2>4
  <1>7. e \in [1..n -> S]
    BY <1>6 DEF InOrder
  <1> HIDE DEF rank, e
  <1>8. \A x \in S : \E k \in 1..n : e[k] = x
    <2> TAKE x \in S
    <2>1. rank[x] + 1 \in 1..n /\ (rank[x] + 1) - 1 = rank[x]
      BY <1>1, <1>2
    <2>2. e[rank[x] + 1] = x
      BY <1>4, <1>6, <2>1
    <2> QED BY <2>1, <2>2
  <1>9. \A j, k \in 1..n : j < k => <<e[j], e[k]>> \in R
    <2> SUFFICES ASSUME NEW j \in 1..n, NEW k \in 1..n, j < k PROVE <<e[j], e[k]>> \in R
      OBVIOUS
    <2>1. e[j] \in S /\ e[k] \in S /\ rank[e[j]] = j - 1 /\ rank[e[k]] = k - 1
      BY <1>6
    <2>2. e[j] # e[k] /\ ~(rank[e[k]] < rank[e[j]])
      BY <1>1, <2>1
    <2> QED BY <1>3, <2>1, <2>2 DEF StrictOrder
  <1> QED BY <1>1, <1>7, <1>8, <1>9 DEF e

(* Ascending lists a finite set of numbers in ascending order.             *)
LEMMA ListedAscending ==
  ASSUME NEW S \in SUBSET Nat, IsFiniteSet(S)
  PROVE  /\ Cardinality(S) \in Nat
         /\ Ascending(S) \in [1..Cardinality(S) -> S]
         /\ \A x \in S : \E k \in 1..Cardinality(S) : Ascending(S)[k] = x
         /\ \A j, k \in 1..Cardinality(S) : j < k => Ascending(S)[j] < Ascending(S)[k]
  <1> DEFINE less == {p \in S \X S : p[1] < p[2]}
  <1>1. StrictOrder(S, less)
    BY DEF StrictOrder
  <1>2. \A m, n : <<m, n>> \in less => m < n
    OBVIOUS
  <1>3. Ascending(S) = InOrder(S, less)
    BY DEF Ascending
  <1> HIDE DEF less
  <1> DEFINE e == InOrder(S, less)
  <1>4. /\ Cardinality(S) \in Nat /\ e \in [1..Cardinality(S) -> S]
        /\ \A x \in S : \E k \in 1..Cardinality(S) : e[k] = x
        /\ \A j, k \in 1..Cardinality(S) : j < k => <<e[j], e[k]>> \in less
    BY <1>1, ListedInOrder
  <1> HIDE DEF e
  <1>5. \A j, k \in 1..Cardinality(S) : j < k => e[j] < e[k]
    BY <1>2, <1>4
  <1> QED BY <1>3, <1>4, <1>5 DEF e

-----------------------------------------------------------------------------
(* The builder: what its list of rules asks for                            *)

Rules == [nr : Numbers, action : Actions]

Wishes == [Numbers -> Actions \cup {"none"}]

(* Rule i is the last one for its number.                                  *)
IsLast(rs, i) == \A j \in DOMAIN rs : j > i => rs[j].nr # rs[i].nr

(* The last rule of each number is what w has for it.                      *)
Tells(rs, w) ==
  \A n \in Numbers :
    IF w[n] = "none" THEN \A i \in DOMAIN rs : rs[i].nr # n
    ELSE \E i \in DOMAIN rs : rs[i] = Rule(n, w[n]) /\ IsLast(rs, i)

(* A builder without rules asks for nothing.                               *)
LEMMA EmptyTells ==
  ASSUME NEW w \in Wishes, \A n \in Numbers : w[n] = "none"
  PROVE  <<>> \in Seq(Rules) /\ Tells(<<>>, w)
  BY DEF Tells

(* A rule that add_rule appends becomes what is asked for its number, and  *)
(* leaves the others as they were.                                         *)
LEMMA AddedTells ==
  ASSUME NEW rs \in Seq(Rules), NEW w \in Wishes, Tells(rs, w),
         NEW n \in Numbers, NEW a \in Actions
  PROVE  /\ Append(rs, Rule(n, a)) \in Seq(Rules)
         /\ [w EXCEPT ![n] = a] \in Wishes
         /\ Tells(Append(rs, Rule(n, a)), [w EXCEPT ![n] = a])
  <1> DEFINE r == Rule(n, a)
             more == Append(rs, r)
             asked == [w EXCEPT ![n] = a]
  <1>1. r \in Rules /\ r.nr = n /\ a # "none"
    BY DEF Rule, Rules, Actions
  <1> HIDE DEF r
  <1>2. /\ more \in Seq(Rules) /\ Len(more) = Len(rs) + 1 /\ Len(rs) \in Nat
        /\ DOMAIN more = 1..(Len(rs) + 1) /\ DOMAIN rs = 1..Len(rs)
        /\ more[Len(rs) + 1] = r /\ \A i \in 1..Len(rs) : more[i] = rs[i]
    BY <1>1
  <1>3. asked \in Wishes /\ asked[n] = a /\ \A m \in Numbers \ {n} : asked[m] = w[m]
    BY DEF Wishes
  <1> HIDE DEF more, asked
  <1>4. ASSUME NEW m \in Numbers, asked[m] = "none"
        PROVE  \A i \in DOMAIN more : more[i].nr # m
    <2>1. m # n /\ w[m] = "none"
      BY <1>1, <1>3, <1>4
    <2>2. \A i \in DOMAIN rs : rs[i].nr # m
      BY <2>1 DEF Tells
    <2> QED BY <1>1, <1>2, <2>1, <2>2
  <1>5. ASSUME NEW m \in Numbers, asked[m] # "none"
        PROVE  \E i \in DOMAIN more : more[i] = Rule(m, asked[m]) /\ IsLast(more, i)
    <2>1. CASE m = n
      <3>1. IsLast(more, Len(rs) + 1)
        BY <1>2 DEF IsLast
      <3>2. more[Len(rs) + 1] = Rule(m, asked[m])
        BY <1>2, <1>3, <2>1 DEF r
      <3> QED BY <1>2, <3>1, <3>2
    <2>2. CASE m # n
      <3>1. w[m] # "none" /\ asked[m] = w[m]
        BY <1>3, <1>5, <2>2
      <3>2. PICK i \in DOMAIN rs : rs[i] = Rule(m, w[m]) /\ IsLast(rs, i)
        BY <3>1 DEF Tells
      <3>3. rs[i].nr = m /\ more[i] = rs[i] /\ i \in DOMAIN more
        BY <1>2, <3>2 DEF Rule
      <3>4. IsLast(more, i)
        BY <1>1, <1>2, <2>2, <3>2, <3>3 DEF IsLast
      <3> QED BY <3>1, <3>2, <3>3, <3>4
    <2> QED BY <2>1, <2>2
  <1>6. Tells(more, asked)
    BY <1>4, <1>5 DEF Tells
  <1> QED BY <1>2, <1>3, <1>6 DEF more, asked, r

(* The rules at some positions, in their order                             *)
LEMMA SelectedRules ==
  ASSUME NEW rs \in Seq(Rules), NEW I \in SUBSET (DOMAIN rs)
  PROVE  /\ Cardinality(I) \in Nat
         /\ Ascending(I) \in [1..Cardinality(I) -> I]
         /\ \A i \in I : \E k \in 1..Cardinality(I) : Ascending(I)[k] = i
         /\ \A j, k \in 1..Cardinality(I) : j < k => Ascending(I)[j] < Ascending(I)[k]
         /\ At(rs, Ascending(I)) \in Seq(Rules)
         /\ DOMAIN At(rs, Ascending(I)) = 1..Cardinality(I)
         /\ \A k \in 1..Cardinality(I) : At(rs, Ascending(I))[k] = rs[Ascending(I)[k]]
  <1> DEFINE e == Ascending(I)
             c == Cardinality(I)
  <1>1. Len(rs) \in Nat /\ DOMAIN rs = 1..Len(rs) /\ \A i \in DOMAIN rs : rs[i] \in Rules
    BY ElementOfSeq
  <1>2. I \in SUBSET Nat
    BY <1>1
  <1>3. IsFiniteSet(I)
    <2>1. IsFiniteSet(1..Len(rs)) /\ I \in SUBSET (1..Len(rs))
      BY <1>1, FS_Interval
    <2> QED BY <2>1, FS_Subset
  <1>4. /\ c \in Nat /\ e \in [1..c -> I]
        /\ \A i \in I : \E k \in 1..c : e[k] = i
        /\ \A j, k \in 1..c : j < k => e[j] < e[k]
    BY <1>2, <1>3, ListedAscending
  <1> HIDE DEF e, c
  <1>5. At(rs, e) = [k \in 1..c |-> rs[e[k]]]
    BY <1>4 DEF At
  <1>6. \A k \in 1..c : rs[e[k]] \in Rules
    BY <1>1, <1>4
  <1>7. /\ At(rs, e) \in Seq(Rules) /\ DOMAIN At(rs, e) = 1..c
        /\ \A k \in 1..c : At(rs, e)[k] = rs[e[k]]
    BY <1>4, <1>5, <1>6
  <1> QED BY <1>4, <1>7 DEF e, c

(* After remove nothing is asked for the number; the order of the other    *)
(* rules, and so their last one, stays.                                    *)
LEMMA RemovedTells ==
  ASSUME NEW rs \in Seq(Rules), NEW w \in Wishes, Tells(rs, w), NEW n \in Numbers
  PROVE  LET I == {i \in DOMAIN rs : rs[i].nr # n}
         IN  /\ At(rs, Ascending(I)) \in Seq(Rules)
             /\ [w EXCEPT ![n] = "none"] \in Wishes
             /\ Tells(At(rs, Ascending(I)), [w EXCEPT ![n] = "none"])
  <1> DEFINE I == {i \in DOMAIN rs : rs[i].nr # n}
             e == Ascending(I)
             c == Cardinality(I)
             less == At(rs, e)
             asked == [w EXCEPT ![n] = "none"]
  <1>1. I \in SUBSET (DOMAIN rs) /\ \A i \in I : rs[i].nr # n
    OBVIOUS
  <1>2. \A i \in DOMAIN rs : rs[i].nr # n => i \in I
    OBVIOUS
  <1> HIDE DEF I
  <1>3. /\ c \in Nat /\ e \in [1..c -> I]
        /\ \A i \in I : \E k \in 1..c : e[k] = i
        /\ \A j, k \in 1..c : j < k => e[j] < e[k]
        /\ less \in Seq(Rules) /\ DOMAIN less = 1..c
        /\ \A k \in 1..c : less[k] = rs[e[k]]
    BY <1>1, SelectedRules
  <1>4. asked \in Wishes /\ asked[n] = "none" /\ \A m \in Numbers \ {n} : asked[m] = w[m]
    BY DEF Wishes
  <1> HIDE DEF e, c, less, asked
  <1>5. ASSUME NEW m \in Numbers, asked[m] = "none"
        PROVE  \A i \in DOMAIN less : less[i].nr # m
    <2>1. CASE m = n
      BY <1>1, <1>3, <2>1
    <2>2. CASE m # n
      <3>1. \A i \in DOMAIN rs : rs[i].nr # m
        BY <1>4, <1>5, <2>2 DEF Tells
      <3> QED BY <1>1, <1>3, <3>1
    <2> QED BY <2>1, <2>2
  <1>6. ASSUME NEW m \in Numbers, asked[m] # "none"
        PROVE  \E k \in DOMAIN less : less[k] = Rule(m, asked[m]) /\ IsLast(less, k)
    <2>1. m # n /\ asked[m] = w[m]
      BY <1>4, <1>6
    <2>2. PICK i \in DOMAIN rs : rs[i] = Rule(m, w[m]) /\ IsLast(rs, i)
      BY <1>6, <2>1 DEF Tells
    <2>3. rs[i].nr = m
      BY <2>2 DEF Rule
    <2>4. PICK k \in 1..c : e[k] = i
      BY <1>2, <1>3, <2>1, <2>3
    <2>5. ASSUME NEW j \in 1..c, j > k PROVE less[j].nr # m
      <3>1. e[j] \in DOMAIN rs /\ e[j] > i
        BY <1>1, <1>3, <2>4, <2>5
      <3> QED BY <1>3, <2>2, <2>3, <3>1 DEF IsLast
    <2>6. less[k] = rs[i] /\ IsLast(less, k)
      BY <1>3, <2>3, <2>4, <2>5 DEF IsLast
    <2> QED BY <1>3, <2>1, <2>2, <2>6
  <1>7. Tells(less, asked)
    BY <1>5, <1>6 DEF Tells
  <1> QED BY <1>3, <1>4, <1>7 DEF I, e, less, asked

(* A preset adds a rule for each of its numbers.                           *)
LEMMA PresetTells ==
  ASSUME NEW rs \in Seq(Rules), NEW w \in Wishes, Tells(rs, w),
         NEW S \in SUBSET Numbers, NEW a \in Actions
  PROVE  LET asked == [n \in Numbers |-> IF n \in S THEN a ELSE w[n]]
         IN  /\ RulesFor(S, a) \in Seq(Rules)
             /\ rs \o RulesFor(S, a) \in Seq(Rules)
             /\ asked \in Wishes
             /\ Tells(rs \o RulesFor(S, a), asked)
  <1> DEFINE asked == [n \in Numbers |-> IF n \in S THEN a ELSE w[n]]
             c == Cardinality(S)
             e == Ascending(S)
             new == RulesFor(S, a)
             more == rs \o new
             l == Len(rs)
  <1>1. S \in SUBSET Nat /\ IsFiniteSet(S)
    BY SeccompAssumption, FS_Subset
  <1>2. /\ c \in Nat /\ e \in [1..c -> S]
        /\ \A n \in S : \E k \in 1..c : e[k] = n
        /\ \A j, k \in 1..c : j < k => e[j] < e[k]
    BY <1>1, ListedAscending
  <1>3. a # "none"
    BY DEF Actions
  <1>4. new = [k \in 1..c |-> Rule(e[k], a)]
    BY DEF RulesFor
  <1> HIDE DEF c, e, new
  <1>5. \A k \in 1..c : Rule(e[k], a) \in Rules /\ Rule(e[k], a).nr = e[k]
    BY <1>2 DEF Rule, Rules
  <1>6. new \in Seq(Rules) /\ Len(new) = c /\ \A k \in 1..c : new[k] = Rule(e[k], a)
    BY <1>2, <1>4, <1>5
  <1>7. /\ more \in Seq(Rules) /\ l \in Nat
        /\ DOMAIN rs = 1..l /\ DOMAIN more = 1..(l + c)
        /\ \A i \in 1..l : more[i] = rs[i]
        /\ \A k \in 1..c : more[l + k] = Rule(e[k], a)
    <2>1. /\ more \in Seq(Rules) /\ l \in Nat /\ Len(more) = l + c
          /\ DOMAIN rs = 1..l
      <3> HIDE DEF c, e, new, asked
      <3>1. new \in Seq(Rules) /\ Len(new) = c
        BY <1>6
      <3> QED BY <3>1
    <2>2. DOMAIN more = 1..(l + c)
      BY <2>1
    <2>3. \A i \in 1..(l + c) : more[i] = IF i <= l THEN rs[i] ELSE new[i - l]
      <3> HIDE DEF c
      <3> QED BY <1>6
    <2>4. ASSUME NEW k \in 1..c
          PROVE  l + k \in 1..(l + c) /\ ~(l + k <= l) /\ (l + k) - l = k
      BY <1>2, <2>1
    <2>5. \A i \in 1..l : i \in 1..(l + c) /\ i <= l
      BY <1>2, <2>1
    <2> HIDE DEF more, l
    <2> QED BY <1>6, <2>1, <2>2, <2>3, <2>4, <2>5
  <1>8. asked \in Wishes
    BY DEF Wishes
  <1>9. \A n \in Numbers : asked[n] = IF n \in S THEN a ELSE w[n]
    OBVIOUS
  <1> HIDE DEF asked, more, l
  <1>10. \A i \in DOMAIN more : i \notin 1..l =>
           \E k \in 1..c : i = l + k /\ more[i].nr = e[k] /\ e[k] \in S
    <2> TAKE i \in DOMAIN more
    <2>1. i \notin 1..l => i - l \in 1..c /\ i = l + (i - l)
      BY <1>2, <1>7
    <2> QED BY <1>2, <1>5, <1>7, <2>1
  <1>11. ASSUME NEW n \in Numbers, asked[n] = "none"
         PROVE  \A i \in DOMAIN more : more[i].nr # n
    <2>1. n \notin S /\ w[n] = "none"
      BY <1>3, <1>9, <1>11
    <2>2. \A i \in DOMAIN rs : rs[i].nr # n
      BY <2>1 DEF Tells
    <2> QED BY <1>7, <1>10, <2>1, <2>2
  <1>12. ASSUME NEW n \in Numbers, asked[n] # "none"
         PROVE  \E i \in DOMAIN more : more[i] = Rule(n, asked[n]) /\ IsLast(more, i)
    <2>1. CASE n \in S
      <3>1. PICK k \in 1..c : e[k] = n
        BY <1>2, <2>1
      <3>2. l + k \in DOMAIN more /\ more[l + k] = Rule(n, asked[n]) /\ more[l + k].nr = n
        BY <1>2, <1>5, <1>7, <1>9, <2>1, <3>1
      <3>3. ASSUME NEW i \in DOMAIN more, i > l + k PROVE more[i].nr # n
        <4> i \notin 1..l
          BY <1>2, <1>7, <3>3
        <4>1. PICK j \in 1..c : i = l + j
          BY <1>10
        <4>2. l \in Nat /\ k \in Nat /\ j \in Nat
          BY <1>2, <1>7
        <4>3. k < j
          BY <3>3, <4>1, <4>2
        <4>4. more[i].nr = e[j]
          BY <1>5, <1>7, <4>1
        <4>5. e[k] < e[j]
          BY <1>2, <4>3
        <4>6. e[k] \in Nat /\ e[j] \in Nat
          BY <1>1, <1>2
        <4> QED BY <3>1, <4>4, <4>5, <4>6
      <3>4. IsLast(more, l + k)
        BY <3>2, <3>3 DEF IsLast
      <3> QED BY <3>2, <3>4
    <2>2. CASE n \notin S
      <3>1. w[n] # "none" /\ asked[n] = w[n]
        BY <1>9, <1>12, <2>2
      <3>2. PICK i \in DOMAIN rs : rs[i] = Rule(n, w[n]) /\ IsLast(rs, i)
        BY <3>1 DEF Tells
      <3>3. rs[i].nr = n /\ more[i] = rs[i] /\ i \in DOMAIN more
        BY <1>2, <1>7, <3>2 DEF Rule
      <3>4. ASSUME NEW j \in DOMAIN more, j > i PROVE more[j].nr # n
        <4>1. CASE j \in 1..l
          BY <1>7, <3>2, <3>3, <3>4, <4>1 DEF IsLast
        <4>2. CASE j \notin 1..l
          BY <1>10, <2>2, <4>2
        <4> QED BY <4>1, <4>2
      <3>5. IsLast(more, i)
        BY <3>3, <3>4 DEF IsLast
      <3> QED BY <3>1, <3>2, <3>3, <3>5
    <2> QED BY <2>1, <2>2
  <1>13. Tells(more, asked)
    BY <1>11, <1>12 DEF Tells
  <1> QED BY <1>6, <1>7, <1>8, <1>13 DEF asked, more, new

-----------------------------------------------------------------------------
(* Sorting and deduplication: the last rule of each number remains.        *)

(* A table has the rule that w asks for each number, in ascending order.   *)
Table(d, w) ==
  /\ d \in Seq(Rules)
  /\ \A i, j \in DOMAIN d : i < j => d[i].nr < d[j].nr
  /\ \A i \in DOMAIN d : w[d[i].nr] # "none" /\ d[i].action = w[d[i].nr]
  /\ \A n \in Numbers : w[n] # "none" => \E i \in DOMAIN d : d[i].nr = n

(* The sort moves every rule to one place; equal numbers keep their order. *)
LEMMA SortIsStable ==
  ASSUME NEW rs \in Seq(Rules)
  PROVE  \E at \in [1..Len(rs) -> 1..Len(rs)] :
           /\ Sorted(rs) \in Seq(Rules) /\ Len(Sorted(rs)) = Len(rs)
           /\ \A k \in 1..Len(rs) : Sorted(rs)[k] = rs[at[k]]
           /\ \A i \in 1..Len(rs) : \E k \in 1..Len(rs) : at[k] = i
           /\ \A j, k \in 1..Len(rs) : j < k =>
                \/ rs[at[j]].nr < rs[at[k]].nr
                \/ rs[at[j]].nr = rs[at[k]].nr /\ at[j] < at[k]
  <1> DEFINE n == Len(rs)
             R == Stably(rs)
             at == InOrder(1..n, R)
  <1>1. n \in Nat /\ DOMAIN rs = 1..n /\ \A i \in 1..n : rs[i] \in Rules
    BY ElementOfSeq
  <1>2. \A i \in 1..n : rs[i].nr \in Nat
    BY <1>1, SeccompAssumption DEF Rules
  <1>3. \A i, j \in 1..n : <<i, j>> \in R <=>
          \/ rs[i].nr < rs[j].nr
          \/ rs[i].nr = rs[j].nr /\ i < j
    BY <1>1 DEF Stably
  <1> HIDE DEF n, R, at
  <1>4. StrictOrder(1..n, R)
    <2>1. \A i \in 1..n : <<i, i>> \notin R
      BY <1>1, <1>2, <1>3
    <2>2. ASSUME NEW i \in 1..n, NEW j \in 1..n, NEW k \in 1..n,
                 <<i, j>> \in R, <<j, k>> \in R
          PROVE  <<i, k>> \in R
      <3>1. rs[i].nr \in Nat /\ rs[j].nr \in Nat /\ rs[k].nr \in Nat
        BY <1>2
      <3>2. /\ rs[i].nr < rs[j].nr \/ (rs[i].nr = rs[j].nr /\ i < j)
            /\ rs[j].nr < rs[k].nr \/ (rs[j].nr = rs[k].nr /\ j < k)
        BY <1>3, <2>2
      <3>3. rs[i].nr < rs[k].nr \/ (rs[i].nr = rs[k].nr /\ i < k)
        BY <1>1, <3>1, <3>2
      <3> QED BY <1>3, <3>3
    <2>3. ASSUME NEW i \in 1..n, NEW j \in 1..n, i # j
          PROVE  <<i, j>> \in R \/ <<j, i>> \in R
      <3>1. rs[i].nr \in Nat /\ rs[j].nr \in Nat
        BY <1>2
      <3>2. i < j \/ j < i
        BY <1>1, <2>3
      <3> QED BY <1>3, <3>1, <3>2
    <2> QED BY <2>1, <2>2, <2>3 DEF StrictOrder
  <1>5. IsFiniteSet(1..n) /\ Cardinality(1..n) = n
    BY <1>1, FS_Interval
  <1>6. /\ at \in [1..n -> 1..n]
        /\ \A i \in 1..n : \E k \in 1..n : at[k] = i
        /\ \A j, k \in 1..n : j < k => <<at[j], at[k]>> \in R
    BY <1>4, <1>5, ListedInOrder DEF at
  <1>7. Sorted(rs) = [k \in 1..n |-> rs[at[k]]]
    BY <1>1, <1>6 DEF Sorted, At, at, R
  <1>8. \A k \in 1..n : at[k] \in 1..n /\ rs[at[k]] \in Rules
    BY <1>1, <1>6
  <1>9. Sorted(rs) \in Seq(Rules) /\ Len(Sorted(rs)) = n
    BY <1>1, <1>7, <1>8
  <1>10. \A j, k \in 1..n : j < k =>
           \/ rs[at[j]].nr < rs[at[k]].nr
           \/ rs[at[j]].nr = rs[at[k]].nr /\ at[j] < at[k]
    BY <1>3, <1>6
  <1> QED BY <1>6, <1>7, <1>9, <1>10 DEF n

(* Vec::reverse on a list of rules.                                        *)
LEMMA ReversedRules ==
  ASSUME NEW rs \in Seq(Rules)
  PROVE  /\ Reverse(rs) \in Seq(Rules) /\ Len(Reverse(rs)) = Len(rs)
         /\ Len(rs) \in Nat /\ DOMAIN rs = 1..Len(rs) /\ DOMAIN Reverse(rs) = 1..Len(rs)
         /\ \A i \in 1..Len(rs) : /\ Len(rs) - i + 1 \in 1..Len(rs)
                                  /\ Reverse(rs)[i] = rs[Len(rs) - i + 1]
  <1>1. Len(rs) \in Nat /\ DOMAIN rs = 1..Len(rs) /\ \A i \in 1..Len(rs) : rs[i] \in Rules
    BY ElementOfSeq
  <1>2. \A i \in 1..Len(rs) : Len(rs) - i + 1 \in 1..Len(rs)
    BY <1>1
  <1>3. Reverse(rs) = [i \in 1..Len(rs) |-> rs[Len(rs) - i + 1]]
    BY DEF Reverse
  <1> QED BY <1>1, <1>2, <1>3

(* dedup_rules: sort, reverse, dedup and reverse leave for each number the *)
(* rule inserted last, in ascending order of the numbers.                  *)
LEMMA DedupedTable ==
  ASSUME NEW rs \in Seq(Rules), NEW w \in Wishes, Tells(rs, w)
  PROVE  Table(DedupRules(rs), w)
  <1> DEFINE n == Len(rs)
             s == Sorted(rs)
             r == Reverse(s)
             I == {i \in DOMAIN r : i = 1 \/ r[i].nr # r[i - 1].nr}
             e == Ascending(I)
             c == Cardinality(I)
             d == At(r, e)
             t == Reverse(d)
             Ends(p) == \A q \in 1..n : q > p => s[q].nr > s[p].nr
  <1>1. n \in Nat /\ DOMAIN rs = 1..n
    OBVIOUS
  <1>2. PICK at \in [1..n -> 1..n] :
          /\ s \in Seq(Rules) /\ Len(s) = n
          /\ \A k \in 1..n : s[k] = rs[at[k]]
          /\ \A i \in 1..n : \E k \in 1..n : at[k] = i
          /\ \A j, k \in 1..n : j < k =>
               \/ rs[at[j]].nr < rs[at[k]].nr
               \/ rs[at[j]].nr = rs[at[k]].nr /\ at[j] < at[k]
    BY SortIsStable
  <1>3. DedupRules(rs) = t
    BY DEF DedupRules, Dedup
  <1>4. /\ r \in Seq(Rules) /\ DOMAIN r = 1..n
        /\ \A i \in 1..n : n - i + 1 \in 1..n /\ r[i] = s[n - i + 1]
    <2> HIDE DEF s, n
    <2> QED BY <1>2, ReversedRules
  <1> HIDE DEF n, s, r, I, e, c, d, t, Ends
  <1>5. \A k \in 1..n : /\ at[k] \in 1..n /\ s[k] = rs[at[k]]
                        /\ s[k] \in Rules /\ s[k].nr \in Numbers /\ s[k].nr \in Nat
    <2> TAKE k \in 1..n
    <2>1. at[k] \in 1..n /\ s[k] = rs[at[k]]
      BY <1>2
    <2>2. s[k] \in Rules
      BY <1>1, <2>1
    <2> QED BY <2>1, <2>2, SeccompAssumption DEF Rules
  <1>6. \A p, q \in 1..n : p < q =>
          s[p].nr <= s[q].nr /\ (s[p].nr = s[q].nr => at[p] < at[q])
    <2> TAKE p \in 1..n, q \in 1..n
    <2> HAVE p < q
    <2>1. \/ rs[at[p]].nr < rs[at[q]].nr
          \/ rs[at[p]].nr = rs[at[q]].nr /\ at[p] < at[q]
      BY <1>2
    <2>2. /\ s[p] = rs[at[p]] /\ s[q] = rs[at[q]]
          /\ s[p].nr \in Nat /\ s[q].nr \in Nat
      BY <1>5
    <2> QED BY <2>1, <2>2
  <1>7. \A i \in 1..n : \E k \in 1..n : at[k] = i
    BY <1>2
  \* the positions that stay are the last of their number in the sorted rules
  <1>8. ASSUME NEW i \in 1..n PROVE i \in I <=> Ends(n - i + 1)
    <2> DEFINE p == n - i + 1
    <2>1. p \in 1..n /\ r[i] = s[p]
      BY <1>4
    <2>2. CASE i = 1
      <3>1. p = n
        BY <1>1, <2>2
      <3>2. Ends(p)
        BY <1>1, <3>1 DEF Ends
      <3>3. i \in I
        BY <1>4, <2>2 DEF I
      <3> QED BY <3>2, <3>3
    <2>3. CASE i # 1
      <3>1. i - 1 \in 1..n /\ n - (i - 1) + 1 = p + 1
        BY <1>1, <2>3
      <3>2. p + 1 \in 1..n /\ r[i - 1] = s[p + 1]
        BY <1>4, <3>1
      <3>3. i \in I <=> s[p].nr # s[p + 1].nr
        BY <1>4, <2>1, <2>3, <3>2 DEF I
      <3>4. p < p + 1
        BY <2>1
      <3> HIDE DEF p
      <3>5. s[p].nr \in Nat /\ s[p + 1].nr \in Nat
        BY <1>5, <2>1, <3>2
      <3>6. ASSUME s[p].nr # s[p + 1].nr, NEW q \in 1..n, q > p
            PROVE  s[q].nr > s[p].nr
        <4>1. q = p + 1 \/ p + 1 < q
          BY <1>1, <2>1, <3>6
        <4>2. s[p].nr <= s[p + 1].nr /\ s[q].nr \in Nat
          BY <1>5, <1>6, <2>1, <3>2, <3>4
        <4>3. s[p + 1].nr <= s[q].nr
          <5>1. CASE q = p + 1
            BY <3>5, <5>1
          <5>2. CASE p + 1 < q
            BY <1>6, <3>2, <5>2
          <5> QED BY <4>1, <5>1, <5>2
        <4> QED BY <3>6, <3>5, <4>2, <4>3
      <3>7. ASSUME Ends(p) PROVE s[p].nr # s[p + 1].nr
        <4>1. p + 1 > p
          BY <2>1
        <4>2. s[p + 1].nr > s[p].nr
          BY <3>2, <3>7, <4>1 DEF Ends
        <4> QED BY <3>5, <4>2
      <3>8. i \in I <=> Ends(p)
        BY <3>3, <3>6, <3>7 DEF Ends
      <3> QED BY <3>8 DEF p
    <2> QED BY <2>2, <2>3
  <1>9. I \in SUBSET (DOMAIN r) /\ I \in SUBSET (1..n)
    BY <1>4 DEF I
  <1>10. /\ c \in Nat /\ e \in [1..c -> I]
         /\ \A i \in I : \E k \in 1..c : e[k] = i
         /\ \A j, k \in 1..c : j < k => e[j] < e[k]
         /\ d \in Seq(Rules) /\ DOMAIN d = 1..c
         /\ \A k \in 1..c : d[k] = r[e[k]]
    BY <1>4, <1>9, SelectedRules DEF e, c, d
  <1>11. Len(d) = c
    BY <1>10
  <1>12. /\ t \in Seq(Rules) /\ DOMAIN t = 1..c
         /\ \A k \in 1..c : c - k + 1 \in 1..c /\ t[k] = d[c - k + 1]
    BY <1>10, <1>11, ReversedRules DEF t
  \* the place in the sorted rules that entry k of the table comes from
  <1> DEFINE place(k) == n - e[c - k + 1] + 1
  <1>13. \A k \in 1..c : place(k) \in 1..n /\ t[k] = s[place(k)] /\ Ends(place(k))
    <2> TAKE k \in 1..c
    <2>1. c - k + 1 \in 1..c /\ t[k] = r[e[c - k + 1]]
      BY <1>10, <1>12
    <2>2. e[c - k + 1] \in I /\ e[c - k + 1] \in 1..n
      BY <1>9, <1>10, <2>1
    <2> QED BY <1>4, <1>8, <2>1, <2>2
  <1>14. \A j, k \in 1..c : j < k => place(j) < place(k)
    <2> SUFFICES ASSUME NEW j \in 1..c, NEW k \in 1..c, j < k PROVE place(j) < place(k)
      OBVIOUS
    <2>1. c - k + 1 \in 1..c /\ c - j + 1 \in 1..c /\ c - k + 1 < c - j + 1
      BY <1>10
    <2>2. e[c - k + 1] < e[c - j + 1]
      BY <1>10, <2>1
    <2>3. e[c - k + 1] \in 1..n /\ e[c - j + 1] \in 1..n
      BY <1>9, <1>10, <2>1
    <2>4. \A x, y \in 1..n : x < y => n - y + 1 < n - x + 1
      BY <1>1
    <2> QED BY <2>2, <2>3, <2>4
  <1> HIDE DEF place
  <1>15. \A j, k \in DOMAIN t : j < k => t[j].nr < t[k].nr
    <2> SUFFICES ASSUME NEW j \in 1..c, NEW k \in 1..c, j < k PROVE t[j].nr < t[k].nr
      BY <1>12
    <2>1. place(j) < place(k) /\ place(j) \in 1..n /\ place(k) \in 1..n
      BY <1>13, <1>14
    <2>2. s[place(k)].nr > s[place(j)].nr
      BY <1>13, <2>1 DEF Ends
    <2> QED BY <1>5, <1>13, <2>1, <2>2
  <1>16. ASSUME NEW k \in 1..c PROVE w[t[k].nr] # "none" /\ t[k].action = w[t[k].nr]
    <2> DEFINE p == place(k)
               m == t[k].nr
    <2>1. p \in 1..n /\ t[k] = s[p] /\ Ends(p)
      BY <1>13
    <2>2. at[p] \in 1..n /\ rs[at[p]] = s[p] /\ s[p].nr = m /\ m \in Numbers /\ m \in Nat
      BY <1>5, <2>1
    <2> HIDE DEF p, m
    <2>3. w[m] # "none"
      BY <1>1, <2>2 DEF Tells
    <2>4. PICK i \in 1..n : rs[i] = Rule(m, w[m]) /\ IsLast(rs, i)
      BY <1>1, <2>2, <2>3 DEF Tells
    <2>5. rs[i].nr = m /\ rs[i].action = w[m]
      BY <2>4 DEF Rule
    <2>6. PICK q \in 1..n : at[q] = i
      BY <1>7
    <2>7. s[q].nr = m
      BY <1>5, <2>5, <2>6
    <2>8. ~(q > p)
      BY <2>1, <2>2, <2>7 DEF Ends
    <2>9. ~(q < p)
      <3>1. ASSUME q < p PROVE FALSE
        <4>1. i < at[p]
          BY <1>6, <2>1, <2>2, <2>6, <2>7, <3>1
        <4>2. at[p] \in DOMAIN rs /\ at[p] > i
          BY <1>1, <2>2, <4>1
        <4> QED BY <2>2, <2>4, <2>5, <4>2 DEF IsLast
      <3> QED BY <3>1
    <2>10. q = p
      BY <1>1, <2>1, <2>8, <2>9
    <2>11. t[k].action = w[m]
      BY <2>1, <2>2, <2>5, <2>6, <2>10
    <2> QED BY <2>3, <2>11 DEF m
  <1>17. ASSUME NEW m \in Numbers, w[m] # "none" PROVE \E k \in DOMAIN t : t[k].nr = m
    <2>1. PICK i \in 1..n : rs[i] = Rule(m, w[m]) /\ IsLast(rs, i)
      BY <1>1, <1>17 DEF Tells
    <2>2. rs[i].nr = m
      BY <2>1 DEF Rule
    <2>3. PICK p \in 1..n : at[p] = i
      BY <1>7
    <2>4. ASSUME NEW q \in 1..n, q > p PROVE s[q].nr > s[p].nr
      <3>1. s[q] = rs[at[q]] /\ s[p] = rs[i] /\ at[q] \in DOMAIN rs
        BY <1>1, <1>5, <2>3
      <3>2. s[p].nr <= s[q].nr /\ (s[p].nr = s[q].nr => at[q] > i)
        BY <1>6, <2>3, <2>4
      <3>3. s[p].nr # s[q].nr
        BY <2>1, <3>1, <3>2 DEF IsLast
      <3>4. s[p].nr \in Nat /\ s[q].nr \in Nat
        BY <1>5
      <3> QED BY <3>2, <3>3, <3>4
    <2>5. n - p + 1 \in 1..n /\ n - (n - p + 1) + 1 = p
      BY <1>1
    <2>6. Ends(p)
      BY <2>4 DEF Ends
    <2>7. n - p + 1 \in I
      BY <1>8, <2>5, <2>6
    <2>8. PICK j \in 1..c : e[j] = n - p + 1
      BY <1>10, <2>7
    <2>9. c - j + 1 \in 1..c /\ c - (c - j + 1) + 1 = j
      BY <1>10
    <2>10. place(c - j + 1) = p
      BY <2>5, <2>8, <2>9 DEF place
    <2>11. t[c - j + 1] = s[p]
      BY <1>13, <2>9, <2>10
    <2>12. t[c - j + 1].nr = m
      BY <1>5, <2>2, <2>3, <2>11
    <2> QED BY <1>12, <2>9, <2>12
  <1>18. Table(t, w)
    BY <1>12, <1>15, <1>16, <1>17 DEF Table
  <1> QED BY <1>3, <1>18

-----------------------------------------------------------------------------
(* The walk over the tree lists the rules in their order.                  *)

Ranges(n) == (0..n) \X (0..n)

Middle(lo, hi) == lo + (hi - lo) \div 2

Inorder(w, lo, hi) ==
  IF lo >= hi THEN <<>>
  ELSE w[<<lo, Middle(lo, hi)>>] \o <<Middle(lo, hi)>> \o w[<<Middle(lo, hi) + 1, hi>>]

Walks(w, n) == w = [r \in Ranges(n) |-> Inorder(w, r[1], r[2])]

Upwards(lo, hi) == [i \in 1..(hi - lo) |-> lo + i - 1]

(* What stands where in two sequences joined.                              *)
LEMMA Joined ==
  ASSUME NEW S, NEW s \in Seq(S), NEW t \in Seq(S)
  PROVE  /\ s \o t \in Seq(S) /\ Len(s) \in Nat /\ Len(t) \in Nat
         /\ Len(s \o t) = Len(s) + Len(t) /\ DOMAIN (s \o t) = 1..(Len(s) + Len(t))
         /\ \A i \in 1..Len(s) : i \in 1..(Len(s) + Len(t)) /\ (s \o t)[i] = s[i]
         /\ \A i \in 1..Len(t) : /\ Len(s) + i \in 1..(Len(s) + Len(t))
                                /\ (s \o t)[Len(s) + i] = t[i]
  <1>1. /\ s \o t \in Seq(S) /\ Len(s) \in Nat /\ Len(t) \in Nat
        /\ Len(s \o t) = Len(s) + Len(t)
    OBVIOUS
  <1>2. \A i \in 1..(Len(s) + Len(t)) :
          (s \o t)[i] = IF i <= Len(s) THEN s[i] ELSE t[i - Len(s)]
    OBVIOUS
  <1>3. \A i \in 1..Len(s) : i \in 1..(Len(s) + Len(t)) /\ i <= Len(s)
    BY <1>1
  <1>4. \A i \in 1..Len(t) : /\ Len(s) + i \in 1..(Len(s) + Len(t))
                           /\ ~(Len(s) + i <= Len(s)) /\ (Len(s) + i) - Len(s) = i
    BY <1>1
  <1> QED BY <1>1, <1>2, <1>3, <1>4

(* The right one of two joined sequences.                                  *)
LEMMA JoinedRight ==
  ASSUME NEW S, NEW s \in Seq(S), NEW t \in Seq(S)
  PROVE  \A i \in 1..Len(t) : (s \o t)[Len(s) + i] = t[i]
  BY Joined

(* A range of positions is what is left of the middle, the middle, and     *)
(* what is right of it.                                                    *)
LEMMA UpwardsSplits ==
  ASSUME NEW lo \in Nat, NEW mid \in Nat, NEW hi \in Nat, lo <= mid, mid < hi
  PROVE  Upwards(lo, hi) = Upwards(lo, mid) \o <<mid>> \o Upwards(mid + 1, hi)
  <1> DEFINE a == Upwards(lo, mid)
             b == Upwards(mid + 1, hi)
             u == Upwards(lo, hi)
             m == <<mid>>
             c == a \o m
             d == c \o b
  <1>1. /\ a \in Seq(Int) /\ Len(a) = mid - lo
        /\ \A i \in 1..(mid - lo) : a[i] = lo + i - 1
    BY DEF Upwards
  <1>2. /\ b \in Seq(Int) /\ Len(b) = hi - (mid + 1)
        /\ \A i \in 1..(hi - (mid + 1)) : b[i] = mid + 1 + i - 1
    BY DEF Upwards
  <1>3. /\ u \in Seq(Int) /\ Len(u) = hi - lo
        /\ \A i \in 1..(hi - lo) : u[i] = lo + i - 1
    BY DEF Upwards
  <1>4. m \in Seq(Int) /\ Len(m) = 1 /\ m[1] = mid
    OBVIOUS
  <1> HIDE DEF a, b, u, m
  <1>5. /\ c \in Seq(Int) /\ Len(c) = (mid - lo) + 1
        /\ \A i \in 1..(mid - lo) : c[i] = a[i]
        /\ \A i \in 1..1 : c[(mid - lo) + i] = m[i]
    <2>0. a \in Seq(Int) /\ m \in Seq(Int)
      BY <1>1, <1>4
    <2>1. /\ a \o m \in Seq(Int) /\ Len(a \o m) = Len(a) + Len(m)
      BY <2>0, Joined
    <2>2. \A i \in 1..Len(a) : (a \o m)[i] = a[i]
      BY <2>0, Joined
    <2>3. \A i \in 1..Len(m) : (a \o m)[Len(a) + i] = m[i]
      BY <2>0, Joined
    <2>4. /\ c \in Seq(Int) /\ Len(c) = Len(a) + Len(m)
          /\ \A i \in 1..Len(a) : c[i] = a[i]
          /\ \A i \in 1..Len(m) : c[Len(a) + i] = m[i]
      BY <2>1, <2>2, <2>3
    <2> HIDE DEF c
    <2> QED BY <1>1, <1>4, <2>4
  <1>6. \A i \in 1..(mid - lo + 1) : c[i] = lo + i - 1
    <2> TAKE i \in 1..(mid - lo + 1)
    <2>1. i \in 1..(mid - lo) \/ i = (mid - lo) + 1
      OBVIOUS
    <2>2. c[(mid - lo) + 1] = mid
      BY <1>4, <1>5
    <2> QED BY <1>1, <1>5, <2>1, <2>2
  <1> HIDE DEF c
  <1>7. /\ d \in Seq(Int) /\ Len(d) = (mid - lo) + 1 + (hi - (mid + 1))
        /\ \A i \in 1..((mid - lo) + 1) : d[i] = c[i]
        /\ \A i \in 1..(hi - (mid + 1)) : d[(mid - lo) + 1 + i] = b[i]
    <2>0. c \in Seq(Int) /\ b \in Seq(Int)
      BY <1>2, <1>5
    <2>1. /\ c \o b \in Seq(Int) /\ Len(c \o b) = Len(c) + Len(b)
      BY <2>0, Joined
    <2>2. \A i \in 1..Len(c) : (c \o b)[i] = c[i]
      BY <2>0, Joined
    <2>3. \A i \in 1..Len(b) : (c \o b)[Len(c) + i] = b[i]
      BY <2>0, Joined
    <2>4. /\ d \in Seq(Int) /\ Len(d) = Len(c) + Len(b)
          /\ \A i \in 1..Len(c) : d[i] = c[i]
          /\ \A i \in 1..Len(b) : d[Len(c) + i] = b[i]
      BY <2>1, <2>2, <2>3
    <2> HIDE DEF d
    <2> QED BY <1>2, <1>5, <2>4
  <1>8. \A i \in 1..(hi - lo) : d[i] = lo + i - 1
    <2> TAKE i \in 1..(hi - lo)
    <2>1. CASE i \in 1..((mid - lo) + 1)
      BY <1>6, <1>7, <2>1
    <2>2. CASE i \notin 1..((mid - lo) + 1)
      <3> DEFINE j == i - ((mid - lo) + 1)
      <3>1. j \in 1..(hi - (mid + 1)) /\ i = (mid - lo) + 1 + j /\ mid + 1 + j - 1 = lo + i - 1
        BY <2>2
      <3> HIDE DEF j
      <3> QED BY <1>2, <1>7, <3>1
    <2> QED BY <2>1, <2>2
  <1>9. Len(d) = hi - lo
    BY <1>7
  <1> HIDE DEF d
  <1>10. u = d
    BY <1>3, <1>7, <1>8, <1>9, SeqEqual
  <1> QED BY <1>10 DEF a, b, u, m, c, d

(* One level of the tree over a range                                      *)
LEMMA InorderUpwards ==
  ASSUME NEW n \in Nat, NEW w, NEW lo \in 0..n, NEW hi \in 0..n
  PROVE  /\ lo >= hi => Inorder(w, lo, hi) = Upwards(lo, hi)
         /\ lo < hi => \E mid \in lo..(hi - 1) :
              /\ <<lo, mid>> \in Ranges(n) /\ <<mid + 1, hi>> \in Ranges(n)
              /\ w[<<lo, mid>>] = Upwards(lo, mid) /\ w[<<mid + 1, hi>>] = Upwards(mid + 1, hi)
                 => Inorder(w, lo, hi) = Upwards(lo, hi)
  <1>1. ASSUME lo >= hi PROVE Inorder(w, lo, hi) = Upwards(lo, hi)
    <2>1. 1..(hi - lo) = {}
      BY <1>1
    <2>2. Upwards(lo, hi) = <<>>
      BY <2>1 DEF Upwards
    <2> QED BY <1>1, <2>2 DEF Inorder
  <1>2. ASSUME lo < hi
        PROVE  \E mid \in lo..(hi - 1) :
              /\ <<lo, mid>> \in Ranges(n) /\ <<mid + 1, hi>> \in Ranges(n)
              /\ w[<<lo, mid>>] = Upwards(lo, mid) /\ w[<<mid + 1, hi>>] = Upwards(mid + 1, hi)
                 => Inorder(w, lo, hi) = Upwards(lo, hi)
    <2> DEFINE mid == Middle(lo, hi)
    <2>1. mid \in lo..(hi - 1)
      BY <1>2 DEF Middle
    <2>2. ~(lo >= hi)
      BY <1>2
    <2>3. Inorder(w, lo, hi) = w[<<lo, mid>>] \o <<mid>> \o w[<<mid + 1, hi>>]
      BY <2>2, Zenon DEF Inorder
    <2> HIDE DEF mid
    <2>4. <<lo, mid>> \in Ranges(n) /\ <<mid + 1, hi>> \in Ranges(n)
      BY <2>1 DEF Ranges
    <2>5. Upwards(lo, hi) = Upwards(lo, mid) \o <<mid>> \o Upwards(mid + 1, hi)
      BY <1>2, <2>1, UpwardsSplits
    <2> QED BY <2>1, <2>3, <2>4, <2>5
  <1> QED BY <1>1, <1>2

(* Counting upwards satisfies the equation of the tree walk.               *)
LEMMA UpwardsWalks ==
  ASSUME NEW n \in Nat
  PROVE  Walks([r \in Ranges(n) |-> Upwards(r[1], r[2])], n)
  <1> DEFINE w == [r \in Ranges(n) |-> Upwards(r[1], r[2])]
  <1>1. \A lo, hi \in 0..n : <<lo, hi>> \in Ranges(n) => w[<<lo, hi>>] = Upwards(lo, hi)
    OBVIOUS
  <1>2. \A r \in Ranges(n) : r[1] \in 0..n /\ r[2] \in 0..n
    BY DEF Ranges
  <1>3. ASSUME NEW r \in Ranges(n) PROVE Upwards(r[1], r[2]) = Inorder(w, r[1], r[2])
    <2> HIDE DEF w
    <2>1. CASE r[1] >= r[2]
      BY <1>2, <2>1, InorderUpwards
    <2>2. CASE r[1] < r[2]
      <3>1. PICK mid \in r[1]..(r[2] - 1) :
              /\ <<r[1], mid>> \in Ranges(n) /\ <<mid + 1, r[2]>> \in Ranges(n)
              /\ /\ w[<<r[1], mid>>] = Upwards(r[1], mid)
                 /\ w[<<mid + 1, r[2]>>] = Upwards(mid + 1, r[2])
                 => Inorder(w, r[1], r[2]) = Upwards(r[1], r[2])
        <4>1. r[1] \in 0..n /\ r[2] \in 0..n
          BY <1>2
        <4> QED BY <2>2, <4>1, InorderUpwards, Zenon
      <3>2. mid \in 0..n /\ mid + 1 \in 0..n /\ r[1] \in 0..n /\ r[2] \in 0..n
        BY <1>2, <3>1
      <3>3. /\ w[<<r[1], mid>>] = Upwards(r[1], mid)
            /\ w[<<mid + 1, r[2]>>] = Upwards(mid + 1, r[2])
        BY <1>1, <3>1, <3>2
      <3> QED BY <3>1, <3>3
    <2>3. r[1] \in Nat /\ r[2] \in Nat
      BY <1>2
    <2> QED BY <2>1, <2>2, <2>3
  <1> QED BY <1>3 DEF Walks

(* Nothing else satisfies it: a shortest range on which a walk differed    *)
(* would have a shorter one within.                                        *)
LEMMA WalksUpwards ==
  ASSUME NEW n \in Nat, NEW w, Walks(w, n)
  PROVE  \A r \in Ranges(n) : w[r] = Upwards(r[1], r[2])
  <1>1. \A r \in Ranges(n) : w[r] = Inorder(w, r[1], r[2])
    BY DEF Walks
  <1>2. \A r \in Ranges(n) : r[1] \in 0..n /\ r[2] \in 0..n
    BY DEF Ranges
  <1> DEFINE Bad == {k \in Nat : \E r \in Ranges(n) :
                       r[2] - r[1] <= k /\ w[r] # Upwards(r[1], r[2])}
  <1>3. Bad = {}
    <2> SUFFICES ASSUME Bad # {} PROVE FALSE
      OBVIOUS
    <2>1. Bad \subseteq Nat
      OBVIOUS
    <2>2. PICK k \in Bad : \A j \in Bad : ~(<<j, k>> \in OpToRel(<, Nat))
      <3> HIDE DEF Bad
      <3> QED BY <2>1, WFMin, NatLessThanWellFounded
    <2>3. \A j \in Bad : ~(j < k)
      BY <2>1, <2>2, Zenon DEF OpToRel
    <2>4. PICK r \in Ranges(n) : r[2] - r[1] <= k /\ w[r] # Upwards(r[1], r[2])
      OBVIOUS
    <2>5. r[1] < r[2]
      BY <1>1, <1>2, <2>4, InorderUpwards
    <2> HIDE DEF Bad
    <2>6. PICK mid \in r[1]..(r[2] - 1) :
            /\ <<r[1], mid>> \in Ranges(n) /\ <<mid + 1, r[2]>> \in Ranges(n)
            /\ /\ w[<<r[1], mid>>] = Upwards(r[1], mid)
               /\ w[<<mid + 1, r[2]>>] = Upwards(mid + 1, r[2])
               => Inorder(w, r[1], r[2]) = Upwards(r[1], r[2])
      BY <1>2, <2>5, InorderUpwards
    <2>7. k \in Nat /\ k - 1 \in Nat /\ k - 1 < k
      BY <1>2, <2>1, <2>4, <2>5
    <2>8. ASSUME NEW lo \in 0..n, NEW hi \in 0..n, <<lo, hi>> \in Ranges(n), hi - lo <= k - 1
          PROVE  w[<<lo, hi>>] = Upwards(lo, hi)
      <3>1. k - 1 \notin Bad
        BY <2>3, <2>7
      <3> QED BY <2>7, <2>8, <3>1 DEF Bad
    <2>9. mid \in 0..n /\ mid + 1 \in 0..n /\ mid - r[1] <= k - 1 /\ r[2] - (mid + 1) <= k - 1
      BY <1>2, <2>4, <2>6, <2>7
    <2>10. w[<<r[1], mid>>] = Upwards(r[1], mid) /\ w[<<mid + 1, r[2]>>] = Upwards(mid + 1, r[2])
      BY <1>2, <2>6, <2>8, <2>9
    <2> QED BY <1>1, <2>4, <2>6, <2>10
  <1>4. ASSUME NEW r \in Ranges(n) PROVE w[r] = Upwards(r[1], r[2])
    <2>1. n \notin Bad /\ r[2] - r[1] <= n
      BY <1>2, <1>3
    <2> QED BY <2>1
  <1> QED BY <1>4

(* emit_table_node and patch_jump_node visit the sorted rules in their     *)
(* order, whatever the shape of the tree.                                  *)
LEMMA WalkIsUpwards ==
  ASSUME NEW n \in Nat
  PROVE  Walk(n) = [i \in 1..n |-> i - 1]
  <1> DEFINE walk == CHOOSE w : Walks(w, n)
  <1>1. Walk(n) = walk[<<0, n>>]
    BY Zenon DEF Walk, Walks, Inorder, Middle, Ranges
  <1>2. Walks(walk, n)
    BY UpwardsWalks
  <1> HIDE DEF walk
  <1>3. walk[<<0, n>>] = Upwards(0, n)
    <2>1. <<0, n>> \in Ranges(n)
      BY DEF Ranges
    <2> QED BY <1>2, <2>1, WalksUpwards
  <1>4. Upwards(0, n) = [i \in 1..n |-> i - 1]
    BY DEF Upwards
  <1> QED BY <1>1, <1>3, <1>4

-----------------------------------------------------------------------------
(* What build decides from the table                                       *)

(* The table has one entry for each number that is asked for.              *)
LEMMA TableCounts ==
  ASSUME NEW w \in Wishes, NEW d, Table(d, w)
  PROVE  /\ Len(d) \in Nat /\ DOMAIN d = 1..Len(d)
         /\ Len(d) = Cardinality({n \in Numbers : w[n] # "none"})
         /\ \A i \in 1..Len(d) : d[i] \in Rules /\ d[i].nr \in Numbers
  <1> DEFINE T == {n \in Numbers : w[n] # "none"}
             f == [i \in 1..Len(d) |-> d[i].nr]
             l == Len(d)
  <1>1. l \in Nat /\ DOMAIN d = 1..l /\ \A i \in 1..l : d[i] \in Rules /\ d[i].nr \in Numbers
    <2>1. d \in Seq(Rules)
      BY DEF Table
    <2>2. l \in Nat /\ DOMAIN d = 1..l /\ \A i \in 1..l : d[i] \in Rules
      BY <2>1, ElementOfSeq
    <2> QED BY <2>2 DEF Rules
  <1>2. f \in Bijection(1..l, T)
    <2>1. \A i \in 1..l : f[i] = d[i].nr /\ f[i] \in T
      BY <1>1 DEF Table
    <2>2. f \in [1..l -> T]
      BY <2>1
    <2>3. \A i, j \in 1..l : i < j => f[i] < f[j]
      BY <1>1, <2>1 DEF Table
    <2>4. \A n \in T : \E i \in 1..l : f[i] = n
      BY <1>1, <2>1 DEF Table
    <2>5. \A i \in 1..l : f[i] \in Nat
      BY <1>1, <2>1, SeccompAssumption
    <2> HIDE DEF f
    <2>6. \A i, j \in 1..l : f[i] = f[j] => i = j
      <3> SUFFICES ASSUME NEW i \in 1..l, NEW j \in 1..l, f[i] = f[j], i # j PROVE FALSE
        OBVIOUS
      <3>1. i \in Nat /\ j \in Nat
        BY <1>1
      <3>2. i < j \/ j < i
        BY <3>1
      <3>3. f[i] < f[j] \/ f[j] < f[i]
        BY <2>3, <3>2
      <3>4. f[i] \in Nat /\ f[j] \in Nat
        BY <2>5
      <3> QED BY <3>3, <3>4
    <2> QED BY <2>2, <2>4, <2>6 DEF Bijection, Injection, Surjection, IsInjective
  <1> HIDE DEF f, T, l
  <1>3. IsFiniteSet(1..l) /\ Cardinality(1..l) = l
    <2>1. l \in Nat
      BY <1>1
    <2> QED BY <2>1, FS_Interval
  <1>4. ExistsBijection(1..l, T)
    BY <1>2 DEF ExistsBijection
  <1>5. Cardinality(T) = l
    BY <1>3, <1>4, FS_Bijection
  <1> QED BY <1>1, <1>5 DEF T, l

(* The validation in build, made on the table, decides by what was asked.  *)
LEMMA CallableMeans ==
  ASSUME NEW d, wanted \in Wishes, Table(d, wanted), NEW n \in Numbers
  PROVE  StaysCallable(d, n) <=> Callable(Asked(n))
  <1>1. \A i \in DOMAIN d : wanted[d[i].nr] # "none" /\ d[i].action = wanted[d[i].nr]
    BY DEF Table
  <1>2. CASE wanted[n] = "none"
    <2>1. \A i \in DOMAIN d : d[i].nr # n
      BY <1>1, <1>2
    <2> QED BY <1>2, <2>1 DEF StaysCallable, Asked
  <1>3. CASE wanted[n] # "none"
    <2>1. PICK i \in DOMAIN d : d[i].nr = n
      BY <1>3 DEF Table
    <2>2. \A j \in DOMAIN d : d[j].nr = n => d[j].action = wanted[n]
      BY <1>1
    <2>3. Asked(n) = wanted[n] /\ d[i].action = wanted[n]
      BY <1>3, <2>1, <2>2 DEF Asked
    <2>4. ASSUME Callable(wanted[n]) PROVE StaysCallable(d, n)
      BY <2>1, <2>2, <2>4 DEF StaysCallable
    <2>5. ASSUME StaysCallable(d, n) PROVE Callable(wanted[n])
      BY <2>1, <2>2, <2>5 DEF StaysCallable
    <2> QED BY <2>3, <2>4, <2>5
  <1> QED BY <1>2, <1>3

-----------------------------------------------------------------------------
(* The program of a table: each check jumps to the return of its rule.     *)

Shape(p, d) ==
  /\ Len(p) = IF Len(d) = 0 THEN 5 ELSE 2 * Len(d) + 6
  /\ DOMAIN p = 1..Len(p)
  /\ p[1] = Load("arch") /\ p[2] = JumpEq("native", 1)
  /\ p[3] = Return("KillProcess") /\ p[4] = Load("nr")
  /\ \A i \in 1..Len(d) : /\ p[4 + i] = JumpEq(d[i].nr, Len(d))
                         /\ p[5 + Len(d) + i] = Return(d[i].action)
  /\ Len(d) # 0 => p[5 + Len(d)] = Jump(Len(d))
  /\ p[Len(p)] = Return(default)

(* The four instructions of the header.                                    *)
LEMMA HeaderIs ==
  /\ Len(Header) = 4 /\ Header[1] = Load("arch") /\ Header[2] = JumpEq("native", 1)
  /\ Header[3] = Return("KillProcess") /\ Header[4] = Load("nr")
  BY DEF Header

(* The node of rule i jumps over the n - i nodes behind it, the JA and the *)
(* i - 1 returns before its own: n in all.                                 *)
LEMMA TableJumps ==
  ASSUME NEW d \in Seq(Rules)
  PROVE  LET n == Len(d)
         IN  JumpTable(d) = [i \in 1..n |-> JumpEq(d[i].nr, n)] \o <<Jump(n)>>
                              \o [i \in 1..n |-> Return(d[i].action)]
  <1> DEFINE n == Len(d)
             at == Walk(n)
  <1>1. n \in Nat
    OBVIOUS
  <1>2. at = [i \in 1..n |-> i - 1]
    BY <1>1, WalkIsUpwards
  <1>3. JumpTable(d) = [i \in 1..n |-> JumpEq(d[at[i] + 1].nr, JumpTo(n, i - 1, at[i]))]
                         \o <<Jump(n)>> \o [i \in 1..n |-> Return(d[i].action)]
    BY DEF JumpTable
  <1> HIDE DEF n, at
  <1>4. ASSUME NEW i \in 1..n
        PROVE  JumpEq(d[at[i] + 1].nr, JumpTo(n, i - 1, at[i])) = JumpEq(d[i].nr, n)
    <2>1. at[i] = i - 1 /\ at[i] + 1 = i
      BY <1>1, <1>2
    <2>2. JumpTo(n, i - 1, i - 1) = n
      BY <1>1, HeaderIs DEF JumpTo
    <2> QED BY <2>1, <2>2
  <1>5. [i \in 1..n |-> JumpEq(d[at[i] + 1].nr, JumpTo(n, i - 1, at[i]))]
          = [i \in 1..n |-> JumpEq(d[i].nr, n)]
    BY <1>4
  <1> QED BY <1>3, <1>5 DEF n

(* The instructions of a program for the table d                           *)
Code(d) ==
  {Load("arch"), Load("nr"), JumpEq("native", 1), Jump(Len(d)), Return("KillProcess"),
   Return(default)}
    \cup {JumpEq(d[i].nr, Len(d)) : i \in 1..Len(d)}
    \cup {Return(d[i].action) : i \in 1..Len(d)}

(* Every compiled program is the header, n comparisons each of which jumps *)
(* n instructions, a JA over n returns, the returns, and the default.      *)
LEMMA CompiledShape ==
  ASSUME NEW d \in Seq(Rules)
  PROVE  Shape(Compile(d), d) /\ Compile(d) \in Seq(Code(d))
  <1> DEFINE n == Len(d)
             C == Code(d)
             checks == [i \in 1..n |-> JumpEq(d[i].nr, n)]
             over == <<Jump(n)>>
             returns == [i \in 1..n |-> Return(d[i].action)]
             last == <<Return(default)>>
             p == Compile(d)
  <1>1. n \in Nat /\ (d = <<>> <=> n = 0)
    BY EmptySeq
  <1>2. Header \in Seq(C) /\ last \in Seq(C) /\ over \in Seq(C)
    BY DEF Header, Code
  <1>3. Len(last) = 1 /\ last[1] = Return(default) /\ Len(over) = 1 /\ over[1] = Jump(n)
    OBVIOUS
  <1>4. checks \in Seq(C) /\ Len(checks) = n /\ \A i \in 1..n : checks[i] = JumpEq(d[i].nr, n)
    <2>1. \A i \in 1..n : JumpEq(d[i].nr, n) \in C
      BY DEF Code
    <2> QED BY <1>1, <2>1
  <1>5. returns \in Seq(C) /\ Len(returns) = n /\ \A i \in 1..n : returns[i] = Return(d[i].action)
    <2>1. \A i \in 1..n : Return(d[i].action) \in C
      BY DEF Code
    <2> QED BY <1>1, <2>1
  <1>6. p = Header \o (IF n = 0 THEN <<>> ELSE checks \o over \o returns) \o last
    BY <1>1, TableJumps DEF Compile
  <1> HIDE DEF n, C, checks, over, returns, last, p
  <1>7. CASE n = 0
    <2> DEFINE h == Header \o <<>>
    <2>1. h = Header
      BY <1>2
    <2>2. p = Header \o last
      BY <1>6, <1>7, <2>1
    <2>3. p \in Seq(C) /\ Len(p) = Len(Header) + Len(last) /\ DOMAIN p = 1..(Len(Header) + Len(last))
      BY <1>2, <2>2, Joined
    <2>4. \A i \in 1..Len(Header) : p[i] = Header[i]
      BY <1>2, <2>2, Joined
    <2>5. \A i \in 1..Len(last) : p[Len(Header) + i] = last[i]
      BY <1>2, <2>2, Joined
    <2> QED BY <1>3, <1>7, <2>3, <2>4, <2>5, HeaderIs DEF Shape, n, p, C
  <1>8. CASE n # 0
    <2> DEFINE a == checks \o over
               b == a \o returns
               h == Header \o b
    <2>1. p = h \o last
      BY <1>6, <1>8
    <2>2. a \in Seq(C) /\ Len(a) = n + 1
      <3>1. a \in Seq(C) /\ Len(a) = Len(checks) + Len(over)
        BY <1>2, <1>4, Joined
      <3> QED BY <1>3, <1>4, <3>1
    <2>3. \A i \in 1..Len(checks) : a[i] = checks[i]
      BY <1>2, <1>4, Joined
    <2>4. \A i \in 1..Len(over) : a[Len(checks) + i] = over[i]
      BY <1>2, <1>4, JoinedRight
    <2> HIDE DEF a
    <2>5. b \in Seq(C) /\ Len(b) = n + 1 + n
      <3>1. b \in Seq(C) /\ Len(b) = Len(a) + Len(returns)
        BY <1>5, <2>2, Joined
      <3> QED BY <1>5, <2>2, <3>1
    <2>6. \A i \in 1..Len(a) : b[i] = a[i]
      BY <1>5, <2>2, Joined
    <2>7. \A i \in 1..Len(returns) : b[Len(a) + i] = returns[i]
      <3>1. a \in Seq(C) /\ returns \in Seq(C)
        BY <1>5, <2>2
      <3>2. \A i \in 1..Len(returns) : (a \o returns)[Len(a) + i] = returns[i]
        BY <3>1, JoinedRight
      <3> QED BY <3>2
    <2> HIDE DEF b
    <2>8. h \in Seq(C) /\ Len(h) = 4 + (n + 1 + n)
      <3>1. h \in Seq(C) /\ Len(h) = Len(Header) + Len(b)
        BY <1>2, <2>5, Joined
      <3> QED BY <2>5, <3>1, HeaderIs
    <2>9. \A i \in 1..Len(Header) : h[i] = Header[i]
      BY <1>2, <2>5, Joined
    <2>10. \A i \in 1..Len(b) : h[Len(Header) + i] = b[i]
      BY <1>2, <2>5, Joined
    <2> HIDE DEF h
    <2>11. p \in Seq(C) /\ Len(p) = 2 * n + 6 /\ DOMAIN p = 1..Len(p)
      <3>1. p \in Seq(C) /\ Len(p) = Len(h) + Len(last)
        BY <1>2, <2>1, <2>8, Joined
      <3> QED BY <1>1, <1>3, <2>8, <3>1
    <2>12. \A i \in 1..Len(h) : p[i] = h[i]
      BY <1>2, <2>1, <2>8, Joined
    <2>13. \A i \in 1..Len(last) : p[Len(h) + i] = last[i]
      BY <1>2, <2>1, <2>8, JoinedRight
    <2>14. p[Len(p)] = Return(default)
      <3>1. 1 \in 1..Len(last) /\ Len(p) = Len(h) + 1
        BY <1>1, <1>3, <2>8, <2>11
      <3> QED BY <1>3, <2>13, <3>1
    <2>15. \A i \in 1..4 : p[i] = Header[i]
      <3>1. \A i \in 1..4 : i \in 1..Len(h) /\ i \in 1..Len(Header)
        BY <1>1, <2>8, HeaderIs
      <3> QED BY <2>9, <2>12, <3>1
    <2>16. \A i \in 1..(n + 1 + n) : p[4 + i] = b[i]
      <3>1. \A i \in 1..(n + 1 + n) : i \in 1..Len(b) /\ 4 + i \in 1..Len(h)
        BY <1>1, <2>5, <2>8
      <3> QED BY <2>10, <2>12, <3>1, HeaderIs
    <2>17. \A i \in 1..n : p[4 + i] = JumpEq(d[i].nr, n)
      <3>1. \A i \in 1..n : i \in 1..(n + 1 + n) /\ i \in 1..Len(a) /\ i \in 1..Len(checks)
        BY <1>1, <1>4, <2>2
      <3> QED BY <1>4, <2>3, <2>6, <2>16, <3>1
    <2>18. p[5 + n] = Jump(n)
      <3>1. /\ n + 1 \in 1..(n + 1 + n) /\ n + 1 \in 1..Len(a) /\ 1 \in 1..Len(over)
            /\ 4 + (n + 1) = 5 + n /\ Len(checks) = n
        BY <1>1, <1>3, <1>4, <2>2
      <3>2. p[4 + (n + 1)] = b[n + 1] /\ b[n + 1] = a[n + 1] /\ a[n + 1] = over[1]
        BY <2>4, <2>6, <2>16, <3>1
      <3> QED BY <1>3, <3>1, <3>2
    <2>19. \A i \in 1..n : p[5 + n + i] = Return(d[i].action)
      <3> TAKE i \in 1..n
      <3>1. /\ n + 1 + i \in 1..(n + 1 + n) /\ i \in 1..Len(returns)
            /\ 4 + (n + 1 + i) = 5 + n + i /\ Len(a) = n + 1
        BY <1>1, <1>5, <2>2
      <3>2. p[4 + (n + 1 + i)] = b[n + 1 + i] /\ b[n + 1 + i] = returns[i]
        BY <2>7, <2>16, <3>1
      <3> QED BY <1>5, <3>1, <3>2
    <2>20. /\ p[1] = Load("arch") /\ p[2] = JumpEq("native", 1)
           /\ p[3] = Return("KillProcess") /\ p[4] = Load("nr")
      BY <2>15, HeaderIs
    <2> QED BY <1>1, <1>8, <2>11, <2>14, <2>17, <2>18, <2>19, <2>20 DEF Shape, n, p, C
  <1> QED BY <1>7, <1>8

(* The check of the jumps is the number of rules: the length is never what *)
(* refuses a program.                                                      *)
LEMMA FitsWhenJumpsReach ==
  ASSUME NEW d \in Seq(Rules)
  PROVE  /\ Fits(Compile(d)) <=> Len(d) <= MaxJump
         /\ Fits(Compile(d)) => Encode(Compile(d)) = Compile(d)
  <1> DEFINE n == Len(d)
             p == Compile(d)
  <1>1. Shape(p, d) /\ p \in Seq(Code(d))
    BY CompiledShape
  <1>2. n \in Nat /\ MaxJump \in Nat /\ 1 <= MaxJump /\ 2 * MaxJump + 6 <= MaxInsns /\ MaxInsns \in Nat
    BY SeccompAssumption
  <1> HIDE DEF n, p
  <1>3. \A i \in DOMAIN p : p[i].jt \in {0, 1, n} /\ p[i] = [op |-> p[i].op, k |-> p[i].k, jt |-> p[i].jt]
    <2>1. \A i \in DOMAIN p : p[i] \in Code(d)
      BY <1>1
    <2>2. \A x \in Code(d) : x.jt \in {0, 1, n} /\ x = [op |-> x.op, k |-> x.k, jt |-> x.jt]
      BY DEF Code, Load, JumpEq, Jump, Return, n
    <2> QED BY <2>1, <2>2
  <1>4. ASSUME n <= MaxJump PROVE Fits(p)
    <2>1. \A i \in DOMAIN p : p[i].jt <= MaxJump
      BY <1>2, <1>3, <1>4
    <2>2. Len(p) <= MaxInsns
      BY <1>1, <1>2, <1>4 DEF Shape, n
    <2> QED BY <2>1, <2>2 DEF Fits
  <1>5. ASSUME Fits(p) PROVE n <= MaxJump
    <2>1. CASE n = 0
      BY <1>2, <2>1
    <2>2. CASE n # 0
      <3>1. 1 \in 1..n /\ p[4 + 1] = JumpEq(d[1].nr, n) /\ 4 + 1 \in DOMAIN p
        BY <1>1, <1>2, <2>2 DEF Shape, n
      <3>2. p[4 + 1].jt = n
        BY <3>1 DEF JumpEq
      <3> QED BY <1>5, <3>1, <3>2 DEF Fits
    <2> QED BY <2>1, <2>2
  <1>6. ASSUME Fits(p) PROVE Encode(p) = p
    <2>1. \A i \in DOMAIN p : p[i].jt \in 0..MaxJump
      BY <1>2, <1>3, <1>5, <1>6
    <2>2. ASSUME NEW i \in DOMAIN p
          PROVE  [p[i] EXCEPT !.jt = p[i].jt % (MaxJump + 1)] = p[i]
      <3>1. p[i].jt % (MaxJump + 1) = p[i].jt
        <4> DEFINE x == p[i].jt
        <4>1. x \in 0..MaxJump
          BY <2>1
        <4> HIDE DEF x
        <4>2. x % (MaxJump + 1) = x
          BY <1>2, <4>1
        <4> QED BY <4>2 DEF x
      <3> QED BY <1>3, <3>1
    <2>3. p = [i \in DOMAIN p |-> p[i]]
      BY <1>1
    <2> QED BY <2>2, <2>3 DEF Encode
  <1> QED BY <1>4, <1>5, <1>6 DEF n, p

-----------------------------------------------------------------------------
(* The inductive invariant                                                 *)

Built == {"built", "nnp", "loaded", "failed"}

Effective == DedupRules(rules)

BuilderInv ==
  /\ default \in Actions /\ rules \in Seq(Rules) /\ wanted \in Wishes
  /\ Tells(rules, wanted) /\ ops \in 0..MaxOps
  /\ phase \in {"building", "refused"} \cup Built

(* What is loaded is the program of the rules, which no longer change.     *)
ProgramInv ==
  /\ program = IF phase \in Built THEN Compile(Effective) ELSE <<>>
  /\ phase # "loaded" => pc = 0 /\ verdict = "none"
  /\ RefusedWithReason

(* What each instruction that an evaluation has come to says of the call   *)
EvalInv ==
  pc # 0 =>
    /\ phase = "loaded" /\ verdict = "none" /\ pc \in 1..Len(program)
    /\ call.native \in BOOLEAN /\ call.nr \in Numbers
    /\ pc = 2 => acc = IF call.native THEN "native" ELSE "foreign"
    /\ pc = 3 => ~call.native
    /\ pc >= 4 => call.native
    /\ pc >= 5 => acc = call.nr
    /\ \A i \in 1..Len(Effective) :
         /\ 4 + i < pc /\ pc <= 5 + Len(Effective) => Effective[i].nr # call.nr
         /\ pc = 5 + Len(Effective) + i => Effective[i].nr = call.nr
         /\ pc = Len(program) => Effective[i].nr # call.nr

VerdictInv ==
  verdict # "none" =>
    /\ verdict \in Actions
    /\ verdict = IF call.native THEN Asked(call.nr) ELSE "KillProcess"

SeccompInv == BuilderInv /\ ProgramInv /\ EvalInv /\ VerdictInv

(* The table of the rules and the shape of the program, once it is built   *)
LEMMA EffectiveTable ==
  ASSUME BuilderInv
  PROVE  /\ Table(Effective, wanted) /\ Effective \in Seq(Rules)
         /\ Len(Effective) \in Nat /\ DOMAIN Effective = 1..Len(Effective)
         /\ Len(Effective) = Cardinality({n \in Numbers : wanted[n] # "none"})
         /\ \A i \in 1..Len(Effective) :
              /\ Effective[i].nr \in Numbers /\ Effective[i].action \in Actions
              /\ wanted[Effective[i].nr] = Effective[i].action
         /\ Shape(Compile(Effective), Effective)
  <1>1. Table(Effective, wanted)
    BY DedupedTable DEF BuilderInv, Effective
  <1>2. Effective \in Seq(Rules)
    BY <1>1 DEF Table
  <1>3. /\ Len(Effective) \in Nat /\ DOMAIN Effective = 1..Len(Effective)
        /\ Len(Effective) = Cardinality({n \in Numbers : wanted[n] # "none"})
        /\ \A i \in 1..Len(Effective) : Effective[i] \in Rules
    BY <1>1, TableCounts DEF BuilderInv
  <1>4. \A i \in 1..Len(Effective) :
          /\ Effective[i].nr \in Numbers /\ Effective[i].action \in Actions
          /\ wanted[Effective[i].nr] = Effective[i].action
    BY <1>1, <1>3 DEF Rules, Table
  <1> QED BY <1>1, <1>2, <1>3, <1>4, CompiledShape

(* Every preset starts with rules that tell what it wants.                 *)
LEMMA InitSeccomp ==
  ASSUME Init
  PROVE  SeccompInv
  <1>1. rules \in Seq(Rules) /\ wanted \in Wishes /\ Tells(rules, wanted) /\ default \in Actions
    <2> DEFINE none == [n \in Numbers |-> "none"]
               allowed == [n \in Numbers |-> IF n \in Standard THEN "Allow" ELSE none[n]]
               denied == [n \in Numbers |-> IF n \in Blocked THEN "KillProcess" ELSE allowed[n]]
    <2>1. none \in Wishes /\ <<>> \in Seq(Rules) /\ Tells(<<>>, none)
      <3>1. none \in Wishes /\ \A n \in Numbers : none[n] = "none"
        BY DEF Wishes
      <3> QED BY <3>1, EmptyTells
    <2>2. /\ Standard \in SUBSET Numbers /\ Blocked \in SUBSET Numbers
          /\ "Allow" \in Actions /\ "KillProcess" \in Actions
      BY SeccompAssumption DEF Actions
    <2> HIDE DEF none
    <2>3. /\ RulesFor(Standard, "Allow") \in Seq(Rules)
          /\ allowed \in Wishes /\ Tells(<<>> \o RulesFor(Standard, "Allow"), allowed)
      BY <2>1, <2>2, PresetTells
    <2>4. <<>> \o RulesFor(Standard, "Allow") = RulesFor(Standard, "Allow")
      BY <2>3
    <2>5. /\ RulesFor(Standard, "Allow") \in Seq(Rules)
          /\ allowed \in Wishes /\ Tells(RulesFor(Standard, "Allow"), allowed)
      BY <2>3, <2>4
    <2> HIDE DEF allowed
    <2>6. /\ Permissive \in Seq(Rules) /\ denied \in Wishes /\ Tells(Permissive, denied)
      BY <2>2, <2>5, PresetTells DEF Permissive
    <2>7. CASE default \in Actions /\ rules = <<>> /\ wanted = [n \in Numbers |-> "none"]
      BY <2>1, <2>7 DEF none
    <2>8. CASE /\ default = "KillProcess" /\ rules = RulesFor(Standard, "Allow")
               /\ wanted = [n \in Numbers |-> IF n \in Standard THEN "Allow" ELSE "none"]
      <3>1. wanted = allowed
        BY <2>8 DEF allowed, none
      <3> QED BY <2>2, <2>5, <2>8, <3>1
    <2>9. CASE /\ default = "Allow" /\ rules = Permissive
               /\ wanted = [n \in Numbers |-> IF n \in Blocked THEN "KillProcess"
                                              ELSE IF n \in Standard THEN "Allow" ELSE "none"]
      <3>1. wanted = denied
        BY <2>9 DEF denied, allowed, none
      <3> HIDE DEF denied
      <3> QED BY <2>2, <2>6, <2>9, <3>1
    <2> QED BY <2>7, <2>8, <2>9 DEF Init
  <1>2. BuilderInv
    BY <1>1, SeccompAssumption DEF BuilderInv, Init
  <1>3. ProgramInv /\ EvalInv /\ VerdictInv
    BY DEF Init, ProgramInv, RefusedWithReason, EvalInv, VerdictInv, Built
  <1> QED BY <1>2, <1>3 DEF SeccompInv

(* The builder's own calls                                                 *)
LEMMA BuilderKeeps ==
  ASSUME SeccompInv, UNCHANGED <<phase, program, evalVars>>, phase = "building",
         BuilderInv'
  PROVE  SeccompInv'
  <1>1. ProgramInv'
    BY DEF SeccompInv, ProgramInv, RefusedWithReason, Built, evalVars
  <1>2. EvalInv' /\ VerdictInv'
    BY DEF SeccompInv, ProgramInv, EvalInv, VerdictInv, evalVars
  <1> QED BY <1>1, <1>2 DEF SeccompInv

(* add_rule keeps the invariant.                                           *)
LEMMA AddRuleKeeps ==
  ASSUME SeccompInv, NEW n \in Numbers, NEW a \in Actions, AddRule(n, a)
  PROVE  SeccompInv'
  <1>1. rules' \in Seq(Rules) /\ wanted' \in Wishes /\ Tells(rules', wanted')
    BY AddedTells DEF SeccompInv, BuilderInv, AddRule
  <1>2. BuilderInv'
    BY <1>1, SeccompAssumption DEF SeccompInv, BuilderInv, AddRule, Building
  <1> QED BY <1>2, BuilderKeeps DEF AddRule, Building

(* remove keeps the invariant.                                             *)
LEMMA RemoveRulesKeeps ==
  ASSUME SeccompInv, NEW n \in Numbers, RemoveRules(n)
  PROVE  SeccompInv'
  <1>1. rules' \in Seq(Rules) /\ wanted' \in Wishes /\ Tells(rules', wanted')
    BY RemovedTells DEF SeccompInv, BuilderInv, RemoveRules
  <1>2. BuilderInv'
    BY <1>1, SeccompAssumption DEF SeccompInv, BuilderInv, RemoveRules, Building
  <1> QED BY <1>2, BuilderKeeps DEF RemoveRules, Building

(* default_action keeps the invariant.                                     *)
LEMMA DefaultActionKeeps ==
  ASSUME SeccompInv, NEW a \in Actions, DefaultAction(a)
  PROVE  SeccompInv'
  <1>1. BuilderInv'
    BY SeccompAssumption DEF SeccompInv, BuilderInv, DefaultAction, Building
  <1> QED BY <1>1, BuilderKeeps DEF DefaultAction, Building

(* build keeps the invariant: it refuses for a reason, and what it accepts *)
(* loses nothing when it is encoded.                                       *)
LEMMA BuildKeeps ==
  ASSUME SeccompInv, Build
  PROVE  SeccompInv'
  <1> USE DEF SeccompInv
  <1> DEFINE d == Effective
  <1>1. /\ phase = "building" /\ phase' \in {"built", "refused"} /\ pc = 0 /\ verdict = "none"
        /\ UNCHANGED <<default, rules, wanted, ops, call, pc, acc, verdict>>
    BY DEF Build, ProgramInv, evalVars
  <1>2. BuilderInv'
    BY <1>1 DEF BuilderInv, Built
  <1>3. d' = d
    BY <1>1 DEF Effective
  <1>4. EvalInv' /\ VerdictInv'
    BY <1>1 DEF EvalInv, VerdictInv
  <1>5. /\ Exit \in Numbers /\ ExitGroup \in Numbers
        /\ d \in Seq(Rules) /\ Table(d, wanted) /\ wanted \in Wishes
    BY SeccompAssumption, EffectiveTable DEF BuilderInv
  <1>6. CASE StaysCallable(d, Exit) /\ StaysCallable(d, ExitGroup) /\ Fits(Compile(d))
    <2>1. phase' = "built" /\ program' = Encode(Compile(d))
      BY <1>6 DEF Build, Effective
    <2>2. Encode(Compile(d)) = Compile(d) /\ Compile(d)' = Compile(d)
      <3>1. Encode(Compile(d)) = Compile(d)
        BY <1>5, <1>6, FitsWhenJumpsReach
      <3> QED BY <1>1, <3>1 DEF Compile, Effective
    <2> QED BY <1>1, <1>2, <1>4, <2>1, <2>2 DEF ProgramInv, RefusedWithReason, Built
  <1>7. CASE ~(StaysCallable(d, Exit) /\ StaysCallable(d, ExitGroup) /\ Fits(Compile(d)))
    <2>1. phase' = "refused" /\ program' = program
      BY <1>7 DEF Build, Effective
    <2>2. \/ \E n \in {Exit, ExitGroup} : ~Callable(Asked(n))
          \/ Cardinality({n \in Numbers : wanted[n] # "none"}) > MaxJump
      <3>1. CASE ~StaysCallable(d, Exit)
        BY <1>5, <3>1, CallableMeans
      <3>2. CASE ~StaysCallable(d, ExitGroup)
        BY <1>5, <3>2, CallableMeans
      <3>3. CASE ~Fits(Compile(d))
        <4>1. ~(Len(d) <= MaxJump)
          BY <1>5, <3>3, FitsWhenJumpsReach
        <4>2. Len(d) \in Nat /\ Len(d) = Cardinality({n \in Numbers : wanted[n] # "none"})
          BY EffectiveTable
        <4>3. Len(d) > MaxJump
          BY <4>1, <4>2, SeccompAssumption
        <4> QED BY <4>2, <4>3
      <3> QED BY <1>7, <3>1, <3>2, <3>3
    <2>3. RefusedWithReason'
      BY <1>1, <2>2 DEF RefusedWithReason, Asked
    <2> QED BY <1>1, <1>2, <1>4, <2>1, <2>3 DEF ProgramInv, Built
  <1> QED BY <1>6, <1>7

(* Once built, a filter keeps its rules, its meaning and its program.      *)
LEMMA FilterFrozen ==
  ASSUME SeccompInv, UNCHANGED <<default, rules, wanted, ops, program>>,
         phase \in Built, phase' \in Built,
         phase' # "loaded" => pc' = 0 /\ verdict' = "none"
  PROVE  /\ BuilderInv' /\ ProgramInv' /\ Effective' = Effective
         /\ \A n : Asked(n)' = Asked(n)
  <1>1. BuilderInv'
    BY DEF SeccompInv, BuilderInv
  <1>2. Effective' = Effective /\ Compile(Effective)' = Compile(Effective)
    BY DEF Effective, Compile
  <1>3. \A n : Asked(n)' = Asked(n)
    BY DEF Asked
  <1>4. RefusedWithReason'
    BY DEF RefusedWithReason, Built
  <1> QED BY <1>1, <1>2, <1>3, <1>4 DEF SeccompInv, ProgramInv

(* Neither step of install touches the program.                            *)
LEMMA InstallKeeps ==
  ASSUME SeccompInv, SetNoNewPrivs \/ LoadFilter
  PROVE  SeccompInv'
  <1>1. /\ phase \in Built /\ phase' \in Built /\ phase # "loaded"
        /\ UNCHANGED <<default, rules, wanted, ops, program, call, pc, acc, verdict>>
    BY DEF SetNoNewPrivs, LoadFilter, Built, evalVars
  <1>2. pc = 0 /\ verdict = "none"
    BY <1>1 DEF SeccompInv, ProgramInv
  <1>3. BuilderInv' /\ ProgramInv'
    BY <1>1, <1>2, FilterFrozen
  <1>4. EvalInv' /\ VerdictInv'
    BY <1>1, <1>2 DEF EvalInv, VerdictInv
  <1> QED BY <1>3, <1>4 DEF SeccompInv

(* An evaluation begins at the header, knowing nothing of the call.        *)
LEMMA SyscallKeeps ==
  ASSUME SeccompInv, NEW native \in BOOLEAN, NEW n \in Numbers, Syscall(native, n)
  PROVE  SeccompInv'
  <1>1. /\ phase = "loaded" /\ phase' = "loaded" /\ phase \in Built
        /\ UNCHANGED <<default, rules, wanted, ops, program>>
        /\ call' = [native |-> native, nr |-> n] /\ pc' = 1 /\ verdict' = "none"
    BY DEF Syscall, Built
  <1>2. BuilderInv' /\ ProgramInv' /\ Effective' = Effective
    BY <1>1, FilterFrozen
  <1>3. program = Compile(Effective)
    BY <1>1 DEF SeccompInv, ProgramInv
  <1>4. /\ Shape(program, Effective) /\ Len(Effective) \in Nat
    BY <1>3, EffectiveTable DEF SeccompInv
  <1>5. Len(program) \in Nat /\ Len(program) >= 5
    BY <1>4 DEF Shape
  <1>6. EvalInv'
    <2>1. call'.native \in BOOLEAN /\ call'.nr \in Numbers
      BY <1>1
    <2>2. Len(program)' = Len(program) /\ Len(Effective)' = Len(Effective)
      BY <1>1, <1>2
    <2>3. 1 \in 1..Len(program) /\ 1 # Len(program)
      <3> DEFINE l == Len(program)
      <3>1. l \in Nat /\ l >= 5
        BY <1>5
      <3> HIDE DEF l
      <3>2. 1 \in 1..l /\ 1 # l
        BY <3>1
      <3> QED BY <3>2 DEF l
    <2>4. \A i \in 1..Len(Effective) : ~(4 + i < 1) /\ 1 # 5 + Len(Effective) + i
      BY <1>4
    <2> QED BY <1>1, <2>1, <2>2, <2>3, <2>4 DEF EvalInv
  <1>7. VerdictInv'
    BY <1>1 DEF VerdictInv
  <1> QED BY <1>2, <1>6, <1>7 DEF SeccompInv

(* The places an evaluation can be at                                      *)
LEMMA ProgramPlaces ==
  ASSUME SeccompInv, pc # 0
  PROVE  /\ phase = "loaded" /\ Shape(program, Effective)
         /\ Len(Effective) \in Nat /\ Len(program) \in Nat /\ pc \in Nat
         /\ \/ pc \in {1, 2, 3, 4} \/ pc = Len(program)
            \/ Len(Effective) # 0 /\ pc = 5 + Len(Effective)
            \/ \E i \in 1..Len(Effective) : pc = 4 + i
            \/ \E i \in 1..Len(Effective) : pc = 5 + Len(Effective) + i
  <1> DEFINE n == Len(Effective)
  <1>1. phase = "loaded" /\ pc \in 1..Len(program)
    BY DEF SeccompInv, EvalInv
  <1>2. Shape(program, Effective) /\ n \in Nat
    BY <1>1, EffectiveTable DEF SeccompInv, ProgramInv, Built
  <1>3. Len(program) = IF n = 0 THEN 5 ELSE 2 * n + 6
    BY <1>2 DEF Shape
  <1> HIDE DEF n
  <1>4. pc \in Nat /\ Len(program) \in Nat
    BY <1>1, <1>2, <1>3
  <1>5. ASSUME n = 0 PROVE pc \in {1, 2, 3, 4} \/ pc = Len(program)
    BY <1>1, <1>3, <1>4, <1>5
  <1>6. ASSUME n # 0
        PROVE  \/ pc \in {1, 2, 3, 4} \/ pc = Len(program) \/ pc = 5 + n
               \/ \E i \in 1..n : pc = 4 + i
               \/ \E i \in 1..n : pc = 5 + n + i
    <2>1. CASE pc > 4 /\ pc <= 4 + n
      <3>1. pc - 4 \in 1..n /\ pc = 4 + (pc - 4)
        BY <1>2, <1>4, <2>1
      <3> QED BY <3>1
    <2>2. CASE pc > 5 + n /\ pc <= 5 + n + n
      <3>1. pc - (5 + n) \in 1..n /\ pc = 5 + n + (pc - (5 + n))
        BY <1>2, <1>4, <2>2
      <3> QED BY <3>1
    <2> QED BY <1>1, <1>2, <1>3, <1>4, <1>6, <2>1, <2>2
  <1> QED BY <1>1, <1>2, <1>4, <1>5, <1>6 DEF n

(* The instruction at each place, and where it leads                       *)
LEMMA ExecuteSteps ==
  ASSUME SeccompInv, Execute
  PROVE  LET n == Len(Effective)
         IN  /\ pc # 0
             /\ \/ /\ pc = 1 /\ pc' = 2 /\ verdict' = verdict
                   /\ acc' = IF call.native THEN "native" ELSE "foreign"
                \/ /\ pc = 2 /\ verdict' = verdict /\ acc' = acc
                   /\ pc' = IF acc = "native" THEN 4 ELSE 3
                \/ pc = 3 /\ pc' = 0 /\ verdict' = "KillProcess"
                \/ pc = 4 /\ pc' = 5 /\ verdict' = verdict /\ acc' = call.nr
                \/ /\ \E i \in 1..n :
                        /\ pc = 4 + i
                        /\ pc' = IF acc = Effective[i].nr THEN 5 + n + i ELSE 4 + i + 1
                   /\ verdict' = verdict /\ acc' = acc
                \/ /\ n # 0 /\ pc = 5 + n /\ pc' = 2 * n + 6
                   /\ verdict' = verdict /\ acc' = acc
                \/ /\ \E i \in 1..n : /\ pc = 5 + n + i
                                      /\ verdict' = Effective[i].action
                   /\ pc' = 0
                \/ pc = Len(program) /\ pc' = 0 /\ verdict' = default
  <1> DEFINE n == Len(Effective)
  <1>1. pc # 0
    <2>1. pc \in DOMAIN program
      BY DEF Execute
    <2>2. program = <<>> \/ program = Compile(Effective)
      BY DEF SeccompInv, ProgramInv
    <2>3. 0 \notin DOMAIN program
      <3>1. 0 \notin DOMAIN <<>>
        OBVIOUS
      <3>2. 0 \notin DOMAIN Compile(Effective)
        <4>1. Shape(Compile(Effective), Effective) /\ Len(Effective) \in Nat
          BY EffectiveTable DEF SeccompInv
        <4>2. /\ DOMAIN Compile(Effective) = 1..Len(Compile(Effective))
              /\ Len(Compile(Effective)) \in Nat
          BY <4>1 DEF Shape
        <4> QED BY <4>2
      <3> QED BY <2>2, <3>1, <3>2
    <2> QED BY <2>1, <2>3
  <1>2. /\ Shape(program, Effective) /\ n \in Nat /\ Len(program) \in Nat /\ pc \in Nat
        /\ \/ pc \in {1, 2, 3, 4} \/ pc = Len(program)
           \/ n # 0 /\ pc = 5 + n
           \/ \E i \in 1..n : pc = 4 + i
           \/ \E i \in 1..n : pc = 5 + n + i
    BY <1>1, ProgramPlaces
  <1> HIDE DEF n
  <1>3. CASE pc = 1
    <2>1. program[pc] = Load("arch")
      BY <1>2, <1>3 DEF Shape
    <2> QED BY <1>1, <1>3, <2>1 DEF Execute, Load
  <1>4. CASE pc = 2
    <2>1. program[pc] = JumpEq("native", 1)
      BY <1>2, <1>4 DEF Shape
    <2> QED BY <1>1, <1>4, <2>1 DEF Execute, JumpEq
  <1>5. CASE pc = 3
    <2>1. program[pc] = Return("KillProcess")
      BY <1>2, <1>5 DEF Shape
    <2> QED BY <1>1, <1>5, <2>1 DEF Execute, Return
  <1>6. CASE pc = 4
    <2>1. program[pc] = Load("nr")
      BY <1>2, <1>6 DEF Shape
    <2> QED BY <1>1, <1>6, <2>1 DEF Execute, Load
  <1>7. CASE pc = Len(program)
    <2>1. program[pc] = Return(default)
      BY <1>2, <1>7 DEF Shape
    <2> QED BY <1>1, <1>7, <2>1 DEF Execute, Return
  <1>8. CASE n # 0 /\ pc = 5 + n
    <2>1. program[pc] = Jump(n)
      BY <1>2, <1>8 DEF Shape, n
    <2>2. pc' = pc + 1 + n /\ verdict' = verdict /\ acc' = acc
      BY <2>1 DEF Execute, Jump
    <2>3. pc' = 2 * n + 6
      BY <1>2, <1>8, <2>2
    <2> QED BY <1>1, <1>8, <2>2, <2>3 DEF n
  <1>9. ASSUME NEW i \in 1..n, pc = 4 + i
        PROVE  /\ pc' = IF acc = Effective[i].nr THEN 5 + n + i ELSE 4 + i + 1
               /\ verdict' = verdict /\ acc' = acc
    <2>1. program[pc] = JumpEq(Effective[i].nr, n)
      BY <1>2, <1>9 DEF Shape, n
    <2>2. /\ pc' = IF acc = Effective[i].nr THEN pc + 1 + n ELSE pc + 1
          /\ verdict' = verdict /\ acc' = acc
      BY <2>1 DEF Execute, JumpEq
    <2>3. pc + 1 + n = 5 + n + i /\ pc + 1 = 4 + i + 1
      BY <1>2, <1>9
    <2> QED BY <2>2, <2>3
  <1>10. ASSUME NEW i \in 1..n, pc = 5 + n + i
         PROVE  verdict' = Effective[i].action /\ pc' = 0
    <2>1. program[pc] = Return(Effective[i].action)
      BY <1>2, <1>10 DEF Shape, n
    <2> QED BY <2>1 DEF Execute, Return
  <1> QED BY <1>1, <1>2, <1>3, <1>4, <1>5, <1>6, <1>7, <1>8, <1>9, <1>10 DEF n

(* Each instruction hands on what it has found out of the call.            *)
LEMMA ExecuteKeeps ==
  ASSUME SeccompInv, Execute
  PROVE  SeccompInv'
  <1> DEFINE d == Effective
             n == Len(Effective)
  <1>1. UNCHANGED <<default, rules, wanted, ops, phase, program, call>>
    BY DEF Execute
  <1>2. /\ pc # 0 /\ phase = "loaded" /\ Shape(program, d)
        /\ n \in Nat /\ Len(program) \in Nat /\ pc \in Nat
    BY ExecuteSteps, ProgramPlaces
  <1>3. BuilderInv' /\ ProgramInv' /\ Effective' = Effective /\ \A m : Asked(m)' = Asked(m)
    BY <1>1, <1>2, FilterFrozen DEF Built
  <1>4. /\ verdict = "none" /\ call.native \in BOOLEAN /\ call.nr \in Numbers
        /\ pc = 2 => acc = IF call.native THEN "native" ELSE "foreign"
        /\ pc = 3 => ~call.native
        /\ pc >= 4 => call.native
        /\ pc >= 5 => acc = call.nr
        /\ \A i \in 1..n :
             /\ 4 + i < pc /\ pc <= 5 + n => d[i].nr # call.nr
             /\ pc = 5 + n + i => d[i].nr = call.nr
             /\ pc = Len(program) => d[i].nr # call.nr
    BY <1>2 DEF SeccompInv, EvalInv
  <1>5. Len(program) = IF n = 0 THEN 5 ELSE 2 * n + 6
    BY <1>2 DEF Shape
  <1>6. /\ Table(d, wanted) /\ DOMAIN d = 1..n
        /\ \A i \in 1..n : /\ d[i].nr \in Numbers /\ d[i].action \in Actions
                          /\ wanted[d[i].nr] = d[i].action
    BY EffectiveTable DEF SeccompInv
  <1>7. default \in Actions
    BY DEF SeccompInv, BuilderInv
  <1>8. Len(program)' = Len(program) /\ Effective' = d /\ Len(Effective)' = n
    BY <1>1, <1>3
  <1> HIDE DEF d, n
  \* an evaluation that ends
  <1>9. ASSUME pc' = 0, verdict' \in Actions,
               verdict' = IF call.native THEN Asked(call.nr) ELSE "KillProcess"
        PROVE  SeccompInv'
    <2>1. EvalInv'
      BY <1>9 DEF EvalInv
    <2>2. VerdictInv'
      BY <1>1, <1>3, <1>9 DEF VerdictInv
    <2> QED BY <1>3, <2>1, <2>2 DEF SeccompInv
  \* an evaluation that goes on
  <1>10. ASSUME verdict' = "none", pc' \in 1..Len(program),
                pc' = 2 => acc' = IF call.native THEN "native" ELSE "foreign",
                pc' = 3 => ~call.native,
                pc' >= 4 => call.native,
                pc' >= 5 => acc' = call.nr,
                \A i \in 1..n :
                  /\ 4 + i < pc' /\ pc' <= 5 + n => d[i].nr # call.nr
                  /\ pc' = 5 + n + i => d[i].nr = call.nr
                  /\ pc' = Len(program) => d[i].nr # call.nr
         PROVE  SeccompInv'
    <2>1. EvalInv'
      BY <1>1, <1>2, <1>4, <1>8, <1>10 DEF EvalInv
    <2>2. VerdictInv'
      BY <1>10 DEF VerdictInv
    <2> QED BY <1>3, <2>1, <2>2 DEF SeccompInv
  <1>11. ASSUME \A i \in 1..n : d[i].nr # call.nr, call.native PROVE Asked(call.nr) = default
    <2>1. wanted[call.nr] = "none"
      BY <1>4, <1>6, <1>11 DEF Table
    <2> QED BY <2>1 DEF Asked
  <1>12. CASE pc = 1 /\ pc' = 2 /\ acc' = (IF call.native THEN "native" ELSE "foreign") /\ verdict' = verdict
    BY <1>2, <1>4, <1>5, <1>10, <1>12
  <1>13. CASE pc = 2 /\ pc' = (IF acc = "native" THEN 4 ELSE 3) /\ acc' = acc /\ verdict' = verdict
    <2>1. call.native <=> pc' = 4
      BY <1>4, <1>13
    <2> QED BY <1>2, <1>4, <1>5, <1>10, <1>13, <2>1
  <1>14. CASE pc = 3 /\ pc' = 0 /\ verdict' = "KillProcess"
    BY <1>4, <1>9, <1>14 DEF Actions
  <1>15. CASE pc = 4 /\ pc' = 5 /\ verdict' = verdict /\ acc' = call.nr
    <2>1. n = 0 => 1..n = {}
      OBVIOUS
    <2> QED BY <1>2, <1>4, <1>5, <1>10, <1>15, <2>1
  <1>16. ASSUME NEW j \in 1..n, pc = 4 + j, verdict' = verdict, acc' = acc,
                pc' = IF acc = d[j].nr THEN 5 + n + j ELSE 4 + j + 1
         PROVE  SeccompInv'
    <2>1. acc = call.nr /\ call.native /\ n # 0 /\ Len(program) = 2 * n + 6
      BY <1>2, <1>4, <1>5, <1>16
    <2>2. CASE acc = d[j].nr
      <3>1. pc' = 5 + n + j
        BY <1>16, <2>2
      <3>2. \A i \in 1..n : pc' = 5 + n + i => d[i].nr = call.nr
        BY <1>2, <2>1, <2>2, <3>1
      <3> QED BY <1>2, <1>4, <1>10, <1>16, <2>1, <3>1, <3>2
    <2>3. CASE acc # d[j].nr
      <3>1. pc' = 4 + j + 1
        BY <1>16, <2>3
      <3>2. \A i \in 1..n : 4 + i < pc' => d[i].nr # call.nr
        <4> TAKE i \in 1..n
        <4>1. 4 + i < pc' => i = j \/ (4 + i < pc /\ pc <= 5 + n)
          BY <1>2, <1>16, <3>1
        <4> QED BY <1>4, <2>1, <2>3, <4>1
      <3> QED BY <1>2, <1>4, <1>10, <1>16, <2>1, <3>1, <3>2
    <2> QED BY <2>2, <2>3
  <1>17. CASE n # 0 /\ pc = 5 + n /\ pc' = 2 * n + 6 /\ verdict' = verdict /\ acc' = acc
    <2>1. \A i \in 1..n : d[i].nr # call.nr
      BY <1>2, <1>4, <1>17
    <2> QED BY <1>2, <1>4, <1>5, <1>10, <1>17, <2>1
  <1>18. ASSUME NEW j \in 1..n, pc = 5 + n + j, verdict' = d[j].action, pc' = 0
         PROVE  SeccompInv'
    <2>1. d[j].nr = call.nr /\ call.native
      BY <1>2, <1>4, <1>18
    <2>2. Asked(call.nr) = d[j].action /\ d[j].action \in Actions
      BY <1>6, <2>1 DEF Asked, Actions
    <2> QED BY <1>9, <1>18, <2>1, <2>2
  <1>19. CASE pc = Len(program) /\ pc' = 0 /\ verdict' = default
    <2>1. call.native /\ \A i \in 1..n : d[i].nr # call.nr
      BY <1>2, <1>4, <1>5, <1>19
    <2> QED BY <1>7, <1>9, <1>11, <1>19, <2>1
  <1> QED BY <1>12, <1>13, <1>14, <1>15, <1>16, <1>17, <1>18, <1>19, ExecuteSteps DEF d, n

(* The invariant holds in every state of SeccompFilter: the rules tell what*)
(* the builder's calls asked for, the program is the table of the last rule*)
(* of each number, and each place of an evaluation knows what it has ruled *)
(* out.                                                                    *)
THEOREM FilterKeepsInv == Spec => []SeccompInv
  <1>1. Init => SeccompInv
    BY InitSeccomp
  <1>2. ASSUME SeccompInv, [Next]_vars PROVE SeccompInv'
    <2>1. CASE UNCHANGED vars
      <3>1. BuilderInv'
        BY <1>2, <2>1 DEF SeccompInv, BuilderInv, vars
      <3>2. Effective' = Effective /\ Compile(Effective)' = Compile(Effective)
        BY <2>1 DEF Effective, Compile, vars
      <3>3. ProgramInv'
        BY <1>2, <2>1, <3>2 DEF SeccompInv, ProgramInv, RefusedWithReason, Asked, vars
      <3>4. EvalInv'
        BY <1>2, <2>1, <3>2 DEF SeccompInv, EvalInv, vars
      <3>5. VerdictInv'
        BY <1>2, <2>1 DEF SeccompInv, VerdictInv, Asked, vars
      <3> QED BY <3>1, <3>3, <3>4, <3>5 DEF SeccompInv
    <2>2. ASSUME NEW n \in Numbers, RemoveRules(n) PROVE SeccompInv'
      BY <1>2, <2>2, RemoveRulesKeeps
    <2>3. ASSUME NEW n \in Numbers, NEW a \in Actions, AddRule(n, a) PROVE SeccompInv'
      BY <1>2, <2>3, AddRuleKeeps
    <2>4. ASSUME NEW a \in Actions, DefaultAction(a) PROVE SeccompInv'
      BY <1>2, <2>4, DefaultActionKeeps
    <2>5. CASE Build
      BY <1>2, <2>5, BuildKeeps
    <2>6. CASE SetNoNewPrivs \/ LoadFilter
      BY <1>2, <2>6, InstallKeeps
    <2>7. CASE Execute
      BY <1>2, <2>7, ExecuteKeeps
    <2>8. ASSUME NEW n \in Numbers, NEW native \in BOOLEAN, Syscall(native, n)
          PROVE  SeccompInv'
      BY <1>2, <2>8, SyscallKeeps
    <2> QED BY <1>2, <2>1, <2>2, <2>3, <2>4, <2>5, <2>6, <2>7, <2>8 DEF Next
  <1> QED BY <1>1, <1>2, PTL DEF Spec

(* The program decides every native call as the last builder call about it *)
(* asked, or by the default, kills every call of another architecture, and *)
(* no evaluation leaves the program, for any number of rules that a jump   *)
(* can span (dedup_rules, compile_bpf).                                    *)
THEOREM ProgramMeansRules == Spec => []FilterMeansRules
  <1>1. SeccompInv => FilterMeansRules
    <2> SUFFICES ASSUME SeccompInv PROVE FilterMeansRules
      OBVIOUS
    <2>1. Len(program) \in Nat
      <3>1. CASE phase \in Built
        <4>1. program = Compile(Effective) /\ Effective \in Seq(Rules)
          BY <3>1, EffectiveTable DEF SeccompInv, ProgramInv
        <4> QED BY <4>1, CompiledShape
      <3>2. CASE phase \notin Built
        BY <3>2 DEF SeccompInv, ProgramInv
      <3> QED BY <3>1, <3>2
    <2>2. pc \in 0..Len(program)
      BY <2>1 DEF SeccompInv, EvalInv
    <2> QED BY <2>2 DEF SeccompInv, VerdictInv, FilterMeansRules
  <1> QED BY <1>1, FilterKeepsInv, PTL

(* build refuses only a filter that would take exit or exit_group from the *)
(* child or has more rules than a jump spans, never for its length.        *)
THEOREM RefusalsHaveReasons == Spec => []RefusedWithReason
  <1>1. SeccompInv => RefusedWithReason
    BY DEF SeccompInv, ProgramInv
  <1> QED BY <1>1, FilterKeepsInv, PTL

(* A filter that build has accepted lets the child end: what is asked for  *)
(* exit and exit_group is callable, and so is every verdict on them.       *)
ExitStaysCallable ==
  \A n \in {Exit, ExitGroup} :
    /\ phase \in Built => Callable(Asked(n))
    /\ verdict # "none" /\ call.native /\ call.nr = n => Callable(verdict)

(* "exit and exit_group must remain callable": no filter that can be loaded*)
(* takes them from the child, and no evaluation of one ends otherwise      *)
(* (build validates the table, the kernel runs the program).               *)
THEOREM ChildCanExit == Spec => []ExitStaysCallable
  <1> DEFINE Accepted == phase \in Built => \A n \in {Exit, ExitGroup} : Callable(Asked(n))
  <1>1. Init => Accepted
    BY DEF Init, Built
  <1>2. ASSUME SeccompInv, Accepted, [Next]_vars PROVE Accepted'
    <2>1. CASE Build
      <3>1. SUFFICES ASSUME phase' \in Built PROVE \A n \in {Exit, ExitGroup} : Callable(Asked(n))'
        OBVIOUS
      <3>2. StaysCallable(Effective, Exit) /\ StaysCallable(Effective, ExitGroup)
        BY <2>1, <3>1 DEF Build, Effective, Built
      <3>3. /\ Exit \in Numbers /\ ExitGroup \in Numbers
            /\ Table(Effective, wanted) /\ wanted \in Wishes
        BY <1>2, SeccompAssumption, EffectiveTable DEF SeccompInv, BuilderInv
      <3>4. Callable(Asked(Exit)) /\ Callable(Asked(ExitGroup))
        BY <3>2, <3>3, CallableMeans
      <3> QED BY <2>1, <3>4 DEF Build, Asked, Callable
    <2>2. CASE phase \in Built /\ [Next]_vars
      <3>1. UNCHANGED <<default, wanted>>
        BY <2>2 DEF Next, vars, AddRule, RemoveRules, DefaultAction, Building, Build,
              SetNoNewPrivs, LoadFilter, Syscall, Execute, Built
      <3> QED BY <1>2, <2>2, <3>1 DEF Asked, Callable
    <2>3. CASE phase \notin Built /\ ~Build
      <3>1. phase' \notin Built
        BY <1>2, <2>3 DEF Next, vars, AddRule, RemoveRules, DefaultAction, Building,
              SetNoNewPrivs, LoadFilter, Syscall, Execute, Built
      <3> QED BY <3>1
    <2> QED BY <1>2, <2>1, <2>2, <2>3
  <1>3. SeccompInv /\ Accepted => ExitStaysCallable
    <2> SUFFICES ASSUME SeccompInv, Accepted, NEW n \in {Exit, ExitGroup},
                        verdict # "none", call.native, call.nr = n
                 PROVE  Callable(verdict)
      BY DEF ExitStaysCallable
    <2>1. phase \in Built /\ verdict = Asked(n)
      BY DEF SeccompInv, ProgramInv, VerdictInv, Built
    <2> QED BY <2>1
  <1> HIDE DEF Accepted
  <1> QED BY <1>1, <1>2, <1>3, FilterKeepsInv, PTL DEF Spec

(* An evaluation only moves on: every jump of a loaded program leads to a  *)
(* later instruction, so each system call is decided after at most as many *)
(* steps as the program has instructions.                                  *)
THEOREM EvaluationsAdvance == Spec => [][pc # 0 => pc' = 0 \/ pc' > pc]_vars
  <1>1. ASSUME SeccompInv, [Next]_vars PROVE [pc # 0 => pc' = 0 \/ pc' > pc]_vars
    <2>1. CASE UNCHANGED vars
      BY <2>1
    <2>2. CASE Execute
      <3>1. Len(Effective) \in Nat /\ pc \in Nat
        BY <1>1, <2>2, ExecuteSteps, ProgramPlaces
      <3> QED BY <1>1, <2>2, <3>1, ExecuteSteps
    <2>3. CASE Next /\ ~Execute
      <3>1. pc = 0
        BY <1>1, <2>3 DEF Next, AddRule, RemoveRules, DefaultAction, Building, Build,
              SetNoNewPrivs, LoadFilter, Syscall, SeccompInv, ProgramInv
      <3> QED BY <3>1
    <2> QED BY <1>1, <2>1, <2>2, <2>3
  <1> QED BY <1>1, FilterKeepsInv, PTL DEF Spec
=============================================================================
