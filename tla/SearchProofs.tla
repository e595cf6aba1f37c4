---------------------------- MODULE SearchProofs ----------------------------
(***************************************************************************)
(* What a search answers, for any entries, rankings, similarities and      *)
(* requests: the candidates of each index are the best K in scope, their   *)
(* merged scores are those of reciprocal rank fusion, the insertion sort   *)
(* orders them in whatever order they come, and the answer is the best K.  *)
(***************************************************************************)
EXTENDS Search, FiniteSetTheorems, TLAPS

-----------------------------------------------------------------------------
(* Finite sets: induction as the absence of a smallest exception.           *)

\* A set of naturals that is not empty has a least element.
LEMMA Least ==
    ASSUME NEW S \in SUBSET Nat, S # {}
    PROVE  \E x \in S : \A y \in S : x <= y
<1>1. PICK x \in S : \A y \in S : ~ (<<y, x>> \in OpToRel(<, Nat))
  BY NatLessThanWellFounded, WFMin
<1>2. ASSUME NEW y \in S PROVE x <= y
  <2>1. ~ (y < x)
    BY <1>1 DEF OpToRel
  <2> QED
    BY <2>1
<1> QED
  BY <1>2

\* Of the subsets of a finite set that have some property, B, one has it and no
\* set with one element less does.
LEMMA Smallest ==
    ASSUME NEW S, IsFiniteSet(S), NEW B \in SUBSET (SUBSET S), B # {}
    PROVE  \E T \in B : \A x \in T : T \ {x} \notin B
<1>1. \A T \in B : IsFiniteSet(T) /\ Cardinality(T) \in Nat
  BY FS_Subset, FS_CardinalityType
<1> DEFINE Sizes == {Cardinality(T) : T \in B}
<1>2. PICK n \in Sizes : \A m \in Sizes : n <= m
  <2>1. Sizes \in SUBSET Nat /\ Sizes # {}
    BY <1>1
  <2> HIDE DEF Sizes
  <2> QED
    BY <2>1, Least
<1>3. PICK T \in B : Cardinality(T) = n
  BY <1>2
<1>4. ASSUME NEW x \in T, T \ {x} \in B PROVE FALSE
  <2>1. Cardinality(T \ {x}) = n - 1 /\ n \in Nat
    BY <1>1, <1>3, FS_RemoveElement
  <2>2. n - 1 \in Sizes
    BY <1>4, <2>1
  <2> QED
    BY <1>2, <2>1, <2>2
<1> QED
  BY <1>3, <1>4

-----------------------------------------------------------------------------
(* Enumerations of a finite set.                                            *)

\* A sequence has its elements in the order of R.
Sorted(s, R) == \A i, j \in DOMAIN s : i < j => <<s[i], s[j]>> \in R

\* R orders S strictly.
Orders(R, S) ==
    /\ \A a \in S : <<a, a>> \notin R
    /\ \A a, b \in S : a # b => <<a, b>> \in R \/ <<b, a>> \in R
    /\ \A a, b, c \in S : <<a, b>> \in R /\ <<b, c>> \in R => <<a, c>> \in R

\* s has each element of S once, and no other.
Lists(s, S) ==
    /\ s \in Seq(S)
    /\ \A i, j \in DOMAIN s : s[i] = s[j] => i = j
    /\ \A r \in S : \E i \in DOMAIN s : s[i] = r

\* What SetToSeqs has for a finite set.
LEMMA Enumerated ==
    ASSUME NEW S, IsFiniteSet(S), NEW s \in SetToSeqs(S)
    PROVE  Lists(s, S) /\ Len(s) = Cardinality(S)
<1> DEFINE n == Cardinality(S)
<1>1. n \in Nat
  BY FS_CardinalityType
<1>2. s \in [1..n -> S] /\ \A i, j \in 1..n : i # j => s[i] # s[j]
  BY DEF SetToSeqs
<1>3. s \in Injection(1..n, S)
  BY <1>2 DEF Injection, IsInjective
<1>4. IsFiniteSet(1..n) /\ Cardinality(1..n) = n
  BY <1>1, FS_Interval
<1>5. s \in Surjection(1..n, S)
  BY <1>3, <1>4, FS_Injection
<1>6. s \in Seq(S) /\ Len(s) = n /\ DOMAIN s = 1..n
  BY <1>1, <1>2
<1> QED
  BY <1>2, <1>5, <1>6 DEF Surjection, Lists

\* And all that lists S is there.
LEMMA EnumeratedBy ==
    ASSUME NEW S, NEW s, Lists(s, S)
    PROVE  IsFiniteSet(S) /\ s \in SetToSeqs(S) /\ Len(s) = Cardinality(S)
<1> DEFINE n == Len(s)
<1>1. n \in Nat /\ DOMAIN s = 1..n /\ s \in [1..n -> S]
  BY DEF Lists
<1>2. s \in Bijection(1..n, S)
  BY <1>1 DEF Lists, Bijection, Injection, Surjection, IsInjective
<1>3. ExistsBijection(1..n, S)
  BY <1>2 DEF ExistsBijection
<1>4. IsFiniteSet(S) /\ Cardinality(S) = n
  BY <1>1, <1>3, FS_NatBijection, FS_CountingElements
<1> QED
  BY <1>1, <1>4 DEF SetToSeqs, Lists

\* A finite set that R orders has a last element.
LEMMA LastElement ==
    ASSUME NEW S, IsFiniteSet(S), S # {}, NEW R, Orders(R, S)
    PROVE  \E x \in S : \A y \in S \ {x} : <<y, x>> \in R
<1> DEFINE Final(T) == \E x \in T : \A y \in T \ {x} : <<y, x>> \in R
           Bad == {T \in SUBSET S : T # {} /\ ~ Final(T)}
<1> SUFFICES ASSUME S \in Bad PROVE FALSE
  OBVIOUS
<1>1. PICK T \in Bad : \A x \in T : T \ {x} \notin Bad
  <2>1. Bad \in SUBSET (SUBSET S) /\ Bad # {}
    OBVIOUS
  <2> HIDE DEF Bad
  <2> QED
    BY <2>1, Smallest
<1>2. PICK z \in T : TRUE
  OBVIOUS
<1>3. T \ {z} = {} \/ Final(T \ {z})
  <2>1. T \ {z} \notin Bad /\ T \ {z} \in SUBSET S
    BY <1>1
  <2> QED
    BY <2>1
<1>4. CASE T \ {z} = {}
  BY <1>4
<1>5. CASE Final(T \ {z})
  <2>1. PICK x \in T \ {z} : \A y \in (T \ {z}) \ {x} : <<y, x>> \in R
    BY <1>5
  <2>2. CASE <<z, x>> \in R
    <3>1. \A y \in T \ {x} : <<y, x>> \in R
      BY <2>1, <2>2
    <3> QED
      BY <3>1
  <2>3. CASE <<x, z>> \in R
    <3>1. ASSUME NEW y \in T \ {z} PROVE <<y, z>> \in R
      <4>1. y = x \/ <<y, x>> \in R
        BY <2>1
      <4> QED
        BY <4>1, <2>3 DEF Orders
    <3> QED
      BY <1>2, <3>1
  <2> QED
    BY <2>1, <2>2, <2>3 DEF Orders
<1> QED
  BY <1>3, <1>4, <1>5

\* It can be sorted.
LEMMA SortedExists ==
    ASSUME NEW S, IsFiniteSet(S), NEW R, Orders(R, S)
    PROVE  \E s : Lists(s, S) /\ Sorted(s, R)
<1> DEFINE Good(T) == \E s : Lists(s, T) /\ Sorted(s, R)
           Bad == {T \in SUBSET S : ~ Good(T)}
<1> SUFFICES ASSUME S \in Bad PROVE FALSE
  OBVIOUS
<1>1. PICK T \in Bad : \A x \in T : T \ {x} \notin Bad
  <2>1. Bad \in SUBSET (SUBSET S) /\ Bad # {}
    OBVIOUS
  <2> HIDE DEF Bad
  <2> QED
    BY <2>1, Smallest
<1>2. T # {}
  <2>1. Lists(<<>>, {}) /\ Sorted(<<>>, R)
    BY DEF Lists, Sorted
  <2> QED
    BY <1>1, <2>1
<1>3. PICK x \in T : \A y \in T \ {x} : <<y, x>> \in R
  <2>1. IsFiniteSet(T) /\ Orders(R, T)
    BY FS_Subset DEF Orders
  <2> QED
    BY <1>2, <2>1, LastElement
<1>4. PICK s : Lists(s, T \ {x}) /\ Sorted(s, R)
  <2>1. T \ {x} \in SUBSET S /\ T \ {x} \notin Bad
    BY <1>1
  <2> QED
    BY <2>1
<1> DEFINE t == Append(s, x)
<1>5. /\ t \in Seq(T) /\ DOMAIN t = 1..(Len(s) + 1) /\ Len(s) \in Nat
      /\ \A i \in 1..Len(s) : t[i] = s[i] /\ s[i] \in T \ {x}
      /\ t[Len(s) + 1] = x /\ DOMAIN s = 1..Len(s)
  BY <1>4 DEF Lists
<1> HIDE DEF t
<1>6. \A i \in DOMAIN t : i \in DOMAIN s \/ i = Len(s) + 1
  BY <1>5
<1>7. Lists(t, T)
  <2>1. ASSUME NEW i \in DOMAIN t, NEW j \in DOMAIN t, t[i] = t[j] PROVE i = j
    BY <1>4, <1>5, <1>6, <2>1 DEF Lists
  <2>2. ASSUME NEW r \in T PROVE \E i \in DOMAIN t : t[i] = r
    <3>1. CASE r = x
      <4>1. Len(s) + 1 \in DOMAIN t
        BY <1>5
      <4> QED
        BY <1>5, <3>1, <4>1
    <3>2. CASE r # x
      <4>1. PICK i \in DOMAIN s : s[i] = r
        BY <1>4, <3>2 DEF Lists
      <4>2. i \in DOMAIN t /\ t[i] = s[i]
        BY <1>5
      <4> QED
        BY <4>1, <4>2
    <3> QED
      BY <3>1, <3>2
  <2> QED
    BY <1>5, <2>1, <2>2 DEF Lists
<1>8. Sorted(t, R)
  <2> SUFFICES ASSUME NEW i \in DOMAIN t, NEW j \in DOMAIN t, i < j
               PROVE  <<t[i], t[j]>> \in R
    BY DEF Sorted
  <2>1. i \in DOMAIN s /\ t[i] = s[i] /\ s[i] \in T \ {x}
    BY <1>5, <1>6
  <2>2. CASE j \in DOMAIN s
    BY <1>4, <1>5, <2>1, <2>2 DEF Sorted
  <2>3. CASE j = Len(s) + 1
    BY <1>3, <1>5, <2>1, <2>3
  <2> QED
    BY <1>6, <2>2, <2>3
<1> QED
  BY <1>1, <1>7, <1>8

\* So there is what ORDER BY asks for.
LEMMA InOrderSorts ==
    ASSUME NEW S, IsFiniteSet(S), NEW R, Orders(R, S)
    PROVE  Lists(InOrder(S, R), S) /\ Sorted(InOrder(S, R), R)
<1>1. PICK s : Lists(s, S) /\ Sorted(s, R)
  BY SortedExists
<1>2. s \in SetToSeqs(S)
  BY <1>1, EnumeratedBy
<1>3. InOrder(S, R) \in SetToSeqs(S) /\ Sorted(InOrder(S, R), R)
  BY <1>1, <1>2 DEF InOrder, Sorted
<1> QED
  BY <1>3, Enumerated

-----------------------------------------------------------------------------
(* Places.                                                                  *)

Place(S, R, r) == Cardinality({q \in S : <<q, r>> \in R}) + 1

\* In a sorted sequence the i-th has i - 1 before it.
LEMMA SortedPlaces ==
    ASSUME NEW S, NEW R, Orders(R, S), NEW s, Lists(s, S), Sorted(s, R), NEW i \in DOMAIN s
    PROVE  Place(S, R, s[i]) = i
<1> DEFINE before == {q \in S : <<q, s[i]>> \in R}
           f == [j \in 1..(i - 1) |-> s[j]]
<1>1. /\ DOMAIN s = 1..Len(s) /\ Len(s) \in Nat /\ i \in 1..Len(s)
      /\ \A j \in 1..Len(s) : s[j] \in S
      /\ \A j \in 1..(i - 1) : j \in DOMAIN s /\ j < i
  BY DEF Lists
<1>2. \A j \in 1..(i - 1) : f[j] \in before
  BY <1>1 DEF Sorted
<1>3. ASSUME NEW q \in before PROVE \E j \in 1..(i - 1) : f[j] = q
  <2>1. PICK j \in DOMAIN s : s[j] = q
    BY DEF Lists
  <2>2. j # i
    BY <1>1, <2>1 DEF Orders
  <2>3. ~ (i < j)
    <3> SUFFICES ASSUME i < j PROVE FALSE
      OBVIOUS
    <3>1. <<s[i], q>> \in R /\ <<q, s[i]>> \in R /\ s[i] \in S
      BY <1>1, <2>1 DEF Sorted
    <3> QED
      BY <3>1 DEF Orders
  <2>4. j \in 1..(i - 1)
    BY <1>1, <2>2, <2>3
  <2> QED
    BY <2>1, <2>4
<1>4. f \in Bijection(1..(i - 1), before)
  <2>1. \A j, k \in 1..(i - 1) : f[j] = f[k] => j = k
    BY <1>1 DEF Lists
  <2>2. f \in [1..(i - 1) -> before]
    <3> HIDE DEF before
    <3> QED
      BY <1>2
  <2>3. DOMAIN f = 1..(i - 1)
    OBVIOUS
  <2> HIDE DEF before, f
  <2> QED
    BY <2>1, <2>2, <2>3, <1>3 DEF Bijection, Injection, Surjection, IsInjective
<1>5. Cardinality(before) = i - 1
  <2>1. i - 1 \in Nat
    BY <1>1
  <2>2. ExistsBijection(1..(i - 1), before)
    BY <1>4 DEF ExistsBijection
  <2> HIDE DEF before
  <2> QED
    BY <2>1, <2>2, FS_CountingElements
<1> QED
  BY <1>1, <1>5 DEF Place

\* The first k of them.
LEMMA Cuts ==
    ASSUME NEW S, NEW s \in Seq(S), NEW k \in Nat
    PROVE  /\ Cut(s, k) \in Seq(S)
           /\ Len(Cut(s, k)) = IF Len(s) > k THEN k ELSE Len(s)
           /\ \A i \in 1..Len(Cut(s, k)) : i \in DOMAIN s /\ Cut(s, k)[i] = s[i]
<1>1. CASE Len(s) > k
  BY <1>1 DEF Cut
<1>2. CASE ~ (Len(s) > k)
  BY <1>2 DEF Cut
<1> QED
  BY <1>1, <1>2

\* Where a sequence has an element.
PositionIn(c, r) == CHOOSE i \in DOMAIN c : c[i] = r

\* c has the best k of S by R, each at its place.
BestOf(c, S, R, k) ==
    /\ \A r : r \in ToSet(c) <=> r \in S /\ Place(S, R, r) <= k
    /\ \A r \in ToSet(c) : PositionIn(c, r) = Place(S, R, r)
    /\ \A r \in S : Place(S, R, r) \in Nat \ {0}

\* What a query that is sorted and cut returns, and at which places.
LEMMA CutPlaces ==
    ASSUME NEW S, IsFiniteSet(S), NEW R, Orders(R, S), NEW k \in Nat,
           NEW c, c = Cut(InOrder(S, R), k)
    PROVE  BestOf(c, S, R, k)
<1>1. PICK s : s = InOrder(S, R)
  OBVIOUS
<1>2. c = Cut(s, k)
  BY <1>1
<1>3. Lists(s, S) /\ Sorted(s, R)
  BY <1>1, InOrderSorts
<1>4. /\ c \in Seq(S) /\ Len(c) = IF Len(s) > k THEN k ELSE Len(s)
      /\ \A i \in 1..Len(c) : i \in DOMAIN s /\ c[i] = s[i]
  BY <1>2, <1>3, Cuts DEF Lists
<1>5. DOMAIN c = 1..Len(c) /\ DOMAIN s = 1..Len(s) /\ Len(s) \in Nat /\ s \in Seq(S)
  BY <1>3, <1>4 DEF Lists
<1>6. \A i \in DOMAIN s : s[i] \in S /\ Place(S, R, s[i]) = i
  BY <1>3, <1>5, SortedPlaces
<1>7. \A r \in S : \E i \in DOMAIN s : s[i] = r /\ Place(S, R, r) = i
  BY <1>3, <1>6 DEF Lists
<1>8. ASSUME NEW r \in ToSet(c)
      PROVE  r \in S /\ Place(S, R, r) <= k /\ PositionIn(c, r) = Place(S, R, r)
  <2>1. \E i \in DOMAIN c : c[i] = r
    BY DEF ToSet
  <2>2. PICK i : i = PositionIn(c, r)
    OBVIOUS
  <2>3. i \in DOMAIN c /\ c[i] = r
    BY <2>1, <2>2 DEF PositionIn
  <2>4. i \in DOMAIN s /\ s[i] = r
    BY <1>4, <1>5, <2>3
  <2>5. Place(S, R, r) = i /\ r \in S
    BY <1>6, <2>4
  <2>6. i <= k
    BY <1>4, <1>5, <2>3
  <2> QED
    BY <2>2, <2>5, <2>6
<1>9. ASSUME NEW r \in S, Place(S, R, r) <= k PROVE r \in ToSet(c)
  <2>1. PICK i \in DOMAIN s : s[i] = r /\ Place(S, R, r) = i
    BY <1>7
  <2>2. i \in DOMAIN c
    BY <1>4, <1>5, <1>9, <2>1
  <2>3. c[i] = r
    BY <1>4, <1>5, <2>1, <2>2
  <2> QED
    BY <2>2, <2>3 DEF ToSet
<1>10. \A r \in S : Place(S, R, r) \in Nat \ {0}
  BY <1>5, <1>7
<1> QED
  BY <1>8, <1>9, <1>10 DEF BestOf

-----------------------------------------------------------------------------
(* sortHits.                                                                *)

\* InsertAt puts one element in, and moves the rest up.
LEMMA Inserted ==
    ASSUME NEW S, NEW s \in Seq(S), NEW r, NEW k \in Nat, k <= Len(s)
    PROVE  InsertAt(s, k + 1, r) = [j \in 1..(Len(s) + 1) |-> IF j <= k THEN s[j]
                                                             ELSE IF j = k + 1 THEN r
                                                             ELSE s[j - 1]]
<1> DEFINE a == SubSeq(s, 1, k)
           b == SubSeq(s, k + 1, Len(s))
<1>1. Len(s) \in Nat /\ k \in Nat /\ k <= Len(s) /\ \A i \in 1..Len(s) : s[i] \in S
  OBVIOUS
<1>2. a \in Seq(S \cup {r}) /\ Len(a) = k /\ \A j \in 1..k : a[j] = s[j]
  BY <1>1
<1>3. /\ b \in Seq(S \cup {r}) /\ Len(b) = Len(s) - k
      /\ \A j \in 1..(Len(s) - k) : b[j] = s[k + j]
  BY <1>1
<1> HIDE DEF a, b
<1>4. PICK c : c = a \o <<r>>
  OBVIOUS
<1>5. c \in Seq(S \cup {r}) /\ Len(c) = k + 1 /\ c[k + 1] = r /\ \A j \in 1..k : c[j] = s[j]
  <2>1. <<r>> \in Seq(S \cup {r}) /\ Len(<<r>>) = 1 /\ <<r>>[1] = r
    OBVIOUS
  <2>2. PICK d : d = <<r>>
    OBVIOUS
  <2>3. c \in Seq(S \cup {r}) /\ Len(c) = k + 1
    BY <1>2, <1>4, <2>1
  <2>4. c[k + 1] = d[1]
    BY <1>2, <1>4, <2>1, <2>2
  <2>5. \A j \in 1..k : c[j] = a[j]
    BY <1>2, <1>4, <2>1
  <2> QED
    BY <1>2, <2>1, <2>2, <2>3, <2>4, <2>5
<1>6. PICK u : u = c \o b
  OBVIOUS
<1>7. /\ u \in Seq(S \cup {r}) /\ Len(u) = Len(s) + 1
      /\ \A j \in 1..(k + 1) : u[j] = c[j]
      /\ \A j \in (k + 2)..(Len(s) + 1) : u[j] = b[j - (k + 1)]
  BY <1>1, <1>3, <1>5, <1>6
<1>8. \A j \in (k + 2)..(Len(s) + 1) : u[j] = s[j - 1]
  <2> TAKE j \in (k + 2)..(Len(s) + 1)
  <2>1. j - (k + 1) \in 1..(Len(s) - k) /\ k + (j - (k + 1)) = j - 1
    BY <1>1
  <2> QED
    BY <1>3, <1>7, <2>1
<1>9. InsertAt(s, k + 1, r) = u
  <2>1. (k + 1) - 1 = k
    BY <1>1
  <2> QED
    BY <1>4, <1>6, <2>1 DEF InsertAt, a, b
<1>10. u[k + 1] = r /\ \A j \in 1..k : u[j] = s[j]
  BY <1>1, <1>5, <1>7
<1>11. u = [j \in 1..(Len(s) + 1) |-> u[j]]
  BY <1>7
<1>12. ASSUME NEW j \in 1..(Len(s) + 1)
       PROVE  u[j] = IF j <= k THEN s[j] ELSE IF j = k + 1 THEN r ELSE s[j - 1]
  <2>1. CASE j <= k
    BY <1>1, <1>10, <2>1
  <2>2. CASE j = k + 1
    BY <1>1, <1>10, <2>2
  <2>3. CASE ~ (j <= k) /\ j # k + 1
    BY <1>1, <1>8, <2>3
  <2> QED
    BY <2>1, <2>2, <2>3
<1>13. u = [j \in 1..(Len(s) + 1) |-> IF j <= k THEN s[j] ELSE IF j = k + 1 THEN r ELSE s[j - 1]]
  BY <1>11, <1>12
<1> QED
  BY <1>9, <1>13

\* The order of the answer: by score and then by id.
ByScore(m) == {p \in (DOMAIN m) \X (DOMAIN m) : Before(m, p[1], p[2])}

\* One more hit among sorted ones.
LEMMA HitInserted ==
    ASSUME NEW m, Orders(ByScore(m), DOMAIN m), NEW S \in SUBSET DOMAIN m,
           NEW s, Lists(s, S), Sorted(s, ByScore(m)), NEW r \in DOMAIN m, r \notin S
    PROVE  Lists(InsertHit(m, s, r), S \cup {r}) /\ Sorted(InsertHit(m, s, r), ByScore(m))
<1> DEFINE R == ByScore(m)
           stays == {i \in DOMAIN s : ~ Before(m, r, s[i])}
           first(k) == /\ k \in 0..Len(s)
                       /\ \A i \in 1..k : <<s[i], r>> \in R
                       /\ \A i \in (k + 1)..Len(s) : <<r, s[i]>> \in R
<1>1. /\ s \in Seq(S) /\ Len(s) \in Nat /\ DOMAIN s = 1..Len(s)
      /\ \A i \in DOMAIN s : s[i] \in S /\ s[i] \in DOMAIN m /\ s[i] # r
  BY DEF Lists
<1>2. \A i \in DOMAIN s : (i \in stays <=> <<r, s[i]>> \notin R) /\ (i \in stays <=> <<s[i], r>> \in R)
  <2> TAKE i \in DOMAIN s
  <2>1. i \in stays <=> <<r, s[i]>> \notin R
    BY <1>1 DEF ByScore
  <2>2. <<s[i], r>> \in R <=> <<r, s[i]>> \notin R
    BY <1>1 DEF Orders
  <2> QED
    BY <2>1, <2>2
<1>3. \A i, j \in DOMAIN s : i < j /\ j \in stays => i \in stays
  <2> SUFFICES ASSUME NEW i \in DOMAIN s, NEW j \in DOMAIN s, i < j, j \in stays
               PROVE  <<s[i], r>> \in R
    BY <1>2
  <2>1. <<s[i], s[j]>> \in R /\ <<s[j], r>> \in R
    BY <1>2 DEF Sorted
  <2> QED
    BY <1>1, <2>1 DEF Orders
<1>4. PICK k : k = IF stays = {} THEN 0 ELSE CHOOSE i \in stays : \A j \in stays : j <= i
  OBVIOUS
<1>5. first(k)
  <2>1. CASE stays = {}
    <3>1. k = 0
      BY <1>4, <2>1
    <3>2. k \in 0..Len(s) /\ 1..k = {} /\ (k + 1)..Len(s) = DOMAIN s
      BY <1>1, <3>1
    <3>3. \A i \in DOMAIN s : <<r, s[i]>> \in R
      <4> HIDE DEF stays, R
      <4> QED
        BY <1>2, <2>1
    <3> QED
      BY <3>2, <3>3
  <2>2. CASE stays # {}
    <3>1. \E i \in stays : \A j \in stays : j <= i
      <4> DEFINE behind == {Len(s) - i : i \in stays}
      <4>1. \E x \in behind : \A y \in behind : x <= y
        <5>1. behind \in SUBSET Nat
          BY <1>1
        <5>2. behind # {}
          BY <2>2
        <5> HIDE DEF behind
        <5> QED
          BY <5>1, <5>2, Least
      <4>2. PICK i \in stays : \A j \in stays : Len(s) - i <= Len(s) - j
        BY <4>1
      <4>3. \A j \in stays : j <= i
        BY <1>1, <4>2
      <4> QED
        BY <4>3
    <3>2. k \in stays /\ \A j \in stays : j <= k
      <4> HIDE DEF stays
      <4> QED
        BY <1>4, <2>2, <3>1
    <3>3. k \in 1..Len(s)
      BY <1>1, <3>2
    <3>4. ASSUME NEW i \in 1..k PROVE <<s[i], r>> \in R
      <4>1. i \in DOMAIN s /\ (i = k \/ i < k)
        BY <1>1, <3>3
      <4> HIDE DEF stays, R
      <4> QED
        BY <1>2, <1>3, <3>2, <3>3, <1>1, <4>1
    <3>5. ASSUME NEW i \in (k + 1)..Len(s) PROVE <<r, s[i]>> \in R
      <4>1. i \in DOMAIN s /\ ~ (i <= k)
        BY <1>1, <3>3
      <4>2. i \notin stays
        BY <3>2, <4>1
      <4> HIDE DEF stays, R
      <4> QED
        BY <1>2, <4>1, <4>2
    <3> QED
      BY <1>1, <3>3, <3>4, <3>5
  <2> QED
    BY <2>1, <2>2
<1>6. PICK t : t = InsertHit(m, s, r)
  OBVIOUS
<1>7. t = InsertAt(s, k + 1, r)
  BY <1>4, <1>6 DEF InsertHit
<1> HIDE DEF stays
<1>8. /\ t \in Seq(S \cup {r}) /\ Len(t) = Len(s) + 1 /\ DOMAIN t = 1..(Len(s) + 1)
      /\ k \in Nat /\ k <= Len(s)
      /\ \A j \in 1..k : t[j] = s[j]
      /\ t[k + 1] = r
      /\ \A j \in (k + 2)..(Len(s) + 1) : t[j] = s[j - 1]
  <2>1. k \in Nat /\ k <= Len(s)
    BY <1>1, <1>5
  <2>2. t = [j \in 1..(Len(s) + 1) |-> IF j <= k THEN s[j]
                                      ELSE IF j = k + 1 THEN r ELSE s[j - 1]]
    BY <1>1, <1>7, <2>1, Inserted
  <2>3. \A j \in 1..(Len(s) + 1) : t[j] \in S \cup {r}
    <3> TAKE j \in 1..(Len(s) + 1)
    <3>1. j <= k => s[j] \in S
      BY <1>1, <2>1
    <3>2. ~ (j <= k) /\ j # k + 1 => s[j - 1] \in S
      BY <1>1, <2>1
    <3> QED
      BY <2>2, <3>1, <3>2
  <2>4. t \in Seq(S \cup {r}) /\ Len(t) = Len(s) + 1 /\ DOMAIN t = 1..(Len(s) + 1)
    BY <1>1, <2>2, <2>3
  <2> QED
    BY <1>1, <2>1, <2>2, <2>4
<1>9. \A j \in DOMAIN t :
          \/ j \in 1..k /\ j \in DOMAIN s
          \/ j = k + 1
          \/ j \in (k + 2)..(Len(s) + 1) /\ j - 1 \in DOMAIN s
  BY <1>1, <1>8
<1>10. Lists(t, S \cup {r})
  <2>1. ASSUME NEW i \in DOMAIN t, NEW j \in DOMAIN t, t[i] = t[j] PROVE i = j
    <3>1. i = k + 1 <=> t[i] = r
      BY <1>1, <1>8, <1>9
    <3>2. j = k + 1 <=> t[j] = r
      BY <1>1, <1>8, <1>9
    <3>3. \A p, q \in DOMAIN s : s[p] = s[q] => p = q
      BY DEF Lists
    <3> HIDE DEF first
    <3> QED
      BY <1>1, <1>8, <1>9, <2>1, <3>1, <3>2, <3>3
  <2>2. ASSUME NEW x \in S PROVE \E i \in DOMAIN t : t[i] = x
    <3>1. PICK i \in DOMAIN s : s[i] = x
      BY DEF Lists
    <3>2. CASE i <= k
      <4>1. i \in 1..k /\ i \in DOMAIN t
        BY <1>1, <1>8, <3>2
      <4> QED
        BY <1>8, <3>1, <4>1
    <3>3. CASE ~ (i <= k)
      <4>1. i + 1 \in (k + 2)..(Len(s) + 1) /\ i + 1 \in DOMAIN t /\ (i + 1) - 1 = i
        BY <1>1, <1>8, <3>3
      <4> QED
        BY <1>8, <3>1, <4>1
    <3> QED
      BY <3>2, <3>3
  <2>3. k + 1 \in DOMAIN t
    BY <1>8
  <2> QED
    BY <1>8, <2>1, <2>2, <2>3 DEF Lists
<1>11. Sorted(t, R)
  <2> SUFFICES ASSUME NEW i \in DOMAIN t, NEW j \in DOMAIN t, i < j
               PROVE  <<t[i], t[j]>> \in R
    BY DEF Sorted
  <2>1. \A p, q \in DOMAIN s : p < q => <<s[p], s[q]>> \in R
    BY DEF Sorted
  <2>2. /\ \A p \in 1..k : <<s[p], r>> \in R
        /\ \A p \in (k + 1)..Len(s) : <<r, s[p]>> \in R
    BY <1>5
  <2> HIDE DEF R, first
  <2>3. CASE i \in 1..k /\ i \in DOMAIN s
    <3>1. t[i] = s[i]
      BY <1>8, <2>3
    <3>2. CASE j = k + 1
      BY <1>8, <2>2, <2>3, <3>1, <3>2
    <3>3. CASE j \in 1..k /\ j \in DOMAIN s
      BY <1>8, <2>1, <2>3, <3>1, <3>3
    <3>4. CASE j \in (k + 2)..(Len(s) + 1) /\ j - 1 \in DOMAIN s
      <4>1. i < j - 1 /\ t[j] = s[j - 1]
        BY <1>8, <2>3, <3>4
      <4> QED
        BY <2>1, <2>3, <3>1, <3>4, <4>1
    <3> QED
      BY <1>9, <3>2, <3>3, <3>4
  <2>4. CASE i = k + 1
    <3>1. j \in (k + 2)..(Len(s) + 1) /\ j - 1 \in (k + 1)..Len(s)
      BY <1>8, <2>4
    <3> QED
      BY <1>8, <2>2, <2>4, <3>1
  <2>5. CASE i \in (k + 2)..(Len(s) + 1) /\ i - 1 \in DOMAIN s
    <3>1. j \in (k + 2)..(Len(s) + 1) /\ j - 1 \in DOMAIN s /\ i - 1 < j - 1
      BY <1>1, <1>8, <2>5
    <3> QED
      BY <1>8, <2>1, <2>5, <3>1
  <2> QED
    BY <1>9, <2>3, <2>4, <2>5
<1> QED
  BY <1>6, <1>10, <1>11

\* f has what sortHits has after each of n hits.
Inserts(f, m, out, n) ==
    f = [i \in 0..n |-> IF i = 0 THEN <<>> ELSE InsertHit(m, f[i - 1], out[i])]

\* The recursion of SortHits has a solution.
LEMMA SortRuns ==
    ASSUME NEW m, NEW out, NEW n \in Nat
    PROVE  \E f : Inserts(f, m, out, n)
<1> DEFINE Body(g, i) == IF i = 0 THEN <<>> ELSE InsertHit(m, g[i - 1], out[i])
           Solves(g, k) == /\ g = [i \in 0..n |-> g[i]]
                           /\ \A i \in 0..k : g[i] = Body(g, i)
           Bad == {k \in 0..n : ~ \E g : Solves(g, k)}
<1>1. Bad = {}
  <2> SUFFICES ASSUME Bad # {} PROVE FALSE
    OBVIOUS
  <2>1. PICK k \in Bad : \A j \in Bad : k <= j
    <3>1. Bad \in SUBSET Nat
      OBVIOUS
    <3> HIDE DEF Bad
    <3> QED
      BY <3>1, Least
  <2>2. k \in 0..n /\ ~ \E g : Solves(g, k)
    BY <2>1
  <2>3. CASE k = 0
    <3> DEFINE g == [i \in 0..n |-> <<>>]
    <3>1. g = [i \in 0..n |-> g[i]]
      OBVIOUS
    <3>2. \A i \in 0..0 : g[i] = Body(g, i)
      OBVIOUS
    <3> HIDE DEF g
    <3> QED
      BY <2>2, <2>3, <3>1, <3>2
  <2>4. CASE k # 0
    <3>1. k - 1 \in 0..n /\ ~ (k <= k - 1) /\ k \in 1..n
      BY <2>2, <2>4
    <3>2. k - 1 \notin Bad
      BY <2>1, <3>1
    <3>3. PICK g : Solves(g, k - 1)
      BY <3>1, <3>2
    <3> DEFINE h == [i \in 0..n |-> IF i = k THEN Body(g, k) ELSE g[i]]
    <3>4. h = [i \in 0..n |-> h[i]]
      OBVIOUS
    <3>5. ASSUME NEW i \in 0..k PROVE h[i] = Body(h, i)
      <4>1. i \in 0..n /\ (i = k \/ i \in 0..(k - 1))
        BY <2>2
      <4>2. i # 0 => h[i - 1] = g[i - 1]
        <5>1. i # 0 => i - 1 \in 0..n /\ i - 1 # k
          BY <2>2
        <5> HIDE DEF Body
        <5> QED
          BY <5>1
      <4>3. Body(h, i) = Body(g, i)
        <5> HIDE DEF h
        <5> QED
          BY <4>2
      <4>4. CASE i = k
        <5> HIDE DEF Body
        <5>1. h[i] = Body(g, i)
          BY <4>1, <4>4
        <5> QED
          BY <4>3, <5>1
      <4>5. CASE i \in 0..(k - 1)
        <5>1. i # k
          BY <2>2, <4>5
        <5>2. g[i] = Body(g, i)
          BY <3>3, <4>5
        <5> HIDE DEF Body
        <5>3. h[i] = g[i]
          BY <4>1, <5>1
        <5> QED
          BY <4>3, <5>2, <5>3
      <4> QED
        BY <4>1, <4>4, <4>5
    <3> HIDE DEF h
    <3>6. Solves(h, k)
      BY <3>4, <3>5
    <3> QED
      BY <2>2, <3>6
  <2> QED
    BY <2>3, <2>4
<1>2. PICK g : Solves(g, n)
  <2>1. n \in 0..n
    OBVIOUS
  <2> QED
    BY <1>1, <2>1
<1>3. g = [i \in 0..n |-> Body(g, i)]
  BY <1>2
<1>4. Inserts(g, m, out, n)
  BY <1>3 DEF Inserts
<1> QED
  BY <1>4

\* sortHits orders the hits by score and then by id, whatever order they come in.
LEMMA HitsSorted ==
    ASSUME NEW m, IsFiniteSet(DOMAIN m), Orders(ByScore(m), DOMAIN m),
           NEW out \in SetToSeqs(DOMAIN m)
    PROVE  Lists(SortHits(m, out), DOMAIN m) /\ Sorted(SortHits(m, out), ByScore(m))
<1> DEFINE Step(f, i) == IF i = 0 THEN <<>> ELSE InsertHit(m, f[i - 1], out[i])
           Taken(i) == {out[j] : j \in 1..i}
<1>1. Lists(out, DOMAIN m) /\ Len(out) \in Nat
  BY Enumerated DEF Lists
<1>2. PICK n \in Nat : n = Len(out)
  BY <1>1
<1>3. DOMAIN out = 1..n /\ \A j \in 1..n : out[j] \in DOMAIN m
  BY <1>1, <1>2 DEF Lists
<1>4. PICK f : f = [i \in 0..n |-> Step(f, i)] /\ SortHits(m, out) = f[n]
  <2>1. PICK g : Inserts(g, m, out, n)
    BY SortRuns
  <2>2. g = [i \in 0..n |-> Step(g, i)]
    BY <2>1 DEF Inserts
  <2> DEFINE s == CHOOSE f : f = [i \in 0..n |-> Step(f, i)]
  <2>3. s = [i \in 0..n |-> Step(s, i)]
    <3> HIDE DEF Step
    <3> QED
      BY <2>2
  <2>4. SortHits(m, out) = s[n]
    BY <1>2 DEF SortHits
  <2> HIDE DEF s
  <2> QED
    BY <2>3, <2>4
<1> DEFINE Right(i) == Lists(f[i], Taken(i)) /\ Sorted(f[i], ByScore(m))
           Bad == {i \in 0..n : ~ Right(i)}
<1>5. Bad = {}
  <2> SUFFICES ASSUME Bad # {} PROVE FALSE
    OBVIOUS
  <2>1. PICK i \in Bad : \A j \in Bad : i <= j
    <3>1. Bad \in SUBSET Nat
      OBVIOUS
    <3> HIDE DEF Bad
    <3> QED
      BY <3>1, Least
  <2>2. i \in 0..n /\ ~ Right(i)
    BY <2>1
  <2>3. CASE i = 0
    <3>1. f[i] = <<>>
      BY <1>4, <2>2, <2>3
    <3>2. Taken(i) = {}
      BY <2>3
    <3>3. Lists(<<>>, {}) /\ Sorted(<<>>, ByScore(m))
      BY DEF Lists, Sorted
    <3> QED
      BY <2>2, <3>1, <3>2, <3>3
  <2>4. CASE i # 0
    <3>1. i - 1 \in 0..n /\ ~ (i <= i - 1) /\ i \in 1..n /\ \A j \in 1..(i - 1) : j \in 1..n /\ j # i
      BY <2>2, <2>4
    <3>2. Right(i - 1)
      BY <2>1, <3>1
    <3>3. f[i] = InsertHit(m, f[i - 1], out[i])
      BY <1>4, <2>2, <2>4
    <3>4. Taken(i) = Taken(i - 1) \cup {out[i]}
      <4>1. 1..i = (1..(i - 1)) \cup {i}
        BY <3>1
      <4> QED
        BY <4>1
    <3>5. out[i] \in DOMAIN m /\ Taken(i - 1) \in SUBSET DOMAIN m
      BY <1>3, <3>1
    <3>6. out[i] \notin Taken(i - 1)
      <4>1. ASSUME NEW j \in 1..(i - 1) PROVE out[j] # out[i]
        <5>1. j \in DOMAIN out /\ i \in DOMAIN out /\ j # i
          BY <1>3, <3>1
        <5> QED
          BY <1>1, <5>1 DEF Lists
      <4> QED
        BY <4>1
    <3>7. Lists(f[i - 1], Taken(i - 1)) /\ Sorted(f[i - 1], ByScore(m))
      BY <3>2
    <3> HIDE DEF Taken
    <3>8. /\ Lists(InsertHit(m, f[i - 1], out[i]), Taken(i - 1) \cup {out[i]})
          /\ Sorted(InsertHit(m, f[i - 1], out[i]), ByScore(m))
      BY <3>5, <3>6, <3>7, HitInserted
    <3> QED
      BY <2>2, <3>3, <3>4, <3>8
  <2> QED
    BY <2>3, <2>4
<1>6. Right(n)
  <2>1. n \in 0..n
    OBVIOUS
  <2>2. n \notin Bad
    <3> HIDE DEF Bad
    <3> QED
      BY <1>5
  <2> QED
    BY <2>1, <2>2
<1>7. Taken(n) = DOMAIN m
  <2>1. \A r \in DOMAIN m : \E j \in 1..n : out[j] = r
    BY <1>1, <1>3 DEF Lists
  <2> QED
    BY <1>3, <2>1
<1> HIDE DEF Taken
<1> QED
  BY <1>4, <1>6, <1>7

-----------------------------------------------------------------------------
(* The two lists of candidates.                                             *)

\* The rank of the text index orders what it found.
LEMMA RankOrders ==
    ASSUME NEW t \in Seq(Row), IsInjective(t), NEW S \in SUBSET ToSet(t)
    PROVE  Orders(ByRank(t), S)
<1>1. \A a, b \in ToSet(t) : <<a, b>> \in ByRank(t) <=>
          \E i, j \in DOMAIN t : i < j /\ t[i] = a /\ t[j] = b
  BY DEF ByRank
<1>2. \A i, j \in DOMAIN t : (t[i] = t[j] => i = j) /\ i \in Int
  BY DEF IsInjective
<1>3. \A a \in S : a \in ToSet(t) /\ \E i \in DOMAIN t : t[i] = a
  BY DEF ToSet
<1>4. ASSUME NEW a \in S PROVE <<a, a>> \notin ByRank(t)
  BY <1>1, <1>2, <1>3
<1>5. ASSUME NEW a \in S, NEW b \in S, a # b PROVE <<a, b>> \in ByRank(t) \/ <<b, a>> \in ByRank(t)
  <2>1. PICK i \in DOMAIN t : t[i] = a
    BY <1>3
  <2>2. PICK j \in DOMAIN t : t[j] = b
    BY <1>3
  <2>3. i < j \/ j < i
    BY <1>2, <1>5, <2>1, <2>2
  <2> QED
    BY <1>1, <1>3, <2>1, <2>2, <2>3
<1>6. ASSUME NEW a \in S, NEW b \in S, NEW c \in S,
             <<a, b>> \in ByRank(t), <<b, c>> \in ByRank(t)
      PROVE  <<a, c>> \in ByRank(t)
  <2>1. PICK i \in DOMAIN t, j \in DOMAIN t : i < j /\ t[i] = a /\ t[j] = b
    BY <1>1, <1>3, <1>6
  <2>2. PICK k \in DOMAIN t, l \in DOMAIN t : k < l /\ t[k] = b /\ t[l] = c
    BY <1>1, <1>3, <1>6
  <2>3. i < l
    BY <1>2, <2>1, <2>2
  <2> QED
    BY <1>1, <1>3, <2>1, <2>2, <2>3
<1> QED
  BY <1>4, <1>5, <1>6 DEF Orders

\* Similarity, and then the id, orders what has a vector.
LEMMA SimilarityOrders ==
    ASSUME NEW v \in Similarity, NEW S \in SUBSET DOMAIN v
    PROVE  Orders(BySimilarity(v), S)
<1>1. \A a, b \in S : <<a, b>> \in BySimilarity(v) <=>
          v[a] > v[b] \/ (v[a] = v[b] /\ a.id < b.id)
  BY DEF BySimilarity
<1>2. \A a \in S : v[a] \in Int /\ a \in Row /\ a.id \in Nat
  BY SearchAssumption
<1>3. \A a, b \in S : a.id = b.id => a = b
  BY <1>2, SearchAssumption
<1>4. \A a \in S : <<a, a>> \notin BySimilarity(v)
  BY <1>1, <1>2
<1>5. \A a, b \in S : a # b => <<a, b>> \in BySimilarity(v) \/ <<b, a>> \in BySimilarity(v)
  BY <1>1, <1>2, <1>3
<1>6. \A a, b, c \in S : <<a, b>> \in BySimilarity(v) /\ <<b, c>> \in BySimilarity(v)
                         => <<a, c>> \in BySimilarity(v)
  BY <1>1, <1>2
<1> QED
  BY <1>4, <1>5, <1>6 DEF Orders

\* The first of two has the smaller place.
LEMMA PlacesRise ==
    ASSUME NEW S, IsFiniteSet(S), NEW R, Orders(R, S), NEW r \in S, NEW s \in S, <<r, s>> \in R
    PROVE  /\ Place(S, R, r) \in Nat \ {0} /\ Place(S, R, s) \in Nat \ {0}
           /\ Place(S, R, r) < Place(S, R, s)
<1> DEFINE before(x) == {q \in S : <<q, x>> \in R}
<1>1. before(r) \subseteq before(s) \ {r} /\ r \in before(s)
  BY DEF Orders
<1>2. IsFiniteSet(before(s)) /\ IsFiniteSet(before(r)) /\ IsFiniteSet(before(s) \ {r})
  BY <1>1, FS_Subset
<1>3. PICK A : A = before(r)
  OBVIOUS
<1>4. PICK B : B = before(s)
  OBVIOUS
<1> HIDE DEF before
<1>5. /\ Cardinality(A) \in Nat /\ Cardinality(B) \in Nat
      /\ Cardinality(A) <= Cardinality(B \ {r})
      /\ Cardinality(B \ {r}) = Cardinality(B) - 1
  <2>1. IsFiniteSet(A) /\ IsFiniteSet(B) /\ IsFiniteSet(B \ {r}) /\ A \subseteq B \ {r} /\ r \in B
    BY <1>1, <1>2, <1>3, <1>4
  <2> QED
    BY <2>1, FS_CardinalityType, FS_Subset, FS_RemoveElement
<1>6. Place(S, R, r) = Cardinality(A) + 1 /\ Place(S, R, s) = Cardinality(B) + 1
  BY <1>3, <1>4 DEF Place, before
<1> QED
  BY <1>5, <1>6

\* What the request, the ranking and the similarities are.
Given == req \in Request /\ text \in Ranking /\ sim \in Similarity

TextScope == {r \in ToSet(text) : InScope(req, r)}
VectorScope == {r \in DOMAIN sim : InScope(req, r)}

\* The places a reader counts in the whole ranking are those of the entries in scope.
LEMMA TextPlaces ==
    ASSUME Given
    PROVE  /\ TextScope = Scope \cap ToSet(text) /\ IsFiniteSet(TextScope)
           /\ Orders(ByRank(text), TextScope)
           /\ \A r, s \in TextScope : TextBefore(r, s) <=> <<r, s>> \in ByRank(text)
           /\ \A r \in TextScope : TextPlace(r) = Place(TextScope, ByRank(text), r)
<1>1. text \in Seq(Row) /\ IsInjective(text) /\ IsFiniteSet(Row)
  BY SearchAssumption DEF Given
<1>2. ToSet(text) \subseteq Row
  BY <1>1 DEF ToSet
<1>3. TextScope = Scope \cap ToSet(text) /\ TextScope \subseteq Row /\ TextScope \subseteq ToSet(text)
  BY <1>2 DEF TextScope, Scope
<1>4. IsFiniteSet(TextScope) /\ Orders(ByRank(text), TextScope)
  BY <1>1, <1>3, FS_Subset, RankOrders
<1>5. \A r, s : TextBefore(r, s) <=> r \in ToSet(text) /\ s \in ToSet(text) /\ <<r, s>> \in ByRank(text)
  BY DEF TextBefore, ByRank, ToSet
<1>6. ASSUME NEW r \in TextScope PROVE TextPlace(r) = Place(TextScope, ByRank(text), r)
  <2>1. {s \in Scope : TextBefore(s, r)} = {q \in TextScope : <<q, r>> \in ByRank(text)}
    BY <1>3, <1>5
  <2> QED
    BY <2>1 DEF TextPlace, Place
<1> QED
  BY <1>3, <1>4, <1>5, <1>6

LEMMA VectorPlaces ==
    ASSUME Given
    PROVE  /\ VectorScope = Scope \cap DOMAIN sim /\ IsFiniteSet(VectorScope)
           /\ Orders(BySimilarity(sim), VectorScope)
           /\ \A r, s \in VectorScope : VectorBefore(r, s) <=> <<r, s>> \in BySimilarity(sim)
           /\ \A r \in VectorScope : VectorPlace(r) = Place(VectorScope, BySimilarity(sim), r)
<1>1. DOMAIN sim \subseteq Row /\ IsFiniteSet(Row)
  BY SearchAssumption DEF Given
<1>2. /\ VectorScope = Scope \cap DOMAIN sim /\ VectorScope \subseteq Row
      /\ VectorScope \subseteq DOMAIN sim
  BY <1>1 DEF VectorScope, Scope
<1>3. IsFiniteSet(VectorScope) /\ Orders(BySimilarity(sim), VectorScope)
  BY <1>1, <1>2, FS_Subset, SimilarityOrders DEF Given
<1>4. \A r, s : VectorBefore(r, s) <=> r \in DOMAIN sim /\ s \in DOMAIN sim /\ <<r, s>> \in BySimilarity(sim)
  BY DEF VectorBefore, BySimilarity
<1>5. ASSUME NEW r \in VectorScope PROVE VectorPlace(r) = Place(VectorScope, BySimilarity(sim), r)
  <2>1. {s \in Scope : VectorBefore(s, r)} = {q \in VectorScope : <<q, r>> \in BySimilarity(sim)}
    BY <1>2, <1>4
  <2> QED
    BY <2>1 DEF VectorPlace, Place
<1> QED
  BY <1>2, <1>3, <1>4, <1>5

\* searchFTS returns the best K of the entries in scope, each at its place.
LEMMA TextCandidates ==
    ASSUME Given, NEW c, c = SearchFTS(req, text)
    PROVE  /\ \A r : r \in ToSet(c) <=> r \in Scope \cap ToSet(text) /\ TextPlace(r) <= req.k
           /\ \A r \in ToSet(c) : PositionIn(c, r) = TextPlace(r)
           /\ \A r \in Scope \cap ToSet(text) : TextPlace(r) \in Nat \ {0}
<1>1. PICK k : k = req.k
  OBVIOUS
<1>2. PICK S : S = TextScope
  OBVIOUS
<1>3. PICK R : R = ByRank(text)
  OBVIOUS
<1>4. k \in Nat
  BY <1>1, SearchAssumption DEF Given
<1>5. c = Cut(InOrder(S, R), k)
  BY <1>1, <1>2, <1>3 DEF SearchFTS, TextScope
<1>6. /\ S = Scope \cap ToSet(text) /\ IsFiniteSet(S) /\ Orders(R, S)
      /\ \A r \in S : TextPlace(r) = Place(S, R, r)
  BY <1>2, <1>3, TextPlaces
<1>7. BestOf(c, S, R, k)
  BY <1>4, <1>5, <1>6, CutPlaces
<1> QED
  BY <1>1, <1>6, <1>7 DEF BestOf

\* searchVec returns the K most similar of the entries in scope, each at its place.
LEMMA VectorCandidates ==
    ASSUME Given, NEW c, c = SearchVec(req, sim)
    PROVE  /\ \A r : r \in ToSet(c) <=> r \in Scope \cap DOMAIN sim /\ VectorPlace(r) <= req.k
           /\ \A r \in ToSet(c) : PositionIn(c, r) = VectorPlace(r)
           /\ \A r \in Scope \cap DOMAIN sim : VectorPlace(r) \in Nat \ {0}
<1>1. PICK k : k = req.k
  OBVIOUS
<1>2. PICK S : S = VectorScope
  OBVIOUS
<1>3. PICK R : R = BySimilarity(sim)
  OBVIOUS
<1>4. k \in Nat
  BY <1>1, SearchAssumption DEF Given
<1>5. c = Cut(InOrder(S, R), k)
  BY <1>1, <1>2, <1>3 DEF SearchVec, VectorScope
<1>6. /\ S = Scope \cap DOMAIN sim /\ IsFiniteSet(S) /\ Orders(R, S)
      /\ \A r \in S : VectorPlace(r) = Place(S, R, r)
  BY <1>2, <1>3, VectorPlaces
<1>7. BestOf(c, S, R, k)
  BY <1>4, <1>5, <1>6, CutPlaces
<1> QED
  BY <1>1, <1>6, <1>7 DEF BestOf

-----------------------------------------------------------------------------
(* Scores.                                                                  *)

\* A product with a positive factor is compared as the other factor is.
LEMMA Scaled ==
    ASSUME NEW a \in Int, NEW b \in Int, NEW c \in Nat \ {0}
    PROVE  /\ (a >= b <=> a * c >= b * c)
           /\ (a > b <=> a * c > b * c)
<1>1. ASSUME a > b PROVE a * c > b * c
  BY <1>1
<1>2. ASSUME b > a PROVE b * c > a * c
  BY <1>2
<1>3. a = b => a * c = b * c
  OBVIOUS
<1>4. a * c \in Int /\ b * c \in Int
  OBVIOUS
<1> QED
  BY <1>1, <1>2, <1>3, <1>4

\* Comparison across the denominators is transitive.
LEMMA Crossed ==
    ASSUME NEW a \in Nat, NEW b \in Nat, NEW c \in Nat,
           NEW p \in Nat \ {0}, NEW q \in Nat \ {0}, NEW s \in Nat \ {0},
           a * q >= b * p, b * s >= c * q
    PROVE  /\ a * s >= c * p
           /\ a * q > b * p \/ b * s > c * q => a * s > c * p
<1>1. a * q \in Int /\ b * p \in Int /\ b * s \in Int /\ c * q \in Int /\ a * s \in Int /\ c * p \in Int
  OBVIOUS
<1>2. (a * q) * s >= (b * p) * s /\ (a * q > b * p => (a * q) * s > (b * p) * s)
  BY <1>1, Scaled
<1>3. (b * s) * p >= (c * q) * p /\ (b * s > c * q => (b * s) * p > (c * q) * p)
  BY <1>1, Scaled
<1>4. (a * q) * s = (a * s) * q /\ (b * p) * s = (b * s) * p /\ (c * q) * p = (c * p) * q
  OBVIOUS
<1>5. (a * s) * q \in Int /\ (b * s) * p \in Int /\ (c * p) * q \in Int
  OBVIOUS
<1>6. /\ (a * s) * q >= (c * p) * q
      /\ a * q > b * p \/ b * s > c * q => (a * s) * q > (c * p) * q
  BY <1>2, <1>3, <1>4, <1>5
<1> QED
  BY <1>1, <1>6, Scaled

\* A score is a fraction.
Fraction == Nat \X (Nat \ {0})

\* Of two scores at most one is above the other, and above is transitive, also
\* over scores that are equal.
LEMMA AboveOrders ==
    ASSUME NEW x \in Fraction, NEW y \in Fraction, NEW z \in Fraction
    PROVE  /\ ~ (Above(x, y) /\ Above(y, x))
           /\ ~ Above(y, x) /\ ~ Above(z, y) => ~ Above(z, x)
           /\ (Above(x, y) /\ ~ Above(z, y)) \/ (~ Above(y, x) /\ Above(y, z)) => Above(x, z)
<1>1. /\ x[1] \in Nat /\ y[1] \in Nat /\ z[1] \in Nat
      /\ x[2] \in Nat \ {0} /\ y[2] \in Nat \ {0} /\ z[2] \in Nat \ {0}
  BY DEF Fraction
<1>2. /\ x[1] * y[2] \in Int /\ y[1] * x[2] \in Int /\ y[1] * z[2] \in Int
      /\ z[1] * y[2] \in Int /\ x[1] * z[2] \in Int /\ z[1] * x[2] \in Int
  BY <1>1
<1>3. x[1] * y[2] >= y[1] * x[2] /\ y[1] * z[2] >= z[1] * y[2] =>
          /\ x[1] * z[2] >= z[1] * x[2]
          /\ x[1] * y[2] > y[1] * x[2] \/ y[1] * z[2] > z[1] * y[2] => x[1] * z[2] > z[1] * x[2]
  BY <1>1, Crossed
<1>4. /\ Above(x, y) <=> x[1] * y[2] > y[1] * x[2]
      /\ Above(y, x) <=> y[1] * x[2] > x[1] * y[2]
      /\ Above(y, z) <=> y[1] * z[2] > z[1] * y[2]
      /\ Above(z, y) <=> z[1] * y[2] > y[1] * z[2]
      /\ Above(x, z) <=> x[1] * z[2] > z[1] * x[2]
      /\ Above(z, x) <=> z[1] * x[2] > x[1] * z[2]
  BY DEF Above
<1> QED
  BY <1>2, <1>3, <1>4

\* Hits are ordered by score and then by id.
LEMMA ScoreOrders ==
    ASSUME NEW m, DOMAIN m \subseteq Row, \A r \in DOMAIN m : m[r] \in Fraction
    PROVE  Orders(ByScore(m), DOMAIN m)
<1>1. \A a, b \in DOMAIN m : <<a, b>> \in ByScore(m) <=>
          Above(m[a], m[b]) \/ (~ Above(m[b], m[a]) /\ a.id < b.id)
  BY DEF ByScore, Before
<1>2. \A a, b \in DOMAIN m : a.id \in Nat /\ (a.id = b.id => a = b)
  BY SearchAssumption
<1>3. \A a, b, c \in DOMAIN m :
          /\ ~ (Above(m[a], m[b]) /\ Above(m[b], m[a]))
          /\ ~ Above(m[b], m[a]) /\ ~ Above(m[c], m[b]) => ~ Above(m[c], m[a])
          /\ (Above(m[a], m[b]) /\ ~ Above(m[c], m[b])) \/ (~ Above(m[b], m[a]) /\ Above(m[b], m[c]))
             => Above(m[a], m[c])
  BY AboveOrders
<1>4. \A a \in DOMAIN m : <<a, a>> \notin ByScore(m)
  BY <1>1, <1>2, <1>3
<1>5. \A a, b \in DOMAIN m : a # b => <<a, b>> \in ByScore(m) \/ <<b, a>> \in ByScore(m)
  BY <1>1, <1>2, <1>3
<1>6. ASSUME NEW a \in DOMAIN m, NEW b \in DOMAIN m, NEW c \in DOMAIN m,
             <<a, b>> \in ByScore(m), <<b, c>> \in ByScore(m)
      PROVE  <<a, c>> \in ByScore(m)
  <2>1. a.id < b.id /\ b.id < c.id => a.id < c.id
    BY <1>2
  <2> QED
    BY <1>1, <1>3, <1>6, <2>1
<1> QED
  BY <1>4, <1>5, <1>6 DEF Orders

\* A sum of two scores neither of which is lower, and one of which is higher, is higher.
LEMMA SumsRise ==
    ASSUME NEW x \in Fraction, NEW y \in Fraction, NEW u \in Fraction, NEW v \in Fraction,
           ~ Above(u, x), ~ Above(v, y), Above(x, u) \/ Above(y, v)
    PROVE  Above(Plus(x, y), Plus(u, v))
<1>1. PICK a \in Nat, p \in Nat \ {0} : x = <<a, p>>
  BY DEF Fraction
<1>2. PICK b \in Nat, q \in Nat \ {0} : y = <<b, q>>
  BY DEF Fraction
<1>3. PICK c \in Nat, s \in Nat \ {0} : u = <<c, s>>
  BY DEF Fraction
<1>4. PICK d \in Nat, t \in Nat \ {0} : v = <<d, t>>
  BY DEF Fraction
<1>5. a * s >= c * p /\ b * t >= d * q /\ (a * s > c * p \/ b * t > d * q)
  BY <1>1, <1>2, <1>3, <1>4 DEF Above
<1>6. PICK e \in Nat \ {0} : e = q * t
  <2>1. q * t \in Nat \ {0}
    OBVIOUS
  <2> QED
    BY <2>1
<1>7. PICK f \in Nat \ {0} : f = p * s
  <2>1. p * s \in Nat \ {0}
    OBVIOUS
  <2> QED
    BY <2>1
<1>8. a * s \in Int /\ c * p \in Int /\ b * t \in Int /\ d * q \in Int
  OBVIOUS
<1>9. /\ (a * s) * e >= (c * p) * e /\ (a * s > c * p => (a * s) * e > (c * p) * e)
      /\ (b * t) * f >= (d * q) * f /\ (b * t > d * q => (b * t) * f > (d * q) * f)
  BY <1>5, <1>8, Scaled
<1>10. (a * s) * e + (b * t) * f > (c * p) * e + (d * q) * f
  BY <1>5, <1>8, <1>9
<1>11. (a * s) * e + (b * t) * f = (a * q + b * p) * (s * t)
  BY <1>6, <1>7
<1>12. (c * p) * e + (d * q) * f = (c * t + d * s) * (p * q)
  BY <1>6, <1>7
<1>13. Plus(x, y) = <<a * q + b * p, p * q>> /\ Plus(u, v) = <<c * t + d * s, s * t>>
  BY <1>1, <1>2, <1>3, <1>4 DEF Plus
<1> QED
  BY <1>10, <1>11, <1>12, <1>13 DEF Above

-----------------------------------------------------------------------------
(* The invariant.                                                           *)

Candidates == {r \in Row : InText(r) \/ InVectors(r)}

\* What the scores so far are at each step, and where the answer comes from.
SearchInv ==
    /\ Given
    /\ pc \in {"text", "vectors", "sort", "done", "failed"}
    /\ DOMAIN merged \subseteq Row
    /\ pc = "text" => DOMAIN merged = {}
    /\ pc = "vectors" => /\ DOMAIN merged = {r \in Row : InText(r)}
                         /\ \A r \in DOMAIN merged : merged[r] = <<1, rrfK + TextPlace(r)>>
    /\ pc \in {"sort", "done"} => /\ DOMAIN merged = Candidates
                                  /\ \A r \in DOMAIN merged : merged[r] = Fusion(r)
    /\ pc # "done" => hits = <<>>
    /\ pc = "done" => \E s \in SetToSeqs(DOMAIN merged) :
                          Sorted(s, ByScore(merged)) /\ hits = Cut(s, req.k)

\* The request and what the indexes have for it do not change.
LEMMA Kept ==
    ASSUME UNCHANGED <<req, text, sim>>
    PROVE  /\ Given => Given'
           /\ \A r : (InText(r))' <=> InText(r)
           /\ \A r : (InVectors(r))' <=> InVectors(r)
           /\ \A r : (TextPlace(r))' = TextPlace(r)
           /\ \A r : (Fusion(r))' = Fusion(r)
           /\ Candidates' = Candidates
<1>1. (Given => Given') /\ Scope' = Scope
  BY DEF Given, Scope
<1>2. \A r, s : (TextBefore(r, s))' <=> TextBefore(r, s)
  BY DEF TextBefore
<1>3. \A r, s : (VectorBefore(r, s))' <=> VectorBefore(r, s)
  BY DEF VectorBefore
<1>4. \A r : (TextPlace(r))' = TextPlace(r)
  <2> TAKE r
  <2>1. {s \in Scope' : (TextBefore(s, r))'} = {s \in Scope : TextBefore(s, r)}
    BY <1>1, <1>2
  <2> QED
    BY <2>1 DEF TextPlace
<1>5. \A r : (VectorPlace(r))' = VectorPlace(r)
  <2> TAKE r
  <2>1. {s \in Scope' : (VectorBefore(s, r))'} = {s \in Scope : VectorBefore(s, r)}
    BY <1>1, <1>3
  <2> QED
    BY <2>1 DEF VectorPlace
<1>6. \A r : (InText(r))' <=> InText(r)
  BY <1>1, <1>4 DEF InText, UsesText
<1>7. \A r : (InVectors(r))' <=> InVectors(r)
  BY <1>1, <1>5 DEF InVectors, UsesVectors
<1>8. \A r : (Fusion(r))' = Fusion(r)
  BY <1>4, <1>5, <1>6, <1>7 DEF Fusion
<1>9. Candidates' = Candidates
  BY <1>6, <1>7 DEF Candidates
<1> QED
  BY <1>1, <1>4, <1>6, <1>7, <1>8, <1>9

\* n has the scores of m, and those of the places in a list added.
Adds(n, m, list) ==
    /\ DOMAIN n = DOMAIN m \cup ToSet(list)
    /\ \A r \in ToSet(list) : n[r] = Plus(Score(m, r), <<1, rrfK + PositionIn(list, r)>>)
    /\ \A r \in DOMAIN m : r \notin ToSet(list) => n[r] = m[r]

\* What addList adds.
LEMMA Added ==
    ASSUME NEW m, NEW list
    PROVE  Adds(AddList(m, list), m, list)
<1> DEFINE a(r) == IF r \in ToSet(list)
                   THEN Plus(Score(m, r), <<1, rrfK + PositionIn(list, r)>>) ELSE m[r]
<1>1. AddList(m, list) = [r \in DOMAIN m \cup ToSet(list) |-> a(r)]
  BY DEF AddList, PositionIn
<1>2. /\ DOMAIN AddList(m, list) = DOMAIN m \cup ToSet(list)
      /\ \A r \in DOMAIN m \cup ToSet(list) : AddList(m, list)[r] = a(r)
  <2> HIDE DEF a
  <2> QED
    BY <1>1
<1> QED
  BY <1>2 DEF Adds

\* Both places are positive, of all that are candidates.
LEMMA CandidatePlaces ==
    ASSUME Given
    PROVE  /\ \A r : InText(r) => r \in Row /\ TextPlace(r) \in Nat \ {0}
           /\ \A r : InVectors(r) => r \in Row /\ VectorPlace(r) \in Nat \ {0}
<1>1. PICK c : c = SearchFTS(req, text)
  OBVIOUS
<1>2. PICK d : d = SearchVec(req, sim)
  OBVIOUS
<1>3. /\ \A r \in Scope \cap ToSet(text) : TextPlace(r) \in Nat \ {0}
      /\ \A r \in Scope \cap DOMAIN sim : VectorPlace(r) \in Nat \ {0}
  BY <1>1, <1>2, TextCandidates, VectorCandidates
<1> QED
  BY <1>3 DEF InText, InVectors, Scope

\* The text query has the scores of what it found.
LEMMA TextScores ==
    ASSUME Given, NEW m, m = IF UsesText(req) THEN AddList(<< >>, SearchFTS(req, text)) ELSE << >>
    PROVE  /\ DOMAIN m = {r \in Row : InText(r)}
           /\ \A r \in DOMAIN m : m[r] = <<1, rrfK + TextPlace(r)>>
<1>1. PICK c : c = SearchFTS(req, text)
  OBVIOUS
<1>2. /\ \A r : r \in ToSet(c) <=> r \in Scope \cap ToSet(text) /\ TextPlace(r) <= req.k
      /\ \A r \in ToSet(c) : PositionIn(c, r) = TextPlace(r)
      /\ \A r \in Scope \cap ToSet(text) : TextPlace(r) \in Nat \ {0}
  BY <1>1, TextCandidates
<1>3. CASE UsesText(req)
  <2>1. m = AddList(<< >>, c)
    BY <1>1, <1>3
  <2>2. ToSet(c) = {r \in Row : InText(r)}
    BY <1>2, <1>3 DEF InText, Scope
  <2>3. Adds(m, << >>, c)
    BY <2>1, Added
  <2>4. DOMAIN m = ToSet(c)
    BY <2>3 DEF Adds
  <2>5. ASSUME NEW r \in ToSet(c) PROVE m[r] = <<1, rrfK + TextPlace(r)>>
    <3>1. m[r] = Plus(Score(<< >>, r), <<1, rrfK + TextPlace(r)>>)
      BY <1>2, <2>3 DEF Adds
    <3>2. Score(<< >>, r) = <<0, 1>>
      BY DEF Score
    <3>3. rrfK + TextPlace(r) \in Int
      BY <1>2 DEF rrfK
    <3> QED
      BY <3>1, <3>2, <3>3 DEF Plus
  <2> QED
    BY <2>2, <2>4, <2>5
<1>4. CASE ~ UsesText(req)
  BY <1>4 DEF InText
<1> QED
  BY <1>3, <1>4

\* The vector query brings them to the sums of reciprocal rank fusion.
LEMMA BothScores ==
    ASSUME Given, UsesVectors(req) => req.dim = req.known,
           NEW m, DOMAIN m = {r \in Row : InText(r)},
           \A r \in DOMAIN m : m[r] = <<1, rrfK + TextPlace(r)>>,
           NEW n, n = IF UsesVectors(req) /\ req.dim = req.known
                      THEN AddList(m, SearchVec(req, sim)) ELSE m
    PROVE  DOMAIN n = Candidates /\ \A r \in DOMAIN n : n[r] = Fusion(r)
<1>1. PICK c : c = SearchVec(req, sim)
  OBVIOUS
<1>2. /\ \A r : r \in ToSet(c) <=> r \in Scope \cap DOMAIN sim /\ VectorPlace(r) <= req.k
      /\ \A r \in ToSet(c) : PositionIn(c, r) = VectorPlace(r)
      /\ \A r \in Scope \cap DOMAIN sim : VectorPlace(r) \in Nat \ {0}
  BY <1>1, VectorCandidates
<1>3. \A r \in DOMAIN m : InText(r) /\ rrfK + TextPlace(r) \in Int
  BY CandidatePlaces DEF rrfK
<1>4. ASSUME NEW r \in DOMAIN m, ~ InVectors(r) PROVE m[r] = Fusion(r)
  <2>1. Fusion(r) = Plus(<<1, rrfK + TextPlace(r)>>, <<0, 1>>)
    BY <1>3, <1>4 DEF Fusion
  <2>2. m[r] = <<1, rrfK + TextPlace(r)>> /\ rrfK + TextPlace(r) \in Int
    BY <1>3
  <2> QED
    BY <2>1, <2>2 DEF Plus
<1>5. CASE UsesVectors(req)
  <2>1. n = AddList(m, c)
    BY <1>1, <1>5
  <2>2. \A r : r \in ToSet(c) <=> r \in Row /\ InVectors(r)
    BY <1>2, <1>5 DEF InVectors, Scope
  <2>3. /\ DOMAIN n = DOMAIN m \cup ToSet(c)
        /\ \A r \in ToSet(c) : n[r] = Plus(Score(m, r), <<1, rrfK + PositionIn(c, r)>>)
        /\ \A r \in DOMAIN m : r \notin ToSet(c) => n[r] = m[r]
    <3>1. Adds(n, m, c)
      BY <2>1, Added
    <3> QED
      BY <3>1 DEF Adds
  <2>4. DOMAIN n = Candidates
    BY <2>2, <2>3 DEF Candidates
  <2>5. ASSUME NEW r \in ToSet(c) PROVE n[r] = Fusion(r)
    <3>1. Score(m, r) = IF InText(r) THEN <<1, rrfK + TextPlace(r)>> ELSE <<0, 1>>
      BY <2>2 DEF Score
    <3>2. n[r] = Plus(Score(m, r), <<1, rrfK + VectorPlace(r)>>) /\ InVectors(r)
      BY <1>2, <2>2, <2>3
    <3> QED
      BY <3>1, <3>2 DEF Fusion
  <2>6. \A r \in DOMAIN m : r \notin ToSet(c) => n[r] = Fusion(r)
    BY <1>4, <2>2, <2>3
  <2> QED
    BY <2>3, <2>4, <2>5, <2>6
<1>6. CASE ~ UsesVectors(req)
  <2>1. n = m /\ \A r : ~ InVectors(r)
    BY <1>6 DEF InVectors
  <2> QED
    BY <1>4, <2>1 DEF Candidates
<1> QED
  BY <1>5, <1>6

\* Each is a fraction.
LEMMA Fractions ==
    ASSUME Given
    PROVE  \A r : /\ (IF InText(r) THEN <<1, rrfK + TextPlace(r)>> ELSE <<0, 1>>) \in Fraction
                  /\ (IF InVectors(r) THEN <<1, rrfK + VectorPlace(r)>> ELSE <<0, 1>>) \in Fraction
                  /\ Fusion(r) \in Fraction
<1>1. \A x, y \in Fraction : Plus(x, y) \in Fraction
  <2> TAKE x, y \in Fraction
  <2>1. /\ x[1] \in Nat /\ y[1] \in Nat /\ x[2] \in Nat /\ y[2] \in Nat
        /\ x[2] # 0 /\ y[2] # 0
    BY DEF Fraction
  <2>2. x[1] * y[2] + y[1] * x[2] \in Nat /\ x[2] * y[2] \in Nat \ {0}
    BY <2>1
  <2> QED
    BY <2>2 DEF Fraction, Plus
<1>2. \A r : (IF InText(r) THEN <<1, rrfK + TextPlace(r)>> ELSE <<0, 1>>) \in Fraction
  BY CandidatePlaces DEF Fraction, rrfK
<1>3. \A r : (IF InVectors(r) THEN <<1, rrfK + VectorPlace(r)>> ELSE <<0, 1>>) \in Fraction
  BY CandidatePlaces DEF Fraction, rrfK
<1> QED
  BY <1>1, <1>2, <1>3 DEF Fusion

\* The order of merged hits is total at each step that has them.
LEMMA MergedOrdered ==
    ASSUME SearchInv, pc \in {"sort", "done"}
    PROVE  IsFiniteSet(DOMAIN merged) /\ Orders(ByScore(merged), DOMAIN merged)
<1>1. DOMAIN merged \subseteq Row /\ IsFiniteSet(DOMAIN merged)
  BY FS_Subset, SearchAssumption DEF SearchInv
<1>2. \A r \in DOMAIN merged : merged[r] \in Fraction
  BY Fractions DEF SearchInv
<1> QED
  BY <1>1, <1>2, ScoreOrders

\* A search has, at every step, the scores that reciprocal rank fusion gives the
\* candidates, and answers with a cut of their order.
THEOREM SearchInvariant == Spec => []SearchInv
<1>1. Init => SearchInv
  BY DEF Init, SearchInv, Given
<1>2. SearchInv /\ [Next]_vars => SearchInv'
  <2> SUFFICES ASSUME SearchInv, [Next]_vars PROVE SearchInv'
    OBVIOUS
  <2>1. Given
    BY DEF SearchInv
  <2>2. CASE QueryText
    <3>1. UNCHANGED <<req, text, sim>> /\ pc' = "vectors" /\ hits' = <<>>
      BY <2>2 DEF QueryText, SearchInv
    <3>2. /\ Given'
          /\ \A r : (InText(r))' <=> InText(r)
          /\ \A r : (TextPlace(r))' = TextPlace(r)
      BY <2>1, <3>1, Kept
    <3>3. PICK m : m = merged'
      OBVIOUS
    <3>4. DOMAIN m = {r \in Row : InText(r)} /\ \A r \in DOMAIN m : m[r] = <<1, rrfK + TextPlace(r)>>
      <4>1. m = IF UsesText(req) THEN AddList(<< >>, SearchFTS(req, text)) ELSE << >>
        BY <2>2, <3>3 DEF QueryText
      <4> QED
        BY <2>1, <4>1, TextScores
    <3>5. /\ DOMAIN merged' = {r \in Row : (InText(r))'}
          /\ \A r \in DOMAIN merged' : merged'[r] = <<1, rrfK + (TextPlace(r))'>>
      BY <3>2, <3>3, <3>4
    <3>6. DOMAIN merged' \subseteq Row
      BY <3>3, <3>4
    <3> QED
      BY <3>1, <3>2, <3>5, <3>6 DEF SearchInv
  <2>3. CASE QueryVectors
    <3>1. /\ UNCHANGED <<req, text, sim>> /\ pc = "vectors" /\ hits' = <<>>
          /\ pc' = IF UsesVectors(req) /\ req.dim # req.known THEN "failed" ELSE "sort"
          /\ merged' = IF UsesVectors(req) /\ req.dim = req.known
                       THEN AddList(merged, SearchVec(req, sim)) ELSE merged
      BY <2>3 DEF QueryVectors, SearchInv
    <3>2. /\ DOMAIN merged = {r \in Row : InText(r)}
          /\ \A r \in DOMAIN merged : merged[r] = <<1, rrfK + TextPlace(r)>>
      BY <3>1 DEF SearchInv
    <3>3. /\ Given' /\ Candidates' = Candidates
          /\ \A r : (Fusion(r))' = Fusion(r)
      BY <2>1, <3>1, Kept
    <3>4. CASE UsesVectors(req) /\ req.dim # req.known
      <4>1. pc' = "failed" /\ merged' = merged
        BY <3>1, <3>4
      <4> QED
        BY <3>1, <3>2, <3>3, <4>1 DEF SearchInv
    <3>5. CASE ~ (UsesVectors(req) /\ req.dim # req.known)
      <4>1. pc' = "sort"
        BY <3>1, <3>5
      <4>2. PICK m : m = merged
        OBVIOUS
      <4>3. PICK n : n = merged'
        OBVIOUS
      <4>4. DOMAIN n = Candidates /\ \A r \in DOMAIN n : n[r] = Fusion(r)
        <5>1. n = IF UsesVectors(req) /\ req.dim = req.known
                  THEN AddList(m, SearchVec(req, sim)) ELSE m
          BY <3>1, <4>2, <4>3
        <5>2. /\ DOMAIN m = {r \in Row : InText(r)}
              /\ \A r \in DOMAIN m : m[r] = <<1, rrfK + TextPlace(r)>>
          BY <3>2, <4>2
        <5> QED
          BY <2>1, <3>5, <5>1, <5>2, BothScores
      <4>5. DOMAIN merged' = Candidates' /\ \A r \in DOMAIN merged' : merged'[r] = (Fusion(r))'
        BY <3>3, <4>3, <4>4
      <4>6. DOMAIN merged' \subseteq Row
        BY <4>3, <4>4 DEF Candidates
      <4> QED
        BY <3>1, <3>3, <4>1, <4>5, <4>6 DEF SearchInv
    <3> QED
      BY <3>4, <3>5
  <2>4. CASE Sort
    <3>1. UNCHANGED <<req, text, sim, merged>> /\ pc = "sort" /\ pc' = "done"
      BY <2>4 DEF Sort
    <3>2. /\ DOMAIN merged = Candidates /\ DOMAIN merged \subseteq Row
          /\ \A r \in DOMAIN merged : merged[r] = Fusion(r)
      BY <3>1 DEF SearchInv
    <3>3. /\ Given' /\ Candidates' = Candidates
          /\ \A r : (Fusion(r))' = Fusion(r)
      BY <2>1, <3>1, Kept
    <3>4. PICK out \in SetToSeqs(DOMAIN merged) : hits' = Cut(SortHits(merged, out), req.k)
      BY <2>4 DEF Sort
    <3>5. PICK s : s = SortHits(merged, out)
      OBVIOUS
    <3>6. Lists(s, DOMAIN merged) /\ Sorted(s, ByScore(merged))
      BY <3>1, <3>4, <3>5, MergedOrdered, HitsSorted
    <3>7. s \in SetToSeqs(DOMAIN merged)
      BY <3>6, EnumeratedBy
    <3>8. \E t \in SetToSeqs(DOMAIN merged') : Sorted(t, ByScore(merged')) /\ hits' = Cut(t, req'.k)
      BY <3>1, <3>4, <3>5, <3>6, <3>7
    <3> QED
      BY <3>1, <3>2, <3>3, <3>8 DEF SearchInv
  <2>5. CASE UNCHANGED vars
    <3>1. UNCHANGED <<req, text, sim, merged, hits, pc>>
      BY <2>5 DEF vars
    <3>2. /\ Given => Given'
          /\ \A r : (InText(r))' <=> InText(r)
          /\ \A r : (TextPlace(r))' = TextPlace(r)
          /\ \A r : (Fusion(r))' = Fusion(r)
          /\ Candidates' = Candidates
      BY <3>1, Kept
    <3> QED
      BY <3>1, <3>2 DEF SearchInv
  <2> QED
    BY <2>2, <2>3, <2>4, <2>5 DEF Next
<1> QED
  BY <1>1, <1>2, PTL DEF Spec

-----------------------------------------------------------------------------
(* What the runs check.                                                     *)

\* The answer, once there is one, and the order it is cut from.
LEMMA Answer ==
    ASSUME SearchInv, pc = "done"
    PROVE  \E s : /\ Lists(s, Candidates) /\ Len(s) = Cardinality(Candidates)
                  /\ \A i, j \in DOMAIN s : i < j =>
                        \/ Above(Fusion(s[i]), Fusion(s[j]))
                        \/ ~ Above(Fusion(s[j]), Fusion(s[i])) /\ s[i].id < s[j].id
                  /\ hits = Cut(s, req.k)
<1>1. DOMAIN merged = Candidates /\ \A r \in Candidates : merged[r] = Fusion(r)
  BY DEF SearchInv
<1>2. PICK s \in SetToSeqs(Candidates) : Sorted(s, ByScore(merged)) /\ hits = Cut(s, req.k)
  BY <1>1 DEF SearchInv
<1>3. IsFiniteSet(Candidates)
  BY <1>1, MergedOrdered
<1>4. Lists(s, Candidates) /\ Len(s) = Cardinality(Candidates)
  BY <1>3, Enumerated
<1>5. ASSUME NEW i \in DOMAIN s, NEW j \in DOMAIN s, i < j
      PROVE  \/ Above(Fusion(s[i]), Fusion(s[j]))
             \/ ~ Above(Fusion(s[j]), Fusion(s[i])) /\ s[i].id < s[j].id
  <2>1. <<s[i], s[j]>> \in ByScore(merged)
    BY <1>2, <1>5 DEF Sorted
  <2>2. Before(merged, s[i], s[j])
    BY <2>1 DEF ByScore
  <2>3. s[i] \in Candidates /\ s[j] \in Candidates
    BY <1>4 DEF Lists
  <2> QED
    BY <1>1, <2>2, <2>3 DEF Before
<1> QED
  BY <1>2, <1>4, <1>5

\* A search has its type at every step (TypeOK).
THEOREM SearchTypeCorrect == Spec => []TypeOK
<1>1. SearchInv => TypeOK
  <2> SUFFICES ASSUME SearchInv PROVE hits \in Seq(Row)
    BY DEF SearchInv, TypeOK
  <2>1. CASE pc # "done"
    BY <2>1 DEF SearchInv
  <2>2. CASE pc = "done"
    <3>1. PICK s : Lists(s, Candidates) /\ hits = Cut(s, req.k)
      BY <2>2, Answer
    <3>2. s \in Seq(Row)
      BY <3>1 DEF Lists, Candidates
    <3>3. req.k \in Nat
      BY SearchAssumption DEF SearchInv, Given
    <3> QED
      BY <3>1, <3>2, <3>3, Cuts
  <2> QED
    BY <2>1, <2>2
<1> QED
  BY <1>1, SearchInvariant, PTL

\* The answer is the best K by reciprocal rank fusion of the best K in scope of
\* each index, in whatever order the merged hits are walked (BestByFusion).
LEMMA FusionBest ==
    ASSUME SearchInv
    PROVE  BestByFusion
<1> DEFINE better(a, b) == Above(Fusion(a), Fusion(b))
                           \/ (~ Above(Fusion(b), Fusion(a)) /\ a.id < b.id)
<1> SUFFICES ASSUME pc = "done"
             PROVE  /\ ToSet(hits) \subseteq Candidates
                    /\ Len(hits) = IF Cardinality(Candidates) < req.k THEN Cardinality(Candidates)
                                   ELSE req.k
                    /\ \A i, j \in DOMAIN hits : i < j => better(hits[i], hits[j])
                    /\ \A r \in Candidates \ ToSet(hits), i \in DOMAIN hits : better(hits[i], r)
  BY DEF BestByFusion, Candidates
<1>1. PICK s : /\ Lists(s, Candidates) /\ Len(s) = Cardinality(Candidates)
               /\ \A i, j \in DOMAIN s : i < j => better(s[i], s[j])
               /\ hits = Cut(s, req.k)
  BY Answer
<1> HIDE DEF better
<1>2. req.k \in Nat
  BY SearchAssumption DEF SearchInv, Given
<1>3. /\ hits \in Seq(Candidates)
      /\ Len(hits) = IF Len(s) > req.k THEN req.k ELSE Len(s)
      /\ \A i \in 1..Len(hits) : i \in DOMAIN s /\ hits[i] = s[i]
  BY <1>1, <1>2, Cuts DEF Lists
<1>4. DOMAIN hits = 1..Len(hits) /\ DOMAIN s = 1..Len(s) /\ Len(s) \in Nat /\ Len(hits) \in Nat
  BY <1>1, <1>3 DEF Lists
<1>5. ToSet(hits) \subseteq Candidates
  BY <1>3, <1>4 DEF ToSet
<1>6. Len(hits) = IF Cardinality(Candidates) < req.k THEN Cardinality(Candidates) ELSE req.k
  BY <1>1, <1>2, <1>3, <1>4
<1>7. \A i, j \in DOMAIN hits : i < j => better(hits[i], hits[j])
  BY <1>1, <1>3, <1>4
<1>8. ASSUME NEW r \in Candidates \ ToSet(hits), NEW i \in DOMAIN hits PROVE better(hits[i], r)
  <2>1. PICK j \in DOMAIN s : s[j] = r
    BY <1>1 DEF Lists
  <2>2. ~ (j \in DOMAIN hits)
    BY <1>3, <1>4, <2>1 DEF ToSet
  <2>3. i \in DOMAIN s /\ i < j /\ hits[i] = s[i]
    BY <1>3, <1>4, <2>2
  <2> QED
    BY <1>1, <2>1, <2>3
<1> QED
  BY <1>5, <1>6, <1>7, <1>8

\* The answer of every search is the best K by reciprocal rank fusion (BestByFusion).
THEOREM AnswerIsBest == Spec => []BestByFusion
  BY SearchInvariant, FusionBest, PTL

\* If each index that has the second has the first above it, and both have it, so
\* has the fusion.
LEMMA AgreedAbove ==
    ASSUME Given, UsesText(req), UsesVectors(req), NEW r \in Scope, NEW s \in Scope,
           TextBefore(r, s), VectorBefore(r, s), s \in Candidates
    PROVE  r \in Candidates /\ Above(Fusion(r), Fusion(s))
<1>1. r \in TextScope /\ s \in TextScope
  <2>1. r \in ToSet(text) /\ s \in ToSet(text)
    BY DEF TextBefore, ToSet
  <2> QED
    BY <2>1, TextPlaces
<1>2. r \in VectorScope /\ s \in VectorScope
  BY VectorPlaces DEF VectorBefore
<1>3. /\ TextPlace(r) \in Nat \ {0} /\ TextPlace(s) \in Nat \ {0}
      /\ TextPlace(r) < TextPlace(s)
  <2>1. PICK S : S = TextScope
    OBVIOUS
  <2>2. PICK R : R = ByRank(text)
    OBVIOUS
  <2>3. /\ IsFiniteSet(S) /\ Orders(R, S) /\ <<r, s>> \in R /\ r \in S /\ s \in S
        /\ TextPlace(r) = Place(S, R, r) /\ TextPlace(s) = Place(S, R, s)
    BY <1>1, <2>1, <2>2, TextPlaces
  <2> QED
    BY <2>3, PlacesRise
<1>4. /\ VectorPlace(r) \in Nat \ {0} /\ VectorPlace(s) \in Nat \ {0}
      /\ VectorPlace(r) < VectorPlace(s)
  <2>1. PICK S : S = VectorScope
    OBVIOUS
  <2>2. PICK R : R = BySimilarity(sim)
    OBVIOUS
  <2>3. /\ IsFiniteSet(S) /\ Orders(R, S) /\ <<r, s>> \in R /\ r \in S /\ s \in S
        /\ VectorPlace(r) = Place(S, R, r) /\ VectorPlace(s) = Place(S, R, s)
    BY <1>2, <2>1, <2>2, VectorPlaces
  <2> QED
    BY <2>3, PlacesRise
<1>5. req.k \in Nat
  BY SearchAssumption DEF Given
<1>6. InText(s) => InText(r)
  <2>1. r \in Scope \cap ToSet(text)
    BY <1>1, TextPlaces
  <2> QED
    BY <1>3, <1>5, <2>1 DEF InText
<1>7. InVectors(s) => InVectors(r)
  <2>1. r \in Scope \cap DOMAIN sim
    BY <1>2, VectorPlaces
  <2> QED
    BY <1>4, <1>5, <2>1 DEF InVectors
<1>8. InText(s) \/ InVectors(s)
  BY DEF Candidates
<1> DEFINE x(q) == IF InText(q) THEN <<1, rrfK + TextPlace(q)>> ELSE <<0, 1>>
           y(q) == IF InVectors(q) THEN <<1, rrfK + VectorPlace(q)>> ELSE <<0, 1>>
<1>9. ~ Above(x(s), x(r)) /\ (InText(s) => Above(x(r), x(s)))
  <2>1. CASE InText(s)
    <3>1. x(s) = <<1, 60 + TextPlace(s)>> /\ x(r) = <<1, 60 + TextPlace(r)>>
      BY <1>6, <2>1 DEF rrfK
    <3> QED
      BY <1>3, <3>1 DEF Above
  <2>2. CASE ~ InText(s)
    <3>1. x(s) = <<0, 1>> /\ (x(r) = <<0, 1>> \/ x(r) = <<1, 60 + TextPlace(r)>>)
      BY <2>2 DEF rrfK
    <3> QED
      BY <1>3, <2>2, <3>1 DEF Above
  <2> QED
    BY <2>1, <2>2
<1>10. ~ Above(y(s), y(r)) /\ (InVectors(s) => Above(y(r), y(s)))
  <2>1. CASE InVectors(s)
    <3>1. y(s) = <<1, 60 + VectorPlace(s)>> /\ y(r) = <<1, 60 + VectorPlace(r)>>
      BY <1>7, <2>1 DEF rrfK
    <3> QED
      BY <1>4, <3>1 DEF Above
  <2>2. CASE ~ InVectors(s)
    <3>1. y(s) = <<0, 1>> /\ (y(r) = <<0, 1>> \/ y(r) = <<1, 60 + VectorPlace(r)>>)
      BY <2>2 DEF rrfK
    <3> QED
      BY <1>4, <2>2, <3>1 DEF Above
  <2> QED
    BY <2>1, <2>2
<1>11. x(r) \in Fraction /\ x(s) \in Fraction /\ y(r) \in Fraction /\ y(s) \in Fraction
  BY Fractions
<1>12. Fusion(r) = Plus(x(r), y(r)) /\ Fusion(s) = Plus(x(s), y(s))
  BY DEF Fusion
<1> HIDE DEF x, y
<1>13. Above(Fusion(r), Fusion(s))
  BY <1>8, <1>9, <1>10, <1>11, <1>12, SumsRise
<1>14. r \in Candidates
  BY <1>6, <1>7, <1>8 DEF Candidates, Scope
<1> QED
  BY <1>13, <1>14

\* What both indexes rank above an entry is above it in the answer (AgreementKept).
THEOREM IndexesAgree == Spec => []AgreementKept
<1>1. SearchInv => AgreementKept
  <2> SUFFICES ASSUME SearchInv, pc = "done", UsesText(req), UsesVectors(req),
                      NEW r \in Scope, NEW s \in Scope, TextBefore(r, s), VectorBefore(r, s),
                      NEW j \in DOMAIN hits, hits[j] = s
               PROVE  \E i \in DOMAIN hits : i < j /\ hits[i] = r
    BY DEF AgreementKept
  <2>1. /\ ToSet(hits) \subseteq Candidates
        /\ \A i, k \in DOMAIN hits : i < k =>
              \/ Above(Fusion(hits[i]), Fusion(hits[k]))
              \/ ~ Above(Fusion(hits[k]), Fusion(hits[i])) /\ hits[i].id < hits[k].id
        /\ \A q \in Candidates \ ToSet(hits), i \in DOMAIN hits :
              \/ Above(Fusion(hits[i]), Fusion(q))
              \/ ~ Above(Fusion(q), Fusion(hits[i])) /\ hits[i].id < q.id
    BY FusionBest DEF BestByFusion, Candidates
  <2>2. s \in Candidates
    BY <2>1 DEF ToSet
  <2>3. Given
    BY DEF SearchInv
  <2>4. r \in Candidates /\ Above(Fusion(r), Fusion(s))
    BY <2>2, <2>3, AgreedAbove
  <2>5. Fusion(r) \in Fraction /\ Fusion(s) \in Fraction
    BY <2>3, Fractions
  <2>6. ~ Above(Fusion(s), Fusion(r))
    BY <2>4, <2>5, AboveOrders
  <2>7. r \in ToSet(hits)
    BY <2>1, <2>4, <2>6
  <2>8. PICK i \in DOMAIN hits : hits[i] = r
    BY <2>7 DEF ToSet
  <2>9. ~ (j < i)
    BY <2>1, <2>4, <2>6, <2>8
  <2>10. i # j
    BY <2>4, <2>6, <2>8
  <2>11. DOMAIN hits \subseteq Int
    <3>1. PICK t : Lists(t, Candidates) /\ hits = Cut(t, req.k)
      BY Answer
    <3>2. req.k \in Nat
      BY SearchAssumption DEF SearchInv, Given
    <3>3. hits \in Seq(Candidates)
      BY <3>1, <3>2, Cuts DEF Lists
    <3> QED
      BY <3>3
  <2> QED
    BY <2>8, <2>9, <2>10, <2>11
<1> QED
  BY <1>1, SearchInvariant, PTL
=============================================================================
