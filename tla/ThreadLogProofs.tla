-------------------------- MODULE ThreadLogProofs --------------------------
(***************************************************************************)
(* What ThreadLog.Append guarantees of a log for every entry it can be     *)
(* handed, and what Author.Append hands it; and the facts about numbers    *)
(* and finite sets that the proofs about logs share.                       *)
(***************************************************************************)
EXTENDS ThreadLog, FiniteSetTheorems, WellFoundedInduction, TLAPS

\* The chain of an entry is one of the chains.
LEMMA ChainOfEntry ==
    ASSUME NEW e \in Entry PROVE ChainOf(e) \in Chain
BY DEF ChainOf, Chain, Entry

\* The empty log is well formed.
LEMMA NewThreadLogWellFormed == WellFormed(NewThreadLog)
BY DEF WellFormed, NewThreadLog, Log, ChainHead, GenesisPrev, Contiguous,
       Positioned, Linked, Clocked

\* A log with no entries is at position 0 in every chain.
LEMMA EmptyLogHeads ==
    ASSUME NEW l, WellFormed(l), l.entries = {}, NEW c \in Chain
    PROVE  l.heads[c].seq = 0
<1>1. l.heads[c].seq \in Nat
  BY DEF WellFormed, Log, ChainHead
<1>2. \A s \in 1..l.heads[c].seq : FALSE
  BY DEF WellFormed, Contiguous
<1> QED
  BY <1>1, <1>2

\* The components of the log that Admit builds.
LEMMA AdmitFields ==
    ASSUME NEW l \in Log, NEW e \in Entry
    PROVE  /\ Admit(l, e) \in Log
           /\ Admit(l, e).entries = l.entries \cup {e}
           /\ Admit(l, e).heads[ChainOf(e)] = [seq |-> e.seq, hash |-> Hash(e)]
           /\ \A c \in Chain : c # ChainOf(e) => Admit(l, e).heads[c] = l.heads[c]
           /\ Admit(l, e).lamport >= e.lamport
           /\ Admit(l, e).lamport >= l.lamport
<1> USE ChainOfEntry
<1>1. [seq |-> e.seq, hash |-> Hash(e)] \in ChainHead
  BY DEF Entry, Hash, ChainHead
<1>2. Admit(l, e).heads \in [Chain -> ChainHead]
  BY <1>1 DEF Admit, Log
<1>3. Admit(l, e).lamport \in Nat /\ Admit(l, e).lamport >= e.lamport
                                  /\ Admit(l, e).lamport >= l.lamport
  BY DEF Admit, Log, Entry
<1>4. Admit(l, e).entries = l.entries \cup {e}
  BY DEF Admit
<1>5. Admit(l, e) \in Log
  BY <1>2, <1>3, <1>4 DEF Admit, Log
<1> QED
  BY <1>3, <1>4, <1>5 DEF Admit, Log

\* Append keeps a log well formed whatever entry it is handed: a gap, a fork,
\* a stale or a foreign prev, a duplicate, or the next entry of a chain.
THEOREM AppendWellFormed ==
    ASSUME NEW l, WellFormed(l), NEW e \in Entry
    PROVE  WellFormed(AppendEntry(l, e))
<1>1. CASE ~ Extends(l, e)
  BY <1>1 DEF AppendEntry
<1>2. CASE Extends(l, e)
  <2> DEFINE m == Admit(l, e)
  <2> HIDE DEF m
  <2>1. AppendEntry(l, e) = m
    BY <1>2 DEF AppendEntry, m
  <2>2. l \in Log /\ l.entries \subseteq Entry /\ l.heads \in [Chain -> ChainHead]
    BY DEF WellFormed, Log
  <2>3. /\ m \in Log
        /\ m.entries = l.entries \cup {e}
        /\ m.heads[ChainOf(e)].seq = e.seq
        /\ m.heads[ChainOf(e)].hash = Hash(e)
        /\ \A c \in Chain : c # ChainOf(e) => m.heads[c] = l.heads[c]
        /\ m.lamport >= e.lamport /\ m.lamport >= l.lamport
    <3>1. m.heads[ChainOf(e)] = [seq |-> e.seq, hash |-> Hash(e)]
      BY <2>2, AdmitFields, Zenon DEF m
    <3>2. /\ m \in Log
          /\ m.entries = l.entries \cup {e}
          /\ \A c \in Chain : c # ChainOf(e) => m.heads[c] = l.heads[c]
          /\ m.lamport >= e.lamport /\ m.lamport >= l.lamport
      BY <2>2, AdmitFields, Zenon DEF m
    <3> QED
      BY <3>1, <3>2
  <2>4. /\ e.seq = l.heads[ChainOf(e)].seq + 1
        /\ e.prev = IF l.heads[ChainOf(e)].seq = 0
                    THEN GenesisPrev ELSE l.heads[ChainOf(e)].hash
    BY <1>2 DEF Extends
  <2>5. ChainOf(e) \in Chain /\ l.heads[ChainOf(e)].seq \in Nat
    BY <2>2, ChainOfEntry DEF ChainHead
  <2>6. \A f \in l.entries : /\ ChainOf(f) \in Chain
                             /\ f.seq \in Nat /\ f.lamport \in Nat
                             /\ f.seq <= l.heads[ChainOf(f)].seq
    <3> TAKE f \in l.entries
    <3>1. f \in Entry
      BY <2>2
    <3>2. ChainOf(f) \in Chain
      BY <3>1, ChainOfEntry
    <3> QED
      BY <3>1, <3>2 DEF Entry, WellFormed, Contiguous
  <2>7. Contiguous(m)
    <3> SUFFICES ASSUME NEW c \in Chain
                 PROVE  /\ \A f \in m.entries : ChainOf(f) = c => f.seq <= m.heads[c].seq
                        /\ \A s \in 1..m.heads[c].seq :
                              \E f \in m.entries : ChainOf(f) = c /\ f.seq = s
      BY DEF Contiguous
    <3>0. /\ \A f \in l.entries : ChainOf(f) = c => f.seq <= l.heads[c].seq
          /\ \A s \in 1..l.heads[c].seq :
                \E f \in l.entries : ChainOf(f) = c /\ f.seq = s
      BY DEF WellFormed, Contiguous
    <3>1. CASE c # ChainOf(e)
      BY <3>0, <3>1, <2>3
    <3>2. CASE c = ChainOf(e)
      <4>1. \A f \in m.entries : ChainOf(f) = c => f.seq <= m.heads[c].seq
        BY <3>0, <3>2, <2>3, <2>4, <2>5, <2>6
      <4>2. ASSUME NEW s \in 1..m.heads[c].seq
            PROVE  \E f \in m.entries : ChainOf(f) = c /\ f.seq = s
        <5>1. s \in 1..l.heads[c].seq \/ s = e.seq
          BY <3>2, <2>3, <2>4, <2>5
        <5> QED
          BY <5>1, <3>0, <3>2, <2>3
      <4> QED
        BY <4>1, <4>2
    <3> QED
      BY <3>1, <3>2
  <2>8. \A f \in l.entries : ChainOf(f) = ChainOf(e) => f.seq < e.seq
    BY <2>4, <2>5, <2>6
  <2>9. Positioned(m)
    <3>1. ASSUME NEW f \in m.entries, NEW g \in m.entries,
                 ChainOf(f) = ChainOf(g), f.seq = g.seq
          PROVE  f = g
      <4>1. f \in l.entries /\ g \in l.entries => f = g
        BY <3>1 DEF WellFormed, Positioned
      <4>2. e.seq \in Nat
        BY DEF Entry
      <4> QED
        BY <4>1, <4>2, <3>1, <2>3, <2>8, <2>6
    <3>2. ASSUME NEW f \in m.entries, f.seq = m.heads[ChainOf(f)].seq
          PROVE  m.heads[ChainOf(f)].hash = Hash(f)
      <4>1. CASE f = e
        BY <4>1, <2>3
      <4>2. CASE f \in l.entries /\ ChainOf(f) = ChainOf(e)
        BY <4>2, <3>2, <2>3, <2>4, <2>5, <2>6
      <4>3. CASE f \in l.entries /\ ChainOf(f) # ChainOf(e)
        BY <4>3, <3>2, <2>3, <2>6 DEF WellFormed, Positioned
      <4> QED
        BY <4>1, <4>2, <4>3, <2>3
    <3> QED
      BY <3>1, <3>2 DEF Positioned
  <2>10. Linked(m)
    <3> SUFFICES ASSUME NEW f \in m.entries
                 PROVE  IF f.seq = 1
                        THEN f.prev = GenesisPrev
                        ELSE \E p \in m.entries : /\ ChainOf(p) = ChainOf(f)
                                                  /\ p.seq + 1 = f.seq
                                                  /\ f.prev = Hash(p)
      BY DEF Linked
    <3>1. CASE f \in l.entries
      BY <3>1, <2>3 DEF WellFormed, Linked
    <3>2. CASE f = e /\ e.seq = 1
      BY <3>2, <2>4, <2>5
    <3>3. CASE f = e /\ e.seq # 1
      <4>1. l.heads[ChainOf(e)].seq \in 1..l.heads[ChainOf(e)].seq
        BY <3>3, <2>4, <2>5
      <4>2. PICK p \in l.entries : /\ ChainOf(p) = ChainOf(e)
                                   /\ p.seq = l.heads[ChainOf(e)].seq
        BY <4>1, <2>5 DEF WellFormed, Contiguous
      <4>3. l.heads[ChainOf(e)].hash = Hash(p)
        BY <4>2 DEF WellFormed, Positioned
      <4> QED
        BY <4>1, <4>2, <4>3, <3>3, <2>3, <2>4, <2>5
    <3> QED
      BY <3>1, <3>2, <3>3, <2>3
  <2>11. Clocked(m)
    <3>1. l.lamport \in Nat /\ m.lamport \in Nat /\ e.lamport \in Nat
      BY <2>2, <2>3 DEF Log, Entry
    <3>2. \A f \in l.entries : f.lamport <= l.lamport
      BY DEF WellFormed, Clocked
    <3> QED
      BY <3>1, <3>2, <2>3, <2>6 DEF Clocked
  <2> QED
    BY <2>1, <2>3, <2>7, <2>9, <2>10, <2>11 DEF WellFormed
<1> QED
  BY <1>1, <1>2

-----------------------------------------------------------------------------
(* Numbers and finite sets: induction as the absence of a least exception.  *)

\* A set of naturals that is not empty has a least element.
LEMMA Least ==
    ASSUME NEW S \in SUBSET Nat, S # {}
    PROVE  \E x \in S : \A y \in S : x <= y
<1>1. PICK x \in S : \A y \in S : ~ (<<y, x>> \in OpToRel(<, Nat))
  BY NatLessThanWellFounded, WFMin
<1>2. ASSUME NEW y \in S PROVE x <= y
  <2>1. ~ (y < x)
    BY <1>1 DEF OpToRel
  <2> QED
    BY <2>1
<1> QED
  BY <1>2

\* And, if it is bounded, a greatest one: the least of its bounds.
LEMMA Greatest ==
    ASSUME NEW S \in SUBSET Nat, S # {}, NEW b \in Nat, \A y \in S : y <= b
    PROVE  \E x \in S : \A y \in S : y <= x
<1> DEFINE B == {u \in Nat : \A y \in S : y <= u}
<1>1. PICK u \in B : \A v \in B : u <= v
  <2>1. B \in SUBSET Nat /\ B # {}
    OBVIOUS
  <2> QED
    BY <2>1, Least
<1>2. ASSUME u \notin S PROVE FALSE
  <2>1. \A y \in S : y \in Nat /\ y <= u /\ y # u
    BY <1>1, <1>2
  <2>2. PICK y \in S : TRUE
    OBVIOUS
  <2>3. u \in Nat /\ u # 0
    BY <1>1, <2>1, <2>2
  <2>4. u - 1 \in B
    BY <2>1, <2>3
  <2> QED
    BY <1>1, <2>3, <2>4
<1> QED
  BY <1>1, <1>2

\* Finitely many naturals have a bound.
LEMMA Bounded ==
    ASSUME NEW n \in Nat, NEW f, \A i \in 1..n : f[i] \in Nat
    PROVE  \E b \in Nat : \A i \in 1..n : f[i] <= b
<1> DEFINE Bad == {m \in 0..n : ~ \E b \in Nat : \A i \in 1..m : f[i] <= b}
<1> SUFFICES ASSUME n \in Bad PROVE FALSE
  OBVIOUS
<1>1. PICK m \in Bad : \A k \in Bad : m <= k
  <2>1. Bad \in SUBSET Nat
    OBVIOUS
  <2> HIDE DEF Bad
  <2> QED
    BY <2>1, Least
<1>2. m \in 0..n /\ ~ \E b \in Nat : \A i \in 1..m : f[i] <= b
  BY <1>1
<1>3. m # 0
  <2>1. \A i \in 1..0 : f[i] <= 0
    OBVIOUS
  <2> QED
    BY <2>1, <1>2
<1>4. m - 1 \in 0..n /\ m - 1 \notin Bad
  <2>1. m - 1 \in 0..n /\ m \in Nat /\ ~ (m <= m - 1)
    BY <1>2, <1>3
  <2> HIDE DEF Bad
  <2> QED
    BY <1>1, <2>1
<1>5. PICK b \in Nat : \A i \in 1..(m - 1) : f[i] <= b
  BY <1>4
<1>6. f[m] \in Nat
  BY <1>2, <1>3
<1>7. PICK c \in Nat : b <= c /\ f[m] <= c
  <2>1. f[m] + b \in Nat /\ b <= f[m] + b /\ f[m] <= f[m] + b
    BY <1>6
  <2> QED
    BY <2>1
<1>8. \A i \in 1..m : f[i] <= c
  <2> TAKE i \in 1..m
  <2>1. i = m \/ i \in 1..(m - 1)
    BY <1>2
  <2>2. f[i] \in Nat
    BY <1>2
  <2> QED
    BY <2>1, <2>2, <1>5, <1>7
<1> QED
  BY <1>2, <1>8

\* Of the subsets of a finite set that have some property, B, one has it and no
\* set with one element less does.
LEMMA Smallest ==
    ASSUME NEW S, IsFiniteSet(S), NEW B \in SUBSET (SUBSET S), B # {}
    PROVE  \E T \in B : \A x \in T : T \ {x} \notin B
<1>1. \A T \in B : IsFiniteSet(T) /\ Cardinality(T) \in Nat
  BY FS_Subset, FS_CardinalityType
<1> DEFINE Sizes == {Cardinality(T) : T \in B}
<1>2. PICK n \in Sizes : \A m \in Sizes : n <= m
  <2>1. Sizes \in SUBSET Nat /\ Sizes # {}
    BY <1>1
  <2> HIDE DEF Sizes
  <2> QED
    BY <2>1, Least
<1>3. PICK T \in B : Cardinality(T) = n
  BY <1>2
<1>4. ASSUME NEW x \in T, T \ {x} \in B PROVE FALSE
  <2>1. Cardinality(T \ {x}) = n - 1 /\ n \in Nat
    BY <1>1, <1>3, FS_RemoveElement
  <2>2. n - 1 \in Sizes
    BY <1>4, <2>1
  <2> QED
    BY <1>2, <2>1, <2>2
<1> QED
  BY <1>3, <1>4

\* A finite set that R orders has a last element.
LEMMA LastElement ==
    ASSUME NEW S, IsFiniteSet(S), S # {}, NEW R,
           \A a, b \in S : a # b => <<a, b>> \in R \/ <<b, a>> \in R,
           \A a, b, c \in S : <<a, b>> \in R /\ <<b, c>> \in R => <<a, c>> \in R
    PROVE  \E x \in S : \A y \in S \ {x} : <<y, x>> \in R
<1> DEFINE Last(T) == \E x \in T : \A y \in T \ {x} : <<y, x>> \in R
           Bad == {T \in SUBSET S : T # {} /\ ~ Last(T)}
<1> SUFFICES ASSUME S \in Bad PROVE FALSE
  OBVIOUS
<1>1. PICK T \in Bad : \A x \in T : T \ {x} \notin Bad
  <2>1. Bad \in SUBSET (SUBSET S) /\ Bad # {}
    OBVIOUS
  <2> HIDE DEF Bad
  <2> QED
    BY <2>1, Smallest
<1>2. PICK z \in T : TRUE
  OBVIOUS
<1>3. T \ {z} = {} \/ Last(T \ {z})
  <2>1. T \ {z} \notin Bad /\ T \ {z} \in SUBSET S
    BY <1>1
  <2> QED
    BY <2>1
<1>4. CASE T \ {z} = {}
  BY <1>4
<1>5. CASE Last(T \ {z})
  <2>1. PICK x \in T \ {z} : \A y \in (T \ {z}) \ {x} : <<y, x>> \in R
    BY <1>5
  <2>2. CASE <<z, x>> \in R
    <3>1. \A y \in T \ {x} : <<y, x>> \in R
      BY <2>1, <2>2
    <3> QED
      BY <3>1
  <2>3. CASE <<x, z>> \in R
    <3>1. ASSUME NEW y \in T \ {z} PROVE <<y, z>> \in R
      <4>1. y = x \/ <<y, x>> \in R
        BY <2>1
      <4> QED
        BY <4>1, <2>3
    <3> QED
      BY <1>2, <3>1
  <2> QED
    BY <2>1, <2>2, <2>3
<1> QED
  BY <1>3, <1>4, <1>5

\* A table of vectors that differs from another at one place is its update.
LEMMA VectorUpdate ==
    ASSUME NEW N, NEW C, NEW V \in [N -> [C -> Nat]], NEW W, NEW n \in N, NEW c \in C, NEW x,
           W = [m \in N |-> [k \in C |-> W[m][k]]],
           \A m \in N \ {n} : W[m] = V[m],
           \A k \in C : W[n][k] = IF k = c THEN x ELSE V[n][k]
    PROVE  W = [V EXCEPT ![n][c] = x]
<1>1. W[n] = [V[n] EXCEPT ![c] = x]
  <2>1. W[n] = [k \in C |-> W[n][k]]
    OBVIOUS
  <2>2. V[n] = [k \in C |-> V[n][k]]
    OBVIOUS
  <2> QED
    BY <2>1, <2>2
<1>2. W = [m \in N |-> IF m = n THEN [V[n] EXCEPT ![c] = x] ELSE V[m]]
  <2>1. W = [m \in N |-> W[m]]
    OBVIOUS
  <2> QED
    BY <1>1, <2>1
<1> QED
  BY <1>2

\* An entry that extends its chain moves one number of the version vector.
LEMMA HeadsAfterAppend ==
    ASSUME NEW l \in Log, NEW e \in Entry
    PROVE  /\ ~ Extends(l, e) => AppendEntry(l, e) = l
           /\ Extends(l, e) =>
                 /\ AppendEntry(l, e).entries = l.entries \cup {e}
                 /\ e.seq = Heads(l)[ChainOf(e)] + 1
                 /\ \A c \in Chain : Heads(AppendEntry(l, e))[c] =
                                      IF c = ChainOf(e) THEN e.seq ELSE Heads(l)[c]
<1>1. ChainOf(e) \in Chain
  BY ChainOfEntry
<1>2. CASE Extends(l, e)
  <2>1. AppendEntry(l, e) = Admit(l, e) /\ e.seq = l.heads[ChainOf(e)].seq + 1
    BY <1>2 DEF AppendEntry, Extends
  <2>2. /\ Admit(l, e).entries = l.entries \cup {e}
        /\ Admit(l, e).heads[ChainOf(e)] = [seq |-> e.seq, hash |-> Hash(e)]
        /\ \A c \in Chain : c # ChainOf(e) => Admit(l, e).heads[c] = l.heads[c]
    BY <1>2, AdmitFields
  <2> QED
    BY <1>1, <1>2, <2>1, <2>2 DEF Heads
<1> QED
  BY <1>2 DEF AppendEntry
=============================================================================
