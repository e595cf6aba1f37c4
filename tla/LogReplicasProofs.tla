------------------------- MODULE LogReplicasProofs -------------------------
(***************************************************************************)
(* The replica invariants of LogReplicas for any number of principals,     *)
(* payloads and entries.                                                   *)
(***************************************************************************)
EXTENDS LogReplicas, ThreadLogProofs

\* Nothing is held, and nothing authored, at the start.
LEMMA ReplicaInit == Init => ReplicaInv
<1> SUFFICES ASSUME Init PROVE ReplicaInv
  OBVIOUS
<1>1. \A n \in Principal : log[n] = NewThreadLog /\ WellFormed(log[n])
  BY NewThreadLogWellFormed DEF Init
<1>2. \A n \in Principal : log[n] \in Log /\ log[n].entries = {}
  BY <1>1 DEF WellFormed, NewThreadLog
<1>3. TypeOK
  BY <1>2 DEF Init, TypeOK
<1> QED
  BY <1>1, <1>2, <1>3 DEF Init, ReplicaInv, NoForks, ChainsSorted

\* What the guards and the construction of an authored entry amount to: it is
\* fresh, it extends the author's own chain, and it is above all that the
\* author has seen.
Authored(n, e) ==
    /\ e \in Entry
    /\ e.author = n
    /\ e.id = ids[n] + 1
    /\ Extends(log[n], e)
    /\ \A f \in log[n].entries : f.lamport < e.lamport

\* The genesis entry is an authored entry: with nothing sent, the creator's
\* log is empty, so position 1 of its control chain is free.
LEMMA GenesisAuthored ==
    ASSUME ReplicaInv, sent = {}, NEW d \in Draft
    PROVE  Authored(Creator, Genesis(Creator, ids[Creator] + 1, d))
<1> DEFINE e == Genesis(Creator, ids[Creator] + 1, d)
<1>1. Creator \in Principal /\ ids[Creator] \in Nat
  BY CreatorAssumption DEF ReplicaInv, TypeOK
<1>2. e \in Entry
  BY <1>1 DEF Genesis, Entry, Lane, GenesisPrev
<1>3. log[Creator].entries = {} /\ WellFormed(log[Creator])
  BY <1>1 DEF ReplicaInv
<1>4. log[Creator].heads[ChainOf(e)].seq = 0
  BY <1>2, <1>3, ChainOfEntry, EmptyLogHeads
<1>5. e.seq = 1 /\ e.prev = GenesisPrev /\ e.author = Creator /\ e.id = ids[Creator] + 1
  BY DEF Genesis
<1>6. Extends(log[Creator], e)
  BY <1>3, <1>4, <1>5 DEF Extends, IdTaken
<1> QED
  BY <1>2, <1>3, <1>5, <1>6 DEF Authored

\* Author.Append always builds an entry that its own log admits.
LEMMA NextEntryAuthored ==
    ASSUME ReplicaInv, NEW n \in Principal, NEW lane \in Lane, NEW d \in Draft
    PROVE  Authored(n, NextEntry(log[n], n, ids[n] + 1, lane, d))
<1> DEFINE l == log[n]
           e == NextEntry(l, n, ids[n] + 1, lane, d)
<1>1. /\ ids[n] \in Nat
      /\ l \in Log /\ WellFormed(l)
      /\ l.lamport \in Nat
      /\ <<n, lane>> \in Chain
  BY DEF ReplicaInv, TypeOK, Log, Chain
<1>2. l.heads[<<n, lane>>].seq \in Nat /\ l.heads[<<n, lane>>].hash \in Nat
  BY <1>1 DEF Log, ChainHead
<1>3. /\ e.id = ids[n] + 1 /\ e.author = n /\ e.lane = lane
      /\ e.seq = l.heads[<<n, lane>>].seq + 1
      /\ e.lamport = l.lamport + 1
      /\ e.prev = IF l.heads[<<n, lane>>].seq > 0
                  THEN l.heads[<<n, lane>>].hash ELSE GenesisPrev
      /\ ChainOf(e) = <<n, lane>>
  BY DEF NextEntry, ChainOf
<1>4. e \in Entry
  BY <1>1, <1>2 DEF NextEntry, Entry, GenesisPrev
<1>5. l.entries \subseteq Entry /\ \A f \in l.entries : f.lamport <= l.lamport
  BY <1>1 DEF Log, WellFormed, Clocked
<1>6. \A f \in l.entries : f.lamport < e.lamport
  BY <1>1, <1>3, <1>5 DEF Entry
<1>7. ~ IdTaken(l, e)
  <2> SUFFICES ASSUME NEW f \in l.entries, SameId(e, f) PROVE FALSE
    BY DEF IdTaken
  <2>1. f \in sent /\ f.author = n /\ f.id = ids[n] + 1
    BY <1>3 DEF ReplicaInv, SameId
  <2> QED
    BY <2>1, <1>1 DEF ReplicaInv
<1>8. Extends(l, e)
  BY <1>2, <1>3, <1>7 DEF Extends
<1> QED
  BY <1>3, <1>4, <1>6, <1>8 DEF Authored

\* Publishing an authored entry preserves the invariant.
LEMMA PublishPreserves ==
    ASSUME ReplicaInv, NEW n \in Principal, NEW e, Authored(n, e), Publish(n, e)
    PROVE  ReplicaInv'
<1> DEFINE l == log[n]
<1>1. /\ log' = [log EXCEPT ![n] = AppendEntry(l, e)]
      /\ sent' = sent \cup {e}
      /\ ids' = [ids EXCEPT ![n] = ids[n] + 1]
      /\ log \in [Principal -> Log] /\ ids \in [Principal -> Nat]
      /\ sent \subseteq Entry
      /\ e \in Entry /\ e.author = n /\ e.id = ids[n] + 1
  BY DEF Publish, ReplicaInv, TypeOK, Authored
<1>2. WellFormed(l) /\ WellFormed(AppendEntry(l, e))
  BY <1>1, AppendWellFormed DEF ReplicaInv
<1>3. AppendEntry(l, e) \in Log /\ AppendEntry(l, e).entries = l.entries \cup {e}
  BY <1>2 DEF Authored, AppendEntry, Admit, WellFormed
<1>4. TypeOK'
  BY <1>1, <1>3 DEF TypeOK
<1>5. \A m \in Principal : /\ WellFormed(log'[m])
                           /\ log[m].entries \subseteq log'[m].entries
                           /\ log'[m].entries \subseteq sent'
  <2> TAKE m \in Principal
  <2>1. CASE m = n
    BY <2>1, <1>1, <1>2, <1>3 DEF ReplicaInv
  <2>2. CASE m # n
    BY <2>2, <1>1 DEF ReplicaInv
  <2> QED
    BY <2>1, <2>2
<1>6. \A f \in sent : f.author = n => f \in l.entries
  BY <1>1 DEF ReplicaInv
\* Everything on the new entry's chain is below it, in seq and in lamport.
<1>7. \A f \in sent : ChainOf(f) = ChainOf(e) => f.seq < e.seq /\ f.lamport < e.lamport
  <2> SUFFICES ASSUME NEW f \in sent, ChainOf(f) = ChainOf(e)
               PROVE  f.seq < e.seq /\ f.lamport < e.lamport
    OBVIOUS
  <2>1. f \in l.entries
    BY <1>1, <1>6 DEF ChainOf
  <2>2. ChainOf(e) \in Chain /\ l.heads[ChainOf(e)].seq \in Nat /\ f.seq \in Nat
    BY <1>1, ChainOfEntry DEF Log, ChainHead, Entry
  <2>3. f.seq <= l.heads[ChainOf(e)].seq
    BY <1>2, <2>1, <2>2 DEF WellFormed, Contiguous
  <2>4. e.seq = l.heads[ChainOf(e)].seq + 1
    BY DEF Authored, Extends
  <2> QED
    BY <2>1, <2>2, <2>3, <2>4 DEF Authored
<1>8. e.seq \in Nat /\ e.lamport \in Nat /\ \A f \in sent : f.seq \in Nat /\ f.lamport \in Nat
  BY <1>1 DEF Entry
<1>9. NoForks'
  <2> SUFFICES ASSUME NEW f \in sent \cup {e}, NEW g \in sent \cup {e},
                      ChainOf(f) = ChainOf(g), f.seq = g.seq
               PROVE  f = g
    BY <1>1 DEF NoForks
  <2>1. f \in sent /\ g \in sent => f = g
    BY DEF ReplicaInv, NoForks
  <2> QED
    BY <2>1, <1>7, <1>8
<1>10. ChainsSorted'
  <2> SUFFICES ASSUME NEW f \in sent \cup {e}, NEW g \in sent \cup {e},
                      ChainOf(f) = ChainOf(g), f.seq < g.seq
               PROVE  Less(f, g)
    BY <1>1 DEF ChainsSorted
  <2>1. f \in sent /\ g \in sent => Less(f, g)
    BY DEF ReplicaInv, ChainsSorted
  <2>2. f \in sent /\ g = e => Less(f, g)
    BY <1>7 DEF Less
  <2>3. f # e
    BY <1>7, <1>8
  <2> QED
    BY <2>1, <2>2, <2>3
<1>11. \A f \in sent' : f \in log'[f.author].entries /\ f.id <= ids'[f.author]
  <2> SUFFICES ASSUME NEW f \in sent \cup {e}
               PROVE  f \in log'[f.author].entries /\ f.id <= ids'[f.author]
    BY <1>1
  <2>1. f \in Entry /\ f.author \in Principal /\ f.id \in Nat
    BY <1>1 DEF Entry
  <2>2. CASE f = e
    <3>1. e \in log'[n].entries
      BY <1>1, <1>3
    <3>2. ids'[n] = e.id
      BY <1>1
    <3> QED
      BY <2>1, <2>2, <3>1, <3>2, <1>1
  <2>3. CASE f \in sent
    <3>1. f \in log[f.author].entries /\ f.id <= ids[f.author]
      BY <2>3 DEF ReplicaInv
    <3>2. ids[f.author] \in Nat /\ ids'[f.author] \in Nat /\ ids[f.author] <= ids'[f.author]
      BY <1>1, <2>1
    <3> QED
      BY <3>1, <3>2, <2>1, <1>5
  <2> QED
    BY <2>2, <2>3
<1> QED
  BY <1>4, <1>5, <1>9, <1>10, <1>11 DEF ReplicaInv

\* So does handing any node any entry that was ever authored.
LEMMA ReceivePreserves ==
    ASSUME ReplicaInv, NEW n \in Principal, NEW e \in sent, Receive(n, e)
    PROVE  ReplicaInv'
<1>1. /\ log' = [log EXCEPT ![n] = AppendEntry(log[n], e)]
      /\ sent' = sent /\ ids' = ids
      /\ log \in [Principal -> Log] /\ ids \in [Principal -> Nat]
      /\ sent \subseteq Entry /\ e \in Entry
  BY DEF Receive, ReplicaInv, TypeOK
<1>2. WellFormed(AppendEntry(log[n], e))
  BY <1>1, AppendWellFormed DEF ReplicaInv
<1>3. /\ AppendEntry(log[n], e) \in Log
      /\ log[n].entries \subseteq AppendEntry(log[n], e).entries
      /\ AppendEntry(log[n], e).entries \subseteq log[n].entries \cup {e}
  BY <1>2 DEF AppendEntry, Admit, WellFormed
<1>4. TypeOK'
  BY <1>1, <1>3 DEF TypeOK
<1>5. \A m \in Principal : /\ WellFormed(log'[m])
                           /\ log[m].entries \subseteq log'[m].entries
                           /\ log'[m].entries \subseteq sent'
  <2> TAKE m \in Principal
  <2>1. CASE m = n
    BY <2>1, <1>1, <1>2, <1>3 DEF ReplicaInv
  <2>2. CASE m # n
    BY <2>2, <1>1 DEF ReplicaInv
  <2> QED
    BY <2>1, <2>2
<1>6. \A f \in sent' : f \in log'[f.author].entries /\ f.id <= ids'[f.author]
  <2> SUFFICES ASSUME NEW f \in sent
               PROVE  f \in log'[f.author].entries /\ f.id <= ids'[f.author]
    BY <1>1
  <2>1. f.author \in Principal
    BY <1>1 DEF Entry
  <2> QED
    BY <2>1, <1>1, <1>5 DEF ReplicaInv
<1>7. NoForks' /\ ChainsSorted'
  BY <1>1 DEF ReplicaInv, NoForks, ChainsSorted
<1> QED
  BY <1>4, <1>5, <1>6, <1>7 DEF ReplicaInv

\* Every step of the replicas preserves the invariant.
LEMMA ReplicaNext == ReplicaInv /\ [Next]_vars => ReplicaInv'
<1> SUFFICES ASSUME ReplicaInv, [Next]_vars PROVE ReplicaInv'
  OBVIOUS
<1>1. ASSUME NEW d \in Draft, NewThread(d) PROVE ReplicaInv'
  BY <1>1, CreatorAssumption, GenesisAuthored, PublishPreserves DEF NewThread
<1>2. ASSUME NEW n \in Principal, NEW lane \in Lane, NEW d \in Draft,
             AuthorAppend(n, lane, d)
      PROVE  ReplicaInv'
  BY <1>2, NextEntryAuthored, PublishPreserves DEF AuthorAppend
<1>3. ASSUME NEW n \in Principal, NEW e \in sent, Receive(n, e) PROVE ReplicaInv'
  BY <1>3, ReceivePreserves
<1>4. CASE UNCHANGED vars
  BY <1>4 DEF vars, ReplicaInv, TypeOK, NoForks, ChainsSorted
<1> QED
  BY <1>1, <1>2, <1>3, <1>4 DEF Next

\* The inductive invariant holds of every behaviour.
THEOREM ReplicaInvariant == Spec => []ReplicaInv
BY ReplicaInit, ReplicaNext, PTL DEF Spec

\* Type correctness of the replicas.
THEOREM TypeCorrect == Spec => []TypeOK
<1>1. ReplicaInv => TypeOK
  BY DEF ReplicaInv
<1> QED
  BY <1>1, ReplicaInvariant, PTL

\* No schedule of authoring and delivery forks a chain: seq and prev are
\* always chosen from a log that holds the author's whole chain.
THEOREM ForkFreedom == Spec => []NoForks
<1>1. ReplicaInv => NoForks
  BY DEF ReplicaInv
<1> QED
  BY <1>1, ReplicaInvariant, PTL

\* Every replica holds linked, gap-free prefixes, in whatever order, and
\* however often, entries were delivered to it.
THEOREM ChainIntegrity == Spec => []ChainsIntact
<1>1. ReplicaInv => ChainsIntact
  BY DEF ReplicaInv, ChainsIntact, WellFormed
<1> QED
  BY <1>1, ReplicaInvariant, PTL

\* The total order of the protocol extends the order of every chain.
THEOREM ChainOrder == Spec => []ChainsSorted
<1>1. ReplicaInv => ChainsSorted
  BY DEF ReplicaInv
<1> QED
  BY <1>1, ReplicaInvariant, PTL

\* A log is what its version vector says: the exchange of Heads is sound.
THEOREM VersionVectorsSound == Spec => []HeadsDescribeLog
<1>1. ReplicaInv => HeadsDescribeLog
  <2> SUFFICES ASSUME ReplicaInv, NEW n \in Principal
               PROVE  log[n].entries = VV!Shown(n)
    BY DEF HeadsDescribeLog
  <2>1. /\ WellFormed(log[n]) /\ log[n].entries \subseteq sent /\ sent \subseteq Entry
        /\ \A e \in sent : e \in Entry /\ ChainOf(e) \in Chain
    BY ChainOfEntry DEF ReplicaInv, TypeOK
  <2>2. VV!Shown(n) = {e \in sent : e.seq <= log[n].heads[ChainOf(e)].seq}
    BY <2>1 DEF VV!Shown, Heads
  <2>3. ASSUME NEW e \in log[n].entries PROVE e.seq <= log[n].heads[ChainOf(e)].seq
    BY <2>1 DEF WellFormed, Contiguous
  <2>4. ASSUME NEW e \in sent, e.seq <= log[n].heads[ChainOf(e)].seq
        PROVE  e \in log[n].entries
    <3>1. e.seq \in 1..log[n].heads[ChainOf(e)].seq
      BY <2>1, <2>4 DEF WellFormed, Log, ChainHead, Entry
    <3>2. PICK f \in log[n].entries : ChainOf(f) = ChainOf(e) /\ f.seq = e.seq
      BY <2>1, <3>1 DEF WellFormed, Contiguous
    <3>3. f = e
      BY <2>1, <3>2 DEF ReplicaInv, NoForks
    <3> QED
      BY <3>2, <3>3
  <2> QED
    BY <2>1, <2>2, <2>3, <2>4
<1> QED
  BY <1>1, ReplicaInvariant, PTL

\* What appending an entry does to the version vectors: nothing, or one more of
\* the entry's chain, at the node that admits it.
Vectors == [n \in Principal |-> Heads(log[n])]

\* An entry appended to one log.
LEMMA AppendVectors ==
    ASSUME ReplicaInv, NEW n \in Principal, NEW e \in Entry,
           log' = [log EXCEPT ![n] = AppendEntry(log[n], e)]
    PROVE  /\ Vectors \in [Principal -> [Chain -> Nat]]
           /\ ~ Extends(log[n], e) => Vectors' = Vectors
           /\ Extends(log[n], e) =>
                  /\ e.seq = Vectors[n][ChainOf(e)] + 1
                  /\ Vectors' = [Vectors EXCEPT ![n][ChainOf(e)] = e.seq]
<1> DEFINE c == ChainOf(e)
<1>1. /\ log \in [Principal -> Log] /\ c \in Chain /\ e.seq \in Nat
      /\ \A m \in Principal : log[m].heads \in [Chain -> ChainHead]
  BY ChainOfEntry DEF ReplicaInv, TypeOK, Log, Entry
<1>2. Vectors \in [Principal -> [Chain -> Nat]]
  BY <1>1 DEF Vectors, Heads, ChainHead
<1>3. ASSUME ~ Extends(log[n], e) PROVE Vectors' = Vectors
  BY <1>1, <1>3 DEF AppendEntry, Vectors
<1>4. ASSUME Extends(log[n], e)
      PROVE  /\ e.seq = Vectors[n][c] + 1
             /\ Vectors' = [Vectors EXCEPT ![n][c] = e.seq]
  <2>1. log'[n] = Admit(log[n], e) /\ \A m \in Principal \ {n} : log'[m] = log[m]
    BY <1>1, <1>4 DEF AppendEntry
  <2>2. /\ log'[n].heads[c] = [seq |-> e.seq, hash |-> Hash(e)]
        /\ \A k \in Chain : k # c => log'[n].heads[k] = log[n].heads[k]
    BY <2>1, <1>1, AdmitFields
  <2>3. \A k \in Chain : Vectors'[n][k] = IF k = c THEN e.seq ELSE Vectors[n][k]
    BY <2>2, <1>1 DEF Vectors, Heads
  <2>4. \A m \in Principal \ {n} : Vectors'[m] = Vectors[m]
    BY <2>1 DEF Vectors
  <2>5. Vectors' = [m \in Principal |-> [k \in Chain |-> Vectors'[m][k]]]
    BY DEF Vectors, Heads
  <2>6. Vectors' = [Vectors EXCEPT ![n][c] = e.seq]
    BY <2>3, <2>4, <2>5, <1>1, <1>2, VectorUpdate
  <2>7. e.seq = Vectors[n][c] + 1
    BY <1>1, <1>4 DEF Extends, Vectors, Heads
  <2> QED
    BY <2>6, <2>7
<1> QED
  BY <1>2, <1>3, <1>4

\* Publishing is the abstract Write.
LEMMA PublishWrites ==
    ASSUME ReplicaInv, NEW n \in Principal, NEW e, Authored(n, e), Publish(n, e)
    PROVE  VV!Write(n)
<1>1. /\ e \in Entry /\ e.author = n /\ e.id = ids[n] + 1 /\ Extends(log[n], e)
      /\ log' = [log EXCEPT ![n] = AppendEntry(log[n], e)]
      /\ sent' = sent \cup {e}
      /\ sent \subseteq Entry /\ ids[n] \in Nat
  BY DEF Authored, Publish, ReplicaInv, TypeOK
<1>2. e \notin sent
  BY <1>1 DEF ReplicaInv
<1>3. /\ e.seq = Vectors[n][ChainOf(e)] + 1
      /\ Vectors' = [Vectors EXCEPT ![n][ChainOf(e)] = e.seq]
  BY <1>1, AppendVectors
<1>4. ASSUME NEW f \in sent, ChainOf(f) = ChainOf(e) PROVE f.seq < e.seq
  <2>1. f \in log[n].entries /\ f \in Entry
    BY <1>1, <1>4 DEF ReplicaInv, ChainOf
  <2>2. f.seq <= log[n].heads[ChainOf(e)].seq
    BY <1>1, <1>4, <2>1, ChainOfEntry DEF ReplicaInv, WellFormed, Contiguous
  <2>3. e.seq = log[n].heads[ChainOf(e)].seq + 1
    BY <1>1 DEF Extends
  <2>4. log[n].heads[ChainOf(e)].seq \in Nat /\ f.seq \in Nat
    BY <1>1, <2>1, ChainOfEntry DEF ReplicaInv, TypeOK, Log, ChainHead, Entry
  <2> QED
    BY <2>2, <2>3, <2>4
<1> QED
  BY <1>1, <1>2, <1>3, <1>4 DEF VV!Write, Vectors

\* Receiving is the abstract Deliver, of one entry, or no step.
LEMMA ReceiveDelivers ==
    ASSUME ReplicaInv, NEW n \in Principal, NEW e \in sent, Receive(n, e)
    PROVE  VV!Deliver(n) \/ UNCHANGED VV!vars
<1>1. /\ e \in Entry /\ sent' = sent
      /\ log' = [log EXCEPT ![n] = AppendEntry(log[n], e)]
  BY DEF Receive, ReplicaInv, TypeOK
<1>2. CASE ~ Extends(log[n], e)
  <2>1. Vectors' = Vectors
    BY <1>1, <1>2, AppendVectors
  <2> QED
    BY <1>1, <2>1 DEF VV!vars, Vectors
<1>3. CASE Extends(log[n], e)
  <2>1. /\ Vectors \in [Principal -> [Chain -> Nat]]
        /\ e.seq = Vectors[n][ChainOf(e)] + 1
        /\ Vectors' = [Vectors EXCEPT ![n][ChainOf(e)] = e.seq]
        /\ ChainOf(e) \in Chain
    BY <1>1, <1>3, AppendVectors, ChainOfEntry
  <2>2. \A m \in Principal \ {n} : Vectors'[m] = Vectors[m]
    BY <2>1
  <2>3. /\ Vectors'[n][ChainOf(e)] = e.seq
        /\ \A c \in Chain : c # ChainOf(e) => Vectors'[n][c] = Vectors[n][c]
        /\ Vectors[n][ChainOf(e)] \in Nat
    BY <2>1
  <2>4. VV!Catches(n, ChainOf(e))
    BY <2>1, <2>3 DEF VV!Catches, Vectors
  <2>5. \A c \in Chain : Vectors'[n][c] = Vectors[n][c] \/ VV!Catches(n, c)
    BY <2>3, <2>4
  <2> QED
    BY <1>1, <2>2, <2>5 DEF VV!Deliver, Vectors
<1> QED
  BY <1>2, <1>3

\* The replicas implement version vectors: each step writes, delivers, or
\* leaves the vectors alone.
THEOREM Refinement == Spec => ImplementsVersionVectors
<1>1. Init => VV!Init
  <2> SUFFICES ASSUME Init PROVE VV!Init
    OBVIOUS
  <2>1. \A n \in Principal : Heads(log[n]) = [c \in Chain |-> 0]
    BY DEF Init, NewThreadLog, Heads
  <2> QED
    BY <2>1 DEF Init, VV!Init
<1>2. ReplicaInv /\ [Next]_vars => [VV!Next]_(VV!vars)
  <2> SUFFICES ASSUME ReplicaInv, [Next]_vars PROVE [VV!Next]_(VV!vars)
    OBVIOUS
  <2>1. ASSUME NEW d \in Draft, NewThread(d) PROVE VV!Next
    BY <2>1, CreatorAssumption, GenesisAuthored, PublishWrites DEF NewThread, VV!Next
  <2>2. ASSUME NEW n \in Principal, NEW lane \in Lane, NEW d \in Draft,
               AuthorAppend(n, lane, d)
        PROVE  VV!Next
    BY <2>2, NextEntryAuthored, PublishWrites DEF AuthorAppend, VV!Next
  <2>3. ASSUME NEW n \in Principal, NEW e \in sent, Receive(n, e)
        PROVE  VV!Next \/ UNCHANGED VV!vars
    BY <2>3, ReceiveDelivers DEF VV!Next
  <2>4. CASE UNCHANGED vars
    BY <2>4 DEF vars, VV!vars
  <2> QED
    BY <2>1, <2>2, <2>3, <2>4 DEF Next
<1> QED
  BY <1>1, <1>2, ReplicaInvariant, PTL DEF Spec, ImplementsVersionVectors, VV!Spec

\* A log never loses an entry and its clock never runs back.
THEOREM LogsAppendOnly == Spec => AppendOnly
<1> DEFINE Grows == \A n \in Principal : /\ log[n].entries \subseteq log'[n].entries
                                         /\ log[n].lamport <= log'[n].lamport
<1>1. ASSUME ReplicaInv, NEW n \in Principal, NEW e \in Entry,
             log' = [log EXCEPT ![n] = AppendEntry(log[n], e)]
      PROVE  Grows
  <2> SUFFICES ASSUME NEW m \in Principal
               PROVE  /\ log[m].entries \subseteq log'[m].entries
                      /\ log[m].lamport <= log'[m].lamport
    OBVIOUS
  <2>1. log \in [Principal -> Log] /\ log[m].lamport \in Nat /\ log[n] \in Log
    BY <1>1 DEF ReplicaInv, TypeOK, Log
  <2>2. CASE m # n
    BY <2>1, <2>2, <1>1
  <2>3. CASE m = n /\ ~ Extends(log[n], e)
    BY <2>1, <2>3, <1>1 DEF AppendEntry
  <2>4. CASE m = n /\ Extends(log[n], e)
    <3>1. log'[n] = Admit(log[n], e)
      BY <2>1, <2>4, <1>1 DEF AppendEntry
    <3> QED
      BY <3>1, <2>1, <2>4, AdmitFields
  <2> QED
    BY <2>2, <2>3, <2>4
<1>2. ReplicaInv /\ [Next]_vars => [Grows]_vars
  <2> SUFFICES ASSUME ReplicaInv, Next PROVE Grows
    OBVIOUS
  <2>1. ASSUME NEW d \in Draft, NewThread(d) PROVE Grows
    BY <2>1, <1>1, CreatorAssumption, GenesisAuthored DEF NewThread, Publish, Authored
  <2>2. ASSUME NEW n \in Principal, NEW lane \in Lane, NEW d \in Draft,
               AuthorAppend(n, lane, d)
        PROVE  Grows
    BY <2>2, <1>1, NextEntryAuthored DEF AuthorAppend, Publish, Authored
  <2>3. ASSUME NEW n \in Principal, NEW e \in sent, Receive(n, e) PROVE Grows
    BY <2>3, <1>1 DEF Receive, ReplicaInv, TypeOK
  <2> QED
    BY <2>1, <2>2, <2>3 DEF Next
<1> QED
  BY <1>2, ReplicaInvariant, PTL DEF Spec, AppendOnly
=============================================================================
