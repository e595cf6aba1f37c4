---------------------------- MODULE WatchProofs -----------------------------
(***************************************************************************)
(* The vectors of Watch, for any number of processes, peers, threads and   *)
(* entries, any dimensions and any batch.                                  *)
(***************************************************************************)
EXTENDS Watch, WellFoundedInduction, FiniteSetTheorems, TLAPS

Dims == {0} \cup {Dim[p] : p \in Process}

TablesOK ==
    /\ rows \in Seq(BOOLEAN)
    /\ DOMAIN vectors \subseteq DOMAIN rows
    /\ VectorsOfTheirEntries

DimsOK == meta \in Dims /\ dim \in [Process -> Dims]

\* What a drain has in hand are entries with text, and the vectors of those.
WorkOK(w) ==
    /\ w.pc \in {"idle", "tick", "embed", "upsert", "query"}
    /\ w.pc \in {"tick", "embed", "upsert"} => w.for.asked \subseteq WithText
    /\ w.pc = "query" => w.asked \subseteq DOMAIN vectors
    /\ w.pc = "embed" => w.ids \subseteq WithText
    /\ w.pc = "upsert" =>
          /\ w.ids \subseteq WithText
          /\ \A r \in w.ids : w.vecs[r].of = r /\ w.vecs[r].dim \in Dims

WorkersOK == DOMAIN work = Process /\ \A p \in Process : WorkOK(work[p])

RoundsOK ==
    /\ DOMAIN round = Process
    /\ \A p \in Process : round[p].pc \in {"asleep", "peers", "threads"}

NewsOK == DOMAIN news = Peer /\ \A q \in Peer : news[q] \subseteq Threads(q)

BoundsOK == lost \in 0..MaxLost /\ written \in 0..MaxWritten

\* The inductive invariant: rows only grow, so what a drain read of them stays
\* true while others store entries and vectors.
NodeInv == TablesOK /\ DimsOK /\ WorkersOK /\ RoundsOK /\ NewsOK /\ BoundsOK

\* Nothing is stored and nobody works at the start.
LEMMA WatchInit == Init => NodeInv
<1> SUFFICES ASSUME Init PROVE NodeInv
  OBVIOUS
<1>1. TablesOK
  BY EmbedAssumption DEF Init, EmbedInit, TablesOK, VectorsOfTheirEntries
<1>2. DimsOK
  BY DEF Init, EmbedInit, DimsOK, Dims
<1>3. WorkersOK
  BY DEF Init, EmbedInit, WorkersOK, WorkOK, Idle
<1>4. RoundsOK
  BY DEF Init, RoundsOK, Asleep
<1>5. NewsOK /\ BoundsOK
  BY EmbedAssumption, WatchAssumption DEF Init, EmbedInit, NewsOK, BoundsOK
<1> QED
  BY <1>1, <1>2, <1>3, <1>4, <1>5 DEF NodeInv

-----------------------------------------------------------------------------
(* What a step that changes one part leaves of the others.                  *)

\* What there is to embed, and what has been embedded, remains.
Remains == /\ WithText \subseteq WithText'
           /\ DOMAIN vectors \subseteq DOMAIN vectors'

\* Nothing is stored.
LEMMA SameTables == ASSUME UNCHANGED <<rows, vectors>> PROVE Remains
BY DEF Remains, WithText

\* Work in hand stays sound while others store entries and vectors.
LEMMA WorkersLater ==
    ASSUME WorkersOK, UNCHANGED work, Remains
    PROVE  WorkersOK'
BY DEF WorkersOK, WorkOK, Remains, Dims

\* A process gets other work.
LEMMA NewWork ==
    ASSUME WorkersOK, NEW p \in Process, NEW w, Goto(p, w), Remains, WorkOK(w)
    PROVE  WorkersOK'
<1>1. DOMAIN work' = Process /\ \A q \in Process : work'[q] = IF q = p THEN w ELSE work[q]
  BY DEF WorkersOK, Goto
<1> QED
  BY <1>1 DEF WorkersOK, WorkOK, Remains, Dims

\* An entry is stored: the entries with text remain, and so do their vectors.
LEMMA RowsGrow ==
    ASSUME TablesOK, WorkersOK, NEW text \in BOOLEAN, Store(text), UNCHANGED <<vectors, work>>
    PROVE  TablesOK' /\ WorkersOK'
<1>1. /\ rows' \in Seq(BOOLEAN)
      /\ DOMAIN rows \subseteq DOMAIN rows'
      /\ \A r \in DOMAIN rows : rows'[r] = rows[r]
  BY DEF TablesOK, Store
<1>2. Remains
  BY <1>1 DEF Remains, WithText
<1>3. TablesOK'
  BY <1>1 DEF TablesOK, VectorsOfTheirEntries
<1> QED
  BY <1>2, <1>3, WorkersLater

\* A round goes on, in whatever state of a round.
LEMMA NewRound ==
    ASSUME RoundsOK, NEW p \in Process, NEW r, Proceed(p, r),
           r.pc \in {"asleep", "peers", "threads"}
    PROVE  RoundsOK'
BY DEF RoundsOK, Proceed

-----------------------------------------------------------------------------
(* The drain and the search.                                                *)

\* The end of a drain, whatever follows it, leaves nothing in hand; at the end of
\* one without an error everything asked for has its vector.
LEMMA DrainEndsOK ==
    ASSUME WorkersOK, NEW p \in Process, NEW done \in BOOLEAN, DrainEnds(p, done), Remains,
           done => work[p].for.asked \subseteq DOMAIN vectors
    PROVE  WorkersOK'
<1> DEFINE left == IF done THEN work[p].for.asked ELSE {}
<1>1. WorkOK(Idle) /\ WorkOK([pc |-> "query", asked |-> left])
  BY DEF WorkOK, Idle
<1> QED
  BY <1>1, NewWork DEF DrainEnds

\* A drain that starts asks for entries that are there.
LEMMA StartDrainOK ==
    ASSUME WorkersOK, NEW p \in Process, NEW purpose, purpose \in {Background, ForSearch},
           StartDrain(p, purpose), Remains
    PROVE  WorkersOK'
<1>1. purpose.asked \subseteq WithText
  BY DEF Background, ForSearch
<1>2. WorkOK([pc |-> "tick", for |-> purpose])
  BY <1>1 DEF WorkOK
<1> QED
  BY <1>2, NewWork DEF StartDrain

\* A set of numbers that is not empty has a least one.
LEMMA Least ==
    ASSUME NEW S \in SUBSET Nat, S # {}
    PROVE  \E x \in S : \A y \in S : x <= y
<1>1. PICK x \in S : \A y \in S : ~ (<<y, x>> \in OpToRel(<, Nat))
  BY NatLessThanWellFounded, WFMin
<1>2. ASSUME NEW y \in S PROVE x <= y
  <2>1. ~ (y < x)
    BY <1>1 DEF OpToRel
  <2> QED
    BY <2>1
<1> QED
  BY <1>2

\* The first batch of a queue that is not empty is not empty either.
LEMMA NonePending ==
    ASSUME TablesOK, PendingEmbeds = {}
    PROVE  WithText \subseteq DOMAIN vectors
<1> SUFFICES ASSUME Waiting # {} PROVE FALSE
  BY DEF Waiting
<1>1. Waiting \in SUBSET Nat
  BY DEF Waiting, WithText, TablesOK
<1>2. PICK x \in Waiting : \A y \in Waiting : x <= y
  BY <1>1, Least
<1>3. {q \in Waiting : q < x} = {}
  <2> SUFFICES ASSUME NEW q \in Waiting, q < x PROVE FALSE
    OBVIOUS
  <2>1. q \in Nat /\ x \in Nat /\ x <= q
    BY <1>1, <1>2
  <2> QED
    BY <2>1
<1>4. Cardinality({q \in Waiting : q < x}) < Batch
  <2>1. Cardinality({}) = 0
    BY FS_EmptySet
  <2>2. 0 < Batch
    BY EmbedAssumption
  <2> QED
    BY <1>3, <2>1, <2>2
<1>5. x \in PendingEmbeds
  BY <1>4 DEF PendingEmbeds
<1> QED
  BY <1>5

\* A Tick takes entries with text.
LEMMA TickOK ==
    ASSUME NodeInv, NEW p \in Process, Tick(p)
    PROVE  WorkersOK'
<1>1. WorkersOK /\ TablesOK /\ Remains /\ work[p].pc = "tick"
  BY SameTables DEF NodeInv, Tick
<1>0. work[p].for.asked \subseteq WithText
  BY <1>1 DEF WorkersOK, WorkOK
<1>2. CASE PendingEmbeds = {}
  <2>1. work[p].for.asked \subseteq DOMAIN vectors
    BY <1>0, <1>1, <1>2, NonePending
  <2>2. DrainEnds(p, TRUE)
    BY <1>2 DEF Tick
  <2> QED
    BY <1>1, <2>1, <2>2, DrainEndsOK
<1>3. CASE PendingEmbeds # {}
  <2> DEFINE w == [pc |-> "embed", for |-> work[p].for, ids |-> PendingEmbeds]
  <2>1. WorkOK(w)
    BY <1>0 DEF WorkOK, PendingEmbeds, Waiting
  <2>2. Goto(p, w)
    BY <1>3 DEF Tick
  <2> QED
    BY <1>1, <2>1, <2>2, NewWork
<1> QED
  BY <1>2, <1>3

\* Wherever an answer puts a datum, the vector there is of the entry there.
LEMMA PlaceByIndex ==
    ASSUME NEW ids, NEW index \in Bijection(ids, ids), NEW d, NEW r \in ids
    PROVE  Place(index, d)[r].of = r /\ Place(index, d)[r].dim = d
<1>1. index \in [ids -> ids] /\ \E q \in ids : index[q] = r
  BY DEF Bijection, Injection, Surjection
<1>2. index[CHOOSE q \in DOMAIN index : index[q] = r] = r
  BY <1>1
<1> QED
  BY <1>1, <1>2 DEF Place

\* A batch of texts goes to the embedder and comes back.
LEMMA EmbedBatchOK ==
    ASSUME NodeInv, NEW p \in Process, EmbedBatch(p)
    PROVE  WorkersOK'
<1> DEFINE w == work[p]
<1>1. /\ WorkersOK /\ Remains /\ w.pc = "embed"
      /\ w.ids \subseteq WithText /\ w.for.asked \subseteq WithText
  BY SameTables DEF NodeInv, EmbedBatch, WorkersOK, WorkOK
<1>2. PICK index \in Bijection(w.ids, w.ids) :
          Goto(p, [pc |-> "upsert", for |-> w.for, ids |-> w.ids,
                   vecs |-> Place(index, Dim[p])])
  BY DEF EmbedBatch
<1>3. \A r \in w.ids : /\ Place(index, Dim[p])[r].of = r
                       /\ Place(index, Dim[p])[r].dim \in Dims
  BY PlaceByIndex DEF Dims
<1>4. WorkOK([pc |-> "upsert", for |-> w.for, ids |-> w.ids, vecs |-> Place(index, Dim[p])])
  BY <1>1, <1>3 DEF WorkOK
<1> QED
  BY <1>1, <1>2, <1>4, NewWork

\* The dimension that a process fixes is that of a vector some model made.
LEMMA EnsureDimOK ==
    ASSUME NodeInv, NEW p \in Process, EnsureDim(p)
    PROVE  DimsOK'
<1>1. PICK r \in work[p].ids : /\ meta' = work[p].vecs[r].dim
                               /\ dim' = [dim EXCEPT ![p] = work[p].vecs[r].dim]
  BY DEF EnsureDim
<1>2. work[p].vecs[r].dim \in Dims
  BY DEF NodeInv, WorkersOK, WorkOK, EnsureDim
<1> QED
  BY <1>1, <1>2 DEF NodeInv, DimsOK, Dims

\* The vector that is stored is of the entry it is stored for; another process
\* may have stored one for it in the meantime, and entries are never removed.
LEMMA UpsertVectorOK ==
    ASSUME NodeInv, NEW p \in Process, UpsertVector(p)
    PROVE  TablesOK' /\ WorkersOK'
<1> DEFINE w == work[p]
<1>1. /\ TablesOK /\ WorkersOK /\ UNCHANGED rows
      /\ w.ids \subseteq WithText /\ w.for.asked \subseteq WithText
      /\ \A r \in w.ids : w.vecs[r].of = r /\ w.vecs[r].dim \in Dims
  BY DEF NodeInv, UpsertVector, WorkersOK, WorkOK
<1>2. PICK r \in w.ids :
          IF w.vecs[r].dim = dim[p]
          THEN /\ vectors' = [q \in {r} \cup DOMAIN vectors |->
                              IF q = r THEN w.vecs[r] ELSE vectors[q]]
               /\ Goto(p, IF w.ids = {r} THEN [pc |-> "tick", for |-> w.for]
                          ELSE [pc |-> "upsert", for |-> w.for,
                                ids |-> w.ids \ {r}, vecs |-> w.vecs])
          ELSE DrainEnds(p, FALSE) /\ UNCHANGED vectors
  BY DEF UpsertVector
<1>3. CASE w.vecs[r].dim # dim[p]
  <2>1. DrainEnds(p, FALSE) /\ UNCHANGED vectors
    BY <1>2, <1>3
  <2>2. WorkersOK'
    BY <1>1, <2>1, SameTables, DrainEndsOK
  <2> QED
    BY <1>1, <2>1, <2>2 DEF TablesOK, VectorsOfTheirEntries
<1>4. CASE w.vecs[r].dim = dim[p]
  <2>1. /\ DOMAIN vectors' = {r} \cup DOMAIN vectors
        /\ vectors'[r] = w.vecs[r]
        /\ \A q \in DOMAIN vectors \ {r} : vectors'[q] = vectors[q]
    BY <1>2, <1>4
  <2>2. TablesOK'
    BY <1>1, <2>1 DEF TablesOK, VectorsOfTheirEntries, WithText
  <2>0. Remains
    BY <1>1, <2>1 DEF Remains, WithText
  <2>3. WorkOK([pc |-> "tick", for |-> w.for])
    BY <1>1 DEF WorkOK
  <2>4. WorkOK([pc |-> "upsert", for |-> w.for, ids |-> w.ids \ {r}, vecs |-> w.vecs])
    BY <1>1 DEF WorkOK
  <2>5. WorkersOK'
    BY <1>1, <1>2, <1>4, <2>0, <2>3, <2>4, NewWork
  <2> QED
    BY <2>2, <2>5
<1> QED
  BY <1>3, <1>4

\* A search reads only.
LEMMA SearchOK ==
    ASSUME NodeInv, NEW p \in Process, Search(p)
    PROVE  WorkersOK'
<1>1. WorkOK(Idle)
  BY DEF WorkOK, Idle
<1> QED
  BY <1>1, SameTables, NewWork DEF NodeInv, Search

\* Whatever a process does for a drain or a search.
LEMMA WorkStep ==
    ASSUME NodeInv, NEW p \in Process, Work(p), UNCHANGED <<news, written, round>>
    PROVE  NodeInv'
<1> USE DEF NodeInv
<1>1. RoundsOK' /\ NewsOK' /\ written' \in 0..MaxWritten
  BY DEF RoundsOK, NewsOK, BoundsOK, Threads
<1>2. CASE Tick(p)
  <2>1. TablesOK' /\ DimsOK' /\ lost' \in 0..MaxLost
    BY <1>2 DEF Tick, TablesOK, VectorsOfTheirEntries, DimsOK, BoundsOK, Dims
  <2> QED
    BY <1>1, <1>2, <2>1, TickOK DEF BoundsOK
<1>3. CASE EmbedBatch(p)
  <2>1. TablesOK' /\ DimsOK' /\ lost' \in 0..MaxLost
    BY <1>3 DEF EmbedBatch, TablesOK, VectorsOfTheirEntries, DimsOK, BoundsOK, Dims
  <2> QED
    BY <1>1, <1>3, <2>1, EmbedBatchOK DEF BoundsOK
<1>4. CASE EnsureDim(p)
  <2>1. TablesOK' /\ WorkersOK' /\ lost' \in 0..MaxLost
    BY <1>4, SameTables, WorkersLater DEF EnsureDim, TablesOK, VectorsOfTheirEntries, BoundsOK
  <2> QED
    BY <1>1, <1>4, <2>1, EnsureDimOK DEF BoundsOK
<1>5. CASE UpsertVector(p)
  <2>1. DimsOK' /\ lost' \in 0..MaxLost
    BY <1>5 DEF UpsertVector, DimsOK, BoundsOK, Dims
  <2> QED
    BY <1>1, <1>5, <2>1, UpsertVectorOK DEF BoundsOK
<1>6. CASE Search(p)
  <2>1. TablesOK' /\ DimsOK' /\ lost' \in 0..MaxLost
    BY <1>6 DEF Search, TablesOK, VectorsOfTheirEntries, DimsOK, BoundsOK, Dims
  <2> QED
    BY <1>1, <1>6, <2>1, SearchOK DEF BoundsOK
<1> QED
  BY <1>2, <1>3, <1>4, <1>5, <1>6 DEF Work

-----------------------------------------------------------------------------
(* Lost calls and processes, and rounds.                                    *)

\* The embedder fails.
LEMMA EmbedFailsStep ==
    ASSUME NodeInv, NEW p \in Process, EmbeddingFails(p)
    PROVE  NodeInv'
<1>1. WorkersOK'
  BY SameTables, DrainEndsOK DEF NodeInv, EmbeddingFails, EmbedFails
<1>2. lost' \in 0..MaxLost
  BY EmbedAssumption DEF NodeInv, BoundsOK, EmbeddingFails, EmbedFails
<1>3. TablesOK' /\ DimsOK'
  BY DEF NodeInv, EmbeddingFails, EmbedFails, TablesOK, VectorsOfTheirEntries, DimsOK, Dims
<1>4. RoundsOK' /\ NewsOK' /\ written' \in 0..MaxWritten
  BY DEF NodeInv, EmbeddingFails, RoundsOK, NewsOK, BoundsOK, Threads
<1> QED
  BY <1>1, <1>2, <1>3, <1>4 DEF NodeInv, BoundsOK

\* A new process knows the dimension that the database has.
LEMMA RestartStep ==
    ASSUME NodeInv, NEW p \in Process, Restart(p)
    PROVE  NodeInv'
<1>1. WorkOK(Idle)
  BY DEF WorkOK, Idle
<1>2. WorkersOK'
  BY <1>1, SameTables, NewWork DEF NodeInv, Restart, Reopen
<1>3. DimsOK'
  BY DEF NodeInv, DimsOK, Restart, Reopen, Dims
<1>4. lost' \in 0..MaxLost
  BY EmbedAssumption DEF NodeInv, BoundsOK, Restart, Reopen
<1>5. RoundsOK'
  BY NewRound DEF NodeInv, Restart, Asleep
<1>6. TablesOK' /\ NewsOK' /\ written' \in 0..MaxWritten
  BY DEF NodeInv, Restart, Reopen, TablesOK, VectorsOfTheirEntries, NewsOK, BoundsOK, Threads
<1> QED
  BY <1>2, <1>3, <1>4, <1>5, <1>6 DEF NodeInv, BoundsOK

\* A step of a round that neither stores an entry nor starts a drain.
LEMMA RoundOnly ==
    ASSUME NodeInv, NEW p \in Process, NEW r, Proceed(p, r),
           r.pc \in {"asleep", "peers", "threads"},
           UNCHANGED <<rows, vectors, meta, dim, work, news, written>>,
           lost' \in 0..MaxLost
    PROVE  NodeInv'
<1>1. RoundsOK'
  BY NewRound DEF NodeInv
<1>2. TablesOK' /\ DimsOK' /\ NewsOK' /\ BoundsOK'
  BY DEF NodeInv, TablesOK, VectorsOfTheirEntries, DimsOK, Dims, NewsOK, BoundsOK, Threads
<1>3. WorkersOK'
  BY SameTables, WorkersLater DEF NodeInv
<1> QED
  BY <1>1, <1>2, <1>3 DEF NodeInv

\* A round starts.
LEMMA StartRoundStep ==
    ASSUME NodeInv, NEW p \in Process, StartRound(p)
    PROVE  NodeInv'
BY RoundOnly DEF StartRound, evars, NodeInv, BoundsOK

\* A round syncs a thread.
LEMMA SyncThreadStep ==
    ASSUME NodeInv, NEW p \in Process, NEW q \in Peer, NEW t \in Threads(q), SyncThread(p, q, t)
    PROVE  NodeInv'
<1>1. TablesOK' /\ WorkersOK'
  <2>1. CASE t \in news[q]
    BY <2>1, RowsGrow DEF NodeInv, SyncThread
  <2>2. CASE t \notin news[q]
    BY <2>2, SameTables, WorkersLater DEF NodeInv, SyncThread, TablesOK, VectorsOfTheirEntries
  <2> QED
    BY <2>1, <2>2
<1>2. round[p].pc = "threads"
  BY DEF SyncThread, AtThread
<1>3. RoundsOK'
  BY <1>2 DEF NodeInv, RoundsOK, SyncThread, Proceed
<1>4. NewsOK'
  BY DEF NodeInv, NewsOK, SyncThread, Threads
<1>5. DimsOK' /\ BoundsOK'
  BY DEF NodeInv, SyncThread, DimsOK, Dims, BoundsOK
<1> QED
  BY <1>1, <1>3, <1>4, <1>5 DEF NodeInv

\* A round ends.
LEMMA EndRoundStep ==
    ASSUME NodeInv, NEW p \in Process, EndRound(p)
    PROVE  NodeInv'
<1>1. WorkersOK'
  <2>1. CASE p \in Watcher
    BY <2>1, SameTables, StartDrainOK DEF NodeInv, EndRound
  <2>2. CASE p \notin Watcher
    BY <2>2, SameTables, WorkersLater DEF NodeInv, EndRound
  <2> QED
    BY <2>1, <2>2
<1>2. RoundsOK'
  BY NewRound DEF NodeInv, EndRound, Asleep
<1>3. TablesOK' /\ DimsOK' /\ NewsOK' /\ BoundsOK'
  BY DEF NodeInv, EndRound, TablesOK, VectorsOfTheirEntries, DimsOK, Dims, NewsOK,
         BoundsOK, Threads
<1> QED
  BY <1>1, <1>2, <1>3 DEF NodeInv

\* The watch goes on.
LEMMA ProgressStep ==
    ASSUME NodeInv, NEW p \in Process, Progress(p)
    PROVE  NodeInv'
<1>1. lost \in 0..MaxLost /\ (lost < MaxLost => lost + 1 \in 0..MaxLost)
  BY EmbedAssumption DEF NodeInv, BoundsOK
<1>2. ASSUME NEW q \in Peer, ListPeer(p, q) PROVE NodeInv'
  BY <1>1, <1>2, RoundOnly DEF ListPeer, evars
<1>3. ASSUME NEW q \in Peer, ListFails(p, q) PROVE NodeInv'
  BY <1>1, <1>3, RoundOnly DEF ListFails
<1>4. ASSUME NEW q \in Peer, NEW t \in Threads(q), SyncThreadFails(p, q, t) PROVE NodeInv'
  BY <1>1, <1>4, RoundOnly DEF SyncThreadFails
<1>5. CASE NextPeer(p)
  BY <1>1, <1>5, RoundOnly DEF NextPeer, evars
<1> QED
  BY <1>2, <1>3, <1>4, <1>5, SyncThreadStep, EndRoundStep DEF Progress

\* What others write, at the peers or by a tool call.
LEMMA WriteAtStep ==
    ASSUME NodeInv, NEW q \in Peer, NEW t \in Threads(q), WriteAt(q, t)
    PROVE  NodeInv'
<1>1. TablesOK' /\ DimsOK' /\ RoundsOK'
  BY DEF NodeInv, WriteAt, evars, TablesOK, VectorsOfTheirEntries, DimsOK, Dims, RoundsOK
<1>2. WorkersOK'
  BY SameTables, WorkersLater DEF NodeInv, WriteAt, evars
<1>3. NewsOK'
  BY DEF NodeInv, WriteAt, NewsOK, Threads
<1>4. BoundsOK'
  BY WatchAssumption DEF NodeInv, WriteAt, evars, BoundsOK
<1> QED
  BY <1>1, <1>2, <1>3, <1>4 DEF NodeInv

\* A user posts.
LEMMA PostStep ==
    ASSUME NodeInv, NEW p \in Process, NEW text \in BOOLEAN, Post(p, text)
    PROVE  NodeInv'
<1>1. TablesOK' /\ WorkersOK'
  BY RowsGrow DEF NodeInv, Post
<1>2. BoundsOK'
  BY WatchAssumption DEF NodeInv, Post, BoundsOK
<1>3. DimsOK' /\ RoundsOK' /\ NewsOK'
  BY DEF NodeInv, Post, DimsOK, Dims, RoundsOK, NewsOK, Threads
<1> QED
  BY <1>1, <1>2, <1>3 DEF NodeInv

\* A search begins, and embeds what is pending first.
LEMMA SearchContextStep ==
    ASSUME NodeInv, NEW p \in Process, SearchContext(p)
    PROVE  NodeInv'
<1>1. WorkersOK'
  BY SameTables, StartDrainOK DEF NodeInv, SearchContext
<1>2. TablesOK' /\ DimsOK' /\ RoundsOK' /\ NewsOK' /\ BoundsOK'
  BY DEF NodeInv, SearchContext, TablesOK, VectorsOfTheirEntries, DimsOK, Dims, RoundsOK,
         NewsOK, BoundsOK, Threads
<1> QED
  BY <1>1, <1>2 DEF NodeInv

-----------------------------------------------------------------------------
(* Theorems.                                                                *)

\* NodeInv is an invariant, by one lemma for each action.
THEOREM NodeInvariant == Spec => []NodeInv
<1>1. ASSUME NodeInv, [Next]_vars PROVE NodeInv'
  <2> USE <1>1
  <2>1. CASE UNCHANGED vars
    <3>1. TablesOK' /\ DimsOK' /\ RoundsOK' /\ NewsOK' /\ BoundsOK'
      BY <2>1 DEF vars, evars, NodeInv, TablesOK, VectorsOfTheirEntries, DimsOK, Dims,
                  RoundsOK, NewsOK, BoundsOK, Threads
    <3>2. WorkersOK'
      BY <2>1, SameTables, WorkersLater DEF vars, evars, NodeInv
    <3> QED
      BY <3>1, <3>2 DEF NodeInv
  <2>2. ASSUME NEW q \in Peer, NEW t \in Threads(q), WriteAt(q, t) PROVE NodeInv'
    BY <2>2, WriteAtStep
  <2>3. ASSUME NEW p \in Process, NEW text \in BOOLEAN, Post(p, text) PROVE NodeInv'
    BY <2>3, PostStep
  <2>4. ASSUME NEW p \in Process,
               StartRound(p) \/ Progress(p) \/ SearchContext(p) \/ EmbeddingFails(p) \/ Restart(p)
        PROVE  NodeInv'
    BY <2>4, StartRoundStep, ProgressStep, SearchContextStep, EmbedFailsStep, RestartStep
  <2>5. ASSUME NEW p \in Process, Embedding(p) PROVE NodeInv'
    BY <2>5, WorkStep DEF Embedding
  <2> QED
    BY <2>1, <2>2, <2>3, <2>4, <2>5 DEF Next
<1> QED
  BY <1>1, WatchInit, PTL DEF Spec

\* Type correctness of Watch.
THEOREM TypeCorrect == Spec => []TypeOK
<1>1. NodeInv => TypeOK
  BY DEF NodeInv, TablesOK, DimsOK, WorkersOK, WorkOK, RoundsOK, NewsOK, BoundsOK, Dims,
         TypeOK, EmbedTypeOK
<1> QED
  BY <1>1, NodeInvariant, PTL

\* A vector is of the entry it is stored for (Worker.Tick, UpsertVector), however
\* many processes drain one queue, and in whatever order answers come.
THEOREM VectorsSound == Spec => []VectorsOfTheirEntries
<1>1. NodeInv => VectorsOfTheirEntries
  BY DEF NodeInv, TablesOK
<1> QED
  BY <1>1, NodeInvariant, PTL

\* SearchAfterDrain: a search after a drain without an error (search_context,
\* cmdSearch) has a vector for every entry it was asked about, whoever made it.
THEOREM SearchIsFresh == Spec => []SearchAfterDrain
<1>1. NodeInv => SearchAfterDrain
  BY DEF NodeInv, WorkersOK, WorkOK, SearchAfterDrain
<1> QED
  BY <1>1, NodeInvariant, PTL
=============================================================================
