------------------------------- MODULE Embed --------------------------------
(***************************************************************************)
(* Embeddings on one node: node/internal/embed, the vectors of             *)
(* node/internal/store, and the searches that drain the queue first        *)
(* (`search', `search_context').  Several processes share the database;    *)
(* each read the vector dimension when it opened it, and each may be       *)
(* draining the same queue.                                                *)
(*                                                                         *)
(* An entry is its rowid here, and its text too: all that matters is which *)
(* entry a vector was computed from.  A drain is cut at every statement    *)
(* and call; a call, or the process, may be lost.                          *)
(***************************************************************************)
EXTENDS Naturals, FiniteSets, Sequences, Functions

CONSTANTS Process,      \* the processes that have the database open
          Dim,          \* Dim[p]: the dimension of the model that p is configured with
          Stored,       \* the entries that the database starts with, as in rows
          Batch,        \* entries embedded by one Tick
          MaxLost       \* bound: calls and processes that are lost

ASSUME EmbedAssumption ==
    /\ Dim \in [Process -> Nat \ {0}]
    /\ Stored \in Seq(BOOLEAN)
    /\ Batch \in Nat \ {0}
    /\ MaxLost \in Nat

VARIABLES rows,         \* table entries: rows[rid] is whether that entry has text
          vectors,      \* table vectors: by rowid, the entry it is of and its dimension
          meta,         \* meta.vec_dim; 0 when there is none
          dim,          \* dim[p]: the dimension that p knows, SQLite.dim
          work,         \* work[p]: the drain or search that p is running
          lost          \* calls and processes lost so far

evars == <<rows, vectors, meta, dim, work, lost>>

Idle == [pc |-> "idle"]

EmbedInit ==
    /\ rows = Stored
    /\ vectors = << >>
    /\ meta = 0
    /\ dim = [p \in Process |-> 0]
    /\ work = [p \in Process |-> Idle]
    /\ lost = 0

Goto(p, w) == work' = [work EXCEPT ![p] = w]

\* An entry is stored, by whatever operation.
Store(text) == rows' = Append(rows, text)

-----------------------------------------------------------------------------
(* Worker.Tick, in the loop of drainEmbeds and of search_context.           *)

WithText == {r \in DOMAIN rows : rows[r]}

\* What follows a drain: nothing, or a search, which is asked when these entries
\* are there.
Background == [search |-> FALSE, asked |-> {}]
ForSearch == [search |-> TRUE, asked |-> WithText]

StartDrain(p, purpose) ==
    /\ work[p] = Idle
    /\ Goto(p, [pc |-> "tick", for |-> purpose])

\* A drain that an error ended promises a search nothing.
DrainEnds(p, done) ==
    Goto(p, IF work[p].for.search
            THEN [pc |-> "query", asked |-> IF done THEN work[p].for.asked ELSE {}]
            ELSE Idle)

Waiting == WithText \ DOMAIN vectors

\* PendingEmbeds: entries with text and no vector, the first batch of them by rowid.
PendingEmbeds == {r \in Waiting : Cardinality({q \in Waiting : q < r}) < Batch}

\* Mutant of Tick: a batch that is not full can wait for the next drain.
TickFullBatches(p) ==
    /\ work[p].pc = "tick"
    /\ IF Cardinality(PendingEmbeds) < Batch THEN DrainEnds(p, TRUE)
       ELSE Goto(p, [pc |-> "embed", for |-> work[p].for, ids |-> PendingEmbeds])
    /\ UNCHANGED <<rows, vectors, meta, dim, lost>>

\* An empty queue ends the drain.
Tick(p) ==
    /\ work[p].pc = "tick"
    /\ IF PendingEmbeds = {} THEN DrainEnds(p, TRUE)
       ELSE Goto(p, [pc |-> "embed", for |-> work[p].for, ids |-> PendingEmbeds])
    /\ UNCHANGED <<rows, vectors, meta, dim, lost>>

\* Mutant of Place: the order of the answer is taken for that of the inputs.
PlaceAsAnswered(index, d) == [r \in DOMAIN index |-> [of |-> index[r], dim |-> d]]

\* OpenAICompat.Embed puts each datum of the answer, computed from the input that
\* its index names, at that index.
Place(index, d) ==
    [r \in DOMAIN index |->
        LET datum == CHOOSE q \in DOMAIN index : index[q] = r
        IN  [of |-> index[datum], dim |-> d]]

\* Embedder.Embed, one call for the batch; the answer may come in any order.
EmbedBatch(p) ==
    LET w == work[p]
    IN  /\ w.pc = "embed"
        /\ \E index \in Bijection(w.ids, w.ids) :
              Goto(p, [pc |-> "upsert", for |-> w.for, ids |-> w.ids,
                       vecs |-> Place(index, Dim[p])])
        /\ UNCHANGED <<rows, vectors, meta, dim, lost>>

\* The call fails, and with it the drain.
EmbedFails(p) ==
    /\ work[p].pc = "embed"
    /\ lost < MaxLost
    /\ lost' = lost + 1
    /\ DrainEnds(p, FALSE)
    /\ UNCHANGED <<rows, vectors, meta, dim>>

\* Mutant of EnsureDim: the number of vectors is taken for their dimension.
EnsureDimOfBatch(p) ==
    LET w == work[p]
    IN  /\ w.pc = "upsert"
        /\ dim[p] = 0
        /\ meta' = Cardinality(DOMAIN w.vecs)
        /\ dim' = [dim EXCEPT ![p] = Cardinality(DOMAIN w.vecs)]
        /\ UNCHANGED <<rows, vectors, work, lost>>

\* ensureDim: the first vector that p knows of fixes the dimension.
EnsureDim(p) ==
    LET w == work[p]
    IN  /\ w.pc = "upsert"
        /\ dim[p] = 0
        /\ \E r \in w.ids :
              /\ meta' = w.vecs[r].dim
              /\ dim' = [dim EXCEPT ![p] = w.vecs[r].dim]
        /\ UNCHANGED <<rows, vectors, work, lost>>

\* UpsertVector of the next entry, in place of what may be there; the last one
\* ends the Tick, and another dimension than p's ends the drain.
UpsertVector(p) ==
    LET w == work[p]
    IN  /\ w.pc = "upsert"
        /\ dim[p] # 0
        /\ \E r \in w.ids :
              /\ \A q \in w.ids : r <= q
              /\ IF w.vecs[r].dim = dim[p]
                 THEN /\ vectors' = [q \in {r} \cup DOMAIN vectors |->
                                      IF q = r THEN w.vecs[r] ELSE vectors[q]]
                      /\ Goto(p, IF w.ids = {r} THEN [pc |-> "tick", for |-> w.for]
                                 ELSE [pc |-> "upsert", for |-> w.for,
                                       ids |-> w.ids \ {r}, vecs |-> w.vecs])
                 ELSE /\ DrainEnds(p, FALSE)
                      /\ UNCHANGED vectors
        /\ UNCHANGED <<rows, meta, dim, lost>>

-----------------------------------------------------------------------------
(* After the drain.                                                         *)

\* The search of a command or tool call, which changes nothing.
Search(p) ==
    /\ work[p].pc = "query"
    /\ Goto(p, Idle)
    /\ UNCHANGED <<rows, vectors, meta, dim, lost>>

\* The process ends, and another one opens the database.
Reopen(p) ==
    /\ lost < MaxLost
    /\ lost' = lost + 1
    /\ dim' = [dim EXCEPT ![p] = meta]
    /\ Goto(p, Idle)
    /\ UNCHANGED <<rows, vectors, meta>>

Work(p) ==
    \/ Tick(p) \/ EmbedBatch(p) \/ EnsureDim(p) \/ UpsertVector(p) \/ Search(p)

-----------------------------------------------------------------------------
(* Properties.                                                              *)

\* Type invariant of the vectors and of who works on them.
EmbedTypeOK ==
    /\ rows \in Seq(BOOLEAN)
    /\ DOMAIN vectors \subseteq DOMAIN rows
    /\ \A p \in Process :
          /\ dim[p] \in {0} \cup {Dim[q] : q \in Process}
          /\ work[p].pc \in {"idle", "tick", "embed", "upsert", "query"}
    /\ lost \in 0..MaxLost

\* A vector is of the entry it is stored for, and only entries with text have
\* one, whoever computed it, in whatever order answers name their vectors, and
\* however the drains of several processes overlap.
VectorsOfTheirEntries ==
    \A r \in DOMAIN vectors : rows[r] /\ vectors[r].of = r

\* The search that follows a drain which met no error has a vector for every
\* entry with text that was there when it was asked for, also for those that
\* other processes were embedding at the time.
SearchAfterDrain ==
    \A p \in Process : work[p].pc = "query" => work[p].asked \subseteq DOMAIN vectors
=============================================================================
