------------------------------- MODULE Search -------------------------------
(***************************************************************************)
(* Search of node/internal/store: a full-text and a vector query over the  *)
(* entries in scope, each cut at K, merged by reciprocal rank fusion,      *)
(* sorted and cut again.                                                   *)
(*                                                                         *)
(* The indexes are given: the text index ranks the entries that match the  *)
(* query, the vector index has a similarity for each entry with a vector.  *)
(* A score is a rational <<numerator, denominator>>.                       *)
(***************************************************************************)
EXTENDS Integers, SequencesExt

CONSTANTS Row,          \* entries: [id, thread, kind, lane]
          Request,      \* searches: [k, mode, lanes, threads, kinds, dim, known]
          Ranking,      \* what the text index may answer: sequences of rows
          Similarity    \* what the vector index may hold: rows to similarities

ASSUME SearchAssumption ==
    /\ \A q \in Request : /\ q.lanes # {} /\ q.k \in Nat \ {0} /\ q.dim \in Nat /\ q.known \in Nat
                          /\ q.mode \in {"fts", "vector", "hybrid"}
    /\ IsFiniteSet(Row) /\ \A r, s \in Row : r.id \in Nat /\ (r.id = s.id => r = s)
    /\ \A t \in Ranking : t \in Seq(Row) /\ IsInjective(t)
    /\ \A v \in Similarity : DOMAIN v \subseteq Row /\ \A r \in DOMAIN v : v[r] \in Int

VARIABLES req, text, sim,   \* the request and what the indexes have for it
          merged,           \* the scores so far, by row
          hits,             \* the answer
          pc

vars == <<req, text, sim, merged, hits, pc>>

rrfK == 60

Init ==
    /\ req \in Request /\ text \in Ranking /\ sim \in Similarity
    /\ merged = << >> /\ hits = <<>>
    /\ pc = "text"

-----------------------------------------------------------------------------
\* scopeFilter: lanes are required, threads and kinds restrict if given.
InScope(q, r) ==
    /\ r.lane \in q.lanes
    /\ q.threads = {} \/ r.thread \in q.threads
    /\ q.kinds = {} \/ r.kind \in q.kinds

Cut(s, k) == IF Len(s) > k THEN SubSeq(s, 1, k) ELSE s

\* ORDER BY and sort.Slice: the elements of S as R orders them.
InOrder(S, R) ==
    CHOOSE s \in SetToSeqs(S) : \A i, j \in DOMAIN s : i < j => <<s[i], s[j]>> \in R

\* By rank: as the text index has them.
ByRank(t) ==
    {p \in ToSet(t) \X ToSet(t) : \E i, j \in DOMAIN t : i < j /\ p = <<t[i], t[j]>>}

\* By similarity, and by id where they are equally similar.
BySimilarity(v) ==
    {p \in (DOMAIN v) \X (DOMAIN v) :
        v[p[1]] > v[p[2]] \/ (v[p[1]] = v[p[2]] /\ p[1].id < p[2].id)}

\* Mutant of SearchFTS: the scope is applied to the best K of all.
SearchFTSPostFiltered(q, t) ==
    InOrder({r \in ToSet(Cut(t, q.k)) : InScope(q, r)}, ByRank(t))

\* searchFTS: the best K matches in scope.
SearchFTS(q, t) == Cut(InOrder({r \in ToSet(t) : InScope(q, r)}, ByRank(t)), q.k)

\* searchVec: the K most similar in scope.
SearchVec(q, v) == Cut(InOrder({r \in DOMAIN v : InScope(q, r)}, BySimilarity(v)), q.k)

-----------------------------------------------------------------------------
(* Reciprocal rank fusion.                                                  *)

Plus(x, y) == <<x[1] * y[2] + y[1] * x[2], x[2] * y[2]>>
Above(x, y) == x[1] * y[2] > y[1] * x[2]

Score(m, r) == IF r \in DOMAIN m THEN m[r] ELSE <<0, 1>>

\* Mutant of AddList: places are counted from the end of the list.
AddListFromEnd(m, list) ==
    [r \in DOMAIN m \cup ToSet(list) |->
        IF r \in ToSet(list)
        THEN Plus(Score(m, r), <<1, rrfK + Len(list) + 1 - (CHOOSE i \in DOMAIN list : list[i] = r)>>)
        ELSE m[r]]

\* addList: the i-th of a list gets 1 / (rrfK + i) more.
AddList(m, list) ==
    [r \in DOMAIN m \cup ToSet(list) |->
        IF r \in ToSet(list)
        THEN Plus(Score(m, r), <<1, rrfK + (CHOOSE i \in DOMAIN list : list[i] = r)>>)
        ELSE m[r]]

UsesText(q) == q.mode \in {"fts", "hybrid"} \/ q.dim = 0

UsesVectors(q) == q.mode \in {"vector", "hybrid"} /\ q.dim > 0 /\ q.known > 0

QueryText ==
    /\ pc = "text"
    /\ merged' = IF UsesText(req) THEN AddList(<< >>, SearchFTS(req, text)) ELSE << >>
    /\ pc' = "vectors"
    /\ UNCHANGED <<req, text, sim, hits>>

\* Mutant of QueryVectors: what the text query found comes with the error.
QueryVectorsInPart ==
    /\ pc = "vectors"
    /\ merged' = IF UsesVectors(req) /\ req.dim = req.known
                 THEN AddList(merged, SearchVec(req, sim)) ELSE merged
    /\ IF UsesVectors(req) /\ req.dim # req.known
       THEN pc' = "failed" /\ hits' = SearchFTS(req, text)
       ELSE pc' = "sort" /\ UNCHANGED hits
    /\ UNCHANGED <<req, text, sim>>

\* A query vector of another dimension than the store's is an error.
QueryVectors ==
    /\ pc = "vectors"
    /\ merged' = IF UsesVectors(req) /\ req.dim = req.known
                 THEN AddList(merged, SearchVec(req, sim)) ELSE merged
    /\ pc' = IF UsesVectors(req) /\ req.dim # req.known THEN "failed" ELSE "sort"
    /\ UNCHANGED <<req, text, sim, hits>>

-----------------------------------------------------------------------------
(* sortHits: insertion from the right, by score and then by id.             *)

Before(m, a, b) == Above(m[a], m[b]) \/ (~ Above(m[b], m[a]) /\ a.id < b.id)

InsertHit(m, s, r) ==
    LET stays == {i \in DOMAIN s : ~ Before(m, r, s[i])}
        last  == IF stays = {} THEN 0 ELSE CHOOSE i \in stays : \A j \in stays : j <= i
    IN  InsertAt(s, last + 1, r)

SortHits(m, out) ==
    LET sorted[i \in 0..Len(out)] ==
            IF i = 0 THEN <<>> ELSE InsertHit(m, sorted[i - 1], out[i])
    IN  sorted[Len(out)]

\* The merged hits come in the order of a Go map, that is in any.
Sort ==
    /\ pc = "sort"
    /\ \E out \in SetToSeqs(DOMAIN merged) : hits' = Cut(SortHits(merged, out), req.k)
    /\ pc' = "done"
    /\ UNCHANGED <<req, text, sim, merged>>

Next == QueryText \/ QueryVectors \/ Sort

Spec == Init /\ [][Next]_vars

-----------------------------------------------------------------------------
(* Properties.                                                              *)

\* Type invariant of a search.
TypeOK ==
    /\ pc \in {"text", "vectors", "sort", "done", "failed"}
    /\ DOMAIN merged \subseteq Row /\ hits \in Seq(Row)
    /\ pc \in {"text", "vectors", "failed"} => hits = <<>>

\* The two candidate lists, as a reader would define them.
Scope == {r \in Row : InScope(req, r)}

TextBefore(r, s) == \E i, j \in DOMAIN text : i < j /\ text[i] = r /\ text[j] = s

VectorBefore(r, s) ==
    /\ r \in DOMAIN sim /\ s \in DOMAIN sim
    /\ sim[r] > sim[s] \/ (sim[r] = sim[s] /\ r.id < s.id)

TextPlace(r) == Cardinality({s \in Scope : TextBefore(s, r)}) + 1
VectorPlace(r) == Cardinality({s \in Scope : VectorBefore(s, r)}) + 1

InText(r) == UsesText(req) /\ r \in Scope \cap ToSet(text) /\ TextPlace(r) <= req.k
InVectors(r) == UsesVectors(req) /\ r \in Scope \cap DOMAIN sim /\ VectorPlace(r) <= req.k

Fusion(r) ==
    Plus(IF InText(r) THEN <<1, rrfK + TextPlace(r)>> ELSE <<0, 1>>,
         IF InVectors(r) THEN <<1, rrfK + VectorPlace(r)>> ELSE <<0, 1>>)

\* The answer is the best K by reciprocal rank fusion of what each index has in
\* scope, ties by id, each once: whatever is out of scope, and in whatever order
\* the map of merged hits is walked.  An entry out of scope takes no place in
\* either list, as it would if the scope were applied after the cut.
BestByFusion ==
    pc = "done" =>
        LET candidates == {r \in Row : InText(r) \/ InVectors(r)}
            better(a, b) == Above(Fusion(a), Fusion(b))
                            \/ (~ Above(Fusion(b), Fusion(a)) /\ a.id < b.id)
        IN  /\ ToSet(hits) \subseteq candidates
            /\ Len(hits) = IF Cardinality(candidates) < req.k THEN Cardinality(candidates)
                           ELSE req.k
            /\ \A i, j \in DOMAIN hits : i < j => better(hits[i], hits[j])
            /\ \A r \in candidates \ ToSet(hits), i \in DOMAIN hits : better(hits[i], r)

\* Two indexes that agree are not overruled: an entry that both rank above
\* another is not below it in the answer, nor left out for it.
AgreementKept ==
    pc = "done" /\ UsesText(req) /\ UsesVectors(req) =>
        \A r, s \in Scope :
            TextBefore(r, s) /\ VectorBefore(r, s) =>
                \A j \in DOMAIN hits : hits[j] = s =>
                    \E i \in DOMAIN hits : i < j /\ hits[i] = r
=============================================================================
