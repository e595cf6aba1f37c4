------------------------------ MODULE MCSearch ------------------------------
(***************************************************************************)
(* TLC instance of Search: four entries, in two threads, two lanes and two *)
(* kinds, every ranking of those that match, every similarity of those     *)
(* with vectors, with ties.                                                *)
(***************************************************************************)
EXTENDS Search

R(id, thread, kind, lane) == [id |-> id, thread |-> thread, kind |-> kind, lane |-> lane]

MCRow == {R(1, "t", "message", "content"), R(2, "t", "message", "content"),
          R(3, "u", "message", "content"), R(4, "t", "summary", "summary")}

Ask(k, mode, lanes, threads, kinds, dim) ==
    [k |-> k, mode |-> mode, lanes |-> lanes, threads |-> threads, kinds |-> kinds,
     dim |-> dim, known |-> 3]

Full == {"content", "summary"}

MCRequest ==
    {Ask(k, "hybrid", lanes, threads, {}, 3) :
        k \in {1, 2, 3}, lanes \in {Full, {"content"}}, threads \in {{}, {"t"}}}
    \cup {Ask(2, "hybrid", Full, {}, {"message"}, 3), Ask(2, "vector", Full, {}, {}, 3),
          Ask(2, "vector", {"content"}, {}, {}, 0), Ask(2, "fts", {"content"}, {}, {}, 3),
          Ask(2, "hybrid", Full, {}, {}, 2)}

MCRanking == UNION {SetToSeqs(S) : S \in SUBSET MCRow}

MCSimilarity == UNION {[S -> 1..2] : S \in SUBSET MCRow}
=============================================================================
