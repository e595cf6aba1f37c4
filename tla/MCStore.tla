------------------------------ MODULE MCStore ------------------------------
(***************************************************************************)
(* TLC instances of Store: the node of principal 1 holds a thread that 1   *)
(* created, and ingests entries of principal 2.                            *)
(***************************************************************************)
EXTENDS Store, TLC

CONSTANTS h1, h2, h3

MCGenesis == Genesis(1, 1, "m")

Theirs(n) == [id |-> n, author |-> 2, lane |-> "content", seq |-> n,
              lamport |-> n + 1, prev |-> n - 1, draft |-> "m"]

\* One whose predecessor in the chain never arrives.
Stray == [Theirs(2) EXCEPT !.lane = "summary"]

MCStored == <<MCGenesis>>
MCRemote == {Theirs(1), Stray}
MCOneRemote == {Theirs(1)}
MCNoRemote == {}

\* A daemon that serves two requests at a time, with another process that authors
\* and syncs; two processes that author, one of which syncs too; and the two
\* requests alone.
MCRuns == {<<1, h1>>, <<1, h2>>, <<2, h3>>, <<2, "ingest">>}
MCTwoWriters == {<<1, h1>>, <<1, "ingest">>, <<2, h1>>}
MCTwoRequests == {<<1, h1>>, <<1, h2>>}

\* The two requests are interchangeable.
Interchangeable == Permutations({h1, h2})
=============================================================================
