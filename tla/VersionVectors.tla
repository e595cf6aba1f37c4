--------------------------- MODULE VersionVectors ---------------------------
(***************************************************************************)
(* What replication of a thread promises, with numbers for logs: entries   *)
(* are written into chains, one at each position, and a node holds of each *)
(* chain a prefix, named by its length.  A node's vector of lengths only   *)
(* grows.  LogReplicas and Sync implement this specification; they are the *)
(* ones that say how a log is built and how batches travel.                *)
(***************************************************************************)
EXTENDS Naturals

CONSTANTS Node,          \* the holders of replicas
          Chain,         \* the chains of the thread
          ChainOf(_)     \* the chain of an entry; e.seq is its position there

VARIABLES written,       \* the entries written so far
          held           \* held[n][c]: the length of the prefix of c that n holds

vars == <<written, held>>

Init ==
    /\ written = {}
    /\ held = [n \in Node |-> [c \in Chain |-> 0]]

\* A node that holds a whole chain adds one entry to it.
Write(n) ==
    \E e \in written' \ written :
        /\ written' = written \cup {e}
        /\ e.seq = held[n][ChainOf(e)] + 1
        /\ \A f \in written : ChainOf(f) = ChainOf(e) => f.seq < e.seq
        /\ held' = [held EXCEPT ![n][ChainOf(e)] = e.seq]

\* A node comes to hold more of what was written, by one entry or by many.
Catches(n, c) ==
    /\ held[n][c] < held'[n][c]
    /\ \E e \in written : ChainOf(e) = c /\ e.seq = held'[n][c]

Deliver(n) ==
    /\ \A m \in Node \ {n} : held'[m] = held[m]
    /\ \A c \in Chain : held'[n][c] = held[n][c] \/ Catches(n, c)
    /\ UNCHANGED written

Next == \E n \in Node : Write(n) \/ Deliver(n)

Spec == Init /\ [][Next]_vars

\* The entries that the vector of n stands for.
Shown(n) == {e \in written : e.seq <= held[n][ChainOf(e)]}
=============================================================================
