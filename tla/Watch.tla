------------------------------- MODULE Watch --------------------------------
(***************************************************************************)
(* The rounds of a node: `lamdis sync', once or with -watch, and the       *)
(* sync_peers tool, over Client.SyncAll with each peer, and the drain of   *)
(* the embedding queue at the end of a round (cmd/lamdis, internal/mcp,    *)
(* internal/sync).  What module Sync opens up is one step here: the        *)
(* SyncThread of one thread with one peer, which succeeds or not.          *)
(*                                                                         *)
(* Each peer serves some threads.  A thread may have an entry that this    *)
(* node lacks; it may be one that every SyncThread fails on (a refused     *)
(* entry, a corrupt log, and so the first thread of a peer that is down).  *)
(***************************************************************************)
EXTENDS Embed

CONSTANTS Peer,         \* the configured peers
          ListOf,       \* ListOf[q]: the threads peer q lists, in the order of their ids
          Broken,       \* <<peer, thread>> that every SyncThread fails on
          Watcher,      \* processes whose rounds a ticker starts, and which drain
          Tool,         \* processes whose rounds a tool call starts, and which do not
          MaxWritten    \* bound: entries written, here or at the peers

ASSUME WatchAssumption ==
    /\ Watcher \cup Tool = Process /\ Watcher \cap Tool = {}
    /\ MaxWritten \in Nat

VARIABLES news,         \* news[q]: threads of q with an entry that this node lacks
          written,      \* entries written so far
          round         \* round[p]: where the round of process p is

vars == <<evars, news, written, round>>

Asleep == [pc |-> "asleep"]

Init ==
    /\ EmbedInit
    /\ news = [q \in Peer |-> {}]
    /\ written = 0
    /\ round = [p \in Process |-> Asleep]

Threads(q) == {ListOf[q][i] : i \in DOMAIN ListOf[q]}

\* Somebody posts in thread t at peer q.
WriteAt(q, t) ==
    /\ written < MaxWritten
    /\ t \notin news[q]
    /\ written' = written + 1
    /\ news' = [news EXCEPT ![q] = @ \cup {t}]
    /\ UNCHANGED <<evars, round>>

-----------------------------------------------------------------------------
(* A round.                                                                 *)

Proceed(p, r) == round' = [round EXCEPT ![p] = r]

StartRound(p) ==
    /\ round[p] = Asleep
    /\ work[p] = Idle
    /\ Proceed(p, [pc |-> "peers", todo |-> Peer])
    /\ UNCHANGED <<evars, news, written>>

\* SyncAll with the next peer, in no order of its own: its list arrives.
ListPeer(p, q) ==
    LET r == round[p]
    IN  /\ r.pc = "peers" /\ q \in r.todo
        /\ Proceed(p, [pc |-> "threads", todo |-> r.todo \ {q}, peer |-> q, next |-> 1])
        /\ UNCHANGED <<evars, news, written>>

\* It does not, and the round goes on with another peer.
ListFails(p, q) ==
    LET r == round[p]
    IN  /\ r.pc = "peers" /\ q \in r.todo
        /\ lost < MaxLost /\ lost' = lost + 1
        /\ Proceed(p, [pc |-> "peers", todo |-> r.todo \ {q}])
        /\ UNCHANGED <<rows, vectors, meta, dim, work, news, written>>

AtThread(p, q, t) ==
    LET r == round[p]
    IN  r.pc = "threads" /\ r.peer = q /\ r.next <= Len(ListOf[q]) /\ t = ListOf[q][r.next]

\* SyncThread of the next thread of the list: what this node lacked is stored.
SyncThread(p, q, t) ==
    /\ AtThread(p, q, t)
    /\ <<q, t>> \notin Broken
    /\ news' = [news EXCEPT ![q] = @ \ {t}]
    /\ IF t \in news[q] THEN Store(TRUE) ELSE UNCHANGED rows
    /\ Proceed(p, [round[p] EXCEPT !.next = @ + 1])
    /\ UNCHANGED <<vectors, meta, dim, work, lost, written>>

\* Mutant of SyncThreadFails: and with it the round.
SyncThreadFailsForAll(p, q, t) ==
    /\ AtThread(p, q, t)
    /\ IF <<q, t>> \in Broken THEN UNCHANGED lost ELSE lost < MaxLost /\ lost' = lost + 1
    /\ Proceed(p, [pc |-> "peers", todo |-> {}])
    /\ UNCHANGED <<rows, vectors, meta, dim, work, news, written>>

\* It fails, and with it SyncAll: the rest of the list is left for a later round.
SyncThreadFails(p, q, t) ==
    /\ AtThread(p, q, t)
    /\ IF <<q, t>> \in Broken THEN UNCHANGED lost ELSE lost < MaxLost /\ lost' = lost + 1
    /\ Proceed(p, [pc |-> "peers", todo |-> round[p].todo])
    /\ UNCHANGED <<rows, vectors, meta, dim, work, news, written>>

\* The list of a peer is done.
NextPeer(p) ==
    LET r == round[p]
    IN  /\ r.pc = "threads" /\ r.next > Len(ListOf[r.peer])
        /\ Proceed(p, [pc |-> "peers", todo |-> r.todo])
        /\ UNCHANGED <<evars, news, written>>

\* Mutant of EndRound: the queue is only drained by searches.
EndRoundUndrained(p) ==
    /\ round[p] = [pc |-> "peers", todo |-> {}]
    /\ Proceed(p, Asleep)
    /\ UNCHANGED <<evars, news, written>>

\* All peers are done; a watcher drains the queue before it sleeps.
EndRound(p) ==
    /\ round[p] = [pc |-> "peers", todo |-> {}]
    /\ Proceed(p, Asleep)
    /\ IF p \in Watcher THEN StartDrain(p, Background) ELSE UNCHANGED work
    /\ UNCHANGED <<rows, vectors, meta, dim, lost, news, written>>

-----------------------------------------------------------------------------
(* Tool calls.                                                              *)

\* post_entry: the entry waits for whoever drains next.
Post(p, text) ==
    /\ p \in Tool
    /\ written < MaxWritten
    /\ written' = written + 1
    /\ Store(text)
    /\ UNCHANGED <<vectors, meta, dim, work, lost, news, round>>

\* search_context drains the queue, then searches.
SearchContext(p) ==
    /\ p \in Tool
    /\ StartDrain(p, ForSearch)
    /\ UNCHANGED <<rows, vectors, meta, dim, lost, news, written, round>>

Restart(p) ==
    /\ Reopen(p)
    /\ Proceed(p, Asleep)
    /\ UNCHANGED <<news, written>>

Progress(p) ==
    \/ \E q \in Peer : ListPeer(p, q) \/ ListFails(p, q)
    \/ \E q \in Peer : \E t \in Threads(q) : SyncThread(p, q, t) \/ SyncThreadFails(p, q, t)
    \/ NextPeer(p) \/ EndRound(p)

Embedding(p) == Work(p) /\ UNCHANGED <<news, written, round>>

EmbeddingFails(p) == EmbedFails(p) /\ UNCHANGED <<news, written, round>>

Next ==
    \/ \E q \in Peer : \E t \in Threads(q) : WriteAt(q, t)
    \/ \E p \in Process :
          \/ StartRound(p) \/ Progress(p)
          \/ \E text \in BOOLEAN : Post(p, text)
          \/ SearchContext(p)
          \/ Embedding(p) \/ EmbeddingFails(p)
          \/ Restart(p)

Spec == Init /\ [][Next]_vars

\* The ticker of `sync -watch' starts a round whenever the last one has ended,
\* and calls return, if with an error: their clients have a timeout.
Fairness ==
    \A p \in Watcher : /\ WF_vars(StartRound(p)) /\ WF_vars(Progress(p))
                       /\ WF_vars(Embedding(p))

FairSpec == Spec /\ Fairness

-----------------------------------------------------------------------------
(* Properties.                                                              *)

\* Type invariant of the node.
TypeOK ==
    /\ EmbedTypeOK
    /\ \A q \in Peer : news[q] \subseteq Threads(q)
    /\ written \in 0..MaxWritten
    /\ \A p \in Process : round[p].pc \in {"asleep", "peers", "threads"}

\* A thread that no SyncThread gets to: its own sync or that of a thread listed
\* before it fails for ever.
Unreachable(q, t) ==
    \E i, j \in DOMAIN ListOf[q] :
        i <= j /\ ListOf[q][j] = t /\ <<q, ListOf[q][i]>> \in Broken

\* Whatever fails at one peer, every thread of every other peer that SyncAll can
\* get to is brought up to date.
PeersReached ==
    \A q \in Peer : \A t \in Threads(q) :
        ~ Unreachable(q, t) => (t \in news[q] ~> t \notin news[q])

\* Every entry with text gets its vector, whoever stored it, whatever calls
\* failed in between, and however many processes work on the queue.
EverythingEmbedded ==
    \A r \in 1..Len(Stored) + MaxWritten : (r \in DOMAIN rows /\ rows[r]) ~> r \in DOMAIN vectors
=============================================================================
