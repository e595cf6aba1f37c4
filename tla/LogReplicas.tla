---------------------------- MODULE LogReplicas ----------------------------
(***************************************************************************)
(* Replicas of one thread: every node keeps a ThreadLog, authors into it   *)
(* with its own key, and is handed entries that others authored, in any    *)
(* order, any number of times, or never.  It is the substrate of sync: the *)
(* question is what ThreadLog.Append alone guarantees, whatever the        *)
(* network and the peers do with genuine entries.                          *)
(***************************************************************************)
EXTENDS ThreadLog

CONSTANTS Creator,      \* the node that creates the thread
          MaxEntries    \* bound: entries authored by one principal

ASSUME CreatorAssumption == Creator \in Principal
ASSUME MaxEntriesAssumption == MaxEntries \in Nat

VARIABLES log,          \* log[n]: the ThreadLog of the node of principal n
          sent,         \* every entry ever authored; the network forgets none
          ids           \* ids[n]: the ids n has used

vars == <<log, sent, ids>>

Init ==
    /\ log = [n \in Principal |-> NewThreadLog]
    /\ sent = {}
    /\ ids = [n \in Principal |-> 0]

\* Mutant of Publish: the author's own log does not admit the entry.
PublishOnly(n, e) ==
    /\ UNCHANGED log
    /\ sent' = sent \cup {e}
    /\ ids' = [ids EXCEPT ![n] = @ + 1]

Publish(n, e) ==
    /\ log' = [log EXCEPT ![n] = AppendEntry(log[n], e)]
    /\ sent' = sent \cup {e}
    /\ ids' = [ids EXCEPT ![n] = @ + 1]

\* NewThreadWith: the creator makes the genesis entry and the log it anchors.
NewThread(draft) ==
    /\ sent = {}
    /\ ids[Creator] < MaxEntries
    /\ Publish(Creator, Genesis(Creator, ids[Creator] + 1, draft))

\* Author.Append on a log the node already holds.
AuthorAppend(n, lane, draft) ==
    /\ log[n].entries # {}
    /\ ids[n] < MaxEntries
    /\ Publish(n, NextEntry(log[n], n, ids[n] + 1, lane, draft))

\* ThreadLog.Append of an entry that arrives from elsewhere: admitted,
\* recognised as a redelivery, or refused with an error.
Receive(n, e) ==
    /\ log' = [log EXCEPT ![n] = AppendEntry(log[n], e)]
    /\ UNCHANGED <<sent, ids>>

Next ==
    \/ \E d \in Draft : NewThread(d)
    \/ \E n \in Principal, lane \in Lane, d \in Draft : AuthorAppend(n, lane, d)
    \/ \E n \in Principal, e \in sent : Receive(n, e)

\* `lamdis sync -watch' polls for ever, so an entry that a node would admit is
\* eventually offered to it; a Receive that changes nothing is a stutter.
Fairness == \A n \in Principal : WF_vars(\E e \in sent : Receive(n, e))

Spec == Init /\ [][Next]_vars

FairSpec == Spec /\ Fairness

-----------------------------------------------------------------------------
(* The abstract replicas: a log is reduced to its version vector.           *)

VV == INSTANCE VersionVectors
          WITH Node <- Principal, written <- sent,
               held <- [n \in Principal |-> Heads(log[n])]

-----------------------------------------------------------------------------
(* Properties.                                                              *)

\* Type invariant of the replicas' state.
TypeOK ==
    /\ log \in [Principal -> Log]
    /\ sent \in SUBSET Entry
    /\ ids \in [Principal -> Nat]

\* Every log holds every chain as a gap-free, prev-linked prefix that ends at
\* its head: the numbers 1..head.seq are all there, nothing is beyond the head,
\* and each entry names its predecessor's hash.  It is what lets Heads (one
\* number per chain) describe a whole log.
ChainsIntact ==
    \A n \in Principal : Contiguous(log[n]) /\ Linked(log[n])

\* No forks: two entries at the same position of the same chain are the same
\* entry, wherever they are held.
NoForks ==
    \A e, f \in sent : ChainOf(e) = ChainOf(f) /\ e.seq = f.seq => e = f

\* A log is what its version vector says: of everything ever written, the
\* entries up to the head of each chain, and no other.  Sync exchanges only the
\* numbers of Heads, so this is what makes it sound to conclude from them what
\* is missing.
HeadsDescribeLog == \A n \in Principal : log[n].entries = VV!Shown(n)

\* The lamport clock respects causality: an author's new entry sorts after
\* every entry in its log, so along a chain the total order of Less follows
\* seq.  The permission fold relies on it to see an author's control entries
\* in the order they were written.
ChainsSorted ==
    \A e, f \in sent : ChainOf(e) = ChainOf(f) /\ e.seq < f.seq => Less(e, f)

\* The inductive strengthening: logs are well formed, nodes hold only entries
\* that were authored, and an author's own log holds everything it authored.
\* The last is what makes forks impossible: seq and prev are chosen from a log
\* that has the author's whole chain.
ReplicaInv ==
    /\ TypeOK
    /\ NoForks
    /\ ChainsSorted
    /\ \A n \in Principal : WellFormed(log[n]) /\ log[n].entries \subseteq sent
    /\ \A e \in sent : e \in log[e.author].entries /\ e.id <= ids[e.author]

\* A log never loses or replaces an entry, and its clock never runs back.
AppendOnly ==
    [][\A n \in Principal : /\ log[n].entries \subseteq log'[n].entries
                            /\ log[n].lamport <= log'[n].lamport]_vars

\* The replicas implement version vectors: whatever is delivered, repeated or
\* refused, a vector grows only by the author's next entry or by entries that
\* were written, and a chain is written only by who holds all of it.
ImplementsVersionVectors == VV!Spec

\* Once nothing new is written, redelivery brings every replica to the same
\* log: no order of arrival leaves a replica refusing an entry for ever.
Converges == <>[](\A n \in Principal : log[n].entries = sent)
=============================================================================
