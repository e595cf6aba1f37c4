----------------------------- MODULE ThreadLog -----------------------------
(***************************************************************************)
(* The in-memory model of one thread: node/internal/log.  A thread is a    *)
(* set of entries, partitioned into hash chains, one per (author, lane).   *)
(* This module has no state of its own: it defines the data and what       *)
(* ThreadLog.Append, Author.Append, Heads and After compute.               *)
(*                                                                         *)
(* Principals are natural numbers in the order of their key strings, so    *)
(* that the tie-break of Less is arithmetic.  An entry's `id' is a counter *)
(* of its author: the pair (author, id) stands for the globally unique     *)
(* ULID, and for the entry's SHA-256 hash, which nobody can make collide.  *)
(* `draft' is the caller-supplied part (kind, on_behalf_of, body): opaque  *)
(* here, interpreted by module Perm.                                       *)
(***************************************************************************)
EXTENDS Naturals, FiniteSets

CONSTANTS Principal,   \* the principals (public keys)
          Draft        \* the caller-supplied parts of entries

ASSUME PrincipalAssumption == Principal \subseteq Nat \ {0}

Lane  == {"control", "summary", "content"}
Chain == Principal \X Lane

GenesisPrev == 0       \* the prev of the first entry of a chain

Entry == [id : Nat \ {0}, author : Principal, lane : Lane, seq : Nat \ {0},
          lamport : Nat \ {0}, prev : Nat, draft : Draft]

\* Entry.Hash: what the next entry of the same chain carries as prev.
Hash(e) == e.id

ChainOf(e) == <<e.author, e.lane>>

SameId(e, f) == e.author = f.author /\ e.id = f.id

\* The protocol's total order: (lamport, author, id).
Less(a, b) ==
    \/ a.lamport < b.lamport
    \/ a.lamport = b.lamport /\ a.author < b.author
    \/ a.lamport = b.lamport /\ a.author = b.author /\ a.id < b.id

-----------------------------------------------------------------------------
(* A log is its chain heads, its entries and the highest lamport seen.      *)
(* heads[c].seq = 0 says that no entry of chain c is held.                  *)

ChainHead == [seq : Nat, hash : Nat]

Log == [heads : [Chain -> ChainHead], entries : SUBSET Entry, lamport : Nat]

NewThreadLog ==
    [heads   |-> [c \in Chain |-> [seq |-> 0, hash |-> GenesisPrev]],
     entries |-> {},
     lamport |-> 0]

\* ThreadLog.Heads: the version vector that sync exchanges.
Heads(l) == [c \in Chain |-> l.heads[c].seq]

\* ThreadLog.After: the entries of one chain beyond a seq.
After(l, c, since) == {e \in l.entries : ChainOf(e) = c /\ e.seq > since}

-----------------------------------------------------------------------------
(* ThreadLog.Append.  An entry is redelivered, extends its chain, or is     *)
(* refused (wrong first seq, gap, foreign prev, id collision).              *)

Redelivered(l, e) == e \in l.entries

IdTaken(l, e) == \E f \in l.entries : SameId(e, f)

\* Mutant of Extends: any later entry of the chain will do.
ExtendsPastGaps(l, e) == ~ IdTaken(l, e) /\ e.seq > l.heads[ChainOf(e)].seq

\* Mutant of Extends: what arrives late in lamport order is refused.
ExtendsInOrder(l, e) ==
    /\ ~ IdTaken(l, e)
    /\ e.seq = l.heads[ChainOf(e)].seq + 1
    /\ e.lamport > l.lamport

Extends(l, e) ==
    LET head == l.heads[ChainOf(e)]
    IN  /\ ~ IdTaken(l, e)
        /\ e.seq = head.seq + 1
        /\ e.prev = IF head.seq = 0 THEN GenesisPrev ELSE head.hash

Admits(l, e) == Redelivered(l, e) \/ Extends(l, e)

\* Mutant of Admit: the clock follows the last arrival.
AdmitClockBack(l, e) ==
    [heads   |-> [l.heads EXCEPT ![ChainOf(e)] = [seq |-> e.seq, hash |-> Hash(e)]],
     entries |-> l.entries \cup {e},
     lamport |-> e.lamport]

Admit(l, e) ==
    [heads   |-> [l.heads EXCEPT ![ChainOf(e)] = [seq |-> e.seq, hash |-> Hash(e)]],
     entries |-> l.entries \cup {e},
     lamport |-> IF e.lamport > l.lamport THEN e.lamport ELSE l.lamport]

\* The log after Append(e), whether or not it returned an error.
AppendEntry(l, e) == IF Extends(l, e) THEN Admit(l, e) ELSE l

-----------------------------------------------------------------------------
(* Author.Append builds the next entry of the author's chain in lane `lane' *)
(* and admits it; NewThreadWith builds a genesis.                           *)

NextEntry(l, author, id, lane, draft) ==
    LET head == l.heads[<<author, lane>>]
    IN  [id      |-> id,
         author  |-> author,
         lane    |-> lane,
         seq     |-> head.seq + 1,
         lamport |-> l.lamport + 1,
         prev    |-> IF head.seq > 0 THEN head.hash ELSE GenesisPrev,
         draft   |-> draft]

\* Mutant of Genesis: the clock of a new thread starts at 0.
GenesisAtZero(creator, id, draft) ==
    [id |-> id, author |-> creator, lane |-> "control", seq |-> 1,
     lamport |-> 0, prev |-> GenesisPrev, draft |-> draft]

Genesis(creator, id, draft) ==
    [id |-> id, author |-> creator, lane |-> "control", seq |-> 1,
     lamport |-> 1, prev |-> GenesisPrev, draft |-> draft]

-----------------------------------------------------------------------------
(* What Append maintains of one log, whatever entries it is handed.         *)

\* Every chain is held as the gap-free prefix 1..head.seq.
Contiguous(l) ==
    \A c \in Chain :
        /\ \A e \in l.entries : ChainOf(e) = c => e.seq <= l.heads[c].seq
        /\ \A s \in 1..l.heads[c].seq :
              \E e \in l.entries : ChainOf(e) = c /\ e.seq = s

\* One entry per position of a chain, and the head's hash is that of the last.
Positioned(l) ==
    /\ \A e, f \in l.entries : ChainOf(e) = ChainOf(f) /\ e.seq = f.seq => e = f
    /\ \A e \in l.entries :
          e.seq = l.heads[ChainOf(e)].seq => l.heads[ChainOf(e)].hash = Hash(e)

\* Every entry names the hash of its predecessor in the chain; the first names
\* GenesisPrev.
Linked(l) ==
    \A e \in l.entries :
        IF e.seq = 1
        THEN e.prev = GenesisPrev
        ELSE \E p \in l.entries : /\ ChainOf(p) = ChainOf(e)
                                  /\ p.seq + 1 = e.seq
                                  /\ e.prev = Hash(p)

\* The log's clock is at least the lamport of every entry.
Clocked(l) == \A e \in l.entries : e.lamport <= l.lamport

WellFormed(l) ==
    /\ l \in Log
    /\ Contiguous(l)
    /\ Positioned(l)
    /\ Linked(l)
    /\ Clocked(l)
=============================================================================
