------------------------------- MODULE Store --------------------------------
(***************************************************************************)
(* The SQLite store of one node, for one thread: node/internal/store.      *)
(* Several processes (the serve daemon, the MCP server, CLI commands)      *)
(* share the database file and the node's key; each keeps the thread's     *)
(* log in memory and checks it against the highest rowid before use.       *)
(*                                                                         *)
(* A process runs several operations on the thread, concurrently:          *)
(*   a handler - Store.Thread, Author.Append on the log it returned, which *)
(*            is the cached object itself, then Store.AppendEntries (the   *)
(*            portal's decisions, the MCP tools, `post', `grant': each     *)
(*            HTTP request and each tool call is a goroutine of its own);  *)
(*   ingest - Store.AppendEntries of an entry that somebody else authored  *)
(*            (Server.Push, SyncThread).  One at a time is enough: all of  *)
(*            it is under the mutex.                                       *)
(* The store's mutex covers Thread and AppendEntries, not Author.Append.   *)
(* Each SQL statement is a step, and so is each access of Author.Append to *)
(* the log: between two of them other operations go on and other processes *)
(* commit.                                                                 *)
(***************************************************************************)
EXTENDS ThreadLog, Sequences

CONSTANTS Process,      \* the processes that have the database open
          Handler,      \* the handlers that author, or read
          Runs,         \* which process runs which handlers, and whether "ingest"
          Key,          \* the principal whose key the node holds
          AuthorDraft,  \* the payload of authored entries
          Remote,       \* entries of others that may be ingested
          Stored,       \* the rows the database starts with
          MaxAuthored,  \* bound: entries authored by the node
          MayFail       \* whether an INSERT may fail (context, lock, disk)

RowSetOf(s) == {s[i] : i \in DOMAIN s}

\* The position before e in its chain: e is the first, or its prev is in E.
Follows(e, E) ==
    IF e.seq = 1 THEN e.prev = GenesisPrev
    ELSE \E f \in E : ChainOf(f) = ChainOf(e) /\ f.seq + 1 = e.seq /\ e.prev = Hash(f)

\* What threadLog does with the rows, in the order author, lane, seq: the
\* Append of each one succeeds exactly when every chain is 1..n and linked.
Loadable(E) ==
    /\ \A e \in E : Follows(e, E)
    /\ \A e, f \in E : (SameId(e, f) \/ (ChainOf(e) = ChainOf(f) /\ e.seq = f.seq)) => e = f

ASSUME HandlerAssumption == "ingest" \notin Handler
ASSUME KeyAssumption == Key \in Principal /\ AuthorDraft \in Draft
ASSUME RemoteAssumption == Remote \subseteq Entry /\ \A e \in Remote : e.author # Key
ASSUME StoredAssumption ==
    LET theirs == Remote \cup RowSetOf(Stored)
        own    == {i \in DOMAIN Stored : Stored[i].author = Key}
    IN  /\ Stored \in Seq(Entry)
        /\ Loadable(RowSetOf(Stored))
        /\ \A e, f \in theirs : SameId(e, f) => e = f
        /\ \A i \in own : Stored[i].id <= Cardinality(own)
ASSUME MayFailAssumption == MayFail \in BOOLEAN /\ MaxAuthored \in Nat

VARIABLES rows,         \* table entries: rows[rid] is the entry with that rowid
          cache,        \* cache[p]: p's cachedLog, its log and its maxRid
          op,           \* op[p][k]: the operation k that p is running
          mu,           \* mu[p]: the operation that holds p's mutex
          ids,          \* ids of entries authored so far
          acked,        \* history: entries whose caller was told they are stored
          lost,         \* history: entries admitted in memory, but not stored, by
                        \* operations that have ended
          newest        \* history: the process that inserted the last row

vars == <<rows, cache, op, mu, ids, acked, lost, newest>>

Kind == Handler \cup {"ingest"}

Nothing == [pc |-> "idle"]

RowSet == RowSetOf(rows)

MaxRid == Len(rows)     \* SELECT max(rid): rowids only grow, by one here

\* The log that those Appends build.
LogOf(E) ==
    [heads |-> [c \in Chain |->
                  LET chain == {e \in E : ChainOf(e) = c}
                      top   == CHOOSE e \in chain : \A f \in chain : f.seq <= e.seq
                  IN  IF chain = {} THEN [seq |-> 0, hash |-> GenesisPrev]
                      ELSE [seq |-> top.seq, hash |-> Hash(top)]],
     entries |-> E,
     lamport |-> IF E = {} THEN 0
                 ELSE (CHOOSE e \in E : \A f \in E : f.lamport <= e.lamport).lamport]

Init ==
    /\ rows = Stored
    /\ cache = [p \in Process |-> [log |-> NewThreadLog, maxRid |-> 0]]
    /\ op = [p \in Process |-> [k \in Kind |-> Nothing]]
    /\ mu = [p \in Process |-> {}]
    /\ ids = Cardinality({i \in DOMAIN Stored : Stored[i].author = Key})
    /\ acked = {} /\ lost = {} /\ newest = {}

-----------------------------------------------------------------------------
(* Operations take the mutex for Thread and again for AppendEntries.        *)

Goto(p, k, o) == op' = [op EXCEPT ![p][k] = o]

Lock(p, k) == mu[p] = {} /\ mu' = [mu EXCEPT ![p] = {k}]

Unlock(p) == mu' = [mu EXCEPT ![p] = {}]

\* Store.Thread, for a handler.
StartThread(p, k) ==
    /\ k \in Handler /\ <<p, k>> \in Runs
    /\ op[p][k] = Nothing
    /\ Lock(p, k)
    /\ Goto(p, k, [pc |-> "revalidate", for |-> "thread"])
    /\ UNCHANGED <<rows, cache, ids, acked, lost, newest>>

\* AppendEntries of an entry that arrived.
StartIngest(p, e) ==
    /\ <<p, "ingest">> \in Runs
    /\ op[p]["ingest"] = Nothing
    /\ Lock(p, "ingest")
    /\ Goto(p, "ingest", [pc |-> "revalidate", for |-> "append", entry |-> e])
    /\ UNCHANGED <<rows, cache, ids, acked, lost, newest>>

\* AppendEntries of the entry just authored.
StartAppend(p, k) ==
    /\ op[p][k].pc = "authored"
    /\ Lock(p, k)
    /\ Goto(p, k, [pc |-> "revalidate", for |-> "append", entry |-> op[p][k].entry])
    /\ UNCHANGED <<rows, cache, ids, acked, lost, newest>>

-----------------------------------------------------------------------------
(* Entries under way: those that an operation has admitted to a log in      *)
(* memory, and that are stored when its INSERT commits.                     *)

Pending(o, k) ==
    IF \/ k \in Handler /\ o.pc \in {"authored", "admit", "insert"}
       \/ k \in Handler /\ o.pc \in {"revalidate", "load"} /\ o.for = "append"
       \/ o.pc = "insert"
    THEN {o.entry} ELSE {}

InHand(p) == UNION {Pending(op[p][k], k) : k \in Kind}

\* An operation ends without having stored its entry.
GiveUp(p, k) ==
    /\ Goto(p, k, Nothing)
    /\ Unlock(p)
    /\ lost' = lost \cup Pending(op[p][k], k)
    /\ UNCHANGED <<rows, cache, ids, acked, newest>>

-----------------------------------------------------------------------------
(* threadLog: revalidate, and rehydrate when the rowids differ.             *)

\* A handler between Thread and the end of Author.Append has the log object that
\* it was given: the cached one, or one that was cached before, which it shares
\* with the handlers `of' that were given the same.
Cached == [of |-> {}, log |-> NewThreadLog]

HasLog(o) == o.pc \in {"holding", "built"}

HoldersOfCached(p) == {k \in Kind : HasLog(op[p][k]) /\ op[p][k].old = Cached}

\* With the log l at hand, Thread returns it (an empty one is an error), and
\* AppendEntries goes on to admit its entry.
AfterThreadLog(o, l) ==
    IF o.for = "append" THEN [pc |-> "admit", entry |-> o.entry]
    ELSE IF l.entries # {} THEN [pc |-> "holding", old |-> Cached]
    ELSE Nothing

KeepsLock(p, o) == IF o.for = "append" THEN UNCHANGED mu ELSE Unlock(p)

\* SELECT max(rid), and it is that of the cache.
CacheHit(p, k) ==
    LET o == op[p][k]
    IN  /\ o.pc = "revalidate"
        /\ cache[p].maxRid = MaxRid
        /\ Goto(p, k, AfterThreadLog(o, cache[p].log))
        /\ KeepsLock(p, o)
        /\ UNCHANGED <<rows, cache, ids, acked, lost, newest>>

\* SELECT max(rid), and it is another.
CacheMiss(p, k) ==
    LET o == op[p][k]
    IN  /\ o.pc = "revalidate"
        /\ cache[p].maxRid # MaxRid
        /\ Goto(p, k, IF o.for = "append"
                      THEN [pc |-> "load", for |-> "append", entry |-> o.entry, max |-> MaxRid]
                      ELSE [pc |-> "load", for |-> "thread", max |-> MaxRid])
        /\ UNCHANGED <<rows, cache, mu, ids, acked, lost, newest>>

\* Mutant of Rehydrate: only the rows beyond the cached rowid are read, and added to
\* the cached log.
RehydrateNewer(p, k) ==
    LET o == op[p][k]
        l == LogOf(cache[p].log.entries \cup {rows[i] : i \in (cache[p].maxRid + 1)..MaxRid})
    IN  /\ o.pc = "load"
        /\ Loadable(RowSet)
        /\ cache' = [cache EXCEPT ![p] = [log |-> l, maxRid |-> o.max]]
        /\ Goto(p, k, AfterThreadLog(o, l))
        /\ KeepsLock(p, o)
        /\ UNCHANGED <<rows, ids, acked, lost, newest>>

\* SELECT raw: the rows, by now perhaps more than `max', make a new cached log.
Rehydrate(p, k) ==
    LET o == op[p][k]
        l == LogOf(RowSet)
        was == [of |-> HoldersOfCached(p), log |-> cache[p].log]
    IN  /\ o.pc = "load"
        /\ Loadable(RowSet)
        /\ cache' = [cache EXCEPT ![p] = [log |-> l, maxRid |-> o.max]]
        /\ op' = [op EXCEPT ![p] =
                     [j \in Kind |-> IF j = k THEN AfterThreadLog(o, l)
                                    ELSE IF j \in HoldersOfCached(p) THEN [@[j] EXCEPT !.old = was]
                                    ELSE @[j]]]
        /\ KeepsLock(p, o)
        /\ UNCHANGED <<rows, ids, acked, lost, newest>>

\* An Append of a row fails: "stored thread is corrupt".
RehydrateFails(p, k) == op[p][k].pc = "load" /\ ~ Loadable(RowSet) /\ GiveUp(p, k)

-----------------------------------------------------------------------------
(* Author.Append, outside the mutex, on the log that Thread returned.       *)

LogInHand(p, o) == IF o.old = Cached THEN cache[p].log ELSE o.old.log

\* The handler only reads the log, or refuses what it was asked for.
Leave(p, k) ==
    /\ op[p][k].pc = "holding"
    /\ Goto(p, k, Nothing)
    /\ UNCHANGED <<rows, cache, mu, ids, acked, lost, newest>>

\* The entry is built from the chain head and the clock, and signed.
BuildEntry(p, k) ==
    LET o == op[p][k]
        e == NextEntry(LogInHand(p, o), Key, ids + 1, "content", AuthorDraft)
    IN  /\ o.pc = "holding"
        /\ ids < MaxAuthored
        /\ ids' = ids + 1
        /\ Goto(p, k, [pc |-> "built", entry |-> e, old |-> o.old])
        /\ UNCHANGED <<rows, cache, mu, acked, lost, newest>>

\* The log admits it, for all that have the same object, or refuses it: another
\* handler has taken its place in the chain.
AuthorAppend(p, k) ==
    LET o == op[p][k]
        e == o.entry
        l == LogInHand(p, o)
    IN  /\ o.pc = "built"
        /\ op' = [op EXCEPT ![p] =
                     [j \in Kind |->
                        IF j = k THEN IF Admits(l, e) THEN [pc |-> "authored", entry |-> e] ELSE Nothing
                        ELSE IF HasLog(@[j]) /\ @[j].old = o.old /\ o.old # Cached
                             THEN [@[j] EXCEPT !.old = [of |-> o.old.of, log |-> AppendEntry(l, e)]]
                        ELSE @[j]]]
        /\ cache' = IF o.old = Cached THEN [cache EXCEPT ![p].log = AppendEntry(l, e)] ELSE cache
        /\ UNCHANGED <<rows, mu, ids, acked, lost, newest>>

-----------------------------------------------------------------------------
(* AppendEntries, after threadLog.                                          *)

Return(p, k) == Goto(p, k, Nothing) /\ Unlock(p)

\* The in-memory log refuses the entry.
Refuse(p, k) ==
    /\ op[p][k].pc = "admit"
    /\ ~ Admits(cache[p].log, op[p][k].entry)
    /\ GiveUp(p, k)

\* Mutant of AdmitEntry: the log's refusal goes unnoticed.
AdmitAnyEntry(p, k) ==
    LET e == op[p][k].entry
    IN  /\ op[p][k].pc = "admit"
        /\ cache' = [cache EXCEPT ![p].log = AppendEntry(@, e)]
        /\ Goto(p, k, [pc |-> "insert", entry |-> e])
        /\ UNCHANGED <<rows, mu, ids, acked, lost, newest>>

\* Mutant of AdmitEntry: what the cache holds is taken for stored.
AdmitEntryByCache(p, k) ==
    LET e == op[p][k].entry
    IN  /\ op[p][k].pc = "admit"
        /\ Admits(cache[p].log, e)
        /\ cache' = [cache EXCEPT ![p].log = AppendEntry(@, e)]
        /\ IF e \in cache[p].log.entries
           THEN Return(p, k) /\ acked' = acked \cup {e}
           ELSE Goto(p, k, [pc |-> "insert", entry |-> e]) /\ UNCHANGED <<mu, acked>>
        /\ UNCHANGED <<rows, ids, lost, newest>>

\* It admits the entry; SELECT 1 WHERE id: stored before, or to be inserted.
AdmitEntry(p, k) ==
    LET e == op[p][k].entry
        stored == \E r \in RowSet : SameId(r, e)
    IN  /\ op[p][k].pc = "admit"
        /\ Admits(cache[p].log, e)
        /\ cache' = [cache EXCEPT ![p].log = AppendEntry(@, e)]
        /\ IF stored
           THEN Return(p, k) /\ acked' = acked \cup {e}
           ELSE Goto(p, k, [pc |-> "insert", entry |-> e]) /\ UNCHANGED <<mu, acked>>
        /\ UNCHANGED <<rows, ids, lost, newest>>

\* UNIQUE(id) and UNIQUE(thread, author, lane, seq).
Conflicts(e) == \E r \in RowSet : SameId(r, e) \/ (ChainOf(r) = ChainOf(e) /\ r.seq = e.seq)

\* Mutant of Insert: the cache skips a rowid.
InsertSkipping(p, k) ==
    LET e == op[p][k].entry
    IN  /\ op[p][k].pc = "insert"
        /\ ~ Conflicts(e)
        /\ rows' = Append(rows, e)
        /\ cache' = [cache EXCEPT ![p].maxRid = Len(rows) + 2]
        /\ acked' = acked \cup {e}
        /\ newest' = {p}
        /\ Return(p, k)
        /\ UNCHANGED <<ids, lost>>

\* The transaction commits, and the cache counts it as its own.
Insert(p, k) ==
    LET e == op[p][k].entry
    IN  /\ op[p][k].pc = "insert"
        /\ ~ Conflicts(e)
        /\ rows' = Append(rows, e)
        /\ cache' = [cache EXCEPT ![p].maxRid = Len(rows) + 1]
        /\ acked' = acked \cup {e}
        /\ newest' = {p}
        /\ Return(p, k)
        /\ UNCHANGED <<ids, lost>>

\* It rolls back: a UNIQUE conflict, or a failure of its own.
InsertFails(p, k) ==
    /\ op[p][k].pc = "insert"
    /\ Conflicts(op[p][k].entry) \/ MayFail
    /\ GiveUp(p, k)

\* The process dies, or a CLI command ends, and another one takes its place.
Restart(p) ==
    /\ cache' = [cache EXCEPT ![p] = [log |-> NewThreadLog, maxRid |-> 0]]
    /\ op' = [op EXCEPT ![p] = [k \in Kind |-> Nothing]]
    /\ Unlock(p)
    /\ lost' = lost \cup InHand(p)
    /\ newest' = newest \ {p}
    /\ UNCHANGED <<rows, ids, acked>>

Next ==
    \E p \in Process :
        \/ \E k \in Kind :
              \/ StartThread(p, k) \/ Leave(p, k)
              \/ BuildEntry(p, k) \/ AuthorAppend(p, k) \/ StartAppend(p, k)
              \/ CacheHit(p, k) \/ CacheMiss(p, k)
              \/ Rehydrate(p, k) \/ RehydrateFails(p, k)
              \/ Refuse(p, k) \/ AdmitEntry(p, k)
              \/ Insert(p, k) \/ InsertFails(p, k)
        \/ \E e \in Remote : StartIngest(p, e)
        \/ Restart(p)

Spec == Init /\ [][Next]_vars

-----------------------------------------------------------------------------
(* Properties.                                                              *)

\* Type invariant of the store.
TypeOK ==
    /\ rows \in Seq(Entry)
    /\ \A p \in Process : cache[p].log \in Log /\ cache[p].maxRid \in 0..MaxRid
    /\ \A p \in Process, k \in Kind :
          op[p][k].pc \in {"idle", "revalidate", "load", "holding", "built", "authored",
                          "admit", "insert"}
    /\ \A p \in Process : mu[p] \subseteq Kind
    /\ ids \in Nat /\ acked \subseteq Entry /\ lost \subseteq Entry
    /\ newest \subseteq Process

\* An entry whose caller was told so is in the table: admission to the log in
\* memory is never mistaken for persistence.
AckedIsStored == acked \subseteq RowSet

\* A cache that revalidation accepts holds every committed row, unless the last
\* row is this process's own.  The exception is real: AppendEntries lifts maxRid
\* to the rowid of its INSERT, over rows that another process has committed since
\* the SELECT max(rid), and the cache lacks those until somebody else inserts.
StaleOnlyBehindOwnRow ==
    \A p \in Process : cache[p].maxRid = MaxRid /\ newest # {p}
                         => RowSet \subseteq cache[p].log.entries

\* A cache runs ahead of the table only by entries that an operation of its
\* process has in hand, or that were lost: it invents nothing, and keeps nothing
\* of what another process failed to store.
CacheServesOnlyStored ==
    \A p \in Process : cache[p].log.entries \subseteq RowSet \cup InHand(p) \cup lost

\* The table has a gap, or a broken link, only where the missing entry is still
\* on its way or was lost: no order in which handlers, processes and failures
\* interleave makes one of entries that were all stored.
GapsInHandOrLost ==
    \A e \in RowSet : Follows(e, RowSet \cup lost \cup UNION {InHand(p) : p \in Process})

\* With nothing on its way, what the table holds can be rehydrated.  It does not
\* hold: a lost entry leaves a thread that no process can load any more.
StaysLoadable == (\A p \in Process : InHand(p) = {}) => Loadable(RowSet)
=============================================================================
