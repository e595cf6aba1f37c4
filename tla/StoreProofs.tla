---------------------------- MODULE StoreProofs -----------------------------
(***************************************************************************)
(* What the store keeps to, for any number of processes and of handlers in *)
(* each of them, any entries that arrive, and failures and restarts at any *)
(* step: a rehydrated log is well formed, and so are all that a process    *)
(* has in memory; one operation of a process at a time is under the mutex; *)
(* acknowledged entries are stored; a cache is stale only behind a row of  *)
(* its own process, and holds nothing but what was stored, is in hand or   *)
(* was lost; and nothing but a lost entry leaves a gap in the table.       *)
(***************************************************************************)
EXTENDS Store, ThreadLogProofs, TLAPS

\* An operation that carries the entry it is to store.
Carries(o) ==
    \/ o.pc \in {"built", "authored", "admit", "insert"}
    \/ o.pc \in {"revalidate", "load"} /\ o.for = "append"

OpsOK ==
    /\ DOMAIN op = Process
    /\ \A p \in Process : DOMAIN op[p] = Kind

\* threadLog decides where an operation goes on, never with which entry.
LEMMA AfterThreadLogCarries ==
    ASSUME NEW o, NEW l, o.pc \in {"revalidate", "load"}, Carries(AfterThreadLog(o, l))
    PROVE  Carries(o) /\ AfterThreadLog(o, l).entry = o.entry
BY DEF Carries, AfterThreadLog, Nothing

-----------------------------------------------------------------------------
(* Bounds.                                                                  *)

\* The rows of a table have a highest position and a highest lamport.
LEMMA RowsBounded ==
    ASSUME rows \in Seq(Entry)
    PROVE  \E b \in Nat : \A e \in RowSet : e.seq <= b /\ e.lamport <= b
<1>1. /\ Len(rows) \in Nat /\ DOMAIN rows = 1..Len(rows)
      /\ \A i \in 1..Len(rows) : rows[i].seq \in Nat /\ rows[i].lamport \in Nat
  <2>1. Len(rows) \in Nat /\ DOMAIN rows = 1..Len(rows)
    OBVIOUS
  <2>2. \A i \in 1..Len(rows) : rows[i] \in Entry
    BY <2>1
  <2> QED
    BY <2>1, <2>2 DEF Entry
<1>2. PICK b \in Nat : \A i \in 1..Len(rows) : [j \in 1..Len(rows) |-> rows[j].seq][i] <= b
  BY <1>1, Bounded
<1>3. PICK c \in Nat : \A i \in 1..Len(rows) : [j \in 1..Len(rows) |-> rows[j].lamport][i] <= c
  BY <1>1, Bounded
<1>4. PICK d \in Nat : b <= d /\ c <= d
  OBVIOUS
<1>5. \A i \in 1..Len(rows) : rows[i].seq <= d /\ rows[i].lamport <= d
  BY <1>1, <1>2, <1>3, <1>4
<1> QED
  BY <1>1, <1>5 DEF RowSet, RowSetOf

-----------------------------------------------------------------------------
(* threadLog's rehydration.                                                 *)

\* A log built from rows that load is well formed: what `Loadable' says of the
\* rows is enough for the Appends of all of them to have succeeded in turn.
THEOREM RehydratedWellFormed ==
    ASSUME NEW E \in SUBSET Entry, Loadable(E),
           NEW b \in Nat, \A e \in E : e.seq <= b /\ e.lamport <= b
    PROVE  WellFormed(LogOf(E)) /\ LogOf(E).entries = E
<1> DEFINE chain(c) == {e \in E : ChainOf(e) = c}
           top(c) == CHOOSE e \in chain(c) : \A f \in chain(c) : f.seq <= e.seq
           last == CHOOSE e \in E : \A f \in E : f.lamport <= e.lamport
<1>0. \A e \in E : /\ e.seq \in Nat \ {0} /\ e.lamport \in Nat \ {0} /\ e.prev \in Nat
                   /\ Hash(e) \in Nat /\ ChainOf(e) \in Chain
  BY ChainOfEntry DEF Entry, Hash
<1>1. ASSUME NEW c, chain(c) # {}
      PROVE  top(c) \in chain(c) /\ \A f \in chain(c) : f.seq <= top(c).seq
  <2>1. {e.seq : e \in chain(c)} \in SUBSET Nat /\ {e.seq : e \in chain(c)} # {}
    BY <1>0, <1>1
  <2>2. PICK s \in {e.seq : e \in chain(c)} : \A y \in {e.seq : e \in chain(c)} : y <= s
    <3>1. \A y \in {e.seq : e \in chain(c)} : y <= b
      OBVIOUS
    <3> HIDE DEF chain
    <3> QED
      BY <2>1, <3>1, Greatest
  <2>3. \E e \in chain(c) : \A f \in chain(c) : f.seq <= e.seq
    BY <2>2
  <2> HIDE DEF chain
  <2> QED
    BY <2>3
<1>2. ASSUME E # {}
      PROVE  last \in E /\ \A f \in E : f.lamport <= last.lamport
  <2>1. {e.lamport : e \in E} \in SUBSET Nat /\ {e.lamport : e \in E} # {}
    BY <1>0, <1>2
  <2>2. \A y \in {e.lamport : e \in E} : y <= b
    OBVIOUS
  <2>3. PICK s \in {e.lamport : e \in E} : \A y \in {e.lamport : e \in E} : y <= s
    BY <2>1, <2>2, Greatest
  <2> QED
    BY <2>3
<1> HIDE DEF top, last
<1>3. PICK l : l = LogOf(E)
  OBVIOUS
<1>4. /\ l.entries = E
      /\ l.heads = [c \in Chain |-> IF chain(c) = {} THEN [seq |-> 0, hash |-> GenesisPrev]
                                    ELSE [seq |-> top(c).seq, hash |-> Hash(top(c))]]
      /\ l.lamport = IF E = {} THEN 0 ELSE last.lamport
      /\ DOMAIN l = {"heads", "entries", "lamport"} /\ l = [heads |-> l.heads, entries |-> l.entries, lamport |-> l.lamport]
  BY <1>3 DEF LogOf, top, last
<1>5. ASSUME NEW c \in Chain
      PROVE  IF chain(c) = {} THEN l.heads[c] = [seq |-> 0, hash |-> GenesisPrev]
             ELSE l.heads[c] = [seq |-> top(c).seq, hash |-> Hash(top(c))]
  BY <1>4
<1>6. l \in Log
  <2>1. \A c \in Chain : l.heads[c] \in ChainHead
    <3> TAKE c \in Chain
    <3>1. CASE chain(c) = {}
      <4>1. l.heads[c] = [seq |-> 0, hash |-> GenesisPrev]
        BY <3>1, <1>5
      <4> QED
        BY <4>1 DEF ChainHead, GenesisPrev
    <3>2. CASE chain(c) # {}
      <4>1. top(c) \in E
        BY <3>2, <1>1
      <4>2. l.heads[c] = [seq |-> top(c).seq, hash |-> Hash(top(c))]
        BY <3>2, <1>5
      <4> QED
        BY <4>1, <4>2, <1>0 DEF ChainHead
    <3> QED
      BY <3>1, <3>2
  <2>2. l.heads \in [Chain -> ChainHead]
    BY <1>4, <2>1
  <2>3. l.lamport \in Nat
    BY <1>0, <1>2, <1>4
  <2> QED
    BY <1>4, <2>2, <2>3 DEF Log
<1>7. Contiguous(l)
  <2> SUFFICES ASSUME NEW c \in Chain
               PROVE  /\ \A e \in l.entries : ChainOf(e) = c => e.seq <= l.heads[c].seq
                      /\ \A s \in 1..l.heads[c].seq :
                            \E e \in l.entries : ChainOf(e) = c /\ e.seq = s
    BY DEF Contiguous
  <2>1. CASE chain(c) = {}
    BY <2>1, <1>4, <1>5
  <2>2. CASE chain(c) # {}
    <3>0. l.heads[c] = [seq |-> top(c).seq, hash |-> Hash(top(c))]
      BY <2>2, <1>5
    <3>1. l.heads[c].seq = top(c).seq /\ top(c) \in chain(c)
      BY <2>2, <3>0, <1>1
    <3>2. \A e \in E : ChainOf(e) = c => e.seq <= l.heads[c].seq
      BY <2>2, <3>1, <1>1
    <3>3. ASSUME NEW s \in 1..l.heads[c].seq, ~ \E e \in E : ChainOf(e) = c /\ e.seq = s
          PROVE  FALSE
      <4> DEFINE Above == {n \in Nat : n > s /\ \E e \in E : ChainOf(e) = c /\ e.seq = n}
      <4>1. top(c).seq \in Above
        BY <3>1, <3>3, <1>0
      <4>2. PICK n \in Above : \A m \in Above : n <= m
        <5>1. Above \in SUBSET Nat /\ Above # {}
          BY <4>1
        <5> HIDE DEF Above
        <5> QED
          BY <5>1, Least
      <4>3. PICK e \in E : ChainOf(e) = c /\ e.seq = n
        BY <4>2
      <4>4. e.seq # 1
        BY <4>2, <4>3
      <4>5. PICK f \in E : ChainOf(f) = ChainOf(e) /\ f.seq + 1 = e.seq
        BY <4>4 DEF Loadable, Follows
      <4>6. f.seq \in Nat /\ f.seq >= s /\ f.seq # s /\ ChainOf(f) = c
        BY <4>2, <4>3, <4>5, <3>3, <1>0
      <4>7. f.seq \in Above
        BY <4>6
      <4> QED
        BY <4>2, <4>3, <4>5, <4>6, <4>7
    <3> QED
      BY <3>2, <3>3, <1>4
  <2> QED
    BY <2>1, <2>2
<1>8. Positioned(l)
  <2>1. \A e, f \in E : ChainOf(e) = ChainOf(f) /\ e.seq = f.seq => e = f
    BY DEF Loadable
  <2>2. ASSUME NEW e \in E, e.seq = l.heads[ChainOf(e)].seq
        PROVE  l.heads[ChainOf(e)].hash = Hash(e)
    <3>1. PICK c \in Chain : c = ChainOf(e)
      BY <1>0
    <3>2. chain(c) # {}
      BY <3>1
    <3>0. l.heads[c] = [seq |-> top(c).seq, hash |-> Hash(top(c))]
      BY <3>2, <1>5
    <3>3. top(c) \in chain(c) /\ l.heads[c].seq = top(c).seq /\ l.heads[c].hash = Hash(top(c))
      BY <3>0, <3>2, <1>1
    <3>4. top(c) = e
      BY <2>1, <2>2, <3>1, <3>3
    <3> QED
      BY <3>1, <3>3, <3>4
  <2> QED
    BY <1>4, <2>1, <2>2 DEF Positioned
<1>9. Linked(l)
  BY <1>4 DEF Linked, Loadable, Follows
<1>10. Clocked(l)
  BY <1>2, <1>4 DEF Clocked
<1> QED
  BY <1>3, <1>4, <1>6, <1>7, <1>8, <1>9, <1>10 DEF WellFormed

-----------------------------------------------------------------------------
(* Types.                                                                   *)

\* The log object that a handler has in hand when it is not the cached one.
OldType(old) == old = [of |-> old.of, log |-> old.log] /\ WellFormed(old.log)

HolderType(o) ==
    /\ OldType(o.old)
    /\ \/ o = [pc |-> "holding", old |-> o.old]
       \/ o = [pc |-> "built", entry |-> o.entry, old |-> o.old] /\ o.entry \in Entry

\* An operation in hand, when the table has n rows.
OpType(o, n) ==
    \/ o = Nothing
    \/ o \in [pc : {"revalidate"}, for : {"thread"}]
    \/ o \in [pc : {"revalidate"}, for : {"append"}, entry : Entry]
    \/ o \in [pc : {"load"}, for : {"thread"}, max : 0..n]
    \/ o \in [pc : {"load"}, for : {"append"}, entry : Entry, max : 0..n]
    \/ HolderType(o)
    \/ o \in [pc : {"authored", "admit", "insert"}, entry : Entry]

OpsTyped == OpsOK /\ \A p \in Process, k \in Kind : OpType(op[p][k], MaxRid)

CachesTyped ==
    /\ cache \in [Process -> [log : Log, maxRid : Nat]]
    /\ \A p \in Process : WellFormed(cache[p].log) /\ cache[p].maxRid <= MaxRid

TableTyped == rows \in Seq(Entry) /\ ids \in Nat /\ acked \subseteq Entry /\ lost \subseteq Entry
              /\ newest \subseteq Process

\* The inductive invariant of TypeOK: each log that a process has in memory is
\* well formed, so that what Author.Append makes of it is an entry.
StoreTypes == TableTyped /\ CachesTyped /\ OpsTyped /\ mu \in [Process -> SUBSET Kind]

\* Author.Append makes an entry of any log.
LEMMA NextEntryType ==
    ASSUME NEW l \in Log, NEW n \in Nat \ {0}
    PROVE  NextEntry(l, Key, n, "content", AuthorDraft) \in Entry
<1>1. <<Key, "content">> \in Chain
  BY KeyAssumption DEF Chain, Lane
<1>2. PICK h \in ChainHead : h = l.heads[<<Key, "content">>]
  BY <1>1 DEF Log
<1>3. h.seq \in Nat /\ h.hash \in Nat /\ l.lamport \in Nat
  BY DEF ChainHead, Log
<1>4. h.seq + 1 \in Nat \ {0} /\ l.lamport + 1 \in Nat \ {0}
  BY <1>3
<1>5. (IF h.seq > 0 THEN h.hash ELSE GenesisPrev) \in Nat
  BY <1>3 DEF GenesisPrev
<1>6. "content" \in Lane
  BY DEF Lane
<1> QED
  BY <1>2, <1>4, <1>5, <1>6, KeyAssumption DEF NextEntry, Entry

\* What an operation that carries an entry carries is one.
LEMMA CarriesEntry ==
    ASSUME NEW o, NEW n, OpType(o, n), Carries(o)
    PROVE  o.entry \in Entry
BY DEF OpType, HolderType, Carries, Nothing

\* What an operation has in hand, by where it is.
LEMMA OpAt ==
    ASSUME NEW o, NEW n, OpType(o, n)
    PROVE  /\ o.pc \in {"idle", "revalidate", "load", "holding", "built", "authored", "admit",
                         "insert"}
           /\ o.pc = "load" => o.max \in 0..n
           /\ HasLog(o) <=> HolderType(o)
           /\ o.pc = "idle" => o = Nothing
BY DEF OpType, HolderType, Nothing, HasLog

\* A handler's log object changes, and nothing else of it.
LEMMA HolderKeeps ==
    ASSUME NEW o, HolderType(o), NEW w, OldType(w)
    PROVE  /\ HolderType([o EXCEPT !.old = w])
           /\ [o EXCEPT !.old = w].pc = o.pc
           /\ o.pc = "built" => [o EXCEPT !.old = w].entry = o.entry
           /\ o.pc \in {"holding", "built"}
<1>1. CASE o = [pc |-> "holding", old |-> o.old]
  <2>1. [o EXCEPT !.old = w] = [pc |-> "holding", old |-> w] /\ o.pc = "holding"
    BY <1>1
  <2> QED
    BY <2>1 DEF HolderType
<1>2. CASE o = [pc |-> "built", entry |-> o.entry, old |-> o.old] /\ o.entry \in Entry
  <2>1. [o EXCEPT !.old = w] = [pc |-> "built", entry |-> o.entry, old |-> w] /\ o.pc = "built"
    BY <1>2
  <2> QED
    BY <1>2, <2>1 DEF HolderType
<1> QED
  BY <1>1, <1>2 DEF HolderType

\* More rows do no harm.
LEMMA OpTypeLater ==
    ASSUME NEW o, NEW n \in Nat, OpType(o, n)
    PROVE  OpType(o, n + 1)
<1>1. 0..n \subseteq 0..(n + 1)
  OBVIOUS
<1>2. [pc : {"load"}, for : {"thread"}, max : 0..n]
        \subseteq [pc : {"load"}, for : {"thread"}, max : 0..(n + 1)]
  BY <1>1
<1>3. [pc : {"load"}, for : {"append"}, entry : Entry, max : 0..n]
        \subseteq [pc : {"load"}, for : {"append"}, entry : Entry, max : 0..(n + 1)]
  BY <1>1
<1> QED
  BY <1>2, <1>3 DEF OpType

\* After threadLog.
LEMMA AfterThreadLogType ==
    ASSUME NEW o, NEW n, OpType(o, n), o.pc \in {"revalidate", "load"}, NEW l
    PROVE  OpType(AfterThreadLog(o, l), n)
<1>1. CASE o.for = "append"
  <2>1. o.entry \in Entry
    BY <1>1, CarriesEntry DEF Carries
  <2> QED
    BY <1>1, <2>1 DEF AfterThreadLog, OpType
<1>2. CASE o.for # "append"
  BY <1>2, NewThreadLogWellFormed DEF AfterThreadLog, OpType, HolderType, OldType, Cached
<1> QED
  BY <1>1, <1>2

\* One operation goes on with what it may have in hand.
LEMMA TypedGoesOn ==
    ASSUME OpsTyped, NEW p \in Process, NEW k \in Kind, NEW o, Goto(p, k, o),
           OpType(o, MaxRid), UNCHANGED rows
    PROVE  OpsTyped'
<1>1. OpsOK' /\ \A q \in Process, j \in Kind :
                    op'[q][j] = IF q = p /\ j = k THEN o ELSE op[q][j]
  BY DEF OpsTyped, OpsOK, Goto
<1>2. MaxRid' = MaxRid
  BY DEF MaxRid
<1> QED
  BY <1>1, <1>2 DEF OpsTyped

\* The process's log becomes another that is well formed.
LEMMA TypedCache ==
    ASSUME CachesTyped, rows \in Seq(Entry), NEW p \in Process, NEW l, NEW m,
           cache' = [cache EXCEPT ![p] = [log |-> l, maxRid |-> m]],
           WellFormed(l), m \in 0..MaxRid, UNCHANGED rows
    PROVE  CachesTyped'
<1>1. [log |-> l, maxRid |-> m] \in [log : Log, maxRid : Nat] /\ m <= MaxRid
  BY DEF WellFormed, MaxRid
<1>2. cache' \in [Process -> [log : Log, maxRid : Nat]]
  BY <1>1 DEF CachesTyped
<1>3. /\ cache'[p] = [log |-> l, maxRid |-> m]
      /\ \A q \in Process : q # p => cache'[q] = cache[q]
  BY DEF CachesTyped
<1>4. MaxRid' = MaxRid
  BY DEF MaxRid
<1> QED
  BY <1>1, <1>2, <1>3, <1>4 DEF CachesTyped

\* Or only its log does.
LEMMA TypedLog ==
    ASSUME CachesTyped, rows \in Seq(Entry), NEW p \in Process, NEW l,
           cache' = [cache EXCEPT ![p].log = l], WellFormed(l), UNCHANGED rows
    PROVE  CachesTyped'
<1>1. cache[p] \in [log : Log, maxRid : Nat] /\ cache[p].maxRid \in 0..MaxRid
  BY DEF CachesTyped, MaxRid
<1>2. [cache[p] EXCEPT !.log = l] = [log |-> l, maxRid |-> cache[p].maxRid]
  BY <1>1
<1>3. cache' = [cache EXCEPT ![p] = [cache[p] EXCEPT !.log = l]]
  OBVIOUS
<1>4. cache' = [cache EXCEPT ![p] = [log |-> l, maxRid |-> cache[p].maxRid]]
  BY <1>2, <1>3
<1> QED
  BY <1>1, <1>4, TypedCache

\* The ids of the node's own entries are counted.
LEMMA IdsCounted ==
    LET own == {i \in DOMAIN Stored : Stored[i].author = Key}
    IN  IsFiniteSet(own) /\ Cardinality(own) \in Nat
<1>1. DOMAIN Stored = 1..Len(Stored) /\ Len(Stored) \in Nat
  BY StoredAssumption
<1>2. IsFiniteSet(1..Len(Stored))
  BY <1>1, FS_Interval
<1> QED
  BY <1>1, <1>2, FS_Subset, FS_CardinalityType

\* Everything is typed at the start.
LEMMA TypesInit == Init => StoreTypes
<1> SUFFICES ASSUME Init PROVE StoreTypes
  OBVIOUS
<1>1. TableTyped
  BY IdsCounted, StoredAssumption DEF Init, TableTyped
<1>2. NewThreadLog \in Log /\ WellFormed(NewThreadLog)
  BY NewThreadLogWellFormed DEF WellFormed
<1>3. CachesTyped
  BY <1>1, <1>2 DEF Init, CachesTyped, TableTyped, MaxRid
<1>4. OpsTyped
  BY DEF Init, OpsTyped, OpsOK, OpType
<1> QED
  BY <1>1, <1>3, <1>4 DEF Init, StoreTypes

\* Steps that leave the table and the caches alone.
LEMMA TypesOpStep ==
    ASSUME StoreTypes, NEW p \in Process, NEW k \in Kind, NEW o, Goto(p, k, o),
           OpType(o, MaxRid), mu' \in [Process -> SUBSET Kind], UNCHANGED <<rows, cache, ids, newest>>,
           acked' \subseteq Entry, lost' \subseteq Entry
    PROVE  StoreTypes'
<1>1. OpsTyped'
  BY TypedGoesOn DEF StoreTypes
<1> QED
  BY <1>1 DEF StoreTypes, TableTyped, CachesTyped, MaxRid

\* The steps that lead to the log.
LEMMA TypesStart ==
    ASSUME StoreTypes, NEW p \in Process,
           \/ \E k \in Kind : StartThread(p, k) \/ StartAppend(p, k)
           \/ \E e \in Remote : StartIngest(p, e)
    PROVE  StoreTypes'
<1>0. PICK k \in Kind :
        StartThread(p, k) \/ StartAppend(p, k)
          \/ (k = "ingest" /\ (\E e \in Remote : StartIngest(p, e)))
  BY DEF Kind
<1>1. mu' \in [Process -> SUBSET Kind] /\ UNCHANGED <<rows, cache, ids, acked, lost, newest>>
  <2>1. mu \in [Process -> SUBSET Kind]
    BY DEF StoreTypes
  <2>2. CASE StartThread(p, k) \/ StartAppend(p, k)
    BY <2>1, <2>2 DEF StartThread, StartAppend, Lock
  <2>3. CASE k = "ingest" /\ (\E e \in Remote : StartIngest(p, e))
    BY <2>1, <2>3 DEF StartIngest, Lock
  <2> QED
    BY <1>0, <2>2, <2>3
<1>2. acked' \subseteq Entry /\ lost' \subseteq Entry
  BY <1>1 DEF StoreTypes, TableTyped
<1>3. CASE StartThread(p, k)
  <2>1. OpType([pc |-> "revalidate", for |-> "thread"], MaxRid)
    BY DEF OpType
  <2> QED
    BY <1>1, <1>2, <1>3, <2>1, TypesOpStep DEF StartThread
<1>4. CASE StartAppend(p, k)
  <2>1. PICK e : e = op[p][k].entry
    OBVIOUS
  <2>2. e \in Entry
    <3>1. OpType(op[p][k], MaxRid) /\ Carries(op[p][k])
      BY <1>4 DEF StartAppend, StoreTypes, OpsTyped, Carries
    <3> QED
      BY <2>1, <3>1, CarriesEntry
  <2>3. OpType([pc |-> "revalidate", for |-> "append", entry |-> e], MaxRid)
    BY <2>2 DEF OpType
  <2> QED
    BY <1>1, <1>2, <1>4, <2>1, <2>3, TypesOpStep DEF StartAppend
<1>5. ASSUME k = "ingest", NEW e \in Remote, StartIngest(p, e) PROVE StoreTypes'
  <2>1. OpType([pc |-> "revalidate", for |-> "append", entry |-> e], MaxRid)
    BY RemoteAssumption DEF OpType
  <2> QED
    BY <1>1, <1>2, <1>5, <2>1, TypesOpStep DEF StartIngest
<1> QED
  BY <1>0, <1>3, <1>4, <1>5

\* Revalidation.
LEMMA TypesCacheStep ==
    ASSUME StoreTypes, NEW p \in Process, NEW k \in Kind, CacheHit(p, k) \/ CacheMiss(p, k)
    PROVE  StoreTypes'
<1> DEFINE o == op[p][k]
<1>1. /\ o.pc = "revalidate" /\ OpType(o, MaxRid)
      /\ mu' \in [Process -> SUBSET Kind] /\ UNCHANGED <<rows, cache, ids, acked, lost, newest>>
      /\ acked' \subseteq Entry /\ lost' \subseteq Entry
  BY DEF CacheHit, CacheMiss, KeepsLock, Unlock, StoreTypes, TableTyped, OpsTyped
<1>2. CASE CacheHit(p, k)
  <2>1. OpType(AfterThreadLog(o, cache[p].log), MaxRid)
    BY <1>1, AfterThreadLogType
  <2> QED
    BY <1>1, <1>2, <2>1, TypesOpStep DEF CacheHit
<1>3. CASE CacheMiss(p, k)
  <2>1. MaxRid \in 0..MaxRid
    BY DEF MaxRid, StoreTypes, TableTyped
  <2>2. CASE o.for = "append"
    <3>1. PICK e : e = o.entry
      OBVIOUS
    <3>2. e \in Entry
      BY <1>1, <2>2, <3>1, CarriesEntry DEF Carries
    <3>3. OpType([pc |-> "load", for |-> "append", entry |-> e, max |-> MaxRid], MaxRid)
      BY <2>1, <3>2 DEF OpType
    <3> QED
      BY <1>1, <1>3, <2>2, <3>1, <3>3, TypesOpStep DEF CacheMiss
  <2>3. CASE o.for # "append"
    <3>1. OpType([pc |-> "load", for |-> "thread", max |-> MaxRid], MaxRid)
      BY <2>1 DEF OpType
    <3> QED
      BY <1>1, <1>3, <2>3, <3>1, TypesOpStep DEF CacheMiss
  <2> QED
    BY <2>2, <2>3
<1> QED
  BY <1>2, <1>3

\* What threadLog makes of the rows, when they load.
LEMMA RowsRehydrated ==
    ASSUME rows \in Seq(Entry), Loadable(RowSet)
    PROVE  WellFormed(LogOf(RowSet)) /\ LogOf(RowSet).entries = RowSet
<1>1. RowSet \in SUBSET Entry
  BY DEF RowSet, RowSetOf
<1>2. PICK b \in Nat : \A e \in RowSet : e.seq <= b /\ e.lamport <= b
  BY RowsBounded
<1>3. PICK E : E = RowSet
  OBVIOUS
<1>4. WellFormed(LogOf(E)) /\ LogOf(E).entries = E
  BY <1>1, <1>2, <1>3, RehydratedWellFormed
<1> QED
  BY <1>3, <1>4

\* What a rehydration makes of the operations of its process.
LEMMA RehydrateOps ==
    ASSUME OpsOK, NEW p \in Process, NEW k \in Kind, Rehydrate(p, k)
    PROVE  /\ OpsOK'
           /\ \A q \in Process, j \in Kind :
                 op'[q][j] =
                    IF q # p THEN op[q][j]
                    ELSE IF j = k THEN AfterThreadLog(op[p][k], LogOf(RowSet))
                    ELSE IF j \in HoldersOfCached(p)
                    THEN [op[p][j] EXCEPT !.old = [of |-> HoldersOfCached(p), log |-> cache[p].log]]
                    ELSE op[p][j]
<1>1. PICK goes : goes = AfterThreadLog(op[p][k], LogOf(RowSet))
  OBVIOUS
<1>2. PICK was : was = [of |-> HoldersOfCached(p), log |-> cache[p].log]
  OBVIOUS
<1>3. PICK H : H = HoldersOfCached(p)
  OBVIOUS
<1>4. op' = [op EXCEPT ![p] =
                [j \in Kind |-> IF j = k THEN goes
                               ELSE IF j \in H THEN [@[j] EXCEPT !.old = was] ELSE @[j]]]
  BY <1>1, <1>2, <1>3 DEF Rehydrate
<1> QED
  BY <1>1, <1>2, <1>3, <1>4 DEF OpsOK

\* Rehydration, which may detach the log of the handlers.
LEMMA TypesRehydrate ==
    ASSUME StoreTypes, NEW p \in Process, NEW k \in Kind, Rehydrate(p, k)
    PROVE  StoreTypes'
<1> DEFINE o == op[p][k]
           w == [of |-> HoldersOfCached(p), log |-> cache[p].log]
<1>1. PICK l : l = LogOf(RowSet)
  OBVIOUS
<1>2. /\ o.pc = "load" /\ Loadable(RowSet) /\ UNCHANGED <<rows, ids, acked, lost, newest>>
      /\ cache' = [cache EXCEPT ![p] = [log |-> l, maxRid |-> o.max]]
  BY <1>1 DEF Rehydrate
<1>3. WellFormed(l)
  BY <1>1, <1>2, RowsRehydrated DEF StoreTypes, TableTyped
<1>4. OpType(o, MaxRid) /\ o.max \in 0..MaxRid
  BY <1>2, OpAt DEF StoreTypes, OpsTyped
<1>5. CachesTyped'
  BY <1>2, <1>3, <1>4, TypedCache DEF StoreTypes, TableTyped
<1>6. OpType(AfterThreadLog(o, LogOf(RowSet)), MaxRid)
  BY <1>2, <1>4, AfterThreadLogType
<1>7. PICK was : was = w
  OBVIOUS
<1>8. OldType(was)
  BY <1>7 DEF StoreTypes, CachesTyped, OldType
<1>9. ASSUME NEW j \in HoldersOfCached(p), j \in Kind
      PROVE  OpType([op[p][j] EXCEPT !.old = was], MaxRid)
  <2>1. OpType(op[p][j], MaxRid) /\ HasLog(op[p][j])
    BY <1>9 DEF StoreTypes, OpsTyped, HoldersOfCached
  <2>2. HolderType(op[p][j])
    BY <2>1, OpAt
  <2>3. HolderType([op[p][j] EXCEPT !.old = was])
    BY <1>8, <2>2, HolderKeeps
  <2> QED
    BY <2>3 DEF OpType
<1>10. OpsTyped'
  <2>1. OpsOK' /\ MaxRid' = MaxRid
    BY <1>2, RehydrateOps DEF StoreTypes, OpsTyped, MaxRid
  <2>2. ASSUME NEW q \in Process, NEW j \in Kind PROVE OpType(op'[q][j], MaxRid)
    <3>1. OpType(op[q][j], MaxRid)
      BY DEF StoreTypes, OpsTyped
    <3>2. op'[q][j] = IF q # p THEN op[q][j]
                    ELSE IF j = k THEN AfterThreadLog(op[p][k], LogOf(RowSet))
                    ELSE IF j \in HoldersOfCached(p) THEN [op[p][j] EXCEPT !.old = was]
                    ELSE op[p][j]
      BY <1>7, RehydrateOps DEF StoreTypes, OpsTyped
    <3> QED
      BY <1>6, <1>9, <3>1, <3>2
  <2> QED
    BY <2>1, <2>2 DEF OpsTyped
<1>11. mu' \in [Process -> SUBSET Kind]
  BY DEF Rehydrate, KeepsLock, Unlock, StoreTypes
<1> QED
  BY <1>2, <1>5, <1>10, <1>11 DEF StoreTypes, TableTyped

\* What is in hand is an entry.
LEMMA PendingEntries ==
    ASSUME OpsTyped, NEW p \in Process
    PROVE  /\ \A k \in Kind : Pending(op[p][k], k) \subseteq Entry
           /\ InHand(p) \subseteq Entry
<1>1. ASSUME NEW k \in Kind PROVE Pending(op[p][k], k) \subseteq Entry
  <2>1. CASE Carries(op[p][k])
    <3>1. op[p][k].entry \in Entry
      BY <2>1, CarriesEntry DEF OpsTyped
    <3> QED
      BY <3>1 DEF Pending
  <2>2. CASE ~ Carries(op[p][k])
    BY <2>2 DEF Pending, Carries
  <2> QED
    BY <2>1, <2>2
<1> QED
  BY <1>1 DEF InHand

\* An operation ends, or its handler does, without an acknowledgement.
LEMMA TypesGivesUp ==
    ASSUME StoreTypes, NEW p \in Process, NEW k \in Kind,
           Leave(p, k) \/ RehydrateFails(p, k) \/ Refuse(p, k) \/ InsertFails(p, k)
    PROVE  StoreTypes'
<1>1. Pending(op[p][k], k) \subseteq Entry
  BY PendingEntries DEF StoreTypes
<1>2. /\ Goto(p, k, Nothing) /\ UNCHANGED <<rows, cache, ids, newest>>
      /\ mu' \in [Process -> SUBSET Kind] /\ acked' \subseteq Entry /\ lost' \subseteq Entry
  BY <1>1 DEF Leave, RehydrateFails, Refuse, InsertFails, GiveUp, Unlock, StoreTypes, TableTyped
<1>3. OpType(Nothing, MaxRid)
  BY DEF OpType
<1> QED
  BY <1>2, <1>3, TypesOpStep

\* The log in hand is well formed.
LEMMA LogInHandWellFormed ==
    ASSUME StoreTypes, NEW p \in Process, NEW k \in Kind, HasLog(op[p][k])
    PROVE  WellFormed(LogInHand(p, op[p][k])) /\ HolderType(op[p][k])
<1>1. PICK o : o = op[p][k]
  OBVIOUS
<1>2. HolderType(o)
  BY <1>1, OpAt DEF StoreTypes, OpsTyped
<1>3. WellFormed(cache[p].log)
  BY DEF StoreTypes, CachesTyped
<1>4. WellFormed(o.old.log)
  BY <1>2 DEF HolderType, OldType
<1> QED
  BY <1>1, <1>2, <1>3, <1>4 DEF LogInHand

\* A handler builds its entry from the log in hand.
LEMMA TypesBuildEntry ==
    ASSUME StoreTypes, NEW p \in Process, NEW k \in Kind, BuildEntry(p, k)
    PROVE  StoreTypes'
<1> DEFINE o == op[p][k]
<1>1. PICK l : l = LogInHand(p, o)
  OBVIOUS
<1>2. PICK e : e = NextEntry(l, Key, ids + 1, "content", AuthorDraft)
  OBVIOUS
<1>3. /\ o.pc = "holding" /\ ids' = ids + 1
      /\ UNCHANGED <<rows, cache, mu, acked, lost, newest>>
      /\ Goto(p, k, [pc |-> "built", entry |-> e, old |-> o.old])
  BY <1>1, <1>2 DEF BuildEntry
<1>4. WellFormed(l) /\ HolderType(o)
  BY <1>1, <1>3, LogInHandWellFormed DEF HasLog
<1>5. e \in Entry
  BY <1>2, <1>4, NextEntryType DEF WellFormed, StoreTypes, TableTyped
<1>6. OpType([pc |-> "built", entry |-> e, old |-> o.old], MaxRid)
  BY <1>4, <1>5 DEF OpType, HolderType
<1>7. OpsTyped'
  BY <1>3, <1>6, TypedGoesOn DEF StoreTypes
<1> QED
  BY <1>3, <1>7 DEF StoreTypes, TableTyped, CachesTyped, MaxRid

\* What Author.Append makes of the operations of its process.
LEMMA AuthorAppendOps ==
    ASSUME OpsOK, NEW p \in Process, NEW k \in Kind, AuthorAppend(p, k),
           NEW o, o = op[p][k], NEW l, l = LogInHand(p, o), NEW m, m = AppendEntry(l, o.entry),
           NEW grown, grown = [of |-> o.old.of, log |-> m]
    PROVE  /\ OpsOK'
           /\ \A q \in Process, j \in Kind :
                 op'[q][j] = IF q # p THEN op[q][j]
                             ELSE IF j = k
                             THEN IF Admits(l, o.entry)
                                  THEN [pc |-> "authored", entry |-> o.entry] ELSE Nothing
                             ELSE IF HasLog(op[p][j]) /\ op[p][j].old = o.old /\ o.old # Cached
                             THEN [op[p][j] EXCEPT !.old = grown]
                             ELSE op[p][j]
<1>1. PICK goes : goes = IF Admits(l, o.entry)
                         THEN [pc |-> "authored", entry |-> o.entry] ELSE Nothing
  OBVIOUS
<1>2. op' = [op EXCEPT ![p] =
                [j \in Kind |->
                   IF j = k THEN goes
                   ELSE IF HasLog(@[j]) /\ @[j].old = o.old /\ o.old # Cached
                   THEN [@[j] EXCEPT !.old = grown] ELSE @[j]]]
  BY <1>1 DEF AuthorAppend
<1> QED
  BY <1>1, <1>2 DEF OpsOK

\* Author.Append, on the cached log or on one that is no longer cached.
LEMMA TypesAuthorAppend ==
    ASSUME StoreTypes, NEW p \in Process, NEW k \in Kind, AuthorAppend(p, k)
    PROVE  StoreTypes'
<1> DEFINE o == op[p][k]
           e == o.entry
<1>1. PICK l : l = LogInHand(p, o)
  OBVIOUS
<1>2. PICK m : m = AppendEntry(l, e)
  OBVIOUS
<1>3. /\ o.pc = "built" /\ UNCHANGED <<rows, mu, ids, acked, lost, newest>>
      /\ cache' = IF o.old = Cached THEN [cache EXCEPT ![p].log = m] ELSE cache
  BY <1>1, <1>2 DEF AuthorAppend
<1>4. WellFormed(l) /\ HolderType(o) /\ e \in Entry
  <2>1. WellFormed(l) /\ HolderType(o)
    BY <1>1, <1>3, LogInHandWellFormed DEF HasLog
  <2> QED
    BY <1>3, <2>1 DEF HolderType
<1>5. WellFormed(m)
  BY <1>2, <1>4, AppendWellFormed
<1>6. CachesTyped'
  <2>1. CASE o.old = Cached
    BY <1>3, <1>5, <2>1, TypedLog DEF StoreTypes, TableTyped
  <2>2. CASE o.old # Cached
    BY <1>3, <2>2 DEF StoreTypes, CachesTyped, MaxRid
  <2> QED
    BY <2>1, <2>2
<1>12. PICK grown : grown = [of |-> o.old.of, log |-> m]
  OBVIOUS
<1>7. \A q \in Process, j \in Kind :
          op'[q][j] = IF q # p THEN op[q][j]
                      ELSE IF j = k
                      THEN IF Admits(l, e) THEN [pc |-> "authored", entry |-> e] ELSE Nothing
                      ELSE IF HasLog(op[p][j]) /\ op[p][j].old = o.old /\ o.old # Cached
                      THEN [op[p][j] EXCEPT !.old = grown]
                      ELSE op[p][j]
  BY <1>1, <1>2, <1>12, AuthorAppendOps DEF StoreTypes, OpsTyped
<1>8. OldType(grown)
  BY <1>5, <1>12 DEF OldType
<1>9. ASSUME NEW j \in Kind, HasLog(op[p][j])
      PROVE  OpType([op[p][j] EXCEPT !.old = grown], MaxRid)
  <2>1. HolderType(op[p][j])
    BY <1>9, OpAt DEF StoreTypes, OpsTyped
  <2>2. HolderType([op[p][j] EXCEPT !.old = grown])
    BY <1>8, <2>1, HolderKeeps
  <2> QED
    BY <2>2 DEF OpType
<1>10. OpsTyped'
  <2>1. OpsOK' /\ MaxRid' = MaxRid
    BY <1>1, <1>2, <1>3, <1>12, AuthorAppendOps DEF StoreTypes, OpsTyped, MaxRid
  <2>2. OpType([pc |-> "authored", entry |-> e], MaxRid) /\ OpType(Nothing, MaxRid)
    BY <1>4 DEF OpType
  <2>3. ASSUME NEW q \in Process, NEW j \in Kind PROVE OpType(op'[q][j], MaxRid)
    <3>1. OpType(op[q][j], MaxRid)
      BY DEF StoreTypes, OpsTyped
    <3>2. CASE q # p
      BY <1>7, <3>1, <3>2
    <3>3. CASE q = p /\ j = k
      BY <1>7, <2>2, <3>3
    <3>4. CASE q = p /\ j # k
      BY <1>7, <1>9, <3>1, <3>4
    <3> QED
      BY <3>2, <3>3, <3>4
  <2> QED
    BY <2>1, <2>3 DEF OpsTyped
<1> QED
  BY <1>3, <1>6, <1>10 DEF StoreTypes, TableTyped

\* Admission to the cached log.
LEMMA TypesAdmit ==
    ASSUME StoreTypes, NEW p \in Process, NEW k \in Kind, AdmitEntry(p, k)
    PROVE  StoreTypes'
<1>1. PICK e : e = op[p][k].entry
  OBVIOUS
<1>2. e \in Entry
  <2>1. OpType(op[p][k], MaxRid) /\ Carries(op[p][k])
    BY DEF AdmitEntry, StoreTypes, OpsTyped, Carries
  <2> QED
    BY <1>1, <2>1, CarriesEntry
<1>3. PICK l : l = AppendEntry(cache[p].log, e)
  OBVIOUS
<1>4. WellFormed(l)
  <2>1. PICK c : c = cache[p].log
    OBVIOUS
  <2>2. WellFormed(c)
    BY <2>1 DEF StoreTypes, CachesTyped
  <2> QED
    BY <1>2, <1>3, <2>1, <2>2, AppendWellFormed
<1>5. cache' = [cache EXCEPT ![p].log = l] /\ UNCHANGED <<rows, ids, lost, newest>>
  BY <1>1, <1>3 DEF AdmitEntry
<1>6. CachesTyped'
  BY <1>4, <1>5, TypedLog DEF StoreTypes, TableTyped
<1>7. OpType(Nothing, MaxRid) /\ OpType([pc |-> "insert", entry |-> e], MaxRid)
  BY <1>2 DEF OpType
<1>8. OpsTyped'
  <2>1. Goto(p, k, Nothing) \/ Goto(p, k, [pc |-> "insert", entry |-> e])
    BY <1>1 DEF AdmitEntry, Return
  <2> QED
    BY <1>5, <1>7, <2>1, TypedGoesOn DEF StoreTypes
<1>9. mu' \in [Process -> SUBSET Kind] /\ acked' \subseteq Entry
  BY <1>1, <1>2 DEF AdmitEntry, Return, Unlock, StoreTypes, TableTyped
<1> QED
  BY <1>5, <1>6, <1>8, <1>9 DEF StoreTypes, TableTyped

\* The table grows by one row, and so does what the process has seen of it.
LEMMA TypesInsert ==
    ASSUME StoreTypes, NEW p \in Process, NEW k \in Kind, Insert(p, k)
    PROVE  StoreTypes'
<1>1. PICK e : e = op[p][k].entry
  OBVIOUS
<1>2. e \in Entry
  <2>1. OpType(op[p][k], MaxRid) /\ Carries(op[p][k])
    BY DEF Insert, StoreTypes, OpsTyped, Carries
  <2> QED
    BY <1>1, <2>1, CarriesEntry
<1>3. /\ rows' = Append(rows, e) /\ acked' = acked \cup {e} /\ UNCHANGED <<ids, lost>>
      /\ newest' = {p}
      /\ cache' = [cache EXCEPT ![p].maxRid = Len(rows) + 1]
      /\ Goto(p, k, Nothing) /\ mu' = [mu EXCEPT ![p] = {}]
  BY <1>1 DEF Insert, Return, Unlock
<1>4. rows \in Seq(Entry) /\ Len(rows) \in Nat
  BY DEF StoreTypes, TableTyped
<1>5. rows' \in Seq(Entry) /\ MaxRid' = MaxRid + 1 /\ MaxRid \in Nat
  BY <1>2, <1>3, <1>4 DEF MaxRid
<1>6. CachesTyped'
  <2>1. cache' \in [Process -> [log : Log, maxRid : Nat]]
    BY <1>3, <1>4 DEF StoreTypes, CachesTyped
  <2>2. ASSUME NEW q \in Process
        PROVE  cache'[q].log = cache[q].log /\ cache'[q].maxRid <= MaxRid'
    <3>1. cache[q] \in [log : Log, maxRid : Nat] /\ cache[q].maxRid <= MaxRid
      BY DEF StoreTypes, CachesTyped
    <3>2. cache'[q] = IF q = p THEN [cache[p] EXCEPT !.maxRid = Len(rows) + 1] ELSE cache[q]
      BY <1>3 DEF StoreTypes, CachesTyped
    <3> QED
      BY <3>1, <3>2, <1>5 DEF MaxRid
  <2> QED
    BY <2>1, <2>2 DEF CachesTyped, StoreTypes
<1>7. OpsTyped'
  <2>1. OpsOK' /\ \A q \in Process, j \in Kind :
          op'[q][j] = IF q = p /\ j = k THEN Nothing ELSE op[q][j]
    BY <1>3 DEF StoreTypes, OpsTyped, OpsOK, Goto
  <2>2. \A q \in Process, j \in Kind : OpType(op[q][j], MaxRid')
    BY <1>5, OpTypeLater DEF StoreTypes, OpsTyped
  <2>3. OpType(Nothing, MaxRid')
    BY DEF OpType
  <2> QED
    BY <2>1, <2>2, <2>3 DEF OpsTyped
<1> QED
  BY <1>2, <1>3, <1>5, <1>6, <1>7 DEF StoreTypes, TableTyped

\* A new process starts with nothing.
LEMMA TypesRestart ==
    ASSUME StoreTypes, NEW p \in Process, Restart(p)
    PROVE  StoreTypes'
<1>1. /\ cache' = [cache EXCEPT ![p] = [log |-> NewThreadLog, maxRid |-> 0]]
      /\ op' = [op EXCEPT ![p] = [k \in Kind |-> Nothing]]
      /\ mu' = [mu EXCEPT ![p] = {}] /\ lost' = lost \cup InHand(p)
      /\ newest' = newest \ {p} /\ UNCHANGED <<rows, ids, acked>>
  BY DEF Restart, Unlock
<1>2. PICK l : l = NewThreadLog
  OBVIOUS
<1>3. 0 \in 0..MaxRid
  BY DEF StoreTypes, TableTyped, MaxRid
<1>4. CachesTyped'
  BY <1>1, <1>2, <1>3, NewThreadLogWellFormed, TypedCache DEF StoreTypes, TableTyped
<1>5. OpsOK' /\ \A q \in Process, j \in Kind :
          op'[q][j] = IF q = p THEN Nothing ELSE op[q][j]
  BY <1>1 DEF StoreTypes, OpsTyped, OpsOK
<1>6. OpType(Nothing, MaxRid) /\ MaxRid' = MaxRid
  BY <1>1 DEF OpType, MaxRid
<1>7. OpsTyped'
  BY <1>5, <1>6 DEF StoreTypes, OpsTyped
<1> QED
  BY <1>1, <1>4, <1>7, PendingEntries DEF StoreTypes, TableTyped

\* StoreTypes is inductive.
LEMMA TypesStep == StoreTypes /\ [Next]_vars => StoreTypes'
<1> SUFFICES ASSUME StoreTypes, [Next]_vars PROVE StoreTypes'
  OBVIOUS
<1>1. CASE UNCHANGED vars
  BY <1>1 DEF vars, StoreTypes, TableTyped, CachesTyped, OpsTyped, OpsOK, MaxRid
<1>2. ASSUME NEW p \in Process, NEW k \in Kind, StartThread(p, k) \/ StartAppend(p, k)
      PROVE  StoreTypes'
  BY <1>2, TypesStart
<1>3. ASSUME NEW p \in Process, NEW e \in Remote, StartIngest(p, e) PROVE StoreTypes'
  BY <1>3, TypesStart
<1>4. ASSUME NEW p \in Process, NEW k \in Kind, BuildEntry(p, k) \/ AuthorAppend(p, k)
      PROVE  StoreTypes'
  BY <1>4, TypesBuildEntry, TypesAuthorAppend
<1>5. ASSUME NEW p \in Process, NEW k \in Kind,
             \/ CacheHit(p, k) \/ CacheMiss(p, k) \/ Rehydrate(p, k)
             \/ AdmitEntry(p, k) \/ Insert(p, k)
      PROVE  StoreTypes'
  BY <1>5, TypesCacheStep, TypesRehydrate, TypesAdmit, TypesInsert
<1>6. ASSUME NEW p \in Process, NEW k \in Kind,
             Leave(p, k) \/ RehydrateFails(p, k) \/ Refuse(p, k) \/ InsertFails(p, k)
      PROVE  StoreTypes'
  BY <1>6, TypesGivesUp
<1>7. ASSUME NEW p \in Process, Restart(p) PROVE StoreTypes'
  BY <1>7, TypesRestart
<1> QED
  BY <1>1, <1>2, <1>3, <1>4, <1>5, <1>6, <1>7 DEF Next

\* Each log that a process has in memory is well formed, whatever processes
\* interleave, fail and restart, and whether or not the table loads.
THEOREM CachesWellFormed == Spec => []StoreTypes
BY TypesInit, TypesStep, PTL DEF Spec

\* Type correctness of the store.
THEOREM StoreTypeCorrect == Spec => []TypeOK
<1>1. ASSUME StoreTypes PROVE TypeOK
  <2>1. \A p \in Process, k \in Kind :
          op[p][k].pc \in {"idle", "revalidate", "load", "holding", "built", "authored",
                          "admit", "insert"}
    BY <1>1, OpAt DEF StoreTypes, OpsTyped
  <2>2. \A p \in Process : cache[p].log \in Log /\ cache[p].maxRid \in 0..MaxRid
    BY <1>1 DEF StoreTypes, CachesTyped, TableTyped, MaxRid
  <2> QED
    BY <1>1, <2>1, <2>2 DEF StoreTypes, TableTyped, TypeOK
<1> QED
  BY <1>1, CachesWellFormed, PTL

-----------------------------------------------------------------------------
(* Entries and their ids.                                                   *)

\* The entries that exist, in the table, at the peers or under way, are in a set
\* U in which an id names one entry, and the node's own ids are counted.
Known(U) ==
    /\ Remote \subseteq U
    /\ rows \in Seq(U)
    /\ \A p \in Process, k \in Kind : Carries(op[p][k]) => op[p][k].entry \in U
    /\ \A e, f \in U : SameId(e, f) => e = f
    /\ \A e \in U : e.author = Key => e.id \in 0..ids

\* The inductive invariant: AckedIsStored needs that the SELECT by id of
\* AppendEntries finds the entry itself and no other of that id.
StoreInv == ids \in Nat /\ OpsOK /\ (\E U : Known(U)) /\ AckedIsStored

\* The database starts with entries of distinct ids, and nothing acknowledged.
LEMMA StoreInit == Init => StoreInv
<1> SUFFICES ASSUME Init PROVE StoreInv
  OBVIOUS
<1> DEFINE own == {i \in DOMAIN Stored : Stored[i].author = Key}
           U == Remote \cup RowSetOf(Stored)
<1>1. Stored \in Seq(Entry) /\ DOMAIN Stored = 1..Len(Stored) /\ Len(Stored) \in Nat
  BY StoredAssumption
<1>2. Cardinality(own) \in Nat
  BY IdsCounted
<1>3. ids \in Nat /\ OpsOK /\ AckedIsStored
  BY <1>2 DEF Init, OpsOK, AckedIsStored
<1>4. Known(U)
  <2>1. rows \in Seq(U)
    BY <1>1 DEF Init, RowSetOf
  <2>2. \A p \in Process, k \in Kind : ~ Carries(op[p][k])
    BY DEF Init, Nothing, Carries
  <2>3. \A e \in U : e.author = Key => e.id \in 0..ids
    <3> SUFFICES ASSUME NEW e \in U, e.author = Key PROVE e.id \in 0..ids
      OBVIOUS
    <3>1. PICK i \in own : e = Stored[i]
      BY RemoteAssumption DEF RowSetOf
    <3>2. e \in Entry
      BY <1>1, <3>1
    <3>3. e.id \in Nat
      BY <3>2 DEF Entry
    <3>4. e.id <= Cardinality(own)
      BY <3>1, StoredAssumption
    <3> QED
      BY <1>2, <3>3, <3>4 DEF Init
  <2> QED
    BY <2>1, <2>2, <2>3, StoredAssumption DEF Known
<1> QED
  BY <1>3, <1>4 DEF StoreInv

\* An operation goes on with an entry that exists, or with none.
LEMMA GoesOn ==
    ASSUME StoreInv, NEW p \in Process, NEW k \in Kind, NEW o, Goto(p, k, o),
           UNCHANGED <<rows, ids>>, AckedIsStored',
           \A U : Known(U) /\ Carries(o) => o.entry \in U
    PROVE  StoreInv'
<1>1. PICK U : Known(U)
  BY DEF StoreInv
<1>2. OpsOK' /\ \A q \in Process, j \in Kind :
                    op'[q][j] = IF q = p /\ j = k THEN o ELSE op[q][j]
  BY DEF StoreInv, OpsOK, Goto
<1>3. \A q \in Process, j \in Kind : Carries(op'[q][j]) => op'[q][j].entry \in U
  BY <1>1, <1>2 DEF Known
<1>4. Known(U)'
  BY <1>1, <1>3 DEF Known
<1> QED
  BY <1>2, <1>4 DEF StoreInv

\* The steps that lead to the log.
LEMMA StartStep ==
    ASSUME StoreInv, NEW p \in Process,
           \/ \E k \in Kind : StartThread(p, k) \/ StartAppend(p, k)
           \/ \E e \in Remote : StartIngest(p, e)
    PROVE  StoreInv'
<1>1. ASSUME NEW k \in Kind, StartThread(p, k) PROVE StoreInv'
  <2>1. ~ Carries([pc |-> "revalidate", for |-> "thread"])
    BY DEF Carries
  <2> QED
    BY <1>1, <2>1, GoesOn DEF StartThread, StoreInv, AckedIsStored, RowSet
<1>2. ASSUME NEW k \in Kind, StartAppend(p, k) PROVE StoreInv'
  <2>1. Carries(op[p][k])
    BY <1>2 DEF StartAppend, Carries
  <2>2. \A U : Known(U) => op[p][k].entry \in U
    BY <2>1 DEF Known
  <2> QED
    BY <1>2, <2>2, GoesOn DEF StartAppend, StoreInv, AckedIsStored, RowSet
<1>3. ASSUME NEW e \in Remote, StartIngest(p, e) PROVE StoreInv'
  <2>1. "ingest" \in Kind
    BY DEF Kind
  <2>2. \A U : Known(U) => e \in U
    BY DEF Known
  <2> QED
    BY <1>3, <2>1, <2>2, GoesOn DEF StartIngest, StoreInv, AckedIsStored, RowSet
<1> QED
  BY <1>1, <1>2, <1>3

\* A revalidation goes on with its cached log, or without.
LEMMA CacheStep ==
    ASSUME StoreInv, NEW p \in Process, NEW k \in Kind, CacheHit(p, k) \/ CacheMiss(p, k)
    PROVE  StoreInv'
<1> DEFINE o == op[p][k]
<1>1. o.pc = "revalidate" /\ UNCHANGED <<rows, ids, acked>>
  BY DEF CacheHit, CacheMiss
<1>2. AckedIsStored'
  BY <1>1 DEF StoreInv, AckedIsStored, RowSet
<1>3. \A U : Known(U) /\ Carries(o) => o.entry \in U
  BY DEF Known
<1>4. CASE CacheHit(p, k)
  <2>1. \A U : Known(U) /\ Carries(AfterThreadLog(o, cache[p].log))
               => AfterThreadLog(o, cache[p].log).entry \in U
    BY <1>1, <1>3, AfterThreadLogCarries
  <2> QED
    BY <1>1, <1>2, <1>4, <2>1, GoesOn DEF CacheHit
<1>5. CASE CacheMiss(p, k)
  <2>1. CASE o.for = "append"
    <3>1. Carries(o)
      BY <1>1, <2>1 DEF Carries
    <3> QED
      BY <1>1, <1>2, <1>3, <1>5, <2>1, <3>1, GoesOn DEF CacheMiss
  <2>2. CASE o.for # "append"
    <3>1. ~ Carries([pc |-> "load", for |-> "thread", max |-> MaxRid])
      BY DEF Carries
    <3> QED
      BY <1>1, <1>2, <1>5, <2>2, <3>1, GoesOn DEF CacheMiss
  <2> QED
    BY <2>1, <2>2
<1> QED
  BY <1>4, <1>5

\* A handler keeps its entry when its log object changes.
LEMMA HolderCarries ==
    ASSUME NEW o, HolderType(o), NEW w, OldType(w), Carries([o EXCEPT !.old = w])
    PROVE  Carries(o) /\ [o EXCEPT !.old = w].entry = o.entry
BY HolderKeeps DEF Carries

\* A rehydration may detach the logs of handlers, and changes no entry.
LEMMA RehydrateStep ==
    ASSUME StoreInv, StoreTypes, NEW p \in Process, NEW k \in Kind, Rehydrate(p, k)
    PROVE  StoreInv'
<1>1. PICK U : Known(U)
  BY DEF StoreInv
<1>2. PICK was : was = [of |-> HoldersOfCached(p), log |-> cache[p].log]
  OBVIOUS
<1>3. PICK goes : goes = AfterThreadLog(op[p][k], LogOf(RowSet))
  OBVIOUS
<1>4. op[p][k].pc = "load" /\ UNCHANGED <<rows, ids, acked>>
  BY DEF Rehydrate
<1>5. OldType(was)
  BY <1>2 DEF StoreTypes, CachesTyped, OldType
<1>6. OpsOK' /\ \A q \in Process, j \in Kind :
          op'[q][j] = IF q # p THEN op[q][j]
                      ELSE IF j = k THEN goes
                      ELSE IF j \in HoldersOfCached(p) THEN [op[p][j] EXCEPT !.old = was]
                      ELSE op[p][j]
  BY <1>2, <1>3, RehydrateOps DEF StoreInv
<1>7. Carries(goes) => goes.entry \in U
  BY <1>1, <1>3, <1>4, AfterThreadLogCarries DEF Known
<1>8. ASSUME NEW j \in Kind, j \in HoldersOfCached(p), Carries([op[p][j] EXCEPT !.old = was])
      PROVE  [op[p][j] EXCEPT !.old = was].entry \in U
  <2>1. HolderType(op[p][j])
    BY <1>8, OpAt DEF HoldersOfCached, StoreTypes, OpsTyped
  <2>2. Carries(op[p][j]) /\ [op[p][j] EXCEPT !.old = was].entry = op[p][j].entry
    BY <1>5, <1>8, <2>1, HolderCarries
  <2> QED
    BY <1>1, <2>2 DEF Known
<1>9. \A q \in Process, j \in Kind : Carries(op'[q][j]) => op'[q][j].entry \in U
  BY <1>1, <1>6, <1>7, <1>8 DEF Known
<1>10. Known(U)'
  BY <1>1, <1>4, <1>9 DEF Known
<1> QED
  BY <1>4, <1>6, <1>10 DEF StoreInv, AckedIsStored, RowSet

\* A handler makes an id that nothing had.
LEMMA BuildEntryStep ==
    ASSUME StoreInv, NEW p \in Process, NEW k \in Kind, BuildEntry(p, k)
    PROVE  StoreInv'
<1>1. PICK U : Known(U)
  BY DEF StoreInv
<1> DEFINE o == op[p][k]
           next == NextEntry(LogInHand(p, o), Key, ids + 1, "content", AuthorDraft)
<1>0. PICK e : e = next
  OBVIOUS
<1>2. /\ e.author = Key /\ e.id = ids + 1
      /\ Goto(p, k, [pc |-> "built", entry |-> e, old |-> o.old])
      /\ ids' = ids + 1 /\ UNCHANGED <<rows, acked>>
  <2>1. e.author = Key /\ e.id = ids + 1
    BY <1>0 DEF NextEntry
  <2> QED
    BY <1>0, <2>1 DEF BuildEntry
<1>3. OpsOK' /\ \A q \in Process, j \in Kind :
          op'[q][j] = IF q = p /\ j = k THEN [pc |-> "built", entry |-> e, old |-> o.old]
                      ELSE op[q][j]
  BY <1>2 DEF StoreInv, OpsOK, Goto
<1>4. \A q \in Process, j \in Kind : Carries(op'[q][j]) => op'[q][j].entry \in U \cup {e}
  BY <1>1, <1>3 DEF Known
<1>5. ids \in Nat /\ \A f \in U : f.author = Key => f.id \in 0..ids
  BY <1>1 DEF StoreInv, Known
<1>6. \A f \in U : ~ SameId(e, f) /\ ~ SameId(f, e)
  BY <1>2, <1>5 DEF SameId
<1>7. \A f, g \in U \cup {e} : SameId(f, g) => f = g
  BY <1>1, <1>6 DEF Known
<1>8. \A f \in U \cup {e} : f.author = Key => f.id \in 0..ids'
  BY <1>2, <1>5
<1>9. rows' \in Seq(U \cup {e})
  BY <1>1, <1>2 DEF Known
<1>10. Known(U \cup {e})'
  BY <1>1, <1>4, <1>7, <1>8, <1>9 DEF Known
<1> QED
  BY <1>2, <1>3, <1>5, <1>10 DEF StoreInv, AckedIsStored, RowSet

\* The log in hand admits it or not, and the entry stays what it was.
LEMMA AuthorAppendStep ==
    ASSUME StoreInv, StoreTypes, NEW p \in Process, NEW k \in Kind, AuthorAppend(p, k)
    PROVE  StoreInv'
<1>1. PICK U : Known(U)
  BY DEF StoreInv
<1>2. PICK o : o = op[p][k]
  OBVIOUS
<1>3. PICK l : l = LogInHand(p, o)
  OBVIOUS
<1>4. PICK m : m = AppendEntry(l, o.entry)
  OBVIOUS
<1>5. PICK grown : grown = [of |-> o.old.of, log |-> m]
  OBVIOUS
<1>6. o.pc = "built" /\ UNCHANGED <<rows, ids, acked>>
  BY <1>2 DEF AuthorAppend
<1>7. OldType(grown) /\ o.entry \in U
  <2>1. WellFormed(l) /\ HolderType(o)
    BY <1>2, <1>3, <1>6, LogInHandWellFormed DEF HasLog
  <2>2. o.entry \in Entry
    BY <1>6, <2>1 DEF HolderType
  <2>3. WellFormed(m)
    BY <1>4, <2>1, <2>2, AppendWellFormed
  <2> QED
    BY <1>1, <1>2, <1>5, <1>6, <2>3 DEF OldType, Known, Carries
<1>8. OpsOK' /\ \A q \in Process, j \in Kind :
          op'[q][j] = IF q # p THEN op[q][j]
                      ELSE IF j = k
                      THEN IF Admits(l, o.entry)
                           THEN [pc |-> "authored", entry |-> o.entry] ELSE Nothing
                      ELSE IF HasLog(op[p][j]) /\ op[p][j].old = o.old /\ o.old # Cached
                      THEN [op[p][j] EXCEPT !.old = grown]
                      ELSE op[p][j]
  BY <1>2, <1>3, <1>4, <1>5, AuthorAppendOps DEF StoreInv
<1>9. ASSUME NEW j \in Kind, HasLog(op[p][j]), Carries([op[p][j] EXCEPT !.old = grown])
      PROVE  [op[p][j] EXCEPT !.old = grown].entry \in U
  <2>1. HolderType(op[p][j])
    BY <1>9, OpAt DEF StoreTypes, OpsTyped
  <2>2. Carries(op[p][j]) /\ [op[p][j] EXCEPT !.old = grown].entry = op[p][j].entry
    BY <1>7, <1>9, <2>1, HolderCarries
  <2> QED
    BY <1>1, <2>2 DEF Known
<1>10. \A q \in Process, j \in Kind : Carries(op'[q][j]) => op'[q][j].entry \in U
  <2> SUFFICES ASSUME NEW q \in Process, NEW j \in Kind, Carries(op'[q][j])
               PROVE  op'[q][j].entry \in U
    OBVIOUS
  <2>1. ~ Carries(Nothing)
    BY DEF Carries, Nothing
  <2>2. CASE q # p \/ (j # k /\ op'[q][j] = op[q][j])
    BY <1>1, <1>8, <2>2 DEF Known
  <2>3. CASE q = p /\ j = k
    <3>1. op'[q][j] = [pc |-> "authored", entry |-> o.entry]
      BY <1>8, <2>1, <2>3
    <3> QED
      BY <1>7, <3>1
  <2>4. CASE q = p /\ j # k /\ op'[q][j] # op[q][j]
    BY <1>8, <1>9, <2>4
  <2> QED
    BY <2>2, <2>3, <2>4
<1>11. Known(U)'
  BY <1>1, <1>6, <1>10 DEF Known
<1> QED
  BY <1>6, <1>8, <1>11 DEF StoreInv, AckedIsStored, RowSet

\* AppendEntries ends without an acknowledgement.
LEMMA GivesUpStep ==
    ASSUME StoreInv, NEW p \in Process, NEW k \in Kind,
           Leave(p, k) \/ RehydrateFails(p, k) \/ Refuse(p, k) \/ InsertFails(p, k)
    PROVE  StoreInv'
<1>1. ~ Carries(Nothing)
  BY DEF Carries, Nothing
<1>2. Goto(p, k, Nothing) /\ UNCHANGED <<rows, ids, acked>>
  BY DEF Leave, RehydrateFails, Refuse, InsertFails, GiveUp
<1> QED
  BY <1>1, <1>2, GoesOn DEF StoreInv, AckedIsStored, RowSet

\* What the SELECT by id finds is the entry that is to be stored.
LEMMA AdmitEntryStep ==
    ASSUME StoreInv, NEW p \in Process, NEW k \in Kind, AdmitEntry(p, k)
    PROVE  StoreInv'
<1> DEFINE e == op[p][k].entry
<1>1. PICK U : Known(U)
  BY DEF StoreInv
<1>2. Carries(op[p][k])
  BY DEF AdmitEntry, Carries
<1>3. \A V : Known(V) => e \in V
  BY <1>2 DEF Known
<1>4. CASE \E r \in RowSet : SameId(r, e)
  <2>1. PICK r \in RowSet : SameId(r, e)
    BY <1>4
  <2>2. r \in U
    BY <1>1, <2>1 DEF Known, RowSet, RowSetOf
  <2>3. e \in RowSet
    BY <1>1, <1>3, <2>1, <2>2 DEF Known
  <2>4. Goto(p, k, Nothing) /\ acked' = acked \cup {e} /\ UNCHANGED <<rows, ids>>
    BY <1>4 DEF AdmitEntry, Return
  <2>5. AckedIsStored'
    BY <2>3, <2>4 DEF StoreInv, AckedIsStored, RowSet
  <2>6. ~ Carries(Nothing)
    BY DEF Carries, Nothing
  <2> QED
    BY <2>4, <2>5, <2>6, GoesOn
<1>5. CASE ~ \E r \in RowSet : SameId(r, e)
  <2>1. Goto(p, k, [pc |-> "insert", entry |-> e]) /\ UNCHANGED <<rows, ids, acked>>
    BY <1>5 DEF AdmitEntry
  <2>2. AckedIsStored'
    BY <2>1 DEF StoreInv, AckedIsStored, RowSet
  <2> QED
    BY <1>3, <2>1, <2>2, GoesOn
<1> QED
  BY <1>4, <1>5

\* A committed transaction stores what it acknowledges.
LEMMA InsertStep ==
    ASSUME StoreInv, NEW p \in Process, NEW k \in Kind, Insert(p, k)
    PROVE  StoreInv'
<1>1. PICK U : Known(U)
  BY DEF StoreInv
<1>2. PICK e : e = op[p][k].entry
  OBVIOUS
<1>3. /\ rows' = Append(rows, e) /\ acked' = acked \cup {e} /\ UNCHANGED ids
      /\ Goto(p, k, Nothing) /\ Carries(op[p][k])
  BY <1>2 DEF Insert, Return, Carries
<1>4. e \in U /\ rows \in Seq(U)
  BY <1>1, <1>2, <1>3 DEF Known
<1>5. /\ rows' \in Seq(U)
      /\ DOMAIN rows' = DOMAIN rows \cup {Len(rows) + 1}
      /\ \A i \in DOMAIN rows : rows'[i] = rows[i]
      /\ rows'[Len(rows) + 1] = e
  BY <1>3, <1>4
<1>6. RowSet' = RowSet \cup {e}
  BY <1>5 DEF RowSet, RowSetOf
<1>7. AckedIsStored'
  BY <1>3, <1>6 DEF StoreInv, AckedIsStored
<1>8. OpsOK' /\ \A q \in Process, j \in Kind :
          op'[q][j] = IF q = p /\ j = k THEN Nothing ELSE op[q][j]
  BY <1>3 DEF StoreInv, OpsOK, Goto
<1>9. ~ Carries(Nothing)
  BY DEF Carries, Nothing
<1>10. Known(U)'
  BY <1>1, <1>3, <1>5, <1>8, <1>9 DEF Known
<1> QED
  BY <1>3, <1>7, <1>8, <1>10 DEF StoreInv

\* A restart forgets what was under way.
LEMMA RestartStep ==
    ASSUME StoreInv, NEW p \in Process, Restart(p)
    PROVE  StoreInv'
<1>1. PICK U : Known(U)
  BY DEF StoreInv
<1>2. OpsOK' /\ \A q \in Process, j \in Kind :
          op'[q][j] = IF q = p THEN Nothing ELSE op[q][j]
  BY DEF StoreInv, OpsOK, Restart
<1>3. ~ Carries(Nothing)
  BY DEF Carries, Nothing
<1>4. UNCHANGED <<rows, ids, acked>>
  BY DEF Restart
<1>5. Known(U)'
  BY <1>1, <1>2, <1>3, <1>4 DEF Known
<1> QED
  BY <1>2, <1>4, <1>5 DEF StoreInv, AckedIsStored, RowSet

\* StoreInv is an invariant, by one lemma for each group of actions.
THEOREM StoreInvariant == Spec => []StoreInv
<1>1. ASSUME StoreInv, StoreTypes, [Next]_vars PROVE StoreInv'
  <2> USE <1>1
  <2>1. CASE UNCHANGED vars
    <3>1. PICK U : Known(U)
      BY DEF StoreInv
    <3>2. Known(U)'
      BY <2>1, <3>1 DEF vars, Known
    <3> QED
      BY <2>1, <3>2 DEF vars, StoreInv, OpsOK, AckedIsStored, RowSet
  <2>2. ASSUME NEW p \in Process, NEW k \in Kind, StartThread(p, k) \/ StartAppend(p, k)
        PROVE  StoreInv'
    BY <2>2, StartStep
  <2>3. ASSUME NEW p \in Process, NEW e \in Remote, StartIngest(p, e) PROVE StoreInv'
    BY <2>3, StartStep
  <2>4. ASSUME NEW p \in Process, Restart(p) PROVE StoreInv'
    BY <2>4, RestartStep
  <2>5. ASSUME NEW p \in Process, NEW k \in Kind,
               \/ CacheHit(p, k) \/ CacheMiss(p, k) \/ Rehydrate(p, k)
               \/ BuildEntry(p, k) \/ AuthorAppend(p, k)
               \/ AdmitEntry(p, k) \/ Insert(p, k)
        PROVE  StoreInv'
    BY <2>5, CacheStep, RehydrateStep, BuildEntryStep, AuthorAppendStep, AdmitEntryStep, InsertStep
  <2>6. ASSUME NEW p \in Process, NEW k \in Kind,
               Leave(p, k) \/ RehydrateFails(p, k) \/ Refuse(p, k) \/ InsertFails(p, k)
        PROVE  StoreInv'
    BY <2>6, GivesUpStep
  <2> QED
    BY <2>1, <2>2, <2>3, <2>4, <2>5, <2>6 DEF Next
<1> QED
  BY <1>1, StoreInit, CachesWellFormed, PTL DEF Spec

\* What AppendEntries acknowledged is in the table, whoever authors, however the
\* statements of several processes interleave, whatever fails or restarts.
THEOREM AckedSound == Spec => []AckedIsStored
<1>1. StoreInv => AckedIsStored
  BY DEF StoreInv
<1> QED
  BY <1>1, StoreInvariant, PTL

-----------------------------------------------------------------------------
(* The store's mutex.                                                       *)

LockedPc == {"revalidate", "load", "admit", "insert"}

\* An operation in Thread or AppendEntries holds the mutex of its process.
Locked == \A p \in Process, k \in Kind : op[p][k].pc \in LockedPc => mu[p] = {k}

\* One operation goes on, and takes, keeps or releases the mutex.
LEMMA LockedGoesOn ==
    ASSUME StoreTypes, Locked, NEW p \in Process, NEW k \in Kind, NEW o, Goto(p, k, o),
           \/ mu' = mu /\ (o.pc \in LockedPc => mu[p] = {k})
           \/ mu[p] = {} /\ mu' = [mu EXCEPT ![p] = {k}]
           \/ mu[p] = {k} /\ mu' = [mu EXCEPT ![p] = {}] /\ o.pc \notin LockedPc
    PROVE  Locked'
<1>1. \A q \in Process, j \in Kind : op'[q][j] = IF q = p /\ j = k THEN o ELSE op[q][j]
  BY DEF StoreTypes, OpsTyped, OpsOK, Goto
<1>2. mu \in [Process -> SUBSET Kind]
  BY DEF StoreTypes
<1> SUFFICES ASSUME NEW q \in Process, NEW j \in Kind, op'[q][j].pc \in LockedPc
             PROVE  mu'[q] = {j}
  BY DEF Locked
<1>3. CASE q # p
  BY <1>1, <1>2, <1>3 DEF Locked
<1>4. CASE q = p /\ j = k
  BY <1>1, <1>2, <1>4
<1>5. CASE q = p /\ j # k
  <2>1. mu[p] = {j}
    BY <1>1, <1>5 DEF Locked
  <2> QED
    BY <2>1, <1>2, <1>5
<1> QED
  BY <1>3, <1>4, <1>5

\* Where an operation is after threadLog.
LEMMA AfterThreadLogAt ==
    ASSUME NEW o, NEW l
    PROVE  /\ o.for = "append" => AfterThreadLog(o, l) = [pc |-> "admit", entry |-> o.entry]
           /\ o.for # "append" => AfterThreadLog(o, l).pc \in {"holding", "idle"}
           /\ AfterThreadLog(o, l).pc \in {"admit", "holding", "idle"}
           /\ AfterThreadLog(o, l).pc = "holding"
                 => AfterThreadLog(o, l).old = Cached /\ o.for # "append"
BY DEF AfterThreadLog, Nothing

\* Every step of one operation finds the mutex as this says, and leaves it so.
LEMMA LockedStep == StoreTypes /\ Locked /\ [Next]_vars => Locked'
<1> SUFFICES ASSUME StoreTypes, Locked, [Next]_vars PROVE Locked'
  OBVIOUS
<1>0. \A p \in Process, k \in Kind : op[p][k].pc \in LockedPc => mu[p] = {k}
  BY DEF Locked
<1>1. CASE UNCHANGED vars
  BY <1>1 DEF vars, Locked
<1>2. ASSUME NEW p \in Process, NEW k \in Kind, StartThread(p, k) PROVE Locked'
  BY <1>2, LockedGoesOn DEF StartThread, Lock
<1>3. ASSUME NEW p \in Process, NEW k \in Kind, StartAppend(p, k) PROVE Locked'
  BY <1>3, LockedGoesOn DEF StartAppend, Lock
<1>4. ASSUME NEW p \in Process, NEW e \in Remote, StartIngest(p, e) PROVE Locked'
  BY <1>4, LockedGoesOn DEF StartIngest, Lock, Kind
<1>5. ASSUME NEW p \in Process, NEW k \in Kind, BuildEntry(p, k) \/ Leave(p, k) PROVE Locked'
  <2>1. PICK o : Goto(p, k, o) /\ o.pc \in {"built", "idle"}
    BY <1>5 DEF BuildEntry, Leave, Nothing
  <2>2. mu' = mu
    BY <1>5 DEF BuildEntry, Leave
  <2> QED
    BY <2>1, <2>2, LockedGoesOn DEF LockedPc
<1>12. ASSUME NEW p \in Process, NEW k \in Kind, AuthorAppend(p, k) PROVE Locked'
  <2>1. mu' = mu
    BY <1>12 DEF AuthorAppend
  <2>2. PICK o : o = op[p][k]
    OBVIOUS
  <2>3. PICK l : l = LogInHand(p, o)
    OBVIOUS
  <2>4. PICK m : m = AppendEntry(l, o.entry)
    OBVIOUS
  <2>5. PICK grown : grown = [of |-> o.old.of, log |-> m]
    OBVIOUS
  <2>6. \A q \in Process, j \in Kind :
          op'[q][j] = IF q # p THEN op[q][j]
                      ELSE IF j = k
                      THEN IF Admits(l, o.entry)
                           THEN [pc |-> "authored", entry |-> o.entry] ELSE Nothing
                      ELSE IF HasLog(op[p][j]) /\ op[p][j].old = o.old /\ o.old # Cached
                      THEN [op[p][j] EXCEPT !.old = grown]
                      ELSE op[p][j]
    BY <1>12, <2>2, <2>3, <2>4, <2>5, AuthorAppendOps DEF StoreTypes, OpsTyped
  <2>7. OldType(grown)
    <3>1. WellFormed(l) /\ HolderType(o) /\ o.pc = "built"
      BY <1>12, <2>2, <2>3, LogInHandWellFormed DEF HasLog, AuthorAppend
    <3>2. o.entry \in Entry
      BY <3>1 DEF HolderType
    <3> QED
      BY <2>4, <2>5, <3>1, <3>2, AppendWellFormed DEF OldType
  <2>8. ASSUME NEW j \in Kind, HasLog(op[p][j])
        PROVE  [op[p][j] EXCEPT !.old = grown].pc = op[p][j].pc
    BY <2>7, <2>8, OpAt, HolderKeeps DEF StoreTypes, OpsTyped
  <2>9. ASSUME NEW q \in Process, NEW j \in Kind, op'[q][j].pc \in LockedPc
        PROVE  op[q][j].pc = op'[q][j].pc
    <3>1. CASE q # p
      BY <2>6, <3>1
    <3>2. CASE q = p /\ j = k
      <4>1. /\ Nothing.pc \notin LockedPc
            /\ [pc |-> "authored", entry |-> o.entry].pc \notin LockedPc
        BY DEF Nothing, LockedPc
      <4>2. op'[q][j] \in {[pc |-> "authored", entry |-> o.entry], Nothing}
        BY <2>6, <3>2
      <4> QED
        BY <2>9, <4>1, <4>2
    <3>3. CASE q = p /\ j # k /\ HasLog(op[p][j])
      <4>1. op'[p][j] \in {[op[p][j] EXCEPT !.old = grown], op[p][j]}
        BY <2>6, <3>3
      <4> QED
        BY <2>8, <3>3, <4>1
    <3>4. CASE q = p /\ j # k /\ ~ HasLog(op[p][j])
      BY <2>6, <3>4
    <3> QED
      BY <3>1, <3>2, <3>3, <3>4
  <2> QED
    BY <1>0, <2>1, <2>9 DEF Locked
<1>6. ASSUME NEW p \in Process, NEW k \in Kind, CacheHit(p, k) PROVE Locked'
  <2>1. /\ op[p][k].pc = "revalidate" /\ Goto(p, k, AfterThreadLog(op[p][k], cache[p].log))
        /\ IF op[p][k].for = "append" THEN mu' = mu ELSE mu' = [mu EXCEPT ![p] = {}]
    BY <1>6 DEF CacheHit, KeepsLock, Unlock
  <2>2. mu[p] = {k}
    BY <1>0, <2>1 DEF LockedPc
  <2>3. op[p][k].for # "append" => AfterThreadLog(op[p][k], cache[p].log).pc \notin LockedPc
    BY AfterThreadLogAt DEF LockedPc
  <2> QED
    BY <2>1, <2>2, <2>3, LockedGoesOn
<1>7. ASSUME NEW p \in Process, NEW k \in Kind, CacheMiss(p, k) PROVE Locked'
  <2>1. mu[p] = {k} /\ mu' = mu /\ \E o : Goto(p, k, o)
    BY <1>0, <1>7 DEF CacheMiss, LockedPc
  <2> QED
    BY <2>1, LockedGoesOn
<1>8. ASSUME NEW p \in Process, NEW k \in Kind, Rehydrate(p, k) PROVE Locked'
  <2>1. PICK goes : goes = AfterThreadLog(op[p][k], LogOf(RowSet))
    OBVIOUS
  <2>2. PICK was : was = [of |-> HoldersOfCached(p), log |-> cache[p].log]
    OBVIOUS
  <2>3. /\ op[p][k].pc = "load"
        /\ IF op[p][k].for = "append" THEN mu' = mu ELSE mu' = [mu EXCEPT ![p] = {}]
    BY <1>8 DEF Rehydrate, KeepsLock, Unlock
  <2>4. mu[p] = {k} /\ mu \in [Process -> SUBSET Kind]
    BY <1>0, <2>3 DEF LockedPc, StoreTypes
  <2>5. op[p][k].for # "append" => goes.pc \notin LockedPc
    BY <2>1, AfterThreadLogAt DEF LockedPc
  <2>6. \A q \in Process, j \in Kind :
          op'[q][j] = IF q # p THEN op[q][j]
                      ELSE IF j = k THEN goes
                      ELSE IF j \in HoldersOfCached(p) THEN [op[p][j] EXCEPT !.old = was]
                      ELSE op[p][j]
    BY <1>8, <2>1, <2>2, RehydrateOps DEF StoreTypes, OpsTyped
  <2>7. OldType(was)
    BY <2>2 DEF StoreTypes, CachesTyped, OldType
  <2>8. ASSUME NEW j \in Kind, j \in HoldersOfCached(p)
        PROVE  [op[p][j] EXCEPT !.old = was].pc = op[p][j].pc
    BY <2>7, <2>8, OpAt, HolderKeeps DEF HoldersOfCached, StoreTypes, OpsTyped
  <2>9. ASSUME NEW q \in Process, NEW j \in Kind, op'[q][j].pc \in LockedPc
        PROVE  mu'[q] = {j}
    <3>1. CASE q # p
      BY <3>1, <2>3, <2>4, <2>6, <2>9, <1>0
    <3>2. CASE q = p /\ j = k
      BY <3>2, <2>3, <2>4, <2>5, <2>6, <2>9
    <3>3. CASE q = p /\ j # k
      <4>1. op'[p][j].pc = op[p][j].pc
        BY <3>3, <2>6, <2>8
      <4> QED
        BY <4>1, <3>3, <2>4, <2>9, <1>0
    <3> QED
      BY <3>1, <3>2, <3>3
  <2> QED
    BY <2>9 DEF Locked
<1>9. ASSUME NEW p \in Process, NEW k \in Kind,
             RehydrateFails(p, k) \/ Refuse(p, k) \/ Insert(p, k) \/ InsertFails(p, k)
      PROVE  Locked'
  <2>1. op[p][k].pc \in LockedPc /\ Goto(p, k, Nothing) /\ mu' = [mu EXCEPT ![p] = {}]
    BY <1>9 DEF RehydrateFails, Refuse, Insert, InsertFails, GiveUp, Return, Unlock, LockedPc
  <2>2. Nothing.pc \notin LockedPc
    BY DEF Nothing, LockedPc
  <2> QED
    BY <1>0, <2>1, <2>2, LockedGoesOn
<1>10. ASSUME NEW p \in Process, NEW k \in Kind, AdmitEntry(p, k) PROVE Locked'
  <2>1. mu[p] = {k}
    BY <1>0, <1>10 DEF AdmitEntry, LockedPc
  <2>2. \/ \E o : Goto(p, k, o) /\ mu' = mu
        \/ Goto(p, k, Nothing) /\ mu' = [mu EXCEPT ![p] = {}]
    BY <1>10 DEF AdmitEntry, Return, Unlock
  <2>3. Nothing.pc \notin LockedPc
    BY DEF Nothing, LockedPc
  <2> QED
    BY <2>1, <2>2, <2>3, LockedGoesOn
<1>11. ASSUME NEW p \in Process, Restart(p) PROVE Locked'
  <2>1. \A q \in Process, j \in Kind : op'[q][j] = IF q = p THEN Nothing ELSE op[q][j]
    BY <1>11 DEF StoreTypes, OpsTyped, OpsOK, Restart
  <2>2. Nothing.pc \notin LockedPc
    BY DEF Nothing, LockedPc
  <2>3. \A q \in Process : q # p => mu'[q] = mu[q]
    BY <1>11 DEF StoreTypes, Restart, Unlock
  <2> QED
    BY <1>0, <2>1, <2>2, <2>3 DEF Locked
<1> QED
  BY <1>1, <1>2, <1>3, <1>4, <1>5, <1>6, <1>7, <1>8, <1>9, <1>10, <1>11,
     <1>12 DEF Next

\* Thread and AppendEntries of one process exclude each other.
THEOREM MutexHeld == Spec => []Locked
<1>1. Init => Locked
  BY DEF Init, Locked, LockedPc, Nothing
<1> QED
  BY <1>1, LockedStep, CachesWellFormed, PTL DEF Spec

-----------------------------------------------------------------------------
(* Caches that lag behind the table.                                        *)

\* The caches stay as recent as they are, and gain entries if anything.
CachesGrow ==
    /\ rows' = rows /\ newest' = newest
    /\ \A p \in Process : /\ cache'[p].maxRid = cache[p].maxRid
                          /\ cache[p].log.entries \subseteq cache'[p].log.entries

\* An entry appended to a log in memory takes none away.
LEMMA AppendGrows ==
    ASSUME NEW l, NEW e
    PROVE  /\ l.entries \subseteq AppendEntry(l, e).entries
           /\ AppendEntry(l, e).entries \subseteq l.entries \cup {e}
           /\ ~ Extends(l, e) => AppendEntry(l, e) = l
BY DEF AppendEntry, Admit

\* A process's log is replaced by one that contains it.
LEMMA CacheGrows ==
    ASSUME CachesTyped, NEW p \in Process, NEW l, cache[p].log.entries \subseteq l.entries,
           cache' = [cache EXCEPT ![p].log = l], rows' = rows, newest' = newest
    PROVE  CachesGrow
<1>1. cache[p] \in [log : Log, maxRid : Nat]
  BY DEF CachesTyped
<1>2. [cache[p] EXCEPT !.log = l] = [log |-> l, maxRid |-> cache[p].maxRid]
  BY <1>1
<1>3. \A q \in Process : cache'[q] = IF q = p THEN [log |-> l, maxRid |-> cache[p].maxRid]
                                    ELSE cache[q]
  BY <1>2 DEF CachesTyped
<1> QED
  BY <1>3 DEF CachesGrow

\* All steps but these three leave the table alone, and the caches no poorer.
LEMMA OtherStepsGrow ==
    ASSUME StoreTypes, [Next]_vars,
           ~ \E p \in Process, k \in Kind : Rehydrate(p, k) \/ Insert(p, k),
           ~ \E p \in Process : Restart(p)
    PROVE  CachesGrow
<1>1. CASE UNCHANGED vars
  BY <1>1 DEF vars, CachesGrow
<1>2. ASSUME NEW p \in Process, NEW e, StartIngest(p, e) PROVE CachesGrow
  BY <1>2 DEF StartIngest, CachesGrow
<1>3. ASSUME NEW p \in Process, NEW k \in Kind,
             \/ StartThread(p, k) \/ Leave(p, k) \/ BuildEntry(p, k) \/ StartAppend(p, k)
             \/ CacheHit(p, k) \/ CacheMiss(p, k) \/ RehydrateFails(p, k)
             \/ Refuse(p, k) \/ InsertFails(p, k)
      PROVE  CachesGrow
  <2>1. UNCHANGED <<rows, cache, newest>>
    BY <1>3 DEF StartThread, Leave, BuildEntry, StartAppend, CacheHit, CacheMiss, RehydrateFails,
                Refuse, InsertFails, GiveUp
  <2> QED
    BY <2>1 DEF CachesGrow
<1>4. ASSUME NEW p \in Process, NEW k \in Kind, AuthorAppend(p, k) PROVE CachesGrow
  <2>1. PICK l : l = AppendEntry(LogInHand(p, op[p][k]), op[p][k].entry)
    OBVIOUS
  <2>2. /\ cache' = IF op[p][k].old = Cached THEN [cache EXCEPT ![p].log = l] ELSE cache
        /\ rows' = rows /\ newest' = newest
    BY <1>4, <2>1 DEF AuthorAppend
  <2>3. CASE op[p][k].old = Cached
    <3>1. cache[p].log.entries \subseteq l.entries
      BY <2>1, <2>3, AppendGrows DEF LogInHand
    <3> QED
      BY <2>2, <2>3, <3>1, CacheGrows DEF StoreTypes
  <2>4. CASE op[p][k].old # Cached
    BY <2>2, <2>4 DEF CachesGrow
  <2> QED
    BY <2>3, <2>4
<1>5. ASSUME NEW p \in Process, NEW k \in Kind, AdmitEntry(p, k) PROVE CachesGrow
  <2>1. PICK l : l = AppendEntry(cache[p].log, op[p][k].entry)
    OBVIOUS
  <2>2. cache' = [cache EXCEPT ![p].log = l] /\ rows' = rows /\ newest' = newest
    BY <1>5, <2>1 DEF AdmitEntry
  <2>3. cache[p].log.entries \subseteq l.entries
    BY <2>1, AppendGrows
  <2> QED
    BY <2>2, <2>3, CacheGrows DEF StoreTypes
<1> QED
  BY <1>1, <1>2, <1>3, <1>4, <1>5 DEF Next

\* The property is inductive: a process's own INSERT is what it excepts, another's
\* moves the highest rowid past every other cache, and a rehydration reads all rows.
LEMMA StaleStep == StoreTypes /\ StaleOnlyBehindOwnRow /\ [Next]_vars => StaleOnlyBehindOwnRow'
<1> SUFFICES ASSUME StoreTypes, StaleOnlyBehindOwnRow, [Next]_vars,
                    NEW q \in Process, (cache[q].maxRid = MaxRid)', newest' # {q}
             PROVE  RowSet' \subseteq cache'[q].log.entries
  BY DEF StaleOnlyBehindOwnRow
<1>1. CASE CachesGrow
  <2>1. RowSet' = RowSet /\ MaxRid' = MaxRid
    BY <1>1 DEF CachesGrow, RowSet, MaxRid
  <2> QED
    BY <1>1, <2>1 DEF CachesGrow, StaleOnlyBehindOwnRow
<1>2. ASSUME NEW p \in Process, NEW k \in Kind, Rehydrate(p, k)
      PROVE  RowSet' \subseteq cache'[q].log.entries
  <2>1. PICK l : l = LogOf(RowSet)
    OBVIOUS
  <2>2. /\ cache' = [cache EXCEPT ![p] = [log |-> l, maxRid |-> op[p][k].max]]
        /\ UNCHANGED <<rows, newest>>
    BY <1>2, <2>1 DEF Rehydrate
  <2>3. l.entries = RowSet /\ RowSet' = RowSet /\ MaxRid' = MaxRid
    BY <2>1, <2>2 DEF LogOf, RowSet, MaxRid
  <2>4. cache'[q] = IF q = p THEN [log |-> l, maxRid |-> op[p][k].max] ELSE cache[q]
    BY <2>2 DEF StoreTypes, CachesTyped
  <2>5. CASE q = p
    BY <2>3, <2>4, <2>5
  <2>6. CASE q # p
    BY <2>2, <2>3, <2>4, <2>6 DEF StaleOnlyBehindOwnRow
  <2> QED
    BY <2>5, <2>6
<1>3. ASSUME NEW p \in Process, NEW k \in Kind, Insert(p, k)
      PROVE  FALSE
  <2>1. PICK e : e = op[p][k].entry
    OBVIOUS
  <2>2. /\ rows' = Append(rows, e) /\ newest' = {p}
        /\ cache' = [cache EXCEPT ![p].maxRid = Len(rows) + 1]
    BY <1>3, <2>1 DEF Insert
  <2>3. MaxRid' = MaxRid + 1 /\ MaxRid \in Nat
    BY <2>2 DEF StoreTypes, TableTyped, MaxRid
  <2>4. q # p
    BY <2>2
  <2>5. cache'[q] = cache[q] /\ cache[q].maxRid <= MaxRid /\ cache[q].maxRid \in Nat
    BY <2>2, <2>4 DEF StoreTypes, CachesTyped
  <2> QED
    BY <2>3, <2>5
<1>4. ASSUME NEW p \in Process, Restart(p)
      PROVE  RowSet' \subseteq cache'[q].log.entries
  <2>1. /\ cache' = [cache EXCEPT ![p] = [log |-> NewThreadLog, maxRid |-> 0]]
        /\ rows' = rows /\ newest' = newest \ {p}
    BY <1>4 DEF Restart
  <2>2. RowSet' = RowSet /\ MaxRid' = MaxRid
    BY <2>1 DEF RowSet, MaxRid
  <2>3. CASE q = p
    <3>1. MaxRid = 0
      BY <2>1, <2>2, <2>3 DEF StoreTypes, CachesTyped
    <3>2. RowSet = {}
      BY <3>1 DEF StoreTypes, TableTyped, MaxRid, RowSet, RowSetOf
    <3> QED
      BY <2>2, <3>2
  <2>4. CASE q # p
    <3>1. cache'[q] = cache[q]
      BY <2>1, <2>4 DEF StoreTypes, CachesTyped
    <3>2. newest # {q}
      BY <2>1, <2>4
    <3> QED
      BY <2>2, <3>1, <3>2 DEF StaleOnlyBehindOwnRow
  <2> QED
    BY <2>3, <2>4
<1> QED
  BY <1>1, <1>2, <1>3, <1>4, OtherStepsGrow

\* A cache that revalidation accepts lacks rows only if the last row is one that
\* its own process inserted, over another's.
THEOREM ServesUnlessOwnRow == Spec => []StaleOnlyBehindOwnRow
<1>1. Init => StaleOnlyBehindOwnRow
  <2> SUFFICES ASSUME Init, NEW p \in Process, cache[p].maxRid = MaxRid
               PROVE  RowSet \subseteq cache[p].log.entries
    BY DEF StaleOnlyBehindOwnRow
  <2>1. Len(rows) = 0 /\ rows \in Seq(Entry)
    BY StoredAssumption DEF Init, MaxRid
  <2> QED
    BY <2>1 DEF RowSet, RowSetOf
<1> QED
  BY <1>1, StaleStep, CachesWellFormed, PTL DEF Spec

-----------------------------------------------------------------------------
(* Where entries are: stored, in hand or lost.                              *)

\* What a process may have in its cache, and what there is anywhere.
Reached(p) == RowSet \cup InHand(p) \cup lost

Anywhere == RowSet \cup lost \cup UNION {InHand(p) : p \in Process}

\* An ingest neither reads a log nor authors.
IngestAt(o) ==
    \/ o.pc \in {"idle", "admit", "insert"}
    \/ o.pc \in {"revalidate", "load"} /\ o.for = "append"

\* An entry that is about to be inserted has its predecessor somewhere.
InsertsFollow ==
    \A p \in Process, k \in Kind :
        op[p][k].pc = "insert" => Follows(op[p][k].entry, Anywhere)

\* The inductive invariant: what a cache holds is stored, in hand or lost, and so
\* is the predecessor of whatever such a cache has admitted.
HandInv ==
    /\ \A p \in Process : IngestAt(op[p]["ingest"])
    /\ CacheServesOnlyStored
    /\ InsertsFollow
    /\ GapsInHandOrLost

\* Entries do not vanish: they are stored, remain in hand, or are lost.
EntriesStay ==
    /\ \A p \in Process : Reached(p) \subseteq Reached(p)'
    /\ Anywhere \subseteq Anywhere'

\* It is enough that each operation accounts for its own.
LEMMA EachAccounts ==
    ASSUME RowSet \subseteq RowSet', lost \subseteq lost',
           \A p \in Process, k \in Kind :
              Pending(op[p][k], k) \subseteq Pending(op'[p][k], k) \cup lost' \cup RowSet'
    PROVE  EntriesStay
<1>1. ASSUME NEW p \in Process PROVE InHand(p) \subseteq InHand(p)' \cup lost' \cup RowSet'
  BY DEF InHand
<1>2. ASSUME NEW p \in Process PROVE Reached(p) \subseteq Reached(p)'
  BY <1>1 DEF Reached
<1>3. Anywhere \subseteq Anywhere'
  BY <1>1 DEF Anywhere
<1> QED
  BY <1>2, <1>3 DEF EntriesStay

\* A predecessor that is somewhere stays so.
LEMMA FollowsOn ==
    ASSUME NEW e, NEW E, NEW F, E \subseteq F, Follows(e, E)
    PROVE  Follows(e, F)
BY DEF Follows

\* What a step must account for.
LEMMA HandKept ==
    ASSUME HandInv, EntriesStay,
           \A p \in Process : IngestAt(op'[p]["ingest"]),
           \A p \in Process : cache'[p].log.entries \subseteq cache[p].log.entries \cup Reached(p)',
           \A p \in Process, k \in Kind :
              op'[p][k].pc = "insert"
                 => \/ op[p][k].pc = "insert" /\ op'[p][k].entry = op[p][k].entry
                    \/ Follows(op'[p][k].entry, Anywhere'),
           \A e \in RowSet' : e \in RowSet \/ Follows(e, Anywhere')
    PROVE  HandInv'
<1>1. CacheServesOnlyStored'
  BY DEF HandInv, EntriesStay, CacheServesOnlyStored, Reached
<1>2. \A e : Follows(e, Anywhere) => Follows(e, Anywhere')
  <2>1. PICK E, F : E = Anywhere /\ F = Anywhere' /\ E \subseteq F
    BY DEF EntriesStay
  <2>2. \A e : Follows(e, E) => Follows(e, F)
    BY <2>1, FollowsOn
  <2> QED
    BY <2>1, <2>2
<1>3. InsertsFollow'
  BY <1>2 DEF HandInv, InsertsFollow
<1>4. GapsInHandOrLost'
  BY <1>2 DEF HandInv, GapsInHandOrLost, Anywhere
<1> QED
  BY <1>1, <1>3, <1>4 DEF HandInv

\* One operation goes on, to where it does not insert, and no log changes.
LEMMA HandGoesOn ==
    ASSUME HandInv, OpsOK, NEW p \in Process, NEW k \in Kind, NEW o, Goto(p, k, o),
           UNCHANGED <<rows, cache>>, lost \subseteq lost', o.pc # "insert",
           k = "ingest" => IngestAt(o),
           Pending(op[p][k], k) \subseteq Pending(o, k) \cup lost'
    PROVE  HandInv'
<1>1. \A q \in Process, j \in Kind : op'[q][j] = IF q = p /\ j = k THEN o ELSE op[q][j]
  BY DEF OpsOK, Goto
<1>2. RowSet' = RowSet
  BY DEF RowSet
<1>3. EntriesStay
  BY <1>1, <1>2, EachAccounts
<1>4. "ingest" \in Kind
  BY DEF Kind
<1> QED
  BY <1>1, <1>2, <1>3, <1>4, HandKept DEF HandInv

\* Steps that touch neither the table nor a log.
LEMMA HandQuiet ==
    ASSUME HandInv, StoreTypes, NEW p \in Process,
           \/ \E e : StartIngest(p, e)
           \/ \E k \in Kind :
                 \/ StartThread(p, k) \/ Leave(p, k) \/ BuildEntry(p, k) \/ StartAppend(p, k)
                 \/ CacheHit(p, k) \/ CacheMiss(p, k) \/ RehydrateFails(p, k)
                 \/ Refuse(p, k) \/ InsertFails(p, k)
    PROVE  HandInv'
<1>0. OpsOK /\ IngestAt(op[p]["ingest"])
  BY DEF StoreTypes, OpsTyped, HandInv
<1>1. ASSUME NEW e, StartIngest(p, e) PROVE HandInv'
  <2>1. PICK o : o = [pc |-> "revalidate", for |-> "append", entry |-> e]
    OBVIOUS
  <2>2. /\ Goto(p, "ingest", o) /\ op[p]["ingest"] = Nothing
        /\ UNCHANGED <<rows, cache, lost>>
    BY <1>1, <2>1 DEF StartIngest
  <2>3. o.pc # "insert" /\ IngestAt(o) /\ "ingest" \in Kind
    BY <2>1 DEF IngestAt, Kind
  <2>4. Pending(op[p]["ingest"], "ingest") = {}
    BY <2>2, HandlerAssumption DEF Pending, Nothing
  <2> QED
    BY <1>0, <2>2, <2>3, <2>4, HandGoesOn
<1> SUFFICES ASSUME NEW k \in Kind,
                    \/ StartThread(p, k) \/ Leave(p, k) \/ BuildEntry(p, k) \/ StartAppend(p, k)
                    \/ CacheHit(p, k) \/ CacheMiss(p, k) \/ RehydrateFails(p, k)
                    \/ Refuse(p, k) \/ InsertFails(p, k)
             PROVE  HandInv'
  BY <1>1
<1>2. k = "ingest" => IngestAt(op[p][k])
  BY <1>0
<1>3. CASE StartThread(p, k) \/ Leave(p, k) \/ BuildEntry(p, k)
  <2>1. PICK o : /\ Goto(p, k, o) /\ o.pc \in {"revalidate", "idle", "built"}
                 /\ k = "ingest" => IngestAt(o)
    BY <1>2, <1>3, HandlerAssumption DEF StartThread, Leave, BuildEntry, Nothing, IngestAt
  <2>2. UNCHANGED <<rows, cache, lost>>
    BY <1>3 DEF StartThread, Leave, BuildEntry
  <2>3. Pending(op[p][k], k) = {}
    BY <1>3 DEF StartThread, Leave, BuildEntry, Pending, Nothing
  <2> QED
    BY <1>0, <2>1, <2>2, <2>3, HandGoesOn
<1>4. CASE StartAppend(p, k)
  <2>1. PICK o : o = [pc |-> "revalidate", for |-> "append", entry |-> op[p][k].entry]
    OBVIOUS
  <2>2. Goto(p, k, o) /\ UNCHANGED <<rows, cache, lost>> /\ op[p][k].pc = "authored"
    BY <1>4, <2>1 DEF StartAppend
  <2>3. Pending(op[p][k], k) \subseteq Pending(o, k)
    BY <2>1, <2>2 DEF Pending
  <2>4. o.pc # "insert" /\ IngestAt(o)
    BY <2>1 DEF IngestAt
  <2> QED
    BY <1>0, <2>2, <2>3, <2>4, HandGoesOn
<1>5. CASE CacheHit(p, k)
  <2>1. PICK l : l = cache[p].log
    OBVIOUS
  <2>2. PICK o : o = AfterThreadLog(op[p][k], l)
    OBVIOUS
  <2>3. Goto(p, k, o) /\ UNCHANGED <<rows, cache, lost>> /\ op[p][k].pc = "revalidate"
    BY <1>5, <2>1, <2>2 DEF CacheHit
  <2>4. CASE op[p][k].for = "append"
    <3>1. o = [pc |-> "admit", entry |-> op[p][k].entry]
      BY <2>2, <2>4 DEF AfterThreadLog
    <3>2. Pending(op[p][k], k) \subseteq Pending(o, k)
      BY <2>3, <3>1 DEF Pending
    <3>3. o.pc # "insert" /\ IngestAt(o)
      BY <3>1 DEF IngestAt
    <3> QED
      BY <1>0, <2>3, <3>2, <3>3, HandGoesOn
  <2>5. CASE op[p][k].for # "append"
    <3>1. k # "ingest"
      BY <1>2, <2>3, <2>5 DEF IngestAt
    <3>2. o.pc # "insert"
      BY <2>2, <2>5 DEF AfterThreadLog, Nothing
    <3>3. Pending(op[p][k], k) = {}
      BY <2>3, <2>5 DEF Pending
    <3> QED
      BY <1>0, <2>3, <3>1, <3>2, <3>3, HandGoesOn
  <2> QED
    BY <2>4, <2>5
<1>6. CASE CacheMiss(p, k)
  <2>1. CASE op[p][k].for = "append"
    <3>1. PICK o : o = [pc |-> "load", for |-> "append", entry |-> op[p][k].entry, max |-> MaxRid]
      OBVIOUS
    <3>2. Goto(p, k, o) /\ UNCHANGED <<rows, cache, lost>> /\ op[p][k].pc = "revalidate"
      BY <1>6, <2>1, <3>1 DEF CacheMiss
    <3>3. Pending(op[p][k], k) \subseteq Pending(o, k)
      BY <3>1, <3>2, <2>1 DEF Pending
    <3>4. o.pc # "insert" /\ IngestAt(o)
      BY <3>1 DEF IngestAt
    <3> QED
      BY <1>0, <3>2, <3>3, <3>4, HandGoesOn
  <2>2. CASE op[p][k].for # "append"
    <3>1. PICK o : o = [pc |-> "load", for |-> "thread", max |-> MaxRid]
      OBVIOUS
    <3>2. Goto(p, k, o) /\ UNCHANGED <<rows, cache, lost>> /\ op[p][k].pc = "revalidate"
      BY <1>6, <2>2, <3>1 DEF CacheMiss
    <3>3. Pending(op[p][k], k) = {} /\ o.pc # "insert"
      BY <3>1, <3>2, <2>2 DEF Pending
    <3>4. k # "ingest"
      BY <1>2, <3>2, <2>2 DEF IngestAt
    <3> QED
      BY <1>0, <3>2, <3>3, <3>4, HandGoesOn
  <2> QED
    BY <2>1, <2>2
<1>7. CASE RehydrateFails(p, k) \/ Refuse(p, k) \/ InsertFails(p, k)
  <2>1. /\ Goto(p, k, Nothing) /\ UNCHANGED <<rows, cache>>
        /\ lost' = lost \cup Pending(op[p][k], k)
    BY <1>7 DEF RehydrateFails, Refuse, InsertFails, GiveUp
  <2>2. Nothing.pc # "insert" /\ IngestAt(Nothing)
    BY DEF Nothing, IngestAt
  <2>3. lost \subseteq lost' /\ Pending(op[p][k], k) \subseteq Pending(Nothing, k) \cup lost'
    BY <2>1
  <2>4. PICK o : o = Nothing
    OBVIOUS
  <2> QED
    BY <1>0, <2>1, <2>2, <2>3, <2>4, HandGoesOn
<1> QED
  BY <1>3, <1>4, <1>5, <1>6, <1>7

\* What a process's own log may gain.
LEMMA LogGains ==
    ASSUME StoreTypes, NEW p \in Process, NEW l, cache' = [cache EXCEPT ![p].log = l],
           l.entries \subseteq cache[p].log.entries \cup Reached(p)'
    PROVE  \A q \in Process : cache'[q].log.entries \subseteq cache[q].log.entries \cup Reached(q)'
<1>1. cache[p] \in [log : Log, maxRid : Nat]
  BY DEF StoreTypes, CachesTyped
<1>2. [cache[p] EXCEPT !.log = l] = [log |-> l, maxRid |-> cache[p].maxRid]
  BY <1>1
<1>3. \A q \in Process : cache'[q] = IF q = p THEN [log |-> l, maxRid |-> cache[p].maxRid]
                                    ELSE cache[q]
  BY <1>2 DEF StoreTypes, CachesTyped
<1> QED
  BY <1>3

\* Author.Append: what the log gains, the handler has in hand.
LEMMA HandAuthorAppend ==
    ASSUME HandInv, StoreTypes, NEW p \in Process, NEW k \in Kind, AuthorAppend(p, k)
    PROVE  HandInv'
<1>1. PICK o : o = op[p][k]
  OBVIOUS
<1>2. PICK l : l = LogInHand(p, o)
  OBVIOUS
<1>3. PICK m : m = AppendEntry(l, o.entry)
  OBVIOUS
<1>4. PICK grown : grown = [of |-> o.old.of, log |-> m]
  OBVIOUS
<1>5. /\ o.pc = "built" /\ UNCHANGED <<rows, lost>>
      /\ cache' = IF o.old = Cached THEN [cache EXCEPT ![p].log = m] ELSE cache
  BY <1>1, <1>2, <1>3 DEF AuthorAppend
<1>6. OpsOK' /\ \A q \in Process, j \in Kind :
          op'[q][j] = IF q # p THEN op[q][j]
                      ELSE IF j = k
                      THEN IF Admits(l, o.entry)
                           THEN [pc |-> "authored", entry |-> o.entry] ELSE Nothing
                      ELSE IF HasLog(op[p][j]) /\ op[p][j].old = o.old /\ o.old # Cached
                      THEN [op[p][j] EXCEPT !.old = grown]
                      ELSE op[p][j]
  BY <1>1, <1>2, <1>3, <1>4, AuthorAppendOps DEF StoreTypes, OpsTyped
<1>7. k # "ingest" /\ k \in Handler
  BY <1>1, <1>5 DEF HandInv, IngestAt, Kind
<1>8. OldType(grown)
  <2>1. WellFormed(l) /\ HolderType(o)
    BY <1>1, <1>2, <1>5, LogInHandWellFormed DEF HasLog
  <2>2. o.entry \in Entry
    BY <1>5, <2>1 DEF HolderType
  <2> QED
    BY <1>3, <1>4, <2>1, <2>2, AppendWellFormed DEF OldType
<1>9. ASSUME NEW j \in Kind, HasLog(op[p][j])
      PROVE  [op[p][j] EXCEPT !.old = grown].pc = op[p][j].pc
  BY <1>8, <1>9, OpAt, HolderKeeps DEF StoreTypes, OpsTyped
<1>10. \A q \in Process, j \in Kind :
          \/ op'[q][j] = op[q][j]
          \/ q = p /\ j = k /\ op'[q][j].pc # "insert"
          \/ HasLog(op[q][j]) /\ op'[q][j].pc = op[q][j].pc
  <2>1. Nothing.pc # "insert" /\ \A e : [pc |-> "authored", entry |-> e].pc # "insert"
    BY DEF Nothing
  <2> QED
    BY <1>6, <1>9, <2>1
<1>11. EntriesStay
  <2>1. \A q \in Process, j \in Kind :
          Pending(op[q][j], j) \subseteq Pending(op'[q][j], j) \cup lost' \cup RowSet'
    <3>1. \A q \in Process, j \in Kind :
             HasLog(op[q][j]) \/ (q = p /\ j = k) => Pending(op[q][j], j) = {}
      BY <1>1, <1>5 DEF Pending, HasLog
    <3> QED
      BY <1>10, <3>1
  <2> QED
    BY <1>5, <2>1, EachAccounts DEF RowSet
<1>12. m.entries \subseteq l.entries \cup InHand(p)'
  <2>1. CASE Extends(l, o.entry)
    <3>1. op'[p][k] = [pc |-> "authored", entry |-> o.entry]
      BY <1>6, <2>1 DEF Admits
    <3>2. Pending(op'[p][k], k) = {o.entry}
      BY <1>7, <3>1 DEF Pending
    <3>3. o.entry \in InHand(p)'
      BY <3>2 DEF InHand
    <3> QED
      BY <1>3, <3>3, AppendGrows
  <2>2. CASE ~ Extends(l, o.entry)
    BY <1>3, <2>2, AppendGrows
  <2> QED
    BY <2>1, <2>2
<1>13. \A q \in Process : cache'[q].log.entries \subseteq cache[q].log.entries \cup Reached(q)'
  <2>1. CASE o.old = Cached
    <3>1. l = cache[p].log
      BY <1>2, <2>1 DEF LogInHand
    <3>2. m.entries \subseteq cache[p].log.entries \cup Reached(p)'
      BY <1>12, <3>1 DEF Reached
    <3> QED
      BY <1>5, <2>1, <3>2, LogGains
  <2>2. CASE o.old # Cached
    BY <1>5, <2>2
  <2> QED
    BY <2>1, <2>2
<1>14. \A q \in Process : IngestAt(op'[q]["ingest"])
  <2>1. "ingest" \in Kind
    BY DEF Kind
  <2>2. \A q \in Process : op'[q]["ingest"] = op[q]["ingest"] \/ HasLog(op[q]["ingest"])
    BY <1>7, <1>10, <2>1
  <2>3. \A q \in Process : ~ HasLog(op[q]["ingest"]) /\ IngestAt(op[q]["ingest"])
    BY DEF HandInv, IngestAt, HasLog
  <2> QED
    BY <2>2, <2>3
<1>15. \A q \in Process, j \in Kind :
          op'[q][j].pc = "insert" => op[q][j].pc = "insert" /\ op'[q][j].entry = op[q][j].entry
  BY <1>10 DEF HasLog
<1>16. RowSet' = RowSet
  BY <1>5 DEF RowSet
<1> QED
  BY <1>11, <1>13, <1>14, <1>15, <1>16, HandKept

\* Admission: the entry is stored already, or in hand until it is.
LEMMA HandAdmit ==
    ASSUME HandInv, StoreTypes, StoreInv, NEW p \in Process, NEW k \in Kind, AdmitEntry(p, k)
    PROVE  HandInv'
<1>1. PICK e : e = op[p][k].entry
  OBVIOUS
<1>2. PICK c : c = cache[p].log
  OBVIOUS
<1>3. PICK l : l = AppendEntry(c, e)
  OBVIOUS
<1>4. /\ op[p][k].pc = "admit" /\ Admits(c, e) /\ UNCHANGED <<rows, lost>>
      /\ cache' = [cache EXCEPT ![p].log = l]
  BY <1>1, <1>2, <1>3 DEF AdmitEntry
<1>5. RowSet' = RowSet
  BY <1>4 DEF RowSet
<1>6. PICK o : /\ Goto(p, k, o)
               /\ \/ o = Nothing /\ e \in RowSet
                  \/ o = [pc |-> "insert", entry |-> e]
  <2>1. CASE \E r \in RowSet : SameId(r, e)
    <3>1. PICK U : Known(U)
      BY DEF StoreInv
    <3>2. PICK r \in RowSet : SameId(r, e)
      BY <2>1
    <3>3. e \in U
      BY <1>1, <1>4, <3>1 DEF Known, Carries
    <3>4. r \in U
      BY <3>1, <3>2 DEF Known, RowSet, RowSetOf
    <3>5. e \in RowSet
      BY <3>1, <3>2, <3>3, <3>4 DEF Known
    <3>6. Goto(p, k, Nothing)
      BY <1>1, <2>1 DEF AdmitEntry, Return
    <3> QED
      BY <3>5, <3>6
  <2>2. CASE ~ \E r \in RowSet : SameId(r, e)
    BY <1>1, <2>2 DEF AdmitEntry
  <2> QED
    BY <2>1, <2>2
<1>7. \A q \in Process, j \in Kind : op'[q][j] = IF q = p /\ j = k THEN o ELSE op[q][j]
  BY <1>6 DEF Goto, StoreTypes, OpsTyped, OpsOK
<1>8. \/ e \in RowSet
      \/ o = [pc |-> "insert", entry |-> e] /\ Pending(o, k) = {e}
  BY <1>6 DEF Pending
<1>9. EntriesStay
  <2>1. Pending(op[p][k], k) \subseteq {e}
    BY <1>1 DEF Pending
  <2>2. Pending(op[p][k], k) \subseteq Pending(o, k) \cup RowSet
    BY <1>8, <2>1
  <2>3. \A q \in Process, j \in Kind :
          Pending(op[q][j], j) \subseteq Pending(op'[q][j], j) \cup lost' \cup RowSet'
    BY <1>5, <1>7, <2>2
  <2> QED
    BY <1>4, <1>5, <2>3, EachAccounts
<1>10. e \in Reached(p)'
  <2>1. CASE e \in RowSet
    BY <1>5, <2>1 DEF Reached
  <2>2. CASE o = [pc |-> "insert", entry |-> e] /\ Pending(o, k) = {e}
    <3>1. Pending(op'[p][k], k) = {e}
      BY <1>7, <2>2
    <3>2. e \in InHand(p)'
      BY <3>1 DEF InHand
    <3> QED
      BY <3>2 DEF Reached
  <2> QED
    BY <1>8, <2>1, <2>2
<1>11. l.entries \subseteq c.entries \cup Reached(p)'
  BY <1>3, <1>10, AppendGrows
<1>12. l.entries \subseteq Anywhere'
  <2>1. c.entries \subseteq Reached(p)
    BY <1>2 DEF HandInv, CacheServesOnlyStored, Reached
  <2>2. c.entries \subseteq Reached(p)'
    BY <1>9, <2>1 DEF EntriesStay
  <2>3. Reached(p)' \subseteq Anywhere'
    BY DEF Reached, Anywhere
  <2> QED
    BY <1>11, <2>2, <2>3
<1>13. Follows(e, Anywhere')
  <2>1. e \in Entry
    BY <1>1, <1>4, CarriesEntry DEF StoreTypes, OpsTyped, Carries
  <2>2. WellFormed(c)
    BY <1>2 DEF StoreTypes, CachesTyped
  <2>3. WellFormed(l)
    BY <1>3, <2>1, <2>2, AppendWellFormed
  <2>4. e \in l.entries
    BY <1>3, <1>4 DEF Admits, Redelivered, AppendEntry, Admit
  <2>5. PICK E : E = l.entries
    OBVIOUS
  <2>6. Follows(e, E)
    BY <2>3, <2>4, <2>5 DEF WellFormed, Linked, Follows
  <2>7. PICK F : F = Anywhere'
    OBVIOUS
  <2>8. E \subseteq F
    BY <1>12, <2>5, <2>7
  <2>9. Follows(e, F)
    BY <2>6, <2>8, FollowsOn
  <2> QED
    BY <2>7, <2>9
<1>14. \A q \in Process : cache'[q].log.entries \subseteq cache[q].log.entries \cup Reached(q)'
  BY <1>2, <1>4, <1>11, LogGains
<1>15. \A q \in Process : IngestAt(op'[q]["ingest"])
  <2>1. "ingest" \in Kind /\ IngestAt(o)
    BY <1>6 DEF Kind, IngestAt, Nothing
  <2> QED
    BY <1>7, <2>1 DEF HandInv
<1>16. \A q \in Process, j \in Kind :
          op'[q][j].pc = "insert"
            => \/ op[q][j].pc = "insert" /\ op'[q][j].entry = op[q][j].entry
               \/ Follows(op'[q][j].entry, Anywhere')
  <2>1. o.pc = "insert" => o.entry = e
    BY <1>6 DEF Nothing
  <2> QED
    BY <1>7, <1>13, <2>1
<1> QED
  BY <1>5, <1>9, <1>14, <1>15, <1>16, HandKept

\* A row is what was in hand, and follows what was somewhere.
LEMMA HandInsert ==
    ASSUME HandInv, StoreTypes, NEW p \in Process, NEW k \in Kind, Insert(p, k)
    PROVE  HandInv'
<1>1. PICK e : e = op[p][k].entry
  OBVIOUS
<1>2. /\ op[p][k].pc = "insert" /\ rows' = Append(rows, e) /\ lost' = lost
      /\ cache' = [cache EXCEPT ![p].maxRid = Len(rows) + 1] /\ Goto(p, k, Nothing)
  BY <1>1 DEF Insert, Return
<1>3. RowSet' = RowSet \cup {e}
  <2>1. rows \in Seq(Entry) /\ e \in Entry
    BY <1>1, <1>2, CarriesEntry DEF StoreTypes, TableTyped, OpsTyped, Carries
  <2>2. /\ DOMAIN rows' = DOMAIN rows \cup {Len(rows) + 1}
        /\ \A i \in DOMAIN rows : rows'[i] = rows[i]
        /\ rows'[Len(rows) + 1] = e
    BY <1>2, <2>1
  <2> QED
    BY <2>2 DEF RowSet, RowSetOf
<1>4. \A q \in Process, j \in Kind : op'[q][j] = IF q = p /\ j = k THEN Nothing ELSE op[q][j]
  BY <1>2 DEF Goto, StoreTypes, OpsTyped, OpsOK
<1>5. EntriesStay
  <2>1. Pending(op[p][k], k) \subseteq {e}
    BY <1>1 DEF Pending
  <2>2. \A q \in Process, j \in Kind :
          Pending(op[q][j], j) \subseteq Pending(op'[q][j], j) \cup lost' \cup RowSet'
    BY <1>3, <1>4, <2>1
  <2> QED
    BY <1>2, <1>3, <2>2, EachAccounts
<1>6. Follows(e, Anywhere')
  <2>1. PICK E, F : E = Anywhere /\ F = Anywhere' /\ E \subseteq F
    BY <1>5 DEF EntriesStay
  <2>2. Follows(e, E)
    BY <1>1, <1>2, <2>1 DEF HandInv, InsertsFollow
  <2> QED
    BY <2>1, <2>2, FollowsOn
<1>7. \A q \in Process : cache'[q].log = cache[q].log
  BY <1>2 DEF StoreTypes, CachesTyped
<1>8. \A q \in Process : IngestAt(op'[q]["ingest"])
  <2>1. "ingest" \in Kind /\ IngestAt(Nothing)
    BY DEF Kind, IngestAt, Nothing
  <2> QED
    BY <1>4, <2>1 DEF HandInv
<1>9. \A q \in Process, j \in Kind :
          op'[q][j].pc = "insert" => op[q][j].pc = "insert" /\ op'[q][j].entry = op[q][j].entry
  <2>1. Nothing.pc # "insert"
    BY DEF Nothing
  <2> QED
    BY <1>4, <2>1
<1> QED
  BY <1>3, <1>5, <1>6, <1>7, <1>8, <1>9, HandKept

\* A rehydrated log holds the rows, and nothing is forgotten.
LEMMA HandRehydrate ==
    ASSUME HandInv, StoreTypes, NEW p \in Process, NEW k \in Kind, Rehydrate(p, k)
    PROVE  HandInv'
<1>1. PICK goes : goes = AfterThreadLog(op[p][k], LogOf(RowSet))
  OBVIOUS
<1>2. PICK was : was = [of |-> HoldersOfCached(p), log |-> cache[p].log]
  OBVIOUS
<1>3. PICK l : l = LogOf(RowSet)
  OBVIOUS
<1>4. /\ op[p][k].pc = "load" /\ UNCHANGED <<rows, lost>>
      /\ cache' = [cache EXCEPT ![p] = [log |-> l, maxRid |-> op[p][k].max]]
  BY <1>3 DEF Rehydrate
<1>5. RowSet' = RowSet /\ l.entries = RowSet
  BY <1>3, <1>4 DEF RowSet, LogOf
<1>6. \A q \in Process, j \in Kind :
          op'[q][j] = IF q # p THEN op[q][j]
                      ELSE IF j = k THEN goes
                      ELSE IF j \in HoldersOfCached(p) THEN [op[p][j] EXCEPT !.old = was]
                      ELSE op[p][j]
  <2>1. OpsOK /\ CachesTyped
    BY DEF StoreTypes, OpsTyped
  <2> QED
    BY <1>1, <1>2, <2>1, RehydrateOps
<1>7. OldType(was)
  BY <1>2 DEF StoreTypes, CachesTyped, OldType
<1>8. ASSUME NEW j \in Kind, j \in HoldersOfCached(p)
      PROVE  [op[p][j] EXCEPT !.old = was].pc = op[p][j].pc /\ HasLog(op[p][j])
  BY <1>7, <1>8, OpAt, HolderKeeps DEF HoldersOfCached, StoreTypes, OpsTyped
<1>9. \A q \in Process, j \in Kind :
          \/ op'[q][j] = op[q][j]
          \/ q = p /\ j = k /\ op'[q][j] = goes
          \/ HasLog(op[q][j]) /\ op'[q][j].pc = op[q][j].pc
  BY <1>6, <1>8
<1>10. /\ goes.pc # "insert"
       /\ k = "ingest" => IngestAt(goes)
       /\ Pending(op[p][k], k) \subseteq Pending(goes, k)
  <2>1. CASE op[p][k].for = "append"
    <3>1. goes = [pc |-> "admit", entry |-> op[p][k].entry]
      BY <1>1, <2>1 DEF AfterThreadLog
    <3> QED
      BY <1>4, <2>1, <3>1 DEF Pending, IngestAt
  <2>2. CASE op[p][k].for # "append"
    <3>1. goes.pc # "insert"
      BY <1>1, <2>2 DEF AfterThreadLog, Nothing
    <3>2. Pending(op[p][k], k) = {}
      BY <1>4, <2>2 DEF Pending
    <3>3. k # "ingest"
      BY <1>4, <2>2 DEF HandInv, IngestAt
    <3> QED
      BY <3>1, <3>2, <3>3
  <2> QED
    BY <2>1, <2>2
<1>11. EntriesStay
  <2>1. \A q \in Process, j \in Kind : HasLog(op[q][j]) => Pending(op[q][j], j) = {}
    BY DEF HasLog, Pending
  <2>2. \A q \in Process, j \in Kind :
          Pending(op[q][j], j) \subseteq Pending(op'[q][j], j) \cup lost' \cup RowSet'
    BY <1>9, <1>10, <2>1
  <2> QED
    BY <1>4, <1>5, <2>2, EachAccounts
<1>12. \A q \in Process : cache'[q].log.entries \subseteq cache[q].log.entries \cup Reached(q)'
  <2>1. \A q \in Process : cache'[q] = IF q = p THEN [log |-> l, maxRid |-> op[p][k].max]
                                      ELSE cache[q]
    BY <1>4 DEF StoreTypes, CachesTyped
  <2>2. RowSet \subseteq Reached(p)'
    BY <1>5 DEF Reached
  <2> QED
    BY <1>5, <2>1, <2>2
<1>13. \A q \in Process : IngestAt(op'[q]["ingest"])
  <2>1. "ingest" \in Kind
    BY DEF Kind
  <2>2. \A q \in Process : ~ HasLog(op[q]["ingest"]) /\ IngestAt(op[q]["ingest"])
    BY DEF HandInv, IngestAt, HasLog
  <2> QED
    BY <1>9, <1>10, <2>1, <2>2
<1>14. \A q \in Process, j \in Kind :
          op'[q][j].pc = "insert" => op[q][j].pc = "insert" /\ op'[q][j].entry = op[q][j].entry
  BY <1>9, <1>10 DEF HasLog
<1> QED
  BY <1>5, <1>11, <1>12, <1>13, <1>14, HandKept

\* A process that ends loses what it had in hand.
LEMMA HandRestart ==
    ASSUME HandInv, StoreTypes, NEW p \in Process, Restart(p)
    PROVE  HandInv'
<1>1. /\ cache' = [cache EXCEPT ![p] = [log |-> NewThreadLog, maxRid |-> 0]]
      /\ rows' = rows /\ lost' = lost \cup InHand(p)
  BY DEF Restart
<1>2. \A q \in Process, j \in Kind : op'[q][j] = IF q = p THEN Nothing ELSE op[q][j]
  BY DEF Restart, StoreTypes, OpsTyped, OpsOK
<1>3. RowSet' = RowSet
  BY <1>1 DEF RowSet
<1>4. EntriesStay
  <2>1. \A q \in Process, j \in Kind :
          Pending(op[q][j], j) \subseteq Pending(op'[q][j], j) \cup lost' \cup RowSet'
    BY <1>1, <1>2 DEF InHand
  <2> QED
    BY <1>1, <1>3, <2>1, EachAccounts
<1>5. \A q \in Process : cache'[q].log.entries \subseteq cache[q].log.entries \cup Reached(q)'
  <2>1. \A q \in Process : cache'[q] = IF q = p THEN [log |-> NewThreadLog, maxRid |-> 0]
                                      ELSE cache[q]
    BY <1>1 DEF StoreTypes, CachesTyped
  <2>2. NewThreadLog.entries = {}
    BY DEF NewThreadLog
  <2> QED
    BY <2>1, <2>2
<1>6. Nothing.pc # "insert" /\ IngestAt(Nothing) /\ "ingest" \in Kind
  BY DEF Nothing, IngestAt, Kind
<1>7. \A q \in Process : IngestAt(op'[q]["ingest"])
  BY <1>2, <1>6 DEF HandInv
<1>8. \A q \in Process, j \in Kind :
          op'[q][j].pc = "insert" => op[q][j].pc = "insert" /\ op'[q][j].entry = op[q][j].entry
  BY <1>2, <1>6
<1> QED
  BY <1>3, <1>4, <1>5, <1>7, <1>8, HandKept

\* The invariant is inductive.
LEMMA HandStep == HandInv /\ StoreTypes /\ StoreInv /\ [Next]_vars => HandInv'
<1> SUFFICES ASSUME HandInv, StoreTypes, StoreInv, [Next]_vars PROVE HandInv'
  OBVIOUS
<1>1. CASE UNCHANGED vars
  <2>1. RowSet' = RowSet /\ (\A p \in Process : InHand(p)' = InHand(p)) /\ Anywhere' = Anywhere
    BY <1>1 DEF vars, RowSet, InHand, Anywhere
  <2> QED
    BY <1>1, <2>1 DEF vars, HandInv, CacheServesOnlyStored, InsertsFollow, GapsInHandOrLost, Anywhere
<1>2. ASSUME NEW p \in Process, NEW e \in Remote, StartIngest(p, e) PROVE HandInv'
  BY <1>2, HandQuiet
<1>3. ASSUME NEW p \in Process, NEW k \in Kind,
             \/ StartThread(p, k) \/ Leave(p, k) \/ BuildEntry(p, k) \/ StartAppend(p, k)
             \/ CacheHit(p, k) \/ CacheMiss(p, k) \/ RehydrateFails(p, k)
             \/ Refuse(p, k) \/ InsertFails(p, k)
      PROVE  HandInv'
  BY <1>3, HandQuiet
<1>4. ASSUME NEW p \in Process, NEW k \in Kind,
             AuthorAppend(p, k) \/ AdmitEntry(p, k) \/ Insert(p, k) \/ Rehydrate(p, k)
      PROVE  HandInv'
  BY <1>4, HandAuthorAppend, HandAdmit, HandInsert, HandRehydrate
<1>5. ASSUME NEW p \in Process, Restart(p) PROVE HandInv'
  BY <1>5, HandRestart
<1> QED
  BY <1>1, <1>2, <1>3, <1>4, <1>5 DEF Next

\* The rows that the database starts with load; nothing is in hand.
LEMMA HandInit == Init => HandInv
<1> SUFFICES ASSUME Init PROVE HandInv
  OBVIOUS
<1>1. \A p \in Process, k \in Kind : op[p][k] = Nothing
  BY DEF Init
<1>2. \A p \in Process : IngestAt(op[p]["ingest"])
  BY <1>1 DEF Kind, IngestAt, Nothing
<1>3. CacheServesOnlyStored
  <2>1. NewThreadLog.entries = {}
    BY DEF NewThreadLog
  <2> QED
    BY <2>1 DEF Init, CacheServesOnlyStored
<1>4. InsertsFollow
  BY <1>1 DEF InsertsFollow, Nothing
<1>5. GapsInHandOrLost
  <2>1. PICK E : E = RowSet
    OBVIOUS
  <2>2. \A e \in E : Follows(e, E)
    BY <2>1, StoredAssumption DEF Init, RowSet, Loadable
  <2>3. PICK F : F = RowSet \cup lost \cup UNION {InHand(p) : p \in Process}
    OBVIOUS
  <2>4. \A e \in E : Follows(e, F)
    BY <2>1, <2>2, <2>3, FollowsOn
  <2> QED
    BY <2>1, <2>3, <2>4 DEF GapsInHandOrLost
<1> QED
  BY <1>2, <1>3, <1>4, <1>5 DEF HandInv

\* A cache holds what is stored, what its process has in hand, and what was lost.
THEOREM CachesInventNothing == Spec => []CacheServesOnlyStored
<1>1. HandInv => CacheServesOnlyStored
  BY DEF HandInv
<1> QED
  BY <1>1, HandInit, HandStep, CachesWellFormed, StoreInvariant, PTL DEF Spec

\* Only a missing entry that is on its way, or was lost, leaves a gap in the table.
THEOREM GapsExplained == Spec => []GapsInHandOrLost
<1>1. HandInv => GapsInHandOrLost
  BY DEF HandInv
<1> QED
  BY <1>1, HandInit, HandStep, CachesWellFormed, StoreInvariant, PTL DEF Spec

-----------------------------------------------------------------------------
(* What can be loaded.                                                      *)

\* UNIQUE(id) and UNIQUE(thread, author, lane, seq), of the table as it stands.
RowsDistinct ==
    \A e, f \in RowSet : (SameId(e, f) \/ (ChainOf(e) = ChainOf(f) /\ e.seq = f.seq)) => e = f

\* The database starts so, and an INSERT that conflicts rolls back.
LEMMA DistinctInit == Init => RowsDistinct
BY StoredAssumption DEF Init, RowsDistinct, RowSet, Loadable

\* Only Insert writes the table.
LEMMA DistinctStep == TableTyped /\ RowsDistinct /\ [Next]_vars => RowsDistinct'
<1> SUFFICES ASSUME TableTyped, RowsDistinct, [Next]_vars PROVE RowsDistinct'
  OBVIOUS
<1>1. CASE UNCHANGED rows
  BY <1>1 DEF RowsDistinct, RowSet
<1>2. ASSUME NEW p \in Process, NEW k \in Kind, Insert(p, k) PROVE RowsDistinct'
  <2>1. PICK e : e = op[p][k].entry
    OBVIOUS
  <2>2. ~ Conflicts(e) /\ rows' = Append(rows, e)
    BY <1>2, <2>1 DEF Insert
  <2>3. RowSet' = RowSet \cup {e}
    BY <2>2 DEF RowSet, RowSetOf, TableTyped
  <2>4. \A r \in RowSet : ~ SameId(r, e) /\ ~ SameId(e, r)
                          /\ ~ (ChainOf(r) = ChainOf(e) /\ r.seq = e.seq)
    BY <2>2 DEF Conflicts, SameId
  <2>5. \A f, g \in RowSet \cup {e} :
           (SameId(f, g) \/ (ChainOf(f) = ChainOf(g) /\ f.seq = g.seq)) => f = g
    BY <2>4 DEF RowsDistinct
  <2> QED
    BY <2>3, <2>5 DEF RowsDistinct
<1>3. \A p \in Process, k \in Kind :
         StartThread(p, k) \/ Leave(p, k) \/ BuildEntry(p, k) \/ AuthorAppend(p, k) => UNCHANGED rows
  BY DEF StartThread, Leave, BuildEntry, AuthorAppend
<1>4. \A p \in Process, k \in Kind :
         StartAppend(p, k) \/ CacheHit(p, k) \/ CacheMiss(p, k) \/ Rehydrate(p, k) => UNCHANGED rows
  BY DEF StartAppend, CacheHit, CacheMiss, Rehydrate
<1>5. \A p \in Process, k \in Kind :
         RehydrateFails(p, k) \/ Refuse(p, k) \/ AdmitEntry(p, k) \/ InsertFails(p, k)
           => UNCHANGED rows
  BY DEF RehydrateFails, Refuse, AdmitEntry, InsertFails, GiveUp
<1>6. \A p \in Process : Restart(p) \/ (\E e \in Remote : StartIngest(p, e)) => UNCHANGED rows
  BY DEF Restart, StartIngest
<1>7. UNCHANGED vars => UNCHANGED rows
  BY DEF vars
<1> QED
  BY <1>1, <1>2, <1>3, <1>4, <1>5, <1>6, <1>7 DEF Next

\* A table loads, whatever has interleaved, died or failed, as long as every entry
\* that was admitted in memory, and is no longer on its way, has been stored: an
\* entry in hand or lost is the only thing that StaysLoadable can fall with.
THEOREM LoadsUnlessLost ==
    Spec => [](lost \cup UNION {InHand(p) : p \in Process} \subseteq RowSet => Loadable(RowSet))
<1>1. RowsDistinct /\ GapsInHandOrLost
        => (lost \cup UNION {InHand(p) : p \in Process} \subseteq RowSet => Loadable(RowSet))
  <2> SUFFICES ASSUME RowsDistinct, GapsInHandOrLost,
                      lost \cup UNION {InHand(p) : p \in Process} \subseteq RowSet
               PROVE  Loadable(RowSet)
    OBVIOUS
  <2>1. PICK U : U = UNION {InHand(p) : p \in Process}
    OBVIOUS
  <2>2. lost \cup U \subseteq RowSet
    BY <2>1
  <2>3. \A e \in RowSet : Follows(e, RowSet \cup lost \cup U)
    BY <2>1 DEF GapsInHandOrLost
  <2>4. RowSet \cup lost \cup U = RowSet
    BY <2>2
  <2>5. \A e \in RowSet : Follows(e, RowSet)
    BY <2>3, <2>4
  <2> QED
    BY <2>5 DEF Loadable, RowsDistinct
<1>2. StoreTypes => TableTyped
  BY DEF StoreTypes
<1> QED
  BY <1>1, <1>2, DistinctInit, DistinctStep, CachesWellFormed, GapsExplained, PTL DEF Spec

=============================================================================
