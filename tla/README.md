# Verification of lamdis

TLA+ modules for the node of the Lamdis Protocol (`src/node`), their TLC
instances, and theorems about them checked with TLAPS.  Line numbers are those
of the sources next to this directory.

## 1. The system

A *thread* is a set of immutable signed entries, one hash chain for each
(author, lane).  Nodes keep threads in SQLite, exchange what they lack by
version vectors, and decide who may see and write what by folding the thread's
own control lane.

| part | state | operations | what makes it correct |
|---|---|---|---|
| `internal/log` | heads of the chains, entries in total order, highest lamport | `Append`, `Author.Append`, `NewThreadWith`, `Heads`, `After`, `Less`, validation and canonical encoding | chains without gaps and forks; version vectors describe logs; the clock respects causality |
| `internal/perm` | `State`, folded anew at every use | `Fold`/`apply`, `EffectiveScopes`, `Lanes`, `MayContribute`, `ActsFor`, `PendingRequests` | denies beat grants; no scope outlives its grant; one window of writing; a steward remains |
| `internal/store` | table `entries`, cached logs with the highest rowid, vectors and their dimension | `Thread`, `threadLog`, `AppendEntries`, `Entries`, `Search`, `UpsertVector`, `PendingEmbeds` | what is acknowledged is stored; a cache that revalidation accepts is current; nothing is missing from the table but what is on its way or was lost |
| `internal/sync` | none of its own between calls | server: `List`, `Pull`, `Push`, `Discover`, `SubmitAccessRequest`; client: `SyncAll`, `SyncThread`, `ShareThread`, `pushBack` | everything permitted arrives, nothing else does, whatever breaks off |
| `internal/api` | none | request signing and its freshness window, HTTP handlers, transport, portal | each call is made on behalf of the caller who signed it |
| `internal/embed` | none; the pending queue is a query over the store | `Tick`, `Embed` | every entry with text gets its own vector |
| `internal/mcp`, `cmd/lamdis` | `person.key`, `peers.json`, the MCP server's copy of it | posts, decisions, requests, approvals, sync rounds, search | a decision is the person's and is about the thread and the principal that was named |

How they interact: commands, portal and MCP tools take the log from
`Store.Thread`, author into it, and hand the entry to `Store.AppendEntries`;
the sync client does the same with entries from a peer, the sync server with
entries from its callers.  The thread log that `Thread` returns is the cached
object itself, and the portal and the MCP server handle requests concurrently, so
several may be authoring on it at a time.  Several processes (serve, watch, MCP, commands) share one
database file and one key, and each remembers the vector dimension that it found
when it opened the file.  `sync -watch` syncs with every configured peer and
then drains the embedding queue; `search` and `search_context` drain it before
they search.

What is hard: interleavings of requests and of processes on one database; a cache that is
revalidated by a single number; checks and appends in separate calls;
concurrent decisions of stewards; sessions that break off after part of a
batch; errors that end a session before it pushes; a queue that several
processes drain at once.  `PROJECT.json` lists the
hazards at their lines, with the properties that cover them.

## 2. Modules

    ThreadLog ── LogReplicas ── MCLogReplicas       (proofs: ThreadLogProofs, LogReplicasProofs)
        ├────── Perm ──┬── PermFold ── MCPermFold   (proofs: PermFoldProofs)
        │              └── Sync ────── MCSync       (proofs: SyncProofs)
        └────── Store ──── MCStore                  (proofs: StoreProofs)
    Embed ──── Watch ───── MCWatch                  (proofs: WatchProofs)
    Search ─── MCSearch                             (proofs: SearchProofs)
    Pairing ── MCPairing                            (proofs: PairingProofs)

    VersionVectors, implemented by LogReplicas and by Sync

- **ThreadLog** — data and operators of `log.go`, no state.  Principals are
  numbers in the order of their keys; the pair (author, id) stands for the
  ULID and for the hash (hashes do not collide).  A log is the record
  `[heads, entries, lamport]`.  `Extends` is the switch of `Append`,
  `AppendEntry` its effect, `NextEntry` is `Author.Append`, `Genesis` is
  `NewThreadWith`.  Signatures are not modelled: an entry is what its author
  made, which `Validate` establishes.
- **LogReplicas** — one log per node; authors write, and any entry ever
  written may arrive at any node, in any order, any number of times or never.
- **VersionVectors** — the abstract specification of replication: a node
  writes at the end of a chain that it holds in full, or comes to hold a longer
  prefix of what was written.  It knows no logs, no batches and no lanes.  Under
  the refinement mappings of `LogReplicas` and `Sync` the vector of a node is
  the `Heads` of its log, so every step of theirs, a batch that broke off
  included, must be a step of this kind or change nothing of it.
- **Perm** — `perm.go` as operators: one `Apply...` for each kind, `Fold`, and
  the questions asked of a `State`.  An absent key of a Go map is `{}`, `NoOne`
  or 0; lamports and times are positive.
- **PermFold** — the fold as a machine that takes control entries in total
  order, any subset of a set of candidates, with the history of the requests and of
  the decisions that took effect.  Every state is the `State` of some replica, so an
  invariant is a statement about every possible control lane.
- **Store** — the table, and for each process its cached log, its mutex, an ingesting
  operation and any number of *handlers*, requests that author.  They are cut at
  every SQL statement and at every access to the log: `StartThread` and `StartAppend`
  take the mutex, `CacheHit`/`CacheMiss` is `SELECT max(rid)`, `Rehydrate` the
  `SELECT raw`, `AdmitEntry` the `Append` and `SELECT 1`, `Insert` the transaction.
  `BuildEntry` and `AuthorAppend` are the two halves of `Author.Append`, which takes
  no mutex: between them other handlers read or change the same log.  A handler has
  the cached log itself, or, when a rehydration has replaced that, one it shares with
  the handlers that were given the same (`of`).  `lost` remembers the entries that an
  operation admitted in memory and ended without having stored.
- **Sync** — the thread's log at each node and one client session per node.
  `StartSync`, `ServeLanes`, `ServeEntries`, `IngestControl`, `JudgePulled`,
  `IngestRest`, `PushBack`, `JudgePush`, `AppendPush` are `SyncThread` and the
  server calls in it, cut wherever the code calls the peer or the store;
  `StartShare`, `ServeShareLanes`, `ServeHeads` and `OfferOwn` are `ShareThread`.
  `Lose` ends a session at any point; if a batch was being appended, any
  prefix of it is committed, because `AppendEntries` commits entry by entry.
  `NewThread`, `Post`, `Decide`, `Approve`, `SubmitAccessRequest` are the
  commands.  `Denies`, `Grants` and `Removals` read the decisions out of a log without
  what the fold keeps of them; `InWindow` and `LaneOpen`, which the properties are
  about, are made of these.  `WrittenAt` lists at which node each chain is written; `OneHome`
  says that no chain is written at two.
- **Embed** — the tables `entries` (as text or no text) and `vectors`, the
  dimension in `meta` and in each process, and one drain per process, with the
  search that may follow it, cut at every statement and call: `Tick` is `PendingEmbeds`, `EmbedBatch` the
  call of the service, `EnsureDim` and `UpsertVector` the statements of
  `UpsertVector` for one entry after the other.  An answer may name its vectors
  in any order; a call fails or a process is replaced at any point, `MaxLost`
  times.  `Dim[p]` is the dimension of the model p is configured with.
- **Watch** — the rounds over all peers and threads, on top of `Embed`.  What
  `Sync` opens up is one step here, `SyncThread`, which succeeds or fails; a
  thread in `Broken` always fails.  `SyncAll` gives up a peer at its first
  failing thread (`SyncThreadFails`), the round goes on with the next peer, and
  a watcher drains the queue when it ends (`EndRound`).  `Post` and
  `SearchContext` are the tools of the MCP server; the drain after the
  command `post` is `Post` and then `StartDrain`.
- **Search** — `SQLite.Search` for any ranking of the text index and any
  similarities of the vector index: scope, cut, fusion, sorting.  Scores are
  rationals.  `InOrder` is what `ORDER BY` and `sort.Slice` leave of a strict order.
  `Sort` takes the merged hits in any order, as a Go map yields them.
- **Pairing** — `peers.json` and the commands that read and rewrite it.  `peer add` is `AddPeer` (`loadPeers`), `FetchNodeInfo`,
  `Truncate` and `Write`: `os.WriteFile` empties the file and then writes from
  its start, so what overlapping writes leave may be whole or garbled.  Nodes
  come, go and are replaced (`NodeChanges`); commands are killed anywhere.

Definitions that begin with the comment `Mutant of` are plausible bugs in the
definition that follows; with one of them in its place some property fails
(`PROJECT.json`, "mutants").  Nothing else uses them.

## 3. Runs

| run | instance | shows |
|---|---|---|
| `MCLogReplicas` | 2 principals, 3 entries each, 3 lanes, fair redelivery | intact chains, no forks, vectors that describe their logs, order along chains, the inductive invariant, the refinement of `VersionVectors`, convergence |
| `MCPermFold` | 3 principals, lamports 1–5, two possible stewards, delegation, requests, grants with and without expiry | the fold agrees with the decisions |
| `MCStore` | two processes, one with two authoring handlers, the other with one and with ingest; INSERTs that fail, restarts at any step | acknowledged entries are stored; a valid cache is stale only behind its own row; no cache invents entries; every gap is of an entry on its way or lost |
| `MCSync` | owner, collaborator, hub; full and summary grants, revocation, posts, one lost session | batches fit, others' writing is accepted only within their window, clients get only open lanes, the refinement of `VersionVectors` |
| `MCSync_Relay` | the same with request, approval and posts, no revocation, under fairness | everything permitted arrives |
| `MCWatch` | a `sync -watch` and an MCP server on one database, a peer whose second thread always fails and one that is fine, one entry already waiting, one written, one call or process lost, under fairness | vectors are of their entries; threads in reach are synced whatever fails; every entry with text is embedded; a search after its drain has a vector for all it was asked about |
| `MCPairing` | two commands, 2 names, 2 URLs, 2 principals, 3 pairings, peers that are down or replaced, kills at any point | a name means who was paired under it; pairings that do not overlap are kept |
| `MCSearch` | 4 entries in 2 threads, 2 lanes, 2 kinds; every ranking and similarity with ties; K from 1 to 3 | the answer is the best K by rank fusion, and respects what both indexes agree on |

The bounds: two replicas suffice for forks and for gaps, three entries for a
chain with a middle; five lamports hold grant, revoke and grant after the
genesis and a promotion, at equal and different lamports; three authored entries
let one be lost, followed and followed again, and three handlers in two processes
let two share a log while a third competes with them for a position; three nodes
are a relay with both of its ends.  In `MCWatch` the entry that waits and the one that arrives make a batch of two, so that an answer has an
order, and two drains that read the same queue; the broken thread has one before
it, which must be reached, and a peer after it.  The
pairings in `MCPairing` overlap, or follow each other under one name or two, at
one URL or two.  In `MCSearch` lists are longer,
equal to and shorter than K.  Runs whose processes may
come to an end (a control lane that has ended, users who have used up their
entries) have deadlock checking off.

Disagreements between code and documentation, each with a run that TLC ends
with a counterexample (`PROJECT.json`, "findings", quotes the lines):

| run | what happens |
|---|---|
| `MCPermFold_HolderMayWrite` | after grant, revoke, grant, the holder of contribute may not write |
| `MCStore_TwoWriters` | two authoring processes make the stored thread corrupt |
| `MCStore_TwoRequests` | two concurrent requests of one process and its end at the wrong moment make the stored thread corrupt |
| `MCSync_Revoked` | a post that crosses a revocation stops the owner's sync for ever |

More behaviours of the same kind follow from the models and have no run of their
own:

- a core.thread entry of anyone adds the stewards it names, whenever it is written
  (`perm.go:146-157`), where `perm.go:3-4` says that "only person-signed entries by
  stewards change anything"; `Push` would refuse it (`sync.go:178`), but a client
  appends what control entries it pulls;
- an access request counts for the principal it names (`perm.go:212-215`), whether or
  not its author acts for them, where `perm.go:203-204` says "for themselves (or their
  person, when a delegated agent asks on their behalf)"; `SubmitAccessRequest` looks at
  the author alone (`sync.go:238`).  `RequestsAwaitDecision` therefore says what
  becomes of the latest request in somebody's name, not who may file one;
- of two stewards one may be bound as the other's agent (`perm.go:184-200`), and once
  the other is removed nobody can decide (`perm.go:133-142`): `StewardsNeverVanish` says
  that a steward remains;
- a second deny or revoke moves the end of a contribution window up
  (`perm.go:271`), so entries between the two, refused before, become
  ingestible;
- a steward who has not seen a deny and grants with a higher lamport overrules
  it (`perm.go:229`), where `README.md:146` and `spec/protocol.md:81-82` say that
  denies win;
- a request that is filed after a revoke has lamport 1 (`sync.go:266`), sorts
  before the revoke and never becomes pending;
- a requester who asks two servers writes seq 1 of their control chain twice
  (`sync.go:264`); each log refuses the other's entry;
- `Push` judges a batch by a fold (`sync.go:168`) and appends it later
  (`sync.go:189`), and so does the client (`sync.go:348`, `:354`): a revocation appended
  in between does not count, where `spec/protocol.md:67-68` wants every author within
  their window.  `OnlyContributors` holds each batch to the log at the moment of
  judgement;
- `Pull` reads the thread twice, for the lanes (`sync.go:108`) and for the entries
  (`sync.go:124`): an entry written after a revoke, between the two reads, is still sent,
  where `README.md:72-73` says that entries a peer is not entitled to "are never
  sent".  `LanesConfined` holds an answer to the lanes open at the first read;
- stewards' control entries are accepted by `Push` (`sync.go:177-180`), where
  `spec/protocol.md:68-69` says that "only summary and content lanes are remotely
  writable"; the comment at `sync.go:141-146` has it right;
- when an INSERT fails, the cached log keeps the entry that `Append` had admitted
  (`sqlite.go:139`), and the next one of its chain is stored behind a gap;
- a row committed by another process between `SELECT max(rid)` and this
  process's own `INSERT` stays invisible to it until somebody else inserts
  (`sqlite.go:187`), where `sqlite.go:25-26` says that "every cache read revalidates":
  the exception in `StaleOnlyBehindOwnRow`, and the step in `MCStore_TwoWriters` that
  makes a corrupt thread possible;
- two requests that author at the same position of one log: one is refused in
  memory, which is an error to its caller (`log.go:200`), though nothing was wrong
  with it;
- a process looks at vectors only if it knows of a dimension (`sqlite.go:381`),
  which it reads when it opens the database and else sets when it stores a vector
  itself: an MCP server that was started before another process stored the first
  one searches without vectors as long as the other one does the embedding, where
  `mcp/server.go:151` says "Hybrid semantic + full-text search";
- the MCP server and `sync -watch` read `peers.json` once (`main.go:152`, `:445`):
  a peer added later is left out, where `mcp/server.go:255` says "Sync with every
  configured peer";
- threads listed behind one that always fails are never synced with that peer
  (`sync.go:302`), which is what `Unreachable` in `PeersReached` says;
- of two `peer add` at the same time one pairing is lost (`main.go:277`); one that
  is killed between truncation and write leaves a `peers.json` that every later
  command, `peer add` included, refuses as corrupt (`main.go:274`); pairing again
  with a peer that is down forgets its identity (`main.go:283-292`);
- where the configured model has another dimension than the database, each
  drain ends at the first entry it would store (`sqlite.go:273`,
  `embed.go:135`) and the queue stands still; two processes that each fix a
  dimension of their own (`sqlite.go:270`) store vectors of both.

### Fairness

`LogReplicas`: an entry that a node would admit is offered to it again and
again, since every round of `sync -watch` starts from the heads.  `Sync`:
strong fairness of `StartSync` for each pair, because a round starts a session
with every peer, whatever came of the last one (`main.go:459-486`), and weak
fairness of the steps of a session; losses are bounded, so sessions complete
eventually.  Nothing is assumed of users, nor of `share`.  `Watch`: weak
fairness of the watcher alone - its ticker starts a round when the last has
ended (`main.go:477-487`), and the calls of a round and of a drain return, if
with an error, because the clients have a timeout (`api.go`, `embed.go`).  The
MCP server may stop at any point and nothing is assumed of it.

## 4. Proofs

For all principals, drafts, candidates and bounds:

- **ThreadLogProofs** — `AppendWellFormed`: `Append` keeps a log well formed
  for any entry it is handed.  It is the lemma of everything about logs.
- **LogReplicasProofs** — `ReplicaInv` is inductive.  `NoForks` alone is not: a
  fork is excluded because an author's own log holds everything the author
  wrote (so `seq` and `prev` are chosen from the whole chain) and every log
  holds only what was written.  From it follow `NoForks`, `ChainsIntact`,
  `ChainsSorted` and `AppendOnly`.  `VersionVectorsSound` shows that a log holds
  of each chain exactly the written entries up to the head in its vector, by
  contiguity and the absence of forks; `Refinement` shows from it that each
  `Publish`, `NewThread` and `Receive` is a step of `VersionVectors`.
- **PermFoldProofs** — `FoldInv` is inductive: `deniedAt` is the latest deny,
  `contribAt` the earliest grant of contribute, and a grant in force is the
  latest and above every deny.  From it follow `DenyBeatsGrant`,
  `LatestGrantInForce` and `WindowExact`; `StewardsNeverVanish` follows from
  the actions.  `RequestsAreAnswered` takes an invariant of its own: the requests and
  the decisions folded so far sort no later than the entry applied last, so a
  decision comes after every request it finds, and a request after every decision.
- **StoreProofs** — everything that the run of `Store` checks, for any number of
  processes and of handlers, any entries that arrive, failures and restarts; no
  hypothesis says how many author.  `RehydratedWellFormed` is the lemma about
  `threadLog`; with it every log in memory is well formed (`CachesWellFormed`), though
  rows may not load at all.  `AckedIsStored` is not inductive alone: `AppendEntries` takes
  an entry for stored when the table has its id, so `StoreInvariant` says that an id
  names one entry in the table, at the peers and in every operation under way, and
  that the ids the node has given out are counted.  `MutexHeld` is about `SQLite.mu`.
  `ServesUnlessOwnRow`: a cached log is replaced whole or grows, and `maxRid` reaches
  that of the table only by a rehydration or by an `INSERT` of one's own.
  `CachesInventNothing` and `GapsExplained` share an invariant (`HandInv`): whatever a
  cache holds is stored, in hand or lost, and so is the predecessor of whatever is to
  be inserted, which a cache has admitted.  From the last and the
  distinctness of rows follows `LoadsUnlessLost`: where nothing was lost and
  nothing is on its way, the table loads.  `StaysLoadable` itself does not hold, with two
  processes or with one.
- **SyncProofs** — everything that the runs of `Sync` check, but for `Relayed`,
  for any principals, links, decisions and losses.
  `OnlyContributorsWrite` and `PullersAreConfined` rest on `FoldDecides`: what a folded
  `State` keeps of a principal - the latest deny, the start of the window, the scopes -
  is what `Denies`, `Grants` and `Removals` say of the entries folded.  Its induction
  goes along the total order: an entry is applied to the fold of exactly those that
  sort before it, so the fold's own test of whether its author may decide is
  `CouldDecide`.  The rest follows the entries of a session from step to step: where
  a batch was judged, whom an answer was read for, and that nothing but such a batch
  reaches a log.  Both take no hypothesis.
  The other two presuppose `OneHome`, because the code forks chains without it: who
  asks two servers, or asks and also decides, writes the same position of
  their control chain twice (`sync.go:264`), and then a batch is refused by the
  log that has the other entry.  `SessionsRefine`: an entry is held at the home of its
  chain before it is anywhere else, so who writes holds the whole chain, and
  every other step moves a node along what is written.  `NothingRefused`: the vectors
  that travel are behind the logs they came from, so a batch has no gap for
  its receiver, whatever arrived from elsewhere in between; and `BatchFits`
  shows of any batch without gaps and forks that the order of `orderForAppend`
  appends it whole.
- **WatchProofs** — type correctness, `VectorsOfTheirEntries` and `SearchAfterDrain`,
  for any processes, peers, dimensions and batch sizes.  The strengthening speaks of
  what each drain has in hand; it survives the steps of the others because rows
  and vectors are never removed; that an empty first batch is an empty queue
  takes the least element of a set of rowids.
- **PairingProofs** — type correctness, `NamesMeanWhoWasPaired` and `PairingsKept`, for
  any commands, names and principals.  The invariant says the first of every copy
  of the file that a command holds, however old: what was served stays so.  For the
  second, a command that nobody overlapped holds a copy that is still the file,
  and what it is about to write is what will have been paired.
- **SearchProofs** — everything that the run of `Search` checks, for any entries,
  rankings, similarities, requests and K.  `TextCandidates` and `VectorCandidates`:
  each query returns the entries whose place among those in scope is at most K, in
  that place, because in a sorted enumeration the i-th has i - 1 before it.
  `HitsSorted`: `sortHits` orders the hits by score and id whatever order the map gives
  them in.  It rests on `ScoreOrders` - scores are fractions, and comparing them across
  the denominators, then by id, is a strict total order - and takes the recursion
  hit by hit.  `SearchInv` carries the scores from step to step: those of the text
  query, then those of `Fusion`.  `BestByFusion` alone says nothing of a search that
  has not answered and is not inductive.  `IndexesAgree` is then arithmetic: of two
  entries that both indexes rank alike the first has no smaller addend, and one
  larger (`SumsRise`).

Batches, folds and lists have any finite size.  An induction over them is not within
reach of the prover as such; these proofs use instead that a set of numbers or of
entries with a bound has a least or greatest member (`Least`, `Smallest`,
`LastElement` in ThreadLogProofs and SearchProofs, from the well-foundedness of the naturals in
the form of a smallest counterexample), and that a fold over a set is a function
on its subsets which is determined step by step (`Runs` in SyncProofs).

Assumptions: `PrincipalAssumption` (principals are positive numbers),
`DraftAssumption` (bodies have the fields of their kind), `CandidatesAssumption`,
`CreatorAssumption`, `MaxEntriesAssumption`; for `Sync` `SyncAssumption` and
`ApprovalAssumption` (the grant that answers a request is a body like any other);
for `Store`
`HandlerAssumption`, `KeyAssumption`, `MayFailAssumption`, `RemoteAssumption` and
`StoredAssumption` (what arrives from peers is not of the node's own key, ids are
distinct, the database starts loadable); for `Watch` `EmbedAssumption` and `WatchAssumption`; for `Pairing`
`PairingAssumption`; for `Search` `SearchAssumption` (finitely many entries with
distinct ids, a ranking has none twice, similarities are comparable).  TLC evaluates
them in the runs, and `OneHome` in those of `MCSync`.

Only model-checked is liveness (`Converges`, `Relayed`, `PeersReached`,
`EverythingEmbedded`), which is out of TLAPS's reach.

## 5. Not modelled

- Signatures, JSON, ULIDs, the canonical encoding: an entry is genuine and its
  hash names it.  Grant expiry in `Sync` (no grant there has one); times that
  do not parse (`Author.Append` always writes ones that do).
- Titles, reasons, snippets, printing, flags, key files.
- Torn reads and writes of a thread log that concurrent requests change outside the
  mutex: in `Store` reading the head and clock is one step and the append another, and a
  process that the runtime ends over them is a restart.
- `List` and `Discover` as calls of their own: in `Sync` they are the condition
  that the caller has a lane; in `Watch` the list is given.
- The canonical encoding, the text index's ranking and quoting, the cosine,
  snippets: functions over strings and floats, which the models take as given.
- Key files and the older format of `peers.json`; the freshness window of `authenticate`;
  the conversion of `-ttl`; `resolveThread`; rendering and the
  token of the portal; the read-only tools of the MCP server.

## 6. What is left

Done: log, permissions, store cache, sync of one thread, rounds over peers and
threads, embedding, search, pairing, the abstract version vectors with two
implementations proved to be such, and every invariant
proved (section 4).  Of what could still be modelled,
in this order: the freshness window of request signatures with repeated
requests; the resolution of thread titles and its ambiguities; the composition of `Store` with
`Sync`, so that a session runs over several processes; and, as a proof, the
refinement of one log per node by a store that has lost nothing.
