-------------------------------- MODULE Sync --------------------------------
(***************************************************************************)
(* Replication of one thread between nodes: node/internal/sync, over the   *)
(* logs of ThreadLog and the permissions of Perm, with the commands that   *)
(* write entries and ask for access.  Every node serves Pull, Push and     *)
(* access requests, and as a client syncs with its peers; a hub is a node  *)
(* that others name as their peer.                                         *)
(*                                                                         *)
(* A client session is SyncThread or ShareThread against one peer, cut     *)
(* where the code calls the peer or the store: between two steps either    *)
(* log may change, and a call, its answer or a process may be lost.  A     *)
(* node's store is the log itself here (module Store opens it up), its key *)
(* is its principal, and no grant expires.                                 *)
(***************************************************************************)
EXTENDS Perm

CONSTANTS Creator,        \* the node that creates the thread
          ThreadDraft,    \* the genesis payload
          Posts,          \* what users may post: <<node, lane, draft>>
          Decisions,      \* what users may decide: <<node, draft>>
          RequestDraft,   \* the payload of an access request
          Requests,       \* access requests: <<requester, server>>
          Approvers,      \* nodes whose users approve requests
          Link,           \* who syncs with whom: <<client, server>>
          Host,           \* who may share the thread with whom
          MaxEntries,     \* bound: entries written by each node
          MaxLost         \* bound: sessions that are lost

ASSUME SyncAssumption ==
    /\ Creator \in Principal
    /\ ThreadDraft \in Draft /\ RequestDraft \in Draft
    /\ Posts \subseteq Principal \X Lane \X Draft
    /\ Decisions \subseteq Principal \X Draft
    /\ Requests \subseteq Principal \X Principal
    /\ Approvers \subseteq Principal
    /\ Link \subseteq Principal \X Principal
    /\ Host \subseteq Principal \X Principal
    /\ MaxEntries \in [Principal -> Nat]
    /\ MaxLost \in Nat

\* What `approve' answers a request with: a grant to p of the scopes asked for.
Approval(p, scopes) ==
    [kind |-> "core.grant", onBehalfOf |-> NoOne, ts |-> 1,
     principal |-> p, scopes |-> scopes, ttl |-> 0]

ASSUME ApprovalAssumption ==
    \A d \in Draft, p \in Principal :
        d.kind = "core.access_request" => Approval(p, d.scopes) \in Draft

VARIABLES log,            \* log[n]: the thread as node n's store holds it
          session,        \* session[c]: what client c is doing
          ids,            \* ids[n]: the ids n has used
          lost            \* sessions lost so far

vars == <<log, session, ids, lost>>

Now == 0                  \* no grant expires: any time does

Holds(n) == log[n].entries # {}

Perms(n) == Fold(log[n].entries)

VisibleLanes(n, p) == IF Holds(n) THEN Lanes(Perms(n), p, Now) ELSE {}

Idle == [pc |-> "idle"]

Init ==
    /\ log = [n \in Principal |-> NewThreadLog]
    /\ session = [c \in Principal |-> Idle]
    /\ ids = [n \in Principal |-> 0]
    /\ lost = 0

-----------------------------------------------------------------------------
(* Batches.                                                                 *)

IsGenesis(e) == e.author = Creator /\ e.id = 1

LaneRank(lane) == CASE lane = "control" -> 0 [] lane = "summary" -> 1 [] lane = "content" -> 2

\* Mutant of LessAppend: chains run backwards.
LessAppendDescending(a, b) ==
    \/ IsGenesis(a) /\ ~ IsGenesis(b)
    \/ /\ IsGenesis(a) = IsGenesis(b)
       /\ \/ LaneRank(a.lane) < LaneRank(b.lane)
          \/ a.lane = b.lane /\ a.author < b.author
          \/ a.lane = b.lane /\ a.author = b.author /\ a.seq > b.seq

\* lessAppend: the genesis, then lane by lane, author by author, seq ascending.
LessAppend(a, b) ==
    \/ IsGenesis(a) /\ ~ IsGenesis(b)
    \/ /\ IsGenesis(a) = IsGenesis(b)
       /\ \/ LaneRank(a.lane) < LaneRank(b.lane)
          \/ a.lane = b.lane /\ a.author < b.author
          \/ a.lane = b.lane /\ a.author = b.author /\ a.seq < b.seq

LastToAppend(E) == CHOOSE e \in E : \A f \in E \ {e} : LessAppend(f, e)

\* Mutant of AppendEntries: an entry that the log has is admitted again.
AppendEntriesAgain(l, E) ==
    MapThenFoldSet(
        LAMBDA e, r : IF r.ok /\ (Admits(r.log, e) \/ e \in r.log.entries)
                      THEN [log |-> Admit(r.log, e), ok |-> TRUE]
                      ELSE [r EXCEPT !.ok = FALSE],
        [log |-> l, ok |-> TRUE], LAMBDA e : e, LastToAppend, E)

\* Store.AppendEntries in the order of orderForAppend: one transaction for each
\* entry, up to the first that the log refuses.
AppendEntries(l, E) ==
    MapThenFoldSet(
        LAMBDA e, r : IF r.ok /\ Admits(r.log, e)
                      THEN [log |-> AppendEntry(r.log, e), ok |-> TRUE]
                      ELSE [r EXCEPT !.ok = FALSE],
        [log |-> l, ok |-> TRUE], LAMBDA e : e, LastToAppend, E)

Control(E) == {e \in E : e.lane = "control"}

-----------------------------------------------------------------------------
(* Users write.                                                             *)

\* `thread new': NewThreadWith and AppendEntries.
NewThread ==
    /\ ids[Creator] = 0
    /\ ids' = [ids EXCEPT ![Creator] = 1]
    /\ log' = [log EXCEPT ![Creator] = AppendEntry(@, Genesis(Creator, 1, ThreadDraft))]
    /\ UNCHANGED <<session, lost>>

\* Author.Append and AppendEntries, on a thread the node holds.
Author(n, lane, draft) ==
    /\ Holds(n)
    /\ ids[n] < MaxEntries[n]
    /\ ids' = [ids EXCEPT ![n] = @ + 1]
    /\ log' = [log EXCEPT ![n] = AppendEntry(@, NextEntry(@, n, ids[n] + 1, lane, draft))]
    /\ UNCHANGED <<session, lost>>

\* `post' and post_entry: any kind, any lane, whatever rights the user has.
Post(n, lane, draft) == Author(n, lane, draft)

\* `grant' and `revoke', and the portal's decisions that answer no request.
Decide(n, draft) == Author(n, "control", draft)

\* `approve': a grant of what a pending request of p asks for.
Approve(n, p) ==
    \E r \in Perms(n).requests[p] :
        Author(n, "control", Approval(p, r.draft.scopes))

\* BuildAccessRequest: always the first entry of the requester's control chain,
\* whatever was sent before and whatever the requester's own log may hold.
AccessRequest(p, id) ==
    [id |-> id, author |-> p, lane |-> "control", seq |-> 1, lamport |-> 1,
     prev |-> GenesisPrev, draft |-> RequestDraft]

\* `request': SubmitAccessRequest at s, which must let p know of the thread.
SubmitAccessRequest(p, s) ==
    /\ Holds(s)
    /\ Perms(s).discoverable \/ VisibleLanes(s, p) # {}
    /\ ids[p] < MaxEntries[p]
    /\ ids' = [ids EXCEPT ![p] = @ + 1]
    /\ log' = [log EXCEPT ![s] = AppendEntry(@, AccessRequest(p, ids[p] + 1))]
    /\ UNCHANGED <<session, lost>>

-----------------------------------------------------------------------------
(* A session pulls.                                                         *)

Goto(c, next) == session' = [session EXCEPT ![c] = next]

\* SyncThread sends its heads.
StartSync(c, s) ==
    /\ session[c] = Idle
    /\ Goto(c, [pc |-> "pull", peer |-> s, have |-> Heads(log[c])])
    /\ UNCHANGED <<log, ids, lost>>

\* Server.Pull, first store read: the lanes the caller may have.  A caller with
\* none is told that there is no such thread, and the client gives up.
ServeLanes(c) ==
    LET x     == session[c]
        lanes == VisibleLanes(x.peer, c)
    IN  /\ x.pc = "pull"
        /\ Goto(c, IF lanes = {} THEN Idle
                   ELSE [pc |-> "lanes", peer |-> x.peer, have |-> x.have, lanes |-> lanes])
        /\ UNCHANGED <<log, ids, lost>>

PeerHeads(s, lanes) ==
    [k \in Chain |-> IF k[2] \in lanes THEN log[s].heads[k].seq ELSE 0]

\* What log[s] holds in those lanes beyond the caller's heads.
Beyond(s, lanes, have) ==
    UNION {After(log[s], k, have[k]) : k \in {k \in Chain : k[2] \in lanes}}

\* Second store read: the server's heads in those lanes, and the entries.
ServeEntries(c) ==
    LET x == session[c]
    IN  /\ x.pc = "lanes"
        /\ Goto(c, [pc |-> "pulled", peer |-> x.peer,
                    heads |-> PeerHeads(x.peer, x.lanes),
                    entries |-> Beyond(x.peer, x.lanes, x.have)])
        /\ UNCHANGED <<log, ids, lost>>

\* The control entries of the answer are appended before anything is judged; an
\* entry that the log refuses ends the session.
IngestControl(c) ==
    LET x == session[c]
        r == AppendEntries(log[c], Control(x.entries))
    IN  /\ x.pc = "pulled"
        /\ log' = [log EXCEPT ![c] = r.log]
        /\ Goto(c, IF r.ok THEN [x EXCEPT !.pc = "controlled", !.entries = @ \ Control(@)]
                   ELSE Idle)
        /\ UNCHANGED <<ids, lost>>

\* The others are judged together, by the fold of what is now held: one that is
\* refused ends the session, before anything is pushed.
JudgePulled(c) ==
    LET x  == session[c]
        ok == \A e \in x.entries : MayContribute(Perms(c), e.author, e.lamport)
    IN  /\ x.pc = "controlled"
        /\ Goto(c, IF ok THEN [x EXCEPT !.pc = "accepted"] ELSE Idle)
        /\ UNCHANGED <<log, ids, lost>>

IngestRest(c) ==
    LET x == session[c]
        r == AppendEntries(log[c], x.entries)
    IN  /\ x.pc = "accepted"
        /\ log' = [log EXCEPT ![c] = r.log]
        /\ Goto(c, IF r.ok THEN [pc |-> "push", peer |-> x.peer, heads |-> x.heads] ELSE Idle)
        /\ UNCHANGED <<ids, lost>>

-----------------------------------------------------------------------------
(* A session pushes.                                                        *)

\* What c wrote beyond the peer's heads.
OwnBeyond(c, heads) ==
    UNION {After(log[c], <<c, lane>>, heads[<<c, lane>>]) : lane \in Lane}

\* Mutant of PushBack: the own control chain never travels.
PushBackWithoutControl(c) ==
    LET x     == session[c]
        own   == OwnBeyond(c, x.heads)
        offer == own \ Control(own)
    IN  /\ x.pc = "push"
        /\ Goto(c, IF offer = {} THEN Idle
                   ELSE [pc |-> "offer", peer |-> x.peer, entries |-> offer])
        /\ UNCHANGED <<log, ids, lost>>

\* pushBack: the own control chain travels only when c is a steward.
PushBack(c) ==
    LET x     == session[c]
        own   == OwnBeyond(c, x.heads)
        offer == IF c \in Perms(c).stewards THEN own ELSE own \ Control(own)
    IN  /\ x.pc = "push"
        /\ Goto(c, IF offer = {} THEN Idle
                   ELSE [pc |-> "offer", peer |-> x.peer, entries |-> offer])
        /\ UNCHANGED <<log, ids, lost>>

\* ShareThread looks up the thread and sends a Pull without heads.
StartShare(c, s) ==
    /\ session[c] = Idle
    /\ Holds(c)
    /\ Goto(c, [pc |-> "share", peer |-> s, have |-> Heads(log[c])])
    /\ UNCHANGED <<log, ids, lost>>

NoHeads == [k \in Chain |-> 0]

\* Server.Pull of it, first store read.  With no lanes the Pull fails, as when the
\* call or its answer is lost: to the client, the peer does not hold the thread yet.
ServeShareLanes(c) ==
    LET x     == session[c]
        lanes == VisibleLanes(x.peer, c)
    IN  /\ x.pc = "share"
        /\ Goto(c, IF lanes = {} THEN [pc |-> "shared", peer |-> x.peer, have |-> x.have,
                                      heads |-> NoHeads]
                   ELSE [pc |-> "share lanes", peer |-> x.peer, have |-> x.have,
                         lanes |-> lanes])
        /\ UNCHANGED <<log, ids, lost>>

\* Second store read; the client looks at the heads of the answer alone.
ServeHeads(c) ==
    LET x == session[c]
    IN  /\ x.pc = "share lanes"
        /\ \E heads \in {PeerHeads(x.peer, x.lanes), NoHeads} :
              Goto(c, [pc |-> "shared", peer |-> x.peer, have |-> x.have, heads |-> heads])
        /\ UNCHANGED <<log, ids, lost>>

\* The client offers its own chains, the control chain in any case: as they are now,
\* or as they were at first, when another process has written to them since.
OfferOwn(c) ==
    LET x == session[c]
    IN  /\ x.pc = "shared"
        /\ \E top \in {x.have, Heads(log[c])} :
              LET offer == {e \in OwnBeyond(c, x.heads) : e.seq <= top[ChainOf(e)]}
              IN  Goto(c, IF offer = {} THEN Idle
                          ELSE [pc |-> "offer", peer |-> x.peer, entries |-> offer])
        /\ UNCHANGED <<log, ids, lost>>

\* What Push asks of each entry.
MayPush(st, c, e) ==
    /\ ActsFor(st, e.author, c)
    /\ IF e.lane = "control" THEN e.author \in st.stewards
       ELSE MayContribute(st, e.author, e.lamport)

\* Server.Push.  An unknown thread is opened by a batch of its creator that
\* begins with the genesis, which stays even when the rest is refused; the rest
\* is judged as a whole, by one fold.
JudgePush(c) ==
    LET x       == session[c]
        s       == x.peer
        genesis == {e \in x.entries : IsGenesis(e) /\ e.author = c}
        opened  == IF Holds(s) THEN log[s] ELSE AppendEntries(log[s], genesis).log
        rest    == IF Holds(s) THEN x.entries ELSE x.entries \ genesis
        st      == Fold(opened.entries)
        admit   == /\ opened.entries # {}
                   /\ Holds(s) => VisibleLanes(s, c) # {}
                   /\ \A e \in rest : MayPush(st, c, e)
    IN  /\ x.pc = "offer"
        /\ log' = [log EXCEPT ![s] = opened]
        /\ Goto(c, IF admit THEN [pc |-> "judged", peer |-> s, entries |-> rest] ELSE Idle)
        /\ UNCHANGED <<ids, lost>>

\* Then it is appended, up to a refusal.
AppendPush(c) ==
    LET x == session[c]
    IN  /\ x.pc = "judged"
        /\ log' = [log EXCEPT ![x.peer] = AppendEntries(@, x.entries).log]
        /\ Goto(c, Idle)
        /\ UNCHANGED <<ids, lost>>

-----------------------------------------------------------------------------
(* A call, its answer, or one of the processes is lost.  One that dies while *)
(* it appends a batch has committed the entries up to some point.            *)

UpTo(E) == {{}} \cup {{f \in E : f = e \/ LessAppend(f, e)} : e \in E}

Lose(c) ==
    LET x     == session[c]
        n     == IF x.pc = "judged" THEN x.peer ELSE c
        batch == CASE x.pc = "pulled"                 -> Control(x.entries)
                   [] x.pc \in {"accepted", "judged"} -> x.entries
                   [] OTHER                           -> {}
    IN  /\ x # Idle
        /\ lost < MaxLost
        /\ lost' = lost + 1
        /\ \E E \in UpTo(batch) : log' = [log EXCEPT ![n] = AppendEntries(@, E).log]
        /\ Goto(c, Idle)
        /\ UNCHANGED ids

-----------------------------------------------------------------------------
Advance(c) ==
    \/ ServeLanes(c) \/ ServeEntries(c)
    \/ IngestControl(c) \/ JudgePulled(c) \/ IngestRest(c)
    \/ PushBack(c) \/ ServeShareLanes(c) \/ ServeHeads(c) \/ OfferOwn(c)
    \/ JudgePush(c) \/ AppendPush(c)

Next ==
    \/ NewThread
    \/ \E w \in Posts : Post(w[1], w[2], w[3])
    \/ \E d \in Decisions : Decide(d[1], d[2])
    \/ \E n \in Approvers, p \in Principal : Approve(n, p)
    \/ \E r \in Requests : SubmitAccessRequest(r[1], r[2])
    \/ \E k \in Link : StartSync(k[1], k[2])
    \/ \E k \in Host : StartShare(k[1], k[2])
    \/ \E c \in Principal : Advance(c) \/ Lose(c)

Spec == Init /\ [][Next]_vars

\* `sync -watch' starts a session with every peer in every round, whether or not
\* the last one failed, and a session goes on unless something is lost.
Fairness ==
    /\ \A k \in Link : SF_vars(StartSync(k[1], k[2]))
    /\ \A c \in Principal : WF_vars(Advance(c))

FairSpec == Spec /\ Fairness

-----------------------------------------------------------------------------
(* Where a chain is written.  Author.Append writes at the author's own node, *)
(* an access request opens the requester's control chain at the server.      *)

Written == UNION {log[n].entries : n \in Principal}

WrittenAt ==
    {<<<<Creator, "control">>, Creator>>}
    \cup {<<<<w[1], w[2]>>, w[1]>> : w \in Posts}
    \cup {<<<<n, "control">>, n>> : n \in {d[1] : d \in Decisions} \cup Approvers}
    \cup {<<<<r[1], "control">>, r[2]>> : r \in Requests}

\* Every chain has one home: who asks one server for access does not ask another,
\* and writes no control entries.
OneHome == \A v, w \in WrittenAt : v[1] = w[1] => v[2] = w[2]

-----------------------------------------------------------------------------
(* The abstract replicas: a log is reduced to its version vector.           *)

VV == INSTANCE VersionVectors
          WITH Node <- Principal, written <- Written,
               held <- [n \in Principal |-> Heads(log[n])]

-----------------------------------------------------------------------------
(* Properties.                                                              *)

\* What a client has in hand between two of its steps.
Pulling  == [pc : {"pull", "share"}, peer : Principal, have : [Chain -> Nat]]
Allowed  == [pc : {"lanes", "share lanes"}, peer : Principal, have : [Chain -> Nat],
             lanes : SUBSET Lane]
Shared   == [pc : {"shared"}, peer : Principal, have : [Chain -> Nat],
             heads : [Chain -> Nat]]
Answered == [pc : {"pulled", "controlled", "accepted"}, peer : Principal,
             heads : [Chain -> Nat], entries : SUBSET Entry]
Pushing  == [pc : {"push"}, peer : Principal, heads : [Chain -> Nat]]
Offering == [pc : {"offer", "judged"}, peer : Principal, entries : SUBSET Entry]

Session == {Idle} \cup Pulling \cup Allowed \cup Answered \cup Pushing \cup Shared
           \cup Offering

\* Type invariant of the nodes.
TypeOK ==
    /\ log \in [Principal -> Log]
    /\ session \in [Principal -> Session]
    /\ ids \in [Principal -> Nat]
    /\ lost \in 0..MaxLost

\* No session ends because a log refuses an entry: whatever sessions overlap,
\* repeat or break off half-way, every batch under way, in the order in which
\* it is appended, extends or repeats what the receiver then holds.
BatchesFit ==
    \A c \in Principal :
        LET x == session[c]
        IN  /\ x.pc \in {"pulled", "controlled", "accepted"} => AppendEntries(log[c], x.entries).ok
            /\ x.pc = "judged" => AppendEntries(log[x.peer], x.entries).ok

\* The decisions of the entries E about p, read without the fold's bookkeeping of
\* them: who signed one could decide by what sorts before it, and a grant is no
\* later in lamport order than none of the denies and revokes that sort before it.
CouldDecide(E, e) == Decides(Fold({f \in E : Less(f, e)}), e)

Denies(E, p) ==
    {d \in Control(E) : /\ d.draft.kind \in {"core.deny", "core.revoke"}
                        /\ d.draft.principal = p /\ CouldDecide(E, d)}

Grants(E, p) ==
    {g \in Control(E) : /\ g.draft.kind = "core.grant" /\ g.draft.principal = p
                        /\ g.draft.scopes \cap Scope # {} /\ CouldDecide(E, g)
                        /\ \A d \in Denies(E, p) : Less(d, g) => d.lamport < g.lamport}

Removals(E, p) ==
    {m \in Control(E) : /\ m.draft.kind = "core.membership" /\ m.draft.member = p
                        /\ m.draft.role = "removed" /\ CouldDecide(E, m)
                        /\ Fold({f \in E : Less(f, m)}).stewards # {p}}

\* A key writes at lamport l with the right to it: of a steward, or of somebody
\* granted contribute at l or before, and not denied or revoked since that grant,
\* or else later than l.
InWindow(E, key, l) ==
    LET p == PersonOf(Fold(E), key)
    IN  \/ p \in Fold(E).stewards
        \/ \E g \in Grants(E, p) :
              /\ "contribute" \in g.draft.scopes /\ g.lamport <= l
              /\ \/ \A d \in Denies(E, p) : d.lamport < g.lamport
                 \/ \E d \in Denies(E, p) : l < d.lamport

\* A lane is open to a key: of a steward, or of somebody whose latest grant opens
\* it, with no deny, revoke or removal after it.
LaneOpen(E, key, lane) ==
    LET p == PersonOf(Fold(E), key)
    IN  \/ p \in Fold(E).stewards
        \/ \E g \in Grants(E, p) :
              /\ lane \in LanesOf(g.draft.scopes)
              /\ \A h \in Grants(E, p) \ {g} : Less(h, g)
              /\ \A d \in Denies(E, p) \cup Removals(E, p) : Less(d, g)

\* What session c has in hand for node n, judged and not yet appended.
ForNode(c, n) ==
    LET x == session[c]
    IN  IF (x.pc = "accepted" /\ c = n) \/ (x.pc = "judged" /\ x.peer = n)
        THEN x.entries ELSE {}

\* Nobody's writing is accepted without the right to it: summary and content
\* entries of others reach a log only out of a batch that was judged for it, and
\* each was in its author's window by the decisions that the log held when it was
\* judged.  By the time the batch is appended, that log may hold a later revoke.
OnlyContributors ==
    [][ /\ \A c \in Principal : \A n \in Principal : \A e \in ForNode(c, n)' :
              \/ e.lane = "control" \/ e \in ForNode(c, n)
              \/ InWindow(log'[n].entries, e.author, e.lamport)
        /\ \A n \in Principal : \A e \in log'[n].entries \ log[n].entries :
              \/ e.lane = "control" \/ e.author = n
              \/ \E c \in Principal : e \in ForNode(c, n) ]_vars

\* Sessions implement version vectors: however they overlap, break off or repeat
\* a batch, they move a node along chains that others wrote, never back, never
\* past what was written; and only a node that holds a whole chain adds to it.
ImplementsVersionVectors == VV!Spec

PullOnly(n) == \A k \in Link \cup Host : k[2] # n

\* Lane confinement: a client is allowed the lanes that the decisions the server
\* holds then leave open to it, and gets entries of those lanes alone; and nothing
\* else reaches a node to which nobody pushes.  The entries are read later than the
\* lanes, and may be of a lane that has been closed in between.
AnsweredWithin(c) ==
    LET x == session[c]  y == session'[c]
    IN  /\ y.pc = "lanes" /\ x.pc # "lanes" =>
              \A lane \in y.lanes : LaneOpen(log'[y.peer].entries, c, lane)
        /\ y.pc \in {"pulled", "controlled", "accepted"} =>
              \A e \in y.entries :
                  \/ x.pc = "lanes" /\ e.lane \in x.lanes
                  \/ x.pc \in {"pulled", "controlled", "accepted"} /\ e \in x.entries

LanesConfined ==
    [][ /\ \A c \in Principal : AnsweredWithin(c)
        /\ \A n \in Principal : \A e \in log'[n].entries \ log[n].entries :
              \/ ~ PullOnly(n) \/ e.lane = "control" \/ e.author = n
              \/ session[n].pc = "accepted" /\ e \in session[n].entries ]_vars

\* The relay delivers: when users have stopped, every client ends up with all
\* that its peer may show it, and the peer with all that the client wrote and
\* may write, however sessions overlapped and whatever was lost on the way.
UpToDate(c, s) ==
    LET noHeads == [k \in Chain |-> 0]
        mine    == {e \in OwnBeyond(c, noHeads) : Holds(s) /\ MayPush(Perms(s), c, e)}
    IN  Beyond(s, VisibleLanes(s, c), noHeads) \subseteq log[c].entries
        /\ (VisibleLanes(s, c) # {} => mine \subseteq log[s].entries)

Relayed == <>[](\A k \in Link : UpToDate(k[1], k[2]))

-----------------------------------------------------------------------------
(* What the documentation says and the code does not do; see the README.    *)

IsRevoke(e) == e.draft.kind = "core.revoke"

\* `Requests, approvals, posts, and revocations relay through the hub': a
\* revocation written where the thread was created reaches every hub that holds
\* the thread and that the creator goes on syncing with.
RevocationsRelayed ==
    \A k \in Link : k[1] = Creator =>
        (Holds(k[2]) /\ (\E e \in log[Creator].entries : IsRevoke(e))
            ~> (\E e \in log[k[2]].entries : IsRevoke(e)))
=============================================================================
