---------------------------- MODULE MCPermFold -----------------------------
(***************************************************************************)
(* TLC instance of PermFold: creator 1, collaborator 2, and 3, who may     *)
(* become a second steward or be delegated as an agent. Authors write at   *)
(* the same lamports, so that concurrent decisions of both stewards occur  *)
(* in both orders. The fold reads neither seq nor prev, which are those of *)
(* a first entry here; ids follow the lamports, as they do along a chain.  *)
(* 3 files requests in 2's name, and 2 writes a core.thread that makes 2 a *)
(* steward.                                                                *)
(***************************************************************************)
EXTENDS PermFold, TLC

CONSTANT Depth             \* bound: the highest lamport

At(author, lamports, kinds) ==
    {[id |-> l, author |-> author, lane |-> "control", seq |-> 1,
      lamport |-> l, prev |-> 0, draft |-> d] : l \in lamports, d \in kinds}

By(obo) == [onBehalfOf |-> obo, ts |-> 1]

Thread(p) == {By(0) @@ [kind |-> "core.thread", stewards |-> {p}, discoverable |-> TRUE]}

\* A full grant without expiry, one of read that expires, and a revoke.
Decisions ==
    {By(0) @@ [kind |-> "core.grant", principal |-> 2,
               scopes |-> {"contribute", "read"}, ttl |-> 0],
     By(0) @@ [kind |-> "core.grant", principal |-> 2, scopes |-> {"read"}, ttl |-> 3],
     By(0) @@ [kind |-> "core.revoke", principal |-> 2]}

Membership(m, r) == By(0) @@ [kind |-> "core.membership", member |-> m, role |-> r]

\* Member 0 is what `lamdis post -kind core.membership -lane control' names.
Removals == {Membership(m, "removed") : m \in 1..3}

Memberships ==
    {Membership(3, "steward"), Membership(0, "steward"), Membership(3, "member")} \cup Removals

Delegations ==
    {By(0) @@ [kind |-> "core.delegation", agent |-> 3, revoked |-> r] : r \in BOOLEAN}

Requests(obo) ==
    {By(obo) @@ [kind |-> "core.access_request", scopes |-> {"contribute", "read"}]}

MCPrincipal == 1..3
MCDraft == Thread(1) \cup Thread(2) \cup Decisions \cup Memberships \cup Delegations
           \cup Requests(0) \cup Requests(2)
           \cup {By(0) @@ [kind |-> "core.deny", principal |-> 2]}

MCCandidates ==
         At(1, {1}, Thread(1))
    \cup At(1, 2..Depth, Decisions \cup Memberships)
    \cup At(3, 3..Depth, Decisions \cup Removals)
    \cup At(3, {2}, Requests(2))
    \cup At(2, {1, 3}, Requests(0))
    \cup At(2, 2..3, Delegations)
    \cup At(2, {3, Depth}, {By(0) @@ [kind |-> "core.deny", principal |-> 2]})
    \cup At(2, {4}, Thread(2))
=============================================================================
