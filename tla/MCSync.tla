------------------------------ MODULE MCSync -------------------------------
(***************************************************************************)
(* TLC instances of Sync: owner 1 creates the thread and hosts it on hub   *)
(* 3; collaborator 2 and the owner both sync with the hub.                 *)
(***************************************************************************)
EXTENDS Sync, TLC

Owner == 1
Bob   == 2
Hub   == 3

Draftof(kind) == [kind |-> kind, onBehalfOf |-> NoOne, ts |-> 1]

MCThread  == Draftof("core.thread") @@ [stewards |-> {Owner}, discoverable |-> TRUE]
Message   == Draftof("core.message")
Grant(p, scopes) ==
    Draftof("core.grant") @@ [principal |-> p, scopes |-> scopes, ttl |-> 0]
Full      == {"contribute", "read"}
GrantBob  == Grant(Bob, Full)
GrantGist == Grant(Bob, {"summary"})
RevokeBob == Draftof("core.revoke") @@ [principal |-> Bob]
Ask       == Draftof("core.access_request") @@ [scopes |-> Full]

MCDraft == {MCThread, Message, GrantGist, RevokeBob, Ask}
           \cup {Grant(p, Full) : p \in 1..3}

\* What the theorems of SyncProofs about chains presuppose.
ASSUME EachChainHasOneHome == OneHome

\* Bob is granted one lane or all, and revoked; both write.
MCPosts == {<<Owner, "content", Message>>, <<Bob, "content", Message>>}
MCDecisions == {<<Owner, GrantBob>>, <<Owner, GrantGist>>, <<Owner, RevokeBob>>}
MCMax == [n \in 1..3 |-> CASE n = Owner -> 4 [] n = Bob -> 1 [] n = Hub -> 0]

\* Only grants.
MCGrants == {<<Owner, GrantBob>>}
MCFewer == [n \in 1..3 |-> CASE n = Owner -> 3 [] n = Bob -> 2 [] n = Hub -> 0]

\* One revocation after one grant.
MCRevocations == {<<Owner, GrantBob>>, <<Owner, RevokeBob>>}
MCThree == [n \in 1..3 |-> CASE n = Owner -> 3 [] n = Bob -> 1 [] n = Hub -> 0]

MCLink == {<<Owner, Hub>>, <<Bob, Hub>>}
MCHost == {<<Owner, Hub>>}
MCAsk  == {<<Bob, Hub>>}
=============================================================================
