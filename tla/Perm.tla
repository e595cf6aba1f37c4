------------------------------- MODULE Perm --------------------------------
(***************************************************************************)
(* Effective permissions: node/internal/perm.  The control lane of a       *)
(* thread is folded, in the protocol's total order, into a State; every    *)
(* read and sync path asks that State what a principal may do.             *)
(*                                                                         *)
(* A draft is [kind, onBehalfOf, ts] plus the body fields of its kind.     *)
(* NoOne is the empty string in a body's principal, member or agent field, *)
(* which is also what a body that fails to unmarshal amounts to.           *)
(***************************************************************************)
EXTENDS ThreadLog, Folds

NoOne == 0

Scope == {"contribute", "read", "summary", "search"}

\* The body fields of the control kinds.  Scopes may name anything: a grant
\* keeps the valid ones.  ttl is in whole seconds, 0 for no expiry.
DraftOK(d) ==
    /\ d.onBehalfOf \in Principal \cup {NoOne}
    /\ d.ts \in Nat
    /\ d.kind = "core.thread" => d.stewards \subseteq Principal /\ d.discoverable \in BOOLEAN
    /\ d.kind = "core.membership" => d.member \in Principal \cup {NoOne}
    /\ d.kind = "core.delegation" => d.agent \in Principal \cup {NoOne}
    /\ d.kind = "core.grant" => d.principal \in Principal \cup {NoOne} /\ d.ttl \in Nat
    /\ d.kind \in {"core.deny", "core.revoke"} => d.principal \in Principal \cup {NoOne}

ASSUME DraftAssumption == \A d \in Draft : DraftOK(d)

-----------------------------------------------------------------------------
(* The folded state.  An absent map key is {} in requests and grants, NoOne *)
(* in delegations and 0 in expiry, deniedAt and contribAt (lamports and     *)
(* times of the program are positive).                                      *)

State ==
    [stewards     : SUBSET Principal,
     discoverable : BOOLEAN,
     requests     : [Principal -> SUBSET Entry],     \* {} or the latest request
     grants       : [Principal -> SUBSET Scope],
     expiry       : [Principal -> Nat],
     delegations  : [Principal -> Principal \cup {NoOne}],
     deniedAt     : [Principal -> Nat],
     contribAt    : [Principal -> Nat]]

EmptyState ==
    [stewards     |-> {},
     discoverable |-> FALSE,
     requests     |-> [p \in Principal |-> {}],
     grants       |-> [p \in Principal |-> {}],
     expiry       |-> [p \in Principal |-> 0],
     delegations  |-> [p \in Principal |-> NoOne],
     deniedAt     |-> [p \in Principal |-> 0],
     contribAt    |-> [p \in Principal |-> 0]]

\* Signed directly by a person: on behalf of nobody, and not by an agent key.
PersonSigned(st, e) ==
    e.draft.onBehalfOf = NoOne /\ st.delegations[e.author] = NoOne

\* The guard of every decision: membership, grant, deny and revoke.
Decides(st, e) == e.author \in st.stewards /\ PersonSigned(st, e)

-----------------------------------------------------------------------------
(* apply, one operator per kind.                                            *)

ApplyThread(st, e) ==
    LET named == st.stewards \cup e.draft.stewards
    IN  [st EXCEPT !.stewards = IF named = {} THEN {e.author} ELSE named,
                   !.discoverable = e.draft.discoverable]

\* Mutant of ApplyMembership: the last steward can be removed.
ApplyMembershipToLast(st, e) ==
    LET m == e.draft.member
    IN  IF ~ Decides(st, e) \/ m = NoOne THEN st
        ELSE CASE e.draft.role = "steward" -> [st EXCEPT !.stewards = @ \cup {m}]
               [] e.draft.role = "removed" ->
                    [st EXCEPT !.stewards = @ \ {m}, !.grants[m] = {}, !.expiry[m] = 0]
               [] OTHER -> st

\* Mutant of ApplyMembership: a body without a member counts.
ApplyMembershipOfNoOne(st, e) ==
    LET m == e.draft.member
    IN  IF Decides(st, e) /\ e.draft.role = "steward"
        THEN [st EXCEPT !.stewards = @ \cup {m}] ELSE st

\* The last steward cannot be removed; role "member" changes nothing.
ApplyMembership(st, e) ==
    LET m == e.draft.member
    IN  IF ~ Decides(st, e) \/ m = NoOne THEN st
        ELSE CASE e.draft.role = "steward" ->
                    [st EXCEPT !.stewards = @ \cup {m}]
               [] e.draft.role = "removed" /\ st.stewards # {m} ->
                    [st EXCEPT !.stewards = @ \ {m},
                               !.grants[m] = {},
                               !.expiry[m] = 0]
               [] OTHER -> st

\* Anyone binds a key as an agent of theirs; only who bound it unbinds it.
ApplyDelegation(st, e) ==
    LET a == e.draft.agent
    IN  IF e.draft.onBehalfOf # NoOne \/ a = NoOne THEN st
        ELSE CASE ~ e.draft.revoked ->
                    [st EXCEPT !.delegations[a] = e.author]
               [] e.draft.revoked /\ st.delegations[a] = e.author ->
                    [st EXCEPT !.delegations[a] = NoOne]
               [] OTHER -> st

Requester(e) == IF e.draft.onBehalfOf # NoOne THEN e.draft.onBehalfOf ELSE e.author

ApplyAccessRequest(st, e) == [st EXCEPT !.requests[Requester(e)] = {e}]

\* A decision answers the pending request unless that sorts after it.
Unanswered(st, p, e) == {r \in st.requests[p] : r.lamport > e.lamport}

\* Mutant of GrantCounts: a grant at the lamport of a deny passes it.
GrantCountsBesideDeny(st, e) ==
    /\ Decides(st, e)
    /\ e.draft.principal # NoOne
    /\ e.lamport >= st.deniedAt[e.draft.principal]
    /\ e.draft.scopes \cap Scope # {}

\* A grant takes effect: its author decides, it names someone and some valid
\* scope, and no deny or revoke at the same or a later lamport was folded.
GrantCounts(st, e) ==
    /\ Decides(st, e)
    /\ e.draft.principal # NoOne
    /\ e.lamport > st.deniedAt[e.draft.principal]
    /\ e.draft.scopes \cap Scope # {}

\* Mutant of ApplyGrant: a grant without a time to live leaves an earlier expiry.
ApplyGrantKeepingExpiry(st, e) ==
    LET p     == e.draft.principal
        ss    == e.draft.scopes \cap Scope
        first == st.contribAt[p] = 0 \/ e.lamport < st.contribAt[p]
    IN  IF ~ GrantCounts(st, e) THEN st
        ELSE [st EXCEPT
                !.requests[p] = Unanswered(st, p, e),
                !.grants[p] = ss,
                !.contribAt[p] = IF "contribute" \in ss /\ first THEN e.lamport ELSE @,
                !.expiry[p] = IF e.draft.ttl > 0 THEN e.draft.ts + e.draft.ttl ELSE @]

\* Mutant of ApplyGrant: the window opens anew with every grant of contribute.
ApplyGrantReopening(st, e) ==
    LET p     == e.draft.principal
        ss    == e.draft.scopes \cap Scope
    IN  IF ~ GrantCounts(st, e) THEN st
        ELSE [st EXCEPT
                !.requests[p] = Unanswered(st, p, e),
                !.grants[p] = ss,
                !.contribAt[p] = IF "contribute" \in ss THEN e.lamport ELSE @,
                !.expiry[p] = IF e.draft.ttl > 0 THEN e.draft.ts + e.draft.ttl ELSE 0]

ApplyGrant(st, e) ==
    LET p     == e.draft.principal
        ss    == e.draft.scopes \cap Scope
        first == st.contribAt[p] = 0 \/ e.lamport < st.contribAt[p]
    IN  IF ~ GrantCounts(st, e) THEN st
        ELSE [st EXCEPT
                !.requests[p] = Unanswered(st, p, e),
                !.grants[p] = ss,
                !.contribAt[p] = IF "contribute" \in ss /\ first THEN e.lamport ELSE @,
                !.expiry[p] = IF e.draft.ttl > 0 THEN e.draft.ts + e.draft.ttl ELSE 0]

\* core.deny and core.revoke take effect alike.
DenyCounts(st, e) == Decides(st, e) /\ e.draft.principal # NoOne

\* Mutant of ApplyDeny: the request it answers stays pending.
ApplyDenyUnanswering(st, e) ==
    LET p == e.draft.principal
    IN  IF ~ DenyCounts(st, e) THEN st
        ELSE [st EXCEPT
                !.grants[p] = {},
                !.expiry[p] = 0,
                !.deniedAt[p] = IF e.lamport > @ THEN e.lamport ELSE @]

\* Mutant of ApplyDeny: a deny or revoke bars earlier grants, and leaves the scopes.
ApplyDenyKeepingScopes(st, e) ==
    LET p == e.draft.principal
    IN  IF ~ DenyCounts(st, e) THEN st
        ELSE [st EXCEPT
                !.requests[p] = Unanswered(st, p, e),
                !.deniedAt[p] = IF e.lamport > @ THEN e.lamport ELSE @]

ApplyDeny(st, e) ==
    LET p == e.draft.principal
    IN  IF ~ DenyCounts(st, e) THEN st
        ELSE [st EXCEPT
                !.grants[p] = {},
                !.expiry[p] = 0,
                !.requests[p] = Unanswered(st, p, e),
                !.deniedAt[p] = IF e.lamport > @ THEN e.lamport ELSE @]

Apply(st, e) ==
    CASE e.draft.kind = "core.thread"                 -> ApplyThread(st, e)
      [] e.draft.kind = "core.membership"             -> ApplyMembership(st, e)
      [] e.draft.kind = "core.delegation"             -> ApplyDelegation(st, e)
      [] e.draft.kind = "core.access_request"         -> ApplyAccessRequest(st, e)
      [] e.draft.kind = "core.grant"                  -> ApplyGrant(st, e)
      [] e.draft.kind \in {"core.deny", "core.revoke"} -> ApplyDeny(st, e)
      [] OTHER                                        -> st

\* The last of a set of entries in the protocol's total order.
LastOf(E) == CHOOSE e \in E : \A f \in E \ {e} : Less(f, e)

\* Fold of a log's entries: the control lane, applied in total order.
Fold(E) ==
    MapThenFoldSet(LAMBDA e, st : Apply(st, e), EmptyState, LAMBDA e : e, LastOf,
                   {e \in E : e.lane = "control"})

-----------------------------------------------------------------------------
(* What the rest of the node asks of a State.                               *)

\* The person behind a key: itself, unless it is delegated as an agent.
PersonOf(st, p) == IF st.delegations[p] # NoOne THEN st.delegations[p] ELSE p

EffectiveScopes(st, p, now) ==
    LET q       == PersonOf(st, p)
        expired == st.expiry[q] # 0 /\ now > st.expiry[q]
    IN  IF q \in st.stewards THEN Scope
        ELSE IF expired THEN {} ELSE st.grants[q]

\* ScopeSet.Lanes.
LanesOf(ss) ==
    {lane \in Lane : \/ lane = "control" /\ ss # {}
                     \/ lane = "summary" /\ ss \cap {"read", "summary"} # {}
                     \/ lane = "content" /\ "read" \in ss}

Lanes(st, p, now) == LanesOf(EffectiveScopes(st, p, now))

\* Mutant of MayContribute: the window includes the lamport of the revoke.
MayContributeAtRevoke(st, p, lamport) ==
    LET q == PersonOf(st, p)
    IN  \/ q \in st.stewards
        \/ /\ st.contribAt[q] # 0
           /\ lamport >= st.contribAt[q]
           /\ ~ (st.deniedAt[q] >= st.contribAt[q] /\ lamport > st.deniedAt[q])

\* Mutant of MayContribute: a window, once open, never closes.
MayContributeOnceGranted(st, p, lamport) ==
    LET q == PersonOf(st, p)
    IN  \/ q \in st.stewards
        \/ st.contribAt[q] # 0 /\ lamport >= st.contribAt[q]

MayContribute(st, p, lamport) ==
    LET q == PersonOf(st, p)
    IN  \/ q \in st.stewards
        \/ /\ st.contribAt[q] # 0
           /\ lamport >= st.contribAt[q]
           /\ ~ (st.deniedAt[q] >= st.contribAt[q] /\ lamport >= st.deniedAt[q])

ActsFor(st, author, principal) ==
    author = principal \/ st.delegations[author] = principal

PendingRequests(st) == UNION {st.requests[p] : p \in Principal}
=============================================================================
