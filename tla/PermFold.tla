----------------------------- MODULE PermFold ------------------------------
(***************************************************************************)
(* The fold as a machine: one step applies the next control entry, in the  *)
(* order of Less, of a control lane that may hold any subset of            *)
(* Candidates.  The state after a step is the State of a replica that      *)
(* holds exactly the entries applied so far.  `asked' and `answers' are    *)
(* history variables: the latest request in each principal's name, and the *)
(* decisions that took effect, from which the properties say independently *)
(* who should hold what.                                                   *)
(***************************************************************************)
EXTENDS Perm, Integers

CONSTANT Candidates        \* the control entries the thread may hold

ASSUME CandidatesAssumption ==
    \A e \in Candidates : e \in Entry /\ e.lane = "control"

VARIABLES st,              \* the folded State
          last,            \* {} or the entry applied last
          asked,           \* asked[p]: {} or the last request in p's name
          answers          \* the grants, denies and revokes that took effect

vars == <<st, last, asked, answers>>

\* lamport, author and id place the decision in the total order; until is 0 for
\* no expiry.
Answer == [deny : BOOLEAN, principal : Principal, scopes : SUBSET Scope, until : Nat,
           lamport : Nat, author : Principal, id : Nat]

\* What a decision adds to the history.
AnswersOf(e) ==
    CASE e.draft.kind = "core.grant" /\ GrantCounts(st, e) ->
           {[deny |-> FALSE, principal |-> e.draft.principal,
             scopes |-> e.draft.scopes \cap Scope,
             until |-> IF e.draft.ttl > 0 THEN e.draft.ts + e.draft.ttl ELSE 0,
             lamport |-> e.lamport, author |-> e.author, id |-> e.id]}
      [] e.draft.kind \in {"core.deny", "core.revoke"} /\ DenyCounts(st, e) ->
           {[deny |-> TRUE, principal |-> e.draft.principal, scopes |-> {}, until |-> 0,
             lamport |-> e.lamport, author |-> e.author, id |-> e.id]}
      [] OTHER -> {}

Init ==
    /\ st = EmptyState
    /\ last = {}
    /\ asked = [p \in Principal |-> {}]
    /\ answers = {}

ApplyNext(e) ==
    /\ \A f \in last : Less(f, e)
    /\ st' = Apply(st, e)
    /\ last' = {e}
    /\ asked' = IF e.draft.kind = "core.access_request"
                THEN [asked EXCEPT ![Requester(e)] = {e}] ELSE asked
    /\ answers' = answers \cup AnswersOf(e)

Next == \E e \in Candidates : ApplyNext(e)

Spec == Init /\ [][Next]_vars

-----------------------------------------------------------------------------
(* Properties.                                                              *)

\* Type invariant of the fold.
TypeOK ==
    /\ st \in State
    /\ last \in SUBSET Candidates
    /\ asked \in [Principal -> SUBSET Candidates]
    /\ answers \in SUBSET Answer

Granted(p) == {a \in answers : a.principal = p /\ ~ a.deny}
Denied(p)  == {a \in answers : a.principal = p /\ a.deny}
Contributed(p) == {a \in Granted(p) : "contribute" \in a.scopes}

\* A deny or revoke beats every grant that is not above it in lamport order:
\* whoever holds scopes was granted some strictly after every deny and revoke
\* of theirs, however grants, denies, removals and changes of stewards are
\* interleaved.
DenyBeatsGrant ==
    \A p \in Principal : st.grants[p] # {} =>
        \E g \in Granted(p) : \A d \in Denied(p) : d.lamport < g.lamport

\* Scopes and expiry belong together and to the latest grant: no expiry of an
\* earlier grant cuts a later one short, none survives a revoke or a removal,
\* and a grant with a time to live never becomes permanent.
LatestGrantInForce ==
    \A p \in Principal :
        IF st.grants[p] = {} THEN st.expiry[p] = 0
        ELSE \E g \in Granted(p) : /\ g.scopes = st.grants[p]
                                   /\ g.until = st.expiry[p]
                                   /\ \A h \in Granted(p) : h.lamport <= g.lamport

\* A thread that has a steward keeps one, whatever removals follow, those by
\* stewards who remove each other concurrently included.
StewardsNeverVanish == [][st.stewards # {} => st'.stewards # {}]_vars

\* The latest access request in somebody's name is pending as long as no
\* decision about them that took effect sorts after it, and no longer: however
\* requests, decisions and changes of stewards are interleaved, none is lost,
\* answered by an earlier decision or left standing by a later one.  In
\* somebody's name, because `apply' does not check that the author acts for the
\* principal it names: a request of anyone's takes the place of their own.
RequestsAwaitDecision ==
    \A p \in Principal :
        st.requests[p] = {r \in asked[p] : \A a \in Granted(p) \cup Denied(p) : Less(a, r)}

\* Somebody without stewardship may write at lamport l when a grant of
\* contribute precedes l and no deny or revoke lies between the two.
HeldContributeAt(p, l) ==
    \E g \in Contributed(p) :
        /\ g.lamport <= l
        /\ \A d \in Denied(p) : ~ (g.lamport <= d.lamport /\ d.lamport <= l)

Outsider(p) == st.delegations[p] = NoOne /\ p \notin st.stewards

\* One window: no more than one deny or revoke after the first grant of
\* contribute, and no grant of contribute after it.
OneWindow(p) ==
    \A g \in Contributed(p) : \A d \in Denied(p) :
        g.lamport <= d.lamport =>
            /\ \A h \in Contributed(p) : h.lamport <= d.lamport
            /\ \A c \in Denied(p) : g.lamport <= c.lamport => c.lamport = d.lamport

Clock == {e.lamport : e \in Candidates} \cup {e.lamport + 1 : e \in Candidates}

\* The window that contribAt and deniedAt keep is the one the decisions say:
\* for a principal whose contribute was granted, and perhaps revoked, once.
WindowExact ==
    \A p \in Principal : Outsider(p) /\ OneWindow(p) =>
        \A l \in Clock : MayContribute(st, p, l) <=> HeldContributeAt(p, l)

\* The inductive strengthening: what deniedAt, contribAt, grants and expiry
\* are in terms of the decisions folded so far.
FoldInv ==
    /\ TypeOK
    /\ \A a \in answers : a.lamport > 0 /\ \E e \in last : a.lamport <= e.lamport
    /\ \A p \in Principal :
          /\ \A d \in Denied(p) : d.lamport <= st.deniedAt[p]
          /\ st.deniedAt[p] # 0 => \E d \in Denied(p) : d.lamport = st.deniedAt[p]
          /\ \A g \in Contributed(p) :
                st.contribAt[p] # 0 /\ st.contribAt[p] <= g.lamport
          /\ st.contribAt[p] # 0 =>
                \E g \in Contributed(p) : g.lamport = st.contribAt[p]
          /\ st.grants[p] = {} => st.expiry[p] = 0
          /\ st.grants[p] # {} =>
                \E g \in Granted(p) : /\ g.scopes = st.grants[p]
                                      /\ g.until = st.expiry[p]
                                      /\ g.lamport > st.deniedAt[p]
                                      /\ \A h \in Granted(p) : h.lamport <= g.lamport

-----------------------------------------------------------------------------
(* What the comments say and the code does not do; see the README.          *)

\* `if the principal still holds contribute now the window is open': whoever
\* holds contribute may write the thread's next entry.
HolderMayWrite ==
    \A p \in Principal : "contribute" \in st.grants[p] /\ Outsider(p) =>
        \A e \in last : MayContribute(st, p, e.lamport + 1)
=============================================================================
