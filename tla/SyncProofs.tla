---------------------------- MODULE SyncProofs -----------------------------
(***************************************************************************)
(* What replication keeps to, for any nodes, links, posts, decisions,      *)
(* delegations and removals, and sessions that overlap, repeat or break    *)
(* off anywhere: nodes keep their types and well-formed logs, accept only  *)
(* what a judge found in its author's window, and show clients only lanes  *)
(* that the decisions leave open.  Where every chain has one home          *)
(* (OneHome), also: no session ends in a refused entry, and sessions       *)
(* implement version vectors.                                              *)
(***************************************************************************)
EXTENDS Sync, ThreadLogProofs, TLAPS

-----------------------------------------------------------------------------
(* Folds over finite sets.                                                  *)

\* What a recursion computes that takes one element after another out of a set.
Runs(S, V, base, pick, step) ==
    {run \in [SUBSET S -> V] :
        /\ run[{}] = base
        /\ \A s \in SUBSET S : s # {} => run[s] = step[<<pick[s], run[s \ {pick[s]}]>>]}

\* There is such a thing for a finite set, within V when its base and steps are.
LEMMA RunExists ==
    ASSUME NEW S, IsFiniteSet(S), NEW V, NEW base \in V, NEW pick, NEW step,
           \A s \in SUBSET S : s # {} => pick[s] \in s,
           \A x \in S, v \in V : step[<<x, v>>] \in V
    PROVE  Runs(S, V, base, pick, step) # {}
<1> DEFINE Rest(s) == s \ {pick[s]}
           Body(g, s) == IF s = {} THEN base ELSE step[<<pick[s], g[Rest(s)]>>]
           Solves(g, n) == \A s \in SUBSET S : Cardinality(s) <= n => g[s] = Body(g, s)
           Bad == {n \in Nat : ~ \E g \in [SUBSET S -> V] : Solves(g, n)}
<1>1. ASSUME NEW s \in SUBSET S
      PROVE  /\ IsFiniteSet(s) /\ Cardinality(s) \in Nat
             /\ Cardinality(s) <= Cardinality(S)
             /\ Cardinality(s) = 0 <=> s = {}
             /\ s # {} => /\ Rest(s) \in SUBSET S
                          /\ Cardinality(Rest(s)) = Cardinality(s) - 1
  <2>1. IsFiniteSet(s) /\ Cardinality(s) \in Nat /\ Cardinality(s) <= Cardinality(S)
    BY FS_Subset, FS_CardinalityType
  <2> QED
    BY <2>1, FS_EmptySet, FS_RemoveElement
<1>2. ASSUME NEW g \in [SUBSET S -> V], NEW s \in SUBSET S PROVE Body(g, s) \in V
  <2>1. CASE s = {}
    BY <2>1
  <2>2. CASE s # {}
    <3>1. pick[s] \in S /\ g[Rest(s)] \in V
      BY <2>2
    <3> QED
      BY <2>2, <3>1
  <2> QED
    BY <2>1, <2>2
<1>3. Bad = {}
  <2> SUFFICES ASSUME Bad # {} PROVE FALSE
    OBVIOUS
  <2>1. PICK n \in Bad : \A m \in Bad : n <= m
    <3>1. Bad \in SUBSET Nat
      OBVIOUS
    <3> HIDE DEF Bad
    <3> QED
      BY <3>1, Least
  <2>2. n \in Nat /\ ~ \E g \in [SUBSET S -> V] : Solves(g, n)
    BY <2>1
  <2>3. CASE n = 0
    <3> DEFINE g == [s \in SUBSET S |-> base]
    <3>1. g \in [SUBSET S -> V]
      OBVIOUS
    <3>2. ASSUME NEW s \in SUBSET S, Cardinality(s) <= 0 PROVE s = {}
      <4>1. Cardinality(s) \in Nat /\ (Cardinality(s) = 0 <=> s = {})
        BY <1>1
      <4> QED
        BY <3>2, <4>1
    <3>3. Solves(g, 0)
      BY <3>2
    <3> QED
      BY <2>2, <2>3, <3>1, <3>3
  <2>4. CASE n # 0
    <3>1. n - 1 \in Nat /\ ~ (n <= n - 1)
      BY <2>2, <2>4
    <3>2. n - 1 \notin Bad
      BY <2>1, <3>1
    <3>3. PICK g \in [SUBSET S -> V] : Solves(g, n - 1)
      BY <3>1, <3>2
    <3> DEFINE h == [s \in SUBSET S |-> IF Cardinality(s) <= n - 1 THEN g[s] ELSE Body(g, s)]
    <3>4. h \in [SUBSET S -> V]
      <4>1. \A s \in SUBSET S : Body(g, s) \in V /\ g[s] \in V
        BY <1>2
      <4> HIDE DEF Body
      <4> QED
        BY <4>1
    <3>5. ASSUME NEW s \in SUBSET S, Cardinality(s) <= n PROVE h[s] = Body(h, s)
      <4>1. h[s] = Body(g, s)
        BY <3>3
      <4>2. Body(h, s) = Body(g, s)
        <5>1. CASE s = {}
          BY <5>1
        <5>2. CASE s # {}
          <6>1. Rest(s) \in SUBSET S /\ Cardinality(Rest(s)) <= n - 1
            <7>1. /\ Rest(s) \in SUBSET S /\ Cardinality(s) \in Nat
                  /\ Cardinality(Rest(s)) = Cardinality(s) - 1
              BY <1>1, <5>2
            <7> HIDE DEF Rest
            <7> QED
              BY <7>1, <2>2, <3>5
          <6>2. h[Rest(s)] = g[Rest(s)]
            BY <6>1
          <6> QED
            BY <6>2
        <5> QED
          BY <5>1, <5>2
      <4> QED
        BY <4>1, <4>2
    <3>6. Solves(h, n)
      BY <3>5
    <3> HIDE DEF h
    <3> QED
      BY <2>2, <3>4, <3>6
  <2> QED
    BY <2>3, <2>4
<1>4. Cardinality(S) \in Nat
  BY <1>1
<1>5. PICK g \in [SUBSET S -> V] : Solves(g, Cardinality(S))
  BY <1>3, <1>4
<1>6. \A s \in SUBSET S : g[s] = Body(g, s)
  BY <1>1, <1>5
<1> QED
  BY <1>6 DEF Runs

-----------------------------------------------------------------------------
(* The fold of a control lane.                                              *)

\* An id names one entry.
IdsUnique(E) == \A e, f \in E : SameId(e, f) => e = f

\* The parts of an entry.
LEMMA EntryParts ==
    ASSUME NEW e \in Entry
    PROVE  /\ DraftOK(e.draft) /\ e.author \in Principal /\ e.lamport \in Nat
           /\ Requester(e) \in Principal
BY DraftAssumption DEF Entry, Requester, DraftOK

\* Every kind of control entry maps States to States.
LEMMA ThreadTyped ==
    ASSUME NEW s \in State, NEW e \in Entry, e.draft.kind = "core.thread"
    PROVE  ApplyThread(s, e) \in State
BY EntryParts DEF ApplyThread, State, DraftOK

\* What a membership makes of a state.
LEMMA MembershipTyped ==
    ASSUME NEW s \in State, NEW e \in Entry, e.draft.kind = "core.membership"
    PROVE  ApplyMembership(s, e) \in State
BY EntryParts DEF ApplyMembership, State, DraftOK

\* A delegation.
LEMMA DelegationTyped ==
    ASSUME NEW s \in State, NEW e \in Entry, e.draft.kind = "core.delegation"
    PROVE  ApplyDelegation(s, e) \in State
BY EntryParts DEF ApplyDelegation, State, DraftOK

\* An access request.
LEMMA AccessRequestTyped ==
    ASSUME NEW s \in State, NEW e \in Entry
    PROVE  ApplyAccessRequest(s, e) \in State
BY EntryParts DEF ApplyAccessRequest, State

\* A grant.
LEMMA GrantTyped ==
    ASSUME NEW s \in State, NEW e \in Entry, e.draft.kind = "core.grant"
    PROVE  ApplyGrant(s, e) \in State
<1> DEFINE p == e.draft.principal
<1>1. CASE ~ GrantCounts(s, e)
  BY <1>1 DEF ApplyGrant
<1>2. CASE GrantCounts(s, e)
  <2>1. p \in Principal
    BY <1>2, EntryParts DEF GrantCounts, DraftOK
  <2>2. Unanswered(s, p, e) \in SUBSET Entry
    BY <2>1 DEF Unanswered, State
  <2>3. \A until \in Nat, first \in Nat :
          [s EXCEPT !.requests[p] = Unanswered(s, p, e),
                    !.grants[p] = e.draft.scopes \cap Scope,
                    !.contribAt[p] = first,
                    !.expiry[p] = until] \in State
    BY <2>1, <2>2 DEF State
  <2>4. (IF e.draft.ttl > 0 THEN e.draft.ts + e.draft.ttl ELSE 0) \in Nat
    BY EntryParts DEF DraftOK
  <2>5. s.contribAt[p] \in Nat /\ e.lamport \in Nat
    BY <2>1, EntryParts DEF State
  <2> QED
    BY <1>2, <2>3, <2>4, <2>5 DEF ApplyGrant
<1> QED
  BY <1>1, <1>2

\* A denial.
LEMMA DenyTyped ==
    ASSUME NEW s \in State, NEW e \in Entry,
           e.draft.kind \in {"core.deny", "core.revoke"}
    PROVE  ApplyDeny(s, e) \in State
BY EntryParts DEF ApplyDeny, DenyCounts, Unanswered, State, DraftOK

\* Apply, whatever the kind.
LEMMA ApplyTyped ==
    ASSUME NEW s \in State, NEW e \in Entry PROVE Apply(s, e) \in State
BY ThreadTyped, MembershipTyped, DelegationTyped, AccessRequestTyped, GrantTyped,
   DenyTyped DEF Apply

\* A finite set of entries with distinct ids has a last one in the total order.
LEMMA LastOfIsMember ==
    ASSUME NEW E \in SUBSET Entry, IsFiniteSet(E), IdsUnique(E), E # {}
    PROVE  LastOf(E) \in E /\ \A f \in E \ {LastOf(E)} : Less(f, LastOf(E))
<1> DEFINE R == {z \in E \X E : Less(z[1], z[2])}
<1>1. \A e \in E : e.lamport \in Nat /\ e.author \in Nat /\ e.id \in Nat
  BY PrincipalAssumption DEF Entry
<1>2. \A a, b \in E : <<a, b>> \in R <=> Less(a, b)
  OBVIOUS
<1>3. \A a, b \in E : a # b => Less(a, b) \/ Less(b, a)
  BY <1>1 DEF Less, IdsUnique, SameId
<1>4. \A a, b, c \in E : Less(a, b) /\ Less(b, c) => Less(a, c)
  BY <1>1 DEF Less
<1> HIDE DEF R
<1>5. \E x \in E : \A y \in E \ {x} : <<y, x>> \in R
  <2>1. \A a, b \in E : a # b => <<a, b>> \in R \/ <<b, a>> \in R
    BY <1>2, <1>3
  <2>2. \A a, b, c \in E : <<a, b>> \in R /\ <<b, c>> \in R => <<a, c>> \in R
    BY <1>2, <1>4
  <2> QED
    BY <2>1, <2>2, LastElement
<1>6. \E x \in E : \A y \in E \ {x} : Less(y, x)
  BY <1>2, <1>5
<1> QED
  BY <1>6 DEF LastOf

\* The states of the fold on its way through a set C.
FoldRun(C) ==
    CHOOSE run : run = [s \in SUBSET C |-> IF s = {} THEN EmptyState
                                           ELSE Apply(run[s \ {LastOf(s)}], LastOf(s))]

\* Fold is that recursion, over the control entries.
LEMMA FoldRuns == ASSUME NEW E PROVE Fold(E) = FoldRun(Control(E))[Control(E)]
BY DEF Fold, MapThenFoldSet, FoldRun, Control

\* The empty state is a State.
LEMMA EmptyStateTyped == EmptyState \in State
BY DEF EmptyState, State

\* Each is the one before with the last entry applied.
LEMMA FoldRunSteps ==
    ASSUME NEW C \in SUBSET Entry, IsFiniteSet(C), IdsUnique(C)
    PROVE  /\ FoldRun(C) \in [SUBSET C -> State]
           /\ \A s \in SUBSET C :
                 FoldRun(C)[s] = IF s = {} THEN EmptyState
                                 ELSE Apply(FoldRun(C)[s \ {LastOf(s)}], LastOf(s))
<1> DEFINE pick == [s \in SUBSET C |-> LastOf(s)]
           step == [z \in C \X State |-> Apply(z[2], z[1])]
           Body(g, s) == IF s = {} THEN EmptyState ELSE Apply(g[s \ {LastOf(s)}], LastOf(s))
<1>1. \A s \in SUBSET C : s # {} => LastOf(s) \in s
  BY LastOfIsMember, FS_Subset DEF IdsUnique
<1>2. PICK run \in [SUBSET C -> State] :
        /\ run[{}] = EmptyState
        /\ \A s \in SUBSET C : s # {} => run[s] = step[<<pick[s], run[s \ {pick[s]}]>>]
  <2>1. \A s \in SUBSET C : s # {} => pick[s] \in s
    BY <1>1
  <2>2. \A x \in C, v \in State : step[<<x, v>>] \in State
    BY ApplyTyped
  <2> HIDE DEF pick, step
  <2>3. Runs(C, State, EmptyState, pick, step) # {}
    BY <2>1, <2>2, EmptyStateTyped, RunExists
  <2> QED
    BY <2>3 DEF Runs
<1>3. ASSUME NEW s \in SUBSET C PROVE run[s] = Body(run, s)
  <2>1. s # {} => run[s] = step[<<pick[s], run[s \ {pick[s]}]>>]
    BY <1>2
  <2>2. CASE s = {}
    BY <1>2, <2>2
  <2>3. CASE s # {}
    <3>1. LastOf(s) \in C /\ pick[s] = LastOf(s) /\ run[s \ {LastOf(s)}] \in State
      BY <1>1, <1>2, <2>3
    <3>2. step[<<LastOf(s), run[s \ {LastOf(s)}]>>] = Apply(run[s \ {LastOf(s)}], LastOf(s))
      BY <3>1
    <3> HIDE DEF step, pick
    <3> QED
      BY <2>1, <2>3, <3>1, <3>2
  <2> QED
    BY <2>2, <2>3
<1>4. run = [s \in SUBSET C |-> Body(run, s)]
  <2>1. run = [s \in SUBSET C |-> run[s]]
    BY <1>2
  <2> HIDE DEF Body
  <2> QED
    BY <1>3, <2>1
<1>5. FoldRun(C) = [s \in SUBSET C |-> Body(FoldRun(C), s)]
  BY <1>4 DEF FoldRun
<1>6. FoldRun(C) \in [SUBSET C -> State]
  <2> SUFFICES ASSUME NEW g, g = [s \in SUBSET C |-> Body(g, s)]
               PROVE  g \in [SUBSET C -> State]
    BY <1>5
  <2> DEFINE Bad == {s \in SUBSET C : g[s] \notin State}
  <2>1. \A s \in SUBSET C : g[s] = Body(g, s)
    OBVIOUS
  <2>2. Bad = {}
    <3> SUFFICES ASSUME Bad # {} PROVE FALSE
      OBVIOUS
    <3>1. PICK s \in Bad : \A x \in s : s \ {x} \notin Bad
      <4>1. Bad \in SUBSET (SUBSET C)
        OBVIOUS
      <4> HIDE DEF Bad
      <4> QED
        BY <4>1, Smallest
    <3>2. s \in SUBSET C /\ g[s] \notin State
      BY <3>1
    <3>3. s # {}
      BY <2>1, <3>2, EmptyStateTyped
    <3>4. LastOf(s) \in s /\ g[s \ {LastOf(s)}] \in State
      BY <1>1, <3>1, <3>2, <3>3
    <3>5. Apply(g[s \ {LastOf(s)}], LastOf(s)) \in State
      BY <3>2, <3>4, ApplyTyped
    <3> QED
      BY <2>1, <3>2, <3>3, <3>5
  <2>3. g = [s \in SUBSET C |-> g[s]]
    OBVIOUS
  <2> QED
    BY <2>2, <2>3
<1>7. \A s \in SUBSET C : FoldRun(C)[s] = Body(FoldRun(C), s)
  <2> SUFFICES ASSUME NEW g, g = [s \in SUBSET C |-> Body(g, s)]
               PROVE  \A s \in SUBSET C : g[s] = Body(g, s)
    BY <1>5
  <2> QED
    OBVIOUS
<1> QED
  BY <1>6, <1>7

-----------------------------------------------------------------------------
(* What a folded state records of a principal, the entries folded decide.   *)

\* Pending requests are entries of the log.
Asked(t, E) ==
    \A p \in Principal : \A r \in t.requests[p] :
        r \in E /\ r.draft.kind = "core.access_request"

\* The state t, after the first part s of the control entries of E, has the latest
\* of the denies and revokes of p, a grant that opened the window, and the scopes of
\* a grant after all other decisions.
LatestDeny(t, s, E, p) ==
    /\ \A d \in Denies(E, p) \cap s : d.lamport <= t.deniedAt[p]
    /\ t.deniedAt[p] # 0 => \E d \in Denies(E, p) \cap s : d.lamport = t.deniedAt[p]

WindowOpened(t, s, E, p) ==
    t.contribAt[p] # 0 =>
        \E g \in Grants(E, p) \cap s :
            "contribute" \in g.draft.scopes /\ g.lamport = t.contribAt[p]

ScopesGranted(t, s, E, p) ==
    t.grants[p] # {} =>
        \E g \in Grants(E, p) \cap s :
            /\ t.grants[p] = g.draft.scopes \cap Scope
            /\ \A h \in (Grants(E, p) \cap s) \ {g} : Less(h, g)
            /\ \A d \in (Denies(E, p) \cup Removals(E, p)) \cap s : Less(d, g)

Recorded(t, s, E, p) ==
    LatestDeny(t, s, E, p) /\ WindowOpened(t, s, E, p) /\ ScopesGranted(t, s, E, p)

\* The entry e is the last of the first part s of the control entries of E, and t
\* is the fold of what sorts before it.
Turn(t, s, E, e) ==
    /\ s \in SUBSET Control(E) /\ e \in s
    /\ \A f \in s \ {e} : Less(f, e)
    /\ \A f \in Control(E) : Less(f, e) => f \in s
    /\ t \in State /\ Fold({f \in E : Less(f, e)}) = t

\* Nothing but access requests adds to the requests.
LEMMA ApplyAsked ==
    ASSUME NEW E \in SUBSET Entry, NEW t \in State, Asked(t, E), NEW e \in Control(E)
    PROVE  Asked(Apply(t, e), E)
<1> DEFINE u == Apply(t, e)
<1>0. e \in E /\ e \in Entry /\ DraftOK(e.draft) /\ Requester(e) \in Principal
  BY EntryParts DEF Control
<1> SUFFICES Asked(u, E)
  OBVIOUS
<1>1. CASE e.draft.kind \in {"core.thread", "core.membership", "core.delegation"}
  <2>1. u.requests = t.requests
    BY <1>1 DEF Apply, ApplyThread, ApplyMembership, ApplyDelegation, State
  <2> QED
    BY <2>1 DEF Asked
<1>2. CASE e.draft.kind = "core.access_request"
  <2>1. u.requests = [t.requests EXCEPT ![Requester(e)] = {e}]
    BY <1>2 DEF Apply, ApplyAccessRequest, State
  <2>2. t.requests \in [Principal -> SUBSET Entry]
    BY DEF State
  <2> HIDE DEF u
  <2> QED
    BY <1>0, <1>2, <2>1, <2>2 DEF Asked
<1>3. CASE e.draft.kind \in {"core.grant", "core.deny", "core.revoke"}
  <2>1. \A p \in Principal : u.requests[p] \subseteq t.requests[p]
    BY <1>3 DEF Apply, ApplyGrant, ApplyDeny, State, Unanswered
  <2> HIDE DEF u
  <2> QED
    BY <2>1 DEF Asked
<1>4. CASE e.draft.kind \notin {"core.thread", "core.membership", "core.delegation",
                                "core.access_request", "core.grant", "core.deny",
                                "core.revoke"}
  BY <1>4 DEF Apply
<1> QED
  BY <1>1, <1>2, <1>3, <1>4

\* An entry that is no grant and no deny of p, and takes what it removes.
LEMMA OthersRecorded ==
    ASSUME NEW E \in SUBSET Entry, NEW s, NEW e, NEW t, NEW u, NEW p,
           Recorded(t, s \ {e}, E, p),
           e \notin Denies(E, p), e \notin Grants(E, p),
           u.deniedAt[p] = t.deniedAt[p], u.contribAt[p] = t.contribAt[p],
           \/ u.grants[p] = {}
           \/ u.grants[p] = t.grants[p] /\ e \notin Removals(E, p)
    PROVE  Recorded(u, s, E, p)
<1>1. /\ Denies(E, p) \cap s = Denies(E, p) \cap (s \ {e})
      /\ Grants(E, p) \cap s = Grants(E, p) \cap (s \ {e})
  OBVIOUS
<1>2. LatestDeny(u, s, E, p)
  BY <1>1 DEF Recorded, LatestDeny
<1>3. WindowOpened(u, s, E, p)
  BY <1>1 DEF Recorded, WindowOpened
<1>4. ScopesGranted(u, s, E, p)
  <2>1. CASE u.grants[p] = {}
    BY <2>1 DEF ScopesGranted
  <2>2. CASE u.grants[p] = t.grants[p] /\ e \notin Removals(E, p)
    <3>1. (Denies(E, p) \cup Removals(E, p)) \cap s =
              (Denies(E, p) \cup Removals(E, p)) \cap (s \ {e})
      BY <2>2
    <3> QED
      BY <1>1, <2>2, <3>1 DEF Recorded, ScopesGranted
  <2> QED
    BY <2>1, <2>2
<1> QED
  BY <1>2, <1>3, <1>4 DEF Recorded

\* What the entry e decides about p is what it does to the state t.
Effect(t, E, e, p) ==
    /\ e \in Entry /\ p # NoOne
    /\ e \in Denies(E, p) <=> /\ e.draft.kind \in {"core.deny", "core.revoke"}
                              /\ e.draft.principal = p /\ DenyCounts(t, e)
    /\ e \in Grants(E, p) <=> /\ e.draft.kind = "core.grant"
                              /\ e.draft.principal = p /\ GrantCounts(t, e)
    /\ e \in Removals(E, p) <=> /\ e.draft.kind = "core.membership"
                                /\ e.draft.member = p /\ e.draft.role = "removed"
                                /\ Decides(t, e) /\ t.stewards # {p}

\* So it is, in its turn.
LEMMA InTurn ==
    ASSUME NEW E \in SUBSET Entry, NEW s, NEW e, NEW t, Turn(t, s, E, e),
           NEW p \in Principal, LatestDeny(t, s \ {e}, E, p)
    PROVE  Effect(t, E, e, p)
<1>1. e \in Entry /\ e \in Control(E) /\ p # NoOne /\ s \in SUBSET Entry
  BY PrincipalAssumption DEF Turn, Control, NoOne
<1>2. CouldDecide(E, e) <=> Decides(t, e)
  BY DEF Turn, CouldDecide
<1>3. \A d \in Entry : d.lamport \in Nat \ {0} /\ d.author \in Nat /\ d.id \in Nat
  BY PrincipalAssumption DEF Entry
<1>4. t.deniedAt[p] \in Nat
  BY DEF Turn, State
<1>5. (\A d \in Denies(E, p) : Less(d, e) => d.lamport < e.lamport)
         <=> e.lamport > t.deniedAt[p]
  <2>1. ASSUME \A d \in Denies(E, p) : Less(d, e) => d.lamport < e.lamport
        PROVE  e.lamport > t.deniedAt[p]
    <3>1. CASE t.deniedAt[p] = 0
      BY <1>1, <1>3, <3>1
    <3>2. CASE t.deniedAt[p] # 0
      <4>1. PICK d \in Denies(E, p) \cap (s \ {e}) : d.lamport = t.deniedAt[p]
        BY <3>2 DEF LatestDeny
      <4>2. Less(d, e) /\ d \in Entry
        BY <1>1, <4>1 DEF Turn
      <4> QED
        BY <1>1, <1>3, <2>1, <4>1, <4>2
    <3> QED
      BY <3>1, <3>2
  <2>2. ASSUME e.lamport > t.deniedAt[p], NEW d \in Denies(E, p), Less(d, e)
        PROVE  d.lamport < e.lamport
    <3>1. d \in Control(E) /\ d \in Entry
      BY DEF Denies, Control
    <3>2. d \in s /\ d # e
      BY <1>1, <1>3, <2>2, <3>1 DEF Turn, Less
    <3>3. d.lamport <= t.deniedAt[p]
      BY <3>2 DEF LatestDeny
    <3> QED
      BY <1>1, <1>3, <1>4, <2>2, <3>1, <3>3
  <2> QED
    BY <2>1, <2>2
<1>6. e \in Denies(E, p) <=> /\ e.draft.kind \in {"core.deny", "core.revoke"}
                             /\ e.draft.principal = p /\ DenyCounts(t, e)
  BY <1>1, <1>2 DEF Denies, DenyCounts
<1>7. e \in Grants(E, p) <=> /\ e.draft.kind = "core.grant"
                             /\ e.draft.principal = p /\ GrantCounts(t, e)
  BY <1>1, <1>2, <1>5 DEF Grants, GrantCounts
<1>8. e \in Removals(E, p) <=> /\ e.draft.kind = "core.membership"
                               /\ e.draft.member = p /\ e.draft.role = "removed"
                               /\ Decides(t, e) /\ t.stewards # {p}
  BY <1>1, <1>2 DEF Removals, Turn
<1> QED
  BY <1>1, <1>6, <1>7, <1>8 DEF Effect

\* A grant, if it counts, is after all that came before.
LEMMA GrantRecorded ==
    ASSUME NEW E \in SUBSET Entry, NEW s, NEW e, NEW t, Turn(t, s, E, e),
           e.draft.kind = "core.grant",
           NEW p \in Principal, Recorded(t, s \ {e}, E, p)
    PROVE  Recorded(ApplyGrant(t, e), s, E, p)
<1> DEFINE u == ApplyGrant(t, e)
<1>1. LatestDeny(t, s \ {e}, E, p)
  BY DEF Recorded
<1>2. /\ e \in Entry /\ e \notin Denies(E, p) /\ e \notin Removals(E, p)
      /\ e \in Grants(E, p) <=> e.draft.principal = p /\ GrantCounts(t, e)
  <2>1. Effect(t, E, e, p)
    BY <1>1, InTurn
  <2> QED
    BY <2>1 DEF Effect
<1>3. CASE e.draft.principal = p /\ GrantCounts(t, e)
  <2>1. /\ u.deniedAt[p] = t.deniedAt[p]
        /\ u.grants[p] = e.draft.scopes \cap Scope
        /\ \/ u.contribAt[p] = t.contribAt[p]
           \/ "contribute" \in e.draft.scopes /\ u.contribAt[p] = e.lamport
    BY <1>3 DEF Turn, ApplyGrant, State
  <2> SUFFICES Recorded(u, s, E, p)
    OBVIOUS
  <2> HIDE DEF u
  <2>2. e \in Grants(E, p) \cap s
    BY <1>2, <1>3 DEF Turn
  <2>3. LatestDeny(u, s, E, p)
    BY <1>1, <1>2, <2>1 DEF LatestDeny
  <2>4. WindowOpened(u, s, E, p)
    BY <2>1, <2>2 DEF Recorded, WindowOpened
  <2>5. ScopesGranted(u, s, E, p)
    <3>1. \A f \in s \ {e} : Less(f, e)
      BY DEF Turn
    <3> QED
      BY <1>2, <2>1, <2>2, <3>1 DEF ScopesGranted
  <2> QED
    BY <2>3, <2>4, <2>5 DEF Recorded
<1>4. CASE ~ (e.draft.principal = p /\ GrantCounts(t, e))
  <2>1. /\ u.deniedAt[p] = t.deniedAt[p] /\ u.contribAt[p] = t.contribAt[p]
        /\ u.grants[p] = t.grants[p]
    BY <1>4 DEF Turn, ApplyGrant, State
  <2> QED
    BY <1>2, <1>4, <2>1, OthersRecorded
<1> QED
  BY <1>3, <1>4

\* A deny or revoke, if it counts, takes the scopes.
LEMMA DenyRecorded ==
    ASSUME NEW E \in SUBSET Entry, NEW s, NEW e, NEW t, Turn(t, s, E, e),
           e.draft.kind \in {"core.deny", "core.revoke"},
           NEW p \in Principal, Recorded(t, s \ {e}, E, p)
    PROVE  Recorded(ApplyDeny(t, e), s, E, p)
<1> DEFINE u == ApplyDeny(t, e)
<1>1. LatestDeny(t, s \ {e}, E, p)
  BY DEF Recorded
<1>2. /\ e \in Entry /\ e \notin Grants(E, p) /\ e \notin Removals(E, p)
      /\ e \in Denies(E, p) <=> e.draft.principal = p /\ DenyCounts(t, e)
  <2>1. Effect(t, E, e, p)
    BY <1>1, InTurn
  <2> QED
    BY <2>1 DEF Effect
<1>3. CASE e.draft.principal = p /\ DenyCounts(t, e)
  <2>1. /\ u.contribAt[p] = t.contribAt[p]
        /\ u.grants[p] = {}
        /\ u.deniedAt[p] = IF e.lamport > t.deniedAt[p] THEN e.lamport ELSE t.deniedAt[p]
    BY <1>3 DEF Turn, ApplyDeny, State
  <2> SUFFICES Recorded(u, s, E, p)
    OBVIOUS
  <2> HIDE DEF u
  <2>2. e \in Denies(E, p) \cap s
    BY <1>2, <1>3 DEF Turn
  <2>3. LatestDeny(u, s, E, p)
    <3>1. e.lamport \in Nat /\ t.deniedAt[p] \in Nat
      BY <1>2 DEF Turn, State, Entry
    <3>2. \A d \in Denies(E, p) \cap s : d.lamport \in Nat
      BY DEF Denies, Control, Entry
    <3>3. ASSUME NEW d \in Denies(E, p) \cap s PROVE d.lamport <= u.deniedAt[p]
      <4>1. CASE d = e
        BY <2>1, <3>1, <4>1
      <4>2. CASE d # e
        <5>1. d.lamport <= t.deniedAt[p]
          BY <1>1, <4>2 DEF LatestDeny
        <5> QED
          BY <2>1, <3>1, <3>2, <5>1
      <4> QED
        BY <4>1, <4>2
    <3>4. ASSUME u.deniedAt[p] # 0
          PROVE  \E d \in Denies(E, p) \cap s : d.lamport = u.deniedAt[p]
      <4>1. CASE u.deniedAt[p] = e.lamport
        BY <2>2, <4>1
      <4>2. CASE u.deniedAt[p] = t.deniedAt[p]
        BY <1>1, <3>4, <4>2 DEF LatestDeny
      <4> QED
        BY <2>1, <4>1, <4>2
    <3> QED
      BY <3>3, <3>4 DEF LatestDeny
  <2>4. WindowOpened(u, s, E, p)
    BY <2>1 DEF Recorded, WindowOpened
  <2>5. ScopesGranted(u, s, E, p)
    BY <2>1 DEF ScopesGranted
  <2> QED
    BY <2>3, <2>4, <2>5 DEF Recorded
<1>4. CASE ~ (e.draft.principal = p /\ DenyCounts(t, e))
  <2>1. /\ u.deniedAt[p] = t.deniedAt[p] /\ u.contribAt[p] = t.contribAt[p]
        /\ u.grants[p] = t.grants[p]
    BY <1>4 DEF Turn, ApplyDeny, State
  <2> QED
    BY <1>2, <1>4, <2>1, OthersRecorded
<1> QED
  BY <1>3, <1>4

\* A membership that removes p takes the scopes too.
LEMMA MembershipRecorded ==
    ASSUME NEW E \in SUBSET Entry, NEW s, NEW e, NEW t, Turn(t, s, E, e),
           e.draft.kind = "core.membership",
           NEW p \in Principal, Recorded(t, s \ {e}, E, p)
    PROVE  Recorded(ApplyMembership(t, e), s, E, p)
<1> DEFINE u == ApplyMembership(t, e)
<1>1. LatestDeny(t, s \ {e}, E, p)
  BY DEF Recorded
<1>2. /\ e \notin Grants(E, p) /\ e \notin Denies(E, p) /\ p # NoOne
      /\ e \in Removals(E, p) => /\ e.draft.member = p /\ e.draft.role = "removed"
                                 /\ Decides(t, e) /\ t.stewards # {p}
  <2>1. Effect(t, E, e, p)
    BY <1>1, InTurn
  <2> QED
    BY <2>1 DEF Effect
<1>3. /\ u.deniedAt[p] = t.deniedAt[p] /\ u.contribAt[p] = t.contribAt[p]
      /\ u.grants[p] = {} \/ u.grants[p] = t.grants[p]
      /\ e \in Removals(E, p) => u.grants[p] = {}
  BY <1>2 DEF Turn, ApplyMembership, State
<1> SUFFICES Recorded(u, s, E, p)
  OBVIOUS
<1> HIDE DEF u
<1> QED
  BY <1>2, <1>3, OthersRecorded

\* Any entry in its turn.
LEMMA ApplyRecorded ==
    ASSUME NEW E \in SUBSET Entry, NEW s, NEW e, NEW t, Turn(t, s, E, e),
           NEW p \in Principal, Recorded(t, s \ {e}, E, p)
    PROVE  Recorded(Apply(t, e), s, E, p)
<1>1. LatestDeny(t, s \ {e}, E, p)
  BY DEF Recorded
<1>2. CASE e.draft.kind \in {"core.grant", "core.deny", "core.revoke", "core.membership"}
  BY <1>2, GrantRecorded, DenyRecorded, MembershipRecorded DEF Apply
<1>3. CASE e.draft.kind \notin {"core.grant", "core.deny", "core.revoke", "core.membership"}
  <2>1. e \notin Grants(E, p) /\ e \notin Denies(E, p) /\ e \notin Removals(E, p)
    <3>1. Effect(t, E, e, p)
      BY <1>1, InTurn
    <3> QED
      BY <1>3, <3>1 DEF Effect
  <2>2. /\ Apply(t, e).deniedAt = t.deniedAt /\ Apply(t, e).contribAt = t.contribAt
        /\ Apply(t, e).grants = t.grants
    BY <1>3 DEF Apply, ApplyThread, ApplyDelegation, ApplyAccessRequest, Turn, State
  <2> QED
    BY <2>1, <2>2, OthersRecorded
<1> QED
  BY <1>2, <1>3

\* The fold of a part of a set is on the way of the fold of the set.
LEMMA FoldOfPart ==
    ASSUME NEW C \in SUBSET Entry, IsFiniteSet(C), IdsUnique(C), NEW D \in SUBSET C
    PROVE  FoldRun(D)[D] = FoldRun(C)[D]
<1> DEFINE Bad == {s \in SUBSET D : FoldRun(D)[s] # FoldRun(C)[s]}
<1>1. D \in SUBSET Entry /\ IsFiniteSet(D) /\ IdsUnique(D)
  BY FS_Subset DEF IdsUnique
<1>2. Bad = {}
  <2> SUFFICES ASSUME Bad # {} PROVE FALSE
    OBVIOUS
  <2>1. PICK s \in Bad : \A x \in s : s \ {x} \notin Bad
    <3>1. Bad \in SUBSET (SUBSET D)
      OBVIOUS
    <3> HIDE DEF Bad
    <3> QED
      BY <1>1, <3>1, Smallest
  <2>2. s \in SUBSET D /\ FoldRun(D)[s] # FoldRun(C)[s]
    BY <2>1
  <2>3. /\ FoldRun(D)[s] = IF s = {} THEN EmptyState
                           ELSE Apply(FoldRun(D)[s \ {LastOf(s)}], LastOf(s))
        /\ FoldRun(C)[s] = IF s = {} THEN EmptyState
                           ELSE Apply(FoldRun(C)[s \ {LastOf(s)}], LastOf(s))
    BY <1>1, <2>2, FoldRunSteps
  <2>4. s # {}
    BY <2>2, <2>3
  <2>5. LastOf(s) \in s
    BY <1>1, <2>2, <2>4, LastOfIsMember, FS_Subset DEF IdsUnique
  <2>6. FoldRun(D)[s \ {LastOf(s)}] = FoldRun(C)[s \ {LastOf(s)}]
    BY <2>1, <2>2, <2>5
  <2> QED
    BY <2>2, <2>3, <2>6
<1> QED
  BY <1>2

\* The fold of a set of entries is a State, whose requests are entries, and which
\* records of every principal what the entries decide.
THEOREM FoldDecides ==
    ASSUME NEW E \in SUBSET Entry, IsFiniteSet(E), IdsUnique(E)
    PROVE  /\ Fold(E) \in State /\ Asked(Fold(E), E)
           /\ \A p \in Principal : Recorded(Fold(E), Control(E), E, p)
<1> DEFINE C == Control(E)
           Good(t, s) == Asked(t, E) /\ \A p \in Principal : Recorded(t, s, E, p)
           First(s) == \A x \in s : \A f \in C : Less(f, x) => f \in s
<1>1. C \in SUBSET Entry /\ IsFiniteSet(C) /\ IdsUnique(C) /\ C \in SUBSET C
  BY FS_Subset DEF Control, IdsUnique
<1>2. \A x \in Entry : x.lamport \in Nat /\ x.author \in Nat /\ x.id \in Nat
  BY PrincipalAssumption DEF Entry
<1>3. \A x, y \in Entry : Less(x, y) => ~ Less(y, x)
  BY <1>2 DEF Less
<1> DEFINE run == FoldRun(C)
           Bad == {s \in SUBSET C : First(s) /\ ~ Good(run[s], s)}
<1>4. /\ run \in [SUBSET C -> State]
      /\ \A s \in SUBSET C : run[s] = IF s = {} THEN EmptyState
                                      ELSE Apply(run[s \ {LastOf(s)}], LastOf(s))
  <2> HIDE DEF C
  <2> QED
    BY <1>1, FoldRunSteps
<1>5. Bad = {}
  <2> SUFFICES ASSUME Bad # {} PROVE FALSE
    OBVIOUS
  <2>1. PICK s \in Bad : \A x \in s : s \ {x} \notin Bad
    <3>1. Bad \in SUBSET (SUBSET C)
      OBVIOUS
    <3> HIDE DEF Bad, C
    <3> QED
      BY <1>1, <3>1, Smallest
  <2>2. s \in SUBSET C /\ First(s) /\ ~ Good(run[s], s)
    BY <2>1
  <2>3. Good(EmptyState, {})
    BY DEF EmptyState, Asked, Recorded, LatestDeny, WindowOpened, ScopesGranted
  <2>4. s # {}
    <3> HIDE DEF Good, run, First
    <3> QED
      BY <1>4, <2>2, <2>3
  <2> DEFINE e == LastOf(s)
             r == s \ {e}
  <2>5. e \in s /\ \A f \in r : Less(f, e)
    <3>1. s \in SUBSET Entry /\ IsFiniteSet(s) /\ IdsUnique(s)
      BY <1>1, <2>2, FS_Subset DEF IdsUnique
    <3> QED
      BY <2>4, <3>1, LastOfIsMember
  <2>6. r \in SUBSET C /\ e \in C /\ s \in SUBSET Entry /\ e \in Entry
    BY <1>1, <2>2, <2>5
  <2> HIDE DEF e
  <2>7. First(r)
    <3> SUFFICES ASSUME NEW x \in r, NEW f \in C, Less(f, x) PROVE f \in r
      OBVIOUS
    <3>1. f \in s /\ x \in Entry /\ f \in Entry
      BY <1>1, <2>2, <2>6
    <3>2. f # e
      BY <1>3, <2>5, <3>1
    <3> QED
      BY <3>1, <3>2
  <2>8. Good(run[r], r)
    <3>1. r \notin Bad
      BY <2>1, <2>5
    <3> HIDE DEF Good, run, First
    <3> QED
      BY <2>6, <2>7, <3>1
  <2>9. Turn(run[r], s, E, e)
    <3>1. Control({f \in E : Less(f, e)}) = r
      <4>1. \A f \in r : f \in C /\ Less(f, e)
        BY <2>5, <2>6
      <4>2. \A f \in C : Less(f, e) => f \in r
        BY <1>1, <1>3, <2>2, <2>5, <2>6
      <4> HIDE DEF r
      <4> QED
        BY <4>1, <4>2 DEF Control
    <3>2. FoldRun(r)[r] = run[r]
      <4> HIDE DEF C, r
      <4> QED
        BY <1>1, <2>6, FoldOfPart
    <3>3. Fold({f \in E : Less(f, e)}) = run[r]
      BY <3>1, <3>2, FoldRuns
    <3>4. run[r] \in State
      <4> HIDE DEF run, r, C
      <4> QED
        BY <1>4, <2>6
    <3>5. s \in SUBSET Control(E) /\ \A f \in Control(E) : Less(f, e) => f \in s
      BY <2>2, <2>5
    <3> HIDE DEF run
    <3> QED
      BY <2>5, <3>3, <3>4, <3>5 DEF Turn
  <2>10. run[s] = Apply(run[r], e)
    <3> HIDE DEF run
    <3> QED
      BY <1>4, <2>2, <2>4 DEF e
  <2> DEFINE t == run[r]
  <2>11. Asked(Apply(t, e), E)
    <3>1. t \in State /\ e \in Control(E) /\ Asked(t, E)
      BY <2>6, <2>8, <2>9 DEF Turn
    <3> HIDE DEF t
    <3> QED
      BY <3>1, ApplyAsked
  <2>12. ASSUME NEW p \in Principal PROVE Recorded(Apply(t, e), s, E, p)
    <3>1. Recorded(t, s \ {e}, E, p)
      BY <2>8
    <3> HIDE DEF t
    <3>2. Turn(t, s, E, e)
      BY <2>9 DEF t
    <3> QED
      BY <3>1, <3>2, ApplyRecorded
  <2>13. Good(Apply(t, e), s)
    BY <2>11, <2>12
  <2> HIDE DEF Good, run
  <2> QED
    BY <2>2, <2>10, <2>13
<1>6. Fold(E) = run[C]
  BY FoldRuns
<1>7. First(C) /\ C \notin Bad
  BY <1>5
<1>8. Good(run[C], C)
  <2> HIDE DEF Good, run, First
  <2> QED
    BY <1>1, <1>7
<1>9. run[C] \in State
  <2> HIDE DEF run, C
  <2> QED
    BY <1>1, <1>4
<1> QED
  BY <1>6, <1>8, <1>9

\* Who may write by the fold is in a window of the entries.
LEMMA WritesInWindow ==
    ASSUME NEW E \in SUBSET Entry, IsFiniteSet(E), IdsUnique(E),
           NEW key \in Principal, NEW l \in Nat, MayContribute(Fold(E), key, l)
    PROVE  InWindow(E, key, l)
<1>1. /\ Fold(E) \in State
      /\ \A p \in Principal : Recorded(Fold(E), Control(E), E, p)
  BY FoldDecides
<1>2. PICK t : t = Fold(E)
  OBVIOUS
<1>3. t \in State
  BY <1>1, <1>2
<1>4. PICK q : q = PersonOf(t, key)
  OBVIOUS
<1>5. q \in Principal
  BY <1>3, <1>4 DEF PersonOf, State
<1>6. CASE q \in t.stewards
  BY <1>2, <1>4, <1>6 DEF InWindow
<1>7. CASE q \notin t.stewards
  <2>1. /\ t.contribAt[q] # 0 /\ l >= t.contribAt[q]
        /\ ~ (t.deniedAt[q] >= t.contribAt[q] /\ l >= t.deniedAt[q])
    BY <1>2, <1>4, <1>7 DEF MayContribute
  <2>2. t.contribAt[q] \in Nat /\ t.deniedAt[q] \in Nat
    BY <1>3, <1>5 DEF State
  <2>3. Recorded(t, Control(E), E, q)
    BY <1>1, <1>2, <1>5
  <2>4. PICK g \in Grants(E, q) : "contribute" \in g.draft.scopes /\ g.lamport = t.contribAt[q]
    BY <2>1, <2>3 DEF Recorded, WindowOpened
  <2>5. \A d \in Denies(E, q) : d \in Control(E) /\ d.lamport \in Nat
    BY DEF Denies, Control, Entry
  <2>6. CASE t.deniedAt[q] < t.contribAt[q]
    <3>1. \A d \in Denies(E, q) : d.lamport <= t.deniedAt[q]
      BY <2>3, <2>5 DEF Recorded, LatestDeny
    <3>2. \A d \in Denies(E, q) : d.lamport < g.lamport
      BY <2>2, <2>4, <2>5, <2>6, <3>1
    <3> QED
      BY <1>2, <1>4, <2>1, <2>4, <3>2 DEF InWindow
  <2>7. CASE ~ (t.deniedAt[q] < t.contribAt[q])
    <3>1. t.deniedAt[q] # 0 /\ l < t.deniedAt[q]
      BY <2>1, <2>2, <2>7
    <3>2. PICK d \in Denies(E, q) : d.lamport = t.deniedAt[q]
      BY <2>3, <3>1 DEF Recorded, LatestDeny
    <3> QED
      BY <1>2, <1>4, <2>1, <2>4, <3>1, <3>2 DEF InWindow
  <2> QED
    BY <2>6, <2>7
<1> QED
  BY <1>6, <1>7

\* What lanes the fold shows, the entries open.
LEMMA ShownAreOpen ==
    ASSUME NEW E \in SUBSET Entry, IsFiniteSet(E), IdsUnique(E),
           NEW key \in Principal, NEW now, NEW lane \in Lanes(Fold(E), key, now)
    PROVE  LaneOpen(E, key, lane)
<1>1. /\ Fold(E) \in State
      /\ \A p \in Principal : Recorded(Fold(E), Control(E), E, p)
  BY FoldDecides
<1>2. PICK t : t = Fold(E)
  OBVIOUS
<1>3. t \in State
  BY <1>1, <1>2
<1>4. PICK q : q = PersonOf(t, key)
  OBVIOUS
<1>5. q \in Principal
  BY <1>3, <1>4 DEF PersonOf, State
<1>6. CASE q \in t.stewards
  BY <1>2, <1>4, <1>6 DEF LaneOpen
<1>7. CASE q \notin t.stewards
  <2>1. lane \in LanesOf(t.grants[q])
    BY <1>2, <1>4, <1>7 DEF Lanes, EffectiveScopes, LanesOf
  <2>2. t.grants[q] # {}
    BY <2>1 DEF LanesOf
  <2>3. Recorded(t, Control(E), E, q)
    BY <1>1, <1>2, <1>5
  <2>4. /\ Grants(E, q) \cap Control(E) = Grants(E, q)
        /\ (Denies(E, q) \cup Removals(E, q)) \cap Control(E) = Denies(E, q) \cup Removals(E, q)
    BY DEF Grants, Denies, Removals
  <2>5. PICK g \in Grants(E, q) :
            /\ t.grants[q] = g.draft.scopes \cap Scope
            /\ \A h \in Grants(E, q) \ {g} : Less(h, g)
            /\ \A d \in Denies(E, q) \cup Removals(E, q) : Less(d, g)
    BY <2>2, <2>3, <2>4 DEF Recorded, ScopesGranted
  <2>6. lane \in LanesOf(g.draft.scopes)
    BY <2>1, <2>5 DEF LanesOf
  <2> QED
    BY <1>2, <1>4, <2>5, <2>6 DEF LaneOpen
<1> QED
  BY <1>6, <1>7

-----------------------------------------------------------------------------
(* A batch is appended.                                                     *)

\* One entry at a position.
OneAtPosition(E) == \A e, f \in E : ChainOf(e) = ChainOf(f) /\ e.seq = f.seq => e = f

\* What a store keeps of its log.
LogOK(l) == WellFormed(l) /\ IsFiniteSet(l.entries) /\ IdsUnique(l.entries)

\* Nothing is lost.
Grows(l, m) ==
    /\ l.entries \subseteq m.entries
    /\ \A c \in Chain : l.heads[c].seq <= m.heads[c].seq

\* Batches are sets of entries that orderForAppend can sort.
Batch(E) == E \in SUBSET Entry /\ IsFiniteSet(E) /\ OneAtPosition(E)

\* Part of a batch is a batch.
LEMMA BatchPart == ASSUME NEW E, Batch(E), NEW F \in SUBSET E PROVE Batch(F)
BY FS_Subset DEF Batch, OneAtPosition

\* Heads are numbers, and growth is transitive.
LEMMA HeadsTyped ==
    ASSUME NEW l \in Log, NEW c \in Chain
    PROVE  l.heads[c].seq \in Nat /\ Heads(l) \in [Chain -> Nat] /\ Heads(l)[c] = l.heads[c].seq
BY DEF Log, ChainHead, Heads

\* Growth is reflexive and transitive.
LEMMA GrowsOn ==
    ASSUME NEW l \in Log, NEW m \in Log, NEW n \in Log
    PROVE  Grows(l, l) /\ (Grows(l, m) /\ Grows(m, n) => Grows(l, n))
<1>1. \A c \in Chain : /\ l.heads[c].seq \in Nat /\ m.heads[c].seq \in Nat
                       /\ n.heads[c].seq \in Nat
  BY HeadsTyped
<1> QED
  BY <1>1 DEF Grows

\* The empty log.
LEMMA NewLogOK == LogOK(NewThreadLog)
BY NewThreadLogWellFormed, FS_EmptySet DEF LogOK, NewThreadLog, IdsUnique

\* One entry is appended, or not.
LEMMA AppendEntryOK ==
    ASSUME NEW l, LogOK(l), NEW e \in Entry
    PROVE  LET m == AppendEntry(l, e)
           IN  /\ LogOK(m) /\ m \in Log
               /\ Grows(l, m)
               /\ m.entries \subseteq l.entries \cup {e}
               /\ Extends(l, e) => m.entries = l.entries \cup {e}
               /\ Admits(l, e) => e \in m.entries
<1> DEFINE m == AppendEntry(l, e)
<1>1. l \in Log /\ WellFormed(l) /\ IsFiniteSet(l.entries) /\ IdsUnique(l.entries)
  BY DEF LogOK, WellFormed
<1>2. CASE ~ Extends(l, e)
  <2>1. m = l
    BY <1>2 DEF AppendEntry
  <2> QED
    BY <1>1, <1>2, <2>1, GrowsOn DEF LogOK, Admits, Redelivered
<1>3. CASE Extends(l, e)
  <2>1. m = Admit(l, e) /\ WellFormed(m)
    BY <1>1, <1>3, AppendWellFormed DEF AppendEntry
  <2>2. /\ m \in Log /\ m.entries = l.entries \cup {e}
        /\ m.heads[ChainOf(e)] = [seq |-> e.seq, hash |-> Hash(e)]
        /\ \A c \in Chain : c # ChainOf(e) => m.heads[c] = l.heads[c]
    BY <1>1, <2>1, AdmitFields
  <2>3. e.seq = l.heads[ChainOf(e)].seq + 1 /\ \A f \in l.entries : ~ SameId(e, f)
    BY <1>3 DEF Extends, IdTaken, SameId
  <2> HIDE DEF m
  <2>4. IsFiniteSet(m.entries)
    BY <1>1, <2>2, FS_AddElement
  <2>5. IdsUnique(m.entries)
    BY <1>1, <2>2, <2>3 DEF IdsUnique, SameId
  <2>6. Grows(l, m)
    <3>1. \A c \in Chain : l.heads[c].seq \in Nat
      BY <1>1, HeadsTyped
    <3> QED
      BY <2>2, <2>3, <3>1 DEF Grows
  <2> QED
    BY <2>1, <2>2, <2>4, <2>5, <2>6 DEF LogOK, m
<1> QED
  BY <1>2, <1>3

\* A batch has a last entry in the order of orderForAppend.
LEMMA LastToAppendIsLast ==
    ASSUME NEW E, Batch(E), E # {}
    PROVE  LastToAppend(E) \in E /\ \A f \in E \ {LastToAppend(E)} : LessAppend(f, LastToAppend(E))
<1> DEFINE R == {z \in E \X E : LessAppend(z[1], z[2])}
<1>1. \A e \in E : /\ e.author \in Nat /\ e.seq \in Nat /\ e.lane \in Lane
                   /\ LaneRank(e.lane) \in Nat
  BY PrincipalAssumption DEF Entry, Batch, Lane, LaneRank
<1>2. \A a, b \in Lane : LaneRank(a) = LaneRank(b) => a = b
  BY DEF Lane, LaneRank
<1>3. \A a, b \in E : <<a, b>> \in R <=> LessAppend(a, b)
  OBVIOUS
<1>4. ASSUME NEW a \in E, NEW b \in E, a # b PROVE LessAppend(a, b) \/ LessAppend(b, a)
  <2>1. a.lane # b.lane \/ a.author # b.author \/ a.seq # b.seq
    BY <1>4 DEF Batch, OneAtPosition, ChainOf
  <2>2. \/ IsGenesis(a) /\ ~ IsGenesis(b)
        \/ IsGenesis(b) /\ ~ IsGenesis(a)
        \/ IsGenesis(a) = IsGenesis(b)
    BY Zenon DEF IsGenesis
  <2>3. a.lane # b.lane => LaneRank(a.lane) < LaneRank(b.lane) \/ LaneRank(b.lane) < LaneRank(a.lane)
    BY <1>1, <1>2
  <2> QED
    BY <1>1, <2>1, <2>2, <2>3 DEF LessAppend
<1>5. ASSUME NEW a \in E, NEW b \in E, NEW c \in E, LessAppend(a, b), LessAppend(b, c)
      PROVE  LessAppend(a, c)
  <2>1. /\ LaneRank(a.lane) \in Nat /\ LaneRank(b.lane) \in Nat /\ LaneRank(c.lane) \in Nat
        /\ a.author \in Nat /\ b.author \in Nat /\ c.author \in Nat
        /\ a.seq \in Nat /\ b.seq \in Nat /\ c.seq \in Nat
    BY <1>1
  <2> QED
    BY <1>5, <2>1 DEF LessAppend
<1> HIDE DEF R
<1>6. \E x \in E : \A y \in E \ {x} : <<y, x>> \in R
  <2>1. IsFiniteSet(E)
    BY DEF Batch
  <2>2. \A a, b \in E : a # b => <<a, b>> \in R \/ <<b, a>> \in R
    BY <1>3, <1>4
  <2>3. \A a, b, c \in E : <<a, b>> \in R /\ <<b, c>> \in R => <<a, c>> \in R
    BY <1>3, <1>5
  <2> QED
    BY <2>1, <2>2, <2>3, LastElement
<1>7. \E x \in E : \A y \in E \ {x} : LessAppend(y, x)
  BY <1>3, <1>6
<1> QED
  BY <1>7 DEF LastToAppend

\* What AppendEntries has done of each part of a batch.
Done == [log : Log, ok : BOOLEAN]

Then(r, e) ==
    IF r.ok /\ Admits(r.log, e) THEN [log |-> AppendEntry(r.log, e), ok |-> TRUE]
    ELSE [r EXCEPT !.ok = FALSE]

AppendRun(l, E) ==
    CHOOSE run : run = [s \in SUBSET E |-> IF s = {} THEN [log |-> l, ok |-> TRUE]
                                           ELSE Then(run[s \ {LastToAppend(s)}], LastToAppend(s))]

\* AppendEntries is that recursion.
LEMMA AppendRuns ==
    ASSUME NEW l, NEW E PROVE AppendEntries(l, E) = AppendRun(l, E)[E]
BY DEF AppendEntries, MapThenFoldSet, AppendRun, Then

\* One step of it.
LEMMA ThenTyped ==
    ASSUME NEW r \in Done, NEW e \in Entry PROVE Then(r, e) \in Done
<1>1. r.log \in Log /\ AppendEntry(r.log, e) \in Log
  BY AdmitFields DEF Done, AppendEntry
<1> QED
  BY <1>1 DEF Then, Done

\* The recursion, written out.
LEMMA AppendRunSteps ==
    ASSUME NEW l \in Log, NEW E, Batch(E)
    PROVE  \A s \in SUBSET E :
              AppendRun(l, E)[s] = IF s = {} THEN [log |-> l, ok |-> TRUE]
                                   ELSE Then(AppendRun(l, E)[s \ {LastToAppend(s)}], LastToAppend(s))
<1> DEFINE base == [log |-> l, ok |-> TRUE]
           pick == [s \in SUBSET E |-> LastToAppend(s)]
           step == [z \in E \X Done |-> Then(z[2], z[1])]
           Body(g, s) == IF s = {} THEN base ELSE Then(g[s \ {LastToAppend(s)}], LastToAppend(s))
<1>1. \A s \in SUBSET E : s # {} => LastToAppend(s) \in s
  BY LastToAppendIsLast, BatchPart
<1>2. PICK run \in [SUBSET E -> Done] :
        /\ run[{}] = base
        /\ \A s \in SUBSET E : s # {} => run[s] = step[<<pick[s], run[s \ {pick[s]}]>>]
  <2>1. \A s \in SUBSET E : s # {} => pick[s] \in s
    BY <1>1
  <2>2. \A x \in E, v \in Done : step[<<x, v>>] \in Done
    BY ThenTyped DEF Batch
  <2>3. base \in Done /\ IsFiniteSet(E)
    BY DEF Done, Batch
  <2> HIDE DEF pick, step, base
  <2>4. Runs(E, Done, base, pick, step) # {}
    BY <2>1, <2>2, <2>3, RunExists
  <2> QED
    BY <2>4 DEF Runs
<1>3. ASSUME NEW s \in SUBSET E PROVE run[s] = Body(run, s)
  <2>1. s # {} => run[s] = step[<<pick[s], run[s \ {pick[s]}]>>]
    BY <1>2
  <2>2. CASE s = {}
    BY <1>2, <2>2
  <2>3. CASE s # {}
    <3>1. LastToAppend(s) \in E /\ pick[s] = LastToAppend(s) /\ run[s \ {LastToAppend(s)}] \in Done
      BY <1>1, <1>2, <2>3
    <3>2. step[<<LastToAppend(s), run[s \ {LastToAppend(s)}]>>]
            = Then(run[s \ {LastToAppend(s)}], LastToAppend(s))
      BY <3>1
    <3> HIDE DEF step, pick
    <3> QED
      BY <2>1, <2>3, <3>1, <3>2
  <2> QED
    BY <2>2, <2>3
<1>4. run = [s \in SUBSET E |-> Body(run, s)]
  <2>1. run = [s \in SUBSET E |-> run[s]]
    BY <1>2
  <2> HIDE DEF Body
  <2> QED
    BY <1>3, <2>1
<1>5. AppendRun(l, E) = [s \in SUBSET E |-> Body(AppendRun(l, E), s)]
  BY <1>4 DEF AppendRun
<1> SUFFICES ASSUME NEW g, g = [s \in SUBSET E |-> Body(g, s)]
             PROVE  \A s \in SUBSET E : g[s] = Body(g, s)
  BY <1>5
<1> QED
  OBVIOUS

\* What is promised of the outcome r of appending E to l.
Appended(l, E, r) ==
    /\ LogOK(r.log) /\ r \in Done
    /\ Grows(l, r.log)
    /\ r.log.entries \subseteq l.entries \cup E
    /\ r.ok => E \subseteq r.log.entries

\* One more entry of the batch.
LEMMA ThenAppended ==
    ASSUME NEW l, LogOK(l), NEW E, NEW r, Appended(l, E, r), NEW e \in Entry
    PROVE  Appended(l, E \cup {e}, Then(r, e))
<1> DEFINE m == AppendEntry(r.log, e)
<1>1. l \in Log /\ r.log \in Log /\ r \in Done /\ LogOK(r.log)
  BY DEF LogOK, WellFormed, Appended, Done
<1>2. CASE r.ok /\ Admits(r.log, e)
  <2>1. /\ LogOK(m) /\ m \in Log /\ Grows(r.log, m)
        /\ m.entries \subseteq r.log.entries \cup {e} /\ e \in m.entries
    BY <1>1, <1>2, AppendEntryOK
  <2>2. Then(r, e) = [log |-> m, ok |-> TRUE]
    BY <1>2 DEF Then
  <2> HIDE DEF m
  <2>3. Grows(l, m)
    BY <1>1, <2>1, GrowsOn DEF Appended
  <2>4. r.log.entries \subseteq m.entries /\ E \subseteq r.log.entries
        /\ r.log.entries \subseteq l.entries \cup E
    BY <1>2, <2>1 DEF Grows, Appended
  <2> QED
    BY <2>1, <2>2, <2>3, <2>4 DEF Appended, Done
<1>3. CASE ~ (r.ok /\ Admits(r.log, e))
  <2>1. Then(r, e) = [r EXCEPT !.ok = FALSE]
    BY <1>3 DEF Then
  <2>2. Then(r, e) \in Done /\ Then(r, e).log = r.log /\ ~ Then(r, e).ok
    BY <1>1, <2>1 DEF Done
  <2> QED
    BY <2>2 DEF Appended
<1> QED
  BY <1>2, <1>3

\* So it is with every part of a batch.
LEMMA PartsAppended ==
    ASSUME NEW l, LogOK(l), NEW E, Batch(E)
    PROVE  \A s \in SUBSET E : Appended(l, s, AppendRun(l, E)[s])
<1> DEFINE run == AppendRun(l, E)
           Bad == {s \in SUBSET E : ~ Appended(l, s, run[s])}
<1>1. l \in Log
  BY DEF LogOK, WellFormed
<1>2. \A s \in SUBSET E : run[s] = IF s = {} THEN [log |-> l, ok |-> TRUE]
                                   ELSE Then(run[s \ {LastToAppend(s)}], LastToAppend(s))
  BY <1>1, AppendRunSteps
<1> HIDE DEF run
<1>3. Bad = {}
  <2> SUFFICES ASSUME Bad # {} PROVE FALSE
    OBVIOUS
  <2>1. PICK s \in Bad : \A x \in s : s \ {x} \notin Bad
    <3>1. Bad \in SUBSET (SUBSET E)
      OBVIOUS
    <3> HIDE DEF Bad
    <3> QED
      BY <3>1, Smallest DEF Batch
  <2>2. s \in SUBSET E /\ ~ Appended(l, s, run[s])
    BY <2>1
  <2>3. Appended(l, {}, [log |-> l, ok |-> TRUE])
    BY <1>1, GrowsOn DEF Appended, Done
  <2>4. s # {}
    BY <1>2, <2>2, <2>3
  <2> DEFINE x == LastToAppend(s)
  <2>5. x \in s /\ x \in Entry
    BY <2>2, <2>4, LastToAppendIsLast, BatchPart DEF Batch
  <2> HIDE DEF x
  <2>6. Appended(l, s \ {x}, run[s \ {x}])
    BY <2>1, <2>2, <2>5
  <2>7. Appended(l, (s \ {x}) \cup {x}, Then(run[s \ {x}], x))
    BY <2>5, <2>6, ThenAppended
  <2>8. (s \ {x}) \cup {x} = s
    BY <2>5
  <2>9. run[s] = Then(run[s \ {x}], x)
    BY <1>2, <2>2, <2>4 DEF x
  <2> QED
    BY <2>2, <2>7, <2>8, <2>9
<1> QED
  BY <1>3 DEF run

\* AppendEntries, on whatever batch: the log stays well formed, loses nothing,
\* gains only entries of the batch, and all of them when no entry is refused.
THEOREM BatchAppended ==
    ASSUME NEW l, LogOK(l), NEW E, Batch(E)
    PROVE  Appended(l, E, AppendEntries(l, E))
BY PartsAppended, AppendRuns

-----------------------------------------------------------------------------
(* Type correctness.                                                        *)

\* A batch in hand comes from a log: of the peer who answered, or one's own.
Sourced(x, c) ==
    /\ x.pc \in {"pulled", "controlled", "accepted"} => x.entries \subseteq log[x.peer].entries
    /\ x.pc \in {"offer", "judged"} => x.entries \subseteq log[c].entries

NodesInv ==
    /\ TypeOK
    /\ \A n \in Principal : LogOK(log[n]) /\ Sourced(session[n], n)

\* In no step does a log lose anything.
LogsGrow == \A n \in Principal : LogOK(log'[n]) /\ log'[n] \in Log /\ Grows(log[n], log'[n])

\* The start.
LEMMA NodesInit == Init => NodesInv
BY NewLogOK, SyncAssumption
   DEF Init, NodesInv, TypeOK, LogOK, WellFormed, Session, Idle, Sourced

\* A session is what its pc says.
LEMMA SessionShape ==
    ASSUME NEW x \in Session
    PROVE  /\ x.pc \in {"pull", "share"} => x \in Pulling
           /\ x.pc \in {"lanes", "share lanes"} => x \in Allowed
           /\ x.pc = "shared" => x \in Shared
           /\ x.pc \in {"pulled", "controlled", "accepted"} => x \in Answered
           /\ x.pc = "push" => x \in Pushing
           /\ x.pc \in {"offer", "judged"} => x \in Offering
           /\ x.pc = "idle" => x = Idle
           /\ x.pc \in {"idle", "pull", "lanes", "pulled", "controlled", "accepted",
                        "push", "share", "share lanes", "shared", "offer", "judged"}
<1>1. CASE x = Idle
  BY <1>1 DEF Idle
<1>2. CASE x \in Pulling
  BY <1>2 DEF Pulling
<1>3. CASE x \in Allowed
  BY <1>3 DEF Allowed
<1>4. CASE x \in Shared
  BY <1>4 DEF Shared
<1>5. CASE x \in Answered
  BY <1>5 DEF Answered
<1>6. CASE x \in Pushing
  BY <1>6 DEF Pushing
<1>7. CASE x \in Offering
  BY <1>7 DEF Offering
<1> QED
  BY <1>1, <1>2, <1>3, <1>4, <1>5, <1>6, <1>7 DEF Session

\* One log grows, the others stay.
LEMMA LogStep ==
    ASSUME NodesInv, NEW n \in Principal, NEW m, LogOK(m), Grows(log[n], m),
           log' = [log EXCEPT ![n] = m]
    PROVE  LogsGrow /\ log' \in [Principal -> Log]
<1>1. log \in [Principal -> Log] /\ m \in Log /\ \A k \in Principal : LogOK(log[k])
  BY DEF NodesInv, TypeOK, LogOK, WellFormed
<1>2. \A k \in Principal : log'[k] = IF k = n THEN m ELSE log[k]
  BY <1>1
<1>3. \A k \in Principal : Grows(log[k], log[k])
  BY <1>1, GrowsOn
<1> QED
  BY <1>1, <1>2, <1>3 DEF LogsGrow

\* No log changes.
LEMMA NoLogStep ==
    ASSUME NodesInv, log' = log PROVE LogsGrow /\ log' \in [Principal -> Log]
<1>1. log \in [Principal -> Log] /\ \A k \in Principal : LogOK(log[k])
  BY DEF NodesInv, TypeOK
<1> QED
  BY <1>1, GrowsOn DEF LogsGrow

\* What a session has in hand stays sourced while logs grow.
LEMMA StaySourced ==
    ASSUME NodesInv, LogsGrow, NEW c \in Principal, NEW x \in Session, Sourced(x, c)
    PROVE  Sourced(x, c)'
<1>1. x.pc \in {"pulled", "controlled", "accepted"} => x.peer \in Principal
  BY SessionShape DEF Answered
<1>2. \A n \in Principal : log[n].entries \subseteq log'[n].entries
  BY DEF LogsGrow, Grows
<1> QED
  BY <1>1, <1>2 DEF Sourced

\* A client goes on while logs grow.
LEMMA SessionStep ==
    ASSUME NodesInv, LogsGrow, log' \in [Principal -> Log],
           NEW c \in Principal, NEW x \in Session, Sourced(x, c)', Goto(c, x),
           ids' \in [Principal -> Nat], lost' \in 0..MaxLost
    PROVE  NodesInv'
<1>1. /\ session \in [Principal -> Session]
      /\ session' \in [Principal -> Session]
      /\ \A k \in Principal : session'[k] = IF k = c THEN x ELSE session[k]
  BY DEF Goto, NodesInv, TypeOK
<1>2. \A k \in Principal : Sourced(session[k], k)
  BY DEF NodesInv
<1>3. \A k \in Principal : Sourced(session[k], k)'
  <2> TAKE k \in Principal
  <2>1. CASE k = c
    BY <1>1, <2>1 DEF Sourced
  <2>2. CASE k # c
    <3>1. session[k] \in Session /\ session'[k] = session[k]
      BY <1>1, <2>2
    <3>2. PICK y : y = session[k]
      OBVIOUS
    <3>3. y \in Session /\ Sourced(y, k) /\ y = session'[k]
      BY <1>2, <3>1, <3>2
    <3>4. Sourced(y, k)'
      BY <3>3, StaySourced
    <3> QED
      BY <3>3, <3>4 DEF Sourced
  <2> QED
    BY <2>1, <2>2
<1>4. \A k \in Principal : LogOK(log'[k])
  BY DEF LogsGrow
<1> QED
  BY <1>1, <1>3, <1>4 DEF NodesInv, TypeOK

\* A node writes an entry.
LEMMA WriteStep ==
    ASSUME NodesInv, NEW n \in Principal, NEW e \in Entry,
           log' = [log EXCEPT ![n] = AppendEntry(@, e)],
           ids' \in [Principal -> Nat], UNCHANGED <<session, lost>>
    PROVE  NodesInv' /\ LogsGrow
<1>1. LogOK(log[n])
  BY DEF NodesInv
<1>2. LogsGrow /\ log' \in [Principal -> Log]
  BY <1>1, AppendEntryOK, LogStep
<1>3. \A k \in Principal : Sourced(session[k], k)'
  <2> TAKE k \in Principal
  <2>1. PICK y : y = session[k]
    OBVIOUS
  <2>2. y \in Session /\ Sourced(y, k)
    BY <2>1 DEF NodesInv, TypeOK
  <2>3. Sourced(y, k)'
    BY <1>2, <2>2, StaySourced
  <2> QED
    BY <2>1, <2>3 DEF Sourced
<1>4. TypeOK'
  BY <1>2 DEF NodesInv, TypeOK
<1> QED
  BY <1>2, <1>3, <1>4 DEF NodesInv, LogsGrow

\* Author.Append and NewThread build Entries.
LEMMA NextEntryTyped ==
    ASSUME NEW l \in Log, NEW n \in Principal, NEW id \in Nat, NEW lane \in Lane,
           NEW draft \in Draft
    PROVE  NextEntry(l, n, id + 1, lane, draft) \in Entry
<1>1. /\ <<n, lane>> \in Chain /\ id + 1 \in Nat \ {0}
      /\ l.heads[<<n, lane>>].seq \in Nat /\ l.heads[<<n, lane>>].hash \in Nat
      /\ l.lamport \in Nat
  BY DEF Chain, Log, ChainHead
<1> QED
  BY <1>1 DEF NextEntry, Entry, GenesisPrev

\* The genesis is an Entry.
LEMMA GenesisTyped == Genesis(Creator, 1, ThreadDraft) \in Entry
BY SyncAssumption DEF Genesis, Entry, GenesisPrev, Lane

\* So is an access request.
LEMMA AccessRequestTypedToo ==
    ASSUME NEW p \in Principal, NEW id \in Nat PROVE AccessRequest(p, id + 1) \in Entry
BY SyncAssumption DEF AccessRequest, Entry, GenesisPrev, Lane

\* What a node folds is finite and has distinct ids.
LEMMA PermsDecided ==
    ASSUME NodesInv, NEW n \in Principal
    PROVE  /\ log[n].entries \in SUBSET Entry /\ IsFiniteSet(log[n].entries)
           /\ IdsUnique(log[n].entries)
           /\ Perms(n) \in State /\ Asked(Perms(n), log[n].entries)
<1>1. log[n] \in Log /\ LogOK(log[n])
  BY DEF NodesInv, TypeOK
<1>2. log[n].entries \in SUBSET Entry
  BY <1>1 DEF Log
<1> QED
  BY <1>1, <1>2, FoldDecides DEF Perms, LogOK

\* What `approve' writes is a draft.
LEMMA ApprovalTyped ==
    ASSUME NodesInv, NEW n \in Principal, NEW p \in Principal, NEW r \in Perms(n).requests[p]
    PROVE  Approval(p, r.draft.scopes) \in Draft
<1>1. r \in log[n].entries /\ r.draft.kind = "core.access_request"
  BY PermsDecided DEF Asked
<1>2. r \in Entry
  BY <1>1 DEF NodesInv, TypeOK, Log
<1> QED
  BY <1>1, <1>2, ApprovalAssumption DEF Entry

\* Who writes where, and what: the steps by which users write.
Writes(n, e) ==
    /\ e \in Entry
    /\ e.id = ids[e.author] + 1
    /\ log' = [log EXCEPT ![n] = AppendEntry(@, e)]
    /\ ids' = [ids EXCEPT ![e.author] = @ + 1]
    /\ UNCHANGED <<session, lost>>

\* A new thread.
LEMMA NewThreadWrites ==
    ASSUME NodesInv, NewThread
    PROVE  Creator \in Principal /\ Writes(Creator, Genesis(Creator, 1, ThreadDraft))
BY GenesisTyped, SyncAssumption DEF NewThread, Writes, Genesis, NodesInv, TypeOK

\* An entry authored at its node.
LEMMA AuthorWrites ==
    ASSUME NodesInv, NEW n \in Principal, NEW lane \in Lane, NEW draft \in Draft,
           Author(n, lane, draft)
    PROVE  Writes(n, NextEntry(log[n], n, ids[n] + 1, lane, draft))
<1>1. log[n] \in Log /\ ids[n] \in Nat /\ log \in [Principal -> Log]
  BY DEF NodesInv, TypeOK
<1>2. NextEntry(log[n], n, ids[n] + 1, lane, draft) \in Entry
  BY <1>1, NextEntryTyped
<1> QED
  BY <1>1, <1>2 DEF Author, Writes, NextEntry

\* A request submitted to another node.
LEMMA SubmitWrites ==
    ASSUME NodesInv, NEW p \in Principal, NEW s \in Principal, SubmitAccessRequest(p, s)
    PROVE  Writes(s, AccessRequest(p, ids[p] + 1))
<1>1. ids[p] \in Nat
  BY DEF NodesInv, TypeOK
<1>2. AccessRequest(p, ids[p] + 1) \in Entry
  BY <1>1, AccessRequestTypedToo
<1> QED
  BY <1>1, <1>2 DEF SubmitAccessRequest, Writes, AccessRequest

\* The steps of users, together.
UserStep ==
    \/ NewThread
    \/ \E w \in Posts : Post(w[1], w[2], w[3])
    \/ \E d \in Decisions : Decide(d[1], d[2])
    \/ \E n \in Approvers, p \in Principal : Approve(n, p)
    \/ \E r \in Requests : SubmitAccessRequest(r[1], r[2])

\* Every step of a user is one of these.
LEMMA UserStepWrites ==
    ASSUME NodesInv, UserStep
    PROVE  \E n \in Principal : \E e \in Entry :
              /\ Writes(n, e)
              /\ <<ChainOf(e), n>> \in WrittenAt
              /\ \/ /\ e = Genesis(Creator, 1, ThreadDraft) /\ n = Creator
                    /\ ids[Creator] = 0
                 \/ /\ Holds(n)
                    /\ \E lane \in Lane, draft \in Draft :
                          e = NextEntry(log[n], n, ids[n] + 1, lane, draft)
                 \/ /\ Holds(n)
                    /\ e = AccessRequest(e.author, ids[e.author] + 1)
<1>1. CASE NewThread
  <2>1. Creator \in Principal /\ Writes(Creator, Genesis(Creator, 1, ThreadDraft))
    BY <1>1, NewThreadWrites
  <2>2. ChainOf(Genesis(Creator, 1, ThreadDraft)) = <<Creator, "control">>
    BY DEF ChainOf, Genesis
  <2>3. <<<<Creator, "control">>, Creator>> \in WrittenAt
    BY DEF WrittenAt
  <2> QED
    BY <1>1, <2>1, <2>2, <2>3, GenesisTyped DEF NewThread
<1>2. ASSUME NEW n \in Principal, NEW lane \in Lane, NEW draft \in Draft,
             Author(n, lane, draft), <<<<n, lane>>, n>> \in WrittenAt
      PROVE  \E e \in Entry :
                /\ Writes(n, e)
                /\ <<ChainOf(e), n>> \in WrittenAt
                /\ Holds(n)
                /\ \E la \in Lane, dr \in Draft : e = NextEntry(log[n], n, ids[n] + 1, la, dr)
  <2> DEFINE e == NextEntry(log[n], n, ids[n] + 1, lane, draft)
  <2>1. Writes(n, e) /\ Holds(n)
    BY <1>2, AuthorWrites DEF Author
  <2>2. ChainOf(e) = <<n, lane>> /\ e \in Entry
    BY <2>1 DEF ChainOf, NextEntry, Writes
  <2> HIDE DEF e
  <2> QED
    BY <1>2, <2>1, <2>2 DEF e
<1>3. ASSUME NEW w \in Posts, Post(w[1], w[2], w[3])
      PROVE  \E n \in Principal, lane \in Lane, draft \in Draft :
                Author(n, lane, draft) /\ <<<<n, lane>>, n>> \in WrittenAt
  <2>1. w[1] \in Principal /\ w[2] \in Lane /\ w[3] \in Draft
    BY SyncAssumption
  <2>2. <<<<w[1], w[2]>>, w[1]>> \in WrittenAt
    BY DEF WrittenAt
  <2> QED
    BY <1>3, <2>1, <2>2 DEF Post
<1>4. ASSUME NEW d \in Decisions, Decide(d[1], d[2])
      PROVE  \E n \in Principal, lane \in Lane, draft \in Draft :
                Author(n, lane, draft) /\ <<<<n, lane>>, n>> \in WrittenAt
  <2>1. d[1] \in Principal /\ d[2] \in Draft /\ "control" \in Lane
    BY SyncAssumption DEF Lane
  <2>2. <<<<d[1], "control">>, d[1]>> \in WrittenAt
    BY DEF WrittenAt
  <2> QED
    BY <1>4, <2>1, <2>2 DEF Decide
<1>5. ASSUME NEW n \in Approvers, NEW p \in Principal, Approve(n, p)
      PROVE  \E k \in Principal, lane \in Lane, draft \in Draft :
                Author(k, lane, draft) /\ <<<<k, lane>>, k>> \in WrittenAt
  <2>1. n \in Principal /\ "control" \in Lane
    BY SyncAssumption DEF Lane
  <2>2. PICK r \in Perms(n).requests[p] : Author(n, "control", Approval(p, r.draft.scopes))
    BY <1>5 DEF Approve
  <2>3. Approval(p, r.draft.scopes) \in Draft
    BY <2>1, <2>2, ApprovalTyped
  <2>4. <<<<n, "control">>, n>> \in WrittenAt
    BY DEF WrittenAt
  <2> QED
    BY <2>1, <2>2, <2>3, <2>4
<1>6. ASSUME NEW r \in Requests, SubmitAccessRequest(r[1], r[2])
      PROVE  \E n \in Principal : \E e \in Entry :
                /\ Writes(n, e)
                /\ <<ChainOf(e), n>> \in WrittenAt
                /\ Holds(n)
                /\ e = AccessRequest(e.author, ids[e.author] + 1)
  <2> DEFINE e == AccessRequest(r[1], ids[r[1]] + 1)
  <2>1. r[1] \in Principal /\ r[2] \in Principal
    BY SyncAssumption
  <2>2. Writes(r[2], e) /\ Holds(r[2])
    BY <1>6, <2>1, SubmitWrites DEF SubmitAccessRequest
  <2>3. ChainOf(e) = <<r[1], "control">> /\ e \in Entry /\ e.author = r[1]
    BY <2>2 DEF ChainOf, AccessRequest, Writes
  <2>4. <<<<r[1], "control">>, r[2]>> \in WrittenAt
    BY DEF WrittenAt
  <2>5. e = AccessRequest(e.author, ids[e.author] + 1)
    BY <2>3
  <2> HIDE DEF e
  <2> QED
    BY <2>1, <2>2, <2>3, <2>4, <2>5
<1> QED
  BY <1>1, <1>2, <1>3, <1>4, <1>5, <1>6 DEF UserStep

\* A node writes its own entries, or a control entry.
LEMMA OwnOrControl ==
    ASSUME NodesInv, UserStep
    PROVE  \E n \in Principal : \E e \in Entry :
              Writes(n, e) /\ (e.author = n \/ e.lane = "control")
<1>1. PICK n \in Principal, e \in Entry :
        /\ Writes(n, e)
        /\ \/ e = Genesis(Creator, 1, ThreadDraft)
           \/ \E lane \in Lane, draft \in Draft :
                 e = NextEntry(log[n], n, ids[n] + 1, lane, draft)
           \/ e = AccessRequest(e.author, ids[e.author] + 1)
  BY UserStepWrites
<1>2. CASE e = Genesis(Creator, 1, ThreadDraft)
  BY <1>1, <1>2 DEF Genesis
<1>3. CASE \E lane \in Lane, draft \in Draft :
              e = NextEntry(log[n], n, ids[n] + 1, lane, draft)
  BY <1>1, <1>3 DEF NextEntry
<1>4. CASE e = AccessRequest(e.author, ids[e.author] + 1)
  BY <1>1, <1>4 DEF AccessRequest
<1> QED
  BY <1>1, <1>2, <1>3, <1>4

\* What a client has in hand is a batch, and its peer is a node.
LEMMA InHand ==
    ASSUME NodesInv, NEW c \in Principal
    PROVE  /\ session[c] \in Session /\ Sourced(session[c], c)
           /\ session[c].pc # "idle" => session[c].peer \in Principal
           /\ session[c].pc \in {"pulled", "controlled", "accepted", "offer", "judged"} =>
                 Batch(session[c].entries)
<1> DEFINE x == session[c]
<1>1. x \in Session /\ Sourced(x, c)
  BY DEF NodesInv, TypeOK
<1> HIDE DEF x
<1>2. x.pc # "idle" => x.peer \in Principal
  BY <1>1, SessionShape DEF Pulling, Allowed, Shared, Answered, Pushing, Offering
<1>3. \A n \in Principal : Batch(log[n].entries)
  BY DEF NodesInv, TypeOK, LogOK, WellFormed, Log, Positioned, Batch, OneAtPosition
<1>4. x.pc \in {"pulled", "controlled", "accepted", "offer", "judged"} => Batch(x.entries)
  BY <1>1, <1>2, <1>3, BatchPart DEF Sourced
<1> QED
  BY <1>1, <1>2, <1>4 DEF x

\* A step that touches no log.
LEMMA QuietStep ==
    ASSUME NodesInv, NEW c \in Principal, NEW x \in Session, Sourced(x, c), Goto(c, x),
           UNCHANGED <<log, ids, lost>>
    PROVE  NodesInv' /\ LogsGrow
<1>1. LogsGrow /\ log' \in [Principal -> Log]
  BY NoLogStep
<1>2. Sourced(x, c)'
  BY <1>1, StaySourced
<1>3. ids' \in [Principal -> Nat] /\ lost' \in 0..MaxLost
  BY DEF NodesInv, TypeOK
<1> QED
  BY <1>1, <1>2, <1>3, SessionStep

\* A step that appends a batch to one log.
LEMMA AppendStep ==
    ASSUME NodesInv, NEW c \in Principal, NEW x \in Session, Sourced(x, c), Goto(c, x),
           NEW n \in Principal, NEW E, Batch(E),
           log' = [log EXCEPT ![n] = AppendEntries(log[n], E).log],
           ids' = ids, lost' \in 0..MaxLost
    PROVE  NodesInv' /\ LogsGrow
<1>1. LogOK(log[n]) /\ ids' \in [Principal -> Nat]
  BY DEF NodesInv, TypeOK
<1>2. Appended(log[n], E, AppendEntries(log[n], E))
  BY <1>1, BatchAppended
<1>3. LogsGrow /\ log' \in [Principal -> Log]
  BY <1>1, <1>2, LogStep DEF Appended
<1>4. Sourced(x, c)'
  BY <1>3, StaySourced
<1> QED
  BY <1>1, <1>3, <1>4, SessionStep

\* An idle client has nothing in hand.
LEMMA IdleInHand == Idle \in Session /\ \A c : Sourced(Idle, c)
BY DEF Session, Idle, Sourced

\* The vectors that travel, and what they select.
LEMMA Selected ==
    ASSUME NodesInv, NEW n \in Principal
    PROVE  /\ Heads(log[n]) \in [Chain -> Nat]
           /\ \A lanes : PeerHeads(n, lanes) \in [Chain -> Nat]
           /\ \A p : VisibleLanes(n, p) \in SUBSET Lane
           /\ \A lanes, have : Beyond(n, lanes, have) \subseteq log[n].entries
           /\ \A heads : OwnBeyond(n, heads) \subseteq log[n].entries
           /\ log[n].entries \subseteq Entry
<1>1. log[n] \in Log
  BY DEF NodesInv, TypeOK
<1> QED
  BY <1>1, HeadsTyped
     DEF Heads, PeerHeads, VisibleLanes, Lanes, LanesOf, Beyond, OwnBeyond, After, Log

\* Step by step: a session starts.
LEMMA StartSyncStep ==
    ASSUME NodesInv, NEW c \in Principal, NEW s \in Principal, StartSync(c, s)
    PROVE  NodesInv' /\ LogsGrow
<1> DEFINE x == [pc |-> "pull", peer |-> s, have |-> Heads(log[c])]
<1>1. x \in Session /\ Sourced(x, c)
  BY Selected DEF Session, Pulling, Sourced
<1> HIDE DEF x
<1> QED
  BY <1>1, QuietStep DEF StartSync, x

\* The peer looks up the lanes.
LEMMA ServeLanesStep ==
    ASSUME NodesInv, NEW c \in Principal, ServeLanes(c) PROVE NodesInv' /\ LogsGrow
<1> DEFINE x == session[c]
           lanes == VisibleLanes(x.peer, c)
           y == [pc |-> "lanes", peer |-> x.peer, have |-> x.have, lanes |-> lanes]
<1>1. x \in Pulling
  BY InHand, SessionShape DEF ServeLanes
<1>2. lanes \in SUBSET Lane
  BY <1>1, Selected DEF Pulling
<1>3. y \in Session /\ Sourced(y, c)
  BY <1>1, <1>2 DEF Session, Allowed, Pulling, Sourced
<1>4. Goto(c, IF lanes = {} THEN Idle ELSE y) /\ UNCHANGED <<log, ids, lost>>
  BY DEF ServeLanes
<1> HIDE DEF y, lanes
<1> QED
  BY <1>3, <1>4, IdleInHand, QuietStep

\* The peer answers.
LEMMA ServeEntriesStep ==
    ASSUME NodesInv, NEW c \in Principal, ServeEntries(c) PROVE NodesInv' /\ LogsGrow
<1> DEFINE x == session[c]
           y == [pc |-> "pulled", peer |-> x.peer, heads |-> PeerHeads(x.peer, x.lanes),
                 entries |-> Beyond(x.peer, x.lanes, x.have)]
<1>1. x \in Allowed /\ x.peer \in Principal
  BY InHand, SessionShape DEF ServeEntries, Allowed
<1>2. /\ PeerHeads(x.peer, x.lanes) \in [Chain -> Nat]
      /\ Beyond(x.peer, x.lanes, x.have) \subseteq log[x.peer].entries
      /\ log[x.peer].entries \subseteq Entry
  BY <1>1, Selected
<1>3. y \in Session /\ Sourced(y, c)
  BY <1>1, <1>2 DEF Session, Answered, Sourced
<1>4. Goto(c, y) /\ UNCHANGED <<log, ids, lost>>
  BY DEF ServeEntries
<1> HIDE DEF y
<1> QED
  BY <1>3, <1>4, QuietStep

\* The client appends the control entries.
LEMMA IngestControlStep ==
    ASSUME NodesInv, NEW c \in Principal, IngestControl(c) PROVE NodesInv' /\ LogsGrow
<1> DEFINE x == session[c]
           r == AppendEntries(log[c], Control(x.entries))
           y == [x EXCEPT !.pc = "controlled", !.entries = x.entries \ Control(x.entries)]
<1>1. x \in Answered /\ Sourced(x, c) /\ Batch(x.entries)
  BY InHand, SessionShape DEF IngestControl
<1>2. y \in Answered /\ y.peer = x.peer /\ y.entries \subseteq x.entries /\ y.pc = "controlled"
  BY <1>1 DEF Answered
<1>3. y \in Session /\ Sourced(y, c)
  BY <1>1, <1>2 DEF Session, Sourced, Answered
<1>4. Batch(Control(x.entries))
  BY <1>1, BatchPart DEF Control
<1>5. /\ Goto(c, IF r.ok THEN y ELSE Idle) /\ ids' = ids /\ lost' \in 0..MaxLost
      /\ log' = [log EXCEPT ![c] = r.log]
  BY DEF IngestControl, NodesInv, TypeOK
<1> DEFINE z == IF r.ok THEN y ELSE Idle
<1>6. z \in Session /\ Sourced(z, c) /\ Goto(c, z)
  BY <1>3, <1>5, IdleInHand
<1> HIDE DEF y, z, x
<1> QED
  BY <1>4, <1>5, <1>6, AppendStep

\* The client judges the others.
LEMMA JudgePulledStep ==
    ASSUME NodesInv, NEW c \in Principal, JudgePulled(c) PROVE NodesInv' /\ LogsGrow
<1> DEFINE x == session[c]
           ok == \A e \in x.entries : MayContribute(Perms(c), e.author, e.lamport)
           y == [x EXCEPT !.pc = "accepted"]
           z == IF ok THEN y ELSE Idle
<1>1. x \in Answered /\ Sourced(x, c)
  BY InHand, SessionShape DEF JudgePulled
<1>2. y \in Answered /\ y.peer = x.peer /\ y.entries = x.entries /\ y.pc = "accepted"
  BY <1>1 DEF Answered
<1>3. y \in Session /\ Sourced(y, c)
  BY <1>1, <1>2 DEF Session, Sourced, Answered
<1>4. z \in Session /\ Sourced(z, c) /\ Goto(c, z) /\ UNCHANGED <<log, ids, lost>>
  BY <1>3, IdleInHand DEF JudgePulled
<1> HIDE DEF z
<1> QED
  BY <1>4, QuietStep

\* The client appends them.
LEMMA IngestRestStep ==
    ASSUME NodesInv, NEW c \in Principal, IngestRest(c) PROVE NodesInv' /\ LogsGrow
<1> DEFINE x == session[c]
           r == AppendEntries(log[c], x.entries)
           y == [pc |-> "push", peer |-> x.peer, heads |-> x.heads]
           z == IF r.ok THEN y ELSE Idle
<1>1. x \in Answered /\ Batch(x.entries)
  BY InHand, SessionShape DEF IngestRest
<1>2. y \in Session /\ Sourced(y, c)
  BY <1>1 DEF Session, Pushing, Answered, Sourced
<1>3. z \in Session /\ Sourced(z, c) /\ Goto(c, z)
  BY <1>2, IdleInHand DEF IngestRest
<1>4. /\ ids' = ids /\ lost' \in 0..MaxLost
      /\ log' = [log EXCEPT ![c] = r.log]
  BY DEF IngestRest, NodesInv, TypeOK
<1> HIDE DEF z, x
<1> QED
  BY <1>1, <1>3, <1>4, AppendStep

\* The client offers its own.
LEMMA PushBackStep ==
    ASSUME NodesInv, NEW c \in Principal, PushBack(c) PROVE NodesInv' /\ LogsGrow
<1> DEFINE x == session[c]
           own == OwnBeyond(c, x.heads)
           offer == IF c \in Perms(c).stewards THEN own ELSE own \ Control(own)
           y == [pc |-> "offer", peer |-> x.peer, entries |-> offer]
           z == IF offer = {} THEN Idle ELSE y
<1>1. x \in Pushing
  BY InHand, SessionShape DEF PushBack
<1>2. own \subseteq log[c].entries /\ log[c].entries \subseteq Entry
  BY Selected
<1>3. y \in Session /\ Sourced(y, c)
  BY <1>1, <1>2 DEF Session, Offering, Pushing, Sourced
<1>4. z \in Session /\ Sourced(z, c) /\ Goto(c, z) /\ UNCHANGED <<log, ids, lost>>
  BY <1>3, IdleInHand DEF PushBack
<1> HIDE DEF z
<1> QED
  BY <1>4, QuietStep

\* A thread is shared.
LEMMA StartShareStep ==
    ASSUME NodesInv, NEW c \in Principal, NEW s \in Principal, StartShare(c, s)
    PROVE  NodesInv' /\ LogsGrow
<1> DEFINE x == [pc |-> "share", peer |-> s, have |-> Heads(log[c])]
<1>1. x \in Session /\ Sourced(x, c)
  BY Selected DEF Session, Pulling, Sourced
<1> HIDE DEF x
<1> QED
  BY <1>1, QuietStep DEF StartShare, x

\* The peer looks up the lanes of who shares.
LEMMA ServeShareLanesStep ==
    ASSUME NodesInv, NEW c \in Principal, ServeShareLanes(c) PROVE NodesInv' /\ LogsGrow
<1> DEFINE x == session[c]
           lanes == VisibleLanes(x.peer, c)
           y == [pc |-> "share lanes", peer |-> x.peer, have |-> x.have, lanes |-> lanes]
           z == [pc |-> "shared", peer |-> x.peer, have |-> x.have, heads |-> NoHeads]
<1>1. x \in Pulling
  BY InHand, SessionShape DEF ServeShareLanes
<1>2. lanes \in SUBSET Lane
  BY <1>1, Selected DEF Pulling
<1>3. y \in Session /\ Sourced(y, c)
  BY <1>1, <1>2 DEF Session, Allowed, Pulling, Sourced
<1>4. z \in Session /\ Sourced(z, c)
  BY <1>1 DEF Session, Shared, Pulling, Sourced, NoHeads
<1>5. Goto(c, IF lanes = {} THEN z ELSE y) /\ UNCHANGED <<log, ids, lost>>
  BY DEF ServeShareLanes
<1> HIDE DEF y, z, lanes
<1> QED
  BY <1>3, <1>4, <1>5, QuietStep

\* The peer sends its heads.
LEMMA ServeHeadsStep ==
    ASSUME NodesInv, NEW c \in Principal, ServeHeads(c) PROVE NodesInv' /\ LogsGrow
<1> DEFINE x == session[c]
<1>1. x \in Allowed /\ x.peer \in Principal
  BY InHand, SessionShape DEF ServeHeads, Allowed
<1>2. PICK heads \in {PeerHeads(x.peer, x.lanes), NoHeads} :
        /\ Goto(c, [pc |-> "shared", peer |-> x.peer, have |-> x.have, heads |-> heads])
        /\ UNCHANGED <<log, ids, lost>>
  BY DEF ServeHeads
<1> DEFINE y == [pc |-> "shared", peer |-> x.peer, have |-> x.have, heads |-> heads]
<1>3. heads \in [Chain -> Nat]
  BY <1>1, <1>2, Selected DEF NoHeads
<1>4. y \in Session /\ Sourced(y, c)
  BY <1>1, <1>3 DEF Session, Allowed, Shared, Sourced
<1>5. Goto(c, y)
  BY <1>2
<1> HIDE DEF y
<1> QED
  BY <1>2, <1>4, <1>5, QuietStep

\* The client offers its own.
LEMMA OfferOwnStep ==
    ASSUME NodesInv, NEW c \in Principal, OfferOwn(c) PROVE NodesInv' /\ LogsGrow
<1> DEFINE x == session[c]
<1>1. x \in Shared
  BY InHand, SessionShape DEF OfferOwn
<1>2. PICK top \in {x.have, Heads(log[c])} :
        LET offer == {e \in OwnBeyond(c, x.heads) : e.seq <= top[ChainOf(e)]}
        IN  /\ Goto(c, IF offer = {} THEN Idle
                       ELSE [pc |-> "offer", peer |-> x.peer, entries |-> offer])
            /\ UNCHANGED <<log, ids, lost>>
  BY DEF OfferOwn
<1> DEFINE offer == {e \in OwnBeyond(c, x.heads) : e.seq <= top[ChainOf(e)]}
           y == [pc |-> "offer", peer |-> x.peer, entries |-> offer]
           z == IF offer = {} THEN Idle ELSE y
<1>3. offer \subseteq log[c].entries /\ log[c].entries \subseteq Entry
  BY Selected
<1>4. y \in Session /\ Sourced(y, c)
  BY <1>1, <1>3 DEF Session, Offering, Shared, Sourced
<1>5. z \in Session /\ Sourced(z, c) /\ Goto(c, z) /\ UNCHANGED <<log, ids, lost>>
  BY <1>2, <1>4, IdleInHand
<1> HIDE DEF z
<1> QED
  BY <1>5, QuietStep

\* The peer judges an offer, after it has opened the thread perhaps.
LEMMA JudgePushStep ==
    ASSUME NodesInv, NEW c \in Principal, JudgePush(c) PROVE NodesInv' /\ LogsGrow
<1> DEFINE x == session[c]
           s == x.peer
           genesis == {e \in x.entries : IsGenesis(e) /\ e.author = c}
           opened == IF Holds(s) THEN log[s] ELSE AppendEntries(log[s], genesis).log
           rest == IF Holds(s) THEN x.entries ELSE x.entries \ genesis
           y == [pc |-> "judged", peer |-> s, entries |-> rest]
<1>1. /\ x \in Offering /\ Sourced(x, c) /\ x.pc = "offer"
      /\ s \in Principal /\ Batch(x.entries) /\ Batch(genesis)
  BY InHand, SessionShape, BatchPart DEF JudgePush
<1>2. y \in Session /\ Sourced(y, c)
  BY <1>1 DEF Session, Offering, Sourced
<1>3. PICK z \in {y, Idle} : Goto(c, z)
  BY DEF JudgePush
<1>4. z \in Session /\ Sourced(z, c)
  BY <1>2, <1>3, IdleInHand
<1>5. log' = [log EXCEPT ![s] = opened] /\ ids' = ids /\ lost' = lost
  BY DEF JudgePush
<1> HIDE DEF y, x, genesis, rest
<1>6. CASE Holds(s)
  <2>1. log \in [Principal -> Log]
    BY DEF NodesInv, TypeOK
  <2>2. log' = log
    BY <1>1, <1>5, <1>6, <2>1
  <2> QED
    BY <1>3, <1>4, <1>5, <2>2, QuietStep
<1>7. CASE ~ Holds(s)
  <2>1. log' = [log EXCEPT ![s] = AppendEntries(log[s], genesis).log]
    BY <1>5, <1>7
  <2>2. lost' \in 0..MaxLost
    BY <1>5 DEF NodesInv, TypeOK
  <2> QED
    BY <1>1, <1>3, <1>4, <1>5, <2>1, <2>2, AppendStep
<1> QED
  BY <1>6, <1>7

\* The peer appends it.
LEMMA AppendPushStep ==
    ASSUME NodesInv, NEW c \in Principal, AppendPush(c) PROVE NodesInv' /\ LogsGrow
<1> DEFINE x == session[c]
<1>1. x.peer \in Principal /\ Batch(x.entries)
  BY InHand DEF AppendPush
<1>2. /\ log' = [log EXCEPT ![x.peer] = AppendEntries(log[x.peer], x.entries).log]
      /\ Goto(c, Idle) /\ ids' = ids /\ lost' \in 0..MaxLost
  BY DEF AppendPush, NodesInv, TypeOK
<1> HIDE DEF x
<1> QED
  BY <1>1, <1>2, IdleInHand, AppendStep

\* A lost session has appended some part of its batch.
LoseInto(c) == IF session[c].pc = "judged" THEN session[c].peer ELSE c

LoseBatch(c) ==
    LET x == session[c]
    IN  CASE x.pc = "pulled"                 -> Control(x.entries)
          [] x.pc \in {"accepted", "judged"} -> x.entries
          [] OTHER                           -> {}

\* What a lost session leaves behind.
LEMMA LosePart ==
    ASSUME NodesInv, NEW c \in Principal, Lose(c)
    PROVE  /\ LoseInto(c) \in Principal
           /\ \E E \in SUBSET LoseBatch(c) :
                 /\ E \in UpTo(LoseBatch(c)) /\ Batch(E)
                 /\ log' = [log EXCEPT ![LoseInto(c)] = AppendEntries(log[LoseInto(c)], E).log]
           /\ Goto(c, Idle) /\ ids' = ids /\ lost' \in 0..MaxLost
<1> DEFINE x == session[c]
<1>1. LoseInto(c) \in Principal
  BY InHand DEF LoseInto
<1>2. PICK E \in UpTo(LoseBatch(c)) :
        log' = [log EXCEPT ![LoseInto(c)] = AppendEntries(log[LoseInto(c)], E).log]
  BY DEF Lose, LoseInto, LoseBatch
<1>3. E \in SUBSET LoseBatch(c)
  BY DEF UpTo
<1>4. Batch(LoseBatch(c))
  <2>1. CASE x.pc = "pulled"
    BY <2>1, InHand, BatchPart DEF LoseBatch, Control
  <2>2. CASE x.pc \in {"accepted", "judged"}
    BY <2>2, InHand DEF LoseBatch
  <2>3. CASE x.pc \notin {"pulled", "accepted", "judged"}
    BY <2>3, FS_EmptySet DEF LoseBatch, Batch, OneAtPosition
  <2> QED
    BY <2>1, <2>2, <2>3
<1>5. Batch(E)
  BY <1>3, <1>4, BatchPart
<1>6. Goto(c, Idle) /\ ids' = ids /\ lost' \in 0..MaxLost
  BY SyncAssumption DEF Lose, NodesInv, TypeOK
<1> QED
  BY <1>1, <1>2, <1>3, <1>5, <1>6

\* A session is lost.
LEMMA LoseStep ==
    ASSUME NodesInv, NEW c \in Principal, Lose(c) PROVE NodesInv' /\ LogsGrow
BY LosePart, IdleInHand, AppendStep

\* Every step keeps the nodes' invariant, and no log loses anything.
LEMMA NodesNext == ASSUME NodesInv, [Next]_vars PROVE NodesInv' /\ LogsGrow
<1>1. CASE UserStep
  <2>1. PICK n \in Principal, e \in Entry : Writes(n, e)
    BY <1>1, UserStepWrites
  <2>2. ids' \in [Principal -> Nat]
    <3>1. ids \in [Principal -> Nat] /\ e.author \in Principal
      BY DEF NodesInv, TypeOK, Entry
    <3> QED
      BY <2>1, <3>1 DEF Writes
  <2>3. /\ log' = [log EXCEPT ![n] = AppendEntry(log[n], e)]
        /\ UNCHANGED <<session, lost>>
    BY <2>1 DEF Writes
  <2> QED
    BY <2>2, <2>3, WriteStep
<1>2. ASSUME NEW k \in Link, StartSync(k[1], k[2]) PROVE NodesInv' /\ LogsGrow
  BY <1>2, StartSyncStep, SyncAssumption
<1>3. ASSUME NEW k \in Host, StartShare(k[1], k[2]) PROVE NodesInv' /\ LogsGrow
  BY <1>3, StartShareStep, SyncAssumption
<1>4. ASSUME NEW c \in Principal, Advance(c) \/ Lose(c) PROVE NodesInv' /\ LogsGrow
  BY <1>4, ServeLanesStep, ServeEntriesStep, IngestControlStep, JudgePulledStep,
     IngestRestStep, PushBackStep, ServeShareLanesStep, ServeHeadsStep, OfferOwnStep,
     JudgePushStep, AppendPushStep, LoseStep DEF Advance
<1>5. CASE UNCHANGED vars
  <2>1. LogsGrow
    BY <1>5, NoLogStep DEF vars
  <2> QED
    BY <1>5, <2>1 DEF vars, NodesInv, TypeOK, Sourced
<1> QED
  BY <1>1, <1>2, <1>3, <1>4, <1>5 DEF Next, UserStep

\* The nodes' invariant holds in every behaviour.
THEOREM NodesInvariant == Spec => []NodesInv
<1>1. NodesInv /\ [Next]_vars => NodesInv'
  BY NodesNext
<1> QED
  BY <1>1, NodesInit, PTL DEF Spec

\* Type correctness of the nodes and their sessions.
THEOREM NodesTypeCorrect == Spec => []TypeOK
<1>1. NodesInv => TypeOK
  BY DEF NodesInv
<1> QED
  BY <1>1, NodesInvariant, PTL

-----------------------------------------------------------------------------
(* Entries are written once, and then move.                                 *)

\* A batch of entries that exist is appended to one log.
Delivery(n, E) ==
    /\ n \in Principal /\ Batch(E) /\ E \subseteq Written
    /\ log' = [log EXCEPT ![n] = AppendEntries(log[n], E).log]

\* No log changes: the empty batch.
LEMMA NothingDelivered ==
    ASSUME NodesInv, NEW n \in Principal, log' = log PROVE Delivery(n, {})
<1>1. /\ log \in [Principal -> Log] /\ log[n] \in Log /\ Batch({})
  BY FS_EmptySet DEF NodesInv, TypeOK, Batch, OneAtPosition
<1>2. AppendEntries(log[n], {}) = [log |-> log[n], ok |-> TRUE]
  BY <1>1, AppendRuns, AppendRunSteps
<1> QED
  BY <1>1, <1>2 DEF Delivery

\* What client c carries to node n: control entries that it pulled, others that it
\* has judged, a genesis that opens the thread there, or what has been judged there.
Carries(c, n, E) ==
    LET x == session[c]
    IN  \/ E = {}
        \/ n = c /\ x.pc = "pulled" /\ E \subseteq Control(x.entries)
        \/ n = c /\ x.pc = "accepted" /\ E \subseteq x.entries
        \/ /\ n = x.peer /\ x.pc = "offer" /\ ~ Holds(n)
           /\ E \subseteq {e \in x.entries : IsGenesis(e)}
        \/ n = x.peer /\ x.pc = "judged" /\ E \subseteq x.entries

\* What a session does to the logs: a batch that it has in hand is appended to
\* one of them, or nothing.
LEMMA SessionDelivers ==
    ASSUME NodesInv, NEW c \in Principal, Advance(c) \/ Lose(c)
    PROVE  ids' = ids /\ \E n \in Principal : \E E : Delivery(n, E) /\ Carries(c, n, E)
<1> DEFINE x == session[c]
<1>1. /\ x.pc # "idle" => x.peer \in Principal
      /\ x.pc \in {"pulled", "controlled", "accepted", "offer", "judged"} =>
            /\ Batch(x.entries) /\ x.entries \subseteq Written
            /\ \A E \in SUBSET x.entries : Batch(E) /\ E \subseteq Written
  BY InHand, BatchPart DEF Sourced, Written
<1> HIDE DEF x
<1>2. CASE \/ ServeLanes(c) \/ ServeEntries(c) \/ JudgePulled(c) \/ PushBack(c)
           \/ ServeShareLanes(c) \/ ServeHeads(c) \/ OfferOwn(c)
  <2>1. log' = log /\ ids' = ids
    BY <1>2 DEF ServeLanes, ServeEntries, JudgePulled, PushBack, ServeShareLanes,
                ServeHeads, OfferOwn
  <2> QED
    BY <2>1, NothingDelivered DEF Carries
<1>3. CASE IngestControl(c)
  <2>1. x.pc = "pulled" /\ ids' = ids
        /\ log' = [log EXCEPT ![c] = AppendEntries(log[c], Control(x.entries)).log]
    BY <1>3 DEF IngestControl, x
  <2>2. Control(x.entries) \in SUBSET x.entries
    BY DEF Control
  <2> QED
    BY <1>1, <2>1, <2>2 DEF Delivery, Carries, x
<1>4. CASE IngestRest(c)
  <2>1. x.pc = "accepted" /\ ids' = ids
        /\ log' = [log EXCEPT ![c] = AppendEntries(log[c], x.entries).log]
    BY <1>4 DEF IngestRest, x
  <2> QED
    BY <1>1, <2>1 DEF Delivery, Carries, x
<1>5. CASE JudgePush(c)
  <2> DEFINE genesis == {e \in x.entries : IsGenesis(e) /\ e.author = c}
  <2>1. x.pc = "offer" /\ ids' = ids
        /\ log' = [log EXCEPT ![x.peer] = IF Holds(x.peer) THEN log[x.peer]
                                          ELSE AppendEntries(log[x.peer], genesis).log]
    BY <1>5 DEF JudgePush, x
  <2>2. x.peer \in Principal /\ genesis \in SUBSET x.entries /\ log \in [Principal -> Log]
    BY <1>1, <2>1 DEF NodesInv, TypeOK
  <2>3. CASE Holds(x.peer)
    <3>1. log' = log
      BY <2>1, <2>2, <2>3
    <3> QED
      BY <2>1, <2>2, <3>1, NothingDelivered DEF Carries
  <2>4. CASE ~ Holds(x.peer)
    <3>1. genesis \subseteq {e \in x.entries : IsGenesis(e)}
      OBVIOUS
    <3> HIDE DEF genesis
    <3> QED
      BY <1>1, <2>1, <2>2, <2>4, <3>1 DEF Delivery, Carries, x
  <2> QED
    BY <2>3, <2>4
<1>6. CASE AppendPush(c)
  <2>1. x.pc = "judged" /\ ids' = ids
        /\ log' = [log EXCEPT ![x.peer] = AppendEntries(log[x.peer], x.entries).log]
    BY <1>6 DEF AppendPush, x
  <2> QED
    BY <1>1, <2>1 DEF Delivery, Carries, x
<1>7. CASE Lose(c)
  <2>1. PICK E \in SUBSET LoseBatch(c) :
          /\ Batch(E)
          /\ log' = [log EXCEPT ![LoseInto(c)] = AppendEntries(log[LoseInto(c)], E).log]
    BY <1>7, LosePart
  <2>2. LoseInto(c) \in Principal /\ ids' = ids
    BY <1>7, LosePart
  <2>3. CASE x.pc = "pulled"
    <3>1. LoseBatch(c) = Control(x.entries) /\ Control(x.entries) \subseteq x.entries
      BY <2>3 DEF LoseBatch, Control, x
    <3> QED
      BY <1>1, <2>1, <2>2, <2>3, <3>1 DEF Delivery, LoseBatch, LoseInto, Carries, x
  <2>4. CASE x.pc \in {"accepted", "judged"}
    BY <1>1, <2>1, <2>2, <2>4 DEF Delivery, LoseBatch, LoseInto, Carries, x
  <2>5. CASE x.pc \notin {"pulled", "accepted", "judged"}
    BY <1>1, <2>1, <2>2, <2>5 DEF Delivery, LoseBatch, LoseInto, Carries, x
  <2> QED
    BY <2>3, <2>4, <2>5
<1> QED
  BY <1>2, <1>3, <1>4, <1>5, <1>6, <1>7 DEF Advance

\* What a delivery changes: the receiver holds more of what was written.
LEMMA Delivered ==
    ASSUME NodesInv, NEW n \in Principal, NEW E, Delivery(n, E)
    PROVE  /\ LogsGrow /\ Written' = Written
           /\ \A m \in Principal \ {n} : log'[m] = log[m]
           /\ log'[n].entries \subseteq log[n].entries \cup E
<1>1. LogOK(log[n]) /\ log \in [Principal -> Log]
  BY DEF NodesInv, TypeOK
<1>2. Appended(log[n], E, AppendEntries(log[n], E))
  BY <1>1, BatchAppended DEF Delivery
<1>3. LogsGrow
  BY <1>2, LogStep DEF Delivery, Appended
<1>4. /\ log'[n] = AppendEntries(log[n], E).log
      /\ \A m \in Principal \ {n} : log'[m] = log[m]
  BY <1>1 DEF Delivery
<1>5. log'[n].entries \subseteq log[n].entries \cup E
  BY <1>2, <1>4 DEF Appended
<1>6. Written' = Written
  <2>1. \A m \in Principal : log[m].entries \subseteq log'[m].entries
    BY <1>3 DEF LogsGrow, Grows
  <2>2. \A m \in Principal : log'[m].entries \subseteq Written
    BY <1>4, <1>5 DEF Delivery, Written
  <2> QED
    BY <2>1, <2>2 DEF Written
<1> QED
  BY <1>3, <1>4, <1>5, <1>6

\* Every step: a user writes an entry, or entries that were written move.
LEMMA WriteOrMove ==
    ASSUME NodesInv, [Next]_vars
    PROVE  \/ UserStep
           \/ ids' = ids /\ \E n \in Principal : \E E : Delivery(n, E)
<1>1. PICK n : n \in Principal
  BY SyncAssumption
<1>2. ASSUME NEW k \in Link, StartSync(k[1], k[2]) PROVE log' = log /\ ids' = ids
  BY <1>2 DEF StartSync
<1>3. ASSUME NEW k \in Host, StartShare(k[1], k[2]) PROVE log' = log /\ ids' = ids
  BY <1>3 DEF StartShare
<1>4. CASE log' = log /\ ids' = ids
  BY <1>1, <1>4, NothingDelivered
<1>5. UNCHANGED vars => log' = log /\ ids' = ids
  BY DEF vars
<1> QED
  BY <1>2, <1>3, <1>4, <1>5, SessionDelivers DEF Next, UserStep

\* What a user's write changes.
LEMMA Wrote ==
    ASSUME NodesInv, NEW n \in Principal, NEW e, Writes(n, e)
    PROVE  /\ LogsGrow /\ e.author \in Principal
           /\ \A m \in Principal \ {n} : log'[m] = log[m]
           /\ log'[n] = AppendEntry(log[n], e)
           /\ log'[n].entries \subseteq log[n].entries \cup {e}
           /\ Written \subseteq Written' /\ Written' \subseteq Written \cup {e}
           /\ \A a \in Principal : ids'[a] = IF a = e.author THEN ids[a] + 1 ELSE ids[a]
<1>1. /\ LogOK(log[n]) /\ log \in [Principal -> Log] /\ ids \in [Principal -> Nat]
      /\ e \in Entry
  BY DEF NodesInv, TypeOK, Writes
<1>2. /\ LogOK(AppendEntry(log[n], e)) /\ Grows(log[n], AppendEntry(log[n], e))
      /\ AppendEntry(log[n], e).entries \subseteq log[n].entries \cup {e}
  BY <1>1, AppendEntryOK
<1>3. LogsGrow
  BY <1>2, LogStep DEF Writes
<1>4. /\ log'[n] = AppendEntry(log[n], e)
      /\ \A m \in Principal \ {n} : log'[m] = log[m]
      /\ \A a \in Principal : ids'[a] = IF a = e.author THEN ids[a] + 1 ELSE ids[a]
  BY <1>1 DEF Writes
<1>5. Written \subseteq Written'
  BY <1>3 DEF LogsGrow, Grows, Written
<1>6. Written' \subseteq Written \cup {e}
  BY <1>2, <1>4 DEF Written
<1>7. e.author \in Principal
  BY <1>1 DEF Entry
<1> QED
  BY <1>2, <1>3, <1>4, <1>5, <1>6, <1>7

\* An author's ids count up.
LEMMA IdsCount ==
    ASSUME NodesInv, [Next]_vars
    PROVE  \A a \in Principal : ids[a] \in Nat /\ ids'[a] \in Nat /\ ids[a] <= ids'[a]
<1>1. ids \in [Principal -> Nat]
  BY DEF NodesInv, TypeOK
<1>2. CASE UserStep
  <2>1. PICK n \in Principal, e \in Entry : Writes(n, e)
    BY <1>2, UserStepWrites
  <2> QED
    BY <1>1, <2>1, Wrote
<1>3. CASE ids' = ids
  BY <1>1, <1>3
<1> QED
  BY <1>2, <1>3, WriteOrMove

\* The first entry of all is the genesis, and its author's first id is taken by it.
Founded ==
    \A e \in Written : /\ ids[Creator] # 0
                       /\ IsGenesis(e) => e = Genesis(Creator, 1, ThreadDraft)

NodesFounded == NodesInv /\ Founded

\* So it stays, whoever writes.
LEMMA FoundedNext == ASSUME NodesFounded, [Next]_vars PROVE NodesFounded'
<1>1. NodesInv /\ NodesInv'
  BY NodesNext DEF NodesFounded
<1>2. CASE UserStep
  <2>1. PICK n \in Principal, e \in Entry :
          /\ Writes(n, e)
          /\ \/ e = Genesis(Creator, 1, ThreadDraft)
             \/ Holds(n)
    BY <1>1, <1>2, UserStepWrites
  <2>2. /\ Written' \subseteq Written \cup {e} /\ e.id = ids[e.author] + 1
        /\ \A a \in Principal : ids'[a] = IF a = e.author THEN ids[a] + 1 ELSE ids[a]
    <3>1. e.id = ids[e.author] + 1
      BY <2>1 DEF Writes
    <3> QED
      BY <1>1, <2>1, <3>1, Wrote
  <2>3. ids \in [Principal -> Nat] /\ Creator \in Principal
    BY <1>1, SyncAssumption DEF NodesInv, TypeOK
  <2>4. CASE e = Genesis(Creator, 1, ThreadDraft)
    BY <1>1, <2>2, <2>3, <2>4 DEF NodesFounded, Founded, Genesis
  <2>5. CASE Holds(n)
    <3>1. ids[Creator] # 0
      BY <2>5 DEF NodesFounded, Founded, Written, Holds
    <3>2. ~ IsGenesis(e)
      BY <2>2, <2>3, <3>1 DEF IsGenesis
    <3> QED
      BY <1>1, <2>2, <2>3, <3>1, <3>2 DEF NodesFounded, Founded
  <2> QED
    BY <1>1, <2>1, <2>4, <2>5 DEF NodesFounded
<1>3. CASE ids' = ids /\ \E n \in Principal : \E E : Delivery(n, E)
  <2>1. Written' = Written
    BY <1>1, <1>3, Delivered
  <2> QED
    BY <1>1, <1>3, <2>1 DEF NodesFounded, Founded
<1> QED
  BY <1>1, <1>2, <1>3, WriteOrMove

\* The start.
LEMMA FoundedInit == Init => NodesFounded
BY NodesInit DEF NodesFounded, Founded, Init, Written, NewThreadLog

\* So it is in every behaviour.
LEMMA FoundedInvariant == Spec => []NodesFounded
<1>1. Init => NodesFounded
  BY FoundedInit
<1>2. NodesFounded /\ [Next]_vars => NodesFounded'
  BY FoundedNext
<1> QED
  BY <1>1, <1>2, PTL DEF Spec

-----------------------------------------------------------------------------
(* How a session moves.                                                     *)

\* The steps that put something in a client's hand, or judge it.
Serves(c) ==
    \/ ServeLanes(c) \/ ServeEntries(c) \/ IngestControl(c)
    \/ JudgePulled(c) \/ JudgePush(c)

\* What any other step leaves in hand.
Bare == {"idle", "pull", "push", "share", "share lanes", "shared", "offer"}

\* A step of a client starts from a session, and keeps the peer or ends it.
LEMMA ClientMoves ==
    ASSUME NodesInv, NEW c \in Principal, Advance(c) \/ Lose(c)
    PROVE  /\ session[c].pc # "idle"
           /\ \A k \in Principal \ {c} : session'[k] = session[k]
           /\ session'[c].pc = "idle" \/ session'[c].peer = session[c].peer
           /\ Serves(c) \/ session'[c].pc \in Bare
<1> DEFINE x == session[c]
<1>1. session \in [Principal -> Session] /\ x \in Session
  BY DEF NodesInv, TypeOK
<1>3. Idle.pc = "idle" /\ "idle" \in Bare
  BY DEF Idle, Bare
<1>4. CASE ServeLanes(c) \/ ServeEntries(c)
  BY <1>1, <1>3, <1>4 DEF ServeLanes, ServeEntries, Serves, Goto
<1>5. CASE IngestControl(c)
  <2>1. x \in Answered
    BY <1>5, InHand, SessionShape DEF IngestControl
  <2>2. PICK y : y = [x EXCEPT !.pc = "controlled", !.entries = @ \ Control(@)]
    OBVIOUS
  <2>3. y.peer = x.peer
    BY <2>1, <2>2 DEF Answered
  <2> QED
    BY <1>1, <1>3, <1>5, <2>2, <2>3 DEF IngestControl, Serves, Goto
<1>6. CASE JudgePulled(c)
  <2>1. x \in Answered
    BY <1>6, InHand, SessionShape DEF JudgePulled
  <2>2. PICK y : y = [x EXCEPT !.pc = "accepted"]
    OBVIOUS
  <2>3. y.peer = x.peer
    BY <2>1, <2>2 DEF Answered
  <2> QED
    BY <1>1, <1>3, <1>6, <2>2, <2>3 DEF JudgePulled, Serves, Goto
<1>7. CASE IngestRest(c)
  BY <1>1, <1>3, <1>7 DEF IngestRest, Bare, Goto
<1>8. CASE PushBack(c)
  BY <1>1, <1>3, <1>8 DEF PushBack, Bare, Goto
<1>9. CASE ServeShareLanes(c)
  BY <1>1, <1>3, <1>9 DEF ServeShareLanes, Bare, Goto
<1>10. CASE ServeHeads(c)
  <2>1. PICK heads : /\ x.pc = "share lanes"
                     /\ Goto(c, [pc |-> "shared", peer |-> x.peer, have |-> x.have,
                                 heads |-> heads])
    BY <1>10 DEF ServeHeads
  <2> QED
    BY <1>1, <2>1 DEF Bare, Goto
<1>11. CASE OfferOwn(c)
  <2>1. PICK E : /\ x.pc = "shared"
                 /\ Goto(c, IF E = {} THEN Idle
                            ELSE [pc |-> "offer", peer |-> x.peer, entries |-> E])
    BY <1>11 DEF OfferOwn
  <2> QED
    BY <1>1, <1>3, <2>1 DEF Bare, Goto
<1>12. CASE JudgePush(c)
  <2>1. PICK E : /\ x.pc = "offer"
                 /\ \/ Goto(c, [pc |-> "judged", peer |-> x.peer, entries |-> E])
                    \/ Goto(c, Idle)
    BY <1>12 DEF JudgePush
  <2> QED
    BY <1>1, <1>3, <1>12, <2>1 DEF Serves, Goto
<1>13. CASE AppendPush(c)
  BY <1>1, <1>3, <1>13 DEF AppendPush, Goto
<1>14. CASE Lose(c)
  <2>1. x.pc # "idle"
    BY <1>1, <1>14, SessionShape DEF Lose
  <2> QED
    BY <1>1, <1>3, <1>14, <2>1 DEF Lose, Goto
<1> QED
  BY <1>4, <1>5, <1>6, <1>7, <1>8, <1>9, <1>10, <1>11, <1>12, <1>13, <1>14 DEF Advance

\* What any step does to the session of c.
Moved(c) ==
    \/ session'[c] = session[c]
    \/ /\ session'[c].pc \in {"pull", "share"}
       /\ <<c, session'[c].peer>> \in Link \cup Host
    \/ /\ session[c].pc # "idle"
       /\ session'[c].pc = "idle" \/ session'[c].peer = session[c].peer
       /\ Serves(c) \/ session'[c].pc \in Bare

\* Every step.
LEMMA Moves == ASSUME NodesInv, [Next]_vars, NEW c \in Principal PROVE Moved(c)
<1>1. session \in [Principal -> Session]
  BY DEF NodesInv, TypeOK
<1>2. CASE UserStep
  <2>1. session' = session
    BY <1>2, UserStepWrites DEF Writes
  <2> QED
    BY <2>1 DEF Moved
<1>3. ASSUME NEW k \in Link, StartSync(k[1], k[2]) PROVE Moved(c)
  <2>1. k[1] \in Principal /\ k = <<k[1], k[2]>>
    BY SyncAssumption
  <2>2. PICK y : y = [pc |-> "pull", peer |-> k[2], have |-> Heads(log[k[1]])]
    OBVIOUS
  <2>3. session' = [session EXCEPT ![k[1]] = y]
    BY <1>3, <2>2 DEF StartSync, Goto
  <2>4. session'[c] = IF c = k[1] THEN y ELSE session[c]
    BY <1>1, <2>3
  <2> QED
    BY <2>1, <2>2, <2>4 DEF Moved
<1>4. ASSUME NEW k \in Host, StartShare(k[1], k[2]) PROVE Moved(c)
  <2>1. k[1] \in Principal /\ k = <<k[1], k[2]>>
    BY SyncAssumption
  <2>2. PICK y : y = [pc |-> "share", peer |-> k[2], have |-> Heads(log[k[1]])]
    OBVIOUS
  <2>3. session' = [session EXCEPT ![k[1]] = y]
    BY <1>4, <2>2 DEF StartShare, Goto
  <2>4. session'[c] = IF c = k[1] THEN y ELSE session[c]
    BY <1>1, <2>3
  <2> QED
    BY <2>1, <2>2, <2>4 DEF Moved
<1>5. ASSUME NEW d \in Principal, Advance(d) \/ Lose(d) PROVE Moved(c)
  BY <1>5, ClientMoves DEF Moved
<1>6. CASE UNCHANGED vars
  BY <1>6 DEF vars, Moved
<1> QED
  BY <1>2, <1>3, <1>4, <1>5, <1>6 DEF Next, UserStep

\* Where the entries that a log gains come from.
LEMMA Arrivals ==
    ASSUME NodesFounded, [Next]_vars, NEW n \in Principal,
           NEW e \in log'[n].entries \ log[n].entries
    PROVE  \/ e.lane = "control" \/ e.author = n
           \/ \E c \in Principal : e \in ForNode(c, n)
<1>1. NodesInv
  BY DEF NodesFounded
<1>2. CASE UserStep
  <2>1. PICK m \in Principal, f \in Entry : Writes(m, f) /\ (f.author = m \/ f.lane = "control")
    BY <1>1, <1>2, OwnOrControl
  <2>2. /\ \A k \in Principal \ {m} : log'[k] = log[k]
        /\ log'[m].entries \subseteq log[m].entries \cup {f}
    BY <1>1, <2>1, Wrote
  <2> QED
    BY <2>1, <2>2
<1>3. ASSUME NEW c \in Principal, Advance(c) \/ Lose(c)
      PROVE  \/ e.lane = "control"
             \/ e \in ForNode(c, n)
  <2>1. PICK m \in Principal : \E E : Delivery(m, E) /\ Carries(c, m, E)
    BY <1>1, <1>3, SessionDelivers
  <2>2. PICK E : Delivery(m, E) /\ Carries(c, m, E)
    BY <2>1
  <2>3. m = n /\ e \in E
    BY <1>1, <2>2, Delivered
  <2> DEFINE x == session[c]
  <2>4. x.pc = "offer" => x.entries \subseteq log[c].entries
    BY <1>1 DEF NodesInv, Sourced
  <2>5. ASSUME x.pc = "offer", e \in x.entries, IsGenesis(e) PROVE e.lane = "control"
    <3>1. e \in Written
      BY <2>4, <2>5 DEF Written
    <3> QED
      BY <2>5, <3>1 DEF NodesFounded, Founded, Genesis
  <2>6. e \in Control(x.entries) => e.lane = "control"
    BY DEF Control
  <2> HIDE DEF x
  <2> QED
    BY <2>2, <2>3, <2>5, <2>6 DEF Carries, ForNode, x
<1>4. log' # log
  OBVIOUS
<1>5. ASSUME NEW k \in Link \cup Host, StartSync(k[1], k[2]) \/ StartShare(k[1], k[2])
      PROVE  FALSE
  BY <1>4, <1>5 DEF StartSync, StartShare
<1>6. ~ UNCHANGED vars
  BY <1>4 DEF vars
<1> QED
  BY <1>2, <1>3, <1>5, <1>6 DEF Next, UserStep

-----------------------------------------------------------------------------
(* Whose entries a node accepts.                                            *)

\* What is in hand for a node after a step was so before, or is judged now.
JudgedInWindow ==
    \A c \in Principal : \A n \in Principal : \A e \in ForNode(c, n)' :
        \/ e.lane = "control" \/ e \in ForNode(c, n)
        \/ InWindow(log'[n].entries, e.author, e.lamport)

\* The judge goes by the decisions it holds.
LEMMA JudgesByDecisions == ASSUME NodesInv, [Next]_vars PROVE JudgedInWindow
<1> SUFFICES ASSUME NEW c \in Principal, NEW n \in Principal, NEW e \in ForNode(c, n)'
             PROVE  \/ e.lane = "control" \/ e \in ForNode(c, n)
                    \/ InWindow(log'[n].entries, e.author, e.lamport)
  BY DEF JudgedInWindow
<1> DEFINE x == session[c]
<1>0. session \in [Principal -> Session] /\ NodesInv' /\ LogsGrow
  BY NodesNext DEF NodesInv, TypeOK
<1>1. Moved(c)
  BY Moves
<1>2. /\ e \in session'[c].entries
      /\ \/ session'[c].pc = "accepted" /\ c = n
         \/ session'[c].pc = "judged" /\ session'[c].peer = n
  BY DEF ForNode
<1>3. CASE session'[c] = session[c]
  BY <1>3 DEF ForNode
<1>4. CASE JudgePulled(c)
  <2>1. x \in Answered /\ log[c].entries \in SUBSET Entry
    BY <1>4, InHand, SessionShape, PermsDecided DEF JudgePulled
  <2>2. PICK y : y = [x EXCEPT !.pc = "accepted"]
    OBVIOUS
  <2>3. y.entries = x.entries /\ y.pc = "accepted" /\ Idle.pc = "idle" /\ x.entries \subseteq Entry
    BY <2>1, <2>2 DEF Answered, Idle
  <2>4. /\ session'[c] = y \/ session'[c] = Idle
        /\ session'[c] = Idle \/
              \A f \in x.entries : MayContribute(Perms(c), f.author, f.lamport)
        /\ log' = log
    BY <1>0, <1>4, <2>2 DEF JudgePulled, Goto
  <2>5. e \in x.entries /\ MayContribute(Perms(c), e.author, e.lamport) /\ n = c
    BY <1>2, <2>3, <2>4
  <2>6. e.author \in Principal /\ e.lamport \in Nat
    BY <2>3, <2>5 DEF Entry
  <2>7. InWindow(log[c].entries, e.author, e.lamport)
    BY <2>5, <2>6, PermsDecided, WritesInWindow DEF Perms
  <2> QED
    BY <2>4, <2>5, <2>7
<1>5. CASE JudgePush(c)
  <2> DEFINE s == x.peer
             genesis == {f \in x.entries : IsGenesis(f) /\ f.author = c}
             opened == IF Holds(s) THEN log[s] ELSE AppendEntries(log[s], genesis).log
             rest == IF Holds(s) THEN x.entries ELSE x.entries \ genesis
  <2>1. x \in Offering /\ s \in Principal /\ log \in [Principal -> Log]
    BY <1>5, InHand, SessionShape DEF JudgePush, Offering, NodesInv, TypeOK
  <2>2. PICK y : y = [pc |-> "judged", peer |-> s, entries |-> rest]
    OBVIOUS
  <2>3. y.entries = rest /\ y.peer = s /\ Idle.pc = "idle"
    BY <2>2 DEF Idle
  <2>4. /\ session'[c] = y \/ session'[c] = Idle
        /\ session'[c] = Idle \/ \A f \in rest : MayPush(Fold(opened.entries), c, f)
        /\ log' = [log EXCEPT ![s] = opened]
    BY <1>0, <1>5, <2>2 DEF JudgePush, Goto
  <2>5. log'[s] = opened /\ rest \subseteq Entry
    BY <2>1, <2>4 DEF Offering
  <2> HIDE DEF rest, opened
  <2>6. y.pc = "judged"
    BY <2>2
  <2>7. e \in rest /\ MayPush(Fold(opened.entries), c, e) /\ n = s
    BY <1>2, <2>3, <2>4, <2>6
  <2>8. e.author \in Principal /\ e.lamport \in Nat
    BY <2>5, <2>7 DEF Entry
  <2>9. /\ opened.entries \in SUBSET Entry /\ IsFiniteSet(opened.entries)
        /\ IdsUnique(opened.entries)
    BY <1>0, <2>1, <2>5 DEF LogsGrow, LogOK, Log
  <2>10. e.lane = "control" \/ InWindow(opened.entries, e.author, e.lamport)
    BY <2>7, <2>8, <2>9, WritesInWindow DEF MayPush
  <2> QED
    BY <2>5, <2>7, <2>10
<1>6. CASE ServeLanes(c) \/ ServeEntries(c) \/ IngestControl(c)
  <2>1. session'[c].pc \in {"idle", "lanes", "pulled", "controlled"}
    <3>1. CASE ServeLanes(c) \/ ServeEntries(c)
      BY <1>0, <3>1 DEF ServeLanes, ServeEntries, Goto, Idle
    <3>2. CASE IngestControl(c)
      <4>1. x \in Answered
        BY <3>2, InHand, SessionShape DEF IngestControl
      <4>2. PICK y : y = [x EXCEPT !.pc = "controlled", !.entries = @ \ Control(@)]
        OBVIOUS
      <4>3. y.pc = "controlled"
        BY <4>1, <4>2 DEF Answered
      <4> QED
        BY <1>0, <3>2, <4>2, <4>3 DEF IngestControl, Goto, Idle
    <3> QED
      BY <1>6, <3>1, <3>2
  <2> QED
    BY <1>2, <2>1
<1>7. CASE session'[c].pc \in Bare \cup {"pull", "share"}
  BY <1>2, <1>7 DEF Bare
<1> QED
  BY <1>1, <1>3, <1>4, <1>5, <1>6, <1>7 DEF Moved, Serves

\* Nobody's writing is accepted without the right to it, whoever syncs with whom:
\* a summary or content entry of others reaches a log only out of a batch that was
\* judged for it, in a pull or a push, and there it was in its author's window by
\* the decisions, with all grants, denies and revokes, that the log held.
THEOREM OnlyContributorsWrite == Spec => OnlyContributors
<1>1. ASSUME NodesFounded, [Next]_vars
      PROVE  /\ \A c \in Principal : \A n \in Principal : \A e \in ForNode(c, n)' :
                   \/ e.lane = "control" \/ e \in ForNode(c, n)
                   \/ InWindow(log'[n].entries, e.author, e.lamport)
             /\ \A n \in Principal : \A e \in log'[n].entries \ log[n].entries :
                   \/ e.lane = "control" \/ e.author = n
                   \/ \E c \in Principal : e \in ForNode(c, n)
  <2>1. JudgedInWindow
    BY <1>1, JudgesByDecisions DEF NodesFounded
  <2> QED
    BY <1>1, <2>1, Arrivals DEF JudgedInWindow
<1> QED
  BY <1>1, FoundedInvariant, PTL DEF Spec, OnlyContributors

-----------------------------------------------------------------------------
(* Lanes.                                                                   *)

\* Sessions run along links, or where a thread may be shared.
Partnered ==
    \A c \in Principal :
        session[c].pc # "idle" => <<c, session[c].peer>> \in Link \cup Host

PartnersInv == NodesFounded /\ Partnered

\* A session keeps its peer.
LEMMA PartnersNext == ASSUME PartnersInv, [Next]_vars PROVE PartnersInv'
<1>1. NodesFounded' /\ NodesInv
  BY FoundedNext DEF PartnersInv, NodesFounded
<1>2. ASSUME NEW c \in Principal, session'[c].pc # "idle"
      PROVE  <<c, session'[c].peer>> \in Link \cup Host
  <2>1. Moved(c)
    BY <1>1, Moves
  <2> QED
    BY <1>2, <2>1 DEF Moved, PartnersInv, Partnered
<1> QED
  BY <1>1, <1>2 DEF PartnersInv, Partnered

\* So it is in every behaviour.
LEMMA PartnersInvariant == Spec => []PartnersInv
<1>1. Init => PartnersInv
  BY FoundedInit DEF Init, PartnersInv, Partnered, Idle
<1>2. PartnersInv /\ [Next]_vars => PartnersInv'
  BY PartnersNext
<1> QED
  BY <1>1, <1>2, PTL DEF Spec

\* The peer shows what the decisions it holds leave open.
LEMMA AnswersWithin ==
    ASSUME NodesInv, [Next]_vars, NEW c \in Principal PROVE AnsweredWithin(c)
<1> DEFINE x == session[c]
<1>0. session \in [Principal -> Session] /\ Idle.pc = "idle"
  BY DEF NodesInv, TypeOK, Idle
<1>1. Moved(c)
  BY Moves
<1>2. CASE session'[c] = session[c]
  BY <1>2 DEF AnsweredWithin
<1>3. CASE session'[c].pc \in Bare \cup {"pull", "share", "judged"}
  BY <1>3 DEF AnsweredWithin, Bare
<1>4. CASE ServeLanes(c)
  <2>1. x.peer \in Principal
    BY <1>4, InHand DEF ServeLanes
  <2>2. PICK y : y = [pc |-> "lanes", peer |-> x.peer, have |-> x.have,
                      lanes |-> VisibleLanes(x.peer, c)]
    OBVIOUS
  <2>3. (session'[c] = y \/ session'[c] = Idle) /\ log' = log
    BY <1>0, <1>4, <2>2 DEF ServeLanes, Goto
  <2>4. \A lane \in VisibleLanes(x.peer, c) : LaneOpen(log[x.peer].entries, c, lane)
    BY <2>1, PermsDecided, ShownAreOpen DEF VisibleLanes, Perms
  <2>5. y.pc = "lanes" /\ y.peer = x.peer /\ y.lanes = VisibleLanes(x.peer, c)
    BY <2>2
  <2> HIDE DEF x
  <2> QED
    BY <1>0, <2>3, <2>4, <2>5 DEF AnsweredWithin
<1>5. CASE ServeEntries(c)
  <2>1. x.pc = "lanes" /\ x.peer \in Principal
    BY <1>5, InHand DEF ServeEntries
  <2>2. PICK y : y = [pc |-> "pulled", peer |-> x.peer, heads |-> PeerHeads(x.peer, x.lanes),
                      entries |-> Beyond(x.peer, x.lanes, x.have)]
    OBVIOUS
  <2>3. session'[c] = y /\ y.pc = "pulled" /\ y.entries = Beyond(x.peer, x.lanes, x.have)
    BY <1>0, <1>5, <2>2 DEF ServeEntries, Goto
  <2>4. \A e \in Beyond(x.peer, x.lanes, x.have) : e.lane \in x.lanes
    BY DEF Beyond, After, ChainOf
  <2> QED
    BY <2>1, <2>3, <2>4 DEF AnsweredWithin
<1>6. CASE IngestControl(c)
  <2>1. x \in Answered /\ x.pc = "pulled"
    BY <1>6, InHand, SessionShape DEF IngestControl
  <2>2. PICK y : y = [x EXCEPT !.pc = "controlled", !.entries = @ \ Control(@)]
    OBVIOUS
  <2>3. y.pc = "controlled" /\ y.entries \subseteq x.entries
    BY <2>1, <2>2 DEF Answered
  <2>4. session'[c] = y \/ session'[c] = Idle
    BY <1>0, <1>6, <2>2 DEF IngestControl, Goto
  <2> QED
    BY <1>0, <2>1, <2>3, <2>4 DEF AnsweredWithin
<1>7. CASE JudgePulled(c)
  <2>1. x \in Answered /\ x.pc = "controlled"
    BY <1>7, InHand, SessionShape DEF JudgePulled
  <2>2. PICK y : y = [x EXCEPT !.pc = "accepted"]
    OBVIOUS
  <2>3. y.pc = "accepted" /\ y.entries = x.entries
    BY <2>1, <2>2 DEF Answered
  <2>4. session'[c] = y \/ session'[c] = Idle
    BY <1>0, <1>7, <2>2 DEF JudgePulled, Goto
  <2> QED
    BY <1>0, <2>1, <2>3, <2>4 DEF AnsweredWithin
<1>8. CASE JudgePush(c)
  <2>1. PICK E : \/ Goto(c, [pc |-> "judged", peer |-> x.peer, entries |-> E])
                 \/ Goto(c, Idle)
    BY <1>8 DEF JudgePush
  <2>2. PICK y : y = [pc |-> "judged", peer |-> x.peer, entries |-> E]
    OBVIOUS
  <2>3. (session'[c] = y \/ session'[c] = Idle) /\ y.pc = "judged"
    BY <1>0, <2>1, <2>2 DEF Goto
  <2> QED
    BY <1>0, <2>3 DEF AnsweredWithin
<1> QED
  BY <1>1, <1>2, <1>3, <1>4, <1>5, <1>6, <1>7, <1>8 DEF Moved, Serves

\* Lane confinement, whoever syncs with whom: what a client is allowed is open to
\* it then, what it is sent is within that, and a node to which nobody pushes gets
\* nothing else.
THEOREM PullersAreConfined == Spec => LanesConfined
<1>1. ASSUME PartnersInv, [Next]_vars
      PROVE  /\ \A c \in Principal : AnsweredWithin(c)
             /\ \A n \in Principal : \A e \in log'[n].entries \ log[n].entries :
                   \/ ~ PullOnly(n) \/ e.lane = "control" \/ e.author = n
                   \/ session[n].pc = "accepted" /\ e \in session[n].entries
  <2>1. NodesFounded /\ NodesInv
    BY <1>1 DEF PartnersInv, NodesFounded
  <2>2. \A c \in Principal : AnsweredWithin(c)
    BY <1>1, <2>1, AnswersWithin
  <2>3. ASSUME NEW n \in Principal, NEW e \in log'[n].entries \ log[n].entries, PullOnly(n)
        PROVE  \/ e.lane = "control" \/ e.author = n
               \/ session[n].pc = "accepted" /\ e \in session[n].entries
    <3>1. ASSUME NEW c \in Principal, e \in ForNode(c, n)
          PROVE  session[n].pc = "accepted" /\ e \in session[n].entries
      <4>1. ~ (session[c].pc = "judged" /\ session[c].peer = n)
        BY <1>1, <2>3 DEF PartnersInv, Partnered, PullOnly
      <4> QED
        BY <3>1, <4>1 DEF ForNode
    <3> QED
      BY <1>1, <2>1, <2>3, <3>1, Arrivals
  <2> QED
    BY <2>2, <2>3
<1> QED
  BY <1>1, PartnersInvariant, PTL DEF Spec, LanesConfined

-----------------------------------------------------------------------------
(* Chains with one home.                                                    *)

\* Every entry is at a home of its chain, under an id that nobody else uses.
Homes ==
    /\ IdsUnique(Written)
    /\ \A e \in Written :
          /\ e.id <= ids[e.author]
          /\ \E h \in Principal : <<ChainOf(e), h>> \in WrittenAt /\ e \in log[h].entries

HomesInv == NodesFounded /\ Homes

\* When every chain has one home, whoever writes at it holds the whole chain.
LEMMA HomeHolds ==
    ASSUME OneHome, HomesInv, NEW e \in Written, NEW h, <<ChainOf(e), h>> \in WrittenAt
    PROVE  h \in Principal /\ e \in log[h].entries
<1>1. PICK k \in Principal : <<ChainOf(e), k>> \in WrittenAt /\ e \in log[k].entries
  BY DEF HomesInv, Homes
<1>2. <<ChainOf(e), k>>[2] = <<ChainOf(e), h>>[2]
  BY <1>1 DEF OneHome
<1> QED
  BY <1>1, <1>2

\* What a user writes is either refused or new, and the writer holds all of its chain.
LEMMA WritesAtHome ==
    ASSUME OneHome, HomesInv, NEW n \in Principal, NEW e \in Entry, Writes(n, e),
           <<ChainOf(e), n>> \in WrittenAt
    PROVE  /\ e \notin Written /\ log[n] \in Log
           /\ \A f \in Written : ~ SameId(e, f)
           /\ ~ Extends(log[n], e) => log' = log
           /\ Extends(log[n], e) => /\ Written' = Written \cup {e}
                                    /\ \A f \in Written : ChainOf(f) = ChainOf(e) =>
                                          f.seq < e.seq
<1>1. /\ NodesInv /\ log \in [Principal -> Log] /\ log[n] \in Log
      /\ WellFormed(log[n]) /\ ids \in [Principal -> Nat]
  BY DEF HomesInv, NodesFounded, NodesInv, TypeOK, LogOK
<1>2. ASSUME NEW f \in Written PROVE ~ SameId(e, f)
  <2>1. e.id = ids[e.author] + 1 /\ e.author \in Principal
    BY DEF Writes, Entry
  <2>2. f.id <= ids[f.author] /\ f \in Entry
    BY <1>1 DEF HomesInv, Homes, Written, Log
  <2>3. ids[e.author] \in Nat /\ f.id \in Nat
    BY <1>1, <2>1, <2>2 DEF Entry
  <2> QED
    BY <2>1, <2>2, <2>3 DEF SameId
<1>3. e \notin Written
  BY <1>2 DEF SameId
<1>4. log' = [log EXCEPT ![n] = AppendEntry(log[n], e)]
  BY DEF Writes
<1>5. ASSUME ~ Extends(log[n], e) PROVE log' = log
  BY <1>1, <1>4, <1>5, HeadsAfterAppend
<1>6. ASSUME Extends(log[n], e) PROVE Written' = Written \cup {e}
  <2>1. e \in log'[n].entries
    BY <1>1, <1>4, <1>6, HeadsAfterAppend
  <2>2. Written \subseteq Written' /\ Written' \subseteq Written \cup {e}
    BY <1>1, Wrote
  <2> QED
    BY <2>1, <2>2 DEF Written
<1>7. ASSUME Extends(log[n], e), NEW f \in Written, ChainOf(f) = ChainOf(e)
      PROVE  f.seq < e.seq
  <2>1. f \in log[n].entries /\ f \in Entry
    BY <1>1, <1>7, HomeHolds DEF Log
  <2>2. ChainOf(e) \in Chain /\ e.seq = log[n].heads[ChainOf(e)].seq + 1
    BY <1>7, ChainOfEntry DEF Extends
  <2>3. f.seq <= log[n].heads[ChainOf(e)].seq
    BY <1>1, <1>7, <2>1, <2>2 DEF WellFormed, Contiguous
  <2>4. log[n].heads[ChainOf(e)].seq \in Nat /\ f.seq \in Nat
    BY <1>1, <2>1, <2>2, HeadsTyped DEF Entry
  <2> QED
    BY <2>2, <2>3, <2>4
<1> QED
  BY <1>1, <1>2, <1>3, <1>5, <1>6, <1>7

\* So it stays: writers are at home, and entries move without a change.
LEMMA HomesNext == ASSUME OneHome, HomesInv, [Next]_vars PROVE HomesInv'
<1>1. NodesInv /\ NodesFounded' /\ LogsGrow
  BY FoundedNext, NodesNext DEF HomesInv, NodesFounded
<1>2. ASSUME NEW e, NEW h \in Principal, e \in log[h].entries PROVE e \in log'[h].entries
  BY <1>1, <1>2 DEF LogsGrow, Grows
<1>3. ASSUME NEW e \in Written
      PROVE  /\ e.id <= ids'[e.author]
             /\ \E h \in Principal : <<ChainOf(e), h>> \in WrittenAt /\ e \in log'[h].entries
  <2>1. e \in Entry
    BY <1>1 DEF NodesInv, TypeOK, Written, Log
  <2>2. e.author \in Principal /\ e.id \in Nat /\ e.id <= ids[e.author]
    BY <2>1 DEF HomesInv, Homes, Entry
  <2>3. e.id <= ids'[e.author]
    BY <1>1, <2>2, IdsCount
  <2> QED
    BY <1>2, <2>3 DEF HomesInv, Homes
<1>4. CASE Written' = Written
  BY <1>1, <1>3, <1>4 DEF HomesInv, Homes
<1>5. CASE UserStep
  <2>1. PICK n \in Principal, e \in Entry : Writes(n, e) /\ <<ChainOf(e), n>> \in WrittenAt
    BY <1>1, <1>5, UserStepWrites
  <2>2. /\ ~ Extends(log[n], e) => log' = log
        /\ Extends(log[n], e) => Written' = Written \cup {e}
        /\ \A f \in Written : ~ SameId(e, f)
    BY <2>1, WritesAtHome
  <2>3. CASE log' = log
    <3>1. Written' = Written
      BY <2>3 DEF Written
    <3> QED
      BY <1>4, <3>1
  <2>4. CASE Extends(log[n], e) /\ Written' = Written \cup {e}
    <3>1. e.id = ids[e.author] + 1 /\ ids'[e.author] = ids[e.author] + 1
          /\ ids[e.author] \in Nat /\ e.author \in Principal
      <4>1. e.author \in Principal /\ ids'[e.author] = ids[e.author] + 1
        BY <1>1, <2>1, Wrote
      <4> QED
        BY <1>1, <2>1, <4>1 DEF Writes, NodesInv, TypeOK
    <3>2. e \in log'[n].entries
      <4>1. e \notin Written
        BY <2>1, WritesAtHome
      <4>2. \A m \in Principal \ {n} : log'[m] = log[m]
        BY <1>1, <2>1, Wrote
      <4> QED
        BY <2>4, <4>1, <4>2 DEF Written
    <3>3. IdsUnique(Written')
      BY <2>2, <2>4 DEF HomesInv, Homes, IdsUnique, SameId
    <3>4. \A f \in Written' :
            /\ f.id <= ids'[f.author]
            /\ \E h \in Principal : <<ChainOf(f), h>> \in WrittenAt /\ f \in log'[h].entries
      BY <1>3, <2>1, <2>4, <3>1, <3>2
    <3> QED
      BY <1>1, <3>3, <3>4 DEF HomesInv, Homes
  <2> QED
    BY <2>2, <2>3, <2>4
<1>6. CASE \E n \in Principal : \E E : Delivery(n, E)
  BY <1>1, <1>4, <1>6, Delivered
<1> QED
  BY <1>1, <1>5, <1>6, WriteOrMove

\* The start.
LEMMA HomesInit == Init => HomesInv
BY FoundedInit DEF Init, HomesInv, Homes, Written, NewThreadLog, IdsUnique

\* So it is in every behaviour.
LEMMA HomesInvariant == ASSUME OneHome PROVE Spec => []HomesInv
<1>1. Init => HomesInv
  BY HomesInit
<1>2. HomesInv /\ [Next]_vars => HomesInv'
  BY HomesNext
<1> QED
  BY <1>1, <1>2, PTL DEF Spec

-----------------------------------------------------------------------------
(* Sessions implement version vectors.                                      *)

\* What the nodes hold, as numbers.
Vectors == [n \in Principal |-> Heads(log[n])]

\* The table of the nodes' vectors.
LEMMA VectorsTyped ==
    ASSUME NodesInv
    PROVE  /\ Vectors \in [Principal -> [Chain -> Nat]]
           /\ \A n \in Principal : Vectors[n] = Heads(log[n])
           /\ Vectors' = [n \in Principal |-> [c \in Chain |-> Vectors'[n][c]]]
           /\ \A n \in Principal : Vectors'[n] = Heads(log'[n])
<1>1. \A n \in Principal : Heads(log[n]) \in [Chain -> Nat]
  BY HeadsTyped DEF NodesInv, TypeOK, Heads, Log, ChainHead
<1> QED
  BY <1>1 DEF Vectors, Heads

\* Users write as the abstract specification does, or are refused.
LEMMA WriteRefines ==
    ASSUME OneHome, HomesInv, NEW n \in Principal, NEW e \in Entry, Writes(n, e),
           <<ChainOf(e), n>> \in WrittenAt
    PROVE  VV!Write(n) \/ UNCHANGED VV!vars
<1>1. NodesInv /\ log[n] \in Log /\ ChainOf(e) \in Chain
  BY ChainOfEntry DEF HomesInv, NodesFounded, NodesInv, TypeOK
<1>2. CASE ~ Extends(log[n], e)
  <2>1. log' = log
    BY <1>2, WritesAtHome
  <2> QED
    BY <2>1 DEF VV!vars, Written, Vectors
<1>3. CASE Extends(log[n], e)
  <2>1. /\ Written' = Written \cup {e} /\ e \notin Written
        /\ \A f \in Written : ChainOf(f) = ChainOf(e) => f.seq < e.seq
    BY <1>3, WritesAtHome
  <2>2. /\ log'[n] = AppendEntry(log[n], e)
        /\ \A m \in Principal \ {n} : log'[m] = log[m]
    BY <1>1, Wrote
  <2>3. /\ e.seq = Heads(log[n])[ChainOf(e)] + 1
        /\ \A c \in Chain : Heads(log'[n])[c] =
                              IF c = ChainOf(e) THEN e.seq ELSE Heads(log[n])[c]
    BY <1>1, <1>3, <2>2, HeadsAfterAppend
  <2>4. Vectors' = [Vectors EXCEPT ![n][ChainOf(e)] = e.seq]
    <3>1. /\ \A m \in Principal \ {n} : Vectors'[m] = Vectors[m]
          /\ \A c \in Chain : Vectors'[n][c] =
                                IF c = ChainOf(e) THEN e.seq ELSE Vectors[n][c]
      BY <1>1, <2>2, <2>3, VectorsTyped
    <3> QED
      BY <1>1, <3>1, VectorsTyped, VectorUpdate
  <2>5. e.seq = Vectors[n][ChainOf(e)] + 1
    BY <1>1, <2>3, VectorsTyped
  <2> QED
    BY <2>1, <2>4, <2>5 DEF VV!Write, Vectors
<1> QED
  BY <1>2, <1>3

\* Where batches move, a node catches up with what was written.
LEMMA DeliveryRefines ==
    ASSUME NodesInv, NEW n \in Principal, NEW E, Delivery(n, E)
    PROVE  VV!Deliver(n)
<1>1. /\ LogsGrow /\ Written' = Written
      /\ \A m \in Principal \ {n} : log'[m] = log[m]
  BY Delivered
<1>2. \A m \in Principal \ {n} : Vectors'[m] = Vectors[m]
  BY <1>1, VectorsTyped
<1>3. ASSUME NEW c \in Chain, Vectors'[n][c] # Vectors[n][c] PROVE VV!Catches(n, c)
  <2> DEFINE old == log[n].heads[c].seq
             new == log'[n].heads[c].seq
  <2>1. /\ log[n] \in Log /\ log'[n] \in Log /\ WellFormed(log'[n])
        /\ old <= new
    BY <1>1 DEF NodesInv, TypeOK, LogsGrow, Grows, LogOK
  <2>2. /\ old \in Nat /\ new \in Nat
        /\ Vectors[n][c] = old /\ Vectors'[n][c] = new
    BY <2>1, HeadsTyped, VectorsTyped
  <2>3. old < new /\ new \in 1..new
    BY <1>3, <2>1, <2>2
  <2>4. PICK e \in log'[n].entries : ChainOf(e) = c /\ e.seq = new
    BY <2>1, <2>3 DEF WellFormed, Contiguous
  <2>5. e \in Written
    BY <1>1, <2>4 DEF Written
  <2> HIDE DEF old, new
  <2>6. Vectors[n][c] < Vectors'[n][c] /\ e.seq = Vectors'[n][c]
    BY <2>2, <2>3, <2>4
  <2> QED
    BY <2>4, <2>5, <2>6 DEF VV!Catches, Vectors
<1> QED
  BY <1>1, <1>2, <1>3 DEF VV!Deliver, Vectors

\* However sessions overlap, break off or repeat a batch: where every chain has
\* one home, each step of the nodes writes, delivers, or leaves the vectors alone.
THEOREM SessionsRefine == ASSUME OneHome PROVE Spec => ImplementsVersionVectors
<1>1. Init => VV!Init
  <2> SUFFICES ASSUME Init PROVE VV!Init
    OBVIOUS
  <2>1. \A n \in Principal : Heads(log[n]) = [c \in Chain |-> 0] /\ log[n].entries = {}
    BY DEF Init, NewThreadLog, Heads
  <2> QED
    BY <2>1 DEF VV!Init, Written
<1>2. HomesInv /\ [Next]_vars => [VV!Next]_(VV!vars)
  <2> SUFFICES ASSUME HomesInv, [Next]_vars PROVE [VV!Next]_(VV!vars)
    OBVIOUS
  <2>1. NodesInv
    BY DEF HomesInv, NodesFounded
  <2>2. CASE UserStep
    <3>1. PICK n \in Principal, e \in Entry : Writes(n, e) /\ <<ChainOf(e), n>> \in WrittenAt
      BY <2>1, <2>2, UserStepWrites
    <3> QED
      BY <3>1, WriteRefines DEF VV!Next
  <2>3. CASE \E n \in Principal : \E E : Delivery(n, E)
    BY <2>1, <2>3, DeliveryRefines DEF VV!Next
  <2> QED
    BY <2>1, <2>2, <2>3, WriteOrMove
<1> QED
  BY <1>1, <1>2, HomesInvariant, PTL DEF Spec, ImplementsVersionVectors, VV!Spec

-----------------------------------------------------------------------------
(* Batches that fit.                                                        *)

\* A set of entries in which nothing is forked: one entry at an id and at a
\* position, each names the one before it, and the genesis is a first one.
Unforked(W) ==
    /\ W \subseteq Entry
    /\ IdsUnique(W) /\ OneAtPosition(W)
    /\ \A e \in W : /\ e.seq = 1 => e.prev = GenesisPrev
                    /\ e.seq # 1 => \E p \in W : /\ ChainOf(p) = ChainOf(e)
                                                 /\ p.seq + 1 = e.seq
                                                 /\ e.prev = Hash(p)
                    /\ IsGenesis(e) => e.seq = 1

\* Between what l holds of a chain and an entry of E of the chain, E has no gap.
NoGaps(l, E) ==
    \A e \in E : \A s \in Nat :
        l.heads[ChainOf(e)].seq < s /\ s < e.seq =>
            \E f \in E : ChainOf(f) = ChainOf(e) /\ f.seq = s

\* One entry fits once what comes before it in its chain is there.
LEMMA EntryFits ==
    ASSUME NEW W, Unforked(W), NEW l \in Log, WellFormed(l), l.entries \subseteq W,
           NEW e \in W,
           \A s \in Nat : l.heads[ChainOf(e)].seq < s => s >= e.seq
    PROVE  Admits(l, e)
<1> DEFINE c == ChainOf(e)
           h == l.heads[c].seq
<1>1. /\ e \in Entry /\ c \in Chain /\ e.seq \in Nat \ {0}
      /\ h \in Nat /\ \A s \in Nat : h < s => s >= e.seq
  BY ChainOfEntry, HeadsTyped DEF Unforked, Entry
<1> SUFFICES ASSUME e \notin l.entries PROVE Extends(l, e)
  BY DEF Admits, Redelivered
<1>2. ~ IdTaken(l, e)
  BY DEF IdTaken, Unforked, IdsUnique, SameId
<1>3. e.seq <= h + 1
  BY <1>1
<1>4. ASSUME NEW f \in l.entries, ChainOf(f) = c PROVE f.seq # e.seq
  BY <1>4 DEF Unforked, OneAtPosition
<1>5. e.seq \notin 1..h
  BY <1>1, <1>4 DEF WellFormed, Contiguous
<1>6. e.seq = h + 1
  <2> HIDE DEF c, h
  <2> QED
    BY <1>1, <1>3, <1>5
<1>7. CASE h = 0
  <2>1. e.prev = GenesisPrev
    BY <1>1, <1>6, <1>7 DEF Unforked
  <2> QED
    BY <1>2, <1>6, <1>7, <2>1 DEF Extends
<1>8. CASE h # 0
  <2>1. PICK p \in W : ChainOf(p) = c /\ p.seq + 1 = e.seq /\ e.prev = Hash(p)
    <3>1. e.seq # 1
      BY <1>1, <1>6, <1>8
    <3> QED
      BY <3>1 DEF Unforked
  <2>2. PICK f \in l.entries : ChainOf(f) = c /\ f.seq = h
    <3>1. h \in 1..h
      BY <1>1, <1>8
    <3> QED
      BY <1>1, <3>1 DEF WellFormed, Contiguous
  <2>3. f = p
    <3>1. p.seq \in Nat
      BY DEF Unforked, Entry
    <3>2. p.seq = h
      BY <1>1, <1>6, <2>1, <3>1
    <3> QED
      BY <2>1, <2>2, <3>2 DEF Unforked, OneAtPosition
  <2>4. l.heads[c].hash = Hash(f)
    BY <2>2 DEF WellFormed, Positioned
  <2> QED
    BY <1>2, <1>6, <1>8, <2>1, <2>3, <2>4 DEF Extends
<1> QED
  BY <1>7, <1>8

\* A batch without gaps is appended to the end, in the order of orderForAppend.
THEOREM BatchFits ==
    ASSUME NEW W, Unforked(W), NEW l, LogOK(l), l.entries \subseteq W,
           NEW E, Batch(E), E \subseteq W, NoGaps(l, E)
    PROVE  AppendEntries(l, E).ok
<1> DEFINE run == AppendRun(l, E)
           Begins(s) == \A e \in s, f \in E : LessAppend(f, e) => f \in s
           Bad == {s \in SUBSET E : Begins(s) /\ ~ run[s].ok}
<1>1. l \in Log
  BY DEF LogOK, WellFormed
<1>2. \A s \in SUBSET E : run[s] = IF s = {} THEN [log |-> l, ok |-> TRUE]
                                   ELSE Then(run[s \ {LastToAppend(s)}], LastToAppend(s))
  BY <1>1, AppendRunSteps
<1>3. \A s \in SUBSET E : Appended(l, s, run[s])
  BY PartsAppended
<1> HIDE DEF run
<1>4. \A e \in E : e \in Entry /\ e.author \in Nat /\ e.seq \in Nat /\ LaneRank(e.lane) \in Nat
  BY PrincipalAssumption DEF Batch, Entry, Lane, LaneRank
<1>5. \A e, f \in E : ~ (LessAppend(e, f) /\ LessAppend(f, e))
  BY <1>4 DEF LessAppend
<1>6. Bad = {}
  <2> SUFFICES ASSUME Bad # {} PROVE FALSE
    OBVIOUS
  <2>1. PICK s \in Bad : \A x \in s : s \ {x} \notin Bad
    <3>1. Bad \in SUBSET (SUBSET E)
      OBVIOUS
    <3> HIDE DEF Bad
    <3> QED
      BY <3>1, Smallest DEF Batch
  <2>2. s \in SUBSET E /\ Begins(s) /\ ~ run[s].ok
    BY <2>1
  <2>3. s # {}
    <3> SUFFICES ASSUME s = {} PROVE FALSE
      OBVIOUS
    <3>1. run[s] = [log |-> l, ok |-> TRUE]
      BY <1>2, <2>2
    <3> QED
      BY <2>2, <3>1
  <2> DEFINE x == LastToAppend(s)
             r == run[s \ {x}]
             m == r.log
  <2>4. x \in s /\ \A f \in s \ {x} : LessAppend(f, x)
    BY <2>2, <2>3, LastToAppendIsLast, BatchPart
  <2>5. run[s] = Then(r, x) /\ s \ {x} \in SUBSET E
    BY <1>2, <2>2, <2>3
  <2> HIDE DEF x
  <2>6. Begins(s \ {x})
    BY <1>5, <2>2, <2>4
  <2>7. r.ok
    BY <2>1, <2>4, <2>5, <2>6
  <2>8. Appended(l, s \ {x}, r)
    BY <1>3, <2>5
  <2>9. /\ m \in Log /\ WellFormed(m) /\ Grows(l, m) /\ s \ {x} \subseteq m.entries
        /\ m.entries \subseteq W
    BY <2>2, <2>7, <2>8 DEF Appended, LogOK, Done
  <2> HIDE DEF r
  <2>10. x \in W /\ x \in E /\ x \in Entry /\ ChainOf(x) \in Chain
    BY <1>4, <2>2, <2>4, ChainOfEntry
  <2>11. ASSUME NEW i \in Nat, m.heads[ChainOf(x)].seq < i, i < x.seq PROVE FALSE
    <3>1. /\ l.heads[ChainOf(x)].seq <= m.heads[ChainOf(x)].seq
          /\ l.heads[ChainOf(x)].seq \in Nat /\ m.heads[ChainOf(x)].seq \in Nat
      BY <1>1, <2>9, <2>10, HeadsTyped DEF Grows
    <3>2. PICK f \in E : ChainOf(f) = ChainOf(x) /\ f.seq = i
      <4>1. l.heads[ChainOf(x)].seq < i
        BY <2>11, <3>1
      <4> QED
        BY <2>10, <2>11, <4>1 DEF NoGaps
    <3>3. ~ IsGenesis(x)
      <4>1. x.seq # 1
        BY <2>11, <3>1
      <4> QED
        BY <2>10, <4>1 DEF Unforked
    <3>4. LessAppend(f, x)
      <4>1. f.lane = x.lane /\ f.author = x.author /\ f.seq < x.seq
        BY <2>11, <3>2 DEF ChainOf
      <4>2. IsGenesis(f) \/ IsGenesis(f) = IsGenesis(x)
        BY <3>3, Zenon DEF IsGenesis
      <4> QED
        BY <3>3, <4>1, <4>2 DEF LessAppend
    <3>5. f \in s /\ f # x
      BY <2>2, <2>4, <2>11, <3>2, <3>4
    <3>6. f.seq <= m.heads[ChainOf(x)].seq
      BY <2>9, <2>10, <3>2, <3>5 DEF WellFormed, Contiguous
    <3> QED
      BY <2>11, <3>1, <3>2, <3>6
  <2>12. \A i \in Nat : m.heads[ChainOf(x)].seq < i => i >= x.seq
    BY <1>4, <2>10, <2>11
  <2>13. Admits(m, x)
    BY <2>9, <2>10, <2>12, EntryFits
  <2>14. Then(r, x).ok
    BY <2>7, <2>13 DEF Then
  <2> QED
    BY <2>2, <2>5, <2>14
<1>7. Begins(E) /\ E \in SUBSET E
  OBVIOUS
<1>8. run[E].ok
  BY <1>6, <1>7
<1> QED
  BY <1>8, AppendRuns DEF run

\* Where every chain has one home, nothing that is written is forked.
LEMMA WrittenUnforked ==
    ASSUME OneHome, HomesInv PROVE Unforked(Written)
<1>1. \A n \in Principal : log[n] \in Log /\ WellFormed(log[n])
  BY DEF HomesInv, NodesFounded, NodesInv, TypeOK, LogOK
<1>2. Written \subseteq Entry
  BY <1>1 DEF Written, Log
<1>3. IdsUnique(Written)
  BY DEF HomesInv, Homes
<1>4. ASSUME NEW e \in Written, NEW f \in Written, ChainOf(e) = ChainOf(f), e.seq = f.seq
      PROVE  e = f
  <2>1. PICK h \in Principal : <<ChainOf(e), h>> \in WrittenAt /\ e \in log[h].entries
    BY DEF HomesInv, Homes
  <2>2. f \in log[h].entries
    BY <1>4, <2>1, HomeHolds
  <2> QED
    BY <1>1, <1>4, <2>1, <2>2 DEF WellFormed, Positioned
<1>5. ASSUME NEW e \in Written
      PROVE  /\ e.seq = 1 => e.prev = GenesisPrev
             /\ e.seq # 1 => \E p \in Written : /\ ChainOf(p) = ChainOf(e)
                                                /\ p.seq + 1 = e.seq
                                                /\ e.prev = Hash(p)
             /\ IsGenesis(e) => e.seq = 1
  <2>1. PICK h \in Principal : e \in log[h].entries
    BY DEF Written
  <2>2. IF e.seq = 1
        THEN e.prev = GenesisPrev
        ELSE \E p \in log[h].entries : /\ ChainOf(p) = ChainOf(e)
                                       /\ p.seq + 1 = e.seq
                                       /\ e.prev = Hash(p)
    BY <1>1, <2>1 DEF WellFormed, Linked
  <2>3. log[h].entries \subseteq Written
    BY DEF Written
  <2>4. IsGenesis(e) => e.seq = 1
    BY DEF HomesInv, NodesFounded, Founded, Genesis
  <2> QED
    BY <2>2, <2>3, <2>4
<1> QED
  BY <1>2, <1>3, <1>4, <1>5 DEF Unforked, OneAtPosition

\* A vector that a log is at least as far as.
Behind(v, l) == \A k \in Chain : v[k] <= l.heads[k].seq

\* What a log holds of some chains beyond a vector.
Past(l, K, v) == UNION {After(l, k, v[k]) : k \in K}

\* What a log holds of some chains beyond a vector has no gaps for whoever is at
\* least as far as the vector; nor has what is left of it without control entries.
LEMMA AfterNoGaps ==
    ASSUME NEW l, WellFormed(l), NEW K \in SUBSET Chain, NEW v \in [Chain -> Nat],
           NEW m \in Log, Behind(v, m), NEW E, E = Past(l, K, v)
    PROVE  NoGaps(m, E) /\ NoGaps(m, E \ Control(E))
<1>1. ASSUME NEW e \in E, NEW s \in Nat, m.heads[ChainOf(e)].seq < s, s < e.seq
      PROVE  \E f \in E : ChainOf(f) = ChainOf(e) /\ f.seq = s
  <2>1. PICK k \in K : e \in After(l, k, v[k])
    BY DEF Past
  <2>2. ChainOf(e) = k /\ k \in Chain /\ e \in l.entries /\ e \in Entry
    BY <2>1 DEF After, WellFormed, Log
  <2>3. e.seq <= l.heads[k].seq /\ l.heads[k].seq \in Nat /\ e.seq \in Nat
    BY <2>2, HeadsTyped DEF WellFormed, Contiguous, Entry
  <2>4. v[k] <= m.heads[k].seq /\ m.heads[k].seq \in Nat /\ v[k] \in Nat
    BY <2>2, HeadsTyped DEF Behind
  <2>5. s \in 1..l.heads[k].seq /\ s > v[k]
    BY <1>1, <2>2, <2>3, <2>4
  <2>6. PICK f \in l.entries : ChainOf(f) = k /\ f.seq = s
    BY <2>2, <2>5 DEF WellFormed, Contiguous
  <2>7. f \in After(l, k, v[k])
    BY <2>5, <2>6 DEF After
  <2> QED
    BY <2>2, <2>6, <2>7 DEF Past
<1>2. \A e, f \in E : ChainOf(f) = ChainOf(e) /\ e \notin Control(E) => f \notin Control(E)
  BY DEF ChainOf, Control
<1>3. NoGaps(m, E)
  BY <1>1 DEF NoGaps
<1>4. NoGaps(m, E \ Control(E))
  <2>1. ASSUME NEW e \in E \ Control(E), NEW s \in Nat, m.heads[ChainOf(e)].seq < s, s < e.seq
        PROVE  \E f \in E \ Control(E) : ChainOf(f) = ChainOf(e) /\ f.seq = s
    <3>1. PICK f \in E : ChainOf(f) = ChainOf(e) /\ f.seq = s
      BY <1>1, <2>1
    <3> QED
      BY <1>2, <3>1
  <2> QED
    BY <2>1 DEF NoGaps
<1> QED
  BY <1>3, <1>4

\* What holds of a log goes on holding when it grows.
LEMMA StayBehind ==
    ASSUME NEW l \in Log, NEW m \in Log, Grows(l, m)
    PROVE  /\ \A v \in [Chain -> Nat] : Behind(v, l) => Behind(v, m)
           /\ \A E \in SUBSET Entry : NoGaps(l, E) => NoGaps(m, E)
<1>1. \A k \in Chain : /\ l.heads[k].seq \in Nat /\ m.heads[k].seq \in Nat
                       /\ l.heads[k].seq <= m.heads[k].seq
  BY HeadsTyped DEF Grows
<1>2. ASSUME NEW v \in [Chain -> Nat], Behind(v, l), NEW k \in Chain
      PROVE  v[k] <= m.heads[k].seq
  BY <1>1, <1>2 DEF Behind
<1>3. ASSUME NEW E \in SUBSET Entry, NoGaps(l, E), NEW e \in E, NEW s \in Nat,
             m.heads[ChainOf(e)].seq < s, s < e.seq
      PROVE  \E f \in E : ChainOf(f) = ChainOf(e) /\ f.seq = s
  <2>1. ChainOf(e) \in Chain
    BY ChainOfEntry
  <2>2. l.heads[ChainOf(e)].seq < s
    BY <1>1, <1>3, <2>1
  <2> QED
    BY <1>3, <2>2 DEF NoGaps
<1> QED
  BY <1>2, <1>3 DEF Behind, NoGaps

\* What a client has in hand is up to date enough: the vectors that travel are
\* behind the logs they came from, and a batch has no gap for its receiver.
InStep(x, c) ==
    /\ x.pc \in {"pull", "lanes"} => Behind(x.have, log[c])
    /\ x.pc \in {"pulled", "controlled", "accepted", "push", "shared"} =>
          Behind(x.heads, log[x.peer])
    /\ x.pc \in {"pulled", "controlled", "accepted"} => NoGaps(log[c], x.entries)
    /\ x.pc \in {"offer", "judged"} => NoGaps(log[x.peer], x.entries)

StepInv == HomesInv /\ \A c \in Principal : InStep(session[c], c)

\* What is in step stays so while logs grow.
LEMMA StayInStep ==
    ASSUME NodesInv, LogsGrow, NEW c \in Principal, NEW x \in Session, InStep(x, c)
    PROVE  InStep(x, c)'
<1>1. \A n \in Principal :
        /\ \A v \in [Chain -> Nat] : Behind(v, log[n]) => Behind(v, log'[n])
        /\ \A E \in SUBSET Entry : NoGaps(log[n], E) => NoGaps(log'[n], E)
  <2> TAKE n \in Principal
  <2>1. log[n] \in Log /\ log'[n] \in Log /\ Grows(log[n], log'[n])
    BY DEF NodesInv, TypeOK, LogsGrow
  <2> QED
    BY <2>1, StayBehind
<1>2. CASE x \in Pulling \cup Allowed
  BY <1>1, <1>2 DEF InStep, Pulling, Allowed
<1>3. CASE x \in Answered
  BY <1>1, <1>3 DEF InStep, Answered
<1>4. CASE x \in Pushing
  BY <1>1, <1>4 DEF InStep, Pushing
<1>5. CASE x \in Offering
  BY <1>1, <1>5 DEF InStep, Offering
<1>6. CASE x \in Shared
  BY <1>1, <1>6 DEF InStep, Shared
<1>7. CASE x = Idle
  BY <1>7 DEF InStep, Idle
<1> QED
  BY <1>2, <1>3, <1>4, <1>5, <1>6, <1>7 DEF Session

\* The vectors that travel, where they come from.
LEMMA VectorsBehind ==
    ASSUME NodesInv, NEW n \in Principal
    PROVE  /\ log[n] \in Log /\ WellFormed(log[n])
           /\ Behind(Heads(log[n]), log[n])
           /\ \A lanes : PeerHeads(n, lanes) \in [Chain -> Nat]
                         /\ Behind(PeerHeads(n, lanes), log[n])
<1>1. log[n] \in Log /\ WellFormed(log[n])
  BY DEF NodesInv, TypeOK, LogOK
<1>2. \A k \in Chain : log[n].heads[k].seq \in Nat /\ Heads(log[n])[k] = log[n].heads[k].seq
  BY <1>1, HeadsTyped
<1>3. \A k \in Chain : log[n].heads[k].seq <= log[n].heads[k].seq /\ 0 <= log[n].heads[k].seq
  BY <1>2
<1>4. Behind(Heads(log[n]), log[n])
  BY <1>2, <1>3 DEF Behind
<1>5. ASSUME NEW lanes PROVE Behind(PeerHeads(n, lanes), log[n])
  BY <1>3 DEF Behind, PeerHeads
<1>6. \A lanes : PeerHeads(n, lanes) \in [Chain -> Nat]
  BY <1>2 DEF PeerHeads
<1> QED
  BY <1>1, <1>4, <1>5, <1>6

\* What is left of a batch up to some seq of each chain has no gap either.
LEMMA PrefixNoGaps ==
    ASSUME NEW m \in Log, NEW E \in SUBSET Entry, NoGaps(m, E), NEW top \in [Chain -> Nat]
    PROVE  NoGaps(m, {e \in E : e.seq <= top[ChainOf(e)]})
<1> SUFFICES ASSUME NEW e \in E, e.seq <= top[ChainOf(e)], NEW s \in Nat,
                    m.heads[ChainOf(e)].seq < s, s < e.seq
             PROVE  \E f \in E : /\ f.seq <= top[ChainOf(f)]
                                 /\ ChainOf(f) = ChainOf(e) /\ f.seq = s
  BY DEF NoGaps
<1>1. PICK f \in E : ChainOf(f) = ChainOf(e) /\ f.seq = s
  BY DEF NoGaps
<1>2. ChainOf(e) \in Chain
  BY ChainOfEntry
<1>3. e.seq \in Nat /\ top[ChainOf(e)] \in Nat
  BY <1>2 DEF Entry
<1> QED
  BY <1>1, <1>3

\* An offer has no gap for the peer whose heads it answers.
LEMMA OfferInStep ==
    ASSUME NodesInv, NEW c \in Principal, NEW s \in Principal, NEW v \in [Chain -> Nat],
           Behind(v, log[s])
    PROVE  /\ NoGaps(log[s], OwnBeyond(c, v))
           /\ NoGaps(log[s], OwnBeyond(c, v) \ Control(OwnBeyond(c, v)))
<1> DEFINE K == {<<c, lane>> : lane \in Lane}
<1>1. K \in SUBSET Chain
  BY DEF Chain
<1>2. OwnBeyond(c, v) = Past(log[c], K, v)
  BY DEF OwnBeyond, Past
<1>3. WellFormed(log[c]) /\ log[s] \in Log
  BY VectorsBehind
<1> HIDE DEF K
<1> QED
  BY <1>1, <1>2, <1>3, AfterNoGaps

\* A session starts in step.
LEMMA StartsInStep ==
    ASSUME NodesInv, NEW c \in Principal, NEW s \in Principal
    PROVE  /\ StartSync(c, s) => \E x \in Session : Goto(c, x) /\ InStep(x, c)
           /\ StartShare(c, s) => \E x \in Session : Goto(c, x) /\ InStep(x, c)
<1>1. ASSUME StartSync(c, s) PROVE \E x \in Session : Goto(c, x) /\ InStep(x, c)
  <2>1. PICK x : x = [pc |-> "pull", peer |-> s, have |-> Heads(log[c])]
    OBVIOUS
  <2>2. x \in Session /\ InStep(x, c)
    BY <2>1, Selected, VectorsBehind DEF Session, Pulling, InStep
  <2> QED
    BY <1>1, <2>1, <2>2 DEF StartSync
<1>2. ASSUME StartShare(c, s) PROVE \E x \in Session : Goto(c, x) /\ InStep(x, c)
  <2>1. PICK x : x = [pc |-> "share", peer |-> s, have |-> Heads(log[c])]
    OBVIOUS
  <2>2. x \in Session /\ InStep(x, c)
    BY <2>1, Selected DEF Session, Pulling, InStep
  <2> QED
    BY <1>2, <2>1, <2>2 DEF StartShare
<1> QED
  BY <1>1, <1>2

\* The client that pulled, or offers.
LEMMA QuietInStep ==
    ASSUME StepInv, NEW c \in Principal,
           ServeLanes(c) \/ ServeEntries(c) \/ JudgePulled(c) \/ PushBack(c)
    PROVE  \E x \in Session : Goto(c, x) /\ InStep(x, c)
<1>1. /\ NodesInv /\ InStep(session[c], c) /\ session[c] \in Session
      /\ session[c].pc # "idle" => session[c].peer \in Principal
  BY InHand DEF StepInv, HomesInv, NodesFounded
<1>2. Idle \in Session /\ InStep(Idle, c)
  BY DEF Session, Idle, InStep
<1>3. PICK y : y = session[c]
  OBVIOUS
<1>4. CASE ServeLanes(c)
  <2>1. PICK lanes : lanes = VisibleLanes(y.peer, c)
    OBVIOUS
  <2>2. PICK x : x = [pc |-> "lanes", peer |-> y.peer, have |-> y.have, lanes |-> lanes]
    OBVIOUS
  <2>3. y \in Pulling /\ (Goto(c, Idle) \/ Goto(c, x)) /\ y.pc = "pull"
    BY <1>1, <1>3, <1>4, <2>1, <2>2, SessionShape DEF ServeLanes
  <2>4. lanes \in SUBSET Lane
    BY <1>1, <2>1, <2>3, Selected DEF Pulling
  <2>5. x \in Session /\ InStep(x, c)
    BY <1>1, <1>3, <2>2, <2>3, <2>4 DEF Session, Pulling, Allowed, InStep
  <2> QED
    BY <1>2, <2>3, <2>5
<1>5. CASE ServeEntries(c)
  <2>1. PICK x : x = [pc |-> "pulled", peer |-> y.peer, heads |-> PeerHeads(y.peer, y.lanes),
                      entries |-> Beyond(y.peer, y.lanes, y.have)]
    OBVIOUS
  <2>2. y \in Allowed /\ Goto(c, x) /\ y.pc = "lanes"
    BY <1>1, <1>3, <1>5, <2>1, SessionShape DEF ServeEntries
  <2>3. /\ y.peer \in Principal /\ y.have \in [Chain -> Nat] /\ Behind(y.have, log[c])
        /\ PeerHeads(y.peer, y.lanes) \in [Chain -> Nat]
        /\ Behind(PeerHeads(y.peer, y.lanes), log[y.peer])
    BY <1>1, <1>3, <2>2, VectorsBehind DEF Allowed, InStep
  <2>4. NoGaps(log[c], Beyond(y.peer, y.lanes, y.have))
    <3> DEFINE K == {k \in Chain : k[2] \in y.lanes}
    <3>1. Beyond(y.peer, y.lanes, y.have) = Past(log[y.peer], K, y.have)
      BY DEF Beyond, Past
    <3>2. K \in SUBSET Chain /\ WellFormed(log[y.peer]) /\ log[c] \in Log
      BY <1>1, <2>3, VectorsBehind
    <3> HIDE DEF K
    <3> QED
      BY <2>3, <3>1, <3>2, AfterNoGaps
  <2>5. Beyond(y.peer, y.lanes, y.have) \subseteq Entry
    <3>1. /\ Beyond(y.peer, y.lanes, y.have) \subseteq log[y.peer].entries
          /\ log[y.peer].entries \subseteq Entry
      BY <1>1, <2>3, Selected
    <3> QED
      BY <3>1
  <2>6. x \in Session /\ InStep(x, c)
    BY <2>1, <2>3, <2>4, <2>5 DEF Session, Answered, InStep
  <2> QED
    BY <2>2, <2>6
<1>6. CASE JudgePulled(c)
  <2>1. PICK x : x = [y EXCEPT !.pc = "accepted"]
    OBVIOUS
  <2>2. y \in Answered /\ (Goto(c, Idle) \/ Goto(c, x)) /\ y.pc = "controlled"
    BY <1>1, <1>3, <1>6, <2>1, SessionShape DEF JudgePulled
  <2>3. x \in Answered /\ x.pc = "accepted" /\ x.peer = y.peer /\ x.heads = y.heads
        /\ x.entries = y.entries
    BY <2>1, <2>2 DEF Answered
  <2>4. x \in Session /\ InStep(x, c)
    BY <1>1, <1>3, <2>2, <2>3 DEF Session, InStep
  <2> QED
    BY <1>2, <2>2, <2>4
<1>7. CASE PushBack(c)
  <2>1. PICK own : own = OwnBeyond(c, y.heads)
    OBVIOUS
  <2>2. PICK offer \in {own, own \ Control(own)} :
          \/ Goto(c, Idle)
          \/ Goto(c, [pc |-> "offer", peer |-> y.peer, entries |-> offer])
    BY <1>3, <1>7, <2>1 DEF PushBack
  <2>3. PICK x : x = [pc |-> "offer", peer |-> y.peer, entries |-> offer]
    OBVIOUS
  <2>4. y \in Pushing /\ y.pc = "push"
    BY <1>1, <1>3, <1>7, SessionShape DEF PushBack
  <2>5. y.peer \in Principal /\ y.heads \in [Chain -> Nat] /\ Behind(y.heads, log[y.peer])
    BY <1>1, <1>3, <2>4 DEF Pushing, InStep
  <2>6. NoGaps(log[y.peer], offer)
    BY <1>1, <2>1, <2>2, <2>5, OfferInStep
  <2>7. offer \subseteq Entry
    <3>1. own \subseteq log[c].entries /\ log[c].entries \subseteq Entry
      BY <1>1, <2>1, Selected
    <3> QED
      BY <2>2, <3>1
  <2>8. x \in Session /\ InStep(x, c)
    BY <2>3, <2>5, <2>6, <2>7 DEF Session, Offering, InStep
  <2> QED
    BY <1>2, <2>2, <2>3, <2>8
<1> QED
  BY <1>4, <1>5, <1>6, <1>7

\* The client that shares.
LEMMA ShareInStep ==
    ASSUME StepInv, NEW c \in Principal, ServeShareLanes(c) \/ ServeHeads(c) \/ OfferOwn(c)
    PROVE  \E x \in Session : Goto(c, x) /\ InStep(x, c)
<1>1. /\ NodesInv /\ InStep(session[c], c) /\ session[c] \in Session
      /\ session[c].pc # "idle" => session[c].peer \in Principal
  BY InHand DEF StepInv, HomesInv, NodesFounded
<1>2. Idle \in Session /\ InStep(Idle, c)
  BY DEF Session, Idle, InStep
<1>3. PICK y : y = session[c]
  OBVIOUS
<1>4. \A n \in Principal : NoHeads \in [Chain -> Nat] /\ Behind(NoHeads, log[n])
  <2> TAKE n \in Principal
  <2>1. \A k \in Chain : 0 <= log[n].heads[k].seq
    BY <1>1, HeadsTyped DEF NodesInv, TypeOK
  <2> QED
    BY <2>1 DEF NoHeads, Behind
<1>5. CASE ServeShareLanes(c)
  <2>1. PICK lanes : lanes = VisibleLanes(y.peer, c)
    OBVIOUS
  <2>2. PICK x, z :
          /\ x = [pc |-> "share lanes", peer |-> y.peer, have |-> y.have, lanes |-> lanes]
          /\ z = [pc |-> "shared", peer |-> y.peer, have |-> y.have, heads |-> NoHeads]
    OBVIOUS
  <2>3. y \in Pulling /\ (Goto(c, z) \/ Goto(c, x))
    BY <1>1, <1>3, <1>5, <2>1, <2>2, SessionShape DEF ServeShareLanes
  <2>4. lanes \in SUBSET Lane
    BY <1>1, <2>1, <2>3, Selected DEF Pulling
  <2>5. x \in Session /\ InStep(x, c)
    BY <2>2, <2>3, <2>4 DEF Session, Pulling, Allowed, InStep
  <2>6. z \in Session /\ InStep(z, c)
    BY <1>4, <2>2, <2>3 DEF Session, Pulling, Shared, InStep
  <2> QED
    BY <2>3, <2>5, <2>6
<1>6. CASE ServeHeads(c)
  <2>1. PICK heads \in {PeerHeads(y.peer, y.lanes), NoHeads} :
          Goto(c, [pc |-> "shared", peer |-> y.peer, have |-> y.have, heads |-> heads])
    BY <1>3, <1>6 DEF ServeHeads
  <2>2. PICK x : x = [pc |-> "shared", peer |-> y.peer, have |-> y.have, heads |-> heads]
    OBVIOUS
  <2>3. y \in Allowed
    BY <1>1, <1>3, <1>6, SessionShape DEF ServeHeads
  <2>4. y.peer \in Principal /\ y.have \in [Chain -> Nat]
    BY <2>3 DEF Allowed
  <2>5. heads \in [Chain -> Nat] /\ Behind(heads, log[y.peer])
    BY <1>1, <1>4, <2>1, <2>4, VectorsBehind
  <2>6. x \in Session /\ InStep(x, c)
    BY <2>2, <2>4, <2>5 DEF Session, Shared, InStep
  <2> QED
    BY <2>1, <2>2, <2>6
<1>7. CASE OfferOwn(c)
  <2>1. PICK own : own = OwnBeyond(c, y.heads)
    OBVIOUS
  <2>2. PICK top \in {y.have, Heads(log[c])} :
          Goto(c, IF {e \in own : e.seq <= top[ChainOf(e)]} = {} THEN Idle
                  ELSE [pc |-> "offer", peer |-> y.peer,
                        entries |-> {e \in own : e.seq <= top[ChainOf(e)]}])
    BY <1>3, <1>7, <2>1 DEF OfferOwn
  <2>3. PICK offer : offer = {e \in own : e.seq <= top[ChainOf(e)]}
    OBVIOUS
  <2>4. PICK x : x = [pc |-> "offer", peer |-> y.peer, entries |-> offer]
    OBVIOUS
  <2>5. Goto(c, Idle) \/ Goto(c, x)
    BY <2>2, <2>3, <2>4
  <2>6. y \in Shared /\ y.pc = "shared"
    BY <1>1, <1>3, <1>7, SessionShape DEF OfferOwn
  <2>7. /\ y.peer \in Principal /\ y.heads \in [Chain -> Nat] /\ y.have \in [Chain -> Nat]
        /\ Behind(y.heads, log[y.peer])
    BY <1>1, <1>3, <2>6 DEF Shared, InStep
  <2>8. own \subseteq Entry /\ top \in [Chain -> Nat] /\ log[y.peer] \in Log
    <3>1. own \subseteq log[c].entries /\ log[c].entries \subseteq Entry
      BY <1>1, <2>1, Selected
    <3>2. Heads(log[c]) \in [Chain -> Nat]
      BY <1>1, Selected
    <3> QED
      BY <1>1, <2>2, <2>7, <3>1, <3>2 DEF NodesInv, TypeOK
  <2>9. NoGaps(log[y.peer], own)
    BY <1>1, <2>1, <2>7, OfferInStep
  <2>10. NoGaps(log[y.peer], offer) /\ offer \subseteq Entry
    BY <2>3, <2>8, <2>9, PrefixNoGaps
  <2>11. x \in Session /\ InStep(x, c)
    BY <2>4, <2>7, <2>10 DEF Session, Offering, InStep
  <2> QED
    BY <1>2, <2>5, <2>11
<1> QED
  BY <1>5, <1>6, <1>7

\* A batch without what the receiver holds has no gap either.
LEMMA RestNoGaps ==
    ASSUME NEW l \in Log, WellFormed(l), NEW E \in SUBSET Entry, NoGaps(l, E),
           NEW H, H \subseteq l.entries
    PROVE  NoGaps(l, E \ H)
<1>1. ASSUME NEW e \in E \ H, NEW s \in Nat, l.heads[ChainOf(e)].seq < s, s < e.seq
      PROVE  \E f \in E \ H : ChainOf(f) = ChainOf(e) /\ f.seq = s
  <2>1. PICK f \in E : ChainOf(f) = ChainOf(e) /\ f.seq = s
    BY <1>1 DEF NoGaps
  <2>2. ChainOf(e) \in Chain /\ l.heads[ChainOf(e)].seq \in Nat
    BY ChainOfEntry, HeadsTyped
  <2>3. f \notin H
    <3> SUFFICES ASSUME f \in H PROVE FALSE
      OBVIOUS
    <3>1. f.seq <= l.heads[ChainOf(e)].seq
      BY <2>1, <2>2 DEF WellFormed, Contiguous
    <3> QED
      BY <1>1, <2>1, <2>2, <3>1
  <2> QED
    BY <2>1, <2>3
<1> QED
  BY <1>1 DEF NoGaps

\* The client that appended what it pulled, and the peer that opened a thread.
LEMMA IngestControlInStep ==
    ASSUME StepInv, LogsGrow, NEW c \in Principal, IngestControl(c)
    PROVE  \E x \in Session : Goto(c, x) /\ InStep(x, c)'
<1>1. /\ NodesInv /\ InStep(session[c], c) /\ session[c] \in Session
      /\ Batch(session[c].entries)
  BY InHand DEF StepInv, HomesInv, NodesFounded, IngestControl
<1>2. Idle \in Session /\ InStep(Idle, c)'
  BY DEF Session, Idle, InStep
<1>3. PICK y : y = session[c]
  OBVIOUS
<1>4. PICK r : r = AppendEntries(log[c], Control(y.entries))
  OBVIOUS
<1>5. PICK x : x = [y EXCEPT !.pc = "controlled", !.entries = y.entries \ Control(y.entries)]
  OBVIOUS
<1>6. /\ y \in Answered /\ y.pc = "pulled" /\ log' = [log EXCEPT ![c] = r.log]
      /\ Goto(c, IF r.ok THEN x ELSE Idle)
  BY <1>1, <1>3, <1>4, <1>5, SessionShape DEF IngestControl
<1>7. /\ x \in Answered /\ x.pc = "controlled" /\ x.peer = y.peer /\ x.heads = y.heads
      /\ x.entries = y.entries \ Control(y.entries)
  BY <1>5, <1>6 DEF Answered
<1>8. CASE r.ok
  <2>1. Appended(log[c], Control(y.entries), r)
    <3>1. Batch(Control(y.entries)) /\ LogOK(log[c])
      BY <1>1, <1>3, BatchPart DEF Control, NodesInv
    <3> QED
      BY <1>4, <3>1, BatchAppended
  <2>2. log'[c] = r.log
    BY <1>1, <1>6 DEF NodesInv, TypeOK
  <2>3. Control(y.entries) \subseteq log'[c].entries
    BY <1>8, <2>1, <2>2 DEF Appended
  <2>4. InStep(y, c)'
    BY <1>1, <1>3, StayInStep
  <2>5. NoGaps(log'[c], y.entries) /\ y.entries \in SUBSET Entry
        /\ log'[c] \in Log /\ WellFormed(log'[c])
    BY <1>6, <2>4 DEF InStep, Answered, LogsGrow, LogOK
  <2>6. NoGaps(log'[c], x.entries)
    BY <1>7, <2>3, <2>5, RestNoGaps
  <2>7. InStep(x, c)'
    BY <1>6, <1>7, <2>4, <2>6 DEF InStep
  <2>8. x \in Session
    BY <1>7 DEF Session
  <2> QED
    BY <1>6, <1>8, <2>7, <2>8
<1> QED
  BY <1>2, <1>6, <1>8

\* The client that goes on to push.
LEMMA IngestRestInStep ==
    ASSUME StepInv, LogsGrow, NEW c \in Principal, IngestRest(c)
    PROVE  \E x \in Session : Goto(c, x) /\ InStep(x, c)'
<1>1. NodesInv /\ InStep(session[c], c) /\ session[c] \in Session
  BY DEF StepInv, HomesInv, NodesFounded, NodesInv, TypeOK
<1>2. Idle \in Session /\ InStep(Idle, c)'
  BY DEF Session, Idle, InStep
<1>3. PICK y : y = session[c]
  OBVIOUS
<1>4. PICK x : x = [pc |-> "push", peer |-> y.peer, heads |-> y.heads]
  OBVIOUS
<1>5. y \in Answered /\ y.pc = "accepted" /\ (Goto(c, x) \/ Goto(c, Idle))
  BY <1>1, <1>3, <1>4, SessionShape DEF IngestRest
<1>6. InStep(y, c)'
  BY <1>1, <1>3, StayInStep
<1>7. x \in Session /\ InStep(x, c)'
  BY <1>4, <1>5, <1>6 DEF Session, Pushing, Answered, InStep
<1> QED
  BY <1>2, <1>5, <1>7

\* The peer that judges: when it opens the thread first, the rest fits what it opened.
LEMMA JudgePushInStep ==
    ASSUME StepInv, LogsGrow, NEW c \in Principal, JudgePush(c)
    PROVE  \E x \in Session : Goto(c, x) /\ InStep(x, c)'
<1>1. /\ NodesInv /\ InStep(session[c], c) /\ session[c] \in Session
      /\ Batch(session[c].entries) /\ Sourced(session[c], c)
  BY InHand DEF StepInv, HomesInv, NodesFounded, JudgePush
<1>2. Idle \in Session /\ InStep(Idle, c)'
  BY DEF Session, Idle, InStep
<1>3. PICK y : y = session[c]
  OBVIOUS
<1>4. PICK s, genesis : s = y.peer /\ genesis = {e \in y.entries : IsGenesis(e) /\ e.author = c}
  OBVIOUS
<1>5. PICK opened, rest :
        /\ opened = IF Holds(s) THEN log[s] ELSE AppendEntries(log[s], genesis).log
        /\ rest = IF Holds(s) THEN y.entries ELSE y.entries \ genesis
  OBVIOUS
<1>6. PICK x : x = [pc |-> "judged", peer |-> s, entries |-> rest]
  OBVIOUS
<1>7. /\ y.pc = "offer" /\ log' = [log EXCEPT ![s] = opened]
      /\ Goto(c, Idle) \/ (Goto(c, x) /\ opened.entries # {})
  BY <1>3, <1>4, <1>5, <1>6 DEF JudgePush
<1>8. y \in Offering /\ s \in Principal
  BY <1>1, <1>3, <1>4, <1>7, SessionShape DEF Offering
<1>9. rest \subseteq y.entries /\ rest \in SUBSET Entry /\ x \in Session
  BY <1>4, <1>5, <1>6, <1>8 DEF Session, Offering
<1>10. log'[s] = opened /\ log'[s] \in Log /\ WellFormed(log'[s])
  BY <1>1, <1>7, <1>8 DEF NodesInv, TypeOK, LogsGrow, LogOK
<1>11. NoGaps(log'[s], y.entries)
  <2>1. InStep(y, c)'
    BY <1>1, <1>3, StayInStep
  <2> QED
    BY <1>4, <1>7, <2>1 DEF InStep
<1>12. CASE opened.entries # {}
  <2>1. ASSUME ~ Holds(s) PROVE NoGaps(log'[s], y.entries \ genesis)
    <3>1. Appended(log[s], genesis, AppendEntries(log[s], genesis))
      <4>1. Batch(genesis) /\ LogOK(log[s])
        BY <1>1, <1>3, <1>4, <1>8, BatchPart DEF NodesInv
      <4> QED
        BY <4>1, BatchAppended
    <3>2. opened.entries \subseteq genesis
      BY <1>5, <2>1, <3>1 DEF Appended, Holds
    <3>3. \A e \in genesis : e = Genesis(Creator, 1, ThreadDraft)
      <4>1. genesis \subseteq Written
        BY <1>1, <1>3, <1>4, <1>7 DEF Sourced, Written
      <4> QED
        BY <1>4, <4>1 DEF StepInv, HomesInv, NodesFounded, Founded
    <3>4. genesis \subseteq opened.entries
      BY <1>12, <3>2, <3>3
    <3> QED
      BY <1>8, <1>10, <1>11, <3>4, RestNoGaps DEF Offering
  <2>3. NoGaps(log'[s], rest)
    BY <2>1, <1>5, <1>11
  <2>4. InStep(x, c)'
    BY <1>6, <2>3 DEF InStep
  <2> QED
    BY <1>2, <1>7, <1>9, <2>4
<1> QED
  BY <1>2, <1>7, <1>12

\* One session goes on, the others stay in step.
LEMMA InStepKept ==
    ASSUME OneHome, StepInv, [Next]_vars, NEW c \in Principal, NEW x, InStep(x, c)',
           \A k \in Principal : session'[k] = session[k] \/ (k = c /\ session'[k] = x)
    PROVE  StepInv'
<1>1. NodesInv /\ LogsGrow /\ HomesInv'
  BY NodesNext, HomesNext DEF StepInv, HomesInv, NodesFounded
<1>2. ASSUME NEW k \in Principal PROVE InStep(session[k], k)'
  <2>1. CASE k = c /\ session'[k] = x
    BY <2>1 DEF InStep
  <2>2. CASE session'[k] = session[k]
    <3>1. PICK y : y = session[k]
      OBVIOUS
    <3>2. y \in Session /\ InStep(y, k)
      BY <1>1, <3>1 DEF NodesInv, TypeOK, StepInv
    <3>3. InStep(y, k)'
      BY <1>1, <3>2, StayInStep
    <3> QED
      BY <2>2, <3>1, <3>3 DEF InStep
  <2> QED
    BY <2>1, <2>2
<1> QED
  BY <1>1, <1>2 DEF StepInv

\* Every step keeps every session in step.
LEMMA StepNext == ASSUME OneHome, StepInv, [Next]_vars PROVE StepInv'
<1>1. /\ NodesInv /\ LogsGrow /\ Creator \in Principal
      /\ session \in [Principal -> Session]
  BY NodesNext, SyncAssumption DEF StepInv, HomesInv, NodesFounded, NodesInv, TypeOK
<1>2. \A c : InStep(Idle, c)'
  BY DEF InStep, Idle
<1>3. ASSUME session' = session PROVE StepInv'
  BY <1>1, <1>2, <1>3, InStepKept
<1>4. ASSUME NEW c \in Principal, NEW x, Goto(c, x), InStep(x, c)' PROVE StepInv'
  <2>1. \A k \in Principal : session'[k] = session[k] \/ (k = c /\ session'[k] = x)
    BY <1>1, <1>4 DEF Goto
  <2> QED
    BY <1>4, <2>1, InStepKept
<1>5. ASSUME NEW c \in Principal, NEW x \in Session, Goto(c, x), InStep(x, c) PROVE StepInv'
  BY <1>1, <1>4, <1>5, StayInStep
<1>6. CASE UserStep
  <2>1. PICK n \in Principal, e \in Entry : Writes(n, e)
    BY <1>1, <1>6, UserStepWrites
  <2> QED
    BY <1>3, <2>1 DEF Writes
<1>7. ASSUME NEW k \in Link, StartSync(k[1], k[2]) PROVE StepInv'
  <2>1. k[1] \in Principal /\ k[2] \in Principal
    BY SyncAssumption
  <2> QED
    BY <1>1, <1>5, <1>7, <2>1, StartsInStep
<1>8. ASSUME NEW k \in Host, StartShare(k[1], k[2]) PROVE StepInv'
  <2>1. k[1] \in Principal /\ k[2] \in Principal
    BY SyncAssumption
  <2> QED
    BY <1>1, <1>5, <1>8, <2>1, StartsInStep
<1>9. ASSUME NEW c \in Principal,
             ServeLanes(c) \/ ServeEntries(c) \/ JudgePulled(c) \/ PushBack(c)
      PROVE  StepInv'
  BY <1>5, <1>9, QuietInStep
<1>10. ASSUME NEW c \in Principal, IngestControl(c) \/ IngestRest(c) \/ JudgePush(c)
       PROVE  StepInv'
  BY <1>1, <1>4, <1>10, IngestControlInStep, IngestRestInStep, JudgePushInStep
<1>11. ASSUME NEW c \in Principal, AppendPush(c) \/ Lose(c) PROVE StepInv'
  BY <1>2, <1>4, <1>11 DEF AppendPush, Lose
<1>12. ASSUME NEW c \in Principal, ServeShareLanes(c) \/ ServeHeads(c) \/ OfferOwn(c)
       PROVE  StepInv'
  BY <1>5, <1>12, ShareInStep
<1>13. CASE UNCHANGED vars
  BY <1>3, <1>13 DEF vars
<1> QED
  BY <1>6, <1>7, <1>8, <1>9, <1>10, <1>11, <1>12, <1>13 DEF Next, UserStep, Advance

\* The start.
LEMMA StepInit == Init => StepInv
BY HomesInit DEF Init, StepInv, InStep, Idle

\* So it is in every behaviour.
LEMMA StepInvariant == ASSUME OneHome PROVE Spec => []StepInv
<1>1. Init => StepInv
  BY StepInit
<1>2. StepInv /\ [Next]_vars => StepInv'
  BY StepNext
<1> QED
  BY <1>1, <1>2, PTL DEF Spec

\* No session ends because a log refuses an entry: where every chain has one home,
\* a batch under way fits its receiver, whatever else has been appended there.
THEOREM NothingRefused == ASSUME OneHome PROVE Spec => []BatchesFit
<1>1. ASSUME StepInv PROVE BatchesFit
  <2>1. NodesInv /\ HomesInv /\ Unforked(Written)
    BY <1>1, WrittenUnforked DEF StepInv, HomesInv, NodesFounded
  <2>2. ASSUME NEW n \in Principal, NEW E, Batch(E), E \subseteq Written, NoGaps(log[n], E)
        PROVE  AppendEntries(log[n], E).ok
    <3>1. LogOK(log[n]) /\ log[n].entries \subseteq Written
      BY <2>1 DEF NodesInv, Written
    <3> QED
      BY <2>1, <2>2, <3>1, BatchFits
  <2>3. ASSUME NEW c \in Principal
        PROVE  LET x == session[c]
               IN  /\ x.pc \in {"pulled", "controlled", "accepted"} =>
                          AppendEntries(log[c], x.entries).ok
                   /\ x.pc = "judged" => AppendEntries(log[x.peer], x.entries).ok
    <3>1. PICK x : x = session[c]
      OBVIOUS
    <3>2. /\ InStep(x, c)
          /\ x.pc # "idle" => x.peer \in Principal
          /\ x.pc \in {"pulled", "controlled", "accepted", "judged"} =>
                Batch(x.entries) /\ x.entries \subseteq Written
      BY <1>1, <2>1, <3>1, InHand DEF StepInv, Sourced, Written
    <3>3. ASSUME x.pc \in {"pulled", "controlled", "accepted"}
          PROVE  AppendEntries(log[c], x.entries).ok
      BY <2>2, <3>2, <3>3 DEF InStep
    <3>4. ASSUME x.pc = "judged" PROVE AppendEntries(log[x.peer], x.entries).ok
      BY <2>2, <3>2, <3>4 DEF InStep
    <3> QED
      BY <3>1, <3>3, <3>4
  <2> QED
    BY <2>3 DEF BatchesFit
<1> QED
  BY <1>1, StepInvariant, PTL

=============================================================================
