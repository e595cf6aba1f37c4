--------------------------- MODULE PermFoldProofs ---------------------------
(***************************************************************************)
(* The invariants of the permission fold, for any principals, any scopes   *)
(* and any set of control entries.                                         *)
(***************************************************************************)
EXTENDS PermFold, TLAPS

\* Candidates are well-typed control entries.
LEMMA CandidateTyped ==
    ASSUME NEW e \in Candidates
    PROVE  /\ e \in Entry /\ e.author \in Principal /\ e.id \in Nat
           /\ e.lamport \in Nat /\ e.lamport > 0
           /\ DraftOK(e.draft)
BY CandidatesAssumption, DraftAssumption DEF Entry

\* Who an access request is for.
LEMMA RequesterTyped ==
    ASSUME NEW e \in Candidates PROVE Requester(e) \in Principal
BY CandidateTyped DEF Requester, DraftOK

-----------------------------------------------------------------------------
(* Every kind maps States to States.                                        *)

\* core.thread
LEMMA ThreadTyped ==
    ASSUME NEW s \in State, NEW e \in Candidates, e.draft.kind = "core.thread"
    PROVE  ApplyThread(s, e) \in State
BY CandidateTyped DEF ApplyThread, State, DraftOK

\* core.membership
LEMMA MembershipTyped ==
    ASSUME NEW s \in State, NEW e \in Candidates, e.draft.kind = "core.membership"
    PROVE  ApplyMembership(s, e) \in State
BY CandidateTyped DEF ApplyMembership, State, DraftOK

\* core.delegation
LEMMA DelegationTyped ==
    ASSUME NEW s \in State, NEW e \in Candidates, e.draft.kind = "core.delegation"
    PROVE  ApplyDelegation(s, e) \in State
BY CandidateTyped DEF ApplyDelegation, State, DraftOK

\* core.access_request
LEMMA AccessRequestTyped ==
    ASSUME NEW s \in State, NEW e \in Candidates
    PROVE  ApplyAccessRequest(s, e) \in State
BY CandidateTyped, RequesterTyped DEF ApplyAccessRequest, State

\* core.grant
LEMMA GrantTyped ==
    ASSUME NEW s \in State, NEW e \in Candidates, e.draft.kind = "core.grant"
    PROVE  ApplyGrant(s, e) \in State
<1> DEFINE p == e.draft.principal
<1>1. CASE ~ GrantCounts(s, e)
  BY <1>1 DEF ApplyGrant
<1>2. CASE GrantCounts(s, e)
  <2>1. p \in Principal
    BY <1>2, CandidateTyped DEF GrantCounts, DraftOK
  <2>2. Unanswered(s, p, e) \in SUBSET Entry
    BY <2>1 DEF Unanswered, State
  <2>3. \A until \in Nat, first \in Nat :
          [s EXCEPT !.requests[p] = Unanswered(s, p, e),
                    !.grants[p] = e.draft.scopes \cap Scope,
                    !.contribAt[p] = first,
                    !.expiry[p] = until] \in State
    BY <2>1, <2>2 DEF State
  <2>4. (IF e.draft.ttl > 0 THEN e.draft.ts + e.draft.ttl ELSE 0) \in Nat
    BY CandidateTyped DEF DraftOK
  <2>5. s.contribAt[p] \in Nat /\ e.lamport \in Nat
    BY <2>1, CandidateTyped DEF State
  <2> QED
    BY <1>2, <2>3, <2>4, <2>5 DEF ApplyGrant
<1> QED
  BY <1>1, <1>2

\* core.deny and core.revoke
LEMMA DenyTyped ==
    ASSUME NEW s \in State, NEW e \in Candidates,
           e.draft.kind \in {"core.deny", "core.revoke"}
    PROVE  ApplyDeny(s, e) \in State
BY CandidateTyped DEF ApplyDeny, DenyCounts, Unanswered, State, DraftOK

\* Any kind.
LEMMA ApplyTyped ==
    ASSUME NEW s \in State, NEW e \in Candidates PROVE Apply(s, e) \in State
BY ThreadTyped, MembershipTyped, DelegationTyped, AccessRequestTyped, GrantTyped,
   DenyTyped DEF Apply

-----------------------------------------------------------------------------
(* What a step does to the four maps that decide, principal by principal.   *)

\* What the invariant says of one principal, in a state s with history A.
PrincipalInv(s, A, p) ==
    LET granted     == {a \in A : a.principal = p /\ ~ a.deny}
        denied      == {a \in A : a.principal = p /\ a.deny}
        contributed == {a \in granted : "contribute" \in a.scopes}
    IN  /\ \A d \in denied : d.lamport <= s.deniedAt[p]
        /\ s.deniedAt[p] # 0 => \E d \in denied : d.lamport = s.deniedAt[p]
        /\ \A g \in contributed : s.contribAt[p] # 0 /\ s.contribAt[p] <= g.lamport
        /\ s.contribAt[p] # 0 => \E g \in contributed : g.lamport = s.contribAt[p]
        /\ s.grants[p] = {} => s.expiry[p] = 0
        /\ s.grants[p] # {} =>
              \E g \in granted : /\ g.scopes = s.grants[p]
                                 /\ g.until = s.expiry[p]
                                 /\ g.lamport > s.deniedAt[p]
                                 /\ \A h \in granted : h.lamport <= g.lamport

\* The history ends at the entry applied last.
HistoryInv ==
    \A a \in answers : a.lamport > 0 /\ \E e \in last : a.lamport <= e.lamport

\* FoldInv by its parts.
LEMMA FoldInvParts ==
    FoldInv <=> /\ TypeOK
                /\ HistoryInv
                /\ \A p \in Principal : PrincipalInv(st, answers, p)
BY Zenon DEF FoldInv, HistoryInv, PrincipalInv, Granted, Denied, Contributed

\* A step that decides nothing about p keeps p's part: at most it takes p's
\* scopes away, with their expiry.
LEMMA QuietKeeps ==
    ASSUME NEW s, NEW t, NEW A, NEW p,
           PrincipalInv(s, A, p),
           t.deniedAt[p] = s.deniedAt[p], t.contribAt[p] = s.contribAt[p],
           \/ t.grants[p] = s.grants[p] /\ t.expiry[p] = s.expiry[p]
           \/ t.grants[p] = {} /\ t.expiry[p] = 0
    PROVE  PrincipalInv(t, A, p)
BY DEF PrincipalInv

\* p's part only reads the decisions about p.
LEMMA OthersKeep ==
    ASSUME NEW s, NEW t, NEW A, NEW a, NEW p,
           PrincipalInv(s, A, p), a.principal # p,
           t.deniedAt[p] = s.deniedAt[p], t.contribAt[p] = s.contribAt[p],
           t.grants[p] = s.grants[p], t.expiry[p] = s.expiry[p]
    PROVE  PrincipalInv(t, A \cup {a}, p)
<1>1. /\ {b \in A \cup {a} : b.principal = p /\ ~ b.deny}
            = {b \in A : b.principal = p /\ ~ b.deny}
      /\ {b \in A \cup {a} : b.principal = p /\ b.deny}
            = {b \in A : b.principal = p /\ b.deny}
  OBVIOUS
<1> QED
  BY <1>1 DEF PrincipalInv

\* Kinds other than grant and deny decide nothing and touch no window.
LEMMA QuietKinds ==
    ASSUME NEW s \in State, NEW e \in Candidates, NEW p \in Principal,
           e.draft.kind \notin {"core.grant", "core.deny", "core.revoke"}
    PROVE  LET t == Apply(s, e)
           IN  /\ t.deniedAt[p] = s.deniedAt[p]
               /\ t.contribAt[p] = s.contribAt[p]
               /\ \/ t.grants[p] = s.grants[p] /\ t.expiry[p] = s.expiry[p]
                  \/ t.grants[p] = {} /\ t.expiry[p] = 0
<1> DEFINE t == Apply(s, e)
           Kept == /\ t.deniedAt[p] = s.deniedAt[p]
                   /\ t.contribAt[p] = s.contribAt[p]
                   /\ \/ t.grants[p] = s.grants[p] /\ t.expiry[p] = s.expiry[p]
                      \/ t.grants[p] = {} /\ t.expiry[p] = 0
<1>1. CASE e.draft.kind = "core.thread"
  BY <1>1 DEF Apply, ApplyThread, State
<1>2. CASE e.draft.kind = "core.membership"
  <2>1. t = ApplyMembership(s, e)
    BY <1>2 DEF Apply
  <2> QED
    BY <2>1, CandidateTyped DEF ApplyMembership, State
<1>3. CASE e.draft.kind = "core.delegation"
  BY <1>3 DEF Apply, ApplyDelegation, State
<1>4. CASE e.draft.kind = "core.access_request"
  BY <1>4 DEF Apply, ApplyAccessRequest, State
<1>5. CASE e.draft.kind \notin {"core.thread", "core.membership", "core.delegation",
                               "core.access_request"}
  BY <1>5 DEF Apply
<1> QED
  BY <1>1, <1>2, <1>3, <1>4, <1>5

\* A grant that counts, field by field.
LEMMA GrantEffect ==
    ASSUME NEW s \in State, NEW e \in Candidates, e.draft.kind = "core.grant",
           GrantCounts(s, e)
    PROVE  LET p == e.draft.principal
               t == ApplyGrant(s, e)
           IN  /\ p \in Principal
               /\ t.deniedAt = s.deniedAt
               /\ t.grants[p] = e.draft.scopes \cap Scope
               /\ t.expiry[p] = IF e.draft.ttl > 0 THEN e.draft.ts + e.draft.ttl ELSE 0
               /\ t.contribAt[p] =
                     IF "contribute" \in e.draft.scopes \cap Scope
                        /\ (s.contribAt[p] = 0 \/ e.lamport < s.contribAt[p])
                     THEN e.lamport ELSE s.contribAt[p]
               /\ \A q \in Principal : q # p =>
                     /\ t.grants[q] = s.grants[q] /\ t.expiry[q] = s.expiry[q]
                     /\ t.contribAt[q] = s.contribAt[q]
<1>1. e.draft.principal \in Principal
  BY CandidateTyped DEF GrantCounts, DraftOK
<1> QED
  BY <1>1 DEF ApplyGrant, State

\* A deny or revoke that counts, field by field.
LEMMA DenyEffect ==
    ASSUME NEW s \in State, NEW e \in Candidates,
           e.draft.kind \in {"core.deny", "core.revoke"}, DenyCounts(s, e)
    PROVE  LET p == e.draft.principal
               t == ApplyDeny(s, e)
           IN  /\ p \in Principal
               /\ t.contribAt = s.contribAt
               /\ t.grants[p] = {} /\ t.expiry[p] = 0
               /\ t.deniedAt[p] = IF e.lamport > s.deniedAt[p]
                                  THEN e.lamport ELSE s.deniedAt[p]
               /\ \A q \in Principal : q # p =>
                     /\ t.grants[q] = s.grants[q] /\ t.expiry[q] = s.expiry[q]
                     /\ t.deniedAt[q] = s.deniedAt[q]
<1>1. e.draft.principal \in Principal
  BY CandidateTyped DEF DenyCounts, DraftOK
<1> QED
  BY <1>1 DEF ApplyDeny, State

-----------------------------------------------------------------------------
(* The inductive invariant.                                                 *)

\* The empty state has no decisions to account for.
LEMMA FoldInit == Init => FoldInv
<1> SUFFICES ASSUME Init PROVE FoldInv
  OBVIOUS
<1>1. st = EmptyState /\ last = {} /\ answers = {}
  BY DEF Init
<1>5. asked \in [Principal -> SUBSET Candidates]
  BY DEF Init
<1>2. TypeOK
  BY <1>1, <1>5 DEF TypeOK, EmptyState, State
<1>3. HistoryInv
  BY <1>1 DEF HistoryInv
<1>4. \A p \in Principal : PrincipalInv(st, answers, p)
  BY <1>1 DEF PrincipalInv, EmptyState
<1> QED
  BY <1>2, <1>3, <1>4, FoldInvParts

\* All earlier decisions have lamports up to that of the entry applied now.
LEMMA EarlierDecisions ==
    ASSUME FoldInv, NEW e \in Candidates, ApplyNext(e)
    PROVE  \A a \in answers : a.lamport \in Nat /\ a.lamport > 0 /\ a.lamport <= e.lamport
<1> SUFFICES ASSUME NEW a \in answers
             PROVE  a.lamport \in Nat /\ a.lamport > 0 /\ a.lamport <= e.lamport
  OBVIOUS
<1>1. a.lamport \in Nat
  BY DEF FoldInv, TypeOK, Answer
<1>2. a.lamport > 0 /\ \E f \in last : a.lamport <= f.lamport
  BY FoldInvParts DEF HistoryInv
<1>3. PICK f \in last : a.lamport <= f.lamport
  BY <1>2
<1>4. f \in Candidates /\ Less(f, e)
  BY DEF FoldInv, TypeOK, ApplyNext
<1>5. f.lamport \in Nat /\ e.lamport \in Nat /\ f.lamport <= e.lamport
  BY <1>4, CandidateTyped DEF Less
<1> QED
  BY <1>1, <1>2, <1>3, <1>5

\* What a grant that counts adds, and what it leaves of every principal's part.
LEMMA GrantStep ==
    ASSUME FoldInv, NEW e \in Candidates, ApplyNext(e),
           e.draft.kind = "core.grant", GrantCounts(st, e)
    PROVE  /\ answers' \in SUBSET Answer
           /\ \A b \in answers' : b \in answers \/ b.lamport = e.lamport
           /\ \A p \in Principal : PrincipalInv(st', answers', p)
<1> DEFINE q == e.draft.principal
           ss == e.draft.scopes \cap Scope
           a == [deny |-> FALSE, principal |-> q, scopes |-> ss,
                 until |-> IF e.draft.ttl > 0 THEN e.draft.ts + e.draft.ttl ELSE 0,
                 lamport |-> e.lamport, author |-> e.author, id |-> e.id]
           t == ApplyGrant(st, e)
<1>1. st \in State /\ answers \subseteq Answer
  BY DEF FoldInv, TypeOK
<1>2. st' = t /\ answers' = answers \cup {a}
  BY DEF ApplyNext, Apply, AnswersOf
<1>3. /\ q \in Principal
      /\ t.deniedAt = st.deniedAt
      /\ t.grants[q] = ss
      /\ t.expiry[q] = a.until
      /\ t.contribAt[q] = IF "contribute" \in ss
                             /\ (st.contribAt[q] = 0 \/ e.lamport < st.contribAt[q])
                          THEN e.lamport ELSE st.contribAt[q]
      /\ \A p \in Principal : p # q =>
            /\ t.grants[p] = st.grants[p] /\ t.expiry[p] = st.expiry[p]
            /\ t.contribAt[p] = st.contribAt[p]
  BY <1>1, GrantEffect
<1>4. ss # {} /\ ss \subseteq Scope /\ e.lamport > st.deniedAt[q]
  BY DEF GrantCounts
<1>5. a \in Answer
  BY <1>3, CandidateTyped DEF Answer, DraftOK
<1>6. \A b \in answers : b.lamport \in Nat /\ b.lamport > 0 /\ b.lamport <= e.lamport
  BY EarlierDecisions
<1>7. e.lamport \in Nat /\ e.lamport > 0 /\ st.contribAt[q] \in Nat
  BY <1>1, <1>3, CandidateTyped DEF State
<1>8. PrincipalInv(st, answers, q)
  BY <1>3, FoldInvParts
<1> DEFINE A == answers \cup {a}
           G == {b \in answers : b.principal = q /\ ~ b.deny}
           D == {b \in answers : b.principal = q /\ b.deny}
<1>9. /\ {b \in A : b.principal = q /\ ~ b.deny} = G \cup {a}
      /\ {b \in A : b.principal = q /\ b.deny} = D
  OBVIOUS
<1>10. PrincipalInv(t, A, q)
  <2>1. \A d \in D : d.lamport <= t.deniedAt[q]
    BY <1>3, <1>8 DEF PrincipalInv
  <2>2. t.deniedAt[q] # 0 => \E d \in D : d.lamport = t.deniedAt[q]
    BY <1>3, <1>8 DEF PrincipalInv
  <2>3. \A g \in G \cup {a} : "contribute" \in g.scopes =>
          t.contribAt[q] # 0 /\ t.contribAt[q] <= g.lamport
    <3> SUFFICES ASSUME NEW g \in G \cup {a}, "contribute" \in g.scopes
                 PROVE  t.contribAt[q] # 0 /\ t.contribAt[q] <= g.lamport
      OBVIOUS
    <3>1. CASE g \in G
      <4>1. st.contribAt[q] # 0 /\ st.contribAt[q] <= g.lamport
        BY <3>1, <1>8 DEF PrincipalInv
      <4>2. g.lamport \in Nat /\ g.lamport <= e.lamport
        BY <3>1, <1>6
      <4> QED
        BY <4>1, <4>2, <1>3, <1>7
    <3>2. CASE g = a
      BY <3>2, <1>3, <1>7
    <3> QED
      BY <3>1, <3>2
  <2>4. t.contribAt[q] # 0 =>
          \E g \in G \cup {a} : "contribute" \in g.scopes /\ g.lamport = t.contribAt[q]
    <3>1. CASE "contribute" \in ss /\ t.contribAt[q] = e.lamport
      <4>1. a.scopes = ss /\ a.lamport = e.lamport
        OBVIOUS
      <4> HIDE DEF t, ss, a, G
      <4> QED
        BY <3>1, <4>1
    <3>2. CASE t.contribAt[q] = st.contribAt[q]
      BY <3>2, <1>8 DEF PrincipalInv
    <3>3. \/ t.contribAt[q] = st.contribAt[q]
          \/ "contribute" \in ss /\ t.contribAt[q] = e.lamport
      BY <1>3
    <3> HIDE DEF t, ss, a, G
    <3> QED
      BY <3>1, <3>2, <3>3
  <2>5. t.grants[q] # {}
    BY <1>3, <1>4
  <2>6. /\ a.scopes = t.grants[q] /\ a.until = t.expiry[q]
        /\ a.lamport > t.deniedAt[q]
        /\ \A h \in G \cup {a} : h.lamport <= a.lamport
    BY <1>3, <1>4, <1>6, <1>7
  <2> HIDE DEF G, D, A, a, t
  <2> QED
    BY <1>9, <2>1, <2>2, <2>3, <2>4, <2>5, <2>6 DEF PrincipalInv
<1>11. ASSUME NEW p \in Principal, p # q PROVE PrincipalInv(t, A, p)
  <2>1. PrincipalInv(st, answers, p)
    BY FoldInvParts
  <2>2. a.principal # p
    BY <1>11
  <2>3. /\ t.deniedAt[p] = st.deniedAt[p] /\ t.contribAt[p] = st.contribAt[p]
        /\ t.grants[p] = st.grants[p] /\ t.expiry[p] = st.expiry[p]
    BY <1>3, <1>11
  <2> HIDE DEF a, t
  <2> QED
    BY <2>1, <2>2, <2>3, OthersKeep
<1>12. \A p \in Principal : PrincipalInv(t, A, p)
  BY <1>10, <1>11, Zenon
<1>13. \A b \in answers \cup {a} : b \in answers \/ b.lamport = e.lamport
  OBVIOUS
<1> HIDE DEF a, t
<1> QED
  BY <1>1, <1>2, <1>5, <1>12, <1>13

\* The same for a deny or revoke that counts.
LEMMA DenyStep ==
    ASSUME FoldInv, NEW e \in Candidates, ApplyNext(e),
           e.draft.kind \in {"core.deny", "core.revoke"}, DenyCounts(st, e)
    PROVE  /\ answers' \in SUBSET Answer
           /\ \A b \in answers' : b \in answers \/ b.lamport = e.lamport
           /\ \A p \in Principal : PrincipalInv(st', answers', p)
<1> DEFINE q == e.draft.principal
           a == [deny |-> TRUE, principal |-> q, scopes |-> {}, until |-> 0,
                 lamport |-> e.lamport, author |-> e.author, id |-> e.id]
           t == ApplyDeny(st, e)
<1>1. st \in State /\ answers \subseteq Answer
  BY DEF FoldInv, TypeOK
<1>2. st' = t /\ answers' = answers \cup {a}
  BY DEF ApplyNext, Apply, AnswersOf
<1>3. /\ q \in Principal
      /\ t.contribAt = st.contribAt
      /\ t.grants[q] = {} /\ t.expiry[q] = 0
      /\ t.deniedAt[q] = IF e.lamport > st.deniedAt[q] THEN e.lamport ELSE st.deniedAt[q]
      /\ \A p \in Principal : p # q =>
            /\ t.grants[p] = st.grants[p] /\ t.expiry[p] = st.expiry[p]
            /\ t.deniedAt[p] = st.deniedAt[p]
  BY <1>1, DenyEffect
<1>5. a \in Answer
  BY <1>3, CandidateTyped DEF Answer
<1>6. \A b \in answers : b.lamport \in Nat /\ b.lamport > 0 /\ b.lamport <= e.lamport
  BY EarlierDecisions
<1>7. e.lamport \in Nat /\ e.lamport > 0 /\ st.deniedAt[q] \in Nat
  BY <1>1, <1>3, CandidateTyped DEF State
<1>8. PrincipalInv(st, answers, q)
  BY <1>3, FoldInvParts
<1> DEFINE A == answers \cup {a}
           G == {b \in answers : b.principal = q /\ ~ b.deny}
           D == {b \in answers : b.principal = q /\ b.deny}
<1>9. /\ {b \in A : b.principal = q /\ ~ b.deny} = G
      /\ {b \in A : b.principal = q /\ b.deny} = D \cup {a}
  OBVIOUS
<1>10. PrincipalInv(t, A, q)
  <2>1. \A d \in D \cup {a} : d.lamport <= t.deniedAt[q]
    <3>1. \A d \in D : d.lamport \in Nat /\ d.lamport <= st.deniedAt[q]
      BY <1>6, <1>8 DEF PrincipalInv
    <3> QED
      BY <3>1, <1>3, <1>7
  <2>2. t.deniedAt[q] # 0 => \E d \in D \cup {a} : d.lamport = t.deniedAt[q]
    <3>1. CASE t.deniedAt[q] = e.lamport
      <4>1. a.lamport = e.lamport
        OBVIOUS
      <4> HIDE DEF t, a, D
      <4> QED
        BY <3>1, <4>1
    <3>2. CASE t.deniedAt[q] = st.deniedAt[q]
      BY <3>2, <1>8 DEF PrincipalInv
    <3>3. t.deniedAt[q] = st.deniedAt[q] \/ t.deniedAt[q] = e.lamport
      BY <1>3
    <3> HIDE DEF t, a, D
    <3> QED
      BY <3>1, <3>2, <3>3
  <2>3. \A g \in G : "contribute" \in g.scopes =>
          t.contribAt[q] # 0 /\ t.contribAt[q] <= g.lamport
    BY <1>3, <1>8 DEF PrincipalInv
  <2>4. t.contribAt[q] # 0 =>
          \E g \in G : "contribute" \in g.scopes /\ g.lamport = t.contribAt[q]
    BY <1>3, <1>8 DEF PrincipalInv
  <2>5. t.grants[q] = {} /\ t.expiry[q] = 0
    BY <1>3
  <2> HIDE DEF G, D, A, a, t
  <2> QED
    BY <1>9, <2>1, <2>2, <2>3, <2>4, <2>5 DEF PrincipalInv
<1>11. ASSUME NEW p \in Principal, p # q PROVE PrincipalInv(t, A, p)
  <2>1. PrincipalInv(st, answers, p)
    BY FoldInvParts
  <2>2. a.principal # p
    BY <1>11
  <2>3. /\ t.deniedAt[p] = st.deniedAt[p] /\ t.contribAt[p] = st.contribAt[p]
        /\ t.grants[p] = st.grants[p] /\ t.expiry[p] = st.expiry[p]
    BY <1>3, <1>11
  <2> HIDE DEF a, t
  <2> QED
    BY <2>1, <2>2, <2>3, OthersKeep
<1>12. \A p \in Principal : PrincipalInv(t, A, p)
  BY <1>10, <1>11, Zenon
<1>13. \A b \in answers \cup {a} : b \in answers \/ b.lamport = e.lamport
  OBVIOUS
<1> HIDE DEF a, t
<1> QED
  BY <1>1, <1>2, <1>5, <1>12, <1>13

\* An entry that decides nothing: another kind, or a decision refused.
LEMMA QuietStep ==
    ASSUME FoldInv, NEW e \in Candidates, ApplyNext(e), AnswersOf(e) = {}
    PROVE  \A p \in Principal : PrincipalInv(st', answers', p)
<1> SUFFICES ASSUME NEW p \in Principal PROVE PrincipalInv(st', answers, p)
  BY DEF ApplyNext
<1>1. st \in State /\ PrincipalInv(st, answers, p) /\ st' = Apply(st, e)
  BY FoldInvParts DEF FoldInv, TypeOK, ApplyNext
<1>2. CASE e.draft.kind \notin {"core.grant", "core.deny", "core.revoke"}
  BY <1>1, <1>2, QuietKinds, QuietKeeps
<1>3. CASE e.draft.kind = "core.grant"
  <2>1. ~ GrantCounts(st, e)
    BY <1>3 DEF AnswersOf
  <2> QED
    BY <1>1, <1>3, <2>1 DEF Apply, ApplyGrant
<1>4. CASE e.draft.kind \in {"core.deny", "core.revoke"}
  <2>1. ~ DenyCounts(st, e)
    BY <1>4 DEF AnswersOf
  <2> QED
    BY <1>1, <1>4, <2>1 DEF Apply, ApplyDeny
<1> QED
  BY <1>2, <1>3, <1>4

\* Applying the next entry preserves the invariant.
LEMMA FoldNext == FoldInv /\ [Next]_vars => FoldInv'
<1> SUFFICES ASSUME FoldInv, [Next]_vars PROVE FoldInv'
  OBVIOUS
<1>1. ASSUME NEW e \in Candidates, ApplyNext(e) PROVE FoldInv'
  <2>1. st \in State /\ answers \subseteq Answer /\ last' = {e}
    BY <1>1 DEF FoldInv, TypeOK, ApplyNext
  <2>2. st' \in State
    BY <1>1, <2>1, ApplyTyped DEF ApplyNext
  <2>3. /\ answers' \in SUBSET Answer
        /\ \A b \in answers' : b \in answers \/ b.lamport = e.lamport
        /\ \A p \in Principal : PrincipalInv(st', answers', p)
    <3>1. CASE e.draft.kind = "core.grant" /\ GrantCounts(st, e)
      BY <1>1, <3>1, GrantStep
    <3>2. CASE e.draft.kind \in {"core.deny", "core.revoke"} /\ DenyCounts(st, e)
      BY <1>1, <3>2, DenyStep
    <3>3. CASE AnswersOf(e) = {}
      BY <1>1, <2>1, <3>3, QuietStep DEF ApplyNext
    <3> QED
      BY <3>1, <3>2, <3>3 DEF AnswersOf
  <2>4. TypeOK'
    <3>1. asked \in [Principal -> SUBSET Candidates]
      BY DEF FoldInv, TypeOK
    <3>2. asked' \in [Principal -> SUBSET Candidates]
      BY <1>1, <3>1, RequesterTyped DEF ApplyNext
    <3> QED
      BY <2>1, <2>2, <2>3, <3>2 DEF TypeOK
  <2>5. HistoryInv'
    BY <1>1, <2>1, <2>3, EarlierDecisions, CandidateTyped DEF HistoryInv
  <2> QED
    BY <2>3, <2>4, <2>5, Zenon
       DEF FoldInv, HistoryInv, PrincipalInv, Granted, Denied, Contributed
<1>2. CASE UNCHANGED vars
  BY <1>2 DEF vars, FoldInv, TypeOK, Granted, Denied, Contributed
<1> QED
  BY <1>1, <1>2 DEF Next

\* The fold's invariant holds after every prefix of every control lane.
THEOREM FoldInvariant == Spec => []FoldInv
BY FoldInit, FoldNext, PTL DEF Spec

\* Type correctness of the fold.
THEOREM FoldTypeCorrect == Spec => []TypeOK
<1>1. FoldInv => TypeOK
  BY DEF FoldInv
<1> QED
  BY <1>1, FoldInvariant, PTL

\* A deny or revoke beats every grant at the same or a lower lamport.
THEOREM DenyBeats == Spec => []DenyBeatsGrant
<1>1. FoldInv => DenyBeatsGrant
  <2> SUFFICES ASSUME FoldInv, NEW p \in Principal, st.grants[p] # {}
               PROVE  \E g \in Granted(p) : \A d \in Denied(p) : d.lamport < g.lamport
    BY DEF DenyBeatsGrant
  <2>1. PICK g \in Granted(p) : g.lamport > st.deniedAt[p]
    BY DEF FoldInv
  <2>2. \A d \in Denied(p) : d.lamport <= st.deniedAt[p]
    BY DEF FoldInv
  <2>3. st.deniedAt[p] \in Nat /\ \A a \in answers : a.lamport \in Nat
    BY DEF FoldInv, TypeOK, State, Answer
  <2> QED
    BY <2>1, <2>2, <2>3 DEF Granted, Denied
<1> QED
  BY <1>1, FoldInvariant, PTL

\* Scopes and expiry are those of the latest grant.
THEOREM LatestGrant == Spec => []LatestGrantInForce
<1>1. FoldInv => LatestGrantInForce
  BY DEF FoldInv, LatestGrantInForce
<1> QED
  BY <1>1, FoldInvariant, PTL

\* A principal granted contribute, and perhaps revoked, once may write in
\* exactly the lamports from the grant to before the revoke.
THEOREM WindowIsExact == Spec => []WindowExact
<1>1. FoldInv => WindowExact
  <2> SUFFICES ASSUME FoldInv, NEW p \in Principal, Outsider(p), OneWindow(p),
                      NEW l \in Clock
               PROVE  MayContribute(st, p, l) <=> HeldContributeAt(p, l)
    BY DEF WindowExact
  <2> DEFINE c == st.contribAt[p]
             d == st.deniedAt[p]
  <2>1. l \in Nat /\ c \in Nat /\ d \in Nat /\ \A a \in answers : a.lamport \in Nat
    BY CandidateTyped DEF Clock, FoldInv, TypeOK, State, Answer
  <2>2. \A a \in Contributed(p) \cup Denied(p) : a.lamport \in Nat /\ a.lamport > 0
    BY <2>1 DEF FoldInv, Contributed, Granted, Denied
  <2>3. /\ \A e \in Denied(p) : e.lamport <= d
        /\ d # 0 => \E e \in Denied(p) : e.lamport = d
        /\ \A g \in Contributed(p) : c # 0 /\ c <= g.lamport
        /\ c # 0 => \E g \in Contributed(p) : g.lamport = c
    BY DEF FoldInv
  <2>4. MayContribute(st, p, l) <=> c # 0 /\ l >= c /\ ~ (d >= c /\ l >= d)
    BY DEF MayContribute, PersonOf, Outsider
  <2> HIDE DEF c, d
  <2>5. ASSUME HeldContributeAt(p, l) PROVE MayContribute(st, p, l)
    <3>1. PICK g \in Contributed(p) :
            /\ g.lamport <= l
            /\ \A e \in Denied(p) : ~ (g.lamport <= e.lamport /\ e.lamport <= l)
      BY <2>5 DEF HeldContributeAt
    <3>2. c # 0 /\ c <= g.lamport /\ c <= l
      BY <2>1, <2>2, <2>3, <3>1
    <3>3. ASSUME d >= c, l >= d PROVE FALSE
      <4>1. PICK e \in Denied(p) : e.lamport = d
        BY <2>1, <2>3, <3>2, <3>3
      <4>2. PICK f \in Contributed(p) : f.lamport = c
        BY <2>3, <3>2
      <4>3. g.lamport <= e.lamport
        BY <3>3, <4>1, <4>2 DEF OneWindow
      <4> QED
        BY <3>1, <3>3, <4>1, <4>3
    <3> QED
      BY <2>1, <2>4, <3>2, <3>3
  <2>6. ASSUME MayContribute(st, p, l) PROVE HeldContributeAt(p, l)
    <3>1. c # 0 /\ l >= c /\ ~ (d >= c /\ l >= d)
      BY <2>4, <2>6
    <3>2. PICK g \in Contributed(p) : g.lamport = c
      BY <2>3, <3>1
    <3>3. ASSUME NEW e \in Denied(p), g.lamport <= e.lamport, e.lamport <= l
          PROVE  FALSE
      <4>1. e.lamport <= d /\ e.lamport \in Nat
        BY <2>2, <2>3
      <4>2. d >= c /\ d # 0
        BY <2>1, <2>2, <3>2, <3>3, <4>1
      <4>3. PICK f \in Denied(p) : f.lamport = d
        BY <2>3, <4>2
      <4>4. g.lamport <= f.lamport
        BY <3>2, <4>2, <4>3
      <4>5. f.lamport = e.lamport
        BY <3>3, <4>4 DEF OneWindow
      <4> QED
        BY <2>1, <3>1, <3>3, <4>2, <4>3, <4>5
    <3> QED
      BY <2>1, <3>1, <3>2, <3>3 DEF HeldContributeAt
  <2> QED
    BY <2>5, <2>6
<1> QED
  BY <1>1, FoldInvariant, PTL

\* A thread with a steward never loses its last one.
THEOREM StewardsRemain == Spec => StewardsNeverVanish
<1>1. FoldInv /\ [Next]_vars => [st.stewards # {} => st'.stewards # {}]_vars
  <2> SUFFICES ASSUME FoldInv, NEW e \in Candidates, ApplyNext(e), st.stewards # {}
               PROVE  st'.stewards # {}
    BY DEF Next
  <2>1. st \in State /\ st' = Apply(st, e)
    BY DEF FoldInv, TypeOK, ApplyNext
  <2>2. CASE e.draft.kind = "core.membership"
    <3>1. st' = ApplyMembership(st, e)
      BY <2>1, <2>2 DEF Apply
    <3>2. CASE st' = st
      BY <3>2
    <3>3. CASE st'.stewards = st.stewards \cup {e.draft.member}
      BY <3>3
    <3>4. CASE st.stewards # {e.draft.member}
               /\ st'.stewards = st.stewards \ {e.draft.member}
      BY <3>4
    <3> QED
      BY <2>1, <3>1, <3>2, <3>3, <3>4 DEF ApplyMembership, State
  <2>3. CASE e.draft.kind = "core.thread"
    BY <2>1, <2>3 DEF Apply, ApplyThread, State
  <2>4. CASE e.draft.kind \notin {"core.membership", "core.thread"}
    BY <2>1, <2>4 DEF Apply, ApplyDelegation, ApplyAccessRequest, ApplyGrant, ApplyDeny, State
  <2> QED
    BY <2>2, <2>3, <2>4
<1> QED
  BY <1>1, FoldInvariant, PTL DEF Spec, StewardsNeverVanish

-----------------------------------------------------------------------------
(* Pending requests.                                                        *)

\* The decisions about p, and the requests among R that no such decision
\* follows.
About(A, p) == {a \in A : a.principal = p}

Open(R, A, p) == {r \in R : \A a \in About(A, p) : Less(a, r)}

\* What is pending is what was asked last and not decided since; requests and
\* decisions sort up to the entry applied last.
RequestsInv ==
    /\ \A p \in Principal : st.requests[p] = Open(asked[p], answers, p)
    /\ \A p \in Principal : \A r \in asked[p] : \E f \in last : ~ Less(f, r)
    /\ \A a \in answers : \E f \in last : ~ Less(f, a)

\* Whatever does not sort after an entry sorts before those that follow it.
LEMMA LessFollows ==
    ASSUME NEW x, NEW f \in Candidates, NEW e \in Candidates,
           x.lamport \in Nat, x.author \in Nat, x.id \in Nat,
           ~ Less(f, x), Less(f, e)
    PROVE  Less(x, e) /\ ~ Less(e, x) /\ x.lamport <= e.lamport
<1>1. f.lamport \in Nat /\ f.author \in Nat /\ f.id \in Nat
  BY CandidateTyped, PrincipalAssumption
<1>2. e.lamport \in Nat /\ e.author \in Nat /\ e.id \in Nat
  BY CandidateTyped, PrincipalAssumption
<1> QED
  BY <1>1, <1>2 DEF Less

\* The total order is one.
LEMMA LessAsymmetric ==
    ASSUME NEW x, NEW y, Less(x, y),
           x.lamport \in Nat, x.author \in Nat, x.id \in Nat,
           y.lamport \in Nat, y.author \in Nat, y.id \in Nat
    PROVE  ~ Less(y, x)
BY DEF Less

\* So everything in the history sorts before the entry applied next.
LEMMA HistoryBefore ==
    ASSUME FoldInv, RequestsInv, NEW e \in Candidates, ApplyNext(e)
    PROVE  /\ \A a \in answers : Less(a, e)
           /\ \A p \in Principal : \A r \in asked[p] :
                 Less(r, e) /\ ~ Less(e, r) /\ r.lamport <= e.lamport
<1>1. \A f \in last : f \in Candidates /\ Less(f, e)
  BY DEF FoldInv, TypeOK, ApplyNext
<1>2. \A a \in answers : Less(a, e)
  <2> SUFFICES ASSUME NEW a \in answers PROVE Less(a, e)
    OBVIOUS
  <2>1. PICK f \in last : ~ Less(f, a)
    BY DEF RequestsInv
  <2>2. a.lamport \in Nat /\ a.author \in Nat /\ a.id \in Nat
    BY PrincipalAssumption DEF FoldInv, TypeOK, Answer
  <2> QED
    BY <1>1, <2>1, <2>2, LessFollows
<1>3. ASSUME NEW p \in Principal, NEW r \in asked[p]
      PROVE  Less(r, e) /\ ~ Less(e, r) /\ r.lamport <= e.lamport
  <2>1. PICK f \in last : ~ Less(f, r)
    BY DEF RequestsInv
  <2>2. r \in Candidates
    BY DEF FoldInv, TypeOK
  <2>3. r.lamport \in Nat /\ r.author \in Nat /\ r.id \in Nat
    BY <2>2, CandidateTyped, PrincipalAssumption
  <2> QED
    BY <1>1, <2>1, <2>3, LessFollows
<1> QED
  BY <1>2, <1>3

\* A decision that takes effect answers the request of whom it is about, and
\* nothing else happens to requests or to the history.
Decided(e, q) ==
    /\ q \in Principal
    /\ asked' = asked
    /\ st'.requests = [st.requests EXCEPT ![q] = Unanswered(st, q, e)]
    /\ \E a : /\ answers' = answers \cup {a}
              /\ a.principal = q
              /\ a.lamport = e.lamport /\ a.author = e.author /\ a.id = e.id

\* Grants that count, denies and revokes are such decisions.
LEMMA DecisionsDecide ==
    ASSUME FoldInv, NEW e \in Candidates, ApplyNext(e), AnswersOf(e) # {}
    PROVE  Decided(e, e.draft.principal)
<1>1. st \in State /\ st' = Apply(st, e) /\ answers' = answers \cup AnswersOf(e)
  BY DEF FoldInv, TypeOK, ApplyNext
<1> DEFINE q == e.draft.principal
           g == [deny |-> FALSE, principal |-> q, scopes |-> e.draft.scopes \cap Scope,
                 until |-> IF e.draft.ttl > 0 THEN e.draft.ts + e.draft.ttl ELSE 0,
                 lamport |-> e.lamport, author |-> e.author, id |-> e.id]
           d == [deny |-> TRUE, principal |-> q, scopes |-> {}, until |-> 0,
                 lamport |-> e.lamport, author |-> e.author, id |-> e.id]
<1>2. CASE e.draft.kind = "core.grant" /\ GrantCounts(st, e)
  <2>1. st' = ApplyGrant(st, e) /\ AnswersOf(e) = {g}
    BY <1>1, <1>2 DEF Apply, AnswersOf
  <2>2. q \in Principal
    BY <1>2, CandidateTyped DEF GrantCounts, DraftOK
  <2>3. st'.requests = [st.requests EXCEPT ![q] = Unanswered(st, q, e)]
    BY <1>1, <1>2, <2>1 DEF ApplyGrant, State
  <2>4. asked' = asked
    BY <1>2 DEF ApplyNext
  <2>5. /\ g.principal = q /\ g.lamport = e.lamport
        /\ g.author = e.author /\ g.id = e.id
    OBVIOUS
  <2>6. answers' = answers \cup {g}
    BY <1>1, <2>1
  <2> HIDE DEF g
  <2> QED
    BY <2>2, <2>3, <2>4, <2>5, <2>6 DEF Decided
<1>3. CASE e.draft.kind \in {"core.deny", "core.revoke"} /\ DenyCounts(st, e)
  <2>1. st' = ApplyDeny(st, e) /\ AnswersOf(e) = {d}
    BY <1>1, <1>3 DEF Apply, AnswersOf
  <2>2. q \in Principal
    BY <1>3, CandidateTyped DEF DenyCounts, DraftOK
  <2>3. st'.requests = [st.requests EXCEPT ![q] = Unanswered(st, q, e)]
    BY <1>1, <1>3, <2>1 DEF ApplyDeny, State
  <2>4. asked' = asked
    BY <1>3 DEF ApplyNext
  <2>5. /\ d.principal = q /\ d.lamport = e.lamport
        /\ d.author = e.author /\ d.id = e.id
    OBVIOUS
  <2>6. answers' = answers \cup {d}
    BY <1>1, <2>1
  <2> HIDE DEF d
  <2> QED
    BY <2>2, <2>3, <2>4, <2>5, <2>6 DEF Decided
<1> QED
  BY <1>2, <1>3 DEF AnswersOf

\* What is neither a request nor a decision that counts leaves requests alone.
LEMMA OthersAskNothing ==
    ASSUME FoldInv, NEW e \in Candidates, ApplyNext(e), AnswersOf(e) = {},
           e.draft.kind # "core.access_request"
    PROVE  st'.requests = st.requests
<1>1. st \in State /\ st' = Apply(st, e)
  BY DEF FoldInv, TypeOK, ApplyNext
<1>2. CASE e.draft.kind = "core.thread"
  BY <1>1, <1>2 DEF Apply, ApplyThread, State
<1>3. CASE e.draft.kind = "core.membership"
  <2>1. st' = ApplyMembership(st, e)
    BY <1>1, <1>3 DEF Apply
  <2> QED
    BY <1>1, <2>1 DEF ApplyMembership, State
<1>4. CASE e.draft.kind = "core.delegation"
  BY <1>1, <1>4 DEF Apply, ApplyDelegation, State
<1>5. CASE e.draft.kind = "core.grant"
  <2>1. ~ GrantCounts(st, e)
    BY <1>5 DEF AnswersOf
  <2> QED
    BY <1>1, <1>5, <2>1 DEF Apply, ApplyGrant
<1>6. CASE e.draft.kind \in {"core.deny", "core.revoke"}
  <2>1. ~ DenyCounts(st, e)
    BY <1>6 DEF AnswersOf
  <2> QED
    BY <1>1, <1>6, <2>1 DEF Apply, ApplyDeny
<1>7. CASE /\ e.draft.kind \notin {"core.thread", "core.membership", "core.delegation"}
           /\ e.draft.kind \notin {"core.grant", "core.deny", "core.revoke"}
  BY <1>1, <1>7 DEF Apply
<1> QED
  BY <1>2, <1>3, <1>4, <1>5, <1>6, <1>7

\* The next entry preserves it: what it decides answers what is pending, and
\* what it asks for sorts after every decision.
LEMMA RequestsNext == FoldInv /\ RequestsInv /\ [Next]_vars => RequestsInv'
<1> SUFFICES ASSUME FoldInv, RequestsInv, [Next]_vars PROVE RequestsInv'
  OBVIOUS
<1>1. ASSUME NEW e \in Candidates, ApplyNext(e) PROVE RequestsInv'
  <2>1. st.requests \in [Principal -> SUBSET Entry] /\ asked \in [Principal -> SUBSET Candidates]
    BY DEF FoldInv, TypeOK, State
  <2>2. /\ last' = {e} /\ ~ Less(e, e)
        /\ e.lamport \in Nat /\ e.author \in Nat /\ e.id \in Nat
    <3>1. e.lamport \in Nat /\ e.author \in Nat /\ e.id \in Nat
      BY CandidateTyped, PrincipalAssumption
    <3>2. ~ Less(e, e)
      BY <3>1, LessAsymmetric
    <3> QED
      BY <1>1, <3>1, <3>2 DEF ApplyNext
  <2>3. /\ \A a \in answers : Less(a, e)
        /\ \A p \in Principal : \A r \in asked[p] :
              Less(r, e) /\ ~ Less(e, r) /\ r.lamport <= e.lamport
    BY <1>1, HistoryBefore
  <2>4. \A a \in answers : ~ Less(e, a)
    <3> SUFFICES ASSUME NEW a \in answers PROVE ~ Less(e, a)
      OBVIOUS
    <3>1. a.lamport \in Nat /\ a.author \in Nat /\ a.id \in Nat
      BY PrincipalAssumption DEF FoldInv, TypeOK, Answer
    <3> QED
      BY <2>2, <2>3, <3>1, LessAsymmetric
  <2>5. \A p \in Principal : \A r \in asked[p] : ~ Less(e, r)
    BY <2>3
  <2>6. CASE e.draft.kind = "core.access_request"
    <3> DEFINE q == Requester(e)
    <3>1. st' = ApplyAccessRequest(st, e) /\ answers' = answers
      BY <1>1, <2>6 DEF ApplyNext, Apply, AnswersOf
    <3>2. q \in Principal /\ st \in State
      BY RequesterTyped DEF FoldInv, TypeOK
    <3>3. st'.requests = [st.requests EXCEPT ![q] = {e}]
      BY <3>1, <3>2 DEF ApplyAccessRequest, State
    <3>4. asked' = [asked EXCEPT ![q] = {e}]
      BY <1>1, <2>6 DEF ApplyNext
    <3> HIDE DEF q
    <3>5. ASSUME NEW p \in Principal PROVE st'.requests[p] = Open(asked'[p], answers', p)
      <4>1. CASE p = q
        <5>1. st'.requests[p] = {e} /\ asked'[p] = {e}
          BY <2>1, <3>2, <3>3, <3>4, <4>1
        <5>2. Open({e}, answers, p) = {e}
          BY <2>3 DEF Open, About
        <5> QED
          BY <3>1, <5>1, <5>2
      <4>2. CASE p # q
        <5>1. st'.requests[p] = st.requests[p] /\ asked'[p] = asked[p]
          BY <2>1, <3>2, <3>3, <3>4, <4>2
        <5> QED
          BY <3>1, <5>1 DEF RequestsInv
      <4> QED
        BY <4>1, <4>2
    <3>6. \A p \in Principal : \A r \in asked'[p] : ~ Less(e, r)
      BY <2>1, <2>2, <2>5, <3>2, <3>4
    <3> QED
      BY <2>2, <2>4, <3>1, <3>5, <3>6 DEF RequestsInv
  <2>7. CASE AnswersOf(e) # {}
    <3> DEFINE q == e.draft.principal
    <3>1. Decided(e, q)
      BY <1>1, <2>7, DecisionsDecide
    <3> HIDE DEF q
    <3>2. PICK a : /\ answers' = answers \cup {a}
                   /\ a.principal = q
                   /\ a.lamport = e.lamport /\ a.author = e.author /\ a.id = e.id
      BY <3>1 DEF Decided
    <3>3. \A x : Less(a, x) <=> Less(e, x)
      BY <3>2 DEF Less
    <3>4. ~ Less(e, a)
      BY <2>2, <3>2 DEF Less
    <3>5. q \in Principal /\ asked' = asked
      BY <3>1 DEF Decided
    <3>6. ASSUME NEW p \in Principal PROVE st'.requests[p] = Open(asked'[p], answers', p)
      <4>1. CASE p = q
        <5>1. Unanswered(st, q, e) = {}
          <6> SUFFICES ASSUME NEW r \in st.requests[q], r.lamport > e.lamport PROVE FALSE
            BY DEF Unanswered
          <6>1. r \in asked[q]
            BY <3>5 DEF RequestsInv, Open
          <6>2. r \in Candidates
            BY <2>1, <3>5, <6>1
          <6> QED
            BY <2>2, <2>3, <3>5, <6>1, <6>2, CandidateTyped
        <5>2. st'.requests[q] = {}
          BY <2>1, <3>1, <3>5, <5>1 DEF Decided
        <5>3. Open(asked[q], answers', q) = {}
          <6>1. a \in About(answers', q)
            BY <3>2 DEF About
          <6> QED
            BY <2>5, <3>3, <3>5, <6>1 DEF Open
        <5> QED
          BY <3>5, <4>1, <5>2, <5>3
      <4>2. CASE p # q
        <5>1. st'.requests[p] = st.requests[p]
          BY <2>1, <3>1, <3>5, <4>2 DEF Decided
        <5>2. About(answers', p) = About(answers, p)
          BY <3>2, <4>2 DEF About
        <5> QED
          BY <3>5, <5>1, <5>2 DEF RequestsInv, Open
      <4> QED
        BY <4>1, <4>2
    <3>7. \A b \in answers' : ~ Less(e, b)
      BY <2>4, <3>2, <3>4
    <3> QED
      BY <2>2, <2>5, <3>5, <3>6, <3>7 DEF RequestsInv
  <2>8. CASE e.draft.kind # "core.access_request" /\ AnswersOf(e) = {}
    <3>1. st'.requests = st.requests /\ asked' = asked /\ answers' = answers
      BY <1>1, <2>8, OthersAskNothing DEF ApplyNext
    <3> QED
      BY <2>2, <2>4, <2>5, <3>1 DEF RequestsInv
  <2> QED
    BY <2>6, <2>7, <2>8
<1>2. CASE UNCHANGED vars
  BY <1>2 DEF vars, RequestsInv
<1> QED
  BY <1>1, <1>2 DEF Next

\* The latest request in somebody's name is pending until a decision about them
\* that takes effect sorts after it, and exactly until then.
THEOREM RequestsAreAnswered == Spec => []RequestsAwaitDecision
<1>1. Init => RequestsInv
  BY DEF Init, EmptyState, RequestsInv, Open
<1>2. RequestsInv => RequestsAwaitDecision
  <2> SUFFICES ASSUME RequestsInv, NEW p \in Principal
               PROVE  st.requests[p] =
                        {r \in asked[p] : \A a \in Granted(p) \cup Denied(p) : Less(a, r)}
    BY DEF RequestsAwaitDecision
  <2>1. Granted(p) \cup Denied(p) = About(answers, p)
    BY DEF Granted, Denied, About
  <2> QED
    BY <2>1 DEF RequestsInv, Open
<1> QED
  BY <1>1, <1>2, RequestsNext, FoldInvariant, PTL DEF Spec
=============================================================================
