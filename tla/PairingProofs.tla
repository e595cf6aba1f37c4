--------------------------- MODULE PairingProofs ----------------------------
(***************************************************************************)
(* What a peer's name means, for any number of commands, names, URLs and   *)
(* principals, and any pairings that overlap or are killed.                *)
(***************************************************************************)
EXTENDS Pairing, TLAPS

Known(P, S) == \A n \in DOMAIN P :
    P[n].principal # NoOne => <<n, P[n].url, P[n].principal>> \in S

\* Peers as a process or the file may have them, every identity exchanged.
Sound(P, S) == P \in Peers /\ Known(P, S)

\* What a command has in hand.
OpOK(o, S) ==
    /\ o.pc \in {"idle", "fetch", "save", "write"}
    /\ o.pc # "idle" => Sound(o.peers, S)
    /\ o.pc = "fetch" => o.name \in Name /\ o.url \in Url
    /\ o.pc \in {"save", "write"} => o.name \in DOMAIN o.peers
    /\ o.pc = "idle" => o = Idle

NodesOK == node \in [Url -> Principal \cup {NoOne}]

FileOK == file.state \in {"whole", "empty", "garbled"} /\ Sound(file.peers, served)

OpsOK == DOMAIN op = Process /\ \A p \in Process : OpOK(op[p], served)

GrantsOK ==
    /\ served \subseteq Name \X Url \X Principal
    /\ granted \subseteq Name \X Principal
    /\ \A g \in granted : \E u \in Url : <<g[1], u, g[2]>> \in served

\* The inductive invariant: what was served stays so, so the copies of the file
\* that overlapping commands hold are sound however old they are.
PairingInv == NodesOK /\ FileOK /\ OpsOK /\ GrantsOK /\ paired \in Peers /\ adds \in 0..MaxAdds

\* No peers at all.
LEMMA NonePaired == ASSUME NEW S PROVE Sound(<< >>, S)
<1>1. << >> \in [{} -> [url : Url, principal : Principal \cup {NoOne}]]
  OBVIOUS
<1>2. << >> \in Peers
  BY <1>1 DEF Peers
<1> QED
  BY <1>2 DEF Sound, Known

\* One more pairing, with an identity that was served or with none.
LEMMA OneMorePaired ==
  ASSUME NEW P \in Peers, NEW n \in Name, NEW u \in Url, NEW who \in Principal \cup {NoOne}
  PROVE  With(P, n, u, who) \in Peers
<1>1. PICK N \in SUBSET Name : P \in [N -> [url : Url, principal : Principal \cup {NoOne}]]
  BY DEF Peers
<1>2. With(P, n, u, who) \in [N \cup {n} -> [url : Url, principal : Principal \cup {NoOne}]]
  BY <1>1 DEF With
<1>3. N \cup {n} \in SUBSET Name
  OBVIOUS
<1> QED
  BY <1>2, <1>3 DEF Peers

\* A peers file with one more entry that was paired is sound.
LEMMA OneMoreSound ==
  ASSUME NEW S, NEW P, Sound(P, S), NEW n \in Name, NEW u \in Url,
         NEW who \in Principal \cup {NoOne}, who # NoOne => <<n, u, who>> \in S
  PROVE  Sound(With(P, n, u, who), S) /\ n \in DOMAIN With(P, n, u, who)
<1> DEFINE L == With(P, n, u, who)
<1>1. P \in Peers /\ Known(P, S)
  BY DEF Sound
<1>2. /\ DOMAIN L = DOMAIN P \cup {n}
      /\ L[n] = [url |-> u, principal |-> who]
      /\ \A m \in DOMAIN P : m # n => L[m] = P[m]
  BY DEF With
<1>0. With(P, n, u, who) \in Peers
  BY <1>1, OneMorePaired
<1> HIDE DEF L
<1>3. ASSUME NEW m \in DOMAIN L, L[m].principal # NoOne
      PROVE  <<m, L[m].url, L[m].principal>> \in S
  <2>1. CASE m = n
    BY <2>1, <1>2, <1>3
  <2>2. CASE m # n
    BY <2>2, <1>1, <1>2, <1>3 DEF Known
  <2> QED
    BY <2>1, <2>2
<1>4. Known(L, S) /\ n \in DOMAIN L
  BY <1>2, <1>3 DEF Known
<1> QED
  BY <1>0, <1>4 DEF L, Sound

\* What an element of Peers has under a name.
LEMMA PeerFields ==
  ASSUME NEW P \in Peers, NEW n \in DOMAIN P
  PROVE  n \in Name /\ P[n].url \in Url /\ P[n].principal \in Principal \cup {NoOne}
BY DEF Peers

\* History only grows, so nothing becomes unsound.
LEMMA SoundLater ==
  ASSUME NEW P, NEW S, NEW T, S \subseteq T, Sound(P, S)
  PROVE  Sound(P, T)
BY DEF Sound, Known

\* What an operation knew, it may still know later.
LEMMA OpLater ==
  ASSUME NEW o, NEW S, NEW T, S \subseteq T, OpOK(o, S)
  PROVE  OpOK(o, T)
BY SoundLater DEF OpOK

\* Who does nothing knows nothing.
LEMMA IdleOK == ASSUME NEW S PROVE OpOK(Idle, S)
BY DEF OpOK, Idle

\* The start.
LEMMA PairingInit == Init => PairingInv
<1> SUFFICES ASSUME Init PROVE PairingInv
  OBVIOUS
<1>1. Sound(<< >>, served)
  BY NonePaired
<1>2. FileOK /\ paired \in Peers
  BY <1>1 DEF Init, FileOK, Sound
<1>3. OpsOK
  BY IdleOK DEF Init, OpsOK
<1> QED
  BY <1>2, <1>3, PairingAssumption DEF Init, PairingInv, NodesOK, GrantsOK

\* Every step.
LEMMA PairingStep == PairingInv /\ [Next]_vars => PairingInv'
<1> SUFFICES ASSUME PairingInv, [Next]_vars PROVE PairingInv'
  OBVIOUS
<1> USE DEF PairingInv
<1>1. ASSUME NEW p \in Process, NEW o, op' = [op EXCEPT ![p] = o],
             served \subseteq served', OpOK(o, served')
      PROVE  OpsOK'
  <2>1. DOMAIN op' = Process
    BY <1>1 DEF OpsOK
  <2>2. ASSUME NEW q \in Process PROVE OpOK(op'[q], served')
    <3>1. CASE q = p
      BY <3>1, <1>1 DEF OpsOK
    <3>2. CASE q # p
      BY <3>2, <1>1, OpLater DEF OpsOK
    <3> QED
      BY <3>1, <3>2
  <2> QED
    BY <2>1, <2>2 DEF OpsOK
<1>2. ASSUME NEW u \in Url, NodeChanges(u) PROVE PairingInv'
  BY <1>2 DEF NodeChanges, NodesOK, FileOK, OpsOK, GrantsOK
<1>3. ASSUME NEW p \in Process, NEW n \in Name, Grant(p, n) PROVE PairingInv'
  <2>1. /\ n \in DOMAIN file.peers /\ file.peers[n].principal # NoOne
        /\ granted' = granted \cup {<<n, file.peers[n].principal>>}
        /\ UNCHANGED <<file, node, op, adds, served, paired>>
    BY <1>3 DEF Grant
  <2>2. file.peers[n].url \in Url /\ file.peers[n].principal \in Principal
    BY <2>1, PeerFields DEF FileOK, Sound
  <2>3. <<n, file.peers[n].url, file.peers[n].principal>> \in served
    BY <2>1 DEF FileOK, Sound, Known
  <2>4. GrantsOK'
    BY <2>1, <2>2, <2>3 DEF GrantsOK
  <2> QED
    BY <2>1, <2>4 DEF NodesOK, FileOK, OpsOK
<1>4. ASSUME NEW p \in Process, NEW n \in Name, NEW u \in Url, AddPeer(p, n, u)
      PROVE PairingInv'
  <2> DEFINE o == [pc |-> "fetch", name |-> n, url |-> u, peers |-> file.peers]
  <2>1. /\ adds' \in 0..MaxAdds
        /\ op' = [op EXCEPT ![p] = o]
        /\ UNCHANGED <<file, node, served, granted, paired>>
    BY <1>4, PairingAssumption DEF AddPeer, Goto
  <2>2. OpOK(o, served')
    BY <2>1 DEF OpOK, FileOK
  <2>3. OpsOK'
    BY <1>1, <2>1, <2>2
  <2> QED
    BY <2>1, <2>3 DEF NodesOK, FileOK, GrantsOK
<1>5. ASSUME NEW p \in Process, FetchNodeInfo(p) PROVE PairingInv'
  <2> DEFINE o == op[p]
  <2>1. PICK who \in {node[o.url], NoOne} :
           /\ served' = IF who = NoOne THEN served ELSE served \cup {<<o.name, o.url, who>>}
           /\ op' = [op EXCEPT ![p] = [pc |-> "save", name |-> o.name, peers |-> Learn(o, who)]]
    BY <1>5 DEF FetchNodeInfo, Goto
  <2>2. UNCHANGED <<file, node, adds, granted, paired>>
    BY <1>5 DEF FetchNodeInfo
  <2>3. o.name \in Name /\ o.url \in Url /\ Sound(o.peers, served)
    BY <1>5 DEF FetchNodeInfo, OpsOK, OpOK
  <2>4. who \in Principal \cup {NoOne}
    BY <2>3 DEF NodesOK
  <2>5. served \subseteq served'
    BY <2>1
  <2>6. Sound(Learn(o, who), served') /\ o.name \in DOMAIN Learn(o, who)
    <3>1. Sound(o.peers, served')
      BY <2>3, <2>5, SoundLater
    <3>2. who # NoOne => <<o.name, o.url, who>> \in served'
      BY <2>1
    <3>3. ASSUME NEW P, NEW n, NEW u, P = o.peers, n = o.name, u = o.url
          PROVE  Sound(With(P, n, u, who), served') /\ n \in DOMAIN With(P, n, u, who)
      <4>1. n \in Name /\ u \in Url /\ Sound(P, served') /\ (who # NoOne => <<n, u, who>> \in served')
        BY <3>1, <3>2, <3>3, <2>3
      <4> QED
        BY <4>1, <2>4, OneMoreSound
    <3> QED
      BY <3>3 DEF Learn
  <2>7. OpOK([pc |-> "save", name |-> o.name, peers |-> Learn(o, who)], served')
    BY <2>6 DEF OpOK
  <2>8. OpsOK'
    BY <1>1, <2>1, <2>5, <2>7
  <2>9. FileOK'
    BY <2>2, <2>5, SoundLater DEF FileOK
  <2>10. GrantsOK'
    <3>1. served' \subseteq Name \X Url \X Principal
      BY <2>1, <2>3, <2>4 DEF GrantsOK
    <3> QED
      BY <2>2, <2>5, <3>1 DEF GrantsOK
  <2> QED
    BY <2>2, <2>8, <2>9, <2>10 DEF NodesOK
<1>6. ASSUME NEW p \in Process, Truncate(p) PROVE PairingInv'
  <2>1. /\ op[p].pc = "save" /\ op' = [op EXCEPT ![p] = [op[p] EXCEPT !.pc = "write"]]
        /\ file' = [state |-> "empty", peers |-> << >>]
        /\ UNCHANGED <<node, adds, served, granted, paired>>
    BY <1>6 DEF Truncate, Goto
  <2> DEFINE o == [op[p] EXCEPT !.pc = "write"]
  <2>2. OpOK(op[p], served)
    BY DEF OpsOK
  <2>3. OpOK(o, served')
    <3>1. o.pc = "write" /\ o.peers = op[p].peers /\ o.name = op[p].name
      OBVIOUS
    <3> QED
      BY <2>1, <2>2, <3>1 DEF OpOK
  <2>4. OpsOK'
    BY <1>1, <2>1, <2>3
  <2>5. FileOK'
    BY <2>1, NonePaired DEF FileOK
  <2> QED
    BY <2>1, <2>4, <2>5 DEF NodesOK, GrantsOK
<1>7. ASSUME NEW p \in Process, Write(p) PROVE PairingInv'
  <2> DEFINE o == op[p]
  <2>1. /\ o.pc = "write" /\ op' = [op EXCEPT ![p] = Idle]
        /\ file' \in {[state |-> "whole", peers |-> o.peers],
                      [state |-> "garbled", peers |-> << >>]}
        /\ paired' = With(paired, o.name, o.peers[o.name].url, o.peers[o.name].principal)
        /\ UNCHANGED <<node, adds, served, granted>>
    BY <1>7 DEF Write, Goto
  <2>2. Sound(o.peers, served) /\ o.name \in DOMAIN o.peers
    BY <2>1 DEF OpsOK, OpOK
  <2>3. FileOK'
    BY <2>1, <2>2, NonePaired DEF FileOK
  <2>4. paired' \in Peers
    <3>1. /\ o.name \in Name /\ o.peers[o.name].url \in Url
          /\ o.peers[o.name].principal \in Principal \cup {NoOne}
      BY <2>2, PeerFields DEF Sound
    <3> QED
      BY <2>1, <3>1, OneMorePaired
  <2>5. OpsOK'
    BY <1>1, <2>1, IdleOK
  <2> QED
    BY <2>1, <2>3, <2>4, <2>5 DEF NodesOK, GrantsOK
<1>8. ASSUME NEW p \in Process, Kill(p) PROVE PairingInv'
  <2>1. op' = [op EXCEPT ![p] = Idle] /\ UNCHANGED <<file, node, adds, served, granted, paired>>
    BY <1>8 DEF Kill, Goto
  <2>2. OpsOK'
    BY <1>1, <2>1, IdleOK
  <2> QED
    BY <2>1, <2>2 DEF NodesOK, FileOK, GrantsOK
<1>9. CASE UNCHANGED vars
  BY <1>9 DEF vars, NodesOK, FileOK, OpsOK, GrantsOK
<1> QED
  BY <1>2, <1>3, <1>4, <1>5, <1>6, <1>7, <1>8, <1>9 DEF Next

\* The inductive invariant of peers.json and of those who work on it.
THEOREM PairingInvariant == Spec => []PairingInv
BY PairingInit, PairingStep, PTL DEF Spec

\* Type correctness of the pairings.
THEOREM TypeCorrect == Spec => []TypeOK
<1>1. ASSUME PairingInv PROVE TypeOK
  <2>1. ASSUME NEW p \in Process, "peers" \in DOMAIN op[p] PROVE op[p].peers \in Peers
    <3>1. op[p].pc # "idle"
      BY <1>1, <2>1 DEF PairingInv, OpsOK, OpOK, Idle
    <3> QED
      BY <1>1, <3>1 DEF PairingInv, OpsOK, OpOK, Sound
  <2> QED
    BY <1>1, <2>1 DEF PairingInv, FileOK, GrantsOK, Sound, TypeOK
<1> QED
  BY <1>1, PairingInvariant, PTL

\* NamesMeanWhoWasPaired: identities in peers.json, and whoever was granted access
\* by name, were served by a node paired under that name.
THEOREM NamesSound == Spec => []NamesMeanWhoWasPaired
<1>1. PairingInv => NamesMeanWhoWasPaired
  BY DEF PairingInv, FileOK, GrantsOK, Sound, Known, NamesMeanWhoWasPaired
<1> QED
  BY <1>1, PairingInvariant, PTL

-----------------------------------------------------------------------------
(* Pairings that do not disturb each other.                                 *)

\* What a pairing has in hand, when it is the only one: the peers as the last
\* acknowledged pairing left them, and then those with its own.
InHand(o) ==
    /\ o.pc = "fetch" => o.peers = paired
    /\ o.pc \in {"save", "write"} =>
          o.peers = With(paired, o.name, o.peers[o.name].url, o.peers[o.name].principal)

\* The file is emptied by the one that writes it, and holds what was paired else.
FileKept ==
    \/ file.state = "whole" /\ file.peers = paired /\ \A p \in Process : op[p].pc # "write"
    \/ file.state = "empty" /\ \E p \in Process : op[p].pc = "write"

\* What PairingsKept needs: that pairings take turns, so nothing that one has
\* read is older than what the one before it wrote.
Alone ==
    ~ disturbed =>
        /\ \A p, q \in Process : Pairs(p) /\ Pairs(q) => p = q
        /\ FileKept
        /\ \A p \in Process : InHand(op[p])

\* Pairing again what a set of peers has changes nothing in it, and With fixes
\* what it adds.
LEMMA WithAgain ==
  ASSUME NEW P, NEW n, NEW u, NEW who
  PROVE  LET L == With(P, n, u, who)
         IN  L = With(P, n, L[n].url, L[n].principal)
<1> DEFINE L == With(P, n, u, who)
<1>1. L[n].url = u /\ L[n].principal = who
  BY DEF With
<1> QED
  BY <1>1

\* Nobody is pairing, and nobody is paired.
LEMMA AloneInit == Init => Alone
BY DEF Init, Alone, FileKept, InHand, Pairs, Idle

\* Every step keeps them taking turns, or disturbs them.
LEMMA AloneStep == PairingInv /\ Alone /\ [Next]_vars => Alone'
<1> SUFFICES ASSUME PairingInv, Alone, [Next]_vars, ~ disturbed'
             PROVE  /\ \A p, q \in Process : Pairs(p)' /\ Pairs(q)' => p = q
                    /\ FileKept'
                    /\ \A p \in Process : InHand(op[p])'
  BY DEF Alone
<1>0. DOMAIN op = Process /\ \A p \in Process : OpOK(op[p], served)
  BY DEF PairingInv, OpsOK
<1>1. ~ disturbed
  BY DEF Next, NodeChanges, AddPeer, FetchNodeInfo, Truncate, Write, Kill, Grant, vars
<1>2. /\ \A p, q \in Process : Pairs(p) /\ Pairs(q) => p = q
      /\ FileKept
      /\ \A p \in Process : InHand(op[p])
  BY <1>1 DEF Alone
<1>3. CASE UNCHANGED <<file, op, paired>>
  BY <1>2, <1>3 DEF FileKept, InHand, Pairs
<1>4. ASSUME NEW p \in Process, NEW n \in Name, NEW u \in Url, AddPeer(p, n, u)
      PROVE  /\ \A r, q \in Process : Pairs(r)' /\ Pairs(q)' => r = q
             /\ FileKept'
             /\ \A q \in Process : InHand(op[q])'
  <2>1. /\ op[p] = Idle /\ file.state = "whole" /\ UNCHANGED <<file, paired>>
        /\ op' = [op EXCEPT ![p] = [pc |-> "fetch", name |-> n, url |-> u, peers |-> file.peers]]
        /\ \A q \in Process : ~ Pairs(q)
    BY <1>4 DEF AddPeer, Goto
  <2>2. /\ op'[p].pc = "fetch" /\ op'[p].peers = file.peers
        /\ \A q \in Process : q # p => op'[q] = op[q]
    BY <2>1, <1>0
  <2>3. file.peers = paired
    BY <2>1, <1>2 DEF FileKept
  <2>4. \A q \in Process : InHand(op[q])'
    BY <2>1, <2>2, <2>3, <1>2 DEF InHand
  <2> QED
    BY <2>1, <2>2, <2>4, <1>2 DEF Pairs, FileKept
<1>5. ASSUME NEW p \in Process, FetchNodeInfo(p)
      PROVE  /\ \A r, q \in Process : Pairs(r)' /\ Pairs(q)' => r = q
             /\ FileKept'
             /\ \A q \in Process : InHand(op[q])'
  <2>1. PICK who : op' = [op EXCEPT ![p] =
             [pc |-> "save", name |-> op[p].name, peers |-> Learn(op[p], who)]]
    BY <1>5 DEF FetchNodeInfo, Goto
  <2>2. op[p].pc = "fetch" /\ UNCHANGED <<file, paired>>
    BY <1>5 DEF FetchNodeInfo
  <2>3. /\ op'[p].pc = "save" /\ op'[p].name = op[p].name
        /\ op'[p].peers = With(paired, op[p].name, op[p].url, who)
        /\ \A q \in Process : q # p => op'[q] = op[q]
    BY <2>1, <2>2, <1>0, <1>2 DEF Learn, InHand
  <2>4. InHand(op[p])'
    BY <2>2, <2>3, WithAgain DEF InHand
  <2>5. \A q \in Process : InHand(op[q])'
    BY <2>2, <2>3, <2>4, <1>2 DEF InHand
  <2> QED
    BY <2>2, <2>3, <2>5, <1>2 DEF Pairs, FileKept
<1>6. ASSUME NEW p \in Process, Truncate(p)
      PROVE  /\ \A r, q \in Process : Pairs(r)' /\ Pairs(q)' => r = q
             /\ FileKept'
             /\ \A q \in Process : InHand(op[q])'
  <2>1. /\ op[p].pc = "save" /\ op' = [op EXCEPT ![p] = [op[p] EXCEPT !.pc = "write"]]
        /\ file'.state = "empty" /\ UNCHANGED paired
    BY <1>6 DEF Truncate, Goto
  <2>2. OpOK(op[p], served)
    BY <1>0
  <2>3. /\ op'[p].pc = "write" /\ op'[p].name = op[p].name /\ op'[p].peers = op[p].peers
        /\ \A q \in Process : q # p => op'[q] = op[q]
    BY <2>1, <1>0, <1>2 DEF InHand
  <2>4. \A q \in Process : InHand(op[q])'
    BY <2>1, <2>3, <1>2 DEF InHand
  <2> QED
    BY <2>1, <2>3, <2>4, <1>2 DEF Pairs, FileKept
<1>7. ASSUME NEW p \in Process, Write(p)
      PROVE  /\ \A r, q \in Process : Pairs(r)' /\ Pairs(q)' => r = q
             /\ FileKept'
             /\ \A q \in Process : InHand(op[q])'
  <2>1. /\ op[p].pc = "write" /\ op' = [op EXCEPT ![p] = Idle]
        /\ paired' = With(paired, op[p].name, op[p].peers[op[p].name].url,
                          op[p].peers[op[p].name].principal)
    BY <1>7 DEF Write, Goto
  <2>2. file.state = "empty"
    BY <2>1, <1>2 DEF FileKept
  <2>3. file' = [state |-> "whole", peers |-> op[p].peers]
    BY <1>7, <2>2 DEF Write
  <2>4. op[p].peers = paired'
    BY <2>1, <1>2 DEF InHand
  <2>5. op'[p].pc = "idle" /\ \A q \in Process : q # p => op'[q] = op[q]
    BY <2>1, <1>0 DEF Idle
  <2>6. \A q \in Process : q # p => op[q].pc = "idle"
    BY <2>1, <1>0, <1>2 DEF Pairs, OpOK
  <2>7. \A q \in Process : op'[q].pc = "idle"
    BY <2>5, <2>6
  <2> QED
    BY <2>3, <2>4, <2>7 DEF Pairs, FileKept, InHand
<1>8. ASSUME NEW p \in Process, Kill(p)
      PROVE  /\ \A r, q \in Process : Pairs(r)' /\ Pairs(q)' => r = q
             /\ FileKept'
             /\ \A q \in Process : InHand(op[q])'
  <2>1. op[p].pc # "write" /\ op' = [op EXCEPT ![p] = Idle] /\ UNCHANGED <<file, paired>>
    BY <1>8 DEF Kill, Goto
  <2>2. op'[p].pc = "idle" /\ \A q \in Process : q # p => op'[q] = op[q]
    BY <2>1, <1>0 DEF Idle
  <2>3. \A q \in Process : InHand(op[q])'
    BY <2>1, <2>2, <1>2 DEF InHand
  <2> QED
    BY <2>1, <2>2, <2>3, <1>2 DEF Pairs, FileKept
<1>9. ASSUME NEW u \in Url, NodeChanges(u) PROVE UNCHANGED <<file, op, paired>>
  BY <1>9 DEF NodeChanges
<1>10. ASSUME NEW p \in Process, NEW n \in Name, Grant(p, n) PROVE UNCHANGED <<file, op, paired>>
  BY <1>10 DEF Grant
<1> QED
  BY <1>3, <1>4, <1>5, <1>6, <1>7, <1>8, <1>9, <1>10 DEF Next, vars

\* PairingsKept: pairings that neither overlap nor are killed while they write are
\* all in peers.json as they were made last, whenever it can be read.
THEOREM PairingsAreKept == Spec => []PairingsKept
<1>1. Alone => PairingsKept
  BY DEF Alone, FileKept, PairingsKept
<1>2. Spec => []Alone
  BY AloneInit, AloneStep, PairingInvariant, PTL DEF Spec
<1> QED
  BY <1>1, <1>2, PTL
=============================================================================
