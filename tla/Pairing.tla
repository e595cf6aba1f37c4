------------------------------ MODULE Pairing -------------------------------
(***************************************************************************)
(* peers.json and those who read and rewrite it (cmd/lamdis): `peer add',  *)
(* which asks the peer's node for its principal between reading the file   *)
(* and rewriting it, and `grant' to a peer by name.  Commands run side by  *)
(* side, and may be killed at any point.  The file is written by           *)
(* truncating it and writing the new contents over what is there           *)
(* (os.WriteFile).                                                         *)
(***************************************************************************)
EXTENDS Naturals

CONSTANTS Process,      \* command processes at one time
          Name, Url,    \* what peers are called, and where their nodes are
          Principal,    \* who may be behind a URL
          NoOne,        \* no identity exchanged yet
          MaxAdds       \* bound: pairings begun

ASSUME PairingAssumption ==
    /\ NoOne \notin Principal
    /\ MaxAdds \in Nat

VARIABLES file,         \* peers.json: whether it can be read, and the peers in it
          node,         \* node[u]: whose node answers at u, NoOne when none does
          op,           \* op[p]: the command that process p is running
          adds,         \* pairings begun
          served,       \* history: <<name, url, principal>> exchanged in a pairing
          granted,      \* history: <<name, principal>> of each grant by name
          paired,       \* history: the pairings acknowledged, latest by name
          disturbed     \* history: whether two pairings overlapped, or one was
                        \* killed while it wrote

vars == <<file, node, op, adds, served, granted, paired, disturbed>>

Peers == UNION {[N -> [url : Url, principal : Principal \cup {NoOne}]] : N \in SUBSET Name}

Idle == [pc |-> "idle"]

Init ==
    /\ file = [state |-> "whole", peers |-> << >>]
    /\ node \in [Url -> Principal \cup {NoOne}]
    /\ op = [p \in Process |-> Idle]
    /\ adds = 0
    /\ served = {} /\ granted = {} /\ paired = << >>
    /\ disturbed = FALSE

Goto(p, o) == op' = [op EXCEPT ![p] = o]

\* The other side's node starts, stops, or is replaced by another one.
NodeChanges(u) ==
    /\ \E who \in Principal \cup {NoOne} : node' = [node EXCEPT ![u] = who]
    /\ UNCHANGED <<file, op, adds, served, granted, paired, disturbed>>

-----------------------------------------------------------------------------
(* peer add.                                                                *)

Pairs(p) == op[p].pc \in {"fetch", "save", "write"}

\* loadPeers: a file that is not whole ends any command with an error.
AddPeer(p, n, u) ==
    /\ op[p] = Idle
    /\ adds < MaxAdds /\ adds' = adds + 1
    /\ file.state = "whole"
    /\ Goto(p, [pc |-> "fetch", name |-> n, url |-> u, peers |-> file.peers])
    /\ disturbed' = (disturbed \/ \E q \in Process : Pairs(q))
    /\ UNCHANGED <<file, node, served, granted, paired>>

With(peers, n, u, who) ==
    [m \in DOMAIN peers \cup {n} |->
        IF m = n THEN [url |-> u, principal |-> who] ELSE peers[m]]

\* Mutant of Learn: a peer whose node does not answer keeps the identity it had.
LearnOrKeep(o, who) ==
    With(o.peers, o.name, o.url,
         IF who = NoOne /\ o.name \in DOMAIN o.peers THEN o.peers[o.name].principal ELSE who)

\* Mutant of Learn: the peers are those of the pairing.
LearnAlone(o, who) == With(<< >>, o.name, o.url, who)

\* The pairing is kept whether or not an identity came with it.
Learn(o, who) == With(o.peers, o.name, o.url, who)

\* FetchNodeInfo: the node answers with its principal, or the call fails.
FetchNodeInfo(p) ==
    LET o == op[p]
    IN  /\ o.pc = "fetch"
        /\ \E who \in {node[o.url], NoOne} :
              /\ served' = IF who = NoOne THEN served ELSE served \cup {<<o.name, o.url, who>>}
              /\ Goto(p, [pc |-> "save", name |-> o.name, peers |-> Learn(o, who)])
        /\ UNCHANGED <<file, node, adds, granted, paired, disturbed>>

\* savePeers: os.WriteFile empties the file,
Truncate(p) ==
    /\ op[p].pc = "save"
    /\ file' = [state |-> "empty", peers |-> << >>]
    /\ Goto(p, [op[p] EXCEPT !.pc = "write"])
    /\ UNCHANGED <<node, adds, served, granted, paired, disturbed>>

\* and writes to it from its start; what another process has written since then
\* stays behind the end of a shorter text.
Write(p) ==
    LET o == op[p]
    IN  /\ o.pc = "write"
        /\ file' \in IF file.state = "empty" THEN {[state |-> "whole", peers |-> o.peers]}
                     ELSE {[state |-> "whole", peers |-> o.peers],
                           [state |-> "garbled", peers |-> << >>]}
        /\ paired' = With(paired, o.name, o.peers[o.name].url, o.peers[o.name].principal)
        /\ Goto(p, Idle)
        /\ UNCHANGED <<node, adds, served, granted, disturbed>>

\* The command is killed.
Kill(p) ==
    /\ op[p] # Idle
    /\ Goto(p, Idle)
    /\ disturbed' = (disturbed \/ op[p].pc = "write")
    /\ UNCHANGED <<file, node, adds, served, granted, paired>>

-----------------------------------------------------------------------------
(* A grant by name.                                                         *)

\* Mutant of Grant: a peer without an identity is not turned away.
GrantUnidentified(p, n) ==
    /\ op[p] = Idle
    /\ file.state = "whole" /\ n \in DOMAIN file.peers
    /\ granted' = granted \cup {<<n, file.peers[n].principal>>}
    /\ UNCHANGED <<file, node, op, adds, served, paired, disturbed>>

\* cmdGrant: resolveWho turns the name into the principal that the grant names.
Grant(p, n) ==
    /\ op[p] = Idle
    /\ file.state = "whole" /\ n \in DOMAIN file.peers
    /\ file.peers[n].principal # NoOne
    /\ granted' = granted \cup {<<n, file.peers[n].principal>>}
    /\ UNCHANGED <<file, node, op, adds, served, paired, disturbed>>

Next ==
    \/ \E u \in Url : NodeChanges(u)
    \/ \E p \in Process :
          \/ \E n \in Name : Grant(p, n) \/ \E u \in Url : AddPeer(p, n, u)
          \/ FetchNodeInfo(p) \/ Truncate(p) \/ Write(p) \/ Kill(p)

Spec == Init /\ [][Next]_vars

-----------------------------------------------------------------------------
(* Properties.                                                              *)

\* Type invariant of the file and of who works on it.
TypeOK ==
    /\ file.state \in {"whole", "empty", "garbled"} /\ file.peers \in Peers
    /\ paired \in Peers
    /\ served \subseteq Name \X Url \X Principal /\ granted \subseteq Name \X Principal
    /\ adds \in 0..MaxAdds
    /\ \A p \in Process : "peers" \in DOMAIN op[p] => op[p].peers \in Peers

\* A name never comes to mean somebody whom no pairing under that name was told
\* of: an identity in the file was served by the node at that very URL, for that
\* name, and so was whoever was granted access by name; whatever pairings overlap,
\* are killed, or find the other side gone or replaced.
NamesMeanWhoWasPaired ==
    /\ \A n \in DOMAIN file.peers :
          file.peers[n].principal # NoOne =>
              <<n, file.peers[n].url, file.peers[n].principal>> \in served
    /\ \A g \in granted : \E u \in Url : <<g[1], u, g[2]>> \in served

\* Pairings that do not overlap, and are not killed while they write, are kept:
\* whenever the file can be read, every acknowledged one is in it as it was made
\* last, and it cannot be read only while one of them is writing it.
PairingsKept ==
    ~ disturbed =>
        /\ file.state = "whole" \/ \E p \in Process : op[p].pc = "write"
        /\ file.state = "whole" => file.peers = paired
=============================================================================
