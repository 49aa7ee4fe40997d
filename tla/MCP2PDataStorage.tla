-------------------------- MODULE MCP2PDataStorage --------------------------
(* Instances of P2PDataStorage: node "a" owns an offer and a DAO proposal,  *)
(* and sends node "b" a mailbox message.                                    *)
EXTENDS P2PDataStorage

CONSTANTS a, b, offer, proposal, mail

MCAdder == [h \in Payload |-> a]
MCRemover == [h \in Payload |-> IF h = mail THEN b ELSE a]
MCTtl == [h \in Payload |-> IF h = offer THEN 2 ELSE 1]

\* One payload at a time, since an operation touches one, and only the list of "b", the
\* node whose listener may raise; a node's list is read by that node alone, at its start
Untouched(h) ==
  /\ \A n \in Node : /\ seqNrs[n][h] = None /\ map[n][h] = None
                     /\ disk[n].seqNrs[h] = None /\ disk[n].store[h] = None
                     /\ disk[n].list[h] = None
                     /\ removed[n][h] = None /\ disk[n].removed[h] = None
  /\ \A m \in msgs : m.payload # h
OneAtATime ==
  /\ \A h \in Payload : disk[a].list[h] = None
  /\ \E h \in Payload : \A g \in Payload \ {h} : Untouched(g)
=============================================================================
