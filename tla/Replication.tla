----------------------------- MODULE Replication -----------------------------
(***************************************************************************)
(* What replication promises of one filesystem, without etcd, caches,      *)
(* state machines or streams: every node holds a replica, a history of     *)
(* snapshots; one node owns the filesystem.  A replica grows by a snapshot *)
(* that is new everywhere, or by the next snapshot of a replica it is a    *)
(* prefix of, and the filesystem is handed to a node only when that node   *)
(* has the owner's whole history.                                          *)
(***************************************************************************)
EXTENDS Naturals, Sequences, SequencesExt

CONSTANT Nodes

VARIABLES owner, replica

Init ==
  /\ owner \in Nodes
  /\ replica = [n \in Nodes |-> << >>]

(* The action is a relation between two histories: the id it adds is read  *)
(* off the later one.                                                      *)
Extends(n) == /\ replica'[n] # << >>
              /\ replica' = [replica EXCEPT ![n] = Append(@, Last(replica'[n]))]
              /\ UNCHANGED owner

Commit(n) ==
  /\ Extends(n)
  /\ \A m \in Nodes : Last(replica'[n]) \notin ToSet(replica[m])

Fetch(n) ==
  /\ Extends(n)
  /\ \E m \in Nodes : IsPrefix(replica'[n], replica[m])

Handoff(m) ==
  /\ IsPrefix(replica[owner], replica[m])
  /\ owner' = m
  /\ UNCHANGED replica

Next == \E n \in Nodes : Commit(n) \/ Fetch(n) \/ Handoff(n)

Spec == Init /\ [][Next]_<<owner, replica>>
=============================================================================
