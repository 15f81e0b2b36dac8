---------------------------- MODULE HandoffProofs ----------------------------
(***************************************************************************)
(* A handoff leaves nothing behind, what is reported of a node is there,   *)
(* and the pools and the masters key implement Replication, in a cluster   *)
(* without rollbacks; and a Procure that had the filesystem moved gives    *)
(* Docker a mounted one, or one whose umount was a moment ago.             *)
(***************************************************************************)
EXTENDS LineageProofs

(***************************************************************************)
(* What a machine knows of its own filesystem: activeState has it mounted, *)
(* handoffState has unmounted it, and has saved all that was written.      *)
(***************************************************************************)
Saved   == {"handoffCheck", "handoffWait", "handoffSwitch"}
Quieted == Saved \cup {"handoffSnap"}

Calm(n) ==
  /\ state[n] = "active" => zMounted[n]
  /\ state[n] \in Quieted => ~zMounted[n]
  /\ state[n] \in Saved => ~zDirty[n]

CalmInv == LineageInv /\ \A n \in Nodes : Calm(n)

(***************************************************************************)
(* Without rollbacks pools only grow.  So a list that was true of a node   *)
(* stays true; a target that was up to date when handoffState looked still *)
(* is when it moves the key; and what a stream is to complete a pool to    *)
(* remains the history of some other pool.                                 *)
(***************************************************************************)
NoRollbacks ==
  ~Rollbacks /\ \A id \in 1 .. Len(requests) : requests[id].op # "rollback"

TrueOf(n, p) == IsPrefix(p, zSnaps[n])

Told(event) ==
  \A n \in Nodes : event.type = "snapshots" /\ event.node = n => TrueOf(n, event.snaps)

ListsAreTrue ==
  /\ \A n \in Nodes : TrueOf(n, fsSnaps[n]) /\ TrueOf(n, snapshots[n])
  /\ \A n \in Nodes, m \in Nodes : TrueOf(n, globalSnapshotCache[m][n])
  /\ \A m \in Nodes : \A k \in DOMAIN watch[m] : Told(watch[m][k])

TargetIsReady ==
  \A n \in Nodes : state[n] = "handoffSwitch" => IsPrefix(zSnaps[n], zSnaps[target(n)])

StreamsAreKnown ==
  \A n \in Nodes : state[n] = "recv" =>
    \E m \in Nodes : IsPrefix(zSnaps[n] \o stream[n], zSnaps[m])

HandoffInv == CalmInv /\ NoRollbacks /\ ListsAreTrue /\ TargetIsReady /\ StreamsAreKnown

-----------------------------------------------------------------------------
(* Prefixes.                                                               *)

(* Every list is a prefix of itself, and the empty one of every list.      *)
LEMMA PrefixReflexive ==
  ASSUME NEW p \in Seq(Nat) PROVE IsPrefix(p, p) /\ IsPrefix(<< >>, p)
<1>1. IsPrefix(p, p)
  BY PrefixProperties
<1> DEFINE e == << >>
<1>2. e \in Seq(Nat) /\ Len(e) = 0
  BY EmptySeq
<1> HIDE DEF e
<1>3. Len(e) =< Len(p) /\ \A i \in 1 .. Len(e) : e[i] = p[i]
  BY <1>2
<1>4. IsPrefix(e, p)
  BY <1>2, <1>3, PrefixProperties
<1> QED
  BY <1>1, <1>4 DEF e

(* A prefix of a prefix is a prefix.                                       *)
LEMMA PrefixTransitive ==
  ASSUME NEW p \in Seq(Nat), NEW q \in Seq(Nat), NEW r \in Seq(Nat),
         IsPrefix(p, q), IsPrefix(q, r)
  PROVE  IsPrefix(p, r)
<1>1. Len(p) =< Len(q) /\ \A i \in 1 .. Len(p) : p[i] = q[i]
  BY PrefixProperties
<1>2. Len(q) =< Len(r) /\ \A i \in 1 .. Len(q) : q[i] = r[i]
  BY PrefixProperties
<1>3. Len(p) \in Nat /\ Len(q) \in Nat /\ Len(r) \in Nat
  OBVIOUS
<1>4. Len(p) =< Len(r) /\ \A i \in 1 .. Len(p) : p[i] = r[i]
  BY <1>1, <1>2, <1>3
<1> QED
  BY <1>4, PrefixProperties

(* A list is a prefix of what it grows to.                                 *)
LEMMA PrefixAppend ==
  ASSUME NEW p \in Seq(Nat), NEW x \in Nat PROVE IsPrefix(p, Append(p, x))
<1>1. Append(p, x) \in Seq(Nat) /\ \A i \in 1 .. Len(p) : p[i] = Append(p, x)[i]
  OBVIOUS
<1>2. Len(p) =< Len(Append(p, x))
  OBVIOUS
<1> QED
  BY <1>1, <1>2, PrefixProperties

(* A list that is cut is a prefix.                                         *)
LEMMA PrefixCut ==
  ASSUME NEW p \in Seq(Nat), NEW k \in 0 .. Len(p)
  PROVE  SubSeq(p, 1, k) \in Seq(Nat) /\ IsPrefix(SubSeq(p, 1, k), p)
<1> DEFINE q == SubSeq(p, 1, k)
<1>1. /\ SubSeq(p, 1, k) \in Seq(Nat) /\ Len(SubSeq(p, 1, k)) = k
      /\ \A i \in 1 .. k : SubSeq(p, 1, k)[i] = p[i]
  OBVIOUS
<1>2. q \in Seq(Nat) /\ Len(q) =< Len(p) /\ \A i \in 1 .. Len(q) : q[i] = p[i]
  BY <1>1
<1> HIDE DEF q
<1>3. IsPrefix(q, p)
  BY <1>2, PrefixProperties
<1> QED
  BY <1>2, <1>3 DEF q

-----------------------------------------------------------------------------
(* What a step is to the filesystem of a node.                             *)
Still(m) ==
  /\ state'[m] = state[m] /\ zSnaps'[m] = zSnaps[m] /\ stream'[m] = stream[m]
  /\ handoffRequest'[m] = handoffRequest[m]
  /\ zMounted'[m] = zMounted[m] /\ zDirty'[m] = zDirty[m]

(* Only the machine of n acts; requests are only added; its pool grows by  *)
(* a snapshot of its own or by one of the open stream; it comes to move    *)
(* the masters key only from the check, and to receive only from           *)
(* receivingState; and only handoffState moves the key.                    *)
Grows(n) ==
  \/ zSnaps'[n] = zSnaps[n]
  \/ zSnaps'[n] = Append(zSnaps[n], nextSnap) /\ masters' = masters
  \/ /\ state[n] = "recv" /\ zSnaps'[n] = Append(zSnaps[n], Head(stream[n]))
     /\ masters' = masters

Switches(n) ==
  state'[n] = "handoffSwitch" =>
    /\ zSnaps'[n] = zSnaps[n] /\ handoffRequest'[n] = handoffRequest[n]
    /\ state[n] = "handoffSwitch" \/ handoffCheck(n)

Receives(n) ==
  state'[n] = "recv" =>
    \/ state[n] = "recv" /\ zSnaps'[n] \o stream'[n] = zSnaps[n] \o stream[n]
    \/ receiving(n)

MovesKey(n) ==
  \/ masters' = masters
  \/ state[n] = "handoffSwitch" /\ masters = n /\ masters' = target(n) /\ zSnaps' = zSnaps

Asked ==
  /\ Len(requests') \in Nat /\ Len(requests) =< Len(requests')
  /\ \A id \in 1 .. Len(requests) : requests'[id] = requests[id]
  /\ \A id \in Len(requests) + 1 .. Len(requests') : requests'[id].op = "rollback" => Rollbacks

MachineStep(n) ==
  /\ \A m \in Nodes \ {n} : Still(m)
  /\ Asked /\ Grows(n) /\ Switches(n) /\ Receives(n) /\ MovesKey(n) /\ Calm(n)'

(* The first of two kinds of steps: the machine goes to another state      *)
(* function, and leaves the pool and its stream alone.                     *)
LEMMA GotoStep ==
  ASSUME CalmInv, NEW n \in Nodes, NEW next, state' = [state EXCEPT ![n] = next],
         UNCHANGED <<requests, zSnaps, masters>>,
         next = "handoffSwitch" => handoffCheck(n) /\ UNCHANGED handoffRequest,
         next = "recv" => receiving(n),
         \A m \in Nodes \ {n} : /\ stream'[m] = stream[m] /\ zMounted'[m] = zMounted[m]
                               /\ zDirty'[m] = zDirty[m] /\ handoffRequest'[m] = handoffRequest[m],
         next = "active" => zMounted'[n], next \in Quieted => ~zMounted'[n],
         next \in Saved => ~zDirty'[n]
  PROVE  MachineStep(n)
<1>1. \A m \in Nodes : state'[m] = IF m = n THEN next ELSE state[m]
  BY DEF CalmInv, LineageInv, TypeInv, TypeOK
<1>2. Asked
  BY DEF Asked, CalmInv, LineageInv, TypeInv, TypeOK
<1>3. \A m \in Nodes \ {n} : Still(m)
  BY <1>1 DEF Still
<1>4. Calm(n)'
  BY <1>1 DEF Calm
<1>5. Grows(n) /\ Switches(n) /\ Receives(n) /\ MovesKey(n)
  BY <1>1 DEF Grows, Switches, Receives, MovesKey
<1> QED
  BY <1>2, <1>3, <1>4, <1>5 DEF MachineStep

(* The second: nothing happens to any filesystem.                          *)
LEMMA StillStep ==
  ASSUME CalmInv, NEW n \in Nodes, Asked,
         UNCHANGED <<state, zSnaps, stream, handoffRequest, zMounted, zDirty, masters>>
  PROVE  MachineStep(n)
BY DEF MachineStep, Still, Grows, Switches, Receives, MovesKey, Calm, CalmInv

(* Requests stay, unless an RPC adds one.                                  *)
LEMMA AskedIs ==
  ASSUME TypeOK
  PROVE  /\ requests' = requests => Asked
         /\ \A op, node, snap :
              globalFsRequest(op, node, snap) /\ (op = "rollback" => Rollbacks) => Asked
<1>1. requests \in Seq(Request) /\ Len(requests) \in Nat
  BY DEF TypeOK
<1>2. requests' = requests => Asked
  BY <1>1 DEF Asked
<1>3. ASSUME NEW op, NEW node, NEW snap, globalFsRequest(op, node, snap),
             op = "rollback" => Rollbacks
      PROVE  Asked
  <2> DEFINE r == [op |-> op, target |-> node, snap |-> snap]
  <2>1. requests' = Append(requests, r) /\ r.op = op
    BY <1>3 DEF globalFsRequest
  <2> HIDE DEF r
  <2>2. /\ Len(Append(requests, r)) = Len(requests) + 1
        /\ \A id \in 1 .. Len(requests) : Append(requests, r)[id] = requests[id]
        /\ Append(requests, r)[Len(requests) + 1] = r
    BY <1>1, AppendProperties, requests \in Seq(Request \cup {r})
  <2> QED
    BY <1>1, <1>3, <2>1, <2>2 DEF Asked
<1> QED
  BY <1>2, <1>3

(* `zfs snapshot` adds the next snapshot, and nothing is unsaved then.     *)
LEMMA SnapshotIs ==
  ASSUME TypeOK, NEW n \in Nodes, NEW done \in SnapshotOutcomes, snapshot(n, done)
  PROVE  /\ zSnaps'[n] \in {zSnaps[n], Append(zSnaps[n], nextSnap)}
         /\ done = "listed" => ~zDirty'[n]
         /\ \A m \in Nodes \ {n} : zSnaps'[m] = zSnaps[m] /\ zDirty'[m] = zDirty[m]
BY DEF snapshot, TypeOK, SnapshotOutcomes

(* The steps of a machine that snapshots.                                  *)
LEMMA SnapshotStep ==
  ASSUME CalmInv, NEW n \in Nodes, NEW done \in SnapshotOutcomes, snapshot(n, done), NEW next,
         state' = [state EXCEPT ![n] = next],
         UNCHANGED <<requests, masters, stream, handoffRequest, zMounted>>,
         \/ state[n] = "active" /\ next = IF done = "listed" THEN "active" ELSE "backoff"
         \/ state[n] = "handoffSnap" /\ next = IF done = "listed" THEN "handoffCheck" ELSE "backoff"
  PROVE  MachineStep(n)
<1> USE DEF CalmInv, LineageInv, TypeInv
<1>1. \A m \in Nodes : state'[m] = IF m = n THEN next ELSE state[m]
  BY DEF TypeOK
<1>2. /\ zSnaps'[n] \in {zSnaps[n], Append(zSnaps[n], nextSnap)}
      /\ done = "listed" => ~zDirty'[n]
      /\ \A m \in Nodes \ {n} : zSnaps'[m] = zSnaps[m] /\ zDirty'[m] = zDirty[m]
  BY SnapshotIs
<1>3. \A m \in Nodes \ {n} : Still(m)
  BY <1>1, <1>2 DEF Still
<1>4. Asked
  BY AskedIs
<1>5. next # "handoffSwitch" /\ next # "recv"
  OBVIOUS
<1>6. Calm(n)'
  BY <1>1, <1>2 DEF Calm, Quieted, Saved
<1> QED
  BY <1>1, <1>2, <1>3, <1>4, <1>5, <1>6 DEF MachineStep, Grows, Switches, Receives, MovesKey

-----------------------------------------------------------------------------
(* A user rolls the filesystem back, where this is allowed at all.         *)
RollsBack(n) == \E i \in Offerable(n) : rollback(n, i)

(* Every step is one of one node, one action at a time.                    *)
LEMMA NextStep == CalmInv /\ Next => \E n \in Nodes : MachineStep(n) \/ RollsBack(n)
<1> SUFFICES ASSUME CalmInv, Next PROVE \E n \in Nodes : MachineStep(n) \/ RollsBack(n)
  OBVIOUS
<1> USE DEF CalmInv, LineageInv, TypeInv
<1>0. requests' = requests => Asked
  BY AskedIs
<1> USE DEF etcdVars, zVars, boundVars
<1>1. ASSUME NEW n \in Nodes, maybeDispatchEvent(n) \/ updateSnapshots(n)  PROVE MachineStep(n)
  BY <1>1, <1>0, StillStep DEF maybeDispatchEvent, updateSnapshots
<1>2. ASSUME NEW n \in Nodes, updateMaster(n)  PROVE MachineStep(n)
  <2>1. UNCHANGED <<requests, masters, zSnaps, stream, handoffRequest, zMounted, zDirty>>
    BY <1>2 DEF updateMaster
  <2>2. CASE state[n] = "none"
    <3>1. state' = [state EXCEPT ![n] = "discovering"]
      BY <1>2, <2>2 DEF updateMaster
    <3> QED
      BY <2>1, <3>1, GotoStep DEF Quieted, Saved
  <2>3. CASE state[n] # "none"
    <3>1. state' = state
      BY <1>2, <2>3 DEF updateMaster, TypeOK
    <3> QED
      BY <2>1, <3>1, <1>0, StillStep
  <2> QED
    BY <2>2, <2>3
<1>3. ASSUME NEW n \in Nodes, Reconnect(n) \/ updateEtcdAboutSnapshots(n) \/ setResponse(n)
      PROVE  MachineStep(n)
  BY <1>3, <1>0, StillStep DEF Reconnect, updateEtcdAboutSnapshots, setResponse
<1>4. ASSUME NEW n \in Nodes, Restart(n)  PROVE MachineStep(n)
  <2>1. PICK next \in {"none", "discovering"} : state' = [state EXCEPT ![n] = next]
    BY <1>4 DEF Restart
  <2>2. UNCHANGED <<requests, masters, zSnaps, zMounted, zDirty>>
    BY <1>4 DEF Restart
  <2>3. \A m \in Nodes \ {n} : stream'[m] = stream[m] /\ handoffRequest'[m] = handoffRequest[m]
    BY <1>4 DEF Restart, TypeOK
  <2> QED
    BY <2>1, <2>2, <2>3, GotoStep DEF Quieted, Saved
<1>5. ASSUME NEW n \in Nodes, discover(n)  PROVE MachineStep(n)
  <2>1. PICK next \in {"missing", "active", "inactive"} :
          state' = [state EXCEPT ![n] = next] /\ (next = "active" => zMounted[n])
    BY <1>5 DEF discover, Goto
  <2>2. UNCHANGED <<requests, masters, zSnaps, stream, handoffRequest, zMounted, zDirty>>
    BY <1>5 DEF discover
  <2> QED
    BY <2>1, <2>2, GotoStep DEF Quieted, Saved
<1>6. ASSUME NEW n \in Nodes,
             checkMaster(n) \/ subscribe(n) \/ newSnapsOnMaster(n) \/ leaveActive(n)
      PROVE  MachineStep(n)
  <2>1. PICK next \in {"receiving", "missingSub", "inactiveSub", "missingWait", "inactiveWait",
                       "inactive"} :
          state' = [state EXCEPT ![n] = next]
    BY <1>6 DEF checkMaster, subscribe, newSnapsOnMaster, leaveActive, Goto, AfterCheck
  <2>2. UNCHANGED <<requests, masters, zSnaps, stream, handoffRequest, zMounted, zDirty>>
    BY <1>6 DEF checkMaster, subscribe, newSnapsOnMaster, leaveActive
  <2> QED
    BY <2>1, <2>2, GotoStep DEF Quieted, Saved
<1>7. ASSUME NEW n \in Nodes, NEW i \in Offerable(n), unhandled(n, i)  PROVE MachineStep(n)
  <2>1. PICK next \in {"backoff", "receiving", "inactiveSub"} : state' = [state EXCEPT ![n] = next]
    BY <1>7 DEF unhandled, Answer, Goto, AfterCheck
  <2>2. UNCHANGED <<requests, masters, zSnaps, stream, handoffRequest, zMounted, zDirty>>
    BY <1>7 DEF unhandled, Answer
  <2> QED
    BY <2>1, <2>2, GotoStep DEF Quieted, Saved
<1>8. ASSUME NEW n \in Nodes, NEW i \in Offerable(n), mount(n, i)  PROVE MachineStep(n)
  <2>1. PICK next \in {"active", "backoff"} :
          /\ state' = [state EXCEPT ![n] = next] /\ (next = "active" => zMounted'[n])
          /\ \A m \in Nodes \ {n} : zMounted'[m] = zMounted[m]
    BY <1>8 DEF mount, Goto, TypeOK
  <2>2. UNCHANGED <<requests, masters, zSnaps, stream, handoffRequest, zDirty>>
    BY <1>8 DEF mount
  <2> QED
    BY <2>1, <2>2, GotoStep DEF Quieted, Saved
<1>9. ASSUME NEW n \in Nodes, NEW i \in Offerable(n), unmount(n, i)  PROVE MachineStep(n)
  <2>1. PICK next \in {"unmounted", "backoff"} :
          /\ state' = [state EXCEPT ![n] = next]
          /\ \A m \in Nodes \ {n} : zMounted'[m] = zMounted[m]
    BY <1>9 DEF unmount, Goto, TypeOK
  <2>2. UNCHANGED <<requests, masters, zSnaps, stream, handoffRequest, zDirty>>
    BY <1>9 DEF unmount
  <2> QED
    BY <2>1, <2>2, GotoStep DEF Quieted, Saved
<1>10. ASSUME NEW n \in Nodes, NEW i \in Offerable(n), create(n, i)  PROVE MachineStep(n)
  <2>1. PICK mounted \in BOOLEAN : /\ zMounted' = [zMounted EXCEPT ![n] = mounted]
                                   /\ Goto(n, IF mounted THEN "active" ELSE "backoff")
    BY <1>10 DEF create
  <2>2. PICK next \in {"active", "backoff"} :
          /\ state' = [state EXCEPT ![n] = next] /\ (next = "active" => zMounted'[n])
          /\ \A m \in Nodes \ {n} : zMounted'[m] = zMounted[m]
    BY <2>1 DEF Goto, TypeOK
  <2>3. UNCHANGED <<requests, masters, zSnaps, stream, handoffRequest, zDirty>>
    BY <1>10 DEF create
  <2> QED
    BY <2>2, <2>3, GotoStep DEF Quieted, Saved
<1>11. ASSUME NEW n \in Nodes, NEW i \in Offerable(n), commit(n, i)  PROVE MachineStep(n)
  <2>1. PICK done \in SnapshotOutcomes :
          snapshot(n, done) /\ Goto(n, IF done = "listed" THEN "active" ELSE "backoff")
    BY <1>11 DEF commit
  <2>2. PICK next : next = IF done = "listed" THEN "active" ELSE "backoff"
    OBVIOUS
  <2>3. /\ state' = [state EXCEPT ![n] = next] /\ state[n] = "active"
        /\ UNCHANGED <<requests, masters, stream, handoffRequest, zMounted>>
    BY <1>11, <2>1, <2>2 DEF commit, Goto
  <2> QED
    BY <2>1, <2>2, <2>3, SnapshotStep
<1>12. ASSUME NEW n \in Nodes, NEW i \in Offerable(n), rollback(n, i)  PROVE RollsBack(n)
  BY <1>12 DEF RollsBack
<1>13. ASSUME NEW n \in Nodes, NEW i \in Offerable(n), move(n, i)  PROVE MachineStep(n)
  <2>1. PICK next \in {"handoff", "backoff"} : state' = [state EXCEPT ![n] = next]
    BY <1>13 DEF move, Goto
  <2>2. /\ UNCHANGED <<requests, masters, zSnaps, stream, zMounted, zDirty>>
        /\ \A m \in Nodes \ {n} : handoffRequest'[m] = handoffRequest[m]
    BY <1>13 DEF move, TypeOK
  <2> QED
    BY <2>1, <2>2, GotoStep DEF Quieted, Saved
<1>14. ASSUME NEW n \in Nodes, receiving(n)  PROVE MachineStep(n)
  <2>1. PICK next \in {"discovering", "backoff", "recv"} : state' = [state EXCEPT ![n] = next]
    BY <1>14 DEF receiving, Goto
  <2>2. /\ UNCHANGED <<requests, masters, zSnaps, handoffRequest, zMounted, zDirty>>
        /\ \A m \in Nodes \ {n} : stream'[m] = stream[m]
    BY <1>14 DEF receiving, TypeOK
  <2> QED
    BY <1>14, <2>1, <2>2, GotoStep DEF Quieted, Saved
<1>15. ASSUME NEW n \in Nodes, recvAborted(n)  PROVE MachineStep(n)
  <2>1. state' = [state EXCEPT ![n] = "backoff"]
    BY <1>15 DEF recvAborted, Goto
  <2>2. /\ UNCHANGED <<requests, masters, zSnaps, handoffRequest, zMounted, zDirty>>
        /\ \A m \in Nodes \ {n} : stream'[m] = stream[m]
    BY <1>15 DEF recvAborted, TypeOK
  <2> QED
    BY <2>1, <2>2, GotoStep DEF Quieted, Saved
<1>16. ASSUME NEW n \in Nodes, recvSnapshot(n)  PROVE MachineStep(n)
  <2>1. state[n] = "recv" /\ state'[n] \in {"recv", "discovering"}
    BY <1>16 DEF recvSnapshot, Goto, TypeOK
  <2>2. /\ UNCHANGED <<requests, masters, handoffRequest, zMounted, zDirty>>
        /\ \A m \in Nodes \ {n} : /\ state'[m] = state[m] /\ stream'[m] = stream[m]
                                 /\ zSnaps'[m] = zSnaps[m]
    BY <1>16 DEF recvSnapshot, Goto, TypeOK
  <2>3. zSnaps'[n] = Append(zSnaps[n], Head(stream[n])) /\ stream'[n] = Tail(stream[n])
    BY <1>16 DEF recvSnapshot, TypeOK
  <2>4. zSnaps[n] \in Seq(Nat) /\ stream[n] \in Seq(Nat) /\ stream[n] # << >>
    BY <2>1 DEF TypeOK, Snaps, StreamIsOpen
  <2>5. zSnaps'[n] \o stream'[n] = zSnaps[n] \o stream[n]
    BY <2>3, <2>4, ArrivalCompletes
  <2>6. Calm(n)'
    BY <2>1 DEF Calm, Quieted, Saved
  <2> QED
    BY <1>0, <2>1, <2>2, <2>3, <2>5, <2>6
    DEF MachineStep, Still, Grows, Switches, Receives, MovesKey
<1>17. ASSUME NEW n \in Nodes, handoffUnmount(n)  PROVE MachineStep(n)
  <2>1. PICK next \in {"handoffSnap", "backoff"} :
          /\ state' = [state EXCEPT ![n] = next] /\ (next = "handoffSnap" => ~zMounted'[n])
          /\ \A m \in Nodes \ {n} : zMounted'[m] = zMounted[m]
    BY <1>17 DEF handoffUnmount, Goto, TypeOK
  <2>2. UNCHANGED <<requests, masters, zSnaps, stream, handoffRequest, zDirty>>
    BY <1>17 DEF handoffUnmount
  <2> QED
    BY <2>1, <2>2, GotoStep DEF Quieted, Saved
<1>18. ASSUME NEW n \in Nodes, handoffSnapshot(n)  PROVE MachineStep(n)
  <2>1. PICK done \in SnapshotOutcomes :
          snapshot(n, done) /\ Goto(n, IF done = "listed" THEN "handoffCheck" ELSE "backoff")
    BY <1>18 DEF handoffSnapshot
  <2>2. PICK next : next = IF done = "listed" THEN "handoffCheck" ELSE "backoff"
    OBVIOUS
  <2>3. /\ state' = [state EXCEPT ![n] = next] /\ state[n] = "handoffSnap"
        /\ UNCHANGED <<requests, masters, stream, handoffRequest, zMounted>>
    BY <1>18, <2>1, <2>2 DEF handoffSnapshot, Goto
  <2> QED
    BY <2>1, <2>2, <2>3, SnapshotStep
<1>19. ASSUME NEW n \in Nodes, handoffCheck(n) \/ handoffNews(n)  PROVE MachineStep(n)
  <2>1. PICK next \in {"handoffCheck", "handoffWait", "handoffSwitch"} :
          state' = [state EXCEPT ![n] = next] /\ (next = "handoffSwitch" => handoffCheck(n))
    BY <1>19 DEF handoffCheck, handoffNews, Goto
  <2>2. UNCHANGED <<requests, masters, zSnaps, stream, handoffRequest, zMounted, zDirty>>
    BY <1>19 DEF handoffCheck, handoffNews
  <2>3. ~zMounted[n] /\ ~zDirty[n]
    BY <1>19 DEF handoffCheck, handoffNews, Calm, Quieted, Saved
  <2> QED
    BY <2>1, <2>2, <2>3, GotoStep
<1>20. ASSUME NEW n \in Nodes, handoffSwitch(n)  PROVE MachineStep(n)
  <2>1. /\ UNCHANGED <<requests, zSnaps, stream, handoffRequest, zMounted, zDirty>>
        /\ state[n] = "handoffSwitch"
        /\ masters' = masters \/ (masters = n /\ masters' = target(n))
    BY <1>20 DEF handoffSwitch
  <2>2. \A m \in Nodes : state'[m] = IF m = n THEN "inactive" ELSE state[m]
    BY <1>20 DEF handoffSwitch, Goto, TypeOK
  <2>3. Calm(n)' /\ MovesKey(n) /\ Grows(n) /\ Switches(n) /\ Receives(n)
    BY <2>1, <2>2 DEF Calm, Quieted, Saved, MovesKey, Grows, Switches, Receives
  <2> QED
    BY <1>0, <2>1, <2>2, <2>3 DEF MachineStep, Still
<1>21. ASSUME NEW n \in Nodes, Docker(n)  PROVE MachineStep(n)
  <2>1. CASE procureRemote(n)
    <3>1. UNCHANGED <<state, zSnaps, stream, handoffRequest, zMounted, zDirty, masters>>
      BY <2>1 DEF procureRemote, globalFsRequest
    <3>2. Asked
      BY <2>1, AskedIs DEF procureRemote
    <3> QED
      BY <3>1, <3>2, StillStep
  <2>2. CASE containerWrites(n)
    <3>1. /\ UNCHANGED <<requests, state, zSnaps, stream, handoffRequest, zMounted, masters>>
          /\ zMounted[n] /\ \A m \in Nodes \ {n} : zDirty'[m] = zDirty[m]
      BY <2>2 DEF containerWrites, DockerOnly, TypeOK
    <3>2. Calm(n)'
      BY <3>1 DEF Calm, Quieted
    <3> QED
      BY <1>0, <3>1, <3>2 DEF MachineStep, Still, Grows, Switches, Receives, MovesKey
  <2>3. CASE procureLocal(n) \/ procureResponse(n) \/ procureTimeout(n) \/ procureActive(n)
               \/ containerStops(n)
    <3>1. UNCHANGED <<requests, state, zSnaps, stream, handoffRequest, zMounted, zDirty, masters>>
      BY <2>3 DEF procureLocal, procureResponse, procureTimeout, procureActive, containerStops,
                  DockerOnly
    <3> QED
      BY <1>0, <3>1, StillStep
  <2> QED
    BY <1>21, <2>1, <2>2, <2>3 DEF Docker
<1>22. ASSUME Commit \/ Rollback  PROVE MachineStep(Home)
  <2>1. PICK op, node, snap :
          globalFsRequest(op, node, snap) /\ (op = "rollback" => Rollbacks)
    BY <1>22 DEF Commit, Rollback
  <2>2. UNCHANGED <<state, zSnaps, stream, handoffRequest, zMounted, zDirty, masters>>
    BY <2>1 DEF globalFsRequest
  <2>3. Asked
    BY <2>1, AskedIs
  <2> QED
    BY <2>2, <2>3, StillStep, NodesAssumption
<1> QED
  BY <1>1, <1>2, <1>3, <1>4, <1>5, <1>6, <1>7, <1>8, <1>9, <1>10, <1>11, <1>12, <1>13, <1>14,
     <1>15, <1>16, <1>17, <1>18, <1>19, <1>20, <1>21, <1>22, NodesAssumption
  DEF Next, Watcher, Machine
-----------------------------------------------------------------------------
(* Whatever happens, also a rollback, a machine that is active has the     *)
(* filesystem mounted, and one that hands it off has it saved.             *)
LEMMA CalmNext == CalmInv /\ [Next]_vars => CalmInv'
<1> SUFFICES ASSUME CalmInv, [Next]_vars PROVE CalmInv'
  BY Zenon
<1>1. LineageInv'
  BY TypeOKNext, KnownNext, PoolNext, AgreeNext DEF CalmInv, LineageInv, TypeInv
<1>2. CASE UNCHANGED vars
  BY <1>1, <1>2 DEF CalmInv, Calm, vars, zVars
<1>3. ASSUME NEW n \in Nodes, MachineStep(n)  PROVE \A m \in Nodes : Calm(m)'
  BY <1>3 DEF CalmInv, Calm, MachineStep, Still
<1>4. ASSUME NEW n \in Nodes, RollsBack(n)  PROVE \A m \in Nodes : Calm(m)'
  <2>1. PICK i \in Offerable(n) : rollback(n, i)
    BY <1>4 DEF RollsBack
  <2>2. PICK next \in {"active", "backoff"} : state' = [state EXCEPT ![n] = next]
    BY <2>1 DEF rollback, Goto
  <2>3. state[n] = "active" /\ zMounted' = zMounted
    BY <2>1 DEF rollback
  <2>4. \A m \in Nodes \ {n} : zDirty'[m] = zDirty[m]
    BY <2>1 DEF rollback, CalmInv, LineageInv, TypeInv, TypeOK
  <2>5. \A m \in Nodes : state'[m] = IF m = n THEN next ELSE state[m]
    BY <2>2 DEF CalmInv, LineageInv, TypeInv, TypeOK
  <2> QED
    BY <2>3, <2>4, <2>5 DEF CalmInv, Calm, Quieted, Saved
<1> QED
  BY <1>1, <1>2, <1>3, <1>4, NextStep DEF CalmInv

(* Initially no machine is active or hands the filesystem off.             *)
LEMMA CalmInit == Init => CalmInv
<1> SUFFICES ASSUME Init PROVE CalmInv
  OBVIOUS
<1>1. \A n \in Nodes : state[n] \in {"none", "discovering"}
  BY DEF Init
<1> QED
  BY <1>1, LineageInit DEF CalmInv, Calm, Quieted, Saved

(* When Procure has seen "moved" and then "active", the path that Docker   *)
(* gets is that of a mounted filesystem, unless activeState has just run   *)
(* umount for an unmount event: activeState is entered only with the mount *)
(* in place, and no other umount happens while currentState is "active",   *)
(* whatever is rolled back, refused or fails in between.                   *)
THEOREM MovedPathsWereMounted == Spec => MovedPathWasMounted
<1> DEFINE Moved == \A n \in Nodes : procure[n].at = "moved" /\ container'[n] /\ ~container[n]
                                       => zMounted[n] \/ state[n] = "unmounted"
<1>1. CalmInv /\ [Next]_vars => Moved
  <2> SUFFICES ASSUME CalmInv, [Next]_vars, NEW n \in Nodes, procure[n].at = "moved",
                      container'[n], ~container[n]
               PROVE  zMounted[n] \/ state[n] = "unmounted"
    BY Zenon
  <2>1. container' # container
    OBVIOUS
  <2>2. PICK m \in Procurers : procureLocal(m) \/ procureActive(m)
    <3>1. ~ UNCHANGED vars
      BY <2>1 DEF vars, dockerVars
    <3>2. ASSUME NEW m \in Nodes
          PROVE  /\ ~Watcher(m) /\ ~updateEtcdAboutSnapshots(m) /\ ~setResponse(m)
                 /\ ~Reconnect(m) /\ ~Restart(m)
      BY <2>1 DEF Watcher, updateMaster, maybeDispatchEvent, updateSnapshots,
                  updateEtcdAboutSnapshots, setResponse, Reconnect, Restart, dockerVars
    <3>3. ASSUME NEW m \in Nodes, Machine(m)  PROVE FALSE
      <4>1. ASSUME NEW i \in Offerable(m),
                   \/ unhandled(m, i) \/ create(m, i) \/ mount(m, i) \/ unmount(m, i)
                   \/ commit(m, i) \/ rollback(m, i) \/ move(m, i)
            PROVE  FALSE
        BY <2>1, <4>1 DEF unhandled, Answer, create, mount, unmount, commit, rollback, move,
                          dockerVars
      <4>2. \/ discover(m) \/ checkMaster(m) \/ subscribe(m) \/ newSnapsOnMaster(m)
            \/ leaveActive(m) \/ receiving(m) \/ recvSnapshot(m) \/ recvAborted(m)
            \/ handoffUnmount(m) \/ handoffSnapshot(m) \/ handoffCheck(m) \/ handoffNews(m)
            \/ handoffSwitch(m)
        BY <3>3, <4>1 DEF Machine
      <4> QED
        BY <2>1, <4>2 DEF discover, checkMaster, subscribe, newSnapsOnMaster, leaveActive,
             receiving, recvSnapshot, recvAborted, handoffUnmount, handoffSnapshot, handoffCheck,
             handoffNews, handoffSwitch, dockerVars
    <3>4. ~Commit /\ ~Rollback
      BY <2>1 DEF Commit, Rollback, globalFsRequest
    <3>5. PICK m \in Procurers : Docker(m)
      BY <3>1, <3>2, <3>3, <3>4 DEF Next
    <3>6. m \in Nodes /\ ~procureRemote(m) /\ ~procureResponse(m) /\ ~procureTimeout(m)
          /\ ~containerWrites(m)
      BY <2>1, NodesAssumption
      DEF procureRemote, globalFsRequest, procureResponse, procureTimeout, containerWrites,
          dockerVars
    <3>7. ~containerStops(m)
      BY <3>6 DEF containerStops, CalmInv, LineageInv, TypeInv, TypeOK
    <3> QED
      BY <3>5, <3>6, <3>7 DEF Docker
  <2>3. m = n /\ procureActive(n)
    BY <2>2, NodesAssumption
    DEF procureLocal, procureActive, GivePath, Idle, CalmInv, LineageInv, TypeInv, TypeOK
  <2> QED
    BY <2>3 DEF procureActive, currentStateIsActive, CalmInv, Calm
<1>2. MovedPathWasMounted <=> [][Moved]_vars
  BY PTL DEF MovedPathWasMounted
<1> QED
  BY CalmInit, CalmNext, <1>1, <1>2, PTL DEF Spec

-----------------------------------------------------------------------------
(* Without rollbacks.                                                      *)
Grown == \A n \in Nodes : IsPrefix(zSnaps[n], zSnaps'[n])

(* A machine only adds to its pool.                                        *)
LEMMA PoolsGrow ==
  ASSUME TypeInv, TypeOK', NEW n \in Nodes, MachineStep(n)
  PROVE  Grown
<1> USE DEF TypeInv
<1>1. \A m \in Nodes : zSnaps[m] \in Seq(Nat) /\ zSnaps'[m] \in Seq(Nat) /\ nextSnap \in Nat
  BY DEF TypeOK, Snaps
<1>2. ASSUME NEW m \in Nodes, zSnaps'[m] = zSnaps[m]  PROVE IsPrefix(zSnaps[m], zSnaps'[m])
  BY <1>1, <1>2, PrefixReflexive
<1>3. ASSUME NEW x \in Nat, zSnaps'[n] = Append(zSnaps[n], x)
      PROVE  IsPrefix(zSnaps[n], zSnaps'[n])
  BY <1>1, <1>3, PrefixAppend
<1>4. CASE state[n] = "recv" /\ zSnaps'[n] = Append(zSnaps[n], Head(stream[n]))
  <2>1. stream[n] \in Seq(Nat) /\ stream[n] # << >>
    BY <1>4 DEF TypeOK, Snaps, StreamIsOpen
  <2>2. Head(stream[n]) \in Nat
    BY <2>1
  <2> QED
    BY <1>2, <1>3, <1>4, <2>2 DEF Grown, MachineStep, Still
<1>5. CASE zSnaps'[n] = zSnaps[n] \/ zSnaps'[n] = Append(zSnaps[n], nextSnap)
  BY <1>1, <1>2, <1>3, <1>5 DEF Grown, MachineStep, Still
<1> QED
  BY <1>4, <1>5 DEF MachineStep, Grows

(* Only a request for it makes a machine roll back.                        *)
LEMMA NothingRollsBack ==
  ASSUME CalmInv, NoRollbacks, NEW n \in Nodes, NEW i \in Offerable(n)
  PROVE  ~ rollback(n, i)
<1> SUFFICES ASSUME rollback(n, i) PROVE FALSE
  OBVIOUS
<1> USE DEF CalmInv, LineageInv, TypeInv
<1>1. opOf(i) = "rollback"
  BY DEF rollback
<1>2. i \in Items /\ (i.kind = "request" => i.id \in 1 .. Len(requests))
  BY OfferableKnown DEF KnownRequests, Offerable
<1>3. i.kind = "request" /\ requests[i.id].op = "rollback"
  BY <1>1, <1>2 DEF opOf, Items
<1> QED
  BY <1>2, <1>3 DEF NoRollbacks

(* Nobody asks for a rollback.                                             *)
LEMMA NoRollbacksNext ==
  ASSUME CalmInv, NoRollbacks, [Next]_vars
  PROVE  NoRollbacks' /\ (UNCHANGED vars \/ \E n \in Nodes : MachineStep(n))
<1> USE DEF CalmInv, LineageInv, TypeInv
<1>1. CASE UNCHANGED vars
  BY <1>1 DEF NoRollbacks, vars, etcdVars
<1>2. ASSUME NEW n \in Nodes, RollsBack(n)  PROVE FALSE
  BY <1>2, NothingRollsBack DEF RollsBack
<1>3. ASSUME NEW n \in Nodes, MachineStep(n)  PROVE NoRollbacks'
  <2>1. /\ Len(requests) \in Nat /\ Len(requests') \in Nat
        /\ \A id \in 1 .. Len(requests) : requests'[id] = requests[id]
        /\ \A id \in Len(requests) + 1 .. Len(requests') : requests'[id].op # "rollback"
    BY <1>3 DEF MachineStep, Asked, NoRollbacks, TypeOK
  <2>2. \A id \in 1 .. Len(requests') :
          id \in 1 .. Len(requests) \/ id \in Len(requests) + 1 .. Len(requests')
    BY <2>1
  <2>3. \A id \in 1 .. Len(requests') : requests'[id].op # "rollback"
    BY <2>1, <2>2 DEF NoRollbacks
  <2> QED
    BY <2>3 DEF NoRollbacks
<1> QED
  BY <1>1, <1>2, <1>3, NextStep

(***************************************************************************)
(* Every list after a step is true of its node, place by place.            *)
(***************************************************************************)
TrueAfter(n, p) == IsPrefix(p, zSnaps'[n])

ToldAfter(event) ==
  \A n \in Nodes : event.type = "snapshots" /\ event.node = n => TrueAfter(n, event.snaps)

MemoriesTrue == \A n \in Nodes : TrueAfter(n, fsSnaps'[n])
EtcdTrue     == \A n \in Nodes : TrueAfter(n, snapshots'[n])
CachesTrue   == \A m \in Nodes, n \in Nodes : TrueAfter(n, globalSnapshotCache'[m][n])
EventsTrue   == \A m \in Nodes : \A k \in DOMAIN watch'[m] : ToldAfter(watch'[m][k])

StayTrue == MemoriesTrue /\ EtcdTrue /\ CachesTrue /\ EventsTrue

TrueBefore == TypeOK /\ TypeOK' /\ ListsAreTrue /\ Grown

(* StayTrue speaks of the state after the step.                            *)
LEMMA StayTrueIs == StayTrue => ListsAreTrue'
BY Zenon DEF StayTrue, MemoriesTrue, EtcdTrue, CachesTrue, EventsTrue, ListsAreTrue, TrueOf, Told,
   TrueAfter, ToldAfter

(* What was true stays true.                                               *)
LEMMA TruePlaces ==
  ASSUME TrueBefore, NEW n \in Nodes
  PROVE  /\ TrueAfter(n, zSnaps[n]) /\ TrueAfter(n, zSnaps'[n])
         /\ TrueAfter(n, fsSnaps[n]) /\ TrueAfter(n, snapshots[n]) /\ TrueAfter(n, << >>)
         /\ \A m \in Nodes : TrueAfter(n, globalSnapshotCache[m][n])
         /\ \A k \in DOMAIN watch[n] : ToldAfter(watch[n][k])
<1> USE DEF TrueBefore
<1>1. \A m \in Nodes : zSnaps[m] \in Seq(Nat) /\ zSnaps'[m] \in Seq(Nat)
  BY DEF TypeOK, Snaps
<1>2. ASSUME NEW m \in Nodes, NEW p \in Seq(Nat), TrueOf(m, p)  PROVE TrueAfter(m, p)
  <2>1. IsPrefix(p, zSnaps[m]) /\ IsPrefix(zSnaps[m], zSnaps'[m])
    BY <1>2 DEF TrueOf, Grown
  <2>2. IsPrefix(p, zSnaps'[m])
    BY <1>1, <2>1, PrefixTransitive
  <2> QED
    BY <2>2 DEF TrueAfter
<1>3. TrueOf(n, zSnaps[n]) /\ TrueAfter(n, zSnaps'[n]) /\ TrueAfter(n, << >>)
  BY <1>1, PrefixReflexive DEF TrueOf, TrueAfter
<1>4. /\ fsSnaps[n] \in Seq(Nat) /\ snapshots[n] \in Seq(Nat)
      /\ \A m \in Nodes : globalSnapshotCache[m][n] \in Seq(Nat)
  BY DEF TypeOK, Snaps
<1>5. \A k \in DOMAIN watch[n] : watch[n][k].snaps \in Seq(Nat)
  <2>1. watch[n] \in Seq(Event)
    BY DEF TypeOK
  <2> SUFFICES ASSUME NEW k \in DOMAIN watch[n] PROVE watch[n][k].snaps \in Seq(Nat)
    OBVIOUS
  <2>2. watch[n][k] \in Event
    BY <2>1
  <2> QED
    BY <2>2 DEF Event, Snaps
<1>6. \A k \in DOMAIN watch[n] : ToldAfter(watch[n][k])
  <2> SUFFICES ASSUME NEW k \in DOMAIN watch[n], NEW m \in Nodes,
                      watch[n][k].type = "snapshots", watch[n][k].node = m
               PROVE  TrueAfter(m, watch[n][k].snaps)
    BY DEF ToldAfter
  <2>1. TrueOf(m, watch[n][k].snaps)
    BY DEF ListsAreTrue, Told
  <2> QED
    BY <1>2, <1>5, <2>1
<1> QED
  BY <1>1, <1>2, <1>3, <1>4, <1>6 DEF ListsAreTrue

(* Lists that do not change stay true.                                     *)
LEMMA TrueFrame ==
  ASSUME TrueBefore
  PROVE  /\ fsSnaps' = fsSnaps => MemoriesTrue
         /\ snapshots' = snapshots => EtcdTrue
         /\ globalSnapshotCache' = globalSnapshotCache => CachesTrue
         /\ watch' = watch => EventsTrue
BY TruePlaces DEF MemoriesTrue, EtcdTrue, CachesTrue, EventsTrue

(* The watcher takes an event off its watch.                               *)
LEMMA ConsumeTrue ==
  ASSUME TrueBefore, NEW n \in Nodes, watch[n] # << >>, Consume(n)
  PROVE  EventsTrue /\ ToldAfter(Head(watch[n]))
<1>1. watch[n] \in Seq(Event) /\ Len(watch[n]) \in Nat \ {0}
  BY DEF TrueBefore, TypeOK
<1>2. \A k \in DOMAIN Tail(watch[n]) :
        k + 1 \in DOMAIN watch[n] /\ Tail(watch[n])[k] = watch[n][k + 1]
  BY <1>1
<1>3. Head(watch[n]) = watch[n][1] /\ 1 \in DOMAIN watch[n]
  BY <1>1
<1>4. \A m \in Nodes : watch'[m] = IF m = n THEN Tail(watch[n]) ELSE watch[m]
  BY DEF Consume, TrueBefore, TypeOK
<1>5. EventsTrue
  <2> SUFFICES ASSUME NEW m \in Nodes, NEW k \in DOMAIN watch'[m] PROVE ToldAfter(watch'[m][k])
    BY DEF EventsTrue
  <2>1. \E j \in DOMAIN watch[m] : watch'[m][k] = watch[m][j]
    BY <1>2, <1>4
  <2> QED
    BY <2>1, TruePlaces
<1> QED
  BY <1>3, <1>5, TruePlaces

(* An etcd Set with a true list is told to every watcher.                  *)
LEMMA BroadcastTrue ==
  ASSUME TrueBefore, NEW e \in Event, Broadcast(e), ToldAfter(e)
  PROVE  EventsTrue
<1>1. \A n \in Nodes : watch'[n] = Append(watch[n], e) /\ watch[n] \in Seq(Event)
  BY DEF Broadcast, TrueBefore, TypeOK
<1>2. \A n \in Nodes : \A k \in DOMAIN watch'[n] :
        watch'[n][k] = e \/ (k \in DOMAIN watch[n] /\ watch'[n][k] = watch[n][k])
  BY <1>1
<1> QED
  BY <1>2, TruePlaces DEF EventsTrue

(* The other events say nothing of snapshots.                              *)
LEMMA QuietEvents ==
  /\ \A m : ToldAfter(MasterEvent(m))
  /\ \A id : ToldAfter(RequestEvent(id))
  /\ \A m \in Nodes : \A snaps : TrueAfter(m, snaps) => ToldAfter(SnapshotsEvent(m, snaps))
BY DEF ToldAfter, MasterEvent, RequestEvent, SnapshotsEvent, EtcdEvent

(* globalFsRequest tells of no list.                                       *)
LEMMA RequestTrue ==
  ASSUME TrueBefore, NEW op, NEW node, NEW snap, globalFsRequest(op, node, snap)
  PROVE  StayTrue
<1>1. RequestEvent(Len(requests) + 1) \in Event
  <2>1. Len(requests) + 1 \in Nat
    BY DEF TrueBefore, TypeOK
  <2> QED
    BY <2>1, EventType
<1>2. EventsTrue
  BY <1>1, QuietEvents, BroadcastTrue DEF globalFsRequest
<1> QED
  BY <1>2, TrueFrame DEF StayTrue, globalFsRequest, cacheVars

(* The event of a watch that has only one.                                 *)
LEMMA OneEvent ==
  ASSUME NEW e \in Event, ToldAfter(e)
  PROVE  <<e>> \in Seq(Event) /\ \A k \in 1 .. Len(<<e>>) : ToldAfter(<<e>>[k])
<1>1. <<e>> \in Seq(Event) /\ Len(<<e>>) = 1 /\ <<e>>[1] = e
  OBVIOUS
<1>2. \A k \in 1 .. Len(<<e>>) : k = 1
  BY <1>1
<1> QED
  BY <1>1, <1>2

(* The recursive Get of a (re)connected node returns etcd's lists.         *)
LEMMA FetchedTrue ==
  ASSUME TrueBefore, NEW n \in Nodes, watch' = [watch EXCEPT ![n] = Fetched]
  PROVE  EventsTrue
<1>0. TypeOK
  BY DEF TrueBefore
<1> DEFINE M == <<MasterEvent(masters)>>
           R == [id \in 1 .. Len(requests) |-> RequestEvent(id)]
           S == [i \in 1 .. Len(NodeOrder) |-> SnapshotsEvent(NodeOrder[i], snapshots[NodeOrder[i]])]
<1>1. M \in Seq(Event) /\ \A k \in 1 .. Len(M) : ToldAfter(M[k])
  <2>1. MasterEvent(masters) \in Event /\ ToldAfter(MasterEvent(masters))
    BY <1>0, EventType, QuietEvents DEF TypeOK
  <2> QED
    BY <2>1, OneEvent
<1>2. R \in Seq(Event) /\ \A k \in 1 .. Len(R) : ToldAfter(R[k])
  <2>1. Len(requests) \in Nat /\ \A id \in 1 .. Len(requests) : RequestEvent(id) \in Event
    BY <1>0, EventType DEF TypeOK
  <2> QED
    BY <2>1, QuietEvents
<1>3. S \in Seq(Event) /\ \A k \in 1 .. Len(S) : ToldAfter(S[k])
  <2>1. Len(NodeOrder) \in Nat /\ \A i \in 1 .. Len(NodeOrder) : NodeOrder[i] \in Nodes
    BY NodesAssumption
  <2>2. \A m \in Nodes : /\ SnapshotsEvent(m, snapshots[m]) \in Event
                         /\ ToldAfter(SnapshotsEvent(m, snapshots[m]))
    BY <1>0, EventType, QuietEvents, TruePlaces DEF TypeOK
  <2> QED
    BY <2>1, <2>2
<1>4. Fetched = M \o R \o S
  BY DEF Fetched
<1> HIDE DEF M, R, S
<1>5. M \o R \in Seq(Event) /\ \A k \in 1 .. Len(M \o R) : ToldAfter((M \o R)[k])
  <2>1. \A k \in 1 .. Len(M \o R) :
          \/ \E j \in 1 .. Len(M) : (M \o R)[k] = M[j]
          \/ \E j \in 1 .. Len(R) : (M \o R)[k] = R[j]
    <3>1. M \in Seq(Event) /\ R \in Seq(Event)
      BY <1>1, <1>2
    <3> QED
      BY <3>1, ConcatElement
  <2>2. M \o R \in Seq(Event)
    BY <1>1, <1>2, ConcatProperties
  <2> QED
    BY <1>1, <1>2, <2>1, <2>2, Zenon
<1>6. \A k \in DOMAIN Fetched : ToldAfter(Fetched[k])
  <2> DEFINE Q == M \o R
  <2>1. Q \in Seq(Event) /\ Fetched = Q \o S
    BY <1>4, <1>5
  <2>2. \A k \in 1 .. Len(Q) : ToldAfter(Q[k])
    BY <1>5
  <2> HIDE DEF Q
  <2>3. \A k \in 1 .. Len(Q \o S) :
          \/ \E j \in 1 .. Len(Q) : (Q \o S)[k] = Q[j]
          \/ \E j \in 1 .. Len(S) : (Q \o S)[k] = S[j]
    BY <1>3, <2>1, ConcatElement
  <2>4. DOMAIN Fetched = 1 .. Len(Q \o S)
    BY <1>3, <2>1, ConcatProperties
  <2> QED
    BY <1>3, <2>1, <2>2, <2>3, <2>4, Zenon
<1>7. \A m \in Nodes : watch'[m] = IF m = n THEN Fetched ELSE watch[m]
  BY <1>0 DEF TypeOK
<1> QED
  BY <1>6, <1>7, TruePlaces DEF EventsTrue
-----------------------------------------------------------------------------
(* Processing an etcd event files its list under the node it is of.        *)
LEMMA WatcherTrue ==
  ASSUME TrueBefore, NEW n \in Nodes, Watcher(n)
  PROVE  StayTrue
<1>1. watch[n] # << >> /\ Consume(n)
  BY DEF Watcher, updateMaster, maybeDispatchEvent, updateSnapshots, NextEvent
<1>2. EventsTrue /\ ToldAfter(Head(watch[n]))
  BY <1>1, ConsumeTrue
<1>3. UNCHANGED <<fsSnaps, snapshots>>
  BY DEF Watcher, updateMaster, maybeDispatchEvent, updateSnapshots, etcdVars
<1>4. CachesTrue
  <2>1. CASE updateSnapshots(n)
    <3> DEFINE server == Head(watch[n]).node
               snaps  == Head(watch[n]).snaps
    <3>1. /\ globalSnapshotCache' = [globalSnapshotCache EXCEPT ![n][server] = snaps]
          /\ server \in Nodes => TrueAfter(server, snaps)
      BY <1>2, <2>1 DEF updateSnapshots, NextEvent, ToldAfter
    <3> HIDE DEF server, snaps
    <3>2. \A m \in Nodes, k \in Nodes :
            \/ globalSnapshotCache'[m][k] = globalSnapshotCache[m][k]
            \/ k = server /\ globalSnapshotCache'[m][k] = snaps
      BY <3>1 DEF TrueBefore, TypeOK
    <3> QED
      BY <3>1, <3>2, TruePlaces DEF CachesTrue
  <2>2. CASE updateMaster(n) \/ maybeDispatchEvent(n)
    BY <2>2, TrueFrame DEF updateMaster, maybeDispatchEvent, cacheVars
  <2> QED
    BY <2>1, <2>2 DEF Watcher
<1> QED
  BY <1>2, <1>3, <1>4, TrueFrame DEF StayTrue

(* A restart forgets the lists in memory and re-reads etcd's.              *)
LEMMA RestartTrue ==
  ASSUME TrueBefore, NEW n \in Nodes, Restart(n)
  PROVE  StayTrue
<1>1. EventsTrue
  BY FetchedTrue DEF Restart
<1>2. MemoriesTrue
  <2>1. \A m \in Nodes : fsSnaps'[m] = fsSnaps[m] \/ fsSnaps'[m] = << >>
    BY DEF Restart, TrueBefore, TypeOK
  <2> QED
    BY <2>1, TruePlaces DEF MemoriesTrue
<1>3. CachesTrue
  <2>1. \A m \in Nodes, k \in Nodes :
          \/ globalSnapshotCache'[m][k] = globalSnapshotCache[m][k]
          \/ globalSnapshotCache'[m][k] = << >>
    BY DEF Restart, TrueBefore, TypeOK
  <2> QED
    BY <2>1, TruePlaces DEF CachesTrue
<1> QED
  BY <1>1, <1>2, <1>3, TrueFrame DEF StayTrue, Restart, etcdVars

(* updateEtcdAboutSnapshots files the list in memory under its own node.   *)
LEMMA UpdaterTrue ==
  ASSUME TrueBefore, NEW n \in Nodes, updateEtcdAboutSnapshots(n)
  PROVE  StayTrue
<1> USE DEF updateEtcdAboutSnapshots
<1>1. CASE UNCHANGED <<snapshots, watch>>
  BY <1>1, TrueFrame DEF StayTrue, cacheVars
<1>2. CASE /\ snapshots' = [snapshots EXCEPT ![n] = fsSnaps[n]]
           /\ Broadcast(SnapshotsEvent(n, fsSnaps[n]))
  <2>1. SnapshotsEvent(n, fsSnaps[n]) \in Event /\ TrueAfter(n, fsSnaps[n])
    BY EventType, TruePlaces DEF TrueBefore, TypeOK
  <2>2. EventsTrue
    BY <1>2, <2>1, QuietEvents, BroadcastTrue
  <2>3. \A m \in Nodes : snapshots'[m] = IF m = n THEN fsSnaps[n] ELSE snapshots[m]
    BY <1>2 DEF TrueBefore, TypeOK
  <2>4. EtcdTrue
    BY <2>1, <2>3, TruePlaces DEF EtcdTrue
  <2> QED
    BY <2>2, <2>4, TrueFrame DEF StayTrue, cacheVars
<1> QED
  BY <1>1, <1>2

(* discover reads the pool.                                                *)
LEMMA DiscoverTrue ==
  ASSUME TrueBefore, NEW n \in Nodes, discover(n)
  PROVE  StayTrue
<1>1. \A m \in Nodes : fsSnaps'[m] = IF m = n THEN zSnaps[n] ELSE fsSnaps[m]
  BY DEF discover, TrueBefore, TypeOK
<1>2. \A m \in Nodes, k \in Nodes :
        \/ globalSnapshotCache'[m][k] = globalSnapshotCache[m][k]
        \/ k = n /\ globalSnapshotCache'[m][k] = zSnaps[n]
  BY DEF discover, TrueBefore, TypeOK
<1>3. MemoriesTrue /\ CachesTrue
  BY <1>1, <1>2, TruePlaces DEF MemoriesTrue, CachesTrue
<1> QED
  BY <1>3, TrueFrame DEF StayTrue, discover, etcdVars

(* A snapshot goes to the list in memory only when it is on the pool.      *)
LEMMA SnapshotTrue ==
  ASSUME TrueBefore, MemoryTracksPool, NEW n \in Nodes, NEW done \in SnapshotOutcomes,
         snapshot(n, done), state[n] \in {"active", "handoffSnap"},
         UNCHANGED <<snapshots, globalSnapshotCache, watch>>
  PROVE  StayTrue
<1>1. fsSnaps[n] = zSnaps[n]
  BY DEF MemoryTracksPool
<1>2. CASE done # "listed"
  BY <1>2, TrueFrame DEF StayTrue, snapshot
<1>3. CASE done = "listed"
  <2>1. /\ zSnaps' = [zSnaps EXCEPT ![n] = Append(@, nextSnap)]
        /\ fsSnaps' = [fsSnaps EXCEPT ![n] = Append(@, nextSnap)]
    BY <1>3 DEF snapshot
  <2>2. fsSnaps'[n] = zSnaps'[n] /\ \A m \in Nodes \ {n} : fsSnaps'[m] = fsSnaps[m]
    BY <1>1, <2>1 DEF TrueBefore, TypeOK
  <2>3. MemoriesTrue
    BY <2>2, TruePlaces DEF MemoriesTrue
  <2> QED
    BY <2>3, TrueFrame DEF StayTrue
<1> QED
  BY <1>2, <1>3

(* Every list is true of its node after every step, action by action.      *)
LEMMA TrueNext ==
  ASSUME CalmInv, NoRollbacks, Next, TypeOK', ListsAreTrue, Grown
  PROVE  StayTrue
<1> USE DEF CalmInv, LineageInv, TypeInv
<1>0. TrueBefore
  BY DEF TrueBefore
<1>q. ASSUME UNCHANGED <<fsSnaps, snapshots, globalSnapshotCache, watch>>  PROVE StayTrue
  BY <1>0, <1>q, TrueFrame DEF StayTrue
<1> USE DEF etcdVars, cacheVars
<1>1. ASSUME NEW n \in Nodes, Watcher(n)  PROVE StayTrue
  BY <1>0, <1>1, WatcherTrue
<1>2. ASSUME NEW n \in Nodes, Reconnect(n)  PROVE StayTrue
  BY <1>0, <1>2, FetchedTrue, TrueFrame DEF Reconnect, StayTrue
<1>3. ASSUME NEW n \in Nodes, Restart(n)  PROVE StayTrue
  BY <1>0, <1>3, RestartTrue
<1>4. ASSUME NEW n \in Nodes, updateEtcdAboutSnapshots(n)  PROVE StayTrue
  BY <1>0, <1>4, UpdaterTrue
<1>5. ASSUME NEW n \in Nodes, setResponse(n)  PROVE StayTrue
  BY <1>5, <1>q DEF setResponse
<1>6. ASSUME NEW n \in Nodes, discover(n)  PROVE StayTrue
  BY <1>0, <1>6, DiscoverTrue
<1>7. ASSUME NEW n \in Nodes,
             checkMaster(n) \/ subscribe(n) \/ newSnapsOnMaster(n) \/ leaveActive(n)
      PROVE  StayTrue
  BY <1>7, <1>q DEF checkMaster, subscribe, newSnapsOnMaster, leaveActive
<1>8. ASSUME NEW n \in Nodes, receiving(n) \/ recvSnapshot(n) \/ recvAborted(n)  PROVE StayTrue
  BY <1>8, <1>q DEF receiving, recvSnapshot, recvAborted
<1>9. ASSUME NEW n \in Nodes, handoffUnmount(n) \/ handoffCheck(n) \/ handoffNews(n)  PROVE StayTrue
  BY <1>9, <1>q DEF handoffUnmount, handoffCheck, handoffNews
<1>10. ASSUME NEW n \in Nodes, handoffSnapshot(n)  PROVE StayTrue
  BY <1>0, <1>10, SnapshotTrue DEF handoffSnapshot
<1>11. ASSUME NEW n \in Nodes, handoffSwitch(n)  PROVE StayTrue
  <2>1. target(n) \in Nodes
    BY <1>11, HandoffItemType DEF handoffSwitch, HandoffStates
  <2>2. MasterEvent(target(n)) \in Event
    BY <2>1, EventType
  <2>3. watch' = watch \/ Broadcast(MasterEvent(target(n)))
    BY <1>11 DEF handoffSwitch
  <2>4. EventsTrue
    BY <1>0, <2>2, <2>3, QuietEvents, BroadcastTrue, TrueFrame
  <2> QED
    BY <1>0, <1>11, <2>4, TrueFrame DEF handoffSwitch, StayTrue
<1>12. ASSUME NEW n \in Nodes, NEW i \in Offerable(n),
              unhandled(n, i) \/ create(n, i) \/ mount(n, i) \/ unmount(n, i) \/ move(n, i)
       PROVE  StayTrue
  BY <1>12, <1>q DEF unhandled, Answer, create, mount, unmount, move
<1>13. ASSUME NEW n \in Nodes, NEW i \in Offerable(n), commit(n, i)  PROVE StayTrue
  BY <1>0, <1>13, SnapshotTrue DEF commit
<1>14. ASSUME NEW n \in Nodes, NEW i \in Offerable(n), rollback(n, i)  PROVE StayTrue
  BY <1>14, NothingRollsBack
<1>15. ASSUME NEW op, NEW node, NEW snap, globalFsRequest(op, node, snap)  PROVE StayTrue
  BY <1>0, <1>15, RequestTrue
<1>16. ASSUME NEW n \in Nodes, Docker(n)  PROVE StayTrue
  <2>1. CASE procureRemote(n)
    BY <2>1, <1>15 DEF procureRemote
  <2>2. CASE ~ procureRemote(n)
    BY <1>16, <2>2, <1>q
    DEF Docker, procureLocal, procureResponse, procureTimeout, procureActive, containerWrites,
        containerStops, DockerOnly
  <2> QED
    BY <2>1, <2>2
<1>17. ASSUME Commit \/ Rollback  PROVE StayTrue
  BY <1>15, <1>17 DEF Commit, Rollback
<1> QED
  BY <1>1, <1>2, <1>3, <1>4, <1>5, <1>6, <1>7, <1>8, <1>9, <1>10, <1>11, <1>12, <1>13, <1>14,
     <1>16, <1>17, NodesAssumption DEF Next, Machine
-----------------------------------------------------------------------------
(* handoffCheck goes on to move the key when the target's list is this     *)
(* one's; the list is true of the target, whose pool only grows after.     *)
LEMMA TargetNext ==
  ASSUME HandoffInv, TypeOK', NEW n \in Nodes, MachineStep(n), Grown
  PROVE  TargetIsReady'
<1> USE DEF HandoffInv, CalmInv, LineageInv, TypeInv
<1>1. \A m \in Nodes : zSnaps[m] \in Seq(Nat) /\ zSnaps'[m] \in Seq(Nat)
  BY DEF TypeOK, Snaps
<1>2. ASSUME NEW m \in Nodes, state[m] \in HandoffStates, handoffRequest'[m] = handoffRequest[m]
      PROVE  target(m) \in Nodes /\ target(m)' = target(m)
  <2>1. handoffRequest[m] \in 1 .. Len(requests)
    BY <1>2 DEF KnownRequests, HandoffIsKnown
  <2>2. requests'[handoffRequest[m]] = requests[handoffRequest[m]]
    BY <2>1 DEF MachineStep, Asked
  <2>3. target(m)' = target(m)
    BY <1>2, <2>2 DEF target
  <2> QED
    BY <1>2, <2>3, HandoffItemType
<1>3. ASSUME NEW m \in Nodes, NEW k \in Nodes, IsPrefix(zSnaps[m], zSnaps[k]),
             zSnaps'[m] = zSnaps[m]
      PROVE  IsPrefix(zSnaps'[m], zSnaps'[k])
  BY <1>1, <1>3, PrefixTransitive DEF Grown
<1>4. ASSUME NEW m \in Nodes, state[m] = "handoffSwitch", zSnaps'[m] = zSnaps[m],
             handoffRequest'[m] = handoffRequest[m]
      PROVE  IsPrefix(zSnaps[m], zSnaps[target(m)])' /\ target(m) \in Nodes
  <2>1. target(m) \in Nodes /\ target(m)' = target(m)
    BY <1>2, <1>4 DEF HandoffStates
  <2>2. IsPrefix(zSnaps[m], zSnaps[target(m)])
    BY <1>4 DEF TargetIsReady
  <2> QED
    BY <1>3, <1>4, <2>1, <2>2
<1>5. ASSUME NEW m \in Nodes \ {n}, state'[m] = "handoffSwitch"
      PROVE  IsPrefix(zSnaps[m], zSnaps[target(m)])'
  BY <1>4, <1>5 DEF MachineStep, Still
<1>6. ASSUME state'[n] = "handoffSwitch"  PROVE IsPrefix(zSnaps[n], zSnaps[target(n)])'
  <2>1. /\ zSnaps'[n] = zSnaps[n] /\ handoffRequest'[n] = handoffRequest[n]
        /\ state[n] = "handoffSwitch" \/ handoffCheck(n)
    BY <1>6 DEF MachineStep, Switches
  <2>2. CASE state[n] = "handoffSwitch"
    BY <1>4, <2>1, <2>2
  <2>3. CASE handoffCheck(n)
    <3>1. state[n] = "handoffCheck"
      BY <2>3 DEF handoffCheck
    <3>2. target(n) \in Nodes /\ target(n)' = target(n)
      BY <1>2, <2>1, <3>1 DEF HandoffStates
    <3> DEFINE t == target(n)
               f == fsSnaps[n]
               c == globalSnapshotCache[n][t]
    <3>3. canApply(f, c).err = "ToSnapsUpToDate"
      BY <1>6, <2>3 DEF handoffCheck, Goto, TypeOK
    <3>4. f \in Seq(Nat) /\ c \in Seq(Nat) /\ f \in Lists /\ c \in Lists
      <4>1. t \in Nodes
        BY <3>2
      <4> HIDE DEF t
      <4>2. f \in Seq(Nat) /\ c \in Seq(Nat)
        BY <4>1 DEF TypeOK, Snaps
      <4>3. f \in Lists /\ c \in Lists
        BY <4>1, ListsAre DEF IsList
      <4> QED
        BY <4>2, <4>3
    <3>5. Agree(f, c)
      BY <3>4 DEF LineageAgreement
    <3>6. f = c
      <4> HIDE DEF f, c
      <4> QED
        BY <3>3, <3>4, <3>5, UpToDateMeansEqual
    <3>7. f = zSnaps[n]
      BY <3>1 DEF MemoryTracksPool
    <3>8. IsPrefix(zSnaps[n], zSnaps[t])
      BY <3>2, <3>6, <3>7 DEF ListsAreTrue, TrueOf
    <3> QED
      BY <1>3, <2>1, <3>2, <3>8
  <2> QED
    BY <2>1, <2>2, <2>3
<1> QED
  BY <1>5, <1>6 DEF TargetIsReady

(* receivingState opens a stream that completes its pool to what the       *)
(* sender has, and which the sender keeps.                                 *)
LEMMA StreamsNext ==
  ASSUME HandoffInv, TypeOK', NEW n \in Nodes, MachineStep(n), Grown
  PROVE  StreamsAreKnown'
<1> USE DEF HandoffInv, CalmInv, LineageInv, TypeInv
<1>1. \A m \in Nodes : zSnaps[m] \in Seq(Nat) /\ zSnaps'[m] \in Seq(Nat) /\ stream[m] \in Seq(Nat)
  BY DEF TypeOK, Snaps
<1>2. ASSUME NEW p \in Seq(Nat), NEW m \in Nodes, IsPrefix(p, zSnaps[m])
      PROVE  IsPrefix(p, zSnaps'[m])
  BY <1>1, <1>2, PrefixTransitive DEF Grown
<1>3. ASSUME NEW m \in Nodes, state[m] = "recv", zSnaps'[m] \o stream'[m] = zSnaps[m] \o stream[m]
      PROVE  \E k \in Nodes : IsPrefix(zSnaps'[m] \o stream'[m], zSnaps'[k])
  <2>1. PICK k \in Nodes : IsPrefix(zSnaps[m] \o stream[m], zSnaps[k])
    BY <1>3 DEF StreamsAreKnown
  <2>2. zSnaps[m] \o stream[m] \in Seq(Nat)
    BY <1>1
  <2>3. IsPrefix(zSnaps[m] \o stream[m], zSnaps'[k])
    BY <1>2, <2>1, <2>2
  <2> QED
    BY <1>3, <2>3
<1>4. ASSUME NEW m \in Nodes \ {n}, state'[m] = "recv"
      PROVE  \E k \in Nodes : IsPrefix(zSnaps'[m] \o stream'[m], zSnaps'[k])
  BY <1>3, <1>4 DEF MachineStep, Still
<1>5. ASSUME state'[n] = "recv", receiving(n)
      PROVE  \E k \in Nodes : IsPrefix(zSnaps'[n] \o stream'[n], zSnaps'[k])
  <2> DEFINE r == plausibleSnapRange(n)
             m == mastersCache[n]
             S == SendStream(zSnaps[m], r.fromSnap, r.toSnap)
             b == IndexOf(zSnaps[m], r.toSnap)
  <2>1. m \in Nodes /\ Serves(m, r) /\ Accepts(n, r) /\ stream' = [stream EXCEPT ![n] = S]
    <3>1. ~ \E next \in {"discovering", "backoff"} : Goto(n, next)
      BY <1>5 DEF Goto, TypeOK
    <3> QED
      BY <1>5, <3>1, ReceivingCases
  <2>2. zSnaps[n] \in Seq(Nat) /\ zSnaps[m] \in Seq(Nat) /\ CanSend(zSnaps[m], r.fromSnap, r.toSnap)
    BY <2>1 DEF TypeOK, Snaps, Serves
  <2>3. zSnaps[m] \in Lists /\ zSnaps[n] \in Lists
    BY <2>1, ListsAre DEF IsList
  <2>4. Agree(zSnaps[n], zSnaps[m])
    BY <2>3 DEF LineageAgreement
  <2>5. IF r.fromSnap = NilSnap THEN zSnaps[n] = << >>
        ELSE zSnaps[n] # << >> /\ Last(zSnaps[n]) = r.fromSnap
    BY <2>1 DEF Accepts, PoolExists
  <2>6. zSnaps[n] \o S = SubSeq(zSnaps[m], 1, b) /\ b \in 0 .. Len(zSnaps[m])
    <3> HIDE DEF r, m
    <3> QED
      BY <2>2, <2>4, <2>5, StreamCompletes
  <2>7. SubSeq(zSnaps[m], 1, b) \in Seq(Nat) /\ IsPrefix(SubSeq(zSnaps[m], 1, b), zSnaps[m])
    <3> HIDE DEF b, m
    <3> QED
      BY <2>2, <2>6, PrefixCut
  <2>8. IsPrefix(zSnaps[n] \o S, zSnaps'[m])
    <3> HIDE DEF S, b, m
    <3> QED
      BY <1>2, <2>1, <2>6, <2>7
  <2>9. zSnaps' = zSnaps /\ stream'[n] = S
    BY <1>5, <2>1 DEF receiving, zVars, TypeOK
  <2> QED
    BY <2>1, <2>8, <2>9
<1>6. ASSUME state'[n] = "recv"
      PROVE  \E k \in Nodes : IsPrefix(zSnaps'[n] \o stream'[n], zSnaps'[k])
  BY <1>3, <1>5, <1>6 DEF MachineStep, Receives
<1> QED
  BY <1>4, <1>6 DEF StreamsAreKnown

(* At first there are no requests, no snapshots and no handoff.            *)
LEMMA HandoffInit == ~Rollbacks /\ Init => HandoffInv
<1> SUFFICES ASSUME ~Rollbacks, Init PROVE HandoffInv
  OBVIOUS
<1>1. NoRollbacks
  <2>1. Len(requests) = 0
    BY DEF Init
  <2> QED
    BY <2>1 DEF NoRollbacks
<1>2. ListsAreTrue
  <2>1. \A m \in Nodes : TrueOf(m, << >>)
    <3>1. \A m \in Nodes : zSnaps[m] \in Seq(Nat)
      BY CalmInit DEF CalmInv, LineageInv, TypeInv, TypeOK, Snaps
    <3> QED
      BY <3>1, PrefixReflexive DEF TrueOf
  <2>2. \A m \in Nodes : \A k \in DOMAIN watch[m] : watch[m][k].type = "masters"
    BY DEF Init, MasterEvent, EtcdEvent
  <2> QED
    BY <2>1, <2>2 DEF ListsAreTrue, Told, Init
<1>3. TargetIsReady /\ StreamsAreKnown
  BY DEF Init, TargetIsReady, StreamsAreKnown
<1> QED
  BY <1>1, <1>2, <1>3, CalmInit DEF HandoffInv

(* And the invariant holds after every step.                               *)
LEMMA HandoffNext == HandoffInv /\ [Next]_vars => HandoffInv'
<1> SUFFICES ASSUME HandoffInv, [Next]_vars PROVE HandoffInv'
  BY Zenon
<1>1. CalmInv' /\ TypeOK'
  BY CalmNext DEF HandoffInv, CalmInv, LineageInv, TypeInv
<1>2. NoRollbacks' /\ (UNCHANGED vars \/ \E n \in Nodes : MachineStep(n))
  BY NoRollbacksNext DEF HandoffInv
<1>3. CASE UNCHANGED vars
  <2>1. ListsAreTrue' /\ TargetIsReady' /\ StreamsAreKnown'
    BY <1>3 DEF HandoffInv, vars, etcdVars, cacheVars, zVars, ListsAreTrue, TrueOf, Told,
                TargetIsReady, target, StreamsAreKnown
  <2> QED
    BY <1>1, <1>2, <2>1 DEF HandoffInv
<1>4. ASSUME NEW n \in Nodes, MachineStep(n), Next  PROVE HandoffInv'
  <2>1. Grown
    BY <1>1, <1>4, PoolsGrow DEF HandoffInv, CalmInv, LineageInv
  <2>2. ListsAreTrue'
    BY <1>1, <1>4, <2>1, TrueNext, StayTrueIs DEF HandoffInv
  <2>3. TargetIsReady' /\ StreamsAreKnown'
    BY <1>1, <1>4, <2>1, TargetNext, StreamsNext
  <2> QED
    BY <1>1, <1>2, <2>2, <2>3 DEF HandoffInv
<1> QED
  BY <1>2, <1>3, <1>4

(* The inductive invariant of a cluster that never rolls back.             *)
LEMMA HandoffInvariant == ASSUME ~Rollbacks PROVE Spec => []HandoffInv
BY HandoffInit, HandoffNext, PTL DEF Spec

-----------------------------------------------------------------------------
(* Without rollbacks every report of a node's snapshots, in etcd, in a     *)
(* cache or in an undelivered event, is late at worst: updateSnapshots,    *)
(* discover and the updater never file a list before it is on the pool.    *)
THEOREM ReportsStayTrue == ASSUME ~Rollbacks PROVE Spec => []ReportsAreTrue
<1>1. HandoffInv => ReportsAreTrue
  <2> SUFFICES ASSUME ListsAreTrue PROVE ReportsAreTrue
    BY DEF HandoffInv
  <2> QED
    BY Zenon DEF ListsAreTrue, TrueOf, Told, ReportsAreTrue
<1> QED
  BY HandoffInvariant, <1>1, PTL

(* Only handoffSwitch moves the masters key, to a node that has it all.    *)
LEMMA SwitchIsLossless ==
  HandoffInv /\ [Next]_vars => \A n \in Nodes : NothingLeftBehind(n)
<1> SUFFICES ASSUME HandoffInv, [Next]_vars, NEW n \in Nodes, masters = n, masters' # n
             PROVE  ~zMounted[n] /\ ~zDirty[n] /\ IsPrefix(zSnaps[n], zSnaps[masters'])
  BY Zenon DEF NothingLeftBehind
<1> USE DEF HandoffInv
<1>1. PICK m \in Nodes : MachineStep(m)
  BY NoRollbacksNext DEF vars, etcdVars
<1>2. state[m] = "handoffSwitch" /\ m = n /\ masters' = target(m)
  BY <1>1 DEF MachineStep, MovesKey
<1>3. Calm(n)
  BY DEF CalmInv
<1> QED
  BY <1>2, <1>3 DEF Calm, Saved, Quieted, TargetIsReady

(* A handoff loses nothing: when handoffState moves the masters key, the   *)
(* old master has unmounted the filesystem and has no unsaved write, and   *)
(* the new one has every snapshot of it, although handoffState looked at   *)
(* a cache, some steps before, to decide that.                             *)
THEOREM HandoffsLoseNothing == ASSUME ~Rollbacks PROVE Spec => HandoffLossless
<1> DEFINE Lossless == \A n \in Nodes : NothingLeftBehind(n)
<1>1. HandoffLossless <=> [][Lossless]_vars
  BY PTL DEF HandoffLossless
<1>2. HandoffInv /\ [Next]_vars => Lossless
  BY SwitchIsLossless
<1> QED
  BY HandoffInvariant, <1>1, <1>2, PTL DEF Spec

-----------------------------------------------------------------------------
(* The refinement of Replication.                                          *)

(* At first every replica is empty and Home is the owner.                  *)
LEMMA PoolsInit == Init => Pools!Init
BY NodesAssumption DEF Init, Pools!Init

(* The library's operators are the same in both modules.                   *)
LEMMA PoolsOperators ==
  /\ \A s : Pools!Last(s) = Last(s) /\ Pools!ToSet(s) = ToSet(s)
  /\ \A s, t : Pools!IsPrefix(s, t) <=> IsPrefix(s, t)
<1>1. \A s : Pools!Last(s) = Last(s)
  BY DEF Pools!Last, Last
<1>2. \A s : Pools!ToSet(s) = ToSet(s)
  BY DEF Pools!ToSet, ToSet
<1>3. \A s, t : Pools!IsPrefix(s, t) <=> IsPrefix(s, t)
  BY DEF Pools!IsPrefix, IsPrefix
<1> QED
  BY <1>1, <1>2, <1>3

(* A pool that grows by an id is an extended replica.                      *)
LEMMA PoolExtends ==
  ASSUME TypeOK, TypeOK', NEW n \in Nodes, NEW x \in Nat, zSnaps'[n] = Append(zSnaps[n], x),
         \A m \in Nodes \ {n} : zSnaps'[m] = zSnaps[m], masters' = masters
  PROVE  Pools!Extends(n) /\ Last(zSnaps'[n]) = x
<1>1. zSnaps[n] \in Seq(Nat) /\ zSnaps'[n] \in Seq(Nat)
  BY DEF TypeOK, Snaps
<1>2. zSnaps'[n] # << >> /\ Last(zSnaps'[n]) = x
  BY <1>1 DEF Last
<1>3. zSnaps' = [zSnaps EXCEPT ![n] = Append(@, x)]
  BY DEF TypeOK
<1> QED
  BY <1>2, <1>3, PoolsOperators DEF Pools!Extends

(* A snapshot of a machine's own, one that it receives, and the move of    *)
(* the key are the three steps of Replication; all else is a stutter.      *)
LEMMA PoolsNext ==
  HandoffInv /\ [Next]_vars => [Pools!Next]_<<masters, zSnaps>>
<1> SUFFICES ASSUME HandoffInv, [Next]_vars, UNCHANGED <<masters, zSnaps>> => FALSE
             PROVE  Pools!Next
  BY Zenon
<1> USE DEF HandoffInv, CalmInv, LineageInv, TypeInv
<1>0. TypeOK'
  BY CalmNext
<1>1. PICK n \in Nodes : MachineStep(n)
  BY NoRollbacksNext DEF vars, etcdVars, zVars
<1>2. /\ zSnaps[n] \in Seq(Nat) /\ zSnaps'[n] \in Seq(Nat) /\ stream[n] \in Seq(Nat)
      /\ nextSnap \in Nat
  BY <1>0 DEF TypeOK, Snaps
<1>3. \A m \in Nodes \ {n} : zSnaps'[m] = zSnaps[m]
  BY <1>1 DEF MachineStep, Still
<1>4. CASE zSnaps'[n] = zSnaps[n]
  <2>1. zSnaps' = zSnaps
    BY <1>0, <1>3, <1>4 DEF TypeOK
  <2>2. state[n] = "handoffSwitch" /\ masters = n /\ masters' = target(n)
    BY <1>1, <2>1 DEF MachineStep, MovesKey
  <2>3. IsPrefix(zSnaps[masters], zSnaps[target(n)]) /\ target(n) \in Nodes
    BY <2>2, HandoffItemType DEF TargetIsReady, HandoffStates
  <2>4. Pools!Handoff(target(n))
    BY <2>1, <2>2, <2>3, PoolsOperators DEF Pools!Handoff
  <2> QED
    BY <2>3, <2>4 DEF Pools!Next
<1>5. CASE zSnaps'[n] = Append(zSnaps[n], nextSnap) /\ masters' = masters
  <2>1. Pools!Extends(n) /\ Last(zSnaps'[n]) = nextSnap
    BY <1>0, <1>2, <1>3, <1>5, PoolExtends
  <2>2. ASSUME NEW m \in Nodes  PROVE nextSnap \notin ToSet(zSnaps[m])
    <3>1. zSnaps[m] \in Lists /\ zSnaps[m] \in Seq(Nat)
      BY ListsAre DEF IsList, TypeOK, Snaps
    <3>2. \A i \in 1 .. Len(zSnaps[m]) : zSnaps[m][i] \in Nat /\ zSnaps[m][i] < nextSnap
      BY <3>1 DEF Fresh
    <3>3. \A i \in 1 .. Len(zSnaps[m]) : zSnaps[m][i] # nextSnap
      BY <1>2, <3>2
    <3> QED
      BY <3>1, <3>3 DEF ToSet
  <2>3. Pools!Commit(n)
    BY <2>1, <2>2, PoolsOperators DEF Pools!Commit
  <2> QED
    BY <2>3 DEF Pools!Next
<1>6. CASE /\ state[n] = "recv" /\ zSnaps'[n] = Append(zSnaps[n], Head(stream[n]))
           /\ masters' = masters
  <2>1. stream[n] # << >> /\ Head(stream[n]) \in Nat
    <3>1. stream[n] # << >>
      BY <1>6 DEF StreamIsOpen
    <3> QED
      BY <1>2, <3>1
  <2>2. Pools!Extends(n)
    BY <1>0, <1>3, <1>6, <2>1, PoolExtends
  <2>3. PICK m \in Nodes : IsPrefix(zSnaps[n] \o stream[n], zSnaps[m])
    BY <1>6 DEF StreamsAreKnown
  <2> DEFINE whole == zSnaps[n] \o stream[n]
             k == Len(zSnaps[n]) + 1
  <2>4. whole \in Seq(Nat) /\ zSnaps[m] \in Seq(Nat)
    BY <1>2 DEF TypeOK, Snaps
  <2>5. zSnaps'[n] = SubSeq(whole, 1, k) /\ k \in 0 .. Len(whole)
    BY <1>2, <1>6, <2>1, ArrivalCompletes
  <2> HIDE DEF whole, k
  <2>6. IsPrefix(zSnaps'[n], whole)
    BY <2>4, <2>5, PrefixCut
  <2>7. IsPrefix(zSnaps'[n], zSnaps[m])
    BY <1>2, <2>3, <2>4, <2>6, PrefixTransitive DEF whole
  <2>8. Pools!Fetch(n)
    BY <2>2, <2>7, PoolsOperators DEF Pools!Fetch
  <2> QED
    BY <2>8 DEF Pools!Next
<1> QED
  BY <1>1, <1>4, <1>5, <1>6 DEF MachineStep, Grows

(* Without rollbacks the pools and the masters key implement Replication:  *)
(* a pool grows only by a snapshot that is new in the cluster or by the    *)
(* next one of another pool's history, and the filesystem is handed only   *)
(* to a node that has the whole of it.                                     *)
THEOREM ReplicationIsImplemented == ASSUME ~Rollbacks PROVE Spec => ImplementsReplication
BY HandoffInvariant, PoolsInit, PoolsNext, PTL DEF Spec, ImplementsReplication, Pools!Spec
=============================================================================
