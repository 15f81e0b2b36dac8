---------------------------- MODULE LineageProofs ----------------------------
(***************************************************************************)
(* A snapshot has one history in the whole cluster: LineageAgreement is an *)
(* invariant of Migration, for any number of nodes, requests, failures and *)
(* restarts, with and without rollbacks.                                   *)
(***************************************************************************)
EXTENDS MigrationProofs

(***************************************************************************)
(* The strengthening.  A new snapshot keeps lists in agreement because its *)
(* id is nowhere yet (Fresh) and because the list in memory, to which it   *)
(* is also appended, is the list on the pool (MemoryTracksPool).  A stream *)
(* received from the origin meets an empty pool (PoolExists).              *)
(***************************************************************************)
Fresh == \A p \in Lists : \A i \in 1 .. Len(p) : p[i] < nextSnap

OnPool == {"inactive", "inactiveSub", "inactiveWait", "active", "unmounted"}
            \cup HandoffStates

PoolExists == \A n \in Nodes : zSnaps[n] # << >> \/ state[n] \in OnPool => zExists[n]

LineageInv ==
  TypeInv /\ LineageAgreement /\ Fresh /\ MemoryTracksPool /\ PoolExists

-----------------------------------------------------------------------------
(* Lists, place by place.                                                  *)
IsList(p) ==
  \/ \E n \in Nodes : p = zSnaps[n]
  \/ \E n \in Nodes : p = fsSnaps[n]
  \/ \E n \in Nodes : p = snapshots[n]
  \/ \E n \in Nodes : p = zSnaps[n] \o stream[n]
  \/ \E n \in Nodes, m \in Nodes : p = globalSnapshotCache[n][m]
  \/ \E n \in Nodes : \E k \in DOMAIN watch[n] : p = watch[n][k].snaps

(* A member of Lists is at one of these places.                            *)
LEMMA ListsAre == \A p : p \in Lists <=> IsList(p)
<1> DEFINE Z == {zSnaps[n] : n \in Nodes}
           F == {fsSnaps[n] : n \in Nodes}
           E == {snapshots[n] : n \in Nodes}
           R == {zSnaps[n] \o stream[n] : n \in Nodes}
           C == UNION {{globalSnapshotCache[n][m] : m \in Nodes} : n \in Nodes}
           W == UNION {{watch[n][k].snaps : k \in DOMAIN watch[n]} : n \in Nodes}
<1>1. \A p : /\ p \in Z <=> \E n \in Nodes : p = zSnaps[n]
             /\ p \in F <=> \E n \in Nodes : p = fsSnaps[n]
             /\ p \in E <=> \E n \in Nodes : p = snapshots[n]
             /\ p \in R <=> \E n \in Nodes : p = zSnaps[n] \o stream[n]
  OBVIOUS
<1>2. \A p : p \in C <=> \E n \in Nodes, m \in Nodes : p = globalSnapshotCache[n][m]
  OBVIOUS
<1>3. \A p : p \in W <=> \E n \in Nodes : \E k \in DOMAIN watch[n] : p = watch[n][k].snaps
  OBVIOUS
<1>4. Lists = Z \cup F \cup E \cup R \cup C \cup W
  BY DEF Lists
<1> HIDE DEF Z, F, E, R, C, W
<1>5. \A p : p \in Lists <=> p \in Z \/ p \in F \/ p \in E \/ p \in R \/ p \in C \/ p \in W
  BY <1>4
<1> QED
  BY <1>1, <1>2, <1>3, <1>5 DEF IsList

(* The same of the state after a step.                                     *)
LEMMA ListsAreNext == \A p : (p \in Lists)' <=> IsList(p)'
<1> DEFINE Z == {zSnaps'[n] : n \in Nodes}
           F == {fsSnaps'[n] : n \in Nodes}
           E == {snapshots'[n] : n \in Nodes}
           R == {zSnaps'[n] \o stream'[n] : n \in Nodes}
           C == UNION {{globalSnapshotCache'[n][m] : m \in Nodes} : n \in Nodes}
           W == UNION {{watch'[n][k].snaps : k \in DOMAIN watch'[n]} : n \in Nodes}
<1>1. \A p : /\ p \in Z <=> \E n \in Nodes : p = zSnaps'[n]
             /\ p \in F <=> \E n \in Nodes : p = fsSnaps'[n]
             /\ p \in E <=> \E n \in Nodes : p = snapshots'[n]
             /\ p \in R <=> \E n \in Nodes : p = zSnaps'[n] \o stream'[n]
  OBVIOUS
<1>2. \A p : p \in C <=> \E n \in Nodes, m \in Nodes : p = globalSnapshotCache'[n][m]
  OBVIOUS
<1>3. \A p : p \in W <=> \E n \in Nodes : \E k \in DOMAIN watch'[n] : p = watch'[n][k].snaps
  OBVIOUS
<1>4. Lists' = Z \cup F \cup E \cup R \cup C \cup W
  BY DEF Lists
<1> HIDE DEF Z, F, E, R, C, W
<1>5. \A p : p \in Lists' <=> p \in Z \/ p \in F \/ p \in E \/ p \in R \/ p \in C \/ p \in W
  BY <1>4
<1> QED
  BY <1>1, <1>2, <1>3, <1>5 DEF IsList

(* Every list is a sequence of snapshot ids.                               *)
LEMMA ListsType == TypeOK => \A p \in Lists : p \in Seq(Nat)
<1> SUFFICES ASSUME TypeOK, NEW p, IsList(p) PROVE p \in Seq(Nat)
  BY ListsAre
<1>1. ASSUME NEW n \in Nodes, p = zSnaps[n] \o stream[n]  PROVE p \in Seq(Nat)
  <2>1. zSnaps[n] \in Seq(Nat) /\ stream[n] \in Seq(Nat)
    BY DEF TypeOK, Snaps
  <2> QED
    BY <1>1, <2>1
<1>2. ASSUME NEW n \in Nodes, NEW k \in DOMAIN watch[n], p = watch[n][k].snaps
      PROVE  p \in Seq(Nat)
  <2>1. watch[n] \in Seq(Event) /\ k \in 1 .. Len(watch[n])
    BY DEF TypeOK
  <2>2. watch[n][k] \in Event
    BY <2>1
  <2> QED
    BY <1>2, <2>2 DEF Event, Snaps
<1>3. ASSUME NEW n \in Nodes, NEW m \in Nodes, p = globalSnapshotCache[n][m]
      PROVE  p \in Seq(Nat)
  BY <1>3 DEF TypeOK, Snaps
<1>4. ASSUME NEW n \in Nodes, p = zSnaps[n] \/ p = fsSnaps[n] \/ p = snapshots[n]
      PROVE  p \in Seq(Nat)
  <2>1. zSnaps[n] \in Seq(Nat) /\ fsSnaps[n] \in Seq(Nat) /\ snapshots[n] \in Seq(Nat)
    BY DEF TypeOK, Snaps
  <2> QED
    BY <1>4, <2>1
<1> QED
  BY <1>1, <1>2, <1>3, <1>4 DEF IsList

-----------------------------------------------------------------------------
(* Most actions only copy lists from place to place and cut them: every    *)
(* list afterwards is a prefix of one before.                              *)
PrefixOfList(p) == \E q \in Lists : \E k \in 0 .. Len(q) : p = SubSeq(q, 1, k)

PoolsKept    == \A n \in Nodes : PrefixOfList(zSnaps'[n]) /\ PrefixOfList(zSnaps'[n] \o stream'[n])
MemoriesKept == \A n \in Nodes : PrefixOfList(fsSnaps'[n])
EtcdKept     == \A n \in Nodes : PrefixOfList(snapshots'[n])
CachesKept   == \A n \in Nodes, m \in Nodes : PrefixOfList(globalSnapshotCache'[n][m])
EventsKept   == \A n \in Nodes : \A k \in DOMAIN watch'[n] : PrefixOfList(watch'[n][k].snaps)

Kept == PoolsKept /\ MemoriesKept /\ EtcdKept /\ CachesKept /\ EventsKept

(* Kept speaks of every list there is after the step.                      *)
LEMMA ListsAreKept == ASSUME Kept PROVE \A p : (p \in Lists)' => PrefixOfList(p)
<1> SUFFICES ASSUME NEW p, IsList(p)' PROVE PrefixOfList(p)
  BY ListsAreNext
<1>1. ASSUME NEW n \in Nodes, p = zSnaps'[n] \/ p = zSnaps'[n] \o stream'[n]  PROVE PrefixOfList(p)
  BY <1>1 DEF Kept, PoolsKept
<1>2. ASSUME NEW n \in Nodes, p = fsSnaps'[n] \/ p = snapshots'[n]  PROVE PrefixOfList(p)
  BY <1>2 DEF Kept, MemoriesKept, EtcdKept
<1>3. ASSUME NEW n \in Nodes, NEW m \in Nodes, p = globalSnapshotCache'[n][m]  PROVE PrefixOfList(p)
  BY <1>3 DEF Kept, CachesKept
<1>4. ASSUME NEW n \in Nodes, NEW k \in DOMAIN watch'[n], p = watch'[n][k].snaps  PROVE PrefixOfList(p)
  BY <1>4 DEF Kept, EventsKept
<1> QED
  BY <1>1, <1>2, <1>3, <1>4 DEF IsList

(* A list, and the empty list, is a prefix of a list.                      *)
LEMMA ListIsPrefix ==
  ASSUME TypeOK, NEW p \in Lists
  PROVE  PrefixOfList(p) /\ PrefixOfList(<< >>)
<1>1. p \in Seq(Nat)
  BY ListsType
<1>2. p = SubSeq(p, 1, Len(p)) /\ Len(p) \in 0 .. Len(p)
  BY <1>1, SubSeqFull
<1>3. << >> = SubSeq(p, 1, 0) /\ 0 \in 0 .. Len(p)
  BY <1>1, SubSeqEmpty
<1> QED
  BY <1>2, <1>3 DEF PrefixOfList

(* Such an action keeps the lists in agreement and the next id fresh.      *)
LEMMA KeptAgree ==
  ASSUME TypeOK, LineageAgreement, Fresh, Kept, nextSnap' = nextSnap
  PROVE  LineageAgreement' /\ Fresh'
<1>1. ASSUME NEW p, NEW q, PrefixOfList(p), PrefixOfList(q)  PROVE Agree(p, q)
  <2>1. PICK u \in Lists : \E k \in 0 .. Len(u) : p = SubSeq(u, 1, k)
    BY <1>1 DEF PrefixOfList
  <2>2. PICK v \in Lists : \E l \in 0 .. Len(v) : q = SubSeq(v, 1, l)
    BY <1>1 DEF PrefixOfList
  <2>3. u \in Seq(Nat) /\ v \in Seq(Nat) /\ Agree(u, v)
    BY ListsType DEF LineageAgreement
  <2> QED
    BY <2>1, <2>2, <2>3, AgreePrefix
<1>2. ASSUME NEW p, PrefixOfList(p)  PROVE \A i \in 1 .. Len(p) : p[i] < nextSnap
  <2>1. PICK u \in Lists : \E k \in 0 .. Len(u) : p = SubSeq(u, 1, k)
    BY <1>2 DEF PrefixOfList
  <2> PICK k \in 0 .. Len(u) : p = SubSeq(u, 1, k)
    BY <2>1
  <2>2. u \in Seq(Nat)
    BY ListsType
  <2>3. Len(p) = k /\ \A i \in 1 .. k : p[i] = u[i] /\ i \in 1 .. Len(u)
    BY <2>2
  <2> QED
    BY <2>3 DEF Fresh
<1>3. LineageAgreement'
  BY <1>1, ListsAreKept DEF LineageAgreement
<1>4. Fresh'
  BY <1>2, ListsAreKept DEF Fresh
<1> QED
  BY <1>3, <1>4
-----------------------------------------------------------------------------
(* The states in which no state function reads f.filesystem.snapshots.     *)
Unlisted == {"none", "discovering", "backoff", "recv"}

(* A step that changes neither the list in memory nor the pool: a machine  *)
(* that acts on its list, or is on its pool, did so before.                *)
LEMMA PoolFrame ==
  ASSUME TypeOK, MemoryTracksPool, PoolExists, NEW n \in Nodes, NEW next,
         state' = [state EXCEPT ![n] = next], UNCHANGED <<fsSnaps, zSnaps>>,
         \A m \in Nodes : zExists[m] => zExists'[m],
         next \in Unlisted \/ state[n] \notin Unlisted,
         next \in OnPool => state[n] \in OnPool \/ zExists'[n]
  PROVE  MemoryTracksPool' /\ PoolExists'
<1>1. \A m \in Nodes : state'[m] = IF m = n THEN next ELSE state[m]
  BY DEF TypeOK
<1>2. MemoryTracksPool'
  BY <1>1 DEF MemoryTracksPool, Unlisted
<1>3. PoolExists'
  BY <1>1 DEF PoolExists
<1> QED
  BY <1>2, <1>3

(* `zfs snapshot` runs in a machine that is on its pool; unless `zfs list` *)
(* tells of the new snapshot too, the machine goes to backoffState.        *)
LEMMA PoolSnapshot ==
  ASSUME TypeOK, MemoryTracksPool, PoolExists, NEW n \in Nodes, NEW done \in SnapshotOutcomes,
         snapshot(n, done), NEW next, state' = [state EXCEPT ![n] = next], zExists' = zExists,
         state[n] \in OnPool, done # "listed" => next = "backoff"
  PROVE  MemoryTracksPool' /\ PoolExists'
<1>1. \A m \in Nodes : state'[m] = IF m = n THEN next ELSE state[m]
  BY DEF TypeOK
<1>2. fsSnaps[n] = zSnaps[n] /\ zExists[n]
  BY DEF MemoryTracksPool, PoolExists, OnPool, HandoffStates
<1>3. \A m \in Nodes \ {n} : fsSnaps'[m] = fsSnaps[m] /\ zSnaps'[m] = zSnaps[m]
  BY DEF snapshot, TypeOK
<1>4. done = "listed" => fsSnaps'[n] = zSnaps'[n]
  BY <1>2 DEF snapshot, TypeOK
<1>5. MemoryTracksPool'
  BY <1>1, <1>3, <1>4 DEF MemoryTracksPool
<1>6. PoolExists'
  BY <1>1, <1>2, <1>3 DEF PoolExists
<1> QED
  BY <1>5, <1>6
(* Memory tracks the pool, and a list implies a pool, after every step.    *)
LEMMA PoolNext ==
  TypeInv /\ MemoryTracksPool /\ PoolExists /\ [Next]_vars => MemoryTracksPool' /\ PoolExists'
<1> DEFINE Both == MemoryTracksPool' /\ PoolExists'
<1> SUFFICES ASSUME TypeInv, MemoryTracksPool, PoolExists, [Next]_vars PROVE Both
  OBVIOUS
<1> USE TypeInv, MemoryTracksPool, PoolExists DEF TypeInv
<1>0. ASSUME UNCHANGED <<state, fsSnaps, zSnaps, zExists>> PROVE Both
  BY <1>0 DEF MemoryTracksPool, PoolExists
<1> HIDE DEF Both
<1> DEFINE Frame(n, next) ==
      /\ state' = [state EXCEPT ![n] = next]
      /\ UNCHANGED <<fsSnaps, zSnaps, zExists>>
<1>f. ASSUME NEW n \in Nodes, NEW next, Frame(n, next),
             next \in Unlisted \/ state[n] \notin Unlisted,
             next \in OnPool => state[n] \in OnPool
      PROVE  Both
  BY <1>f, PoolFrame DEF Both
<1>1. ASSUME NEW n \in Nodes, maybeDispatchEvent(n)  PROVE Both
  BY <1>1, <1>0 DEF maybeDispatchEvent, zVars
<1>2. ASSUME NEW n \in Nodes, updateSnapshots(n)  PROVE Both
  BY <1>2, <1>0 DEF updateSnapshots, zVars
<1>3. ASSUME NEW n \in Nodes, Reconnect(n)  PROVE Both
  BY <1>3, <1>0 DEF Reconnect, zVars
<1>4. ASSUME NEW n \in Nodes, updateEtcdAboutSnapshots(n)  PROVE Both
  BY <1>4, <1>0 DEF updateEtcdAboutSnapshots, zVars
<1>5. ASSUME NEW n \in Nodes, setResponse(n)  PROVE Both
  BY <1>5, <1>0 DEF setResponse, zVars
<1>6. ASSUME NEW n \in Nodes, checkMaster(n)  PROVE Both
  <2>1. PICK next \in {"receiving", "missingSub", "inactiveSub"} :
          Frame(n, next) /\ (next = "inactiveSub" => state[n] = "inactive")
    BY <1>6 DEF checkMaster, Goto, AfterCheck, zVars
  <2> QED
    BY <1>6, <2>1, <1>f DEF checkMaster, Unlisted, OnPool, HandoffStates, WaitStates
<1>7. ASSUME NEW n \in Nodes, subscribe(n)  PROVE Both
  <2>1. PICK next \in {"missingWait", "inactiveWait"} :
          Frame(n, next) /\ (next = "inactiveWait" => state[n] = "inactiveSub")
    BY <1>7 DEF subscribe, Goto, zVars
  <2> QED
    BY <1>7, <2>1, <1>f DEF subscribe, Unlisted, OnPool, HandoffStates, WaitStates
<1>8. ASSUME NEW n \in Nodes, newSnapsOnMaster(n)  PROVE Both
  <2>1. PICK next \in {"receiving"} : Frame(n, next)
    BY <1>8 DEF newSnapsOnMaster, Goto, zVars
  <2> QED
    BY <1>8, <2>1, <1>f DEF newSnapsOnMaster, Unlisted, OnPool, HandoffStates, WaitStates
<1>81. ASSUME NEW n \in Nodes, leaveActive(n)  PROVE Both
  <2>1. PICK next \in {"inactive"} : Frame(n, next)
    BY <1>81 DEF leaveActive, Goto, zVars
  <2> QED
    BY <1>81, <2>1, <1>f DEF leaveActive, Unlisted, OnPool, HandoffStates, WaitStates
<1>9. ASSUME NEW n \in Nodes, receiving(n)  PROVE Both
  <2>1. PICK next \in {"discovering", "backoff", "recv"} : Frame(n, next)
    BY <1>9 DEF receiving, Goto, zVars
  <2> QED
    BY <1>9, <2>1, <1>f DEF receiving, Unlisted, OnPool, HandoffStates, WaitStates
<1>10. ASSUME NEW n \in Nodes, recvAborted(n)  PROVE Both
  <2>1. PICK next \in {"backoff"} : Frame(n, next)
    BY <1>10 DEF recvAborted, Goto, zVars
  <2> QED
    BY <1>10, <2>1, <1>f DEF recvAborted, Unlisted, OnPool, HandoffStates, WaitStates
<1>11. ASSUME NEW n \in Nodes, handoffUnmount(n)  PROVE Both
  <2>1. PICK next \in {"handoffSnap", "backoff"} : Frame(n, next)
    BY <1>11 DEF handoffUnmount, Goto, zVars
  <2> QED
    BY <1>11, <2>1, <1>f DEF handoffUnmount, Unlisted, OnPool, HandoffStates, WaitStates
<1>12. ASSUME NEW n \in Nodes, handoffCheck(n)  PROVE Both
  <2>1. PICK next \in {"handoffSwitch", "handoffWait"} : Frame(n, next)
    BY <1>12 DEF handoffCheck, Goto, zVars
  <2> QED
    BY <1>12, <2>1, <1>f DEF handoffCheck, Unlisted, OnPool, HandoffStates, WaitStates
<1>13. ASSUME NEW n \in Nodes, handoffNews(n)  PROVE Both
  <2>1. PICK next \in {"handoffCheck"} : Frame(n, next)
    BY <1>13 DEF handoffNews, Goto, zVars
  <2> QED
    BY <1>13, <2>1, <1>f DEF handoffNews, Unlisted, OnPool, HandoffStates, WaitStates
<1>14. ASSUME NEW n \in Nodes, handoffSwitch(n)  PROVE Both
  <2>1. PICK next \in {"inactive"} : Frame(n, next)
    BY <1>14 DEF handoffSwitch, Goto, zVars
  <2> QED
    BY <1>14, <2>1, <1>f DEF handoffSwitch, Unlisted, OnPool, HandoffStates, WaitStates
<1>15. ASSUME NEW n \in Nodes, NEW i \in Offerable(n), unhandled(n, i)  PROVE Both
  <2>1. PICK next \in {"backoff", "receiving", "inactiveSub"} :
          Frame(n, next) /\ (next = "inactiveSub" => state[n] = "inactive")
    BY <1>15 DEF unhandled, Goto, Answer, AfterCheck, zVars
  <2> QED
    BY <1>15, <2>1, <1>f DEF unhandled, Unlisted, OnPool, HandoffStates, WaitStates
<1>16. ASSUME NEW n \in Nodes, NEW i \in Offerable(n), mount(n, i)  PROVE Both
  <2>1. PICK next \in {"active", "backoff"} : Frame(n, next)
    BY <1>16 DEF mount, Goto, zVars
  <2> QED
    BY <1>16, <2>1, <1>f DEF mount, Unlisted, OnPool, HandoffStates, WaitStates
<1>17. ASSUME NEW n \in Nodes, NEW i \in Offerable(n), unmount(n, i)  PROVE Both
  <2>1. PICK next \in {"unmounted", "backoff"} : Frame(n, next)
    BY <1>17 DEF unmount, Goto, zVars
  <2> QED
    BY <1>17, <2>1, <1>f DEF unmount, Unlisted, OnPool, HandoffStates, WaitStates
<1>18. ASSUME NEW n \in Nodes, NEW i \in Offerable(n), move(n, i)  PROVE Both
  <2>1. PICK next \in {"handoff", "backoff"} : Frame(n, next)
    BY <1>18 DEF move, Goto, zVars
  <2> QED
    BY <1>18, <2>1, <1>f DEF move, Unlisted, OnPool, HandoffStates, WaitStates
<1>19. ASSUME NEW n \in Nodes, updateMaster(n)  PROVE Both
  <2>1. CASE state[n] = "none"
    <3>1. Frame(n, "discovering")
      BY <1>19, <2>1 DEF updateMaster, zVars
    <3> QED
      BY <3>1, <1>f DEF Unlisted, OnPool, HandoffStates
  <2>2. CASE state[n] # "none"
    <3>1. state' = state
      BY <1>19, <2>2 DEF updateMaster, TypeOK
    <3> QED
      BY <1>19, <3>1, <1>0 DEF updateMaster, zVars
  <2> QED
    BY <2>1, <2>2
<1>20. ASSUME NEW n \in Nodes, Restart(n)  PROVE Both
  <2>1. state'[n] \in {"none", "discovering"}
    BY <1>20 DEF Restart, TypeOK
  <2>2. \A m \in Nodes \ {n} : state'[m] = state[m] /\ fsSnaps'[m] = fsSnaps[m]
    BY <1>20 DEF Restart, TypeOK
  <2>3. UNCHANGED <<zSnaps, zExists>>
    BY <1>20 DEF Restart, zVars
  <2>4. MemoryTracksPool'
    BY <2>1, <2>2, <2>3 DEF MemoryTracksPool
  <2>5. PoolExists'
    BY <2>1, <2>2, <2>3 DEF PoolExists, OnPool, HandoffStates
  <2> QED
    BY <2>4, <2>5 DEF Both
<1>21. ASSUME NEW n \in Nodes, discover(n)  PROVE Both
  <2>1. fsSnaps'[n] = zSnaps[n] /\ (state'[n] \in OnPool => zExists[n])
    BY <1>21 DEF discover, TypeOK, Goto, OnPool, HandoffStates
  <2>2. \A m \in Nodes \ {n} : state'[m] = state[m] /\ fsSnaps'[m] = fsSnaps[m]
    BY <1>21 DEF discover, Goto, TypeOK
  <2>3. UNCHANGED <<zSnaps, zExists>>
    BY <1>21 DEF discover, zVars
  <2>4. MemoryTracksPool'
    BY <2>1, <2>2, <2>3 DEF MemoryTracksPool
  <2>5. PoolExists'
    BY <2>1, <2>2, <2>3 DEF PoolExists
  <2> QED
    BY <2>4, <2>5 DEF Both
<1>22. ASSUME NEW n \in Nodes, recvSnapshot(n)  PROVE Both
  <2>1. zExists'[n] /\ state'[n] \in {"recv", "discovering"}
    BY <1>22 DEF recvSnapshot, TypeOK, Goto
  <2>2. \A m \in Nodes \ {n} : /\ state'[m] = state[m] /\ zSnaps'[m] = zSnaps[m]
                              /\ zExists'[m] = zExists[m]
    BY <1>22 DEF recvSnapshot, Goto, TypeOK
  <2>3. fsSnaps' = fsSnaps
    BY <1>22 DEF recvSnapshot
  <2>4. MemoryTracksPool'
    BY <2>1, <2>2, <2>3 DEF MemoryTracksPool
  <2>5. PoolExists'
    BY <2>1, <2>2, <2>3 DEF PoolExists
  <2> QED
    BY <2>4, <2>5 DEF Both
<1>23. ASSUME NEW n \in Nodes, NEW i \in Offerable(n), create(n, i)  PROVE Both
  <2>1. PICK created \in BOOLEAN, mounted \in BOOLEAN :
          /\ mounted => created
          /\ zExists' = [zExists EXCEPT ![n] = @ \/ created]
          /\ Goto(n, IF mounted THEN "active" ELSE "backoff")
    BY <1>23 DEF create
  <2>2. (mounted => zExists'[n]) /\ \A m \in Nodes : zExists[m] => zExists'[m]
    BY <2>1 DEF TypeOK
  <2>3. PICK next : next = IF mounted THEN "active" ELSE "backoff"
    OBVIOUS
  <2>4. state' = [state EXCEPT ![n] = next] /\ UNCHANGED <<fsSnaps, zSnaps>>
    BY <1>23, <2>1, <2>3 DEF create, Goto
  <2>5. state[n] \notin Unlisted /\ (next \in OnPool => zExists'[n])
    BY <1>23, <2>2, <2>3 DEF create, Unlisted, OnPool, HandoffStates
  <2> QED
    BY <2>2, <2>4, <2>5, PoolFrame DEF Both
<1>24. ASSUME NEW n \in Nodes, NEW i \in Offerable(n), commit(n, i)  PROVE Both
  <2>1. PICK done \in SnapshotOutcomes :
          snapshot(n, done) /\ Goto(n, IF done = "listed" THEN "active" ELSE "backoff")
    BY <1>24 DEF commit
  <2>2. zExists' = zExists /\ state[n] \in OnPool
    BY <1>24 DEF commit, OnPool
  <2> QED
    BY <2>1, <2>2, PoolSnapshot DEF Goto, Both
<1>25. ASSUME NEW n \in Nodes, handoffSnapshot(n)  PROVE Both
  <2>1. PICK done \in SnapshotOutcomes :
          snapshot(n, done) /\ Goto(n, IF done = "listed" THEN "handoffCheck" ELSE "backoff")
    BY <1>25 DEF handoffSnapshot
  <2>2. zExists' = zExists /\ state[n] \in OnPool
    BY <1>25 DEF handoffSnapshot, OnPool, HandoffStates
  <2> QED
    BY <2>1, <2>2, PoolSnapshot DEF Goto, Both
<1>26. ASSUME NEW n \in Nodes, NEW i \in Offerable(n), rollback(n, i)  PROVE Both
  <2> DEFINE to == requests[i.id].snap
  <2>1. PICK next \in {"active", "backoff"} : state' = [state EXCEPT ![n] = next]
    BY <1>26 DEF rollback, Goto
  <2>2. zExists' = zExists /\ state[n] = "active" /\ fsSnaps[n] = zSnaps[n] /\ zExists[n]
    BY <1>26 DEF rollback, MemoryTracksPool, PoolExists, OnPool
  <2>3. CASE UNCHANGED <<zSnaps, fsSnaps>>
    BY <2>1, <2>2, <2>3, <1>f DEF Unlisted, OnPool
  <2>4. CASE /\ IndexOf(zSnaps[n], to) # 0
             /\ zSnaps' = [zSnaps EXCEPT ![n] = SubSeq(@, 1, IndexOf(@, to))]
             /\ fsSnaps' = [fsSnaps EXCEPT ![n] = rollbackSlice(@, to)]
    <3>1. zSnaps'[n] = fsSnaps'[n]
      BY <2>2, <2>4 DEF rollbackSlice, TypeOK
    <3>2. \A m \in Nodes \ {n} :
            state'[m] = state[m] /\ zSnaps'[m] = zSnaps[m] /\ fsSnaps'[m] = fsSnaps[m]
      BY <2>1, <2>4 DEF TypeOK
    <3>3. MemoryTracksPool'
      BY <3>1, <3>2 DEF MemoryTracksPool
    <3>4. PoolExists'
      BY <2>2, <3>2 DEF PoolExists
    <3> QED
      BY <3>3, <3>4 DEF Both
  <2> QED
    BY <1>26, <2>3, <2>4 DEF rollback
<1>27. ASSUME NEW n \in Nodes, Docker(n)  PROVE Both
  BY <1>27, <1>0
  DEF Docker, procureLocal, procureRemote, procureResponse, procureTimeout, procureActive,
      containerWrites, containerStops, DockerOnly, globalFsRequest, zVars
<1>28. ASSUME Commit \/ Rollback  PROVE Both
  BY <1>28, <1>0 DEF Commit, Rollback, globalFsRequest, zVars
<1>29. CASE UNCHANGED vars
  BY <1>29, <1>0 DEF vars, zVars
<1> QED
  BY <1>1, <1>2, <1>3, <1>4, <1>5, <1>6, <1>7, <1>8, <1>9, <1>10, <1>11, <1>12, <1>13,
     <1>14, <1>15, <1>16, <1>17, <1>18, <1>19, <1>20, <1>21, <1>22, <1>23, <1>24, <1>25,
     <1>26, <1>27, <1>28, <1>29, <1>81, NodesAssumption
  DEF Next, Watcher, Machine
-----------------------------------------------------------------------------
(* What the parts of an action keep.                                       *)
LEMMA ListPlaces ==
  ASSUME TypeOK, NEW n \in Nodes
  PROVE  /\ PrefixOfList(zSnaps[n]) /\ PrefixOfList(fsSnaps[n]) /\ PrefixOfList(snapshots[n])
         /\ PrefixOfList(zSnaps[n] \o stream[n]) /\ PrefixOfList(<< >>)
         /\ \A m \in Nodes : PrefixOfList(globalSnapshotCache[n][m])
         /\ \A k \in DOMAIN watch[n] : PrefixOfList(watch[n][k].snaps)
<1>1. /\ zSnaps[n] \in Lists /\ fsSnaps[n] \in Lists /\ snapshots[n] \in Lists
      /\ zSnaps[n] \o stream[n] \in Lists
  BY ListsAre DEF IsList
<1>2. \A m \in Nodes : globalSnapshotCache[n][m] \in Lists
  BY ListsAre DEF IsList
<1>3. \A k \in DOMAIN watch[n] : watch[n][k].snaps \in Lists
  BY ListsAre DEF IsList
<1> QED
  BY <1>1, <1>2, <1>3, ListIsPrefix

(* A list cut by rollback or by an aborted receive is a prefix of it.      *)
LEMMA CutIsPrefix ==
  ASSUME TypeOK, NEW p \in Lists, NEW k \in 0 .. Len(p)
  PROVE  PrefixOfList(SubSeq(p, 1, k))
BY DEF PrefixOfList

(* Lists that do not change are kept.                                      *)
LEMMA KeptFrame ==
  ASSUME TypeOK
  PROVE  /\ UNCHANGED <<zSnaps, stream>> => PoolsKept
         /\ fsSnaps' = fsSnaps => MemoriesKept
         /\ snapshots' = snapshots => EtcdKept
         /\ globalSnapshotCache' = globalSnapshotCache => CachesKept
         /\ watch' = watch => EventsKept
BY ListPlaces DEF PoolsKept, MemoriesKept, EtcdKept, CachesKept, EventsKept

(* The watcher takes an event off its watch; the others stay.              *)
LEMMA ConsumeKept ==
  ASSUME TypeOK, NEW n \in Nodes, watch[n] # << >>, Consume(n)
  PROVE  EventsKept /\ PrefixOfList(Head(watch[n]).snaps)
<1>1. watch[n] \in Seq(Event) /\ Len(watch[n]) \in Nat \ {0}
  BY DEF TypeOK
<1>2. \A k \in DOMAIN Tail(watch[n]) :
        k + 1 \in DOMAIN watch[n] /\ Tail(watch[n])[k] = watch[n][k + 1]
  BY <1>1
<1>3. Head(watch[n]) = watch[n][1] /\ 1 \in DOMAIN watch[n]
  BY <1>1
<1>4. \A m \in Nodes : watch'[m] = IF m = n THEN Tail(watch[n]) ELSE watch[m]
  BY DEF Consume, TypeOK
<1>5. EventsKept
  <2> SUFFICES ASSUME NEW m \in Nodes, NEW k \in DOMAIN watch'[m]
               PROVE  PrefixOfList(watch'[m][k].snaps)
    BY DEF EventsKept
  <2>1. \E j \in DOMAIN watch[m] : watch'[m][k] = watch[m][j]
    BY <1>2, <1>4
  <2> QED
    BY <2>1, ListPlaces
<1> QED
  BY <1>3, <1>5, ListPlaces

(* An etcd Set with a known list is told to every watcher.                 *)
LEMMA BroadcastKept ==
  ASSUME TypeOK, NEW e \in Event, Broadcast(e), PrefixOfList(e.snaps)
  PROVE  EventsKept
<1>1. \A n \in Nodes : watch'[n] = Append(watch[n], e) /\ watch[n] \in Seq(Event)
  BY DEF Broadcast, TypeOK
<1>2. \A n \in Nodes : \A k \in DOMAIN watch'[n] :
        watch'[n][k] = e \/ (k \in DOMAIN watch[n] /\ watch'[n][k] = watch[n][k])
  BY <1>1
<1> QED
  BY <1>2, ListPlaces DEF EventsKept

(* globalFsRequest touches no list.                                        *)
LEMMA RequestKept ==
  ASSUME TypeOK, NEW op, NEW node, NEW snap, globalFsRequest(op, node, snap)
  PROVE  Kept
<1>1. RequestEvent(Len(requests) + 1) \in Event /\ RequestEvent(Len(requests) + 1).snaps = << >>
  <2>1. Len(requests) + 1 \in Nat
    BY DEF TypeOK
  <2> QED
    BY <2>1, EventType DEF RequestEvent, EtcdEvent
<1>2. PrefixOfList(<< >>)
  BY ListPlaces, NodesAssumption
<1>3. EventsKept
  BY <1>1, <1>2, BroadcastKept DEF globalFsRequest
<1> QED
  BY <1>3, KeptFrame DEF Kept, globalFsRequest, cacheVars, zVars

(* An element of a concatenation is an element of one of its parts.        *)
LEMMA ConcatElement ==
  ASSUME NEW A, NEW s \in Seq(A), NEW t \in Seq(A), NEW k \in 1 .. Len(s \o t)
  PROVE  \/ \E j \in 1 .. Len(s) : (s \o t)[k] = s[j]
         \/ \E j \in 1 .. Len(t) : (s \o t)[k] = t[j]
<1>1. CASE k =< Len(s)
  BY <1>1
<1>2. CASE k > Len(s)
  <2>1. k - Len(s) \in 1 .. Len(t) /\ (s \o t)[k] = t[k - Len(s)]
    BY <1>2
  <2> QED
    BY <2>1
<1> QED
  BY <1>1, <1>2

(* The recursive Get of a (re)connected node returns etcd's lists.         *)
LEMMA FetchedKept ==
  ASSUME TypeOK, NEW n \in Nodes, watch' = [watch EXCEPT ![n] = Fetched]
  PROVE  EventsKept
<1> DEFINE M == <<MasterEvent(masters)>>
           R == [id \in 1 .. Len(requests) |-> RequestEvent(id)]
           S == [i \in 1 .. Len(NodeOrder) |-> SnapshotsEvent(NodeOrder[i], snapshots[NodeOrder[i]])]
<1>1. M \in Seq(Event) /\ \A k \in 1 .. Len(M) : M[k].snaps = << >>
  <2>1. MasterEvent(masters) \in Event
    BY EventType DEF TypeOK
  <2> QED
    BY <2>1 DEF MasterEvent, EtcdEvent
<1>2. R \in Seq(Event) /\ \A k \in 1 .. Len(R) : R[k].snaps = << >>
  <2>1. Len(requests) \in Nat /\ \A id \in 1 .. Len(requests) : RequestEvent(id) \in Event
    BY EventType DEF TypeOK
  <2> QED
    BY <2>1 DEF RequestEvent, EtcdEvent
<1>3. S \in Seq(Event) /\ \A k \in 1 .. Len(S) : \E m \in Nodes : S[k].snaps = snapshots[m]
  <2>1. Len(NodeOrder) \in Nat /\ \A i \in 1 .. Len(NodeOrder) : NodeOrder[i] \in Nodes
    BY NodesAssumption
  <2>2. \A m \in Nodes : SnapshotsEvent(m, snapshots[m]) \in Event
    BY EventType DEF TypeOK
  <2>3. \A i \in 1 .. Len(NodeOrder) :
          /\ SnapshotsEvent(NodeOrder[i], snapshots[NodeOrder[i]]) \in Event
          /\ SnapshotsEvent(NodeOrder[i], snapshots[NodeOrder[i]]).snaps = snapshots[NodeOrder[i]]
    BY <2>1, <2>2 DEF SnapshotsEvent, EtcdEvent
  <2> QED
    BY <2>1, <2>3
<1>4. Fetched = M \o R \o S
  BY DEF Fetched
<1> HIDE DEF M, R, S
<1>5. M \o R \in Seq(Event) /\ \A k \in 1 .. Len(M \o R) : (M \o R)[k].snaps = << >>
  <2>1. \A k \in 1 .. Len(M \o R) :
          \/ \E j \in 1 .. Len(M) : (M \o R)[k] = M[j]
          \/ \E j \in 1 .. Len(R) : (M \o R)[k] = R[j]
    <3>1. M \in Seq(Event) /\ R \in Seq(Event)
      BY <1>1, <1>2
    <3> QED
      BY <3>1, ConcatElement
  <2> QED
    BY <1>1, <1>2, <2>1, ConcatProperties
<1>6. \A k \in DOMAIN Fetched :
        Fetched[k].snaps = << >> \/ \E m \in Nodes : Fetched[k].snaps = snapshots[m]
  <2> DEFINE Q == M \o R
  <2>1. Q \in Seq(Event) /\ Fetched = Q \o S
    BY <1>4, <1>5
  <2>2. \A k \in 1 .. Len(Q) : Q[k].snaps = << >>
    BY <1>5
  <2> HIDE DEF Q
  <2>3. \A k \in 1 .. Len(Q \o S) :
          \/ \E j \in 1 .. Len(Q) : (Q \o S)[k] = Q[j]
          \/ \E j \in 1 .. Len(S) : (Q \o S)[k] = S[j]
    BY <1>3, <2>1, ConcatElement
  <2>4. DOMAIN Fetched = 1 .. Len(Q \o S)
    BY <1>3, <2>1, ConcatProperties
  <2> QED
    BY <1>3, <2>1, <2>2, <2>3, <2>4
<1>7. \A m \in Nodes : watch'[m] = IF m = n THEN Fetched ELSE watch[m]
  BY DEF TypeOK
<1> QED
  BY <1>6, <1>7, ListPlaces DEF EventsKept
-----------------------------------------------------------------------------
(* Each snapshot that arrives moves from the stream to the pool.           *)
LEMMA ArrivalCompletes ==
  ASSUME NEW z \in Seq(Nat), NEW s \in Seq(Nat), s # << >>
  PROVE  /\ Append(z, Head(s)) = SubSeq(z \o s, 1, Len(z) + 1)
         /\ Append(z, Head(s)) \o Tail(s) = z \o s
         /\ Len(z) + 1 \in 0 .. Len(z \o s)
<1>1. s \in Seq(Nat) /\ Len(s) \in Nat \ {0} /\ Tail(s) \in Seq(Nat) /\ Len(Tail(s)) = Len(s) - 1
  OBVIOUS
<1>2. Head(s) = s[1] /\ \A k \in 1 .. Len(s) - 1 : Tail(s)[k] = s[k + 1]
  OBVIOUS
<1>3. Len(Append(z, Head(s)) \o Tail(s)) = Len(z \o s)
  BY <1>1, <1>2
<1>4. \A k \in 1 .. Len(z) + Len(s) : (Append(z, Head(s)) \o Tail(s))[k] = (z \o s)[k]
  BY <1>1, <1>2
<1>5. Append(z, Head(s)) \o Tail(s) \in Seq(Nat) /\ z \o s \in Seq(Nat)
  BY <1>1
<1>6. Append(z, Head(s)) \o Tail(s) = z \o s
  <2> DEFINE u == Append(z, Head(s)) \o Tail(s)
             v == z \o s
  <2>1. u \in Seq(Nat) /\ v \in Seq(Nat) /\ Len(u) = Len(v) /\ Len(v) = Len(z) + Len(s)
    BY <1>3, <1>5
  <2>2. \A k \in 1 .. Len(v) : u[k] = v[k]
    BY <1>4, <2>1
  <2> HIDE DEF u, v
  <2>3. u = v
    BY <2>1, <2>2, SeqEqual
  <2> QED
    BY <2>3 DEF u, v
<1>7. Append(z, Head(s)) = SubSeq(z \o s, 1, Len(z) + 1)
  BY <1>1, <1>2
<1> QED
  BY <1>1, <1>6, <1>7
-----------------------------------------------------------------------------
(* Every action but `zfs snapshot` keeps the lists.                        *)
LEMMA QuietKept ==
  ASSUME TypeOK, UNCHANGED <<zSnaps, stream, fsSnaps, snapshots, globalSnapshotCache, watch>>
  PROVE  Kept
BY KeptFrame DEF Kept

(* Processing an etcd event copies its list to a cache.                    *)
LEMMA WatcherKept ==
  ASSUME TypeOK, NEW n \in Nodes, Watcher(n)
  PROVE  Kept
<1>1. watch[n] # << >> /\ Consume(n)
  BY DEF Watcher, updateMaster, maybeDispatchEvent, updateSnapshots, NextEvent
<1>2. EventsKept /\ PrefixOfList(Head(watch[n]).snaps)
  BY <1>1, ConsumeKept
<1>3. UNCHANGED <<zSnaps, stream, fsSnaps, snapshots>>
  BY DEF Watcher, updateMaster, maybeDispatchEvent, updateSnapshots, etcdVars, zVars
<1>4. CachesKept
  <2>1. CASE updateSnapshots(n)
    <3>1. PICK server : globalSnapshotCache' =
                          [globalSnapshotCache EXCEPT ![n][server] = Head(watch[n]).snaps]
      BY <2>1 DEF updateSnapshots
    <3>2. \A m \in Nodes, k \in Nodes :
            \/ globalSnapshotCache'[m][k] = globalSnapshotCache[m][k]
            \/ globalSnapshotCache'[m][k] = Head(watch[n]).snaps
      BY <3>1 DEF TypeOK
    <3> QED
      BY <1>2, <3>2, ListPlaces DEF CachesKept
  <2>2. CASE updateMaster(n) \/ maybeDispatchEvent(n)
    BY <2>2, KeptFrame DEF updateMaster, maybeDispatchEvent, cacheVars
  <2> QED
    BY <2>1, <2>2 DEF Watcher
<1> QED
  BY <1>2, <1>3, <1>4, KeptFrame DEF Kept

(* A reconnect re-reads etcd.                                              *)
LEMMA ReconnectKept ==
  ASSUME TypeOK, NEW n \in Nodes, Reconnect(n)
  PROVE  Kept
BY FetchedKept, KeptFrame DEF Kept, Reconnect, etcdVars, cacheVars, zVars

(* The lists of a machine whose stream is closed are what is on its pool.  *)
LEMMA ClosedStream ==
  ASSUME TypeOK, NEW n \in Nodes, NEW z \in Snaps, zSnaps' = [zSnaps EXCEPT ![n] = z],
         stream' = [stream EXCEPT ![n] = << >>], PrefixOfList(z)
  PROVE  PoolsKept
<1>1. zSnaps'[n] = z /\ stream'[n] = << >>
  BY DEF TypeOK
<1>2. zSnaps'[n] \o stream'[n] = z
  BY <1>1, ConcatEmptySeq DEF Snaps
<1>3. \A m \in Nodes \ {n} : zSnaps'[m] = zSnaps[m] /\ stream'[m] = stream[m]
  BY DEF TypeOK
<1> QED
  BY <1>1, <1>2, <1>3, ListPlaces DEF PoolsKept

(* A restart forgets the lists in memory and re-reads etcd's.              *)
LEMMA RestartKept ==
  ASSUME TypeOK, NEW n \in Nodes, Restart(n)
  PROVE  Kept
<1>1. EventsKept
  BY FetchedKept DEF Restart
<1>2. PoolsKept
  <2>1. zSnaps' = [zSnaps EXCEPT ![n] = zSnaps[n]] /\ zSnaps[n] \in Snaps
    BY DEF Restart, zVars, TypeOK
  <2> QED
    BY <2>1, ClosedStream, ListPlaces DEF Restart
<1>3. MemoriesKept
  <2>1. \A m \in Nodes : fsSnaps'[m] = fsSnaps[m] \/ fsSnaps'[m] = << >>
    BY DEF Restart, TypeOK
  <2> QED
    BY <2>1, ListPlaces DEF MemoriesKept
<1>4. CachesKept
  <2>1. \A m \in Nodes, k \in Nodes :
          \/ globalSnapshotCache'[m][k] = globalSnapshotCache[m][k]
          \/ globalSnapshotCache'[m][k] = << >>
    BY DEF Restart, TypeOK
  <2> QED
    BY <2>1, ListPlaces DEF CachesKept
<1> QED
  BY <1>1, <1>2, <1>3, <1>4, KeptFrame DEF Kept, Restart, etcdVars

(* updateEtcdAboutSnapshots copies the list in memory to etcd.             *)
LEMMA UpdaterKept ==
  ASSUME TypeOK, NEW n \in Nodes, updateEtcdAboutSnapshots(n)
  PROVE  Kept
<1> USE DEF updateEtcdAboutSnapshots
<1>1. CASE UNCHANGED <<snapshots, watch>>
  BY <1>1, QuietKept DEF cacheVars, zVars
<1>2. CASE /\ snapshots' = [snapshots EXCEPT ![n] = fsSnaps[n]]
           /\ Broadcast(SnapshotsEvent(n, fsSnaps[n]))
  <2>1. SnapshotsEvent(n, fsSnaps[n]) \in Event
    BY EventType DEF TypeOK
  <2>2. SnapshotsEvent(n, fsSnaps[n]).snaps = fsSnaps[n]
    BY DEF SnapshotsEvent, EtcdEvent
  <2>3. EventsKept
    BY <1>2, <2>1, <2>2, BroadcastKept, ListPlaces
  <2>4. \A m \in Nodes : snapshots'[m] = snapshots[m] \/ snapshots'[m] = fsSnaps[n]
    BY <1>2 DEF TypeOK
  <2>5. EtcdKept
    BY <2>4, ListPlaces DEF EtcdKept
  <2> QED
    BY <2>3, <2>5, KeptFrame DEF Kept, cacheVars, zVars
<1> QED
  BY <1>1, <1>2

(* discover copies the list of the pool to memory and to a cache.          *)
LEMMA DiscoverKept ==
  ASSUME TypeOK, NEW n \in Nodes, discover(n)
  PROVE  Kept
<1>1. \A m \in Nodes : fsSnaps'[m] = fsSnaps[m] \/ fsSnaps'[m] = zSnaps[n]
  BY DEF discover, TypeOK
<1>2. \A m \in Nodes, k \in Nodes :
        \/ globalSnapshotCache'[m][k] = globalSnapshotCache[m][k]
        \/ globalSnapshotCache'[m][k] = zSnaps[n]
  BY DEF discover, TypeOK
<1>3. MemoriesKept /\ CachesKept
  BY <1>1, <1>2, ListPlaces DEF MemoriesKept, CachesKept
<1> QED
  BY <1>3, KeptFrame DEF Kept, discover, etcdVars, zVars
(* receivingState opens a stream that completes the pool.                  *)
LEMMA ReceivingKept ==
  ASSUME LineageInv, NEW n \in Nodes, receiving(n)
  PROVE  Kept
<1> USE LineageInv DEF LineageInv, TypeInv
<1>1. UNCHANGED <<zSnaps, fsSnaps, snapshots, globalSnapshotCache, watch>>
  BY DEF receiving, etcdVars, cacheVars, zVars
<1>2. CASE stream' = stream
  BY <1>1, <1>2, QuietKept
<1>3. CASE stream' # stream
  <2> DEFINE r == plausibleSnapRange(n)
             m == mastersCache[n]
             S == SendStream(zSnaps[m], r.fromSnap, r.toSnap)
             b == IndexOf(zSnaps[m], r.toSnap)
  <2>1. m \in Nodes /\ Serves(m, r) /\ Accepts(n, r) /\ stream' = [stream EXCEPT ![n] = S]
    BY <1>3, ReceivingCases
  <2>2. zSnaps[n] \in Seq(Nat) /\ zSnaps[m] \in Seq(Nat) /\ CanSend(zSnaps[m], r.fromSnap, r.toSnap)
    BY <2>1 DEF TypeOK, Snaps, Serves
  <2>3. zSnaps[m] \in Lists /\ zSnaps[n] \in Lists
    BY <2>1, ListsAre DEF IsList
  <2>4. Agree(zSnaps[n], zSnaps[m])
    BY <2>3 DEF LineageAgreement
  <2>5. IF r.fromSnap = NilSnap THEN zSnaps[n] = << >>
        ELSE zSnaps[n] # << >> /\ Last(zSnaps[n]) = r.fromSnap
    BY <2>1 DEF Accepts, PoolExists
  <2>6. zSnaps[n] \o S = SubSeq(zSnaps[m], 1, b) /\ b \in 0 .. Len(zSnaps[m])
    <3> HIDE DEF r, m
    <3> QED
      BY <2>2, <2>4, <2>5, StreamCompletes
  <2>7. PrefixOfList(zSnaps[n] \o S)
    BY <2>3, <2>6, CutIsPrefix
  <2>8. \A k \in Nodes : stream'[k] = IF k = n THEN S ELSE stream[k]
    BY <2>1 DEF TypeOK
  <2> HIDE DEF S
  <2>9. PoolsKept
    BY <1>1, <2>7, <2>8, ListPlaces DEF PoolsKept
  <2> QED
    BY <1>1, <2>9, KeptFrame DEF Kept
<1> QED
  BY <1>2, <1>3

(* `zfs recv` moves a snapshot from the stream to the pool.                *)
LEMMA RecvSnapshotKept ==
  ASSUME TypeInv, NEW n \in Nodes, recvSnapshot(n)
  PROVE  Kept
<1> USE TypeInv DEF TypeInv
<1>1. zSnaps[n] \in Seq(Nat) /\ stream[n] \in Seq(Nat) /\ stream[n] # << >>
  BY DEF TypeOK, Snaps, StreamIsOpen, recvSnapshot
<1> DEFINE whole == zSnaps[n] \o stream[n]
<1>2. /\ zSnaps'[n] = Append(zSnaps[n], Head(stream[n])) /\ stream'[n] = Tail(stream[n])
      /\ \A m \in Nodes \ {n} : zSnaps'[m] = zSnaps[m] /\ stream'[m] = stream[m]
  BY DEF recvSnapshot, TypeOK
<1>3. /\ zSnaps'[n] = SubSeq(whole, 1, Len(zSnaps[n]) + 1)
      /\ zSnaps'[n] \o stream'[n] = whole
      /\ Len(zSnaps[n]) + 1 \in 0 .. Len(whole)
  <2>1. /\ Append(zSnaps[n], Head(stream[n])) = SubSeq(whole, 1, Len(zSnaps[n]) + 1)
        /\ Append(zSnaps[n], Head(stream[n])) \o Tail(stream[n]) = whole
        /\ Len(zSnaps[n]) + 1 \in 0 .. Len(whole)
    BY <1>1, ArrivalCompletes
  <2> HIDE DEF whole
  <2> QED
    BY <1>2, <2>1
<1>4. whole \in Lists
  BY ListsAre DEF IsList
<1> HIDE DEF whole
<1>5. PrefixOfList(zSnaps'[n]) /\ PrefixOfList(zSnaps'[n] \o stream'[n])
  BY <1>3, <1>4, CutIsPrefix, ListIsPrefix
<1>6. PoolsKept
  BY <1>2, <1>5, ListPlaces DEF PoolsKept
<1> QED
  BY <1>6, KeptFrame DEF Kept, recvSnapshot, etcdVars, cacheVars

(* An aborted receive leaves what has arrived.                             *)
LEMMA RecvAbortedKept ==
  ASSUME TypeOK, NEW n \in Nodes, recvAborted(n)
  PROVE  Kept
<1>1. zSnaps' = [zSnaps EXCEPT ![n] = zSnaps[n]] /\ zSnaps[n] \in Snaps
  BY DEF recvAborted, zVars, TypeOK
<1>2. PoolsKept
  BY <1>1, ClosedStream, ListPlaces DEF recvAborted
<1> QED
  BY <1>2, KeptFrame DEF Kept, recvAborted, etcdVars, cacheVars

(* A rollback cuts the list of the pool and the list in memory.            *)
LEMMA RollbackKept ==
  ASSUME TypeInv, NEW n \in Nodes, NEW i \in Offerable(n), rollback(n, i)
  PROVE  Kept
<1> USE TypeInv DEF TypeInv
<1> DEFINE to == requests[i.id].snap
<1>1. UNCHANGED <<stream, snapshots, globalSnapshotCache, watch>>
  BY DEF rollback, etcdVars, cacheVars
<1>2. CASE UNCHANGED <<zSnaps, fsSnaps>>
  BY <1>1, <1>2, QuietKept
<1>3. CASE /\ zSnaps' = [zSnaps EXCEPT ![n] = SubSeq(@, 1, IndexOf(@, to))]
           /\ fsSnaps' = [fsSnaps EXCEPT ![n] = rollbackSlice(@, to)]
  <2>1. zSnaps[n] \in Seq(Nat) /\ fsSnaps[n] \in Seq(Nat)
    BY DEF TypeOK, Snaps
  <2>2. IndexOf(zSnaps[n], to) \in 0 .. Len(zSnaps[n]) /\ IndexOf(fsSnaps[n], to) \in 0 .. Len(fsSnaps[n])
    BY <2>1, IndexOfProperties
  <2>3. zSnaps[n] \in Lists /\ fsSnaps[n] \in Lists
    BY ListsAre DEF IsList
  <2> HIDE DEF to
  <2>4. PrefixOfList(SubSeq(zSnaps[n], 1, IndexOf(zSnaps[n], to)))
    BY <2>2, <2>3, CutIsPrefix
  <2>5. PrefixOfList(rollbackSlice(fsSnaps[n], to))
    BY <2>2, <2>3, CutIsPrefix, ListIsPrefix DEF rollbackSlice
  <2>6. stream' = [stream EXCEPT ![n] = << >>]
    BY <1>1 DEF rollback, StreamIsOpen, TypeOK
  <2>7. PoolsKept
    BY <1>3, <2>1, <2>4, <2>6, ClosedStream, SliceType DEF Snaps
  <2>8. \A m \in Nodes : fsSnaps'[m] = IF m = n THEN rollbackSlice(fsSnaps[n], to) ELSE fsSnaps[m]
    BY <1>3 DEF TypeOK
  <2>9. MemoriesKept
    BY <2>5, <2>8, ListPlaces DEF MemoriesKept
  <2> QED
    BY <1>1, <2>7, <2>9, KeptFrame DEF Kept
<1> QED
  BY <1>2, <1>3 DEF rollback
-----------------------------------------------------------------------------
(* `zfs snapshot` extends the pool, and the memory that tracks it, by an   *)
(* id that no list has.                                                    *)
LEMMA SnapshotAgrees ==
  ASSUME LineageInv, NEW n \in Nodes, NEW done \in SnapshotOutcomes, snapshot(n, done),
         state[n] \in {"active", "handoffSnap"},
         UNCHANGED <<stream, snapshots, globalSnapshotCache, watch>>
  PROVE  LineageAgreement' /\ Fresh'
<1> USE LineageInv DEF LineageInv, TypeInv
<1>1. CASE done = "nothing"
  <2>1. UNCHANGED <<zSnaps, fsSnaps, nextSnap>>
    BY <1>1 DEF snapshot
  <2> QED
    BY <2>1, QuietKept, KeptAgree
<1>2. CASE done # "nothing"
  <2> DEFINE old == zSnaps[n]
             new == Append(zSnaps[n], nextSnap)
  <2>1. old \in Seq(Nat) /\ new \in Seq(Nat) /\ fsSnaps[n] = old /\ old \in Lists /\ nextSnap \in Nat
    <3>1. old \in Seq(Nat) /\ nextSnap \in Nat
      BY DEF TypeOK, Snaps
    <3>2. fsSnaps[n] = old
      BY DEF MemoryTracksPool
    <3>3. old \in Lists
      BY ListsAre DEF IsList
    <3> QED
      BY <3>1, <3>2, <3>3
  <2>2. /\ zSnaps'[n] = new /\ zSnaps'[n] \o stream'[n] = new /\ nextSnap' = nextSnap + 1
        /\ \A m \in Nodes \ {n} : zSnaps'[m] = zSnaps[m] /\ stream'[m] = stream[m]
    <3>1. zSnaps' = [zSnaps EXCEPT ![n] = Append(@, nextSnap)] /\ nextSnap' = nextSnap + 1
      BY <1>2 DEF snapshot
    <3>2. stream'[n] = << >>
      BY DEF StreamIsOpen
    <3>3. zSnaps'[n] = new /\ \A m \in Nodes \ {n} : zSnaps'[m] = zSnaps[m]
      BY <3>1 DEF TypeOK
    <3>4. new \o << >> = new
      BY <2>1, ConcatEmptySeq
    <3> QED
      BY <3>1, <3>2, <3>3, <3>4
  <2>3. \A m \in Nodes : fsSnaps'[m] = fsSnaps[m] \/ fsSnaps'[m] = new
    <3>1. fsSnaps' = fsSnaps \/ fsSnaps' = [fsSnaps EXCEPT ![n] = Append(@, nextSnap)]
      BY DEF snapshot
    <3>2. \A m \in Nodes : fsSnaps'[m] = fsSnaps[m] \/ (m = n /\ fsSnaps'[m] = Append(fsSnaps[n], nextSnap))
      BY <3>1 DEF TypeOK
    <3> QED
      BY <2>1, <3>2
  <2> HIDE DEF new
  <2>4. \A p : (p \in Lists)' => p \in Lists \/ p = new
    <3> SUFFICES ASSUME NEW p, IsList(p)' PROVE IsList(p) \/ p = new
      BY ListsAre, ListsAreNext
    <3> QED
      BY <2>2, <2>3 DEF IsList
  <2>5. \A p \in Lists : p \in Seq(Nat) /\ \A k \in 1 .. Len(p) : p[k] \in Nat /\ p[k] < nextSnap
    BY ListsType DEF Fresh
  <2>6. \A p \in Lists : Agree(new, p) /\ Agree(p, new)
    <3> SUFFICES ASSUME NEW p \in Lists PROVE Agree(new, p) /\ Agree(p, new)
      OBVIOUS
    <3>1. Agree(old, p)
      BY <2>1 DEF LineageAgreement
    <3>2. p \in Seq(Nat) /\ \A k \in 1 .. Len(p) : p[k] # nextSnap
      <4>1. nextSnap \in Nat
        BY <2>1
      <4>2. p \in Seq(Nat) /\ \A k \in 1 .. Len(p) : p[k] \in Nat /\ p[k] < nextSnap
        BY <2>5
      <4> QED
        BY <4>1, <4>2
    <3>3. Agree(new, p)
      BY <2>1, <3>1, <3>2, AgreeAppend DEF new
    <3> QED
      BY <2>1, <3>2, <3>3, AgreeSymmetric
  <2>7. Agree(new, new)
    <3>1. Agree(old, old)
      BY <2>1 DEF LineageAgreement
    <3>2. \A k \in 1 .. Len(old) : old[k] # nextSnap
      BY <2>1, <2>5
    <3> QED
      BY <2>1, <3>1, <3>2, AgreeAppendBoth DEF new
  <2>8. LineageAgreement'
    BY <2>4, <2>6, <2>7 DEF LineageAgreement
  <2>9. Fresh'
    <3>1. \A k \in 1 .. Len(new) : new[k] < nextSnap + 1
      BY <2>1, <2>5 DEF new
    <3>2. \A p \in Lists : \A k \in 1 .. Len(p) : p[k] < nextSnap + 1
      BY <2>1, <2>5
    <3> QED
      BY <2>2, <2>4, <3>1, <3>2 DEF Fresh
  <2> QED
    BY <2>8, <2>9
<1> QED
  BY <1>1, <1>2

-----------------------------------------------------------------------------
(* At first every list is empty.                                           *)
LEMMA LineageInit == Init => LineageInv
<1> SUFFICES ASSUME Init PROVE LineageInv
  OBVIOUS
<1>1. TypeInv
  BY TypeInit
<1>2. \A p \in Lists : p = << >>
  <2> SUFFICES ASSUME NEW p, IsList(p) PROVE p = << >>
    BY ListsAre
  <2>1. \A n \in Nodes : \A k \in DOMAIN watch[n] : watch[n][k].snaps = << >>
    BY DEF Init, MasterEvent, EtcdEvent
  <2> QED
    BY <2>1 DEF IsList, Init
<1>3. LineageAgreement /\ Fresh
  BY <1>2 DEF LineageAgreement, Fresh, Agree
<1>4. MemoryTracksPool /\ PoolExists
  BY DEF Init, MemoryTracksPool, PoolExists, OnPool, HandoffStates
<1> QED
  BY <1>1, <1>3, <1>4 DEF LineageInv

(* Agreement and freshness after every step, one action at a time.         *)
LEMMA AgreeNext == LineageInv /\ [Next]_vars => LineageAgreement' /\ Fresh'
<1> DEFINE Both == LineageAgreement' /\ Fresh'
<1> SUFFICES ASSUME LineageInv, [Next]_vars PROVE Both
  OBVIOUS
<1> USE LineageInv DEF LineageInv, TypeInv
<1>k. ASSUME Kept, nextSnap' = nextSnap  PROVE Both
  BY <1>k, KeptAgree
<1>s. ASSUME NEW n \in Nodes, NEW done \in SnapshotOutcomes, snapshot(n, done),
             state[n] \in {"active", "handoffSnap"},
             UNCHANGED <<stream, snapshots, globalSnapshotCache, watch>>
      PROVE  Both
  BY <1>s, SnapshotAgrees
<1> HIDE DEF Both
<1>q. ASSUME UNCHANGED <<zSnaps, stream, fsSnaps, snapshots, globalSnapshotCache, watch, nextSnap>>
      PROVE  Both
  BY <1>q, <1>k, QuietKept
<1> USE DEF etcdVars, cacheVars, zVars, boundVars
<1>1. ASSUME NEW n \in Nodes, Watcher(n)  PROVE Both
  <2>1. nextSnap' = nextSnap
    BY <1>1 DEF Watcher, updateMaster, maybeDispatchEvent, updateSnapshots
  <2> QED
    BY <1>1, <2>1, <1>k, WatcherKept
<1>2. ASSUME NEW n \in Nodes, Reconnect(n)  PROVE Both
  BY <1>2, <1>k, ReconnectKept DEF Reconnect
<1>3. ASSUME NEW n \in Nodes, Restart(n)  PROVE Both
  BY <1>3, <1>k, RestartKept DEF Restart
<1>4. ASSUME NEW n \in Nodes, updateEtcdAboutSnapshots(n)  PROVE Both
  BY <1>4, <1>k, UpdaterKept DEF updateEtcdAboutSnapshots
<1>5. ASSUME NEW n \in Nodes, setResponse(n)  PROVE Both
  BY <1>5, <1>q DEF setResponse
<1>6. ASSUME NEW n \in Nodes, discover(n)  PROVE Both
  BY <1>6, <1>k, DiscoverKept DEF discover
<1>7. ASSUME NEW n \in Nodes,
             checkMaster(n) \/ subscribe(n) \/ newSnapsOnMaster(n) \/ leaveActive(n)
      PROVE  Both
  BY <1>7, <1>q DEF checkMaster, subscribe, newSnapsOnMaster, leaveActive
<1>8. ASSUME NEW n \in Nodes, receiving(n)  PROVE Both
  BY <1>8, <1>k, ReceivingKept DEF receiving
<1>9. ASSUME NEW n \in Nodes, recvSnapshot(n)  PROVE Both
  BY <1>9, <1>k, RecvSnapshotKept DEF recvSnapshot
<1>10. ASSUME NEW n \in Nodes, recvAborted(n)  PROVE Both
  BY <1>10, <1>k, RecvAbortedKept DEF recvAborted
<1>11. ASSUME NEW n \in Nodes, handoffUnmount(n) \/ handoffCheck(n) \/ handoffNews(n)  PROVE Both
  BY <1>11, <1>q DEF handoffUnmount, handoffCheck, handoffNews
<1>12. ASSUME NEW n \in Nodes, handoffSnapshot(n)  PROVE Both
  BY <1>12, <1>s DEF handoffSnapshot
<1>13. ASSUME NEW n \in Nodes, handoffSwitch(n)  PROVE Both
  <2>1. UNCHANGED <<zSnaps, stream, fsSnaps, snapshots, globalSnapshotCache, nextSnap>>
    BY <1>13 DEF handoffSwitch
  <2>2. EventsKept
    <3>1. CASE watch' = watch
      BY <3>1, KeptFrame
    <3>2. CASE Broadcast(MasterEvent(target(n)))
      <4>1. target(n) \in Nodes
        BY <1>13, HandoffItemType DEF handoffSwitch, HandoffStates
      <4>2. MasterEvent(target(n)) \in Event /\ MasterEvent(target(n)).snaps = << >>
        BY <4>1, EventType DEF MasterEvent, EtcdEvent
      <4> QED
        BY <3>2, <4>2, BroadcastKept, ListPlaces
    <3> QED
      BY <1>13, <3>1, <3>2 DEF handoffSwitch
  <2> QED
    BY <2>1, <2>2, <1>k, KeptFrame DEF Kept
<1>14. ASSUME NEW n \in Nodes, NEW i \in Offerable(n),
              unhandled(n, i) \/ create(n, i) \/ mount(n, i) \/ unmount(n, i) \/ move(n, i)
       PROVE  Both
  BY <1>14, <1>q DEF unhandled, Answer, create, mount, unmount, move
<1>15. ASSUME NEW n \in Nodes, NEW i \in Offerable(n), commit(n, i)  PROVE Both
  BY <1>15, <1>s DEF commit
<1>16. ASSUME NEW n \in Nodes, NEW i \in Offerable(n), rollback(n, i)  PROVE Both
  BY <1>16, <1>k, RollbackKept DEF rollback
<1>17. ASSUME NEW op, NEW node, NEW snap, globalFsRequest(op, node, snap)  PROVE Both
  BY <1>17, <1>k, RequestKept DEF globalFsRequest
<1>18. ASSUME NEW n \in Nodes, Docker(n)  PROVE Both
  <2>1. CASE procureRemote(n)
    BY <2>1, <1>17 DEF procureRemote
  <2>2. CASE ~ procureRemote(n)
    BY <1>18, <2>2, <1>q
    DEF Docker, procureLocal, procureResponse, procureTimeout, procureActive, containerWrites,
        containerStops, DockerOnly
  <2> QED
    BY <2>1, <2>2
<1>19. ASSUME Commit \/ Rollback  PROVE Both
  BY <1>19, <1>17 DEF Commit, Rollback
<1>20. CASE UNCHANGED vars
  BY <1>20, <1>q DEF vars
<1> QED
  BY <1>1, <1>2, <1>3, <1>4, <1>5, <1>6, <1>7, <1>8, <1>9, <1>10, <1>11, <1>12, <1>13, <1>14,
     <1>15, <1>16, <1>18, <1>19, <1>20, NodesAssumption DEF Next, Machine

(* The inductive invariant.                                                *)
LEMMA LineageInvariant == Spec => []LineageInv
<1>1. LineageInv /\ [Next]_vars => LineageInv'
  BY TypeOKNext, KnownNext, PoolNext, AgreeNext DEF LineageInv, TypeInv
<1> QED
  BY LineageInit, <1>1, PTL DEF Spec

(* Every snapshot has one history in the whole cluster: the lists on the   *)
(* pools, in memory, in etcd, in the caches and in undelivered events all  *)
(* agree, whatever activeState, receivingState and handoffState do.        *)
THEOREM LineagesAgree == Spec => []LineageAgreement
<1>1. LineageInv => LineageAgreement
  BY DEF LineageInv
<1> QED
  BY LineageInvariant, <1>1, PTL

(* f.filesystem.snapshots is what the pool has in every state function     *)
(* that reads it, whichever commands of snapshot, rollback and receive     *)
(* failed or were interrupted before.                                      *)
THEOREM MemoryIsPool == Spec => []MemoryTracksPool
<1>1. LineageInv => MemoryTracksPool
  BY DEF LineageInv
<1> QED
  BY LineageInvariant, <1>1, PTL
=============================================================================
