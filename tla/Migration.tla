------------------------------ MODULE Migration ------------------------------
(***************************************************************************)
(* One filesystem of a dotmesh cluster: the per-node state machine that    *)
(* mounts, snapshots, rolls back, replicates and hands it off, the etcd    *)
(* keys through which the nodes coordinate, and the Docker-driven          *)
(* "procure" that asks for the filesystem to be moved.                     *)
(*                                                                         *)
(* Modelled from statemachines.go (run, the state functions),              *)
(* etcd.go (fetchAndWatchEtcd and what it calls), controller.go            *)
(* (reallyProcureFilesystem), replication.go (ZFSSender) and zfs.go.       *)
(* Creation, cloning, deletion and inter-cluster transfer are not here:    *)
(* Init is the state in which CreateFilesystem returns on node Home.       *)
(***************************************************************************)
EXTENDS SnapshotLogic

CONSTANTS
  Nodes,          \* server ids (the ids of their ZFS pools)
  NodeOrder,      \* the order in which a recursive etcd Get lists the servers
  NoNode,         \* "" : no known master
  Home,           \* the node CreateFilesystem ran on
  Procurers,      \* nodes whose Docker daemon may ask for the volume
  Commits,        \* BOOLEAN: users call the Commit RPC
  Rollbacks,      \* BOOLEAN: users call the Rollback RPC
  MaxReqs,        \* bound: requests ever put in etcd
  MaxFaults,      \* bound: failing commands and lost connections
  MaxRestarts     \* bound: server restarts and etcd reconnects

ASSUME NodesAssumption ==
  /\ Home \in Nodes
  /\ NoNode \notin Nodes
  /\ Procurers \subseteq Nodes
  /\ NodeOrder \in Seq(Nodes)
  /\ ToSet(NodeOrder) = Nodes

ASSUME BoundsAssumption ==
  /\ MaxReqs \in Nat
  /\ MaxFaults \in Nat
  /\ MaxRestarts \in Nat
  /\ Commits \in BOOLEAN
  /\ Rollbacks \in BOOLEAN

ASSUME NilSnapAssumption == NilSnap = 0    \* snapshot ids are 1, 2, 3, ...

VARIABLES
  \* etcd
  masters,        \* filesystems/masters/<fs>
  requests,       \* filesystems/requests/<fs>/<i>, in order of creation
  responses,      \* filesystems/responses/<fs>/<i>
  snapshots,      \* servers/snapshots/<node>/<fs>
  watch,          \* watch[n]: etcd events n's watcher has yet to process
  \* a node's caches of etcd
  mastersCache, globalSnapshotCache,
  \* a node's fsMachine
  state,          \* where its state function is
  fsSnaps,        \* f.filesystem.snapshots
  handoffRequest, \* f.handoffRequest: id of the move request, 0 if none
  fsRequests,     \* goroutines blocked in fs.requests <- e, as a bag
  offered,        \* an event put back on innerRequests by a cancelled receive
  wedged,         \* run() waits for a response that nobody will send
  updater,        \* updateEtcdAboutSnapshots: "wait" (on chan) or "set"
  inbox,          \* a Publish blocked sending on the current subscription
  stream,         \* snapshots of the zfs stream not yet received
  acks,           \* responses on their way to etcd
  \* a node's ZFS pool
  zExists, zMounted, zDirty, zSnaps,
  \* a node's Docker daemon and its Procure call
  container, procure,
  \* bounds and fresh ids
  nextSnap, faults, restarts

etcdVars   == <<masters, requests, responses, snapshots>>
cacheVars  == <<mastersCache, globalSnapshotCache>>
queueVars  == <<fsRequests, offered, wedged>>
zVars      == <<zExists, zMounted, zDirty, zSnaps>>
dockerVars == <<container, procure>>
boundVars  == <<nextSnap, faults, restarts>>

vars == <<etcdVars, watch, cacheVars, state, fsSnaps, handoffRequest, queueVars,
          updater, inbox, stream, acks, zVars, dockerVars, boundVars>>

-----------------------------------------------------------------------------
(* Where the state functions can be.  A state function that waits in the   *)
(* middle has one name per place it can be interrupted:                    *)
(*   inactive/missing    entered; then attemptReceive                      *)
(*   ...Sub              attemptReceive said no, about to Subscribe        *)
(*   ...Wait             subscribed to newSnapsOnMaster, in its select     *)
(*   receiving, recv     receivingState before and after `zfs recv` starts *)
(*   unmounted           activeState has run umount and has yet to return  *)
(*   handoff...          handoffState: umount, snapshot, check, wait, CAS  *)
(* "none" is a node without an fsMachine for this filesystem.              *)
HandoffStates == {"handoff", "handoffSnap", "handoffCheck", "handoffWait", "handoffSwitch"}
WaitStates    == {"inactiveWait", "missingWait"}
MachineStates == {"none", "discovering", "backoff", "missing", "missingSub", "inactive",
                  "inactiveSub", "active", "unmounted", "receiving", "recv"}
                   \cup WaitStates \cup HandoffStates

ResponseNames == {"moved", "snapshotted", "rolled-back", "unhandled", "refused", "failed"}
NoResponse == "none"

(* A request in etcd, and the events an fsMachine is sent: the requests    *)
(* dispatched to it, and the mount/unmount/create of its own server.       *)
Request == [op : {"move", "snapshot", "rollback"}, target : Nodes \cup {NoNode}, snap : Nat]
NoItem == [kind |-> "none", id |-> 0]
Items == [kind : {"mount", "unmount", "create"}, id : {0}]
           \cup [kind : {"request"}, id : 1 .. MaxReqs]
RequestItem(id) == [kind |-> "request", id |-> id]
LocalItem(kind) == [kind |-> kind, id |-> 0]

(* An etcd event, as the watcher of a node sees it.                        *)
EtcdEvent(type, node, id, snaps) == [type |-> type, node |-> node, id |-> id, snaps |-> snaps]
MasterEvent(m) == EtcdEvent("masters", m, 0, << >>)
RequestEvent(id) == EtcdEvent("requests", NoNode, id, << >>)
SnapshotsEvent(m, snaps) == EtcdEvent("snapshots", m, 0, snaps)

Broadcast(event) == watch' = [n \in Nodes |-> Append(watch[n], event)]

Idle == [at |-> "idle", id |-> 0]     \* no Procure call is under way

-----------------------------------------------------------------------------
Init ==
  /\ masters = Home
  /\ requests = << >>
  /\ responses = [id \in 1 .. MaxReqs |-> NoResponse]
  /\ snapshots = [n \in Nodes |-> << >>]
  /\ watch = [n \in Nodes |-> <<MasterEvent(Home)>>]
  /\ mastersCache = [n \in Nodes |-> NoNode]
  /\ globalSnapshotCache = [n \in Nodes |-> [m \in Nodes |-> << >>]]
  /\ state = [n \in Nodes |-> IF n = Home THEN "discovering" ELSE "none"]
  /\ fsSnaps = [n \in Nodes |-> << >>]
  /\ handoffRequest = [n \in Nodes |-> 0]
  /\ fsRequests = [n \in Nodes |-> [i \in Items |->
                     IF n = Home /\ i = LocalItem("create") THEN 1 ELSE 0]]
  /\ offered = [n \in Nodes |-> NoItem]
  /\ wedged = [n \in Nodes |-> FALSE]
  /\ updater = [n \in Nodes |-> "wait"]
  /\ inbox = [n \in Nodes |-> FALSE]
  /\ stream = [n \in Nodes |-> << >>]
  /\ acks = [n \in Nodes |-> {}]
  /\ zExists = [n \in Nodes |-> FALSE]
  /\ zMounted = [n \in Nodes |-> FALSE]
  /\ zDirty = [n \in Nodes |-> FALSE]
  /\ zSnaps = [n \in Nodes |-> << >>]
  /\ container = [n \in Nodes |-> FALSE]
  /\ procure = [n \in Nodes |-> Idle]
  /\ nextSnap = 1
  /\ faults = 0
  /\ restarts = 0

-----------------------------------------------------------------------------
(* fetchAndWatchEtcd: one event of the watch is processed at a time.       *)

target(n) == requests[handoffRequest[n]].target

(* The observer topics the fsMachine of n is subscribed to.  Publish runs  *)
(* with the cache update: a Publish goroutine that runs later can only     *)
(* wake the machine once more, which then re-reads the same cache.         *)
ListeningToMaster(n, server) ==   \* mutant: handoffState subscribes to the master's news
  state[n] \in WaitStates \cup HandoffStates /\ mastersCache[n] = server

Listening(n, server) ==
  \/ state[n] \in WaitStates /\ mastersCache[n] = server
  \/ state[n] \in HandoffStates /\ target(n) = server

NextEvent(n, type) == watch[n] # << >> /\ Head(watch[n]).type = type
Consume(n) == watch' = [watch EXCEPT ![n] = Tail(@)]
Dispatch(n, item) == fsRequests' = [fsRequests EXCEPT ![n][item] = @ + 1]

updateMaster(n) ==
  /\ NextEvent(n, "masters")
  /\ Consume(n)
  /\ mastersCache' = [mastersCache EXCEPT ![n] = Head(watch[n]).node]
  /\ state' = [state EXCEPT ![n] = IF @ = "none" THEN "discovering" ELSE @]
  /\ Dispatch(n, LocalItem(IF Head(watch[n]).node = n THEN "mount" ELSE "unmount"))
  /\ UNCHANGED <<etcdVars, globalSnapshotCache, fsSnaps, handoffRequest, offered, wedged,
                 updater, inbox, stream, acks, zVars, dockerVars, boundVars>>

maybeDispatchEvent(n) ==
  /\ NextEvent(n, "requests")
  /\ Consume(n)
  /\ LET id == Head(watch[n]).id
     IN IF mastersCache[n] = n /\ responses[id] = NoResponse
          THEN Dispatch(n, RequestItem(id))
          ELSE UNCHANGED fsRequests
  /\ UNCHANGED <<etcdVars, cacheVars, state, fsSnaps, handoffRequest, offered, wedged,
                 updater, inbox, stream, acks, zVars, dockerVars, boundVars>>

updateSnapshotsOfSelf(n) ==   \* mutant: every list is filed under this node's own id
  /\ NextEvent(n, "snapshots")
  /\ Consume(n)
  /\ globalSnapshotCache' = [globalSnapshotCache EXCEPT ![n][n] = Head(watch[n]).snaps]
  /\ inbox' = [inbox EXCEPT ![n] = @ \/ Listening(n, Head(watch[n]).node)]
  /\ UNCHANGED <<etcdVars, mastersCache, state, fsSnaps, handoffRequest, queueVars,
                 updater, stream, acks, zVars, dockerVars, boundVars>>

updateSnapshots(n) ==
  /\ NextEvent(n, "snapshots")
  /\ Consume(n)
  /\ LET server == Head(watch[n]).node
     IN /\ globalSnapshotCache' = [globalSnapshotCache EXCEPT ![n][server] = Head(watch[n]).snaps]
        /\ inbox' = [inbox EXCEPT ![n] = @ \/ Listening(n, server)]
  /\ UNCHANGED <<etcdVars, mastersCache, state, fsSnaps, handoffRequest, queueVars,
                 updater, stream, acks, zVars, dockerVars, boundVars>>

(* The watch of a (re)connected node starts from a recursive Get, which is *)
(* processed in this order: masters, requests, snapshots.                  *)
Fetched ==
  <<MasterEvent(masters)>>
    \o [id \in 1 .. Len(requests) |-> RequestEvent(id)]
    \o [i \in 1 .. Len(NodeOrder) |-> SnapshotsEvent(NodeOrder[i], snapshots[NodeOrder[i]])]

Reconnect(n) ==
  /\ restarts < MaxRestarts
  /\ restarts' = restarts + 1
  /\ watch' = [watch EXCEPT ![n] = Fetched]
  /\ UNCHANGED <<etcdVars, cacheVars, state, fsSnaps, handoffRequest, queueVars, updater,
                 inbox, stream, acks, zVars, dockerVars, nextSnap, faults>>

(* The server process stops and main() starts again: memory is lost, the   *)
(* pool, its mounts and the containers are not; an fsMachine is started    *)
(* for a filesystem found on the pool.                                     *)
Restart(n) ==
  /\ restarts < MaxRestarts
  /\ restarts' = restarts + 1
  /\ watch' = [watch EXCEPT ![n] = Fetched]
  /\ mastersCache' = [mastersCache EXCEPT ![n] = NoNode]
  /\ globalSnapshotCache' = [globalSnapshotCache EXCEPT ![n] = [m \in Nodes |-> << >>]]
  /\ state' = [state EXCEPT ![n] = IF zExists[n] THEN "discovering" ELSE "none"]
  /\ fsSnaps' = [fsSnaps EXCEPT ![n] = << >>]
  /\ handoffRequest' = [handoffRequest EXCEPT ![n] = 0]
  /\ fsRequests' = [fsRequests EXCEPT ![n] = [i \in Items |-> 0]]
  /\ offered' = [offered EXCEPT ![n] = NoItem]
  /\ wedged' = [wedged EXCEPT ![n] = FALSE]
  /\ updater' = [updater EXCEPT ![n] = "wait"]
  /\ inbox' = [inbox EXCEPT ![n] = FALSE]
  /\ stream' = [stream EXCEPT ![n] = << >>]
  /\ acks' = [acks EXCEPT ![n] = {}]
  /\ procure' = [procure EXCEPT ![n] = Idle]
  /\ UNCHANGED <<etcdVars, zVars, container, nextSnap, faults>>

-----------------------------------------------------------------------------
(* The goroutines around a state machine.                                  *)

(* updateEtcdAboutSnapshots, told through snapshotsModified, Sets the key. *)
(* A list that etcd has already is not announced again: it would change no *)
(* cache, and only make machines that wait look at the same cache again.   *)
(* (A nil list, of a machine whose pool has no filesystem, is never Set.)  *)
updateEtcdAboutSnapshots(n) ==
  /\ updater[n] = "set"
  /\ updater' = [updater EXCEPT ![n] = "wait"]
  /\ IF snapshots[n] # fsSnaps[n]
       THEN /\ snapshots' = [snapshots EXCEPT ![n] = fsSnaps[n]]
            /\ Broadcast(SnapshotsEvent(n, fsSnaps[n]))
       ELSE UNCHANGED <<snapshots, watch>>
  /\ UNCHANGED <<masters, requests, responses, cacheVars, state, fsSnaps, handoffRequest,
                 queueVars, inbox, stream, acks, zVars, dockerVars, boundVars>>

(* deserializeDispatchAndRespond's goroutine: the response goes to etcd    *)
(* unless there is one already (PrevNoExist).                              *)
setResponse(n) ==
  /\ \E a \in acks[n] :
       /\ acks' = [acks EXCEPT ![n] = @ \ {a}]
       /\ responses' = [responses EXCEPT ![a.id] = IF @ = NoResponse THEN a.name ELSE @]
  /\ UNCHANGED <<masters, requests, snapshots, watch, cacheVars, state, fsSnaps,
                 handoffRequest, queueVars, updater, inbox, stream, zVars, dockerVars,
                 boundVars>>

(* run() takes one event at a time off f.requests.  Goroutines blocked in  *)
(* fs.requests <- e have no order, so any of them may be next, unless an   *)
(* event is already on innerRequests.                                      *)
Offerable(n) ==
  {i \in Items : /\ ~wedged[n]
                 /\ IF offered[n] = NoItem THEN fsRequests[n][i] > 0 ELSE i = offered[n]}

TakeBoth(n, i) ==   \* mutant: an event that was put back is also taken from the queue
  /\ offered' = [offered EXCEPT ![n] = NoItem]
  /\ fsRequests' = [fsRequests EXCEPT ![n][i] = @ - 1]
  /\ UNCHANGED wedged

Take(n, i) ==
  /\ offered' = [offered EXCEPT ![n] = NoItem]
  /\ fsRequests' = IF offered[n] = NoItem
                     THEN [fsRequests EXCEPT ![n][i] = @ - 1] ELSE fsRequests
  /\ UNCHANGED wedged

opOf(i) == IF i.kind = "request" THEN requests[i.id].op ELSE i.kind

(* The response of an event that came from etcd is on its way back there;  *)
(* those of mount, unmount and create have a local reader.                 *)
Respond(n, i, name) ==
  acks' = IF i.kind = "request"
            THEN [acks EXCEPT ![n] = @ \cup {[id |-> i.id, name |-> name]}] ELSE acks

(* A state function returns the next one, and its deferred Unsubscribe     *)
(* closes its channel.                                                     *)
Goto(n, next) ==
  /\ state' = [state EXCEPT ![n] = next]
  /\ inbox' = [inbox EXCEPT ![n] = @ /\ next \in HandoffStates]

(* f.currentState, which other goroutines read, is set by transitionedTo   *)
(* when the next state function is entered, so it is still "active" when   *)
(* activeState has unmounted the filesystem but not returned.              *)
currentStateIsActive(n) == state[n] \in {"active", "unmounted"}

Fault == faults < MaxFaults /\ faults' = faults + 1

-----------------------------------------------------------------------------
(* discoveringState, backoffState, and what inactiveState and missingState *)
(* do when nothing is asked of them.                                       *)

(* backoffState sleeps and goes on to discoveringState.  discover reads    *)
(* the pool, tells the updater, and updates this node's own cache.         *)
discoverKeepsList(n) ==   \* mutant: the list in memory is not read again
  /\ state[n] \in {"discovering", "backoff"}
  /\ updater[n] = "wait"
  /\ updater' = [updater EXCEPT ![n] = "set"]
  /\ Goto(n, IF ~zExists[n] THEN "missing" ELSE IF zMounted[n] THEN "active" ELSE "inactive")
  /\ UNCHANGED <<etcdVars, watch, cacheVars, fsSnaps, handoffRequest, queueVars, stream,
                 acks, zVars, dockerVars, boundVars>>

discover(n) ==
  /\ state[n] \in {"discovering", "backoff"}
  /\ updater[n] = "wait"
  /\ updater' = [updater EXCEPT ![n] = "set"]
  /\ fsSnaps' = [fsSnaps EXCEPT ![n] = zSnaps[n]]
  /\ globalSnapshotCache' = [globalSnapshotCache EXCEPT ![n][n] = zSnaps[n]]
  /\ Goto(n, IF ~zExists[n] THEN "missing" ELSE IF zMounted[n] THEN "active" ELSE "inactive")
  /\ UNCHANGED <<etcdVars, watch, mastersCache, handoffRequest, queueVars, stream, acks,
                 zVars, dockerVars, boundVars>>

(* plausibleSnapRange: what could be pulled from the current master.  An   *)
(* unknown master or an unknown list has the same outcome as an empty one. *)
plausibleSnapRange(n) ==
  canApply(IF mastersCache[n] = NoNode THEN << >>
           ELSE globalSnapshotCache[n][mastersCache[n]], fsSnaps[n])

attemptReceive(n) == plausibleSnapRange(n).err = "ok"

AfterCheck(n, sub) == IF attemptReceive(n) THEN "receiving" ELSE sub

(* missingState, and inactiveState when its first, non-blocking, select    *)
(* finds nothing on innerRequests.                                         *)
checkMaster(n) ==
  /\ \/ state[n] = "missing" /\ Goto(n, AfterCheck(n, "missingSub"))
     \/ state[n] = "inactive" /\ offered[n] = NoItem /\ Goto(n, AfterCheck(n, "inactiveSub"))
  /\ UNCHANGED <<etcdVars, watch, cacheVars, fsSnaps, handoffRequest, queueVars, updater,
                 stream, acks, zVars, dockerVars, boundVars>>

subscribe(n) ==
  /\ \/ state[n] = "missingSub" /\ Goto(n, "missingWait")
     \/ state[n] = "inactiveSub" /\ Goto(n, "inactiveWait")
  /\ UNCHANGED <<etcdVars, watch, cacheVars, fsSnaps, handoffRequest, queueVars, updater,
                 stream, acks, zVars, dockerVars, boundVars>>

newSnapsOnMaster(n) ==
  /\ state[n] \in WaitStates
  /\ inbox[n]
  /\ Goto(n, "receiving")
  /\ UNCHANGED <<etcdVars, watch, cacheVars, fsSnaps, handoffRequest, queueVars, updater,
                 stream, acks, zVars, dockerVars, boundVars>>

(* An event that only earns a response and a change of state function.     *)
Answer(n, i, name, next) ==
  /\ Take(n, i)
  /\ Respond(n, i, name)
  /\ Goto(n, next)
  /\ UNCHANGED <<etcdVars, watch, cacheVars, fsSnaps, handoffRequest, updater, stream,
                 zVars, dockerVars, nextSnap>>

(* An event the current state does not handle.  inactiveState carries on   *)
(* with attemptReceive when its first select met it.                       *)
unhandled(n, i) ==
  /\ \/ state[n] = "missingWait" /\ opOf(i) # "create" /\ Answer(n, i, "unhandled", "backoff")
     \/ state[n] = "inactiveWait" /\ opOf(i) # "mount" /\ Answer(n, i, "unhandled", "backoff")
     \/ state[n] = "active" /\ opOf(i) \in {"mount", "create"}
                            /\ Answer(n, i, "unhandled", "backoff")
     \/ state[n] = "inactive" /\ opOf(i) # "mount"
                              /\ Answer(n, i, "unhandled", AfterCheck(n, "inactiveSub"))
  /\ UNCHANGED <<faults, restarts>>

-----------------------------------------------------------------------------
(* mount and unmount events, sent when the masters key says so, and the    *)
(* create event of CreateFilesystem.  A command that fails is a Fault.     *)

mount(n, i) ==
  /\ state[n] \in {"inactive", "inactiveWait"}
  /\ opOf(i) = "mount"
  /\ Take(n, i)
  /\ \/ Goto(n, "active") /\ zMounted' = [zMounted EXCEPT ![n] = TRUE] /\ UNCHANGED faults
     \/ Goto(n, "backoff") /\ Fault /\ UNCHANGED zMounted
  /\ UNCHANGED <<etcdVars, watch, cacheVars, fsSnaps, handoffRequest, updater, stream, acks,
                 zExists, zDirty, zSnaps, dockerVars, nextSnap, restarts>>

unmount(n, i) ==
  /\ state[n] = "active"
  /\ opOf(i) = "unmount"
  /\ Take(n, i)
  /\ \/ ~container[n] /\ Goto(n, "unmounted")
                      /\ zMounted' = [zMounted EXCEPT ![n] = FALSE] /\ UNCHANGED faults
     \/ container[n] /\ Goto(n, "backoff") /\ UNCHANGED <<zMounted, faults>>
     \/ Goto(n, "backoff") /\ Fault /\ UNCHANGED zMounted
  /\ UNCHANGED <<etcdVars, watch, cacheVars, fsSnaps, handoffRequest, updater, stream, acks,
                 zExists, zDirty, zSnaps, dockerVars, nextSnap, restarts>>

leaveActive(n) ==
  /\ state[n] = "unmounted"
  /\ Goto(n, "inactive")
  /\ UNCHANGED <<etcdVars, watch, cacheVars, fsSnaps, handoffRequest, queueVars, updater,
                 stream, acks, zVars, dockerVars, boundVars>>

create(n, i) ==
  /\ state[n] = "missingWait"
  /\ opOf(i) = "create"
  /\ Take(n, i)
  /\ \E created, mounted \in BOOLEAN :
       /\ mounted => created
       /\ zExists' = [zExists EXCEPT ![n] = @ \/ created]
       /\ zMounted' = [zMounted EXCEPT ![n] = mounted]
       /\ Goto(n, IF mounted THEN "active" ELSE "backoff")
       /\ IF mounted THEN UNCHANGED faults ELSE Fault
  /\ UNCHANGED <<etcdVars, watch, cacheVars, fsSnaps, handoffRequest, updater, stream, acks,
                 zDirty, zSnaps, dockerVars, nextSnap, restarts>>

-----------------------------------------------------------------------------
(* snapshot: `zfs snapshot`, then `zfs list` of the new snapshot, then the *)
(* in-memory list and the updater.  done is what the two commands did.     *)
snapshot(n, done) ==
  /\ nextSnap' = IF done = "nothing" THEN nextSnap ELSE nextSnap + 1
  /\ zSnaps' = IF done = "nothing" THEN zSnaps
                 ELSE [zSnaps EXCEPT ![n] = Append(@, nextSnap)]
  /\ zDirty' = IF done = "nothing" THEN zDirty ELSE [zDirty EXCEPT ![n] = FALSE]
  /\ IF done = "listed"
       THEN /\ updater[n] = "wait"
            /\ updater' = [updater EXCEPT ![n] = "set"]
            /\ fsSnaps' = [fsSnaps EXCEPT ![n] = Append(@, nextSnap)]
            /\ UNCHANGED faults
       ELSE Fault /\ UNCHANGED <<updater, fsSnaps>>

SnapshotOutcomes == {"listed", "unlisted", "nothing"}

(* activeState, event "snapshot" (the Commit RPC).                         *)
commit(n, i) ==
  /\ state[n] = "active"
  /\ opOf(i) = "snapshot"
  /\ Take(n, i)
  /\ \E done \in SnapshotOutcomes :
       /\ snapshot(n, done)
       /\ Respond(n, i, IF done = "listed" THEN "snapshotted" ELSE "failed")
       /\ Goto(n, IF done = "listed" THEN "active" ELSE "backoff")
  /\ UNCHANGED <<etcdVars, watch, cacheVars, handoffRequest, stream, zExists, zMounted,
                 dockerVars, restarts>>

(* activeState, event "rollback": containers are stopped and started       *)
(* around `zfs rollback -r`, which drops later snapshots and unsaved       *)
(* writes.  The command fails when the snapshot is not on this pool; the   *)
(* containers may also fail to stop before it, or to start after it.  (A   *)
(* snapshot on the pool but not in memory would be answered twice; the     *)
(* invariant MemoryTracksPool excludes it.)                                *)
rollback(n, i) ==
  /\ state[n] = "active"
  /\ opOf(i) = "rollback"
  /\ Take(n, i)
  /\ LET to == requests[i.id].snap
     IN \/ /\ IndexOf(zSnaps[n], to) # 0
           /\ updater[n] = "wait"
           /\ updater' = [updater EXCEPT ![n] = "set"]
           /\ zSnaps' = [zSnaps EXCEPT ![n] = SubSeq(@, 1, IndexOf(@, to))]
           /\ fsSnaps' = [fsSnaps EXCEPT ![n] = rollbackSlice(@, to)]
           /\ zDirty' = [zDirty EXCEPT ![n] = FALSE]
           /\ \/ Respond(n, i, "rolled-back") /\ Goto(n, "active") /\ UNCHANGED faults
              \/ Respond(n, i, "failed") /\ Goto(n, "backoff") /\ Fault
        \/ /\ IF IndexOf(zSnaps[n], to) = 0 THEN UNCHANGED faults ELSE Fault
           /\ Respond(n, i, "failed")
           /\ Goto(n, "backoff")
           /\ UNCHANGED <<updater, zSnaps, fsSnaps, zDirty>>
  /\ UNCHANGED <<etcdVars, watch, cacheVars, handoffRequest, stream, zExists, zMounted,
                 dockerVars, nextSnap, restarts>>

-----------------------------------------------------------------------------
(* receivingState: pull the missing snapshots from the current master.     *)

(* ZFSSender on node m: it must believe it is the master, know toSnap      *)
(* (calculatePrelude) and have the range on its pool.  `zfs recv` on n     *)
(* wants a fresh filesystem, or one that is exactly at fromSnap.           *)
Serves(m, r) ==
  /\ mastersCache[m] = m
  /\ restrictSnapshots(globalSnapshotCache[m][m], r.toSnap).found
  /\ CanSend(zSnaps[m], r.fromSnap, r.toSnap)

Accepts(n, r) ==
  IF r.fromSnap = NilSnap THEN ~zExists[n]
  ELSE zSnaps[n] # << >> /\ Last(zSnaps[n]) = r.fromSnap /\ ~zDirty[n]

receiving(n) ==
  /\ state[n] = "receiving"
  /\ LET r == plausibleSnapRange(n)
         m == mastersCache[n]
     IN IF r.err # "ok" THEN Goto(n, "discovering") /\ UNCHANGED stream
        ELSE IF Serves(m, r) /\ Accepts(n, r)
          THEN /\ stream' = [stream EXCEPT ![n] = SendStream(zSnaps[m], r.fromSnap, r.toSnap)]
               /\ Goto(n, "recv")
        ELSE Goto(n, "backoff") /\ UNCHANGED stream
  /\ UNCHANGED <<etcdVars, watch, cacheVars, fsSnaps, handoffRequest, queueVars, updater,
                 acks, zVars, dockerVars, boundVars>>

(* `zfs recv` applies a stream one whole snapshot at a time.               *)
recvSnapshot(n) ==
  /\ state[n] = "recv"
  /\ zSnaps' = [zSnaps EXCEPT ![n] = Append(@, Head(stream[n]))]
  /\ zExists' = [zExists EXCEPT ![n] = TRUE]
  /\ stream' = [stream EXCEPT ![n] = Tail(@)]
  /\ IF Len(stream[n]) = 1 THEN Goto(n, "discovering") ELSE UNCHANGED <<state, inbox>>
  /\ UNCHANGED <<etcdVars, watch, cacheVars, fsSnaps, handoffRequest, queueVars, updater,
                 acks, zMounted, zDirty, dockerVars, boundVars>>

(* The pipe is cancelled by an event on innerRequests, which is put back,  *)
(* or the connection or the command fails.                                 *)
recvAborted(n) ==
  /\ state[n] = "recv"
  /\ stream' = [stream EXCEPT ![n] = << >>]
  /\ Goto(n, "backoff")
  /\ \/ /\ \E i \in Offerable(n) :
            /\ offered' = [offered EXCEPT ![n] = i]
            /\ fsRequests' = IF offered[n] = NoItem
                               THEN [fsRequests EXCEPT ![n][i] = @ - 1] ELSE fsRequests
       /\ UNCHANGED faults
     \/ Fault /\ UNCHANGED <<offered, fsRequests>>
  /\ UNCHANGED <<etcdVars, watch, cacheVars, fsSnaps, handoffRequest, wedged, updater,
                 acks, zVars, dockerVars, nextSnap, restarts>>

-----------------------------------------------------------------------------
(* handoffState: quiesce, snapshot, wait for the target, switch masters.   *)

(* activeState, event "move".  The containers may fail to be listed.       *)
move(n, i) ==
  /\ state[n] = "active"
  /\ opOf(i) = "move"
  /\ Take(n, i)
  /\ \/ container[n] /\ Respond(n, i, "refused") /\ Goto(n, "backoff")
                     /\ UNCHANGED <<handoffRequest, faults>>
     \/ ~container[n] /\ handoffRequest' = [handoffRequest EXCEPT ![n] = i.id]
                      /\ Goto(n, "handoff") /\ UNCHANGED <<acks, faults>>
     \/ Fault /\ Respond(n, i, "failed") /\ Goto(n, "backoff") /\ UNCHANGED handoffRequest
  /\ UNCHANGED <<etcdVars, watch, cacheVars, fsSnaps, updater, stream, zVars, dockerVars,
                 nextSnap, restarts>>

handoffItem(n) == RequestItem(handoffRequest[n])

(* A failing umount leaves for backoffState without any response: run()    *)
(* goes on waiting for one and takes no further event.                     *)
handoffUnmount(n) ==
  /\ state[n] = "handoff"
  /\ \/ /\ zMounted' = [zMounted EXCEPT ![n] = FALSE]
       /\ Goto(n, "handoffSnap")
       /\ UNCHANGED <<wedged, faults>>
     \/ /\ Fault
       /\ wedged' = [wedged EXCEPT ![n] = TRUE]
       /\ Goto(n, "backoff")
       /\ UNCHANGED zMounted
  /\ UNCHANGED <<etcdVars, watch, cacheVars, fsSnaps, handoffRequest, fsRequests, offered,
                 updater, stream, acks, zExists, zDirty, zSnaps, dockerVars, nextSnap,
                 restarts>>

handoffSnapshotUnlisted(n) ==   \* mutant: the failure of `zfs list` is ignored
  /\ state[n] = "handoffSnap"
  /\ \E done \in SnapshotOutcomes : snapshot(n, done)
  /\ Goto(n, "handoffCheck")
  /\ UNCHANGED <<etcdVars, watch, cacheVars, handoffRequest, queueVars, stream, acks,
                 zExists, zMounted, dockerVars, restarts>>

handoffSnapshot(n) ==
  /\ state[n] = "handoffSnap"
  /\ \E done \in SnapshotOutcomes :
       /\ snapshot(n, done)
       /\ IF done = "listed"
            THEN Goto(n, "handoffCheck") /\ UNCHANGED acks
            ELSE Goto(n, "backoff") /\ Respond(n, handoffItem(n), "failed")
  /\ UNCHANGED <<etcdVars, watch, cacheVars, handoffRequest, queueVars, stream, zExists,
                 zMounted, dockerVars, restarts>>

(* The loop: compare with the target's list, wait for news, compare again. *)
handoffCheckAccepts(n) ==   \* mutant: a range that could be applied counts as up to date
  /\ state[n] = "handoffCheck"
  /\ Goto(n, IF canApply(fsSnaps[n], globalSnapshotCache[n][target(n)]).err
                 \in {"ToSnapsUpToDate", "ok"}
               THEN "handoffSwitch" ELSE "handoffWait")
  /\ UNCHANGED <<etcdVars, watch, cacheVars, fsSnaps, handoffRequest, queueVars, updater,
                 stream, acks, zVars, dockerVars, boundVars>>

handoffCheck(n) ==
  /\ state[n] = "handoffCheck"
  /\ Goto(n, IF canApply(fsSnaps[n], globalSnapshotCache[n][target(n)]).err = "ToSnapsUpToDate"
               THEN "handoffSwitch" ELSE "handoffWait")
  /\ UNCHANGED <<etcdVars, watch, cacheVars, fsSnaps, handoffRequest, queueVars, updater,
                 stream, acks, zVars, dockerVars, boundVars>>

handoffNews(n) ==
  /\ state[n] = "handoffWait"
  /\ inbox[n]
  /\ inbox' = [inbox EXCEPT ![n] = FALSE]
  /\ state' = [state EXCEPT ![n] = "handoffCheck"]
  /\ UNCHANGED <<etcdVars, watch, cacheVars, fsSnaps, handoffRequest, queueVars, updater,
                 stream, acks, zVars, dockerVars, boundVars>>

(* Set masters with PrevValue: it fails unless this node is still master,  *)
(* or for want of etcd.  The error is not looked at: "moved" either way.   *)
handoffSwitch(n) ==
  /\ state[n] = "handoffSwitch"
  /\ \/ masters = n /\ masters' = target(n) /\ Broadcast(MasterEvent(target(n)))
                    /\ UNCHANGED faults
     \/ masters # n /\ UNCHANGED <<masters, watch, faults>>
     \/ Fault /\ UNCHANGED <<masters, watch>>
  /\ Respond(n, handoffItem(n), "moved")
  /\ Goto(n, "inactive")
  /\ UNCHANGED <<requests, responses, snapshots, cacheVars, fsSnaps, handoffRequest,
                 queueVars, updater, stream, zVars, dockerVars, nextSnap, restarts>>

-----------------------------------------------------------------------------
(* The clients: RPCs that put a request in etcd, and Docker.               *)

(* globalFsRequest; its id is the next free one.                           *)
globalFsRequest(op, node, snap) ==
  /\ Len(requests) < MaxReqs
  /\ requests' = Append(requests, [op |-> op, target |-> node, snap |-> snap])
  /\ Broadcast(RequestEvent(Len(requests) + 1))
  /\ UNCHANGED <<masters, responses, snapshots, cacheVars, state, fsSnaps, handoffRequest,
                 queueVars, updater, inbox, stream, acks, zVars, container, boundVars>>

Commit == Commits /\ globalFsRequest("snapshot", NoNode, NilSnap) /\ UNCHANGED procure

Rollback ==
  /\ Rollbacks
  /\ \E id \in 1 .. nextSnap - 1 : globalFsRequest("rollback", NoNode, id)
  /\ UNCHANGED procure

DockerOnly == UNCHANGED <<etcdVars, watch, cacheVars, state, fsSnaps, handoffRequest,
                          queueVars, updater, inbox, stream, acks, zExists, zMounted, zSnaps,
                          boundVars>>

(* reallyProcureFilesystem: a node that believes it is the master returns  *)
(* the path at once, another one asks the master to move the filesystem    *)
(* here, waits for the response (or for 30s), then for the currentState of *)
(* its own fsMachine to be "active": it looks again after every transition *)
(* it is told of, here at any time.  Then a container uses the path.       *)
GivePath(n) == /\ container' = [container EXCEPT ![n] = TRUE]
               /\ procure' = [procure EXCEPT ![n] = Idle]

procureLocal(n) ==
  /\ procure[n] = Idle
  /\ ~container[n]
  /\ mastersCache[n] = n
  /\ GivePath(n)
  /\ UNCHANGED zDirty
  /\ DockerOnly

procureRemote(n) ==
  /\ procure[n] = Idle
  /\ ~container[n]
  /\ mastersCache[n] \in Nodes \ {n}
  /\ globalFsRequest("move", n, NilSnap)
  /\ procure' = [procure EXCEPT ![n] = [at |-> "moving", id |-> Len(requests) + 1]]

procureResponse(n) ==
  /\ procure[n].at = "moving"
  /\ responses[procure[n].id] # NoResponse
  /\ procure' = [procure EXCEPT ![n] =
                   IF responses[@.id] = "moved" THEN [@ EXCEPT !.at = "moved"] ELSE Idle]
  /\ UNCHANGED <<container, zDirty>>
  /\ DockerOnly

procureTimeout(n) ==
  /\ procure[n].at = "moving"
  /\ procure' = [procure EXCEPT ![n] = Idle]
  /\ UNCHANGED <<container, zDirty>>
  /\ DockerOnly

procureMoved(n) ==   \* mutant: the fsMachine is not waited for
  /\ procure[n].at = "moved"
  /\ GivePath(n)
  /\ UNCHANGED zDirty
  /\ DockerOnly

procureActive(n) ==
  /\ procure[n].at = "moved"
  /\ currentStateIsActive(n)
  /\ GivePath(n)
  /\ UNCHANGED zDirty
  /\ DockerOnly

(* The container writes to the filesystem, or stops.                       *)
containerWrites(n) ==
  /\ container[n] /\ zMounted[n] /\ ~zDirty[n]
  /\ zDirty' = [zDirty EXCEPT ![n] = TRUE]
  /\ UNCHANGED dockerVars
  /\ DockerOnly

containerStops(n) ==
  /\ container[n]
  /\ container' = [container EXCEPT ![n] = FALSE]
  /\ UNCHANGED <<procure, zDirty>>
  /\ DockerOnly

-----------------------------------------------------------------------------
(* The watch loop of a node, the state function its fsMachine is in, and   *)
(* everything else that happens.                                           *)

Watcher(n) == updateMaster(n) \/ maybeDispatchEvent(n) \/ updateSnapshots(n)

Machine(n) ==
  \/ discover(n) \/ checkMaster(n) \/ subscribe(n) \/ newSnapsOnMaster(n)
  \/ \E i \in Offerable(n) : \/ unhandled(n, i) \/ create(n, i) \/ mount(n, i) \/ unmount(n, i)
                              \/ commit(n, i) \/ rollback(n, i) \/ move(n, i)
  \/ leaveActive(n) \/ receiving(n) \/ recvSnapshot(n) \/ recvAborted(n)
  \/ handoffUnmount(n) \/ handoffSnapshot(n) \/ handoffCheck(n) \/ handoffNews(n)
  \/ handoffSwitch(n)

Docker(n) ==
  \/ procureLocal(n) \/ procureRemote(n) \/ procureResponse(n) \/ procureTimeout(n)
  \/ procureActive(n) \/ containerWrites(n) \/ containerStops(n)

Next ==
  \/ \E n \in Nodes : \/ Watcher(n) \/ Machine(n)
                      \/ updateEtcdAboutSnapshots(n) \/ setResponse(n)
                      \/ Reconnect(n) \/ Restart(n)
  \/ \E n \in Procurers : Docker(n)
  \/ Commit \/ Rollback

Spec == Init /\ [][Next]_vars

(* Every goroutine that can run eventually does.  Clients may stop asking, *)
(* nothing has to fail, and a container need never write or stop.  Nor     *)
(* need a Procure ever end: it may miss the news that its fsMachine is     *)
(* active between reading currentState and subscribing to the transitions. *)
Fairness ==
  \A n \in Nodes :
    /\ WF_vars(Watcher(n)) /\ WF_vars(Machine(n))
    /\ WF_vars(updateEtcdAboutSnapshots(n)) /\ WF_vars(setResponse(n))

FairSpec == Spec /\ Fairness

-----------------------------------------------------------------------------
(* Type correctness of every variable.                                     *)
Snaps == Seq(Nat)
Event == [type : {"masters", "requests", "snapshots"}, node : Nodes \cup {NoNode},
          id : Nat, snaps : Snaps]
Ack == [id : 1 .. MaxReqs, name : ResponseNames]

TypeOK ==
  /\ masters \in Nodes
  /\ requests \in Seq(Request)
  /\ Len(requests) <= MaxReqs
  /\ responses \in [1 .. MaxReqs -> ResponseNames \cup {NoResponse}]
  /\ snapshots \in [Nodes -> Snaps]
  /\ watch \in [Nodes -> Seq(Event)]
  /\ mastersCache \in [Nodes -> Nodes \cup {NoNode}]
  /\ globalSnapshotCache \in [Nodes -> [Nodes -> Snaps]]
  /\ state \in [Nodes -> MachineStates]
  /\ fsSnaps \in [Nodes -> Snaps]
  /\ handoffRequest \in [Nodes -> 0 .. MaxReqs]
  /\ fsRequests \in [Nodes -> [Items -> Nat]]
  /\ offered \in [Nodes -> Items \cup {NoItem}]
  /\ wedged \in [Nodes -> BOOLEAN]
  /\ updater \in [Nodes -> {"wait", "set"}]
  /\ inbox \in [Nodes -> BOOLEAN]
  /\ stream \in [Nodes -> Snaps]
  /\ acks \in [Nodes -> SUBSET Ack]
  /\ zExists \in [Nodes -> BOOLEAN] /\ zMounted \in [Nodes -> BOOLEAN]
  /\ zDirty \in [Nodes -> BOOLEAN] /\ zSnaps \in [Nodes -> Snaps]
  /\ container \in [Nodes -> BOOLEAN]
  /\ procure \in [Nodes -> [at : {"idle", "moving", "moved"}, id : 0 .. MaxReqs]]
  /\ nextSnap \in Nat /\ faults \in Nat /\ restarts \in Nat

(* Every snapshot list there is: on a pool, in the memory of an fsMachine, *)
(* in etcd, in a cache, in an etcd event on its way.  While a filesystem   *)
(* is being received, the pool followed by the rest of the stream is one.  *)
Lists ==
  {zSnaps[n] : n \in Nodes} \cup {fsSnaps[n] : n \in Nodes} \cup {snapshots[n] : n \in Nodes}
    \cup {zSnaps[n] \o stream[n] : n \in Nodes}
    \cup (UNION {{globalSnapshotCache[n][m] : m \in Nodes} : n \in Nodes})
    \cup (UNION {{watch[n][k].snaps : k \in DOMAIN watch[n]} : n \in Nodes})

(* Any two lists, wherever they are, agree: a snapshot has one history in  *)
(* the whole cluster, whatever is replicated, rolled back, lost, retried   *)
(* or handed off.  This is what lets canApply look only for common ids.    *)
LineageAgreement == \A p, q \in Lists : Agree(p, q)

(* In every state that acts on f.filesystem.snapshots, the list in memory  *)
(* is the list on the pool, through aborted receives and failed snapshots. *)
MemoryTracksPool ==
  \A n \in Nodes :
    state[n] \notin {"none", "discovering", "backoff", "recv"} => fsSnaps[n] = zSnaps[n]

(* When handoffState moves the masters key, the new master's pool has      *)
(* every snapshot of the old one, whose filesystem is unmounted and has no *)
(* write after its last snapshot: no data is left behind.                  *)
NothingLeftBehind(n) ==
  masters = n /\ masters' # n =>
    /\ ~zMounted[n] /\ ~zDirty[n]
    /\ IsPrefix(zSnaps[n], zSnaps[masters'])
HandoffLossless == [][\A n \in Nodes : NothingLeftBehind(n)]_vars

(* Without rollbacks, what a node is said to have, in etcd, in an event or *)
(* in any cache, is on its pool: reports may be late, never early.         *)
ReportsAreTrue ==
  \A n \in Nodes :
    /\ IsPrefix(snapshots[n], zSnaps[n])
    /\ \A m \in Nodes :
         /\ IsPrefix(globalSnapshotCache[m][n], zSnaps[n])
         /\ \A k \in DOMAIN watch[m] :
              watch[m][k].type = "snapshots" /\ watch[m][k].node = n
                => IsPrefix(watch[m][k].snaps, zSnaps[n])

(* A Procure that had the filesystem moved gives Docker the path of a      *)
(* mounted filesystem, except while an unmount event is being handled: the *)
(* "active" it waits for is about a mount, which may just have been undone.*)
MovedPathWasMounted ==
  [][\A n \in Nodes : procure[n].at = "moved" /\ container'[n] /\ ~container[n]
       => zMounted[n] \/ state[n] = "unmounted"]_vars

(* A handoff whose target has reported the final snapshot completes: the   *)
(* report is never missed between the check and the wait.                  *)
HandoffCompletes ==
  \A n \in Nodes :
    (/\ state[n] \in {"handoffCheck", "handoffWait"}
     /\ snapshots[target(n)] = fsSnaps[n]) ~> (state[n] \notin HandoffStates)

(* Without rollbacks the pools and the masters key implement the abstract  *)
(* replication of Replication.tla: a pool grows only by a snapshot that is *)
(* new in the cluster or by the next one of another pool's history, and    *)
(* the masters key goes only to a node that has the whole history.         *)
Pools == INSTANCE Replication WITH owner <- masters, replica <- zSnaps
ImplementsReplication == Pools!Spec

-----------------------------------------------------------------------------
(* What comments in the source claim and the code does not do.             *)

(* statemachines.go, state functions: "whenever a state function receives  *)
(* on the events channel, it should respond with a response event, even in *)
(* an error case".  Here, of a move request that handoffState is done with.*)
EveryEventIsAnswered ==
  \A n \in Nodes :
    handoffRequest[n] # 0 /\ state[n] \notin HandoffStates =>
      \/ responses[handoffRequest[n]] # NoResponse
      \/ \E a \in acks[n] : a.id = handoffRequest[n]
=============================================================================
