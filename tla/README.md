# A TLA+ model of dotmesh

dotmesh keeps Docker volumes ("filesystems") on ZFS pools. Every node of a
cluster runs `dotmesh-server`; the nodes coordinate through etcd. A filesystem
is writable on one node at a time, its *master*; the other nodes are *slaves*
that pull the master's snapshots. A node whose Docker daemon asks for a volume
that lives elsewhere has it moved: the master unmounts it, takes a last
snapshot, waits until the target has it, and gives the `masters` key away.

A volume has branches, zfs clones of it, and can be pushed to and pulled from
another cluster; volumes are created, branched and deleted through RPCs that
any node may be asked for.

This directory models these protocols, checks them with TLC, and proves part of
them with TLAPS. File names below are relative to `src/cmd/dotmesh-server/pkg/main/`.

## Inventory of the system

| Part | State | Operations | Interacts with |
|---|---|---|---|
| Snapshot range logic (`snapshotlogic.go`, `restrictSnapshots` in `utils.go`) | none | `canApply`, `restrictSnapshots` | every replication, handoff and transfer decision |
| fsMachine (`statemachines.go`) | current state function, snapshot list in memory, requests, handoff request | one state function per state; mount, unmount, create, snapshot, rollback, move, clone, delete, transfer | channels from the watcher, `zfs` commands, etcd |
| etcd watch (`etcd.go`) | caches of masters, snapshots, states, containers, dirty | initial recursive Get, watch loop, dispatch to fsMachines, responses | fsMachines through goroutines and observers |
| Controller (`controller.go`) | maps of fsMachines and caches | `initFilesystemMachine`, `reallyProcureFilesystem`, `CreateFilesystem`, `deleteFilesystem` | Docker plugin, RPCs |
| Replication server (`replication.go`) | none | `ZFSSender` (pull from a master), `ZFSReceiver` (push from another cluster) | `zfs send`/`recv` |
| Observer (`observer.go`) | subscriptions by topic | Subscribe, Unsubscribe, Publish | waits of fsMachines |
| Registry (`registry.go`) | names, branches, clones, with etcd copies | register, look up, delete | CreateFilesystem, clone, RPCs |
| Deletion (`etcd.go`, `rpc.go`, `controller.go`) | deleted, live and cleanupPending keys | Delete RPC, cleanup job | every fsMachine |
| Transfers (`statemachines.go` from line 1445, `replication.go`, `rpc.go`) | transfer request, transfer record in etcd | Transfer and RegisterTransfer RPCs, push/pull initiator, retries, `ZFSReceiver`, pushPeerState | two clusters over HTTP; `dm` polls the record |
| RPCs (`rpc.go`), users (`users.go`), HTTP, Docker plugin, `dm` CLI, flexvolume, provisioner | mostly none | request handling | the above |

What is hard here: the master, its slaves, the watchers and Docker run
concurrently and see etcd late and through caches; events are handed to state
machines by unordered goroutines; any `zfs` command, HTTP stream or etcd call can
fail half-way; servers restart and requests are then dispatched again; waits
race with the news they wait for. `PROJECT.json` lists each such hazard at its
line, with the property that covers it.

What makes the parts correct:

* range logic: the verdict describes how two histories relate, and the range it
  returns brings the destination exactly to the source;
* replication: a snapshot id means the same history everywhere;
* handoff: no snapshot and no write is left behind, and a handoff whose target
  is ready completes;
* procure: Docker gets the path of a mounted filesystem (what holds of it is
  `MovedPathWasMounted`);
* fsMachine: it acts on a snapshot list that is the pool's, and answers every
  event;
* transfer: what counts as sent is at the destination, the client learns the
  outcome, and the receiving machine goes back to work;
* lifecycle: a name leads to the filesystem that was created for it until that
  filesystem is deleted, and a deletion deletes everything.

## Modules

`SnapshotLogic` holds `canApply`, `restrictSnapshots`, the list that rollback
leaves in memory, and what `zfs send` emits. A snapshot is its id, a list a
sequence of ids, oldest first; the code looks at nothing else of a snapshot.
`Agree(p, q)` says that an id in both lists has the same history in both, and
`RelationOf` is canApply's promise, stated without its scan.

`MCSnapshotLogic` takes every pair of agreeing lists and applies what the
verdict calls for: receive the range, or roll back to the snapshot that the
error carries.

`Migration` is one filesystem on a cluster of `Nodes`:

* etcd: `masters`, `requests`, `responses`, `snapshots`, and `watch[n]`, the
  events that node n's watcher has not processed;
* per node: the caches (`mastersCache`, `globalSnapshotCache`), the fsMachine
  (`state`, `fsSnaps` = `f.filesystem.snapshots`, `handoffRequest`, the bag
  `fsRequests` of goroutines blocked on `fs.requests <- e`, `offered`, an event
  that a cancelled receive put back, `wedged`, the updater goroutine, `inbox`,
  the subscription, `stream`, an open `zfs recv`, `acks`, responses on their
  way), the pool (`zExists`, `zMounted`, `zDirty`, `zSnaps`), and Docker
  (`container`, `procure`).

`state` has one name per place at which a state function can be interleaved
with others: `inactive` → `inactiveSub` → `inactiveWait` are inactiveState
before its check, between the check and Subscribe, and in its select;
`unmounted`
is activeState between its umount and its return, when `f.currentState`, which
Procure reads, is still "active"; `handoff`, `handoffSnap`, `handoffCheck`, `handoffWait`, `handoffSwitch` are the
phases of handoffState. Every action is one such step, of one goroutine, with
all it changes. `PROJECT.json` maps each to its lines.

`Replication` is what replication promises, in two variables: every node holds a
history, and one node owns the filesystem. A history grows by a snapshot that is
new everywhere, or by the next snapshot of a history it is a prefix of; the
owner changes only to a node that has the owner's whole history. `Migration`
implements it (`ImplementsReplication`) with `owner <- masters` and
`replica <- zSnaps`; every step of a watcher, cache, updater or request is a
stutter.

`Transfer` is a path of filesystems, a volume and the branches that lead to the
one being transferred, on two clusters. A cluster is the node that is master of
the path. `fs[c][k]` has for each filesystem its keys in etcd, the caches the
watcher keeps, the list in memory, the pool, and what is on its way to its
fsMachine; `job[c][k]` has the local variables of an initiator state, from
applyPath's loop down to the open stream; `transfer[i]` is the record that
`updatePollResult` writes, with the client that polls it. `goal` is history: the
snapshots that finished stages were to deliver.

`Lifecycle` is one volume name, its top-level filesystem and branches, on a
cluster of nodes. etcd has the registry (`names`, `clones`), `masters`,
`deleted` and `pending` (cleanupPending). `node[n]` is a server: registry cache,
machines with their requests, pool, the watcher and its unread changes.
CreateFilesystem, Delete and cleanupDeletedFilesystems keep their local
variables in `creating`, `deleting` and `cleaning`, and take one step for each
access to etcd, so that calls on several nodes, crashes and each other's keys
can come between any two.

`MCMigration`, `MCTransfer` and `MCLifecycle` add the model values of the runs.
The theorems are in modules of their own: `SnapshotLogicProofs` and
`ConvergenceProofs` about canApply, `MigrationProofs`, `LineageProofs` and
`HandoffProofs` about `Migration` (each builds on the one before),
`TransferProofs` and `LifecycleProofs`.

### Abstractions

* Init is the state in which CreateFilesystem returns on node `Home`: the
  masters key is set and the create event is on its way.
* A Publish goroutine runs with the cache update that causes it. A later one
  could only wake a machine once more, which then reads the same cache.
* The send on `snapshotsModified` blocks until the updater is back at its
  receive; the actions that send have the guard `updater[n] = "wait"`. A failing
  Set in the updater is retried, so it is a delay.
* The updater does not announce a list that etcd has already: it would change no
  cache. The extra wake-up this drops can only help a waiting slave when the
  machine of the master passes through discoveringState again.
* An unknown master or an unknown list has the outcome of an empty one
  (`snapshotsFor` errors, and both callers go on as if there were nothing).
* Goroutines blocked on `fs.requests` are a bag: they are started by `go`, and
  nothing orders them.
* The "busy-handoff" answer is unreachable and left out: run() sends the next
  event only after the response to the move.
* A Procure that waits for its machine reads `currentState` after every transition
  that it is told of. In the model it may read it at any time, and need not: it
  can miss the transition between its look and its Subscribe (`controller.go:657`).
* A failing command is a `Fault`; the two commands of a snapshot can fail
  separately. A receive that is aborted keeps the snapshots that arrived whole.
  After a finished receive `applyPrelude` may fail; backoffState and
  discoveringState both lead to discover, so the outcome is the same.
* A nil etcd client in handoffState (line 452) would crash the process; the
  crash is `Restart`.
* A container that fails to start again after a rollback is `containerStops`.
* Restart and reconnect queue the recursive Get at once, in the order the code
  processes it: masters, requests, snapshots.
* Snapshot metadata, sizes, progress text and logging are left out.

For `Transfer`:

* Filesystem k + 1 is a clone of the first snapshot of filesystem k. A clone's
  own list holds its own snapshots; a full stream of a clone needs the origin.
* A node's watch returns its own changes too (`echo`), late and in order. (The
  comments at `etcd.go:714` and `statemachines.go:1221` assume that it does not;
  discover updates the cache itself, and the echo then repeats older lists.)
* A masters key once registered is never taken away, and events reach a machine
  once its watcher knows the key.
* A "peer-transfer" event puts the machine in pushPeerState at once
  (`startPeer`); the container check and the exit for a snapshot that is here
  already come after (`exitEarly`), with streams and news let in between.
* registerFilesystemBecomeMaster may fail after any of its keys: masters keys
  first, then registry entries, each in the order of the path (`Register`). One
  that succeeds is one step: a watcher may take its keys in any order afterwards,
  and a second transfer that finds them half-written writes the rest.
* discover and maybeMountFilesystem are one step each: the interleaving of their
  commands, when applyPath mounts a filesystem whose own machine discovers it, is
  not in the model.
* `backoffState` counts as discovering; a failing `updatePollResult`, RPC or
  command is a `Fault`, so every error return of retryPush, retryPull, push and
  pull is an attempt that fails at that place.
* The statuses "calculating size", "pushing" and "pulling" are one, "sending".
* The Transfer RPC's refusals of a dirty or used destination read caches that
  may be old, so they exclude no behaviour and are left out; a failing RPC that
  has already registered the path is in.
* A stream delivers whole snapshots; what arrived before it breaks stays.

For `Lifecycle`:

* Snapshots are left out: a filesystem is in a pool or not, and replication
  brings all of it or nothing.
* A live key expires when no machine of the filesystem has run anywhere for
  `FilesystemMetadataTimeout`, ten minutes. It is assumed that a Delete gets
  from the death of the top-level filesystem to its Unregister in that time
  (`Expired`). Without it a name that cleanup freed and a new Create took could
  be unregistered by the old Delete.
* initFilesystemMachine calls deleteFilesystem with `filesystemsLock` held, and
  deleteFilesystem takes the same lock. `lock` is therefore "held" for ever once
  a filesystem that is deleted and has no machine is to be initialised; the
  caller goes no further, and neither does the watcher ("stuck") or a machine
  when they come to need the lock. A lock that is taken and released within a
  step is "free". The invariants hold of a hung server because it does less.
* Reads of etcd in initFilesystemMachine and in a fetch may fail, any number of
  times, while fewer than `MaxFailing` calls have been made (`EtcdFails`).
* The recursive Get of fetchAndWatchEtcd and the handling of its result are one
  step; failing half-way through the masters, by an error or for the lock, is a disjunct of it.
* A Branch request reaches the machine when it is made: what may happen in
  between is that the RPC fails.
* checkNotInUse (advisory) and errors of single etcd calls in cleanup, which is
  repeated every second, are left out.

## Runs

All Migration runs have two nodes: every decision concerns a master and one
other node. `MaxReqs` bounds the requests in etcd, `MaxFaults` the failures,
`MaxRestarts` restarts and reconnects. Deadlock is not an error: when the
requests are used up and everything is replicated the system rests.

| Run | Bounds | Shows | Distinct states |
|---|---|---|---|
| `snapshot_logic` | 5 ids, lists up to 4 | `VerdictMatchesHistory`, `RangeCompletesDestination`; `AdviceConverges` under weak fairness of the two repairs | |
| `moves` | both Dockers ask, 2 requests | `TypeOK`, `ReportsAreTrue`, `HandoffLossless`, `MovedPathWasMounted`, `ImplementsReplication`: moves there and back, retried after timeouts, with commits by handoff only | 1.8 million |
| `faults` | 2 requests, moves and rollbacks, 1 failure anywhere | `MemoryTracksPool`, `LineageAgreement`, `HandoffLossless` | 2.4 million |
| `restart` | 1 request, a move or a user commit, 1 restart or reconnect anywhere | `LineageAgreement`, `HandoffLossless` with a request dispatched twice | 2.0 million |
| `progress` | 1 move | `HandoffCompletes` under fairness | |
| `transfer` | a volume and a branch; pushes and pulls; one of: a failure, a commit, a container, a second transfer, at any point; 2 attempts; nobody polls | `TypeOK`, `FinishedIsDelivered`, `ActiveIsMounted` | 801 thousand |
| `transfer_live` | a volume and a branch, one transfer, one commit, no failure | `ClientLearns` under fairness | 147 thousand |
| `lifecycle` | 2 nodes, 2 filesystems, 3 of: Create, Branch, Delete, crash; reads of etcd fail until the second of them | `TypeOK`, `CreatedIsThere`, `NameKept`, `DeleteLeavesFirst` | 3.4 million |
| `answered` | 1 failure | violated | |
| `transfer_done` | 1 transfer of a branch | violated | |
| `delete_resumes` | a volume with 2 branches, 2 Deletes, 1 crash | violated | |
| `destroyed` | 1 volume, 1 Delete, 1 restart | violated, under fairness | |

Two requests are what it takes for a filesystem to move away and back, and for
a retried move to cross the first; one failure or restart reaches every error
path from every state of one move. `restart` has one request, so that a move
meets no commit but its own there: the theorems `HandoffsLoseNothing` and
`LineagesAgree` have both, and any number of them. `HandoffLossless` is not
claimed with longer sequences of rollbacks and moves: `snapshots` of a target that
was rolled back while it was master may then be stale in the other's cache.

`ReportsAreTrue` and `ImplementsReplication` are properties of a cluster without
rollbacks: a rollback makes every cached list that has the dropped snapshots
early, and a history shorter.

A branch of a volume is the shortest path with more than one stage; a longer one
repeats the stage in the middle. A failure, a commit, a container and a second
transfer exclude each other in `transfer`, so that TLC sees few incremental ranges
whose source changes under way; the theorem `FinishedTransfersAreDelivered` has
all of them together. No property of that run is about the client, which looks at
the record and changes nothing else. Two attempts have a first that fails and a
last.

Three calls are a Create that is abandoned or overtaken, one that resumes it, and
a Delete or a crash; or a Create, a Branch and a Delete; each call is several
steps and all interleavings of them are covered, with cleanup on both nodes.

Fairness: a goroutine that can run does. Watchers, state machines, updaters
and response writers (`Fairness` in `Migration`), watchers, state machines,
initiators, pushPeerState's loader and a polling `dm` (`Fairness` in
`Transfer`), and watchers, fetches, booting and running machines and Deletes
(`Fairness` in `Lifecycle`) are loops that block only on the conditions that are
their guards. Clients, containers, timeouts, failures and restarts have none. A
machine takes its requests in any order, and weak fairness is of the machine as
a whole: it does not say which request goes first.

No liveness property of `Lifecycle` is claimed to hold. The one the code hopes
for, that a deleted filesystem leaves every pool, is false (`destroyed`), and what
else TLC shows when it is asked is: a Delete whose machine dies before
waitForFilesystemDeath subscribes waits for ever (`utils.go:275`); a "deleted"
event lost while the watcher fetches again leaves a machine alive for good; a
crash between the two Sets of markFilesystemAsDeletedInEtcd leaves a masters key
at which the fetch of every node without a machine for it hangs
(`controller.go:526`); a filesystem destroyed out of order on another node stays
there, and that node hangs when it restarts (`rpc.go:1479`). Likewise
`ClientLearns` fails with one failure: a mount that fails after a stage ends the
transfer with neither "error" nor a full index (`statemachines.go:2902`). These
are hazards in `PROJECT.json`.

### Findings

The four violation runs are disagreements between a comment and the code:

* `answered`: `statemachines.go:336` leaves handoffState without a response when
  umount fails, against the invariant at 311. The state machine accepts no
  event from then on.
* `transfer_done`: `incrementPollResultIndex` (`statemachines.go:1589`) raises
  the index and keeps the status, "finished" since the stage that ended. With one
  stage to go index equals total, and PollTransfer (`dm/pkg/remotes/api.go:567`)
  reports success: `rpc.go:939` promises a record that can be queried until
  completion. The branch has not been sent.
* `delete_resumes`: n1 marks one of two branches and crashes; cleanup removes its
  registry key, and `DeleteCloneFromEtcd` (`registry.go:407`) makes n2 forget
  both. A Delete on n2 deletes the volume and leaves the second branch, against
  the hope expressed at `rpc.go:1446`.
* `destroyed`: initFilesystemMachine (`controller.go:526`) calls
  deleteFilesystem, which locks `filesystemsLock` again (77). A node that comes
  back with a deleted filesystem in its pool hangs at boot, and the filesystem is
  never destroyed, against the hope expressed at `rpc.go:1482`.

Further disagreements have no run of their own; TLC finds each when the formula
is checked in the configuration named:

* `controller.go:592` returns the path whenever the cached master is this node,
  although the filesystem may not be mounted yet or not any more; the comment at
  563 forbids it. (`container'[n] /\ ~container[n] => zMounted[n]` in every step,
  one request.)
* After a move Procure waits for `currentState` to be "active"
  (`controller.go:645`), and the comment at 640 says that this is about the mount.
  An unmount event of an earlier master, overtaken by the mount, may be handled
  then: umount has run (`statemachines.go:852`) and the state is still "active"
  (until 909), so that Docker gets the path of an unmounted filesystem. What
  holds is `MovedPathWasMounted`: it is mounted but for that window. (The same
  formula with `procure[n].at = "moved"`, both Dockers asking.)
* pushPeerState reads one snapshot of newSnapsOnMaster after a receive
  (`statemachines.go:2492`). After a second push that may be the late echo of the
  list of the first; the news of this push is then never read, and only the ten
  minutes' timer ends the wait for a snapshot that is there, against the comment
  at 2382. (`state \in WaitingPeer /\ target \in ToSet(pool) ~> state \notin
  WaitingPeer` under `FairSpec`, with two pushes and a commit.)
* A slave whose subscription comes after the last news never receives the last
  snapshot (`statemachines.go:957-963`, against the comment at 364).
* A mount event overtaken by a move mounts the filesystem on two nodes
  (`etcd.go:469`, against the comment at 795).

## Proofs

Every safety property of the passing runs is a theorem (three of them for
clusters without rollbacks), for every value of the constants: any number of
nodes, requests, transfers, calls, failures and restarts, paths of any length,
lists of any length. The only assumptions are
those named in the modules, which the runs evaluate: `NodesAssumption`,
`BoundsAssumption` (the counters' bounds are naturals) and `NilSnapAssumption`
in `Migration`; `ClustersAssumption` (two different clusters),
`DirectionsAssumption`, `TransferBoundsAssumption` and `NilSnapIsZero` in
`Transfer`; `NodesAssumption`, `IdsAssumption`, `BranchesAssumption`,
`CallsAssumption` and `EtcdAssumption` in `Lifecycle`; `IdsAssumption` in `MCSnapshotLogic`. Three
theorems of `HandoffProofs` have the hypothesis `~Rollbacks`, see below.

### canApply

`SnapshotLogicProofs` is about two lists that agree. `VerdictIsRelation`:
canApply's verdict is the relation of the two lists. `UpToDateMeansEqual` and
`RangeStartsAtDestination` are the two facts that handoff and replication use,
`RangeCompletes` says that a returned range can be sent and makes the
destination the source, and `AdviceGivesPrefix` that a rollback to the common
snapshot of an error leaves a prefix of the source. The argument: the scan finds
the greatest common index (`LatestCommonProperties`); for agreeing lists
everything before it is common (`CommonPrefix`), so comparing the last ids is
comparing the lists. `StreamCompletes` is the lemma about receiving: the stream
starts where the destination ends, and the destination and the stream are then a
prefix of the sender.

`ConvergenceProofs` makes them invariants of `MCSnapshotLogic`:
`VerdictsMatchHistory` and `RangesComplete`. Every reachable pair agrees
(`AgreeingPair`): a received range makes the lists equal, a rollback cuts one.
`AdviceIsSound` is the step behind `AdviceConverges`: after a rollback that was
advised the next verdict is a range, or that the lists are equal.

### Migration

* `MigrationProofs`: `TypeCorrect`. `TypeOK` is not inductive: the target of a
  handoff is a node only because the request it names is a move that is in etcd,
  so `TypeInv` adds that every event, queued item and handoff names a request
  that is there (`KnownRequests`) and that a stream is open exactly while
  receivingState reads it (`StreamIsOpen`).
* `LineageProofs`: `LineagesAgree` and `MemoryIsPool`. `LineageInv` adds to
  `LineageAgreement` that the next id is in no list (`Fresh`), that the list in
  memory is the pool's (`MemoryTracksPool`: a snapshot is appended to both), and
  that a pool with snapshots exists (`PoolExists`: a full stream is accepted only
  by an empty pool). All actions but `zfs snapshot` only copy and cut lists:
  `Kept` says that every list after the step is a prefix of one before, which
  gives agreement in one lemma (`KeptAgree`). The step that needs care is
  receiving (`ArrivalCompletes`).
* `HandoffProofs`, with rollbacks too: `MovedPathsWereMounted`. `CalmInv` adds
  what a machine knows of its own filesystem: in activeState, until it has run
  umount, it is mounted; from
  the snapshot of handoffState on it is unmounted; after the snapshot nothing is
  unsaved.
* `HandoffProofs`, without rollbacks: `HandoffsLoseNothing`, `ReportsStayTrue`
  and `ReplicationIsImplemented`. Then pools only grow (`PoolsGrow`), which is
  why looking at a cache is enough: a list that was once a prefix of a pool
  remains one (`ListsAreTrue`), a target that had everything when handoffState
  looked has everything when it moves the key (`TargetIsReady`), and a pool with
  its open stream remains a prefix of some pool (`StreamsAreKnown`).
  `MachineStep(n)` is what an action of node n may do to pools, key and state;
  `NextStep` shows once that every action is such a step, and the invariants and
  the refinement are proved from it. In the refinement a snapshot taken is a
  `Commit`, one that arrives a `Fetch`, the moved key a `Handoff`, all else a
  stutter.

The hypothesis is needed. A rollback makes lists in caches longer than the pool
they are about, so `ReportsAreTrue` is false, and the target of a handoff may
have been rolled back since it was found up to date; `faults` checks
`HandoffLossless` with rollbacks for two requests and one failure.

### Transfer

`TransferProofs`: `TypeCorrect`, `FinishedTransfersAreDelivered` and
`ActiveFilesystemsAreMounted`, from `TransferInv`. Nothing in `Transfer` takes a
snapshot out of a pool, so what was delivered stays; what has to be shown is
that it was. `Sound`: every list of a filesystem, in memory, in etcd, on its way
or cached, has only snapshots of the pool, so a restricted list cannot name one
that nobody has; a machine that is missing, or was when a peer-transfer reached
it, is mounted already or has heard of no snapshot of its own (`Unheard`), so it
cannot go active unmounted by the exit for a snapshot that is here; and what is
arriving or being loaded is in the pool. `Working`: a transfer is the job of one machine,
its goal has an entry for each stage counted, and the snapshot that an open
stream is to bring is in the stream or already there. `JobStep` and `Table` say
what a step of one initiator leaves alone.

### Lifecycle

`LifecycleProofs`: `TypeCorrect`, `NamesAreKept`, `CreatedFilesystemsAreThere`
and `DeletesLeavesFirst`, from `LifecycleInv`. Its parts are ids (`IdsInv`: a
clone has one entry everywhere, an id greater than its origin's, and is no
volume), nodes (`NodesInv`: what runs is in the pool, a clone is never in a pool
without its origin), names (`NamesSettled`: a volume that anybody takes a name
for has that name or is deleted; `MasterClaimed`), and deletions (`DeletingInv`:
the root comes last, each filesystem is deleted by one Delete, `OneOwner`, its
name stands until that Delete unregisters it, and cleanup comes after,
`CleaningIsDead`). The fact that carries the deletions is that a machine of a
deleted filesystem does not come back (`DeadStays`), across crashes and repeated
fetches. All this holds of a server that hangs, too.

### Only model-checked

`HandoffLossless` with rollbacks; and `HandoffCompletes`, `AdviceConverges` and
`ClientLearns`: liveness under fairness is out of the prover's reach. The violations are TLC's counterexamples.

## Not modelled

The observer and pipe at the level of channels: their effects on the state
machines are modelled where these wait. pullPeerState, for which no code sends
an event. Caches that only feed status output (states, containers, dirty bytes,
addresses). Users and authentication, HTTP and RPC plumbing, the Docker plugin's
HTTP glue, the CLI but for PollTransfer, flexvolume, provisioner, versioner and
metadata encoding are sequential glue or pure I/O.

## Plan

Done: `SnapshotLogic`, `Migration`, `Transfer`, `Lifecycle`, the refinement of
`Replication`, and the theorems above. Next:

1. `Observer`: Subscribe, Unsubscribe and Publish at channel level, refined to
   the `inbox` of `Migration`; pipe with cancellation.
2. `HandoffLossless` with rollbacks: which reports of a node may be early, and
   for how long.
