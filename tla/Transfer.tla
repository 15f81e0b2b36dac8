------------------------------- MODULE Transfer -------------------------------
(***************************************************************************)
(* dm push and dm pull: one cluster (the initiator) sends a branch and the *)
(* branches it descends from to another (the peer), or fetches them.       *)
(* Modelled from the Transfer, RegisterFilesystem and RegisterTransfer     *)
(* RPCs (rpc.go), the initiator and peer states (statemachines.go),        *)
(* ZFSReceiver (replication.go) and the client's PollTransfer (api.go).    *)
(*                                                                         *)
(* Filesystem 1 is a top-level filesystem and k + 1 a clone of k, so the   *)
(* path of filesystem k is 1 .. k.  A cluster is represented by the node   *)
(* that is master of the path; replication within a cluster is the subject *)
(* of Migration.                                                           *)
(***************************************************************************)
EXTENDS SnapshotLogic, FiniteSets

CONSTANTS
  Clusters,       \* the two clusters
  Home,           \* the cluster that has the filesystems in the beginning
  Depth,          \* the number of filesystems on the path
  Directions,     \* what users ask for: "push", "pull"
  MaxTries,       \* how often retryPush and retryPull try (5 in the code)
  MaxTransfers,   \* bound: transfers ever requested
  MaxPolled,      \* bound: the first so many of them are polled
  MaxSnaps,       \* bound: snapshots ever taken
  MaxRuns,        \* bound: containers ever started
  MaxFaults,      \* bound: failing calls, connections and commands
  MaxEvents       \* bound: snapshots, containers, failures and further transfers

ASSUME ClustersAssumption ==
  IsFiniteSet(Clusters) /\ Cardinality(Clusters) = 2 /\ Home \in Clusters
ASSUME DirectionsAssumption == Directions \subseteq {"push", "pull"}
ASSUME TransferBoundsAssumption ==
  /\ Depth \in Nat \ {0} /\ MaxTries \in Nat \ {0}
  /\ MaxTransfers \in Nat /\ MaxPolled \in Nat /\ MaxSnaps \in Nat
  /\ MaxRuns \in Nat /\ MaxFaults \in Nat /\ MaxEvents \in Nat
ASSUME NilSnapIsZero == NilSnap = 0

VARIABLES
  fs,             \* fs[c][k]: filesystem k on cluster c, see FsRecord
  job,            \* job[c][k]: the transfer that its fsMachine is initiating
  transfer,       \* transfer[i]: the i-th transfer, see TransferRecord
  nextSnap, runs, faults

vars == <<fs, job, transfer, nextSnap, runs, faults>>

Filesystems == 1 .. Depth
Transfers == 1 .. MaxTransfers
Peer(c) == CHOOSE d \in Clusters : d # c

(* The snapshot of k that k + 1 is a clone of: the first one, here.        *)
Origin(k) == k

(* What the last stage of a path aims at is the latest snapshot (""), an   *)
(* earlier stage aims at the origin of the next one.                       *)
StageTarget(k, stage) == IF stage < k THEN Origin(stage) ELSE NilSnap

(* The list of a filesystem that the cache has no entry for.               *)
Unknown == <<NilSnap>>

(* The places of pushPeerState: before its early exits, waiting for a      *)
(* receive, and waiting for what the load of that finds.                   *)
WaitingPeer == {"pushPeer", "pushPeerLoad"}
PushPeerState == {"pushPeerStart"} \cup WaitingPeer
States == {"none", "discovering", "missing", "inactive", "active", "initiator"} \cup PushPeerState

Request == [op : {"mount", "transfer", "peer"}, arg : Nat]
Item(op, arg) == [op |-> op, arg |-> arg]

FsRecord ==
  [master : BOOLEAN,          \* filesystems/masters/<fs> is in etcd
   registered : BOOLEAN,      \* so is its entry in the registry
   known : BOOLEAN,           \* the watcher has seen the masters key
   state : States,            \* of its fsMachine; backoff counts as discovering
   memory : Seq(Nat),         \* f.filesystem.snapshots
   etcd : Seq(Nat),           \* servers/snapshots/<me>/<fs>
   echo : Seq(Seq(Nat)),      \* changes of that key the watcher has yet to see
   cache : Seq(Nat),          \* globalSnapshotCache, for the master
   pool : Seq(Nat),           \* zfs list; a pool without snapshots has no filesystem
   mounted : BOOLEAN, dirty : BOOLEAN, container : BOOLEAN,
   requests : SUBSET Request, \* events on their way to the fsMachine
   target : Nat,              \* f.lastTransferRequest.TargetCommit
   arrived : Nat,             \* goroutines sending on externalSnapshotsChanged
   loading : BOOLEAN,         \* pushPeerState's discover goroutine is to run
   news : SUBSET Nat]         \* goroutines sending on newSnapsOnMaster

Absent ==
  [master |-> FALSE, registered |-> FALSE, known |-> FALSE, state |-> "none", memory |-> << >>,
   etcd |-> << >>, echo |-> << >>, cache |-> Unknown, pool |-> << >>, mounted |-> FALSE,
   dirty |-> FALSE, container |-> FALSE, requests |-> {}, target |-> NilSnap, arrived |-> 0,
   loading |-> FALSE, news |-> {}]

Present(snaps) ==
  [Absent EXCEPT !.master = TRUE, !.registered = TRUE, !.known = TRUE, !.state = "active",
                 !.memory = snaps, !.etcd = snaps, !.cache = snaps, !.pool = snaps,
                 !.mounted = TRUE]

(* The variables of a running transfer: its id, the direction, the place   *)
(* in the code, the stage (an index of the path), the attempts that        *)
(* failed, fromSnap and toSnapshotId, and the stream not yet received.     *)
Places == {"none", "try", "send", "stream", "applied"}
JobRecord == [id : 0 .. MaxTransfers, dir : {"push", "pull"}, at : Places, stage : Nat,
              tries : 0 .. MaxTries - 1, from : Nat, to : Nat, left : Seq(Nat)]
NoJob == [id |-> 0, dir |-> "push", at |-> "none", stage |-> 0, tries |-> 0,
          from |-> NilSnap, to |-> NilSnap, left |-> << >>]

(* A transfer: who asked for what, the client that polls it, the record in *)
(* filesystems/transfers/<id>, and, as history, the snapshots that the     *)
(* finished stages were to deliver.                                        *)
Statuses == {"none", "syncing metadata", "sending", "retry", "finished", "error"}
TransferRecord == [by : Clusters, fs : Filesystems, dir : {"push", "pull"},
                   client : {"none", "polling", "done", "failed"},
                   index : Nat, total : Nat, status : Statuses, goal : Seq(Nat)]
NoTransfer == [by |-> Home, fs |-> 1, dir |-> "push", client |-> "none",
               index |-> 0, total |-> 0, status |-> "none", goal |-> << >>]

Source(i) == IF transfer[i].dir = "push" THEN transfer[i].by ELSE Peer(transfer[i].by)
Destination(i) == Peer(Source(i))

Init ==
  /\ fs = [c \in Clusters |-> [k \in Filesystems |->
             IF c = Home THEN Present(<<Origin(k)>>) ELSE Absent]]
  /\ job = [c \in Clusters |-> [k \in Filesystems |-> NoJob]]
  /\ transfer = [i \in Transfers |-> NoTransfer]
  /\ nextSnap = Depth + 1
  /\ runs = 0
  /\ faults = 0

Further == {i \in Transfers \ {1} : transfer[i].client # "none"}
Spent == (nextSnap - (Depth + 1)) + runs + faults + Cardinality(Further)
Eventful == Spent < MaxEvents

Fault == Eventful /\ faults < MaxFaults /\ faults' = faults + 1

-----------------------------------------------------------------------------
(* The Transfer RPC and the client's polling.                              *)

(* registerFilesystemBecomeMaster on cluster c, for the path of k: an      *)
(* fsMachine for k itself, then one masters key after the other where      *)
(* there is none, then the entries in the registry in the same order.  It  *)
(* has come to the keys of 1 .. masters and the entries of 1 .. names.     *)
Register(c, k, masters, names) ==
  [fs EXCEPT ![c] = [j \in Filesystems |->
     [fs[c][j] EXCEPT !.master = @ \/ j <= masters, !.registered = @ \/ j <= names,
                      !.state = IF j = k /\ @ = "none" THEN "discovering" ELSE @]]]

NextTransfer == CHOOSE i \in Transfers : /\ transfer[i].client = "none"
                                         /\ \A j \in 1 .. i - 1 : transfer[j].client # "none"

(* Transfer: what is sent must exist, its path is registered at the other  *)
(* end if need be, and the request goes to the fsMachine of the branch.    *)
(* When it fails, registering the path may be done in part.                *)
(* (For a branch that both have, the RPC also refuses dirty filesystems    *)
(* and ones in use, from caches that may be old: that excludes nothing.)   *)
Transfer(c, k, dir) ==
  /\ \E i \in Transfers : transfer[i].client = "none"
  /\ dir \in Directions
  /\ LET i == NextTransfer
         src == IF dir = "push" THEN c ELSE Peer(c)
         dst == Peer(src)
         exists == fs[dst][k].registered
         registered == IF exists THEN fs ELSE Register(dst, k, k, k)
     IN /\ i > 1 => Eventful
        /\ fs[src][k].registered
        /\ \/ /\ fs' = [registered EXCEPT ![c][k].requests = @ \cup {Item("transfer", i)}]
              /\ transfer' = [transfer EXCEPT ![i] = [@ EXCEPT !.by = c, !.fs = k, !.dir = dir,
                                                               !.client = "polling"]]
              /\ UNCHANGED faults
           \/ /\ Fault
              /\ \E masters, names \in 0 .. k :
                   /\ names > 0 => masters = k
                   /\ fs' = IF exists THEN fs ELSE Register(dst, k, masters, names)
              /\ UNCHANGED transfer
  /\ UNCHANGED <<job, nextSnap, runs>>

(* PollTransfer's loop ends when the record says so.                       *)
Finished(t) == t.index = t.total /\ t.status = "finished"

PollTransfer(i) ==
  /\ transfer[i].client = "polling" /\ i <= MaxPolled
  /\ \/ Finished(transfer[i]) /\ transfer' = [transfer EXCEPT ![i].client = "done"]
     \/ /\ ~Finished(transfer[i]) /\ transfer[i].status = "error"
        /\ transfer' = [transfer EXCEPT ![i].client = "failed"]
  /\ UNCHANGED <<fs, job, nextSnap, runs, faults>>

-----------------------------------------------------------------------------
(* The watchers and the fsMachines outside transfers.                      *)

(* A step of filesystem k on cluster c alone.                              *)
Local(c, k, new) ==
  /\ fs' = [fs EXCEPT ![c][k] = new]
  /\ UNCHANGED <<job, transfer, nextSnap, runs>>

(* mount: `mount -t zfs`.                                                  *)
mountUnchecked(f) == f   \* mutant: the command's failure is not noticed

mount(f) == [f EXCEPT !.mounted = TRUE]

(* A state function that waited for news returns: its channel is closed.   *)
Goto(f, state) == [f EXCEPT !.state = state, !.news = {}]

(* The masters key reaches the watcher: it starts an fsMachine where there *)
(* is none and sends it a mount event.                                     *)
updateMaster(c, k) ==
  LET f == fs[c][k]
  IN /\ f.master /\ ~f.known
     /\ Local(c, k, [f EXCEPT !.known = TRUE,
                              !.state = IF @ = "none" THEN "discovering" ELSE @,
                              !.requests = @ \cup {Item("mount", 0)}])
     /\ UNCHANGED faults

(* The list in memory changes, and the updater puts it in etcd (an absent  *)
(* filesystem has a nil list, which is never put there).                   *)
Announced(f, snaps) ==
  [f EXCEPT !.memory = snaps,
            !.etcd = IF snaps = << >> THEN @ ELSE snaps,
            !.echo = IF snaps \in {<< >>, f.etcd} THEN @ ELSE Append(@, snaps)]

Latest(snaps) == IF snaps = << >> THEN NilSnap ELSE Last(snaps)

(* snapshotsForCurrentMaster, which CommitsById returns, is an error while *)
(* the caches have no master or no list.                                   *)
CommitsKnown(f) == f.known /\ f.cache # Unknown

(* updateSnapshotsFromKnownState: the cache, and a goroutine that sends    *)
(* the latest snapshot to a subscriber.  inactiveState and missingState go *)
(* through receivingState, which finds nothing to pull from itself.        *)
Published(f, snaps) ==
  [f EXCEPT !.cache = snaps,
            !.news = IF f.known /\ f.state \in PushPeerState THEN @ \cup {Latest(snaps)} ELSE @,
            !.state = IF @ \in {"missing", "inactive"} THEN "discovering" ELSE @]

updateSnapshots(c, k) ==
  /\ fs[c][k].echo # << >>
  /\ Local(c, k, [Published(fs[c][k], Head(fs[c][k].echo)) EXCEPT !.echo = Tail(@)])
  /\ UNCHANGED faults

Discovered(f) == Published(Announced(f, f.pool), f.pool)

discover(c, k) ==
  LET f == fs[c][k]
  IN /\ f.state = "discovering"
     /\ Local(c, k, Goto(Discovered(f), IF f.pool = << >> THEN "missing"
                                        ELSE IF f.mounted THEN "active" ELSE "inactive"))
     /\ UNCHANGED faults

(* Events reach a machine once its watcher knows it is master.             *)
Takes(c, k, e) == fs[c][k].known /\ e \in fs[c][k].requests
Taken(c, k, e) == [fs[c][k] EXCEPT !.requests = @ \ {e}]

(* mount is handled in inactiveState only, the transfer events everywhere  *)
(* else; what is not handled is answered and leads through backoffState.   *)
mountOrUnhandled(c, k, e) ==
  LET f == Taken(c, k, e)
  IN /\ Takes(c, k, e)
     /\ \/ f.state = "inactive"
        \/ f.state \in {"active", "missing"} /\ e.op = "mount"
     /\ \/ /\ f.state = "inactive" /\ e.op = "mount"
           /\ Local(c, k, Goto(mount(f), "active"))
           /\ UNCHANGED faults
        \/ /\ Local(c, k, Goto(f, "discovering"))
           /\ IF f.state = "inactive" /\ e.op = "mount" THEN Fault ELSE UNCHANGED faults

(* activeState, event "snapshot".                                          *)
commit(c, k) ==
  LET f == fs[c][k]
  IN /\ f.state = "active"
     /\ Eventful /\ nextSnap <= MaxSnaps
     /\ nextSnap' = nextSnap + 1
     /\ fs' = [fs EXCEPT ![c][k] = [Announced(f, Append(f.memory, nextSnap)) EXCEPT
                                       !.pool = Append(@, nextSnap), !.dirty = FALSE]]
     /\ UNCHANGED <<job, transfer, runs, faults>>

(* A container starts on a mounted filesystem and writes to it; it stops.  *)
containerRuns(c, k) ==
  /\ fs[c][k].mounted /\ ~fs[c][k].container
  /\ Eventful /\ runs < MaxRuns
  /\ runs' = runs + 1
  /\ fs' = [fs EXCEPT ![c][k].container = TRUE, ![c][k].dirty = TRUE]
  /\ UNCHANGED <<job, transfer, nextSnap, faults>>

containerStops(c, k) ==
  /\ fs[c][k].container
  /\ Local(c, k, [fs[c][k] EXCEPT !.container = FALSE])
  /\ UNCHANGED faults
-----------------------------------------------------------------------------
(* pushInitiatorState and pullInitiatorState: applyPath transfers one      *)
(* filesystem of the path after the other.                                 *)

NewStage(i, k, stage) ==
  [NoJob EXCEPT !.id = i, !.dir = transfer[i].dir, !.at = "try", !.stage = stage,
                !.to = StageTarget(k, stage)]

(* A push needs the filesystem, a pull must not disturb a container.  What *)
(* is refused, or fails here, leaves no transfer record.                   *)
startTransfer(c, k, e) ==
  LET f == Taken(c, k, e)
      i == e.arg
      allowed == IF transfer[i].dir = "push" THEN f.state = "active" ELSE ~f.container
  IN /\ Takes(c, k, e)
     /\ e.op = "transfer"
     /\ f.state \in {"active", "missing"}
     /\ \/ /\ allowed
           /\ fs' = [fs EXCEPT ![c][k] = Goto(f, "initiator")]
           /\ job' = [job EXCEPT ![c][k] = NewStage(i, k, 1)]
           /\ transfer' = [transfer EXCEPT ![i] = [@ EXCEPT !.index = 1, !.total = k,
                                                            !.status = "syncing metadata"]]
           /\ UNCHANGED <<nextSnap, runs, faults>>
        \/ /\ Local(c, k, Goto(f, "discovering"))
           /\ IF allowed THEN Fault ELSE UNCHANGED faults

(* The job of fsMachine k of cluster c ends, and the record keeps status.  *)
EndJob(c, k, table, status) ==
  /\ job' = [job EXCEPT ![c][k] = NoJob]
  /\ fs' = [table EXCEPT ![c][k].state = "discovering"]
  /\ transfer' = [transfer EXCEPT ![job[c][k].id].status = status]

(* An attempt failed: retryPush looks at both lists again, but keeps the   *)
(* target it had found; retryPull sends the same range again.              *)
Retry(c, k, to, table) ==
  LET j == job[c][k]
  IN IF j.tries + 1 = MaxTries THEN EndJob(c, k, table, "error")
     ELSE /\ job' = [job EXCEPT ![c][k] = [j EXCEPT !.tries = @ + 1, !.to = to, !.left = << >>,
                                  !.at = IF j.dir = "push" THEN "try" ELSE "send"]]
          /\ fs' = table
          /\ transfer' = [transfer EXCEPT ![j.id].status = "retry"]

StageDone(c, k, to, table) ==
  LET i == job[c][k].id
  IN /\ job' = [job EXCEPT ![c][k] = [@ EXCEPT !.at = "applied", !.to = to, !.left = << >>]]
     /\ fs' = table
     /\ transfer' = [transfer EXCEPT ![i] = [transfer[i] EXCEPT !.status = "finished",
                                                                !.goal = Append(@, to)]]

(* RegisterTransfer on the peer: a "peer-transfer" event for its fsMachine. *)
RegisterTransfer(d, s, to) == [fs EXCEPT ![d][s].requests = @ \cup {Item("peer", to)}]

(* retryPush: the target is fixed by the first attempt that knows it; the  *)
(* peer's list is asked for, compared, and the peer told what to expect.   *)
retryPush(c, k) ==
  LET j      == job[c][k]
      s      == j.stage
      own    == fs[c][s]
      remote == fs[Peer(c)][s]
      to     == IF j.to = NilSnap THEN Latest(own.cache) ELSE j.to
      cut    == restrictSnapshots(own.memory, to)
      range  == canApply(cut.snaps, remote.cache)
      asked  == CommitsKnown(remote) /\ to # NilSnap /\ cut.found
      told   == RegisterTransfer(Peer(c), s, range.toSnap)
  IN /\ j.at = "try" /\ j.dir = "push"
     /\ \/ /\ asked /\ range.err = "ToSnapsUpToDate"
           /\ StageDone(c, k, to, fs)
           /\ UNCHANGED faults
        \/ /\ asked /\ range.err = "ok"
           /\ job' = [job EXCEPT ![c][k] = [@ EXCEPT !.at = "send", !.from = range.fromSnap,
                                                     !.to = to]]
           /\ fs' = told
           /\ transfer' = [transfer EXCEPT ![j.id].status = "sending"]
           /\ UNCHANGED faults
        \/ /\ ~asked \/ range.err \notin {"ToSnapsUpToDate", "ok"}
           /\ Retry(c, k, to, fs)
           /\ UNCHANGED faults
        \/ /\ Fault
           /\ \/ Retry(c, k, to, fs)
              \/ asked /\ range.err = "ok" /\ Retry(c, k, to, told)
     /\ UNCHANGED <<nextSnap, runs>>

(* retryPull decides once what to fetch; an error here ends the transfer.  *)
retryPull(c, k) ==
  LET j      == job[c][k]
      s      == j.stage
      remote == fs[Peer(c)][s]
      to     == IF j.to = NilSnap THEN Latest(remote.cache) ELSE j.to
      cut    == restrictSnapshots(remote.cache, to)
      range  == canApply(cut.snaps, fs[c][s].memory)
      asked  == /\ CommitsKnown(remote) /\ to # NilSnap /\ cut.found
                /\ fs[c][s].state # "none"
  IN /\ j.at = "try" /\ j.dir = "pull"
     /\ \/ /\ asked /\ range.err = "ToSnapsUpToDate"
           /\ StageDone(c, k, to, fs)
           /\ UNCHANGED faults
        \/ /\ asked /\ range.err = "ok"
           /\ job' = [job EXCEPT ![c][k] = [@ EXCEPT !.at = "send", !.from = range.fromSnap,
                                                     !.to = to]]
           /\ transfer' = [transfer EXCEPT ![j.id].status = "sending"]
           /\ UNCHANGED <<fs, faults>>
        \/ /\ EndJob(c, k, fs, "error")
           /\ IF asked /\ range.err \in {"ToSnapsUpToDate", "ok"} THEN Fault
              ELSE UNCHANGED faults
     /\ UNCHANGED <<nextSnap, runs>>

(* `zfs recv` wants no filesystem, but the origin of a clone, or one that  *)
(* ends with fromSnap and was not written to since.                        *)
Accepts(d, s, from) ==
  IF from = NilSnap
    THEN /\ fs[d][s].pool = << >>
         /\ s > 1 => Origin(s - 1) \in ToSet(fs[d][s - 1].pool)
    ELSE /\ fs[d][s].pool # << >> /\ Last(fs[d][s].pool) = from
         /\ ~fs[d][s].dirty

(* ZFSReceiver on the peer: a master takes a stream in pushPeerState only. *)
(* ZFSSender on the peer: a master that knows the snapshot sends it.       *)
Receives(d, s) == fs[d][s].state # "none"
                    /\ (fs[d][s].known => fs[d][s].state \in PushPeerState)

Previous(snaps, id) ==
  IF IndexOf(snaps, id) = 1 THEN NilSnap ELSE snaps[IndexOf(snaps, id) - 1]

(* Both ends agree to what push and pull ask of them.                      *)
Opens(j) ==
  LET src == fs[Source(j.id)][j.stage]
      d   == Destination(j.id)
  IN /\ j.dir = "push" => Receives(d, j.stage)
     /\ j.dir = "pull" => src.known
     /\ restrictSnapshots(src.cache, j.to).found
     /\ CanSend(src.pool, j.from, j.to)
     /\ Accepts(d, j.stage, j.from)

(* push and pull open the stream, or the attempt has failed.               *)
send(c, k) ==
  LET j   == job[c][k]
      src == fs[Source(j.id)][j.stage]
  IN /\ j.at = "send"
     /\ \/ /\ Opens(j)
           /\ job' = [job EXCEPT ![c][k] = [@ EXCEPT !.at = "stream",
                                  !.left = SendStream(src.pool, j.from, j.to)]]
           /\ transfer' = [transfer EXCEPT ![j.id].status = "sending"]
           /\ UNCHANGED <<fs, faults>>
        \/ /\ Retry(c, k, j.to, fs)
           /\ IF Opens(j) THEN Fault ELSE UNCHANGED faults
     /\ UNCHANGED <<nextSnap, runs>>

(* A whole snapshot of the stream is received, if the filesystem is still  *)
(* where the stream expects it; or the stream breaks.                      *)
recvSnapshot(c, k) ==
  LET j == job[c][k]
      s == j.stage
      d == Destination(j.id)
      fits == Accepts(d, s, Previous(fs[Source(j.id)][s].pool, Head(j.left)))
  IN /\ j.at = "stream" /\ j.left # << >>
     /\ \/ /\ fits
           /\ fs' = [fs EXCEPT ![d][s].pool = Append(@, Head(j.left))]
           /\ job' = [job EXCEPT ![c][k].left = Tail(@)]
           /\ UNCHANGED <<transfer, faults>>
        \/ /\ Retry(c, k, j.to, fs)
           /\ IF fits THEN Fault ELSE UNCHANGED faults
     /\ UNCHANGED <<nextSnap, runs>>

StreamedPartly(j) == j.at = "stream"   \* mutant: zfs recv's exit status is ignored

Streamed(j) == j.at = "stream" /\ j.left = << >>

(* The goroutine sends on externalSnapshotsChanged when someone receives.  *)
notifyNewSnapshotsAfterPush(f) == [f EXCEPT !.arrived = @ + 1]

(* The stream has ended.  ZFSReceiver starts notifyNewSnapshotsAfterPush   *)
(* and answers 200.  What can fail is applyPrelude, before the goroutine   *)
(* is started, and the answer, after.                                      *)
recvEnds(c, k) ==
  LET j == job[c][k]
      notified == IF j.dir = "pull" THEN fs
                  ELSE [fs EXCEPT ![Destination(j.id)][j.stage] = notifyNewSnapshotsAfterPush(@)]
  IN /\ Streamed(j)
     /\ \/ StageDone(c, k, j.to, notified) /\ UNCHANGED faults
        \/ Fault /\ \E table \in {fs, notified} : Retry(c, k, j.to, table)
     /\ UNCHANGED <<nextSnap, runs>>

indexUnbounded(t) == t.index + 1   \* mutant: no comparison with the total

indexKept(t) == t.index   \* mutant: the last stage does not count

incrementPollResultIndex(t) == IF t.index < t.total THEN t.index + 1 ELSE t.index

maybeMountFilesystem(f) ==
  IF f.state # "none" /\ f.known /\ ~f.mounted THEN mount(f) ELSE f

(* applyPath after a stage: maybeMountFilesystem on this cluster, then     *)
(* incrementPollResultIndex, which leaves the status as it is.  A mount    *)
(* that fails ends the transfer without an "error" in the record.          *)
applied(c, k) ==
  LET j == job[c][k]
      s == j.stage
      i == j.id
      table == [fs EXCEPT ![c][s] = maybeMountFilesystem(@)]
  IN /\ j.at = "applied"
     /\ \/ /\ transfer' = [transfer EXCEPT ![i].index = incrementPollResultIndex(transfer[i])]
           /\ IF s = k
                THEN /\ job' = [job EXCEPT ![c][k] = NoJob]
                     /\ fs' = [table EXCEPT ![c][k].state = "discovering"]
                ELSE /\ job' = [job EXCEPT ![c][k] = NewStage(i, k, s + 1)]
                     /\ fs' = table
           /\ UNCHANGED faults
        \/ Fault /\ EndJob(c, k, fs, transfer[i].status)
     /\ UNCHANGED <<nextSnap, runs>>

-----------------------------------------------------------------------------
(* pushPeerState.                                                          *)

(* A "peer-transfer" event.  From now on the state is pushPeerState, which *)
(* is subscribed to the news, and ZFSReceiver takes a stream.              *)
startPeer(c, k, e) ==
  LET f == [Taken(c, k, e) EXCEPT !.target = e.arg]
  IN /\ Takes(c, k, e)
     /\ e.op = "peer"
     /\ f.state \in {"active", "missing"}
     /\ Local(c, k, Goto(f, "pushPeerStart"))
     /\ UNCHANGED faults

(* The early exits: containers must not be running (or the list of them    *)
(* is not to be had), and the snapshot may be here already.                *)
exitEarly(c, k) ==
  LET f == fs[c][k]
  IN /\ f.state = "pushPeerStart"
     /\ \/ /\ Local(c, k, IF f.container THEN Goto(f, "discovering")
                           ELSE IF f.target \in ToSet(f.cache) THEN Goto(f, "active")
                           ELSE [f EXCEPT !.state = "pushPeer"])
           /\ UNCHANGED faults
        \/ Local(c, k, Goto(f, "discovering")) /\ Fault

externalSnapshotsChanged(c, k) ==
  /\ fs[c][k].state = "pushPeer"
  /\ fs[c][k].arrived > 0
  /\ Local(c, k, [fs[c][k] EXCEPT !.arrived = @ - 1, !.loading = TRUE, !.state = "pushPeerLoad"])
  /\ UNCHANGED faults

(* The inline load runs in a goroutine of its own.                         *)
inlineLoad(c, k) ==
  /\ fs[c][k].loading
  /\ Local(c, k, [Discovered(fs[c][k]) EXCEPT !.loading = FALSE])
  /\ UNCHANGED faults

(* The news names the latest snapshot of some list; only the target will   *)
(* do, anything else means waiting for another push to complete.           *)
newSnapsOnMaster(c, k) ==
  LET f == fs[c][k]
  IN /\ f.state = "pushPeerLoad"
     /\ \E latest \in f.news :
          IF latest # f.target
            THEN /\ Local(c, k, [f EXCEPT !.news = @ \ {latest}, !.state = "pushPeer"])
                 /\ UNCHANGED faults
            ELSE \/ /\ Local(c, k, Goto(mount(f), "active"))
                    /\ UNCHANGED faults
                 \/ ~f.mounted /\ Local(c, k, Goto(f, "discovering")) /\ Fault

(* Ten minutes without progress.                                           *)
pushPeerTimeout(c, k) ==
  /\ fs[c][k].state \in WaitingPeer
  /\ Fault
  /\ Local(c, k, Goto(fs[c][k], "discovering"))

-----------------------------------------------------------------------------
Initiator(c, k) ==
  \/ retryPush(c, k) \/ retryPull(c, k) \/ send(c, k) \/ recvSnapshot(c, k)
  \/ recvEnds(c, k) \/ applied(c, k)

Machine(c, k) ==
  \/ discover(c, k) \/ exitEarly(c, k) \/ externalSnapshotsChanged(c, k) \/ newSnapsOnMaster(c, k)
  \/ \E e \in fs[c][k].requests : \/ mountOrUnhandled(c, k, e) \/ startTransfer(c, k, e)
                                   \/ startPeer(c, k, e)

Users(c, k) ==
  \/ \E dir \in Directions : Transfer(c, k, dir)
  \/ commit(c, k) \/ containerRuns(c, k) \/ containerStops(c, k)

Next ==
  \/ \E c \in Clusters, k \in Filesystems :
       \/ Users(c, k) \/ updateMaster(c, k) \/ updateSnapshots(c, k)
       \/ Machine(c, k) \/ Initiator(c, k) \/ inlineLoad(c, k) \/ pushPeerTimeout(c, k)
  \/ \E i \in Transfers : PollTransfer(i)

Spec == Init /\ [][Next]_vars

(* The goroutines of a server run when they can, and `dm` keeps polling.   *)
(* Users need not do anything, and nothing has to fail or to time out.     *)
Fairness ==
  /\ \A c \in Clusters, k \in Filesystems :
       /\ WF_vars(updateMaster(c, k)) /\ WF_vars(updateSnapshots(c, k))
       /\ WF_vars(Machine(c, k)) /\ WF_vars(Initiator(c, k)) /\ WF_vars(inlineLoad(c, k))
  /\ \A i \in Transfers : WF_vars(PollTransfer(i))

FairSpec == Spec /\ Fairness

-----------------------------------------------------------------------------
(* Records keep their shape; a machine is in an initiator state exactly    *)
(* while it has a job; nobody but pushPeerState is subscribed to news; and *)
(* a transfer's index stays within its total.                              *)
TypeOK ==
  /\ fs \in [Clusters -> [Filesystems -> FsRecord]]
  /\ job \in [Clusters -> [Filesystems -> JobRecord]]
  /\ transfer \in [Transfers -> TransferRecord]
  /\ nextSnap \in Nat /\ runs \in 0 .. MaxRuns /\ faults \in 0 .. MaxFaults
  /\ \A c \in Clusters, k \in Filesystems :
       /\ (fs[c][k].state = "initiator") <=> (job[c][k].id \in Transfers)
       /\ fs[c][k].news # {} => fs[c][k].state \in PushPeerState
  /\ \A i \in Transfers : transfer[i].index <= transfer[i].total

(* Whatever retryPush or retryPull counted as a success, because it sent   *)
(* the snapshots or because the lists said they were there, is in the pool *)
(* of the destination: retries after half a stream, stale caches and       *)
(* commits in the meantime included.                                       *)
FinishedIsDelivered ==
  \A i \in Transfers : \A s \in DOMAIN transfer[i].goal :
    transfer[i].goal[s] \in ToSet(fs[Destination(i)][s].pool)

(* activeState hands the filesystem to containers and commits it: pushes   *)
(* that end in it, by any of pushPeerState's exits, have mounted it, also  *)
(* if the stages of a longer path were received by another machine.        *)
ActiveIsMounted ==
  \A c \in Clusters, k \in Filesystems : fs[c][k].state = "active" => fs[c][k].mounted

(* Once a transfer has begun, `dm` learns how it ends.                     *)
ClientLearns ==
  \A i \in Transfers :
    (transfer[i].client = "polling" /\ transfer[i].status # "none")
      ~> (transfer[i].client # "polling")

-----------------------------------------------------------------------------
(* What comments claim; the code does otherwise.                           *)

(* rpc.go:939: "Transfer will immediately return a transferId which can be *)
(* queried until completion".  A client that takes a transfer for finished *)
(* has every stage of it.                                                  *)
DoneIsDelivered ==
  \A i \in Transfers : transfer[i].client = "done" => Len(transfer[i].goal) = transfer[i].fs
=============================================================================
