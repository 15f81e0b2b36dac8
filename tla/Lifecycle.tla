------------------------------ MODULE Lifecycle ------------------------------
(***************************************************************************)
(* The life of a volume in a cluster: Create, Branch and Delete, the       *)
(* registry in etcd and its cache on every node, the start and the end of  *)
(* the fsMachines, the etcd watcher and the restart of a server, and       *)
(* cleanupDeletedFilesystems.  Modelled from rpc.go, controller.go,        *)
(* registry.go, etcd.go, main.go, utils.go and statemachines.go.           *)
(*                                                                         *)
(* There is one volume name.  Filesystems have ids; a volume's top-level   *)
(* filesystem has no origin and a branch is a zfs clone of another         *)
(* filesystem.  Snapshots, mounts and moves are the subject of Migration.  *)
(***************************************************************************)
EXTENDS Naturals, Sequences, FiniteSets

CONSTANTS
  Nodes,
  Home,           \* the node that has made what exists in the beginning
  NoNode,         \* the master of a filesystem that has none
  MaxIds,         \* bound: filesystems ever made
  Initial,        \* how many exist: a volume and Initial - 1 branches of it
  Branches,       \* the names users give to branches
  MaxCreates,     \* bound: Create calls
  MaxBranches,    \* bound: Branch calls
  MaxDeletes,     \* bound: Delete calls
  MaxCrashes,     \* bound: servers that stop and start again
  MaxCalls,       \* bound: all of these together
  MaxFailing      \* bound: reads of etcd may fail while there have been fewer calls

ASSUME NodesAssumption == Home \in Nodes /\ NoNode \notin Nodes
ASSUME IdsAssumption == MaxIds \in Nat /\ Initial \in 0 .. MaxIds
ASSUME BranchesAssumption == Branches \subseteq Nat \ {0} /\ 1 .. Initial - 1 \subseteq Branches
ASSUME CallsAssumption ==
  /\ MaxCreates \in Nat /\ MaxBranches \in Nat /\ MaxDeletes \in Nat
  /\ MaxCrashes \in Nat /\ MaxCalls \in Nat
ASSUME EtcdAssumption == MaxFailing \in Nat

VARIABLES
  names,          \* registry/filesystems/<namespace>/<name>: an id, or Nobody
  clones,         \* registry/clones/<top>/<branch>: a set of Entry
  masters,        \* filesystems/masters/<id>
  deleted,        \* filesystems/deleted/<id>: a set of ids
  pending,        \* filesystems/cleanupPending/<id>: a set of Audit
  origin,         \* the filesystem that a clone is a clone of, in zfs
  made,           \* ids 1 .. made have been given out
  node,           \* node[n]: the server and its pool, see NodeRecord
  creating,       \* creating[n]: a CreateFilesystem that runs on n
  deleting,       \* deleting[n]: a Delete that runs on n
  cleaning,       \* cleaning[n]: cleanupDeletedFilesystems on n
  calls           \* how many calls of each kind there have been

etcd == <<names, clones, masters, deleted, pending>>
ids == <<origin, made>>
rpcs == <<creating, deleting, cleaning>>
vars == <<etcd, ids, node, rpcs, calls>>

Ids == 1 .. MaxIds
Nobody == 0

(* A clone in the registry: its key (top, branch), its id and its origin.  *)
(* An audit trail names what cleanup has to remove: the volume's name, for *)
(* a top-level filesystem, or the clone.                                   *)
Entry == [top : Ids, branch : Branches, id : Ids, origin : Ids]
Audit == [id : Ids, top : Ids \cup {Nobody}, branch : Branches \cup {Nobody}]
NoEntry == [top |-> Nobody, branch |-> Nobody, id |-> Nobody, origin |-> Nobody]

(* A change in etcd that the watcher will see.                             *)
ChangeRecord ==
  [key : {"name"}, id : Ids \cup {Nobody}, entry : {NoEntry}]
    \cup [key : {"master", "deleted"}, id : Ids, entry : {NoEntry}]
    \cup [key : {"clone"}, id : Ids, entry : Entry]
    \cup [key : {"cloneGone"}, id : Ids, entry : {[NoEntry EXCEPT !.top = i] : i \in Ids}]
Change(key, id, entry) == [key |-> key, id |-> id, entry |-> entry]

(* Active and inactive machines are "present"; one that handles a clone    *)
(* event is "cloning"; backoff counts as discovering.                      *)
MachineStates == {"none", "discovering", "missing", "present", "cloning"}

(* filesystemsLock is "free" between two steps, or "held" by a goroutine   *)
(* that never lets go of it; fetchAndWatchEtcd, when it comes to need it,  *)
(* is "stuck".                                                             *)
Locks == {"free", "held", "stuck"}

NodeRecord ==
  [name : Ids \cup {Nobody},             \* Registry.TopLevelFilesystems
   clones : SUBSET Entry,                \* Registry.Clones
   machine : [Ids -> MachineStates],     \* InMemoryState.filesystems
   requests : [Ids -> SUBSET {"create", "delete"}],
   cloning : SUBSET Entry,               \* the clone that is to be made
   pool : SUBSET Ids,                    \* zfs list
   booting : SUBSET Ids,                 \* goroutines of main not yet run
   watching : BOOLEAN,                   \* fetchAndWatchEtcd is watching
   inbox : Seq(ChangeRecord),            \* changes it has yet to see
   serving : BOOLEAN,                    \* runServer has been called
   lock : Locks]                         \* InMemoryState.filesystemsLock

Started(pool, booting) ==
  [name |-> Nobody, clones |-> {}, machine |-> [i \in Ids |-> "none"],
   requests |-> [i \in Ids |-> {}], cloning |-> {}, pool |-> pool, booting |-> booting,
   watching |-> FALSE, inbox |-> << >>, serving |-> FALSE, lock |-> "free"]

(* The variables of CreateFilesystem, Delete and cleanup.                  *)
NoCreate == [at |-> "none", id |-> Nobody]
CreateRecord == {NoCreate} \cup [at : {"register", "check", "claim", "init", "wait"}, id : Ids]

NoDelete == [at |-> "none", root |-> Nobody, list |-> {}, todo |-> {}, id |-> Nobody]
DeleteRecord ==
  {NoDelete}
    \cup [at : {"mark", "unregister"}, root : Ids, list : SUBSET Entry, todo : SUBSET Ids,
          id : {Nobody}]
    \cup [at : {"pend", "wait"}, root : Ids, list : SUBSET Entry, todo : SUBSET Ids, id : Ids]

NoAudit == [id |-> Nobody, top |-> Nobody, branch |-> Nobody]
NoClean == [at |-> "none", audit |-> NoAudit]
CleanRecord == {NoClean} \cup [at : {"masters", "registry", "pending"}, audit : Audit]

Kinds == {"create", "branch", "delete", "crash"}

Init ==
  LET there == 1 .. Initial
      branches == {[top |-> 1, branch |-> k - 1, id |-> k, origin |-> 1] : k \in there \ {1}}
      first == IF Initial = 0 THEN Nobody ELSE 1
  IN /\ names = first
     /\ clones = branches
     /\ masters = [i \in Ids |-> IF i \in there THEN Home ELSE NoNode]
     /\ deleted = {}
     /\ pending = {}
     /\ origin = [i \in Ids |-> IF i \in there \ {1} THEN 1 ELSE Nobody]
     /\ made = Initial
     /\ node = [n \in Nodes |->
                  [Started(there, {}) EXCEPT
                     !.name = first, !.clones = branches, !.watching = TRUE, !.serving = TRUE,
                     !.machine = [i \in Ids |-> IF i \in there THEN "present" ELSE "none"]]]
     /\ creating = [n \in Nodes |-> NoCreate]
     /\ deleting = [n \in Nodes |-> NoDelete]
     /\ cleaning = [n \in Nodes |-> NoClean]
     /\ calls = [k \in Kinds |-> 0]

MaxOf(kind) == CASE kind = "create" -> MaxCreates [] kind = "branch" -> MaxBranches
                 [] kind = "delete" -> MaxDeletes [] kind = "crash" -> MaxCrashes

callsMade == calls["create"] + calls["branch"] + calls["delete"] + calls["crash"]

Call(kind) ==
  /\ calls[kind] < MaxOf(kind)
  /\ callsMade < MaxCalls
  /\ calls' = [calls EXCEPT ![kind] = @ + 1]

(* A read of etcd may fail.                                                *)
EtcdFails == callsMade < MaxFailing

-----------------------------------------------------------------------------
(* The fsMachines of a node and its pool.  s is a NodeRecord.              *)

destroyAlways(pool, i) == pool \ {i}   \* mutant: zfs destroy -R

(* zfs destroy -r refuses while a clone of the filesystem exists.          *)
destroy(pool, i) == IF \E j \in pool : origin[j] = i THEN pool ELSE pool \ {i}

(* deleteFilesystem takes the lock, logs what zfs says, and never fails.   *)
deleteFilesystem(s, i) ==
  [s EXCEPT !.machine[i] = "none", !.requests[i] = {}, !.pool = destroy(@, i)]

(* initFilesystemMachine holds the lock from its first line to its last.   *)
(* Without a machine it asks etcd whether the filesystem is deleted; if    *)
(* so it calls deleteFilesystem, which waits for the lock that its caller  *)
(* holds: neither of the two ever goes on.  These are the records s may    *)
(* become; where the lock is not free, the caller is stuck as well.        *)
initFilesystemMachine(s, i) ==
  IF s.lock # "free" \/ s.machine[i] # "none" THEN {s}
  ELSE {IF i \in deleted THEN [s EXCEPT !.lock = "held"]
                         ELSE [s EXCEPT !.machine[i] = "discovering"]}
         \cup (IF EtcdFails THEN {s} ELSE {})

(* Everybody that watches etcd will hear of the change.                    *)
Tell(table, change) ==
  [n \in Nodes |-> IF table[n].watching THEN [table[n] EXCEPT !.inbox = Append(@, change)]
                                        ELSE table[n]]

(* waitForFilesystemDeath hears of filesystem i: Delete goes on with the   *)
(* next one, or unregisters the volume.                                    *)
Heard(d, i) ==
  IF d.at = "wait" /\ d.id = i
    THEN [d EXCEPT !.at = IF d.todo = {i} THEN "unregister" ELSE "mark",
                   !.todo = d.todo \ {i}, !.id = Nobody]
    ELSE d

(* The machine ends: deleteFilesystem, then its death is published, to a   *)
(* Delete that is waiting for it by now.                                   *)
Dies(n, i) ==
  /\ node[n].lock = "free"
  /\ node' = [node EXCEPT ![n] = deleteFilesystem(@, i)]
  /\ deleting' = [deleting EXCEPT ![n] = Heard(@, i)]
  /\ UNCHANGED <<etcd, ids, creating, cleaning, calls>>

Steps(n, s) == node' = [node EXCEPT ![n] = s] /\ UNCHANGED <<etcd, ids, rpcs, calls>>

(* discoveringState: the snapshots of what is not deleted are published,   *)
(* with the lock.  missingState begins with a look at filesystems/deleted. *)
discover(n, i) ==
  /\ node[n].machine[i] = "discovering"
  /\ node[n].lock = "free" \/ i \in deleted
  /\ \/ i \in node[n].pool /\ Steps(n, [node[n] EXCEPT !.machine[i] = "present"])
     \/ i \notin node[n].pool /\ i \in deleted /\ Dies(n, i)
     \/ i \notin node[n].pool /\ i \notin deleted
        /\ Steps(n, [node[n] EXCEPT !.machine[i] = "missing"])

(* receivingState: the whole filesystem arrives, or something fails.       *)
receive(n, i) ==
  /\ node[n].machine[i] = "missing"
  /\ masters[i] \in Nodes \ {n}
  /\ \/ /\ node[masters[i]].serving /\ i \in node[masters[i]].pool
        /\ origin[i] # Nobody => origin[i] \in node[n].pool
        /\ Steps(n, [node[n] EXCEPT !.machine[i] = "discovering", !.pool = @ \cup {i}])
     \/ Steps(n, [node[n] EXCEPT !.machine[i] = "discovering"])

handleDelete(n, i) ==
  /\ "delete" \in node[n].requests[i]
  /\ node[n].machine[i] \in {"missing", "present"}
  /\ Dies(n, i)

(* missingState's "create": zfs create, mount, and the answer "created";   *)
(* or a command fails, which is the answer, and the machine backs off.     *)
handleCreate(n, i) ==
  /\ "create" \in node[n].requests[i]
  /\ node[n].machine[i] = "missing"
  /\ LET s == [node[n] EXCEPT !.requests[i] = @ \ {"create"}]
     IN \/ node' = [node EXCEPT ![n] = [s EXCEPT !.machine[i] = "present", !.pool = @ \cup {i}]]
        \/ node' = [node EXCEPT ![n] = [s EXCEPT !.machine[i] = "discovering"]]
  /\ creating' = [creating EXCEPT ![n] = NoCreate]
  /\ UNCHANGED <<etcd, ids, deleting, cleaning, calls>>

-----------------------------------------------------------------------------
(* Create.                                                                 *)

(* CreateFilesystem looks the name up in etcd, not in the cache.           *)
Create(n) ==
  /\ Call("create")
  /\ node[n].serving /\ creating[n].at = "none"
  /\ \/ /\ names = Nobody /\ made < MaxIds
        /\ made' = made + 1
        /\ creating' = [creating EXCEPT ![n] = [at |-> "register", id |-> made + 1]]
     \/ /\ names # Nobody
        /\ creating' = [creating EXCEPT ![n] = [at |-> "check", id |-> names]]
        /\ UNCHANGED made
  /\ UNCHANGED <<etcd, origin, node, deleting, cleaning>>

NextCreate(n, at) == creating' = [creating EXCEPT ![n] = IF at = "none" THEN NoCreate
                                                         ELSE [@ EXCEPT !.at = at]]

(* RegisterFilesystem: PrevNoExist, and the own cache at once.             *)
RegisterFilesystem(n) ==
  /\ creating[n].at = "register"
  /\ IF names = Nobody
       THEN /\ names' = creating[n].id
            /\ node' = [Tell(node, Change("name", creating[n].id, NoEntry))
                          EXCEPT ![n].name = creating[n].id]
            /\ NextCreate(n, "claim")
       ELSE NextCreate(n, "none") /\ UNCHANGED <<names, node>>
  /\ UNCHANGED <<clones, masters, deleted, pending, ids, deleting, cleaning, calls>>

(* The name may belong to a Create that went no further.                   *)
checkMaster(n) ==
  /\ creating[n].at = "check"
  /\ NextCreate(n, IF masters[creating[n].id] = NoNode THEN "claim" ELSE "none")
  /\ UNCHANGED <<etcd, ids, node, deleting, cleaning, calls>>

(* debugPartialFailCreateFilesystem, or any error of etcd.                 *)
abandonCreate(n) ==
  /\ creating[n].at = "claim"
  /\ NextCreate(n, "none")
  /\ UNCHANGED <<etcd, ids, node, deleting, cleaning, calls>>

claimAlways(i) == i \in Ids   \* mutant: the Set without PrevNoExist

claimable(i) == masters[i] = NoNode

claimMaster(n) ==
  LET i == creating[n].id
  IN /\ creating[n].at = "claim"
     /\ IF claimable(i)
          THEN /\ masters' = [masters EXCEPT ![i] = n]
               /\ node' = Tell(node, Change("master", i, NoEntry))
               /\ NextCreate(n, "init")
          ELSE NextCreate(n, "none") /\ UNCHANGED <<masters, node>>
     /\ UNCHANGED <<names, clones, deleted, pending, ids, deleting, cleaning, calls>>

(* initFilesystemMachine and the "create" event, if there is a machine.    *)
dispatchCreate(n) ==
  LET i == creating[n].id
  IN /\ creating[n].at = "init"
     /\ \E s \in initFilesystemMachine(node[n], i) :
          \/ /\ s.lock # "free"
             /\ node' = [node EXCEPT ![n] = s] /\ UNCHANGED creating
          \/ /\ s.lock = "free" /\ s.machine[i] = "none"
             /\ NextCreate(n, "none") /\ node' = [node EXCEPT ![n] = s]
          \/ /\ s.lock = "free" /\ s.machine[i] # "none"
             /\ NextCreate(n, "wait")
             /\ node' = [node EXCEPT ![n] = [s EXCEPT !.requests[i] = @ \cup {"create"}]]
     /\ UNCHANGED <<etcd, ids, deleting, cleaning, calls>>

-----------------------------------------------------------------------------
(* Branch.                                                                 *)

Overwrite(entries, e) == {x \in entries : <<x.top, x.branch>> # <<e.top, e.branch>>} \cup {e}

(* The clone that the "clone" event of a machine registers, under an id of *)
(* its own.                                                                *)
BranchEntry(m, source, branch) ==
  [top |-> node[m].name, branch |-> branch, id |-> made + 1, origin |-> source]

(* Branch looks up the volume and the source branch in the cache of the    *)
(* node m that is asked; the machine of the source registers the clone:    *)
(* RegisterClone overwrites the cache and does not look at the outcome of  *)
(* its Set with PrevNoExist.                                               *)
Branch(m, n, source, branch) ==
  LET e == BranchEntry(m, source, branch)
      free == \A x \in clones : <<x.top, x.branch>> # <<e.top, e.branch>>
      s == [node[n] EXCEPT !.clones = Overwrite(@, e), !.cloning = {e},
                           !.machine[source] = "cloning"]
      table == [node EXCEPT ![n] = s]
  IN /\ Call("branch")
     /\ node[m].serving /\ node[m].name # Nobody
     /\ source = node[m].name \/ \E x \in node[m].clones : x.top = node[m].name /\ x.id = source
     /\ masters[source] = n /\ node[n].machine[source] = "present" /\ node[n].cloning = {}
     /\ made < MaxIds
     /\ made' = made + 1
     /\ clones' = IF free THEN clones \cup {e} ELSE clones
     /\ node' = IF free THEN Tell(table, Change("clone", e.id, e)) ELSE table
     /\ UNCHANGED <<names, masters, deleted, pending, origin, rpcs>>

(* zfs clone, initFilesystemMachine for the clone, and, unless that is     *)
(* stuck, its masters key and the answer.                                  *)
clone(n) ==
  /\ \E e \in node[n].cloning :
       /\ origin' = [origin EXCEPT ![e.id] = e.origin]
       /\ LET s == [node[n] EXCEPT !.cloning = {}, !.pool = @ \cup {e.id}]
          IN \E t \in initFilesystemMachine(s, e.id) :
               IF t.lock # "free"
                 THEN node' = [node EXCEPT ![n] = t] /\ UNCHANGED masters
                 ELSE /\ masters' = [masters EXCEPT ![e.id] = n]
                      /\ node' = Tell([node EXCEPT ![n] = [t EXCEPT !.machine[e.origin] = "present"]],
                                      Change("master", e.id, NoEntry))
  /\ UNCHANGED <<names, clones, deleted, pending, made, rpcs, calls>>

(* Or zfs clone fails, for want of the commit, and the registry has a      *)
(* clone that does not exist.                                              *)
cloneFails(n) ==
  \E e \in node[n].cloning :
    Steps(n, [node[n] EXCEPT !.cloning = {}, !.machine[e.origin] = "discovering"])

-----------------------------------------------------------------------------
(* Delete.                                                                 *)

(* What the recursion over origins reaches from the root: the least set    *)
(* with the root that has the clones of its members.                       *)
Descendants(entries, root) ==
  {i \in Ids : \A S \in SUBSET Ids :
     (root \in S /\ \A e \in entries : e.origin \in S => e.id \in S) => i \in S}

(* Delete works from the cache: the clones are those it knows of.          *)
Delete(n) ==
  LET root == node[n].name
      known == {e \in node[n].clones : e.top = root}
  IN /\ Call("delete")
     /\ node[n].serving /\ root # Nobody /\ deleting[n].at = "none"
     /\ deleting' = [deleting EXCEPT ![n] =
          [at |-> "mark", root |-> root, list |-> known,
           todo |-> Descendants(known, root), id |-> Nobody]]
     /\ UNCHANGED <<etcd, ids, node, creating, cleaning>>

anyNext(d) == d.todo   \* mutant: not sorted

(* sortFilesystemsInDeletionOrder: children before their origin.           *)
deletableNext(d) == {i \in d.todo : \A e \in d.list : e.origin = i => e.id \notin d.todo}

(* The Set of filesystems/deleted/<id>, with PrevNoExist.                  *)
markDeleted(n) ==
  LET d == deleting[n]
  IN /\ d.at = "mark"
     /\ \E i \in deletableNext(d) :
          IF i \in deleted
            THEN /\ deleting' = [deleting EXCEPT ![n] = NoDelete]
                 /\ UNCHANGED <<deleted, node>>
            ELSE /\ deleted' = deleted \cup {i}
                 /\ node' = Tell(node, Change("deleted", i, NoEntry))
                 /\ deleting' = [deleting EXCEPT ![n] = [d EXCEPT !.at = "pend", !.id = i]]
     /\ UNCHANGED <<names, clones, masters, pending, ids, creating, cleaning, calls>>

AuditOf(d) ==
  IF d.id = d.root THEN [id |-> d.id, top |-> Nobody, branch |-> Nobody]
  ELSE LET e == CHOOSE x \in d.list : x.id = d.id
       IN [id |-> d.id, top |-> d.root, branch |-> e.branch]

(* The Set of filesystems/cleanupPending/<id>; then waitForFilesystemDeath *)
(* subscribes.                                                             *)
markPending(n) ==
  /\ deleting[n].at = "pend"
  /\ pending' = pending \cup {AuditOf(deleting[n])}
  /\ deleting' = [deleting EXCEPT ![n].at = "wait"]
  /\ UNCHANGED <<names, clones, masters, deleted, ids, node, creating, cleaning, calls>>

(* UnregisterFilesystem: by name, whatever the name stands for by now.     *)
UnregisterFilesystem(n) ==
  /\ deleting[n].at = "unregister"
  /\ names' = Nobody
  /\ node' = IF names = Nobody THEN node ELSE Tell(node, Change("name", Nobody, NoEntry))
  /\ deleting' = [deleting EXCEPT ![n] = NoDelete]
  /\ UNCHANGED <<clones, masters, deleted, pending, ids, creating, cleaning, calls>>

-----------------------------------------------------------------------------
(* cleanupDeletedFilesystems.                                              *)

NextClean(n, at) == cleaning' = [cleaning EXCEPT ![n] = IF at = "none" THEN NoClean
                                                        ELSE [@ EXCEPT !.at = at]]

(* The live key of a filesystem expires after FilesystemMetadataTimeout    *)
(* (ten minutes) without a machine on any node.  It is assumed that a      *)
(* Delete gets from the death of the filesystem to its Unregister in that  *)
(* time.                                                                   *)
Expired(i) ==
  \A m \in Nodes : /\ node[m].machine[i] = "none"
                   /\ ~(deleting[m].at = "unregister" /\ deleting[m].root = i)

listFilesystemsPendingCleanup(n) ==
  /\ cleaning[n].at = "none"
  /\ \E a \in pending : /\ Expired(a.id)
                        /\ cleaning' = [cleaning EXCEPT ![n] = [at |-> "masters", audit |-> a]]
  /\ UNCHANGED <<etcd, ids, node, creating, deleting, calls>>

cleanMasters(n) ==
  /\ cleaning[n].at = "masters"
  /\ masters' = [masters EXCEPT ![cleaning[n].audit.id] = NoNode]
  /\ NextClean(n, "registry")
  /\ UNCHANGED <<names, clones, deleted, pending, ids, node, creating, deleting, calls>>

isTopLevel(a) == a.top = Nobody   \* mutant: the id in the registry is not compared

isNamed(a) == names = a.id

(* The volume's name, if it still stands for the deleted filesystem, or    *)
(* the clone's key.                                                        *)
cleanRegistry(n) ==
  LET a == cleaning[n].audit
      gone == {e \in clones : e.top = a.top /\ e.branch = a.branch}
  IN /\ cleaning[n].at = "registry"
     /\ IF a.top = Nobody
          THEN IF isNamed(a)
                 THEN /\ names' = Nobody
                      /\ node' = Tell(node, Change("name", Nobody, NoEntry))
                      /\ UNCHANGED clones
                 ELSE UNCHANGED <<names, node, clones>>
          ELSE /\ clones' = clones \ gone
               /\ node' = IF gone = {} THEN node
                          ELSE Tell(node, Change("cloneGone", a.id, [NoEntry EXCEPT !.top = a.top]))
               /\ UNCHANGED names
     /\ NextClean(n, "pending")
     /\ UNCHANGED <<masters, deleted, pending, ids, creating, deleting, calls>>

cleanPending(n) ==
  /\ cleaning[n].at = "pending"
  /\ pending' = {a \in pending : a.id # cleaning[n].audit.id}
  /\ NextClean(n, "none")
  /\ UNCHANGED <<names, clones, masters, deleted, ids, node, creating, deleting, calls>>

-----------------------------------------------------------------------------
(* The etcd watcher, start and restart.                                    *)

(* dispatchEvent fails without a machine, and fetchAndWatchEtcd with it:   *)
(* the changes that it has not seen are not replayed.                      *)
Dispatch(s, i, served) ==
  IF s.lock # "free" THEN [s EXCEPT !.lock = "stuck"]
  ELSE IF s.machine[i] = "none" THEN [s EXCEPT !.watching = FALSE, !.inbox = << >>]
  ELSE served

(* handleOneFilesystemMaster: "mount" or "unmount"; neither is handled in  *)
(* missingState, which goes to backoff and discovers again.                *)
handleOneFilesystemMaster(t, i) ==
  {Dispatch(s, i, [s EXCEPT !.machine[i] = IF @ = "missing" THEN "discovering" ELSE @]) :
     s \in initFilesystemMachine(t, i)}

handleOneFilesystemDeletion(t, i) ==
  {Dispatch(s, i, [s EXCEPT !.requests[i] = @ \cup {"delete"}]) :
     s \in initFilesystemMachine(t, i)}

(* DeleteCloneFromEtcd forgets every clone of the volume.                  *)
Seen(s, c) ==
  CASE c.key = "name" -> {[s EXCEPT !.name = c.id]}
    [] c.key = "clone" -> {[s EXCEPT !.clones = Overwrite(@, c.entry)]}
    [] c.key = "cloneGone" -> {[s EXCEPT !.clones = {e \in @ : e.top # c.entry.top}]}
    [] c.key = "master" -> handleOneFilesystemMaster(s, c.id)
    [] c.key = "deleted" -> handleOneFilesystemDeletion(s, c.id)

watch(n) ==
  /\ node[n].watching /\ node[n].lock # "stuck" /\ node[n].inbox # << >>
  /\ \E s \in Seen([node[n] EXCEPT !.inbox = Tail(@)], Head(node[n].inbox)) : Steps(n, s)

(* fetchAndWatchEtcd handles the masters first, in no particular order,    *)
(* and is stuck at one that is deleted and has no machine; it does not     *)
(* look at filesystems/deleted, and removes nothing from the cache.  An    *)
(* error of etcd ends it at any of the keys, and it is called again.       *)
fetch(n) ==
  LET free == node[n].lock = "free"
      present == {i \in Ids : masters[i] # NoNode}
      failing == {i \in present : i \in deleted /\ node[n].machine[i] = "none"}
      after(done) == [node[n] EXCEPT !.machine = [i \in Ids |->
                        IF i \notin done THEN @[i]
                        ELSE IF @[i] \in {"none", "missing"} THEN "discovering" ELSE @[i]]]
      overwritten(s) == {x \in s.clones : \A e \in clones :
                           <<x.top, x.branch>> # <<e.top, e.branch>>}
      fetched(s) == [s EXCEPT !.name = IF names = Nobody THEN @ ELSE names,
                              !.clones = overwritten(s) \cup clones,
                              !.watching = TRUE, !.serving = TRUE]
  IN /\ ~node[n].watching /\ node[n].lock # "stuck"
     /\ \/ /\ present = {} \/ (free /\ failing = {})
           /\ Steps(n, fetched(after(present)))
        \/ /\ EtcdFails /\ free
           /\ \E done \in SUBSET (present \ failing) : Steps(n, after(done))
        \/ /\ ~free \/ failing # {}
           /\ \E done \in SUBSET (IF free THEN present \ failing ELSE {}) :
                Steps(n, [after(done) EXCEPT !.lock = "stuck"])

(* The server stops and is started again.  main starts a goroutine for     *)
(* every filesystem in the pool; they share the loop's variable, so that   *)
(* some may be started twice and others not at all.                        *)
crash(n) ==
  /\ Call("crash")
  /\ \E started \in SUBSET node[n].pool :
       /\ started = {} => node[n].pool = {}
       /\ node' = [node EXCEPT ![n] = Started(@.pool, started)]
  /\ creating' = [creating EXCEPT ![n] = NoCreate]
  /\ deleting' = [deleting EXCEPT ![n] = NoDelete]
  /\ cleaning' = [cleaning EXCEPT ![n] = NoClean]
  /\ UNCHANGED <<etcd, ids>>

boot(n, i) ==
  /\ i \in node[n].booting
  /\ \E s \in initFilesystemMachine([node[n] EXCEPT !.booting = @ \ {i}], i) : Steps(n, s)

-----------------------------------------------------------------------------
Machine(n, i) == discover(n, i) \/ receive(n, i) \/ handleDelete(n, i) \/ handleCreate(n, i)

CreateSteps(n) == \/ RegisterFilesystem(n) \/ checkMaster(n) \/ claimMaster(n)
                  \/ dispatchCreate(n)

DeleteSteps(n) == markDeleted(n) \/ markPending(n) \/ UnregisterFilesystem(n)

Cleanup(n) == \/ listFilesystemsPendingCleanup(n) \/ cleanMasters(n) \/ cleanRegistry(n)
              \/ cleanPending(n)

Users(n) ==
  \/ Create(n) \/ Delete(n)
  \/ \E m \in Nodes, i \in Ids, b \in Branches : Branch(m, n, i, b)

Next ==
  \E n \in Nodes :
    \/ Users(n) \/ CreateSteps(n) \/ abandonCreate(n) \/ clone(n) \/ cloneFails(n)
    \/ DeleteSteps(n) \/ Cleanup(n) \/ watch(n) \/ fetch(n) \/ crash(n)
    \/ \E i \in Ids : Machine(n, i) \/ boot(n, i)

Spec == Init /\ [][Next]_vars

(* Weak fairness of the goroutines: Go schedules each of them.  Nobody has *)
(* to call anything.                                                       *)
Fairness ==
  \A n \in Nodes :
    /\ WF_vars(watch(n)) /\ WF_vars(fetch(n)) /\ WF_vars(DeleteSteps(n))
    /\ \A i \in Ids : WF_vars(boot(n, i)) /\ WF_vars(discover(n, i)) /\ WF_vars(handleDelete(n, i))

FairSpec == Spec /\ Fairness

-----------------------------------------------------------------------------
(* Records keep their shape; keys of the registry are unique; a machine    *)
(* that no longer runs has no requests; what Delete still has to mark and  *)
(* cleanup has still to remove is of a filesystem that was made; and a     *)
(* clone is never in a pool without its origin.                            *)
TypeOK ==
  /\ made \in 0 .. MaxIds /\ names \in 0 .. made /\ deleted \subseteq 1 .. made
  /\ clones \subseteq Entry /\ pending \subseteq Audit
  /\ masters \in [Ids -> Nodes \cup {NoNode}] /\ origin \in [Ids -> Ids \cup {Nobody}]
  /\ node \in [Nodes -> NodeRecord] /\ creating \in [Nodes -> CreateRecord]
  /\ deleting \in [Nodes -> DeleteRecord] /\ cleaning \in [Nodes -> CleanRecord]
  /\ calls \in [Kinds -> Nat]
  /\ \A x, y \in clones : <<x.top, x.branch>> = <<y.top, y.branch>> => x = y
  /\ \A a \in pending : a.id \in deleted
  /\ \A n \in Nodes :
       /\ node[n].name \in 0 .. made /\ deleting[n].todo \subseteq 1 .. made
       /\ node[n].pool \subseteq 1 .. made /\ node[n].booting \subseteq 1 .. made
       /\ \A i \in Ids : node[n].machine[i] = "none" => node[n].requests[i] = {}
       /\ \A i \in node[n].pool : origin[i] # Nobody => origin[i] \in node[n].pool

(* CreateFilesystem (controller.go:770): "synchronize with etcd first,     *)
(* setting master to us only if the key didn't previously exist, before    *)
(* actually creating the filesystem".  When zfs creates the filesystem,    *)
(* this node is its master and the volume's name leads to it, however many *)
(* Creates of the same name have been run, abandoned or resumed on other   *)
(* nodes, unless it is deleted already.                                    *)
CreatedIsThere ==
  [][\A n \in Nodes : LET i == creating[n].id IN
       (creating[n].at = "wait" /\ i \notin node[n].pool /\ i \in node'[n].pool)
         => (i \in deleted \/ (names = i /\ masters[i] = n))]_vars

(* cleanupDeletedFilesystems (etcd.go:315): "is it the one we're supposed  *)
(* to delete, or a newly-created volume with the name of the deleted one?" *)
(* Whoever removes a name, a Delete or the cleanup of any node, perhaps of *)
(* a volume that had the name before, the name's volume is deleted.        *)
NameKept == [][names # Nobody /\ names' # names => names \in deleted]_vars

(* Delete (rpc.go:1414): "We can't destroy a filesystem that's an origin   *)
(* for another filesystem, so ... destroy them leaves-first".  What Delete *)
(* has waited for is gone from the pool of its node, but for a filesystem  *)
(* with a clone that is not one of those that Delete has yet to come to.   *)
DeleteLeavesFirst ==
  [][\A n \in Nodes : LET d == deleting[n] IN
       (d.at = "wait" /\ deleting'[n].at \in {"mark", "unregister"})
         => (d.id \in node'[n].pool =>
               \E j \in node'[n].pool \ d.todo : origin[j] = d.id)]_vars

(* Delete (rpc.go:1446): "the system may end up in a state where some      *)
(* clones are gone, but the top-level filesystem remains and a new         *)
(* deletion on that should pick up where we left off".  Deleting a volume  *)
(* deletes all of its clones.                                              *)
DeletionResumes == \A e \in clones : e.top \in deleted => e.id \in deleted

(* Delete (rpc.go:1479): "there IS a chance that the deletions will happen *)
(* in the wrong order on other nodes in the cluster.  This may mean that   *)
(* some of them fail with an error, because their origins still exist.     *)
(* However, hopefully, the discovery-triggers-redeletion code will cause   *)
(* them to eventually be deleted."  A filesystem that is marked as deleted *)
(* does not stay in a pool.                                                *)
DeletedIsDestroyed ==
  \A n \in Nodes, i \in Ids :
    (i \in deleted /\ i \in node[n].pool) ~> i \notin node[n].pool
=============================================================================
