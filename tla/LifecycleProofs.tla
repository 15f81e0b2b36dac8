--------------------------- MODULE LifecycleProofs ---------------------------
(***************************************************************************)
(* Theorems about Lifecycle, for any number of nodes, filesystems, calls   *)
(* and crashes.                                                            *)
(***************************************************************************)
EXTENDS Lifecycle, WellFoundedInduction, TLAPS

(* The clones and the top-level filesystems that somebody knows of: the    *)
(* registry, a cache, a change that the watcher has yet to see, a running  *)
(* call.                                                                   *)
NodeEntry(s, e) ==
  \/ e \in s.clones \/ e \in s.cloning
  \/ \E k \in 1 .. Len(s.inbox) : s.inbox[k].key = "clone" /\ s.inbox[k].entry = e

NodeName(s, t) ==
  \/ t = s.name
  \/ \E k \in 1 .. Len(s.inbox) : s.inbox[k].key = "name" /\ s.inbox[k].id = t

IsEntry(e) ==
  e \in clones \/ \E n \in Nodes : NodeEntry(node[n], e) \/ e \in deleting[n].list

Named(n, t) ==
  \/ NodeName(node[n], t)
  \/ t = deleting[n].root
  \/ t = creating[n].id /\ creating[n].at # "register"

IsTop(t) == t = names \/ \E n \in Nodes : Named(n, t) \/ t = creating[n].id

(***************************************************************************)
(* Ids: a clone has a greater id than its origin, one entry, and is never  *)
(* a volume; zfs and the registry agree on origins.                        *)
(***************************************************************************)
EntriesAreMade == \A e : IsEntry(e) => e \in Entry /\ e.origin < e.id /\ e.id =< made

OneEntryPerClone == \A e, f : IsEntry(e) /\ IsEntry(f) /\ e.id = f.id => e = f

OriginsAgree == \A e : IsEntry(e) => origin[e.id] \in {Nobody, e.origin}

TopsAreMade ==
  \A t : IsTop(t) => /\ t \in 0 .. made
                     /\ \A e : IsEntry(e) => e.id # t
                     /\ t # Nobody => origin[t] = Nobody

FreshOrigin == \A i \in Ids : i > made => origin[i] = Nobody

IdsInv == EntriesAreMade /\ OneEntryPerClone /\ OriginsAgree /\ TopsAreMade /\ FreshOrigin

(***************************************************************************)
(* Nodes: a machine that is present or cloning has its filesystem; one     *)
(* that does not run has no requests; a clone is never in a pool without   *)
(* its origin.  A clone that is being made is in nobody's pool yet; only a *)
(* Create that waits for the answer has sent "create".                     *)
(***************************************************************************)
Sane(s) ==
  /\ \A i \in Ids : s.machine[i] \in {"present", "cloning"} => i \in s.pool
  /\ \A i \in Ids : s.machine[i] = "none" => s.requests[i] = {}
  /\ \A e \in s.cloning : s.machine[e.origin] = "cloning"
  /\ \A i \in s.pool : origin[i] # Nobody => origin[i] \in s.pool

NodesAreSane == \A n \in Nodes : Sane(node[n])

CloningIsNew ==
  \A n \in Nodes : \A e \in node[n].cloning :
    /\ origin[e.id] = Nobody
    /\ \A m \in Nodes : e.id \notin node[m].pool
    /\ \A m \in Nodes : \A f \in node[m].cloning : f.id = e.id => m = n

CreateIsWaiting ==
  \A n \in Nodes, i \in Ids : "create" \in node[n].requests[i] =>
    creating[n].at = "wait" /\ creating[n].id = i

PoolsAreMade ==
  \A n \in Nodes : node[n].pool \subseteq 1 .. made /\ node[n].booting \subseteq 1 .. made

NodesInv == NodesAreSane /\ CloningIsNew /\ CreateIsWaiting /\ PoolsAreMade

(***************************************************************************)
(* Names: a volume that anybody takes the name for has it, or is deleted.  *)
(***************************************************************************)
Settled(i) == i = Nobody \/ names = i \/ i \in deleted

NamesSettled == \A n \in Nodes : \A t : Named(n, t) => Settled(t)

MasterClaimed ==
  \A n \in Nodes : creating[n].at \in {"init", "wait"} =>
    /\ creating[n].id \in Ids
    /\ creating[n].id \in deleted \/ masters[creating[n].id] = n

(***************************************************************************)
(* Deletion: the root is the last that Delete comes to; each filesystem is *)
(* deleted by one Delete; until that Delete unregisters it the name stands *)
(* for the root, and cleanup begins after that.                            *)
(***************************************************************************)
Dead(i) == \A m \in Nodes : node[m].machine[i] = "none"

RootIsLast ==
  \A n \in Nodes : LET d == deleting[n] IN d.at \in {"mark", "pend", "wait"} =>
    /\ d.root \in d.todo
    /\ \A j \in d.todo : j = d.root \/ \E e \in d.list : e.id = j /\ e.origin \in d.todo

BeingDeleted ==
  \A n \in Nodes : LET d == deleting[n] IN d.at \in {"pend", "wait"} =>
    /\ d.id \in deletableNext(d) /\ d.id \in deleted
    /\ d.id = d.root => names = d.root \/ Dead(d.root)

Unregistering ==
  \A n \in Nodes : deleting[n].at = "unregister" =>
    names = deleting[n].root /\ names \in deleted

Owns(n, i) ==
  \/ deleting[n].at \in {"pend", "wait"} /\ deleting[n].id = i
  \/ deleting[n].at = "unregister" /\ deleting[n].root = i

OneOwner == \A m, n \in Nodes : \A i \in Ids : Owns(m, i) /\ Owns(n, i) => m = n

CleaningIsDead ==
  \A n \in Nodes : cleaning[n].at # "none" =>
    /\ cleaning[n].audit.id \in deleted /\ Dead(cleaning[n].audit.id)
    /\ \A m \in Nodes : ~(deleting[m].at = "unregister" /\ deleting[m].root = cleaning[n].audit.id)

DeletingInv == RootIsLast /\ BeingDeleted /\ Unregistering /\ OneOwner /\ CleaningIsDead

(***************************************************************************)
(* Keys: the registry has one clone under a key, and what is deleted,      *)
(* pending or still to be deleted was made.                                *)
(***************************************************************************)
KeysInv ==
  /\ \A x, y \in clones : <<x.top, x.branch>> = <<y.top, y.branch>> => x = y
  /\ \A a \in pending : a.id \in deleted
  /\ deleted \subseteq 1 .. made
  /\ \A n \in Nodes : deleting[n].todo \subseteq 1 .. made

(* The shape of the state.                                                 *)
Shape ==
  /\ made \in 0 .. MaxIds /\ names \in Ids \cup {Nobody} /\ deleted \subseteq Ids
  /\ clones \subseteq Entry /\ pending \subseteq Audit
  /\ masters \in [Ids -> Nodes \cup {NoNode}] /\ origin \in [Ids -> Ids \cup {Nobody}]
  /\ node \in [Nodes -> NodeRecord] /\ creating \in [Nodes -> CreateRecord]
  /\ deleting \in [Nodes -> DeleteRecord] /\ cleaning \in [Nodes -> CleanRecord]
  /\ calls \in [Kinds -> Nat]

LifecycleInv ==
  Shape /\ IdsInv /\ NodesInv /\ KeysInv /\ NamesSettled /\ MasterClaimed /\ DeletingInv

(* The type invariant follows.                                             *)
LEMMA InvType == LifecycleInv => TypeOK
<1> SUFFICES ASSUME LifecycleInv  PROVE TypeOK
  OBVIOUS
<1>1. names \in 0 .. made /\ \A n \in Nodes : node[n].name \in 0 .. made
  BY DEF LifecycleInv, IdsInv, TopsAreMade, IsTop, Named, NodeName
<1> QED
  BY <1>1 DEF LifecycleInv, Shape, NodesInv, NodesAreSane, Sane, PoolsAreMade, KeysInv, TypeOK

-----------------------------------------------------------------------------
(* What the helpers of the actions return, and that the shape is kept.     *)

(* A watcher is told of a change, or has no watch; nothing else changes.   *)
LEMMA TellIs ==
  ASSUME NEW table \in [Nodes -> NodeRecord], NEW change \in ChangeRecord
  PROVE  /\ Tell(table, change) \in [Nodes -> NodeRecord]
         /\ \A n \in Nodes :
              \/ Tell(table, change)[n] = table[n]
              \/ Tell(table, change)[n] = [table[n] EXCEPT !.inbox = Append(@, change)]
<1>1. ASSUME NEW s \in NodeRecord, NEW box \in Seq(ChangeRecord)
      PROVE  [s EXCEPT !.inbox = box] \in NodeRecord
  BY DEF NodeRecord
<1>2. ASSUME NEW n \in Nodes  PROVE Append(table[n].inbox, change) \in Seq(ChangeRecord)
  <2>1. table[n].inbox \in Seq(ChangeRecord)
    BY DEF NodeRecord
  <2> QED
    BY <2>1
<1>3. ASSUME NEW n \in Nodes
      PROVE  [table[n] EXCEPT !.inbox = Append(@, change)] \in NodeRecord
  BY <1>1, <1>2
<1> QED
  BY <1>3 DEF Tell

(* deleteFilesystem touches one machine, its requests, and the pool.       *)
LEMMA DeleteIs ==
  ASSUME NEW s \in NodeRecord, NEW i \in Ids
  PROVE  /\ deleteFilesystem(s, i) \in NodeRecord
         /\ deleteFilesystem(s, i).machine = [s.machine EXCEPT ![i] = "none"]
         /\ deleteFilesystem(s, i).requests = [s.requests EXCEPT ![i] = {}]
         /\ deleteFilesystem(s, i).pool = destroy(s.pool, i)
         /\ deleteFilesystem(s, i).name = s.name
         /\ deleteFilesystem(s, i).clones = s.clones
         /\ deleteFilesystem(s, i).cloning = s.cloning
         /\ deleteFilesystem(s, i).inbox = s.inbox
         /\ deleteFilesystem(s, i).booting = s.booting
<1>1. destroy(s.pool, i) \subseteq s.pool
  BY DEF destroy
<1> QED
  BY <1>1 DEF deleteFilesystem, NodeRecord, MachineStates

(* The lock is no part of anything else.                                   *)
LEMMA LockIs ==
  ASSUME NEW s \in NodeRecord, NEW lock \in Locks
  PROVE  LET t == [s EXCEPT !.lock = lock] IN
         /\ t \in NodeRecord
         /\ t.name = s.name /\ t.clones = s.clones /\ t.cloning = s.cloning
         /\ t.inbox = s.inbox /\ t.booting = s.booting /\ t.requests = s.requests
         /\ t.pool = s.pool /\ t.machine = s.machine
BY DEF NodeRecord

(* initFilesystemMachine starts a machine at most, of a filesystem that is *)
(* not deleted; where it hangs, only the lock changes.                     *)
LEMMA InitIs ==
  ASSUME NEW s \in NodeRecord, NEW i \in Ids, NEW t \in initFilesystemMachine(s, i)
  PROVE  /\ t \in NodeRecord
         /\ t.name = s.name /\ t.clones = s.clones /\ t.cloning = s.cloning
         /\ t.inbox = s.inbox /\ t.booting = s.booting /\ t.requests = s.requests
         /\ t.pool = s.pool
         /\ \/ t.machine = s.machine
            \/ /\ s.machine[i] = "none" /\ i \notin deleted
               /\ t.machine = [s.machine EXCEPT ![i] = "discovering"]
<1>1. CASE t = s
  BY <1>1
<1>2. CASE t = [s EXCEPT !.lock = "held"]
  BY <1>2, LockIs DEF Locks
<1>3. CASE t = [s EXCEPT !.machine[i] = "discovering"] /\ s.machine[i] = "none" /\ i \notin deleted
  BY <1>3 DEF NodeRecord, MachineStates
<1> QED
  BY <1>1, <1>2, <1>3 DEF initFilesystemMachine

(* dispatchEvent hangs, or ends the watch, or sends the event to a machine *)
(* that runs: u becomes t.                                                 *)
Dispatched(u, i, t) ==
  \/ t = [u EXCEPT !.lock = "stuck"]
  \/ t = [u EXCEPT !.watching = FALSE, !.inbox = << >>]
  \/ /\ u.machine[i] # "none"
     /\ \/ t = [u EXCEPT !.machine[i] = IF @ = "missing" THEN "discovering" ELSE @]
        \/ t = [u EXCEPT !.requests[i] = @ \cup {"delete"}]

LEMMA SeenCases ==
  ASSUME NEW s \in NodeRecord, NEW c \in ChangeRecord, c.key \in {"master", "deleted"},
         NEW t \in Seen(s, c)
  PROVE  c.id \in Ids /\ \E u \in initFilesystemMachine(s, c.id) : Dispatched(u, c.id, t)
<1>1. c.id \in Ids
  BY DEF ChangeRecord
<1>2. CASE c.key = "master"
  <2>1. t \in handleOneFilesystemMaster(s, c.id)
    BY <1>2 DEF Seen
  <2>2. PICK u \in initFilesystemMachine(s, c.id) :
          t = Dispatch(u, c.id, [u EXCEPT !.machine[c.id] = IF @ = "missing" THEN "discovering" ELSE @])
    BY <2>1 DEF handleOneFilesystemMaster
  <2> QED
    BY <1>1, <2>2 DEF Dispatch, Dispatched
<1>3. CASE c.key = "deleted"
  <2>1. t \in handleOneFilesystemDeletion(s, c.id)
    BY <1>3 DEF Seen
  <2>2. PICK u \in initFilesystemMachine(s, c.id) :
          t = Dispatch(u, c.id, [u EXCEPT !.requests[c.id] = @ \cup {"delete"}])
    BY <2>1 DEF handleOneFilesystemDeletion
  <2> QED
    BY <1>1, <2>2 DEF Dispatch, Dispatched
<1> QED
  BY <1>2, <1>3

(* What the watcher does with a change keeps the shape, and applies it to  *)
(* the cache.                                                              *)
LEMMA SeenIs ==
  ASSUME NEW s \in NodeRecord, NEW c \in ChangeRecord, NEW t \in Seen(s, c)
  PROVE  /\ t \in NodeRecord
         /\ t.name = s.name \/ (c.key = "name" /\ t.name = c.id)
         /\ \A e \in t.clones : e \in s.clones \/ (c.key = "clone" /\ e = c.entry)
         /\ t.cloning = s.cloning /\ t.booting = s.booting
         /\ t.inbox = s.inbox \/ t.inbox = << >>
<1>1. CASE c.key = "name"
  <2>1. t = [s EXCEPT !.name = c.id]
    BY <1>1 DEF Seen
  <2>2. c.id \in Ids \cup {Nobody}
    BY DEF ChangeRecord
  <2> QED
    BY <1>1, <2>1, <2>2 DEF NodeRecord
<1>2. CASE c.key = "clone"
  <2>1. t = [s EXCEPT !.clones = Overwrite(s.clones, c.entry)]
    BY <1>2 DEF Seen
  <2>2. c.entry \in Entry
    BY <1>2 DEF ChangeRecord
  <2>3. Overwrite(s.clones, c.entry) \subseteq Entry
    BY <2>2 DEF Overwrite, NodeRecord
  <2> QED
    BY <1>2, <2>1, <2>3 DEF NodeRecord, Overwrite
<1>3. CASE c.key = "cloneGone"
  <2>1. t = [s EXCEPT !.clones = {e \in s.clones : e.top # c.entry.top}]
    BY <1>3 DEF Seen
  <2> QED
    BY <1>3, <2>1 DEF NodeRecord
<1>4. CASE c.key \in {"master", "deleted"}
  <2>1. c.id \in Ids
    BY <1>4, SeenCases
  <2>2. PICK u \in initFilesystemMachine(s, c.id) : Dispatched(u, c.id, t)
    BY <1>4, SeenCases
  <2>3. /\ u \in NodeRecord /\ u.name = s.name /\ u.clones = s.clones /\ u.cloning = s.cloning
        /\ u.inbox = s.inbox /\ u.booting = s.booting
    BY <2>1, InitIs
  <2>4. CASE t = [u EXCEPT !.lock = "stuck"]
    BY <2>3, <2>4, LockIs DEF Locks
  <2>5. CASE t = [u EXCEPT !.watching = FALSE, !.inbox = << >>]
    <3>1. << >> \in Seq(ChangeRecord)
      OBVIOUS
    <3> QED
      BY <2>3, <2>5, <3>1 DEF NodeRecord
  <2>6. CASE t = [u EXCEPT !.machine[c.id] = IF @ = "missing" THEN "discovering" ELSE @]
    BY <2>1, <2>3, <2>6 DEF NodeRecord, MachineStates
  <2>7. CASE t = [u EXCEPT !.requests[c.id] = @ \cup {"delete"}]
    BY <2>1, <2>3, <2>7 DEF NodeRecord
  <2> QED
    BY <2>2, <2>4, <2>5, <2>6, <2>7 DEF Dispatched
<1> QED
  BY <1>1, <1>2, <1>3, <1>4 DEF ChangeRecord

(* The changes that are told of are ChangeRecords.                         *)
LEMMA ChangesAre ==
  /\ \A i \in Ids \cup {Nobody} : Change("name", i, NoEntry) \in ChangeRecord
  /\ \A i \in Ids : /\ Change("master", i, NoEntry) \in ChangeRecord
                    /\ Change("deleted", i, NoEntry) \in ChangeRecord
  /\ \A i \in Ids : \A e \in Entry : Change("clone", i, e) \in ChangeRecord
  /\ \A i, t \in Ids : Change("cloneGone", i, [NoEntry EXCEPT !.top = t]) \in ChangeRecord
BY DEF Change, ChangeRecord

(* A Delete that hears of a death goes on, or stays as it was.             *)
LEMMA HeardIs ==
  ASSUME NEW d \in DeleteRecord, NEW i \in Ids
  PROVE  /\ Heard(d, i) \in DeleteRecord
         /\ Heard(d, i).list = d.list /\ Heard(d, i).root = d.root
         /\ \/ Heard(d, i) = d /\ ~(d.at = "wait" /\ d.id = i)
            \/ /\ d.at = "wait" /\ d.id = i
               /\ Heard(d, i).at = IF d.todo = {i} THEN "unregister" ELSE "mark"
               /\ Heard(d, i).todo = d.todo \ {i}
<1>1. CASE d.at = "wait" /\ d.id = i
  <2> DEFINE at == IF d.todo = {i} THEN "unregister" ELSE "mark"
  <2>1. d \in [at : {"pend", "wait"}, root : Ids, list : SUBSET Entry, todo : SUBSET Ids, id : Ids]
    BY <1>1 DEF DeleteRecord, NoDelete
  <2>2. Heard(d, i) = [d EXCEPT !.at = at, !.todo = d.todo \ {i}, !.id = Nobody]
    BY <1>1 DEF Heard
  <2>3. at \in {"mark", "unregister"}
    OBVIOUS
  <2> HIDE DEF at
  <2>4. Heard(d, i)
          \in [at : {"mark", "unregister"}, root : Ids, list : SUBSET Entry, todo : SUBSET Ids,
              id : {Nobody}]
    BY <2>1, <2>2, <2>3
  <2>5. Heard(d, i).at = at /\ Heard(d, i).todo = d.todo \ {i}
        /\ Heard(d, i).list = d.list /\ Heard(d, i).root = d.root
    BY <2>1, <2>2
  <2> QED
    BY <1>1, <2>4, <2>5 DEF DeleteRecord, at
<1>2. CASE ~(d.at = "wait" /\ d.id = i)
  BY <1>2 DEF Heard
<1> QED
  BY <1>1, <1>2

(* The death of a machine keeps the shape.                                 *)
LEMMA DiesShape ==
  ASSUME Shape, NEW n \in Nodes, NEW i \in Ids, Dies(n, i)
  PROVE  Shape'
<1>1. node' \in [Nodes -> NodeRecord]
  BY DeleteIs DEF Dies, Shape
<1>2. deleting' \in [Nodes -> DeleteRecord]
  BY HeardIs DEF Dies, Shape
<1> QED
  BY <1>1, <1>2 DEF Dies, Shape, etcd, ids

(* A step of one machine keeps the shape if the node's record does.        *)
LEMMA StepsShape ==
  ASSUME Shape, NEW n \in Nodes, NEW s \in NodeRecord, Steps(n, s)
  PROVE  Shape'
BY DEF Shape, Steps, etcd, ids, rpcs

(* Calls are counted.                                                      *)
LEMMA CallShape ==
  ASSUME Shape, NEW kind \in Kinds, Call(kind)
  PROVE  calls' \in [Kinds -> Nat]
BY DEF Shape, Call, Kinds

(* What the machines do keeps the shape.                                   *)
LEMMA MachineShape ==
  ASSUME Shape, NEW n \in Nodes, NEW i \in Ids, Machine(n, i)
  PROVE  Shape'
<1>0. node[n] \in NodeRecord
  BY DEF Shape
<1>1. ASSUME NEW m \in MachineStates  PROVE [node[n] EXCEPT !.machine[i] = m] \in NodeRecord
  BY <1>0 DEF NodeRecord
<1>2. ASSUME NEW m \in MachineStates
      PROVE [node[n] EXCEPT !.machine[i] = m, !.pool = @ \cup {i}] \in NodeRecord
  BY <1>0 DEF NodeRecord
<1>3. CASE discover(n, i)
  BY <1>1, <1>3, StepsShape, DiesShape DEF discover, MachineStates
<1>4. CASE receive(n, i)
  BY <1>1, <1>2, <1>4, StepsShape DEF receive, MachineStates
<1>5. CASE handleDelete(n, i)
  BY <1>5, DiesShape DEF handleDelete
<1>6. CASE handleCreate(n, i)
  <2>1. [node[n] EXCEPT !.requests[i] = @ \ {"create"}] \in NodeRecord
    BY <1>0 DEF NodeRecord
  <2> DEFINE s == [node[n] EXCEPT !.requests[i] = @ \ {"create"}]
  <2>2. [s EXCEPT !.machine[i] = "present", !.pool = @ \cup {i}] \in NodeRecord
        /\ [s EXCEPT !.machine[i] = "discovering"] \in NodeRecord
    BY <2>1 DEF NodeRecord, MachineStates
  <2>3. node' \in [Nodes -> NodeRecord]
    BY <1>6, <2>2 DEF handleCreate, Shape
  <2>4. creating' \in [Nodes -> CreateRecord]
    BY <1>6 DEF handleCreate, Shape, CreateRecord
  <2> QED
    BY <1>6, <2>3, <2>4 DEF handleCreate, Shape, etcd, ids
<1> QED
  BY <1>3, <1>4, <1>5, <1>6 DEF Machine

(* Where CreateFilesystem goes next.                                       *)
LEMMA NextCreateIs ==
  ASSUME Shape, NEW n \in Nodes, creating[n].at # "none",
         NEW at \in {"none", "register", "check", "claim", "init", "wait"}, NextCreate(n, at)
  PROVE  /\ creating' \in [Nodes -> CreateRecord]
         /\ \A m \in Nodes \ {n} : creating'[m] = creating[m]
         /\ at = "none" => creating'[n] = NoCreate
         /\ at # "none" => creating'[n].at = at /\ creating'[n].id = creating[n].id
<1>1. creating[n] \in [at : {"register", "check", "claim", "init", "wait"}, id : Ids]
  BY DEF Shape, CreateRecord, NoCreate
<1>2. CASE at = "none"
  BY <1>2 DEF NextCreate, Shape, CreateRecord
<1>3. CASE at # "none"
  <2>1. [creating[n] EXCEPT !.at = at] \in CreateRecord
    BY <1>1, <1>3 DEF CreateRecord
  <2>2. creating' = [creating EXCEPT ![n] = [creating[n] EXCEPT !.at = at]]
    BY <1>3 DEF NextCreate
  <2> QED
    BY <1>1, <1>3, <2>1, <2>2 DEF Shape
<1> QED
  BY <1>2, <1>3

(* dispatchCreate hangs, gives up, or sends "create" to a machine.         *)
LEMMA DispatchCreateIs ==
  ASSUME Shape, NEW n \in Nodes, dispatchCreate(n)
  PROVE  /\ creating[n].at = "init" /\ creating[n].id \in Ids
         /\ creating' \in [Nodes -> CreateRecord]
         /\ \A m \in Nodes \ {n} : creating'[m] = creating[m]
         /\ \/ creating'[n] \in {creating[n], NoCreate}
            \/ creating'[n].at = "wait" /\ creating'[n].id = creating[n].id
         /\ \E s \in initFilesystemMachine(node[n], creating[n].id) :
              \/ node' = [node EXCEPT ![n] = s]
              \/ /\ s.machine[creating[n].id] # "none"
                 /\ creating'[n].at = "wait" /\ creating'[n].id = creating[n].id
                 /\ node' = [node EXCEPT ![n] =
                               [s EXCEPT !.requests[creating[n].id] = @ \cup {"create"}]]
<1> DEFINE i == creating[n].id
<1>1. creating[n].at = "init" /\ i \in Ids
  BY DEF dispatchCreate, Shape, CreateRecord, NoCreate
<1>2. PICK s \in initFilesystemMachine(node[n], i) :
        \/ node' = [node EXCEPT ![n] = s] /\ UNCHANGED creating
        \/ NextCreate(n, "none") /\ node' = [node EXCEPT ![n] = s]
        \/ /\ s.machine[i] # "none" /\ NextCreate(n, "wait")
           /\ node' = [node EXCEPT ![n] = [s EXCEPT !.requests[i] = @ \cup {"create"}]]
  BY Zenon DEF dispatchCreate
<1>3. CASE node' = [node EXCEPT ![n] = s] /\ UNCHANGED creating
  BY <1>1, <1>3 DEF Shape
<1>4. CASE NextCreate(n, "none") /\ node' = [node EXCEPT ![n] = s]
  BY <1>1, <1>4, NextCreateIs
<1>5. CASE /\ s.machine[i] # "none" /\ NextCreate(n, "wait")
           /\ node' = [node EXCEPT ![n] = [s EXCEPT !.requests[i] = @ \cup {"create"}]]
  BY <1>1, <1>5, NextCreateIs
<1> QED
  BY <1>2, <1>3, <1>4, <1>5

(* The steps of Create keep the shape.                                     *)
LEMMA CreateShape ==
  ASSUME Shape, NEW n \in Nodes, Create(n) \/ CreateSteps(n) \/ abandonCreate(n)
  PROVE  Shape'
<1>0. /\ node[n] \in NodeRecord /\ made \in Nat /\ MaxIds \in Nat
      /\ creating[n].at # "none" => creating[n].id \in Ids
  BY IdsAssumption DEF Shape, CreateRecord, NoCreate
<1>1. CASE Create(n)
  <2>1. CASE names = Nobody /\ made < MaxIds /\ made' = made + 1
             /\ creating' = [creating EXCEPT ![n] = [at |-> "register", id |-> made + 1]]
    <3>1. made + 1 \in Ids /\ made + 1 \in 0 .. MaxIds
      BY <1>0, <2>1 DEF Ids
    <3>2. [at |-> "register", id |-> made + 1] \in CreateRecord
      BY <3>1 DEF CreateRecord
    <3> QED
      BY <1>1, <2>1, <3>1, <3>2, CallShape DEF Create, Shape, etcd, Kinds
  <2>2. CASE names # Nobody /\ UNCHANGED made
             /\ creating' = [creating EXCEPT ![n] = [at |-> "check", id |-> names]]
    <3>1. [at |-> "check", id |-> names] \in CreateRecord
      BY <2>2 DEF CreateRecord, Shape
    <3> QED
      BY <1>1, <2>2, <3>1, CallShape DEF Create, Shape, etcd, Kinds
  <2> QED
    BY <1>1, <2>1, <2>2 DEF Create
<1>2. CASE RegisterFilesystem(n)
  <2>1. CASE names = Nobody
    <3> DEFINE t == Tell(node, Change("name", creating[n].id, NoEntry))
    <3>1. t \in [Nodes -> NodeRecord]
      BY <1>0, <1>2, TellIs, ChangesAre DEF RegisterFilesystem, Shape
    <3>2. node' = [t EXCEPT ![n].name = creating[n].id] /\ names' = creating[n].id
      BY <1>2, <2>1 DEF RegisterFilesystem
    <3> HIDE DEF t
    <3>3. [t[n] EXCEPT !.name = creating[n].id] \in NodeRecord
      BY <1>0, <1>2, <3>1 DEF NodeRecord, RegisterFilesystem
    <3>4. node' \in [Nodes -> NodeRecord]
      BY <3>1, <3>2, <3>3
    <3>5. creating' \in [Nodes -> CreateRecord]
      BY <1>2, <2>1, NextCreateIs DEF RegisterFilesystem
    <3> QED
      BY <1>0, <1>2, <3>2, <3>4, <3>5 DEF RegisterFilesystem, Shape, ids
  <2>2. CASE names # Nobody
    <3>1. creating' \in [Nodes -> CreateRecord]
      BY <1>2, <2>2, NextCreateIs DEF RegisterFilesystem
    <3> QED
      BY <1>2, <2>2, <3>1 DEF RegisterFilesystem, Shape, ids
  <2> QED
    BY <2>1, <2>2
<1>3. CASE checkMaster(n) \/ abandonCreate(n)
  <2>1. creating' \in [Nodes -> CreateRecord]
    BY <1>3, NextCreateIs DEF checkMaster, abandonCreate
  <2> QED
    BY <1>3, <2>1 DEF checkMaster, abandonCreate, Shape, etcd, ids
<1>4. CASE claimMaster(n)
  <2>1. creating' \in [Nodes -> CreateRecord]
    BY <1>4, NextCreateIs DEF claimMaster
  <2>2. Tell(node, Change("master", creating[n].id, NoEntry)) \in [Nodes -> NodeRecord]
    BY <1>0, <1>4, TellIs, ChangesAre DEF claimMaster, Shape
  <2> QED
    BY <1>0, <1>4, <2>1, <2>2 DEF claimMaster, Shape, ids
<1>5. CASE dispatchCreate(n)
  <2> DEFINE i == creating[n].id
  <2>1. i \in Ids /\ creating' \in [Nodes -> CreateRecord]
    BY <1>5, DispatchCreateIs
  <2>2. PICK s \in initFilesystemMachine(node[n], i) :
          \/ node' = [node EXCEPT ![n] = s]
          \/ node' = [node EXCEPT ![n] = [s EXCEPT !.requests[i] = @ \cup {"create"}]]
    BY <1>5, DispatchCreateIs
  <2> HIDE DEF i
  <2>3. s \in NodeRecord
    BY <1>0, <2>1, InitIs
  <2>4. [s EXCEPT !.requests[i] = @ \cup {"create"}] \in NodeRecord
    BY <2>1, <2>3 DEF NodeRecord
  <2>5. node' \in [Nodes -> NodeRecord]
    BY <2>2, <2>3, <2>4 DEF Shape
  <2> QED
    BY <1>5, <2>1, <2>5 DEF dispatchCreate, Shape, etcd, ids
<1> QED
  BY <1>1, <1>2, <1>3, <1>4, <1>5 DEF CreateSteps

(* Branch registers an Entry, at a node that knows the volume.             *)
LEMMA BranchIs ==
  ASSUME Shape, NEW m \in Nodes, NEW n \in Nodes, NEW i \in Ids, NEW b \in Branches,
         Branch(m, n, i, b)
  PROVE  LET e == BranchEntry(m, i, b)
             s == [node[n] EXCEPT !.clones = Overwrite(@, e), !.cloning = {e},
                                  !.machine[i] = "cloning"]
             table == [node EXCEPT ![n] = s]
         IN /\ e \in Entry /\ e.id = made + 1 /\ e.origin = i /\ e.top = node[m].name
            /\ s \in NodeRecord /\ table \in [Nodes -> NodeRecord]
            /\ Change("clone", e.id, e) \in ChangeRecord
            /\ \/ node' = table /\ clones' = clones
               \/ node' = Tell(table, Change("clone", e.id, e)) /\ clones' = clones \cup {e}
            /\ made' = made + 1
<1> DEFINE e == BranchEntry(m, i, b)
           s == [node[n] EXCEPT !.clones = Overwrite(@, e), !.cloning = {e},
                                !.machine[i] = "cloning"]
           table == [node EXCEPT ![n] = s]
<1>0. node[n] \in NodeRecord /\ node[m] \in NodeRecord
  BY DEF Shape
<1>1. node[m].name \in Ids /\ made + 1 \in Ids
  <2>1. node[m].name \in Ids
    BY <1>0 DEF Branch, NodeRecord
  <2>2. made + 1 \in Ids
    BY IdsAssumption DEF Branch, Shape, Ids
  <2> QED
    BY <2>1, <2>2
<1>2. e \in Entry /\ e.id = made + 1 /\ e.origin = i /\ e.top = node[m].name
  BY <1>1 DEF BranchEntry, Entry
<1>3. /\ \/ node' = table /\ clones' = clones
         \/ node' = Tell(table, Change("clone", e.id, e)) /\ clones' = clones \cup {e}
      /\ made' = made + 1
  BY DEF Branch
<1> HIDE DEF e
<1>4. Overwrite(node[n].clones, e) \subseteq Entry
  BY <1>0, <1>2 DEF Overwrite, NodeRecord
<1>5. s \in NodeRecord
  BY <1>0, <1>2, <1>4 DEF NodeRecord, MachineStates
<1>6. table \in [Nodes -> NodeRecord]
  BY <1>5 DEF Shape
<1>7. Change("clone", e.id, e) \in ChangeRecord
  BY <1>1, <1>2, ChangesAre
<1> HIDE DEF s, table
<1> QED
  BY <1>2, <1>3, <1>5, <1>6, <1>7 DEF e, s, table

(* The clone is in the pool, and may have a machine, unless it is deleted; *)
(* the machine of its origin goes on, unless it hangs.                     *)
Cloned(n, e, t) ==
  /\ e \in Entry /\ origin' = [origin EXCEPT ![e.id] = e.origin]
  /\ t.name = node[n].name /\ t.clones = node[n].clones /\ t.cloning = {}
  /\ t.inbox = node[n].inbox /\ t.booting = node[n].booting
  /\ t.requests = node[n].requests /\ t.pool = node[n].pool \cup {e.id}
  /\ \A j \in Ids : \/ t.machine[j] = node[n].machine[j]
                    \/ /\ node[n].machine[j] = "none" /\ j \notin deleted
                       /\ t.machine[j] = "discovering"
                    \/ j = e.origin /\ t.machine[j] = "present"
  /\ [node EXCEPT ![n] = t] \in [Nodes -> NodeRecord]
  /\ Change("master", e.id, NoEntry) \in ChangeRecord
  /\ \/ masters' = masters /\ node' = [node EXCEPT ![n] = t]
     \/ /\ masters' = [masters EXCEPT ![e.id] = n]
        /\ node' = Tell([node EXCEPT ![n] = t], Change("master", e.id, NoEntry))

LEMMA CloneIs ==
  ASSUME Shape, NEW n \in Nodes, clone(n)
  PROVE  \E e \in node[n].cloning, t \in NodeRecord : Cloned(n, e, t)
<1>1. PICK e \in node[n].cloning :
        LET s == [node[n] EXCEPT !.cloning = {}, !.pool = @ \cup {e.id}]
        IN /\ origin' = [origin EXCEPT ![e.id] = e.origin]
           /\ \E t \in initFilesystemMachine(s, e.id) :
                \/ node' = [node EXCEPT ![n] = t] /\ masters' = masters
                \/ /\ masters' = [masters EXCEPT ![e.id] = n]
                   /\ node' = Tell([node EXCEPT ![n] = [t EXCEPT !.machine[e.origin] = "present"]],
                                   Change("master", e.id, NoEntry))
  BY Zenon DEF clone
<1> DEFINE s == [node[n] EXCEPT !.cloning = {}, !.pool = @ \cup {e.id}]
<1>2. PICK t \in initFilesystemMachine(s, e.id) :
        \/ node' = [node EXCEPT ![n] = t] /\ masters' = masters
        \/ /\ masters' = [masters EXCEPT ![e.id] = n]
           /\ node' = Tell([node EXCEPT ![n] = [t EXCEPT !.machine[e.origin] = "present"]],
                           Change("master", e.id, NoEntry))
  BY <1>1
<1> DEFINE u == [t EXCEPT !.machine[e.origin] = "present"]
           table(v) == [node EXCEPT ![n] = v]
<1>0. node[n] \in NodeRecord
  BY DEF Shape
<1>3. e \in Entry /\ e.id \in Ids /\ e.origin \in Ids
  BY <1>0 DEF NodeRecord, Entry
<1>4. /\ s \in NodeRecord /\ s.cloning = {} /\ s.machine = node[n].machine
      /\ s.pool = node[n].pool \cup {e.id} /\ s.requests = node[n].requests
      /\ s.name = node[n].name /\ s.clones = node[n].clones
      /\ s.inbox = node[n].inbox /\ s.booting = node[n].booting
  BY <1>0, <1>3 DEF NodeRecord
<1> HIDE DEF s
<1>5. /\ t \in NodeRecord /\ t.cloning = {}
      /\ t.pool = node[n].pool \cup {e.id} /\ t.requests = node[n].requests
      /\ t.name = node[n].name /\ t.clones = node[n].clones
      /\ t.inbox = node[n].inbox /\ t.booting = node[n].booting
      /\ \/ t.machine = s.machine
         \/ /\ s.machine[e.id] = "none" /\ e.id \notin deleted
            /\ t.machine = [s.machine EXCEPT ![e.id] = "discovering"]
  BY <1>3, <1>4, InitIs
<1>6. \A j \in Ids : \/ t.machine[j] = node[n].machine[j]
                     \/ /\ node[n].machine[j] = "none" /\ j \notin deleted
                        /\ t.machine[j] = "discovering"
  BY <1>4, <1>5 DEF NodeRecord
<1>7. /\ u \in NodeRecord /\ u.cloning = {}
      /\ u.pool = node[n].pool \cup {e.id} /\ u.requests = node[n].requests
      /\ u.name = node[n].name /\ u.clones = node[n].clones
      /\ u.inbox = node[n].inbox /\ u.booting = node[n].booting
      /\ u.machine = [t.machine EXCEPT ![e.origin] = "present"]
  BY <1>3, <1>5 DEF NodeRecord, MachineStates
<1>8. \A j \in Ids : u.machine[j] = IF j = e.origin THEN "present" ELSE t.machine[j]
  BY <1>3, <1>5, <1>7 DEF NodeRecord
<1> HIDE DEF u
<1>9. table(t) \in [Nodes -> NodeRecord] /\ table(u) \in [Nodes -> NodeRecord]
  BY <1>5, <1>7 DEF Shape
<1>10. Change("master", e.id, NoEntry) \in ChangeRecord
  BY <1>3, ChangesAre
<1>11. CASE node' = table(t) /\ masters' = masters
  <2>1. Cloned(n, e, t)
    BY <1>1, <1>3, <1>5, <1>6, <1>9, <1>10, <1>11 DEF Cloned
  <2> QED
    BY <1>5, <2>1
<1>12. CASE /\ masters' = [masters EXCEPT ![e.id] = n]
            /\ node' = Tell(table(u), Change("master", e.id, NoEntry))
  <2>1. \A j \in Ids : \/ u.machine[j] = node[n].machine[j]
                       \/ /\ node[n].machine[j] = "none" /\ j \notin deleted
                          /\ u.machine[j] = "discovering"
                       \/ j = e.origin /\ u.machine[j] = "present"
    BY <1>6, <1>8
  <2>2. Cloned(n, e, u)
    BY <1>1, <1>3, <1>7, <1>9, <1>10, <1>12, <2>1 DEF Cloned
  <2> QED
    BY <1>7, <2>2
<1> QED
  BY <1>2, <1>11, <1>12 DEF u

(* The steps of Branch keep the shape.                                     *)
LEMMA BranchShape ==
  ASSUME Shape, NEW n \in Nodes,
         \/ \E m \in Nodes, i \in Ids, b \in Branches : Branch(m, n, i, b)
         \/ clone(n) \/ cloneFails(n)
  PROVE  Shape'
<1>1. ASSUME NEW m \in Nodes, NEW i \in Ids, NEW b \in Branches, Branch(m, n, i, b)
      PROVE  Shape'
  <2> DEFINE e == BranchEntry(m, i, b)
             s == [node[n] EXCEPT !.clones = Overwrite(@, e), !.cloning = {e},
                                  !.machine[i] = "cloning"]
             table == [node EXCEPT ![n] = s]
  <2>1. /\ e \in Entry /\ table \in [Nodes -> NodeRecord]
        /\ Change("clone", e.id, e) \in ChangeRecord
        /\ \/ node' = table /\ clones' = clones
           \/ node' = Tell(table, Change("clone", e.id, e)) /\ clones' = clones \cup {e}
    BY <1>1, BranchIs
  <2> HIDE DEF e, s, table
  <2>2. node' \in [Nodes -> NodeRecord] /\ clones' \subseteq Entry
    BY <2>1, TellIs DEF Shape
  <2>3. made' \in 0 .. MaxIds
    <3>1. made < MaxIds /\ made' = made + 1
      BY <1>1 DEF Branch
    <3> QED
      BY <3>1, IdsAssumption DEF Shape
  <2>4. calls' \in [Kinds -> Nat]
    BY <1>1, CallShape DEF Branch, Kinds
  <2> QED
    BY <1>1, <2>2, <2>3, <2>4 DEF Branch, Shape, rpcs
<1>2. CASE clone(n)
  <2>0. PICK e \in node[n].cloning, t \in NodeRecord : Cloned(n, e, t)
    BY <1>2, CloneIs
  <2> DEFINE table == [node EXCEPT ![n] = t]
             c == Change("master", e.id, NoEntry)
  <2>a. table \in [Nodes -> NodeRecord] /\ c \in ChangeRecord /\ (node' = table \/ node' = Tell(table, c))
    BY <2>0 DEF Cloned
  <2> HIDE DEF table, c
  <2>1. node' \in [Nodes -> NodeRecord]
    BY <2>a, TellIs
  <2>2. origin' \in [Ids -> Ids \cup {Nobody}] /\ masters' \in [Ids -> Nodes \cup {NoNode}]
    BY <2>0 DEF Cloned, Entry, Shape
  <2> QED
    BY <1>2, <2>1, <2>2 DEF clone, Shape, rpcs
<1>3. CASE cloneFails(n)
  <2>1. PICK e \in node[n].cloning :
          Steps(n, [node[n] EXCEPT !.cloning = {}, !.machine[e.origin] = "discovering"])
    BY <1>3 DEF cloneFails
  <2>2. node[n] \in NodeRecord /\ e.origin \in Ids
    BY DEF Shape, NodeRecord, Entry
  <2>3. [node[n] EXCEPT !.cloning = {}, !.machine[e.origin] = "discovering"] \in NodeRecord
    BY <2>2 DEF NodeRecord, MachineStates
  <2> QED
    BY <2>1, <2>3, StepsShape
<1> QED
  BY <1>1, <1>2, <1>3

(* What Delete has to remove names the clone by its key in the registry.   *)
LEMMA AuditIs ==
  ASSUME Shape, RootIsLast, BeingDeleted, NEW n \in Nodes, deleting[n].at \in {"pend", "wait"}
  PROVE  AuditOf(deleting[n]) \in Audit /\ AuditOf(deleting[n]).id = deleting[n].id
<1> DEFINE d == deleting[n]
<1>1. d \in [at : {"pend", "wait"}, root : Ids, list : SUBSET Entry, todo : SUBSET Ids, id : Ids]
  BY DEF Shape, DeleteRecord, NoDelete
<1>2. CASE d.id = d.root
  BY <1>1, <1>2 DEF AuditOf, Audit
<1>3. CASE d.id # d.root
  <2>1. d.id \in d.todo
    BY DEF BeingDeleted, deletableNext
  <2>2. \E e \in d.list : e.id = d.id
    BY <1>3, <2>1 DEF RootIsLast
  <2> DEFINE e == CHOOSE x \in d.list : x.id = d.id
  <2>3. e \in d.list
    BY <2>2
  <2>4. AuditOf(d) = [id |-> d.id, top |-> d.root, branch |-> e.branch]
    BY <1>3 DEF AuditOf
  <2> HIDE DEF e
  <2>5. e.branch \in Branches
    BY <1>1, <2>3 DEF Entry
  <2> HIDE DEF d
  <2> QED
    BY <1>1, <2>4, <2>5 DEF Audit, d
<1> QED
  BY <1>2, <1>3

(* The steps of Delete keep the shape.                                     *)
LEMMA DeleteShape ==
  ASSUME Shape, RootIsLast, BeingDeleted, NEW n \in Nodes, Delete(n) \/ DeleteSteps(n)
  PROVE  Shape'
<1>0. node[n] \in NodeRecord /\ deleting[n] \in DeleteRecord
  BY DEF Shape
<1>1. CASE Delete(n)
  <2> DEFINE root == node[n].name
             known == {e \in node[n].clones : e.top = root}
             new == [at |-> "mark", root |-> root, list |-> known,
                     todo |-> Descendants(known, root), id |-> Nobody]
  <2>1. root \in Ids /\ known \subseteq Entry
    BY <1>0, <1>1 DEF Delete, NodeRecord
  <2>2. Descendants(known, root) \subseteq Ids
    BY DEF Descendants
  <2>3. deleting' = [deleting EXCEPT ![n] = new]
    BY <1>1 DEF Delete
  <2>4. new \in DeleteRecord
    BY <2>1, <2>2 DEF DeleteRecord
  <2> HIDE DEF new
  <2>5. calls' \in [Kinds -> Nat]
    BY <1>1, CallShape DEF Delete, Kinds
  <2> QED
    BY <1>1, <2>3, <2>4, <2>5 DEF Delete, Shape, etcd, ids
<1>2. CASE markDeleted(n)
  <2>1. deleting[n] \in [at : {"mark", "unregister"}, root : Ids, list : SUBSET Entry,
                         todo : SUBSET Ids, id : {Nobody}]
    BY <1>0, <1>2 DEF markDeleted, DeleteRecord, NoDelete
  <2>2. PICK i \in deletableNext(deleting[n]) :
          IF i \in deleted
            THEN /\ deleting' = [deleting EXCEPT ![n] = NoDelete]
                 /\ UNCHANGED <<deleted, node>>
            ELSE /\ deleted' = deleted \cup {i}
                 /\ node' = Tell(node, Change("deleted", i, NoEntry))
                 /\ deleting' = [deleting EXCEPT ![n] = [deleting[n] EXCEPT !.at = "pend", !.id = i]]
    BY <1>2 DEF markDeleted
  <2>3. i \in Ids
    BY <2>1 DEF deletableNext
  <2>4. [deleting[n] EXCEPT !.at = "pend", !.id = i] \in DeleteRecord
    BY <2>1, <2>3 DEF DeleteRecord
  <2>5. Tell(node, Change("deleted", i, NoEntry)) \in [Nodes -> NodeRecord]
    BY <2>3, TellIs, ChangesAre DEF Shape
  <2>6. NoDelete \in DeleteRecord
    BY DEF DeleteRecord
  <2>7. /\ deleted' \subseteq Ids /\ node' \in [Nodes -> NodeRecord]
        /\ deleting' \in [Nodes -> DeleteRecord]
    <3>1. CASE i \in deleted
      BY <2>2, <2>6, <3>1 DEF Shape
    <3>2. CASE i \notin deleted
      BY <2>2, <2>3, <2>4, <2>5, <3>2 DEF Shape
    <3> QED
      BY <3>1, <3>2
  <2> QED
    BY <1>2, <2>7 DEF markDeleted, Shape, ids
<1>3. CASE markPending(n)
  <2>1. deleting[n] \in [at : {"pend", "wait"}, root : Ids, list : SUBSET Entry,
                         todo : SUBSET Ids, id : Ids]
    BY <1>0, <1>3 DEF markPending, DeleteRecord, NoDelete
  <2>2. [deleting[n] EXCEPT !.at = "wait"] \in DeleteRecord
    BY <2>1 DEF DeleteRecord
  <2>3. deleting' \in [Nodes -> DeleteRecord]
    BY <1>3, <2>2 DEF markPending, Shape
  <2>4. pending' \subseteq Audit
    BY <1>3, AuditIs DEF markPending, Shape
  <2> QED
    BY <1>3, <2>3, <2>4 DEF markPending, Shape, ids
<1>4. CASE UnregisterFilesystem(n)
  <2>1. Tell(node, Change("name", Nobody, NoEntry)) \in [Nodes -> NodeRecord]
    BY TellIs, ChangesAre DEF Shape
  <2>2. deleting' \in [Nodes -> DeleteRecord]
    BY <1>4 DEF UnregisterFilesystem, Shape, DeleteRecord
  <2> QED
    BY <1>4, <2>1, <2>2 DEF UnregisterFilesystem, Shape, ids
<1> QED
  BY <1>1, <1>2, <1>3, <1>4 DEF DeleteSteps

(* Where cleanup goes next.                                                *)
LEMMA NextCleanIs ==
  ASSUME Shape, NEW n \in Nodes, cleaning[n].at # "none",
         NEW at \in {"none", "masters", "registry", "pending"}, NextClean(n, at)
  PROVE  /\ cleaning' \in [Nodes -> CleanRecord]
         /\ \A m \in Nodes \ {n} : cleaning'[m] = cleaning[m]
         /\ at = "none" => cleaning'[n] = NoClean
         /\ at # "none" => cleaning'[n].at = at /\ cleaning'[n].audit = cleaning[n].audit
<1>1. cleaning[n] \in [at : {"masters", "registry", "pending"}, audit : Audit]
  BY DEF Shape, CleanRecord, NoClean
<1>2. CASE at = "none"
  BY <1>2 DEF NextClean, Shape, CleanRecord
<1>3. CASE at # "none"
  <2>1. [cleaning[n] EXCEPT !.at = at] \in CleanRecord
    BY <1>1, <1>3 DEF CleanRecord
  <2>2. cleaning' = [cleaning EXCEPT ![n] = [cleaning[n] EXCEPT !.at = at]]
    BY <1>3 DEF NextClean
  <2> QED
    BY <1>1, <1>3, <2>1, <2>2 DEF Shape
<1> QED
  BY <1>2, <1>3

(* The steps of cleanup keep the shape.                                    *)
LEMMA CleanupShape ==
  ASSUME Shape, NEW n \in Nodes, Cleanup(n)
  PROVE  Shape'
<1>0. cleaning[n].at # "none" => cleaning[n].audit \in Audit
  BY DEF Shape, CleanRecord, NoClean
<1>1. CASE listFilesystemsPendingCleanup(n)
  <2>1. PICK a \in pending : cleaning' = [cleaning EXCEPT ![n] = [at |-> "masters", audit |-> a]]
    BY <1>1 DEF listFilesystemsPendingCleanup
  <2>2. [at |-> "masters", audit |-> a] \in CleanRecord
    BY DEF CleanRecord, Shape
  <2> QED
    BY <1>1, <2>1, <2>2 DEF listFilesystemsPendingCleanup, Shape, etcd, ids
<1>2. CASE cleanMasters(n)
  <2>1. cleaning' \in [Nodes -> CleanRecord]
    BY <1>2, NextCleanIs DEF cleanMasters
  <2>2. cleaning[n].audit.id \in Ids
    BY <1>0, <1>2 DEF cleanMasters, Audit
  <2> QED
    BY <1>2, <2>1, <2>2 DEF cleanMasters, Shape, ids
<1>3. CASE cleanRegistry(n)
  <2> DEFINE a == cleaning[n].audit
  <2>1. cleaning' \in [Nodes -> CleanRecord]
    BY <1>3, NextCleanIs DEF cleanRegistry
  <2>2. a \in Audit
    BY <1>0, <1>3 DEF cleanRegistry
  <2>3. Tell(node, Change("name", Nobody, NoEntry)) \in [Nodes -> NodeRecord]
    BY TellIs, ChangesAre DEF Shape
  <2>4. ASSUME a.top # Nobody
        PROVE  Tell(node, Change("cloneGone", a.id, [NoEntry EXCEPT !.top = a.top]))
                 \in [Nodes -> NodeRecord]
    <3>1. a.top \in Ids /\ a.id \in Ids
      BY <2>2, <2>4 DEF Audit
    <3> QED
      BY <3>1, TellIs, ChangesAre DEF Shape
  <2>5. /\ node' \in [Nodes -> NodeRecord] /\ names' \in Ids \cup {Nobody}
        /\ clones' \subseteq Entry
    <3>1. CASE a.top = Nobody
      BY <1>3, <2>3, <3>1 DEF cleanRegistry, Shape
    <3>2. CASE a.top # Nobody
      BY <1>3, <2>4, <3>2 DEF cleanRegistry, Shape
    <3> QED
      BY <3>1, <3>2
  <2> QED
    BY <1>3, <2>1, <2>5 DEF cleanRegistry, Shape, ids
<1>4. CASE cleanPending(n)
  <2>1. cleaning' \in [Nodes -> CleanRecord]
    BY <1>4, NextCleanIs DEF cleanPending
  <2> QED
    BY <1>4, <2>1 DEF cleanPending, Shape, ids
<1> QED
  BY <1>1, <1>2, <1>3, <1>4 DEF Cleanup

(* What fetchAndWatchEtcd makes of a node, when it has handled the masters *)
(* keys in done, and when it has handled all of them.                      *)
After(n, done) ==
  [node[n] EXCEPT !.machine = [i \in Ids |->
     IF i \notin done THEN @[i]
     ELSE IF @[i] \in {"none", "missing"} THEN "discovering" ELSE @[i]]]

Fetched(n, done) ==
  [After(n, done) EXCEPT
     !.name = IF names = Nobody THEN @ ELSE names,
     !.clones = {x \in After(n, done).clones : \A e \in clones :
                   <<x.top, x.branch>> # <<e.top, e.branch>>} \cup clones,
     !.watching = TRUE, !.serving = TRUE]

MasterIds == {i \in Ids : masters[i] # NoNode}
Failing(n) == {i \in MasterIds : i \in deleted /\ node[n].machine[i] = "none"}

(* fetch handles every masters key, or ends at an error, or hangs.         *)
LEMMA FetchIs ==
  ASSUME Shape, NEW n \in Nodes, fetch(n)
  PROVE  \/ Failing(n) = {} /\ Steps(n, Fetched(n, MasterIds))
         \/ \E done \in SUBSET (MasterIds \ Failing(n)) :
              \/ Steps(n, After(n, done))
              \/ Steps(n, [After(n, done) EXCEPT !.lock = "stuck"])
<1>1. MasterIds = {} => Failing(n) = {}
  BY DEF Failing
<1>2. CASE Steps(n, Fetched(n, MasterIds)) /\ (MasterIds = {} \/ Failing(n) = {})
  BY <1>1, <1>2
<1>3. CASE \E done \in SUBSET (MasterIds \ Failing(n)) : Steps(n, After(n, done))
  BY <1>3
<1>4. CASE \E done \in SUBSET (IF node[n].lock = "free" THEN MasterIds \ Failing(n) ELSE {}) :
             Steps(n, [After(n, done) EXCEPT !.lock = "stuck"])
  BY <1>4
<1> QED
  BY <1>2, <1>3, <1>4, Zenon DEF fetch, Fetched, After, MasterIds, Failing

(* Masters keys start machines; nothing else changes.                      *)
LEMMA AfterIs ==
  ASSUME Shape, NEW n \in Nodes, NEW done \in SUBSET Ids
  PROVE  LET s == After(n, done) IN
         /\ s \in NodeRecord
         /\ s.name = node[n].name /\ s.clones = node[n].clones /\ s.cloning = node[n].cloning
         /\ s.inbox = node[n].inbox /\ s.booting = node[n].booting
         /\ s.requests = node[n].requests /\ s.pool = node[n].pool
         /\ \A i \in Ids : \/ s.machine[i] = node[n].machine[i]
                           \/ /\ i \in done /\ node[n].machine[i] \in {"none", "missing"}
                              /\ s.machine[i] = "discovering"
<1> DEFINE machine == [i \in Ids |->
             IF i \notin done THEN node[n].machine[i]
             ELSE IF node[n].machine[i] \in {"none", "missing"} THEN "discovering"
             ELSE node[n].machine[i]]
<1>0. node[n] \in NodeRecord
  BY DEF Shape
<1>1. machine \in [Ids -> MachineStates]
  BY <1>0 DEF NodeRecord, MachineStates
<1>2. After(n, done) = [node[n] EXCEPT !.machine = machine]
  BY DEF After
<1>3. \A i \in Ids : \/ machine[i] = node[n].machine[i]
                     \/ /\ i \in done /\ node[n].machine[i] \in {"none", "missing"}
                        /\ machine[i] = "discovering"
  OBVIOUS
<1> HIDE DEF machine
<1> QED
  BY <1>0, <1>1, <1>2, <1>3 DEF NodeRecord

(* Then the registry is read into the cache.                               *)
LEMMA FetchedIs ==
  ASSUME Shape, NEW n \in Nodes, NEW done \in SUBSET Ids
  PROVE  LET s == After(n, done)
             t == Fetched(n, done)
         IN /\ t \in NodeRecord
            /\ t.name \in {s.name, names} /\ t.clones \subseteq s.clones \cup clones
            /\ t.cloning = s.cloning /\ t.inbox = s.inbox /\ t.booting = s.booting
            /\ t.requests = s.requests /\ t.pool = s.pool /\ t.machine = s.machine
<1> DEFINE s == After(n, done)
           name == IF names = Nobody THEN s.name ELSE names
           known == {x \in s.clones : \A e \in clones :
                       <<x.top, x.branch>> # <<e.top, e.branch>>} \cup clones
<1>0. s \in NodeRecord
  BY AfterIs
<1>1. Fetched(n, done) = [s EXCEPT !.name = name, !.clones = known,
                                   !.watching = TRUE, !.serving = TRUE]
  BY DEF Fetched
<1> HIDE DEF s
<1>2. name \in Ids \cup {Nobody} /\ name \in {s.name, names}
  BY <1>0 DEF NodeRecord, Shape
<1>3. known \subseteq Entry /\ known \subseteq s.clones \cup clones
  BY <1>0 DEF NodeRecord, Shape
<1> HIDE DEF name, known
<1>4. [s EXCEPT !.name = name, !.clones = known, !.watching = TRUE, !.serving = TRUE]
        \in NodeRecord
  BY <1>0, <1>2, <1>3 DEF NodeRecord
<1> QED
  BY <1>0, <1>1, <1>2, <1>3, <1>4 DEF NodeRecord, s

(* A server that starts has the pool and nothing else.                     *)
LEMMA StartedIs ==
  ASSUME NEW pool \in SUBSET Ids, NEW booting \in SUBSET Ids
  PROVE  LET s == Started(pool, booting) IN
         /\ s \in NodeRecord
         /\ s.name = Nobody /\ s.clones = {} /\ s.cloning = {} /\ s.inbox = << >>
         /\ s.pool = pool /\ s.booting = booting
         /\ \A i \in Ids : s.machine[i] = "none" /\ s.requests[i] = {}
<1>1. << >> \in Seq(ChangeRecord)
  OBVIOUS
<1>2. [i \in Ids |-> "none"] \in [Ids -> MachineStates]
      /\ [i \in Ids |-> {}] \in [Ids -> SUBSET {"create", "delete"}]
  BY DEF MachineStates
<1> QED
  BY <1>1, <1>2 DEF Started, NodeRecord, Locks

(* The watcher, the start and the restart of a server keep the shape.      *)
LEMMA ServerShape ==
  ASSUME Shape, NEW n \in Nodes,
         watch(n) \/ fetch(n) \/ crash(n) \/ \E i \in Ids : boot(n, i)
  PROVE  Shape'
<1>0. node[n] \in NodeRecord
  BY DEF Shape
<1>1. CASE watch(n)
  <2>1. node[n].inbox \in Seq(ChangeRecord) /\ node[n].inbox # << >>
    BY <1>0, <1>1 DEF NodeRecord, watch
  <2>2. Head(node[n].inbox) \in ChangeRecord /\ Tail(node[n].inbox) \in Seq(ChangeRecord)
    BY <2>1
  <2>3. [node[n] EXCEPT !.inbox = Tail(@)] \in NodeRecord
    BY <1>0, <2>2 DEF NodeRecord
  <2> QED
    BY <1>1, <2>2, <2>3, SeenIs, StepsShape DEF watch
<1>2. CASE fetch(n)
  <2>1. \A done \in SUBSET Ids : Fetched(n, done) \in NodeRecord /\ After(n, done) \in NodeRecord
    BY AfterIs, FetchedIs
  <2>2. MasterIds \subseteq Ids /\ Failing(n) \subseteq Ids
    BY DEF MasterIds, Failing
  <2>3. CASE Steps(n, Fetched(n, MasterIds))
    BY <2>1, <2>2, <2>3, StepsShape
  <2>4. ASSUME NEW done \in SUBSET (MasterIds \ Failing(n)),
               \/ Steps(n, After(n, done))
               \/ Steps(n, [After(n, done) EXCEPT !.lock = "stuck"])
        PROVE  Shape'
    <3>1. After(n, done) \in NodeRecord
      BY <2>1, <2>2
    <3> QED
      BY <2>4, <3>1, LockIs, StepsShape DEF Locks
  <2> QED
    BY <1>2, <2>3, <2>4, FetchIs
<1>3. CASE crash(n)
  <2>1. PICK started \in SUBSET node[n].pool : node' = [node EXCEPT ![n] = Started(@.pool, started)]
    BY <1>3 DEF crash
  <2>2. node[n].pool \in SUBSET Ids /\ started \in SUBSET Ids
    BY <1>0 DEF NodeRecord
  <2>3. node' \in [Nodes -> NodeRecord]
    BY <2>1, <2>2, StartedIs DEF Shape
  <2>4. creating' \in [Nodes -> CreateRecord] /\ deleting' \in [Nodes -> DeleteRecord]
        /\ cleaning' \in [Nodes -> CleanRecord]
    BY <1>3 DEF crash, Shape, CreateRecord, DeleteRecord, CleanRecord
  <2>5. calls' \in [Kinds -> Nat]
    BY <1>3, CallShape DEF crash, Kinds
  <2> QED
    BY <1>3, <2>3, <2>4, <2>5 DEF crash, Shape, etcd, ids
<1>4. ASSUME NEW i \in Ids, boot(n, i)  PROVE Shape'
  <2>1. [node[n] EXCEPT !.booting = @ \ {i}] \in NodeRecord
    BY <1>0 DEF NodeRecord
  <2> QED
    BY <1>4, <2>1, InitIs, StepsShape DEF boot
<1> QED
  BY <1>1, <1>2, <1>3, <1>4

(* Every action keeps the shape.                                           *)
LEMMA ShapeNext ==
  ASSUME Shape, RootIsLast, BeingDeleted, [Next]_vars
  PROVE  Shape'
<1>1. CASE UNCHANGED vars
  BY <1>1 DEF Shape, vars, etcd, ids, rpcs
<1>2. CASE Next
  BY <1>2, MachineShape, CreateShape, BranchShape, DeleteShape, CleanupShape, ServerShape
  DEF Next, Users
<1> QED
  BY <1>1, <1>2

-----------------------------------------------------------------------------
(* Where the entries and names of the next state come from.                *)

EntriesKept == \A e : IsEntry(e)' => IsEntry(e)

EntriesStep ==
  \/ EntriesKept
  \/ /\ made' = made + 1 /\ names' = names
     /\ \A n \in Nodes : creating'[n] = creating[n]
     /\ \E x \in Entry : /\ x.id = made + 1 /\ x.origin =< made
                         /\ \A e : IsEntry(e)' => IsEntry(e) \/ e = x

NamedStep ==
  \A n \in Nodes : \A t : Named(n, t)' =>
    t \in {Nobody, names, names'} \/ \E m \in Nodes : Named(m, t)

NewNames ==
  \/ names' \in {names, Nobody} /\ \A n \in Nodes : creating'[n].id \in {creating[n].id, Nobody, names}
  \/ /\ names' \in {creating[n].id : n \in Nodes}
     /\ \A n \in Nodes : creating'[n].id \in {creating[n].id, Nobody}
  \/ /\ names' = names /\ made' = made + 1 /\ EntriesKept
     /\ \A n \in Nodes : creating'[n].id \in {creating[n].id, made + 1}

OriginStep ==
  \/ origin' = origin
  \/ \E x : IsEntry(x) /\ origin' = [origin EXCEPT ![x.id] = x.origin]

MadeStep == made' \in {made, made + 1}

Heirs == EntriesStep /\ NamedStep /\ NewNames /\ OriginStep /\ MadeStep

(* The top-level filesystems of the next state.                            *)
LEMMA TopStep ==
  ASSUME NamedStep, NewNames, NEW t, IsTop(t)'
  PROVE  IsTop(t) \/ t = Nobody \/ (t = made + 1 /\ made' = made + 1 /\ EntriesKept)
<1>1. t = names' \/ (\E n \in Nodes : Named(n, t)') \/ \E n \in Nodes : t = creating'[n].id
  BY DEF IsTop
<1>2. names' \in {names, Nobody} \cup {creating[n].id : n \in Nodes}
  BY DEF NewNames
<1>3. IsTop(names) /\ (\A n \in Nodes : IsTop(creating[n].id))
      /\ \A n \in Nodes : \A x : Named(n, x) => IsTop(x)
  BY DEF IsTop
<1>4. CASE t = names'
  BY <1>2, <1>3, <1>4
<1>5. CASE \E n \in Nodes : Named(n, t)'
  BY <1>2, <1>3, <1>5 DEF NamedStep
<1>6. CASE \E n \in Nodes : t = creating'[n].id
  BY <1>2, <1>3, <1>6 DEF NewNames
<1> QED
  BY <1>1, <1>4, <1>5, <1>6

(* Ids stay what they are.                                                 *)
LEMMA IdsKept ==
  ASSUME Shape, Shape', IdsInv, Heirs
  PROVE  IdsInv'
<1>0. made \in Nat /\ made' \in Nat /\ made =< made'
  BY IdsAssumption DEF Shape, Heirs, MadeStep
<1>1. EntriesAreMade'
  <2>1. \A e : IsEntry(e) => e \in Entry /\ e.origin < e.id /\ e.id =< made'
    BY <1>0 DEF IdsInv, EntriesAreMade, Entry, Ids
  <2>2. CASE EntriesKept
    BY <2>1, <2>2 DEF EntriesAreMade, EntriesKept
  <2>3. CASE ~EntriesKept
    <3>1. PICK x \in Entry : /\ x.id = made + 1 /\ x.origin =< made
                             /\ \A e : IsEntry(e)' => IsEntry(e) \/ e = x
      BY <2>3 DEF Heirs, EntriesStep
    <3>2. made' = made + 1
      BY <2>3 DEF Heirs, EntriesStep
    <3>3. x.origin < x.id /\ x.id =< made'
      BY <1>0, <3>1, <3>2 DEF Entry, Ids
    <3> QED
      BY <2>1, <3>1, <3>3 DEF EntriesAreMade
  <2> QED
    BY <2>2, <2>3
<1>2. OneEntryPerClone'
  <2>1. CASE EntriesKept
    BY <2>1 DEF IdsInv, OneEntryPerClone, EntriesKept
  <2>2. CASE ~EntriesKept
    <3>1. PICK x \in Entry : /\ x.id = made + 1
                             /\ \A e : IsEntry(e)' => IsEntry(e) \/ e = x
      BY <2>2 DEF Heirs, EntriesStep
    <3>2. \A e : IsEntry(e) => e.id # x.id
      BY <1>0, <3>1 DEF IdsInv, EntriesAreMade, Entry, Ids
    <3> QED
      BY <3>1, <3>2 DEF IdsInv, OneEntryPerClone
  <2> QED
    BY <2>1, <2>2
<1>3. \A e : IsEntry(e) => origin'[e.id] \in {Nobody, e.origin}
  <2>1. CASE origin' = origin
    BY <2>1 DEF IdsInv, OriginsAgree
  <2>2. ASSUME NEW x, IsEntry(x), origin' = [origin EXCEPT ![x.id] = x.origin]
        PROVE  \A e : IsEntry(e) => origin'[e.id] \in {Nobody, e.origin}
    BY <2>2 DEF IdsInv, OriginsAgree, OneEntryPerClone, EntriesAreMade, Entry, Shape
  <2> QED
    BY <2>1, <2>2 DEF Heirs, OriginStep
<1>4. FreshOrigin'
  <2>1. CASE origin' = origin
    BY <1>0, <2>1 DEF IdsInv, FreshOrigin, Ids
  <2>2. ASSUME NEW x, IsEntry(x), origin' = [origin EXCEPT ![x.id] = x.origin]
        PROVE  FreshOrigin'
    <3>1. x.id \in Ids /\ x.id =< made
      BY <2>2 DEF IdsInv, EntriesAreMade, Entry
    <3> QED
      BY <1>0, <2>2, <3>1 DEF IdsInv, FreshOrigin, Shape, Ids
  <2> QED
    BY <2>1, <2>2 DEF Heirs, OriginStep
<1>5. OriginsAgree'
  <2>1. CASE EntriesKept
    BY <1>3, <2>1 DEF OriginsAgree, EntriesKept
  <2>2. CASE ~EntriesKept
    <3>1. PICK x \in Entry : /\ x.id = made + 1
                             /\ \A e : IsEntry(e)' => IsEntry(e) \/ e = x
      BY <2>2 DEF Heirs, EntriesStep
    <3>2. origin[x.id] = Nobody
      BY <1>0, <3>1 DEF IdsInv, FreshOrigin, Entry, Ids
    <3>3. origin'[x.id] = Nobody
      <4>1. ASSUME NEW y, IsEntry(y)  PROVE y.id # x.id /\ y.id \in Ids
        BY <1>0, <3>1, <4>1 DEF IdsInv, EntriesAreMade, Entry, Ids
      <4> QED
        BY <3>2, <4>1 DEF Heirs, OriginStep, Shape, Entry
    <3> QED
      BY <1>3, <3>1, <3>3 DEF OriginsAgree
  <2> QED
    BY <2>1, <2>2
<1>6. TopsAreMade'
  <2> SUFFICES ASSUME NEW t, IsTop(t)'
               PROVE  /\ t \in 0 .. made' /\ \A e : IsEntry(e)' => e.id # t
                      /\ t # Nobody => origin'[t] = Nobody
    BY DEF TopsAreMade
  <2>1. \A e : IsEntry(e)' => e.id \in Ids
    BY <1>1 DEF EntriesAreMade, Entry
  <2>2. ASSUME NEW x, IsEntry(x)  PROVE x.id \in Ids /\ x.id =< made
    BY <2>2 DEF IdsInv, EntriesAreMade, Entry
  <2>3. CASE t = Nobody
    BY <1>0, <2>1, <2>3 DEF Nobody, Ids
  <2>4. CASE IsTop(t) /\ t # Nobody
    <3>1. t \in 0 .. made /\ (\A e : IsEntry(e) => e.id # t) /\ origin[t] = Nobody
      BY <2>4 DEF IdsInv, TopsAreMade
    <3>2. \A e : IsEntry(e)' => e.id # t
      BY <1>0, <3>1 DEF Heirs, EntriesStep, EntriesKept
    <3>3. t \in Ids
      BY <1>0, <2>4, <3>1, IdsAssumption DEF Shape, Ids, Nobody
    <3>4. origin'[t] = Nobody
      BY <2>2, <3>1, <3>3 DEF Heirs, OriginStep, Shape
    <3> QED
      BY <1>0, <3>1, <3>2, <3>4
  <2>5. CASE t = made + 1 /\ made' = made + 1 /\ EntriesKept
    <3>1. t \in Ids
      BY <1>0, <2>5 DEF Shape, Ids
    <3>2. origin[t] = Nobody
      BY <1>0, <2>5, <3>1 DEF IdsInv, FreshOrigin
    <3>3. \A e : IsEntry(e) => e.id # t
      BY <1>0, <2>2, <2>5 DEF Ids
    <3>4. origin'[t] = Nobody
      BY <2>2, <3>1, <3>2, <3>3 DEF Heirs, OriginStep, Shape
    <3> QED
      BY <1>0, <2>5, <3>3, <3>4 DEF EntriesKept
  <2> QED
    BY <2>3, <2>4, <2>5, TopStep DEF Heirs
<1> QED
  BY <1>1, <1>2, <1>4, <1>5, <1>6 DEF IdsInv

(* What a node knows in the next state, it knew, or it is in the registry. *)
NodeHeir(n) ==
  /\ \A x : NodeEntry(node'[n], x) => IsEntry(x)
  /\ \A x : NodeName(node'[n], x) => x \in {Nobody, names, names'} \/ NodeName(node[n], x)

CreateHeir(n) ==
  \/ creating'[n] = creating[n] \/ creating'[n] = NoCreate
  \/ /\ creating'[n].id = creating[n].id
     /\ creating[n].at # "register" \/ names' = creating[n].id

DeleteHeir(n) ==
  /\ \A e \in deleting'[n].list : IsEntry(e)
  /\ deleting'[n].root \in {Nobody, deleting[n].root, node[n].name}

(* Most steps only pass on what is known.                                  *)
LEMMA HeirsFrom ==
  ASSUME \A n \in Nodes : NodeHeir(n) /\ CreateHeir(n) /\ DeleteHeir(n),
         clones' \subseteq clones, OriginStep, made' = made,
         names' \in {names, Nobody} \cup {creating[n].id : n \in Nodes}
  PROVE  Heirs
<1>1. EntriesKept
  BY DEF EntriesKept, IsEntry, NodeHeir, DeleteHeir
<1>2. NamedStep
  <2> SUFFICES ASSUME NEW n \in Nodes, NEW t, Named(n, t)'
               PROVE  t \in {Nobody, names, names'} \/ \E m \in Nodes : Named(m, t)
    BY DEF NamedStep
  <2>1. CASE NodeName(node'[n], t)
    BY <2>1 DEF NodeHeir, Named
  <2>2. CASE t = deleting'[n].root
    BY <2>2 DEF DeleteHeir, Named, NodeName
  <2>3. CASE t = creating'[n].id /\ creating'[n].at # "register"
    BY <2>3 DEF CreateHeir, Named, NoCreate
  <2> QED
    BY <2>1, <2>2, <2>3 DEF Named
<1>3. NewNames
  BY DEF NewNames, CreateHeir, NoCreate
<1> QED
  BY <1>1, <1>2, <1>3 DEF Heirs, EntriesStep, MadeStep

(* A node whose caches and inbox stay as they are.                         *)
LEMMA SameHeir ==
  ASSUME NEW n \in Nodes, node'[n].name = node[n].name, node'[n].clones = node[n].clones,
         node'[n].cloning \subseteq node[n].cloning, node'[n].inbox = node[n].inbox
  PROVE  NodeHeir(n)
BY DEF NodeHeir, NodeEntry, NodeName, IsEntry

(* A node that is told of a change.                                        *)
LEMMA TellHeir ==
  ASSUME NEW table \in [Nodes -> NodeRecord], NEW c \in ChangeRecord, NEW n \in Nodes
  PROVE  /\ \A x : NodeEntry(Tell(table, c)[n], x) =>
                     NodeEntry(table[n], x) \/ (c.key = "clone" /\ x = c.entry)
         /\ \A x : NodeName(Tell(table, c)[n], x) =>
                     NodeName(table[n], x) \/ (c.key = "name" /\ x = c.id)
<1>1. CASE Tell(table, c)[n] = table[n]
  BY <1>1
<1>2. CASE Tell(table, c)[n] = [table[n] EXCEPT !.inbox = Append(@, c)]
  <2> DEFINE s == table[n]
             t == Tell(table, c)[n]
  <2>0. s \in NodeRecord
    OBVIOUS
  <2>1. /\ t.name = s.name /\ t.clones = s.clones /\ t.cloning = s.cloning
        /\ t.inbox = Append(s.inbox, c)
    BY <1>2, <2>0 DEF NodeRecord
  <2>2. s.inbox \in Seq(ChangeRecord)
    BY <2>0 DEF NodeRecord
  <2>3. \A k \in 1 .. Len(t.inbox) : \/ k \in 1 .. Len(s.inbox) /\ t.inbox[k] = s.inbox[k]
                                     \/ t.inbox[k] = c
    BY <2>1, <2>2
  <2> HIDE DEF s, t
  <2> QED
    BY <2>1, <2>3 DEF NodeEntry, NodeName, s, t
<1> QED
  BY <1>1, <1>2, TellIs

(* Nothing is known that was not, if only one node changes, and it does    *)
(* not learn anything.                                                     *)
LEMMA OneNodeHeirs ==
  ASSUME Shape, NEW n \in Nodes, NEW s \in NodeRecord, node' = [node EXCEPT ![n] = s],
         s.name = node[n].name, s.clones = node[n].clones, s.cloning \subseteq node[n].cloning,
         s.inbox = node[n].inbox, \A m \in Nodes : CreateHeir(m) /\ DeleteHeir(m),
         UNCHANGED <<names, clones, ids>>
  PROVE  Heirs
<1>1. \A m \in Nodes : NodeHeir(m)
  BY SameHeir DEF Shape
<1> QED
  BY <1>1, HeirsFrom DEF ids, OriginStep

(* A call that does not change passes on what it knows.                    *)
LEMMA CallHeirs ==
  /\ UNCHANGED creating => \A m \in Nodes : CreateHeir(m)
  /\ UNCHANGED deleting => \A m \in Nodes : DeleteHeir(m)
BY DEF CreateHeir, DeleteHeir, IsEntry

(* A step of one machine, and the death of one, teach nobody anything.      *)
LEMMA StepsHeirs ==
  ASSUME Shape, NEW n \in Nodes, NEW s \in NodeRecord, Steps(n, s),
         s.name = node[n].name, s.clones = node[n].clones, s.cloning \subseteq node[n].cloning,
         s.inbox = node[n].inbox
  PROVE  Heirs
BY OneNodeHeirs, CallHeirs DEF Steps, etcd, rpcs

(* So does a Delete that hears of a death.                                  *)
LEMMA DiesHeirs ==
  ASSUME Shape, NEW n \in Nodes, NEW i \in Ids, Dies(n, i)
  PROVE  Heirs
<1> DEFINE s == deleteFilesystem(node[n], i)
<1>1. /\ s \in NodeRecord /\ s.name = node[n].name /\ s.clones = node[n].clones
      /\ s.cloning = node[n].cloning /\ s.inbox = node[n].inbox
  BY DeleteIs DEF Shape
<1>2. \A m \in Nodes : DeleteHeir(m)
  BY HeardIs DEF Dies, DeleteHeir, IsEntry, Shape
<1>3. node' = [node EXCEPT ![n] = s]
  BY DEF Dies
<1> HIDE DEF s
<1> QED
  BY <1>1, <1>2, <1>3, OneNodeHeirs, CallHeirs DEF Dies, etcd

(* Machines pass on what is known.                                         *)
LEMMA MachineHeirs ==
  ASSUME Shape, NEW n \in Nodes, NEW i \in Ids, Machine(n, i)
  PROVE  Heirs
<1>0. node[n] \in NodeRecord
  BY DEF Shape
<1>2. ASSUME NEW m \in MachineStates
      PROVE  LET s == [node[n] EXCEPT !.machine[i] = m] IN
             /\ s \in NodeRecord /\ s.name = node[n].name /\ s.clones = node[n].clones
             /\ s.cloning = node[n].cloning /\ s.inbox = node[n].inbox
  BY <1>0 DEF NodeRecord
<1>3. ASSUME NEW m \in MachineStates
      PROVE  LET s == [node[n] EXCEPT !.machine[i] = m, !.pool = @ \cup {i}] IN
             /\ s \in NodeRecord /\ s.name = node[n].name /\ s.clones = node[n].clones
             /\ s.cloning = node[n].cloning /\ s.inbox = node[n].inbox
  BY <1>0 DEF NodeRecord
<1>4. CASE discover(n, i)
  BY <1>2, <1>4, StepsHeirs, DiesHeirs DEF discover, MachineStates
<1>5. CASE receive(n, i)
  BY <1>2, <1>3, <1>5, StepsHeirs DEF receive, MachineStates
<1>6. CASE handleDelete(n, i)
  BY <1>6, DiesHeirs DEF handleDelete
<1>7. CASE handleCreate(n, i)
  <2> DEFINE s == [node[n] EXCEPT !.requests[i] = @ \ {"create"}]
             t == [s EXCEPT !.machine[i] = "present", !.pool = @ \cup {i}]
             u == [s EXCEPT !.machine[i] = "discovering"]
  <2>1. /\ s \in NodeRecord /\ s.name = node[n].name /\ s.clones = node[n].clones
        /\ s.cloning = node[n].cloning /\ s.inbox = node[n].inbox
    BY <1>0 DEF NodeRecord
  <2>2. node' = [node EXCEPT ![n] = t] \/ node' = [node EXCEPT ![n] = u]
    BY <1>7 DEF handleCreate
  <2> HIDE DEF s
  <2>3. /\ t \in NodeRecord /\ t.name = node[n].name /\ t.clones = node[n].clones
        /\ t.cloning = node[n].cloning /\ t.inbox = node[n].inbox
        /\ u \in NodeRecord /\ u.name = node[n].name /\ u.clones = node[n].clones
        /\ u.cloning = node[n].cloning /\ u.inbox = node[n].inbox
    BY <2>1 DEF NodeRecord, MachineStates
  <2> HIDE DEF t, u
  <2>4. \A m \in Nodes : CreateHeir(m)
    BY <1>7 DEF handleCreate, CreateHeir, Shape
  <2> QED
    BY <1>7, <2>2, <2>3, <2>4, OneNodeHeirs, CallHeirs DEF handleCreate, etcd
<1> QED
  BY <1>4, <1>5, <1>6, <1>7 DEF Machine

(* Create takes a new id, or the id that the name has; its other steps     *)
(* pass on what is known.                                                  *)
LEMMA CreateHeirs ==
  ASSUME Shape, NEW n \in Nodes, Create(n) \/ CreateSteps(n) \/ abandonCreate(n)
  PROVE  Heirs
<1>0. /\ node[n] \in NodeRecord
      /\ creating[n].at # "none" => creating[n].id \in Ids
  BY DEF Shape, CreateRecord, NoCreate
<1>1. CASE Create(n)
  <2>1. UNCHANGED <<names, clones, origin, node, deleting>>
    BY <1>1 DEF Create, etcd
  <2>2. EntriesKept
    BY <2>1 DEF EntriesKept, IsEntry
  <2>3. \A m \in Nodes : m # n => creating'[m] = creating[m]
    BY <1>1 DEF Create, Shape
  <2>4. CASE made' = made + 1 /\ creating'[n] = [at |-> "register", id |-> made + 1]
    <3>1. NamedStep
      BY <2>1, <2>3, <2>4 DEF NamedStep, Named
    <3>2. NewNames
      BY <2>1, <2>2, <2>3, <2>4 DEF NewNames
    <3> QED
      BY <2>1, <2>2, <2>4, <3>1, <3>2 DEF Heirs, EntriesStep, OriginStep, MadeStep
  <2>5. CASE made' = made /\ creating'[n] = [at |-> "check", id |-> names]
    <3>1. NamedStep
      BY <2>1, <2>3, <2>5 DEF NamedStep, Named
    <3>2. NewNames
      BY <2>1, <2>2, <2>3, <2>5 DEF NewNames
    <3> QED
      BY <2>1, <2>2, <2>5, <3>1, <3>2 DEF Heirs, EntriesStep, OriginStep, MadeStep
  <2> QED
    BY <1>1, <2>4, <2>5 DEF Create, Shape
<1>2. CASE RegisterFilesystem(n)
  <2>0. UNCHANGED <<clones, ids, deleting>>
    BY <1>2 DEF RegisterFilesystem
  <2>1. CASE names = Nobody
    <3> DEFINE c == Change("name", creating[n].id, NoEntry)
               t == Tell(node, c)
    <3>1. c \in ChangeRecord /\ node \in [Nodes -> NodeRecord] /\ c.key = "name" /\ c.id = creating[n].id
      BY <1>0, <1>2, ChangesAre DEF RegisterFilesystem, Shape, Change
    <3>2. t \in [Nodes -> NodeRecord]
      BY <3>1, TellIs
    <3>3. node' = [t EXCEPT ![n].name = creating[n].id] /\ names' = creating[n].id
      BY <1>2, <2>1 DEF RegisterFilesystem
    <3>4. \A m \in Nodes :
            /\ \A x : NodeEntry(t[m], x) => NodeEntry(node[m], x)
            /\ \A x : NodeName(t[m], x) => NodeName(node[m], x) \/ x = names'
      BY <3>1, <3>3, TellHeir
    <3> HIDE DEF t, c
    <3>5. \A m \in Nodes \ {n} : node'[m] = t[m]
      BY <3>2, <3>3
    <3>6. /\ node'[n].name = names' /\ node'[n].clones = t[n].clones
          /\ node'[n].cloning = t[n].cloning /\ node'[n].inbox = t[n].inbox
      BY <3>2, <3>3 DEF NodeRecord
    <3>a. \A x : /\ NodeEntry(node'[n], x) => NodeEntry(t[n], x)
                 /\ NodeName(node'[n], x) => NodeName(t[n], x) \/ x = names'
      BY <3>6 DEF NodeEntry, NodeName
    <3>7. \A m \in Nodes : NodeHeir(m)
      BY <3>4, <3>5, <3>a DEF NodeHeir, IsEntry
    <3>8. \A m \in Nodes : CreateHeir(m)
      BY <1>2, <2>1, <3>3, NextCreateIs DEF RegisterFilesystem, CreateHeir
    <3> QED
      BY <2>0, <3>3, <3>7, <3>8, CallHeirs, HeirsFrom DEF ids, OriginStep
  <2>2. CASE names # Nobody
    <3>1. \A m \in Nodes : CreateHeir(m)
      BY <1>2, <2>2, NextCreateIs DEF RegisterFilesystem, CreateHeir
    <3>2. UNCHANGED <<names, node>>
      BY <1>2, <2>2 DEF RegisterFilesystem
    <3>3. \A m \in Nodes : NodeHeir(m)
      BY <3>2, SameHeir
    <3> QED
      BY <2>0, <3>1, <3>2, <3>3, CallHeirs, HeirsFrom DEF ids, OriginStep
  <2> QED
    BY <2>1, <2>2
<1>3. CASE checkMaster(n) \/ abandonCreate(n)
  <2>1. \A m \in Nodes : CreateHeir(m)
    BY <1>3, NextCreateIs DEF checkMaster, abandonCreate, CreateHeir
  <2>2. UNCHANGED <<names, clones, ids, node, deleting>>
    BY <1>3 DEF checkMaster, abandonCreate, etcd
  <2>3. \A m \in Nodes : NodeHeir(m)
    BY <2>2, SameHeir
  <2> QED
    BY <2>1, <2>2, <2>3, CallHeirs, HeirsFrom DEF ids, OriginStep
<1>4. CASE claimMaster(n)
  <2> DEFINE c == Change("master", creating[n].id, NoEntry)
  <2>1. \A m \in Nodes : CreateHeir(m)
    BY <1>4, NextCreateIs DEF claimMaster, CreateHeir
  <2>2. UNCHANGED <<names, clones, ids, deleting>> /\ (node' = node \/ node' = Tell(node, c))
    BY <1>4 DEF claimMaster
  <2>3. c \in ChangeRecord /\ node \in [Nodes -> NodeRecord] /\ c.key = "master"
    BY <1>0, <1>4, ChangesAre DEF claimMaster, Shape, Change
  <2>4. \A m \in Nodes : NodeHeir(m)
    BY <2>2, <2>3, SameHeir, TellHeir DEF NodeHeir, IsEntry
  <2> QED
    BY <2>1, <2>2, <2>4, CallHeirs, HeirsFrom DEF ids, OriginStep
<1>5. CASE dispatchCreate(n)
  <2> DEFINE i == creating[n].id
  <2>1. i \in Ids
    BY <1>5, DispatchCreateIs
  <2>2. PICK s \in initFilesystemMachine(node[n], i) :
          \/ node' = [node EXCEPT ![n] = s]
          \/ node' = [node EXCEPT ![n] = [s EXCEPT !.requests[i] = @ \cup {"create"}]]
    BY <1>5, DispatchCreateIs
  <2>3. \A m \in Nodes : CreateHeir(m)
    BY <1>5, DispatchCreateIs DEF CreateHeir
  <2> DEFINE t == [s EXCEPT !.requests[i] = @ \cup {"create"}]
  <2>4. /\ s \in NodeRecord /\ s.name = node[n].name /\ s.clones = node[n].clones
        /\ s.cloning = node[n].cloning /\ s.inbox = node[n].inbox
    <3> DEFINE r == node[n]
    <3>1. r \in NodeRecord /\ s \in initFilesystemMachine(r, i)
      BY <1>0
    <3> HIDE DEF r, i, t
    <3>2. /\ s \in NodeRecord /\ s.name = r.name /\ s.clones = r.clones
          /\ s.cloning = r.cloning /\ s.inbox = r.inbox
      BY <2>1, <3>1, InitIs
    <3> QED
      BY <3>2 DEF r
  <2> HIDE DEF i
  <2>5. /\ t \in NodeRecord /\ t.name = s.name /\ t.clones = s.clones
        /\ t.cloning = s.cloning /\ t.inbox = s.inbox
    BY <2>4 DEF NodeRecord
  <2>6. node' = [node EXCEPT ![n] = s] \/ node' = [node EXCEPT ![n] = t]
    BY <2>2
  <2> HIDE DEF t
  <2>7. UNCHANGED <<names, clones, ids, deleting>>
    BY <1>5 DEF dispatchCreate, etcd
  <2> QED
    BY <2>3, <2>4, <2>5, <2>6, <2>7, OneNodeHeirs, CallHeirs
<1> QED
  BY <1>1, <1>2, <1>3, <1>4, <1>5 DEF CreateSteps

(* Branch registers a clone with a new id, of an origin that was made; zfs *)
(* clone gives that clone its origin.                                      *)
LEMMA BranchHeirs ==
  ASSUME Shape, IdsInv, NEW n \in Nodes,
         \/ \E m \in Nodes, i \in Ids, b \in Branches : Branch(m, n, i, b)
         \/ clone(n) \/ cloneFails(n)
  PROVE  Heirs
<1>0. node[n] \in NodeRecord
  BY DEF Shape
<1>1. ASSUME NEW m \in Nodes, NEW i \in Ids, NEW b \in Branches, Branch(m, n, i, b)
      PROVE  Heirs
  <2> DEFINE e == BranchEntry(m, i, b)
             s == [node[n] EXCEPT !.clones = Overwrite(@, e), !.cloning = {e},
                                  !.machine[i] = "cloning"]
             table == [node EXCEPT ![n] = s]
  <2>a. /\ e \in Entry /\ table \in [Nodes -> NodeRecord]
        /\ Change("clone", e.id, e) \in ChangeRecord
        /\ \/ node' = table /\ clones' = clones
           \/ node' = Tell(table, Change("clone", e.id, e)) /\ clones' = clones \cup {e}
    BY <1>1, BranchIs
  <2>b. e.id = made + 1 /\ e.origin = i /\ made' = made + 1
    BY <1>1, Zenon DEF Branch, BranchEntry
  <2>c. s \in NodeRecord
    BY <1>1, BranchIs
  <2> DEFINE c == Change("clone", e.id, e)
  <2>1. /\ e \in Entry /\ e.id = made + 1 /\ e.origin = i
        /\ s \in NodeRecord /\ table \in [Nodes -> NodeRecord] /\ c \in ChangeRecord
        /\ \/ node' = table /\ clones' = clones
           \/ node' = Tell(table, c) /\ clones' = clones \cup {e}
        /\ made' = made + 1
    BY <2>a, <2>b, <2>c, Zenon
  <2>2. UNCHANGED <<names, origin, creating, deleting>>
    BY <1>1 DEF Branch, rpcs
  <2>3. i =< made
    <3>1. i = node[m].name \/ \E x \in node[m].clones : x.id = i
      BY <1>1 DEF Branch
    <3>2. IsTop(node[m].name) /\ \A x \in node[m].clones : IsEntry(x)
      BY DEF IsTop, Named, NodeName, IsEntry, NodeEntry
    <3> QED
      BY <3>1, <3>2 DEF IdsInv, TopsAreMade, EntriesAreMade
  <2>4. /\ s.name = node[n].name /\ s.clones = Overwrite(node[n].clones, e) /\ s.cloning = {e}
        /\ s.inbox = node[n].inbox
    BY <1>0 DEF NodeRecord
  <2>5. c.key = "clone" /\ c.entry = e
    BY DEF Change
  <2> HIDE DEF e, s, c
  <2>6. \A x : /\ NodeEntry(s, x) => NodeEntry(node[n], x) \/ x = e
               /\ NodeName(s, x) => NodeName(node[n], x)
    BY <2>4 DEF NodeEntry, NodeName, Overwrite
  <2>7. \A k \in Nodes : \A x : /\ NodeEntry(table[k], x) => NodeEntry(node[k], x) \/ x = e
                                /\ NodeName(table[k], x) => NodeName(node[k], x)
    BY <2>6 DEF Shape
  <2> HIDE DEF table
  <2>8. \A k \in Nodes : \A x : /\ NodeEntry(node'[k], x) => NodeEntry(node[k], x) \/ x = e
                                /\ NodeName(node'[k], x) => NodeName(node[k], x)
    <3>1. CASE node' = table
      BY <2>7, <3>1
    <3>2. CASE node' = Tell(table, c)
      <4>1. \A k \in Nodes :
              /\ \A x : NodeEntry(Tell(table, c)[k], x) => NodeEntry(table[k], x) \/ x = e
              /\ \A x : NodeName(Tell(table, c)[k], x) => NodeName(table[k], x)
        BY <2>1, <2>5, TellHeir
      <4> QED
        BY <2>7, <3>2, <4>1
    <3> QED
      BY <2>1, <3>1, <3>2
  <2>9. \A x : IsEntry(x)' => IsEntry(x) \/ x = e
    BY <2>1, <2>2, <2>8 DEF IsEntry
  <2>10. NamedStep
    BY <2>2, <2>8 DEF NamedStep, Named
  <2>11. EntriesStep
    BY <2>1, <2>2, <2>3, <2>9 DEF EntriesStep
  <2> QED
    BY <2>1, <2>2, <2>10, <2>11 DEF Heirs, NewNames, OriginStep, MadeStep
<1>2. CASE clone(n)
  <2>0. PICK e \in node[n].cloning, t \in NodeRecord : Cloned(n, e, t)
    BY <1>2, CloneIs
  <2> DEFINE table == [node EXCEPT ![n] = t]
             c == Change("master", e.id, NoEntry)
  <2>1. table \in [Nodes -> NodeRecord] /\ c \in ChangeRecord
        /\ (node' = table \/ node' = Tell(table, c))
    BY <2>0 DEF Cloned
  <2>3. UNCHANGED <<names, clones, made, creating, deleting>>
    BY <1>2 DEF clone, rpcs
  <2>4. c.key = "master"
    BY DEF Change
  <2>6. \A k \in Nodes : \A x : /\ NodeEntry(table[k], x) => NodeEntry(node[k], x)
                                /\ NodeName(table[k], x) => NodeName(node[k], x)
    BY <2>0 DEF Cloned, Shape, NodeEntry, NodeName
  <2> HIDE DEF table, c
  <2>7. \A k \in Nodes : NodeHeir(k)
    BY <2>1, <2>4, <2>6, TellHeir DEF NodeHeir, IsEntry
  <2>8. OriginStep
    BY <2>0 DEF Cloned, OriginStep, IsEntry, NodeEntry
  <2> QED
    BY <2>3, <2>7, <2>8, CallHeirs, HeirsFrom
<1>3. CASE cloneFails(n)
  <2>1. PICK e \in node[n].cloning :
          Steps(n, [node[n] EXCEPT !.cloning = {}, !.machine[e.origin] = "discovering"])
    BY <1>3 DEF cloneFails
  <2>2. e.origin \in Ids
    BY <1>0 DEF NodeRecord, Entry
  <2> DEFINE s == [node[n] EXCEPT !.cloning = {}, !.machine[e.origin] = "discovering"]
  <2>3. /\ s \in NodeRecord /\ s.name = node[n].name /\ s.clones = node[n].clones
        /\ s.cloning = {} /\ s.inbox = node[n].inbox
    BY <1>0, <2>2 DEF NodeRecord, MachineStates
  <2> HIDE DEF s
  <2> QED
    BY <2>1, <2>3, StepsHeirs DEF s
<1> QED
  BY <1>1, <1>2, <1>3

(* Delete takes the name and the clones that its node knows of.            *)
LEMMA DeleteHeirs ==
  ASSUME Shape, NEW n \in Nodes, Delete(n) \/ DeleteSteps(n)
  PROVE  Heirs
<1>0. node \in [Nodes -> NodeRecord] /\ deleting[n] \in DeleteRecord
  BY DEF Shape
<1>1. CASE Delete(n)
  <2> DEFINE root == node[n].name
             known == {e \in node[n].clones : e.top = root}
             new == [at |-> "mark", root |-> root, list |-> known,
                     todo |-> Descendants(known, root), id |-> Nobody]
  <2>1. deleting' = [deleting EXCEPT ![n] = new] /\ UNCHANGED <<names, clones, ids, node, creating>>
    BY <1>1 DEF Delete, etcd
  <2>2. new.root = node[n].name /\ new.list \subseteq node[n].clones
    OBVIOUS
  <2> HIDE DEF new
  <2>3. \A m \in Nodes : DeleteHeir(m)
    BY <2>1, <2>2 DEF DeleteHeir, IsEntry, NodeEntry, Shape
  <2>4. \A m \in Nodes : NodeHeir(m)
    BY <2>1, SameHeir
  <2> QED
    BY <2>1, <2>3, <2>4, CallHeirs, HeirsFrom DEF ids, OriginStep
<1>2. CASE markDeleted(n)
  <2>1. deleting[n] \in [at : {"mark", "unregister"}, root : Ids, list : SUBSET Entry,
                         todo : SUBSET Ids, id : {Nobody}]
    BY <1>0, <1>2 DEF markDeleted, DeleteRecord, NoDelete
  <2>2. PICK i \in deletableNext(deleting[n]) :
          IF i \in deleted
            THEN /\ deleting' = [deleting EXCEPT ![n] = NoDelete]
                 /\ UNCHANGED <<deleted, node>>
            ELSE /\ deleted' = deleted \cup {i}
                 /\ node' = Tell(node, Change("deleted", i, NoEntry))
                 /\ deleting' = [deleting EXCEPT ![n] = [deleting[n] EXCEPT !.at = "pend", !.id = i]]
    BY <1>2 DEF markDeleted
  <2> DEFINE c == Change("deleted", i, NoEntry)
             new == [deleting[n] EXCEPT !.at = "pend", !.id = i]
  <2>3. c \in ChangeRecord /\ c.key = "deleted"
    <3>1. i \in Ids
      BY <2>1 DEF deletableNext
    <3> QED
      BY <3>1, ChangesAre DEF Change
  <2>4. new.root = deleting[n].root /\ new.list = deleting[n].list
    BY <2>1
  <2>5. /\ node' = node \/ node' = Tell(node, c)
        /\ deleting' = [deleting EXCEPT ![n] = NoDelete] \/ deleting' = [deleting EXCEPT ![n] = new]
        /\ UNCHANGED <<names, clones, ids, creating>>
    BY <1>2, <2>2 DEF markDeleted
  <2> HIDE DEF c, new
  <2>6. \A m \in Nodes : NodeHeir(m)
    BY <1>0, <2>3, <2>5, SameHeir, TellHeir DEF NodeHeir, IsEntry
  <2>7. \A m \in Nodes : DeleteHeir(m)
    BY <2>4, <2>5 DEF DeleteHeir, IsEntry, Shape, NoDelete
  <2> QED
    BY <2>5, <2>6, <2>7, CallHeirs, HeirsFrom DEF ids, OriginStep
<1>3. CASE markPending(n)
  <2>1. deleting' = [deleting EXCEPT ![n].at = "wait"] /\ UNCHANGED <<names, clones, ids, node, creating>>
    BY <1>3 DEF markPending
  <2>2. \A m \in Nodes : DeleteHeir(m)
    BY <1>0, <2>1 DEF DeleteHeir, IsEntry, Shape, DeleteRecord, NoDelete
  <2>3. \A m \in Nodes : NodeHeir(m)
    BY <2>1, SameHeir
  <2> QED
    BY <2>1, <2>2, <2>3, CallHeirs, HeirsFrom DEF ids, OriginStep
<1>4. CASE UnregisterFilesystem(n)
  <2> DEFINE c == Change("name", Nobody, NoEntry)
  <2>1. /\ names' = Nobody /\ deleting' = [deleting EXCEPT ![n] = NoDelete]
        /\ node' = node \/ node' = Tell(node, c)
        /\ UNCHANGED <<clones, ids, creating>>
    BY <1>4 DEF UnregisterFilesystem
  <2>2. c \in ChangeRecord /\ c.key = "name" /\ c.id = Nobody
    BY ChangesAre DEF Change
  <2> HIDE DEF c
  <2>3. \A m \in Nodes : NodeHeir(m)
    BY <1>0, <2>1, <2>2, SameHeir, TellHeir DEF NodeHeir, IsEntry
  <2>4. \A m \in Nodes : DeleteHeir(m)
    BY <2>1 DEF DeleteHeir, IsEntry, Shape, NoDelete
  <2> QED
    BY <2>1, <2>3, <2>4, CallHeirs, HeirsFrom DEF ids, OriginStep
<1> QED
  BY <1>1, <1>2, <1>3, <1>4 DEF DeleteSteps

(* Cleanup tells of the name and the clones that it removes.               *)
LEMMA CleanupHeirs ==
  ASSUME Shape, NEW n \in Nodes, Cleanup(n)
  PROVE  Heirs
<1>0. node \in [Nodes -> NodeRecord]
  BY DEF Shape
<1>1. CASE listFilesystemsPendingCleanup(n) \/ cleanMasters(n) \/ cleanPending(n)
  <2>1. UNCHANGED <<names, clones, ids, node, creating, deleting>>
    BY <1>1 DEF listFilesystemsPendingCleanup, cleanMasters, cleanPending, etcd
  <2>2. \A m \in Nodes : NodeHeir(m)
    BY <2>1, SameHeir
  <2> QED
    BY <2>1, <2>2, CallHeirs, HeirsFrom DEF ids, OriginStep
<1>2. CASE cleanRegistry(n)
  <2> DEFINE a == cleaning[n].audit
             c == Change("name", Nobody, NoEntry)
             d == Change("cloneGone", a.id, [NoEntry EXCEPT !.top = a.top])
  <2>1. UNCHANGED <<ids, creating, deleting>> /\ clones' \subseteq clones /\ names' \in {names, Nobody}
        /\ (node' = node \/ node' = Tell(node, c) \/ (a.top # Nobody /\ node' = Tell(node, d)))
    BY <1>2 DEF cleanRegistry
  <2>2. c \in ChangeRecord /\ c.key = "name" /\ c.id = Nobody
    BY ChangesAre DEF Change
  <2>3. a.top # Nobody => d \in ChangeRecord /\ d.key = "cloneGone"
    <3>1. a \in Audit
      BY <1>2 DEF cleanRegistry, Shape, CleanRecord, NoClean
    <3>2. a.id \in Ids /\ (a.top # Nobody => a.top \in Ids)
      BY <3>1 DEF Audit
    <3> QED
      BY <3>2, ChangesAre DEF Change
  <2> HIDE DEF c, d, a
  <2>4. \A m \in Nodes : NodeHeir(m)
    <3>1. CASE node' = node
      BY <3>1 DEF NodeHeir, IsEntry
    <3>2. CASE node' = Tell(node, c)
      BY <1>0, <2>2, <3>2, TellHeir DEF NodeHeir, IsEntry
    <3>3. CASE a.top # Nobody /\ node' = Tell(node, d)
      <4>1. d \in ChangeRecord /\ d.key = "cloneGone"
        BY <2>3, <3>3
      <4> QED
        BY <1>0, <3>3, <4>1, TellHeir DEF NodeHeir, IsEntry
    <3> QED
      BY <2>1, <3>1, <3>2, <3>3
  <2> QED
    BY <2>1, <2>4, CallHeirs, HeirsFrom DEF ids, OriginStep
<1> QED
  BY <1>1, <1>2 DEF Cleanup

(* The watcher, the start and the restart of a server pass on what is      *)
(* known.                                                                  *)
LEMMA ServerHeirs ==
  ASSUME Shape, NEW n \in Nodes,
         watch(n) \/ fetch(n) \/ crash(n) \/ \E i \in Ids : boot(n, i)
  PROVE  Heirs
<1>0. node[n] \in NodeRecord
  BY DEF Shape
<1>a. ASSUME NEW s \in NodeRecord, Steps(n, s),
             \A x : NodeEntry(s, x) => NodeEntry(node[n], x) \/ x \in clones,
             \A x : NodeName(s, x) => x \in {Nobody, names} \/ NodeName(node[n], x)
      PROVE  Heirs
  <2>1. node' = [node EXCEPT ![n] = s] /\ UNCHANGED <<names, clones, ids, creating, deleting>>
    BY <1>a DEF Steps, etcd, rpcs
  <2>2. NodeHeir(n)
    BY <1>a, <2>1 DEF NodeHeir, IsEntry, Shape
  <2>3. \A m \in Nodes \ {n} : NodeHeir(m)
    BY <2>1, SameHeir DEF Shape
  <2> QED
    BY <2>1, <2>2, <2>3, CallHeirs, HeirsFrom DEF ids, OriginStep
<1>1. CASE watch(n)
  <2>1. node[n].inbox \in Seq(ChangeRecord) /\ node[n].inbox # << >>
    BY <1>0, <1>1 DEF NodeRecord, watch
  <2> DEFINE c == Head(node[n].inbox)
             s == [node[n] EXCEPT !.inbox = Tail(node[n].inbox)]
  <2>2. c \in ChangeRecord /\ Tail(node[n].inbox) \in Seq(ChangeRecord) /\ c = node[n].inbox[1]
        /\ 1 \in 1 .. Len(node[n].inbox)
        /\ \A k \in 1 .. Len(Tail(node[n].inbox)) :
             k + 1 \in 1 .. Len(node[n].inbox) /\ Tail(node[n].inbox)[k] = node[n].inbox[k + 1]
    BY <2>1
  <2>3. /\ s \in NodeRecord /\ s.name = node[n].name /\ s.clones = node[n].clones
        /\ s.cloning = node[n].cloning /\ s.inbox = Tail(node[n].inbox)
    BY <1>0, <2>2 DEF NodeRecord
  <2>4. PICK t \in Seen(s, c) : Steps(n, t)
    BY <1>1 DEF watch
  <2> HIDE DEF s, c
  <2>6. /\ t \in NodeRecord
        /\ t.name = s.name \/ (c.key = "name" /\ t.name = c.id)
        /\ \A e \in t.clones : e \in s.clones \/ (c.key = "clone" /\ e = c.entry)
        /\ t.cloning = s.cloning
        /\ t.inbox = s.inbox \/ t.inbox = << >>
    BY <2>2, <2>3, SeenIs
  <2>7. \A k \in 1 .. Len(t.inbox) : \E j \in 1 .. Len(node[n].inbox) : t.inbox[k] = node[n].inbox[j]
    <3>1. CASE t.inbox = Tail(node[n].inbox)
      BY <2>2, <3>1
    <3>2. CASE t.inbox = << >>
      BY <3>2
    <3> QED
      BY <2>3, <2>6, <3>1, <3>2
  <2>8. \A x : NodeEntry(t, x) => NodeEntry(node[n], x)
    BY <2>2, <2>3, <2>6, <2>7 DEF NodeEntry
  <2>9. \A x : NodeName(t, x) => NodeName(node[n], x)
    BY <2>2, <2>3, <2>6, <2>7 DEF NodeName
  <2> QED
    BY <1>a, <2>4, <2>6, <2>8, <2>9
<1>2. CASE fetch(n)
  <2>2. MasterIds \subseteq Ids /\ Failing(n) \subseteq Ids
    BY DEF MasterIds, Failing
  <2>3. CASE Steps(n, Fetched(n, MasterIds))
    <3> DEFINE t == Fetched(n, MasterIds)
    <3>1. /\ t \in NodeRecord /\ t.name \in {node[n].name, names}
          /\ t.clones \subseteq node[n].clones \cup clones
          /\ t.cloning = node[n].cloning /\ t.inbox = node[n].inbox
      BY <2>2, AfterIs, FetchedIs
    <3> HIDE DEF t
    <3>2. (\A x : NodeEntry(t, x) => NodeEntry(node[n], x) \/ x \in clones)
          /\ \A x : NodeName(t, x) => x \in {Nobody, names} \/ NodeName(node[n], x)
      BY <3>1 DEF NodeEntry, NodeName
    <3> QED
      BY <1>a, <2>3, <3>1, <3>2 DEF t
  <2>4. ASSUME NEW done \in SUBSET (MasterIds \ Failing(n)),
               \/ Steps(n, After(n, done))
               \/ Steps(n, [After(n, done) EXCEPT !.lock = "stuck"])
        PROVE  Heirs
    <3> DEFINE s == After(n, done)
               t == [s EXCEPT !.lock = "stuck"]
    <3>1. /\ s \in NodeRecord /\ s.name = node[n].name /\ s.clones = node[n].clones
          /\ s.cloning = node[n].cloning /\ s.inbox = node[n].inbox
      BY <2>2, AfterIs
    <3>2. Steps(n, s) \/ Steps(n, t)
      BY <2>4
    <3> HIDE DEF s
    <3>3. /\ t \in NodeRecord /\ t.name = s.name /\ t.clones = s.clones
          /\ t.cloning = s.cloning /\ t.inbox = s.inbox
      BY <3>1, LockIs DEF Locks
    <3> HIDE DEF t
    <3> QED
      BY <3>1, <3>2, <3>3, StepsHeirs
  <2> QED
    BY <1>2, <2>3, <2>4, FetchIs
<1>3. CASE crash(n)
  <2>1. PICK started \in SUBSET node[n].pool : node' = [node EXCEPT ![n] = Started(@.pool, started)]
    BY <1>3 DEF crash
  <2>2. node[n].pool \in SUBSET Ids /\ started \in SUBSET Ids
    BY <1>0 DEF NodeRecord
  <2> DEFINE s == Started(node[n].pool, started)
  <2>3. s.name = Nobody /\ s.clones = {} /\ s.cloning = {} /\ s.inbox = << >>
    BY DEF Started
  <2> HIDE DEF s
  <2>4. (\A x : ~NodeEntry(s, x)) /\ (\A x : NodeName(s, x) => x = Nobody)
    BY <2>3 DEF NodeEntry, NodeName
  <2>5. node'[n] = s /\ \A m \in Nodes \ {n} : node'[m] = node[m]
    BY <2>1 DEF s, Shape
  <2>6. \A m \in Nodes : NodeHeir(m)
    BY <2>4, <2>5, SameHeir DEF NodeHeir
  <2>7. \A m \in Nodes : CreateHeir(m)
    BY <1>3 DEF crash, Shape, CreateHeir
  <2>8. \A m \in Nodes : DeleteHeir(m)
    BY <1>3 DEF crash, Shape, DeleteHeir, NoDelete, IsEntry
  <2> QED
    BY <1>3, <2>6, <2>7, <2>8, HeirsFrom DEF crash, etcd, ids, OriginStep
<1>4. ASSUME NEW i \in Ids, boot(n, i)  PROVE Heirs
  <2> DEFINE s == [node[n] EXCEPT !.booting = @ \ {i}]
  <2>1. /\ s \in NodeRecord /\ s.name = node[n].name /\ s.clones = node[n].clones
        /\ s.cloning = node[n].cloning /\ s.inbox = node[n].inbox
    BY <1>0 DEF NodeRecord
  <2>2. PICK t \in initFilesystemMachine(s, i) : Steps(n, t)
    BY <1>4 DEF boot
  <2> HIDE DEF s
  <2>3. /\ t \in NodeRecord /\ t.name = s.name /\ t.clones = s.clones
        /\ t.cloning = s.cloning /\ t.inbox = s.inbox
    BY <2>1, InitIs
  <2> QED
    BY <2>1, <2>2, <2>3, StepsHeirs
<1> QED
  BY <1>1, <1>2, <1>3, <1>4

(* Every action passes on what is known, or takes a new id.                *)
LEMMA HeirsNext ==
  ASSUME Shape, IdsInv, [Next]_vars
  PROVE  Heirs
<1>1. CASE UNCHANGED vars
  <2>1. UNCHANGED <<names, clones, origin, made, node, creating, deleting>>
    BY <1>1 DEF vars, etcd, ids, rpcs
  <2>2. \A m \in Nodes : NodeHeir(m)
    BY <2>1, SameHeir
  <2> QED
    BY <2>1, <2>2, CallHeirs, HeirsFrom DEF OriginStep
<1>2. CASE Next
  BY <1>2, MachineHeirs, CreateHeirs, BranchHeirs, DeleteHeirs, CleanupHeirs, ServerHeirs
  DEF Next, Users
<1> QED
  BY <1>1, <1>2

-----------------------------------------------------------------------------
(* What becomes of the machines and of the pools.                          *)

(* A node goes from s to t: machines of deleted filesystems do not come    *)
(* back, and nothing is added to the pool.                                 *)
Later(s, t) ==
  /\ t.cloning \subseteq s.cloning /\ t.booting \subseteq s.booting /\ t.pool \subseteq s.pool
  /\ \A i \in Ids : i \in deleted /\ s.machine[i] = "none" => t.machine[i] = "none"
  /\ \A i \in Ids : "create" \in t.requests[i] => "create" \in s.requests[i]

(* Nothing of this depends on the caches.                                  *)
LEMMA CacheFollows ==
  ASSUME NEW s, NEW t, Sane(s), t.machine = s.machine, t.requests = s.requests,
         t.cloning = s.cloning, t.pool = s.pool, t.booting = s.booting
  PROVE  Sane(t) /\ Later(s, t)
BY DEF Sane, Later

(* One step after another.                                                 *)
LEMMA LaterTrans ==
  ASSUME NEW s, NEW t, NEW u, Later(s, t), Later(t, u)
  PROVE  Later(s, u)
BY DEF Later

(* A machine moves on; it starts only if the filesystem is not deleted.    *)
LEMMA MoveFollows ==
  ASSUME NEW s \in NodeRecord, NEW t, NEW i \in Ids, NEW m \in MachineStates, Sane(s),
         t.machine = [s.machine EXCEPT ![i] = m], t.requests = s.requests,
         t.cloning = s.cloning, t.pool = s.pool, t.booting = s.booting,
         s.machine[i] # "cloning" \/ s.cloning = {}, s.machine[i] = "none" => i \notin deleted,
         m \in {"discovering", "missing"} \/ (m = "present" /\ i \in s.pool)
  PROVE  Sane(t) /\ Later(s, t)
<1>1. s.machine \in [Ids -> MachineStates] /\ \A e \in s.cloning : e.origin \in Ids
  BY DEF NodeRecord, Entry
<1>2. \A j \in Ids : t.machine[j] = IF j = i THEN m ELSE s.machine[j]
  BY <1>1
<1> QED
  BY <1>1, <1>2 DEF Sane, Later

(* A machine ends; what is in the pool still has its origin there.         *)
LEMMA DeleteFollows ==
  ASSUME NEW s \in NodeRecord, NEW i \in Ids, Sane(s), s.machine[i] # "cloning"
  PROVE  Sane(deleteFilesystem(s, i)) /\ Later(s, deleteFilesystem(s, i))
<1> DEFINE t == deleteFilesystem(s, i)
<1>1. /\ s.machine \in [Ids -> MachineStates] /\ s.requests \in [Ids -> SUBSET {"create", "delete"}]
      /\ \A e \in s.cloning : e.origin \in Ids
  BY DEF NodeRecord, Entry
<1>2. /\ t.machine = [s.machine EXCEPT ![i] = "none"] /\ t.requests = [s.requests EXCEPT ![i] = {}]
      /\ t.pool = destroy(s.pool, i) /\ t.cloning = s.cloning /\ t.booting = s.booting
  BY DeleteIs
<1> HIDE DEF t
<1>3. \A j \in Ids : /\ t.machine[j] = IF j = i THEN "none" ELSE s.machine[j]
                     /\ t.requests[j] = IF j = i THEN {} ELSE s.requests[j]
  BY <1>1, <1>2
<1>4. t.pool \subseteq s.pool /\ s.pool \ {i} \subseteq t.pool
      /\ \A j \in t.pool : origin[j] # Nobody => origin[j] \in t.pool
  BY <1>2 DEF destroy, Sane
<1>5. Sane(t)
  BY <1>1, <1>2, <1>3, <1>4 DEF Sane
<1>6. Later(s, t)
  BY <1>2, <1>3, <1>4 DEF Later
<1> QED
  BY <1>5, <1>6 DEF t

(* So for initFilesystemMachine.                                           *)
LEMMA InitFollows ==
  ASSUME NEW s \in NodeRecord, NEW i \in Ids, Sane(s), NEW t \in initFilesystemMachine(s, i)
  PROVE  Sane(t) /\ Later(s, t)
<1>1. /\ t.requests = s.requests /\ t.cloning = s.cloning /\ t.pool = s.pool /\ t.booting = s.booting
      /\ \/ t.machine = s.machine
         \/ /\ s.machine[i] = "none" /\ i \notin deleted
            /\ t.machine = [s.machine EXCEPT ![i] = "discovering"]
  BY InitIs
<1>2. CASE t.machine = s.machine
  BY <1>1, <1>2, CacheFollows
<1>3. CASE /\ s.machine[i] = "none" /\ i \notin deleted
           /\ t.machine = [s.machine EXCEPT ![i] = "discovering"]
  BY <1>1, <1>3, MoveFollows DEF MachineStates
<1> QED
  BY <1>1, <1>2, <1>3

(* A machine that runs is sent an event.                                   *)
LEMMA RequestFollows ==
  ASSUME NEW s \in NodeRecord, NEW i \in Ids, NEW t, NEW r, Sane(s), s.machine[i] # "none",
         t.requests = [s.requests EXCEPT ![i] = @ \cup {r}], t.machine = s.machine,
         t.cloning = s.cloning, t.pool = s.pool, t.booting = s.booting
  PROVE  Sane(t) /\ (r # "create" => Later(s, t))
<1>1. s.requests \in [Ids -> SUBSET {"create", "delete"}]
  BY DEF NodeRecord
<1>2. \A j \in Ids : t.requests[j] = IF j = i THEN s.requests[j] \cup {r} ELSE s.requests[j]
  BY <1>1
<1> QED
  BY <1>2 DEF Sane, Later

(* So for the changes that the watcher sees.                               *)
LEMMA SeenFollows ==
  ASSUME NEW s \in NodeRecord, NEW c \in ChangeRecord, Sane(s), NEW v \in Seen(s, c)
  PROVE  Sane(v) /\ Later(s, v)
<1>1. CASE c.key \in {"name", "clone", "cloneGone"}
  <2>1. \/ v = [s EXCEPT !.name = c.id]
        \/ v = [s EXCEPT !.clones = Overwrite(s.clones, c.entry)]
        \/ v = [s EXCEPT !.clones = {e \in s.clones : e.top # c.entry.top}]
    BY <1>1 DEF Seen
  <2>2. v.machine = s.machine /\ v.requests = s.requests /\ v.cloning = s.cloning
        /\ v.pool = s.pool /\ v.booting = s.booting
    BY <2>1 DEF NodeRecord
  <2> QED
    BY <2>2, CacheFollows
<1>2. CASE c.key \in {"master", "deleted"}
  <2>1. c.id \in Ids
    BY <1>2, SeenCases
  <2>2. PICK t \in initFilesystemMachine(s, c.id) : Dispatched(t, c.id, v)
    BY <1>2, SeenCases
  <2>3. t \in NodeRecord /\ Sane(t) /\ Later(s, t)
    BY <2>1, InitIs, InitFollows
  <2>4. SUFFICES Sane(v) /\ Later(t, v)
    BY <2>3, LaterTrans
  <2>5. CASE v = [t EXCEPT !.lock = "stuck"] \/ v = [t EXCEPT !.watching = FALSE, !.inbox = << >>]
    <3>1. v.machine = t.machine /\ v.requests = t.requests /\ v.cloning = t.cloning
          /\ v.pool = t.pool /\ v.booting = t.booting
      BY <2>3, <2>5 DEF NodeRecord
    <3> QED
      BY <2>3, <3>1, CacheFollows
  <2>6. CASE t.machine[c.id] = "missing" /\ v = [t EXCEPT !.machine[c.id] = "discovering"]
    <3>1. v.machine = [t.machine EXCEPT ![c.id] = "discovering"] /\ v.requests = t.requests
          /\ v.cloning = t.cloning /\ v.pool = t.pool /\ v.booting = t.booting
      BY <2>3, <2>6 DEF NodeRecord
    <3> QED
      BY <2>1, <2>3, <2>6, <3>1, MoveFollows DEF MachineStates
  <2>7. CASE t.machine[c.id] # "missing" /\ v = [t EXCEPT !.machine[c.id] = t.machine[c.id]]
    <3>1. v.machine = t.machine /\ v.requests = t.requests /\ v.cloning = t.cloning
          /\ v.pool = t.pool /\ v.booting = t.booting
      BY <2>1, <2>3, <2>7 DEF NodeRecord
    <3> QED
      BY <2>3, <3>1, CacheFollows
  <2>8. CASE t.machine[c.id] # "none" /\ v = [t EXCEPT !.requests[c.id] = @ \cup {"delete"}]
    <3>1. v.requests = [t.requests EXCEPT ![c.id] = @ \cup {"delete"}] /\ v.machine = t.machine
          /\ v.cloning = t.cloning /\ v.pool = t.pool /\ v.booting = t.booting
      BY <2>3, <2>8 DEF NodeRecord
    <3>2. t.machine[c.id] # "none"
      BY <2>8
    <3> QED
      BY <2>1, <2>3, <3>1, <3>2, RequestFollows
  <2> QED
    BY <2>2, <2>5, <2>6, <2>7, <2>8 DEF Dispatched
<1> QED
  BY <1>1, <1>2 DEF ChangeRecord

(* So for the masters keys that fetchAndWatchEtcd handles.                 *)
LEMMA AfterFollows ==
  ASSUME Shape, NEW n \in Nodes, Sane(node[n]), NEW done \in SUBSET (MasterIds \ Failing(n))
  PROVE  Sane(After(n, done)) /\ Later(node[n], After(n, done))
<1> DEFINE t == After(n, done)
<1>0. done \in SUBSET Ids
  BY DEF MasterIds
<1>1. /\ t.cloning = node[n].cloning /\ t.booting = node[n].booting
      /\ t.requests = node[n].requests /\ t.pool = node[n].pool
      /\ \A i \in Ids : \/ t.machine[i] = node[n].machine[i]
                        \/ /\ i \in done /\ node[n].machine[i] \in {"none", "missing"}
                           /\ t.machine[i] = "discovering"
  BY <1>0, AfterIs
<1>2. \A e \in node[n].cloning : e.origin \in Ids
  BY DEF Shape, NodeRecord, Entry
<1>3. \A i \in done : ~(i \in deleted /\ node[n].machine[i] = "none")
  BY DEF Failing
<1> HIDE DEF t
<1>4. Sane(t)
  BY <1>1, <1>2 DEF Sane
<1>5. Later(node[n], t)
  BY <1>1, <1>3 DEF Later
<1> QED
  BY <1>4, <1>5 DEF t

(* A server starts without machines.                                       *)
LEMMA StartedFollows ==
  ASSUME NEW s \in NodeRecord, Sane(s), NEW booting \in SUBSET s.pool
  PROVE  LET t == Started(s.pool, booting) IN
         /\ Sane(t) /\ t.cloning = {} /\ t.pool = s.pool /\ t.booting \subseteq s.pool
         /\ \A i \in Ids : t.machine[i] = "none" /\ t.requests[i] = {}
<1> DEFINE t == Started(s.pool, booting)
<1>1. s.pool \in SUBSET Ids /\ booting \in SUBSET Ids
  BY DEF NodeRecord
<1>2. /\ t.cloning = {} /\ t.pool = s.pool /\ t.booting = booting
      /\ \A i \in Ids : t.machine[i] = "none" /\ t.requests[i] = {}
  BY DEF Started
<1> HIDE DEF t
<1>3. Sane(t)
  BY <1>2 DEF Sane
<1> QED
  BY <1>2, <1>3 DEF t

(* All nodes go on in this way, but for what receive, create and Branch    *)
(* add.                                                                    *)
NodesStep ==
  /\ \A m \in Nodes : Sane(node'[m])
  /\ \A m \in Nodes : node'[m].cloning \subseteq node[m].cloning
  /\ \A m \in Nodes : node'[m].booting \subseteq node[m].booting \cup node[m].pool
  /\ \A m \in Nodes : \A i \in node'[m].pool :
       (\E k \in Nodes : i \in node[k].pool) \/ (creating[m].at = "wait" /\ creating[m].id = i)
  /\ CreateIsWaiting'
  /\ UNCHANGED origin

DeadStays ==
  \A n \in Nodes : \A i \in deleted : node[n].machine[i] = "none" => node'[n].machine[i] = "none"

(* The invariants of the nodes are kept.                                   *)
LEMMA NodesKept ==
  ASSUME Shape, Shape', IdsInv, NodesInv, NodesStep, MadeStep
  PROVE  NodesInv'
<1>0. made \in Nat /\ made' \in Nat /\ made =< made'
  BY IdsAssumption DEF Shape, MadeStep
<1>1. NodesAreSane'
  BY DEF NodesStep, NodesAreSane, Sane
<1>2. \A m \in Nodes : creating[m].at = "wait" => IsTop(creating[m].id) /\ creating[m].id \in Ids
  BY DEF IsTop, Shape, CreateRecord, NoCreate
<1>3. CloningIsNew'
  <2> SUFFICES ASSUME NEW n \in Nodes, NEW e \in node'[n].cloning
               PROVE  /\ origin'[e.id] = Nobody
                      /\ \A m \in Nodes : e.id \notin node'[m].pool
                      /\ \A m \in Nodes : \A f \in node'[m].cloning : f.id = e.id => m = n
    BY DEF CloningIsNew
  <2>1. e \in node[n].cloning
    BY DEF NodesStep
  <2>2. IsEntry(e)
    BY <2>1 DEF IsEntry, NodeEntry
  <2>3. \A m \in Nodes : creating[m].at = "wait" => creating[m].id # e.id
    BY <1>2, <2>2 DEF IdsInv, TopsAreMade
  <2>4. \A m \in Nodes : e.id \notin node'[m].pool
    BY <2>1, <2>3 DEF NodesInv, CloningIsNew, NodesStep
  <2> QED
    BY <2>1, <2>4 DEF NodesInv, CloningIsNew, NodesStep
<1>4. PoolsAreMade'
  <2>1. \A m \in Nodes : creating[m].at = "wait" => creating[m].id \in 1 .. made
    BY <1>2 DEF IdsInv, TopsAreMade, Ids
  <2>2. \A m \in Nodes : node'[m].pool \subseteq 1 .. made
    BY <2>1 DEF NodesInv, PoolsAreMade, NodesStep
  <2>3. \A m \in Nodes : node'[m].booting \subseteq 1 .. made
    BY DEF NodesInv, PoolsAreMade, NodesStep
  <2>4. 1 .. made \subseteq 1 .. made'
    BY <1>0
  <2> QED
    BY <2>2, <2>3, <2>4 DEF PoolsAreMade
<1> QED
  BY <1>1, <1>3, <1>4 DEF NodesInv, NodesStep

(* Most steps add nothing, and leave a Create that waits alone.            *)
LEMMA NodesFrom ==
  ASSUME Shape, NodesInv, \A m \in Nodes : Sane(node'[m]) /\ Later(node[m], node'[m]),
         \A m \in Nodes : creating[m].at = "wait" => creating'[m] = creating[m], UNCHANGED origin
  PROVE  NodesStep /\ DeadStays
<1>1. CreateIsWaiting'
  BY DEF NodesInv, CreateIsWaiting, Later
<1>2. DeadStays
  BY DEF DeadStays, Later, Shape
<1> QED
  BY <1>1, <1>2 DEF NodesStep, Later

(* Telling does nothing to machines or pools.                              *)
LEMMA TellKeeps ==
  ASSUME NEW table \in [Nodes -> NodeRecord], NEW c \in ChangeRecord, NEW n \in Nodes
  PROVE  LET t == Tell(table, c)[n] IN
         /\ t.machine = table[n].machine /\ t.requests = table[n].requests
         /\ t.cloning = table[n].cloning /\ t.pool = table[n].pool /\ t.booting = table[n].booting
<1>0. table[n] \in NodeRecord
  OBVIOUS
<1>1. Tell(table, c)[n] = table[n] \/ Tell(table, c)[n] = [table[n] EXCEPT !.inbox = Append(@, c)]
  BY TellIs
<1> QED
  BY <1>0, <1>1 DEF NodeRecord

(* Steps of one node.                                                      *)
LEMMA OneNodeFrom ==
  ASSUME Shape, NodesInv, NEW n \in Nodes, NEW s, node' = [node EXCEPT ![n] = s],
         Sane(s), Later(node[n], s),
         \A m \in Nodes : creating[m].at = "wait" => creating'[m] = creating[m], UNCHANGED origin
  PROVE  NodesStep /\ DeadStays
<1>1. \A m \in Nodes : Sane(node'[m]) /\ Later(node[m], node'[m])
  BY CacheFollows DEF Shape, NodesInv, NodesAreSane
<1> QED
  BY <1>1, NodesFrom

(* Steps that leave the nodes alone, or tell them of a change.             *)
LEMMA TellFrom ==
  ASSUME Shape, NodesInv, NEW c, node' = node \/ (c \in ChangeRecord /\ node' = Tell(node, c)),
         \A m \in Nodes : creating[m].at = "wait" => creating'[m] = creating[m], UNCHANGED origin
  PROVE  NodesStep /\ DeadStays
<1>1. \A m \in Nodes :
        /\ node'[m].machine = node[m].machine /\ node'[m].requests = node[m].requests
        /\ node'[m].cloning = node[m].cloning /\ node'[m].pool = node[m].pool
        /\ node'[m].booting = node[m].booting
  <2>1. CASE node' = node
    BY <2>1
  <2>2. CASE c \in ChangeRecord /\ node' = Tell(node, c)
    BY <2>2, TellKeeps DEF Shape
  <2> QED
    BY <2>1, <2>2
<1>2. \A m \in Nodes : Sane(node'[m]) /\ Later(node[m], node'[m])
  BY <1>1, CacheFollows DEF NodesInv, NodesAreSane
<1> QED
  BY <1>2, NodesFrom

(* What the machines do.                                                   *)
LEMMA MachineNodes ==
  ASSUME Shape, IdsInv, NodesInv, NEW n \in Nodes, NEW i \in Ids, Machine(n, i)
  PROVE  NodesStep /\ DeadStays
<1>0. node[n] \in NodeRecord /\ Sane(node[n])
  BY DEF Shape, NodesInv, NodesAreSane
<1>1. ASSUME NEW m \in MachineStates, m \in {"discovering", "missing"} \/ (m = "present" /\ i \in node[n].pool),
             node[n].machine[i] \notin {"cloning", "none"}, Steps(n, [node[n] EXCEPT !.machine[i] = m])
      PROVE  NodesStep /\ DeadStays
  <2> DEFINE s == [node[n] EXCEPT !.machine[i] = m]
  <2>1. /\ s.machine = [node[n].machine EXCEPT ![i] = m] /\ s.requests = node[n].requests
        /\ s.cloning = node[n].cloning /\ s.pool = node[n].pool /\ s.booting = node[n].booting
    BY <1>0 DEF NodeRecord
  <2>2. node' = [node EXCEPT ![n] = s] /\ UNCHANGED <<origin, creating>>
    BY <1>1 DEF Steps, ids, rpcs
  <2> HIDE DEF s
  <2>3. Sane(s) /\ Later(node[n], s)
    BY <1>0, <1>1, <2>1, MoveFollows
  <2> QED
    BY <2>2, <2>3, OneNodeFrom
<1>2. ASSUME Dies(n, i), node[n].machine[i] # "cloning"  PROVE NodesStep /\ DeadStays
  <2>1. node' = [node EXCEPT ![n] = deleteFilesystem(node[n], i)] /\ UNCHANGED <<origin, creating>>
    BY <1>2 DEF Dies, ids
  <2>2. Sane(deleteFilesystem(node[n], i)) /\ Later(node[n], deleteFilesystem(node[n], i))
    BY <1>0, <1>2, DeleteFollows
  <2> QED
    BY <2>1, <2>2, OneNodeFrom
<1>3. CASE discover(n, i)
  <2>0. node[n].machine[i] = "discovering"
    BY <1>3 DEF discover
  <2> QED
    BY <1>1, <1>2, <1>3, <2>0 DEF discover, MachineStates
<1>4. CASE handleDelete(n, i)
  BY <1>2, <1>4 DEF handleDelete
<1>5. CASE receive(n, i)
  <2>0. node[n].machine[i] = "missing"
    BY <1>5 DEF receive
  <2>1. CASE Steps(n, [node[n] EXCEPT !.machine[i] = "discovering"])
    BY <1>1, <2>0, <2>1 DEF MachineStates
  <2>2. CASE /\ i \in node[masters[i]].pool /\ masters[i] \in Nodes
             /\ origin[i] # Nobody => origin[i] \in node[n].pool
             /\ Steps(n, [node[n] EXCEPT !.machine[i] = "discovering", !.pool = @ \cup {i}])
    <3> DEFINE s == [node[n] EXCEPT !.machine[i] = "discovering", !.pool = @ \cup {i}]
    <3>1. /\ s.machine = [node[n].machine EXCEPT ![i] = "discovering"] /\ s.requests = node[n].requests
          /\ s.cloning = node[n].cloning /\ s.pool = node[n].pool \cup {i} /\ s.booting = node[n].booting
      BY <1>0 DEF NodeRecord
    <3>2. node'[n] = s /\ (\A m \in Nodes \ {n} : node'[m] = node[m]) /\ UNCHANGED <<origin, creating>>
      BY <2>2 DEF Steps, ids, rpcs, Shape
    <3> HIDE DEF s
    <3>3. \A j \in Ids : s.machine[j] = IF j = i THEN "discovering" ELSE node[n].machine[j]
      BY <1>0, <3>1 DEF NodeRecord
    <3>4. \A e \in node[n].cloning : e.origin \in Ids
      BY <1>0 DEF NodeRecord, Entry
    <3>5. Sane(s)
      BY <1>0, <2>0, <2>2, <3>1, <3>3, <3>4 DEF Sane
    <3>6. \A m \in Nodes : \A j \in node'[m].pool : \E k \in Nodes : j \in node[k].pool
      BY <2>2, <3>1, <3>2
    <3>7. CreateIsWaiting'
      BY <3>1, <3>2 DEF CreateIsWaiting, NodesInv
    <3>8. DeadStays
      BY <2>0, <3>2, <3>3 DEF DeadStays, Shape
    <3>9. \A m \in Nodes : node'[m].cloning = node[m].cloning /\ node'[m].booting = node[m].booting
      BY <3>1, <3>2
    <3>10. \A m \in Nodes : Sane(node'[m])
      BY <3>2, <3>5 DEF NodesInv, NodesAreSane
    <3> QED
      BY <3>2, <3>6, <3>7, <3>8, <3>9, <3>10 DEF NodesStep
  <2> QED
    BY <1>5, <2>1, <2>2 DEF receive
<1>6. CASE handleCreate(n, i)
  <2>0. node[n].machine[i] = "missing" /\ "create" \in node[n].requests[i]
    BY <1>6 DEF handleCreate
  <2>1. creating[n].at = "wait" /\ creating[n].id = i
    BY <2>0 DEF NodesInv, CreateIsWaiting
  <2>2. origin[i] = Nobody
    <3>1. IsTop(i) /\ i # Nobody
      BY <2>1 DEF IsTop, Ids, Nobody
    <3> QED
      BY <3>1 DEF IdsInv, TopsAreMade
  <2> DEFINE s == [node[n] EXCEPT !.requests[i] = @ \ {"create"}]
             t == [s EXCEPT !.machine[i] = "present", !.pool = @ \cup {i}]
             u == [s EXCEPT !.machine[i] = "discovering"]
  <2>3. /\ s \in NodeRecord /\ s.machine = node[n].machine
        /\ s.requests = [node[n].requests EXCEPT ![i] = @ \ {"create"}]
        /\ s.cloning = node[n].cloning /\ s.pool = node[n].pool /\ s.booting = node[n].booting
    BY <1>0 DEF NodeRecord
  <2>4. node' = [node EXCEPT ![n] = t] \/ node' = [node EXCEPT ![n] = u]
    BY <1>6 DEF handleCreate
  <2> HIDE DEF s
  <2>5. /\ t.machine = [s.machine EXCEPT ![i] = "present"] /\ t.requests = s.requests
        /\ t.cloning = s.cloning /\ t.pool = s.pool \cup {i} /\ t.booting = s.booting
    BY <2>3 DEF NodeRecord
  <2>6. /\ u.machine = [s.machine EXCEPT ![i] = "discovering"] /\ u.requests = s.requests
        /\ u.cloning = s.cloning /\ u.pool = s.pool /\ u.booting = s.booting
    BY <2>3 DEF NodeRecord
  <2> HIDE DEF t, u
  <2>7. PICK v \in {t, u} : node'[n] = v /\ \A m \in Nodes \ {n} : node'[m] = node[m]
    BY <2>4 DEF Shape
  <2>8. /\ \A j \in Ids : j # i => v.machine[j] = node[n].machine[j] /\ v.requests[j] = node[n].requests[j]
        /\ v.machine[i] = "discovering" \/ (v.machine[i] = "present" /\ i \in v.pool)
        /\ "create" \notin v.requests[i]
        /\ v.cloning = node[n].cloning /\ v.booting = node[n].booting
        /\ v.pool = node[n].pool \/ v.pool = node[n].pool \cup {i}
    BY <1>0, <2>3, <2>5, <2>6 DEF NodeRecord
  <2>9. \A e \in node[n].cloning : e.origin \in Ids
    BY <1>0 DEF NodeRecord, Entry
  <2>10. Sane(v)
    BY <1>0, <2>0, <2>2, <2>8, <2>9 DEF Sane
  <2>11. creating' = [creating EXCEPT ![n] = NoCreate] /\ UNCHANGED origin
    BY <1>6 DEF handleCreate, ids
  <2>12. CreateIsWaiting'
    <3>1. \A j \in Ids : "create" \notin v.requests[j]
      BY <2>1, <2>8 DEF NodesInv, CreateIsWaiting
    <3> QED
      BY <2>7, <2>11, <3>1 DEF NodesInv, CreateIsWaiting, Shape
  <2>13. DeadStays
    BY <2>0, <2>7, <2>8 DEF DeadStays, Shape
  <2>14. \A m \in Nodes : \A j \in node'[m].pool :
           (\E k \in Nodes : j \in node[k].pool) \/ (creating[m].at = "wait" /\ creating[m].id = j)
    BY <2>1, <2>7, <2>8
  <2>15. \A m \in Nodes : Sane(node'[m]) /\ node'[m].cloning = node[m].cloning
                          /\ node'[m].booting = node[m].booting
    BY <2>7, <2>8, <2>10 DEF NodesInv, NodesAreSane
  <2> QED
    BY <2>11, <2>12, <2>13, <2>14, <2>15 DEF NodesStep
<1> QED
  BY <1>3, <1>4, <1>5, <1>6 DEF Machine

(* What Create does.                                                       *)
LEMMA CreateNodes ==
  ASSUME Shape, NodesInv, NEW n \in Nodes, Create(n) \/ CreateSteps(n) \/ abandonCreate(n)
  PROVE  NodesStep /\ DeadStays
<1>0. /\ node[n] \in NodeRecord /\ Sane(node[n])
      /\ creating[n].at # "none" => creating[n].id \in Ids
  BY DEF Shape, NodesInv, NodesAreSane, CreateRecord, NoCreate
<1>1. CASE Create(n)
  <2>1. node' = node /\ UNCHANGED origin /\ creating[n].at # "wait"
        /\ \A m \in Nodes \ {n} : creating'[m] = creating[m]
    BY <1>1 DEF Create, Shape
  <2> QED
    BY <2>1, TellFrom
<1>2. CASE RegisterFilesystem(n)
  <2>1. creating[n].at # "wait" /\ UNCHANGED origin /\ \A m \in Nodes \ {n} : creating'[m] = creating[m]
    BY <1>2, NextCreateIs DEF RegisterFilesystem, ids
  <2>2. CASE names = Nobody
    <3> DEFINE c == Change("name", creating[n].id, NoEntry)
               t == Tell(node, c)
    <3>1. c \in ChangeRecord /\ node \in [Nodes -> NodeRecord]
      BY <1>0, <1>2, ChangesAre DEF RegisterFilesystem, Shape
    <3>2. t \in [Nodes -> NodeRecord]
      BY <3>1, TellIs
    <3>3. node' = [t EXCEPT ![n].name = creating[n].id]
      BY <1>2, <2>2 DEF RegisterFilesystem
    <3>4. \A m \in Nodes : /\ t[m].machine = node[m].machine /\ t[m].requests = node[m].requests
                           /\ t[m].cloning = node[m].cloning /\ t[m].pool = node[m].pool
                           /\ t[m].booting = node[m].booting
      BY <3>1, TellKeeps
    <3> HIDE DEF t, c
    <3>5. \A m \in Nodes : /\ node'[m].machine = t[m].machine /\ node'[m].requests = t[m].requests
                           /\ node'[m].cloning = t[m].cloning /\ node'[m].pool = t[m].pool
                           /\ node'[m].booting = t[m].booting
      BY <3>2, <3>3 DEF NodeRecord
    <3>6. \A m \in Nodes : Sane(node'[m]) /\ Later(node[m], node'[m])
      BY <3>4, <3>5, CacheFollows DEF NodesInv, NodesAreSane
    <3> QED
      BY <2>1, <3>6, NodesFrom
  <2>3. CASE names # Nobody
    <3>1. node' = node
      BY <1>2, <2>3 DEF RegisterFilesystem
    <3> QED
      BY <2>1, <3>1, TellFrom
  <2> QED
    BY <2>2, <2>3
<1>3. CASE checkMaster(n) \/ abandonCreate(n)
  <2>1. creating[n].at # "wait" /\ UNCHANGED <<origin, node>> /\ \A m \in Nodes \ {n} : creating'[m] = creating[m]
    BY <1>3, NextCreateIs DEF checkMaster, abandonCreate, ids
  <2> QED
    BY <2>1, TellFrom
<1>4. CASE claimMaster(n)
  <2>1. creating[n].at # "wait" /\ UNCHANGED origin /\ \A m \in Nodes \ {n} : creating'[m] = creating[m]
    BY <1>4, NextCreateIs DEF claimMaster, ids
  <2> DEFINE c == Change("master", creating[n].id, NoEntry)
  <2>2. c \in ChangeRecord /\ (node' = node \/ node' = Tell(node, c))
    BY <1>0, <1>4, ChangesAre DEF claimMaster
  <2> HIDE DEF c
  <2> QED
    BY <2>1, <2>2, TellFrom
<1>5. CASE dispatchCreate(n)
  <2> DEFINE i == creating[n].id
  <2>0. PICK s \in initFilesystemMachine(node[n], i) :
          \/ node' = [node EXCEPT ![n] = s]
          \/ /\ s.machine[i] # "none" /\ creating'[n].at = "wait" /\ creating'[n].id = i
             /\ node' = [node EXCEPT ![n] = [s EXCEPT !.requests[i] = @ \cup {"create"}]]
    BY <1>5, DispatchCreateIs
  <2> DEFINE t == [s EXCEPT !.requests[i] = @ \cup {"create"}]
  <2>1. i \in Ids /\ s \in NodeRecord /\ Sane(s) /\ Later(node[n], s)
    <3>1. i \in Ids
      BY <1>5, DispatchCreateIs
    <3> QED
      BY <1>0, <3>1, InitIs, InitFollows
  <2>2. creating[n].at = "init" /\ UNCHANGED origin /\ \A m \in Nodes \ {n} : creating'[m] = creating[m]
    BY <1>5, DispatchCreateIs DEF dispatchCreate, ids
  <2>3. CASE node' = [node EXCEPT ![n] = s]
    BY <2>1, <2>2, <2>3, OneNodeFrom
  <2>4. CASE /\ s.machine[i] # "none" /\ creating'[n].at = "wait" /\ creating'[n].id = i
             /\ node' = [node EXCEPT ![n] = t]
    <3>1. /\ t.requests = [s.requests EXCEPT ![i] = @ \cup {"create"}] /\ t.machine = s.machine
          /\ t.cloning = s.cloning /\ t.pool = s.pool /\ t.booting = s.booting
      BY <2>1 DEF NodeRecord
    <3>2. node'[n] = t /\ \A m \in Nodes \ {n} : node'[m] = node[m]
      BY <2>4 DEF Shape
    <3>3. creating'[n].at = "wait" /\ creating'[n].id = i
      BY <2>4
    <3> HIDE DEF t, i
    <3>4. Sane(t)
      BY <2>1, <2>4, <3>1, RequestFollows
    <3>5. \A j \in Ids : j # i => "create" \notin t.requests[j]
      <4>1. \A j \in Ids : "create" \notin node[n].requests[j]
        BY <2>2 DEF NodesInv, CreateIsWaiting
      <4>2. \A j \in Ids : j # i => t.requests[j] = s.requests[j]
        BY <2>1, <3>1 DEF NodeRecord
      <4> QED
        BY <2>1, <4>1, <4>2 DEF Later
    <3>6. CreateIsWaiting'
      BY <2>2, <3>2, <3>3, <3>5 DEF NodesInv, CreateIsWaiting
    <3>7. DeadStays
      BY <2>1, <3>1, <3>2 DEF DeadStays, Later, Shape
    <3>8. \A m \in Nodes : /\ Sane(node'[m]) /\ node'[m].cloning \subseteq node[m].cloning
                           /\ node'[m].booting \subseteq node[m].booting
                           /\ node'[m].pool \subseteq node[m].pool
      BY <2>1, <3>1, <3>2, <3>4 DEF Later, NodesInv, NodesAreSane
    <3> QED
      BY <2>2, <3>6, <3>7, <3>8 DEF NodesStep
  <2> QED
    BY <2>0, <2>3, <2>4
<1> QED
  BY <1>1, <1>2, <1>3, <1>4, <1>5 DEF CreateSteps

(* What Branch does: the clone that is being made is new to every pool.    *)
LEMMA BranchNodes ==
  ASSUME Shape, Shape', IdsInv, NodesInv, NEW m \in Nodes, NEW n \in Nodes, NEW i \in Ids,
         NEW b \in Branches, Branch(m, n, i, b)
  PROVE  NodesInv' /\ DeadStays
<1> DEFINE e == BranchEntry(m, i, b)
           s == [node[n] EXCEPT !.clones = Overwrite(@, e), !.cloning = {e},
                                !.machine[i] = "cloning"]
           table == [node EXCEPT ![n] = s]
<1>0. node[n] \in NodeRecord /\ Sane(node[n]) /\ made \in Nat
  BY DEF Shape, NodesInv, NodesAreSane
<1>1. /\ e \in Entry /\ table \in [Nodes -> NodeRecord]
      /\ Change("clone", e.id, e) \in ChangeRecord
      /\ node' = table \/ node' = Tell(table, Change("clone", e.id, e))
  <2>1. e \in Entry /\ Change("clone", e.id, e) \in ChangeRecord
    BY BranchIs
  <2>2. table \in [Nodes -> NodeRecord]
    BY BranchIs
  <2>3. node' = table \/ node' = Tell(table, Change("clone", e.id, e))
    BY DEF Branch
  <2> QED
    BY <2>1, <2>2, <2>3
<1>2. e.id = made + 1 /\ e.origin = i /\ made' = made + 1
  BY Zenon DEF Branch, BranchEntry
<1>3. /\ UNCHANGED <<origin, creating>>
      /\ node[n].machine[i] = "present" /\ node[n].cloning = {}
  BY DEF Branch, rpcs
<1>4. /\ s.machine = [node[n].machine EXCEPT ![i] = "cloning"] /\ s.requests = node[n].requests
      /\ s.cloning = {e} /\ s.pool = node[n].pool /\ s.booting = node[n].booting
  BY <1>0 DEF NodeRecord
<1>5. table[n] = s /\ \A k \in Nodes \ {n} : table[k] = node[k]
  BY DEF Shape
<1> DEFINE c == Change("clone", e.id, e)
<1>6. c \in ChangeRecord /\ (node' = table \/ node' = Tell(table, c))
  BY <1>1
<1> HIDE DEF e, s, c, table
<1>7. \A k \in Nodes :
        /\ node'[k].machine = table[k].machine /\ node'[k].requests = table[k].requests
        /\ node'[k].cloning = table[k].cloning /\ node'[k].pool = table[k].pool
        /\ node'[k].booting = table[k].booting
  BY <1>1, <1>6, TellKeeps
<1>8. \A j \in Ids : node'[n].machine[j] = IF j = i THEN "cloning" ELSE node[n].machine[j]
  BY <1>0, <1>4, <1>5, <1>7 DEF NodeRecord
<1>9. /\ node'[n].requests = node[n].requests /\ node'[n].cloning = {e}
      /\ node'[n].pool = node[n].pool /\ node'[n].booting = node[n].booting
      /\ \A k \in Nodes \ {n} :
           /\ node'[k].machine = node[k].machine /\ node'[k].requests = node[k].requests
           /\ node'[k].cloning = node[k].cloning /\ node'[k].pool = node[k].pool
           /\ node'[k].booting = node[k].booting
  BY <1>4, <1>5, <1>7
<1>10. NodesAreSane'
  <2>1. Sane(node[n])'
    BY <1>0, <1>2, <1>3, <1>8, <1>9 DEF Sane
  <2>2. \A k \in Nodes \ {n} : Sane(node[k])'
    BY <1>3, <1>9 DEF Sane, NodesInv, NodesAreSane
  <2> QED
    BY <2>1, <2>2 DEF NodesAreSane
<1>11. CloningIsNew'
  <2>1. \A k \in Nodes : \A f \in node[k].cloning : f.id # e.id
    <3>1. \A k \in Nodes : \A f \in node[k].cloning : IsEntry(f)
      BY DEF IsEntry, NodeEntry
    <3> QED
      BY <1>0, <1>2, <3>1 DEF IdsInv, EntriesAreMade, Entry, Ids
  <2>2. origin[e.id] = Nobody
    BY <1>0, <1>1, <1>2 DEF IdsInv, FreshOrigin, Entry, Ids
  <2>3. \A k \in Nodes : e.id \notin node[k].pool
    BY <1>0, <1>2 DEF NodesInv, PoolsAreMade
  <2> QED
    BY <1>3, <1>9, <2>1, <2>2, <2>3 DEF CloningIsNew, NodesInv
<1>12. CreateIsWaiting'
  BY <1>3, <1>9 DEF CreateIsWaiting, NodesInv
<1>13. PoolsAreMade'
  <2>1. 1 .. made \subseteq 1 .. made'
    BY <1>0, <1>2
  <2> QED
    BY <1>9, <2>1 DEF PoolsAreMade, NodesInv
<1>14. DeadStays
  BY <1>3, <1>8, <1>9 DEF DeadStays, Shape
<1> QED
  BY <1>10, <1>11, <1>12, <1>13, <1>14 DEF NodesInv

(* What zfs clone does: the clone has its origin, in one pool.             *)
LEMMA CloneNodes ==
  ASSUME Shape, IdsInv, NodesInv, NEW n \in Nodes, clone(n)
  PROVE  NodesInv' /\ DeadStays
<1>0. node[n] \in NodeRecord /\ Sane(node[n])
  BY DEF Shape, NodesInv, NodesAreSane
<1>a. PICK e \in node[n].cloning, t \in NodeRecord : Cloned(n, e, t)
  BY CloneIs
<1>1. /\ e \in Entry /\ origin' = [origin EXCEPT ![e.id] = e.origin]
      /\ t.cloning = {} /\ t.booting = node[n].booting
      /\ t.requests = node[n].requests /\ t.pool = node[n].pool \cup {e.id}
      /\ \A j \in Ids : \/ t.machine[j] = node[n].machine[j]
                        \/ /\ node[n].machine[j] = "none" /\ j \notin deleted
                           /\ t.machine[j] = "discovering"
                        \/ j = e.origin /\ t.machine[j] = "present"
      /\ [node EXCEPT ![n] = t] \in [Nodes -> NodeRecord]
      /\ Change("master", e.id, NoEntry) \in ChangeRecord
      /\ \/ node' = [node EXCEPT ![n] = t]
         \/ node' = Tell([node EXCEPT ![n] = t], Change("master", e.id, NoEntry))
  BY <1>a DEF Cloned
<1> DEFINE table == [node EXCEPT ![n] = t]
           c == Change("master", e.id, NoEntry)
<1>2. table \in [Nodes -> NodeRecord] /\ c \in ChangeRecord /\ (node' = table \/ node' = Tell(table, c))
  BY <1>1
<1>4. UNCHANGED <<made, creating>>
  BY DEF clone, rpcs
<1>5. table[n] = t /\ \A k \in Nodes \ {n} : table[k] = node[k]
  BY DEF Shape
<1> HIDE DEF c
<1>6. e.id \in Ids /\ e.origin \in Ids /\ e.id # e.origin /\ e.id \in 1 .. made
  <2>1. IsEntry(e)
    BY DEF IsEntry, NodeEntry
  <2> QED
    BY <2>1 DEF IdsInv, EntriesAreMade, Entry, Ids
<1>7. /\ origin[e.id] = Nobody /\ \A k \in Nodes : e.id \notin node[k].pool
      /\ \A k \in Nodes : \A f \in node[k].cloning : f.id = e.id => k = n
  BY DEF NodesInv, CloningIsNew
<1>8. node[n].machine[e.origin] = "cloning" /\ e.origin \in node[n].pool
  BY <1>0, <1>6 DEF Sane
<1>10. Sane(t)
  BY <1>0, <1>1, <1>7, <1>8 DEF Sane
<1> HIDE DEF table
<1>13. \A k \in Nodes :
        /\ node'[k].machine = table[k].machine /\ node'[k].requests = table[k].requests
        /\ node'[k].cloning = table[k].cloning /\ node'[k].pool = table[k].pool
        /\ node'[k].booting = table[k].booting
  BY <1>2, TellKeeps
<1>14. \A j \in Ids : origin'[j] = IF j = e.id THEN e.origin ELSE origin[j]
  BY <1>1, <1>6 DEF Shape
<1>15. t.pool \subseteq Ids /\ \A k \in Nodes : node[k].pool \subseteq Ids
  BY DEF Shape, NodeRecord
<1>16. NodesAreSane'
  <2>1. Sane(node[n])'
    <3>1. \A j \in t.pool : origin'[j] # Nobody => origin'[j] \in t.pool
      BY <1>1, <1>6, <1>8, <1>10, <1>14, <1>15 DEF Sane
    <3> QED
      BY <1>5, <1>10, <1>13, <3>1 DEF Sane
  <2>2. ASSUME NEW k \in Nodes, k # n  PROVE Sane(node[k])'
    <3>1. \A j \in node[k].pool : origin'[j] = origin[j]
      BY <1>7, <1>14, <1>15
    <3>2. Sane(node[k])
      BY DEF NodesInv, NodesAreSane
    <3> QED
      BY <1>5, <1>13, <2>2, <3>1, <3>2 DEF Sane
  <2> QED
    BY <2>1, <2>2 DEF NodesAreSane
<1>18. CloningIsNew'
  <2> SUFFICES ASSUME NEW k \in Nodes, NEW f \in node'[k].cloning
               PROVE  /\ origin'[f.id] = Nobody
                      /\ \A l \in Nodes : f.id \notin node'[l].pool
                      /\ \A l \in Nodes : \A g \in node'[l].cloning : g.id = f.id => l = k
    BY DEF CloningIsNew
  <2>1. k # n /\ f \in node[k].cloning
    BY <1>1, <1>5, <1>13
  <2>2. f.id # e.id /\ f.id \in Ids
    BY <1>7, <2>1 DEF Shape, NodeRecord, Entry
  <2>3. /\ origin[f.id] = Nobody /\ \A l \in Nodes : f.id \notin node[l].pool
        /\ \A l \in Nodes : \A g \in node[l].cloning : g.id = f.id => l = k
    BY <2>1 DEF NodesInv, CloningIsNew
  <2> QED
    BY <1>1, <1>5, <1>13, <1>14, <2>2, <2>3
<1>19. CreateIsWaiting'
  BY <1>1, <1>4, <1>5, <1>13 DEF CreateIsWaiting, NodesInv
<1>20. PoolsAreMade'
  BY <1>1, <1>4, <1>5, <1>6, <1>13 DEF PoolsAreMade, NodesInv
<1>21. DeadStays
  BY <1>1, <1>5, <1>8, <1>13 DEF DeadStays, Shape
<1> QED
  BY <1>16, <1>18, <1>19, <1>20, <1>21 DEF NodesInv

(* zfs clone fails: there is nothing to undo.                              *)
LEMMA CloneFailsNodes ==
  ASSUME Shape, NodesInv, NEW n \in Nodes, cloneFails(n)
  PROVE  NodesStep /\ DeadStays
<1>0. node[n] \in NodeRecord /\ Sane(node[n])
  BY DEF Shape, NodesInv, NodesAreSane
<1>1. PICK e \in node[n].cloning :
        Steps(n, [node[n] EXCEPT !.cloning = {}, !.machine[e.origin] = "discovering"])
  BY DEF cloneFails
<1>2. e.origin \in Ids /\ node[n].machine[e.origin] = "cloning"
  BY <1>0 DEF NodeRecord, Entry, Sane
<1> DEFINE s == [node[n] EXCEPT !.cloning = {}, !.machine[e.origin] = "discovering"]
<1>3. /\ s.machine = [node[n].machine EXCEPT ![e.origin] = "discovering"]
      /\ s.requests = node[n].requests /\ s.cloning = {} /\ s.pool = node[n].pool
      /\ s.booting = node[n].booting
  BY <1>0 DEF NodeRecord
<1>4. node' = [node EXCEPT ![n] = s] /\ UNCHANGED <<origin, creating>>
  BY <1>1 DEF Steps, ids, rpcs
<1> HIDE DEF s
<1>5. \A j \in Ids : s.machine[j] = IF j = e.origin THEN "discovering" ELSE node[n].machine[j]
  BY <1>0, <1>3 DEF NodeRecord
<1>6. Sane(s) /\ Later(node[n], s)
  BY <1>0, <1>2, <1>3, <1>5 DEF Sane, Later
<1> QED
  BY <1>4, <1>6, OneNodeFrom

(* Delete and cleanup only tell the nodes.                                 *)
LEMMA DeleteNodes ==
  ASSUME Shape, NodesInv, NEW n \in Nodes, Delete(n) \/ DeleteSteps(n) \/ Cleanup(n)
  PROVE  NodesStep /\ DeadStays
<1>1. CASE Delete(n) \/ markPending(n)
  BY <1>1, TellFrom DEF Delete, markPending, ids
<1>2. CASE markDeleted(n)
  <2>1. deleting[n] \in [at : {"mark", "unregister"}, root : Ids, list : SUBSET Entry,
                         todo : SUBSET Ids, id : {Nobody}]
    BY <1>2 DEF markDeleted, DeleteRecord, NoDelete, Shape
  <2>2. PICK i \in deletableNext(deleting[n]) :
          node' = node \/ node' = Tell(node, Change("deleted", i, NoEntry))
    BY <1>2 DEF markDeleted
  <2>3. i \in Ids
    BY <2>1 DEF deletableNext
  <2>4. UNCHANGED <<origin, creating>>
    BY <1>2 DEF markDeleted, ids
  <2> QED
    BY <2>2, <2>3, <2>4, ChangesAre, TellFrom
<1>3. CASE UnregisterFilesystem(n)
  BY <1>3, ChangesAre, TellFrom DEF UnregisterFilesystem, ids
<1>4. CASE listFilesystemsPendingCleanup(n) \/ cleanMasters(n) \/ cleanPending(n)
  BY <1>4, TellFrom DEF listFilesystemsPendingCleanup, cleanMasters, cleanPending, ids
<1>5. CASE cleanRegistry(n)
  <2> DEFINE a == cleaning[n].audit
             c == Change("name", Nobody, NoEntry)
             d == Change("cloneGone", a.id, [NoEntry EXCEPT !.top = a.top])
  <2>1. UNCHANGED <<origin, creating>>
        /\ (node' = node \/ node' = Tell(node, c) \/ (a.top # Nobody /\ node' = Tell(node, d)))
    BY <1>5 DEF cleanRegistry, ids
  <2>2. c \in ChangeRecord
    BY ChangesAre
  <2>3. a.top # Nobody => d \in ChangeRecord
    <3>1. a \in Audit
      BY <1>5 DEF cleanRegistry, Shape, CleanRecord, NoClean
    <3>2. a.id \in Ids /\ (a.top # Nobody => a.top \in Ids)
      BY <3>1 DEF Audit
    <3> QED
      BY <3>2, ChangesAre
  <2> HIDE DEF c, d, a
  <2>4. CASE node' = node \/ node' = Tell(node, c)
    BY <2>1, <2>2, <2>4, TellFrom
  <2>5. CASE a.top # Nobody /\ node' = Tell(node, d)
    BY <2>1, <2>3, <2>5, TellFrom
  <2> QED
    BY <2>1, <2>4, <2>5
<1> QED
  BY <1>1, <1>2, <1>3, <1>4, <1>5 DEF DeleteSteps, Cleanup

(* What the watcher and the start and the restart of a server do.          *)
LEMMA ServerNodes ==
  ASSUME Shape, NodesInv, NEW n \in Nodes,
         watch(n) \/ fetch(n) \/ crash(n) \/ \E i \in Ids : boot(n, i)
  PROVE  NodesStep /\ DeadStays
<1>0. node[n] \in NodeRecord /\ Sane(node[n])
  BY DEF Shape, NodesInv, NodesAreSane
<1>a. ASSUME NEW s, Steps(n, s), Sane(s), Later(node[n], s)
      PROVE  NodesStep /\ DeadStays
  BY <1>a, OneNodeFrom DEF Steps, ids, rpcs
<1>1. CASE watch(n)
  <2>1. node[n].inbox \in Seq(ChangeRecord) /\ node[n].inbox # << >>
    BY <1>0, <1>1 DEF NodeRecord, watch
  <2> DEFINE c == Head(node[n].inbox)
             s == [node[n] EXCEPT !.inbox = Tail(node[n].inbox)]
  <2>2. c \in ChangeRecord /\ Tail(node[n].inbox) \in Seq(ChangeRecord)
    BY <2>1
  <2>3. /\ s \in NodeRecord /\ s.machine = node[n].machine /\ s.requests = node[n].requests
        /\ s.cloning = node[n].cloning /\ s.pool = node[n].pool /\ s.booting = node[n].booting
    BY <1>0, <2>2 DEF NodeRecord
  <2>4. PICK t \in Seen(s, c) : Steps(n, t)
    BY <1>1 DEF watch
  <2> HIDE DEF s, c
  <2>5. Sane(s) /\ Later(node[n], s)
    BY <1>0, <2>3, CacheFollows
  <2>6. Sane(t) /\ Later(s, t)
    BY <2>2, <2>3, <2>5, SeenFollows
  <2>7. Later(node[n], t)
    BY <2>5, <2>6, LaterTrans
  <2> QED
    BY <1>a, <2>4, <2>6, <2>7
<1>2. CASE fetch(n)
  <2>2. MasterIds \subseteq Ids /\ Failing(n) \subseteq Ids
    BY DEF MasterIds, Failing
  <2>3. ASSUME Failing(n) = {}, Steps(n, Fetched(n, MasterIds))
        PROVE  NodesStep /\ DeadStays
    <3> DEFINE s == After(n, MasterIds)
               t == Fetched(n, MasterIds)
    <3>1. Sane(s) /\ Later(node[n], s)
      BY <1>0, <2>3, AfterFollows
    <3>2. /\ t.cloning = s.cloning /\ t.booting = s.booting /\ t.requests = s.requests
          /\ t.pool = s.pool /\ t.machine = s.machine
      BY <2>2, FetchedIs
    <3> HIDE DEF s
    <3>3. Sane(t) /\ Later(s, t)
      BY <3>1, <3>2, CacheFollows
    <3>4. Later(node[n], t)
      BY <3>1, <3>3, LaterTrans
    <3> QED
      BY <1>a, <2>3, <3>3, <3>4
  <2>4. ASSUME NEW done \in SUBSET (MasterIds \ Failing(n)),
               \/ Steps(n, After(n, done))
               \/ Steps(n, [After(n, done) EXCEPT !.lock = "stuck"])
        PROVE  NodesStep /\ DeadStays
    <3> DEFINE s == After(n, done)
               t == [s EXCEPT !.lock = "stuck"]
    <3>1. Sane(s) /\ Later(node[n], s)
      BY <1>0, AfterFollows
    <3>2. s \in NodeRecord
      BY <2>2, AfterIs
    <3>3. Steps(n, s) \/ Steps(n, t)
      BY <2>4
    <3> HIDE DEF s
    <3>4. Sane(t) /\ Later(s, t)
      <4>1. t.machine = s.machine /\ t.requests = s.requests /\ t.cloning = s.cloning
            /\ t.pool = s.pool /\ t.booting = s.booting
        BY <3>2, LockIs DEF Locks
      <4> HIDE DEF t
      <4> QED
        BY <3>1, <4>1, CacheFollows
    <3>5. Later(node[n], t)
      BY <3>1, <3>4, LaterTrans
    <3> QED
      BY <1>a, <3>1, <3>3, <3>4, <3>5
  <2> QED
    BY <1>2, <2>3, <2>4, FetchIs
<1>3. CASE crash(n)
  <2>1. PICK started \in SUBSET node[n].pool : node' = [node EXCEPT ![n] = Started(@.pool, started)]
    BY <1>3 DEF crash
  <2> DEFINE s == Started(node[n].pool, started)
  <2>2. /\ Sane(s) /\ s.cloning = {} /\ s.pool = node[n].pool /\ s.booting \subseteq node[n].pool
        /\ \A i \in Ids : s.machine[i] = "none" /\ s.requests[i] = {}
    BY <1>0, StartedFollows
  <2>3. node'[n] = s /\ \A m \in Nodes \ {n} : node'[m] = node[m]
    BY <2>1 DEF Shape
  <2> HIDE DEF s
  <2>4. UNCHANGED origin /\ \A m \in Nodes \ {n} : creating'[m] = creating[m]
    BY <1>3 DEF crash, ids, Shape
  <2>5. CreateIsWaiting'
    BY <2>2, <2>3, <2>4 DEF CreateIsWaiting, NodesInv
  <2>6. DeadStays
    BY <2>2, <2>3 DEF DeadStays, Shape
  <2>7. \A m \in Nodes : /\ Sane(node'[m]) /\ node'[m].cloning \subseteq node[m].cloning
                         /\ node'[m].booting \subseteq node[m].booting \cup node[m].pool
                         /\ node'[m].pool \subseteq node[m].pool
    BY <2>2, <2>3 DEF NodesInv, NodesAreSane
  <2> QED
    BY <2>4, <2>5, <2>6, <2>7 DEF NodesStep
<1>4. ASSUME NEW i \in Ids, boot(n, i)  PROVE NodesStep /\ DeadStays
  <2> DEFINE s == [node[n] EXCEPT !.booting = @ \ {i}]
  <2>1. /\ s \in NodeRecord /\ s.machine = node[n].machine /\ s.requests = node[n].requests
        /\ s.cloning = node[n].cloning /\ s.pool = node[n].pool /\ s.booting = node[n].booting \ {i}
    BY <1>0 DEF NodeRecord
  <2>2. PICK t \in initFilesystemMachine(s, i) : Steps(n, t)
    BY <1>4 DEF boot
  <2> HIDE DEF s
  <2>3. Sane(s) /\ Later(node[n], s)
    BY <1>0, <2>1 DEF Sane, Later
  <2>4. Sane(t) /\ Later(s, t)
    BY <2>1, <2>3, InitFollows
  <2>5. Later(node[n], t)
    BY <2>3, <2>4, LaterTrans
  <2> QED
    BY <1>a, <2>2, <2>4, <2>5
<1> QED
  BY <1>1, <1>2, <1>3, <1>4

(* Every action keeps the nodes sane, and no machine of a deleted          *)
(* filesystem comes back.                                                  *)
LEMMA NodesNext ==
  ASSUME Shape, Shape', IdsInv, NodesInv, MadeStep, [Next]_vars
  PROVE  NodesInv' /\ DeadStays
<1>1. CASE UNCHANGED vars
  <2>1. UNCHANGED <<node, origin, creating>>
    BY <1>1 DEF vars, ids, rpcs
  <2>2. NodesStep /\ DeadStays
    BY <2>1, TellFrom
  <2> QED
    BY <2>2, NodesKept
<1>2. CASE Next
  <2>1. PICK n \in Nodes :
          \/ Users(n) \/ CreateSteps(n) \/ abandonCreate(n) \/ clone(n) \/ cloneFails(n)
          \/ DeleteSteps(n) \/ Cleanup(n) \/ watch(n) \/ fetch(n) \/ crash(n)
          \/ \E i \in Ids : Machine(n, i) \/ boot(n, i)
    BY <1>2 DEF Next
  <2>2. CASE \E m \in Nodes, i \in Ids, b \in Branches : Branch(m, n, i, b)
    BY <2>2, BranchNodes
  <2>3. CASE clone(n)
    BY <2>3, CloneNodes
  <2>4. CASE ~(clone(n) \/ \E m \in Nodes, i \in Ids, b \in Branches : Branch(m, n, i, b))
    <3>1. NodesStep /\ DeadStays
      BY <2>1, <2>4, MachineNodes, CreateNodes, CloneFailsNodes, DeleteNodes, ServerNodes DEF Users
    <3> QED
      BY <3>1, NodesKept
  <2> QED
    BY <2>2, <2>3, <2>4
<1> QED
  BY <1>1, <1>2

-----------------------------------------------------------------------------
(* Names, masters and deletions.                                           *)

(* Who changes the keys in etcd, and the state of the calls.               *)
Footprint ==
  /\ names' = names \/ \E n \in Nodes : RegisterFilesystem(n) \/ UnregisterFilesystem(n) \/ cleanRegistry(n)
  /\ deleted' = deleted \/ \E n \in Nodes : markDeleted(n)
  /\ \/ clones' = clones \/ \E n \in Nodes : cleanRegistry(n)
     \/ \E m, n \in Nodes, i \in Ids, b \in Branches : Branch(m, n, i, b)
  /\ pending' = pending \/ \E n \in Nodes : markPending(n) \/ cleanPending(n)
  /\ masters' = masters \/ \E n \in Nodes : claimMaster(n) \/ clone(n) \/ cleanMasters(n)
  /\ \A n \in Nodes :
       \/ creating'[n] \in {creating[n], NoCreate}
       \/ Create(n) \/ RegisterFilesystem(n) \/ checkMaster(n) \/ claimMaster(n) \/ dispatchCreate(n)
  /\ \A n \in Nodes :
       \/ deleting'[n] \in {deleting[n], NoDelete}
       \/ Delete(n) \/ markDeleted(n) \/ markPending(n)
       \/ \E i \in Ids : node[n].machine[i] # "none" /\ Dies(n, i)
  /\ \A n \in Nodes :
       \/ cleaning'[n] \in {cleaning[n], NoClean}
       \/ listFilesystemsPendingCleanup(n) \/ cleanMasters(n) \/ cleanRegistry(n)

(* Nobody else does.                                                       *)
LEMMA FootprintNext ==
  ASSUME Shape, [Next]_vars
  PROVE  Footprint
<1> DEFINE same == <<names, deleted, clones, pending, masters>>
<1>1. CASE UNCHANGED vars
  BY <1>1 DEF Footprint, vars, etcd, rpcs
<1>2. ASSUME NEW n \in Nodes, NEW i \in Ids, Machine(n, i)  PROVE Footprint
  <2>1. CASE Dies(n, i) /\ node[n].machine[i] # "none"
    <3>1. UNCHANGED same /\ UNCHANGED <<creating, cleaning>>
          /\ \A m \in Nodes \ {n} : deleting'[m] = deleting[m]
      BY <2>1 DEF Dies, etcd, Shape
    <3> QED
      BY <2>1, <3>1 DEF Footprint
  <2>2. CASE \E s : Steps(n, s)
    BY <2>2 DEF Steps, Footprint, etcd, rpcs
  <2>3. CASE handleCreate(n, i)
    <3>1. UNCHANGED same /\ UNCHANGED <<deleting, cleaning>>
          /\ \A m \in Nodes : creating'[m] \in {creating[m], NoCreate}
      BY <2>3 DEF handleCreate, etcd, Shape
    <3> QED
      BY <3>1 DEF Footprint
  <2> QED
    BY <1>2, <2>1, <2>2, <2>3 DEF Machine, discover, receive, handleDelete
<1>3. ASSUME NEW n \in Nodes, Create(n) \/ CreateSteps(n) \/ abandonCreate(n)  PROVE Footprint
  <2>1. UNCHANGED <<deleted, clones, pending, deleting, cleaning>>
    BY <1>3 DEF Create, CreateSteps, RegisterFilesystem, checkMaster, claimMaster, dispatchCreate,
                abandonCreate, etcd
  <2>2. names' = names \/ RegisterFilesystem(n)
    BY <1>3 DEF Create, CreateSteps, checkMaster, claimMaster, dispatchCreate, abandonCreate, etcd
  <2>3. masters' = masters \/ claimMaster(n)
    BY <1>3 DEF Create, CreateSteps, RegisterFilesystem, checkMaster, dispatchCreate, abandonCreate, etcd
  <2>4. \A m \in Nodes \ {n} : creating'[m] = creating[m]
    BY <1>3 DEF Create, CreateSteps, RegisterFilesystem, checkMaster, claimMaster, dispatchCreate,
                abandonCreate, NextCreate, Shape
  <2>5. abandonCreate(n) => creating'[n] = NoCreate
    BY DEF abandonCreate, NextCreate, Shape
  <2> QED
    BY <1>3, <2>1, <2>2, <2>3, <2>4, <2>5 DEF Footprint, CreateSteps
<1>4. ASSUME NEW n \in Nodes, NEW m \in Nodes, NEW i \in Ids, NEW b \in Branches, Branch(m, n, i, b)
      PROVE  Footprint
  <2>1. UNCHANGED <<names, masters, deleted, pending, creating, deleting, cleaning>>
    BY <1>4 DEF Branch, rpcs
  <2> QED
    BY <1>4, <2>1 DEF Footprint
<1>5. ASSUME NEW n \in Nodes, clone(n) \/ cloneFails(n)  PROVE Footprint
  <2>1. UNCHANGED <<names, clones, deleted, pending, creating, deleting, cleaning>>
    BY <1>5 DEF clone, cloneFails, Steps, rpcs, etcd
  <2>2. masters' = masters \/ clone(n)
    BY <1>5 DEF cloneFails, Steps, etcd
  <2> QED
    BY <2>1, <2>2 DEF Footprint
<1>6. ASSUME NEW n \in Nodes, Delete(n) \/ DeleteSteps(n)  PROVE Footprint
  <2>1. UNCHANGED <<clones, masters, creating, cleaning>>
    BY <1>6 DEF Delete, DeleteSteps, markDeleted, markPending, UnregisterFilesystem, etcd
  <2>2. (names' = names \/ UnregisterFilesystem(n)) /\ (deleted' = deleted \/ markDeleted(n))
        /\ (pending' = pending \/ markPending(n))
    BY <1>6 DEF Delete, DeleteSteps, markDeleted, markPending, UnregisterFilesystem, etcd
  <2>3. \A m \in Nodes \ {n} : deleting'[m] = deleting[m]
    BY <1>6 DEF Delete, DeleteSteps, markDeleted, markPending, UnregisterFilesystem, Shape
  <2>4. UnregisterFilesystem(n) => deleting'[n] = NoDelete
    BY DEF UnregisterFilesystem, Shape
  <2> QED
    BY <1>6, <2>1, <2>2, <2>3, <2>4 DEF Footprint, DeleteSteps
<1>7. ASSUME NEW n \in Nodes, Cleanup(n)  PROVE Footprint
  <2>1. UNCHANGED <<deleted, creating, deleting>>
    BY <1>7 DEF Cleanup, listFilesystemsPendingCleanup, cleanMasters, cleanRegistry, cleanPending, etcd
  <2>2. (names' = names \/ cleanRegistry(n)) /\ (clones' = clones \/ cleanRegistry(n))
        /\ (pending' = pending \/ cleanPending(n)) /\ (masters' = masters \/ cleanMasters(n))
    BY <1>7 DEF Cleanup, listFilesystemsPendingCleanup, cleanMasters, cleanRegistry, cleanPending, etcd
  <2>3. \A m \in Nodes \ {n} : cleaning'[m] = cleaning[m]
    BY <1>7 DEF Cleanup, listFilesystemsPendingCleanup, cleanMasters, cleanRegistry, cleanPending,
                NextClean, Shape
  <2>4. cleanPending(n) => cleaning'[n] = NoClean
    BY DEF cleanPending, NextClean, Shape
  <2> QED
    BY <1>7, <2>1, <2>2, <2>3, <2>4 DEF Footprint, Cleanup
<1>8. ASSUME NEW n \in Nodes, watch(n) \/ fetch(n) \/ \E i \in Ids : boot(n, i)  PROVE Footprint
  <2>1. \E s : Steps(n, s)
    BY <1>8, FetchIs DEF watch, boot
  <2> QED
    BY <2>1 DEF Steps, Footprint, etcd, rpcs
<1>9. ASSUME NEW n \in Nodes, crash(n)  PROVE Footprint
  <2>1. /\ UNCHANGED same
        /\ \A m \in Nodes : /\ creating'[m] \in {creating[m], NoCreate}
                            /\ deleting'[m] \in {deleting[m], NoDelete}
                            /\ cleaning'[m] \in {cleaning[m], NoClean}
    BY <1>9 DEF crash, etcd, Shape
  <2> QED
    BY <2>1 DEF Footprint
<1> QED
  BY <1>1, <1>2, <1>3, <1>4, <1>5, <1>6, <1>7, <1>8, <1>9 DEF Next, Users

(* What each of them does to the names, the deletions and the cleanups.    *)
LEMMA Effects ==
  ASSUME Shape, NEW n \in Nodes
  PROVE  /\ RegisterFilesystem(n) => names' = names \/ names = Nobody
         /\ UnregisterFilesystem(n) => deleting[n].at = "unregister" /\ deleting'[n] = NoDelete
         /\ cleanRegistry(n) => \/ names' = names
                                \/ cleaning[n].at = "registry" /\ names = cleaning[n].audit.id
         /\ markDeleted(n) => deleting[n].at = "mark" /\ names' = names /\ deleted \subseteq deleted'
<1>1. RegisterFilesystem(n) => names' = names \/ names = Nobody
  BY DEF RegisterFilesystem
<1>2. UnregisterFilesystem(n) => deleting[n].at = "unregister" /\ deleting'[n] = NoDelete
  BY DEF UnregisterFilesystem, Shape
<1>3. cleanRegistry(n) => \/ names' = names
                          \/ cleaning[n].at = "registry" /\ names = cleaning[n].audit.id
  BY DEF cleanRegistry, isNamed
<1>4. markDeleted(n) => deleting[n].at = "mark" /\ names' = names /\ deleted \subseteq deleted'
  BY DEF markDeleted
<1> QED
  BY <1>1, <1>2, <1>3, <1>4

(* Deletions are for good.                                                 *)
LEMMA DeletedGrows ==
  ASSUME Shape, Footprint
  PROVE  deleted \subseteq deleted'
BY Effects DEF Footprint

(* A name is removed by a Delete that unregisters it, or by cleanup.       *)
LEMMA NameStep ==
  ASSUME Shape, Footprint, names' # names, names # Nobody
  PROVE  \/ \E n \in Nodes : UnregisterFilesystem(n)
         \/ \E n \in Nodes : cleaning[n].at = "registry" /\ names = cleaning[n].audit.id
BY Effects DEF Footprint

(* So the name's volume is deleted.                                        *)
LEMMA NameGone ==
  ASSUME Shape, Footprint, Unregistering, CleaningIsDead, names' # names, names # Nobody
  PROVE  names \in deleted
BY NameStep, Effects DEF Unregistering, CleaningIsDead

(* What anybody takes the name for has it, or is deleted.                  *)
LEMMA NamesKept ==
  ASSUME Shape, Footprint, NamedStep, NamesSettled, Unregistering, CleaningIsDead
  PROVE  NamesSettled'
<1> SUFFICES ASSUME NEW n \in Nodes, NEW t, Named(n, t)'
             PROVE  Settled(t)'
  BY DEF NamesSettled
<1>1. t \in {Nobody, names'} \/ Settled(t)
  BY DEF NamedStep, NamesSettled, Settled
<1>2. deleted \subseteq deleted'
  BY DeletedGrows
<1>3. names' = names \/ names = Nobody \/ names \in deleted
  BY NameGone
<1> QED
  BY <1>1, <1>2, <1>3 DEF Settled

(* What Delete starts with: the root, and the clones of what it has.       *)
LEMMA DescendantsAre ==
  ASSUME NEW entries \in SUBSET Entry, NEW root \in Ids
  PROVE  LET D == Descendants(entries, root) IN
         /\ D \subseteq Ids /\ root \in D
         /\ \A S \in SUBSET Ids :
              (root \in S /\ \A e \in entries : e.origin \in S => e.id \in S) => D \subseteq S
         /\ \A j \in D : j = root \/ \E e \in entries : e.id = j /\ e.origin \in D
<1> DEFINE D == Descendants(entries, root)
<1>1. D \subseteq Ids /\ root \in D
  BY DEF Descendants
<1>2. \A S \in SUBSET Ids :
        (root \in S /\ \A e \in entries : e.origin \in S => e.id \in S) => D \subseteq S
  BY DEF Descendants
<1>3. ASSUME NEW e \in entries, e.origin \in D  PROVE e.id \in D
  <2>1. e.id \in Ids
    BY DEF Entry
  <2> QED
    BY <1>3, <2>1 DEF Descendants
<1> HIDE DEF D
<1>4. ASSUME NEW j \in D, j # root, ~\E e \in entries : e.id = j /\ e.origin \in D
      PROVE  FALSE
  <2>1. D \ {j} \in SUBSET Ids /\ root \in D \ {j}
    BY <1>1, <1>4
  <2>2. \A e \in entries : e.origin \in D \ {j} => e.id \in D \ {j}
    BY <1>3, <1>4
  <2> QED
    BY <1>2, <2>1, <2>2
<1> QED
  BY <1>1, <1>2, <1>4 DEF D

(* A set of ids that is not empty has a least element.                     *)
LEMMA LeastId ==
  ASSUME NEW S \in SUBSET Ids, S # {}
  PROVE  \E i \in S : \A j \in S : i =< j
<1>0. S \subseteq Nat
  BY DEF Ids
<1>1. PICK i \in S : \A j \in S : ~ (<<j, i>> \in OpToRel(<, Nat))
  BY <1>0, NatLessThanWellFounded, WFMin, Zenon
<1>2. ASSUME NEW j \in S  PROVE i =< j
  <2>1. <<j, i>> \in Nat \X Nat /\ <<j, i>>[1] = j /\ <<j, i>>[2] = i
    BY <1>0
  <2>2. ~ (j < i)
    BY <1>1, <2>1, Zenon DEF OpToRel
  <2> QED
    BY <1>0, <2>2
<1> QED
  BY <1>2

(* Children come first: the root is only deletable when nothing else is    *)
(* left.                                                                   *)
LEMMA RootAlone ==
  ASSUME NEW todo \in SUBSET Ids, NEW list \in SUBSET Entry, NEW root \in todo,
         \A e \in list : e.origin < e.id,
         \A j \in todo : j = root \/ \E e \in list : e.id = j /\ e.origin \in todo,
         \A e \in list : e.origin = root => e.id \notin todo
  PROVE  todo = {root}
<1> SUFFICES ASSUME todo \ {root} # {}  PROVE FALSE
  OBVIOUS
<1>1. PICK i \in todo \ {root} : \A j \in todo \ {root} : i =< j
  BY LeastId
<1>2. PICK e \in list : e.id = i /\ e.origin \in todo
  BY <1>1
<1>3. e.origin = root
  BY <1>1, <1>2 DEF Entry, Ids
<1> QED
  BY <1>1, <1>2, <1>3

(* The next filesystem is marked.                                          *)
LEMMA MarkIs ==
  ASSUME Shape, NEW n \in Nodes, markDeleted(n)
  PROVE  /\ deleting[n].at = "mark" /\ UNCHANGED <<names, cleaning>>
         /\ \A m \in Nodes \ {n} : deleting'[m] = deleting[m]
         /\ \/ deleting'[n] = NoDelete /\ UNCHANGED deleted
            \/ /\ deleting'[n].id \in deletableNext(deleting[n])
               /\ deleting'[n].id \notin deleted /\ deleted' = deleted \cup {deleting'[n].id}
               /\ deleting'[n].at = "pend" /\ deleting'[n].root = deleting[n].root
               /\ deleting'[n].list = deleting[n].list /\ deleting'[n].todo = deleting[n].todo
<1>1. deleting[n].at = "mark" /\ UNCHANGED <<names, cleaning>>
  BY DEF markDeleted
<1>2. deleting[n] \in [at : {"mark", "unregister"}, root : Ids, list : SUBSET Entry,
                        todo : SUBSET Ids, id : {Nobody}]
  BY <1>1 DEF DeleteRecord, NoDelete, Shape
<1>3. PICK i \in deletableNext(deleting[n]) :
        IF i \in deleted
          THEN /\ deleting' = [deleting EXCEPT ![n] = NoDelete]
               /\ UNCHANGED <<deleted, node>>
          ELSE /\ deleted' = deleted \cup {i}
               /\ node' = Tell(node, Change("deleted", i, NoEntry))
               /\ deleting' = [deleting EXCEPT ![n] = [deleting[n] EXCEPT !.at = "pend", !.id = i]]
  BY DEF markDeleted
<1> DEFINE new == [deleting[n] EXCEPT !.at = "pend", !.id = i]
<1>4. /\ new.id = i /\ new.at = "pend" /\ new.root = deleting[n].root
      /\ new.list = deleting[n].list /\ new.todo = deleting[n].todo
  BY <1>2
<1>5. \/ deleting' = [deleting EXCEPT ![n] = NoDelete] /\ UNCHANGED deleted
      \/ i \notin deleted /\ deleted' = deleted \cup {i} /\ deleting' = [deleting EXCEPT ![n] = new]
  BY <1>3
<1> HIDE DEF new
<1> QED
  BY <1>1, <1>4, <1>5 DEF Shape

(* Then its audit trail is written, and Delete waits for its death.        *)
LEMMA PendIs ==
  ASSUME Shape, NEW n \in Nodes, markPending(n)
  PROVE  /\ deleting[n].at = "pend" /\ deleting'[n].at = "wait" /\ deleting'[n].root = deleting[n].root
         /\ deleting'[n].list = deleting[n].list /\ deleting'[n].todo = deleting[n].todo
         /\ deleting'[n].id = deleting[n].id
<1>1. deleting[n].at = "pend" /\ deleting' = [deleting EXCEPT ![n] = [deleting[n] EXCEPT !.at = "wait"]]
  BY DEF markPending
<1>2. deleting[n] \in [at : {"pend", "wait"}, root : Ids, list : SUBSET Entry,
                        todo : SUBSET Ids, id : Ids]
  BY <1>1 DEF DeleteRecord, NoDelete, Shape
<1> QED
  BY <1>1, <1>2 DEF Shape

(* The keys are in order.                                                  *)
LEMMA KeysKept ==
  ASSUME Shape, IdsInv, KeysInv, MadeStep, RootIsLast, BeingDeleted, Footprint
  PROVE  KeysInv'
<1>0. made \in Nat /\ made =< made' /\ 1 .. made \subseteq 1 .. made'
  BY DEF Shape, MadeStep
<1>1. (\A x, y \in clones : <<x.top, x.branch>> = <<y.top, y.branch>> => x = y)'
  <2>1. CASE clones' \subseteq clones
    BY <2>1 DEF KeysInv
  <2>2. ASSUME NEW n \in Nodes, cleanRegistry(n)  PROVE clones' \subseteq clones
    BY <2>2 DEF cleanRegistry
  <2>3. ASSUME NEW m \in Nodes, NEW n \in Nodes, NEW i \in Ids, NEW b \in Branches, Branch(m, n, i, b)
        PROVE  (\A x, y \in clones : <<x.top, x.branch>> = <<y.top, y.branch>> => x = y)'
    <3> DEFINE e == BranchEntry(m, i, b)
    <3>1. \/ clones' = clones
          \/ /\ \A x \in clones : <<x.top, x.branch>> # <<e.top, e.branch>>
             /\ clones' = clones \cup {e}
      BY <2>3 DEF Branch
    <3> HIDE DEF e
    <3> QED
      BY <3>1 DEF KeysInv
  <2> QED
    BY <2>1, <2>2, <2>3 DEF Footprint
<1>2. (\A a \in pending : a.id \in deleted)'
  <2>1. deleted \subseteq deleted'
    BY DeletedGrows
  <2>2. ASSUME NEW n \in Nodes, markPending(n)  PROVE \A a \in pending' : a.id \in deleted
    <3>1. pending' = pending \cup {AuditOf(deleting[n])} /\ deleting[n].at = "pend"
      BY <2>2 DEF markPending
    <3>2. AuditOf(deleting[n]).id \in deleted
      BY <3>1, AuditIs DEF BeingDeleted
    <3> QED
      BY <3>1, <3>2 DEF KeysInv
  <2>3. ASSUME NEW n \in Nodes, cleanPending(n)  PROVE \A a \in pending' : a.id \in deleted
    BY <2>3 DEF cleanPending, KeysInv
  <2>4. pending' = pending => \A a \in pending' : a.id \in deleted
    BY DEF KeysInv
  <2> QED
    BY <2>1, <2>2, <2>3, <2>4 DEF Footprint
<1>3. deleted' \subseteq 1 .. made'
  <2>1. ASSUME NEW n \in Nodes, markDeleted(n)  PROVE deleted' \subseteq 1 .. made
    BY <2>1 DEF markDeleted, deletableNext, KeysInv
  <2>2. deleted \subseteq 1 .. made
    BY DEF KeysInv
  <2> QED
    BY <1>0, <2>1, <2>2 DEF Footprint
<1>4. ASSUME NEW n \in Nodes  PROVE deleting'[n].todo \subseteq 1 .. made'
  <2>0. deleting[n].todo \subseteq 1 .. made
    BY DEF KeysInv
  <2>1. CASE deleting'[n] \in {deleting[n], NoDelete}
    BY <1>0, <2>0, <2>1 DEF NoDelete
  <2>2. CASE Delete(n)
    <3> DEFINE root == node[n].name
               known == {e \in node[n].clones : e.top = root}
               todo == Descendants(known, root)
    <3>1. root \in Ids /\ known \in SUBSET Entry
      BY <2>2 DEF Delete, Shape, NodeRecord
    <3>2. deleting'[n].todo = todo
      BY <2>2 DEF Delete, Shape
    <3>3. root \in 1 .. made
      <4>1. IsTop(root)
        BY DEF IsTop, Named, NodeName
      <4> QED
        BY <3>1, <4>1 DEF IdsInv, TopsAreMade, Ids
    <3>4. \A e \in known : e.id \in 1 .. made
      <4>1. \A e \in known : IsEntry(e)
        BY DEF IsEntry, NodeEntry
      <4> QED
        BY <4>1 DEF IdsInv, EntriesAreMade, Entry, Ids
    <3>5. 1 .. made \in SUBSET Ids
      BY IdsAssumption DEF Shape, Ids
    <3> HIDE DEF root, known
    <3>6. todo \subseteq 1 .. made
      BY <3>1, <3>3, <3>4, <3>5, DescendantsAre
    <3> QED
      BY <1>0, <3>2, <3>6
  <2>3. CASE markDeleted(n) \/ markPending(n)
    <3>4. deleting'[n].todo \in {deleting[n].todo, {}}
      BY <2>3, MarkIs, PendIs DEF NoDelete
    <3> QED
      BY <1>0, <2>0, <3>4
  <2>4. ASSUME NEW i \in Ids, Dies(n, i)  PROVE deleting'[n].todo \subseteq deleting[n].todo
    <3>1. deleting'[n] = Heard(deleting[n], i) /\ deleting[n] \in DeleteRecord
      BY <2>4 DEF Dies, Shape
    <3> QED
      BY <3>1, HeardIs
  <2> QED
    BY <1>0, <2>0, <2>1, <2>2, <2>3, <2>4 DEF Footprint
<1> QED
  BY <1>1, <1>2, <1>3, <1>4 DEF KeysInv

(* A Create that has claimed the volume is its master.                     *)
LEMMA MasterKept ==
  ASSUME Shape, IdsInv, MasterClaimed, CleaningIsDead, Footprint
  PROVE  MasterClaimed'
<1> SUFFICES ASSUME NEW n \in Nodes, creating'[n].at \in {"init", "wait"}
             PROVE  /\ creating'[n].id \in Ids
                    /\ creating'[n].id \in deleted' \/ masters'[creating'[n].id] = n
  BY DEF MasterClaimed
<1>0. deleted \subseteq deleted'
  BY DeletedGrows
<1>1. \/ creating[n].at \in {"init", "wait"} /\ creating'[n].id = creating[n].id
      \/ /\ creating[n].at = "claim" /\ creating'[n].id = creating[n].id
         /\ masters' = [masters EXCEPT ![creating[n].id] = n]
  <2>1. CASE creating'[n] \in {creating[n], NoCreate}
    BY <2>1 DEF NoCreate
  <2>2. CASE Create(n)
    BY <2>2 DEF Create, Shape
  <2>3. CASE RegisterFilesystem(n) \/ checkMaster(n)
    BY <2>3, NextCreateIs DEF RegisterFilesystem, checkMaster, NoCreate
  <2>4. CASE claimMaster(n)
    BY <2>4, NextCreateIs DEF claimMaster, NoCreate
  <2>5. CASE dispatchCreate(n)
    BY <2>5, DispatchCreateIs DEF NoCreate
  <2> QED
    BY <2>1, <2>2, <2>3, <2>4, <2>5 DEF Footprint
<1>2. creating[n].id \in Ids
  BY <1>1 DEF Shape, CreateRecord, NoCreate
<1>3. CASE /\ creating[n].at = "claim" /\ creating'[n].id = creating[n].id
           /\ masters' = [masters EXCEPT ![creating[n].id] = n]
  BY <1>2, <1>3 DEF Shape
<1>4. CASE creating[n].at \in {"init", "wait"} /\ creating'[n].id = creating[n].id
  <2> DEFINE i == creating[n].id
  <2>0. i \in deleted \/ masters[i] = n
    BY <1>4 DEF MasterClaimed
  <2>1. CASE masters' = masters
    BY <1>0, <1>2, <1>4, <2>0, <2>1
  <2>2. ASSUME NEW m \in Nodes, claimMaster(m)  PROVE i \in deleted \/ masters'[i] = n
    <3>1. \/ masters' = masters
          \/ /\ masters[creating[m].id] = NoNode
             /\ masters' = [masters EXCEPT ![creating[m].id] = m]
      BY <2>2 DEF claimMaster, claimable
    <3> QED
      BY <1>2, <2>0, <3>1, NodesAssumption DEF Shape
  <2>3. ASSUME NEW m \in Nodes, clone(m)  PROVE i \in deleted \/ masters'[i] = n
    <3>0. PICK e \in node[m].cloning, t \in NodeRecord : Cloned(m, e, t)
      BY <2>3, CloneIs
    <3>1. masters' = masters \/ masters' = [masters EXCEPT ![e.id] = m]
      BY <3>0 DEF Cloned
    <3>2. IsEntry(e) /\ IsTop(i)
      BY DEF IsEntry, NodeEntry, IsTop
    <3>3. e.id # i
      BY <3>2 DEF IdsInv, TopsAreMade
    <3> QED
      BY <1>2, <2>0, <3>1, <3>3 DEF Shape
  <2>4. ASSUME NEW m \in Nodes, cleanMasters(m)  PROVE i \in deleted \/ masters'[i] = n
    <3>1. cleaning[m].at = "masters" /\ masters' = [masters EXCEPT ![cleaning[m].audit.id] = NoNode]
      BY <2>4 DEF cleanMasters
    <3>2. cleaning[m].audit.id \in deleted
      BY <3>1 DEF CleaningIsDead
    <3> QED
      BY <1>2, <2>0, <3>1, <3>2 DEF Shape
  <2> QED
    BY <1>0, <1>2, <1>4, <2>0, <2>1, <2>2, <2>3, <2>4 DEF Footprint
<1> QED
  BY <1>1, <1>3, <1>4

(* The death that Delete has waited for: it goes on with the rest, and the *)
(* root was the last.                                                      *)
LEMMA DeathIs ==
  ASSUME Shape, IdsInv, RootIsLast, BeingDeleted, NEW n \in Nodes, NEW i \in Ids,
         Dies(n, i), deleting'[n] # deleting[n]
  PROVE  /\ deleting[n].at = "wait" /\ deleting[n].id = i
         /\ deleting'[n].todo = deleting[n].todo \ {i}
         /\ deleting'[n].root = deleting[n].root /\ deleting'[n].list = deleting[n].list
         /\ \/ deleting'[n].at = "unregister" /\ deleting[n].root = i
            \/ deleting'[n].at = "mark" /\ deleting[n].root # i
<1> DEFINE d == deleting[n]
<1>0. d \in DeleteRecord /\ deleting'[n] = Heard(d, i)
  BY DEF Dies, Shape
<1>1. /\ d.at = "wait" /\ d.id = i
      /\ deleting'[n].at = IF d.todo = {i} THEN "unregister" ELSE "mark"
      /\ deleting'[n].todo = d.todo \ {i}
      /\ deleting'[n].root = d.root /\ deleting'[n].list = d.list
  <2> HIDE DEF d
  <2>1. /\ Heard(d, i).list = d.list /\ Heard(d, i).root = d.root
        /\ \/ Heard(d, i) = d
           \/ /\ d.at = "wait" /\ d.id = i
              /\ Heard(d, i).at = IF d.todo = {i} THEN "unregister" ELSE "mark"
              /\ Heard(d, i).todo = d.todo \ {i}
    BY <1>0, HeardIs
  <2>2. Heard(d, i) # d
    BY <1>0 DEF d
  <2> QED
    BY <1>0, <2>1, <2>2
<1>2. d.todo \in SUBSET Ids /\ d.list \in SUBSET Entry
  BY <1>0, <1>1 DEF DeleteRecord, NoDelete
<1>3. /\ d.root \in d.todo
      /\ \A j \in d.todo : j = d.root \/ \E e \in d.list : e.id = j /\ e.origin \in d.todo
  BY <1>1 DEF RootIsLast
<1>4. i \in d.todo /\ \A e \in d.list : e.origin = i => e.id \notin d.todo
  BY <1>1 DEF BeingDeleted, deletableNext
<1>5. \A e \in d.list : e.origin < e.id
  BY DEF IdsInv, EntriesAreMade, IsEntry
<1> HIDE DEF d
<1>6. ASSUME d.root = i  PROVE d.todo = {i}
  <2> DEFINE todo == d.todo
             list == d.list
  <2>1. /\ todo \in SUBSET Ids /\ list \in SUBSET Entry /\ i \in todo
        /\ \A e \in list : e.origin < e.id
        /\ \A j \in todo : j = i \/ \E e \in list : e.id = j /\ e.origin \in todo
        /\ \A e \in list : e.origin = i => e.id \notin todo
    BY <1>2, <1>3, <1>4, <1>5, <1>6
  <2> HIDE DEF todo, list
  <2>2. todo = {i}
    BY <2>1, RootAlone
  <2> QED
    BY <2>2 DEF todo
<1> QED
  BY <1>1, <1>3, <1>6 DEF d

(* The root stays the last.                                                *)
LEMMA RootKept ==
  ASSUME Shape, IdsInv, RootIsLast, BeingDeleted, Footprint
  PROVE  RootIsLast'
<1> SUFFICES ASSUME NEW n \in Nodes, deleting'[n].at \in {"mark", "pend", "wait"}
             PROVE  /\ deleting'[n].root \in deleting'[n].todo
                    /\ \A j \in deleting'[n].todo : \/ j = deleting'[n].root
                         \/ \E e \in deleting'[n].list : e.id = j /\ e.origin \in deleting'[n].todo
  BY DEF RootIsLast
<1>1. CASE deleting'[n] \in {deleting[n], NoDelete}
  BY <1>1 DEF RootIsLast, NoDelete
<1>2. CASE Delete(n)
  <2> DEFINE root == node[n].name
             known == {e \in node[n].clones : e.top = root}
             todo == Descendants(known, root)
  <2>1. root \in Ids /\ known \in SUBSET Entry
    BY <1>2 DEF Delete, Shape, NodeRecord
  <2>2. deleting'[n].todo = todo /\ deleting'[n].root = root /\ deleting'[n].list = known
    BY <1>2 DEF Delete, Shape
  <2> HIDE DEF root, known
  <2>3. root \in todo /\ \A j \in todo : j = root \/ \E e \in known : e.id = j /\ e.origin \in todo
    BY <2>1, DescendantsAre
  <2> QED
    BY <2>2, <2>3
<1>3. CASE markDeleted(n)
  BY <1>3, MarkIs DEF RootIsLast, NoDelete
<1>4. CASE markPending(n)
  BY <1>4, PendIs DEF RootIsLast
<1>5. ASSUME NEW i \in Ids, Dies(n, i), deleting'[n] # deleting[n]
      PROVE  /\ deleting'[n].root \in deleting'[n].todo
             /\ \A j \in deleting'[n].todo : \/ j = deleting'[n].root
                  \/ \E e \in deleting'[n].list : e.id = j /\ e.origin \in deleting'[n].todo
  <2>1. /\ deleting[n].at = "wait" /\ deleting[n].id = i /\ deleting[n].root # i
        /\ deleting'[n].todo = deleting[n].todo \ {i}
        /\ deleting'[n].root = deleting[n].root /\ deleting'[n].list = deleting[n].list
    BY <1>5, DeathIs
  <2>2. \A e \in deleting[n].list : e.origin = i => e.id \notin deleting[n].todo
    BY <2>1 DEF BeingDeleted, deletableNext
  <2> QED
    BY <2>1, <2>2 DEF RootIsLast
<1> QED
  BY <1>1, <1>2, <1>3, <1>4, <1>5 DEF Footprint

(* Whom a Delete owns is deleted.                                          *)
LEMMA OwnedIsDeleted ==
  ASSUME BeingDeleted, Unregistering, NEW n \in Nodes, NEW i, Owns(n, i)
  PROVE  i \in deleted
BY DEF Owns, BeingDeleted, Unregistering

(* Nobody else comes to own what is owned already.                         *)
LEMMA OwnsKept ==
  ASSUME Shape, IdsInv, RootIsLast, BeingDeleted, Unregistering, OneOwner, Footprint
  PROVE  OneOwner'
<1>1. ASSUME NEW n \in Nodes, NEW i, Owns(n, i)', ~Owns(n, i)
      PROVE  markDeleted(n) /\ i \notin deleted
  <2>1. CASE deleting'[n] \in {deleting[n], NoDelete}
    BY <1>1, <2>1 DEF Owns, NoDelete
  <2>2. CASE Delete(n)
    BY <1>1, <2>2 DEF Owns, Delete, Shape
  <2>3. CASE markDeleted(n)
    BY <1>1, <2>3, MarkIs DEF Owns, NoDelete
  <2>4. CASE markPending(n)
    BY <1>1, <2>4, PendIs DEF Owns
  <2>5. ASSUME NEW j \in Ids, Dies(n, j), deleting'[n] # deleting[n]  PROVE FALSE
    <3>1. /\ deleting[n].at = "wait" /\ deleting[n].id = j /\ deleting'[n].root = deleting[n].root
          /\ \/ deleting'[n].at = "unregister" /\ deleting[n].root = j
             \/ deleting'[n].at = "mark" /\ deleting[n].root # j
      BY <2>5, DeathIs
    <3> QED
      BY <1>1, <3>1 DEF Owns
  <2> QED
    BY <2>1, <2>2, <2>3, <2>4, <2>5 DEF Footprint
<1> SUFFICES ASSUME NEW m \in Nodes, NEW n \in Nodes, NEW i \in Ids, Owns(m, i)', Owns(n, i)', m # n
             PROVE  FALSE
  BY DEF OneOwner
<1>2. CASE Owns(m, i) /\ Owns(n, i)
  BY <1>2 DEF OneOwner
<1>3. ASSUME NEW k \in Nodes, NEW l \in Nodes, k # l, ~Owns(k, i), Owns(k, i)', Owns(l, i)'
      PROVE  FALSE
  <2>1. markDeleted(k) /\ i \notin deleted
    BY <1>1, <1>3
  <2>2. deleting'[l] = deleting[l]
    BY <1>3, <2>1, MarkIs
  <2>3. Owns(l, i)
    BY <1>3, <2>2 DEF Owns
  <2> QED
    BY <2>1, <2>3, OwnedIsDeleted
<1> QED
  BY <1>2, <1>3

(* Whoever removes a name, a root that somebody owns has it or is dead.    *)
LEMMA NameOfOwned ==
  ASSUME Shape, Unregistering, OneOwner, CleaningIsDead, Footprint,
         NEW n \in Nodes, NEW i \in Ids, Owns(n, i), Owns(n, i)', names = i, names' # i
  PROVE  /\ deleting[n].at # "unregister"
         /\ Dead(i) /\ i \in deleted
<1>0. names # Nobody
  BY DEF Ids, Nobody
<1>1. CASE \E m \in Nodes : UnregisterFilesystem(m)
  <2>1. PICK m \in Nodes : UnregisterFilesystem(m)
    BY <1>1
  <2>2. deleting[m].at = "unregister" /\ deleting'[m] = NoDelete
    BY <2>1, Effects
  <2>3. Owns(m, i)
    BY <2>2 DEF Owns, Unregistering
  <2>4. m = n
    BY <2>3 DEF OneOwner
  <2> QED
    BY <2>2, <2>4 DEF Owns, NoDelete
<1>2. CASE \E m \in Nodes : cleaning[m].at = "registry" /\ names = cleaning[m].audit.id
  BY <1>2 DEF CleaningIsDead, Unregistering
<1> QED
  BY <1>0, <1>1, <1>2, NameStep

(* What Delete has marked is deleted, and a root that is has its name      *)
(* until it is dead.                                                       *)
LEMMA BeingDeletedKept ==
  ASSUME Shape, Shape', IdsInv, NamesSettled, DeletingInv, Footprint, DeadStays
  PROVE  BeingDeleted'
<1> USE DEF DeletingInv
<1> SUFFICES ASSUME NEW n \in Nodes, deleting'[n].at \in {"pend", "wait"}
             PROVE  /\ deleting'[n].id \in deletableNext(deleting'[n]) /\ deleting'[n].id \in deleted'
                    /\ deleting'[n].id = deleting'[n].root =>
                         names' = deleting'[n].root \/ Dead(deleting[n].root)'
  BY DEF BeingDeleted
<1>0. deleted \subseteq deleted'
  BY DeletedGrows
<1>a. deleting'[n].id \in Ids /\ deleting'[n].root \in Ids
  BY DEF Shape, DeleteRecord, NoDelete
<1>1. ASSUME /\ deleting[n].at \in {"pend", "wait"} /\ deleting'[n].root = deleting[n].root
             /\ deleting'[n].list = deleting[n].list /\ deleting'[n].todo = deleting[n].todo
             /\ deleting'[n].id = deleting[n].id
      PROVE  /\ deleting'[n].id \in deletableNext(deleting'[n]) /\ deleting'[n].id \in deleted'
             /\ deleting'[n].id = deleting'[n].root =>
                  names' = deleting'[n].root \/ Dead(deleting[n].root)'
  <2>1. deleting[n].id \in deletableNext(deleting[n]) /\ deleting[n].id \in deleted
    BY <1>1 DEF BeingDeleted
  <2>2. deletableNext(deleting'[n]) = deletableNext(deleting[n])
    BY <1>1 DEF deletableNext
  <2>3. ASSUME deleting[n].id = deleting[n].root, names' # deleting[n].root
        PROVE  Dead(deleting[n].root)'
    <3> SUFFICES ASSUME ~Dead(deleting[n].root)  PROVE FALSE
      BY <1>1, <2>1, <2>3 DEF DeadStays, Dead
    <3>2. CASE names = deleting[n].root
      <4>1. Owns(n, deleting[n].root) /\ Owns(n, deleting[n].root)'
        BY <1>1, <2>3 DEF Owns
      <4>2. Dead(deleting[n].root)
        BY <1>1, <1>a, <2>3, <3>2, <4>1, NameOfOwned
      <4> QED
        BY <4>2
    <3> QED
      BY <1>1, <2>3, <3>2 DEF BeingDeleted
  <2> QED
    BY <1>0, <1>1, <2>1, <2>2, <2>3
<1>2. CASE deleting'[n] \in {deleting[n], NoDelete}
  BY <1>1, <1>2 DEF NoDelete
<1>3. CASE Delete(n)
  BY <1>3 DEF Delete, Shape
<1>4. CASE markDeleted(n)
  <2>1. /\ deleting[n].at = "mark" /\ names' = names
        /\ deleting'[n].id \in deletableNext(deleting[n])
        /\ deleting'[n].id \notin deleted /\ deleted' = deleted \cup {deleting'[n].id}
        /\ deleting'[n].root = deleting[n].root
        /\ deleting'[n].list = deleting[n].list /\ deleting'[n].todo = deleting[n].todo
    BY <1>4, MarkIs DEF NoDelete
  <2>2. deletableNext(deleting'[n]) = deletableNext(deleting[n])
    BY <2>1 DEF deletableNext
  <2>3. Settled(deleting[n].root)
    BY DEF NamesSettled, Named
  <2>4. deleting'[n].id = deleting'[n].root => names' = deleting'[n].root
    BY <1>a, <2>1, <2>3 DEF Settled, Ids, Nobody
  <2> QED
    BY <2>1, <2>2, <2>4
<1>5. CASE markPending(n)
  BY <1>1, <1>5, PendIs
<1>6. ASSUME NEW i \in Ids, Dies(n, i), deleting'[n] # deleting[n]  PROVE FALSE
  BY <1>6, DeathIs
<1> QED
  BY <1>2, <1>3, <1>4, <1>5, <1>6 DEF Footprint

(* The volume that Delete unregisters has the name.                        *)
LEMMA UnregisteringKept ==
  ASSUME Shape, Shape', IdsInv, DeletingInv, Footprint
  PROVE  Unregistering'
<1> USE DEF DeletingInv
<1> SUFFICES ASSUME NEW n \in Nodes, deleting'[n].at = "unregister"
             PROVE  names' = deleting'[n].root /\ names' \in deleted'
  BY DEF Unregistering
<1>0. deleted \subseteq deleted'
  BY DeletedGrows
<1>1. CASE deleting'[n] \in {deleting[n], NoDelete}
  <2>1. deleting'[n] = deleting[n] /\ deleting[n].at = "unregister"
    BY <1>1 DEF NoDelete
  <2>2. names = deleting[n].root /\ names \in deleted /\ names \in Ids
    BY <2>1 DEF Unregistering, Shape
  <2>3. Owns(n, names) /\ Owns(n, deleting[n].root)'
    BY <2>1, <2>2 DEF Owns
  <2>4. names' = names
    <3> DEFINE i == names
    <3>1. Owns(n, names) /\ (deleting'[n].at = "unregister" /\ deleting'[n].root = names)
      BY <2>1, <2>2, <2>3
    <3>2. ASSUME NEW j \in Ids, names = j, names' # j  PROVE FALSE
      <4>1. Owns(n, j) /\ Owns(n, j)'
        BY <3>1, <3>2 DEF Owns
      <4> QED
        BY <2>1, <3>2, <4>1, NameOfOwned
    <3> QED
      BY <2>2, <3>2
  <2> QED
    BY <1>0, <2>1, <2>2, <2>4
<1>2. CASE Delete(n)
  BY <1>2 DEF Delete, Shape
<1>3. CASE markDeleted(n)
  BY <1>3, MarkIs DEF NoDelete
<1>4. CASE markPending(n)
  BY <1>4, PendIs
<1>5. ASSUME NEW i \in Ids, Dies(n, i), node[n].machine[i] # "none", deleting'[n] # deleting[n]
      PROVE  names' = deleting'[n].root /\ names' \in deleted'
  <2>1. /\ deleting[n].at = "wait" /\ deleting[n].id = i /\ deleting[n].root = i
        /\ deleting'[n].root = i
    BY <1>5, DeathIs
  <2>2. names = i /\ i \in deleted
    BY <1>5, <2>1 DEF BeingDeleted, Dead
  <2>3. UNCHANGED <<names, deleted>>
    BY <1>5 DEF Dies, etcd
  <2> QED
    BY <2>1, <2>2, <2>3
<1> QED
  BY <1>1, <1>2, <1>3, <1>4, <1>5 DEF Footprint

(* What is cleaned up is dead, and no Delete is about to unregister it.    *)
LEMMA CleaningKept ==
  ASSUME Shape, IdsInv, KeysInv, DeletingInv, Footprint, DeadStays
  PROVE  CleaningIsDead'
<1> USE DEF DeletingInv
<1> SUFFICES ASSUME NEW n \in Nodes, cleaning'[n].at # "none"
             PROVE  /\ cleaning'[n].audit.id \in deleted' /\ Dead(cleaning[n].audit.id)'
                    /\ \A m \in Nodes : ~(deleting'[m].at = "unregister"
                                          /\ deleting'[m].root = cleaning'[n].audit.id)
  BY DEF CleaningIsDead
<1>0. deleted \subseteq deleted'
  BY DeletedGrows
<1>1. ASSUME cleaning[n].at # "none", cleaning'[n].audit = cleaning[n].audit
      PROVE  /\ cleaning'[n].audit.id \in deleted' /\ Dead(cleaning[n].audit.id)'
             /\ \A m \in Nodes : ~(deleting'[m].at = "unregister"
                                   /\ deleting'[m].root = cleaning'[n].audit.id)
  <2> DEFINE i == cleaning[n].audit.id
  <2>1. /\ i \in deleted /\ Dead(i)
        /\ \A m \in Nodes : ~(deleting[m].at = "unregister" /\ deleting[m].root = i)
    BY <1>1 DEF CleaningIsDead
  <2>2. \A m \in Nodes : node'[m].machine[i] = "none"
    BY <2>1 DEF DeadStays, Dead
  <2>3. Dead(cleaning[n].audit.id)'
    BY <1>1, <2>2 DEF Dead
  <2>4. ASSUME NEW m \in Nodes, deleting'[m].at = "unregister", deleting'[m].root = i  PROVE FALSE
    <3>1. CASE deleting'[m] \in {deleting[m], NoDelete}
      BY <2>1, <2>4, <3>1 DEF NoDelete
    <3>2. CASE Delete(m)
      BY <2>4, <3>2 DEF Delete, Shape
    <3>3. CASE markDeleted(m)
      BY <2>4, <3>3, MarkIs DEF NoDelete
    <3>4. CASE markPending(m)
      BY <2>4, <3>4, PendIs
    <3>5. ASSUME NEW j \in Ids, Dies(m, j), node[m].machine[j] # "none", deleting'[m] # deleting[m]
          PROVE  FALSE
      <4>1. deleting[m].root = j /\ deleting'[m].root = deleting[m].root
        BY <2>4, <3>5, DeathIs
      <4> QED
        BY <2>1, <2>4, <3>5, <4>1 DEF Dead
    <3> QED
      BY <3>1, <3>2, <3>3, <3>4, <3>5 DEF Footprint
  <2> QED
    BY <1>0, <1>1, <2>1, <2>3, <2>4
<1>2. CASE cleaning'[n] \in {cleaning[n], NoClean}
  BY <1>1, <1>2 DEF NoClean
<1>3. CASE cleanMasters(n)
  BY <1>1, <1>3, NextCleanIs DEF cleanMasters
<1>4. CASE cleanRegistry(n)
  BY <1>1, <1>4, NextCleanIs DEF cleanRegistry
<1>5. CASE listFilesystemsPendingCleanup(n)
  <2>1. PICK a \in pending : /\ Expired(a.id)
                             /\ cleaning' = [cleaning EXCEPT ![n] = [at |-> "masters", audit |-> a]]
    BY <1>5 DEF listFilesystemsPendingCleanup
  <2>2. cleaning'[n].audit = a /\ UNCHANGED <<deleted, node, deleting>>
    BY <1>5, <2>1 DEF listFilesystemsPendingCleanup, etcd, Shape
  <2>3. a.id \in deleted
    BY DEF KeysInv
  <2>4. \A m \in Nodes : node'[m].machine[a.id] = "none"
    BY <2>1, <2>2 DEF Expired
  <2>5. Dead(cleaning[n].audit.id)'
    BY <2>2, <2>4 DEF Dead
  <2> QED
    BY <2>1, <2>2, <2>3, <2>5 DEF Expired
<1> QED
  BY <1>2, <1>3, <1>4, <1>5 DEF Footprint

-----------------------------------------------------------------------------
(* The inductive invariant.                                                *)

(* It holds in the beginning.                                              *)
LEMMA InitInv == Init => LifecycleInv
<1> SUFFICES ASSUME Init  PROVE LifecycleInv
  OBVIOUS
<1> DEFINE there == 1 .. Initial
           branches == {[top |-> 1, branch |-> k - 1, id |-> k, origin |-> 1] : k \in there \ {1}}
           first == IF Initial = 0 THEN Nobody ELSE 1
           machine == [i \in Ids |-> IF i \in there THEN "present" ELSE "none"]
           s == [Started(there, {}) EXCEPT
                   !.name = first, !.clones = branches, !.watching = TRUE, !.serving = TRUE,
                   !.machine = machine]
<1>0. Initial \in Nat /\ MaxIds \in Nat /\ Initial =< MaxIds /\ there \subseteq Ids
  BY IdsAssumption DEF Ids
<1>1. /\ names = first /\ clones = branches /\ deleted = {} /\ pending = {} /\ made = Initial
      /\ masters = [i \in Ids |-> IF i \in there THEN Home ELSE NoNode]
      /\ origin = [i \in Ids |-> IF i \in there \ {1} THEN 1 ELSE Nobody]
      /\ node = [n \in Nodes |-> s] /\ creating = [n \in Nodes |-> NoCreate]
      /\ deleting = [n \in Nodes |-> NoDelete] /\ cleaning = [n \in Nodes |-> NoClean]
      /\ calls = [k \in Kinds |-> 0]
  BY Zenon DEF Init
<1>2. \A e \in branches : /\ e \in Entry /\ e.id \in there \ {1} /\ e.origin = 1 /\ e.top = 1
                          /\ e = [top |-> 1, branch |-> e.id - 1, id |-> e.id, origin |-> 1]
                          /\ e.branch = e.id - 1
  <2> SUFFICES ASSUME NEW k \in there \ {1}
               PROVE  LET e == [top |-> 1, branch |-> k - 1, id |-> k, origin |-> 1] IN
                      /\ e \in Entry /\ e.id \in there \ {1} /\ e.origin = 1 /\ e.top = 1
                      /\ e = [top |-> 1, branch |-> e.id - 1, id |-> e.id, origin |-> 1]
                      /\ e.branch = e.id - 1
    OBVIOUS
  <2>1. k \in Ids /\ 1 \in Ids /\ k - 1 \in 1 .. Initial - 1
    BY <1>0 DEF Ids
  <2>2. k - 1 \in Branches
    BY <2>1, BranchesAssumption
  <2> QED
    BY <2>1, <2>2 DEF Entry
<1>3. first \in Ids \cup {Nobody} /\ first \in 0 .. Initial /\ first \in {Nobody, 1}
  BY <1>0 DEF Ids, Nobody
<1>4. machine \in [Ids -> MachineStates]
  BY DEF MachineStates
<1>5. /\ s \in NodeRecord /\ s.name = first /\ s.clones = branches /\ s.machine = machine
      /\ s.cloning = {} /\ s.pool = there /\ s.booting = {} /\ s.inbox = << >>
      /\ \A i \in Ids : s.requests[i] = {}
  <2> DEFINE t == Started(there, {})
  <2>1. /\ t \in NodeRecord
        /\ t.cloning = {} /\ t.inbox = << >> /\ t.pool = there /\ t.booting = {}
        /\ \A i \in Ids : t.requests[i] = {}
    <3>1. there \in SUBSET Ids /\ {} \in SUBSET Ids
      BY <1>0
    <3>2. t \in NodeRecord
      BY <3>1, StartedIs
    <3> QED
      BY <3>2 DEF Started
  <2> HIDE DEF t, branches, first, machine, there
  <2>2. branches \subseteq Entry
    BY <1>2
  <2> QED
    BY <1>3, <1>4, <2>1, <2>2 DEF NodeRecord, t
<1>a. branches \subseteq Entry /\ there \subseteq Ids
  BY <1>0, <1>2
<1>b. \A i \in Ids : machine[i] = IF i \in there THEN "present" ELSE "none"
  OBVIOUS
<1>c. \A x, y \in branches : x.id = y.id => x = y
  BY <1>2
<1>d. \A i \in Ids : origin[i] = IF i \in there \ {1} THEN 1 ELSE Nobody
  BY <1>1
<1>e. /\ \A i \in there : i \in 1 .. Initial /\ i >= 1
      /\ \A i \in there \ {1} : 1 < i /\ i =< Initial /\ 1 \in there
  BY <1>0
<1> HIDE DEF s, branches, first, machine
<1>6. Shape
  <2>1. masters \in [Ids -> Nodes \cup {NoNode}]
    BY <1>1, NodesAssumption
  <2>2. origin \in [Ids -> Ids \cup {Nobody}]
    BY <1>0, <1>1 DEF Ids
  <2>3. made \in 0 .. MaxIds
    BY <1>0, <1>1
  <2>4. calls \in [Kinds -> Nat]
    BY <1>1
  <2> HIDE DEF there
  <2> QED
    BY <1>1, <1>3, <1>5, <1>a, <2>1, <2>2, <2>3, <2>4 DEF Shape, CreateRecord, DeleteRecord, CleanRecord
<1> HIDE DEF there
<1>7. \A e : IsEntry(e) => e \in branches
  BY <1>1, <1>5 DEF IsEntry, NodeEntry, NoDelete
<1>8. \A t : IsTop(t) => t \in {first, Nobody}
  BY <1>1, <1>5 DEF IsTop, Named, NodeName, NoDelete, NoCreate
<1>9. IdsInv
  <2>1. EntriesAreMade
    BY <1>1, <1>2, <1>7, <1>e DEF EntriesAreMade
  <2>2. OneEntryPerClone
    BY <1>7, <1>c DEF OneEntryPerClone
  <2>3. OriginsAgree
    BY <1>2, <1>7, <1>a, <1>d DEF OriginsAgree
  <2>4. TopsAreMade
    <3>1. \A e \in branches : e.id \notin {0, 1}
      BY <1>2, <1>e
    <3>2. \A t \in {first, Nobody} : t \in 0 .. made /\ t \in {0, 1} /\ (t # Nobody => t \in Ids)
      BY <1>0, <1>1, <1>3 DEF Nobody
    <3> QED
      BY <1>7, <1>8, <1>d, <3>1, <3>2 DEF TopsAreMade, Nobody
  <2>5. FreshOrigin
    BY <1>0, <1>1, <1>d, <1>e DEF FreshOrigin, Ids
  <2> QED
    BY <2>1, <2>2, <2>3, <2>4, <2>5 DEF IdsInv
<1>10. NodesInv
  <2>1. NodesAreSane
    BY <1>1, <1>5, <1>a, <1>b, <1>d, <1>e DEF NodesAreSane, Sane
  <2>2. CloningIsNew /\ CreateIsWaiting
    BY <1>1, <1>5 DEF CloningIsNew, CreateIsWaiting
  <2>3. PoolsAreMade
    BY <1>1, <1>5, <1>e DEF PoolsAreMade
  <2> QED
    BY <2>1, <2>2, <2>3 DEF NodesInv
<1>11. KeysInv
  <2>1. \A x, y \in branches : <<x.top, x.branch>> = <<y.top, y.branch>> => x = y
    <3> SUFFICES ASSUME NEW x \in branches, NEW y \in branches, x.branch = y.branch  PROVE x.id = y.id
      BY <1>c
    <3>1. x.branch = x.id - 1 /\ y.branch = y.id - 1 /\ x.id \in 1 .. Initial /\ y.id \in 1 .. Initial
      BY <1>2, <1>e
    <3>2. x.id \in Int /\ y.id \in Int
      BY <1>0, <3>1
    <3>3. x.id - 1 = y.id - 1
      BY <3>1
    <3> QED
      BY <3>2, <3>3
  <2> QED
    BY <1>1, <2>1 DEF KeysInv, NoDelete
<1>12. NamesSettled
  <2>1. \A n \in Nodes : \A t : Named(n, t) => t \in {first, Nobody}
    BY <1>8 DEF IsTop
  <2> QED
    BY <1>1, <2>1 DEF NamesSettled, Settled
<1>13. MasterClaimed /\ DeletingInv
  BY <1>1 DEF MasterClaimed, DeletingInv, RootIsLast, BeingDeleted, Unregistering, OneOwner, Owns,
              CleaningIsDead, NoCreate, NoDelete, NoClean
<1> QED
  BY <1>6, <1>9, <1>10, <1>11, <1>12, <1>13 DEF LifecycleInv

(* Every step keeps it.                                                    *)
LEMMA NextInv == LifecycleInv /\ [Next]_vars => LifecycleInv'
<1> SUFFICES ASSUME LifecycleInv, [Next]_vars  PROVE LifecycleInv'
  OBVIOUS
<1>0. Shape /\ IdsInv /\ NodesInv /\ KeysInv /\ NamesSettled /\ MasterClaimed /\ DeletingInv
      /\ RootIsLast /\ BeingDeleted /\ Unregistering /\ OneOwner /\ CleaningIsDead
  BY DEF LifecycleInv, DeletingInv
<1>1. Shape'
  BY <1>0, ShapeNext
<1>2. Heirs /\ EntriesStep /\ NamedStep /\ MadeStep
  BY <1>0, HeirsNext DEF Heirs
<1>3. IdsInv'
  BY <1>0, <1>1, <1>2, IdsKept
<1>4. NodesInv' /\ DeadStays
  BY <1>0, <1>1, <1>2, NodesNext
<1>5. Footprint
  BY <1>0, FootprintNext
<1>6. KeysInv'
  BY <1>0, <1>2, <1>5, KeysKept
<1>7. NamesSettled'
  BY <1>0, <1>2, <1>5, NamesKept
<1>8. MasterClaimed'
  BY <1>0, <1>5, MasterKept
<1>9. RootIsLast'
  BY <1>0, <1>5, RootKept
<1>10. BeingDeleted'
  BY <1>0, <1>1, <1>4, <1>5, BeingDeletedKept
<1>11. Unregistering'
  BY <1>0, <1>1, <1>5, UnregisteringKept
<1>12. OneOwner'
  BY <1>0, <1>5, OwnsKept
<1>13. CleaningIsDead'
  BY <1>0, <1>4, <1>5, CleaningKept
<1> QED
  BY <1>1, <1>3, <1>4, <1>6, <1>7, <1>8, <1>9, <1>10, <1>11, <1>12, <1>13 DEF LifecycleInv, DeletingInv

(* It always holds.                                                        *)
LEMMA SpecInv == Spec => []LifecycleInv
BY InitInv, NextInv, PTL DEF Spec

(* Records keep their shape, keys of the registry are unique, what Delete  *)
(* and cleanup still have to remove was made, and a clone is never in a    *)
(* pool without its origin, whatever Create, Branch, Delete, cleanup, the  *)
(* watchers and crashes do.                                                *)
THEOREM TypeCorrect == Spec => []TypeOK
BY SpecInv, InvType, PTL

(* A name is only removed from a volume that is deleted, by a Delete or by *)
(* the cleanup of any node (etcd.go:315).                                  *)
THEOREM NamesAreKept == Spec => NameKept
<1>1. LifecycleInv /\ [Next]_vars => [names # Nobody /\ names' # names => names \in deleted]_vars
  BY FootprintNext, NameGone DEF LifecycleInv, DeletingInv
<1> QED
  BY <1>1, SpecInv, PTL DEF Spec, NameKept

(* When zfs creates a filesystem the node is its master and the name leads *)
(* to it, unless it is deleted already (controller.go:770).                *)
THEOREM CreatedFilesystemsAreThere == Spec => CreatedIsThere
<1> DEFINE A == \A n \in Nodes : LET i == creating[n].id IN
                  (creating[n].at = "wait" /\ i \notin node[n].pool /\ i \in node'[n].pool)
                    => (i \in deleted \/ (names = i /\ masters[i] = n))
<1>1. LifecycleInv /\ [Next]_vars => A
  <2> SUFFICES ASSUME LifecycleInv, NEW n \in Nodes, creating[n].at = "wait"
               PROVE  LET i == creating[n].id IN i \in deleted \/ (names = i /\ masters[i] = n)
    OBVIOUS
  <2>1. creating[n].id \in Ids /\ (creating[n].id \in deleted \/ masters[creating[n].id] = n)
    BY DEF LifecycleInv, MasterClaimed
  <2>2. Settled(creating[n].id)
    BY DEF LifecycleInv, NamesSettled, Named
  <2> QED
    BY <2>1, <2>2 DEF Settled, Ids, Nobody
<1>2. LifecycleInv /\ [Next]_vars => [A]_vars
  BY <1>1
<1>3. CreatedIsThere <=> [][A]_vars
  BY DEF CreatedIsThere
<1> HIDE DEF A
<1> QED
  BY <1>2, <1>3, SpecInv, PTL DEF Spec

(* Delete destroys leaves first: what it has waited for is gone, but for a *)
(* filesystem with a clone that this Delete does not have (rpc.go:1414).   *)
THEOREM DeletesLeavesFirst == Spec => DeleteLeavesFirst
<1> DEFINE A == \A n \in Nodes : LET d == deleting[n] IN
                  (d.at = "wait" /\ deleting'[n].at \in {"mark", "unregister"})
                    => (d.id \in node'[n].pool =>
                          \E j \in node'[n].pool \ d.todo : origin[j] = d.id)
<1>1. LifecycleInv /\ [Next]_vars => A
  <2> SUFFICES ASSUME LifecycleInv, [Next]_vars, NEW n \in Nodes, deleting[n].at = "wait",
                      deleting'[n].at \in {"mark", "unregister"}, deleting[n].id \in node'[n].pool
               PROVE  \E j \in node'[n].pool \ deleting[n].todo : origin[j] = deleting[n].id
    OBVIOUS
  <2>0. Shape /\ IdsInv /\ RootIsLast /\ BeingDeleted /\ Footprint
    BY FootprintNext DEF LifecycleInv, DeletingInv
  <2>1. PICK i \in Ids : Dies(n, i)
    <3>1. deleting'[n] \notin {deleting[n], NoDelete} /\ ~markDeleted(n) /\ ~markPending(n) /\ ~Delete(n)
      BY DEF NoDelete, markDeleted, markPending, Delete
    <3> QED
      BY <2>0, <3>1 DEF Footprint
  <2>2. deleting[n].id = i
    BY <2>0, <2>1, DeathIs
  <2>3. node[n] \in NodeRecord /\ node'[n] = deleteFilesystem(node[n], i)
    BY <2>0, <2>1 DEF Dies, Shape
  <2>4. node'[n].pool = destroy(node[n].pool, i)
    BY <2>3, DeleteIs
  <2>5. PICK j \in node[n].pool : origin[j] = i /\ node'[n].pool = node[n].pool
    BY <2>2, <2>4 DEF destroy
  <2>6. ASSUME j \in deleting[n].todo  PROVE FALSE
    <3>1. i \in deletableNext(deleting[n]) /\ i # Nobody
      BY <2>0, <2>2 DEF BeingDeleted, Ids, Nobody
    <3>2. CASE j = deleting[n].root
      <4>1. IsTop(j) /\ j \in Ids
        BY <2>0, <2>3, <2>5, <3>2 DEF IsTop, Named, NodeRecord
      <4> QED
        BY <2>0, <2>5, <3>1, <4>1 DEF IdsInv, TopsAreMade, Ids, Nobody
    <3>3. ASSUME NEW e \in deleting[n].list, e.id = j  PROVE FALSE
      <4>1. IsEntry(e)
        BY DEF IsEntry
      <4>2. e.origin = i
        BY <2>0, <2>5, <3>1, <3>3, <4>1 DEF IdsInv, OriginsAgree
      <4> QED
        BY <2>6, <3>1, <3>3, <4>2 DEF deletableNext
    <3> QED
      BY <2>0, <2>6, <3>2, <3>3 DEF RootIsLast
  <2> QED
    BY <2>2, <2>5, <2>6
<1>2. LifecycleInv /\ [Next]_vars => [A]_vars
  BY <1>1
<1>3. DeleteLeavesFirst <=> [][A]_vars
  BY DEF DeleteLeavesFirst
<1> HIDE DEF A
<1> QED
  BY <1>2, <1>3, SpecInv, PTL DEF Spec
=============================================================================
