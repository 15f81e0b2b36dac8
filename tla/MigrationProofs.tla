--------------------------- MODULE MigrationProofs ---------------------------
(***************************************************************************)
(* Theorems about Migration, for any number of nodes and any bounds.       *)
(***************************************************************************)
EXTENDS Migration, SnapshotLogicProofs

(***************************************************************************)
(* TypeOK is not inductive as it stands: masters is set to the target of   *)
(* the request a handoff works on, which is a node only because that is a  *)
(* move request that exists.  KnownRequests follows request ids from the   *)
(* etcd event through the queue to the handoff.                            *)
(***************************************************************************)
MovesHaveTargets ==
  \A id \in 1 .. Len(requests) : requests[id].op = "move" => requests[id].target \in Nodes

EventsAreKnown ==
  \A n \in Nodes : \A k \in 1 .. Len(watch[n]) :
    watch[n][k].type = "requests" => watch[n][k].id \in 1 .. Len(requests)

ItemsAreKnown ==
  \A n \in Nodes :
    /\ \A id \in 1 .. MaxReqs : fsRequests[n][RequestItem(id)] > 0 => id =< Len(requests)
    /\ offered[n].kind = "request" => offered[n].id =< Len(requests)

HandoffIsKnown ==
  \A n \in Nodes : state[n] \in HandoffStates =>
    /\ handoffRequest[n] \in 1 .. Len(requests)
    /\ requests[handoffRequest[n]].op = "move"

StreamIsOpen == \A n \in Nodes : state[n] = "recv" <=> stream[n] # << >>

KnownRequests == MovesHaveTargets /\ EventsAreKnown /\ ItemsAreKnown /\ HandoffIsKnown

TypeInv == TypeOK /\ KnownRequests /\ StreamIsOpen

(* Initially the only request item would be one of a request: none exists. *)
LEMMA TypeInit == Init => TypeInv
<1> SUFFICES ASSUME Init PROVE TypeInv
  OBVIOUS
<1> USE DEF Init
<1>1. TypeOK
  BY NodesAssumption, BoundsAssumption
  DEF TypeOK, MachineStates, Snaps, Event, MasterEvent, EtcdEvent, Idle
<1>2. MovesHaveTargets /\ HandoffIsKnown /\ StreamIsOpen
  BY DEF MovesHaveTargets, HandoffIsKnown, HandoffStates, StreamIsOpen
<1>3. EventsAreKnown
  BY DEF EventsAreKnown, MasterEvent, EtcdEvent
<1>4. ItemsAreKnown
  BY DEF ItemsAreKnown, RequestItem, LocalItem, Items, NoItem
<1> QED
  BY <1>1, <1>2, <1>3, <1>4 DEF TypeInv, KnownRequests

-----------------------------------------------------------------------------
(* What the helpers of the actions do to types.                            *)

(* The next state function is one of MachineStates.                        *)
LEMMA GotoType ==
  ASSUME TypeOK, NEW n \in Nodes, NEW next \in MachineStates, Goto(n, next)
  PROVE  state' \in [Nodes -> MachineStates] /\ inbox' \in [Nodes -> BOOLEAN]
BY DEF TypeOK, Goto

(* What the watcher takes off its watch is an event.                       *)
LEMMA ConsumeType ==
  ASSUME TypeOK, NEW n \in Nodes, watch[n] # << >>, Consume(n)
  PROVE  watch' \in [Nodes -> Seq(Event)] /\ Head(watch[n]) \in Event
BY DEF TypeOK, Consume

(* dispatchEvent adds a goroutine to the bag.                              *)
LEMMA DispatchType ==
  ASSUME TypeOK, NEW n \in Nodes, NEW i \in Items, Dispatch(n, i)
  PROVE  fsRequests' \in [Nodes -> [Items -> Nat]]
BY DEF TypeOK, Dispatch

(* run() takes an event only if there is one.                              *)
LEMMA TakeType ==
  ASSUME TypeOK, NEW n \in Nodes, NEW i \in Offerable(n), Take(n, i)
  PROVE  /\ offered' \in [Nodes -> Items \cup {NoItem}]
         /\ fsRequests' \in [Nodes -> [Items -> Nat]]
         /\ wedged' \in [Nodes -> BOOLEAN]
BY DEF TypeOK, Take, Offerable

(* A response on its way to etcd names a request.                          *)
LEMMA RespondType ==
  ASSUME TypeOK, NEW n \in Nodes, NEW i \in Items, NEW name \in ResponseNames, Respond(n, i, name)
  PROVE  acks' \in [Nodes -> SUBSET Ack]
<1>1. i.kind = "request" => [id |-> i.id, name |-> name] \in Ack
  BY DEF Items, Ack
<1> QED
  BY <1>1 DEF TypeOK, Respond

(* An etcd change is an event for every watcher.                           *)
LEMMA BroadcastType ==
  ASSUME TypeOK, NEW e \in Event, Broadcast(e)
  PROVE  watch' \in [Nodes -> Seq(Event)]
BY DEF TypeOK, Broadcast

(* The three kinds of etcd events.                                         *)
LEMMA EventType ==
  /\ \A m \in Nodes \cup {NoNode} : MasterEvent(m) \in Event
  /\ \A id \in Nat : RequestEvent(id) \in Event
  /\ \A m \in Nodes, snaps \in Snaps : SnapshotsEvent(m, snaps) \in Event
BY DEF MasterEvent, RequestEvent, SnapshotsEvent, EtcdEvent, Event, Snaps

(* `zfs snapshot` appends an id to the list.                               *)
LEMMA SnapshotType ==
  ASSUME TypeOK, NEW n \in Nodes, NEW done \in SnapshotOutcomes, snapshot(n, done)
  PROVE  /\ zSnaps' \in [Nodes -> Snaps] /\ fsSnaps' \in [Nodes -> Snaps]
         /\ zDirty' \in [Nodes -> BOOLEAN] /\ updater' \in [Nodes -> {"wait", "set"}]
         /\ nextSnap' \in Nat /\ faults' \in Nat
<1>1. CASE done = "listed"
  <2>1. /\ nextSnap' = nextSnap + 1
        /\ zSnaps' = [zSnaps EXCEPT ![n] = Append(@, nextSnap)]
        /\ fsSnaps' = [fsSnaps EXCEPT ![n] = Append(@, nextSnap)]
        /\ zDirty' = [zDirty EXCEPT ![n] = FALSE]
        /\ updater' = [updater EXCEPT ![n] = "set"]
        /\ faults' = faults
    BY <1>1 DEF snapshot
  <2>2. Append(zSnaps[n], nextSnap) \in Snaps /\ Append(fsSnaps[n], nextSnap) \in Snaps
    BY DEF TypeOK, Snaps
  <2> QED
    BY <2>1, <2>2 DEF TypeOK
<1>2. CASE done # "listed"
  <2>1. zDirty' \in [Nodes -> BOOLEAN] /\ nextSnap' \in Nat /\ zSnaps' \in [Nodes -> Snaps]
    <3>1. Append(zSnaps[n], nextSnap) \in Snaps
      BY DEF TypeOK, Snaps
    <3>2. zSnaps' = zSnaps \/ zSnaps' = [zSnaps EXCEPT ![n] = Append(@, nextSnap)]
      BY DEF snapshot
    <3>3. zDirty' = zDirty \/ zDirty' = [zDirty EXCEPT ![n] = FALSE]
      BY DEF snapshot
    <3>4. nextSnap' = nextSnap \/ nextSnap' = nextSnap + 1
      BY DEF snapshot
    <3>5. zSnaps' \in [Nodes -> Snaps]
      BY <3>1, <3>2 DEF TypeOK
    <3>6. zDirty' \in [Nodes -> BOOLEAN]
      BY <3>3 DEF TypeOK
    <3>7. nextSnap' \in Nat
      BY <3>4 DEF TypeOK
    <3> QED
      BY <3>5, <3>6, <3>7
  <2>2. fsSnaps' = fsSnaps /\ updater' = updater /\ faults' = faults + 1
    BY <1>2 DEF snapshot, Fault
  <2> QED
    BY <2>1, <2>2 DEF TypeOK
<1> QED
  BY <1>1, <1>2

(* The fetch of a (re)connected node is a sequence of events.              *)
LEMMA FetchedType ==
  ASSUME TypeOK
  PROVE  /\ Fetched \in Seq(Event)
         /\ \A k \in 1 .. Len(Fetched) :
              Fetched[k].type = "requests" => Fetched[k].id \in 1 .. Len(requests)
<1> DEFINE M == <<MasterEvent(masters)>>
           R == [id \in 1 .. Len(requests) |-> RequestEvent(id)]
           S == [i \in 1 .. Len(NodeOrder) |-> SnapshotsEvent(NodeOrder[i], snapshots[NodeOrder[i]])]
<1>1. M \in Seq(Event) /\ Len(M) = 1 /\ M[1].type = "masters"
  <2>1. MasterEvent(masters) \in Event
    BY EventType DEF TypeOK
  <2> QED
    BY <2>1 DEF MasterEvent, EtcdEvent
<1>2. R \in Seq(Event) /\ Len(R) = Len(requests) /\ \A k \in 1 .. Len(R) : R[k].id = k
  <2>1. \A id \in 1 .. Len(requests) : RequestEvent(id) \in Event
    BY EventType DEF TypeOK
  <2>2. Len(requests) \in Nat
    BY DEF TypeOK
  <2> QED
    BY <2>1, <2>2 DEF RequestEvent, EtcdEvent
<1>3. S \in Seq(Event) /\ \A k \in 1 .. Len(S) : S[k].type = "snapshots"
  <2>1. \A i \in 1 .. Len(NodeOrder) :
          SnapshotsEvent(NodeOrder[i], snapshots[NodeOrder[i]]) \in Event
    <3>1. \A i \in 1 .. Len(NodeOrder) : NodeOrder[i] \in Nodes
      BY NodesAssumption
    <3>2. \A m \in Nodes : SnapshotsEvent(m, snapshots[m]) \in Event
      BY EventType DEF TypeOK
    <3> QED
      BY <3>1, <3>2
  <2>2. Len(NodeOrder) \in Nat
    BY NodesAssumption
  <2> QED
    BY <2>1, <2>2 DEF SnapshotsEvent, EtcdEvent
<1>4. Fetched = (M \o R) \o S
  BY DEF Fetched
<1> HIDE DEF M, R, S
<1>5. Fetched \in Seq(Event)
  BY <1>1, <1>2, <1>3, <1>4
<1>6. ASSUME NEW k \in 1 .. Len(Fetched), Fetched[k].type = "requests"
      PROVE  Fetched[k].id \in 1 .. Len(requests)
  <2> DEFINE MR == M \o R
  <2>0. MR \in Seq(Event) /\ Len(MR) = Len(M) + Len(R)
    BY <1>1, <1>2, ConcatProperties, Zenon
  <2>1. MR \in Seq(Event) /\ Len(MR) = 1 + Len(R)
    BY <1>1, <2>0
  <2>2. \A j \in 1 .. Len(MR) : MR[j] = IF j =< Len(M) THEN M[j] ELSE R[j - Len(M)]
    BY <1>1, <1>2, <2>1, ConcatProperties
  <2>3. Fetched = MR \o S
    BY <1>4
  <2> HIDE DEF MR
  <2>4. Fetched[k] = IF k =< Len(MR) THEN MR[k] ELSE S[k - Len(MR)]
    BY <1>3, <2>1, <2>3
  <2>5. k =< Len(MR)
    <3>1. k > Len(MR) => k - Len(MR) \in 1 .. Len(S)
      BY <1>3, <2>1, <2>3
    <3> QED
      BY <1>3, <1>6, <2>1, <2>4, <3>1
  <2>6. k # 1 /\ Fetched[k] = R[k - 1] /\ k - 1 \in 1 .. Len(R)
    BY <1>1, <1>2, <1>6, <2>1, <2>2, <2>4, <2>5
  <2> QED
    BY <1>2, <2>6
<1> QED
  BY <1>5, <1>6

-----------------------------------------------------------------------------
(* What they do to the request ids that are under way.                     *)

(* The request event a watcher processes is of a request in etcd.          *)
LEMMA ConsumeKnown ==
  ASSUME TypeOK, EventsAreKnown, NEW n \in Nodes, watch[n] # << >>, Consume(n),
         requests' = requests
  PROVE  /\ EventsAreKnown'
         /\ Head(watch[n]).type = "requests" => Head(watch[n]).id \in 1 .. Len(requests)
<1>1. watch[n] \in Seq(Event) /\ Len(watch[n]) \in Nat \ {0}
  BY DEF TypeOK
<1>2. \A k \in 1 .. Len(Tail(watch[n])) :
        k + 1 \in 1 .. Len(watch[n]) /\ Tail(watch[n])[k] = watch[n][k + 1]
  BY <1>1
<1>3. \A m \in Nodes : watch'[m] = IF m = n THEN Tail(watch[n]) ELSE watch[m]
  BY DEF Consume, TypeOK
<1>4. EventsAreKnown'
  <2> SUFFICES ASSUME NEW m \in Nodes, NEW k \in 1 .. Len(watch'[m]),
                      watch'[m][k].type = "requests"
               PROVE  watch'[m][k].id \in 1 .. Len(requests)
    BY DEF EventsAreKnown
  <2>1. CASE m = n
    <3>1. watch'[m] = Tail(watch[n])
      BY <1>3, <2>1
    <3>2. k + 1 \in 1 .. Len(watch[n]) /\ watch'[m][k] = watch[n][k + 1]
      BY <1>2, <3>1
    <3> QED
      BY <3>2 DEF EventsAreKnown
  <2>2. CASE m # n
    <3>1. watch'[m] = watch[m]
      BY <1>3, <2>2
    <3> QED
      BY <3>1 DEF EventsAreKnown
  <2> QED
    BY <2>1, <2>2
<1>5. Head(watch[n]) = watch[n][1] /\ 1 \in 1 .. Len(watch[n])
  BY <1>1
<1> QED
  BY <1>4, <1>5 DEF EventsAreKnown

(* The request event that is sent is of a request in etcd.                 *)
LEMMA BroadcastKnown ==
  ASSUME TypeOK, EventsAreKnown, NEW e \in Event, Broadcast(e),
         Len(requests') \in Nat, Len(requests) =< Len(requests'),
         e.type = "requests" => e.id \in 1 .. Len(requests')
  PROVE  EventsAreKnown'
<1>1. \A n \in Nodes : watch'[n] = Append(watch[n], e) /\ watch[n] \in Seq(Event)
  BY DEF Broadcast, TypeOK
<1>2. \A n \in Nodes : \A k \in 1 .. Len(watch'[n]) :
        watch'[n][k] = IF k = Len(watch[n]) + 1 THEN e ELSE watch[n][k]
  BY <1>1
<1>3. \A n \in Nodes : Len(watch'[n]) = Len(watch[n]) + 1 /\ Len(watch[n]) \in Nat
  BY <1>1
<1>4. Len(requests) \in Nat
  BY DEF TypeOK
<1> SUFFICES ASSUME NEW n \in Nodes, NEW k \in 1 .. Len(watch'[n]),
                    watch'[n][k].type = "requests"
             PROVE  watch'[n][k].id \in 1 .. Len(requests')
  BY DEF EventsAreKnown
<1>5. CASE k = Len(watch[n]) + 1
  <2>1. watch'[n][k] = e
    BY <1>2, <1>5
  <2> QED
    BY <2>1
<1>6. CASE k # Len(watch[n]) + 1
  <2>1. watch'[n][k] = watch[n][k] /\ k \in 1 .. Len(watch[n])
    BY <1>2, <1>3, <1>6
  <2>2. watch[n][k].id \in 1 .. Len(requests)
    BY <2>1 DEF EventsAreKnown
  <2> QED
    BY <1>4, <2>1, <2>2
<1> QED
  BY <1>5, <1>6

(* A request that is dispatched is in etcd.                                *)
LEMMA DispatchKnown ==
  ASSUME TypeOK, ItemsAreKnown, NEW n \in Nodes, NEW i \in Items, Dispatch(n, i),
         UNCHANGED <<requests, offered>>, i.kind = "request" => i.id =< Len(requests)
  PROVE  ItemsAreKnown'
<1>1. \A id \in 1 .. MaxReqs : RequestItem(id) \in Items /\ RequestItem(id).kind = "request"
                                /\ RequestItem(id).id = id
  BY DEF RequestItem, Items
<1>2. \A m \in Nodes, j \in Items :
        fsRequests'[m][j] = IF m = n /\ j = i THEN fsRequests[m][j] + 1 ELSE fsRequests[m][j]
  BY DEF Dispatch, TypeOK
<1> QED
  BY <1>1, <1>2 DEF ItemsAreKnown

(* An event that can be taken is of a known request; so it stays when it   *)
(* leaves the queue, for good or to be offered again.                      *)
LEMMA OfferableKnown ==
  ASSUME TypeOK, ItemsAreKnown, NEW n \in Nodes, NEW i \in Offerable(n)
  PROVE  i.kind = "request" => i.id \in 1 .. Len(requests)
<1>1. i \in Items /\ (i.kind = "request" => i.id \in 1 .. MaxReqs /\ i = RequestItem(i.id))
  BY DEF Offerable, Items, RequestItem
<1>2. offered[n] = NoItem => fsRequests[n][i] > 0
  BY DEF Offerable
<1>3. offered[n] # NoItem => offered[n] = i
  BY DEF Offerable
<1> QED
  BY <1>1, <1>2, <1>3 DEF ItemsAreKnown, TypeOK

(* An event taken off the queue, or put back, leaves the rest known.       *)
LEMMA OfferKnown ==
  ASSUME TypeOK, ItemsAreKnown, NEW n \in Nodes, NEW i \in Offerable(n),
         NEW o \in {i, NoItem}, offered' = [offered EXCEPT ![n] = o],
         fsRequests' = IF offered[n] = NoItem
                         THEN [fsRequests EXCEPT ![n][i] = @ - 1] ELSE fsRequests,
         requests' = requests
  PROVE  ItemsAreKnown'
<1>1. \A id \in 1 .. MaxReqs : RequestItem(id) \in Items
  BY DEF RequestItem, Items
<1>2. i \in Items /\ NoItem.kind = "none"
  BY DEF Offerable, NoItem
<1>3. \A m \in Nodes, j \in Items :
        fsRequests'[m][j] = IF offered[n] = NoItem /\ m = n /\ j = i
                              THEN fsRequests[m][j] - 1 ELSE fsRequests[m][j]
  BY <1>2 DEF TypeOK
<1>4. \A m \in Nodes, j \in Items : fsRequests[m][j] \in Nat
  BY DEF TypeOK
<1>5. \A m \in Nodes : offered'[m] = IF m = n THEN o ELSE offered[m]
  BY DEF TypeOK
<1>6. \A m \in Nodes, id \in 1 .. MaxReqs :
        fsRequests'[m][RequestItem(id)] > 0 => fsRequests[m][RequestItem(id)] > 0
  BY <1>1, <1>3, <1>4
<1>7. o.kind = "request" => o.id =< Len(requests)
  <2>1. i.kind = "request" => i.id \in 1 .. Len(requests)
    BY OfferableKnown
  <2>2. Len(requests) \in Nat
    BY DEF TypeOK
  <2>3. i.kind = "request" => i.id =< Len(requests)
    BY <2>1, <2>2
  <2>4. o = i \/ o.kind # "request"
    BY <1>2
  <2> QED
    BY <2>3, <2>4
<1> QED
  BY <1>5, <1>6, <1>7 DEF ItemsAreKnown

(* The request run() takes is in etcd.                                     *)
LEMMA TakeKnown ==
  ASSUME TypeOK, ItemsAreKnown, NEW n \in Nodes, NEW i \in Offerable(n), Take(n, i),
         requests' = requests
  PROVE  ItemsAreKnown' /\ (i.kind = "request" => i.id \in 1 .. Len(requests))
BY OfferKnown, OfferableKnown DEF Take

(* A machine that does not enter handoffState goes on with what it had.    *)
LEMMA GotoKnown ==
  ASSUME TypeOK, HandoffIsKnown, NEW n \in Nodes, NEW next, Goto(n, next),
         UNCHANGED <<requests, handoffRequest>>,
         next \in HandoffStates => state[n] \in HandoffStates
  PROVE  HandoffIsKnown'
BY DEF TypeOK, HandoffIsKnown, Goto

(* The item a handoff works on is a move request, with a node as target.   *)
LEMMA HandoffItemType ==
  ASSUME TypeInv, NEW n \in Nodes, state[n] \in HandoffStates
  PROVE  handoffItem(n) \in Items /\ target(n) \in Nodes
<1>1. handoffRequest[n] \in 1 .. Len(requests) /\ requests[handoffRequest[n]].target \in Nodes
  BY DEF TypeInv, KnownRequests, HandoffIsKnown, MovesHaveTargets
<1>2. handoffRequest[n] \in 1 .. MaxReqs
  BY <1>1, BoundsAssumption DEF TypeInv, TypeOK
<1> QED
  BY <1>1, <1>2 DEF handoffItem, RequestItem, Items, target

(* A rolled back list is a list.                                           *)
LEMMA SliceType ==
  ASSUME NEW s \in Snaps, NEW id
  PROVE  rollbackSlice(s, id) \in Snaps /\ SubSeq(s, 1, IndexOf(s, id)) \in Snaps
<1>1. IndexOf(s, id) \in 0 .. Len(s)
  BY IndexOfProperties DEF Snaps
<1>2. SubSeq(s, 1, IndexOf(s, id)) \in Snaps
  BY <1>1 DEF Snaps
<1> QED
  BY <1>2 DEF rollbackSlice

(* A stream that can be sent has at least one snapshot.                    *)
LEMMA StreamType ==
  ASSUME NEW s \in Snaps, NEW fromSnap, NEW toSnap, CanSend(s, fromSnap, toSnap)
  PROVE  SendStream(s, fromSnap, toSnap) \in Snaps /\ SendStream(s, fromSnap, toSnap) # << >>
<1> DEFINE a == IF fromSnap = NilSnap THEN 1 ELSE IndexOf(s, fromSnap) + 1
           b == IndexOf(s, toSnap)
<1>1. b \in 1 .. Len(s)
  BY IndexOfProperties DEF CanSend, Snaps
<1>2. a \in 1 .. b
  BY <1>1, IndexOfProperties DEF CanSend, Snaps
<1>3. SendStream(s, fromSnap, toSnap) = SubSeq(s, a, b)
  BY DEF SendStream
<1> HIDE DEF a, b
<1>4. SubSeq(s, a, b) \in Snaps /\ Len(SubSeq(s, a, b)) = b - a + 1
  BY <1>1, <1>2, SubSeqProperties DEF Snaps
<1> QED
  BY <1>1, <1>2, <1>3, <1>4 DEF Snaps

(* There is a range to receive only from a master that is known.           *)
LEMMA RangeHasMaster ==
  ASSUME TypeOK, NEW n \in Nodes, plausibleSnapRange(n).err = "ok"
  PROVE  mastersCache[n] \in Nodes
BY DEF TypeOK, plausibleSnapRange, canApply, ApplyError, Range3

(* receivingState either gives up or starts a stream from the master.      *)
LEMMA ReceivingCases ==
  ASSUME TypeOK, NEW n \in Nodes, receiving(n)
  PROVE  \/ stream' = stream /\ \E next \in {"discovering", "backoff"} : Goto(n, next)
         \/ LET r == plausibleSnapRange(n)
                m == mastersCache[n]
            IN  /\ m \in Nodes /\ Serves(m, r) /\ Accepts(n, r)
                /\ SendStream(zSnaps[m], r.fromSnap, r.toSnap) \in Snaps \ {<< >>}
                /\ stream' = [stream EXCEPT ![n] = SendStream(zSnaps[m], r.fromSnap, r.toSnap)]
                /\ Goto(n, "recv")
<1> DEFINE r == plausibleSnapRange(n)
           m == mastersCache[n]
<1>1. CASE r.err = "ok" /\ Serves(m, r) /\ Accepts(n, r)
  <2>1. /\ stream' = [stream EXCEPT ![n] = SendStream(zSnaps[m], r.fromSnap, r.toSnap)]
        /\ Goto(n, "recv")
    BY <1>1 DEF receiving
  <2>2. m \in Nodes
    BY <1>1, RangeHasMaster
  <2>3. SendStream(zSnaps[m], r.fromSnap, r.toSnap) \in Snaps \ {<< >>}
    BY <1>1, <2>2, StreamType DEF Serves, TypeOK
  <2> QED
    BY <1>1, <2>1, <2>2, <2>3
<1>2. CASE ~ (r.err = "ok" /\ Serves(m, r) /\ Accepts(n, r))
  BY <1>2 DEF receiving
<1> QED
  BY <1>1, <1>2

(* globalFsRequest appends a request.                                      *)
LEMMA RequestType ==
  ASSUME TypeOK, NEW op \in {"move", "snapshot", "rollback"}, NEW node \in Nodes \cup {NoNode},
         NEW snap \in Nat, globalFsRequest(op, node, snap)
  PROVE  /\ requests' \in Seq(Request) /\ Len(requests') =< MaxReqs
         /\ Len(requests') = Len(requests) + 1
         /\ requests' = Append(requests, [op |-> op, target |-> node, snap |-> snap])
         /\ watch' \in [Nodes -> Seq(Event)]
<1>1. [op |-> op, target |-> node, snap |-> snap] \in Request
  BY DEF Request
<1>2. RequestEvent(Len(requests) + 1) \in Event
  BY EventType DEF TypeOK
<1>3. watch' \in [Nodes -> Seq(Event)]
  BY <1>2, BroadcastType DEF globalFsRequest
<1> QED
  BY <1>1, <1>3, BoundsAssumption DEF globalFsRequest, TypeOK

-----------------------------------------------------------------------------
(* Every action preserves TypeOK.                                          *)
LEMMA TypeOKNext == TypeInv /\ [Next]_vars => TypeOK'
<1> SUFFICES ASSUME TypeInv, [Next]_vars PROVE TypeOK'
  OBVIOUS
<1> USE TypeInv DEF TypeInv
<1>1. ASSUME NEW n \in Nodes, updateMaster(n)  PROVE TypeOK'
  BY <1>1, ConsumeType, DispatchType
  DEF TypeOK, etcdVars, cacheVars, queueVars, zVars, dockerVars, boundVars, updateMaster,
      NextEvent, LocalItem, Items, Event, MachineStates
<1>2. ASSUME NEW n \in Nodes, maybeDispatchEvent(n)  PROVE TypeOK'
  <2>1. watch' \in [Nodes -> Seq(Event)]
    BY <1>2, ConsumeType DEF maybeDispatchEvent, NextEvent
  <2>2. Head(watch[n]).id \in 1 .. MaxReqs
    <3>1. Head(watch[n]).id \in 1 .. Len(requests)
      BY <1>2, ConsumeKnown DEF maybeDispatchEvent, NextEvent, etcdVars, KnownRequests
    <3> QED
      BY <3>1, BoundsAssumption DEF TypeOK
  <2>3. RequestItem(Head(watch[n]).id) \in Items
    BY <1>2, <2>2 DEF RequestItem, Items
  <2>4. fsRequests' \in [Nodes -> [Items -> Nat]]
    BY <1>2, <2>3, DispatchType DEF maybeDispatchEvent, TypeOK
  <2> QED
    BY <1>2, <2>1, <2>2, <2>3, <2>4
    DEF TypeOK, etcdVars, cacheVars, queueVars, zVars, dockerVars, boundVars, maybeDispatchEvent
<1>3. ASSUME NEW n \in Nodes, updateSnapshots(n)  PROVE TypeOK'
  BY <1>3, ConsumeType
  DEF TypeOK, etcdVars, cacheVars, queueVars, zVars, dockerVars, boundVars, updateSnapshots,
      NextEvent, Event, Snaps
<1>4. ASSUME NEW n \in Nodes, Reconnect(n)  PROVE TypeOK'
  <2>1. watch' \in [Nodes -> Seq(Event)]
    BY <1>4, FetchedType DEF Reconnect, TypeOK
  <2> QED
    BY <1>4, <2>1
    DEF TypeOK, etcdVars, cacheVars, queueVars, zVars, dockerVars, boundVars, Reconnect
<1>5. ASSUME NEW n \in Nodes, Restart(n)  PROVE TypeOK'
  <2>1. watch' \in [Nodes -> Seq(Event)]
    BY <1>5, FetchedType DEF Restart, TypeOK
  <2>a. << >> \in Snaps /\ 0 \in 0 .. MaxReqs
    BY BoundsAssumption DEF Snaps
  <2>b. fsRequests' \in [Nodes -> [Items -> Nat]]
    <3>1. [i \in Items |-> 0] \in [Items -> Nat]
      OBVIOUS
    <3> QED
      BY <1>5, <3>1 DEF Restart, TypeOK
  <2>c. globalSnapshotCache' \in [Nodes -> [Nodes -> Snaps]]
    <3>1. [m \in Nodes |-> << >>] \in [Nodes -> Snaps]
      BY <2>a
    <3> QED
      BY <1>5, <3>1 DEF Restart, TypeOK
  <2>2. fsRequests' \in [Nodes -> [Items -> Nat]]
        /\ globalSnapshotCache' \in [Nodes -> [Nodes -> Snaps]]
    BY <2>b, <2>c
  <2>d. state' \in [Nodes -> MachineStates]
    BY <1>5 DEF Restart, TypeOK, MachineStates
  <2>e. fsSnaps' \in [Nodes -> Snaps] /\ stream' \in [Nodes -> Snaps]
    BY <1>5, <2>a DEF Restart, TypeOK
  <2>f. handoffRequest' \in [Nodes -> 0 .. MaxReqs]
    BY <1>5, <2>a DEF Restart, TypeOK
  <2>3. /\ state' \in [Nodes -> MachineStates] /\ fsSnaps' \in [Nodes -> Snaps]
        /\ stream' \in [Nodes -> Snaps] /\ handoffRequest' \in [Nodes -> 0 .. MaxReqs]
    BY <2>d, <2>e, <2>f
  <2>4. /\ mastersCache' \in [Nodes -> Nodes \cup {NoNode}] /\ offered' \in [Nodes -> Items \cup {NoItem}]
        /\ wedged' \in [Nodes -> BOOLEAN] /\ inbox' \in [Nodes -> BOOLEAN]
        /\ updater' \in [Nodes -> {"wait", "set"}] /\ acks' \in [Nodes -> SUBSET Ack]
    BY <1>5 DEF Restart, TypeOK
  <2>5. procure' \in [Nodes -> [at : {"idle", "moving", "moved"}, id : 0 .. MaxReqs]]
    BY <1>5, BoundsAssumption DEF Restart, TypeOK, Idle
  <2>6. restarts' \in Nat
    BY <1>5 DEF Restart, TypeOK
  <2> QED
    BY <1>5, <2>1, <2>2, <2>3, <2>4, <2>5, <2>6
    DEF TypeOK, etcdVars, cacheVars, queueVars, zVars, dockerVars, boundVars, Restart
<1>6. ASSUME NEW n \in Nodes, updateEtcdAboutSnapshots(n)  PROVE TypeOK'
  <2>1. watch' \in [Nodes -> Seq(Event)]
    BY <1>6, BroadcastType, EventType DEF updateEtcdAboutSnapshots, TypeOK
  <2>2. snapshots' \in [Nodes -> Snaps]
    <3>1. snapshots' = snapshots \/ snapshots' = [snapshots EXCEPT ![n] = fsSnaps[n]]
      BY <1>6 DEF updateEtcdAboutSnapshots
    <3> QED
      BY <3>1 DEF TypeOK
  <2>3. updater' \in [Nodes -> {"wait", "set"}]
    BY <1>6 DEF updateEtcdAboutSnapshots, TypeOK
  <2> QED
    BY <1>6, <2>1, <2>2, <2>3
    DEF TypeOK, etcdVars, cacheVars, queueVars, zVars, dockerVars, boundVars,
        updateEtcdAboutSnapshots
<1>7. ASSUME NEW n \in Nodes, setResponse(n)  PROVE TypeOK'
  BY <1>7
  DEF TypeOK, etcdVars, cacheVars, queueVars, zVars, dockerVars, boundVars, setResponse, Ack
<1>8. ASSUME NEW n \in Nodes, discover(n)  PROVE TypeOK'
  BY <1>8, GotoType
  DEF TypeOK, etcdVars, cacheVars, queueVars, zVars, dockerVars, boundVars, discover,
      MachineStates, Snaps
<1>9. ASSUME NEW n \in Nodes, checkMaster(n)  PROVE TypeOK'
  BY <1>9, GotoType
  DEF TypeOK, etcdVars, cacheVars, queueVars, zVars, dockerVars, boundVars, checkMaster,
      MachineStates, AfterCheck
<1>10. ASSUME NEW n \in Nodes, subscribe(n)  PROVE TypeOK'
  BY <1>10, GotoType
  DEF TypeOK, etcdVars, cacheVars, queueVars, zVars, dockerVars, boundVars, subscribe,
      MachineStates, WaitStates
<1>11. ASSUME NEW n \in Nodes, newSnapsOnMaster(n)  PROVE TypeOK'
  BY <1>11, GotoType
  DEF TypeOK, etcdVars, cacheVars, queueVars, zVars, dockerVars, boundVars, newSnapsOnMaster,
      MachineStates
<1>12. ASSUME NEW n \in Nodes, receiving(n)  PROVE TypeOK'
  <2>1. state' \in [Nodes -> MachineStates] /\ inbox' \in [Nodes -> BOOLEAN]
    BY <1>12, GotoType DEF receiving, MachineStates
  <2>2. stream' \in [Nodes -> Snaps]
    <3>1. stream' = stream \/ \E s \in Snaps : stream' = [stream EXCEPT ![n] = s]
      BY <1>12, ReceivingCases
    <3> QED
      BY <3>1 DEF TypeOK
  <2> QED
    BY <1>12, <2>1, <2>2
    DEF TypeOK, etcdVars, cacheVars, queueVars, zVars, dockerVars, boundVars, receiving
<1>13. ASSUME NEW n \in Nodes, recvSnapshot(n)  PROVE TypeOK'
  <2>1. state' \in [Nodes -> MachineStates] /\ inbox' \in [Nodes -> BOOLEAN]
    BY <1>13, GotoType DEF recvSnapshot, MachineStates, TypeOK
  <2>2. Head(stream[n]) \in Nat /\ Tail(stream[n]) \in Snaps
    <3>1. stream[n] # << >> /\ stream[n] \in Seq(Nat)
      BY <1>13 DEF recvSnapshot, StreamIsOpen, TypeOK, Snaps
    <3> QED
      BY <3>1 DEF Snaps
  <2>3. Append(zSnaps[n], Head(stream[n])) \in Snaps
    BY <1>13, <2>2 DEF TypeOK, Snaps
  <2> QED
    BY <1>13, <2>1, <2>2, <2>3
    DEF TypeOK, etcdVars, cacheVars, queueVars, zVars, dockerVars, boundVars, recvSnapshot
<1>14. ASSUME NEW n \in Nodes, recvAborted(n)  PROVE TypeOK'
  <2>1. state' \in [Nodes -> MachineStates] /\ inbox' \in [Nodes -> BOOLEAN]
    BY <1>14, GotoType DEF recvAborted, MachineStates
  <2>2. offered' \in [Nodes -> Items \cup {NoItem}]
    BY <1>14 DEF recvAborted, Offerable, TypeOK
  <2>3. fsRequests' \in [Nodes -> [Items -> Nat]]
    <3>1. \/ fsRequests' = fsRequests
          \/ \E i \in Items : /\ fsRequests[n][i] > 0
                              /\ fsRequests' = [fsRequests EXCEPT ![n][i] = @ - 1]
      BY <1>14 DEF recvAborted, Offerable
    <3>2. CASE fsRequests' = fsRequests
      BY <3>2 DEF TypeOK
    <3>3. ASSUME NEW i \in Items, fsRequests[n][i] > 0,
                 fsRequests' = [fsRequests EXCEPT ![n][i] = @ - 1]
          PROVE  fsRequests' \in [Nodes -> [Items -> Nat]]
      BY <3>3 DEF TypeOK
    <3> QED
      BY <3>1, <3>2, <3>3
  <2>4. stream' \in [Nodes -> Snaps]
    BY <1>14 DEF recvAborted, TypeOK, Snaps
  <2>5. faults' \in Nat
    BY <1>14 DEF recvAborted, Fault, TypeOK
  <2> QED
    BY <1>14, <2>1, <2>2, <2>3, <2>4, <2>5
    DEF TypeOK, etcdVars, cacheVars, queueVars, zVars, dockerVars, boundVars, recvAborted
<1>15. ASSUME NEW n \in Nodes, handoffUnmount(n)  PROVE TypeOK'
  <2>1. state' \in [Nodes -> MachineStates] /\ inbox' \in [Nodes -> BOOLEAN]
    BY <1>15, GotoType DEF handoffUnmount, MachineStates, HandoffStates
  <2>2. zMounted' \in [Nodes -> BOOLEAN]
    BY <1>15 DEF handoffUnmount, TypeOK
  <2>3. wedged' \in [Nodes -> BOOLEAN]
    BY <1>15 DEF handoffUnmount, TypeOK
  <2>4. faults' \in Nat
    BY <1>15 DEF handoffUnmount, Fault, TypeOK
  <2> QED
    BY <1>15, <2>1, <2>2, <2>3, <2>4
    DEF TypeOK, etcdVars, cacheVars, queueVars, zVars, dockerVars, boundVars, handoffUnmount
<1>16. ASSUME NEW n \in Nodes, handoffSnapshot(n)  PROVE TypeOK'
  <2>1. state' \in [Nodes -> MachineStates] /\ inbox' \in [Nodes -> BOOLEAN]
    BY <1>16, GotoType DEF handoffSnapshot, MachineStates, HandoffStates
  <2>2. acks' \in [Nodes -> SUBSET Ack]
    BY <1>16, RespondType, HandoffItemType
    DEF handoffSnapshot, ResponseNames, HandoffStates, TypeOK
  <2>3. /\ zSnaps' \in [Nodes -> Snaps] /\ fsSnaps' \in [Nodes -> Snaps]
        /\ zDirty' \in [Nodes -> BOOLEAN] /\ updater' \in [Nodes -> {"wait", "set"}]
        /\ nextSnap' \in Nat /\ faults' \in Nat
    BY <1>16, SnapshotType DEF handoffSnapshot
  <2> QED
    BY <1>16, <2>1, <2>2, <2>3
    DEF TypeOK, etcdVars, cacheVars, queueVars, zVars, dockerVars, boundVars, handoffSnapshot
<1>17. ASSUME NEW n \in Nodes, handoffCheck(n)  PROVE TypeOK'
  BY <1>17, GotoType
  DEF TypeOK, etcdVars, cacheVars, queueVars, zVars, dockerVars, boundVars, handoffCheck,
      MachineStates, HandoffStates
<1>18. ASSUME NEW n \in Nodes, handoffNews(n)  PROVE TypeOK'
  BY <1>18
  DEF TypeOK, etcdVars, cacheVars, queueVars, zVars, dockerVars, boundVars, handoffNews,
      MachineStates, HandoffStates
<1>19. ASSUME NEW n \in Nodes, handoffSwitch(n)  PROVE TypeOK'
  <2>1. state' \in [Nodes -> MachineStates] /\ inbox' \in [Nodes -> BOOLEAN]
    BY <1>19, GotoType DEF handoffSwitch, MachineStates
  <2>2. acks' \in [Nodes -> SUBSET Ack]
    BY <1>19, RespondType, HandoffItemType DEF handoffSwitch, ResponseNames, HandoffStates
  <2>3. masters' \in Nodes
    BY <1>19, HandoffItemType DEF handoffSwitch, HandoffStates, TypeOK
  <2>4. watch' \in [Nodes -> Seq(Event)]
    BY <1>19, HandoffItemType, BroadcastType, EventType DEF handoffSwitch, HandoffStates, TypeOK
  <2>5. faults' \in Nat
    BY <1>19 DEF handoffSwitch, Fault, TypeOK
  <2> QED
    BY <1>19, <2>1, <2>2, <2>3, <2>4, <2>5
    DEF TypeOK, etcdVars, cacheVars, queueVars, zVars, dockerVars, boundVars, handoffSwitch
<1>20. ASSUME NEW n \in Nodes, NEW i \in Offerable(n), unhandled(n, i)  PROVE TypeOK'
  BY <1>20, GotoType, TakeType, RespondType
  DEF TypeOK, etcdVars, cacheVars, queueVars, zVars, dockerVars, boundVars, unhandled, Answer,
      MachineStates, AfterCheck, ResponseNames, Offerable
<1>21. ASSUME NEW n \in Nodes, NEW i \in Offerable(n), create(n, i)  PROVE TypeOK'
  <2>1. state' \in [Nodes -> MachineStates] /\ inbox' \in [Nodes -> BOOLEAN]
    BY <1>21, GotoType DEF create, MachineStates
  <2>2. /\ offered' \in [Nodes -> Items \cup {NoItem}]
        /\ fsRequests' \in [Nodes -> [Items -> Nat]]
        /\ wedged' \in [Nodes -> BOOLEAN]
    BY <1>21, TakeType DEF create
  <2>3. /\ zExists' \in [Nodes -> BOOLEAN] /\ zMounted' \in [Nodes -> BOOLEAN]
        /\ faults' \in Nat
    BY <1>21 DEF create, Fault, TypeOK
  <2> QED
    BY <1>21, <2>1, <2>2, <2>3
    DEF TypeOK, etcdVars, cacheVars, queueVars, zVars, dockerVars, boundVars, create
<1>22. ASSUME NEW n \in Nodes, NEW i \in Offerable(n), mount(n, i)  PROVE TypeOK'
  <2>1. state' \in [Nodes -> MachineStates] /\ inbox' \in [Nodes -> BOOLEAN]
    BY <1>22, GotoType DEF mount, MachineStates
  <2>2. /\ offered' \in [Nodes -> Items \cup {NoItem}]
        /\ fsRequests' \in [Nodes -> [Items -> Nat]]
        /\ wedged' \in [Nodes -> BOOLEAN]
    BY <1>22, TakeType DEF mount
  <2>3. zMounted' \in [Nodes -> BOOLEAN]
    BY <1>22 DEF mount, TypeOK
  <2>4. faults' \in Nat
    BY <1>22 DEF mount, Fault, TypeOK
  <2> QED
    BY <1>22, <2>1, <2>2, <2>3, <2>4
    DEF TypeOK, etcdVars, cacheVars, queueVars, zVars, dockerVars, boundVars, mount
<1>23. ASSUME NEW n \in Nodes, NEW i \in Offerable(n), unmount(n, i)  PROVE TypeOK'
  <2>1. state' \in [Nodes -> MachineStates] /\ inbox' \in [Nodes -> BOOLEAN]
    BY <1>23, GotoType DEF unmount, MachineStates
  <2>2. /\ offered' \in [Nodes -> Items \cup {NoItem}]
        /\ fsRequests' \in [Nodes -> [Items -> Nat]]
        /\ wedged' \in [Nodes -> BOOLEAN]
    BY <1>23, TakeType DEF unmount
  <2>3. zMounted' \in [Nodes -> BOOLEAN]
    BY <1>23 DEF unmount, TypeOK
  <2>4. faults' \in Nat
    BY <1>23 DEF unmount, Fault, TypeOK
  <2> QED
    BY <1>23, <2>1, <2>2, <2>3, <2>4
    DEF TypeOK, etcdVars, cacheVars, queueVars, zVars, dockerVars, boundVars, unmount
<1>24. ASSUME NEW n \in Nodes, NEW i \in Offerable(n), commit(n, i)  PROVE TypeOK'
  BY <1>24, GotoType, TakeType, SnapshotType, RespondType
  DEF TypeOK, etcdVars, cacheVars, queueVars, zVars, dockerVars, boundVars, commit,
      MachineStates, ResponseNames, Offerable
<1>25. ASSUME NEW n \in Nodes, NEW i \in Offerable(n), rollback(n, i)  PROVE TypeOK'
  <2>1. state' \in [Nodes -> MachineStates] /\ inbox' \in [Nodes -> BOOLEAN]
    BY <1>25, GotoType DEF rollback, MachineStates
  <2>2. /\ offered' \in [Nodes -> Items \cup {NoItem}]
        /\ fsRequests' \in [Nodes -> [Items -> Nat]]
        /\ wedged' \in [Nodes -> BOOLEAN]
    BY <1>25, TakeType DEF rollback
  <2>3. acks' \in [Nodes -> SUBSET Ack]
    BY <1>25, RespondType DEF rollback, ResponseNames, Offerable
  <2> DEFINE to == requests[i.id].snap
             z == SubSeq(zSnaps[n], 1, IndexOf(zSnaps[n], to))
             f == rollbackSlice(fsSnaps[n], to)
  <2>4. z \in Snaps /\ f \in Snaps
    BY SliceType DEF TypeOK
  <2>5. zSnaps' \in [Nodes -> Snaps] /\ fsSnaps' \in [Nodes -> Snaps]
    <3>1. \/ zSnaps' = zSnaps /\ fsSnaps' = fsSnaps
          \/ zSnaps' = [zSnaps EXCEPT ![n] = z] /\ fsSnaps' = [fsSnaps EXCEPT ![n] = f]
      BY <1>25 DEF rollback
    <3>2. zSnaps \in [Nodes -> Snaps] /\ fsSnaps \in [Nodes -> Snaps]
      BY DEF TypeOK
    <3> HIDE DEF z, f
    <3> QED
      BY <2>4, <3>1, <3>2
  <2>6. zDirty' \in [Nodes -> BOOLEAN]
    BY <1>25 DEF rollback, TypeOK
  <2>7. updater' \in [Nodes -> {"wait", "set"}]
    <3>1. updater' = updater \/ updater' = [updater EXCEPT ![n] = "set"]
      BY <1>25 DEF rollback
    <3> QED
      BY <3>1 DEF TypeOK
  <2>8. faults' \in Nat
    BY <1>25 DEF rollback, Fault, TypeOK
  <2> QED
    BY <1>25, <2>1, <2>2, <2>3, <2>5, <2>6, <2>7, <2>8
    DEF TypeOK, etcdVars, cacheVars, queueVars, zVars, dockerVars, boundVars, rollback
<1>26. ASSUME NEW n \in Nodes, NEW i \in Offerable(n), move(n, i)  PROVE TypeOK'
  <2>1. state' \in [Nodes -> MachineStates] /\ inbox' \in [Nodes -> BOOLEAN]
    BY <1>26, GotoType DEF move, MachineStates, HandoffStates
  <2>2. /\ offered' \in [Nodes -> Items \cup {NoItem}]
        /\ fsRequests' \in [Nodes -> [Items -> Nat]]
        /\ wedged' \in [Nodes -> BOOLEAN]
    BY <1>26, TakeType DEF move
  <2>3. acks' \in [Nodes -> SUBSET Ack]
    BY <1>26, RespondType DEF move, ResponseNames, Offerable, TypeOK
  <2>4. i.id \in 0 .. MaxReqs
    BY BoundsAssumption DEF Offerable, Items
  <2>5. handoffRequest' \in [Nodes -> 0 .. MaxReqs]
    BY <1>26, <2>4 DEF move, TypeOK
  <2>6. faults' \in Nat
    BY <1>26 DEF move, Fault, TypeOK
  <2> QED
    BY <1>26, <2>1, <2>2, <2>3, <2>5, <2>6
    DEF TypeOK, etcdVars, cacheVars, queueVars, zVars, dockerVars, boundVars, move
<1>27. ASSUME NEW n \in Procurers, procureLocal(n)  PROVE TypeOK'
  <2>1. n \in Nodes
    BY <1>27, NodesAssumption
  <2>2. procure' \in [Nodes -> [at : {"idle", "moving", "moved"}, id : 0 .. MaxReqs]]
    BY <1>27, <2>1, BoundsAssumption DEF procureLocal, GivePath, Idle, TypeOK
  <2>3. container' \in [Nodes -> BOOLEAN]
    BY <1>27, <2>1 DEF procureLocal, GivePath, TypeOK
  <2> QED
    BY <1>27, <2>1, <2>2, <2>3
    DEF TypeOK, etcdVars, cacheVars, queueVars, zVars, dockerVars, boundVars, procureLocal,
        DockerOnly
<1>28. ASSUME NEW n \in Procurers, procureRemote(n)  PROVE TypeOK'
  <2>1. n \in Nodes
    BY <1>28, NodesAssumption
  <2>2. Len(requests) + 1 \in 1 .. MaxReqs
    BY <1>28, BoundsAssumption DEF procureRemote, globalFsRequest, TypeOK
  <2>3. procure' \in [Nodes -> [at : {"idle", "moving", "moved"}, id : 0 .. MaxReqs]]
    BY <1>28, <2>1, <2>2 DEF procureRemote, TypeOK
  <2>4. requests' \in Seq(Request) /\ Len(requests') =< MaxReqs /\ watch' \in [Nodes -> Seq(Event)]
    BY <1>28, <2>1, <2>2, RequestType, NilSnapAssumption DEF procureRemote
  <2> QED
    BY <1>28, <2>1, <2>2, <2>3, <2>4
    DEF TypeOK, etcdVars, cacheVars, queueVars, zVars, dockerVars, boundVars, procureRemote,
        globalFsRequest
<1>29. ASSUME NEW n \in Procurers, procureResponse(n)  PROVE TypeOK'
  <2>1. n \in Nodes
    BY <1>29, NodesAssumption
  <2>2. procure' \in [Nodes -> [at : {"idle", "moving", "moved"}, id : 0 .. MaxReqs]]
    BY <1>29, <2>1, BoundsAssumption DEF procureResponse, Idle, TypeOK
  <2> QED
    BY <1>29, <2>1, <2>2
    DEF TypeOK, etcdVars, cacheVars, queueVars, zVars, dockerVars, boundVars, procureResponse,
        DockerOnly
<1>30. ASSUME NEW n \in Procurers, procureTimeout(n)  PROVE TypeOK'
  <2>1. n \in Nodes
    BY <1>30, NodesAssumption
  <2>2. procure' \in [Nodes -> [at : {"idle", "moving", "moved"}, id : 0 .. MaxReqs]]
    BY <1>30, <2>1, BoundsAssumption DEF procureTimeout, Idle, TypeOK
  <2> QED
    BY <1>30, <2>1, <2>2
    DEF TypeOK, etcdVars, cacheVars, queueVars, zVars, dockerVars, boundVars, procureTimeout,
        DockerOnly
<1>31. ASSUME NEW n \in Procurers, procureActive(n)  PROVE TypeOK'
  <2>1. n \in Nodes
    BY <1>31, NodesAssumption
  <2>2. procure' \in [Nodes -> [at : {"idle", "moving", "moved"}, id : 0 .. MaxReqs]]
    BY <1>31, <2>1, BoundsAssumption DEF procureActive, GivePath, Idle, TypeOK
  <2>3. container' \in [Nodes -> BOOLEAN]
    BY <1>31, <2>1 DEF procureActive, GivePath, TypeOK
  <2> QED
    BY <1>31, <2>1, <2>2, <2>3
    DEF TypeOK, etcdVars, cacheVars, queueVars, zVars, dockerVars, boundVars, procureActive,
        DockerOnly
<1>32. ASSUME NEW n \in Procurers, containerWrites(n)  PROVE TypeOK'
  BY <1>32, NodesAssumption
  DEF TypeOK, etcdVars, cacheVars, queueVars, zVars, dockerVars, boundVars, containerWrites,
      DockerOnly
<1>33. ASSUME NEW n \in Procurers, containerStops(n)  PROVE TypeOK'
  BY <1>33, NodesAssumption
  DEF TypeOK, etcdVars, cacheVars, queueVars, zVars, dockerVars, boundVars, containerStops,
      DockerOnly
<1>34. CASE Commit
  <2>1. requests' \in Seq(Request) /\ Len(requests') =< MaxReqs /\ watch' \in [Nodes -> Seq(Event)]
    BY <1>34, RequestType, NilSnapAssumption DEF Commit
  <2> QED
    BY <1>34, <2>1
    DEF TypeOK, etcdVars, cacheVars, queueVars, zVars, dockerVars, boundVars, Commit,
        globalFsRequest
<1>35. CASE Rollback
  <2>1. PICK id \in 1 .. nextSnap - 1 : globalFsRequest("rollback", NoNode, id)
    BY <1>35 DEF Rollback
  <2>2. id \in Nat
    BY DEF TypeOK
  <2>3. requests' \in Seq(Request) /\ Len(requests') =< MaxReqs /\ watch' \in [Nodes -> Seq(Event)]
    BY <2>1, <2>2, RequestType
  <2> QED
    BY <1>35, <2>1, <2>3
    DEF TypeOK, etcdVars, cacheVars, queueVars, zVars, dockerVars, boundVars, Rollback,
        globalFsRequest
<1>37. ASSUME NEW n \in Nodes, leaveActive(n)  PROVE TypeOK'
  BY <1>37, GotoType
  DEF TypeOK, etcdVars, cacheVars, queueVars, zVars, dockerVars, boundVars, leaveActive,
      MachineStates
<1>36. CASE UNCHANGED vars
  BY <1>36 DEF TypeOK, etcdVars, cacheVars, queueVars, zVars, dockerVars, boundVars, vars
<1> QED
  BY <1>1, <1>2, <1>3, <1>4, <1>5, <1>6, <1>7, <1>8, <1>9, <1>10, <1>11, <1>12, <1>13, <1>14,
     <1>15, <1>16, <1>17, <1>18, <1>19, <1>20, <1>21, <1>22, <1>23, <1>24, <1>25, <1>26, <1>27,
     <1>28, <1>29, <1>30, <1>31, <1>32, <1>33, <1>34, <1>35, <1>36, <1>37
  DEF Next, Watcher, Machine, Docker

-----------------------------------------------------------------------------
(* What an action leaves alone stays known.                                *)
LEMMA KnownFrame ==
  ASSUME KnownRequests, StreamIsOpen, requests' = requests
  PROVE  /\ MovesHaveTargets'
         /\ watch' = watch => EventsAreKnown'
         /\ UNCHANGED <<fsRequests, offered>> => ItemsAreKnown'
         /\ UNCHANGED <<state, handoffRequest>> => HandoffIsKnown'
         /\ UNCHANGED <<state, stream>> => StreamIsOpen'
BY DEF KnownRequests, MovesHaveTargets, EventsAreKnown, ItemsAreKnown, HandoffIsKnown,
       StreamIsOpen

(* A stream is open only in the middle of receivingState.                  *)
LEMMA GotoStream ==
  ASSUME TypeOK, StreamIsOpen, NEW n \in Nodes, NEW next, Goto(n, next), stream' = stream,
         state[n] # "recv", next # "recv"
  PROVE  StreamIsOpen'
BY DEF TypeOK, StreamIsOpen, Goto

(* A new request changes nothing of what is known of the others.           *)
LEMMA RequestKnown ==
  ASSUME TypeInv, NEW op \in {"move", "snapshot", "rollback"}, NEW node \in Nodes \cup {NoNode},
         NEW snap \in Nat, globalFsRequest(op, node, snap), op = "move" => node \in Nodes
  PROVE  KnownRequests' /\ StreamIsOpen'
<1> USE TypeInv DEF TypeInv, KnownRequests
<1>1. /\ requests \in Seq(Request) /\ Len(requests') = Len(requests) + 1
      /\ requests' = Append(requests, [op |-> op, target |-> node, snap |-> snap])
  BY RequestType DEF TypeOK
<1>2. \A id \in 1 .. Len(requests) : requests'[id] = requests[id]
  BY <1>1
<1>3. MovesHaveTargets'
  BY <1>1, <1>2 DEF MovesHaveTargets
<1>4. EventsAreKnown'
  <2>1. RequestEvent(Len(requests) + 1) \in Event /\ RequestEvent(Len(requests) + 1).id = Len(requests) + 1
    BY <1>1, EventType DEF RequestEvent, EtcdEvent
  <2> QED
    BY <1>1, <2>1, BroadcastKnown DEF globalFsRequest
<1>5. ItemsAreKnown'
  <2>1. \A n \in Nodes : offered[n].kind = "request" => offered[n].id \in Nat
    BY DEF TypeOK, Items, NoItem
  <2>2. Len(requests) \in Nat
    BY <1>1
  <2> QED
    BY <1>1, <2>1, <2>2 DEF ItemsAreKnown, globalFsRequest, queueVars
<1>6. HandoffIsKnown' /\ StreamIsOpen'
  BY <1>1, <1>2 DEF HandoffIsKnown, StreamIsOpen, globalFsRequest
<1> QED
  BY <1>3, <1>4, <1>5, <1>6

(* Every action keeps the request ids known and the streams open.          *)
LEMMA KnownNext == TypeInv /\ [Next]_vars => KnownRequests' /\ StreamIsOpen'
<1> SUFFICES ASSUME TypeInv, [Next]_vars PROVE KnownRequests' /\ StreamIsOpen'
  OBVIOUS
<1> USE TypeInv, KnownFrame DEF TypeInv, KnownRequests
<1>1. ASSUME NEW n \in Nodes, updateMaster(n)  PROVE KnownRequests' /\ StreamIsOpen'
  <2>1. EventsAreKnown'
    BY <1>1, ConsumeKnown DEF updateMaster, etcdVars, NextEvent
  <2>2. ItemsAreKnown'
    <3>1. LocalItem("mount") \in Items /\ LocalItem("unmount") \in Items
      BY DEF LocalItem, Items
    <3>2. LocalItem("mount").kind # "request" /\ LocalItem("unmount").kind # "request"
      BY DEF LocalItem
    <3> QED
      BY <1>1, <3>1, <3>2, DispatchKnown DEF updateMaster, etcdVars
  <2>3. HandoffIsKnown' /\ StreamIsOpen'
    BY <1>1 DEF updateMaster, etcdVars, HandoffIsKnown, StreamIsOpen, HandoffStates, TypeOK
  <2> QED
    BY <1>1, <2>1, <2>2, <2>3 DEF updateMaster, etcdVars
<1>2. ASSUME NEW n \in Nodes, maybeDispatchEvent(n)  PROVE KnownRequests' /\ StreamIsOpen'
  <2>1. EventsAreKnown' /\ Head(watch[n]).id \in 1 .. Len(requests)
    BY <1>2, ConsumeKnown DEF maybeDispatchEvent, etcdVars, NextEvent
  <2>2. /\ RequestItem(Head(watch[n]).id) \in Items
        /\ RequestItem(Head(watch[n]).id).id =< Len(requests)
    BY <2>1, BoundsAssumption DEF RequestItem, Items, TypeOK
  <2>3. ItemsAreKnown'
    BY <1>2, <2>2, DispatchKnown DEF maybeDispatchEvent, etcdVars
  <2> QED
    BY <1>2, <2>1, <2>3 DEF maybeDispatchEvent, etcdVars
<1>3. ASSUME NEW n \in Nodes, updateSnapshots(n)  PROVE KnownRequests' /\ StreamIsOpen'
  BY <1>3, ConsumeKnown
  DEF etcdVars, cacheVars, queueVars, zVars, dockerVars, boundVars, updateSnapshots, NextEvent
<1>4. ASSUME NEW n \in Nodes, Reconnect(n)  PROVE KnownRequests' /\ StreamIsOpen'
  <2>1. EventsAreKnown'
    <3>1. \A m \in Nodes : watch'[m] = IF m = n THEN Fetched ELSE watch[m]
      BY <1>4 DEF Reconnect, TypeOK
    <3> QED
      BY <1>4, <3>1, FetchedType DEF Reconnect, etcdVars, EventsAreKnown

  <2> QED
    BY <1>4, <2>1 DEF Reconnect, etcdVars, queueVars
<1>5. ASSUME NEW n \in Nodes, Restart(n)  PROVE KnownRequests' /\ StreamIsOpen'
  <2>1. EventsAreKnown'
    <3>1. \A m \in Nodes : watch'[m] = IF m = n THEN Fetched ELSE watch[m]
      BY <1>5 DEF Restart, TypeOK
    <3> QED
      BY <1>5, <3>1, FetchedType DEF Restart, etcdVars, EventsAreKnown

  <2>2. ItemsAreKnown'
    <3>1. \A id \in 1 .. MaxReqs : RequestItem(id) \in Items
      BY DEF RequestItem, Items
    <3> QED
      BY <1>5, <3>1 DEF Restart, etcdVars, ItemsAreKnown, NoItem, TypeOK
  <2>3. HandoffIsKnown' /\ StreamIsOpen'
    BY <1>5 DEF Restart, etcdVars, HandoffIsKnown, StreamIsOpen, HandoffStates, TypeOK
  <2> QED
    BY <1>5, <2>1, <2>2, <2>3 DEF Restart, etcdVars
<1>6. ASSUME NEW n \in Nodes, updateEtcdAboutSnapshots(n)  PROVE KnownRequests' /\ StreamIsOpen'
  <2>1. EventsAreKnown'
    <3>1. fsSnaps[n] \in Snaps /\ Len(requests) \in Nat
      BY DEF TypeOK
    <3>2. /\ SnapshotsEvent(n, fsSnaps[n]) \in Event
          /\ SnapshotsEvent(n, fsSnaps[n]).type = "snapshots"
      BY <3>1, EventType DEF SnapshotsEvent, EtcdEvent
    <3> QED
      BY <1>6, <3>1, <3>2, BroadcastKnown DEF updateEtcdAboutSnapshots
  <2> QED
    BY <1>6, <2>1 DEF updateEtcdAboutSnapshots, queueVars
<1>7. ASSUME NEW n \in Nodes, setResponse(n)  PROVE KnownRequests' /\ StreamIsOpen'
  BY <1>7 DEF etcdVars, cacheVars, queueVars, zVars, dockerVars, boundVars, setResponse
<1>8. ASSUME NEW n \in Nodes, discover(n)  PROVE KnownRequests' /\ StreamIsOpen'
  BY <1>8, GotoKnown, GotoStream
  DEF etcdVars, cacheVars, queueVars, zVars, dockerVars, boundVars, discover, HandoffStates
<1>9. ASSUME NEW n \in Nodes, checkMaster(n)  PROVE KnownRequests' /\ StreamIsOpen'
  BY <1>9, GotoKnown, GotoStream
  DEF etcdVars, cacheVars, queueVars, zVars, dockerVars, boundVars, checkMaster, HandoffStates,
      AfterCheck
<1>10. ASSUME NEW n \in Nodes, subscribe(n)  PROVE KnownRequests' /\ StreamIsOpen'
  BY <1>10, GotoKnown, GotoStream
  DEF etcdVars, cacheVars, queueVars, zVars, dockerVars, boundVars, subscribe, HandoffStates
<1>11. ASSUME NEW n \in Nodes, newSnapsOnMaster(n)  PROVE KnownRequests' /\ StreamIsOpen'
  BY <1>11, GotoKnown, GotoStream
  DEF etcdVars, cacheVars, queueVars, zVars, dockerVars, boundVars, newSnapsOnMaster,
      HandoffStates, WaitStates
<1>12. ASSUME NEW n \in Nodes, receiving(n)  PROVE KnownRequests' /\ StreamIsOpen'
  <2>1. HandoffIsKnown'
    BY <1>12, GotoKnown DEF receiving, etcdVars, HandoffStates
  <2>2. StreamIsOpen'
    <3>1. CASE stream' = stream /\ \E next \in {"discovering", "backoff"} : Goto(n, next)
      BY <1>12, <3>1, GotoStream DEF receiving
    <3>2. ASSUME NEW t \in Snaps \ {<< >>}, stream' = [stream EXCEPT ![n] = t], Goto(n, "recv")
          PROVE  StreamIsOpen'
      BY <3>2 DEF StreamIsOpen, Goto, TypeOK
    <3> QED
      BY <1>12, <3>1, <3>2, ReceivingCases
  <2> QED
    BY <1>12, <2>1, <2>2 DEF receiving, etcdVars, queueVars
<1>13. ASSUME NEW n \in Nodes, recvSnapshot(n)  PROVE KnownRequests' /\ StreamIsOpen'
  <2>1. HandoffIsKnown'
    BY <1>13, GotoKnown DEF recvSnapshot, etcdVars, HandoffStates, HandoffIsKnown
  <2>2. StreamIsOpen'
    <3>1. stream[n] \in Seq(Nat) /\ stream[n] # << >>
      BY <1>13 DEF recvSnapshot, StreamIsOpen, TypeOK, Snaps
    <3>2. Len(stream[n]) = 1 <=> Tail(stream[n]) = << >>
      <4>1. Tail(stream[n]) \in Seq(Nat) /\ Len(Tail(stream[n])) = Len(stream[n]) - 1
        BY <3>1, HeadTailProperties
      <4>2. Tail(stream[n]) = << >> <=> Len(Tail(stream[n])) = 0
        BY <4>1, EmptySeq
      <4> QED
        BY <3>1, <4>1, <4>2
    <3>3. \A m \in Nodes : stream'[m] = IF m = n THEN Tail(stream[n]) ELSE stream[m]
      BY <1>13 DEF recvSnapshot, TypeOK
    <3>4. \A m \in Nodes : state'[m] = IF m = n /\ Len(stream[n]) = 1 THEN "discovering" ELSE state[m]
      BY <1>13 DEF recvSnapshot, Goto, TypeOK
    <3>5. state[n] = "recv"
      BY <1>13 DEF recvSnapshot
    <3> QED
      BY <3>2, <3>3, <3>4, <3>5 DEF StreamIsOpen
  <2> QED
    BY <1>13, <2>1, <2>2 DEF recvSnapshot, etcdVars, queueVars
<1>14. ASSUME NEW n \in Nodes, recvAborted(n)  PROVE KnownRequests' /\ StreamIsOpen'
  <2>1. HandoffIsKnown'
    BY <1>14, GotoKnown DEF recvAborted, etcdVars, HandoffStates
  <2>2. StreamIsOpen'
    BY <1>14 DEF recvAborted, Goto, StreamIsOpen, TypeOK
  <2>3. ItemsAreKnown'
    <3>1. CASE UNCHANGED <<fsRequests, offered>>
      BY <1>14, <3>1 DEF recvAborted, etcdVars
    <3>2. ASSUME NEW i \in Offerable(n), offered' = [offered EXCEPT ![n] = i],
                 fsRequests' = IF offered[n] = NoItem
                                 THEN [fsRequests EXCEPT ![n][i] = @ - 1] ELSE fsRequests
          PROVE  ItemsAreKnown'
      BY <1>14, <3>2, OfferKnown DEF recvAborted, etcdVars
    <3> QED
      BY <1>14, <3>1, <3>2 DEF recvAborted
  <2> QED
    BY <1>14, <2>1, <2>2, <2>3 DEF recvAborted, etcdVars
<1>15. ASSUME NEW n \in Nodes, handoffUnmount(n)  PROVE KnownRequests' /\ StreamIsOpen'
  BY <1>15, GotoKnown, GotoStream
  DEF etcdVars, cacheVars, queueVars, zVars, dockerVars, boundVars, handoffUnmount,
      HandoffStates
<1>16. ASSUME NEW n \in Nodes, handoffSnapshot(n)  PROVE KnownRequests' /\ StreamIsOpen'
  BY <1>16, GotoKnown, GotoStream
  DEF etcdVars, cacheVars, queueVars, zVars, dockerVars, boundVars, handoffSnapshot,
      HandoffStates
<1>17. ASSUME NEW n \in Nodes, handoffCheck(n)  PROVE KnownRequests' /\ StreamIsOpen'
  BY <1>17, GotoKnown, GotoStream
  DEF etcdVars, cacheVars, queueVars, zVars, dockerVars, boundVars, handoffCheck, HandoffStates
<1>18. ASSUME NEW n \in Nodes, handoffNews(n)  PROVE KnownRequests' /\ StreamIsOpen'
  <2>1. HandoffIsKnown'
    BY <1>18 DEF handoffNews, etcdVars, HandoffIsKnown, HandoffStates, TypeOK
  <2>2. StreamIsOpen'
    BY <1>18 DEF handoffNews, StreamIsOpen, TypeOK
  <2> QED
    BY <1>18, <2>1, <2>2 DEF handoffNews, etcdVars, queueVars
<1>19. ASSUME NEW n \in Nodes, handoffSwitch(n)  PROVE KnownRequests' /\ StreamIsOpen'
  <2>1. HandoffIsKnown' /\ StreamIsOpen'
    BY <1>19, GotoKnown, GotoStream DEF handoffSwitch, HandoffStates
  <2>2. EventsAreKnown'
    <3>1. target(n) \in Nodes /\ Len(requests) \in Nat
      BY <1>19, HandoffItemType DEF handoffSwitch, HandoffStates, TypeOK
    <3>2. MasterEvent(target(n)) \in Event /\ MasterEvent(target(n)).type = "masters"
      BY <3>1, EventType DEF MasterEvent, EtcdEvent
    <3> QED
      BY <1>19, <3>1, <3>2, BroadcastKnown DEF handoffSwitch
  <2> QED
    BY <1>19, <2>1, <2>2 DEF handoffSwitch, queueVars
<1>20. ASSUME NEW n \in Nodes, NEW i \in Offerable(n), unhandled(n, i)
      PROVE  KnownRequests' /\ StreamIsOpen'
  BY <1>20, GotoKnown, GotoStream, TakeKnown
  DEF etcdVars, cacheVars, queueVars, zVars, dockerVars, boundVars, unhandled, Answer,
      HandoffStates, AfterCheck
<1>21. ASSUME NEW n \in Nodes, NEW i \in Offerable(n), create(n, i)
      PROVE  KnownRequests' /\ StreamIsOpen'
  BY <1>21, GotoKnown, GotoStream, TakeKnown
  DEF etcdVars, cacheVars, queueVars, zVars, dockerVars, boundVars, create, HandoffStates
<1>22. ASSUME NEW n \in Nodes, NEW i \in Offerable(n), mount(n, i)
      PROVE  KnownRequests' /\ StreamIsOpen'
  BY <1>22, GotoKnown, GotoStream, TakeKnown
  DEF etcdVars, cacheVars, queueVars, zVars, dockerVars, boundVars, mount, HandoffStates
<1>23. ASSUME NEW n \in Nodes, NEW i \in Offerable(n), unmount(n, i)
      PROVE  KnownRequests' /\ StreamIsOpen'
  BY <1>23, GotoKnown, GotoStream, TakeKnown
  DEF etcdVars, cacheVars, queueVars, zVars, dockerVars, boundVars, unmount, HandoffStates
<1>24. ASSUME NEW n \in Nodes, NEW i \in Offerable(n), commit(n, i)
      PROVE  KnownRequests' /\ StreamIsOpen'
  BY <1>24, GotoKnown, GotoStream, TakeKnown
  DEF etcdVars, cacheVars, queueVars, zVars, dockerVars, boundVars, commit, HandoffStates
<1>25. ASSUME NEW n \in Nodes, NEW i \in Offerable(n), rollback(n, i)
      PROVE  KnownRequests' /\ StreamIsOpen'
  BY <1>25, GotoKnown, GotoStream, TakeKnown
  DEF etcdVars, cacheVars, queueVars, zVars, dockerVars, boundVars, rollback, HandoffStates
<1>26. ASSUME NEW n \in Nodes, NEW i \in Offerable(n), move(n, i)
      PROVE  KnownRequests' /\ StreamIsOpen'
  <2>1. ItemsAreKnown' /\ (i.kind = "request" => i.id \in 1 .. Len(requests))
    BY <1>26, TakeKnown DEF move, etcdVars
  <2>2. StreamIsOpen'
    BY <1>26, GotoStream DEF move
  <2>3. i.kind = "request" /\ requests[i.id].op = "move"
    BY <1>26 DEF move, opOf, Offerable, Items
  <2>4. HandoffIsKnown'
    <3>1. CASE Goto(n, "backoff") /\ UNCHANGED handoffRequest
      BY <1>26, <3>1, GotoKnown DEF move, etcdVars, HandoffStates
    <3>2. CASE handoffRequest' = [handoffRequest EXCEPT ![n] = i.id] /\ Goto(n, "handoff")
      BY <1>26, <2>1, <2>3, <3>2 DEF move, Goto, etcdVars, HandoffIsKnown, TypeOK
    <3> QED
      BY <1>26, <3>1, <3>2 DEF move
  <2> QED
    BY <1>26, <2>1, <2>2, <2>4 DEF move, etcdVars
<1>27. ASSUME NEW n \in Procurers, procureLocal(n)  PROVE KnownRequests' /\ StreamIsOpen'
  BY <1>27
  DEF etcdVars, cacheVars, queueVars, zVars, dockerVars, boundVars, procureLocal, DockerOnly
<1>28. ASSUME NEW n \in Procurers, procureRemote(n)  PROVE KnownRequests' /\ StreamIsOpen'
  BY <1>28, RequestKnown, NodesAssumption, NilSnapAssumption
  DEF etcdVars, cacheVars, queueVars, zVars, dockerVars, boundVars, procureRemote
<1>29. ASSUME NEW n \in Procurers, procureResponse(n)  PROVE KnownRequests' /\ StreamIsOpen'
  BY <1>29
  DEF etcdVars, cacheVars, queueVars, zVars, dockerVars, boundVars, procureResponse, DockerOnly
<1>30. ASSUME NEW n \in Procurers, procureTimeout(n)  PROVE KnownRequests' /\ StreamIsOpen'
  BY <1>30
  DEF etcdVars, cacheVars, queueVars, zVars, dockerVars, boundVars, procureTimeout, DockerOnly
<1>31. ASSUME NEW n \in Procurers, procureActive(n)  PROVE KnownRequests' /\ StreamIsOpen'
  BY <1>31
  DEF etcdVars, cacheVars, queueVars, zVars, dockerVars, boundVars, procureActive, DockerOnly
<1>32. ASSUME NEW n \in Procurers, containerWrites(n)  PROVE KnownRequests' /\ StreamIsOpen'
  BY <1>32
  DEF etcdVars, cacheVars, queueVars, zVars, dockerVars, boundVars, containerWrites, DockerOnly
<1>33. ASSUME NEW n \in Procurers, containerStops(n)  PROVE KnownRequests' /\ StreamIsOpen'
  BY <1>33
  DEF etcdVars, cacheVars, queueVars, zVars, dockerVars, boundVars, containerStops, DockerOnly
<1>34. CASE Commit
  BY <1>34, RequestKnown, NilSnapAssumption
  DEF etcdVars, cacheVars, queueVars, zVars, dockerVars, boundVars, Commit
<1>35. CASE Rollback
  <2>1. PICK id \in 1 .. nextSnap - 1 : globalFsRequest("rollback", NoNode, id)
    BY <1>35 DEF Rollback
  <2>2. id \in Nat
    BY DEF TypeOK
  <2> QED
    BY <2>1, <2>2, RequestKnown
<1>37. ASSUME NEW n \in Nodes, leaveActive(n)  PROVE KnownRequests' /\ StreamIsOpen'
  BY <1>37, GotoKnown, GotoStream
  DEF etcdVars, cacheVars, queueVars, zVars, dockerVars, boundVars, leaveActive, HandoffStates
<1>36. CASE UNCHANGED vars
  BY <1>36 DEF etcdVars, cacheVars, queueVars, zVars, dockerVars, boundVars, vars
<1> QED
  BY <1>1, <1>2, <1>3, <1>4, <1>5, <1>6, <1>7, <1>8, <1>9, <1>10, <1>11, <1>12, <1>13, <1>14,
     <1>15, <1>16, <1>17, <1>18, <1>19, <1>20, <1>21, <1>22, <1>23, <1>24, <1>25, <1>26, <1>27,
     <1>28, <1>29, <1>30, <1>31, <1>32, <1>33, <1>34, <1>35, <1>36, <1>37
  DEF Next, Watcher, Machine, Docker

(* Every variable keeps its type, whatever the nodes, bounds and order of  *)
(* events: no action reads a request, an event or a stream that is not     *)
(* there, and a handoff has a node to hand off to.                         *)
THEOREM TypeCorrect == Spec => []TypeOK
<1>1. TypeInv /\ [Next]_vars => TypeInv'
  BY TypeOKNext, KnownNext DEF TypeInv
<1>2. TypeInv => TypeOK
  BY DEF TypeInv
<1> QED
  BY TypeInit, <1>1, <1>2, PTL DEF Spec
=============================================================================
