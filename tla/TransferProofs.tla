---------------------------- MODULE TransferProofs ----------------------------
(***************************************************************************)
(* What a transfer counts as delivered is in the destination's pool, and a *)
(* machine is active only on a mounted filesystem: invariants of Transfer  *)
(* for paths of any length and any number of transfers, retries, commits,  *)
(* containers and failures.                                                *)
(***************************************************************************)
EXTENDS Transfer, SnapshotLogicProofs, FiniteSetTheorems

(***************************************************************************)
(* The strengthening.  Whatever list a server has of a filesystem, in      *)
(* memory, in etcd, on its way from etcd or in its cache, has snapshots of *)
(* the pool only (a cache that has no entry for it aside).  Nothing has    *)
(* been heard of a filesystem that is not mounted when its machine is in   *)
(* missingState or, from there, about to decide on the early exits of      *)
(* pushPeerState: the cache has an empty list and so has all that is on    *)
(* its way, so that the snapshot of the "peer-transfer" event is not found.*)
(***************************************************************************)
Listed(f) ==
  /\ ToSet(f.memory) \subseteq ToSet(f.pool) /\ ToSet(f.etcd) \subseteq ToSet(f.pool)
  /\ \A n \in 1 .. Len(f.echo) : ToSet(f.echo[n]) \subseteq ToSet(f.pool)
  /\ ToSet(f.cache) \subseteq ToSet(f.pool) \cup {NilSnap}

Unheard(f) ==
  f.cache = << >> /\ ~f.loading /\ \A n \in 1 .. Len(f.echo) : f.echo[n] = << >>

Early == {"missing", "pushPeerStart"}

Sound(f) ==
  /\ Listed(f)
  /\ f.news # {} => f.state \in PushPeerState
  /\ f.state = "active" => f.mounted
  /\ f.state \in Early => f.mounted \/ Unheard(f)
  /\ f.arrived > 0 \/ f.loading => f.pool # << >>

(* Where the snapshots of transfer record t go.                            *)
Dest(t) == IF t.dir = "push" THEN Peer(t.by) ELSE Peer(Peer(t.by))

(* Job j of machine k of c, with its transfer record t: the transfer was   *)
(* asked of this machine; the stages before its own have been counted; and *)
(* the snapshot that an open stream is to bring is still in the stream or  *)
(* in the pool.                                                            *)
Working(j, c, k, t, table) ==
  /\ j.at # "none" /\ j.stage \in 1 .. k /\ j.dir = t.dir
  /\ t.by = c /\ t.fs = k /\ t.client # "none"
  /\ Len(t.goal) = (IF j.at = "applied" THEN j.stage ELSE j.stage - 1)
  /\ j.at = "stream" => j.to \in ToSet(j.left) \cup ToSet(table[Dest(t)][j.stage].pool)

JobsInv ==
  \A c \in Clusters, k \in Filesystems :
    /\ (fs[c][k].state = "initiator") <=> (job[c][k].id \in Transfers)
    /\ job[c][k].at # "none" => job[c][k].id \in Transfers
    /\ job[c][k].id \in Transfers =>
         Working(job[c][k], c, k, transfer[job[c][k].id], fs)

(* A transfer event on its way is of a transfer that nobody works on yet.  *)
Waiting(c, k, t) == t.by = c /\ t.fs = k /\ t.client # "none" /\ t.goal = << >>

RequestsInv ==
  \A c \in Clusters, k \in Filesystems : \A e \in fs[c][k].requests :
    e.op = "transfer" =>
      e.arg \in Transfers /\ job[c][k].id # e.arg /\ Waiting(c, k, transfer[e.arg])

Delivered(t, table) ==
  /\ Len(t.goal) <= Depth
  /\ \A s \in 1 .. Len(t.goal) : t.goal[s] \in ToSet(table[Dest(t)][s].pool)

TransfersInv ==
  \A i \in Transfers :
    /\ transfer[i].index <= transfer[i].total
    /\ transfer[i].client = "none" => transfer[i].goal = << >>
    /\ Delivered(transfer[i], fs)

Types ==
  /\ fs \in [Clusters -> [Filesystems -> FsRecord]]
  /\ job \in [Clusters -> [Filesystems -> JobRecord]]
  /\ transfer \in [Transfers -> TransferRecord]

Counters == nextSnap \in Nat /\ runs \in 0 .. MaxRuns /\ faults \in 0 .. MaxFaults

SoundInv == \A c \in Clusters, k \in Filesystems : Sound(fs[c][k])

Core == Types /\ SoundInv /\ JobsInv /\ RequestsInv /\ TransfersInv

TransferInv == Core /\ Counters

-----------------------------------------------------------------------------
(* Clusters and lists.                                                     *)

(* There are two clusters, each the other's peer.                          *)
LEMMA PeerIs ==
  \A c \in Clusters : Peer(c) \in Clusters /\ Peer(c) # c /\ Peer(Peer(c)) = c
<1> TAKE c \in Clusters
<1>1. IsFiniteSet(Clusters) /\ Cardinality(Clusters) = 2
  BY ClustersAssumption
<1>2. IsFiniteSet(Clusters \ {c}) /\ Cardinality(Clusters \ {c}) = 1
  BY <1>1, FS_RemoveElement
<1>3. PICK d : Clusters \ {c} = {d}
  BY <1>2, FS_Singleton
<1>4. d \in Clusters /\ d # c /\ \A x \in Clusters : x # c => x = d
  BY <1>3
<1>5. Peer(c) = d
  BY <1>4 DEF Peer
<1>6. Peer(d) = c
  <2>1. \A x \in Clusters : x # d => x = c
    BY <1>4
  <2>2. c \in Clusters /\ c # d
    BY <1>4
  <2> QED
    BY <2>1, <2>2 DEF Peer
<1> QED
  BY <1>4, <1>5, <1>6

(* The members of a list.                                                  *)
LEMMA ToSetIs ==
  ASSUME NEW p \in Seq(Nat)
  PROVE  /\ \A x : x \in ToSet(p) <=> \E n \in 1 .. Len(p) : x = p[n]
         /\ \A x : ToSet(Append(p, x)) = ToSet(p) \cup {x}
         /\ p # << >> => /\ Last(p) \in ToSet(p) /\ Last(p) \in Nat /\ Head(p) \in Nat
                         /\ ToSet(p) = {Head(p)} \cup ToSet(Tail(p)) /\ Tail(p) \in Seq(Nat)
<1>1. \A q : ToSet(q) = {q[n] : n \in DOMAIN q}
  BY DEF ToSet
<1>2. \A x : x \in ToSet(p) <=> \E n \in 1 .. Len(p) : x = p[n]
  BY <1>1
<1>3. ASSUME NEW x PROVE ToSet(Append(p, x)) = ToSet(p) \cup {x}
  <2>1. Append(p, x) \in Seq(Nat \cup {x}) /\ Len(Append(p, x)) = Len(p) + 1
    BY AppendProperties, p \in Seq(Nat \cup {x})
  <2>2. \A n \in 1 .. Len(p) : Append(p, x)[n] = p[n]
    BY AppendProperties, p \in Seq(Nat \cup {x})
  <2>3. Append(p, x)[Len(p) + 1] = x
    BY AppendProperties, p \in Seq(Nat \cup {x})
  <2>4. DOMAIN Append(p, x) = 1 .. Len(p) + 1 /\ DOMAIN p = 1 .. Len(p) /\ Len(p) \in Nat
    BY <2>1
  <2>5. \A y : y \in ToSet(Append(p, x)) <=> \E n \in 1 .. Len(p) + 1 : y = Append(p, x)[n]
    BY <1>1, <2>4
  <2> QED
    BY <1>2, <2>2, <2>3, <2>4, <2>5
<1>4. ASSUME p # << >>
      PROVE  /\ Last(p) \in ToSet(p) /\ Last(p) \in Nat /\ Head(p) \in Nat
             /\ ToSet(p) = {Head(p)} \cup ToSet(Tail(p)) /\ Tail(p) \in Seq(Nat)
  <2>1. Len(p) \in Nat \ {0} /\ Len(p) \in 1 .. Len(p)
    BY <1>4, EmptySeq
  <2>2. /\ Head(p) = p[1] /\ Tail(p) \in Seq(Nat) /\ Len(Tail(p)) = Len(p) - 1
        /\ \A n \in 1 .. Len(p) - 1 : Tail(p)[n] = p[n + 1]
    BY <1>4, HeadTailProperties
  <2>3. \A y : y \in ToSet(Tail(p)) <=> \E n \in 1 .. Len(p) - 1 : y = Tail(p)[n]
    <3>1. DOMAIN Tail(p) = 1 .. Len(p) - 1
      BY <2>2
    <3> QED
      BY <1>1, <3>1, Zenon
  <2>4. \A y : y \in ToSet(p) => y = p[1] \/ y \in ToSet(Tail(p))
    <3> SUFFICES ASSUME NEW n \in 1 .. Len(p), n # 1 PROVE p[n] \in ToSet(Tail(p))
      BY <1>2
    <3>1. n - 1 \in 1 .. Len(p) - 1 /\ (n - 1) + 1 = n
      BY <2>1
    <3> QED
      BY <2>2, <2>3, <3>1
  <2>5. \A y : y = p[1] \/ y \in ToSet(Tail(p)) => y \in ToSet(p)
    BY <1>2, <2>1, <2>2, <2>3
  <2> QED
    BY <1>2, <2>1, <2>2, <2>4, <2>5 DEF Last
<1> QED
  BY <1>2, <1>3, <1>4

(* The latest snapshot of a list is a snapshot or nil.                     *)
LEMMA LatestIs == ASSUME NEW p \in Seq(Nat) PROVE Latest(p) \in Nat
BY ToSetIs, NilSnapIsZero DEF Latest

(* The fields of what restrictSnapshots returns.                           *)
LEMMA Field == \A r, x, y : r = [snaps |-> x, found |-> y] => r.snaps = x /\ r.found = y
OBVIOUS

(* restrictSnapshots finds a snapshot where it says so, and cuts after it. *)
LEMMA RestrictIs ==
  ASSUME NEW p \in Seq(Nat), NEW to
  PROVE  /\ restrictSnapshots(p, to).snaps \in Seq(Nat)
         /\ (to # NilSnap /\ restrictSnapshots(p, to).found) =>
              /\ restrictSnapshots(p, to).snaps # << >>
              /\ Last(restrictSnapshots(p, to).snaps) = to
<1> DEFINE i == IndexOf(p, to)
<1>1. i \in 0 .. Len(p) /\ (i # 0 => p[i] = to)
  BY IndexOfProperties
<1>2. restrictSnapshots(p, to) =
        IF to = NilSnap \/ i = 0 THEN [snaps |-> p, found |-> to = NilSnap]
        ELSE [snaps |-> SubSeq(p, 1, i), found |-> TRUE]
  BY DEF restrictSnapshots, IndexOf
<1> HIDE DEF i
<1>3. CASE to = NilSnap \/ i = 0
  <2>1. restrictSnapshots(p, to) = [snaps |-> p, found |-> to = NilSnap]
    BY <1>2, <1>3, Zenon
  <2>2. restrictSnapshots(p, to).snaps = p
    BY <2>1, Field
  <2>3. restrictSnapshots(p, to).found = (to = NilSnap)
    BY <2>1, Field
  <2> QED
    BY <2>2, <2>3
<1>4. CASE to # NilSnap /\ i # 0
  <2>0. restrictSnapshots(p, to) = [snaps |-> SubSeq(p, 1, i), found |-> TRUE]
    BY <1>2, <1>4, Zenon
  <2>1. restrictSnapshots(p, to).snaps = SubSeq(p, 1, i)
    BY <2>0, Field
  <2>2. i \in 1 .. Len(p) /\ SubSeq(p, 1, i) \in Seq(Nat) /\ Len(SubSeq(p, 1, i)) = i
    BY <1>1, <1>4
  <2>3. SubSeq(p, 1, i)[i] = p[i] /\ SubSeq(p, 1, i) # << >>
    BY <2>2
  <2> QED
    BY <1>1, <1>4, <2>1, <2>2, <2>3 DEF Last
<1> QED
  BY <1>3, <1>4

(* What canApply returns is made of the lists, and it finds a destination  *)
(* up to date only if that ends where the source ends.                     *)
LEMMA CanApplyIs ==
  ASSUME NEW p \in Seq(Nat), NEW q \in Seq(Nat)
  PROVE  /\ canApply(p, q).fromSnap \in Nat /\ canApply(p, q).toSnap \in Nat
         /\ canApply(p, q).err = "ToSnapsUpToDate" => q # << >> /\ Last(p) = Last(q)
<1> DEFINE lc == LatestCommon(p, q)
<1>1. lc \in 0 .. Len(p)
  BY LatestCommonProperties
<1>2. NilSnap \in Nat /\ (p # << >> => Last(p) \in Nat) /\ (lc # 0 => p[lc] \in Nat)
  BY <1>1, ToSetIs, NilSnapIsZero
<1>3. canApply(p, q).fromSnap \in Nat /\ canApply(p, q).toSnap \in Nat
  BY <1>2 DEF canApply, ApplyRange, ApplyError, Range3
<1>4. canApply(p, q).err = "ToSnapsUpToDate" => q # << >> /\ Last(p) = Last(q)
  BY DEF canApply, ApplyRange, ApplyError, Range3
<1> QED
  BY <1>3, <1>4

(* A stream that zfs can send brings the snapshot it was asked for.        *)
LEMMA StreamBrings ==
  ASSUME NEW p \in Seq(Nat), NEW from, NEW to, CanSend(p, from, to)
  PROVE  SendStream(p, from, to) \in Seq(Nat) /\ to \in ToSet(SendStream(p, from, to))
<1> DEFINE a == IF from = NilSnap THEN 1 ELSE IndexOf(p, from) + 1
           b == IndexOf(p, to)
<1>1. b \in 1 .. Len(p) /\ p[b] = to
  BY IndexOfProperties DEF CanSend
<1>2. IndexOf(p, from) \in 0 .. Len(p)
  BY IndexOfProperties
<1>3. a \in 1 .. b
  BY <1>1, <1>2 DEF CanSend
<1>4. SendStream(p, from, to) = SubSeq(p, a, b)
  BY DEF SendStream
<1> HIDE DEF a, b
<1>5. /\ SubSeq(p, a, b) \in Seq(Nat) /\ Len(SubSeq(p, a, b)) = b - a + 1
      /\ \A n \in 1 .. b - a + 1 : SubSeq(p, a, b)[n] = p[a + n - 1]
  BY <1>1, <1>3, SubSeqProperties
<1>6. b - a + 1 \in 1 .. b - a + 1 /\ a + (b - a + 1) - 1 = b
  BY <1>1, <1>3
<1>7. to \in ToSet(SubSeq(p, a, b))
  <2>1. SubSeq(p, a, b)[b - a + 1] = to
    BY <1>1, <1>5, <1>6
  <2>2. \E n \in 1 .. Len(SubSeq(p, a, b)) : to = SubSeq(p, a, b)[n]
    BY <1>5, <1>6, <2>1
  <2> QED
    BY <1>5, <2>2, ToSetIs
<1> QED
  BY <1>4, <1>5, <1>7

-----------------------------------------------------------------------------
(* What most steps do to a filesystem: its pool grows, no transfer begins  *)
(* or ends, and no transfer is asked for.                                  *)
Near(f, g) ==
  /\ g \in FsRecord /\ Sound(g)
  /\ ToSet(f.pool) \subseteq ToSet(g.pool)
  /\ (g.state = "initiator") <=> (f.state = "initiator")
  /\ \A e \in g.requests : e.op = "transfer" => e \in f.requests

Table(table) ==
  /\ table \in [Clusters -> [Filesystems -> FsRecord]]
  /\ \A c \in Clusters, k \in Filesystems : Near(fs[c][k], table[c][k])

(* The destination of a transfer is one of the clusters.                   *)
LEMMA DestIs == ASSUME NEW t \in TransferRecord PROVE Dest(t) \in Clusters
<1>1. t.by \in Clusters
  BY DEF TransferRecord
<1> QED
  BY <1>1, PeerIs DEF Dest

(* What was delivered stays so.                                            *)
LEMMA DeliveredKept ==
  ASSUME NEW t \in TransferRecord, NEW table, Table(table), Delivered(t, fs)
  PROVE  Delivered(t, table)
<1>1. Len(t.goal) \in Nat /\ Len(t.goal) <= Depth /\ Depth \in Nat
  BY TransferBoundsAssumption DEF Delivered, TransferRecord
<1>2. ASSUME NEW s \in 1 .. Len(t.goal) PROVE t.goal[s] \in ToSet(table[Dest(t)][s].pool)
  <2>1. s \in Filesystems
    BY <1>1 DEF Filesystems
  <2>2. ToSet(fs[Dest(t)][s].pool) \subseteq ToSet(table[Dest(t)][s].pool)
    BY <2>1, DestIs DEF Table, Near
  <2> QED
    BY <2>2 DEF Delivered
<1> QED
  BY <1>1, <1>2 DEF Delivered

(* A job goes on with pools that have grown.                               *)
LEMMA WorkingKept ==
  ASSUME NEW t \in TransferRecord, NEW table, Table(table),
         NEW c \in Clusters, NEW k \in Filesystems, NEW j \in JobRecord, Working(j, c, k, t, fs)
  PROVE  Working(j, c, k, t, table)
<1>1. j.stage \in Filesystems
  BY TransferBoundsAssumption DEF Working, Filesystems
<1>2. ToSet(fs[Dest(t)][j.stage].pool) \subseteq ToSet(table[Dest(t)][j.stage].pool)
  BY <1>1, DestIs DEF Table, Near
<1> QED
  BY <1>2 DEF Working

(* A step that changes neither jobs nor transfers.                         *)
LEMMA QuietStep ==
  ASSUME Core, Table(fs'), UNCHANGED <<job, transfer>>
  PROVE  Core'
<1>1. Types'
  BY DEF Core, Types, Table
<1>2. SoundInv'
  BY DEF SoundInv, Table, Near
<1>3. JobsInv'
  <2> SUFFICES ASSUME NEW c \in Clusters, NEW k \in Filesystems
               PROVE  /\ (fs'[c][k].state = "initiator") <=> (job'[c][k].id \in Transfers)
                      /\ job'[c][k].at # "none" => job'[c][k].id \in Transfers
                      /\ job'[c][k].id \in Transfers =>
                           Working(job'[c][k], c, k, transfer'[job'[c][k].id], fs')
    BY Zenon DEF JobsInv
  <2>1. (fs'[c][k].state = "initiator") <=> (fs[c][k].state = "initiator")
    BY DEF Table, Near
  <2>2. job'[c][k] \in JobRecord /\ job'[c][k] = job[c][k]
    BY DEF Core, Types
  <2>3. ASSUME job[c][k].id \in Transfers
        PROVE  Working(job'[c][k], c, k, transfer'[job'[c][k].id], fs')
    <3>1. Working(job[c][k], c, k, transfer[job[c][k].id], fs)
      BY <2>3 DEF Core, JobsInv
    <3>2. transfer[job[c][k].id] \in TransferRecord
      BY <2>3 DEF Core, Types
    <3>3. Working(job[c][k], c, k, transfer[job[c][k].id], fs')
      BY <2>2, <3>1, <3>2, WorkingKept
    <3> QED
      BY <3>3
  <2> QED
    BY <2>1, <2>2, <2>3 DEF Core, JobsInv
<1>4. RequestsInv'
  BY DEF Core, RequestsInv, Table, Near
<1>5. TransfersInv'
  <2> SUFFICES ASSUME NEW i \in Transfers
               PROVE  /\ transfer'[i].index <= transfer'[i].total
                      /\ transfer'[i].client = "none" => transfer'[i].goal = << >>
                      /\ Delivered(transfer'[i], fs')
    BY DEF TransfersInv
  <2>1. transfer[i] \in TransferRecord /\ Delivered(transfer[i], fs)
    BY DEF Core, Types, TransfersInv
  <2>2. Delivered(transfer[i], fs')
    BY <2>1, DeliveredKept
  <2> QED
    BY <2>2 DEF Core, TransfersInv
<1> QED
  BY <1>1, <1>2, <1>3, <1>4, <1>5 DEF Core

-----------------------------------------------------------------------------
(* A step of a job.                                                        *)

(* The table with one record replaced.                                     *)
LEMMA UpdateIs ==
  ASSUME NEW S, NEW table \in [Clusters -> [Filesystems -> S]],
         NEW c \in Clusters, NEW k \in Filesystems, NEW v \in S
  PROVE  /\ [table EXCEPT ![c][k] = v] \in [Clusters -> [Filesystems -> S]]
         /\ [table EXCEPT ![c][k] = v][c][k] = v
         /\ \A x \in Clusters, y \in Filesystems :
              ~ (x = c /\ y = k) => [table EXCEPT ![c][k] = v][x][y] = table[x][y]
OBVIOUS

(* Other machines work for other transfers, and no event asks for this one *)
(* again.                                                                  *)
LEMMA OneJob ==
  ASSUME Core, NEW c \in Clusters, NEW k \in Filesystems, job[c][k].id \in Transfers,
         NEW x \in Clusters, NEW y \in Filesystems
  PROVE  /\ ~ (x = c /\ y = k) /\ job[x][y].id \in Transfers => job[x][y].id # job[c][k].id
         /\ \A e \in fs[x][y].requests : e.op = "transfer" => e.arg # job[c][k].id
<1>1. transfer[job[c][k].id].by = c /\ transfer[job[c][k].id].fs = k
  BY DEF Core, JobsInv, Working
<1>2. job[x][y].id \in Transfers =>
        transfer[job[x][y].id].by = x /\ transfer[job[x][y].id].fs = y
  BY DEF Core, JobsInv, Working
<1>3. \A e \in fs[x][y].requests : e.op = "transfer" =>
        /\ job[x][y].id # e.arg
        /\ transfer[e.arg].by = x /\ transfer[e.arg].fs = y
  BY DEF Core, RequestsInv, Waiting
<1> QED
  BY <1>1, <1>2, <1>3

(* The job's own machine is in an initiator state.                         *)
LEMMA JobStep ==
  ASSUME Core, NEW c \in Clusters, NEW k \in Filesystems, NEW i, i = job[c][k].id,
         i \in Transfers,
         NEW table, Table(table),
         NEW nj \in JobRecord, job' = [job EXCEPT ![c][k] = nj],
         NEW nt \in TransferRecord, transfer' = [transfer EXCEPT ![i] = nt],
         nt.index <= nt.total, nt.client # "none", Delivered(nt, table),
         \/ fs' = table /\ nj.id = i /\ Working(nj, c, k, nt, table)
         \/ /\ fs' = [table EXCEPT ![c][k] = [table[c][k] EXCEPT !.state = "discovering"]]
            /\ nj = NoJob
  PROVE  Core'
<1> DEFINE ends == [table[c][k] EXCEPT !.state = "discovering"]
<1>0. table \in [Clusters -> [Filesystems -> FsRecord]] /\ table[c][k] \in FsRecord
  BY DEF Table
<1>1. ends \in FsRecord /\ ends.state = "discovering" /\ ends.requests = table[c][k].requests
      /\ ends.pool = table[c][k].pool
  BY <1>0 DEF FsRecord, States
<1>2. Sound(ends)
  <2>1. Sound(table[c][k]) /\ fs[c][k].state = "initiator" /\ table[c][k].state = "initiator"
    BY DEF Table, Near, Core, JobsInv
  <2>2. /\ ends.memory = table[c][k].memory /\ ends.etcd = table[c][k].etcd
        /\ ends.echo = table[c][k].echo /\ ends.cache = table[c][k].cache
        /\ ends.news = table[c][k].news /\ ends.arrived = table[c][k].arrived
        /\ ends.loading = table[c][k].loading
    BY <1>0 DEF FsRecord
  <2>3. table[c][k].news = {}
    BY <2>1 DEF Sound, PushPeerState, WaitingPeer
  <2> HIDE DEF ends
  <2> QED
    BY <1>1, <2>1, <2>2, <2>3 DEF Sound, Listed, Early
<1> HIDE DEF ends
<1>3. job \in [Clusters -> [Filesystems -> JobRecord]] /\ transfer \in [Transfers -> TransferRecord]
  BY DEF Core, Types
<1>4. /\ job' \in [Clusters -> [Filesystems -> JobRecord]] /\ job'[c][k] = nj
      /\ \A x \in Clusters, y \in Filesystems : ~ (x = c /\ y = k) => job'[x][y] = job[x][y]
  BY <1>3, UpdateIs
<1>5. /\ transfer' \in [Transfers -> TransferRecord] /\ transfer'[i] = nt
      /\ \A a \in Transfers : a # i => transfer'[a] = transfer[a]
  BY <1>3
<1>6. /\ fs' \in [Clusters -> [Filesystems -> FsRecord]]
      /\ fs'[c][k] \in {table[c][k], ends}
      /\ \A x \in Clusters, y \in Filesystems : ~ (x = c /\ y = k) => fs'[x][y] = table[x][y]
  <2>1. CASE fs' = table
    BY <1>0, <2>1
  <2>2. CASE fs' = [table EXCEPT ![c][k] = ends]
    BY <1>0, <1>1, <2>2, UpdateIs
  <2> QED
    BY <2>1, <2>2 DEF ends
<1>7. \A x \in Clusters, y \in Filesystems :
        /\ Sound(fs'[x][y]) /\ ToSet(fs[x][y].pool) \subseteq ToSet(fs'[x][y].pool)
        /\ fs'[x][y].pool = table[x][y].pool /\ fs'[x][y].requests = table[x][y].requests
  <2> TAKE x \in Clusters, y \in Filesystems
  <2>1. Sound(table[x][y]) /\ ToSet(fs[x][y].pool) \subseteq ToSet(table[x][y].pool)
    BY DEF Table, Near
  <2>2. fs'[x][y] = table[x][y] \/ (fs'[x][y] = ends /\ x = c /\ y = k)
    BY <1>6
  <2> QED
    BY <1>1, <1>2, <2>1, <2>2
<1>8. JobsInv'
  <2> SUFFICES ASSUME NEW x \in Clusters, NEW y \in Filesystems
               PROVE  /\ (fs'[x][y].state = "initiator") <=> (job'[x][y].id \in Transfers)
                      /\ job'[x][y].at # "none" => job'[x][y].id \in Transfers
                      /\ job'[x][y].id \in Transfers =>
                           Working(job'[x][y], x, y, transfer'[job'[x][y].id], fs')
    BY Zenon DEF JobsInv
  <2>1. CASE ~ (x = c /\ y = k)
    <3>1. fs'[x][y].state = "initiator" <=> fs[x][y].state = "initiator"
      BY <1>6, <2>1 DEF Table, Near
    <3>2. ASSUME job[x][y].id \in Transfers
          PROVE  Working(job[x][y], x, y, transfer[job[x][y].id], fs')
      <4>1. Working(job[x][y], x, y, transfer[job[x][y].id], fs)
        BY <3>2 DEF Core, JobsInv
      <4>2. Working(job[x][y], x, y, transfer[job[x][y].id], table)
        BY <1>3, <3>2, <4>1, WorkingKept
      <4>3. job[x][y].stage \in Filesystems /\ Dest(transfer[job[x][y].id]) \in Clusters
        BY <1>3, <3>2, <4>1, DestIs, TransferBoundsAssumption DEF Working, Filesystems
      <4> QED
        BY <1>7, <4>2, <4>3, Zenon DEF Working
    <3>3. job[x][y].id \in Transfers => transfer'[job[x][y].id] = transfer[job[x][y].id]
      BY <1>5, <2>1, OneJob
    <3> QED
      BY <1>4, <2>1, <3>1, <3>2, <3>3 DEF Core, JobsInv
  <2>2. CASE x = c /\ y = k
    <3>1. CASE fs' = table /\ nj.id = i /\ Working(nj, c, k, nt, table)
      <4>1. fs'[c][k].state = "initiator"
        BY <3>1 DEF Table, Near, Core, JobsInv
      <4> QED
        BY <1>4, <1>5, <2>2, <3>1, <4>1
    <3>2. CASE nj = NoJob /\ fs' = [table EXCEPT ![c][k] = ends]
      <4>1. fs'[c][k].state = "discovering"
        BY <1>0, <1>1, <3>2, UpdateIs
      <4>2. nj.id \notin Transfers /\ nj.at = "none"
        BY <3>2, TransferBoundsAssumption DEF NoJob, Transfers
      <4> QED
        BY <1>4, <2>2, <4>1, <4>2
    <3> QED
      BY <3>1, <3>2 DEF ends
  <2> QED
    BY <2>1, <2>2
<1>9. RequestsInv'
  <2> SUFFICES ASSUME NEW x \in Clusters, NEW y \in Filesystems, NEW e \in fs'[x][y].requests,
                      e.op = "transfer"
               PROVE  /\ e.arg \in Transfers /\ job'[x][y].id # e.arg
                      /\ Waiting(x, y, transfer'[e.arg])
    BY DEF RequestsInv
  <2>1. e \in fs[x][y].requests
    BY <1>7 DEF Table, Near
  <2>2. e.arg \in Transfers /\ job[x][y].id # e.arg /\ Waiting(x, y, transfer[e.arg]) /\ e.arg # i
    BY <2>1, OneJob DEF Core, RequestsInv
  <2>3. nj.id \in {i, 0}
    BY DEF NoJob
  <2>4. e.arg # 0
    BY <2>2, TransferBoundsAssumption DEF Transfers
  <2> QED
    BY <1>4, <1>5, <2>2, <2>3, <2>4
<1>10. TransfersInv'
  <2> SUFFICES ASSUME NEW a \in Transfers
               PROVE  /\ transfer'[a].index <= transfer'[a].total
                      /\ transfer'[a].client = "none" => transfer'[a].goal = << >>
                      /\ Delivered(transfer'[a], fs')
    BY DEF TransfersInv
  <2>1. Delivered(transfer'[a], table)
    BY <1>3, <1>5, DeliveredKept DEF Core, TransfersInv
  <2>2. Delivered(transfer'[a], fs')
    <3>1. transfer'[a] \in TransferRecord
      BY <1>5
    <3>2. ASSUME NEW s \in 1 .. Len(transfer'[a].goal)
          PROVE  s \in Filesystems /\ Dest(transfer'[a]) \in Clusters
      <4>1. Len(transfer'[a].goal) \in Nat /\ Len(transfer'[a].goal) <= Depth
        BY <2>1, <3>1 DEF Delivered, TransferRecord
      <4> QED
        BY <3>1, <4>1, DestIs, TransferBoundsAssumption DEF Filesystems
    <3> QED
      BY <1>7, <2>1, <3>2 DEF Delivered
  <2> QED
    BY <1>5, <2>2 DEF Core, TransfersInv
<1> QED
  BY <1>4, <1>5, <1>6, <1>7, <1>8, <1>9, <1>10 DEF Core, Types, SoundInv

(* What is known of a running job.                                         *)
LEMMA Running ==
  ASSUME Core, NEW c \in Clusters, NEW k \in Filesystems, job[c][k].at # "none"
  PROVE  /\ job[c][k] \in JobRecord /\ job[c][k].id \in Transfers
         /\ Working(job[c][k], c, k, transfer[job[c][k].id], fs)
         /\ transfer[job[c][k].id] \in TransferRecord
         /\ transfer[job[c][k].id].index <= transfer[job[c][k].id].total
         /\ transfer[job[c][k].id].client # "none"
         /\ Delivered(transfer[job[c][k].id], fs)
         /\ job[c][k].stage \in Filesystems /\ Dest(transfer[job[c][k].id]) \in Clusters
<1>1. job[c][k] \in JobRecord /\ job[c][k].id \in Transfers
  BY DEF Core, Types, JobsInv
<1>2. Working(job[c][k], c, k, transfer[job[c][k].id], fs)
  BY <1>1 DEF Core, JobsInv
<1>3. transfer[job[c][k].id] \in TransferRecord
  BY <1>1 DEF Core, Types
<1>4. job[c][k].stage \in Filesystems
  BY <1>2, TransferBoundsAssumption DEF Working, Filesystems
<1> QED
  BY <1>1, <1>2, <1>3, <1>4, DestIs DEF Core, TransfersInv, Working

(* A table is also the present one.                                        *)
LEMMA Unchanged == Core => Table(fs)
BY DEF Core, Types, SoundInv, Table, Near

(* A record of which only the status changes.                              *)
LEMMA StatusIs ==
  ASSUME NEW t \in TransferRecord, NEW status \in Statuses, NEW table, Delivered(t, table)
  PROVE  LET nt == [t EXCEPT !.status = status] IN
         /\ nt \in TransferRecord /\ Delivered(nt, table) /\ Dest(nt) = Dest(t)
         /\ nt.index = t.index /\ nt.total = t.total /\ nt.client = t.client /\ nt.goal = t.goal
         /\ nt.by = t.by /\ nt.dir = t.dir /\ nt.fs = t.fs
<1> DEFINE nt == [t EXCEPT !.status = status]
<1>1. /\ nt \in TransferRecord
      /\ nt.index = t.index /\ nt.total = t.total /\ nt.client = t.client /\ nt.goal = t.goal
      /\ nt.by = t.by /\ nt.dir = t.dir /\ nt.fs = t.fs
  BY DEF TransferRecord
<1> HIDE DEF nt
<1>2. Dest(nt) = Dest(t)
  BY <1>1 DEF Dest
<1>3. Delivered(nt, table)
  BY <1>1, <1>2 DEF Delivered
<1> QED
  BY <1>1, <1>2, <1>3 DEF nt

(* A job ends.                                                             *)
LEMMA EndJobKept ==
  ASSUME Core, NEW c \in Clusters, NEW k \in Filesystems, job[c][k].at # "none",
         NEW table, Table(table), NEW status \in Statuses, EndJob(c, k, table, status)
  PROVE  Core'
<1> DEFINE i == job[c][k].id
           nt == [transfer[i] EXCEPT !.status = status]
<1>1. /\ i \in Transfers /\ transfer[i] \in TransferRecord /\ Delivered(transfer[i], fs)
      /\ transfer[i].index <= transfer[i].total /\ transfer[i].client # "none"
  BY Running
<1>2. Delivered(transfer[i], table)
  BY <1>1, DeliveredKept
<1>3. /\ nt \in TransferRecord /\ Delivered(nt, table)
      /\ nt.index <= nt.total /\ nt.client # "none"
  BY <1>1, <1>2, StatusIs
<1>4. /\ job' = [job EXCEPT ![c][k] = NoJob]
      /\ transfer' = [transfer EXCEPT ![i] = nt]
      /\ fs' = [table EXCEPT ![c][k] = [table[c][k] EXCEPT !.state = "discovering"]]
  BY DEF EndJob
<1>5. NoJob \in JobRecord
  BY TransferBoundsAssumption, NilSnapIsZero DEF NoJob, JobRecord, Places
<1> HIDE DEF i, nt
<1> QED
  BY <1>1, <1>3, <1>4, <1>5, JobStep DEF i

(* An attempt fails.                                                       *)
LEMMA RetryKept ==
  ASSUME Core, NEW c \in Clusters, NEW k \in Filesystems, job[c][k].at \notin {"none", "applied"},
         NEW table, Table(table), NEW to \in Nat, Retry(c, k, to, table)
  PROVE  Core'
<1> DEFINE j == job[c][k]
           i == job[c][k].id
           nt == [transfer[i] EXCEPT !.status = "retry"]
           nj == [j EXCEPT !.tries = j.tries + 1, !.to = to, !.left = << >>,
                           !.at = IF j.dir = "push" THEN "try" ELSE "send"]
<1>1. /\ i \in Transfers /\ transfer[i] \in TransferRecord /\ Delivered(transfer[i], fs)
      /\ transfer[i].index <= transfer[i].total /\ transfer[i].client # "none"
      /\ j \in JobRecord /\ Working(j, c, k, transfer[i], fs) /\ i = j.id
  BY Running
<1>2. CASE j.tries + 1 = MaxTries
  <2>1. EndJob(c, k, table, "error")
    BY <1>2 DEF Retry
  <2> QED
    BY <2>1, EndJobKept, Zenon DEF Statuses
<1>3. CASE j.tries + 1 # MaxTries
  <2>1. Delivered(transfer[i], table)
    BY <1>1, DeliveredKept
  <2>2. /\ nt \in TransferRecord /\ Delivered(nt, table)
        /\ nt.index <= nt.total /\ nt.client # "none"
        /\ nt.goal = transfer[i].goal /\ nt.by = transfer[i].by /\ nt.dir = transfer[i].dir
        /\ nt.fs = transfer[i].fs
    BY <1>1, <2>1, StatusIs, "retry" \in Statuses, Zenon DEF Statuses
  <2>3. /\ job' = [job EXCEPT ![c][k] = nj]
        /\ transfer' = [transfer EXCEPT ![i] = nt] /\ fs' = table
    BY <1>3 DEF Retry
  <2>4. j.tries + 1 \in 0 .. MaxTries - 1
    <3>1. j.tries \in 0 .. MaxTries - 1
      BY <1>1 DEF JobRecord
    <3> HIDE DEF j
    <3> QED
      BY <1>3, <3>1, TransferBoundsAssumption
  <2>5. nj \in JobRecord /\ nj.id = i /\ nj.stage = j.stage /\ nj.dir = j.dir
        /\ nj.at \in {"try", "send"}
    <3> DEFINE none == << >>
               at == IF j.dir = "push" THEN "try" ELSE "send"
               tries == j.tries + 1
    <3>1. nj = [j EXCEPT !.at = at, !.tries = tries, !.to = to, !.left = none]
      BY <1>1 DEF JobRecord
    <3>2. none \in Seq(Nat) /\ at \in Places /\ at \in {"try", "send"}
          /\ tries \in 0 .. MaxTries - 1
      BY <2>4 DEF Places
    <3> HIDE DEF none, at, tries, nj, j
    <3>3. nj \in JobRecord /\ nj.at = at
      BY <1>1, <3>1, <3>2 DEF JobRecord
    <3> QED
      BY <1>1, <3>1, <3>2, <3>3 DEF JobRecord
  <2> HIDE DEF nj, nt
  <2>6. Working(nj, c, k, nt, table)
    BY <1>1, <2>2, <2>5 DEF Working
  <2> HIDE DEF i
  <2> QED
    BY <1>1, <2>2, <2>3, <2>5, <2>6, JobStep DEF i
<1> QED
  BY <1>2, <1>3

(* A stage is counted, its snapshot being there.                           *)
LEMMA StageDoneKept ==
  ASSUME Core, NEW c \in Clusters, NEW k \in Filesystems, job[c][k].at \notin {"none", "applied"},
         NEW table, Table(table), NEW to \in Nat, StageDone(c, k, to, table),
         to \in ToSet(table[Dest(transfer[job[c][k].id])][job[c][k].stage].pool)
  PROVE  Core'
<1> DEFINE j == job[c][k]
           i == job[c][k].id
           t == transfer[i]
           nt == [t EXCEPT !.status = "finished", !.goal = Append(t.goal, to)]
           nj == [j EXCEPT !.at = "applied", !.to = to, !.left = << >>]
<1>1. /\ i \in Transfers /\ t \in TransferRecord /\ Delivered(t, fs)
      /\ t.index <= t.total /\ t.client # "none"
      /\ j \in JobRecord /\ Working(j, c, k, t, fs) /\ j.stage \in Filesystems /\ i = j.id
  BY Running
<1>2. job' = [job EXCEPT ![c][k] = nj] /\ transfer' = [transfer EXCEPT ![i] = nt] /\ fs' = table
  BY DEF StageDone
<1>3. /\ nj \in JobRecord /\ nj.id = i /\ nj.stage = j.stage /\ nj.dir = j.dir
      /\ nj.at = "applied"
  <2> DEFINE none == << >>
             at == "applied"
  <2>1. nj = [j EXCEPT !.at = at, !.to = to, !.left = none]
    OBVIOUS
  <2>2. none \in Seq(Nat) /\ at \in Places
    BY DEF Places
  <2> HIDE DEF none, at, nj, j, i, t
  <2>3. nj \in JobRecord /\ nj.at = at
    BY <1>1, <2>1, <2>2 DEF JobRecord
  <2> QED
    BY <1>1, <2>1, <2>3 DEF JobRecord, at
<1>4. t.goal \in Seq(Nat) /\ Len(t.goal) = j.stage - 1 /\ j.stage \in 1 .. Depth
  BY <1>1 DEF Working, TransferRecord, Filesystems
<1>5. Append(t.goal, to) \in Seq(Nat)
  BY <1>4
<1>6. /\ nt \in TransferRecord /\ nt.goal = Append(t.goal, to)
      /\ nt.index = t.index /\ nt.total = t.total /\ nt.client = t.client
      /\ nt.by = t.by /\ nt.dir = t.dir /\ nt.fs = t.fs
  BY <1>1, <1>5, Zenon DEF TransferRecord, Statuses
<1> HIDE DEF nt, nj
<1>7. /\ Len(nt.goal) = j.stage /\ nt.goal[j.stage] = to
      /\ \A s \in 1 .. j.stage - 1 : nt.goal[s] = t.goal[s]
  <2> HIDE DEF j, t
  <2> QED
    BY <1>4, <1>6
<1>8. Dest(nt) = Dest(t)
  BY <1>6, Zenon DEF Dest
<1>9. Delivered(nt, table)
  <2>1. Delivered(t, table)
    BY <1>1, DeliveredKept
  <2>2. ASSUME NEW s \in 1 .. j.stage PROVE nt.goal[s] \in ToSet(table[Dest(t)][s].pool)
    <3>1. CASE s = j.stage
      BY <1>7, <3>1, Zenon
    <3>2. CASE s # j.stage
      <4>1. s \in 1 .. Len(t.goal) /\ s \in 1 .. j.stage - 1
        <5> HIDE DEF j, t
        <5> QED
          BY <1>4, <3>2
      <4>2. t.goal[s] \in ToSet(table[Dest(t)][s].pool)
        BY <2>1, <4>1, Zenon DEF Delivered
      <4> QED
        BY <1>7, <4>1, <4>2
    <3> QED
      BY <3>1, <3>2
  <2> HIDE DEF j, t
  <2> QED
    BY <1>4, <1>7, <1>8, <2>2 DEF Delivered
<1>10. Working(nj, c, k, nt, table)
  BY <1>1, <1>3, <1>6, <1>7, Zenon DEF Working
<1> HIDE DEF i
<1> QED
  BY <1>1, <1>2, <1>3, <1>6, <1>9, <1>10, JobStep, Zenon DEF i

-----------------------------------------------------------------------------
(* What the steps do to one filesystem.                                    *)

SameLists(f, g) ==
  /\ g.memory = f.memory /\ g.etcd = f.etcd /\ g.echo = f.echo /\ g.cache = f.cache
  /\ g.pool = f.pool /\ g.arrived = f.arrived /\ g.loading = f.loading

(* A step that leaves the lists alone.                                     *)
LEMMA NearSame ==
  ASSUME NEW f \in FsRecord, NEW g \in FsRecord, Sound(f), SameLists(f, g),
         g.news # {} => g.state \in PushPeerState,
         g.state = "active" => g.mounted,
         g.state \in Early => f.state \in Early, f.mounted => g.mounted,
         (g.state = "initiator") <=> (f.state = "initiator"),
         \A e \in g.requests : e.op = "transfer" => e \in f.requests
  PROVE  Near(f, g)
BY DEF Near, Sound, SameLists, Listed, Unheard

(* The fields that have to do with lists.                                  *)
LEMMA ListFields ==
  ASSUME NEW f \in FsRecord
  PROVE  /\ f.memory \in Seq(Nat) /\ f.etcd \in Seq(Nat) /\ f.echo \in Seq(Seq(Nat))
         /\ f.cache \in Seq(Nat) /\ f.pool \in Seq(Nat)
         /\ f.state \in States /\ f.news \in SUBSET Nat /\ f.requests \in SUBSET Request
         /\ f.arrived \in Nat /\ f.loading \in BOOLEAN /\ f.mounted \in BOOLEAN
BY DEF FsRecord

(* RegisterTransfer on a record.                                           *)
LEMMA ToldIs ==
  ASSUME NEW f \in FsRecord, Sound(f), NEW to \in Nat
  PROVE  Near(f, [f EXCEPT !.requests = f.requests \cup {Item("peer", to)}])
<1> DEFINE q == f.requests \cup {Item("peer", to)}
           g == [f EXCEPT !.requests = q]
<1>1. q \in SUBSET Request /\ \A e \in q : e.op = "transfer" => e \in f.requests
  BY ListFields DEF Item, Request
<1> HIDE DEF q
<1>2. g \in FsRecord /\ SameLists(f, g) /\ g.state = f.state /\ g.news = f.news
      /\ g.mounted = f.mounted /\ g.requests = q
  BY <1>1 DEF FsRecord, SameLists
<1> HIDE DEF g
<1>3. Near(f, g)
  BY <1>1, <1>2, NearSame DEF Sound
<1> QED
  BY <1>3 DEF g, q

(* notifyNewSnapshotsAfterPush on a record: something was received.        *)
LEMMA NotifiedIs ==
  ASSUME NEW f \in FsRecord, Sound(f), f.pool # << >>
  PROVE  Near(f, notifyNewSnapshotsAfterPush(f))
<1> DEFINE n == f.arrived + 1
           g == [f EXCEPT !.arrived = n]
<1>0. n \in Nat
  BY DEF FsRecord
<1> HIDE DEF n
<1>1. /\ g \in FsRecord /\ g.state = f.state /\ g.news = f.news
      /\ g.mounted = f.mounted /\ g.requests = f.requests
      /\ g.memory = f.memory /\ g.etcd = f.etcd /\ g.echo = f.echo /\ g.cache = f.cache
      /\ g.pool = f.pool /\ g.loading = f.loading
  BY <1>0 DEF FsRecord
<1> HIDE DEF g
<1>2. Sound(g)
  BY <1>1 DEF Sound, Listed, Unheard
<1>3. Near(f, g)
  BY <1>1, <1>2 DEF Near
<1> QED
  BY <1>3 DEF g, n, notifyNewSnapshotsAfterPush

(* mount on a record, and maybeMountFilesystem.                            *)
LEMMA MountIs ==
  ASSUME NEW f \in FsRecord, Sound(f)
  PROVE  /\ mount(f) \in FsRecord /\ SameLists(f, mount(f)) /\ mount(f).mounted
         /\ mount(f).state = f.state /\ mount(f).news = f.news /\ mount(f).requests = f.requests
         /\ Near(f, mount(f)) /\ Near(f, maybeMountFilesystem(f))
<1> DEFINE g == [f EXCEPT !.mounted = TRUE]
<1>1. g \in FsRecord /\ SameLists(f, g) /\ g.state = f.state /\ g.news = f.news
      /\ g.mounted = TRUE /\ g.requests = f.requests
  BY DEF FsRecord, SameLists
<1>2. g = mount(f)
  BY DEF mount
<1> HIDE DEF g
<1>3. Near(f, g)
  BY <1>1, NearSame DEF Sound
<1>4. Near(f, f)
  BY DEF Near
<1> QED
  BY <1>1, <1>2, <1>3, <1>4 DEF maybeMountFilesystem

(* A snapshot is received into the pool.                                   *)
LEMMA ReceivedIs ==
  ASSUME NEW f \in FsRecord, Sound(f), NEW snap \in Nat
  PROVE  /\ Near(f, [f EXCEPT !.pool = Append(f.pool, snap)])
         /\ ToSet([f EXCEPT !.pool = Append(f.pool, snap)].pool) = ToSet(f.pool) \cup {snap}
<1> DEFINE p == Append(f.pool, snap)
           g == [f EXCEPT !.pool = p]
<1>1. p \in Seq(Nat) /\ ToSet(p) = ToSet(f.pool) \cup {snap}
  BY ListFields, ToSetIs
<1> HIDE DEF p
<1>2. /\ g \in FsRecord /\ g.state = f.state /\ g.news = f.news
      /\ g.mounted = f.mounted /\ g.requests = f.requests
      /\ g.memory = f.memory /\ g.etcd = f.etcd /\ g.echo = f.echo /\ g.cache = f.cache
      /\ g.pool = p /\ g.arrived = f.arrived /\ g.loading = f.loading
  BY <1>1 DEF FsRecord
<1> HIDE DEF g
<1>3. Sound(g)
  <2>1. p # << >>
    BY <1>1 DEF ToSet
  <2> QED
    BY <1>1, <1>2, <2>1 DEF Sound, Listed, Unheard
<1>4. Near(f, g) /\ ToSet(g.pool) = ToSet(f.pool) \cup {snap}
  BY <1>1, <1>2, <1>3 DEF Near
<1> QED
  BY <1>4 DEF g, p

(* A state function that waited for news returns.                          *)
LEMMA GotoIs ==
  ASSUME NEW f \in FsRecord, NEW state \in States, Sound(f),
         f.state # "initiator", state # "initiator",
         state = "active" => f.mounted, state \in Early => f.mounted \/ Unheard(f)
  PROVE  Near(f, Goto(f, state))
<1> DEFINE no == {}
           g == [f EXCEPT !.state = state, !.news = no]
<1>1. no \in SUBSET Nat
  OBVIOUS
<1>2. g = Goto(f, state)
  BY DEF Goto
<1>3. no = {}
  OBVIOUS
<1> HIDE DEF no
<1>4. g \in FsRecord /\ SameLists(f, g) /\ g.state = state /\ g.news = no
      /\ g.mounted = f.mounted /\ g.requests = f.requests
  BY <1>1 DEF FsRecord, SameLists
<1> HIDE DEF g
<1>5. Sound(g)
  BY <1>3, <1>4 DEF Sound, SameLists, Listed, Unheard
<1>6. Near(f, g)
  BY <1>4, <1>5 DEF Near, SameLists
<1> QED
  BY <1>2, <1>6

(* Two such steps make one.                                                *)
LEMMA NearTransitive ==
  ASSUME NEW f, NEW g, NEW h, Near(f, g), Near(g, h)
  PROVE  Near(f, h)
BY DEF Near

(* Echo lists are lists of the pool after one more has been appended.      *)
LEMMA EchoIs ==
  ASSUME NEW q \in Seq(Seq(Nat)), NEW p \in Seq(Nat), NEW S,
         \A n \in 1 .. Len(q) : ToSet(q[n]) \subseteq S, ToSet(p) \subseteq S
  PROVE  /\ Append(q, p) \in Seq(Seq(Nat))
         /\ \A n \in 1 .. Len(Append(q, p)) : ToSet(Append(q, p)[n]) \subseteq S
<1>1. Append(q, p) \in Seq(Seq(Nat)) /\ Len(Append(q, p)) = Len(q) + 1 /\ Len(q) \in Nat
  OBVIOUS
<1>2. (\A n \in 1 .. Len(q) : Append(q, p)[n] = q[n]) /\ Append(q, p)[Len(q) + 1] = p
  OBVIOUS
<1>3. ASSUME NEW n \in 1 .. Len(q) + 1 PROVE ToSet(Append(q, p)[n]) \subseteq S
  <2>1. n \in 1 .. Len(q) \/ n = Len(q) + 1
    BY <1>1
  <2> QED
    BY <1>2, <2>1
<1> QED
  BY <1>1, <1>3

(* The list in memory changes and is announced.                            *)
LEMMA AnnouncedIs ==
  ASSUME NEW f \in FsRecord, NEW snaps \in Seq(Nat)
  PROVE  LET g == Announced(f, snaps)
         IN /\ g \in FsRecord /\ g.memory = snaps /\ g.etcd \in {f.etcd, snaps}
            /\ g.echo \in {f.echo, Append(f.echo, snaps)}
            /\ g.cache = f.cache /\ g.pool = f.pool /\ g.state = f.state /\ g.news = f.news
            /\ g.mounted = f.mounted /\ g.requests = f.requests /\ g.known = f.known
            /\ g.arrived = f.arrived /\ g.loading = f.loading
<1> DEFINE e == IF snaps = << >> THEN f.etcd ELSE snaps
           q == IF snaps \in {<< >>, f.etcd} THEN f.echo ELSE Append(f.echo, snaps)
           g == [f EXCEPT !.memory = snaps, !.etcd = e, !.echo = q]
<1>1. e \in Seq(Nat) /\ e \in {f.etcd, snaps}
  BY ListFields
<1>2. q \in Seq(Seq(Nat)) /\ q \in {f.echo, Append(f.echo, snaps)}
  <2>1. f.echo \in Seq(Seq(Nat)) /\ Append(f.echo, snaps) \in Seq(Seq(Nat))
    BY ListFields
  <2> QED
    BY <2>1
<1>3. g = Announced(f, snaps)
  BY DEF Announced
<1> HIDE DEF e, q
<1>4. /\ g \in FsRecord /\ g.memory = snaps /\ g.etcd = e /\ g.echo = q
      /\ g.cache = f.cache /\ g.pool = f.pool /\ g.state = f.state /\ g.news = f.news
      /\ g.mounted = f.mounted /\ g.requests = f.requests /\ g.known = f.known
      /\ g.arrived = f.arrived /\ g.loading = f.loading
  BY <1>1, <1>2 DEF FsRecord
<1> HIDE DEF g
<1> QED
  BY <1>1, <1>2, <1>3, <1>4

(* A list reaches the cache, and its latest snapshot a subscriber.         *)
LEMMA PublishedIs ==
  ASSUME NEW f \in FsRecord, NEW snaps \in Seq(Nat)
  PROVE  LET g == Published(f, snaps)
         IN /\ g \in FsRecord /\ g.cache = snaps
            /\ g.memory = f.memory /\ g.etcd = f.etcd /\ g.echo = f.echo /\ g.pool = f.pool
            /\ g.state = (IF f.state \in {"missing", "inactive"} THEN "discovering" ELSE f.state)
            /\ f.state \notin PushPeerState => g.news = f.news
            /\ g.mounted = f.mounted /\ g.requests = f.requests
            /\ g.arrived = f.arrived /\ g.loading = f.loading
<1> DEFINE st == IF f.state \in {"missing", "inactive"} THEN "discovering" ELSE f.state
           ns == IF f.known /\ f.state \in PushPeerState THEN f.news \cup {Latest(snaps)}
                 ELSE f.news
           g == [f EXCEPT !.cache = snaps, !.news = ns, !.state = st]
<1>1. st \in States
  BY ListFields DEF States
<1>2. ns \in SUBSET Nat /\ (f.state \notin PushPeerState => ns = f.news)
  BY ListFields, LatestIs
<1>3. g = Published(f, snaps)
  BY DEF Published
<1> HIDE DEF st, ns
<1>4. /\ g \in FsRecord /\ g.cache = snaps /\ g.news = ns /\ g.state = st
      /\ g.memory = f.memory /\ g.etcd = f.etcd /\ g.echo = f.echo /\ g.pool = f.pool
      /\ g.mounted = f.mounted /\ g.requests = f.requests
      /\ g.arrived = f.arrived /\ g.loading = f.loading
  BY <1>1, <1>2 DEF FsRecord
<1> HIDE DEF g
<1> QED
  BY <1>2, <1>3, <1>4 DEF st

(* discover on a record: all lists are the pool's now.                     *)
LEMMA DiscoveredIs ==
  ASSUME NEW f \in FsRecord, Sound(f), f.state = "pushPeerStart" => f.mounted
  PROVE  /\ Near(f, Discovered(f)) /\ Discovered(f).cache = f.pool /\ Discovered(f) \in FsRecord
         /\ Discovered(f).state = (IF f.state \in {"missing", "inactive"} THEN "discovering"
                                   ELSE f.state)
         /\ Discovered(f).mounted = f.mounted /\ Discovered(f).pool = f.pool
<1> DEFINE a == Announced(f, f.pool)
           g == Published(a, f.pool)
<1>1. f.pool \in Seq(Nat) /\ f.echo \in Seq(Seq(Nat))
  BY ListFields
<1>2. /\ a \in FsRecord /\ a.memory = f.pool /\ a.etcd \in {f.etcd, f.pool}
      /\ a.echo \in {f.echo, Append(f.echo, f.pool)}
      /\ a.cache = f.cache /\ a.pool = f.pool /\ a.state = f.state /\ a.news = f.news
      /\ a.mounted = f.mounted /\ a.requests = f.requests
      /\ a.arrived = f.arrived /\ a.loading = f.loading
  BY <1>1, AnnouncedIs
<1> HIDE DEF a
<1>3. /\ g \in FsRecord /\ g.cache = f.pool
      /\ g.memory = a.memory /\ g.etcd = a.etcd /\ g.echo = a.echo /\ g.pool = a.pool
      /\ g.state = (IF a.state \in {"missing", "inactive"} THEN "discovering" ELSE a.state)
      /\ a.state \notin PushPeerState => g.news = a.news
      /\ g.mounted = a.mounted /\ g.requests = a.requests
      /\ g.arrived = a.arrived /\ g.loading = a.loading
  BY <1>1, <1>2, PublishedIs
<1> HIDE DEF g
<1>4. Listed(g)
  <2>1. \A n \in 1 .. Len(a.echo) : ToSet(a.echo[n]) \subseteq ToSet(f.pool)
    BY <1>1, <1>2, EchoIs DEF Sound, Listed
  <2> QED
    BY <1>2, <1>3, <2>1 DEF Sound, Listed
<1>5. Sound(g)
  BY <1>2, <1>3, <1>4 DEF Sound, Early, PushPeerState, WaitingPeer
<1>6. Near(f, g)
  BY <1>2, <1>3, <1>5 DEF Near
<1> QED
  BY <1>2, <1>3, <1>6 DEF g, a, Discovered

(* Nothing is on its way from an empty pool.                               *)
LEMMA UnheardIs ==
  ASSUME NEW f \in FsRecord, Sound(f), f.pool = << >>, f.cache = << >>
  PROVE  Unheard(f)
<1>1. ToSet(f.pool) = {}
  BY DEF ToSet
<1>2. f.echo \in Seq(Seq(Nat)) /\ f.loading \in BOOLEAN
  BY ListFields
<1>3. ASSUME NEW n \in 1 .. Len(f.echo) PROVE f.echo[n] = << >>
  <2>1. f.echo[n] \in Seq(Nat) /\ ToSet(f.echo[n]) = {}
    <3>1. f.echo[n] \in Seq(Nat)
      BY <1>2
    <3>2. ToSet(f.echo[n]) \subseteq ToSet(f.pool)
      BY DEF Sound, Listed
    <3> QED
      BY <1>1, <3>1, <3>2
  <2>2. f.echo[n] # << >> => Last(f.echo[n]) \in ToSet(f.echo[n])
    BY <2>1, ToSetIs
  <2> QED
    BY <2>1, <2>2
<1> QED
  BY <1>2, <1>3 DEF Sound, Unheard

-----------------------------------------------------------------------------
(* Steps of one filesystem.                                                *)

(* A table in which one record has changed.                                *)
LEMMA TableUpdate ==
  ASSUME Core, NEW c \in Clusters, NEW k \in Filesystems, NEW new, Near(fs[c][k], new)
  PROVE  Table([fs EXCEPT ![c][k] = new])
<1>1. fs \in [Clusters -> [Filesystems -> FsRecord]] /\ new \in FsRecord
  BY DEF Core, Types, Near
<1>2. /\ [fs EXCEPT ![c][k] = new] \in [Clusters -> [Filesystems -> FsRecord]]
      /\ [fs EXCEPT ![c][k] = new][c][k] = new
      /\ \A x \in Clusters, y \in Filesystems :
           ~ (x = c /\ y = k) => [fs EXCEPT ![c][k] = new][x][y] = fs[x][y]
  BY <1>1, UpdateIs
<1>3. \A x \in Clusters, y \in Filesystems : Near(fs[x][y], fs[x][y])
  BY Unchanged DEF Table
<1> HIDE DEF Near
<1>4. \A x \in Clusters, y \in Filesystems : Near(fs[x][y], [fs EXCEPT ![c][k] = new][x][y])
  <2> TAKE x \in Clusters, y \in Filesystems
  <2>1. CASE x = c /\ y = k
    BY <1>2, <2>1
  <2>2. CASE ~ (x = c /\ y = k)
    BY <1>2, <1>3, <2>2
  <2> QED
    BY <2>1, <2>2
<1> QED
  BY <1>2, <1>4 DEF Table

(* A step of one filesystem alone.                                         *)
LEMMA LocalKept ==
  ASSUME Core, NEW c \in Clusters, NEW k \in Filesystems, NEW new, Near(fs[c][k], new),
         fs' = [fs EXCEPT ![c][k] = new], UNCHANGED <<job, transfer>>
  PROVE  Core'
BY TableUpdate, QuietStep

(* Every record is one, and sound.                                         *)
LEMMA RecordIs ==
  ASSUME Core, NEW c \in Clusters, NEW k \in Filesystems
  PROVE  fs[c][k] \in FsRecord /\ Sound(fs[c][k])
BY DEF Core, Types, SoundInv

(* A record after its machine took an event.                               *)
LEMMA TakenIs ==
  ASSUME Core, NEW c \in Clusters, NEW k \in Filesystems, NEW e
  PROVE  /\ Near(fs[c][k], Taken(c, k, e)) /\ Taken(c, k, e) \in FsRecord
         /\ Sound(Taken(c, k, e))
         /\ Taken(c, k, e).state = fs[c][k].state /\ Taken(c, k, e).mounted = fs[c][k].mounted
         /\ Taken(c, k, e).cache = fs[c][k].cache /\ Taken(c, k, e).container = fs[c][k].container
         /\ Taken(c, k, e).requests = fs[c][k].requests \ {e}
         /\ Taken(c, k, e).pool = fs[c][k].pool
<1> DEFINE f == fs[c][k]
           q == f.requests \ {e}
           g == [f EXCEPT !.requests = q]
<1>1. f \in FsRecord /\ Sound(f)
  BY RecordIs
<1>2. Taken(c, k, e) = g
  BY DEF Taken
<1>3. q \in SUBSET Request /\ \A x \in q : x \in f.requests
  <2>1. f.requests \in SUBSET Request
    BY <1>1, ListFields
  <2> QED
    BY <2>1
<1> HIDE DEF q, f
<1>4. g \in FsRecord /\ SameLists(f, g) /\ g.state = f.state /\ g.news = f.news
      /\ g.mounted = f.mounted /\ g.requests = q /\ g.container = f.container
  BY <1>1, <1>3 DEF FsRecord, SameLists
<1> HIDE DEF g
<1>5. Near(f, g)
  BY <1>1, <1>3, <1>4, NearSame DEF Sound
<1> QED
  BY <1>2, <1>4, <1>5 DEF f, q, SameLists, Near

(* updateMaster.                                                           *)
LEMMA UpdateMasterKept ==
  ASSUME Core, NEW c \in Clusters, NEW k \in Filesystems, updateMaster(c, k)
  PROVE  Core'
<1> DEFINE f == fs[c][k]
           st == IF f.state = "none" THEN "discovering" ELSE f.state
           q == f.requests \cup {Item("mount", 0)}
           kn == TRUE
           g == [f EXCEPT !.known = kn, !.state = st, !.requests = q]
<1>1. f \in FsRecord /\ Sound(f)
  BY RecordIs
<1>2. fs' = [fs EXCEPT ![c][k] = g] /\ UNCHANGED <<job, transfer>>
  BY DEF updateMaster, Local
<1>3. /\ q \in SUBSET Request /\ \A x \in q : x.op = "transfer" => x \in f.requests
      /\ kn \in BOOLEAN
  <2>1. f.requests \in SUBSET Request
    BY <1>1, ListFields
  <2>2. Item("mount", 0) \in Request /\ Item("mount", 0).op # "transfer"
    BY DEF Item, Request
  <2> QED
    BY <2>1, <2>2
<1>4. st \in States /\ (st = "initiator" <=> f.state = "initiator")
      /\ (st = "active" => f.state = "active") /\ (st \in Early => f.state \in Early)
      /\ (f.state \in PushPeerState => st \in PushPeerState)
  <2>1. f.state \in States
    BY <1>1, ListFields
  <2> QED
    BY <2>1 DEF States, Early, PushPeerState, WaitingPeer
<1> HIDE DEF q, f, st, kn
<1>5. g \in FsRecord /\ SameLists(f, g) /\ g.state = st /\ g.news = f.news
      /\ g.mounted = f.mounted /\ g.requests = q
  BY <1>1, <1>3, <1>4 DEF FsRecord, SameLists
<1> HIDE DEF g
<1>6. Near(f, g)
  BY <1>1, <1>3, <1>4, <1>5, NearSame DEF Sound
<1> QED
  BY <1>2, <1>6, LocalKept DEF f

(* updateSnapshots.                                                        *)
LEMMA UpdateSnapshotsKept ==
  ASSUME Core, NEW c \in Clusters, NEW k \in Filesystems, updateSnapshots(c, k)
  PROVE  Core'
<1> DEFINE f == fs[c][k]
           p == Published(f, Head(f.echo))
           q == Tail(f.echo)
           g == [p EXCEPT !.echo = q]
<1>1. f \in FsRecord /\ Sound(f) /\ f.echo \in Seq(Seq(Nat)) /\ f.echo # << >>
  BY RecordIs, ListFields DEF updateSnapshots
<1>2. Head(f.echo) \in Seq(Nat) /\ ToSet(Head(f.echo)) \subseteq ToSet(f.pool)
  <2>1. 1 \in 1 .. Len(f.echo) /\ Head(f.echo) = f.echo[1] /\ f.echo[1] \in Seq(Nat)
    BY <1>1
  <2> QED
    BY <1>1, <2>1 DEF Sound, Listed
<1>3. /\ q \in Seq(Seq(Nat)) /\ \A n \in 1 .. Len(q) : ToSet(q[n]) \subseteq ToSet(f.pool)
      /\ Unheard(f) => Head(f.echo) = << >> /\ \A n \in 1 .. Len(q) : q[n] = << >>
  <2>1. q \in Seq(Seq(Nat)) /\ Len(q) = Len(f.echo) - 1 /\ Len(f.echo) \in Nat \ {0}
    BY <1>1
  <2>2. \A n \in 1 .. Len(q) : q[n] = f.echo[n + 1] /\ n + 1 \in 1 .. Len(f.echo)
    BY <1>1, <2>1
  <2>3. 1 \in 1 .. Len(f.echo) /\ Head(f.echo) = f.echo[1]
    BY <1>1
  <2> QED
    BY <1>1, <2>1, <2>2, <2>3 DEF Sound, Listed, Unheard
<1>4. /\ p \in FsRecord /\ p.cache = Head(f.echo)
      /\ p.memory = f.memory /\ p.etcd = f.etcd /\ p.echo = f.echo /\ p.pool = f.pool
      /\ p.state = (IF f.state \in {"missing", "inactive"} THEN "discovering" ELSE f.state)
      /\ f.state \notin PushPeerState => p.news = f.news
      /\ p.mounted = f.mounted /\ p.requests = f.requests
      /\ p.arrived = f.arrived /\ p.loading = f.loading
  BY <1>1, <1>2, PublishedIs
<1>5. fs' = [fs EXCEPT ![c][k] = g] /\ UNCHANGED <<job, transfer>>
  <2>1. p.echo = f.echo
    BY <1>4
  <2>2. fs' = [fs EXCEPT ![c][k] = [p EXCEPT !.echo = Tail(p.echo)]] /\ UNCHANGED <<job, transfer>>
    BY DEF updateSnapshots, Local
  <2> HIDE DEF p
  <2> QED
    BY <2>1, <2>2
<1> HIDE DEF f, p, q
<1>6. /\ g \in FsRecord /\ g.cache = p.cache /\ g.memory = p.memory /\ g.etcd = p.etcd
      /\ g.echo = q /\ g.pool = p.pool /\ g.state = p.state /\ g.news = p.news
      /\ g.mounted = p.mounted /\ g.requests = p.requests
      /\ g.arrived = p.arrived /\ g.loading = p.loading
  BY <1>3, <1>4 DEF FsRecord
<1> HIDE DEF g
<1>7. Listed(g)
  BY <1>1, <1>2, <1>3, <1>4, <1>6 DEF Sound, Listed
<1>8. Sound(g)
  <2>1. ASSUME f.state = "pushPeerStart" PROVE f.mounted \/ Unheard(g)
    <3>1. f.mounted \/ Unheard(f)
      BY <1>1, <2>1 DEF Sound, Early
    <3>2. Unheard(f) => Unheard(g)
      BY <1>3, <1>4, <1>6 DEF Unheard
    <3> QED
      BY <3>1, <3>2
  <2> QED
    BY <1>1, <1>4, <1>6, <1>7, <2>1 DEF Sound, Early, PushPeerState, WaitingPeer
<1>9. Near(f, g)
  BY <1>4, <1>6, <1>8 DEF Near
<1> QED
  BY <1>5, <1>9, LocalKept DEF f

(* discoveringState.                                                       *)
LEMMA DiscoverKept ==
  ASSUME Core, NEW c \in Clusters, NEW k \in Filesystems, discover(c, k)
  PROVE  Core'
<1> DEFINE f == fs[c][k]
           d == Discovered(f)
           st == IF f.pool = << >> THEN "missing"
                 ELSE IF f.mounted THEN "active" ELSE "inactive"
<1>1. f \in FsRecord /\ Sound(f) /\ f.state = "discovering"
  BY RecordIs DEF discover
<1>2. /\ Near(f, d) /\ d.cache = f.pool /\ d \in FsRecord /\ d.state = "discovering"
      /\ d.mounted = f.mounted /\ d.pool = f.pool
  BY <1>1, DiscoveredIs
<1>3. Sound(d)
  BY <1>2 DEF Near
<1>4. fs' = [fs EXCEPT ![c][k] = Goto(d, st)] /\ UNCHANGED <<job, transfer>>
  BY DEF discover, Local
<1>5. st \in States /\ st # "initiator" /\ (st = "active" => f.mounted)
      /\ (st \in Early => f.pool = << >>)
  BY DEF States, Early
<1> HIDE DEF f, d, st
<1>6. Near(d, Goto(d, st))
  <2>1. st \in Early => Unheard(d)
    BY <1>2, <1>3, <1>5, UnheardIs
  <2> QED
    BY <1>2, <1>3, <1>5, <2>1, GotoIs
<1>7. Near(f, Goto(d, st))
  BY <1>2, <1>6, NearTransitive
<1> QED
  BY <1>4, <1>7, LocalKept DEF f

(* Mount events, and events that a state does not handle.                  *)
LEMMA MountOrUnhandledKept ==
  ASSUME Core, NEW c \in Clusters, NEW k \in Filesystems, NEW e, mountOrUnhandled(c, k, e)
  PROVE  Core'
<1> DEFINE f == Taken(c, k, e)
<1>1. f \in FsRecord /\ Sound(f) /\ Near(fs[c][k], f)
  BY TakenIs
<1>2. f.state \in {"inactive", "active", "missing"} /\ UNCHANGED <<job, transfer>>
      /\ \/ fs' = [fs EXCEPT ![c][k] = Goto(mount(f), "active")] /\ f.state = "inactive"
         \/ fs' = [fs EXCEPT ![c][k] = Goto(f, "discovering")]
  BY DEF mountOrUnhandled, Local
<1> HIDE DEF f
<1>3. "active" \in States /\ "discovering" \in States
  BY DEF States
<1>4. Near(f, Goto(f, "discovering"))
  BY <1>1, <1>2, <1>3, GotoIs DEF Early
<1>5. ASSUME f.state = "inactive" PROVE Near(f, Goto(mount(f), "active"))
  <2>1. mount(f) \in FsRecord /\ mount(f).mounted /\ mount(f).state = f.state /\ Near(f, mount(f))
    BY <1>1, MountIs
  <2>2. Sound(mount(f))
    BY <2>1 DEF Near
  <2>3. Near(mount(f), Goto(mount(f), "active"))
    BY <1>3, <1>5, <2>1, <2>2, GotoIs DEF Early
  <2> QED
    BY <2>1, <2>3, NearTransitive
<1>6. CASE fs' = [fs EXCEPT ![c][k] = Goto(mount(f), "active")] /\ f.state = "inactive"
  <2>1. Near(fs[c][k], Goto(mount(f), "active"))
    BY <1>1, <1>5, <1>6, NearTransitive
  <2> QED
    BY <1>2, <1>6, <2>1, LocalKept
<1>7. CASE fs' = [fs EXCEPT ![c][k] = Goto(f, "discovering")]
  <2>1. Near(fs[c][k], Goto(f, "discovering"))
    BY <1>1, <1>4, NearTransitive
  <2> QED
    BY <1>2, <1>7, <2>1, LocalKept
<1> QED
  BY <1>2, <1>6, <1>7

(* A commit: the new snapshot is in memory and in the pool.                *)
LEMMA CommitKept ==
  ASSUME Core, Counters, NEW c \in Clusters, NEW k \in Filesystems, commit(c, k)
  PROVE  Core'
<1> DEFINE f == fs[c][k]
           m == Append(f.memory, nextSnap)
           a == Announced(f, m)
           p == Append(f.pool, nextSnap)
           no == FALSE
           g == [a EXCEPT !.pool = p, !.dirty = no]
<1>1. f \in FsRecord /\ Sound(f) /\ nextSnap \in Nat
  BY RecordIs DEF Counters
<1>2. f.memory \in Seq(Nat) /\ f.pool \in Seq(Nat) /\ f.echo \in Seq(Seq(Nat))
  BY <1>1, ListFields
<1>3. /\ m \in Seq(Nat) /\ ToSet(m) = ToSet(f.memory) \cup {nextSnap}
      /\ p \in Seq(Nat) /\ ToSet(p) = ToSet(f.pool) \cup {nextSnap}
      /\ no \in BOOLEAN
  BY <1>1, <1>2, ToSetIs
<1>4. fs' = [fs EXCEPT ![c][k] = g] /\ UNCHANGED <<job, transfer>>
  <2>1. fs' = [fs EXCEPT ![c][k] = [a EXCEPT !.pool = Append(a.pool, nextSnap), !.dirty = FALSE]]
        /\ UNCHANGED <<job, transfer>>
    BY DEF commit
  <2>2. a.pool = f.pool
    BY <1>1, <1>3, AnnouncedIs
  <2> HIDE DEF a
  <2> QED
    BY <2>1, <2>2
<1>5. /\ a \in FsRecord /\ a.memory = m /\ a.etcd \in {f.etcd, m}
      /\ a.echo \in {f.echo, Append(f.echo, m)}
      /\ a.cache = f.cache /\ a.state = f.state /\ a.news = f.news
      /\ a.mounted = f.mounted /\ a.requests = f.requests
      /\ a.arrived = f.arrived /\ a.loading = f.loading
  BY <1>1, <1>3, AnnouncedIs
<1> HIDE DEF f, m, a, p, no
<1>6. /\ g \in FsRecord /\ g.cache = a.cache /\ g.memory = a.memory /\ g.etcd = a.etcd
      /\ g.echo = a.echo /\ g.pool = p /\ g.state = a.state /\ g.news = a.news
      /\ g.mounted = a.mounted /\ g.requests = a.requests
      /\ g.arrived = a.arrived /\ g.loading = a.loading
  BY <1>3, <1>5 DEF FsRecord
<1> HIDE DEF g
<1>7. Listed(g)
  <2>1. \A n \in 1 .. Len(f.echo) : ToSet(f.echo[n]) \subseteq ToSet(p)
    BY <1>1, <1>3 DEF Sound, Listed
  <2>2. ToSet(m) \subseteq ToSet(p)
    BY <1>1, <1>3 DEF Sound, Listed
  <2>3. \A n \in 1 .. Len(a.echo) : ToSet(a.echo[n]) \subseteq ToSet(p)
    BY <1>2, <1>3, <1>5, <2>1, <2>2, EchoIs
  <2>4. ToSet(f.etcd) \subseteq ToSet(p) /\ ToSet(f.cache) \subseteq ToSet(p) \cup {NilSnap}
    BY <1>1, <1>3 DEF Sound, Listed
  <2> QED
    BY <1>5, <1>6, <2>2, <2>3, <2>4 DEF Listed
<1>8. Sound(g)
  <2>1. p # << >>
    <3>1. ToSet(<< >>) = {}
      BY DEF ToSet
    <3> QED
      BY <1>3, <3>1
  <2>2. f.state = "active"
    BY DEF commit, f
  <2> QED
    BY <1>1, <1>5, <1>6, <1>7, <2>1, <2>2 DEF Sound, Early
<1>9. Near(f, g)
  BY <1>3, <1>5, <1>6, <1>8 DEF Near
<1> QED
  BY <1>4, <1>9, LocalKept DEF f

(* Containers start and stop.                                              *)
LEMMA ContainersKept ==
  ASSUME Core, NEW c \in Clusters, NEW k \in Filesystems,
         containerRuns(c, k) \/ containerStops(c, k)
  PROVE  Core'
<1> DEFINE f == fs[c][k]
           yes == TRUE
           no == FALSE
           g == [f EXCEPT !.container = yes, !.dirty = yes]
           h == [f EXCEPT !.container = no]
<1>1. f \in FsRecord /\ Sound(f) /\ yes \in BOOLEAN /\ no \in BOOLEAN
  BY RecordIs
<1>2. /\ fs' = [fs EXCEPT ![c][k] = g] \/ fs' = [fs EXCEPT ![c][k] = h]
      /\ UNCHANGED <<job, transfer>>
  <2>1. CASE containerRuns(c, k)
    <3>1. fs' = [fs EXCEPT ![c][k].container = TRUE, ![c][k].dirty = TRUE]
          /\ UNCHANGED <<job, transfer>>
      BY <2>1 DEF containerRuns
    <3>2. fs \in [Clusters -> [Filesystems -> FsRecord]]
      BY DEF Core, Types
    <3> QED
      BY <3>1, <3>2
  <2>2. CASE containerStops(c, k)
    BY <2>2 DEF containerStops, Local
  <2> QED
    BY <2>1, <2>2
<1> HIDE DEF f, yes, no
<1>3. g \in FsRecord /\ SameLists(f, g) /\ g.state = f.state /\ g.news = f.news
      /\ g.mounted = f.mounted /\ g.requests = f.requests
  BY <1>1 DEF FsRecord, SameLists
<1>4. h \in FsRecord /\ SameLists(f, h) /\ h.state = f.state /\ h.news = f.news
      /\ h.mounted = f.mounted /\ h.requests = f.requests
  BY <1>1 DEF FsRecord, SameLists
<1> HIDE DEF g, h
<1>5. Near(f, g) /\ Near(f, h)
  BY <1>1, <1>3, <1>4, NearSame DEF Sound
<1> QED
  BY <1>2, <1>5, LocalKept DEF f

(* A "peer-transfer" event.                                                *)
LEMMA StartPeerKept ==
  ASSUME Core, NEW c \in Clusters, NEW k \in Filesystems, NEW e \in fs[c][k].requests,
         startPeer(c, k, e)
  PROVE  Core'
<1> DEFINE u == Taken(c, k, e)
           f == [u EXCEPT !.target = e.arg]
<1>1. u \in FsRecord /\ Sound(u) /\ Near(fs[c][k], u)
  BY TakenIs
<1>2. e.arg \in Nat
  <2>1. fs[c][k].requests \in SUBSET Request
    BY RecordIs, ListFields
  <2> QED
    BY <2>1 DEF Request
<1>3. /\ f.state \in {"active", "missing"} /\ UNCHANGED <<job, transfer>>
      /\ fs' = [fs EXCEPT ![c][k] = Goto(f, "pushPeerStart")]
  BY DEF startPeer, Local
<1> HIDE DEF u
<1>4. f \in FsRecord /\ SameLists(u, f) /\ f.state = u.state /\ f.news = u.news
      /\ f.mounted = u.mounted /\ f.requests = u.requests
  BY <1>1, <1>2 DEF FsRecord, SameLists
<1> HIDE DEF f
<1>5. Near(u, f)
  BY <1>1, <1>4, NearSame DEF Sound
<1>6. Near(fs[c][k], f) /\ Sound(f)
  BY <1>1, <1>5, NearTransitive DEF Near
<1>7. f.mounted \/ Unheard(f)
  BY <1>3, <1>6 DEF Sound, Early
<1>8. Near(f, Goto(f, "pushPeerStart"))
  <2>1. "pushPeerStart" \in States
    BY DEF States, PushPeerState
  <2> QED
    BY <1>3, <1>4, <1>6, <1>7, <2>1, GotoIs
<1>9. Near(fs[c][k], Goto(f, "pushPeerStart"))
  BY <1>6, <1>8, NearTransitive
<1> QED
  BY <1>3, <1>9, LocalKept

(* The early exits: a filesystem that is not mounted has an empty list in  *)
(* the cache, so that the machine does not go to activeState.              *)
LEMMA ExitEarlyKept ==
  ASSUME Core, NEW c \in Clusters, NEW k \in Filesystems, exitEarly(c, k)
  PROVE  Core'
<1> DEFINE f == fs[c][k]
           st == "pushPeer"
           g == [f EXCEPT !.state = st]
<1>1. f \in FsRecord /\ Sound(f) /\ f.state = "pushPeerStart"
  BY RecordIs DEF exitEarly
<1>2. /\ \/ fs' = [fs EXCEPT ![c][k] = Goto(f, "discovering")]
         \/ fs' = [fs EXCEPT ![c][k] = Goto(f, "active")] /\ f.target \in ToSet(f.cache)
         \/ fs' = [fs EXCEPT ![c][k] = g]
      /\ UNCHANGED <<job, transfer>>
  BY Zenon DEF exitEarly, Local
<1>3. f.target \in ToSet(f.cache) => f.mounted
  <2>1. ToSet(<< >>) = {}
    BY DEF ToSet
  <2> QED
    BY <1>1, <2>1 DEF Sound, Early, Unheard
<1>4. st \in States /\ "discovering" \in States /\ "active" \in States /\ st \in PushPeerState
      /\ st \notin Early /\ st \notin {"active", "initiator"}
      /\ "discovering" \notin Early /\ "active" \notin Early
  BY DEF States, PushPeerState, WaitingPeer, Early
<1> HIDE DEF f, st
<1>5. g \in FsRecord /\ SameLists(f, g) /\ g.state = st /\ g.news = f.news
      /\ g.mounted = f.mounted /\ g.requests = f.requests
  BY <1>1, <1>4 DEF FsRecord, SameLists
<1> HIDE DEF g
<1>6. Near(f, g)
  BY <1>1, <1>4, <1>5, NearSame
<1>7. Near(f, Goto(f, "discovering"))
  BY <1>1, <1>4, GotoIs
<1>8. f.mounted => Near(f, Goto(f, "active"))
  BY <1>1, <1>4, GotoIs
<1>9. PICK h : fs' = [fs EXCEPT ![c][k] = h] /\ Near(f, h)
  BY <1>2, <1>3, <1>6, <1>7, <1>8
<1> QED
  BY <1>2, <1>9, LocalKept DEF f

(* pushPeerState hears of a receive and starts to load.                    *)
LEMMA ExternalSnapshotsChangedKept ==
  ASSUME Core, NEW c \in Clusters, NEW k \in Filesystems, externalSnapshotsChanged(c, k)
  PROVE  Core'
<1> DEFINE f == fs[c][k]
           n == f.arrived - 1
           yes == TRUE
           st == "pushPeerLoad"
           g == [f EXCEPT !.arrived = n, !.loading = yes, !.state = st]
<1>1. f \in FsRecord /\ Sound(f) /\ f.state = "pushPeer" /\ yes \in BOOLEAN
  BY RecordIs DEF externalSnapshotsChanged
<1>2. n \in Nat
  BY <1>1 DEF FsRecord, externalSnapshotsChanged
<1>3. fs' = [fs EXCEPT ![c][k] = g] /\ UNCHANGED <<job, transfer>>
  BY DEF externalSnapshotsChanged, Local
<1>4. st \in States /\ st \in PushPeerState /\ st \notin {"active", "initiator"}
      /\ st \notin Early
  BY DEF States, PushPeerState, WaitingPeer, Early
<1>5. f.pool # << >>
  BY <1>1 DEF Sound, externalSnapshotsChanged
<1> HIDE DEF f, n, yes, st
<1>6. /\ g \in FsRecord /\ g.state = st /\ g.news = f.news
      /\ g.mounted = f.mounted /\ g.requests = f.requests
      /\ g.memory = f.memory /\ g.etcd = f.etcd /\ g.echo = f.echo /\ g.cache = f.cache
      /\ g.pool = f.pool
  BY <1>1, <1>2, <1>4 DEF FsRecord
<1> HIDE DEF g
<1>7. Sound(g)
  BY <1>1, <1>4, <1>5, <1>6 DEF Sound, Listed
<1>8. Near(f, g)
  BY <1>1, <1>4, <1>6, <1>7 DEF Near
<1> QED
  BY <1>3, <1>8, LocalKept DEF f

(* The inline load.                                                        *)
LEMMA InlineLoadKept ==
  ASSUME Core, NEW c \in Clusters, NEW k \in Filesystems, inlineLoad(c, k)
  PROVE  Core'
<1> DEFINE f == fs[c][k]
           d == Discovered(f)
           no == FALSE
           g == [d EXCEPT !.loading = no]
<1>1. f \in FsRecord /\ Sound(f) /\ f.loading /\ no \in BOOLEAN
  BY RecordIs DEF inlineLoad
<1>2. fs' = [fs EXCEPT ![c][k] = g] /\ UNCHANGED <<job, transfer>>
  BY DEF inlineLoad, Local
<1>3. f.state = "pushPeerStart" => f.mounted
  BY <1>1 DEF Sound, Early, Unheard
<1>4. Near(f, d) /\ d \in FsRecord
  BY <1>1, <1>3, DiscoveredIs
<1>5. no = FALSE
  OBVIOUS
<1> HIDE DEF f, d, no
<1>6. Sound(d)
  BY <1>4 DEF Near
<1>7. /\ g \in FsRecord /\ g.state = d.state /\ g.news = d.news
      /\ g.mounted = d.mounted /\ g.requests = d.requests
      /\ g.memory = d.memory /\ g.etcd = d.etcd /\ g.echo = d.echo /\ g.cache = d.cache
      /\ g.pool = d.pool /\ g.arrived = d.arrived /\ g.loading = no
  BY <1>1, <1>4 DEF FsRecord
<1> HIDE DEF g
<1>8. Sound(g)
  BY <1>5, <1>6, <1>7 DEF Sound, Listed, Unheard
<1>9. Near(f, g)
  BY <1>4, <1>7, <1>8 DEF Near
<1> QED
  BY <1>2, <1>9, LocalKept DEF f

(* pushPeerState hears of a list: another push, or the one it waits for.   *)
LEMMA NewSnapsOnMasterKept ==
  ASSUME Core, NEW c \in Clusters, NEW k \in Filesystems, newSnapsOnMaster(c, k)
  PROVE  Core'
<1> DEFINE f == fs[c][k]
<1>1. f \in FsRecord /\ Sound(f) /\ f.state = "pushPeerLoad"
  BY RecordIs DEF newSnapsOnMaster
<1>2. PICK latest \in f.news :
        /\ \/ fs' = [fs EXCEPT ![c][k] = [f EXCEPT !.news = f.news \ {latest}, !.state = "pushPeer"]]
           \/ fs' = [fs EXCEPT ![c][k] = Goto(mount(f), "active")]
           \/ fs' = [fs EXCEPT ![c][k] = Goto(f, "discovering")]
        /\ UNCHANGED <<job, transfer>>
  BY Zenon DEF newSnapsOnMaster, Local
<1>3. Near(f, [f EXCEPT !.news = f.news \ {latest}, !.state = "pushPeer"])
  <2> DEFINE ns == f.news \ {latest}
             st == "pushPeer"
             g == [f EXCEPT !.news = ns, !.state = st]
  <2>1. ns \in SUBSET Nat
    <3>1. f.news \in SUBSET Nat
      BY <1>1, ListFields
    <3> QED
      BY <3>1
  <2>2. st \in States /\ st \in PushPeerState /\ st \notin {"active", "initiator"}
        /\ st \notin Early
    BY DEF States, PushPeerState, WaitingPeer, Early
  <2> HIDE DEF f, ns, st
  <2>3. g \in FsRecord /\ SameLists(f, g) /\ g.state = st /\ g.news = ns
        /\ g.mounted = f.mounted /\ g.requests = f.requests
    BY <1>1, <2>1, <2>2 DEF FsRecord, SameLists
  <2> HIDE DEF g
  <2>4. Near(f, g)
    BY <1>1, <2>2, <2>3, NearSame
  <2> QED
    BY <2>4 DEF g, ns, st
<1> HIDE DEF f
<1>4. "active" \in States /\ "discovering" \in States
  BY DEF States
<1>5. Near(f, Goto(f, "discovering"))
  BY <1>1, <1>4, GotoIs DEF Early
<1>6. Near(f, Goto(mount(f), "active"))
  <2>1. mount(f) \in FsRecord /\ mount(f).mounted /\ mount(f).state = f.state /\ Near(f, mount(f))
    BY <1>1, MountIs
  <2>2. Sound(mount(f))
    BY <2>1 DEF Near
  <2>3. Near(mount(f), Goto(mount(f), "active"))
    BY <1>1, <1>4, <2>1, <2>2, GotoIs DEF Early
  <2> QED
    BY <2>1, <2>3, NearTransitive
<1>7. PICK g : fs' = [fs EXCEPT ![c][k] = g] /\ Near(f, g)
  BY <1>2, <1>3, <1>5, <1>6
<1> QED
  BY <1>2, <1>7, LocalKept DEF f

(* pushPeerState's timer.                                                  *)
LEMMA PushPeerTimeoutKept ==
  ASSUME Core, NEW c \in Clusters, NEW k \in Filesystems, pushPeerTimeout(c, k)
  PROVE  Core'
<1>1. /\ fs[c][k] \in FsRecord /\ Sound(fs[c][k]) /\ fs[c][k].state # "initiator"
      /\ "discovering" \in States
  BY RecordIs DEF pushPeerTimeout, PushPeerState, WaitingPeer, States
<1>2. fs' = [fs EXCEPT ![c][k] = Goto(fs[c][k], "discovering")] /\ UNCHANGED <<job, transfer>>
  BY DEF pushPeerTimeout, Local
<1>3. Near(fs[c][k], Goto(fs[c][k], "discovering"))
  BY <1>1, GotoIs DEF Early
<1> QED
  BY <1>2, <1>3, LocalKept, Zenon

-----------------------------------------------------------------------------
(* The initiator.                                                          *)

(* A job goes on with its stage, and the record gets a new status.         *)
LEMMA GoesOn ==
  ASSUME Core, NEW c \in Clusters, NEW k \in Filesystems, job[c][k].at \notin {"none", "applied"},
         NEW table, Table(table), NEW status \in Statuses, NEW nj \in JobRecord,
         nj.id = job[c][k].id, nj.stage = job[c][k].stage, nj.dir = job[c][k].dir,
         nj.at \notin {"none", "applied"},
         nj.at = "stream" =>
           nj.to \in ToSet(nj.left)
                       \cup ToSet(table[Dest(transfer[job[c][k].id])][job[c][k].stage].pool),
         job' = [job EXCEPT ![c][k] = nj], fs' = table,
         transfer' = [transfer EXCEPT ![job[c][k].id] =
                        [transfer[job[c][k].id] EXCEPT !.status = status]]
  PROVE  Core'
<1> DEFINE i == job[c][k].id
           t == transfer[i]
           nt == [t EXCEPT !.status = status]
<1>1. /\ i \in Transfers /\ t \in TransferRecord /\ Delivered(t, fs)
      /\ t.index <= t.total /\ t.client # "none" /\ Working(job[c][k], c, k, t, fs)
  BY Running
<1>2. Delivered(t, table)
  BY <1>1, DeliveredKept, Zenon
<1>3. /\ nt \in TransferRecord /\ Delivered(nt, table) /\ Dest(nt) = Dest(t)
      /\ nt.index = t.index /\ nt.total = t.total /\ nt.client = t.client /\ nt.goal = t.goal
      /\ nt.by = t.by /\ nt.dir = t.dir /\ nt.fs = t.fs
  BY <1>1, <1>2, StatusIs, Zenon
<1>4. transfer' = [transfer EXCEPT ![i] = nt]
  OBVIOUS
<1> HIDE DEF nt
<1>5. Working(nj, c, k, nt, table)
  BY <1>1, <1>3, Zenon DEF Working
<1> HIDE DEF i, t
<1> QED
  BY <1>1, <1>3, <1>4, <1>5, JobStep, Zenon DEF i

(* The cluster that sends and the one that receives, as the job sees them. *)
LEMMA Ends ==
  ASSUME Core, NEW c \in Clusters, NEW k \in Filesystems, job[c][k].at # "none"
  PROVE  /\ Destination(job[c][k].id) = Dest(transfer[job[c][k].id])
         /\ Destination(job[c][k].id) \in Clusters /\ Source(job[c][k].id) \in Clusters
         /\ job[c][k].dir = "push" => Destination(job[c][k].id) = Peer(c)
         /\ job[c][k].dir = "pull" => Destination(job[c][k].id) = c
         /\ job[c][k].dir \in {"push", "pull"}
<1> DEFINE i == job[c][k].id
<1>1. transfer[i].by = c /\ transfer[i].dir = job[c][k].dir /\ job[c][k].dir \in {"push", "pull"}
  BY Running DEF Working, JobRecord
<1>2. Peer(c) \in Clusters /\ Peer(Peer(c)) = c
  BY PeerIs
<1> QED
  BY <1>1, <1>2, Zenon DEF Destination, Source, Dest

(* The peer is told what to expect.                                        *)
LEMMA ToldTable ==
  ASSUME Core, NEW d \in Clusters, NEW s \in Filesystems, NEW to \in Nat
  PROVE  Table(RegisterTransfer(d, s, to))
<1>1. fs \in [Clusters -> [Filesystems -> FsRecord]]
  BY DEF Core, Types
<1> DEFINE g == [fs[d][s] EXCEPT !.requests = fs[d][s].requests \cup {Item("peer", to)}]
<1>2. RegisterTransfer(d, s, to) = [fs EXCEPT ![d][s] = g]
  BY <1>1 DEF RegisterTransfer
<1>3. fs[d][s] \in FsRecord /\ Sound(fs[d][s])
  BY RecordIs
<1>4. Near(fs[d][s], g)
  BY <1>3, ToldIs
<1> HIDE DEF g
<1>5. Table([fs EXCEPT ![d][s] = g])
  BY <1>4, TableUpdate
<1> QED
  BY <1>2, <1>5

(* A destination that ends with a snapshot has it.                         *)
LEMMA UpToDateIsThere ==
  ASSUME NEW p \in Seq(Nat), NEW q \in Seq(Nat), NEW pool, NEW to, to # NilSnap,
         restrictSnapshots(p, to).found, ToSet(q) \subseteq ToSet(pool) \cup {NilSnap},
         canApply(restrictSnapshots(p, to).snaps, q).err = "ToSnapsUpToDate"
  PROVE  to \in ToSet(pool)
<1> DEFINE cut == restrictSnapshots(p, to).snaps
<1>1. cut \in Seq(Nat) /\ Last(cut) = to
  BY RestrictIs
<1> HIDE DEF cut
<1>2. q # << >> /\ Last(cut) = Last(q)
  BY <1>1, CanApplyIs DEF cut
<1>3. Last(q) \in ToSet(q)
  BY <1>2, ToSetIs
<1> QED
  BY <1>1, <1>2, <1>3

(* The job when the attempt is about to send.                              *)
LEMMA SendingIs ==
  ASSUME NEW j \in JobRecord, NEW from \in Nat, NEW to \in Nat
  PROVE  LET nj == [j EXCEPT !.at = "send", !.from = from, !.to = to]
         IN /\ nj \in JobRecord /\ nj.id = j.id /\ nj.stage = j.stage /\ nj.dir = j.dir
            /\ nj.at = "send"
<1> DEFINE at == "send"
           nj == [j EXCEPT !.at = at, !.from = from, !.to = to]
<1>1. at \in Places
  BY DEF Places
<1>2. at = "send"
  OBVIOUS
<1> HIDE DEF at
<1>3. nj \in JobRecord /\ nj.id = j.id /\ nj.stage = j.stage /\ nj.dir = j.dir /\ nj.at = at
  BY <1>1, Zenon DEF JobRecord
<1> QED
  BY <1>2, <1>3

(* retryPush.                                                              *)
LEMMA RetryPushKept ==
  ASSUME Core, NEW c \in Clusters, NEW k \in Filesystems, retryPush(c, k)
  PROVE  Core'
<1> DEFINE j      == job[c][k]
           s      == j.stage
           own    == fs[c][s]
           remote == fs[Peer(c)][s]
           to     == IF j.to = NilSnap THEN Latest(own.cache) ELSE j.to
           cut    == restrictSnapshots(own.memory, to)
           range  == canApply(cut.snaps, remote.cache)
           asked  == CommitsKnown(remote) /\ to # NilSnap /\ cut.found
           told   == RegisterTransfer(Peer(c), s, range.toSnap)
           nj     == [j EXCEPT !.at = "send", !.from = range.fromSnap, !.to = to]
<1>1. /\ j.at = "try" /\ j.dir = "push"
      /\ \/ asked /\ range.err = "ToSnapsUpToDate" /\ StageDone(c, k, to, fs)
         \/ /\ job' = [job EXCEPT ![c][k] = nj] /\ fs' = told
            /\ transfer' = [transfer EXCEPT ![j.id] = [transfer[j.id] EXCEPT !.status = "sending"]]
         \/ Retry(c, k, to, fs)
         \/ Retry(c, k, to, told)
  <2> HIDE DEF told, range, cut, asked, to
  <2> QED
    BY Zenon DEF retryPush, j, s, own, remote, to, cut, range, asked, told
<1>2. j \in JobRecord /\ s \in Filesystems /\ j.to \in Nat
  BY <1>1, Running, Zenon DEF JobRecord
<1>3. Peer(c) \in Clusters
  BY PeerIs
<1>4. own \in FsRecord /\ remote \in FsRecord /\ Sound(remote)
  BY <1>2, <1>3, RecordIs
<1>5. own.memory \in Seq(Nat) /\ own.cache \in Seq(Nat) /\ remote.cache \in Seq(Nat)
  BY <1>4, ListFields
<1>6. to \in Nat
  BY <1>2, <1>5, LatestIs
<1>7. cut.snaps \in Seq(Nat)
  BY <1>5, RestrictIs
<1>8. range.fromSnap \in Nat /\ range.toSnap \in Nat
  BY <1>5, <1>7, CanApplyIs, Zenon
<1>9. Table(fs) /\ Table(told)
  BY <1>2, <1>3, <1>8, Unchanged, ToldTable, Zenon
<1>10. CASE asked /\ range.err = "ToSnapsUpToDate" /\ StageDone(c, k, to, fs)
  <2>1. ToSet(remote.cache) \subseteq ToSet(remote.pool) \cup {NilSnap}
    BY <1>4 DEF Sound, Listed
  <2>2. to \in ToSet(remote.pool)
    <3>1. to # NilSnap /\ restrictSnapshots(own.memory, to).found
          /\ canApply(restrictSnapshots(own.memory, to).snaps, remote.cache).err = "ToSnapsUpToDate"
      BY <1>10, Zenon
    <3> HIDE DEF own, remote, to
    <3> QED
      BY <1>5, <2>1, <3>1, UpToDateIsThere
  <2>3. Dest(transfer[j.id]) = Peer(c)
    BY <1>1, Ends, Zenon
  <2> HIDE DEF to
  <2> QED
    BY <1>1, <1>6, <1>9, <1>10, <2>2, <2>3, StageDoneKept, Zenon
<1>11. CASE /\ job' = [job EXCEPT ![c][k] = nj] /\ fs' = told
            /\ transfer' = [transfer EXCEPT ![j.id] = [transfer[j.id] EXCEPT !.status = "sending"]]
  <2>1. /\ nj \in JobRecord /\ nj.id = j.id /\ nj.stage = j.stage /\ nj.dir = j.dir
        /\ nj.at = "send"
    <3> DEFINE from == range.fromSnap
    <3>1. from \in Nat
      BY <1>8, Zenon
    <3> HIDE DEF j, to, range, from
    <3> QED
      BY <1>2, <1>6, <3>1, SendingIs, Zenon DEF from
  <2>2. "sending" \in Statuses
    BY DEF Statuses
  <2> HIDE DEF nj, told
  <2> QED
    BY <1>1, <1>9, <1>11, <2>1, <2>2, GoesOn, Zenon
<1>12. CASE Retry(c, k, to, fs) \/ Retry(c, k, to, told)
  <2> HIDE DEF to, told
  <2> QED
    BY <1>1, <1>6, <1>9, <1>12, RetryKept, Zenon
<1> QED
  BY <1>1, <1>10, <1>11, <1>12, Zenon

(* retryPull.                                                              *)
LEMMA RetryPullKept ==
  ASSUME Core, NEW c \in Clusters, NEW k \in Filesystems, retryPull(c, k)
  PROVE  Core'
<1> DEFINE j      == job[c][k]
           s      == j.stage
           own    == fs[c][s]
           remote == fs[Peer(c)][s]
           to     == IF j.to = NilSnap THEN Latest(remote.cache) ELSE j.to
           cut    == restrictSnapshots(remote.cache, to)
           range  == canApply(cut.snaps, own.memory)
           nj     == [j EXCEPT !.at = "send", !.from = range.fromSnap, !.to = to]
<1>1. /\ j.at = "try" /\ j.dir = "pull"
      /\ \/ /\ to # NilSnap /\ cut.found /\ range.err = "ToSnapsUpToDate"
            /\ StageDone(c, k, to, fs)
         \/ /\ job' = [job EXCEPT ![c][k] = nj] /\ fs' = fs
            /\ transfer' = [transfer EXCEPT ![j.id] = [transfer[j.id] EXCEPT !.status = "sending"]]
         \/ EndJob(c, k, fs, "error")
  <2> HIDE DEF range, cut, to
  <2> QED
    BY Zenon DEF retryPull, j, s, own, remote, to, cut, range
<1>2. j \in JobRecord /\ s \in Filesystems /\ j.to \in Nat
  BY <1>1, Running, Zenon DEF JobRecord
<1>3. Peer(c) \in Clusters
  BY PeerIs
<1>4. own \in FsRecord /\ remote \in FsRecord /\ Sound(own)
  BY <1>2, <1>3, RecordIs
<1>5. own.memory \in Seq(Nat) /\ remote.cache \in Seq(Nat)
  BY <1>4, ListFields
<1>6. to \in Nat
  BY <1>2, <1>5, LatestIs
<1>7. cut.snaps \in Seq(Nat)
  BY <1>5, RestrictIs
<1>8. range.fromSnap \in Nat
  BY <1>5, <1>7, CanApplyIs
<1>9. Table(fs)
  BY Unchanged
<1>10. CASE /\ to # NilSnap /\ cut.found /\ range.err = "ToSnapsUpToDate"
            /\ StageDone(c, k, to, fs)
  <2>1. ToSet(own.memory) \subseteq ToSet(own.pool) \cup {NilSnap}
    BY <1>4 DEF Sound, Listed
  <2>2. to \in ToSet(own.pool)
    <3>1. to # NilSnap /\ restrictSnapshots(remote.cache, to).found
          /\ canApply(restrictSnapshots(remote.cache, to).snaps, own.memory).err = "ToSnapsUpToDate"
      BY <1>10, Zenon
    <3> HIDE DEF own, remote, to
    <3> QED
      BY <1>5, <2>1, <3>1, UpToDateIsThere
  <2>3. Dest(transfer[j.id]) = c
    BY <1>1, Ends, Zenon
  <2> HIDE DEF to
  <2> QED
    BY <1>1, <1>6, <1>9, <1>10, <2>2, <2>3, StageDoneKept, Zenon
<1>11. CASE /\ job' = [job EXCEPT ![c][k] = nj] /\ fs' = fs
            /\ transfer' = [transfer EXCEPT ![j.id] = [transfer[j.id] EXCEPT !.status = "sending"]]
  <2>1. /\ nj \in JobRecord /\ nj.id = j.id /\ nj.stage = j.stage /\ nj.dir = j.dir
        /\ nj.at = "send"
    <3> DEFINE from == range.fromSnap
    <3>1. from \in Nat
      BY <1>8, Zenon
    <3> HIDE DEF j, to, range, from
    <3> QED
      BY <1>2, <1>6, <3>1, SendingIs, Zenon DEF from
  <2>2. "sending" \in Statuses
    BY DEF Statuses
  <2> HIDE DEF nj
  <2> QED
    BY <1>1, <1>9, <1>11, <2>1, <2>2, GoesOn, Zenon
<1>12. CASE EndJob(c, k, fs, "error")
  BY <1>1, <1>9, <1>12, EndJobKept, Zenon DEF Statuses
<1> QED
  BY <1>1, <1>10, <1>11, <1>12, Zenon

(* push and pull open the stream: it brings the snapshot.                  *)
LEMMA SendKept ==
  ASSUME Core, NEW c \in Clusters, NEW k \in Filesystems, send(c, k)
  PROVE  Core'
<1> DEFINE j    == job[c][k]
           pool == fs[Source(j.id)][j.stage].pool
           left == SendStream(pool, j.from, j.to)
           at   == "stream"
           nj   == [j EXCEPT !.at = at, !.left = left]
<1>1. /\ j.at = "send"
      /\ \/ /\ CanSend(pool, j.from, j.to)
            /\ job' = [job EXCEPT ![c][k] = nj] /\ fs' = fs
            /\ transfer' = [transfer EXCEPT ![j.id] = [transfer[j.id] EXCEPT !.status = "sending"]]
         \/ Retry(c, k, j.to, fs)
  BY Zenon DEF send, Opens
<1>2. j \in JobRecord /\ j.stage \in Filesystems /\ j.to \in Nat
  BY <1>1, Running, Zenon DEF JobRecord
<1>3. pool \in Seq(Nat)
  BY <1>1, <1>2, Ends, RecordIs, ListFields
<1>4. Table(fs)
  BY Unchanged
<1>5. CASE /\ CanSend(pool, j.from, j.to)
           /\ job' = [job EXCEPT ![c][k] = nj] /\ fs' = fs
           /\ transfer' = [transfer EXCEPT ![j.id] = [transfer[j.id] EXCEPT !.status = "sending"]]
  <2>1. left \in Seq(Nat) /\ j.to \in ToSet(left)
    <3> HIDE DEF pool, j
    <3> QED
      BY <1>3, <1>5, StreamBrings
  <2>2. at \in Places /\ at \notin {"none", "applied"} /\ "sending" \in Statuses
    BY DEF Places, Statuses
  <2>3. /\ nj \in JobRecord /\ nj.id = j.id /\ nj.stage = j.stage /\ nj.dir = j.dir
        /\ nj.at = at /\ nj.to = j.to /\ nj.left = left
    <3> HIDE DEF j, left, at
    <3> QED
      BY <1>2, <2>1, <2>2 DEF JobRecord
  <2> HIDE DEF nj, left, at, pool
  <2> QED
    BY <1>1, <1>4, <1>5, <2>1, <2>2, <2>3, GoesOn, Zenon
<1>6. CASE Retry(c, k, j.to, fs)
  BY <1>1, <1>2, <1>4, <1>6, RetryKept
<1> QED
  BY <1>1, <1>5, <1>6

(* A snapshot moves from the stream into the pool.                         *)
LEMMA RecvSnapshotKept ==
  ASSUME Core, NEW c \in Clusters, NEW k \in Filesystems, recvSnapshot(c, k)
  PROVE  Core'
<1> DEFINE j    == job[c][k]
           i    == j.id
           s    == j.stage
           d    == Destination(j.id)
           snap == Head(j.left)
           f    == fs[d][s]
           g    == [f EXCEPT !.pool = Append(f.pool, snap)]
           left == Tail(j.left)
           nj   == [j EXCEPT !.left = left]
<1>1. j.at = "stream" /\ j.left # << >>
  BY Zenon DEF recvSnapshot
<1>2. /\ j \in JobRecord /\ s \in Filesystems /\ j.to \in Nat /\ j.left \in Seq(Nat)
      /\ i \in Transfers /\ transfer[i] \in TransferRecord
      /\ j.to \in ToSet(j.left) \cup ToSet(fs[Dest(transfer[i])][s].pool)
  BY <1>1, Running DEF JobRecord, Working
<1>3. d \in Clusters /\ d = Dest(transfer[i])
  BY <1>1, Ends
<1>4. f \in FsRecord /\ Sound(f)
  BY <1>2, <1>3, RecordIs
<1>5. snap \in Nat /\ left \in Seq(Nat) /\ ToSet(j.left) = {snap} \cup ToSet(left)
  BY <1>1, <1>2, ToSetIs
<1>6. \/ /\ fs' = [fs EXCEPT ![d][s] = g] /\ job' = [job EXCEPT ![c][k] = nj]
         /\ transfer' = transfer
      \/ Retry(c, k, j.to, fs)
  <2>1. /\ fs \in [Clusters -> [Filesystems -> FsRecord]]
        /\ job \in [Clusters -> [Filesystems -> JobRecord]]
    BY DEF Core, Types
  <2>2. \/ /\ fs' = [fs EXCEPT ![d][s].pool = Append(@, snap)]
           /\ job' = [job EXCEPT ![c][k].left = Tail(@)]
           /\ transfer' = transfer
        \/ Retry(c, k, j.to, fs)
    BY Zenon DEF recvSnapshot
  <2> QED
    BY <1>2, <1>3, <2>1, <2>2, Zenon
<1>7. CASE /\ fs' = [fs EXCEPT ![d][s] = g] /\ job' = [job EXCEPT ![c][k] = nj]
           /\ transfer' = transfer
  <2>1. Near(f, g) /\ ToSet(g.pool) = ToSet(f.pool) \cup {snap}
    <3> HIDE DEF f, snap
    <3> QED
      BY <1>4, <1>5, ReceivedIs, Zenon
  <2>2. Table([fs EXCEPT ![d][s] = g])
    <3> HIDE DEF g, d
    <3> QED
      BY <1>2, <1>3, <2>1, TableUpdate, Zenon
  <2>3. [fs EXCEPT ![d][s] = g][d][s] = g
    BY <1>2, <1>3, Zenon DEF Core, Types
  <2>4. /\ nj \in JobRecord /\ nj.id = j.id /\ nj.stage = j.stage /\ nj.dir = j.dir
        /\ nj.at = "stream" /\ nj.to = j.to /\ nj.left = left
    <3> HIDE DEF j, left
    <3> QED
      BY <1>1, <1>2, <1>5 DEF JobRecord
  <2>5. nj.to \in ToSet(nj.left) \cup ToSet([fs EXCEPT ![d][s] = g][d][s].pool)
    <3> HIDE DEF nj, g, d, f, snap, left, j
    <3> QED
      BY <1>2, <1>3, <1>5, <2>1, <2>3, <2>4, Zenon DEF f
  <2>6. transfer[i].status \in Statuses
        /\ transfer' = [transfer EXCEPT ![i] = [transfer[i] EXCEPT !.status = transfer[i].status]]
    <3>1. transfer \in [Transfers -> TransferRecord]
      BY DEF Core, Types
    <3>2. transfer[i] = [transfer[i] EXCEPT !.status = transfer[i].status]
      <4> DEFINE t == transfer[i]
      <4> HIDE DEF t
      <4>1. t \in TransferRecord
        BY <1>2 DEF t
      <4>2. t = [t EXCEPT !.status = t.status]
        BY <4>1 DEF TransferRecord
      <4> QED
        BY <4>2 DEF t
    <3>3. transfer[i].status \in Statuses
      BY <1>2 DEF TransferRecord
    <3> HIDE DEF i
    <3> QED
      BY <1>2, <1>7, <3>1, <3>2, <3>3, Zenon
  <2> DEFINE table == [fs EXCEPT ![d][s] = g]
             status == transfer[i].status
  <2>7. /\ Table(table) /\ nj.to \in ToSet(nj.left) \cup ToSet(table[Dest(transfer[i])][s].pool)
        /\ fs' = table /\ job' = [job EXCEPT ![c][k] = nj]
    BY <1>3, <1>7, <2>2, <2>5, Zenon
  <2> HIDE DEF nj, table
  <2> QED
    BY <1>1, <2>4, <2>6, <2>7, GoesOn, Zenon
<1>8. CASE Retry(c, k, j.to, fs)
  BY <1>1, <1>2, <1>8, Unchanged, RetryKept
<1> QED
  BY <1>6, <1>7, <1>8, Zenon

(* The stream has ended: what it was to bring is in the pool.              *)
LEMMA RecvEndsKept ==
  ASSUME Core, NEW c \in Clusters, NEW k \in Filesystems, recvEnds(c, k)
  PROVE  Core'
<1> DEFINE j == job[c][k]
           s == j.stage
           d == Destination(j.id)
           g == notifyNewSnapshotsAfterPush(fs[d][s])
           one == [fs EXCEPT ![d][s] = g]
           notified == IF j.dir = "pull" THEN fs ELSE one
<1>1. j.at = "stream" /\ j.left = << >>
  BY Zenon DEF recvEnds, Streamed
<1>2. /\ j \in JobRecord /\ s \in Filesystems /\ j.to \in Nat
      /\ j.to \in ToSet(j.left) \cup ToSet(fs[Dest(transfer[j.id])][s].pool)
  BY <1>1, Running DEF JobRecord, Working
<1>3. d \in Clusters /\ d = Dest(transfer[j.id])
  BY <1>1, Ends
<1>4. j.to \in ToSet(fs[d][s].pool)
  <2>1. ToSet(j.left) = {}
    BY <1>1 DEF ToSet
  <2> HIDE DEF d, s
  <2> QED
    BY <1>2, <1>3, <2>1
<1>5. \/ StageDone(c, k, j.to, notified)
      \/ Retry(c, k, j.to, fs) \/ Retry(c, k, j.to, notified)
  BY DEF recvEnds
<1>6. Table(fs) /\ Table(notified)
  <2>1. fs[d][s] \in FsRecord /\ Sound(fs[d][s])
    BY <1>2, <1>3, RecordIs
  <2>2. Near(fs[d][s], g)
    <3>1. fs[d][s].pool # << >>
      BY <1>4 DEF ToSet
    <3> HIDE DEF d, s
    <3> QED
      BY <2>1, <3>1, NotifiedIs
  <2>3. Table(one)
    <3> HIDE DEF g, d
    <3> QED
      BY <1>2, <1>3, <2>2, TableUpdate, Zenon
  <2> QED
    BY <2>3, Unchanged
<1>7. j.to \in ToSet(notified[d][s].pool)
  BY <1>2, <1>3, <1>4, <1>6, Zenon DEF Table, Near
<1> HIDE DEF notified
<1>8. CASE StageDone(c, k, j.to, notified)
  BY <1>1, <1>2, <1>3, <1>6, <1>7, <1>8, StageDoneKept, Zenon
<1>9. CASE Retry(c, k, j.to, fs) \/ Retry(c, k, j.to, notified)
  BY <1>1, <1>2, <1>6, <1>9, RetryKept
<1> QED
  BY <1>5, <1>8, <1>9

(* A machine without a job.                                                *)
LEMMA NoJobIs == NoJob \in JobRecord /\ NoJob.id \notin Transfers /\ NoJob.at = "none"
BY TransferBoundsAssumption, NilSnapIsZero DEF NoJob, JobRecord, Places, Transfers

(* The job of a new stage.                                                 *)
LEMMA NewStageIs ==
  ASSUME NEW i \in Transfers, transfer[i] \in TransferRecord, NEW k \in Nat, NEW stage \in Nat
  PROVE  /\ NewStage(i, k, stage) \in JobRecord /\ NewStage(i, k, stage).id = i
         /\ NewStage(i, k, stage).dir = transfer[i].dir /\ NewStage(i, k, stage).at = "try"
         /\ NewStage(i, k, stage).stage = stage
<1> DEFINE to == StageTarget(k, stage)
           dir == transfer[i].dir
           at == "try"
           no == NoJob
           nj == [no EXCEPT !.id = i, !.dir = dir, !.at = at, !.stage = stage, !.to = to]
<1>1. /\ to \in Nat /\ dir \in {"push", "pull"} /\ i \in 0 .. MaxTransfers
      /\ at \in Places
  BY NilSnapIsZero, TransferBoundsAssumption
  DEF StageTarget, Origin, TransferRecord, Transfers, Places
<1>2. NewStage(i, k, stage) = nj
  BY DEF NewStage
<1>3. no \in JobRecord
  BY NoJobIs
<1>4. dir = transfer[i].dir /\ at = "try"
  OBVIOUS
<1> HIDE DEF to, dir, at, no
<1>5. nj \in JobRecord
  BY <1>1, <1>3 DEF JobRecord
<1>6. nj.id = i /\ nj.dir = dir /\ nj.at = at /\ nj.stage = stage
  BY <1>3 DEF JobRecord
<1> QED
  BY <1>2, <1>4, <1>5, <1>6

(* applyPath after a stage.                                                *)
LEMMA AppliedKept ==
  ASSUME Core, NEW c \in Clusters, NEW k \in Filesystems, applied(c, k)
  PROVE  Core'
<1> DEFINE j == job[c][k]
           s == j.stage
           i == j.id
           t == transfer[i]
           g == maybeMountFilesystem(fs[c][s])
           table == [fs EXCEPT ![c][s] = g]
           n == incrementPollResultIndex(t)
           nt == [t EXCEPT !.index = n]
<1>1. j.at = "applied"
  BY Zenon DEF applied
<1>2. /\ j \in JobRecord /\ i \in Transfers /\ t \in TransferRecord /\ s \in Filesystems
      /\ t.index <= t.total /\ t.client # "none" /\ Delivered(t, fs)
      /\ Working(j, c, k, t, fs)
  BY <1>1, Running
<1>3. s \in 1 .. k /\ j.dir = t.dir /\ t.by = c /\ t.fs = k /\ Len(t.goal) = s /\ k \in Nat
  BY <1>1, <1>2, TransferBoundsAssumption DEF Working, Filesystems
<1>4. Table(table)
  <2>1. fs[c][s] \in FsRecord /\ Sound(fs[c][s])
    BY <1>2, RecordIs
  <2>2. Near(fs[c][s], g)
    BY <2>1, MountIs
  <2> HIDE DEF g
  <2> QED
    BY <1>2, <2>2, TableUpdate
<1>5. n \in Nat /\ n <= t.total
  BY <1>2 DEF TransferRecord, incrementPollResultIndex
<1>6. \/ /\ transfer' = [transfer EXCEPT ![i] = nt] /\ s = k
         /\ job' = [job EXCEPT ![c][k] = NoJob]
         /\ fs' = [table EXCEPT ![c][k] = [table[c][k] EXCEPT !.state = "discovering"]]
      \/ /\ transfer' = [transfer EXCEPT ![i] = nt] /\ s # k
         /\ job' = [job EXCEPT ![c][k] = NewStage(i, k, s + 1)] /\ fs' = table
      \/ EndJob(c, k, fs, t.status)
  <2>1. \/ /\ transfer' = [transfer EXCEPT ![i].index = n] /\ s = k
           /\ job' = [job EXCEPT ![c][k] = NoJob]
           /\ fs' = [table EXCEPT ![c][k].state = "discovering"]
        \/ /\ transfer' = [transfer EXCEPT ![i].index = n] /\ s # k
           /\ job' = [job EXCEPT ![c][k] = NewStage(i, k, s + 1)] /\ fs' = table
        \/ EndJob(c, k, fs, t.status)
    BY Zenon DEF applied
  <2> HIDE DEF table, n
  <2> QED
    BY <2>1
<1> HIDE DEF n, table
<1>7. /\ nt \in TransferRecord /\ nt.index = n /\ nt.total = t.total /\ nt.client = t.client
      /\ nt.goal = t.goal /\ nt.by = t.by /\ nt.dir = t.dir /\ nt.fs = t.fs
  <2> HIDE DEF t
  <2> QED
    BY <1>2, <1>5 DEF TransferRecord
<1> HIDE DEF nt
<1>8. Dest(nt) = Dest(t)
  BY <1>7 DEF Dest
<1>9. Delivered(nt, table)
  <2>1. Delivered(t, table)
    BY <1>2, <1>4, DeliveredKept
  <2> HIDE DEF t
  <2> QED
    BY <1>7, <1>8, <2>1 DEF Delivered
<1>10. nt.index <= nt.total /\ nt.client # "none"
  BY <1>2, <1>5, <1>7
<1>11. CASE /\ transfer' = [transfer EXCEPT ![i] = nt] /\ s = k
            /\ job' = [job EXCEPT ![c][k] = NoJob]
            /\ fs' = [table EXCEPT ![c][k] = [table[c][k] EXCEPT !.state = "discovering"]]
  <2>1. NoJob \in JobRecord
    BY TransferBoundsAssumption, NilSnapIsZero DEF NoJob, JobRecord, Places
  <2> DEFINE id == job[c][k].id
  <2>2. id = job[c][k].id /\ id \in Transfers /\ transfer' = [transfer EXCEPT ![id] = nt]
    BY <1>2, <1>11
  <2> HIDE DEF id
  <2> QED
    BY <1>4, <1>7, <1>9, <1>10, <1>11, <2>1, <2>2, JobStep
<1>12. CASE /\ transfer' = [transfer EXCEPT ![i] = nt] /\ s # k
            /\ job' = [job EXCEPT ![c][k] = NewStage(i, k, s + 1)] /\ fs' = table
  <2> DEFINE nj == NewStage(i, k, s + 1)
  <2>1. s + 1 \in Nat /\ s + 1 \in 1 .. k /\ s + 1 - 1 = s
    BY <1>3, <1>12
  <2>2. nj \in JobRecord /\ nj.id = i /\ nj.dir = t.dir /\ nj.at = "try" /\ nj.stage = s + 1
    BY <1>2, <1>3, <2>1, NewStageIs
  <2> HIDE DEF nj
  <2>3. Working(nj, c, k, nt, table)
    BY <1>2, <1>3, <1>7, <2>1, <2>2 DEF Working
  <2> DEFINE id == job[c][k].id
  <2>4. id = job[c][k].id /\ id \in Transfers /\ transfer' = [transfer EXCEPT ![id] = nt]
        /\ nj.id = id /\ job' = [job EXCEPT ![c][k] = nj]
    BY <1>2, <1>12, <2>2 DEF nj
  <2> HIDE DEF id
  <2> QED
    BY <1>4, <1>7, <1>9, <1>10, <1>12, <2>2, <2>3, <2>4, JobStep
<1>13. CASE EndJob(c, k, fs, t.status)
  <2>1. t.status \in Statuses
    BY <1>2 DEF TransferRecord
  <2> QED
    BY <1>1, <1>13, <2>1, Unchanged, EndJobKept
<1> QED
  BY <1>6, <1>11, <1>12, <1>13

-----------------------------------------------------------------------------
(* Transfers begin.                                                        *)

(* Pools that lose nothing.                                                *)
PoolsGrow(table) ==
  \A x \in Clusters, y \in Filesystems : ToSet(fs[x][y].pool) \subseteq ToSet(table[x][y].pool)

(* What was delivered stays, and jobs go on, with such pools.              *)
LEMMA PoolsKept ==
  ASSUME NEW t \in TransferRecord, NEW table, PoolsGrow(table)
  PROVE  /\ Delivered(t, fs) => Delivered(t, table)
         /\ \A c \in Clusters, k \in Filesystems, j \in JobRecord :
              Working(j, c, k, t, fs) => Working(j, c, k, t, table)
<1>1. Dest(t) \in Clusters
  BY DestIs
<1>2. ASSUME Delivered(t, fs) PROVE Delivered(t, table)
  <2>1. Len(t.goal) \in Nat /\ Len(t.goal) <= Depth /\ Depth \in Nat
    BY <1>2, TransferBoundsAssumption DEF Delivered, TransferRecord
  <2>2. \A s \in 1 .. Len(t.goal) : s \in Filesystems
    BY <2>1 DEF Filesystems
  <2> QED
    BY <1>1, <1>2, <2>2 DEF Delivered, PoolsGrow
<1>3. ASSUME NEW c \in Clusters, NEW k \in Filesystems, NEW j \in JobRecord,
             Working(j, c, k, t, fs)
      PROVE  Working(j, c, k, t, table)
  <2>1. j.stage \in Filesystems
    BY <1>3, TransferBoundsAssumption DEF Working, Filesystems
  <2> QED
    BY <1>1, <1>3, <2>1 DEF Working, PoolsGrow
<1> QED
  BY <1>2, <1>3

(* The record of a transfer that begins.                                   *)
LEMMA BegunIs ==
  ASSUME NEW t \in TransferRecord, NEW k \in Nat \ {0}
  PROVE  LET nt == [t EXCEPT !.index = 1, !.total = k, !.status = "syncing metadata"]
         IN /\ nt \in TransferRecord /\ nt.index <= nt.total /\ nt.client = t.client
            /\ nt.goal = t.goal /\ nt.by = t.by /\ nt.dir = t.dir /\ nt.fs = t.fs
<1> DEFINE one == 1
           st == "syncing metadata"
           nt == [t EXCEPT !.index = one, !.total = k, !.status = st]
<1>1. one \in Nat /\ st \in Statuses /\ one <= k
  BY DEF Statuses
<1> HIDE DEF one, st
<1>2. /\ nt \in TransferRecord /\ nt.index = one /\ nt.total = k /\ nt.client = t.client
      /\ nt.goal = t.goal /\ nt.by = t.by /\ nt.dir = t.dir /\ nt.fs = t.fs
  BY <1>1 DEF TransferRecord
<1> HIDE DEF nt
<1>3. nt.index <= nt.total
  BY <1>1, <1>2
<1> QED
  BY <1>2, <1>3 DEF nt, one, st

(* The fsMachine begins the transfer it is asked for, or refuses.          *)
LEMMA StartTransferKept ==
  ASSUME Core, NEW c \in Clusters, NEW k \in Filesystems, NEW e \in fs[c][k].requests,
         startTransfer(c, k, e)
  PROVE  Core'
<1> DEFINE f == Taken(c, k, e)
           i == e.arg
           t == transfer[i]
           no == {}
           st == "initiator"
           g == [f EXCEPT !.state = st, !.news = no]
           nj == NewStage(i, k, 1)
           nt == [t EXCEPT !.index = 1, !.total = k, !.status = "syncing metadata"]
<1>1. /\ e.op = "transfer" /\ f.state \in {"active", "missing"}
      /\ \/ /\ fs' = [fs EXCEPT ![c][k] = g] /\ job' = [job EXCEPT ![c][k] = nj]
            /\ transfer' = [transfer EXCEPT ![i] = nt]
         \/ /\ fs' = [fs EXCEPT ![c][k] = Goto(f, "discovering")]
            /\ UNCHANGED <<job, transfer>>
  BY DEF startTransfer, Local, Goto
<1>2. /\ f \in FsRecord /\ Sound(f) /\ Near(fs[c][k], f) /\ f.state = fs[c][k].state
      /\ f.requests = fs[c][k].requests \ {e} /\ f.pool = fs[c][k].pool
  BY TakenIs
<1>3. CASE /\ fs' = [fs EXCEPT ![c][k] = Goto(f, "discovering")]
           /\ UNCHANGED <<job, transfer>>
  <2> HIDE DEF f
  <2>1. Near(f, Goto(f, "discovering"))
    BY <1>1, <1>2, GotoIs DEF States, Early
  <2>2. Near(fs[c][k], Goto(f, "discovering"))
    BY <1>2, <2>1, NearTransitive
  <2> QED
    BY <1>3, <2>2, LocalKept
<1>4. CASE /\ fs' = [fs EXCEPT ![c][k] = g] /\ job' = [job EXCEPT ![c][k] = nj]
           /\ transfer' = [transfer EXCEPT ![i] = nt]
  <2>1. /\ fs \in [Clusters -> [Filesystems -> FsRecord]]
        /\ job \in [Clusters -> [Filesystems -> JobRecord]]
        /\ transfer \in [Transfers -> TransferRecord]
    BY DEF Core, Types
  <2>2. /\ i \in Transfers /\ job[c][k].id # i /\ t.by = c /\ t.fs = k /\ t.client # "none"
        /\ t.goal = << >>
    BY <1>1 DEF Core, RequestsInv, Waiting
  <2>3. job[c][k].id \notin Transfers
    BY <1>1, <1>2 DEF Core, JobsInv
  <2>4. t \in TransferRecord /\ k \in Nat \ {0} /\ k \in 1 .. Depth /\ 1 \in 1 .. k
    BY <2>1, <2>2, TransferBoundsAssumption DEF Filesystems
  <2>5. /\ nt \in TransferRecord /\ nt.index <= nt.total /\ nt.client = t.client
        /\ nt.goal = t.goal /\ nt.by = t.by /\ nt.dir = t.dir /\ nt.fs = t.fs
    BY <2>4, BegunIs, Zenon
  <2>6. nj \in JobRecord /\ nj.id = i /\ nj.dir = t.dir /\ nj.at = "try" /\ nj.stage = 1
    BY <2>2, <2>4, NewStageIs
  <2>7. st \in States /\ no \in SUBSET Nat /\ st = "initiator" /\ no = {}
    BY DEF States
  <2> HIDE DEF nt, nj, no, st, f
  <2>8. /\ g \in FsRecord /\ SameLists(f, g) /\ g.state = st /\ g.news = no
        /\ g.requests = f.requests /\ g.pool = f.pool
    BY <1>2, <2>7 DEF FsRecord, SameLists
  <2> HIDE DEF g
  <2>9. Sound(g)
    BY <1>2, <2>7, <2>8 DEF Sound, SameLists, Listed, Early
  <2>10. /\ fs' \in [Clusters -> [Filesystems -> FsRecord]] /\ fs'[c][k] = g
         /\ \A x \in Clusters, y \in Filesystems : ~ (x = c /\ y = k) => fs'[x][y] = fs[x][y]
    BY <1>4, <2>1, <2>8, UpdateIs
  <2>11. /\ job' \in [Clusters -> [Filesystems -> JobRecord]] /\ job'[c][k] = nj
         /\ \A x \in Clusters, y \in Filesystems : ~ (x = c /\ y = k) => job'[x][y] = job[x][y]
    BY <1>4, <2>1, <2>6, UpdateIs
  <2>12. /\ transfer' \in [Transfers -> TransferRecord] /\ transfer'[i] = nt
         /\ \A a \in Transfers : a # i => transfer'[a] = transfer[a]
    BY <1>4, <2>1, <2>2, <2>5
  <2>13. PoolsGrow(fs')
    BY <1>2, <2>8, <2>10 DEF PoolsGrow
  <2>14. \A a \in Transfers : Delivered(transfer[a], fs')
    BY <2>1, <2>13, PoolsKept DEF Core, TransfersInv
  <2>15. SoundInv'
    BY <2>9, <2>10 DEF Core, SoundInv
  <2>16. TransfersInv'
    <3> SUFFICES ASSUME NEW a \in Transfers
                 PROVE  /\ transfer'[a].index <= transfer'[a].total
                        /\ transfer'[a].client = "none" => transfer'[a].goal = << >>
                        /\ Delivered(transfer'[a], fs')
      BY DEF TransfersInv
    <3>1. CASE a = i
      <4>1. Delivered(nt, fs')
        BY <2>2, <2>5, TransferBoundsAssumption DEF Delivered
      <4> QED
        BY <2>2, <2>5, <2>12, <3>1, <4>1
    <3>2. CASE a # i
      BY <2>12, <2>14, <3>2 DEF Core, TransfersInv
    <3> QED
      BY <3>1, <3>2
  <2>17. JobsInv'
    <3> SUFFICES ASSUME NEW x \in Clusters, NEW y \in Filesystems
                 PROVE  /\ (fs'[x][y].state = "initiator") <=> (job'[x][y].id \in Transfers)
                        /\ job'[x][y].at # "none" => job'[x][y].id \in Transfers
                        /\ job'[x][y].id \in Transfers =>
                             Working(job'[x][y], x, y, transfer'[job'[x][y].id], fs')
      BY Zenon DEF JobsInv
    <3>1. CASE x = c /\ y = k
      <4>1. Working(nj, c, k, nt, fs')
        BY <2>2, <2>4, <2>5, <2>6 DEF Working
      <4> QED
        BY <2>2, <2>6, <2>7, <2>8, <2>10, <2>11, <2>12, <3>1, <4>1
    <3>2. CASE ~ (x = c /\ y = k)
      <4>1. ASSUME job[x][y].id \in Transfers
            PROVE  /\ Working(job[x][y], x, y, transfer[job[x][y].id], fs')
                   /\ job[x][y].id # i
        <5>1. Working(job[x][y], x, y, transfer[job[x][y].id], fs)
          BY <4>1 DEF Core, JobsInv
        <5>2. job[x][y] \in JobRecord /\ transfer[job[x][y].id] \in TransferRecord
          BY <2>1, <4>1
        <5>3. Working(job[x][y], x, y, transfer[job[x][y].id], fs')
          BY <2>13, <5>1, <5>2, PoolsKept
        <5>4. transfer[job[x][y].id].by = x /\ transfer[job[x][y].id].fs = y
          BY <5>1 DEF Working
        <5> QED
          BY <2>2, <3>2, <5>3, <5>4
      <4> QED
        BY <2>10, <2>11, <2>12, <3>2, <4>1 DEF Core, JobsInv
    <3> QED
      BY <3>1, <3>2
  <2>18. RequestsInv'
    <3> SUFFICES ASSUME NEW x \in Clusters, NEW y \in Filesystems, NEW a \in fs'[x][y].requests,
                        a.op = "transfer"
                 PROVE  /\ a.arg \in Transfers /\ job'[x][y].id # a.arg
                        /\ Waiting(x, y, transfer'[a.arg])
      BY DEF RequestsInv
    <3>1. a \in fs[x][y].requests /\ ~ (x = c /\ y = k /\ a = e)
      BY <1>2, <2>8, <2>10
    <3>2. a.arg \in Transfers /\ job[x][y].id # a.arg /\ Waiting(x, y, transfer[a.arg])
      BY <3>1 DEF Core, RequestsInv
    <3>3. a.arg # i
      <4>1. a \in Request /\ e \in Request
        BY <3>1, RecordIs, ListFields
      <4>2. ASSUME a.arg = e.arg PROVE a = e
        BY <1>1, <4>1, <4>2 DEF Request
      <4>3. a.arg = i => x = c /\ y = k
        BY <2>2, <3>2 DEF Waiting
      <4> QED
        BY <3>1, <4>2, <4>3
    <3> QED
      BY <2>6, <2>11, <2>12, <3>2, <3>3
  <2> QED
    BY <2>10, <2>11, <2>12, <2>15, <2>16, <2>17, <2>18 DEF Core, Types
<1> QED
  BY <1>1, <1>3, <1>4

(* The next transfer is one that nobody asked for.                         *)
LEMMA NextTransferIs ==
  ASSUME \E i \in Transfers : transfer[i].client = "none"
  PROVE  NextTransfer \in Transfers /\ transfer[NextTransfer].client = "none"
<1> DEFINE F == {i \in Transfers : transfer[i].client = "none"}
<1>1. Transfers \subseteq Nat /\ \A i \in Transfers : 1 .. i - 1 \subseteq Transfers
  BY TransferBoundsAssumption DEF Transfers
<1>2. F \in SUBSET Nat /\ F # {}
  BY <1>1
<1>3. Min(F) \in F /\ \A y \in F : Min(F) =< y
  BY <1>2, MinInSet
<1> DEFINE m == Min(F)
<1>4. m \in Transfers /\ transfer[m].client = "none" /\ m \in Nat
  BY <1>1, <1>3
<1>5. \A j \in 1 .. m - 1 : transfer[j].client # "none"
  <2> TAKE j \in 1 .. m - 1
  <2>1. j \in Transfers
    BY <1>1, <1>4
  <2>2. j \in Nat /\ m \in Nat /\ j < m
    BY <1>4
  <2>3. j \notin F
    <3> HIDE DEF F, m
    <3> QED
      BY <1>3, <2>2 DEF m
  <2> QED
    BY <2>1, <2>3
<1>6. \E i \in Transfers : transfer[i].client = "none"
                           /\ \A j \in 1 .. i - 1 : transfer[j].client # "none"
  BY <1>4, <1>5
<1> QED
  BY <1>6 DEF NextTransfer

(* The path is registered at the other end, as far as that came.           *)
LEMMA RegisterTable ==
  ASSUME Core, NEW d \in Clusters, NEW k \in Filesystems, NEW masters \in Nat, NEW names \in Nat
  PROVE  Table(Register(d, k, masters, names))
<1> DEFINE g(j) == [fs[d][j] EXCEPT !.master = fs[d][j].master \/ j <= masters,
                      !.registered = fs[d][j].registered \/ j <= names,
                      !.state = IF j = k /\ fs[d][j].state = "none" THEN "discovering"
                                ELSE fs[d][j].state]
           row == [j \in Filesystems |-> g(j)]
           table == [fs EXCEPT ![d] = row]
<1>1. Register(d, k, masters, names) = table
  BY DEF Register
<1>2. ASSUME NEW j \in Filesystems PROVE Near(fs[d][j], g(j))
  <2> DEFINE f == fs[d][j]
             key == f.master \/ j <= masters
             name == f.registered \/ j <= names
             st == IF j = k /\ f.state = "none" THEN "discovering" ELSE f.state
             h == [f EXCEPT !.master = key, !.registered = name, !.state = st]
  <2>1. f \in FsRecord /\ Sound(f) /\ f.state \in States
    BY RecordIs, ListFields
  <2>2. st \in States /\ (st = "initiator" <=> f.state = "initiator")
        /\ (st = "active" => f.state = "active") /\ (st \in Early => f.state \in Early)
        /\ (f.state \in PushPeerState => st \in PushPeerState)
    BY <2>1 DEF States, Early, PushPeerState, WaitingPeer
  <2>3. key \in BOOLEAN /\ name \in BOOLEAN
    OBVIOUS
  <2>4. h = g(j)
    OBVIOUS
  <2> HIDE DEF f, key, name, st
  <2>5. h \in FsRecord /\ SameLists(f, h) /\ h.state = st /\ h.news = f.news
        /\ h.mounted = f.mounted /\ h.requests = f.requests
    BY <2>1, <2>2, <2>3 DEF FsRecord, SameLists
  <2> HIDE DEF h, g
  <2>6. Near(f, h)
    BY <2>1, <2>2, <2>5, NearSame DEF Sound
  <2> QED
    BY <2>4, <2>6 DEF f
<1> HIDE DEF g
<1>3. /\ row \in [Filesystems -> FsRecord]
      /\ \A j \in Filesystems : Near(fs[d][j], row[j])
  <2>1. \A j \in Filesystems : row[j] = g(j)
    OBVIOUS
  <2>2. \A j \in Filesystems : Near(fs[d][j], row[j])
    BY <1>2, <2>1
  <2>3. \A j \in Filesystems : row[j] \in FsRecord
    BY <2>2 DEF Near
  <2> QED
    BY <2>2, <2>3
<1> HIDE DEF row
<1>4. fs \in [Clusters -> [Filesystems -> FsRecord]]
  BY DEF Core, Types
<1>5. table \in [Clusters -> [Filesystems -> FsRecord]]
      /\ \A x \in Clusters : table[x] = IF x = d THEN row ELSE fs[x]
  BY <1>3, <1>4
<1>6. \A x \in Clusters, y \in Filesystems : Near(fs[x][y], fs[x][y])
  BY Unchanged DEF Table
<1> HIDE DEF table
<1> QED
  BY <1>1, <1>3, <1>5, <1>6 DEF Table

(* The Transfer RPC.                                                       *)
LEMMA TransferKept ==
  ASSUME Core, NEW c \in Clusters, NEW k \in Filesystems, NEW dir, Transfer(c, k, dir)
  PROVE  Core'
<1> DEFINE i == NextTransfer
           src == IF dir = "push" THEN c ELSE Peer(c)
           dst == Peer(src)
           exists == fs[dst][k].registered
           table == IF exists THEN fs ELSE Register(dst, k, k, k)
           part(masters, names) == IF exists THEN fs ELSE Register(dst, k, masters, names)
           e == Item("transfer", i)
           f == table[c][k]
           q == f.requests \cup {e}
           g == [f EXCEPT !.requests = q]
           t == transfer[i]
           st == "polling"
           nt == [t EXCEPT !.by = c, !.fs = k, !.dir = dir, !.client = st]
<1>1. Table(table) /\ \A masters, names \in Nat : Table(part(masters, names))
  <2>1. dst \in Clusters /\ k \in Nat
    BY PeerIs, TransferBoundsAssumption DEF Filesystems
  <2> HIDE DEF dst
  <2> QED
    BY <2>1, RegisterTable, Unchanged
<1>2. i \in Transfers /\ t.client = "none" /\ dir \in {"push", "pull"}
  <2>1. /\ \E a \in Transfers : transfer[a].client = "none"
        /\ dir \in Directions
    BY DEF Transfer
  <2> QED
    BY <2>1, NextTransferIs, DirectionsAssumption
<1>3. \/ /\ fs' = [table EXCEPT ![c][k] = g] /\ transfer' = [transfer EXCEPT ![i] = nt]
         /\ UNCHANGED job
      \/ /\ \E masters, names \in 0 .. k : fs' = part(masters, names)
         /\ UNCHANGED <<job, transfer>>
  <2>1. \/ /\ fs' = [table EXCEPT ![c][k].requests = @ \cup {e}]
           /\ transfer' = [transfer EXCEPT ![i] = [@ EXCEPT !.by = c, !.fs = k, !.dir = dir,
                                                            !.client = "polling"]]
           /\ UNCHANGED job
        \/ /\ \E masters, names \in 0 .. k : fs' = part(masters, names)
           /\ UNCHANGED <<job, transfer>>
    BY Zenon DEF Transfer
  <2> HIDE DEF table, part, i, e
  <2> QED
    BY <2>1
<1> HIDE DEF table, part
<1>4. CASE /\ \E masters, names \in 0 .. k : fs' = part(masters, names)
           /\ UNCHANGED <<job, transfer>>
  <2>1. Table(fs')
    BY <1>1, <1>4
  <2> QED
    BY <1>4, <2>1, QuietStep
<1>5. CASE /\ fs' = [table EXCEPT ![c][k] = g] /\ transfer' = [transfer EXCEPT ![i] = nt]
           /\ UNCHANGED job
  <2>1. /\ table \in [Clusters -> [Filesystems -> FsRecord]]
        /\ job \in [Clusters -> [Filesystems -> JobRecord]]
        /\ transfer \in [Transfers -> TransferRecord]
    BY <1>1 DEF Core, Types, Table
  <2>2. f \in FsRecord /\ Near(fs[c][k], f) /\ Sound(f) /\ f.requests \in SUBSET Request
    BY <1>1, <2>1, ListFields DEF Table, Near
  <2>3. e \in Request /\ e.op = "transfer" /\ e.arg = i
    BY <1>2, TransferBoundsAssumption DEF Item, Request, Transfers
  <2>4. t \in TransferRecord /\ t.goal = << >> /\ t.index <= t.total
    BY <1>2, <2>1 DEF Core, TransfersInv
  <2>5. /\ nt \in TransferRecord /\ nt.by = c /\ nt.fs = k /\ nt.client = st
        /\ nt.goal = t.goal /\ nt.index = t.index /\ nt.total = t.total
        /\ st # "none"
    <3>1. st \in {"none", "polling", "done", "failed"} /\ st # "none"
      OBVIOUS
    <3> HIDE DEF st, t
    <3> QED
      BY <1>2, <2>4, <3>1 DEF TransferRecord
  <2> HIDE DEF st, nt, e, i
  <2>6. q \in SUBSET Request
    BY <2>2, <2>3
  <2> HIDE DEF f, q
  <2>7. /\ g \in FsRecord /\ SameLists(f, g) /\ g.state = f.state /\ g.news = f.news
        /\ g.mounted = f.mounted /\ g.requests = q
    BY <2>2, <2>6 DEF FsRecord, SameLists
  <2> HIDE DEF g
  <2>8. Sound(g)
    BY <2>2, <2>7 DEF Sound, SameLists, Listed, Unheard
  <2>9. /\ fs' \in [Clusters -> [Filesystems -> FsRecord]] /\ fs'[c][k] = g
        /\ \A x \in Clusters, y \in Filesystems : ~ (x = c /\ y = k) => fs'[x][y] = table[x][y]
    BY <1>5, <2>1, <2>7, UpdateIs
  <2>10. /\ transfer' \in [Transfers -> TransferRecord] /\ transfer'[i] = nt
         /\ \A a \in Transfers : a # i => transfer'[a] = transfer[a]
    BY <1>2, <1>5, <2>1, <2>5
  <2>11. \A x \in Clusters, y \in Filesystems :
           /\ Sound(fs'[x][y]) /\ ToSet(fs[x][y].pool) \subseteq ToSet(fs'[x][y].pool)
           /\ (fs'[x][y].state = "initiator") <=> (fs[x][y].state = "initiator")
           /\ \A a \in fs'[x][y].requests : a.op = "transfer" =>
                a \in fs[x][y].requests \/ (x = c /\ y = k /\ a = e)
    <3> TAKE x \in Clusters, y \in Filesystems
    <3>1. Near(fs[x][y], table[x][y])
      BY <1>1 DEF Table
    <3>2. CASE x = c /\ y = k
      BY <2>2, <2>7, <2>8, <2>9, <3>2 DEF Near, SameLists, q
    <3>3. CASE ~ (x = c /\ y = k)
      BY <2>9, <3>1, <3>3 DEF Near
    <3> QED
      BY <3>2, <3>3
  <2>12. PoolsGrow(fs')
    BY <2>11 DEF PoolsGrow
  <2>13. TransfersInv'
    <3> SUFFICES ASSUME NEW a \in Transfers
                 PROVE  /\ transfer'[a].index <= transfer'[a].total
                        /\ transfer'[a].client = "none" => transfer'[a].goal = << >>
                        /\ Delivered(transfer'[a], fs')
      BY DEF TransfersInv
    <3>1. CASE a = i
      <4>1. Delivered(nt, fs')
        BY <2>4, <2>5, TransferBoundsAssumption DEF Delivered
      <4> QED
        BY <2>4, <2>5, <2>10, <3>1, <4>1
    <3>2. CASE a # i
      BY <2>1, <2>10, <2>12, <3>2, PoolsKept DEF Core, TransfersInv
    <3> QED
      BY <3>1, <3>2
  <2>14. \A x \in Clusters, y \in Filesystems : job[x][y].id # i
    <3> SUFFICES ASSUME NEW x \in Clusters, NEW y \in Filesystems, job[x][y].id = i PROVE FALSE
      OBVIOUS
    <3>1. Working(job[x][y], x, y, transfer[i], fs)
      BY <1>2 DEF Core, JobsInv
    <3> QED
      BY <1>2, <3>1 DEF Working
  <2>15. JobsInv'
    <3> SUFFICES ASSUME NEW x \in Clusters, NEW y \in Filesystems
                 PROVE  /\ (fs'[x][y].state = "initiator") <=> (job'[x][y].id \in Transfers)
                        /\ job'[x][y].at # "none" => job'[x][y].id \in Transfers
                        /\ job'[x][y].id \in Transfers =>
                             Working(job'[x][y], x, y, transfer'[job'[x][y].id], fs')
      BY Zenon DEF JobsInv
    <3>1. ASSUME job[x][y].id \in Transfers
          PROVE  Working(job[x][y], x, y, transfer'[job[x][y].id], fs')
      <4>1. Working(job[x][y], x, y, transfer[job[x][y].id], fs)
        BY <3>1 DEF Core, JobsInv
      <4>2. job[x][y] \in JobRecord /\ transfer[job[x][y].id] \in TransferRecord
        BY <2>1, <3>1
      <4>3. Working(job[x][y], x, y, transfer[job[x][y].id], fs')
        BY <2>12, <4>1, <4>2, PoolsKept
      <4>4. transfer'[job[x][y].id] = transfer[job[x][y].id]
        BY <2>10, <2>14, <3>1
      <4> QED
        BY <4>3, <4>4
    <3> QED
      BY <1>5, <2>11, <3>1 DEF Core, JobsInv
  <2>16. RequestsInv'
    <3> SUFFICES ASSUME NEW x \in Clusters, NEW y \in Filesystems, NEW a \in fs'[x][y].requests,
                        a.op = "transfer"
                 PROVE  /\ a.arg \in Transfers /\ job'[x][y].id # a.arg
                        /\ Waiting(x, y, transfer'[a.arg])
      BY DEF RequestsInv
    <3>1. CASE a \in fs[x][y].requests
      <4>1. a.arg \in Transfers /\ job[x][y].id # a.arg /\ Waiting(x, y, transfer[a.arg])
        BY <3>1 DEF Core, RequestsInv
      <4>2. a.arg # i
        BY <1>2, <4>1 DEF Waiting
      <4> QED
        BY <1>5, <2>10, <4>1, <4>2
    <3>2. CASE x = c /\ y = k /\ a = e
      <4>1. Waiting(c, k, nt)
        BY <2>4, <2>5 DEF Waiting
      <4> QED
        BY <1>2, <1>5, <2>3, <2>10, <2>14, <3>2, <4>1
    <3> QED
      BY <2>11, <3>1, <3>2
  <2> QED
    BY <1>5, <2>1, <2>9, <2>10, <2>11, <2>13, <2>15, <2>16 DEF Core, Types, SoundInv
<1> QED
  BY <1>3, <1>4, <1>5

(* The client learns how a transfer ends: nothing else changes.            *)
LEMMA PollTransferKept ==
  ASSUME Core, NEW i \in Transfers, PollTransfer(i)
  PROVE  Core'
<1> DEFINE t == transfer[i]
<1>1. PICK st \in {"done", "failed"} : transfer' = [transfer EXCEPT ![i].client = st]
  BY DEF PollTransfer
<1>2. UNCHANGED <<fs, job>> /\ t.client = "polling"
  BY DEF PollTransfer
<1> DEFINE nt == [t EXCEPT !.client = st]
<1>3. transfer \in [Transfers -> TransferRecord] /\ t \in TransferRecord
  BY DEF Core, Types
<1>4. st \in {"none", "polling", "done", "failed"} /\ st # "none"
  OBVIOUS
<1>5. transfer' = [transfer EXCEPT ![i] = nt]
  BY <1>1
<1>6. /\ nt \in TransferRecord /\ nt.client = st /\ nt.by = t.by /\ nt.fs = t.fs
      /\ nt.dir = t.dir /\ nt.index = t.index /\ nt.total = t.total /\ nt.goal = t.goal
  <2> HIDE DEF t
  <2> QED
    BY <1>3, <1>4 DEF TransferRecord
<1> HIDE DEF nt
<1>7. /\ transfer' \in [Transfers -> TransferRecord] /\ transfer'[i] = nt
      /\ \A a \in Transfers : a # i => transfer'[a] = transfer[a]
  BY <1>3, <1>5, <1>6
<1>8. Dest(nt) = Dest(t)
  BY <1>6 DEF Dest
<1>9. /\ Delivered(t, fs) => Delivered(nt, fs)
      /\ \A x, y : Waiting(x, y, t) => Waiting(x, y, nt)
      /\ \A j, x, y : Working(j, x, y, t, fs) => Working(j, x, y, nt, fs)
  BY <1>4, <1>6, <1>8 DEF Delivered, Waiting, Working
<1>10. \A a \in Transfers :
         /\ Delivered(transfer[a], fs) => Delivered(transfer'[a], fs)
         /\ \A x, y : Waiting(x, y, transfer[a]) => Waiting(x, y, transfer'[a])
         /\ \A j, x, y : Working(j, x, y, transfer[a], fs) => Working(j, x, y, transfer'[a], fs)
         /\ transfer'[a].index = transfer[a].index /\ transfer'[a].total = transfer[a].total
         /\ transfer'[a].goal = transfer[a].goal
         /\ transfer'[a].client = "none" => transfer[a].client = "none"
  BY <1>4, <1>6, <1>7, <1>9
<1>11. Types' /\ SoundInv'
  BY <1>2, <1>7 DEF Core, Types, SoundInv
<1>12. JobsInv'
  <2> SUFFICES ASSUME NEW x \in Clusters, NEW y \in Filesystems
               PROVE  /\ (fs'[x][y].state = "initiator") <=> (job'[x][y].id \in Transfers)
                      /\ job'[x][y].at # "none" => job'[x][y].id \in Transfers
                      /\ job'[x][y].id \in Transfers =>
                           Working(job'[x][y], x, y, transfer'[job'[x][y].id], fs')
    BY Zenon DEF JobsInv
  <2> QED
    BY <1>2, <1>10 DEF Core, JobsInv
<1>13. RequestsInv'
  <2> SUFFICES ASSUME NEW x \in Clusters, NEW y \in Filesystems, NEW a \in fs'[x][y].requests,
                      a.op = "transfer"
               PROVE  /\ a.arg \in Transfers /\ job'[x][y].id # a.arg
                      /\ Waiting(x, y, transfer'[a.arg])
    BY DEF RequestsInv
  <2> QED
    BY <1>2, <1>10 DEF Core, RequestsInv
<1>14. TransfersInv'
  <2> SUFFICES ASSUME NEW a \in Transfers
               PROVE  /\ transfer'[a].index <= transfer'[a].total
                      /\ transfer'[a].client = "none" => transfer'[a].goal = << >>
                      /\ Delivered(transfer'[a], fs')
    BY DEF TransfersInv
  <2> QED
    BY <1>2, <1>10 DEF Core, TransfersInv
<1> QED
  BY <1>11, <1>12, <1>13, <1>14 DEF Core

-----------------------------------------------------------------------------
(* The counters stay within their bounds.                                  *)

(* What a step may do to them.                                             *)
Counted ==
  /\ nextSnap' \in {nextSnap, nextSnap + 1}
  /\ UNCHANGED runs \/ (runs < MaxRuns /\ runs' = runs + 1)
  /\ UNCHANGED faults \/ (faults < MaxFaults /\ faults' = faults + 1)

(* Every step does at most that.                                           *)
LEMMA NextCounted == Next => Counted
<1> SUFFICES ASSUME Next PROVE Counted
  OBVIOUS
<1>1. ASSUME NEW i \in Transfers, PollTransfer(i) PROVE Counted
  BY <1>1 DEF PollTransfer, Counted
<1>2. ASSUME NEW c \in Clusters, NEW k \in Filesystems, Users(c, k) PROVE Counted
  BY <1>2, Zenon DEF Users, Transfer, commit, containerRuns, containerStops, Local, Fault, Counted
<1>3. ASSUME NEW c \in Clusters, NEW k \in Filesystems,
             updateMaster(c, k) \/ updateSnapshots(c, k) \/ inlineLoad(c, k)
               \/ pushPeerTimeout(c, k)
      PROVE  Counted
  BY <1>3 DEF updateMaster, updateSnapshots, inlineLoad, pushPeerTimeout, Local, Fault, Counted
<1>4. ASSUME NEW c \in Clusters, NEW k \in Filesystems, Machine(c, k) PROVE Counted
  <2>1. CASE discover(c, k) \/ externalSnapshotsChanged(c, k)
    BY <2>1 DEF discover, externalSnapshotsChanged, Local, Counted
  <2>2. CASE newSnapsOnMaster(c, k)
    BY <2>2 DEF newSnapsOnMaster, Local, Fault, Counted
  <2>3. ASSUME NEW e, mountOrUnhandled(c, k, e) PROVE Counted
    BY <2>3 DEF mountOrUnhandled, Local, Fault, Counted
  <2>4. ASSUME NEW e, startTransfer(c, k, e) PROVE Counted
    BY <2>4 DEF startTransfer, Local, Fault, Counted
  <2>5. ASSUME NEW e, startPeer(c, k, e) PROVE Counted
    BY <2>5 DEF startPeer, Local, Counted
  <2>6. CASE exitEarly(c, k)
    BY <2>6 DEF exitEarly, Local, Fault, Counted
  <2> QED
    BY <1>4, <2>1, <2>2, <2>3, <2>4, <2>5, <2>6 DEF Machine
<1>5. ASSUME NEW c \in Clusters, NEW k \in Filesystems, Initiator(c, k) PROVE Counted
  <2>1. CASE retryPush(c, k)
    BY <2>1, Zenon DEF retryPush, Fault, Counted
  <2>2. CASE retryPull(c, k)
    BY <2>2, Zenon DEF retryPull, Fault, Counted
  <2>3. CASE send(c, k)
    BY <2>3 DEF send, Fault, Counted
  <2>4. CASE recvSnapshot(c, k)
    BY <2>4, Zenon DEF recvSnapshot, Fault, Counted
  <2>5. CASE recvEnds(c, k)
    BY <2>5, Zenon DEF recvEnds, Fault, Counted
  <2>6. CASE applied(c, k)
    BY <2>6 DEF applied, Fault, Counted
  <2> QED
    BY <1>5, <2>1, <2>2, <2>3, <2>4, <2>5, <2>6 DEF Initiator
<1> QED
  BY <1>1, <1>2, <1>3, <1>4, <1>5 DEF Next

(* So they stay in bounds.                                                 *)
LEMMA CountersKept == Counters /\ Counted => Counters'
BY TransferBoundsAssumption DEF Counters, Counted

-----------------------------------------------------------------------------
(* The theorems.                                                           *)

(* A filesystem that a cluster does not have.                              *)
LEMMA AbsentIs ==
  Absent \in FsRecord /\ Sound(Absent) /\ Absent.state = "none" /\ Absent.requests = {}
<1> DEFINE f == Absent
<1>1. /\ f.state = "none" /\ f.memory = << >> /\ f.etcd = << >> /\ f.echo = << >>
      /\ f.cache = <<NilSnap>> /\ f.pool = << >> /\ f.requests = {} /\ f.news = {}
      /\ f.arrived = 0 /\ f.loading = FALSE
  BY DEF Absent, Unknown
<1>2. f \in FsRecord
  BY NilSnapIsZero DEF Absent, FsRecord, States, Unknown
<1> HIDE DEF f
<1>3. ToSet(<< >>) = {} /\ ToSet(<<NilSnap>>) = {NilSnap}
  BY DEF ToSet
<1>4. Sound(f)
  BY <1>1, <1>3 DEF Sound, Listed, Early
<1> QED
  BY <1>1, <1>2, <1>4 DEF f

(* One that it has in the beginning.                                       *)
LEMMA PresentIs ==
  ASSUME NEW n \in Nat
  PROVE  /\ Present(<<n>>) \in FsRecord /\ Sound(Present(<<n>>))
         /\ Present(<<n>>).state = "active" /\ Present(<<n>>).requests = {}
<1> DEFINE p == <<n>>
           yes == TRUE
           st == "active"
           f == [Absent EXCEPT !.master = yes, !.registered = yes, !.known = yes, !.state = st,
                               !.memory = p, !.etcd = p, !.cache = p, !.pool = p,
                               !.mounted = yes]
<1>1. p \in Seq(Nat) /\ st \in States /\ yes \in BOOLEAN
  BY DEF States
<1>2. Present(p) = f
  BY DEF Present
<1>3. Absent.echo = << >> /\ Absent.news = {} /\ Absent.requests = {}
      /\ Absent.arrived = 0 /\ Absent.loading = FALSE
  BY DEF Absent
<1> HIDE DEF p, st, yes
<1>4. /\ f \in FsRecord /\ f.state = st /\ f.memory = p /\ f.etcd = p /\ f.echo = Absent.echo
      /\ f.cache = p /\ f.pool = p /\ f.mounted = yes /\ f.requests = Absent.requests
      /\ f.news = Absent.news /\ f.arrived = Absent.arrived /\ f.loading = Absent.loading
  BY <1>1, AbsentIs DEF FsRecord
<1> HIDE DEF f
<1>5. Sound(f)
  BY <1>3, <1>4 DEF Sound, Listed, Early, st, yes
<1> QED
  BY <1>2, <1>3, <1>4, <1>5 DEF p, st

(* It holds in the beginning.                                              *)
LEMMA InitInv == Init => TransferInv
<1> SUFFICES ASSUME Init PROVE TransferInv
  OBVIOUS
<1>1. /\ fs = [c \in Clusters |-> [k \in Filesystems |->
                 IF c = Home THEN Present(<<Origin(k)>>) ELSE Absent]]
      /\ job = [c \in Clusters |-> [k \in Filesystems |-> NoJob]]
      /\ transfer = [i \in Transfers |-> NoTransfer]
      /\ nextSnap = Depth + 1 /\ runs = 0 /\ faults = 0
  BY DEF Init
<1>2. ASSUME NEW c \in Clusters, NEW k \in Filesystems
      PROVE  /\ fs[c][k] \in FsRecord /\ Sound(fs[c][k]) /\ fs[c][k].state # "initiator"
             /\ fs[c][k].requests = {} /\ job[c][k] = NoJob
  <2>1. Origin(k) \in Nat
    BY TransferBoundsAssumption DEF Origin, Filesystems
  <2>2. fs[c][k] = IF c = Home THEN Present(<<Origin(k)>>) ELSE Absent
    BY <1>1
  <2>3. job[c][k] = NoJob
    BY <1>1
  <2>4. CASE c = Home
    <3>1. fs[c][k] = Present(<<Origin(k)>>)
      BY <2>2, <2>4
    <3>2. \A n \in Nat : /\ Present(<<n>>) \in FsRecord /\ Sound(Present(<<n>>))
                         /\ Present(<<n>>).state = "active" /\ Present(<<n>>).requests = {}
      BY PresentIs, Zenon
    <3>3. "active" # "initiator"
      OBVIOUS
    <3> QED
      BY <2>1, <2>3, <3>1, <3>2, <3>3, Zenon
  <2>5. CASE c # Home
    BY <2>2, <2>3, <2>5, AbsentIs
  <2> QED
    BY <2>4, <2>5
<1>3. /\ NoTransfer \in TransferRecord /\ NoTransfer.goal = << >> /\ NoTransfer.index = 0
      /\ NoTransfer.total = 0
  BY ClustersAssumption, TransferBoundsAssumption
  DEF NoTransfer, TransferRecord, Filesystems, Statuses
<1>4. Types
  <2>1. fs = [c \in Clusters |-> [k \in Filesystems |-> fs[c][k]]]
    BY <1>1
  <2>2. fs \in [Clusters -> [Filesystems -> FsRecord]]
    BY <1>2, <2>1
  <2> QED
    BY <1>1, <1>3, <2>2, NoJobIs DEF Types
<1>5. SoundInv /\ JobsInv /\ RequestsInv
  BY <1>2, NoJobIs DEF SoundInv, JobsInv, RequestsInv
<1>6. TransfersInv
  <2>1. Delivered(NoTransfer, fs)
    BY <1>3, TransferBoundsAssumption DEF Delivered
  <2> QED
    BY <1>1, <1>3, <2>1 DEF TransfersInv
<1>7. Counters
  BY <1>1, TransferBoundsAssumption DEF Counters
<1> QED
  BY <1>4, <1>5, <1>6, <1>7 DEF TransferInv, Core

(* Every step keeps it.                                                    *)
LEMMA NextInv == TransferInv /\ [Next]_vars => TransferInv'
<1> SUFFICES ASSUME TransferInv, [Next]_vars PROVE TransferInv'
  OBVIOUS
<1> USE DEF TransferInv
<1>1. CASE UNCHANGED vars
  BY <1>1 DEF vars, Core, Counters, Types, SoundInv, JobsInv, RequestsInv, TransfersInv
<1>2. CASE Next
  <2>1. Counters'
    BY <1>2, NextCounted, CountersKept
  <2>2. ASSUME NEW i \in Transfers, PollTransfer(i) PROVE Core'
    BY <2>2, PollTransferKept
  <2>3. ASSUME NEW c \in Clusters, NEW k \in Filesystems, Users(c, k) PROVE Core'
    BY <2>3, TransferKept, CommitKept, ContainersKept DEF Users
  <2>4. ASSUME NEW c \in Clusters, NEW k \in Filesystems,
               updateMaster(c, k) \/ updateSnapshots(c, k) \/ inlineLoad(c, k)
                 \/ pushPeerTimeout(c, k)
        PROVE  Core'
    BY <2>4, UpdateMasterKept, UpdateSnapshotsKept, InlineLoadKept, PushPeerTimeoutKept
  <2>5. ASSUME NEW c \in Clusters, NEW k \in Filesystems, Machine(c, k) PROVE Core'
    BY <2>5, DiscoverKept, ExternalSnapshotsChangedKept, NewSnapsOnMasterKept,
       MountOrUnhandledKept, StartTransferKept, StartPeerKept, ExitEarlyKept DEF Machine
  <2>6. ASSUME NEW c \in Clusters, NEW k \in Filesystems, Initiator(c, k) PROVE Core'
    BY <2>6, RetryPushKept, RetryPullKept, SendKept, RecvSnapshotKept, RecvEndsKept, AppliedKept
    DEF Initiator
  <2> QED
    BY <1>2, <2>1, <2>2, <2>3, <2>4, <2>5, <2>6 DEF Next
<1> QED
  BY <1>1, <1>2

(* The strengthening is an invariant.                                      *)
LEMMA SpecInv == Spec => []TransferInv
BY InitInv, NextInv, PTL DEF Spec

(***************************************************************************)
(* The records keep their shape through every push, pull, retry and        *)
(* failure: pushInitiatorState and pullInitiatorState run exactly while    *)
(* there is a job, only pushPeerState is subscribed to the news of         *)
(* globalSnapshotCache, and incrementPollResultIndex never counts past the *)
(* total that PollTransfer compares the index with.                        *)
(***************************************************************************)
THEOREM TypeCorrect == Spec => []TypeOK
<1>1. TransferInv => TypeOK
  BY DEF TransferInv, Core, Types, Counters, SoundInv, Sound, JobsInv, TransfersInv, TypeOK
<1> QED
  BY <1>1, SpecInv, PTL

(***************************************************************************)
(* What retryPush or retryPull counted as a success, sent or found up to   *)
(* date, is in the destination's pool for good: for paths of any length    *)
(* and any number of transfers, retries, half received streams, stale      *)
(* lists and commits at either end.                                        *)
(***************************************************************************)
THEOREM FinishedTransfersAreDelivered == Spec => []FinishedIsDelivered
<1>1. ASSUME TransferInv PROVE FinishedIsDelivered
  <2> SUFFICES ASSUME NEW i \in Transfers, NEW s \in DOMAIN transfer[i].goal
               PROVE  transfer[i].goal[s] \in ToSet(fs[Destination(i)][s].pool)
    BY DEF FinishedIsDelivered
  <2>1. transfer[i] \in TransferRecord /\ Delivered(transfer[i], fs)
    BY <1>1 DEF TransferInv, Core, Types, TransfersInv
  <2>2. s \in 1 .. Len(transfer[i].goal)
    BY <2>1 DEF TransferRecord
  <2>3. Destination(i) = Dest(transfer[i])
    BY DEF Destination, Source, Dest
  <2> QED
    BY <2>1, <2>2, <2>3 DEF Delivered
<1> QED
  BY <1>1, SpecInv, PTL

(***************************************************************************)
(* A machine is in activeState, where containers start and commits are     *)
(* made, on a mounted filesystem only: after discover, a mount event, and  *)
(* each exit of pushPeerState, whoever received the stages before.         *)
(***************************************************************************)
THEOREM ActiveFilesystemsAreMounted == Spec => []ActiveIsMounted
<1>1. TransferInv => ActiveIsMounted
  BY DEF TransferInv, Core, SoundInv, Sound, ActiveIsMounted
<1> QED
  BY <1>1, SpecInv, PTL
=============================================================================
