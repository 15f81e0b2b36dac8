---------------------------- MODULE SnapshotLogic ----------------------------
(***************************************************************************)
(* The decision at the heart of dotmesh replication: given the ordered     *)
(* snapshot lists of a source and a destination of the same filesystem,    *)
(* which range of snapshots, if any, should be sent.  Modelled from        *)
(* canApply (snapshotlogic.go) and restrictSnapshots (utils.go).           *)
(*                                                                         *)
(* A snapshot is abstracted to its id: canApply and restrictSnapshots look *)
(* at nothing else.  A snapshot list is a sequence of ids, oldest first.   *)
(***************************************************************************)
EXTENDS Integers, Sequences, SequencesExt

CONSTANT NilSnap    \* the nil *snapshot of a range that starts at the origin

Verdicts == {"ok", "NoFromSnaps", "NoCommonSnapshots", "ToSnapsUpToDate",
             "ToSnapsAhead", "ToSnapsDiverged"}

(***************************************************************************)
(* canApply returns (snapshotRange, error).  Both are put in one record:   *)
(* err is "ok" for a nil error; fromSnap and toSnap are the bounds of the  *)
(* range; common is the latestCommonSnapshot two of the errors carry.      *)
(***************************************************************************)
Range3(err, fromSnap, toSnap, common) ==
  [err |-> err, fromSnap |-> fromSnap, toSnap |-> toSnap, common |-> common]

ApplyRange(fromSnap, toSnap) == Range3("ok", fromSnap, toSnap, NilSnap)
ApplyError(err, common) == Range3(err, NilSnap, NilSnap, common)

(***************************************************************************)
(* The index in fromSnaps of the latest snapshot toSnaps has too, 0 when   *)
(* there is none: the backward scan with its early break.                  *)
(***************************************************************************)
FirstCommon(fromSnaps, toSnaps) ==          \* mutant: the scan runs forward
  SelectInSeq(fromSnaps, LAMBDA id : id \in ToSet(toSnaps))

LatestCommon(fromSnaps, toSnaps) ==
  SelectLastInSeq(fromSnaps, LAMBDA id : id \in ToSet(toSnaps))

(* Mutants: the destination's own last snapshot is not compared with the   *)
(* common one; the snapshot reported is the destination's last.            *)
canApplyFromCommon(fromSnaps, toSnaps) ==
  LET lc == LatestCommon(fromSnaps, toSnaps)
  IN  IF lc \in 1 .. Len(fromSnaps) - 1 THEN ApplyRange(fromSnaps[lc], Last(fromSnaps))
      ELSE ApplyError("NoCommonSnapshots", NilSnap)

canApplyReportsLast(fromSnaps, toSnaps) ==
  IF fromSnaps = << >> THEN ApplyError("NoFromSnaps", NilSnap)
  ELSE IF toSnaps = << >> THEN ApplyRange(NilSnap, Last(fromSnaps))
  ELSE ApplyError("ToSnapsAhead", Last(toSnaps))

canApply(fromSnaps, toSnaps) ==
  LET lc     == LatestCommon(fromSnaps, toSnaps)
      common == fromSnaps[lc]
  IN  IF fromSnaps = << >> THEN ApplyError("NoFromSnaps", NilSnap)
      ELSE IF toSnaps = << >> THEN ApplyRange(NilSnap, Last(fromSnaps))
      ELSE IF lc = 0 THEN ApplyError("NoCommonSnapshots", NilSnap)
      ELSE IF common = Last(toSnaps)
             THEN IF common = Last(fromSnaps)
                    THEN ApplyError("ToSnapsUpToDate", NilSnap)
                    ELSE ApplyRange(common, Last(fromSnaps))
      ELSE IF common = Last(fromSnaps) THEN ApplyError("ToSnapsAhead", common)
      ELSE ApplyError("ToSnapsDiverged", common)

(***************************************************************************)
(* restrictSnapshots: the list cut after toSnapshotId, with an error when  *)
(* the id is not there.  An empty id (NilSnap) means "no restriction".     *)
(***************************************************************************)
restrictSnapshots(localSnaps, toSnapshotId) ==
  LET i == SelectInSeq(localSnaps, LAMBDA id : id = toSnapshotId)
  IN  IF toSnapshotId = NilSnap \/ i = 0
        THEN [snaps |-> localSnaps, found |-> toSnapshotId = NilSnap]
        ELSE [snaps |-> SubSeq(localSnaps, 1, i), found |-> TRUE]

(***************************************************************************)
(* What `zfs send` emits: the snapshots after fromSnap up to and including *)
(* toSnap (-I), or everything up to toSnap (-R, fromSnap is nil).  The     *)
(* command fails unless both are on the sender's disk in that order.       *)
(***************************************************************************)
IndexOf(snaps, id) == SelectInSeq(snaps, LAMBDA x : x = id)

CanSend(disk, fromSnap, toSnap) ==
  /\ IndexOf(disk, toSnap) # 0
  /\ fromSnap # NilSnap => IndexOf(disk, fromSnap) \in 1 .. IndexOf(disk, toSnap) - 1

SendStream(disk, fromSnap, toSnap) ==
  SubSeq(disk,
         IF fromSnap = NilSnap THEN 1 ELSE IndexOf(disk, fromSnap) + 1,
         IndexOf(disk, toSnap))

(***************************************************************************)
(* What the rollback event of activeState leaves of the list in memory:    *)
(* the first deleted snapshot is the one after rollbackTo.                 *)
(***************************************************************************)
rollbackSlice(snaps, rollbackTo) ==
  IF IndexOf(snaps, rollbackTo) = 0 THEN snaps
  ELSE SubSeq(snaps, 1, IndexOf(snaps, rollbackTo))

-----------------------------------------------------------------------------
(***************************************************************************)
(* The shape of the lists that real nodes hold.  Two lists agree when a    *)
(* snapshot they share has the same history in both: the same position,    *)
(* and the same snapshots before it.  Lists grow by new ids and are cut by *)
(* rollback, so they form a tree of histories.                             *)
(***************************************************************************)
Agree(p, q) ==
  \A i \in DOMAIN p, j \in DOMAIN q :
    p[i] = q[j] => i = j /\ \A k \in 1 .. i : p[k] = q[k]

(***************************************************************************)
(* What canApply promises, stated without its scan: for agreeing lists the *)
(* verdict is the way the two lists extend each other.                     *)
(***************************************************************************)
RelationOf(fromSnaps, toSnaps) ==
  CASE fromSnaps = << >>                                    -> "NoFromSnaps"
    [] fromSnaps # << >> /\ IsStrictPrefix(toSnaps, fromSnaps)   -> "ok"
    [] fromSnaps # << >> /\ fromSnaps = toSnaps             -> "ToSnapsUpToDate"
    [] fromSnaps # << >> /\ IsStrictPrefix(fromSnaps, toSnaps) -> "ToSnapsAhead"
    [] OTHER -> IF fromSnaps[1] = toSnaps[1] THEN "ToSnapsDiverged"
                                              ELSE "NoCommonSnapshots"
=============================================================================
