--------------------------- MODULE MCSnapshotLogic ---------------------------
(***************************************************************************)
(* canApply on every pair of agreeing snapshot lists of bounded length.    *)
(* The state is the pair; its steps are what can follow from the verdict:  *)
(* the range is received, or a user rolls the destination back to the      *)
(* common snapshot that ToSnapsAhead or ToSnapsDiverged carries.           *)
(***************************************************************************)
EXTENDS SnapshotLogic

CONSTANTS Ids,      \* the snapshot ids
          MaxLen    \* longest list enumerated

(* The nil *snapshot is no snapshot.                                       *)
ASSUME IdsAssumption == NilSnap \notin Ids /\ MaxLen \in Nat

VARIABLES fromSnaps, toSnaps

vars == <<fromSnaps, toSnaps>>

Lists == {s \in BoundedSeq(Ids, MaxLen) : IsInjective(s)}

verdict == canApply(fromSnaps, toSnaps)

Init == /\ fromSnaps \in Lists
        /\ toSnaps \in Lists
        /\ Agree(fromSnaps, toSnaps)

Receive ==
  /\ verdict.err = "ok"
  /\ CanSend(fromSnaps, verdict.fromSnap, verdict.toSnap)
  /\ toSnaps' = toSnaps \o SendStream(fromSnaps, verdict.fromSnap, verdict.toSnap)
  /\ UNCHANGED fromSnaps

RollBack ==
  /\ verdict.err \in {"ToSnapsAhead", "ToSnapsDiverged"}
  /\ toSnaps' = rollbackSlice(toSnaps, verdict.common)
  /\ UNCHANGED fromSnaps

Next == Receive \/ RollBack

Spec == Init /\ [][Next]_vars /\ WF_vars(Next)

-----------------------------------------------------------------------------
(* The verdict of canApply's scan is exactly the way the two histories     *)
(* extend each other, for every pair of agreeing lists.                    *)
VerdictMatchesHistory == verdict.err = RelationOf(fromSnaps, toSnaps)

(* When canApply returns a range, sending that range is possible and makes *)
(* the destination equal to the source: nothing skipped, nothing repeated. *)
RangeCompletesDestination ==
  verdict.err = "ok" =>
    /\ CanSend(fromSnaps, verdict.fromSnap, verdict.toSnap)
    /\ toSnaps \o SendStream(fromSnaps, verdict.fromSnap, verdict.toSnap) = fromSnaps

(* A pair with any common snapshot is repairable: following canApply's     *)
(* advice (roll back to the common snapshot it reports, then apply) always *)
(* ends with equal lists.                                                  *)
AdviceConverges ==
  (verdict.err \notin {"NoFromSnaps", "NoCommonSnapshots"}) ~> (toSnaps = fromSnaps)
=============================================================================
