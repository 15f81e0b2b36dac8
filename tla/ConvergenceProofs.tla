-------------------------- MODULE ConvergenceProofs --------------------------
(***************************************************************************)
(* What canApply promises of every pair of agreeing lists, of any length   *)
(* and over any set of ids, and of every pair that following its advice    *)
(* leads to.                                                               *)
(***************************************************************************)
EXTENDS MCSnapshotLogic, SnapshotLogicProofs

(* The inductive invariant: the two lists are histories of one filesystem. *)
(* No snapshot is twice in the source, and what the two share has the same *)
(* place and the same past in both.                                        *)
AgreeingPair ==
  /\ fromSnaps \in Seq(Ids) /\ toSnaps \in Seq(Ids)
  /\ Agree(fromSnaps, fromSnaps)
  /\ Agree(fromSnaps, toSnaps)

(* A list in which no snapshot is repeated agrees with itself.             *)
LEMMA ListsAgreeWithThemselves ==
  ASSUME NEW s \in Lists
  PROVE  s \in Seq(Ids) /\ Agree(s, s)
<1>1. PICK m \in 0 .. MaxLen : s \in [1 .. m -> Ids]
  BY DEF Lists, BoundedSeq, SeqOf
<1>2. s \in Seq(Ids)
  BY <1>1, IdsAssumption
<1>3. \A i, j \in DOMAIN s : s[i] = s[j] => i = j
  BY DEF Lists, IsInjective
<1> QED
  BY <1>2, <1>3 DEF Agree

(* It starts so: no list that a node holds repeats a snapshot.             *)
LEMMA PairInit == Init => AgreeingPair
BY ListsAgreeWithThemselves DEF Init, AgreeingPair

(* Receiving the range makes the two lists equal.                          *)
LEMMA PairReceive == AgreeingPair /\ Receive => AgreeingPair'
<1> SUFFICES ASSUME AgreeingPair, Receive  PROVE AgreeingPair'
  OBVIOUS
<1>1. toSnaps' = fromSnaps /\ fromSnaps' = fromSnaps
  BY RangeCompletes, IdsAssumption DEF AgreeingPair, Receive, verdict
<1> QED
  BY <1>1 DEF AgreeingPair

(* Rolling back to the common snapshot leaves a prefix of the source.      *)
LEMMA PairRollBack ==
  AgreeingPair /\ RollBack => AgreeingPair' /\ verdict'.err \in {"ok", "ToSnapsUpToDate"}
BY AdviceGivesPrefix DEF AgreeingPair, RollBack, verdict

(* So the two lists are histories of one filesystem in every state.        *)
LEMMA PairInvariant == Spec => []AgreeingPair
<1>1. AgreeingPair /\ [Next]_vars => AgreeingPair'
  <2> SUFFICES ASSUME AgreeingPair, [Next]_vars  PROVE AgreeingPair'
    OBVIOUS
  <2>1. CASE Receive
    BY <2>1, PairReceive
  <2>2. CASE RollBack
    BY <2>2, PairRollBack
  <2>3. CASE UNCHANGED vars
    BY <2>3 DEF AgreeingPair, vars
  <2> QED
    BY <2>1, <2>2, <2>3 DEF Next
<1> QED
  BY <1>1, PairInit, PTL DEF Spec

-----------------------------------------------------------------------------
(* The verdict of the backward scan is the way the two histories extend    *)
(* each other: every answer of canApply, the two errors that carry a       *)
(* common snapshot included, says what is really the case.                 *)
THEOREM VerdictsMatchHistory == Spec => []VerdictMatchesHistory
<1>1. AgreeingPair => VerdictMatchesHistory
  BY VerdictIsRelation DEF AgreeingPair, VerdictMatchesHistory, verdict
<1> QED
  BY <1>1, PairInvariant, PTL

(* The range that receivingState and the transfer loops act on can be sent *)
(* and completes the destination: nothing skipped, nothing repeated.       *)
THEOREM RangesComplete == Spec => []RangeCompletesDestination
<1>1. AgreeingPair => RangeCompletesDestination
  BY RangeCompletes, IdsAssumption DEF AgreeingPair, RangeCompletesDestination, verdict
<1> QED
  BY <1>1, PairInvariant, PTL

(* Whoever rolls the destination back as ToSnapsAhead or ToSnapsDiverged   *)
(* advise is never refused again: the next verdict is a range, which makes *)
(* the lists equal, or that they are equal.  (That the steps are taken,    *)
(* the liveness property AdviceConverges, is TLC's part.)                  *)
THEOREM AdviceIsSound == Spec => [][RollBack => verdict'.err \in {"ok", "ToSnapsUpToDate"}]_vars
<1>1. AgreeingPair /\ [Next]_vars =>
        [RollBack => verdict'.err \in {"ok", "ToSnapsUpToDate"}]_vars
  BY PairRollBack
<1> QED
  BY <1>1, PairInvariant, PTL DEF Spec
=============================================================================
