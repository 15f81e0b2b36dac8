------------------------- MODULE SnapshotLogicProofs -------------------------
(***************************************************************************)
(* Facts about canApply and the lists it compares, for lists of any length *)
(* and any set of snapshot ids.                                            *)
(***************************************************************************)
EXTENDS SnapshotLogic, SequenceTheorems, WellFoundedInduction, TLAPS

(* A nonempty set of naturals has a least element; if it is bounded, also  *)
(* a greatest.  Min and Max choose them.                                   *)
LEMMA MinInSet ==
  ASSUME NEW T \in SUBSET Nat, T # {}
  PROVE  Min(T) \in T /\ \A y \in T : Min(T) =< y
<1>1. PICK x \in T : \A y \in T : ~ (<<y, x>> \in OpToRel(<, Nat))
  BY NatLessThanWellFounded, WFMin, Zenon
<1>2. ASSUME NEW y \in T  PROVE x =< y
  <2>1. <<y, x>> \in Nat \X Nat /\ <<y, x>>[1] = y /\ <<y, x>>[2] = x
    OBVIOUS
  <2>2. ~ (y < x)
    BY <1>1, <2>1, Zenon DEF OpToRel
  <2> QED
    BY <2>2
<1> QED
  BY <1>2 DEF Min

(* A bounded set of naturals has a greatest element.                       *)
LEMMA MaxInSet ==
  ASSUME NEW N \in Nat, NEW T \in SUBSET (1 .. N), T # {}
  PROVE  Max(T) \in T /\ \A y \in T : Max(T) >= y
<1> DEFINE U == {N - y : y \in T}
<1>0. \A y \in T : y \in 1 .. N /\ N - y \in Nat
  OBVIOUS
<1>1. U \in SUBSET Nat /\ U # {}
  BY <1>0
<1>2. Min(U) \in U /\ \A u \in U : Min(U) =< u
  BY <1>1, MinInSet
<1>3. PICK x \in T : Min(U) = N - x
  BY <1>2
<1>4. ASSUME NEW y \in T PROVE x >= y
  <2>1. N - y \in U
    OBVIOUS
  <2>2. N - x =< N - y
    BY <1>2, <1>3, <2>1
  <2> HIDE DEF U
  <2> QED
    BY <1>0, <2>2
<1> QED
  BY <1>4 DEF Max

(* IndexOf is the position of a snapshot in a list, 0 if it is not there.  *)
LEMMA IndexOfProperties ==
  ASSUME NEW S, NEW s \in Seq(S), NEW id
  PROVE  /\ IndexOf(s, id) \in 0 .. Len(s)
         /\ IndexOf(s, id) # 0 => s[IndexOf(s, id)] = id
         /\ IndexOf(s, id) = 0 => \A i \in 1 .. Len(s) : s[i] # id
<1> DEFINE I == {i \in 1 .. Len(s) : s[i] = id}
<1>1. IndexOf(s, id) = IF I # {} THEN Min(I) ELSE 0
  BY DEF IndexOf, SelectInSeq
<1>2. CASE I # {}
  BY <1>1, <1>2, MinInSet
<1>3. CASE I = {}
  BY <1>1, <1>3
<1> QED
  BY <1>2, <1>3

(* LatestCommon is the greatest position in fromSnaps of a shared id.      *)
LEMMA LatestCommonProperties ==
  ASSUME NEW S, NEW f \in Seq(S), NEW t \in Seq(S)
  PROVE  /\ LatestCommon(f, t) \in 0 .. Len(f)
         /\ LatestCommon(f, t) # 0 => \E j \in 1 .. Len(t) : f[LatestCommon(f, t)] = t[j]
         /\ \A i \in 1 .. Len(f), j \in 1 .. Len(t) :
              f[i] = t[j] => i =< LatestCommon(f, t)
<1> DEFINE I == {i \in 1 .. Len(f) : f[i] \in ToSet(t)}
<1>1. LatestCommon(f, t) = IF I # {} THEN Max(I) ELSE 0
  BY DEF LatestCommon, SelectLastInSeq
<1>2. \A i \in 1 .. Len(f) : i \in I <=> \E j \in 1 .. Len(t) : f[i] = t[j]
  BY DEF ToSet
<1>3. CASE I # {}
  <2>1. Max(I) \in I /\ \A y \in I : Max(I) >= y
    BY <1>3, MaxInSet, LenProperties
  <2>2. LatestCommon(f, t) = Max(I) /\ LatestCommon(f, t) \in 1 .. Len(f)
    BY <1>1, <1>3, <2>1
  <2> HIDE DEF I
  <2> QED
    BY <1>2, <2>1, <2>2, LenProperties
<1>4. CASE I = {}
  BY <1>1, <1>2, <1>4
<1> QED
  BY <1>3, <1>4

-----------------------------------------------------------------------------
(* Agreement of lists.                                                     *)

(* Agreement is symmetric.                                                 *)
LEMMA AgreeSymmetric ==
  ASSUME NEW S, NEW p \in Seq(S), NEW q \in Seq(S), Agree(p, q)
  PROVE  Agree(q, p)
BY DEF Agree

(* Cutting lists, by rollback or by a receive that was aborted, keeps them *)
(* in agreement.                                                           *)
LEMMA AgreePrefix ==
  ASSUME NEW S, NEW p \in Seq(S), NEW q \in Seq(S), Agree(p, q),
         NEW k \in 0 .. Len(p), NEW l \in 0 .. Len(q)
  PROVE  Agree(SubSeq(p, 1, k), SubSeq(q, 1, l))
BY DEF Agree

(* A fresh id keeps a list in agreement with every list it agreed with.    *)
LEMMA AgreeAppend ==
  ASSUME NEW S, NEW p \in Seq(S), NEW q \in Seq(S), NEW id \in S, Agree(p, q),
         \A j \in 1 .. Len(q) : q[j] # id
  PROVE  Agree(Append(p, id), q)
BY DEF Agree

(* A list extended by a fresh id agrees with itself.                       *)
LEMMA AgreeAppendBoth ==
  ASSUME NEW S, NEW p \in Seq(S), NEW id \in S, Agree(p, p),
         \A j \in 1 .. Len(p) : p[j] # id
  PROVE  Agree(Append(p, id), Append(p, id))
BY DEF Agree

(* A prefix, position by position.                                         *)
LEMMA PrefixProperties ==
  ASSUME NEW S, NEW s \in Seq(S), NEW t \in Seq(S)
  PROVE  IsPrefix(s, t) <=> Len(s) =< Len(t) /\ \A i \in 1 .. Len(s) : s[i] = t[i]
<1>1. ASSUME IsPrefix(s, t), NEW i \in 1 .. Len(s)  PROVE s[i] = t[i]
  <2>1. SubSeq(s, 1, Len(s))[i] = SubSeq(t, 1, Len(s))[i] /\ Len(s) =< Len(t)
    BY <1>1 DEF IsPrefix
  <2> QED
    BY <2>1
<1>2. ASSUME Len(s) =< Len(t), \A i \in 1 .. Len(s) : s[i] = t[i]  PROVE IsPrefix(s, t)
  <2>1. /\ SubSeq(s, 1, Len(s)) \in Seq(S) /\ SubSeq(t, 1, Len(s)) \in Seq(S)
        /\ Len(SubSeq(s, 1, Len(s))) = Len(s) /\ Len(SubSeq(t, 1, Len(s))) = Len(s)
        /\ \A i \in 1 .. Len(s) : SubSeq(s, 1, Len(s))[i] = SubSeq(t, 1, Len(s))[i]
    BY <1>2
  <2>2. SubSeq(s, 1, Len(s)) = SubSeq(t, 1, Len(s))
    BY <2>1, SeqEqual
  <2> QED
    BY <1>2, <2>2 DEF IsPrefix
<1>3. IsPrefix(s, t) => Len(s) =< Len(t)
  BY DEF IsPrefix
<1> QED
  BY <1>1, <1>2, <1>3

(* In agreeing lists the latest common snapshot ends a common prefix.      *)
LEMMA CommonPrefix ==
  ASSUME NEW S, NEW f \in Seq(S), NEW t \in Seq(S), Agree(f, t), LatestCommon(f, t) # 0
  PROVE  LET lc == LatestCommon(f, t)
         IN  /\ lc \in 1 .. Len(f) /\ lc \in 1 .. Len(t)
             /\ \A k \in 1 .. lc : f[k] = t[k]
<1> DEFINE lc == LatestCommon(f, t)
<1>1. lc \in 1 .. Len(f)
  BY LatestCommonProperties
<1>2. PICK j \in 1 .. Len(t) : f[lc] = t[j]
  BY LatestCommonProperties
<1> HIDE DEF lc
<1>3. lc = j /\ \A k \in 1 .. lc : f[k] = t[k]
  BY <1>1, <1>2 DEF Agree
<1> QED
  BY <1>1, <1>2, <1>3 DEF lc

(* A prefix of d followed by the rest of d, up to j, is d up to j.         *)
LEMMA SplitSequence ==
  ASSUME NEW S, NEW z \in Seq(S), NEW d \in Seq(S), NEW j \in 1 .. Len(d), Len(z) < j,
         \A k \in 1 .. Len(z) : z[k] = d[k]
  PROVE  z \o SubSeq(d, Len(z) + 1, j) = SubSeq(d, 1, j)
<1> DEFINE t == SubSeq(d, Len(z) + 1, j)
<1>1. t \in Seq(S) /\ Len(t) = j - Len(z) /\ \A k \in 1 .. j - Len(z) : t[k] = d[Len(z) + k]
  <2>1. Len(z) \in Nat /\ Len(d) \in Nat /\ Len(z) + 1 \in Int /\ j \in Int
    OBVIOUS
  <2>2. \A i \in Len(z) + 1 .. j : d[i] \in S
    BY <2>1
  <2>3. t \in Seq(S)
    BY <2>1, <2>2, SubSeqProperties
  <2>4. Len(t) = j - Len(z)
    BY <2>1, <2>2, SubSeqProperties
  <2>5. \A k \in 1 .. j - Len(z) : t[k] = d[Len(z) + k]
    BY <2>1, <2>2, <2>4, SubSeqProperties
  <2> QED
    BY <2>3, <2>4, <2>5
<1> HIDE DEF t
<1>2. z \o t \in Seq(S) /\ Len(z \o t) = j
  BY <1>1, ConcatProperties, Len(z) \in Nat, Len(d) \in Nat
<1>3. \A k \in 1 .. j : (z \o t)[k] = d[k]
  <2>1. \A k \in 1 .. j : (z \o t)[k] = IF k =< Len(z) THEN z[k] ELSE t[k - Len(z)]
    BY <1>1
  <2>2. Len(z) \in Nat /\ \A i \in 1 .. Len(z) : z[i] = d[i]
    OBVIOUS
  <2> SUFFICES ASSUME NEW k \in 1 .. j PROVE (z \o t)[k] = d[k]
    OBVIOUS
  <2>3. CASE k =< Len(z)
    <3>1. k \in 1 .. Len(z) /\ (z \o t)[k] = z[k]
      BY <2>1, <2>2, <2>3
    <3> QED
      BY <2>2, <3>1
  <2>4. CASE ~(k =< Len(z))
    <3>1. k - Len(z) \in 1 .. j - Len(z) /\ Len(z) + (k - Len(z)) = k
      BY <2>2, <2>4
    <3>2. (z \o t)[k] = t[k - Len(z)]
      BY <2>1, <2>4, Zenon
    <3> QED
      BY <1>1, <3>1, <3>2
  <2> QED
    BY <2>3, <2>4, Zenon
<1>4. SubSeq(d, 1, j) \in Seq(S) /\ Len(SubSeq(d, 1, j)) = j
      /\ \A k \in 1 .. j : SubSeq(d, 1, j)[k] = d[k]
  OBVIOUS
<1>5. z \o t = SubSeq(d, 1, j)
  BY <1>2, <1>3, <1>4, SeqEqual
<1> QED
  BY <1>5 DEF t

(* Receiving.  The stream that receivingState opens completes the list of  *)
(* the destination to a list the sender has: `zfs recv` accepts it only on *)
(* an empty pool, or at the snapshot where it starts, and up to there the  *)
(* two pools agree.                                                        *)
LEMMA StreamCompletes ==
  ASSUME NEW S, NEW z \in Seq(S), NEW d \in Seq(S), Agree(z, d), NEW a, NEW b, CanSend(d, a, b),
         IF a = NilSnap THEN z = << >> ELSE z # << >> /\ Last(z) = a
  PROVE  z \o SendStream(d, a, b) = SubSeq(d, 1, IndexOf(d, b)) /\ IndexOf(d, b) \in 0 .. Len(d)
<1>1. IndexOf(d, b) \in 1 .. Len(d)
  BY IndexOfProperties DEF CanSend
<1>2. CASE a = NilSnap
  BY <1>1, <1>2 DEF SendStream
<1>3. CASE a # NilSnap
  <2> DEFINE i == IndexOf(d, a)
             j == IndexOf(d, b)
  <2>1. i \in 1 .. j - 1 /\ j \in 1 .. Len(d) /\ d[i] = a
    BY <1>1, <1>3, IndexOfProperties DEF CanSend
  <2>2. Len(z) \in DOMAIN z /\ z[Len(z)] = a /\ i \in DOMAIN d
    BY <1>3, <2>1 DEF Last
  <2>3. Len(z) = i /\ \A k \in 1 .. i : z[k] = d[k]
    BY <2>1, <2>2 DEF Agree
  <2>4. SendStream(d, a, b) = SubSeq(d, Len(z) + 1, j)
    BY <1>3, <2>3 DEF SendStream
  <2>5. Len(z) < j /\ \A k \in 1 .. Len(z) : z[k] = d[k]
    BY <2>1, <2>3
  <2>6. z \o SubSeq(d, Len(z) + 1, j) = SubSeq(d, 1, j)
    <3> HIDE DEF i, j
    <3> QED
      BY <2>1, <2>5, SplitSequence
  <2>7. z \o SendStream(d, a, b) = SubSeq(d, 1, IndexOf(d, b))
    BY <2>4, <2>6
  <2> QED
    BY <1>1, <2>7
<1> QED
  BY <1>2, <1>3

-----------------------------------------------------------------------------
(* What canApply answers, by how the two lists are related.                *)

(* handoffState switches masters on ToSnapsUpToDate: for agreeing lists it *)
(* is said of equal lists only.                                            *)
THEOREM UpToDateMeansEqual ==
  ASSUME NEW S, NEW f \in Seq(S), NEW t \in Seq(S), Agree(f, t),
         canApply(f, t).err = "ToSnapsUpToDate"
  PROVE  f = t /\ f # << >>
<1> DEFINE lc == LatestCommon(f, t)
<1>1. f # << >> /\ t # << >> /\ lc # 0 /\ f[lc] = Last(t) /\ f[lc] = Last(f)
  BY DEF canApply, ApplyRange, ApplyError, Range3
<1>2. lc \in 1 .. Len(f)
  BY <1>1, LatestCommonProperties
<1> HIDE DEF lc
<1>3. Len(f) \in 1 .. Len(f) /\ Len(t) \in 1 .. Len(t) /\ f[Len(f)] = t[Len(t)]
  BY <1>1, EmptySeq DEF Last
<1>4. Len(f) = Len(t) /\ \A k \in 1 .. Len(f) : f[k] = t[k]
  BY <1>3 DEF Agree
<1> QED
  BY <1>1, <1>4, SeqEqual

(* receivingState pulls the range: for agreeing lists it starts where the  *)
(* destination ends, at a shared prefix, and ends where the source ends.   *)
THEOREM RangeStartsAtDestination ==
  ASSUME NEW S, NEW f \in Seq(S), NEW t \in Seq(S), Agree(f, t), canApply(f, t).err = "ok"
  PROVE  /\ IsStrictPrefix(t, f)
         /\ canApply(f, t).toSnap = Last(f)
         /\ canApply(f, t).fromSnap = IF t = << >> THEN NilSnap ELSE Last(t)
<1> DEFINE lc == LatestCommon(f, t)
<1>1. CASE t = << >>
  <2>1. f # << >> /\ canApply(f, t).toSnap = Last(f) /\ canApply(f, t).fromSnap = NilSnap
    BY <1>1 DEF canApply, ApplyRange, ApplyError, Range3
  <2>2. Len(t) = 0 /\ Len(f) \in Nat
    BY <1>1
  <2>3. IsPrefix(t, f)
    <3>1. IsPrefix(t, f) <=> Len(t) =< Len(f) /\ \A i \in 1 .. Len(t) : t[i] = f[i]
      BY PrefixProperties
    <3> QED
      BY <2>2, <3>1
  <2> QED
    BY <1>1, <2>1, <2>3 DEF IsStrictPrefix
<1>2. CASE t # << >>
  <2>1. /\ f # << >> /\ lc # 0 /\ f[lc] = Last(t) /\ f[lc] # Last(f)
        /\ canApply(f, t).toSnap = Last(f) /\ canApply(f, t).fromSnap = f[lc]
    BY <1>2 DEF canApply, ApplyRange, ApplyError, Range3
  <2>2. lc \in 1 .. Len(f) /\ \A k \in 1 .. lc : f[k] = t[k]
    BY <2>1, CommonPrefix
  <2> HIDE DEF lc
  <2>3. Len(t) \in 1 .. Len(t) /\ t[Len(t)] = f[lc]
    BY <1>2, <2>1, EmptySeq DEF Last
  <2>4. lc = Len(t)
    BY <2>2, <2>3 DEF Agree
  <2>5. IsPrefix(t, f)
    BY <2>2, <2>4, PrefixProperties
  <2>6. t # f
    BY <2>1, <2>4 DEF Last
  <2> QED
    BY <1>2, <2>1, <2>5, <2>6 DEF IsStrictPrefix
<1> QED
  BY <1>1, <1>2

(* What receivingState pulls is what is missing: for agreeing lists the    *)
(* range that canApply returns can be sent, and makes the destination the  *)
(* source, nothing skipped and nothing repeated.                           *)
THEOREM RangeCompletes ==
  ASSUME NEW S, NilSnap \notin S, NEW f \in Seq(S), NEW t \in Seq(S), Agree(f, f), Agree(f, t),
         canApply(f, t).err = "ok"
  PROVE  LET r == canApply(f, t)
         IN  /\ CanSend(f, r.fromSnap, r.toSnap)
             /\ t \o SendStream(f, r.fromSnap, r.toSnap) = f
<1> DEFINE a == canApply(f, t).fromSnap
           b == canApply(f, t).toSnap
<1>1. IsStrictPrefix(t, f) /\ b = Last(f) /\ a = IF t = << >> THEN NilSnap ELSE Last(t)
  BY RangeStartsAtDestination
<1> HIDE DEF a, b
<1>2. Len(t) =< Len(f) /\ \A i \in 1 .. Len(t) : t[i] = f[i]
  BY <1>1, PrefixProperties DEF IsStrictPrefix
<1>3. Len(t) < Len(f)
  <2>1. Len(t) # Len(f)
    BY <1>1, <1>2, SeqEqual DEF IsStrictPrefix
  <2> QED
    BY <1>2, <2>1
<1>4. ASSUME NEW i \in 1 .. Len(f)  PROVE IndexOf(f, f[i]) = i
  <2>1. IndexOf(f, f[i]) \in 1 .. Len(f) /\ f[IndexOf(f, f[i])] = f[i]
    BY IndexOfProperties
  <2> QED
    BY <2>1 DEF Agree
<1>5. IndexOf(f, b) = Len(f) /\ Len(f) \in 1 .. Len(f)
  BY <1>1, <1>3, <1>4 DEF Last
<1>6. ASSUME t # << >>
      PROVE  a # NilSnap /\ a = Last(t) /\ IndexOf(f, a) = Len(t) /\ Len(t) \in 1 .. Len(f)
  <2>1. Len(t) \in 1 .. Len(t) /\ Len(t) \in 1 .. Len(f)
    BY <1>3, <1>6, EmptySeq
  <2>2. a = t[Len(t)] /\ a = f[Len(t)] /\ a \in S
    BY <1>1, <1>2, <1>6, <2>1 DEF Last
  <2> QED
    BY <1>1, <1>4, <1>6, <2>1, <2>2
<1>7. CanSend(f, a, b)
  <2>1. CASE t = << >>
    BY <1>1, <1>5, <2>1 DEF CanSend
  <2>2. CASE t # << >>
    BY <1>3, <1>5, <1>6, <2>2 DEF CanSend
  <2> QED
    BY <2>1, <2>2
<1>8. IF a = NilSnap THEN t = << >> ELSE t # << >> /\ Last(t) = a
  BY <1>1, <1>6
<1>9. t \o SendStream(f, a, b) = SubSeq(f, 1, Len(f))
  <2>1. Agree(t, f)
    BY AgreeSymmetric
  <2> QED
    BY <1>5, <1>7, <1>8, <2>1, StreamCompletes
<1> QED
  BY <1>7, <1>9, SubSeqFull DEF a, b

(* The verdict of the scan is the way the two histories extend each other. *)
THEOREM VerdictIsRelation ==
  ASSUME NEW S, NEW f \in Seq(S), NEW t \in Seq(S), Agree(f, t)
  PROVE  canApply(f, t).err = RelationOf(f, t)
<1> DEFINE lc == LatestCommon(f, t)
<1>0. canApply(f, t).err =
        IF f = << >> THEN "NoFromSnaps" ELSE IF t = << >> THEN "ok"
        ELSE IF lc = 0 THEN "NoCommonSnapshots"
        ELSE IF f[lc] = Last(t)
               THEN IF f[lc] = Last(f) THEN "ToSnapsUpToDate" ELSE "ok"
        ELSE IF f[lc] = Last(f) THEN "ToSnapsAhead" ELSE "ToSnapsDiverged"
  BY DEF canApply, ApplyRange, ApplyError, Range3
<1>1. \A i \in 1 .. Len(f), j \in 1 .. Len(t) : f[i] = t[j] => i =< lc
  BY LatestCommonProperties
<1>2. lc # 0 => lc \in 1 .. Len(f) /\ lc \in 1 .. Len(t) /\ \A k \in 1 .. lc : f[k] = t[k]
  BY CommonPrefix
<1>3. IsPrefix(t, f) <=> Len(t) =< Len(f) /\ \A i \in 1 .. Len(t) : t[i] = f[i]
  BY PrefixProperties
<1>4. IsPrefix(f, t) <=> Len(f) =< Len(t) /\ \A i \in 1 .. Len(f) : f[i] = t[i]
  BY PrefixProperties
<1>5. f # << >> => Len(f) \in Nat \ {0}
  BY EmptySeq
<1>6. t # << >> => Len(t) \in Nat \ {0}
  BY EmptySeq
<1>7. lc \in Nat
  BY LatestCommonProperties
<1> HIDE DEF lc
(* Which of the ends of the two lists the common snapshot is.              *)
<1>8. ASSUME f # << >>, t # << >>, lc # 0
      PROVE  /\ f[lc] = Last(t) <=> IsPrefix(t, f)
             /\ f[lc] = Last(f) <=> IsPrefix(f, t)
  <2>1. f[lc] = t[Len(t)] => lc = Len(t)
    BY <1>8, <1>2, <1>6 DEF Agree
  <2>2. f[lc] = f[Len(f)] => lc = Len(f)
    <3>1. f[lc] = t[lc]
      BY <1>8, <1>2
    <3> QED
      BY <3>1, <1>8, <1>2, <1>5 DEF Agree
  <2>3. IsPrefix(t, f) => lc = Len(t)
    <3>1. IsPrefix(t, f) => f[Len(t)] = t[Len(t)] /\ Len(t) \in 1 .. Len(f) /\ Len(t) =< lc
      BY <1>8, <1>1, <1>3, <1>5, <1>6
    <3> QED
      BY <3>1, <1>8, <1>2, <1>6
  <2>4. IsPrefix(f, t) => lc = Len(f)
    <3>1. IsPrefix(f, t) => f[Len(f)] = t[Len(f)] /\ Len(f) \in 1 .. Len(t) /\ Len(f) =< lc
      BY <1>8, <1>1, <1>4, <1>5, <1>6
    <3> QED
      BY <3>1, <1>8, <1>2, <1>5
  <2>5. f[lc] = Last(t) <=> IsPrefix(t, f)
    BY <2>1, <2>3, <1>8, <1>2, <1>3, <1>6 DEF Last
  <2>6. f[lc] = Last(f) <=> IsPrefix(f, t)
    BY <2>2, <2>4, <1>8, <1>2, <1>4, <1>5 DEF Last
  <2> QED
    BY <2>5, <2>6
<1>9. ASSUME f # << >>, t # << >>
      PROVE  lc # 0 <=> f[1] = t[1]
  <2>1. lc # 0 => f[1] = t[1]
    BY <1>9, <1>2, <1>7
  <2>2. f[1] = t[1] => lc # 0
    BY <1>9, <1>1, <1>5, <1>6, <1>7
  <2> QED
    BY <2>1, <2>2
<1>10. ASSUME IsPrefix(f, t), IsPrefix(t, f)  PROVE f = t
  BY <1>10, <1>3, <1>4, SeqEqual
<1>11. CASE f = << >>
  BY <1>0, <1>11 DEF RelationOf
<1>12. CASE f # << >> /\ t = << >>
  <2>1. IsStrictPrefix(t, f)
    BY <1>12, <1>3, <1>5 DEF IsStrictPrefix
  <2>2. ~ IsPrefix(f, t)
    BY <1>12, <1>4, <1>5
  <2> QED
    BY <1>0, <1>12, <2>1, <2>2 DEF RelationOf, IsStrictPrefix
<1>13. CASE f # << >> /\ t # << >>
  <2>1. f = t => f[1] = t[1] /\ IsPrefix(t, f) /\ IsPrefix(f, t)
    BY <1>3, <1>4, <1>13, <1>5
  <2>2. IsPrefix(f, t) \/ IsPrefix(t, f) => f[1] = t[1]
    BY <1>3, <1>4, <1>13, <1>5, <1>6
  <2> QED
    BY <1>0, <1>8, <1>9, <1>10, <1>13, <2>1, <2>2 DEF RelationOf, IsStrictPrefix
<1> QED
  BY <1>11, <1>12, <1>13

(* A user who rolls the destination back to the common snapshot that the   *)
(* errors ToSnapsAhead and ToSnapsDiverged carry gets a prefix of the      *)
(* source: the next canApply returns a range, or finds the two lists equal.*)
THEOREM AdviceGivesPrefix ==
  ASSUME NEW S, NEW f \in Seq(S), NEW t \in Seq(S), Agree(f, f), Agree(f, t),
         canApply(f, t).err \in {"ToSnapsAhead", "ToSnapsDiverged"}
  PROVE  LET z == rollbackSlice(t, canApply(f, t).common)
         IN  /\ z \in Seq(S) /\ Agree(f, z)
             /\ z # << >> /\ IsPrefix(z, f)
             /\ canApply(f, z).err \in {"ok", "ToSnapsUpToDate"}
<1> DEFINE c == canApply(f, t).common
           lc == LatestCommon(f, t)
           z == rollbackSlice(t, c)
<1>1. f # << >> /\ t # << >> /\ lc # 0 /\ c = f[lc]
  BY DEF canApply, ApplyRange, ApplyError, Range3
<1>2. lc \in 1 .. Len(f) /\ lc \in 1 .. Len(t) /\ \A k \in 1 .. lc : f[k] = t[k]
  BY <1>1, CommonPrefix
<1> HIDE DEF c, lc
<1>3. IndexOf(t, c) = lc
  <2>1. IndexOf(t, c) \in 0 .. Len(t) /\ (IndexOf(t, c) # 0 => t[IndexOf(t, c)] = c)
        /\ (IndexOf(t, c) = 0 => \A i \in 1 .. Len(t) : t[i] # c)
    BY IndexOfProperties
  <2>2. t[lc] = c /\ f[lc] = c
    BY <1>1, <1>2
  <2>3. IndexOf(t, c) \in 1 .. Len(t) /\ t[IndexOf(t, c)] = f[lc]
    BY <1>2, <2>1, <2>2
  <2> QED
    BY <1>2, <2>3 DEF Agree
<1>4. z = SubSeq(t, 1, lc)
  BY <1>2, <1>3 DEF rollbackSlice
<1> HIDE DEF z
<1>5. z \in Seq(S) /\ Len(z) = lc /\ \A k \in 1 .. lc : z[k] = f[k]
  BY <1>2, <1>4
<1>6. z # << >> /\ IsPrefix(z, f)
  <2>1. IsPrefix(z, f)
    BY <1>2, <1>5, PrefixProperties
  <2> QED
    BY <1>2, <1>5, <2>1
<1>7. Agree(f, z)
  <2>1. Agree(SubSeq(f, 1, Len(f)), SubSeq(t, 1, lc))
    BY <1>2, AgreePrefix
  <2> QED
    BY <1>4, <2>1, SubSeqFull
<1>8. canApply(f, z).err \in {"ok", "ToSnapsUpToDate"}
  <2>1. canApply(f, z).err = RelationOf(f, z)
    BY <1>5, <1>7, VerdictIsRelation
  <2>2. CASE z = f
    <3>1. ~ IsStrictPrefix(z, f) /\ ~ IsStrictPrefix(f, z)
      BY <2>2 DEF IsStrictPrefix
    <3> QED
      BY <1>1, <2>1, <2>2, <3>1 DEF RelationOf
  <2>3. CASE z # f
    <3>1. IsStrictPrefix(z, f)
      BY <1>6, <2>3 DEF IsStrictPrefix
    <3>2. ~ IsPrefix(f, z)
      <4>1. IsPrefix(f, z) => Len(f) =< Len(z)
        BY <1>5, PrefixProperties
      <4>2. Len(z) =< Len(f) /\ \A k \in 1 .. Len(z) : z[k] = f[k]
        BY <1>2, <1>5
      <4>3. Len(z) # Len(f)
        BY <1>5, <2>3, <4>2, SeqEqual
      <4> QED
        BY <1>5, <4>1, <4>2, <4>3
    <3> QED
      BY <1>1, <2>1, <2>3, <3>1, <3>2 DEF RelationOf, IsStrictPrefix
  <2> QED
    BY <2>2, <2>3
<1> QED
  BY <1>5, <1>6, <1>7, <1>8 DEF z, c
=============================================================================
