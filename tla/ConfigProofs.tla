---------------------------- MODULE ConfigProofs ----------------------------
(***************************************************************************)
(* Proofs about the configuration path, for every set of strategies and    *)
(* partitions, every page and batch size and every value of the bounds.    *)
(*                                                                         *)
(*  - ConfigDelivery, whatever arrives in whatever order: the store never  *)
(*    brings back a deleted strategy and never goes back to an older       *)
(*    version.  DeletedStaysDeleted is not inductive: a pause delivered    *)
(*    late must be known to be older than the tombstone, which is what     *)
(*    OnlyIssued and VersionOrder add.                                     *)
(*  - ConfigPipeline: the outbox loses no change (PipelineInv), and the    *)
(*    database, the outbox, Kafka and the bootstrap implement the          *)
(*    delivery, so that what is proved of it holds of them.                *)
(*  - Until the engine restarts, once everything was delivered an active   *)
(*    row is served at its version (ServedInv).                            *)
(*                                                                         *)
(* Without is a recursive function, so what it returns is proved by        *)
(* induction, from the fact that a nonempty set of naturals has a least    *)
(* element.                                                                *)
(***************************************************************************)
EXTENDS ConfigPipeline, SequenceTheorems, FiniteSetTheorems, WellFoundedInduction, TLAPS

-----------------------------------------------------------------------------
(***************************************************************************)
(* Sequences: what Without, Insert and SetToSeq return.                    *)
(***************************************************************************)

(***************************************************************************)
(* Every nonempty set of naturals has a least element.                     *)
(***************************************************************************)
LEMMA NatMin ==
    ASSUME NEW T, T \subseteq Nat, T # {}
    PROVE  \E x \in T : \A y \in T : x <= y
<1> DEFINE R == OpToRel(<, Nat)
<1>1. IsWellFoundedOn(R, Nat)
  BY NatLessThanWellFounded
<1>2. PICK x \in T : \A y \in T : ~ (<<y, x>> \in R)
  <2> HIDE DEF R
  <2> QED BY <1>1, WFMin
<1>3. \A y \in T : ~(y < x)
  BY <1>2 DEF OpToRel
<1> QED BY <1>3

(***************************************************************************)
(* Induction over a set of naturals: what the sequence lemmas rest on.     *)
(***************************************************************************)
LEMMA NatSetInduction ==
    ASSUME NEW T, 0 \in T, \A n \in Nat : n \in T => n + 1 \in T
    PROVE  Nat \subseteq T
<1> SUFFICES ASSUME Nat \ T # {} PROVE FALSE
  OBVIOUS
<1>1. PICK x \in Nat \ T : \A y \in Nat \ T : x <= y
  BY NatMin
<1>2. x - 1 \in Nat /\ x - 1 \in T
  BY <1>1
<1>3. x - 1 + 1 = x
  BY <1>2
<1> QED BY <1>1, <1>2, <1>3

\* The recursion of Without: F[i] is what is kept of the first i elements.
NextKept(seq, S, F, i) ==
    IF i = 0 THEN <<>> ELSE IF seq[i] \in S THEN F[i - 1] ELSE Append(F[i - 1], seq[i])
KeptUpTo(seq, S, F, n) == F = [i \in 0..n |-> NextKept(seq, S, F, i)]

(***************************************************************************)
(* The function that Without defines by recursion exists, for every length *)
(* and every sequence.                                                     *)
(***************************************************************************)
LEMMA KeptExists ==
    ASSUME NEW seq, NEW S, NEW n \in Nat
    PROVE  \E F : KeptUpTo(seq, S, F, n)
<1> DEFINE T == {k \in Nat : \E F : KeptUpTo(seq, S, F, k)}
<1>1. 0 \in T
  <2> DEFINE F == [i \in 0..0 |-> <<>>]
  <2>1. F = [i \in 0..0 |-> NextKept(seq, S, F, i)]
    BY DEF NextKept
  <2> HIDE DEF F
  <2> QED BY <2>1 DEF KeptUpTo
<1>2. ASSUME NEW k \in Nat, k \in T PROVE k + 1 \in T
  <2>1. PICK F : KeptUpTo(seq, S, F, k)
    BY <1>2
  <2> DEFINE G == [i \in 0..k + 1 |-> IF i <= k THEN F[i] ELSE NextKept(seq, S, F, i)]
  <2>2. \A i \in 0..k : F[i] = NextKept(seq, S, F, i)
    BY <2>1 DEF KeptUpTo
  <2>3. \A i \in 0..k + 1 : NextKept(seq, S, G, i) = NextKept(seq, S, F, i)
    BY DEF NextKept
  <2>4. \A i \in 0..k + 1 : G[i] = NextKept(seq, S, G, i)
    BY <2>2, <2>3
  <2>5. G = [i \in 0..k + 1 |-> NextKept(seq, S, G, i)]
    BY <2>4
  <2> HIDE DEF G
  <2> QED BY <2>5 DEF KeptUpTo
<1> HIDE DEF T
<1>3. n \in T
  BY <1>1, <1>2, NatSetInduction
<1> QED BY <1>3 DEF T

(***************************************************************************)
(* Without is the last value of that function.                             *)
(***************************************************************************)
LEMMA WithoutIs ==
    ASSUME NEW A, NEW seq \in Seq(A), NEW S
    PROVE  \E F : KeptUpTo(seq, S, F, Len(seq)) /\ Without(seq, S) = F[Len(seq)]
<1> DEFINE K == CHOOSE F : KeptUpTo(seq, S, F, Len(seq))
<1>1. KeptUpTo(seq, S, K, Len(seq))
  BY KeptExists
<1>2. Without(seq, S) = K[Len(seq)]
  BY DEF Without, KeptUpTo, NextKept
<1> HIDE DEF K
<1> QED BY <1>1, <1>2

(***************************************************************************)
(* Appending adds the element and nothing else.                            *)
(***************************************************************************)
LEMMA RangeOfAppend ==
    ASSUME NEW A, NEW seq \in Seq(A), NEW e \in A
    PROVE  Range(Append(seq, e)) = Range(seq) \cup {e}
<1>1. /\ Append(seq, e) \in Seq(A)
      /\ Len(Append(seq, e)) = Len(seq) + 1
      /\ \A i \in 1..Len(seq) : Append(seq, e)[i] = seq[i]
      /\ Append(seq, e)[Len(seq) + 1] = e
  OBVIOUS
<1>2. 1..Len(seq) + 1 = (1..Len(seq)) \cup {Len(seq) + 1}
  BY LenProperties
<1> HIDE DEF Range
<1>3. Range(Append(seq, e)) = {Append(seq, e)[i] : i \in 1..Len(seq) + 1}
  BY <1>1, RangeEquality
<1>4. Range(seq) = {seq[i] : i \in 1..Len(seq)}
  BY RangeEquality
<1> QED BY <1>1, <1>2, <1>3, <1>4

(***************************************************************************)
(* What Without (the DELETEs and UPDATEs that take rows out of a list)     *)
(* returns: a sequence of exactly the elements that are not removed.       *)
(***************************************************************************)
LEMMA WithoutKeeps ==
    ASSUME NEW A, NEW seq \in Seq(A), NEW S
    PROVE  /\ Without(seq, S) \in Seq(A)
           /\ Range(Without(seq, S)) = Range(seq) \ S
<1>1. PICK F : KeptUpTo(seq, S, F, Len(seq)) /\ Without(seq, S) = F[Len(seq)]
  BY WithoutIs
<1> DEFINE Good(n) == /\ F[n] \in Seq(A)
                      /\ \A x : x \in Range(F[n]) <=> x \notin S /\ \E i \in 1..n : seq[i] = x
<1> DEFINE T == {n \in Nat : n <= Len(seq) => Good(n)}
<1>2. \A i \in 0..Len(seq) : F[i] = NextKept(seq, S, F, i)
  BY <1>1 DEF KeptUpTo
<1>3. 0 \in T
  <2>1. F[0] = <<>>
    BY <1>2 DEF NextKept
  <2>2. F[0] \in Seq(A) /\ Range(F[0]) = {}
    BY <2>1 DEF Range
  <2> QED BY <2>2
<1>4. ASSUME NEW n \in Nat, n \in T PROVE n + 1 \in T
  <2> SUFFICES ASSUME n + 1 <= Len(seq) PROVE Good(n + 1)
    OBVIOUS
  <2>1. Good(n)
    BY <1>4
  <2>2. seq[n + 1] \in A /\ n + 1 \in 0..Len(seq) /\ n + 1 # 0 /\ (n + 1) - 1 = n
    OBVIOUS
  <2>3. CASE seq[n + 1] \in S
    <3>1. F[n + 1] = F[n]
      BY <1>2, <2>2, <2>3 DEF NextKept
    <3> QED BY <2>1, <2>3, <3>1
  <2>4. CASE seq[n + 1] \notin S
    <3>1. F[n + 1] = Append(F[n], seq[n + 1])
      BY <1>2, <2>2, <2>4 DEF NextKept
    <3>2. F[n + 1] \in Seq(A)
      BY <2>1, <2>2, <3>1
    <3>3. Range(F[n + 1]) = Range(F[n]) \cup {seq[n + 1]}
      BY <2>1, <2>2, <3>1, RangeOfAppend
    <3> QED BY <2>1, <2>4, <3>2, <3>3
  <2> QED BY <2>3, <2>4
<1> HIDE DEF T
<1>5. Len(seq) \in T
  BY <1>3, <1>4, NatSetInduction
<1>6. Good(Len(seq))
  BY <1>5 DEF T
<1> QED
  BY <1>1, <1>6 DEF Range
(***************************************************************************)
(* SetToSeq lists exactly the members of a finite set.                     *)
(***************************************************************************)
LEMMA RangeOfSetToSeq ==
    ASSUME NEW S, IsFiniteSet(S)
    PROVE  SetToSeq(S) \in Seq(S) /\ Range(SetToSeq(S)) = S
<1> DEFINE n == Cardinality(S)
<1>1. n \in Nat /\ ExistsBijection(1..n, S)
  BY FS_CardinalityType
<1>2. \E f \in [1..n -> S] : IsInjective(f)
  BY <1>1 DEF ExistsBijection, Bijection, Injection, IsInjective
<1>3. SetToSeq(S) \in [1..n -> S] /\ IsInjective(SetToSeq(S))
  BY <1>2 DEF SetToSeq
<1>4. SetToSeq(S) \in Injection(1..n, S)
  BY <1>3 DEF Injection, IsInjective
<1>5. IsFiniteSet(1..n) /\ Cardinality(1..n) = n
  BY <1>1, FS_Interval
<1>6. SetToSeq(S) \in Surjection(1..n, S)
  BY <1>4, <1>5, FS_Injection
<1>7. SetToSeq(S) \in Seq(S)
  BY <1>1, <1>3
<1> QED
  BY <1>3, <1>6, <1>7 DEF Surjection, Range

(***************************************************************************)
(* A sequence has finitely many elements.                                  *)
(***************************************************************************)
LEMMA RangeIsFinite ==
    ASSUME NEW A, NEW seq \in Seq(A)
    PROVE  IsFiniteSet(Range(seq))
<1>1. Len(seq) \in Nat /\ IsFiniteSet(1..Len(seq))
  BY FS_Interval
<1>2. seq \in Surjection(1..Len(seq), Range(seq))
  BY DEF Surjection, Range
<1> QED BY <1>1, <1>2, FS_Surjection

(***************************************************************************)
(* Wherever a transaction's rows are inserted, the outbox then holds what  *)
(* it held and these rows.                                                 *)
(***************************************************************************)
LEMMA InsertAdds ==
    ASSUME NEW A, pending \in Seq(A), NEW rows \in Seq(A), Overlap \in Nat, Insert(rows)
    PROVE  /\ pending' \in Seq(A)
           /\ Range(pending') = Range(pending) \cup Range(rows)
<1>1. PICK back \in 0..Overlap :
         /\ Len(pending) - back >= 0
         /\ pending' = SubSeq(pending, 1, Len(pending) - back) \o rows
                       \o SubSeq(pending, Len(pending) - back + 1, Len(pending))
  BY DEF Insert
<1> DEFINE k == Len(pending) - back
           before == SubSeq(pending, 1, k)
           after == SubSeq(pending, k + 1, Len(pending))
<1>2. k \in 0..Len(pending)
  BY <1>1
<1>3. /\ before \in Seq(A) /\ Len(before) = k
      /\ \A i \in 1..k : before[i] = pending[i]
  BY <1>2
<1>4. /\ after \in Seq(A) /\ Len(after) = Len(pending) - k
      /\ \A i \in 1..Len(pending) - k : after[i] = pending[k + i]
  BY <1>2
<1>5. pending' = before \o rows \o after
  BY <1>1
<1> HIDE DEF k, before, after
<1>6. Range(pending) = Range(before) \cup Range(after)
  <2>1. Range(pending) = {pending[i] : i \in 1..Len(pending)}
    BY RangeEquality
  <2>2. Range(before) = {pending[i] : i \in 1..k}
    BY <1>3, RangeEquality
  <2>3. Range(after) = {pending[k + i] : i \in 1..Len(pending) - k}
    BY <1>4, RangeEquality
  <2>4. \A i \in 1..Len(pending) : i \in 1..k \/ (i - k \in 1..Len(pending) - k /\ k + (i - k) = i)
    BY <1>2
  <2>5. \A i \in 1..Len(pending) - k : k + i \in 1..Len(pending)
    BY <1>2
  <2>6. \A i \in 1..k : i \in 1..Len(pending)
    BY <1>2
  <2> QED BY <2>1, <2>2, <2>3, <2>4, <2>5, <2>6
<1>7. before \o rows \in Seq(A) /\ Range(before \o rows) = Range(before) \cup Range(rows)
  BY <1>3, RangeConcatenation
<1>8. Range((before \o rows) \o after) = Range(before \o rows) \cup Range(after)
  <2> DEFINE front == before \o rows
  <2>1. front \in Seq(A)
    BY <1>7
  <2> HIDE DEF front
  <2>2. Range(front \o after) = Range(front) \cup Range(after)
    BY <1>4, <2>1, RangeConcatenation
  <2> QED BY <2>2 DEF front
<1> QED BY <1>4, <1>5, <1>6, <1>7, <1>8

(***************************************************************************)
(* A page or a batch consists of elements of the list it was cut from.     *)
(***************************************************************************)
LEMMA RangeOfSubSeq ==
    ASSUME NEW A, NEW seq \in Seq(A), NEW m \in Nat \ {0}, NEW n \in Nat, n <= Len(seq)
    PROVE  /\ SubSeq(seq, m, n) \in Seq(A)
           /\ \A i \in 1..Len(SubSeq(seq, m, n)) : SubSeq(seq, m, n)[i] \in Range(seq)
           /\ Range(SubSeq(seq, m, n)) \subseteq Range(seq)
<1> DEFINE sub == SubSeq(seq, m, n)
<1>1. /\ sub \in Seq(A)
      /\ Len(sub) = IF m <= n THEN n - m + 1 ELSE 0
      /\ \A i \in 1..n - m + 1 : sub[i] = seq[m + i - 1]
  BY SubSeqProperties
<1>2. \A i \in 1..Len(sub) : sub[i] \in Range(seq)
  BY <1>1 DEF Range
<1> HIDE DEF sub
<1>3. Range(sub) \subseteq Range(seq)
  BY <1>1, <1>2, RangeEquality
<1> QED BY <1>1, <1>2, <1>3 DEF sub

(***************************************************************************)
(* Putting an element in front adds it and nothing else.                   *)
(***************************************************************************)
LEMMA RangeOfCons ==
    ASSUME NEW A, NEW seq \in Seq(A), NEW e \in A
    PROVE  <<e>> \o seq \in Seq(A) /\ Range(<<e>> \o seq) = {e} \cup Range(seq)
<1> DEFINE one == <<e>>
<1>1. one \in Seq(A) /\ Range(one) = {e}
  BY DEF Range
<1> HIDE DEF one
<1>2. one \o seq \in Seq(A) /\ Range(one \o seq) = Range(one) \cup Range(seq)
  BY <1>1, RangeConcatenation, ConcatProperties
<1> QED BY <1>1, <1>2 DEF one

-----------------------------------------------------------------------------
(***************************************************************************)
(* The delivery.  Its variable issued is the version column of the strategies *)
(* table here.                                                             *)
(***************************************************************************)

\* A deleted strategy has a row, and the delete is one of its versions.
DeletedIsIssued ==
    \A s \in Strategies : deletedAt[s] <= version[s]

IInv ==
    /\ Delivery!TypeOK
    /\ DeletedIsIssued
    /\ OneCopy
    /\ Delivery!OnlyIssued
    /\ Delivery!VersionOrder
    /\ DeletedStaysDeleted

-----------------------------------------------------------------------------
(***************************************************************************)
(* Every map of the store is empty in the initial state.                   *)
(***************************************************************************)
LEMMA InitEstablishes == Delivery!Init => IInv
  BY DEF Delivery!Init, IInv, Delivery!TypeOK, Delivery!StoreTypeOK, Delivery!StoreInit,
       Delivery!Empty, DeletedIsIssued, OneCopy, Delivery!OnlyIssued,
       Delivery!VersionOrder, DeletedStaysDeleted, Delivery!LiveVersion,
       Delivery!DeleteVersion

(***************************************************************************)
(* A transaction of user-config leaves the store alone, and what was live  *)
(* before it is live after it.                                             *)
(***************************************************************************)
LEMMA WritePreserves ==
    ASSUME IInv, NEW S \in SUBSET Strategies, Delivery!Write(S)
    PROVE  IInv'
<1> USE PipelineAssumption
<1>1. /\ \A s \in Strategies : version'[s] \in Nat /\ version'[s] >= version[s]
      /\ version' \in [Strategies -> Nat]
  BY DEF IInv, Delivery!TypeOK, Delivery!Write
<1>2. deletedAt' = deletedAt /\ Delivery!storeVars' = Delivery!storeVars
  BY DEF Delivery!Write, Delivery!storeVars
<1>3. Delivery!TypeOK'
  BY <1>1, <1>2 DEF IInv, Delivery!TypeOK, Delivery!StoreTypeOK, Delivery!storeVars
<1>4. \A s \in Strategies, v \in Nat :
         /\ Delivery!LiveVersion(s, v) => Delivery!LiveVersion(s, v)'
         /\ Delivery!DeleteVersion(s, v) => Delivery!DeleteVersion(s, v)'
  BY <1>1, <1>2 DEF IInv, Delivery!TypeOK, Delivery!LiveVersion, Delivery!DeleteVersion
<1>5. DeletedIsIssued'
  BY <1>1, <1>2 DEF IInv, Delivery!TypeOK, DeletedIsIssued
<1>6. (OneCopy /\ DeletedStaysDeleted)'
  BY <1>2 DEF IInv, OneCopy, DeletedStaysDeleted, Delivery!storeVars
<1>7. Delivery!OnlyIssued'
  BY <1>2, <1>4 DEF IInv, Delivery!TypeOK, Delivery!StoreTypeOK, Delivery!OnlyIssued,
       Delivery!storeVars
<1>8. Delivery!VersionOrder'
  BY <1>2, <1>4 DEF IInv, Delivery!TypeOK, Delivery!StoreTypeOK, Delivery!VersionOrder,
       Delivery!storeVars
<1> QED
  BY <1>3, <1>5, <1>6, <1>7, <1>8 DEF IInv

(***************************************************************************)
(* A delete is numbered after everything issued for the strategy.          *)
(***************************************************************************)
LEMMA DeletePreserves ==
    ASSUME IInv, NEW d \in Strategies, Delivery!Delete(d)
    PROVE  IInv'
<1> USE PipelineAssumption
<1>1. /\ version' \in [Strategies -> Nat]
      /\ deletedAt' \in [Strategies -> Nat]
      /\ \A s \in Strategies : version'[s] >= version[s]
      /\ \A s \in Strategies : deletedAt'[s] = deletedAt[s]
                               \/ (deletedAt[s] = 0 /\ deletedAt'[s] = version[s] + 1
                                   /\ version'[s] = version[s] + 1)
  BY DEF IInv, Delivery!TypeOK, Delivery!Delete
<1>2. Delivery!storeVars' = Delivery!storeVars
  BY DEF Delivery!Delete, Delivery!storeVars
<1>3. Delivery!TypeOK'
  BY <1>1, <1>2 DEF IInv, Delivery!TypeOK, Delivery!StoreTypeOK, Delivery!storeVars
<1>4. \A s \in Strategies, v \in Nat :
         /\ Delivery!LiveVersion(s, v) => Delivery!LiveVersion(s, v)'
         /\ Delivery!DeleteVersion(s, v) => Delivery!DeleteVersion(s, v)'
  BY <1>1 DEF IInv, Delivery!TypeOK, Delivery!LiveVersion, Delivery!DeleteVersion
<1>5. DeletedIsIssued'
  BY <1>1 DEF IInv, Delivery!TypeOK, DeletedIsIssued
<1>6. (OneCopy /\ DeletedStaysDeleted)'
  BY <1>2 DEF IInv, OneCopy, DeletedStaysDeleted, Delivery!storeVars
<1>7. Delivery!OnlyIssued'
  BY <1>2, <1>4 DEF IInv, Delivery!TypeOK, Delivery!StoreTypeOK, Delivery!OnlyIssued,
       Delivery!storeVars
<1>8. Delivery!VersionOrder'
  BY <1>2, <1>4 DEF IInv, Delivery!TypeOK, Delivery!StoreTypeOK, Delivery!VersionOrder,
       Delivery!storeVars
<1> QED
  BY <1>3, <1>5, <1>6, <1>7, <1>8 DEF IInv

(***************************************************************************)
(* An event changes the entries of its own strategy only.                  *)
(***************************************************************************)
LEMMA DeliverPreserves ==
    ASSUME IInv, NEW d \in Strategies, NEW v \in 1..version[d], Delivery!Deliver(d, v)
    PROVE  IInv'
<1>1. v \in Nat /\ v # 0 /\ version' = version /\ deletedAt' = deletedAt
  BY DEF IInv, Delivery!TypeOK, Delivery!Deliver, Delivery!contractVars
<1>2. CASE Delivery!LiveVersion(d, v) /\ \E isActive \in BOOLEAN : Delivery!HandleUpsert(d, v, isActive)
  <2>1. CASE UNCHANGED Delivery!storeVars
    BY <1>1, <2>1 DEF IInv, Delivery!TypeOK, Delivery!StoreTypeOK, DeletedIsIssued,
         OneCopy, Delivery!OnlyIssued, Delivery!VersionOrder, DeletedStaysDeleted,
         Delivery!LiveVersion, Delivery!DeleteVersion, Delivery!storeVars
  <2>2. CASE /\ ~Delivery!Stale(d, v)
             /\ active' = [active EXCEPT ![d] = v]
             /\ paused' = [paused EXCEPT ![d] = 0]
             /\ versions' = [versions EXCEPT ![d] = v]
             /\ UNCHANGED tombstones
    BY <1>1, <1>2, <2>2 DEF IInv, Delivery!TypeOK, Delivery!StoreTypeOK,
         DeletedIsIssued, OneCopy, Delivery!OnlyIssued, Delivery!VersionOrder,
         DeletedStaysDeleted, Delivery!LiveVersion, Delivery!DeleteVersion,
         Delivery!Stale
  <2> QED
    BY <1>2, <2>1, <2>2 DEF Delivery!HandleUpsert, Delivery!ApplyUpsert
<1>3. CASE Delivery!LiveVersion(d, v) /\ Delivery!ApplyPause(d, v)
  <2>1. CASE UNCHANGED Delivery!storeVars
    BY <1>1, <2>1 DEF IInv, Delivery!TypeOK, Delivery!StoreTypeOK, DeletedIsIssued,
         OneCopy, Delivery!OnlyIssued, Delivery!VersionOrder, DeletedStaysDeleted,
         Delivery!LiveVersion, Delivery!DeleteVersion, Delivery!storeVars
  <2>2. CASE /\ ~Delivery!Stale(d, v) /\ active[d] # 0
             /\ paused' = [paused EXCEPT ![d] = active[d]]
             /\ active' = [active EXCEPT ![d] = 0]
             /\ versions' = [versions EXCEPT ![d] = v]
             /\ UNCHANGED tombstones
    BY <1>1, <1>3, <2>2 DEF IInv, Delivery!TypeOK, Delivery!StoreTypeOK,
         DeletedIsIssued, OneCopy, Delivery!OnlyIssued, Delivery!VersionOrder,
         DeletedStaysDeleted, Delivery!LiveVersion, Delivery!DeleteVersion,
         Delivery!Stale
  <2> QED
    BY <1>3, <2>1, <2>2 DEF Delivery!ApplyPause
<1>4. CASE Delivery!LiveVersion(d, v) /\ Delivery!ApplyResume(d, v)
  <2>1. CASE UNCHANGED Delivery!storeVars
    BY <1>1, <2>1 DEF IInv, Delivery!TypeOK, Delivery!StoreTypeOK, DeletedIsIssued,
         OneCopy, Delivery!OnlyIssued, Delivery!VersionOrder, DeletedStaysDeleted,
         Delivery!LiveVersion, Delivery!DeleteVersion, Delivery!storeVars
  <2>2. CASE /\ ~Delivery!Stale(d, v) /\ paused[d] # 0
             /\ active' = [active EXCEPT ![d] = v]
             /\ paused' = [paused EXCEPT ![d] = 0]
             /\ versions' = [versions EXCEPT ![d] = v]
             /\ UNCHANGED tombstones
    BY <1>1, <1>4, <2>2 DEF IInv, Delivery!TypeOK, Delivery!StoreTypeOK,
         DeletedIsIssued, OneCopy, Delivery!OnlyIssued, Delivery!VersionOrder,
         DeletedStaysDeleted, Delivery!LiveVersion, Delivery!DeleteVersion,
         Delivery!Stale
  <2> QED
    BY <1>4, <2>1, <2>2 DEF Delivery!ApplyResume
<1>5. CASE Delivery!DeleteVersion(d, v) /\ Delivery!ApplyDelete(d, v)
  BY <1>1, <1>5 DEF IInv, Delivery!TypeOK, Delivery!StoreTypeOK, DeletedIsIssued,
       OneCopy, Delivery!OnlyIssued, Delivery!VersionOrder, DeletedStaysDeleted,
       Delivery!LiveVersion, Delivery!DeleteVersion, Delivery!ApplyDelete,
       Delivery!storeVars
<1> QED
  BY <1>2, <1>3, <1>4, <1>5 DEF Delivery!Deliver

(***************************************************************************)
(* A restart empties the store; the bootstrap fills an empty store.        *)
(***************************************************************************)
LEMMA RestartPreserves ==
    ASSUME IInv, Delivery!Restart
    PROVE  IInv'
  BY DEF Delivery!Restart, Delivery!NewStore, Delivery!contractVars, Delivery!Empty,
       IInv, Delivery!TypeOK, Delivery!StoreTypeOK, DeletedIsIssued, OneCopy,
       Delivery!OnlyIssued, Delivery!VersionOrder, DeletedStaysDeleted,
       Delivery!LiveVersion, Delivery!DeleteVersion

(***************************************************************************)
(* The bootstrap loads versions that were rows of the database.            *)
(***************************************************************************)
LEMMA BootstrapPreserves ==
    ASSUME IInv, NEW loaded \in [Strategies -> 0..MaxTx], Delivery!Bootstrap(loaded)
    PROVE  IInv'
  BY PipelineAssumption DEF Delivery!Bootstrap, Delivery!BulkLoad,
       Delivery!contractVars, Delivery!Empty, IInv, Delivery!TypeOK,
       Delivery!StoreTypeOK, DeletedIsIssued, OneCopy, Delivery!OnlyIssued,
       Delivery!VersionOrder, DeletedStaysDeleted, Delivery!LiveVersion,
       Delivery!DeleteVersion

(***************************************************************************)
(* Every step of the delivery.                                             *)
(***************************************************************************)
LEMMA NextPreserves == IInv /\ [Delivery!Next]_Delivery!vars => IInv'
<1> SUFFICES ASSUME IInv, [Delivery!Next]_Delivery!vars PROVE IInv'
  OBVIOUS
<1>1. CASE UNCHANGED Delivery!vars
  BY <1>1 DEF Delivery!vars, IInv, Delivery!TypeOK, Delivery!StoreTypeOK,
       DeletedIsIssued, OneCopy, Delivery!OnlyIssued, Delivery!VersionOrder,
       DeletedStaysDeleted, Delivery!LiveVersion, Delivery!DeleteVersion
<1>2. CASE \E S \in SUBSET Strategies : Delivery!Write(S)
  BY <1>2, WritePreserves
<1>3. CASE \E s \in Strategies : Delivery!Delete(s)
  BY <1>3, DeletePreserves
<1>4. CASE \E s \in Strategies : \E v \in 1..version[s] : Delivery!Deliver(s, v)
  BY <1>4, DeliverPreserves
<1>5. CASE Delivery!Restart
  BY <1>5, RestartPreserves
<1>6. CASE \E loaded \in [Strategies -> 0..MaxTx] : Delivery!Bootstrap(loaded)
  BY <1>6, BootstrapPreserves
<1> QED
  BY <1>1, <1>2, <1>3, <1>4, <1>5, <1>6 DEF Delivery!Next

-----------------------------------------------------------------------------
(***************************************************************************)
(* The inductive invariant holds in every reachable state.                 *)
(***************************************************************************)
THEOREM Invariance == Delivery!Spec => []IInv
  BY InitEstablishes, NextPreserves, PTL DEF Delivery!Spec

(***************************************************************************)
(* Whatever Kafka and the outbox do to the events, a strategy whose delete *)
(* was applied is in no map of the store until the process restarts.       *)
(***************************************************************************)
THEOREM DeletedNeverResurrected == Delivery!Spec => []DeletedStaysDeleted
<1>1. IInv => DeletedStaysDeleted
  BY DEF IInv
<1> QED
  BY <1>1, Invariance, PTL

(***************************************************************************)
(* The engine only ever trades on a version that user-config issued before *)
(* the strategy was deleted, and holds one copy of it.                     *)
(***************************************************************************)
THEOREM StoreHoldsIssued == Delivery!Spec => [](Delivery!OnlyIssued /\ OneCopy)
<1>1. IInv => Delivery!OnlyIssued /\ OneCopy
  BY DEF IInv
<1> QED
  BY <1>1, Invariance, PTL

(***************************************************************************)
(* The versions map only grows between two restarts.                       *)
(***************************************************************************)
THEOREM VersionsNeverRegress == Delivery!Spec => VersionsMonotone
<1> DEFINE Grows == NewStore \/ \A s \in Strategies : versions'[s] >= versions[s]
<1>1. IInv /\ [Delivery!Next]_Delivery!vars => [Grows]_storeVars
  <2> SUFFICES ASSUME IInv, Delivery!Next PROVE Grows
    BY DEF storeVars, Delivery!vars
  <2>0. \A s \in Strategies : versions[s] \in Nat
    BY DEF IInv, Delivery!TypeOK, Delivery!StoreTypeOK
  <2>1. CASE UNCHANGED versions
    BY <2>0, <2>1
  <2>2. ASSUME NEW d \in Strategies, NEW v \in 1..version[d], Delivery!Deliver(d, v)
        PROVE  Grows
    <3>1. v \in Nat
      BY DEF IInv, Delivery!TypeOK
    <3>2. CASE /\ ~Delivery!Stale(d, v)
               /\ versions' = [versions EXCEPT ![d] = v]
      BY <2>0, <3>1, <3>2 DEF Delivery!Stale, IInv, Delivery!TypeOK,
           Delivery!StoreTypeOK
    <3>3. CASE Delivery!DeleteVersion(d, v) /\ Delivery!ApplyDelete(d, v)
      BY <2>0, <2>1, <3>1, <3>3 DEF IInv, Delivery!TypeOK, Delivery!StoreTypeOK,
           Delivery!VersionOrder, Delivery!ApplyDelete, Delivery!DeleteVersion,
           Delivery!LiveVersion, Delivery!storeVars
    <3> QED
      BY <2>1, <2>2, <3>2, <3>3 DEF Delivery!Deliver, Delivery!HandleUpsert,
           Delivery!ApplyUpsert, Delivery!ApplyPause, Delivery!ApplyResume,
           Delivery!storeVars
  <2>3. CASE Delivery!Restart
    BY <2>3 DEF Delivery!Restart, Delivery!NewStore, NewStore, Delivery!Empty, Empty
  <2> QED
    BY <2>1, <2>2, <2>3 DEF Delivery!Next, Delivery!Write, Delivery!Delete,
         Delivery!Bootstrap, Delivery!BulkLoad, Delivery!storeVars
<1> QED
  BY <1>1, Invariance, PTL DEF Delivery!Spec, VersionsMonotone

-----------------------------------------------------------------------------
(***************************************************************************)
(* The pipeline.  An outbox row or a message carries a version its change  *)
(* really got; what was sent is published; while it bootstraps the engine  *)
(* holds nothing.                                                          *)
(***************************************************************************)
RowSound(r) ==
    IF r.kind = "DELETED" THEN Delivery!DeleteVersion(r.s, r.v) ELSE Delivery!LiveVersion(r.s, r.v)
MessageSound(m) ==
    IF m.type = "CONFIG_DELETED" THEN Delivery!DeleteVersion(m.s, m.v)
                                 ELSE Delivery!LiveVersion(m.s, m.v)

VersionsBounded == \A s \in Strategies : version[s] <= tx
RowsSound == \A r \in Range(pending) \cup Range(batch) : RowSound(r)
MessagesSound == \A p \in Partitions : \A i \in 1..Len(topic[p]) : MessageSound(topic[p][i])
FetchedSound == \A s \in Strategies : fetched[s] # 0 => Delivery!LiveVersion(s, fetched[s])
RecentExist == \A s \in Range(recent) : Exists(s)
LoadingIsEmpty == engine = "loading" => StoreInit
SentPublished == \A i \in 1..sent : <<batch[i].s, batch[i].v>> \in published
PendingOrPublished ==
    \A s \in Strategies : \A v \in 1..version[s] :
        <<s, v>> \in published \/ \E r \in Range(pending) : r.s = s /\ r.v = v

DatabaseInv == VersionsBounded /\ DeletedIsIssued /\ RecentExist
OutboxInv == RowsSound /\ SentPublished /\ PendingOrPublished
EngineInv == MessagesSound /\ FetchedSound /\ LoadingIsEmpty
PipelineInv == TypeOK /\ DatabaseInv /\ OutboxInv /\ EngineInv

(***************************************************************************)
(* A fresh system.                                                         *)
(***************************************************************************)
LEMMA PipelineInit == Init => PipelineInv
<1> SUFFICES ASSUME Init PROVE PipelineInv
  OBVIOUS
<1>1. TypeOK
  <2>1. /\ StoreTypeOK
        /\ version \in [Strategies -> Nat] /\ deletedAt \in [Strategies -> Nat]
        /\ fetched \in [Strategies -> Nat] /\ offset \in Nat
    BY DEF Init, StoreInit, StoreTypeOK, Empty
  <2>2. /\ recent \in Seq(Strategies) /\ pending \in Seq(Rows) /\ batch \in Seq(Rows)
        /\ sent \in 0..Len(batch)
    BY DEF Init
  <2>3. /\ topic \in [Partitions -> Seq(Messages)] /\ pos \in [Partitions -> Nat]
        /\ \A p \in Partitions : pos[p] <= Len(topic[p])
    BY DEF Init
  <2>4. /\ failed \in BOOLEAN /\ engine \in {"loading", "live"}
        /\ published \subseteq Strategies \X Nat
    BY DEF Init
  <2>5. tx \in 0..MaxTx /\ faults \in 0..MaxFaults /\ restarts \in 0..MaxRestarts
    BY PipelineAssumption DEF Init
  <2> QED BY <2>1, <2>2, <2>3, <2>4, <2>5 DEF TypeOK
<1>2. Range(recent) = {} /\ Range(pending) = {} /\ Range(batch) = {}
  BY DEF Init, Range
<1>3. DatabaseInv
  BY <1>2 DEF Init, Empty, DatabaseInv, VersionsBounded, DeletedIsIssued, RecentExist
<1>4. OutboxInv
  BY <1>2 DEF Init, Empty, OutboxInv, RowsSound, SentPublished, PendingOrPublished
<1>5. EngineInv
  BY DEF Init, Empty, EngineInv, MessagesSound, FetchedSound, LoadingIsEmpty
<1> QED
  BY <1>1, <1>3, <1>4, <1>5 DEF PipelineInv

(***************************************************************************)
(* What a transaction may do to the versions: a change gets the next one,  *)
(* and the first delete is numbered after everything before it.            *)
(***************************************************************************)
Numbered ==
    /\ version' \in [Strategies -> Nat] /\ deletedAt' \in [Strategies -> Nat]
    /\ \A s \in Strategies :
          /\ version'[s] \in {version[s], version[s] + 1}
          /\ \/ deletedAt'[s] = deletedAt[s]
             \/ /\ deletedAt[s] = 0
                /\ deletedAt'[s] = version[s] + 1 /\ version'[s] = version[s] + 1

(***************************************************************************)
(* A transaction makes no live version dead and no delete undone.          *)
(***************************************************************************)
LEMMA NumberedKeeps ==
    ASSUME TypeOK, Numbered
    PROVE  \A s \in Strategies : \A v \in Nat :
              /\ Delivery!LiveVersion(s, v) => Delivery!LiveVersion(s, v)'
              /\ Delivery!DeleteVersion(s, v) => Delivery!DeleteVersion(s, v)'
  BY DEF TypeOK, Numbered, Delivery!LiveVersion, Delivery!DeleteVersion

\* The kinds of row, and the types of message, that put a strategy in the active map.
Upserts == {"CREATED", "UPDATED", "ACTIVATED"}
UpsertTypes == {"CONFIG_CREATED", "CONFIG_UPDATED"}

(***************************************************************************)
(* What every transaction does: it numbers its changes and inserts a sound *)
(* row for each; the active list holds existing strategies only; one that  *)
(* was changed and is active has a row that makes the engine serve it, and *)
(* a deactivated one is not in the list.                                   *)
(***************************************************************************)
Recorded(rows) ==
    /\ Numbered
    /\ Insert(rows)
    /\ \A r \in Range(rows) :
          RowSound(r)' /\ (r.kind = "DEACTIVATED" => r.s \notin Range(recent'))
    /\ \A s \in Strategies :
          version'[s] # version[s] =>
              \E r \in Range(rows) : /\ r.s = s /\ r.v = version'[s]
                                     /\ s \in Range(recent') => r.kind \in Upserts
    /\ recent' \in Seq(Strategies)
    /\ \A s \in Range(recent') :
          Exists(s)' /\ (version'[s] = version[s] => s \in Range(recent))

(***************************************************************************)
(* One argument for all transactions.                                      *)
(***************************************************************************)
LEMMA TransactionPreserves ==
    ASSUME PipelineInv, NEW op, Transaction(op), NEW rows \in Seq(Rows), Recorded(rows)
    PROVE  PipelineInv'
<1> /\ Numbered /\ Insert(rows) /\ recent' \in Seq(Strategies)
    /\ \A r \in Range(rows) : RowSound(r)'
    /\ \A s \in Strategies :
          version'[s] # version[s] => \E r \in Range(rows) : r.s = s /\ r.v = version'[s]
    /\ \A s \in Range(recent') : Exists(s)'
  BY DEF Recorded
<1>1. TypeOK
  BY DEF PipelineInv
<1>2. /\ pending' \in Seq(Rows)
      /\ Range(pending') = Range(pending) \cup Range(rows)
  BY <1>1, PipelineAssumption, InsertAdds DEF TypeOK
<1>3. /\ tx < MaxTx /\ tx' = tx + 1
      /\ UNCHANGED <<storeVars, workerVars, kafkaVars, engineVars, faults, restarts>>
  BY DEF Transaction
<1>4. TypeOK'
  <2>1. StoreTypeOK'
    BY <1>1, <1>3 DEF TypeOK, StoreTypeOK, storeVars
  <2>2. tx' \in 0..MaxTx
    BY <1>1, <1>3, PipelineAssumption DEF TypeOK
  <2> QED BY <1>1, <1>2, <1>3, <2>1, <2>2
     DEF TypeOK, Numbered, workerVars, kafkaVars, engineVars
<1>5. \A s \in Strategies : \A v \in Nat :
         /\ Delivery!LiveVersion(s, v) => Delivery!LiveVersion(s, v)'
         /\ Delivery!DeleteVersion(s, v) => Delivery!DeleteVersion(s, v)'
  BY <1>1, NumberedKeeps
<1>6. DatabaseInv'
  <2>0. /\ version \in [Strategies -> Nat] /\ deletedAt \in [Strategies -> Nat] /\ tx \in Nat
        /\ \A s \in Strategies : version[s] <= tx /\ deletedAt[s] <= version[s]
    BY <1>1, PipelineAssumption DEF TypeOK, PipelineInv, DatabaseInv, VersionsBounded,
         DeletedIsIssued
  <2>1. ASSUME NEW s \in Strategies
        PROVE  version'[s] <= tx' /\ deletedAt'[s] <= version'[s]
    <3>1. /\ version[s] \in Nat /\ deletedAt[s] \in Nat
          /\ version[s] <= tx /\ deletedAt[s] <= version[s]
      BY <2>0
    <3>2. /\ version'[s] = version[s] \/ version'[s] = version[s] + 1
          /\ \/ deletedAt'[s] = deletedAt[s]
             \/ (deletedAt'[s] = version[s] + 1 /\ version'[s] = version[s] + 1)
      BY DEF Numbered
    <3> QED BY <1>3, <2>0, <3>1, <3>2
  <2>2. VersionsBounded' /\ DeletedIsIssued'
    BY <2>1 DEF VersionsBounded, DeletedIsIssued
  <2> QED BY <2>2 DEF DatabaseInv, RecentExist
<1>7. OutboxInv'
  <2>1. batch' = batch /\ sent' = sent /\ published' = published
    BY <1>3 DEF workerVars
  <2>2. \A r \in Range(pending) \cup Range(batch) : RowSound(r) /\ r \in Rows
    BY <1>1, RangeOfSeq DEF PipelineInv, OutboxInv, RowsSound, TypeOK
  <2>3. \A r \in Range(pending) \cup Range(batch) : RowSound(r)'
    <3> TAKE r \in Range(pending) \cup Range(batch)
    <3>1. r.s \in Strategies /\ r.v \in Nat
      BY <2>2 DEF Rows
    <3> QED BY <1>5, <2>2, <3>1 DEF RowSound
  <2>4. RowsSound'
    BY <1>2, <2>1, <2>3 DEF RowsSound
  <2>5. SentPublished'
    BY <2>1 DEF PipelineInv, OutboxInv, SentPublished
  <2>6. PendingOrPublished'
    <3> SUFFICES ASSUME NEW s \in Strategies, NEW v \in 1..version'[s],
                        <<s, v>> \notin published
                 PROVE  \E r \in Range(pending') : r.s = s /\ r.v = v
      BY <2>1 DEF PendingOrPublished
    <3>1. version[s] \in Nat /\ version'[s] \in {version[s], version[s] + 1}
      BY <1>1 DEF TypeOK, Numbered
    <3>2. CASE v \in 1..version[s]
      BY <1>2, <3>2 DEF PipelineInv, OutboxInv, PendingOrPublished
    <3>3. CASE v \notin 1..version[s]
      <4>1. v = version'[s] /\ version'[s] # version[s]
        BY <3>1, <3>3
      <4> QED BY <1>2, <4>1
    <3> QED BY <3>2, <3>3
  <2> QED BY <2>4, <2>5, <2>6 DEF OutboxInv
<1>8. EngineInv'
  <2>1. topic' = topic /\ engine' = engine /\ fetched' = fetched /\ UNCHANGED storeVars
    BY <1>3 DEF kafkaVars, engineVars
  <2>2. MessagesSound'
    <3> SUFFICES ASSUME NEW p \in Partitions, NEW i \in 1..Len(topic[p])
                 PROVE  MessageSound(topic[p][i])'
      BY <2>1 DEF MessagesSound
    <3>1. topic[p][i] \in Messages /\ MessageSound(topic[p][i])
      BY <1>1 DEF TypeOK, PipelineInv, EngineInv, MessagesSound
    <3>2. topic[p][i].s \in Strategies /\ topic[p][i].v \in Nat
      BY <3>1 DEF Messages
    <3> QED BY <1>5, <2>1, <3>1, <3>2 DEF MessageSound
  <2>3. FetchedSound'
    BY <1>1, <1>5, <2>1 DEF PipelineInv, EngineInv, FetchedSound, TypeOK
  <2>4. LoadingIsEmpty'
    BY <2>1 DEF PipelineInv, EngineInv, LoadingIsEmpty, StoreInit, Empty, storeVars
  <2> QED BY <2>2, <2>3, <2>4 DEF EngineInv
<1> QED
  BY <1>4, <1>6, <1>7, <1>8 DEF PipelineInv

(***************************************************************************)
(* The transactions of user-config.                                        *)
(***************************************************************************)
LEMMA OneRow ==
    ASSUME NEW kind \in Kinds, NEW s \in Strategies, NEW v \in Nat
    PROVE  /\ <<Row(kind, s, v)>> \in Seq(Rows)
           /\ Range(<<Row(kind, s, v)>>) = {Row(kind, s, v)}
           /\ Row(kind, s, v).kind = kind /\ Row(kind, s, v).s = s /\ Row(kind, s, v).v = v
<1>1. Row(kind, s, v) \in Rows
  BY DEF Row, Rows
<1> QED BY <1>1 DEF Range, Row

(***************************************************************************)
(* Create, Update, Activate and Deactivate: the next version of one        *)
(* existing or new strategy, and one row for it.                           *)
(***************************************************************************)
LEMMA ChangeRecorded ==
    ASSUME PipelineInv, NEW s \in Strategies,
           NEW kind \in Kinds \ {"DELETED"}, deletedAt[s] = 0,
           version' = [version EXCEPT ![s] = version[s] + 1], deletedAt' = deletedAt,
           Insert(<<Row(kind, s, version[s] + 1)>>),
           recent' \in Seq(Strategies), Range(recent') \subseteq Range(recent) \cup {s},
           kind = "DEACTIVATED" => s \notin Range(recent')
    PROVE  \E rows \in Seq(Rows) : Recorded(rows)
<1>1. /\ version \in [Strategies -> Nat] /\ deletedAt \in [Strategies -> Nat]
      /\ \A x \in Range(recent) : x \in Strategies /\ Exists(x)
  BY RangeOfSeq DEF PipelineInv, TypeOK, DatabaseInv, RecentExist
<1>2. Numbered
  BY <1>1 DEF Numbered
<1>r. PICK r : r = Row(kind, s, version[s] + 1)
  OBVIOUS
<1>3. /\ <<r>> \in Seq(Rows) /\ Range(<<r>>) = {r}
      /\ r.kind = kind /\ r.s = s /\ r.v = version[s] + 1
  <2>1. version[s] + 1 \in Nat
    BY <1>1
  <2> QED BY <1>r, <2>1, OneRow
<1>4. Insert(<<r>>)
  BY <1>r
<1>5. RowSound(r)' /\ (r.kind = "DEACTIVATED" => r.s \notin Range(recent'))
  BY <1>1, <1>3 DEF RowSound, Delivery!LiveVersion
<1>6. \A x \in Strategies : version'[x] # version[x] => x = s /\ version'[x] = version[s] + 1
  BY <1>1
<1>7. s \in Range(recent') => r.kind \in Upserts
  BY <1>3 DEF Kinds, Upserts
<1>8. \A x \in Range(recent') :
         Exists(x)' /\ (version'[x] = version[x] => x \in Range(recent))
  BY <1>1 DEF Exists
<1>9. Recorded(<<r>>)
  <2> DEFINE rows == <<r>>
  <2>1. Insert(rows) /\ Range(rows) = {r}
    BY <1>3, <1>4
  <2> HIDE DEF rows
  <2>2. Recorded(rows)
    BY <1>2, <1>3, <1>5, <1>6, <1>7, <1>8, <2>1 DEF Recorded
  <2> QED BY <2>2 DEF rows
<1> QED
  BY <1>3, <1>9

(***************************************************************************)
(* Create gives a strategy without a row its first version.                *)
(***************************************************************************)
LEMMA CreateRecorded ==
    ASSUME PipelineInv, NEW s \in Strategies, NEW on \in BOOLEAN, Create(s, on)
    PROVE  \E rows \in Seq(Rows) : Recorded(rows)
<1>1. /\ version[s] = 0 /\ version \in [Strategies -> Nat] /\ deletedAt[s] \in Nat
      /\ deletedAt[s] <= version[s] /\ recent \in Seq(Strategies)
  BY DEF Create, PipelineInv, TypeOK, DatabaseInv, DeletedIsIssued
<1>2. deletedAt[s] = 0 /\ version[s] + 1 = 1
  BY <1>1
<1>3. /\ <<s>> \o recent \in Seq(Strategies)
      /\ Range(<<s>> \o recent) = {s} \cup Range(recent)
  BY <1>1, RangeOfCons
<1>4. recent' \in Seq(Strategies) /\ Range(recent') \subseteq Range(recent) \cup {s}
  BY <1>1, <1>3 DEF Create
<1>5. /\ version' = [version EXCEPT ![s] = version[s] + 1] /\ deletedAt' = deletedAt
      /\ Insert(<<Row("CREATED", s, version[s] + 1)>>)
  BY <1>2 DEF Create
<1> QED
  <2>1. "CREATED" \in Kinds \ {"DELETED"} /\ "CREATED" # "DEACTIVATED"
    BY DEF Kinds
  <2> QED BY <1>2, <1>4, <1>5, <2>1, ChangeRecorded

(***************************************************************************)
(* The active list after a change: the strategy first, last, or not at all.*)
(***************************************************************************)
LEMMA RecentAfter ==
    ASSUME PipelineInv, NEW s \in Strategies
    PROVE  /\ Without(recent, {s}) \in Seq(Strategies)
           /\ Range(Without(recent, {s})) = Range(recent) \ {s}
           /\ <<s>> \o Without(recent, {s}) \in Seq(Strategies)
           /\ Range(<<s>> \o Without(recent, {s})) = Range(recent) \cup {s}
<1>1. recent \in Seq(Strategies)
  BY DEF PipelineInv, TypeOK
<1>2. /\ Without(recent, {s}) \in Seq(Strategies)
      /\ Range(Without(recent, {s})) = Range(recent) \ {s}
  BY <1>1, WithoutKeeps
<1> DEFINE rest == Without(recent, {s})
<1>3. <<s>> \o rest \in Seq(Strategies) /\ Range(<<s>> \o rest) = {s} \cup Range(rest)
  <2> HIDE DEF rest
  <2>1. rest \in Seq(Strategies)
    BY <1>2 DEF rest
  <2> QED BY <2>1, RangeOfCons
<1> QED BY <1>2, <1>3

(***************************************************************************)
(* Update, Activate and Deactivate find the row and give it the next version. *)
(***************************************************************************)
LEMMA ExistingChangeRecorded ==
    ASSUME PipelineInv, NEW s \in Strategies, Update(s) \/ Activate(s) \/ Deactivate(s)
    PROVE  \E rows \in Seq(Rows) : Recorded(rows)
<1>1. version \in [Strategies -> Nat] /\ recent \in Seq(Strategies)
  BY DEF PipelineInv, TypeOK
<1>2. deletedAt[s] = 0
  BY DEF Update, Activate, Deactivate, Exists
<1>3. /\ version' = [version EXCEPT ![s] = version[s] + 1] /\ deletedAt' = deletedAt
      /\ version'[s] = version[s] + 1
  BY <1>1 DEF Update, Activate, Deactivate
<1>4. recent' \in Seq(Strategies) /\ Range(recent') \subseteq Range(recent) \cup {s}
  BY <1>1, RecentAfter DEF Update, Activate, Deactivate
<1>5. \E kind \in Kinds \ {"DELETED"} :
         /\ Insert(<<Row(kind, s, version[s] + 1)>>)
         /\ kind = "DEACTIVATED" => s \notin Range(recent')
  <2>0. {"UPDATED", "ACTIVATED", "DEACTIVATED"} \subseteq Kinds \ {"DELETED"}
    BY DEF Kinds
  <2>1. CASE Update(s)
    BY <1>3, <2>0, <2>1 DEF Update
  <2>2. CASE Activate(s)
    BY <1>3, <2>0, <2>2 DEF Activate
  <2>3. CASE Deactivate(s)
    <3>1. s \notin Range(recent')
      BY <2>3, RecentAfter DEF Deactivate
    <3> QED BY <1>3, <2>0, <2>3, <3>1 DEF Deactivate
  <2> QED BY <2>1, <2>2, <2>3
<1> QED
  BY <1>2, <1>3, <1>4, <1>5, ChangeRecorded

(***************************************************************************)
(* A delete, the first or a repeated one, takes the row out of the active list. *)
(***************************************************************************)
LEMMA DeleteRecorded ==
    ASSUME PipelineInv, NEW s \in Strategies, Delete(s)
    PROVE  \E rows \in Seq(Rows) : Recorded(rows)
<1>1. /\ version \in [Strategies -> Nat] /\ deletedAt \in [Strategies -> Nat]
      /\ \A x \in Range(recent) : x \in Strategies /\ Exists(x)
      /\ deletedAt[s] <= version[s]
  BY RangeOfSeq DEF PipelineInv, TypeOK, DatabaseInv, RecentExist, DeletedIsIssued
<1>2. /\ Transaction("delete") /\ version[s] # 0
      /\ version' = [version EXCEPT ![s] = version[s] + 1]
      /\ deletedAt' = [deletedAt EXCEPT ![s] = IF deletedAt[s] = 0 THEN version[s] + 1 ELSE deletedAt[s]]
      /\ recent' = Without(recent, {s})
      /\ Insert(<<Row("DELETED", s, version'[s])>>)
  BY DEF Delete
<1>3. Numbered
  BY <1>1, <1>2 DEF Numbered
<1>r. PICK r : r = Row("DELETED", s, version[s] + 1)
  OBVIOUS
<1>4. /\ <<r>> \in Seq(Rows) /\ Range(<<r>>) = {r}
      /\ r.kind = "DELETED" /\ r.s = s /\ r.v = version[s] + 1
  <2>1. version[s] + 1 \in Nat /\ "DELETED" \in Kinds
    BY <1>1 DEF Kinds
  <2> QED BY <1>r, <2>1, OneRow
<1>5. Insert(<<r>>)
  BY <1>r, <1>1, <1>2
<1>6. RowSound(r)'
  BY <1>1, <1>2, <1>4 DEF RowSound, Delivery!DeleteVersion
<1>7. \A x \in Strategies : version'[x] # version[x] => x = s /\ version'[x] = version[s] + 1
  BY <1>1, <1>2
<1>8. recent' \in Seq(Strategies) /\ Range(recent') = Range(recent) \ {s}
  BY <1>2, RecentAfter
<1>9. \A x \in Range(recent') : Exists(x)' /\ x \in Range(recent) /\ x # s
  BY <1>1, <1>2, <1>8 DEF Exists
<1>10. Recorded(<<r>>)
  <2> DEFINE rows == <<r>>
  <2>1. Insert(rows) /\ Range(rows) = {r}
    BY <1>4, <1>5
  <2> HIDE DEF rows
  <2>2. Recorded(rows)
    BY <1>3, <1>4, <1>6, <1>7, <1>8, <1>9, <2>1 DEF Recorded
  <2> QED BY <2>2 DEF rows
<1> QED
  BY <1>4, <1>10

(***************************************************************************)
(* The end-of-day job numbers several strategies and lists a row for each. *)
(***************************************************************************)
LEMMA DeactivateActiveRecorded ==
    ASSUME PipelineInv, NEW S \in SUBSET Strategies, DeactivateActive(S)
    PROVE  \E rows \in Seq(Rows) : Recorded(rows)
<1>1. /\ version \in [Strategies -> Nat] /\ deletedAt \in [Strategies -> Nat]
      /\ recent \in Seq(Strategies)
      /\ \A x \in Range(recent) : x \in Strategies /\ Exists(x)
  BY RangeOfSeq DEF PipelineInv, TypeOK, DatabaseInv, RecentExist
<1> DEFINE R == {Row("DEACTIVATED", s, version'[s]) : s \in S}
<1>2. /\ Transaction("end of day") /\ S \subseteq Range(recent)
      /\ version' = [s \in Strategies |-> IF s \in S THEN version[s] + 1 ELSE version[s]]
      /\ deletedAt' = deletedAt /\ recent' = Without(recent, S)
      /\ Insert(SetToSeq(R))
  BY DEF DeactivateActive
<1> HIDE DEF R
<1>3. Numbered
  <2>1. \A s \in Strategies : version[s] \in Nat /\ version[s] + 1 \in Nat
    BY <1>1
  <2>2. version' = [s \in Strategies |-> IF s \in S THEN version[s] + 1 ELSE version[s]]
    BY <1>2
  <2>3. version' \in [Strategies -> Nat]
    BY <2>1, <2>2
  <2>4. \A s \in Strategies : version'[s] \in {version[s], version[s] + 1}
    BY <2>2
  <2> QED BY <1>1, <1>2, <2>3, <2>4 DEF Numbered
<1>4. IsFiniteSet(R)
  <2>1. IsFiniteSet(S)
    BY <1>1, <1>2, RangeIsFinite, FS_Subset
  <2> DEFINE f == [s \in S |-> Row("DEACTIVATED", s, version'[s])]
  <2>2. f \in Surjection(S, R)
    BY DEF Surjection, R
  <2> HIDE DEF f
  <2> QED BY <2>1, <2>2, FS_Surjection
<1>5. \A r \in R : r \in Rows /\ RowSound(r)' /\ r.s \in S
  <2> SUFFICES ASSUME NEW s \in S, NEW r, r = Row("DEACTIVATED", s, version'[s])
               PROVE  r \in Rows /\ RowSound(r)' /\ r.s \in S
    BY DEF R
  <2>1. version'[s] = version[s] + 1 /\ version[s] \in Nat /\ deletedAt'[s] = 0
    BY <1>1, <1>2 DEF Exists
  <2>2. r.kind = "DEACTIVATED" /\ r.s = s /\ r.v = version[s] + 1 /\ r \in Rows
    BY <2>1 DEF Row, Rows, Kinds
  <2> QED BY <2>1, <2>2 DEF RowSound, Delivery!LiveVersion
<1>6. recent' \in Seq(Strategies) /\ Range(recent') = Range(recent) \ S
  BY <1>1, <1>2, WithoutKeeps
<1>7. \A x \in Range(recent') : Exists(x)' /\ x \in Range(recent)
  BY <1>1, <1>2, <1>6 DEF Exists
<1>8. ASSUME NEW x \in Strategies, version'[x] # version[x]
      PROVE  x \notin Range(recent') /\ \E q \in R : q.s = x /\ q.v = version'[x]
  <2>1. x \in S
    BY <1>2, <1>8
  <2>2. Row("DEACTIVATED", x, version'[x]) \in R
    BY <2>1 DEF R
  <2> QED BY <1>6, <2>1, <2>2 DEF Row
<1> DEFINE rows == SetToSeq(R)
<1>9. rows \in Seq(Rows) /\ Range(rows) = R
  BY <1>4, <1>5, RangeOfSetToSeq, SeqMonotonic
<1>10. Insert(rows)
  BY <1>2
<1> HIDE DEF rows
<1>11. Recorded(rows)
  BY <1>3, <1>5, <1>6, <1>7, <1>8, <1>9, <1>10 DEF Recorded
<1> QED
  BY <1>9, <1>11

(***************************************************************************)
(* So every step of user-config is a recorded transaction.                 *)
(***************************************************************************)
LEMMA UserConfigRecorded ==
    ASSUME PipelineInv, UserConfig
    PROVE  \E op \in Operations : Transaction(op) /\ \E rows \in Seq(Rows) : Recorded(rows)
<1>1. \E op \in Operations : Transaction(op)
  BY DEF UserConfig, Create, Update, Activate, Deactivate, Delete, DeactivateActive,
       Transaction
<1>2. \E rows \in Seq(Rows) : Recorded(rows)
  BY CreateRecorded, ExistingChangeRecorded, DeleteRecorded, DeactivateActiveRecorded
     DEF UserConfig
<1> QED BY <1>1, <1>2

-----------------------------------------------------------------------------
(***************************************************************************)
(* The outbox worker.                                                      *)
(***************************************************************************)

\* What the worker never touches.
WorkerFrame ==
    UNCHANGED <<storeVars, version, deletedAt, recent, engineVars, tx, restarts>>

(***************************************************************************)
(* A step of the worker concerns the outbox, its batch and the topic.      *)
(***************************************************************************)
LEMMA WorkerKeeps ==
    ASSUME PipelineInv, WorkerFrame
    PROVE  /\ DatabaseInv' /\ FetchedSound' /\ LoadingIsEmpty'
           /\ \A s, v : Delivery!LiveVersion(s, v)' <=> Delivery!LiveVersion(s, v)
           /\ \A s, v : Delivery!DeleteVersion(s, v)' <=> Delivery!DeleteVersion(s, v)
           /\ \A r : RowSound(r)' <=> RowSound(r)
           /\ \A m : MessageSound(m)' <=> MessageSound(m)
<1>1. /\ version' = version /\ deletedAt' = deletedAt /\ recent' = recent /\ tx' = tx
      /\ engine' = engine /\ fetched' = fetched /\ UNCHANGED storeVars
  BY DEF WorkerFrame, engineVars
<1>2. /\ \A s, v : Delivery!LiveVersion(s, v)' <=> Delivery!LiveVersion(s, v)
      /\ \A s, v : Delivery!DeleteVersion(s, v)' <=> Delivery!DeleteVersion(s, v)
  BY <1>1 DEF Delivery!LiveVersion, Delivery!DeleteVersion
<1>3. /\ \A r : RowSound(r)' <=> RowSound(r)
      /\ \A m : MessageSound(m)' <=> MessageSound(m)
  BY <1>2 DEF RowSound, MessageSound
<1>4. DatabaseInv'
  BY <1>1 DEF PipelineInv, DatabaseInv, VersionsBounded, DeletedIsIssued, RecentExist,
       Exists
<1>5. FetchedSound'
  BY <1>1, <1>2 DEF PipelineInv, EngineInv, FetchedSound
<1>6. LoadingIsEmpty'
  BY <1>1 DEF PipelineInv, EngineInv, LoadingIsEmpty, StoreInit, Empty, storeVars
<1> QED BY <1>2, <1>3, <1>4, <1>5, <1>6

(***************************************************************************)
(* ListPending: the batch is cut from the outbox.                          *)
(***************************************************************************)
LEMMA ListPendingPreserves ==
    ASSUME PipelineInv, ListPending
    PROVE  PipelineInv'
<1> DEFINE n == IF Len(pending) < BatchSize THEN Len(pending) ELSE BatchSize
<1>1. TypeOK /\ WorkerFrame
  BY DEF PipelineInv, ListPending, WorkerFrame, dbVars, bounds
<1>2. /\ batch' = SubSeq(pending, 1, n) /\ sent' = 0 /\ failed' = FALSE
      /\ UNCHANGED <<dbVars, published, kafkaVars, bounds>>
  BY DEF ListPending
<1>3. n \in Nat /\ n <= Len(pending) /\ pending \in Seq(Rows)
  BY <1>1, PipelineAssumption DEF TypeOK
<1> HIDE DEF n
<1>4. batch' \in Seq(Rows) /\ Range(batch') \subseteq Range(pending)
  BY <1>2, <1>3, RangeOfSubSeq
<1>5. TypeOK'
  <2>1. StoreTypeOK'
    BY <1>1 DEF TypeOK, StoreTypeOK, storeVars, WorkerFrame
  <2>2. sent' \in 0..Len(batch')
    BY <1>2, <1>4
  <2> QED BY <1>1, <1>2, <1>4, <2>1, <2>2
          DEF TypeOK, WorkerFrame, engineVars, dbVars, kafkaVars, bounds
<1>6. OutboxInv'
  <2>1. RowsSound'
    BY <1>1, <1>2, <1>4, WorkerKeeps DEF PipelineInv, OutboxInv, RowsSound, dbVars
  <2>2. SentPublished'
    BY <1>2 DEF SentPublished
  <2>3. PendingOrPublished'
    BY <1>2 DEF PipelineInv, OutboxInv, PendingOrPublished, dbVars
  <2> QED BY <2>1, <2>2, <2>3 DEF OutboxInv
<1>7. MessagesSound'
  BY <1>1, <1>2, WorkerKeeps DEF PipelineInv, EngineInv, MessagesSound, kafkaVars
<1> QED
  BY <1>1, <1>5, <1>6, <1>7, WorkerKeeps DEF PipelineInv, EngineInv

(***************************************************************************)
(* The event of a translatable row is a sound message: an ACTIVATED row    *)
(* carries the version the strategy has by now, which is live because the  *)
(* strategy was found.                                                     *)
(***************************************************************************)
LEMMA ToKafkaSound ==
    ASSUME PipelineInv, NEW row \in Rows, RowSound(row), ~Untranslatable(row)
    PROVE  ToKafka(row) \in Messages /\ MessageSound(ToKafka(row))
<1>1. /\ row.kind \in Kinds /\ row.s \in Strategies /\ row.v \in Nat
      /\ version[row.s] \in Nat
  BY DEF Rows, PipelineInv, TypeOK
<1>2. CASE row.kind = "ACTIVATED"
  <2>1. ToKafka(row) = Message("CONFIG_UPDATED", row.s, version[row.s])
    BY <1>2 DEF ToKafka
  <2>2. Delivery!LiveVersion(row.s, version[row.s])
    BY <1>1, <1>2 DEF Untranslatable, RowSound, Delivery!LiveVersion
  <2> QED BY <1>1, <2>1, <2>2 DEF Message, Messages, MessageSound
<1>3. CASE row.kind = "DELETED"
  <2>1. ToKafka(row) = Message("CONFIG_DELETED", row.s, row.v)
    BY <1>3 DEF ToKafka
  <2> QED BY <1>1, <1>3, <2>1 DEF Message, Messages, MessageSound, RowSound
<1>4. CASE row.kind \in {"CREATED", "UPDATED", "DEACTIVATED"}
  <2>1. \E type \in {"CONFIG_CREATED", "CONFIG_UPDATED", "CONFIG_PAUSED"} :
           ToKafka(row) = Message(type, row.s, row.v)
    BY <1>4 DEF ToKafka
  <2> QED BY <1>1, <1>4, <2>1 DEF Message, Messages, MessageSound, RowSound
<1> QED BY <1>1, <1>2, <1>3, <1>4 DEF Kinds

(***************************************************************************)
(* A message reached a partition: the topic stays sound and grows, and the *)
(* row is on record as published.                                          *)
(***************************************************************************)
LEMMA AppendSound ==
    ASSUME PipelineInv, Working, ~Untranslatable(batch[sent + 1]), Append1(batch[sent + 1]),
           WorkerFrame, pos' = pos
    PROVE  /\ topic' \in [Partitions -> Seq(Messages)]
           /\ \A p \in Partitions : pos'[p] <= Len(topic'[p])
           /\ MessagesSound'
           /\ published' = published \cup {<<batch[sent + 1].s, batch[sent + 1].v>>}
           /\ published' \subseteq Strategies \X Nat
<1> DEFINE row == batch[sent + 1]
           m == ToKafka(row)
<1>1. TypeOK /\ sent + 1 \in 1..Len(batch)
  BY DEF PipelineInv, TypeOK, Working
<1>2. row \in Rows /\ row \in Range(batch)
  BY <1>1 DEF TypeOK, Range
<1>3. RowSound(row) /\ ~Untranslatable(row)
  BY <1>2 DEF PipelineInv, OutboxInv, RowsSound
<1> HIDE DEF row
<1>4. m \in Messages /\ MessageSound(m)
  BY <1>2, <1>3, ToKafkaSound
<1>5. PICK q \in Partitions : topic' = [topic EXCEPT ![q] = Append(topic[q], m)]
  BY DEF Append1, row
<1>6. published' = published \cup {<<row.s, row.v>>}
  BY DEF Append1, row
<1> HIDE DEF m
<1>7. published' \subseteq Strategies \X Nat
  <2>1. row.s \in Strategies /\ row.v \in Nat
    BY <1>2 DEF Rows
  <2>2. published \subseteq Strategies \X Nat
    BY <1>1 DEF TypeOK
  <2> QED BY <1>6, <2>1, <2>2
<1>8. topic \in [Partitions -> Seq(Messages)] /\ pos \in [Partitions -> Nat]
  BY <1>1 DEF TypeOK
<1>9. /\ \A p \in Partitions : topic'[p] = IF p = q THEN Append(topic[p], m) ELSE topic[p]
      /\ topic' \in [Partitions -> Seq(Messages)]
  BY <1>4, <1>5, <1>8
<1>10. \A p \in Partitions : pos'[p] <= Len(topic'[p])
  <2> TAKE p \in Partitions
  <2>1. pos[p] \in Nat /\ pos[p] <= Len(topic[p]) /\ topic[p] \in Seq(Messages)
    BY <1>1, <1>8 DEF TypeOK
  <2> QED BY <1>4, <1>9, <2>1
<1>11. \A p \in Partitions : \A i \in 1..Len(topic'[p]) : MessageSound(topic'[p][i])
  <2> SUFFICES ASSUME NEW p \in Partitions, NEW i \in 1..Len(topic'[p])
               PROVE  MessageSound(topic'[p][i])
    OBVIOUS
  <2>1. \A j \in 1..Len(topic[p]) : MessageSound(topic[p][j])
    BY DEF PipelineInv, EngineInv, MessagesSound
  <2>2. topic[p] \in Seq(Messages)
    BY <1>8
  <2>3. topic'[p][i] = m \/ \E j \in 1..Len(topic[p]) : topic'[p][i] = topic[p][j]
    <3>1. CASE p = q
      <4>1. topic'[p] = Append(topic[p], m)
        BY <1>9, <3>1
      <4>2. /\ Len(Append(topic[p], m)) = Len(topic[p]) + 1 /\ Len(topic[p]) \in Nat
            /\ \A j \in 1..Len(topic[p]) : Append(topic[p], m)[j] = topic[p][j]
            /\ Append(topic[p], m)[Len(topic[p]) + 1] = m
        BY <1>4, <2>2, AppendProperties
      <4>3. i \in 1..Len(topic[p]) \/ i = Len(topic[p]) + 1
        BY <4>1, <4>2
      <4> QED BY <4>1, <4>2, <4>3
    <3>2. CASE p # q
      BY <1>9, <3>2
    <3> QED BY <3>1, <3>2
  <2> QED BY <1>4, <2>1, <2>3
<1>12. MessagesSound'
  BY <1>11, WorkerKeeps DEF MessagesSound
<1> QED BY <1>6, <1>7, <1>9, <1>10, <1>12 DEF row

(***************************************************************************)
(* A message was written: its row counts as sent.                          *)
(***************************************************************************)
LEMMA PublishPreserves ==
    ASSUME PipelineInv, Publish
    PROVE  PipelineInv'
<1>1. TypeOK /\ WorkerFrame
  BY DEF PipelineInv, Publish, WorkerFrame, dbVars, bounds
<1>2. /\ Working /\ ~Untranslatable(batch[sent + 1]) /\ Append1(batch[sent + 1])
      /\ sent' = sent + 1 /\ batch' = batch /\ failed' = failed /\ pending' = pending /\ pos' = pos
      /\ UNCHANGED bounds
  BY DEF Publish, dbVars
<1>3. /\ topic' \in [Partitions -> Seq(Messages)]
      /\ \A p \in Partitions : pos'[p] <= Len(topic'[p])
      /\ MessagesSound'
      /\ published' = published \cup {<<batch[sent + 1].s, batch[sent + 1].v>>}
      /\ published' \subseteq Strategies \X Nat
  BY <1>1, <1>2, AppendSound
<1>4. sent \in Nat /\ sent' \in 0..Len(batch')
  BY <1>1, <1>2 DEF TypeOK, Working
<1>5. TypeOK'
  <2>1. StoreTypeOK'
    BY <1>1 DEF TypeOK, StoreTypeOK, storeVars, WorkerFrame
  <2> QED BY <1>1, <1>2, <1>3, <1>4, <2>1 DEF TypeOK, WorkerFrame, engineVars, bounds
<1>6. OutboxInv'
  <2>1. RowsSound'
    BY <1>1, <1>2, WorkerKeeps DEF PipelineInv, OutboxInv, RowsSound
  <2>2. SentPublished'
    <3>1. \A i \in 1..sent + 1 : i \in 1..sent \/ i = sent + 1
      BY <1>4
    <3> QED BY <1>2, <1>3, <3>1 DEF PipelineInv, OutboxInv, SentPublished
  <2>3. PendingOrPublished'
    BY <1>1, <1>2, <1>3 DEF PipelineInv, OutboxInv, PendingOrPublished, WorkerFrame
  <2> QED BY <2>1, <2>2, <2>3 DEF OutboxInv
<1> QED
  BY <1>1, <1>3, <1>5, <1>6, WorkerKeeps DEF PipelineInv, EngineInv

(***************************************************************************)
(* A call that times out may or may not have reached the broker; a row     *)
(* that cannot be translated ends the batch: nothing is counted as sent.   *)
(***************************************************************************)
LEMMA FailurePreserves ==
    ASSUME PipelineInv, PublishFails \/ TranslateFails
    PROVE  PipelineInv'
<1>1. TypeOK /\ WorkerFrame
  BY DEF PipelineInv, PublishFails, TranslateFails, WorkerFrame, dbVars, bounds
<1>2. /\ sent' = sent /\ batch' = batch /\ pending' = pending /\ pos' = pos /\ failed' = TRUE
  BY DEF PublishFails, TranslateFails, dbVars, kafkaVars
<1>3. faults' \in 0..MaxFaults
  BY <1>1, PipelineAssumption DEF TypeOK, PublishFails, TranslateFails, bounds
<1>4. /\ topic' \in [Partitions -> Seq(Messages)]
      /\ \A p \in Partitions : pos'[p] <= Len(topic'[p])
      /\ MessagesSound'
      /\ published \subseteq published' /\ published' \subseteq Strategies \X Nat
  <2>1. CASE topic' = topic /\ published' = published
    BY <1>1, <1>2, <2>1, WorkerKeeps DEF TypeOK, PipelineInv, EngineInv, MessagesSound
  <2>2. CASE PublishFails /\ Append1(batch[sent + 1])
    BY <1>1, <1>2, <2>2, AppendSound DEF PublishFails
  <2> QED BY <2>1, <2>2 DEF PublishFails, TranslateFails, kafkaVars
<1>5. TypeOK'
  <2>1. StoreTypeOK'
    BY <1>1 DEF TypeOK, StoreTypeOK, storeVars, WorkerFrame
  <2> QED BY <1>1, <1>2, <1>3, <1>4, <2>1 DEF TypeOK, WorkerFrame, engineVars
<1>6. OutboxInv'
  BY <1>1, <1>2, <1>4, WorkerKeeps DEF PipelineInv, OutboxInv, RowsSound, SentPublished,
       PendingOrPublished, WorkerFrame
<1> QED
  BY <1>1, <1>4, <1>5, <1>6, WorkerKeeps DEF PipelineInv, EngineInv

(***************************************************************************)
(* MarkProcessed takes out of the outbox only what was published.          *)
(***************************************************************************)
LEMMA MarkProcessedPreserves ==
    ASSUME PipelineInv, MarkProcessed
    PROVE  PipelineInv'
<1> DEFINE done == {batch[i] : i \in 1..sent}
<1>1. TypeOK /\ WorkerFrame
  BY DEF PipelineInv, MarkProcessed, WorkerFrame, bounds
<1>2. /\ pending' = Without(pending, done)
      /\ batch' = <<>> /\ sent' = 0 /\ failed' = FALSE
      /\ UNCHANGED <<published, kafkaVars, bounds>>
  BY DEF MarkProcessed
<1>3. \A r \in done : <<r.s, r.v>> \in published
  BY DEF PipelineInv, OutboxInv, SentPublished
<1> HIDE DEF done
<1>4. pending' \in Seq(Rows) /\ Range(pending') = Range(pending) \ done
  BY <1>1, <1>2, WithoutKeeps DEF TypeOK
<1>5. batch' \in Seq(Rows) /\ Range(batch') = {} /\ sent' \in 0..Len(batch')
  BY <1>2 DEF Range
<1>6. TypeOK'
  <2>1. StoreTypeOK'
    BY <1>1 DEF TypeOK, StoreTypeOK, storeVars, WorkerFrame
  <2> QED BY <1>1, <1>2, <1>4, <1>5, <2>1
          DEF TypeOK, WorkerFrame, engineVars, kafkaVars, bounds
<1>7. OutboxInv'
  <2>1. RowsSound'
    BY <1>1, <1>4, <1>5, WorkerKeeps DEF PipelineInv, OutboxInv, RowsSound
  <2>2. SentPublished'
    BY <1>2 DEF SentPublished
  <2>3. PendingOrPublished'
    <3> SUFFICES ASSUME NEW s \in Strategies, NEW v \in 1..version[s], <<s, v>> \notin published
                 PROVE  \E r \in Range(pending') : r.s = s /\ r.v = v
      BY <1>1, <1>2 DEF PendingOrPublished, WorkerFrame
    <3>1. PICK r \in Range(pending) : r.s = s /\ r.v = v
      BY DEF PipelineInv, OutboxInv, PendingOrPublished
    <3>2. r \notin done
      BY <1>3, <3>1
    <3> QED BY <1>4, <3>1, <3>2
  <2> QED BY <2>1, <2>2, <2>3 DEF OutboxInv
<1>8. MessagesSound'
  BY <1>1, <1>2, WorkerKeeps DEF PipelineInv, EngineInv, MessagesSound, kafkaVars
<1> QED
  BY <1>1, <1>6, <1>7, <1>8, WorkerKeeps DEF PipelineInv, EngineInv

(***************************************************************************)
(* An abandoned batch leaves its rows pending.                             *)
(***************************************************************************)
LEMMA AbandonPreserves ==
    ASSUME PipelineInv, Abandon
    PROVE  PipelineInv'
<1>1. TypeOK /\ WorkerFrame
  BY DEF PipelineInv, Abandon, WorkerFrame, dbVars
<1>2. /\ batch' = <<>> /\ sent' = 0 /\ failed' = FALSE /\ pending' = pending
      /\ UNCHANGED <<published, kafkaVars>> /\ faults' \in 0..MaxFaults
  BY <1>1, PipelineAssumption DEF TypeOK, Abandon, dbVars
<1>3. batch' \in Seq(Rows) /\ Range(batch') = {} /\ sent' \in 0..Len(batch')
  BY <1>2 DEF Range
<1>4. TypeOK'
  <2>1. StoreTypeOK'
    BY <1>1 DEF TypeOK, StoreTypeOK, storeVars, WorkerFrame
  <2> QED BY <1>1, <1>2, <1>3, <2>1 DEF TypeOK, WorkerFrame, engineVars, kafkaVars
<1>5. OutboxInv'
  <2>1. RowsSound'
    BY <1>1, <1>2, <1>3, WorkerKeeps DEF PipelineInv, OutboxInv, RowsSound
  <2>2. SentPublished'
    BY <1>2 DEF SentPublished
  <2>3. PendingOrPublished'
    BY <1>1, <1>2 DEF PipelineInv, OutboxInv, PendingOrPublished, WorkerFrame
  <2> QED BY <2>1, <2>2, <2>3 DEF OutboxInv
<1>6. MessagesSound'
  BY <1>1, <1>2, WorkerKeeps DEF PipelineInv, EngineInv, MessagesSound, kafkaVars
<1> QED
  BY <1>1, <1>4, <1>5, <1>6, WorkerKeeps DEF PipelineInv, EngineInv

-----------------------------------------------------------------------------
(***************************************************************************)
(* The rules engine.                                                       *)
(***************************************************************************)

\* What the engine never touches.
EngineFrame == UNCHANGED <<dbVars, workerVars, tx, faults>>

(***************************************************************************)
(* A step of the engine leaves the database and the outbox as they are.    *)
(***************************************************************************)
LEMMA EngineKeeps ==
    ASSUME PipelineInv, EngineFrame
    PROVE  /\ DatabaseInv' /\ OutboxInv'
           /\ \A s, v : Delivery!LiveVersion(s, v)' <=> Delivery!LiveVersion(s, v)
           /\ \A m : MessageSound(m)' <=> MessageSound(m)
<1>1. /\ version' = version /\ deletedAt' = deletedAt /\ recent' = recent /\ pending' = pending
      /\ batch' = batch /\ sent' = sent /\ published' = published /\ tx' = tx
  BY DEF EngineFrame, dbVars, workerVars
<1>2. /\ \A s, v : Delivery!LiveVersion(s, v)' <=> Delivery!LiveVersion(s, v)
      /\ \A s, v : Delivery!DeleteVersion(s, v)' <=> Delivery!DeleteVersion(s, v)
  BY <1>1 DEF Delivery!LiveVersion, Delivery!DeleteVersion
<1>3. /\ \A r : RowSound(r)' <=> RowSound(r)
      /\ \A m : MessageSound(m)' <=> MessageSound(m)
  BY <1>2 DEF RowSound, MessageSound
<1>4. DatabaseInv'
  BY <1>1 DEF PipelineInv, DatabaseInv, VersionsBounded, DeletedIsIssued, RecentExist,
       Exists
<1>5. OutboxInv'
  BY <1>1, <1>3 DEF PipelineInv, OutboxInv, RowsSound, SentPublished, PendingOrPublished
<1> QED BY <1>2, <1>3, <1>4, <1>5

(***************************************************************************)
(* The database part of the type invariant in a step of the engine.        *)
(***************************************************************************)
LEMMA EngineTypes ==
    ASSUME TypeOK, EngineFrame, StoreTypeOK',
           (topic \in [Partitions -> Seq(Messages)])', (pos \in [Partitions -> Nat])',
           \A p \in Partitions : pos'[p] <= Len(topic'[p]),
           (engine \in {"loading", "live"})', (fetched \in [Strategies -> Nat])',
           (offset \in Nat)', (restarts \in 0..MaxRestarts)'
    PROVE  TypeOK'
  BY DEF TypeOK, EngineFrame, dbVars, workerVars

(***************************************************************************)
(* What the pages returned is what their rows held when they were read.    *)
(***************************************************************************)
LEMMA PagesAreLive ==
    ASSUME PipelineInv
    PROVE  /\ WithPage \in [Strategies -> Nat]
           /\ \A s \in Strategies : WithPage[s] # 0 => Delivery!LiveVersion(s, WithPage[s])
<1>1. /\ recent \in Seq(Strategies) /\ offset \in Nat /\ fetched \in [Strategies -> Nat]
      /\ version \in [Strategies -> Nat]
  BY DEF PipelineInv, TypeOK
<1>2. Range(Page) \subseteq Range(recent)
  <2> DEFINE n == IF Len(recent) < offset + PageSize THEN Len(recent) ELSE offset + PageSize
  <2>1. n \in Nat /\ n <= Len(recent) /\ offset + 1 \in Nat \ {0}
    BY <1>1, PipelineAssumption
  <2> HIDE DEF n
  <2>2. Range(SubSeq(recent, offset + 1, n)) \subseteq Range(recent)
    BY <1>1, <2>1, RangeOfSubSeq
  <2> QED BY <2>2 DEF Page, n
<1>3. \A s \in Range(Page) : version[s] # 0 /\ deletedAt[s] = 0
  BY <1>2 DEF PipelineInv, DatabaseInv, RecentExist, Exists
<1>4. \A s \in Strategies : WithPage[s] = IF s \in Range(Page) THEN version[s] ELSE fetched[s]
  BY DEF WithPage
<1>5. WithPage \in [Strategies -> Nat]
  BY <1>1 DEF WithPage
<1>6. ASSUME NEW s \in Strategies, WithPage[s] # 0 PROVE Delivery!LiveVersion(s, WithPage[s])
  <2>1. CASE s \in Range(Page)
    <3>1. version[s] \in Nat /\ version[s] # 0 /\ deletedAt[s] = 0
      BY <1>1, <1>3, <2>1
    <3> QED BY <1>4, <2>1, <3>1 DEF Delivery!LiveVersion
  <2>2. CASE s \notin Range(Page)
    BY <1>4, <1>6, <2>2 DEF PipelineInv, EngineInv, FetchedSound
  <2> QED BY <2>1, <2>2
<1> QED BY <1>5, <1>6

(***************************************************************************)
(* The pages of the bootstrap: what they return is live, and the store they *)
(* load is empty until then.                                               *)
(***************************************************************************)
LEMMA FetchPreserves ==
    ASSUME PipelineInv, FetchPage \/ FetchLastPage
    PROVE  PipelineInv'
<1>1. TypeOK /\ EngineFrame /\ topic' = topic /\ pos' = pos /\ restarts' = restarts
  BY DEF PipelineInv, FetchPage, FetchLastPage, EngineFrame, bounds, kafkaVars
<1>2. (fetched \in [Strategies -> Nat])' /\ (offset \in Nat)'
  BY <1>1, PagesAreLive, PipelineAssumption DEF TypeOK, FetchPage, FetchLastPage, Empty
<1>3. FetchedSound'
  <2>1. CASE FetchPage
    BY <1>1, <2>1, PagesAreLive, EngineKeeps DEF FetchPage, FetchedSound
  <2>2. CASE FetchLastPage
    BY <2>2 DEF FetchLastPage, FetchedSound, Empty
  <2> QED BY <2>1, <2>2
<1>4. MessagesSound'
  BY <1>1, EngineKeeps DEF PipelineInv, EngineInv, MessagesSound
<1>5. StoreTypeOK' /\ (engine \in {"loading", "live"})' /\ LoadingIsEmpty'
  <2>1. CASE UNCHANGED <<storeVars, engine>>
    BY <1>1, <2>1 DEF TypeOK, StoreTypeOK, storeVars, LoadingIsEmpty, StoreInit, Empty,
         PipelineInv, EngineInv
  <2>2. CASE BulkLoad(Valid(WithPage)) /\ engine' = "live"
    <3>1. Valid(WithPage) \in [Strategies -> Nat]
      BY PagesAreLive DEF Valid
    <3> QED BY <1>1, <2>2, <3>1 DEF BulkLoad, TypeOK, StoreTypeOK, LoadingIsEmpty, Empty
  <2> QED BY <2>1, <2>2 DEF FetchPage, FetchLastPage
<1>6. TypeOK'
  <2>1. /\ (topic \in [Partitions -> Seq(Messages)])' /\ (pos \in [Partitions -> Nat])'
        /\ \A p \in Partitions : pos'[p] <= Len(topic'[p])
        /\ (restarts \in 0..MaxRestarts)'
    BY <1>1 DEF TypeOK
  <2> QED BY <1>1, <1>2, <1>5, <2>1, EngineTypes
<1> QED
  BY <1>1, <1>3, <1>4, <1>5, <1>6, EngineKeeps DEF PipelineInv, EngineInv

(***************************************************************************)
(* The message that is consumed next.                                      *)
(***************************************************************************)
LEMMA NextMessage ==
    ASSUME PipelineInv, NEW p \in Partitions, pos[p] < Len(topic[p])
    PROVE  /\ topic[p][pos[p] + 1] \in Messages
           /\ MessageSound(topic[p][pos[p] + 1])
<1>1. /\ topic[p] \in Seq(Messages) /\ pos[p] \in Nat
  BY DEF PipelineInv, TypeOK
<1>2. pos[p] + 1 \in 1..Len(topic[p])
  BY <1>1
<1> QED BY <1>1, <1>2 DEF PipelineInv, EngineInv, MessagesSound

(***************************************************************************)
(* The consumer changes the store and its position only.                   *)
(***************************************************************************)
LEMMA ConsumePreserves ==
    ASSUME PipelineInv, NEW q \in Partitions, Consume(q)
    PROVE  PipelineInv'
<1> DEFINE m == topic[q][pos[q] + 1]
<1>1. /\ TypeOK /\ EngineFrame /\ topic' = topic /\ restarts' = restarts
      /\ engine = "live" /\ UNCHANGED engineVars /\ Handle(m)
      /\ pos[q] < Len(topic[q]) /\ pos' = [pos EXCEPT ![q] = pos[q] + 1]
  BY DEF PipelineInv, Consume, EngineFrame, bounds
<1>2. m \in Messages
  BY <1>1, NextMessage
<1> HIDE DEF m
<1>3. m.s \in Strategies /\ m.v \in Nat
  BY <1>2 DEF Messages
<1>4. StoreTypeOK'
  <2>1. StoreTypeOK
    BY <1>1 DEF TypeOK
  <2>2. CASE UNCHANGED storeVars
    BY <2>1, <2>2 DEF StoreTypeOK, storeVars
  <2>3. CASE ApplyUpsert(m.s, m.v, TRUE)
    BY <1>3, <2>1, <2>2, <2>3 DEF StoreTypeOK, ApplyUpsert
  <2>4. CASE ApplyPause(m.s, m.v)
    BY <1>3, <2>1, <2>2, <2>4 DEF StoreTypeOK, ApplyPause
  <2>5. CASE ApplyDelete(m.s, m.v)
    BY <1>3, <2>1, <2>2, <2>5 DEF StoreTypeOK, ApplyDelete
  <2> QED BY <1>1, <2>2, <2>3, <2>4, <2>5 DEF Handle
<1>5. (pos \in [Partitions -> Nat])' /\ \A p \in Partitions : pos'[p] <= Len(topic'[p])
  <2>1. pos \in [Partitions -> Nat] /\ \A p \in Partitions : pos[p] <= Len(topic[p])
    BY <1>1 DEF TypeOK
  <2>2. \A p \in Partitions : Len(topic[p]) \in Nat
    BY <1>1 DEF TypeOK
  <2> QED BY <1>1, <2>1, <2>2
<1>6. TypeOK'
  <2>1. /\ (topic \in [Partitions -> Seq(Messages)])' /\ (restarts \in 0..MaxRestarts)'
        /\ (engine \in {"loading", "live"})' /\ (fetched \in [Strategies -> Nat])'
        /\ (offset \in Nat)'
    BY <1>1 DEF TypeOK, engineVars
  <2> QED BY <1>1, <1>4, <1>5, <2>1, EngineTypes
<1>7. EngineInv'
  BY <1>1, EngineKeeps DEF PipelineInv, EngineInv, MessagesSound, FetchedSound,
       LoadingIsEmpty, engineVars
<1> QED
  BY <1>1, <1>6, <1>7, EngineKeeps DEF PipelineInv

(***************************************************************************)
(* A commit drops messages that were consumed; the rest stay sound.        *)
(***************************************************************************)
LEMMA CommitPreserves ==
    ASSUME PipelineInv, NEW q \in Partitions, CommitOffsets(q)
    PROVE  PipelineInv'
<1> DEFINE rest == SubSeq(topic[q], pos[q] + 1, Len(topic[q]))
<1>1. /\ TypeOK /\ EngineFrame /\ restarts' = restarts /\ UNCHANGED <<storeVars, engineVars>>
      /\ topic' = [topic EXCEPT ![q] = rest] /\ pos' = [pos EXCEPT ![q] = 0]
  BY DEF PipelineInv, CommitOffsets, EngineFrame, bounds
<1>2. /\ topic \in [Partitions -> Seq(Messages)] /\ pos \in [Partitions -> Nat]
      /\ \A p \in Partitions : pos[p] <= Len(topic[p])
  BY <1>1 DEF TypeOK
<1>3. /\ rest \in Seq(Messages)
      /\ \A i \in 1..Len(rest) : rest[i] \in Range(topic[q])
  <2>1. pos[q] + 1 \in Nat \ {0} /\ Len(topic[q]) \in Nat /\ topic[q] \in Seq(Messages)
    BY <1>2
  <2> QED BY <2>1, RangeOfSubSeq
<1> HIDE DEF rest
<1>4. /\ topic' \in [Partitions -> Seq(Messages)] /\ pos' \in [Partitions -> Nat]
      /\ \A p \in Partitions : topic'[p] = IF p = q THEN rest ELSE topic[p]
      /\ \A p \in Partitions : pos'[p] = IF p = q THEN 0 ELSE pos[p]
  BY <1>1, <1>2, <1>3
<1>5. \A p \in Partitions : pos'[p] <= Len(topic'[p])
  <2> TAKE p \in Partitions
  <2>1. Len(rest) \in Nat
    BY <1>3
  <2>2. CASE p = q
    BY <1>4, <2>1, <2>2
  <2>3. CASE p # q
    BY <1>2, <1>4, <2>3
  <2> QED BY <2>2, <2>3
<1>6. TypeOK'
  <2>1. /\ StoreTypeOK' /\ (restarts \in 0..MaxRestarts)'
        /\ (engine \in {"loading", "live"})' /\ (fetched \in [Strategies -> Nat])'
        /\ (offset \in Nat)'
    BY <1>1 DEF TypeOK, engineVars, StoreTypeOK, storeVars
  <2> QED BY <1>1, <1>4, <1>5, <2>1, EngineTypes
<1>7. MessagesSound'
  <2>1. \A p \in Partitions : \A i \in 1..Len(topic'[p]) : MessageSound(topic'[p][i])
    <3>1. \A p \in Partitions : \A i \in 1..Len(topic[p]) : MessageSound(topic[p][i])
      BY DEF PipelineInv, EngineInv, MessagesSound
    <3>2. \A x \in Range(topic[q]) : MessageSound(x)
      BY <1>2, <3>1, RangeEquality
    <3> QED BY <1>3, <1>4, <3>1, <3>2
  <2> QED BY <1>1, <2>1, EngineKeeps DEF MessagesSound
<1>8. FetchedSound' /\ LoadingIsEmpty'
  BY <1>1, EngineKeeps DEF PipelineInv, EngineInv, FetchedSound, LoadingIsEmpty,
       engineVars, StoreInit, Empty, storeVars
<1> QED
  BY <1>1, <1>6, <1>7, <1>8, EngineKeeps DEF PipelineInv, EngineInv

(***************************************************************************)
(* A new process starts with an empty store before the first page.         *)
(***************************************************************************)
LEMMA RestartEnginePreserves ==
    ASSUME PipelineInv, RestartEngine
    PROVE  PipelineInv'
<1>1. TypeOK /\ EngineFrame /\ topic' = topic
  BY DEF PipelineInv, RestartEngine, EngineFrame
<1>2. StoreTypeOK' /\ StoreInit'
  BY DEF RestartEngine, NewStore, Empty, StoreTypeOK, StoreInit
<1>3. restarts' \in 0..MaxRestarts
  BY <1>1, PipelineAssumption DEF TypeOK, RestartEngine
<1>4. (pos \in [Partitions -> Nat])' /\ \A p \in Partitions : pos'[p] <= Len(topic'[p])
  <2>1. \A p \in Partitions : Len(topic[p]) \in Nat
    BY <1>1 DEF TypeOK
  <2> QED BY <1>1, <2>1 DEF RestartEngine
<1>5. TypeOK'
  <2>1. /\ (topic \in [Partitions -> Seq(Messages)])' /\ (engine \in {"loading", "live"})'
        /\ (fetched \in [Strategies -> Nat])' /\ (offset \in Nat)'
    BY <1>1 DEF TypeOK, RestartEngine, Empty
  <2> QED BY <1>1, <1>2, <1>3, <1>4, <2>1, EngineTypes
<1>6. EngineInv'
  BY <1>1, <1>2, EngineKeeps DEF RestartEngine, Empty, PipelineInv, EngineInv,
       MessagesSound, FetchedSound, LoadingIsEmpty
<1> QED
  BY <1>1, <1>5, <1>6, EngineKeeps DEF PipelineInv

(***************************************************************************)
(* Every step of the pipeline.                                             *)
(***************************************************************************)
LEMMA PipelineStep == PipelineInv /\ [Next]_vars => PipelineInv'
<1> SUFFICES ASSUME PipelineInv, [Next]_vars PROVE PipelineInv'
  OBVIOUS
<1>1. CASE UNCHANGED vars
  <2>1. /\ EngineFrame /\ UNCHANGED <<storeVars, kafkaVars, engineVars, restarts>>
    BY <1>1 DEF vars, EngineFrame, bounds
  <2>2. TypeOK'
    BY <2>1 DEF PipelineInv, TypeOK, StoreTypeOK, storeVars, EngineFrame, dbVars,
         workerVars, kafkaVars, engineVars
  <2>3. EngineInv'
    BY <2>1, EngineKeeps DEF PipelineInv, EngineInv, MessagesSound, FetchedSound,
         LoadingIsEmpty, StoreInit, Empty, storeVars, kafkaVars, engineVars
  <2> QED BY <2>1, <2>2, <2>3, EngineKeeps DEF PipelineInv
<1>2. CASE UserConfig
  BY <1>2, UserConfigRecorded, TransactionPreserves
<1>3. CASE OutboxWorker
  BY <1>3, ListPendingPreserves, PublishPreserves, FailurePreserves,
       MarkProcessedPreserves, AbandonPreserves DEF OutboxWorker
<1>4. CASE RulesEngine
  BY <1>4, FetchPreserves, ConsumePreserves, CommitPreserves, RestartEnginePreserves
     DEF RulesEngine
<1> QED
  BY <1>1, <1>2, <1>3, <1>4 DEF Next

(***************************************************************************)
(* Everything the pipeline is built from keeps its type, rows and messages *)
(* carry versions that were issued, and the outbox accounts for every      *)
(* version.                                                                *)
(***************************************************************************)
THEOREM PipelineInvariance == Spec => []PipelineInv
  BY PipelineInit, PipelineStep, PTL DEF Spec

(***************************************************************************)
(* A committed change is pending in the outbox or its message is in Kafka, *)
(* for any number of strategies, partitions, failed calls and restarts,    *)
(* any batch size and any overlap of the transactions.                     *)
(***************************************************************************)
THEOREM OutboxLosesNothing == Spec => []NoChangeLost
<1>1. PipelineInv => NoChangeLost
  <2> SUFFICES ASSUME PipelineInv, NEW s \in Strategies, NEW v \in 1..version[s],
                      <<s, v>> \notin published
               PROVE  \E i \in 1..Len(pending) : pending[i].s = s /\ pending[i].v = v
    BY DEF NoChangeLost
  <2>1. PICK r \in Range(pending) : r.s = s /\ r.v = v
    BY DEF PipelineInv, OutboxInv, PendingOrPublished
  <2>2. pending \in Seq(Rows)
    BY DEF PipelineInv, TypeOK
  <2> QED BY <2>1, <2>2, RangeEquality
<1> QED
  BY <1>1, PipelineInvariance, PTL

-----------------------------------------------------------------------------
(***************************************************************************)
(* The pipeline implements the delivery.                                   *)
(***************************************************************************)

(***************************************************************************)
(* A change is a Write, a delete a Delete of the abstract specification.   *)
(***************************************************************************)
LEMMA TransactionIsWrite ==
    ASSUME PipelineInv, NEW op, Transaction(op), NEW S \in SUBSET Strategies,
           \A s \in S : deletedAt[s] = 0,
           version' = [s \in Strategies |-> IF s \in S THEN version[s] + 1 ELSE version[s]],
           deletedAt' = deletedAt
    PROVE  Delivery!Next
<1>1. \A s \in Strategies : version[s] \in Nat /\ version[s] < MaxTx
  <2>1. tx \in Nat /\ tx < MaxTx /\ MaxTx \in Nat
    BY PipelineAssumption DEF PipelineInv, TypeOK, Transaction
  <2>2. \A s \in Strategies : version[s] \in Nat /\ version[s] <= tx
    BY DEF PipelineInv, TypeOK, DatabaseInv, VersionsBounded
  <2> QED BY <2>1, <2>2
<1>2. UNCHANGED storeVars
  BY DEF Transaction
<1>3. Delivery!Write(S)
  BY <1>1, <1>2 DEF Delivery!Write, Delivery!storeVars, storeVars
<1> QED BY <1>3 DEF Delivery!Next

(***************************************************************************)
(* Each transaction of user-config is a step of the delivery.              *)
(***************************************************************************)
LEMMA UserConfigRefines ==
    ASSUME PipelineInv, UserConfig
    PROVE  Delivery!Next
<1>1. version \in [Strategies -> Nat] /\ deletedAt \in [Strategies -> Nat]
  BY DEF PipelineInv, TypeOK
<1>2. ASSUME NEW s \in Strategies, deletedAt[s] = 0, deletedAt' = deletedAt, NEW op, Transaction(op),
             version' = [version EXCEPT ![s] = version[s] + 1]
      PROVE  Delivery!Next
  <2>1. version' = [x \in Strategies |-> IF x \in {s} THEN version[x] + 1 ELSE version[x]]
    BY <1>1, <1>2
  <2> QED BY <1>2, <2>1, TransactionIsWrite
<1>3. ASSUME NEW s \in Strategies, NEW on \in BOOLEAN, Create(s, on)
      PROVE  Delivery!Next
  <2>0. version[s] = 0 /\ deletedAt[s] \in Nat /\ deletedAt[s] <= version[s]
    BY <1>1, <1>3 DEF Create, PipelineInv, DatabaseInv, DeletedIsIssued
  <2>1. deletedAt[s] = 0 /\ version[s] + 1 = 1
    BY <2>0
  <2> QED BY <1>2, <1>3, <2>1 DEF Create
<1>4. ASSUME NEW s \in Strategies, Update(s) \/ Activate(s) \/ Deactivate(s)
      PROVE  Delivery!Next
  BY <1>2, <1>4 DEF Update, Activate, Deactivate, Exists
<1>5. ASSUME NEW s \in Strategies, Delete(s)
      PROVE  Delivery!Next
  <2>1. tx \in Nat /\ tx < MaxTx /\ version[s] \in Nat /\ version[s] <= tx /\ MaxTx \in Nat
    BY <1>1, <1>5, PipelineAssumption DEF PipelineInv, TypeOK, DatabaseInv,
         VersionsBounded, Delete, Transaction
  <2>2. UNCHANGED storeVars
    BY <1>5 DEF Delete, Transaction
  <2>3. Delivery!Delete(s)
    BY <1>5, <2>1, <2>2 DEF Delete, Delivery!Delete, Delivery!storeVars, storeVars
  <2> QED BY <2>3 DEF Delivery!Next
<1>6. ASSUME NEW S \in SUBSET Strategies, DeactivateActive(S)
      PROVE  Delivery!Next
  <2>1. \A s \in S : deletedAt[s] = 0
    BY <1>6 DEF DeactivateActive, PipelineInv, DatabaseInv, RecentExist, Exists
  <2> QED BY <1>6, <2>1, TransactionIsWrite DEF DeactivateActive
<1> QED
  BY <1>3, <1>4, <1>5, <1>6 DEF UserConfig

(***************************************************************************)
(* Handling a message delivers the version it carries.                     *)
(***************************************************************************)
LEMMA ConsumeRefines ==
    ASSUME PipelineInv, NEW q \in Partitions, Consume(q)
    PROVE  Delivery!Next
<1> DEFINE m == topic[q][pos[q] + 1]
<1>1. /\ Handle(m) /\ version' = version /\ deletedAt' = deletedAt /\ pos[q] < Len(topic[q])
  BY DEF Consume, dbVars
<1>2. m \in Messages /\ MessageSound(m)
  BY <1>1, NextMessage
<1> HIDE DEF m
<1>3. m.s \in Strategies /\ m.v \in Nat
  BY <1>2 DEF Messages
<1>4. m.v \in 1..version[m.s]
  BY <1>2 DEF MessageSound, Delivery!LiveVersion, Delivery!DeleteVersion
<1>5. Delivery!Deliver(m.s, m.v)
  <2>1. CASE m.type \in {"CONFIG_CREATED", "CONFIG_UPDATED"}
    <3>1. Delivery!LiveVersion(m.s, m.v)
      BY <1>2, <2>1 DEF MessageSound
    <3>2. Delivery!HandleUpsert(m.s, m.v, TRUE)
      BY <1>1, <2>1 DEF Handle, Delivery!HandleUpsert, ApplyUpsert,
           Delivery!ApplyUpsert, Stale, Delivery!Stale, StoredVersion,
           Delivery!StoredVersion, storeVars, Delivery!storeVars
    <3> QED BY <1>1, <3>1, <3>2 DEF Delivery!Deliver, Delivery!contractVars
  <2>2. CASE m.type = "CONFIG_PAUSED"
    <3>1. Delivery!LiveVersion(m.s, m.v)
      BY <1>2, <2>2 DEF MessageSound
    <3>2. Delivery!ApplyPause(m.s, m.v)
      BY <1>1, <2>2 DEF Handle, ApplyPause, Delivery!ApplyPause, Stale,
           Delivery!Stale, storeVars, Delivery!storeVars
    <3> QED BY <1>1, <3>1, <3>2 DEF Delivery!Deliver, Delivery!contractVars
  <2>3. CASE m.type = "CONFIG_DELETED"
    <3>1. Delivery!DeleteVersion(m.s, m.v)
      BY <1>2, <2>3 DEF MessageSound
    <3>2. Delivery!ApplyDelete(m.s, m.v)
      BY <1>1, <2>3 DEF Handle, ApplyDelete, Delivery!ApplyDelete, storeVars,
           Delivery!storeVars
    <3> QED BY <1>1, <3>1, <3>2 DEF Delivery!Deliver, Delivery!contractVars
  <2> QED BY <1>2, <2>1, <2>2, <2>3 DEF Messages
<1> QED
  BY <1>3, <1>4, <1>5 DEF Delivery!Next

(***************************************************************************)
(* The last page loads live versions into an empty store.                  *)
(***************************************************************************)
LEMMA FetchLastPageRefines ==
    ASSUME PipelineInv, FetchLastPage
    PROVE  Delivery!Next \/ UNCHANGED Delivery!vars
<1>1. version' = version /\ deletedAt' = deletedAt /\ engine = "loading"
  BY DEF FetchLastPage, dbVars
<1>2. CASE UNCHANGED storeVars
  BY <1>1, <1>2 DEF storeVars, Delivery!vars
<1>3. CASE BulkLoad(Valid(WithPage))
  <2> DEFINE loaded == Valid(WithPage)
  <2>1. \A s \in Strategies : loaded[s] = IF s \in AmountBased THEN 0 ELSE WithPage[s]
    BY DEF Valid
  <2>2. \A s \in Strategies : loaded[s] \in Nat /\ (loaded[s] # 0 => Delivery!LiveVersion(s, loaded[s]))
    <3>1. \A s \in Strategies :
             /\ WithPage[s] \in Nat
             /\ WithPage[s] # 0 => Delivery!LiveVersion(s, WithPage[s])
      BY PagesAreLive
    <3> HIDE DEF loaded
    <3> TAKE s \in Strategies
    <3>2. CASE loaded[s] = 0
      BY <3>2
    <3>3. CASE loaded[s] = WithPage[s]
      BY <3>1, <3>3
    <3> QED BY <2>1, <3>2, <3>3
  <2>3. DOMAIN loaded = Strategies /\ loaded = [s \in Strategies |-> loaded[s]]
    BY DEF Valid
  <2> HIDE DEF loaded
  <2>4. \A s \in Strategies : loaded[s] \in 0..MaxTx
    <3> TAKE s \in Strategies
    <3>1. version[s] \in Nat /\ version[s] <= tx /\ tx \in Nat /\ tx <= MaxTx /\ MaxTx \in Nat
      BY PipelineAssumption DEF PipelineInv, TypeOK, DatabaseInv, VersionsBounded
    <3> QED BY <2>2, <3>1 DEF Delivery!LiveVersion
  <2>5. loaded \in [Strategies -> 0..MaxTx]
    BY <2>3, <2>4
  <2>6. StoreInit
    BY <1>1 DEF PipelineInv, EngineInv, LoadingIsEmpty
  <2>7. Delivery!Bootstrap(loaded)
    BY <1>1, <1>3, <2>2, <2>6 DEF Delivery!Bootstrap, Delivery!BulkLoad, BulkLoad,
         StoreInit, loaded, Empty, Delivery!Empty, Delivery!contractVars
  <2> QED BY <2>5, <2>7 DEF Delivery!Next
<1> QED BY <1>2, <1>3 DEF FetchLastPage

(***************************************************************************)
(* Every step of the pipeline is a step of the delivery or leaves its      *)
(* variables alone.                                                        *)
(***************************************************************************)
LEMMA StepRefines == PipelineInv /\ [Next]_vars => [Delivery!Next]_Delivery!vars
<1> SUFFICES ASSUME PipelineInv, [Next]_vars
             PROVE  Delivery!Next \/ UNCHANGED Delivery!vars
  OBVIOUS
<1>1. CASE UNCHANGED <<storeVars, version, deletedAt>>
  BY <1>1 DEF storeVars, Delivery!vars
<1>2. CASE UserConfig
  BY <1>2, UserConfigRefines
<1>3. CASE OutboxWorker
  BY <1>1, <1>3 DEF OutboxWorker, ListPending, Publish, PublishFails, TranslateFails,
       MarkProcessed, Abandon, dbVars
<1>4. CASE RulesEngine
  <2>1. CASE FetchPage \/ \E p \in Partitions : CommitOffsets(p)
    BY <1>1, <2>1 DEF FetchPage, CommitOffsets, dbVars
  <2>2. CASE RestartEngine
    BY <2>2 DEF RestartEngine, NewStore, Empty, dbVars, Delivery!Restart,
         Delivery!NewStore, Delivery!Empty, Delivery!contractVars, Delivery!Next
  <2> QED
    BY <1>4, <2>1, <2>2, FetchLastPageRefines, ConsumeRefines DEF RulesEngine
<1> QED
  BY <1>1, <1>2, <1>3, <1>4 DEF Next, vars, dbVars

(***************************************************************************)
(* The database, the outbox, Kafka and the paged bootstrap deliver no more *)
(* than ConfigDelivery allows.                                             *)
(***************************************************************************)
THEOREM PipelineDelivers == Spec => ImplementsDelivery
<1>1. Init => Delivery!Init
  BY DEF Init, Delivery!Init, StoreInit, Delivery!StoreInit, Empty, Delivery!Empty
<1> QED
  BY <1>1, PipelineInvariance, StepRefines, PTL DEF Spec, ImplementsDelivery,
       Delivery!Spec

(***************************************************************************)
(* So what holds of every delivery holds of the engine behind the real     *)
(* outbox, topic and bootstrap.                                            *)
(***************************************************************************)
COROLLARY PipelineNeverResurrects == Spec => []DeletedStaysDeleted
  BY PipelineDelivers, DeletedNeverResurrected, PTL DEF ImplementsDelivery

(***************************************************************************)
(* A stored copy is never replaced by an older one while the process lives *)
(* and the strategy is not deleted.                                        *)
(***************************************************************************)
THEOREM StoreNeverGoesBack == Spec => StoredNeverRegresses
<1> DEFINE Kept == \A s \in Strategies :
                     \/ restarts' # restarts
                     \/ tombstones'[s] # 0
                     \/ IF active'[s] # 0 THEN active'[s] >= StoredVersion(s)
                                          ELSE paused'[s] >= StoredVersion(s)
<1>1. PipelineInv /\ [Next]_vars => [Kept]_vars
  <2> SUFFICES ASSUME PipelineInv, Next PROVE Kept
    OBVIOUS
  <2>1. StoreTypeOK /\ restarts \in Nat
    BY PipelineAssumption DEF PipelineInv, TypeOK
  <2>2. CASE UNCHANGED storeVars
    BY <2>1, <2>2 DEF storeVars, StoreTypeOK, StoredVersion
  <2>3. ASSUME NEW q \in Partitions, Consume(q) PROVE Kept
    <3> DEFINE m == topic[q][pos[q] + 1]
    <3>1. Handle(m) /\ pos[q] < Len(topic[q])
      BY <2>3 DEF Consume
    <3>2. m \in Messages /\ MessageSound(m)
      BY <3>1, NextMessage
    <3> HIDE DEF m
    <3>3. m.s \in Strategies /\ m.v \in Nat /\ m.v # 0
      BY <3>2 DEF Messages, MessageSound, Delivery!LiveVersion, Delivery!DeleteVersion
    <3>4. CASE StoredVersion(m.s) < m.v /\ ApplyUpsert(m.s, m.v, TRUE)
      BY <2>1, <2>2, <3>3, <3>4 DEF ApplyUpsert, StoreTypeOK, StoredVersion
    <3>5. CASE ApplyPause(m.s, m.v)
      BY <2>1, <2>2, <3>3, <3>5 DEF ApplyPause, StoreTypeOK, StoredVersion
    <3>6. CASE ApplyDelete(m.s, m.v)
      BY <2>1, <2>2, <3>3, <3>6 DEF ApplyDelete, StoreTypeOK, StoredVersion
    <3> QED BY <2>2, <3>1, <3>4, <3>5, <3>6 DEF Handle
  <2>4. CASE FetchLastPage
    <3>1. CASE UNCHANGED storeVars
      BY <2>2, <3>1
    <3>2. CASE BulkLoad(Valid(WithPage))
      <4>1. \A s \in Strategies : StoredVersion(s) = 0
        BY <2>4 DEF FetchLastPage, PipelineInv, EngineInv, LoadingIsEmpty, StoreInit,
             Empty, StoredVersion
      <4>2. \A s \in Strategies : Valid(WithPage)[s] \in Nat
        BY PagesAreLive DEF Valid
      <4> QED BY <3>2, <4>1, <4>2 DEF BulkLoad, Empty
    <3> QED BY <2>4, <3>1, <3>2 DEF FetchLastPage
  <2>5. CASE RestartEngine
    BY <2>1, <2>5 DEF RestartEngine
  <2>6. CASE UserConfig
    BY <2>2, <2>6 DEF UserConfig, Create, Update, Activate, Deactivate, Delete,
         DeactivateActive, Transaction
  <2>7. CASE OutboxWorker
    BY <2>2, <2>7 DEF OutboxWorker, ListPending, Publish, PublishFails, TranslateFails,
         MarkProcessed, Abandon
  <2> QED
    BY <2>2, <2>3, <2>4, <2>5, <2>6, <2>7 DEF Next, RulesEngine, FetchPage,
         CommitOffsets
<1> QED
  BY <1>1, PipelineInvariance, PTL DEF Spec, StoredNeverRegresses

-----------------------------------------------------------------------------
(***************************************************************************)
(* Serving the active rows.  Until the engine restarts, the current        *)
(* version of an active row is in the store, on its way in Kafka, or still *)
(* in the outbox.  The other conjuncts make this inductive: the versions   *)
(* map covers every stored copy; a version that was applied is served; no  *)
(* pause carries the current version of an active row; and what the worker *)
(* has sent, and is about to mark, is on its way or served.                *)
(***************************************************************************)
Carries(m, s) == m.type \in UpsertTypes /\ m.s = s /\ m.v = version[s]

Carried(s) ==
    \/ active[s] = version[s]
    \/ \E p \in Partitions : \E i \in 1..Len(topic[p]) : i > pos[p] /\ Carries(topic[p][i], s)

CopiesAreApplied ==
    \A s \in Strategies : /\ active[s] # 0 => active[s] <= versions[s]
                          /\ paused[s] # 0 => paused[s] < versions[s]
AppliedIsServed ==
    \A s \in Range(recent) : versions[s] = version[s] => active[s] = version[s]
NoCurrentPauseRow ==
    \A r \in Range(pending) \cup Range(batch) :
        r.kind = "DEACTIVATED" /\ r.v = version[r.s] => r.s \notin Range(recent)
PausesNoActiveRow(m) ==
    m.type = "CONFIG_PAUSED" /\ m.v = version[m.s] => m.s \notin Range(recent)
NoCurrentPause ==
    \A p \in Partitions : \A i \in 1..Len(topic[p]) : PausesNoActiveRow(topic[p][i])
Announces(r, s) == r.kind \in Upserts /\ r.s = s /\ r.v = version[s]
ActiveIsCarried ==
    \A s \in Range(recent) : Carried(s) \/ \E r \in Range(pending) : Announces(r, s)
SentIsCarried ==
    \A i \in 1..sent : \A s \in Range(recent) : Announces(batch[i], s) => Carried(s)

ServedInv ==
    /\ engine = "live"
    /\ CopiesAreApplied /\ AppliedIsServed
    /\ NoCurrentPauseRow /\ NoCurrentPause
    /\ ActiveIsCarried /\ SentIsCarried

(***************************************************************************)
(* Nothing the engine has applied is later than the row, and nothing was   *)
(* deleted, as long as the row is active.                                  *)
(***************************************************************************)
LEMMA ActiveRowFacts ==
    ASSUME PipelineInv, IInv, NEW s \in Range(recent)
    PROVE  /\ s \in Strategies /\ version[s] \in Nat \ {0} /\ deletedAt[s] = 0
           /\ {active[s], paused[s], versions[s], tombstones[s]} \subseteq Nat
           /\ versions[s] <= version[s] /\ tombstones[s] = 0
           /\ active[s] <= version[s] /\ paused[s] <= version[s]
<1>1. s \in Strategies
  BY RangeOfSeq DEF PipelineInv, TypeOK
<1>2. /\ version[s] \in Nat /\ {active[s], paused[s], versions[s], tombstones[s]} \subseteq Nat
  BY <1>1 DEF PipelineInv, TypeOK, StoreTypeOK
<1>3. version[s] # 0 /\ deletedAt[s] = 0
  BY DEF PipelineInv, DatabaseInv, RecentExist, Exists
<1>4. tombstones[s] = 0
  BY <1>1, <1>3 DEF IInv, Delivery!VersionOrder, Delivery!DeleteVersion
<1>5. versions[s] <= version[s]
  BY <1>1, <1>2, <1>4 DEF IInv, Delivery!VersionOrder, Delivery!LiveVersion
<1>6. active[s] <= version[s] /\ paused[s] <= version[s]
  BY <1>1, <1>2 DEF IInv, Delivery!OnlyIssued, Delivery!LiveVersion
<1> QED BY <1>1, <1>2, <1>3, <1>4, <1>5, <1>6

(***************************************************************************)
(* A transaction that changes a row gives it a version nothing carries     *)
(* yet, and inserts the row that will.                                     *)
(***************************************************************************)
LEMMA TransactionServes ==
    ASSUME PipelineInv, IInv, ServedInv, NEW op, Transaction(op),
           NEW rows \in Seq(Rows), Recorded(rows)
    PROVE  ServedInv'
<1>1. /\ \A r \in Range(rows) : r.kind = "DEACTIVATED" => r.s \notin Range(recent')
      /\ \A s \in Strategies :
            version'[s] # version[s] =>
                \E r \in Range(rows) : /\ r.s = s /\ r.v = version'[s]
                                       /\ s \in Range(recent') => r.kind \in Upserts
      /\ \A s \in Range(recent') : version'[s] = version[s] => s \in Range(recent)
      /\ \A s \in Range(recent') : s \in Strategies
  BY RangeOfSeq DEF Recorded
<1>2. /\ batch' = batch /\ sent' = sent /\ topic' = topic /\ pos' = pos /\ engine' = engine
      /\ active' = active /\ paused' = paused /\ versions' = versions
  BY DEF Transaction, storeVars, workerVars, kafkaVars, engineVars
<1>3. Range(pending') = Range(pending) \cup Range(rows)
  BY PipelineAssumption, InsertAdds DEF PipelineInv, TypeOK, Recorded
<1>4. \A s \in Strategies :
         /\ version[s] \in Nat
         /\ version'[s] = version[s] \/ version'[s] = version[s] + 1
  BY DEF PipelineInv, TypeOK, Recorded, Numbered
<1>5. \A r \in Range(pending) \cup Range(batch) :
         r.s \in Strategies /\ r.v \in Nat /\ r.v <= version[r.s]
  <2> TAKE r \in Range(pending) \cup Range(batch)
  <2>1. r \in Rows /\ RowSound(r)
    BY RangeOfSeq DEF PipelineInv, OutboxInv, RowsSound, TypeOK
  <2>2. r.s \in Strategies /\ r.v \in Nat
    BY <2>1 DEF Rows
  <2> QED BY <1>4, <2>1, <2>2 DEF RowSound, Delivery!LiveVersion, Delivery!DeleteVersion
<1>6. \A s \in Strategies : version'[s] = version[s] => (Carried(s)' <=> Carried(s))
  BY <1>2 DEF Carried, Carries
<1>7. CopiesAreApplied'
  BY <1>2 DEF ServedInv, CopiesAreApplied
<1>8. AppliedIsServed'
  <2> SUFFICES ASSUME NEW s \in Range(recent'), versions[s] = version'[s]
               PROVE  active[s] = version'[s]
    BY <1>2 DEF AppliedIsServed
  <2>1. s \in Strategies /\ version[s] \in Nat
    BY <1>1, <1>4
  <2>2. versions[s] \in Nat /\ versions[s] <= version[s]
    <3>1. versions[s] \in Nat /\ tombstones[s] \in Nat
      BY <2>1 DEF PipelineInv, TypeOK, StoreTypeOK
    <3>2. CASE tombstones[s] = 0
      BY <2>1, <3>1, <3>2 DEF IInv, Delivery!VersionOrder, Delivery!LiveVersion
    <3>3. CASE tombstones[s] # 0
      BY <2>1, <3>1, <3>3 DEF IInv, Delivery!VersionOrder, Delivery!DeleteVersion
    <3> QED BY <3>2, <3>3
  <2>3. version'[s] = version[s]
    BY <1>4, <2>1, <2>2
  <2> QED BY <1>1, <2>3 DEF ServedInv, AppliedIsServed
<1>9. NoCurrentPauseRow'
  <2> SUFFICES ASSUME NEW r \in Range(pending') \cup Range(batch), r.kind = "DEACTIVATED",
                      r.v = version'[r.s], r.s \in Range(recent')
               PROVE  FALSE
    BY <1>2 DEF NoCurrentPauseRow
  <2>1. r \in Range(pending) \cup Range(batch)
    BY <1>1, <1>3
  <2>2. version'[r.s] = version[r.s]
    BY <1>4, <1>5, <2>1
  <2> QED BY <1>1, <2>1, <2>2 DEF ServedInv, NoCurrentPauseRow
<1>10. NoCurrentPause'
  <2> SUFFICES ASSUME NEW p \in Partitions, NEW i \in 1..Len(topic[p]),
                      topic[p][i].type = "CONFIG_PAUSED",
                      topic[p][i].v = version'[topic[p][i].s], topic[p][i].s \in Range(recent')
               PROVE  FALSE
    BY <1>2 DEF NoCurrentPause, PausesNoActiveRow
  <2> DEFINE m == topic[p][i]
  <2>1. m \in Messages /\ MessageSound(m)
    BY DEF PipelineInv, TypeOK, EngineInv, MessagesSound
  <2>2. PausesNoActiveRow(m)
    BY DEF ServedInv, NoCurrentPause
  <2>3. m.type = "CONFIG_PAUSED" /\ m.v = version'[m.s] /\ m.s \in Range(recent')
    OBVIOUS
  <2> HIDE DEF m
  <2>4. m.s \in Strategies /\ m.v \in Nat /\ m.v <= version[m.s]
    BY <1>4, <2>1 DEF Messages, MessageSound, Delivery!LiveVersion,
         Delivery!DeleteVersion
  <2>5. version'[m.s] = version[m.s]
    BY <1>4, <2>3, <2>4
  <2> QED BY <1>1, <2>2, <2>3, <2>5 DEF PausesNoActiveRow
<1>11. ActiveIsCarried'
  <2> SUFFICES ASSUME NEW s \in Range(recent')
               PROVE  Carried(s)' \/ \E r \in Range(pending') : Announces(r, s)'
    BY DEF ActiveIsCarried
  <2>1. CASE version'[s] = version[s]
    <3>1. Carried(s) \/ \E r \in Range(pending) : Announces(r, s)
      BY <1>1, <2>1 DEF ServedInv, ActiveIsCarried
    <3> QED BY <1>1, <1>3, <1>6, <2>1, <3>1 DEF Announces
  <2>2. CASE version'[s] # version[s]
    BY <1>1, <1>3, <2>2 DEF Announces
  <2> QED BY <2>1, <2>2
<1>12. SentIsCarried'
  <2> SUFFICES ASSUME NEW i \in 1..sent, NEW s \in Range(recent'), Announces(batch[i], s)'
               PROVE  Carried(s)'
    BY <1>2 DEF SentIsCarried
  <2>1. batch[i] \in Range(batch)
    BY DEF PipelineInv, TypeOK, Range
  <2>2. batch[i].s = s /\ batch[i].v = version'[s] /\ batch[i].kind \in Upserts
    BY <1>2 DEF Announces
  <2>3. version'[s] = version[s]
    BY <1>4, <1>5, <2>1, <2>2
  <2>4. s \in Range(recent) /\ s \in Strategies
    BY <1>1, <2>3
  <2>5. Announces(batch[i], s)
    BY <2>2, <2>3 DEF Announces
  <2> QED BY <1>6, <2>3, <2>4, <2>5 DEF ServedInv, SentIsCarried
<1> QED
  BY <1>2, <1>7, <1>8, <1>9, <1>10, <1>11, <1>12 DEF ServedInv

(***************************************************************************)
(* What a step of the worker has to show: the store and the rows' versions *)
(* stay as they are, and no row appears in the outbox or the batch.        *)
(***************************************************************************)
LEMMA WorkerServes ==
    ASSUME ServedInv, WorkerFrame,
           Range(pending') \cup Range(batch') \subseteq Range(pending) \cup Range(batch),
           NoCurrentPause', ActiveIsCarried', SentIsCarried'
    PROVE  ServedInv'
<1>1. /\ version' = version /\ recent' = recent /\ engine' = engine
      /\ active' = active /\ paused' = paused /\ versions' = versions
  BY DEF WorkerFrame, storeVars, engineVars
<1>2. CopiesAreApplied' /\ AppliedIsServed'
  BY <1>1 DEF ServedInv, CopiesAreApplied, AppliedIsServed
<1>3. NoCurrentPauseRow'
  BY <1>1 DEF ServedInv, NoCurrentPauseRow
<1> QED BY <1>1, <1>2, <1>3 DEF ServedInv

(***************************************************************************)
(* The worker's steps that leave the topic alone.  MarkProcessed takes out *)
(* of the outbox only rows whose message was sent.                         *)
(***************************************************************************)
LEMMA QuietWorkerServes ==
    ASSUME PipelineInv, ServedInv,
           ListPending \/ TranslateFails \/ MarkProcessed \/ Abandon
    PROVE  ServedInv'
<1>1. WorkerFrame /\ topic' = topic /\ pos' = pos
  BY DEF ListPending, TranslateFails, MarkProcessed, Abandon, WorkerFrame, dbVars,
       kafkaVars, bounds
<1>2. version' = version /\ recent' = recent /\ active' = active
  BY <1>1 DEF WorkerFrame, storeVars
<1>3. /\ \A s : Carried(s)' <=> Carried(s)
      /\ \A r, s : Announces(r, s)' <=> Announces(r, s)
  BY <1>1, <1>2 DEF Carried, Carries, Announces
<1>4. NoCurrentPause'
  BY <1>1, <1>2 DEF ServedInv, NoCurrentPause, PausesNoActiveRow
<1>5. pending \in Seq(Rows) /\ batch \in Seq(Rows)
  BY DEF PipelineInv, TypeOK
<1>6. CASE ListPending
  <2> DEFINE n == IF Len(pending) < BatchSize THEN Len(pending) ELSE BatchSize
  <2>1. batch' = SubSeq(pending, 1, n) /\ sent' = 0 /\ pending' = pending
    BY <1>6 DEF ListPending, dbVars
  <2>2. n \in Nat /\ n <= Len(pending)
    BY <1>5, PipelineAssumption
  <2> HIDE DEF n
  <2>3. Range(batch') \subseteq Range(pending)
    BY <1>5, <2>1, <2>2, RangeOfSubSeq
  <2>4. ActiveIsCarried'
    BY <1>2, <1>3, <2>1 DEF ServedInv, ActiveIsCarried
  <2>5. SentIsCarried'
    BY <2>1 DEF SentIsCarried
  <2> QED BY <1>1, <1>4, <2>1, <2>3, <2>4, <2>5, WorkerServes
<1>7. CASE TranslateFails
  <2>1. batch' = batch /\ sent' = sent /\ pending' = pending
    BY <1>7 DEF TranslateFails, dbVars
  <2>2. ActiveIsCarried' /\ SentIsCarried'
    BY <1>2, <1>3, <2>1 DEF ServedInv, ActiveIsCarried, SentIsCarried
  <2> QED BY <1>1, <1>4, <2>1, <2>2, WorkerServes
<1>8. CASE Abandon
  <2>1. batch' = <<>> /\ sent' = 0 /\ pending' = pending /\ Range(batch') = {}
    BY <1>8 DEF Abandon, dbVars, Range
  <2>2. ActiveIsCarried' /\ SentIsCarried'
    BY <1>2, <1>3, <2>1 DEF ServedInv, ActiveIsCarried, SentIsCarried
  <2> QED BY <1>1, <1>4, <2>1, <2>2, WorkerServes
<1>9. CASE MarkProcessed
  <2> DEFINE done == {batch[i] : i \in 1..sent}
  <2>1. /\ pending' = Without(pending, done)
        /\ batch' = <<>> /\ sent' = 0 /\ Range(batch') = {}
    BY <1>9 DEF MarkProcessed, Range
  <2>2. \A r \in done : \E i \in 1..sent : r = batch[i]
    OBVIOUS
  <2> HIDE DEF done
  <2>3. Range(pending') = Range(pending) \ done
    BY <1>5, <2>1, WithoutKeeps
  <2>4. ActiveIsCarried'
    <3> SUFFICES ASSUME NEW s \in Range(recent), ~Carried(s)
                 PROVE  \E r \in Range(pending') : Announces(r, s)
      BY <1>2, <1>3 DEF ActiveIsCarried
    <3>1. PICK r \in Range(pending) : Announces(r, s)
      BY DEF ServedInv, ActiveIsCarried
    <3>2. r \notin done
      BY <2>2, <3>1 DEF ServedInv, SentIsCarried
    <3> QED BY <2>3, <3>1, <3>2
  <2>5. SentIsCarried'
    BY <2>1 DEF SentIsCarried
  <2> QED BY <1>1, <1>4, <2>1, <2>3, <2>4, <2>5, WorkerServes
<1> QED BY <1>6, <1>7, <1>8, <1>9

(***************************************************************************)
(* Publishing: the event of a row that announces the current version of an *)
(* active row carries it, and goes after everything consumed so far.       *)
(***************************************************************************)
LEMMA PublishServes ==
    ASSUME PipelineInv, ServedInv, Publish \/ PublishFails
    PROVE  ServedInv'
<1> DEFINE row == batch[sent + 1]
<1>1. /\ WorkerFrame /\ pos' = pos /\ pending' = pending /\ batch' = batch
      /\ Working
      /\ \/ Append1(row) /\ sent' \in {sent, sent + 1}
         \/ topic' = topic /\ sent' = sent
  BY DEF Publish, PublishFails, WorkerFrame, dbVars, bounds
<1>2. version' = version /\ recent' = recent /\ active' = active
  BY <1>1 DEF WorkerFrame, storeVars
<1>3. \A r, s : Announces(r, s)' <=> Announces(r, s)
  BY <1>2 DEF Announces
<1>4. CASE topic' = topic /\ sent' = sent
  <2>1. \A s : Carried(s)' <=> Carried(s)
    BY <1>1, <1>2, <1>4 DEF Carried, Carries
  <2>2. NoCurrentPause'
    BY <1>2, <1>4 DEF ServedInv, NoCurrentPause, PausesNoActiveRow
  <2>3. ActiveIsCarried' /\ SentIsCarried'
    BY <1>1, <1>2, <1>3, <1>4, <2>1 DEF ServedInv, ActiveIsCarried, SentIsCarried
  <2> QED BY <1>1, <2>2, <2>3, WorkerServes
<1>5. CASE Append1(row) /\ sent' \in {sent, sent + 1}
  <2>1. /\ topic \in [Partitions -> Seq(Messages)] /\ pos \in [Partitions -> Nat]
        /\ \A p \in Partitions : pos[p] <= Len(topic[p])
        /\ sent \in Nat /\ sent + 1 \in 1..Len(batch)
    BY <1>1 DEF PipelineInv, TypeOK, Working
  <2>2. row \in Range(batch) /\ row \in Rows
    BY <2>1 DEF Range, PipelineInv, TypeOK
  <2>m. PICK m : m = ToKafka(row)
    OBVIOUS
  <2>3. PICK q \in Partitions : topic' = [topic EXCEPT ![q] = Append(topic[q], m)]
    BY <1>5, <2>m DEF Append1
  <2> HIDE DEF row
  <2>4. /\ m.type = "CONFIG_PAUSED" => row.kind = "DEACTIVATED" /\ m.s = row.s /\ m.v = row.v
        /\ \A s : Announces(row, s) => Carries(m, s)
    <3>1. row.kind \in Kinds
      BY <2>2 DEF Rows
    <3> QED BY <2>m, <3>1 DEF ToKafka, Message, Kinds, Announces, Carries, Upserts,
            UpsertTypes
  <2>5. \A p \in Partitions :
           /\ Len(topic[p]) \in Nat
           /\ \A i \in 1..Len(topic[p]) : i \in 1..Len(topic'[p]) /\ topic'[p][i] = topic[p][i]
           /\ \A i \in 1..Len(topic'[p]) : i \in 1..Len(topic[p]) \/ topic'[p][i] = m
    <3> SUFFICES ASSUME NEW p \in Partitions
                 PROVE  /\ Len(topic[p]) \in Nat
                        /\ \A i \in 1..Len(topic[p]) :
                              i \in 1..Len(topic'[p]) /\ topic'[p][i] = topic[p][i]
                        /\ \A i \in 1..Len(topic'[p]) :
                              i \in 1..Len(topic[p]) \/ topic'[p][i] = m
      OBVIOUS
    <3>1. topic[p] \in Seq(Messages)
      BY <2>1
    <3>2. CASE p # q
      BY <2>1, <2>3, <3>1, <3>2
    <3>3. CASE p = q
      <4>1. topic'[p] = Append(topic[p], m)
        BY <2>1, <2>3, <3>3
      <4>2. /\ Len(Append(topic[p], m)) = Len(topic[p]) + 1 /\ Len(topic[p]) \in Nat
            /\ \A j \in 1..Len(topic[p]) : Append(topic[p], m)[j] = topic[p][j]
            /\ Append(topic[p], m)[Len(topic[p]) + 1] = m
        BY <3>1
      <4> QED BY <4>1, <4>2
    <3> QED BY <3>2, <3>3
  <2>6. Len(topic[q]) + 1 \in 1..Len(topic'[q]) /\ topic'[q][Len(topic[q]) + 1] = m
    <3>1. topic'[q] = Append(topic[q], m) /\ topic[q] \in Seq(Messages)
      BY <2>1, <2>3
    <3> QED BY <3>1
  <2>7. \A x, s : Carries(x, s)' <=> Carries(x, s)
    BY <1>2 DEF Carries
  <2>8. \A s : Carried(s) => Carried(s)'
    BY <1>1, <1>2, <2>5, <2>7 DEF Carried
  <2>9. \A s : Announces(row, s) => Carried(s)'
    <3> SUFFICES ASSUME NEW s, Carries(m, s) PROVE Carried(s)'
      BY <2>4
    <3>1. Len(topic[q]) + 1 > pos'[q]
      BY <1>1, <2>1, <2>5
    <3> QED BY <2>6, <2>7, <3>1 DEF Carried
  <2>10. NoCurrentPause'
    <3>1. PausesNoActiveRow(m)
      BY <2>2, <2>4 DEF ServedInv, NoCurrentPauseRow, PausesNoActiveRow
    <3>2. \A x : PausesNoActiveRow(x)' <=> PausesNoActiveRow(x)
      BY <1>2 DEF PausesNoActiveRow
    <3> QED BY <2>5, <3>1, <3>2 DEF ServedInv, NoCurrentPause
  <2>11. ActiveIsCarried'
    BY <1>1, <1>2, <1>3, <2>8 DEF ServedInv, ActiveIsCarried
  <2>12. SentIsCarried'
    <3> SUFFICES ASSUME NEW i \in 1..sent', NEW s \in Range(recent), Announces(batch[i], s)
                 PROVE  Carried(s)'
      BY <1>1, <1>2, <1>3 DEF SentIsCarried
    <3>1. i \in 1..sent \/ i = sent + 1
      BY <1>5, <2>1
    <3> QED BY <2>8, <2>9, <3>1 DEF ServedInv, SentIsCarried, row
  <2> QED BY <1>1, <2>10, <2>11, <2>12, WorkerServes
<1> QED BY <1>1, <1>4, <1>5

(***************************************************************************)
(* What a step of the engine has to show: the database and the outbox stay *)
(* as they are.                                                            *)
(***************************************************************************)
LEMMA EngineServes ==
    ASSUME ServedInv, EngineFrame, engine' = "live",
           CopiesAreApplied', AppliedIsServed', NoCurrentPause',
           \A s \in Range(recent) : Carried(s) => Carried(s)'
    PROVE  ServedInv'
<1>1. /\ version' = version /\ recent' = recent /\ pending' = pending
      /\ batch' = batch /\ sent' = sent
  BY DEF EngineFrame, dbVars, workerVars
<1>2. \A r, s : Announces(r, s)' <=> Announces(r, s)
  BY <1>1 DEF Announces
<1>3. NoCurrentPauseRow'
  BY <1>1 DEF ServedInv, NoCurrentPauseRow
<1>4. ActiveIsCarried' /\ SentIsCarried'
  BY <1>1, <1>2 DEF ServedInv, ActiveIsCarried, SentIsCarried
<1> QED BY <1>3, <1>4 DEF ServedInv

(***************************************************************************)
(* The offset commit drops what was consumed and renumbers the rest.       *)
(***************************************************************************)
LEMMA CommitServes ==
    ASSUME PipelineInv, ServedInv, NEW q \in Partitions, CommitOffsets(q)
    PROVE  ServedInv'
<1>1. /\ EngineFrame /\ UNCHANGED storeVars /\ engine' = engine
      /\ version' = version /\ recent' = recent
      /\ topic' = [topic EXCEPT ![q] = SubSeq(topic[q], pos[q] + 1, Len(topic[q]))]
      /\ pos' = [pos EXCEPT ![q] = 0]
  BY DEF CommitOffsets, EngineFrame, engineVars, dbVars, bounds
<1>2. /\ topic \in [Partitions -> Seq(Messages)] /\ pos \in [Partitions -> Nat]
      /\ \A p \in Partitions : pos[p] <= Len(topic[p])
  BY DEF PipelineInv, TypeOK
<1>3. /\ topic'[q] = SubSeq(topic[q], pos[q] + 1, Len(topic[q])) /\ pos'[q] = 0
      /\ \A p \in Partitions : p # q => topic'[p] = topic[p] /\ pos'[p] = pos[p]
  BY <1>1, <1>2
<1>4. /\ Len(topic[q]) \in Nat /\ pos[q] \in Nat /\ pos[q] <= Len(topic[q])
      /\ Len(topic'[q]) = Len(topic[q]) - pos[q]
      /\ \A i \in 1..Len(topic'[q]) : topic'[q][i] = topic[q][pos[q] + i]
  <2>1. /\ topic[q] \in Seq(Messages) /\ pos[q] \in Nat /\ pos[q] <= Len(topic[q])
        /\ Len(topic[q]) \in Nat
    BY <1>2
  <2>2. pos[q] + 1 \in 1..Len(topic[q]) + 1
    BY <2>1
  <2>3. /\ Len(SubSeq(topic[q], pos[q] + 1, Len(topic[q]))) = Len(topic[q]) - pos[q]
        /\ \A i \in 1..Len(topic[q]) - pos[q] :
              SubSeq(topic[q], pos[q] + 1, Len(topic[q]))[i] = topic[q][pos[q] + i]
    BY <2>1, <2>2
  <2> QED BY <1>3, <2>1, <2>3
<1>5. /\ \A x, s : Carries(x, s)' <=> Carries(x, s)
      /\ \A x : PausesNoActiveRow(x)' <=> PausesNoActiveRow(x)
  BY <1>1 DEF Carries, PausesNoActiveRow
<1>6. ASSUME NEW s, Carried(s) PROVE Carried(s)'
  <2>1. CASE active[s] = version[s]
    BY <1>1, <2>1 DEF Carried, storeVars
  <2>2. ASSUME NEW p \in Partitions, NEW i \in 1..Len(topic[p]), i > pos[p],
               Carries(topic[p][i], s)
        PROVE  Carried(s)'
    <3>1. CASE p # q
      BY <1>3, <1>5, <2>2, <3>1 DEF Carried
    <3>2. CASE p = q
      <4>1. i - pos[q] \in 1..Len(topic'[q]) /\ i - pos[q] > pos'[q] /\ pos[q] + (i - pos[q]) = i
        BY <1>3, <1>4, <2>2, <3>2
      <4>2. topic'[q][i - pos[q]] = topic[q][i]
        BY <1>4, <4>1
      <4> QED BY <1>5, <2>2, <3>2, <4>1, <4>2 DEF Carried
    <3> QED BY <3>1, <3>2
  <2> QED BY <1>6, <2>1, <2>2 DEF Carried
<1>7. NoCurrentPause'
  <2> SUFFICES ASSUME NEW p \in Partitions, NEW i \in 1..Len(topic'[p])
               PROVE  PausesNoActiveRow(topic'[p][i])
    BY <1>5 DEF NoCurrentPause
  <2>1. \E j \in 1..Len(topic[p]) : topic'[p][i] = topic[p][j]
    <3>1. CASE p # q
      BY <1>3, <3>1
    <3>2. CASE p = q
      <4>1. pos[q] + i \in 1..Len(topic[q])
        BY <1>4, <3>2
      <4> QED BY <1>4, <3>2, <4>1
    <3> QED BY <3>1, <3>2
  <2> QED BY <2>1 DEF ServedInv, NoCurrentPause
<1>8. CopiesAreApplied' /\ AppliedIsServed'
  BY <1>1 DEF ServedInv, CopiesAreApplied, AppliedIsServed, storeVars
<1> QED
  BY <1>1, <1>6, <1>7, <1>8, EngineServes DEF ServedInv

(***************************************************************************)
(* The consumer.  A pause that is applied to an active row is older than   *)
(* the row; a delete concerns a row that is not active; and an upsert with *)
(* the row's version is applied, or finds that version served already:     *)
(* a stored copy is never later than the row, and a paused copy is older   *)
(* than the version that was applied last.                                 *)
(***************************************************************************)
LEMMA ConsumeServes ==
    ASSUME PipelineInv, IInv, ServedInv, NEW q \in Partitions, Consume(q)
    PROVE  ServedInv'
<1>1. /\ EngineFrame /\ engine' = engine /\ topic' = topic
      /\ version' = version /\ recent' = recent
      /\ pos' = [pos EXCEPT ![q] = pos[q] + 1] /\ pos[q] < Len(topic[q])
      /\ Handle(topic[q][pos[q] + 1])
  BY DEF Consume, EngineFrame, engineVars, dbVars, bounds
<1>2. pos \in [Partitions -> Nat] /\ StoreTypeOK /\ Len(topic[q]) \in Nat
  BY DEF PipelineInv, TypeOK
<1>m. PICK m : m = topic[q][pos[q] + 1]
  OBVIOUS
<1>3. m \in Messages /\ MessageSound(m)
  BY <1>1, <1>m, NextMessage
<1>4. Handle(m) /\ PausesNoActiveRow(m)
  <2>1. pos[q] + 1 \in 1..Len(topic[q])
    BY <1>1, <1>2
  <2> QED BY <1>1, <1>m, <2>1 DEF ServedInv, NoCurrentPause
<1>5. /\ m.s \in Strategies /\ m.v \in Nat \ {0} /\ m.v <= version[m.s]
      /\ m.type = "CONFIG_DELETED" => m.s \notin Range(recent)
  <2>1. m.s \in Strategies /\ m.v \in Nat /\ version[m.s] \in Nat
    BY <1>3 DEF Messages, PipelineInv, TypeOK
  <2>2. m.v # 0 /\ m.v <= version[m.s]
    BY <1>3, <2>1 DEF MessageSound, Delivery!LiveVersion, Delivery!DeleteVersion
  <2>3. m.type = "CONFIG_DELETED" => deletedAt[m.s] # 0
    BY <1>3 DEF MessageSound, Delivery!DeleteVersion
  <2> QED BY <2>1, <2>2, <2>3, ActiveRowFacts
<1> DEFINE Upserted ==
             /\ m.type \in UpsertTypes /\ StoredVersion(m.s) < m.v /\ ~Stale(m.s, m.v)
             /\ active' = [active EXCEPT ![m.s] = m.v]
             /\ paused' = [paused EXCEPT ![m.s] = 0]
             /\ versions' = [versions EXCEPT ![m.s] = m.v]
           Ignored == m.type \in UpsertTypes => StoredVersion(m.s) >= m.v \/ Stale(m.s, m.v)
           Paused ==
             /\ m.type = "CONFIG_PAUSED" /\ ~Stale(m.s, m.v) /\ active[m.s] # 0
             /\ paused' = [paused EXCEPT ![m.s] = active[m.s]]
             /\ active' = [active EXCEPT ![m.s] = 0]
             /\ versions' = [versions EXCEPT ![m.s] = m.v]
           Deleted ==
             /\ m.type = "CONFIG_DELETED"
             /\ versions' = [versions EXCEPT ![m.s] = m.v]
             /\ active' = [active EXCEPT ![m.s] = 0]
             /\ paused' = [paused EXCEPT ![m.s] = 0]
<1>6. Upserted \/ Paused \/ Deleted \/ (Ignored /\ UNCHANGED storeVars)
  BY <1>4 DEF Handle, ApplyUpsert, ApplyPause, ApplyDelete, UpsertTypes
<1>7. ASSUME NEW s \in Strategies, s # m.s
      PROVE  active'[s] = active[s] /\ paused'[s] = paused[s] /\ versions'[s] = versions[s]
  BY <1>2, <1>6, <1>7 DEF StoreTypeOK, storeVars
<1>8. /\ {active[m.s], paused[m.s], versions[m.s], tombstones[m.s]} \subseteq Nat
      /\ active[m.s] # 0 => active[m.s] <= versions[m.s]
      /\ paused[m.s] # 0 => paused[m.s] < versions[m.s]
  BY <1>2, <1>5 DEF StoreTypeOK, ServedInv, CopiesAreApplied
<1>9. CopiesAreApplied'
  <2> SUFFICES ASSUME NEW s \in Strategies
               PROVE  /\ active'[s] # 0 => active'[s] <= versions'[s]
                      /\ paused'[s] # 0 => paused'[s] < versions'[s]
    BY DEF CopiesAreApplied
  <2>1. CASE s # m.s
    BY <1>7, <2>1 DEF ServedInv, CopiesAreApplied
  <2>2. CASE s = m.s
    <3>1. CASE Upserted
      BY <1>2, <1>5, <2>2, <3>1 DEF StoreTypeOK
    <3>2. CASE Paused
      <4>1. active'[s] = 0 /\ paused'[s] = active[s] /\ versions'[s] = m.v
        BY <1>2, <1>5, <2>2, <3>2 DEF StoreTypeOK
      <4>2. versions[s] < m.v
        BY <1>5, <1>8, <2>2, <3>2 DEF Stale
      <4> QED BY <1>5, <1>8, <2>2, <4>1, <4>2
    <3>3. CASE Deleted
      BY <1>2, <1>5, <2>2, <3>3 DEF StoreTypeOK
    <3>4. CASE UNCHANGED storeVars
      BY <1>8, <2>2, <3>4 DEF storeVars
    <3> QED BY <1>6, <3>1, <3>2, <3>3, <3>4
  <2> QED BY <2>1, <2>2
<1>10. AppliedIsServed'
  <2> SUFFICES ASSUME NEW s \in Range(recent), versions'[s] = version[s]
               PROVE  active'[s] = version[s]
    BY <1>1 DEF AppliedIsServed
  <2>0. s \in Strategies
    BY ActiveRowFacts
  <2>1. CASE s # m.s
    BY <1>7, <2>0, <2>1 DEF ServedInv, AppliedIsServed
  <2>2. CASE s = m.s
    <3>1. CASE Upserted
      BY <1>2, <1>5, <2>2, <3>1 DEF StoreTypeOK
    <3>2. CASE Paused
      <4>1. versions'[s] = m.v
        BY <1>2, <1>5, <2>2, <3>2 DEF StoreTypeOK
      <4> QED BY <1>4, <2>2, <3>2, <4>1 DEF PausesNoActiveRow
    <3>3. CASE Deleted
      BY <1>5, <2>2, <3>3
    <3>4. CASE UNCHANGED storeVars
      BY <3>4 DEF storeVars, ServedInv, AppliedIsServed
    <3> QED BY <1>6, <3>1, <3>2, <3>3, <3>4
  <2> QED BY <2>1, <2>2
<1>11. NoCurrentPause'
  BY <1>1 DEF ServedInv, NoCurrentPause, PausesNoActiveRow
<1>12. ASSUME NEW s \in Range(recent), active[s] = version[s]
       PROVE  active'[s] = version[s]
  <2>0. /\ s \in Strategies /\ version[s] \in Nat \ {0} /\ versions[s] \in Nat
        /\ active[s] <= versions[s]
    BY <1>12, ActiveRowFacts DEF ServedInv, CopiesAreApplied
  <2>1. CASE s # m.s
    BY <1>7, <1>12, <2>0, <2>1
  <2>2. CASE s = m.s
    <3>1. Stale(m.s, m.v)
      BY <1>5, <1>12, <2>0, <2>2 DEF Stale
    <3>2. UNCHANGED storeVars
      BY <1>5, <1>6, <2>2, <3>1
    <3> QED BY <1>12, <3>2 DEF storeVars
  <2> QED BY <2>1, <2>2
<1>13. ASSUME NEW s \in Range(recent), Carries(m, s)
       PROVE  active'[s] = version[s]
  <2>0. /\ s \in Strategies /\ version[s] \in Nat \ {0}
        /\ {active[s], paused[s], versions[s]} \subseteq Nat
        /\ versions[s] <= version[s] /\ tombstones[s] = 0
        /\ active[s] <= version[s] /\ paused[s] <= version[s]
    BY ActiveRowFacts
  <2>1. m.s = s /\ m.v = version[s] /\ m.type \in UpsertTypes
    BY <1>13 DEF Carries
  <2>2. CASE Upserted
    BY <1>2, <2>0, <2>1, <2>2 DEF StoreTypeOK
  <2>3. CASE Ignored /\ UNCHANGED storeVars
    <3>1. CASE StoredVersion(s) >= version[s]
      BY <1>8, <1>12, <2>0, <2>1, <3>1 DEF StoredVersion
    <3>2. CASE Stale(s, version[s])
      <4>1. versions[s] = version[s]
        BY <2>0, <3>2 DEF Stale
      <4> QED BY <1>12, <4>1 DEF ServedInv, AppliedIsServed
    <3> QED BY <2>1, <2>3, <3>1, <3>2
  <2> QED BY <1>6, <2>1, <2>2, <2>3 DEF UpsertTypes
<1>14. ASSUME NEW s \in Range(recent), Carried(s)
       PROVE  Carried(s)'
  <2>0. \A x : Carries(x, s)' <=> Carries(x, s)
    BY <1>1 DEF Carries
  <2>1. CASE active[s] = version[s]
    BY <1>1, <1>12, <2>1 DEF Carried
  <2>2. ASSUME NEW p \in Partitions, NEW i \in 1..Len(topic[p]), i > pos[p],
               Carries(topic[p][i], s)
        PROVE  Carried(s)'
    <3>1. CASE p = q /\ i = pos[q] + 1
      BY <1>1, <1>m, <1>13, <2>2, <3>1 DEF Carried
    <3>2. CASE ~(p = q /\ i = pos[q] + 1)
      <4>1. i > pos'[p]
        BY <1>1, <1>2, <2>2, <3>2
      <4> QED BY <1>1, <2>0, <2>2, <4>1 DEF Carried
    <3> QED BY <3>1, <3>2
  <2> QED BY <1>14, <2>1, <2>2 DEF Carried
<1> QED
  BY <1>1, <1>9, <1>10, <1>11, <1>14, EngineServes DEF ServedInv

(***************************************************************************)
(* One step, while the engine has not restarted.                           *)
(***************************************************************************)
LEMMA ServedStep ==
    PipelineInv /\ IInv /\ (restarts = 0 => ServedInv) /\ [Next]_vars
        => (restarts = 0 => ServedInv)'
<1> SUFFICES ASSUME PipelineInv, IInv, restarts = 0 => ServedInv, [Next]_vars, restarts' = 0
             PROVE  ServedInv'
  OBVIOUS
<1>1. restarts \in Nat
  BY PipelineAssumption DEF PipelineInv, TypeOK
<1>2. ~RestartEngine
  BY <1>1 DEF RestartEngine
<1>3. restarts' = restarts
  BY <1>2 DEF Next, UserConfig, OutboxWorker, RulesEngine, Create, Update, Activate,
       Deactivate, Delete, DeactivateActive, Transaction, ListPending, Publish,
       PublishFails, TranslateFails, MarkProcessed, Abandon, FetchPage, FetchLastPage,
       Consume, CommitOffsets, bounds, vars
<1>4. ServedInv
  BY <1>3
<1>5. CASE UNCHANGED vars
  <2>1. EngineFrame /\ UNCHANGED <<storeVars, kafkaVars, engineVars>>
    BY <1>5 DEF vars, EngineFrame, bounds
  <2>2. /\ version' = version /\ recent' = recent /\ topic' = topic /\ pos' = pos
        /\ engine' = engine /\ active' = active /\ paused' = paused /\ versions' = versions
    BY <2>1 DEF EngineFrame, dbVars, kafkaVars, engineVars, storeVars
  <2>3. \A s : Carried(s)' <=> Carried(s)
    BY <2>2 DEF Carried, Carries
  <2>4. CopiesAreApplied' /\ AppliedIsServed' /\ NoCurrentPause'
    BY <1>4, <2>2 DEF ServedInv, CopiesAreApplied, AppliedIsServed, NoCurrentPause,
         PausesNoActiveRow
  <2> QED BY <1>4, <2>1, <2>2, <2>3, <2>4, EngineServes DEF ServedInv
<1>6. CASE UserConfig
  BY <1>4, <1>6, UserConfigRecorded, TransactionServes
<1>7. CASE OutboxWorker
  BY <1>4, <1>7, QuietWorkerServes, PublishServes DEF OutboxWorker
<1>8. CASE RulesEngine
  <2>1. ~FetchPage /\ ~FetchLastPage
    BY <1>4 DEF ServedInv, FetchPage, FetchLastPage
  <2> QED BY <1>2, <1>4, <1>8, <2>1, ConsumeServes, CommitServes DEF RulesEngine
<1> QED
  BY <1>5, <1>6, <1>7, <1>8 DEF Next

(***************************************************************************)
(* Until the engine restarts, once everything was delivered an active row  *)
(* is served at its version, in whatever order its events arrived and      *)
(* however often, for any number of strategies and partitions.  (After a   *)
(* restart the paged bootstrap may skip a row: there TLC checks the cases  *)
(* of the runs.)                                                           *)
(***************************************************************************)
THEOREM ActiveRowsAreServed == Spec => [](restarts = 0 => ActiveRowsServed)
<1>1. Init => (restarts = 0 => ServedInv)
  <2> SUFFICES ASSUME Init PROVE ServedInv
    OBVIOUS
  <2>1. Range(recent) = {} /\ Range(pending) = {} /\ Range(batch) = {}
    BY DEF Init, Range
  <2> QED BY <2>1 DEF Init, StoreInit, Empty, ServedInv, CopiesAreApplied,
          AppliedIsServed, NoCurrentPauseRow, NoCurrentPause, ActiveIsCarried,
          SentIsCarried
<1>2. PipelineInv /\ (restarts = 0 => ServedInv) => (restarts = 0 => ActiveRowsServed)
  <2> SUFFICES ASSUME PipelineInv, ServedInv, Drained, NEW s \in Range(recent)
               PROVE  active[s] = version[s]
    BY DEF ActiveRowsServed
  <2>1. Range(pending) = {} /\ \A p \in Partitions : pos[p] = Len(topic[p])
    BY DEF Drained, Range
  <2>2. Carried(s)
    BY <2>1 DEF ServedInv, ActiveIsCarried
  <2>3. \A p \in Partitions : Len(topic[p]) \in Nat
    BY DEF PipelineInv, TypeOK
  <2> QED BY <2>1, <2>2, <2>3 DEF Carried
<1>3. Spec => []IInv
  BY PipelineDelivers, Invariance DEF ImplementsDelivery
<1> QED
  BY <1>1, <1>2, <1>3, PipelineInvariance, ServedStep, PTL DEF Spec
=============================================================================
