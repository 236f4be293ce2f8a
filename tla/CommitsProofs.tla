--------------------------- MODULE CommitsProofs ---------------------------
(***************************************************************************)
(* Proofs about the conflict check: it misses no double use of an index,   *)
(* for all vectors of indexes and histories of any length.                 *)
(***************************************************************************)
EXTENDS Commits, TLAPS

USE IndexesAssumption

(* Two intervals with a common number reach into one another. *)
LEMMA IntervalsMeet ==
  \A k, l, m, o \in Nat : \A n : n \in k..l /\ n \in m..o => o >= k /\ m <= l
  OBVIOUS

(* Two vectors that lock a common index overlap. *)
LEMMA SharedIndexOverlaps ==
  ASSUME NEW stored \in Indexes, NEW indexes \in Indexes,
         Locked(stored) \cap Locked(indexes) # {}
  PROVE  Overlap(stored, indexes)
<1>1. PICK n : n \in Locked(stored) /\ n \in Locked(indexes)
  OBVIOUS
<1>2. PICK i \in DOMAIN stored : i % 2 = 0 /\ n \in stored[i - 1]..stored[i]
  BY <1>1 DEF Locked
<1>3. PICK j \in DOMAIN indexes : j % 2 = 0 /\ n \in indexes[j - 1]..indexes[j]
  BY <1>1 DEF Locked
<1>4. /\ stored \in Seq(Nat) /\ indexes \in Seq(Nat)
      /\ i \in 1..Len(stored) /\ j \in 1..Len(indexes)
  OBVIOUS
<1>5. j > 1 /\ i > 1
  <2>1. 1 % 2 # 0
    OBVIOUS
  <2>2. i # 1 /\ j # 1
    BY <1>2, <1>3, <2>1, Zenon
  <2> QED BY <1>4, <2>2
<1>6. /\ stored[i - 1] \in Nat /\ stored[i] \in Nat
      /\ indexes[j - 1] \in Nat /\ indexes[j] \in Nat
  BY <1>4, <1>5
<1>7. n \in stored[i - 1]..stored[i] /\ n \in indexes[j - 1]..indexes[j]
  BY <1>2, <1>3
<1>8. indexes[j] >= stored[i - 1] /\ indexes[j - 1] <= stored[i]
  BY <1>6, <1>7, IntervalsMeet, Zenon
<1> QED BY <1>2, <1>5, <1>8 DEF Overlap

(* The history holds commits. *)
THEOREM TypeCorrect == Spec => []TypeOK
<1>1. Init => TypeOK
  BY DEF Init, TypeOK
<1>2. TypeOK /\ [Next]_history => TypeOK'
  <2> SUFFICES ASSUME TypeOK, [Next]_history PROVE TypeOK'
    OBVIOUS
  <2>1. ASSUME NEW c \in CommitRecord, AddNewCommits(c) PROVE TypeOK'
    BY <2>1 DEF TypeOK, AddNewCommits
  <2>2. ASSUME NEW id \in Id, UpdateInvalidatingSignature(id) PROVE TypeOK'
    <3>1. ASSUME NEW c \in CommitRecord PROVE [c EXCEPT !.invalidated = TRUE] \in CommitRecord
      BY DEF CommitRecord
    <3> QED BY <2>2, <3>1 DEF TypeOK, UpdateInvalidatingSignature
  <2> QED BY <2>1, <2>2 DEF Next, TypeOK
<1> QED BY <1>1, <1>2, PTL DEF Spec

(* An index that a binding commit locks is found to be in conflict. *)
LEMMA BindingFound ==
  ASSUME TypeOK, NEW c \in history, Binding(c),
         NEW indexes \in Indexes, Locked(c.indexes) \cap Locked(indexes) # {}
  PROVE  AreIndexesInConflict(indexes)
<1>1. c.indexes \in Indexes
  BY DEF TypeOK, CommitRecord
<1> QED BY <1>1, SharedIndexOverlaps DEF AreIndexesInConflict

(* No history and no vector hide a double use of an index from             *)
(* are_indexes_in_conflict.                                                *)
THEOREM DoubleUseFound == Spec => []ConflictFound
<1>1. TypeOK => ConflictFound
  <2> SUFFICES ASSUME TypeOK, NEW indexes \in Indexes, NEW c \in StillLocked,
                      Locked(c.indexes) \cap Locked(indexes) # {}
               PROVE  AreIndexesInConflict(indexes)
    BY DEF ConflictFound
  <2>1. c \in history /\ Binding(c)
    BY DEF StillLocked, Binding, TypeOK, CommitRecord
  <2> QED BY <2>1, BindingFound
<1> QED BY <1>1, TypeCorrect, PTL

(* Ranges in order that reach into one another have a common number. *)
LEMMA InOrderMeet ==
  \A k, l, m, o \in Nat : k <= l /\ m <= o /\ o >= k /\ m <= l =>
    \E n \in Nat : n \in k..l /\ n \in m..o
<1> SUFFICES ASSUME NEW k \in Nat, NEW l \in Nat, NEW m \in Nat, NEW o \in Nat,
                    k <= l, m <= o, o >= k, m <= l
             PROVE  \E n \in Nat : n \in k..l /\ n \in m..o
  OBVIOUS
<1>1. CASE k <= m
  <2>1. m \in k..l /\ m \in m..o
    BY <1>1
  <2> QED BY <2>1
<1>2. CASE ~(k <= m)
  <2>1. k \in k..l /\ k \in m..o
    BY <1>2
  <2> QED BY <2>1
<1> QED BY <1>1, <1>2

(* Vectors in order overlap only where the one reaches what the other locks. *)
LEMMA OverlapWithinSpan ==
  ASSUME NEW stored \in Indexes, NEW indexes \in Indexes,
         InOrder(stored), InOrder(indexes), Overlap(stored, indexes)
  PROVE  Locked(stored) \cap Spanned(indexes) # {}
<1>1. PICK i \in DOMAIN stored, j \in DOMAIN indexes :
        /\ i % 2 = 0 /\ j > 1
        /\ indexes[j] >= stored[i - 1] /\ indexes[j - 1] <= stored[i]
  BY DEF Overlap
<1>2. /\ stored \in Seq(Nat) /\ indexes \in Seq(Nat)
      /\ i \in 1..Len(stored) /\ j \in 1..Len(indexes)
  OBVIOUS
<1>3. i \in 2..Len(stored) /\ j \in 2..Len(indexes)
  <2>1. 1 % 2 # 0
    OBVIOUS
  <2>2. i # 1
    BY <1>1, <2>1, Zenon
  <2> QED BY <1>1, <1>2, <2>2
<1>4. /\ stored[i - 1] \in Nat /\ stored[i] \in Nat
      /\ indexes[j - 1] \in Nat /\ indexes[j] \in Nat
  <2>1. i > 1 /\ j > 1
    BY <1>2, <1>3
  <2> QED BY <1>2, <2>1
<1>5. stored[i - 1] <= stored[i] /\ indexes[j - 1] <= indexes[j]
  <2>1. stored[i] >= stored[i - 1] /\ indexes[j] >= indexes[j - 1]
    BY <1>3, Zenon DEF InOrder
  <2> QED BY <1>4, <2>1
<1>6. PICK n : n \in stored[i - 1]..stored[i] /\ n \in indexes[j - 1]..indexes[j]
  BY <1>1, <1>4, <1>5, InOrderMeet
<1>7. n \in Locked(stored)
  BY <1>1, <1>2, <1>6, Zenon DEF Locked
<1>8. n \in Spanned(indexes)
  <2>1. indexes[j - 1]..indexes[j] \in {indexes[k - 1]..indexes[k] : k \in 2..Len(indexes)}
    BY <1>3
  <2>2. n \in UNION {indexes[k - 1]..indexes[k] : k \in 2..Len(indexes)}
    BY <1>6, <2>1
  <2> QED BY <2>2 DEF Spanned
<1> QED BY <1>7, <1>8

(* A commit that passes is_commit_valid is held in conflict only for an     *)
(* index within its span, or for a stored vector nobody checked.           *)
THEOREM AlarmsJustified == Spec => []AlarmWithinSpan
<1>1. TypeOK => AlarmWithinSpan
  <2> SUFFICES ASSUME TypeOK, NEW indexes \in Indexes, AreIndexesInConflict(indexes),
                      NEW commit \in Signed, NEW trade \in TradeView,
                      IsCommitValid(indexes, commit, trade)
               PROVE  \E c \in StillLocked :
                        \/ Locked(c.indexes) \cap Spanned(indexes) # {}
                        \/ ~InOrder(c.indexes)
    BY DEF AlarmWithinSpan
  <2>1. PICK c \in history : Binding(c) /\ Overlap(c.indexes, indexes)
    BY DEF AreIndexesInConflict
  <2>2. c \in StillLocked /\ c.indexes \in Indexes
    BY <2>1 DEF StillLocked, Binding, TypeOK, CommitRecord
  <2>3. InOrder(indexes)
    BY DEF IsCommitValid
  <2> QED BY <2>1, <2>2, <2>3, OverlapWithinSpan
<1> QED BY <1>1, TypeCorrect, PTL

(* No invalidating signature frees what a T2 commit locks. *)
THEOREM T2Lasts == Spec => T2StaysLocked
<1> DEFINE Lasts ==
      \A indexes \in Indexes : \A c \in history :
        c.type = "T2" /\ Locked(c.indexes) \cap Locked(indexes) # {}
          => AreIndexesInConflict(indexes)'
<1>1. TypeOK /\ TypeOK' /\ Next => Lasts
  <2> SUFFICES ASSUME TypeOK, TypeOK', Next, NEW indexes \in Indexes, NEW c \in history,
                      c.type = "T2", Locked(c.indexes) \cap Locked(indexes) # {}
               PROVE  AreIndexesInConflict(indexes)'
    OBVIOUS
  <2>1. \E d \in history' : d.indexes = c.indexes /\ d.type = "T2"
    <3>1. ASSUME NEW e \in CommitRecord, AddNewCommits(e)
          PROVE  \E d \in history' : d.indexes = c.indexes /\ d.type = "T2"
      BY <3>1 DEF AddNewCommits
    <3>2. ASSUME NEW id \in Id, UpdateInvalidatingSignature(id)
          PROVE  \E d \in history' : d.indexes = c.indexes /\ d.type = "T2"
      <4> DEFINE d == IF c.u = id THEN [c EXCEPT !.invalidated = TRUE] ELSE c
      <4>1. d \in history'
        BY <3>2 DEF UpdateInvalidatingSignature
      <4>2. d.indexes = c.indexes /\ d.type = "T2"
        BY DEF TypeOK, CommitRecord
      <4> QED BY <4>1, <4>2
    <3> QED BY <3>1, <3>2 DEF Next
  <2>2. PICK d \in history' : d.indexes = c.indexes /\ d.type = "T2"
    BY <2>1
  <2>3. d.indexes \in Indexes
    BY <2>2 DEF TypeOK, CommitRecord
  <2>4. Overlap(d.indexes, indexes)
    BY <2>2, <2>3, SharedIndexOverlaps
  <2> QED BY <2>2, <2>4 DEF AreIndexesInConflict, Binding
<1>2. TypeOK /\ TypeOK' /\ [Next]_history => [Lasts]_history
  BY <1>1
<1> QED BY <1>2, TypeCorrect, PTL DEF Spec, T2StaysLocked
=============================================================================
