------------------------------ MODULE Commits ------------------------------
(***************************************************************************)
(* The two checks storage.rs makes on a received commit: is_commit_valid on *)
(* the commit itself, and are_indexes_in_conflict on its indexes against   *)
(* the wallet's history, which changes by add_new_commits and              *)
(* update_invalditing_signature.                                           *)
(*                                                                         *)
(* indexes is a vector whose consecutive values, taken in twos, are ranges *)
(* of indexes of the wallet's reserves: the funds a commit locks.          *)
(***************************************************************************)
EXTENDS Naturals, Sequences, FiniteSets

CONSTANTS
  Indexes,     \* the vectors of indexes a commit may carry
  Id,          \* trade ids
  Owner, Self, \* the owner of the wallet; the node that checks
  MaxCommits   \* bound on the commits of the history

ASSUME IndexesAssumption == Indexes \subseteq Seq(Nat)
ASSUME MaxAssumption == MaxCommits \in Nat

VARIABLE history   \* CommitHistory.commits of one wallet; no check reads the
                   \* order, nor does a commit stored twice change any

CommitRecord == [indexes: Indexes, u: Id, type: {"T1", "T2"}, invalidated: BOOLEAN]

(* What else of a received commit is_commit_valid reads; "none" stands for a *)
(* signature that is missing or that nobody made.                          *)
Signed == [u: Id, signer: {Owner, Self, "none"}, iAddress: {Owner, Self}]

(* The trade a commit is checked for, at a node that waits or does not.    *)
Waiting == {"WaitingRT1Commit", "WaitingPT1Commit", "WaitingRT2Commit"}
TradeView == [id: Id, isRequester: BOOLEAN, status: Waiting \cup {"PSendT1Commit"}]

-----------------------------------------------------------------------------
InOrder(indexes) == \A i \in 2..Len(indexes) : indexes[i] >= indexes[i - 1]

(* Slip: the order of the indexes is not looked at. *)
IsCommitValidAnyOrder(indexes, commit, trade) ==
  /\ commit.u = trade.id
  /\ commit.signer = Owner
  /\ commit.iAddress = IF trade.isRequester THEN Self ELSE Owner
  /\ trade.status \in Waiting

IsCommitValid(indexes, commit, trade) ==
  /\ InOrder(indexes)
  /\ commit.u = trade.id
  /\ commit.signer = Owner
  /\ commit.iAddress = IF trade.isRequester THEN Self ELSE Owner
  /\ trade.status \in Waiting

(* Slip: the ranges of the history are taken from the second value on. *)
OverlapShifted(stored, indexes) ==
  \E i \in DOMAIN stored, j \in DOMAIN indexes :
    /\ i % 2 = 1 /\ i > 1 /\ j > 1
    /\ indexes[j] >= stored[i - 1] /\ indexes[j - 1] <= stored[i]

(* The loops of are_indexes_in_conflict, over vectors that start at 1: the  *)
(* stored one in steps of two, the received one in steps of one.           *)
Overlap(stored, indexes) ==
  \E i \in DOMAIN stored, j \in DOMAIN indexes :
    /\ i % 2 = 0 /\ j > 1
    /\ indexes[j] >= stored[i - 1] /\ indexes[j - 1] <= stored[i]

(* Slip: the type of the commit is not looked at. *)
BindingAnyType(c) == ~c.invalidated

(* A T1 commit with its invalidating signature no longer binds its indexes. *)
Binding(c) == ~(c.type = "T1" /\ c.invalidated)

AreIndexesInConflict(indexes) ==
  \E c \in history : Binding(c) /\ Overlap(c.indexes, indexes)

-----------------------------------------------------------------------------
(* The loaded commits are stored whatever their indexes are. *)
AddNewCommits(c) ==
  /\ Cardinality(history \cup {c}) <= MaxCommits
  /\ history' = history \cup {c}

UpdateInvalidatingSignature(id) ==
  history' = {IF c.u = id THEN [c EXCEPT !.invalidated = TRUE] ELSE c : c \in history}

Init == history = {}

Next ==
  \/ \E c \in CommitRecord : AddNewCommits(c)
  \/ \E id \in Id : UpdateInvalidatingSignature(id)

Spec == Init /\ [][Next]_history

-----------------------------------------------------------------------------
(* The indexes a commit locks: those within its ranges, one for every two   *)
(* values.                                                                 *)
Locked(indexes) ==
  UNION {indexes[i - 1]..indexes[i] : i \in {k \in DOMAIN indexes : k % 2 = 0}}

(* The indexes a vector reaches from its first range to its last: those of  *)
(* its ranges and those between them.                                      *)
Spanned(indexes) == UNION {indexes[i - 1]..indexes[i] : i \in 2..Len(indexes)}

(* The commits of the history whose funds are still locked. *)
StillLocked == {c \in history : c.type = "T2" \/ ~c.invalidated}

(* Type invariant: the history holds commits. *)
TypeOK == history \subseteq CommitRecord

(* A wallet that commits the same index twice is found out, whatever the    *)
(* vectors look like: no index of a commit that binds is taken as free.    *)
ConflictFound ==
  \A indexes \in Indexes : \A c \in StillLocked :
    Locked(c.indexes) \cap Locked(indexes) # {} => AreIndexesInConflict(indexes)

(* A valid commit is held in conflict for nothing that lies outside it: if  *)
(* it is, an index between its first and its last is locked already, or     *)
(* the history holds a vector out of order, which is_commit_valid refuses   *)
(* and a load stores unchecked.  Not a narrower statement: the indexes      *)
(* between two ranges of the received commit count as its own.             *)
AlarmWithinSpan ==
  \A indexes \in Indexes :
    AreIndexesInConflict(indexes) =>
      \/ \E c \in StillLocked :
           Locked(c.indexes) \cap Spanned(indexes) # {} \/ ~InOrder(c.indexes)
      \/ \A commit \in Signed, trade \in TradeView :
           ~IsCommitValid(indexes, commit, trade)

(* What a T2 commit locks stays locked through any invalidating signature:  *)
(* the signature is what makes a T2 commit redeemable.                     *)
T2StaysLocked ==
  [][\A indexes \in Indexes : \A c \in history :
       c.type = "T2" /\ Locked(c.indexes) \cap Locked(indexes) # {}
         => AreIndexesInConflict(indexes)']_history

=============================================================================
