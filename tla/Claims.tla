------------------------------- MODULE Claims -------------------------------
(***************************************************************************)
(* What the wallet promises about the indexes its owner commits, without   *)
(* signatures, amounts or time: an index can be used once in an epoch, and *)
(* a commitment not used when the next epoch starts is void.               *)
(***************************************************************************)
EXTENDS Naturals

CONSTANT Index

VARIABLES
  epoch,      \* the epoch whose indexes can be used
  redeemed,   \* claims paid out; a claim is an index of an epoch
  setAside    \* claims taken out of use until somebody contests that

claimVars == <<epoch, redeemed, setAside>>

Usable == (Index \X {epoch}) \ (redeemed \cup setAside)

Init == epoch = 0 /\ redeemed = {} /\ setAside = {}

NextEpoch ==
  /\ epoch' = epoch + 1
  /\ UNCHANGED <<redeemed, setAside>>

(* Redeeming is for good. *)
Redeem ==
  /\ \E S \in SUBSET Usable : redeemed' = redeemed \cup S
  /\ UNCHANGED <<epoch, setAside>>

SetAside ==
  /\ \E S \in SUBSET Usable : setAside' = setAside \cup S
  /\ UNCHANGED <<epoch, redeemed>>

Contest ==
  /\ \E S \in SUBSET setAside : setAside' = setAside \ S
  /\ UNCHANGED <<epoch, redeemed>>

Next == NextEpoch \/ Redeem \/ SetAside \/ Contest

Spec == Init /\ [][Next]_claimVars
=============================================================================
