------------------------------ MODULE MCWallet ------------------------------
(* Small wallets: two indexes, committed to two peers at once.  One owner   *)
(* lock, one lock of alice's, and payments to alice and to bob for the same *)
(* index; the owner and alice have signed u1, nobody signs another id.      *)
EXTENDS Wallet

CONSTANTS alice, bob, u1

(* Signatures the contract can recover: s starts with the byte of v. *)
Sign(by, over) == [by |-> by, over |-> over, v |-> 27, s0 |-> 27]

Locks == {Sign(Owner, LockMsg(i, e, u1, a)) : i \in Index, e \in 1..MaxEpoch, a \in {Owner, alice}}
Payments == {Sign(Owner, PayMsg(i, e, u, alice)) : i \in Index, e \in 1..MaxEpoch, u \in U}
              \cup {Sign(Owner, PayMsg(1, e, u1, bob)) : e \in 1..MaxEpoch}
Invalidating == {Sign(Owner, u1), Sign(alice, u1)}

AllSigned == Locks \cup Payments \cup Invalidating

(* Tokens that revert, like most, with and without transfers to address(0), *)
(* and one that returns false.                                              *)
AnyToken == {[refusal |-> "revert", zero |-> TRUE], [refusal |-> "revert", zero |-> FALSE],
             [refusal |-> "false", zero |-> FALSE]}
=============================================================================
