------------------------------- MODULE Wallet -------------------------------
(***************************************************************************)
(* The time-locked wallet, contracts/src/Wallet.sol.  Every external       *)
(* function is one action, since a transaction is atomic and a reverted    *)
(* one changes nothing.  The token, the clock of the chain and the         *)
(* signatures the peers exchange are the contract's environment.           *)
(***************************************************************************)
EXTENDS Integers, FiniteSets

CONSTANTS
  Address, Owner,   \* those who sign and receive; the wallet's owner
  Nobody,           \* address(0), what ecrecover returns on failure
  Index, U,         \* indexes (uint32) and unique ids of commitments (uint32)
  Signatures,       \* the signatures in circulation
  EpochDuration, IndexValue, BurnBuffer,  \* constructor arguments
  InvDisadvantage,  \* invDisadvantageBuffer, one hour
  Tokens,           \* the currencies the wallet may be made for
  StartTime, Times,      \* block timestamps: the first, and the later ones
  MaxEpoch, MaxDeposit   \* bounds: epochs started, tokens ever deposited

ASSUME AddressAssumption == Owner \in Address /\ Nobody \notin Address
ASSUME IndexAssumption == IsFiniteSet(Index)
ASSUME ParameterAssumption ==
  /\ EpochDuration \in Nat /\ IndexValue \in Nat /\ InvDisadvantage \in Nat
  /\ StartTime \in Nat /\ Times \subseteq Nat /\ MaxEpoch \in Nat /\ MaxDeposit \in Nat
(* How the token refuses a transfer, by a revert or by returning false, and  *)
(* whether it can be transferred to address(0).                             *)
ASSUME TokenAssumption == Tokens \subseteq [refusal: {"revert", "false"}, zero: BOOLEAN]
\* A zero buffer would leave no mark in burnBufferTime; deploy-test.sh has a day.
ASSUME BufferAssumption == BurnBuffer \in Nat \ {0}

VARIABLES
  token,           \* the currency, immutable
  now,             \* block.timestamp
  currentEpoch, epochExpiresBy, reserves, pendingBurn,
  claimed,         \* the claims redeemed; a claim is an index of an epoch
  buffer,          \* the four burnBuffer mappings: claim -> entry
  balance,         \* the token's balanceOf(wallet)
  out              \* history: what has left the wallet, by cause

env == <<token, now>>
epochVars == <<currentEpoch, epochExpiresBy, reserves>>
vars == <<env, epochVars, pendingBurn, claimed, buffer, balance, out>>

Claim == Index \X (0..MaxEpoch)

(* A burn buffer entry; time 0 is an absent one. *)
Absent == [time |-> 0, iAddress |-> Nobody, blob |-> "none"]
Entry == [time: Nat, iAddress: Address \cup {Nobody}, blob: U \cup {"none"}]
Buffered == {c \in Claim : buffer[c].time # 0}
Unused(c) == c \notin Buffered /\ c \notin claimed
ClaimsOf(indexes) == {<<i, currentEpoch>> : i \in indexes}

-----------------------------------------------------------------------------
(* Signatures: what was signed and by whom, the recovery byte v, and the   *)
(* first byte of s.                                                        *)

LockMsg(i, e, u, iAddress) == <<i, e, u, 1, iAddress>>
PayMsg(i, e, u, to) == <<i, e, u, 2, Owner, to>>

(* v is loaded from the first byte of s; another v recovers another key. *)
RecoverSigner(g) == IF g.s0 = g.v THEN g.by ELSE Nobody

Recovers(who, message) ==
  \E g \in Signatures : g.over = message /\ RecoverSigner(g) = who
HasSigned(who, message) == \E g \in Signatures : g.over = message /\ g.by = who

(* Slip: an amount the wallet does not have. *)
TransferUnbacked(amount, cause) ==
  /\ balance' = balance - amount
  /\ out' = [out EXCEPT ![cause] = @ + amount]

(* The token moves an amount the wallet has, or refuses. *)
Transfer(amount, cause) ==
  \/ /\ amount <= balance
     /\ balance' = balance - amount
     /\ out' = [out EXCEPT ![cause] = @ + amount]
  \/ /\ amount > balance
     /\ token.refusal = "false"
     /\ UNCHANGED <<balance, out>>

(* burnPendingAmount: the result of the transfer is not looked at. *)
BurnMoves == pendingBurn <= balance /\ token.zero
Burnt == IF BurnMoves THEN pendingBurn ELSE 0
\* Slip: a burn the token reverts does not stop the caller.
BurnPassesAnyway == pendingBurn = 0 \/ BurnMoves \/ token.refusal \in {"false", "revert"}
BurnPasses == pendingBurn = 0 \/ BurnMoves \/ token.refusal = "false"

-----------------------------------------------------------------------------
StartEpoch ==
  /\ currentEpoch < MaxEpoch
  /\ now >= epochExpiresBy
  /\ BurnPasses
  /\ pendingBurn' = 0
  /\ balance' = balance - Burnt
  /\ out' = [out EXCEPT !.burnt = @ + Burnt]
  /\ reserves' = balance'
  /\ currentEpoch' = currentEpoch + 1
  /\ epochExpiresBy' = now + EpochDuration
  /\ UNCHANGED <<env, claimed, buffer>>

(* The guard compares the time with the duration of an epoch. *)
Withdraw(sender) ==
  /\ sender = Owner
  /\ now >= EpochDuration
  /\ BurnPasses
  /\ pendingBurn' = 0
  /\ balance' = 0
  /\ out' = [out EXCEPT !.burnt = @ + Burnt, !.withdrawn = @ + (balance - Burnt)]
  /\ reserves' = 0
  /\ UNCHANGED <<env, currentEpoch, epochExpiresBy, claimed, buffer>>

(* Slip: the burn buffer is not looked at. *)
RedeemableBuffered(i, u, to) ==
  /\ <<i, currentEpoch>> \notin claimed
  /\ Recovers(Owner, PayMsg(i, currentEpoch, u, to))
  /\ Recovers(Owner, u)

(* What redeemdType2 checks of one item of its calldata. *)
Redeemable(i, u, to) ==
  /\ Unused(<<i, currentEpoch>>)
  /\ Recovers(Owner, PayMsg(i, currentEpoch, u, to))
  /\ Recovers(Owner, u)

(* Slip: items are checked before any is marked, so that a call with an    *)
(* item twice is paid twice.                                               *)
RedeemMarksLate(to, us) ==
  /\ \A i \in DOMAIN us : Redeemable(i, us[i], to)
  /\ claimed' = claimed \cup ClaimsOf(DOMAIN us)
  /\ \E copies \in 1..2 : Transfer(copies * IndexValue * Cardinality(DOMAIN us), "redeemed")
  /\ UNCHANGED <<env, epochVars, pendingBurn, buffer>>

(* redeemdType2 with us[i] the unique id of the item for index i.  Each    *)
(* item is marked before the next is checked, so a call with two items for *)
(* one index reverts.                                                      *)
Redeem(to, us) ==
  /\ \A i \in DOMAIN us : Redeemable(i, us[i], to)
  /\ claimed' = claimed \cup ClaimsOf(DOMAIN us)
  /\ Transfer(IndexValue * Cardinality(DOMAIN us), "redeemed")
  /\ UNCHANGED <<env, epochVars, pendingBurn, buffer>>

(* An item of burnCommits: its type byte says which commitment was signed. *)
Type == 0..2
IAddress(type, to) == IF type = 1 THEN to ELSE Owner
CommitOf(i, item, to) ==
  IF item.type < 2 THEN LockMsg(i, currentEpoch, item.u, IAddress(item.type, to))
                   ELSE PayMsg(i, currentEpoch, item.u, to)

(* burnCommits; the guard is the one on epochExpiresBy - (...), a checked  *)
(* subtraction that reverts below zero.                                    *)
Burn(to, items) ==
  /\ now + BurnBuffer + InvDisadvantage < epochExpiresBy
  /\ \A i \in DOMAIN items :
       /\ Unused(<<i, currentEpoch>>)
       /\ Recovers(Owner, CommitOf(i, items[i], to))
  /\ buffer' = [c \in Claim |->
       IF c \notin ClaimsOf(DOMAIN items) THEN buffer[c]
       ELSE [time |-> BurnBuffer +
                       (IF items[c[1]].type = 1 THEN InvDisadvantage ELSE 0),
             iAddress |-> IAddress(items[c[1]].type, to),
             blob |-> items[c[1]].u]]
  /\ pendingBurn' = pendingBurn + IndexValue * Cardinality(DOMAIN items)
  /\ UNCHANGED <<env, epochVars, claimed, balance, out>>

(* challengeBurnCommits compares the buffer, a duration, with the time; it *)
(* takes v from its caller, so any signature serves.                       *)
Challengeable(c) ==
  /\ buffer[c].time > now
  /\ HasSigned(buffer[c].iAddress, buffer[c].blob)

(* Slip: the amount stays pending. *)
ChallengeKeepsPending(claims) ==
  /\ \A c \in claims : Challengeable(c)
  /\ buffer' = [c \in Claim |-> IF c \in claims THEN Absent ELSE buffer[c]]
  /\ UNCHANGED <<env, epochVars, pendingBurn, claimed, balance, out>>

Challenge(claims) ==
  /\ \A c \in claims : Challengeable(c)
  /\ IndexValue * Cardinality(claims) <= pendingBurn
  /\ buffer' = [c \in Claim |-> IF c \in claims THEN Absent ELSE buffer[c]]
  /\ pendingBurn' = pendingBurn - IndexValue * Cardinality(claims)
  /\ UNCHANGED <<env, epochVars, claimed, balance, out>>

-----------------------------------------------------------------------------
(* The environment: anyone may send tokens to the wallet; blocks go by. *)
Deposit(amount) ==
  /\ balance + out.redeemed + out.burnt + out.withdrawn + amount <= MaxDeposit
  /\ balance' = balance + amount
  /\ UNCHANGED <<env, epochVars, pendingBurn, claimed, buffer, out>>

Elapse(t) ==
  /\ t > now
  /\ now' = t
  /\ UNCHANGED <<token, epochVars, pendingBurn, claimed, buffer, balance, out>>

Init ==
  /\ token \in Tokens
  /\ now = StartTime
  /\ currentEpoch = 0 /\ epochExpiresBy = 0 /\ reserves = 0 /\ pendingBurn = 0
  /\ claimed = {}
  /\ buffer = [c \in Claim |-> Absent]
  /\ balance = 0
  /\ out = [redeemed |-> 0, burnt |-> 0, withdrawn |-> 0]

Next ==
  \/ StartEpoch
  \/ \E sender \in Address : Withdraw(sender)
  \/ \E to \in Address, indexes \in SUBSET Index :
       \E us \in [indexes -> U] : Redeem(to, us)
  \/ \E to \in Address, indexes \in SUBSET Index :
       \E items \in [indexes -> [u: U, type: Type]] : Burn(to, items)
  \/ \E claims \in SUBSET Claim : Challenge(claims)
  \/ \E amount \in 1..MaxDeposit : Deposit(amount)
  \/ \E t \in Times : Elapse(t)

Spec == Init /\ [][Next]_vars

-----------------------------------------------------------------------------
(* Type invariant: amounts are never negative, claims are of known epochs. *)
TypeOK ==
  /\ token \in Tokens /\ now \in Nat /\ currentEpoch \in 0..MaxEpoch
  /\ epochExpiresBy \in Nat /\ reserves \in Nat
  /\ pendingBurn \in Nat /\ balance \in Nat
  /\ claimed \subseteq Claim
  /\ buffer \in [Claim -> Entry]
  /\ out \in [redeemed: Nat, burnt: Nat, withdrawn: Nat]

(* An index of an epoch has one use: what was redeemed is not in the burn   *)
(* buffer as well, whichever of the conflicting commitments to it came     *)
(* first and whatever was challenged in between.                           *)
UsedOnce == claimed \cap Buffered = {}

(* Redemptions pay one indexValue for each claim and no more; exactly one, *)
(* if the token reverts a transfer it cannot make.                         *)
PaidOnce ==
  /\ out.redeemed <= IndexValue * Cardinality(claimed)
  /\ token.refusal = "revert" => out.redeemed = IndexValue * Cardinality(claimed)

(* The burn ledger balances through epochs, withdrawals and challenges:    *)
(* what is burnt or waits to be is one indexValue for each entry left in   *)
(* the buffer; no less than that if the token reverts a refused transfer.  *)
BurnLedger ==
  /\ out.burnt + pendingBurn <= IndexValue * Cardinality(Buffered)
  /\ token.refusal = "revert" => out.burnt + pendingBurn = IndexValue * Cardinality(Buffered)

(* The promise of Claims: whatever is called in whatever order, an index is *)
(* used once in an epoch, no index of an epoch is used any more after the  *)
(* next one has started, and what was redeemed stays redeemed.  The time   *)
(* an epoch expires is not part of it: see RedeemedInTime.                 *)
CS == INSTANCE Claims WITH epoch <- currentEpoch, redeemed <- claimed, setAside <- Buffered
ClaimsSpec == CS!Spec

(* The time of the chain has passed the two buffers, with which a challenge *)
(* compares it: none succeeds any more (see BurnContestable).              *)
TooLate == now >= BurnBuffer + InvDisadvantage

(* A pending burn the token will always revert. *)
Blocked ==
  token.refusal = "revert" /\ ~token.zero /\ pendingBurn > 0 /\ TooLate

(* From then on no call, deposit or passing of time starts an epoch or lets *)
(* the owner withdraw: the wallet is blocked in every later state.         *)
BlockedForGood ==
  [][Blocked => /\ Blocked'
                /\ UNCHANGED <<epochVars, out.withdrawn>>]_vars

-----------------------------------------------------------------------------
(* Statements of the repository the contract does not keep.                *)

(* Wallet.sol, withdraw: cannot withdraw during an active epoch. *)
NoWithdrawInEpoch == [][out'.withdrawn # out.withdrawn => now >= epochExpiresBy]_vars

(* README, time locked wallets & commitments, (5) and (6): a commitment is  *)
(* redeemed before the current epoch expires, and expires with it.         *)
RedeemedInTime == [][out'.redeemed # out.redeemed => now < epochExpiresBy]_vars

(* Wallet.sol, challengeBurnCommits: a commitment in the burn buffer can be *)
(* challenged with invalidating signatures; so it can at least in the very *)
(* block that puts it there, if its invalidating address has signed.       *)
BurnContestable ==
  [][\A c \in Buffered' \ Buffered :
       HasSigned(buffer'[c].iAddress, buffer'[c].blob) => Challengeable(c)']_vars
=============================================================================
