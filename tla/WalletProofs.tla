---------------------------- MODULE WalletProofs ----------------------------
(***************************************************************************)
(* Proofs about the wallet: its type invariant, the single use of an       *)
(* index, and the two ledgers, for any token, clock, set of signatures and *)
(* constructor arguments (with a burn buffer).                             *)
(***************************************************************************)
EXTENDS Wallet, FiniteSetTheorems, TLAPS

USE AddressAssumption, ParameterAssumption, TokenAssumption, BufferAssumption

-----------------------------------------------------------------------------
(* Sets of claims.                                                         *)

LEMMA ClaimsFinite ==
  /\ IsFiniteSet(Claim)
  /\ \A S \in SUBSET Claim : IsFiniteSet(S) /\ Cardinality(S) \in Nat
<1>1. IsFiniteSet(0..MaxEpoch)
  BY FS_Interval
<1>2. IsFiniteSet(Claim)
  BY <1>1, IndexAssumption, FS_Product DEF Claim
<1> QED BY <1>2, FS_Subset, FS_CardinalityType

(* The claims of a call are as many as its indexes. *)
LEMMA ClaimsOfCard ==
  ASSUME NEW S \in SUBSET Index, currentEpoch \in 0..MaxEpoch
  PROVE  /\ ClaimsOf(S) \subseteq Claim
         /\ IsFiniteSet(S) /\ Cardinality(S) \in Nat
         /\ Cardinality(ClaimsOf(S)) = Cardinality(S)
<1> DEFINE f == [i \in S |-> <<i, currentEpoch>>]
<1>1. IsFiniteSet(S) /\ Cardinality(S) \in Nat
  BY IndexAssumption, FS_Subset, FS_CardinalityType
<1>2. f \in Bijection(S, ClaimsOf(S))
  BY DEF Bijection, Injection, Surjection, IsInjective, ClaimsOf
<1>3. Cardinality(ClaimsOf(S)) = Cardinality(S)
  BY <1>1, <1>2, FS_Bijection DEF ExistsBijection
<1> QED BY <1>1, <1>3 DEF ClaimsOf, Claim

LEMMA DisjointUnion ==
  ASSUME NEW S \in SUBSET Claim, NEW T \in SUBSET Claim, S \cap T = {}
  PROVE  Cardinality(S \cup T) = Cardinality(S) + Cardinality(T)
<1>1. IsFiniteSet(S) /\ IsFiniteSet(T) /\ Cardinality(S) \in Nat /\ Cardinality(T) \in Nat
  BY ClaimsFinite
<1>2. Cardinality(S \cap T) = 0
  <2>1. S \cap T = {}
    OBVIOUS
  <2> QED BY <2>1, FS_EmptySet, Zenon
<1>3. Cardinality(S \cup T) = Cardinality(S) + Cardinality(T) - Cardinality(S \cap T)
  BY <1>1, FS_Union, Zenon
<1> DEFINE a == Cardinality(S)
           b == Cardinality(T)
           c == Cardinality(S \cap T)
           d == Cardinality(S \cup T)
<1>4. a \in Nat /\ b \in Nat /\ c = 0 /\ d = a + b - c
  BY <1>1, <1>2, <1>3
<1> HIDE DEF a, b, c, d
<1>5. d = a + b
  BY <1>4
<1> QED BY <1>5, Zenon DEF a, b, d

LEMMA Removal ==
  ASSUME NEW S \in SUBSET Claim, NEW T \in SUBSET S
  PROVE  Cardinality(S \ T) = Cardinality(S) - Cardinality(T)
<1>1. S \ T \in SUBSET Claim /\ T \in SUBSET Claim /\ (S \ T) \cap T = {}
  OBVIOUS
<1>2. Cardinality((S \ T) \cup T) = Cardinality(S \ T) + Cardinality(T)
  BY <1>1, DisjointUnion
<1>3. (S \ T) \cup T = S
  OBVIOUS
<1>4. Cardinality(S \ T) \in Nat /\ Cardinality(T) \in Nat
  BY <1>1, ClaimsFinite
<1> DEFINE a == Cardinality(S)
           b == Cardinality(T)
           d == Cardinality(S \ T)
<1>5. b \in Nat /\ d \in Nat /\ a = d + b
  BY <1>2, <1>3, <1>4, Zenon
<1> HIDE DEF a, b, d
<1>6. d = a - b
  BY <1>5
<1> QED BY <1>6, Zenon DEF a, b, d

(* Products of natural numbers, as the ledgers need them. *)
LEMMA Products ==
  ASSUME NEW v \in Nat, NEW a \in Nat, NEW b \in Nat
  PROVE  /\ v * a \in Nat
         /\ v * (a + b) = v * a + v * b
         /\ a <= b => v * (b - a) = v * b - v * a
BY SMTT(30)

-----------------------------------------------------------------------------
(* What the parts of a step do.                                            *)

LEMMA TransferTyped ==
  ASSUME TypeOK, NEW amount \in Nat, Transfer(amount, "redeemed")
  PROVE  /\ balance' \in Nat
         /\ out' \in [redeemed: Nat, burnt: Nat, withdrawn: Nat]
         /\ out'.burnt = out.burnt
         /\ \/ out'.redeemed = out.redeemed + amount
            \/ out'.redeemed = out.redeemed /\ token.refusal = "false"
BY DEF TypeOK, Transfer

LEMMA BurntTyped ==
  ASSUME TypeOK
  PROVE  /\ Burnt \in Nat /\ Burnt <= balance /\ Burnt <= pendingBurn
         /\ BurnPasses /\ token.refusal = "revert" => Burnt = pendingBurn
BY DEF TypeOK, Burnt, BurnMoves, BurnPasses

(* Burn puts the claims of the call in the buffer, and nothing else. *)
LEMMA BurnBuffers ==
  ASSUME TypeOK, NEW to \in Address, NEW indexes \in SUBSET Index,
         NEW items \in [indexes -> [u: U, type: Type]], Burn(to, items)
  PROVE  /\ buffer' \in [Claim -> Entry]
         /\ Buffered' = Buffered \cup ClaimsOf(indexes)
         /\ ClaimsOf(indexes) \subseteq Claim
         /\ ClaimsOf(indexes) \cap (Buffered \cup claimed) = {}
<1>1. currentEpoch \in 0..MaxEpoch /\ now \in Nat /\ buffer \in [Claim -> Entry]
  BY DEF TypeOK
<1>2. ClaimsOf(indexes) \subseteq Claim
  BY <1>1, ClaimsOfCard
<1>3. ASSUME NEW c \in Claim, c \in ClaimsOf(indexes)
      PROVE  buffer'[c] \in Entry /\ buffer'[c].time # 0
  <2>1. PICK i \in indexes : c = <<i, currentEpoch>>
    BY <1>3 DEF ClaimsOf
  <2>2. items[c[1]] \in [u: U, type: Type]
    BY <2>1
  <2>3. IAddress(items[c[1]].type, to) \in Address
    BY DEF IAddress
  <2>4. buffer'[c] = [time |-> BurnBuffer +
                              (IF items[c[1]].type = 1 THEN InvDisadvantage ELSE 0),
                      iAddress |-> IAddress(items[c[1]].type, to),
                      blob |-> items[c[1]].u]
    BY <1>3 DEF Burn
  <2> QED BY <1>1, <2>2, <2>3, <2>4 DEF Entry
<1>4. ASSUME NEW c \in Claim, c \notin ClaimsOf(indexes)
      PROVE  buffer'[c] = buffer[c]
  BY <1>4 DEF Burn
<1>5. buffer' = [c \in Claim |-> buffer'[c]]
  BY DEF Burn
<1>6. buffer' \in [Claim -> Entry]
  BY <1>1, <1>3, <1>4, <1>5
<1>7. Buffered' = Buffered \cup ClaimsOf(indexes)
  BY <1>2, <1>3, <1>4 DEF Buffered
<1>8. ClaimsOf(indexes) \cap (Buffered \cup claimed) = {}
  BY DEF Burn, Unused, ClaimsOf
<1> QED BY <1>2, <1>6, <1>7, <1>8

(* Challenge takes its claims out of the buffer, where they all were. *)
LEMMA ChallengeBuffers ==
  ASSUME TypeOK, NEW claims \in SUBSET Claim, Challenge(claims)
  PROVE  /\ buffer' \in [Claim -> Entry]
         /\ Buffered' = Buffered \ claims
         /\ claims \subseteq Buffered
<1>1. now \in Nat /\ buffer \in [Claim -> Entry]
  BY DEF TypeOK
<1>2. Absent \in Entry /\ Absent.time = 0
  BY DEF Absent, Entry
<1>3. \A c \in claims : buffer[c].time # 0
  BY <1>1 DEF Challenge, Challengeable, Entry
<1>4. buffer' = [c \in Claim |-> IF c \in claims THEN Absent ELSE buffer[c]]
  BY DEF Challenge
<1>5. buffer' \in [Claim -> Entry]
  BY <1>1, <1>2, <1>4
<1>6. \A c \in Claim : buffer'[c].time # 0 <=> c \notin claims /\ buffer[c].time # 0
  BY <1>2, <1>4
<1> QED BY <1>3, <1>5, <1>6 DEF Buffered

-----------------------------------------------------------------------------
(* The invariant: type, single use, and the two ledgers.                   *)

Inv == TypeOK /\ UsedOnce /\ PaidOnce /\ BurnLedger

LEMMA InitInv == Init => Inv
<1> SUFFICES ASSUME Init PROVE Inv
  OBVIOUS
<1>1. Absent \in Entry /\ Absent.time = 0
  BY DEF Absent, Entry
<1>2. TypeOK
  BY <1>1 DEF Init, TypeOK
<1>3. Buffered = {} /\ claimed = {}
  BY <1>1 DEF Init, Buffered
<1>4. Cardinality({}) = 0
  BY FS_EmptySet
<1>5. IndexValue * 0 = 0
  OBVIOUS
<1> QED BY <1>2, <1>3, <1>4, <1>5 DEF Inv, UsedOnce, PaidOnce, BurnLedger, Init

(* A step that leaves claimed and buffer alone and does not change what    *)
(* the ledgers add up.                                                     *)
LEMMA LedgersKept ==
  ASSUME Inv, UNCHANGED <<token, claimed, buffer>>,
         out'.redeemed = out.redeemed,
         \/ out'.burnt + pendingBurn' = out.burnt + pendingBurn
         \/ /\ out'.burnt + pendingBurn' <= out.burnt + pendingBurn
            /\ token.refusal = "false",
         TypeOK'
  PROVE  Inv'
<1>1. Buffered' = Buffered
  BY DEF Buffered
<1>2. Cardinality(Buffered) \in Nat /\ IndexValue * Cardinality(Buffered) \in Nat
  BY ClaimsFinite, Products DEF Buffered
<1> QED BY <1>1, <1>2 DEF Inv, TypeOK, UsedOnce, PaidOnce, BurnLedger

LEMMA NextInv == Inv /\ [Next]_vars => Inv'
<1> SUFFICES ASSUME Inv, [Next]_vars PROVE Inv'
  OBVIOUS
<1>t. TypeOK
  BY DEF Inv
<1> USE DEF env, epochVars
<1>1. CASE StartEpoch
  <2>1. TypeOK'
    BY <1>t, <1>1, BurntTyped DEF StartEpoch, TypeOK
  <2>2. out'.redeemed = out.redeemed /\ out'.burnt + pendingBurn' = out.burnt + Burnt
    BY <1>t, <1>1, BurntTyped DEF StartEpoch, TypeOK
  <2> QED BY <1>t, <1>1, <2>1, <2>2, BurntTyped, LedgersKept DEF StartEpoch, TypeOK
<1>2. ASSUME NEW sender \in Address, Withdraw(sender) PROVE Inv'
  <2>1. TypeOK'
    <3>1. Burnt \in Nat /\ balance - Burnt \in Nat
      BY <1>t, BurntTyped DEF TypeOK
    <3>2. out' \in [redeemed: Nat, burnt: Nat, withdrawn: Nat]
      <4>1. out' = [out EXCEPT !.burnt = out.burnt + Burnt,
                               !.withdrawn = out.withdrawn + (balance - Burnt)]
        BY <1>2 DEF Withdraw
      <4>2. /\ out \in [redeemed: Nat, burnt: Nat, withdrawn: Nat]
            /\ out.burnt + Burnt \in Nat
            /\ out.withdrawn + (balance - Burnt) \in Nat
        BY <1>t, <3>1 DEF TypeOK
      <4> QED BY <4>1, <4>2
    <3> QED BY <1>t, <1>2, <3>2 DEF Withdraw, TypeOK
  <2>2. out'.redeemed = out.redeemed /\ out'.burnt + pendingBurn' = out.burnt + Burnt
    BY <1>t, <1>2, BurntTyped DEF Withdraw, TypeOK
  <2> QED BY <1>t, <1>2, <2>1, <2>2, BurntTyped, LedgersKept DEF Withdraw, TypeOK
<1>3. ASSUME NEW to \in Address, NEW indexes \in SUBSET Index,
             NEW us \in [indexes -> U], Redeem(to, us)
      PROVE  Inv'
  <2> DEFINE C == ClaimsOf(indexes)
             n == Cardinality(indexes)
  <2>1. C \subseteq Claim /\ n \in Nat /\ Cardinality(C) = n
    BY <1>t, ClaimsOfCard DEF TypeOK
  <2>2. claimed' = claimed \cup C /\ Transfer(IndexValue * n, "redeemed")
    BY <1>3 DEF Redeem
  <2>3. C \cap (Buffered \cup claimed) = {}
    BY <1>3 DEF Redeem, Redeemable, Unused, ClaimsOf
  <2>4. claimed \in SUBSET Claim /\ Cardinality(claimed) \in Nat
    BY <1>t, ClaimsFinite DEF TypeOK
  <2>5. Cardinality(claimed') = Cardinality(claimed) + n
    BY <2>1, <2>2, <2>3, <2>4, DisjointUnion
  <2>6. /\ IndexValue * n \in Nat /\ IndexValue * Cardinality(claimed) \in Nat
        /\ IndexValue * Cardinality(claimed')
             = IndexValue * Cardinality(claimed) + IndexValue * n
    BY <2>1, <2>4, <2>5, Products
  <2>7. UNCHANGED <<token, now, currentEpoch, epochExpiresBy, reserves, pendingBurn, buffer>>
    BY <1>3 DEF Redeem
  <2> HIDE DEF C, n
  <2>8. TypeOK'
    BY <1>t, <2>1, <2>2, <2>6, <2>7, TransferTyped DEF TypeOK
  <2>9. Buffered' = Buffered
    BY <2>7 DEF Buffered
  <2>10. UsedOnce'
    BY <2>2, <2>3, <2>9 DEF Inv, UsedOnce
  <2>11. PaidOnce'
    <3>1. \/ out'.redeemed = out.redeemed + IndexValue * n
          \/ out'.redeemed = out.redeemed /\ token.refusal = "false"
      BY <1>t, <2>2, <2>6, TransferTyped
    <3>2. out.redeemed \in Nat
      BY <1>t DEF TypeOK
    <3> QED BY <2>6, <2>7, <3>1, <3>2 DEF Inv, PaidOnce
  <2>12. BurnLedger'
    <3>1. out'.burnt = out.burnt
      BY <1>t, <2>2, <2>6, TransferTyped
    <3> QED BY <2>7, <2>9, <3>1 DEF Inv, BurnLedger
  <2> QED BY <2>8, <2>10, <2>11, <2>12 DEF Inv
<1>4. ASSUME NEW to \in Address, NEW indexes \in SUBSET Index,
             NEW items \in [indexes -> [u: U, type: Type]], Burn(to, items)
      PROVE  Inv'
  <2> DEFINE C == ClaimsOf(indexes)
             n == Cardinality(indexes)
  <2>1. C \subseteq Claim /\ n \in Nat /\ Cardinality(C) = n
    BY <1>t, ClaimsOfCard DEF TypeOK
  <2>2. /\ buffer' \in [Claim -> Entry] /\ Buffered' = Buffered \cup C
        /\ C \cap (Buffered \cup claimed) = {}
    BY <1>t, <1>4, BurnBuffers
  <2>3. Buffered \in SUBSET Claim /\ Cardinality(Buffered) \in Nat
    BY ClaimsFinite DEF Buffered
  <2>4. Cardinality(Buffered') = Cardinality(Buffered) + n
    BY <2>1, <2>2, <2>3, DisjointUnion
  <2>5. /\ IndexValue * n \in Nat /\ IndexValue * Cardinality(Buffered) \in Nat
        /\ IndexValue * Cardinality(Buffered')
             = IndexValue * Cardinality(Buffered) + IndexValue * n
    BY <2>1, <2>3, <2>4, Products
  <2>6. /\ pendingBurn' = pendingBurn + IndexValue * n
        /\ UNCHANGED <<token, now, currentEpoch, epochExpiresBy, reserves, claimed, balance, out>>
    BY <1>4 DEF Burn
  <2> HIDE DEF C, n
  <2>7. TypeOK'
    BY <1>t, <2>2, <2>5, <2>6 DEF TypeOK
  <2>8. UsedOnce' /\ PaidOnce'
    BY <2>2, <2>6 DEF Inv, UsedOnce, PaidOnce
  <2>9. BurnLedger'
    BY <1>t, <2>5, <2>6 DEF Inv, BurnLedger, TypeOK
  <2> QED BY <2>7, <2>8, <2>9 DEF Inv
<1>5. ASSUME NEW claims \in SUBSET Claim, Challenge(claims) PROVE Inv'
  <2>1. /\ buffer' \in [Claim -> Entry] /\ Buffered' = Buffered \ claims
        /\ claims \subseteq Buffered
    BY <1>t, <1>5, ChallengeBuffers
  <2>2. Buffered \in SUBSET Claim /\ Cardinality(Buffered) \in Nat
        /\ Cardinality(claims) \in Nat /\ Cardinality(Buffered \ claims) \in Nat
    BY ClaimsFinite DEF Buffered
  <2>3. Cardinality(Buffered') = Cardinality(Buffered) - Cardinality(claims)
    BY <2>1, <2>2, Removal
  <2>4. Cardinality(claims) <= Cardinality(Buffered)
    BY <2>1, <2>2, <2>3
  <2>5. /\ IndexValue * Cardinality(claims) \in Nat
        /\ IndexValue * Cardinality(Buffered) \in Nat
        /\ IndexValue * Cardinality(Buffered')
             = IndexValue * Cardinality(Buffered) - IndexValue * Cardinality(claims)
    BY <2>2, <2>3, <2>4, Products
  <2>6. /\ IndexValue * Cardinality(claims) <= pendingBurn
        /\ pendingBurn' = pendingBurn - IndexValue * Cardinality(claims)
        /\ UNCHANGED <<token, now, currentEpoch, epochExpiresBy, reserves, claimed, balance, out>>
    BY <1>5 DEF Challenge
  <2>7. TypeOK'
    BY <1>t, <2>1, <2>5, <2>6 DEF TypeOK
  <2>8. UsedOnce' /\ PaidOnce'
    BY <2>1, <2>6 DEF Inv, UsedOnce, PaidOnce
  <2>9. BurnLedger'
    BY <1>t, <2>5, <2>6 DEF Inv, BurnLedger, TypeOK
  <2> QED BY <2>7, <2>8, <2>9 DEF Inv
<1>6. ASSUME NEW amount \in 1..MaxDeposit, Deposit(amount) PROVE Inv'
  <2>1. TypeOK'
    BY <1>t, <1>6 DEF Deposit, TypeOK
  <2> QED BY <1>6, <2>1, LedgersKept DEF Deposit
<1>7. ASSUME NEW t \in Times, Elapse(t) PROVE Inv'
  <2>1. TypeOK'
    BY <1>t, <1>7 DEF Elapse, TypeOK
  <2> QED BY <1>7, <2>1, LedgersKept DEF Elapse
<1>8. CASE UNCHANGED vars
  <2>1. TypeOK'
    BY <1>t, <1>8 DEF vars, TypeOK
  <2> QED BY <1>8, <2>1, LedgersKept DEF vars
<1> QED BY <1>1, <1>2, <1>3, <1>4, <1>5, <1>6, <1>7, <1>8 DEF Next

-----------------------------------------------------------------------------
LEMMA AlwaysInv == Spec => []Inv
BY InitInv, NextInv, PTL DEF Spec

(* The type invariant: no amount of the wallet ever goes negative. *)
THEOREM TypeCorrect == Spec => []TypeOK
<1>1. Inv => TypeOK
  BY DEF Inv
<1> QED BY <1>1, AlwaysInv, PTL

(* An index of an epoch is redeemed or put in the burn buffer, not both. *)
THEOREM OneUsePerIndex == Spec => []UsedOnce
<1>1. Inv => UsedOnce
  BY DEF Inv
<1> QED BY <1>1, AlwaysInv, PTL

(* redeemdType2 pays out one indexValue for each index of an epoch. *)
THEOREM RedeemedAmounts == Spec => []PaidOnce
<1>1. Inv => PaidOnce
  BY DEF Inv
<1> QED BY <1>1, AlwaysInv, PTL

(* Burnt and pending amounts match the burn buffer. *)
THEOREM BurnLedgerBalances == Spec => []BurnLedger
<1>1. Inv => BurnLedger
  BY DEF Inv
<1> QED BY <1>1, AlwaysInv, PTL

-----------------------------------------------------------------------------
(* The refinement of Claims.                                               *)

(* Every call is a step of Claims on the claims it uses, or a stutter. *)
LEMMA ClaimsStep == TypeOK /\ [Next]_vars => [CS!Next]_CS!claimVars
<1> SUFFICES ASSUME TypeOK, [Next]_vars PROVE CS!Next \/ UNCHANGED CS!claimVars
  BY DEF CS!claimVars
<1>a. ASSUME UNCHANGED <<currentEpoch, claimed, buffer>> PROVE UNCHANGED CS!claimVars
  BY <1>a DEF CS!claimVars, Buffered
<1>b. ASSUME NEW S \in SUBSET Index, \A i \in S : Unused(<<i, currentEpoch>>)
      PROVE  ClaimsOf(S) \in SUBSET CS!Usable
  BY <1>b DEF ClaimsOf, Unused, CS!Usable
<1>1. CASE StartEpoch
  <2>1. currentEpoch' = currentEpoch + 1 /\ UNCHANGED <<claimed, buffer>>
    BY <1>1 DEF StartEpoch
  <2> QED BY <2>1 DEF CS!Next, CS!NextEpoch, Buffered
<1>2. ASSUME NEW sender \in Address, Withdraw(sender) PROVE UNCHANGED CS!claimVars
  BY <1>2, <1>a DEF Withdraw
<1>3. ASSUME NEW to \in Address, NEW indexes \in SUBSET Index,
             NEW us \in [indexes -> U], Redeem(to, us)
      PROVE  CS!Next
  <2>1. claimed' = claimed \cup ClaimsOf(indexes) /\ UNCHANGED <<currentEpoch, buffer>>
    BY <1>3 DEF Redeem, epochVars
  <2>2. ClaimsOf(indexes) \in SUBSET CS!Usable
    BY <1>3, <1>b DEF Redeem, Redeemable
  <2> QED BY <2>1, <2>2 DEF CS!Next, CS!Redeem, Buffered
<1>4. ASSUME NEW to \in Address, NEW indexes \in SUBSET Index,
             NEW items \in [indexes -> [u: U, type: Type]], Burn(to, items)
      PROVE  CS!Next
  <2>1. Buffered' = Buffered \cup ClaimsOf(indexes) /\ UNCHANGED <<currentEpoch, claimed>>
    BY <1>4, BurnBuffers DEF Burn, epochVars
  <2>2. ClaimsOf(indexes) \in SUBSET CS!Usable
    BY <1>4, <1>b DEF Burn
  <2> QED BY <2>1, <2>2 DEF CS!Next, CS!SetAside
<1>5. ASSUME NEW claims \in SUBSET Claim, Challenge(claims) PROVE CS!Next
  <2>1. /\ Buffered' = Buffered \ claims /\ claims \subseteq Buffered
        /\ UNCHANGED <<currentEpoch, claimed>>
    BY <1>5, ChallengeBuffers DEF Challenge, epochVars
  <2> QED BY <2>1 DEF CS!Next, CS!Contest
<1>6. ASSUME NEW amount \in 1..MaxDeposit, Deposit(amount) PROVE UNCHANGED CS!claimVars
  BY <1>6, <1>a DEF Deposit, epochVars
<1>7. ASSUME NEW t \in Times, Elapse(t) PROVE UNCHANGED CS!claimVars
  BY <1>7, <1>a DEF Elapse, epochVars
<1>8. CASE UNCHANGED vars
  BY <1>8, <1>a DEF vars, epochVars
<1> QED BY <1>1, <1>2, <1>3, <1>4, <1>5, <1>6, <1>7, <1>8 DEF Next

(* The wallet implements Claims. *)
THEOREM ImplementsClaims == Spec => ClaimsSpec
<1>1. Init => CS!Init
  BY DEF Init, CS!Init, Buffered, Absent
<1> QED BY <1>1, ClaimsStep, TypeCorrect, PTL DEF Spec, ClaimsSpec, CS!Spec

-----------------------------------------------------------------------------
(* Challenges that come too late, and the wallet a burn can block.          *)

(* What burnBufferTime holds is a duration, not a point in time. *)
Durations == \A c \in Claim : buffer[c].time <= BurnBuffer + InvDisadvantage

LEMMA DurationsStep == TypeOK /\ Durations /\ [Next]_vars => Durations'
<1> SUFFICES ASSUME TypeOK, Durations, [Next]_vars PROVE Durations'
  OBVIOUS
<1>1. ASSUME UNCHANGED buffer PROVE Durations'
  BY <1>1 DEF Durations
<1>2. ASSUME NEW to \in Address, NEW indexes \in SUBSET Index,
             NEW items \in [indexes -> [u: U, type: Type]], Burn(to, items)
      PROVE  Durations'
  <2>1. \A c \in Claim : \/ buffer'[c] = buffer[c]
                         \/ buffer'[c].time \in {BurnBuffer, BurnBuffer + InvDisadvantage}
    BY <1>2 DEF Burn
  <2> QED BY <2>1 DEF Durations
<1>3. ASSUME NEW claims \in SUBSET Claim, Challenge(claims) PROVE Durations'
  <2>1. \A c \in Claim : buffer'[c] = buffer[c] \/ buffer'[c].time = 0
    BY <1>3 DEF Challenge, Absent
  <2> QED BY <2>1 DEF Durations
<1> QED BY <1>1, <1>2, <1>3
        DEF Next, vars, StartEpoch, Withdraw, Redeem, Deposit, Elapse

LEMMA AlwaysDurations == Spec => []Durations
<1>1. Init => Durations
  BY DEF Init, Durations, Absent
<1> QED BY <1>1, DurationsStep, TypeCorrect, PTL DEF Spec

(* Too late, a challenge names no claim at all. *)
LEMMA NoChallenge ==
  ASSUME TypeOK, Durations, TooLate, NEW claims \in SUBSET Claim, Challenge(claims)
  PROVE  claims = {} /\ pendingBurn' = pendingBurn /\ Buffered' = Buffered
<1>1. \A c \in Claim : buffer[c].time \in Nat /\ buffer[c].time <= BurnBuffer + InvDisadvantage
  BY DEF TypeOK, Entry, Durations
<1>2. claims = {}
  BY <1>1 DEF Challenge, Challengeable, TooLate, TypeOK
<1>3. IndexValue * Cardinality(claims) = 0
  <2>1. Cardinality({}) = 0 /\ IndexValue * 0 = 0
    BY FS_EmptySet
  <2> QED BY <1>2, <2>1
<1>4. pendingBurn' = pendingBurn
  BY <1>3 DEF Challenge, TypeOK
<1> QED BY <1>2, <1>4, ChallengeBuffers

LEMMA BlockedStep ==
  TypeOK /\ Durations /\ [Next]_vars =>
    [Blocked => Blocked' /\ UNCHANGED <<epochVars, out.withdrawn>>]_vars
<1> SUFFICES ASSUME TypeOK, Durations, [Next]_vars, Blocked
             PROVE  Blocked' /\ UNCHANGED <<epochVars, out.withdrawn>>
  OBVIOUS
<1>1. /\ token.refusal = "revert" /\ ~token.zero /\ pendingBurn \in Nat /\ pendingBurn > 0
      /\ now \in Nat /\ TooLate
  BY DEF Blocked, TypeOK
<1>2. ~BurnPasses
  BY <1>1 DEF BurnPasses, BurnMoves
<1>a. ASSUME UNCHANGED <<token, now, epochVars, out>>, pendingBurn' >= pendingBurn, pendingBurn' \in Nat
      PROVE  Blocked' /\ UNCHANGED <<epochVars, out.withdrawn>>
  BY <1>1, <1>a DEF Blocked, TooLate
<1>3. ~StartEpoch /\ \A sender \in Address : ~Withdraw(sender)
  BY <1>2 DEF StartEpoch, Withdraw
<1>4. ASSUME NEW to \in Address, NEW indexes \in SUBSET Index,
             NEW us \in [indexes -> U], Redeem(to, us)
      PROVE  Blocked' /\ UNCHANGED <<epochVars, out.withdrawn>>
  <2>1. UNCHANGED <<token, now, epochVars, pendingBurn>>
    BY <1>4 DEF Redeem, env
  <2>2. out'.withdrawn = out.withdrawn
    BY <1>4 DEF Redeem, Transfer, TypeOK
  <2> QED BY <1>1, <2>1, <2>2 DEF Blocked, TooLate
<1>5. ASSUME NEW to \in Address, NEW indexes \in SUBSET Index,
             NEW items \in [indexes -> [u: U, type: Type]], Burn(to, items)
      PROVE  Blocked' /\ UNCHANGED <<epochVars, out.withdrawn>>
  <2>1. IndexValue * Cardinality(indexes) \in Nat
    BY ClaimsOfCard, Products DEF TypeOK
  <2>2. /\ pendingBurn' = pendingBurn + IndexValue * Cardinality(indexes)
        /\ UNCHANGED <<token, now, epochVars, out>>
    BY <1>5 DEF Burn, env
  <2> DEFINE a == IndexValue * Cardinality(indexes)
  <2>3. a \in Nat /\ pendingBurn' = pendingBurn + a
    BY <2>1, <2>2
  <2> HIDE DEF a
  <2>4. pendingBurn' \in Nat /\ pendingBurn' >= pendingBurn
    BY <1>1, <2>3
  <2> QED BY <1>a, <2>2, <2>4
<1>6. ASSUME NEW claims \in SUBSET Claim, Challenge(claims)
      PROVE  Blocked' /\ UNCHANGED <<epochVars, out.withdrawn>>
  <2>1. pendingBurn' = pendingBurn
    BY <1>1, <1>6, NoChallenge
  <2>2. UNCHANGED <<token, now, epochVars, out>>
    BY <1>6 DEF Challenge, env
  <2> QED BY <1>1, <1>a, <2>1, <2>2
<1>7. ASSUME NEW amount \in 1..MaxDeposit, Deposit(amount)
      PROVE  Blocked' /\ UNCHANGED <<epochVars, out.withdrawn>>
  <2>1. UNCHANGED <<token, now, epochVars, out, pendingBurn>>
    BY <1>7 DEF Deposit, env
  <2> QED BY <1>1, <1>a, <2>1
<1>8. ASSUME NEW t \in Times, Elapse(t)
      PROVE  Blocked' /\ UNCHANGED <<epochVars, out.withdrawn>>
  <2>1. now' > now /\ now' \in Nat /\ UNCHANGED <<token, epochVars, out, pendingBurn>>
    BY <1>8 DEF Elapse
  <2> QED BY <1>1, <2>1 DEF Blocked, TooLate
<1>9. CASE UNCHANGED vars
  <2>1. UNCHANGED <<token, now, epochVars, out, pendingBurn>>
    BY <1>9 DEF vars, env
  <2> QED BY <1>1, <1>a, <2>1
<1> QED BY <1>3, <1>4, <1>5, <1>6, <1>7, <1>8, <1>9 DEF Next

(* A burn the token cannot make blocks the wallet in every later state. *)
THEOREM BlockedStaysBlocked == Spec => BlockedForGood
BY BlockedStep, AlwaysDurations, TypeCorrect, PTL DEF Spec, BlockedForGood
=============================================================================
