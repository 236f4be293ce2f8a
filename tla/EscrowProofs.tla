---------------------------- MODULE EscrowProofs ----------------------------
(***************************************************************************)
(* Proof that the exchange implements Escrow: a tick issues commits that   *)
(* answer commits already given, every other step leaves the commits alone *)
(* and the obligations among what has been paid.                           *)
(***************************************************************************)
EXTENDS ExchangeProofs

(* In a backed state every trade in PFulfillService has been paid. *)
LEMMA ObligedPaid ==
  ASSUME TypeOK, Backed
  PROVE  Obliged \subseteq E!Paid
<1> SUFFICES ASSUME NEW n \in Node, NEW t \in trades[n], t.status = "PFulfillService"
             PROVE  [provider |-> n, requester |-> CounterParty(t), id |-> t.id] \in E!Paid
  BY DEF Obliged
<1>1. t \in TradeRecord
  BY DEF TypeOK
<1>2. CounterParty(t) \in Node /\ t.id \in Id
  BY <1>1, CounterPartyTyped DEF TradeRecord
<1>3. Justified(n, t, sent)
  BY DEF Backed
<1>4. Msg("T2RequesterCommit", CounterParty(t), n, t.id) \in sent
  BY <1>3 DEF Justified, Prior
<1> QED BY <1>2, <1>4 DEF E!Paid, Msg

(* The commits a tick hands out answer commits of the counterparty. *)
LEMMA DueAnswers ==
  ASSUME TypeOK, Backed, NEW n \in Node, NEW t \in Due(n)
  PROVE  LET c == [kind |-> KindToSend(t.status), from |-> n,
                   to |-> CounterParty(t), id |-> t.id]
         IN c \in E!Commit /\ E!Answers(c) \subseteq sent
<1>1. t \in trades[n] /\ t.status \in SendStatus
  BY DEF Due
<1>2. t \in TradeRecord /\ Justified(n, t, sent)
  BY <1>1 DEF TypeOK, Backed
<1>3. CounterParty(t) \in Node /\ t.id \in Id
  BY <1>2, CounterPartyTyped DEF TradeRecord
<1> DEFINE cp == CounterParty(t)
           c == [kind |-> KindToSend(t.status), from |-> n, to |-> cp, id |-> t.id]
<1>4. CASE t.status = "RSendT1Commit"
  <2>1. c.kind = "T1RequesterCommit"
    BY <1>4 DEF KindToSend
  <2> QED BY <1>3, <2>1 DEF E!Commit, E!Answers
<1>5. CASE t.status = "PSendT1Commit"
  <2>1. c.kind = "T1ProviderCommit" /\ Prior(t.status) = {"T1RequesterCommit"}
    BY <1>5 DEF KindToSend, Prior
  <2>2. Msg("T1RequesterCommit", cp, n, t.id) \in sent
    BY <1>2, <2>1 DEF Justified
  <2>3. E!Answers(c) = {Msg("T1RequesterCommit", cp, n, t.id)}
    BY <2>1 DEF E!Answers, Msg
  <2> QED BY <1>3, <2>1, <2>2, <2>3 DEF E!Commit
<1>6. CASE t.status = "RSendT2Commit"
  <2>1. c.kind = "T2RequesterCommit" /\ Prior(t.status) = {"T1ProviderCommit"}
    BY <1>6 DEF KindToSend, Prior
  <2>2. Msg("T1ProviderCommit", cp, n, t.id) \in sent
    BY <1>2, <2>1 DEF Justified
  <2>3. E!Answers(c) = {Msg("T1ProviderCommit", cp, n, t.id)}
    BY <2>1 DEF E!Answers, Msg
  <2> QED BY <1>3, <2>1, <2>2, <2>3 DEF E!Commit
<1> QED BY <1>1, <1>4, <1>5, <1>6 DEF SendStatus

(* Every step of the exchange is a step of Escrow or a stutter. *)
LEMMA EscrowStep ==
  TypeOK /\ Backed /\ TypeOK' /\ Backed' /\ [Next]_vars => [E!Next]_(E!escrowVars)
<1> SUFFICES ASSUME TypeOK, Backed, TypeOK', Backed', [Next]_vars
             PROVE  [E!Next]_(E!escrowVars)
  OBVIOUS
<1>1. ASSUME NEW n \in Node, Tick(n) PROVE [E!Next]_(E!escrowVars)
  <2> DEFINE new == {[kind |-> KindToSend(t.status), from |-> n,
                      to |-> CounterParty(t), id |-> t.id] : t \in Due(n)}
  <2>1. sent' = sent \cup new /\ trades' = trades
    BY <1>1 DEF Tick
  <2>2. new \in SUBSET E!Commit /\ \A c \in new : E!Answers(c) \subseteq sent
    BY DueAnswers
  <2>3. Obliged' = Obliged
    BY <2>1 DEF Obliged
  <2>4. sent \subseteq E!Commit
    BY DEF TypeOK, CommitMsg, CommitKind, E!Commit
  <2> HIDE DEF new
  <2>5. E!Issue
    BY <2>1, <2>2, <2>3, <2>4 DEF E!Issue
  <2> QED BY <2>5 DEF E!Next
<1>2. ASSUME sent' = sent PROVE [E!Next]_(E!escrowVars)
  <2>1. (Obliged \subseteq E!Paid)'
    <3>1. ASSUME TypeOK, Backed PROVE Obliged \subseteq E!Paid
      BY <3>1, ObligedPaid
    <3> QED BY <3>1, ObligedPaid, PTL
  <2>2. E!Paid' = E!Paid
    BY <1>2 DEF E!Paid
  <2> QED BY <1>2, <2>1, <2>2 DEF E!Next, E!Serve
<1>3. CASE sent' # sent
  <2>1. \E n \in Node : Tick(n)
    BY <1>3 DEF Next, vars, Handle, HandleIWant, HandleStartCommit, HandleCommit,
       HandleT1RequesterCommit, HandleT1ProviderCommit, HandleT2RequesterCommit,
       PostIWant, PostStartCommit, RouteAnswered, SendAnswered, CallFailed, ProcEvent,
       VerifyStart, VerifyEnd, Lose, Flush, Crash
  <2> QED BY <2>1, <1>1
<1> QED BY <1>2, <1>3

(* The exchange implements the abstract escrow. *)
THEOREM ImplementsEscrow == Spec => EscrowSpec
<1>1. Init => E!Init
  BY DEF Init, E!Init, Obliged
<1> QED BY <1>1, EscrowStep, TypeCorrect, AlwaysBacked, PTL
        DEF Spec, EscrowSpec, E!Spec
=============================================================================
