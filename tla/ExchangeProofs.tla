--------------------------- MODULE ExchangeProofs ---------------------------
(***************************************************************************)
(* Proofs that the exchange keeps its types and its order of commits, for  *)
(* any set of peers, trade ids, slots, clients and crashes.                *)
(***************************************************************************)
EXTENDS Exchange, TLAPS

(* A status write changes nothing but the status, and keeps a record typed. *)
LEMMA StatusWrites ==
  ASSUME NEW t \in TradeRecord
  PROVE  /\ ToWaiting(t) \in TradeRecord /\ ToProcessing(t) \in TradeRecord
         /\ ToSend(t) \in TradeRecord
         /\ \A st \in TradeStatus : UpdateStatus(t, st) \in TradeRecord
  BY DEF ToWaiting, ToProcessing, ToSend, UpdateStatus, TradeRecord,
         TradeStatus, SendStatus, WaitStatus, ProcStatus

(* The trade a StartCommit carries is the sender's but for the flag. *)
LEMMA ReceivedTyped ==
  ASSUME NEW s, rpc[s] \in Request
  PROVE  \A t \in Received(s) :
           /\ t \in TradeRecord /\ t.isRequester \in Flags
           /\ \E u \in rpc[s].snap : t.id = u.id /\ t.requester = u.requester
  BY FlagAssumption DEF Received, Request, TradeRecord

(* What a sled tree holds after an insert or an update. *)
LEMMA TreeWrites ==
  ASSUME NEW tree, NEW v
  PROVE  /\ Insert(tree, v) \subseteq tree \cup {v}
         /\ UpdateTree(tree, v) \subseteq tree \cup {v}
  BY DEF Insert, UpdateTree

(* Writing a typed trade keeps the active-trades trees typed. *)
LEMMA TradeWritten ==
  ASSUME TypeOK, NEW n \in Node, NEW v \in TradeRecord,
         \/ trades' = [trades EXCEPT ![n] = Insert(@, v)]
         \/ trades' = [trades EXCEPT ![n] = UpdateTree(@, v)]
  PROVE  trades' \in [Node -> SUBSET TradeRecord]
<1>1. trades[n] \subseteq TradeRecord
  BY DEF TypeOK
<1>2. Insert(trades[n], v) \in SUBSET TradeRecord /\ UpdateTree(trades[n], v) \in SUBSET TradeRecord
  BY <1>1, TreeWrites
<1> QED BY <1>2 DEF TypeOK

(* A new request is well typed. *)
LEMMA CallTyped ==
  ASSUME NEW kind \in Kind, NEW from \in Node, NEW to \in Node, NEW id \in Id,
         NEW snap \in SUBSET TradeRecord
  PROVE  Call(kind, from, to, id, snap) \in Request
  BY DEF Call, Request

(* What a crash leaves of a request is well typed. *)
LEMMA AfterCrashTyped ==
  ASSUME NEW r \in Request, NEW n
  PROVE  AfterCrash(r, n) \in Request
<1>1. (r.inFlight /\ r.to # n) \in BOOLEAN
  OBVIOUS
<1>2. r.inFlight \in BOOLEAN /\ r.caller \in {"waiting", "event", "gone"}
      /\ r.reply \in {"none", "Ack", "Bad"} /\ r.verify \in SUBSET TradeRecord
  BY DEF Request
<1> DEFINE flying == r.inFlight /\ r.to # n
           caller == IF r.from = n THEN "gone" ELSE r.caller
           reply == IF r.from = n THEN "none" ELSE r.reply
           verify == IF r.to = n THEN {} ELSE r.verify
<1>3. AfterCrash(r, n) = [r EXCEPT !.caller = caller, !.reply = reply,
                                   !.inFlight = flying, !.verify = verify]
  BY DEF AfterCrash, Request
<1>4. flying \in BOOLEAN /\ caller \in {"waiting", "event", "gone"}
      /\ reply \in {"none", "Ack", "Bad"} /\ verify \in SUBSET TradeRecord
  BY <1>1, <1>2
<1> HIDE DEF flying, caller, reply, verify
<1> QED BY <1>3, <1>4 DEF Request

(* Settling a slot leaves the request as it is or frees the slot. *)
LEMMA SettleCases ==
  ASSUME NEW r
  PROVE  Settle(r) = r \/ Settle(r) = Free
  BY DEF Settle

(* The counterparty of a typed trade is a peer. *)
LEMMA CounterPartyTyped ==
  ASSUME NEW t \in TradeRecord
  PROVE  CounterParty(t) \in Node
  BY DEF CounterParty, TradeRecord

-----------------------------------------------------------------------------
(* Type correctness.                                                       *)

(* Every action that touches one slot does so with a typed request. *)
LEMMA SlotTyped ==
  ASSUME TypeOK, NEW s \in Rpc, NEW r \in Request, SetSlot(s, r)
  PROVE  rpc' \in [Rpc -> Request \cup {Free}]
  BY SettleCases DEF TypeOK, SetSlot

(* TypeOK is inductive: no handler, task or crash breaks the shape of the  *)
(* trees, of the request slots or of the record of commits.                *)
LEMMA TypeStep == TypeOK /\ [Next]_vars => TypeOK'
<1> SUFFICES ASSUME TypeOK, [Next]_vars PROVE TypeOK'
  OBVIOUS
<1> USE DEF TypeOK
<1>1. ASSUME NEW s \in Rpc, NEW w \in Want, PostIWant(s, w) PROVE TypeOK'
  <2>1. w \in [requester: Node, provider: Node, id: Id]
    BY WantAssumption
  <2>2. Call("IWant", w.requester, w.provider, w.id, {}) \in Request
    BY <2>1, CallTyped DEF Kind
  <2> QED BY <1>1, <2>2 DEF PostIWant
<1>2. ASSUME NEW s \in Rpc, NEW n \in Node, NEW w \in iWants[n], PostStartCommit(s, n, w)
      PROVE TypeOK'
  <2> DEFINE t == [id |-> w.id, requester |-> w.requester, provider |-> n,
                   status |-> "WaitingRT1Commit", isRequester |-> FALSE]
  <2>1. w \in IWantRec
    OBVIOUS
  <2>2. t \in TradeRecord
    BY <2>1 DEF IWantRec, TradeRecord, TradeStatus, WaitStatus
  <2>3. Call("StartCommit", n, w.requester, w.id, {t}) \in Request
    BY <2>1, <2>2, CallTyped DEF Kind, IWantRec
  <2> QED BY <1>2, <2>3 DEF PostStartCommit
<1>3. ASSUME NEW s \in Rpc, HandleIWant(s) PROVE TypeOK'
  <2>1. rpc[s] \in Request
    BY <1>3 DEF HandleIWant, Arriving, Live
  <2>2. Answered(rpc[s], "Ack") \in Request
    BY <2>1 DEF Answered, Request
  <2>3. [id |-> rpc[s].id, requester |-> rpc[s].from] \in IWantRec /\ rpc[s].to \in Node
    BY <2>1 DEF Request, IWantRec
  <2>4. iWants' \in [Node -> SUBSET IWantRec]
    BY <1>3, <2>3, TreeWrites DEF HandleIWant
  <2>5. rpc' \in [Rpc -> Request \cup {Free}]
    BY <1>3, <2>2, SlotTyped DEF HandleIWant
  <2> QED BY <1>3, <2>4, <2>5 DEF HandleIWant
<1>4. ASSUME NEW s \in Rpc, HandleStartCommit(s) PROVE TypeOK'
  <2>1. rpc[s] \in Request
    BY <1>4 DEF HandleStartCommit, Arriving, Live
  <2>2. Answered(rpc[s], "Ack") \in Request
    BY <2>1 DEF Answered, Request
  <2>3. PICK t \in Received(s) :
          trades' = [trades EXCEPT ![rpc[s].to] = Insert(@, UpdateStatus(t, "RSendT1Commit"))]
    BY <1>4 DEF HandleStartCommit
  <2>4. t \in TradeRecord /\ rpc[s].to \in Node
    BY <2>1, ReceivedTyped DEF Request
  <2>5. UpdateStatus(t, "RSendT1Commit") \in TradeRecord
    BY <2>4, StatusWrites DEF TradeStatus, SendStatus
  <2>6. trades' \in [Node -> SUBSET TradeRecord]
    BY <2>3, <2>4, <2>5, TradeWritten
  <2>7. rpc' \in [Rpc -> Request \cup {Free}]
    BY <1>4, <2>2, SlotTyped DEF HandleStartCommit
  <2> QED BY <1>4, <2>6, <2>7 DEF HandleStartCommit
<1>5. ASSUME NEW s \in Rpc, NEW kind \in CommitKind, HandleCommit(s, kind) PROVE TypeOK'
  <2>1. rpc[s] \in Request
    BY <1>5 DEF HandleCommit, Arriving, Live
  <2>2. Awaiting(s) \in SUBSET TradeRecord
    BY <2>1 DEF Awaiting, Request
  <2>3. /\ [Answered(rpc[s], "Ack") EXCEPT !.verify = Awaiting(s)] \in Request
        /\ Answered(rpc[s], "Bad") \in Request
    BY <2>1, <2>2 DEF Answered, Request
  <2>4. rpc' \in [Rpc -> Request \cup {Free}]
    BY <1>5, <2>3, SlotTyped DEF HandleCommit
  <2> QED BY <1>5, <2>4 DEF HandleCommit
<1>6. ASSUME NEW s \in Rpc, RouteAnswered(s) PROVE TypeOK'
  <2>1. rpc[s] \in Request
    BY <1>6 DEF RouteAnswered, Live
  <2>2. [rpc[s] EXCEPT !.caller = "gone", !.reply = "none"] \in Request
    BY <2>1 DEF Request
  <2>3. trades' \in [Node -> SUBSET TradeRecord]
    <3>1. CASE \E t \in rpc[s].snap :
                 trades' = [trades EXCEPT ![rpc[s].from] = Insert(@, t)]
      <4>1. PICK t \in rpc[s].snap : trades' = [trades EXCEPT ![rpc[s].from] = Insert(@, t)]
        BY <3>1
      <4>2. t \in TradeRecord /\ rpc[s].from \in Node
        BY <2>1 DEF Request
      <4> QED BY <4>1, <4>2, TradeWritten
    <3> QED BY <1>6, <3>1 DEF RouteAnswered
  <2>4. rpc' \in [Rpc -> Request \cup {Free}]
    BY <1>6, <2>2, SlotTyped DEF RouteAnswered
  <2> QED BY <1>6, <2>3, <2>4 DEF RouteAnswered
<1>7. ASSUME NEW s \in Rpc, SendAnswered(s) PROVE TypeOK'
  <2>1. rpc[s] \in Request
    BY <1>7 DEF SendAnswered, IsSend, Live
  <2>2. [rpc[s] EXCEPT !.caller = "event", !.reply = "none"] \in Request
    BY <2>1 DEF Request
  <2>3. PICK t \in rpc[s].snap :
          trades' = [trades EXCEPT ![rpc[s].from] = UpdateTree(@, ToWaiting(t))]
    BY <1>7 DEF SendAnswered
  <2>4. ToWaiting(t) \in TradeRecord /\ rpc[s].from \in Node
    BY <2>1, StatusWrites DEF Request
  <2>5. rpc' \in [Rpc -> Request \cup {Free}]
    BY <1>7, <2>2, SlotTyped DEF SendAnswered
  <2>6. trades' \in [Node -> SUBSET TradeRecord]
    BY <2>3, <2>4, TradeWritten
  <2> QED BY <1>7, <2>5, <2>6 DEF SendAnswered
<1>8. ASSUME NEW s \in Rpc, CallFailed(s) PROVE TypeOK'
  <2>1. rpc[s] \in Request
    BY <1>8 DEF CallFailed, Live
  <2>2. [rpc[s] EXCEPT !.caller = IF rpc[s].kind \in CommitKind THEN "event" ELSE "gone",
                       !.reply = "none"] \in Request
    BY <2>1 DEF Request
  <2>3. rpc' \in [Rpc -> Request \cup {Free}]
    BY <1>8, <2>2, SlotTyped DEF CallFailed
  <2> QED BY <1>8, <2>3 DEF CallFailed
<1>9. ASSUME NEW s \in Rpc, ProcEvent(s) PROVE TypeOK'
  <2>1. rpc[s] \in Request
    BY <1>9 DEF ProcEvent, Live
  <2>2. [rpc[s] EXCEPT !.caller = "gone"] \in Request
    BY <2>1 DEF Request
  <2>3. rpc' \in [Rpc -> Request \cup {Free}]
    BY <1>9, <2>2, SlotTyped DEF ProcEvent
  <2> QED BY <1>9, <2>3 DEF ProcEvent
<1>10. ASSUME NEW s \in Rpc, VerifyStart(s) PROVE TypeOK'
  <2>1. rpc[s] \in Request
    BY <1>10 DEF VerifyStart, Live
  <2>2. PICK t \in rpc[s].verify :
          /\ trades' = [trades EXCEPT ![rpc[s].to] = UpdateTree(@, ToProcessing(t))]
          /\ SetSlot(s, [rpc[s] EXCEPT !.verify = {ToProcessing(t)}])
    BY <1>10 DEF VerifyStart
  <2>3. ToProcessing(t) \in TradeRecord /\ rpc[s].to \in Node
    BY <2>1, StatusWrites DEF Request
  <2>4. [rpc[s] EXCEPT !.verify = {ToProcessing(t)}] \in Request
    BY <2>1, <2>3 DEF Request
  <2>5. rpc' \in [Rpc -> Request \cup {Free}]
    BY <2>2, <2>4, SlotTyped
  <2>6. trades' \in [Node -> SUBSET TradeRecord]
    BY <2>2, <2>3, TradeWritten
  <2> QED BY <1>10, <2>5, <2>6 DEF VerifyStart
<1>11. ASSUME NEW s \in Rpc, VerifyEnd(s) PROVE TypeOK'
  <2>1. rpc[s] \in Request
    BY <1>11 DEF VerifyEnd, Live
  <2>2. PICK t \in rpc[s].verify :
          trades' = [trades EXCEPT ![rpc[s].to] = UpdateTree(@, ToSend(t))]
    BY <1>11 DEF VerifyEnd
  <2>3. ToSend(t) \in TradeRecord /\ rpc[s].to \in Node
    BY <2>1, StatusWrites DEF Request
  <2>4. [rpc[s] EXCEPT !.verify = {}] \in Request
    BY <2>1 DEF Request
  <2>5. rpc' \in [Rpc -> Request \cup {Free}]
    BY <1>11, <2>4, SlotTyped DEF VerifyEnd
  <2>6. trades' \in [Node -> SUBSET TradeRecord]
    BY <2>2, <2>3, TradeWritten
  <2> QED BY <1>11, <2>5, <2>6 DEF VerifyEnd
<1>12. ASSUME NEW s \in Rpc, Lose(s) PROVE TypeOK'
  <2>1. rpc[s] \in Request
    BY <1>12 DEF Lose, Live
  <2>2. [rpc[s] EXCEPT !.inFlight = FALSE] \in Request
    BY <2>1 DEF Request
  <2>3. rpc' \in [Rpc -> Request \cup {Free}]
    BY <1>12, <2>2, SlotTyped DEF Lose
  <2> QED BY <1>12, <2>3 DEF Lose
<1>13. ASSUME NEW n \in Node, Tick(n) PROVE TypeOK'
  <2>1. \A t \in Due(n) : t \in TradeRecord /\ t.id \in Id /\ CounterParty(t) \in Node
                          /\ KindToSend(t.status) \in CommitKind
    BY CounterPartyTyped DEF Due, TradeRecord, KindToSend, CommitKind
  <2>2. sent' \subseteq CommitMsg
    BY <1>13, <2>1 DEF Tick, CommitMsg
  <2>3. sending' \in [Node -> SUBSET Id]
    BY <1>13, <2>1 DEF Tick
  <2>4. rpc' \in [Rpc -> Request \cup {Free}]
    <3>1. PICK slot \in Injection(Due(n), FreeSlots) :
            rpc' = [s \in Rpc |->
              IF \E t \in Due(n) : slot[t] = s
                THEN LET t == CHOOSE u \in Due(n) : slot[u] = s
                     IN Call(KindToSend(t.status), n, CounterParty(t), t.id, {t})
                ELSE rpc[s]]
      BY <1>13 DEF Tick
    <3>2. \A t \in Due(n) :
            Call(KindToSend(t.status), n, CounterParty(t), t.id, {t}) \in Request
      BY <2>1, <3>1, CallTyped DEF Kind
    <3> QED BY <3>1, <3>2
  <2> QED BY <1>13, <2>2, <2>3, <2>4 DEF Tick
<1>14. ASSUME NEW n \in Node, Flush(n) PROVE TypeOK'
  BY <1>14 DEF Flush
<1>15. ASSUME NEW n \in Node, Crash(n) PROVE TypeOK'
  <2>1. \A s \in Rpc : Live(s) => AfterCrash(rpc[s], n) \in Request
    BY AfterCrashTyped DEF Live
  <2>2. rpc' \in [Rpc -> Request \cup {Free}]
    BY <1>15, <2>1, SettleCases DEF Crash
  <2> QED BY <1>15, <2>2 DEF Crash
<1>16. CASE UNCHANGED vars
  BY <1>16 DEF vars
<1> QED
  BY <1>1, <1>2, <1>3, <1>4, <1>5, <1>6, <1>7, <1>8, <1>9, <1>10, <1>11, <1>12,
     <1>13, <1>14, <1>15, <1>16
     DEF Next, Handle, HandleT1RequesterCommit, HandleT1ProviderCommit,
         HandleT2RequesterCommit, CommitKind

(* Every reachable state has its declared shape. *)
THEOREM TypeCorrect == Spec => []TypeOK
<1>1. Init => TypeOK
  BY DEF Init, TypeOK
<1> QED BY <1>1, TypeStep, PTL DEF Spec

-----------------------------------------------------------------------------
(* The order of commits.                                                   *)

(* Statuses: what a verify task writes is owed to the commit it verifies,  *)
(* what a send writes, and what an exchange starts from, to none.          *)
LEMMA StatusPrior ==
  ASSUME NEW t \in TradeRecord
  PROVE  /\ \A kind \in CommitKind : t.status = AwaitStatus(kind) =>
              Prior(ToProcessing(t).status) = {kind} /\ ToProcessing(t).status \in ProcStatus
         /\ t.status \in ProcStatus => Prior(ToSend(t).status) = Prior(t.status)
         /\ t.status \in SendStatus => Prior(ToWaiting(t).status) = {}
<1> USE DEF TradeRecord, CommitKind, ProcStatus, SendStatus, UpdateStatus
<1>1. \A kind \in CommitKind : t.status = AwaitStatus(kind) =>
        Prior(ToProcessing(t).status) = {kind} /\ ToProcessing(t).status \in ProcStatus
  BY DEF AwaitStatus, ToProcessing, Prior
<1>2. t.status \in ProcStatus => Prior(ToSend(t).status) = Prior(t.status)
  BY DEF ToSend, Prior
<1>3. t.status \in SendStatus => Prior(ToWaiting(t).status) = {}
  BY DEF ToWaiting, Prior
<1> QED BY <1>1, <1>2, <1>3

(* A status write keeps the id of a trade and its counterparty. *)
LEMMA StatusKeeps ==
  ASSUME NEW t \in TradeRecord, NEW st
  PROVE  UpdateStatus(t, st).id = t.id /\ CounterParty(UpdateStatus(t, st)) = CounterParty(t)
  BY DEF UpdateStatus, CounterParty, TradeRecord

(* Awaited statuses are not processing ones, and one commit awaits each.   *)
LEMMA AwaitFacts ==
  \A kind \in CommitKind : AwaitStatus(kind) \in WaitStatus /\ AwaitStatus(kind) \notin ProcStatus
  BY DEF CommitKind, AwaitStatus, WaitStatus, ProcStatus

LEMMA WaitNotProc == WaitStatus \cap ProcStatus = {}
  BY DEF WaitStatus, ProcStatus

(* Writing a justified trade keeps all stored trades justified. *)
LEMMA JustifiedWritten ==
  ASSUME TypeOK, Backed, NEW n \in Node, NEW v, Justified(n, v, sent),
         \/ trades' = [trades EXCEPT ![n] = Insert(@, v)]
         \/ trades' = [trades EXCEPT ![n] = UpdateTree(@, v)],
         UNCHANGED <<disk, sent>>
  PROVE  \A m \in Node : \A t \in trades'[m] \cup disk'[m].trades : Justified(m, t, sent')
<1>1. trades'[n] \subseteq trades[n] \cup {v}
  BY TreeWrites DEF TypeOK
<1>2. \A m \in Node : m # n => trades'[m] = trades[m]
  BY DEF TypeOK
<1> QED BY <1>1, <1>2 DEF Backed

(* Replacing one request by a backed one keeps all requests backed. *)
LEMMA SlotBacked ==
  ASSUME TypeOK, Backed, NEW s \in Rpc, NEW r, RequestBacked(r, sent), SetSlot(s, r),
         sent' = sent
  PROVE  \A u \in Rpc : Live(u)' => RequestBacked(rpc'[u], sent')
<1>1. rpc'[s] = r \/ rpc'[s] = Free
  BY SettleCases DEF SetSlot, TypeOK
<1>2. \A u \in Rpc : u # s => rpc'[u] = rpc[u]
  BY DEF SetSlot, TypeOK
<1> QED BY <1>1, <1>2 DEF Backed, Live

(* A request whose only changes are at its caller, on the wire or in its   *)
(* answer, or whose verify task is gone, is as well backed as before.      *)
SameCore(q, r) ==
  /\ q.kind = r.kind /\ q.from = r.from /\ q.to = r.to /\ q.id = r.id
  /\ q.snap = r.snap /\ (q.verify = r.verify \/ q.verify = {})

LEMMA BackedKept ==
  ASSUME NEW r, NEW q, NEW S, RequestBacked(r, S), SameCore(q, r)
  PROVE  RequestBacked(q, S)
  BY DEF RequestBacked, SameCore

(* Backed is inductive. *)
LEMMA BackedStep == TypeOK /\ Backed /\ [Next]_vars => Backed'
<1> SUFFICES ASSUME TypeOK, Backed, [Next]_vars PROVE Backed'
  OBVIOUS
<1>0. \A s \in Rpc : Live(s) => rpc[s] \in Request /\ RequestBacked(rpc[s], sent)
  BY DEF TypeOK, Live, Backed
<1>a. ASSUME NEW s \in Rpc, NEW r, RequestBacked(r, sent), SetSlot(s, r),
             UNCHANGED <<trades, disk, sent>>
      PROVE  Backed'
  <2>1. \A u \in Rpc : Live(u)' => RequestBacked(rpc'[u], sent')
    BY <1>a, SlotBacked
  <2> QED BY <1>a, <2>1 DEF Backed
<1>b. ASSUME NEW s \in Rpc, NEW r, RequestBacked(r, sent), SetSlot(s, r),
             NEW n \in Node, NEW v, Justified(n, v, sent),
             \/ trades' = [trades EXCEPT ![n] = Insert(@, v)]
             \/ trades' = [trades EXCEPT ![n] = UpdateTree(@, v)],
             UNCHANGED <<disk, sent>>
      PROVE  Backed'
  <2>1. \A u \in Rpc : Live(u)' => RequestBacked(rpc'[u], sent')
    BY <1>b, SlotBacked
  <2>2. \A m \in Node : \A t \in trades'[m] \cup disk'[m].trades : Justified(m, t, sent')
    BY <1>b, JustifiedWritten
  <2> QED BY <1>b, <2>1, <2>2 DEF Backed
<1>1. ASSUME NEW s \in Rpc, NEW w \in Want, PostIWant(s, w) PROVE Backed'
  <2> DEFINE r == Call("IWant", w.requester, w.provider, w.id, {})
  <2>1. RequestBacked(r, sent) /\ Settle(r) = r
    BY DEF RequestBacked, Call, CommitKind, Settle
  <2>2. SetSlot(s, r)
    BY <1>1, <2>1 DEF PostIWant, SetSlot
  <2> HIDE DEF r
  <2> QED BY <1>1, <1>a, <2>1, <2>2 DEF PostIWant
<1>2. ASSUME NEW s \in Rpc, NEW n \in Node, NEW w \in iWants[n], PostStartCommit(s, n, w)
      PROVE  Backed'
  <2> DEFINE t == [id |-> w.id, requester |-> w.requester, provider |-> n,
                   status |-> "WaitingRT1Commit", isRequester |-> FALSE]
             r == Call("StartCommit", n, w.requester, w.id, {t})
  <2>1. RequestBacked(r, sent) /\ Settle(r) = r
    BY DEF RequestBacked, Call, CommitKind, Settle
  <2>2. SetSlot(s, r)
    BY <1>2, <2>1 DEF PostStartCommit, SetSlot
  <2> HIDE DEF r
  <2> QED BY <1>2, <1>a, <2>1, <2>2 DEF PostStartCommit
<1>3. ASSUME NEW s \in Rpc, HandleIWant(s) PROVE Backed'
  <2> DEFINE r == Answered(rpc[s], "Ack")
  <2>1. rpc[s] \in Request /\ RequestBacked(rpc[s], sent)
    BY <1>0, <1>3 DEF HandleIWant, Arriving
  <2>2. RequestBacked(r, sent)
    <3>1. SameCore(r, rpc[s])
      BY <2>1 DEF SameCore, Answered, Request
    <3> HIDE DEF r
    <3> QED BY <2>1, <3>1, BackedKept
  <2> HIDE DEF r
  <2> QED BY <1>3, <1>a, <2>2 DEF HandleIWant, r
<1>4. ASSUME NEW s \in Rpc, HandleStartCommit(s) PROVE Backed'
  <2> DEFINE r == Answered(rpc[s], "Ack")
  <2>1. rpc[s] \in Request /\ RequestBacked(rpc[s], sent)
    BY <1>0, <1>4 DEF HandleStartCommit, Arriving
  <2>2. RequestBacked(r, sent)
    <3>1. SameCore(r, rpc[s])
      BY <2>1 DEF SameCore, Answered, Request
    <3> HIDE DEF r
    <3> QED BY <2>1, <3>1, BackedKept
  <2>3. PICK t \in Received(s) :
          trades' = [trades EXCEPT ![rpc[s].to] = Insert(@, UpdateStatus(t, "RSendT1Commit"))]
    BY <1>4 DEF HandleStartCommit
  <2> DEFINE v == UpdateStatus(t, "RSendT1Commit")
  <2>4. t \in TradeRecord /\ rpc[s].to \in Node
    BY <2>1, ReceivedTyped DEF Request
  <2>5. v.status = "RSendT1Commit"
    BY <2>4 DEF UpdateStatus, TradeRecord
  <2>6. Justified(rpc[s].to, v, sent)
    BY <2>5 DEF Justified, Prior
  <2>7. SetSlot(s, r)
    BY <1>4 DEF HandleStartCommit
  <2> HIDE DEF r, v
  <2>8. trades' = [trades EXCEPT ![rpc[s].to] = Insert(@, v)]
    BY <2>3 DEF v
  <2> QED BY <1>4, <1>b, <2>2, <2>4, <2>6, <2>7, <2>8 DEF HandleStartCommit
<1>5. ASSUME NEW s \in Rpc, NEW kind \in CommitKind, HandleCommit(s, kind) PROVE Backed'
  <2> DEFINE ok == [Answered(rpc[s], "Ack") EXCEPT !.verify = Awaiting(s)]
             bad == Answered(rpc[s], "Bad")
  <2>1. rpc[s] \in Request /\ RequestBacked(rpc[s], sent) /\ rpc[s].kind = kind
    BY <1>0, <1>5 DEF HandleCommit, Arriving
  <2>2. RequestBacked(bad, sent)
    <3>1. SameCore(bad, rpc[s])
      BY <2>1 DEF SameCore, Answered, Request
    <3> HIDE DEF bad
    <3> QED BY <2>1, <3>1, BackedKept
  <2>3. RequestBacked(ok, sent)
    BY <2>1 DEF RequestBacked, Answered, Request, Awaiting
  <2>4. SetSlot(s, ok) \/ SetSlot(s, bad)
    BY <1>5 DEF HandleCommit
  <2> HIDE DEF ok, bad
  <2> QED BY <1>5, <1>a, <2>2, <2>3, <2>4 DEF HandleCommit
<1>6. ASSUME NEW s \in Rpc, RouteAnswered(s) PROVE Backed'
  <2> DEFINE r == [rpc[s] EXCEPT !.caller = "gone", !.reply = "none"]
  <2>1. rpc[s] \in Request /\ RequestBacked(rpc[s], sent)
    BY <1>0, <1>6 DEF RouteAnswered
  <2>2. RequestBacked(r, sent)
    <3>1. SameCore(r, rpc[s])
      BY <2>1 DEF SameCore, Request
    <3> HIDE DEF r
    <3> QED BY <2>1, <3>1, BackedKept
  <2>3. SetSlot(s, r)
    BY <1>6 DEF RouteAnswered
  <2> HIDE DEF r
  <2>4. CASE UNCHANGED trades
    BY <1>6, <1>a, <2>2, <2>3, <2>4 DEF RouteAnswered
  <2>5. ASSUME NEW t \in rpc[s].snap, trades' = [trades EXCEPT ![rpc[s].from] = Insert(@, t)]
        PROVE  Backed'
    <3>1. rpc[s].from \in Node
      BY <2>1 DEF Request
    <3>2. t.status = "WaitingRT1Commit"
      BY <1>6, <2>1 DEF RouteAnswered, RequestBacked, CommitKind
    <3>3. Justified(rpc[s].from, t, sent)
      BY <3>2 DEF Justified, Prior
    <3> QED BY <1>6, <1>b, <2>2, <2>3, <2>5, <3>1, <3>3 DEF RouteAnswered
  <2> QED BY <1>6, <2>4, <2>5 DEF RouteAnswered
<1>7. ASSUME NEW s \in Rpc, SendAnswered(s) PROVE Backed'
  <2> DEFINE r == [rpc[s] EXCEPT !.caller = "event", !.reply = "none"]
  <2>1. rpc[s] \in Request /\ RequestBacked(rpc[s], sent) /\ rpc[s].kind \in CommitKind
    BY <1>0, <1>7 DEF SendAnswered, IsSend
  <2>2. RequestBacked(r, sent)
    <3>1. SameCore(r, rpc[s])
      BY <2>1 DEF SameCore, Request
    <3> HIDE DEF r
    <3> QED BY <2>1, <3>1, BackedKept
  <2>3. PICK t \in rpc[s].snap :
          trades' = [trades EXCEPT ![rpc[s].from] = UpdateTree(@, ToWaiting(t))]
    BY <1>7 DEF SendAnswered
  <2>4. t \in TradeRecord /\ rpc[s].from \in Node /\ t.status \in SendStatus
    BY <2>1 DEF Request, RequestBacked
  <2>5. Justified(rpc[s].from, ToWaiting(t), sent)
    BY <2>4, StatusPrior DEF Justified
  <2>6. SetSlot(s, r)
    BY <1>7 DEF SendAnswered
  <2> HIDE DEF r
  <2> QED BY <1>7, <1>b, <2>2, <2>3, <2>4, <2>5, <2>6 DEF SendAnswered
<1>8. ASSUME NEW s \in Rpc, CallFailed(s) PROVE Backed'
  <2> DEFINE r == [rpc[s] EXCEPT
                     !.caller = IF rpc[s].kind \in CommitKind THEN "event" ELSE "gone",
                     !.reply = "none"]
  <2>1. rpc[s] \in Request /\ RequestBacked(rpc[s], sent)
    BY <1>0, <1>8 DEF CallFailed
  <2>2. RequestBacked(r, sent)
    <3>1. SameCore(r, rpc[s])
      BY <2>1 DEF SameCore, Request
    <3> HIDE DEF r
    <3> QED BY <2>1, <3>1, BackedKept
  <2>3. SetSlot(s, r)
    BY <1>8 DEF CallFailed
  <2> HIDE DEF r
  <2> QED BY <1>8, <1>a, <2>2, <2>3 DEF CallFailed
<1>9. ASSUME NEW s \in Rpc, ProcEvent(s) PROVE Backed'
  <2> DEFINE r == [rpc[s] EXCEPT !.caller = "gone"]
  <2>1. rpc[s] \in Request /\ RequestBacked(rpc[s], sent)
    BY <1>0, <1>9 DEF ProcEvent
  <2>2. RequestBacked(r, sent)
    <3>1. SameCore(r, rpc[s])
      BY <2>1 DEF SameCore, Request
    <3> HIDE DEF r
    <3> QED BY <2>1, <3>1, BackedKept
  <2>3. SetSlot(s, r)
    BY <1>9 DEF ProcEvent
  <2> HIDE DEF r
  <2> QED BY <1>9, <1>a, <2>2, <2>3 DEF ProcEvent
<1>10. ASSUME NEW s \in Rpc, VerifyStart(s) PROVE Backed'
  <2>1. rpc[s] \in Request /\ RequestBacked(rpc[s], sent)
    BY <1>0, <1>10 DEF VerifyStart
  <2>2. PICK t \in rpc[s].verify :
          /\ t.status \in WaitStatus
          /\ trades' = [trades EXCEPT ![rpc[s].to] = UpdateTree(@, ToProcessing(t))]
          /\ SetSlot(s, [rpc[s] EXCEPT !.verify = {ToProcessing(t)}])
    BY <1>10 DEF VerifyStart
  <2> DEFINE r == [rpc[s] EXCEPT !.verify = {ToProcessing(t)}]
             v == ToProcessing(t)
  <2>3. /\ t \in TradeRecord /\ rpc[s].to \in Node /\ rpc[s].kind \in CommitKind
        /\ t.id = rpc[s].id /\ CounterParty(t) = rpc[s].from
        /\ t.status = AwaitStatus(rpc[s].kind)
        /\ Msg(rpc[s].kind, rpc[s].from, rpc[s].to, rpc[s].id) \in sent
    BY <2>1, <2>2, WaitNotProc DEF Request, RequestBacked
  <2>4. Prior(v.status) = {rpc[s].kind} /\ v.status \in ProcStatus
    BY <2>3, StatusPrior
  <2>5. v.id = t.id /\ CounterParty(v) = CounterParty(t)
    BY <2>3, StatusKeeps DEF ToProcessing
  <2> HIDE DEF v
  <2>6. Justified(rpc[s].to, v, sent)
    BY <2>3, <2>4, <2>5 DEF Justified
  <2>7. r = [rpc[s] EXCEPT !.verify = {v}]
    BY DEF v
  <2>8. RequestBacked(r, sent)
    BY <2>1, <2>3, <2>4, <2>5, <2>7 DEF RequestBacked, Request
  <2> HIDE DEF r
  <2>9. SetSlot(s, r) /\ trades' = [trades EXCEPT ![rpc[s].to] = UpdateTree(@, v)]
    BY <2>2 DEF r, v
  <2> QED BY <1>10, <1>b, <2>3, <2>6, <2>8, <2>9 DEF VerifyStart
<1>11. ASSUME NEW s \in Rpc, VerifyEnd(s) PROVE Backed'
  <2> DEFINE r == [rpc[s] EXCEPT !.verify = {}]
  <2>1. rpc[s] \in Request /\ RequestBacked(rpc[s], sent)
    BY <1>0, <1>11 DEF VerifyEnd
  <2>2. RequestBacked(r, sent)
    <3>1. SameCore(r, rpc[s])
      BY <2>1 DEF SameCore, Request
    <3> HIDE DEF r
    <3> QED BY <2>1, <3>1, BackedKept
  <2>3. PICK t \in rpc[s].verify :
          /\ t.status \in ProcStatus
          /\ trades' = [trades EXCEPT ![rpc[s].to] = UpdateTree(@, ToSend(t))]
    BY <1>11 DEF VerifyEnd
  <2>4. /\ t \in TradeRecord /\ rpc[s].to \in Node /\ rpc[s].kind \in CommitKind
        /\ t.id = rpc[s].id /\ CounterParty(t) = rpc[s].from
        /\ Prior(t.status) = {rpc[s].kind}
        /\ Msg(rpc[s].kind, rpc[s].from, rpc[s].to, rpc[s].id) \in sent
    BY <2>1, <2>3, AwaitFacts DEF Request, RequestBacked
  <2>5. ToSend(t).id = t.id /\ CounterParty(ToSend(t)) = CounterParty(t)
    BY <2>4, StatusKeeps DEF ToSend
  <2>6. Prior(ToSend(t).status) = {rpc[s].kind}
    BY <2>3, <2>4, StatusPrior
  <2>7. Justified(rpc[s].to, ToSend(t), sent)
    BY <2>4, <2>5, <2>6 DEF Justified
  <2>8. SetSlot(s, r)
    BY <1>11 DEF VerifyEnd
  <2> HIDE DEF r
  <2> QED BY <1>11, <1>b, <2>2, <2>3, <2>4, <2>7, <2>8 DEF VerifyEnd
<1>12. ASSUME NEW s \in Rpc, Lose(s) PROVE Backed'
  <2> DEFINE r == [rpc[s] EXCEPT !.inFlight = FALSE]
  <2>1. rpc[s] \in Request /\ RequestBacked(rpc[s], sent)
    BY <1>0, <1>12 DEF Lose
  <2>2. RequestBacked(r, sent)
    <3>1. SameCore(r, rpc[s])
      BY <2>1 DEF SameCore, Request
    <3> HIDE DEF r
    <3> QED BY <2>1, <3>1, BackedKept
  <2>3. SetSlot(s, r)
    BY <1>12 DEF Lose
  <2> HIDE DEF r
  <2> QED BY <1>12, <1>a, <2>2, <2>3 DEF Lose
<1>13. ASSUME NEW n \in Node, Tick(n) PROVE Backed'
  <2> DEFINE new == {[kind |-> KindToSend(t.status), from |-> n,
                      to |-> CounterParty(t), id |-> t.id] : t \in Due(n)}
  <2>1. sent' = sent \cup new
    BY <1>13 DEF Tick
  <2>2. \A t \in Due(n) : t \in trades[n] /\ t \in TradeRecord /\ t.status \in SendStatus
                          /\ Justified(n, t, sent)
    BY DEF Due, TypeOK, Backed
  <2>3. \A m \in Node : \A t \in trades'[m] \cup disk'[m].trades : Justified(m, t, sent')
    BY <1>13, <2>1 DEF Tick, Backed, Justified
  <2>4. ASSUME NEW s \in Rpc, Live(s)' PROVE RequestBacked(rpc'[s], sent')
    <3>1. PICK slot \in Injection(Due(n), FreeSlots) :
            rpc' = [u \in Rpc |->
              IF \E t \in Due(n) : slot[t] = u
                THEN LET t == CHOOSE d \in Due(n) : slot[d] = u
                     IN Call(KindToSend(t.status), n, CounterParty(t), t.id, {t})
                ELSE rpc[u]]
      BY <1>13 DEF Tick
    <3>2. CASE \E t \in Due(n) : slot[t] = s
      <4>1. PICK t \in Due(n) :
              rpc'[s] = Call(KindToSend(t.status), n, CounterParty(t), t.id, {t})
        BY <3>1, <3>2
      <4>2. KindToSend(t.status) \in CommitKind
        BY DEF KindToSend, CommitKind
      <4>3. Msg(KindToSend(t.status), n, CounterParty(t), t.id) \in sent'
        BY <2>1 DEF Msg
      <4> QED BY <4>1, <4>2, <4>3, <2>2 DEF RequestBacked, Call
    <3>3. CASE ~ \E t \in Due(n) : slot[t] = s
      <4>1. rpc'[s] = rpc[s] /\ Live(s)
        BY <3>1, <3>3, <2>4 DEF Live
      <4>2. RequestBacked(rpc[s], sent)
        BY <1>0, <4>1
      <4> QED BY <2>1, <4>1, <4>2 DEF RequestBacked
    <3> QED BY <3>2, <3>3
  <2>5. Chained(sent')
    <3> SUFFICES ASSUME NEW a \in Node, NEW b \in Node, NEW i \in Id
                 PROVE  /\ Msg("T1ProviderCommit", a, b, i) \in sent' =>
                             Msg("T1RequesterCommit", b, a, i) \in sent'
                        /\ Msg("T2RequesterCommit", a, b, i) \in sent' =>
                             Msg("T1ProviderCommit", b, a, i) \in sent'
      BY DEF Chained
    <3>1. ASSUME Msg("T1ProviderCommit", a, b, i) \in new
          PROVE  Msg("T1RequesterCommit", b, a, i) \in sent
      <4>1. PICK t \in Due(n) : /\ KindToSend(t.status) = "T1ProviderCommit"
                                /\ n = a /\ CounterParty(t) = b /\ t.id = i
        BY <3>1 DEF Msg
      <4>2. Prior(t.status) = {"T1RequesterCommit"}
        BY <4>1, <2>2 DEF KindToSend, Prior, SendStatus
      <4> QED BY <4>1, <4>2, <2>2 DEF Justified
    <3>2. ASSUME Msg("T2RequesterCommit", a, b, i) \in new
          PROVE  Msg("T1ProviderCommit", b, a, i) \in sent
      <4>1. PICK t \in Due(n) : /\ KindToSend(t.status) = "T2RequesterCommit"
                                /\ n = a /\ CounterParty(t) = b /\ t.id = i
        BY <3>2 DEF Msg
      <4>2. Prior(t.status) = {"T1ProviderCommit"}
        BY <4>1, <2>2 DEF KindToSend, Prior, SendStatus
      <4> QED BY <4>1, <4>2, <2>2 DEF Justified
    <3> HIDE DEF new
    <3> QED BY <2>1, <3>1, <3>2 DEF Backed, Chained
  <2> QED BY <2>3, <2>4, <2>5 DEF Backed
<1>14. ASSUME NEW n \in Node, Flush(n) PROVE Backed'
  <2>1. \A m \in Node : trades'[m] = trades[m] /\ disk'[m].trades \in {trades[m], disk[m].trades}
    BY <1>14 DEF Flush, TypeOK
  <2>2. \A m \in Node : \A t \in trades'[m] \cup disk'[m].trades : Justified(m, t, sent')
    BY <1>14, <2>1 DEF Flush, Backed
  <2> QED BY <1>14, <2>2 DEF Flush, Backed, Live
<1>15. ASSUME NEW n \in Node, Crash(n) PROVE Backed'
  <2>1. \A m \in Node : disk'[m] = disk[m] /\ trades'[m] \in {trades[m], disk[m].trades}
    BY <1>15 DEF Crash, TypeOK
  <2>2. \A m \in Node : \A t \in trades'[m] \cup disk'[m].trades : Justified(m, t, sent')
    BY <1>15, <2>1 DEF Crash, Backed
  <2>3. ASSUME NEW s \in Rpc, Live(s)' PROVE RequestBacked(rpc'[s], sent')
    <3>1. Live(s) /\ rpc'[s] = AfterCrash(rpc[s], n)
      BY <1>15, <2>3, SettleCases DEF Crash, Live, TypeOK
    <3>2. rpc[s] \in Request /\ RequestBacked(rpc[s], sent)
      BY <1>0, <3>1
    <3>3. SameCore(AfterCrash(rpc[s], n), rpc[s])
      BY <3>2 DEF SameCore, AfterCrash, Request
    <3>4. RequestBacked(AfterCrash(rpc[s], n), sent)
      BY <3>2, <3>3, BackedKept
    <3> QED BY <1>15, <3>1, <3>4 DEF Crash
  <2> QED BY <1>15, <2>2, <2>3 DEF Crash, Backed
<1>16. CASE UNCHANGED vars
  BY <1>16 DEF vars, Backed, Live
<1> QED
  BY <1>1, <1>2, <1>3, <1>4, <1>5, <1>6, <1>7, <1>8, <1>9, <1>10, <1>11, <1>12,
     <1>13, <1>14, <1>15, <1>16
     DEF Next, Handle, HandleT1RequesterCommit, HandleT1ProviderCommit,
         HandleT2RequesterCommit, CommitKind

(* The inductive invariant holds in every reachable state. *)
THEOREM AlwaysBacked == Spec => []Backed
<1>1. Init => Backed
  BY DEF Init, Backed, Chained, Live
<1> QED BY <1>1, BackedStep, TypeCorrect, PTL DEF Spec

(* Commits are given in order, each against the one before it, and only a  *)
(* paid requester is served.                                               *)
THEOREM OrderedCommits == Spec => []CommitOrder
<1>1. Backed => CommitOrder
  BY DEF Backed, CommitOrder, Justified, Prior
<1> QED BY <1>1, AlwaysBacked, PTL
=============================================================================
