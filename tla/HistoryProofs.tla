---------------------------- MODULE HistoryProofs ----------------------------
(***************************************************************************)
(* Proofs about the loading of commit histories: the type invariant, where *)
(* stored commits come from, and the bound on the requests to a peer.      *)
(***************************************************************************)
EXTENDS History, TLAPS

USE PeerAssumption, ProviderAssumption, KnownAssumption

-----------------------------------------------------------------------------
(* The type invariant.                                                     *)

Pc == {"idle", "dht", "loading", "asking", "writing", "done"}

(* A task record with one field changed is one. *)
LEMMA FieldTyped ==
  ASSUME NEW t \in TaskRecord
  PROVE  /\ \A x \in Pc : [t EXCEPT !.pc = x] \in TaskRecord
         /\ \A x \in Peer \cup {NoPeer} : [t EXCEPT !.head = x] \in TaskRecord
         /\ \A x \in SUBSET Peer : [t EXCEPT !.rest = x] \in TaskRecord
         /\ \A x \in 0..4 : [t EXCEPT !.count = x] \in TaskRecord
         /\ \A x \in {"Pending", "InProgress", "Ended"} :
              [t EXCEPT !.state = x] \in TaskRecord
         /\ \A x \in {"none", "Ack", "Bad"} : [t EXCEPT !.reply = x] \in TaskRecord
         /\ \A x \in SUBSET Update : [t EXCEPT !.update = x] \in TaskRecord
         /\ \A x \in SUBSET Commit : [t EXCEPT !.seen = x] \in TaskRecord
<1>1. \A x \in Pc : [t EXCEPT !.pc = x] \in TaskRecord
  BY DEF TaskRecord, Pc
<1>2. \A x \in Peer \cup {NoPeer} : [t EXCEPT !.head = x] \in TaskRecord
  BY DEF TaskRecord
<1>3. \A x \in SUBSET Peer : [t EXCEPT !.rest = x] \in TaskRecord
  BY DEF TaskRecord
<1>4. \A x \in 0..4 : [t EXCEPT !.count = x] \in TaskRecord
  BY DEF TaskRecord
<1>5. \A x \in {"Pending", "InProgress", "Ended"} : [t EXCEPT !.state = x] \in TaskRecord
  BY DEF TaskRecord
<1>6. \A x \in {"none", "Ack", "Bad"} : [t EXCEPT !.reply = x] \in TaskRecord
  BY DEF TaskRecord
<1>7. \A x \in SUBSET Update : [t EXCEPT !.update = x] \in TaskRecord
  BY DEF TaskRecord
<1>8. \A x \in SUBSET Commit : [t EXCEPT !.seen = x] \in TaskRecord
  BY DEF TaskRecord
<1> QED BY <1>1, <1>2, <1>3, <1>4, <1>5, <1>6, <1>7, <1>8

(* A record of query_from is a task record with another count and head, a   *)
(* head that was next in line or is none, and fewer peers left.            *)
LEMMA QueryFromTyped ==
  ASSUME NEW t \in TaskRecord, NEW u \in QueryFrom(t)
  PROVE  /\ u \in TaskRecord
         /\ u.pc = t.pc /\ u.wallet = t.wallet /\ u.state = t.state
         /\ u.update = t.update /\ u.seen = t.seen
         /\ u.rest \subseteq t.rest
         /\ \/ t.count <= 3 /\ u.count = t.count + 1 /\ u.head = t.head /\ u.rest = t.rest
            \/ u.count = 1 /\ u.head = NoPeer
            \/ u.count = 1 /\ u.head \in t.rest /\ u.head \notin u.rest
<1>1. CASE t.count <= 3
  <2>1. u = [t EXCEPT !.count = t.count + 1]
    BY <1>1 DEF QueryFrom
  <2>2. t.count + 1 \in 0..4
    BY <1>1 DEF TaskRecord
  <2>3. u \in TaskRecord
    BY <2>1, <2>2 DEF TaskRecord
  <2>4. /\ u.pc = t.pc /\ u.wallet = t.wallet /\ u.state = t.state
        /\ u.update = t.update /\ u.seen = t.seen
        /\ u.count = t.count + 1 /\ u.head = t.head /\ u.rest = t.rest
    BY <2>1 DEF TaskRecord
  <2> QED BY <1>1, <2>3, <2>4
<1>2. CASE ~(t.count <= 3) /\ t.rest = {}
  <2>1. u = [t EXCEPT !.count = 1, !.head = NoPeer]
    BY <1>2 DEF QueryFrom
  <2>2. u \in TaskRecord
    <3>1. u = [[t EXCEPT !.count = 1] EXCEPT !.head = NoPeer]
      BY <2>1
    <3>2. [t EXCEPT !.count = 1] \in TaskRecord
      <4>1. 1 \in 0..4
        OBVIOUS
      <4> QED BY <4>1, FieldTyped, Zenon
    <3> QED BY <3>1, <3>2, FieldTyped
  <2>3. /\ u.pc = t.pc /\ u.wallet = t.wallet /\ u.state = t.state
        /\ u.update = t.update /\ u.seen = t.seen
        /\ u.count = 1 /\ u.head = NoPeer /\ u.rest = t.rest
    BY <2>1 DEF TaskRecord
  <2> QED BY <2>2, <2>3
<1>3. CASE ~(t.count <= 3) /\ t.rest # {}
  <2>1. PICK p \in t.rest : u = [t EXCEPT !.count = 1, !.head = p, !.rest = t.rest \ {p}]
    BY <1>3 DEF QueryFrom
  <2>2. p \in Peer /\ t.rest \ {p} \in SUBSET Peer
    BY DEF TaskRecord
  <2>3. u \in TaskRecord
    <3>1. u = [[[t EXCEPT !.count = 1] EXCEPT !.head = p] EXCEPT !.rest = t.rest \ {p}]
      BY <2>1
    <3>2. [t EXCEPT !.count = 1] \in TaskRecord
      <4>1. 1 \in 0..4
        OBVIOUS
      <4> QED BY <4>1, FieldTyped, Zenon
    <3>3. [[t EXCEPT !.count = 1] EXCEPT !.head = p] \in TaskRecord
      BY <2>2, <3>2, FieldTyped
    <3> QED BY <2>2, <3>1, <3>3, FieldTyped
  <2>4. /\ u.pc = t.pc /\ u.wallet = t.wallet /\ u.state = t.state
        /\ u.update = t.update /\ u.seen = t.seen
        /\ u.count = 1 /\ u.head = p /\ u.rest = t.rest \ {p}
    BY <2>1 DEF TaskRecord
  <2> QED BY <2>3, <2>4
<1> QED BY <1>1, <1>2, <1>3
(* The record an action gives its task. *)
LEMMA SetTaskTyped ==
  ASSUME TypeOK, NEW k \in Task, NEW t \in TaskRecord, SetTask(k, t)
  PROVE  /\ task' \in [Task -> TaskRecord]
         /\ task'[k] = t
         /\ \A l \in Task \ {k} : task'[l] = task[l]
  BY DEF TypeOK, SetTask

LEMMA FinishTyped ==
  ASSUME TypeOK, NEW k \in Task, Finish(k)
  PROVE  TypeOK'
<1>1. [task[k] EXCEPT !.pc = "done"] \in TaskRecord
  BY FieldTyped DEF TypeOK, Pc
<1>2. task' \in [Task -> TaskRecord]
  BY <1>1, SetTaskTyped DEF Finish
<1>3. task[k].wallet \in Wallet
  BY DEF TypeOK, TaskRecord
<1> QED BY <1>2, <1>3 DEF Finish, TypeOK

(* A task that asks has a peer to ask. *)
HeadOK == \A k \in Task : task[k].pc = "asking" => task[k].head \in Peer

(* Every step keeps the type invariant. *)
LEMMA TypeStep ==
  ASSUME TypeOK, HeadOK, [Next]_vars
  PROVE  TypeOK'
<1> USE DEF TypeOK
<1>1. ASSUME NEW k \in Task, VerifyWantsHistory(k) PROVE TypeOK'
  <2>1. PICK pc \in Pc : SetTask(k, [task[k] EXCEPT !.pc = pc])
    BY <1>1 DEF VerifyWantsHistory, Pc
  <2>2. task' \in [Task -> TaskRecord]
    BY <2>1, FieldTyped, SetTaskTyped
  <2> QED BY <1>1, <2>2 DEF VerifyWantsHistory
<1>2. ASSUME NEW k \in Task, ProvidersFound(k) PROVE TypeOK'
  <2>1. PICK p \in Peer \cup {NoPeer}, rest \in SUBSET Peer :
          SetTask(k, [task[k] EXCEPT !.pc = "loading", !.head = p, !.rest = rest])
    <3>1. task[k].wallet \in Wallet
      BY DEF TaskRecord
    <3> QED BY <1>2, <3>1 DEF ProvidersFound
  <2>2. [task[k] EXCEPT !.pc = "loading"] \in TaskRecord
    BY FieldTyped DEF Pc
  <2>3. [[[task[k] EXCEPT !.pc = "loading"] EXCEPT !.head = p] EXCEPT !.rest = rest]
          \in TaskRecord
    BY <2>2, FieldTyped
  <2>4. task' \in [Task -> TaskRecord]
    BY <2>1, <2>3, SetTaskTyped
  <2> QED BY <1>2, <2>4 DEF ProvidersFound
<1>3. ASSUME NEW k \in Task, ProvidersFailed(k) PROVE TypeOK'
  BY <1>3, FinishTyped DEF ProvidersFailed
<1>4. ASSUME NEW k \in Task, TickAsks(k) PROVE TypeOK'
  <2>1. PICK t \in QueryFrom(task[k]) :
          /\ t.head # NoPeer
          /\ SetTask(k, [t EXCEPT !.pc = "asking", !.reply = "none"])
          /\ asks' = [asks EXCEPT ![k][t.head] = @ + 1]
    BY <1>4 DEF TickAsks
  <2>2. t \in TaskRecord
    BY QueryFromTyped
  <2>3. [t EXCEPT !.pc = "asking"] \in TaskRecord
    BY <2>2, FieldTyped DEF Pc
  <2>4. [[t EXCEPT !.pc = "asking"] EXCEPT !.reply = "none"] \in TaskRecord
    BY <2>3, FieldTyped
  <2>5. task' \in [Task -> TaskRecord]
    BY <2>1, <2>4, SetTaskTyped
  <2>6. asks' \in [Task -> [Peer -> Nat]]
    <3>1. t.head \in Peer
      BY <2>1, <2>2 DEF TaskRecord
    <3>2. asks[k] \in [Peer -> Nat] /\ asks[k][t.head] + 1 \in Nat
      BY <3>1
    <3>3. [asks[k] EXCEPT ![t.head] = asks[k][t.head] + 1] \in [Peer -> Nat]
      BY <3>2
    <3>4. asks' = [asks EXCEPT ![k] = [asks[k] EXCEPT ![t.head] = asks[k][t.head] + 1]]
      BY <2>1
    <3> QED BY <3>3, <3>4
  <2> QED BY <1>4, <2>5, <2>6 DEF TickAsks
<1>5. ASSUME NEW k \in Task, TickNoPeers(k) \/ TickEnded(k) PROVE TypeOK'
  BY <1>5, FinishTyped DEF TickNoPeers, TickEnded
<1>6. ASSUME NEW k \in Task, PeerServes(k) PROVE TypeOK'
  <2>1. PICK reply \in {"Ack", "Bad"} : SetTask(k, [task[k] EXCEPT !.reply = reply])
    BY <1>6 DEF PeerServes
  <2>2. task' \in [Task -> TaskRecord]
    BY <2>1, FieldTyped, SetTaskTyped
  <2>3. task[k].wallet \in Wallet /\ task[k].head \in Peer
    BY <1>6 DEF PeerServes, At, HeadOK, TaskRecord
  <2>4. Known[task[k].head][task[k].wallet] \in SUBSET Commit
    BY <2>3
  <2>5. [wallet |-> task[k].wallet, commits |-> Known[task[k].head][task[k].wallet]] \in Update
    BY <2>3, <2>4 DEF Update
  <2>6. updates' \subseteq Update
    BY <1>6, <2>5 DEF PeerServes
  <2> QED BY <1>6, <2>2, <2>6 DEF PeerServes
<1>7. ASSUME NEW k \in Task, AskReturns(k) PROVE TypeOK'
  <2>1. PICK state \in {"Pending", "InProgress", "Ended"} :
          SetTask(k, [task[k] EXCEPT !.pc = "loading", !.reply = "none", !.state = state])
    BY <1>7 DEF AskReturns, TaskRecord
  <2>2. [task[k] EXCEPT !.pc = "loading"] \in TaskRecord
    BY FieldTyped DEF Pc
  <2>3. [[task[k] EXCEPT !.pc = "loading"] EXCEPT !.reply = "none"] \in TaskRecord
    BY <2>2, FieldTyped
  <2>4. [[[task[k] EXCEPT !.pc = "loading"] EXCEPT !.reply = "none"] EXCEPT !.state = state]
          \in TaskRecord
    BY <2>3, FieldTyped
  <2>5. task' \in [Task -> TaskRecord]
    BY <2>1, <2>4, SetTaskTyped
  <2> QED BY <1>7, <2>5 DEF AskReturns
<1>8. ASSUME NEW k \in Task, Lag(k) PROVE TypeOK'
  BY <1>8 DEF Lag
<1>9. ASSUME NEW k \in Task, TakeUpdate(k) PROVE TypeOK'
  <2>1. PICK u \in inbox[k] :
          /\ inbox' = [inbox EXCEPT ![k] = @ \ {u}]
          /\ SetTask(k, [task[k] EXCEPT !.pc = "writing", !.update = {u},
                                        !.seen = history[u.wallet]])
    BY <1>9 DEF TakeUpdate
  <2>2. u \in Update /\ history[u.wallet] \in SUBSET Commit
    BY DEF Update
  <2>3. [task[k] EXCEPT !.pc = "writing"] \in TaskRecord
    BY FieldTyped DEF Pc
  <2>4. [[task[k] EXCEPT !.pc = "writing"] EXCEPT !.update = {u}] \in TaskRecord
    BY <2>2, <2>3, FieldTyped
  <2>5. [[[task[k] EXCEPT !.pc = "writing"] EXCEPT !.update = {u}]
           EXCEPT !.seen = history[u.wallet]] \in TaskRecord
    BY <2>2, <2>4, FieldTyped
  <2>6. task' \in [Task -> TaskRecord]
    BY <2>1, <2>5, SetTaskTyped
  <2> QED BY <1>9, <2>1, <2>6 DEF TakeUpdate
<1>10. ASSUME NEW k \in Task, WriteHistory(k) PROVE TypeOK'
  <2>1. PICK u \in task[k].update :
          /\ history' = [history EXCEPT ![u.wallet] =
               task[k].seen \cup Valid(u.commits, task[k].wallet)]
          /\ SetTask(k, [task[k] EXCEPT !.pc = "loading", !.update = {}, !.seen = {},
               !.state = "Ended"])
    BY <1>10 DEF WriteHistory
  <2>2. u \in Update /\ task[k].seen \in SUBSET Commit
    BY DEF TaskRecord
  <2>3. history' \in [Wallet -> SUBSET Commit]
    BY <2>1, <2>2 DEF Update, Valid
  <2> DEFINE t1 == [task[k] EXCEPT !.pc = "loading"]
             t2 == [t1 EXCEPT !.update = {}]
             t3 == [t2 EXCEPT !.seen = {}]
             t4 == [t3 EXCEPT !.state = "Ended"]
  <2>5. t1 \in TaskRecord
    BY FieldTyped DEF Pc
  <2>6. t4 = [task[k] EXCEPT !.pc = "loading", !.update = {}, !.seen = {},
                             !.state = "Ended"]
    OBVIOUS
  <2>7. SetTask(k, t4)
    BY <2>1, <2>6
  <2> HIDE DEF t1, t4
  <2>8. t4 \in TaskRecord
    <3>1. t2 \in TaskRecord
      BY <2>5, FieldTyped
    <3> HIDE DEF t2
    <3>2. t3 \in TaskRecord
      BY <3>1, FieldTyped
    <3> HIDE DEF t3
    <3> QED BY <3>2, FieldTyped DEF t4
  <2>9. task' \in [Task -> TaskRecord]
    BY <2>7, <2>8, SetTaskTyped
  <2> QED BY <1>10, <2>3, <2>9 DEF WriteHistory
<1>11. ASSUME NEW u \in updates, Deliver(u) \/ LoseUpdate(u) PROVE TypeOK'
  BY <1>11 DEF Deliver, LoseUpdate
<1>12. CASE UNCHANGED vars
  BY <1>12 DEF vars
<1> QED BY <1>1, <1>2, <1>3, <1>4, <1>5, <1>6, <1>7, <1>8, <1>9, <1>10, <1>11, <1>12
        DEF Next, Tick

(* What a step does to the task that takes it. *)
LEMMA TaskChange ==
  ASSUME TypeOK, NEW k \in Task, NEW t, SetTask(k, t)
  PROVE  task'[k] = t /\ \A l \in Task \ {k} : task'[l] = task[l]
  BY DEF TypeOK, SetTask

LEMMA HeadStep ==
  ASSUME TypeOK, HeadOK, [Next]_vars
  PROVE  HeadOK'
<1> USE DEF HeadOK
<1>1. ASSUME NEW k \in Task, NEW t, SetTask(k, t), t.pc # "asking" PROVE HeadOK'
  BY <1>1, TaskChange
<1>2. ASSUME NEW k \in Task, VerifyWantsHistory(k) PROVE HeadOK'
  <2>1. PICK pc \in {"done", "dht"} : SetTask(k, [task[k] EXCEPT !.pc = pc])
    BY <1>2 DEF VerifyWantsHistory
  <2>2. [task[k] EXCEPT !.pc = pc].pc # "asking"
    BY DEF TypeOK, TaskRecord
  <2> QED BY <1>1, <2>1, <2>2
<1>3. ASSUME NEW k \in Task, Finish(k) PROVE HeadOK'
  <2>1. [task[k] EXCEPT !.pc = "done"].pc # "asking"
    BY DEF TypeOK, TaskRecord
  <2> QED BY <1>1, <1>3, <2>1 DEF Finish
<1>4. ASSUME NEW k \in Task, ProvidersFound(k) PROVE HeadOK'
  <2>1. PICK p, rest :
          SetTask(k, [task[k] EXCEPT !.pc = "loading", !.head = p, !.rest = rest])
    BY <1>4 DEF ProvidersFound
  <2>2. [task[k] EXCEPT !.pc = "loading", !.head = p, !.rest = rest].pc # "asking"
    BY DEF TypeOK, TaskRecord
  <2> QED BY <1>1, <2>1, <2>2
<1>5. ASSUME NEW k \in Task, TickAsks(k) PROVE HeadOK'
  <2>1. PICK t \in QueryFrom(task[k]) :
          /\ t.head # NoPeer
          /\ SetTask(k, [t EXCEPT !.pc = "asking", !.reply = "none"])
    BY <1>5 DEF TickAsks
  <2>2. t \in TaskRecord
    BY QueryFromTyped DEF TypeOK
  <2>3. [t EXCEPT !.pc = "asking", !.reply = "none"].head \in Peer
    BY <2>1, <2>2 DEF TaskRecord
  <2> QED BY <2>1, <2>3, TaskChange
<1>6. ASSUME NEW k \in Task, PeerServes(k) PROVE HeadOK'
  <2>1. PICK reply \in {"Ack", "Bad"} : SetTask(k, [task[k] EXCEPT !.reply = reply])
    BY <1>6 DEF PeerServes
  <2>2. /\ [task[k] EXCEPT !.reply = reply].pc = task[k].pc
        /\ [task[k] EXCEPT !.reply = reply].head = task[k].head
    BY DEF TypeOK, TaskRecord
  <2> QED BY <2>1, <2>2, TaskChange
<1>7. ASSUME NEW k \in Task, AskReturns(k) PROVE HeadOK'
  <2>1. PICK state :
          SetTask(k, [task[k] EXCEPT !.pc = "loading", !.reply = "none", !.state = state])
    BY <1>7 DEF AskReturns
  <2>2. [task[k] EXCEPT !.pc = "loading", !.reply = "none", !.state = state].pc # "asking"
    BY DEF TypeOK, TaskRecord
  <2> QED BY <1>1, <2>1, <2>2
<1>8. ASSUME NEW k \in Task, TakeUpdate(k) PROVE HeadOK'
  <2>1. PICK u, seen :
          SetTask(k, [task[k] EXCEPT !.pc = "writing", !.update = {u}, !.seen = seen])
    BY <1>8 DEF TakeUpdate
  <2>2. [task[k] EXCEPT !.pc = "writing", !.update = {u}, !.seen = seen].pc # "asking"
    BY DEF TypeOK, TaskRecord
  <2> QED BY <1>1, <2>1, <2>2
<1>9. ASSUME NEW k \in Task, WriteHistory(k) PROVE HeadOK'
  <2>1. SetTask(k, [task[k] EXCEPT !.pc = "loading", !.update = {}, !.seen = {},
                                   !.state = "Ended"])
    BY <1>9 DEF WriteHistory
  <2>2. [task[k] EXCEPT !.pc = "loading", !.update = {}, !.seen = {},
                        !.state = "Ended"].pc # "asking"
    BY DEF TypeOK, TaskRecord
  <2> QED BY <1>1, <2>1, <2>2
<1>10. ASSUME UNCHANGED task PROVE HeadOK'
  BY <1>10
<1> QED BY <1>2, <1>3, <1>4, <1>5, <1>6, <1>7, <1>8, <1>9, <1>10
        DEF Next, Tick, ProvidersFailed, TickNoPeers, TickEnded, Lag, Deliver, LoseUpdate, vars

LEMMA StartTyped ==
  ASSUME NEW w \in Wallet
  PROVE  /\ Start(w) \in TaskRecord
         /\ Start(w).pc = "idle" /\ Start(w).head = NoPeer /\ Start(w).rest = {}
         /\ Start(w).count = 0 /\ Start(w).update = {}
  BY DEF Start, TaskRecord

(* Every reachable state has its declared shape. *)
THEOREM TypeCorrect == Spec => []TypeOK
<1>1. Init => TypeOK /\ HeadOK
  <2> SUFFICES ASSUME Init PROVE TypeOK /\ HeadOK
    OBVIOUS
  <2>1. task \in [Task -> TaskRecord]
    BY StartTyped DEF Init
  <2>2. \A k \in Task : task[k].pc = "idle"
    BY StartTyped DEF Init
  <2> QED BY <2>1, <2>2 DEF Init, TypeOK, HeadOK
<1>2. TypeOK /\ HeadOK /\ [Next]_vars => TypeOK' /\ HeadOK'
  BY TypeStep, HeadStep
<1> QED BY <1>1, <1>2, PTL DEF Spec

-----------------------------------------------------------------------------
(* Where stored commits come from.  What is stored under a wallet is       *)
(* sourced; so is what a task read of it before it writes it back; and an  *)
(* Update only tells what some peer has under its wallet.                  *)
Sourced(S, w) ==
  \A c \in S : c \in Reported(w) /\ \E v \in Wallet : c \in Valid({c}, v)

Told(u) == u.commits \subseteq Reported(u.wallet)

Carried(t) == \A u \in t.update : Told(u) /\ Sourced(t.seen, u.wallet)

ProvInv ==
  /\ \A w \in Wallet : Sourced(history[w], w)
  /\ \A u \in updates : Told(u)
  /\ \A k \in Task : \A u \in inbox[k] : Told(u)
  /\ \A k \in Task : Carried(task[k])

(* A task that changes neither its Update nor what it read carries the same. *)
LEMMA CarriedSame ==
  ASSUME TypeOK, ProvInv, NEW k \in Task, NEW t, SetTask(k, t),
         t.update = task[k].update, t.seen = task[k].seen
  PROVE  \A l \in Task : Carried(task'[l])
<1>1. Carried(t)
  BY DEF ProvInv, Carried
<1> QED BY <1>1, TaskChange DEF ProvInv

(* What passes the filter of a wallet and was told for another is sourced   *)
(* there.                                                                  *)
LEMMA FilteredSourced ==
  ASSUME NEW w \in Wallet, NEW u, Told(u)
  PROVE  Sourced(Valid(u.commits, w), u.wallet)
  BY DEF Told, Sourced, Valid

LEMMA ProvStep ==
  ASSUME TypeOK, HeadOK, ProvInv, [Next]_vars
  PROVE  ProvInv'
<1>1. ASSUME NEW k \in Task, NEW t, SetTask(k, t),
             t.update = task[k].update, t.seen = task[k].seen,
             UNCHANGED history, updates' \subseteq updates,
             \A l \in Task : inbox'[l] \subseteq inbox[l]
      PROVE  ProvInv'
  BY <1>1, CarriedSame DEF ProvInv
<1>2. ASSUME NEW k \in Task, VerifyWantsHistory(k) PROVE ProvInv'
  <2>1. PICK pc : SetTask(k, [task[k] EXCEPT !.pc = pc])
    BY <1>2 DEF VerifyWantsHistory
  <2>2. /\ [task[k] EXCEPT !.pc = pc].update = task[k].update
        /\ [task[k] EXCEPT !.pc = pc].seen = task[k].seen
    BY DEF TypeOK, TaskRecord
  <2> QED BY <1>1, <1>2, <2>1, <2>2 DEF VerifyWantsHistory
<1>3. ASSUME NEW k \in Task, Finish(k) PROVE ProvInv'
  <2>1. /\ [task[k] EXCEPT !.pc = "done"].update = task[k].update
        /\ [task[k] EXCEPT !.pc = "done"].seen = task[k].seen
    BY DEF TypeOK, TaskRecord
  <2>2. \A l \in Task : inbox'[l] \subseteq inbox[l]
    BY <1>3 DEF Finish, TypeOK
  <2> QED BY <1>1, <1>3, <2>1, <2>2 DEF Finish
<1>4. ASSUME NEW k \in Task, ProvidersFound(k) PROVE ProvInv'
  <2>1. PICK p, rest :
          SetTask(k, [task[k] EXCEPT !.pc = "loading", !.head = p, !.rest = rest])
    BY <1>4 DEF ProvidersFound
  <2> DEFINE t == [task[k] EXCEPT !.pc = "loading", !.head = p, !.rest = rest]
  <2>2. t.update = task[k].update /\ t.seen = task[k].seen
    BY DEF TypeOK, TaskRecord
  <2> HIDE DEF t
  <2> QED BY <1>1, <1>4, <2>1, <2>2 DEF ProvidersFound, t
<1>5. ASSUME NEW k \in Task, TickAsks(k) PROVE ProvInv'
  <2>1. PICK q \in QueryFrom(task[k]) :
          SetTask(k, [q EXCEPT !.pc = "asking", !.reply = "none"])
    BY <1>5 DEF TickAsks
  <2>2. q \in TaskRecord /\ q.update = task[k].update /\ q.seen = task[k].seen
    BY QueryFromTyped DEF TypeOK
  <2> DEFINE t == [q EXCEPT !.pc = "asking", !.reply = "none"]
  <2>3. t.update = task[k].update /\ t.seen = task[k].seen
    BY <2>2 DEF TaskRecord
  <2> HIDE DEF t
  <2> QED BY <1>1, <1>5, <2>1, <2>3 DEF TickAsks, t
<1>6. ASSUME NEW k \in Task, PeerServes(k) PROVE ProvInv'
  <2>1. PICK reply \in {"Ack", "Bad"} : SetTask(k, [task[k] EXCEPT !.reply = reply])
    BY <1>6 DEF PeerServes
  <2>2. /\ [task[k] EXCEPT !.reply = reply].update = task[k].update
        /\ [task[k] EXCEPT !.reply = reply].seen = task[k].seen
    BY DEF TypeOK, TaskRecord
  <2>3. \A l \in Task : Carried(task'[l])
    BY <2>1, <2>2, CarriedSame
  <2> DEFINE told == [wallet |-> task[k].wallet,
                      commits |-> Known[task[k].head][task[k].wallet]]
  <2>4. Told(told)
    BY <1>6 DEF PeerServes, At, HeadOK, Told, Reported
  <2>5. updates' \subseteq updates \cup {told}
    BY <1>6 DEF PeerServes
  <2> HIDE DEF told
  <2> QED BY <1>6, <2>3, <2>4, <2>5 DEF PeerServes, ProvInv
<1>7. ASSUME NEW k \in Task, AskReturns(k) PROVE ProvInv'
  <2>1. PICK state :
          SetTask(k, [task[k] EXCEPT !.pc = "loading", !.reply = "none", !.state = state])
    BY <1>7 DEF AskReturns
  <2> DEFINE t == [task[k] EXCEPT !.pc = "loading", !.reply = "none", !.state = state]
  <2>2. t.update = task[k].update /\ t.seen = task[k].seen
    BY DEF TypeOK, TaskRecord
  <2> HIDE DEF t
  <2> QED BY <1>1, <1>7, <2>1, <2>2 DEF AskReturns, t
<1>8. ASSUME NEW k \in Task, TakeUpdate(k) PROVE ProvInv'
  <2>1. PICK u \in inbox[k] :
          /\ inbox' = [inbox EXCEPT ![k] = @ \ {u}]
          /\ SetTask(k, [task[k] EXCEPT !.pc = "writing", !.update = {u},
                                        !.seen = history[u.wallet]])
    BY <1>8 DEF TakeUpdate
  <2> DEFINE t == [task[k] EXCEPT !.pc = "writing", !.update = {u},
                                  !.seen = history[u.wallet]]
  <2>2. t.update = {u} /\ t.seen = history[u.wallet]
    BY DEF TypeOK, TaskRecord
  <2>3. u.wallet \in Wallet /\ Told(u)
    BY DEF TypeOK, Update, ProvInv
  <2> HIDE DEF t
  <2>4. Carried(t)
    BY <2>2, <2>3 DEF Carried, ProvInv
  <2>5. \A l \in Task : Carried(task'[l])
    BY <2>1, <2>4, TaskChange DEF ProvInv, t
  <2>6. \A l \in Task : inbox'[l] \subseteq inbox[l]
    BY <2>1 DEF TypeOK
  <2> QED BY <1>8, <2>5, <2>6 DEF TakeUpdate, ProvInv
<1>9. ASSUME NEW k \in Task, WriteHistory(k) PROVE ProvInv'
  <2>1. PICK u \in task[k].update :
          /\ history' = [history EXCEPT ![u.wallet] =
               task[k].seen \cup Valid(u.commits, task[k].wallet)]
          /\ SetTask(k, [task[k] EXCEPT !.pc = "loading", !.update = {}, !.seen = {},
               !.state = "Ended"])
    BY <1>9 DEF WriteHistory
  <2>2. Told(u) /\ Sourced(task[k].seen, u.wallet)
    BY DEF ProvInv, Carried
  <2>3. task[k].wallet \in Wallet
    BY DEF TypeOK, TaskRecord
  <2>4. Sourced(task[k].seen \cup Valid(u.commits, task[k].wallet), u.wallet)
    BY <2>2, <2>3, FilteredSourced DEF Sourced
  <2>5. \A w \in Wallet : Sourced(history'[w], w)
    BY <2>1, <2>4 DEF TypeOK, ProvInv
  <2> DEFINE t == [task[k] EXCEPT !.pc = "loading", !.update = {}, !.seen = {},
                     !.state = "Ended"]
  <2>6. t.update = {}
    BY DEF TypeOK, TaskRecord
  <2> HIDE DEF t
  <2>7. Carried(t)
    BY <2>6 DEF Carried
  <2>8. \A l \in Task : Carried(task'[l])
    BY <2>1, <2>7, TaskChange DEF ProvInv, t
  <2> QED BY <1>9, <2>5, <2>8 DEF WriteHistory, ProvInv
<1>10. ASSUME NEW k \in Task, Lag(k) PROVE ProvInv'
  <2>1. \A l \in Task : inbox'[l] \subseteq inbox[l]
    BY <1>10 DEF Lag, TypeOK
  <2> QED BY <1>10, <2>1 DEF Lag, ProvInv
<1>11. ASSUME NEW u \in updates, Deliver(u) \/ LoseUpdate(u) PROVE ProvInv'
  <2>1. \A l \in Task : inbox'[l] \subseteq inbox[l] \cup {u}
    BY <1>11 DEF Deliver, LoseUpdate
  <2>2. updates' \subseteq updates /\ UNCHANGED <<history, task>>
    BY <1>11 DEF Deliver, LoseUpdate
  <2> QED BY <2>1, <2>2 DEF ProvInv
<1>12. CASE UNCHANGED vars
  BY <1>12 DEF vars, ProvInv
<1> QED BY <1>2, <1>3, <1>4, <1>5, <1>6, <1>7, <1>8, <1>9, <1>10, <1>11, <1>12
        DEF Next, Tick, ProvidersFailed, TickNoPeers, TickEnded

(* Whatever loads run at a time, a commit is stored under a wallet that    *)
(* some peer reported it for, and passes the checks of some wallet.        *)
THEOREM StoredWasReported == Spec => []Provenance
<1>1. Init => TypeOK /\ HeadOK /\ ProvInv
  <2> SUFFICES ASSUME Init PROVE TypeOK /\ HeadOK /\ ProvInv
    OBVIOUS
  <2>1. task \in [Task -> TaskRecord]
    BY StartTyped DEF Init
  <2>2. \A k \in Task : task[k].pc = "idle" /\ task[k].update = {}
    BY StartTyped DEF Init
  <2>3. \A k \in Task : Carried(task[k])
    BY <2>2 DEF Carried
  <2> QED BY <2>1, <2>2, <2>3 DEF Init, TypeOK, HeadOK, ProvInv, Sourced
<1>2. TypeOK /\ HeadOK /\ ProvInv /\ [Next]_vars => TypeOK' /\ HeadOK' /\ ProvInv'
  BY TypeStep, HeadStep, ProvStep
<1>3. ProvInv => Provenance
  BY DEF ProvInv, Provenance, Sourced
<1> QED BY <1>1, <1>2, <1>3, PTL DEF Spec

-----------------------------------------------------------------------------
(* The bound on requests.  The peer at the head has been asked as often as  *)
(* count says, those behind it never, and nobody before the providers are  *)
(* known.                                                                  *)
Counted(t, a) ==
  /\ \A p \in Peer : a[p] <= 4
  /\ \A p \in t.rest : a[p] = 0
  /\ t.head \notin t.rest
  /\ t.head \in Peer => a[t.head] = t.count
  /\ t.pc \in {"idle", "dht"} => t.count = 0 /\ \A p \in Peer : a[p] = 0

AsksInv == \A k \in Task : Counted(task[k], asks[k])

LEMMA AsksStep ==
  ASSUME TypeOK, AsksInv, [Next]_vars
  PROVE  AsksInv'
<1>1. ASSUME NEW k \in Task, NEW t, SetTask(k, t), UNCHANGED asks, Counted(t, asks[k])
      PROVE  AsksInv'
  BY <1>1, TaskChange DEF AsksInv
<1>2. ASSUME NEW k \in Task, NEW t, SetTask(k, t), UNCHANGED asks,
             t.head = task[k].head, t.rest = task[k].rest, t.count = task[k].count,
             t.pc \in {"idle", "dht"} => task[k].pc \in {"idle", "dht"}
      PROVE  AsksInv'
  <2>1. Counted(t, asks[k])
    BY <1>2 DEF AsksInv, Counted
  <2> QED BY <1>1, <1>2, <2>1
<1>3. ASSUME NEW k \in Task, VerifyWantsHistory(k) PROVE AsksInv'
  <2>1. PICK pc \in {"done", "dht"} : SetTask(k, [task[k] EXCEPT !.pc = pc])
    BY <1>3 DEF VerifyWantsHistory
  <2> DEFINE t == [task[k] EXCEPT !.pc = pc]
  <2>2. t.head = task[k].head /\ t.rest = task[k].rest /\ t.count = task[k].count
    BY DEF TypeOK, TaskRecord
  <2>3. task[k].pc = "idle"
    BY <1>3 DEF VerifyWantsHistory, At
  <2> HIDE DEF t
  <2> QED BY <1>2, <1>3, <2>1, <2>2, <2>3 DEF VerifyWantsHistory, t
<1>4. ASSUME NEW k \in Task, Finish(k) PROVE AsksInv'
  <2> DEFINE t == [task[k] EXCEPT !.pc = "done"]
  <2>1. /\ t.head = task[k].head /\ t.rest = task[k].rest /\ t.count = task[k].count
        /\ t.pc = "done"
    BY DEF TypeOK, TaskRecord
  <2>2. SetTask(k, t) /\ UNCHANGED asks
    BY <1>4 DEF Finish
  <2> HIDE DEF t
  <2> QED BY <1>2, <2>1, <2>2
<1>5. ASSUME NEW k \in Task, ProvidersFound(k) PROVE AsksInv'
  <2>1. PICK p \in Peer \cup {NoPeer}, rest \in SUBSET Peer :
          /\ p \notin rest
          /\ SetTask(k, [task[k] EXCEPT !.pc = "loading", !.head = p, !.rest = rest])
    <3>1. task[k].wallet \in Wallet
      BY DEF TypeOK, TaskRecord
    <3> QED BY <1>5, <3>1 DEF ProvidersFound
  <2> DEFINE t == [task[k] EXCEPT !.pc = "loading", !.head = p, !.rest = rest]
  <2>2. t.head = p /\ t.rest = rest /\ t.count = task[k].count /\ t.pc = "loading"
    BY DEF TypeOK, TaskRecord
  <2>3. task[k].count = 0 /\ \A q \in Peer : asks[k][q] = 0
    BY <1>5 DEF ProvidersFound, At, AsksInv, Counted
  <2> HIDE DEF t
  <2>4. Counted(t, asks[k])
    BY <2>1, <2>2, <2>3 DEF Counted
  <2> QED BY <1>1, <1>5, <2>1, <2>4 DEF ProvidersFound, t
<1>6. ASSUME NEW k \in Task, TickAsks(k) PROVE AsksInv'
  <2>1. PICK q \in QueryFrom(task[k]) :
          /\ q.head # NoPeer
          /\ SetTask(k, [q EXCEPT !.pc = "asking", !.reply = "none"])
          /\ asks' = [asks EXCEPT ![k][q.head] = @ + 1]
    BY <1>6 DEF TickAsks
  <2>2. task[k] \in TaskRecord
    BY DEF TypeOK
  <2>3. /\ q \in TaskRecord
        /\ q.rest \subseteq task[k].rest
        /\ \/ task[k].count <= 3 /\ q.count = task[k].count + 1
              /\ q.head = task[k].head /\ q.rest = task[k].rest
           \/ q.count = 1 /\ q.head \in task[k].rest /\ q.head \notin q.rest
    BY <2>1, <2>2, QueryFromTyped
  <2>4. q.head \in Peer
    BY <2>1, <2>3 DEF TaskRecord
  <2> DEFINE t == [q EXCEPT !.pc = "asking", !.reply = "none"]
  <2>5. t.head = q.head /\ t.rest = q.rest /\ t.count = q.count /\ t.pc = "asking"
    BY <2>3 DEF TaskRecord
  <2>6. /\ asks'[k] = [asks[k] EXCEPT ![q.head] = asks[k][q.head] + 1]
        /\ \A l \in Task \ {k} : asks'[l] = asks[l]
    BY <2>1 DEF TypeOK
  <2>7. asks[k] \in [Peer -> Nat] /\ task[k].count \in 0..4
    BY DEF TypeOK, TaskRecord
  <2>8. asks[k][q.head] + 1 = q.count /\ q.count <= 4 /\ q.head \notin q.rest
    BY <2>3, <2>4, <2>7 DEF AsksInv, Counted
  <2>9. asks'[k][q.head] = q.count /\ \A p \in Peer \ {q.head} : asks'[k][p] = asks[k][p]
    BY <2>4, <2>6, <2>7, <2>8
  <2>10. q.rest \subseteq Peer
    BY <2>3 DEF TaskRecord
  <2> HIDE DEF t
  <2>11. Counted(t, asks'[k])
    BY <2>3, <2>4, <2>5, <2>8, <2>9, <2>10 DEF AsksInv, Counted
  <2>12. task'[k] = t /\ \A l \in Task \ {k} : task'[l] = task[l]
    BY <2>1, TaskChange DEF t
  <2> QED BY <2>6, <2>11, <2>12 DEF AsksInv
<1>7. ASSUME NEW k \in Task, PeerServes(k) PROVE AsksInv'
  <2>1. PICK reply \in {"Ack", "Bad"} : SetTask(k, [task[k] EXCEPT !.reply = reply])
    BY <1>7 DEF PeerServes
  <2> DEFINE t == [task[k] EXCEPT !.reply = reply]
  <2>2. /\ t.head = task[k].head /\ t.rest = task[k].rest /\ t.count = task[k].count
        /\ t.pc = task[k].pc
    BY DEF TypeOK, TaskRecord
  <2> HIDE DEF t
  <2> QED BY <1>2, <1>7, <2>1, <2>2 DEF PeerServes, t
<1>8. ASSUME NEW k \in Task, AskReturns(k) PROVE AsksInv'
  <2>1. PICK state :
          SetTask(k, [task[k] EXCEPT !.pc = "loading", !.reply = "none", !.state = state])
    BY <1>8 DEF AskReturns
  <2> DEFINE t == [task[k] EXCEPT !.pc = "loading", !.reply = "none", !.state = state]
  <2>2. /\ t.head = task[k].head /\ t.rest = task[k].rest /\ t.count = task[k].count
        /\ t.pc = "loading"
    BY DEF TypeOK, TaskRecord
  <2> HIDE DEF t
  <2> QED BY <1>2, <1>8, <2>1, <2>2 DEF AskReturns, t
<1>9. ASSUME NEW k \in Task, TakeUpdate(k) PROVE AsksInv'
  <2>1. PICK u, seen :
          SetTask(k, [task[k] EXCEPT !.pc = "writing", !.update = {u}, !.seen = seen])
    BY <1>9 DEF TakeUpdate
  <2> DEFINE t == [task[k] EXCEPT !.pc = "writing", !.update = {u}, !.seen = seen]
  <2>2. /\ t.head = task[k].head /\ t.rest = task[k].rest /\ t.count = task[k].count
        /\ t.pc = "writing"
    BY DEF TypeOK, TaskRecord
  <2> HIDE DEF t
  <2> QED BY <1>2, <1>9, <2>1, <2>2 DEF TakeUpdate, t
<1>10. ASSUME NEW k \in Task, WriteHistory(k) PROVE AsksInv'
  <2>1. SetTask(k, [task[k] EXCEPT !.pc = "loading", !.update = {}, !.seen = {},
                                   !.state = "Ended"])
    BY <1>10 DEF WriteHistory
  <2> DEFINE t == [task[k] EXCEPT !.pc = "loading", !.update = {}, !.seen = {},
                                  !.state = "Ended"]
  <2>2. /\ t.head = task[k].head /\ t.rest = task[k].rest /\ t.count = task[k].count
        /\ t.pc = "loading"
    BY DEF TypeOK, TaskRecord
  <2> HIDE DEF t
  <2> QED BY <1>2, <1>10, <2>1, <2>2 DEF WriteHistory, t
<1>11. ASSUME UNCHANGED <<task, asks>> PROVE AsksInv'
  BY <1>11 DEF AsksInv
<1> QED BY <1>3, <1>4, <1>5, <1>6, <1>7, <1>8, <1>9, <1>10, <1>11
        DEF Next, Tick, ProvidersFailed, TickNoPeers, TickEnded, Lag, Deliver, LoseUpdate, vars

(* What LoadingState::query_from comes to: through failures, refusals and   *)
(* silence a peer is asked four times at the most, and the peers the load  *)
(* has not come to not at all.  Its comment says three times.              *)
AsksBounded ==
  \A k \in Task :
    /\ \A p \in Peer : asks[k][p] <= 4
    /\ \A p \in task[k].rest : asks[k][p] = 0

(* However its requests end, a load asks no peer more than four times.     *)
THEOREM FewAsks == Spec => []AsksBounded
<1>1. Init => TypeOK /\ HeadOK /\ AsksInv
  <2> SUFFICES ASSUME Init PROVE TypeOK /\ HeadOK /\ AsksInv
    OBVIOUS
  <2>1. task \in [Task -> TaskRecord]
    BY StartTyped DEF Init
  <2>2. \A k \in Task : /\ task[k].pc = "idle" /\ task[k].head = NoPeer
                        /\ task[k].rest = {} /\ task[k].count = 0
    BY StartTyped DEF Init
  <2>3. AsksInv
    BY <2>2 DEF Init, AsksInv, Counted
  <2> QED BY <2>1, <2>2, <2>3 DEF Init, TypeOK, HeadOK
<1>2. TypeOK /\ HeadOK /\ AsksInv /\ [Next]_vars => TypeOK' /\ HeadOK' /\ AsksInv'
  BY TypeStep, HeadStep, AsksStep
<1>3. AsksInv => AsksBounded
  BY DEF AsksInv, Counted, AsksBounded
<1> QED BY <1>1, <1>2, <1>3, PTL DEF Spec

-----------------------------------------------------------------------------
(* Writers that do not overlap lose nothing.                               *)

(* What a writer has read is still what is stored. *)
Current ==
  \A k \in Task : At(k, "writing") =>
    \A u \in task[k].update : task[k].seen = history[u.wallet]

(* A task that is not writing, while no history changes. *)
LEMMA CurrentKept ==
  ASSUME TypeOK, Current, UNCHANGED history, NEW k \in Task, NEW t, SetTask(k, t),
         t.pc # "writing"
  PROVE  Current'
<1>1. task'[k] = t /\ \A l \in Task \ {k} : task'[l] = task[l]
  BY TaskChange
<1> QED BY <1>1 DEF Current, At

(* Only a write changes a history. *)
LEMMA OthersLeaveHistories ==
  ASSUME [Next]_vars
  PROVE  UNCHANGED history \/ \E k \in Task : WriteHistory(k)
  BY DEF Next, vars, VerifyWantsHistory, ProvidersFound, ProvidersFailed, Finish, Tick, TickAsks,
         TickNoPeers, TickEnded, PeerServes, AskReturns, Lag, TakeUpdate, Deliver, LoseUpdate

(* One write, of what was read and more. *)
LEMMA WriteAdds ==
  ASSUME TypeOK, OneWriter, Current, NEW k \in Task, WriteHistory(k)
  PROVE  Current' /\ \A w \in Wallet : history[w] \subseteq history'[w]
<1>1. PICK u \in task[k].update :
        /\ history' = [history EXCEPT ![u.wallet] =
             task[k].seen \cup Valid(u.commits, task[k].wallet)]
        /\ SetTask(k, [task[k] EXCEPT !.pc = "loading", !.update = {}, !.seen = {},
             !.state = "Ended"])
  BY DEF WriteHistory
<1>2. At(k, "writing") /\ task[k].seen = history[u.wallet]
  BY DEF WriteHistory, Current
<1>3. \A w \in Wallet : history[w] \subseteq history'[w]
  BY <1>1, <1>2 DEF TypeOK
<1>4. \A w \in Wallet : w # u.wallet => history'[w] = history[w]
  BY <1>1 DEF TypeOK
<1> DEFINE t == [task[k] EXCEPT !.pc = "loading", !.update = {}, !.seen = {}, !.state = "Ended"]
<1>5. t.pc # "writing"
  BY DEF TypeOK, TaskRecord
<1>6. task'[k] = t /\ \A l \in Task \ {k} : task'[l] = task[l]
  BY <1>1, TaskChange
<1> HIDE DEF t
<1>7. ASSUME NEW l \in Task, At(l, "writing")', NEW v \in task'[l].update
      PROVE  task'[l].seen = history'[v.wallet]
  <2>1. l # k /\ task'[l] = task[l]
    BY <1>5, <1>6, <1>7 DEF At
  <2>2. At(l, "writing") /\ v \in task[l].update /\ v.wallet \in Wallet
    BY <1>7, <2>1 DEF At, TypeOK, TaskRecord, Update
  <2>3. v.wallet # u.wallet
    BY <1>2, <2>1, <2>2 DEF OneWriter
  <2> QED BY <1>4, <2>1, <2>2, <2>3 DEF Current
<1> QED BY <1>3, <1>7 DEF Current

LEMMA CurrentStep ==
  ASSUME TypeOK, OneWriter, Current, [Next]_vars
  PROVE  Current'
<1>1. ASSUME UNCHANGED <<task, history>> PROVE Current'
  BY <1>1 DEF Current, At
<1>2. ASSUME NEW k \in Task, VerifyWantsHistory(k) PROVE Current'
  <2>1. PICK pc \in {"done", "dht"} : SetTask(k, [task[k] EXCEPT !.pc = pc])
    BY <1>2 DEF VerifyWantsHistory
  <2>2. [task[k] EXCEPT !.pc = pc].pc # "writing"
    BY DEF TypeOK, TaskRecord
  <2> QED BY <1>2, <2>1, <2>2, CurrentKept DEF VerifyWantsHistory
<1>3. ASSUME NEW k \in Task, Finish(k) PROVE Current'
  <2>1. [task[k] EXCEPT !.pc = "done"].pc # "writing"
    BY DEF TypeOK, TaskRecord
  <2> QED BY <1>3, <2>1, CurrentKept DEF Finish
<1>4. ASSUME NEW k \in Task, ProvidersFound(k) PROVE Current'
  <2>1. PICK p, rest :
          SetTask(k, [task[k] EXCEPT !.pc = "loading", !.head = p, !.rest = rest])
    BY <1>4 DEF ProvidersFound
  <2>2. [task[k] EXCEPT !.pc = "loading", !.head = p, !.rest = rest].pc # "writing"
    BY DEF TypeOK, TaskRecord
  <2> QED BY <1>4, <2>1, <2>2, CurrentKept DEF ProvidersFound
<1>5. ASSUME NEW k \in Task, TickAsks(k) PROVE Current'
  <2>1. PICK q \in QueryFrom(task[k]) :
          SetTask(k, [q EXCEPT !.pc = "asking", !.reply = "none"])
    BY <1>5 DEF TickAsks
  <2>2. q \in TaskRecord
    BY QueryFromTyped DEF TypeOK
  <2>3. [q EXCEPT !.pc = "asking", !.reply = "none"].pc # "writing"
    BY <2>2 DEF TaskRecord
  <2> QED BY <1>5, <2>1, <2>3, CurrentKept DEF TickAsks
<1>6. ASSUME NEW k \in Task, PeerServes(k) PROVE Current'
  <2>1. PICK reply \in {"Ack", "Bad"} : SetTask(k, [task[k] EXCEPT !.reply = reply])
    BY <1>6 DEF PeerServes
  <2>2. [task[k] EXCEPT !.reply = reply].pc # "writing"
    BY <1>6 DEF PeerServes, At, TypeOK, TaskRecord
  <2> QED BY <1>6, <2>1, <2>2, CurrentKept DEF PeerServes
<1>7. ASSUME NEW k \in Task, AskReturns(k) PROVE Current'
  <2>1. PICK state :
          SetTask(k, [task[k] EXCEPT !.pc = "loading", !.reply = "none", !.state = state])
    BY <1>7 DEF AskReturns
  <2>2. [task[k] EXCEPT !.pc = "loading", !.reply = "none", !.state = state].pc # "writing"
    BY DEF TypeOK, TaskRecord
  <2> QED BY <1>7, <2>1, <2>2, CurrentKept DEF AskReturns
<1>8. ASSUME NEW k \in Task, TakeUpdate(k) PROVE Current'
  <2>1. PICK u \in inbox[k] :
          SetTask(k, [task[k] EXCEPT !.pc = "writing", !.update = {u},
                                     !.seen = history[u.wallet]])
    BY <1>8 DEF TakeUpdate
  <2> DEFINE t == [task[k] EXCEPT !.pc = "writing", !.update = {u}, !.seen = history[u.wallet]]
  <2>2. t.update = {u} /\ t.seen = history[u.wallet]
    BY DEF TypeOK, TaskRecord
  <2>3. task'[k] = t /\ \A l \in Task \ {k} : task'[l] = task[l]
    BY <2>1, TaskChange
  <2> HIDE DEF t
  <2>4. UNCHANGED history
    BY <1>8 DEF TakeUpdate
  <2> QED BY <2>2, <2>3, <2>4 DEF Current, At
<1>9. ASSUME NEW k \in Task, WriteHistory(k) PROVE Current'
  BY <1>9, WriteAdds
<1> QED BY <1>1, <1>2, <1>3, <1>4, <1>5, <1>6, <1>7, <1>8, <1>9
        DEF Next, Tick, ProvidersFailed, TickNoPeers, TickEnded, Lag, Deliver, LoseUpdate, vars

(* While writers of one history do not overlap, no stored commit is lost.  *)
THEOREM KeptWithoutRace == Spec /\ []OneWriter => CommitsKept
<1>1. Init => Current
  BY StartTyped DEF Init, Current, At
<1>2. TypeOK /\ OneWriter /\ Current /\ [Next]_vars => Current'
  BY CurrentStep
<1>3. TypeOK /\ OneWriter /\ Current /\ [Next]_vars
        => [\A w \in Wallet : history[w] \subseteq history'[w]]_vars
  BY OthersLeaveHistories, WriteAdds
<1> QED BY <1>1, <1>2, <1>3, TypeCorrect, PTL DEF Spec, CommitsKept
=============================================================================
