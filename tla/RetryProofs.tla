---------------------------- MODULE RetryProofs -----------------------------
(***************************************************************************)
(* Proofs about the retries of the ticker: one send() at a time for a      *)
(* trade, and, with the flag the server of this code sends, retries that   *)
(* never get anywhere.                                                     *)
(***************************************************************************)
EXTENDS ExchangeProofs

-----------------------------------------------------------------------------
(* One send at a time.                                                     *)

(* The trees are keyed by id; without it, one tick would start two sends.  *)
Keyed(tree) == \A t, u \in tree : t.id = u.id => t = u

Trees ==
  \A n \in Node : Keyed(trades[n]) /\ Keyed(disk[n].trades)

(* Only sends report to the indexer; an answer waits for its task only.    *)
Orderly(r) ==
  /\ r.caller = "event" => r.kind \in CommitKind
  /\ r.reply # "none" => r.caller = "waiting"

Reports == \A s \in Rpc : Live(s) => Orderly(rpc[s])

Guarded == Trees /\ Reports /\ SendGuard

(* Writes keep a tree keyed. *)
LEMMA KeyedWrites ==
  ASSUME NEW tree, Keyed(tree), NEW v
  PROVE  Keyed(Insert(tree, v)) /\ Keyed(UpdateTree(tree, v))
  BY DEF Keyed, Insert, UpdateTree

LEMMA TreesWritten ==
  ASSUME TypeOK, Trees, UNCHANGED disk, NEW n \in Node, NEW v,
         \/ trades' = [trades EXCEPT ![n] = Insert(@, v)]
         \/ trades' = [trades EXCEPT ![n] = UpdateTree(@, v)]
  PROVE  Trees'
<1>1. trades'[n] = Insert(trades[n], v) \/ trades'[n] = UpdateTree(trades[n], v)
  BY DEF TypeOK
<1>2. \A m \in Node : m # n => trades'[m] = trades[m]
  BY DEF TypeOK
<1>3. Keyed(trades'[n])
  BY <1>1, KeyedWrites DEF Trees
<1> QED BY <1>2, <1>3 DEF Trees, Keyed

(* The guard holds on as long as every send keeps its claim on its id. *)
LEMMA ClaimsKept ==
  ASSUME SendGuard, UNCHANGED sending,
         \A s \in Rpc : /\ Unreported(s)' <=> Unreported(s)
                        /\ Unreported(s) => /\ rpc'[s].from = rpc[s].from
                                            /\ rpc'[s].id = rpc[s].id
  PROVE  SendGuard'
  BY DEF SendGuard

(* A request that goes on as r, its send still at work or still done.      *)
Resumes(r, q) ==
  /\ r.kind = q.kind /\ r.from = q.from /\ r.id = q.id
  /\ r.kind \in CommitKind => (r.caller = "gone" <=> q.caller = "gone")
  /\ Orderly(r)

(* An answer does not end the task it is for. *)
LEMMA Answers ==
  ASSUME NEW r \in Request, Orderly(r), NEW answer \in {"Ack", "Bad"}
  PROVE  Answered(r, answer) \in Request /\ Resumes(Answered(r, answer), r)
  BY DEF Answered, Request, Resumes, Orderly

(* A slot that changes without its task reporting, or a slot of a route.   *)
LEMMA SlotGuarded ==
  ASSUME TypeOK, Guarded, NEW s \in Rpc, NEW r \in Request, Live(s), SetSlot(s, r),
         Resumes(r, rpc[s]),
         UNCHANGED sending
  PROVE  Reports' /\ SendGuard'
<1>1. rpc'[s] \in {r, Free} /\ (rpc'[s] = Free => r.caller = "gone")
  <2>1. Settle(r) \in {r, Free} /\ (Settle(r) = Free => r.caller = "gone")
    BY DEF Settle, Request, Free
  <2>2. rpc'[s] = Settle(r)
    BY DEF SetSlot, TypeOK
  <2> QED BY <2>1, <2>2
<1>2. \A u \in Rpc : u # s => rpc'[u] = rpc[u]
  BY DEF SetSlot, TypeOK
<1>3. Free.kind \notin CommitKind /\ r # Free
  BY DEF Free, CommitKind, Request
<1>4. Unreported(s)' <=> Unreported(s)
  <2>1. Live(s) /\ (r.kind \in CommitKind => (r.caller = "gone" <=> rpc[s].caller = "gone"))
        /\ r.kind = rpc[s].kind
    BY DEF Resumes
  <2>2. CASE rpc'[s] = r
    BY <1>3, <2>1, <2>2 DEF Unreported, IsSend, Live
  <2>3. CASE rpc'[s] = Free
    BY <1>1, <2>1, <2>3 DEF Unreported, IsSend, Live
  <2> QED BY <1>1, <2>2, <2>3
<1>5. \A u \in Rpc : u # s => (Unreported(u)' <=> Unreported(u))
  BY <1>2 DEF Unreported, IsSend, Live
<1>6. Unreported(s) => rpc'[s].from = rpc[s].from /\ rpc'[s].id = rpc[s].id
  BY <1>1, <1>3, <1>4 DEF Unreported, IsSend, Live, Resumes
<1>7. SendGuard'
  BY <1>2, <1>4, <1>5, <1>6, ClaimsKept DEF Guarded
<1>8. Reports'
  <2>1. \A u \in Rpc : u # s /\ Live(u)' => Orderly(rpc'[u])
    BY <1>2 DEF Guarded, Reports, Live
  <2>2. Live(s)' => Orderly(rpc'[s])
    BY <1>1 DEF Live, Resumes
  <2> QED BY <2>1, <2>2 DEF Reports
<1> QED BY <1>7, <1>8

(* A new request of a route claims no id. *)
LEMMA RouteGuarded ==
  ASSUME TypeOK, Guarded, NEW s \in Rpc, NEW r, rpc[s] = Free,
         rpc' = [rpc EXCEPT ![s] = r], r.kind \notin CommitKind, r.caller = "waiting",
         UNCHANGED sending
  PROVE  Reports' /\ SendGuard'
<1>1. rpc'[s] = r /\ \A u \in Rpc : u # s => rpc'[u] = rpc[u]
  BY DEF TypeOK
<1>2. ~Unreported(s)' /\ ~Unreported(s)
  BY <1>1 DEF Unreported, IsSend, Live
<1>3. \A u \in Rpc : u # s => (Unreported(u)' <=> Unreported(u))
  BY <1>1 DEF Unreported, IsSend, Live
<1>4. SendGuard'
  BY <1>1, <1>2, <1>3, ClaimsKept DEF Guarded
<1>5. Reports'
  BY <1>1 DEF Guarded, Reports, Live, Orderly
<1> QED BY <1>4, <1>5

(* Guarded is inductive: the set of the indexer and the tasks at work agree *)
(* through ticks, answers, failures, late events and crashes.              *)
LEMMA GuardedStep == TypeOK /\ TypeOK' /\ Guarded /\ [Next]_vars => Guarded'
<1> SUFFICES ASSUME TypeOK, TypeOK', Guarded, [Next]_vars PROVE Guarded'
  OBVIOUS
<1>0. \A s \in Rpc : Live(s) => rpc[s] \in Request /\ Orderly(rpc[s])
  BY DEF TypeOK, Live, Guarded, Reports
<1>a. ASSUME UNCHANGED <<trades, disk>> PROVE Trees'
  BY <1>a DEF Guarded, Trees, Keyed
<1>1. ASSUME NEW s \in Rpc, NEW w \in Want, PostIWant(s, w) PROVE Guarded'
  <2> DEFINE r == Call("IWant", w.requester, w.provider, w.id, {})
  <2>1. r.kind \notin CommitKind /\ r.caller = "waiting"
    BY DEF Call, CommitKind
  <2> HIDE DEF r
  <2>2. Reports' /\ SendGuard'
    BY <1>1, <2>1, RouteGuarded DEF PostIWant, r
  <2> QED BY <1>1, <1>a, <2>2 DEF PostIWant, Guarded
<1>2. ASSUME NEW s \in Rpc, NEW n \in Node, NEW w \in iWants[n], PostStartCommit(s, n, w)
      PROVE Guarded'
  <2> DEFINE t == [id |-> w.id, requester |-> w.requester, provider |-> n,
                   status |-> "WaitingRT1Commit", isRequester |-> FALSE]
             r == Call("StartCommit", n, w.requester, w.id, {t})
  <2>1. r.kind \notin CommitKind /\ r.caller = "waiting"
    BY DEF Call, CommitKind
  <2>2. rpc' = [rpc EXCEPT ![s] = r]
    BY <1>2 DEF PostStartCommit
  <2> HIDE DEF r
  <2>3. Reports' /\ SendGuard'
    BY <1>2, <2>1, <2>2, RouteGuarded DEF PostStartCommit
  <2> QED BY <1>2, <1>a, <2>3 DEF PostStartCommit, Guarded
<1>b. ASSUME NEW s \in Rpc, NEW r \in Request, SetSlot(s, r), Live(s), UNCHANGED sending, Trees',
             Resumes(r, rpc[s])
      PROVE  Guarded'
  BY <1>b, SlotGuarded DEF Guarded
<1>3. ASSUME NEW s \in Rpc, HandleIWant(s) PROVE Guarded'
  <2>1. rpc[s] \in Request /\ Live(s) /\ Orderly(rpc[s])
    BY <1>0, <1>3 DEF HandleIWant, Arriving
  <2>2. Answered(rpc[s], "Ack") \in Request /\ Resumes(Answered(rpc[s], "Ack"), rpc[s])
    BY <2>1, Answers
  <2> QED BY <1>3, <1>a, <1>b, <2>1, <2>2 DEF HandleIWant
<1>4. ASSUME NEW s \in Rpc, HandleStartCommit(s) PROVE Guarded'
  <2>1. rpc[s] \in Request /\ Live(s) /\ Orderly(rpc[s])
    BY <1>0, <1>4 DEF HandleStartCommit, Arriving
  <2>2. Answered(rpc[s], "Ack") \in Request /\ Resumes(Answered(rpc[s], "Ack"), rpc[s])
    BY <2>1, Answers
  <2>3. PICK t \in Received(s) :
          trades' = [trades EXCEPT ![rpc[s].to] = Insert(@, UpdateStatus(t, "RSendT1Commit"))]
    BY <1>4 DEF HandleStartCommit
  <2>4. rpc[s].to \in Node
    BY <2>1 DEF Request
  <2>5. Trees'
    BY <1>4, <2>3, <2>4, TreesWritten DEF HandleStartCommit, Guarded
  <2> QED BY <1>4, <1>b, <2>1, <2>2, <2>5 DEF HandleStartCommit
<1>5. ASSUME NEW s \in Rpc, NEW kind \in CommitKind, HandleCommit(s, kind) PROVE Guarded'
  <2> DEFINE ok == [Answered(rpc[s], "Ack") EXCEPT !.verify = Awaiting(s)]
             bad == Answered(rpc[s], "Bad")
  <2>1. rpc[s] \in Request /\ Live(s) /\ Orderly(rpc[s])
    BY <1>0, <1>5 DEF HandleCommit, Arriving
  <2>2. bad \in Request /\ Resumes(bad, rpc[s])
    BY <2>1, Answers
  <2>3. ok \in Request /\ Resumes(ok, rpc[s])
    <3>1. Awaiting(s) \in SUBSET TradeRecord
      BY <2>1 DEF Awaiting, Request, TypeOK
    <3>2. Answered(rpc[s], "Ack") \in Request /\ Resumes(Answered(rpc[s], "Ack"), rpc[s])
      BY <2>1, Answers
    <3> QED BY <3>1, <3>2 DEF Request, Resumes, Orderly
  <2>4. SetSlot(s, ok) \/ SetSlot(s, bad)
    BY <1>5 DEF HandleCommit
  <2>5. Trees' /\ UNCHANGED sending
    BY <1>5, <1>a DEF HandleCommit
  <2> HIDE DEF ok, bad
  <2> QED BY <1>b, <2>1, <2>2, <2>3, <2>4, <2>5
<1>6. ASSUME NEW s \in Rpc, RouteAnswered(s) PROVE Guarded'
  <2> DEFINE r == [rpc[s] EXCEPT !.caller = "gone", !.reply = "none"]
  <2>1. rpc[s] \in Request /\ Live(s) /\ Orderly(rpc[s]) /\ rpc[s].kind \notin CommitKind
    BY <1>0, <1>6 DEF RouteAnswered, CommitKind
  <2>2. r \in Request /\ Resumes(r, rpc[s])
    BY <2>1 DEF Request, Resumes, Orderly
  <2>3. Trees'
    <3>1. CASE UNCHANGED trades
      BY <1>6, <1>a, <3>1 DEF RouteAnswered
    <3>2. ASSUME NEW t \in rpc[s].snap, trades' = [trades EXCEPT ![rpc[s].from] = Insert(@, t)]
          PROVE  Trees'
      <4>1. rpc[s].from \in Node
        BY <2>1 DEF Request
      <4> QED BY <1>6, <3>2, <4>1, TreesWritten DEF RouteAnswered, Guarded
    <3> QED BY <1>6, <3>1, <3>2 DEF RouteAnswered
  <2> QED BY <1>6, <1>b, <2>1, <2>2, <2>3 DEF RouteAnswered
<1>7. ASSUME NEW s \in Rpc, SendAnswered(s) PROVE Guarded'
  <2> DEFINE r == [rpc[s] EXCEPT !.caller = "event", !.reply = "none"]
  <2>1. rpc[s] \in Request /\ Live(s) /\ Orderly(rpc[s]) /\ rpc[s].kind \in CommitKind
    BY <1>0, <1>7 DEF SendAnswered, IsSend
  <2>2. PICK t \in rpc[s].snap :
          trades' = [trades EXCEPT ![rpc[s].from] = UpdateTree(@, ToWaiting(t))]
    BY <1>7 DEF SendAnswered
  <2>3. rpc[s].from \in Node
    BY <2>1 DEF Request
  <2>4. Trees'
    BY <1>7, <2>2, <2>3, TreesWritten DEF SendAnswered, Guarded
  <2>5. r \in Request /\ Resumes(r, rpc[s])
    <3>1. rpc[s].caller # "gone"
      BY <1>7, <2>1 DEF SendAnswered, Orderly
    <3> QED BY <2>1, <3>1 DEF Request, Resumes, Orderly
  <2> QED BY <1>7, <1>b, <2>1, <2>4, <2>5 DEF SendAnswered
<1>8. ASSUME NEW s \in Rpc, CallFailed(s) PROVE Guarded'
  <2> DEFINE r == [rpc[s] EXCEPT
                     !.caller = IF rpc[s].kind \in CommitKind THEN "event" ELSE "gone",
                     !.reply = "none"]
  <2>1. rpc[s] \in Request /\ Live(s) /\ Orderly(rpc[s]) /\ rpc[s].caller = "waiting"
    BY <1>0, <1>8 DEF CallFailed
  <2>2. r \in Request /\ Resumes(r, rpc[s])
    BY <2>1 DEF Request, Resumes, Orderly
  <2> QED BY <1>8, <1>a, <1>b, <2>1, <2>2 DEF CallFailed
<1>9. ASSUME NEW s \in Rpc, ProcEvent(s) PROVE Guarded'
  <2> DEFINE n == rpc[s].from
             i == rpc[s].id
             r == [rpc[s] EXCEPT !.caller = "gone"]
  <2>1. rpc[s] \in Request /\ Live(s) /\ rpc[s].kind \in CommitKind /\ Orderly(rpc[s])
        /\ rpc[s].caller = "event"
    BY <1>0, <1>9 DEF ProcEvent, Orderly
  <2>2. Unreported(s) /\ n \in Node
    BY <2>1 DEF Unreported, IsSend, Request
  <2>3. rpc'[s] \in {r, Free} /\ \A u \in Rpc : u # s => rpc'[u] = rpc[u]
    BY <1>9 DEF ProcEvent, SetSlot, Settle, TypeOK
  <2>4. ~Unreported(s)'
    BY <2>1, <2>3 DEF Unreported, IsSend, Live, Request
  <2>5. \A u \in Rpc : u # s => (Unreported(u)' <=> Unreported(u))
    BY <2>3 DEF Unreported, IsSend, Live
  <2>6. \A m \in Node : sending'[m] = IF m = n THEN sending[m] \ {i} ELSE sending[m]
    BY <1>9, <2>2 DEF ProcEvent, TypeOK
  <2>7. \A u \in Rpc : u # s /\ Unreported(u) => ~(rpc[u].from = n /\ rpc[u].id = i)
    BY <2>2 DEF Guarded, SendGuard
  <2> HIDE DEF n, i, r
  <2>8. SendGuard'
    <3>1. ASSUME NEW m \in Node, NEW k \in Id
          PROVE  k \in sending'[m] <=>
                   \E u \in Rpc : Unreported(u)' /\ rpc'[u].from = m /\ rpc'[u].id = k
      <4>1. CASE m = n /\ k = i
        BY <2>3, <2>4, <2>5, <2>6, <2>7, <4>1
      <4>2. CASE ~(m = n /\ k = i)
        <5>1. k \in sending'[m] <=> k \in sending[m]
          BY <2>6, <4>2
        <5>2. k \in sending[m] <=>
                \E u \in Rpc : Unreported(u) /\ rpc[u].from = m /\ rpc[u].id = k
          BY DEF Guarded, SendGuard
        <5>3. \A u \in Rpc : rpc[u].from = m /\ rpc[u].id = k => u # s
          BY <4>2 DEF n, i
        <5> QED BY <2>3, <2>4, <2>5, <5>1, <5>2, <5>3
      <4> QED BY <4>1, <4>2
    <3>2. \A u, v \in Rpc :
            /\ Unreported(u)' /\ Unreported(v)'
            /\ rpc'[u].from = rpc'[v].from /\ rpc'[u].id = rpc'[v].id
            => u = v
      BY <2>3, <2>4, <2>5 DEF Guarded, SendGuard
    <3> QED BY <3>1, <3>2 DEF SendGuard
  <2>9. Reports'
    <3>1. Orderly(r)
      BY <2>1 DEF r, Orderly, Request
    <3> QED BY <2>3, <3>1 DEF Guarded, Reports, Live
  <2>10. Trees'
    BY <1>9, <1>a DEF ProcEvent
  <2> QED BY <2>8, <2>9, <2>10 DEF Guarded
<1>10. ASSUME NEW s \in Rpc, VerifyStart(s) PROVE Guarded'
  <2>1. rpc[s] \in Request /\ Live(s) /\ Orderly(rpc[s])
    BY <1>0, <1>10 DEF VerifyStart
  <2>2. PICK t \in rpc[s].verify :
          /\ trades' = [trades EXCEPT ![rpc[s].to] = UpdateTree(@, ToProcessing(t))]
          /\ SetSlot(s, [rpc[s] EXCEPT !.verify = {ToProcessing(t)}])
    BY <1>10 DEF VerifyStart
  <2> DEFINE v == ToProcessing(t)
             r == [rpc[s] EXCEPT !.verify = {v}]
  <2>3. v \in TradeRecord /\ rpc[s].to \in Node
    BY <2>1, StatusWrites DEF Request
  <2>4. trades' = [trades EXCEPT ![rpc[s].to] = UpdateTree(@, v)] /\ SetSlot(s, r)
    BY <2>2
  <2> HIDE DEF v
  <2>5. Trees'
    BY <1>10, <2>3, <2>4, TreesWritten DEF VerifyStart, Guarded
  <2>6. r \in Request /\ Resumes(r, rpc[s])
    BY <2>1, <2>3 DEF Request, Resumes, Orderly
  <2> HIDE DEF r
  <2> QED BY <1>10, <1>b, <2>1, <2>4, <2>5, <2>6 DEF VerifyStart
<1>11. ASSUME NEW s \in Rpc, VerifyEnd(s) PROVE Guarded'
  <2> DEFINE r == [rpc[s] EXCEPT !.verify = {}]
  <2>1. rpc[s] \in Request /\ Live(s) /\ Orderly(rpc[s])
    BY <1>0, <1>11 DEF VerifyEnd
  <2>2. PICK t \in rpc[s].verify :
          trades' = [trades EXCEPT ![rpc[s].to] = UpdateTree(@, ToSend(t))]
    BY <1>11 DEF VerifyEnd
  <2>3. rpc[s].to \in Node
    BY <2>1 DEF Request
  <2>4. Trees'
    BY <1>11, <2>2, <2>3, TreesWritten DEF VerifyEnd, Guarded
  <2>5. r \in Request /\ Resumes(r, rpc[s])
    BY <2>1 DEF Request, Resumes, Orderly
  <2>6. SetSlot(s, r)
    BY <1>11 DEF VerifyEnd
  <2> HIDE DEF r
  <2> QED BY <1>11, <1>b, <2>1, <2>4, <2>5, <2>6 DEF VerifyEnd
<1>12. ASSUME NEW s \in Rpc, Lose(s) PROVE Guarded'
  <2> DEFINE r == [rpc[s] EXCEPT !.inFlight = FALSE]
  <2>1. rpc[s] \in Request /\ Live(s) /\ Orderly(rpc[s])
    BY <1>0, <1>12 DEF Lose
  <2>2. r \in Request /\ Resumes(r, rpc[s])
    BY <2>1 DEF Request, Resumes, Orderly
  <2>3. SetSlot(s, r)
    BY <1>12 DEF Lose
  <2> HIDE DEF r
  <2> QED BY <1>12, <1>a, <1>b, <2>1, <2>2, <2>3 DEF Lose
<1>13. ASSUME NEW n \in Node, Tick(n) PROVE Guarded'
  <2>1. PICK slot \in Injection(Due(n), FreeSlots) :
          rpc' = [s \in Rpc |->
            IF \E t \in Due(n) : slot[t] = s
              THEN LET t == CHOOSE u \in Due(n) : slot[u] = s
                   IN Call(KindToSend(t.status), n, CounterParty(t), t.id, {t})
              ELSE rpc[s]]
    BY <1>13 DEF Tick
  <2> DEFINE Taken == {slot[t] : t \in Due(n)}
  <2>2. Taken \subseteq FreeSlots
    BY <2>1 DEF Injection, IsInjective
  <2>3. ASSUME NEW t \in Due(n)
        PROVE  rpc'[slot[t]] = Call(KindToSend(t.status), n, CounterParty(t), t.id, {t})
    <3>1. \A u \in Due(n) : slot[u] = slot[t] => u = t
      BY <2>1 DEF Injection, IsInjective
    <3>2. slot[t] \in Rpc
      BY <2>2 DEF FreeSlots
    <3>3. (CHOOSE u \in Due(n) : slot[u] = slot[t]) = t
      BY <3>1
    <3> QED BY <2>1, <3>2, <3>3
  <2>4. \A s \in Rpc : s \notin Taken => rpc'[s] = rpc[s]
    BY <2>1
  <2>5. \A s \in Taken : s \in Rpc /\ ~Live(s) /\ ~Unreported(s)
    BY <2>2 DEF FreeSlots, Live, Unreported, IsSend
  <2>6. \A t \in Due(n) :
          /\ slot[t] \in Taken /\ Unreported(slot[t])' /\ Orderly(rpc'[slot[t]])
          /\ rpc'[slot[t]].from = n /\ rpc'[slot[t]].id = t.id
    <3> SUFFICES ASSUME NEW t \in Due(n)
                 PROVE  /\ slot[t] \in Taken /\ Unreported(slot[t])' /\ Orderly(rpc'[slot[t]])
                        /\ rpc'[slot[t]].from = n /\ rpc'[slot[t]].id = t.id
      OBVIOUS
    <3>1. KindToSend(t.status) \in CommitKind
      BY DEF KindToSend, CommitKind
    <3> DEFINE s == slot[t]
    <3>2. /\ rpc'[s].kind = KindToSend(t.status) /\ rpc'[s].from = n /\ rpc'[s].id = t.id
          /\ rpc'[s].caller = "waiting" /\ rpc'[s].reply = "none"
      <4>1. rpc'[s] = Call(KindToSend(t.status), n, CounterParty(t), t.id, {t})
        BY <2>3
      <4> HIDE DEF s
      <4> QED BY <4>1 DEF Call
    <3>3. slot[t] \in Taken
      OBVIOUS
    <3>4. Orderly(rpc'[s])
      BY <3>2 DEF Orderly
    <3>5. rpc'[s] # Free
      BY <3>1, <3>2 DEF Free, CommitKind
    <3> HIDE DEF s
    <3>6. Unreported(s)'
      BY <3>1, <3>2, <3>5 DEF Unreported, IsSend, Live
    <3> QED BY <3>2, <3>3, <3>4, <3>6 DEF s
  <2>7. \A s \in Rpc : s \notin Taken => (Unreported(s)' <=> Unreported(s))
    BY <2>4 DEF Unreported, IsSend, Live
  <2>8. /\ \A t \in Due(n) : t \in trades[n] /\ t.id \in Id /\ t.id \notin sending[n]
        /\ \A t, u \in Due(n) : t.id = u.id => t = u
    BY DEF Due, TypeOK, TradeRecord, Guarded, Trees, Keyed
  <2>9. \A m \in Node : sending'[m] = IF m = n THEN sending[n] \cup {t.id : t \in Due(n)}
                                      ELSE sending[m]
    BY <1>13 DEF Tick, TypeOK
  <2>10. \A s \in Taken : \E t \in Due(n) : s = slot[t]
    OBVIOUS
  <2> HIDE DEF Taken
  <2>11. ASSUME NEW m \in Node, NEW k \in Id
         PROVE  k \in sending'[m] <=>
                  \E u \in Rpc : Unreported(u)' /\ rpc'[u].from = m /\ rpc'[u].id = k
    <3>1. k \in sending[m] <=>
            \E u \in Rpc : Unreported(u) /\ rpc[u].from = m /\ rpc[u].id = k
      BY DEF Guarded, SendGuard
    <3>2. ASSUME k \in sending'[m]
          PROVE  \E u \in Rpc : Unreported(u)' /\ rpc'[u].from = m /\ rpc'[u].id = k
      <4>1. CASE k \in sending[m]
        BY <3>1, <4>1, <2>4, <2>5, <2>7
      <4>2. CASE k \notin sending[m]
        <5>1. m = n /\ \E t \in Due(n) : t.id = k
          BY <2>9, <3>2, <4>2
        <5> QED BY <5>1, <2>5, <2>6
      <4> QED BY <4>1, <4>2
    <3>3. ASSUME NEW u \in Rpc, Unreported(u)', rpc'[u].from = m, rpc'[u].id = k
          PROVE  k \in sending'[m]
      <4>1. CASE u \in Taken
        <5>1. PICK t \in Due(n) : u = slot[t]
          BY <2>10, <4>1
        <5>2. m = n /\ k = t.id
          BY <2>6, <3>3, <5>1
        <5> QED BY <2>9, <5>2
      <4>2. CASE u \notin Taken
        BY <3>1, <3>3, <4>2, <2>4, <2>7, <2>9
      <4> QED BY <4>1, <4>2
    <3> QED BY <3>2, <3>3
  <2>12. ASSUME NEW u \in Rpc, NEW v \in Rpc, Unreported(u)', Unreported(v)',
                rpc'[u].from = rpc'[v].from, rpc'[u].id = rpc'[v].id
         PROVE  u = v
    <3>1. CASE u \in Taken /\ v \in Taken
      BY <2>6, <2>8, <2>10, <2>12, <3>1
    <3>2. CASE u \notin Taken /\ v \notin Taken
      BY <2>4, <2>7, <2>12, <3>2 DEF Guarded, SendGuard
    <3>3. ASSUME NEW x \in Rpc, NEW y \in Rpc, x \in Taken, y \notin Taken, Unreported(y)',
                 rpc'[x].from = rpc'[y].from, rpc'[x].id = rpc'[y].id
          PROVE  FALSE
      <4>1. PICK t \in Due(n) : x = slot[t]
        BY <2>10, <3>3
      <4>2. rpc'[x].from = n /\ rpc'[x].id = t.id
        BY <2>6, <4>1
      <4>3. Unreported(y) /\ rpc[y].from = n /\ rpc[y].id = t.id
        BY <2>4, <2>7, <3>3, <4>2
      <4>4. t.id \in sending[n]
        BY <2>8, <4>3 DEF Guarded, SendGuard
      <4> QED BY <2>8, <4>4
    <3> QED BY <2>12, <3>1, <3>2, <3>3
  <2>13. SendGuard'
    BY <2>11, <2>12 DEF SendGuard
  <2>14. Reports'
    <3>1. \A s \in Rpc : s \in Taken => Orderly(rpc'[s])
      BY <2>6, <2>10
    <3>2. \A s \in Rpc : s \notin Taken /\ Live(s)' => Orderly(rpc'[s])
      BY <2>4 DEF Guarded, Reports, Live
    <3> QED BY <3>1, <3>2 DEF Reports
  <2> QED BY <1>13, <1>a, <2>13, <2>14 DEF Tick, Guarded
<1>14. ASSUME NEW n \in Node, Flush(n) PROVE Guarded'
  <2>1. \A m \in Node : trades'[m] = trades[m] /\ disk'[m].trades \in {trades[m], disk[m].trades}
    BY <1>14 DEF Flush, TypeOK
  <2>2. Trees'
    BY <2>1 DEF Guarded, Trees, Keyed
  <2>3. SendGuard'
    BY <1>14 DEF Flush, Guarded, SendGuard, Unreported, IsSend, Live
  <2> QED BY <1>14, <2>2, <2>3 DEF Flush, Guarded, Reports, Live
<1>15. ASSUME NEW n \in Node, Crash(n) PROVE Guarded'
  <2>1. \A m \in Node : disk'[m] = disk[m] /\ trades'[m] \in {trades[m], disk[m].trades}
    BY <1>15 DEF Crash, TypeOK
  <2>2. Trees'
    BY <2>1 DEF Guarded, Trees, Keyed
  <2>3. ASSUME NEW s \in Rpc, Live(s)' PROVE Live(s) /\ rpc'[s] = AfterCrash(rpc[s], n)
    BY <1>15, <2>3, SettleCases DEF Crash, Live
  <2>4. Reports'
    <3>1. ASSUME NEW s \in Rpc, Live(s)' PROVE Orderly(rpc'[s])
      <4>1. rpc[s] \in Request /\ Orderly(rpc[s]) /\ rpc'[s] = AfterCrash(rpc[s], n)
        BY <1>0, <2>3, <3>1
      <4> QED BY <4>1 DEF Orderly, AfterCrash, Request
    <3> QED BY <3>1 DEF Reports
  <2>5. \A s \in Rpc : Unreported(s)' <=> Unreported(s) /\ rpc[s].from # n
    <3> SUFFICES ASSUME NEW s \in Rpc PROVE Unreported(s)' <=> Unreported(s) /\ rpc[s].from # n
      OBVIOUS
    <3>1. CASE ~Live(s)
      BY <1>15, <3>1 DEF Crash, Unreported, IsSend, Live
    <3>2. CASE Live(s)
      <4> DEFINE r == AfterCrash(rpc[s], n)
      <4>1. rpc[s] \in Request /\ rpc'[s] = Settle(r)
        BY <1>0, <1>15, <3>2 DEF Crash
      <4>2. /\ r.kind = rpc[s].kind /\ r.kind \in Kind
            /\ r.caller = IF rpc[s].from = n THEN "gone" ELSE rpc[s].caller
        BY <4>1 DEF AfterCrash, Request
      <4> HIDE DEF r
      <4>3. rpc'[s] = r \/ (rpc'[s] = Free /\ r.caller = "gone")
        BY <4>1 DEF Settle
      <4>4. Free.kind \notin Kind
        BY DEF Free, Kind, CommitKind
      <4> QED BY <3>2, <4>2, <4>3, <4>4 DEF Unreported, IsSend, Live
    <3> QED BY <3>1, <3>2
  <2>6. \A s \in Rpc : Unreported(s)' => rpc'[s].from = rpc[s].from /\ rpc'[s].id = rpc[s].id
    <3> SUFFICES ASSUME NEW s \in Rpc, Unreported(s)'
                 PROVE rpc'[s].from = rpc[s].from /\ rpc'[s].id = rpc[s].id
      OBVIOUS
    <3>1. rpc[s] \in Request /\ rpc'[s] = AfterCrash(rpc[s], n)
      BY <1>0, <2>3 DEF Unreported, IsSend
    <3> QED BY <3>1 DEF AfterCrash, Request
  <2>7. \A m \in Node : sending'[m] = IF m = n THEN {} ELSE sending[m]
    BY <1>15 DEF Crash, TypeOK
  <2>8. SendGuard'
    <3>1. ASSUME NEW m \in Node, NEW k \in Id
          PROVE  k \in sending'[m] <=>
                   \E u \in Rpc : Unreported(u)' /\ rpc'[u].from = m /\ rpc'[u].id = k
      BY <2>5, <2>6, <2>7 DEF Guarded, SendGuard
    <3>2. \A u, v \in Rpc :
            /\ Unreported(u)' /\ Unreported(v)'
            /\ rpc'[u].from = rpc'[v].from /\ rpc'[u].id = rpc'[v].id
            => u = v
      BY <2>5, <2>6 DEF Guarded, SendGuard
    <3> QED BY <3>1, <3>2 DEF SendGuard
  <2> QED BY <2>2, <2>4, <2>8 DEF Guarded
<1>16. CASE UNCHANGED vars
  <2>1. UNCHANGED <<trades, disk, sending, rpc>>
    BY <1>16 DEF vars
  <2> QED BY <2>1, <1>a DEF Guarded, Reports, SendGuard, Unreported, IsSend, Live
<1> QED
  BY <1>1, <1>2, <1>3, <1>4, <1>5, <1>6, <1>7, <1>8, <1>9, <1>10, <1>11, <1>12,
     <1>13, <1>14, <1>15, <1>16
     DEF Next, Handle, HandleT1RequesterCommit, HandleT1ProviderCommit,
         HandleT2RequesterCommit, CommitKind

(* At most one send() is at work for a trade of a node, and no id is left  *)
(* in active_send_commit_proc to block its retries, in every reachable     *)
(* state.                                                                  *)
THEOREM OneSendAtATime == Spec => []SendGuard
<1>1. Init => Guarded
  BY DEF Init, Guarded, Trees, Keyed, Reports, SendGuard, Unreported, IsSend, Live
<1>2. Guarded => SendGuard
  BY DEF Guarded
<1> QED BY <1>1, <1>2, GuardedStep, TypeCorrect, PTL DEF Spec

-----------------------------------------------------------------------------
(* Checks under way.                                                       *)

(* A request starts a verify task when it arrives and not before. *)
Unstarted == \A s \in Rpc : Live(s) /\ rpc[s].inFlight => rpc[s].verify = {}

UnderWay == CheckUnderWay /\ Unstarted

(* The statuses a task writes: processing until its end, and no longer.    *)
LEMMA ProcWrites ==
  ASSUME NEW t \in TradeRecord
  PROVE  /\ t.status \in WaitStatus => ToProcessing(t).status \in ProcStatus
         /\ t.status \in ProcStatus => ToSend(t).status \notin ProcStatus
         /\ t.status \in SendStatus => ToWaiting(t).status \notin ProcStatus
  BY DEF TradeRecord, WaitStatus, ProcStatus, SendStatus, ToProcessing, ToSend, ToWaiting,
         UpdateStatus

(* A stored trade is the one written last or was there before, and then it *)
(* has another id.                                                         *)
LEMMA WrittenOrThere ==
  ASSUME TypeOK, NEW m \in Node, NEW v,
         \/ trades' = [trades EXCEPT ![m] = Insert(@, v)]
         \/ trades' = [trades EXCEPT ![m] = UpdateTree(@, v)]
  PROVE  \A n \in Node : \A t \in trades'[n] :
           (n = m /\ t = v) \/ (t \in trades[n] /\ (n = m => t.id # v.id))
<1>1. trades'[m] = Insert(trades[m], v) \/ trades'[m] = UpdateTree(trades[m], v)
  BY DEF TypeOK
<1>2. \A t \in trades'[m] : t = v \/ (t \in trades[m] /\ t.id # v.id)
  BY <1>1 DEF Insert, UpdateTree
<1>3. \A n \in Node : n # m => trades'[n] = trades[n]
  BY DEF TypeOK
<1> QED BY <1>2, <1>3

(* Checks go on when no trade gets a processing status and no task ends.   *)
LEMMA ChecksGoOn ==
  ASSUME UnderWay,
         \A n \in Node \ Crashing : \A t \in trades'[n] :
           t.status \in ProcStatus => t \in trades[n],
         \A s \in Rpc : Live(s) /\ rpc[s].to \notin Crashing /\ rpc[s].verify # {} =>
           Live(s)' /\ rpc'[s].to = rpc[s].to /\ rpc'[s].verify = rpc[s].verify
  PROVE  CheckUnderWay'
<1> SUFFICES ASSUME NEW n \in Node \ Crashing, NEW t \in trades'[n], t.status \in ProcStatus
             PROVE  \E s \in Rpc : /\ Live(s)' /\ rpc'[s].to = n
                                   /\ \E u \in rpc'[s].verify : u.id = t.id /\ u.status \in ProcStatus
  BY DEF CheckUnderWay
<1>1. PICK s \in Rpc : /\ Live(s) /\ rpc[s].to = n
                       /\ \E u \in rpc[s].verify : u.id = t.id /\ u.status \in ProcStatus
  BY DEF UnderWay, CheckUnderWay
<1> QED BY <1>1

(* A slot that goes on with the verify task it had, while no trade gets a  *)
(* processing status.                                                      *)
LEMMA SlotUnderWay ==
  ASSUME TypeOK, UnderWay, NEW s \in Rpc, NEW r \in Request, Live(s), SetSlot(s, r),
         r.to = rpc[s].to, r.verify = rpc[s].verify, r.inFlight => rpc[s].inFlight,
         \A n \in Node : \A t \in trades'[n] : t.status \in ProcStatus => t \in trades[n]
  PROVE  UnderWay'
<1>1. \A u \in Rpc : u # s => rpc'[u] = rpc[u]
  BY DEF SetSlot, TypeOK
<1>2. rpc'[s] \in {r, Free} /\ (r.verify # {} => rpc'[s] = r)
  BY DEF SetSlot, Settle, TypeOK
<1>3. r # Free
  BY DEF Request, Free, Kind, CommitKind
<1>4. Unstarted'
  BY <1>1, <1>2 DEF UnderWay, Unstarted, Live
<1>5. CheckUnderWay'
  BY <1>1, <1>2, <1>3, ChecksGoOn DEF Live
<1> QED BY <1>4, <1>5 DEF UnderWay

(* No trade gets a processing status by the write of another one. *)
LEMMA NoneGetsProcessing ==
  ASSUME TypeOK, NEW m \in Node, NEW v, v.status \notin ProcStatus,
         \/ trades' = [trades EXCEPT ![m] = Insert(@, v)]
         \/ trades' = [trades EXCEPT ![m] = UpdateTree(@, v)]
  PROVE  \A n \in Node : \A t \in trades'[n] : t.status \in ProcStatus => t \in trades[n]
  BY WrittenOrThere

(* A verify task writes its trade and goes on, or ends. *)
LEMMA TaskUnderWay ==
  ASSUME TypeOK, Backed, UnderWay, NEW s \in Rpc, Live(s), NEW t \in rpc[s].verify,
         NEW v, v.id = t.id,
         trades' = [trades EXCEPT ![rpc[s].to] = UpdateTree(@, v)],
         v.status \in ProcStatus => /\ Live(s)' /\ rpc'[s].to = rpc[s].to
                                    /\ rpc'[s].verify = {v},
         Live(s)' => ~rpc'[s].inFlight,
         \A u \in Rpc : u # s => rpc'[u] = rpc[u]
  PROVE  UnderWay'
<1>1. rpc[s] \in Request /\ RequestBacked(rpc[s], sent) /\ rpc[s].to \in Node
  BY DEF TypeOK, Live, Backed, Request
<1>2. Unstarted'
  BY DEF UnderWay, Unstarted, Live
<1>3. ASSUME NEW n \in Node \ Crashing, NEW x \in trades'[n], x.status \in ProcStatus
      PROVE  \E u \in Rpc : /\ Live(u)' /\ rpc'[u].to = n
                            /\ \E y \in rpc'[u].verify : y.id = x.id /\ y.status \in ProcStatus
  <2>1. (n = rpc[s].to /\ x = v) \/ (x \in trades[n] /\ (n = rpc[s].to => x.id # v.id))
    <3>1. n = rpc[s].to => trades'[n] = UpdateTree(trades[n], v)
      BY <1>1 DEF TypeOK
    <3>2. n # rpc[s].to => trades'[n] = trades[n]
      BY <1>1 DEF TypeOK
    <3>3. n = rpc[s].to => x = v \/ (x \in trades[n] /\ x.id # v.id)
      BY <1>3, <3>1 DEF UpdateTree, Insert
    <3> QED BY <1>3, <3>2, <3>3
  <2>2. CASE n = rpc[s].to /\ x = v
    BY <1>3, <2>2
  <2>3. CASE x \in trades[n] /\ (n = rpc[s].to => x.id # v.id)
    <3>1. PICK u \in Rpc : /\ Live(u) /\ rpc[u].to = n
                           /\ \E y \in rpc[u].verify : y.id = x.id /\ y.status \in ProcStatus
      BY <1>3, <2>3 DEF UnderWay, CheckUnderWay
    <3>2. u # s
      BY <1>1, <2>3, <3>1 DEF RequestBacked
    <3> QED BY <3>1, <3>2 DEF Live
  <2> QED BY <2>1, <2>2, <2>3
<1>4. CheckUnderWay'
  BY <1>3 DEF CheckUnderWay
<1> QED BY <1>2, <1>4 DEF UnderWay

(* UnderWay is inductive: a task only stops when its trade has moved on,   *)
(* or with its node.                                                       *)
LEMMA UnderWayStep == TypeOK /\ Backed /\ UnderWay /\ [Next]_vars => UnderWay'
<1> SUFFICES ASSUME TypeOK, Backed, UnderWay, [Next]_vars PROVE UnderWay'
  OBVIOUS
<1>0. \A s \in Rpc : Live(s) => rpc[s] \in Request /\ RequestBacked(rpc[s], sent)
  BY DEF TypeOK, Live, Backed
<1>a. ASSUME NEW s \in Rpc, NEW r \in Request, Live(s), SetSlot(s, r), UNCHANGED trades,
             r.to = rpc[s].to, r.verify = rpc[s].verify, r.inFlight => rpc[s].inFlight
      PROVE  UnderWay'
  <2>1. \A n \in Node : \A t \in trades'[n] : t.status \in ProcStatus => t \in trades[n]
    BY <1>a
  <2> QED BY <1>a, <2>1, SlotUnderWay
<1>b. ASSUME NEW s \in Rpc, NEW r \in Request, Live(s), SetSlot(s, r),
             r.to = rpc[s].to, r.verify = rpc[s].verify, r.inFlight => rpc[s].inFlight,
             NEW m \in Node, NEW v, v.status \notin ProcStatus,
             \/ trades' = [trades EXCEPT ![m] = Insert(@, v)]
             \/ trades' = [trades EXCEPT ![m] = UpdateTree(@, v)]
      PROVE  UnderWay'
  <2>1. \A n \in Node : \A t \in trades'[n] : t.status \in ProcStatus => t \in trades[n]
    BY <1>b, NoneGetsProcessing
  <2> QED BY <1>b, <2>1, SlotUnderWay
<1>c. ASSUME UNCHANGED trades,
             \A s \in Rpc : rpc'[s] # rpc[s] => ~Live(s) /\ rpc'[s].verify = {}
      PROVE  UnderWay'
  <2>1. \A s \in Rpc : Live(s) => rpc'[s] = rpc[s]
    BY <1>c
  <2>2. CheckUnderWay'
    BY <1>c, <2>1, ChecksGoOn DEF Live
  <2>3. Unstarted'
    BY <1>c DEF UnderWay, Unstarted, Live
  <2> QED BY <2>2, <2>3 DEF UnderWay
<1>1. ASSUME NEW s \in Rpc, NEW w \in Want, PostIWant(s, w) PROVE UnderWay'
  <2>1. \A u \in Rpc : rpc'[u] # rpc[u] => u = s /\ rpc'[s].verify = {}
    BY <1>1 DEF PostIWant, TypeOK, Call
  <2> QED BY <1>1, <1>c, <2>1 DEF PostIWant, Live
<1>2. ASSUME NEW s \in Rpc, NEW n \in Node, NEW w \in iWants[n], PostStartCommit(s, n, w)
      PROVE  UnderWay'
  <2>1. \A u \in Rpc : rpc'[u] # rpc[u] => u = s /\ rpc'[s].verify = {}
    BY <1>2 DEF PostStartCommit, TypeOK, Call
  <2> QED BY <1>2, <1>c, <2>1 DEF PostStartCommit, Live
<1>3. ASSUME NEW s \in Rpc, HandleIWant(s) PROVE UnderWay'
  <2> DEFINE r == Answered(rpc[s], "Ack")
  <2>1. Live(s) /\ rpc[s] \in Request
    BY <1>0, <1>3 DEF HandleIWant, Arriving
  <2>2. r \in Request /\ r.to = rpc[s].to /\ r.verify = rpc[s].verify /\ ~r.inFlight
    BY <2>1 DEF Answered, Request
  <2>3. SetSlot(s, r) /\ UNCHANGED trades
    BY <1>3 DEF HandleIWant
  <2> HIDE DEF r
  <2> QED BY <1>a, <2>1, <2>2, <2>3
<1>4. ASSUME NEW s \in Rpc, HandleStartCommit(s) PROVE UnderWay'
  <2> DEFINE r == Answered(rpc[s], "Ack")
  <2>1. Live(s) /\ rpc[s] \in Request
    BY <1>0, <1>4 DEF HandleStartCommit, Arriving
  <2>2. r \in Request /\ r.to = rpc[s].to /\ r.verify = rpc[s].verify /\ ~r.inFlight
    BY <2>1 DEF Answered, Request
  <2>3. PICK u \in Received(s) :
          trades' = [trades EXCEPT ![rpc[s].to] = Insert(@, UpdateStatus(u, "RSendT1Commit"))]
    BY <1>4 DEF HandleStartCommit
  <2> DEFINE v == UpdateStatus(u, "RSendT1Commit")
  <2>4. v.status \notin ProcStatus /\ rpc[s].to \in Node
    BY <2>1, ReceivedTyped DEF Request, TradeRecord, UpdateStatus, ProcStatus
  <2>5. trades' = [trades EXCEPT ![rpc[s].to] = Insert(@, v)] /\ SetSlot(s, r)
    BY <1>4, <2>3 DEF HandleStartCommit
  <2> HIDE DEF r, v
  <2> QED BY <1>b, <2>1, <2>2, <2>4, <2>5
<1>5. ASSUME NEW s \in Rpc, NEW kind \in CommitKind, HandleCommit(s, kind) PROVE UnderWay'
  <2> DEFINE ok == [Answered(rpc[s], "Ack") EXCEPT !.verify = Awaiting(s)]
             bad == Answered(rpc[s], "Bad")
  <2>1. Live(s) /\ rpc[s] \in Request /\ rpc[s].verify = {}
    BY <1>0, <1>5 DEF HandleCommit, Arriving, UnderWay, Unstarted
  <2>2. CASE SetSlot(s, bad)
    <3>1. bad \in Request /\ bad.to = rpc[s].to /\ bad.verify = rpc[s].verify /\ ~bad.inFlight
      BY <2>1 DEF Answered, Request
    <3>2. UNCHANGED trades
      BY <1>5 DEF HandleCommit
    <3> HIDE DEF bad
    <3> QED BY <1>a, <2>1, <2>2, <3>1, <3>2
  <2>3. CASE SetSlot(s, ok)
    <3>1. ~ok.inFlight
      BY <2>1 DEF Answered, Request
    <3>2. rpc'[s] \in {ok, Free} /\ \A u \in Rpc : u # s => rpc'[u] = rpc[u]
      BY <2>3, SettleCases DEF SetSlot, TypeOK
    <3> HIDE DEF ok
    <3>3. Unstarted'
      BY <3>1, <3>2 DEF UnderWay, Unstarted, Live
    <3>4. CheckUnderWay'
      BY <1>5, <2>1, <3>2, ChecksGoOn DEF HandleCommit, Live
    <3> QED BY <3>3, <3>4 DEF UnderWay
  <2> QED BY <1>5, <2>2, <2>3 DEF HandleCommit
<1>6. ASSUME NEW s \in Rpc, RouteAnswered(s) PROVE UnderWay'
  <2> DEFINE r == [rpc[s] EXCEPT !.caller = "gone", !.reply = "none"]
  <2>1. Live(s) /\ rpc[s] \in Request /\ RequestBacked(rpc[s], sent)
        /\ rpc[s].kind \notin CommitKind
    BY <1>0, <1>6 DEF RouteAnswered, CommitKind
  <2>2. r \in Request /\ r.to = rpc[s].to /\ r.verify = rpc[s].verify
        /\ r.inFlight = rpc[s].inFlight
    BY <2>1 DEF Request
  <2>3. SetSlot(s, r)
    BY <1>6 DEF RouteAnswered
  <2> HIDE DEF r
  <2>4. CASE UNCHANGED trades
    BY <1>a, <2>1, <2>2, <2>3, <2>4
  <2>5. ASSUME NEW u \in rpc[s].snap, trades' = [trades EXCEPT ![rpc[s].from] = Insert(@, u)]
        PROVE  UnderWay'
    <3>1. u.status \notin ProcStatus /\ rpc[s].from \in Node
      BY <2>1 DEF RequestBacked, Request, ProcStatus
    <3> QED BY <1>b, <2>1, <2>2, <2>3, <2>5, <3>1
  <2> QED BY <1>6, <2>4, <2>5 DEF RouteAnswered
<1>7. ASSUME NEW s \in Rpc, SendAnswered(s) PROVE UnderWay'
  <2> DEFINE r == [rpc[s] EXCEPT !.caller = "event", !.reply = "none"]
  <2>1. Live(s) /\ rpc[s] \in Request /\ RequestBacked(rpc[s], sent)
        /\ rpc[s].kind \in CommitKind
    BY <1>0, <1>7 DEF SendAnswered, IsSend
  <2>2. r \in Request /\ r.to = rpc[s].to /\ r.verify = rpc[s].verify
        /\ r.inFlight = rpc[s].inFlight
    BY <2>1 DEF Request
  <2>3. PICK u \in rpc[s].snap :
          trades' = [trades EXCEPT ![rpc[s].from] = UpdateTree(@, ToWaiting(u))]
    BY <1>7 DEF SendAnswered
  <2>4. ToWaiting(u).status \notin ProcStatus /\ rpc[s].from \in Node
    BY <2>1, ProcWrites DEF RequestBacked, Request
  <2>5. SetSlot(s, r)
    BY <1>7 DEF SendAnswered
  <2> HIDE DEF r
  <2> QED BY <1>b, <2>1, <2>2, <2>3, <2>4, <2>5
<1>8. ASSUME NEW s \in Rpc, CallFailed(s) PROVE UnderWay'
  <2> DEFINE r == [rpc[s] EXCEPT
                     !.caller = IF rpc[s].kind \in CommitKind THEN "event" ELSE "gone",
                     !.reply = "none"]
  <2>1. Live(s) /\ rpc[s] \in Request
    BY <1>0, <1>8 DEF CallFailed
  <2>2. r \in Request /\ r.to = rpc[s].to /\ r.verify = rpc[s].verify
        /\ r.inFlight = rpc[s].inFlight
    BY <2>1 DEF Request
  <2>3. SetSlot(s, r) /\ UNCHANGED trades
    BY <1>8 DEF CallFailed
  <2> HIDE DEF r
  <2> QED BY <1>a, <2>1, <2>2, <2>3
<1>9. ASSUME NEW s \in Rpc, ProcEvent(s) PROVE UnderWay'
  <2> DEFINE r == [rpc[s] EXCEPT !.caller = "gone"]
  <2>1. Live(s) /\ rpc[s] \in Request
    BY <1>0, <1>9 DEF ProcEvent
  <2>2. r \in Request /\ r.to = rpc[s].to /\ r.verify = rpc[s].verify
        /\ r.inFlight = rpc[s].inFlight
    BY <2>1 DEF Request
  <2>3. SetSlot(s, r) /\ UNCHANGED trades
    BY <1>9 DEF ProcEvent
  <2> HIDE DEF r
  <2> QED BY <1>a, <2>1, <2>2, <2>3
<1>10. ASSUME NEW s \in Rpc, VerifyStart(s) PROVE UnderWay'
  <2>1. Live(s) /\ rpc[s] \in Request
    BY <1>0, <1>10 DEF VerifyStart
  <2>2. PICK t \in rpc[s].verify :
          /\ trades' = [trades EXCEPT ![rpc[s].to] = UpdateTree(@, ToProcessing(t))]
          /\ SetSlot(s, [rpc[s] EXCEPT !.verify = {ToProcessing(t)}])
    BY <1>10 DEF VerifyStart
  <2> DEFINE v == ToProcessing(t)
             r == [rpc[s] EXCEPT !.verify = {v}]
  <2>3. v.id = t.id
    BY <2>1, StatusKeeps DEF Request, ToProcessing
  <2>4. trades' = [trades EXCEPT ![rpc[s].to] = UpdateTree(@, v)] /\ SetSlot(s, r)
    BY <2>2
  <2>5. ~rpc[s].inFlight
    BY <2>1 DEF UnderWay, Unstarted
  <2> HIDE DEF v
  <2>6. r.to = rpc[s].to /\ r.verify = {v} /\ ~r.inFlight /\ r # Free
    BY <2>1, <2>5 DEF Request, Free, Kind, CommitKind
  <2> HIDE DEF r
  <2>7. rpc'[s] = r /\ \A u \in Rpc : u # s => rpc'[u] = rpc[u]
    BY <2>4, <2>6 DEF SetSlot, Settle, TypeOK
  <2> QED BY <2>1, <2>3, <2>4, <2>6, <2>7, TaskUnderWay DEF Live
<1>11. ASSUME NEW s \in Rpc, VerifyEnd(s) PROVE UnderWay'
  <2> DEFINE r == [rpc[s] EXCEPT !.verify = {}]
  <2>1. Live(s) /\ rpc[s] \in Request
    BY <1>0, <1>11 DEF VerifyEnd
  <2>2. PICK t \in rpc[s].verify :
          /\ t.status \in ProcStatus
          /\ trades' = [trades EXCEPT ![rpc[s].to] = UpdateTree(@, ToSend(t))]
    BY <1>11 DEF VerifyEnd
  <2> DEFINE v == ToSend(t)
  <2>3. v.id = t.id /\ v.status \notin ProcStatus
    BY <2>1, <2>2, StatusKeeps, ProcWrites DEF Request, ToSend
  <2>4. trades' = [trades EXCEPT ![rpc[s].to] = UpdateTree(@, v)]
    BY <2>2
  <2>5. ~rpc[s].inFlight
    BY <2>1 DEF UnderWay, Unstarted
  <2> HIDE DEF v
  <2>6. ~r.inFlight
    BY <2>1, <2>5 DEF Request
  <2>7. rpc'[s] \in {r, Free} /\ \A u \in Rpc : u # s => rpc'[u] = rpc[u]
    BY <1>11, SettleCases DEF VerifyEnd, SetSlot, TypeOK
  <2> HIDE DEF r
  <2>8. Live(s)' => ~rpc'[s].inFlight
    BY <2>6, <2>7 DEF Live
  <2> QED BY <2>1, <2>3, <2>4, <2>7, <2>8, TaskUnderWay
<1>12. ASSUME NEW s \in Rpc, Lose(s) PROVE UnderWay'
  <2> DEFINE r == [rpc[s] EXCEPT !.inFlight = FALSE]
  <2>1. Live(s) /\ rpc[s] \in Request
    BY <1>0, <1>12 DEF Lose
  <2>2. r \in Request /\ r.to = rpc[s].to /\ r.verify = rpc[s].verify /\ ~r.inFlight
    BY <2>1 DEF Request
  <2>3. SetSlot(s, r) /\ UNCHANGED trades
    BY <1>12 DEF Lose
  <2> HIDE DEF r
  <2> QED BY <1>a, <2>1, <2>2, <2>3
<1>13. ASSUME NEW n \in Node, Tick(n) PROVE UnderWay'
  <2>1. PICK slot \in Injection(Due(n), FreeSlots) :
          rpc' = [s \in Rpc |->
            IF \E u \in Due(n) : slot[u] = s
              THEN LET u == CHOOSE x \in Due(n) : slot[x] = s
                   IN Call(KindToSend(u.status), n, CounterParty(u), u.id, {u})
              ELSE rpc[s]]
    BY <1>13 DEF Tick
  <2>2. ASSUME NEW s \in Rpc, rpc'[s] # rpc[s] PROVE ~Live(s) /\ rpc'[s].verify = {}
    <3>1. \E u \in Due(n) : slot[u] = s
      BY <2>1, <2>2
    <3>2. s \in FreeSlots
      BY <2>1, <3>1 DEF Injection
    <3> QED BY <2>1, <3>1, <3>2 DEF FreeSlots, Live, Call
  <2> QED BY <1>13, <1>c, <2>2 DEF Tick
<1>14. ASSUME NEW n \in Node, Flush(n) PROVE UnderWay'
  BY <1>14 DEF Flush, UnderWay, CheckUnderWay, Unstarted, Live
<1>15. ASSUME NEW n \in Node, Crash(n) PROVE UnderWay'
  <2>1. n \in Crashing /\ \A k \in Node : k # n => trades'[k] = trades[k]
    BY <1>15 DEF Crash, TypeOK
  <2>2. ASSUME NEW s \in Rpc, Live(s)
        PROVE  /\ Live(s)' => (rpc'[s].inFlight => rpc[s].inFlight /\ rpc'[s].verify = {})
               /\ rpc[s].to # n /\ rpc[s].verify # {} =>
                    Live(s)' /\ rpc'[s].to = rpc[s].to /\ rpc'[s].verify = rpc[s].verify
    <3> DEFINE r == AfterCrash(rpc[s], n)
    <3>1. rpc[s] \in Request /\ (rpc[s].inFlight => rpc[s].verify = {})
      BY <1>0, <2>2 DEF UnderWay, Unstarted
    <3>2. /\ r.to = rpc[s].to /\ r.verify \subseteq rpc[s].verify
          /\ r.inFlight => rpc[s].inFlight
          /\ rpc[s].to # n => r.verify = rpc[s].verify
          /\ r # Free
      <4>1. r \in Request
        BY <3>1, AfterCrashTyped
      <4> QED BY <3>1, <4>1 DEF AfterCrash, Request, Free, Kind, CommitKind
    <3>3. rpc'[s] = Settle(r)
      BY <1>15, <2>2 DEF Crash
    <3> HIDE DEF r
    <3>4. rpc'[s] \in {r, Free} /\ (r.verify # {} => rpc'[s] = r)
      BY <3>3 DEF Settle
    <3> QED BY <3>1, <3>2, <3>4 DEF Live
  <2>3. \A s \in Rpc : ~Live(s) => ~Live(s)'
    BY <1>15 DEF Crash, Live
  <2>4. Unstarted'
    BY <2>2, <2>3 DEF Unstarted
  <2>5. CheckUnderWay'
    BY <2>1, <2>2, ChecksGoOn
  <2> QED BY <2>4, <2>5 DEF UnderWay
<1>16. CASE UNCHANGED vars
  BY <1>16 DEF vars, UnderWay, CheckUnderWay, Unstarted, Live
<1> QED
  BY <1>1, <1>2, <1>3, <1>4, <1>5, <1>6, <1>7, <1>8, <1>9, <1>10, <1>11, <1>12,
     <1>13, <1>14, <1>15, <1>16
     DEF Next, Handle, HandleT1RequesterCommit, HandleT1ProviderCommit,
         HandleT2RequesterCommit, CommitKind

(* On a node that does not crash, every trade in a processing status has a *)
(* verify task that will take it out: the safety half of VerifyEnds.       *)
THEOREM EveryCheckHasItsTask == Spec => []CheckUnderWay
<1>1. Init => UnderWay
  BY DEF Init, UnderWay, CheckUnderWay, Unstarted, Live
<1>2. UnderWay => CheckUnderWay
  BY DEF UnderWay
<1> QED BY <1>1, <1>2, UnderWayStep, TypeCorrect, AlwaysBacked, PTL DEF Spec

-----------------------------------------------------------------------------
(* Trades at rest.                                                         *)

(* A request that goes on as r gains no copy of a trade. *)
Shrinks(r, q) ==
  /\ r.kind = q.kind /\ r.from = q.from /\ r.to = q.to /\ r.snap = q.snap
  /\ r.caller = "waiting" => q.caller = "waiting"
  /\ r.inFlight => q.inFlight
  /\ \A u \in r.verify : \E v \in q.verify : u.id = v.id

(* A slot that gains no copy leaves no trade copied that was not. *)
LEMMA NoNewCopy ==
  ASSUME TypeOK, NEW s \in Rpc, NEW r, Live(s), SetSlot(s, r), Shrinks(r, rpc[s]),
         NEW n \in Node, NEW i, ~Copied(n, i)
  PROVE  ~Copied(n, i)'
<1>1. rpc'[s] \in {r, Free} /\ \A u \in Rpc : u # s => rpc'[u] = rpc[u]
  BY SettleCases DEF SetSlot, TypeOK
<1>2. SUFFICES ASSUME NEW u \in Rpc, Live(u)',
                      \/ /\ \E t \in rpc'[u].snap : t.id = i
                         /\ \/ rpc'[u].from = n /\ rpc'[u].caller = "waiting"
                            \/ rpc'[u].to = n /\ rpc'[u].kind = "StartCommit" /\ rpc'[u].inFlight
                      \/ rpc'[u].to = n /\ \E t \in rpc'[u].verify : t.id = i
               PROVE  FALSE
  BY DEF Copied
<1>3. CASE u = s
  BY <1>1, <1>2, <1>3 DEF Shrinks, Copied, Live
<1>4. CASE u # s
  BY <1>1, <1>2, <1>4 DEF Copied, Live
<1> QED BY <1>3, <1>4

(* A write of another trade, or on another node, leaves a trade in place.  *)
LEMMA OtherWrite ==
  ASSUME TypeOK, NEW n \in Node, NEW t \in trades[n], NEW m \in Node, NEW v,
         m = n => v.id # t.id,
         \/ trades' = [trades EXCEPT ![m] = Insert(@, v)]
         \/ trades' = [trades EXCEPT ![m] = UpdateTree(@, v)]
  PROVE  t \in trades'[n]
<1>1. CASE m = n
  <2>1. trades'[n] = Insert(trades[n], v) \/ trades'[n] = UpdateTree(trades[n], v)
    BY <1>1 DEF TypeOK
  <2> QED BY <1>1, <2>1 DEF Insert, UpdateTree
<1>2. CASE m # n
  BY <1>2 DEF TypeOK
<1> QED BY <1>1, <1>2

(* A parked trade stays so through every step that does not post a         *)
(* StartCommit for it, unless the commit it awaits is on its way.          *)
LEMMA ParkedStep ==
  ASSUME TypeOK, Guarded, [Next]_vars,
         NEW n \in Node, NEW t \in trades[n], Parked(n, t), ~Restarted(n, t.id),
         t.status \in WaitStatus => ~Coming(n, t)
  PROVE  Parked(n, t)'
<1> DEFINE i == t.id
<1>0. /\ \A s \in Rpc : Live(s) => rpc[s] \in Request /\ Orderly(rpc[s])
      /\ ~Copied(n, i) /\ \A u \in trades[n] : u.id = i => u = t
      /\ t.status \notin SendStatus
  BY DEF TypeOK, Live, Guarded, Reports, Trees, Keyed, Parked
<1>c. \A s \in Rpc : Live(s) =>
        /\ rpc[s].from = n /\ rpc[s].caller = "waiting" => \A u \in rpc[s].snap : u.id # i
        /\ rpc[s].to = n /\ rpc[s].kind = "StartCommit" /\ rpc[s].inFlight
             => \A u \in rpc[s].snap : u.id # i
        /\ rpc[s].to = n => \A u \in rpc[s].verify : u.id # i
  BY <1>0 DEF Copied
<1>a. ASSUME ~Copied(n, i)', t \in trades'[n], UNCHANGED disk PROVE Parked(n, t)'
  BY <1>a DEF Parked
<1>b. ASSUME NEW s \in Rpc, NEW r, Live(s), SetSlot(s, r), Shrinks(r, rpc[s]),
             t \in trades'[n], UNCHANGED disk
      PROVE  Parked(n, t)'
  BY <1>0, <1>a, <1>b, NoNewCopy
<1>d. ASSUME NEW s \in Rpc, NEW r, rpc[s] = Free, rpc' = [rpc EXCEPT ![s] = r],
             r.snap = {} \/ r.kind = "StartCommit", r.verify = {},
             r.kind = "StartCommit" =>
               \A u \in r.snap : u.id = r.id, UNCHANGED <<trades, disk>>
      PROVE  Parked(n, t)'
  <2>1. rpc'[s] = r /\ \A u \in Rpc : u # s => rpc'[u] = rpc[u]
    BY <1>d DEF TypeOK
  <2>2. r.kind = "StartCommit" /\ n \in {r.from, r.to} => r.id # i
    BY <1>d, <2>1 DEF Restarted
  <2>3. ~Copied(n, i)'
    BY <1>0, <1>d, <2>1, <2>2 DEF Copied, Live
  <2> QED BY <1>a, <1>d, <2>3
<1> HIDE DEF i
<1>1. ASSUME NEW s \in Rpc, NEW w \in Want, PostIWant(s, w) PROVE Parked(n, t)'
  <2> DEFINE r == Call("IWant", w.requester, w.provider, w.id, {})
  <2>1. r.snap = {} /\ r.verify = {} /\ r.kind # "StartCommit"
    BY DEF Call
  <2> HIDE DEF r
  <2> QED BY <1>1, <1>d, <2>1 DEF PostIWant, r
<1>2. ASSUME NEW s \in Rpc, NEW m \in Node, NEW w \in iWants[m], PostStartCommit(s, m, w)
      PROVE  Parked(n, t)'
  <2> DEFINE v == [id |-> w.id, requester |-> w.requester, provider |-> m,
                   status |-> "WaitingRT1Commit", isRequester |-> FALSE]
             r == Call("StartCommit", m, w.requester, w.id, {v})
  <2>1. /\ r.kind = "StartCommit" /\ r.verify = {} /\ r.id = w.id /\ r.snap = {v}
        /\ v.id = w.id
    BY DEF Call
  <2>2. rpc[s] = Free /\ rpc' = [rpc EXCEPT ![s] = r] /\ UNCHANGED <<trades, disk>>
    BY <1>2 DEF PostStartCommit
  <2> HIDE DEF r, v
  <2> QED BY <1>d, <2>1, <2>2
<1>3. ASSUME NEW s \in Rpc, HandleIWant(s) PROVE Parked(n, t)'
  <2>1. Live(s) /\ rpc[s] \in Request
    BY <1>0, <1>3 DEF HandleIWant, Arriving
  <2>2. Shrinks(Answered(rpc[s], "Ack"), rpc[s])
    BY <2>1 DEF Shrinks, Answered, Request
  <2> QED BY <1>3, <1>b, <2>1, <2>2 DEF HandleIWant
<1>4. ASSUME NEW s \in Rpc, HandleStartCommit(s) PROVE Parked(n, t)'
  <2>1. Live(s) /\ rpc[s] \in Request /\ rpc[s].kind = "StartCommit" /\ rpc[s].inFlight
    BY <1>0, <1>4 DEF HandleStartCommit, Arriving
  <2>2. Shrinks(Answered(rpc[s], "Ack"), rpc[s])
    BY <2>1 DEF Shrinks, Answered, Request
  <2>3. PICK u \in Received(s) :
          trades' = [trades EXCEPT ![rpc[s].to] = Insert(@, UpdateStatus(u, "RSendT1Commit"))]
    BY <1>4 DEF HandleStartCommit
  <2> DEFINE v == UpdateStatus(u, "RSendT1Commit")
  <2>4. v.id = u.id /\ rpc[s].to \in Node /\ \E w \in rpc[s].snap : w.id = u.id
    BY <2>1, ReceivedTyped DEF Request, TradeRecord, UpdateStatus
  <2>5. trades' = [trades EXCEPT ![rpc[s].to] = Insert(@, v)]
    BY <2>3
  <2>6. rpc[s].to = n => v.id # t.id
    BY <1>c, <2>1, <2>4 DEF i
  <2> HIDE DEF v
  <2>7. t \in trades'[n]
    BY <2>4, <2>5, <2>6, OtherWrite
  <2> QED BY <1>4, <1>b, <2>1, <2>2, <2>7 DEF HandleStartCommit
<1>5. ASSUME NEW s \in Rpc, NEW kind \in CommitKind, HandleCommit(s, kind) PROVE Parked(n, t)'
  <2> DEFINE ok == [Answered(rpc[s], "Ack") EXCEPT !.verify = Awaiting(s)]
             bad == Answered(rpc[s], "Bad")
  <2>1. Live(s) /\ rpc[s] \in Request /\ rpc[s].kind = kind /\ rpc[s].inFlight
    BY <1>0, <1>5 DEF HandleCommit, Arriving
  <2>2. t \in trades'[n] /\ UNCHANGED disk
    BY <1>5 DEF HandleCommit
  <2>3. CASE SetSlot(s, bad)
    <3>1. Shrinks(bad, rpc[s])
      BY <2>1 DEF Shrinks, Answered, Request
    <3> HIDE DEF bad
    <3> QED BY <1>b, <2>1, <2>2, <2>3, <3>1
  <2>4. CASE SetSlot(s, ok)
    <3>1. /\ ok.from = rpc[s].from /\ ok.to = rpc[s].to /\ ok.snap = rpc[s].snap
          /\ ok.kind = kind /\ ok.verify = Awaiting(s) /\ ok.caller = rpc[s].caller
      BY <2>1 DEF Answered, Request
    <3>2. rpc[s].to = n => \A u \in Awaiting(s) : u.id # i
      <4>1. AwaitStatus(rpc[s].kind) \in WaitStatus
        BY <2>1, AwaitFacts
      <4>2. rpc[s].to = n /\ t \in Awaiting(s) => Coming(n, t)
        BY <2>1 DEF Awaiting, Coming, IsSend
      <4>3. rpc[s].to = n /\ t \in Awaiting(s) => t.status \in WaitStatus
        BY <4>1 DEF Awaiting
      <4>4. \A u \in Awaiting(s) : rpc[s].to = n => u \in trades[n]
        BY DEF Awaiting
      <4> QED BY <1>0, <4>2, <4>3, <4>4
    <3>3. rpc'[s] \in {ok, Free} /\ \A u \in Rpc : u # s => rpc'[u] = rpc[u]
      BY <2>4, SettleCases DEF SetSlot, TypeOK
    <3>4. kind # "StartCommit"
      BY DEF CommitKind
    <3> HIDE DEF ok
    <3>5. ~Copied(n, i)'
      <4>1. SUFFICES ASSUME NEW u \in Rpc, Live(u)',
                 \/ /\ \E x \in rpc'[u].snap : x.id = i
                    /\ \/ rpc'[u].from = n /\ rpc'[u].caller = "waiting"
                       \/ rpc'[u].to = n /\ rpc'[u].kind = "StartCommit" /\ rpc'[u].inFlight
                 \/ rpc'[u].to = n /\ \E x \in rpc'[u].verify : x.id = i
                     PROVE  FALSE
        BY DEF Copied
      <4>2. CASE u = s
        <5>1. rpc'[s] = ok
          BY <3>3, <4>1, <4>2 DEF Live
        <5> QED BY <1>c, <2>1, <3>1, <3>2, <3>4, <4>1, <4>2, <5>1
      <4>3. CASE u # s
        BY <1>c, <3>3, <4>1, <4>3 DEF Live
      <4> QED BY <4>2, <4>3
    <3> QED BY <1>a, <2>2, <3>5
  <2> QED BY <1>5, <2>3, <2>4 DEF HandleCommit
<1>6. ASSUME NEW s \in Rpc, RouteAnswered(s) PROVE Parked(n, t)'
  <2> DEFINE r == [rpc[s] EXCEPT !.caller = "gone", !.reply = "none"]
  <2>1. Live(s) /\ rpc[s] \in Request /\ rpc[s].caller = "waiting"
    BY <1>0, <1>6 DEF RouteAnswered, Orderly
  <2>2. Shrinks(r, rpc[s])
    BY <2>1 DEF Shrinks, Request
  <2>3. t \in trades'[n]
    <3>1. CASE UNCHANGED trades
      BY <3>1
    <3>2. ASSUME NEW u \in rpc[s].snap, trades' = [trades EXCEPT ![rpc[s].from] = Insert(@, u)]
          PROVE  t \in trades'[n]
      <4>1. rpc[s].from \in Node /\ (rpc[s].from = n => u.id # t.id)
        BY <1>c, <2>1 DEF Request, i
      <4> QED BY <3>2, <4>1, OtherWrite
    <3> QED BY <1>6, <3>1, <3>2 DEF RouteAnswered
  <2>4. SetSlot(s, r) /\ UNCHANGED disk
    BY <1>6 DEF RouteAnswered
  <2> HIDE DEF r
  <2> QED BY <1>b, <2>1, <2>2, <2>3, <2>4
<1>7. ASSUME NEW s \in Rpc, SendAnswered(s) PROVE Parked(n, t)'
  <2> DEFINE r == [rpc[s] EXCEPT !.caller = "event", !.reply = "none"]
  <2>1. Live(s) /\ rpc[s] \in Request /\ rpc[s].caller = "waiting"
    BY <1>0, <1>7 DEF SendAnswered, IsSend, Orderly
  <2>2. Shrinks(r, rpc[s])
    BY <2>1 DEF Shrinks, Request
  <2>3. PICK u \in rpc[s].snap :
          trades' = [trades EXCEPT ![rpc[s].from] = UpdateTree(@, ToWaiting(u))]
    BY <1>7 DEF SendAnswered
  <2>4. rpc[s].from \in Node /\ (rpc[s].from = n => ToWaiting(u).id # t.id)
    BY <1>c, <2>1, StatusKeeps DEF Request, ToWaiting, i
  <2>5. t \in trades'[n]
    BY <2>3, <2>4, OtherWrite
  <2>6. SetSlot(s, r) /\ UNCHANGED disk
    BY <1>7 DEF SendAnswered
  <2> HIDE DEF r
  <2> QED BY <1>b, <2>1, <2>2, <2>5, <2>6
<1>8. ASSUME NEW s \in Rpc, CallFailed(s) PROVE Parked(n, t)'
  <2> DEFINE r == [rpc[s] EXCEPT
                     !.caller = IF rpc[s].kind \in CommitKind THEN "event" ELSE "gone",
                     !.reply = "none"]
  <2>1. Live(s) /\ rpc[s] \in Request
    BY <1>0, <1>8 DEF CallFailed
  <2>2. Shrinks(r, rpc[s])
    BY <2>1 DEF Shrinks, Request
  <2>3. SetSlot(s, r) /\ UNCHANGED <<trades, disk>>
    BY <1>8 DEF CallFailed
  <2> HIDE DEF r
  <2> QED BY <1>b, <2>1, <2>2, <2>3
<1>9. ASSUME NEW s \in Rpc, ProcEvent(s) PROVE Parked(n, t)'
  <2> DEFINE r == [rpc[s] EXCEPT !.caller = "gone"]
  <2>1. Live(s) /\ rpc[s] \in Request
    BY <1>0, <1>9 DEF ProcEvent
  <2>2. Shrinks(r, rpc[s])
    BY <2>1 DEF Shrinks, Request
  <2>3. SetSlot(s, r) /\ UNCHANGED <<trades, disk>>
    BY <1>9 DEF ProcEvent
  <2> HIDE DEF r
  <2> QED BY <1>b, <2>1, <2>2, <2>3
<1>10. ASSUME NEW s \in Rpc, VerifyStart(s) PROVE Parked(n, t)'
  <2>1. Live(s) /\ rpc[s] \in Request
    BY <1>0, <1>10 DEF VerifyStart
  <2>2. PICK u \in rpc[s].verify :
          /\ trades' = [trades EXCEPT ![rpc[s].to] = UpdateTree(@, ToProcessing(u))]
          /\ SetSlot(s, [rpc[s] EXCEPT !.verify = {ToProcessing(u)}])
    BY <1>10 DEF VerifyStart
  <2> DEFINE v == ToProcessing(u)
             r == [rpc[s] EXCEPT !.verify = {v}]
  <2>3. v.id = u.id /\ rpc[s].to \in Node /\ (rpc[s].to = n => v.id # t.id)
    BY <1>c, <2>1, StatusKeeps DEF Request, ToProcessing, i
  <2>4. trades' = [trades EXCEPT ![rpc[s].to] = UpdateTree(@, v)] /\ SetSlot(s, r)
    BY <2>2
  <2> HIDE DEF v
  <2>5. Shrinks(r, rpc[s])
    BY <2>1, <2>3 DEF Shrinks, Request
  <2>6. t \in trades'[n]
    BY <2>3, <2>4, OtherWrite
  <2> HIDE DEF r
  <2> QED BY <1>10, <1>b, <2>1, <2>4, <2>5, <2>6 DEF VerifyStart
<1>11. ASSUME NEW s \in Rpc, VerifyEnd(s) PROVE Parked(n, t)'
  <2> DEFINE r == [rpc[s] EXCEPT !.verify = {}]
  <2>1. Live(s) /\ rpc[s] \in Request
    BY <1>0, <1>11 DEF VerifyEnd
  <2>2. PICK u \in rpc[s].verify :
          trades' = [trades EXCEPT ![rpc[s].to] = UpdateTree(@, ToSend(u))]
    BY <1>11 DEF VerifyEnd
  <2>3. rpc[s].to \in Node /\ (rpc[s].to = n => ToSend(u).id # t.id)
    BY <1>c, <2>1, StatusKeeps DEF Request, ToSend, i
  <2>4. t \in trades'[n]
    BY <2>2, <2>3, OtherWrite
  <2>5. Shrinks(r, rpc[s])
    BY <2>1 DEF Shrinks, Request
  <2>6. SetSlot(s, r) /\ UNCHANGED disk
    BY <1>11 DEF VerifyEnd
  <2> HIDE DEF r
  <2> QED BY <1>b, <2>1, <2>4, <2>5, <2>6
<1>12. ASSUME NEW s \in Rpc, Lose(s) PROVE Parked(n, t)'
  <2> DEFINE r == [rpc[s] EXCEPT !.inFlight = FALSE]
  <2>1. Live(s) /\ rpc[s] \in Request
    BY <1>0, <1>12 DEF Lose
  <2>2. Shrinks(r, rpc[s])
    BY <2>1 DEF Shrinks, Request
  <2>3. SetSlot(s, r) /\ UNCHANGED <<trades, disk>>
    BY <1>12 DEF Lose
  <2> HIDE DEF r
  <2> QED BY <1>b, <2>1, <2>2, <2>3
<1>13. ASSUME NEW m \in Node, Tick(m) PROVE Parked(n, t)'
  <2>1. PICK slot \in Injection(Due(m), FreeSlots) :
          rpc' = [s \in Rpc |->
            IF \E u \in Due(m) : slot[u] = s
              THEN LET u == CHOOSE x \in Due(m) : slot[x] = s
                   IN Call(KindToSend(u.status), m, CounterParty(u), u.id, {u})
              ELSE rpc[s]]
    BY <1>13 DEF Tick
  <2>2. ASSUME NEW s \in Rpc, rpc'[s] # rpc[s]
        PROVE  \E u \in Due(m) : rpc'[s] = Call(KindToSend(u.status), m, CounterParty(u), u.id, {u})
    BY <2>1, <2>2
  <2>3. m = n => \A u \in Due(m) : u.id # i
    BY <1>0 DEF Due
  <2>4. ASSUME NEW s \in Rpc, rpc'[s] # rpc[s]
        PROVE  /\ rpc'[s].kind # "StartCommit" /\ rpc'[s].verify = {} /\ rpc'[s].from = m
               /\ \A u \in rpc'[s].snap : m = n => u.id # i
    <3>1. PICK u \in Due(m) :
            rpc'[s] = Call(KindToSend(u.status), m, CounterParty(u), u.id, {u})
      BY <2>2, <2>4
    <3> QED BY <2>3, <3>1 DEF Call, KindToSend
  <2>5. ~Copied(n, i)'
    <3>1. SUFFICES ASSUME NEW u \in Rpc, Live(u)',
               \/ /\ \E x \in rpc'[u].snap : x.id = i
                  /\ \/ rpc'[u].from = n /\ rpc'[u].caller = "waiting"
                     \/ rpc'[u].to = n /\ rpc'[u].kind = "StartCommit" /\ rpc'[u].inFlight
               \/ rpc'[u].to = n /\ \E x \in rpc'[u].verify : x.id = i
                   PROVE  FALSE
      BY DEF Copied
    <3>2. CASE rpc'[u] = rpc[u]
      BY <1>c, <3>1, <3>2 DEF Live
    <3>3. CASE rpc'[u] # rpc[u]
      BY <2>4, <3>1, <3>3
    <3> QED BY <3>2, <3>3
  <2> QED BY <1>13, <1>a, <2>5 DEF Tick
<1>14. ASSUME NEW m \in Node, Flush(m) PROVE Parked(n, t)'
  <2>1. disk'[n].trades \in {trades[n], disk[n].trades}
    BY <1>14 DEF Flush, TypeOK
  <2>2. Copied(n, i)' <=> Copied(n, i)
    BY <1>14 DEF Flush, Copied, Live
  <2> QED BY <1>0, <1>14, <2>1, <2>2 DEF Flush, Parked, i
<1>15. ASSUME NEW m \in Node, Crash(m) PROVE Parked(n, t)'
  <2>1. t \in trades'[n] /\ UNCHANGED disk
    BY <1>15 DEF Crash, TypeOK, Parked
  <2>2. ASSUME NEW s \in Rpc, Live(s)' PROVE Live(s) /\ Shrinks(rpc'[s], rpc[s])
    <3>1. Live(s) /\ rpc'[s] = AfterCrash(rpc[s], m)
      BY <1>15, <2>2, SettleCases DEF Crash, Live
    <3>2. rpc[s] \in Request
      BY <1>0, <3>1
    <3> QED BY <3>1, <3>2 DEF AfterCrash, Shrinks, Request
  <2>3. ~Copied(n, i)'
    <3>1. SUFFICES ASSUME NEW u \in Rpc, Live(u)',
               \/ /\ \E x \in rpc'[u].snap : x.id = i
                  /\ \/ rpc'[u].from = n /\ rpc'[u].caller = "waiting"
                     \/ rpc'[u].to = n /\ rpc'[u].kind = "StartCommit" /\ rpc'[u].inFlight
               \/ rpc'[u].to = n /\ \E x \in rpc'[u].verify : x.id = i
                   PROVE  FALSE
      BY DEF Copied
    <3>2. Live(u) /\ Shrinks(rpc'[u], rpc[u])
      BY <2>2, <3>1
    <3> QED BY <1>c, <3>1, <3>2 DEF Shrinks
  <2> QED BY <1>a, <2>1, <2>3
<1>16. CASE UNCHANGED vars
  <2>1. UNCHANGED <<trades, disk, rpc>>
    BY <1>16 DEF vars
  <2> QED BY <2>1 DEF Parked, Copied, Live
<1> QED
  BY <1>1, <1>2, <1>3, <1>4, <1>5, <1>6, <1>7, <1>8, <1>9, <1>10, <1>11, <1>12,
     <1>13, <1>14, <1>15, <1>16
     DEF Next, Handle, HandleT1RequesterCommit, HandleT1ProviderCommit,
         HandleT2RequesterCommit, CommitKind

(* What a provider owes, what a requester has paid for, and what a crash   *)
(* has cut off, stay where they are until the exchange is started anew.    *)
THEOREM NothingMovesAtRest == Spec => RestStays
<1> DEFINE Stays ==
      \A n \in Node : \A t \in trades[n] :
        AtRest(n, t) => AtRest(n, t)' \/ Restarted(n, t.id)
<1>1. Init => Guarded
  BY DEF Init, Guarded, Trees, Keyed, Reports, SendGuard, Unreported, IsSend, Live
<1>2. TypeOK /\ Guarded /\ [Next]_vars => [Stays]_vars
  BY ParkedStep DEF AtRest
<1> QED BY <1>1, <1>2, GuardedStep, TypeCorrect, PTL DEF Spec, RestStays

-----------------------------------------------------------------------------
(* Stalemates.                                                             *)

(* A request that goes on as r is the same, and no more on its way.        *)
SameCall(r, q) ==
  /\ r.kind = q.kind /\ r.from = q.from /\ r.to = q.to /\ r.id = q.id
  /\ r.inFlight => q.inFlight

(* A step of one request sends no commit.                                  *)
LEMMA NoneSent ==
  ASSUME TypeOK, NEW s \in Rpc, NEW r,
         rpc' = [rpc EXCEPT ![s] = r] \/ SetSlot(s, r),
         (Live(s) /\ SameCall(r, rpc[s])) \/ r.kind \notin CommitKind,
         NEW n \in Node, NEW t, ~Coming(n, t)
  PROVE  ~Coming(n, t)'
<1>1. rpc'[s] \in {r, Free} /\ \A u \in Rpc : u # s => rpc'[u] = rpc[u]
  BY SettleCases DEF SetSlot, TypeOK
<1>2. SUFFICES ASSUME NEW u \in Rpc, IsSend(u)', rpc'[u].inFlight, rpc'[u].id = t.id,
                      rpc'[u].to = n, rpc'[u].from = CounterParty(t)
               PROVE  FALSE
  BY DEF Coming
<1>3. CASE u = s
  BY <1>1, <1>2, <1>3 DEF SameCall, Coming, IsSend, Live
<1>4. CASE u # s
  BY <1>1, <1>2, <1>4 DEF Coming, IsSend, Live
<1> QED BY <1>3, <1>4

(* The commit a trade awaits comes from a trade of its counterparty that   *)
(* is due.                                                                 *)
LEMMA OnlyDueSends ==
  ASSUME TypeOK, [Next]_vars, NEW n \in Node, NEW t, ~Coming(n, t), Coming(n, t)'
  PROVE  \E u \in trades[CounterParty(t)] : u.status \in SendStatus /\ u.id = t.id
<1>0. \A s \in Rpc : Live(s) => rpc[s] \in Request
  BY DEF TypeOK, Live
<1>a. ASSUME NEW s \in Rpc, NEW r, SetSlot(s, r), Live(s), SameCall(r, rpc[s]) PROVE FALSE
  BY <1>a, NoneSent
<1>b. ASSUME NEW s \in Rpc, NEW r, rpc' = [rpc EXCEPT ![s] = r], r.kind \notin CommitKind
      PROVE  FALSE
  BY <1>b, NoneSent
<1>1. ASSUME NEW s \in Rpc, NEW w \in Want, PostIWant(s, w) PROVE FALSE
  <2>1. Call("IWant", w.requester, w.provider, w.id, {}).kind \notin CommitKind
    BY DEF Call, CommitKind
  <2> QED BY <1>1, <1>b, <2>1 DEF PostIWant
<1>2. ASSUME NEW s \in Rpc, NEW m \in Node, NEW w \in iWants[m], PostStartCommit(s, m, w)
      PROVE  FALSE
  <2> DEFINE r == Call("StartCommit", m, w.requester, w.id,
                    {[id |-> w.id, requester |-> w.requester, provider |-> m,
                      status |-> "WaitingRT1Commit", isRequester |-> FALSE]})
  <2>1. r.kind \notin CommitKind
    BY DEF Call, CommitKind
  <2>2. rpc' = [rpc EXCEPT ![s] = r]
    BY <1>2 DEF PostStartCommit
  <2> HIDE DEF r
  <2> QED BY <1>b, <2>1, <2>2
<1>3. ASSUME NEW s \in Rpc, Live(s), NEW answer, SetSlot(s, Answered(rpc[s], answer))
      PROVE  FALSE
  <2>1. SameCall(Answered(rpc[s], answer), rpc[s])
    BY <1>0, <1>3 DEF SameCall, Answered, Request
  <2> QED BY <1>3, <1>a, <2>1
<1>4. ASSUME NEW s \in Rpc, HandleIWant(s) \/ HandleStartCommit(s) PROVE FALSE
  BY <1>3, <1>4 DEF HandleIWant, HandleStartCommit, Arriving
<1>5. ASSUME NEW s \in Rpc, NEW kind \in CommitKind, HandleCommit(s, kind) PROVE FALSE
  <2>1. Live(s) /\ rpc[s] \in Request
    BY <1>0, <1>5 DEF HandleCommit, Arriving
  <2>2. SameCall([Answered(rpc[s], "Ack") EXCEPT !.verify = Awaiting(s)], rpc[s])
    BY <2>1 DEF SameCall, Answered, Request
  <2> QED BY <1>3, <1>5, <1>a, <2>1, <2>2 DEF HandleCommit
<1>6. ASSUME NEW s \in Rpc, RouteAnswered(s) \/ SendAnswered(s) \/ CallFailed(s) \/ ProcEvent(s)
      PROVE  FALSE
  <2>1. Live(s) /\ rpc[s] \in Request
    BY <1>0, <1>6 DEF RouteAnswered, SendAnswered, CallFailed, ProcEvent, IsSend
  <2>2. \A caller, reply :
          /\ SameCall([rpc[s] EXCEPT !.caller = caller, !.reply = reply], rpc[s])
          /\ SameCall([rpc[s] EXCEPT !.caller = caller], rpc[s])
    BY <2>1 DEF SameCall, Request
  <2> QED BY <1>6, <1>a, <2>1, <2>2 DEF RouteAnswered, SendAnswered, CallFailed, ProcEvent
<1>7. ASSUME NEW s \in Rpc, VerifyStart(s) \/ VerifyEnd(s) PROVE FALSE
  <2>1. Live(s) /\ rpc[s] \in Request
    BY <1>0, <1>7 DEF VerifyStart, VerifyEnd
  <2>2. \A verify : SameCall([rpc[s] EXCEPT !.verify = verify], rpc[s])
    BY <2>1 DEF SameCall, Request
  <2> QED BY <1>7, <1>a, <2>1, <2>2 DEF VerifyStart, VerifyEnd
<1>8. ASSUME NEW s \in Rpc, Lose(s) PROVE FALSE
  <2>1. Live(s) /\ rpc[s] \in Request
    BY <1>0, <1>8 DEF Lose
  <2>2. SameCall([rpc[s] EXCEPT !.inFlight = FALSE], rpc[s])
    BY <2>1 DEF SameCall, Request
  <2> QED BY <1>8, <1>a, <2>1, <2>2 DEF Lose
<1>9. ASSUME NEW m \in Node, Tick(m)
      PROVE  \E u \in trades[CounterParty(t)] : u.status \in SendStatus /\ u.id = t.id
  <2>1. PICK slot \in Injection(Due(m), FreeSlots) :
          rpc' = [s \in Rpc |->
            IF \E u \in Due(m) : slot[u] = s
              THEN LET u == CHOOSE x \in Due(m) : slot[x] = s
                   IN Call(KindToSend(u.status), m, CounterParty(u), u.id, {u})
              ELSE rpc[s]]
    BY <1>9 DEF Tick
  <2>2. PICK s \in Rpc : /\ IsSend(s)' /\ rpc'[s].inFlight /\ rpc'[s].id = t.id
                         /\ rpc'[s].to = n /\ rpc'[s].from = CounterParty(t)
    BY DEF Coming
  <2>3. rpc'[s] # rpc[s]
    BY <2>2 DEF Coming, IsSend, Live
  <2>4. PICK u \in Due(m) : rpc'[s] = Call(KindToSend(u.status), m, CounterParty(u), u.id, {u})
    BY <2>1, <2>3
  <2>5. m = CounterParty(t) /\ u.id = t.id
    BY <2>2, <2>4 DEF Call
  <2> QED BY <2>5 DEF Due
<1>10. ASSUME NEW m \in Node, Flush(m) PROVE FALSE
  BY <1>10 DEF Flush, Coming, IsSend, Live
<1>11. ASSUME NEW m \in Node, Crash(m) PROVE FALSE
  <2>1. PICK s \in Rpc : /\ IsSend(s)' /\ rpc'[s].inFlight /\ rpc'[s].id = t.id
                         /\ rpc'[s].to = n /\ rpc'[s].from = CounterParty(t)
    BY DEF Coming
  <2>2. Live(s) /\ rpc'[s] = AfterCrash(rpc[s], m)
    BY <1>11, <2>1, SettleCases DEF Crash, Live, IsSend
  <2>3. SameCall(rpc'[s], rpc[s])
    BY <1>0, <2>2 DEF AfterCrash, SameCall, Request
  <2> QED BY <2>1, <2>2, <2>3 DEF SameCall, Coming, IsSend, Live
<1>12. CASE UNCHANGED vars
  <2>1. UNCHANGED rpc
    BY <1>12 DEF vars
  <2> QED BY <2>1 DEF Coming, IsSend, Live
<1> QED
  BY <1>1, <1>2, <1>4, <1>5, <1>6, <1>7, <1>8, <1>9, <1>10, <1>11, <1>12
     DEF Next, Handle, HandleT1RequesterCommit, HandleT1ProviderCommit,
         HandleT2RequesterCommit, CommitKind

(* One side of a stalemate, as long as the exchange is not started anew.   *)
LEMMA SideStays ==
  ASSUME TypeOK, Guarded, [Next]_vars, NEW n \in Node, NEW m \in Node,
         NEW t \in trades[n], NEW u \in trades[m], Stalemate(n, t, m, u),
         ~Restarted(n, t.id)
  PROVE  Parked(n, t)' /\ ~Coming(n, t)'
<1>1. Parked(n, t)'
  BY ParkedStep DEF Stalemate
<1>2. \A v \in trades[m] : v.id = t.id => v = u
  BY DEF Guarded, Trees, Keyed, Stalemate
<1>3. u.status \notin SendStatus /\ CounterParty(t) = m
  BY DEF Stalemate, Parked
<1>4. ~Coming(n, t)'
  BY <1>2, <1>3, OnlyDueSends DEF Stalemate
<1> QED BY <1>1, <1>4

(* Once both sides wait and no commit is on its way between them, retries, *)
(* late requests and restarts change nothing: FundsLocked stays out of     *)
(* reach until somebody starts the exchange anew.                          *)
THEOREM StalematesLast == Spec => StalemateStays
<1> DEFINE Stays ==
      \A n, m \in Node : \A t \in trades[n], u \in trades[m] :
        Stalemate(n, t, m, u) =>
          Stalemate(n, t, m, u)' \/ Restarted(n, t.id) \/ Restarted(m, t.id)
<1>1. Init => Guarded
  BY DEF Init, Guarded, Trees, Keyed, Reports, SendGuard, Unreported, IsSend, Live
<1>2. TypeOK /\ Guarded /\ [Next]_vars => [Stays]_vars
  <2> SUFFICES ASSUME TypeOK, Guarded, [Next]_vars, NEW n \in Node, NEW m \in Node,
                      NEW t \in trades[n], NEW u \in trades[m], Stalemate(n, t, m, u),
                      ~Restarted(n, t.id), ~Restarted(m, t.id)
               PROVE  Stalemate(n, t, m, u)'
    OBVIOUS
  <2>1. Stalemate(m, u, n, t) /\ u.id = t.id
    BY DEF Stalemate
  <2>2. Parked(n, t)' /\ ~Coming(n, t)' /\ Parked(m, u)' /\ ~Coming(m, u)'
    BY <2>1, SideStays
  <2> QED BY <2>2 DEF Stalemate
<1> QED BY <1>1, <1>2, GuardedStep, TypeCorrect, PTL DEF Spec, StalemateStays

-----------------------------------------------------------------------------
(* Retries that get nowhere.                                               *)

(* A trade with the flag of the route, at the requester or the provider.   *)
FirstStep(n, t) ==
  /\ ~t.isRequester
  /\ t.status = IF n = t.requester THEN "RSendT1Commit" ELSE "WaitingRT1Commit"

(* A request of a route goes to another node; a commit goes nowhere.       *)
Aimless(r) ==
  /\ r.verify = {}
  /\ r.kind = "IWant" => (r.inFlight => r.from # r.to)
  /\ r.kind = "StartCommit" =>
       /\ r.from # r.to
       /\ \A t \in r.snap : /\ ~t.isRequester /\ t.status = "WaitingRT1Commit"
                            /\ t.requester = r.to
  /\ r.kind \in CommitKind => ~r.inFlight /\ r.reply = "none"

Stuck ==
  /\ \A n \in Node : /\ \A t \in trades[n] \cup disk[n].trades : FirstStep(n, t)
                     /\ \A w \in iWants[n] \cup disk[n].iWants : w.requester # n
  /\ \A s \in Rpc : Live(s) => Aimless(rpc[s])
  /\ \A m \in sent : m.kind = "T1RequesterCommit" /\ m.from = m.to

(* A step that changes one slot and no tree leaves all requests aimless.   *)
LEMMA SlotAimless ==
  ASSUME TypeOK, Stuck, NEW s \in Rpc, NEW r, Aimless(r),
         rpc' = [rpc EXCEPT ![s] = r] \/ SetSlot(s, r)
  PROVE  (\A u \in Rpc : Live(u) => Aimless(rpc[u]))'
<1>1. rpc'[s] \in {r, Free} /\ \A u \in Rpc : u # s => rpc'[u] = rpc[u]
  BY SettleCases DEF SetSlot, TypeOK
<1> QED BY <1>1 DEF Stuck, Live

(* A trade at its first step may be written anywhere. *)
LEMMA FirstStepWritten ==
  ASSUME TypeOK, Stuck, NEW n \in Node, NEW v, FirstStep(n, v),
         trades' = [trades EXCEPT ![n] = Insert(@, v)], UNCHANGED <<iWants, disk>>
  PROVE  (\A k \in Node : /\ \A t \in trades[k] \cup disk[k].trades : FirstStep(k, t)
                         /\ \A w \in iWants[k] \cup disk[k].iWants : w.requester # k)'
<1>1. trades'[n] = Insert(trades[n], v) /\ \A k \in Node : k # n => trades'[k] = trades[k]
  BY DEF TypeOK
<1>2. Insert(trades[n], v) \subseteq trades[n] \cup {v}
  BY TreeWrites
<1> QED BY <1>1, <1>2 DEF Stuck

(* Stuck is inductive with the flag of the route: no handler ever sees a    *)
(* commit, so nothing moves a trade on.                                    *)
LEMMA StuckStep == Flags = {FALSE} /\ TypeOK /\ Stuck /\ [Next]_vars => Stuck'
<1> SUFFICES ASSUME Flags = {FALSE}, TypeOK, Stuck, [Next]_vars PROVE Stuck'
  OBVIOUS
<1> DEFINE TreesStuck ==
      \A n \in Node : /\ \A t \in trades[n] \cup disk[n].trades : FirstStep(n, t)
                     /\ \A w \in iWants[n] \cup disk[n].iWants : w.requester # n
<1>0. \A s \in Rpc : Live(s) => rpc[s] \in Request /\ Aimless(rpc[s])
  BY DEF TypeOK, Live, Stuck
<1>a. ASSUME NEW s \in Rpc, NEW r, Aimless(r), rpc' = [rpc EXCEPT ![s] = r] \/ SetSlot(s, r),
             TreesStuck', UNCHANGED sent
      PROVE  Stuck'
  BY <1>a, SlotAimless DEF Stuck
<1>b. ASSUME UNCHANGED <<iWants, trades, disk>> PROVE TreesStuck'
  BY <1>b DEF Stuck
<1>1. ASSUME NEW s \in Rpc, NEW w \in Want, PostIWant(s, w) PROVE Stuck'
  <2> DEFINE r == Call("IWant", w.requester, w.provider, w.id, {})
  <2>1. Aimless(r)
    BY DEF Aimless, Call, CommitKind
  <2>2. rpc' = [rpc EXCEPT ![s] = r]
    BY <1>1 DEF PostIWant
  <2> HIDE DEF r, TreesStuck
  <2> QED BY <1>1, <1>a, <1>b, <2>1, <2>2 DEF PostIWant
<1>2. ASSUME NEW s \in Rpc, NEW n \in Node, NEW w \in iWants[n], PostStartCommit(s, n, w)
      PROVE Stuck'
  <2> DEFINE t == [id |-> w.id, requester |-> w.requester, provider |-> n,
                   status |-> "WaitingRT1Commit", isRequester |-> FALSE]
             r == Call("StartCommit", n, w.requester, w.id, {t})
  <2>1. w.requester # n
    BY DEF Stuck
  <2>2. Aimless(r)
    BY <2>1 DEF Aimless, Call, CommitKind
  <2>3. rpc' = [rpc EXCEPT ![s] = r]
    BY <1>2 DEF PostStartCommit
  <2> HIDE DEF r, TreesStuck
  <2> QED BY <1>2, <1>a, <1>b, <2>2, <2>3 DEF PostStartCommit
<1>3. ASSUME NEW s \in Rpc, HandleIWant(s) PROVE Stuck'
  <2> DEFINE r == Answered(rpc[s], "Ack")
             v == [id |-> rpc[s].id, requester |-> rpc[s].from]
             n == rpc[s].to
  <2>1. /\ rpc[s] \in Request /\ Aimless(rpc[s]) /\ rpc[s].kind = "IWant"
        /\ rpc[s].from # rpc[s].to
    BY <1>0, <1>3 DEF HandleIWant, Arriving, Aimless
  <2>2. Aimless(r)
    BY <2>1 DEF Aimless, Answered, Request, CommitKind
  <2>3. TreesStuck'
    <3>1. n \in Node /\ v.requester # n
      BY <2>1 DEF Request
    <3>2. iWants' = [iWants EXCEPT ![n] = Insert(@, v)]
      BY <1>3 DEF HandleIWant
    <3>3. Insert(iWants[n], v) \subseteq iWants[n] \cup {v}
      BY TreeWrites
    <3> HIDE DEF v, n
    <3>4. iWants'[n] = Insert(iWants[n], v) /\ \A k \in Node : k # n => iWants'[k] = iWants[k]
      BY <3>1, <3>2 DEF TypeOK
    <3> QED BY <1>3, <3>1, <3>3, <3>4 DEF HandleIWant, Stuck
  <2>4. SetSlot(s, r)
    BY <1>3 DEF HandleIWant
  <2> HIDE DEF r, TreesStuck
  <2> QED BY <1>3, <1>a, <2>2, <2>3, <2>4 DEF HandleIWant
<1>4. ASSUME NEW s \in Rpc, HandleStartCommit(s) PROVE Stuck'
  <2> DEFINE r == Answered(rpc[s], "Ack")
  <2>1. rpc[s] \in Request /\ Aimless(rpc[s]) /\ rpc[s].kind = "StartCommit"
    BY <1>0, <1>4 DEF HandleStartCommit, Arriving
  <2>2. Aimless(r)
    BY <2>1 DEF Aimless, Answered, Request, CommitKind
  <2>3. PICK t \in Received(s) :
          trades' = [trades EXCEPT ![rpc[s].to] = Insert(@, UpdateStatus(t, "RSendT1Commit"))]
    BY <1>4 DEF HandleStartCommit
  <2> DEFINE v == UpdateStatus(t, "RSendT1Commit")
  <2>4. FirstStep(rpc[s].to, v) /\ rpc[s].to \in Node
    <3>1. t \in TradeRecord /\ t.isRequester \in Flags
      BY <2>1, ReceivedTyped
    <3>2. t.requester = rpc[s].to /\ rpc[s].to \in Node
      <4>1. PICK u \in rpc[s].snap : t.requester = u.requester
        BY <2>1, ReceivedTyped
      <4>2. \A w \in rpc[s].snap : w.requester = rpc[s].to
        BY <2>1 DEF Aimless
      <4> QED BY <2>1, <4>1, <4>2 DEF Request
    <3>3. t.isRequester = FALSE
      BY <3>1
    <3>4. v.requester = t.requester /\ v.status = "RSendT1Commit" /\ ~v.isRequester
      BY <3>1, <3>3 DEF UpdateStatus, TradeRecord
    <3> HIDE DEF v
    <3> QED BY <3>2, <3>4 DEF FirstStep
  <2>5. trades' = [trades EXCEPT ![rpc[s].to] = Insert(@, v)] /\ SetSlot(s, r)
        /\ UNCHANGED <<iWants, disk, sent>>
    BY <1>4, <2>3 DEF HandleStartCommit
  <2> HIDE DEF r, v
  <2>6. TreesStuck'
    BY <2>4, <2>5, FirstStepWritten
  <2> HIDE DEF TreesStuck
  <2> QED BY <1>a, <2>2, <2>5, <2>6
<1>5. ASSUME NEW s \in Rpc, NEW kind \in CommitKind, HandleCommit(s, kind) PROVE Stuck'
  BY <1>0, <1>5 DEF HandleCommit, Arriving, Aimless
<1>6. ASSUME NEW s \in Rpc, RouteAnswered(s) PROVE Stuck'
  <2> DEFINE r == [rpc[s] EXCEPT !.caller = "gone", !.reply = "none"]
  <2>1. rpc[s] \in Request /\ Aimless(rpc[s])
    BY <1>0, <1>6 DEF RouteAnswered
  <2>2. Aimless(r) /\ SetSlot(s, r)
    BY <1>6, <2>1 DEF RouteAnswered, Aimless, Request
  <2>3. CASE UNCHANGED trades
    <3>1. TreesStuck'
      BY <1>6, <1>b, <2>3 DEF RouteAnswered
    <3> HIDE DEF r, TreesStuck
    <3> QED BY <1>6, <1>a, <2>2, <3>1 DEF RouteAnswered
  <2>4. ASSUME rpc[s].kind = "StartCommit", NEW t \in rpc[s].snap,
               trades' = [trades EXCEPT ![rpc[s].from] = Insert(@, t)]
        PROVE  Stuck'
    <3>1. FirstStep(rpc[s].from, t) /\ rpc[s].from \in Node
      BY <2>1, <2>4 DEF Aimless, FirstStep, Request
    <3>2. TreesStuck'
      BY <1>6, <2>4, <3>1, FirstStepWritten DEF RouteAnswered
    <3> HIDE DEF r, TreesStuck
    <3> QED BY <1>6, <1>a, <2>2, <3>2 DEF RouteAnswered
  <2> QED BY <1>6, <2>3, <2>4 DEF RouteAnswered
<1>7. ASSUME NEW s \in Rpc, SendAnswered(s) PROVE Stuck'
  BY <1>0, <1>7 DEF SendAnswered, IsSend, Aimless
<1>8. ASSUME NEW s \in Rpc, CallFailed(s) PROVE Stuck'
  <2> DEFINE r == [rpc[s] EXCEPT
                     !.caller = IF rpc[s].kind \in CommitKind THEN "event" ELSE "gone",
                     !.reply = "none"]
  <2>1. rpc[s] \in Request /\ Aimless(rpc[s])
    BY <1>0, <1>8 DEF CallFailed
  <2>2. Aimless(r) /\ SetSlot(s, r) /\ UNCHANGED <<iWants, trades, disk, sent>>
    BY <1>8, <2>1 DEF CallFailed, Aimless, Request
  <2> HIDE DEF r, TreesStuck
  <2> QED BY <1>a, <1>b, <2>2
<1>9. ASSUME NEW s \in Rpc, ProcEvent(s) PROVE Stuck'
  <2> DEFINE r == [rpc[s] EXCEPT !.caller = "gone"]
  <2>1. rpc[s] \in Request /\ Aimless(rpc[s])
    BY <1>0, <1>9 DEF ProcEvent
  <2>2. Aimless(r) /\ SetSlot(s, r) /\ UNCHANGED <<iWants, trades, disk, sent>>
    BY <1>9, <2>1 DEF ProcEvent, Aimless, Request
  <2> HIDE DEF r, TreesStuck
  <2> QED BY <1>a, <1>b, <2>2
<1>10. ASSUME NEW s \in Rpc, VerifyStart(s) \/ VerifyEnd(s) PROVE Stuck'
  BY <1>0, <1>10 DEF VerifyStart, VerifyEnd, Aimless
<1>12. ASSUME NEW s \in Rpc, Lose(s) PROVE Stuck'
  <2> DEFINE r == [rpc[s] EXCEPT !.inFlight = FALSE]
  <2>1. rpc[s] \in Request /\ Aimless(rpc[s])
    BY <1>0, <1>12 DEF Lose
  <2>2. Aimless(r) /\ SetSlot(s, r) /\ UNCHANGED <<iWants, trades, disk, sent>>
    BY <1>12, <2>1 DEF Lose, Aimless, Request
  <2> HIDE DEF r, TreesStuck
  <2> QED BY <1>a, <1>b, <2>2
<1>13. ASSUME NEW n \in Node, Tick(n) PROVE Stuck'
  <2>1. \A t \in Due(n) : KindToSend(t.status) = "T1RequesterCommit" /\ CounterParty(t) = n
    <3> SUFFICES ASSUME NEW t \in Due(n)
                 PROVE  KindToSend(t.status) = "T1RequesterCommit" /\ CounterParty(t) = n
      OBVIOUS
    <3>1. FirstStep(n, t) /\ t.status \in SendStatus
      BY DEF Due, Stuck
    <3>2. n = t.requester /\ t.status = "RSendT1Commit"
      BY <3>1 DEF FirstStep, SendStatus
    <3> QED BY <3>1, <3>2 DEF FirstStep, KindToSend, CounterParty
  <2>2. \A m \in sent' : m.kind = "T1RequesterCommit" /\ m.from = m.to
    BY <1>13, <2>1 DEF Tick, Stuck
  <2>3. ASSUME NEW s \in Rpc, Live(s)' PROVE Aimless(rpc'[s])
    <3>1. PICK slot \in Injection(Due(n), FreeSlots) :
            rpc' = [u \in Rpc |->
              IF \E t \in Due(n) : slot[t] = u
                THEN LET t == CHOOSE d \in Due(n) : slot[d] = u
                     IN Call(KindToSend(t.status), n, CounterParty(t), t.id, {t})
                ELSE rpc[u]]
      BY <1>13 DEF Tick
    <3>2. CASE \E t \in Due(n) : slot[t] = s
      <4>1. PICK t \in Due(n) :
              rpc'[s] = Call(KindToSend(t.status), n, CounterParty(t), t.id, {t})
        BY <3>1, <3>2
      <4>2. rpc'[s] = Call("T1RequesterCommit", n, n, t.id, {t})
        BY <2>1, <4>1
      <4> DEFINE c == Call("T1RequesterCommit", n, n, t.id, {t})
      <4>3. c.kind = "T1RequesterCommit" /\ c.verify = {} /\ c.reply = "none"
        BY DEF Call
      <4>4. ~c.inFlight
        BY DEF Call
      <4>5. rpc'[s] = c
        BY <4>2
      <4> HIDE DEF c
      <4>6. Aimless(c)
        BY <4>3, <4>4 DEF Aimless
      <4> QED BY <4>5, <4>6
    <3>3. CASE ~ \E t \in Due(n) : slot[t] = s
      <4>1. rpc'[s] = rpc[s] /\ Live(s)
        BY <3>1, <3>3, <2>3 DEF Live
      <4> QED BY <1>0, <4>1
    <3> QED BY <3>2, <3>3
  <2>4. TreesStuck'
    BY <1>13, <1>b DEF Tick
  <2> QED BY <2>2, <2>3, <2>4 DEF Stuck
<1>14. ASSUME NEW n \in Node, Flush(n) PROVE Stuck'
  <2>1. \A k \in Node : /\ trades'[k] = trades[k] /\ iWants'[k] = iWants[k]
                        /\ \/ disk'[k] = disk[k]
                           \/ disk'[k] = [iWants |-> iWants[k], trades |-> trades[k]]
    BY <1>14 DEF Flush, TypeOK
  <2> QED BY <1>14, <2>1 DEF Flush, Stuck, Live
<1>15. ASSUME NEW n \in Node, Crash(n) PROVE Stuck'
  <2>1. \A k \in Node : /\ disk'[k] = disk[k] /\ trades'[k] \in {trades[k], disk[k].trades}
                        /\ iWants'[k] \in {iWants[k], disk[k].iWants}
    BY <1>15 DEF Crash, TypeOK
  <2>2. TreesStuck'
    BY <2>1 DEF Stuck
  <2>3. ASSUME NEW s \in Rpc, Live(s)' PROVE Aimless(rpc'[s])
    <3>1. Live(s) /\ rpc'[s] = AfterCrash(rpc[s], n)
      BY <1>15, <2>3, SettleCases DEF Crash, Live
    <3>2. rpc[s] \in Request /\ Aimless(rpc[s])
      BY <1>0, <3>1
    <3> DEFINE r == AfterCrash(rpc[s], n)
    <3>3. /\ r.verify = {} /\ r.kind = rpc[s].kind /\ r.from = rpc[s].from /\ r.to = rpc[s].to
          /\ r.snap = rpc[s].snap /\ (r.inFlight => rpc[s].inFlight)
          /\ (rpc[s].reply = "none" => r.reply = "none")
      BY <3>2 DEF AfterCrash, Request, Aimless
    <3> HIDE DEF r
    <3>4. Aimless(r)
      BY <3>2, <3>3 DEF Aimless
    <3> QED BY <3>1, <3>4 DEF r
  <2> QED BY <1>15, <2>2, <2>3 DEF Crash, Stuck
<1>16. CASE UNCHANGED vars
  BY <1>16 DEF vars, Stuck, Live
<1> QED
  BY <1>1, <1>2, <1>3, <1>4, <1>5, <1>6, <1>7, <1>8, <1>9, <1>10, <1>12, <1>13, <1>14,
     <1>15, <1>16
     DEF Next, Handle, HandleT1RequesterCommit, HandleT1ProviderCommit,
         HandleT2RequesterCommit, CommitKind

(* Every trade is at its first step, and every commit was addressed by a   *)
(* requester to itself.                                                    *)
StuckAtFirstStep ==
  /\ \A n \in Node : \A t \in trades[n] :
       t.status = IF n = t.requester THEN "RSendT1Commit" ELSE "WaitingRT1Commit"
  /\ \A m \in sent : m.kind = "T1RequesterCommit" /\ m.from = m.to

(* Why the program as built violates FundsLocked: with the flag its route   *)
(* sends, no trade of any peers, through any losses, retries and crashes,  *)
(* ever gets past its first step, for the requester keeps resending its T1 *)
(* commit to itself and the provider never receives one.                   *)
THEOREM NeverPastFirstStep == Flags = {FALSE} => (Spec => []StuckAtFirstStep)
<1> SUFFICES ASSUME Flags = {FALSE} PROVE Spec => []StuckAtFirstStep
  OBVIOUS
<1>1. Init => Stuck
  BY DEF Init, Stuck, Live
<1>2. TypeOK /\ Stuck /\ [Next]_vars => Stuck'
  BY StuckStep
<1>3. Stuck => StuckAtFirstStep
  BY DEF Stuck, StuckAtFirstStep, FirstStep
<1> QED BY <1>1, <1>2, <1>3, TypeCorrect, PTL DEF Spec
=============================================================================
