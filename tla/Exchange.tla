------------------------------ MODULE Exchange ------------------------------
(***************************************************************************)
(* The progressive exchange of commits between requesters and providers:   *)
(* the StartCommit and IWant routes of server.rs, the ticker and the       *)
(* ExchangeRequest handlers of indexer.rs, the send and verify tasks of    *)
(* commit_procedure.rs, and the two trees of storage.rs they share.        *)
(*                                                                         *)
(* A node runs one indexer loop and any number of spawned tasks.  A task   *)
(* that makes a request waits for the answer; the request, its answer and  *)
(* the verify task it may start on the other side are kept together in one *)
(* slot of rpc.  Requests overtake one another, get lost, arrive after the *)
(* caller has given up, but are never delivered twice.                     *)
(***************************************************************************)
EXTENDS Trade, Functions

CONSTANTS
  Rpc,       \* slots: the bound on the requests outstanding at one time
  Want,      \* the I-wants clients may post: [requester, provider, id]
  Flags,     \* the values is_requester has in the StartCommits that reach a
             \* node: {FALSE} is the program as built, whose route sends FALSE
  Crashing   \* the nodes that may crash and restart

ASSUME WantAssumption ==
  /\ Want \subseteq [requester: Node, provider: Node, id: Id]
  /\ \A w \in Want : w.requester # w.provider
(* What this program's own route sends is always among them; TRUE, what the *)
(* flag means on the node that stores it, only a corrected sender sends.   *)
ASSUME FlagAssumption == FALSE \in Flags /\ Flags \subseteq BOOLEAN
ASSUME CrashingAssumption == Crashing \subseteq Node

VARIABLES
  iWants,    \* iWants[n]: the i-wants tree, a set of [id, requester]
  trades,    \* trades[n]: the active-trades tree, a set of TradeRecord
  disk,      \* disk[n]: the part of both trees sled has flushed
  sending,   \* sending[n]: active_send_commit_proc, the ids with a live send()
  rpc,       \* rpc[s]: the request of slot s and the tasks at its two ends
  sent       \* history: the commits handed to the network so far

vars == <<iWants, trades, disk, sending, rpc, sent>>

-----------------------------------------------------------------------------
(* Requests.                                                               *)

Kind == {"IWant", "StartCommit"} \cup CommitKind

Free == [kind |-> "free"]

(* snap: the trade copy the calling task owns (none for an IWant);         *)
(* caller: the calling task waits, has an event queued, or is gone;        *)
(* reply: the answer in flight to it; verify: the trade copy of the verify *)
(* task the request started at its receiver, if that is still running.     *)
Request == [kind: Kind, from: Node, to: Node, id: Id,
            snap: SUBSET TradeRecord, caller: {"waiting", "event", "gone"},
            inFlight: BOOLEAN, reply: {"none", "Ack", "Bad"}, verify: SUBSET TradeRecord]

(* libp2p refuses to dial the local peer, so a request to self never leaves. *)
Call(kind, from, to, id, snap) ==
  [kind |-> kind, from |-> from, to |-> to, id |-> id, snap |-> snap,
   caller |-> "waiting", inFlight |-> from # to, reply |-> "none", verify |-> {}]

(* A slot is reused once nothing of its request is left. *)
Settle(r) ==
  IF r.caller = "gone" /\ ~r.inFlight /\ r.verify = {} THEN Free ELSE r

FreeSlots == {s \in Rpc : rpc[s] = Free}
Live(s) == rpc[s] # Free
Arriving(s, kind) == Live(s) /\ rpc[s].kind = kind /\ rpc[s].inFlight
IsSend(s) == Live(s) /\ rpc[s].kind \in CommitKind

(* The receiver answers; without a waiting caller the answer is dropped. *)
Answered(r, answer) ==
  [r EXCEPT !.inFlight = FALSE,
            !.reply = IF r.caller = "waiting" THEN answer ELSE "none"]

SetSlot(s, r) == rpc' = [rpc EXCEPT ![s] = Settle(r)]

-----------------------------------------------------------------------------
(* server.rs: the two routes that drive an exchange.                       *)

PostIWant(s, w) ==
  /\ rpc[s] = Free
  /\ rpc' = [rpc EXCEPT ![s] =
       Call("IWant", w.requester, w.provider, w.id, {})]
  /\ UNCHANGED <<iWants, trades, disk, sending, sent>>

(* The trade is only stored once the requester has acknowledged it. *)
PostStartCommit(s, n, w) ==
  /\ rpc[s] = Free
  /\ w \in iWants[n]
  /\ LET t == [id |-> w.id, requester |-> w.requester, provider |-> n,
               status |-> "WaitingRT1Commit", isRequester |-> FALSE]
     IN rpc' = [rpc EXCEPT ![s] =
          Call("StartCommit", n, w.requester, w.id, {t})]
  /\ UNCHANGED <<iWants, trades, disk, sending, sent>>

(* The route returns: 200 on Ack, 500 otherwise; only an acknowledged      *)
(* StartCommit stores the provider's trade, whatever is stored already.    *)
RouteAnswered(s) ==
  /\ Live(s)
  /\ rpc[s].kind \in {"IWant", "StartCommit"}
  /\ rpc[s].reply # "none"
  /\ IF rpc[s].kind = "StartCommit" /\ rpc[s].reply = "Ack"
       THEN \E t \in rpc[s].snap :
              trades' = [trades EXCEPT ![rpc[s].from] = Insert(@, t)]
       ELSE UNCHANGED trades
  /\ SetSlot(s, [rpc[s] EXCEPT !.caller = "gone", !.reply = "none"])
  /\ UNCHANGED <<iWants, disk, sending, sent>>

-----------------------------------------------------------------------------
(* indexer.rs: handlers of the requests that arrive.                       *)

HandleIWant(s) ==
  /\ Arriving(s, "IWant")
  /\ iWants' = [iWants EXCEPT ![rpc[s].to] =
       Insert(@, [id |-> rpc[s].id, requester |-> rpc[s].from])]
  /\ SetSlot(s, Answered(rpc[s], "Ack"))
  /\ UNCHANGED <<trades, disk, sending, sent>>

(* The trade a StartCommit carries: a copy of the sender's. *)
Received(s) == {[t EXCEPT !.isRequester = flag] : t \in rpc[s].snap, flag \in Flags}

(* The received trade is stored unchecked, over one with the same id, its  *)
(* flag as received.                                                       *)
HandleStartCommit(s) ==
  /\ Arriving(s, "StartCommit")
  /\ \E t \in Received(s) :
       trades' = [trades EXCEPT ![rpc[s].to] = Insert(@, UpdateStatus(t, "RSendT1Commit"))]
  /\ SetSlot(s, Answered(rpc[s], "Ack"))
  /\ UNCHANGED <<iWants, disk, sending, sent>>

(* Slips of the kind the checks must notice, used by no specification:    *)
(* a commit is taken at any awaiting stage.                                *)
AwaitingAnyStage(s) ==
  {t \in trades[rpc[s].to] :
     t.id = rpc[s].id /\ t.status \in WaitStatus /\ CounterParty(t) = rpc[s].from}

(* The status of the trade is not looked at.                               *)
AwaitingUnchecked(s) ==
  {t \in trades[rpc[s].to] : t.id = rpc[s].id /\ CounterParty(t) = rpc[s].from}

(* The trade a commit in slot s is for, if its receiver awaits it. *)
Awaiting(s) ==
  {t \in trades[rpc[s].to] :
     /\ t.id = rpc[s].id
     /\ t.status = AwaitStatus(rpc[s].kind)
     /\ CounterParty(t) = rpc[s].from}

(* The verify task starts with a copy of the trade as it is stored now;    *)
(* the stored status only changes when that task runs.                     *)
HandleCommit(s, kind) ==
  /\ Arriving(s, kind)
  /\ IF Awaiting(s) # {}
       THEN SetSlot(s, [Answered(rpc[s], "Ack") EXCEPT !.verify = Awaiting(s)])
       ELSE SetSlot(s, Answered(rpc[s], "Bad"))
  /\ UNCHANGED <<iWants, trades, disk, sending, sent>>

HandleT1RequesterCommit(s) == HandleCommit(s, "T1RequesterCommit")
HandleT1ProviderCommit(s)  == HandleCommit(s, "T1ProviderCommit")
HandleT2RequesterCommit(s) == HandleCommit(s, "T2RequesterCommit")

-----------------------------------------------------------------------------
(* indexer.rs: the ticker and the events of finished sends.                *)

(* Slip: a send() that is still at work does not keep the tick from another. *)
DueAgain(n) == {t \in trades[n] : t.status \in SendStatus}

(* Slip: a trade that waits for an answer is sent for again. *)
DueWaiting(n) ==
  {t \in trades[n] : t.status \in SendStatus \cup WaitStatus /\ t.id \notin sending[n]}

(* One tick starts a send() for every trade in a send status whose id has  *)
(* none; slot assigns the slots to the new requests.                       *)
Due(n) == {t \in trades[n] : t.status \in SendStatus /\ t.id \notin sending[n]}

Tick(n) ==
  /\ Due(n) # {}
  /\ sending' = [sending EXCEPT ![n] = @ \cup {t.id : t \in Due(n)}]
  /\ sent' = sent \cup {[kind |-> KindToSend(t.status), from |-> n,
                         to |-> CounterParty(t), id |-> t.id] : t \in Due(n)}
  /\ \E slot \in Injection(Due(n), FreeSlots) :
       rpc' = [s \in Rpc |->
         IF \E t \in Due(n) : slot[t] = s
           THEN LET t == CHOOSE u \in Due(n) : slot[u] = s
                IN Call(KindToSend(t.status), n, CounterParty(t), t.id, {t})
           ELSE rpc[s]]
  /\ UNCHANGED <<iWants, trades, disk>>

(* SendSuccess and SendFailed are handled alike. *)
ProcEvent(s) ==
  /\ Live(s)
  /\ rpc[s].caller = "event"
  /\ sending' = [sending EXCEPT ![rpc[s].from] = @ \ {rpc[s].id}]
  /\ SetSlot(s, [rpc[s] EXCEPT !.caller = "gone"])
  /\ UNCHANGED <<iWants, trades, disk, sent>>

-----------------------------------------------------------------------------
(* commit_procedure.rs: the send and verify tasks.                         *)

(* Ok(_): any answer, Ack or Bad, counts as a success.  The task writes    *)
(* back its own copy of the trade, then queues SendSuccess.                *)
SendAnswered(s) ==
  /\ IsSend(s)
  /\ rpc[s].reply # "none"
  /\ \E t \in rpc[s].snap :
       trades' = [trades EXCEPT ![rpc[s].from] = UpdateTree(@, ToWaiting(t))]
  /\ SetSlot(s, [rpc[s] EXCEPT !.caller = "event", !.reply = "none"])
  /\ UNCHANGED <<iWants, disk, sending, sent>>

(* Slip: a failed send reports nothing to the indexer. *)
CallFailedSilently(s) ==
  /\ Live(s)
  /\ rpc[s].caller = "waiting"
  /\ SetSlot(s, [rpc[s] EXCEPT !.caller = "gone", !.reply = "none"])
  /\ UNCHANGED <<iWants, trades, disk, sending, sent>>

(* Err(_): the request timed out or failed, at any time before the answer  *)
(* is taken.  A send queues SendFailed, a route returns 500.  The request  *)
(* itself may still be on its way.                                         *)
CallFailed(s) ==
  /\ Live(s)
  /\ rpc[s].caller = "waiting"
  /\ SetSlot(s, [rpc[s] EXCEPT
       !.caller = IF rpc[s].kind \in CommitKind THEN "event" ELSE "gone",
       !.reply = "none"])
  /\ UNCHANGED <<iWants, trades, disk, sending, sent>>

(* verify(), up to the write of the processing status; the verdict of      *)
(* is_commit_valid is dropped, so no verdict is kept of a commit.          *)
VerifyStart(s) ==
  /\ Live(s)
  /\ \E t \in rpc[s].verify :
       /\ t.status \in WaitStatus
       /\ trades' = [trades EXCEPT ![rpc[s].to] = UpdateTree(@, ToProcessing(t))]
       /\ SetSlot(s, [rpc[s] EXCEPT !.verify = {ToProcessing(t)}])
  /\ UNCHANGED <<iWants, disk, sending, sent>>

(* verify(), from the end of load_commit_history to the write of the send  *)
(* status; the verdict of are_indexes_in_conflict is dropped as well.      *)
VerifyEnd(s) ==
  /\ Live(s)
  /\ \E t \in rpc[s].verify :
       /\ t.status \in ProcStatus
       /\ trades' = [trades EXCEPT ![rpc[s].to] = UpdateTree(@, ToSend(t))]
  /\ SetSlot(s, [rpc[s] EXCEPT !.verify = {}])
  /\ UNCHANGED <<iWants, disk, sending, sent>>

-----------------------------------------------------------------------------
(* The environment.                                                        *)

(* A request is lost on its way, or dropped by a full event channel. *)
Lose(s) ==
  /\ Live(s)
  /\ rpc[s].inFlight
  /\ SetSlot(s, [rpc[s] EXCEPT !.inFlight = FALSE])
  /\ UNCHANGED <<iWants, trades, disk, sending, sent>>

(* sled flushes in the background, up to half a second after a write. *)
Flush(n) ==
  /\ n \in Crashing
  /\ disk' = [disk EXCEPT ![n] = [iWants |-> iWants[n], trades |-> trades[n]]]
  /\ UNCHANGED <<iWants, trades, sending, rpc, sent>>

(* What is left of a request when node n goes down. *)
AfterCrash(r, n) ==
  [r EXCEPT !.caller = IF r.from = n THEN "gone" ELSE @,
            !.reply = IF r.from = n THEN "none" ELSE @,
            !.inFlight = @ /\ r.to # n,
            !.verify = IF r.to = n THEN {} ELSE @]

(* The process dies and starts again on what was flushed: its tasks, its   *)
(* queued events and the requests that were reaching it are gone.          *)
Crash(n) ==
  /\ n \in Crashing
  /\ iWants' = [iWants EXCEPT ![n] = disk[n].iWants]
  /\ trades' = [trades EXCEPT ![n] = disk[n].trades]
  /\ sending' = [sending EXCEPT ![n] = {}]
  /\ rpc' = [s \in Rpc |-> IF Live(s) THEN Settle(AfterCrash(rpc[s], n)) ELSE Free]
  /\ UNCHANGED <<disk, sent>>

-----------------------------------------------------------------------------
Init ==
  /\ iWants = [n \in Node |-> {}]
  /\ trades = [n \in Node |-> {}]
  /\ disk = [n \in Node |-> [iWants |-> {}, trades |-> {}]]
  /\ sending = [n \in Node |-> {}]
  /\ rpc = [s \in Rpc |-> Free]
  /\ sent = {}

Handle(s) ==
  \/ HandleIWant(s)
  \/ HandleStartCommit(s)
  \/ HandleT1RequesterCommit(s)
  \/ HandleT1ProviderCommit(s)
  \/ HandleT2RequesterCommit(s)

Next ==
  \/ \E s \in Rpc, w \in Want : PostIWant(s, w)
  \/ \E s \in Rpc, n \in Node : \E w \in iWants[n] : PostStartCommit(s, n, w)
  \/ \E s \in Rpc : Handle(s)
  \/ \E s \in Rpc : RouteAnswered(s)
  \/ \E s \in Rpc : SendAnswered(s)
  \/ \E s \in Rpc : CallFailed(s)
  \/ \E s \in Rpc : ProcEvent(s)
  \/ \E s \in Rpc : VerifyStart(s)
  \/ \E s \in Rpc : VerifyEnd(s)
  \/ \E s \in Rpc : Lose(s)
  \/ \E n \in Node : Tick(n)
  \/ \E n \in Node : Flush(n)
  \/ \E n \in Node : Crash(n)

Spec == Init /\ [][Next]_vars

-----------------------------------------------------------------------------
(* Safety.                                                                 *)

CommitMsg == [kind: CommitKind, from: Node, to: Node, id: Id]
IWantRec == [id: Id, requester: Node]

(* Type invariant: the trees, the request slots and the history of commits *)
(* keep their shape under every handler, task and crash.                   *)
TypeOK ==
  /\ iWants \in [Node -> SUBSET IWantRec]
  /\ trades \in [Node -> SUBSET TradeRecord]
  /\ disk \in [Node -> [iWants: SUBSET IWantRec, trades: SUBSET TradeRecord]]
  /\ sending \in [Node -> SUBSET Id]
  /\ rpc \in [Rpc -> Request \cup {Free}]
  /\ sent \subseteq CommitMsg

(* The send() task of slot s has not yet reported to the indexer. *)
Unreported(s) == IsSend(s) /\ rpc[s].caller # "gone"

(* At most one send() is at work for a trade of a node, and the id of a    *)
(* trade is held in active_send_commit_proc exactly as long as one is: no  *)
(* second send next to it, and no id left behind that blocks all retries.  *)
SendGuard ==
  /\ \A n \in Node, i \in Id :
       i \in sending[n] <=>
         \E s \in Rpc : Unreported(s) /\ rpc[s].from = n /\ rpc[s].id = i
  /\ \A s, u \in Rpc :
       /\ Unreported(s) /\ Unreported(u)
       /\ rpc[s].from = rpc[u].from /\ rpc[s].id = rpc[u].id
       => s = u

Msg(kind, from, to, i) == [kind |-> kind, from |-> from, to |-> to, id |-> i]

(* Every commit but the first answers one of the counterparty. *)
Chained(S) ==
  \A a, b \in Node, i \in Id :
    /\ Msg("T1ProviderCommit", a, b, i) \in S => Msg("T1RequesterCommit", b, a, i) \in S
    /\ Msg("T2RequesterCommit", a, b, i) \in S => Msg("T1ProviderCommit", b, a, i) \in S

(* The commits of a trade are given in order, each against the one before  *)
(* it: a provider commits only after the requester it commits to has, the  *)
(* requester pays (T2) only a provider that has committed, and a provider  *)
(* serves only a requester that has paid.  The code keeps this through     *)
(* retries, late and lost requests, restarted exchanges and crashes.       *)
CommitOrder ==
  /\ Chained(sent)
  /\ \A n \in Node : \A t \in trades[n] :
       t.status = "PFulfillService" =>
         Msg("T2RequesterCommit", CounterParty(t), n, t.id) \in sent

(* The commit of the counterparty a status owes its existence to. *)
Prior(st) ==
  CASE st \in {"ProcessingRT1Commit", "PSendT1Commit"}   -> {"T1RequesterCommit"}
    [] st \in {"ProcessingPT1Commit", "RSendT2Commit"}   -> {"T1ProviderCommit"}
    [] st \in {"ProcessingRT2Commit", "PFulfillService"} -> {"T2RequesterCommit"}
    [] OTHER -> {}

Justified(n, t, S) ==
  \A kind \in Prior(t.status) : Msg(kind, CounterParty(t), n, t.id) \in S

(* A commit in a slot was really sent, by a task in a send status; a verify *)
(* task works on a trade of the commit's sender, at that commit's stage.   *)
RequestBacked(r, S) ==
  /\ r.kind \in CommitKind =>
       /\ Msg(r.kind, r.from, r.to, r.id) \in S
       /\ \A t \in r.snap : t.status \in SendStatus
  /\ r.kind \notin CommitKind =>
       /\ r.verify = {}
       /\ \A t \in r.snap : t.status = "WaitingRT1Commit"
  /\ \A t \in r.verify :
       /\ t.id = r.id
       /\ CounterParty(t) = r.from
       /\ \/ t.status = AwaitStatus(r.kind)
          \/ t.status \in ProcStatus /\ Prior(t.status) = {r.kind}

(* CommitOrder made inductive: every status past an exchange of commits,   *)
(* stored, flushed or in the hands of a verify task, is backed by a commit *)
(* its counterparty really sent, and so is every commit on its way.        *)
Backed ==
  /\ \A n \in Node : \A t \in trades[n] \cup disk[n].trades : Justified(n, t, sent)
  /\ \A s \in Rpc : Live(s) => RequestBacked(rpc[s], sent)
  /\ Chained(sent)

(* A commit being checked is being checked by a task: on a node that does  *)
(* not crash, a trade in a processing status has a verify task at work     *)
(* that will take it out, however many tasks and stale copies there are.   *)
CheckUnderWay ==
  \A n \in Node \ Crashing : \A t \in trades[n] :
    t.status \in ProcStatus =>
      \E s \in Rpc : /\ Live(s) /\ rpc[s].to = n
                     /\ \E u \in rpc[s].verify : u.id = t.id /\ u.status \in ProcStatus

(* A task at work for node n, or a StartCommit on its way to it, holds a    *)
(* copy of the trade with this id that may still be stored.                *)
Copied(n, i) ==
  \E s \in Rpc :
    /\ Live(s)
    /\ \/ /\ \E t \in rpc[s].snap : t.id = i
          /\ \/ rpc[s].from = n /\ rpc[s].caller = "waiting"
             \/ rpc[s].to = n /\ rpc[s].kind = "StartCommit" /\ rpc[s].inFlight
       \/ rpc[s].to = n /\ \E t \in rpc[s].verify : t.id = i

(* A trade that is not due to send, that nobody holds a copy of, and that   *)
(* a crash would not undo.                                                 *)
Parked(n, t) ==
  /\ t.status \notin SendStatus
  /\ t \in trades[n] /\ (n \in Crashing => t \in disk[n].trades)
  /\ ~Copied(n, t.id)

(* A trade at rest awaits no commit either. *)
AtRest(n, t) == t.status \notin WaitStatus /\ Parked(n, t)

Restarted(n, i) ==
  \E s \in Rpc : /\ rpc[s] = Free
                 /\ rpc'[s].kind = "StartCommit" /\ rpc'[s].id = i
                 /\ n \in {rpc'[s].from, rpc'[s].to}

(* A trade at rest is there for good: neither a late or repeated commit nor *)
(* a crash makes a provider forget what it owes or a requester pay again.  *)
(* It also holds of a trade whose check a crash has cut off: only a new     *)
(* StartCommit for the same id gets it to move.                            *)
RestStays ==
  [][\A n \in Node : \A t \in trades[n] :
       AtRest(n, t) => AtRest(n, t)' \/ Restarted(n, t.id)]_vars

(* A commit of the counterparty of this trade is on its way to it. *)
Coming(n, t) ==
  \E s \in Rpc :
    /\ IsSend(s) /\ rpc[s].inFlight /\ rpc[s].id = t.id
    /\ rpc[s].to = n /\ rpc[s].from = CounterParty(t)

(* The trades of two nodes each await a commit of the other, and none is    *)
(* on its way.                                                             *)
Stalemate(n, t, m, u) ==
  /\ t.id = u.id /\ CounterParty(t) = m /\ CounterParty(u) = n
  /\ t.status \in WaitStatus /\ u.status \in WaitStatus
  /\ Parked(n, t) /\ ~Coming(n, t)
  /\ Parked(m, u) /\ ~Coming(m, u)

(* Two sides that wait for each other do so for good: neither the ticker    *)
(* nor a retry, a late request or a restart of either node sends what the  *)
(* other waits for.  Only a new StartCommit for the id ends it.            *)
StalemateStays ==
  [][\A n, m \in Node : \A t \in trades[n], u \in trades[m] :
       Stalemate(n, t, m, u) =>
         Stalemate(n, t, m, u)' \/ Restarted(n, t.id) \/ Restarted(m, t.id)]_vars

(* The promise of Escrow, kept by the exchange: its commits are the ones   *)
(* handed to the network, its obligations the trades in PFulfillService.   *)
Obliged ==
  UNION {{[provider |-> n, requester |-> CounterParty(t), id |-> t.id] :
            t \in {u \in trades[n] : u.status = "PFulfillService"}} : n \in Node}

E == INSTANCE Escrow WITH issued <- sent, served <- Obliged
EscrowSpec == E!Spec

-----------------------------------------------------------------------------
(* Fairness and liveness.                                                  *)

(* Tasks, the event queue and the ticker run: tokio polls every task that  *)
(* can progress, and libp2p ends every request with an answer or a failure *)
(* and hands over or drops every message.  Tick is strongly fair since     *)
(* only the bound on slots, which the code does not have, can disable it.  *)
TaskFairness ==
  /\ \A s \in Rpc :
       /\ WF_vars(RouteAnswered(s) \/ SendAnswered(s) \/ CallFailed(s))
       /\ WF_vars(Handle(s) \/ Lose(s))
       /\ WF_vars(ProcEvent(s))
       /\ WF_vars(VerifyStart(s))
       /\ WF_vars(VerifyEnd(s))
  /\ \A n \in Node : SF_vars(Tick(n))

(* A network that works: a commit that is sent again and again is again    *)
(* and again handled before its sender gives up, and answered in time.     *)
InTime(s, kind, i) ==
  IsSend(s) /\ rpc[s].kind = kind /\ rpc[s].id = i /\ rpc[s].caller = "waiting"
Delivered(kind, i) ==
  /\ SF_vars(\E s \in Rpc : InTime(s, kind, i) /\ HandleCommit(s, kind))
  /\ SF_vars(\E s \in Rpc : InTime(s, kind, i) /\ SendAnswered(s))
NetworkFairness == \A kind \in CommitKind, i \in Id : Delivered(kind, i)

TaskSpec == Spec /\ TaskFairness
FairSpec == TaskSpec /\ NetworkFairness

StatusOf(n, i) == {t.status : t \in {u \in trades[n] : u.id = i}}

(* Whatever happens to a commit on its way, its send() ends and gives the  *)
(* id back to the ticker, which is what every retry depends on.            *)
SendReleased ==
  \A n \in Node, i \in Id : i \in sending[n] ~> i \notin sending[n]

(* A commit being verified is answered by the next send or service.        *)
VerifyEnds ==
  \A n \in Node, i \in Id :
    StatusOf(n, i) \cap ProcStatus # {} ~> StatusOf(n, i) \cap ProcStatus = {}

(* A commit of this kind is due to be sent by this node to another peer. *)
Unsent(n, kind, i) ==
  \E t \in trades[n] :
    /\ t.id = i /\ CounterParty(t) # n
    /\ t.status \in SendStatus /\ KindToSend(t.status) = kind

(* Over a network that works, the retries of the ticker bring a trade that  *)
(* is addressed to another peer out of its send status, however often its  *)
(* requests fail before.  A requester's trade with the flag this program's *)
(* route sends is addressed to the requester itself and is not meant here: *)
(* see FundsLocked.                                                        *)
SendLeaves ==
  \A n \in Node, kind \in CommitKind, i \in Id :
    Delivered(kind, i) => (Unsent(n, kind, i) ~> ~Unsent(n, kind, i))

(* README, information query and bids, (6) and (7): once StartCommit has   *)
(* been answered, the commits happen and end with the funds locked.        *)
FundsLocked ==
  \A n \in Node, i \in Id :
    StatusOf(n, i) = {"WaitingRT1Commit"} ~> StatusOf(n, i) = {"PFulfillService"}
=============================================================================
