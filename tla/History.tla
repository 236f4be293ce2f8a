------------------------------ MODULE History ------------------------------
(***************************************************************************)
(* How a node learns the commits a wallet has made before it accepts one:  *)
(* load_commit_history of ch_request.rs, run by each verify task for the   *)
(* wallet of its commit, the WantHistory handler of the peers it asks, and *)
(* the commit-history and wallets-of-interest trees of storage.rs.         *)
(*                                                                         *)
(* The gossip handlers that would add commits and invalidating signatures  *)
(* are left out: only the query topic is subscribed, and they act only for *)
(* wallets of interest, of which the code never reads any.                 *)
(***************************************************************************)
EXTENDS Naturals, FiniteSets

CONSTANTS
  Task,      \* the verify tasks of one node that load a history
  Wallet,    \* wallet addresses
  Peer, NoPeer,
  Commit,    \* commits: [signer: the signing address, epoch]
  Owner, Epoch,   \* what EthNode answers for a wallet
  Providers,      \* what the DHT answers for a wallet: a set of peers
  Holds,          \* Holds[p]: the wallets peer p has a history record of
  Known           \* Known[p][w]: the commits in that record

ASSUME PeerAssumption == NoPeer \notin Peer /\ IsFiniteSet(Peer)
ASSUME ProviderAssumption == Providers \in [Wallet -> SUBSET Peer]
ASSUME KnownAssumption ==
  /\ Holds \in [Peer -> SUBSET Wallet]
  /\ Known \in [Peer -> [Wallet -> SUBSET Commit]]

VARIABLES
  history,    \* the commit-history tree; no record is the empty set
  interest,   \* the wallets-of-interest tree
  misplaced,  \* the wallets stored under the same key of active-trades
  task,       \* task[k]: where a verify task is in load_commit_history
  inbox,      \* inbox[k]: the Updates its event subscription has buffered
  updates,    \* Updates on their way from peers
  asks        \* history: how often asks[k][p] task k has asked peer p

vars == <<history, interest, misplaced, task, inbox, updates, asks>>

Update == [wallet: Wallet, commits: SUBSET Commit]

(* pc: "idle", "dht" (providers asked for), "loading" (in the select loop), *)
(* "asking" (a WantHistory is out), "writing" (between the read and the     *)
(* insert of add_commits_to_commit_history), "done".  head and rest: the    *)
(* vector of peers left; state and count: LoadingState.                     *)
TaskRecord ==
  [pc: {"idle", "dht", "loading", "asking", "writing", "done"},
   wallet: Wallet, head: Peer \cup {NoPeer}, rest: SUBSET Peer, count: 0..4,
   state: {"Pending", "InProgress", "Ended"}, reply: {"none", "Ack", "Bad"},
   update: SUBSET Update, seen: SUBSET Commit]

Start(w) == [pc |-> "idle", wallet |-> w, head |-> NoPeer, rest |-> {}, count |-> 0,
             state |-> "Pending", reply |-> "none", update |-> {}, seen |-> {}]

At(k, pc) == task[k].pc = pc
Subscribed(k) == task[k].pc \in {"loading", "asking", "writing"}
SetTask(k, t) == task' = [task EXCEPT ![k] = t]

-----------------------------------------------------------------------------
(* verify: a history is loaded unless the wallet is of interest already. *)
VerifyWantsHistory(k) ==
  /\ At(k, "idle")
  /\ SetTask(k, [task[k] EXCEPT
       !.pc = IF task[k].wallet \in interest THEN "done" ELSE "dht"])
  /\ UNCHANGED <<history, interest, misplaced, inbox, updates, asks>>

(* The load is over, one way or another: the wallet becomes one of         *)
(* interest.  add_wallet_of_interest reads one tree and writes another.    *)
Finish(k) ==
  /\ SetTask(k, [task[k] EXCEPT !.pc = "done"])
  /\ misplaced' = interest \cup {task[k].wallet}
  /\ inbox' = [inbox EXCEPT ![k] = {}]
  /\ UNCHANGED <<history, interest, updates, asks>>

(* The DHT answers; the peers come in no particular order. *)
ProvidersFound(k) ==
  /\ At(k, "dht")
  /\ LET found == Providers[task[k].wallet]
     IN \E p \in found \cup {NoPeer} :
          /\ p = NoPeer <=> found = {}
          /\ SetTask(k, [task[k] EXCEPT !.pc = "loading", !.head = p,
                                        !.rest = found \ {p}])
  /\ UNCHANGED <<history, interest, misplaced, inbox, updates, asks>>

(* It fails: the error is dropped. *)
ProvidersFailed(k) == At(k, "dht") /\ Finish(k)

(* Slip: the fifth request is made as well. *)
QueryFromLate(t) ==
  IF t.count <= 4 THEN {[t EXCEPT !.count = @ + 1]}
  ELSE IF t.rest = {} THEN {[t EXCEPT !.count = 1, !.head = NoPeer]}
  ELSE {[t EXCEPT !.count = 1, !.head = p, !.rest = @ \ {p}] : p \in t.rest}

(* query_from: the LoadingStates it may leave; head is the peer to ask. *)
QueryFrom(t) ==
  IF t.count <= 3 THEN {[t EXCEPT !.count = @ + 1]}
  ELSE IF t.rest = {} THEN {[t EXCEPT !.count = 1, !.head = NoPeer]}
  ELSE {[t EXCEPT !.count = 1, !.head = p, !.rest = @ \ {p}] : p \in t.rest}

(* A tick of the interval, while pending or after 30 s of silence. *)
TickAsks(k) ==
  /\ At(k, "loading")
  /\ task[k].state # "Ended"
  /\ \E t \in QueryFrom(task[k]) :
       /\ t.head # NoPeer
       /\ SetTask(k, [t EXCEPT !.pc = "asking", !.reply = "none"])
       /\ asks' = [asks EXCEPT ![k][t.head] = @ + 1]
  /\ UNCHANGED <<history, interest, misplaced, inbox, updates>>

(* Slip: the loop is not left when no peer is left to ask. *)
TickNoPeersGoesOn(k) ==
  /\ At(k, "loading")
  /\ task[k].state # "Ended"
  /\ \E t \in QueryFrom(task[k]) : t.head = NoPeer /\ SetTask(k, t)
  /\ UNCHANGED <<history, interest, misplaced, inbox, updates, asks>>

TickNoPeers(k) ==
  /\ At(k, "loading")
  /\ task[k].state # "Ended"
  /\ \E t \in QueryFrom(task[k]) : t.head = NoPeer
  /\ Finish(k)

TickEnded(k) == At(k, "loading") /\ task[k].state = "Ended" /\ Finish(k)

(* The peer's indexer: Ack and an Update with all it has, or Bad.  The two *)
(* leave in tasks of their own.                                            *)
PeerServes(k) ==
  /\ At(k, "asking")
  /\ task[k].reply = "none"
  /\ LET w == task[k].wallet
     IN IF w \in Holds[task[k].head]
          THEN /\ SetTask(k, [task[k] EXCEPT !.reply = "Ack"])
               /\ updates' = updates \cup
                    {[wallet |-> w, commits |-> Known[task[k].head][w]]}
          ELSE /\ SetTask(k, [task[k] EXCEPT !.reply = "Bad"])
               /\ UNCHANGED updates
  /\ UNCHANGED <<history, interest, misplaced, inbox, asks>>

(* send_commit_request returns, with the answer or after a failure. *)
AskReturns(k) ==
  /\ At(k, "asking")
  /\ \E reply \in {task[k].reply, "Bad"} :
       /\ reply # "none"
       /\ SetTask(k, [task[k] EXCEPT !.pc = "loading", !.reply = "none",
            !.state = IF reply = "Ack" THEN "InProgress" ELSE @])
  /\ UNCHANGED <<history, interest, misplaced, inbox, updates, asks>>

(* The event loop broadcasts an Update to every subscription; it may also  *)
(* be lost, and a subscription that lags drops what it has buffered.       *)
Deliver(u) ==
  /\ updates' = updates \ {u}
  /\ inbox' = [k \in Task |-> IF Subscribed(k) THEN inbox[k] \cup {u} ELSE inbox[k]]
  /\ UNCHANGED <<history, interest, misplaced, task, asks>>

LoseUpdate(u) ==
  /\ updates' = updates \ {u}
  /\ UNCHANGED <<history, interest, misplaced, task, inbox, asks>>

Lag(k) ==
  /\ inbox[k] # {}
  /\ inbox' = [inbox EXCEPT ![k] = {}]
  /\ UNCHANGED <<history, interest, misplaced, task, updates, asks>>

(* An Update is taken whatever wallet it is for.  The history is read in   *)
(* find_commit_history and written back later, under separate locks.       *)
TakeUpdate(k) ==
  /\ At(k, "loading")
  /\ \E u \in inbox[k] :
       /\ inbox' = [inbox EXCEPT ![k] = @ \ {u}]
       /\ SetTask(k, [task[k] EXCEPT !.pc = "writing", !.update = {u},
                                     !.seen = history[u.wallet]])
  /\ UNCHANGED <<history, interest, misplaced, updates, asks>>

(* The filter is made for the wallet the task loads. *)
Valid(commits, w) == {c \in commits : c.signer = Owner[w] /\ c.epoch = Epoch[w]}

(* Slip: commits are stored under the wallet the task loads. *)
WriteOwnWallet(k) ==
  /\ At(k, "writing")
  /\ \E u \in task[k].update :
       /\ history' = [history EXCEPT ![task[k].wallet] =
            task[k].seen \cup Valid(u.commits, task[k].wallet)]
       /\ SetTask(k, [task[k] EXCEPT !.pc = "loading", !.update = {}, !.seen = {},
            !.state = "Ended"])
  /\ UNCHANGED <<interest, misplaced, inbox, updates, asks>>

(* The insert; every Update is the last batch. *)
WriteHistory(k) ==
  /\ At(k, "writing")
  /\ \E u \in task[k].update :
       /\ history' = [history EXCEPT ![u.wallet] =
            task[k].seen \cup Valid(u.commits, task[k].wallet)]
       /\ SetTask(k, [task[k] EXCEPT !.pc = "loading", !.update = {}, !.seen = {},
            !.state = "Ended"])
  /\ UNCHANGED <<interest, misplaced, inbox, updates, asks>>

-----------------------------------------------------------------------------
Init ==
  /\ history = [w \in Wallet |-> {}]
  /\ interest = {} /\ misplaced = {}
  /\ task \in [Task -> {Start(w) : w \in Wallet}]
  /\ inbox = [k \in Task |-> {}]
  /\ updates = {}
  /\ asks = [k \in Task |-> [p \in Peer |-> 0]]

Tick(k) == TickAsks(k) \/ TickNoPeers(k) \/ TickEnded(k)

Next ==
  \/ \E k \in Task :
       \/ VerifyWantsHistory(k)
       \/ ProvidersFound(k)
       \/ ProvidersFailed(k)
       \/ Tick(k)
       \/ PeerServes(k)
       \/ AskReturns(k)
       \/ Lag(k)
       \/ TakeUpdate(k)
       \/ WriteHistory(k)
  \/ \E u \in updates : Deliver(u) \/ LoseUpdate(u)

Spec == Init /\ [][Next]_vars

(* Tasks run, the DHT and every request to a peer end with an answer or an *)
(* error, and the interval ticks.                                          *)
Fairness ==
  \A k \in Task :
    /\ WF_vars(VerifyWantsHistory(k))
    /\ WF_vars(ProvidersFound(k) \/ ProvidersFailed(k))
    /\ WF_vars(PeerServes(k))
    /\ WF_vars(AskReturns(k))
    /\ WF_vars(WriteHistory(k))
    /\ SF_vars(Tick(k))

FairSpec == Spec /\ Fairness

-----------------------------------------------------------------------------
(* Type invariant: the two trees, the tasks and what is on its way to them. *)
TypeOK ==
  /\ history \in [Wallet -> SUBSET Commit]
  /\ interest \subseteq Wallet /\ misplaced \subseteq Wallet
  /\ task \in [Task -> TaskRecord]
  /\ inbox \in [Task -> SUBSET Update]
  /\ updates \subseteq Update
  /\ asks \in [Task -> [Peer -> Nat]]

(* The commits peers have for a wallet. *)
Reported(w) == UNION {Known[p][w] : p \in Peer}

(* Whatever loads run at a time and however their Updates are mixed up, a   *)
(* commit is stored under the wallet some peer reported it for, and only   *)
(* if it is signed by the owner of a wallet, in that wallet's epoch.       *)
Provenance ==
  \A w \in Wallet : \A c \in history[w] :
    /\ c \in Reported(w)
    /\ \E v \in Wallet : c \in Valid({c}, v)

(* Every load ends, so that verify goes on to the send status: the peers   *)
(* are given up one after the other.                                       *)
LoadEnds == \A k \in Task : task[k].pc # "idle" ~> task[k].pc = "done"

-----------------------------------------------------------------------------
(* A statement of the source the code does not keep when loads overlap.    *)

(* No two tasks are between the read and the write of one history.         *)
OneWriter ==
  \A k, l \in Task :
    /\ At(k, "writing") /\ At(l, "writing")
    /\ \E u \in task[k].update, v \in task[l].update : u.wallet = v.wallet
    => k = l

(* storage.rs, add_commits_to_commit_history: new commits are added to the  *)
(* existing ones.  True of a single load, and of many as long as OneWriter *)
(* holds; an overlap of two writers is what loses commits.                 *)
CommitsKept == [][\A w \in Wallet : history[w] \subseteq history'[w]]_vars
=============================================================================
