----------------------------- MODULE Requests ------------------------------
(***************************************************************************)
(* How a task's request gets its answer: the client calls of               *)
(* network_client.rs, the event loops of network/mod.rs at both ends with  *)
(* their pending and channel maps, and the indexer's answers.              *)
(*                                                                         *)
(* The exchange and the commit protocol have maps of their own that are    *)
(* handled alike; this is one of them.  libp2p is external: a request-id   *)
(* is unique at either end, so the name of the call stands for it.         *)
(***************************************************************************)
EXTENDS Naturals, Sequences, FiniteSets

CONSTANTS
  Node,
  Request,     \* calls of send_exchange_request or send_commit_request
  Query,       \* calls of dht_put, dht_get, dht_start_providing,
               \* dht_get_providers and kad_bootstrap
  Direct,      \* calls the loop answers at once, such as publish_message
  From, To,    \* the node that makes a call; the peer of a request
  Update,      \* the requests that may be a CommitRequest::Update, which
               \* load_commit_history takes and does not answer
  Refusable,   \* the queries kademlia may refuse: put, start_providing, bootstrap
  CommandCap,  \* capacity of the command channel (10 in the code)
  EventCap     \* capacity of the broadcast channel (20 in the code)

Call == Request \cup Query \cup Direct
Answer == {"Ack", "Bad"}

ASSUME CallAssumption ==
  /\ Request \cap (Query \cup Direct) = {} /\ Query \cap Direct = {}
  /\ Update \subseteq Request /\ Refusable \subseteq Query
  /\ From \in [Call -> Node] /\ To \in [Request -> Node]
ASSUME CapAssumption == CommandCap \in Nat \ {0} /\ EventCap \in Nat \ {0}

VARIABLES
  commands,    \* commands[n]: the command channel, oldest first
  outbound,    \* outbound[n]: pending_*_outbound_requests
  queries,     \* queries[n]: the pending_dht_* maps
  channels,    \* channels[n]: *_inbound_response_channels
  inbound,     \* inbound[n]: pending_*_inbound_response
  events,      \* events[n]: what the indexer's subscription has buffered
  caller,      \* caller[c]: the task that makes call c
  replier,     \* replier[c]: the task that sends the answer to request c
  answer, got, \* answer[c]: the answer the handler made; got[c]: the caller's
  link,        \* link[c]: libp2p's side of a request or query
  taken        \* history: the requests the indexer's handler has taken

vars == <<commands, outbound, queries, channels, inbound, events,
          caller, replier, answer, got, link, taken>>

-----------------------------------------------------------------------------
(* The maps of the event loop, as sets of entries.                         *)

Entry(key, c) == [key |-> key, call |-> c]
Put(map, key, c) == {e \in map : e.key # key} \cup {Entry(key, c)}
Drop(map, key) == {e \in map : e.key # key}
Found(map, key) == {e.call : e \in {f \in map : f.key = key}}

(* Slip: the pending requests are kept by peer only. *)
PeerKey(peer, c) == <<peer>>

(* (PeerId, RequestId). *)
Key(peer, c) == <<peer, c>>

OutKey(c) == Key(To[c], c)
InKey(c) == Key(From[c], c)

(* The senders found are used: every task in S returns with result. *)
Resolve(tasks, S, result) == [c \in DOMAIN tasks |-> IF c \in S THEN result ELSE tasks[c]]

(* out: the request or query at its own end; in: the request at the peer's, *)
(* "closed" when its stream ended before, "cut" when after the answer was   *)
(* handed over.                                                            *)
Link == [out: {"none", "open", "done"},
         in: {"none", "open", "answering", "sent", "closed", "cut"}]

SetOut(c, v) == link' = [link EXCEPT ![c].out = v]
SetIn(c, v) == link' = [link EXCEPT ![c].in = v]

-----------------------------------------------------------------------------
(* network_client.rs: a call hands its oneshot sender over with a command,  *)
(* waiting for room in the channel, and waits for the receiver.            *)

Command(op, c) == [op |-> op, call |-> c]
HasRoom(n) == Len(commands[n]) < CommandCap
Enqueue(n, cmd) == commands' = [commands EXCEPT ![n] = Append(@, cmd)]

OpOf(c) == IF c \in Request THEN "request" ELSE IF c \in Query THEN "query" ELSE "direct"

Ask(c) ==
  /\ caller[c] = "idle"
  /\ HasRoom(From[c])
  /\ Enqueue(From[c], Command(OpOf(c), c))
  /\ caller' = [caller EXCEPT ![c] = "waiting"]
  /\ UNCHANGED <<outbound, queries, channels, inbound, events, replier, answer, got,
                 link, taken>>

(* send_exchange_response, send_commit_response: the answer of the indexer. *)
Reply(c) ==
  /\ replier[c] = "spawned"
  /\ HasRoom(To[c])
  /\ Enqueue(To[c], Command("response", c))
  /\ replier' = [replier EXCEPT ![c] = "waiting"]
  /\ UNCHANGED <<outbound, queries, channels, inbound, events, caller, answer, got,
                 link, taken>>

-----------------------------------------------------------------------------
(* command_handler.                                                        *)

Receives(n, op, c) ==
  /\ commands[n] # <<>>
  /\ Head(commands[n]) = Command(op, c)
  /\ commands' = [commands EXCEPT ![n] = Tail(@)]

SendRequest(n, c) ==
  /\ Receives(n, "request", c)
  /\ outbound' = [outbound EXCEPT ![n] = Put(@, OutKey(c), c)]
  /\ SetOut(c, "open")
  /\ UNCHANGED <<queries, channels, inbound, events, caller, replier, answer, got, taken>>

StartQuery(n, c) ==
  /\ Receives(n, "query", c)
  /\ queries' = [queries EXCEPT ![n] = Put(@, c, c)]
  /\ SetOut(c, "open")
  /\ UNCHANGED <<outbound, channels, inbound, events, caller, replier, answer, got, taken>>

RefuseQuery(n, c) ==
  /\ c \in Refusable
  /\ Receives(n, "query", c)
  /\ caller' = [caller EXCEPT ![c] = "err"]
  /\ UNCHANGED <<outbound, queries, channels, inbound, events, replier, answer, got,
                 link, taken>>

AnswerDirect(n, c) ==
  /\ Receives(n, "direct", c)
  /\ \E result \in {"ok", "err"} : caller' = [caller EXCEPT ![c] = result]
  /\ UNCHANGED <<outbound, queries, channels, inbound, events, replier, answer, got,
                 link, taken>>

(* The channel is consumed and the sender kept, whether or not libp2p still *)
(* has the stream: the result of send_response is dropped.                 *)
SendResponse(n, c) ==
  /\ Receives(n, "response", c)
  /\ IF Found(channels[n], InKey(c)) # {}
       THEN /\ channels' = [channels EXCEPT ![n] = Drop(@, InKey(c))]
            /\ inbound' = [inbound EXCEPT ![n] = Put(@, InKey(c), c)]
            /\ SetIn(c, IF link[c].in = "open" THEN "answering" ELSE link[c].in)
            /\ UNCHANGED replier
       ELSE /\ replier' = [replier EXCEPT ![c] = "err"]
            /\ UNCHANGED <<channels, inbound, link>>
  /\ UNCHANGED <<outbound, queries, events, caller, answer, got, taken>>

CommandHandler(n) ==
  \E c \in Call :
    \/ c \in Request /\ (SendRequest(n, c) \/ SendResponse(n, c))
    \/ c \in Query /\ (StartQuery(n, c) \/ RefuseQuery(n, c))
    \/ c \in Direct /\ AnswerDirect(n, c)

-----------------------------------------------------------------------------
(* swarm_event_handler.                                                    *)

(* Slip: an event more than the channel holds. *)
BroadcastLate(n, c) ==
  events' = [events EXCEPT ![n] =
    Append(IF Len(@) > EventCap THEN Tail(@) ELSE @, c)]

(* A subscription that lags loses the oldest event. *)
Broadcast(n, c) ==
  events' = [events EXCEPT ![n] =
    Append(IF Len(@) = EventCap THEN Tail(@) ELSE @, c)]

RequestArrives(c) ==
  /\ link[c].out # "none" /\ link[c].in = "none"
  /\ channels' = [channels EXCEPT ![To[c]] = Put(@, InKey(c), c)]
  /\ Broadcast(To[c], c)
  /\ SetIn(c, "open")
  /\ UNCHANGED <<commands, outbound, queries, inbound, caller, replier, answer, got, taken>>

ResponseArrives(c) ==
  /\ link[c].out = "open" /\ link[c].in \in {"answering", "sent", "cut"}
  /\ LET S == Found(outbound[From[c]], OutKey(c))
     IN /\ caller' = Resolve(caller, S, "ok")
        /\ got' = Resolve(got, S, answer[c])
  /\ outbound' = [outbound EXCEPT ![From[c]] = Drop(@, OutKey(c))]
  /\ SetOut(c, "done")
  /\ UNCHANGED <<commands, queries, channels, inbound, events, replier, answer, taken>>

(* Slip: the failure is logged and its sender left in the map. *)
OutboundFailureLogged(c) ==
  /\ c \in Request /\ link[c].out = "open"
  /\ SetOut(c, "done")
  /\ UNCHANGED <<commands, outbound, queries, channels, inbound, events, caller, replier,
                 answer, got, taken>>

(* Timeout, dial failure, closed connection; the request may still arrive. *)
OutboundFailure(c) ==
  /\ c \in Request /\ link[c].out = "open"
  /\ caller' = Resolve(caller, Found(outbound[From[c]], OutKey(c)), "err")
  /\ outbound' = [outbound EXCEPT ![From[c]] = Drop(@, OutKey(c))]
  /\ SetOut(c, "done")
  /\ UNCHANGED <<commands, queries, channels, inbound, events, replier, answer, got, taken>>

ResponseSent(c) ==
  /\ link[c].in = "answering"
  /\ replier' = Resolve(replier, Found(inbound[To[c]], InKey(c)), "ok")
  /\ inbound' = [inbound EXCEPT ![To[c]] = Drop(@, InKey(c))]
  /\ SetIn(c, "sent")
  /\ UNCHANGED <<commands, outbound, queries, channels, events, caller, answer, got, taken>>

(* Slip: the failure is logged and its sender left in the map. *)
InboundFailureLogged(c) ==
  /\ link[c].in \in {"open", "answering"}
  /\ SetIn(c, IF link[c].in = "open" THEN "closed" ELSE "cut")
  /\ UNCHANGED <<commands, outbound, queries, channels, inbound, events, caller, replier,
                 answer, got, taken>>

(* The peer gave up or went away; a channel the loop holds stays there. *)
InboundFailure(c) ==
  /\ link[c].in \in {"open", "answering"}
  /\ replier' = Resolve(replier, Found(inbound[To[c]], InKey(c)), "err")
  /\ inbound' = [inbound EXCEPT ![To[c]] = Drop(@, InKey(c))]
  /\ SetIn(c, IF link[c].in = "open" THEN "closed" ELSE "cut")
  /\ UNCHANGED <<commands, outbound, queries, channels, events, caller, answer, got, taken>>

QueryCompleted(c) ==
  /\ c \in Query /\ link[c].out = "open"
  /\ \E result \in {"ok", "err"} :
       caller' = Resolve(caller, Found(queries[From[c]], c), result)
  /\ queries' = [queries EXCEPT ![From[c]] = Drop(@, c)]
  /\ SetOut(c, "done")
  /\ UNCHANGED <<commands, outbound, channels, inbound, events, replier, answer, got, taken>>

-----------------------------------------------------------------------------
(* indexer.rs: the handler makes its answer and leaves it to a task.       *)
HandleEvent(n) ==
  /\ events[n] # <<>>
  /\ LET c == Head(events[n])
     IN /\ taken' = taken \cup {c}
        /\ \/ /\ \E a \in Answer : answer' = [answer EXCEPT ![c] = {a}]
              /\ replier' = [replier EXCEPT ![c] = "spawned"]
           \/ c \in Update /\ UNCHANGED <<answer, replier>>
  /\ events' = [events EXCEPT ![n] = Tail(@)]
  /\ UNCHANGED <<commands, outbound, queries, channels, inbound, caller, got, link>>

-----------------------------------------------------------------------------
Init ==
  /\ commands = [n \in Node |-> <<>>]
  /\ outbound = [n \in Node |-> {}] /\ queries = [n \in Node |-> {}]
  /\ channels = [n \in Node |-> {}] /\ inbound = [n \in Node |-> {}]
  /\ events = [n \in Node |-> <<>>]
  /\ caller = [c \in Call |-> "idle"]
  /\ replier = [c \in Request |-> "none"]
  /\ answer = [c \in Request |-> {}] /\ got = [c \in Request |-> {}]
  /\ link = [c \in Request \cup Query |-> [out |-> "none", in |-> "none"]]
  /\ taken = {}

Next ==
  \/ \E c \in Call : Ask(c)
  \/ \E n \in Node : CommandHandler(n)
  \/ \E n \in Node : HandleEvent(n)
  \/ \E c \in Request : Reply(c)
  \/ \E c \in Request : RequestArrives(c)
  \/ \E c \in Request : ResponseArrives(c)
  \/ \E c \in Request : OutboundFailure(c)
  \/ \E c \in Request : ResponseSent(c)
  \/ \E c \in Request : InboundFailure(c)
  \/ \E c \in Query : QueryCompleted(c)

Spec == Init /\ [][Next]_vars

(* The loop and the indexer take what is queued, and libp2p ends every      *)
(* request, stream and query.  A task that waits for room in the command    *)
(* channel is served in turn.                                              *)
Fairness ==
  /\ \A n \in Node : WF_vars(CommandHandler(n)) /\ WF_vars(HandleEvent(n))
  /\ \A c \in Request :
       /\ SF_vars(Reply(c))
       /\ WF_vars(ResponseArrives(c) \/ OutboundFailure(c))
       /\ WF_vars(ResponseSent(c) \/ InboundFailure(c))
  /\ \A c \in Query : WF_vars(QueryCompleted(c))

FairSpec == Spec /\ Fairness

-----------------------------------------------------------------------------
Range(s) == {s[i] : i \in DOMAIN s}
Queued(n, op, c) == Command(op, c) \in Range(commands[n])

EntryOf(S) == {Entry(Key(n, c), c) : n \in Node, c \in S}

(* Type invariant: queues within their capacity, maps of entries, tasks. *)
TypeOK ==
  /\ \A n \in Node :
       /\ Len(commands[n]) <= CommandCap
       /\ Range(commands[n]) \subseteq
            {Command(OpOf(c), c) : c \in Call} \cup {Command("response", c) : c \in Request}
       /\ Len(events[n]) <= EventCap /\ Range(events[n]) \subseteq Request
  /\ \A map \in {outbound, channels, inbound} : map \in [Node -> SUBSET EntryOf(Request)]
  /\ queries \in [Node -> SUBSET {Entry(c, c) : c \in Query}]
  /\ caller \in [Call -> {"idle", "waiting", "ok", "err"}]
  /\ replier \in [Request -> {"none", "spawned", "waiting", "ok", "err"}]
  /\ answer \in [Request -> {{}, {"Ack"}, {"Bad"}}] /\ got \in [Request -> {{}, {"Ack"}, {"Bad"}}]
  /\ link \in [Request \cup Query -> Link]
  /\ taken \subseteq Request

(* No task is forgotten: a sender waits in the command channel, or in the   *)
(* map where the event that libp2p still owes it will find it, exactly as   *)
(* long as its task does.  Only an answer to a request whose stream has     *)
(* ended may wait for an event that never comes.                           *)
Registered ==
  /\ \A c \in Request :
       /\ caller[c] = "waiting" <=>
            \/ Queued(From[c], "request", c)
            \/ Entry(OutKey(c), c) \in outbound[From[c]] /\ link[c].out = "open"
       /\ replier[c] = "waiting" <=>
            \/ Queued(To[c], "response", c)
            \/ /\ Entry(InKey(c), c) \in inbound[To[c]]
               /\ link[c].in \in {"answering", "closed"}
  /\ \A c \in Query :
       caller[c] = "waiting" <=>
         \/ Queued(From[c], "query", c)
         \/ Entry(c, c) \in queries[From[c]] /\ link[c].out = "open"
  /\ \A c \in Direct : caller[c] = "waiting" <=> Queued(From[c], "direct", c)

(* While a peer waits for an answer that is still to be handed over, the    *)
(* loop holds its channel, however many requests of that peer are open.    *)
ChannelHeld ==
  \A c \in Request :
    link[c].in = "open" => Entry(InKey(c), c) \in channels[To[c]]

(* The promise of Rpc: a handler runs once for a request, and a caller gets *)
(* the answer made for its own request or an error, in any interleaving of  *)
(* requests, late arrivals, timeouts and lagging subscriptions.            *)
R == INSTANCE Rpc WITH caller <- [c \in Request |-> caller[c]]
RpcSpec == R!Spec

(* Every call of the network client returns. *)
CallsEnd == \A c \in Call : caller[c] = "waiting" ~> caller[c] \in {"ok", "err"}

(* Every answering task returns, unless the stream ended before the answer  *)
(* was handed over: then it waits for ever.                                *)
RepliesEnd ==
  \A c \in Request :
    replier[c] = "spawned" ~> replier[c] \in {"ok", "err"} \/ link[c].in = "closed"
=============================================================================
