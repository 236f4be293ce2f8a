------------------------------ MODULE Queries ------------------------------
(***************************************************************************)
(* How a query reaches the other nodes and how both sides keep it: the     *)
(* NewQuery route of server.rs, the commands NetworkDetails and            *)
(* PublishMessage of the network loop, gossip, the indexer's handler, and  *)
(* the trees queries-sent and queries-received.                            *)
(*                                                                         *)
(* gossipsub is external: it refuses to publish when it knows no peer,     *)
(* brings a message to a node in any order, more than once only after the  *)
(* node has restarted and forgotten it, and perhaps never.                 *)
(***************************************************************************)
EXTENDS Naturals, Sequences, Tree

CONSTANTS
  Node,
  Data,                \* query strings
  Address, NoAddress,  \* listen addresses
  Post,                \* slots: the bound on NewQuery posts at work at a time
  MaxPosts,            \* bound on the posts of a behaviour
  EventCap,            \* capacity of the broadcast channel (20 in the code)
  Crashing             \* the nodes that may crash and restart

ASSUME AddressAssumption == NoAddress \notin Address
ASSUME BoundAssumption == MaxPosts \in Nat /\ EventCap \in Nat \ {0}
ASSUME CrashingAssumption == Crashing \subseteq Node

VARIABLES
  address,    \* address[n]: node_address of the network loop
  post,       \* post[p]: a handle_post future and its command
  posts,      \* how many posts there were
  sent,       \* sent[n]: the queries-sent tree
  received,   \* received[n]: the queries-received tree
  disk,       \* disk[n]: the part of both trees sled has flushed
  flying,     \* flying[n]: the messages other nodes may still bring to n
  seen,       \* seen[n]: the messages n's gossipsub remembers
  events,     \* events[n]: what the indexer's subscription has buffered
  published,  \* history: the messages gossip has accepted
  heard,      \* history: heard[n], the messages n's indexer has stored
  missed      \* history: missed[n], the messages that were lost for n

vars == <<address, post, posts, sent, received, disk, flying, seen, events,
          published, heard, missed>>

Query == [id: {1}, data: Data, requester: Node, address: Address]

(* A gossip message; gossipsub tells two of the same content apart. *)
Message == [number: 1..MaxPosts, query: Query]

(* pc: "details" (waits for network_details), "publish" (for the answer to *)
(* publish_message), "published" (about to store), "ok" and "err" (200 and *)
(* 500).  gone: the future was dropped when its client hung up, and only   *)
(* its command is left.                                                    *)
Pc == {"details", "publish", "published", "ok", "err"}
Free == [pc |-> "free"]
PostRecord == [pc: Pc, node: Node, number: 1..MaxPosts, data: Data,
               message: SUBSET Message, gone: BOOLEAN]

At(p, pc) == post[p].pc = pc
SetPost(p, r) == post' = [post EXCEPT ![p] = r]

(* What is left of a post whose command was answered. *)
Answered(p, pc) == IF post[p].gone THEN Free ELSE [post[p] EXCEPT !.pc = pc]

-----------------------------------------------------------------------------
(* server.rs: the NewQuery route.                                          *)

PostQuery(p, n, data) ==
  /\ post[p].pc \in {"free", "ok", "err"}
  /\ posts < MaxPosts
  /\ posts' = posts + 1
  /\ SetPost(p, [pc |-> "details", node |-> n, number |-> posts + 1, data |-> data,
                 message |-> {}, gone |-> FALSE])
  /\ UNCHANGED <<address, sent, received, disk, flying, seen, events, published, heard, missed>>

(* Slip: the loop keeps the sender until it has an address. *)
DetailsAwaited(p) ==
  /\ At(p, "details")
  /\ address[post[p].node] # NoAddress
  /\ SetPost(p, [post[p] EXCEPT !.pc = "publish",
       !.message = {[number |-> post[p].number,
                     query |-> [id |-> 1, data |-> post[p].data, requester |-> post[p].node,
                                address |-> address[post[p].node]]]}])
  /\ UNCHANGED <<address, posts, sent, received, disk, flying, seen, events, published,
                 heard, missed>>

(* from_data: network_details fails as long as the loop has no address;    *)
(* every query gets the id 1.                                              *)
DetailsAnswered(p) ==
  /\ At(p, "details")
  /\ LET n == post[p].node
         query == [id |-> 1, data |-> post[p].data, requester |-> n, address |-> address[n]]
     IN SetPost(p, IF address[n] = NoAddress
          THEN [post[p] EXCEPT !.pc = "err"]
          ELSE [post[p] EXCEPT !.pc = "publish",
                               !.message = {[number |-> post[p].number, query |-> query]}])
  /\ UNCHANGED <<address, posts, sent, received, disk, flying, seen, events, published,
                 heard, missed>>

(* Slip: the message comes back to its publisher. *)
PublishToAll(p) ==
  /\ At(p, "publish")
  /\ published' = published \cup post[p].message
  /\ flying' = [n \in Node |-> flying[n] \cup post[p].message]
  /\ SetPost(p, Answered(p, "published"))
  /\ UNCHANGED <<address, posts, sent, received, disk, seen, events, heard, missed>>

(* PublishMessage: all other nodes subscribe to the query topic. *)
PublishAccepted(p) ==
  /\ At(p, "publish")
  /\ published' = published \cup post[p].message
  /\ flying' = [n \in Node |->
       IF n = post[p].node THEN flying[n] ELSE flying[n] \cup post[p].message]
  /\ SetPost(p, Answered(p, "published"))
  /\ UNCHANGED <<address, posts, sent, received, disk, seen, events, heard, missed>>

(* Slip: the result of publish_message is not looked at. *)
PublishRefusedIgnored(p) ==
  /\ At(p, "publish")
  /\ SetPost(p, Answered(p, "published"))
  /\ UNCHANGED <<address, posts, sent, received, disk, flying, seen, events, published,
                 heard, missed>>

PublishRefused(p) ==
  /\ At(p, "publish")
  /\ SetPost(p, Answered(p, "err"))
  /\ UNCHANGED <<address, posts, sent, received, disk, flying, seen, events, published,
                 heard, missed>>

(* add_query_sent, then the answer. *)
StoreSent(p) ==
  /\ At(p, "published")
  /\ \E m \in post[p].message : sent' = [sent EXCEPT ![post[p].node] = Insert(@, m.query)]
  /\ SetPost(p, [post[p] EXCEPT !.pc = "ok"])
  /\ UNCHANGED <<address, posts, received, disk, flying, seen, events, published, heard, missed>>

(* The client hangs up and warp drops the future, with its command in the  *)
(* channel or not.                                                         *)
HangUp(p) ==
  /\ post[p].pc \in {"details", "publish", "published"}
  /\ ~post[p].gone
  /\ \/ SetPost(p, Free)
     \/ At(p, "publish") /\ SetPost(p, [post[p] EXCEPT !.gone = TRUE])
  /\ UNCHANGED <<address, posts, sent, received, disk, flying, seen, events, published,
                 heard, missed>>

-----------------------------------------------------------------------------
(* network/mod.rs and indexer.rs.                                          *)

(* Of several listeners the last one counts. *)
NewListenAddr(n) ==
  /\ \E a \in Address : address' = [address EXCEPT ![n] = a]
  /\ UNCHANGED <<post, posts, sent, received, disk, flying, seen, events, published,
                 heard, missed>>

(* Slip: an event more than the channel holds. *)
DeliverLate(n, m) ==
  /\ m \in flying[n] \ seen[n]
  /\ seen' = [seen EXCEPT ![n] = @ \cup {m}]
  /\ LET full == Len(events[n]) > EventCap
         kept == IF full THEN Tail(events[n]) ELSE events[n]
     IN /\ events' = [events EXCEPT ![n] = Append(kept, m)]
        /\ missed' = [missed EXCEPT ![n] = IF full THEN @ \cup {Head(events[n])} ELSE @]
  /\ UNCHANGED <<address, post, posts, sent, received, disk, flying, published, heard>>

(* A message is broadcast to the subscriptions; one that lags loses its    *)
(* oldest event.                                                           *)
Deliver(n, m) ==
  /\ m \in flying[n] \ seen[n]
  /\ seen' = [seen EXCEPT ![n] = @ \cup {m}]
  /\ LET full == Len(events[n]) = EventCap
         kept == IF full THEN Tail(events[n]) ELSE events[n]
     IN /\ events' = [events EXCEPT ![n] = Append(kept, m)]
        /\ missed' = [missed EXCEPT ![n] = IF full THEN @ \cup {Head(events[n])} ELSE @]
  /\ UNCHANGED <<address, post, posts, sent, received, disk, flying, published, heard>>

(* No neighbour keeps the message any longer. *)
Expire(n, m) ==
  /\ m \in flying[n]
  /\ flying' = [flying EXCEPT ![n] = @ \ {m}]
  /\ missed' = [missed EXCEPT ![n] = IF m \in seen[n] THEN @ ELSE @ \cup {m}]
  /\ UNCHANGED <<address, post, posts, sent, received, disk, seen, events, published, heard>>

(* Slip: the check the code wants, for a query with the same id. *)
HandleNewQueryOnce(n) ==
  /\ events[n] # <<>>
  /\ LET m == Head(events[n])
         known == \E q \in received[n] : q.id = m.query.id
     IN /\ received' = [received EXCEPT ![n] = IF known THEN @ ELSE Insert(@, m.query)]
        /\ heard' = [heard EXCEPT ![n] = IF known THEN @ ELSE @ \cup {m}]
  /\ events' = [events EXCEPT ![n] = Tail(@)]
  /\ UNCHANGED <<address, post, posts, sent, disk, flying, seen, published, missed>>

(* add_query_received, over a query with the same id. *)
HandleNewQuery(n) ==
  /\ events[n] # <<>>
  /\ LET m == Head(events[n])
     IN /\ received' = [received EXCEPT ![n] = Insert(@, m.query)]
        /\ heard' = [heard EXCEPT ![n] = @ \cup {m}]
  /\ events' = [events EXCEPT ![n] = Tail(@)]
  /\ UNCHANGED <<address, post, posts, sent, disk, flying, seen, published, missed>>

-----------------------------------------------------------------------------
(* The environment, as in Exchange.                                        *)

Flush(n) ==
  /\ n \in Crashing
  /\ disk' = [disk EXCEPT ![n] = [sent |-> sent[n], received |-> received[n]]]
  /\ UNCHANGED <<address, post, posts, sent, received, flying, seen, events, published,
                 heard, missed>>

Buffered(n) == {events[n][i] : i \in DOMAIN events[n]}

Crash(n) ==
  /\ n \in Crashing
  /\ address' = [address EXCEPT ![n] = NoAddress]
  /\ post' = [p \in Post |-> IF post[p] # Free /\ post[p].node = n THEN Free ELSE post[p]]
  /\ sent' = [sent EXCEPT ![n] = disk[n].sent]
  /\ received' = [received EXCEPT ![n] = disk[n].received]
  /\ seen' = [seen EXCEPT ![n] = {}]
  /\ missed' = [missed EXCEPT ![n] = @ \cup Buffered(n)]
  /\ events' = [events EXCEPT ![n] = <<>>]
  /\ UNCHANGED <<posts, disk, flying, published, heard>>

-----------------------------------------------------------------------------
Init ==
  /\ address = [n \in Node |-> NoAddress]
  /\ post = [p \in Post |-> Free] /\ posts = 0
  /\ sent = [n \in Node |-> {}] /\ received = [n \in Node |-> {}]
  /\ disk = [n \in Node |-> [sent |-> {}, received |-> {}]]
  /\ flying = [n \in Node |-> {}] /\ seen = [n \in Node |-> {}]
  /\ events = [n \in Node |-> <<>>]
  /\ published = {}
  /\ heard = [n \in Node |-> {}] /\ missed = [n \in Node |-> {}]

Next ==
  \/ \E p \in Post, n \in Node, data \in Data : PostQuery(p, n, data)
  \/ \E p \in Post :
       \/ DetailsAnswered(p)
       \/ PublishAccepted(p)
       \/ PublishRefused(p)
       \/ StoreSent(p)
       \/ HangUp(p)
  \/ \E n \in Node : \E m \in flying[n] : Deliver(n, m) \/ Expire(n, m)
  \/ \E n \in Node : NewListenAddr(n)
  \/ \E n \in Node : HandleNewQuery(n)
  \/ \E n \in Node : Flush(n)
  \/ \E n \in Node : Crash(n)

Spec == Init /\ [][Next]_vars

(* The loop, the route and the indexer go on; gossip brings a message or    *)
(* drops it.                                                               *)
Fairness ==
  /\ \A p \in Post : WF_vars(DetailsAnswered(p)) /\ WF_vars(StoreSent(p))
                     /\ WF_vars(PublishAccepted(p) \/ PublishRefused(p))
  /\ \A n \in Node : WF_vars(HandleNewQuery(n))
  /\ \A n \in Node, k \in 1..MaxPosts :
       WF_vars(\E m \in flying[n] : m.number = k /\ (Deliver(n, m) \/ Expire(n, m)))

FairSpec == Spec /\ Fairness

-----------------------------------------------------------------------------
(* Type invariant: addresses, posts, trees, messages. *)
TypeOK ==
  /\ address \in [Node -> Address \cup {NoAddress}]
  /\ post \in [Post -> PostRecord \cup {Free}] /\ posts \in 0..MaxPosts
  /\ sent \in [Node -> SUBSET Query] /\ received \in [Node -> SUBSET Query]
  /\ disk \in [Node -> [sent: SUBSET Query, received: SUBSET Query]]
  /\ flying \in [Node -> SUBSET Message] /\ seen \in [Node -> SUBSET Message]
  /\ events \in [Node -> Seq(Message)] /\ \A n \in Node : Len(events[n]) <= EventCap
  /\ published \subseteq Message
  /\ heard \in [Node -> SUBSET Message] /\ missed \in [Node -> SUBSET Message]

Gossiped(q) == \E m \in published : m.query = q

(* What a node lists as sent it did publish, and what it lists as received  *)
(* another node did, through posts that fail or are dropped half-way,      *)
(* crashes that lose unflushed writes, and messages that come again.       *)
OnlyPublished ==
  \A n \in Node :
    /\ \A q \in sent[n] \cup disk[n].sent : q.requester = n /\ Gossiped(q)
    /\ \A q \in received[n] \cup disk[n].received : q.requester # n /\ Gossiped(q)

(* The answer to a post is true: 500 means that no other node will hear of  *)
(* the query, 200 that it was published.                                   *)
TrueAnswer ==
  \A p \in Post :
    /\ At(p, "err") => \A m \in published : m.number # post[p].number
    /\ At(p, "ok") => \E m \in published : m.number = post[p].number

(* A published query is never lost without a trace: for every other node    *)
(* it is on its way, in the buffer of its indexer, stored, or counted as   *)
(* lost, through full buffers, crashes and messages that come again.       *)
NothingVanishes ==
  \A n \in Node, m \in published :
    m.query.requester # n => m \in flying[n] \cup Buffered(n) \cup heard[n] \cup missed[n]

(* README, information query and bids, (1): a query is propagated through   *)
(* the network.  Every other node stores it, though all queries have one   *)
(* id, unless the message or the event is lost.                            *)
Propagated ==
  \A n \in Node, k \in 1..MaxPosts :
    (\E m \in published : m.number = k /\ m.query.requester # n)
      ~> \E m \in heard[n] \cup missed[n] : m.number = k

(* Every post is answered, its client hangs up, or its node goes down. *)
PostsEnd ==
  \A p \in Post :
    post[p].pc \in {"details", "publish", "published"} ~> post[p].pc \in {"free", "ok", "err"}
=============================================================================
