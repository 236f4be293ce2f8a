--------------------------- MODULE QueriesProofs ---------------------------
(***************************************************************************)
(* Proofs about queries: both sides list only what was published, and the  *)
(* answer to a post is true, for any nodes, posts, crashes and buffers.    *)
(***************************************************************************)
EXTENDS Queries, TLAPS

(* What a node's subscription holds after an event is taken or added. *)
LEMMA Queue ==
  ASSUME NEW q \in Seq(Message), NEW m \in Message
  PROVE  /\ Append(q, m) \in Seq(Message) /\ Len(Append(q, m)) = Len(q) + 1
         /\ \A i \in DOMAIN Append(q, m) :
              Append(q, m)[i] = m \/ \E j \in DOMAIN q : Append(q, m)[i] = q[j]
         /\ q # <<>> => /\ Head(q) \in Message /\ Head(q) = q[1] /\ 1 \in DOMAIN q
                        /\ Tail(q) \in Seq(Message) /\ Len(Tail(q)) = Len(q) - 1
                        /\ \A i \in DOMAIN Tail(q) : \E j \in DOMAIN q : Tail(q)[i] = q[j]
<1>1. Append(q, m) \in Seq(Message) /\ Len(Append(q, m)) = Len(q) + 1
  OBVIOUS
<1>2. ASSUME NEW i \in DOMAIN Append(q, m)
      PROVE  Append(q, m)[i] = m \/ \E j \in DOMAIN q : Append(q, m)[i] = q[j]
  OBVIOUS
<1>3. ASSUME q # <<>>
      PROVE  /\ Head(q) \in Message /\ Head(q) = q[1] /\ 1 \in DOMAIN q
             /\ Tail(q) \in Seq(Message) /\ Len(Tail(q)) = Len(q) - 1
  BY <1>3
<1>4. ASSUME q # <<>>, NEW i \in DOMAIN Tail(q) PROVE \E j \in DOMAIN q : Tail(q)[i] = q[j]
  <2>1. i + 1 \in DOMAIN q /\ Tail(q)[i] = q[i + 1]
    BY <1>4
  <2> QED BY <2>1
<1> QED BY <1>1, <1>2, <1>3, <1>4

(* A tree holds nothing but what was inserted. *)
LEMMA InsertAdds ==
  ASSUME NEW tree, NEW v
  PROVE  Insert(tree, v) \subseteq tree \cup {v}
  BY DEF Insert

-----------------------------------------------------------------------------
(* Type correctness.                                                       *)

(* A post at work or answered is a record. *)
LEMMA PostTyped ==
  ASSUME TypeOK, NEW p \in Post, post[p].pc # "free"
  PROVE  post[p] \in PostRecord
  BY DEF TypeOK, Free

(* The subscription of n with m behind what it keeps. *)
LEMMA Kept ==
  ASSUME TypeOK, NEW n \in Node, NEW m \in Message
  PROVE  LET full == Len(events[n]) = EventCap
             kept == IF full THEN Tail(events[n]) ELSE events[n]
         IN /\ Append(kept, m) \in Seq(Message) /\ Len(Append(kept, m)) <= EventCap
            /\ full => Head(events[n]) \in Message
            /\ \A i \in DOMAIN Append(kept, m) :
                 Append(kept, m)[i] \in Buffered(n) \cup {m}
<1> DEFINE full == Len(events[n]) = EventCap
           kept == IF full THEN Tail(events[n]) ELSE events[n]
<1>1. events[n] \in Seq(Message) /\ Len(events[n]) <= EventCap /\ EventCap \in Nat /\ EventCap > 0
  BY BoundAssumption DEF TypeOK
<1>2. full => events[n] # <<>>
  BY <1>1
<1>3. kept \in Seq(Message) /\ Len(kept) + 1 <= EventCap
  BY <1>1, <1>2, Queue
<1>4. \A i \in DOMAIN kept : kept[i] \in Buffered(n)
  BY <1>1, <1>2, Queue DEF Buffered
<1>5. full => Head(events[n]) \in Message
  BY <1>1, <1>2, Queue
<1> HIDE DEF kept
<1>6. /\ Append(kept, m) \in Seq(Message) /\ Len(Append(kept, m)) <= EventCap
      /\ \A i \in DOMAIN Append(kept, m) : Append(kept, m)[i] \in Buffered(n) \cup {m}
  BY <1>3, <1>4, Queue
<1> QED BY <1>5, <1>6 DEF kept

(* Every action keeps addresses, posts, trees and messages typed. *)
LEMMA TypeStep == TypeOK /\ [Next]_vars => TypeOK'
<1> SUFFICES ASSUME TypeOK, [Next]_vars PROVE TypeOK'
  OBVIOUS
<1> USE DEF TypeOK
<1>1. ASSUME NEW p \in Post, NEW n \in Node, NEW data \in Data, PostQuery(p, n, data)
      PROVE  TypeOK'
  <2>1. posts' \in 1..MaxPosts /\ posts' = posts + 1
    BY <1>1, BoundAssumption DEF PostQuery
  <2>2. [pc |-> "details", node |-> n, number |-> posts + 1, data |-> data,
         message |-> {}, gone |-> FALSE] \in PostRecord
    BY <2>1 DEF PostRecord, Pc
  <2> QED BY <1>1, <2>1, <2>2 DEF PostQuery, SetPost
<1>2. ASSUME NEW p \in Post, DetailsAnswered(p) PROVE TypeOK'
  <2> DEFINE r == post[p]
             query == [id |-> 1, data |-> r.data, requester |-> r.node,
                       address |-> address[r.node]]
             m == [number |-> r.number, query |-> query]
  <2>1. r \in PostRecord
    BY <1>2, PostTyped DEF DetailsAnswered, At
  <2>2. [r EXCEPT !.pc = "err"] \in PostRecord
    BY <2>1 DEF PostRecord, Pc
  <2>3. ASSUME address[r.node] # NoAddress
        PROVE  [r EXCEPT !.pc = "publish", !.message = {m}] \in PostRecord
    <3>1. m \in Message
      BY <2>1, <2>3 DEF PostRecord, Message, Query
    <3> HIDE DEF m
    <3> QED BY <2>1, <3>1 DEF PostRecord, Pc
  <2>4. post' \in [Post -> PostRecord \cup {Free}]
    <3> HIDE DEF m, query
    <3>1. post' = [post EXCEPT ![p] = IF address[r.node] = NoAddress
              THEN [r EXCEPT !.pc = "err"]
              ELSE [r EXCEPT !.pc = "publish", !.message = {m}]]
      BY <1>2 DEF DetailsAnswered, SetPost, m, query
    <3> QED BY <2>2, <2>3, <3>1
  <2> QED BY <1>2, <2>4 DEF DetailsAnswered
<1>3. ASSUME NEW p \in Post, PublishAccepted(p) PROVE TypeOK'
  <2>1. post[p] \in PostRecord
    BY <1>3, PostTyped DEF PublishAccepted, At
  <2>2. post[p].message \subseteq Message
    BY <2>1 DEF PostRecord
  <2>3. Answered(p, "published") \in PostRecord \cup {Free}
    BY <2>1 DEF Answered, PostRecord, Pc
  <2> QED BY <1>3, <2>2, <2>3 DEF PublishAccepted, SetPost
<1>4. ASSUME NEW p \in Post, PublishRefused(p) PROVE TypeOK'
  <2>1. post[p] \in PostRecord
    BY <1>4, PostTyped DEF PublishRefused, At
  <2>2. Answered(p, "err") \in PostRecord \cup {Free}
    BY <2>1 DEF Answered, PostRecord, Pc
  <2> QED BY <1>4, <2>2 DEF PublishRefused, SetPost
<1>5. ASSUME NEW p \in Post, StoreSent(p) PROVE TypeOK'
  <2>1. post[p] \in PostRecord
    BY <1>5, PostTyped DEF StoreSent, At
  <2>2. [post[p] EXCEPT !.pc = "ok"] \in PostRecord
    BY <2>1 DEF PostRecord, Pc
  <2>3. PICK m \in post[p].message : sent' = [sent EXCEPT ![post[p].node] = Insert(@, m.query)]
    BY <1>5 DEF StoreSent
  <2>4. m.query \in Query /\ post[p].node \in Node
    BY <2>1 DEF PostRecord, Message
  <2>5. Insert(sent[post[p].node], m.query) \subseteq Query
    BY <2>4, InsertAdds
  <2> QED BY <1>5, <2>2, <2>3, <2>5 DEF StoreSent, SetPost
<1>6. ASSUME NEW p \in Post, HangUp(p) PROVE TypeOK'
  <2>1. post[p] \in PostRecord
    BY <1>6, PostTyped DEF HangUp
  <2>2. [post[p] EXCEPT !.gone = TRUE] \in PostRecord
    BY <2>1 DEF PostRecord
  <2>3. post' \in [Post -> PostRecord \cup {Free}]
    BY <1>6, <2>2 DEF HangUp, SetPost
  <2> QED BY <1>6, <2>3 DEF HangUp
<1>7. ASSUME NEW n \in Node, NewListenAddr(n) PROVE TypeOK'
  BY <1>7 DEF NewListenAddr
<1>8. ASSUME NEW n \in Node, NEW m \in flying[n], Deliver(n, m) PROVE TypeOK'
  <2>1. m \in Message
    OBVIOUS
  <2>2. events' \in [Node -> Seq(Message)] /\ \A k \in Node : Len(events'[k]) <= EventCap
    BY <1>8, <2>1, Kept DEF Deliver
  <2>3. missed' \in [Node -> SUBSET Message]
    BY <1>8, <2>1, Kept DEF Deliver
  <2>4. seen' \in [Node -> SUBSET Message]
    BY <1>8, <2>1 DEF Deliver
  <2> QED BY <1>8, <2>2, <2>3, <2>4 DEF Deliver
<1>9. ASSUME NEW n \in Node, NEW m \in flying[n], Expire(n, m) PROVE TypeOK'
  BY <1>9 DEF Expire
<1>10. ASSUME NEW n \in Node, HandleNewQuery(n) PROVE TypeOK'
  <2> DEFINE m == Head(events[n])
  <2>1. m \in Message /\ Tail(events[n]) \in Seq(Message) /\ Len(Tail(events[n])) <= EventCap
    BY <1>10, Queue, BoundAssumption DEF HandleNewQuery
  <2>2. m.query \in Query
    BY <2>1 DEF Message
  <2>3. Insert(received[n], m.query) \subseteq Query
    BY <2>2, InsertAdds
  <2>4. events' \in [Node -> Seq(Message)] /\ \A k \in Node : Len(events'[k]) <= EventCap
    BY <1>10, <2>1 DEF HandleNewQuery
  <2>5. received' \in [Node -> SUBSET Query] /\ heard' \in [Node -> SUBSET Message]
    BY <1>10, <2>1, <2>3 DEF HandleNewQuery
  <2> QED BY <1>10, <2>4, <2>5 DEF HandleNewQuery
<1>11. ASSUME NEW n \in Node, Flush(n) PROVE TypeOK'
  BY <1>11 DEF Flush
<1>12. ASSUME NEW n \in Node, Crash(n) PROVE TypeOK'
  <2>1. Buffered(n) \subseteq Message
    BY DEF Buffered
  <2>2. <<>> \in Seq(Message) /\ Len(<<>>) <= EventCap
    BY BoundAssumption
  <2>3. events' \in [Node -> Seq(Message)] /\ \A k \in Node : Len(events'[k]) <= EventCap
    BY <1>12, <2>2 DEF Crash
  <2>4. /\ address' \in [Node -> Address \cup {NoAddress}]
        /\ post' \in [Post -> PostRecord \cup {Free}]
        /\ seen' \in [Node -> SUBSET Message] /\ missed' \in [Node -> SUBSET Message]
    BY <1>12, <2>1 DEF Crash
  <2>5. sent' \in [Node -> SUBSET Query] /\ received' \in [Node -> SUBSET Query]
    BY <1>12 DEF Crash
  <2> QED BY <1>12, <2>3, <2>4, <2>5 DEF Crash
<1>13. CASE UNCHANGED vars
  BY <1>13 DEF vars
<1> QED BY <1>1, <1>2, <1>3, <1>4, <1>5, <1>6, <1>7, <1>8, <1>9, <1>10, <1>11, <1>12,
           <1>13 DEF Next

(* Every reachable state has its declared shape. *)
THEOREM TypeCorrect == Spec => []TypeOK
<1>1. Init => TypeOK
  <2>1. Init => events \in [Node -> Seq(Message)] /\ \A n \in Node : Len(events[n]) <= EventCap
    BY BoundAssumption DEF Init
  <2> QED BY <2>1, BoundAssumption DEF Init, TypeOK
<1> QED BY <1>1, TypeStep, PTL DEF Spec

-----------------------------------------------------------------------------
(* The inductive invariant.                                                *)

(* A message names its post; it is published when the route has been told  *)
(* so, and never when the route has been told it was not.                  *)
PostTraced(r, S) ==
  /\ \A m \in r.message : m.number = r.number /\ m.query.requester = r.node
  /\ r.pc \in {"publish", "published", "ok"} => r.message # {}
  /\ r.pc \in {"published", "ok"} => r.message \subseteq S
  /\ r.pc \in {"details", "publish", "err"} => \A m \in S : m.number # r.number

(* Posts have numbers of their own, given in turn. *)
Numbered ==
  /\ \A p \in Post : post[p] # Free => post[p].number <= posts
  /\ \A p, o \in Post : post[p] # Free /\ post[o] # Free /\ post[p].number = post[o].number => p = o
  /\ \A m \in published : m.number <= posts

(* What is on its way to a node was published by another. *)
FromOthers(n, S) == \A m \in S : m \in published /\ m.query.requester # n

Traced ==
  /\ \A p \in Post : post[p] # Free => PostTraced(post[p], published)
  /\ Numbered
  /\ \A n \in Node : FromOthers(n, flying[n]) /\ FromOthers(n, Buffered(n))
  /\ OnlyPublished

(* A slot that is freed, or goes on with a traced record of the same post, *)
(* leaves all posts traced.                                                *)
LEMMA SlotTraced ==
  ASSUME TypeOK, Traced, NEW p \in Post, NEW r, SetPost(p, r),
         r # Free => PostTraced(r, published) /\ post[p] # Free /\ r.number = post[p].number,
         UNCHANGED <<posts, published>>
  PROVE  (\A o \in Post : post[o] # Free => PostTraced(post[o], published))' /\ Numbered'
<1>1. post'[p] = r /\ \A o \in Post : o # p => post'[o] = post[o]
  BY DEF SetPost, TypeOK
<1>2. \A o \in Post : post'[o] # Free => PostTraced(post'[o], published')
  BY <1>1 DEF Traced
<1>3. \A o \in Post : post'[o] # Free => post[o] # Free /\ post'[o].number = post[o].number
  BY <1>1
<1>4. Numbered'
  BY <1>3 DEF Traced, Numbered
<1> QED BY <1>2, <1>4

(* Both lists stay true while they do not change. *)
LEMMA ListsKept ==
  ASSUME OnlyPublished, published \subseteq published', UNCHANGED <<sent, received, disk>>
  PROVE  OnlyPublished'
<1>1. \A q : Gossiped(q) => Gossiped(q)'
  BY DEF Gossiped
<1> QED BY <1>1 DEF OnlyPublished

(* The messages to a node stay others' while its traffic does not change.  *)
LEMMA TrafficKept ==
  ASSUME Traced, published \subseteq published', UNCHANGED <<flying, events>>
  PROVE  \A n \in Node : FromOthers(n, flying[n])' /\ FromOthers(n, Buffered(n))'
  BY DEF Traced, FromOthers, Buffered

(* Traced is inductive: no loss, repetition, hang-up or crash breaks it.   *)
LEMMA TracedStep == TypeOK /\ TypeOK' /\ Traced /\ [Next]_vars => Traced'
<1> SUFFICES ASSUME TypeOK, TypeOK', Traced, [Next]_vars PROVE Traced'
  OBVIOUS
<1>a. ASSUME NEW p \in Post, NEW r, SetPost(p, r),
             r # Free => PostTraced(r, published) /\ post[p] # Free /\ r.number = post[p].number,
             UNCHANGED <<posts, published, flying, events>>, OnlyPublished'
      PROVE  Traced'
  BY <1>a, SlotTraced, TrafficKept DEF Traced
<1>b. ASSUME UNCHANGED <<post, posts, published>>, OnlyPublished',
             \A n \in Node : FromOthers(n, flying[n])' /\ FromOthers(n, Buffered(n))'
      PROVE  Traced'
  BY <1>b DEF Traced, Numbered
<1>1. ASSUME NEW p \in Post, NEW n \in Node, NEW data \in Data, PostQuery(p, n, data)
      PROVE  Traced'
  <2> DEFINE r == [pc |-> "details", node |-> n, number |-> posts + 1, data |-> data,
                   message |-> {}, gone |-> FALSE]
  <2>1. post'[p] = r /\ \A o \in Post : o # p => post'[o] = post[o]
    BY <1>1 DEF PostQuery, SetPost, TypeOK
  <2>2. posts \in Nat /\ posts' = posts + 1
    BY <1>1, BoundAssumption DEF PostQuery, TypeOK
  <2>3. \A o \in Post : post[o] # Free => post[o].number \in Nat /\ post[o].number <= posts
    BY DEF Traced, Numbered, TypeOK, PostRecord
  <2>4. \A m \in published : m.number \in Nat /\ m.number <= posts
    BY DEF Traced, Numbered, TypeOK, Message
  <2>5. PostTraced(r, published)
    BY <2>2, <2>4 DEF PostTraced
  <2>6. \A o \in Post : post'[o] # Free => PostTraced(post'[o], published)
    BY <2>1, <2>5 DEF Traced
  <2>7. Numbered'
    <3>1. r.number = posts'
      BY <2>2
    <3> HIDE DEF r
    <3>2. \A o \in Post : post'[o] # Free => post'[o].number <= posts'
      BY <2>1, <2>2, <2>3, <3>1
    <3>3. \A m \in published : m.number <= posts'
      BY <2>2, <2>4
    <3>4. \A o \in Post : o # p /\ post'[o] # Free => post'[o].number # posts'
      BY <2>1, <2>2, <2>3
    <3>5. \A o, u \in Post : post'[o] # Free /\ post'[u] # Free /\ post'[o].number = post'[u].number
            => o = u
      BY <2>1, <3>1, <3>4 DEF Traced, Numbered
    <3> QED BY <1>1, <3>2, <3>3, <3>5 DEF Numbered, PostQuery
  <2>8. OnlyPublished'
    BY <1>1, ListsKept DEF PostQuery, Traced
  <2> QED BY <1>1, <2>6, <2>7, <2>8, TrafficKept DEF PostQuery, Traced
<1>2. ASSUME NEW p \in Post, DetailsAnswered(p) PROVE Traced'
  <2> DEFINE m == [number |-> post[p].number,
                   query |-> [id |-> 1, data |-> post[p].data, requester |-> post[p].node,
                              address |-> address[post[p].node]]]
             err == [post[p] EXCEPT !.pc = "err"]
             ok == [post[p] EXCEPT !.pc = "publish", !.message = {m}]
             r == IF address[post[p].node] = NoAddress THEN err ELSE ok
  <2>1. post[p] \in PostRecord /\ post[p].pc = "details" /\ post[p] # Free
        /\ PostTraced(post[p], published)
    BY <1>2, PostTyped DEF DetailsAnswered, At, Free, Traced
  <2>2. PostTraced(r, published) /\ r.number = post[p].number
    <3>1. m.number = post[p].number /\ m.query.requester = post[p].node
      OBVIOUS
    <3> HIDE DEF m
    <3>2. PostTraced(err, published) /\ err.number = post[p].number
      BY <2>1 DEF PostTraced, PostRecord
    <3>3. PostTraced(ok, published) /\ ok.number = post[p].number
      BY <2>1, <3>1 DEF PostTraced, PostRecord
    <3> QED BY <3>2, <3>3
  <2>3. SetPost(p, r) /\ UNCHANGED <<posts, published, flying, events>>
    BY <1>2 DEF DetailsAnswered
  <2>4. OnlyPublished'
    BY <1>2, ListsKept DEF DetailsAnswered, Traced
  <2> HIDE DEF r
  <2> QED BY <1>a, <2>1, <2>2, <2>3, <2>4
<1>3. ASSUME NEW p \in Post, PublishAccepted(p) PROVE Traced'
  <2> DEFINE new == post[p].message
  <2>1. post[p] \in PostRecord /\ post[p].pc = "publish" /\ post[p] # Free
        /\ PostTraced(post[p], published)
    BY <1>3, PostTyped DEF PublishAccepted, At, Free, Traced
  <2>2. published' = published \cup new /\ posts' = posts
    BY <1>3 DEF PublishAccepted
  <2>3. \A m \in new : m.number = post[p].number /\ m.query.requester = post[p].node
    BY <2>1 DEF PostTraced
  <2>4. post'[p] = Answered(p, "published") /\ \A o \in Post : o # p => post'[o] = post[o]
    BY <1>3 DEF PublishAccepted, SetPost, TypeOK
  <2>5. ASSUME NEW o \in Post, post'[o] # Free PROVE PostTraced(post'[o], published')
    <3>1. CASE o = p
      <4>1. post'[p] = [post[p] EXCEPT !.pc = "published"]
        BY <2>4, <2>5, <3>1 DEF Answered
      <4>2. new \subseteq published' /\ new # {}
        BY <2>1, <2>2 DEF PostTraced
      <4> QED BY <2>1, <2>3, <3>1, <4>1, <4>2 DEF PostTraced, PostRecord
    <3>2. CASE o # p
      <4>1. post'[o] = post[o] /\ PostTraced(post[o], published)
        BY <2>4, <2>5, <3>2 DEF Traced
      <4>2. \A m \in new : m.number # post[o].number
        BY <2>1, <2>3, <2>5, <3>2, <4>1 DEF Traced, Numbered
      <4> HIDE DEF new
      <4> QED BY <2>2, <4>1, <4>2 DEF PostTraced
    <3> QED BY <3>1, <3>2
  <2>6. Numbered'
    <3>1. \A o \in Post : post'[o] # Free => post[o] # Free /\ post'[o].number = post[o].number
      BY <2>1, <2>4 DEF Answered, PostRecord
    <3>2. \A m \in published' : m.number <= posts
      BY <2>1, <2>2, <2>3 DEF Traced, Numbered
    <3> QED BY <2>2, <3>1, <3>2 DEF Traced, Numbered
  <2>7. \A n \in Node : FromOthers(n, flying[n])' /\ FromOthers(n, Buffered(n))'
    <3>1. \A n \in Node : flying'[n] = IF n = post[p].node THEN flying[n] ELSE flying[n] \cup new
      BY <1>3 DEF PublishAccepted
    <3> HIDE DEF new
    <3>2. \A n \in Node : FromOthers(n, flying[n])'
      BY <2>2, <2>3, <3>1 DEF Traced, FromOthers
    <3>3. \A n \in Node : FromOthers(n, Buffered(n))'
      BY <1>3, <2>2 DEF PublishAccepted, Traced, FromOthers, Buffered
    <3> QED BY <3>2, <3>3
  <2>8. OnlyPublished'
    BY <1>3, <2>2, ListsKept DEF PublishAccepted, Traced
  <2> QED BY <2>5, <2>6, <2>7, <2>8 DEF Traced
<1>4. ASSUME NEW p \in Post, PublishRefused(p) PROVE Traced'
  <2> DEFINE r == Answered(p, "err")
  <2>1. post[p] \in PostRecord /\ post[p].pc = "publish" /\ post[p] # Free
        /\ PostTraced(post[p], published)
    BY <1>4, PostTyped DEF PublishRefused, At, Free, Traced
  <2>2. r # Free => PostTraced(r, published) /\ r.number = post[p].number
    <3> DEFINE err == [post[p] EXCEPT !.pc = "err"]
    <3>1. PostTraced(err, published) /\ err.number = post[p].number
      BY <2>1 DEF PostTraced, PostRecord
    <3>2. r = Free \/ r = err
      BY DEF Answered
    <3> HIDE DEF err, r
    <3> QED BY <3>1, <3>2
  <2>3. SetPost(p, r) /\ UNCHANGED <<posts, published, flying, events>>
    BY <1>4 DEF PublishRefused
  <2>4. OnlyPublished'
    BY <1>4, ListsKept DEF PublishRefused, Traced
  <2> HIDE DEF r
  <2> QED BY <1>a, <2>1, <2>2, <2>3, <2>4
<1>5. ASSUME NEW p \in Post, StoreSent(p) PROVE Traced'
  <2> DEFINE r == [post[p] EXCEPT !.pc = "ok"]
  <2>1. post[p] \in PostRecord /\ post[p].pc = "published" /\ post[p] # Free
        /\ PostTraced(post[p], published)
    BY <1>5, PostTyped DEF StoreSent, At, Free, Traced
  <2>2. PostTraced(r, published) /\ r.number = post[p].number
    BY <2>1 DEF PostTraced, PostRecord
  <2>3. SetPost(p, r) /\ UNCHANGED <<posts, published, flying, events, received, disk>>
    BY <1>5 DEF StoreSent
  <2>4. PICK m \in post[p].message : sent' = [sent EXCEPT ![post[p].node] = Insert(@, m.query)]
    BY <1>5 DEF StoreSent
  <2>5. m.query.requester = post[p].node /\ m \in published /\ post[p].node \in Node
    BY <2>1 DEF PostTraced, PostRecord
  <2>6. \A n \in Node : \A q \in sent'[n] : q \in sent[n] \/ (n = post[p].node /\ q = m.query)
    <3> DEFINE k == post[p].node
    <3>1. /\ sent'[k] = Insert(sent[k], m.query)
          /\ \A n \in Node : n # k => sent'[n] = sent[n]
      BY <2>4, <2>5 DEF TypeOK
    <3>2. Insert(sent[k], m.query) \subseteq sent[k] \cup {m.query}
      BY InsertAdds
    <3> HIDE DEF k
    <3>3. \A n \in Node : \A q \in sent'[n] : q \in sent[n] \/ (n = k /\ q = m.query)
      BY <3>1, <3>2
    <3> QED BY <3>3 DEF k
  <2>7. OnlyPublished'
    BY <2>3, <2>5, <2>6 DEF Traced, OnlyPublished, Gossiped
  <2> HIDE DEF r
  <2> QED BY <1>a, <2>1, <2>2, <2>3, <2>7
<1>6. ASSUME NEW p \in Post, HangUp(p) PROVE Traced'
  <2>1. post[p] \in PostRecord /\ post[p] # Free /\ PostTraced(post[p], published)
    BY <1>6, PostTyped DEF HangUp, Free, Traced
  <2>2. PostTraced([post[p] EXCEPT !.gone = TRUE], published)
        /\ [post[p] EXCEPT !.gone = TRUE].number = post[p].number
    BY <2>1 DEF PostTraced, PostRecord
  <2>3. OnlyPublished'
    BY <1>6, ListsKept DEF HangUp, Traced
  <2>4. UNCHANGED <<posts, published, flying, events>>
    BY <1>6 DEF HangUp
  <2>5. SetPost(p, Free) \/ SetPost(p, [post[p] EXCEPT !.gone = TRUE])
    BY <1>6 DEF HangUp
  <2>6. CASE SetPost(p, Free)
    BY <1>a, <2>3, <2>4, <2>6
  <2>7. CASE SetPost(p, [post[p] EXCEPT !.gone = TRUE])
    <3> DEFINE r == [post[p] EXCEPT !.gone = TRUE]
    <3>1. SetPost(p, r) /\ PostTraced(r, published) /\ r.number = post[p].number
      BY <2>2, <2>7
    <3> HIDE DEF r
    <3> QED BY <1>a, <2>1, <2>3, <2>4, <3>1
  <2> QED BY <2>5, <2>6, <2>7
<1>7. ASSUME NEW n \in Node, NewListenAddr(n) PROVE Traced'
  BY <1>7, <1>b, ListsKept, TrafficKept DEF NewListenAddr, Traced
<1>8. ASSUME NEW n \in Node, NEW m \in flying[n], Deliver(n, m) PROVE Traced'
  <2>1. m \in Message /\ FromOthers(n, {m})
    BY DEF TypeOK, Traced, FromOthers
  <2>2. \A i \in DOMAIN events'[n] : events'[n][i] \in Buffered(n) \cup {m}
    BY <1>8, <2>1, Kept DEF Deliver, TypeOK
  <2>3. \A k \in Node : k # n => events'[k] = events[k]
    BY <1>8 DEF Deliver, TypeOK
  <2>4. Buffered(n)' \subseteq Buffered(n) \cup {m} /\ \A k \in Node : k # n => Buffered(k)' = Buffered(k)
    BY <2>2, <2>3 DEF Buffered
  <2>5. \A k \in Node : FromOthers(k, flying[k])' /\ FromOthers(k, Buffered(k))'
    BY <1>8, <2>1, <2>4 DEF Deliver, Traced, FromOthers
  <2> QED BY <1>8, <1>b, <2>5, ListsKept DEF Deliver, Traced
<1>9. ASSUME NEW n \in Node, NEW m \in flying[n], Expire(n, m) PROVE Traced'
  <2>1. \A k \in Node : flying'[k] \subseteq flying[k] /\ events'[k] = events[k]
    BY <1>9 DEF Expire, TypeOK
  <2>2. \A k \in Node : FromOthers(k, flying[k])' /\ FromOthers(k, Buffered(k))'
    BY <1>9, <2>1 DEF Expire, Traced, FromOthers, Buffered
  <2> QED BY <1>9, <1>b, <2>2, ListsKept DEF Expire, Traced
<1>10. ASSUME NEW n \in Node, HandleNewQuery(n) PROVE Traced'
  <2> DEFINE m == Head(events[n])
  <2>1. events[n] \in Seq(Message) /\ events[n] # <<>>
    BY <1>10 DEF HandleNewQuery, TypeOK
  <2>2. m \in Buffered(n) /\ \A i \in DOMAIN Tail(events[n]) : Tail(events[n])[i] \in Buffered(n)
    <3>1. PICK e \in Message : TRUE
      BY <2>1, Queue
    <3> QED BY <2>1, <3>1, Queue DEF Buffered
  <2>3. m \in published /\ m.query.requester # n
    BY <2>2 DEF Traced, FromOthers
  <2>4. events'[n] = Tail(events[n]) /\ \A k \in Node : k # n => events'[k] = events[k]
    BY <1>10 DEF HandleNewQuery, TypeOK
  <2>5. \A k \in Node : Buffered(k)' \subseteq Buffered(k)
    <3>1. Buffered(n)' \subseteq Buffered(n)
      <4>1. Buffered(n)' = {Tail(events[n])[i] : i \in DOMAIN Tail(events[n])}
        BY <2>4 DEF Buffered
      <4> QED BY <2>2, <4>1
    <3>2. \A k \in Node : k # n => Buffered(k)' = Buffered(k)
      BY <2>4 DEF Buffered
    <3> QED BY <3>1, <3>2
  <2>6. \A k \in Node : FromOthers(k, flying[k])' /\ FromOthers(k, Buffered(k))'
    BY <1>10, <2>5 DEF HandleNewQuery, Traced, FromOthers
  <2>7. received' = [received EXCEPT ![n] = Insert(@, m.query)]
    BY <1>10 DEF HandleNewQuery
  <2> HIDE DEF m
  <2>8. \A k \in Node : \A q \in received'[k] : q \in received[k] \/ (k = n /\ q = m.query)
    <3>1. /\ received'[n] = Insert(received[n], m.query)
          /\ \A k \in Node : k # n => received'[k] = received[k]
      BY <2>7 DEF TypeOK
    <3>2. Insert(received[n], m.query) \subseteq received[n] \cup {m.query}
      BY InsertAdds
    <3> QED BY <3>1, <3>2
  <2>9. OnlyPublished'
    BY <1>10, <2>3, <2>8 DEF HandleNewQuery, Traced, OnlyPublished, Gossiped
  <2> QED BY <1>10, <1>b, <2>6, <2>9 DEF HandleNewQuery
<1>11. ASSUME NEW n \in Node, Flush(n) PROVE Traced'
  <2>1. \A k \in Node : disk'[k] = disk[k] \/ disk'[k] = [sent |-> sent[k], received |-> received[k]]
    BY <1>11 DEF Flush, TypeOK
  <2>2. OnlyPublished'
    BY <1>11, <2>1 DEF Flush, Traced, OnlyPublished, Gossiped
  <2> QED BY <1>11, <1>b, <2>2, TrafficKept DEF Flush
<1>12. ASSUME NEW n \in Node, Crash(n) PROVE Traced'
  <2>1. \A k \in Node : /\ sent'[k] = sent[k] \/ sent'[k] = disk[k].sent
                        /\ received'[k] = received[k] \/ received'[k] = disk[k].received
    BY <1>12 DEF Crash, TypeOK
  <2>2. OnlyPublished'
    BY <1>12, <2>1 DEF Crash, Traced, OnlyPublished, Gossiped
  <2>3. \A p \in Post : post'[p] # Free => post'[p] = post[p] /\ post[p] # Free
    BY <1>12 DEF Crash
  <2>4. \A k \in Node : events'[k] = events[k] \/ events'[k] = <<>>
    BY <1>12 DEF Crash, TypeOK
  <2>5. \A k \in Node : FromOthers(k, flying[k])' /\ FromOthers(k, Buffered(k))'
    BY <1>12, <2>4 DEF Crash, Traced, FromOthers, Buffered
  <2>6. Numbered'
    BY <1>12, <2>3 DEF Crash, Traced, Numbered
  <2>7. \A p \in Post : post'[p] # Free => PostTraced(post'[p], published')
    BY <1>12, <2>3 DEF Crash, Traced
  <2> QED BY <2>2, <2>5, <2>6, <2>7 DEF Traced
<1>13. CASE UNCHANGED vars
  <2>1. UNCHANGED <<post, posts, published, flying, events, sent, received, disk>>
    BY <1>13 DEF vars
  <2> QED BY <2>1, <1>b, ListsKept, TrafficKept DEF Traced
<1> QED BY <1>1, <1>2, <1>3, <1>4, <1>5, <1>6, <1>7, <1>8, <1>9, <1>10, <1>11, <1>12,
           <1>13 DEF Next

(* The inductive invariant holds in every reachable state. *)
THEOREM AlwaysTraced == Spec => []Traced
<1>1. Init => Traced
  BY DEF Init, Traced, Numbered, FromOthers, Buffered, OnlyPublished
<1> QED BY <1>1, TracedStep, TypeCorrect, PTL DEF Spec

(* Both sides of gossip list only what was published, by the right node.   *)
THEOREM ListsTrue == Spec => []OnlyPublished
<1>1. Traced => OnlyPublished
  BY DEF Traced
<1> QED BY <1>1, AlwaysTraced, PTL

(* No answer to a post is wrong, however posts of all nodes interleave.    *)
THEOREM AnswersTrue == Spec => []TrueAnswer
<1>1. TypeOK /\ Traced => TrueAnswer
  <2> SUFFICES ASSUME TypeOK, Traced, NEW p \in Post
               PROVE  /\ At(p, "err") => \A m \in published : m.number # post[p].number
                      /\ At(p, "ok") => \E m \in published : m.number = post[p].number
    BY DEF TrueAnswer
  <2>1. At(p, "err") \/ At(p, "ok") => PostTraced(post[p], published)
    BY DEF At, Free, Traced
  <2> QED BY <2>1 DEF At, PostTraced
<1> QED BY <1>1, AlwaysTraced, TypeCorrect, PTL

-----------------------------------------------------------------------------
(* What becomes of a published query.                                      *)

(* What a node remembers having got it still holds, has stored or lost. *)
Accounted ==
  /\ NothingVanishes
  /\ \A n \in Node : seen[n] \subseteq heard[n] \cup missed[n] \cup Buffered(n)

(* An event that is added: only the oldest one makes room for it. *)
LEMMA AddedLast ==
  ASSUME NEW q \in Seq(Message), NEW m \in Message
  PROVE  /\ \E j \in DOMAIN Append(q, m) : Append(q, m)[j] = m
         /\ \A i \in DOMAIN q : \E j \in DOMAIN Append(q, m) : Append(q, m)[j] = q[i]
<1>1. Len(q) + 1 \in DOMAIN Append(q, m) /\ Append(q, m)[Len(q) + 1] = m
  OBVIOUS
<1>2. ASSUME NEW i \in DOMAIN q PROVE i \in DOMAIN Append(q, m) /\ Append(q, m)[i] = q[i]
  OBVIOUS
<1> QED BY <1>1, <1>2

(* Of what was buffered, only the head is not in the tail. *)
LEMMA HeadOrTail ==
  ASSUME NEW q \in Seq(Message), q # <<>>, NEW i \in DOMAIN q
  PROVE  q[i] = Head(q) \/ \E j \in DOMAIN Tail(q) : Tail(q)[j] = q[i]
<1>1. CASE i = 1
  BY <1>1
<1>2. CASE i # 1
  <2>1. i - 1 \in DOMAIN Tail(q) /\ Tail(q)[i - 1] = q[i]
    BY <1>2
  <2> QED BY <2>1
<1> QED BY <1>1, <1>2

(* The accounts are kept where nothing leaves a place but for another one. *)
LEMMA AccountsKept ==
  ASSUME Accounted,
         \A n \in Node :
           /\ heard[n] \cup missed[n] \cup Buffered(n)
                \subseteq heard'[n] \cup missed'[n] \cup Buffered(n)'
           /\ seen'[n] \subseteq seen[n] \cup heard'[n] \cup missed'[n] \cup Buffered(n)'
           /\ flying[n] \subseteq flying'[n] \cup heard'[n] \cup missed'[n] \cup Buffered(n)'
           /\ \A m \in published' \ published : m.query.requester # n => m \in flying'[n]
  PROVE  Accounted'
<1>1. ASSUME NEW n \in Node, NEW m \in published', m.query.requester # n
      PROVE  m \in flying'[n] \cup Buffered(n)' \cup heard'[n] \cup missed'[n]
  BY <1>1 DEF Accounted, NothingVanishes
<1>2. \A n \in Node : seen'[n] \subseteq heard'[n] \cup missed'[n] \cup Buffered(n)'
  BY DEF Accounted
<1> QED BY <1>1, <1>2 DEF Accounted, NothingVanishes

(* Steps of the posts, the disk and the address leave the accounts alone. *)
LEMMA AccountsUntouched ==
  ASSUME Accounted, UNCHANGED <<published, flying, seen, events, heard, missed>>
  PROVE  Accounted'
  BY DEF Accounted, NothingVanishes, Buffered

(* Accounted is inductive. *)
LEMMA AccountedStep == TypeOK /\ Traced /\ Accounted /\ [Next]_vars => Accounted'
<1> SUFFICES ASSUME TypeOK, Traced, Accounted, [Next]_vars PROVE Accounted'
  OBVIOUS
<1>1. ASSUME NEW p \in Post, NEW n \in Node, NEW data \in Data, PostQuery(p, n, data)
      PROVE  Accounted'
  BY <1>1, AccountsUntouched DEF PostQuery
<1>2. ASSUME NEW p \in Post, DetailsAnswered(p) PROVE Accounted'
  BY <1>2, AccountsUntouched DEF DetailsAnswered
<1>3. ASSUME NEW p \in Post, PublishAccepted(p) PROVE Accounted'
  <2>1. PostTraced(post[p], published)
    BY <1>3 DEF PublishAccepted, At, Free, Traced
  <2>2. \A m \in post[p].message : m.query.requester = post[p].node
    BY <2>1 DEF PostTraced
  <2>3. \A n \in Node : /\ flying[n] \subseteq flying'[n]
                        /\ n # post[p].node => post[p].message \subseteq flying'[n]
                        /\ Buffered(n)' = Buffered(n)
    BY <1>3 DEF PublishAccepted, Buffered
  <2>4. published' = published \cup post[p].message /\ UNCHANGED <<heard, missed, seen>>
    BY <1>3 DEF PublishAccepted
  <2> QED BY <2>2, <2>3, <2>4, AccountsKept
<1>4. ASSUME NEW p \in Post, PublishRefused(p) PROVE Accounted'
  BY <1>4, AccountsUntouched DEF PublishRefused
<1>5. ASSUME NEW p \in Post, StoreSent(p) PROVE Accounted'
  BY <1>5, AccountsUntouched DEF StoreSent
<1>6. ASSUME NEW p \in Post, HangUp(p) PROVE Accounted'
  BY <1>6, AccountsUntouched DEF HangUp
<1>7. ASSUME NEW n \in Node, NewListenAddr(n) PROVE Accounted'
  BY <1>7, AccountsUntouched DEF NewListenAddr
<1>8. ASSUME NEW n \in Node, NEW m \in flying[n], Deliver(n, m) PROVE Accounted'
  <2> DEFINE full == Len(events[n]) = EventCap
             kept == IF full THEN Tail(events[n]) ELSE events[n]
  <2>1. /\ m \in Message /\ events[n] \in Seq(Message)
        /\ full => events[n] # <<>>
    BY BoundAssumption DEF TypeOK
  <2>2. kept \in Seq(Message)
    BY <2>1, Queue
  <2>3. events'[n] = Append(kept, m) /\ \A k \in Node : k # n => events'[k] = events[k]
    BY <1>8 DEF Deliver, TypeOK
  <2>4. missed'[n] = IF full THEN missed[n] \cup {Head(events[n])} ELSE missed[n]
    BY <1>8 DEF Deliver, TypeOK
  <2>5. \A i \in DOMAIN events[n] :
          (full /\ events[n][i] = Head(events[n])) \/ \E j \in DOMAIN kept : kept[j] = events[n][i]
    BY <2>1, HeadOrTail
  <2> HIDE DEF full, kept
  <2>6. m \in Buffered(n)' /\ Buffered(n) \subseteq Buffered(n)' \cup missed'[n]
    <3>0. /\ \E j \in DOMAIN Append(kept, m) : Append(kept, m)[j] = m
          /\ \A i \in DOMAIN kept :
               \E j \in DOMAIN Append(kept, m) : Append(kept, m)[j] = kept[i]
      BY <2>1, <2>2, AddedLast, Zenon
    <3>1. \E j \in DOMAIN events'[n] : events'[n][j] = m
      BY <2>3, <3>0, Zenon
    <3>2. \A i \in DOMAIN kept : \E j \in DOMAIN events'[n] : events'[n][j] = kept[i]
      BY <2>3, <3>0, Zenon
    <3>3. \A i \in DOMAIN events[n] : events[n][i] \in Buffered(n)' \cup missed'[n]
      BY <2>4, <2>5, <3>2 DEF Buffered
    <3> QED BY <3>1, <3>3 DEF Buffered
  <2>7. \A k \in Node : /\ k # n => Buffered(k)' = Buffered(k) /\ missed'[k] = missed[k]
                        /\ missed[k] \subseteq missed'[k]
                        /\ seen'[k] = IF k = n THEN seen[n] \cup {m} ELSE seen[k]
    BY <1>8, <2>3, <2>4 DEF Deliver, TypeOK, Buffered
  <2>8. UNCHANGED <<published, flying, heard>>
    BY <1>8 DEF Deliver
  <2> QED BY <2>6, <2>7, <2>8, AccountsKept
<1>9. ASSUME NEW n \in Node, NEW m \in flying[n], Expire(n, m) PROVE Accounted'
  <2>1. \A k \in Node : /\ Buffered(k)' = Buffered(k)
                        /\ missed[k] \subseteq missed'[k]
                        /\ flying'[k] = IF k = n THEN flying[n] \ {m} ELSE flying[k]
    BY <1>9 DEF Expire, TypeOK, Buffered
  <2>2. m \in missed'[n] \cup seen[n]
    BY <1>9 DEF Expire, TypeOK
  <2>3. UNCHANGED <<published, heard, seen>>
    BY <1>9 DEF Expire
  <2>4. m \in heard[n] \cup missed'[n] \cup Buffered(n)
    BY <2>1, <2>2 DEF Accounted
  <2> QED BY <2>1, <2>3, <2>4, AccountsKept
<1>10. ASSUME NEW n \in Node, HandleNewQuery(n) PROVE Accounted'
  <2>1. events[n] \in Seq(Message) /\ events[n] # <<>>
    BY <1>10 DEF HandleNewQuery, TypeOK
  <2>2. events'[n] = Tail(events[n]) /\ \A k \in Node : k # n => events'[k] = events[k]
    BY <1>10 DEF HandleNewQuery, TypeOK
  <2>3. heard'[n] = heard[n] \cup {Head(events[n])} /\ \A k \in Node : heard[k] \subseteq heard'[k]
    BY <1>10 DEF HandleNewQuery, TypeOK
  <2>4. \A i \in DOMAIN events[n] :
          events[n][i] = Head(events[n]) \/ \E j \in DOMAIN events'[n] : events'[n][j] = events[n][i]
    BY <2>1, <2>2, HeadOrTail
  <2>5. Buffered(n) \subseteq heard'[n] \cup Buffered(n)'
    BY <2>3, <2>4 DEF Buffered
  <2>6. \A k \in Node : k # n => Buffered(k)' = Buffered(k)
    BY <2>2 DEF Buffered
  <2>7. UNCHANGED <<published, flying, seen, missed>>
    BY <1>10 DEF HandleNewQuery
  <2> QED BY <2>3, <2>5, <2>6, <2>7, AccountsKept
<1>11. ASSUME NEW n \in Node, Flush(n) PROVE Accounted'
  BY <1>11, AccountsUntouched DEF Flush
<1>12. ASSUME NEW n \in Node, Crash(n) PROVE Accounted'
  <2>1. \A k \in Node : /\ seen'[k] \subseteq seen[k]
                        /\ missed[k] \subseteq missed'[k]
                        /\ k # n => events'[k] = events[k]
    BY <1>12 DEF Crash, TypeOK
  <2>2. Buffered(n) \subseteq missed'[n]
    BY <1>12 DEF Crash, TypeOK
  <2>3. \A k \in Node : k # n => Buffered(k)' = Buffered(k)
    BY <2>1 DEF Buffered
  <2>4. UNCHANGED <<published, flying, heard>>
    BY <1>12 DEF Crash
  <2> QED BY <2>1, <2>2, <2>3, <2>4, AccountsKept
<1>13. CASE UNCHANGED vars
  BY <1>13, AccountsUntouched DEF vars
<1> QED BY <1>1, <1>2, <1>3, <1>4, <1>5, <1>6, <1>7, <1>8, <1>9, <1>10, <1>11, <1>12,
           <1>13 DEF Next

(* No published query is lost without having been counted as lost. *)
THEOREM NothingLostSilently == Spec => []NothingVanishes
<1>1. Init => Accounted
  BY DEF Init, Accounted, NothingVanishes
<1>2. Accounted => NothingVanishes
  BY DEF Accounted
<1> QED BY <1>1, <1>2, AccountedStep, AlwaysTraced, TypeCorrect, PTL DEF Spec
=============================================================================
