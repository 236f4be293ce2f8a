-------------------------- MODULE RequestsProofs ---------------------------
(***************************************************************************)
(* Proofs about Requests: every waiting task is registered where its event *)
(* will look for it, and the event loops implement the request of Rpc, for *)
(* any numbers of nodes, calls and buffer places.                          *)
(***************************************************************************)
EXTENDS Requests, TLAPS

Cmd == {Command(OpOf(c), c) : c \in Call} \cup {Command("response", c) : c \in Request}

Distinct(s) == \A i, j \in DOMAIN s : s[i] = s[j] => i = j

(* Neither queue holds anything twice, nor more than its capacity. *)
QueuesOK ==
  /\ commands \in [Node -> Seq(Cmd)] /\ events \in [Node -> Seq(Request)]
  /\ \A n \in Node : /\ Len(commands[n]) <= CommandCap /\ Distinct(commands[n])
                     /\ Len(events[n]) <= EventCap /\ Distinct(events[n])

(* The rest of TypeOK. *)
MapsOK ==
  /\ outbound \in [Node -> SUBSET EntryOf(Request)]
  /\ channels \in [Node -> SUBSET EntryOf(Request)]
  /\ inbound \in [Node -> SUBSET EntryOf(Request)]
  /\ queries \in [Node -> SUBSET {Entry(c, c) : c \in Query}]
  /\ caller \in [Call -> {"idle", "waiting", "ok", "err"}]
  /\ replier \in [Request -> {"none", "spawned", "waiting", "ok", "err"}]
  /\ answer \in [Request -> {{}, {"Ack"}, {"Bad"}}] /\ got \in [Request -> {{}, {"Ack"}, {"Bad"}}]
  /\ link \in [Request \cup Query -> Link]
  /\ taken \subseteq Request

(* A command is queued at the node of its task, before libp2p hears of it. *)
CommandsPlaced ==
  /\ \A n \in Node : \A c \in Call :
       Queued(n, OpOf(c), c) => n = From[c] /\ (c \in Request \cup Query => link[c].out = "none")
  /\ \A n \in Node : \A c \in Request :
       Queued(n, "response", c) => n = To[c] /\ Entry(InKey(c), c) \notin inbound[To[c]]

(* An entry is kept under its own key, by the node of its task, as long as  *)
(* libp2p owes the event that will look for it.                            *)
EntriesPlaced ==
  /\ \A n \in Node : \A e \in outbound[n] :
       n = From[e.call] /\ e.key = OutKey(e.call) /\ link[e.call].out = "open"
  /\ \A n \in Node : \A e \in queries[n] :
       n = From[e.call] /\ e.key = e.call /\ link[e.call].out = "open"
  /\ \A n \in Node : \A e \in channels[n] :
       n = To[e.call] /\ e.key = InKey(e.call) /\ link[e.call].in \in {"open", "closed"}
  /\ \A n \in Node : \A e \in inbound[n] :
       n = To[e.call] /\ e.key = InKey(e.call) /\ link[e.call].in \in {"answering", "closed"}

(* And libp2p owes no event that will find nothing. *)
EntriesHeld ==
  /\ \A c \in Request : /\ link[c].out = "open" => Entry(OutKey(c), c) \in outbound[From[c]]
                        /\ link[c].in = "answering" => Entry(InKey(c), c) \in inbound[To[c]]
  /\ \A c \in Query : link[c].out = "open" => Entry(c, c) \in queries[From[c]]

(* The stages of a request follow each other: asked, arrived, taken,        *)
(* answered, handed over.                                                  *)
StagesOK ==
  /\ \A c \in Request \cup Query : caller[c] = "idle" => link[c].out = "none"
  /\ \A c \in Request :
       /\ link[c].in # "none" => caller[c] # "idle"
       /\ c \in taken => link[c].in # "none"
       /\ replier[c] # "none" => c \in taken /\ answer[c] # {}
       /\ c \notin taken => answer[c] = {}
       /\ link[c].in \in {"answering", "sent", "cut"} => replier[c] # "none"
  /\ \A n \in Node : \A c \in Range(events[n]) :
       n = To[c] /\ link[c].in # "none" /\ c \notin taken

IInv ==
  /\ QueuesOK /\ MapsOK /\ CommandsPlaced /\ EntriesPlaced /\ EntriesHeld
  /\ StagesOK /\ Registered /\ ChannelHeld

-----------------------------------------------------------------------------
(* What the steps do to queues, maps, links and tasks.                     *)

USE CallAssumption, CapAssumption

(* A queue that gets what it does not hold, or gives up its head. *)
LEMMA AppendKeeps ==
  ASSUME NEW S, NEW s \in Seq(S), NEW x \in S, x \notin Range(s), Distinct(s)
  PROVE  /\ Append(s, x) \in Seq(S) /\ Len(Append(s, x)) = Len(s) + 1
         /\ Distinct(Append(s, x)) /\ Range(Append(s, x)) = Range(s) \cup {x}
<1> DEFINE t == Append(s, x)
<1>1. /\ t \in Seq(S) /\ Len(t) = Len(s) + 1 /\ DOMAIN t = 1..(Len(s) + 1)
      /\ t[Len(s) + 1] = x /\ \A i \in 1..Len(s) : t[i] = s[i]
  OBVIOUS
<1>2. DOMAIN s = 1..Len(s) /\ Len(s) \in Nat
  OBVIOUS
<1> HIDE DEF t
<1>3. Distinct(t)
  <2> SUFFICES ASSUME NEW i \in DOMAIN t, NEW j \in DOMAIN t, t[i] = t[j] PROVE i = j
    BY DEF Distinct
  <2>1. CASE i \in 1..Len(s) /\ j \in 1..Len(s)
    BY <1>1, <1>2, <2>1 DEF Distinct
  <2>2. ASSUME NEW k \in 1..Len(s) PROVE t[k] # x
    BY <1>1, <1>2 DEF Range
  <2>3. (i \in 1..Len(s) \/ i = Len(s) + 1) /\ (j \in 1..Len(s) \/ j = Len(s) + 1)
    BY <1>1, <1>2
  <2> QED BY <1>1, <2>1, <2>2, <2>3
<1>4. Range(t) = Range(s) \cup {x}
  BY <1>1, <1>2 DEF Range
<1> QED BY <1>1, <1>3, <1>4 DEF t

LEMMA TailKeeps ==
  ASSUME NEW S, NEW s \in Seq(S), s # <<>>, Distinct(s)
  PROVE  /\ Tail(s) \in Seq(S) /\ Len(Tail(s)) = Len(s) - 1 /\ Distinct(Tail(s))
         /\ Head(s) \in S /\ Head(s) \in Range(s)
         /\ Range(Tail(s)) = Range(s) \ {Head(s)}
<1> DEFINE t == Tail(s)
<1>1. /\ t \in Seq(S) /\ Len(t) = Len(s) - 1 /\ DOMAIN t = 1..(Len(s) - 1)
      /\ \A i \in 1..(Len(s) - 1) : t[i] = s[i + 1]
      /\ Head(s) = s[1] /\ 1 \in DOMAIN s /\ Len(s) \in Nat /\ DOMAIN s = 1..Len(s)
  OBVIOUS
<1> HIDE DEF t
<1>2. Distinct(t)
  <2> SUFFICES ASSUME NEW i \in DOMAIN t, NEW j \in DOMAIN t, t[i] = t[j] PROVE i = j
    BY DEF Distinct
  <2>1. i + 1 \in DOMAIN s /\ j + 1 \in DOMAIN s /\ s[i + 1] = s[j + 1]
    BY <1>1
  <2>2. i + 1 = j + 1
    BY <2>1 DEF Distinct
  <2> QED BY <1>1, <2>2
<1>3. Head(s) \in S /\ Head(s) \in Range(s)
  BY <1>1 DEF Range
<1>4. ASSUME NEW y \in Range(t) PROVE y \in Range(s) \ {Head(s)}
  <2>1. PICK i \in 1..(Len(s) - 1) : y = t[i]
    BY <1>1 DEF Range
  <2>2. i + 1 \in DOMAIN s /\ y = s[i + 1] /\ i + 1 # 1
    BY <1>1, <2>1
  <2>3. y # s[1]
    BY <1>1, <2>2 DEF Distinct
  <2> QED BY <1>1, <2>2, <2>3 DEF Range
<1>5. ASSUME NEW y \in Range(s), y # Head(s) PROVE y \in Range(t)
  <2>1. PICK i \in DOMAIN s : y = s[i]
    BY DEF Range
  <2>2. i # 1 /\ i \in 1..Len(s)
    BY <1>1, <1>5, <2>1
  <2>3. i - 1 \in 1..(Len(s) - 1) /\ (i - 1) + 1 = i
    BY <1>1, <2>2
  <2>4. t[i - 1] = s[(i - 1) + 1]
    BY <1>1, <2>3
  <2>5. t[i - 1] = y
    BY <2>1, <2>3, <2>4
  <2> QED BY <1>1, <2>3, <2>5 DEF Range
<1> QED BY <1>1, <1>2, <1>3, <1>4, <1>5 DEF t

LEMMA CommandsDiffer ==
  \A o, op, d, c : Command(o, d) = Command(op, c) <=> o = op /\ d = c
  BY DEF Command

LEMMA EnqueueEffect ==
  ASSUME QueuesOK, NEW n \in Node, NEW op, NEW c, Command(op, c) \in Cmd,
         HasRoom(n), Enqueue(n, Command(op, c)), ~Queued(n, op, c), UNCHANGED events
  PROVE  /\ QueuesOK'
         /\ \A m \in Node : \A o, d :
              Queued(m, o, d)' <=> Queued(m, o, d) \/ (m = n /\ o = op /\ d = c)
<1> DEFINE x == Command(op, c)
<1>1. /\ commands[n] \in Seq(Cmd) /\ Distinct(commands[n]) /\ x \notin Range(commands[n])
      /\ Len(commands[n]) < CommandCap /\ x \in Cmd
  BY DEF QueuesOK, Queued, HasRoom
<1>2. /\ commands' = [commands EXCEPT ![n] = Append(@, x)] /\ commands \in [Node -> Seq(Cmd)]
  BY DEF Enqueue, QueuesOK
<1>d. \A o, d : Command(o, d) = x <=> o = op /\ d = c
  BY CommandsDiffer
<1> HIDE DEF x
<1> DEFINE t == Append(commands[n], x)
<1>3. /\ t \in Seq(Cmd)
      /\ Len(t) = Len(commands[n]) + 1
      /\ Distinct(t)
      /\ Range(t) = Range(commands[n]) \cup {x}
  BY <1>1, AppendKeeps, Zenon
<1> HIDE DEF t
<1>4. Len(commands[n]) \in Nat
  BY <1>1
<1>5. /\ commands'[n] = t
      /\ \A m \in Node : m # n => commands'[m] = commands[m]
      /\ commands' \in [Node -> Seq(Cmd)]
  BY <1>2, <1>3 DEF t
<1>6. QueuesOK'
  <2>1. ASSUME NEW m \in Node PROVE Len(commands'[m]) <= CommandCap /\ Distinct(commands'[m])
    <3>1. CASE m = n
      BY <1>1, <1>3, <1>4, <1>5, <3>1
    <3>2. CASE m # n
      BY <1>5, <3>2 DEF QueuesOK
    <3> QED BY <3>1, <3>2
  <2> QED BY <1>5, <2>1 DEF QueuesOK
<1>7. ASSUME NEW m \in Node, NEW o, NEW d
      PROVE  Queued(m, o, d)' <=> Queued(m, o, d) \/ (m = n /\ o = op /\ d = c)
  <2>1. CASE m = n
    BY <1>3, <1>5, <1>d, <2>1 DEF Queued
  <2>2. CASE m # n
    BY <1>5, <2>2 DEF Queued
  <2> QED BY <2>1, <2>2
<1> QED BY <1>6, <1>7

LEMMA ReceiveEffect ==
  ASSUME QueuesOK, NEW n \in Node, NEW op, NEW c, Receives(n, op, c), UNCHANGED events
  PROVE  /\ QueuesOK' /\ Queued(n, op, c)
         /\ \A m \in Node : \A o, d :
              Queued(m, o, d)' <=> Queued(m, o, d) /\ ~(m = n /\ o = op /\ d = c)
<1> DEFINE x == Command(op, c)
<1>1. /\ commands[n] \in Seq(Cmd) /\ Distinct(commands[n]) /\ commands[n] # <<>>
      /\ Head(commands[n]) = x /\ Len(commands[n]) <= CommandCap
  BY DEF QueuesOK, Receives
<1>2. /\ commands' = [commands EXCEPT ![n] = Tail(@)] /\ commands \in [Node -> Seq(Cmd)]
  BY DEF Receives, QueuesOK
<1>d. \A o, d : Command(o, d) = x <=> o = op /\ d = c
  BY CommandsDiffer
<1> HIDE DEF x
<1> DEFINE t == Tail(commands[n])
<1>3. /\ t \in Seq(Cmd)
      /\ Len(t) = Len(commands[n]) - 1
      /\ Distinct(t) /\ x \in Range(commands[n])
      /\ Range(t) = Range(commands[n]) \ {x}
  BY <1>1, TailKeeps, Zenon
<1> HIDE DEF t
<1>4. Len(commands[n]) \in Nat
  BY <1>1
<1>5. /\ commands'[n] = t
      /\ \A m \in Node : m # n => commands'[m] = commands[m]
      /\ commands' \in [Node -> Seq(Cmd)]
  BY <1>2, <1>3 DEF t
<1>6. QueuesOK'
  <2>1. ASSUME NEW m \in Node PROVE Len(commands'[m]) <= CommandCap /\ Distinct(commands'[m])
    <3>1. CASE m = n
      BY <1>1, <1>3, <1>4, <1>5, <3>1
    <3>2. CASE m # n
      BY <1>5, <3>2 DEF QueuesOK
    <3> QED BY <3>1, <3>2
  <2> QED BY <1>5, <2>1 DEF QueuesOK
<1>7. ASSUME NEW m \in Node, NEW o, NEW d
      PROVE  Queued(m, o, d)' <=> Queued(m, o, d) /\ ~(m = n /\ o = op /\ d = c)
  BY <1>3, <1>5, <1>d DEF Queued
<1>8. Queued(n, op, c)
  BY <1>3, <1>d DEF Queued
<1> QED BY <1>6, <1>7, <1>8

LEMMA BroadcastEffect ==
  ASSUME QueuesOK, NEW n \in Node, NEW c \in Request, Broadcast(n, c),
         c \notin Range(events[n]), UNCHANGED commands
  PROVE  /\ QueuesOK'
         /\ \A m \in Node : Range(events'[m]) \subseteq
              Range(events[m]) \cup (IF m = n THEN {c} ELSE {})
<1> DEFINE s == IF Len(events[n]) = EventCap THEN Tail(events[n]) ELSE events[n]
<1>1. /\ events[n] \in Seq(Request) /\ Distinct(events[n]) /\ Len(events[n]) <= EventCap
      /\ events \in [Node -> Seq(Request)] /\ Len(events[n]) \in Nat
  BY DEF QueuesOK
<1>2. /\ s \in Seq(Request) /\ Distinct(s) /\ Len(s) + 1 <= EventCap
      /\ Range(s) \subseteq Range(events[n])
  <2>1. CASE Len(events[n]) = EventCap
    <3>1. events[n] # <<>>
      BY <2>1
    <3>2. /\ Tail(events[n]) \in Seq(Request) /\ Distinct(Tail(events[n]))
          /\ Len(Tail(events[n])) = Len(events[n]) - 1
          /\ Range(Tail(events[n])) = Range(events[n]) \ {Head(events[n])}
      BY <1>1, <3>1, TailKeeps, Zenon
    <3> QED BY <1>1, <2>1, <3>2
  <2>2. CASE Len(events[n]) # EventCap
    BY <1>1, <2>2
  <2> QED BY <2>1, <2>2
<1>3. events' = [events EXCEPT ![n] = Append(s, c)]
  BY <1>1 DEF Broadcast
<1> HIDE DEF s
<1>4. /\ Append(s, c) \in Seq(Request) /\ Len(Append(s, c)) = Len(s) + 1
      /\ Distinct(Append(s, c)) /\ Range(Append(s, c)) = Range(s) \cup {c}
  <2>1. c \notin Range(s)
    BY <1>2
  <2> QED BY <1>2, <2>1, AppendKeeps, Zenon
<1>5. /\ events'[n] = Append(s, c) /\ events' \in [Node -> Seq(Request)]
      /\ \A m \in Node : m # n => events'[m] = events[m]
  BY <1>1, <1>3, <1>4
<1>6. QueuesOK'
  BY <1>2, <1>4, <1>5 DEF QueuesOK
<1>7. ASSUME NEW m \in Node
      PROVE  Range(events'[m]) \subseteq Range(events[m]) \cup (IF m = n THEN {c} ELSE {})
  <2>1. CASE m = n
    BY <1>2, <1>4, <1>5, <2>1
  <2>2. CASE m # n
    BY <1>5, <2>2
  <2> QED BY <2>1, <2>2
<1> QED BY <1>6, <1>7

LEMMA TakeEffect ==
  ASSUME QueuesOK, NEW n \in Node, events[n] # <<>>,
         events' = [events EXCEPT ![n] = Tail(@)], UNCHANGED commands
  PROVE  /\ QueuesOK' /\ Head(events[n]) \in Request /\ Head(events[n]) \in Range(events[n])
         /\ \A m \in Node : Range(events'[m]) =
              Range(events[m]) \ (IF m = n THEN {Head(events[n])} ELSE {})
<1>1. /\ events[n] \in Seq(Request) /\ Distinct(events[n]) /\ Len(events[n]) <= EventCap
      /\ events \in [Node -> Seq(Request)] /\ Len(events[n]) \in Nat
  BY DEF QueuesOK
<1>2. /\ Tail(events[n]) \in Seq(Request) /\ Distinct(Tail(events[n]))
      /\ Len(Tail(events[n])) = Len(events[n]) - 1
      /\ Head(events[n]) \in Request /\ Head(events[n]) \in Range(events[n])
      /\ Range(Tail(events[n])) = Range(events[n]) \ {Head(events[n])}
  BY <1>1, TailKeeps, Zenon
<1>3. /\ events'[n] = Tail(events[n]) /\ events' \in [Node -> Seq(Request)]
      /\ \A m \in Node : m # n => events'[m] = events[m]
  BY <1>1, <1>2
<1>4. QueuesOK'
  BY <1>1, <1>2, <1>3 DEF QueuesOK
<1>5. ASSUME NEW m \in Node
      PROVE  Range(events'[m]) = Range(events[m]) \ (IF m = n THEN {Head(events[n])} ELSE {})
  <2>1. CASE m = n
    BY <1>2, <1>3, <2>1
  <2>2. CASE m # n
    BY <1>3, <2>2
  <2> QED BY <2>1, <2>2
<1> QED BY <1>2, <1>4, <1>5

LEMMA EventsRange ==
  QueuesOK => \A n \in Node : Range(events[n]) \subseteq Request
  BY DEF QueuesOK, Range

LEMMA Typed == QueuesOK /\ MapsOK => TypeOK
<1> SUFFICES ASSUME QueuesOK, MapsOK PROVE TypeOK
  OBVIOUS
<1>1. ASSUME NEW S, NEW s \in Seq(S) PROVE Range(s) \subseteq S
  BY DEF Range
<1>2. ASSUME NEW n \in Node
      PROVE  /\ Len(commands[n]) <= CommandCap /\ Len(events[n]) <= EventCap
             /\ Range(commands[n]) \subseteq Cmd /\ Range(events[n]) \subseteq Request
  <2>1. commands[n] \in Seq(Cmd) /\ events[n] \in Seq(Request)
    BY DEF QueuesOK
  <2>2. Range(commands[n]) \subseteq Cmd /\ Range(events[n]) \subseteq Request
    BY <1>1, <2>1, Zenon
  <2> QED BY <2>2 DEF QueuesOK
<1> QED BY <1>2 DEF TypeOK, MapsOK, Cmd

LEMMA EntriesDiffer ==
  \A k, c, l, d : /\ Entry(k, c) = Entry(l, d) <=> k = l /\ c = d
                  /\ Entry(k, c).key = k /\ Entry(k, c).call = c
  BY DEF Entry

LEMMA KeysDiffer ==
  \A c, d : (OutKey(c) = OutKey(d) => c = d) /\ (InKey(c) = InKey(d) => c = d)
  BY DEF OutKey, InKey, Key

(* What is found under a key that only one call can have. *)
LEMMA FoundOne ==
  ASSUME NEW map, NEW key, NEW c, \A e \in map : e = Entry(e.key, e.call),
         \A e \in map : e.key = key => e.call = c
  PROVE  Found(map, key) = IF Entry(key, c) \in map THEN {c} ELSE {}
<1>1. ASSUME NEW d \in Found(map, key) PROVE d = c /\ Entry(key, c) \in map
  <2>1. PICK e \in map : e.key = key /\ d = e.call
    BY DEF Found
  <2> QED BY <2>1
<1>2. ASSUME Entry(key, c) \in map PROVE c \in Found(map, key)
  BY <1>2, EntriesDiffer DEF Found
<1> QED BY <1>1, <1>2

LEMMA FoundHere ==
  ASSUME MapsOK, EntriesPlaced, EntriesHeld
  PROVE  /\ \A c \in Request :
              /\ Found(outbound[From[c]], OutKey(c)) = IF link[c].out = "open" THEN {c} ELSE {}
              /\ Found(inbound[To[c]], InKey(c)) =
                   IF Entry(InKey(c), c) \in inbound[To[c]] THEN {c} ELSE {}
              /\ \A n \in Node : Found(channels[n], InKey(c)) # {}
                   <=> Entry(InKey(c), c) \in channels[n]
         /\ \A c \in Query :
              Found(queries[From[c]], c) = IF link[c].out = "open" THEN {c} ELSE {}
<1>1. ASSUME NEW S, NEW T \in SUBSET EntryOf(S), NEW e \in T PROVE e = Entry(e.key, e.call)
  BY EntriesDiffer DEF EntryOf
<1>2. ASSUME NEW c \in Request
      PROVE  /\ Found(outbound[From[c]], OutKey(c)) = IF link[c].out = "open" THEN {c} ELSE {}
             /\ Found(inbound[To[c]], InKey(c)) =
                  IF Entry(InKey(c), c) \in inbound[To[c]] THEN {c} ELSE {}
             /\ \A n \in Node : Found(channels[n], InKey(c)) # {}
                  <=> Entry(InKey(c), c) \in channels[n]
  <2>1. From[c] \in Node /\ To[c] \in Node
    BY DEF Call
  <2>2. /\ \A e \in outbound[From[c]] : e = Entry(e.key, e.call)
        /\ \A e \in inbound[To[c]] : e = Entry(e.key, e.call)
        /\ \A n \in Node : \A e \in channels[n] : e = Entry(e.key, e.call)
    BY <1>1, <2>1 DEF MapsOK
  <2>3. /\ \A e \in outbound[From[c]] : e.key = OutKey(c) => e.call = c
        /\ \A e \in inbound[To[c]] : e.key = InKey(c) => e.call = c
        /\ \A n \in Node : \A e \in channels[n] : e.key = InKey(c) => e.call = c
    BY <2>1, KeysDiffer DEF EntriesPlaced
  <2>4. Found(outbound[From[c]], OutKey(c)) =
          IF Entry(OutKey(c), c) \in outbound[From[c]] THEN {c} ELSE {}
    BY <2>2, <2>3, FoundOne, Zenon
  <2>5. Entry(OutKey(c), c) \in outbound[From[c]] <=> link[c].out = "open"
    BY <2>1, EntriesDiffer DEF EntriesPlaced, EntriesHeld
  <2>6. Found(inbound[To[c]], InKey(c)) =
          IF Entry(InKey(c), c) \in inbound[To[c]] THEN {c} ELSE {}
    BY <2>2, <2>3, FoundOne, Zenon
  <2>7. ASSUME NEW n \in Node
        PROVE Found(channels[n], InKey(c)) =
                IF Entry(InKey(c), c) \in channels[n] THEN {c} ELSE {}
    BY <2>2, <2>3, FoundOne, Zenon
  <2> QED BY <2>4, <2>5, <2>6, <2>7
<1>3. ASSUME NEW c \in Query
      PROVE  Found(queries[From[c]], c) = IF link[c].out = "open" THEN {c} ELSE {}
  <2>1. From[c] \in Node
    BY DEF Call
  <2>2. \A e \in queries[From[c]] : e = Entry(e.key, e.call) /\ (e.key = c => e.call = c)
    BY <2>1, EntriesDiffer DEF MapsOK
  <2>3. Found(queries[From[c]], c) = IF Entry(c, c) \in queries[From[c]] THEN {c} ELSE {}
    BY <2>2, FoundOne, Zenon
  <2>4. Entry(c, c) \in queries[From[c]] <=> link[c].out = "open"
    BY <2>1, EntriesDiffer DEF EntriesPlaced, EntriesHeld
  <2> QED BY <2>3, <2>4
<1> QED BY <1>2, <1>3

(* What a step does to the link of its call. *)
LEMMA LinkEffect ==
  ASSUME MapsOK, NEW c \in Request \cup Query
  PROVE  /\ \A v \in {"none", "open", "done"} : SetOut(c, v) =>
              /\ link' \in [Request \cup Query -> Link]
              /\ link'[c].out = v /\ link'[c].in = link[c].in
              /\ \A d \in Request \cup Query : d # c => link'[d] = link[d]
         /\ \A v \in {"none", "open", "answering", "sent", "closed", "cut"} : SetIn(c, v) =>
              /\ link' \in [Request \cup Query -> Link]
              /\ link'[c].in = v /\ link'[c].out = link[c].out
              /\ \A d \in Request \cup Query : d # c => link'[d] = link[d]
<1>1. link \in [Request \cup Query -> Link] /\ link[c] \in Link
  BY DEF MapsOK
<1>2. ASSUME NEW v \in {"none", "open", "done"}, SetOut(c, v)
      PROVE  /\ link' \in [Request \cup Query -> Link]
             /\ link'[c].out = v /\ link'[c].in = link[c].in
             /\ \A d \in Request \cup Query : d # c => link'[d] = link[d]
  <2> DEFINE l == [link[c] EXCEPT !.out = v]
  <2>1. l \in Link /\ l.out = v /\ l.in = link[c].in
    BY <1>1 DEF Link
  <2>2. link' = [link EXCEPT ![c] = l]
    BY <1>1, <1>2 DEF SetOut
  <2> HIDE DEF l
  <2> QED BY <1>1, <2>1, <2>2
<1>3. ASSUME NEW v \in {"none", "open", "answering", "sent", "closed", "cut"}, SetIn(c, v)
      PROVE  /\ link' \in [Request \cup Query -> Link]
             /\ link'[c].in = v /\ link'[c].out = link[c].out
             /\ \A d \in Request \cup Query : d # c => link'[d] = link[d]
  <2> DEFINE l == [link[c] EXCEPT !.in = v]
  <2>1. l \in Link /\ l.in = v /\ l.out = link[c].out
    BY <1>1 DEF Link
  <2>2. link' = [link EXCEPT ![c] = l]
    BY <1>1, <1>3 DEF SetIn
  <2> HIDE DEF l
  <2> QED BY <1>1, <2>1, <2>2
<1> QED BY <1>2, <1>3, Zenon

-----------------------------------------------------------------------------
(* The invariant, action by action.                                        *)

LEMMA AskKeeps == ASSUME IInv, NEW c \in Call, Ask(c) PROVE IInv'
<1>1. From[c] \in Node /\ Command(OpOf(c), c) \in Cmd /\ OpOf(c) # "response"
  BY DEF Cmd, OpOf
<1>2. ~Queued(From[c], OpOf(c), c)
  BY DEF IInv, Registered, Ask, OpOf, Call
<1>3. /\ QueuesOK'
      /\ \A m \in Node : \A o, d : Queued(m, o, d)' <=>
           Queued(m, o, d) \/ (m = From[c] /\ o = OpOf(c) /\ d = c)
  BY <1>1, <1>2, EnqueueEffect DEF IInv, Ask
<1>4. /\ caller' = [caller EXCEPT ![c] = "waiting"] /\ caller[c] = "idle"
      /\ UNCHANGED <<outbound, queries, channels, inbound, events, replier, answer, got,
                     link, taken>>
  BY DEF Ask
<1>5. MapsOK'
  BY <1>4 DEF IInv, MapsOK
<1>6. CommandsPlaced'
  BY <1>1, <1>3, <1>4 DEF IInv, CommandsPlaced, StagesOK
<1>7. EntriesPlaced' /\ EntriesHeld' /\ ChannelHeld'
  BY <1>4 DEF IInv, EntriesPlaced, EntriesHeld, ChannelHeld
<1>8. StagesOK'
  BY <1>4 DEF IInv, StagesOK, MapsOK
<1>9. Registered'
  BY <1>1, <1>3, <1>4 DEF IInv, Registered, MapsOK, OpOf, Call
<1> QED BY <1>3, <1>5, <1>6, <1>7, <1>8, <1>9 DEF IInv

LEMMA ReplyKeeps == ASSUME IInv, NEW c \in Request, Reply(c) PROVE IInv'
<1>1. To[c] \in Node /\ Command("response", c) \in Cmd /\ \A d : OpOf(d) # "response"
  BY DEF Cmd, OpOf
<1>2. ~Queued(To[c], "response", c) /\ Entry(InKey(c), c) \notin inbound[To[c]]
  <2>1. replier[c] # "waiting"
    BY DEF Reply
  <2>2. ASSUME Entry(InKey(c), c) \in inbound[To[c]] PROVE FALSE
    <3>1. link[c].in \in {"answering", "closed"}
      BY <1>1, <2>2, EntriesDiffer DEF IInv, EntriesPlaced
    <3> QED BY <2>1, <2>2, <3>1 DEF IInv, Registered
  <2> QED BY <2>1, <2>2 DEF IInv, Registered
<1>3. /\ QueuesOK'
      /\ \A m \in Node : \A o, d : Queued(m, o, d)' <=>
           Queued(m, o, d) \/ (m = To[c] /\ o = "response" /\ d = c)
  BY <1>1, <1>2, EnqueueEffect DEF IInv, Reply
<1>4. /\ replier' = [replier EXCEPT ![c] = "waiting"] /\ replier[c] = "spawned"
      /\ UNCHANGED <<outbound, queries, channels, inbound, events, caller, answer, got,
                     link, taken>>
  BY DEF Reply
<1>5. MapsOK'
  BY <1>4 DEF IInv, MapsOK
<1>6. CommandsPlaced'
  BY <1>1, <1>2, <1>3, <1>4 DEF IInv, CommandsPlaced
<1>7. EntriesPlaced' /\ EntriesHeld' /\ ChannelHeld'
  BY <1>4 DEF IInv, EntriesPlaced, EntriesHeld, ChannelHeld
<1>8. StagesOK'
  BY <1>4 DEF IInv, StagesOK, MapsOK
<1>9. Registered'
  BY <1>1, <1>3, <1>4 DEF IInv, Registered, MapsOK, OpOf, Call
<1> QED BY <1>3, <1>5, <1>6, <1>7, <1>8, <1>9 DEF IInv

LEMMA SendRequestKeeps ==
  ASSUME IInv, NEW n \in Node, NEW c \in Request, SendRequest(n, c) PROVE IInv'
<1>1. /\ QueuesOK' /\ Queued(n, "request", c)
      /\ \A m \in Node : \A o, d : Queued(m, o, d)' <=>
           Queued(m, o, d) /\ ~(m = n /\ o = "request" /\ d = c)
  BY ReceiveEffect DEF IInv, SendRequest
<1>2. n = From[c] /\ link[c].out = "none" /\ OpOf(c) = "request" /\ \A d : OpOf(d) # "response"
  BY <1>1 DEF IInv, CommandsPlaced, OpOf, Call
<1>3. caller[c] = "waiting"
  BY <1>1, <1>2 DEF IInv, Registered
<1>4. /\ outbound' = [outbound EXCEPT ![n] = Put(@, OutKey(c), c)] /\ SetOut(c, "open")
      /\ UNCHANGED <<queries, channels, inbound, events, caller, replier, answer, got, taken>>
  BY DEF SendRequest
<1>5. /\ link' \in [Request \cup Query -> Link]
      /\ link'[c].out = "open" /\ link'[c].in = link[c].in
      /\ \A d \in Request \cup Query : d # c => link'[d] = link[d]
  BY <1>4, LinkEffect DEF IInv
<1>6. /\ \A m \in Node : m # n => outbound'[m] = outbound[m]
      /\ \A e \in outbound'[n] : \/ e \in outbound[n] /\ e.key # OutKey(c)
                                 \/ e = Entry(OutKey(c), c)
      /\ \A e \in outbound[n] : e.key # OutKey(c) => e \in outbound'[n]
      /\ Entry(OutKey(c), c) \in outbound'[n]
  BY <1>4 DEF IInv, MapsOK, Put
<1>7. MapsOK'
  <2>1. Entry(OutKey(c), c) \in EntryOf(Request)
    BY <1>2 DEF EntryOf, OutKey
  <2>2. outbound' \in [Node -> SUBSET EntryOf(Request)]
    BY <1>4, <2>1 DEF IInv, MapsOK, Put
  <2> QED BY <1>4, <1>5, <2>2 DEF IInv, MapsOK
<1>8. CommandsPlaced'
  BY <1>1, <1>2, <1>4, <1>5 DEF IInv, CommandsPlaced
<1>9. EntriesPlaced'
  <2>1. \A m \in Node : \A e \in outbound'[m] :
          m = From[e.call] /\ e.key = OutKey(e.call) /\ link'[e.call].out = "open"
    <3> SUFFICES ASSUME NEW m \in Node, NEW e \in outbound'[m]
                 PROVE  m = From[e.call] /\ e.key = OutKey(e.call) /\ link'[e.call].out = "open"
      OBVIOUS
    <3>1. CASE e = Entry(OutKey(c), c) /\ m = n
      BY <1>2, <1>5, <3>1, EntriesDiffer
    <3>2. CASE e \in outbound[m]
      <4>1. m = From[e.call] /\ e.key = OutKey(e.call) /\ link[e.call].out = "open"
        BY <3>2 DEF IInv, EntriesPlaced
      <4>2. e.call \in Request
        BY <3>2, EntriesDiffer DEF IInv, MapsOK, EntryOf
      <4> QED BY <1>2, <1>5, <4>1, <4>2
    <3> QED BY <1>6, <3>1, <3>2
  <2>2. \A m \in Node : \A e \in queries[m] : link'[e.call] = link[e.call]
    BY <1>5, EntriesDiffer DEF IInv, MapsOK
  <2>3. \A m \in Node : \A e \in channels[m] \cup inbound[m] : link'[e.call].in = link[e.call].in
    BY <1>5, EntriesDiffer DEF IInv, MapsOK, EntryOf
  <2> QED BY <1>4, <2>1, <2>2, <2>3 DEF IInv, EntriesPlaced
<1>10. EntriesHeld' /\ ChannelHeld'
  <2>1. ASSUME NEW d \in Request, link'[d].out = "open"
        PROVE  Entry(OutKey(d), d) \in outbound'[From[d]]
    <3>1. CASE d = c
      BY <1>2, <1>6, <3>1
    <3>2. CASE d # c
      <4>1. Entry(OutKey(d), d) \in outbound[From[d]]
        BY <1>5, <2>1, <3>2 DEF IInv, EntriesHeld
      <4>2. Entry(OutKey(d), d).key # OutKey(c) /\ From[d] \in Node
        BY <3>2, EntriesDiffer, KeysDiffer DEF Call
      <4> QED BY <1>6, <4>1, <4>2
    <3> QED BY <3>1, <3>2
  <2> QED BY <1>4, <1>5, <2>1 DEF IInv, EntriesHeld, ChannelHeld
<1>11. StagesOK'
  <2>1. \A d \in Request : link'[d].in = link[d].in
    BY <1>5
  <2>2. \A m \in Node : Range(events[m]) \subseteq Request
    BY EventsRange DEF IInv
  <2> QED BY <1>3, <1>4, <1>5, <2>1, <2>2 DEF IInv, StagesOK
<1>12. Registered'
  <2>1. ASSUME NEW d \in Request, d # c
        PROVE  Entry(OutKey(d), d) \in outbound'[From[d]] <=> Entry(OutKey(d), d) \in outbound[From[d]]
    BY <1>2, <1>6, <2>1, EntriesDiffer, KeysDiffer DEF Call
  <2> QED BY <1>1, <1>2, <1>3, <1>4, <1>5, <1>6, <2>1 DEF IInv, Registered, OpOf, Call
<1> QED BY <1>1, <1>7, <1>8, <1>9, <1>10, <1>11, <1>12 DEF IInv

LEMMA StartQueryKeeps ==
  ASSUME IInv, NEW n \in Node, NEW c \in Query, StartQuery(n, c) PROVE IInv'
<1>1. /\ QueuesOK' /\ Queued(n, "query", c)
      /\ \A m \in Node : \A o, d : Queued(m, o, d)' <=>
           Queued(m, o, d) /\ ~(m = n /\ o = "query" /\ d = c)
  BY ReceiveEffect DEF IInv, StartQuery
<1>2. n = From[c] /\ link[c].out = "none" /\ OpOf(c) = "query" /\ \A d : OpOf(d) # "response"
  BY <1>1 DEF IInv, CommandsPlaced, OpOf, Call
<1>3. caller[c] = "waiting"
  BY <1>1, <1>2 DEF IInv, Registered
<1>4. /\ queries' = [queries EXCEPT ![n] = Put(@, c, c)] /\ SetOut(c, "open")
      /\ UNCHANGED <<outbound, channels, inbound, events, caller, replier, answer, got, taken>>
  BY DEF StartQuery
<1>5. /\ link' \in [Request \cup Query -> Link] /\ link'[c].out = "open"
      /\ \A d \in Request \cup Query : d # c => link'[d] = link[d]
      /\ \A d \in Request : link'[d] = link[d]
  <2>1. /\ link' \in [Request \cup Query -> Link] /\ link'[c].out = "open"
        /\ \A d \in Request \cup Query : d # c => link'[d] = link[d]
    BY <1>4, LinkEffect DEF IInv
  <2> QED BY <2>1
<1>6. /\ \A m \in Node : m # n => queries'[m] = queries[m]
      /\ \A e \in queries'[n] : (e \in queries[n] /\ e.key # c) \/ e = Entry(c, c)
      /\ \A e \in queries[n] : e.key # c => e \in queries'[n]
      /\ Entry(c, c) \in queries'[n]
  <2>1. queries'[n] = Put(queries[n], c, c) /\ \A m \in Node : m # n => queries'[m] = queries[m]
    BY <1>4 DEF IInv, MapsOK
  <2> QED BY <2>1 DEF Put
<1>7. MapsOK'
  <2>1. queries' \in [Node -> SUBSET {Entry(d, d) : d \in Query}]
    BY <1>4 DEF IInv, MapsOK, Put
  <2> QED BY <1>4, <1>5, <2>1 DEF IInv, MapsOK
<1>8. CommandsPlaced'
  BY <1>1, <1>2, <1>4, <1>5 DEF IInv, CommandsPlaced
<1>9. EntriesPlaced'
  <2>1. \A m \in Node : \A e \in queries'[m] :
          m = From[e.call] /\ e.key = e.call /\ link'[e.call].out = "open"
    <3> SUFFICES ASSUME NEW m \in Node, NEW e \in queries'[m]
                 PROVE  m = From[e.call] /\ e.key = e.call /\ link'[e.call].out = "open"
      OBVIOUS
    <3>1. CASE e = Entry(c, c) /\ m = n
      BY <1>2, <1>5, <3>1, EntriesDiffer
    <3>2. CASE e \in queries[m]
      <4>1. m = From[e.call] /\ e.key = e.call /\ link[e.call].out = "open"
        BY <3>2 DEF IInv, EntriesPlaced
      <4>2. e.call \in Query
        BY <3>2, EntriesDiffer DEF IInv, MapsOK
      <4> QED BY <1>2, <1>5, <4>1, <4>2
    <3> QED BY <1>6, <3>1, <3>2
  <2>2. \A m \in Node : \A e \in outbound[m] \cup channels[m] \cup inbound[m] :
          link'[e.call] = link[e.call]
    BY <1>5, EntriesDiffer DEF IInv, MapsOK, EntryOf
  <2> QED BY <1>4, <2>1, <2>2 DEF IInv, EntriesPlaced
<1>10. EntriesHeld' /\ ChannelHeld'
  <2>1. ASSUME NEW d \in Query, link'[d].out = "open" PROVE Entry(d, d) \in queries'[From[d]]
    <3>1. CASE d = c
      BY <1>2, <1>6, <3>1
    <3>2. CASE d # c
      <4>1. Entry(d, d) \in queries[From[d]]
        BY <1>5, <2>1, <3>2 DEF IInv, EntriesHeld
      <4>2. Entry(d, d).key # c /\ From[d] \in Node
        BY <3>2, EntriesDiffer DEF Call
      <4> QED BY <1>6, <4>1, <4>2
    <3> QED BY <3>1, <3>2
  <2> QED BY <1>4, <1>5, <2>1 DEF IInv, EntriesHeld, ChannelHeld
<1>11. StagesOK'
  <2>1. \A d \in Request : link'[d].in = link[d].in
    BY <1>5
  <2>2. \A m \in Node : Range(events[m]) \subseteq Request
    BY EventsRange DEF IInv
  <2> QED BY <1>3, <1>4, <1>5, <2>1, <2>2 DEF IInv, StagesOK
<1>12. Registered'
  <2>1. ASSUME NEW d \in Query, d # c
        PROVE  Entry(d, d) \in queries'[From[d]] <=> Entry(d, d) \in queries[From[d]]
    BY <1>2, <1>6, <2>1, EntriesDiffer DEF Call
  <2> QED BY <1>1, <1>2, <1>3, <1>4, <1>5, <1>6, <2>1 DEF IInv, Registered, OpOf, Call
<1> QED BY <1>1, <1>7, <1>8, <1>9, <1>10, <1>11, <1>12 DEF IInv

(* A command the loop answers at once. *)
LEMMA AnsweredAtOnce ==
  ASSUME IInv, NEW n \in Node, NEW c \in Query \cup Direct, NEW r \in {"ok", "err"},
         Receives(n, OpOf(c), c), caller' = [caller EXCEPT ![c] = r],
         UNCHANGED <<outbound, queries, channels, inbound, events, replier, answer, got,
                     link, taken>>
  PROVE  IInv'
<1>1. /\ QueuesOK' /\ Queued(n, OpOf(c), c)
      /\ \A m \in Node : \A o, d : Queued(m, o, d)' <=>
           Queued(m, o, d) /\ ~(m = n /\ o = OpOf(c) /\ d = c)
  BY ReceiveEffect DEF IInv
<1>2. n = From[c] /\ (c \in Query => link[c].out = "none") /\ \A d : OpOf(d) # "response"
  BY <1>1 DEF IInv, CommandsPlaced, OpOf, Call
<1>3. c \in Call /\ c \notin Request
  BY DEF Call
<1>4. MapsOK'
  BY <1>3 DEF IInv, MapsOK
<1>5. CommandsPlaced'
  BY <1>1 DEF IInv, CommandsPlaced
<1>6. EntriesPlaced' /\ EntriesHeld' /\ ChannelHeld'
  BY DEF IInv, EntriesPlaced, EntriesHeld, ChannelHeld
<1>7. StagesOK'
  BY <1>3 DEF IInv, StagesOK, MapsOK, Call
<1>8. Registered'
  BY <1>1, <1>2, <1>3 DEF IInv, Registered, MapsOK, OpOf, Call
<1> QED BY <1>1, <1>4, <1>5, <1>6, <1>7, <1>8 DEF IInv

(* The end of a request at its caller, who finds its sender. *)
LEMMA OutboundEnds ==
  ASSUME IInv, NEW c \in Request, link[c].out = "open", NEW r \in {"ok", "err"},
         caller' = Resolve(caller, Found(outbound[From[c]], OutKey(c)), r),
         got' \in [Request -> {{}, {"Ack"}, {"Bad"}}],
         outbound' = [outbound EXCEPT ![From[c]] = Drop(@, OutKey(c))], SetOut(c, "done"),
         UNCHANGED <<commands, queries, channels, inbound, events, replier, answer, taken>>
  PROVE  IInv' /\ caller[c] = "waiting" /\ caller' = [caller EXCEPT ![c] = r]
<1>1. From[c] \in Node /\ caller \in [Call -> {"idle", "waiting", "ok", "err"}] /\ c \in Call
  BY DEF IInv, MapsOK, Call
<1>2. caller' = [caller EXCEPT ![c] = r]
  <2>1. Found(outbound[From[c]], OutKey(c)) = {c}
    BY FoundHere DEF IInv
  <2> QED BY <1>1, <2>1 DEF Resolve
<1>3. Entry(OutKey(c), c) \in outbound[From[c]] /\ caller[c] = "waiting"
  BY DEF IInv, EntriesHeld, Registered
<1>4. /\ link' \in [Request \cup Query -> Link]
      /\ link'[c].out = "done" /\ link'[c].in = link[c].in
      /\ \A d \in Request \cup Query : d # c => link'[d] = link[d]
  BY LinkEffect DEF IInv
<1>5. /\ \A m \in Node : m # From[c] => outbound'[m] = outbound[m]
      /\ \A e \in outbound'[From[c]] : e \in outbound[From[c]] /\ e.key # OutKey(c)
      /\ \A e \in outbound[From[c]] : e.key # OutKey(c) => e \in outbound'[From[c]]
  <2>1. /\ outbound'[From[c]] = Drop(outbound[From[c]], OutKey(c))
        /\ \A m \in Node : m # From[c] => outbound'[m] = outbound[m]
    BY <1>1 DEF IInv, MapsOK
  <2> QED BY <2>1 DEF Drop
<1>6. QueuesOK' /\ (\A m \in Node : \A o, d : Queued(m, o, d)' <=> Queued(m, o, d))
  BY DEF IInv, QueuesOK, Queued
<1>7. MapsOK'
  <2>1. outbound' \in [Node -> SUBSET EntryOf(Request)]
    BY <1>1 DEF IInv, MapsOK, Drop
  <2> QED BY <1>1, <1>2, <1>4, <2>1 DEF IInv, MapsOK
<1>8. CommandsPlaced'
  <2>1. \A n \in Node : ~Queued(n, OpOf(c), c)
    BY DEF IInv, CommandsPlaced, Call
  <2> QED BY <1>4, <1>6, <2>1 DEF IInv, CommandsPlaced
<1>9. EntriesPlaced'
  <2>1. \A m \in Node : \A e \in outbound'[m] :
          m = From[e.call] /\ e.key = OutKey(e.call) /\ link'[e.call].out = "open"
    <3> SUFFICES ASSUME NEW m \in Node, NEW e \in outbound'[m]
                 PROVE  m = From[e.call] /\ e.key = OutKey(e.call) /\ link'[e.call].out = "open"
      OBVIOUS
    <3>1. e \in outbound[m] /\ (m = From[c] => e.key # OutKey(c))
      BY <1>5
    <3>2. m = From[e.call] /\ e.key = OutKey(e.call) /\ link[e.call].out = "open"
      BY <3>1 DEF IInv, EntriesPlaced
    <3>3. e.call \in Request /\ e.call # c
      BY <3>1, <3>2, EntriesDiffer DEF IInv, MapsOK, EntryOf
    <3> QED BY <1>4, <3>2, <3>3
  <2>2. \A m \in Node : \A e \in queries[m] : link'[e.call] = link[e.call]
    BY <1>4, EntriesDiffer DEF IInv, MapsOK
  <2>3. \A m \in Node : \A e \in channels[m] \cup inbound[m] : link'[e.call].in = link[e.call].in
    BY <1>4, EntriesDiffer DEF IInv, MapsOK, EntryOf
  <2> QED BY <2>1, <2>2, <2>3 DEF IInv, EntriesPlaced
<1>10. \A d \in Request : d # c => (Entry(OutKey(d), d) \in outbound'[From[d]]
                                    <=> Entry(OutKey(d), d) \in outbound[From[d]])
  <2> SUFFICES ASSUME NEW d \in Request, d # c
               PROVE  Entry(OutKey(d), d) \in outbound'[From[d]]
                        <=> Entry(OutKey(d), d) \in outbound[From[d]]
    OBVIOUS
  <2>1. Entry(OutKey(d), d).key # OutKey(c) /\ From[d] \in Node
    BY EntriesDiffer, KeysDiffer DEF Call
  <2> QED BY <1>5, <2>1
<1>11. EntriesHeld' /\ ChannelHeld'
  <2>1. \A d \in Query : link'[d] = link[d]
    BY <1>4
  <2>2. \A d \in Request : link'[d].in = link[d].in /\ (d # c => link'[d].out = link[d].out)
    BY <1>4
  <2> QED BY <1>4, <1>10, <2>1, <2>2 DEF IInv, EntriesHeld, ChannelHeld
<1>12. StagesOK'
  <2>1. \A d \in Request : link'[d].in = link[d].in
    BY <1>4
  <2>2. \A m \in Node : Range(events[m]) \subseteq Request
    BY EventsRange DEF IInv
  <2>3. \A d \in Call : caller'[d] = "idle" <=> caller[d] = "idle"
    BY <1>1, <1>2, <1>3
  <2> QED BY <1>3, <1>4, <2>1, <2>2, <2>3 DEF IInv, StagesOK, Call
<1>13. Registered'
  <2>1. \A n \in Node : ~Queued(n, OpOf(c), c) /\ OpOf(c) = "request"
    BY DEF IInv, CommandsPlaced, Call, OpOf
  <2>2. \A d \in Call : caller'[d] = IF d = c THEN r ELSE caller[d]
    BY <1>1, <1>2
  <2>3. \A d \in Request : link'[d].in = link[d].in /\ (d # c => link'[d].out = link[d].out)
    BY <1>4
  <2>4. \A d \in Query : d # c /\ link'[d] = link[d]
    BY <1>4
  <2> QED BY <1>1, <1>4, <1>6, <1>10, <2>1, <2>2, <2>3, <2>4 DEF IInv, Registered, Call
<1> QED BY <1>2, <1>3, <1>6, <1>7, <1>8, <1>9, <1>11, <1>12, <1>13 DEF IInv

LEMMA ResponseArrivesKeeps ==
  ASSUME IInv, NEW c \in Request, ResponseArrives(c)
  PROVE  /\ IInv' /\ caller[c] = "waiting" /\ caller' = [caller EXCEPT ![c] = "ok"]
         /\ got' = [got EXCEPT ![c] = answer[c]] /\ answer[c] # {}
<1>1. got' = [got EXCEPT ![c] = answer[c]]
  <2>1. Found(outbound[From[c]], OutKey(c)) = {c}
    BY FoundHere DEF IInv, ResponseArrives
  <2> QED BY <2>1 DEF ResponseArrives, Resolve, IInv, MapsOK
<1>2. got' \in [Request -> {{}, {"Ack"}, {"Bad"}}]
  BY <1>1 DEF IInv, MapsOK
<1>3. answer[c] # {}
  BY DEF ResponseArrives, IInv, StagesOK
<1> QED BY <1>1, <1>2, <1>3, OutboundEnds DEF ResponseArrives

LEMMA OutboundFailureKeeps ==
  ASSUME IInv, NEW c \in Request, OutboundFailure(c)
  PROVE  IInv' /\ caller[c] = "waiting" /\ caller' = [caller EXCEPT ![c] = "err"]
<1>1. got' \in [Request -> {{}, {"Ack"}, {"Bad"}}]
  BY DEF OutboundFailure, IInv, MapsOK
<1> QED BY <1>1, OutboundEnds DEF OutboundFailure

(* The end of a request at the peer, before or after the answer was handed over. *)
LEMMA InboundEnds ==
  ASSUME IInv, NEW c \in Request, link[c].in \in {"open", "answering"},
         NEW r \in {"ok", "err"}, NEW v \in {"closed", "sent", "cut"},
         link[c].in = "open" <=> v = "closed", SetIn(c, v),
         replier' = Resolve(replier, Found(inbound[To[c]], InKey(c)), r),
         inbound' = [inbound EXCEPT ![To[c]] = Drop(@, InKey(c))],
         UNCHANGED <<commands, outbound, queries, channels, events, caller, answer, got, taken>>
  PROVE  IInv'
<1>1. To[c] \in Node /\ replier \in [Request -> {"none", "spawned", "waiting", "ok", "err"}]
  BY DEF IInv, MapsOK
<1>2. link[c].in = "answering" <=> Entry(InKey(c), c) \in inbound[To[c]]
  BY <1>1, EntriesDiffer DEF IInv, EntriesHeld, EntriesPlaced
<1>3. /\ link[c].in = "answering" =>
           /\ replier' = [replier EXCEPT ![c] = r] /\ replier[c] = "waiting"
           /\ ~Queued(To[c], "response", c)
      /\ link[c].in = "open" => replier' = replier
  <2>1. Found(inbound[To[c]], InKey(c)) = IF link[c].in = "answering" THEN {c} ELSE {}
    BY <1>2, FoundHere DEF IInv
  <2>2. link[c].in = "answering" => replier[c] = "waiting" /\ ~Queued(To[c], "response", c)
    BY <1>1, <1>2 DEF IInv, Registered, CommandsPlaced
  <2>3. link[c].in = "answering" => replier' = [replier EXCEPT ![c] = r]
    BY <1>1, <2>1 DEF Resolve
  <2>4. link[c].in = "open" => replier' = replier
    BY <1>1, <2>1 DEF Resolve
  <2> QED BY <2>2, <2>3, <2>4
<1>4. /\ link' \in [Request \cup Query -> Link]
      /\ link'[c].in = v /\ link'[c].out = link[c].out
      /\ \A d \in Request \cup Query : d # c => link'[d] = link[d]
  BY LinkEffect DEF IInv
<1>5. /\ \A m \in Node : m # To[c] => inbound'[m] = inbound[m]
      /\ \A e \in inbound'[To[c]] : e \in inbound[To[c]] /\ e.key # InKey(c)
      /\ \A e \in inbound[To[c]] : e.key # InKey(c) => e \in inbound'[To[c]]
  <2>1. /\ inbound'[To[c]] = Drop(inbound[To[c]], InKey(c))
        /\ \A m \in Node : m # To[c] => inbound'[m] = inbound[m]
    BY <1>1 DEF IInv, MapsOK
  <2> QED BY <2>1 DEF Drop
<1>6. QueuesOK' /\ (\A m \in Node : \A o, d : Queued(m, o, d)' <=> Queued(m, o, d))
  BY DEF IInv, QueuesOK, Queued
<1>7. MapsOK'
  <2>1. inbound' \in [Node -> SUBSET EntryOf(Request)]
    BY <1>1 DEF IInv, MapsOK, Drop
  <2>2. replier' \in [Request -> {"none", "spawned", "waiting", "ok", "err"}]
    BY <1>1, <1>3
  <2> QED BY <1>4, <2>1, <2>2 DEF IInv, MapsOK
<1>o. \A d \in Request \cup Query : link'[d].out = link[d].out
  BY <1>4
<1>8. CommandsPlaced'
  <2>1. \A d \in Request : Entry(InKey(d), d) \in inbound'[To[d]] => Entry(InKey(d), d) \in inbound[To[d]]
    BY <1>5 DEF IInv, MapsOK
  <2> QED BY <1>o, <1>6, <2>1 DEF IInv, CommandsPlaced
<1>9. EntriesPlaced'
  <2>1. \A m \in Node : \A e \in inbound'[m] :
          m = To[e.call] /\ e.key = InKey(e.call) /\ link'[e.call].in \in {"answering", "closed"}
    <3> SUFFICES ASSUME NEW m \in Node, NEW e \in inbound'[m]
                 PROVE  /\ m = To[e.call] /\ e.key = InKey(e.call)
                        /\ link'[e.call].in \in {"answering", "closed"}
      OBVIOUS
    <3>1. e \in inbound[m] /\ (m = To[c] => e.key # InKey(c))
      BY <1>5
    <3>2. m = To[e.call] /\ e.key = InKey(e.call) /\ link[e.call].in \in {"answering", "closed"}
      BY <3>1 DEF IInv, EntriesPlaced
    <3>3. e.call \in Request /\ e.call # c
      BY <3>1, <3>2, EntriesDiffer DEF IInv, MapsOK, EntryOf
    <3> QED BY <1>4, <3>2, <3>3
  <2>2. \A m \in Node : \A e \in queries[m] \cup outbound[m] : link'[e.call].out = link[e.call].out
    BY <1>o, EntriesDiffer DEF IInv, MapsOK, EntryOf
  <2>3. \A m \in Node : \A e \in channels[m] :
          m = To[e.call] /\ e.key = InKey(e.call) /\ link'[e.call].in \in {"open", "closed"}
    <3> SUFFICES ASSUME NEW m \in Node, NEW e \in channels[m]
                 PROVE  /\ m = To[e.call] /\ e.key = InKey(e.call)
                        /\ link'[e.call].in \in {"open", "closed"}
      OBVIOUS
    <3>1. m = To[e.call] /\ e.key = InKey(e.call) /\ link[e.call].in \in {"open", "closed"}
      BY DEF IInv, EntriesPlaced
    <3>2. e.call \in Request
      BY EntriesDiffer DEF IInv, MapsOK, EntryOf
    <3> QED BY <1>4, <3>1, <3>2
  <2> QED BY <2>1, <2>2, <2>3 DEF IInv, EntriesPlaced
<1>10. \A d \in Request : d # c => (Entry(InKey(d), d) \in inbound'[To[d]]
                                    <=> Entry(InKey(d), d) \in inbound[To[d]])
  <2> SUFFICES ASSUME NEW d \in Request, d # c
               PROVE  Entry(InKey(d), d) \in inbound'[To[d]]
                        <=> Entry(InKey(d), d) \in inbound[To[d]]
    OBVIOUS
  <2>1. Entry(InKey(d), d).key # InKey(c) /\ To[d] \in Node
    BY EntriesDiffer, KeysDiffer
  <2> QED BY <1>5, <2>1
<1>11. EntriesHeld' /\ ChannelHeld'
  <2>1. \A d \in Request : d # c => link'[d].in = link[d].in
    BY <1>4
  <2> QED BY <1>o, <1>4, <1>10, <2>1 DEF IInv, EntriesHeld, ChannelHeld
<1>12. StagesOK'
  <2>1. \A d \in Request : d # c => link'[d].in = link[d].in /\ replier'[d] = replier[d]
    BY <1>1, <1>3, <1>4
  <2>2. \A m \in Node : Range(events[m]) \subseteq Request
    BY EventsRange DEF IInv
  <2>3. link[c].in = "answering" => replier'[c] = r
    BY <1>1, <1>3
  <2> QED BY <1>o, <1>3, <1>4, <2>1, <2>2, <2>3 DEF IInv, StagesOK
<1>13. Registered'
  <2>1. \A d \in Request : d # c => link'[d].in = link[d].in /\ replier'[d] = replier[d]
    BY <1>1, <1>3, <1>4
  <2>2. Entry(InKey(c), c) \notin inbound'[To[c]]
    BY <1>5, EntriesDiffer
  <2>3. replier'[c] = "waiting" <=> Queued(To[c], "response", c)
    BY <1>1, <1>2, <1>3 DEF IInv, Registered
  <2> QED BY <1>o, <1>1, <1>6, <1>10, <2>1, <2>2, <2>3 DEF IInv, Registered, Call
<1> QED BY <1>6, <1>7, <1>8, <1>9, <1>11, <1>12, <1>13 DEF IInv

LEMMA ResponseSentKeeps == ASSUME IInv, NEW c \in Request, ResponseSent(c) PROVE IInv'
  BY InboundEnds DEF ResponseSent

LEMMA InboundFailureKeeps == ASSUME IInv, NEW c \in Request, InboundFailure(c) PROVE IInv'
<1>1. CASE link[c].in = "open"
  BY <1>1, InboundEnds DEF InboundFailure
<1>2. CASE link[c].in = "answering"
  BY <1>2, InboundEnds DEF InboundFailure
<1> QED BY <1>1, <1>2 DEF InboundFailure

LEMMA QueryCompletedKeeps == ASSUME IInv, NEW c \in Query, QueryCompleted(c) PROVE IInv'
<1>1. PICK r \in {"ok", "err"} : caller' = Resolve(caller, Found(queries[From[c]], c), r)
  BY DEF QueryCompleted
<1>2. /\ queries' = [queries EXCEPT ![From[c]] = Drop(@, c)] /\ SetOut(c, "done")
      /\ UNCHANGED <<commands, outbound, channels, inbound, events, replier, answer, got, taken>>
      /\ link[c].out = "open"
  BY DEF QueryCompleted
<1>3. From[c] \in Node /\ caller \in [Call -> {"idle", "waiting", "ok", "err"}] /\ c \in Call
  BY DEF IInv, MapsOK, Call
<1>4. caller' = [caller EXCEPT ![c] = r]
  <2>1. Found(queries[From[c]], c) = {c}
    BY <1>2, FoundHere DEF IInv
  <2> QED BY <1>1, <1>3, <2>1 DEF Resolve
<1>5. caller[c] = "waiting"
  BY <1>2 DEF IInv, EntriesHeld, Registered
<1>6. /\ link' \in [Request \cup Query -> Link] /\ link'[c].out = "done"
      /\ \A d \in Request \cup Query : d # c => link'[d] = link[d]
  BY <1>2, LinkEffect DEF IInv
<1>7. \A d \in Request : d # c /\ link'[d] = link[d]
  BY <1>6
<1>8. /\ \A m \in Node : m # From[c] => queries'[m] = queries[m]
      /\ \A e \in queries'[From[c]] : e \in queries[From[c]] /\ e.key # c
      /\ \A e \in queries[From[c]] : e.key # c => e \in queries'[From[c]]
  <2>1. /\ queries'[From[c]] = Drop(queries[From[c]], c)
        /\ \A m \in Node : m # From[c] => queries'[m] = queries[m]
    BY <1>2, <1>3 DEF IInv, MapsOK
  <2> QED BY <2>1 DEF Drop
<1>9. QueuesOK' /\ (\A m \in Node : \A o, d : Queued(m, o, d)' <=> Queued(m, o, d))
  BY <1>2 DEF IInv, QueuesOK, Queued
<1>10. MapsOK'
  <2>1. queries' \in [Node -> SUBSET {Entry(d, d) : d \in Query}]
    BY <1>2, <1>3 DEF IInv, MapsOK, Drop
  <2> QED BY <1>2, <1>3, <1>4, <1>6, <2>1 DEF IInv, MapsOK
<1>11. \A n \in Node : ~Queued(n, OpOf(c), c)
  BY <1>2 DEF IInv, CommandsPlaced, Call
<1>12. CommandsPlaced'
  BY <1>2, <1>6, <1>9, <1>11 DEF IInv, CommandsPlaced
<1>13. EntriesPlaced'
  <2>1. \A m \in Node : \A e \in queries'[m] :
          m = From[e.call] /\ e.key = e.call /\ link'[e.call].out = "open"
    <3> SUFFICES ASSUME NEW m \in Node, NEW e \in queries'[m]
                 PROVE  m = From[e.call] /\ e.key = e.call /\ link'[e.call].out = "open"
      OBVIOUS
    <3>1. e \in queries[m] /\ (m = From[c] => e.key # c)
      BY <1>8
    <3>2. m = From[e.call] /\ e.key = e.call /\ link[e.call].out = "open"
      BY <3>1 DEF IInv, EntriesPlaced
    <3>3. e.call \in Query /\ e.call # c
      BY <3>1, <3>2, EntriesDiffer DEF IInv, MapsOK
    <3> QED BY <1>6, <3>2, <3>3
  <2>2. \A m \in Node : \A e \in outbound[m] \cup channels[m] \cup inbound[m] :
          link'[e.call] = link[e.call]
    BY <1>7, EntriesDiffer DEF IInv, MapsOK, EntryOf
  <2> QED BY <1>2, <2>1, <2>2 DEF IInv, EntriesPlaced
<1>14. \A d \in Query : d # c => (Entry(d, d) \in queries'[From[d]]
                                  <=> Entry(d, d) \in queries[From[d]])
  <2> SUFFICES ASSUME NEW d \in Query, d # c
               PROVE  Entry(d, d) \in queries'[From[d]] <=> Entry(d, d) \in queries[From[d]]
    OBVIOUS
  <2>1. Entry(d, d).key # c /\ From[d] \in Node
    BY EntriesDiffer DEF Call
  <2> QED BY <1>8, <2>1
<1>15. EntriesHeld' /\ ChannelHeld'
  BY <1>2, <1>6, <1>7, <1>14 DEF IInv, EntriesHeld, ChannelHeld
<1>16. StagesOK'
  <2>1. \A m \in Node : Range(events[m]) \subseteq Request
    BY EventsRange DEF IInv
  <2>2. \A d \in Call : caller'[d] = "idle" <=> caller[d] = "idle"
    BY <1>3, <1>4, <1>5
  <2> QED BY <1>2, <1>5, <1>6, <1>7, <2>1, <2>2 DEF IInv, StagesOK, Call
<1>17. Registered'
  <2>1. \A d \in Call : caller'[d] = IF d = c THEN r ELSE caller[d]
    BY <1>3, <1>4
  <2>2. \A d \in Direct : d # c
    OBVIOUS
  <2>3. OpOf(c) = "query"
    BY DEF OpOf
  <2> QED BY <1>2, <1>3, <1>6, <1>7, <1>9, <1>11, <1>14, <2>1, <2>2, <2>3
          DEF IInv, Registered, Call
<1> QED BY <1>9, <1>10, <1>12, <1>13, <1>15, <1>16, <1>17 DEF IInv

LEMMA SendResponseKeeps ==
  ASSUME IInv, NEW n \in Node, NEW c \in Request, SendResponse(n, c) PROVE IInv'
<1>1. /\ QueuesOK' /\ Queued(n, "response", c)
      /\ \A m \in Node : \A o, d : Queued(m, o, d)' <=>
           Queued(m, o, d) /\ ~(m = n /\ o = "response" /\ d = c)
  BY ReceiveEffect DEF IInv, SendResponse
<1>2. /\ n = To[c] /\ Entry(InKey(c), c) \notin inbound[n] /\ \A d : OpOf(d) # "response"
      /\ replier[c] = "waiting"
      /\ replier \in [Request -> {"none", "spawned", "waiting", "ok", "err"}]
  BY <1>1 DEF IInv, CommandsPlaced, OpOf, Registered, MapsOK
<1>3. UNCHANGED <<outbound, queries, events, caller, answer, got, taken>>
  BY DEF SendResponse
<1>e. \A m \in Node : Range(events[m]) \subseteq Request
  BY EventsRange DEF IInv
<1>4. CASE Entry(InKey(c), c) \in channels[n]
  <2> DEFINE v == IF link[c].in = "open" THEN "answering" ELSE link[c].in
  <2>1. /\ channels' = [channels EXCEPT ![n] = Drop(@, InKey(c))]
        /\ inbound' = [inbound EXCEPT ![n] = Put(@, InKey(c), c)]
        /\ SetIn(c, v) /\ UNCHANGED replier
    BY <1>4, FoundHere DEF IInv, SendResponse
  <2>2. link[c].in \in {"open", "closed"} /\ v \in {"answering", "closed"}
    BY <1>4, EntriesDiffer DEF IInv, EntriesPlaced
  <2> HIDE DEF v
  <2>3. /\ link' \in [Request \cup Query -> Link]
        /\ link'[c].in = v /\ link'[c].out = link[c].out
        /\ \A d \in Request \cup Query : d # c => link'[d] = link[d]
    BY <2>1, <2>2, LinkEffect DEF IInv
  <2>4. \A d \in Request \cup Query : link'[d].out = link[d].out
    BY <2>3
  <2>5. /\ \A m \in Node : m # n => channels'[m] = channels[m] /\ inbound'[m] = inbound[m]
        /\ channels'[n] = Drop(channels[n], InKey(c))
        /\ inbound'[n] = Put(inbound[n], InKey(c), c)
    BY <2>1 DEF IInv, MapsOK
  <2>6. /\ \A e \in channels'[n] : e \in channels[n] /\ e.key # InKey(c)
        /\ \A e \in channels[n] : e.key # InKey(c) => e \in channels'[n]
        /\ \A e \in inbound'[n] : \/ e \in inbound[n] /\ e.key # InKey(c)
                                  \/ e = Entry(InKey(c), c)
        /\ \A e \in inbound[n] : e.key # InKey(c) => e \in inbound'[n]
        /\ Entry(InKey(c), c) \in inbound'[n]
    BY <2>5 DEF Put, Drop
  <2>7. \A d \in Request : d # c =>
          /\ Entry(InKey(d), d) \in inbound'[To[d]] <=> Entry(InKey(d), d) \in inbound[To[d]]
          /\ Entry(InKey(d), d) \in channels'[To[d]] <=> Entry(InKey(d), d) \in channels[To[d]]
    <3> SUFFICES ASSUME NEW d \in Request, d # c
                 PROVE  /\ Entry(InKey(d), d) \in inbound'[To[d]]
                             <=> Entry(InKey(d), d) \in inbound[To[d]]
                        /\ Entry(InKey(d), d) \in channels'[To[d]]
                             <=> Entry(InKey(d), d) \in channels[To[d]]
      OBVIOUS
    <3>1. /\ Entry(InKey(d), d).key # InKey(c) /\ To[d] \in Node
          /\ Entry(InKey(d), d) # Entry(InKey(c), c)
      BY EntriesDiffer, KeysDiffer
    <3> QED BY <2>5, <2>6, <3>1
  <2>8. MapsOK'
    <3>1. Entry(InKey(c), c) \in EntryOf(Request)
      <4>1. From[c] \in Node
        BY DEF Call
      <4> QED BY <4>1 DEF EntryOf, InKey
    <3>2. /\ channels' \in [Node -> SUBSET EntryOf(Request)]
          /\ inbound' \in [Node -> SUBSET EntryOf(Request)]
      BY <2>1, <3>1 DEF IInv, MapsOK, Drop, Put
    <3> QED BY <1>3, <2>1, <2>3, <3>2 DEF IInv, MapsOK
  <2>9. CommandsPlaced'
    <3>1. ~Queued(n, "response", c)'
      BY <1>1
    <3> QED BY <1>1, <1>2, <2>4, <2>7, <3>1 DEF IInv, CommandsPlaced
  <2>10. EntriesPlaced'
    <3>1. \A m \in Node : \A e \in inbound'[m] :
            m = To[e.call] /\ e.key = InKey(e.call) /\ link'[e.call].in \in {"answering", "closed"}
      <4> SUFFICES ASSUME NEW m \in Node, NEW e \in inbound'[m]
                   PROVE  /\ m = To[e.call] /\ e.key = InKey(e.call)
                          /\ link'[e.call].in \in {"answering", "closed"}
        OBVIOUS
      <4>1. CASE e = Entry(InKey(c), c) /\ m = n
        BY <1>2, <2>2, <2>3, <4>1, EntriesDiffer
      <4>2. CASE e \in inbound[m] /\ (m = n => e.key # InKey(c))
        <5>1. m = To[e.call] /\ e.key = InKey(e.call) /\ link[e.call].in \in {"answering", "closed"}
          BY <4>2 DEF IInv, EntriesPlaced
        <5>2. e.call \in Request /\ e.call # c
          BY <1>2, <4>2, <5>1, EntriesDiffer DEF IInv, MapsOK, EntryOf
        <5> QED BY <2>3, <5>1, <5>2
      <4> QED BY <2>5, <2>6, <4>1, <4>2
    <3>2. \A m \in Node : \A e \in queries[m] \cup outbound[m] : link'[e.call].out = link[e.call].out
      BY <2>4, EntriesDiffer DEF IInv, MapsOK, EntryOf
    <3>3. \A m \in Node : \A e \in channels'[m] :
            m = To[e.call] /\ e.key = InKey(e.call) /\ link'[e.call].in \in {"open", "closed"}
      <4> SUFFICES ASSUME NEW m \in Node, NEW e \in channels'[m]
                   PROVE  /\ m = To[e.call] /\ e.key = InKey(e.call)
                          /\ link'[e.call].in \in {"open", "closed"}
        OBVIOUS
      <4>1. e \in channels[m] /\ (m = n => e.key # InKey(c))
        BY <2>5, <2>6
      <4>2. m = To[e.call] /\ e.key = InKey(e.call) /\ link[e.call].in \in {"open", "closed"}
        BY <4>1 DEF IInv, EntriesPlaced
      <4>3. e.call \in Request /\ e.call # c
        BY <1>2, <4>1, <4>2, EntriesDiffer DEF IInv, MapsOK, EntryOf
      <4> QED BY <2>3, <4>2, <4>3
    <3> QED BY <1>3, <3>1, <3>2, <3>3 DEF IInv, EntriesPlaced
  <2>11. EntriesHeld' /\ ChannelHeld'
    <3>1. \A d \in Request : d # c => link'[d].in = link[d].in
      BY <2>3
    <3> QED BY <1>2, <1>3, <2>2, <2>3, <2>4, <2>6, <2>7, <3>1 DEF IInv, EntriesHeld, ChannelHeld
  <2>12. StagesOK'
    <3>1. \A d \in Request : d # c => link'[d].in = link[d].in
      BY <2>3
    <3> QED BY <1>2, <1>3, <1>e, <2>1, <2>2, <2>3, <2>4, <3>1 DEF IInv, StagesOK
  <2>13. Registered'
    <3>1. \A d \in Request : d # c => link'[d].in = link[d].in
      BY <2>3
    <3> QED BY <1>1, <1>2, <1>3, <2>1, <2>2, <2>3, <2>4, <2>6, <2>7, <3>1
            DEF IInv, Registered, Call
  <2> QED BY <1>1, <2>8, <2>9, <2>10, <2>11, <2>12, <2>13 DEF IInv
<1>5. CASE Entry(InKey(c), c) \notin channels[n]
  <2>1. replier' = [replier EXCEPT ![c] = "err"] /\ UNCHANGED <<channels, inbound, link>>
    BY <1>5, FoundHere DEF IInv, SendResponse
  <2>2. MapsOK'
    BY <1>2, <1>3, <2>1 DEF IInv, MapsOK
  <2>3. CommandsPlaced'
    BY <1>1, <1>3, <2>1 DEF IInv, CommandsPlaced
  <2>4. EntriesPlaced' /\ EntriesHeld' /\ ChannelHeld'
    BY <1>3, <2>1 DEF IInv, EntriesPlaced, EntriesHeld, ChannelHeld
  <2>5. StagesOK'
    BY <1>2, <1>3, <2>1 DEF IInv, StagesOK
  <2>6. Registered'
    BY <1>1, <1>2, <1>3, <2>1 DEF IInv, Registered, Call
  <2> QED BY <1>1, <2>2, <2>3, <2>4, <2>5, <2>6 DEF IInv
<1> QED BY <1>4, <1>5

LEMMA RequestArrivesKeeps == ASSUME IInv, NEW c \in Request, RequestArrives(c) PROVE IInv'
<1>1. /\ link[c].out # "none" /\ link[c].in = "none"
      /\ channels' = [channels EXCEPT ![To[c]] = Put(@, InKey(c), c)]
      /\ Broadcast(To[c], c) /\ SetIn(c, "open")
      /\ UNCHANGED <<commands, outbound, queries, inbound, caller, replier, answer, got, taken>>
  BY DEF RequestArrives
<1>2. To[c] \in Node /\ c \notin Range(events[To[c]]) /\ c \notin taken
  BY <1>1 DEF IInv, StagesOK
<1>3. /\ QueuesOK'
      /\ \A m \in Node : Range(events'[m]) \subseteq
           Range(events[m]) \cup (IF m = To[c] THEN {c} ELSE {})
  BY <1>1, <1>2, BroadcastEffect DEF IInv
<1>4. \A m \in Node : \A o, d : Queued(m, o, d)' <=> Queued(m, o, d)
  BY <1>1 DEF Queued
<1>5. /\ link' \in [Request \cup Query -> Link]
      /\ link'[c].in = "open" /\ link'[c].out = link[c].out
      /\ \A d \in Request \cup Query : d # c => link'[d] = link[d]
  BY <1>1, LinkEffect DEF IInv
<1>6. /\ \A d \in Request \cup Query : link'[d].out = link[d].out
      /\ \A d \in Request : d # c => link'[d].in = link[d].in
  BY <1>5
<1>7. /\ \A m \in Node : m # To[c] => channels'[m] = channels[m]
      /\ \A e \in channels'[To[c]] : \/ e \in channels[To[c]] /\ e.key # InKey(c)
                                     \/ e = Entry(InKey(c), c)
      /\ \A e \in channels[To[c]] : e.key # InKey(c) => e \in channels'[To[c]]
      /\ Entry(InKey(c), c) \in channels'[To[c]]
  <2>1. /\ channels'[To[c]] = Put(channels[To[c]], InKey(c), c)
        /\ \A m \in Node : m # To[c] => channels'[m] = channels[m]
    BY <1>1, <1>2 DEF IInv, MapsOK
  <2> QED BY <2>1 DEF Put
<1>8. MapsOK'
  <2>1. Entry(InKey(c), c) \in EntryOf(Request)
    <3>1. From[c] \in Node
      BY DEF Call
    <3> QED BY <3>1 DEF EntryOf, InKey
  <2>2. channels' \in [Node -> SUBSET EntryOf(Request)]
    BY <1>1, <2>1 DEF IInv, MapsOK, Put
  <2> QED BY <1>1, <1>5, <2>2 DEF IInv, MapsOK
<1>9. CommandsPlaced'
  BY <1>1, <1>4, <1>6 DEF IInv, CommandsPlaced
<1>10. EntriesPlaced'
  <2>1. \A m \in Node : \A e \in inbound[m] : link'[e.call].in = link[e.call].in
    <3> SUFFICES ASSUME NEW m \in Node, NEW e \in inbound[m]
                 PROVE  link'[e.call].in = link[e.call].in
      OBVIOUS
    <3>1. e.call \in Request
      BY EntriesDiffer DEF IInv, MapsOK, EntryOf
    <3>2. link[e.call].in # "none"
      BY DEF IInv, EntriesPlaced
    <3> QED BY <1>1, <1>6, <3>1, <3>2
  <2>2. \A m \in Node : \A e \in queries[m] \cup outbound[m] : link'[e.call].out = link[e.call].out
    BY <1>6, EntriesDiffer DEF IInv, MapsOK, EntryOf
  <2>3. \A m \in Node : \A e \in channels'[m] :
          m = To[e.call] /\ e.key = InKey(e.call) /\ link'[e.call].in \in {"open", "closed"}
    <3> SUFFICES ASSUME NEW m \in Node, NEW e \in channels'[m]
                 PROVE  /\ m = To[e.call] /\ e.key = InKey(e.call)
                        /\ link'[e.call].in \in {"open", "closed"}
      OBVIOUS
    <3>1. CASE e = Entry(InKey(c), c) /\ m = To[c]
      BY <1>5, <3>1, EntriesDiffer
    <3>2. CASE e \in channels[m]
      <4>1. m = To[e.call] /\ e.key = InKey(e.call) /\ link[e.call].in \in {"open", "closed"}
        BY <3>2 DEF IInv, EntriesPlaced
      <4>2. e.call \in Request
        BY <3>2, EntriesDiffer DEF IInv, MapsOK, EntryOf
      <4> QED BY <1>5, <1>6, <4>1, <4>2
    <3> QED BY <1>7, <3>1, <3>2
  <2> QED BY <1>1, <2>1, <2>2, <2>3 DEF IInv, EntriesPlaced
<1>11. \A d \in Request : d # c => (Entry(InKey(d), d) \in channels[To[d]]
                                    => Entry(InKey(d), d) \in channels'[To[d]])
  <2> SUFFICES ASSUME NEW d \in Request, d # c, Entry(InKey(d), d) \in channels[To[d]]
               PROVE  Entry(InKey(d), d) \in channels'[To[d]]
    OBVIOUS
  <2>1. Entry(InKey(d), d).key # InKey(c) /\ To[d] \in Node
    BY EntriesDiffer, KeysDiffer
  <2> QED BY <1>7, <2>1
<1>12. EntriesHeld' /\ ChannelHeld'
  BY <1>1, <1>5, <1>6, <1>7, <1>11 DEF IInv, EntriesHeld, ChannelHeld
<1>13. StagesOK'
  <2>1. caller[c] # "idle"
    BY <1>1 DEF IInv, StagesOK
  <2>2. \A d \in Request : link[d].in # "none" => link'[d].in # "none"
    BY <1>5, <1>6
  <2>3. ASSUME NEW m \in Node, NEW d \in Range(events'[m])
        PROVE  m = To[d] /\ link'[d].in # "none" /\ d \notin taken
    <3>1. CASE d \in Range(events[m])
      <4>1. d \in Request
        BY <3>1, EventsRange DEF IInv
      <4> QED BY <2>2, <3>1, <4>1 DEF IInv, StagesOK
    <3>2. CASE d = c /\ m = To[c]
      BY <1>2, <1>5, <3>2
    <3> QED BY <1>3, <3>1, <3>2
  <2>4. \A d \in Request : link'[d].in \in {"answering", "sent", "cut"} => link[d].in = link'[d].in
    BY <1>5, <1>6
  <2> QED BY <1>1, <1>6, <2>1, <2>2, <2>3, <2>4 DEF IInv, StagesOK
<1>14. Registered'
  <2>1. Entry(InKey(c), c) \notin inbound[To[c]]
    BY <1>1, <1>2, EntriesDiffer DEF IInv, EntriesPlaced
  <2> QED BY <1>1, <1>4, <1>5, <1>6, <2>1 DEF IInv, Registered, Call
<1> QED BY <1>3, <1>8, <1>9, <1>10, <1>12, <1>13, <1>14 DEF IInv

LEMMA HandleEventKeeps ==
  ASSUME IInv, NEW n \in Node, HandleEvent(n)
  PROVE  /\ IInv'
         /\ \E c \in Request : /\ caller[c] # "idle" /\ c \notin taken /\ taken' = taken \cup {c}
                               /\ \/ \E a \in Answer : answer' = [answer EXCEPT ![c] = {a}]
                                  \/ answer' = [answer EXCEPT ![c] = {}]
                               /\ UNCHANGED <<caller, got>>
<1> DEFINE c == Head(events[n])
<1>1. /\ QueuesOK' /\ c \in Request /\ c \in Range(events[n])
      /\ \A m \in Node : Range(events'[m]) = Range(events[m]) \ (IF m = n THEN {c} ELSE {})
  BY TakeEffect DEF IInv, HandleEvent
<1>2. /\ taken' = taken \cup {c}
      /\ \/ /\ \E a \in Answer : answer' = [answer EXCEPT ![c] = {a}]
            /\ replier' = [replier EXCEPT ![c] = "spawned"]
         \/ UNCHANGED <<answer, replier>>
      /\ UNCHANGED <<commands, outbound, queries, channels, inbound, caller, got, link>>
  BY DEF HandleEvent
<1> HIDE DEF c
<1>3. n = To[c] /\ link[c].in # "none" /\ c \notin taken /\ caller[c] # "idle"
  BY <1>1 DEF IInv, StagesOK
<1>4. answer[c] = {} /\ replier[c] = "none"
  BY <1>1, <1>3 DEF IInv, StagesOK
<1>5. \A m \in Node : \A o, d : Queued(m, o, d)' <=> Queued(m, o, d)
  BY <1>2 DEF Queued
<1>6. /\ answer' \in [Request -> {{}, {"Ack"}, {"Bad"}}]
      /\ replier' \in [Request -> {"none", "spawned", "waiting", "ok", "err"}]
      /\ \A d \in Request : d # c => answer'[d] = answer[d] /\ replier'[d] = replier[d]
      /\ replier'[c] \in {"none", "spawned"} /\ (replier'[c] # "none" => answer'[c] # {})
  <2>1. CASE UNCHANGED <<answer, replier>>
    BY <1>1, <1>4, <2>1 DEF IInv, MapsOK
  <2>2. ASSUME NEW a \in Answer, answer' = [answer EXCEPT ![c] = {a}],
               replier' = [replier EXCEPT ![c] = "spawned"]
        PROVE  /\ answer' \in [Request -> {{}, {"Ack"}, {"Bad"}}]
               /\ replier' \in [Request -> {"none", "spawned", "waiting", "ok", "err"}]
               /\ \A d \in Request : d # c => answer'[d] = answer[d] /\ replier'[d] = replier[d]
               /\ replier'[c] \in {"none", "spawned"} /\ (replier'[c] # "none" => answer'[c] # {})
    BY <1>1, <2>2 DEF IInv, MapsOK, Answer
  <2> QED BY <1>2, <2>1, <2>2
<1>7. MapsOK'
  BY <1>1, <1>2, <1>6 DEF IInv, MapsOK
<1>8. CommandsPlaced' /\ EntriesPlaced' /\ EntriesHeld' /\ ChannelHeld'
  BY <1>2, <1>5 DEF IInv, CommandsPlaced, EntriesPlaced, EntriesHeld, ChannelHeld
<1>9. StagesOK'
  <2>1. ASSUME NEW m \in Node, NEW d \in Range(events'[m])
        PROVE  m = To[d] /\ link[d].in # "none" /\ d \notin taken'
    <3>1. d \in Range(events[m]) /\ (m = n => d # c)
      BY <1>1
    <3>2. m = To[d] /\ link[d].in # "none" /\ d \notin taken
      BY <3>1 DEF IInv, StagesOK
    <3> QED BY <1>2, <1>3, <3>1, <3>2
  <2>2. link[c].in \notin {"answering", "sent", "cut"}
    BY <1>1, <1>4 DEF IInv, StagesOK
  <2> QED BY <1>1, <1>2, <1>3, <1>6, <2>1, <2>2 DEF IInv, StagesOK
<1>10. Registered'
  <2>1. \A d \in Request : replier'[d] = "waiting" <=> replier[d] = "waiting"
    BY <1>4, <1>6
  <2> QED BY <1>2, <1>5, <2>1 DEF IInv, Registered, Call
<1>11. \/ \E a \in Answer : answer' = [answer EXCEPT ![c] = {a}]
       \/ answer' = [answer EXCEPT ![c] = {}]
  BY <1>1, <1>2, <1>4 DEF IInv, MapsOK
<1> QED BY <1>1, <1>2, <1>3, <1>7, <1>8, <1>9, <1>10, <1>11 DEF IInv

-----------------------------------------------------------------------------
LEMMA InitHolds == Init => IInv
<1> SUFFICES ASSUME Init PROVE IInv
  OBVIOUS
<1>1. /\ \A n \in Node : commands[n] = <<>> /\ events[n] = <<>>
      /\ \A n \in Node : Range(commands[n]) = {} /\ Range(events[n]) = {}
  BY DEF Init, Range
<1>2. QueuesOK
  <2>1. <<>> \in Seq(Cmd) /\ <<>> \in Seq(Request) /\ Len(<<>>) = 0 /\ DOMAIN <<>> = {}
    OBVIOUS
  <2>2. Distinct(<<>>)
    BY DEF Distinct
  <2>3. \A n \in Node : Distinct(commands[n]) /\ Distinct(events[n])
    BY <1>1, <2>2
  <2> QED BY <1>1, <2>1, <2>3 DEF Init, QueuesOK
<1>3. MapsOK
  BY DEF Init, MapsOK, Link
<1>4. CommandsPlaced /\ StagesOK
  BY <1>1 DEF Init, CommandsPlaced, StagesOK, Queued, Call
<1>5. EntriesPlaced /\ EntriesHeld /\ ChannelHeld
  BY DEF Init, EntriesPlaced, EntriesHeld, ChannelHeld
<1>6. Registered
  <2>1. \A c \in Call : From[c] \in Node
    OBVIOUS
  <2>2. \A c \in Request : To[c] \in Node
    OBVIOUS
  <2> QED BY <1>1, <2>1, <2>2 DEF Init, Registered, Queued, Call
<1> QED BY <1>2, <1>3, <1>4, <1>5, <1>6 DEF IInv

(* Every step keeps the invariant, and is a step of Rpc or none at all. *)
LEMMA StepKeeps ==
  IInv /\ [Next]_vars =>
    IInv' /\ (R!Next \/ UNCHANGED <<[c \in Request |-> caller[c]], taken, answer, got>>)
<1> SUFFICES ASSUME IInv, [Next]_vars
             PROVE  IInv' /\ (R!Next \/ UNCHANGED <<[c \in Request |-> caller[c]], taken, answer, got>>)
  OBVIOUS
<1>t. caller \in [Call -> {"idle", "waiting", "ok", "err"}] /\ Request \subseteq Call
  BY DEF IInv, MapsOK, Call
<1> DEFINE Silent == UNCHANGED <<[c \in Request |-> caller[c]], taken, answer, got>>
<1>1. ASSUME NEW c \in Call, Ask(c) PROVE IInv' /\ (R!Next \/ Silent)
  <2>1. CASE c \in Request
    <3>1. R!Ask(c)
      BY <1>1, <1>t, <2>1 DEF Ask, R!Ask
    <3> QED BY <1>1, <2>1, <3>1, AskKeeps DEF R!Next
  <2>2. CASE c \notin Request
    <3>1. Silent
      BY <1>1, <1>t, <2>2 DEF Ask
    <3> QED BY <1>1, <3>1, AskKeeps
  <2> QED BY <2>1, <2>2
<1>2. ASSUME NEW n \in Node, CommandHandler(n) PROVE IInv' /\ (R!Next \/ Silent)
  <2>1. ASSUME NEW c \in Request, SendRequest(n, c) \/ SendResponse(n, c)
        PROVE  IInv' /\ Silent
    BY <2>1, SendRequestKeeps, SendResponseKeeps DEF SendRequest, SendResponse
  <2>2. ASSUME NEW c \in Query, StartQuery(n, c) PROVE IInv' /\ Silent
    BY <2>2, StartQueryKeeps DEF StartQuery
  <2>3. ASSUME NEW c \in Query \cup Direct, NEW r \in {"ok", "err"},
               Receives(n, OpOf(c), c), caller' = [caller EXCEPT ![c] = r],
               UNCHANGED <<outbound, queries, channels, inbound, events, replier, answer, got,
                           link, taken>>
        PROVE  IInv' /\ Silent
    <3>1. Silent
      BY <1>t, <2>3
    <3> QED BY <2>3, <3>1, AnsweredAtOnce
  <2>4. ASSUME NEW c \in Query, RefuseQuery(n, c) PROVE IInv' /\ Silent
    <3>1. OpOf(c) = "query"
      BY DEF OpOf
    <3> QED BY <2>3, <2>4, <3>1 DEF RefuseQuery
  <2>5. ASSUME NEW c \in Direct, AnswerDirect(n, c) PROVE IInv' /\ Silent
    <3>1. OpOf(c) = "direct"
      BY DEF OpOf
    <3> QED BY <2>3, <2>5, <3>1 DEF AnswerDirect
  <2> HIDE DEF Silent
  <2> QED BY <1>2, <2>1, <2>2, <2>4, <2>5 DEF CommandHandler
<1>3. ASSUME NEW n \in Node, HandleEvent(n) PROVE IInv' /\ R!Next
  <2>1. PICK c \in Request :
          /\ caller[c] # "idle" /\ c \notin taken /\ taken' = taken \cup {c}
          /\ \/ \E a \in Answer : answer' = [answer EXCEPT ![c] = {a}]
             \/ answer' = [answer EXCEPT ![c] = {}]
          /\ UNCHANGED <<caller, got>>
    BY <1>3, HandleEventKeeps
  <2>2. R!Take(c)
    BY <1>t, <2>1 DEF R!Take
  <2> QED BY <1>3, <2>2, HandleEventKeeps DEF R!Next
<1>4. ASSUME NEW c \in Request, Reply(c) \/ RequestArrives(c) PROVE IInv' /\ Silent
  BY <1>4, ReplyKeeps, RequestArrivesKeeps DEF Reply, RequestArrives
<1>5. ASSUME NEW c \in Request, ResponseArrives(c) PROVE IInv' /\ R!Next
  <2>1. /\ IInv' /\ caller[c] = "waiting" /\ caller' = [caller EXCEPT ![c] = "ok"]
        /\ got' = [got EXCEPT ![c] = answer[c]] /\ answer[c] # {}
        /\ UNCHANGED <<taken, answer>>
    BY <1>5, ResponseArrivesKeeps DEF ResponseArrives
  <2>2. R!Return(c)
    BY <1>t, <2>1 DEF R!Return
  <2> QED BY <2>1, <2>2 DEF R!Next
<1>6. ASSUME NEW c \in Request, OutboundFailure(c) PROVE IInv' /\ R!Next
  <2>1. /\ IInv' /\ caller[c] = "waiting" /\ caller' = [caller EXCEPT ![c] = "err"]
        /\ UNCHANGED <<taken, answer, got>>
    BY <1>6, OutboundFailureKeeps DEF OutboundFailure
  <2>2. R!Fail(c)
    BY <1>t, <2>1 DEF R!Fail
  <2> QED BY <2>1, <2>2 DEF R!Next
<1>7. ASSUME NEW c \in Request, ResponseSent(c) \/ InboundFailure(c) PROVE IInv' /\ Silent
  BY <1>7, ResponseSentKeeps, InboundFailureKeeps DEF ResponseSent, InboundFailure
<1>8. ASSUME NEW c \in Query, QueryCompleted(c) PROVE IInv' /\ Silent
  <2>1. Found(queries[From[c]], c) \subseteq {c} /\ c \notin Request
    BY FoundHere DEF IInv
  <2>2. Silent
    BY <1>8, <1>t, <2>1 DEF QueryCompleted, Resolve
  <2> QED BY <1>8, <2>2, QueryCompletedKeeps
<1>9. CASE UNCHANGED vars
  <2>1. QueuesOK' /\ MapsOK'
    BY <1>9 DEF vars, IInv, QueuesOK, MapsOK
  <2>2. CommandsPlaced' /\ Registered'
    BY <1>9 DEF vars, IInv, CommandsPlaced, Registered, Queued
  <2>3. EntriesPlaced' /\ EntriesHeld' /\ StagesOK' /\ ChannelHeld'
    BY <1>9 DEF vars, IInv, EntriesPlaced, EntriesHeld, StagesOK, ChannelHeld
  <2>4. Silent
    BY <1>9 DEF vars
  <2> QED BY <2>1, <2>2, <2>3, <2>4 DEF IInv
<1> HIDE DEF Silent
<1> QED BY <1>1, <1>2, <1>3, <1>4, <1>5, <1>6, <1>7, <1>8, <1>9 DEF Next, Silent

LEMMA AlwaysIInv == Spec => []IInv
<1>1. IInv /\ [Next]_vars => IInv'
  BY StepKeeps
<1> QED BY <1>1, InitHolds, PTL DEF Spec

(* Queues, maps, tasks and links have their types; no queue overflows. *)
THEOREM TypeCorrect == Spec => []TypeOK
<1>1. IInv => TypeOK
  BY Typed DEF IInv
<1> QED BY <1>1, AlwaysIInv, PTL

(* No waiting task is forgotten by the event loops. *)
THEOREM NoTaskForgotten == Spec => []Registered
<1>1. IInv => Registered
  BY DEF IInv
<1> QED BY <1>1, AlwaysIInv, PTL

(* The channel of a request is there as long as its peer waits for an answer *)
(* that is still to be handed over.                                        *)
THEOREM ChannelsThere == Spec => []ChannelHeld
<1>1. IInv => ChannelHeld
  BY DEF IInv
<1> QED BY <1>1, AlwaysIInv, PTL

(* The client, the loops and the indexer at both ends implement Rpc: taken   *)
(* once at the most, answered with the answer to this request or an error. *)
THEOREM ImplementsRpc == Spec => RpcSpec
<1>1. Init => R!Init
  BY DEF Init, R!Init, Call
<1>2. IInv /\ [Next]_vars => [R!Next]_<<[c \in Request |-> caller[c]], taken, answer, got>>
  BY StepKeeps
<1> QED BY <1>1, <1>2, AlwaysIInv, PTL DEF Spec, RpcSpec, R!Spec
=============================================================================
