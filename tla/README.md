# A verification of DSE

DSE is a peer-to-peer marketplace: a requester pays a provider for a service by
handing it *commits*, signed promises on indexes of a time-locked wallet. Two
nodes exchange commits in rounds over libp2p, each node checks the commits it
gets against the history of the wallet they come from, and a contract redeems
or burns what was committed.

This directory holds TLA+ modules translated from the source, the TLC
configurations that check them on small instances, and proofs, checked by TLAPS,
of what holds for every instance. Source paths below are relative to the
repository; `PROJECT.json` maps every definition to its lines.

## 1. Inventory

| part | source | state | operations | hard because of |
|---|---|---|---|---|
| exchange of commits | `src/indexer.rs`, `src/commit_procedure.rs`, `src/server.rs`, `src/storage.rs` | sled trees of i-wants and active trades; `active_send_commit_proc`; one trade copy in each spawned task | routes `IWant`, `StartCommit`; five request handlers; ticker; `send()`, `verify()` | tasks that own stale copies, requests that time out and still arrive, retries, crashes |
| network client and loop | `src/network_client.rs`, `src/network/mod.rs` | command channel, broadcast channel, ten maps of senders and channels | a call of the client; `command_handler`; `swarm_event_handler` | answers out of order, late answers, ended streams, full or lagging channels |
| commit-history loading | `src/ch_request.rs`, `WantHistory` in `src/indexer.rs` | commit-history and wallets-of-interest trees; `LoadingState` | `load_commit_history`, `add_commits_to_commit_history`, `add_wallet_of_interest` | several loads at a time that all hear all Updates; silence of peers; read and write under separate locks |
| checks on commits | `CommitHistory`, `Commit` in `src/storage.rs` | the commits of a wallet | `is_commit_valid`, `are_indexes_in_conflict`, `update_invalditing_signature` | index vectors of any shape |
| wallet contract | `contracts/src/Wallet.sol` | reserves, epoch, claims, burn buffer, pending burn | `startEpoch`, `withdraw`, `redeemdType2`, `burnCommits`, `challengeBurnCommits` | conflicting uses of one index, time against durations, tokens that refuse |
| queries and gossip | `src/server.rs`, `src/indexer.rs`, `src/network/mod.rs` | sled trees of queries sent and received; `node_address` | route `NewQuery`, `network_details`, `publish_message`, handler of `NewQuery` | a route with three awaits whose client may hang up, gossip that loses and repeats, ids that collide, crashes |
| the rest | codecs, `ethnode.rs`, `main.rs`, websocket, `commitment.rs`, `daemon.rs`, `Factory.sol`, `clients/` | none, or stubs | | |

How they interact. The warp server and the indexer are clients of the network
loop: they send a command with a oneshot sender and wait for its receiver. The
loop broadcasts what arrives; the indexer and every running history load
subscribe. The indexer's handlers and ticker spawn `verify()` and `send()`
tasks, which share the sled trees through `Storage` (one mutex, taken for each
single read or write) and report back by an event channel. `verify()` loads the
history of the wallet of a commit before it goes on. The contract is reached by
nobody yet: `EthNode` returns default values.

What makes each part correct:

- *exchange*: commits are given each against the one before, only a paid
  requester is served; a retry never runs next to another; what can go on goes on;
- *network*: a caller gets its own answer or an error, and gets one; no handler
  runs twice for a request;
- *histories*: what is stored was reported for that wallet and checked, nothing
  is lost, a load asks a bounded number of times and ends;
- *checks*: no index is locked twice unnoticed, and a valid commit is not held in
  conflict for what lies outside it;
- *queries*: both sides list only what was published, the answer to a post is true,
  and a published query gets to the other nodes unless it is lost on the way;
- *wallet*: an index has one use, a redemption pays once, the burn ledger balances.

## 2. Modules

| module | what it is |
|---|---|
| `Tree` | a sled tree: the insert and the update of `storage.rs` |
| `Trade` | the trade record and the pure functions on it |
| `Exchange` | the exchange between any number of nodes, with tasks, losses, retries, crashes |
| `Escrow` | abstract: commits issued one against another, services owed only when paid |
| `Requests` | network client and event loops at both ends of requests and queries |
| `Rpc` | abstract: taken at most once, answered with the caller's own answer or an error |
| `History` | loading of commit histories by concurrent tasks |
| `Queries` | a query from its post to the trees of the other nodes |
| `Commits` | the checks on a commit, by itself and against a history |
| `Wallet` | the contract |
| `Claims` | abstract: the indexes of an epoch, redeemed for good or set aside until contested |
| `MC*` | the small instances |
| `*Proofs` | theorems and proofs (section 5) |

`Trade` and `Queries` EXTEND `Tree`, `Exchange` EXTENDS `Trade`; `EscrowProofs` and
`RetryProofs` EXTEND `ExchangeProofs`. `Exchange`
implements `Escrow`, `Requests` implements `Rpc` and `Wallet` implements `Claims`, each
by an INSTANCE with a refinement mapping in the detailed module (`EscrowSpec`,
`RpcSpec`, `ClaimsSpec`).
Definitions headed "Slip" are wrong variants of the definition after them; no
specification uses them. They are there to show that a property notices such a
mistake.

### Trade and Exchange

A node's `trades[n]` and `iWants[n]` are its two trees, as sets of values with
one value per id; `disk[n]` is what sled has flushed. `sending[n]` is
`active_send_commit_proc`. A request, its answer, the task that made it and the
`verify()` task it started at the other end live in one *slot* of `rpc`: `snap`
and `verify` hold the trade copies those two tasks own. This is the point of the
model: a task writes its copy back whole, whatever the tree holds by then.

| code | action |
|---|---|
| `handle_post`, `IWant` and `StartCommit` | `PostIWant`, `PostStartCommit`, `RouteAnswered` (the trade is stored after the Ack) |
| handlers of `indexer.rs` | `HandleIWant`, `HandleStartCommit`, `HandleT1RequesterCommit`, `HandleT1ProviderCommit`, `HandleT2RequesterCommit` |
| ticker | `Tick`: all due trades in one step, as the arm of the `select!` runs through |
| `send()` | begins in `Tick`; `SendAnswered` (any answer counts), `CallFailed`, `ProcEvent` |
| `verify()` | `VerifyStart` (processing status), `VerifyEnd` (send status) |
| network, sled, process | `Lose`, `Flush`, `Crash` |

What a slot assumes of the network (delivered at most once, perhaps after the
caller has given up; an answer for this request or a failure) is what `Rpc`
states and `Requests` is shown to keep.

The constant `Flags` holds the values a received StartCommit may have for `is_requester`,
which the requester stores as it came. The route of this repository sends `false`, so
`Flags = {FALSE}` is this program talking to itself: the requester then takes itself for its
own counterparty and no commit ever leaves it. `exchange_locked` reports that, and
`NeverPastFirstStep` proves how far it goes. `TRUE` comes only from a peer that sends the flag
the requester should hold. `exchange_safety` and `exchange_live` allow both values, a new one
with each StartCommit, so the behaviours of this program are among theirs and the rest of
the exchange is reached too; the theorems hold for any `Flags`. `verify()` computes the
verdict of `is_commit_valid` and drops it, so `Exchange` has no verdict; the check
itself is in `Commits`.

### Requests and Rpc

The exchange and the commit protocol have separate maps that are handled alike;
`Requests` is one of them, plus the DHT maps and the calls answered at once. A
map is a set of entries with a key and the call whose oneshot sender it holds.
The name of a call serves as its request id: libp2p hands out ids that are
unique at either end, and the key is `(PeerId, RequestId)` in the code and here.
An insert over an existing key drops the old sender, as `HashMap::insert` does.
`link` is libp2p's own view of both ends, so that every event happens when
libp2p would emit it: exactly one of response and failure at the caller's end,
exactly one of sent and failure at the peer's. `Update` names the requests that
may be a `CommitRequest::Update`, which `load_commit_history` takes and does not
answer. Progress events of a bootstrap query that is not over
change no map that matters here and are left out.

### History

One node's verify tasks, each in `load_commit_history` for the wallet of its
commit, and the peers they ask. `inbox[k]` is the task's subscription;
`Deliver` gives an Update to all of them. `TakeUpdate` and `WriteHistory` are
the two halves of `add_commits_to_commit_history`, which takes the mutex twice.
`misplaced` is the wallets-of-interest value that is written into the
active-trades tree, under a key no trade has; `get_active_trades` drops it because
it does not decode as a trade. The 30-second timeout is a tick that may come at
any time. The peers' records are constants: what peers know does not depend on
this node. `Owner` and `Epoch` are what `EthNode` answers.

### Queries

A post is a `handle_post` future with its three awaits; `post[p].pc` says where
it waits. The client may hang up at any of them and warp drops the future; a
command that is in the channel by then is still carried out (`gone`), so the
query is published and never stored by its own node. `network_details` fails as
long as no listener is up (`address`). Every query gets the id 1, as
`Query::from_data` says, so an insert replaces whatever the tree held.

| code | action |
|---|---|
| `handle_post`, `NewQuery` | `PostQuery`, `DetailsAnswered`, `StoreSent`; `HangUp` |
| `command_handler`, `PublishMessage` | `PublishAccepted`, `PublishRefused` |
| `swarm_event_handler` | `NewListenAddr`, `Deliver` (a lagging subscription drops its oldest event) |
| handler of `indexer.rs` | `HandleNewQuery` |
| gossipsub, sled, process | `Expire`, `Flush`, `Crash` |

gossipsub is external: it refuses to publish without a peer, reorders, loses, and
repeats a message only to a node that has restarted. `published`, `heard` and
`missed` are history variables. A message carries a number that the code does not
have: it stands for gossipsub's own message id, made of the publisher and a sequence number.

### Commits

A stored commit is its index vector, trade id, type and whether it has an
invalidating signature. Vectors start at 1 in TLA+, so the loops of
`are_indexes_in_conflict` read `i % 2 = 0` and `j > 1`. `Locked` is the
reference: the indexes in the ranges that consecutive pairs of values define.
The check returns nothing in the code; the operator is true when its search finds a
pair. `IsCommitValid` is the other check of a received commit, with the trade as
the waiting node holds it; `Signed` is what of the commit it reads beside the
indexes. `AlarmWithinSpan` relates the two: the conflict check steps through a
received vector one by one, so it takes the gap between two of its ranges as
committed too, and a valid commit can be held in conflict for that gap, but for
nothing outside its span. The gossip handlers that would bring new commits and
invalidating signatures are never reached (only the query topic is subscribed);
`UpdateInvalidatingSignature` models the function they would call.

### Wallet

Every external function is an action, since a transaction is atomic and a
revert changes nothing. Signatures are a set of records of who signed what, with
the recovery byte and the byte the contract takes for it; those of the instance
agree in both, since nothing else is recovered (section 4). `Claims` is what is left
of it without time, signatures and amounts. A call carries a
function from indexes to items: a call with two items for one index reverts, as
the first is marked before the second is checked. The token moves an amount,
reverts, or returns false; it may or may not accept `address(0)`. Which token
it is, is chosen initially and never changes (`token`).

## 3. Runs

Passing runs:

| run | question | bounds |
|---|---|---|
| `exchange_safety` | `TypeOK`, `CommitOrder`, the inductive `Backed`, `SendGuard`, `EscrowSpec`, `RestStays` and `StalemateStays`, under loss, delay, retry, restarted exchanges and crashes of both nodes that lose unflushed writes | one requester, provider and id; both flags; two slots: a late attempt and its retry, or a request and a StartCommit, at a time |
| `exchange_live` | `CheckUnderWay`; `SendReleased`, `VerifyEnds` under fairness of tasks alone; `SendLeaves`, for each kind of commit that the network delivers now and then and each trade addressed to another peer | one requester, provider and id; both flags; two slots; no crash |
| `requests_calls` | `TypeOK`, `Registered`, `ChannelHeld`, `RpcSpec`; `CallsEnd` and `RepliesEnd` under fairness | two requests to one peer, the second perhaps one that no handler answers, a refusable query, a direct call; channels of 2 and 1 |
| `history_loads` | `TypeOK`, `Provenance`; `LoadEnds` under fairness | two loads at a time, of one wallet or of two: wallet 2 has two providers, one with and one without a record of it, given up in either order, and wallet 1 has none |
| `queries_posts` | `TypeOK`, `OnlyPublished`, `TrueAnswer`, `NothingVanishes`; `Propagated` and `PostsEnd` under fairness | two nodes, of which one crashes, two posts of either node, at work together or not; a subscription of one place |
| `commits_checks` | `ConflictFound`, `AlarmWithinSpan`, `T2StaysLocked` | all vectors of up to four values out of 0..3, in any order, a history of one commit |
| `wallet_conflicts` | `TypeOK`, `UsedOnce`, `PaidOnce`, `BurnLedger`, `ClaimsSpec`, `BlockedForGood` | two indexes, two epochs, three addresses, three kinds of token, a clock from 0 |

Why the bounds suffice. An exchange has three rounds between two parties and
its hazards pair a stale task with a retry, or with a restart of the same id:
two slots hold such a pair, and the copies on disk a third, older state. Slots are reused, so the number of requests in
a behaviour is not bounded, nor are retries and restarts. The slots are
interchangeable, which the symmetry of `exchange_safety` uses. No run has two requesters
that chose one id; the theorems cover them. Crossing answers need two requests; channels of one or two places
are full and lag at once. It takes
two loads to hear each other's Updates and to race in the store, and two providers
to go from one to the next; a wallet nobody provides takes part, too, since its load hears the
Updates of the other. In `history_kept` both wallets have both providers. Two ranges of two
values each, out of four, lie apart, touch, overlap, enclose, or leave a gap
of one. Two posts are enough for the second query to replace the first, for
both to wait at once, and for the event of one to push out that of the other;
the second node never crashes, so every list is seen with and without crashes. Two indexes are enough for a call with several items, and two epochs for
what an epoch leaves to the next. `MaxEpoch`, `MaxDeposit`, `Times`,
`MaxCommits`, `MaxPosts`, `Post`, `CommandCap`, `EventCap`, `Rpc` and `Task` are the only bounds on
what the code leaves unbounded or larger.

The clock of `wallet_conflicts` starts at 0 for a reason: `challengeBurnCommits`
compares a duration with a point in time (the finding of `wallet_challenge`), so on a real
chain no challenge succeeds and the case in which an index is freed and used again never
happens. A young chain reaches it; at time 5 all durations are behind, as they
are on a real one. The three violation runs of the wallet start at 10, past every duration, so
that what they find is not an effect of a young chain.

Deadlock is checked in all runs of `Exchange`, which never stops (clients may always
post). `CHECK_DEADLOCK FALSE` is set where the system may rest: all loads
done, all calls returned, the posts used up (a bound), the history full (a bound), the clock at its last value (a bound).

### Fairness

- `TaskFairness`: tokio polls a task that can go on; libp2p ends every request
  with an answer or a failure and hands over or drops every message. These are
  weak. The ticker is strongly fair, because the bound on slots, which the code
  does not have, may disable it now and then.
- `NetworkFairness`: a commit of a kind sent again and again is again and again handled
  in time (`Delivered`). This assumes a network that works; `SendLeaves` has it as its
  premise, for the one kind it is about, and `exchange_locked` is checked under it for
  all kinds (`FairSpec`).
- `History`: tasks run, the DHT and every request end with an answer or an
  error; the tick is strongly fair since a stream of Updates, which the random choice
  of `select!` does not prefer for ever, may come between.
- `Requests`: the loop and the indexer take what is queued, libp2p ends every
  request, stream and query. A task that waits for room in the command channel
  is served in turn (tokio's semaphore is fair): strong fairness of `Reply`.
- `Queries`: the loop, the route and the indexer go on, and gossip brings a message
  or drops it. Nothing is assumed of clients, listeners, flushes and crashes.

## 4. What the code does not keep

Five statements of the source and its documentation have a run that must find
them violated, and a finding in `PROJECT.json` that quotes them.

| run | the statement | the code |
|---|---|---|
| `exchange_locked` | after StartCommit, commitment happens and funds are locked | the requester stores the provider's `is_requester = false`, addresses its T1 commit to itself and never sends it; the provider waits for ever |
| `history_kept` | new commits are added to the existing ones | of two concurrent writers one loses |
| `wallet_withdraw` | no withdrawal in an active epoch | compares the time with a duration |
| `wallet_expired` | commitments are redeemed before the epoch expires, and expire with it | `redeemdType2` never looks at `epochExpiresBy` |
| `wallet_challenge` | a commit in the burn buffer is challenged by an invalidating signature | compares the time with a duration: past it every challenge reverts |

Others were met while modelling. The modules translate these lines as they are,
or leave out what no step depends on; no run is about them:

- `src/commit_procedure.rs:120`: any answer to a commit counts as success, `Bad` too, so that a
  refused commit is never sent again; where the flag is right, both sides can end up
  waiting for each other for good (`StalemateStays`, `StalematesLast`);
- `src/indexer.rs:372`: two deliveries of a commit can start `verify` twice, since
  the status changes only when the spawned task runs; the comment says they cannot;
- `src/commit_procedure.rs:51`: the verdict of `is_commit_valid` is dropped, while
  `README.md:113` lets no party proceed without a verified commit;
- `src/ch_request.rs:28`: a peer is asked four times, not three (theorem `FewAsks`);
- `src/ch_request.rs:91`: an Update for another wallet ends a load, and its commits
  are filtered by the owner and epoch of the wallet the load is for;
- `src/storage.rs:490`: wallets of interest are written to one tree and read from another;
- `src/storage.rs:58`: the gap between two ranges counts as a range in the conflict check;
- `src/storage.rs:360`: empty and odd vectors pass `is_commit_valid`;
- `contracts/src/Wallet.sol:99`: `v` is read from the first byte of `s`;
- `contracts/src/Wallet.sol:133`: `isValidCommitRange` has its comparison inverted.

What holds nevertheless is worth as much: stale copies, double verification,
restarts, id collisions and crashes do not make a node commit out of turn or
serve a requester that has not paid (`CommitOrder`, `EscrowSpec`), conflicting
commitments never use an index twice (`UsedOnce`), and no sender is forgotten by
the event loop but in one case, which `RepliesEnd` states as its exception: an
answer handed over after its stream has ended waits for ever.

## 5. What is proved

| theorem | module | statement |
|---|---|---|
| `TypeCorrect` | `ExchangeProofs` | `Spec => []TypeOK` |
| `AlwaysBacked` | `ExchangeProofs` | `Spec => []Backed` |
| `OrderedCommits` | `ExchangeProofs` | `Spec => []CommitOrder` |
| `OneSendAtATime` | `RetryProofs` | `Spec => []SendGuard` |
| `NeverPastFirstStep` | `RetryProofs` | `Flags = {FALSE} => (Spec => []StuckAtFirstStep)` |
| `EveryCheckHasItsTask` | `RetryProofs` | `Spec => []CheckUnderWay` |
| `NothingMovesAtRest` | `RetryProofs` | `Spec => RestStays` |
| `StalematesLast` | `RetryProofs` | `Spec => StalemateStays` |
| `ImplementsEscrow` | `EscrowProofs` | `Spec => EscrowSpec` |
| `TypeCorrect` | `RequestsProofs` | `Spec => []TypeOK` |
| `NoTaskForgotten` | `RequestsProofs` | `Spec => []Registered` |
| `ChannelsThere` | `RequestsProofs` | `Spec => []ChannelHeld` |
| `ImplementsRpc` | `RequestsProofs` | `Spec => RpcSpec` |
| `TypeCorrect` | `QueriesProofs` | `Spec => []TypeOK` |
| `ListsTrue` | `QueriesProofs` | `Spec => []OnlyPublished` |
| `AnswersTrue` | `QueriesProofs` | `Spec => []TrueAnswer` |
| `NothingLostSilently` | `QueriesProofs` | `Spec => []NothingVanishes` |
| `TypeCorrect` | `HistoryProofs` | `Spec => []TypeOK` |
| `StoredWasReported` | `HistoryProofs` | `Spec => []Provenance` |
| `FewAsks` | `HistoryProofs` | `Spec => []AsksBounded` |
| `KeptWithoutRace` | `HistoryProofs` | `Spec /\ []OneWriter => CommitsKept` |
| `TypeCorrect` | `CommitsProofs` | `Spec => []TypeOK` |
| `DoubleUseFound` | `CommitsProofs` | `Spec => []ConflictFound` |
| `AlarmsJustified` | `CommitsProofs` | `Spec => []AlarmWithinSpan` |
| `T2Lasts` | `CommitsProofs` | `Spec => T2StaysLocked` |
| `TypeCorrect` | `WalletProofs` | `Spec => []TypeOK` |
| `OneUsePerIndex` | `WalletProofs` | `Spec => []UsedOnce` |
| `RedeemedAmounts` | `WalletProofs` | `Spec => []PaidOnce` |
| `BurnLedgerBalances` | `WalletProofs` | `Spec => []BurnLedger` |
| `ImplementsClaims` | `WalletProofs` | `Spec => ClaimsSpec` |
| `BlockedStaysBlocked` | `WalletProofs` | `Spec => BlockedForGood` |

They hold for any set of nodes, ids, slots, clients, any `Flags`
(but `NeverPastFirstStep`, which is about this program's own), and any set of crashing nodes;
any calls between any nodes and queues of any capacity; any number of posts and
queries; any numbers of loads, wallets and peers and any records; index vectors and histories of any length; any token
behaviour, clock, set of signatures and constructor arguments with a burn buffer
other than zero. The assumptions are the named ASSUMEs of the modules.

The arguments:

- *Exchange.* `CommitOrder` is not inductive: a trade in `RSendT2Commit` issues
  the requester's T2, so one has to know that the provider's T1 was sent.
  `Backed` says that of every status, in the tree, on disk, and in the copy a
  verify task owns, and ties a commit in a slot to a commit that was sent. A
  step of a handler takes a commit only from the trade's counterparty and at the
  matching status, which is where a verify task's copy gets its backing; commits
  are never unsent, so a copy written back late is still backed, and so is
  what a crash restores from disk. That is why stale copies are harmless here.
- *Retries.* `SendGuard` needs two facts more (`Guarded`). Trees are keyed by id, so
  one tick of a node starts at most one send per id, and only for ids that are
  not in `sending`; and only sends report to the indexer, while an answer waits for
  its own task. So a send keeps its claim on its id until the indexer handles its
  event (`ProcEvent`), and no other step takes an id out.
- *Checks.* `CheckUnderWay` needs only that a verify task starts when its commit arrives and not
  before (`Unstarted`), so that a request on its way never overwrites one. A task writes a processing
  status and keeps it in its own copy until it ends, and any other write (a send that
  ends, a StartCommit) takes the trade out of that status or leaves it. It is
  stated for nodes that do not crash: a crash loses the task (`RestStays` says what comes of it).
- *Rest and stalemate.* `ParkedStep` follows one stored trade that is not due and that nobody holds
  a copy of. Trees are keyed by id (`Guarded`), so no tick copies it; only a
  commit that it awaits, from its counterparty, can start a task on it, or a
  StartCommit for its id replace it; and a crash brings it back, since it is flushed where
  its node may crash. A trade at rest awaits none. In a stalemate the commit each side
  awaits would have to be sent by a trade of the other that is due (`OnlyDueSends`), and by the key
  that is the very trade that waits. So where the flag is right and the two have got there,
  nothing but a new StartCommit helps, whatever the network does.
- *The flag as built.* This is why `exchange_locked` finds what it finds, for every instance. `Stuck`: with `FALSE` stored at both ends, every trade on a
  tree or on disk is at its first status, the requester takes itself for the
  counterparty of its own T1 commit, so everything in `sent` is such a commit from a
  node to itself and none of it is ever in flight: no handler runs for a commit
  and no verify task starts.
- *Requests.* The invariant `IInv` says where each entry is: a command in the queue
  of its task's node and only once, before libp2p hears of it; an entry under its own
  key exactly as long as libp2p owes the event that looks for it; and the stages of
  a request in their order. Keys differ as calls do, so an event finds one sender
  at the most. `Registered` is part of it, and each step is one of `Rpc` or changes nothing there.
- *Queries.* `Traced` ties a post to its message: published when the route has been
  told so and never when it was told it was not, which its number makes a
  statement about one post; and it carries what is published through messages on
  their way, subscriptions, trees and disks.
  `NothingVanishes` is made inductive (`Accounted`) by what gossip's own memory implies: what a
  node is known to have got is in its buffer, was stored, or counts as lost, so a
  repeated message that is not delivered again takes nothing away.
- *Escrow.* `Obliged` is the set of trades in `PFulfillService`. A tick issues
  commits whose answers `Backed` shows to be there; any other step changes
  obligations only, and `Backed` puts those among the paid.
- *History.* `ProvInv` carries `Provenance` through Updates on their way, in
  subscriptions and in tasks, and through what a task read before it writes it
  back. `AsksInv` says that the peer at the head was asked as often as the
  counter says and those behind it never. Both need `HeadOK`: who asks has a peer.
  `KeptWithoutRace` is the other side of the run `history_kept`: as long as no two tasks
  are between the read and the write of one history, what a writer has read is what is
  stored (`Current`), and nothing is lost. `OneWriter` is a premise, not a claim: the code
  does not enforce it, a single load at a time satisfies it.
- *Commits.* `SharedIndexOverlaps`: an index in a range of either vector gives a
  pair of positions the loops compare. `OverlapWithinSpan` is the converse, for
  vectors in order: two positions that pass the comparison have a common index.
- *Wallet.* An index enters `claimed` or the buffer only when in neither, and
  leaves the buffer only by a challenge, which takes its value from the pending
  amount; the ledgers follow from counting (lemmas on cardinalities of unions and
  differences). `OneUsePerIndex` needs only the guards, and with it every call maps to
  a step of `Claims` on the indexes it names, or to a stutter. `Durations` says that
  what the buffer stores as a time is at most the sum of two constructor arguments: past that
  time no challenge passes its guard, nothing else lowers the pending
  amount, and with a token that always reverts the burn each epoch start and withdrawal
  has to make reverts too (`BlockedForGood`).

Model-checked only: liveness (`SendReleased`, `VerifyEnds`, `SendLeaves`,
`LoadEnds`, `CallsEnd`, `RepliesEnd`, `Propagated`, `PostsEnd`), since the prover has no
rules for fairness and ENABLED. Of several the safety half is proved: that an id is held only as long as a
send is at work (`SendGuard`), that a trade being checked has its task (`CheckUnderWay`),
that a load asks no more often than it may (`FewAsks`), that a call's sender is where its
answer will look for it (`Registered`), that a published query is somewhere
(`NothingVanishes`). What is left to TLC is that the task, the loop and the
network go on. Every safety property of a passing run is a theorem; `CommitsKept` is one
under the premise that `history_kept` shows to be needed.

## 6. What is not modelled

- Bids: their handlers are commented out; the storage functions have no caller.
- Gossip of commits and invalidating signatures: the topics are never subscribed,
  and nothing publishes them.
- Cryptography, bincode, JSON, warp, the websocket (which drops its input),
  mdns, dialling, the routing table: I/O without state of the program.
- `EthNode`'s calls to the contract: stubs. The contract is modelled by itself,
  since no code connects the two.
- `isValidCommitRange`: pure, and nobody calls it.
- `commitment.rs` (commented out), `daemon.rs` and `Factory.sol` (empty).
- The read-only GET routes and example clients: they change nothing.
- A crash in the middle of `History` or `Requests`: all their state but the
  stored histories is volatile, and a restart is a fresh start.
- Overflow of `uint256` amounts and of `u32` request counters: out of reach.

## 7. Plan

Done: `Trade`, `Exchange`, `Escrow`, `Wallet`, `History`, `Requests`, `Rpc`,
`Commits`, `Queries` and the proofs above, in this order, the exchange first
because everything else serves it.

What would come next, in this order:

1. `History` with crashes and restarts of the node between the read and the
   write, and the peers' records growing by loads of their own, to see how
   unchecked commits spread.
2. `Exchange` with the loads of `History` in place of the step `VerifyEnd`, for
   two trades on one wallet.
3. When `find_commitment` makes real commitments: retries that send another
   commit, and the verdicts of `Commits` in `VerifyEnd`.

And of proofs: abstract specifications of what a load and a posted query promise (a history that only
takes reported commits; a query published once and stored at most where it was
heard), with `History` and `Queries` shown to implement them, as `Exchange`,
`Requests` and `Wallet` do theirs.
