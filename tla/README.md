# Linkora: a TLA+ verification project

Linkora is a social network on Stellar/Soroban. A Rust contract holds profiles,
the follow graph, posts, moderation, governance and money. A TypeScript SDK
submits transactions to it. An indexer, a DM relay and an analytics oracle
follow its events, and mobile and web clients use all of these. This project
models the parts whose correctness depends on *sequences* of calls or on
*interleavings* of asynchronous code, checks them with TLC on small instances,
and proves the central results with TLAPS for every size.

Contents: [the system](#1-the-system), [the modules](#2-the-modules-and-the-code),
[the runs](#3-what-tlc-checks), [the findings](#4-where-the-code-and-its-documents-disagree),
[the proofs](#5-what-is-proved), [what is not modelled](#6-what-is-not-modelled),
[the plan](#7-plan).

`PROJECT.json` is the index: components, runs, one mutant per property, the
source lines of every definition, findings, hazards and theorems. Below, `lib.rs`
is `src/packages/contracts/contracts/linkora-contracts/src/lib.rs` and `queue.ts`
is `src/packages/sdk/src/queue.ts`.

## 1. The system

### The contract (`lib.rs`)

All state is in storage rows. A call is one transaction: it runs alone, and if it
panics nothing of it remains. So inside the contract there are no interleavings
below a call. The difficulty is what a *long legal sequence of calls* by
different users leaves in rows that must agree with each other.

| Part | State | Operations | Must hold |
| --- | --- | --- | --- |
| Profiles | `Profile`, `UsernameIndex`, registry, `PROF_CT`, `DeletedProfile` tombstones | `set_profile`, `delete_profile`, `batch_cleanup_profile` | names and owners are inverse; counter and registry exact; the tombstone goes last |
| Follow graph | per user and side: `Idx` slots, `Pos` rows, `Count`; one edge row per pair | `follow`, `unfollow`, paged getters | slots, positions, counts and edges agree after any swap-remove; pages partition the followers |
| Blocks | `Blocks` pairs | `block_user`, `unblock_user` | a block is a clean break: no edge and no like across it |
| Posts | `Post`, `RemovedPost`, `DeletedPost`, `AuthorPosts`, likes | `create_post`, `delete_post`, `like_post`, `batch_cleanup_post` | one life stage; like counts exact; a deleted post does not return |
| Moderation | `Report`, `ModerationRecord`, `Appeal`, stake balance | `report_post`, `review_report`, `appeal_moderation`, `review_appeal` | the stakes held cover the pending reports |
| Governance | `GovConfig`, proposals, ballots | `gov_init_config`, `gov_propose`, `gov_vote`, `gov_execute`, `gov_veto` | one ballot each; settled stays settled; what is executed had its quorum; the time lock is served |
| Pause | flag per module | `pause`, `unpause` | guards of the above |
| Money | tips, fee split, treasury, pools | `tip`, `pool_*` | conservation, thresholds |
| Administration | roles, upgrade, migration | `grant_role`, `upgrade`, `migrate_follow_graph` | only authorised changes |
| Oracle, credentials, DM keys, rent, commit-reveal | single rows | attest, set, extend | set-once, replay |

Two smaller contracts (referral, token factory) call or are called by it.

### The SDK queue (`queue.ts`, `utils/retry.ts`)

`TransactionQueue` submits an ordered list of transactions: for each step it
takes a process-wide lock for the source account, compares the account's
sequence number, signs, simulates, sends with retries behind a circuit breaker,
and polls for confirmation. A failure rolls earlier steps back. This is the most
concurrent code of the repository: several queues share an account, and
`stepTimeoutMs` settles a `run()` with `Promise.race` *without stopping the
worker that lost*. The worker may sign, send, poll and roll back long after the
caller was told that the run failed, even during the caller's next `run()`.

The queue can also be given a persistence adapter. It then saves a snapshot at
every change of a step, *without awaiting the save*, and `resume()` loads the
last one after the host app restarted.

### The indexer (`services/indexer`)

* **Stream** (`stream.ts`, `stream-circuit.ts`, `gap-detector.ts`,
  `backfill-coordinator.ts`): polls the RPC page by page, compares ledgers with
  the cursor, has a coordinator refetch a gap, and pauses behind a breaker. Hard:
  pages that end inside a ledger, an RPC whose index lags, failures between commit
  and acknowledgement, circuits that stay open, restarts. Must hold: nothing the
  RPC serves in time is skipped or stays unpublished.
* **Pipeline and projection** (`pipeline.ts`, `domain-processor.ts`, `handlers/`,
  `postgres-db.ts`, `notifications/events.ts`): one transaction per page, but about
  half of the tables are written *beside* it, through another connection. Hard:
  rollback and replay, row locks held by the own transaction, pushes from three
  places, one of which nobody awaits. Must hold: the tables converge, counters match, no event is pushed twice.
* **Fan-out** (`ws.ts`, `bus.ts`, `ratelimit.ts`, `graceful-shutdown.ts`): committed
  events to websocket clients, each with a bounded queue and one send under way.
  Must hold: order, at most once, bounded loss, silent peers found.
* **Inbox** (`api/routes/notificationInbox.ts`): a paged view of three tables with
  a read watermark per address.
* State roots with gossip, retention, and read-only HTTP queries.

### The other services and the clients

* **DM relay** (`services/dm-relay/src/routes.ts` and `server.ts`): authenticated
  submission with a replay cache, an idempotency table, a unique message index, and an
  answer that is recorded after it is sent. (Section 4: this is not what the package
  starts.) Its client (`sdk/src/dm/relay.ts`) retries.
* **Mobile app**: SQLite rows for posts not yet on chain, background runs that
  submit and confirm them, and a feed that writes pages into the same table, all over
  one connection whose transactions are not exclusive.
* **Web app**: two mounted copies of a notification hook, a socket, and a shared
  entry in localStorage.
* **Analytics oracle**: attests creators per time window on an interval timer.

`PROJECT.json` lists the hazards of all of these with their lines.

## 2. The modules and the code

| Module | Models | State |
| --- | --- | --- |
| `NeighbourIndex` | one side of one user's adjacency set: append, swap-remove, clearing from the top, paging (`lib.rs` 4670-4760 and the append in `follow`) | none, operators on a record `[idx, pos, count, counted]` |
| `SocialGraph` | profiles, names, registry, follow graph, blocks, cleanup | `username`, `owner`, `registered`, `profileCount`, `deleted`, `blocks`, `edge`, `following`, `followers`, `paused` |
| `FollowRelation` | **abstract**: a set of follow pairs and a set of block pairs | `follows`, `blocked` |
| `Content` | posts, likes, blocks as likes see them, reports, moderation, appeals, stakes, cleanup | one variable per family of rows |
| `Governance` | configuration, proposals, votes, execution, veto, ledgers that close | `ledger`, `config`, `proposals`, `ballots`, `fee`, `paused` |
| `GovernanceHistory` | `Governance` with a history variable: the last vote on an active proposal, whether the vote window moved under it, and the quorum terms it was created under while nobody rewrites them | adds `history` |
| `TransactionQueue` | the SDK's queue, its account lock and breaker, and the network it talks to (external) | `plan`, `steps`, `hashes`, `failures`, `open`, `runs`, `job`, `lock`, `wire`, `status`, `sequence` |
| `QueueResume` | the queue's snapshots, crashes and `resume()` | `queue`, `hashes`, `pc`, `disk`, `saves`, `loaded`, the network's `wire`, `ledger`, `sequence` |
| `EventStream` | the indexer's polling loop, gap detector, backfill coordinator and breaker, over an RPC that may lag (external) | `stored`, `cursorRow`, `published`, locals in `stream`, `breaker`, `backfill` |
| `Projection` | transaction, handlers, dead letters and pushes for a log of contract events (external) | `connects`, `log`, `at`, `processed`, `recovering`, `rows` (in the transaction), `direct` (beside it), `tx`, `listening`, `sent`, `marked` |
| `EventFanout` | the websocket server and the web client's socket | `conn` (server's end), `cli` and `tab` (client's end), frames `up` and `down` |
| `LiveInbox` | the inbox route, the provider, the two hook instances and localStorage | `born`, `readThrough`, `prov`, `stored`, `addr`, `list`, `fetch`, `mark` |
| `DmRelay` | `RelayClient.sendMessage` and `POST /messages` | `call`, `request`, `seen`, `keys`, `row`, `writes`, `relay` |
| `OfflineFeed` | the mobile app's optimistic posts, sync runs and feed cache | `local`, `cache`, `txn` (the connection's), `composer`, `feed`, `merge`, `calls`, the network's `chain`, `sent`, `indexed` |
| `SocialGraphProofs`, `GovernanceProofs`, `ContentProofs`, `TransactionQueueProofs`, `DmRelayProofs` | lemmas and theorems about the module of that name (section 5) | |
| `QueueResumeProofs` | about `QueueResume` and `OfflineFeed`, the two durable queues of a client | |
| `EventStreamProofs` | about `EventStream` and `EventFanout`, the two ends of the event bus | |
| `ProjectionProofs` | about `Projection` and `LiveInbox`, the writer and the reader of the notification rows | |
| `MC*` | values, bounds and symmetry for TLC | |

Conventions:

* **Rows.** A family of storage rows is a function whose domain is the set of
  keys present, or a set of pairs when a row has no content. An absent count row
  reads as 0 but differs from a row that holds 0 (`counted`): `follow` tells them
  apart.
* **Calls.** One contract call is one action, with the helpers it calls (a block
  removes edges and likes in the same step). A call that panics is no step. Each
  early return and each guard of the call is a conjunct.
* **Callers.** Authorisation (`require_auth`, roles) decides who may call, not
  what the call does, so it is left out: an action takes the caller as parameter.
  Event emission and TTL extension are left out as well.
* **Rows of another module** that a call only reads are parameters of the action,
  with any value: cooldown rows left (`BatchCleanupPost`), graph entries left
  (`CleanupAuthoredPosts`), authored posts left (`BatchCleanupProfile`).
* **Time.** A ledger closes as an action (`LedgerCloses`); the deadline of an
  appeal passes as an action (`AppealWindowCloses`).
* **Arithmetic.** Governance uses the code's integer division in basis points and
  percent, and the sums the code computes with checked `u32` arithmetic must stay
  within `MaxU32`: where a sum would overflow, the call panics and is no step.

### TransactionQueue in detail

A job `<<q, r>>` is the r-th `run()` of queue `q`. Its record holds the local
variables of `run()`, `runStep` and `executeStep`. One action is the code between
two `await`s. `pc` names the await at which the worker is; `settled` says what
the caller was told; `expiry[k]` is the state of step k's deadline (not fired, n
rollbacks to go, rejected). The two are separate on purpose: a settled job may
still have an active worker. `refused` is the one place where a step fails
outside the race (the sequence check failed, the lock is already free, `runStep`
itself awaits the rollbacks).

The network is external and modelled from how `queue.ts` uses it: a sent
transaction stays on `wire` and arrives whether or not the sender still waits
(`Deliver`); it is taken only if it is next in the account's sequence; the ledger
includes it with success or failure, or never. An answer can be lost
(`SendFails`, `answered = FALSE`).

Assumptions, each named in the module: the caller awaits a `run()` before the
next one on the same queue; `getAccountSequence` returns the current number; all
transactions are of one account and parse; each step has a rollback callback.

### The asynchronous modules

They share one convention: **an action is the code between two `await`s** (or
between two statements sent to a database), and what a function read before an
await is kept in its record and used after it. An external party acts on its own:
the ledger closes, a frame is lost, a row is removed, the process ends. Faults are
actions of their own with a common bound, so that a run contains every placement of
them.

* **EventStream.** The RPC's events are fixed at the start (`chain`), a closed
  ledger may be served late (`hidden`), and `Served` is what a request returns. The
  pipeline is one step here with three outcomes: done, failed, and committed but
  reported as failed (`onCommit` throws after COMMIT). Waits change no state.
* **Projection.** `OnClient` are the handlers that get the transaction's client,
  `OnPool` those that write through the pool; the second stay written when the
  batch rolls back. `LocksTaken` and `OwnLock` are the row locks by which a
  statement beside the transaction waits for the transaction itself until
  `lock_timeout`. `connects` is fixed at the start: whether the batch's client has a
  `connect` method, by which `like.ts` 54 and `tip.ts` 56 tell a pool from a client.
  pg's `PoolClient` has one and rejects the second `connect` (`Reconnects`); the
  client type of the pipeline, and the tests' client, has none. A dispatch is one action
  per await (`Await`: author, check, send, mark), for the handler, which awaits it
  (`HandlerDispatches`), and for any number of calls of the bus listener, which
  nobody awaits (`ListenerDispatches`): both, and the transaction of the next page,
  interleave. A restart recovers what follows the committed cursor (`recovering`) and then
  streams from `START_LEDGER` (`StreamStarts`), with the listeners of the recovered
  events still running. `CommitUnseen` is a batch that is committed and reported as
  failed, before or after its events are published. A log keeps to one family of
  topics, because handlers of different families share no table.
* **QueueResume** leaves out what `TransactionQueue` has (timeouts, retries, other
  queues) and adds the store. `Sent` is separate from `Send`: a crash between the
  two is the case the persistence is for.
* **EventFanout** has both ends of each connection and the frames between them, so
  a connection the server still lists may stand beside its replacement.
* **LiveInbox** treats an event handler, the render it causes and the effects of
  the render as one step, as React runs them. A live frame may come late, twice or
  never. `addr` is the `addressRef` of each hook: a notifications page that was left
  keeps the one it had, and a "mark all as read" that fails afterwards is compared
  with that one (`useNotifications.ts` 147), not with the wallet's address.
* **DmRelay** keeps ages instead of dates and lets them stop at the largest age
  that is compared, so time is unbounded and the state space finite.
* **OfflineFeed** allows several overlapping sync runs, as the app does: each new
  post and each feed refresh starts one. `withTransactionAsync` of expo-sqlite is not
  exclusive, so a transaction is not a step here. `Begin`, `Commit` and `Rollback` act on
  the connection's one transaction, whoever began it; each statement of
  `reconcilePosts` and `confirmPendingPost` is an action; a second BEGIN is refused,
  and the ROLLBACK that its caller then issues undoes the other's writes; a row
  composed meanwhile is part of the transaction that happens to be open. Drafts may
  share a text with each other and with earlier posts of the author. `kit` says
  whether the wallet kit is there: without it `syncPendingPosts(null)` throws and no
  run starts. `caught` and `crossed` are history variables for the properties: drafts
  composed into someone else's transaction, and whether a BEGIN was ever refused.

How they fit together: `EventStream` decides which events reach the pipeline,
`Projection` what a batch leaves in the tables, `EventFanout` which committed events
a client sees, `LiveInbox` what a user makes of those and of the tables. Each
module takes the one before it in its weakest form (a replayed log, a late or lost
frame), so its results do not depend on the other's bounds.

## 3. What TLC checks

### Passing runs

| Run | Checks | What it shows |
| --- | --- | --- |
| `social_graph` | `ProfilesExact` (`UsernameIndexExact`, `RegistryExact`), `NoEdgeAcrossBlock`, `GraphConsistent`, `PagesPartitionFollowers`, `TombstoneOutlivesEdges`, `ImplementsFollowRelation` | three users in every order of calls: the rows stay an exact double index of the edges and implement the plain relation |
| `content` | `PostsConsistent` (`OneLifeStage`, `AuthorListExact`), `LikeCountExact`, `EscrowCoversReports`, `NoLikeAcrossBlockUnlessRestored`, `NothingOrphaned`, `DeletedStaysDeleted` | two posts through their whole life, two moderators with threshold 2, cleanup one entry at a time |
| `governance` | `GovernanceConsistent` (`QuorumAboveFloor`, `TallyMatchesBallots`, `ExecutedWithQuorum`), `SettledStaysSettled`, `FullTimeLockAfterLastVote` | two proposals that may rewrite the configuration the other depends on: an executed proposal has the approval its creation's quorum terms asked for unless they were rewritten, and waits the full time lock after the last vote unless the window was |
| `transaction_queue` | `SubmissionsSerialised` (`OneSubmitterPerAccount`), `EarlierStepsSucceeded`, `HashesInStepOrder`, `RunsSettle` (`TimedRunSettles`, `EveryRunSettles`) | two queues on one account with left-over workers, lost answers and retries |
| `queue_resume` | `StoreConsistent` (`SavedNeverAhead`), `HashesInOrderOnce`, `Settles` | saves that land in any order, fail or die with the process, and up to two crashes: the record never claims more than the network knows, no hash is reported twice or out of order |
| `event_stream` | `StreamConsistent` (`NothingSkipped`), `GapRecoveredBeforeAdvance`, `EveryPromptEventPublished` | late ledgers, failed fetches and batches, the open backfill circuit and a restart: the window never moves past an event served in time that is not stored, and each is published unless the backfill circuit stays open |
| `projection` | `TablesConsistent` (`TablesConverge`, `CountsMatchRows`), `NoDuplicatePush`, `CatchesUpUnlessStuck` | rollbacks, lost commits, recovery and restarts at every statement of a batch, dispatches await by await beside the bus listener, on a client with and without a connect method |
| `event_fanout` | `QueuesConsistent` (`InOrderOnce`, `DrainNeverStalls`), `MissedBounded`, `SilentPeerForgotten`, `Reconnects` | a slow, cut, silent or misbehaving client |
| `live_inbox` | `InboxConsistent` (`LoadingMeansInFlight`, `NoForeignFollowUnlessSwitched`), `PagesCoverInbox`, `ListsKeepWhatTheyShow` (`ReadStaysRead`, `ArrivalsSurviveRollback`), `LiveLikeListed` | pages, live frames, reads, failures, visits and account switches in every order |
| `dm_relay` | `StoredOnce` (`OnePushPerMessage`, `ResolvedIsStored`), `KeysAndCallsSettle` (`KeysSettle`, `CallsEnd`) | two devices, lost answers, retries of three kinds, expiry, a database fault, shutdown, restart |
| `offline_feed` | `CacheConsistent` (`NoPostLost`, `ShownOnce`), `PostsArrive` | a sync run, a merge and the composer, statement by statement on one connection, with refreshes, evictions and restarts around one post whose text may have been posted before |

A name followed by others in brackets is the conjunction of those; the first
invariant of each run has its module's `TypeOK` as a conjunct.

Properties with a condition in their name or statement say how much of a wish
holds. `NoLikeAcrossBlockUnlessRestored`: a post that was never appealed, and so
never restored, has no like across a block. `NoForeignFollowUnlessSwitched`: no
other account's follow is listed unless the wallet went from one account straight
to another. Section 4 has what lies outside each condition.

* `CatchesUpUnlessStuck`: the stream passes the whole log again and again, unless from
  some time on one of three conditions holds. `SelfBlocked`: the next page has a like
  or tip and a later deletion of the same post. `Overdrawn`: a replayed withdrawal left a
  pool's balance too low. `Unconnectable`: the next page has a like or tip and the
  client has a `connect` method. **The third is the deployed case**: with pg's client no
  page with a like or a tip is ever passed.
* `TablesConverge` leaves out two columns, the balance of a pool and the tips after
  the first. With pg's client it speaks of logs without likes and tips, and then so does
  `CountsMatchRows`; what the two say about like and tip rows is about a client
  without `connect`, for which the handlers were written.
* `NoDuplicatePush`: an event is pushed twice only if a push could not be recorded
  (`unmarked`: the mark failed, its answer was lost, or the process ended between push and
  mark) or if the event was fetched again by the process whose listener was still busy
  with it (`refetched`). Without the second exception it is false: after `CommitUnseen`, or
  when the recovery hands over to the stream, the replaying handler and the listener of
  the first pass can both look before either records.
* `ExecutedWithQuorum` compares an executed proposal with the quorum terms of its
  creation, as long as they were not rewritten while it was open; the code itself reads
  them live.
* `NoPostLost`: the row of a composed post is gone only once the indexer has *a* post of
  that text, and lost only with someone else's transaction that was open when it was
  composed (`caught`). `ShownOnce` is about the committed database, while no BEGIN was
  refused (`crossed`), and not about a text that two drafts share or an earlier post had.
  `PostsArrive` assumes that transactions do not collide for ever (`Colliding`), that
  there is a wallet kit, and that the row was not lost; a post of the same text counts.

### Bounds

* **`social_graph`.** Three users: swap-remove needs a slot that is neither the
  removed nor the last one, and a block needs a third party. Two names: a rename
  and a collision. `MaxEntries = 2`: cleanup that stops in the middle of one side,
  and between the sides. `MaxBlocks = 1`: `FewBlocks` constrains simultaneous
  blocks; they are made and lifted without limit. Blocks of different pairs do not
  interact. The theorems of section 5 need none of these bounds.
* **`content`.** Two posts, two users, an appeal that takes both moderators,
  batches of one entry, one simultaneous block and one appeal per post: likes,
  reports and appeals of different posts share only the escrow, the author's list
  and the block cleanup.
* **`governance`.** `Base` has a vote window of 2 ledgers, a time lock of 1 and a
  quorum of 54 that falls by one point per ledger to a floor of 50 (a tie passes at
  the floor and at no age before it), so `MaxLedger = 5`
  contains vote, lock, execution and the effect of a second configuration. Two
  voters make a tie, a quorum of half and a full turnout. `MaxU32 = 60` stands for
  the largest `u32`: one motion sets a time lock that makes the veto window
  overflow.
* **`transaction_queue`.** Queue `q1` has two steps and two `run()`s, with a step
  timeout, so that a worker of the first run is alive in the second. Queue `q2`
  has one step built with the *same* sequence number as `q1`'s first, and no
  timeout, or runs dry. `MaxAttempts = 2` and `Threshold = 3`: one retry, and a
  breaker that opens only across two steps or runs. `MaxPolls = 1`: the last poll
  is the only one; more polls only repeat a step that changes nothing.
* **`queue_resume`.** Three steps and two saves under way: a snapshot can overtake
  its predecessor with a confirmed, a submitted and a pending step in it. Two
  crashes: one in `run()` and one inside the `resume()` that follows.
* **`event_stream`.** Five ledgers, four events, pages of two: a ledger with two
  events splits over pages, a gap of two ledgers takes two backfill batches. One
  late ledger, two faults, one restart: a gap can fail twice and open the circuit.
* **`projection`.** Logs of three events in the families that notify or have many
  rows, four in the pool and governance families, in pages of two: a page that
  replays half of another. One fault and two restarts, the second within the recovery
  of the first; two users and one post, six families of topics; two calls of the
  listener in flight per event (a call beyond them counts as failed at once).
* **`event_fanout`.** Two slots (an old connection and its replacement), a queue of
  one with one allowed drop, four events of two types, two control frames.
* **`live_inbox`.** Two accounts, a follow and a like of one of them, pages of one:
  the inbox has two pages. One failed request or removed row, two changes of
  account, two user actions. Twice as many of any leaves the time limit without
  a new kind of interleaving: the hooks are two, and each action touches one.
* **`dm_relay`.** Two calls for one message index, the first with one retry, fresh,
  re-signed or identical. All lifetimes are one unit, so keys, rows and replay
  entries expire in every order. One fault: a second one can hold a handler until its
  own message has expired, which is outside what `StoredOnce` promises (section 5).
* **`offline_feed`.** One draft, one earlier post with or without its text, one sync run
  and one merge on the connection, one fault, a cache of two rows and pages of one: the
  draft's page, an eviction, a confirmation and the composer can collide in every order.
  `MaxCopies = 1` new post of the text reaches a ledger. Collisions of two merges or of two
  runs, and two drafts of one text, are beyond the time limit; the theorem covers them.

Sizes: between 35 thousand (`social_graph`) and 4.9 million (`governance`) distinct
states; each run ends within five minutes on two workers.

Symmetry is used for users, names, moderators and voters, which no definition
tells apart; not in the runs that check liveness. Deadlock is checked in the
contract's runs, in `event_stream` and in `offline_feed`; the others may finish.

### The assumption on registration

`SocialGraph` has two specifications. `Spec` is the contract. `CleanSpec` adds
`CleanRegistration`: nobody registers while rows of an earlier registration
remain. **The contract does not enforce this.** `set_profile` writes zero into
both count rows of a new registration, so without the assumption the graph
invariants fail (section 4, orphaned edges). Under `CleanSpec` they hold.
What holds of `Spec` itself is proved of `Spec` (types, names, registry, blocks).

### Fairness

All fairness is weak except for two actions, marked *strong* below.

* `TransactionQueue`, per job: the lock passing to the next waiter, calls with a
  limit of their own (`sendTransaction` and `getTransaction` run under
  `rpcTimeoutMs`), rollback callbacks returning (`Progress`), and timers (`Expire`,
  `TimeoutRollback`). None for the wallet, for `simulateTransaction` and
  `getAccountSequence` (no limit in the code), for the network, or for the caller.
  `TimedRunSettles` holds with just this. `EveryRunSettles` is about runs without a
  timeout, and states as its premise that the wallet and the RPC answer in the end.
* `QueueResume`: the queue's own steps and a save that lands or fails. Not the
  ledger: polling ends by itself. These steps include the wallet's signature and the
  simulation, which have no time limit in the code: `Settles` assumes that both
  answer, which `TransactionQueue` does not.
* `EventStream`: the loop goes on (every wait in it is a timer), ledgers close, and a
  late ledger is served in the end. Faults are never forced.
* `Projection`: the pipeline's own steps (the stream fetches the next page as long
  as there is one). *Strong* for `StreamStarts`: `recoverGap` returns when its gap is
  done or after `circuitBreakerMaxFailures` failed batches, between which no transaction is
  open, so a recovery that fails again and again still hands over to the stream.
* `EventFanout`: the interval of the heartbeat, the auth deadline, the client's
  reconnect timer, send callbacks, and delivery on connections that stand. Frames of
  a cut connection are lost without any fairness. The browser is promised a close
  event for a connection that is cut (`OnClose`). `NotificationsContext.tsx` has no
  heartbeat of its own to notice one, so `Reconnects` rests on the browser's TCP stack
  giving the connection up in the end; the server's side has no such promise.
* `LiveInbox`: requests of a hook and the excerpt's request end.
* `DmRelay`: the relay's event loop, the client's timers, the passing of time, the
  cleanup job, and a restart after a shutdown.
* `OfflineFeed`: sync runs and merges go on, a submitted transaction lands unless it is
  dropped (a counted fault), the indexer indexes. *Strong* for `Refresh`, which stands
  for a user who keeps opening the app: a refresh waits while a merge is under way, and
  other screens start merges without end, but between them the app comes to the
  foreground. The wallet answers in the end (`Submit` or `SubmitFails`).

### Mutants

Each property of a passing run has a mutant in `PROJECT.json`: a definition that
stands beside the one it replaces, marked `Mutant:` in its comment, with a
plausible error (a stale position row, a one-sided cleanup, an ignored guard, a
lock that is not freed on failure). With the mutant in place TLC violates the
property.

## 4. Where the code and its documents disagree

`unfollow_locks_out` is expected to be violated, and shows the shortest sequence of
calls: `tests/invariant_social_graph.rs` 49 says that counts equal rows "for any
sequence of follow/unfollow calls between two fixed users". `swap_remove_from_index`
removes a count row that reaches zero; `follow` takes a missing count row of a
registered user for an expired entry and panics. After its last unfollow a user can
neither follow nor be followed, so most such sequences end in a panic.

The rest was met while the modules were written. No run is kept for it: either a
condition of a checked property marks the place, or the code in question is not
modelled.

**Contract.**
* *Orphaned edges* (`lib.rs` 1114). ADR-002: a tombstone is removed only after every
  index that refers to it is empty. Delete, register again (counts reset to 0),
  delete, clean up: nothing is found to remove, the tombstone goes, the edges stay.
* *Stranded stake* (2347). 3984: a report whose post is gone still gets its stake
  back. `batch_cleanup_post` removes the pending report, so no review can refund it.
* *Restored like* (4422). 4419: likes between the parties are removed "to enforce a
  clean break". The walk reads live posts only; a post removed by moderation at that
  time comes back with the like.
* *Live governance terms* (3184, 3240-3268). `test.rs` 5588-5593: vote window, quorum and
  decay rate "are snapshotted at proposal creation time", and 5650-5728 assert
  `proposal.quorum` and `effective_quorum` after a change; `fuzz_governance.rs` 32 and
  93-117 and `tests/invariants.rs` 9 ("Proposals use snapshotted config at creation time")
  say the same. `GovProposal` has no such fields (only `time_lock_ledgers` is a snapshot):
  `gov_vote`, `gov_execute` and `effective_quorum` read the live configuration. A longer
  window reopens older proposals, and a lower quorum passes a proposal that its own
  terms would refuse. `FullTimeLockAfterLastVote` and `ExecutedWithQuorum` hold of
  proposals whose terms nobody rewrote; they say nothing about the others.
* *Profile count* (1204-1213). The doc of `get_profile_count` (1171-1173) and `test.rs`
  4686-4691 say of `PROF_CT` that it counts addresses that ever registered and "is never
  decremented". `delete_profile` decrements it. `RegistryExact`, which is a conjunct of
  `ProfilesExact`, states what the code does: the counter is the number of profiles that
  exist now, against these documents.
* *Veto window* (3408). `gov_veto` ends its window with the live time lock while
  `gov_execute` waits for the proposal's own: after the time lock was made shorter the
  veto closes before execution opens.
* *Cleanup of a live profile* (1244). ADR-002 43-44: cleanup "only reclaims state that is
  already tombstoned". The tombstone of an earlier deletion is enough, so after a
  re-registration `batch_cleanup_profile` removes the follows of a live profile.
* The `Appeal` row is never removed (4077), so a post restored and moderated again
  cannot be appealed, against 4050 ("only once per moderation decision").

**SDK queue.**
* *Timed-out step* (`queue.ts` 666). 22: past the deadline "the step is treated as a
  failure". The deadline promise rejects only after all rollbacks were awaited; if
  the worker returns meanwhile, `run()` goes on and resolves although earlier steps
  were rolled back.
* *Lost step* (778). A crash between `sendTransaction` and the save of "submitted"
  makes `resume()` report "lost" and send a transaction that is on chain again; the
  sequence guard then refuses it. A second crash after `clear()` (432) forgets
  submitted steps.

**Indexer.**
* *Hole passed over* (`gap-detector.ts` 94). A hole not yet confirmed is reported as
  lag and the stream moves past it; ledgers served after that are never fetched.
  `EveryPromptEventPublished` and `NothingSkipped` are about events served in time.
* *Self-blocked page* (`domain-processor.ts` 579). `stream.ts` 589-590: "The stream
  is never terminated — recovery no longer needs an operator." A page with a like and
  a later deletion of the same post waits for its own row lock until `lock_timeout`,
  rolls back and is fetched again, for ever.
* *Connected client* (`handlers/like.ts` 54, `tip.ts` 56). `domain-processor.ts` 332-334
  and 360-362: the handler "detects it is not a Pool (no .connect method) and issues no
  BEGIN/COMMIT". The client that `pool.connect()` of pg returns has a `connect` method,
  and a second call of it rejects. So in production no like and no tip is written; the
  batch rolls back, and the page is fetched again for ever, with all later events behind
  it. `Projection` has both clients (`connects`); the tests' client has no `connect`.
* *Pushes that overlap* (`notifications/events.ts` 397). The bus listener is not awaited,
  and look-up, push and record are separate awaits. An event that the same process
  handles again while its listener is busy (after a lost commit answer, or when startup
  recovery hands over to the stream) can be pushed by both.
* *Replayed pool balance* (`postgres-db.ts` 851). `pipeline.ts` 53: the processor
  "MUST be idempotent". The balance is adjusted beside the transaction and by a
  difference, so each replay adjusts it again; a replayed withdrawal can violate the
  table's CHECK and then blocks the stream.
* *Tips after the first* (`domain-processor.ts` 330, `handlers/tip.ts` 89). The
  decoded data of a tip holds no transaction hash, so every tip has the hash "" and
  `ON CONFLICT (tx_hash)` stores only the first.
* *Statements the schema refuses.* `handlers/follow.ts` 43 writes `to_timestamp(...)`
  into `follows.created_at`, an INTEGER column (`migrations/003_follows.sql`), and
  `pipeline.ts` 245 casts text to `record[]`, for which PostgreSQL has no input
  function. Projection assumes that both are accepted.
* The domain processor matches topics such as "follow" while the contract's events
  are named structs; `block_user` removes edges and likes without an event, so the
  indexer keeps them; the author of a removed post is never notified
  (`notifications/events.ts` 362-367).
* `gossip.ts` counts peers that disagree instead of peers that agree on one root
  (10-12), and its loop ends for good after a fence; the Merkle root and the
  incremental root of `stateRoot.ts` are different values.
* `graceful-shutdown.ts`: a request is counted as complete on "finish" and on
  "close", so the in-flight counter falls twice.

**DM relay.** `npm start` and `main` of the package are `index.ts`, whose `POST /messages`
(17-22) inserts a row and has neither authentication nor replay cache nor idempotency
key. `DmRelay` models the chain of `routes.ts` 324-379, which `server.ts` mounts; what
the run and the theorems say is about that chain, not about
the started entry. The chain does not link as it stands: `routes.ts` 10 imports
`rateLimitMiddleware`, and `server.ts` 27-31 `initRateLimiters` and others, from
`middleware/rateLimit.ts`, which exports only `buildRateLimitMiddleware`, for `index.ts`.
The limiter of the model is any guard that may refuse a request there.

`idempotency.ts` 4-8: "A retried request with the same key replays the
cached response instead of being reprocessed". An identical retry is refused by the
replay cache (401), a re-signed one has another body and is refused by the
fingerprint (409), and `RelayClient` draws a new key per attempt. A message is
therefore never stored twice, but a retry after a lost answer is told 401 or 409.

**Oracle.** `verify_analytics_attestation` (`lib.rs` 3488) compares unix time, the
oracle passes ledger numbers. A window with one failed creator is retried as a whole;
ticks of the interval overlap.

**Mobile.** The eviction flag in `useFeed.ts` is inverted; the indexer serves no post
text, so the app never recognises its own post and submits it again; two runs may
submit one post twice. `withTransactionAsync` (`db.ts` 271, 356) is not exclusive: a post
composed while a merge or a confirmation is open is rolled back with it if that fails,
and is then neither shown nor submitted; readers see the inside of an open
transaction, so a post beside its optimistic row; a second BEGIN rolls the first caller's
statements back. `reconcilePosts` deletes an optimistic row whose author and text match
*any* post of the page (305-319), so a text posted before takes a new draft away that
was never submitted. Without a wallet kit `new.tsx` 77 calls `syncPendingPosts(null)`,
which throws in a promise nobody catches.

**Web.** A wallet that goes from one account straight to another carries the old
list into the new account's storage. Every like is announced as a like of one's own
post. A follow's `created_at` is a ledger number, so after one "mark all as read"
every later follow is served as read. Frames missed while the socket was down are
not fetched on reconnect. The optimistic follow button shares one snapshot between
two buttons.

## 5. What is proved

For every value of the constants that satisfies the modules' assumptions, and for
behaviours of any length. Every invariant and every action property of every passing
run is also a theorem; what is left to TLC is at the end of this section.

| Module | Theorem | Statement |
| --- | --- | --- |
| `SocialGraphProofs` | `TypeCorrect`, `UsernamesExact`, `RegistryCorrect` | `Spec => []TypeOK`, `[]UsernameIndexExact`, `[]RegistryExact` |
| | `ProfilesStayExact` | `Spec => []ProfilesExact`, the three above together |
| | `BlockIsCleanBreak` | `Spec => []NoEdgeAcrossBlock` |
| | `GraphStaysConsistent` | `CleanSpec => []GraphConsistent` |
| | `TombstoneGoesLast` | `CleanSpec => TombstoneOutlivesEdges` |
| | `RefinesFollowRelation` | `CleanSpec => ImplementsFollowRelation` |
| | `PagesMeetEveryFollower` | `IsFiniteSet(User)`: `CleanSpec => []PagesPartitionFollowers` |
| `GovernanceProofs` | `TypeCorrect`, `GovInvariant` | `Spec => []TypeOK`, `[]GovInv` |
| | `HistoryInvariant`, `GovernanceStaysConsistent` | `HistorySpec => [](TypeOK /\ HistoryInv)`, `[]GovernanceConsistent` |
| | `SettledProposals` | `Spec => SettledStaysSettled` |
| | `TimeLockIsServed` | `HistorySpec => FullTimeLockAfterLastVote` |
| `ContentProofs` | `ContentInvariant` | `Spec => []ContentInv` |
| | `PostRowsAgree`, `LikeCountsAreExact`, `StakesAreCovered` | `Spec => []PostsConsistent`, `[]LikeCountExact`, `[]EscrowCoversReports` |
| | `BlockSeparates`, `CleanupLeavesNothing` | `Spec => []NoLikeAcrossBlockUnlessRestored`, `[]NothingOrphaned` |
| | `DeletionIsFinal` | `Spec => DeletedStaysDeleted` |
| `QueueResumeProofs` | `ResumeInvariant`, `StoreNeverAhead` | `Spec => []ResumeInv`, `[]StoreConsistent` |
| | `HashesStayInOrder` | `Guarded`: `Spec => []HashesInOrderOnce` |
| `TransactionQueueProofs` | `QueueInvariant` | `Spec => []QueueInv` |
| | `WritesAreSerialised`, `StepsRunInOrder` | `Spec => []SubmissionsSerialised`, `[]EarlierStepsSucceeded` |
| | `HashesAscend` | `Guarded`: `Spec => []HashesInStepOrder` |
| `DmRelayProofs` | `RelayInvariant` | `Spec => [](RelayInv /\ StallsCounted)` |
| | `SuccessMeansStored` | `Spec => [](TypeOK /\ ResolvedIsStored)` |
| | `PushedOnce` | `Spec /\ []NoStalePush => []OnePushPerMessage` |
| | `EachMessageOnce` | `MaxFaults =< MessageTtl`: `Spec => []StoredOnce` |
| `EventStreamProofs` | `StreamInvariant`, `NothingIsSkipped` | `Spec => []StreamInv`, `[]StreamConsistent` |
| | `RecoveredGapsAreWhole` | `Spec => GapRecoveredBeforeAdvance` |
| | `FanoutQueues`, `FanoutMissesBounded` | of `EventFanout`: `FanSpec => []QueuesConsistent`, `[]MissedBounded` |
| `ProjectionProofs` | `ProjectionInvariant`, `TablesAreConsistent` | `Spec => []ProjectionInv`, `[]TablesConsistent` |
| | `NotifiedOnce` | `Spec => []NoDuplicatePush` |
| | `InboxIsConsistent`, `InboxPagesCover` | of `LiveInbox`: `WebSpec => []InboxConsistent`, `[]PagesCoverInbox` |
| | `InboxListsKeep` | of `LiveInbox`: `WebSpec => ListsKeepWhatTheyShow` |
| `QueueResumeProofs` | `OfflineCacheConsistent` | of `OfflineFeed`: `FeedSpec => []CacheConsistent` |

Three proof modules extend two components each. Two components extended by one module
share no state and no name, which is why `EventFanout`, `LiveInbox` and `OfflineFeed` call
their specifications `FanSpec`, `WebSpec` and `FeedSpec`, and so for `Init`, `Next` and
`TypeOK`. Nothing is assumed of how the two components of a proof module relate.

Assumptions are those of the modules (`ASSUME`, evaluated by TLC in every run): bounds
are natural numbers, `NoName` is not a name, `None` is not a value it stands beside (nor
`Absent` in `LiveInbox` an account, a cursor, a page or a request), a threshold can be reached. Sets
of posts, calls, transactions, connections and runs may be of any size, users and voters
of the contract even infinite. Finite are the users of `Projection` (a like count is a
number), the notifications of `LiveInbox` and the drafts of `OfflineFeed`. A hypothesis in
the table is not an assumption on the code but marks where a property ends:

* **`Guarded`** is the client's choice to give the queue `getAccountSequence`. Without
  it `HashesInOrderOnce` is false, and TLC has the run: step 1 is confirmed, `run()`
  is called again and simulates it once more, the process dies, `resume()` recovers
  step 2 and then runs step 1. What the queue promises without the guard is
  `StoreNeverAhead`, `WritesAreSerialised` and `StepsRunInOrder`, which have no
  hypothesis.
* **`NoStalePush`** says that no handler of the relay stands between its insert and its
  push until its own message has expired (`messageTtlDays`). If one does, the cleanup
  frees the message index, a retry inserts again and both push. A stall takes a
  fault, so `MaxFaults =< MessageTtl` implies it (`StallsCounted`); with
  `MaxFaults = 2` and `MessageTtl = 1` TLC shows the second push.
* **`IsFiniteSet(User)`**: a page is read up to a count, so the pages meet every
  follower only if there are finitely many.
* **`CleanSpec`** is explained in section 3.

### The inductive invariants

No invariant of section 3 is inductive as it stands. TLC finds no violation of any of
the following on the instances of section 3 either.

* **`GraphInv`** (`SocialGraph`) is `GraphConsistent` and `NoSelfEdge`. Cleanup of user
  `u` drops slots of `u`'s own index and swap-removes `u` from each neighbour's; the
  second is a correct removal only if the neighbour is not `u`. Below it are lemmas
  about one index: `Enumerates(ix, S)` says that slots `0 .. count-1` and positions
  are inverse bijections onto `S`; `AppendToEnumerates`, `SwapRemoveEnumerates` and
  `DropTopEnumerates` say what each operation does to it, `FullPage` and
  `PagesPartition` what pages read back. With `GraphInv` what a reader sees through
  the pages is the set of edges (`VisibleIsEdge`), and each call maps to one abstract
  step or a stutter (`AbstractStep`). `RegistryInv` adds that the registry is finite,
  so that the counter is its size.
* **`GovInv`** adds to types, quorum and tally that the ballots are finitely many, so
  that a new ballot adds one to the count. **`HistoryInv`** carries the history variable:
  while the window of an active proposal is not moved, its last vote lies before the
  end of its vote; while its quorum terms are not rewritten, they are the ones in force
  (`QuorumOfTerms`: the decayed quorum depends on them alone); and an executed
  proposal keeps the approval that was asked of it, because settled ones get no ballot.
* **`ContentInv`** has a part per family of rows. `PostInv`: the three life stages are
  disjoint and lie within the post counter, and a live post stands once in its author's
  list and no other does. `LikeInv`: the likers index of a post enumerates exactly its like
  rows (`Indexed`), which is what makes swap-remove and top-down cleanup correct, and
  the count in the `Post` row is the index's. `ReportInv`: the reporters list
  of a post has the rows of its reports, which are finitely many, and the stakes held
  cover the pending ones.
* **`ResumeInv`** speaks of *every copy* of the step states: the queue's, the stored
  one, each save in flight and the one `resume()` works through. Each is ascending and
  not ahead of the network; because saves land in any order, nothing weaker survives
  `SaveLands` followed by a crash. `Place` ties `pc` to the status of the step at hand.
* **`QueueInv`** centres on `LockSound`: a worker is in the lock's queue from its wait
  to the end of its work, and only the head is past the wait. `WritesAreSerialised`
  is then immediate, for workers that outlived their run too. With the guard, a worker
  past the sequence check has a transaction beyond every hash any queue has listed,
  because listed ones have used up their sequence numbers.
* **`RelayInv`**: an answer 201, on the wire, in the key table or waiting to be recorded,
  belongs to a call whose ciphertext has been stored. **`PushInv`**: at most one handler
  is between insert and push, its row is in the table and nothing has been pushed yet.
* **`StreamInv`**: `PassedIsStored` extends `NothingSkipped` from the window's start to
  the paging token. `PageSound` says that a page in hand has every prompt event that is
  not passed, up to its last event if it is full and up to the RPC's ledger if it is
  short; this is what lets the window move when the page is stored. `RpcSound` and
  `GapSound` together say that a gap under recovery lies outside the confirmation
  window and so holds no ledger still to be served, which is why a recovered gap is
  whole. `PageFacts` is the lemma about `Page` as the first `PageSize` events in
  `(ledger, index)` order.
* **`FanInv`** (`EventFanout`) has `ConnSound` for each slot. `Chained`: what a client has
  read, what is on the wire, what is in `ws.send` and what is queued follow one another
  in the order of publication. `Flow` adds that the events the client qualified for and
  has nowhere in that chain are at most as many as `dropped` counts, as long as both ends
  are open: a head-drop takes one event out of the chain and adds one to the counter, a
  send moves one along it. That an open connection has dropped at most
  `maxDropsBeforeDisconnect` gives `MissedBounded`.
* **`ProjectionInv`** compares each table with *two prefixes* of the log (`TablesSound`).
  Rows that events set and take back (`Tracks`) are compared with what the stream has
  surely passed: nothing while a recovery is under way, because a replay from the first
  event may have been cut short before it, else up to the statement at hand
  (`Sure(Reached)`). What only grows (a post that exists, a vote, a stored tip, a dead
  letter) is compared with everything ever committed or reached (`Seen`; `processed` for
  the committed rows). Between the two a table may be ahead, and then holds what a later
  event wrote. Lemmas per kind of row say that this survives the next event, a shorter
  prefix and a longer log, so rollback, lost commit, recovery, replay and restart are all
  covered without induction over the log. `CountedBeforeDeleted`: a post is marked
  deleted beside the transaction only after the likes and the tip that count on it are
  committed, because an open transaction that inserted them has the row's lock
  (`LocksHeld`). It is what makes `CountsMatchRows` survive a replayed like of a deleted
  post. `PushSound` has `OneCall`: for an event that is in neither history set there is
  one call at a time between its look-up and its record, of the handler or of the
  listener, never both; one about to send finds nothing sent; and what was sent is
  recorded or about to be. An event that is handled again has no listener under way,
  which is exactly what `refetched` excludes.
* **`InboxInv`** (`LiveInbox`): `ListsSound` (each list, stored list and hook belongs to
  the address the hook has, while no direct switch happened), `FetchSound` (a request
  under way asks for the hook's own cursor, and its page, once answered, is of the
  wallet's account) and `Covered`: what the inbox held when the first page was read, and
  still holds, is listed down to the cursor, and a page under way continues from
  there. Below it is a lemma about `PageOf`: the newest `InboxPageSize` rows below a cursor
  are closed upwards (`TopClosed`), so the next cursor leaves nothing between.
* **`FeedInv`** (`OfflineFeed`) says of the rows in the tables *and* of those a rollback
  would restore that a row which is gone has its text indexed, and that a composed post
  without a row was caught in another's transaction (`BothRowsSound`). The post a run is
  about to confirm is one it submitted, at an index that holds its text (`CallSound`).
  Until a BEGIN is refused, one caller holds the open transaction and nobody believes
  to be in one that is not open (`OneHolder`). Under it a waiting row stands beside its
  own post only between the upsert and the delete of one merge, or before that merge's
  rollback, and never in what the transaction saved (`ApartUntilCrossed`).

The proof of `InboxInv` corrected the model. The guard of a failing "mark all as read"
compared the owner with the wallet's address. The induction step failed for a page that
had been left: its list is not the wallet's any more. The code compares with the hook's
`addressRef`, which is now the variable `addr`.

The proofs have one lemma per action, and under it one step per part of the invariant
that the action can disturb. A batch that rolls back, a lost acknowledgement, a crash and
a restart are such actions, so each theorem covers them in any number.

### Only model-checked

* Liveness (`RunsSettle`, `Settles`, `EveryPromptEventPublished`, `CatchesUpUnlessStuck`,
  `SilentPeerForgotten`, `Reconnects`, `LiveLikeListed`, `KeysAndCallsSettle`,
  `PostsArrive`): the prover has no rules for fairness and `ENABLED`.

## 6. What is not modelled

* `rent_grace.rs`, `upgrade_hardening.rs` and `username_rename.rs` are in the
  crate's directory but `lib.rs` declares no `mod` for them: they are not built.
* Edits, content hashes and reputation of posts; delegation rows of governance,
  which no vote reads; the amounts of slashing.
* Row expiry (TTL) is done by the host between calls. A count row can vanish that
  way as well as through `unfollow`; the model has only the second way.
* Contract: tips, pools, roles and upgrade, credentials, commit-reveal, migration,
  attestations, and the two smaller contracts. They are single-row operations whose
  arithmetic the code checks itself; what is worth a model is in the plan.
* Indexer: state roots and gossip (hashes over whole tables), retention, read-only
  queries, the response cache; the stream's abort signal and its path without a
  backfill coordinator; creator tokens; the gossip replay beside the stream, and the
  pruning of `sent_notifications` (`NotificationRetentionManager` is not started by `index.ts`).
* DM relay: reading and acknowledging messages, typing notices, and the entry `index.ts`
  (one INSERT).
* Mobile: the message outbox (the confirm protocol of posts again, over the relay),
  the wallet bridge, the `loaded` and `hasMore` flags of the feed. Web: tip toasts, the unread badge, optimistic buttons.
* Presentation code, generated bindings, code generation, stateless encoders. They
  are most of the repository: of some 92 thousand lines the modules cover the five
  thousand in which processes, calls or messages interact. Screens and RPC encoders
  keep no state that another part depends on, and a model of them would repeat them.

## 7. Plan

All safety properties of the runs are proved. What would be modelled next, the most
consequential behaviour first:

1. **Money**: tips with cooldown and fee split, pools with thresholds; conservation.
2. **Migration** on top of `SocialGraph` (edges written past blocks and tombstones),
   the veto window against the proposal's own time lock.
3. **Gossip** and oracle ticks, once their comments and code agree.

Runs are kept few. A run that asks a question a stronger one answers is replaced
by it.

## Running

In this directory: `tlc -config SocialGraph.cfg MCSocialGraph` (the pairs of
module and configuration are in `PROJECT.json`), `tlapm SocialGraphProofs.tla` (each
of the eight `*Proofs` modules on its own; the longest take several minutes).
