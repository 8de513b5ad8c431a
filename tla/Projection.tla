----------------------------- MODULE Projection -----------------------------
(***************************************************************************)
(* How the indexer projects contract events into its tables: the domain     *)
(* processor, its handlers and the push notifications, inside and beside    *)
(* the transaction of the ingest pipeline.                                  *)
(*                                                                          *)
(* Follows, blocks, likes, tips, DM keys and dead letters are written with  *)
(* the transaction's client and commit or roll back with the batch.  Posts, *)
(* profiles, pools, reports and proposals are written through the pool, on  *)
(* another connection, and stay written when the batch rolls back.  A       *)
(* failed batch is fetched again; a restarted process first recovers what   *)
(* lies behind the cursor in the database, and then streams the log from    *)
(* its first event (EventStream models the fetching).                       *)
(*                                                                          *)
(* handleLike and handleTip tell a pool from a client by a connect method.  *)
(* The client type the pipeline declares, which its tests implement, has    *)
(* none; the client pg hands out has one, and rejects a second connect.     *)
(* connects says which client the batch runs on.                            *)
(*                                                                          *)
(* One author owns every post and one pool takes deposits; users follow the *)
(* author, who may block them, like, tip and report the posts, vote on one  *)
(* proposal, and set their profile and DM key.  The topics are those the    *)
(* domain processor matches; the contract's event structs are named         *)
(* differently (FollowEvent, PostCreatedEvent), and an event whose first    *)
(* topic the processor does not know changes no table.                      *)
(*                                                                          *)
(* Assumed: the schema takes the types of the values the statements write.  *)
(* The README names two statements of which this is doubtful.               *)
(***************************************************************************)
EXTENDS Integers, Sequences, FiniteSets

CONSTANTS
    Users, Posts,
    Families,     \* bound: sets of topics, and how many events of one of them a log holds
    MaxLog,       \* bound: events the contract emits
    PageSize,     \* MAX_EVENTS_PER_PAGE, and what a batch of the recovery holds
    MaxListening, \* bound: calls of the bus listener in flight for one event
    MaxFaults,    \* bound: statements that fail, answers that are lost
    MaxCrashes    \* bound: restarts

ASSUME ProjectionAssumption ==
    PageSize \in Nat \ {0} /\ MaxLog \in Nat /\ IsFiniteSet(Users)

VARIABLES
    connects,   \* whether the client of the batch has a connect method
    log,        \* the contract's events, oldest first
    at,         \* events the stream, or the recovery, has passed
    processed,  \* processed_cursor: events of committed batches
    recovering, \* whether the process is still in its startup recovery
    rows,       \* tables written inside the transaction: follows, blocks, likes,
                \* tips (and the counts on posts), dm_keys, dead_letter_events
    direct,     \* tables written beside it: posts, profiles, pools, reports, proposals
    tx,         \* the open transaction, and the step of the handler it is in
    listening,  \* calls of the bus listener in flight, by event and step
    sent,       \* pushes sent for each event
    marked,     \* sent_notifications: events recorded as notified
    unmarked,   \* history: events whose push was sent and could not be recorded
    refetched,  \* history: events handled again while their listener was in flight
    faults, crashes

place == <<at, processed, recovering>>
tables == <<rows, direct>>
pushes == <<sent, marked, unmarked>>
bounds == <<faults, crashes>>
vars == <<connects, log, place, tables, tx, listening, pushes, refetched, bounds>>

\* Topics that carry no user, or no post, hold None there.
None == "none"
OnPost == {"post_created", "post_deleted", "post_removed", "like", "tip",
           "post_reported", "report_dismissed"}
NoUser == {"post_created", "post_deleted", "post_removed", "tip", "pool_created",
           "pool_deposit", "pool_withdraw", "gov_proposal_created",
           "gov_proposal_executed", "gov_proposal_vetoed", "malformed"}
Event(k, u, p) == [kind |-> k, user |-> IF k \in NoUser THEN None ELSE u,
                   post |-> IF k \in OnPost THEN p ELSE None]
Of(k) == {i \in DOMAIN log : log[i].kind = k}
OfPost(k, p) == {i \in Of(k) : log[i].post = p}
OfUser(k, u) == {i \in Of(k) : log[i].user = u}
OfPair(k, u, p) == OfUser(k, u) \cap OfPost(k, p)
\* The latest event among the two sets belongs to the first.
Latest(on, off) == \E i \in on : \A j \in off : j < i

(***************************************************************************)
(* The contract: what it may emit next, and what the tables should hold    *)
(* once all of it is projected.                                            *)
(***************************************************************************)
Live(p) == OfPost("post_created", p) # {}
           /\ OfPost("post_deleted", p) \cup OfPost("post_removed", p) = {}
\* What the events of follows say, and what the contract holds: block_user
\* removes the edge and emits no unfollow.
FollowEmitted(u) == Latest(OfUser("follow", u), OfUser("unfollow", u))
Following(u) == Latest(OfUser("follow", u), OfUser("unfollow", u) \cup OfUser("block", u))
Blocked(u) == Latest(OfUser("block", u), OfUser("unblock", u))
HasProfile(u) == Latest(OfUser("profile_set", u), OfUser("profile_deleted", u))
Admin(u) == Latest(OfUser("pool_admin_added", u), OfUser("pool_admin_removed", u))
Pending(u, p) == Latest(OfPair("post_reported", u, p),
                        OfPair("report_dismissed", u, p) \cup OfPost("post_removed", p))
HeldAfter(n) == Cardinality(Of("pool_deposit") \cap 1..n)
                - Cardinality(Of("pool_withdraw") \cap 1..n)
Open == Of("gov_proposal_created") # {}
        /\ Of("gov_proposal_executed") \cup Of("gov_proposal_vetoed") = {}

Emittable(e) ==
    CASE e.kind = "post_created" -> OfPost("post_created", e.post) = {}
      [] e.kind = "like" -> Live(e.post) /\ OfPair("like", e.user, e.post) = {}
      [] e.kind \in {"tip", "post_deleted"} -> Live(e.post)
      [] e.kind = "post_reported" -> Live(e.post) /\ ~Pending(e.user, e.post)
      [] e.kind = "report_dismissed" -> Pending(e.user, e.post)
      [] e.kind = "post_removed" -> Live(e.post) /\ \E u \in Users : Pending(u, e.post)
      [] e.kind = "follow" -> ~Following(e.user) /\ ~Blocked(e.user)
      [] e.kind = "unfollow" -> Following(e.user)
      [] e.kind = "block" -> ~Blocked(e.user)
      [] e.kind = "unblock" -> Blocked(e.user)
      [] e.kind = "profile_deleted" -> HasProfile(e.user)
      [] e.kind = "pool_created" -> Of("pool_created") = {}
      [] e.kind = "pool_deposit" -> Of("pool_created") # {}
      [] e.kind = "pool_withdraw" -> HeldAfter(Len(log)) > 0
      [] e.kind = "pool_admin_added" -> Of("pool_created") # {} /\ ~Admin(e.user)
      [] e.kind = "pool_admin_removed" -> Admin(e.user)
      [] e.kind = "gov_proposal_created" -> Of("gov_proposal_created") = {}
      [] e.kind = "gov_vote" -> Open /\ OfUser("gov_vote", e.user) = {}
      [] e.kind \in {"gov_proposal_executed", "gov_proposal_vetoed"} -> Open
      [] OTHER -> TRUE

Emit ==
    /\ Len(log) < MaxLog
    /\ \E f \in Families : \E k \in f.topics, u \in Users, p \in Posts :
          /\ {log[i].kind : i \in DOMAIN log} \subseteq f.topics /\ Len(log) < f.events
          /\ Emittable(Event(k, u, p))
          /\ log' = Append(log, Event(k, u, p))
    /\ UNCHANGED <<connects, place, tables, tx, listening, pushes, refetched, bounds>>

(***************************************************************************)
(* The handlers.                                                           *)
(***************************************************************************)
handleFollow(r, u) == [r EXCEPT !.follows = @ \cup {u}]
handleUnfollow(r, u) == [r EXCEPT !.follows = @ \ {u}]
handleBlock(r, u) == [r EXCEPT !.blocks = @ \cup {u}]
handleUnblock(r, u) == [r EXCEPT !.blocks = @ \ {u}]
\* The value of a key or a profile is the position of its event.
handleDmKeyPublished(r, u, i) == [r EXCEPT !.dmKey[u] = i]
deadLetter(r, i) == [r EXCEPT !.dead = @ \cup {i}]

\* Mutant: the count grows with every delivery of the event.
handleLikeEveryTime(r, u, p) ==
    [r EXCEPT !.likes = @ \cup {<<u, p>>},
              !.count[p] = IF direct.posts[p] = "live" THEN @ + 1 ELSE @]

\* ON CONFLICT DO NOTHING, and the count only when the row was inserted.
handleLike(r, u, p) ==
    IF <<u, p>> \in r.likes THEN r
    ELSE [r EXCEPT !.likes = @ \cup {<<u, p>>},
                   !.count[p] = IF direct.posts[p] = "live" THEN @ + 1 ELSE @]

\* ON CONFLICT (tx_hash) DO NOTHING: the decoded data of a tip holds no hash, so
\* every tip is inserted with the empty one and only the first is stored.
handleTip(r, p) ==
    IF r.tips # << >> THEN r
    ELSE [r EXCEPT !.tips = <<p>>,
                   !.total[p] = IF direct.posts[p] = "live" THEN @ + 1 ELSE @]

insertPost(d, p) == [d EXCEPT !.posts[p] = IF @ = "none" THEN "live" ELSE @]
markPostDeleted(d, p) == [d EXCEPT !.posts[p] = IF @ = "live" THEN "deleted" ELSE @]
insertReport(d, u, p) == [d EXCEPT !.pending = @ \cup {<<u, p>>}]
updateReportStatus(d, u, p) == [d EXCEPT !.pending = @ \ {<<u, p>>}]
handlePostRemovedByModeration(d, p) ==
    [markPostDeleted(d, p) EXCEPT !.pending = {r \in @ : r[2] # p}]
upsertProfile(d, u, i) == [d EXCEPT !.profile[u] = i]
deleteProfile(d, u) == [d EXCEPT !.profile[u] = 0]
\* Statements on the pool's row change nothing before it is there.
insertPool(d) == [d EXCEPT !.pool = TRUE]
addPoolAdmin(d, u) == IF d.pool THEN [d EXCEPT !.admins = @ \cup {u}] ELSE d
removePoolAdmin(d, u) == IF d.pool THEN [d EXCEPT !.admins = @ \ {u}] ELSE d
adjustPoolBalance(d, delta) == IF d.pool THEN [d EXCEPT !.balance = @ + delta] ELSE d
upsertGovernanceProposal(d) == [d EXCEPT !.status = "Active"]
updateGovernanceProposalStatus(d, status) ==
    [d EXCEPT !.status = IF @ = "none" THEN @ ELSE status]
insertGovernanceVote(d, u) ==
    IF u \in d.voters THEN d ELSE [d EXCEPT !.voters = @ \cup {u}, !.tally = @ + 1]

\* The row of the post the statement updates through the pool.
UpdatesRow(e) == IF e.kind \in {"post_deleted", "post_removed"} THEN {e.post} ELSE {}

\* What processEvent does with the event at position i.
OnClient(i, r) ==
    LET e == log[i]
    IN  CASE e.kind = "follow" -> handleFollow(r, e.user)
          [] e.kind = "unfollow" -> handleUnfollow(r, e.user)
          [] e.kind = "block" -> handleBlock(r, e.user)
          [] e.kind = "unblock" -> handleUnblock(r, e.user)
          [] e.kind = "like" -> handleLike(r, e.user, e.post)
          [] e.kind = "tip" -> handleTip(r, e.post)
          [] e.kind = "dm_key_published" -> handleDmKeyPublished(r, e.user, i)
          [] e.kind = "malformed" -> deadLetter(r, i)
          [] OTHER -> r

OnPool(i, d) ==
    LET e == log[i]
    IN  CASE e.kind = "post_created" -> insertPost(d, e.post)
          [] e.kind = "post_deleted" -> markPostDeleted(d, e.post)
          [] e.kind = "post_removed" -> handlePostRemovedByModeration(d, e.post)
          [] e.kind = "post_reported" -> insertReport(d, e.user, e.post)
          [] e.kind = "report_dismissed" -> updateReportStatus(d, e.user, e.post)
          [] e.kind = "profile_set" -> upsertProfile(d, e.user, i)
          [] e.kind = "profile_deleted" -> deleteProfile(d, e.user)
          [] e.kind = "pool_created" -> insertPool(d)
          [] e.kind = "pool_deposit" -> adjustPoolBalance(d, 1)
          [] e.kind = "pool_withdraw" -> adjustPoolBalance(d, -1)
          [] e.kind = "pool_admin_added" -> addPoolAdmin(d, e.user)
          [] e.kind = "pool_admin_removed" -> removePoolAdmin(d, e.user)
          [] e.kind = "gov_proposal_created" -> upsertGovernanceProposal(d)
          [] e.kind = "gov_vote" -> insertGovernanceVote(d, e.user)
          [] e.kind = "gov_proposal_executed" -> updateGovernanceProposalStatus(d, "Executed")
          [] e.kind = "gov_proposal_vetoed" -> updateGovernanceProposalStatus(d, "Vetoed")
          [] OTHER -> d

(***************************************************************************)
(* Notifications: dispatchNotificationForBusEvent, one step per await.     *)
(* Handlers await it after their statements; the bus listener calls it for *)
(* every published event and does not.  Of its steps, "author" looks up    *)
(* the author of a live post, "check" asks sent_notifications, "send" is   *)
(* the push and "mark" records it.                                         *)
(***************************************************************************)
AboutPost == {"like", "tip", "post_reported", "post_removed"}
Notifying == {"follow", "report_dismissed"} \cup AboutPost
Steps == {"author", "check", "send", "mark"}
FirstStep(e) == IF e.kind \in AboutPost THEN "author" ELSE "check"

\* Mutant: sent_notifications is not consulted.
DispatchedNever(i) == FALSE

AlreadyDispatched(i) == i \in marked

Fault == faults < MaxFaults /\ faults' = faults + 1

\* The call for event i goes from step s to step t.  There may be no device to
\* send to, or no attempt succeeds.
Await(i, s, t) ==
    \/ /\ s = "author"
       /\ t = IF direct.posts[log[i].post] = "live" THEN "check" ELSE "done"
       /\ UNCHANGED <<pushes, faults>>
    \/ /\ s = "check"
       /\ t = IF AlreadyDispatched(i) THEN "done" ELSE "send"
       /\ UNCHANGED <<pushes, faults>>
    \/ /\ s = "send" /\ t = "done" /\ Fault
       /\ UNCHANGED pushes
    \/ /\ s = "send" /\ t = "mark"
       /\ sent' = [sent EXCEPT ![i] = @ + 1]
       /\ UNCHANGED <<marked, unmarked, faults>>
    \/ /\ s = "mark" /\ t = "done"
       /\ marked' = marked \cup {i}
       /\ UNCHANGED <<sent, unmarked, faults>>

(***************************************************************************)
(* The transaction of one batch.                                           *)
(***************************************************************************)
NoRows == [follows |-> {}, blocks |-> {}, likes |-> {}, count |-> [p \in Posts |-> 0],
           tips |-> << >>, total |-> [p \in Posts |-> 0], dmKey |-> [u \in Users |-> 0],
           dead |-> {}]
\* step is "run", or the step of the dispatch for the event before next.
NoTx == [open |-> FALSE, next |-> 0, to |-> 0, rows |-> NoRows, locks |-> {}, step |-> "run"]

PageEnd == IF at + PageSize < Len(log) THEN at + PageSize ELSE Len(log)

Begin ==
    /\ ~tx.open /\ at < Len(log)
    /\ tx' = [open |-> TRUE, next |-> at + 1, to |-> PageEnd, rows |-> rows, locks |-> {},
              step |-> "run"]
    /\ UNCHANGED <<connects, log, place, tables, listening, pushes, refetched, bounds>>

Processing == tx.open /\ tx.step = "run" /\ tx.next <= tx.to

\* handleLike and handleTip connect what they take for a pool.
Reconnects == connects /\ log[tx.next].kind \in {"like", "tip"}

\* A statement through the pool that updates a row the open transaction has
\* updated waits for it in vain: nothing commits until the handler returns.
OwnLock == UpdatesRow(log[tx.next]) \cap tx.locks # {}

\* Mutant: a report updates the row of its post in the transaction too.
LocksTakenByReports(e) ==
    IF e.kind \in {"like", "tip", "post_reported"} /\ direct.posts[e.post] = "live"
    THEN {e.post} ELSE {}

\* The rows of posts that a like or tip of the open transaction updates.
LocksTaken(e) ==
    IF /\ \/ e.kind = "like" /\ <<e.user, e.post>> \notin tx.rows.likes
          \/ e.kind = "tip" /\ tx.rows.tips = << >>
       /\ direct.posts[e.post] = "live"
    THEN {e.post} ELSE {}

\* CHECK (balance >= 0) of the pools table refuses the statement.
Overdraws == log[tx.next].kind = "pool_withdraw" /\ direct.pool /\ direct.balance = 0

\* A call of the bus listener for event i has not returned.
InFlight(i) == \E s \in Steps : listening[i][s] > 0

\* The statements of the handler of one event; then it dispatches.
ProcessEvent ==
    /\ Processing /\ ~Reconnects /\ ~OwnLock /\ ~Overdraws
    /\ LET e == log[tx.next]
       IN  /\ direct' = OnPool(tx.next, direct)
           /\ tx' = [tx EXCEPT !.next = @ + 1, !.rows = OnClient(tx.next, @),
                               !.locks = @ \cup LocksTaken(e),
                               !.step = IF e.kind \in Notifying THEN FirstStep(e) ELSE "run"]
    /\ refetched' = IF InFlight(tx.next) THEN refetched \cup {tx.next} ELSE refetched
    /\ UNCHANGED <<connects, log, place, rows, listening, pushes, bounds>>

HandlerDispatches ==
    /\ tx.open /\ tx.step \in Steps
    /\ \E t \in Steps \cup {"done"} :
          /\ Await(tx.next - 1, tx.step, t)
          /\ tx' = [tx EXCEPT !.step = IF t = "done" THEN "run" ELSE t]
    /\ UNCHANGED <<connects, log, place, tables, listening, refetched, crashes>>

\* connect, lock_timeout, or a constraint: the batch rolls back and is fetched
\* again.
StatementRefused ==
    /\ Processing /\ (Reconnects \/ OwnLock \/ Overdraws)
    /\ tx' = NoTx
    /\ UNCHANGED <<connects, log, place, tables, listening, pushes, refetched, bounds>>

\* A statement, an await of the dispatch, or COMMIT fails.
RollBack ==
    /\ tx.open /\ Fault
    /\ tx' = NoTx
    /\ unmarked' = IF tx.step = "mark" THEN unmarked \cup {tx.next - 1} ELSE unmarked
    /\ UNCHANGED <<connects, log, place, tables, listening, sent, marked, refetched, crashes>>

\* COMMIT is executed.
Committed ==
    /\ tx.open /\ tx.step = "run" /\ tx.next > tx.to
    /\ rows' = tx.rows
    /\ processed' = IF tx.to > processed THEN tx.to ELSE processed
    /\ tx' = NoTx

\* Each event of the batch is published, and the listener called with it.  A call
\* beyond the bound is taken for one that failed at once.
Calls(i) == listening[i]["author"] + listening[i]["check"] + listening[i]["send"] + listening[i]["mark"]
Publish ==
    listening' = [i \in 1..MaxLog |->
                    IF i \in (at + 1)..tx.to /\ log[i].kind \in Notifying /\ Calls(i) < MaxListening
                    THEN [listening[i] EXCEPT ![FirstStep(log[i])] = @ + 1] ELSE listening[i]]

Commit ==
    /\ Committed /\ Publish
    /\ at' = tx.to
    /\ UNCHANGED <<connects, log, recovering, direct, pushes, refetched, bounds>>

\* The batch is committed, but its caller sees an error and fetches it again:
\* the answer to COMMIT is lost, or, once the events are published, onCommit or
\* the stream's own cursor fails.
CommitUnseen(published) ==
    /\ Committed /\ Fault
    /\ IF published THEN Publish ELSE UNCHANGED listening
    /\ UNCHANGED <<connects, log, at, recovering, direct, pushes, refetched, crashes>>

(***************************************************************************)
(* The bus listener of attachNotificationDispatcher, and lost answers.     *)
(***************************************************************************)
Returned(i, s) == [listening EXCEPT ![i][s] = @ - 1]

ListenerDispatches(i) ==
    /\ \E s \in Steps, t \in Steps \cup {"done"} :
          /\ listening[i][s] > 0
          /\ Await(i, s, t)
          /\ listening' = IF t = "done" THEN Returned(i, s) ELSE [Returned(i, s) EXCEPT ![i][t] = @ + 1]
    /\ UNCHANGED <<connects, log, place, tables, tx, refetched, crashes>>

\* An await of it fails, which is logged.
ListenerFails(i) ==
    /\ Fault
    /\ \E s \in Steps :
          /\ listening[i][s] > 0
          /\ listening' = Returned(i, s)
          /\ unmarked' = IF s = "mark" THEN unmarked \cup {i} ELSE unmarked
    /\ UNCHANGED <<connects, log, place, tables, tx, sent, marked, refetched, crashes>>

\* Some call for event i is at step s.
AtStep(i, s) == listening[i][s] > 0 \/ (tx.open /\ tx.step = s /\ tx.next = i + 1)

\* dispatchEventNotification tries again after a push whose answer is lost, or
\* whose row in notification_outbox could not be deleted.
PushUnanswered(i) ==
    /\ AtStep(i, "send") /\ Fault
    /\ sent' = [sent EXCEPT ![i] = @ + 1]
    /\ unmarked' = unmarked \cup {i}
    /\ UNCHANGED <<connects, log, place, tables, tx, listening, marked, refetched, crashes>>

(***************************************************************************)
(* The process.                                                            *)
(***************************************************************************)
NoListeners == [i \in 1..MaxLog |-> [s \in Steps |-> 0]]

\* With a cursor in the database, recoverGap first processes what follows it.
Restart ==
    /\ crashes < MaxCrashes /\ crashes' = crashes + 1
    /\ at' = processed /\ recovering' = (processed > 0)
    /\ tx' = NoTx
    /\ unmarked' = unmarked \cup {i \in 1..MaxLog : AtStep(i, "mark")}
    /\ listening' = NoListeners
    /\ UNCHANGED <<connects, log, processed, tables, sent, marked, refetched, faults>>

\* The recovery ends, or fails, and the stream starts at START_LEDGER.  What the
\* recovery published is still being dispatched.
StreamStarts ==
    /\ recovering /\ ~tx.open
    /\ recovering' = FALSE /\ at' = 0
    /\ UNCHANGED <<connects, log, processed, tables, tx, listening, pushes, refetched, bounds>>

Init ==
    /\ connects \in BOOLEAN
    /\ log = << >> /\ at = 0 /\ processed = 0 /\ recovering = FALSE
    /\ rows = NoRows
    /\ direct = [posts |-> [p \in Posts |-> "none"], pending |-> {},
                 profile |-> [u \in Users |-> 0], pool |-> FALSE, balance |-> 0,
                 admins |-> {}, status |-> "none", voters |-> {}, tally |-> 0]
    /\ tx = NoTx /\ listening = NoListeners
    /\ sent = [i \in 1..MaxLog |-> 0] /\ marked = {} /\ unmarked = {} /\ refetched = {}
    /\ faults = 0 /\ crashes = 0

Pipeline == Begin \/ ProcessEvent \/ HandlerDispatches \/ StatementRefused \/ Commit

Next ==
    \/ Emit
    \/ Pipeline
    \/ RollBack
    \/ \E published \in BOOLEAN : CommitUnseen(published)
    \/ \E i \in 1..MaxLog : ListenerDispatches(i) \/ ListenerFails(i) \/ PushUnanswered(i)
    \/ Restart \/ StreamStarts

\* The stream keeps fetching and processing; statements may fail, but need not.
\* The recovery gives up after circuitBreakerMaxFailures batches.
Spec == Init /\ [][Next]_vars /\ WF_vars(Pipeline) /\ SF_vars(StreamStarts)

(***************************************************************************)
(* Properties.                                                             *)
(***************************************************************************)
\* A transaction holds a range of the log that follows what the stream has
\* passed, and a push is recorded only if it was sent.
TypeOK ==
    /\ at \in 0..Len(log) /\ processed \in at..Len(log)
    /\ tx.open => /\ tx.to \in (at + 1)..Len(log) /\ tx.next \in (at + 1)..(tx.to + 1)
                  /\ tx.to - at <= PageSize
    /\ rows.likes \subseteq Users \X Posts /\ rows.follows \subseteq Users
    /\ rows.count \in [Posts -> 0..Cardinality(Users)]
    /\ direct.posts \in [Posts -> {"none", "live", "deleted"}]
    /\ direct.status \in {"none", "Active", "Executed", "Vetoed"}
    /\ direct.balance >= 0
    /\ \A i \in marked : sent[i] >= 1
    /\ listening \in [1..MaxLog -> [Steps -> Nat]]
    /\ \A i \in 1..MaxLog : InFlight(i) => i <= processed /\ log[i].kind \in Notifying

CaughtUp == ~recovering /\ ~tx.open /\ at = Len(log)

Shown(holds, kind, u) == IF holds THEN CHOOSE i \in OfUser(kind, u) :
                                           \A j \in OfUser(kind, u) : j <= i ELSE 0

\* Whenever the stream has passed the whole log, the tables say what the
\* events say, whatever rolled back, was retried, recovered or replayed before.  Two
\* columns are left out because they do not: a pool's balance, which every
\* replay of a deposit or withdrawal moves again, and the tips after the first.
TablesConverge ==
    CaughtUp =>
        /\ \A u \in Users :
              /\ (u \in rows.follows) = FollowEmitted(u)
              /\ (u \in rows.blocks) = Blocked(u)
              /\ direct.profile[u] = Shown(HasProfile(u), "profile_set", u)
              /\ rows.dmKey[u] = Shown(OfUser("dm_key_published", u) # {}, "dm_key_published", u)
              /\ (u \in direct.admins) = Admin(u)
        /\ \A p \in Posts :
              /\ (direct.posts[p] = "live") = Live(p)
              /\ (direct.posts[p] = "none") = (OfPost("post_created", p) = {})
              /\ \A u \in Users : (<<u, p>> \in direct.pending) = Pending(u, p)
        /\ (direct.status = "Active") = Open
        /\ direct.tally = Cardinality(Of("gov_vote"))
        /\ rows.dead = Of("malformed")

\* The stored counts of a post agree with its like and tip rows, deleted posts
\* included: no row is inserted without being counted.
CountsMatchRows ==
    \A p \in Posts :
        /\ rows.count[p] = Cardinality({l \in rows.likes : l[2] = p})
        /\ rows.total[p] = Cardinality({i \in DOMAIN rows.tips : rows.tips[i] = p})

\* Every event is dispatched by its handler, again from the bus, and again on
\* every retry and replay, by calls that look, push and record in separate
\* awaits.  It is pushed twice only if a push was sent and could not be
\* recorded, or if the event was handled again in the process whose listener
\* was still busy with it.
NoDuplicatePush ==
    \A i \in DOMAIN log : sent[i] > 1 => i \in unmarked \cup refetched

\* The next page holds a like or tip and a later deletion of the same post.
SelfBlocked ==
    \E i, j \in (at + 1)..PageEnd :
        /\ i < j /\ log[i].post = log[j].post
        /\ log[i].kind \in {"like", "tip"} /\ log[j].kind \in {"post_deleted", "post_removed"}

\* A withdrawal that was written by a batch that then rolled back is written
\* once more, and the balance no longer covers it.
Overdrawn == direct.balance < HeldAfter(at)

\* The next page holds a like or tip, and the client of the batch is pg's.
Unconnectable == connects /\ \E i \in (at + 1)..PageEnd : log[i].kind \in {"like", "tip"}

\* The stream passes the whole log again and again, unless one of these three
\* keeps it from passing a page.
CatchesUpUnlessStuck == []<>CaughtUp \/ <>[](SelfBlocked \/ Overdrawn \/ Unconnectable)

\* The tables written inside and beside the transaction: well formed, equal to
\* what the events say once the log is passed, counts equal to rows at all times.
TablesConsistent == TypeOK /\ TablesConverge /\ CountsMatchRows
=============================================================================
