---------------------------- MODULE OfflineFeed ----------------------------
(***************************************************************************)
(* The mobile app's post cache: the feed hook that fetches pages into       *)
(* SQLite, the optimistic rows a new post leaves there, and the background  *)
(* runs that submit those rows and swap them for the indexed post.  Any     *)
(* number of runs overlap: the composer starts one for every post and every *)
(* feed sync starts another.                                                *)
(*                                                                          *)
(* All callers share one SQLite connection, and withTransactionAsync is not *)
(* exclusive: a statement of another caller runs inside the transaction     *)
(* that is open, a second BEGIN is refused, and the ROLLBACK its catch then *)
(* issues undoes whatever transaction is open.  So every statement is a     *)
(* step of its own here.                                                    *)
(*                                                                          *)
(* A post's id is its position in the chain, so larger ids are newer.  The  *)
(* chain holds texts of this account and Other for anyone else's post; two  *)
(* drafts may have the same text, and an earlier post may have it too.      *)
(* served says whether the indexer returns texts at all: the app is written *)
(* for both, and the contract's PostCreatedEvent carries none.              *)
(***************************************************************************)
EXTENDS Integers, Sequences, FiniteSets, FiniteSetsExt

CONSTANTS
    None,
    Drafts,      \* posts composed on this device
    Texts,       \* what this account writes
    Text,        \* the text of each draft
    Other,       \* any other account's post
    Slots,       \* bound: calls of reconcilePosts and mergeDmDeltas in flight together
    Runs,        \* bound: syncPendingPosts calls in flight together
    PageSize,    \* PAGE_SIZE, and AUTHOR_POSTS_PAGE_SIZE
    MaxRows,     \* maxRows of evictStaleCache
    Earlier,     \* how many posts are on the chain when the app is installed
    MaxCopies,   \* bound: new posts of one text that reach a ledger
    MaxFaults    \* bound: failed calls, dropped transactions and app restarts

ASSUME OfflineFeedAssumption ==
    /\ None \notin Drafts /\ Other \notin Texts
    /\ IsFiniteSet(Drafts) /\ Text \in [Drafts -> Texts]
    /\ PageSize \in Nat \ {0} /\ MaxRows \in Nat \ {0}
    /\ MaxCopies \in Nat \ {0} /\ Earlier \in Nat /\ MaxFaults \in Nat

VARIABLES
    chain,     \* the texts on the chain, oldest first
    sent,      \* transactions the wallet submitted that are in no ledger yet
    indexed,   \* how many posts of the chain the indexer has
    served,    \* whether the indexer returns the texts of posts
    kit,       \* whether the wallet kit is there: without it nothing is submitted
    local,     \* the optimistic row of each draft
    cache,     \* ids of the rows with sync_status 'synced'
    txn,       \* the connection's transaction: open, and the tables at its BEGIN
    composer,  \* handleSubmit of each draft
    caught,    \* history: drafts inserted into a transaction of someone else
    crossed,   \* history: some BEGIN did not get its transaction
    feed,      \* useFeed: the sync in flight, and whether it loads more
    merge,     \* the calls of reconcilePosts and mergeDmDeltas
    calls,     \* the calls of syncPendingPosts
    faults

net == <<chain, sent, indexed>>
setting == <<served, kit>>
tables == <<local, cache>>
history == <<caught, crossed>>
feedVars == <<net, setting, tables, txn, composer, history, feed, merge, calls, faults>>

Unsynced == {"pending", "failed"}
NoTxn == [open |-> FALSE, local |-> [d \in Drafts |-> "none"], cache |-> {}]
IdleFeed == [pc |-> "idle", more |-> FALSE]
IdleMerge == [pc |-> "idle", page |-> {}, evict |-> FALSE, home |-> FALSE]
IdleRun == [pc |-> "idle", todo |-> {}, post |-> None, id |-> 0, exists |-> FALSE]

\* The loop over pending: the next post, or the end of the run.
NextPost(todo) ==
    IF todo = {} THEN IdleRun ELSE [IdleRun EXCEPT !.pc = "submit", !.todo = todo]

FeedTypeOK ==
    /\ chain \in Seq(Texts \cup {Other})
    /\ sent \in [Texts -> Nat] /\ indexed \in 0..Len(chain)
    /\ served \in BOOLEAN /\ kit \in BOOLEAN
    /\ local \in [Drafts -> {"none", "gone"} \cup Unsynced]
    /\ cache \subseteq 1..indexed
    /\ txn \in [open : BOOLEAN, local : [Drafts -> {"none", "gone"} \cup Unsynced],
                cache : SUBSET (1..indexed)]
    /\ composer \in [Drafts -> {"writing", "starting", "left"}]
    /\ caught \subseteq Drafts /\ crossed \in BOOLEAN
    /\ feed \in [pc : {"idle", "merge", "reload"}, more : BOOLEAN]
    /\ merge \in [Slots -> [pc : {"idle", "begin", "upsert", "delete", "evict", "commit", "rollback"},
                              page : SUBSET (1..indexed), evict : BOOLEAN, home : BOOLEAN]]
    /\ calls \in [Runs -> [pc : {"idle", "submit", "poll", "read", "begin", "swap", "commit",
                                 "rollback", "mark"},
                           todo : SUBSET Drafts, post : Drafts \cup {None}, id : 0..indexed,
                           exists : BOOLEAN]]
    /\ faults \in 0..MaxFaults

Fault == faults < MaxFaults /\ faults' = faults + 1

(***************************************************************************)
(* The connection: withTransactionAsync of expo-sqlite.                     *)
(***************************************************************************)
Begin == ~txn.open /\ txn' = [open |-> TRUE, local |-> local, cache |-> cache]
Commit == txn.open /\ txn' = NoTxn

\* ROLLBACK undoes the open transaction, whoever began it; with none open it
\* fails, and the caller's error is that one instead.
Rollback ==
    /\ local' = IF txn.open THEN txn.local ELSE local
    /\ cache' = IF txn.open THEN txn.cache ELSE cache
    /\ txn' = NoTxn

(***************************************************************************)
(* The table cached_posts: its synced rows c and its optimistic rows l.     *)
(***************************************************************************)

\* Mutant: a post that failed once is left to the user.
getPendingPostsOnly(l) == {d \in Drafts : l[d] = "pending"}

getPendingPosts(l) == {d \in Drafts : l[d] \in Unsynced}

\* Rows are updated and deleted by their local id, and only if they are there.
Leave(l, ds) == [d \in Drafts |-> IF d \in ds /\ l[d] \in Unsynced THEN "gone" ELSE l[d]]

markPendingPostFailed(l, d) == [l EXCEPT ![d] = IF @ \in Unsynced THEN "failed" ELSE @]

\* Mutant: the optimistic rows are left to confirmPendingPost.
SupersededNever(page) == {}

\* reconcilePosts: the drafts whose author and text a post of the page has.
Superseded(page) == IF served THEN {d \in Drafts : \E i \in page : chain[i] = Text[d]} ELSE {}

\* evictStaleCache: rows older than the cutoff go, unless that is all of them;
\* then the newest maxRows stay.  Newer posts have larger ids.
Evicted(c, cutoff) ==
    LET young == {i \in c : i > cutoff}
        kept  == IF young = {} THEN c ELSE young
    IN  {i \in kept : Cardinality({j \in kept : j > i}) < MaxRows}

(***************************************************************************)
(* The feed.                                                                *)
(***************************************************************************)
Page(offset) == {i \in 1..indexed : i > indexed - offset - PageSize /\ i <= indexed - offset}

\* A call of syncPendingPosts(options) starts unless there is nothing to do;
\* options is null without the wallet kit.  Runs bounds how many are in flight.
StartRun(l) ==
    LET free == {r \in Runs : calls[r].pc = "idle"}
    IN  IF ~kit \/ getPendingPosts(l) = {} \/ free = {} THEN UNCHANGED calls
        ELSE LET r == CHOOSE x \in free : TRUE
             IN  calls' = [calls EXCEPT ![r] = NextPost(getPendingPosts(l))]

FeedInit ==
    /\ chain \in [1..Earlier -> Texts \cup {Other}]
    /\ indexed = Earlier /\ sent = [t \in Texts |-> 0]
    /\ served \in BOOLEAN /\ kit \in BOOLEAN
    /\ local = [d \in Drafts |-> "none"] /\ cache = {} /\ txn = NoTxn
    /\ composer = [d \in Drafts |-> "writing"] /\ caught = {} /\ crossed = FALSE
    /\ feed = IdleFeed
    /\ merge = [k \in Slots |-> IdleMerge] /\ calls = [r \in Runs |-> IdleRun]
    /\ faults = 0

\* handleSubmit of the composer: the optimistic row.
Compose(d) ==
    /\ composer[d] = "writing"
    /\ composer' = [composer EXCEPT ![d] = "starting"]
    /\ local' = [local EXCEPT ![d] = "pending"]
    /\ caught' = IF txn.open THEN caught \cup {d} ELSE caught
    /\ UNCHANGED <<net, setting, cache, txn, crossed, feed, merge, calls, faults>>

\* After the haptics are awaited and the screen is left, a run for it.
StartComposed(d) ==
    /\ composer[d] = "starting"
    /\ composer' = [composer EXCEPT ![d] = "left"]
    /\ StartRun(local)
    /\ UNCHANGED <<net, setting, tables, txn, history, feed, merge, faults>>

\* A call of reconcilePosts starts; home says that the feed awaits it.
StartMerge(page, evict, home) ==
    \E k \in Slots :
       /\ merge[k].pc = "idle"
       /\ merge' = [merge EXCEPT ![k] = [pc |-> "begin", page |-> page, evict |-> evict, home |-> home]]

\* A page is answered.  reconcilePosts returns at once if it is empty; its
\* second argument is !replace.
Fetched(more, page) ==
    /\ feed.pc = "idle"
    /\ IF page = {}
         THEN feed' = [pc |-> "reload", more |-> more] /\ UNCHANGED merge
         ELSE /\ feed' = [pc |-> "merge", more |-> more]
              /\ StartMerge(page, more, TRUE)
    /\ UNCHANGED <<net, setting, tables, txn, composer, history, calls, faults>>

\* syncWithNetwork(true): when the feed opens, is pulled, or the app came to
\* the foreground.  A request that fails changes nothing that is kept here.
Refresh == Fetched(FALSE, Page(0))

\* syncWithNetwork(false), from the end of whatever the list shows.
LoadMore == \E offset \in 0..indexed : Fetched(TRUE, Page(offset))

\* Stale rows go, the list is read again, and pending posts are submitted.
Reload ==
    /\ feed.pc = "reload"
    /\ \E cutoff \in 0..indexed :
          cache' = IF feed.more THEN cache ELSE Evicted(cache, cutoff)
    /\ feed' = IdleFeed
    /\ StartRun(local)
    /\ UNCHANGED <<net, setting, local, txn, composer, history, merge, faults>>

\* evictStaleCache or getCachedPosts fails: the catch of syncWithNetwork.
SyncFails ==
    /\ feed.pc = "reload"
    /\ Fault
    /\ \E cutoff \in 0..indexed : cache' \in {cache, Evicted(cache, cutoff)}
    /\ feed' = IdleFeed
    /\ UNCHANGED <<net, setting, local, txn, composer, history, merge, calls>>

\* The listener of AppState "change" evicts beside the refresh it starts.
EvictStale ==
    /\ \E cutoff \in 0..indexed : cache' = Evicted(cache, cutoff)
    /\ UNCHANGED <<net, setting, local, txn, composer, history, feed, merge, calls, faults>>

\* deletePost: the delete_post transaction is confirmed; the indexer goes on
\* listing the post.
DeletePost ==
    /\ \E i \in cache :
          /\ chain[i] \in Texts
          /\ cache' = cache \ {i}
    /\ UNCHANGED <<net, setting, local, txn, composer, history, feed, merge, calls, faults>>

(***************************************************************************)
(* A caller's transaction on the table: reconcilePosts, statement by        *)
(* statement.  The empty page is another screen's transaction on a table of *)
(* its own, mergeDmDeltas.                                                  *)
(***************************************************************************)
AuthorPage ==
    LET own == {i \in 1..indexed : chain[i] \in Texts}
    IN  {i \in own : Cardinality({j \in own : j > i}) < PageSize}

\* fetchAuthorPosts, resolvePostWithFallback and reconcileDmThread.
OpenScreen ==
    /\ \E page \in {{i} : i \in (1..indexed) \ cache} \cup {AuthorPage, {}} : StartMerge(page, FALSE, FALSE)
    /\ UNCHANGED <<net, setting, tables, txn, composer, history, feed, calls, faults>>

\* The call is through with its page.
Ends(k, pc) == [merge EXCEPT ![k] = [IdleMerge EXCEPT !.pc = pc, !.home = merge[k].home]]

BeginMerge(k) ==
    /\ merge[k].pc = "begin"
    /\ Begin
    /\ merge' = IF merge[k].page = {} THEN Ends(k, "commit") ELSE [merge EXCEPT ![k].pc = "upsert"]
    /\ UNCHANGED <<net, setting, tables, composer, history, feed, calls, faults>>

\* BEGIN finds a transaction open, or fails for a reason of its own.
BeginMergeFails(k) ==
    /\ merge[k].pc = "begin"
    /\ IF txn.open THEN UNCHANGED faults ELSE Fault
    /\ merge' = Ends(k, "rollback") /\ crossed' = TRUE
    /\ UNCHANGED <<net, setting, tables, txn, composer, caught, feed, calls>>

UpsertPage(k) ==
    /\ merge[k].pc = "upsert"
    /\ cache' = cache \cup merge[k].page
    /\ merge' = [merge EXCEPT ![k].pc = "delete"]
    /\ UNCHANGED <<net, setting, local, txn, composer, history, feed, calls, faults>>

DeleteSuperseded(k) ==
    /\ merge[k].pc = "delete"
    /\ local' = Leave(local, Superseded(merge[k].page))
    /\ merge' = IF merge[k].evict THEN [merge EXCEPT ![k].pc = "evict"] ELSE Ends(k, "commit")
    /\ UNCHANGED <<net, setting, cache, txn, composer, history, feed, calls, faults>>

EvictOthers(k) ==
    /\ merge[k].pc = "evict"
    /\ cache' = cache \cap merge[k].page
    /\ merge' = Ends(k, "commit")
    /\ UNCHANGED <<net, setting, local, txn, composer, history, feed, calls, faults>>

CommitMerge(k) ==
    /\ merge[k].pc = "commit"
    /\ Commit
    /\ merge' = [merge EXCEPT ![k] = IdleMerge]
    /\ feed' = IF merge[k].home THEN [feed EXCEPT !.pc = "reload"] ELSE feed
    /\ UNCHANGED <<net, setting, tables, composer, history, calls, faults>>

\* A statement fails, or COMMIT finds no transaction open.
StatementFails(k) ==
    /\ merge[k].pc \in {"upsert", "delete", "evict", "commit"}
    /\ IF merge[k].pc = "commit" /\ ~txn.open THEN UNCHANGED faults ELSE Fault
    /\ merge' = Ends(k, "rollback")
    /\ UNCHANGED <<net, setting, tables, txn, composer, history, feed, calls>>

RollbackMerge(k) ==
    /\ merge[k].pc = "rollback"
    /\ Rollback
    /\ merge' = [merge EXCEPT ![k] = IdleMerge]
    /\ feed' = IF merge[k].home THEN IdleFeed ELSE feed
    /\ UNCHANGED <<net, setting, composer, history, calls, faults>>

MergeStep(k) ==
    \/ BeginMerge(k) \/ BeginMergeFails(k) \/ UpsertPage(k) \/ DeleteSuperseded(k)
    \/ EvictOthers(k) \/ CommitMerge(k) \/ StatementFails(k) \/ RollbackMerge(k)

(***************************************************************************)
(* A run of syncPendingPosts.                                               *)
(***************************************************************************)
\* The run is through with its post.
Done(r) == calls' = [calls EXCEPT ![r] = NextPost(calls[r].todo)]

\* signAndSubmitTransaction.  Transactions beyond MaxCopies reach no ledger.
Copies(t) == Cardinality({i \in 1..Len(chain) : i > Earlier /\ chain[i] = t}) + sent[t]
Accepted(t) == IF Copies(t) < MaxCopies THEN [sent EXCEPT ![t] = @ + 1] ELSE sent

Submit(r) ==
    /\ calls[r].pc = "submit"
    /\ \E d \in calls[r].todo :
          /\ sent' = Accepted(Text[d])
          /\ calls' = [calls EXCEPT ![r].pc = "poll", ![r].post = d, ![r].todo = @ \ {d}]
    /\ UNCHANGED <<chain, indexed, setting, tables, txn, composer, history, feed, merge, faults>>

\* The wallet refuses or fails, possibly after it submitted.
SubmitFails(r) ==
    /\ calls[r].pc = "submit"
    /\ Fault
    /\ \E d \in calls[r].todo :
          /\ sent' \in {sent, Accepted(Text[d])}
          /\ calls' = [calls EXCEPT ![r].pc = "mark", ![r].post = d, ![r].todo = @ \ {d}]
    /\ UNCHANGED <<chain, indexed, setting, tables, txn, composer, history, feed, merge>>

\* findPostByAuthorAndContent lists the author's posts newest first.
Matches(d) == IF served THEN {i \in 1..indexed : chain[i] = Text[d]} ELSE {}

PollFinds(r) ==
    /\ calls[r].pc = "poll" /\ Matches(calls[r].post) # {}
    /\ calls' = [calls EXCEPT ![r].pc = "read", ![r].id = Max(Matches(calls[r].post))]
    /\ UNCHANGED <<net, setting, tables, txn, composer, history, feed, merge, faults>>

\* MAX_RETRIES polls found nothing, or were answered with an error.
PollGivesUp(r) ==
    /\ calls[r].pc = "poll"
    /\ IF Matches(calls[r].post) = {} THEN UNCHANGED faults ELSE Fault
    /\ calls' = [calls EXCEPT ![r].pc = "mark", ![r].id = 0, ![r].exists = FALSE]
    /\ UNCHANGED <<net, setting, tables, txn, composer, history, feed, merge>>

\* confirmPendingPost looks the real id up before its transaction.
ReadExists(r) ==
    /\ calls[r].pc = "read"
    /\ calls' = [calls EXCEPT ![r].pc = "begin", ![r].exists = calls[r].id \in cache]
    /\ UNCHANGED <<net, setting, tables, txn, composer, history, feed, merge, faults>>

BeginSwap(r) ==
    /\ calls[r].pc = "begin"
    /\ Begin
    /\ calls' = [calls EXCEPT ![r].pc = "swap"]
    /\ UNCHANGED <<net, setting, tables, composer, history, feed, merge, faults>>

BeginSwapFails(r) ==
    /\ calls[r].pc = "begin"
    /\ IF txn.open THEN UNCHANGED faults ELSE Fault
    /\ calls' = [calls EXCEPT ![r].pc = "rollback"] /\ crossed' = TRUE
    /\ UNCHANGED <<net, setting, tables, txn, composer, caught, feed, merge>>

\* The one statement of confirmPendingPost: the optimistic row is deleted or
\* gets the real id, which violates the primary key if that row is there now.
Confirm(r) ==
    LET d == calls[r].post
        clash == ~calls[r].exists /\ local[d] \in Unsynced /\ calls[r].id \in cache
    IN  /\ calls[r].pc = "swap"
        /\ local' = IF clash THEN local ELSE Leave(local, {d})
        /\ cache' = IF calls[r].exists \/ local[d] \notin Unsynced THEN cache ELSE cache \cup {calls[r].id}
        /\ calls' = [calls EXCEPT ![r].pc = IF clash THEN "rollback" ELSE "commit"]
        /\ UNCHANGED <<net, setting, txn, composer, history, feed, merge, faults>>

CommitSwap(r) ==
    /\ calls[r].pc = "commit"
    /\ Commit
    /\ Done(r)
    /\ UNCHANGED <<net, setting, tables, composer, history, feed, merge, faults>>

\* The statement fails, or COMMIT finds no transaction open.
SwapFails(r) ==
    /\ calls[r].pc \in {"swap", "commit"}
    /\ IF calls[r].pc = "commit" /\ ~txn.open THEN UNCHANGED faults ELSE Fault
    /\ calls' = [calls EXCEPT ![r].pc = "rollback"]
    /\ UNCHANGED <<net, setting, tables, txn, composer, history, feed, merge>>

RollbackSwap(r) ==
    /\ calls[r].pc = "rollback"
    /\ Rollback
    /\ calls' = [calls EXCEPT ![r].pc = "mark", ![r].id = 0, ![r].exists = FALSE]
    /\ UNCHANGED <<net, setting, composer, history, feed, merge, faults>>

MarkFailed(r) ==
    /\ calls[r].pc = "mark"
    /\ local' = markPendingPostFailed(local, calls[r].post)
    /\ Done(r)
    /\ UNCHANGED <<net, setting, cache, txn, composer, history, feed, merge, faults>>

\* markPendingPostFailed fails: the run ends, and the posts behind it wait.
MarkFails(r) ==
    /\ calls[r].pc = "mark" /\ Fault
    /\ calls' = [calls EXCEPT ![r] = IdleRun]
    /\ UNCHANGED <<net, setting, tables, txn, composer, history, feed, merge>>

SyncStep(r) ==
    \/ Submit(r) \/ SubmitFails(r) \/ PollFinds(r) \/ PollGivesUp(r) \/ ReadExists(r)
    \/ BeginSwap(r) \/ BeginSwapFails(r) \/ Confirm(r) \/ CommitSwap(r) \/ SwapFails(r)
    \/ RollbackSwap(r) \/ MarkFailed(r) \/ MarkFails(r)

(***************************************************************************)
(* The network, the indexer, and the end of the app's process.              *)
(***************************************************************************)
Land(t) ==
    /\ sent[t] > 0
    /\ sent' = [sent EXCEPT ![t] = @ - 1] /\ chain' = Append(chain, t)
    /\ UNCHANGED <<indexed, setting, tables, txn, composer, history, feed, merge, calls, faults>>

Drop(t) ==
    /\ sent[t] > 0 /\ Fault
    /\ sent' = [sent EXCEPT ![t] = @ - 1]
    /\ UNCHANGED <<chain, indexed, setting, tables, txn, composer, history, feed, merge, calls>>

Index ==
    /\ indexed < Len(chain)
    /\ indexed' = indexed + 1
    /\ UNCHANGED <<chain, sent, setting, tables, txn, composer, history, feed, merge, calls, faults>>

\* Everything but the committed database is lost.
Restart ==
    /\ Fault
    /\ Rollback
    /\ calls' = [r \in Runs |-> IdleRun] /\ merge' = [k \in Slots |-> IdleMerge]
    /\ composer' = [d \in Drafts |-> IF composer[d] = "starting" THEN "left" ELSE composer[d]]
    /\ feed' = IdleFeed
    /\ UNCHANGED <<net, setting, history>>

FeedNext ==
    \/ \E d \in Drafts : Compose(d) \/ StartComposed(d)
    \/ \E t \in Texts : Land(t) \/ Drop(t)
    \/ Refresh \/ LoadMore \/ SyncFails \/ Reload
    \/ EvictStale \/ DeletePost \/ OpenScreen \/ Index \/ Restart
    \/ \E k \in Slots : MergeStep(k)
    \/ \E r \in Runs : SyncStep(r)

FeedSpec == FeedInit /\ [][FeedNext]_feedVars

\* Awaited calls return, submitted transactions are closed into ledgers and
\* indexed, and the app keeps coming to the foreground, which refreshes.
FeedFairSpec ==
    /\ FeedSpec
    /\ SF_feedVars(Refresh) /\ WF_feedVars(Reload) /\ WF_feedVars(Index)
    /\ \A t \in Texts : WF_feedVars(Land(t))
    /\ \A d \in Drafts : WF_feedVars(StartComposed(d))
    /\ \A k \in Slots : WF_feedVars(MergeStep(k))
    /\ \A r \in Runs : WF_feedVars(SyncStep(r))

(***************************************************************************)
(* Properties.                                                              *)
(***************************************************************************)
Composed(d) == composer[d] # "writing"
OnChain(d, n) == \E i \in 1..n : chain[i] = Text[d]

\* A post leaves the device's list of posts to submit only once the indexer
\* has a post of that text, whatever fails, restarts or overlaps on the way;
\* and its row is lost only to the rollback of a transaction that another
\* caller had open when it was composed.
NoPostLost ==
    \A d \in Drafts :
       /\ local[d] = "gone" => OnChain(d, indexed)
       /\ Composed(d) /\ local[d] = "none" => d \in caught

\* What a crash would leave in the database.
SavedLocal == IF txn.open THEN txn.local ELSE local
SavedCache == IF txn.open THEN txn.cache ELSE cache

\* As long as every transaction got the connection to itself, the database
\* never holds a post beside its own optimistic row while the indexer serves
\* texts: reconcilePosts and confirmPendingPost both swap the one for the
\* other, in whichever order they get there.  Another draft of the same text
\* and the author's earlier posts of it are other posts.
ShownOnce ==
    served /\ ~crossed =>
       \A d \in getPendingPosts(SavedLocal) : \A i \in SavedCache :
          (\A e \in Drafts \ {d} : Text[e] # Text[d]) /\ i > Earlier => chain[i] # Text[d]

\* The cache: rows of the right shape, no composed post dropped before the
\* indexer has it, none stored beside its own optimistic row.
CacheConsistent == FeedTypeOK /\ NoPostLost /\ ShownOnce

\* Some caller's transaction is about to be rolled back.
Colliding ==
    \/ \E k \in Slots : merge[k].pc = "rollback"
    \/ \E r \in Runs : calls[r].pc = "rollback"

\* A composed post reaches the chain, failed posts being submitted again, and
\* where the indexer serves texts its optimistic row is swapped for it for
\* good: if the wallet kit is there, transactions do not collide for ever and
\* the row was not rolled back away with someone else's transaction.
PostsArrive ==
    kit /\ <>[]~Colliding =>
       \A d \in Drafts :
          /\ Composed(d) ~> OnChain(d, Len(chain)) \/ local[d] = "none"
          /\ served => (Composed(d) ~> [](local[d] \in {"gone", "none"}))
=============================================================================
