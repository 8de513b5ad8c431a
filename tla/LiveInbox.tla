----------------------------- MODULE LiveInbox -----------------------------
(***************************************************************************)
(* The web app's notification inbox: the provider that adds live frames,    *)
(* two instances of useNotifications (the bell in the navigation bar and    *)
(* the notifications page), the copy in localStorage they share, and the    *)
(* indexer's paged inbox with its read watermark.                           *)
(*                                                                          *)
(* An event handler, the render it causes and the effects of that render    *)
(* are one step, as React runs them before the next event; the effects run  *)
(* bell, page, provider.  A list of notifications is a pair of sets: the    *)
(* notifications in it and those of them that are read.  A live frame may   *)
(* arrive late, again or never (EventFanout, EventStream).  Left out: tips  *)
(* and governance notices, whose ids are made up on arrival; the unread     *)
(* badge, a counter of its own; and the provider's cut at ten               *)
(* notifications, which these instances do not reach.                       *)
(***************************************************************************)
EXTENDS Integers, FiniteSets, FiniteSetsExt

CONSTANTS
    Absent,
    Account,
    Follow, Like,  \* notifications, by their kind
    To,            \* the account followed, the author of the post liked
    InboxPageSize, \* NOTIFICATIONS_PAGE_SIZE
    MaxLosses,     \* bound: failed requests and rows that leave the inbox
    MaxSwitches,   \* bound: changes of the wallet's address
    MaxActs        \* bound: visits of the notifications page, notifications
                   \* opened, uses of "mark all as read", in all

Note == Follow \cup Like
N == Cardinality(Note)

(* Where a page ends, and a request for a page with the indexer's reply. *)
Cursors == 1..2 * N \cup {Absent}
Pages == [all : SUBSET Note, read : SUBSET Note, more : BOOLEAN, next : Cursors,
          inbox : SUBSET Note]
Requests == [cursor : Cursors, page : Pages \cup {Absent}]

ASSUME LiveInboxAssumption ==
    /\ Absent \notin Account \cup 1..2 * N \cup Pages \cup Requests
    /\ Follow \cap Like = {} /\ IsFiniteSet(Note)
    /\ To \in [Note -> Account] /\ InboxPageSize \in Nat \ {0}
    /\ {MaxLosses, MaxSwitches, MaxActs} \subseteq Nat

VARIABLES
    born,         \* when each notification's row was committed, 0 before that
    gone,         \* rows removed since: an unfollow, a deleted post
    readThrough,  \* notification_read_state, Absent without a row
    wallet,       \* the connected address
    waiting,      \* likes whose excerpt is being fetched
    prov,         \* inboxNotifications of the provider
    stored,       \* localStorage: the items of each address
    addr,         \* addressRef of each hook instance; a page that was left keeps its own
    list,         \* items of each hook instance
    fetch,        \* its page request, cursor and status
    mark,         \* its pending "mark all as read"
    onPage,       \* whether the notifications page is mounted
    base,         \* history: the inbox when the page last read its first page
    jumped,       \* history: the address changed from one account to another
    counts

webVars == <<born, gone, readThrough, wallet, waiting, prov, stored, addr, list, fetch, mark,
             onPage, base, jumped, counts>>

Hooks == {"bell", "page"}
Mounted(h) == h = "bell" \/ onPage
Empty == [all |-> {}, read |-> {}]
Lists == [all : SUBSET Note, read : SUBSET Note]
Idle == [status |-> "idle", next |-> Absent, more |-> FALSE, req |-> Absent]
Unmarked == [is |-> "none", owner |-> Absent, ids |-> {}]

WebTypeOK ==
    /\ born \in [Note -> 0..N] /\ gone \subseteq Note
    /\ readThrough \in [Account -> 0..N \cup {Absent}]
    /\ wallet \in Account \cup {Absent} /\ waiting \subseteq Like
    /\ prov \in Lists /\ stored \in [Account -> Lists] /\ list \in [Hooks -> Lists]
    /\ addr \in [Hooks -> Account \cup {Absent}]
    /\ \A h \in Hooks : list[h].read \subseteq list[h].all
    /\ fetch \in [Hooks -> [status : {"idle", "loading", "loading-more", "error"}, next : Cursors,
                            more : BOOLEAN, req : Requests \cup {Absent}]]
    /\ \A h \in Hooks : fetch[h].more = (fetch[h].next # Absent)
    /\ mark \in [Hooks -> [is : {"none", "sent", "stamped"}, owner : Account \cup {Absent},
                           ids : SUBSET Note]]
    /\ onPage \in BOOLEAN /\ jumped \in BOOLEAN /\ base \subseteq Note

WebInit ==
    /\ born = [n \in Note |-> 0] /\ gone = {} /\ readThrough = [a \in Account |-> Absent]
    /\ wallet = Absent /\ waiting = {}
    /\ prov = Empty /\ stored = [a \in Account |-> Empty]
    /\ addr = [h \in Hooks |-> Absent]
    /\ list = [h \in Hooks |-> Empty] /\ fetch = [h \in Hooks |-> Idle]
    /\ mark = [h \in Hooks |-> Unmarked] /\ onPage = FALSE
    /\ base = {} /\ jumped = FALSE
    /\ counts = [faults |-> 0, switches |-> 0, acts |-> 0]

Spend(c, max) == counts[c] < max /\ counts' = [counts EXCEPT ![c] = @ + 1]

-----------------------------------------------------------------------------
(* The indexer.                                                             *)

Clock == Cardinality({n \in Note : born[n] # 0})

(* The pipeline commits a follow or like row. *)
CommitRow(n) ==
    /\ born[n] = 0
    /\ born' = [born EXCEPT ![n] = Clock + 1]
    /\ UNCHANGED <<gone, readThrough, wallet, addr, waiting, prov, stored, list, fetch, mark,
                   onPage, base, jumped, counts>>

(* The row leaves the inbox: an unfollow, or the post is deleted. *)
Remove(n) ==
    /\ born[n] # 0 /\ n \notin gone /\ Spend("faults", MaxLosses)
    /\ gone' = gone \cup {n}
    /\ UNCHANGED <<born, readThrough, wallet, addr, waiting, prov, stored, list, fetch, mark,
                   onPage, base, jumped>>

Inbox(a) == {n \in Note : born[n] # 0 /\ n \notin gone /\ To[n] = a}

(* created_at: a follow's is its ledger number read as seconds, which any like's *)
(* insertion time exceeds. *)
Key(n) == IF n \in Follow THEN born[n] ELSE N + born[n]

(* COALESCE(created_at <= read_through, FALSE) *)
ReadAt(n, a) ==
    /\ readThrough[a] # Absent
    /\ n \in Follow \/ born[n] <= readThrough[a]

(* Mutant: the cursor names the extra row that only signals has_more. *)
PageOfExtra(a, cursor) ==
    LET below == {n \in Inbox(a) : cursor = Absent \/ Key(n) < cursor}
        upTo(k) == {n \in below : Cardinality({m \in below : Key(m) > Key(n)}) < k}
        more == below # upTo(InboxPageSize)
    IN [all |-> upTo(InboxPageSize), read |-> {n \in upTo(InboxPageSize) : ReadAt(n, a)}, more |-> more,
        next |-> IF more THEN Min({Key(n) : n \in upTo(InboxPageSize + 1)}) ELSE Absent,
        inbox |-> Inbox(a)]

(* INBOX_QUERY and the reply: the newest InboxPageSize rows below the cursor,  *)
(* and a cursor if there is a row after them.                                 *)
PageOf(a, cursor) ==
    LET below == {n \in Inbox(a) : cursor = Absent \/ Key(n) < cursor}
        rows == {n \in below : Cardinality({m \in below : Key(m) > Key(n)}) < InboxPageSize}
        more == below # rows
    IN [all |-> rows, read |-> {n \in rows : ReadAt(n, a)}, more |-> more,
        next |-> IF more THEN Min({Key(n) : n \in rows}) ELSE Absent, inbox |-> Inbox(a)]

-----------------------------------------------------------------------------
(* The lists in the browser.                                                *)

(* Mutant: the later copy decides whether an item is read. *)
mergeLatest(l, m) == [all |-> l.all \cup m.all, read |-> (l.read \ m.all) \cup m.read]

(* mergeNotifications: by id, read when either copy is. *)
merge(l, m) == [all |-> l.all \cup m.all, read |-> l.read \cup m.read]

(* Mutant: only the notifications page follows the provider. *)
FollowedByPage(h, l, p) == IF h = "page" /\ onPage /\ p.all # {} THEN merge(l, p) ELSE l

(* A hook's effect on the provider's list. *)
Followed(h, l, p) == IF Mounted(h) /\ p.all # {} THEN merge(l, p) ELSE l

(* The provider renders with list p: every mounted hook merges and commits, so *)
(* the copy in storage is that of the hook whose effect runs last. *)
Rendered(p, ls, st) ==
    LET new == [h \in Hooks |-> Followed(h, ls[h], p)] IN
    /\ list' = new
    /\ stored' = IF p.all = {} \/ wallet = Absent THEN st
                 ELSE [st EXCEPT ![wallet] = new[IF onPage THEN "page" ELSE "bell"]]

(* addInboxNotification: the badge changes, so the provider always renders. *)
addInboxNotification(n) ==
    LET p == [prov EXCEPT !.all = @ \cup {n}] IN
    IF wallet = Absent THEN UNCHANGED <<prov, list, stored>>
    ELSE prov' = p /\ Rendered(p, list, stored)

(* Mutant: a follow of anybody is added. *)
FollowsMeAnyone(n) == TRUE
(* data.followee === address *)
FollowsMe(n) == To[n] = wallet

(* onmessage: a follow of this account is added at once, a like of any post  *)
(* once its excerpt has been fetched. *)
Arrive(n) ==
    /\ born[n] # 0 /\ wallet # Absent
    /\ IF n \in Like
       THEN waiting' = waiting \cup {n} /\ UNCHANGED <<prov, list, stored>>
       ELSE /\ UNCHANGED waiting
            /\ IF FollowsMe(n) THEN addInboxNotification(n) ELSE UNCHANGED <<prov, list, stored>>
    /\ UNCHANGED <<born, gone, readThrough, wallet, addr, fetch, mark, onPage, base, jumped, counts>>

(* fetchPostExcerpt answers, with an excerpt or without one, whoever is connected *)
(* by now. *)
ExcerptDone(n) ==
    /\ n \in waiting /\ waiting' = waiting \ {n}
    /\ addInboxNotification(n)
    /\ UNCHANGED <<born, gone, readThrough, wallet, addr, fetch, mark, onPage, base, jumped, counts>>

-----------------------------------------------------------------------------
(* useNotifications.                                                        *)

(* loadPage up to its await; a request in flight is aborted. *)
loadPage(f, cursor) ==
    [f EXCEPT !.status = IF cursor = Absent THEN "loading" ELSE "loading-more",
              !.req = [cursor |-> cursor, page |-> Absent]]

(* The indexer answers the request. *)
Answer(h) ==
    /\ fetch[h].req # Absent /\ fetch[h].req.page = Absent
    /\ fetch' = [fetch EXCEPT ![h].req.page = PageOf(wallet, fetch[h].req.cursor)]
    /\ UNCHANGED <<born, gone, readThrough, wallet, addr, waiting, prov, stored, list, mark,
                   onPage, base, jumped, counts>>

(* The page arrives: commit(mergeNotifications(...)). *)
Apply(h) ==
    LET page == fetch[h].req.page
        new == merge(list[h], [all |-> page.all, read |-> page.read])
    IN
    /\ fetch[h].req # Absent /\ page # Absent
    /\ list' = [list EXCEPT ![h] = new] /\ stored' = [stored EXCEPT ![wallet] = new]
    /\ fetch' = [fetch EXCEPT ![h] = [status |-> "idle", next |-> page.next, more |-> page.more,
                                      req |-> Absent]]
    /\ base' = IF h = "page" /\ fetch[h].req.cursor = Absent THEN page.inbox ELSE base
    /\ UNCHANGED <<born, gone, readThrough, wallet, addr, waiting, prov, mark, onPage, jumped, counts>>

FetchFails(h) ==
    /\ fetch[h].req # Absent /\ Spend("faults", MaxLosses)
    /\ fetch' = [fetch EXCEPT ![h].status = "error", ![h].req = Absent]
    /\ UNCHANGED <<born, gone, readThrough, wallet, addr, waiting, prov, stored, list, mark,
                   onPage, base, jumped>>

(* Only the page offers "load more" and "retry". *)
LoadMore ==
    LET f == fetch["page"] IN
    /\ onPage /\ f.more /\ f.status = "idle"
    /\ fetch' = [fetch EXCEPT !["page"] = loadPage(f, f.next)]
    /\ UNCHANGED <<born, gone, readThrough, wallet, addr, waiting, prov, stored, list, mark,
                   onPage, base, jumped, counts>>

Retry ==
    LET f == fetch["page"] IN
    /\ onPage /\ f.status = "error"
    /\ fetch' = [fetch EXCEPT !["page"] = loadPage(f, f.next)]
    /\ UNCHANGED <<born, gone, readThrough, wallet, addr, waiting, prov, stored, list, mark,
                   onPage, base, jumped, counts>>

(* A commit of hook h, and the provider's render if its badge changed. *)
CommitAndRender(h, new) ==
    LET st == [stored EXCEPT ![wallet] = new]
        ls == [list EXCEPT ![h] = new]
    IN \/ list' = ls /\ stored' = st
       \/ Rendered(prov, ls, st)

(* Opening one notification; the badge goes down unless it is at zero. *)
MarkRead(h, n) ==
    /\ Mounted(h) /\ wallet # Absent /\ n \in list[h].all \ list[h].read
    /\ Spend("acts", MaxActs)
    /\ CommitAndRender(h, [list[h] EXCEPT !.read = @ \cup {n}])
    /\ UNCHANGED <<born, gone, readThrough, wallet, addr, waiting, prov, fetch, mark, onPage,
                   base, jumped>>

(* "Mark all as read": the list at once, then the signed request. *)
MarkAllRead(h) ==
    LET l == list[h] IN
    /\ Mounted(h) /\ wallet # Absent /\ mark[h].is = "none" /\ l.all # l.read
    /\ Spend("acts", MaxActs)
    /\ CommitAndRender(h, [l EXCEPT !.read = l.all])
    /\ mark' = [mark EXCEPT ![h] = [is |-> "sent", owner |-> wallet, ids |-> l.all \ l.read]]
    /\ UNCHANGED <<born, gone, readThrough, wallet, addr, waiting, prov, fetch, onPage, base, jumped>>

(* POST read-all at the indexer: the watermark becomes the present. *)
Stamp(h) ==
    /\ mark[h].is = "sent" /\ mark' = [mark EXCEPT ![h].is = "stamped"]
    /\ readThrough' = [readThrough EXCEPT ![mark[h].owner] = Clock]
    /\ UNCHANGED <<born, gone, wallet, addr, waiting, prov, stored, list, fetch, onPage, base,
                   jumped, counts>>

MarkDone(h) ==
    /\ mark[h].is = "stamped" /\ mark' = [mark EXCEPT ![h] = Unmarked]
    /\ UNCHANGED <<born, gone, readThrough, wallet, addr, waiting, prov, stored, list, fetch,
                   onPage, base, jumped, counts>>

(* The items that were unread are unread again; later arrivals stay. *)
RolledBack(l, ids) == [l EXCEPT !.read = @ \ ids]

(* The request failed, before or after it reached the indexer.  A page that was *)
(* left still rolls back the items it had, if it had the same address to the end. *)
MarkFails(h) ==
    LET m == mark[h]
        new == RolledBack(list[h], m.ids)
        st == [stored EXCEPT ![m.owner] = new]
    IN
    /\ m.is # "none" /\ Spend("faults", MaxLosses)
    /\ mark' = [mark EXCEPT ![h] = Unmarked]
    /\ IF addr[h] # m.owner THEN UNCHANGED <<list, stored>>
       ELSE Rendered(prov, [list EXCEPT ![h] = new], st)
    /\ UNCHANGED <<born, gone, readThrough, wallet, addr, waiting, prov, fetch, onPage, base, jumped>>

(* The page mounts: the stored items, the provider's, and the first page.  A    *)
(* visit that starts while the "mark all" of an earlier one is pending is left  *)
(* out. *)
Mount ==
    LET l == merge(stored[wallet], prov) IN
    /\ ~onPage /\ wallet # Absent /\ mark["page"].is = "none" /\ Spend("acts", MaxActs)
    /\ onPage' = TRUE /\ addr' = [addr EXCEPT !["page"] = wallet]
    /\ list' = [list EXCEPT !["page"] = l]
    /\ stored' = IF prov.all = {} THEN stored ELSE [stored EXCEPT ![wallet] = l]
    /\ fetch' = [fetch EXCEPT !["page"] = loadPage(Idle, Absent)]
    /\ base' = {}
    /\ UNCHANGED <<born, gone, readThrough, wallet, waiting, prov, mark, jumped>>

Unmount ==
    /\ onPage /\ onPage' = FALSE
    /\ fetch' = [fetch EXCEPT !["page"] = Idle]
    /\ IF mark["page"].is = "none"
       THEN list' = [list EXCEPT !["page"] = Empty] /\ addr' = [addr EXCEPT !["page"] = Absent]
       ELSE UNCHANGED <<list, addr>>
    /\ UNCHANGED <<born, gone, readThrough, wallet, waiting, prov, stored, mark, base,
                   jumped, counts>>

(* The address effect without an address. *)
SignedOut(f) == Idle

(* The wallet's address changes.  Without one, every list is emptied.  With one, *)
(* each hook loads its stored items and merges the provider's list, which is   *)
(* still the one of the address before; then the provider loads what they stored. *)
Switch(a) ==
    LET l == merge(stored[a], prov)
        st == IF prov.all = {} THEN stored ELSE [stored EXCEPT ![a] = l]
        kept(h) == h = "page" /\ ~onPage
    IN
    /\ a # wallet /\ wallet' = a /\ Spend("switches", MaxSwitches)
    /\ jumped' = (jumped \/ (a # Absent /\ wallet # Absent))
    /\ base' = {}
    /\ addr' = [h \in Hooks |-> IF kept(h) THEN addr[h] ELSE a]
    /\ IF a = Absent
       THEN /\ prov' = Empty /\ UNCHANGED stored
            /\ list' = [h \in Hooks |-> IF kept(h) THEN list[h] ELSE Empty]
            /\ fetch' = [h \in Hooks |-> IF kept(h) THEN fetch[h] ELSE SignedOut(fetch[h])]
       ELSE /\ stored' = st /\ prov' = st[a]
            /\ list' = [h \in Hooks |-> IF kept(h) THEN list[h] ELSE l]
            /\ fetch' = [h \in Hooks |-> IF kept(h) THEN fetch[h] ELSE loadPage(Idle, Absent)]
    /\ UNCHANGED <<born, gone, readThrough, waiting, mark, onPage>>

-----------------------------------------------------------------------------
WebNext ==
    \/ \E n \in Note : CommitRow(n) \/ Remove(n) \/ Arrive(n) \/ ExcerptDone(n)
    \/ \E h \in Hooks : Answer(h) \/ Apply(h) \/ FetchFails(h)
    \/ LoadMore \/ Retry \/ Mount \/ Unmount
    \/ \E h \in Hooks, n \in Note : MarkRead(h, n)
    \/ \E h \in Hooks : MarkAllRead(h) \/ Stamp(h) \/ MarkDone(h) \/ MarkFails(h)
    \/ \E a \in Account \cup {Absent} : Switch(a)

WebSpec == WebInit /\ [][WebNext]_webVars

(* Requests are answered; users and the chain owe nothing. *)
WebFairness ==
    /\ \A n \in Like : WF_webVars(ExcerptDone(n))
    /\ \A h \in Hooks : WF_webVars(Answer(h)) /\ WF_webVars(Apply(h))

WebFairSpec == WebSpec /\ WebFairness

-----------------------------------------------------------------------------
(* Paging with (created_at, id) cursors skips nothing: a notification that was *)
(* in the inbox when the first page was read, and still is, is in the list as  *)
(* soon as the cursor is past it, whatever was added or removed in between,    *)
(* and whichever request failed and was retried.                               *)
PagesCoverInbox ==
    onPage => \A n \in base \ gone :
                  fetch["page"].next = Absent \/ Key(n) >= fetch["page"].next => n \in list["page"].all

(* A hook that shows itself loading has a request under way that will end it,  *)
(* across aborted requests and changes of address.                             *)
LoadingMeansInFlight ==
    \A h \in Hooks : fetch[h].status \in {"loading", "loading-more"} <=> fetch[h].req # Absent

(* A follow of one account is listed or stored under another only after the    *)
(* wallet went from one account straight to another.                           *)
NoForeignFollowUnlessSwitched ==
    ~jumped =>
        /\ \A h \in Hooks : Mounted(h) => \A n \in list[h].all \cap Follow : To[n] = wallet
        /\ \A a \in Account : \A n \in stored[a].all \cap Follow : To[n] = a

Steady(h) == Mounted(h) /\ onPage' = onPage /\ wallet' = wallet

(* What is read stays read in a list, although pages fetched before arrive      *)
(* after and the provider still has the item unread; only a failed "mark all   *)
(* as read" takes its own marks back.                                          *)
ReadStaysRead ==
    [][\A h \in Hooks : Steady(h) =>
          list[h].read \ list'[h].read \subseteq
              IF mark[h].is # "none" /\ mark'[h].is = "none" THEN mark[h].ids ELSE {}]_webVars

(* A failed "mark all as read" brings back no old list: what arrived while it  *)
(* was pending stays.                                                          *)
ArrivalsSurviveRollback == [][\A h \in Hooks : Steady(h) => list[h].all \subseteq list'[h].all]_webVars

(* A live like is in the bell's list in the end, unless the account left.      *)
LiveLikeListed ==
    \A n \in Like, a \in Account :
        (n \in waiting /\ wallet = a) ~> (n \in list["bell"].all \/ wallet # a)

(* The hooks and the provider: lists and cursors of the right shape, a loading *)
(* state only with a request under way, and no follow of another account       *)
(* before the wallet changed accounts directly.                                *)
InboxConsistent == WebTypeOK /\ LoadingMeansInFlight /\ NoForeignFollowUnlessSwitched

(* Nothing a list shows, and no read mark in it, is taken back by a page, a    *)
(* live frame or a failed request, but for the marks of a failed "mark all".   *)
ListsKeepWhatTheyShow == ReadStaysRead /\ ArrivalsSurviveRollback
=============================================================================
