------------------------------ MODULE FolderSync ------------------------------
(***************************************************************************)
(* How one account's cached emails follow its Exchange folders: the Sync   *)
(* loop and the email mutations of backend/sync.py with the tables they    *)
(* write (store/cache.py), against an Exchange server that issues a new    *)
(* SyncKey with every answer, keeps delivering and removing mail on its    *)
(* own, and may not be heard; and against crashes between any two steps.   *)
(*                                                                         *)
(* Operations of one account run one at a time: every caller holds the     *)
(* account's command_lock (app.py, eventsource.py).  The steps of one      *)
(* operation are the points where other actors or a crash can come in:     *)
(* the database transaction that reads the key or the record, the call to  *)
(* the server, and each transaction that commits what it returned.         *)
(*                                                                         *)
(* The server is external.  It is modelled by the part of the ActiveSync   *)
(* protocol the code relies on: with every key it remembers which items it *)
(* has told the client about (a view), an answer is a window of the        *)
(* difference between that view and the folder, and a change made by the   *)
(* client itself is folded into the view of the key returned with it.      *)
(*                                                                         *)
(* Email ids are random in the code.  Here an email is called after the    *)
(* item it was first cached for; a move keeps the id and changes the item. *)
(***************************************************************************)
EXTENDS Naturals, FiniteSets

CONSTANTS
    Folders,           \* cached mail folders (reconcile_folders is not in this module)
    Items,             \* server item ids; an id belongs to one folder for good
    HomeOf,            \* HomeOf[i]: the folder of item i
    NoItem,            \* not an item
    Keys,              \* SyncKeys other than "0"
    ZeroKey,           \* "0": never synced
    WindowSize,        \* items the server puts in one page
    MaxPagesPerCall,   \* max_pages_per_call
    Operations,        \* the operations that callers use
    MayForgetKey,      \* TRUE: the server may refuse the key before the newest one
    MaxFaults          \* bound: crashes and failed or unheard calls in a behaviour

ASSUME FolderSyncAssumption ==
    /\ Folders # {}
    /\ HomeOf \in [Items -> Folders]
    /\ NoItem \notin Items
    /\ ZeroKey \notin Keys
    /\ \A j, k \in Keys \cup {ZeroKey} : Keys \ {j, k} # {}
    /\ WindowSize \in Nat \ {0}
    /\ MaxPagesPerCall \in Nat \ {0}
    /\ Operations \subseteq {"sync", "keywords", "delete", "move", "draft"}
    /\ MayForgetKey \in BOOLEAN
    /\ MaxFaults \in Nat

VARIABLES
    srv,        \* srv[i]: "new" (not yet there), "unread", "read" or "gone"
    srvKey,     \* srvKey[f]: the newest key the server issued for f
    prevKey,    \* prevKey[f]: the key that was sent to obtain it
    view,       \* view[i]: item i as the server believes a holder of srvKey knows it
    prevView,   \* the same for a holder of prevKey
    stored,     \* mailboxes.sync_key
    cache,      \* the emails table: email id -> its server item and flag
    logged,     \* the last change_log entry of an email id
    op,         \* the operation in flight, lost in a crash
    torn,       \* history: items whose row missed the second transaction of a change
    faults      \* how many faults have happened

server == <<srv, srvKey, prevKey, view, prevView>>
store == <<stored, cache, logged>>
vars == <<server, store, op, torn, faults>>

Flags == {"unread", "read"}
Seen == Flags \cup {"absent"}
AnyKey == Keys \cup {ZeroKey}
Row == [item : Items \cup {NoItem}, seen : Seen]
NoRow == [item |-> NoItem, seen |-> "absent"]
Page == UNION {[S -> Seen] : S \in SUBSET Items}

Operation == [kind   : {"none", "sync", "keywords", "delete", "move", "draft"},
              pc     : {"idle", "call", "commit", "write"},
              folder : Folders,           \* whose lock is held
              id     : Items \cup {NoItem},  \* the email the caller named
              row    : Row,               \* its record, read before the call
              want   : Flags,             \* the flag to set
              to     : Folders,           \* where to move it
              key    : AnyKey,            \* the key read, then the key returned
              boot   : BOOLEAN,           \* was_bootstrap
              page   : Page,              \* added, changed ("unread", "read"), deleted ("absent")
              more   : BOOLEAN,           \* more_available
              pages  : Nat,               \* pages_applied
              ok     : BOOLEAN,           \* the item's status is "1" (a draft's: and it has an id)
              item   : Items \cup {NoItem}]  \* the item the server created

Idle == [kind |-> "none", pc |-> "idle", folder |-> CHOOSE f \in Folders : TRUE,
         id |-> NoItem, row |-> NoRow, want |-> "unread", to |-> CHOOSE f \in Folders : TRUE,
         key |-> ZeroKey, boot |-> FALSE, page |-> [i \in {} |-> "absent"], more |-> FALSE,
         pages |-> 0, ok |-> FALSE, item |-> NoItem]

TypeOK ==
    /\ srv \in [Items -> Flags \cup {"new", "gone"}]
    /\ srvKey \in [Folders -> AnyKey]
    /\ prevKey \in [Folders -> AnyKey]
    /\ view \in [Items -> Seen]
    /\ prevView \in [Items -> Seen]
    /\ stored \in [Folders -> AnyKey]
    /\ cache \in [Items -> Row]
    /\ logged \in [Items -> {"none", "created", "updated", "destroyed"}]
    /\ op \in Operation
    /\ torn \in SUBSET Items
    /\ faults \in Nat

Init ==
    /\ srv = [i \in Items |-> "new"]
    /\ srvKey = [f \in Folders |-> ZeroKey]
    /\ prevKey = [f \in Folders |-> ZeroKey]
    /\ view = [i \in Items |-> "absent"]
    /\ prevView = [i \in Items |-> "absent"]
    /\ stored = [f \in Folders |-> ZeroKey]
    /\ cache = [i \in Items |-> NoRow]
    /\ logged = [i \in Items |-> "none"]
    /\ op = Idle
    /\ torn = {}
    /\ faults = 0

-----------------------------------------------------------------------------
(* The Exchange server *)

Visible(i) == IF srv[i] \in Flags THEN srv[i] ELSE "absent"

\* The keys a server can answer: "0", its newest and the one before it.
Accepted(f, key) == key \in {ZeroKey, srvKey[f], prevKey[f]}

\* Item i as the server believes a holder of this key of i's folder knows it.
ViewAt(key, i) ==
    IF key = srvKey[HomeOf[i]] THEN view[i]
    ELSE IF key = prevKey[HomeOf[i]] THEN prevView[i] ELSE "absent"

FreshKey(f) == CHOOSE k \in Keys : k \notin {srvKey[f], prevKey[f]}

\* Answer a request on folder f that carried `sent`: a fresh key, with newView.
IssueKey(f, sent, newView) ==
    /\ srvKey' = [srvKey EXCEPT ![f] = FreshKey(f)]
    /\ prevKey' = [prevKey EXCEPT ![f] = sent]
    /\ view' = [i \in Items |-> IF HomeOf[i] = f THEN newView[i] ELSE view[i]]
    /\ prevView' = [i \in Items |-> IF HomeOf[i] # f THEN prevView[i]
                                    ELSE ViewAt(sent, i)]

\* Other clients and the mail system change the mailbox.
Deliver(i) == srv[i] = "new" /\ srv' = [srv EXCEPT ![i] = "unread"]
Flag(i) == srv[i] \in Flags /\ srv' = [srv EXCEPT ![i] = IF @ = "read" THEN "unread" ELSE "read"]
Remove(i) == srv[i] \in Flags /\ srv' = [srv EXCEPT ![i] = "gone"]

Remote ==
    /\ \E i \in Items : Deliver(i) \/ Flag(i) \/ Remove(i)
    /\ UNCHANGED <<srvKey, prevKey, view, prevView, store, op, torn, faults>>

-----------------------------------------------------------------------------
(* The emails table *)

Holding(item) == {id \in Items : cache[id].item = item}

Cached(id) == cache[id].item # NoItem

\* Is the row of email `id` one that the page names?
Named(id, page) == cache[id].item \in DOMAIN page

\* Fault: an item of the page is inserted without looking for its row.
IsNewUnlooked(id, page) == id \in DOMAIN page /\ page[id] # "absent"

\* A new email: the page names an item that no row holds.
IsNew(id, page) == id \in DOMAIN page /\ page[id] # "absent" /\ Holding(id) = {}

\* Fault: deleted items are looked up by email id, not by their place.
CacheAfterById(page) ==
    [id \in Items |->
        IF id \in DOMAIN page /\ page[id] = "absent" THEN NoRow
        ELSE IF Named(id, page) THEN [cache[id] EXCEPT !.seen = page[cache[id].item]]
        ELSE IF IsNew(id, page) THEN [item |-> id, seen |-> page[id]]
        ELSE cache[id]]

\* Fault: deleted items are not applied.
CacheAfterAdded(page) ==
    [id \in Items |->
        IF Named(id, page) /\ page[cache[id].item] # "absent"
        THEN [cache[id] EXCEPT !.seen = page[cache[id].item]]
        ELSE IF IsNew(id, page) THEN [item |-> id, seen |-> page[id]]
        ELSE cache[id]]

\* The rows and log entries after added, changed and deleted items were applied.
CacheAfter(page) ==
    [id \in Items |->
        IF Named(id, page)
        THEN IF page[cache[id].item] = "absent" THEN NoRow
             ELSE [cache[id] EXCEPT !.seen = page[cache[id].item]]
        ELSE IF IsNew(id, page) THEN [item |-> id, seen |-> page[id]]
        ELSE cache[id]]

LoggedAfter(page) ==
    [id \in Items |->
        IF Named(id, page)
        THEN IF page[cache[id].item] = "absent" THEN "destroyed" ELSE "updated"
        ELSE IF IsNew(id, page) THEN "created"
        ELSE logged[id]]

-----------------------------------------------------------------------------
(* sync_folder *)

\* Take the folder's lock, read its key.
StartSync(f) ==
    /\ "sync" \in Operations
    /\ op = Idle
    /\ op' = [Idle EXCEPT !.kind = "sync", !.pc = "call", !.folder = f, !.key = stored[f]]
    /\ UNCHANGED <<server, store, torn, faults>>

\* What the server would still have to tell a holder of op.key.
Pending == {i \in Items : HomeOf[i] = op.folder /\ Visible(i) # ViewAt(op.key, i)}

Window ==
    {S \in SUBSET Pending : /\ S # {}
                            /\ Cardinality(S) <= WindowSize
                            /\ Cardinality(Pending) <= WindowSize => S = Pending}

\* Key "0" only obtains a first key.
Bootstrap ==
    /\ op.key = ZeroKey
    /\ IssueKey(op.folder, ZeroKey, [i \in Items |-> "absent"])
    /\ UNCHANGED srv
    /\ op' = [op EXCEPT !.pc = "commit", !.boot = TRUE, !.key = FreshKey(op.folder),
                        !.page = [i \in {} |-> "absent"], !.more = FALSE]

\* Nothing pending: an empty answer, the key stays.
NothingNew ==
    /\ op.key # ZeroKey
    /\ Accepted(op.folder, op.key)
    /\ Pending = {}
    /\ UNCHANGED server
    /\ op' = [op EXCEPT !.pc = "commit", !.boot = FALSE,
                        !.page = [i \in {} |-> "absent"], !.more = FALSE]

SendPage(S) ==
    /\ op.key # ZeroKey
    /\ Accepted(op.folder, op.key)
    /\ IssueKey(op.folder, op.key,
                [i \in Items |-> IF i \in S THEN Visible(i) ELSE ViewAt(op.key, i)])
    /\ UNCHANGED srv
    /\ op' = [op EXCEPT !.pc = "commit", !.boot = FALSE, !.key = FreshKey(op.folder),
                        !.page = [i \in S |-> Visible(i)], !.more = S # Pending]

SyncCall ==
    /\ op.kind = "sync" /\ op.pc = "call"
    /\ Bootstrap \/ NothingNew \/ \E S \in Window : SendPage(S)

\* The sync's loop: a bootstrap is always followed by a call with the key it
\* obtained, a page only while more is available and the cap is not reached.
AfterPage ==
    LET pages == IF op.boot THEN op.pages ELSE op.pages + 1
    IN  IF op.boot \/ (op.more /\ pages < MaxPagesPerCall)
        THEN [Idle EXCEPT !.kind = "sync", !.pc = "call", !.folder = op.folder,
                          !.key = op.key, !.pages = pages]
        ELSE Idle

\* Fault: the key is committed before the page, in a transaction of its own.
SyncCommitKeyFirst ==
    /\ op.kind = "sync" /\ op.pc = "commit"
    /\ stored' = [stored EXCEPT ![op.folder] = op.key]
    /\ \/ cache' = CacheAfter(op.page) /\ logged' = LoggedAfter(op.page) /\ faults' = faults
       \/ faults < MaxFaults /\ UNCHANGED <<cache, logged>> /\ faults' = faults + 1
    /\ op' = Idle
    /\ torn' = torn \ DOMAIN op.page
    /\ UNCHANGED server

\* Fault: the key is kept for the loop and not committed.
SyncCommitKeyInMemory ==
    /\ op.kind = "sync" /\ op.pc = "commit"
    /\ cache' = CacheAfter(op.page)
    /\ logged' = LoggedAfter(op.page)
    /\ op' = AfterPage
    /\ torn' = torn \ DOMAIN op.page
    /\ UNCHANGED <<server, stored, faults>>

\* Fault: the key is committed once, after the last page of the loop.
SyncCommitKeyAtEnd ==
    /\ op.kind = "sync" /\ op.pc = "commit"
    /\ cache' = CacheAfter(op.page)
    /\ logged' = LoggedAfter(op.page)
    /\ stored' = IF AfterPage = Idle THEN [stored EXCEPT ![op.folder] = op.key] ELSE stored
    /\ op' = AfterPage
    /\ torn' = torn \ DOMAIN op.page
    /\ UNCHANGED <<server, faults>>

\* Apply one page and its key in one transaction, then go on or stop.
SyncCommit ==
    /\ op.kind = "sync" /\ op.pc = "commit"
    /\ cache' = CacheAfter(op.page)
    /\ logged' = LoggedAfter(op.page)
    /\ stored' = [stored EXCEPT ![op.folder] = op.key]
    /\ op' = AfterPage
    /\ torn' = torn \ DOMAIN op.page
    /\ UNCHANGED <<server, faults>>

-----------------------------------------------------------------------------
(* set_email_keywords and delete_email: _apply_email_change, then a write *)

\* Read the record, take its folder's lock, read that folder's key.
StartChange(kind, id, want) ==
    /\ kind \in Operations
    /\ op = Idle
    /\ Cached(id)
    /\ op' = [Idle EXCEPT !.kind = kind, !.pc = "call", !.id = id, !.row = cache[id],
                          !.folder = HomeOf[cache[id].item], !.want = want,
                          !.key = stored[HomeOf[cache[id].item]]]
    /\ UNCHANGED <<server, store, torn, faults>>

\* The server applies the change and knows that the client knows it: unless it
\* never told the client about the item, which then stays to be told.
ChangeApplied ==
    LET item == op.row.item
        after == IF op.kind = "delete" THEN "gone" ELSE op.want
    IN  /\ srv[item] \in Flags
        /\ srv' = [srv EXCEPT ![item] = after]
        /\ IssueKey(op.folder, op.key,
                    [i \in Items |-> IF i = item /\ ViewAt(op.key, i) # "absent"
                                     THEN IF op.kind = "delete" THEN "absent" ELSE op.want
                                     ELSE ViewAt(op.key, i)])
        /\ op' = [op EXCEPT !.pc = "commit", !.key = FreshKey(op.folder), !.ok = TRUE]

\* The item's status is not "1": it is gone, or the server will not.
ChangeDeclined ==
    /\ IssueKey(op.folder, op.key, [i \in Items |-> ViewAt(op.key, i)])
    /\ UNCHANGED srv
    /\ op' = [op EXCEPT !.pc = "commit", !.key = FreshKey(op.folder), !.ok = FALSE]

ChangeCall ==
    /\ op.kind \in {"keywords", "delete"} /\ op.pc = "call"
    /\ op.key # ZeroKey /\ Accepted(op.folder, op.key)
    /\ ChangeApplied \/ ChangeDeclined

\* Fault: the item's status is not looked at.
ChangeCommitAnyStatus ==
    /\ op.kind \in {"keywords", "delete"} /\ op.pc = "commit"
    /\ stored' = [stored EXCEPT ![op.folder] = op.key]
    /\ op' = [op EXCEPT !.pc = "write"]
    /\ UNCHANGED <<server, cache, logged, torn, faults>>

\* First transaction: the key, whatever the status.  The folder lock ends here.
ChangeCommit ==
    /\ op.kind \in {"keywords", "delete"} /\ op.pc = "commit"
    /\ stored' = [stored EXCEPT ![op.folder] = op.key]
    /\ op' = IF op.ok THEN [op EXCEPT !.pc = "write"] ELSE Idle
    /\ UNCHANGED <<server, cache, logged, torn, faults>>

\* Fault: a deletion is logged as an update.
ChangeWriteLogsUpdate ==
    /\ op.pc = "write"
    /\ cache' = [cache EXCEPT ![op.id] =
                    IF op.kind = "delete" THEN NoRow
                    ELSE IF Cached(op.id) THEN [@ EXCEPT !.seen = op.want] ELSE @]
    /\ logged' = [logged EXCEPT ![op.id] = "updated"]
    /\ torn' = torn \ {op.row.item}
    /\ op' = Idle
    /\ UNCHANGED <<server, stored, faults>>

\* Second transaction: the row and its log entry.
ChangeWrite ==
    /\ op.pc = "write"
    /\ cache' = [cache EXCEPT ![op.id] =
                    IF op.kind = "delete" THEN NoRow
                    ELSE IF Cached(op.id) THEN [@ EXCEPT !.seen = op.want] ELSE @]
    /\ logged' = [logged EXCEPT ![op.id] =
                    IF op.kind = "delete" THEN "destroyed" ELSE "updated"]
    /\ torn' = torn \ {op.row.item}
    /\ op' = Idle
    /\ UNCHANGED <<server, stored, faults>>

-----------------------------------------------------------------------------
(* move_email *)

\* Read the record, take both folders' locks in order.
StartMove(id, to) ==
    /\ "move" \in Operations
    /\ op = Idle
    /\ Cached(id)
    /\ HomeOf[cache[id].item] # to
    /\ op' = [Idle EXCEPT !.kind = "move", !.pc = "call", !.id = id, !.row = cache[id],
                          !.folder = HomeOf[cache[id].item], !.to = to]
    /\ UNCHANGED <<server, store, torn, faults>>

\* MoveItems carries no key: the item reappears in the other folder under a new id.
MoveCall(new) ==
    /\ op.kind = "move" /\ op.pc = "call"
    /\ srv[op.row.item] \in Flags
    /\ srv[new] = "new" /\ HomeOf[new] = op.to
    /\ srv' = [srv EXCEPT ![new] = srv[op.row.item], ![op.row.item] = "gone"]
    /\ op' = [op EXCEPT !.pc = "commit", !.item = new]
    /\ UNCHANGED <<srvKey, prevKey, view, prevView>>

\* Fault: mailbox and item id swapped in the row.
MoveCommitSwapped ==
    /\ op.kind = "move" /\ op.pc = "commit"
    /\ cache' = [cache EXCEPT ![op.id] = [@ EXCEPT !.item = op.to]]
    /\ logged' = [logged EXCEPT ![op.id] = "updated"]
    /\ op' = Idle
    /\ UNCHANGED <<server, stored, torn, faults>>

MoveCommit ==
    /\ op.kind = "move" /\ op.pc = "commit"
    /\ cache' = [cache EXCEPT ![op.id] = [@ EXCEPT !.item = op.item]]
    /\ logged' = [logged EXCEPT ![op.id] = "updated"]
    /\ op' = Idle
    /\ UNCHANGED <<server, stored, torn, faults>>

-----------------------------------------------------------------------------
(* create_draft *)

StartDraft(f, want) ==
    /\ "draft" \in Operations
    /\ op = Idle
    /\ op' = [Idle EXCEPT !.kind = "draft", !.pc = "call", !.folder = f, !.want = want,
                          !.key = stored[f]]
    /\ UNCHANGED <<server, store, torn, faults>>

DraftAdded(new) ==
    /\ srv[new] = "new" /\ HomeOf[new] = op.folder
    /\ srv' = [srv EXCEPT ![new] = op.want]
    /\ IssueKey(op.folder, op.key,
                [i \in Items |-> IF i = new THEN op.want ELSE ViewAt(op.key, i)])
    /\ op' = [op EXCEPT !.pc = "commit", !.key = FreshKey(op.folder), !.ok = TRUE, !.item = new]

DraftDeclined ==
    /\ IssueKey(op.folder, op.key, [i \in Items |-> ViewAt(op.key, i)])
    /\ UNCHANGED srv
    /\ op' = [op EXCEPT !.pc = "commit", !.key = FreshKey(op.folder), !.ok = FALSE]

\* The item is created and the answer does not name it: who holds the new key
\* cannot know the item, which the next sync announces.
DraftUnnamed(new) ==
    /\ srv[new] = "new" /\ HomeOf[new] = op.folder
    /\ srv' = [srv EXCEPT ![new] = op.want]
    /\ IssueKey(op.folder, op.key, [i \in Items |-> ViewAt(op.key, i)])
    /\ op' = [op EXCEPT !.pc = "commit", !.key = FreshKey(op.folder), !.ok = FALSE]

DraftCall ==
    /\ op.kind = "draft" /\ op.pc = "call"
    /\ op.key # ZeroKey /\ Accepted(op.folder, op.key)
    /\ DraftDeclined \/ \E new \in Items : DraftAdded(new) \/ DraftUnnamed(new)

\* Key and row in one transaction.
DraftCommit ==
    /\ op.kind = "draft" /\ op.pc = "commit"
    /\ stored' = [stored EXCEPT ![op.folder] = op.key]
    /\ IF op.ok
       THEN /\ cache' = [cache EXCEPT ![op.item] = [item |-> op.item, seen |-> op.want]]
            /\ logged' = [logged EXCEPT ![op.item] = "created"]
       ELSE UNCHANGED <<cache, logged>>
    /\ op' = Idle
    /\ UNCHANGED <<server, torn, faults>>

-----------------------------------------------------------------------------
(* What goes wrong *)

\* The server answers with an error and has done nothing: BackendError, the
\* operation ends.  It always does so for a change or a draft under key "0",
\* for a key it no longer accepts, and for an item that is not there.
Refused ==
    /\ op.pc = "call" /\ op.kind # "sync"
    /\ op' = Idle
    /\ UNCHANGED <<server, store, torn, faults>>

\* A sync is refused when the server has forgotten the key before its newest one.
SyncRefused ==
    /\ op.pc = "call" /\ op.kind = "sync"
    /\ MayForgetKey /\ op.key \notin {ZeroKey, srvKey[op.folder]}
    /\ op' = Idle
    /\ UNCHANGED <<server, store, torn, faults>>

\* A crash, or a call that times out.  After the call has reached the server
\* its answer is lost with the operation; in front of the second transaction
\* of a change the key is committed and the row is not.
Fault ==
    /\ faults < MaxFaults
    /\ faults' = faults + 1
    /\ op # Idle
    /\ torn' = IF op.pc = "write" THEN torn \cup {op.row.item} ELSE torn
    /\ op' = Idle
    /\ UNCHANGED <<server, store>>

-----------------------------------------------------------------------------
Call ==
    /\ SyncCall \/ ChangeCall \/ (\E new \in Items : MoveCall(new)) \/ DraftCall
    /\ UNCHANGED <<store, torn, faults>>

Commit == SyncCommit \/ ChangeCommit \/ ChangeWrite \/ MoveCommit \/ DraftCommit

Start ==
    \/ \E f \in Folders : StartSync(f)
    \/ \E id \in Items, want \in Flags : StartChange("keywords", id, want)
    \/ \E id \in Items : StartChange("delete", id, "unread")
    \/ \E id \in Items, to \in Folders : StartMove(id, to)
    \/ \E f \in Folders, want \in Flags : StartDraft(f, want)

Next == Remote \/ Start \/ Call \/ Commit \/ Refused \/ SyncRefused \/ Fault

\* An operation that has begun is carried on by its thread; clients keep
\* asking for every folder, so its sync is never put off for ever.
Fairness ==
    /\ WF_vars(Call \/ Commit \/ Refused \/ SyncRefused)
    /\ \A f \in Folders : SF_vars(StartSync(f))

Spec == Init /\ [][Next]_vars /\ Fairness

-----------------------------------------------------------------------------
(* Properties *)

\* Item i as the server believes the bridge knows it, by the key it has stored.
Believed(i) == ViewAt(stored[HomeOf[i]], i)

\* A change of item i whose key is committed and whose row is not yet.
BeingWritten(i) == op.pc = "write" /\ op.row.item = i

\* The bridge is never stranded: the key it has stored is the newest one or the
\* one before it, which is as far back as a server keeps accepting keys, since
\* the code has no way back to key "0".
KeyRecoverable ==
    \A f \in Folders : stored[f] \in {srvKey[f], prevKey[f]}

\* find_email_id_by_server_id has one answer: no two emails for one item.
OneEmailPerItem ==
    \A id, other \in Items : Cached(id) /\ cache[id].item = cache[other].item => id = other

\* The cache is what the server thinks it is: a row disagrees with the view at
\* the stored key only where a change's second transaction is still to come
\* or was lost.  Whatever the answers lost, retried calls, pages and moves.
CacheMatchesKey ==
    \A id \in Items :
        LET i == cache[id].item
        IN  Cached(id) /\ Believed(i) # "absent" /\ i \notin torn /\ ~BeingWritten(i)
                => cache[id].seen = Believed(i)

\* Mail is never lost: an item the server will not mention again, and still
\* has, is cached.
NothingLost ==
    \A i \in Items : Believed(i) # "absent" /\ srv[i] \in Flags => Holding(i) # {}

\* No other ghosts than these two kinds: a row that the server does not know
\* of, and so will never ask to delete, was moved there by the bridge or
\* missed the second transaction of its deletion.
GhostsAccountedFor ==
    \A id \in Items :
        LET i == cache[id].item
        IN  Cached(id) /\ Believed(i) = "absent"
                => i # id \/ i \in torn \/ BeingWritten(i)

\* An email leaves the cache only when its item has left the folder.
RemovedOnlyIfGone ==
    [][\A id \in Items : Cached(id) /\ cache'[id] = NoRow => srv[cache[id].item] = "gone"]_vars

\* The change log tells each email's life in order: created when its row
\* appears, destroyed when it goes, nothing after that.
LogFollowsCache ==
    /\ \A id \in Items : Cached(id) <=> logged[id] \in {"created", "updated"}
    /\ \A id \in Items : Cached(id) /\ cache[id].item # id => logged[id] = "updated"

\* Where the cache agrees with the mailbox itself.
Settled ==
    /\ \A i \in Items : srv[i] \in Flags /\ i \notin torn =>
           \E id \in Items : cache[id] = [item |-> i, seen |-> srv[i]]
    /\ \A id \in Items : Cached(id) /\ cache[id].item \notin torn /\ srv[cache[id].item] = "gone" =>
           cache[id].item # id

\* When the mailbox no longer changes, syncing brings the cache up to it.
EventuallySettled == (<>[][srv' = srv]_vars) => <>[](op = Idle => Settled)
=============================================================================
