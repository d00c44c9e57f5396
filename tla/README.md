# jmap-eas: a TLA+ verification project

This directory models `jmap-eas`, a bridge that serves JMAP (RFC 8620/8621) from an
Exchange ActiveSync (EAS) account. The bridge keeps a SQLite cache of folders and emails,
brings it up to date with EAS `Sync`, answers JMAP reads from it and sends JMAP writes to
EAS first and to the cache afterwards. What makes it hard is not any one function but what
lies between them: a `SyncKey` that every answer consumes and replaces, answers that may be
lost after the server acted on them, a process that may stop between the call and the
commit, and clients that follow state strings through pages of changes while the history
behind them is truncated.

Paths below are relative to `src/src/jmap_eas/`.

## The system

| Component | State | Operations | Interacts with | Hard because | Correct when |
|---|---|---|---|---|---|
| Change log, `store/state.py` | tables `change_log`, `change_log_retention` | `append_change`, `current_state`, `get_changes`, `prune_change_log` | every writer appends in its own transaction; every `*/changes`, `*/queryChanges`, `*/get`, EventSource reads | one counter for all types, paging, coalescing and truncation meet in one answer | numbers never repeat; truncation is never silent; a client that follows changes has the objects |
| Sync coordinator, `backend/sync.py` | folder locks, account locks, freshness times; writes `mailboxes`, `emails`, `threads`, log | sync loop, reconcile, mailbox create/rename/delete, keywords, delete, move, draft | EAS adapter (calls), cache and log (transactions), its callers' `command_lock` | each operation is several transactions around remote calls, any of which can be the last | cache = what the server thinks it is at the stored key; keys are never lost or stranded; no mail lost, no ghosts, no duplicates |
| Cache, `store/cache.py` | `mailboxes`, `emails`, `threads` | upserts, lookups by id and by place, key update | coordinator, JMAP methods | an email's place changes while its id stays | one email per item |
| EAS adapter, `backend/eas.py` | none (wraps `pyactivesync.Client`) | one method per EAS command; every exception becomes `BackendError` | external server | failures after the server acted look like failures before | - |
| JMAP methods, `jmap/email.py`, `mailbox.py`, `submission.py`, `thread.py` | none | get, query, changes, queryChanges, set | cache, log, coordinator | batches of operations that fail one by one | each reported outcome is what happened |
| Submissions, `jmap/submission.py`, `store/submissions.py` | table `submissions` | insert pending, send, set final/failed, destroy | adapter `send_mail`, log | not retryable, outcome unknown after a timeout or crash | status tells what is known of the send |
| EventSource, `jmap/eventsource.py`, `app.py` | per stream: last states | ping, targeted sync, compare, emit | `ping_lock`, then `command_lock`; log | changes made by others between two pings | no state change stays unannounced |
| Application, `app.py`, `jmap/sync_scope.py`, `jmap/dispatcher.py` | worker threads | `POST /api` (sync what the batch needs, prune, dispatch), download, upload | everything, under the account's `command_lock` | best-effort sync, one failure ends the loop | batch sees one consistent cache |
| Registry, `registry.py` | contexts per account, init locks | get, close_all | adapter factory | concurrent first use, failing factory | one context per account, nothing cached on failure |
| Database, `store/db.py`, `store/schema.py` | SQLite file, lock, `user_version` | transaction, migrate | all stores | script and version number are separate commits | every migration applied once |
| Mapping, filters, `backend/mapping.py`, `jmap/filtering.py` | none | pure functions | - | query diffs on a truncated change list | splicing gives the new result |
| Auth, config, errors, observability, session, identity, blobs, policy | configuration, counters, `uploaded_blobs` | checks, documents | - | - | - |

**Concurrency.** One account's work is done by worker threads: a `POST /api` batch with the
sync that precedes it, a blob download and the sync after a ping each hold the account's
`command_lock` for their whole length; pings hold `ping_lock`. Inside, the coordinator
takes folder locks and an account lock. All database access is serialised by one lock, and a
transaction commits or rolls back as a whole. So the interleavings that remain for one
account are those with the *server and other clients of the mailbox*, with *crashes*, with
*JMAP clients between their requests*, and with EventSource streams. The modules divide them:
`FolderSync` and `Account` take one operation at a time and everything else against it, `Coordinator`
takes two threads and the folder locks, and `Serving` takes requests and streams against the two connection
locks and the pool of threads.

## Modules

| Module | Models | Role |
|---|---|---|
| `Feed` | what `*/changes` promises a client | abstract specification |
| `ChangeLog` | `store/state.py`, and `*/changes` + `*/get` as a client uses them | specification and properties; implements `Feed` |
| `FolderSync` | sync loop and email mutations of `backend/sync.py`, the `emails` table, EAS `Sync`/`MoveItems` as the code relies on them | specification and properties |
| `Account` | from the request down: a batch's scope (`sync_scope.py`, `app.py`, `filtering.py`), `reconcile_folders`, `Mailbox/set` and `Email/set`, the `mailboxes` and `emails` tables, the server's folder tree | specification and properties |
| `Coordinator` | `backend/sync.py` used by several threads: folder locks, freshness windows, two locks of a move | specification and properties |
| `Serving` | `app.py`, `eventsource.py`, the locks of `registry.py`, the thread pool, `schema.py` | specification and properties |
| `Submission` | `EmailSubmission/set`, the `submissions` table, EAS `SendMail` | specification and properties |
| `QueryChanges` | `Mailbox/` and `Email/query`, `queryChanges`, and a client that splices them; extends `ChangeLog` | specification and properties |
| `MC...` | - | instances of these for TLC |
| `ChangeLogProofs`, `QueryChangesProofs`, `FolderSyncProofs`, `AccountProofs`, `CoordinatorProofs`, `CoordinatorRows`, `ServingProofs`, `SubmissionProofs` | - | TLAPS proofs about these, that `ChangeLog` implements `Feed` included; `QueryChangesProofs` extends `ChangeLogProofs`, `CoordinatorRows` extends `CoordinatorProofs` |

Definitions whose comment begins with *Fault:* are not part of a specification. Each is a
plausible bug in the code beside it (a dropped guard, a swapped order); putting it in the
place of that definition makes TLC find the property it was written for violated, which
shows that the property speaks about the code.

### ChangeLog

One SQLite transaction is one step. `log` is the account's `change_log`, `pruned` its
retention watermark. `table[t][i]` stands for the stored objects: the number of the change
that last wrote object `i` of type `t`, so two equal entries are the same version. `recorded`
is a history variable with every row ever appended. `Write` is one `append_change` with the
write of the object it describes (`_apply_item` and the other writers do both in one
transaction); a transaction that appends several rows is several steps, which gives the
client more chances to look in between than it has. `PruneChangeLog` is
`prune_change_log`. A state string is its number; strings that are not numbers are refused
at once by `_parse_state` and left out.

`client` is a JMAP client that keeps a copy of the objects of one type the way RFC 8620
tells it to: one `get` of everything (`Mailbox/get`; `Email/get` demands ids), then `changes` from
the state it has, with any `maxChanges`, a `get` of what was listed, the next page while
`hasMoreChanges`, and a fresh start after `cannotCalculateChanges`. Between these calls
the bridge writes and prunes at will, so the fetched objects are newer than the state the
client records. That is where paging, coalescing and truncation can go wrong together, and
`FollowedCopyIsExact` says they do not.

Object ids are used once (`Unused`): email ids are random, folder ids are the server's, which does
not reissue them.

### Feed

The same seen from outside, in five actions and no log, page, watermark or coalescing. Objects change at
numbered moments (`Change`). A client that follows has a position and a copy; an answer (`Tell`) takes the position forward and
names objects to fetch and objects that are gone, and may leave an object that changed by then unnamed
only if the client has it right; `Fetch` reads the named ones *as they are by now*; the bridge may `Decline` at any time, and the client
does a `Restart`, whose position may be older than what it read (the numbers of the last changes can be pruned away), never newer.

`ChangeLog` implements it: `FeedSpec == Promised!Spec`, where `version` is the table of the watched type, `now` and `touched` come
from the recorded history (which pruning does not shorten), `position` is the client's state string, `copy` its objects, `due` what it
has still to get, and `following` whether it has a copy at all. Every step of the log is a step of the feed or a stutter; pruning is a stutter, which
is what it should be. Other types' writes are the changes of no object.

### FolderSync

The module models one account. Operations run one at a time, because every caller holds
`command_lock`; an operation is split where something else can happen: the transaction that
reads the key or the record (`Start...`), the call (`...Call`), and each transaction that commits
(`...Commit`, `ChangeWrite`). `op` is the operation in flight, i.e. the local variables of
its thread; `stored` is `mailboxes.sync_key`, `cache` the `emails` table, `logged` the last
`change_log` entry of an email. An email's data is reduced to one flag, `seen`: the flagged
bit and the mapped headers take the same path.

The server is **external**. It is modelled by what the code relies on: it issues a new key
with every non-empty answer (`IssueKey`), remembers for the newest key and the one before it what
a holder of that key knows (`view`, `prevView`), answers a `Sync` with a window of the
difference between that and the folder (`SendPage`), answers nothing new without a new key
(`NothingNew`), and folds a change made by the client itself into the view of the
key it returns with it (`ChangeApplied`, `DraftAdded`), so that it never reports that change back. A draft whose answer names no item
(`DraftUnnamed`) commits the key and no row; the next sync brings it.
`MoveItems` carries no key: the item disappears from one folder and appears in another under a new id
(`MoveCall`). Other clients deliver, flag and remove items at any time (`Remote`).

`Fault` is a crash, or a call whose answer never comes. It can hit any operation at any point: after
the server has acted and before the commit; or between the two transactions of
`set_email_keywords` and `delete_email` (`_apply_email_change` commits the key, its caller
commits the row). `torn` remembers the latter. `Refused` is an error answer: the server
did nothing and `BackendError` ends the operation.

Email ids are random in the code. Here an email is called after the item it was first cached
for; a move keeps the id and changes the item, as `cache.move_email` does.

Left out: folders are fixed (folders that come and go are `Account`'s); several threads (`Coordinator`);
the live summary; infinitely repeated bootstrap answers.

### Account

One account from the request down. `folder` is the server's tree (a folder is not there yet, gone, or has a title: its name
and parent), `srv` its items, `told` the items the server believes the holder of the stored key has. `mailboxes`
and `emails` are the tables, `keyed` the rows whose `sync_key` is not "0". `op` is the operation in flight.

A *batch* (`POST /api`) is a set of calls: 0 stands for `Mailbox/get` and its like, `n` for `Email/query` with the filter tree
`Filters[n]`. `SyncAllFolders`, `ReconcileFolders` and `FolderIds` are `compute_sync_scope`, with `Scope` for
`extract_inmailbox_scope` (what folders bound a filter: `AND` takes the union of what is bounded, `OR` the union if all are, `NOT` none)
and `Selects` for `evaluate_filter`. Both are recursive functions over the nodes of the tree. `ListFolders` and `Reconcile` are the folder list and
the transaction that follows, `SyncCall`/`SyncCommit` one folder's sync, `SyncFails` the `JmapError` that ends
the loop of `_ensure_synced` and not the batch, and `AnswerBatch` the method calls on the tables as they then are.

Each object of a *`/set`* is an operation of its own: `CreateCall`, `RenameCall`, `RemoveCall` with their commits
(`RemoveCommit` deletes the folder and, one level deep, what `Cascade` names, with their emails), `ChangeCall` with `ChangeCommit`
and `ChangeWrite` (keywords or destroy, two transactions), `MoveCall`/`MoveCommit`, an update that does both
(`MoveToo`, `MoveTooFails`), `DraftCall`/`DraftCommit`. The key of a folder is read before the record; where `_apply_email_change` asserts that the
email's mailbox is cached, the operation ends in `raised`, and `ServerError` ends the batch. `Fault` is a crash, or an answer that is lost.

The tree and the items are **external**; other clients create, rename and remove folders, deliver, move and remove items. A sync is one
exchange here; pages, keys that are one behind, and flags are `FolderSync`'s, freshness is `Coordinator`'s (this is `freshness_seconds = 0`).
What the code refuses without a call or a write is no step.

History variables say what a property has to except: `dropped` (folders whose row a reconciliation removed),
`strayed` (folders synced without a row), `adrift` (items whose row came or stayed without the server knowing).

### Coordinator

Several threads inside one `SyncCoordinator`. An operation reads the record or the freshness window, takes its locks one by one in
the order of `MoveLocks` (`Acquire`, one step per lock; a caller of `ensure_folder_synced` looks again once it has the lock:
`DoneMeanwhile`), calls, commits, and releases. `ChangeWrite` comes after the release: the flags of a keyword change are written without the folder's lock.
`fresh` is the set of folders stamped within the window, and `Expire` lets a window end.

`serialized`, chosen at the start, says how the coordinator is used. The application calls it under `command_lock`, one operation at a
time; its own docstrings and tests (`tests/unit/test_sync.py`) let callers overlap. Every property is checked for both.
The state that tells them apart is `overlapped`: emails written by one thread while another held the record it had read.

A message that is moved becomes another item; `gen` counts that. Emails are flagged with two flags, so that two threads can
set different ones and one can be lost. Calls fail before the server acts or are answered; lost answers are `FolderSync`'s.

### Serving

The process around the account. `life`, `db`, `script`, `begun` are the start: `migrate` applies the scripts after `user_version`
statement by statement (`executescript` commits each), then writes the version (`MarkScript`); `Crash` can come anywhere, also later, and takes all threads,
locks and streams with it. `stuck` is a start that failed because `CREATE` and `ALTER` cannot be done twice.

`pc` says where each request and stream is. A request takes a worker thread (`TakeWorker`), waits for `command_lock` inside it (`StartBatch`),
reconciles or not, syncs the folders its scope and the windows leave, and answers. A stream reads its first states, takes a worker for each cycle (`Look`), waits for
`ping_lock`, pings, gives that lock up, waits for `command_lock`, syncs the folders the Ping named, and compares states when the cycle is over
(`Compare`). A failed cycle backs off and starts again (`StreamSyncFails`, `PingFails`, `Retry`). `Working` is who occupies a
worker: also those who wait for a lock. `behind` holds the streams whose last states are no longer the current ones; `missed` remembers which of them were put there by somebody else's write.
What a sync does to the tables is left to the modules above: a folder has `news` or not.

Left out: which types a stream watches (it is told of every change), keep-alive events, the time a backoff takes; `download`, which is
a read under `command_lock`, and the sync of a folder list by the stream, which does none.

### Submission

`op` is one `EmailSubmission/set` in flight: the creations and destructions it still has to do, and
the submission it is sending. A creation takes three or four steps, divided where the process can stop or
the server answers: the checks (`RejectCreate`, or the fetch of the MIME in `Fetch` and `FetchFails`), the
transaction with the pending row (`Persist`), the call (`SendMail`, `SendRefused`, `SendTimesOut`), and the
transaction with the outcome (`RecordSent` with the log entry, `RecordRefusal` without). `Destroy` and
`Reply` end the batch. `rows` is the table, `logged[id]` the last log entry of a submission,
`allowSend` the policy, which may change at a restart.

The server is **external**: it accepts the message, refuses it, or gives no answer in time, and
in that case has sent it, will never send it, or sends it later (`late`, `CarriedOutLate`). The code
sees the last three alike, as `BackendError`. `Crash` can hit any step and, during the call, leave it
to be carried out later. The history variables `unheard` and `cut` remember the submissions whose call
timed out and those a crash left behind, and `asked` and `told` what clients asked for and were told; no step reads them,
they are there to say how far a status can be trusted.

Left out: which identity a creation names (a wrong one is rejected like an unknown email), envelopes
(not supported by the code), the size of the message. `get` and `changes` only read, as `ChangeLog`'s client does.

### QueryChanges

`place[i]` is where object `i` sorts among the matches of the query, 0 when it does not match: filter
and sort are reduced to it. A write (`WriteAt`) changes it together with the log entry; every
property that a filter or a sort can use is written with one (the live summary is not, and is not used by
either). Places are distinct, because ties are kept in table order by a stable sort and never change
on their own. `Result` is the query's whole answer, `position` and `limit` only cut a piece from it.
`ComputeQueryChanges` is `compute_query_changes`; `AskQueryChanges` is `query_changes`, one step although it
has two transactions, because its batch holds `command_lock` and so do all writers.
`follower` is the client, and `Splice` (**external**) what RFC 8620 section 5.6 tells it to do:
remove (`Kept`), then insert (`Put`), lowest index first. Sorting is `InOrder`, the ascending enumeration of
a set, chosen by what it is: the proofs cannot reason about the library's folds and sorts. `cut` remembers whether `maxChanges` has ever cut an answer short.

## Runs

| Run | Asks | Bounds | Result |
|---|---|---|---|
| `change_log` | Does a client that follows paged changes stay exact while the log is pruned, is it refused only when late, and is the log a `Feed`? | 2 types, 2 ids, `Keep` 2, 5 writes | holds |
| `change_log_states` | Do equal state strings mean equal objects? | 1 id, `Keep` 1, 4 writes | violated |
| `folder_moves` | Is the cache what the server thinks it is, over two folders, all operations, two faults? | 1 item per folder, 3 keys per folder, window 1 | holds |
| `folder_pages` | For a folder of several pages: is mail ever lost, is the key usable, does syncing settle? | 2 items in one folder, window 1, cap 2, 1 fault | holds |
| `account` | Do tables and answers agree with a server whose folders come and go, through every `/set` and every shape of filter? | 3 folders, 3 items, 4 batches over 8 filter trees, 2 remote changes, 1 fault | holds |
| `account_orphan` | Does the assertion of `sync.py:267` hold? | the same | violated |
| `coordinator` | Do the folder locks keep keys, rows and windows right when threads overlap, and does everybody get through? | 2 threads, 2 folders, 1 message each, 3 calls, 1 move per message, 1 remote change, 1 fault | holds |
| `serving` | What may a quiet stream not have said, when does a start fail, who waits for whom? | 1 request, 2 streams, 2 folders, 3 threads, the 5 scripts of `MIGRATIONS`, 2 faults, 1 crash | holds |
| `submission` | Do rows, log entries and replies tell the truth about what was sent? | 2 emails, 3 ids, 2 creations in one batch or two, 2 faults | holds |
| `submission_crash` | Is the outcome of a sent message recorded in spite of a crash? | 1 creation, 1 crash | violated |
| `query_changes` | Does a client that splices diffs have the query's result? | 3 objects, 3 places, 5 writes, `Keep` 3, `maxChanges` 1 or 3 | holds |
| `query_changes_paged` | Also when `maxChanges` cuts a diff short? | 3 writes | violated |

**Why the bounds are enough.** *ChangeLog*: five writes are enough to fill the two rows that
pruning keeps, prune several times, and give a page boundary with later rows of both
objects on either side; the second type is what lets pruning remove every row of the first.
*FolderSync*: one item per folder lets an item be moved, removed and re-announced; two items with a
window of one make three calls (bootstrap and two pages), the cap, and a page that is
lost while another item changes. Three keys per folder suffice, because at any time at most two of
them are known to either side (`KeyRecoverable`, proved for any number), so a third can be reused as a
fresh one; for the same reason keys are interchangeable and `folder_moves` may use them as a symmetry
set. `folder_pages` checks a liveness property and uses no symmetry. `MaxSeq` and
`MaxFaults` are the only other bounds, in the guards of `Write` and `Fault`.
*Submission*: two creations can share a batch, so that one fails beside the other, or come in two batches, so
that a crash or a late call of the first meets the second; a crash and a timeout fit into two faults.
`MaxBatch` and `MaxRequests` bound `StartBatch`, `MaxFaults` every failing step; the proofs need none of these values.
Ids and emails are interchangeable. *QueryChanges*: three objects can be permuted in every way, and
five writes create them and move or remove two before the client looks again; the other type's rows let pruning reach past the client.
*Account*: one folder that clients can create, rename and remove, one that only holds drafts, and one that is no mail folder; two titles are
enough for a rename to show. A moved item becomes the item of the other folder, while there is none, and the filter trees nest every operator over
bounded and unbounded operands, with a query that names the folder that has no row. Two remote changes (`MaxRemote`) are a folder that goes and an
item that comes, or a removal and a re-creation; `MaxFaults` bounds `Fault` and `SyncFails`.
*Coordinator*: two threads and two folders are a pair of moves in opposite directions; three operations (`MaxCalls`) are two that overlap and one that meets what
they left. *Serving*: two streams compete for `ping_lock` and for news while one request competes for `command_lock`; with three threads the pool is just larger than the
streams, and a second stream that fails after the first has told its client needs two faults. The scripts are those of the code.
With `MayForgetKey = FALSE` the server accepts the key before the newest once more, as MS-ASCMD
demands. With `TRUE` (`folder_moves`) it may refuse it: after one lost answer the folder
then stays unsynced, since the code never falls back to key 0 by itself; the safety properties hold
all the same. Liveness is checked with `FALSE`.

Only `coordinator` switches the deadlock check off: there the calls are counted, and when they are used up and nothing is left to
expire nobody moves; that no thread is stuck in an operation is `EveryCallReturns`. In every other model some actor can always move.

**Fairness.** `ChangeLog`: weak fairness of the client, which keeps polling. `FolderSync`: an operation in
flight is carried on by its thread (weak fairness of its next step; the thread is blocked by nothing in this
module), and each folder is synced again and again (strong fairness of `StartSync`), because every
request that reads emails syncs the folders it needs (`app.py`, `_ensure_synced`). Nothing is assumed of
the server beyond answering or failing, of other clients, or of faults. `EventuallySettled` is
conditional on the mailbox no longer changing. `Account`: weak fairness of the operation in flight, strong fairness of the batches that look at
the folder list and every mail (a client that keeps asking). `Coordinator`: weak fairness of each thread's next step, no more: a lock
that is given up is there for the next one, and the calls are bounded. `Serving`: weak fairness of what runs in a thread, strong fairness
of what waits for a lock or a worker that is given up again and again (neither is first-come-first-served in Python, but a waiter is not passed over for ever).
A Ping returns once there is something to tell. *That a quiet Ping returns is not assumed*, nor that a client ever sends anything. `Submission` and `QueryChanges` state no liveness: nothing
settles a pending row, and `CatchesUp` already speaks of the polling client.

## Properties

*ChangeLog.* `LogIsRecordedSuffix`: the table is exactly the recorded rows above the watermark,
numbered without a gap, although the counter is derived from the table that pruning shortens.
`TruncationNeverSilent`: an accepted state has its whole history. `AnsweredInTime` is the other side of it: a client that comes back
before as many numbers have been issued as pruning keeps is not refused, whatever state of the type it has, "0" included. `FollowedCopyIsExact`: see
above. `SeqNeverReused`: an action property, no number is issued twice. `CatchesUp`:
polling terminates with the objects.

`FeedSpec`: the refinement.

*FolderSync.* `KeyRecoverable`: the stored key is never more than one behind. `CacheMatchesKey`: a row
disagrees with the server's view at the stored key only in the two torn cases.
`NothingLost`: what the server will not mention again is cached. `GhostsAccountedFor`: a row the
server does not know was moved there or torn. `OneEmailPerItem`, `RemovedOnlyIfGone`,
`LogFollowsCache`. `EventuallySettled`: when the mailbox rests, the cache gets there.

*Account.* `OrphansAccountedFor`: the two ways in which emails without a mailbox come about, and the only thing they make fail.
`RowsMatchKey`: a mailbox's rows are what its key means, however it was renamed, relisted or written to. `AnswerIsCurrent`: what the scope of a
batch leaves out, its queries do not need: an answer has all the mail that was there when the batch began and that the filter selects. A sync that
fails takes from that only the folders it never came to (`LeftOut`); what it had done before is served as in any other batch. `MailboxesSettle`: clients that keep asking get to the
server's folder list and its mail, whatever is lost on the way.

*Coordinator.* `KeyIsNewest`: no two threads work from one key. `RowsAgree`: one message is one email under the flags the server
believes we know, but for overlapping use of one record; under `command_lock` there is none. `FreshIsEarned`: a window stands for exactly one
successful sync, so a failure is not stamped and a queue behind a sync does not repeat it. `EveryCallReturns`: no two moves wait for each other.

*Serving.* `QuietStreamIsCurrent`: a stream that waits has announced everything, but for what the property names. `StartFailsOnlyIfTorn`: a crash does harm
inside a script and nowhere else. `NobodyWaitsForEver`: with more threads than streams, requests are answered, even while Pings
never return, and news are fetched as long as a stream is open, after failures too.

*Submission.* `FinalMeansSent`: "final" is true, and the message went out once. `SentIsOnRecord`: no sent message
without its row, the only trace by which it can be found. `NoAutomaticResend`: no submission goes out twice, and no email more often
than clients asked for, counting late calls. `StatusTellsSend`: which statuses may be wrong, and after what.
`LogTellsOutcome`: the log announces the final submissions only. `ToldIsKept`: a reported creation stays true.

*QueryChanges.* `MembersExact`: at the current state the client has the matching objects, each once, cut diffs or
not. `OrderExact`: and in order, if none was cut.

## What the code does not do

Five statements of the repository do not hold. Four of them are runs that are expected to be violated; the fifth, `store/schema.py:4-5`, is
the named exception of a property that holds (`StartFailsOnlyIfTorn`) and stands with the other weaknesses below.

1. **State strings go back** (`change_log_states`). `store/state.py:60` says truncating the log "must
   never look like 'nothing changed'", and lines 4-5 call the state the highest number recorded
   for the type. `current_state` takes it from the rows that are left: when all rows of a type have been
   pruned (reconciliation alone writes one `Mailbox` row per folder each time) its state is "0" again,
   which a client may hold for other objects.
2. **An email without a mailbox ends the batch** (`account_orphan`). `reconcile_folders` deletes the row of a folder that is gone and not its
   emails. They stay cached and are found by queries, and `Email/set` on one fails `assert mailbox is not None` (`backend/sync.py:267`);
   that is no `JmapError`, so the batch ends in a server error instead of `notUpdated`.
3. **A crash leaves a submission pending** (`submission_crash`). `store/submissions.py:3-5` says the row is
   written before the call so that the outcome "is recorded even if the process crashes". What survives is the row; no code
   looks at pending rows afterwards, so a message that was sent says "pending" for ever and is in no
   log entry.
4. **A cut `queryChanges` misplaces objects** (`query_changes_paged`). `jmap/filtering.py:25-29` says an updated object is added
   "at its current index" so that the client repositions it. With `maxChanges` the first part of the diff carries
   indices in the whole current result, which counts objects the client has not been told of; spliced, the
   list stays in the wrong order at the current state. The members are right all the same (`MembersExact`).

Other weaknesses are the named exceptions of properties that hold. Each history variable stands for one:

- *A torn change is never repaired* (`torn` of `FolderSync`). A crash between the transaction that commits the new key and the one that
  commits the row leaves a row that no later sync corrects: the server knows that the holder of that key made the change.
- *A moved email can become a ghost* (`GhostsAccountedFor`, `adrift`). After a move the row points at an item the destination's key
  does not know yet. If another client removes it before the next sync there, no deletion is ever reported.
- *A query that names a folder without a row* syncs it from key 0 and keeps nothing but its emails (`strayed`).
- *A script and its version are not one transaction* (`torn` of `Serving`). `store/schema.py:4-5` says "inside one transaction"; `executescript` commits as it
  goes. After a crash in between every later start repeats `CREATE` or `ALTER` and fails.
- *A stream is silent about what others fetched* (`missed`). It compares states only after its own Ping has named a folder, so what a batch, or
  a faster stream, synced in the meantime waits for the next change; so does what the stream itself wrote before a later folder failed.
- *The folder locks do not cover the record* (`overlapped`). Without `command_lock` the flags of one of two overlapping changes are lost (`sync.py:259`, `289`).
- *A stream holds a worker thread* while it waits or pings: when there are as many streams as threads, no request is served until a heartbeat ends.
- *State "0"* of a type that never changed is refused after pruning, although nothing was missed, because the watermark counts the rows of all types. The client
  starts over and is right; `AnsweredInTime` says that this happens to nobody who comes back in time.
- *Nothing falls back to key 0.* If the server refuses the stored key (`MayForgetKey`), the folder is never synced again. No document says it would be.
- *A failed submission is visible and in no log entry* (`LogTellsOutcome` has the log for the final ones only), so a client that follows changes does not hear of it.

## Proofs

All theorems are about every value of the constants: any folders, items, ids, threads and keys, any number of faults and
requests. They use the named assumptions of the modules and nothing else. Those say that names differ that the code cannot confuse (`Folders` and
`Items`, `NoItem` and the items, titles and the words of a folder's status), that a bound is a number, and three things worth a reader's attention:
`FolderSync` has at least three keys; `Keep` is positive; and in `Account`, `FilterAssumption` says that `Filters` is a forest:
operands stand before their operator, and an `inMailbox` names a folder.

**The change log.** `ChangeLogProofs`: the inductive
invariant `IInv` joins the types to four facts: the log is the recorded suffix, all numbers up to the newest
occur, the watermark lies below the newest row, and the client's state was once
given out. Its heart is that pruning keeps the newest row (`Keep` is positive), so the maximum of what is left is the maximum of
what was recorded; without that conjunct "highest plus one" cannot be shown fresh. From it
follow `TypeCorrect`, `LogIsSuffix`, `NothingSilentlyLost` and `CounterNeverBack`. One more conjunct, that the watermark stays `Keep` below
the newest number, gives `InTimeIsAnswered` (`AnsweredInTime`).

Second part: a client that pages through this log is a client of `Feed` (`ImplementsFeed`), and has an exact copy once it is up to date (`FollowersAreRight`,
`FollowedCopyExact`; `PromiseKept` is the same of `Feed` itself). `FollowInv` adds two things to `IInv`. The last row of an object says which version is stored
(`LastRowTells`), so that coalescing, which keeps an object's last row in a window, describes the object at the end of that window. And what a client
holds is right up to the state string it has, or is still on its list (`RightSoFar`): an object that it has wrong was touched after
its state, so the next page that reaches that far must name it. That the objects it fetches are *newer* than its state does no harm,
because whatever made them so has a row that will come. The refinement goes action by action: `Write` is `Change`, `ChangesAnswered`
is `Tell`, `ChangesRefused` is `Decline`, `FetchListed` is `Fetch`, `PruneChangeLog` stutters.

**Query changes.** `QueryChangesProofs`: `MembersAlwaysExact` and `OrderAlwaysExact`, from `QueryInv` (`ListsAreRight`) on top of `IInv` and `FollowInv`.
`QueryInv` speaks of the *settled* objects, those with no row after the client's query state: the list names them exactly when they match
(`SettledRight`), and in order unless a diff was cut short (`SettledInOrder`). A write unsettles its object and nothing else, so writers cannot disturb
it, however they move objects about. An answer either names an object or leaves it settled; the third case, that it came and went in between and is
named nowhere, is where `ListedIsOld` is needed: such an object cannot be in the list, because what is in it had a row by its state.
The diff itself is a matter of lists (the first half of the module): a finite set has one ascending list (`OnlyInOrder`); what remains of the client's is the
ascending rest of the result; and putting an id at its index keeps a list ascending that has all smaller ones (`PutSorted`), which the order of
`added` sees to (`StageSorted`). Induction over the list and over its length is by a least counterexample (`LeastOf`).

**Folder sync.** `FolderSyncProofs`, first part: `TypeCorrect`, and `NeverStranded` (`KeyRecoverable`). The invariant needed besides the goal is which key the
operation carries: the stored one until the server has answered (then the server's previous key *is* the
stored one), one of the server's two afterwards.

Second part: `CacheAlwaysMatches`, `NeverLost`, `NoOtherGhosts`, `NeverTwoEmails`, `LogAlwaysFollows` and the action property
`NeverRemovedEarly`, all from `MailInv`. Its centre is one map, `Believed`: the view that goes with the key we hold, whichever of the server's
two that is. Calls do not change it (a new key gets a new view; the old key keeps its own), faults do not, only the transaction that commits a
key does, by exactly what the answer in hand says (`AnswerInHand`, `PageInHand`, `ChangeInHand`, `CreatedInHand`). So rows and `Believed` change together.
The weaker statement "rows match the newest view" is not inductive: it is false between any call and its commit.

**The account.** `AccountProofs`, first part: `TypeCorrect`, `OrphansAlwaysAccounted`, `RowsAlwaysMatch` and `LogsAlwaysFollow` (log and tables agree on which mailboxes and emails there are;
proved only, no run checks it), from `IInv`, which is the types and
three groups of facts. `ServerInv`: the server knows us to have items only of keyed mailboxes, cached folders are or were there, and a reconciliation drops only what is gone for good.
`TablesInv`: a row's item exists or existed, a moved email's first item is gone, and a row without a mailbox is of a dropped folder or adrift.
`HandInv`, one part for each kind of operation: what it read or was told is still applicable, because the server only goes *forward* (what is gone never comes back under the
same id; `RemoteIInv` is one lemma for all that others do). The longest part is `SyncCommitIInv`, where a page that deletes and adds is applied to rows that moved emails may hold under other names.

Second part: `AnswersAlwaysCurrent` (`AnswerIsCurrent`). It needs one fact about filters and one about batches. *Filters*: what a tree selects lies in its scope (`ScopeCovers`). Both are
recursive functions, so it must first be shown that they satisfy their equations (`Recursion`: a function whose value at `n` depends on smaller arguments only exists; then
`ScopeEquation`, `SelectsEquation`). The library's induction theorems cannot be used here, so each induction is a least counterexample (`LeastOf`). *Batches*: `BatchInv` follows one from the listing to its answer.
The listing has the folder of all mail that was there when the batch began (`ListingCovers`), a page says all that the holder of the key does not know yet (`PageCovers`), and of the folders the batch
needs each is still to come, up to date, or left out by a failure (`ScopeSynced`), in spite of what others do meanwhile (`op.moving` has what they touched) and of the commits of the other folders (`SyncCommitKeeps`).

**Threads.** `CoordinatorProofs`: `TypeCorrect`, `KeyAlwaysNewest` and `FreshAlwaysEarned`, from `LockInv`. A lock is held by a thread from the moment it no longer asks for it (`LocksHeld`),
and the server's key differs from the stored one only while the lock's holder is between its call and its commit, when it carries the new one (`KeyInHand`).
So whoever is about to call, holding the lock, reads a key that nobody can replace before he does. A caller who queued for a lock sees the window stamped by the one before him
(`EnsuredOnce`).

`CoordinatorRows`: `RowsAlwaysAgree`. Records are read *before* the lock, so what an operation has in hand may be old; `RowsInv` says how old: every row, record
and belief is of a place the message has been (`KnownIsPast`), and a message's place counts up. Flags that disagree are owed by an operation
between its two transactions, or the row is `overlapped`, and under `command_lock`, where at most one operation is not idle (`OneAtATime`), no row ever is.

**Requests and streams.** `ServingProofs`, first part: `MigrationsInStep` and
`OnlyTornScriptsStick` (`StartFailsOnlyIfTorn`). The invariant says that a start goes on with the script after the version
(`StartInStep`) and that, unless a crash has hit an open script, no statement of a later script has been applied (`VersionTellsStatements`), so that
its first statement is new. Everything a request or a stream does leaves the database's scripts alone (`ServingSteps`). Second part: `TypeCorrect` and
`QuietAlwaysCurrent` (`QuietStreamIsCurrent`), from `StreamInv`: only open streams can be behind, and one is put behind by nothing but the writes the property names.

**Submissions.** `SubmissionProofs`: `TypeCorrect`, `FinalIsTrue`,
`SentNeverUnknown`, `StatusesTrue`, `LogTrue` and `ToldForGood`, from one inductive invariant. Its parts say what the goals
leave open: while a batch is sending, its row is pending and unlogged, and its message is out exactly when the
call was accepted or went unheard (`InFlight`); a call that may still happen has not yet (`LateNotYet`); an id
that was never used has sent nothing (`FreshUnknown`), so a new row cannot inherit a send; rows and log entries
belong together (`LogAndRow`); what is final, and what the reply will report, is settled and out of reach of
late calls (`FinalSettled`, `ReportedSettled`); and every other row is accounted for by a timeout or a crash
(`StatusAccounted`). `NeverResent` (`NoAutomaticResend`) adds `ResendInv`: each submission's message goes out at most once, and the
submissions made of an email and the creations of it that still wait in the batch are together no more than
clients have asked for.

**Only model-checked.** The liveness properties (temporal reasoning with fairness is outside the prover's reach). Every safety invariant and
action property that a run checks has a theorem.

## Not modelled

- *Data*: field mapping, MIME, JSON, body parts, counts and rights, the live summary, thread keys. No step of another actor disturbs them, and no decision of the sync reads them.
- *The threads table*: rows are written with the emails and read by `Thread/get` only.
- *Blobs*: an upload is one insert, a download one read under `command_lock`.
- *`registry.get`*: it runs on the event loop between two awaits, so calls cannot interleave; creating the adapters opens no connection.
- *Request checks, result references, authentication, configuration, metrics, the session document*: pure functions of their input.
- *Pages together with several threads*, and *pages together with folders that go*: each is modelled with the others held still, because a folder's
  lock is held over all its pages (`sync.py:118`) and `command_lock` over the batch.
- *Details of streams*: see `Serving`.

## Plan

The plan is done: the refinement of `Feed`, the locks and rows of `Coordinator`, the rows and log of `FolderSync`, the tables of
`Account` and its answers, the resends of `Submission`, the lists of `QueryChanges`. What is left is to shorten the longest proofs (`AccountProofs`, `CoordinatorRows`).
