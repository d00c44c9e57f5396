------------------------------ MODULE Coordinator ------------------------------
(***************************************************************************)
(* SyncCoordinator (backend/sync.py) used by several threads: one lock per *)
(* folder, taken after the record or the freshness window was looked at,   *)
(* and released before the last write of a keyword change.  FolderSync     *)
(* checks what one operation at a time does to the tables; here the        *)
(* operations interleave.                                                  *)
(*                                                                         *)
(* `serialized` says how the coordinator is used.  The application calls   *)
(* it under the account's command_lock: one operation at a time.  Its own  *)
(* docstrings and tests (test_sync.py:376) promise more: that callers may  *)
(* overlap.  Both uses are in every run.                                   *)
(*                                                                         *)
(* Folders are cached and stay; the server puts all that is pending in one *)
(* page; a call either fails before the server acts or is answered (lost   *)
(* answers and pages are FolderSync's).  A message that is moved becomes   *)
(* another item: its generation counts the moves.                          *)
(***************************************************************************)
EXTENDS Naturals, FiniteSets, Sequences

CONSTANTS
    Threads,
    Folders,        \* folder ids, in the order sorted() gives them
    Messages,       \* what users know as one message
    HomeOf,         \* where a message is at first
    NoThread,       \* not a thread
    NoItem,         \* not an item: a message that is gone, an email without a row
    MaxCalls,       \* bound: operations begun
    MaxMoves,       \* bound: moves of one message
    MaxRemote,      \* bound: changes by other clients
    MaxFaults       \* bound: calls that fail

ASSUME CoordinatorAssumption ==
    /\ Folders \subseteq Nat \ {0} /\ Folders # {}
    /\ Messages # {} /\ HomeOf \in [Messages -> Folders]
    /\ NoThread \notin Threads
    /\ MaxCalls \in Nat /\ MaxMoves \in Nat /\ MaxRemote \in Nat /\ MaxFaults \in Nat

VARIABLES
    serialized, \* callers hold the account's command_lock
    srv,        \* srv[m]: the item message m is now
    srvKey,     \* the newest key the server issued for a folder
    told,       \* the items, with their flags, that the holder of that key knows
    stored,     \* mailboxes.sync_key
    rows,       \* the emails table: email id -> its item and flags
    lock,       \* _folder_locks: the thread that holds the folder's lock
    fresh,      \* _folder_synced_at: folders stamped within the window
    op,         \* op[t]: the operation thread t carries out
    earned,     \* history: successful syncs by ensure_folder_synced in this window
    overlapped, \* history: emails written while another thread held their record
    spent       \* operations begun, remote changes and faults so far

server == <<srv, srvKey, told>>
store == <<stored, rows>>
vars == <<serialized, server, store, lock, fresh, op, earned, overlapped, spent>>

Flags == {"seen", "flagged"}
Item == [message : Messages, gen : 0..MaxMoves, folder : Folders, flags : SUBSET Flags]

ASSUME NoItemAssumption == NoItem \notin Item

\* Emails are named after the item they were first cached for.
Ids == Messages \X (0..MaxMoves)

Operation == [kind   : {"none", "sync", "ensure", "seen", "flagged", "delete", "move"},
              pc     : {"idle", "lock", "call", "commit", "write"},
              need   : Seq(Folders),             \* locks still to take, in order
              folder : Folders,
              key    : Nat,                      \* the key read, then the key returned
              id     : Ids,
              row    : Item \cup {NoItem},        \* the record, read before the lock
              to     : Folders,
              put    : SUBSET Item,              \* added and changed items of the page
              del    : SUBSET Item,              \* its deleted items
              ok     : BOOLEAN]                  \* the item's status is "1"

AnyFolder == CHOOSE f \in Folders : TRUE
AnyId == CHOOSE id \in Ids : TRUE
Idle == [kind |-> "none", pc |-> "idle", need |-> <<>>, folder |-> AnyFolder, key |-> 0,
         id |-> AnyId, row |-> NoItem, to |-> AnyFolder, put |-> {}, del |-> {}, ok |-> FALSE]

TypeOK ==
    /\ serialized \in BOOLEAN
    /\ srv \in [Messages -> Item \cup {NoItem}]
    /\ srvKey \in [Folders -> Nat]
    /\ told \in [Folders -> SUBSET Item]
    /\ stored \in [Folders -> Nat]
    /\ rows \in [Ids -> Item \cup {NoItem}]
    /\ lock \in [Folders -> Threads \cup {NoThread}]
    /\ fresh \in SUBSET Folders
    /\ op \in [Threads -> Operation]
    /\ earned \in [Folders -> 0..1]
    /\ overlapped \in SUBSET Ids
    /\ spent \in [calls : 0..MaxCalls, remote : 0..MaxRemote, faults : 0..MaxFaults]

FirstItem(m) == [message |-> m, gen |-> 0, folder |-> HomeOf[m], flags |-> {}]

\* Everything was synced some time ago, except folders that still have key "0".
Init ==
    /\ serialized \in BOOLEAN
    /\ srv = [m \in Messages |-> FirstItem(m)]
    /\ \E synced \in SUBSET Folders :
           LET known(f) == IF f \in synced THEN {m \in Messages : HomeOf[m] = f} ELSE {}
           IN  /\ srvKey = [f \in Folders |-> IF f \in synced THEN 1 ELSE 0]
               /\ stored = srvKey
               /\ told = [f \in Folders |-> {FirstItem(m) : m \in known(f)}]
               /\ rows = [id \in Ids |-> IF id[2] = 0 /\ HomeOf[id[1]] \in synced
                                         THEN FirstItem(id[1]) ELSE NoItem]
    /\ lock = [f \in Folders |-> NoThread]
    /\ fresh = {}
    /\ op = [t \in Threads |-> Idle]
    /\ earned = [f \in Folders |-> 0]
    /\ overlapped = {}
    /\ spent = [calls |-> 0, remote |-> 0, faults |-> 0]

-----------------------------------------------------------------------------
(* The server, and time *)

Contents(f) == {srv[m] : m \in {n \in Messages : srv[n] # NoItem /\ srv[n].folder = f}}

SameItem(i, j) == i.message = j.message /\ i.gen = j.gen

\* Another client flags a message or removes it.
Remote ==
    /\ spent.remote < MaxRemote
    /\ spent' = [spent EXCEPT !.remote = @ + 1]
    /\ \E m \in Messages :
           /\ srv[m] # NoItem
           /\ \/ srv' = [srv EXCEPT ![m] = NoItem]
              \/ \E flag \in Flags : srv' = [srv EXCEPT ![m].flags = (@ \ {flag}) \cup ({flag} \ @)]
    /\ UNCHANGED <<serialized, srvKey, told, store, lock, fresh, op, earned, overlapped>>

\* The freshness window of a folder has passed.
Expire(f) ==
    /\ f \in fresh
    /\ fresh' = fresh \ {f}
    /\ earned' = [earned EXCEPT ![f] = 0]
    /\ UNCHANGED <<serialized, server, store, lock, op, overlapped, spent>>

-----------------------------------------------------------------------------
(* Beginning an operation; locks *)

\* Fault: two requests run at once whatever the account's command_lock says.
AdmittedAlways(t) == op[t] = Idle

\* Under the command_lock no other thread is in the coordinator.
Admitted(t) == op[t] = Idle /\ (serialized => \A u \in Threads : op[u] = Idle)

Begin(t, new) ==
    /\ Admitted(t)
    /\ spent.calls < MaxCalls
    /\ spent' = [spent EXCEPT !.calls = @ + 1]
    /\ op' = [op EXCEPT ![t] = new]
    /\ UNCHANGED <<serialized, server, store, lock, fresh, earned, overlapped>>

StartSync(t, f) == Begin(t, [Idle EXCEPT !.kind = "sync", !.pc = "lock", !.need = <<f>>, !.folder = f])

\* The first look at the freshness window: a fresh folder is no work.
StartEnsure(t, f) ==
    f \notin fresh /\ Begin(t, [Idle EXCEPT !.kind = "ensure", !.pc = "lock", !.need = <<f>>, !.folder = f])

\* The record is read here, and its folder's lock asked for after.
StartChange(t, kind, id) ==
    /\ rows[id] # NoItem
    /\ Begin(t, [Idle EXCEPT !.kind = kind, !.pc = "lock", !.need = <<rows[id].folder>>,
                             !.folder = rows[id].folder, !.id = id, !.row = rows[id]])

\* Fault: the source's lock first.
MoveLocksUnsorted(from, to) == <<from, to>>

\* sorted((src_mailbox_id, dst_mailbox_id))
MoveLocks(from, to) == IF from < to THEN <<from, to>> ELSE <<to, from>>

StartMove(t, id, to) ==
    /\ rows[id] # NoItem /\ rows[id].folder # to
    /\ Begin(t, [Idle EXCEPT !.kind = "move", !.pc = "lock", !.need = MoveLocks(rows[id].folder, to),
                             !.folder = rows[id].folder, !.id = id, !.row = rows[id], !.to = to])

Released(t) == [f \in Folders |-> IF lock[f] = t THEN NoThread ELSE lock[f]]

NextLock(t) == Head(op[t].need)

\* Is there nothing left to do for an ensure that waited for the lock?
DoneMeanwhile(t) == op[t].kind = "ensure" /\ NextLock(t) \in fresh

\* Take the next lock once it is free; under the last one read the folder's key.
Take(t, free, done) ==
    /\ op[t].pc = "lock"
    /\ free
    /\ IF done
       THEN op' = [op EXCEPT ![t] = Idle] /\ lock' = lock
       ELSE LET rest == Tail(op[t].need)
            IN  /\ lock' = [lock EXCEPT ![NextLock(t)] = t]
                /\ op' = [op EXCEPT ![t].need = rest, ![t].key = stored[op[t].folder],
                                    ![t].pc = IF rest = <<>> THEN "call" ELSE "lock"]
    /\ UNCHANGED <<serialized, server, store, fresh, earned, overlapped, spent>>

\* Fault: the lock is not waited for.
AcquireAnyway(t) == Take(t, TRUE, DoneMeanwhile(t))

\* Fault: whoever waited for the lock syncs without a second look.
AcquireUnchecked(t) == Take(t, lock[NextLock(t)] = NoThread, FALSE)

Acquire(t) == Take(t, lock[NextLock(t)] = NoThread, DoneMeanwhile(t))

-----------------------------------------------------------------------------
(* Calls: the server acts, the tables are as before *)

Calls(t, kinds) == op[t].pc = "call" /\ op[t].kind \in kinds

\* The server answers the holder of its newest key, and anyone with key "0".
Answers(t) == op[t].key \in {0, srvKey[op[t].folder]}

\* Is the item of the record still that message?
StillThere(t) ==
    LET now == srv[op[t].row.message] IN now # NoItem /\ SameItem(now, op[t].row)

Movable(t) == StillThere(t) /\ op[t].row.gen < MaxMoves

Called == UNCHANGED <<serialized, store, lock, fresh, earned, overlapped, spent>>

\* Key "0" only obtains a key; then comes what its holder does not know.
SyncCall(t) ==
    /\ Calls(t, {"sync", "ensure"}) /\ Answers(t)
    /\ LET f == op[t].folder
           known == IF op[t].key = 0 THEN {} ELSE told[f]
           now == IF op[t].key = 0 THEN {} ELSE Contents(f)
       IN  /\ srvKey' = [srvKey EXCEPT ![f] = @ + 1]
           /\ told' = [told EXCEPT ![f] = now]
           /\ op' = [op EXCEPT ![t].pc = "commit", ![t].key = srvKey[f] + 1, ![t].ok = op[t].key # 0,
                               ![t].put = now \ known,
                               ![t].del = {i \in known : ~\E j \in now : SameItem(i, j)}]
    /\ srv' = srv /\ Called

\* A keyword change or a deletion of the item the record named, of which the
\* server then knows that the holder of the new key knows.
ChangeCall(t) ==
    /\ Calls(t, Flags \cup {"delete"}) /\ Answers(t)
    /\ LET f == op[t].folder
           m == op[t].row.message
           flag(i) == [i EXCEPT !.flags = @ \cup {op[t].kind}]
           known == {i \in told[f] : SameItem(i, op[t].row)}
       IN  /\ srvKey' = [srvKey EXCEPT ![f] = @ + 1]
           /\ IF ~StillThere(t) THEN srv' = srv /\ told' = told
              ELSE IF op[t].kind = "delete"
              THEN srv' = [srv EXCEPT ![m] = NoItem] /\ told' = [told EXCEPT ![f] = @ \ known]
              ELSE /\ srv' = [srv EXCEPT ![m] = flag(@)]
                   /\ told' = [told EXCEPT ![f] = (@ \ known) \cup {flag(i) : i \in known}]
           /\ op' = [op EXCEPT ![t].pc = "commit", ![t].key = srvKey[f] + 1, ![t].ok = StillThere(t)]
    /\ Called

\* MoveItems carries no key; the message is another item in the other folder.
MoveCall(t) ==
    /\ Calls(t, {"move"}) /\ Movable(t)
    /\ LET m == op[t].row.message
       IN  srv' = [srv EXCEPT ![m].folder = op[t].to, ![m].gen = @ + 1]
    /\ op' = [op EXCEPT ![t].pc = "commit"]
    /\ UNCHANGED <<srvKey, told>> /\ Called

\* BackendError before the server acted; the with statements let go of the locks.
Fails(t) ==
    /\ op[t].pc = "call"
    /\ \/ ~Answers(t) /\ op[t].kind # "move" /\ spent' = spent
       \/ op[t].kind = "move" /\ ~Movable(t) /\ spent' = spent
       \/ spent.faults < MaxFaults /\ spent' = [spent EXCEPT !.faults = @ + 1]
    /\ lock' = Released(t)
    /\ op' = [op EXCEPT ![t] = Idle]
    /\ UNCHANGED <<serialized, server, store, fresh, earned, overlapped>>

-----------------------------------------------------------------------------
(* Transactions *)

Holding(i) == {id \in Ids : rows[id] # NoItem /\ SameItem(rows[id], i)}

\* Thread t writes the rows of `ids` while others hold the records of some.
Overlap(t, ids) ==
    overlapped' = overlapped \cup
        {id \in ids : \E u \in Threads \ {t} : op[u].row # NoItem /\ op[u].id = id}

\* Fault: the window is stamped before the page is there.
MarkFreshEarly(t) == fresh' = IF op[t].kind = "ensure" THEN fresh \cup {op[t].folder} ELSE fresh

\* After the page an ensure stamps the window, still under the lock.
MarkFresh(t) == fresh' = IF op[t].kind = "ensure" /\ op[t].ok THEN fresh \cup {op[t].folder} ELSE fresh

\* The page and its key; after the bootstrap the loop calls again.
SyncCommit(t) ==
    /\ op[t].pc = "commit" /\ op[t].kind \in {"sync", "ensure"}
    /\ LET f == op[t].folder
           removed == UNION {Holding(i) : i \in op[t].del}
           item(id) == {i \in op[t].put : id \in Holding(i) \/ (Holding(i) = {} /\ id = <<i.message, i.gen>>)}
       IN  /\ rows' = [id \in Ids |-> IF id \in removed THEN NoItem
                                      ELSE IF item(id) # {} THEN CHOOSE i \in item(id) : TRUE
                                      ELSE rows[id]]
           /\ stored' = [stored EXCEPT ![f] = op[t].key]
           /\ Overlap(t, removed \cup {id \in Ids : item(id) # {}})
           /\ MarkFresh(t)
           /\ IF op[t].ok
              THEN /\ op' = [op EXCEPT ![t] = Idle] /\ lock' = Released(t)
                   /\ earned' = IF op[t].kind = "ensure" THEN [earned EXCEPT ![f] = @ + 1] ELSE earned
              ELSE /\ op' = [op EXCEPT ![t].pc = "call", ![t].put = {}, ![t].del = {}]
                   /\ UNCHANGED <<lock, earned>>
    /\ UNCHANGED <<serialized, server, spent>>

\* The new key, whatever the status; then the lock is given up.
ChangeCommit(t) ==
    /\ op[t].pc = "commit" /\ op[t].kind \in Flags \cup {"delete"}
    /\ stored' = [stored EXCEPT ![op[t].folder] = op[t].key]
    /\ lock' = Released(t)
    /\ op' = [op EXCEPT ![t] = IF op[t].ok THEN [op[t] EXCEPT !.pc = "write"] ELSE Idle]
    /\ UNCHANGED <<serialized, server, rows, fresh, earned, overlapped, spent>>

\* Without a lock, and with the flags of the record read at the start.
ChangeWrite(t) ==
    /\ op[t].pc = "write"
    /\ LET id == op[t].id
       IN  /\ rows' = [rows EXCEPT ![id] =
                          IF @ = NoItem \/ op[t].kind = "delete" THEN NoItem
                          ELSE [@ EXCEPT !.flags = op[t].row.flags \cup {op[t].kind}]]
           /\ Overlap(t, {id})
    /\ op' = [op EXCEPT ![t] = Idle]
    /\ UNCHANGED <<serialized, server, stored, lock, fresh, earned, spent>>

MoveCommit(t) ==
    /\ op[t].pc = "commit" /\ op[t].kind = "move"
    /\ rows' = [rows EXCEPT ![op[t].id] =
                   IF @ = NoItem THEN NoItem ELSE [@ EXCEPT !.folder = op[t].to, !.gen = op[t].row.gen + 1]]
    /\ Overlap(t, {op[t].id})
    /\ lock' = Released(t)
    /\ op' = [op EXCEPT ![t] = Idle]
    /\ UNCHANGED <<serialized, server, stored, fresh, earned, spent>>

-----------------------------------------------------------------------------

Start(t) ==
    \/ \E f \in Folders : StartSync(t, f) \/ StartEnsure(t, f)
    \/ \E id \in Ids : \/ \E kind \in Flags \cup {"delete"} : StartChange(t, kind, id)
                       \/ \E to \in Folders : StartMove(t, id, to)

Step(t) ==
    \/ Acquire(t) \/ Fails(t)
    \/ SyncCall(t) \/ ChangeCall(t) \/ MoveCall(t)
    \/ SyncCommit(t) \/ ChangeCommit(t) \/ ChangeWrite(t) \/ MoveCommit(t)

Next ==
    \/ Remote
    \/ \E f \in Folders : Expire(f)
    \/ \E t \in Threads : Start(t) \/ Step(t)

\* A thread that can go on does; a lock that is given up is taken by a waiter.
Spec == Init /\ [][Next]_vars /\ \A t \in Threads : WF_vars(Step(t))

-----------------------------------------------------------------------------
(* Properties *)

\* No two threads ever work from one key: what a folder's lock does not cover
\* (the record, the last write) does not touch its key, and the stored key is
\* the server's newest whenever nobody holds the lock (sync.py:118, 264).
KeyIsNewest ==
    \A f \in Folders :
        /\ lock[f] = NoThread => stored[f] = srvKey[f]
        /\ \A t \in Threads : op[t].pc \in {"call", "commit"} /\ op[t].folder = f => lock[f] = t

\* A row that no thread has in hand.
AtRest(id) == id \notin overlapped /\ \A t \in Threads : op[t].row # NoItem => op[t].id # id

\* One message is one email, under the flags the server believes we know, even
\* while it is moved between folders that are being synced; except for rows
\* written by one thread while another held their record, which the folder
\* locks allow (sync.py:259, 289) and the application's command_lock does not.
RowsAgree ==
    /\ serialized => overlapped = {}
    /\ \A id, other \in Ids : rows[id] # NoItem /\ other # id => other \notin Holding(rows[id])
    /\ \A f \in Folders : \A i \in told[f] :
           lock[f] = NoThread /\ (\E j \in Contents(f) : SameItem(i, j)) =>
               \E id \in Holding(i) : AtRest(id) => rows[id] = i

\* A folder is fresh when one sync of it has finished since the last window,
\* and callers that queued behind that sync did not repeat it (sync.py:180-186).
FreshIsEarned == \A f \in Folders : earned[f] = IF f \in fresh THEN 1 ELSE 0

\* Every operation ends: no two moves wait for each other's folder (sync.py:324).
EveryCallReturns == \A t \in Threads : op[t] # Idle ~> op[t] = Idle

=============================================================================
