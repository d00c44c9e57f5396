------------------------------- MODULE Account -------------------------------
(***************************************************************************)
(* One account from the request down: what a batch of method calls syncs   *)
(* (jmap/sync_scope.py, app.py), how the mailboxes table follows the       *)
(* server's folder tree (backend/sync.py reconcile_folders), and the       *)
(* objects Mailbox/set and Email/set create, update and destroy            *)
(* (jmap/mailbox.py, jmap/email.py), over the tables of store/cache.py.    *)
(*                                                                         *)
(* FolderSync looks inside the sync of one folder that stays; here folders *)
(* come, go and are renamed, on the server and through the bridge, and a   *)
(* sync is one exchange: what the server has to tell the holder of the     *)
(* stored key, in one page.  Flags are left to FolderSync, the freshness   *)
(* windows to Coordinator (this is freshness_seconds = 0).                 *)
(*                                                                         *)
(* Operations of an account run one at a time, under its command_lock.     *)
(* The steps are the calls to the server and the transactions.  What the   *)
(* code refuses without a call or a write is no step.  Email ids are       *)
(* named as in FolderSync: after the item an email was first cached for.   *)
(***************************************************************************)
EXTENDS Naturals, FiniteSets, Sequences

CONSTANTS
    Folders,        \* folder ids
    UserFolders,    \* type USER_MAIL: created, renamed and removed by clients
    DraftFolders,   \* the drafts role
    MailFolders,    \* is_mail_folder; the others exist on the server only
    Titles,         \* a folder's name and parent
    Items,          \* server item ids; an id belongs to one folder for good
    HomeOf,         \* HomeOf[i]: the folder of item i
    NoItem,         \* not an item
    NoFolder,       \* not a folder
    Filters,        \* filter trees: a sequence of nodes, operands before operators
    Marked,         \* the items that a condition other than inMailbox selects
    Batches,        \* the batches clients send: sets of calls (see Call)
    Operations,     \* the objects of /set calls that clients send
    MaxRemote,      \* bound: changes made on the server by others
    MaxFaults       \* bound: crashes and failed or unheard calls

\* A call is 0, for Mailbox/get and its like, or n, for Email/query with Filters[n].
Call == 0..Len(Filters)

ASSUME AccountAssumption ==
    /\ UserFolders \cup DraftFolders \subseteq MailFolders
    /\ MailFolders \subseteq Folders
    /\ Titles # {} /\ Titles \cap {"new", "gone", "absent"} = {}
    /\ HomeOf \in [Items -> Folders]
    /\ Folders \cap Items = {}
    /\ NoItem \notin Items /\ NoFolder \notin Folders
    /\ Batches \subseteq SUBSET Call
    /\ Operations \subseteq {"create", "rename", "remove", "keywords", "move", "both", "destroy", "draft"}
    /\ MaxRemote \in Nat /\ MaxFaults \in Nat

VARIABLES
    folder,     \* the server's tree: "new" (not yet there), "gone" or its title
    srv,        \* srv[i]: "new", "there" or "gone"
    told,       \* the items the server believes the holder of the stored key has
    mailboxes,  \* the mailboxes table: "absent" or the title of the row
    keyed,      \* the rows of mailboxes whose sync_key is not "0"
    emails,     \* the emails table: email id -> its item, NoItem without a row
    logged,     \* the last change_log entry of each mailbox and email id
    op,         \* the operation in flight, lost in a crash
    strayed,    \* history: folders that were synced without a row, and have none since
    dropped,    \* history: folders whose row a reconciliation removed, and have none since
    adrift,     \* history: items whose row came or stayed without the server knowing it
    remote,     \* how many changes others have made
    faults      \* how many faults have happened

server == <<folder, srv, remote>>
store == <<told, mailboxes, keyed, emails, logged>>
history == <<strayed, dropped, adrift>>
vars == <<server, store, op, history, faults>>

There(f) == folder[f] \in Titles
Cached == {f \in Folders : mailboxes[f] # "absent"}
Holding(i) == {id \in Items : emails[id] = i}
Row(id) == emails[id] # NoItem
InFolder(f) == {i \in Items : HomeOf[i] = f}
Visible(f) == {i \in InFolder(f) : srv[i] = "there"}

Entry == {"none", "created", "updated", "destroyed"}

Kinds == {"none", "batch", "create", "rename", "remove", "keywords", "move", "both", "destroy", "draft"}

Operation == [kind    : Kinds,
              pc      : {"idle", "list", "listed", "sync", "paged", "answer",   \* a batch
                         "commit", "write", "move", "moved", "raised"},         \* an object of a /set
              batch   : SUBSET Call,
              todo    : SUBSET Folders,                  \* folder_ids still to sync
              listing : UNION {[S -> Titles] : S \in SUBSET Folders},
              folder  : Folders \cup {NoFolder},
              title   : Titles \cup {"absent"},
              added   : SUBSET Items,                    \* of the page
              deleted : SUBSET Items,
              skipped : SUBSET Folders,                  \* those whose sync raised, or never came for it
              moving  : SUBSET Items,                    \* changed by others since the batch began
              id      : Items \cup {NoItem},
              item    : Items \cup {NoItem},
              status  : BOOLEAN]                         \* the item's status is "1"

Idle == [kind |-> "none", pc |-> "idle", batch |-> {}, todo |-> {}, listing |-> [f \in {} |-> "absent"],
         folder |-> NoFolder, title |-> "absent", added |-> {}, deleted |-> {}, skipped |-> {},
         moving |-> {}, id |-> NoItem, item |-> NoItem, status |-> FALSE]

TypeOK ==
    /\ folder \in [Folders -> Titles \cup {"new", "gone"}]
    /\ srv \in [Items -> {"new", "there", "gone"}]
    /\ told \in SUBSET Items
    /\ mailboxes \in [Folders -> Titles \cup {"absent"}]
    /\ keyed \in SUBSET Cached
    /\ emails \in [Items -> Items \cup {NoItem}]
    /\ logged \in [Folders \cup Items -> Entry]
    /\ op \in Operation
    /\ strayed \in SUBSET Folders /\ dropped \in SUBSET Folders /\ adrift \in SUBSET Items
    /\ remote \in Nat /\ faults \in Nat

Init ==
    /\ \E here \in SUBSET UserFolders :
           folder = [f \in Folders |-> IF f \in UserFolders \ here THEN "new"
                                      ELSE CHOOSE t \in Titles : TRUE]
    /\ srv = [i \in Items |-> "new"]
    /\ told = {}
    /\ mailboxes = [f \in Folders |-> "absent"]
    /\ keyed = {}
    /\ emails = [i \in Items |-> NoItem]
    /\ logged = [x \in Folders \cup Items |-> "none"]
    /\ op = Idle
    /\ strayed = {} /\ dropped = {} /\ adrift = {}
    /\ remote = 0 /\ faults = 0

-----------------------------------------------------------------------------
(* The Exchange server: other clients and the mail system *)

\* Whatever these touch while a batch is served may or may not be in its answers.
Others(items) ==
    /\ remote < MaxRemote
    /\ remote' = remote + 1
    /\ op' = IF op.kind = "batch" THEN [op EXCEPT !.moving = @ \cup items] ELSE op
    /\ UNCHANGED <<store, history, faults>>

Removed(f) == [i \in Items |-> IF i \in Visible(f) THEN "gone" ELSE srv[i]]

NewFolder(f, t) ==
    f \in UserFolders /\ folder[f] = "new" /\ folder' = [folder EXCEPT ![f] = t] /\ srv' = srv /\ Others({})

RenameFolder(f, t) ==
    f \in UserFolders /\ There(f) /\ folder' = [folder EXCEPT ![f] = t] /\ srv' = srv /\ Others({})

DropFolder(f) ==
    f \in UserFolders /\ There(f) /\ folder' = [folder EXCEPT ![f] = "gone"] /\ srv' = Removed(f)
        /\ Others(InFolder(f))

Deliver(i) ==
    srv[i] = "new" /\ There(HomeOf[i]) /\ srv' = [srv EXCEPT ![i] = "there"] /\ folder' = folder /\ Others({i})

RemoveItem(i) ==
    srv[i] = "there" /\ srv' = [srv EXCEPT ![i] = "gone"] /\ folder' = folder /\ Others({i})

Remote ==
    \/ \E f \in Folders : DropFolder(f) \/ \E t \in Titles : NewFolder(f, t) \/ RenameFolder(f, t)
    \/ \E i \in Items : Deliver(i) \/ RemoveItem(i)

-----------------------------------------------------------------------------
(* What a batch needs synced: compute_sync_scope, extract_inmailbox_scope *)

\* The nodes that may stand at place n: an inMailbox names a folder, of whatever
\* kind, that is there or is not; the operands of an operator come before it.
Condition == [op : {"inMailbox"}, folder : Folders] \cup [op : {"other"}]
Operator(n) == [op : {"AND", "OR", "NOT"}, of : SUBSET (1..(n - 1))]

ASSUME FilterAssumption ==
    /\ Len(Filters) \in Nat
    /\ \A n \in 1..Len(Filters) : Filters[n] \in Condition \cup Operator(n)

\* Is condition `node` true of item i?  Of all conditions only inMailbox matters
\* to the scope; the others come down to a set of items.
MatchCondition(node, i) ==
    IF node.op = "inMailbox" THEN HomeOf[i] = node.folder ELSE i \in Marked

\* The items whose record a filter selects: evaluate_filter.
Selects ==
    LET selects[n \in 1..Len(Filters)] ==
            LET node == Filters[n]
            IN  CASE node.op = "AND" -> {i \in Items : \A m \in node.of : i \in selects[m]}
                  [] node.op = "OR" -> {i \in Items : \E m \in node.of : i \in selects[m]}
                  [] node.op = "NOT" -> {i \in Items : ~\E m \in node.of : i \in selects[m]}
                  [] OTHER -> {i \in Items : MatchCondition(node, i)}
    IN  selects

Unbounded == {NoFolder}

\* Fault: an OR with an unbounded operand is bounded by the others.
ScopeOrPartial ==
    LET scope[n \in 1..Len(Filters)] ==
            LET node == Filters[n]
                bounded == {scope[m] : m \in node.of} \ {Unbounded}
            IN  CASE node.op = "inMailbox" -> {node.folder}
                  [] node.op \in {"AND", "OR"} -> IF bounded = {} THEN Unbounded ELSE UNION bounded
                  [] OTHER -> Unbounded
    IN  scope

\* extract_inmailbox_scope: the folders that hold every match, or Unbounded (None).
Scope ==
    LET scope[n \in 1..Len(Filters)] ==
            LET node == Filters[n]
                operands == {scope[m] : m \in node.of}
                bounded == operands \ {Unbounded}
            IN  CASE node.op = "inMailbox" -> {node.folder}
                  [] node.op = "AND" -> IF bounded = {} THEN Unbounded ELSE UNION bounded
                  [] node.op = "OR" -> IF bounded = operands /\ operands # {} THEN UNION operands
                                       ELSE Unbounded
                  [] OTHER -> Unbounded
    IN  scope

Queries(batch) == batch \ {0}

\* compute_sync_scope: the union of what the calls need.
SyncAllFolders(batch) == \E n \in Queries(batch) : Scope[n] \in {Unbounded, {}}
ReconcileFolders(batch) == 0 \in batch \/ SyncAllFolders(batch)
FolderIds(batch) == (UNION {Scope[n] : n \in Queries(batch)}) \ Unbounded

-----------------------------------------------------------------------------
(* A batch: _ensure_synced, then its queries answered from the tables *)

\* What comes after the listing, and after each folder.
NextFolder(todo) == IF todo = {} THEN "answer" ELSE "sync"

StartBatch(batch) ==
    /\ op = Idle
    /\ op' = [Idle EXCEPT !.kind = "batch", !.batch = batch, !.todo = FolderIds(batch),
                          !.pc = IF ReconcileFolders(batch) THEN "list"
                                 ELSE NextFolder(FolderIds(batch))]
    /\ UNCHANGED <<server, store, history, faults>>

\* The listing's mail folders; the mapping keeps their name and parent.
MailFolderListing == [f \in {g \in MailFolders : There(g)} |-> folder[f]]

\* The whole folder tree, as it is.
ListFolders ==
    /\ op.pc = "list"
    /\ op' = [op EXCEPT !.pc = "listed", !.listing = MailFolderListing]
    /\ UNCHANGED <<server, store, history, faults>>

Listed == DOMAIN op.listing

\* An upsert leaves the sync_key of an old row alone.
Upserted == [f \in Folders |-> IF f \in Listed THEN op.listing[f] ELSE "absent"]

\* All cached folders, once the listing is in the table, or those in the scope.
FoldersToSync == IF SyncAllFolders(op.batch) THEN op.todo \cup Listed ELSE op.todo

\* Upsert what is listed, delete the rows of what is not, one log entry each.
Reconciled(titles, keys) ==
    /\ op.pc = "listed"
    /\ mailboxes' = titles
    /\ keyed' = keys
    /\ told' = {i \in told : HomeOf[i] \in keys}
    /\ logged' = [x \in Folders \cup Items |->
                    IF x \in Listed THEN IF x \in Cached THEN "updated" ELSE "created"
                    ELSE IF x \in Cached THEN "destroyed" ELSE logged[x]]
    /\ dropped' = (dropped \cup Cached) \ Listed
    /\ strayed' = strayed \ Listed
    /\ op' = [op EXCEPT !.pc = NextFolder(FoldersToSync), !.todo = FoldersToSync, !.listing = Idle.listing]
    /\ UNCHANGED <<server, emails, adrift, faults>>

\* Fault: ON CONFLICT DO NOTHING.
ReconcileKeepsTitles ==
    Reconciled([f \in Folders |-> IF f \in Listed \cap Cached THEN mailboxes[f] ELSE Upserted[f]],
               keyed \cap Listed)

\* Fault: the upsert takes the new record's sync_key over the old row's.
ReconcileResetsKeys == Reconciled(Upserted, {})

\* One transaction.
Reconcile == Reconciled(Upserted, keyed \cap Listed)

\* The key that is sent: the row's, or "0", whose holder has been told nothing.
ToldBy(f) == IF f \in keyed THEN told \cap InFolder(f) ELSE {}

SyncCall(f) ==
    /\ op.pc = "sync" /\ f \in op.todo
    /\ There(f)
    /\ op' = [op EXCEPT !.pc = "paged", !.folder = f,
                        !.added = Visible(f) \ ToldBy(f), !.deleted = ToldBy(f) \ Visible(f)]
    /\ UNCHANGED <<server, store, history, faults>>

\* Some items drift from here on; what has no row any more has drifted away.
Drift(items) == adrift' = {i \in items : \E id \in Items : emails'[id] = i}

\* Fault: the key is upserted: a folder without a row gets one by it.
StoreKeyUpserted(f, known) ==
    /\ keyed' = keyed \cup {f}
    /\ told' = (told \ InFolder(f)) \cup known

\* The key goes into the folder's row, if it has one.
StoreKey(f, known) ==
    IF f \in Cached
    THEN /\ keyed' = keyed \cup {f}
         /\ told' = (told \ InFolder(f)) \cup known
    ELSE UNCHANGED <<keyed, told>>

\* One transaction: the page and the key.
SyncCommit ==
    /\ op.pc = "paged"
    /\ LET f == op.folder
           rows(items) == UNION {Holding(i) : i \in items}
           new == {i \in op.added : Holding(i) = {}}
       IN  /\ emails' = [id \in Items |-> IF id \in rows(op.deleted) THEN NoItem
                                          ELSE IF id \in new THEN id ELSE emails[id]]
           /\ logged' = [x \in Folders \cup Items |->
                            IF x \in rows(op.deleted) THEN "destroyed"
                            ELSE IF x \in new THEN "created"
                            ELSE IF x \in rows(op.added) THEN "updated" ELSE logged[x]]
           /\ StoreKey(f, (ToldBy(f) \cup op.added) \ op.deleted)
           /\ Drift(IF f \in Cached THEN adrift \ op.added ELSE adrift \cup op.added)
           /\ strayed' = IF f \in Cached \/ op.added = {} THEN strayed ELSE strayed \cup {f}
           /\ op' = [op EXCEPT !.pc = NextFolder(op.todo \ {f}), !.todo = @ \ {f},
                               !.folder = NoFolder, !.added = {}, !.deleted = {}]
    /\ UNCHANGED <<server, mailboxes, dropped, faults>>

\* What a failure leaves out: with the listing everything, and later the folder
\* that fails and those that have not had their turn.
LeftOut == IF op.pc \in {"list", "listed"} THEN Folders ELSE op.todo

\* A JmapError: the batch is served from the tables.  It is sure to come for a
\* folder that is not there.
SyncFails ==
    /\ \/ op.pc = "sync" /\ (\E f \in op.todo : ~There(f)) /\ faults' = faults
       \/ op.pc \in {"list", "listed", "sync", "paged"} /\ faults < MaxFaults /\ faults' = faults + 1
    /\ op' = [Idle EXCEPT !.kind = "batch", !.pc = "answer", !.batch = op.batch, !.skipped = LeftOut,
                          !.moving = op.moving]
    /\ UNCHANGED <<server, store, history>>

\* Email/query: the ids of the rows that match.
Answer(n) == {id \in Items : Row(id) /\ emails[id] \in Selects[n]}

AnswerBatch ==
    /\ op.pc = "answer"
    /\ op' = Idle
    /\ UNCHANGED <<server, store, history, faults>>

-----------------------------------------------------------------------------
(* Mailbox/set: one object *)

\* Append a change_log row for object x.
Log(x, change) == logged' = [logged EXCEPT ![x] = change]

StartSet(kind) == op = Idle /\ kind \in Operations

\* A server call that was heard: the tables are as before.
Called == UNCHANGED <<remote, store, history, faults>>

CreateCall(f, t) ==
    /\ StartSet("create")
    /\ f \in UserFolders /\ folder[f] = "new"
    /\ folder' = [folder EXCEPT ![f] = t] /\ srv' = srv
    /\ op' = [Idle EXCEPT !.kind = "create", !.pc = "commit", !.folder = f, !.title = t]
    /\ Called

\* The row must be cached; the server answers for a folder that is there.
RenameCall(f, t) ==
    /\ StartSet("rename")
    /\ f \in UserFolders \cap Cached /\ There(f)
    /\ folder' = [folder EXCEPT ![f] = t] /\ srv' = srv
    /\ op' = [Idle EXCEPT !.kind = "rename", !.pc = "commit", !.folder = f, !.title = t]
    /\ Called

RemoveCall(f) ==
    /\ StartSet("remove")
    /\ f \in UserFolders \cap Cached /\ There(f)
    /\ folder' = [folder EXCEPT ![f] = "gone"] /\ srv' = Removed(f)
    /\ op' = [Idle EXCEPT !.kind = "remove", !.pc = "commit", !.folder = f]
    /\ Called

CreateCommit ==
    /\ op.kind = "create" /\ op.pc = "commit"
    /\ mailboxes' = [mailboxes EXCEPT ![op.folder] = op.title]
    /\ Log(op.folder, "created")
    /\ op' = Idle
    /\ UNCHANGED <<server, told, keyed, emails, history, faults>>

\* assert mailbox is not None, in the transaction that writes.
RenameCommit ==
    /\ op.kind = "rename" /\ op.pc = "commit"
    /\ IF op.folder \in Cached
       THEN /\ mailboxes' = [mailboxes EXCEPT ![op.folder] = op.title]
            /\ Log(op.folder, "updated")
            /\ op' = Idle
       ELSE /\ op' = [op EXCEPT !.pc = "raised"]
            /\ UNCHANGED <<mailboxes, logged>>
    /\ UNCHANGED <<server, told, keyed, emails, history, faults>>

\* delete_emails_in_mailbox: what a cascade takes with it.
RowsIn(f) == {id \in Items : emails[id] \in InFolder(f)}

\* The mailbox goes, and `rows` with it; the log tells of each.
Cascade(rows) ==
    /\ op.kind = "remove" /\ op.pc = "commit"
    /\ emails' = [id \in Items |-> IF id \in rows THEN NoItem ELSE emails[id]]
    /\ logged' = [x \in Folders \cup Items |->
                     IF x \in rows \cup {op.folder} THEN "destroyed" ELSE logged[x]]
    /\ mailboxes' = [mailboxes EXCEPT ![op.folder] = "absent"]
    /\ keyed' = keyed \ {op.folder}
    /\ told' = told \ InFolder(op.folder)
    /\ op' = Idle
    /\ Drift(adrift)
    /\ UNCHANGED <<server, strayed, dropped, faults>>

\* Fault: the emails of the mailbox stay.
RemoveCommitKeepsEmails == Cascade({})

\* Emails and mailbox in one transaction, one entry each.
RemoveCommit == Cascade(RowsIn(op.folder))

-----------------------------------------------------------------------------
(* Email/set: one object *)

MailboxOf(id) == HomeOf[emails[id]]

\* The one mailbox a patch of mailboxIds may name: a cached one, and another.
MoveTarget(id, to) == to \in Cached \ {MailboxOf(id)}

\* A create must name a cached mailbox with the drafts role.
DraftTarget(f) == f \in DraftFolders \cap Cached

\* _apply_email_change up to the server's answer: a keyword change (alone or in
\* front of a move) or a deletion.  assert mailbox is not None; under key "0"
\* the server refuses; an item that is gone has another status than "1".
ChangeCall(kind, id, to) ==
    /\ StartSet(kind) /\ kind \in {"keywords", "both", "destroy"}
    /\ Row(id)
    /\ kind = "both" => MoveTarget(id, to)
    /\ \/ /\ MailboxOf(id) \notin Cached
          /\ op' = [Idle EXCEPT !.kind = kind, !.pc = "raised", !.id = id]
          /\ UNCHANGED <<server, store, history, faults>>
       \/ /\ MailboxOf(id) \in keyed /\ There(MailboxOf(id))
          /\ srv' = IF kind = "destroy" /\ srv[emails[id]] = "there"
                    THEN [srv EXCEPT ![emails[id]] = "gone"] ELSE srv
          /\ op' = [Idle EXCEPT !.kind = kind, !.pc = "commit", !.id = id, !.folder = to,
                                !.item = emails[id], !.status = srv[emails[id]] = "there"]
          /\ folder' = folder
          /\ Called

\* First transaction: the new key, under which a deletion made is known.
ChangeCommit ==
    /\ op.kind \in {"keywords", "both", "destroy"} /\ op.pc = "commit"
    /\ IF op.kind = "destroy" /\ op.status
       THEN told' = told \ {op.item} /\ adrift' = adrift \cup {op.item}
       ELSE UNCHANGED <<told, adrift>>
    /\ op' = IF op.status THEN [op EXCEPT !.pc = "write"] ELSE Idle
    /\ UNCHANGED <<server, mailboxes, keyed, emails, logged, strayed, dropped, faults>>

\* Second transaction: the row and its entry.
ChangeWrite ==
    /\ op.pc = "write"
    /\ emails' = IF op.kind = "destroy" THEN [emails EXCEPT ![op.id] = NoItem] ELSE emails
    /\ Log(op.id, IF op.kind = "destroy" THEN "destroyed" ELSE "updated")
    /\ op' = IF op.kind = "both" THEN [op EXCEPT !.pc = "move"] ELSE Idle
    /\ Drift(adrift)
    /\ UNCHANGED <<server, told, mailboxes, keyed, strayed, dropped, faults>>

\* The item reappears in the other folder as another item.
MoveItem(old, new, to) ==
    /\ srv[old] = "there" /\ There(to)
    /\ srv[new] = "new" /\ HomeOf[new] = to
    /\ srv' = [srv EXCEPT ![old] = "gone", ![new] = "there"]
    /\ folder' = folder

\* An update of mailboxIds alone.
MoveCall(id, to, new) ==
    /\ StartSet("move")
    /\ Row(id) /\ MoveTarget(id, to)
    /\ MoveItem(emails[id], new, to)
    /\ op' = [Idle EXCEPT !.kind = "move", !.pc = "moved", !.id = id, !.item = new]
    /\ Called

\* The move after the keywords, to the target that was checked before them.
MoveToo(new) ==
    /\ op.pc = "move"
    /\ MoveItem(emails[op.id], new, op.folder)
    /\ op' = [op EXCEPT !.pc = "moved", !.item = new]
    /\ Called

\* The server refuses it or is not heard: BackendError, the keywords stay.
MoveTooFails ==
    /\ op.pc = "move"
    /\ op' = Idle
    /\ UNCHANGED <<server, store, history, faults>>

MoveCommit ==
    /\ op.pc = "moved"
    /\ emails' = [emails EXCEPT ![op.id] = op.item]
    /\ Log(op.id, "updated")
    /\ Drift(adrift \cup {op.item})
    /\ op' = Idle
    /\ UNCHANGED <<server, told, mailboxes, keyed, strayed, dropped, faults>>

\* Sync Add under the folder's key; key "0" is refused.
DraftCall(f, new) ==
    /\ StartSet("draft")
    /\ DraftTarget(f) /\ f \in keyed /\ There(f)
    /\ srv[new] = "new" /\ HomeOf[new] = f
    /\ srv' = [srv EXCEPT ![new] = "there"] /\ folder' = folder
    /\ op' = [Idle EXCEPT !.kind = "draft", !.pc = "commit", !.folder = f, !.item = new]
    /\ Called

\* Key and row in one transaction; the key's view has the item.
DraftCommit ==
    /\ op.kind = "draft" /\ op.pc = "commit"
    /\ emails' = [emails EXCEPT ![op.item] = op.item]
    /\ told' = told \cup {op.item}
    /\ Log(op.item, "created")
    /\ op' = Idle
    /\ UNCHANGED <<server, mailboxes, keyed, history, faults>>

-----------------------------------------------------------------------------

\* An AssertionError is no JmapError: the batch ends in a server error.
ServerError ==
    /\ op.pc = "raised"
    /\ op' = Idle
    /\ UNCHANGED <<server, store, history, faults>>

\* A crash, or for a /set the loss of an answer after the server acted on the
\* call (BackendError): in both cases the operation ends where it is.
Fault ==
    /\ op # Idle
    /\ faults < MaxFaults
    /\ faults' = faults + 1
    /\ op' = Idle
    /\ UNCHANGED <<server, store, history>>

Sync == ListFolders \/ Reconcile \/ (\E f \in Folders : SyncCall(f)) \/ SyncCommit \/ SyncFails

Set ==
    \/ CreateCommit \/ RenameCommit \/ RemoveCommit
    \/ ChangeCommit \/ ChangeWrite \/ MoveCommit \/ DraftCommit
    \/ (\E new \in Items : MoveToo(new)) \/ MoveTooFails \/ ServerError

Start ==
    \/ \E batch \in Batches : StartBatch(batch)
    \/ \E f \in Folders : RemoveCall(f) \/ \E t \in Titles : CreateCall(f, t) \/ RenameCall(f, t)
    \/ \E id \in Items : \/ \E kind \in {"keywords", "destroy"} : ChangeCall(kind, id, NoFolder)
                         \/ \E to \in Folders : \/ ChangeCall("both", id, to)
                                               \/ \E new \in Items : MoveCall(id, to, new)
    \/ \E f \in Folders, new \in Items : DraftCall(f, new)

Next == Remote \/ Start \/ Sync \/ AnswerBatch \/ Set \/ Fault

\* An operation that has begun is carried on by its thread; clients keep
\* looking at the folder list and at every mail.
Fairness ==
    /\ WF_vars(Sync \/ AnswerBatch \/ Set)
    /\ \A batch \in Batches : SyncAllFolders(batch) => SF_vars(StartBatch(batch))

Spec == Init /\ [][Next]_vars /\ Fairness

-----------------------------------------------------------------------------
(* Properties *)

\* Emails without a mailbox come about in two ways and no other: reconciliation
\* drops the mailbox's row and leaves its emails (sync.py:106), or a folder
\* without a row was synced because a query named it (sync.py:125).  They are
\* what a batch can fail on with an AssertionError (sync.py:267), and the only
\* thing: the assert of update_mailbox never fails.
OrphansAccountedFor ==
    /\ \A id \in Items : Row(id) => MailboxOf(id) \in Cached \cup dropped \cup strayed
    /\ op.pc = "raised" => /\ op.kind \in {"keywords", "both", "destroy"}
                          /\ MailboxOf(op.id) \notin Cached

\* What sync.py:267 asserts: the mailbox of an email that is changed is cached.
AssertionsHold == op.pc # "raised"

\* A mailbox's rows are what the server believes the holder of its key to have,
\* however the mailbox was renamed, relisted or written to in between: nothing
\* it will not mention again is missing, and nothing it will never remove is
\* there, but for rows that came from a move, an unkeyed sync or a torn deletion.
RowsMatchKey ==
    \A f \in Cached : \A i \in InFolder(f) :
        /\ i \in told /\ srv[i] = "there" => Holding(i) # {}
        /\ i \notin told /\ Holding(i) # {} => i \in adrift

\* What the scope of a batch leaves out, its queries do not need: an answer has
\* every mail that was there when the batch began and that the filter selects,
\* and none that was gone, orphans and drifting rows excepted.  A sync that
\* fails takes nothing from that but the folders it never came to: what was
\* synced before it in the same batch is served as current as ever.
AnswerIsCurrent ==
    op.pc = "answer" =>
        \A n \in Queries(op.batch) : \A i \in {j \in Items \ op.moving : HomeOf[j] \notin op.skipped} :
            LET found == Holding(i) \cap Answer(n)
            IN  /\ srv[i] = "there" /\ HomeOf[i] \in MailFolders /\ i \in Selects[n] => found # {}
                /\ srv[i] = "gone" /\ found # {} => i \in adrift \/ HomeOf[i] \notin Cached

\* The change log tells which mailboxes and emails there are: the last entry of
\* an id is its creation or an update exactly while it has a row.
LogsFollowTables ==
    /\ \A f \in Folders : f \in Cached <=> logged[f] \in {"created", "updated"}
    /\ \A id \in Items : Row(id) <=> logged[id] \in {"created", "updated"}

\* The mailboxes are the server's mail folders, with their titles and their mail.
Settled ==
    /\ \A f \in Folders : mailboxes[f] = IF f \in MailFolders /\ There(f) THEN folder[f] ELSE "absent"
    /\ \A f \in Cached : \A i \in Visible(f) : Holding(i) # {}

\* Whatever is lost or torn on the way, clients that keep asking get there.
MailboxesSettle == []<>Settled

=============================================================================
