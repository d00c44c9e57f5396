--------------------------- MODULE FolderSyncProofs ---------------------------
(***************************************************************************)
(* Proofs about FolderSync, in two parts.                                  *)
(*                                                                         *)
(* The first: types, and that the bridge always holds a key the server     *)
(* still accepts.  This needs to know, besides the stored key, which key   *)
(* the operation in flight carries: the stored one until the server has    *)
(* answered, then one of the server's two.                                 *)
(*                                                                         *)
(* The second: the rows are what the server believes the bridge to know.   *)
(* The argument is about one map, Believed: item by item, the view that    *)
(* goes with the stored key.  A call to the server never changes it: the   *)
(* new key gets a view of its own, and the stored key, now the one before  *)
(* the newest, keeps its own.  Only the transaction that commits a key     *)
(* changes it, by what the answer in hand tells and nothing else           *)
(* (AnswerInHand), and the same transaction, or for a change the next one, *)
(* applies the same to the rows.  The rest of the invariant says that what *)
(* an operation has read or received is still true when it is applied:     *)
(* nothing but the server moves while an operation waits, and the server   *)
(* never brings back what is gone.                                         *)
(***************************************************************************)
EXTENDS FolderSync, TLAPS

-----------------------------------------------------------------------------
(* Types *)

LEMMA FreshKeyType ==
    ASSUME TypeOK, NEW f \in Folders
    PROVE  FreshKey(f) \in Keys \ {srvKey[f], prevKey[f]}
  <1>1. srvKey[f] \in Keys \cup {ZeroKey} /\ prevKey[f] \in Keys \cup {ZeroKey}
    BY DEF TypeOK, AnyKey
  <1>2. \E k \in Keys : k \notin {srvKey[f], prevKey[f]}
    BY <1>1, FolderSyncAssumption
  <1>. QED
    BY <1>2 DEF FreshKey

LEMMA IdleType == Idle \in Operation
  <1>1. (CHOOSE f \in Folders : TRUE) \in Folders
    BY FolderSyncAssumption
  <1>2. [i \in {} |-> "absent"] \in Page
    <2>1. [i \in {} |-> "absent"] \in [{} -> Seen]
      OBVIOUS
    <2>2. {} \in SUBSET Items
      OBVIOUS
    <2>. QED
      BY <2>1, <2>2 DEF Page
  <1>3. NoRow \in Row /\ ZeroKey \in AnyKey /\ "unread" \in Flags /\ 0 \in Nat
    BY DEF NoRow, Row, Seen, Flags, AnyKey
  <1>. QED
    BY <1>1, <1>2, <1>3 DEF Idle, Operation

\* A view is defined on every item.
LEMMA ViewAtType ==
    ASSUME TypeOK, NEW key \in AnyKey, NEW i \in Items
    PROVE  ViewAt(key, i) \in Seen
  BY DEF TypeOK, ViewAt, Seen

LEMMA VisibleType ==
    ASSUME TypeOK, NEW i \in Items
    PROVE  Visible(i) \in Seen
  BY DEF TypeOK, Visible, Seen

\* A fresh key and any well-typed view leave the server well-typed.
LEMMA IssueKeyType ==
    ASSUME TypeOK, NEW f \in Folders, NEW sent \in AnyKey, NEW newView \in [Items -> Seen],
           IssueKey(f, sent, newView)
    PROVE  /\ srvKey' \in [Folders -> AnyKey]
           /\ prevKey' \in [Folders -> AnyKey]
           /\ view' \in [Items -> Seen]
           /\ prevView' \in [Items -> Seen]
  <1>1. FreshKey(f) \in AnyKey
    BY FreshKeyType DEF AnyKey
  <1>2. \A i \in Items : ViewAt(sent, i) \in Seen
    BY ViewAtType
  <1>. QED
    BY <1>1, <1>2 DEF IssueKey, TypeOK

\* A page applied to the table leaves the table well-typed.
LEMMA CacheAfterType ==
    ASSUME TypeOK, NEW page \in Page
    PROVE  /\ CacheAfter(page) \in [Items -> Row]
           /\ LoggedAfter(page) \in [Items -> {"none", "created", "updated", "destroyed"}]
  <1>1. \A i \in DOMAIN page : page[i] \in Seen
    BY DEF Page
  <1>2. CacheAfter(page) \in [Items -> Row]
    BY <1>1 DEF CacheAfter, Named, IsNew, TypeOK, Row, NoRow, Seen
  <1>3. LoggedAfter(page) \in [Items -> {"none", "created", "updated", "destroyed"}]
    BY DEF LoggedAfter, TypeOK
  <1>. QED
    BY <1>2, <1>3

-----------------------------------------------------------------------------
(* Steps *)

LEMMA InitType == Init => TypeOK
  BY IdleType DEF Init, TypeOK, Flags, Seen, AnyKey, Row, NoRow

LEMMA RemoteType ==
    ASSUME TypeOK, Remote
    PROVE  TypeOK'
  <1>1. PICK i \in Items : Deliver(i) \/ Flag(i) \/ Remove(i)
    BY DEF Remote
  <1>2. srv' \in [Items -> Flags \cup {"new", "gone"}]
    BY <1>1 DEF Deliver, Flag, Remove, TypeOK, Flags
  <1>. QED
    BY <1>2 DEF Remote, TypeOK, store

LEMMA StartType ==
    ASSUME TypeOK, Start
    PROVE  TypeOK'
  <1>. SUFFICES op' \in Operation
    BY DEF Start, StartSync, StartChange, StartMove, StartDraft, TypeOK, server, store
  <1>1. CASE \E f \in Folders : StartSync(f)
    <2>1. PICK f \in Folders : StartSync(f)
      BY <1>1
    <2>2. stored[f] \in AnyKey
      BY DEF TypeOK
    <2>. QED
      BY <2>1, <2>2, IdleType DEF StartSync, Operation
  <1>2. ASSUME NEW kind \in {"keywords", "delete"}, NEW id \in Items, NEW want \in Flags,
               StartChange(kind, id, want)
        PROVE  op' \in Operation
    <2>1. cache[id] \in Row /\ cache[id].item \in Items
      BY <1>2 DEF StartChange, Cached, TypeOK, Row
    <2>2. HomeOf[cache[id].item] \in Folders
      BY <2>1, FolderSyncAssumption
    <2>3. stored[HomeOf[cache[id].item]] \in AnyKey
      BY <2>2 DEF TypeOK
    <2>. QED
      BY <1>2, <2>1, <2>2, <2>3, IdleType DEF StartChange, Operation
  <1>3. CASE \E id \in Items, to \in Folders : StartMove(id, to)
    <2>1. PICK id \in Items, to \in Folders : StartMove(id, to)
      BY <1>3
    <2>2. cache[id] \in Row /\ cache[id].item \in Items
      BY <2>1 DEF StartMove, Cached, TypeOK, Row
    <2>3. HomeOf[cache[id].item] \in Folders
      BY <2>2, FolderSyncAssumption
    <2>. QED
      BY <2>1, <2>2, <2>3, IdleType DEF StartMove, Operation
  <1>4. CASE \E f \in Folders, want \in Flags : StartDraft(f, want)
    <2>1. PICK f \in Folders, want \in Flags : StartDraft(f, want)
      BY <1>4
    <2>2. stored[f] \in AnyKey
      BY DEF TypeOK
    <2>. QED
      BY <2>1, <2>2, IdleType DEF StartDraft, Operation
  <1>5. "unread" \in Flags
    BY DEF Flags
  <1>. QED
    BY <1>1, <1>2, <1>3, <1>4, <1>5 DEF Start

\* The parts of a call: each leaves the server and the operation well-typed.
ServerType ==
    /\ srv \in [Items -> Flags \cup {"new", "gone"}]
    /\ srvKey \in [Folders -> AnyKey]
    /\ prevKey \in [Folders -> AnyKey]
    /\ view \in [Items -> Seen]
    /\ prevView \in [Items -> Seen]

LEMMA SyncCallType ==
    ASSUME TypeOK, SyncCall
    PROVE  ServerType' /\ op' \in Operation
  <1>1. op \in Operation /\ op.folder \in Folders /\ op.key \in AnyKey
    BY DEF TypeOK, Operation
  <1>2. FreshKey(op.folder) \in AnyKey
    BY <1>1, FreshKeyType DEF AnyKey
  <1>3. [i \in {} |-> "absent"] \in Page
    BY IdleType DEF Idle, Operation
  <1>4. CASE Bootstrap
    <2>1. [i \in Items |-> "absent"] \in [Items -> Seen] /\ ZeroKey \in AnyKey
      BY DEF Seen, AnyKey
    <2>2. ServerType'
      BY <1>1, <1>4, <2>1, IssueKeyType DEF Bootstrap, ServerType, TypeOK
    <2>3. op' \in Operation
      BY <1>1, <1>2, <1>3, <1>4 DEF Bootstrap, Operation
    <2>. QED
      BY <2>2, <2>3
  <1>5. CASE NothingNew
    <2>1. ServerType'
      BY <1>5 DEF NothingNew, ServerType, TypeOK, server
    <2>2. op' \in Operation
      BY <1>1, <1>3, <1>5 DEF NothingNew, Operation
    <2>. QED
      BY <2>1, <2>2
  <1>6. CASE \E S \in Window : SendPage(S)
    <2>1. PICK S \in Window : SendPage(S)
      BY <1>6
    <2>2. S \in SUBSET Items
      BY DEF Window, Pending
    <2>3. [i \in Items |-> IF i \in S THEN Visible(i) ELSE ViewAt(op.key, i)] \in [Items -> Seen]
      BY <1>1, VisibleType, ViewAtType
    <2>4. [i \in S |-> Visible(i)] \in Page
      <3>1. [i \in S |-> Visible(i)] \in [S -> Seen]
        BY <2>2, VisibleType
      <3>. QED
        BY <2>2, <3>1 DEF Page
    <2>5. ServerType'
      BY <1>1, <2>1, <2>3, IssueKeyType DEF SendPage, ServerType, TypeOK
    <2>6. op' \in Operation
      BY <1>1, <1>2, <2>1, <2>4 DEF SendPage, Operation
    <2>. QED
      BY <2>5, <2>6
  <1>. QED
    BY <1>4, <1>5, <1>6 DEF SyncCall

LEMMA ChangeCallType ==
    ASSUME TypeOK, ChangeCall
    PROVE  ServerType' /\ op' \in Operation
  <1>1. op \in Operation /\ op.folder \in Folders /\ op.key \in AnyKey /\ op.want \in Flags
    BY DEF TypeOK, Operation
  <1>2. FreshKey(op.folder) \in AnyKey
    BY <1>1, FreshKeyType DEF AnyKey
  <1>3. CASE ChangeApplied
    <2>. DEFINE newView == [i \in Items |-> IF i = op.row.item /\ ViewAt(op.key, i) # "absent"
                                         THEN IF op.kind = "delete" THEN "absent" ELSE op.want
                                         ELSE ViewAt(op.key, i)]
    <2>1. newView \in [Items -> Seen]
      BY <1>1, ViewAtType DEF Seen
    <2>2. IssueKey(op.folder, op.key, newView)
      BY <1>3 DEF ChangeApplied
    <2>3. srv' \in [Items -> Flags \cup {"new", "gone"}]
      BY <1>1, <1>3 DEF ChangeApplied, TypeOK
    <2>4. ServerType'
      <3>. HIDE DEF newView
      <3>. QED
        BY <1>1, <2>1, <2>2, <2>3, IssueKeyType DEF ServerType
    <2>5. op' \in Operation
      BY <1>1, <1>2, <1>3 DEF ChangeApplied, Operation
    <2>. QED
      BY <2>4, <2>5
  <1>4. CASE ChangeDeclined
    <2>1. [i \in Items |-> ViewAt(op.key, i)] \in [Items -> Seen]
      BY <1>1, ViewAtType
    <2>2. ServerType'
      BY <1>1, <1>4, <2>1, IssueKeyType DEF ChangeDeclined, ServerType, TypeOK
    <2>3. op' \in Operation
      BY <1>1, <1>2, <1>4 DEF ChangeDeclined, Operation
    <2>. QED
      BY <2>2, <2>3
  <1>. QED
    BY <1>3, <1>4 DEF ChangeCall

LEMMA MoveCallType ==
    ASSUME TypeOK, NEW new \in Items, MoveCall(new)
    PROVE  ServerType' /\ op' \in Operation
  <1>1. srv' \in [Items -> Flags \cup {"new", "gone"}]
    BY DEF MoveCall, TypeOK
  <1>2. op' \in Operation
    BY DEF MoveCall, TypeOK, Operation
  <1>. QED
    BY <1>1, <1>2 DEF MoveCall, ServerType, TypeOK

LEMMA DraftCallType ==
    ASSUME TypeOK, DraftCall
    PROVE  ServerType' /\ op' \in Operation
  <1>1. op \in Operation /\ op.folder \in Folders /\ op.key \in AnyKey /\ op.want \in Flags
    BY DEF TypeOK, Operation
  <1>2. FreshKey(op.folder) \in AnyKey
    BY <1>1, FreshKeyType DEF AnyKey
  <1>3. CASE DraftDeclined
    <2>1. [i \in Items |-> ViewAt(op.key, i)] \in [Items -> Seen]
      BY <1>1, ViewAtType
    <2>2. ServerType'
      BY <1>1, <1>3, <2>1, IssueKeyType DEF DraftDeclined, ServerType, TypeOK
    <2>3. op' \in Operation
      BY <1>1, <1>2, <1>3 DEF DraftDeclined, Operation
    <2>. QED
      BY <2>2, <2>3
  <1>4. ASSUME NEW new \in Items, DraftAdded(new)
        PROVE  ServerType' /\ op' \in Operation
    <2>. DEFINE newView == [i \in Items |-> IF i = new THEN op.want ELSE ViewAt(op.key, i)]
    <2>1. newView \in [Items -> Seen]
      BY <1>1, ViewAtType DEF Seen
    <2>2. IssueKey(op.folder, op.key, newView)
      BY <1>4 DEF DraftAdded
    <2>3. srv' \in [Items -> Flags \cup {"new", "gone"}]
      BY <1>1, <1>4 DEF DraftAdded, TypeOK
    <2>4. ServerType'
      <3>. HIDE DEF newView
      <3>. QED
        BY <1>1, <2>1, <2>2, <2>3, IssueKeyType DEF ServerType
    <2>5. op' \in Operation
      BY <1>1, <1>2, <1>4 DEF DraftAdded, Operation
    <2>. QED
      BY <2>4, <2>5
  <1>5. ASSUME NEW new \in Items, DraftUnnamed(new)
        PROVE  ServerType' /\ op' \in Operation
    <2>1. [i \in Items |-> ViewAt(op.key, i)] \in [Items -> Seen]
      BY <1>1, ViewAtType
    <2>2. srv' \in [Items -> Flags \cup {"new", "gone"}]
      BY <1>1, <1>5 DEF DraftUnnamed, TypeOK
    <2>3. ServerType'
      BY <1>1, <1>5, <2>1, <2>2, IssueKeyType DEF DraftUnnamed, ServerType
    <2>4. op' \in Operation
      BY <1>1, <1>2, <1>5 DEF DraftUnnamed, Operation
    <2>. QED
      BY <2>3, <2>4
  <1>. QED
    BY <1>3, <1>4, <1>5 DEF DraftCall

LEMMA CallType ==
    ASSUME TypeOK, Call
    PROVE  TypeOK'
  <1>1. ServerType' /\ op' \in Operation
    BY SyncCallType, ChangeCallType, MoveCallType, DraftCallType DEF Call
  <1>. QED
    BY <1>1 DEF Call, ServerType, TypeOK, store

\* Which email an operation is about: the row it read names an item.
NamesItem ==
    /\ op.kind \in {"keywords", "delete", "move"} => op.row.item \in Items
    /\ op.pc = "write" => op.kind \in {"keywords", "delete"}
    /\ op.pc = "commit" /\ op.kind \in {"move"} => op.item \in Items
    /\ op.pc = "commit" /\ op.kind = "draft" /\ op.ok => op.item \in Items

LEMMA AfterPageType ==
    ASSUME TypeOK
    PROVE  AfterPage \in Operation
  <1>1. op \in Operation /\ op.folder \in Folders /\ op.key \in AnyKey /\ op.pages + 1 \in Nat
    BY DEF TypeOK, Operation
  <1>2. ASSUME NEW pages \in Nat
        PROVE  [Idle EXCEPT !.kind = "sync", !.pc = "call", !.folder = op.folder,
                            !.key = op.key, !.pages = pages] \in Operation
    BY <1>1, IdleType DEF Operation
  <1>3. op.pages \in Nat
    BY DEF TypeOK, Operation
  <1>4. CASE op.boot
    BY <1>2, <1>3, <1>4, IdleType DEF AfterPage
  <1>5. CASE ~op.boot
    BY <1>1, <1>2, <1>5, IdleType DEF AfterPage
  <1>. QED
    BY <1>4, <1>5

LEMMA CommitType ==
    ASSUME TypeOK, NamesItem, Commit
    PROVE  TypeOK'
  <1>1. op \in Operation /\ op.folder \in Folders /\ op.key \in AnyKey
        /\ op.want \in Flags /\ op.page \in Page /\ op.row \in Row
        /\ op.item \in Items \cup {NoItem}
    BY DEF TypeOK, Operation
  <1>2. [stored EXCEPT ![op.folder] = op.key] \in [Folders -> AnyKey]
    BY <1>1 DEF TypeOK
  <1>3. CASE SyncCommit
    BY <1>1, <1>2, <1>3, CacheAfterType, AfterPageType DEF SyncCommit, TypeOK, server
  <1>4. CASE ChangeCommit
    <2>1. op' \in Operation
      BY <1>1, <1>4, IdleType DEF ChangeCommit, Operation
    <2>. QED
      BY <1>2, <1>4, <2>1 DEF ChangeCommit, TypeOK, server
  <1>5. CASE ChangeWrite
    <2>1. cache' \in [Items -> Row]
      <3>1. NoRow \in Row
        BY DEF NoRow, Row, Seen
      <3>2. ASSUME op.id \in Items
            PROVE  [cache[op.id] EXCEPT !.seen = op.want] \in Row /\ cache[op.id] \in Row
        BY <1>1, <3>2 DEF TypeOK, Row, Seen
      <3>. QED
        BY <1>5, <3>1, <3>2 DEF ChangeWrite, TypeOK
    <2>2. logged' \in [Items -> {"none", "created", "updated", "destroyed"}]
      BY <1>5 DEF ChangeWrite, TypeOK
    <2>. QED
      BY <1>5, <2>1, <2>2, IdleType DEF ChangeWrite, TypeOK, server
  <1>6. CASE MoveCommit
    <2>1. cache' \in [Items -> Row]
      BY <1>1, <1>6 DEF MoveCommit, TypeOK, Row
    <2>2. logged' \in [Items -> {"none", "created", "updated", "destroyed"}]
      BY <1>6 DEF MoveCommit, TypeOK
    <2>. QED
      BY <1>6, <2>1, <2>2, IdleType DEF MoveCommit, TypeOK, server
  <1>7. CASE DraftCommit
    <2>1. cache' \in [Items -> Row]
      BY <1>1, <1>7 DEF DraftCommit, TypeOK, Row, Seen
    <2>2. logged' \in [Items -> {"none", "created", "updated", "destroyed"}]
      BY <1>7 DEF DraftCommit, TypeOK
    <2>. QED
      BY <1>2, <1>7, <2>1, <2>2, IdleType DEF DraftCommit, TypeOK, server
  <1>. QED
    BY <1>3, <1>4, <1>5, <1>6, <1>7 DEF Commit

LEMMA FailureType ==
    ASSUME TypeOK, NamesItem, Refused \/ SyncRefused \/ Fault
    PROVE  TypeOK'
  <1>1. CASE Refused \/ SyncRefused
    BY <1>1, IdleType DEF Refused, SyncRefused, TypeOK, server, store
  <1>2. CASE Fault
    <2>1. torn' \in SUBSET Items
      BY <1>2 DEF Fault, TypeOK, NamesItem
    <2>. QED
      BY <1>2, <2>1, IdleType DEF Fault, TypeOK, server, store
  <1>. QED
    BY <1>1, <1>2

-----------------------------------------------------------------------------
(* The inductive invariant *)

\* Which key an operation carries: the stored one on its way to the server, one
\* of the server's two on its way back.
KeyInHand ==
    /\ op.pc = "call" /\ op.kind # "move" => op.key = stored[op.folder]
    /\ op.pc = "commit" /\ op.kind # "move" =>
           op.key \in {srvKey[op.folder], prevKey[op.folder]}

IInv == TypeOK /\ NamesItem /\ KeyInHand /\ KeyRecoverable

\* What is in force between operations.
LEMMA IdleInHand == Idle.pc = "idle" /\ Idle.kind = "none"
  BY DEF Idle

LEMMA InitIInv == Init => IInv
  BY InitType, IdleInHand DEF Init, IInv, NamesItem, KeyInHand, KeyRecoverable

LEMMA StartInHand ==
    ASSUME TypeOK, Start
    PROVE  NamesItem' /\ KeyInHand'
  <1>1. CASE \E f \in Folders : StartSync(f)
    BY <1>1 DEF StartSync, Idle, NamesItem, KeyInHand, store
  <1>2. ASSUME NEW kind \in {"keywords", "delete"}, NEW id \in Items, NEW want \in Flags,
               StartChange(kind, id, want)
        PROVE  NamesItem' /\ KeyInHand'
    <2>1. cache[id].item \in Items
      BY <1>2 DEF StartChange, Cached, TypeOK, Row
    <2>. QED
      BY <1>2, <2>1 DEF StartChange, Idle, NamesItem, KeyInHand, store
  <1>3. CASE \E id \in Items, to \in Folders : StartMove(id, to)
    <2>1. PICK id \in Items, to \in Folders : StartMove(id, to)
      BY <1>3
    <2>2. cache[id].item \in Items
      BY <2>1 DEF StartMove, Cached, TypeOK, Row
    <2>. QED
      BY <2>1, <2>2 DEF StartMove, Idle, NamesItem, KeyInHand, store
  <1>4. CASE \E f \in Folders, want \in Flags : StartDraft(f, want)
    BY <1>4 DEF StartDraft, Idle, NamesItem, KeyInHand, store
  <1>5. "unread" \in Flags
    BY DEF Flags
  <1>. QED
    BY <1>1, <1>2, <1>3, <1>4, <1>5 DEF Start

\* A request under the stored key leaves that key the one before the newest.
LEMMA IssueKeyInHand ==
    ASSUME TypeOK, KeyRecoverable, NEW f \in Folders, NEW newView,
           IssueKey(f, stored[f], newView), stored' = stored
    PROVE  /\ KeyRecoverable'
           /\ srvKey'[f] = FreshKey(f)
  BY DEF TypeOK, KeyRecoverable, IssueKey

LEMMA CallInHand ==
    ASSUME IInv, Call
    PROVE  NamesItem' /\ KeyInHand' /\ KeyRecoverable'
  <1>1. op \in Operation /\ op.folder \in Folders /\ stored' = stored
    BY DEF IInv, TypeOK, Operation, Call, store
  <1>2. CASE SyncCall
    <2>1. op.key = stored[op.folder]
      BY <1>2 DEF SyncCall, IInv, KeyInHand
    <2>2. NamesItem'
      BY <1>1, <1>2 DEF SyncCall, Bootstrap, NothingNew, SendPage, IInv, NamesItem, Operation
    <2>3. CASE Bootstrap
      BY <1>1, <2>1, <2>3, <2>2, IssueKeyInHand DEF Bootstrap, IInv, KeyInHand, Operation
    <2>4. CASE NothingNew
      BY <1>1, <2>1, <2>4, <2>2 DEF NothingNew, IInv, KeyInHand, KeyRecoverable, Operation, server
    <2>5. CASE \E S \in Window : SendPage(S)
      BY <1>1, <2>1, <2>5, <2>2, IssueKeyInHand DEF SendPage, IInv, KeyInHand, Operation
    <2>. QED
      BY <1>2, <2>3, <2>4, <2>5 DEF SyncCall
  <1>3. CASE ChangeCall
    <2>1. op.key = stored[op.folder]
      BY <1>3 DEF ChangeCall, IInv, KeyInHand
    <2>2. NamesItem'
      BY <1>1, <1>3 DEF ChangeCall, ChangeApplied, ChangeDeclined, IInv, NamesItem, Operation
    <2>3. CASE ChangeApplied
      BY <1>1, <2>1, <2>2, <2>3, IssueKeyInHand DEF ChangeApplied, IInv, KeyInHand, Operation
    <2>4. CASE ChangeDeclined
      BY <1>1, <2>1, <2>2, <2>4, IssueKeyInHand DEF ChangeDeclined, IInv, KeyInHand, Operation
    <2>. QED
      BY <1>3, <2>3, <2>4 DEF ChangeCall
  <1>4. CASE \E new \in Items : MoveCall(new)
    BY <1>1, <1>4 DEF MoveCall, IInv, NamesItem, KeyInHand, KeyRecoverable, TypeOK, Operation
  <1>5. CASE DraftCall
    <2>1. op.key = stored[op.folder]
      BY <1>5 DEF DraftCall, IInv, KeyInHand
    <2>2. NamesItem'
      BY <1>1, <1>5 DEF DraftCall, DraftAdded, DraftUnnamed, DraftDeclined, IInv, NamesItem, Operation
    <2>3. CASE DraftDeclined
      BY <1>1, <2>1, <2>2, <2>3, IssueKeyInHand DEF DraftDeclined, IInv, KeyInHand, Operation
    <2>4. CASE \E new \in Items : DraftAdded(new)
      BY <1>1, <2>1, <2>2, <2>4, IssueKeyInHand DEF DraftAdded, IInv, KeyInHand, Operation
    <2>5. CASE \E new \in Items : DraftUnnamed(new)
      BY <1>1, <2>1, <2>2, <2>5, IssueKeyInHand DEF DraftUnnamed, IInv, KeyInHand, Operation
    <2>. QED
      BY <1>5, <2>3, <2>4, <2>5 DEF DraftCall
  <1>. QED
    BY <1>2, <1>3, <1>4, <1>5 DEF Call

LEMMA CommitInHand ==
    ASSUME IInv, Commit
    PROVE  NamesItem' /\ KeyInHand' /\ KeyRecoverable'
  <1>1. op \in Operation /\ op.folder \in Folders
    BY DEF IInv, TypeOK, Operation
  <1>2. CASE SyncCommit
    <2>1. stored'[op.folder] = op.key /\ \A f \in Folders \ {op.folder} : stored'[f] = stored[f]
      BY <1>1, <1>2 DEF SyncCommit, IInv, TypeOK
    <2>2. KeyRecoverable'
      BY <1>2, <2>1 DEF SyncCommit, IInv, KeyInHand, KeyRecoverable, server
    <2>3. op' = Idle \/ (op'.kind = "sync" /\ op'.pc = "call" /\ op'.key = op.key
                         /\ op'.folder = op.folder)
      BY <1>2 DEF SyncCommit, AfterPage, Idle
    <2>. QED
      BY <2>1, <2>2, <2>3, IdleInHand DEF KeyInHand, NamesItem
  <1>3. CASE ChangeCommit
    <2>1. KeyRecoverable'
      BY <1>1, <1>3 DEF ChangeCommit, IInv, TypeOK, KeyInHand, KeyRecoverable, server
    <2>2. op' = Idle \/ (op'.pc = "write" /\ op'.kind = op.kind /\ op'.row = op.row)
      BY <1>1, <1>3 DEF ChangeCommit, Operation
    <2>. QED
      BY <1>3, <2>1, <2>2, IdleInHand DEF ChangeCommit, KeyInHand, NamesItem, IInv
  <1>4. CASE ChangeWrite \/ MoveCommit
    BY <1>4, IdleInHand DEF ChangeWrite, MoveCommit, IInv, KeyInHand, NamesItem, KeyRecoverable,
                            server
  <1>5. CASE DraftCommit
    BY <1>1, <1>5, IdleInHand DEF DraftCommit, IInv, TypeOK, KeyInHand, NamesItem, KeyRecoverable,
                                 server
  <1>. QED
    BY <1>2, <1>3, <1>4, <1>5 DEF Commit

LEMMA NextIInv == IInv /\ [Next]_vars => IInv'
  <1>. SUFFICES ASSUME IInv, [Next]_vars
                PROVE  IInv'
    OBVIOUS
  <1>1. CASE Remote
    BY <1>1, RemoteType DEF Remote, IInv, NamesItem, KeyInHand, KeyRecoverable, store
  <1>2. CASE Start
    <2>1. KeyRecoverable'
      BY <1>2 DEF Start, StartSync, StartChange, StartMove, StartDraft, server, store,
                  IInv, KeyRecoverable
    <2>. QED
      BY <1>2, <2>1, StartType, StartInHand DEF IInv
  <1>3. CASE Call
    BY <1>3, CallType, CallInHand DEF IInv
  <1>4. CASE Commit
    BY <1>4, CommitType, CommitInHand DEF IInv
  <1>5. CASE Refused \/ SyncRefused \/ Fault
    <2>1. op' = Idle /\ UNCHANGED <<server, store>>
      BY <1>5 DEF Refused, SyncRefused, Fault
    <2>2. NamesItem' /\ KeyInHand' /\ KeyRecoverable'
      BY <2>1, IdleInHand DEF IInv, NamesItem, KeyInHand, KeyRecoverable, server, store
    <2>. QED
      BY <1>5, <2>2, FailureType DEF IInv
  <1>6. CASE UNCHANGED vars
    BY <1>6 DEF vars, server, store, IInv, TypeOK, NamesItem, KeyInHand, KeyRecoverable
  <1>. QED
    BY <1>1, <1>2, <1>3, <1>4, <1>5, <1>6 DEF Next

-----------------------------------------------------------------------------
(* Results *)

\* The inductive invariant holds in every behaviour.
THEOREM IInvHolds == Spec => []IInv
  BY InitIInv, NextIInv, PTL DEF Spec

\* Server, tables and operation keep their types, whatever is lost or torn.
THEOREM TypeCorrect == Spec => []TypeOK
  <1>1. IInv => TypeOK
    BY DEF IInv
  <1>. QED
    BY <1>1, IInvHolds, PTL

\* Whatever answers are lost and wherever a crash falls, the key in the database
\* is the newest one of its folder or the one before it: sync_folder commits the
\* key of every page, and every change commits its key whatever the status.
THEOREM NeverStranded == Spec => []KeyRecoverable
  <1>1. IInv => KeyRecoverable
    BY DEF IInv
  <1>. QED
    BY <1>1, IInvHolds, PTL

-----------------------------------------------------------------------------
(* What the server believes, and the rows that answer to it                *)

\* An unsynced folder's holder has been told nothing.
ZeroKnowsNothing ==
    \A i \in Items :
        /\ srvKey[HomeOf[i]] = ZeroKey => view[i] = "absent"
        /\ prevKey[HomeOf[i]] = ZeroKey => prevView[i] = "absent"

\* The server tells of no item before it is there.
NewUnknown == \A i \in Items : srv[i] = "new" => view[i] = "absent" /\ prevView[i] = "absent"

\* A row's item is or was on the server, and so was the item it is called after.
RowsExist == \A id \in Items : Cached(id) => srv[id] # "new" /\ srv[cache[id].item] # "new"

\* The item a moved email was first cached for is gone.
MovedAway == \A id \in Items : Cached(id) /\ cache[id].item # id => srv[id] = "gone"

\* An unmoved row that the server does not know of can only be that of an item
\* that is gone.
UnknownIsGone ==
    \A id \in Items :
        Cached(id) /\ cache[id].item = id /\ Believed(id) = "absent" => srv[id] = "gone"

\* A change works on the record its caller read: nothing else has touched it.
RecordInHand ==
    op.kind \in {"keywords", "delete", "move"} =>
        /\ op.id \in Items /\ Cached(op.id) /\ cache[op.id] = op.row
        /\ op.kind # "move" => op.folder = HomeOf[op.row.item]

\* What the answer in hand tells of item i: the holder of its key knows it.
Told(i) ==
    IF op.kind = "sync" /\ i \in DOMAIN op.page THEN op.page[i]
    ELSE IF op.kind = "draft" /\ op.ok /\ i = op.item THEN op.want
    ELSE IF op.kind = "keywords" /\ op.ok /\ i = op.row.item /\ Believed(i) # "absent" THEN op.want
    ELSE IF op.kind = "delete" /\ op.ok /\ i = op.row.item THEN "absent"
    ELSE Believed(i)

\* Until it is committed, the view of the new key is that of the stored one but
\* for what the answer tells.
AnswerInHand ==
    op.pc = "commit" /\ op.kind # "move" =>
        \A i \in Items : HomeOf[i] = op.folder => ViewAt(op.key, i) = Told(i)

\* A page is about the folder's items; what it deletes is gone, and what it adds
\* is there and has not been moved away.
PageInHand ==
    op.pc = "commit" /\ op.kind = "sync" =>
        \A i \in DOMAIN op.page :
            /\ HomeOf[i] = op.folder
            /\ op.page[i] = "absent" => srv[i] = "gone"
            /\ op.page[i] # "absent" => srv[i] # "new" /\ (Cached(i) => cache[i].item = i)

\* A change the server has accepted: a deleted item is gone, an unmoved email was
\* known to the server, and once the key is committed the item is as wanted.
ChangeInHand ==
    op.kind \in {"keywords", "delete"} /\ (op.pc = "write" \/ (op.pc = "commit" /\ op.ok)) =>
        /\ op.kind = "delete" => srv[op.row.item] = "gone"
        /\ op.kind = "keywords" /\ op.row.item = op.id => Believed(op.row.item) # "absent"
        /\ op.pc = "write" =>
               \/ Believed(op.row.item) = "absent"
               \/ (op.kind = "keywords" /\ Believed(op.row.item) = op.want)

\* The item a move or a draft has created is in no row and, for a move, unknown.
CreatedInHand ==
    /\ op.pc = "commit" /\ op.kind = "move" =>
           /\ srv[op.row.item] = "gone"
           /\ op.item # op.id
           /\ Believed(op.item) = "absent"
    /\ op.pc = "commit" /\ (op.kind = "move" \/ (op.kind = "draft" /\ op.ok)) =>
           /\ srv[op.item] # "new"
           /\ \A id \in Items : cache[id].item # op.item
    /\ op.pc = "commit" /\ op.kind = "draft" /\ op.ok =>
           HomeOf[op.item] = op.folder /\ ~Cached(op.item)

ServerInv == ZeroKnowsNothing /\ NewUnknown

TablesInv ==
    /\ RowsExist /\ MovedAway /\ UnknownIsGone
    /\ OneEmailPerItem /\ CacheMatchesKey /\ NothingLost
    /\ GhostsAccountedFor /\ LogFollowsCache

HandInv == RecordInHand /\ AnswerInHand /\ PageInHand /\ ChangeInHand /\ CreatedInHand

MailInv == IInv /\ ServerInv /\ TablesInv /\ HandInv

LEMMA InitMailInv == Init => MailInv
  <1>. SUFFICES ASSUME Init
                PROVE  ServerInv /\ TablesInv /\ HandInv
    BY InitIInv DEF MailInv
  <1>1. \A id \in Items : ~Cached(id)
    BY DEF Init, Cached, NoRow
  <1>2. \A i \in Items : Believed(i) = "absent"
    BY DEF Init, Believed, ViewAt
  <1>3. ServerInv
    BY DEF Init, ServerInv, ZeroKnowsNothing, NewUnknown
  <1>4. TablesInv
    BY <1>1, <1>2 DEF Init, TablesInv, RowsExist, MovedAway, UnknownIsGone, OneEmailPerItem,
                      CacheMatchesKey, NothingLost, GhostsAccountedFor, LogFollowsCache
  <1>5. HandInv
    BY IdleInHand DEF Init, HandInv, RecordInHand, AnswerInHand, PageInHand, ChangeInHand,
                      CreatedInHand
  <1>. QED
    BY <1>3, <1>4, <1>5

-----------------------------------------------------------------------------
(* Steps that leave the tables alone *)

\* What is there never becomes new again, what is gone never comes back.
SrvForward ==
    \A i \in Items :
        /\ srv[i] # "new" => srv'[i] # "new"
        /\ srv[i] = "gone" => srv'[i] = "gone"

\* A row of this item may differ from what the server believes.
Excused(i) == i \in torn \/ BeingWritten(i)

LEMMA BelievedKept ==
    ASSUME UNCHANGED <<srvKey, prevKey, view, prevView, stored>>, NEW i \in Items
    PROVE  Believed(i)' = Believed(i)
  BY DEF Believed, ViewAt

LEMMA TablesKept ==
    ASSUME MailInv, TypeOK', SrvForward, UNCHANGED store,
           \A i \in Items : Believed(i)' = Believed(i),
           \A i \in Items : Excused(i) => Excused(i)'
    PROVE  TablesInv'
  <1>0. cache' = cache /\ logged' = logged /\ \A id \in Items : Cached(id)' <=> Cached(id)
    BY DEF store, Cached
  <1>1. \A id \in Items : Cached(id) => cache[id].item \in Items
    BY DEF MailInv, IInv, TypeOK, Row, Cached
  <1>2. RowsExist' /\ MovedAway' /\ UnknownIsGone'
    BY <1>0, <1>1 DEF MailInv, TablesInv, RowsExist, MovedAway, UnknownIsGone, SrvForward
  <1>3. OneEmailPerItem' /\ LogFollowsCache'
    BY <1>0 DEF MailInv, TablesInv, OneEmailPerItem, LogFollowsCache
  <1>4. CacheMatchesKey'
    <2>. SUFFICES ASSUME NEW id \in Items, Cached(id), NEW i, i = cache[id].item,
                         Believed(i)' # "absent", ~Excused(i)'
                  PROVE  cache[id].seen = Believed(i)'
      BY <1>0 DEF CacheMatchesKey, Excused
    <2>. QED
      BY <1>1 DEF MailInv, TablesInv, CacheMatchesKey, Excused
  <1>5. GhostsAccountedFor'
    <2>. SUFFICES ASSUME NEW id \in Items, Cached(id), NEW i, i = cache[id].item,
                         Believed(i)' = "absent"
                  PROVE  i # id \/ Excused(i)'
      BY <1>0 DEF GhostsAccountedFor, Excused
    <2>. QED
      BY <1>1 DEF MailInv, TablesInv, GhostsAccountedFor, Excused
  <1>6. NothingLost'
    <2>. SUFFICES ASSUME NEW i \in Items, Believed(i) # "absent", srv'[i] \in Flags
                  PROVE  Holding(i)' # {}
      BY DEF NothingLost
    <2>1. srv[i] # "gone"
      BY DEF SrvForward, Flags
    <2>2. srv[i] # "new"
      BY DEF MailInv, ServerInv, NewUnknown, Believed, ViewAt
    <2>3. srv[i] \in Flags
      BY <2>1, <2>2 DEF MailInv, IInv, TypeOK
    <2>. QED
      BY <1>0, <2>3 DEF MailInv, TablesInv, NothingLost, Holding
  <1>. QED
    BY <1>2, <1>3, <1>4, <1>5, <1>6 DEF TablesInv

\* The server's own changes leave what is in hand true.
LEMMA HandKept ==
    ASSUME MailInv, SrvForward, op' = op, UNCHANGED <<srvKey, prevKey, view, prevView, store>>
    PROVE  HandInv'
  <1>1. \A i \in Items : Believed(i)' = Believed(i)
    BY BelievedKept DEF store
  <1>2. cache' = cache /\ stored' = stored /\ \A id : Cached(id)' <=> Cached(id)
    BY DEF store, Cached
  <1>3. op \in Operation /\ NamesItem
    BY DEF MailInv, IInv, TypeOK
  <1>4. RecordInHand'
    BY <1>2 DEF MailInv, HandInv, RecordInHand
  <1>5. AnswerInHand'
    BY <1>1, <1>2 DEF MailInv, HandInv, AnswerInHand, Told, ViewAt
  <1>6. PageInHand'
    <2>1. op.page \in Page => DOMAIN op.page \subseteq Items
      BY DEF Page
    <2>. QED
      BY <1>2, <1>3, <2>1 DEF MailInv, HandInv, PageInHand, SrvForward, Operation
  <1>7. ChangeInHand'
    BY <1>1, <1>3 DEF MailInv, HandInv, ChangeInHand, SrvForward, NamesItem
  <1>8. CreatedInHand'
    BY <1>1, <1>2, <1>3 DEF MailInv, HandInv, CreatedInHand, SrvForward, NamesItem
  <1>. QED
    BY <1>4, <1>5, <1>6, <1>7, <1>8 DEF HandInv


LEMMA RemoteMail ==
    ASSUME MailInv, IInv', Remote
    PROVE  MailInv'
  <1>1. SrvForward
    <2>1. PICK i \in Items : Deliver(i) \/ Flag(i) \/ Remove(i)
      BY DEF Remote
    <2>. QED
      BY <2>1 DEF Deliver, Flag, Remove, SrvForward, MailInv, IInv, TypeOK, Flags
  <1>2. UNCHANGED <<srvKey, prevKey, view, prevView, store>> /\ op' = op /\ torn' = torn
    BY DEF Remote
  <1>3. ServerInv'
    BY <1>1, <1>2 DEF MailInv, ServerInv, ZeroKnowsNothing, NewUnknown, SrvForward
  <1>4. HandInv'
    BY <1>1, <1>2, HandKept
  <1>5. \A i \in Items : Believed(i)' = Believed(i)
    BY <1>2, BelievedKept DEF store
  <1>6. \A i \in Items : Excused(i) => Excused(i)'
    BY <1>2 DEF Excused, BeingWritten
  <1>7. TypeOK'
    BY DEF IInv
  <1>8. TablesInv'
    BY <1>1, <1>2, <1>5, <1>6, <1>7, TablesKept
  <1>. QED
    BY <1>3, <1>4, <1>8 DEF MailInv

\* Steps that only take up or drop an operation.
LEMMA OpOnly ==
    ASSUME MailInv, IInv', UNCHANGED <<server, store>>,
           \A i \in Items : Excused(i) => Excused(i)'
    PROVE  ServerInv' /\ TablesInv'
  <1>1. ServerInv'
    BY DEF MailInv, ServerInv, ZeroKnowsNothing, NewUnknown, server
  <1>2. SrvForward
    BY DEF SrvForward, server
  <1>3. \A i \in Items : Believed(i)' = Believed(i)
    BY BelievedKept DEF server, store
  <1>4. TypeOK'
    BY DEF IInv
  <1>. QED
    BY <1>1, <1>2, <1>3, <1>4, TablesKept

LEMMA IdleHand ==
    ASSUME op' = Idle
    PROVE  HandInv'
  BY IdleInHand DEF HandInv, RecordInHand, AnswerInHand, PageInHand, ChangeInHand, CreatedInHand

LEMMA StartMail ==
    ASSUME MailInv, IInv', Start
    PROVE  MailInv'
  <1>1. op = Idle /\ UNCHANGED <<server, store, torn>>
    BY DEF Start, StartSync, StartChange, StartMove, StartDraft
  <1>2. \A i \in Items : Excused(i) => Excused(i)'
    BY <1>1, IdleInHand DEF Excused, BeingWritten
  <1>3. op'.pc = "call" /\ (op'.kind \in {"sync", "draft"} \/ RecordInHand')
    <2>1. CASE \E f \in Folders : StartSync(f)
      BY <2>1 DEF StartSync, Idle
    <2>2. ASSUME NEW kind \in {"keywords", "delete"}, NEW id \in Items, NEW want \in Flags,
                 StartChange(kind, id, want)
          PROVE  op'.pc = "call" /\ RecordInHand'
      BY <2>2 DEF StartChange, Idle, RecordInHand, Cached, store
    <2>3. CASE \E id \in Items, to \in Folders : StartMove(id, to)
      BY <2>3 DEF StartMove, Idle, RecordInHand, Cached, store
    <2>4. CASE \E f \in Folders, want \in Flags : StartDraft(f, want)
      BY <2>4 DEF StartDraft, Idle
    <2>5. "unread" \in Flags
      BY DEF Flags
    <2>. QED
      BY <2>1, <2>2, <2>3, <2>4, <2>5 DEF Start
  <1>4. HandInv'
    BY <1>3 DEF HandInv, RecordInHand, AnswerInHand, PageInHand, ChangeInHand, CreatedInHand
  <1>. QED
    BY <1>1, <1>2, <1>4, OpOnly DEF MailInv

LEMMA FailureMail ==
    ASSUME MailInv, IInv', Refused \/ SyncRefused \/ Fault
    PROVE  MailInv'
  <1>1. op' = Idle /\ UNCHANGED <<server, store>>
    BY DEF Refused, SyncRefused, Fault
  <1>2. \A i \in Items : Excused(i) => Excused(i)'
    BY DEF Refused, SyncRefused, Fault, Excused, BeingWritten
  <1>. QED
    BY <1>1, <1>2, OpOnly, IdleHand DEF MailInv

-----------------------------------------------------------------------------
(* Calls *)

\* A request under the stored key changes nothing that is believed; the new key
\* has the view that the answer gives it.
LEMMA Issued ==
    ASSUME MailInv, NEW f \in Folders, NEW newView, IssueKey(f, stored[f], newView),
           stored' = stored, SrvForward,
           \A i \in Items : HomeOf[i] = f /\ srv'[i] = "new" => newView[i] = "absent"
    PROVE  /\ srvKey'[f] = FreshKey(f)
           /\ \A i \in Items : HomeOf[i] = f => view'[i] = newView[i]
           /\ \A i \in Items : Believed(i)' = Believed(i)
           /\ ServerInv'
  <1>1. FreshKey(f) \in Keys \ {srvKey[f], prevKey[f]} /\ FreshKey(f) # ZeroKey
    BY FreshKeyType, FolderSyncAssumption DEF MailInv, IInv
  <1>2. TypeOK /\ \A i \in Items : HomeOf[i] \in Folders
    BY FolderSyncAssumption DEF MailInv, IInv
  <1>3. /\ srvKey'[f] = FreshKey(f) /\ prevKey'[f] = stored[f]
        /\ \A g \in Folders \ {f} : srvKey'[g] = srvKey[g] /\ prevKey'[g] = prevKey[g]
    BY <1>2 DEF IssueKey, TypeOK
  <1>4. /\ \A i \in Items : HomeOf[i] = f => view'[i] = newView[i] /\ prevView'[i] = Believed(i)
        /\ \A i \in Items : HomeOf[i] # f => view'[i] = view[i] /\ prevView'[i] = prevView[i]
    BY DEF IssueKey, Believed
  <1>5. stored[f] # FreshKey(f)
    BY <1>1 DEF MailInv, IInv, KeyRecoverable
  <1>6. ASSUME NEW i \in Items
        PROVE  Believed(i)' = Believed(i)
    <2>1. CASE HomeOf[i] = f
      <3>1. Believed(i)' = prevView'[i]
        BY <1>3, <1>5, <2>1 DEF Believed, ViewAt
      <3>. QED
        BY <1>4, <2>1, <3>1
    <2>2. CASE HomeOf[i] # f
      BY <1>2, <1>3, <1>4, <2>2 DEF Believed, ViewAt
    <2>. QED
      BY <2>1, <2>2
  <1>7. ZeroKnowsNothing'
    <2>. SUFFICES ASSUME NEW i \in Items
                  PROVE  /\ srvKey'[HomeOf[i]] = ZeroKey => view'[i] = "absent"
                         /\ prevKey'[HomeOf[i]] = ZeroKey => prevView'[i] = "absent"
      BY DEF ZeroKnowsNothing
    <2>1. CASE HomeOf[i] = f
      BY <1>1, <1>3, <1>4, <2>1 DEF Believed, ViewAt, MailInv, ServerInv, ZeroKnowsNothing
    <2>2. CASE HomeOf[i] # f
      BY <1>2, <1>3, <1>4, <2>2 DEF MailInv, ServerInv, ZeroKnowsNothing
    <2>. QED
      BY <2>1, <2>2
  <1>8. NewUnknown'
    BY <1>4 DEF NewUnknown, SrvForward, Believed, ViewAt, MailInv, ServerInv
  <1>. QED
    BY <1>3, <1>4, <1>6, <1>7, <1>8 DEF ServerInv

\* A call writes no table: the tables go on answering to what is believed.
LEMMA CallTables ==
    ASSUME MailInv, IInv', SrvForward, UNCHANGED <<store, torn>>, op.pc = "call",
           \A i \in Items : Believed(i)' = Believed(i)
    PROVE  TablesInv'
  <1>1. \A i \in Items : Excused(i) => Excused(i)'
    BY DEF Excused, BeingWritten
  <1>2. TypeOK'
    BY DEF IInv
  <1>. QED
    BY <1>1, <1>2, TablesKept

\* Items of a folder are where the operation's key is good for.
LEMMA SyncCallMail ==
    ASSUME MailInv, IInv', SyncCall, UNCHANGED <<store, torn>>
    PROVE  MailInv'
  <1>1. op \in Operation /\ op.folder \in Folders /\ stored' = stored /\ cache' = cache
        /\ op.key = stored[op.folder] /\ op.pc = "call" /\ op.kind = "sync" /\ TypeOK
    BY DEF MailInv, IInv, TypeOK, Operation, SyncCall, KeyInHand, store
  <1>2. SrvForward
    BY DEF SyncCall, Bootstrap, NothingNew, SendPage, SrvForward, server
  <1>3. srv' = srv
    BY DEF SyncCall, Bootstrap, NothingNew, SendPage, server
  <1>4. op'.pc = "commit" /\ op'.kind = "sync" /\ op'.folder = op.folder
    BY <1>1 DEF SyncCall, Bootstrap, NothingNew, SendPage, Operation
  <1>5. RecordInHand' /\ ChangeInHand' /\ CreatedInHand'
    BY <1>4 DEF RecordInHand, ChangeInHand, CreatedInHand
  <1>6. CASE Bootstrap
    <2>1. op'.key = FreshKey(op.folder) /\ DOMAIN op'.page = {}
      BY <1>1, <1>6 DEF Bootstrap, Operation
    <2>2. IssueKey(op.folder, stored[op.folder], [i \in Items |-> "absent"])
      BY <1>1, <1>6 DEF Bootstrap
    <2>3. /\ srvKey'[op.folder] = FreshKey(op.folder)
          /\ \A i \in Items : HomeOf[i] = op.folder => view'[i] = "absent"
          /\ \A i \in Items : Believed(i)' = Believed(i)
          /\ ServerInv'
      BY <1>1, <1>2, <2>2, Issued
    <2>4. \A i \in Items : HomeOf[i] = op.folder => Believed(i) = "absent"
      BY <1>1, <1>6 DEF Bootstrap, Believed, ViewAt, MailInv, ServerInv, ZeroKnowsNothing
    <2>5. AnswerInHand'
      BY <1>4, <2>1, <2>3, <2>4 DEF AnswerInHand, Told, ViewAt
    <2>6. PageInHand'
      BY <2>1 DEF PageInHand
    <2>7. TablesInv'
      BY <1>1, <1>2, <2>3, CallTables
    <2>. QED
      BY <1>5, <2>3, <2>5, <2>6, <2>7 DEF MailInv, HandInv
  <1>7. CASE NothingNew
    <2>1. op'.key = op.key /\ DOMAIN op'.page = {} /\ UNCHANGED server
      BY <1>1, <1>7 DEF NothingNew, Operation
    <2>2. \A i \in Items : Believed(i)' = Believed(i)
      BY <1>1, <2>1, BelievedKept DEF server
    <2>3. AnswerInHand'
      BY <1>1, <1>4, <2>1, <2>2 DEF AnswerInHand, Told, ViewAt, Believed, server
    <2>4. PageInHand'
      BY <2>1 DEF PageInHand
    <2>5. TablesInv'
      BY <1>1, <1>2, <2>2, CallTables
    <2>6. ServerInv'
      BY <2>1 DEF MailInv, ServerInv, ZeroKnowsNothing, NewUnknown, server
    <2>. QED
      BY <1>5, <2>3, <2>4, <2>5, <2>6 DEF MailInv, HandInv
  <1>8. ASSUME NEW S \in Window, SendPage(S)
        PROVE  MailInv'
    <2>. DEFINE page == [i \in S |-> Visible(i)]
                newView == [i \in Items |-> IF i \in S THEN Visible(i) ELSE ViewAt(op.key, i)]
    <2>0. S \subseteq Items /\ \A i \in S : HomeOf[i] = op.folder /\ Visible(i) # Believed(i)
      BY <1>1 DEF Window, Pending, Believed
    <2>1. op'.key = FreshKey(op.folder) /\ op'.page = page
      <3>1. op' = [op EXCEPT !.pc = "commit", !.boot = FALSE, !.key = FreshKey(op.folder),
                             !.page = page, !.more = S # Pending]
        BY <1>8 DEF SendPage
      <3>. HIDE DEF page
      <3>. QED
        BY <1>1, <3>1 DEF Operation
    <2>2. IssueKey(op.folder, stored[op.folder], newView)
      BY <1>1, <1>8 DEF SendPage
    <2>3. \A i \in Items : srv[i] = "new" => newView[i] = "absent"
      BY DEF Visible, Flags, ViewAt, MailInv, ServerInv, NewUnknown
    <2>4. \A i \in Items : newView[i] = IF i \in S THEN Visible(i) ELSE ViewAt(op.key, i)
      OBVIOUS
    <2>5. /\ srvKey'[op.folder] = FreshKey(op.folder)
          /\ \A i \in Items : HomeOf[i] = op.folder => view'[i] = newView[i]
          /\ \A i \in Items : Believed(i)' = Believed(i)
          /\ ServerInv'
      <3>. HIDE DEF newView
      <3>. QED
        BY <1>1, <1>2, <1>3, <2>2, <2>3, Issued
    <2>6. DOMAIN op'.page = S /\ \A i \in S : op'.page[i] = Visible(i)
      BY <2>1
    <2>. HIDE DEF page, newView
    <2>7. AnswerInHand'
      <3>. SUFFICES ASSUME NEW i \in Items, HomeOf[i] = op.folder
                    PROVE  ViewAt(op.key, i)' = Told(i)'
        BY <1>4 DEF AnswerInHand
      <3>1. ViewAt(op.key, i)' = newView[i]
        BY <2>1, <2>5 DEF ViewAt
      <3>2. ViewAt(op.key, i) = Believed(i)
        BY <1>1 DEF Believed
      <3>. QED
        BY <1>4, <2>4, <2>5, <2>6, <3>1, <3>2 DEF Told
    <2>8. PageInHand'
      <3>. SUFFICES ASSUME NEW i \in S
                    PROVE  /\ Visible(i) = "absent" => srv[i] = "gone"
                           /\ Visible(i) # "absent" =>
                                srv[i] # "new" /\ (Cached(i) => cache[i].item = i)
        BY <1>1, <1>3, <1>4, <2>0, <2>6 DEF PageInHand, Cached
      <3>1. Visible(i) = "absent" => srv[i] = "gone"
        <4>1. Visible(i) = "absent" => Believed(i) # "absent" /\ srv[i] \notin Flags
          BY <2>0 DEF Visible, Flags
        <4>2. srv[i] = "new" => Believed(i) = "absent"
          BY <2>0 DEF Believed, ViewAt, MailInv, ServerInv, NewUnknown
        <4>. QED
          BY <1>1, <2>0, <4>1, <4>2 DEF TypeOK
      <3>2. Visible(i) # "absent" => srv[i] \in Flags
        BY DEF Visible
      <3>. QED
        BY <2>0, <3>1, <3>2 DEF Flags, MailInv, TablesInv, MovedAway
    <2>9. TablesInv'
      BY <1>1, <1>2, <2>5, CallTables
    <2>. QED
      BY <1>5, <2>5, <2>7, <2>8, <2>9 DEF MailInv, HandInv
  <1>. QED
    BY <1>6, <1>7, <1>8 DEF SyncCall

LEMMA ChangeCallMail ==
    ASSUME MailInv, IInv', ChangeCall, UNCHANGED <<store, torn>>
    PROVE  MailInv'
  <1>1. op \in Operation /\ op.folder \in Folders /\ stored' = stored /\ cache' = cache
        /\ op.key = stored[op.folder] /\ op.pc = "call" /\ op.kind \in {"keywords", "delete"}
        /\ TypeOK
    BY DEF MailInv, IInv, TypeOK, Operation, ChangeCall, KeyInHand, store
  <1>. DEFINE item == op.row.item
  <1>2. op.id \in Items /\ Cached(op.id) /\ cache[op.id] = op.row /\ item \in Items
        /\ op.folder = HomeOf[item]
    BY <1>1 DEF MailInv, HandInv, RecordInHand, IInv, NamesItem
  <1>3. ViewAt(op.key, item) = Believed(item)
        /\ \A i \in Items : HomeOf[i] = op.folder => ViewAt(op.key, i) = Believed(i)
    BY <1>1, <1>2 DEF Believed
  <1>4. SrvForward /\ op'.kind = op.kind /\ op'.pc = "commit" /\ op'.folder = op.folder
        /\ op'.key = FreshKey(op.folder) /\ op'.row = op.row /\ op'.id = op.id
        /\ op'.want = op.want
    <2>1. CASE ChangeApplied
      BY <1>1, <1>2, <2>1 DEF ChangeApplied, SrvForward, TypeOK, Operation, Flags
    <2>2. CASE ChangeDeclined
      BY <1>1, <2>2 DEF ChangeDeclined, SrvForward, Operation
    <2>. QED
      BY <2>1, <2>2 DEF ChangeCall
  <1>5. RecordInHand' /\ PageInHand' /\ CreatedInHand'
    BY <1>1, <1>2, <1>4 DEF RecordInHand, PageInHand, CreatedInHand, Cached
  <1>6. CASE ChangeApplied
    <2>. DEFINE told == IF op.kind = "delete" THEN "absent" ELSE op.want
                newView == [i \in Items |-> IF i = item /\ ViewAt(op.key, i) # "absent"
                                            THEN told ELSE ViewAt(op.key, i)]
    <2>0. srv[item] \in Flags /\ op'.ok /\ (op.kind = "delete" => srv'[item] = "gone")
      BY <1>1, <1>2, <1>6 DEF ChangeApplied, Operation, TypeOK
    <2>1. IssueKey(op.folder, stored[op.folder], newView)
      BY <1>1, <1>6 DEF ChangeApplied
    <2>2. \A i \in Items : newView[i] = IF i = item /\ ViewAt(op.key, i) # "absent"
                                        THEN told ELSE ViewAt(op.key, i)
      OBVIOUS
    <2>3. \A i \in Items : srv'[i] = "new" => newView[i] = "absent"
      BY <1>2, <1>4, <2>0, <2>2 DEF SrvForward, ViewAt, MailInv, ServerInv, NewUnknown, Flags
    <2>4. /\ srvKey'[op.folder] = FreshKey(op.folder)
          /\ \A i \in Items : HomeOf[i] = op.folder => view'[i] = newView[i]
          /\ \A i \in Items : Believed(i)' = Believed(i)
          /\ ServerInv'
      <3>. HIDE DEF newView
      <3>. QED
        BY <1>1, <1>4, <2>1, <2>3, Issued
    <2>. HIDE DEF newView
    <2>5. AnswerInHand'
      <3>. SUFFICES ASSUME NEW i \in Items, HomeOf[i] = op.folder
                    PROVE  ViewAt(op.key, i)' = Told(i)'
        BY <1>4 DEF AnswerInHand
      <3>1. ViewAt(op.key, i)' = newView[i]
        BY <1>4, <2>4 DEF ViewAt
      <3>. QED
        BY <1>1, <1>3, <1>4, <2>0, <2>2, <2>4, <3>1 DEF Told
    <2>6. ChangeInHand'
      <3>1. item = op.id => Believed(item) # "absent"
        BY <1>2, <2>0 DEF MailInv, TablesInv, UnknownIsGone, Flags
      <3>. PICK i \in Items : i = op.row.item
        BY <1>2
      <3>2. Believed(i)' = Believed(i)
        BY <2>4
      <3>4. Believed(op.row.item)' = Believed(op.row.item)
        BY <1>4, <3>2 DEF Believed, ViewAt
      <3>3. /\ op'.kind = "delete" => srv'[op'.row.item] = "gone"
            /\ op'.kind = "keywords" /\ op'.row.item = op'.id => Believed(item)' # "absent"
        BY <1>4, <2>0, <3>1, <3>4
      <3>. QED
        BY <1>4, <3>3 DEF ChangeInHand
    <2>7. TablesInv'
      BY <1>1, <1>4, <2>4, CallTables
    <2>. QED
      BY <1>5, <2>4, <2>5, <2>6, <2>7 DEF MailInv, HandInv
  <1>7. CASE ChangeDeclined
    <2>. DEFINE newView == [i \in Items |-> ViewAt(op.key, i)]
    <2>1. IssueKey(op.folder, stored[op.folder], newView) /\ ~op'.ok /\ srv' = srv
      BY <1>1, <1>7 DEF ChangeDeclined, Operation
    <2>2. \A i \in Items : newView[i] = ViewAt(op.key, i)
      OBVIOUS
    <2>3. \A i \in Items : srv'[i] = "new" => newView[i] = "absent"
      BY <2>1, <2>2 DEF ViewAt, MailInv, ServerInv, NewUnknown
    <2>4. /\ srvKey'[op.folder] = FreshKey(op.folder)
          /\ \A i \in Items : HomeOf[i] = op.folder => view'[i] = newView[i]
          /\ \A i \in Items : Believed(i)' = Believed(i)
          /\ ServerInv'
      <3>. HIDE DEF newView
      <3>. QED
        BY <1>1, <1>4, <2>1, <2>3, Issued
    <2>. HIDE DEF newView
    <2>5. AnswerInHand'
      <3>. SUFFICES ASSUME NEW i \in Items, HomeOf[i] = op.folder
                    PROVE  ViewAt(op.key, i)' = Told(i)'
        BY <1>4 DEF AnswerInHand
      <3>1. ViewAt(op.key, i)' = newView[i]
        BY <1>4, <2>4 DEF ViewAt
      <3>. QED
        BY <1>1, <1>3, <1>4, <2>1, <2>2, <2>4, <3>1 DEF Told
    <2>6. ChangeInHand'
      BY <1>4, <2>1 DEF ChangeInHand
    <2>7. TablesInv'
      BY <1>1, <1>4, <2>4, CallTables
    <2>. QED
      BY <1>5, <2>4, <2>5, <2>6, <2>7 DEF MailInv, HandInv
  <1>. QED
    BY <1>6, <1>7 DEF ChangeCall

\* An item that is not there yet is in no row.
LEMMA NewUnheld ==
    ASSUME MailInv, NEW new \in Items, srv[new] = "new"
    PROVE  /\ ~Cached(new) /\ Believed(new) = "absent"
           /\ \A id \in Items : cache[id].item # new
  <1>1. NoItem \notin Items
    BY FolderSyncAssumption
  <1>2. ~Cached(new) /\ \A id \in Items : cache[id].item # new
    BY <1>1 DEF MailInv, TablesInv, RowsExist, Cached
  <1>. QED
    BY <1>2 DEF MailInv, ServerInv, NewUnknown, Believed, ViewAt

LEMMA MoveCallMail ==
    ASSUME MailInv, IInv', NEW new \in Items, MoveCall(new), UNCHANGED <<store, torn>>
    PROVE  MailInv'
  <1>1. op \in Operation /\ stored' = stored /\ cache' = cache /\ TypeOK
        /\ op.pc = "call" /\ op.kind = "move" /\ srv[new] = "new" /\ srv[op.row.item] \in Flags
        /\ UNCHANGED <<srvKey, prevKey, view, prevView>>
    BY DEF MailInv, IInv, TypeOK, MoveCall, store
  <1>2. op.id \in Items /\ Cached(op.id) /\ cache[op.id] = op.row /\ op.row.item \in Items
    BY <1>1 DEF MailInv, HandInv, RecordInHand, IInv, NamesItem
  <1>3. op'.pc = "commit" /\ op'.kind = "move" /\ op'.id = op.id /\ op'.row = op.row
        /\ op'.item = new
    BY <1>1 DEF MoveCall, Operation
  <1>4. srv'[op.row.item] = "gone" /\ srv'[new] # "new" /\ SrvForward
    BY <1>1, <1>2 DEF MoveCall, SrvForward, TypeOK, Flags
  <1>5. \A i \in Items : Believed(i)' = Believed(i)
    BY <1>1, BelievedKept
  <1>6. ServerInv'
    BY <1>1, <1>4 DEF MailInv, ServerInv, ZeroKnowsNothing, NewUnknown, SrvForward
  <1>7. RecordInHand' /\ AnswerInHand' /\ PageInHand' /\ ChangeInHand'
    BY <1>1, <1>2, <1>3 DEF RecordInHand, AnswerInHand, PageInHand, ChangeInHand, Cached
  <1>8. CreatedInHand'
    <2>1. new # op.id /\ \A id \in Items : cache[id].item # new
      BY <1>1, <1>2, NewUnheld
    <2>2. Believed(new)' = "absent"
      BY <1>1, <1>5, NewUnheld
    <2>3. Believed(op.item)' = "absent"
      BY <1>3, <2>2 DEF Believed, ViewAt
    <2>. QED
      BY <1>1, <1>3, <1>4, <2>1, <2>3 DEF CreatedInHand
  <1>9. TablesInv'
    BY <1>1, <1>4, <1>5, CallTables
  <1>. QED
    BY <1>6, <1>7, <1>8, <1>9 DEF MailInv, HandInv

LEMMA DraftCallMail ==
    ASSUME MailInv, IInv', DraftCall, UNCHANGED <<store, torn>>
    PROVE  MailInv'
  <1>1. op \in Operation /\ op.folder \in Folders /\ stored' = stored /\ cache' = cache
        /\ op.key = stored[op.folder] /\ op.pc = "call" /\ op.kind = "draft" /\ TypeOK
    BY DEF MailInv, IInv, TypeOK, Operation, DraftCall, KeyInHand, store
  <1>2. \A i \in Items : HomeOf[i] = op.folder => ViewAt(op.key, i) = Believed(i)
    BY <1>1 DEF Believed
  <1>3. CASE DraftDeclined \/ \E new \in Items : DraftUnnamed(new)
    <2>. DEFINE newView == [i \in Items |-> ViewAt(op.key, i)]
    <2>1. /\ IssueKey(op.folder, stored[op.folder], newView)
          /\ op'.pc = "commit" /\ op'.kind = "draft" /\ op'.folder = op.folder /\ ~op'.ok
          /\ op'.key = FreshKey(op.folder)
      BY <1>1, <1>3 DEF DraftDeclined, DraftUnnamed, Operation
    <2>2. \A i \in Items : newView[i] = ViewAt(op.key, i)
      OBVIOUS
    <2>3. SrvForward
      <3>1. srv' = srv \/ \E new \in Items : srv[new] = "new" /\ srv' = [srv EXCEPT ![new] = op.want]
        BY <1>3 DEF DraftDeclined, DraftUnnamed
      <3>. QED
        BY <1>1, <3>1 DEF SrvForward, TypeOK, Operation, Flags
    <2>4. \A i \in Items : srv'[i] = "new" => newView[i] = "absent"
      BY <2>2, <2>3 DEF SrvForward, ViewAt, MailInv, ServerInv, NewUnknown
    <2>5. /\ srvKey'[op.folder] = FreshKey(op.folder)
          /\ \A i \in Items : HomeOf[i] = op.folder => view'[i] = newView[i]
          /\ \A i \in Items : Believed(i)' = Believed(i)
          /\ ServerInv'
      <3>. HIDE DEF newView
      <3>. QED
        BY <1>1, <2>1, <2>3, <2>4, Issued
    <2>. HIDE DEF newView
    <2>6. AnswerInHand'
      <3>. SUFFICES ASSUME NEW i \in Items, HomeOf[i] = op.folder
                    PROVE  ViewAt(op.key, i)' = Told(i)'
        BY <2>1 DEF AnswerInHand
      <3>1. ViewAt(op.key, i)' = newView[i]
        BY <2>1, <2>5 DEF ViewAt
      <3>. QED
        BY <1>1, <1>2, <2>1, <2>2, <2>5, <3>1 DEF Told
    <2>7. RecordInHand' /\ PageInHand' /\ ChangeInHand' /\ CreatedInHand'
      BY <2>1 DEF RecordInHand, PageInHand, ChangeInHand, CreatedInHand
    <2>8. TablesInv'
      BY <1>1, <2>3, <2>5, CallTables
    <2>. QED
      BY <2>5, <2>6, <2>7, <2>8 DEF MailInv, HandInv
  <1>4. ASSUME NEW new \in Items, DraftAdded(new)
        PROVE  MailInv'
    <2>. DEFINE newView == [i \in Items |-> IF i = new THEN op.want ELSE ViewAt(op.key, i)]
    <2>1. /\ IssueKey(op.folder, stored[op.folder], newView)
          /\ op'.pc = "commit" /\ op'.kind = "draft" /\ op'.folder = op.folder /\ op'.ok
          /\ op'.key = FreshKey(op.folder) /\ op'.item = new /\ op'.want = op.want
          /\ srv[new] = "new" /\ HomeOf[new] = op.folder
      BY <1>1, <1>4 DEF DraftAdded, Operation
    <2>2. \A i \in Items : newView[i] = IF i = new THEN op.want ELSE ViewAt(op.key, i)
      OBVIOUS
    <2>3. SrvForward /\ srv'[new] # "new"
      BY <1>1, <1>4 DEF DraftAdded, SrvForward, TypeOK, Operation, Flags
    <2>4. \A i \in Items : srv'[i] = "new" => newView[i] = "absent"
      BY <2>2, <2>3 DEF SrvForward, ViewAt, MailInv, ServerInv, NewUnknown
    <2>5. /\ srvKey'[op.folder] = FreshKey(op.folder)
          /\ \A i \in Items : HomeOf[i] = op.folder => view'[i] = newView[i]
          /\ \A i \in Items : Believed(i)' = Believed(i)
          /\ ServerInv'
      <3>. HIDE DEF newView
      <3>. QED
        BY <1>1, <2>1, <2>3, <2>4, Issued
    <2>. HIDE DEF newView
    <2>6. AnswerInHand'
      <3>. SUFFICES ASSUME NEW i \in Items, HomeOf[i] = op.folder
                    PROVE  ViewAt(op.key, i)' = Told(i)'
        BY <2>1 DEF AnswerInHand
      <3>1. ViewAt(op.key, i)' = newView[i]
        BY <2>1, <2>5 DEF ViewAt
      <3>. QED
        BY <1>1, <1>2, <2>1, <2>2, <2>5, <3>1 DEF Told
    <2>7. RecordInHand' /\ PageInHand' /\ ChangeInHand'
      BY <2>1 DEF RecordInHand, PageInHand, ChangeInHand
    <2>8. CreatedInHand'
      BY <1>1, <2>1, <2>3, NewUnheld DEF CreatedInHand, Cached
    <2>9. TablesInv'
      BY <1>1, <2>3, <2>5, CallTables
    <2>. QED
      BY <2>5, <2>6, <2>7, <2>8, <2>9 DEF MailInv, HandInv
  <1>. QED
    BY <1>3, <1>4 DEF DraftCall

LEMMA CallMail ==
    ASSUME MailInv, IInv', Call
    PROVE  MailInv'
  BY SyncCallMail, ChangeCallMail, MoveCallMail, DraftCallMail DEF Call

-----------------------------------------------------------------------------
(* Commits *)

\* A committed key changes what is believed by what its answer tells.
LEMMA Committed ==
    ASSUME MailInv, op.pc = "commit", op.kind # "move", UNCHANGED server,
           stored' = [stored EXCEPT ![op.folder] = op.key], NEW i \in Items
    PROVE  Believed(i)' = IF HomeOf[i] = op.folder THEN Told(i) ELSE Believed(i)
  <1>1. TypeOK /\ op.folder \in Folders /\ HomeOf[i] \in Folders
    BY FolderSyncAssumption DEF MailInv, IInv, TypeOK, Operation
  <1>2. CASE HomeOf[i] = op.folder
    <2>1. ViewAt(op.key, i) = Told(i)
      BY <1>2 DEF MailInv, HandInv, AnswerInHand
    <2>2. stored'[HomeOf[i]] = op.key
      BY <1>1, <1>2 DEF TypeOK
    <2>3. Believed(i)' = ViewAt(op.key, i)
      BY <2>2 DEF Believed, ViewAt, server
    <2>. QED
      BY <1>2, <2>1, <2>3
  <1>3. CASE HomeOf[i] # op.folder
    <2>1. stored'[HomeOf[i]] = stored[HomeOf[i]]
      BY <1>1, <1>3 DEF TypeOK
    <2>. QED
      BY <1>3, <2>1 DEF Believed, ViewAt, server
  <1>. QED
    BY <1>2, <1>3

LEMMA ServerKept ==
    ASSUME MailInv, UNCHANGED server
    PROVE  ServerInv' /\ SrvForward
  BY DEF MailInv, ServerInv, ZeroKnowsNothing, NewUnknown, SrvForward, server

\* What a page does to a row: it keeps, deletes or sets it, or adds a new one.
KeptRow(id) ==
    /\ cache[id].item \notin DOMAIN op.page
    /\ ~IsNew(id, op.page)
    /\ cache'[id] = cache[id] /\ logged'[id] = logged[id]

DeletedRow(id) ==
    /\ Cached(id) /\ cache[id].item \in DOMAIN op.page /\ op.page[cache[id].item] = "absent"
    /\ cache'[id] = NoRow /\ logged'[id] = "destroyed"

SetRow(id) ==
    /\ Cached(id) /\ cache[id].item \in DOMAIN op.page /\ op.page[cache[id].item] # "absent"
    /\ cache'[id].item = cache[id].item
    /\ cache'[id].seen = op.page[cache[id].item]
    /\ logged'[id] = "updated"

AddedRow(id) ==
    /\ id \in DOMAIN op.page /\ op.page[id] # "absent"
    /\ ~Cached(id) /\ \A other \in Items : cache[other].item # id
    /\ cache'[id].item = id /\ cache'[id].seen = op.page[id] /\ logged'[id] = "created"

LEMMA PageRows ==
    ASSUME MailInv, SyncCommit, NEW id \in Items
    PROVE  KeptRow(id) \/ DeletedRow(id) \/ SetRow(id) \/ AddedRow(id)
  <1>1. cache[id] \in Row /\ op.page \in Page
    BY DEF MailInv, IInv, TypeOK, Operation
  <1>2. DOMAIN op.page \subseteq Items /\ NoItem \notin DOMAIN op.page
    BY <1>1, FolderSyncAssumption DEF Page
  <1>3. cache' = CacheAfter(op.page) /\ logged' = LoggedAfter(op.page)
    BY DEF SyncCommit
  <1>4. CASE Named(id, op.page)
    <2>1. Cached(id) /\ cache[id].item \in DOMAIN op.page
      BY <1>2, <1>4 DEF Named, Cached
    <2>2. CASE op.page[cache[id].item] = "absent"
      BY <1>3, <1>4, <2>1, <2>2 DEF CacheAfter, LoggedAfter, DeletedRow
    <2>3. CASE op.page[cache[id].item] # "absent"
      <3>1. cache'[id] = [cache[id] EXCEPT !.seen = op.page[cache[id].item]]
        BY <1>3, <1>4, <2>3 DEF CacheAfter
      <3>2. logged'[id] = "updated"
        BY <1>3, <1>4, <2>3 DEF LoggedAfter
      <3>. QED
        BY <1>1, <2>1, <2>3, <3>1, <3>2 DEF SetRow, Row
    <2>. QED
      BY <2>2, <2>3
  <1>5. CASE ~Named(id, op.page) /\ IsNew(id, op.page)
    <2>1. cache'[id] = [item |-> id, seen |-> op.page[id]] /\ logged'[id] = "created"
      BY <1>3, <1>5 DEF CacheAfter, LoggedAfter
    <2>2. id \in DOMAIN op.page /\ op.page[id] # "absent" /\ \A other \in Items : cache[other].item # id
      BY <1>5 DEF IsNew, Holding
    <2>3. ~Cached(id)
      BY <2>2 DEF SyncCommit, MailInv, HandInv, PageInHand
    <2>. QED
      BY <2>1, <2>2, <2>3 DEF AddedRow
  <1>6. CASE ~Named(id, op.page) /\ ~IsNew(id, op.page)
    BY <1>3, <1>6 DEF CacheAfter, LoggedAfter, KeptRow, Named
  <1>. QED
    BY <1>4, <1>5, <1>6

LEMMA SyncCommitMail ==
    ASSUME MailInv, SyncCommit
    PROVE  ServerInv' /\ TablesInv' /\ HandInv'
  <1>1. op \in Operation /\ TypeOK /\ op.pc = "commit" /\ op.kind = "sync" /\ UNCHANGED server
        /\ srv' = srv
    BY DEF MailInv, IInv, TypeOK, SyncCommit, server
  <1>2. op'.pc # "write" /\ op'.pc # "commit" /\ op'.kind \in {"none", "sync"}
    BY DEF SyncCommit, AfterPage, Idle
  <1>3. HandInv'
    BY <1>2 DEF HandInv, RecordInHand, AnswerInHand, PageInHand, ChangeInHand, CreatedInHand
  <1>4. \A id \in Items : KeptRow(id) \/ DeletedRow(id) \/ SetRow(id) \/ AddedRow(id)
    BY PageRows
  <1>5. \A i \in DOMAIN op.page :
          /\ i \in Items /\ i # NoItem /\ HomeOf[i] = op.folder
          /\ op.page[i] = "absent" => srv[i] = "gone"
          /\ op.page[i] # "absent" => srv[i] # "new" /\ (Cached(i) => cache[i].item = i)
    <2>1. DOMAIN op.page \subseteq Items
      BY <1>1 DEF Operation, Page
    <2>. QED
      BY <1>1, <2>1, FolderSyncAssumption DEF MailInv, HandInv, PageInHand
  <1>6. \A i \in Items : Believed(i)' = IF i \in DOMAIN op.page THEN op.page[i] ELSE Believed(i)
    <2>. SUFFICES ASSUME NEW i \in Items
                  PROVE  Believed(i)' = IF i \in DOMAIN op.page THEN op.page[i] ELSE Believed(i)
      OBVIOUS
    <2>1. Believed(i)' = IF HomeOf[i] = op.folder THEN Told(i) ELSE Believed(i)
      BY <1>1, Committed DEF SyncCommit
    <2>. QED
      BY <1>1, <1>5, <2>1 DEF Told
  <1>7. \A id \in Items : /\ Cached(id) <=> cache[id].item # NoItem
                          /\ Cached(id)' <=> cache'[id].item # NoItem
                          /\ Cached(id) => cache[id].item \in Items
    BY <1>1 DEF Cached, TypeOK, Row
  <1>8. NoRow.item = NoItem /\ NoItem \notin Items
    BY FolderSyncAssumption DEF NoRow
  <1>9. \A i \in Items : /\ Excused(i) <=> i \in torn
                         /\ Excused(i)' <=> i \in torn /\ i \notin DOMAIN op.page
    BY <1>1, <1>2 DEF Excused, BeingWritten, SyncCommit

  <1>10. RowsExist'
    BY <1>1, <1>4, <1>5, <1>7, <1>8 DEF RowsExist, MailInv, TablesInv, KeptRow, DeletedRow, SetRow,
                                       AddedRow
  <1>11. MovedAway'
    BY <1>1, <1>4, <1>7, <1>8 DEF MovedAway, MailInv, TablesInv, KeptRow, DeletedRow, SetRow, AddedRow
  <1>12. UnknownIsGone'
    BY <1>1, <1>4, <1>6, <1>7, <1>8 DEF UnknownIsGone, MailInv, TablesInv, KeptRow, DeletedRow, SetRow,
                                       AddedRow
  <1>13. OneEmailPerItem'
    <2>. SUFFICES ASSUME NEW id \in Items, NEW other \in Items, Cached(id)',
                         cache'[id].item = cache'[other].item
                  PROVE  id = other
      BY DEF OneEmailPerItem
    <2>1. KeptRow(id) \/ SetRow(id) \/ AddedRow(id)
      BY <1>4, <1>7, <1>8 DEF DeletedRow
    <2>2. KeptRow(other) \/ SetRow(other) \/ AddedRow(other)
      BY <1>4, <1>7, <1>8 DEF DeletedRow
    <2>. QED
      BY <1>7, <2>1, <2>2 DEF MailInv, TablesInv, OneEmailPerItem, KeptRow, SetRow, AddedRow
  <1>14. CacheMatchesKey'
    <2>. SUFFICES ASSUME NEW id \in Items, NEW i, i = cache'[id].item, Cached(id)',
                         Believed(i)' # "absent", ~Excused(i)'
                  PROVE  cache'[id].seen = Believed(i)'
      BY DEF CacheMatchesKey, Excused
    <2>1. CASE KeptRow(id)
      <3>1. Cached(id) /\ i = cache[id].item /\ i \in Items /\ i \notin DOMAIN op.page
        BY <1>7, <2>1 DEF KeptRow
      <3>2. Believed(i) # "absent" /\ ~Excused(i) /\ Believed(i)' = Believed(i)
        BY <1>6, <1>9, <3>1
      <3>. QED
        BY <2>1, <3>1, <3>2 DEF KeptRow, MailInv, TablesInv, CacheMatchesKey, Excused
    <2>2. CASE SetRow(id) \/ AddedRow(id)
      BY <1>5, <1>6, <2>2 DEF SetRow, AddedRow
    <2>3. CASE DeletedRow(id)
      BY <1>7, <1>8, <2>3 DEF DeletedRow
    <2>. QED
      BY <1>4, <2>1, <2>2, <2>3
  <1>15. GhostsAccountedFor'
    <2>. SUFFICES ASSUME NEW id \in Items, NEW i, i = cache'[id].item, Cached(id)',
                         Believed(i)' = "absent"
                  PROVE  i # id \/ Excused(i)'
      BY DEF GhostsAccountedFor, Excused
    <2>1. CASE KeptRow(id)
      <3>1. Cached(id) /\ i = cache[id].item /\ i \in Items /\ i \notin DOMAIN op.page
        BY <1>7, <2>1 DEF KeptRow
      <3>2. Believed(i) = "absent"
        BY <1>6, <3>1
      <3>3. i # id \/ Excused(i)
        BY <3>1, <3>2 DEF MailInv, TablesInv, GhostsAccountedFor, Excused
      <3>. QED
        BY <1>9, <3>1, <3>3
    <2>2. CASE SetRow(id) \/ AddedRow(id)
      BY <1>5, <1>6, <2>2 DEF SetRow, AddedRow
    <2>3. CASE DeletedRow(id)
      BY <1>7, <1>8, <2>3 DEF DeletedRow
    <2>. QED
      BY <1>4, <2>1, <2>2, <2>3
  <1>16. NothingLost'
    <2>. SUFFICES ASSUME NEW i \in Items, Believed(i)' # "absent", srv[i] \in Flags
                  PROVE  \E id \in Items : cache'[id].item = i
      BY <1>1 DEF NothingLost, Holding
    <2>1. CASE \E id \in Items : cache[id].item = i
      <3>1. PICK id \in Items : cache[id].item = i
        BY <2>1
      <3>2. Cached(id)
        BY <1>7, <1>8, <3>1
      <3>3. ~DeletedRow(id)
        BY <1>6, <3>1 DEF DeletedRow
      <3>. QED
        BY <1>4, <3>1, <3>2, <3>3 DEF KeptRow, SetRow, AddedRow
    <2>2. CASE ~\E id \in Items : cache[id].item = i
      <3>1. i \in DOMAIN op.page
        BY <1>6, <2>2 DEF MailInv, TablesInv, NothingLost, Holding
      <3>2. op.page[i] # "absent"
        BY <1>6, <3>1
      <3>3. IsNew(i, op.page)
        BY <2>2, <3>1, <3>2 DEF IsNew, Holding
      <3>4. ~Cached(i)
        BY <1>5, <2>2, <3>1, <3>2
      <3>. QED
        BY <1>4, <3>3, <3>4 DEF KeptRow, DeletedRow, SetRow, AddedRow
    <2>. QED
      BY <2>1, <2>2
  <1>17. LogFollowsCache'
    BY <1>4, <1>7, <1>8 DEF LogFollowsCache, MailInv, TablesInv, KeptRow, DeletedRow, SetRow, AddedRow
  <1>. QED
    BY <1>1, <1>3, <1>10, <1>11, <1>12, <1>13, <1>14, <1>15, <1>16, <1>17, ServerKept DEF TablesInv

\* A refused change or draft commits the new key and changes nothing else.
LEMMA DeclinedMail ==
    ASSUME MailInv, IInv', op.pc = "commit", op.kind \in {"keywords", "delete", "draft"}, ~op.ok,
           stored' = [stored EXCEPT ![op.folder] = op.key],
           UNCHANGED <<server, cache, logged, torn>>
    PROVE  ServerInv' /\ TablesInv'
  <1>1. \A i \in Items : Believed(i)' = Believed(i)
    <2>1. \A i \in Items : Told(i) = Believed(i)
      BY DEF Told
    <2>. QED
      BY <2>1, Committed
  <1>2. \A i \in Items : Excused(i) => i \in torn
    BY DEF Excused, BeingWritten
  <1>3. TypeOK'
    BY DEF IInv
  <1>4. ServerInv' /\ srv' = srv
    BY ServerKept DEF server
  <1>5. cache' = cache /\ logged' = logged /\ \A id \in Items : Cached(id)' <=> Cached(id)
    BY DEF Cached
  <1>6. \A id \in Items : Cached(id) => cache[id].item \in Items
    BY DEF MailInv, IInv, TypeOK, Row, Cached
  <1>7. RowsExist' /\ MovedAway' /\ UnknownIsGone' /\ OneEmailPerItem' /\ LogFollowsCache'
    BY <1>1, <1>4, <1>5, <1>6 DEF MailInv, TablesInv, RowsExist, MovedAway, UnknownIsGone,
                                  OneEmailPerItem, LogFollowsCache
  <1>8. NothingLost'
    BY <1>1, <1>4, <1>5 DEF MailInv, TablesInv, NothingLost, Holding
  <1>9. CacheMatchesKey'
    <2>. SUFFICES ASSUME NEW id \in Items, Cached(id), NEW i, i = cache[id].item,
                         Believed(i)' # "absent", ~Excused(i)'
                  PROVE  cache[id].seen = Believed(i)'
      BY <1>5 DEF CacheMatchesKey, Excused
    <2>1. i \in Items /\ ~Excused(i)
      BY <1>2, <1>6 DEF Excused
    <2>. QED
      BY <1>1, <2>1 DEF MailInv, TablesInv, CacheMatchesKey, Excused
  <1>10. GhostsAccountedFor'
    <2>. SUFFICES ASSUME NEW id \in Items, Cached(id), NEW i, i = cache[id].item,
                         Believed(i)' = "absent"
                  PROVE  i # id \/ Excused(i)'
      BY <1>5 DEF GhostsAccountedFor, Excused
    <2>1. i \in Items
      BY <1>6
    <2>2. i # id \/ Excused(i)
      BY <1>1, <2>1 DEF MailInv, TablesInv, GhostsAccountedFor, Excused
    <2>. QED
      BY <1>2, <2>1, <2>2 DEF Excused
  <1>. QED
    BY <1>4, <1>7, <1>8, <1>9, <1>10 DEF TablesInv

LEMMA ChangeCommitMail ==
    ASSUME MailInv, IInv', ChangeCommit
    PROVE  ServerInv' /\ TablesInv' /\ HandInv'
  <1>1. op \in Operation /\ TypeOK /\ op.pc = "commit" /\ op.kind \in {"keywords", "delete"}
        /\ op.want \in Flags /\ srv' = srv /\ cache' = cache /\ logged' = logged /\ torn' = torn
    BY DEF MailInv, IInv, TypeOK, Operation, ChangeCommit, server
  <1>2. CASE ~op.ok
    BY <1>1, <1>2, DeclinedMail, IdleHand DEF ChangeCommit
  <1>3. CASE op.ok
    <2>1. PICK item \in Items : item = op.row.item
      BY <1>1 DEF MailInv, IInv, NamesItem
    <2>2. op.id \in Items /\ Cached(op.id) /\ cache[op.id] = op.row /\ op.folder = HomeOf[item]
      BY <1>1, <2>1 DEF MailInv, HandInv, RecordInHand
    <2>3. op'.pc = "write" /\ op'.kind = op.kind /\ op'.id = op.id /\ op'.row = op.row
          /\ op'.want = op.want /\ op'.folder = op.folder
      BY <1>1, <1>3 DEF ChangeCommit, Operation
    <2>4. /\ \A i \in Items \ {item} : Believed(i)' = Believed(i)
          /\ op.kind = "delete" => Believed(item)' = "absent"
          /\ op.kind = "keywords" =>
               Believed(item)' = IF Believed(item) # "absent" THEN op.want ELSE "absent"
      <3>1. \A i \in Items : Believed(i)' = IF HomeOf[i] = op.folder THEN Told(i) ELSE Believed(i)
        BY <1>1, Committed DEF ChangeCommit
      <3>2. \A i \in Items \ {item} : Told(i) = Believed(i)
        BY <1>1, <2>1 DEF Told
      <3>3. /\ op.kind = "delete" => Told(item) = "absent"
            /\ op.kind = "keywords" =>
                 Told(item) = IF Believed(item) # "absent" THEN op.want ELSE "absent"
        BY <1>1, <1>3, <2>1 DEF Told
      <3>. QED
        BY <2>2, <3>1, <3>2, <3>3
    <2>5. /\ op.kind = "delete" => srv[item] = "gone"
          /\ op.kind = "keywords" /\ item = op.id => Believed(item) # "absent"
      BY <1>1, <1>3, <2>1 DEF MailInv, HandInv, ChangeInHand
    <2>6. /\ \A i \in Items : Believed(i) = "absent" => Believed(i)' = "absent"
          /\ op.want # "absent"
      BY <1>1, <2>4 DEF Flags
    <2>7. HandInv'
      <3>1. RecordInHand'
        BY <1>1, <2>1, <2>2, <2>3 DEF RecordInHand, Cached, MailInv, HandInv
      <3>2. Believed(op.row.item)' = Believed(item)'
        BY <2>1, <2>3 DEF Believed, ViewAt
      <3>3. ChangeInHand'
        BY <1>1, <2>1, <2>3, <2>4, <2>5, <2>6, <3>2 DEF ChangeInHand
      <3>. QED
        BY <2>3, <3>1, <3>3 DEF HandInv, AnswerInHand, PageInHand, CreatedInHand
    <2>8. \A id \in Items : /\ Cached(id)' <=> Cached(id)
                            /\ Cached(id) => cache[id].item \in Items
      BY <1>1 DEF TypeOK, Row, Cached
    <2>9. Excused(item)' /\ \A i \in Items : Excused(i) => Excused(i)'
      BY <1>1, <2>1, <2>3 DEF Excused, BeingWritten
    <2>10. RowsExist' /\ MovedAway' /\ OneEmailPerItem' /\ LogFollowsCache'
      BY <1>1, <2>8 DEF MailInv, TablesInv, RowsExist, MovedAway, OneEmailPerItem, LogFollowsCache
    <2>11. UnknownIsGone'
      <3>. SUFFICES ASSUME NEW id \in Items, Cached(id), cache[id].item = id, Believed(id)' = "absent"
                    PROVE  srv[id] = "gone"
        BY <1>1, <2>8 DEF UnknownIsGone
      <3>1. CASE id = item
        <4>1. op.id = item
          BY <2>1, <2>2, <3>1 DEF MailInv, TablesInv, OneEmailPerItem
        <4>. QED
          BY <1>1, <2>4, <2>5, <2>6, <3>1, <4>1
      <3>2. CASE id # item
        BY <2>4, <3>2 DEF MailInv, TablesInv, UnknownIsGone
      <3>. QED
        BY <3>1, <3>2
    <2>12. CacheMatchesKey'
      <3>. SUFFICES ASSUME NEW id \in Items, Cached(id), NEW i, i = cache[id].item,
                           Believed(i)' # "absent", ~Excused(i)'
                    PROVE  cache[id].seen = Believed(i)'
        BY <1>1, <2>8 DEF CacheMatchesKey, Excused
      <3>1. i \in Items /\ i # item /\ ~Excused(i)
        BY <2>8, <2>9
      <3>. QED
        BY <2>4, <3>1 DEF MailInv, TablesInv, CacheMatchesKey, Excused
    <2>13. GhostsAccountedFor'
      <3>. SUFFICES ASSUME NEW id \in Items, Cached(id), NEW i, i = cache[id].item,
                           Believed(i)' = "absent"
                    PROVE  i # id \/ Excused(i)'
        BY <1>1, <2>8 DEF GhostsAccountedFor, Excused
      <3>1. i \in Items
        BY <2>8
      <3>2. CASE i # item
        <4>1. i # id \/ Excused(i)
          BY <2>4, <3>1, <3>2 DEF MailInv, TablesInv, GhostsAccountedFor, Excused
        <4>. QED
          BY <2>9, <3>1, <4>1
      <3>. QED
        BY <2>9, <3>2
    <2>14. NothingLost'
      BY <1>1, <2>6 DEF MailInv, TablesInv, NothingLost, Holding
    <2>15. ServerInv'
      BY ServerKept DEF ChangeCommit
    <2>. QED
      BY <2>7, <2>10, <2>11, <2>12, <2>13, <2>14, <2>15 DEF TablesInv
  <1>. QED
    BY <1>2, <1>3

LEMMA ChangeWriteMail ==
    ASSUME MailInv, ChangeWrite
    PROVE  ServerInv' /\ TablesInv' /\ HandInv'
  <1>1. op \in Operation /\ TypeOK /\ op.pc = "write" /\ op.kind \in {"keywords", "delete"}
        /\ op.want \in Flags /\ srv' = srv /\ stored' = stored /\ UNCHANGED server
    BY DEF MailInv, IInv, TypeOK, NamesItem, Operation, ChangeWrite, server
  <1>2. PICK item \in Items : item = op.row.item
    BY <1>1 DEF MailInv, IInv, NamesItem
  <1>3. PICK mine \in Items : mine = op.id
    BY <1>1 DEF MailInv, HandInv, RecordInHand
  <1>4. Cached(mine) /\ cache[mine] = op.row /\ cache[mine].item = item
    BY <1>1, <1>2, <1>3 DEF MailInv, HandInv, RecordInHand
  <1>5. /\ op.kind = "delete" => srv[item] = "gone" /\ Believed(item) = "absent"
        /\ op.kind = "keywords" /\ item = mine => Believed(item) # "absent"
        /\ Believed(item) = "absent" \/ Believed(item) = op.want
    BY <1>1, <1>2, <1>3 DEF MailInv, HandInv, ChangeInHand
  <1>6. /\ op.kind = "delete" => cache'[mine] = NoRow /\ logged'[mine] = "destroyed"
        /\ op.kind = "keywords" =>
             cache'[mine].item = item /\ cache'[mine].seen = op.want /\ logged'[mine] = "updated"
        /\ \A id \in Items \ {mine} : cache'[id] = cache[id] /\ logged'[id] = logged[id]
    <2>1. cache[mine] \in Row
      BY <1>1, <1>3 DEF TypeOK
    <2>. QED
      BY <1>1, <1>3, <1>4, <2>1 DEF ChangeWrite, TypeOK, Row
  <1>7. \A id \in Items : /\ Cached(id) <=> cache[id].item # NoItem
                          /\ Cached(id)' <=> cache'[id].item # NoItem
                          /\ Cached(id) => cache[id].item \in Items
    BY <1>1 DEF Cached, TypeOK, Row
  <1>8. NoRow.item = NoItem /\ NoItem \notin Items
    BY FolderSyncAssumption DEF NoRow
  <1>9. \A i \in Items : Believed(i)' = Believed(i)
    BY <1>1, BelievedKept DEF server
  <1>10. \A i \in Items : /\ Excused(i) <=> i \in torn \/ i = item
                          /\ Excused(i)' <=> i \in torn /\ i # item
    BY <1>1, <1>2, IdleInHand DEF Excused, BeingWritten, ChangeWrite
  <1>11. \A id \in Items \ {mine} : cache[id].item # item
    BY <1>2, <1>3, <1>4 DEF MailInv, TablesInv, OneEmailPerItem
  <1>12. RowsExist' /\ MovedAway' /\ LogFollowsCache' /\ OneEmailPerItem'
    BY <1>1, <1>4, <1>6, <1>7, <1>8 DEF MailInv, TablesInv, RowsExist, MovedAway, LogFollowsCache,
                                        OneEmailPerItem
  <1>13. UnknownIsGone'
    BY <1>1, <1>4, <1>6, <1>7, <1>8, <1>9 DEF MailInv, TablesInv, UnknownIsGone
  <1>14. CacheMatchesKey'
    <2>. SUFFICES ASSUME NEW id \in Items, NEW i, i = cache'[id].item, Cached(id)',
                         Believed(i)' # "absent", ~Excused(i)'
                  PROVE  cache'[id].seen = Believed(i)'
      BY DEF CacheMatchesKey, Excused
    <2>1. CASE id = mine
      BY <1>1, <1>5, <1>6, <1>7, <1>8, <1>9, <2>1
    <2>2. CASE id # mine
      <3>1. i = cache[id].item /\ i \in Items /\ i # item /\ Cached(id) /\ ~Excused(i)
        BY <1>6, <1>7, <1>10, <1>11, <2>2
      <3>. QED
        BY <1>6, <1>9, <2>2, <3>1 DEF MailInv, TablesInv, CacheMatchesKey, Excused
    <2>. QED
      BY <2>1, <2>2
  <1>15. GhostsAccountedFor'
    <2>. SUFFICES ASSUME NEW id \in Items, NEW i, i = cache'[id].item, Cached(id)',
                         Believed(i)' = "absent"
                  PROVE  i # id \/ Excused(i)'
      BY DEF GhostsAccountedFor, Excused
    <2>1. CASE id = mine
      BY <1>1, <1>2, <1>5, <1>6, <1>7, <1>8, <1>9, <2>1
    <2>2. CASE id # mine
      <3>1. i = cache[id].item /\ i \in Items /\ i # item /\ Cached(id)
        BY <1>6, <1>7, <1>11, <2>2
      <3>2. i # id \/ Excused(i)
        BY <1>9, <3>1 DEF MailInv, TablesInv, GhostsAccountedFor, Excused
      <3>. QED
        BY <1>10, <3>1, <3>2
    <2>. QED
      BY <2>1, <2>2
  <1>16. NothingLost'
    <2>. SUFFICES ASSUME NEW i \in Items, Believed(i) # "absent", srv[i] \in Flags
                  PROVE  \E id \in Items : cache'[id].item = i
      BY <1>1, <1>9 DEF NothingLost, Holding
    <2>1. PICK id \in Items : cache[id].item = i
      BY DEF MailInv, TablesInv, NothingLost, Holding
    <2>. QED
      BY <1>1, <1>4, <1>5, <1>6, <2>1
  <1>17. ServerInv' /\ HandInv'
    BY <1>1, ServerKept, IdleHand DEF ChangeWrite
  <1>. QED
    BY <1>12, <1>13, <1>14, <1>15, <1>16, <1>17 DEF TablesInv

LEMMA MoveCommitMail ==
    ASSUME MailInv, MoveCommit
    PROVE  ServerInv' /\ TablesInv' /\ HandInv'
  <1>1. op \in Operation /\ TypeOK /\ op.pc = "commit" /\ op.kind = "move" /\ srv' = srv
        /\ UNCHANGED server /\ torn' = torn /\ stored' = stored
    BY DEF MailInv, IInv, TypeOK, MoveCommit, server
  <1>2. PICK old \in Items : old = op.row.item
    BY <1>1 DEF MailInv, IInv, NamesItem
  <1>3. PICK mine \in Items : mine = op.id
    BY <1>1 DEF MailInv, HandInv, RecordInHand
  <1>4. PICK new \in Items : new = op.item
    BY <1>1 DEF MailInv, IInv, NamesItem
  <1>5. Cached(mine) /\ cache[mine].item = old
    BY <1>1, <1>2, <1>3 DEF MailInv, HandInv, RecordInHand
  <1>6. /\ srv[old] = "gone" /\ srv[new] # "new" /\ new # mine /\ Believed(new) = "absent"
        /\ \A id \in Items : cache[id].item # new
    BY <1>1, <1>2, <1>3, <1>4 DEF MailInv, HandInv, CreatedInHand
  <1>7. /\ cache'[mine].item = new /\ logged'[mine] = "updated"
        /\ \A id \in Items \ {mine} : cache'[id] = cache[id] /\ logged'[id] = logged[id]
    <2>1. cache[mine] \in Row
      BY <1>1 DEF TypeOK
    <2>. QED
      BY <1>1, <1>3, <1>4, <2>1 DEF MoveCommit, TypeOK, Row
  <1>8. \A id \in Items : /\ Cached(id) <=> cache[id].item # NoItem
                          /\ Cached(id)' <=> cache'[id].item # NoItem
                          /\ Cached(id) => cache[id].item \in Items
    BY <1>1 DEF Cached, TypeOK, Row
  <1>9. NoItem \notin Items
    BY FolderSyncAssumption
  <1>10. \A i \in Items : Believed(i)' = Believed(i)
    BY <1>1, BelievedKept DEF server
  <1>11. \A i \in Items : Excused(i) <=> Excused(i)'
    BY <1>1, IdleInHand DEF Excused, BeingWritten, MoveCommit
  <1>12. RowsExist' /\ MovedAway' /\ LogFollowsCache' /\ OneEmailPerItem'
    BY <1>1, <1>5, <1>6, <1>7, <1>8, <1>9 DEF MailInv, TablesInv, RowsExist, MovedAway,
                                             LogFollowsCache, OneEmailPerItem
  <1>13. UnknownIsGone'
    BY <1>1, <1>6, <1>7, <1>8, <1>9, <1>10 DEF MailInv, TablesInv, UnknownIsGone
  <1>14. CacheMatchesKey'
    <2>. SUFFICES ASSUME NEW id \in Items, NEW i, i = cache'[id].item, Cached(id)',
                         Believed(i)' # "absent", ~Excused(i)'
                  PROVE  cache'[id].seen = Believed(i)'
      BY DEF CacheMatchesKey, Excused
    <2>1. id # mine
      BY <1>6, <1>7, <1>10
    <2>2. i = cache[id].item /\ i \in Items /\ Cached(id) /\ ~Excused(i)
      BY <1>7, <1>8, <1>11, <2>1
    <2>. QED
      BY <1>7, <1>10, <2>1, <2>2 DEF MailInv, TablesInv, CacheMatchesKey, Excused
  <1>15. GhostsAccountedFor'
    <2>. SUFFICES ASSUME NEW id \in Items, NEW i, i = cache'[id].item, Cached(id)',
                         Believed(i)' = "absent"
                  PROVE  i # id \/ Excused(i)'
      BY DEF GhostsAccountedFor, Excused
    <2>1. CASE id = mine
      BY <1>6, <1>7, <2>1
    <2>2. CASE id # mine
      <3>1. i = cache[id].item /\ i \in Items /\ Cached(id)
        BY <1>7, <1>8, <2>2
      <3>2. i # id \/ Excused(i)
        BY <1>10, <3>1 DEF MailInv, TablesInv, GhostsAccountedFor, Excused
      <3>. QED
        BY <1>11, <3>1, <3>2
    <2>. QED
      BY <2>1, <2>2
  <1>16. NothingLost'
    <2>. SUFFICES ASSUME NEW i \in Items, Believed(i) # "absent", srv[i] \in Flags
                  PROVE  \E id \in Items : cache'[id].item = i
      BY <1>1, <1>10 DEF NothingLost, Holding
    <2>1. PICK id \in Items : cache[id].item = i
      BY DEF MailInv, TablesInv, NothingLost, Holding
    <2>2. id # mine
      BY <1>5, <1>6, <2>1 DEF Flags
    <2>. QED
      BY <1>7, <2>1, <2>2
  <1>17. ServerInv' /\ HandInv'
    BY <1>1, ServerKept, IdleHand DEF MoveCommit
  <1>. QED
    BY <1>12, <1>13, <1>14, <1>15, <1>16, <1>17 DEF TablesInv

LEMMA DraftCommitMail ==
    ASSUME MailInv, IInv', DraftCommit
    PROVE  ServerInv' /\ TablesInv' /\ HandInv'
  <1>1. op \in Operation /\ TypeOK /\ op.pc = "commit" /\ op.kind = "draft" /\ srv' = srv
        /\ UNCHANGED server /\ torn' = torn /\ op.want \in Flags /\ op' = Idle
    BY DEF MailInv, IInv, TypeOK, Operation, DraftCommit, server
  <1>2. HandInv'
    BY <1>1, IdleHand
  <1>3. CASE ~op.ok
    BY <1>1, <1>2, <1>3, DeclinedMail DEF DraftCommit
  <1>4. CASE op.ok
    <2>1. PICK new \in Items : new = op.item
      BY <1>1, <1>4 DEF MailInv, IInv, NamesItem
    <2>2. /\ srv[new] # "new" /\ HomeOf[new] = op.folder /\ ~Cached(new)
          /\ \A id \in Items : cache[id].item # new
      BY <1>1, <1>4, <2>1 DEF MailInv, HandInv, CreatedInHand
    <2>3. /\ cache'[new].item = new /\ cache'[new].seen = op.want /\ logged'[new] = "created"
          /\ \A id \in Items \ {new} : cache'[id] = cache[id] /\ logged'[id] = logged[id]
      BY <1>1, <1>4, <2>1 DEF DraftCommit, TypeOK
    <2>4. \A id \in Items : /\ Cached(id) <=> cache[id].item # NoItem
                            /\ Cached(id)' <=> cache'[id].item # NoItem
                            /\ Cached(id) => cache[id].item \in Items
      BY <1>1 DEF Cached, TypeOK, Row
    <2>5. NoItem \notin Items
      BY FolderSyncAssumption
    <2>6. Believed(new)' = op.want /\ \A i \in Items \ {new} : Believed(i)' = Believed(i)
      <3>1. \A i \in Items : Believed(i)' = IF HomeOf[i] = op.folder THEN Told(i) ELSE Believed(i)
        BY <1>1, Committed DEF DraftCommit
      <3>2. Told(new) = op.want /\ \A i \in Items \ {new} : Told(i) = Believed(i)
        BY <1>1, <1>4, <2>1 DEF Told
      <3>. QED
        BY <2>2, <3>1, <3>2
    <2>7. \A i \in Items : Excused(i) <=> Excused(i)'
      BY <1>1, IdleInHand DEF Excused, BeingWritten
    <2>8. RowsExist' /\ MovedAway' /\ LogFollowsCache' /\ OneEmailPerItem'
      BY <1>1, <2>2, <2>3, <2>4, <2>5 DEF MailInv, TablesInv, RowsExist, MovedAway,
                                          LogFollowsCache, OneEmailPerItem
    <2>9. UnknownIsGone'
      BY <1>1, <2>2, <2>3, <2>4, <2>5, <2>6 DEF MailInv, TablesInv, UnknownIsGone, Flags
    <2>10. CacheMatchesKey'
      <3>. SUFFICES ASSUME NEW id \in Items, NEW i, i = cache'[id].item, Cached(id)',
                           Believed(i)' # "absent", ~Excused(i)'
                    PROVE  cache'[id].seen = Believed(i)'
        BY DEF CacheMatchesKey, Excused
      <3>1. CASE id = new
        BY <2>3, <2>6, <3>1
      <3>2. CASE id # new
        <4>1. i = cache[id].item /\ i \in Items /\ i # new /\ Cached(id) /\ ~Excused(i)
          BY <2>2, <2>3, <2>4, <2>7, <3>2
        <4>. QED
          BY <2>3, <2>6, <3>2, <4>1 DEF MailInv, TablesInv, CacheMatchesKey, Excused
      <3>. QED
        BY <3>1, <3>2
    <2>11. GhostsAccountedFor'
      <3>. SUFFICES ASSUME NEW id \in Items, NEW i, i = cache'[id].item, Cached(id)',
                           Believed(i)' = "absent"
                    PROVE  i # id \/ Excused(i)'
        BY DEF GhostsAccountedFor, Excused
      <3>1. id # new
        BY <1>1, <2>3, <2>6 DEF Flags
      <3>2. i = cache[id].item /\ i \in Items /\ i # new /\ Cached(id)
        BY <2>2, <2>3, <2>4, <3>1
      <3>3. i # id \/ Excused(i)
        BY <2>6, <3>2 DEF MailInv, TablesInv, GhostsAccountedFor, Excused
      <3>. QED
        BY <2>7, <3>2, <3>3
    <2>12. NothingLost'
      <3>. SUFFICES ASSUME NEW i \in Items, Believed(i)' # "absent", srv[i] \in Flags
                    PROVE  \E id \in Items : cache'[id].item = i
        BY <1>1 DEF NothingLost, Holding
      <3>1. CASE i # new
        <4>1. PICK id \in Items : cache[id].item = i
          BY <2>6, <3>1 DEF MailInv, TablesInv, NothingLost, Holding
        <4>2. id # new
          BY <2>2, <2>4, <2>5, <4>1
        <4>. QED
          BY <2>3, <4>1, <4>2
      <3>. QED
        BY <2>3, <3>1
    <2>. QED
      BY <1>1, <1>2, <2>8, <2>9, <2>10, <2>11, <2>12, ServerKept DEF TablesInv
  <1>. QED
    BY <1>3, <1>4

LEMMA NextMailInv == MailInv /\ [Next]_vars => MailInv'
  <1>. SUFFICES ASSUME MailInv, [Next]_vars
                PROVE  MailInv'
    OBVIOUS
  <1>1. IInv'
    BY NextIInv DEF MailInv
  <1>2. CASE Commit
    BY <1>1, <1>2, SyncCommitMail, ChangeCommitMail, ChangeWriteMail, MoveCommitMail, DraftCommitMail
       DEF Commit, MailInv
  <1>3. CASE UNCHANGED vars
    <2>1. UNCHANGED <<server, store>> /\ op' = op /\ torn' = torn
          /\ UNCHANGED <<srvKey, prevKey, view, prevView, store>>
      BY <1>3 DEF vars, server
    <2>2. \A i \in Items : Excused(i) => Excused(i)'
      BY <2>1 DEF Excused, BeingWritten
    <2>3. ServerInv' /\ TablesInv'
      BY <1>1, <2>1, <2>2, OpOnly
    <2>4. SrvForward
      BY <2>1 DEF SrvForward, server
    <2>5. HandInv'
      BY <2>1, <2>4, HandKept
    <2>. QED
      BY <1>1, <2>3, <2>5 DEF MailInv
  <1>. QED
    BY <1>1, <1>2, <1>3, RemoteMail, StartMail, CallMail, FailureMail DEF Next

-----------------------------------------------------------------------------
(* Results *)

\* The rows answer to what is believed in every behaviour.
THEOREM MailAlwaysRight == Spec => []MailInv
  BY InitMailInv, NextMailInv, PTL DEF Spec

\* No item of the server ever has two emails, whatever is moved, drafted,
\* synced, retried or lost: find_email_id_by_server_id has one answer.
THEOREM NeverTwoEmails == Spec => []OneEmailPerItem
  <1>1. MailInv => OneEmailPerItem
    BY DEF MailInv, TablesInv
  <1>. QED
    BY <1>1, MailAlwaysRight, PTL

\* A row differs from what the server believes of the stored key only where the
\* second transaction of a change is still to come or was lost.
THEOREM CacheAlwaysMatches == Spec => []CacheMatchesKey
  <1>1. MailInv => CacheMatchesKey
    BY DEF MailInv, TablesInv
  <1>. QED
    BY <1>1, MailAlwaysRight, PTL

\* Mail that the server has, and will not mention again, is cached.
THEOREM NeverLost == Spec => []NothingLost
  <1>1. MailInv => NothingLost
    BY DEF MailInv, TablesInv
  <1>. QED
    BY <1>1, MailAlwaysRight, PTL

\* A row the server does not know of was moved there, or is torn.
THEOREM NoOtherGhosts == Spec => []GhostsAccountedFor
  <1>1. MailInv => GhostsAccountedFor
    BY DEF MailInv, TablesInv
  <1>. QED
    BY <1>1, MailAlwaysRight, PTL

\* The change log tells each email's life in order.
THEOREM LogAlwaysFollows == Spec => []LogFollowsCache
  <1>1. MailInv => LogFollowsCache
    BY DEF MailInv, TablesInv
  <1>. QED
    BY <1>1, MailAlwaysRight, PTL

\* An email leaves the cache only when its item is gone from the folder, in every
\* step: a page deletes, and a deletion is written, only what is gone.
THEOREM NeverRemovedEarly == Spec => RemovedOnlyIfGone
  <1>. DEFINE Rightly == \A id \in Items : Cached(id) /\ cache'[id] = NoRow =>
                                            srv[cache[id].item] = "gone"
  <1>1. MailInv /\ [Next]_vars => [Rightly]_vars
    <2>. SUFFICES ASSUME MailInv, Next, NEW id \in Items, Cached(id), cache'[id] = NoRow
                  PROVE  srv[cache[id].item] = "gone"
      OBVIOUS
    <2>0. NoRow.item = NoItem /\ NoItem \notin Items /\ cache[id].item # NoItem /\ cache[id] \in Row
          /\ TypeOK /\ op \in Operation /\ NamesItem
      BY FolderSyncAssumption DEF NoRow, Cached, MailInv, IInv, TypeOK
    <2>1. cache' # cache
      BY <2>0
    <2>2. Commit
      BY <2>1 DEF Next, Remote, Start, StartSync, StartChange, StartMove, StartDraft, Call, Refused,
                  SyncRefused, Fault, store
    <2>3. CASE SyncCommit
      <3>1. KeptRow(id) \/ DeletedRow(id) \/ SetRow(id) \/ AddedRow(id)
        BY <2>3, PageRows
      <3>2. DeletedRow(id)
        BY <2>0, <3>1 DEF KeptRow, SetRow, AddedRow
      <3>. QED
        BY <2>3, <3>2 DEF SyncCommit, DeletedRow, MailInv, HandInv, PageInHand
    <2>4. CASE ChangeWrite
      <3>1. id = op.id /\ op.kind = "delete"
        BY <2>0, <2>4 DEF ChangeWrite, TypeOK, Row, Cached
      <3>. QED
        BY <2>0, <2>4, <3>1 DEF ChangeWrite, MailInv, HandInv, ChangeInHand, RecordInHand
    <2>5. CASE MoveCommit
      BY <2>0, <2>5 DEF MoveCommit, TypeOK, Row, NamesItem
    <2>6. CASE DraftCommit
      BY <2>0, <2>6 DEF DraftCommit, TypeOK, NamesItem
    <2>7. CASE ChangeCommit
      BY <2>1, <2>7 DEF ChangeCommit
    <2>. QED
      BY <2>2, <2>3, <2>4, <2>5, <2>6, <2>7 DEF Commit
  <1>. QED
    BY <1>1, MailAlwaysRight, PTL DEF Spec, RemovedOnlyIfGone
=============================================================================
