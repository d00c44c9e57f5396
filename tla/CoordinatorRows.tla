---------------------------- MODULE CoordinatorRows ----------------------------
(***************************************************************************)
(* Proofs about the emails table of Coordinator: one message is one email, *)
(* whose flags are those the server believes we know, however syncs,       *)
(* changes and moves of any number of threads interleave; the exceptions   *)
(* that the missing lock allows are exactly the overlapped rows, and under *)
(* the application's command_lock there are none.                          *)
(***************************************************************************)
EXTENDS CoordinatorProofs

-----------------------------------------------------------------------------
(* The invariant *)

\* Callers under the command_lock are in the coordinator one at a time.
OneAtATime ==
    serialized => /\ overlapped = {}
                  /\ \A t, u \in Threads : t # u => op[t] = Idle \/ op[u] = Idle

\* What a row, a record in hand or the holder of a key knows.
Known(i) ==
    /\ i # NoItem
    /\ \/ \E id \in Ids : i = rows[id]
       \/ \E t \in Threads : i = op[t].row
       \/ \E f \in Folders : i \in told[f]

\* The message still is that item.
Current(i) == srv[i.message] # NoItem /\ SameItem(i, srv[i.message])

SamePlace(i, j) == i.message = j.message /\ i.gen = j.gen /\ i.folder = j.folder

\* What is known of a message was so once: an item has one folder for ever, and
\* nobody knows of an item that is yet to come.
KnownIsPast ==
    /\ \A n \in Messages : srv[n] # NoItem => srv[n].message = n
    /\ \A i \in Item : Known(i) /\ srv[i.message] # NoItem =>
          /\ i.gen <= srv[i.message].gen
          /\ i.gen = srv[i.message].gen => i.folder = srv[i.message].folder

\* An email stays with the message it was cached for.
EmailsNamed ==
    /\ \A id \in Ids : rows[id] # NoItem => rows[id].message = id[1] /\ id[2] <= rows[id].gen
    /\ \A t \in Threads : op[t].row # NoItem => op[t].row.message = op[t].id[1]

\* The holder of a folder's key knows items of that folder, one of a message.
OneTold ==
    \A f \in Folders : \A i \in told[f] :
        i.folder = f /\ \A j \in told[f] : i.message = j.message => i = j

Moving(t) == op[t].kind = "move" /\ op[t].pc = "commit"

\* Between MoveItems and its commit nobody else knows the new item.
MoveAhead ==
    \A t \in Threads : Moving(t) =>
        /\ \A i \in Item : Known(i) /\ i.message = op[t].row.message => i.gen <= op[t].row.gen
        /\ srv[op[t].row.message] # NoItem => /\ srv[op[t].row.message].gen = op[t].row.gen + 1
                                              /\ srv[op[t].row.message].folder = op[t].to
        /\ \A u \in Threads : Moving(u) /\ u # t => op[u].row.message # op[t].row.message

\* A page in hand is of the holder's folder: what it puts is there or is gone
\* for good, what it deletes is gone.
PageInHand ==
    \A t \in Threads :
        /\ op[t].put # {} \/ op[t].del # {} => op[t].pc = "commit" /\ op[t].kind \in {"sync", "ensure"}
        /\ op[t].put \subseteq told[op[t].folder]
        /\ \A i \in op[t].put : srv[i.message] # NoItem => SameItem(i, srv[i.message])
        /\ \A i \in op[t].del : srv[i.message] # NoItem => i.gen < srv[i.message].gen

\* No two emails are one item.
OneRow == \A id, other \in Ids : rows[id] # NoItem /\ other # id => other \notin Holding(rows[id])

\* A record in hand is the row, unless somebody wrote the row meanwhile; even
\* then it is the same item as long as the item is there.
RecordInHand ==
    \A t \in Threads : op[t].row # NoItem =>
        /\ op[t].id \notin overlapped => rows[op[t].id] = op[t].row
        /\ Current(op[t].row) => op[t].id \in Holding(op[t].row)
        /\ /\ op[t].pc \in {"commit", "write"} /\ op[t].kind \in Changing
           => /\ ~op[t].ok => ~Current(op[t].row)
              /\ op[t].ok /\ op[t].kind = "delete" => srv[op[t].row.message] = NoItem

\* Does thread t owe the row of an email the flag k, that the server has set?
Owes(t, id, k) ==
    /\ op[t].row # NoItem /\ op[t].id = id /\ op[t].pc \in {"commit", "write"}
    /\ op[t].kind = k /\ k \in Flags
Owed(id) == {k \in Flags : \E t \in Threads : Owes(t, id, k)}

\* The page that has this item's news is in hand.
Coming(i) == \E t \in Threads : i \in op[t].put

\* What the server believes we know of an item is in the item's row, or is on
\* its way there.
ToldInRows ==
    \A f \in Folders : \A i \in told[f] :
        Current(i) /\ ~Coming(i) =>
            \E id \in Holding(i) : id \notin overlapped => i.flags = rows[id].flags \cup Owed(id)

RowsInv ==
    /\ KnownIsPast /\ EmailsNamed /\ OneTold /\ MoveAhead /\ PageInHand
    /\ OneRow /\ RecordInHand /\ ToldInRows

-----------------------------------------------------------------------------
(* Facts of a state *)

LEMMA KnownTypes ==
    ASSUME TypeOK
    PROVE  /\ \A i : Known(i) => i \in Item
           /\ \A n \in Messages : srv[n] # NoItem => srv[n] \in Item
           /\ \A id \in Ids : rows[id] # NoItem => rows[id] \in Item
           /\ \A t \in Threads : op[t] \in Operation /\ (op[t].row # NoItem => op[t].row \in Item)
           /\ \A f \in Folders : told[f] \subseteq Item
<1>1. \A t \in Threads : op[t] \in Operation /\ (op[t].row # NoItem => op[t].row \in Item)
  BY OperationFields DEF TypeOK
<1> QED
  BY <1>1 DEF TypeOK, Known

LEMMA KnownMembers ==
    ASSUME TypeOK
    PROVE  /\ \A id \in Ids : rows[id] # NoItem => Known(rows[id])
           /\ \A t \in Threads : op[t].row # NoItem => Known(op[t].row)
           /\ \A f \in Folders : \A i \in told[f] : Known(i)
<1> QED
  BY NoItemAssumption DEF TypeOK, Known

\* Items that are the same and there are in one folder.
LEMMA CurrentFolder ==
    ASSUME TypeOK, KnownIsPast, NEW i, Known(i), Current(i)
    PROVE  i.folder = srv[i.message].folder /\ i.gen = srv[i.message].gen /\ i \in Item
<1> QED
  BY KnownTypes DEF KnownIsPast, Current, SameItem

-----------------------------------------------------------------------------
(* Steps that teach nobody anything new *)

\* If every item known afterwards was known before, up to its flags, and the
\* server's items are those it had, then what is known still is past.
LEMMA NothingNew ==
    ASSUME LockInv, TypeOK', KnownIsPast, MoveAhead,
           \A i \in Item : Known(i)' => \E j \in Item : Known(j) /\ SamePlace(i, j),
           \A n \in Messages : srv'[n] # NoItem => srv[n] # NoItem /\ SamePlace(srv'[n], srv[n]),
           \A u \in Threads : Moving(u)' => Moving(u) /\ op'[u].row = op[u].row /\ op'[u].to = op[u].to
    PROVE  KnownIsPast' /\ MoveAhead'
<1>1. \A n \in Messages : srv'[n] # NoItem => srv'[n].message = n
  BY DEF KnownIsPast, SamePlace
<1>2. ASSUME NEW i \in Item, Known(i)', srv'[i.message] # NoItem
      PROVE  /\ i.gen <= srv'[i.message].gen
             /\ i.gen = srv'[i.message].gen => i.folder = srv'[i.message].folder
  <2>1. PICK j \in Item : Known(j) /\ SamePlace(i, j)
    BY <1>2
  <2>2. i.message \in Messages
    BY ItemFields
  <2>3. srv[j.message] # NoItem /\ SamePlace(srv'[i.message], srv[j.message])
    BY <1>2, <2>1, <2>2 DEF SamePlace
  <2> QED
    BY <2>1, <2>3 DEF KnownIsPast, SamePlace
<1>3. ASSUME NEW t \in Threads, Moving(t)' PROVE MoveAhead!(t)'
  <2>1. Moving(t) /\ op'[t].row = op[t].row /\ op'[t].to = op[t].to
    BY <1>3
  <2>2. op[t].row.message \in Messages
    BY <2>1, ItemFields, KnownTypes DEF LockInv, RowInHand, Moving
  <2>3. MoveAhead!(t)
    BY DEF MoveAhead
  <2>4. ASSUME NEW i \in Item, Known(i)', i.message = op[t].row.message PROVE i.gen <= op[t].row.gen
    <3>1. PICK j \in Item : Known(j) /\ SamePlace(i, j)
      BY <2>4
    <3> QED
      BY <2>1, <2>3, <2>4, <3>1 DEF SamePlace
  <2>5. srv'[op[t].row.message] # NoItem =>
           srv'[op[t].row.message].gen = op[t].row.gen + 1 /\ srv'[op[t].row.message].folder = op[t].to
    BY <2>1, <2>2, <2>3 DEF SamePlace
  <2>6. \A u \in Threads : Moving(u)' /\ u # t => op'[u].row.message # op[t].row.message
    BY <2>1, <2>3
  <2> QED
    BY <2>1, <2>4, <2>5, <2>6
<1> QED
  BY <1>1, <1>2, <1>3 DEF KnownIsPast, MoveAhead

\* What is known of a message does not come back once it is over.
LEMMA CurrentBefore ==
    ASSUME TypeOK, KnownIsPast, NEW i, Known(i), Current(i)',
           \A n \in Messages : srv'[n] # NoItem =>
               /\ srv[n] # NoItem /\ srv'[n].message = n
               /\ srv'[n].gen = srv[n].gen \/ srv'[n].gen = srv[n].gen + 1
    PROVE  Current(i)
<1>1. i \in Item /\ i.message \in Messages /\ i.gen \in Nat
  BY KnownTypes, ItemFields
<1>2. srv'[i.message] # NoItem /\ srv'[i.message].gen = i.gen
  BY DEF Current, SameItem
<1>3. srv[i.message] # NoItem /\ srv[i.message].message = i.message
  BY <1>1, <1>2 DEF KnownIsPast
<1>4. srv[i.message].gen \in Nat /\ i.gen <= srv[i.message].gen
  BY <1>1, <1>3, KnownTypes, ItemFields DEF KnownIsPast
<1>5. srv[i.message].gen = i.gen
  BY <1>1, <1>2, <1>4
<1> QED
  BY <1>3, <1>5 DEF Current, SameItem

\* A step of at most one thread that leaves rows, told and the history alone.
LEMMA QuietStep ==
    ASSUME LockInv, TypeOK', RowsInv, NEW t \in Threads \cup {NoThread},
           rows' = rows, told' = told, overlapped' = overlapped,
           \A n \in Messages : srv'[n] # NoItem => srv[n] # NoItem /\ SamePlace(srv'[n], srv[n]),
           \A u \in Threads \ {t} : op'[u] = op[u],
           \/ op'[t] = op[t]
           \/ /\ t \in Threads
              /\ op[t].put = {} /\ op[t].del = {} /\ op'[t].put = {} /\ op'[t].del = {}
              /\ ~Moving(t)'
              /\ op'[t].row # NoItem =>
                    \/ /\ op'[t].row = op[t].row /\ op'[t].id = op[t].id
                       /\ op'[t].pc \in {"commit", "write"} =>
                             \/ /\ op[t].pc \in {"commit", "write"}
                                /\ op'[t].kind = op[t].kind /\ op'[t].ok = op[t].ok
                             \/ ~Current(op[t].row) /\ op'[t].ok = FALSE
                    \/ /\ op'[t].id \in Ids /\ op'[t].row = rows[op'[t].id]
                       /\ op'[t].pc = "lock"
              /\ \/ \A id \in Ids : \A k \in Flags : Owes(t, id, k)' <=> Owes(t, id, k)
                 \/ /\ op[t].row # NoItem /\ ~Current(op[t].row)
                    /\ op'[t] = Idle \/ op'[t].id = op[t].id
    PROVE  RowsInv'
<1>1. TypeOK /\ KnownIsPast /\ EmailsNamed /\ MoveAhead /\ PageInHand /\ OneRow /\ RecordInHand /\ ToldInRows
  BY DEF LockInv, RowsInv
<1>2. \A i : Known(i)' => Known(i)
  BY DEF Known
<1>3. KnownIsPast' /\ MoveAhead'
  <2>1. \A i \in Item : Known(i)' => \E j \in Item : Known(j) /\ SamePlace(i, j)
    BY <1>2 DEF SamePlace
  <2>2. \A u \in Threads : Moving(u)' => Moving(u) /\ op'[u].row = op[u].row /\ op'[u].to = op[u].to
    BY DEF Moving
  <2> QED
    BY <1>1, <2>1, <2>2, NothingNew
<1>4. \A n \in Messages : srv'[n] # NoItem =>
         /\ srv[n] # NoItem /\ srv'[n].message = n /\ srv'[n].gen = srv[n].gen
  BY <1>1 DEF KnownIsPast, SamePlace
<1>5. \A i : Known(i) /\ Current(i)' => Current(i)
  BY <1>1, <1>4, CurrentBefore
<1>6. EmailsNamed'
  BY <1>1 DEF EmailsNamed
<1>7. OneTold' /\ OneRow'
  BY DEF RowsInv, OneTold, OneRow, Holding
<1>8. PageInHand'
  <2> SUFFICES ASSUME NEW u \in Threads PROVE PageInHand!(u)'
    BY DEF PageInHand
  <2>1. PageInHand!(u)
    BY <1>1 DEF PageInHand
  <2>2. op[u].put \subseteq Item /\ op[u].del \subseteq Item
    BY <1>1, OperationFields DEF TypeOK
  <2>3. CASE op'[u] = op[u]
    BY <2>1, <2>2, <2>3, <1>4, ItemFields DEF SameItem
  <2>4. CASE op'[u] # op[u]
    BY <2>4
  <2> QED
    BY <2>3, <2>4
<1>9. RecordInHand'
  <2> SUFFICES ASSUME NEW u \in Threads, op'[u].row # NoItem PROVE RecordInHand!(u)!2'
    BY DEF RecordInHand
  <2>1. CASE op'[u].row = op[u].row /\ op'[u].id = op[u].id
             /\ (op'[u].pc \in {"commit", "write"} =>
                    \/ /\ op[u].pc \in {"commit", "write"}
                       /\ op'[u].kind = op[u].kind /\ op'[u].ok = op[u].ok
                    \/ ~Current(op[u].row) /\ op'[u].ok = FALSE)
    <3>1. RecordInHand!(u)!2
      BY <2>1, <1>1 DEF RecordInHand
    <3>2. Known(op[u].row) /\ op[u].row.message \in Messages
      BY <2>1, <1>1, KnownMembers, KnownTypes, ItemFields
    <3>3. srv[op[u].row.message] = NoItem => srv'[op[u].row.message] = NoItem
      BY <3>2
    <3> QED
      BY <2>1, <3>1, <3>2, <3>3, <1>5 DEF Holding
  <2>2. CASE op'[u].id \in Ids /\ op'[u].row = rows[op'[u].id] /\ op'[u].pc = "lock"
    BY <2>2 DEF Holding, SameItem
  <2> QED
    BY <2>1, <2>2
<1>10. ToldInRows'
  <2> SUFFICES ASSUME NEW f \in Folders, NEW i \in told[f], Current(i)', ~Coming(i)'
               PROVE  \E id \in Holding(i) : id \notin overlapped => i.flags = rows[id].flags \cup Owed(id)'
    BY DEF ToldInRows, Holding
  <2>1. Known(i) /\ Current(i)
    BY <1>1, <1>5, KnownMembers
  <2>2. ~Coming(i)
    BY DEF Coming
  <2>3. PICK id \in Holding(i) : id \notin overlapped => i.flags = rows[id].flags \cup Owed(id)
    BY <1>1, <2>1, <2>2 DEF ToldInRows
  <2>4. id \in Ids /\ rows[id] # NoItem /\ SameItem(rows[id], i)
    BY <2>3 DEF Holding
  <2>5. CASE \A k \in Flags : Owes(t, id, k)' <=> Owes(t, id, k)
    <3>1. \A u \in Threads : \A k \in Flags : Owes(u, id, k)' <=> Owes(u, id, k)
      BY <2>5 DEF Owes
    <3>2. Owed(id)' = Owed(id)
      BY <3>1 DEF Owed
    <3> QED
      BY <2>3, <3>2
  <2>6. CASE /\ t \in Threads /\ op[t].row # NoItem /\ ~Current(op[t].row)
             /\ op'[t] = Idle \/ op'[t].id = op[t].id
    <3>1. CASE id # op[t].id
      <4>1. \A k \in Flags : ~Owes(t, id, k) /\ ~Owes(t, id, k)'
        BY <2>6, <3>1, IdleRecord DEF Owes
      <4> QED
        BY <4>1, <2>5
    <3>2. CASE id = op[t].id
      <4>1. id \in overlapped
        BY <1>1, <2>1, <2>4, <2>6, <3>2 DEF RecordInHand, Current, SameItem
      <4> QED
        BY <2>3, <4>1
    <3> QED
      BY <3>1, <3>2
  <2> QED
    <3>1. op'[t] = op[t] => \A k \in Flags : Owes(t, id, k)' <=> Owes(t, id, k)
      BY DEF Owes
    <3> QED
      BY <2>4, <2>5, <2>6, <3>1
<1> QED
  BY <1>3, <1>6, <1>7, <1>8, <1>9, <1>10 DEF RowsInv

LEMMA RemoteRows == ASSUME LockInv, RowsInv, Remote PROVE RowsInv'
<1>1. rows' = rows /\ told' = told /\ overlapped' = overlapped /\ op' = op
  BY DEF Remote, store
<1>2. TypeOK'
  BY RemoteLock DEF LockInv
<1>3. \A n \in Messages : srv'[n] # NoItem => srv[n] # NoItem /\ SamePlace(srv'[n], srv[n])
  <2>1. PICK m \in Messages :
           /\ srv[m] # NoItem
           /\ \/ srv' = [srv EXCEPT ![m] = NoItem]
              \/ \E flag \in Flags : srv' = [srv EXCEPT ![m].flags = (@ \ {flag}) \cup ({flag} \ @)]
    BY DEF Remote
  <2>2. srv \in [Messages -> Item \cup {NoItem}] /\ srv[m] \in Item
    BY <2>1 DEF LockInv, TypeOK
  <2>3. CASE srv' = [srv EXCEPT ![m] = NoItem]
    BY <2>2, <2>3 DEF SamePlace
  <2>4. ASSUME NEW flag \in Flags, srv' = [srv EXCEPT ![m].flags = (@ \ {flag}) \cup ({flag} \ @)]
        PROVE  \A n \in Messages : srv'[n] # NoItem => srv[n] # NoItem /\ SamePlace(srv'[n], srv[n])
    <3> DEFINE upd == [srv[m] EXCEPT !.flags = (@ \ {flag}) \cup ({flag} \ @)]
    <3>1. upd.message = srv[m].message /\ upd.gen = srv[m].gen /\ upd.folder = srv[m].folder
      BY <2>2 DEF Item
    <3>2. srv' = [srv EXCEPT ![m] = upd]
      BY <2>2, <2>4
    <3> HIDE DEF upd
    <3> QED
      BY <2>1, <2>2, <3>1, <3>2 DEF SamePlace
  <2> QED
    BY <2>1, <2>3, <2>4
<1> QED
  BY <1>1, <1>2, <1>3, QuietStep

LEMMA ExpireRows == ASSUME LockInv, RowsInv, NEW f \in Folders, Expire(f) PROVE RowsInv'
<1>1. rows' = rows /\ told' = told /\ overlapped' = overlapped /\ op' = op /\ srv' = srv
  BY DEF Expire, store, server
<1>2. TypeOK'
  BY ExpireLock DEF LockInv
<1>3. \A n \in Messages : SamePlace(srv'[n], srv[n])
  BY <1>1 DEF SamePlace
<1> QED
  BY <1>1, <1>2, <1>3, QuietStep

LEMMA StutterRows == ASSUME LockInv, RowsInv, UNCHANGED vars PROVE RowsInv'
<1>1. rows' = rows /\ told' = told /\ overlapped' = overlapped /\ op' = op /\ srv' = srv
  BY DEF vars, store, server
<1>2. TypeOK'
  BY DEF LockInv, TypeOK, vars, store, server
<1>3. \A n \in Messages : SamePlace(srv'[n], srv[n])
  BY <1>1 DEF SamePlace
<1> QED
  BY <1>1, <1>2, <1>3, QuietStep

\* A record in hand was read from the row.
LEMMA BeginRows ==
    ASSUME LockInv, RowsInv, TypeOK', NEW t \in Threads, NEW new, Begin(t, new),
           new.pc = "lock", new.put = {}, new.del = {},
           new.row # NoItem => new.id \in Ids /\ new.row = rows[new.id]
    PROVE  RowsInv'
<1>1. /\ rows' = rows /\ told' = told /\ overlapped' = overlapped /\ srv' = srv
      /\ op[t] = Idle /\ op' = [op EXCEPT ![t] = new]
  BY DEF Begin, Admitted, store, server
<1>2. op'[t] = new /\ \A u \in Threads \ {t} : op'[u] = op[u]
  BY <1>1 DEF LockInv, TypeOK
<1>3. \A n \in Messages : SamePlace(srv'[n], srv[n])
  BY <1>1 DEF SamePlace
<1>4. ~Moving(t)' /\ \A id \in Ids : \A k \in Flags : ~Owes(t, id, k)' /\ ~Owes(t, id, k)
  BY <1>1, <1>2, IdleRecord DEF Moving, Owes
<1> QED
  BY <1>1, <1>2, <1>3, <1>4, IdleRecord, QuietStep

LEMMA StartRows == ASSUME LockInv, RowsInv, NEW t \in Threads, Start(t) PROVE RowsInv'
<1>1. TypeOK'
  BY StartLock DEF LockInv
<1>2. ASSUME NEW f \in Folders, StartSync(t, f) \/ StartEnsure(t, f) PROVE RowsInv'
  <2>1. PICK kind \in {"sync", "ensure"} :
           Begin(t, [Idle EXCEPT !.kind = kind, !.pc = "lock", !.need = <<f>>, !.folder = f])
    BY <1>2 DEF StartSync, StartEnsure
  <2> DEFINE new == [Idle EXCEPT !.kind = kind, !.pc = "lock", !.need = <<f>>, !.folder = f]
  <2>2. new.pc = "lock" /\ new.row = NoItem /\ new.put = {} /\ new.del = {}
    BY IdleRecord DEF Operation
  <2> HIDE DEF new
  <2>3. Begin(t, new)
    BY <2>1 DEF new
  <2> QED
    BY <1>1, <2>2, <2>3, BeginRows
<1>3. ASSUME NEW id \in Ids, NEW kind \in Changing, StartChange(t, kind, id) PROVE RowsInv'
  <2> DEFINE new == [Idle EXCEPT !.kind = kind, !.pc = "lock", !.need = <<rows[id].folder>>,
                                 !.folder = rows[id].folder, !.id = id, !.row = rows[id]]
  <2>1. Begin(t, new)
    BY <1>3 DEF StartChange
  <2>2. new.pc = "lock" /\ new.row = rows[id] /\ new.id = id /\ new.put = {} /\ new.del = {}
    BY IdleRecord DEF Operation
  <2> HIDE DEF new
  <2> QED
    BY <1>1, <2>1, <2>2, BeginRows
<1>4. ASSUME NEW id \in Ids, NEW to \in Folders, StartMove(t, id, to) PROVE RowsInv'
  <2> DEFINE new == [Idle EXCEPT !.kind = "move", !.pc = "lock", !.need = MoveLocks(rows[id].folder, to),
                                 !.folder = rows[id].folder, !.id = id, !.row = rows[id], !.to = to]
  <2>1. Begin(t, new)
    BY <1>4 DEF StartMove
  <2>2. new.pc = "lock" /\ new.row = rows[id] /\ new.id = id /\ new.put = {} /\ new.del = {}
    BY IdleRecord DEF Operation
  <2> HIDE DEF new
  <2> QED
    BY <1>1, <2>1, <2>2, BeginRows
<1> QED
  BY <1>2, <1>3, <1>4 DEF Start, Changing

LEMMA AcquireRows == ASSUME LockInv, RowsInv, NEW t \in Threads, Acquire(t) PROVE RowsInv'
<1> DEFINE rest == Tail(op[t].need)
           pc == IF rest = <<>> THEN "call" ELSE "lock"
           new == [op[t] EXCEPT !.need = rest, !.key = stored[op[t].folder], !.pc = pc]
<1>1. /\ rows' = rows /\ told' = told /\ overlapped' = overlapped /\ srv' = srv /\ op[t].pc = "lock"
      /\ op' = [op EXCEPT ![t] = Idle] \/ op' = [op EXCEPT ![t] = new]
  BY DEF Acquire, Take, store, server
<1>2. TypeOK' /\ op \in [Threads -> Operation] /\ op[t] \in Operation
  BY AcquireLock DEF LockInv, TypeOK
<1>3. \A n \in Messages : SamePlace(srv'[n], srv[n])
  BY <1>1 DEF SamePlace
<1>4. op[t].put = {} /\ op[t].del = {}
  BY <1>1 DEF RowsInv, PageInHand
<1>5. pc \in {"call", "lock"}
  OBVIOUS
<1> HIDE DEF rest, pc
<1>6. /\ new.put = {} /\ new.del = {} /\ new.pc = pc /\ new.row = op[t].row /\ new.id = op[t].id
  BY <1>2, <1>4 DEF Operation
<1> HIDE DEF new
<1>7. op'[t] \in {Idle, new} /\ \A u \in Threads \ {t} : op'[u] = op[u]
  BY <1>1, <1>2
<1>8. ~Moving(t)' /\ \A id \in Ids : \A k \in Flags : ~Owes(t, id, k)' /\ ~Owes(t, id, k)
  BY <1>1, <1>5, <1>6, <1>7, IdleRecord DEF Moving, Owes
<1>9. /\ op'[t].put = {} /\ op'[t].del = {}
      /\ op'[t].row # NoItem => op'[t].row = op[t].row /\ op'[t].id = op[t].id /\ op'[t].pc \in {"call", "lock"}
  BY <1>5, <1>6, <1>7, IdleRecord
<1> QED
  BY <1>1, <1>2, <1>3, <1>4, <1>7, <1>8, <1>9, QuietStep

LEMMA FailsRows == ASSUME LockInv, RowsInv, NEW t \in Threads, Fails(t) PROVE RowsInv'
<1>1. /\ rows' = rows /\ told' = told /\ overlapped' = overlapped /\ srv' = srv /\ op[t].pc = "call"
      /\ op' = [op EXCEPT ![t] = Idle]
  BY DEF Fails, store, server
<1>2. TypeOK' /\ op \in [Threads -> Operation]
  BY FailsLock DEF LockInv, TypeOK
<1>3. \A n \in Messages : SamePlace(srv'[n], srv[n])
  BY <1>1 DEF SamePlace
<1>4. op[t].put = {} /\ op[t].del = {}
  BY <1>1 DEF RowsInv, PageInHand
<1>5. op'[t] = Idle /\ \A u \in Threads \ {t} : op'[u] = op[u]
  BY <1>1, <1>2
<1>6. ~Moving(t)' /\ \A id \in Ids : \A k \in Flags : ~Owes(t, id, k)' /\ ~Owes(t, id, k)
  BY <1>1, <1>5, IdleRecord DEF Moving, Owes
<1> QED
  BY <1>1, <1>2, <1>3, <1>4, <1>5, <1>6, IdleRecord, QuietStep

LEMMA ChangeCommitRows == ASSUME LockInv, RowsInv, NEW t \in Threads, ChangeCommit(t) PROVE RowsInv'
<1> DEFINE wrote == [op[t] EXCEPT !.pc = "write"]
           new == IF op[t].ok THEN wrote ELSE Idle
<1>1. /\ rows' = rows /\ told' = told /\ overlapped' = overlapped /\ srv' = srv
      /\ op[t].pc = "commit" /\ op[t].kind \in Changing /\ op' = [op EXCEPT ![t] = new]
  BY DEF ChangeCommit, server, Changing
<1>2. TypeOK' /\ op \in [Threads -> Operation] /\ op[t] \in Operation
  BY ChangeCommitLock DEF LockInv, TypeOK
<1>3. \A n \in Messages : SamePlace(srv'[n], srv[n])
  BY <1>1 DEF SamePlace
<1>4. op[t].put = {} /\ op[t].del = {} /\ op[t].row # NoItem
  BY <1>1 DEF RowsInv, PageInHand, LockInv, RowInHand, Changing, Flags
<1>5. /\ wrote.pc = "write" /\ wrote.kind = op[t].kind /\ wrote.row = op[t].row /\ wrote.id = op[t].id
      /\ wrote.ok = op[t].ok /\ wrote.put = {} /\ wrote.del = {}
  BY <1>2, <1>4 DEF Operation
<1> HIDE DEF wrote
<1>6. op'[t] = new /\ \A u \in Threads \ {t} : op'[u] = op[u]
  BY <1>1, <1>2
<1>7. CASE op[t].ok
  <2>1. op'[t] = wrote
    BY <1>6, <1>7
  <2>2. ~Moving(t)' /\ \A id \in Ids : \A k \in Flags : Owes(t, id, k)' <=> Owes(t, id, k)
    BY <1>1, <1>5, <2>1 DEF Moving, Owes
  <2> QED
    BY <1>1, <1>2, <1>3, <1>4, <1>5, <1>6, <2>1, <2>2, QuietStep
<1>8. CASE ~op[t].ok
  <2>1. op'[t] = Idle /\ ~Moving(t)'
    BY <1>6, <1>8, IdleRecord DEF Moving
  <2>2. ~Current(op[t].row)
    BY <1>1, <1>4, <1>8 DEF RowsInv, RecordInHand
  <2> QED
    BY <1>1, <1>2, <1>3, <1>4, <1>6, <2>1, <2>2, IdleRecord, QuietStep
<1> QED
  BY <1>7, <1>8

-----------------------------------------------------------------------------
(* Calls *)

\* Who is in a folder's critical section is there alone.
LEMMA Alone ==
    ASSUME LockInv, NEW t \in Threads, NEW u \in Threads,
           op[t].pc \in {"call", "commit"}, op[u].pc \in {"call", "commit"},
           \/ op[t].folder = op[u].folder
           \/ op[u].kind = "move" /\ op[t].folder = op[u].to
    PROVE  t = u
<1> QED
  BY DEF LockInv, LocksHeld

LEMMA SyncCallRows == ASSUME LockInv, RowsInv, NEW t \in Threads, SyncCall(t) PROVE RowsInv'
<1> DEFINE f == op[t].folder
           k == srvKey[f] + 1
           b == op[t].key # 0
           known == IF op[t].key = 0 THEN {} ELSE told[f]
           now == IF op[t].key = 0 THEN {} ELSE Contents(f)
           put == now \ known
           del == {i \in known : ~\E j \in now : SameItem(i, j)}
           new == [op[t] EXCEPT !.pc = "commit", !.key = k, !.ok = b, !.put = put, !.del = del]
<1>1. /\ rows' = rows /\ overlapped' = overlapped /\ srv' = srv
      /\ op[t].pc = "call" /\ op[t].kind \in {"sync", "ensure"}
      /\ told' = [told EXCEPT ![f] = now] /\ op' = [op EXCEPT ![t] = new]
  BY DEF SyncCall, Calls, Called, store
<1>2. /\ TypeOK' /\ op \in [Threads -> Operation] /\ op[t] \in Operation /\ f \in Folders
      /\ told \in [Folders -> SUBSET Item] /\ srv \in [Messages -> Item \cup {NoItem}]
  BY SyncCallLock, OperationFields DEF LockInv, TypeOK
<1>3. /\ op[t].put = {} /\ op[t].del = {} /\ op[t].row = NoItem
  BY <1>1 DEF RowsInv, PageInHand, LockInv, RowInHand, Changing, Flags
<1>4. TypeOK /\ KnownIsPast /\ EmailsNamed /\ OneTold /\ MoveAhead /\ PageInHand /\ RecordInHand /\ ToldInRows
  BY DEF LockInv, RowsInv
<1>5. /\ known \subseteq told[f]
      /\ \A i \in now : /\ i \in Item /\ i.folder = f /\ i.message \in Messages
                        /\ srv[i.message] = i
      /\ \A n \in Messages : op[t].key # 0 /\ srv[n] # NoItem /\ srv[n].folder = f => srv[n] \in now
      /\ op[t].key = 0 => known = {} /\ now = {}
      /\ op[t].key # 0 => known = told[f]
  BY <1>2, <1>4 DEF Contents, KnownIsPast
<1>6. put \subseteq now /\ (\A i \in now : i \in put \/ i \in known)
  OBVIOUS
<1>7. \A i \in del : i \in known /\ ~\E j \in now : SameItem(i, j)
  OBVIOUS
<1> HIDE DEF k, b, known, now, put, del
<1>8. /\ new.pc = "commit" /\ new.kind = op[t].kind /\ new.row = NoItem /\ new.folder = f
      /\ new.put = put /\ new.del = del
  BY <1>2, <1>3 DEF Operation
<1> HIDE DEF new
<1>9. op'[t] = new /\ \A u \in Threads \ {t} : op'[u] = op[u]
  BY <1>1, <1>2
<1>10. told'[f] = now /\ \A g \in Folders \ {f} : told'[g] = told[g]
  BY <1>1, <1>2
<1>11. \A u \in Threads \ {t} : op[u].pc \in {"call", "commit"} =>
          op[u].folder # f /\ (op[u].kind = "move" => op[u].to # f)
  BY <1>1, Alone
<1>12. \A i \in Item : Known(i)' => Known(i) \/ i \in now
  BY <1>1, <1>3, <1>8, <1>9, <1>10 DEF Known
<1>13. KnownIsPast'
  <2>1. \A n \in Messages : srv[n] # NoItem => srv[n].message = n
    BY <1>4 DEF KnownIsPast
  <2>2. ASSUME NEW i \in Item, Known(i)', srv[i.message] # NoItem
        PROVE  /\ i.gen <= srv[i.message].gen
               /\ i.gen = srv[i.message].gen => i.folder = srv[i.message].folder
    <3>1. CASE i \in now
      BY <3>1, <1>5, ItemFields
    <3>2. CASE Known(i)
      BY <1>4, <2>2, <3>2 DEF KnownIsPast
    <3> QED
      BY <1>12, <2>2, <3>1, <3>2
  <2> QED
    BY <1>1, <2>1, <2>2 DEF KnownIsPast
<1>14. EmailsNamed'
  BY <1>1, <1>4, <1>8, <1>9 DEF EmailsNamed
<1>15. OneTold'
  <2> SUFFICES ASSUME NEW g \in Folders, NEW i \in told'[g]
               PROVE  i.folder = g /\ \A j \in told'[g] : i.message = j.message => i = j
    BY DEF OneTold
  <2>1. CASE g = f
    BY <2>1, <1>5, <1>10
  <2>2. CASE g # f
    BY <2>2, <1>4, <1>10 DEF OneTold
  <2> QED
    BY <2>1, <2>2
<1>16. MoveAhead'
  <2> SUFFICES ASSUME NEW u \in Threads, Moving(u)' PROVE MoveAhead!(u)!2'
    BY DEF MoveAhead
  <2>1. u # t /\ Moving(u) /\ op'[u] = op[u]
    BY <1>1, <1>8, <1>9 DEF Moving
  <2>2. MoveAhead!(u)!2
    BY <1>4, <2>1 DEF MoveAhead
  <2>3. op[u].to # f
    BY <1>11, <2>1 DEF Moving
  <2>4. ASSUME NEW i \in Item, Known(i)', i.message = op[u].row.message PROVE i.gen <= op[u].row.gen
    <3>1. CASE Known(i)
      BY <2>2, <2>4, <3>1
    <3>2. CASE i \in now
      <4>1. srv[op[u].row.message] = i /\ i # NoItem
        BY <1>5, <2>4, <3>2, ItemFields
      <4> QED
        BY <1>5, <2>2, <2>3, <3>2, <4>1
    <3> QED
      BY <1>12, <2>4, <3>1, <3>2
  <2>5. \A v \in Threads : Moving(v)' => Moving(v) /\ op'[v] = op[v]
    BY <1>1, <1>8, <1>9 DEF Moving
  <2> QED
    BY <1>1, <2>1, <2>2, <2>4, <2>5
<1>17. PageInHand'
  <2> SUFFICES ASSUME NEW u \in Threads PROVE PageInHand!(u)'
    BY DEF PageInHand
  <2>1. PageInHand!(u)
    BY <1>4 DEF PageInHand
  <2>2. CASE u # t
    <3>1. op[u].put # {} => op[u].folder # f
      BY <1>11, <2>1, <2>2
    <3>2. op[u].folder \in Folders
      BY <1>2, OperationFields
    <3> QED
      BY <1>1, <1>9, <1>10, <2>1, <2>2, <3>1, <3>2
  <2>3. CASE u = t
    <3>1. \A i \in put : SameItem(i, srv[i.message])
      BY <1>5, <1>6 DEF SameItem
    <3>2. ASSUME NEW i \in del, srv[i.message] # NoItem PROVE i.gen < srv[i.message].gen
      <4>1. i \in told[f] /\ i \in Item /\ Known(i) /\ i.folder = f /\ op[t].key # 0
        BY <1>2, <1>4, <1>5, <1>7, KnownMembers DEF OneTold
      <4>2. srv[i.message] \in Item /\ i.message \in Messages /\ srv[i.message].message = i.message
        BY <1>2, <3>2, <4>1, ItemFields DEF RowsInv, KnownIsPast
      <4>3. i.gen \in Nat /\ srv[i.message].gen \in Nat /\ i.gen <= srv[i.message].gen
        BY <1>4, <3>2, <4>1, <4>2, ItemFields DEF KnownIsPast
      <4>4. i.gen # srv[i.message].gen
        <5>1. SUFFICES ASSUME i.gen = srv[i.message].gen PROVE FALSE
          OBVIOUS
        <5>2. srv[i.message].folder = f
          BY <1>4, <3>2, <4>1, <5>1 DEF KnownIsPast
        <5>3. srv[i.message] \in now
          BY <1>5, <3>2, <4>1, <4>2, <5>2
        <5> QED
          BY <1>7, <4>2, <5>1, <5>3 DEF SameItem
      <4> QED
        BY <4>3, <4>4
    <3> QED
      BY <1>1, <1>6, <1>8, <1>9, <1>10, <2>3, <3>1, <3>2
  <2> QED
    BY <2>2, <2>3
<1>18. OneRow'
  BY <1>1 DEF RowsInv, OneRow, Holding
<1>19. RecordInHand'
  BY <1>1, <1>4, <1>8, <1>9 DEF RecordInHand, Current, Holding
<1>20. ToldInRows'
  <2> SUFFICES ASSUME NEW g \in Folders, NEW i \in told'[g], Current(i), ~Coming(i)'
               PROVE  \E id \in Holding(i) : id \notin overlapped => i.flags = rows[id].flags \cup Owed(id)'
    BY <1>1 DEF ToldInRows, Holding, Current
  <2>1. \A id \in Ids : Owed(id)' = Owed(id)
    <3>1. \A id \in Ids : \A w \in Flags : \A u \in Threads : Owes(u, id, w)' <=> Owes(u, id, w)
      BY <1>3, <1>8, <1>9 DEF Owes
    <3> QED
      BY <3>1 DEF Owed
  <2>2. i \in told[g]
    <3>1. i \notin put
      BY <1>8, <1>9 DEF Coming
    <3> QED
      BY <1>5, <1>6, <1>10, <3>1
  <2>3. ~Coming(i)
    <3>1. \A u \in Threads \ {t} : i \notin op[u].put
      BY <1>9 DEF Coming
    <3> QED
      BY <1>3, <3>1 DEF Coming
  <2>4. PICK id \in Holding(i) : id \notin overlapped => i.flags = rows[id].flags \cup Owed(id)
    BY <1>4, <2>2, <2>3 DEF ToldInRows
  <2> QED
    BY <2>1, <2>4 DEF Holding
<1> QED
  BY <1>13, <1>14, <1>15, <1>16, <1>17, <1>18, <1>19, <1>20 DEF RowsInv

LEMMA ChangeCallRows == ASSUME LockInv, RowsInv, NEW t \in Threads, ChangeCall(t) PROVE RowsInv'
<1> DEFINE f == op[t].folder
           n == op[t].row.message
           kind == op[t].kind
           flag(i) == [i EXCEPT !.flags = @ \cup {kind}]
           known == {i \in told[f] : SameItem(i, op[t].row)}
           k == srvKey[f] + 1
           b == StillThere(t)
           new == [op[t] EXCEPT !.pc = "commit", !.key = k, !.ok = b]
<1>1. /\ rows' = rows /\ overlapped' = overlapped
      /\ op[t].pc = "call" /\ kind \in Changing /\ op' = [op EXCEPT ![t] = new]
  BY DEF ChangeCall, Calls, Called, store, Changing
<1>2. /\ TypeOK' /\ op \in [Threads -> Operation] /\ op[t] \in Operation /\ f \in Folders
      /\ told \in [Folders -> SUBSET Item] /\ srv \in [Messages -> Item \cup {NoItem}]
  BY ChangeCallLock, OperationFields DEF LockInv, TypeOK
<1>3. /\ op[t].put = {} /\ op[t].del = {} /\ op[t].row # NoItem /\ op[t].row \in Item /\ n \in Messages
      /\ op[t].row.folder = f /\ Known(op[t].row)
  BY <1>1, KnownTypes, KnownMembers, ItemFields DEF RowsInv, PageInHand, LockInv, RowInHand, Changing, Flags
<1>4. TypeOK /\ KnownIsPast /\ EmailsNamed /\ OneTold /\ MoveAhead /\ PageInHand /\ OneRow /\ RecordInHand /\ ToldInRows
  BY DEF LockInv, RowsInv
<1>5. b <=> Current(op[t].row)
  BY DEF StillThere, Current, SameItem
<1>6. b => srv[n] \in Item /\ srv[n].message = n /\ srv[n].gen = op[t].row.gen
  BY <1>2, <1>3 DEF StillThere, SameItem
<1>7. /\ ~b => srv' = srv /\ told' = told
      /\ b /\ kind = "delete" => srv' = [srv EXCEPT ![n] = NoItem] /\ told' = [told EXCEPT ![f] = @ \ known]
      /\ b /\ kind # "delete" => /\ srv' = [srv EXCEPT ![n] = flag(srv[n])]
                                 /\ told' = [told EXCEPT ![f] = (@ \ known) \cup {flag(i) : i \in known}]
  BY DEF ChangeCall
<1> HIDE DEF b, k
<1>8. /\ new.pc = "commit" /\ new.kind = kind /\ new.row = op[t].row /\ new.id = op[t].id
      /\ new.put = {} /\ new.del = {} /\ new.ok = b
  BY <1>2, <1>3 DEF Operation
<1> HIDE DEF new
<1>9. op'[t] = new /\ \A u \in Threads \ {t} : op'[u] = op[u]
  BY <1>1, <1>2
<1>9a. b \in BOOLEAN
  BY DEF b, StillThere, SameItem
<1>10. ~Moving(t)'
  BY <1>1, <1>8, <1>9 DEF Moving, Changing, Flags
<1>11. CASE ~b
  <2>1. \A w \in Messages : SamePlace(srv'[w], srv[w])
    BY <1>7, <1>11 DEF SamePlace
  <2>2. ~Current(op[t].row)
    BY <1>5, <1>11
  <2>3. /\ op'[t].row = op[t].row /\ op'[t].id = op[t].id /\ op'[t].put = {} /\ op'[t].del = {}
        /\ op'[t].ok = FALSE
    BY <1>8, <1>9, <1>9a, <1>11
  <2> QED
    BY <1>1, <1>2, <1>3, <1>7, <1>9, <1>10, <1>11, <2>1, <2>2, <2>3, QuietStep
<1>12. CASE b
  <2>1. ASSUME NEW i \in Item
        PROVE  /\ SamePlace(flag(i), i) /\ SameItem(flag(i), i)
               /\ flag(i).flags = i.flags \cup {kind}
    BY DEF Item, SamePlace, SameItem
  <2>2. \A w \in Messages : srv'[w] # NoItem => srv[w] # NoItem /\ SamePlace(srv'[w], srv[w])
    <3>1. CASE kind = "delete"
      BY <3>1, <1>2, <1>7, <1>12 DEF SamePlace
    <3>2. CASE kind # "delete"
      <4>1. SamePlace(flag(srv[n]), srv[n]) /\ srv[n] # NoItem
        BY <1>6, <1>12, <2>1, ItemFields
      <4> HIDE DEF flag
      <4> QED
        BY <3>2, <4>1, <1>2, <1>3, <1>7, <1>12 DEF SamePlace
    <3> QED
      BY <3>1, <3>2
  <2>3. /\ \A g \in Folders \ {f} : told'[g] = told[g]
        /\ \A i \in told'[f] :
              \/ i \in told[f] /\ ~SameItem(i, op[t].row)
              \/ kind # "delete" /\ \E j \in told[f] : SameItem(j, op[t].row) /\ i = flag(j)
    <3> HIDE DEF flag
    <3>1. CASE kind = "delete"
      BY <3>1, <1>2, <1>7, <1>12
    <3>2. CASE kind # "delete"
      BY <3>2, <1>2, <1>7, <1>12
    <3> QED
      BY <3>1, <3>2
  <2> HIDE DEF flag, known
  <2>4. \A g \in Folders : \A i \in told'[g] : \E j \in told[g] : SamePlace(i, j)
    <3> SUFFICES ASSUME NEW g \in Folders, NEW i \in told'[g] PROVE \E j \in told[g] : SamePlace(i, j)
      OBVIOUS
    <3>1. CASE i \in told[g]
      BY <3>1 DEF SamePlace
    <3>2. CASE g = f /\ \E j \in told[f] : i = flag(j)
      BY <3>2, <1>2, <2>1
    <3> QED
      BY <2>3, <3>1, <3>2
  <2>5. \A i \in Item : Known(i)' => \E j \in Item : Known(j) /\ SamePlace(i, j)
    <3> SUFFICES ASSUME NEW i \in Item, Known(i)' PROVE \E j \in Item : Known(j) /\ SamePlace(i, j)
      OBVIOUS
    <3>1. CASE \E g \in Folders : i \in told'[g]
      BY <3>1, <1>2, <1>4, <2>4, KnownMembers
    <3>2. CASE Known(i)
      BY <3>2 DEF SamePlace
    <3>3. Known(i) \/ \E g \in Folders : i \in told'[g]
      BY <1>1, <1>8, <1>9 DEF Known
    <3> QED
      BY <3>1, <3>2, <3>3
  <2>6. KnownIsPast' /\ MoveAhead'
    <3>1. \A u \in Threads : Moving(u)' => Moving(u) /\ op'[u].row = op[u].row /\ op'[u].to = op[u].to
      BY <1>9, <1>10 DEF Moving
    <3> QED
      BY <1>2, <1>4, <2>2, <2>5, <3>1, NothingNew
  <2>7. \A i : Known(i) /\ Current(i)' => Current(i)
    <3>1. \A w \in Messages : srv'[w] # NoItem =>
             srv[w] # NoItem /\ srv'[w].message = w /\ srv'[w].gen = srv[w].gen
      BY <1>4, <2>2 DEF KnownIsPast, SamePlace
    <3> QED
      BY <1>4, <3>1, CurrentBefore
  <2>8. EmailsNamed'
    BY <1>1, <1>4, <1>8, <1>9 DEF EmailsNamed
  <2>9. OneTold'
    <3> SUFFICES ASSUME NEW g \in Folders, NEW i \in told'[g]
                 PROVE  i.folder = g /\ \A j \in told'[g] : i.message = j.message => i = j
      BY DEF OneTold
    <3>1. i.folder = g
      BY <1>4, <2>4 DEF OneTold, SamePlace
    <3>2. ASSUME NEW j \in told'[g], i.message = j.message PROVE i = j
      <4>1. CASE g # f
        BY <3>2, <4>1, <1>4, <2>3 DEF OneTold
      <4>2. CASE g = f
        <5>1. PICK x \in told[f] : /\ SamePlace(i, x)
                                   /\ IF SameItem(x, op[t].row) THEN i = flag(x) ELSE i = x
          BY <4>2, <1>2, <2>1, <2>3 DEF SamePlace
        <5>2. PICK y \in told[f] : /\ SamePlace(j, y)
                                   /\ IF SameItem(y, op[t].row) THEN j = flag(y) ELSE j = y
          BY <4>2, <3>2, <1>2, <2>1, <2>3 DEF SamePlace
        <5>3. x = y
          <6>1. \A v, w \in told[f] : v.message = w.message => v = w
            BY <1>2, <1>4 DEF OneTold
          <6>2. x.message = y.message
            BY <3>2, <5>1, <5>2 DEF SamePlace
          <6> QED
            BY <5>1, <5>2, <6>1, <6>2
        <5> QED
          BY <5>1, <5>2, <5>3
      <4> QED
        BY <4>1, <4>2
    <3> QED
      BY <3>1, <3>2
  <2>10. PageInHand'
    <3> SUFFICES ASSUME NEW u \in Threads PROVE PageInHand!(u)'
      BY DEF PageInHand
    <3>1. CASE u = t
      BY <3>1, <1>8, <1>9
    <3>2. CASE u # t
      <4>1. PageInHand!(u) /\ op'[u] = op[u]
        BY <3>2, <1>4, <1>9 DEF PageInHand
      <4>2. op[u].folder \in Folders /\ op[u].put \subseteq Item /\ op[u].del \subseteq Item
        BY <1>2, OperationFields
      <4>3. op[u].put # {} => op[u].folder # f
        BY <3>2, <4>1, <1>1, Alone
      <4>4. op[u].put \subseteq told'[op[u].folder]
        BY <4>1, <4>2, <4>3, <2>3
      <4>5. \A i \in op[u].put : srv'[i.message] # NoItem => SameItem(i, srv'[i.message])
        BY <4>1, <4>2, <2>2, ItemFields DEF SameItem, SamePlace
      <4>6. \A i \in op[u].del : srv'[i.message] # NoItem => i.gen < srv'[i.message].gen
        BY <4>1, <4>2, <2>2, ItemFields DEF SamePlace
      <4> QED
        BY <4>1, <4>4, <4>5, <4>6
    <3> QED
      BY <3>1, <3>2
  <2>11. OneRow'
    BY <1>1 DEF RowsInv, OneRow, Holding
  <2>12. RecordInHand'
    <3> SUFFICES ASSUME NEW u \in Threads, op'[u].row # NoItem PROVE RecordInHand!(u)!2'
      BY DEF RecordInHand
    <3>1. op'[u].row = op[u].row /\ op'[u].id = op[u].id /\ RecordInHand!(u)!2 /\ Known(op[u].row)
      BY <1>4, <1>8, <1>9, KnownMembers DEF RecordInHand
    <3>0. srv[op[u].row.message] = NoItem => srv'[op[u].row.message] = NoItem
      BY <1>4, <2>2, <3>1, KnownTypes, ItemFields
    <3>2. CASE u # t
      BY <3>0, <3>1, <3>2, <1>1, <1>9, <2>7 DEF Holding
    <3>3. CASE u = t
      <4>1. kind = "delete" => srv'[n] = NoItem
        BY <1>2, <1>3, <1>7, <1>12
      <4> QED
        <5>1. /\ op[t].id \notin overlapped' => rows'[op[t].id] = op[t].row
              /\ Current(op[t].row)' => op[t].id \in Holding(op[t].row)'
          BY <3>1, <3>3, <1>1, <2>7 DEF Holding
        <5> QED
          BY <3>1, <3>3, <4>1, <5>1, <1>8, <1>9, <1>12
    <3> QED
      BY <3>2, <3>3
  <2>13. ToldInRows'
    <3> SUFFICES ASSUME NEW g \in Folders, NEW i \in told'[g], Current(i)', ~Coming(i)'
                 PROVE  \E id \in Holding(i) : id \notin overlapped => i.flags = rows[id].flags \cup Owed(id)'
      BY <1>1 DEF ToldInRows, Holding
    <3>1. \A u \in Threads : op'[u].put = op[u].put
      BY <1>3, <1>8, <1>9
    <3>2. \A id \in Ids \ {op[t].id} : Owed(id)' = Owed(id)
      <4>1. \A id \in Ids \ {op[t].id} : \A w \in Flags : \A u \in Threads : Owes(u, id, w)' <=> Owes(u, id, w)
        BY <1>8, <1>9 DEF Owes
      <4> QED
        BY <4>1 DEF Owed
    <3>3. op[t].id \notin overlapped => rows[op[t].id] = op[t].row
      BY <1>3, <1>4 DEF RecordInHand
    <3>4. CASE i \in told[g] /\ ~SameItem(i, op[t].row)
      <4>1. Current(i) /\ ~Coming(i)
        BY <3>1, <3>4, <1>4, <2>7, KnownMembers DEF Coming
      <4>2. PICK id \in Holding(i) : id \notin overlapped => i.flags = rows[id].flags \cup Owed(id)
        BY <1>4, <3>4, <4>1 DEF ToldInRows
      <4>3. id \in Ids /\ SameItem(rows[id], i)
        BY <4>2 DEF Holding
      <4>4. id = op[t].id => id \in overlapped
        BY <3>3, <3>4, <4>3 DEF SameItem
      <4> QED
        BY <3>2, <4>2, <4>3, <4>4
    <3>5. CASE i \in told[g] /\ SameItem(i, op[t].row) /\ g # f
      <4>1. Known(i) /\ Current(i) /\ Current(op[t].row)
        BY <3>5, <1>4, <1>5, <1>12, <2>7, KnownMembers
      <4>2. i.folder = op[t].row.folder
        BY <1>3, <1>4, <3>5, <4>1, CurrentFolder DEF SameItem
      <4> QED
        BY <1>3, <1>4, <3>5, <4>2 DEF OneTold
    <3>6. ASSUME g = f, kind # "delete", NEW j \in told[f], SameItem(j, op[t].row), i = flag(j)
          PROVE  \E id \in Holding(i) : id \notin overlapped => i.flags = rows[id].flags \cup Owed(id)'
      <4>1. j \in Item /\ Known(j) /\ SameItem(i, j) /\ i.flags = j.flags \cup {kind}
        BY <3>6, <1>2, <1>4, <2>1, KnownMembers
      <4>2. Current(j) /\ Current(op[t].row)
        BY <3>6, <4>1, <1>5, <1>12 DEF Current, SameItem
      <4>3. ~Coming(j)
        <5>1. SUFFICES ASSUME NEW u \in Threads, j \in op[u].put PROVE FALSE
          BY DEF Coming
        <5>2. u # t /\ op[u].pc = "commit" /\ op[u].kind # "move" /\ j \in told[op[u].folder] /\ op[u].folder \in Folders
          BY <5>1, <1>2, <1>3, <1>4, OperationFields DEF PageInHand
        <5>3. op[u].folder = f
          BY <1>4, <3>6, <5>2 DEF OneTold
        <5> QED
          BY <1>1, <5>2, <5>3, Alone
      <4>4. PICK id \in Holding(j) : id \notin overlapped => j.flags = rows[id].flags \cup Owed(id)
        BY <1>4, <3>6, <4>2, <4>3 DEF ToldInRows
      <4>5. id \in Ids /\ rows[id] # NoItem /\ SameItem(rows[id], j) /\ id \in Holding(i)
        BY <4>1, <4>4 DEF Holding, SameItem
      <4>6. op[t].id = id
        <5>1. op[t].id \in Holding(op[t].row)
          BY <1>3, <1>4, <4>2 DEF RecordInHand
        <5>2. op[t].id \in Holding(rows[id])
          BY <3>6, <4>5, <5>1 DEF Holding, SameItem
        <5> QED
          BY <1>4, <4>5, <5>2 DEF OneRow, Holding
      <4>7. Owed(id)' = Owed(id) \cup {kind}
        <5>1. kind \in Flags
          BY <1>1, <3>6 DEF Changing
        <5>2. \A w \in Flags : Owes(t, id, w)' <=> w = kind
          BY <1>3, <1>8, <1>9, <4>6 DEF Owes
        <5>3. \A w \in Flags : ~Owes(t, id, w)
          BY <1>1 DEF Owes
        <5>4. \A w \in Flags : \A u \in Threads \ {t} : Owes(u, id, w)' <=> Owes(u, id, w)
          BY <1>9 DEF Owes
        <5> QED
          BY <5>1, <5>2, <5>3, <5>4 DEF Owed
      <4> QED
        BY <4>1, <4>4, <4>5, <4>7
    <3> QED
      BY <2>3, <3>4, <3>5, <3>6
  <2> QED
    BY <2>6, <2>8, <2>9, <2>10, <2>11, <2>12, <2>13 DEF RowsInv
<1> QED
  BY <1>11, <1>12

LEMMA MoveCallRows == ASSUME LockInv, RowsInv, NEW t \in Threads, MoveCall(t) PROVE RowsInv'
<1> DEFINE n == op[t].row.message
           moved == [srv[n] EXCEPT !.folder = op[t].to, !.gen = @ + 1]
           new == [op[t] EXCEPT !.pc = "commit"]
<1>1. /\ rows' = rows /\ overlapped' = overlapped /\ told' = told
      /\ op[t].pc = "call" /\ op[t].kind = "move" /\ op' = [op EXCEPT ![t] = new] /\ StillThere(t)
      /\ srv' = [srv EXCEPT ![n].folder = op[t].to, ![n].gen = @ + 1]
  BY DEF MoveCall, Calls, Called, store, Movable
<1>2. /\ TypeOK' /\ op \in [Threads -> Operation] /\ op[t] \in Operation /\ op[t].folder \in Folders
      /\ told \in [Folders -> SUBSET Item] /\ srv \in [Messages -> Item \cup {NoItem}]
  BY MoveCallLock, OperationFields DEF LockInv, TypeOK
<1>3. /\ op[t].put = {} /\ op[t].del = {} /\ op[t].row # NoItem /\ op[t].row \in Item /\ n \in Messages
      /\ op[t].row.folder = op[t].folder /\ Known(op[t].row)
  BY <1>1, KnownTypes, KnownMembers, ItemFields DEF RowsInv, PageInHand, LockInv, RowInHand, Changing, Flags
<1>4. TypeOK /\ KnownIsPast /\ EmailsNamed /\ OneTold /\ MoveAhead /\ PageInHand /\ RecordInHand /\ ToldInRows
  BY DEF LockInv, RowsInv
<1>5. /\ srv[n] \in Item /\ srv[n] # NoItem /\ srv[n].message = n /\ srv[n].gen = op[t].row.gen
      /\ Current(op[t].row) /\ srv[n].folder = op[t].folder
  <2>1. srv[n] \in Item /\ srv[n] # NoItem /\ srv[n].message = n /\ srv[n].gen = op[t].row.gen /\ Current(op[t].row)
    BY <1>1, <1>2, <1>3 DEF StillThere, SameItem, Current
  <2> QED
    BY <2>1, <1>3, <1>4, CurrentFolder
<1>6. srv[n].gen \in Nat /\ op[t].row.gen \in Nat
  BY <1>3, <1>5, ItemFields
<1>7. /\ srv'[n] = moved /\ \A w \in Messages \ {n} : srv'[w] = srv[w]
      /\ moved.gen = op[t].row.gen + 1 /\ moved.message = n /\ moved.folder = op[t].to
  <2>1. srv' = [srv EXCEPT ![n] = moved]
    BY <1>1, <1>2, <1>3
  <2>2. moved.gen = srv[n].gen + 1 /\ moved.message = n /\ moved.folder = op[t].to
    BY <1>5 DEF Item
  <2> HIDE DEF moved
  <2> QED
    BY <1>2, <1>3, <1>5, <2>1, <2>2
<1> HIDE DEF moved
<1>8. /\ new.pc = "commit" /\ new.kind = "move" /\ new.row = op[t].row /\ new.id = op[t].id
      /\ new.put = {} /\ new.del = {} /\ new.to = op[t].to
  BY <1>1, <1>2, <1>3 DEF Operation
<1> HIDE DEF new
<1>9. op'[t] = new /\ \A u \in Threads \ {t} : op'[u] = op[u]
  BY <1>1, <1>2
<1>10. \A i : Known(i)' <=> Known(i)
  BY <1>1, <1>8, <1>9 DEF Known
<1>11. \A i \in Item : Known(i) /\ i.message = n => i.gen \in Nat /\ i.gen <= op[t].row.gen
  BY <1>4, <1>5, ItemFields DEF KnownIsPast
<1>12. KnownIsPast'
  <2>1. \A w \in Messages : srv'[w] # NoItem => srv'[w].message = w
    BY <1>4, <1>7 DEF KnownIsPast
  <2>2. ASSUME NEW i \in Item, Known(i)', srv'[i.message] # NoItem
        PROVE  /\ i.gen <= srv'[i.message].gen
               /\ i.gen = srv'[i.message].gen => i.folder = srv'[i.message].folder
    <3>1. CASE i.message = n
      BY <2>2, <3>1, <1>6, <1>7, <1>10, <1>11
    <3>2. CASE i.message # n
      BY <2>2, <3>2, <1>4, <1>7, <1>10, ItemFields DEF KnownIsPast
    <3> QED
      BY <3>1, <3>2
  <2> QED
    BY <2>1, <2>2 DEF KnownIsPast
<1>13. \A i : Known(i) /\ Current(i)' => Current(i) /\ i.message # n
  <2> SUFFICES ASSUME NEW i, Known(i), Current(i)' PROVE Current(i) /\ i.message # n
    OBVIOUS
  <2>1. i \in Item /\ i.message \in Messages
    BY <1>4, KnownTypes, ItemFields
  <2>2. i.message # n
    BY <2>1, <1>6, <1>7, <1>11 DEF Current, SameItem
  <2> QED
    BY <2>1, <2>2, <1>7 DEF Current
<1>14. EmailsNamed'
  BY <1>1, <1>4, <1>8, <1>9 DEF EmailsNamed
<1>15. OneTold' /\ OneRow'
  BY <1>1 DEF RowsInv, OneTold, OneRow, Holding
<1>16. \A u \in Threads \ {t} : Moving(u) => op[u].row.message # n
  <2> SUFFICES ASSUME NEW u \in Threads \ {t}, Moving(u), op[u].row.message = n PROVE FALSE
    OBVIOUS
  <2>1. MoveAhead!(u)!2
    BY <1>4 DEF MoveAhead
  <2>2. op[u].row \in Item /\ op[u].row.gen \in Nat
    BY <1>4, KnownTypes, ItemFields DEF LockInv, RowInHand, Moving
  <2>3. op[t].row.gen <= op[u].row.gen /\ srv[n].gen = op[u].row.gen + 1
    BY <2>1, <1>3, <1>5
  <2> QED
    BY <2>2, <2>3, <1>5, <1>6
<1>17. MoveAhead'
  <2> SUFFICES ASSUME NEW u \in Threads, Moving(u)' PROVE MoveAhead!(u)!2'
    BY DEF MoveAhead
  <2>1. CASE u = t
    BY <2>1, <1>7, <1>8, <1>9, <1>10, <1>11, <1>16 DEF Moving
  <2>2. CASE u # t
    <3>1. Moving(u) /\ op'[u] = op[u] /\ MoveAhead!(u)!2
      BY <2>2, <1>4, <1>9 DEF Moving, MoveAhead
    <3>2. op[u].row.message # n /\ op[u].row.message \in Messages
      BY <2>2, <3>1, <1>4, <1>16, KnownTypes, ItemFields DEF LockInv, RowInHand, Moving
    <3>3. \A i \in Item : Known(i)' /\ i.message = op[u].row.message => i.gen <= op[u].row.gen
      BY <3>1, <1>10
    <3>4. srv'[op[u].row.message] = srv[op[u].row.message]
      BY <3>2, <1>7
    <3>5. \A v \in Threads : Moving(v)' /\ v # u => op'[v].row.message # op[u].row.message
      BY <3>1, <3>2, <1>8, <1>9 DEF Moving
    <3> QED
      BY <3>1, <3>3, <3>4, <3>5
  <2> QED
    BY <2>1, <2>2
<1>18. PageInHand'
  <2> SUFFICES ASSUME NEW u \in Threads PROVE PageInHand!(u)'
    BY DEF PageInHand
  <2>1. CASE u = t
    BY <2>1, <1>8, <1>9
  <2>2. CASE u # t
    <3>1. PageInHand!(u) /\ op'[u] = op[u]
      BY <2>2, <1>4, <1>9 DEF PageInHand
    <3>2. op[u].folder \in Folders /\ op[u].put \subseteq Item /\ op[u].del \subseteq Item
      BY <1>2, OperationFields
    <3>3. ASSUME NEW i \in op[u].put PROVE i.message # n
      <4> SUFFICES ASSUME i.message = n PROVE FALSE
        OBVIOUS
      <4>1. i \in told[op[u].folder] /\ Known(i) /\ i.folder = op[u].folder
        BY <3>1, <3>2, <1>4, KnownMembers DEF OneTold
      <4>2. Current(i)
        BY <3>1, <1>5 DEF Current
      <4>3. i.folder = op[t].folder
        BY <4>1, <4>2, <1>4, <1>5, CurrentFolder
      <4>4. op[u].pc = "commit" /\ op[u].folder = op[t].folder
        BY <3>1, <4>1, <4>3
      <4> QED
        BY <2>2, <4>4, <1>1, Alone
    <3>4. \A i \in op[u].put : srv'[i.message] = srv[i.message]
      BY <3>2, <3>3, <1>7, ItemFields
    <3>5. \A i \in op[u].del : srv'[i.message] # NoItem => i.gen < srv'[i.message].gen
      <4> SUFFICES ASSUME NEW i \in op[u].del, srv'[i.message] # NoItem PROVE i.gen < srv'[i.message].gen
        OBVIOUS
      <4>1. i.message \in Messages /\ i.gen \in Nat
        BY <3>2, ItemFields
      <4>2. CASE i.message = n
        BY <3>1, <4>1, <4>2, <1>5, <1>6, <1>7
      <4>3. CASE i.message # n
        BY <3>1, <4>1, <4>3, <1>7
      <4> QED
        BY <4>2, <4>3
    <3> QED
      BY <3>1, <3>4, <3>5, <1>1
  <2> QED
    BY <2>1, <2>2
<1>19. RecordInHand'
  <2> SUFFICES ASSUME NEW u \in Threads, op'[u].row # NoItem PROVE RecordInHand!(u)!2'
    BY DEF RecordInHand
  <2>1. op'[u].row = op[u].row /\ op'[u].id = op[u].id /\ RecordInHand!(u)!2 /\ Known(op[u].row)
    BY <1>4, <1>8, <1>9, KnownMembers DEF RecordInHand
  <2>2. CASE u # t
    <3>1. srv[op[u].row.message] = NoItem => srv'[op[u].row.message] = NoItem
      BY <2>1, <1>4, <1>5, <1>7, KnownTypes, ItemFields
    <3> QED
      BY <2>1, <2>2, <3>1, <1>1, <1>9, <1>13 DEF Holding
  <2>3. CASE u = t
    BY <2>1, <2>3, <1>1, <1>8, <1>9, <1>13 DEF Holding, Changing, Flags
  <2> QED
    BY <2>2, <2>3
<1>20. ToldInRows'
  <2> SUFFICES ASSUME NEW g \in Folders, NEW i \in told[g], Current(i)', ~Coming(i)'
               PROVE  \E id \in Holding(i) : id \notin overlapped => i.flags = rows[id].flags \cup Owed(id)'
    BY <1>1 DEF ToldInRows, Holding
  <2>1. Current(i) /\ ~Coming(i)
    BY <1>3, <1>4, <1>8, <1>9, <1>13, KnownMembers DEF Coming
  <2>2. PICK id \in Holding(i) : id \notin overlapped => i.flags = rows[id].flags \cup Owed(id)
    BY <1>4, <2>1 DEF ToldInRows
  <2>3. \A w \in Flags : \A u \in Threads : Owes(u, id, w)' <=> Owes(u, id, w)
    BY <1>1, <1>8, <1>9 DEF Owes, Flags
  <2>4. Owed(id)' = Owed(id)
    BY <2>3 DEF Owed
  <2> QED
    BY <2>2, <2>4
<1> QED
  BY <1>12, <1>14, <1>15, <1>17, <1>18, <1>19, <1>20 DEF RowsInv

-----------------------------------------------------------------------------
(* Writes *)

\* A row that is not in the history afterwards was written by nobody else while
\* a thread had it in hand, and not before either.
LEMMA NotOverlapped ==
    ASSUME NEW t \in Threads, NEW ids \in SUBSET Ids, Overlap(t, ids), NEW id \in Ids, id \notin overlapped'
    PROVE  /\ id \notin overlapped
           /\ id \in ids => \A u \in Threads \ {t} : op[u].row # NoItem => op[u].id # id
<1> QED
  BY DEF Overlap

\* Nobody but the writer owes a row that was written and not overlapped.
LEMMA NobodyOwes ==
    ASSUME NEW t \in Threads, NEW id,
           \A u \in Threads \ {t} : op'[u] = op[u] /\ (op[u].row # NoItem => op[u].id # id),
           \A k \in Flags : ~Owes(t, id, k)'
    PROVE  Owed(id)' = {}
<1>1. \A u \in Threads : \A k \in Flags : ~Owes(u, id, k)'
  BY DEF Owes
<1> QED
  BY <1>1 DEF Owed

LEMMA SyncCommitRows == ASSUME LockInv, RowsInv, NEW t \in Threads, SyncCommit(t) PROVE RowsInv'
<1> DEFINE f == op[t].folder
           again == [op[t] EXCEPT !.pc = "call", !.put = {}, !.del = {}]
           new == IF op[t].ok THEN Idle ELSE again
           W == PageRemoved(t) \cup {id \in Ids : PageItem(t, id) # {}}
<1>1. /\ srv' = srv /\ told' = told /\ op[t].pc = "commit" /\ op[t].kind \in {"sync", "ensure"}
      /\ op' = [op EXCEPT ![t] = new] /\ Overlap(t, W)
  BY SyncCommitIs
<1>2. /\ TypeOK' /\ op \in [Threads -> Operation] /\ op[t] \in Operation /\ f \in Folders
      /\ op[t].put \subseteq Item /\ op[t].del \subseteq Item
  BY SyncCommitLock, OperationFields DEF LockInv, TypeOK
<1>3. op[t].row = NoItem
  BY <1>1 DEF LockInv, RowInHand, Changing, Flags
<1>4. TypeOK /\ KnownIsPast /\ EmailsNamed /\ OneTold /\ MoveAhead /\ PageInHand /\ OneRow /\ RecordInHand /\ ToldInRows
  BY DEF LockInv, RowsInv
<1>5. again.pc = "call" /\ again.kind = op[t].kind /\ again.row = NoItem /\ again.put = {} /\ again.del = {}
  BY <1>2, <1>3 DEF Operation
<1> HIDE DEF again
<1>6. new.pc \in {"idle", "call"} /\ new.row = NoItem /\ new.put = {} /\ new.del = {} /\ new.kind # "move"
  BY <1>1, <1>5, IdleRecord
<1> HIDE DEF new
<1>7. op'[t] = new /\ \A u \in Threads \ {t} : op'[u] = op[u]
  BY <1>1, <1>2
<1>8. \A id \in Ids : rows'[id] = IF id \in PageRemoved(t) THEN NoItem
                                  ELSE IF PageItem(t, id) # {} THEN CHOOSE i \in PageItem(t, id) : TRUE
                                  ELSE rows[id]
  BY SyncCommitIs
<1>9. W \subseteq Ids
  BY DEF PageRemoved, Holding
<1>10. \A i \in op[t].put : i \in told[f] /\ i \in Item /\ i # NoItem /\ i.folder = f /\ Known(i)
  BY <1>2, <1>4, ItemFields, KnownMembers DEF PageInHand, OneTold
<1>11. \A i, j \in op[t].put : i.message = j.message => i = j
  BY <1>2, <1>4 DEF PageInHand, OneTold
\* The item an email gets from the page: the row's own, or the first under its name.
<1>12. ASSUME NEW id \in Ids, NEW i \in PageItem(t, id)
       PROVE  /\ i \in op[t].put /\ i.message = id[1]
              /\ \/ id \in Holding(i) /\ rows[id] # NoItem /\ SameItem(rows[id], i)
                 \/ Holding(i) = {} /\ id = <<i.message, i.gen>>
              /\ id[2] <= i.gen
  <2>1. i \in op[t].put /\ (id \in Holding(i) \/ (Holding(i) = {} /\ id = <<i.message, i.gen>>))
    BY DEF PageItem
  <2>2. CASE id \in Holding(i)
    BY <2>1, <2>2, <1>4 DEF Holding, SameItem, EmailsNamed
  <2>3. CASE Holding(i) = {} /\ id = <<i.message, i.gen>>
    <3>1. i.gen \in Nat
      BY <2>1, <1>2, ItemFields
    <3> QED
      BY <2>1, <2>3, <3>1
  <2> QED
    BY <2>1, <2>2, <2>3
<1>13. ASSUME NEW id \in Ids, rows'[id] # NoItem
       PROVE  \/ rows'[id] \in PageItem(t, id)
              \/ rows'[id] = rows[id] /\ PageItem(t, id) = {}
  BY <1>8, <1>13
<1>14. ASSUME NEW id \in Ids, NEW i \in PageItem(t, id), id \notin PageRemoved(t) PROVE rows'[id] = i
  <2>1. rows'[id] \in PageItem(t, id)
    BY <1>8, <1>14
  <2> QED
    BY <2>1, <1>11, <1>12
\* What is current is not removed.
<1>15. ASSUME NEW id \in Ids, NEW i \in Item, Current(i), i.message = id[1], id[2] <= i.gen,
              rows[id] # NoItem => SameItem(rows[id], i) \/ id = <<i.message, i.gen>>
       PROVE  id \notin PageRemoved(t)
  <2> SUFFICES ASSUME NEW d \in op[t].del, id \in Holding(d) PROVE FALSE
    BY DEF PageRemoved
  <2>1. rows[id] # NoItem /\ SameItem(rows[id], d) /\ d.message = id[1] /\ id[2] <= d.gen
    BY <1>4 DEF Holding, SameItem, EmailsNamed
  <2>2. d.gen < srv[i.message].gen /\ srv[i.message].gen = i.gen
    BY <2>1, <1>4, <1>15 DEF PageInHand, Current, SameItem
  <2>3. d.gen \in Nat /\ i.gen \in Nat
    BY <1>2, ItemFields
  <2>4. CASE SameItem(rows[id], i)
    BY <2>1, <2>2, <2>3, <2>4 DEF SameItem
  <2>5. CASE id = <<i.message, i.gen>>
    BY <2>1, <2>2, <2>3, <2>5
  <2> QED
    BY <2>1, <2>4, <2>5, <1>15
<1>16. \A i : Known(i)' => Known(i)
  <2> SUFFICES ASSUME NEW i, Known(i)' PROVE Known(i)
    OBVIOUS
  <2>1. CASE \E id \in Ids : i = rows'[id]
    <3>1. PICK id \in Ids : i = rows'[id] /\ i # NoItem
      BY <2>1 DEF Known
    <3>2. CASE i \in PageItem(t, id)
      BY <3>2, <1>10, <1>12
    <3>3. CASE i = rows[id]
      BY <3>1, <3>3 DEF Known
    <3> QED
      BY <3>1, <3>2, <3>3, <1>13
  <2>2. CASE (\E u \in Threads : i = op'[u].row) \/ (\E g \in Folders : i \in told'[g])
    BY <2>2, <1>1, <1>6, <1>7 DEF Known
  <2> QED
    BY <2>1, <2>2 DEF Known
<1>17. KnownIsPast' /\ MoveAhead'
  <2>1. \A i \in Item : Known(i)' => \E j \in Item : Known(j) /\ SamePlace(i, j)
    BY <1>16 DEF SamePlace
  <2>2. \A u \in Threads : Moving(u)' => Moving(u) /\ op'[u].row = op[u].row /\ op'[u].to = op[u].to
    BY <1>6, <1>7 DEF Moving
  <2>3. \A n \in Messages : SamePlace(srv'[n], srv[n]) /\ srv'[n] = srv[n]
    BY <1>1 DEF SamePlace
  <2> QED
    BY <1>2, <1>4, <2>1, <2>2, <2>3, NothingNew
<1>18. EmailsNamed'
  <2>1. \A id \in Ids : rows'[id] # NoItem => rows'[id].message = id[1] /\ id[2] <= rows'[id].gen
    BY <1>4, <1>12, <1>13 DEF EmailsNamed
  <2> QED
    BY <2>1, <1>4, <1>6, <1>7 DEF EmailsNamed
<1>19. OneTold' /\ PageInHand'
  BY <1>1, <1>4, <1>6, <1>7 DEF OneTold, PageInHand
<1>20. OneRow'
  <2> SUFFICES ASSUME NEW id \in Ids, NEW other \in Ids, rows'[id] # NoItem, other # id,
                      rows'[other] # NoItem, SameItem(rows'[other], rows'[id])
               PROVE  FALSE
    BY DEF OneRow, Holding
  <2> DEFINE i == rows'[id]
             j == rows'[other]
  <2>1. rows[id] # NoItem /\ rows[other] # NoItem => ~SameItem(rows[other], rows[id])
    BY <1>4 DEF OneRow, Holding
  <2>2. CASE i \in PageItem(t, id) /\ j \in PageItem(t, other)
    BY <2>1, <2>2, <1>12 DEF SameItem, Holding
  <2>3. CASE i \in PageItem(t, id) /\ j = rows[other]
    <3>1. other \in Holding(i)
      BY <2>3 DEF Holding
    <3> QED
      BY <2>1, <2>3, <3>1, <1>12 DEF SameItem
  <2>4. CASE i = rows[id] /\ j \in PageItem(t, other)
    <3>1. id \in Holding(j)
      BY <2>4 DEF Holding, SameItem
    <3> QED
      BY <2>1, <2>4, <3>1, <1>12 DEF SameItem
  <2>5. CASE i = rows[id] /\ j = rows[other]
    BY <2>1, <2>5
  <2> QED
    BY <2>2, <2>3, <2>4, <2>5, <1>13
<1>21. RecordInHand'
  <2> SUFFICES ASSUME NEW u \in Threads, op'[u].row # NoItem PROVE RecordInHand!(u)!2'
    BY DEF RecordInHand
  <2>1. u # t /\ op'[u] = op[u]
    BY <1>6, <1>7
  <2>2. RecordInHand!(u)!2 /\ op[u].id \in Ids /\ op[u].row \in Item /\ op[u].row.message = op[u].id[1]
    BY <2>1, <1>2, <1>4, OperationFields DEF RecordInHand, EmailsNamed
  <2>3. op[u].id \notin overlapped' => rows'[op[u].id] = op[u].row
    <3> SUFFICES ASSUME op[u].id \notin overlapped' PROVE rows'[op[u].id] = op[u].row
      OBVIOUS
    <3>1. op[u].id \notin overlapped /\ op[u].id \notin W
      BY <1>1, <1>9, <2>1, <2>2, NotOverlapped
    <3> QED
      BY <1>8, <2>2, <3>1
  <2>4. Current(op[u].row) => op[u].id \in Holding(op[u].row)'
    <3> SUFFICES ASSUME Current(op[u].row) PROVE op[u].id \in Holding(op[u].row)'
      OBVIOUS
    <3> DEFINE id == op[u].id
    <3>1. rows[id] # NoItem /\ SameItem(rows[id], op[u].row)
      BY <2>2 DEF Holding
    <3>2. id \notin PageRemoved(t)
      <4>1. id[2] <= op[u].row.gen
        BY <1>4, <2>2, <3>1 DEF EmailsNamed, SameItem
      <4> QED
        BY <1>15, <2>2, <3>1, <4>1
    <3>3. CASE PageItem(t, id) = {}
      BY <1>8, <2>1, <2>2, <3>1, <3>2, <3>3 DEF Holding
    <3>4. ASSUME NEW i \in PageItem(t, id) PROVE op[u].id \in Holding(op[u].row)'
      <4>1. rows'[id] = i /\ i \in op[t].put /\ i.message = id[1] /\ i # NoItem
        BY <1>10, <1>12, <1>14, <2>2, <3>2
      <4>2. SameItem(i, srv[i.message])
        BY <1>4, <2>2, <4>1 DEF PageInHand, Current
      <4>3. SameItem(i, op[u].row)
        BY <2>2, <4>1, <4>2 DEF Current, SameItem
      <4> QED
        BY <2>1, <2>2, <4>1, <4>3 DEF Holding
    <3> QED
      BY <3>3, <3>4
  <2> QED
    BY <1>1, <2>1, <2>2, <2>3, <2>4 DEF Current
<1>22. ToldInRows'
  <2> SUFFICES ASSUME NEW g \in Folders, NEW i \in told[g], Current(i), ~Coming(i)'
               PROVE  \E id \in Ids : /\ rows'[id] # NoItem /\ SameItem(rows'[id], i)
                                      /\ id \notin overlapped' => i.flags = rows'[id].flags \cup Owed(id)'
    BY <1>1 DEF ToldInRows, Holding, Current
  <2>1. i \in Item /\ Known(i) /\ i.folder = g
    BY <1>4, KnownMembers, KnownTypes DEF OneTold
  <2>2. ASSUME NEW id \in Ids, rows'[id] = i, id \in W
        PROVE  id \notin overlapped' => i.flags = rows'[id].flags \cup Owed(id)'
    <3> SUFFICES ASSUME id \notin overlapped' PROVE i.flags = rows'[id].flags \cup Owed(id)'
      OBVIOUS
    <3>1. \A u \in Threads \ {t} : op[u].row # NoItem => op[u].id # id
      BY <1>1, <1>9, <2>2, NotOverlapped
    <3>2. Owed(id)' = {}
      BY <1>6, <1>7, <3>1, NobodyOwes DEF Owes
    <3> QED
      BY <2>2, <3>2
  <2>3. CASE i \in op[t].put
    <3>1. \E id \in Ids : i \in PageItem(t, id)
      <4>1. CASE Holding(i) = {}
        BY <2>1, <2>3, <4>1, ItemFields DEF PageItem, Ids
      <4>2. CASE Holding(i) # {}
        BY <2>3, <4>2 DEF PageItem, Holding
      <4> QED
        BY <4>1, <4>2
    <3>2. PICK id \in Ids : i \in PageItem(t, id)
      BY <3>1
    <3>3. id \notin PageRemoved(t)
      BY <1>12, <1>15, <2>1, <3>2
    <3>4. rows'[id] = i /\ id \in W
      BY <1>14, <3>2, <3>3
    <3> QED
      BY <2>1, <2>2, <3>4, ItemFields DEF SameItem
  <2>4. CASE i \notin op[t].put
    <3>1. ~Coming(i)
      BY <2>4, <1>7 DEF Coming
    <3>2. PICK id \in Holding(i) : id \notin overlapped => i.flags = rows[id].flags \cup Owed(id)
      BY <1>4, <3>1 DEF ToldInRows
    <3>3. id \in Ids /\ rows[id] # NoItem /\ SameItem(rows[id], i) /\ i.message = id[1] /\ id[2] <= i.gen
      BY <3>2, <1>4 DEF Holding, SameItem, EmailsNamed
    <3>4. id \notin PageRemoved(t)
      BY <1>15, <2>1, <3>3
    <3>5. PageItem(t, id) = {}
      <4> SUFFICES ASSUME NEW j \in PageItem(t, id) PROVE FALSE
        OBVIOUS
      <4>1. /\ j \in op[t].put /\ j.message = i.message /\ j \in told[f] /\ Known(j) /\ j.folder = f
        BY <1>10, <1>12, <3>3
      <4>2. Current(j)
        BY <1>4, <4>1 DEF PageInHand, Current
      <4>3. f = g
        BY <1>4, <2>1, <4>1, <4>2, CurrentFolder
      <4>4. i = j
        BY <1>2, <1>4, <4>1, <4>3 DEF OneTold
      <4> QED
        BY <2>4, <4>1, <4>4
    <3>6. rows'[id] = rows[id]
      BY <1>8, <3>3, <3>4, <3>5
    <3>7. Owed(id)' = Owed(id)
      <4>1. \A k \in Flags : \A u \in Threads : Owes(u, id, k)' <=> Owes(u, id, k)
        BY <1>3, <1>6, <1>7 DEF Owes
      <4> QED
        BY <4>1 DEF Owed
    <3>8. id \notin overlapped' => id \notin overlapped
      BY <1>1, <1>9, <3>3, NotOverlapped
    <3> QED
      BY <3>2, <3>3, <3>6, <3>7, <3>8
  <2> QED
    BY <2>3, <2>4
<1> QED
  BY <1>17, <1>18, <1>19, <1>20, <1>21, <1>22 DEF RowsInv

\* The last write of an operation on the row it has in hand: what it may do to
\* one row, for the invariant to stay.
LEMMA WriteRow ==
    ASSUME LockInv, TypeOK', RowsInv, NEW t \in Threads, op[t].row # NoItem, NEW mine, mine = op[t].id,
           op[t].put = {}, op[t].del = {}, op' = [op EXCEPT ![t] = Idle],
           NEW new, rows' = [rows EXCEPT ![mine] = new],
           srv' = srv, told' = told, Overlap(t, {mine}),
           new # NoItem => /\ rows[mine] # NoItem
                           /\ new.message = mine[1] /\ mine[2] <= new.gen
                           /\ \A id \in Ids \ {mine} : rows[id] # NoItem => ~SameItem(rows[id], new),
           KnownIsPast', MoveAhead',
           ~Current(op[t].row) \/ (new # NoItem /\ SameItem(new, op[t].row)),
           \/ rows[mine] = NoItem \/ ~Current(rows[mine])
           \/ /\ new # NoItem /\ SameItem(new, rows[mine]) /\ op[t].kind \in Flags
              /\ op[t].pc = "write" /\ new.flags = op[t].row.flags \cup {op[t].kind}
    PROVE  RowsInv'
<1>1. TypeOK /\ KnownIsPast /\ EmailsNamed /\ OneTold /\ PageInHand /\ OneRow /\ RecordInHand /\ ToldInRows
  BY DEF LockInv, RowsInv
<1>2. mine \in Ids /\ op \in [Threads -> Operation] /\ rows \in [Ids -> Item \cup {NoItem}]
  BY <1>1, OperationFields DEF TypeOK
<1>3. op'[t] = Idle /\ \A u \in Threads \ {t} : op'[u] = op[u]
  BY <1>2
<1>4. rows'[mine] = new /\ \A id \in Ids \ {mine} : rows'[id] = rows[id]
  BY <1>2
<1>5. EmailsNamed'
  BY <1>1, <1>3, <1>4, IdleRecord DEF EmailsNamed
<1>6. OneTold' /\ PageInHand'
  BY <1>1, <1>3, IdleRecord DEF OneTold, PageInHand
<1>7. OneRow'
  <2> SUFFICES ASSUME NEW id \in Ids, NEW other \in Ids, rows'[id] # NoItem, other # id,
                      rows'[other] # NoItem, SameItem(rows'[other], rows'[id])
               PROVE  FALSE
    BY DEF OneRow, Holding
  <2>1. CASE id # mine /\ other # mine
    BY <2>1, <1>1, <1>4 DEF OneRow, Holding
  <2>2. CASE id = mine
    BY <2>2, <1>4
  <2>3. CASE other = mine
    BY <2>3, <1>4 DEF SameItem
  <2> QED
    BY <2>1, <2>2, <2>3
<1>8. RecordInHand'
  <2> SUFFICES ASSUME NEW u \in Threads, op'[u].row # NoItem PROVE RecordInHand!(u)!2'
    BY DEF RecordInHand
  <2>1. u # t /\ op'[u] = op[u] /\ RecordInHand!(u)!2 /\ op[u].id \in Ids
    BY <1>1, <1>2, <1>3, IdleRecord, OperationFields DEF RecordInHand
  <2>2. op[u].id \notin overlapped' => rows'[op[u].id] = op[u].row
    <3> SUFFICES ASSUME op[u].id \notin overlapped' PROVE rows'[op[u].id] = op[u].row
      OBVIOUS
    <3>1. op[u].id \notin overlapped /\ op[u].id # mine
      BY <1>2, <1>3, <2>1, NotOverlapped
    <3> QED
      BY <1>4, <2>1, <3>1
  <2>3. Current(op[u].row) => op[u].id \in Ids /\ rows'[op[u].id] # NoItem /\ SameItem(rows'[op[u].id], op[u].row)
    <3> SUFFICES ASSUME Current(op[u].row)
                 PROVE  rows'[op[u].id] # NoItem /\ SameItem(rows'[op[u].id], op[u].row)
      BY <2>1
    <3>1. rows[op[u].id] # NoItem /\ SameItem(rows[op[u].id], op[u].row)
      BY <2>1 DEF Holding
    <3>2. CASE op[u].id # mine
      BY <1>4, <2>1, <3>1, <3>2
    <3>3. CASE op[u].id = mine
      <4>1. Current(rows[mine])
        BY <3>1, <3>3 DEF Current, SameItem
      <4>2. new # NoItem /\ SameItem(new, rows[mine])
        BY <3>1, <3>3, <4>1
      <4> QED
        BY <1>4, <3>1, <3>3, <4>2 DEF SameItem
    <3> QED
      BY <3>2, <3>3
  <2> QED
    BY <2>1, <2>2, <2>3 DEF Current, Holding
<1>9. ToldInRows'
  <2> SUFFICES ASSUME NEW g \in Folders, NEW i \in told[g], Current(i), ~Coming(i)'
               PROVE  \E id \in Ids : /\ rows'[id] # NoItem /\ SameItem(rows'[id], i)
                                      /\ id \notin overlapped' => i.flags = rows'[id].flags \cup Owed(id)'
    BY DEF ToldInRows, Holding, Current
  <2>1. ~Coming(i)
    BY <1>3 DEF Coming
  <2>2. PICK id \in Holding(i) : id \notin overlapped => i.flags = rows[id].flags \cup Owed(id)
    BY <1>1, <2>1 DEF ToldInRows
  <2>3. id \in Ids /\ rows[id] # NoItem /\ SameItem(rows[id], i)
    BY <2>2 DEF Holding
  <2>4. id \notin overlapped' => id \notin overlapped
    BY <1>2, <2>3, NotOverlapped
  <2>5. CASE id # mine
    <3>1. \A k \in Flags : \A u \in Threads : Owes(u, id, k)' <=> Owes(u, id, k)
      BY <1>3, <2>5, IdleRecord DEF Owes
    <3>2. Owed(id)' = Owed(id)
      BY <3>1 DEF Owed
    <3> QED
      BY <1>4, <2>2, <2>3, <2>4, <2>5, <3>2
  <2>6. CASE id = mine
    <3>1. Current(rows[mine])
      BY <2>3, <2>6 DEF Current, SameItem
    <3>2. /\ new # NoItem /\ SameItem(new, rows[mine]) /\ op[t].kind \in Flags /\ op[t].pc = "write"
          /\ new.flags = op[t].row.flags \cup {op[t].kind}
      BY <2>3, <2>6, <3>1
    <3>3. rows'[mine] # NoItem /\ SameItem(rows'[mine], i)
      BY <1>4, <2>3, <2>6, <3>2 DEF SameItem
    <3>4. ASSUME mine \notin overlapped' PROVE i.flags = rows'[mine].flags \cup Owed(mine)'
      <4>1. \A u \in Threads \ {t} : op[u].row # NoItem => op[u].id # mine
        BY <1>2, <3>4, NotOverlapped
      <4>2. Owed(mine)' = {}
        <5>1. \A k \in Flags : ~Owes(t, mine, k)'
          BY <1>3, IdleRecord DEF Owes
        <5> QED
          BY <1>3, <4>1, <5>1, NobodyOwes
      <4>3. Owed(mine) = {op[t].kind}
        <5>1. \A k \in Flags : \A u \in Threads : Owes(u, mine, k) <=> (u = t /\ k = op[t].kind)
          BY <3>2, <4>1 DEF Owes
        <5> QED
          BY <3>2, <5>1 DEF Owed
      <4>4. rows[mine] = op[t].row
        BY <1>1, <2>4, <2>6, <3>4 DEF RecordInHand
      <4>5. i.flags = op[t].row.flags \cup {op[t].kind}
        BY <2>2, <2>4, <2>6, <3>4, <4>3, <4>4
      <4> QED
        BY <1>4, <3>2, <4>2, <4>5
    <3> QED
      BY <1>2, <3>3, <3>4
  <2> QED
    BY <2>5, <2>6
<1> QED
  BY <1>5, <1>6, <1>7, <1>8, <1>9 DEF RowsInv

LEMMA ChangeWriteRows == ASSUME LockInv, RowsInv, NEW t \in Threads, ChangeWrite(t) PROVE RowsInv'
<1> DEFINE mine == op[t].id
           upd == [rows[mine] EXCEPT !.flags = op[t].row.flags \cup {op[t].kind}]
           new == IF rows[mine] = NoItem \/ op[t].kind = "delete" THEN NoItem ELSE upd
<1>1. /\ srv' = srv /\ told' = told /\ op[t].pc = "write" /\ op' = [op EXCEPT ![t] = Idle]
      /\ rows' = [rows EXCEPT ![mine] = new] /\ Overlap(t, {mine})
  BY DEF ChangeWrite, server
<1>2. /\ TypeOK' /\ op \in [Threads -> Operation] /\ op[t] \in Operation /\ mine \in Ids
      /\ rows \in [Ids -> Item \cup {NoItem}]
  BY ChangeWriteLock, OperationFields DEF LockInv, TypeOK
<1>3. TypeOK /\ KnownIsPast /\ EmailsNamed /\ MoveAhead /\ PageInHand /\ OneRow /\ RecordInHand
  BY DEF LockInv, RowsInv
<1>4. op[t].kind \in Changing /\ op[t].row # NoItem /\ op[t].put = {} /\ op[t].del = {} /\ Known(op[t].row)
  BY <1>1, <1>3, KnownMembers DEF LockInv, RowInHand, PageInHand
<1>5. /\ op[t].row \in Item /\ op[t].row.message = mine[1]
      /\ rows[mine] # NoItem => rows[mine] \in Item /\ Known(rows[mine]) /\ rows[mine].message = mine[1]
                                /\ mine[2] <= rows[mine].gen
  BY <1>2, <1>3, <1>4, KnownTypes, KnownMembers DEF EmailsNamed
<1>6. new # NoItem => /\ rows[mine] # NoItem /\ op[t].kind \in Flags /\ SamePlace(new, rows[mine])
                      /\ SameItem(new, rows[mine]) /\ new.flags = op[t].row.flags \cup {op[t].kind}
  <2> SUFFICES ASSUME new # NoItem
               PROVE  /\ rows[mine] # NoItem /\ op[t].kind \in Flags /\ SamePlace(upd, rows[mine])
                      /\ SameItem(upd, rows[mine]) /\ upd.flags = op[t].row.flags \cup {op[t].kind}
    OBVIOUS
  <2>1. rows[mine] \in Item /\ rows[mine] # NoItem /\ op[t].kind \in Flags
    BY <1>4, <1>5 DEF Changing
  <2>2. /\ upd.message = rows[mine].message /\ upd.gen = rows[mine].gen /\ upd.folder = rows[mine].folder
        /\ upd.flags = op[t].row.flags \cup {op[t].kind}
    BY <2>1 DEF Item
  <2> HIDE DEF upd
  <2> QED
    BY <2>1, <2>2 DEF SamePlace, SameItem
<1>7. new = NoItem => rows[mine] = NoItem \/ op[t].kind = "delete"
  <2>1. rows[mine] # NoItem /\ op[t].kind # "delete" => upd \in Item
    <3>1. op[t].kind # "delete" => op[t].row.flags \cup {op[t].kind} \in SUBSET Flags
      BY <1>4, <1>5, ItemFields DEF Changing
    <3> QED
      BY <1>5, <3>1 DEF Item
  <2> QED
    BY <2>1, ItemFields
<1> HIDE DEF upd, new
<1>8. op'[t] = Idle /\ \A u \in Threads \ {t} : op'[u] = op[u]
  BY <1>1, <1>2
<1>9. rows'[mine] = new /\ \A id \in Ids \ {mine} : rows'[id] = rows[id]
  BY <1>1, <1>2
<1>10. KnownIsPast' /\ MoveAhead'
  <2>1. \A i \in Item : Known(i)' => \E j \in Item : Known(j) /\ SamePlace(i, j)
    <3> SUFFICES ASSUME NEW i \in Item, Known(i)' PROVE \E j \in Item : Known(j) /\ SamePlace(i, j)
      OBVIOUS
    <3>1. CASE i = new
      BY <3>1, <1>5, <1>6 DEF Known
    <3>2. CASE i # new
      <4>1. Known(i)
        BY <3>2, <1>1, <1>8, <1>9, IdleRecord DEF Known
      <4> QED
        BY <4>1 DEF SamePlace
    <3> QED
      BY <3>1, <3>2
  <2>2. \A u \in Threads : Moving(u)' => Moving(u) /\ op'[u].row = op[u].row /\ op'[u].to = op[u].to
    BY <1>8, IdleRecord DEF Moving
  <2>3. \A n \in Messages : SamePlace(srv'[n], srv[n]) /\ srv'[n] = srv[n]
    BY <1>1 DEF SamePlace
  <2> QED
    BY <1>2, <1>3, <2>1, <2>2, <2>3, NothingNew
<1>11. op[t].kind = "delete" => ~Current(op[t].row) /\ (rows[mine] # NoItem => ~Current(rows[mine]))
  <2>1. op[t].kind = "delete" => srv[op[t].row.message] = NoItem
    BY <1>1, <1>3, <1>4 DEF LockInv, RowInHand, RecordInHand
  <2> QED
    BY <2>1, <1>5 DEF Current
<1>12. ~Current(op[t].row) \/ (new # NoItem /\ SameItem(new, op[t].row))
  <2> SUFFICES ASSUME Current(op[t].row) PROVE new # NoItem /\ SameItem(new, op[t].row)
    OBVIOUS
  <2>1. rows[mine] # NoItem /\ SameItem(rows[mine], op[t].row)
    BY <1>3, <1>4 DEF RecordInHand, Holding
  <2>2. new # NoItem
    BY <1>7, <1>11, <2>1
  <2> QED
    BY <1>6, <2>1, <2>2 DEF SameItem
<1>13. \/ rows[mine] = NoItem \/ ~Current(rows[mine])
       \/ /\ new # NoItem /\ SameItem(new, rows[mine]) /\ op[t].kind \in Flags
          /\ op[t].pc = "write" /\ new.flags = op[t].row.flags \cup {op[t].kind}
  BY <1>1, <1>6, <1>7, <1>11
<1>14. new # NoItem => /\ rows[mine] # NoItem /\ new.message = mine[1] /\ mine[2] <= new.gen
                       /\ \A id \in Ids \ {mine} : rows[id] # NoItem => ~SameItem(rows[id], new)
  <2> SUFFICES ASSUME new # NoItem
               PROVE  /\ rows[mine] # NoItem /\ new.message = mine[1] /\ mine[2] <= new.gen
                      /\ \A id \in Ids \ {mine} : rows[id] # NoItem => ~SameItem(rows[id], new)
    OBVIOUS
  <2>1. \A id \in Ids \ {mine} : rows[id] # NoItem => ~SameItem(rows[id], rows[mine])
    BY <1>2, <1>3, <1>6 DEF OneRow, Holding
  <2> QED
    BY <1>5, <1>6, <2>1 DEF SameItem
<1> QED
  BY <1>1, <1>2, <1>4, <1>10, <1>12, <1>13, <1>14, WriteRow

LEMMA MoveCommitRows == ASSUME LockInv, RowsInv, NEW t \in Threads, MoveCommit(t) PROVE RowsInv'
<1> DEFINE mine == op[t].id
           old == op[t].row
           upd == [rows[mine] EXCEPT !.folder = op[t].to, !.gen = old.gen + 1]
           new == IF rows[mine] = NoItem THEN NoItem ELSE upd
<1>1. /\ srv' = srv /\ told' = told /\ Moving(t) /\ op[t].kind = "move" /\ op' = [op EXCEPT ![t] = Idle]
      /\ rows' = [rows EXCEPT ![mine] = new] /\ Overlap(t, {mine})
  BY DEF MoveCommit, server, Moving
<1>2. /\ TypeOK' /\ op \in [Threads -> Operation] /\ op[t] \in Operation /\ mine \in Ids
      /\ rows \in [Ids -> Item \cup {NoItem}]
  BY MoveCommitLock, OperationFields DEF LockInv, TypeOK
<1>3. TypeOK /\ KnownIsPast /\ EmailsNamed /\ MoveAhead /\ PageInHand /\ OneRow /\ RecordInHand
  BY DEF LockInv, RowsInv
<1>4. old # NoItem /\ op[t].put = {} /\ op[t].del = {} /\ Known(old)
  BY <1>1, <1>3, KnownMembers DEF LockInv, RowInHand, PageInHand
<1>5. /\ old \in Item /\ old.message = mine[1] /\ old.gen \in Nat
      /\ rows[mine] # NoItem => rows[mine] \in Item /\ Known(rows[mine]) /\ rows[mine].message = mine[1]
                                /\ mine[2] <= rows[mine].gen /\ rows[mine].gen \in Nat
  BY <1>2, <1>3, <1>4, KnownTypes, KnownMembers, ItemFields DEF EmailsNamed
<1>6. MoveAhead!(t)!2
  BY <1>1, <1>3 DEF MoveAhead
<1>7. new # NoItem => /\ rows[mine] # NoItem /\ new.message = old.message /\ new.gen = old.gen + 1
                      /\ new.folder = op[t].to
  <2> SUFFICES ASSUME rows[mine] # NoItem
               PROVE  upd.message = old.message /\ upd.gen = old.gen + 1 /\ upd.folder = op[t].to
    OBVIOUS
  <2> QED
    BY <1>5 DEF Item
<1> HIDE DEF upd, new
<1>8. op'[t] = Idle /\ \A u \in Threads \ {t} : op'[u] = op[u]
  BY <1>1, <1>2
<1>9. rows'[mine] = new /\ \A id \in Ids \ {mine} : rows'[id] = rows[id]
  BY <1>1, <1>2
<1>10. \A i : Known(i)' => Known(i) \/ i = new
  BY <1>1, <1>8, <1>9, IdleRecord DEF Known
<1>11. KnownIsPast'
  <2> SUFFICES ASSUME NEW i \in Item, Known(i)', srv[i.message] # NoItem
               PROVE  /\ i.gen <= srv[i.message].gen
                      /\ i.gen = srv[i.message].gen => i.folder = srv[i.message].folder
    BY <1>1, <1>3 DEF KnownIsPast
  <2>1. CASE Known(i)
    BY <2>1, <1>3 DEF KnownIsPast
  <2>2. CASE i = new
    BY <2>2, <1>5, <1>6, <1>7, ItemFields
  <2> QED
    BY <1>10, <2>1, <2>2
<1>12. MoveAhead'
  <2> SUFFICES ASSUME NEW u \in Threads, Moving(u)' PROVE MoveAhead!(u)!2'
    BY DEF MoveAhead
  <2>1. u # t /\ Moving(u) /\ op'[u] = op[u] /\ MoveAhead!(u)!2
    BY <1>3, <1>8, IdleRecord DEF Moving, MoveAhead
  <2>2. op[u].row.message # old.message
    BY <1>6, <2>1
  <2>3. \A i \in Item : Known(i)' /\ i.message = op[u].row.message => i.gen <= op[u].row.gen
    BY <1>7, <1>10, <2>1, <2>2, ItemFields
  <2>4. \A v \in Threads : Moving(v)' => Moving(v) /\ op'[v] = op[v]
    BY <1>8, IdleRecord DEF Moving
  <2> QED
    BY <1>1, <2>1, <2>3, <2>4
<1>13. ~Current(old) /\ (rows[mine] # NoItem => ~Current(rows[mine]))
  <2> SUFFICES ASSUME NEW i \in Item, Known(i), i.message = old.message, i.gen \in Nat, Current(i) PROVE FALSE
    BY <1>4, <1>5
  <2> QED
    BY <1>5, <1>6 DEF Current, SameItem
<1>14. new # NoItem => /\ rows[mine] # NoItem /\ new.message = mine[1] /\ mine[2] <= new.gen
                       /\ \A id \in Ids \ {mine} : rows[id] # NoItem => ~SameItem(rows[id], new)
  <2> SUFFICES ASSUME new # NoItem
               PROVE  /\ rows[mine] # NoItem /\ new.message = mine[1] /\ mine[2] <= new.gen
                      /\ \A id \in Ids \ {mine} : rows[id] # NoItem => ~SameItem(rows[id], new)
    OBVIOUS
  <2>1. rows[mine].gen <= old.gen /\ mine[2] \in Nat
    BY <1>2, <1>5, <1>6, <1>7, CoordinatorAssumption DEF Ids
  <2>2. ASSUME NEW id \in Ids \ {mine}, rows[id] # NoItem, SameItem(rows[id], new) PROVE FALSE
    <3>1. rows[id] \in Item /\ Known(rows[id]) /\ rows[id].gen \in Nat
      BY <1>3, <2>2, KnownTypes, KnownMembers, ItemFields
    <3>2. rows[id].gen <= old.gen /\ rows[id].gen = old.gen + 1
      BY <1>6, <1>7, <2>2, <3>1 DEF SameItem
    <3> QED
      BY <1>5, <3>1, <3>2
  <2> QED
    BY <1>5, <1>7, <2>1, <2>2
<1> QED
  BY <1>1, <1>2, <1>4, <1>11, <1>12, <1>13, <1>14, WriteRow

-----------------------------------------------------------------------------
(* The theorem *)

LEMMA InitRows == Init => RowsInv
<1> SUFFICES ASSUME Init PROVE RowsInv
  OBVIOUS
<1>1. PICK synced \in SUBSET Folders :
         LET known(f) == IF f \in synced THEN {m \in Messages : HomeOf[m] = f} ELSE {}
         IN  /\ srvKey = [f \in Folders |-> IF f \in synced THEN 1 ELSE 0]
             /\ stored = srvKey
             /\ told = [f \in Folders |-> {FirstItem(m) : m \in known(f)}]
             /\ rows = [id \in Ids |-> IF id[2] = 0 /\ HomeOf[id[1]] \in synced
                                       THEN FirstItem(id[1]) ELSE NoItem]
  BY DEF Init
<1>2. \A t \in Threads : op[t] = Idle
  BY DEF Init
<1>3. /\ \A n \in Messages : /\ srv[n] = FirstItem(n) /\ srv[n] # NoItem /\ FirstItem(n) \in Item
                             /\ FirstItem(n).message = n /\ FirstItem(n).gen = 0
                             /\ FirstItem(n).folder = HomeOf[n] /\ FirstItem(n).flags = {}
  BY FirstItemType, ItemFields DEF Init, FirstItem
<1>4. \A f \in Folders : \A i \in told[f] : \E n \in Messages : i = FirstItem(n) /\ HomeOf[n] = f /\ f \in synced
  BY <1>1
<1>5. /\ \A id \in Ids : id[1] \in Messages /\ id[2] \in 0..MaxMoves /\ id = <<id[1], id[2]>>
      /\ \A id \in Ids : rows[id] # NoItem => rows[id] = FirstItem(id[1]) /\ id[2] = 0 /\ HomeOf[id[1]] \in synced
  BY <1>1 DEF Ids
<1>6. ASSUME NEW i, Known(i) PROVE \E n \in Messages : i = FirstItem(n)
  <2>1. \A t \in Threads : op[t].row = NoItem
    BY <1>2, IdleRecord
  <2> QED
    BY <2>1, <1>4, <1>5, <1>6 DEF Known
<1>7. KnownIsPast
  <2>1. \A i \in Item : Known(i) => srv[i.message] = i
    BY <1>3, <1>6
  <2> QED
    BY <1>3, <2>1, ItemFields DEF KnownIsPast
<1>8. EmailsNamed
  BY <1>2, <1>3, <1>5, IdleRecord DEF EmailsNamed
<1>9. OneTold
  BY <1>3, <1>4 DEF OneTold
<1>10. MoveAhead /\ RecordInHand
  BY <1>2, IdleRecord DEF MoveAhead, Moving, RecordInHand
<1>11. PageInHand
  BY <1>2, IdleRecord DEF PageInHand
<1>12. OneRow
  <2> SUFFICES ASSUME NEW id \in Ids, NEW other \in Ids, rows[id] # NoItem, rows[other] # NoItem,
                      SameItem(rows[other], rows[id])
               PROVE  other = id
    BY DEF OneRow, Holding
  <2>1. id[1] = other[1] /\ id[2] = other[2]
    BY <1>3, <1>5 DEF SameItem
  <2> QED
    BY <1>5, <2>1
<1>13. ToldInRows
  <2> SUFFICES ASSUME NEW f \in Folders, NEW i \in told[f]
               PROVE  \E id \in Holding(i) : id \notin overlapped => i.flags = rows[id].flags \cup Owed(id)
    BY DEF ToldInRows
  <2>1. PICK n \in Messages : i = FirstItem(n) /\ HomeOf[n] = f /\ f \in synced
    BY <1>4
  <2> DEFINE id == <<n, 0>>
  <2>2. id \in Ids
    BY CoordinatorAssumption DEF Ids
  <2>3. rows[id] = i /\ i # NoItem
    BY <1>1, <1>3, <2>1, <2>2
  <2>4. Owed(id) = {}
    BY <1>2, IdleRecord DEF Owed, Owes
  <2> HIDE DEF id
  <2>5. id \in Holding(i)
    BY <2>2, <2>3 DEF Holding, SameItem
  <2> QED
    BY <2>3, <2>4, <2>5
<1> QED
  BY <1>7, <1>8, <1>9, <1>10, <1>11, <1>12, <1>13 DEF RowsInv

LEMMA NextRows == ASSUME LockInv, RowsInv, [Next]_vars PROVE RowsInv'
<1>1. CASE Remote
  BY <1>1, RemoteRows
<1>2. ASSUME NEW f \in Folders, Expire(f) PROVE RowsInv'
  BY <1>2, ExpireRows
<1>3. ASSUME NEW t \in Threads, Start(t) \/ Step(t) PROVE RowsInv'
  BY <1>3, StartRows, AcquireRows, FailsRows, SyncCallRows, ChangeCallRows, MoveCallRows,
     SyncCommitRows, ChangeCommitRows, ChangeWriteRows, MoveCommitRows DEF Step
<1>4. CASE UNCHANGED vars
  BY <1>4, StutterRows
<1> QED
  BY <1>1, <1>2, <1>3, <1>4 DEF Next

LEMMA AlwaysRows == Spec => [](LockInv /\ RowsInv)
<1>1. Init => LockInv /\ RowsInv
  BY InitLock, InitRows
<1>2. LockInv /\ RowsInv /\ [Next]_vars => (LockInv /\ RowsInv)'
  BY NextLockInv, NextRows
<1> QED
  BY <1>1, <1>2, PTL DEF Spec

-----------------------------------------------------------------------------
(* Under the command_lock *)

\* Only a thread that is in the coordinator goes on in it, and it enters an
\* empty one: so nobody writes what another has in hand.
LEMMA OneStep ==
    ASSUME LockInv, OneAtATime, NEW t \in Threads, Start(t) \/ Step(t)
    PROVE  OneAtATime'
<1> SUFFICES ASSUME serialized' PROVE overlapped' = {} /\ \A u, v \in Threads : u # v => op'[u] = Idle \/ op'[v] = Idle
  BY DEF OneAtATime
<1>1. serialized /\ op \in [Threads -> Operation]
  <2>1. serialized' = serialized
    BY DEF Start, Step, StartSync, StartEnsure, StartChange, StartMove, Begin, Acquire, Take, Fails,
           SyncCall, ChangeCall, MoveCall, Called, SyncCommit, ChangeCommit, ChangeWrite, MoveCommit
  <2> QED
    BY <2>1 DEF LockInv, TypeOK
<1>2. overlapped = {} /\ \A u, v \in Threads : u # v => op[u] = Idle \/ op[v] = Idle
  BY <1>1 DEF OneAtATime
<1>3. \A u \in Threads \ {t} : op[u] = Idle
  <2>1. CASE Start(t)
    <3>1. \E new : Begin(t, new)
      BY <2>1 DEF Start, StartSync, StartEnsure, StartChange, StartMove
    <3> QED
      BY <3>1, <1>1, IdleRecord DEF Begin, Admitted
  <2>2. CASE Step(t)
    <3>1. op[t] # Idle
      BY <2>2, IdleRecord DEF Step, Acquire, Take, Fails, SyncCall, ChangeCall, MoveCall, Calls,
                              SyncCommit, ChangeCommit, ChangeWrite, MoveCommit
    <3> QED
      BY <1>2, <3>1
  <2> QED
    BY <2>1, <2>2
<1>4. \E new : op' = [op EXCEPT ![t] = new]
  <2>1. CASE Start(t)
    BY <2>1 DEF Start, StartSync, StartEnsure, StartChange, StartMove, Begin
  <2>2. CASE Step(t)
    <3>1. ASSUME SyncCommit(t) PROVE \E new : op' = [op EXCEPT ![t] = new]
      <4>1. op' = [op EXCEPT ![t] = IF op[t].ok THEN Idle ELSE [op[t] EXCEPT !.pc = "call", !.put = {}, !.del = {}]]
        BY <3>1, SyncCommitIs
      <4> QED
        BY <4>1
    <3> QED
      BY <2>2, <3>1 DEF Step, Acquire, Take, Fails, SyncCall, ChangeCall, MoveCall,
                        ChangeCommit, ChangeWrite, MoveCommit
  <2> QED
    BY <2>1, <2>2
<1>5. \A u \in Threads \ {t} : op'[u] = Idle
  BY <1>1, <1>3, <1>4
<1>6. overlapped' = {}
  <2>1. ASSUME NEW ids, Overlap(t, ids) PROVE overlapped' = {}
    BY <2>1, <1>2, <1>3, IdleRecord DEF Overlap
  <2>2. overlapped' = overlapped \/ \E ids : Overlap(t, ids)
    BY SyncCommitIs DEF Start, Step, StartSync, StartEnsure, StartChange, StartMove, Begin, Acquire, Take, Fails,
           SyncCall, ChangeCall, MoveCall, Called, ChangeCommit, ChangeWrite, MoveCommit
  <2> QED
    BY <1>2, <2>1, <2>2
<1> QED
  BY <1>5, <1>6

LEMMA NextOne == ASSUME LockInv, OneAtATime, [Next]_vars PROVE OneAtATime'
<1>1. CASE Remote \/ (\E f \in Folders : Expire(f)) \/ UNCHANGED vars
  <2>1. serialized' = serialized /\ overlapped' = overlapped /\ op' = op
    BY <1>1 DEF Remote, Expire, vars
  <2> QED
    BY <2>1 DEF OneAtATime
<1>2. ASSUME NEW t \in Threads, Start(t) \/ Step(t) PROVE OneAtATime'
  BY <1>2, OneStep
<1> QED
  BY <1>1, <1>2 DEF Next

\* One message is one email, under the flags the server believes we know: for
\* any number of threads, folders and moves, except for rows written by one
\* thread while another had read them; and the application's command_lock
\* leaves no such row (sync.py:259, 289; app.py:162).
THEOREM RowsAlwaysAgree == Spec => []RowsAgree
<1>1. Init => OneAtATime
  BY DEF Init, OneAtATime
<1>2. LockInv /\ OneAtATime /\ [Next]_vars => OneAtATime'
  BY NextOne
<1>3. LockInv /\ RowsInv /\ OneAtATime => RowsAgree
  <2> SUFFICES ASSUME LockInv, RowsInv, OneAtATime PROVE RowsAgree
    OBVIOUS
  <2>1. TypeOK /\ KnownIsPast /\ PageInHand /\ OneRow /\ OneTold /\ RecordInHand /\ ToldInRows
    BY DEF LockInv, RowsInv
  <2>2. ASSUME NEW f \in Folders, NEW i \in told[f], lock[f] = NoThread, NEW j \in Contents(f), SameItem(i, j)
        PROVE  \E id \in Holding(i) : AtRest(id) => rows[id] = i
    <3>1. i \in Item /\ Known(i) /\ i.folder = f
      BY <2>1, KnownTypes, KnownMembers DEF OneTold
    <3>2. Current(i)
      BY <2>1, <2>2 DEF Contents, Current, SameItem, KnownIsPast
    <3>3. ~Coming(i)
      <4> SUFFICES ASSUME NEW t \in Threads, i \in op[t].put PROVE FALSE
        BY DEF Coming
      <4>1. op[t].pc = "commit" /\ i \in told[op[t].folder] /\ op[t].folder \in Folders
        BY <2>1, OperationFields DEF PageInHand, TypeOK
      <4>2. op[t].folder = f
        BY <2>1, <3>1, <4>1 DEF OneTold
      <4> QED
        BY <2>2, <4>1, <4>2, CoordinatorAssumption DEF LockInv, LocksHeld
    <3>4. PICK id \in Holding(i) : id \notin overlapped => i.flags = rows[id].flags \cup Owed(id)
      BY <2>1, <3>2, <3>3 DEF ToldInRows
    <3>5. ASSUME AtRest(id) PROVE rows[id] = i
      <4>1. id \in Ids /\ rows[id] # NoItem /\ SameItem(rows[id], i)
        BY <3>4 DEF Holding
      <4>2. Owed(id) = {} /\ id \notin overlapped
        BY <3>5 DEF AtRest, Owed, Owes
      <4>3. rows[id] \in Item /\ Known(rows[id]) /\ Current(rows[id])
        BY <2>1, <3>2, <4>1, KnownTypes, KnownMembers DEF Current, SameItem
      <4>4. rows[id].folder = i.folder
        BY <2>1, <3>1, <3>2, <4>1, <4>3, CurrentFolder DEF SameItem
      <4> QED
        BY <3>1, <3>4, <4>1, <4>2, <4>3, <4>4 DEF SameItem, Item
    <3> QED
      BY <3>4, <3>5
  <2> QED
    BY <2>1, <2>2 DEF RowsAgree, OneAtATime, OneRow
<1> QED
  BY <1>1, <1>2, <1>3, AlwaysRows, PTL DEF Spec
=============================================================================
