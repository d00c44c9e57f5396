--------------------------- MODULE CoordinatorProofs ---------------------------
(***************************************************************************)
(* Proofs about Coordinator, for any threads, folders and messages: no two *)
(* threads work from one key, the freshness window is stamped by exactly   *)
(* one successful sync, and under the application's command_lock the rows  *)
(* agree with what the server believes we know.                            *)
(***************************************************************************)
EXTENDS Coordinator, TLAPS

-----------------------------------------------------------------------------
(* Locks, keys and the window *)

\* A thread that asks for locks has the ones it does not ask for any more; from
\* its call to its commit it has them all.
LocksHeld ==
    \A t \in Threads :
        /\ op[t].pc = "idle" => op[t] = Idle
        /\ op[t].pc = "lock" =>
              \/ op[t].need = <<op[t].folder>> /\ (op[t].kind = "move" => lock[op[t].to] = t)
              \/ op[t].need = <<op[t].to>> /\ op[t].kind = "move" /\ lock[op[t].folder] = t
              \/ /\ op[t].need \in {<<op[t].folder, op[t].to>>, <<op[t].to, op[t].folder>>}
                 /\ op[t].kind = "move"
        /\ op[t].pc \in {"call", "commit"} =>
              lock[op[t].folder] = t /\ (op[t].kind = "move" => lock[op[t].to] = t)

Changing == Flags \cup {"delete"}

\* The record is there for the operations that name one.
RowInHand ==
    \A t \in Threads :
        /\ op[t].pc # "idle" => op[t].kind # "none"
        /\ op[t].row # NoItem <=> op[t].kind \in Changing \cup {"move"}
        /\ op[t].row # NoItem => op[t].folder = op[t].row.folder
        /\ op[t].kind = "move" /\ op[t].pc = "commit" => op[t].row.gen < MaxMoves
        /\ op[t].pc = "write" => op[t].kind \in Changing /\ op[t].ok

\* Only the holder of a folder's lock is ahead of, or behind, the folder's key.
KeyInHand ==
    /\ \A t \in Threads : op[t].kind # "move" =>
          /\ op[t].pc = "call" => op[t].key = srvKey[op[t].folder] /\ stored[op[t].folder] = op[t].key
          /\ op[t].pc = "commit" => op[t].key = srvKey[op[t].folder]
    /\ \A f \in Folders :
          stored[f] # srvKey[f] =>
              \E t \in Threads : op[t].kind # "move" /\ op[t].pc = "commit" /\ op[t].folder = f

\* Who ensures a folder got its lock while the folder was not fresh.
EnsuredOnce ==
    \A t \in Threads : op[t].kind = "ensure" /\ op[t].pc \in {"call", "commit"} => op[t].folder \notin fresh

LockInv == TypeOK /\ LocksHeld /\ RowInHand /\ KeyInHand /\ EnsuredOnce /\ FreshIsEarned

LEMMA AnyInFolders == AnyFolder \in Folders /\ AnyId \in Ids
<1>1. Folders # {} /\ Messages # {} /\ 0 \in 0..MaxMoves
  BY CoordinatorAssumption
<1>2. AnyFolder \in Folders
  BY <1>1 DEF AnyFolder
<1>3. Ids # {}
  <2>1. PICK m \in Messages : TRUE
    BY <1>1
  <2>2. <<m, 0>> \in Ids
    BY <2>1, <1>1 DEF Ids
  <2> QED
    BY <2>2
<1> QED
  BY <1>2, <1>3 DEF AnyId

\* What an idle thread's record is.
LEMMA IdleRecord ==
    /\ Idle \in Operation
    /\ Idle.kind = "none" /\ Idle.pc = "idle" /\ Idle.need = <<>> /\ Idle.row = NoItem
    /\ Idle.key = 0 /\ Idle.put = {} /\ Idle.del = {} /\ Idle.ok = FALSE
<1> QED
  BY AnyInFolders DEF Idle, Operation

LEMMA SomeLocks ==
    ASSUME NEW f \in Folders, NEW g \in Folders
    PROVE  <<f>> \in Seq(Folders) /\ <<f, g>> \in Seq(Folders)
<1> QED
  OBVIOUS

\* The types of an operation's fields.
LEMMA OperationFields ==
    ASSUME NEW o \in Operation
    PROVE  /\ o.kind \in {"none", "sync", "ensure", "seen", "flagged", "delete", "move"}
           /\ o.pc \in {"idle", "lock", "call", "commit", "write"}
           /\ o.need \in Seq(Folders) /\ o.folder \in Folders /\ o.key \in Nat /\ o.id \in Ids
           /\ o.row \in Item \cup {NoItem} /\ o.to \in Folders
           /\ o.put \in SUBSET Item /\ o.del \in SUBSET Item /\ o.ok \in BOOLEAN
<1> QED
  BY DEF Operation

LEMMA ItemFields ==
    ASSUME NEW i \in Item
    PROVE  /\ i.message \in Messages /\ i.gen \in 0..MaxMoves /\ i.gen \in Nat
           /\ i.folder \in Folders /\ i.flags \in SUBSET Flags
           /\ i # NoItem
<1> QED
  BY NoItemAssumption, CoordinatorAssumption DEF Item

LEMMA FirstItemType == ASSUME NEW n \in Messages PROVE FirstItem(n) \in Item
<1>1. HomeOf[n] \in Folders /\ 0 \in 0..MaxMoves
  BY CoordinatorAssumption
<1> QED
  BY <1>1 DEF FirstItem, Item

LEMMA InitLock == Init => LockInv
<1> SUFFICES ASSUME Init PROVE LockInv
  OBVIOUS
<1>1. TypeOK
  <2>1. PICK synced \in SUBSET Folders :
           LET known(f) == IF f \in synced THEN {m \in Messages : HomeOf[m] = f} ELSE {}
           IN  /\ srvKey = [f \in Folders |-> IF f \in synced THEN 1 ELSE 0]
               /\ stored = srvKey
               /\ told = [f \in Folders |-> {FirstItem(m) : m \in known(f)}]
               /\ rows = [id \in Ids |-> IF id[2] = 0 /\ HomeOf[id[1]] \in synced
                                         THEN FirstItem(id[1]) ELSE NoItem]
    BY DEF Init
  <2>2. srvKey \in [Folders -> Nat] /\ stored \in [Folders -> Nat]
    BY <2>1
  <2>3. told \in [Folders -> SUBSET Item]
    BY <2>1, FirstItemType
  <2>4. rows \in [Ids -> Item \cup {NoItem}]
    BY <2>1, FirstItemType DEF Ids
  <2>5. srv \in [Messages -> Item \cup {NoItem}]
    BY FirstItemType DEF Init
  <2>6. op \in [Threads -> Operation]
    BY IdleRecord DEF Init
  <2>7. spent \in [calls : 0..MaxCalls, remote : 0..MaxRemote, faults : 0..MaxFaults]
    BY CoordinatorAssumption DEF Init
  <2>8. /\ lock \in [Folders -> Threads \cup {NoThread}] /\ fresh \in SUBSET Folders
        /\ earned \in [Folders -> 0..1] /\ overlapped \in SUBSET Ids /\ serialized \in BOOLEAN
    BY DEF Init
  <2> QED
    BY <2>2, <2>3, <2>4, <2>5, <2>6, <2>7, <2>8 DEF TypeOK
<1>2. \A t \in Threads : op[t] = Idle
  BY DEF Init
<1>3. LocksHeld /\ EnsuredOnce
  BY <1>2, IdleRecord DEF LocksHeld, EnsuredOnce
<1>4. RowInHand
  BY <1>2, IdleRecord DEF RowInHand, Changing, Flags
<1>5. KeyInHand
  <2>1. stored = srvKey
    BY DEF Init
  <2> QED
    BY <1>2, <2>1, IdleRecord DEF KeyInHand
<1>6. FreshIsEarned
  BY DEF Init, FreshIsEarned
<1> QED
  BY <1>1, <1>3, <1>4, <1>5, <1>6 DEF LockInv

\* Another client's change, and the window passing, touch none of this.
LEMMA RemoteLock == ASSUME LockInv, Remote PROVE LockInv'
<1>1. /\ serialized' = serialized /\ srvKey' = srvKey /\ told' = told /\ stored' = stored /\ rows' = rows
      /\ lock' = lock /\ fresh' = fresh /\ op' = op /\ earned' = earned /\ overlapped' = overlapped
  BY DEF Remote, store
<1>2. TypeOK'
  <2>1. srv' \in [Messages -> Item \cup {NoItem}]
    <3>1. PICK m \in Messages :
             /\ srv[m] # NoItem
             /\ \/ srv' = [srv EXCEPT ![m] = NoItem]
                \/ \E flag \in Flags : srv' = [srv EXCEPT ![m].flags = (@ \ {flag}) \cup ({flag} \ @)]
      BY DEF Remote
    <3>2. srv \in [Messages -> Item \cup {NoItem}] /\ srv[m] \in Item
      BY <3>1 DEF LockInv, TypeOK
    <3>3. ASSUME NEW flag \in Flags
          PROVE  [srv[m] EXCEPT !.flags = (@ \ {flag}) \cup ({flag} \ @)] \in Item
      BY <3>2 DEF Item
    <3> QED
      BY <3>1, <3>2, <3>3
  <2>2. spent' \in [calls : 0..MaxCalls, remote : 0..MaxRemote, faults : 0..MaxFaults]
    BY CoordinatorAssumption DEF LockInv, TypeOK, Remote
  <2> QED
    BY <1>1, <2>1, <2>2 DEF LockInv, TypeOK
<1>3. LocksHeld' /\ RowInHand' /\ EnsuredOnce' /\ FreshIsEarned'
  BY <1>1 DEF LockInv, LocksHeld, RowInHand, EnsuredOnce, FreshIsEarned
<1>4. KeyInHand'
  BY <1>1 DEF LockInv, KeyInHand
<1> QED
  BY <1>2, <1>3, <1>4 DEF LockInv

LEMMA ExpireLock == ASSUME LockInv, NEW f \in Folders, Expire(f) PROVE LockInv'
<1>1. /\ serialized' = serialized /\ srv' = srv /\ srvKey' = srvKey /\ told' = told
      /\ stored' = stored /\ rows' = rows
      /\ lock' = lock /\ op' = op /\ overlapped' = overlapped /\ spent' = spent
      /\ f \in fresh /\ fresh' = fresh \ {f} /\ earned' = [earned EXCEPT ![f] = 0]
  BY DEF Expire, store, server
<1>2. TypeOK'
  BY <1>1 DEF LockInv, TypeOK
<1>3. LocksHeld' /\ RowInHand' /\ KeyInHand'
  BY <1>1 DEF LockInv, LocksHeld, RowInHand, KeyInHand
<1>4. EnsuredOnce' /\ FreshIsEarned'
  BY <1>1 DEF LockInv, TypeOK, EnsuredOnce, FreshIsEarned
<1> QED
  BY <1>2, <1>3, <1>4 DEF LockInv

\* An operation that begins asks for the locks of its folders and has none.
LEMMA BeginLock ==
    ASSUME LockInv, NEW t \in Threads, NEW new \in Operation, Begin(t, new),
           new.pc = "lock", new.kind # "none",
           new.row # NoItem <=> new.kind \in Changing \cup {"move"},
           new.row # NoItem => new.folder = new.row.folder,
           IF new.kind = "move" THEN new.need \in {<<new.folder, new.to>>, <<new.to, new.folder>>}
                                ELSE new.need = <<new.folder>>
    PROVE  LockInv'
<1>1. /\ serialized' = serialized /\ srv' = srv /\ srvKey' = srvKey /\ told' = told
      /\ stored' = stored /\ rows' = rows /\ lock' = lock /\ fresh' = fresh /\ earned' = earned
      /\ overlapped' = overlapped /\ op[t] = Idle
      /\ spent.calls < MaxCalls /\ spent' = [spent EXCEPT !.calls = @ + 1]
      /\ op' = [op EXCEPT ![t] = new]
  BY DEF Begin, Admitted, store, server
<1>2. op \in [Threads -> Operation]
  BY DEF LockInv, TypeOK
<1>3. op'[t] = new /\ \A u \in Threads : u # t => op'[u] = op[u]
  BY <1>1, <1>2
<1>4. TypeOK'
  <2>1. spent' \in [calls : 0..MaxCalls, remote : 0..MaxRemote, faults : 0..MaxFaults]
    BY <1>1, CoordinatorAssumption DEF LockInv, TypeOK
  <2>2. op' \in [Threads -> Operation]
    BY <1>1, <1>2
  <2> QED
    BY <1>1, <2>1, <2>2 DEF LockInv, TypeOK
<1>5. LocksHeld'
  BY <1>1, <1>3 DEF LockInv, LocksHeld
<1>6. RowInHand'
  BY <1>1, <1>3 DEF LockInv, RowInHand
<1>7. KeyInHand'
  BY <1>1, <1>3, IdleRecord DEF LockInv, KeyInHand
<1>8. EnsuredOnce' /\ FreshIsEarned'
  BY <1>1, <1>3 DEF LockInv, EnsuredOnce, FreshIsEarned
<1> QED
  BY <1>4, <1>5, <1>6, <1>7, <1>8 DEF LockInv

LEMMA StartLock == ASSUME LockInv, NEW t \in Threads, Start(t) PROVE LockInv'
<1>1. ASSUME NEW f \in Folders, StartSync(t, f) \/ StartEnsure(t, f) PROVE LockInv'
  <2>1. PICK kind \in {"sync", "ensure"} :
           Begin(t, [Idle EXCEPT !.kind = kind, !.pc = "lock", !.need = <<f>>, !.folder = f])
    BY <1>1 DEF StartSync, StartEnsure
  <2> DEFINE new == [Idle EXCEPT !.kind = kind, !.pc = "lock", !.need = <<f>>, !.folder = f]
  <2>2. new \in Operation
    BY IdleRecord, SomeLocks DEF Operation
  <2>3. new.pc = "lock" /\ new.kind = kind /\ new.row = NoItem /\ new.need = <<f>> /\ new.folder = f
    BY IdleRecord DEF Operation
  <2> HIDE DEF new
  <2>4. Begin(t, new)
    BY <2>1 DEF new
  <2> QED
    BY <2>2, <2>3, <2>4, BeginLock DEF Changing, Flags
<1>2. ASSUME NEW id \in Ids, NEW kind \in Changing, StartChange(t, kind, id) PROVE LockInv'
  <2> DEFINE new == [Idle EXCEPT !.kind = kind, !.pc = "lock", !.need = <<rows[id].folder>>,
                                 !.folder = rows[id].folder, !.id = id, !.row = rows[id]]
  <2>1. rows[id] \in Item /\ rows[id].folder \in Folders /\ rows[id] # NoItem /\ Begin(t, new)
    BY <1>2, ItemFields DEF StartChange, LockInv, TypeOK
  <2>2. new \in Operation
    BY <2>1, IdleRecord, SomeLocks DEF Operation, Changing, Flags
  <2>3. /\ new.pc = "lock" /\ new.kind = kind /\ new.row = rows[id] /\ new.need = <<rows[id].folder>>
        /\ new.folder = rows[id].folder
    BY IdleRecord DEF Operation
  <2> HIDE DEF new
  <2> QED
    BY <2>1, <2>2, <2>3, BeginLock DEF Changing, Flags
<1>3. ASSUME NEW id \in Ids, NEW to \in Folders, StartMove(t, id, to) PROVE LockInv'
  <2> DEFINE from == rows[id].folder
             new == [Idle EXCEPT !.kind = "move", !.pc = "lock", !.need = MoveLocks(from, to),
                                 !.folder = from, !.id = id, !.row = rows[id], !.to = to]
  <2>1. rows[id] \in Item /\ from \in Folders /\ rows[id] # NoItem /\ Begin(t, new)
    BY <1>3, ItemFields DEF StartMove, LockInv, TypeOK
  <2>2. MoveLocks(from, to) \in {<<from, to>>, <<to, from>>} /\ MoveLocks(from, to) \in Seq(Folders)
    BY <2>1 DEF MoveLocks
  <2>3. new \in Operation
    BY <2>1, <2>2, IdleRecord DEF Operation
  <2>4. /\ new.pc = "lock" /\ new.kind = "move" /\ new.row = rows[id] /\ new.need = MoveLocks(from, to)
        /\ new.folder = rows[id].folder /\ new.to = to
    BY IdleRecord DEF Operation
  <2> HIDE DEF new
  <2> QED
    BY <2>1, <2>2, <2>3, <2>4, BeginLock DEF Changing, Flags
<1> QED
  BY <1>1, <1>2, <1>3 DEF Start, Changing

LEMMA AcquireLock == ASSUME LockInv, NEW t \in Threads, Acquire(t) PROVE LockInv'
<1> DEFINE f == op[t].folder
           rest == Tail(op[t].need)
           new == [op[t] EXCEPT !.need = rest, !.key = stored[f],
                                !.pc = IF rest = <<>> THEN "call" ELSE "lock"]
<1>1. /\ serialized' = serialized /\ srv' = srv /\ srvKey' = srvKey /\ told' = told
      /\ stored' = stored /\ rows' = rows /\ fresh' = fresh /\ earned' = earned
      /\ overlapped' = overlapped /\ spent' = spent
      /\ op[t].pc = "lock" /\ lock[NextLock(t)] = NoThread
  BY DEF Acquire, Take, store, server
<1>2. op \in [Threads -> Operation] /\ op[t] \in Operation /\ f \in Folders /\ op[t].to \in Folders
  BY OperationFields DEF LockInv, TypeOK
<1>3. CASE DoneMeanwhile(t)
  <2>1. op' = [op EXCEPT ![t] = Idle] /\ lock' = lock
    BY <1>3 DEF Acquire, Take
  <2>2. op'[t] = Idle /\ \A u \in Threads : u # t => op'[u] = op[u]
    BY <1>2, <2>1
  <2>3. TypeOK'
    BY <1>1, <1>2, <2>1, IdleRecord DEF LockInv, TypeOK
  <2>4. LocksHeld' /\ EnsuredOnce' /\ FreshIsEarned'
    BY <1>1, <2>1, <2>2, IdleRecord DEF LockInv, LocksHeld, EnsuredOnce, FreshIsEarned
  <2>5. RowInHand'
    BY <1>1, <2>2, IdleRecord DEF LockInv, RowInHand, Changing, Flags
  <2>6. KeyInHand'
    BY <1>1, <2>2, IdleRecord DEF LockInv, KeyInHand
  <2> QED
    BY <2>3, <2>4, <2>5, <2>6 DEF LockInv
<1>4. CASE ~DoneMeanwhile(t)
  <2>1. op' = [op EXCEPT ![t] = new] /\ lock' = [lock EXCEPT ![NextLock(t)] = t]
    BY <1>4 DEF Acquire, Take
  <2>2. \/ op[t].need = <<f>> /\ (op[t].kind = "move" => lock[op[t].to] = t)
        \/ op[t].need = <<op[t].to>> /\ op[t].kind = "move" /\ lock[f] = t
        \/ op[t].need \in {<<f, op[t].to>>, <<op[t].to, f>>} /\ op[t].kind = "move"
    BY <1>1 DEF LockInv, LocksHeld
  <2>3. /\ rest \in {<<>>, <<f>>, <<op[t].to>>} /\ NextLock(t) \in Folders
        /\ rest = <<>> => /\ \/ NextLock(t) = f /\ (op[t].kind = "move" => lock[op[t].to] = t)
                             \/ NextLock(t) = op[t].to /\ op[t].kind = "move" /\ lock[f] = t
        /\ rest = <<f>> => NextLock(t) = op[t].to
        /\ rest = <<op[t].to>> => NextLock(t) = f
        /\ rest # <<>> => op[t].kind = "move"
        /\ op[t].kind # "move" => NextLock(t) = f /\ rest = <<>>
    <3>1. CASE op[t].need = <<f>> /\ (op[t].kind = "move" => lock[op[t].to] = t)
      BY <3>1, <1>2 DEF NextLock
    <3>2. CASE op[t].need = <<op[t].to>> /\ op[t].kind = "move" /\ lock[f] = t
      BY <3>2, <1>2 DEF NextLock
    <3>3. CASE op[t].need = <<f, op[t].to>> /\ op[t].kind = "move"
      BY <3>3, <1>2 DEF NextLock
    <3>4. CASE op[t].need = <<op[t].to, f>> /\ op[t].kind = "move"
      BY <3>4, <1>2 DEF NextLock
    <3> QED
      BY <2>2, <3>1, <3>2, <3>3, <3>4
  <2> HIDE DEF rest
  <2>4. stored[f] \in Nat /\ rest \in Seq(Folders)
    <3>1. stored[f] \in Nat
      BY <1>2 DEF LockInv, TypeOK
    <3>2. <<>> \in Seq(Folders) /\ <<f>> \in Seq(Folders) /\ <<op[t].to>> \in Seq(Folders)
      BY <1>2, SomeLocks
    <3> QED
      BY <2>3, <3>1, <3>2
  <2>5. /\ new \in Operation /\ new.need = rest /\ new.key = stored[f]
        /\ new.pc = (IF rest = <<>> THEN "call" ELSE "lock")
        /\ new.kind = op[t].kind /\ new.folder = f /\ new.to = op[t].to /\ new.row = op[t].row
        /\ new.id = op[t].id /\ new.ok = op[t].ok
    BY <1>2, <2>4 DEF Operation
  <2> HIDE DEF new
  <2>6. op'[t] = new /\ \A u \in Threads : u # t => op'[u] = op[u]
    BY <1>2, <2>1
  <2>7. /\ lock' \in [Folders -> Threads \cup {NoThread}] /\ lock'[NextLock(t)] = t
        /\ \A g \in Folders : g # NextLock(t) => lock'[g] = lock[g]
        /\ \A g \in Folders : \A u \in Threads : lock[g] = u => lock'[g] = u
    BY <1>1, <2>1, <2>3, CoordinatorAssumption DEF LockInv, TypeOK
  <2>8. \A u \in Threads : op[u].folder \in Folders /\ op[u].to \in Folders
    BY <1>2, OperationFields
  <2>9. TypeOK'
    BY <1>1, <1>2, <2>1, <2>5, <2>7 DEF LockInv, TypeOK
  <2>10. LocksHeld'
    <3> SUFFICES ASSUME NEW u \in Threads PROVE LocksHeld!(u)'
      BY DEF LocksHeld
    <3>1. CASE u # t
      <4>1. LocksHeld!(u)
        BY DEF LockInv, LocksHeld
      <4> QED
        BY <3>1, <4>1, <2>6, <2>7, <2>8
    <3>2. CASE u = t
      BY <3>2, <1>2, <2>3, <2>5, <2>6, <2>7
    <3> QED
      BY <3>1, <3>2
  <2>11. RowInHand'
    BY <1>1, <2>5, <2>6 DEF LockInv, RowInHand
  <2>12. KeyInHand'
    <3>1. \A u \in Threads : op[u].pc = "commit" => op'[u] = op[u]
      BY <1>1, <2>6
    <3>2. new.pc = "call" /\ new.kind # "move" => stored[f] = srvKey[f]
      <4>1. SUFFICES ASSUME new.kind # "move", stored[f] # srvKey[f] PROVE FALSE
        OBVIOUS
      <4>2. PICK u \in Threads : op[u].kind # "move" /\ op[u].pc = "commit" /\ op[u].folder = f
        BY <4>1, <1>2 DEF LockInv, KeyInHand
      <4>3. lock[f] = u
        BY <4>2 DEF LockInv, LocksHeld
      <4> QED
        BY <1>1, <2>3, <2>5, <4>1, <4>3, CoordinatorAssumption
    <3>3. \A u \in Threads : op'[u].kind # "move" =>
             /\ op'[u].pc = "call" => op'[u].key = srvKey[op'[u].folder] /\ stored[op'[u].folder] = op'[u].key
             /\ op'[u].pc = "commit" => op'[u].key = srvKey[op'[u].folder]
      BY <2>5, <2>6, <3>2 DEF LockInv, KeyInHand
    <3> QED
      BY <1>1, <3>1, <3>3 DEF LockInv, KeyInHand
  <2>13. EnsuredOnce'
    BY <1>1, <1>4, <2>3, <2>5, <2>6 DEF LockInv, EnsuredOnce, DoneMeanwhile
  <2>14. FreshIsEarned'
    BY <1>1 DEF LockInv, FreshIsEarned
  <2> QED
    BY <2>9, <2>10, <2>11, <2>12, <2>13, <2>14 DEF LockInv
<1> QED
  BY <1>3, <1>4

\* A call under a key: the server's newest key is in hand until it is stored.
LEMMA KeyedCallLock ==
    ASSUME LockInv, NEW t \in Threads, NEW new \in Operation,
           op[t].pc = "call", op[t].kind # "move", Called,
           op' = [op EXCEPT ![t] = new], new.pc = "commit",
           srvKey' = [srvKey EXCEPT ![op[t].folder] = @ + 1], new.key = srvKey[op[t].folder] + 1,
           new.kind = op[t].kind, new.folder = op[t].folder, new.row = op[t].row,
           srv' \in [Messages -> Item \cup {NoItem}], told' \in [Folders -> SUBSET Item]
    PROVE  LockInv'
<1> DEFINE f == op[t].folder
<1>1. /\ serialized' = serialized /\ stored' = stored /\ rows' = rows /\ lock' = lock /\ fresh' = fresh
      /\ earned' = earned /\ overlapped' = overlapped /\ spent' = spent
  BY DEF Called, store
<1>2. op \in [Threads -> Operation] /\ f \in Folders /\ srvKey \in [Folders -> Nat]
  BY OperationFields DEF LockInv, TypeOK
<1>3. op'[t] = new /\ \A u \in Threads : u # t => op'[u] = op[u]
  BY <1>2
<1>4. \A u \in Threads \ {t} : op[u].pc \in {"call", "commit"} => op[u].folder # f
  BY DEF LockInv, LocksHeld
<1>5. srvKey'[f] = srvKey[f] + 1 /\ \A g \in Folders \ {f} : srvKey'[g] = srvKey[g]
  BY <1>2
<1>6. TypeOK'
  BY <1>1, <1>2 DEF LockInv, TypeOK
<1>7. LocksHeld'
  <2> SUFFICES ASSUME NEW u \in Threads PROVE LocksHeld!(u)'
    BY DEF LocksHeld
  <2>1. CASE u # t
    BY <2>1, <1>1, <1>3 DEF LockInv, LocksHeld
  <2>2. CASE u = t
    BY <2>2, <1>1, <1>3 DEF LockInv, LocksHeld
  <2> QED
    BY <2>1, <2>2
<1>8. RowInHand'
  BY <1>1, <1>3 DEF LockInv, RowInHand
<1>9. KeyInHand'
  <2>1. \A u \in Threads : op'[u].kind # "move" =>
           /\ op'[u].pc = "call" => op'[u].key = srvKey'[op'[u].folder] /\ stored'[op'[u].folder] = op'[u].key
           /\ op'[u].pc = "commit" => op'[u].key = srvKey'[op'[u].folder]
    <3> SUFFICES ASSUME NEW u \in Threads, op'[u].kind # "move", op'[u].pc \in {"call", "commit"}
                 PROVE  /\ op'[u].pc = "call" => op'[u].key = srvKey'[op'[u].folder] /\ stored'[op'[u].folder] = op'[u].key
                        /\ op'[u].pc = "commit" => op'[u].key = srvKey'[op'[u].folder]
      OBVIOUS
    <3>1. CASE u = t
      BY <3>1, <1>3, <1>5
    <3>2. CASE u # t
      <4>1. op'[u] = op[u] /\ op[u].folder \in Folders \ {f}
        BY <3>2, <1>2, <1>3, <1>4, OperationFields
      <4> QED
        BY <4>1, <1>1, <1>5 DEF LockInv, KeyInHand
    <3> QED
      BY <3>1, <3>2
  <2>2. ASSUME NEW g \in Folders, stored'[g] # srvKey'[g]
        PROVE  \E u \in Threads : op'[u].kind # "move" /\ op'[u].pc = "commit" /\ op'[u].folder = g
    <3>1. CASE g = f
      BY <3>1, <1>3
    <3>2. CASE g # f
      <4>1. PICK u \in Threads : op[u].kind # "move" /\ op[u].pc = "commit" /\ op[u].folder = g
        BY <2>2, <3>2, <1>1, <1>5 DEF LockInv, KeyInHand
      <4> QED
        BY <4>1, <1>3
    <3> QED
      BY <3>1, <3>2
  <2> QED
    BY <2>1, <2>2 DEF KeyInHand
<1>10. EnsuredOnce' /\ FreshIsEarned'
  BY <1>1, <1>3 DEF LockInv, EnsuredOnce, FreshIsEarned
<1> QED
  BY <1>6, <1>7, <1>8, <1>9, <1>10 DEF LockInv

LEMMA ContentsType == ASSUME TypeOK, NEW f PROVE Contents(f) \subseteq Item
<1> QED
  BY DEF TypeOK, Contents

LEMMA SyncCallLock == ASSUME LockInv, NEW t \in Threads, SyncCall(t) PROVE LockInv'
<1> DEFINE f == op[t].folder
           known == IF op[t].key = 0 THEN {} ELSE told[f]
           now == IF op[t].key = 0 THEN {} ELSE Contents(f)
           new == [op[t] EXCEPT !.pc = "commit", !.key = srvKey[f] + 1, !.ok = op[t].key # 0,
                                !.put = now \ known,
                                !.del = {i \in known : ~\E j \in now : SameItem(i, j)}]
<1>1. /\ op[t].pc = "call" /\ op[t].kind \in {"sync", "ensure"} /\ Called
      /\ srvKey' = [srvKey EXCEPT ![f] = @ + 1] /\ told' = [told EXCEPT ![f] = now]
      /\ op' = [op EXCEPT ![t] = new] /\ srv' = srv
  BY DEF SyncCall, Calls
<1>2. /\ op[t] \in Operation /\ f \in Folders /\ srvKey[f] \in Nat /\ told \in [Folders -> SUBSET Item]
      /\ srv' \in [Messages -> Item \cup {NoItem}]
  BY <1>1, OperationFields DEF LockInv, TypeOK
<1>3. known \subseteq Item /\ now \subseteq Item
  BY <1>2, ContentsType DEF LockInv
<1>4. told' \in [Folders -> SUBSET Item]
  BY <1>1, <1>2, <1>3
<1> HIDE DEF known, now
<1>5. /\ new \in Operation /\ new.pc = "commit" /\ new.key = srvKey[f] + 1
      /\ new.kind = op[t].kind /\ new.folder = f /\ new.row = op[t].row
  <2> DEFINE k == srvKey[f] + 1
             b == op[t].key # 0
             put == now \ known
             del == {i \in known : ~\E j \in now : SameItem(i, j)}
  <2>1. k \in Nat /\ b \in BOOLEAN /\ put \in SUBSET Item /\ del \in SUBSET Item /\ k = srvKey[f] + 1
    BY <1>2, <1>3
  <2>2. new = [op[t] EXCEPT !.pc = "commit", !.key = k, !.ok = b, !.put = put, !.del = del]
    OBVIOUS
  <2> HIDE DEF k, b, put, del, new
  <2> QED
    BY <1>2, <2>1, <2>2 DEF Operation
<1> HIDE DEF new
<1> QED
  BY <1>1, <1>2, <1>4, <1>5, KeyedCallLock

LEMMA ChangeCallLock == ASSUME LockInv, NEW t \in Threads, ChangeCall(t) PROVE LockInv'
<1> DEFINE f == op[t].folder
           n == op[t].row.message
           flag(i) == [i EXCEPT !.flags = @ \cup {op[t].kind}]
           known == {i \in told[f] : SameItem(i, op[t].row)}
           new == [op[t] EXCEPT !.pc = "commit", !.key = srvKey[f] + 1, !.ok = StillThere(t)]
<1>1. /\ op[t].pc = "call" /\ op[t].kind \in Changing /\ Called
      /\ srvKey' = [srvKey EXCEPT ![f] = @ + 1]
      /\ op' = [op EXCEPT ![t] = new]
  BY DEF ChangeCall, Calls, Changing
<1>2. /\ op[t] \in Operation /\ f \in Folders /\ srvKey[f] \in Nat
      /\ told \in [Folders -> SUBSET Item] /\ srv \in [Messages -> Item \cup {NoItem}]
  BY <1>1, OperationFields DEF LockInv, TypeOK
<1>3. op[t].row \in Item /\ n \in Messages
  BY <1>1, <1>2, OperationFields, ItemFields DEF LockInv, RowInHand
<1>4. ASSUME NEW i \in Item, op[t].kind # "delete" PROVE flag(i) \in Item
  BY <1>1, <1>4 DEF Item, Changing
<1>5. told' \in [Folders -> SUBSET Item] /\ srv' \in [Messages -> Item \cup {NoItem}]
  <2>1. CASE ~StillThere(t)
    BY <2>1, <1>2 DEF ChangeCall
  <2>2. CASE StillThere(t) /\ op[t].kind = "delete"
    <3>1. srv' = [srv EXCEPT ![n] = NoItem] /\ told' = [told EXCEPT ![f] = @ \ known]
      BY <2>2 DEF ChangeCall
    <3> QED
      BY <3>1, <1>2
  <2>3. CASE StillThere(t) /\ op[t].kind # "delete"
    <3>1. /\ srv' = [srv EXCEPT ![n] = flag(@)]
          /\ told' = [told EXCEPT ![f] = (@ \ known) \cup {flag(i) : i \in known}]
      BY <2>3 DEF ChangeCall
    <3>2. srv[n] \in Item
      BY <2>3, <1>2, <1>3 DEF StillThere
    <3>3. {flag(i) : i \in known} \subseteq Item
      BY <1>2, <1>4, <2>3
    <3>4. flag(srv[n]) \in Item
      BY <1>4, <2>3, <3>2
    <3> HIDE DEF flag
    <3>5. srv' \in [Messages -> Item \cup {NoItem}]
      BY <1>2, <3>1, <3>4
    <3> HIDE DEF known
    <3> QED
      BY <1>2, <3>1, <3>3, <3>5
  <2> QED
    BY <2>1, <2>2, <2>3
<1>6. StillThere(t) \in BOOLEAN
  BY DEF StillThere, SameItem
<1>7. /\ new \in Operation /\ new.pc = "commit" /\ new.key = srvKey[f] + 1
      /\ new.kind = op[t].kind /\ new.folder = f /\ new.row = op[t].row
  <2> DEFINE k == srvKey[f] + 1
             b == StillThere(t)
  <2>1. k \in Nat /\ b \in BOOLEAN /\ k = srvKey[f] + 1
    BY <1>2, <1>6
  <2>2. new = [op[t] EXCEPT !.pc = "commit", !.key = k, !.ok = b]
    OBVIOUS
  <2> HIDE DEF k, b, new
  <2> QED
    BY <1>2, <2>1, <2>2 DEF Operation
<1> HIDE DEF new
<1> QED
  BY <1>1, <1>2, <1>5, <1>7, KeyedCallLock DEF Changing, Flags

LEMMA MoveCallLock == ASSUME LockInv, NEW t \in Threads, MoveCall(t) PROVE LockInv'
<1> DEFINE n == op[t].row.message
           new == [op[t] EXCEPT !.pc = "commit"]
<1>1. /\ op[t].pc = "call" /\ op[t].kind = "move" /\ StillThere(t) /\ op[t].row.gen < MaxMoves
      /\ srv' = [srv EXCEPT ![n].folder = op[t].to, ![n].gen = @ + 1]
      /\ op' = [op EXCEPT ![t] = new]
      /\ srvKey' = srvKey /\ told' = told /\ serialized' = serialized /\ stored' = stored /\ rows' = rows
      /\ lock' = lock /\ fresh' = fresh /\ earned' = earned /\ overlapped' = overlapped /\ spent' = spent
  BY DEF MoveCall, Calls, Movable, Called, store
<1>2. /\ op \in [Threads -> Operation] /\ op[t] \in Operation /\ op[t].to \in Folders
      /\ srv \in [Messages -> Item \cup {NoItem}]
  BY OperationFields DEF LockInv, TypeOK
<1>3. op[t].row \in Item /\ n \in Messages
  BY <1>1, <1>2, OperationFields, ItemFields DEF LockInv, RowInHand
<1>4. srv[n] \in Item /\ srv[n].gen = op[t].row.gen
  BY <1>1, <1>2, <1>3 DEF StillThere, SameItem
<1>5. srv' \in [Messages -> Item \cup {NoItem}]
  <2>1. [srv[n] EXCEPT !.folder = op[t].to, !.gen = @ + 1] \in Item
    <3>1. srv[n].gen + 1 \in 0..MaxMoves
      BY <1>1, <1>4, ItemFields, CoordinatorAssumption
    <3> QED
      BY <1>2, <1>4, <3>1 DEF Item
  <2>2. srv' = [srv EXCEPT ![n] = [srv[n] EXCEPT !.folder = op[t].to, !.gen = @ + 1]]
    BY <1>1, <1>2, <1>3
  <2> QED
    BY <1>2, <2>1, <2>2
<1>6. /\ new \in Operation /\ new.pc = "commit" /\ new.key = op[t].key /\ new.to = op[t].to
      /\ new.kind = "move" /\ new.folder = op[t].folder /\ new.row = op[t].row
  BY <1>1, <1>2 DEF Operation
<1> HIDE DEF new
<1>7. op'[t] = new /\ \A u \in Threads : u # t => op'[u] = op[u]
  BY <1>1, <1>2
<1>8. TypeOK'
  BY <1>1, <1>2, <1>5, <1>6 DEF LockInv, TypeOK
<1>9. LocksHeld'
  BY <1>1, <1>6, <1>7 DEF LockInv, LocksHeld
<1>10. RowInHand'
  BY <1>1, <1>6, <1>7 DEF LockInv, RowInHand
<1>11. KeyInHand'
  BY <1>1, <1>6, <1>7 DEF LockInv, KeyInHand
<1>12. EnsuredOnce' /\ FreshIsEarned'
  BY <1>1, <1>6, <1>7 DEF LockInv, EnsuredOnce, FreshIsEarned
<1> QED
  BY <1>8, <1>9, <1>10, <1>11, <1>12 DEF LockInv

\* A thread that gives up its locks does not give up another's.
LEMMA GiveUpLocks ==
    ASSUME LockInv, NEW t \in Threads, NEW new, new = Idle \/ new.pc = "write",
           op' = [op EXCEPT ![t] = new], lock' = Released(t)
    PROVE  LocksHeld' /\ lock' \in [Folders -> Threads \cup {NoThread}]
<1>1. op \in [Threads -> Operation] /\ lock \in [Folders -> Threads \cup {NoThread}]
  BY DEF LockInv, TypeOK
<1>2. op'[t] = new /\ \A u \in Threads : u # t => op'[u] = op[u]
  BY <1>1
<1>3. lock' \in [Folders -> Threads \cup {NoThread}]
  BY <1>1 DEF Released
<1>4. \A f \in Folders : \A u \in Threads : u # t /\ lock[f] = u => lock'[f] = u
  BY <1>1 DEF Released
<1>5. \A u \in Threads : op[u].folder \in Folders /\ op[u].to \in Folders
  BY <1>1, OperationFields
<1>6. LocksHeld'
  <2> SUFFICES ASSUME NEW u \in Threads PROVE LocksHeld!(u)'
    BY DEF LocksHeld
  <2>1. CASE u # t
    <3>1. LocksHeld!(u)
      BY DEF LockInv, LocksHeld
    <3> QED
      BY <2>1, <3>1, <1>2, <1>4, <1>5
  <2>2. CASE u = t
    BY <2>2, <1>2, IdleRecord
  <2> QED
    BY <2>1, <2>2
<1> QED
  BY <1>3, <1>6

LEMMA FailsLock == ASSUME LockInv, NEW t \in Threads, Fails(t) PROVE LockInv'
<1>1. /\ serialized' = serialized /\ srv' = srv /\ srvKey' = srvKey /\ told' = told
      /\ stored' = stored /\ rows' = rows /\ fresh' = fresh /\ earned' = earned
      /\ overlapped' = overlapped /\ lock' = Released(t)
      /\ op[t].pc = "call" /\ op' = [op EXCEPT ![t] = Idle]
      /\ \/ spent' = spent
         \/ spent.faults < MaxFaults /\ spent' = [spent EXCEPT !.faults = @ + 1]
  BY DEF Fails, store, server
<1>2. op \in [Threads -> Operation]
  BY DEF LockInv, TypeOK
<1>3. op'[t] = Idle /\ \A u \in Threads : u # t => op'[u] = op[u]
  BY <1>1, <1>2
<1>4. LocksHeld' /\ lock' \in [Folders -> Threads \cup {NoThread}]
  BY <1>1, GiveUpLocks
<1>5. TypeOK'
  <2>1. spent' \in [calls : 0..MaxCalls, remote : 0..MaxRemote, faults : 0..MaxFaults]
    BY <1>1, CoordinatorAssumption DEF LockInv, TypeOK
  <2> QED
    BY <1>1, <1>2, <1>4, <2>1, IdleRecord DEF LockInv, TypeOK
<1>6. RowInHand'
  BY <1>1, <1>3, IdleRecord DEF LockInv, RowInHand, Changing, Flags
<1>7. KeyInHand'
  BY <1>1, <1>3, IdleRecord DEF LockInv, KeyInHand
<1>8. EnsuredOnce' /\ FreshIsEarned'
  BY <1>1, <1>3, IdleRecord DEF LockInv, EnsuredOnce, FreshIsEarned
<1> QED
  BY <1>4, <1>5, <1>6, <1>7, <1>8 DEF LockInv

\* Storing the key in hand leaves nothing in hand: what a commit does to keys.
LEMMA StoreKey ==
    ASSUME LockInv, NEW t \in Threads, op[t].pc = "commit", op[t].kind # "move",
           NEW new, op' = [op EXCEPT ![t] = new], srvKey' = srvKey,
           stored' = [stored EXCEPT ![op[t].folder] = op[t].key],
           \/ new.pc \notin {"call", "commit"}
           \/ new.pc = "call" /\ new.folder = op[t].folder /\ new.key = op[t].key
    PROVE  KeyInHand' /\ stored' \in [Folders -> Nat]
<1> DEFINE f == op[t].folder
<1>1. /\ op \in [Threads -> Operation] /\ f \in Folders /\ op[t].key \in Nat
      /\ stored \in [Folders -> Nat] /\ op[t].key = srvKey[f]
  BY OperationFields DEF LockInv, TypeOK, KeyInHand
<1>2. op'[t] = new /\ \A u \in Threads : u # t => op'[u] = op[u]
  BY <1>1
<1>3. stored'[f] = srvKey[f] /\ \A g \in Folders \ {f} : stored'[g] = stored[g]
  BY <1>1
<1>4. \A u \in Threads \ {t} : op[u].pc \in {"call", "commit"} => op[u].folder \in Folders \ {f}
  BY <1>1, OperationFields DEF LockInv, LocksHeld
<1>5. \A u \in Threads : op'[u].kind # "move" =>
         /\ op'[u].pc = "call" => op'[u].key = srvKey[op'[u].folder] /\ stored'[op'[u].folder] = op'[u].key
         /\ op'[u].pc = "commit" => op'[u].key = srvKey[op'[u].folder]
  <2> SUFFICES ASSUME NEW u \in Threads, op'[u].kind # "move", op'[u].pc \in {"call", "commit"}
               PROVE  /\ op'[u].pc = "call" => op'[u].key = srvKey[op'[u].folder] /\ stored'[op'[u].folder] = op'[u].key
                      /\ op'[u].pc = "commit" => op'[u].key = srvKey[op'[u].folder]
    OBVIOUS
  <2>1. CASE u = t
    BY <2>1, <1>1, <1>2, <1>3
  <2>2. CASE u # t
    BY <2>2, <1>2, <1>3, <1>4 DEF LockInv, KeyInHand
  <2> QED
    BY <2>1, <2>2
<1>6. ASSUME NEW g \in Folders, stored'[g] # srvKey[g]
      PROVE  \E u \in Threads : op'[u].kind # "move" /\ op'[u].pc = "commit" /\ op'[u].folder = g
  <2>1. g # f /\ stored[g] # srvKey[g]
    BY <1>3, <1>6
  <2>2. PICK u \in Threads : op[u].kind # "move" /\ op[u].pc = "commit" /\ op[u].folder = g
    BY <2>1 DEF LockInv, KeyInHand
  <2> QED
    BY <2>1, <2>2, <1>2
<1>7. stored' \in [Folders -> Nat]
  BY <1>1
<1> QED
  BY <1>5, <1>6, <1>7 DEF KeyInHand

LEMMA ChangeCommitLock == ASSUME LockInv, NEW t \in Threads, ChangeCommit(t) PROVE LockInv'
<1> DEFINE wrote == [op[t] EXCEPT !.pc = "write"]
           new == IF op[t].ok THEN wrote ELSE Idle
<1>1. /\ serialized' = serialized /\ srv' = srv /\ srvKey' = srvKey /\ told' = told
      /\ rows' = rows /\ fresh' = fresh /\ earned' = earned
      /\ overlapped' = overlapped /\ spent' = spent /\ lock' = Released(t)
      /\ op[t].pc = "commit" /\ op[t].kind \in Changing /\ op' = [op EXCEPT ![t] = new]
      /\ stored' = [stored EXCEPT ![op[t].folder] = op[t].key]
  BY DEF ChangeCommit, server, Changing
<1>2. op \in [Threads -> Operation] /\ op[t] \in Operation
  BY DEF LockInv, TypeOK
<1>3. /\ wrote \in Operation /\ wrote.pc = "write" /\ wrote.kind = op[t].kind /\ wrote.row = op[t].row
      /\ wrote.folder = op[t].folder /\ wrote.ok = op[t].ok
  BY <1>2 DEF Operation
<1> HIDE DEF wrote
<1>4. new \in Operation /\ (new = Idle \/ (new = wrote /\ op[t].ok))
  BY <1>3, IdleRecord
<1> HIDE DEF new
<1>5. op'[t] = new /\ \A u \in Threads : u # t => op'[u] = op[u]
  BY <1>1, <1>2
<1>6. LocksHeld' /\ lock' \in [Folders -> Threads \cup {NoThread}]
  BY <1>1, <1>3, <1>4, GiveUpLocks
<1>7. KeyInHand' /\ stored' \in [Folders -> Nat]
  BY <1>1, <1>3, <1>4, IdleRecord, StoreKey DEF Changing, Flags
<1>8. TypeOK'
  BY <1>1, <1>2, <1>4, <1>6, <1>7 DEF LockInv, TypeOK
<1>9. RowInHand'
  <2> SUFFICES ASSUME NEW u \in Threads PROVE RowInHand!(u)'
    BY DEF RowInHand
  <2>1. CASE u # t
    BY <2>1, <1>5 DEF LockInv, RowInHand
  <2>2. CASE u = t /\ new = Idle
    BY <2>2, <1>5, IdleRecord DEF Changing, Flags
  <2>3. CASE u = t /\ new = wrote /\ op[t].ok
    <3>1. RowInHand!(t)
      BY DEF LockInv, RowInHand
    <3> QED
      BY <2>3, <3>1, <1>1, <1>3, <1>5
  <2> QED
    BY <2>1, <2>2, <2>3, <1>4
<1>10. EnsuredOnce' /\ FreshIsEarned'
  BY <1>1, <1>3, <1>4, <1>5, IdleRecord DEF LockInv, EnsuredOnce, FreshIsEarned
<1> QED
  BY <1>6, <1>7, <1>8, <1>9, <1>10 DEF LockInv

\* The last two steps of an operation that hold or release without a key.
LEMMA ChangeWriteLock == ASSUME LockInv, NEW t \in Threads, ChangeWrite(t) PROVE LockInv'
<1> DEFINE id == op[t].id
           upd == [rows[id] EXCEPT !.flags = op[t].row.flags \cup {op[t].kind}]
<1>1. /\ serialized' = serialized /\ srv' = srv /\ srvKey' = srvKey /\ told' = told
      /\ stored' = stored /\ lock' = lock /\ fresh' = fresh /\ earned' = earned /\ spent' = spent
      /\ op[t].pc = "write" /\ op' = [op EXCEPT ![t] = Idle]
      /\ rows' = [rows EXCEPT ![id] = IF rows[id] = NoItem \/ op[t].kind = "delete" THEN NoItem ELSE upd]
      /\ overlapped' \subseteq overlapped \cup {id}
  BY DEF ChangeWrite, server, Overlap
<1>2. /\ op \in [Threads -> Operation] /\ op[t] \in Operation /\ id \in Ids
      /\ rows \in [Ids -> Item \cup {NoItem}]
  BY OperationFields DEF LockInv, TypeOK
<1>3. op'[t] = Idle /\ \A u \in Threads : u # t => op'[u] = op[u]
  BY <1>1, <1>2
<1>4. op[t].kind \in Changing /\ op[t].row \in Item
  BY <1>1, <1>2, OperationFields DEF LockInv, RowInHand
<1>5. rows[id] # NoItem /\ op[t].kind # "delete" => upd \in Item
  <2>1. op[t].kind # "delete" => op[t].row.flags \cup {op[t].kind} \in SUBSET Flags
    BY <1>4, ItemFields DEF Changing
  <2> QED
    BY <1>2, <2>1 DEF Item
<1>6. TypeOK'
  <2>1. rows' \in [Ids -> Item \cup {NoItem}]
    BY <1>1, <1>2, <1>5
  <2>2. overlapped' \in SUBSET Ids
    BY <1>1, <1>2 DEF LockInv, TypeOK
  <2> QED
    BY <1>1, <1>2, <2>1, <2>2, IdleRecord DEF LockInv, TypeOK
<1>7. LocksHeld'
  BY <1>1, <1>3, IdleRecord DEF LockInv, LocksHeld
<1>8. RowInHand'
  BY <1>3, IdleRecord DEF LockInv, RowInHand, Changing, Flags
<1>9. KeyInHand'
  BY <1>1, <1>3, IdleRecord DEF LockInv, KeyInHand
<1>10. EnsuredOnce' /\ FreshIsEarned'
  BY <1>1, <1>3, IdleRecord DEF LockInv, EnsuredOnce, FreshIsEarned
<1> QED
  BY <1>6, <1>7, <1>8, <1>9, <1>10 DEF LockInv

LEMMA MoveCommitLock == ASSUME LockInv, NEW t \in Threads, MoveCommit(t) PROVE LockInv'
<1> DEFINE id == op[t].id
           upd == [rows[id] EXCEPT !.folder = op[t].to, !.gen = op[t].row.gen + 1]
<1>1. /\ serialized' = serialized /\ srv' = srv /\ srvKey' = srvKey /\ told' = told
      /\ stored' = stored /\ lock' = Released(t) /\ fresh' = fresh /\ earned' = earned /\ spent' = spent
      /\ op[t].pc = "commit" /\ op[t].kind = "move" /\ op' = [op EXCEPT ![t] = Idle]
      /\ rows' = [rows EXCEPT ![id] = IF rows[id] = NoItem THEN NoItem ELSE upd]
      /\ overlapped' \subseteq overlapped \cup {id}
  BY DEF MoveCommit, server, Overlap
<1>2. /\ op \in [Threads -> Operation] /\ op[t] \in Operation /\ id \in Ids /\ op[t].to \in Folders
      /\ rows \in [Ids -> Item \cup {NoItem}]
  BY OperationFields DEF LockInv, TypeOK
<1>3. op'[t] = Idle /\ \A u \in Threads : u # t => op'[u] = op[u]
  BY <1>1, <1>2
<1>4. op[t].row \in Item /\ op[t].row.gen < MaxMoves
  BY <1>1, <1>2, OperationFields DEF LockInv, RowInHand
<1>5. rows[id] # NoItem => upd \in Item
  <2>1. op[t].row.gen + 1 \in 0..MaxMoves
    BY <1>4, ItemFields, CoordinatorAssumption
  <2> QED
    BY <1>2, <2>1 DEF Item
<1>6. LocksHeld' /\ lock' \in [Folders -> Threads \cup {NoThread}]
  BY <1>1, GiveUpLocks
<1>7. TypeOK'
  <2>1. rows' \in [Ids -> Item \cup {NoItem}]
    BY <1>1, <1>2, <1>5
  <2>2. overlapped' \in SUBSET Ids
    BY <1>1, <1>2 DEF LockInv, TypeOK
  <2> QED
    BY <1>1, <1>2, <1>6, <2>1, <2>2, IdleRecord DEF LockInv, TypeOK
<1>8. RowInHand'
  BY <1>3, IdleRecord DEF LockInv, RowInHand, Changing, Flags
<1>9. KeyInHand'
  BY <1>1, <1>3, IdleRecord DEF LockInv, KeyInHand
<1>10. EnsuredOnce' /\ FreshIsEarned'
  BY <1>1, <1>3, IdleRecord DEF LockInv, EnsuredOnce, FreshIsEarned
<1> QED
  BY <1>6, <1>7, <1>8, <1>9, <1>10 DEF LockInv

\* The page's items at commit time: which one an email is given, if any.
PageItem(t, id) == {i \in op[t].put : id \in Holding(i) \/ (Holding(i) = {} /\ id = <<i.message, i.gen>>)}
PageRemoved(t) == UNION {Holding(i) : i \in op[t].del}

\* The commit of a page, read once.
LEMMA SyncCommitIs ==
    ASSUME NEW t \in Threads, SyncCommit(t)
    PROVE  /\ op[t].pc = "commit" /\ op[t].kind \in {"sync", "ensure"}
           /\ rows' = [id \in Ids |-> IF id \in PageRemoved(t) THEN NoItem
                                      ELSE IF PageItem(t, id) # {} THEN CHOOSE i \in PageItem(t, id) : TRUE
                                      ELSE rows[id]]
           /\ stored' = [stored EXCEPT ![op[t].folder] = op[t].key]
           /\ Overlap(t, PageRemoved(t) \cup {id \in Ids : PageItem(t, id) # {}})
           /\ MarkFresh(t)
           /\ op[t].ok => /\ op' = [op EXCEPT ![t] = Idle] /\ lock' = Released(t)
                          /\ earned' = IF op[t].kind = "ensure"
                                       THEN [earned EXCEPT ![op[t].folder] = @ + 1] ELSE earned
           /\ ~op[t].ok => /\ op' = [op EXCEPT ![t].pc = "call", ![t].put = {}, ![t].del = {}]
                           /\ lock' = lock /\ earned' = earned
           /\ serialized' = serialized /\ srv' = srv /\ srvKey' = srvKey /\ told' = told /\ spent' = spent
<1> QED
  BY DEF SyncCommit, PageItem, PageRemoved, server

LEMMA SyncCommitLock == ASSUME LockInv, NEW t \in Threads, SyncCommit(t) PROVE LockInv'
<1> DEFINE f == op[t].folder
           again == [op[t] EXCEPT !.pc = "call", !.put = {}, !.del = {}]
           new == IF op[t].ok THEN Idle ELSE again
<1>0. /\ op[t].pc = "commit" /\ op[t].kind \in {"sync", "ensure"} /\ op[t].kind \notin Changing \cup {"move"}
      /\ serialized' = serialized /\ srv' = srv /\ srvKey' = srvKey /\ told' = told /\ spent' = spent
  BY SyncCommitIs DEF Changing, Flags
<1>1. /\ op \in [Threads -> Operation] /\ op[t] \in Operation /\ f \in Folders /\ op[t].put \subseteq Item
      /\ op[t].ok \in BOOLEAN
      /\ rows \in [Ids -> Item \cup {NoItem}]
  BY OperationFields DEF LockInv, TypeOK
<1>2. /\ again \in Operation /\ again.pc = "call" /\ again.kind = op[t].kind /\ again.row = op[t].row
      /\ again.folder = f /\ again.key = op[t].key
  BY <1>1 DEF Operation
<1>3. op' = [op EXCEPT ![t] = new]
  BY SyncCommitIs
<1> HIDE DEF again
<1>4. new \in Operation /\ (op[t].ok => new = Idle) /\ (~op[t].ok => new = again)
  BY <1>2, IdleRecord
<1> HIDE DEF new
<1>5. op'[t] = new /\ \A u \in Threads : u # t => op'[u] = op[u]
  BY <1>1, <1>3
<1>6. LocksHeld' /\ lock' \in [Folders -> Threads \cup {NoThread}]
  <2>1. CASE op[t].ok
    BY <2>1, <1>3, <1>4, SyncCommitIs, GiveUpLocks
  <2>2. CASE ~op[t].ok
    <3>1. lock' = lock
      BY <2>2, SyncCommitIs
    <3>2. LocksHeld'
      <4>0. again.to = op[t].to
        BY <1>1 DEF Operation, again
      <4> SUFFICES ASSUME NEW u \in Threads PROVE LocksHeld!(u)'
        BY DEF LocksHeld
      <4>1. LocksHeld!(u)
        BY DEF LockInv, LocksHeld
      <4>2. CASE u = t
        BY <2>2, <3>1, <4>0, <4>1, <4>2, <1>0, <1>2, <1>4, <1>5
      <4>3. CASE u # t
        BY <3>1, <4>1, <4>3, <1>5
      <4> QED
        BY <4>2, <4>3
    <3> QED
      BY <3>1, <3>2 DEF LockInv, TypeOK
  <2> QED
    BY <2>1, <2>2
<1>7. KeyInHand' /\ stored' \in [Folders -> Nat]
  <2>1. op[t].pc = "commit" /\ op[t].kind # "move" /\ srvKey' = srvKey /\ stored' = [stored EXCEPT ![f] = op[t].key]
    BY SyncCommitIs
  <2>2. new.pc \notin {"call", "commit"} \/ (new.pc = "call" /\ new.folder = f /\ new.key = op[t].key)
    BY <1>2, <1>4, IdleRecord
  <2> QED
    BY <1>3, <2>1, <2>2, StoreKey
<1>8. earned' \in [Folders -> 0..1] /\ fresh' \in SUBSET Folders /\ EnsuredOnce' /\ FreshIsEarned'
  <2>0. earned \in [Folders -> 0..1] /\ fresh \in SUBSET Folders
    BY DEF LockInv, TypeOK
  <2>1. CASE op[t].ok /\ op[t].kind = "ensure"
    <3>1. f \notin fresh
      BY <2>1, SyncCommitIs DEF LockInv, EnsuredOnce
    <3>2. earned[f] = 0
      BY <3>1, <1>1 DEF LockInv, FreshIsEarned
    <3>3. fresh' = fresh \cup {f} /\ earned' = [earned EXCEPT ![f] = @ + 1]
      BY <2>1, SyncCommitIs DEF MarkFresh
    <3>4. \A u \in Threads \ {t} : op[u].pc \in {"call", "commit"} => op[u].folder # f
      BY <1>0 DEF LockInv, LocksHeld
    <3>5. EnsuredOnce'
      BY <2>1, <3>3, <3>4, <1>4, <1>5, IdleRecord DEF LockInv, EnsuredOnce
    <3>6. FreshIsEarned'
      BY <2>0, <3>2, <3>3 DEF LockInv, FreshIsEarned
    <3> QED
      BY <2>0, <3>2, <3>3, <3>5, <3>6, <1>1
  <2>2. CASE ~(op[t].ok /\ op[t].kind = "ensure")
    <3>1. fresh' = fresh /\ earned' = earned
      BY <2>2, SyncCommitIs DEF MarkFresh
    <3>2. EnsuredOnce'
      BY <3>1, <1>0, <1>2, <1>4, <1>5, IdleRecord DEF LockInv, EnsuredOnce
    <3> QED
      BY <2>0, <3>1, <3>2 DEF LockInv, FreshIsEarned
  <2> QED
    BY <2>1, <2>2
<1>9. RowInHand'
  <2> SUFFICES ASSUME NEW u \in Threads PROVE RowInHand!(u)'
    BY DEF RowInHand
  <2>1. RowInHand!(u)
    BY DEF LockInv, RowInHand
  <2>2. CASE u # t
    BY <2>1, <2>2, <1>5
  <2>3. CASE u = t /\ op[t].ok
    BY <2>3, <1>4, <1>5, IdleRecord DEF Changing, Flags
  <2>4. CASE u = t /\ ~op[t].ok
    BY <2>1, <2>4, <1>0, <1>2, <1>4, <1>5
  <2> QED
    BY <1>1, <2>2, <2>3, <2>4
<1>10. TypeOK'
  <2>1. rows' \in [Ids -> Item \cup {NoItem}]
    <3>1. ASSUME NEW id \in Ids, PageItem(t, id) # {}
          PROVE  (CHOOSE i \in PageItem(t, id) : TRUE) \in Item
      BY <3>1, <1>1 DEF PageItem
    <3>2. rows' = [id \in Ids |-> IF id \in PageRemoved(t) THEN NoItem
                                  ELSE IF PageItem(t, id) # {} THEN CHOOSE i \in PageItem(t, id) : TRUE
                                  ELSE rows[id]]
      BY SyncCommitIs
    <3>3. ASSUME NEW id \in Ids PROVE rows'[id] \in Item \cup {NoItem}
      BY <3>1, <3>2, <3>3, <1>1
    <3> QED
      BY <3>2, <3>3
  <2>2. overlapped' \in SUBSET Ids
    <3>1. PageRemoved(t) \subseteq Ids
      BY DEF PageRemoved, Holding
    <3> QED
      BY ZenonT(40), <3>1, SyncCommitIs DEF Overlap, LockInv, TypeOK
  <2> QED
    BY <1>1, <1>3, <1>4, <1>6, <1>7, <1>8, <2>1, <2>2, SyncCommitIs DEF LockInv, TypeOK
<1> QED
  BY <1>6, <1>7, <1>8, <1>9, <1>10 DEF LockInv

LEMMA NextLockInv == ASSUME LockInv, [Next]_vars PROVE LockInv'
<1>1. CASE Remote
  BY <1>1, RemoteLock
<1>2. ASSUME NEW f \in Folders, Expire(f) PROVE LockInv'
  BY <1>2, ExpireLock
<1>3. ASSUME NEW t \in Threads, Start(t) \/ Step(t) PROVE LockInv'
  BY <1>3, StartLock, AcquireLock, FailsLock, SyncCallLock, ChangeCallLock, MoveCallLock,
     SyncCommitLock, ChangeCommitLock, ChangeWriteLock, MoveCommitLock DEF Step
<1>4. CASE UNCHANGED vars
  BY <1>4 DEF vars, server, store, LockInv, TypeOK, LocksHeld, RowInHand, KeyInHand, EnsuredOnce, FreshIsEarned
<1> QED
  BY <1>1, <1>2, <1>3, <1>4 DEF Next

\* Every variable keeps its type, for any folders, messages and bounds.
THEOREM TypeCorrect == Spec => []TypeOK
<1>1. LockInv => TypeOK
  BY DEF LockInv
<1> QED
  BY <1>1, InitLock, NextLockInv, PTL DEF Spec

LEMMA AlwaysLockInv == Spec => []LockInv
<1> QED
  BY InitLock, NextLockInv, PTL DEF Spec

\* However the threads interleave, two of them never work from one key of a
\* folder, and the stored key is the server's newest whenever no thread has the
\* folder's lock (sync.py:118, 264).
THEOREM KeyAlwaysNewest == Spec => []KeyIsNewest
<1>1. LockInv => KeyIsNewest
  <2> SUFFICES ASSUME LockInv PROVE KeyIsNewest
    OBVIOUS
  <2>1. ASSUME NEW f \in Folders, lock[f] = NoThread PROVE stored[f] = srvKey[f]
    <3>1. \A t \in Threads : op[t].pc = "commit" /\ op[t].folder = f => lock[f] = t
      BY DEF LockInv, LocksHeld
    <3> QED
      BY <2>1, <3>1, CoordinatorAssumption DEF LockInv, KeyInHand
  <2> QED
    BY <2>1 DEF LockInv, LocksHeld, KeyIsNewest
<1> QED
  BY <1>1, AlwaysLockInv, PTL

\* A folder is fresh exactly when one sync of it has finished since the window
\* began: who waited for its lock looks again and does not repeat the sync
\* (sync.py:180-186).
THEOREM FreshAlwaysEarned == Spec => []FreshIsEarned
<1>1. LockInv => FreshIsEarned
  BY DEF LockInv
<1> QED
  BY <1>1, AlwaysLockInv, PTL
=============================================================================
