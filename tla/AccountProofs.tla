---------------------------- MODULE AccountProofs ----------------------------
(***************************************************************************)
(* Proofs about Account: that the log tells what the tables hold, that     *)
(* emails without a mailbox come about in the two known ways only, that    *)
(* the rows of a mailbox are what the server believes, and that a batch's  *)
(* queries miss nothing by what its scope leaves out.                      *)
(*                                                                         *)
(* The server's own steps leave the tables alone, and only go forward: a   *)
(* folder or an item that has come never becomes new again, and what is    *)
(* gone stays gone (Forward).  So what an operation has read or been told  *)
(* can be applied later as if nothing had happened since, which is what    *)
(* the parts of HandInv say of each kind of operation.  What remains to    *)
(* be shown of each transaction is how it takes told, rows and log         *)
(* together from one consistent state to another.                          *)
(***************************************************************************)
EXTENDS Account, WellFoundedInduction, TLAPS

-----------------------------------------------------------------------------
(* What is true between any two steps                                      *)

\* What the server believes the holder of a key to have is in a keyed mailbox.
ToldKeyed == \A i \in told : HomeOf[i] \in keyed /\ srv[i] # "new"

\* A folder that is not there yet has no items.
NewFolderEmpty == \A i \in Items : folder[HomeOf[i]] = "new" => srv[i] = "new"

\* Only mail folders that are or were on the server are cached.
CachedKnown == \A f \in Cached : f \in MailFolders /\ folder[f] # "new"

\* Reconciliation drops only what is gone for good.
DroppedGone == \A f \in dropped : folder[f] = "gone"

\* A row's item is or was on the server, and so was the item it is called after.
RowsExist == \A id \in Items : Row(id) => srv[id] # "new" /\ srv[emails[id]] # "new"

\* The item a moved email was first cached for is gone.
MovedAway == \A id \in Items : Row(id) /\ emails[id] # id => srv[id] = "gone"

\* A row without a mailbox is of a folder that was dropped, or drifts.
StraysDrift ==
    \A id \in Items : Row(id) => MailboxOf(id) \in Cached \cup dropped \/ emails[id] \in adrift

\* Which steps are whose.
KindsInHand ==
    /\ op.pc \in {"list", "listed", "sync", "paged", "answer"} => op.kind = "batch"
    /\ op.pc \in {"commit", "write", "move", "moved", "raised"} => op.kind # "batch"
    /\ op.pc = "write" => op.kind \in {"keywords", "both", "destroy"}
    /\ op.pc = "move" => op.kind = "both"

\* A listing has mail folders that were there, and every cached one it lacks is gone.
ListingInHand ==
    op.pc = "listed" =>
        /\ \A f \in Listed : f \in MailFolders /\ folder[f] # "new" /\ f \notin dropped
        /\ \A f \in Cached \ Listed : folder[f] = "gone"

\* A page is about one folder: what it adds was not told and may be cached only
\* under its own name, what it deletes was told.
PageInHand ==
    op.pc = "paged" =>
        /\ op.folder \in op.todo
        /\ op.added \subseteq InFolder(op.folder) \ ToldBy(op.folder)
        /\ op.deleted \subseteq ToldBy(op.folder)
        /\ \A i \in op.added : srv[i] # "new" /\ (Row(i) => emails[i] = i)

\* A folder created through the bridge is not cached yet and has no rows.
CreatedInHand ==
    op.kind = "create" /\ op.pc = "commit" =>
        /\ op.folder \in MailFolders \ Cached /\ op.title \in Titles
        /\ folder[op.folder] # "new" /\ RowsIn(op.folder) = {}

\* A folder renamed or removed through the bridge is cached.
MailboxInHand ==
    /\ op.kind = "rename" /\ op.pc = "commit" => op.folder \in Cached /\ op.title \in Titles
    /\ op.kind = "remove" /\ op.pc = "commit" => op.folder \in Cached

\* A change works on the row its caller read; a deletion's item is not told any
\* more once its key is committed; the target of a move is still cached.
ChangeInHand ==
    /\ op.pc \in {"commit", "write"} /\ op.kind \in {"keywords", "both", "destroy"} =>
           op.id \in Items /\ op.item \in Items /\ emails[op.id] = op.item
    /\ op.pc = "write" /\ op.kind = "destroy" => op.item \notin told
    /\ op.pc \in {"commit", "write", "move"} /\ op.kind = "both" => op.folder \in Cached
    /\ op.pc = "move" => op.id \in Items /\ Row(op.id)

\* A moved item is gone from where its row says it is; the new one is cached mail.
MoveInHand ==
    op.pc = "moved" =>
        /\ op.id \in Items /\ Row(op.id) /\ srv[emails[op.id]] = "gone"
        /\ op.item \in Items /\ srv[op.item] # "new" /\ HomeOf[op.item] \in Cached

\* A draft has no row yet.
DraftInHand ==
    op.kind = "draft" /\ op.pc = "commit" =>
        op.item \in Items /\ srv[op.item] # "new" /\ HomeOf[op.item] \in keyed /\ ~Row(op.item)

ServerInv == ToldKeyed /\ NewFolderEmpty /\ CachedKnown /\ DroppedGone

TablesInv ==
    /\ RowsExist /\ MovedAway /\ StraysDrift
    /\ OrphansAccountedFor /\ RowsMatchKey /\ LogsFollowTables

HandInv ==
    /\ KindsInHand /\ ListingInHand /\ PageInHand /\ CreatedInHand /\ MailboxInHand
    /\ ChangeInHand /\ MoveInHand /\ DraftInHand

IInv == TypeOK /\ ServerInv /\ TablesInv /\ HandInv

-----------------------------------------------------------------------------
(* Filters: what the recursive Scope and Selects compute                    *)

LEMMA LeastOf ==
    ASSUME NEW S \in SUBSET Nat, S # {}
    PROVE  \E x \in S : \A y \in S : x <= y
  <1>1. \E x \in S : \A y \in S : ~(<<y, x>> \in OpToRel(<, Nat))
    BY NatLessThanWellFounded, WFMin
  <1>2. \A x, y \in Nat : y < x => <<y, x>> \in OpToRel(<, Nat)
    BY DEF OpToRel
  <1>3. PICK x \in S : \A y \in S : ~(<<y, x>> \in OpToRel(<, Nat))
    BY <1>1
  <1>4. \A y \in S : x \in Nat /\ y \in Nat /\ ~(y < x)
    BY <1>2, <1>3
  <1>. QED
    BY <1>4

\* H[n] computes a function's value at n from its values below n.
Local(H, N, V) ==
    \A s, t \in [1..N -> V] : \A n \in 1..N :
        (\A m \in 1..(n - 1) : s[m] = t[m]) => H[n][s] = H[n][t]

Fixpoint(s, H, N) == s = [n \in 1..N |-> H[n][s]]

Functional(H, N, V) == V # {} /\ H \in [1..N -> [[1..N -> V] -> V]] /\ Local(H, N, V)

\* Then there is such a function.
LEMMA Recursion ==
    \A N \in Nat : \A V, H : Functional(H, N, V) => \E s \in [1..N -> V] : Fixpoint(s, H, N)
  <1>. SUFFICES ASSUME NEW N \in Nat, NEW V, NEW H, Functional(H, N, V)
                PROVE  \E s \in [1..N -> V] : Fixpoint(s, H, N)
    OBVIOUS
  <1>0. V # {} /\ H \in [1..N -> [[1..N -> V] -> V]] /\ Local(H, N, V)
    BY DEF Functional
  <1>. DEFINE Solves(s, k) == \A n \in 1..k : s[n] = H[n][s]
              Bad == {k \in 0..N : ~\E s \in [1..N -> V] : Solves(s, k)}
  <1>1. Bad = {}
    <2>. SUFFICES ASSUME Bad # {} PROVE FALSE
      OBVIOUS
    <2>1. PICK k \in Bad : \A y \in Bad : k <= y
      <3>1. Bad \in SUBSET Nat
        OBVIOUS
      <3>. HIDE DEF Bad
      <3>. QED
        BY <3>1, LeastOf
    <2>2. k # 0
      <3>1. PICK v \in V : TRUE
        BY <1>0
      <3>2. [n \in 1..N |-> v] \in [1..N -> V] /\ Solves([n \in 1..N |-> v], 0)
        OBVIOUS
      <3>. QED
        BY <3>2
    <2>3. k - 1 \in 0..N /\ k - 1 \notin Bad
      <3>1. k \in 0..N /\ k - 1 \in 0..N /\ ~(k <= k - 1)
        BY <2>1, <2>2
      <3>. HIDE DEF Bad
      <3>. QED
        BY <2>1, <3>1
    <2>4. PICK s \in [1..N -> V] : Solves(s, k - 1)
      BY <2>3
    <2>. DEFINE t == [s EXCEPT ![k] = H[k][s]]
    <2>5. t \in [1..N -> V] /\ k \in 1..N
      BY <1>0, <2>1, <2>2
    <2>6. \A m \in 1..N : m # k => t[m] = s[m]
      BY <2>5
    <2>7. t[k] = H[k][s]
      BY <2>5
    <2>8. ASSUME NEW n \in 1..k PROVE t[n] = H[n][t]
      <3>1. \A m \in 1..(n - 1) : s[m] = t[m]
        BY <2>5, <2>6
      <3>2. H[n][s] = H[n][t]
        <4>1. n \in 1..N
          BY <2>1
        <4>. HIDE DEF t
        <4>. QED
          BY <1>0, <3>1, <2>5, <4>1 DEF Local
      <3>3. n # k => t[n] = s[n] /\ s[n] = H[n][s]
        BY <2>4, <2>5, <2>6
      <3>. QED
        BY <3>2, <3>3, <2>7
    <2>. QED
      BY <2>1, <2>5, <2>8
  <1>2. PICK s \in [1..N -> V] : Solves(s, N)
    <2>1. N \in 0..N
      OBVIOUS
    <2>. HIDE DEF Solves
    <2>. QED
      BY <1>1, <2>1
  <1>3. s = [n \in 1..N |-> H[n][s]]
    BY <1>2
  <1>. QED
    BY <1>3 DEF Fixpoint

Nodes == 1..Len(Filters)

\* What extract_inmailbox_scope makes of node n, given the scopes of its operands.
ScopeAt(scope, n) ==
    LET node == Filters[n]
        operands == {scope[m] : m \in node.of}
        bounded == operands \ {Unbounded}
    IN  CASE node.op = "inMailbox" -> {node.folder}
          [] node.op = "AND" -> IF bounded = {} THEN Unbounded ELSE UNION bounded
          [] node.op = "OR" -> IF bounded = operands /\ operands # {} THEN UNION operands
                               ELSE Unbounded
          [] OTHER -> Unbounded

\* What evaluate_filter makes of it, given what its operands select.
SelectsAt(selects, n) ==
    LET node == Filters[n]
    IN  CASE node.op = "AND" -> {i \in Items : \A m \in node.of : i \in selects[m]}
          [] node.op = "OR" -> {i \in Items : \E m \in node.of : i \in selects[m]}
          [] node.op = "NOT" -> {i \in Items : ~\E m \in node.of : i \in selects[m]}
          [] OTHER -> {i \in Items : MatchCondition(node, i)}

LEMMA NodeCases ==
    ASSUME NEW n \in Nodes
    PROVE  /\ Len(Filters) \in Nat /\ n \in Nat
           /\ \/ Filters[n].op = "inMailbox" /\ Filters[n].folder \in Folders
              \/ Filters[n].op = "other"
              \/ Filters[n].op \in {"AND", "OR", "NOT"} /\ Filters[n].of \subseteq 1..(n - 1)
  BY FilterAssumption DEF Nodes, Condition, Operator

\* The same, case by case.
LEMMA ScopeAtCases ==
    ASSUME NEW s, NEW n
    PROVE  /\ Filters[n].op = "inMailbox" => ScopeAt(s, n) = {Filters[n].folder}
           /\ Filters[n].op = "AND" =>
                  LET bounded == {s[m] : m \in Filters[n].of} \ {Unbounded}
                  IN  ScopeAt(s, n) = IF bounded = {} THEN Unbounded ELSE UNION bounded
           /\ Filters[n].op = "OR" =>
                  LET operands == {s[m] : m \in Filters[n].of}
                  IN  ScopeAt(s, n) = IF operands \ {Unbounded} = operands /\ operands # {}
                                      THEN UNION operands ELSE Unbounded
           /\ Filters[n].op \in {"other", "NOT"} => ScopeAt(s, n) = Unbounded
  <1>1. Filters[n].op = "inMailbox" => ScopeAt(s, n) = {Filters[n].folder}
    BY Zenon DEF ScopeAt
  <1>2. ASSUME Filters[n].op = "AND"
        PROVE  LET bounded == {s[m] : m \in Filters[n].of} \ {Unbounded}
               IN  ScopeAt(s, n) = IF bounded = {} THEN Unbounded ELSE UNION bounded
    BY <1>2, Zenon DEF ScopeAt
  <1>3. ASSUME Filters[n].op = "OR"
        PROVE  LET operands == {s[m] : m \in Filters[n].of}
               IN  ScopeAt(s, n) = IF operands \ {Unbounded} = operands /\ operands # {}
                                   THEN UNION operands ELSE Unbounded
    BY <1>3, Zenon DEF ScopeAt
  <1>4. ASSUME Filters[n].op \in {"other", "NOT"} PROVE ScopeAt(s, n) = Unbounded
    BY <1>4, Zenon DEF ScopeAt
  <1>. QED
    BY <1>1, <1>2, <1>3, <1>4

LEMMA SelectsAtCases ==
    ASSUME NEW s, NEW n
    PROVE  /\ Filters[n].op = "AND" =>
                  SelectsAt(s, n) = {i \in Items : \A m \in Filters[n].of : i \in s[m]}
           /\ Filters[n].op = "OR" =>
                  SelectsAt(s, n) = {i \in Items : \E m \in Filters[n].of : i \in s[m]}
           /\ Filters[n].op = "NOT" =>
                  SelectsAt(s, n) = {i \in Items : ~\E m \in Filters[n].of : i \in s[m]}
           /\ Filters[n].op \in {"inMailbox", "other"} =>
                  SelectsAt(s, n) = {i \in Items : MatchCondition(Filters[n], i)}
  <1>1. Filters[n].op = "AND" =>
            SelectsAt(s, n) = {i \in Items : \A m \in Filters[n].of : i \in s[m]}
    BY Zenon DEF SelectsAt
  <1>2. Filters[n].op = "OR" =>
            SelectsAt(s, n) = {i \in Items : \E m \in Filters[n].of : i \in s[m]}
    BY Zenon DEF SelectsAt
  <1>3. Filters[n].op = "NOT" =>
            SelectsAt(s, n) = {i \in Items : ~\E m \in Filters[n].of : i \in s[m]}
    BY Zenon DEF SelectsAt
  <1>4. Filters[n].op \in {"inMailbox", "other"} =>
            SelectsAt(s, n) = {i \in Items : MatchCondition(Filters[n], i)}
    BY Zenon DEF SelectsAt
  <1>. QED
    BY <1>1, <1>2, <1>3, <1>4

LEMMA ScopeEquation ==
    \A n \in Nodes : Scope[n] = ScopeAt(Scope, n)
  <1>. DEFINE V == SUBSET (Folders \cup {NoFolder})
              H == [n \in Nodes |-> [s \in [Nodes -> V] |-> ScopeAt(s, n)]]
              Works(s) == s = [n \in Nodes |-> ScopeAt(s, n)]
  <1>1. ASSUME NEW s \in [Nodes -> V], NEW n \in Nodes PROVE ScopeAt(s, n) \in V
    <2>. DEFINE of == {s[m] : m \in Filters[n].of}
    <2>1. CASE Filters[n].op = "inMailbox"
      BY <2>1, NodeCases, ScopeAtCases
    <2>2. CASE Filters[n].op \in {"other", "NOT"}
      BY <2>2, ScopeAtCases DEF Unbounded
    <2>3. CASE Filters[n].op \in {"AND", "OR"}
      <3>1. of \subseteq V
        BY <2>3, NodeCases DEF Nodes
      <3>2. UNION of \in V /\ UNION (of \ {Unbounded}) \in V /\ Unbounded \in V
        BY <3>1 DEF Unbounded
      <3>3. ScopeAt(s, n) \in {UNION of, UNION (of \ {Unbounded}), Unbounded}
        <4>1. CASE Filters[n].op = "AND"
          BY <4>1, ScopeAtCases
        <4>2. CASE Filters[n].op = "OR"
          BY <4>2, ScopeAtCases
        <4>. QED
          BY <2>3, <4>1, <4>2
      <3>. QED
        BY <3>2, <3>3
    <2>. QED
      BY <2>1, <2>2, <2>3, NodeCases
  <1>2. ASSUME NEW s \in [Nodes -> V], NEW t \in [Nodes -> V], NEW n \in Nodes,
               \A m \in 1..(n - 1) : s[m] = t[m]
        PROVE  ScopeAt(s, n) = ScopeAt(t, n)
    <2>1. CASE Filters[n].op \in {"inMailbox", "other", "NOT"}
      BY <2>1, ScopeAtCases
    <2>2. CASE Filters[n].op \in {"AND", "OR"}
      <3>1. {s[m] : m \in Filters[n].of} = {t[m] : m \in Filters[n].of}
        BY <1>2, <2>2, NodeCases
      <3>. DEFINE Of(z) == {z[m] : m \in Filters[n].of}
                  Meet(of) == IF of \ {Unbounded} = {} THEN Unbounded ELSE UNION (of \ {Unbounded})
                  Join(of) == IF of \ {Unbounded} = of /\ of # {} THEN UNION of ELSE Unbounded
      <3>4. \A z : /\ Filters[n].op = "AND" => ScopeAt(z, n) = Meet(Of(z))
                   /\ Filters[n].op = "OR" => ScopeAt(z, n) = Join(Of(z))
        BY ScopeAtCases
      <3>5. Of(s) = Of(t)
        BY <3>1
      <3>. HIDE DEF Of, Meet, Join
      <3>2. CASE Filters[n].op = "AND"
        BY <3>2, <3>4, <3>5
      <3>3. CASE Filters[n].op = "OR"
        BY <3>3, <3>4, <3>5
      <3>. QED
        BY <2>2, <3>2, <3>3
    <2>. QED
      BY <2>1, <2>2, NodeCases
  <1>3. \E s : Works(s)
    <2>1. H \in [Nodes -> [[Nodes -> V] -> V]]
      BY <1>1
    <2>2. Local(H, Len(Filters), V)
      BY <1>2 DEF Local, Nodes
    <2>3. V # {} /\ Len(Filters) \in Nat
      BY FilterAssumption
    <2>4. PICK s \in [Nodes -> V] : Fixpoint(s, H, Len(Filters))
      <3>. HIDE DEF H, V
      <3>. QED
        BY <2>1, <2>2, <2>3, Recursion DEF Nodes, Functional
    <2>5. s = [n \in Nodes |-> H[n][s]]
      BY <2>4 DEF Fixpoint, Nodes
    <2>6. s = [n \in Nodes |-> ScopeAt(s, n)]
      BY <2>5
    <2>. QED
      BY <2>6
  <1>4. Scope = CHOOSE s : Works(s)
    BY DEF Scope, ScopeAt, Nodes
  <1>5. Works(Scope)
    <2>. HIDE DEF Works
    <2>. QED
      BY <1>3, <1>4
  <1>. QED
    BY <1>5

LEMMA SelectsEquation ==
    \A n \in Nodes : Selects[n] = SelectsAt(Selects, n)
  <1>. DEFINE V == SUBSET Items
              H == [n \in Nodes |-> [s \in [Nodes -> V] |-> SelectsAt(s, n)]]
              Works(s) == s = [n \in Nodes |-> SelectsAt(s, n)]
  <1>1. ASSUME NEW s \in [Nodes -> V], NEW n \in Nodes PROVE SelectsAt(s, n) \in V
    BY NodeCases, SelectsAtCases
  <1>2. ASSUME NEW s \in [Nodes -> V], NEW t \in [Nodes -> V], NEW n \in Nodes,
               \A m \in 1..(n - 1) : s[m] = t[m]
        PROVE  SelectsAt(s, n) = SelectsAt(t, n)
    <2>1. CASE Filters[n].op \in {"inMailbox", "other"}
      BY <2>1, SelectsAtCases
    <2>2. CASE Filters[n].op \in {"AND", "OR", "NOT"}
      <3>1. \A m \in Filters[n].of : s[m] = t[m]
        BY <1>2, <2>2, NodeCases
      <3>. DEFINE All(z) == {i \in Items : \A m \in Filters[n].of : i \in z[m]}
                  Some(z) == {i \in Items : \E m \in Filters[n].of : i \in z[m]}
                  None(z) == {i \in Items : ~\E m \in Filters[n].of : i \in z[m]}
      <3>5. All(s) = All(t) /\ Some(s) = Some(t) /\ None(s) = None(t)
        BY <3>1
      <3>6. \A z : /\ Filters[n].op = "AND" => SelectsAt(z, n) = All(z)
                   /\ Filters[n].op = "OR" => SelectsAt(z, n) = Some(z)
                   /\ Filters[n].op = "NOT" => SelectsAt(z, n) = None(z)
        BY SelectsAtCases
      <3>. HIDE DEF All, Some, None
      <3>2. CASE Filters[n].op = "AND"
        BY <3>2, <3>5, <3>6
      <3>3. CASE Filters[n].op = "OR"
        BY <3>3, <3>5, <3>6
      <3>4. CASE Filters[n].op = "NOT"
        BY <3>4, <3>5, <3>6
      <3>. QED
        BY <2>2, <3>2, <3>3, <3>4
    <2>. QED
      BY <2>1, <2>2, NodeCases
  <1>3. \E s : Works(s)
    <2>1. H \in [Nodes -> [[Nodes -> V] -> V]]
      BY <1>1
    <2>2. Local(H, Len(Filters), V)
      BY <1>2 DEF Local, Nodes
    <2>3. V # {} /\ Len(Filters) \in Nat
      BY FilterAssumption
    <2>4. PICK s \in [Nodes -> V] : Fixpoint(s, H, Len(Filters))
      <3>. HIDE DEF H, V
      <3>. QED
        BY <2>1, <2>2, <2>3, Recursion DEF Nodes, Functional
    <2>5. s = [n \in Nodes |-> H[n][s]]
      BY <2>4 DEF Fixpoint, Nodes
    <2>6. s = [n \in Nodes |-> SelectsAt(s, n)]
      BY <2>5
    <2>. QED
      BY <2>6
  <1>4. Selects = CHOOSE s : Works(s)
    BY DEF Selects, SelectsAt, Nodes
  <1>5. Works(Selects)
    <2>. HIDE DEF Works
    <2>. QED
      BY <1>3, <1>4
  <1>. QED
    BY <1>5

\* A filter selects nothing outside its scope, if it has one.
Covers(n) ==
    /\ Scope[n] \in (SUBSET Folders) \cup {Unbounded}
    /\ \A i \in Selects[n] : i \in Items /\ (Scope[n] = Unbounded \/ HomeOf[i] \in Scope[n])

LEMMA ScopeCovers == \A n \in Nodes : Covers(n)
  <1>. DEFINE Bad == {n \in Nodes : ~Covers(n)}
  <1>. SUFFICES ASSUME Bad # {} PROVE FALSE
    OBVIOUS
  <1>1. PICK n \in Bad : \A y \in Bad : n <= y
    <2>1. Bad \in SUBSET Nat
      BY DEF Nodes
    <2>. HIDE DEF Bad
    <2>. QED
      BY <2>1, LeastOf
  <1>2. n \in Nodes /\ ~Covers(n)
    BY <1>1
  <1>3. \A m \in 1..(n - 1) : Covers(m)
    BY <1>1, NodeCases DEF Nodes
  <1>4. Scope[n] = ScopeAt(Scope, n) /\ Selects[n] = SelectsAt(Selects, n)
    BY <1>2, ScopeEquation, SelectsEquation
  <1>. DEFINE operands == {Scope[m] : m \in Filters[n].of}
              bounded == operands \ {Unbounded}
  <1>5. ASSUME Filters[n].op \in {"other", "NOT"} PROVE Covers(n)
    <2>1. Scope[n] = Unbounded /\ Selects[n] \subseteq Items
      BY <1>4, <1>5, ScopeAtCases, SelectsAtCases
    <2>. QED
      BY <1>2, <2>1 DEF Covers
  <1>6. ASSUME Filters[n].op = "inMailbox" PROVE Covers(n)
    <2>1. Scope[n] = {Filters[n].folder} /\ Filters[n].folder \in Folders
      BY <1>2, <1>4, <1>6, NodeCases, ScopeAtCases
    <2>2. \A i \in Selects[n] : i \in Items /\ HomeOf[i] = Filters[n].folder
      BY <1>4, <1>6, SelectsAtCases DEF MatchCondition
    <2>. QED
      BY <1>2, <2>1, <2>2 DEF Covers
  <1>7. ASSUME Filters[n].op \in {"AND", "OR"} PROVE Covers(n)
    <2>1. \A m \in Filters[n].of : Covers(m)
      BY <1>2, <1>3, <1>7, NodeCases
    <2>2. bounded \subseteq SUBSET Folders
      <3>1. \A m \in Filters[n].of : Scope[m] \in (SUBSET Folders) \cup {Unbounded}
        BY <2>1 DEF Covers
      <3>. QED
        BY <3>1
    <2>3. CASE Scope[n] = Unbounded
      <3>1. Selects[n] \subseteq Items
        BY <1>4, <1>7, SelectsAtCases
      <3>. QED
        BY <1>2, <2>3, <3>1 DEF Covers
    <2>4. CASE Scope[n] # Unbounded /\ Filters[n].op = "AND"
      <3>1. Scope[n] = UNION bounded /\ bounded # {}
        BY <1>4, <2>4, ScopeAtCases
      <3>2. PICK m \in Filters[n].of : Scope[m] \in bounded
        BY <3>1
      <3>3. \A i \in Selects[n] : i \in Items /\ i \in Selects[m]
        BY <1>4, <2>4, <3>2, SelectsAtCases
      <3>4. \A i \in Selects[n] : HomeOf[i] \in Scope[m]
        BY <2>1, <3>2, <3>3 DEF Covers
      <3>. QED
        BY <1>2, <2>2, <3>1, <3>2, <3>3, <3>4 DEF Covers
    <2>5. CASE Scope[n] # Unbounded /\ Filters[n].op = "OR"
      <3>1. Scope[n] = UNION operands /\ bounded = operands
        BY <1>4, <2>5, ScopeAtCases
      <3>2. ASSUME NEW i \in Selects[n] PROVE i \in Items /\ HomeOf[i] \in Scope[n]
        <4>1. i \in Items /\ \E m \in Filters[n].of : i \in Selects[m]
          BY <1>4, <2>5, SelectsAtCases
        <4>2. PICK m \in Filters[n].of : i \in Selects[m]
          BY <4>1
        <4>3. Scope[m] # Unbounded
          BY <3>1, <4>2
        <4>4. HomeOf[i] \in Scope[m]
          BY <2>1, <4>2, <4>3 DEF Covers
        <4>. QED
          BY <3>1, <4>1, <4>2, <4>4
      <3>. QED
        BY <1>2, <2>2, <3>1, <3>2 DEF Covers
    <2>. QED
      BY <1>7, <2>3, <2>4, <2>5
  <1>. QED
    BY <1>2, <1>5, <1>6, <1>7, NodeCases

LEMMA FolderIdsType ==
    ASSUME NEW batch \in Batches
    PROVE  FolderIds(batch) \subseteq Folders
  <1>1. Queries(batch) \subseteq Nodes
    BY AccountAssumption DEF Queries, Call, Nodes
  <1>2. \A n \in Queries(batch) : Scope[n] \in (SUBSET Folders) \cup {Unbounded}
    BY <1>1, ScopeCovers DEF Covers
  <1>3. ASSUME NEW f \in FolderIds(batch) PROVE f \in Folders
    <2>1. PICK n \in Queries(batch) : f \in Scope[n] /\ f # NoFolder
      BY DEF FolderIds, Unbounded
    <2>. QED
      BY <1>2, <2>1 DEF Unbounded
  <1>. QED
    BY <1>3

-----------------------------------------------------------------------------
(* Types *)

LEMMA ListingType ==
    ASSUME NEW S \in SUBSET Folders, NEW titles \in [S -> Titles]
    PROVE  titles \in UNION {[T -> Titles] : T \in SUBSET Folders}
  OBVIOUS

LEMMA IdleType == Idle \in Operation
  <1>1. [f \in {} |-> "absent"] \in UNION {[T -> Titles] : T \in SUBSET Folders}
    <2>1. {} \in SUBSET Folders /\ [f \in {} |-> "absent"] \in [{} -> Titles]
      OBVIOUS
    <2>. QED
      BY <2>1, ListingType
  <1>. QED
    BY <1>1 DEF Idle, Operation, Kinds

LEMMA IdleFields ==
    /\ Idle.kind = "none" /\ Idle.pc = "idle" /\ Idle.todo = {} /\ Idle.moving = {}
    /\ Idle.added = {} /\ Idle.deleted = {}
  BY DEF Idle

\* Names: an id, an item, a folder and no other thing.
LEMMA Names ==
    /\ NoItem \notin Items /\ NoFolder \notin Folders /\ Folders \cap Items = {}
    /\ \A i \in Items : HomeOf[i] \in Folders
    /\ "absent" \notin Titles /\ "new" \notin Titles /\ "gone" \notin Titles
    /\ MailFolders \subseteq Folders /\ UserFolders \subseteq MailFolders
  BY AccountAssumption

LEMMA InitIInv == Init => IInv
  <1>. SUFFICES ASSUME Init
                PROVE  IInv
    OBVIOUS
  <1>1. TypeOK
    <2>1. (CHOOSE t \in Titles : TRUE) \in Titles
      BY AccountAssumption
    <2>2. folder \in [Folders -> Titles \cup {"new", "gone"}]
      BY <2>1 DEF Init
    <2>3. keyed \in SUBSET Cached
      BY DEF Init
    <2>. QED
      BY <2>2, <2>3, IdleType DEF Init, TypeOK, Entry
  <1>2. Cached = {} /\ \A id \in Items : ~Row(id)
    BY DEF Init, Cached, Row
  <1>3. ServerInv
    BY <1>2 DEF Init, ServerInv, ToldKeyed, NewFolderEmpty, CachedKnown, DroppedGone
  <1>4. TablesInv
    <2>1. RowsMatchKey
      BY <1>2 DEF RowsMatchKey
    <2>2. LogsFollowTables
      <3>1. \A x \in Folders \cup Items : logged[x] = "none"
        BY DEF Init
      <3>. QED
        BY <1>2, <3>1 DEF LogsFollowTables
    <2>3. OrphansAccountedFor
      BY <1>2, IdleFields DEF Init, OrphansAccountedFor
    <2>. QED
      BY <1>2, <2>1, <2>2, <2>3 DEF TablesInv, RowsExist, MovedAway, StraysDrift
  <1>5. HandInv
    BY IdleFields DEF Init, HandInv, KindsInHand, ListingInHand, PageInHand, CreatedInHand,
                      MailboxInHand, ChangeInHand, MoveInHand, DraftInHand
  <1>. QED
    BY <1>1, <1>3, <1>4, <1>5 DEF IInv

-----------------------------------------------------------------------------
(* Steps that leave the tables alone *)

\* The server goes forward.
Forward ==
    /\ \A i \in Items : /\ srv[i] # "new" => srv'[i] # "new"
                        /\ srv[i] = "gone" => srv'[i] = "gone"
                        /\ srv[i] = "new" => srv'[i] = "new" \/ folder'[HomeOf[i]] # "new"
    /\ \A f \in Folders : /\ folder[f] # "new" => folder'[f] # "new"
                          /\ folder[f] = "gone" => folder'[f] = "gone"

ServerType ==
    /\ folder \in [Folders -> Titles \cup {"new", "gone"}]
    /\ srv \in [Items -> {"new", "there", "gone"}]
    /\ remote \in Nat /\ faults \in Nat

\* The assertion that raises is the one about the mailbox of a changed email.
RaisedRightly ==
    op.pc = "raised" =>
        /\ op.kind \in {"keywords", "both", "destroy"}
        /\ MailboxOf(op.id) \notin Cached

LEMMA TablesKept ==
    ASSUME IInv, Forward, ServerType', op' \in Operation, RaisedRightly',
           UNCHANGED <<store, history>>
    PROVE  TypeOK' /\ ServerInv' /\ TablesInv'
  <1>1. /\ told' = told /\ mailboxes' = mailboxes /\ keyed' = keyed /\ emails' = emails
        /\ logged' = logged /\ strayed' = strayed /\ dropped' = dropped /\ adrift' = adrift
        /\ Cached' = Cached /\ TypeOK
    BY DEF store, history, Cached, IInv
  <1>2. TypeOK'
    BY <1>1 DEF TypeOK, ServerType
  <1>3. ServerInv'
    <2>1. ToldKeyed'
      BY <1>1 DEF IInv, ServerInv, ToldKeyed, Forward, TypeOK
    <2>2. NewFolderEmpty'
      BY Names DEF IInv, ServerInv, NewFolderEmpty, Forward
    <2>3. CachedKnown' /\ DroppedGone'
      BY <1>1 DEF IInv, ServerInv, CachedKnown, DroppedGone, Forward, TypeOK, Cached
    <2>. QED
      BY <2>1, <2>2, <2>3 DEF ServerInv
  <1>4. \A id \in Items : Row(id) <=> Row(id)'
    BY <1>1 DEF Row
  <1>5. \A id \in Items : Row(id) => emails[id] \in Items
    BY <1>1 DEF Row, TypeOK
  <1>6. RowsExist' /\ MovedAway' /\ StraysDrift' /\ LogsFollowTables' /\ OrphansAccountedFor'
    BY <1>1, <1>4, <1>5 DEF IInv, TablesInv, RowsExist, MovedAway, StraysDrift, LogsFollowTables,
                        OrphansAccountedFor, RaisedRightly, MailboxOf, Forward
  <1>7. RowsMatchKey'
    <2>. SUFFICES ASSUME NEW f \in Cached, NEW i \in InFolder(f)
                  PROVE  /\ i \in told /\ srv'[i] = "there" => Holding(i) # {}
                         /\ i \notin told /\ Holding(i) # {} => i \in adrift
      BY <1>1 DEF RowsMatchKey, InFolder, Holding
    <2>1. i \in Items
      BY DEF InFolder
    <2>2. i \in told /\ srv'[i] = "there" => srv[i] = "there"
      BY <1>1, <2>1 DEF IInv, ServerInv, ToldKeyed, Forward, TypeOK
    <2>. QED
      BY <2>2 DEF IInv, TablesInv, RowsMatchKey
  <1>. QED
    BY <1>2, <1>3, <1>6, <1>7 DEF TablesInv

\* What is in hand stays true whatever others change.
LEMMA HandKept ==
    ASSUME IInv, Forward, UNCHANGED <<store, history>>,
           \A x \in {"kind", "pc", "batch", "todo", "listing", "folder", "title", "added", "deleted",
                     "skipped", "id", "item", "status"} : op'[x] = op[x]
    PROVE  HandInv' /\ RaisedRightly'
  <1>1. /\ told' = told /\ mailboxes' = mailboxes /\ keyed' = keyed /\ emails' = emails
        /\ dropped' = dropped /\ Cached' = Cached /\ TypeOK
    BY DEF store, history, Cached, IInv
  <1>2. /\ op'.kind = op.kind /\ op'.pc = op.pc /\ op'.todo = op.todo /\ op'.listing = op.listing
        /\ op'.folder = op.folder /\ op'.title = op.title /\ op'.added = op.added
        /\ op'.deleted = op.deleted /\ op'.id = op.id /\ op'.item = op.item /\ op'.status = op.status
    OBVIOUS
  <1>3. op \in Operation /\ HandInv /\ \A id \in Items : Row(id)' <=> Row(id)
    BY <1>1 DEF IInv, TypeOK, Row
  <1>4. KindsInHand' /\ MailboxInHand'
    BY <1>1, <1>2, <1>3 DEF HandInv, KindsInHand, MailboxInHand
  <1>5. ListingInHand'
    BY <1>1, <1>2, <1>3, Names DEF HandInv, ListingInHand, Listed, Forward, Cached
  <1>6. PageInHand'
    BY <1>1, <1>2, <1>3 DEF HandInv, PageInHand, InFolder, ToldBy, Row, Forward, Operation
  <1>7. CreatedInHand'
    BY <1>1, <1>2, <1>3, Names DEF HandInv, CreatedInHand, RowsIn, InFolder, Forward
  <1>8. ChangeInHand'
    BY <1>1, <1>2, <1>3 DEF HandInv, ChangeInHand
  <1>9. MoveInHand' /\ DraftInHand'
    BY <1>1, <1>2, <1>3 DEF HandInv, MoveInHand, DraftInHand, Row, TypeOK, Forward
  <1>10. RaisedRightly'
    BY <1>1, <1>2 DEF RaisedRightly, MailboxOf, IInv, TablesInv, OrphansAccountedFor
  <1>. QED
    BY <1>4, <1>5, <1>6, <1>7, <1>8, <1>9, <1>10 DEF HandInv

LEMMA ItemFields ==
    ASSUME TypeOK, NEW i \in Items
    PROVE  HomeOf[i] \in Folders /\ srv[i] \in {"new", "there", "gone"}
  BY Names DEF TypeOK

LEMMA RemoteIInv ==
    ASSUME IInv, Remote
    PROVE  IInv'
  <1>1. TypeOK /\ op \in Operation
    BY DEF IInv, TypeOK
  <1>2. PICK items \in SUBSET Items : Others(items)
    <2>1. \A f \in Folders : InFolder(f) \in SUBSET Items
      BY DEF InFolder
    <2>2. {} \in SUBSET Items /\ \A i \in Items : {i} \in SUBSET Items
      OBVIOUS
    <2>. QED
      BY <2>1, <2>2 DEF Remote, DropFolder, NewFolder, RenameFolder, Deliver, RemoveItem
  <1>3. Forward /\ ServerType'
    <2>1. remote' \in Nat /\ faults' \in Nat
      BY <1>1, <1>2 DEF Others, TypeOK
    <2>2. ASSUME NEW f \in Folders, DropFolder(f)
          PROVE  Forward /\ ServerType'
      <3>1. \A i \in Items : srv'[i] = IF i \in Visible(f) THEN "gone" ELSE srv[i]
        BY <2>2 DEF DropFolder, Removed
      <3>2. srv' \in [Items -> {"new", "there", "gone"}]
        BY <1>1, <2>2 DEF DropFolder, Removed, TypeOK
      <3>3. \A i \in Visible(f) : srv[i] = "there"
        BY DEF Visible
      <3>4. folder' = [folder EXCEPT ![f] = "gone"]
        BY <2>2 DEF DropFolder
      <3>. QED
        BY <1>1, <2>1, <3>1, <3>2, <3>3, <3>4 DEF Forward, ServerType, TypeOK
    <2>3. ASSUME NEW f \in Folders, NEW t \in Titles, NewFolder(f, t) \/ RenameFolder(f, t)
          PROVE  Forward /\ ServerType'
      <3>1. srv' = srv /\ folder' = [folder EXCEPT ![f] = t] /\ folder[f] # "gone"
        BY <2>3, Names DEF NewFolder, RenameFolder, There
      <3>. QED
        BY <1>1, <2>1, <3>1, Names DEF Forward, ServerType, TypeOK
    <2>4. ASSUME NEW i \in Items, Deliver(i) \/ RemoveItem(i)
          PROVE  Forward /\ ServerType'
      <3>1. /\ folder' = folder
            /\ \/ srv[i] = "new" /\ There(HomeOf[i]) /\ srv' = [srv EXCEPT ![i] = "there"]
               \/ srv[i] = "there" /\ srv' = [srv EXCEPT ![i] = "gone"]
        BY <2>4 DEF Deliver, RemoveItem
      <3>. QED
        BY <1>1, <2>1, <3>1, Names DEF Forward, ServerType, TypeOK, There
    <2>. QED
      BY <2>2, <2>3, <2>4 DEF Remote
  <1>4. op' \in Operation
    <2>1. op.moving \cup items \in SUBSET Items
      BY <1>1 DEF Operation
    <2>. QED
      BY <1>1, <1>2, <2>1 DEF Others, Operation
  <1>5. \A x \in {"kind", "pc", "batch", "todo", "listing", "folder", "title", "added", "deleted",
                  "skipped", "id", "item", "status"} : op'[x] = op[x]
    BY <1>1, <1>2 DEF Others, Operation
  <1>6. UNCHANGED <<store, history>>
    BY <1>2 DEF Others
  <1>7. HandInv' /\ RaisedRightly'
    BY <1>3, <1>5, <1>6, HandKept
  <1>. QED
    BY <1>3, <1>4, <1>6, <1>7, TablesKept DEF IInv

\* A step of an operation that touches neither the server nor the tables.
LEMMA OpStep ==
    ASSUME IInv, UNCHANGED <<server, store, history>>, faults' \in Nat, op' \in Operation,
           HandInv', RaisedRightly'
    PROVE  IInv'
  <1>1. Forward /\ ServerType'
    BY DEF Forward, ServerType, server, IInv, TypeOK
  <1>. QED
    BY <1>1, TablesKept DEF IInv

\* An operation that is over leaves nothing in hand.
LEMMA IdleHand ==
    ASSUME op' = Idle
    PROVE  HandInv' /\ RaisedRightly' /\ op' \in Operation
  BY IdleFields, IdleType DEF HandInv, KindsInHand, ListingInHand, PageInHand, CreatedInHand,
       MailboxInHand, ChangeInHand, MoveInHand, DraftInHand, RaisedRightly

\* In front of its calls, and once it is synced, a batch has nothing in hand.
LEMMA BatchHand ==
    ASSUME op'.kind = "batch", op'.pc \in {"list", "sync", "answer"}
    PROVE  HandInv' /\ RaisedRightly'
  BY DEF HandInv, KindsInHand, ListingInHand, PageInHand, CreatedInHand,
       MailboxInHand, ChangeInHand, MoveInHand, DraftInHand, RaisedRightly

LEMMA EndIInv ==
    ASSUME IInv, AnswerBatch \/ MoveTooFails \/ ServerError \/ Fault
    PROVE  IInv'
  <1>1. op' = Idle /\ UNCHANGED <<server, store, history>> /\ faults' \in Nat
    BY DEF AnswerBatch, MoveTooFails, ServerError, Fault, IInv, TypeOK
  <1>. QED
    BY <1>1, IdleHand, OpStep

LEMMA StartBatchIInv ==
    ASSUME IInv, NEW batch \in Batches, StartBatch(batch)
    PROVE  IInv'
  <1>1. batch \in SUBSET Call /\ FolderIds(batch) \in SUBSET Folders
    BY AccountAssumption, FolderIdsType
  <1>. DEFINE pc == IF ReconcileFolders(batch) THEN "list" ELSE NextFolder(FolderIds(batch))
              ids == FolderIds(batch)
  <1>2. pc \in {"list", "sync", "answer"}
    BY DEF NextFolder
  <1>3. op' = [Idle EXCEPT !.kind = "batch", !.batch = batch, !.todo = ids, !.pc = pc]
    BY DEF StartBatch
  <1>. HIDE DEF pc, ids
  <1>4. op' \in Operation /\ op'.kind = "batch" /\ op'.pc = pc
    <2>1. ids \in SUBSET Folders
      BY <1>1 DEF ids
    <2>. QED
      BY <1>1, <1>2, <1>3, <2>1, IdleType DEF Operation, Kinds
  <1>5. UNCHANGED <<server, store, history>> /\ faults' \in Nat
    BY DEF StartBatch, IInv, TypeOK
  <1>. QED
    BY <1>2, <1>4, <1>5, BatchHand, OpStep

LEMMA SyncFailsIInv ==
    ASSUME IInv, SyncFails
    PROVE  IInv'
  <1>1. op \in Operation /\ op.batch \in SUBSET Call /\ op.moving \in SUBSET Items
    BY DEF IInv, TypeOK, Operation
  <1>2. op' = [Idle EXCEPT !.kind = "batch", !.pc = "answer", !.batch = op.batch, !.skipped = LeftOut,
                           !.moving = op.moving]
    BY DEF SyncFails
  <1>5. LeftOut \in SUBSET Folders
    BY <1>1 DEF LeftOut, Operation
  <1>3. op' \in Operation /\ op'.kind = "batch" /\ op'.pc = "answer"
    BY <1>1, <1>2, <1>5, IdleType DEF Operation, Kinds
  <1>4. UNCHANGED <<server, store, history>> /\ faults' \in Nat
    BY DEF SyncFails, IInv, TypeOK
  <1>. QED
    BY <1>3, <1>4, BatchHand, OpStep

LEMMA ListFoldersIInv ==
    ASSUME IInv, ListFolders
    PROVE  IInv'
  <1>1. op \in Operation /\ TypeOK /\ op.kind = "batch"
    BY DEF IInv, TypeOK, ListFolders, HandInv, KindsInHand
  <1>. DEFINE mail == {g \in MailFolders : There(g)}
              titles == MailFolderListing
  <1>2. mail \in SUBSET Folders /\ titles \in [mail -> Titles] /\ DOMAIN titles = mail
    BY Names DEF MailFolderListing, There
  <1>3. op' = [op EXCEPT !.pc = "listed", !.listing = titles]
    BY DEF ListFolders
  <1>4. op' \in Operation /\ op'.pc = "listed" /\ op'.kind = "batch" /\ op'.listing = titles
    <2>. HIDE DEF mail, titles
    <2>1. titles \in UNION {[T -> Titles] : T \in SUBSET Folders}
      BY <1>2, ListingType
    <2>. QED
      BY <1>1, <1>3, <2>1 DEF Operation
  <1>5. UNCHANGED <<server, store, history>> /\ faults' \in Nat
    BY DEF ListFolders, IInv, TypeOK
  <1>6. ListingInHand'
    <2>1. Listed' = mail /\ Cached' = Cached /\ dropped' = dropped /\ folder' = folder
      BY <1>2, <1>4, <1>5 DEF Listed, Cached, server, store, history
    <2>2. \A f \in mail : f \in MailFolders /\ folder[f] # "new" /\ f \notin dropped
      BY Names DEF There, IInv, ServerInv, DroppedGone
    <2>3. \A f \in Cached \ mail : folder[f] = "gone"
      BY <1>1, Names DEF There, IInv, ServerInv, CachedKnown, TypeOK
    <2>. QED
      BY <2>1, <2>2, <2>3 DEF ListingInHand
  <1>7. HandInv' /\ RaisedRightly'
    BY <1>4, <1>6 DEF HandInv, KindsInHand, PageInHand, CreatedInHand,
         MailboxInHand, ChangeInHand, MoveInHand, DraftInHand, RaisedRightly
  <1>. QED
    BY <1>4, <1>5, <1>7, OpStep

LEMMA SyncCallIInv ==
    ASSUME IInv, NEW f \in Folders, SyncCall(f)
    PROVE  IInv'
  <1>1. op \in Operation /\ TypeOK /\ op.kind = "batch" /\ f \in op.todo
    BY DEF IInv, TypeOK, SyncCall, HandInv, KindsInHand
  <1>. DEFINE added == Visible(f) \ ToldBy(f)
              deleted == ToldBy(f) \ Visible(f)
  <1>2. /\ added \in SUBSET Items /\ deleted \in SUBSET Items
        /\ added \subseteq InFolder(f) \ ToldBy(f) /\ deleted \subseteq ToldBy(f)
        /\ \A i \in added : i \in Items /\ srv[i] = "there"
    BY DEF Visible, ToldBy, InFolder
  <1>3. op' = [op EXCEPT !.pc = "paged", !.folder = f, !.added = added, !.deleted = deleted]
    BY DEF SyncCall
  <1>. HIDE DEF added, deleted
  <1>4. op' \in Operation /\ op'.pc = "paged" /\ op'.kind = "batch" /\ op'.folder = f
        /\ op'.todo = op.todo /\ op'.added = added /\ op'.deleted = deleted
    BY <1>1, <1>2, <1>3 DEF Operation
  <1>5. UNCHANGED <<server, store, history>> /\ faults' \in Nat
    BY DEF SyncCall, IInv, TypeOK
  <1>6. PageInHand'
    <2>1. ToldBy(f)' = ToldBy(f) /\ srv' = srv /\ emails' = emails
      BY <1>5 DEF ToldBy, InFolder, server, store
    <2>2. ToldBy(op.folder)' = ToldBy(f)
      BY <1>4, <2>1 DEF ToldBy, InFolder
    <2>3. InFolder(op.folder)' = InFolder(f)
      BY <1>4 DEF InFolder
    <2>4. \A i \in added : srv[i] # "new" /\ (Row(i) => emails[i] = i)
      BY <1>2 DEF IInv, TablesInv, MovedAway
    <2>. QED
      BY <1>1, <1>2, <1>4, <2>1, <2>2, <2>3, <2>4 DEF PageInHand, Row
  <1>7. HandInv' /\ RaisedRightly'
    BY <1>4, <1>6 DEF HandInv, KindsInHand, ListingInHand, CreatedInHand,
         MailboxInHand, ChangeInHand, MoveInHand, DraftInHand, RaisedRightly
  <1>. QED
    BY <1>4, <1>5, <1>7, OpStep

-----------------------------------------------------------------------------
(* Calls of the /set operations *)

\* A call that was heard: the server has gone forward, the tables are as before.
LEMMA CallStep ==
    ASSUME IInv, Forward, Called, folder' \in [Folders -> Titles \cup {"new", "gone"}],
           srv' \in [Items -> {"new", "there", "gone"}], op' \in Operation, HandInv', RaisedRightly'
    PROVE  IInv'
  <1>1. ServerType' /\ UNCHANGED <<store, history>>
    BY DEF ServerType, Called, IInv, TypeOK
  <1>. QED
    BY <1>1, TablesKept DEF IInv

\* The rows of a folder that was never there: none, nor a mailbox.
LEMMA NewFolderUnknown ==
    ASSUME IInv, NEW f \in Folders, folder[f] = "new"
    PROVE  f \notin Cached /\ RowsIn(f) = {}
  <1>1. f \notin Cached
    BY DEF IInv, ServerInv, CachedKnown
  <1>2. ASSUME NEW id \in RowsIn(f)
        PROVE  FALSE
    <2>1. id \in Items /\ emails[id] \in Items /\ HomeOf[emails[id]] = f /\ Row(id)
      BY <1>2, Names DEF RowsIn, InFolder, Row
    <2>. QED
      BY <2>1 DEF IInv, ServerInv, NewFolderEmpty, TablesInv, RowsExist
  <1>. QED
    BY <1>1, <1>2

LEMMA CreateCallIInv ==
    ASSUME IInv, NEW f \in Folders, NEW t \in Titles, CreateCall(f, t)
    PROVE  IInv'
  <1>1. TypeOK /\ Called /\ folder' = [folder EXCEPT ![f] = t] /\ srv' = srv /\ folder[f] = "new"
        /\ f \in MailFolders
    BY Names DEF IInv, CreateCall
  <1>2. Forward
    BY <1>1, Names DEF Forward, TypeOK
  <1>3. op' \in Operation /\ op'.kind = "create" /\ op'.pc = "commit" /\ op'.folder = f /\ op'.title = t
    BY IdleType DEF CreateCall, Operation, Kinds
  <1>4. CreatedInHand'
    <2>1. Cached' = Cached /\ RowsIn(f)' = RowsIn(f)
      BY <1>1 DEF Called, store, Cached, RowsIn, InFolder
    <2>2. RowsIn(op.folder)' = RowsIn(f)'
      BY <1>3 DEF RowsIn, InFolder
    <2>3. folder'[f] # "new"
      BY <1>1, Names DEF TypeOK
    <2>. QED
      BY <1>1, <1>3, <2>1, <2>2, <2>3, NewFolderUnknown DEF CreatedInHand
  <1>5. HandInv' /\ RaisedRightly'
    BY <1>3, <1>4 DEF HandInv, KindsInHand, ListingInHand, PageInHand,
         MailboxInHand, ChangeInHand, MoveInHand, DraftInHand, RaisedRightly
  <1>. QED
    BY <1>1, <1>2, <1>3, <1>5, CallStep DEF TypeOK

LEMMA RenameCallIInv ==
    ASSUME IInv, NEW f \in Folders, NEW t \in Titles, RenameCall(f, t)
    PROVE  IInv'
  <1>1. TypeOK /\ Called /\ folder' = [folder EXCEPT ![f] = t] /\ srv' = srv /\ folder[f] \in Titles
        /\ f \in Cached
    BY DEF IInv, RenameCall, There
  <1>2. Forward
    BY <1>1, Names DEF Forward, TypeOK
  <1>3. op' \in Operation /\ op'.kind = "rename" /\ op'.pc = "commit" /\ op'.folder = f /\ op'.title = t
    BY IdleType DEF RenameCall, Operation, Kinds
  <1>4. Cached' = Cached
    BY <1>1 DEF Called, store, Cached
  <1>5. HandInv' /\ RaisedRightly'
    BY <1>1, <1>3, <1>4 DEF HandInv, KindsInHand, ListingInHand, PageInHand, CreatedInHand,
         MailboxInHand, ChangeInHand, MoveInHand, DraftInHand, RaisedRightly
  <1>. QED
    BY <1>1, <1>2, <1>3, <1>5, CallStep DEF TypeOK

LEMMA RemoveCallIInv ==
    ASSUME IInv, NEW f \in Folders, RemoveCall(f)
    PROVE  IInv'
  <1>1. TypeOK /\ Called /\ folder' = [folder EXCEPT ![f] = "gone"] /\ srv' = Removed(f)
        /\ folder[f] \in Titles /\ f \in Cached
    BY DEF IInv, RemoveCall, There
  <1>2. srv' \in [Items -> {"new", "there", "gone"}]
        /\ \A i \in Items : srv'[i] = srv[i] \/ (srv'[i] = "gone" /\ srv[i] = "there")
    BY <1>1 DEF Removed, TypeOK, Visible
  <1>3. Forward
    BY <1>1, <1>2, Names DEF Forward, TypeOK
  <1>4. op' \in Operation /\ op'.kind = "remove" /\ op'.pc = "commit" /\ op'.folder = f
    BY IdleType DEF RemoveCall, Operation, Kinds
  <1>5. Cached' = Cached
    BY <1>1 DEF Called, store, Cached
  <1>6. HandInv' /\ RaisedRightly'
    BY <1>1, <1>4, <1>5 DEF HandInv, KindsInHand, ListingInHand, PageInHand, CreatedInHand,
         MailboxInHand, ChangeInHand, MoveInHand, DraftInHand, RaisedRightly
  <1>. QED
    BY <1>1, <1>2, <1>3, <1>4, <1>6, CallStep DEF TypeOK

LEMMA ChangeCallIInv ==
    ASSUME IInv, NEW kind, NEW id \in Items, NEW to \in Folders \cup {NoFolder},
           ChangeCall(kind, id, to)
    PROVE  IInv'
  <1>1. TypeOK /\ kind \in {"keywords", "both", "destroy"} /\ Row(id) /\ emails[id] \in Items
        /\ HomeOf[emails[id]] \in Folders
    BY Names DEF IInv, ChangeCall, Row, TypeOK
  <1>2. CASE MailboxOf(id) \notin Cached /\ op' = [Idle EXCEPT !.kind = kind, !.pc = "raised", !.id = id]
             /\ UNCHANGED <<server, store, history, faults>>
    <2>1. op' \in Operation /\ op'.kind = kind /\ op'.pc = "raised" /\ op'.id = id
      BY <1>1, <1>2, IdleType DEF Operation, Kinds
    <2>2. RaisedRightly'
      <3>1. MailboxOf(op.id)' = MailboxOf(id) /\ Cached' = Cached
        BY <1>2, <2>1 DEF MailboxOf, Cached, store
      <3>. QED
        BY <1>1, <1>2, <2>1, <3>1 DEF RaisedRightly
    <2>3. HandInv'
      BY <1>1, <2>1 DEF HandInv, KindsInHand, ListingInHand, PageInHand, CreatedInHand,
           MailboxInHand, ChangeInHand, MoveInHand, DraftInHand
    <2>4. faults' \in Nat
      BY <1>1, <1>2 DEF TypeOK
    <2>. QED
      BY <1>2, <2>1, <2>2, <2>3, <2>4, OpStep
  <1>3. CASE ~(MailboxOf(id) \notin Cached /\ op' = [Idle EXCEPT !.kind = kind, !.pc = "raised", !.id = id]
               /\ UNCHANGED <<server, store, history, faults>>)
    <2>1. /\ srv' = IF kind = "destroy" /\ srv[emails[id]] = "there"
                    THEN [srv EXCEPT ![emails[id]] = "gone"] ELSE srv
          /\ op' = [Idle EXCEPT !.kind = kind, !.pc = "commit", !.id = id, !.folder = to,
                                !.item = emails[id], !.status = srv[emails[id]] = "there"]
          /\ folder' = folder /\ Called
          /\ kind = "both" => to \in Cached
      BY <1>3 DEF ChangeCall, MoveTarget
    <2>2. op' \in Operation /\ op'.kind = kind /\ op'.pc = "commit" /\ op'.id = id
          /\ op'.item = emails[id] /\ op'.folder = to
      <3>. DEFINE status == srv[emails[id]] = "there"
                  item == emails[id]
      <3>1. status \in BOOLEAN /\ item \in Items /\ item = emails[id]
        BY <1>1
      <3>2. op' = [Idle EXCEPT !.kind = kind, !.pc = "commit", !.id = id, !.folder = to,
                               !.item = item, !.status = status]
        BY <2>1
      <3>. HIDE DEF status, item
      <3>3. kind \in Kinds
        BY <1>1 DEF Kinds
      <3>4. op' \in Operation
        BY <3>1, <3>2, <3>3, IdleType DEF Operation
      <3>5. op'.kind = kind /\ op'.pc = "commit" /\ op'.id = id /\ op'.item = item /\ op'.folder = to
        BY <3>2, IdleType DEF Operation
      <3>. QED
        BY <3>1, <3>4, <3>5
    <2>3. Forward /\ srv' \in [Items -> {"new", "there", "gone"}]
      BY <1>1, <2>1 DEF Forward, TypeOK
    <2>4. Cached' = Cached /\ emails' = emails
      BY <2>1 DEF Called, store, Cached
    <2>5. HandInv' /\ RaisedRightly'
      BY <1>1, <2>1, <2>2, <2>4 DEF HandInv, KindsInHand, ListingInHand, PageInHand, CreatedInHand,
           MailboxInHand, ChangeInHand, MoveInHand, DraftInHand, RaisedRightly
    <2>. QED
      BY <1>1, <2>1, <2>2, <2>3, <2>5, CallStep DEF TypeOK
  <1>. QED
    BY <1>2, <1>3

\* What a move does to the server.
LEMMA MoveItemForward ==
    ASSUME IInv, NEW old \in Items, NEW new \in Items, NEW to \in Folders, MoveItem(old, new, to)
    PROVE  /\ Forward /\ folder' = folder /\ srv' \in [Items -> {"new", "there", "gone"}]
           /\ srv'[old] = "gone" /\ srv'[new] # "new" /\ HomeOf[new] = to
  BY Names DEF MoveItem, Forward, IInv, TypeOK, There

LEMMA MoveCallIInv ==
    ASSUME IInv, NEW id \in Items, NEW to \in Folders, NEW new \in Items, MoveCall(id, to, new)
    PROVE  IInv'
  <1>1. TypeOK /\ Called /\ to \in Cached /\ Row(id) /\ emails[id] \in Items
    BY DEF IInv, MoveCall, MoveTarget, Row, TypeOK
  <1>2. /\ Forward /\ folder' = folder /\ srv' \in [Items -> {"new", "there", "gone"}]
        /\ srv'[emails[id]] = "gone" /\ srv'[new] # "new" /\ HomeOf[new] = to
    BY <1>1, MoveItemForward DEF MoveCall
  <1>3. op' \in Operation /\ op'.kind = "move" /\ op'.pc = "moved" /\ op'.id = id /\ op'.item = new
    BY IdleType DEF MoveCall, Operation, Kinds
  <1>4. Cached' = Cached /\ emails' = emails
    BY <1>1 DEF Called, store, Cached
  <1>5. HandInv' /\ RaisedRightly'
    BY <1>1, <1>2, <1>3, <1>4 DEF HandInv, KindsInHand, ListingInHand, PageInHand, CreatedInHand,
         MailboxInHand, ChangeInHand, MoveInHand, DraftInHand, RaisedRightly, Row
  <1>. QED
    BY <1>1, <1>2, <1>3, <1>5, CallStep DEF TypeOK

LEMMA MoveTooIInv ==
    ASSUME IInv, NEW new \in Items, MoveToo(new)
    PROVE  IInv'
  <1>1. TypeOK /\ Called /\ op \in Operation /\ op.pc = "move" /\ op.kind = "both"
        /\ op.folder \in Cached /\ op.id \in Items /\ Row(op.id) /\ emails[op.id] \in Items
    BY DEF IInv, MoveToo, Row, TypeOK, HandInv, KindsInHand, ChangeInHand
  <1>2. op.folder \in Folders
    BY <1>1 DEF Cached
  <1>3. /\ Forward /\ folder' = folder /\ srv' \in [Items -> {"new", "there", "gone"}]
        /\ srv'[emails[op.id]] = "gone" /\ srv'[new] # "new" /\ HomeOf[new] = op.folder
    BY <1>1, <1>2, MoveItemForward DEF MoveToo
  <1>4. op' \in Operation /\ op'.kind = "both" /\ op'.pc = "moved" /\ op'.id = op.id /\ op'.item = new
    BY <1>1 DEF MoveToo, Operation
  <1>5. Cached' = Cached /\ emails' = emails
    BY <1>1 DEF Called, store, Cached
  <1>6. HandInv' /\ RaisedRightly'
    BY <1>1, <1>3, <1>4, <1>5 DEF HandInv, KindsInHand, ListingInHand, PageInHand, CreatedInHand,
         MailboxInHand, ChangeInHand, MoveInHand, DraftInHand, RaisedRightly, Row
  <1>. QED
    BY <1>1, <1>3, <1>4, <1>6, CallStep DEF TypeOK

LEMMA DraftCallIInv ==
    ASSUME IInv, NEW f \in Folders, NEW new \in Items, DraftCall(f, new)
    PROVE  IInv'
  <1>1. TypeOK /\ Called /\ f \in keyed /\ folder[f] \in Titles /\ srv[new] = "new" /\ HomeOf[new] = f
        /\ folder' = folder /\ srv' = [srv EXCEPT ![new] = "there"]
    BY DEF IInv, DraftCall, There
  <1>2. Forward /\ srv' \in [Items -> {"new", "there", "gone"}] /\ srv'[new] # "new"
    BY <1>1, Names DEF Forward, TypeOK
  <1>3. op' \in Operation /\ op'.kind = "draft" /\ op'.pc = "commit" /\ op'.folder = f /\ op'.item = new
    BY IdleType DEF DraftCall, Operation, Kinds
  <1>4. ~Row(new) /\ emails' = emails /\ keyed' = keyed
    BY <1>1 DEF Called, store, IInv, TablesInv, RowsExist
  <1>5. HandInv' /\ RaisedRightly'
    BY <1>1, <1>2, <1>3, <1>4 DEF HandInv, KindsInHand, ListingInHand, PageInHand, CreatedInHand,
         MailboxInHand, ChangeInHand, MoveInHand, DraftInHand, RaisedRightly, Row
  <1>. QED
    BY <1>1, <1>2, <1>3, <1>5, CallStep DEF TypeOK

LEMMA StartIInv ==
    ASSUME IInv, Start
    PROVE  IInv'
  <1>1. CASE \E f \in Folders : RemoveCall(f) \/ \E t \in Titles : CreateCall(f, t) \/ RenameCall(f, t)
    BY <1>1, RemoveCallIInv, CreateCallIInv, RenameCallIInv
  <1>2. CASE \E id \in Items : \/ \E kind \in {"keywords", "destroy"} : ChangeCall(kind, id, NoFolder)
                               \/ \E to \in Folders : \/ ChangeCall("both", id, to)
                                                     \/ \E new \in Items : MoveCall(id, to, new)
    BY <1>2, ChangeCallIInv, MoveCallIInv
  <1>3. CASE \E f \in Folders, new \in Items : DraftCall(f, new)
    BY <1>3, DraftCallIInv
  <1>. QED
    BY <1>1, <1>2, <1>3, StartBatchIInv DEF Start

-----------------------------------------------------------------------------
(* Commits *)

\* Row i of the table, without the set of its holders.
LEMMA HeldBy ==
    ASSUME NEW i
    PROVE  /\ Holding(i) # {} <=> \E id \in Items : emails[id] = i
           /\ Holding(i)' # {} <=> \E id \in Items : emails'[id] = i
  BY DEF Holding

\* What the parts of the invariant come down to in a transaction that leaves the
\* server as it is: rows with their mailboxes and the log are left to show.
LEMMA ServerStays ==
    ASSUME IInv, UNCHANGED server
    PROVE  NewFolderEmpty' /\ srv' = srv /\ folder' = folder /\ remote' = remote
  BY DEF IInv, ServerInv, NewFolderEmpty, server

LEMMA ReconcileIInv ==
    ASSUME IInv, Reconcile
    PROVE  IInv'
  <1>1. /\ TypeOK /\ op \in Operation /\ op.pc = "listed" /\ op.kind = "batch"
        /\ mailboxes' = Upserted /\ keyed' = keyed \cap Listed
        /\ told' = {i \in told : HomeOf[i] \in keyed \cap Listed}
        /\ dropped' = (dropped \cup Cached) \ Listed /\ strayed' = strayed \ Listed
        /\ UNCHANGED <<server, emails, adrift, faults>>
    BY DEF IInv, TypeOK, Reconcile, Reconciled, HandInv, KindsInHand
  <1>2. /\ Listed \subseteq Folders
        /\ \A f \in Listed : f \in MailFolders /\ folder[f] # "new" /\ f \notin dropped
                             /\ op.listing[f] \in Titles
        /\ \A f \in Cached \ Listed : folder[f] = "gone"
    <2>1. op.listing \in UNION {[S -> Titles] : S \in SUBSET Folders}
      BY <1>1 DEF Operation
    <2>2. PICK S \in SUBSET Folders : op.listing \in [S -> Titles]
      BY <2>1
    <2>3. Listed = S /\ \A f \in Listed : op.listing[f] \in Titles
      BY <2>2 DEF Listed
    <2>. QED
      BY <1>1, <2>3 DEF IInv, HandInv, ListingInHand
  <1>3. Cached' = Listed /\ mailboxes' \in [Folders -> Titles \cup {"absent"}]
    BY <1>1, <1>2, Names DEF Cached, Upserted
  <1>4. Cached \subseteq Folders /\ keyed \subseteq Cached
    BY <1>1 DEF Cached, TypeOK
  <1>5. \A x \in Folders \cup Items :
          logged'[x] = IF x \in Listed THEN IF x \in Cached THEN "updated" ELSE "created"
                       ELSE IF x \in Cached THEN "destroyed" ELSE logged[x]
    BY DEF Reconcile, Reconciled
  <1>6. op'.kind = "batch" /\ op'.pc \in {"sync", "answer"} /\ op' \in Operation
    <2>. DEFINE todo == FoldersToSync
    <2>1. todo \in SUBSET Folders
      BY <1>1, <1>2 DEF FoldersToSync, Operation
    <2>2. Idle.listing \in UNION {[S -> Titles] : S \in SUBSET Folders}
      BY IdleType DEF Operation
    <2>3. op' = [op EXCEPT !.pc = NextFolder(todo), !.todo = todo, !.listing = Idle.listing]
      BY DEF Reconcile, Reconciled
    <2>4. NextFolder(todo) \in {"sync", "answer"}
      BY DEF NextFolder
    <2>. HIDE DEF todo
    <2>. QED
      BY <1>1, <2>1, <2>2, <2>3, <2>4 DEF Operation
  <1>7. HandInv' /\ RaisedRightly'
    BY <1>6, BatchHand
  <1>8. TypeOK'
    <2>1. logged' \in [Folders \cup Items -> Entry]
      BY <1>1 DEF Reconcile, Reconciled, TypeOK, Entry
    <2>. QED
      BY <1>1, <1>2, <1>3, <1>4, <1>6, <2>1 DEF TypeOK, server
  <1>9. srv' = srv /\ folder' = folder /\ emails' = emails /\ adrift' = adrift /\ NewFolderEmpty'
    BY <1>1, ServerStays
  <1>10. ServerInv'
    <2>1. ToldKeyed'
      BY <1>1, <1>9 DEF IInv, ServerInv, ToldKeyed
    <2>2. CachedKnown' /\ DroppedGone'
      BY <1>1, <1>2, <1>3, <1>9 DEF IInv, ServerInv, CachedKnown, DroppedGone
    <2>. QED
      BY <1>9, <2>1, <2>2 DEF ServerInv
  <1>11. \A id \in Items : Row(id)' <=> Row(id)
    BY <1>9 DEF Row
  <1>12. \A id \in Items : Row(id) => emails[id] \in Items /\ MailboxOf(id) \in Folders
    BY <1>1, Names DEF Row, TypeOK, MailboxOf
  <1>13. RowsExist' /\ MovedAway'
    BY <1>9, <1>11 DEF IInv, TablesInv, RowsExist, MovedAway
  <1>14. StraysDrift'
    BY <1>1, <1>3, <1>9, <1>11 DEF IInv, TablesInv, StraysDrift, MailboxOf
  <1>15. OrphansAccountedFor'
    <2>1. \A id \in Items : Row(id) => MailboxOf(id) \in Listed \cup dropped' \cup strayed'
      BY <1>1 DEF IInv, TablesInv, OrphansAccountedFor
    <2>2. \A id \in Items : Row(id)' => MailboxOf(id)' \in Cached' \cup dropped' \cup strayed'
      BY <1>3, <1>9, <1>11, <2>1 DEF MailboxOf
    <2>. QED
      BY <1>7, <2>2 DEF OrphansAccountedFor, RaisedRightly
  <1>16. RowsMatchKey'
    <2>. SUFFICES ASSUME NEW f \in Listed, NEW i \in InFolder(f)
                  PROVE  /\ i \in told' /\ srv[i] = "there" => Holding(i) # {}
                         /\ i \notin told' /\ Holding(i) # {} => i \in adrift
      BY <1>3, <1>9 DEF RowsMatchKey, InFolder, Holding
    <2>1. i \in Items /\ HomeOf[i] = f
      BY DEF InFolder
    <2>2. CASE f \in Cached
      <3>1. i \in told' <=> i \in told
        BY <1>1, <2>1 DEF IInv, ServerInv, ToldKeyed
      <3>. QED
        BY <2>2, <3>1 DEF IInv, TablesInv, RowsMatchKey
    <2>3. CASE f \notin Cached
      <3>1. i \notin told'
        BY <1>1, <1>4, <2>1, <2>3
      <3>2. ASSUME NEW id \in Items, emails[id] = i
            PROVE  i \in adrift
        <4>1. Row(id) /\ MailboxOf(id) = f
          BY <2>1, <3>2, Names DEF Row, MailboxOf
        <4>. QED
          BY <1>2, <2>3, <3>2, <4>1 DEF IInv, TablesInv, StraysDrift
      <3>. QED
        BY <3>1, <3>2, HeldBy
    <2>. QED
      BY <2>2, <2>3
  <1>17. LogsFollowTables'
    <2>1. \A f \in Folders : f \in Listed <=> logged'[f] \in {"created", "updated"}
      BY <1>5, Names DEF IInv, TablesInv, LogsFollowTables
    <2>2. \A id \in Items : logged'[id] = logged[id]
      BY <1>2, <1>4, <1>5, Names
    <2>. QED
      BY <1>3, <1>11, <2>1, <2>2 DEF IInv, TablesInv, LogsFollowTables
  <1>. QED
    BY <1>7, <1>8, <1>10, <1>13, <1>14, <1>15, <1>16, <1>17 DEF IInv, TablesInv

LEMMA SyncCommitIInv ==
    ASSUME IInv, SyncCommit
    PROVE  IInv'
  <1>. DEFINE f == op.folder
              new == {i \in op.added : Holding(i) = {}}
              rows(items) == UNION {Holding(i) : i \in items}
  <1>1. /\ TypeOK /\ op \in Operation /\ op.pc = "paged" /\ op.kind = "batch"
        /\ UNCHANGED <<server, mailboxes, dropped, faults>>
        /\ f \in Folders /\ f \in op.todo
        /\ op.added \subseteq InFolder(f) \ ToldBy(f) /\ op.deleted \subseteq ToldBy(f)
        /\ \A i \in op.added : srv[i] # "new" /\ (Row(i) => emails[i] = i)
    BY DEF IInv, TypeOK, Operation, SyncCommit, HandInv, KindsInHand, PageInHand
  <1>2. /\ op.added \subseteq Items /\ \A i \in op.added : HomeOf[i] = f
        /\ op.deleted \subseteq Items /\ \A i \in op.deleted : HomeOf[i] = f /\ i \in told /\ f \in keyed
        /\ \A i \in op.added : i \notin op.deleted
    BY <1>1 DEF InFolder, ToldBy
  <1>3. \A x, items : x \in rows(items) <=> x \in Items /\ emails[x] \in items
    BY DEF Holding
  <1>4. \A i : i \in new <=> i \in op.added /\ \A id \in Items : emails[id] # i
    BY HeldBy
  <1>5. emails' = [id \in Items |-> IF id \in rows(op.deleted) THEN NoItem
                                    ELSE IF id \in new THEN id ELSE emails[id]]
    BY DEF SyncCommit
  <1>6. logged' = [x \in Folders \cup Items |->
                      IF x \in rows(op.deleted) THEN "destroyed"
                      ELSE IF x \in new THEN "created"
                      ELSE IF x \in rows(op.added) THEN "updated" ELSE logged[x]]
    BY DEF SyncCommit
  <1>7. StoreKey(f, (ToldBy(f) \cup op.added) \ op.deleted)
    BY DEF SyncCommit
  <1>8. adrift' = {i \in (IF f \in Cached THEN adrift \ op.added ELSE adrift \cup op.added) :
                     \E id \in Items : emails'[id] = i}
    BY DEF SyncCommit, Drift
  <1>9. strayed' = IF f \in Cached \/ op.added = {} THEN strayed ELSE strayed \cup {f}
    BY DEF SyncCommit
  <1>10. op'.kind = "batch" /\ op'.pc \in {"sync", "answer"} /\ op' \in Operation
    <2>. DEFINE todo == op.todo \ {f}
    <2>1. todo \in SUBSET Folders
      BY <1>1 DEF Operation
    <2>2. NextFolder(todo) \in {"sync", "answer"}
      BY DEF NextFolder
    <2>3. op' = [op EXCEPT !.pc = NextFolder(todo), !.todo = todo, !.folder = NoFolder, !.added = {},
                           !.deleted = {}]
      BY <1>1 DEF SyncCommit, Operation
    <2>. HIDE DEF todo
    <2>. QED
      BY <1>1, <2>1, <2>2, <2>3 DEF Operation
  <1>11. HandInv' /\ RaisedRightly'
    BY <1>10, BatchHand
  <1>. HIDE DEF rows, new, f
  <1>12. srv' = srv /\ folder' = folder /\ NewFolderEmpty' /\ Cached' = Cached /\ dropped' = dropped
    BY <1>1, ServerStays DEF Cached
  \* What becomes of a row.
  <1>13. \A id \in Items :
           \/ emails[id] \in op.deleted /\ emails'[id] = NoItem /\ logged'[id] = "destroyed"
           \/ /\ emails[id] \notin op.deleted /\ id \notin new /\ emails'[id] = emails[id]
              /\ logged'[id] = IF emails[id] \in op.added THEN "updated" ELSE logged[id]
           \/ id \in new /\ ~Row(id) /\ emails'[id] = id /\ logged'[id] = "created"
    <2>. SUFFICES ASSUME NEW id \in Items
                  PROVE  \/ emails[id] \in op.deleted /\ emails'[id] = NoItem /\ logged'[id] = "destroyed"
                         \/ /\ emails[id] \notin op.deleted /\ id \notin new /\ emails'[id] = emails[id]
                            /\ logged'[id] = IF emails[id] \in op.added THEN "updated" ELSE logged[id]
                         \/ id \in new /\ ~Row(id) /\ emails'[id] = id /\ logged'[id] = "created"
      OBVIOUS
    <2>1. id \in rows(op.deleted) <=> emails[id] \in op.deleted
      BY <1>3
    <2>2. id \in rows(op.added) <=> emails[id] \in op.added
      BY <1>3
    <2>3. id \in new => ~Row(id)
      BY <1>1, <1>4
    <2>. QED
      BY <1>5, <1>6, <2>1, <2>2, <2>3
  <1>14. \A id \in Items : /\ Row(id) <=> emails[id] # NoItem
                           /\ Row(id)' <=> emails'[id] # NoItem
                           /\ Row(id) => emails[id] \in Items /\ HomeOf[emails[id]] \in Folders
    BY <1>1, Names DEF Row, TypeOK
  <1>15. keyed \subseteq Cached
    BY <1>1 DEF TypeOK
  <1>16. /\ f \in Cached => /\ keyed' = keyed \cup {f}
                            /\ told' = (told \ InFolder(f)) \cup ((ToldBy(f) \cup op.added) \ op.deleted)
         /\ f \notin Cached => keyed' = keyed /\ told' = told
    BY <1>7 DEF StoreKey
  <1>17. /\ \A i \in Items : HomeOf[i] # f \/ f \notin Cached => (i \in told' <=> i \in told)
         /\ \A i \in Items : HomeOf[i] = f /\ f \in Cached =>
              (i \in told' <=> (i \in told \/ i \in op.added) /\ i \notin op.deleted)
         /\ told' \subseteq Items
    <2>1. \A i \in Items : HomeOf[i] = f => (i \in ToldBy(f) <=> i \in told)
      BY DEF ToldBy, InFolder, IInv, ServerInv, ToldKeyed
    <2>2. told \subseteq Items /\ ToldBy(f) \subseteq Items
      BY <1>1 DEF TypeOK, ToldBy
    <2>. QED
      BY <1>2, <1>16, <2>1, <2>2 DEF InFolder, ToldBy
  <1>18. TypeOK'
    <2>1. emails' \in [Items -> Items \cup {NoItem}]
      BY <1>1, <1>5 DEF TypeOK
    <2>2. logged' \in [Folders \cup Items -> Entry]
      BY <1>1, <1>6 DEF TypeOK, Entry
    <2>3. keyed' \in SUBSET Cached'
      BY <1>12, <1>15, <1>16
    <2>4. adrift' \in SUBSET Items /\ strayed' \in SUBSET Folders
      BY <1>1, <1>2, <1>8, <1>9 DEF TypeOK
    <2>. QED
      BY <1>1, <1>10, <1>17, <2>1, <2>2, <2>3, <2>4 DEF TypeOK, server
  <1>19. ServerInv'
    <2>1. ToldKeyed'
      <3>. SUFFICES ASSUME NEW i \in told'
                    PROVE  HomeOf[i] \in keyed' /\ srv[i] # "new"
        BY <1>12 DEF ToldKeyed
      <3>1. i \in Items /\ (i \in told \/ (i \in op.added /\ f \in Cached))
        BY <1>17
      <3>. QED
        BY <1>1, <1>2, <1>16, <3>1 DEF IInv, ServerInv, ToldKeyed
    <2>2. CachedKnown' /\ DroppedGone'
      BY <1>12 DEF IInv, ServerInv, CachedKnown, DroppedGone
    <2>. QED
      BY <1>12, <2>1, <2>2 DEF ServerInv
  <1>20. RowsExist' /\ MovedAway'
    BY <1>1, <1>4, <1>12, <1>13, <1>14 DEF IInv, TablesInv, RowsExist, MovedAway
  <1>21. StraysDrift'
    <2>. SUFFICES ASSUME NEW id \in Items, emails'[id] # NoItem
                  PROVE  HomeOf[emails'[id]] \in Cached \cup dropped \/ emails'[id] \in adrift'
      BY <1>12, <1>14 DEF StraysDrift, MailboxOf
    <2>1. CASE id \in new
      BY <1>2, <1>4, <1>8, <1>13, <2>1
    <2>2. CASE id \notin new
      <3>1. emails'[id] = emails[id] /\ Row(id)
        BY <1>13, <1>14, <2>2
      <3>2. HomeOf[emails[id]] \in Cached \cup dropped \/ emails[id] \in adrift
        BY <3>1 DEF IInv, TablesInv, StraysDrift, MailboxOf
      <3>3. HomeOf[emails[id]] = f \/ emails[id] \notin op.added
        BY <1>2
      <3>. QED
        BY <1>8, <3>1, <3>2, <3>3
    <2>. QED
      BY <2>1, <2>2
  <1>22. OrphansAccountedFor'
    <2>1. ASSUME NEW id \in Items, emails'[id] # NoItem
          PROVE  HomeOf[emails'[id]] \in Cached \cup dropped \cup strayed'
      <3>1. CASE id \in new
        <4>1. id \in op.added /\ HomeOf[id] = f /\ emails[id] # id
          BY <1>2, <1>4, <3>1
        <4>2. emails'[id] = id
          BY <1>13, <2>1, <3>1
        <4>3. f \in Cached \/ f \in strayed'
          BY <1>9, <4>1
        <4>. QED
          BY <4>1, <4>2, <4>3
      <3>2. CASE id \notin new
        <4>1. emails'[id] = emails[id] /\ Row(id)
          BY <1>13, <1>14, <2>1, <3>2
        <4>. QED
          BY <1>9, <4>1 DEF IInv, TablesInv, OrphansAccountedFor, MailboxOf
      <3>. QED
        BY <3>1, <3>2
    <2>. QED
      BY <1>11, <1>12, <1>14, <2>1 DEF OrphansAccountedFor, MailboxOf, RaisedRightly
  <1>23. RowsMatchKey'
    <2>. SUFFICES ASSUME NEW g \in Cached, NEW i \in Items, HomeOf[i] = g
                  PROVE  /\ i \in told' /\ srv[i] = "there" => \E id \in Items : emails'[id] = i
                         /\ i \notin told' /\ (\E id \in Items : emails'[id] = i) => i \in adrift'
      BY <1>12, HeldBy DEF RowsMatchKey, InFolder
    <2>1. /\ i \in told /\ srv[i] = "there" => \E id \in Items : emails[id] = i
          /\ i \notin told /\ (\E id \in Items : emails[id] = i) => i \in adrift
      BY HeldBy DEF IInv, TablesInv, RowsMatchKey, InFolder
    <2>2. i # NoItem
      BY Names
    <2>3. i \in told' => i \notin op.deleted /\ (i \in told \/ i \in op.added)
      BY <1>2, <1>17
    <2>4. ASSUME i \in told', srv[i] = "there"
          PROVE  \E id \in Items : emails'[id] = i
      <3>1. CASE \E id \in Items : emails[id] = i
        <4>1. PICK id \in Items : emails[id] = i
          BY <3>1
        <4>. QED
          BY <1>13, <1>14, <2>2, <2>3, <2>4, <4>1
      <3>2. CASE ~\E id \in Items : emails[id] = i
        <4>1. i \in new
          BY <1>4, <2>1, <2>3, <2>4, <3>2
        <4>2. emails[i] \notin op.deleted
          BY <1>2, <1>4, <1>1, <1>14, <4>1, Names
        <4>. QED
          BY <1>13, <4>1, <4>2
      <3>. QED
        BY <3>1, <3>2
    <2>5. ASSUME i \notin told', NEW id \in Items, emails'[id] = i
          PROVE  i \in adrift'
      <3>1. i \notin op.added
        BY <1>2, <1>17, <2>5
      <3>2. emails[id] = i /\ i \notin op.deleted
        BY <1>4, <1>13, <2>2, <2>5, <3>1
      <3>3. i \notin told
        BY <1>17, <2>5, <3>2
      <3>. QED
        BY <1>8, <2>1, <2>5, <3>1, <3>2, <3>3
    <2>. QED
      BY <2>4, <2>5
  <1>24. LogsFollowTables'
    <2>1. \A g \in Folders : logged'[g] = logged[g]
      <3>. SUFFICES ASSUME NEW g \in Folders
                    PROVE  logged'[g] = logged[g]
        OBVIOUS
      <3>1. g \notin Items
        BY Names
      <3>2. g \notin rows(op.deleted) /\ g \notin rows(op.added) /\ g \notin new
        BY <1>2, <1>3, <1>4, <3>1
      <3>. QED
        BY <1>6, <3>2
    <2>2. \A id \in Items : emails'[id] # NoItem <=> logged'[id] \in {"created", "updated"}
      <3>1. \A i \in op.added : i # NoItem
        BY <1>2, Names
      <3>2. \A id \in Items : id # NoItem
        BY Names
      <3>. QED
        BY <1>13, <1>14, <3>1, <3>2 DEF IInv, TablesInv, LogsFollowTables
    <2>. QED
      BY <1>12, <1>14, <2>1, <2>2 DEF IInv, TablesInv, LogsFollowTables
  <1>. QED
    BY <1>11, <1>18, <1>19, <1>20, <1>21, <1>22, <1>23, <1>24 DEF IInv, TablesInv

LEMMA CreateCommitIInv ==
    ASSUME IInv, CreateCommit
    PROVE  IInv'
  <1>. DEFINE f == op.folder
  <1>1. /\ TypeOK /\ op' = Idle /\ f \in MailFolders \ Cached /\ f \in Folders
        /\ op.title \in Titles /\ op.title # "absent" /\ folder[f] # "new" /\ RowsIn(f) = {}
        /\ mailboxes' = [mailboxes EXCEPT ![f] = op.title]
        /\ logged' = [logged EXCEPT ![f] = "created"]
        /\ UNCHANGED <<server, told, keyed, emails, history, faults>>
    BY Names DEF IInv, HandInv, CreatedInHand, CreateCommit, Log
  <1>. HIDE DEF f
  <1>2. /\ told' = told /\ keyed' = keyed /\ emails' = emails /\ strayed' = strayed
        /\ dropped' = dropped /\ adrift' = adrift /\ srv' = srv /\ folder' = folder /\ NewFolderEmpty'
    BY <1>1, ServerStays DEF history
  <1>3. Cached' = Cached \cup {f}
    BY <1>1 DEF Cached, TypeOK
  <1>4. HandInv' /\ RaisedRightly' /\ op' \in Operation
    BY <1>1, IdleHand
  <1>5. TypeOK'
    <2>1. mailboxes' \in [Folders -> Titles \cup {"absent"}] /\ logged' \in [Folders \cup Items -> Entry]
      BY <1>1 DEF TypeOK, Entry
    <2>. QED
      BY <1>1, <1>2, <1>3, <1>4, <2>1 DEF TypeOK, server
  <1>6. ServerInv'
    BY <1>1, <1>2, <1>3 DEF IInv, ServerInv, ToldKeyed, CachedKnown, DroppedGone
  <1>7. RowsExist' /\ MovedAway' /\ StraysDrift'
    BY <1>2, <1>3 DEF IInv, TablesInv, RowsExist, MovedAway, StraysDrift, Row, MailboxOf
  <1>8. OrphansAccountedFor'
    <2>1. \A id \in Items : Row(id)' => MailboxOf(id)' \in Cached' \cup dropped' \cup strayed'
      BY <1>2, <1>3 DEF IInv, TablesInv, OrphansAccountedFor, Row, MailboxOf
    <2>. QED
      BY <1>4, <2>1 DEF OrphansAccountedFor, RaisedRightly
  <1>9. RowsMatchKey'
    <2>. SUFFICES ASSUME NEW g \in Cached', NEW i \in Items, HomeOf[i] = g
                  PROVE  /\ i \in told /\ srv[i] = "there" => Holding(i) # {}
                         /\ i \notin told /\ Holding(i) # {} => i \in adrift
      BY <1>2 DEF RowsMatchKey, InFolder, Holding
    <2>1. CASE g \in Cached
      BY <2>1 DEF IInv, TablesInv, RowsMatchKey, InFolder
    <2>2. CASE g = f
      <3>1. i \notin told
        BY <1>1, <2>2 DEF IInv, TypeOK, ServerInv, ToldKeyed
      <3>2. Holding(i) = {}
        BY <1>1, <2>2 DEF RowsIn, InFolder, Holding
      <3>. QED
        BY <3>1, <3>2
    <2>. QED
      BY <1>3, <2>1, <2>2
  <1>10. LogsFollowTables'
    <2>1. \A x \in Folders \cup Items : logged'[x] = IF x = f THEN "created" ELSE logged[x]
      BY <1>1 DEF TypeOK
    <2>2. f \notin Items
      BY <1>1, Names
    <2>. QED
      BY <1>2, <1>3, <2>1, <2>2 DEF IInv, TablesInv, LogsFollowTables, Row
  <1>. QED
    BY <1>4, <1>5, <1>6, <1>7, <1>8, <1>9, <1>10 DEF IInv, TablesInv

LEMMA RenameCommitIInv ==
    ASSUME IInv, RenameCommit
    PROVE  IInv'
  <1>. DEFINE f == op.folder
  <1>1. /\ TypeOK /\ op' = Idle /\ f \in Cached /\ f \in Folders
        /\ op.title \in Titles /\ op.title # "absent"
        /\ mailboxes' = [mailboxes EXCEPT ![f] = op.title]
        /\ logged' = [logged EXCEPT ![f] = "updated"]
        /\ UNCHANGED <<server, told, keyed, emails, history, faults>>
    BY Names DEF IInv, HandInv, MailboxInHand, RenameCommit, Log, Cached
  <1>. HIDE DEF f
  <1>2. /\ told' = told /\ keyed' = keyed /\ emails' = emails /\ strayed' = strayed
        /\ dropped' = dropped /\ adrift' = adrift /\ srv' = srv /\ folder' = folder /\ NewFolderEmpty'
    BY <1>1, ServerStays DEF history
  <1>3. Cached' = Cached
    BY <1>1 DEF Cached, TypeOK
  <1>4. HandInv' /\ RaisedRightly' /\ op' \in Operation
    BY <1>1, IdleHand
  <1>5. TypeOK'
    <2>1. mailboxes' \in [Folders -> Titles \cup {"absent"}] /\ logged' \in [Folders \cup Items -> Entry]
      BY <1>1 DEF TypeOK, Entry
    <2>. QED
      BY <1>1, <1>2, <1>3, <1>4, <2>1 DEF TypeOK, server
  <1>6. ServerInv'
    BY <1>1, <1>2, <1>3 DEF IInv, ServerInv, ToldKeyed, CachedKnown, DroppedGone
  <1>7. RowsExist' /\ MovedAway' /\ StraysDrift'
    BY <1>2, <1>3 DEF IInv, TablesInv, RowsExist, MovedAway, StraysDrift, Row, MailboxOf
  <1>8. OrphansAccountedFor'
    <2>1. \A id \in Items : Row(id)' => MailboxOf(id)' \in Cached' \cup dropped' \cup strayed'
      BY <1>2, <1>3 DEF IInv, TablesInv, OrphansAccountedFor, Row, MailboxOf
    <2>. QED
      BY <1>4, <2>1 DEF OrphansAccountedFor, RaisedRightly
  <1>9. RowsMatchKey'
    BY <1>2, <1>3 DEF IInv, TablesInv, RowsMatchKey, InFolder, Holding
  <1>10. LogsFollowTables'
    <2>1. \A x \in Folders \cup Items : logged'[x] = IF x = f THEN "updated" ELSE logged[x]
      BY <1>1 DEF TypeOK
    <2>2. f \notin Items
      BY <1>1, Names
    <2>. QED
      BY <1>1, <1>2, <1>3, <2>1, <2>2 DEF IInv, TablesInv, LogsFollowTables, Row
  <1>. QED
    BY <1>4, <1>5, <1>6, <1>7, <1>8, <1>9, <1>10 DEF IInv, TablesInv

LEMMA RemoveCommitIInv ==
    ASSUME IInv, RemoveCommit
    PROVE  IInv'
  <1>. DEFINE f == op.folder
              rows == RowsIn(f)
  <1>1. /\ TypeOK /\ op' = Idle /\ f \in Cached /\ f \in Folders
        /\ emails' = [id \in Items |-> IF id \in rows THEN NoItem ELSE emails[id]]
        /\ logged' = [x \in Folders \cup Items |-> IF x \in rows \cup {f} THEN "destroyed" ELSE logged[x]]
        /\ mailboxes' = [mailboxes EXCEPT ![f] = "absent"]
        /\ keyed' = keyed \ {f} /\ told' = told \ InFolder(f)
        /\ adrift' = {i \in adrift : \E id \in Items : emails'[id] = i}
        /\ UNCHANGED <<server, strayed, dropped, faults>>
    BY DEF IInv, HandInv, MailboxInHand, RemoveCommit, Cascade, Drift, Cached
  <1>2. \A x : x \in rows <=> x \in Items /\ emails[x] \in Items /\ HomeOf[emails[x]] = f
    BY DEF RowsIn, InFolder
  <1>. HIDE DEF f, rows
  <1>3. srv' = srv /\ folder' = folder /\ NewFolderEmpty'
    BY <1>1, ServerStays
  <1>4. Cached' = Cached \ {f}
    BY <1>1 DEF Cached, TypeOK
  <1>5. HandInv' /\ RaisedRightly' /\ op' \in Operation
    BY <1>1, IdleHand
  <1>6. TypeOK'
    <2>1. mailboxes' \in [Folders -> Titles \cup {"absent"}]
          /\ logged' \in [Folders \cup Items -> Entry] /\ emails' \in [Items -> Items \cup {NoItem}]
      BY <1>1 DEF TypeOK, Entry
    <2>2. keyed' \in SUBSET Cached' /\ told' \in SUBSET Items /\ adrift' \in SUBSET Items
      BY <1>1, <1>4 DEF TypeOK
    <2>. QED
      BY <1>1, <1>5, <2>1, <2>2 DEF TypeOK, server
  <1>7. ServerInv'
    BY <1>1, <1>3, <1>4 DEF IInv, ServerInv, ToldKeyed, CachedKnown, DroppedGone, InFolder, TypeOK
  \* The rows that stay are those of other folders.
  <1>8. \A id \in Items :
          /\ emails'[id] = IF id \in rows THEN NoItem ELSE emails[id]
          /\ Row(id)' <=> Row(id) /\ id \notin rows
          /\ Row(id)' => emails'[id] = emails[id] /\ emails[id] \in Items
                         /\ HomeOf[emails[id]] \in Folders /\ HomeOf[emails[id]] # f
    BY <1>1, <1>2, Names DEF Row, TypeOK
  <1>9. RowsExist' /\ MovedAway'
    BY <1>3, <1>8 DEF IInv, TablesInv, RowsExist, MovedAway
  <1>10. StraysDrift' /\ OrphansAccountedFor'
    <2>. SUFFICES ASSUME NEW id \in Items, Row(id)'
                  PROVE  /\ MailboxOf(id)' \in Cached' \cup dropped' \/ emails'[id] \in adrift'
                         /\ MailboxOf(id)' \in Cached' \cup dropped' \cup strayed'
      BY <1>5 DEF StraysDrift, OrphansAccountedFor, RaisedRightly
    <2>1. Row(id) /\ emails'[id] = emails[id] /\ MailboxOf(id)' = MailboxOf(id) /\ MailboxOf(id) # f
      BY <1>8 DEF MailboxOf
    <2>2. /\ MailboxOf(id) \in Cached \cup dropped \/ emails[id] \in adrift
          /\ MailboxOf(id) \in Cached \cup dropped \cup strayed
      BY <2>1 DEF IInv, TablesInv, StraysDrift, OrphansAccountedFor
    <2>. QED
      BY <1>1, <1>4, <2>1, <2>2
  <1>11. RowsMatchKey'
    <2>. SUFFICES ASSUME NEW g \in Cached, g # f, NEW i \in Items, HomeOf[i] = g
                  PROVE  /\ i \in told' /\ srv[i] = "there" => \E id \in Items : emails'[id] = i
                         /\ i \notin told' /\ (\E id \in Items : emails'[id] = i) => i \in adrift'
      BY <1>3, <1>4, HeldBy DEF RowsMatchKey, InFolder
    <2>1. /\ i \in told /\ srv[i] = "there" => \E id \in Items : emails[id] = i
          /\ i \notin told /\ (\E id \in Items : emails[id] = i) => i \in adrift
      BY HeldBy DEF IInv, TablesInv, RowsMatchKey, InFolder
    <2>2. \A id \in Items : emails'[id] = i <=> emails[id] = i
      BY <1>2, <1>8, Names
    <2>3. i \in told' <=> i \in told
      BY <1>1 DEF InFolder
    <2>. QED
      BY <1>1, <2>1, <2>2, <2>3
  <1>12. LogsFollowTables'
    <2>1. \A g \in Folders : logged'[g] = IF g = f THEN "destroyed" ELSE logged[g]
      BY <1>1, <1>2, Names
    <2>2. \A id \in Items : logged'[id] = IF id \in rows THEN "destroyed" ELSE logged[id]
      BY <1>1, Names
    <2>. QED
      BY <1>4, <1>8, <2>1, <2>2 DEF IInv, TablesInv, LogsFollowTables
  <1>. QED
    BY <1>5, <1>6, <1>7, <1>9, <1>10, <1>11, <1>12 DEF IInv, TablesInv

LEMMA ChangeCommitIInv ==
    ASSUME IInv, ChangeCommit
    PROVE  IInv'
  <1>1. /\ TypeOK /\ op \in Operation /\ op.kind \in {"keywords", "both", "destroy"} /\ op.pc = "commit"
        /\ op.id \in Items /\ op.item \in Items /\ emails[op.id] = op.item
        /\ op.kind = "both" => op.folder \in Cached
        /\ UNCHANGED <<server, mailboxes, keyed, emails, logged, strayed, dropped, faults>>
    BY DEF IInv, TypeOK, HandInv, ChangeInHand, ChangeCommit
  <1>2. /\ \A i : i \in told' => i \in told
        /\ \A i : i \in adrift => i \in adrift'
        /\ \A i : i \in told /\ i \notin told' => i \in adrift'
        /\ told' \in SUBSET Items /\ adrift' \in SUBSET Items
        /\ op.status /\ op.kind = "destroy" => op.item \notin told'
    BY <1>1 DEF ChangeCommit, TypeOK
  <1>3. srv' = srv /\ folder' = folder /\ NewFolderEmpty' /\ Cached' = Cached /\ emails' = emails
    BY <1>1, ServerStays DEF Cached
  <1>4. HandInv' /\ RaisedRightly' /\ op' \in Operation
    <2>1. CASE op.status
      <3>1. op' \in Operation /\ op'.kind = op.kind /\ op'.pc = "write" /\ op'.id = op.id
            /\ op'.item = op.item /\ op'.folder = op.folder
        BY <1>1, <2>1 DEF ChangeCommit, Operation
      <3>. QED
        BY <1>1, <1>2, <1>3, <2>1, <3>1 DEF HandInv, KindsInHand, ListingInHand, PageInHand,
             CreatedInHand, MailboxInHand, ChangeInHand, MoveInHand, DraftInHand, RaisedRightly
    <2>2. CASE ~op.status
      BY <2>2, IdleHand DEF ChangeCommit
    <2>. QED
      BY <2>1, <2>2
  <1>5. TypeOK'
    BY <1>1, <1>2, <1>3, <1>4 DEF TypeOK, server
  <1>6. ServerInv'
    BY <1>1, <1>2, <1>3 DEF IInv, ServerInv, ToldKeyed, CachedKnown, DroppedGone
  <1>7. RowsExist' /\ MovedAway' /\ StraysDrift'
    BY <1>1, <1>2, <1>3 DEF IInv, TablesInv, RowsExist, MovedAway, StraysDrift, Row, MailboxOf
  <1>8. OrphansAccountedFor'
    <2>1. \A id \in Items : Row(id)' => MailboxOf(id)' \in Cached' \cup dropped' \cup strayed'
      BY <1>1, <1>3 DEF IInv, TablesInv, OrphansAccountedFor, Row, MailboxOf
    <2>. QED
      BY <1>4, <2>1 DEF OrphansAccountedFor, RaisedRightly
  <1>9. RowsMatchKey'
    <2>. SUFFICES ASSUME NEW g \in Cached, NEW i \in InFolder(g)
                  PROVE  /\ i \in told' /\ srv[i] = "there" => Holding(i) # {}
                         /\ i \notin told' /\ Holding(i) # {} => i \in adrift'
      BY <1>3 DEF RowsMatchKey, InFolder, Holding
    <2>. QED
      BY <1>2 DEF IInv, TablesInv, RowsMatchKey
  <1>10. LogsFollowTables'
    BY <1>1, <1>3 DEF IInv, TablesInv, LogsFollowTables, Row
  <1>. QED
    BY <1>4, <1>5, <1>6, <1>7, <1>8, <1>9, <1>10 DEF IInv, TablesInv

LEMMA ChangeWriteIInv ==
    ASSUME IInv, ChangeWrite
    PROVE  IInv'
  <1>1. /\ TypeOK /\ op \in Operation /\ op.kind \in {"keywords", "both", "destroy"} /\ op.pc = "write"
        /\ op.id \in Items /\ op.item \in Items /\ emails[op.id] = op.item
        /\ op.kind = "both" => op.folder \in Cached
        /\ op.kind = "destroy" => op.item \notin told
        /\ emails' = IF op.kind = "destroy" THEN [emails EXCEPT ![op.id] = NoItem] ELSE emails
        /\ logged' = [logged EXCEPT ![op.id] = IF op.kind = "destroy" THEN "destroyed" ELSE "updated"]
        /\ adrift' = {i \in adrift : \E id \in Items : emails'[id] = i}
        /\ UNCHANGED <<server, told, mailboxes, keyed, strayed, dropped, faults>>
    BY DEF IInv, TypeOK, HandInv, KindsInHand, ChangeInHand, ChangeWrite, Log, Drift
  <1>2. \A id \in Items : /\ emails'[id] = IF id = op.id /\ op.kind = "destroy" THEN NoItem ELSE emails[id]
                          /\ Row(id)' <=> Row(id) /\ ~(id = op.id /\ op.kind = "destroy")
                          /\ Row(id)' => emails'[id] = emails[id] /\ emails[id] \in Items
    BY <1>1, Names DEF Row, TypeOK
  <1>3. srv' = srv /\ folder' = folder /\ NewFolderEmpty' /\ Cached' = Cached
    BY <1>1, ServerStays DEF Cached
  <1>4. HandInv' /\ RaisedRightly' /\ op' \in Operation
    <2>1. CASE op.kind = "both"
      <3>1. op' \in Operation /\ op'.kind = "both" /\ op'.pc = "move" /\ op'.id = op.id
            /\ op'.folder = op.folder
        BY <1>1, <2>1 DEF ChangeWrite, Operation
      <3>2. Row(op.id)'
        <4>1. Row(op.id)
          BY <1>1, Names DEF Row
        <4>2. emails' = emails
          BY <1>1, <2>1
        <4>. QED
          BY <4>1, <4>2, <3>1 DEF Row
      <3>3. ChangeInHand'
        <4>1. op'.pc = "move" /\ op'.id \in Items /\ op'.folder \in Cached'
          BY <1>1, <1>3, <2>1, <3>1
        <4>. QED
          BY <3>2, <4>1 DEF ChangeInHand
      <3>. QED
        BY <3>1, <3>3 DEF HandInv, KindsInHand, ListingInHand, PageInHand,
             CreatedInHand, MailboxInHand, MoveInHand, DraftInHand, RaisedRightly
    <2>2. CASE op.kind # "both"
      BY <2>2, IdleHand DEF ChangeWrite
    <2>. QED
      BY <2>1, <2>2
  <1>5. TypeOK'
    <2>1. emails' \in [Items -> Items \cup {NoItem}] /\ logged' \in [Folders \cup Items -> Entry]
      BY <1>1 DEF TypeOK, Entry
    <2>2. adrift' \in SUBSET Items
      BY <1>1 DEF TypeOK
    <2>. QED
      BY <1>1, <1>3, <1>4, <2>1, <2>2 DEF TypeOK, server
  <1>6. ServerInv'
    BY <1>1, <1>3 DEF IInv, ServerInv, ToldKeyed, CachedKnown, DroppedGone
  <1>7. RowsExist' /\ MovedAway'
    BY <1>2, <1>3 DEF IInv, TablesInv, RowsExist, MovedAway
  <1>8. StraysDrift' /\ OrphansAccountedFor'
    <2>. SUFFICES ASSUME NEW id \in Items, Row(id)'
                  PROVE  /\ MailboxOf(id)' \in Cached \cup dropped \/ emails'[id] \in adrift'
                         /\ MailboxOf(id)' \in Cached \cup dropped \cup strayed
      BY <1>1, <1>3, <1>4 DEF StraysDrift, OrphansAccountedFor, RaisedRightly
    <2>1. Row(id) /\ emails'[id] = emails[id] /\ MailboxOf(id)' = MailboxOf(id)
      BY <1>2 DEF MailboxOf
    <2>. QED
      BY <1>1, <2>1 DEF IInv, TablesInv, StraysDrift, OrphansAccountedFor
  <1>9. RowsMatchKey'
    <2>. SUFFICES ASSUME NEW g \in Cached, NEW i \in Items, HomeOf[i] = g
                  PROVE  /\ i \in told /\ srv[i] = "there" => \E id \in Items : emails'[id] = i
                         /\ i \notin told /\ (\E id \in Items : emails'[id] = i) => i \in adrift'
      BY <1>1, <1>3, HeldBy DEF RowsMatchKey, InFolder
    <2>1. /\ i \in told /\ srv[i] = "there" => \E id \in Items : emails[id] = i
          /\ i \notin told /\ (\E id \in Items : emails[id] = i) => i \in adrift
      BY HeldBy DEF IInv, TablesInv, RowsMatchKey, InFolder
    <2>2. ASSUME i \in told, NEW id \in Items, emails[id] = i
          PROVE  emails'[id] = i
      BY <1>1, <1>2, <2>2
    <2>3. \A id \in Items : emails'[id] = i => emails[id] = i
      BY <1>2, Names
    <2>. QED
      BY <1>1, <2>1, <2>2, <2>3
  <1>10. LogsFollowTables'
    <2>1. \A x \in Folders \cup Items :
            logged'[x] = IF x = op.id THEN IF op.kind = "destroy" THEN "destroyed" ELSE "updated"
                         ELSE logged[x]
      BY <1>1 DEF TypeOK
    <2>2. op.id \notin Folders /\ Row(op.id)
      BY <1>1, Names DEF Row
    <2>. QED
      BY <1>2, <1>3, <2>1, <2>2 DEF IInv, TablesInv, LogsFollowTables
  <1>. QED
    BY <1>4, <1>5, <1>6, <1>7, <1>8, <1>9, <1>10 DEF IInv, TablesInv

LEMMA MoveCommitIInv ==
    ASSUME IInv, MoveCommit
    PROVE  IInv'
  <1>. DEFINE old == emails[op.id]
  <1>1. /\ TypeOK /\ op.pc = "moved" /\ op' = Idle
        /\ op.id \in Items /\ Row(op.id) /\ srv[old] = "gone"
        /\ op.item \in Items /\ srv[op.item] # "new" /\ HomeOf[op.item] \in Cached
        /\ emails' = [emails EXCEPT ![op.id] = op.item]
        /\ logged' = [logged EXCEPT ![op.id] = "updated"]
        /\ adrift' = {i \in adrift \cup {op.item} : \E id \in Items : emails'[id] = i}
        /\ UNCHANGED <<server, told, mailboxes, keyed, strayed, dropped, faults>>
    BY DEF IInv, HandInv, MoveInHand, MoveCommit, Log, Drift
  <1>2. /\ old \in Items
        /\ \A id \in Items : /\ emails'[id] = IF id = op.id THEN op.item ELSE emails[id]
                             /\ Row(id)' <=> Row(id)
                             /\ Row(id) => emails[id] \in Items
    BY <1>1, Names DEF Row, TypeOK
  <1>3. srv' = srv /\ folder' = folder /\ NewFolderEmpty' /\ Cached' = Cached
    BY <1>1, ServerStays DEF Cached
  <1>4. HandInv' /\ RaisedRightly' /\ op' \in Operation
    BY <1>1, IdleHand
  <1>5. TypeOK'
    <2>1. emails' \in [Items -> Items \cup {NoItem}] /\ logged' \in [Folders \cup Items -> Entry]
      BY <1>1 DEF TypeOK, Entry
    <2>2. adrift' \in SUBSET Items
      BY <1>1 DEF TypeOK
    <2>. QED
      BY <1>1, <1>3, <1>4, <2>1, <2>2 DEF TypeOK, server
  <1>6. ServerInv'
    BY <1>1, <1>3 DEF IInv, ServerInv, ToldKeyed, CachedKnown, DroppedGone
  \* The email's first item is the old one, or was gone already.
  <1>7. RowsExist' /\ MovedAway'
    <2>1. srv[op.id] # "new" /\ srv[op.id] = "gone"
      BY <1>1, <1>2 DEF IInv, TablesInv, RowsExist, MovedAway
    <2>. QED
      BY <1>1, <1>2, <1>3, <2>1 DEF IInv, TablesInv, RowsExist, MovedAway
  <1>8. StraysDrift' /\ OrphansAccountedFor'
    <2>. SUFFICES ASSUME NEW id \in Items, Row(id)'
                  PROVE  /\ MailboxOf(id)' \in Cached \cup dropped \/ emails'[id] \in adrift'
                         /\ MailboxOf(id)' \in Cached \cup dropped \cup strayed
      BY <1>1, <1>3, <1>4 DEF StraysDrift, OrphansAccountedFor, RaisedRightly
    <2>1. CASE id = op.id
      BY <1>1, <1>2, <2>1 DEF MailboxOf
    <2>2. CASE id # op.id
      <3>1. Row(id) /\ emails'[id] = emails[id] /\ MailboxOf(id)' = MailboxOf(id)
        BY <1>2, <2>2 DEF MailboxOf
      <3>. QED
        BY <1>1, <3>1 DEF IInv, TablesInv, StraysDrift, OrphansAccountedFor
    <2>. QED
      BY <2>1, <2>2
  <1>9. RowsMatchKey'
    <2>. SUFFICES ASSUME NEW g \in Cached, NEW i \in Items, HomeOf[i] = g
                  PROVE  /\ i \in told /\ srv[i] = "there" => \E id \in Items : emails'[id] = i
                         /\ i \notin told /\ (\E id \in Items : emails'[id] = i) => i \in adrift'
      BY <1>1, <1>3, HeldBy DEF RowsMatchKey, InFolder
    <2>1. /\ i \in told /\ srv[i] = "there" => \E id \in Items : emails[id] = i
          /\ i \notin told /\ (\E id \in Items : emails[id] = i) => i \in adrift
      BY HeldBy DEF IInv, TablesInv, RowsMatchKey, InFolder
    <2>2. ASSUME srv[i] = "there", NEW id \in Items, emails[id] = i
          PROVE  emails'[id] = i
      BY <1>1, <1>2, <2>2
    <2>3. \A id \in Items : emails'[id] = i => emails[id] = i \/ i = op.item
      BY <1>2
    <2>. QED
      BY <1>1, <2>1, <2>2, <2>3
  <1>10. LogsFollowTables'
    <2>1. \A x \in Folders \cup Items : logged'[x] = IF x = op.id THEN "updated" ELSE logged[x]
      BY <1>1 DEF TypeOK
    <2>2. op.id \notin Folders
      BY <1>1, Names
    <2>. QED
      BY <1>1, <1>2, <1>3, <2>1, <2>2 DEF IInv, TablesInv, LogsFollowTables
  <1>. QED
    BY <1>4, <1>5, <1>6, <1>7, <1>8, <1>9, <1>10 DEF IInv, TablesInv

LEMMA DraftCommitIInv ==
    ASSUME IInv, DraftCommit
    PROVE  IInv'
  <1>. DEFINE new == op.item
  <1>1. /\ TypeOK /\ op' = Idle
        /\ new \in Items /\ srv[new] # "new" /\ HomeOf[new] \in keyed /\ ~Row(new)
        /\ emails' = [emails EXCEPT ![new] = new] /\ told' = told \cup {new}
        /\ logged' = [logged EXCEPT ![new] = "created"]
        /\ UNCHANGED <<server, mailboxes, keyed, history, faults>>
    BY DEF IInv, HandInv, DraftInHand, DraftCommit, Log
  <1>. HIDE DEF new
  <1>2. /\ \A id \in Items : /\ emails'[id] = IF id = new THEN new ELSE emails[id]
                             /\ Row(id)' <=> Row(id) \/ id = new
        /\ HomeOf[new] \in Cached
    BY <1>1, Names DEF Row, TypeOK
  <1>3. srv' = srv /\ folder' = folder /\ NewFolderEmpty' /\ Cached' = Cached
        /\ strayed' = strayed /\ dropped' = dropped /\ adrift' = adrift
    BY <1>1, ServerStays DEF Cached, history
  <1>4. HandInv' /\ RaisedRightly' /\ op' \in Operation
    BY <1>1, IdleHand
  <1>5. TypeOK'
    <2>1. emails' \in [Items -> Items \cup {NoItem}] /\ logged' \in [Folders \cup Items -> Entry]
      BY <1>1 DEF TypeOK, Entry
    <2>. QED
      BY <1>1, <1>3, <1>4, <2>1 DEF TypeOK, server
  <1>6. ServerInv'
    BY <1>1, <1>3 DEF IInv, ServerInv, ToldKeyed, CachedKnown, DroppedGone
  <1>7. RowsExist' /\ MovedAway'
    BY <1>1, <1>2, <1>3 DEF IInv, TablesInv, RowsExist, MovedAway
  <1>8. StraysDrift' /\ OrphansAccountedFor'
    <2>. SUFFICES ASSUME NEW id \in Items, Row(id)'
                  PROVE  /\ MailboxOf(id)' \in Cached \cup dropped \/ emails'[id] \in adrift
                         /\ MailboxOf(id)' \in Cached \cup dropped \cup strayed
      BY <1>1, <1>3, <1>4 DEF StraysDrift, OrphansAccountedFor, RaisedRightly
    <2>1. CASE id = new
      BY <1>1, <1>2, <2>1 DEF MailboxOf
    <2>2. CASE id # new
      <3>1. Row(id) /\ emails'[id] = emails[id] /\ MailboxOf(id)' = MailboxOf(id)
        BY <1>2, <2>2 DEF MailboxOf
      <3>. QED
        BY <3>1 DEF IInv, TablesInv, StraysDrift, OrphansAccountedFor
    <2>. QED
      BY <2>1, <2>2
  <1>9. RowsMatchKey'
    <2>. SUFFICES ASSUME NEW g \in Cached, NEW i \in Items, HomeOf[i] = g
                  PROVE  /\ i \in told' /\ srv[i] = "there" => \E id \in Items : emails'[id] = i
                         /\ i \notin told' /\ (\E id \in Items : emails'[id] = i) => i \in adrift
      BY <1>3, HeldBy DEF RowsMatchKey, InFolder
    <2>1. /\ i \in told /\ srv[i] = "there" => \E id \in Items : emails[id] = i
          /\ i \notin told /\ (\E id \in Items : emails[id] = i) => i \in adrift
      BY HeldBy DEF IInv, TablesInv, RowsMatchKey, InFolder
    <2>2. ASSUME NEW id \in Items, emails[id] = i
          PROVE  emails'[id] = i
      BY <1>1, <1>2, <2>2, Names DEF Row
    <2>3. \A id \in Items : emails'[id] = i => emails[id] = i \/ i = new
      BY <1>2
    <2>4. emails'[new] = new
      BY <1>1, <1>2
    <2>. QED
      BY <1>1, <2>1, <2>2, <2>3, <2>4
  <1>10. LogsFollowTables'
    <2>1. \A x \in Folders \cup Items : logged'[x] = IF x = new THEN "created" ELSE logged[x]
      BY <1>1 DEF TypeOK
    <2>2. new \notin Folders
      BY <1>1, Names
    <2>. QED
      BY <1>1, <1>2, <1>3, <2>1, <2>2 DEF IInv, TablesInv, LogsFollowTables
  <1>. QED
    BY <1>4, <1>5, <1>6, <1>7, <1>8, <1>9, <1>10 DEF IInv, TablesInv

-----------------------------------------------------------------------------
(* Every step, and the theorems *)

LEMMA NextIInv ==
    ASSUME IInv, [Next]_vars
    PROVE  IInv'
  <1>1. CASE Remote
    BY <1>1, RemoteIInv
  <1>2. CASE Start
    BY <1>2, StartIInv
  <1>3. CASE Sync
    BY <1>3, ListFoldersIInv, ReconcileIInv, SyncCallIInv, SyncCommitIInv, SyncFailsIInv DEF Sync
  <1>4. CASE AnswerBatch \/ MoveTooFails \/ ServerError \/ Fault
    BY <1>4, EndIInv
  <1>5. CASE Set
    BY <1>4, <1>5, CreateCommitIInv, RenameCommitIInv, RemoveCommitIInv, ChangeCommitIInv,
       ChangeWriteIInv, MoveCommitIInv, DraftCommitIInv, MoveTooIInv DEF Set
  <1>6. CASE UNCHANGED vars
    BY <1>6 DEF vars, server, store, history, IInv, TypeOK, Cached, There, Row, Holding, MailboxOf,
         InFolder, ToldBy, RowsIn, Listed,
         ServerInv, ToldKeyed, NewFolderEmpty, CachedKnown, DroppedGone,
         TablesInv, RowsExist, MovedAway, StraysDrift, OrphansAccountedFor, RowsMatchKey,
         LogsFollowTables, HandInv, KindsInHand, ListingInHand, PageInHand, CreatedInHand,
         MailboxInHand, ChangeInHand, MoveInHand, DraftInHand
  <1>. QED
    BY <1>1, <1>2, <1>3, <1>4, <1>5, <1>6 DEF Next

LEMMA IInvHolds == Spec => []IInv
  BY InitIInv, NextIInv, PTL DEF Spec

\* The variables have their types: no operation ends in an unknown state, and
\* only the row of a cached mailbox has a key.
THEOREM TypeCorrect == Spec => []TypeOK
  <1>1. IInv => TypeOK
    BY DEF IInv
  <1>. QED
    BY <1>1, IInvHolds, PTL

\* However many folders, items and clients there are: an email without a mailbox
\* is of a folder that a reconciliation dropped or that was synced without a
\* row, and only a change of such an email fails on sync.py's assertion; the
\* assertion of update_mailbox never fails.
THEOREM OrphansAlwaysAccounted == Spec => []OrphansAccountedFor
  <1>1. IInv => OrphansAccountedFor
    BY DEF IInv, TablesInv
  <1>. QED
    BY <1>1, IInvHolds, PTL

\* Mailboxes may come, go, be renamed, relisted and written to in any order: the
\* rows of a cached one are what the server believes its key's holder to have,
\* but for rows that came from a move, an unkeyed sync or a torn deletion.
THEOREM RowsAlwaysMatch == Spec => []RowsMatchKey
  <1>1. IInv => RowsMatchKey
    BY DEF IInv, TablesInv
  <1>. QED
    BY <1>1, IInvHolds, PTL

\* The last change_log entry of a mailbox or an email is its creation or an
\* update exactly while it has a row: reconciliation, the page of a sync, the
\* cascade of a removal and every object of a /set tell of all they do.
THEOREM LogsAlwaysFollow == Spec => []LogsFollowTables
  <1>1. IInv => LogsFollowTables
    BY DEF IInv, TablesInv
  <1>. QED
    BY <1>1, IInvHolds, PTL

-----------------------------------------------------------------------------
(* A batch: what the folders that are synced already have in the tables     *)

\* An item that is there is in a folder that is there.
ItemsHoused == \A i \in Items : srv[i] = "there" => There(HomeOf[i])

\* What others have not touched since the batch began.
Still(i) == i \notin op.moving

\* The folders the batch's answers rest on, as far as they are cached or named.
Needed == FolderIds(op.batch) \cup (IF SyncAllFolders(op.batch) THEN Cached ELSE {})

\* A synced folder has rows of what is there, and its key tells of nothing gone.
UpToDate(f) ==
    \A i \in InFolder(f) : Still(i) =>
        /\ srv[i] = "there" => Holding(i) # {}
        /\ srv[i] = "gone" /\ f \in Cached => i \notin told

\* Mail that was there when the batch began, in a folder that can be cached.
OldMail(i) == Still(i) /\ srv[i] = "there" /\ HomeOf[i] \in MailFolders

\* The listing has the folders of all old mail; the named folders wait for it.
ListingCovers ==
    /\ op.pc \in {"list", "listed"} => op.todo = FolderIds(op.batch)
    /\ op.pc = "listed" => \A i \in Items : OldMail(i) => HomeOf[i] \in Listed

\* With the page, the holder of the key knows of all that is there and nothing gone.
PageCovers ==
    op.pc = "paged" =>
        \A i \in InFolder(op.folder) : Still(i) =>
            /\ srv[i] = "there" => i \in (ToldBy(op.folder) \cup op.added) \ op.deleted
            /\ srv[i] = "gone" => i \notin (ToldBy(op.folder) \cup op.added) \ op.deleted

\* A failure ends the sync.
NoneSkippedYet == op.pc \in {"list", "listed", "sync", "paged"} => op.skipped = {}

\* Every folder needed is synced, still to come or skipped, and where all are
\* needed the mailboxes of all other old mail are cached.
ScopeSynced ==
    op.pc \in {"sync", "paged", "answer"} =>
        /\ \A f \in Needed \ (op.todo \cup op.skipped) : UpToDate(f)
        /\ SyncAllFolders(op.batch) =>
               \A i \in Items : OldMail(i) => HomeOf[i] \in Cached \cup op.skipped
        /\ op.pc = "answer" => op.todo = {}

BatchInv == ItemsHoused /\ ListingCovers /\ PageCovers /\ NoneSkippedYet /\ ScopeSynced

LEMMA InitBatch == Init => BatchInv
  <1>. SUFFICES ASSUME Init PROVE BatchInv
    OBVIOUS
  <1>1. op.pc = "idle"
    BY IdleFields DEF Init
  <1>2. \A i \in Items : srv[i] = "new"
    BY DEF Init
  <1>. QED
    BY <1>1, <1>2 DEF BatchInv, ItemsHoused, ListingCovers, PageCovers, NoneSkippedYet, ScopeSynced

\* Outside a batch there is nothing to keep but where the items are.
LEMMA OutOfBatch ==
    ASSUME op'.pc \notin {"list", "listed", "sync", "paged", "answer"}, ItemsHoused'
    PROVE  BatchInv'
  BY DEF BatchInv, ListingCovers, PageCovers, NoneSkippedYet, ScopeSynced

\* A step that leaves the server alone leaves the items where they are.
LEMMA HousedStays ==
    ASSUME BatchInv, UNCHANGED server
    PROVE  ItemsHoused'
  BY DEF BatchInv, ItemsHoused, There, server

\* A folder that comes or is renamed houses what it did.
LEMMA HousedInTitle ==
    ASSUME IInv, BatchInv, NEW f \in Folders, NEW t \in Titles,
           folder' = [folder EXCEPT ![f] = t], srv' = srv
    PROVE  ItemsHoused'
  BY Names DEF BatchInv, ItemsHoused, There, IInv, TypeOK

\* A folder that goes takes its items along.
LEMMA HousedAfterRemoval ==
    ASSUME IInv, BatchInv, NEW f \in Folders,
           folder' = [folder EXCEPT ![f] = "gone"], srv' = Removed(f)
    PROVE  /\ ItemsHoused'
           /\ \A i \in Items \ InFolder(f) : srv'[i] = srv[i]
  <1>1. \A i \in Items : srv'[i] = IF srv[i] = "there" /\ HomeOf[i] = f THEN "gone" ELSE srv[i]
    BY DEF Removed, Visible, InFolder
  <1>2. folder \in [Folders -> Titles \cup {"new", "gone"}]
    BY DEF IInv, TypeOK
  <1>. QED
    BY <1>1, <1>2, Names DEF BatchInv, ItemsHoused, There, InFolder

\* Items that come and go one at a time, in folders that stay.
LEMMA HousedItems ==
    ASSUME BatchInv, folder' = folder,
           \A i \in Items : srv'[i] = "there" => srv[i] = "there" \/ There(HomeOf[i])
    PROVE  ItemsHoused'
  BY DEF BatchInv, ItemsHoused, There

-----------------------------------------------------------------------------
(* The steps of others *)

LEMMA RemoteTouches ==
    ASSUME IInv, BatchInv, Remote
    PROVE  /\ ItemsHoused'
           /\ \E items \in SUBSET Items :
                  Others(items) /\ \A i \in Items \ items : srv'[i] = srv[i]
  <1>1. srv \in [Items -> {"new", "there", "gone"}]
    BY DEF IInv, TypeOK
  <1>2. ASSUME NEW f \in Folders, DropFolder(f)
        PROVE  /\ ItemsHoused' /\ InFolder(f) \in SUBSET Items
               /\ Others(InFolder(f)) /\ \A i \in Items \ InFolder(f) : srv'[i] = srv[i]
    BY <1>2, HousedAfterRemoval DEF DropFolder, InFolder
  <1>3. ASSUME NEW f \in Folders, NEW t \in Titles, NewFolder(f, t) \/ RenameFolder(f, t)
        PROVE  ItemsHoused' /\ Others({}) /\ srv' = srv
    BY <1>3, HousedInTitle DEF NewFolder, RenameFolder
  <1>4. ASSUME NEW i \in Items, Deliver(i) \/ RemoveItem(i)
        PROVE  ItemsHoused' /\ Others({i}) /\ \A j \in Items \ {i} : srv'[j] = srv[j]
    <2>1. /\ folder' = folder /\ Others({i})
          /\ \/ There(HomeOf[i]) /\ srv' = [srv EXCEPT ![i] = "there"]
             \/ srv' = [srv EXCEPT ![i] = "gone"]
      BY <1>4 DEF Deliver, RemoveItem
    <2>2. \A j \in Items \ {i} : srv'[j] = srv[j]
      BY <1>1, <2>1
    <2>3. srv'[i] = "there" => There(HomeOf[i])
      BY <1>1, <2>1
    <2>4. \A j \in Items : srv'[j] = "there" => srv[j] = "there" \/ There(HomeOf[j])
      BY <2>2, <2>3
    <2>. QED
      BY <2>1, <2>2, <2>4, HousedItems
  <1>5. {} \in SUBSET Items /\ \A i \in Items : {i} \in SUBSET Items
    OBVIOUS
  <1>. QED
    BY <1>2, <1>3, <1>4, <1>5 DEF Remote

LEMMA RemoteBatch ==
    ASSUME IInv, BatchInv, Remote
    PROVE  BatchInv'
  <1>1. ItemsHoused'
    BY RemoteTouches
  <1>2. PICK items \in SUBSET Items : Others(items) /\ \A i \in Items \ items : srv'[i] = srv[i]
    BY RemoteTouches
  <1>3. CASE op.kind # "batch"
    <2>1. op' = op /\ op.pc \notin {"list", "listed", "sync", "paged", "answer"}
      BY <1>2, <1>3 DEF Others, IInv, HandInv, KindsInHand
    <2>. QED
      BY <1>1, <2>1, OutOfBatch
  <1>4. CASE op.kind = "batch"
    <2>1. op \in Operation /\ op' = [op EXCEPT !.moving = @ \cup items]
      BY <1>2, <1>4 DEF Others, IInv, TypeOK
    <2>2. /\ op'.pc = op.pc /\ op'.batch = op.batch /\ op'.todo = op.todo /\ op'.folder = op.folder
          /\ op'.listing = op.listing /\ op'.added = op.added /\ op'.deleted = op.deleted
          /\ op'.skipped = op.skipped /\ op'.moving = op.moving \cup items
      BY <2>1 DEF Operation
    <2>3. /\ told' = told /\ keyed' = keyed /\ emails' = emails /\ Cached' = Cached /\ Listed' = Listed
          /\ \A f : ToldBy(f)' = ToldBy(f) /\ InFolder(f)' = InFolder(f)
          /\ \A i : Holding(i)' = Holding(i)
      BY <1>2, <2>2 DEF Others, store, Cached, Listed, ToldBy, InFolder, Holding
    <2>4. \A i \in Items : Still(i)' => Still(i) /\ srv'[i] = srv[i]
      BY <1>2, <2>2 DEF Still
    <2>5. \A i \in Items : OldMail(i)' => OldMail(i)
      BY <2>4 DEF OldMail
    <2>6. \A f : UpToDate(f) => UpToDate(f)'
      BY <2>3, <2>4 DEF UpToDate, InFolder
    <2>7. ListingCovers' /\ NoneSkippedYet'
      BY <2>2, <2>3, <2>5 DEF BatchInv, ListingCovers, NoneSkippedYet
    <2>8. PageCovers'
      <3>1. ToldBy(op.folder)' = ToldBy(op.folder) /\ InFolder(op.folder)' = InFolder(op.folder)
        BY <2>2, <2>3 DEF ToldBy, InFolder
      <3>. QED
        BY <2>2, <2>4, <3>1 DEF BatchInv, PageCovers, InFolder
    <2>9. ScopeSynced'
      <3>1. Needed' = Needed
        BY <2>2, <2>3 DEF Needed
      <3>. QED
        BY <2>2, <2>3, <2>5, <2>6, <3>1 DEF BatchInv, ScopeSynced
    <2>. QED
      BY <1>1, <2>7, <2>8, <2>9 DEF BatchInv
  <1>. QED
    BY <1>3, <1>4

-----------------------------------------------------------------------------
(* The steps of the batch *)

LEMMA StartBatchBatch ==
    ASSUME IInv, BatchInv, NEW batch \in Batches, StartBatch(batch)
    PROVE  BatchInv'
  <1>. DEFINE ids == FolderIds(batch)
              pc == IF ReconcileFolders(batch) THEN "list" ELSE NextFolder(ids)
  <1>1. op' = [Idle EXCEPT !.kind = "batch", !.batch = batch, !.todo = ids, !.pc = pc]
    BY DEF StartBatch
  <1>2. /\ pc \in {"list", "sync", "answer"}
        /\ pc = "list" \/ ~SyncAllFolders(batch)
        /\ pc = "answer" => ids = {}
    BY DEF NextFolder, ReconcileFolders
  <1>. HIDE DEF ids, pc
  <1>3. op'.batch = batch /\ op'.todo = ids /\ op'.pc = pc /\ op'.skipped = {}
    BY <1>1, IdleType DEF Operation, Idle
  <1>4. ItemsHoused'
    BY HousedStays DEF StartBatch
  <1>5. ListingCovers' /\ PageCovers' /\ NoneSkippedYet'
    BY <1>2, <1>3 DEF ListingCovers, PageCovers, NoneSkippedYet, ids
  <1>6. ScopeSynced'
    <2>1. SyncAllFolders(op.batch)' <=> SyncAllFolders(batch)
      BY <1>3
    <2>2. pc # "list" => Needed' = ids
      BY <1>2, <1>3 DEF Needed, ids
    <2>. QED
      BY <1>2, <1>3, <2>1, <2>2 DEF ScopeSynced
  <1>. QED
    BY <1>4, <1>5, <1>6 DEF BatchInv

LEMMA ListFoldersBatch ==
    ASSUME IInv, BatchInv, ListFolders
    PROVE  BatchInv'
  <1>1. op \in Operation /\ op.pc = "list" /\ UNCHANGED <<server, store, history>>
    BY DEF IInv, TypeOK, ListFolders
  <1>. DEFINE titles == MailFolderListing
  <1>2. op' = [op EXCEPT !.pc = "listed", !.listing = titles]
    BY DEF ListFolders
  <1>3. DOMAIN titles = {g \in MailFolders : There(g)}
    BY DEF MailFolderListing
  <1>. HIDE DEF titles
  <1>4. /\ op'.pc = "listed" /\ op'.listing = titles /\ op'.batch = op.batch /\ op'.todo = op.todo
        /\ op'.moving = op.moving /\ op'.skipped = op.skipped
    BY <1>1, <1>2 DEF Operation
  <1>5. ItemsHoused'
    BY <1>1, HousedStays
  <1>6. ListingCovers'
    <2>1. op.todo = FolderIds(op.batch)
      BY <1>1 DEF BatchInv, ListingCovers
    <2>2. \A i \in Items : OldMail(i)' => HomeOf[i] \in DOMAIN titles
      BY <1>1, <1>3 DEF OldMail, BatchInv, ItemsHoused, server
    <2>. QED
      BY <1>4, <2>1, <2>2 DEF ListingCovers, Listed
  <1>7. PageCovers' /\ NoneSkippedYet' /\ ScopeSynced'
    BY <1>1, <1>4 DEF BatchInv, PageCovers, NoneSkippedYet, ScopeSynced
  <1>. QED
    BY <1>5, <1>6, <1>7 DEF BatchInv

LEMMA ReconcileBatch ==
    ASSUME IInv, BatchInv, Reconcile
    PROVE  BatchInv'
  <1>1. op \in Operation /\ op.pc = "listed" /\ UNCHANGED server /\ mailboxes' = Upserted
    BY DEF IInv, TypeOK, Reconcile, Reconciled
  <1>. DEFINE todo == FoldersToSync
  <1>2. op' = [op EXCEPT !.pc = NextFolder(todo), !.todo = todo, !.listing = Idle.listing]
    BY DEF Reconcile, Reconciled
  <1>3. NextFolder(todo) \in {"sync", "answer"} /\ (NextFolder(todo) = "answer" => todo = {})
    BY DEF NextFolder
  <1>4. todo = IF SyncAllFolders(op.batch) THEN FolderIds(op.batch) \cup Listed ELSE FolderIds(op.batch)
    BY <1>1 DEF FoldersToSync, BatchInv, ListingCovers
  <1>. HIDE DEF todo
  <1>5. /\ op'.pc = NextFolder(todo) /\ op'.batch = op.batch /\ op'.todo = todo
        /\ op'.moving = op.moving /\ op'.skipped = {}
    BY <1>1, <1>2 DEF Operation, BatchInv, NoneSkippedYet
  <1>6. Cached' = Listed
    <2>1. op.listing \in UNION {[S -> Titles] : S \in SUBSET Folders}
      BY <1>1 DEF Operation
    <2>2. PICK S \in SUBSET Folders : op.listing \in [S -> Titles]
      BY <2>1
    <2>. QED
      BY <1>1, <2>2, Names DEF Cached, Upserted, Listed
  <1>7. ItemsHoused'
    BY <1>1, HousedStays
  <1>8. ListingCovers' /\ PageCovers' /\ NoneSkippedYet'
    BY <1>3, <1>5 DEF ListingCovers, PageCovers, NoneSkippedYet
  <1>9. ScopeSynced'
    <2>1. Needed' = todo
      BY <1>4, <1>5, <1>6 DEF Needed
    <2>2. \A i \in Items : OldMail(i)' => HomeOf[i] \in Cached'
      BY <1>1, <1>5, <1>6 DEF OldMail, Still, server, BatchInv, ListingCovers
    <2>. QED
      BY <1>3, <1>5, <2>1, <2>2 DEF ScopeSynced
  <1>. QED
    BY <1>7, <1>8, <1>9 DEF BatchInv

LEMMA SyncCallBatch ==
    ASSUME IInv, BatchInv, NEW f \in Folders, SyncCall(f)
    PROVE  BatchInv'
  <1>1. op \in Operation /\ op.pc = "sync" /\ UNCHANGED <<server, store, history>>
    BY DEF IInv, TypeOK, SyncCall
  <1>. DEFINE added == Visible(f) \ ToldBy(f)
              deleted == ToldBy(f) \ Visible(f)
  <1>2. op' = [op EXCEPT !.pc = "paged", !.folder = f, !.added = added, !.deleted = deleted]
    BY DEF SyncCall
  <1>3. \A i \in InFolder(f) : i \in (ToldBy(f) \cup added) \ deleted <=> srv[i] = "there"
    BY DEF Visible
  <1>. HIDE DEF added, deleted
  <1>4. /\ op'.pc = "paged" /\ op'.folder = f /\ op'.added = added /\ op'.deleted = deleted
        /\ op'.batch = op.batch /\ op'.todo = op.todo /\ op'.moving = op.moving
        /\ op'.skipped = op.skipped
    BY <1>1, <1>2 DEF Operation
  <1>5. /\ srv' = srv /\ told' = told /\ Cached' = Cached
        /\ ToldBy(op.folder)' = ToldBy(f) /\ InFolder(op.folder)' = InFolder(f)
        /\ \A i : Holding(i)' = Holding(i)
    BY <1>1, <1>4 DEF server, store, Cached, ToldBy, InFolder, Holding
  <1>6. ItemsHoused'
    BY <1>1, HousedStays
  <1>7. ListingCovers' /\ PageCovers' /\ NoneSkippedYet'
    BY <1>1, <1>3, <1>4, <1>5 DEF BatchInv, ListingCovers, PageCovers, NoneSkippedYet
  <1>8. ScopeSynced'
    <2>1. Needed' = Needed
      BY <1>4, <1>5 DEF Needed
    <2>2. \A g : UpToDate(g) => UpToDate(g)'
      BY <1>4, <1>5 DEF UpToDate, InFolder, Still
    <2>3. \A i \in Items : OldMail(i)' => OldMail(i)
      BY <1>4, <1>5 DEF OldMail, Still
    <2>. QED
      BY <1>1, <1>4, <1>5, <2>1, <2>2, <2>3 DEF BatchInv, ScopeSynced
  <1>. QED
    BY <1>6, <1>7, <1>8 DEF BatchInv

\* The page of a sync takes no row but those of what it deletes, and gives one
\* to all it adds; what the key tells of changes in its own folder only.
LEMMA SyncCommitKeeps ==
    ASSUME IInv, SyncCommit, NEW i \in Items
    PROVE  /\ i \notin op.deleted /\ (Holding(i) # {} \/ i \in op.added) => Holding(i)' # {}
           /\ HomeOf[i] # op.folder => i \notin op.deleted /\ (i \in told' => i \in told)
           /\ HomeOf[i] = op.folder /\ op.folder \in Cached =>
                  (i \in told' => i \in (ToldBy(op.folder) \cup op.added) \ op.deleted)
  <1>. DEFINE f == op.folder
              known == (ToldBy(f) \cup op.added) \ op.deleted
              new == {j \in op.added : Holding(j) = {}}
              rows(items) == UNION {Holding(j) : j \in items}
  <1>1. /\ op.added \subseteq InFolder(f) \ ToldBy(f) /\ op.deleted \subseteq ToldBy(f)
        /\ \A j \in op.added : Row(j) => emails[j] = j
    BY DEF IInv, SyncCommit, HandInv, PageInHand
  <1>2. emails' = [id \in Items |-> IF id \in rows(op.deleted) THEN NoItem
                                    ELSE IF id \in new THEN id ELSE emails[id]]
    BY DEF SyncCommit
  <1>3. \A x, items : x \in rows(items) <=> x \in Items /\ emails[x] \in items
    BY DEF Holding
  <1>4. \A j : j \in new <=> j \in op.added /\ \A id \in Items : emails[id] # j
    BY HeldBy
  <1>5. op.deleted \subseteq Items /\ \A j \in op.deleted : HomeOf[j] = f /\ j # NoItem
    BY <1>1, Names DEF ToldBy, InFolder
  <1>6. IF f \in Cached THEN told' = (told \ InFolder(f)) \cup known ELSE told' = told
    BY DEF SyncCommit, StoreKey
  <1>. HIDE DEF rows, new
  <1>7. ASSUME i \notin op.deleted, Holding(i) # {} PROVE Holding(i)' # {}
    <2>1. PICK id \in Items : emails[id] = i
      BY <1>7, HeldBy
    <2>2. id \notin new
      BY <1>1, <1>4, <2>1, Names DEF Row
    <2>3. emails'[id] = i
      BY <1>2, <1>3, <1>7, <2>1, <2>2
    <2>. QED
      BY <2>3, HeldBy
  <1>8. ASSUME i \notin op.deleted, i \in op.added, Holding(i) = {} PROVE Holding(i)' # {}
    <2>1. i \in new /\ ~Row(i)
      BY <1>1, <1>4, <1>8, HeldBy
    <2>2. i \notin rows(op.deleted)
      BY <1>3, <1>5, <2>1 DEF Row
    <2>3. emails'[i] = i
      BY <1>2, <2>1, <2>2
    <2>. QED
      BY <2>3, HeldBy
  <1>9. HomeOf[i] # f => i \notin op.deleted /\ (i \in told' => i \in told)
    BY <1>1, <1>5, <1>6 DEF ToldBy, InFolder
  <1>10. HomeOf[i] = f /\ f \in Cached => (i \in told' => i \in known)
    BY <1>6 DEF InFolder
  <1>. QED
    BY <1>7, <1>8, <1>9, <1>10

LEMMA SyncCommitBatch ==
    ASSUME IInv, BatchInv, SyncCommit
    PROVE  BatchInv'
  <1>. DEFINE f == op.folder
              known == (ToldBy(f) \cup op.added) \ op.deleted
              todo == op.todo \ {f}
  <1>1. op \in Operation /\ op.pc = "paged" /\ UNCHANGED <<server, mailboxes>>
    BY DEF IInv, TypeOK, SyncCommit
  <1>2. op' = [op EXCEPT !.pc = NextFolder(todo), !.todo = todo, !.folder = NoFolder, !.added = {},
                         !.deleted = {}]
    BY <1>1 DEF SyncCommit, Operation
  <1>3. NextFolder(todo) \in {"sync", "answer"} /\ (NextFolder(todo) = "answer" => todo = {})
    BY DEF NextFolder
  <1>. HIDE DEF todo
  <1>4. /\ op'.pc = NextFolder(todo) /\ op'.todo = todo /\ op'.batch = op.batch
        /\ op'.moving = op.moving /\ op'.skipped = op.skipped
    BY <1>1, <1>2 DEF Operation
  <1>5. srv' = srv /\ Cached' = Cached
    BY <1>1 DEF server, Cached
  <1>6. ItemsHoused'
    BY <1>1, HousedStays
  <1>7. ListingCovers' /\ PageCovers' /\ op.skipped = {} /\ NoneSkippedYet'
    BY <1>1, <1>3, <1>4 DEF BatchInv, ListingCovers, PageCovers, NoneSkippedYet
  <1>8. ASSUME NEW g, g = f PROVE UpToDate(g)'
    <2>. SUFFICES ASSUME NEW i \in InFolder(g), Still(i)
                  PROVE  /\ srv[i] = "there" => Holding(i)' # {}
                         /\ srv[i] = "gone" /\ g \in Cached => i \notin told'
      BY <1>4, <1>5 DEF UpToDate, Still, InFolder
    <2>1. i \in Items /\ HomeOf[i] = f /\ i \in InFolder(f)
      BY <1>8 DEF InFolder
    <2>2. /\ srv[i] = "there" => i \in known
          /\ srv[i] = "gone" => i \notin known
      BY <1>1, <2>1 DEF BatchInv, PageCovers
    <2>3. ASSUME srv[i] = "there" PROVE Holding(i)' # {}
      <3>1. i \notin op.deleted /\ (i \in ToldBy(f) \/ i \in op.added)
        BY <2>2, <2>3
      <3>2. i \in ToldBy(f) => Holding(i) # {}
        BY <2>1, <2>3 DEF ToldBy, IInv, TypeOK, TablesInv, RowsMatchKey
      <3>. QED
        BY <2>1, <3>1, <3>2, SyncCommitKeeps
    <2>4. srv[i] = "gone" /\ g \in Cached => i \notin told'
      BY <1>8, <2>1, <2>2, SyncCommitKeeps
    <2>. QED
      BY <2>3, <2>4
  <1>9. ASSUME NEW g, g # f, UpToDate(g) PROVE UpToDate(g)'
    <2>1. \A i \in InFolder(g) : i \in Items /\ HomeOf[i] # f
      BY <1>9 DEF InFolder
    <2>2. \A i \in InFolder(g) : /\ Holding(i) # {} => Holding(i)' # {}
                                 /\ i \in told' => i \in told
      BY <2>1, SyncCommitKeeps
    <2>. QED
      BY <1>4, <1>5, <1>9, <2>2 DEF UpToDate, Still, InFolder
  <1>10. ScopeSynced'
    <2>1. Needed' = Needed
      BY <1>4, <1>5 DEF Needed
    <2>2. \A i \in Items : OldMail(i)' => OldMail(i)
      BY <1>4, <1>5 DEF OldMail, Still
    <2>3. \A g \in Needed \ todo : UpToDate(g)'
      BY <1>1, <1>7, <1>8, <1>9 DEF BatchInv, ScopeSynced, todo
    <2>. QED
      BY <1>1, <1>3, <1>7, <1>4, <1>5, <2>1, <2>2, <2>3 DEF BatchInv, ScopeSynced
  <1>. QED
    BY <1>6, <1>7, <1>10 DEF BatchInv

\* What a failure leaves out is all that is needed and not yet up to date.
LEMMA SyncFailsBatch ==
    ASSUME IInv, BatchInv, SyncFails
    PROVE  BatchInv'
  <1>1. /\ op \in Operation /\ op.pc \in {"list", "listed", "sync", "paged"} /\ op.skipped = {}
        /\ UNCHANGED <<server, store, history>>
    BY DEF IInv, TypeOK, SyncFails, BatchInv, NoneSkippedYet
  <1>2. op' = [Idle EXCEPT !.kind = "batch", !.pc = "answer", !.batch = op.batch, !.skipped = LeftOut,
                           !.moving = op.moving]
    BY DEF SyncFails
  <1>3. /\ op'.pc = "answer" /\ op'.batch = op.batch /\ op'.todo = {} /\ op'.skipped = LeftOut
        /\ op'.moving = op.moving
    BY <1>2 DEF Idle
  <1>4. ItemsHoused'
    BY <1>1, HousedStays
  <1>5. ListingCovers' /\ PageCovers' /\ NoneSkippedYet'
    BY <1>3 DEF ListingCovers, PageCovers, NoneSkippedYet
  <1>6. ScopeSynced'
    <2>1. Cached' = Cached /\ Needed' = Needed
      BY <1>1, <1>3 DEF store, Cached, Needed
    <2>2. \A i \in Items : OldMail(i)' => OldMail(i) /\ HomeOf[i] \in Folders
      BY <1>1, <1>3, AccountAssumption DEF OldMail, Still, server
    <2>3. \A f : UpToDate(f) => UpToDate(f)'
      BY <1>1, <1>3 DEF UpToDate, InFolder, Still, Holding, Cached, server, store
    <2>4. CASE op.pc \in {"list", "listed"}
      <3>1. LeftOut = Folders
        BY <2>4 DEF LeftOut
      <3>2. Needed \subseteq Folders
        BY <1>1, <2>4 DEF Needed, Cached, Operation, BatchInv, ListingCovers
      <3>. QED
        BY <1>3, <2>1, <2>2, <3>1, <3>2 DEF ScopeSynced
    <2>5. CASE op.pc \in {"sync", "paged"}
      <3>1. LeftOut = op.todo
        BY <2>5 DEF LeftOut
      <3>. QED
        BY <1>1, <1>3, <2>1, <2>2, <2>3, <2>5, <3>1 DEF BatchInv, ScopeSynced
    <2>. QED
      BY <1>1, <2>4, <2>5
  <1>. QED
    BY <1>4, <1>5, <1>6 DEF BatchInv

-----------------------------------------------------------------------------
(* The steps of a /set, and the theorem *)

LEMMA StartBatchInv ==
    ASSUME IInv, BatchInv, Start
    PROVE  BatchInv'
  <1>1. ASSUME NEW f \in Folders, NEW t \in Titles, CreateCall(f, t) \/ RenameCall(f, t)
        PROVE  BatchInv'
    <2>1. op'.pc = "commit"
      BY <1>1 DEF CreateCall, RenameCall, Idle
    <2>. QED
      BY <1>1, <2>1, HousedInTitle, OutOfBatch DEF CreateCall, RenameCall
  <1>2. ASSUME NEW f \in Folders, RemoveCall(f) PROVE BatchInv'
    <2>1. op'.pc = "commit"
      BY <1>2 DEF RemoveCall, Idle
    <2>. QED
      BY <1>2, <2>1, HousedAfterRemoval, OutOfBatch DEF RemoveCall
  <1>3. ASSUME NEW kind, NEW id \in Items, NEW to, ChangeCall(kind, id, to) PROVE BatchInv'
    <2>1. op'.pc \in {"raised", "commit"}
      BY <1>3 DEF ChangeCall, Idle
    <2>2. folder' = folder /\ \A i \in Items : srv'[i] = "there" => srv[i] = "there"
      BY <1>3 DEF ChangeCall, server, IInv, TypeOK
    <2>. QED
      BY <2>1, <2>2, HousedItems, OutOfBatch
  <1>4. ASSUME NEW id \in Items, NEW to \in Folders, NEW new \in Items, MoveCall(id, to, new)
        PROVE  BatchInv'
    <2>1. op'.pc = "moved"
      BY <1>4 DEF MoveCall, Idle
    <2>2. folder' = folder
          /\ \A i \in Items : srv'[i] = "there" => srv[i] = "there" \/ There(HomeOf[i])
      BY <1>4 DEF MoveCall, MoveItem, IInv, TypeOK
    <2>. QED
      BY <2>1, <2>2, HousedItems, OutOfBatch
  <1>5. ASSUME NEW f \in Folders, NEW new \in Items, DraftCall(f, new) PROVE BatchInv'
    <2>1. op'.pc = "commit"
      BY <1>5 DEF DraftCall, Idle
    <2>2. folder' = folder
          /\ \A i \in Items : srv'[i] = "there" => srv[i] = "there" \/ There(HomeOf[i])
      BY <1>5 DEF DraftCall, IInv, TypeOK
    <2>. QED
      BY <2>1, <2>2, HousedItems, OutOfBatch
  <1>. QED
    BY <1>1, <1>2, <1>3, <1>4, <1>5, StartBatchBatch DEF Start

LEMMA SetBatchInv ==
    ASSUME IInv, BatchInv, Set
    PROVE  BatchInv'
  <1>1. op \in Operation
    BY DEF IInv, TypeOK
  <1>2. ASSUME NEW new \in Items, MoveToo(new) PROVE BatchInv'
    <2>1. op'.pc = "moved"
      BY <1>1, <1>2 DEF MoveToo, Operation
    <2>2. folder' = folder
          /\ \A i \in Items : srv'[i] = "there" => srv[i] = "there" \/ There(HomeOf[i])
      BY <1>2 DEF MoveToo, MoveItem, IInv, TypeOK
    <2>. QED
      BY <2>1, <2>2, HousedItems, OutOfBatch
  <1>3. CASE CreateCommit \/ RenameCommit \/ RemoveCommit
    <2>1. UNCHANGED server /\ op'.pc \in {"idle", "raised"}
      BY <1>1, <1>3, IdleFields DEF CreateCommit, RenameCommit, RemoveCommit, Cascade, Operation
    <2>. QED
      BY <2>1, HousedStays, OutOfBatch
  <1>4. CASE ChangeCommit \/ ChangeWrite
    <2>1. UNCHANGED server /\ op'.pc \in {"idle", "write", "move"}
      BY <1>1, <1>4, IdleFields DEF ChangeCommit, ChangeWrite, Operation
    <2>. QED
      BY <2>1, HousedStays, OutOfBatch
  <1>5. CASE MoveCommit \/ DraftCommit \/ MoveTooFails \/ ServerError
    <2>1. UNCHANGED server /\ op'.pc = "idle"
      BY <1>5, IdleFields DEF MoveCommit, DraftCommit, MoveTooFails, ServerError
    <2>. QED
      BY <2>1, HousedStays, OutOfBatch
  <1>. QED
    BY <1>2, <1>3, <1>4, <1>5 DEF Set

LEMMA NextBatchInv ==
    ASSUME IInv, BatchInv, [Next]_vars
    PROVE  BatchInv'
  <1>1. CASE AnswerBatch \/ Fault
    <2>1. UNCHANGED server /\ op'.pc = "idle"
      BY <1>1, IdleFields DEF AnswerBatch, Fault
    <2>. QED
      BY <2>1, HousedStays, OutOfBatch
  <1>2. CASE Sync
    BY <1>2, ListFoldersBatch, ReconcileBatch, SyncCallBatch, SyncCommitBatch, SyncFailsBatch DEF Sync
  <1>3. CASE UNCHANGED vars
    BY <1>3 DEF vars, server, store, BatchInv, ItemsHoused, There, ListingCovers, OldMail, Still, Listed,
         NoneSkippedYet, PageCovers, ToldBy, InFolder, ScopeSynced, Needed, UpToDate, Cached, Holding
  <1>. QED
    BY <1>1, <1>2, <1>3, RemoteBatch, StartBatchInv, SetBatchInv DEF Next

\* The invariant at the end of a batch, and what a filter's scope is.
LEMMA SyncedIsCurrent == IInv /\ BatchInv => AnswerIsCurrent
  <1>. SUFFICES ASSUME IInv, BatchInv, op.pc = "answer",
                       NEW n \in Queries(op.batch), NEW i \in Items \ op.moving,
                       HomeOf[i] \notin op.skipped
                PROVE  LET found == Holding(i) \cap Answer(n)
                       IN  /\ srv[i] = "there" /\ HomeOf[i] \in MailFolders /\ i \in Selects[n] => found # {}
                           /\ srv[i] = "gone" /\ found # {} => i \in adrift \/ HomeOf[i] \notin Cached
    BY DEF AnswerIsCurrent
  <1>1. n \in Nodes /\ Still(i) /\ i \in InFolder(HomeOf[i])
    BY DEF IInv, TypeOK, Operation, Queries, Call, Nodes, Still, InFolder
  <1>2. Covers(n)
    BY <1>1, ScopeCovers
  <1>3. ASSUME i \in Selects[n], HomeOf[i] \in Cached \/ OldMail(i)
        PROVE  UpToDate(HomeOf[i])
    <2>1. \A f \in Needed \ op.skipped : UpToDate(f)
      BY DEF BatchInv, ScopeSynced
    <2>2. CASE Scope[n] = Unbounded
      <3>1. SyncAllFolders(op.batch)
        BY <2>2 DEF SyncAllFolders
      <3>2. HomeOf[i] \in Cached
        BY <1>3, <3>1 DEF BatchInv, ScopeSynced
      <3>. QED
        BY <2>1, <3>1, <3>2 DEF Needed
    <2>3. CASE Scope[n] # Unbounded
      <3>1. HomeOf[i] \in Scope[n]
        BY <1>2, <1>3, <2>3 DEF Covers
      <3>2. HomeOf[i] \in FolderIds(op.batch)
        BY <3>1, Names DEF FolderIds, Unbounded
      <3>. QED
        BY <2>1, <3>2 DEF Needed
    <2>. QED
      BY <2>2, <2>3
  <1>4. ASSUME srv[i] = "there", HomeOf[i] \in MailFolders, i \in Selects[n]
        PROVE  Holding(i) \cap Answer(n) # {}
    <2>1. Holding(i) # {}
      BY <1>1, <1>3, <1>4 DEF OldMail, UpToDate
    <2>2. PICK id \in Items : emails[id] = i
      BY <2>1, HeldBy
    <2>3. id \in Holding(i) /\ id \in Answer(n)
      BY <1>4, <2>2, Names DEF Holding, Answer, Row
    <2>. QED
      BY <2>3
  <1>5. ASSUME srv[i] = "gone", Holding(i) \cap Answer(n) # {}, HomeOf[i] \in Cached
        PROVE  i \in adrift
    <2>1. i \in Selects[n] /\ Holding(i) # {}
      BY <1>5 DEF Holding, Answer
    <2>2. i \notin told
      BY <1>1, <1>3, <1>5, <2>1 DEF UpToDate
    <2>. QED
      BY <1>1, <1>5, <2>1, <2>2 DEF IInv, TablesInv, RowsMatchKey
  <1>. QED
    BY <1>4, <1>5

\* Whatever the filters, the batches and the folders are: the scope computed for
\* a batch leaves out nothing its queries need, so an answer has every mail that
\* was there when the batch began and that the filter selects, and none that was
\* gone, orphans, drifting rows and the folders excepted that a failed sync left out.
THEOREM AnswersAlwaysCurrent == Spec => []AnswerIsCurrent
  <1>1. Init => IInv /\ BatchInv
    BY InitIInv, InitBatch
  <1>2. IInv /\ BatchInv /\ [Next]_vars => (IInv /\ BatchInv)'
    BY NextIInv, NextBatchInv
  <1>. QED
    BY <1>1, <1>2, SyncedIsCurrent, PTL DEF Spec
=============================================================================
