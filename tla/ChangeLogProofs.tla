--------------------------- MODULE ChangeLogProofs ---------------------------
(***************************************************************************)
(* Safety of the change log for every value of the constants: any set of   *)
(* types and ids, any retention, no bound on the counter but MaxSeq, which *)
(* is any natural number.                                                  *)
(*                                                                         *)
(* The inductive invariant says which seqs exist: everything ever recorded *)
(* is numbered 1..n, the log is what lies above the watermark, and the     *)
(* watermark stays below n.  The last part is why Keep must be positive:   *)
(* pruning always leaves the newest row, from which append_change takes    *)
(* the next number.                                                        *)
(*                                                                         *)
(* The second part is about the clients that follow the log, and shows     *)
(* that it implements Feed.                                                *)
(***************************************************************************)
EXTENDS ChangeLog, WellFoundedInduction, FiniteSetTheorems, TLAPS

\* n is the last seq ever issued.
Numbered(n) ==
    /\ Seqs(recorded) = 1..n
    /\ \A r, x \in recorded : r.seq = x.seq => r = x
    /\ log = {r \in recorded : r.seq > pruned}
    /\ pruned <= n
    /\ pruned = n => n = 0
    /\ pruned = 0 \/ pruned + Keep <= n

IInv == TypeOK /\ \E n \in Nat : Numbered(n)

-----------------------------------------------------------------------------
(* Max over an interval of naturals is its upper end. *)
LEMMA MaxOfInterval ==
    ASSUME NEW a \in Nat, NEW b \in Nat, a <= b
    PROVE  Max(a..b) = b
  <1>1. b \in a..b /\ \A y \in a..b : b >= y
    OBVIOUS
  <1>2. \A x \in a..b : (\A y \in a..b : x >= y) => x = b
    <2>1. SUFFICES ASSUME NEW x \in a..b, \A y \in a..b : x >= y
                   PROVE  x = b
      OBVIOUS
    <2>2. x >= b
      BY <2>1, <1>1
    <2>3. QED
      BY <2>2
  <1>3. QED
    BY <1>1, <1>2 DEF Max

(* Max of two naturals is one of them and bounds both. *)
LEMMA MaxOfTwo ==
    ASSUME NEW a \in Nat, NEW b \in Nat
    PROVE  /\ Max({a, b}) \in {a, b}
           /\ Max({a, b}) >= a
           /\ Max({a, b}) >= b
  <1>1. \E x \in {a, b} : \A y \in {a, b} : x >= y
    <2>1. CASE a >= b
      BY <2>1
    <2>2. CASE b >= a
      BY <2>2
    <2>3. QED
      BY <2>1, <2>2
  <1>2. QED
    BY <1>1 DEF Max

(* A nonempty set of naturals with an upper bound has a greatest element. *)
LEMMA BoundedSetHasMax ==
    ASSUME NEW n \in Nat, NEW S \in SUBSET (0..n), S # {}
    PROVE  \E m \in S : \A y \in S : m >= y
  <1> DEFINE Gaps == {n - s : s \in S}
  <1>1. Gaps \in SUBSET Nat /\ Gaps # {}
    <2>1. \A s \in S : n - s \in Nat
      OBVIOUS
    <2>2. PICK s \in S : TRUE
      OBVIOUS
    <2>3. n - s \in Gaps
      OBVIOUS
    <2>4. QED
      BY <2>1, <2>3
  <1>2. PICK g \in Gaps : \A h \in Gaps : ~(<<h, g>> \in OpToRel(<, Nat))
    <2> HIDE DEF Gaps
    <2>1. QED
      BY <1>1, NatLessThanWellFounded, WFMin
  <1>3. \A h \in Gaps : g <= h
    <2>1. OpToRel(<, Nat) = {ss \in Nat \X Nat : ss[1] < ss[2]}
      BY DEF OpToRel
    <2>2. TAKE h \in Gaps
    <2>3. h \in Nat /\ g \in Nat
      BY <1>1
    <2>4. ~(h < g)
      BY <1>2, <2>1, <2>3
    <2>5. QED
      BY <2>3, <2>4
  <1>4. PICK m \in S : g = n - m
    OBVIOUS
  <1>5. \A y \in S : m >= y
    <2>1. TAKE y \in S
    <2>2. n - y \in Gaps
      OBVIOUS
    <2>3. QED
      BY <2>2, <1>3, <1>4
  <1>6. QED
    BY <1>5

(* What append_change and prune_change_log read as the latest seq is n, and *)
(* the rows of the log are the numbers above the watermark.                 *)
LEMMA HighestIsLast ==
    ASSUME TypeOK, NEW n \in Nat, Numbered(n)
    PROVE  /\ Seqs(log) = (pruned + 1)..n
           /\ Highest(log) = n
  <1>1. pruned \in Nat /\ \A r \in recorded : r.seq \in Nat \ {0}
    BY DEF TypeOK, Row
  <1>2. Seqs(log) = (pruned + 1)..n
    <2>1. \A s \in Seqs(log) : s \in (pruned + 1)..n
      <3>1. SUFFICES ASSUME NEW r \in log PROVE r.seq \in (pruned + 1)..n
        BY DEF Seqs
      <3>2. r \in recorded /\ r.seq > pruned /\ r.seq \in 1..n
        BY DEF Numbered, Seqs
      <3>3. QED
        BY <3>2, <1>1
    <2>2. \A s \in (pruned + 1)..n : s \in Seqs(log)
      <3>1. SUFFICES ASSUME NEW s \in (pruned + 1)..n PROVE s \in Seqs(log)
        OBVIOUS
      <3>2. s \in 1..n /\ s > pruned
        BY <1>1
      <3>3. PICK r \in recorded : r.seq = s
        BY <3>2 DEF Numbered, Seqs
      <3>4. r \in log
        BY <3>2, <3>3 DEF Numbered
      <3>5. QED
        BY <3>3, <3>4 DEF Seqs
    <2>3. QED
      BY <2>1, <2>2
  <1>3. CASE n = 0
    <2>1. log = {}
      BY <1>1, <1>2, <1>3 DEF Seqs
    <2>2. QED
      BY <2>1, <1>2, <1>3 DEF Highest
  <1>4. CASE n > 0
    <2>1. pruned + 1 <= n /\ pruned + 1 \in Nat
      BY <1>1, <1>4 DEF Numbered
    <2>2. log # {}
      BY <1>2, <2>1 DEF Seqs
    <2>3. QED
      BY <1>2, <2>1, <2>2, MaxOfInterval DEF Highest
  <1>5. QED
    BY <1>3, <1>4

-----------------------------------------------------------------------------
(* The three facts of the inductive invariant. *)

LEMMA InitIInv == Init => IInv
  <1>1. SUFFICES ASSUME Init PROVE IInv
    OBVIOUS
  <1>2. TypeOK
    BY <1>1 DEF Init, TypeOK, ClientState, Nothing, Row
  <1>3. Numbered(0)
    BY <1>1 DEF Init, Numbered, Seqs
  <1>4. QED
    BY <1>2, <1>3 DEF IInv

(* Appending issues n + 1 and leaves the numbering intact. *)
LEMMA WriteIInv ==
    ASSUME IInv, NEW t \in Types, NEW i \in Ids, NEW change \in Changes,
           Write(t, i, change)
    PROVE  IInv'
  <1>1. PICK n \in Nat : Numbered(n)
    BY DEF IInv
  <1> DEFINE row == [seq |-> n + 1, type |-> t, object |-> i, change |-> change]
  <1>2. TypeOK /\ Highest(log) = n
    BY <1>1, HighestIsLast DEF IInv
  <1>3. /\ log' = log \cup {row}
        /\ recorded' = recorded \cup {row}
        /\ table' = [table EXCEPT ![t][i] = IF change = "destroyed" THEN 0 ELSE row.seq]
        /\ pruned' = pruned /\ client' = client
    BY <1>2 DEF Write, AppendChange
  <1>4. row \in Row /\ row.seq = n + 1
    BY DEF Row
  <1>5. TypeOK'
    BY <1>2, <1>3, <1>4 DEF TypeOK
  <1>6. Numbered(n + 1)'
    <2>1. \A r \in recorded : r.seq \in 1..n
      BY <1>1 DEF Numbered, Seqs
    <2>2. Seqs(recorded') = 1..(n + 1)
      <3>1. Seqs(recorded') = Seqs(recorded) \cup {n + 1}
        BY <1>3, <1>4 DEF Seqs
      <3>2. QED
        BY <3>1, <1>1 DEF Numbered
    <2>3. \A r, x \in recorded' : r.seq = x.seq => r = x
      BY <2>1, <1>1, <1>3, <1>4 DEF Numbered
    <2>4. log' = {r \in recorded' : r.seq > pruned'}
      <3>1. pruned \in Nat /\ n + 1 > pruned
        BY <1>1, <1>2 DEF Numbered, TypeOK
      <3>2. QED
        BY <3>1, <1>1, <1>3, <1>4 DEF Numbered
    <2>5. pruned' <= n + 1 /\ pruned' # n + 1
      BY <1>1, <1>2, <1>3 DEF Numbered, TypeOK
    <2>6. pruned' = 0 \/ pruned' + Keep <= n + 1
      BY <1>1, <1>2, <1>3, ChangeLogAssumption DEF Numbered, TypeOK
    <2>7. QED
      BY <2>2, <2>3, <2>4, <2>5, <2>6 DEF Numbered, Seqs
  <1>7. QED
    BY <1>5, <1>6 DEF IInv

(* Pruning moves the watermark up, and never as far as the newest row. *)
LEMMA PruneIInv ==
    ASSUME IInv, PruneChangeLog
    PROVE  IInv' /\ pruned' >= pruned
  <1>1. PICK n \in Nat : Numbered(n)
    BY DEF IInv
  <1>2. TypeOK /\ Highest(log) = n
    BY <1>1, HighestIsLast DEF IInv
  <1>3. Keep \in Nat \ {0}
    BY ChangeLogAssumption
  <1> DEFINE cutoff == n - Keep
  <1>4. /\ n > Keep
        /\ log' = {r \in log : r.seq > cutoff}
        /\ pruned' = Max({pruned, cutoff})
        /\ recorded' = recorded /\ table' = table /\ client' = client
    BY <1>2 DEF PruneChangeLog
  <1>5. cutoff \in Nat /\ cutoff < n /\ pruned \in Nat
    BY <1>2, <1>3, <1>4 DEF TypeOK
  <1>6. pruned' \in {pruned, cutoff} /\ pruned' >= pruned /\ pruned' >= cutoff
    BY <1>4, <1>5, MaxOfTwo
  <1>7. TypeOK'
    BY <1>2, <1>4, <1>5, <1>6 DEF TypeOK
  <1>8. Numbered(n)'
    <2>1. log' = {r \in recorded' : r.seq > pruned'}
      <3>1. \A r \in recorded : r.seq \in Nat
        BY <1>2 DEF TypeOK, Row
      <3>2. log = {r \in recorded : r.seq > pruned}
        BY <1>1 DEF Numbered
      <3>3. QED
        BY <3>1, <3>2, <1>4, <1>5, <1>6
    <2>2. pruned' <= n /\ pruned' # n
      BY <1>1, <1>3, <1>4, <1>5, <1>6 DEF Numbered
    <2>3. pruned' = 0 \/ pruned' + Keep <= n
      BY <1>1, <1>3, <1>4, <1>5, <1>6 DEF Numbered
    <2>4. QED
      BY <2>1, <2>2, <2>3, <1>1, <1>4 DEF Numbered, Seqs
  <1>9. QED
    BY <1>6, <1>7, <1>8 DEF IInv

(* The newest seq of a set of rows is a natural number. *)
LEMMA AnswerType ==
    ASSUME IInv, NEW rows \in SUBSET log
    PROVE  Highest(rows) \in Nat
  <1>1. PICK n \in Nat : Numbered(n)
    BY DEF IInv
  <1>2. Seqs(rows) \in SUBSET (0..n)
    BY <1>1 DEF Numbered, Seqs
  <1>3. CASE rows = {}
    BY <1>3 DEF Highest
  <1>4. CASE rows # {}
    <2>1. Seqs(rows) # {}
      BY <1>4 DEF Seqs
    <2>2. \E m \in Seqs(rows) : \A y \in Seqs(rows) : m >= y
      BY <1>2, <2>1, BoundedSetHasMax
    <2>3. Max(Seqs(rows)) \in Seqs(rows)
      BY <2>2 DEF Max
    <2>4. QED
      BY <2>3, <1>2, <1>4 DEF Highest
  <1>5. QED
    BY <1>3, <1>4

(* The client's own steps leave the log alone; its token stays a seq. *)
LEMMA ClientIInv ==
    ASSUME IInv, ClientStep
    PROVE  IInv' /\ UNCHANGED <<log, pruned, recorded>>
  <1>1. UNCHANGED <<log, pruned, recorded, table>>
    BY DEF ClientStep, Get, ChangesAnswered, ChangesRefused, FetchListed
  <1>2. TypeOK
    BY DEF IInv
  <1>3. client' \in ClientState
    <2>1. CASE Get
      <3>1. CurrentState(Watched) \in Nat
        BY AnswerType DEF CurrentState, OfType
      <3>2. table[Watched] \in [Ids -> Nat]
        BY <1>2, ChangeLogAssumption DEF TypeOK
      <3>3. QED
        BY <2>1, <3>1, <3>2, <1>2 DEF Get, TypeOK, ClientState
    <2>2. ASSUME NEW max \in 1..Cardinality(Ids), ChangesAnswered(max)
          PROVE  client' \in ClientState
      <3> DEFINE rows == Since(log, Watched, client.token)
                 page == Page(rows, max)
                 lists == Coalesce(page)
                 newState == IF page = {} THEN client.token ELSE Highest(page)
      <3>1. rows \in SUBSET log /\ page \in SUBSET log
        BY DEF Since, OfType, Page
      <3>2. newState \in Nat
        BY <3>1, <1>2, AnswerType DEF TypeOK, ClientState
      <3>3. lists.created \cup lists.updated \in SUBSET Ids
        BY <3>1, <1>2 DEF Coalesce, Objects, TypeOK, Row
      <3>4. client' = [phase |-> "fetch", token |-> newState,
                       view  |-> [i \in Ids |-> IF i \in lists.destroyed
                                                THEN 0 ELSE client.view[i]],
                       todo  |-> lists.created \cup lists.updated,
                       more  |-> page # rows]
        BY <2>2 DEF ChangesAnswered, GetChanges
      <3>5. [i \in Ids |-> IF i \in lists.destroyed THEN 0 ELSE client.view[i]]
                \in [Ids -> Nat]
        BY <1>2 DEF TypeOK, ClientState
      <3> HIDE DEF rows, page, lists, newState
      <3>6. QED
        BY <3>2, <3>3, <3>4, <3>5 DEF ClientState
    <2>3. CASE ChangesRefused
      BY <2>3, <1>2 DEF ChangesRefused, TypeOK, ClientState
    <2>4. CASE FetchListed
      <3>1. [i \in Ids |-> IF i \in client.todo THEN table[Watched][i] ELSE client.view[i]]
                \in [Ids -> Nat]
        BY <1>2, ChangeLogAssumption DEF TypeOK, ClientState
      <3>2. QED
        BY <2>4, <3>1, <1>2 DEF FetchListed, TypeOK, ClientState
    <2>5. QED
      BY <2>1, <2>2, <2>3, <2>4 DEF ClientStep
  <1>4. TypeOK'
    BY <1>1, <1>2, <1>3 DEF TypeOK
  <1>5. QED
    BY <1>1, <1>4 DEF IInv, Numbered, Seqs

\* Every step keeps the numbering.
LEMMA NextIInv == IInv /\ [Next]_vars => IInv'
  <1>1. SUFFICES ASSUME IInv, [Next]_vars PROVE IInv'
    OBVIOUS
  <1>2. CASE \E t \in Types, i \in Ids, change \in Changes : Write(t, i, change)
    BY <1>1, <1>2, WriteIInv
  <1>3. CASE PruneChangeLog
    BY <1>1, <1>3, PruneIInv
  <1>4. CASE ClientStep
    BY <1>1, <1>4, ClientIInv
  <1>5. CASE UNCHANGED vars
    BY <1>1, <1>5 DEF vars, IInv, Numbered, Seqs, TypeOK
  <1>6. QED
    BY <1>1, <1>2, <1>3, <1>4, <1>5 DEF Next

\* So it holds always.
THEOREM IInvHolds == Spec => []IInv
  BY InitIInv, NextIInv, PTL DEF Spec

-----------------------------------------------------------------------------
(* What follows from it. *)

(* Every reachable state is of the declared types (store/state.py's columns *)
(* and the client's record).                                                *)
THEOREM TypeCorrect == Spec => []TypeOK
  <1>1. IInv => TypeOK
    BY DEF IInv
  <1>2. QED
    BY <1>1, IInvHolds, PTL

(* prune_change_log and append_change together keep the log the gap-free,   *)
(* repetition-free suffix of everything ever recorded.                      *)
THEOREM LogIsSuffix == Spec => []LogIsRecordedSuffix
  <1>1. IInv => LogIsRecordedSuffix
    <2>1. SUFFICES ASSUME IInv PROVE LogIsRecordedSuffix
      OBVIOUS
    <2>2. PICK n \in Nat : Numbered(n)
      BY <2>1 DEF IInv
    <2>3. QED
      BY <2>1, <2>2, HighestIsLast DEF IInv, LogIsRecordedSuffix, Numbered
  <1>2. QED
    BY <1>1, IInvHolds, PTL

(* get_changes never answers from a truncated history: below the watermark  *)
(* it refuses, from the watermark on nothing is missing.                    *)
THEOREM NothingSilentlyLost == Spec => []TruncationNeverSilent
  <1>1. IInv => TruncationNeverSilent
    <2>1. SUFFICES ASSUME IInv, NEW t \in Types, NEW since \in Seqs(recorded) \cup {0},
                          Answerable(t, since)
                   PROVE  Since(log, t, since) = Since(recorded, t, since)
      BY DEF TruncationNeverSilent
    <2>2. log = {r \in recorded : r.seq > pruned}
      BY <2>1 DEF IInv, Numbered
    <2>3. /\ pruned \in Nat /\ since \in Nat /\ since >= pruned
          /\ \A r \in recorded : r.seq \in Nat
      BY <2>1 DEF IInv, TypeOK, Row, Seqs, Answerable
    <2>4. \A r \in recorded : r.seq > since => r.seq > pruned
      BY <2>3
    <2>5. QED
      BY <2>2, <2>4 DEF Since, OfType
  <1>2. QED
    BY <1>1, IInvHolds, PTL

(* The newest seq of a set of rows that is numbered up to n at most, and     *)
(* has number s, is s at least.                                             *)
LEMMA HighestBounds ==
    ASSUME NEW n \in Nat, NEW rows, Seqs(rows) \in SUBSET (0..n), NEW s \in Seqs(rows)
    PROVE  s <= Highest(rows)
  <1>1. rows # {}
    BY DEF Seqs
  <1>2. \E m \in Seqs(rows) : \A y \in Seqs(rows) : m >= y
    BY BoundedSetHasMax
  <1>3. \A y \in Seqs(rows) : Max(Seqs(rows)) >= y
    BY <1>2 DEF Max
  <1>4. QED
    BY <1>1, <1>3 DEF Highest

(* The retention is a promise: who returns before `keep` more changes were  *)
(* recorded is answered, whichever types they were of.                      *)
THEOREM InTimeIsAnswered == Spec => []AnsweredInTime
  <1>1. IInv => AnsweredInTime
    <2>1. SUFFICES ASSUME IInv, NEW t \in Types, NEW since \in Seqs(OfType(recorded, t)) \cup {0},
                          Highest(recorded) < since + Keep
                   PROVE  Answerable(t, since)
      BY DEF AnsweredInTime
    <2>2. PICK n \in Nat : Numbered(n)
      BY <2>1 DEF IInv
    <2>3. /\ pruned \in Nat /\ Keep \in Nat \ {0} /\ since \in Nat
          /\ \A r \in recorded : r.seq \in Nat
      BY <2>1, ChangeLogAssumption DEF IInv, TypeOK, Row, Seqs, OfType
    <2>4. Highest(recorded) = n
      <3>1. Seqs(recorded) = 1..n
        BY <2>2 DEF Numbered
      <3>2. CASE n = 0
        BY <3>1, <3>2 DEF Seqs, Highest
      <3>3. CASE n > 0
        <4>1. recorded # {}
          BY <3>1, <3>3 DEF Seqs
        <4>2. QED
          BY <3>1, <3>3, <4>1, MaxOfInterval DEF Highest
      <3>4. QED
        BY <3>2, <3>3
    <2>5. pruned = 0 \/ since > pruned
      BY <2>1, <2>2, <2>3, <2>4 DEF Numbered
    <2>6. since <= CurrentState(t)
      <3>1. OfType(log, t) \in SUBSET log
        BY DEF OfType
      <3>2. CASE since = 0
        <4>1. CurrentState(t) \in Nat
          BY <2>1, <3>1, AnswerType DEF CurrentState
        <4>2. QED
          BY <3>2, <4>1
      <3>3. CASE since # 0
        <4>1. PICK r \in recorded : r.type = t /\ r.seq = since
          BY <3>3 DEF Seqs, OfType
        <4>2. r \in log
          BY <2>2, <2>3, <2>5, <3>3, <4>1 DEF Numbered
        <4>3. since \in Seqs(OfType(log, t))
          BY <4>1, <4>2 DEF Seqs, OfType
        <4>4. Seqs(OfType(log, t)) \in SUBSET (0..n)
          BY <2>2 DEF Numbered, Seqs, OfType
        <4>5. QED
          BY <4>3, <4>4, HighestBounds DEF CurrentState
      <3>4. QED
        BY <3>2, <3>3
    <2>7. QED
      BY <2>3, <2>5, <2>6 DEF Answerable
  <1>2. QED
    BY <1>1, IInvHolds, PTL

(* The counter that append_change derives from the surviving rows never     *)
(* goes back, whatever was pruned, and neither does the watermark.          *)
THEOREM CounterNeverBack == Spec => SeqNeverReused
  <1> DEFINE Step == /\ pruned' >= pruned
                     /\ \A r \in recorded' \ recorded : \A x \in recorded : r.seq > x.seq
  <1>1. IInv /\ [Next]_vars => [Step]_vars
    <2>1. SUFFICES ASSUME IInv, Next PROVE Step
      OBVIOUS
    <2>2. pruned \in Nat
      BY <2>1 DEF IInv, TypeOK
    <2>3. ASSUME NEW t \in Types, NEW i \in Ids, NEW change \in Changes, Write(t, i, change)
          PROVE  Step
      <3>1. PICK n \in Nat : Numbered(n)
        BY <2>1 DEF IInv
      <3>2. Highest(log) = n /\ pruned' = pruned
        BY <2>1, <2>3, <3>1, HighestIsLast DEF IInv, Write
      <3>3. \A r \in recorded' \ recorded : r.seq = n + 1
        BY <2>3, <3>2 DEF Write, AppendChange
      <3>4. \A x \in recorded : x.seq \in 1..n
        BY <3>1 DEF Numbered, Seqs
      <3>5. QED
        BY <2>2, <3>2, <3>3, <3>4
    <2>4. CASE PruneChangeLog
      BY <2>1, <2>4, PruneIInv DEF PruneChangeLog
    <2>5. CASE ClientStep
      BY <2>1, <2>2, <2>5, ClientIInv
    <2>6. QED
      BY <2>1, <2>3, <2>4, <2>5 DEF Next
  <1>2. QED
    BY <1>1, IInvHolds, PTL DEF Spec, SeqNeverReused

-----------------------------------------------------------------------------
(***************************************************************************)
(* Followers.  A client that follows the change log is a client of Feed.   *)
(* What must be known of the log beyond its numbering is how its rows and  *)
(* the objects belong together, and what a client that is still answered   *)
(* can have seen.                                                          *)
(***************************************************************************)

\* The rows of object i of the watched type.
RowsOf(i) == {r \in OfType(recorded, Watched) : r.object = i}

Following == client.phase # "new"

\* The last row of an object says which version of it is stored.
LastRowTells ==
    \A i \in Ids :
        /\ RowsOf(i) = {} => table[Watched][i] = 0
        /\ \A r \in RowsOf(i) :
               (\A x \in RowsOf(i) : x.seq <= r.seq) =>
                   table[Watched][i] = IF r.change = "destroyed" THEN 0 ELSE r.seq

\* An object's first row is its creation, its only one.
CreatedFirst ==
    \A i \in Ids : \A r, x \in RowsOf(i) : r.change = "created" => r.seq <= x.seq

\* A client whose state string is still answered has, or is fetching, only
\* objects that were created by then.  (One that read everything after the log
\* had lost all rows of the type has state 0, and is refused.)
SeenIsOld ==
    Following /\ client.token >= pruned =>
        \A i \in Ids : client.view[i] # 0 \/ i \in client.todo =>
                           \E r \in RowsOf(i) : r.seq <= client.token

\* What the client has neither to fetch nor to be told of is right.
RightSoFar ==
    Following =>
        \A i \in Ids \ client.todo :
            (\A r \in RowsOf(i) : r.seq <= client.token) => client.view[i] = table[Watched][i]

\* A state string is a number of the past, and only a fetch has things to fetch.
TokenIsPast ==
    /\ client.token <= Highest(log)
    /\ client.phase # "fetch" => client.todo = {}

FollowInv == LastRowTells /\ CreatedFirst /\ SeenIsOld /\ RightSoFar /\ TokenIsPast

-----------------------------------------------------------------------------
(* Sets of recorded rows *)

\* Every row is numbered, with a number no greater than the newest.
LEMMA Recorded ==
    ASSUME IInv
    PROVE  \E n \in Nat :
               /\ Numbered(n) /\ Highest(log) = n /\ pruned \in 0..n
               /\ log = {r \in recorded : r.seq > pruned}
               /\ recorded \in SUBSET Row
               /\ \A r \in recorded : r.seq \in 1..n
  <1>1. PICK n \in Nat : Numbered(n)
    BY DEF IInv
  <1>2. TypeOK /\ Highest(log) = n
    BY <1>1, HighestIsLast DEF IInv
  <1>3. \A r \in recorded : r.seq \in 1..n
    BY <1>1 DEF Numbered, Seqs
  <1>4. pruned \in 0..n
    BY <1>1, <1>2 DEF Numbered, TypeOK
  <1> QED
    BY <1>1, <1>2, <1>3, <1>4 DEF Numbered, TypeOK

\* The highest number of a set of rows bounds them all and is one of them.
LEMMA HighestOf ==
    ASSUME NEW n \in Nat, NEW rows, \A r \in rows : r.seq \in 1..n
    PROVE  /\ Highest(rows) \in Nat
           /\ \A r \in rows : r.seq <= Highest(rows)
           /\ rows # {} => \E r \in rows : r.seq = Highest(rows)
           /\ rows = {} => Highest(rows) = 0
  <1>2. CASE rows = {}
    BY <1>2 DEF Highest
  <1>3. CASE rows # {}
    <2>1. Seqs(rows) \in SUBSET (0..n) /\ Seqs(rows) # {}
      BY <1>3 DEF Seqs
    <2>2. \E m \in Seqs(rows) : \A y \in Seqs(rows) : m >= y
      BY <2>1, BoundedSetHasMax
    <2>3. Max(Seqs(rows)) \in Seqs(rows) /\ \A y \in Seqs(rows) : Max(Seqs(rows)) >= y
      BY <2>2 DEF Max
    <2>4. Highest(rows) \in Seqs(rows) /\ \A y \in Seqs(rows) : y <= Highest(rows)
      BY <2>1, <2>3, <1>3 DEF Highest
    <2>5. \A r \in rows : r.seq \in Seqs(rows)
      BY DEF Seqs
    <2>6. \E r \in rows : r.seq = Highest(rows)
      BY <2>4 DEF Seqs
    <2> QED
      BY <2>1, <2>4, <2>5, <2>6, <1>3
  <1> QED
    BY <1>2, <1>3

\* The newest number of the log is the newest ever recorded.
LEMMA HighestRecorded ==
    ASSUME IInv
    PROVE  Highest(recorded) = Highest(log)
  <1>1. PICK n \in Nat : Numbered(n) /\ Highest(log) = n /\ \A r \in recorded : r.seq \in 1..n
    BY Recorded
  <1>2. CASE n = 0
    BY <1>1, <1>2, HighestOf
  <1>3. CASE n # 0
    <2>1. PICK r \in recorded : r.seq = n
      BY <1>1, <1>3 DEF Numbered, Seqs
    <2>2. n <= Highest(recorded) /\ Highest(recorded) \in Nat
      BY <1>1, <2>1, HighestOf
    <2>3. \E x \in recorded : x.seq = Highest(recorded)
      BY <1>1, <2>1, HighestOf
    <2> QED
      BY <2>2, <2>3, <1>1
  <1> QED
    BY <1>2, <1>3

\* LastChange looks at the last row of the object.
LEMMA LastOf ==
    ASSUME IInv, NEW rows \in SUBSET recorded, NEW i, i \in Objects(rows)
    PROVE  \E last \in rows : /\ last.object = i
                              /\ \A x \in rows : x.object = i => x.seq <= last.seq
                              /\ LastChange(rows, i) = last.change
  <1> DEFINE own == {r \in rows : r.object = i}
  <1>1. PICK n \in Nat : own # {} /\ \A r \in own : r.seq \in 1..n
    BY Recorded DEF Objects
  <1>2. \E r \in own : \A x \in own : x.seq <= r.seq
    <2> HIDE DEF own
    <2> QED
      BY SMTT(30), <1>1, HighestOf
  <1> DEFINE last == CHOOSE r \in own : \A x \in own : x.seq <= r.seq
  <1>3. last \in own /\ \A x \in own : x.seq <= last.seq
    BY <1>2
  <1>4. LastChange(rows, i) = last.change
    BY DEF LastChange
  <1> HIDE DEF last
  <1> QED
    BY <1>3, <1>4

-----------------------------------------------------------------------------
(* FollowInv is inductive *)

LEMMA InitFollow == Init => FollowInv
  <1> SUFFICES ASSUME Init PROVE FollowInv
    OBVIOUS
  <1>1. /\ recorded = {} /\ log = {} /\ table[Watched] = Nothing
        /\ client.phase = "new" /\ client.token = 0 /\ client.todo = {}
    BY ChangeLogAssumption DEF Init
  <1>2. \A i \in Ids : RowsOf(i) = {} /\ table[Watched][i] = 0
    BY <1>1 DEF RowsOf, OfType, Nothing
  <1>3. Highest(log) = 0
    BY <1>1 DEF Highest
  <1> QED
    BY <1>1, <1>2, <1>3 DEF FollowInv, LastRowTells, CreatedFirst, SeenIsOld, RightSoFar,
                            TokenIsPast, Following

\* A new row is the last of its object, and its first if it is a creation.
LEMMA WriteFollow ==
    ASSUME IInv, FollowInv, NEW t \in Types, NEW i \in Ids, NEW change \in Changes,
           Write(t, i, change)
    PROVE  FollowInv'
  <1>1. PICK n \in Nat : /\ Numbered(n) /\ Highest(log) = n /\ pruned \in 0..n
                         /\ recorded \in SUBSET Row
                         /\ \A r \in recorded : r.seq \in 1..n
    BY Recorded
  <1> DEFINE row == [seq |-> n + 1, type |-> t, object |-> i, change |-> change]
  <1>2. /\ recorded' = recorded \cup {row} /\ log' = log \cup {row}
        /\ table' = [table EXCEPT ![t][i] = IF change = "destroyed" THEN 0 ELSE n + 1]
        /\ pruned' = pruned /\ client' = client
        /\ IF change = "created" THEN Unused(t, i) ELSE table[t][i] # 0
    BY <1>1 DEF Write, AppendChange
  <1>3. row.seq = n + 1 /\ row.type = t /\ row.object = i /\ row.change = change
    OBVIOUS
  <1> HIDE DEF row
  <1>4. IInv'
    BY WriteIInv
  <1>5. ASSUME NEW j \in Ids
        PROVE  RowsOf(j)' = IF t = Watched /\ j = i THEN RowsOf(j) \cup {row} ELSE RowsOf(j)
    BY <1>2, <1>3 DEF RowsOf, OfType
  <1>6. \A j \in Ids : \A r \in RowsOf(j) : r \in recorded /\ r.seq \in 1..n /\ r.seq < row.seq
    BY <1>1, <1>3 DEF RowsOf, OfType
  <1>7. table \in [Types -> [Ids -> Nat]] /\ client \in ClientState
    BY DEF IInv, TypeOK
  <1>8. \A j \in Ids : table[Watched]'[j] = IF t = Watched /\ j = i
                                            THEN IF change = "destroyed" THEN 0 ELSE n + 1
                                            ELSE table[Watched][j]
    BY <1>2, <1>7, ChangeLogAssumption
  <1>9. LastRowTells'
    <2> SUFFICES ASSUME NEW j \in Ids
                 PROVE  /\ RowsOf(j)' = {} => table[Watched]'[j] = 0
                        /\ \A r \in RowsOf(j)' :
                               (\A x \in RowsOf(j)' : x.seq <= r.seq) =>
                                   table[Watched]'[j] = IF r.change = "destroyed" THEN 0 ELSE r.seq
      BY DEF LastRowTells
    <2>1. CASE t = Watched /\ j = i
      <3>1. RowsOf(j)' = RowsOf(j) \cup {row}
        BY <1>5, <2>1
      <3>2. ASSUME NEW r \in RowsOf(j)', \A x \in RowsOf(j)' : x.seq <= r.seq
            PROVE  r = row
        BY <3>1, <3>2, <1>6, <1>3
      <3> QED
        BY <3>1, <3>2, <2>1, <1>3, <1>8
    <2>2. CASE ~(t = Watched /\ j = i)
      BY <2>2, <1>5, <1>8 DEF FollowInv, LastRowTells
    <2> QED
      BY <2>1, <2>2
  <1>10. CreatedFirst'
    <2> SUFFICES ASSUME NEW j \in Ids, NEW r \in RowsOf(j)', NEW x \in RowsOf(j)',
                        r.change = "created"
                 PROVE  r.seq <= x.seq
      BY DEF CreatedFirst
    <2>1. CASE t = Watched /\ j = i
      <3>1. RowsOf(j)' = RowsOf(j) \cup {row}
        BY <1>5, <2>1
      <3>2. CASE r = row
        <4>1. RowsOf(j) = {}
          BY <3>2, <1>2, <1>3, <2>1 DEF Unused, RowsOf, OfType
        <4> QED
          BY <4>1, <3>1, <3>2, <1>3
      <3>3. CASE r \in RowsOf(j)
        BY <3>1, <3>3, <1>3, <1>6 DEF FollowInv, CreatedFirst
      <3> QED
        BY <3>1, <3>2, <3>3
    <2>2. CASE ~(t = Watched /\ j = i)
      BY <2>2, <1>5 DEF FollowInv, CreatedFirst
    <2> QED
      BY <2>1, <2>2
  <1>11. SeenIsOld'
    <2>1. \A j \in Ids : RowsOf(j) \subseteq RowsOf(j)'
      BY <1>5
    <2> QED
      BY <2>1, <1>2 DEF FollowInv, SeenIsOld, Following
  <1>12. RightSoFar'
    <2> SUFFICES ASSUME Following, NEW j \in Ids \ client.todo,
                        \A r \in RowsOf(j)' : r.seq <= client.token
                 PROVE  client.view[j] = table[Watched]'[j]
      BY <1>2 DEF RightSoFar, Following
    <2>1. client.token \in Nat /\ client.token <= n
      BY <1>1, <1>7 DEF FollowInv, TokenIsPast, ClientState
    <2>2. ~(t = Watched /\ j = i)
      BY <2>1, <1>3, <1>5
    <2> QED
      BY <2>2, <1>5, <1>8 DEF FollowInv, RightSoFar
  <1>13. TokenIsPast'
    <2>1. \A r \in log' : r.seq \in 1..(n + 1)
      BY <1>1, <1>2, <1>3 DEF IInv, Numbered
    <2>2. row \in log'
      BY <1>2
    <2>3. Highest(log)' \in Nat /\ n + 1 <= Highest(log)'
      BY <2>1, <2>2, <1>3, HighestOf
    <2> QED
      BY <2>3, <1>1, <1>2, <1>7 DEF FollowInv, TokenIsPast, ClientState
  <1> QED
    BY <1>9, <1>10, <1>11, <1>12, <1>13 DEF FollowInv

\* Pruning leaves the objects and their recorded rows, and refuses more clients.
LEMMA PruneFollow ==
    ASSUME IInv, FollowInv, PruneChangeLog
    PROVE  FollowInv'
  <1>1. recorded' = recorded /\ table' = table /\ client' = client
    BY DEF PruneChangeLog
  <1>2. pruned' >= pruned /\ IInv'
    BY PruneIInv
  <1>3. \A i \in Ids : RowsOf(i)' = RowsOf(i)
    BY <1>1 DEF RowsOf, OfType
  <1>4. Highest(log)' = Highest(log)
    <2>1. PICK n \in Nat : /\ Highest(log) = n /\ \A r \in recorded : r.seq \in 1..n
                           /\ log \subseteq recorded
      BY Recorded
    <2>2. log' = {r \in log : r.seq > n - Keep} /\ n > Keep /\ Keep \in Nat \ {0}
      BY <2>1, ChangeLogAssumption DEF PruneChangeLog
    <2>3. PICK r \in log : r.seq = n
      BY <2>1, <2>2, HighestOf
    <2>4. r \in log'
      BY <2>2, <2>3
    <2>5. \A x \in log' : x.seq \in 1..n
      BY <2>1, <2>2
    <2>6. /\ Highest(log') \in Nat /\ n <= Highest(log')
          /\ \E x \in log' : x.seq = Highest(log')
      BY <2>3, <2>4, <2>5, HighestOf
    <2> QED
      BY <2>1, <2>5, <2>6
  <1>5. pruned \in Nat /\ pruned' \in Nat /\ client.token \in Nat
    BY <1>2 DEF IInv, TypeOK, ClientState
  <1>6. SeenIsOld'
    BY <1>1, <1>2, <1>3, <1>5 DEF FollowInv, SeenIsOld, Following
  <1> QED
    BY <1>1, <1>3, <1>4, <1>6
       DEF FollowInv, LastRowTells, CreatedFirst, RightSoFar, TokenIsPast, Following

-----------------------------------------------------------------------------
(* Answers *)

\* The page that get_changes answers with is all that was recorded for the type
\* between the client's state and the new one, however many rows and objects
\* that is and whatever has been pruned.
LEMMA PageIsInterval ==
    ASSUME IInv, NEW max \in Nat, NEW since \in Nat, Answerable(Watched, since),
           NEW page, page = Page(Since(log, Watched, since), max),
           NEW new, new = IF page = {} THEN since ELSE Highest(page)
    PROVE  /\ page = {r \in OfType(recorded, Watched) : r.seq > since /\ r.seq <= new}
           /\ new \in Nat /\ since <= new
           /\ page # {} => new <= Highest(log)
  <1>1. PICK n \in Nat : /\ Highest(log) = n /\ pruned \in 0..n
                         /\ log = {r \in recorded : r.seq > pruned}
                         /\ recorded \in SUBSET Row
                         /\ \A r \in recorded : r.seq \in 1..n
    BY Recorded
  <1>2. since \in Nat /\ since >= pruned
    BY DEF Answerable, IInv, TypeOK, ClientState
  <1> DEFINE rows == Since(log, Watched, since)
             named(s) == {e.object : e \in {x \in rows : x.seq <= s}}
  <1>3. rows = {r \in OfType(recorded, Watched) : r.seq > since}
    BY <1>1, <1>2 DEF Since, OfType
  <1>4. page = {r \in rows : Cardinality(named(r.seq)) <= max} /\ page \subseteq rows
    BY DEF Page
  <1>5. \A r \in rows : r \in recorded /\ r.seq \in 1..n /\ r.object \in Ids
    BY <1>1, <1>3 DEF OfType, Row
  <1> HIDE DEF rows
  <1>6. \A r \in page, x \in rows : x.seq <= r.seq => x \in page
    <2> SUFFICES ASSUME NEW r \in page, NEW x \in rows, x.seq <= r.seq
                 PROVE  Cardinality(named(x.seq)) <= max
      BY <1>4
    <2>1. \A s : named(s) \subseteq Ids /\ IsFiniteSet(named(s))
      <3>1. \A s : named(s) \in SUBSET Ids
        BY <1>5
      <3> HIDE DEF named
      <3> QED
        BY <3>1, FS_Subset, ChangeLogAssumption
    <2>2. named(x.seq) \in SUBSET named(r.seq)
      <3>1. \A e \in rows : e.seq <= x.seq => e.seq <= r.seq
        BY <1>4, <1>5
      <3> QED
        BY <3>1
    <2>3. Cardinality(named(r.seq)) <= max
      BY <1>4
    <2> HIDE DEF named
    <2>4. /\ Cardinality(named(x.seq)) <= Cardinality(named(r.seq))
          /\ Cardinality(named(x.seq)) \in Nat /\ Cardinality(named(r.seq)) \in Nat
      BY <2>1, <2>2, FS_Subset, FS_CardinalityType
    <2> QED
      BY <2>3, <2>4
  <1>7. CASE page = {}
    <2>1. new = since
      BY <1>7
    <2>2. \A r \in OfType(recorded, Watched) : ~(r.seq > since /\ r.seq <= new)
      BY <2>1, <1>1, <1>2 DEF OfType
    <2>3. {r \in OfType(recorded, Watched) : r.seq > since /\ r.seq <= new} = {}
      BY <2>2
    <2> QED
      BY <2>1, <2>3, <1>2, <1>7
  <1>8. CASE page # {}
    <2>1. \A r \in page : r.seq \in 1..n
      BY <1>4, <1>5
    <2>2. /\ new = Highest(page) /\ new \in Nat
          /\ \A r \in page : r.seq <= new
          /\ \E r \in page : r.seq = new
      BY <2>1, <1>8, HighestOf
    <2>3. PICK last \in page : last.seq = new
      BY <2>2
    <2>4. since < new /\ new <= n
      BY <2>1, <2>3, <1>2, <1>3, <1>4
    <2>5. \A x \in rows : x.seq <= new => x \in page
      BY <2>3, <1>6
    <2>6. page = {r \in rows : r.seq <= new}
      BY <2>2, <2>5, <1>4
    <2>7. page = {r \in OfType(recorded, Watched) : r.seq > since /\ r.seq <= new}
      BY <2>6, <1>3
    <2> QED
      BY <2>2, <2>4, <2>7, <1>1, <1>2
  <1> QED
    BY <1>7, <1>8

\* What an answer says of an object with rows in the page: whether it is to be
\* fetched, was destroyed, or came and went in between.
LEMMA AnswerNames ==
    ASSUME IInv, FollowInv, NEW since \in Nat, NEW page, NEW new \in Nat,
           page = {r \in OfType(recorded, Watched) : r.seq > since /\ r.seq <= new},
           NEW i \in Ids
    PROVE  LET lists == Coalesce(page)
               fetch == lists.created \cup lists.updated
           IN  /\ i \in fetch \cup lists.destroyed => \E r \in RowsOf(i) : r.seq <= new
               /\ i \in lists.destroyed /\ (\A r \in RowsOf(i) : r.seq <= new) => table[Watched][i] = 0
               /\ i \notin fetch /\ (\A r \in RowsOf(i) : r.seq <= new) =>
                      \/ i \in lists.destroyed
                      \/ \A r \in RowsOf(i) : r.seq <= since
                      \/ table[Watched][i] = 0 /\ \A r \in RowsOf(i) : r.seq > since
  <1> DEFINE lists == Coalesce(page)
             fetch == lists.created \cup lists.updated
  <1>1. page \in SUBSET recorded /\ \A r \in recorded : r.seq \in Nat
    BY DEF OfType, IInv, TypeOK, Row
  <1>2. since \in Nat
    BY DEF IInv, TypeOK, ClientState
  <1>3. \A r \in page : r.object = i <=> r \in RowsOf(i)
    BY DEF RowsOf, OfType
  <1>4. \A r \in RowsOf(i) : r.seq <= new /\ r.seq > since => r \in page
    BY DEF RowsOf, OfType
  <1>5. CASE i \notin Objects(page)
    <2>1. i \notin fetch \cup lists.destroyed
      BY <1>5 DEF Coalesce
    <2>2. \A r \in RowsOf(i) : r \notin page
      BY <1>5 DEF Objects, RowsOf
    <2>3. (\A r \in RowsOf(i) : r.seq <= new) => \A r \in RowsOf(i) : r.seq <= since
      BY <2>2, <1>1, <1>2, <1>4 DEF RowsOf, OfType
    <2> QED
      BY <2>1, <2>3
  <1>6. CASE i \in Objects(page)
    <2>1. PICK last \in page : /\ last.object = i
                               /\ \A x \in page : x.object = i => x.seq <= last.seq
                               /\ LastChange(page, i) = last.change
      BY <1>1, <1>6, LastOf
    <2>2. last \in RowsOf(i) /\ last.seq <= new /\ last.seq > since
      BY <2>1, <1>3
    <2>3. ASSUME \A r \in RowsOf(i) : r.seq <= new
          PROVE  \A x \in RowsOf(i) : x.seq <= last.seq
      <3> TAKE x \in RowsOf(i)
      <3>1. CASE x \in page
        BY <3>1, <2>1, <1>3
      <3>2. CASE x \notin page
        BY <3>2, <2>2, <2>3, <1>1, <1>2, <1>4 DEF RowsOf, OfType
      <3> QED
        BY <3>1, <3>2
    <2>4. (\A r \in RowsOf(i) : r.seq <= new) =>
              table[Watched][i] = IF last.change = "destroyed" THEN 0 ELSE last.seq
      BY <2>2, <2>3 DEF FollowInv, LastRowTells
    <2>5. i \in fetch <=> last.change # "destroyed"
      BY <2>1, <1>6 DEF Coalesce
    <2>6. i \in lists.destroyed <=> last.change = "destroyed" /\ ~CreatedWithin(page, i)
      BY <2>1, <1>6 DEF Coalesce
    <2>7. ASSUME CreatedWithin(page, i)
          PROVE  \A r \in RowsOf(i) : r.seq > since
      <3>1. PICK c \in page : c.object = i /\ c.change = "created"
        BY <2>7 DEF CreatedWithin
      <3>2. c \in RowsOf(i) /\ c.seq > since
        BY <3>1, <1>3
      <3>3. \A r \in RowsOf(i) : c.seq <= r.seq
        BY <3>1, <3>2 DEF FollowInv, CreatedFirst
      <3> QED
        BY <3>2, <3>3, <1>1, <1>2 DEF RowsOf, OfType
    <2> HIDE DEF lists, fetch
    <2>8. i \in lists.destroyed /\ (\A r \in RowsOf(i) : r.seq <= new) => table[Watched][i] = 0
      BY <2>4, <2>6
    <2>9. i \notin fetch /\ (\A r \in RowsOf(i) : r.seq <= new) =>
              \/ i \in lists.destroyed
              \/ table[Watched][i] = 0 /\ \A r \in RowsOf(i) : r.seq > since
      BY <2>4, <2>5, <2>6, <2>7
    <2> QED
      BY <2>2, <2>8, <2>9 DEF lists, fetch
  <1> QED
    BY <1>5, <1>6

\* Reading everything: the state says no more than was read.
LEMMA GetFollow ==
    ASSUME IInv, FollowInv, Get
    PROVE  FollowInv' /\ CurrentState(Watched) \in 0..Highest(log)
  <1>1. PICK n \in Nat : /\ Highest(log) = n /\ pruned \in 0..n
                         /\ log = {r \in recorded : r.seq > pruned}
                         /\ recorded \in SUBSET Row
                         /\ \A r \in recorded : r.seq \in 1..n
    BY Recorded
  <1>2. client \in ClientState /\ table \in [Types -> [Ids -> Nat]]
    BY DEF IInv, TypeOK
  <1>3. /\ client.phase = "new"
        /\ client' = [client EXCEPT !.phase = "idle", !.token = CurrentState(Watched),
                                    !.view = table[Watched]]
        /\ UNCHANGED <<log, pruned, recorded, table>>
    BY DEF Get
  <1>4. /\ client'.phase = "idle" /\ client'.token = CurrentState(Watched)
        /\ client'.view = table[Watched] /\ client'.todo = client.todo
    BY <1>2, <1>3 DEF ClientState
  <1>5. client.todo = {}
    BY <1>3 DEF FollowInv, TokenIsPast
  <1>6. \A i \in Ids : RowsOf(i)' = RowsOf(i)
    BY <1>3 DEF RowsOf, OfType
  <1> DEFINE own == OfType(log, Watched)
  <1>7. \A r \in own : r.seq \in 1..n
    BY <1>1 DEF OfType
  <1>8. /\ CurrentState(Watched) = Highest(own) /\ Highest(own) \in Nat
        /\ \A r \in own : r.seq <= Highest(own)
        /\ own # {} => \E r \in own : r.seq = Highest(own)
        /\ own = {} => Highest(own) = 0
    <2> HIDE DEF own
    <2>1. /\ Highest(own) \in Nat
          /\ \A r \in own : r.seq <= Highest(own)
          /\ own # {} => \E r \in own : r.seq = Highest(own)
          /\ own = {} => Highest(own) = 0
      BY <1>7, HighestOf
    <2>2. CurrentState(Watched) = Highest(own)
      BY DEF CurrentState, own
    <2> QED
      BY <2>1, <2>2
  <1>9. Highest(own) <= n
    BY <1>1, <1>7, <1>8
  <1>10. SeenIsOld'
    <2> SUFFICES ASSUME CurrentState(Watched) >= pruned, NEW i \in Ids, table[Watched][i] # 0
                 PROVE  \E r \in RowsOf(i) : r.seq <= CurrentState(Watched)
      BY <1>3, <1>4, <1>5, <1>6 DEF SeenIsOld
    <2>1. PICK r \in RowsOf(i) : TRUE
      BY DEF FollowInv, LastRowTells
    <2>2. r \in OfType(recorded, Watched) /\ r.seq \in 1..n
      BY <1>1 DEF RowsOf, OfType
    <2>3. CASE r.seq > pruned
      <3>1. r \in own
        BY <2>2, <2>3, <1>1 DEF OfType
      <3> QED
        BY <3>1, <1>8
    <2>4. CASE ~(r.seq > pruned)
      BY <2>2, <2>4, <1>1, <1>8
    <2> QED
      BY <2>3, <2>4
  <1>11. RightSoFar'
    BY <1>3, <1>4 DEF RightSoFar
  <1>12. TokenIsPast'
    BY <1>1, <1>3, <1>4, <1>5, <1>8, <1>9 DEF TokenIsPast
  <1>13. LastRowTells' /\ CreatedFirst'
    BY <1>3, <1>6 DEF FollowInv, LastRowTells, CreatedFirst
  <1> QED
    BY <1>1, <1>8, <1>9, <1>10, <1>11, <1>12, <1>13 DEF FollowInv

\* An answer: what it does not name the client has right, up to the new state.
LEMMA AnswerFollow ==
    ASSUME IInv, FollowInv, NEW max \in Nat, ChangesAnswered(max)
    PROVE  /\ FollowInv'
           /\ \E p \in client.token..Highest(log) : \E fetch, gone \in SUBSET Ids :
                  /\ client'.token = p /\ client'.todo = fetch
                  /\ client'.view = [i \in Ids |-> IF i \in gone THEN 0 ELSE client.view[i]]
                  /\ \A i \in gone : (\A r \in RowsOf(i) : r.seq <= p) => table[Watched][i] = 0
                  /\ \A i \in Ids \ fetch : (\A r \in RowsOf(i) : r.seq <= p) =>
                                                client'.view[i] = table[Watched][i]
  <1> DEFINE rows == Since(log, Watched, client.token)
             page == Page(rows, max)
             lists == Coalesce(page)
             new == IF page = {} THEN client.token ELSE Highest(page)
             fetch == lists.created \cup lists.updated
             gone == lists.destroyed
  <1>1. /\ client.phase \in {"idle", "more"} /\ Answerable(Watched, client.token)
        /\ UNCHANGED <<log, pruned, recorded, table>>
        /\ client'.phase = "fetch" /\ client'.token = new /\ client'.todo = fetch
        /\ client'.view = [i \in Ids |-> IF i \in gone THEN 0 ELSE client.view[i]]
    BY DEF ChangesAnswered, GetChanges
  <1>0. client.token \in Nat
    BY DEF IInv, TypeOK, ClientState
  <1>2. /\ page = {r \in OfType(recorded, Watched) : r.seq > client.token /\ r.seq <= new}
        /\ new \in Nat /\ client.token <= new
        /\ page # {} => new <= Highest(log)
    BY <1>0, <1>1, PageIsInterval
  <1>3. /\ client.token \in Nat /\ client.token <= Highest(log) /\ client.todo = {}
        /\ Highest(log) \in Nat /\ pruned \in Nat /\ client.token >= pruned
    BY <1>1, Recorded DEF FollowInv, TokenIsPast, IInv, TypeOK, ClientState, Answerable
  <1>4. new \in client.token..Highest(log)
    BY <1>2, <1>3
  <1>5. fetch \in SUBSET Ids /\ gone \in SUBSET Ids
    <2>1. \A r \in page : r.object \in Ids
      BY <1>2 DEF OfType, IInv, TypeOK, Row
    <2> QED
      BY <2>1 DEF Coalesce, Objects
  <1>6. \A i \in Ids :
            /\ i \in fetch \cup gone => \E r \in RowsOf(i) : r.seq <= new
            /\ i \in gone /\ (\A r \in RowsOf(i) : r.seq <= new) => table[Watched][i] = 0
            /\ i \notin fetch /\ (\A r \in RowsOf(i) : r.seq <= new) =>
                   \/ i \in gone
                   \/ \A r \in RowsOf(i) : r.seq <= client.token
                   \/ table[Watched][i] = 0 /\ \A r \in RowsOf(i) : r.seq > client.token
    <2> HIDE DEF page, new
    <2> QED
      BY <1>0, <1>2, AnswerNames
  <1> HIDE DEF rows, page, lists, new, fetch, gone
  <1>7. \A i \in Ids : client'.view[i] = IF i \in gone THEN 0 ELSE client.view[i]
    BY <1>1
  <1>8. \A i \in Ids : \A r \in RowsOf(i) : r.seq \in Nat
    BY Recorded DEF RowsOf, OfType
  <1>9. \A i \in Ids : client.view[i] # 0 => \E r \in RowsOf(i) : r.seq <= client.token
    BY <1>1, <1>3 DEF FollowInv, SeenIsOld, Following
  <1>10. ASSUME NEW i \in Ids \ fetch, \A r \in RowsOf(i) : r.seq <= new
         PROVE  client'.view[i] = table[Watched][i]
    <2>1. CASE i \in gone
      BY <2>1, <1>6, <1>7, <1>10
    <2>2. CASE i \notin gone /\ \A r \in RowsOf(i) : r.seq <= client.token
      BY <2>2, <1>1, <1>3, <1>7 DEF FollowInv, RightSoFar, Following
    <2>3. CASE i \notin gone /\ table[Watched][i] = 0 /\ \A r \in RowsOf(i) : r.seq > client.token
      BY <2>3, <1>3, <1>7, <1>8, <1>9
    <2> QED
      BY <2>1, <2>2, <2>3, <1>6, <1>10
  <1>11. \A i \in Ids : RowsOf(i)' = RowsOf(i)
    BY <1>1 DEF RowsOf, OfType
  <1>12. SeenIsOld'
    <2> SUFFICES ASSUME NEW i \in Ids, client'.view[i] # 0 \/ i \in fetch
                 PROVE  \E r \in RowsOf(i) : r.seq <= new
      BY <1>1, <1>11 DEF SeenIsOld
    <2>1. CASE i \in fetch
      BY <2>1, <1>6
    <2>2. CASE i \notin fetch
      BY <2>2, <1>2, <1>3, <1>7, <1>8, <1>9
    <2> QED
      BY <2>1, <2>2
  <1>13. RightSoFar'
    BY <1>1, <1>10, <1>11 DEF RightSoFar
  <1>14. TokenIsPast'
    BY <1>1, <1>3, <1>4 DEF TokenIsPast
  <1>15. LastRowTells' /\ CreatedFirst'
    BY <1>1, <1>11 DEF FollowInv, LastRowTells, CreatedFirst
  <1>16. FollowInv'
    BY <1>12, <1>13, <1>14, <1>15 DEF FollowInv
  <1>17. \A i \in gone : (\A r \in RowsOf(i) : r.seq <= new) => table[Watched][i] = 0
    BY <1>5, <1>6
  <1> QED
    BY <1>1, <1>4, <1>5, <1>10, <1>16, <1>17

\* Refused clients start over.
LEMMA RefusedFollow ==
    ASSUME IInv, FollowInv, ChangesRefused
    PROVE  FollowInv'
  <1>1. /\ client'.phase = "new" /\ client'.token = client.token /\ client'.todo = client.todo
        /\ client.phase \in {"idle", "more"}
        /\ UNCHANGED <<log, pruned, recorded, table>>
    BY DEF ChangesRefused, IInv, TypeOK, ClientState
  <1>2. \A i \in Ids : RowsOf(i)' = RowsOf(i)
    BY <1>1 DEF RowsOf, OfType
  <1> QED
    BY <1>1, <1>2 DEF FollowInv, LastRowTells, CreatedFirst, SeenIsOld, RightSoFar,
                      TokenIsPast, Following

\* A fetch reads the objects as they are by now.
LEMMA FetchFollow ==
    ASSUME IInv, FollowInv, FetchListed
    PROVE  FollowInv'
  <1>1. /\ client.phase = "fetch" /\ client'.phase \in {"more", "idle"}
        /\ client'.token = client.token /\ client'.todo = {}
        /\ client'.view = [i \in Ids |-> IF i \in client.todo THEN table[Watched][i]
                                         ELSE client.view[i]]
        /\ UNCHANGED <<log, pruned, recorded, table>>
    BY DEF FetchListed, IInv, TypeOK, ClientState
  <1>2. \A i \in Ids : RowsOf(i)' = RowsOf(i)
    BY <1>1 DEF RowsOf, OfType
  <1>3. \A i \in Ids : client'.view[i] = IF i \in client.todo THEN table[Watched][i]
                                         ELSE client.view[i]
    BY <1>1
  <1>4. SeenIsOld' /\ RightSoFar'
    BY <1>1, <1>2, <1>3 DEF FollowInv, SeenIsOld, RightSoFar, Following
  <1>5. LastRowTells' /\ CreatedFirst' /\ TokenIsPast'
    BY <1>1, <1>2 DEF FollowInv, LastRowTells, CreatedFirst, TokenIsPast
  <1> QED
    BY <1>4, <1>5 DEF FollowInv

\* Every step keeps what followers know.
LEMMA NextFollow == IInv /\ FollowInv /\ [Next]_vars => FollowInv'
  <1> SUFFICES ASSUME IInv, FollowInv, [Next]_vars PROVE FollowInv'
    OBVIOUS
  <1>1. CASE \E t \in Types, i \in Ids, change \in Changes : Write(t, i, change)
    BY <1>1, WriteFollow
  <1>2. CASE PruneChangeLog
    BY <1>2, PruneFollow
  <1>3. CASE ClientStep
    <2>1. Cardinality(Ids) \in Nat
      BY FS_CardinalityType, ChangeLogAssumption
    <2>2. \A max \in 1..Cardinality(Ids) : max \in Nat
      BY <2>1
    <2> QED
      BY <1>3, <2>2, GetFollow, AnswerFollow, RefusedFollow, FetchFollow DEF ClientStep
  <1>4. CASE UNCHANGED vars
    BY <1>4 DEF vars, FollowInv, LastRowTells, CreatedFirst, SeenIsOld, RightSoFar, TokenIsPast,
                Following, RowsOf, OfType, Highest, Seqs
  <1> QED
    BY <1>1, <1>2, <1>3, <1>4 DEF Next

\* However a client's calls meet writes and pruning, what it has is right up to
\* its state string, or still being fetched.
THEOREM FollowersAreRight == Spec => []FollowInv
  BY InitFollow, NextFollow, IInvHolds, PTL DEF Spec

\* A client that has followed changes to the current state, through pages,
\* coalesced answers and late fetches, holds exactly the cached objects.
THEOREM FollowedCopyExact == Spec => []FollowedCopyIsExact
  <1>1. IInv /\ FollowInv => FollowedCopyIsExact
    <2> SUFFICES ASSUME IInv, FollowInv, client.phase = "idle",
                        client.token = CurrentState(Watched), client.token >= pruned
                 PROVE  client.view = table[Watched]
      BY DEF FollowedCopyIsExact
    <2> SUFFICES ASSUME NEW i \in Ids
                 PROVE  client.view[i] = table[Watched][i]
      <3>1. client.view \in [Ids -> Nat] /\ table[Watched] \in [Ids -> Nat]
        BY ChangeLogAssumption DEF IInv, TypeOK, ClientState
      <3> QED
        BY <3>1
    <2>1. PICK n \in Nat : /\ pruned \in 0..n
                           /\ log = {r \in recorded : r.seq > pruned}
                           /\ \A r \in recorded : r.seq \in 1..n
      BY Recorded
    <2> DEFINE own == OfType(log, Watched)
    <2>2. \A r \in own : r.seq \in 1..n
      BY <2>1 DEF OfType
    <2>3. client.token = Highest(own)
      BY DEF CurrentState
    <2>4. \A r \in own : r.seq <= Highest(own)
      <3> HIDE DEF own
      <3> QED
        BY <2>2, HighestOf
    <2>5. client.token \in Nat
      BY DEF IInv, TypeOK, ClientState
    <2>6. ASSUME NEW r \in RowsOf(i) PROVE r.seq <= client.token
      <3>1. r \in recorded /\ r.type = Watched /\ r.seq \in 1..n
        BY <2>1 DEF RowsOf, OfType
      <3>2. CASE r.seq > pruned
        BY <3>1, <3>2, <2>1, <2>3, <2>4 DEF OfType
      <3>3. CASE ~(r.seq > pruned)
        BY <3>1, <3>3, <2>1, <2>5
      <3> QED
        BY <3>2, <3>3
    <2>7. i \notin client.todo
      BY DEF FollowInv, TokenIsPast
    <2> QED
      BY <2>6, <2>7 DEF FollowInv, RightSoFar, Following
  <1> QED
    BY <1>1, IInvHolds, FollowersAreRight, PTL

-----------------------------------------------------------------------------
(* The refinement *)

\* Feed's numbers: an object's last row, and the newest of all.
LEMMA TouchedBy ==
    ASSUME IInv, NEW i \in Ids, NEW p \in Nat
    PROVE  /\ LastTouched(i) \in Nat
           /\ LastTouched(i) <= p <=> \A r \in RowsOf(i) : r.seq <= p
  <1>1. PICK n \in Nat : \A r \in recorded : r.seq \in 1..n
    BY Recorded
  <1>2. \A r \in RowsOf(i) : r.seq \in 1..n
    BY <1>1 DEF RowsOf, OfType
  <1>3. LastTouched(i) = Highest(RowsOf(i))
    BY DEF LastTouched, RowsOf
  <1> QED
    BY <1>2, <1>3, HighestOf

\* A new log is a new feed.
LEMMA InitFeed == Init => Promised!Init
  <1> SUFFICES ASSUME Init PROVE Promised!Init
    OBVIOUS
  <1>1. /\ recorded = {} /\ table[Watched] = Nothing
        /\ client.phase = "new" /\ client.token = 0 /\ client.todo = {} /\ client.view = Nothing
    BY ChangeLogAssumption DEF Init
  <1>2. Highest(recorded) = 0
    BY <1>1 DEF Highest
  <1>3. \A i \in Ids : LastTouched(i) = 0
    BY <1>1 DEF LastTouched, OfType, Highest
  <1> QED
    BY <1>1, <1>2, <1>3 DEF Promised!Init, Promised!Nothing, Nothing

\* A write, of the watched type or another, is the next change.
LEMMA WriteIsChange ==
    ASSUME IInv, NEW t \in Types, NEW i \in Ids, NEW change \in Changes, Write(t, i, change)
    PROVE  Promised!Change
  <1>1. PICK n \in Nat : Highest(log) = n /\ Highest(recorded) = n /\ recorded \in SUBSET Row
                         /\ \A r \in recorded : r.seq \in 1..n
    BY Recorded, HighestRecorded
  <1> DEFINE row == [seq |-> n + 1, type |-> t, object |-> i, change |-> change]
  <1>2. /\ recorded' = recorded \cup {row} /\ client' = client
        /\ table' = [table EXCEPT ![t][i] = IF change = "destroyed" THEN 0 ELSE n + 1]
    BY <1>1 DEF Write, AppendChange
  <1>3. row.seq = n + 1 /\ row.type = t /\ row.object = i
    OBVIOUS
  <1> HIDE DEF row
  <1>4. \A r \in recorded' : r.seq \in 1..(n + 1)
    BY <1>1, <1>2, <1>3
  <1>5. Highest(recorded)' = n + 1
    <2>1. row \in recorded'
      BY <1>2
    <2>2. /\ Highest(recorded') \in Nat /\ n + 1 <= Highest(recorded')
          /\ \E r \in recorded' : r.seq = Highest(recorded')
      BY <1>3, <1>4, <2>1, HighestOf
    <2> QED
      BY <2>2, <1>4
  <1>6. \A j \in Ids : LastTouched(j)' = IF t = Watched /\ j = i THEN n + 1 ELSE LastTouched(j)
    <2> TAKE j \in Ids
    <2> DEFINE of == {r \in OfType(recorded, Watched) : r.object = j}
    <2>1. LastTouched(j)' = Highest(IF t = Watched /\ j = i THEN of \cup {row} ELSE of)
      <3>1. {r \in OfType(recorded', Watched) : r.object = j}
                = IF t = Watched /\ j = i THEN of \cup {row} ELSE of
        BY <1>2, <1>3 DEF OfType
      <3> QED
        BY <3>1 DEF LastTouched
    <2>2. \A r \in of \cup {row} : r.seq \in 1..(n + 1)
      BY <1>1, <1>3 DEF OfType
    <2> HIDE DEF of
    <2>3. /\ Highest(of \cup {row}) \in Nat /\ n + 1 <= Highest(of \cup {row})
          /\ \E r \in of \cup {row} : r.seq = Highest(of \cup {row})
      BY <1>3, <2>2, HighestOf
    <2>4. Highest(of \cup {row}) = n + 1
      BY <2>2, <2>3
    <2>5. Highest(of) = LastTouched(j)
      BY DEF LastTouched, of
    <2> QED
      BY <2>1, <2>4, <2>5
  <1>7. table \in [Types -> [Ids -> Nat]]
    BY DEF IInv, TypeOK
  <1>8. CASE t # Watched
    <2>1. table'[Watched] = table[Watched]
      BY <1>2, <1>7, <1>8, ChangeLogAssumption
    <2>2. [j \in Ids |-> LastTouched(j)]' = [j \in Ids |-> LastTouched(j)]
      BY <1>6, <1>8
    <2> QED
      BY <2>1, <2>2, <1>1, <1>2, <1>5 DEF Promised!Change
  <1>9. CASE t = Watched
    <2>1. table'[Watched] = [table[Watched] EXCEPT ![i] = IF change = "destroyed" THEN 0 ELSE n + 1]
      BY <1>2, <1>7, <1>9, ChangeLogAssumption
    <2>2. [j \in Ids |-> LastTouched(j)]' = [[j \in Ids |-> LastTouched(j)] EXCEPT ![i] = n + 1]
      BY <1>6, <1>9
    <2>3. table'[Watched] \in {[table[Watched] EXCEPT ![i] = v] : v \in {0, n + 1}}
      BY <2>1
    <2> QED
      BY <2>2, <2>3, <1>1, <1>2, <1>5 DEF Promised!Change
  <1> QED
    BY <1>8, <1>9

\* An answer is a Tell, however it was put together.
LEMMA AnswerIsTell ==
    ASSUME IInv, FollowInv, NEW max \in Nat, ChangesAnswered(max)
    PROVE  \E p \in 0..Highest(recorded) : \E fetch, gone \in SUBSET Ids :
               Promised!Tell(p, fetch, gone)
  <1>1. PICK p \in client.token..Highest(log) : \E fetch, gone \in SUBSET Ids :
            /\ client'.token = p /\ client'.todo = fetch
            /\ client'.view = [i \in Ids |-> IF i \in gone THEN 0 ELSE client.view[i]]
            /\ \A i \in gone : (\A r \in RowsOf(i) : r.seq <= p) => table[Watched][i] = 0
            /\ \A i \in Ids \ fetch : (\A r \in RowsOf(i) : r.seq <= p) =>
                                          client'.view[i] = table[Watched][i]
    BY AnswerFollow
  <1>2. PICK fetch \in SUBSET Ids, gone \in SUBSET Ids :
            /\ client'.token = p /\ client'.todo = fetch
            /\ client'.view = [i \in Ids |-> IF i \in gone THEN 0 ELSE client.view[i]]
            /\ \A i \in gone : (\A r \in RowsOf(i) : r.seq <= p) => table[Watched][i] = 0
            /\ \A i \in Ids \ fetch : (\A r \in RowsOf(i) : r.seq <= p) =>
                                          client'.view[i] = table[Watched][i]
    BY <1>1
  <1>3. client.token \in Nat /\ Highest(recorded) = Highest(log) /\ Highest(log) \in Nat
    BY Recorded, HighestRecorded DEF IInv, TypeOK, ClientState
  <1>4. p \in Nat /\ p \in client.token..Highest(recorded)
    BY <1>3
  <1>5. /\ client.phase \in {"idle", "more"} /\ client.todo = {} /\ client'.phase = "fetch"
        /\ UNCHANGED <<recorded, table>>
    BY DEF ChangesAnswered, FollowInv, TokenIsPast
  <1>6. \A i \in Ids : /\ LastTouched(i) \in Nat
                       /\ LastTouched(i) <= p <=> \A r \in RowsOf(i) : r.seq <= p
    BY <1>4, TouchedBy
  <1> DEFINE touched == [i \in Ids |-> LastTouched(i)]
  <1>7. \A i \in gone : touched[i] > p \/ table[Watched][i] = 0
    BY <1>2, <1>4, <1>6
  <1>8. \A i \in Ids \ fetch : touched[i] <= p => client'.view[i] = table[Watched][i]
    BY <1>2, <1>6
  <1>9. touched' = touched /\ Highest(recorded)' = Highest(recorded) /\ table[Watched]' = table[Watched]
    BY <1>5 DEF LastTouched
  <1> HIDE DEF touched
  <1>10. Promised!Tell(p, fetch, gone)
    BY <1>2, <1>4, <1>5, <1>7, <1>8, <1>9 DEF Promised!Tell, touched
  <1>11. p \in 0..Highest(recorded)
    BY <1>3, <1>4
  <1> QED
    BY <1>10, <1>11

\* Every step of the log is a step of the feed, or none.
LEMMA NextFeed ==
    IInv /\ FollowInv /\ [Next]_vars => [Promised!Next]_(Promised!vars)
  <1> SUFFICES ASSUME IInv, FollowInv, [Next]_vars
               PROVE  Promised!Next \/ UNCHANGED Promised!vars
    OBVIOUS
  <1>1. CASE \E t \in Types, i \in Ids, change \in Changes : Write(t, i, change)
    BY <1>1, WriteIsChange DEF Promised!Next
  <1>2. CASE PruneChangeLog
    BY <1>2 DEF PruneChangeLog, Promised!vars, LastTouched
  <1>3. CASE Get
    <2>1. CurrentState(Watched) \in 0..Highest(recorded)
      BY <1>3, GetFollow, HighestRecorded
    <2>2. /\ client.phase = "new"
          /\ client'.phase = "idle" /\ client'.token = CurrentState(Watched)
          /\ client'.view = table[Watched] /\ client'.todo = client.todo
          /\ UNCHANGED <<recorded, table>>
      BY <1>3 DEF Get, IInv, TypeOK, ClientState
    <2>3. Promised!Restart
      BY <2>1, <2>2 DEF Promised!Restart, LastTouched
    <2> QED
      BY <2>3 DEF Promised!Next
  <1>4. ASSUME NEW max \in 1..Cardinality(Ids), ChangesAnswered(max)
        PROVE  Promised!Next
    <2>1. max \in Nat
      BY FS_CardinalityType, ChangeLogAssumption
    <2> QED
      BY <2>1, <1>4, AnswerIsTell DEF Promised!Next
  <1>5. CASE ChangesRefused
    <2>1. /\ client.phase \in {"idle", "more"} /\ client'.phase = "new"
          /\ client'.token = client.token /\ client'.view = client.view
          /\ client.todo = {} /\ client'.todo = {}
          /\ UNCHANGED <<recorded, table>>
      BY <1>5 DEF ChangesRefused, IInv, TypeOK, ClientState, FollowInv, TokenIsPast
    <2>2. Promised!Decline
      BY <2>1 DEF Promised!Decline, LastTouched
    <2> QED
      BY <2>2 DEF Promised!Next
  <1>6. CASE FetchListed
    <2>1. /\ client.phase = "fetch" /\ client'.phase \in {"more", "idle"}
          /\ client'.token = client.token /\ client'.todo = {}
          /\ client'.view = [i \in Ids |-> IF i \in client.todo THEN table[Watched][i]
                                           ELSE client.view[i]]
          /\ UNCHANGED <<recorded, table>>
      BY <1>6 DEF FetchListed, IInv, TypeOK, ClientState
    <2>2. Promised!Fetch
      BY <2>1 DEF Promised!Fetch, LastTouched
    <2> QED
      BY <2>2 DEF Promised!Next
  <1>7. CASE UNCHANGED vars
    BY <1>7 DEF vars, Promised!vars, LastTouched
  <1> QED
    BY <1>1, <1>2, <1>3, <1>4, <1>5, <1>6, <1>7 DEF Next, ClientStep

\* The log with its pages, its coalescing and its watermark implements Feed:
\* each step is a step of what `*/changes` promises, or invisible to a client.
THEOREM ImplementsFeed == Spec => FeedSpec
  <1>1. Init => Promised!Init
    BY InitFeed
  <1>2. IInv /\ FollowInv /\ [Next]_vars => [Promised!Next]_(Promised!vars)
    BY NextFeed
  <1> QED
    BY <1>1, <1>2, IInvHolds, FollowersAreRight, PTL DEF Spec, FeedSpec, Promised!Spec

\* In terms of the log: what changed no later than the client's state is right
\* in its copy, or named to it and not fetched yet.
THEOREM PromiseKept == Spec => []Promised!Promise
  <1>1. IInv /\ FollowInv => Promised!Promise
    <2> SUFFICES ASSUME IInv, FollowInv PROVE Promised!Promise
      OBVIOUS
    <2>1. PICK n \in Nat : /\ Highest(log) = n /\ Highest(recorded) = n
                           /\ \A r \in recorded : r.seq \in 1..n
      BY Recorded, HighestRecorded
    <2>2. client.token \in Nat /\ client.token <= n
      BY <2>1 DEF FollowInv, TokenIsPast, IInv, TypeOK, ClientState
    <2>3. ASSUME NEW i \in Ids
          PROVE  /\ LastTouched(i) \in Nat /\ LastTouched(i) <= n
                 /\ table[Watched][i] \in {0, LastTouched(i)}
      <3>1. \A r \in RowsOf(i) : r.seq \in 1..n
        BY <2>1 DEF RowsOf, OfType
      <3>2. LastTouched(i) = Highest(RowsOf(i))
        BY DEF LastTouched, RowsOf
      <3>3. CASE RowsOf(i) = {}
        BY <3>1, <3>2, <3>3, HighestOf DEF FollowInv, LastRowTells
      <3>4. CASE RowsOf(i) # {}
        <4>1. PICK r \in RowsOf(i) : r.seq = LastTouched(i) /\ \A x \in RowsOf(i) : x.seq <= r.seq
          BY <3>1, <3>2, <3>4, HighestOf
        <4> QED
          BY <4>1, <3>1 DEF FollowInv, LastRowTells
      <3> QED
        BY <3>3, <3>4
    <2>4. ASSUME Following, NEW i \in Ids \ client.todo, LastTouched(i) <= client.token
          PROVE  client.view[i] = table[Watched][i]
      <3>1. \A r \in RowsOf(i) : r.seq <= client.token
        BY <2>2, <2>4, TouchedBy
      <3> QED
        BY <3>1, <2>4 DEF FollowInv, RightSoFar
    <2> QED
      BY <2>1, <2>2, <2>3, <2>4 DEF Promised!Promise, Following
  <1> QED
    BY <1>1, IInvHolds, FollowersAreRight, PTL
=============================================================================
