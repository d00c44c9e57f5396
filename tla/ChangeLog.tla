------------------------------ MODULE ChangeLog ------------------------------
(***************************************************************************)
(* The per-account change log of store/state.py: one row per created,      *)
(* updated or destroyed object, numbered by a counter `seq` that all JMAP  *)
(* types of the account share.  A type's state string is the highest seq   *)
(* recorded for it; `*/changes` answers from the rows after a client's     *)
(* state string, in pages; old rows are pruned behind a watermark.         *)
(*                                                                         *)
(* The module runs the log against what it exists for: a JMAP client that  *)
(* keeps a copy of one type's objects by calling get once and then changes *)
(* and get(ids), while the bridge writes and prunes between its calls.     *)
(*                                                                         *)
(* One SQLite transaction is one step.  A transaction that appends several *)
(* rows is several steps here, which lets the client in between: more      *)
(* behaviours than the code has, never fewer.                              *)
(***************************************************************************)
EXTENDS Naturals, FiniteSets, FiniteSetsExt

CONSTANTS
    Types,      \* the JMAP types that share the counter
    Ids,        \* object ids
    Watched,    \* the type whose objects the client copies
    Keep,       \* prune_change_log's `keep`
    MaxSeq      \* bound: writes stop when the counter has reached it

ASSUME ChangeLogAssumption ==
    /\ Watched \in Types
    /\ IsFiniteSet(Ids)
    /\ Keep \in Nat \ {0}
    /\ MaxSeq \in Nat

VARIABLES
    log,        \* table change_log of this account: a set of rows
    pruned,     \* change_log_retention.pruned_through_seq, 0 without a row
    recorded,   \* history: every row ever appended
    table,      \* table[t][i]: the seq that last wrote object i, 0 when absent
    client      \* the JMAP client's copy and where it is in its protocol

vars == <<log, pruned, recorded, table, client>>

Changes == {"created", "updated", "destroyed"}

Row == [seq : Nat \ {0}, type : Types, object : Ids, change : Changes]

(* "new": must call get; "idle": has a copy; "fetch": has changes to get;  *)
(* "more": hasMoreChanges was true.                                        *)
ClientState == [phase : {"new", "idle", "fetch", "more"},
                token : Nat,
                view  : [Ids -> Nat],
                todo  : SUBSET Ids,
                more  : BOOLEAN]

TypeOK ==
    /\ log \in SUBSET Row
    /\ pruned \in Nat
    /\ recorded \in SUBSET Row
    /\ table \in [Types -> [Ids -> Nat]]
    /\ client \in ClientState

Nothing == [i \in Ids |-> 0]

Init ==
    /\ log = {}
    /\ pruned = 0
    /\ recorded = {}
    /\ table = [t \in Types |-> Nothing]
    /\ client = [phase |-> "new", token |-> 0, view |-> Nothing,
                 todo |-> {}, more |-> FALSE]

-----------------------------------------------------------------------------
(* Reading the log *)

Seqs(rows) == {r.seq : r \in rows}

\* SELECT COALESCE(MAX(seq), 0)
Highest(rows) == IF rows = {} THEN 0 ELSE Max(Seqs(rows))

OfType(rows, t) == {r \in rows : r.type = t}

CurrentState(t) == Highest(OfType(log, t))

Since(rows, t, since) == {r \in OfType(rows, t) : r.seq > since}

\* Fault: the retention watermark is not consulted.
AnswerableUnlessAhead(t, since) == since <= CurrentState(t)

\* Fault: the watermark itself is refused.
AnswerableAbove(t, since) == since <= CurrentState(t) /\ since > pruned

\* The guards of get_changes: anything else is cannotCalculateChanges.
Answerable(t, since) == since <= CurrentState(t) /\ since >= pruned

\* Fault: the page stops one distinct object early.
PageExclusive(rows, max) ==
    {r \in rows : Cardinality({e.object : e \in {x \in rows : x.seq <= r.seq}}) < max}

\* The longest prefix of the rows that names at most max distinct objects.
Page(rows, max) ==
    {r \in rows : Cardinality({e.object : e \in {x \in rows : x.seq <= r.seq}}) <= max}

Objects(rows) == {r.object : r \in rows}

CreatedWithin(rows, i) == \E r \in rows : r.object = i /\ r.change = "created"

LastChange(rows, i) ==
    LET own == {r \in rows : r.object = i}
    IN  (CHOOSE r \in own : \A x \in own : x.seq <= r.seq).change

\* _coalesce: one entry per object of the window, at most.
Coalesce(rows) ==
    LET gone(i) == LastChange(rows, i) = "destroyed"
        isNew(i) == CreatedWithin(rows, i)
    IN  [created   |-> {i \in Objects(rows) : isNew(i) /\ ~gone(i)},
         updated   |-> {i \in Objects(rows) : ~isNew(i) /\ ~gone(i)},
         destroyed |-> {i \in Objects(rows) : ~isNew(i) /\ gone(i)}]

\* Fault: a truncated answer hands out the newest state.
GetChangesNewest(t, since, max) ==
    LET rows == Since(log, t, since)
        page == Page(rows, max)
    IN  [newState |-> IF rows = {} THEN since ELSE Highest(rows),
         more     |-> page # rows,
         lists    |-> Coalesce(page)]

\* get_changes, for a state string that is answerable.
GetChanges(t, since, max) ==
    LET rows == Since(log, t, since)
        page == Page(rows, max)
    IN  [newState |-> IF page = {} THEN since ELSE Highest(page),
         more     |-> page # rows,
         lists    |-> Coalesce(page)]

-----------------------------------------------------------------------------
(* The bridge *)

\* Fault: the next number counts the rows instead of taking the highest seq.
AppendChangeCounted(t, i, change) ==
    LET row == [seq |-> Cardinality(log) + 1, type |-> t, object |-> i, change |-> change]
    IN  /\ log' = log \cup {row}
        /\ recorded' = recorded \cup {row}
        /\ table' = [table EXCEPT ![t][i] = IF change = "destroyed" THEN 0 ELSE row.seq]

\* Fault: one counter per type.
AppendChangePerType(t, i, change) ==
    LET row == [seq |-> CurrentState(t) + 1, type |-> t, object |-> i, change |-> change]
    IN  /\ log' = log \cup {row}
        /\ recorded' = recorded \cup {row}
        /\ table' = [table EXCEPT ![t][i] = IF change = "destroyed" THEN 0 ELSE row.seq]

\* append_change, with the write of the object it describes.
AppendChange(t, i, change) ==
    LET row == [seq |-> Highest(log) + 1, type |-> t, object |-> i, change |-> change]
    IN  /\ log' = log \cup {row}
        /\ recorded' = recorded \cup {row}
        /\ table' = [table EXCEPT ![t][i] = IF change = "destroyed" THEN 0 ELSE row.seq]

\* An id is used once: email ids are random, the server never reissues a folder's.
Unused(t, i) == ~\E r \in recorded : r.type = t /\ r.object = i

Write(t, i, change) ==
    /\ Highest(log) < MaxSeq
    /\ IF change = "created" THEN Unused(t, i) ELSE table[t][i] # 0
    /\ AppendChange(t, i, change)
    /\ UNCHANGED <<pruned, client>>

\* Fault: the early return for a short log is missing.
PruneChangeLogUnguarded ==
    LET cutoff == Highest(log) - Keep
    IN  /\ log' = {r \in log : r.seq > cutoff}
        /\ pruned' = cutoff
        /\ UNCHANGED <<recorded, table, client>>

PruneChangeLog ==
    LET latest == Highest(log)
        cutoff == latest - Keep
    IN  /\ latest > Keep
        /\ log' = {r \in log : r.seq > cutoff}
        /\ pruned' = Max({pruned, cutoff})
        /\ UNCHANGED <<recorded, table, client>>

-----------------------------------------------------------------------------
(* The client: RFC 8620's way of keeping a copy *)

\* Foo/get of every object: the records and the state in one transaction.
Get ==
    /\ client.phase = "new"
    /\ client' = [client EXCEPT !.phase = "idle",
                                !.token = CurrentState(Watched),
                                !.view = table[Watched]]
    /\ UNCHANGED <<log, pruned, recorded, table>>

\* Foo/changes: apply the destructions at once, keep the rest to fetch.
ChangesAnswered(max) ==
    LET answer == GetChanges(Watched, client.token, max)
    IN  /\ client.phase \in {"idle", "more"}
        /\ Answerable(Watched, client.token)
        /\ client' = [phase |-> "fetch",
                      token |-> answer.newState,
                      view  |-> [i \in Ids |-> IF i \in answer.lists.destroyed
                                               THEN 0 ELSE client.view[i]],
                      todo  |-> answer.lists.created \cup answer.lists.updated,
                      more  |-> answer.more]
        /\ UNCHANGED <<log, pruned, recorded, table>>

\* Foo/changes refused with cannotCalculateChanges: the copy is replaced by a get.
ChangesRefused ==
    /\ client.phase \in {"idle", "more"}
    /\ ~Answerable(Watched, client.token)
    /\ client' = [client EXCEPT !.phase = "new", !.more = FALSE]
    /\ UNCHANGED <<log, pruned, recorded, table>>

\* Foo/get of the ids that changes listed; notFound ids leave the copy.
FetchListed ==
    /\ client.phase = "fetch"
    /\ client' = [client EXCEPT !.phase = IF client.more THEN "more" ELSE "idle",
                                !.view = [i \in Ids |-> IF i \in client.todo
                                                        THEN table[Watched][i]
                                                        ELSE client.view[i]],
                                !.todo = {}]
    /\ UNCHANGED <<log, pruned, recorded, table>>

ClientStep ==
    \/ Get
    \/ \E max \in 1..Cardinality(Ids) : ChangesAnswered(max)
    \/ ChangesRefused
    \/ FetchListed

Next ==
    \/ \E t \in Types, i \in Ids, change \in Changes : Write(t, i, change)
    \/ PruneChangeLog
    \/ ClientStep

\* A client keeps polling: that is what the bridge offers it instead of deltas.
Spec == Init /\ [][Next]_vars /\ WF_vars(ClientStep)

-----------------------------------------------------------------------------
(* Properties *)

\* The rows in the table are exactly the recorded rows above the watermark,
\* and they are numbered without gap or repetition although append_change
\* takes the next number from the rows that pruning has left.
LogIsRecordedSuffix ==
    /\ log = {r \in recorded : r.seq > pruned}
    /\ Seqs(log) = (pruned + 1)..Highest(log)
    /\ \A r, x \in recorded : r.seq = x.seq => r = x

\* No answer rests on a truncated history: whenever get_changes accepts a
\* state string, all the rows ever recorded after it are still there.
TruncationNeverSilent ==
    \A t \in Types : \A since \in Seqs(recorded) \cup {0} :
        Answerable(t, since) => Since(log, t, since) = Since(recorded, t, since)

\* And no client that comes back in time has to start over: a state a type has
\* had, "0" included, is accepted until Keep more numbers have been issued, to
\* whatever types, and however often the log was pruned meanwhile.
AnsweredInTime ==
    \A t \in Types : \A since \in Seqs(OfType(recorded, t)) \cup {0} :
        Highest(recorded) < since + Keep => Answerable(t, since)

\* A client that has followed changes (coalesced, in pages, with fetches that
\* see later data) to the current state holds exactly the cached objects.
FollowedCopyIsExact ==
    client.phase = "idle" /\ client.token = CurrentState(Watched) /\ client.token >= pruned
        => client.view = table[Watched]

\* The same without the watermark: equal state strings mean equal objects.
\* What the retention watermark is there for: truncating the log "must never
\* look like nothing changed" (state.py).
SameStateSameObjects ==
    client.phase = "idle" /\ client.token = CurrentState(Watched)
        => client.view = table[Watched]

\* A seq is never issued twice, and the watermark never moves back.
SeqNeverReused ==
    [][/\ pruned' >= pruned
       /\ \A r \in recorded' \ recorded : \A x \in recorded : r.seq > x.seq]_vars

\* Paging makes progress: a client that keeps polling ends with the objects.
CatchesUp == <>[](client.view = table[Watched])

\* The last change of object i, whatever pruning has left of it.
LastTouched(i) == Highest({r \in OfType(recorded, Watched) : r.object = i})

Promised == INSTANCE Feed WITH
    version   <- table[Watched],
    touched   <- [i \in Ids |-> LastTouched(i)],
    now       <- Highest(recorded),
    position  <- client.token,
    copy      <- client.view,
    due       <- client.todo,
    following <- client.phase # "new"

\* The log, its coalescing, its pages and its watermark together keep the promise
\* of Feed: every answer of get_changes names, or has right, all that it skips over.
FeedSpec == Promised!Spec

=============================================================================
