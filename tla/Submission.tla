------------------------------ MODULE Submission ------------------------------
(***************************************************************************)
(* EmailSubmission/set (jmap/submission.py) and its table                  *)
(* (store/submissions.py): an email is sent by fetching its MIME, inserting*)
(* a pending row, calling SendMail, and recording what came of it.         *)
(* Sending cannot be undone or safely repeated, and its answer may never   *)
(* come: a call that times out may have been carried out, may still be     *)
(* carried out later, or never.  The process may stop between any two      *)
(* steps, and nothing looks at the rows when it starts again.              *)
(*                                                                         *)
(* One batch runs at a time (command_lock).  A batch is a sequence of      *)
(* creations and then of destructions, in the order of its `create` object *)
(* and `destroy` array.  A submission's client_id is as unique as its id   *)
(* and goes with it; both are random.                                      *)
(***************************************************************************)
EXTENDS Naturals, Sequences, FiniteSets, FiniteSetsExt

CONSTANTS
    Emails,       \* emails a client may name
    Ids,          \* submission ids (with their client ids)
    NoId,         \* not an id
    MaxBatch,     \* bound: creations in one batch; it destroys one more at most
    MaxRequests,  \* bound: creations that clients ask for
    MaxFaults     \* bound: crashes, timeouts and refusals

ASSUME SubmissionAssumption ==
    /\ NoId \notin Ids \cup Emails
    /\ MaxBatch \in Nat
    /\ MaxRequests \in 0..Cardinality(Ids)
    /\ MaxFaults \in Nat

VARIABLES
    cached,     \* the emails in the cache
    allowSend,  \* policy.allow_send, read from the configuration at a start
    rows,       \* table submissions: id -> status and email
    logged,     \* the last change_log entry of a submission
    sends,      \* sends[id]: how often the server accepted the message of id
    late,       \* ids whose call timed out and may still be carried out
    asked,      \* history: creations that clients have asked for, per email
    told,       \* history: ids that a client was told were created
    unheard,    \* history: ids whose SendMail did not answer in time
    cut,        \* history: ids a crash left behind
    op,         \* the batch in flight
    faults      \* how many faults have happened

table == <<rows, logged>>
outside == <<sends, late, asked, told, unheard, cut>>
vars == <<cached, allowSend, table, outside, op, faults>>

Status == {"pending", "final", "failed"}

NoRow == [status |-> "none", email |-> NoId]

Row == [status : {"none"} \cup Status, email : Emails \cup {NoId}]

Batch == [pc      : {"idle", "create", "fetched", "send", "accepted", "refused", "destroy"},
          create  : Seq(Emails),      \* creations still to do
          destroy : Seq(Ids),         \* destructions still to do
          id      : Ids \cup {NoId},  \* the submission being sent
          created : SUBSET Ids]       \* what the reply will report as created

Idle == [pc |-> "idle", create |-> <<>>, destroy |-> <<>>, id |-> NoId, created |-> {}]

TypeOK ==
    /\ cached \in SUBSET Emails
    /\ allowSend \in BOOLEAN
    /\ rows \in [Ids -> Row]
    /\ logged \in [Ids -> {"none", "created", "destroyed"}]
    /\ sends \in [Ids -> Nat]
    /\ late \in SUBSET Ids
    /\ asked \in [Emails -> Nat]
    /\ told \in SUBSET Ids
    /\ unheard \in SUBSET Ids
    /\ cut \in SUBSET Ids
    /\ op \in Batch
    /\ faults \in Nat

Init ==
    /\ cached = Emails
    /\ allowSend \in BOOLEAN
    /\ rows = [id \in Ids |-> NoRow]
    /\ logged = [id \in Ids |-> "none"]
    /\ sends = [id \in Ids |-> 0]
    /\ late = {}
    /\ asked = [e \in Emails |-> 0]
    /\ told = {}
    /\ unheard = {}
    /\ cut = {}
    /\ op = Idle
    /\ faults = 0

-----------------------------------------------------------------------------
(* The table *)

Present(id) == rows[id].status # "none"

\* Ids are random: one that was ever used is not drawn again.
Fresh(id) == ~Present(id) /\ logged[id] = "none"

InsertSubmission(id, email) ==
    rows' = [rows EXCEPT ![id] = [status |-> "pending", email |-> email]]

\* Fault: the row is given JMAP's name of the status.
SetUndoStatus(id, status) ==
    rows' = [rows EXCEPT ![id].status = IF status = "failed" THEN "canceled" ELSE status]

SetStatus(id, status) ==
    rows' = [rows EXCEPT ![id].status = status]

-----------------------------------------------------------------------------
(* One batch *)

\* How often the email occurs among the creations of a batch.
Times(create, e) == Cardinality({n \in DOMAIN create : create[n] = e})

StartBatch(create, destroy) ==
    /\ op = Idle
    /\ MapThenSumSet(LAMBDA e : asked[e], Emails) + Len(create) <= MaxRequests
    /\ asked' = [e \in Emails |-> asked[e] + Times(create, e)]
    /\ op' = [Idle EXCEPT !.pc = "create", !.create = create, !.destroy = destroy]
    /\ UNCHANGED <<cached, allowSend, table, sends, late, told, unheard, cut, faults>>

\* The batch without its first creation.
NextCreate == [op EXCEPT !.pc = "create", !.create = Tail(@), !.id = NoId]

\* _validate_create and the policy: notCreated, and on to the next creation.
RejectCreate ==
    /\ op.pc = "create" /\ op.create # <<>>
    /\ Head(op.create) \notin cached \/ ~allowSend
    /\ op' = NextCreate
    /\ UNCHANGED <<cached, allowSend, table, outside, faults>>

\* ItemOperations: the item is there with a body.
Fetch ==
    /\ op.pc = "create" /\ op.create # <<>>
    /\ Head(op.create) \in cached /\ allowSend
    /\ op' = [op EXCEPT !.pc = "fetched"]
    /\ UNCHANGED <<cached, allowSend, table, outside, faults>>

\* The server fails or the item has no body: serverFail, no row.
FetchFails ==
    /\ op.pc = "create" /\ op.create # <<>>
    /\ Head(op.create) \in cached /\ allowSend
    /\ faults < MaxFaults
    /\ faults' = faults + 1
    /\ op' = NextCreate
    /\ UNCHANGED <<cached, allowSend, table, outside>>

\* Fault: the row is written only after the call.
PersistNothing(id) ==
    /\ op.pc = "fetched"
    /\ Fresh(id)
    /\ op' = [op EXCEPT !.pc = "send", !.id = id]
    /\ UNCHANGED <<cached, allowSend, table, outside, faults>>

Persist(id) ==
    /\ op.pc = "fetched"
    /\ Fresh(id)
    /\ InsertSubmission(id, Head(op.create))
    /\ op' = [op EXCEPT !.pc = "send", !.id = id]
    /\ UNCHANGED <<cached, allowSend, logged, outside, faults>>

SendMail ==
    /\ op.pc = "send"
    /\ sends' = [sends EXCEPT ![op.id] = @ + 1]
    /\ op' = [op EXCEPT !.pc = "accepted"]
    /\ UNCHANGED <<cached, allowSend, table, late, asked, told, unheard, cut, faults>>

\* The server says no, and has not sent.
SendRefused ==
    /\ op.pc = "send"
    /\ faults < MaxFaults
    /\ faults' = faults + 1
    /\ op' = [op EXCEPT !.pc = "refused"]
    /\ UNCHANGED <<cached, allowSend, table, outside>>

\* No answer in time: done, not done, or to be done later.
SendTimesOut ==
    /\ op.pc = "send"
    /\ faults < MaxFaults
    /\ faults' = faults + 1
    /\ \/ sends' = [sends EXCEPT ![op.id] = @ + 1] /\ late' = late
       \/ late' = late \cup {op.id} /\ sends' = sends
    /\ unheard' = unheard \cup {op.id}
    /\ op' = [op EXCEPT !.pc = "refused"]
    /\ UNCHANGED <<cached, allowSend, table, asked, told, cut>>

CarriedOutLate(id) ==
    /\ id \in late
    /\ late' = late \ {id}
    /\ sends' = [sends EXCEPT ![id] = @ + 1]
    /\ UNCHANGED <<cached, allowSend, table, asked, told, unheard, cut, op, faults>>

\* Fault: after a failure the message is sent again under the same client id.
RecordRefusalAndRetry ==
    /\ op.pc = "refused"
    /\ \/ SetStatus(op.id, "failed") /\ op' = NextCreate
       \/ rows' = rows /\ op' = [op EXCEPT !.pc = "send"]
    /\ UNCHANGED <<cached, allowSend, logged, outside, faults>>

\* Fault: the failure branch leaves the row as it is.
RecordNoRefusal ==
    /\ op.pc = "refused"
    /\ op' = NextCreate
    /\ UNCHANGED <<cached, allowSend, table, outside, faults>>

\* Fault: the outcome is written in a clause that both branches reach.
RecordRefusalAsFinal ==
    /\ op.pc = "refused"
    /\ SetStatus(op.id, "final")
    /\ logged' = [logged EXCEPT ![op.id] = "created"]
    /\ op' = NextCreate
    /\ UNCHANGED <<cached, allowSend, outside, faults>>

\* BackendError: STATUS_FAILED, serverFail.
RecordRefusal ==
    /\ op.pc = "refused"
    /\ SetStatus(op.id, "failed")
    /\ op' = NextCreate
    /\ UNCHANGED <<cached, allowSend, logged, outside, faults>>

\* Fault: the creation is reported and the status not written.
RecordNothing ==
    /\ op.pc = "accepted"
    /\ logged' = [logged EXCEPT ![op.id] = "created"]
    /\ op' = [NextCreate EXCEPT !.created = @ \cup {op.id}]
    /\ UNCHANGED <<cached, allowSend, rows, outside, faults>>

\* Fault: the change is not logged.
RecordUnlogged ==
    /\ op.pc = "accepted"
    /\ SetStatus(op.id, "final")
    /\ op' = [NextCreate EXCEPT !.created = @ \cup {op.id}]
    /\ UNCHANGED <<cached, allowSend, logged, outside, faults>>

\* STATUS_FINAL and the log entry in one transaction.
RecordSent ==
    /\ op.pc = "accepted"
    /\ SetStatus(op.id, "final")
    /\ logged' = [logged EXCEPT ![op.id] = "created"]
    /\ op' = [NextCreate EXCEPT !.created = @ \cup {op.id}]
    /\ UNCHANGED <<cached, allowSend, outside, faults>>

CreatesDone ==
    /\ op.pc = "create" /\ op.create = <<>>
    /\ op' = [op EXCEPT !.pc = "destroy"]
    /\ UNCHANGED <<cached, allowSend, table, outside, faults>>

\* The row and its log entry in one transaction; notFound changes nothing.
Destroy ==
    /\ op.pc = "destroy" /\ op.destroy # <<>>
    /\ LET id == Head(op.destroy)
       IN  IF Present(id)
           THEN /\ rows' = [rows EXCEPT ![id] = NoRow]
                /\ logged' = [logged EXCEPT ![id] = "destroyed"]
           ELSE UNCHANGED table
    /\ op' = [op EXCEPT !.destroy = Tail(@)]
    /\ UNCHANGED <<cached, allowSend, outside, faults>>

Reply ==
    /\ op.pc = "destroy" /\ op.destroy = <<>>
    /\ told' = told \cup op.created
    /\ op' = Idle
    /\ UNCHANGED <<cached, allowSend, table, sends, late, asked, unheard, cut, faults>>

\* The process stops, perhaps in the middle of the call, and starts with the
\* configuration of that moment.
Crash ==
    /\ faults < MaxFaults
    /\ faults' = faults + 1
    /\ op # Idle
    /\ cut' = IF op.id = NoId THEN cut ELSE cut \cup {op.id}
    /\ late' \in {late, IF op.pc = "send" THEN late \cup {op.id} ELSE late}
    /\ allowSend' \in BOOLEAN
    /\ op' = Idle
    /\ UNCHANGED <<cached, table, sends, asked, told, unheard>>

\* Between batches a sync removes an email from the cache.
Removed(e) ==
    /\ op = Idle
    /\ e \in cached
    /\ cached' = cached \ {e}
    /\ UNCHANGED <<allowSend, table, outside, op, faults>>

-----------------------------------------------------------------------------
SeqsUpTo(S, n) == UNION {[1..k -> S] : k \in 0..n}

Work ==
    \/ RejectCreate
    \/ Fetch \/ FetchFails
    \/ \E id \in Ids : Persist(id)
    \/ SendMail \/ SendRefused \/ SendTimesOut
    \/ RecordRefusal \/ RecordSent
    \/ CreatesDone \/ Destroy \/ Reply

Next ==
    \/ \E create \in SeqsUpTo(Emails, MaxBatch), destroy \in SeqsUpTo(Ids, 1) :
           StartBatch(create, destroy)
    \/ Work
    \/ \E id \in Ids : CarriedOutLate(id)
    \/ Crash
    \/ \E e \in Emails : Removed(e)

Spec == Init /\ [][Next]_vars

-----------------------------------------------------------------------------
(* Properties *)

\* "undoStatus: final" is true, always: the server has the message, once.
FinalMeansSent == \A id \in Ids : rows[id].status = "final" => sends[id] = 1

\* Every message the server ever sent can be found: its row is there with its
\* client_id unless a client has destroyed it, also after a crash.
SentIsOnRecord ==
    \A id \in Ids : sends[id] > 0 => Present(id) \/ logged[id] = "destroyed"

\* "must not trigger an automatic resend" (README): no submission is sent twice,
\* and an email has no more sent submissions than clients have asked for, over
\* failures, crashes and late calls.
NoAutomaticResend ==
    /\ \A id \in Ids : sends[id] <= 1
    /\ \A e \in Emails :
           Cardinality({id \in Ids : rows[id].email = e /\ sends[id] > 0}) <= asked[e]

\* How far a status can be trusted: "failed" (canceled) means not sent unless the
\* call went unheard, and a row is "pending" only in flight or after a crash.
StatusTellsSend ==
    \A id \in Ids :
        /\ rows[id].status = "failed" /\ sends[id] > 0 => id \in unheard
        /\ rows[id].status = "pending" => id = op.id \/ id \in cut

\* EmailSubmission/changes announces exactly the sent ones: an entry is there
\* as soon as a row is final, and never for a row that is not.
LogTellsOutcome ==
    \A id \in Ids : rows[id].status = "final" <=> logged[id] = "created"

\* What a client was told was created stays so: sent, and final until destroyed,
\* whatever happens afterwards.
ToldIsKept ==
    \A id \in told : sends[id] = 1 /\ (rows[id].status = "final" \/ logged[id] = "destroyed")

\* "so a submission's outcome is recorded even if the process crashes"
\* (store/submissions.py): once no batch is at it, a sent message is not pending.
OutcomeRecorded ==
    \A id \in Ids : sends[id] > 0 /\ op.id # id => rows[id].status # "pending"
=============================================================================
