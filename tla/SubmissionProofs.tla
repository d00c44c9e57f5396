--------------------------- MODULE SubmissionProofs ---------------------------
(***************************************************************************)
(* What holds of Submission for any emails, ids, batches and faults: which *)
(* statuses of a submission can be relied on, and what its log entry, its  *)
(* row and the server's side of it have to do with each other.             *)
(***************************************************************************)
EXTENDS Submission, FiniteSetTheorems, TLAPS

\* A batch holds an id from the insertion of its row until its outcome is recorded.
Sending == op.pc \in {"send", "accepted", "refused"}

\* The row of the submission being sent, and how far the call has come.
InFlight ==
    /\ op.id = NoId <=> ~Sending
    /\ Sending \/ op.pc = "fetched" => op.create # <<>>
    /\ Sending => rows[op.id].status = "pending" /\ logged[op.id] = "none"
    /\ op.pc = "send" => sends[op.id] = 0 /\ op.id \notin late
    /\ op.pc = "accepted" => sends[op.id] = 1 /\ op.id \notin late

\* A call that may still be carried out has not been yet.
LateNotYet == \A id \in late : sends[id] = 0

\* Nothing outside the table knows an id that was never used.
FreshUnknown ==
    \A id \in Ids : Fresh(id) => sends[id] = 0 /\ id \notin late

\* The log has an entry for a row that is final and for one that was destroyed.
LogAndRow ==
    \A id \in Ids :
        /\ rows[id].status = "final" <=> logged[id] = "created"
        /\ logged[id] = "destroyed" => rows[id].status = "none"

\* Final rows, and what is or will be reported as created, were sent for good.
Settled(id) ==
    /\ sends[id] = 1
    /\ id \notin late
    /\ rows[id].status = "final" \/ logged[id] = "destroyed"

FinalSettled == \A id \in Ids : rows[id].status = "final" => Settled(id)

ReportedSettled == \A id \in op.created \cup told : Settled(id)

\* A failed call was not carried out and will not be, unless it went unheard;
\* a row is pending in flight or after a crash.
StatusAccounted ==
    /\ \A id \in Ids : rows[id].status = "failed" /\ (sends[id] # 0 \/ id \in late) => id \in unheard
    /\ op.pc = "refused" /\ (sends[op.id] # 0 \/ op.id \in late) => op.id \in unheard
    /\ \A id \in Ids : rows[id].status = "pending" => id = op.id \/ id \in cut

IInv ==
    /\ TypeOK
    /\ InFlight
    /\ LateNotYet
    /\ FreshUnknown
    /\ LogAndRow
    /\ FinalSettled
    /\ ReportedSettled
    /\ StatusAccounted

-----------------------------------------------------------------------------
USE SubmissionAssumption

LEMMA InitIInv == Init => IInv
  BY DEF Init, IInv, TypeOK, InFlight, Sending, LateNotYet, FreshUnknown, Fresh, Present,
     LogAndRow, FinalSettled, ReportedSettled, Settled, StatusAccounted, Idle, Batch, Row, NoRow, Status

LEMMA SeqsUpToSeq == \A S, n : SeqsUpTo(S, n) \subseteq Seq(S)
  BY DEF SeqsUpTo

LEMMA TimesType == \A create \in Seq(Emails), e \in Emails : Times(create, e) \in Nat
<1> TAKE create \in Seq(Emails), e \in Emails
<1>1. IsFiniteSet(1..Len(create))
  BY FS_Interval
<1>2. {n \in DOMAIN create : create[n] = e} \subseteq 1..Len(create)
  OBVIOUS
<1> QED
  BY <1>1, <1>2, FS_Subset, FS_CardinalityType DEF Times

\* The fields of a batch, and of the batch without its first creation.
LEMMA BatchFields ==
  ASSUME op \in Batch
  PROVE  /\ op.id \in Ids \cup {NoId}
         /\ op.created \subseteq Ids
         /\ op.create \in Seq(Emails)
         /\ op.destroy \in Seq(Ids)
  BY DEF Batch

LEMMA NextCreateFields ==
  ASSUME op \in Batch, op.create # <<>>
  PROVE  /\ NextCreate \in Batch
         /\ NextCreate.pc = "create"
         /\ NextCreate.id = NoId
         /\ NextCreate.created = op.created
<1>1. Tail(op.create) \in Seq(Emails)
  BY DEF Batch
<1> QED
  BY <1>1 DEF Batch, NextCreate

LEMMA StartBatchIInv ==
  ASSUME IInv, NEW create \in Seq(Emails), NEW destroy \in Seq(Ids), StartBatch(create, destroy)
  PROVE  IInv'
<1>1. op' \in Batch /\ op'.pc = "create" /\ op'.id = NoId /\ op'.created = {}
  BY SubmissionAssumption DEF IInv, TypeOK, StartBatch, Idle, Batch
<1>2. TypeOK'
  <2>1. asked' \in [Emails -> Nat]
    BY TimesType, BatchFields DEF IInv, TypeOK, StartBatch
  <2>2. /\ cached' = cached /\ allowSend' = allowSend /\ rows' = rows /\ logged' = logged
        /\ sends' = sends /\ late' = late /\ told' = told /\ unheard' = unheard
        /\ cut' = cut /\ faults' = faults
    BY BatchFields DEF IInv, StartBatch, table
  <2> QED
    BY <1>1, <2>1, <2>2 DEF IInv, TypeOK, StartBatch
<1>3. InFlight'
  BY <1>1 DEF IInv, InFlight, Sending, table, Times, StartBatch
<1>4. LateNotYet'
  BY <1>1 DEF IInv, LateNotYet, table, Times, StartBatch
<1>5. FreshUnknown'
  BY <1>1 DEF IInv, FreshUnknown, Fresh, Present, table, Times, StartBatch
<1>6. LogAndRow'
  BY <1>1 DEF IInv, LogAndRow, table, Times, StartBatch
<1>7. FinalSettled'
  BY <1>1 DEF IInv, FinalSettled, Settled, table, Times, StartBatch
<1>8. ReportedSettled'
  BY <1>1 DEF IInv, ReportedSettled, Settled, table, Times, StartBatch
<1>9. StatusAccounted'
  BY <1>1 DEF IInv, StatusAccounted, table, Times, StartBatch
<1> QED
  BY <1>2, <1>3, <1>4, <1>5, <1>6, <1>7, <1>8, <1>9 DEF IInv

LEMMA RejectCreateIInv ==
  ASSUME IInv, RejectCreate
  PROVE  IInv'
<1>1. op' \in Batch /\ op'.pc = "create" /\ op'.id = NoId /\ op'.created = op.created
  BY NextCreateFields, SubmissionAssumption DEF IInv, TypeOK, RejectCreate
<1>2. TypeOK'
  BY <1>1, BatchFields DEF IInv, TypeOK, table, outside, RejectCreate
<1>3. InFlight'
  BY <1>1 DEF IInv, InFlight, Sending, table, outside, RejectCreate
<1>4. LateNotYet'
  BY <1>1 DEF IInv, LateNotYet, table, outside, RejectCreate
<1>5. FreshUnknown'
  BY <1>1 DEF IInv, FreshUnknown, Fresh, Present, table, outside, RejectCreate
<1>6. LogAndRow'
  BY <1>1 DEF IInv, LogAndRow, table, outside, RejectCreate
<1>7. FinalSettled'
  BY <1>1 DEF IInv, FinalSettled, Settled, table, outside, RejectCreate
<1>8. ReportedSettled'
  BY <1>1 DEF IInv, ReportedSettled, Settled, table, outside, RejectCreate
<1>9. StatusAccounted'
  BY <1>1 DEF IInv, InFlight, Sending, StatusAccounted, table, outside, RejectCreate
<1> QED
  BY <1>2, <1>3, <1>4, <1>5, <1>6, <1>7, <1>8, <1>9 DEF IInv

LEMMA FetchIInv ==
  ASSUME IInv, Fetch
  PROVE  IInv'
<1>1. /\ op' \in Batch /\ op'.pc = "fetched" /\ op'.id = op.id
      /\ op'.create = op.create /\ op'.created = op.created
  BY SubmissionAssumption DEF IInv, TypeOK, Fetch, Batch
<1>2. TypeOK'
  BY <1>1, BatchFields DEF IInv, TypeOK, table, outside, Fetch
<1>3. InFlight'
  BY <1>1 DEF IInv, InFlight, Sending, table, outside, Fetch
<1>4. LateNotYet'
  BY <1>1 DEF IInv, LateNotYet, table, outside, Fetch
<1>5. FreshUnknown'
  BY <1>1 DEF IInv, FreshUnknown, Fresh, Present, table, outside, Fetch
<1>6. LogAndRow'
  BY <1>1 DEF IInv, LogAndRow, table, outside, Fetch
<1>7. FinalSettled'
  BY <1>1 DEF IInv, FinalSettled, Settled, table, outside, Fetch
<1>8. ReportedSettled'
  BY <1>1 DEF IInv, ReportedSettled, Settled, table, outside, Fetch
<1>9. StatusAccounted'
  BY <1>1 DEF IInv, StatusAccounted, table, outside, Fetch
<1> QED
  BY <1>2, <1>3, <1>4, <1>5, <1>6, <1>7, <1>8, <1>9 DEF IInv

LEMMA FetchFailsIInv ==
  ASSUME IInv, FetchFails
  PROVE  IInv'
<1>1. op' \in Batch /\ op'.pc = "create" /\ op'.id = NoId /\ op'.created = op.created
  BY NextCreateFields, SubmissionAssumption DEF IInv, TypeOK, FetchFails
<1>2. TypeOK'
  BY <1>1, BatchFields DEF IInv, TypeOK, table, outside, FetchFails
<1>3. InFlight'
  BY <1>1 DEF IInv, InFlight, Sending, table, outside, FetchFails
<1>4. LateNotYet'
  BY <1>1 DEF IInv, LateNotYet, table, outside, FetchFails
<1>5. FreshUnknown'
  BY <1>1 DEF IInv, FreshUnknown, Fresh, Present, table, outside, FetchFails
<1>6. LogAndRow'
  BY <1>1 DEF IInv, LogAndRow, table, outside, FetchFails
<1>7. FinalSettled'
  BY <1>1 DEF IInv, FinalSettled, Settled, table, outside, FetchFails
<1>8. ReportedSettled'
  BY <1>1 DEF IInv, ReportedSettled, Settled, table, outside, FetchFails
<1>9. StatusAccounted'
  BY <1>1 DEF IInv, InFlight, Sending, StatusAccounted, table, outside, FetchFails
<1> QED
  BY <1>2, <1>3, <1>4, <1>5, <1>6, <1>7, <1>8, <1>9 DEF IInv

LEMMA PersistIInv ==
  ASSUME IInv, NEW id \in Ids, Persist(id)
  PROVE  IInv'
<1>1. op' \in Batch /\ op'.pc = "send" /\ op'.id = id /\ op'.create = op.create /\ op'.created = op.created
  BY SubmissionAssumption DEF IInv, TypeOK, Persist, Batch
<1>2. TypeOK'
  <2>1. Head(op.create) \in Emails
    BY BatchFields DEF IInv, TypeOK, InFlight, Sending, Persist
  <2>2. rows' \in [Ids -> Row]
    BY <2>1, BatchFields DEF IInv, TypeOK, Persist, InsertSubmission, Row, Status
  <2> QED
    BY <1>1, <2>1, <2>2 DEF IInv, TypeOK, table, outside, Persist
<1>3. InFlight'
  BY <1>1, BatchFields DEF IInv, TypeOK, InFlight, Sending, table, outside, InsertSubmission,
     Row, Status, Persist, FreshUnknown, Fresh, Present
<1>4. LateNotYet'
  BY <1>1 DEF IInv, LateNotYet, table, outside, InsertSubmission, Row, Status, Persist
<1>5. FreshUnknown'
  BY <1>1 DEF IInv, FreshUnknown, Fresh, Present, table, outside, InsertSubmission, Row,
     Status, Persist
<1>6. LogAndRow'
  BY <1>1, BatchFields DEF IInv, TypeOK, InFlight, Sending, LogAndRow, table, outside,
     InsertSubmission, Row, Status, Persist, FreshUnknown, Fresh, Present
<1>7. FinalSettled'
  BY <1>1 DEF IInv, FinalSettled, Settled, table, outside, InsertSubmission, Row, Status, Persist
<1>8. ReportedSettled'
  BY <1>1, BatchFields DEF IInv, TypeOK, InFlight, Sending, ReportedSettled, Settled, table,
     outside, InsertSubmission, Row, Status, Persist, FreshUnknown, Fresh, Present
<1>9. StatusAccounted'
  BY <1>1 DEF IInv, InFlight, Sending, StatusAccounted, table, outside, InsertSubmission, Row,
     Status, Persist
<1> QED
  BY <1>2, <1>3, <1>4, <1>5, <1>6, <1>7, <1>8, <1>9 DEF IInv

LEMMA SendMailIInv ==
  ASSUME IInv, SendMail
  PROVE  IInv'
<1>1. /\ op' \in Batch /\ op'.pc = "accepted" /\ op'.id = op.id
      /\ op'.create = op.create /\ op'.created = op.created
  BY SubmissionAssumption DEF IInv, TypeOK, SendMail, Batch
<1>2. TypeOK'
  <2>1. op.id \in Ids
    BY BatchFields DEF IInv, TypeOK, InFlight, Sending, SendMail
  <2>2. sends' \in [Ids -> Nat]
    BY <2>1, BatchFields DEF IInv, TypeOK, SendMail
  <2> QED
    BY <1>1, <2>1, <2>2 DEF IInv, TypeOK, table, outside, SendMail
<1>3. InFlight'
  BY <1>1, BatchFields DEF IInv, TypeOK, InFlight, Sending, table, SendMail
<1>4. LateNotYet'
  BY <1>1 DEF IInv, InFlight, Sending, LateNotYet, table, SendMail
<1>5. FreshUnknown'
  BY <1>1 DEF IInv, InFlight, Sending, FreshUnknown, Fresh, Present, table, SendMail
<1>6. LogAndRow'
  BY <1>1 DEF IInv, LogAndRow, table, SendMail
<1>7. FinalSettled'
  BY <1>1 DEF IInv, InFlight, Sending, FinalSettled, Settled, table, SendMail
<1>8. ReportedSettled'
  BY <1>1 DEF IInv, InFlight, Sending, ReportedSettled, Settled, table, SendMail
<1>9. StatusAccounted'
  BY <1>1 DEF IInv, InFlight, Sending, StatusAccounted, table, SendMail
<1> QED
  BY <1>2, <1>3, <1>4, <1>5, <1>6, <1>7, <1>8, <1>9 DEF IInv

LEMMA SendRefusedIInv ==
  ASSUME IInv, SendRefused
  PROVE  IInv'
<1>1. /\ op' \in Batch /\ op'.pc = "refused" /\ op'.id = op.id
      /\ op'.create = op.create /\ op'.created = op.created
  BY SubmissionAssumption DEF IInv, TypeOK, SendRefused, Batch
<1>2. TypeOK'
  BY <1>1, BatchFields DEF IInv, TypeOK, table, outside, SendRefused
<1>3. InFlight'
  BY <1>1 DEF IInv, InFlight, Sending, table, outside, SendRefused
<1>4. LateNotYet'
  BY <1>1 DEF IInv, LateNotYet, table, outside, SendRefused
<1>5. FreshUnknown'
  BY <1>1 DEF IInv, FreshUnknown, Fresh, Present, table, outside, SendRefused
<1>6. LogAndRow'
  BY <1>1 DEF IInv, LogAndRow, table, outside, SendRefused
<1>7. FinalSettled'
  BY <1>1 DEF IInv, FinalSettled, Settled, table, outside, SendRefused
<1>8. ReportedSettled'
  BY <1>1 DEF IInv, ReportedSettled, Settled, table, outside, SendRefused
<1>9. StatusAccounted'
  BY <1>1 DEF IInv, InFlight, Sending, StatusAccounted, table, outside, SendRefused
<1> QED
  BY <1>2, <1>3, <1>4, <1>5, <1>6, <1>7, <1>8, <1>9 DEF IInv

LEMMA SendTimesOutIInv ==
  ASSUME IInv, SendTimesOut
  PROVE  IInv'
<1>1. /\ op' \in Batch /\ op'.pc = "refused" /\ op'.id = op.id
      /\ op'.create = op.create /\ op'.created = op.created
  BY SubmissionAssumption DEF IInv, TypeOK, SendTimesOut, Batch
<1>2. TypeOK'
  <2>1. op.id \in Ids
    BY BatchFields DEF IInv, TypeOK, InFlight, Sending, SendTimesOut
  <2>2. sends' = sends \/ sends' = [sends EXCEPT ![op.id] = @ + 1]
    BY BatchFields DEF IInv, SendTimesOut
  <2>3. sends[op.id] + 1 \in Nat
    BY <2>1, BatchFields DEF IInv, TypeOK
  <2>4. sends' \in [Ids -> Nat]
    BY <2>1, <2>2, <2>3, BatchFields DEF IInv, TypeOK
  <2>5. late' \in SUBSET Ids /\ unheard' \in SUBSET Ids
    BY <2>1, BatchFields DEF IInv, TypeOK, SendTimesOut, outside
  <2>6. faults' \in Nat
    BY BatchFields DEF IInv, TypeOK, SendTimesOut
  <2> QED
    BY <1>1, <2>1, <2>2, <2>3, <2>4, <2>5, <2>6 DEF IInv, TypeOK, table, outside, SendTimesOut
<1>3. InFlight'
  BY <1>1 DEF IInv, InFlight, Sending, table, SendTimesOut
<1>4. LateNotYet'
  BY <1>1, BatchFields DEF IInv, TypeOK, InFlight, Sending, LateNotYet, table, SendTimesOut
<1>5. FreshUnknown'
  BY <1>1, BatchFields DEF IInv, TypeOK, InFlight, Sending, FreshUnknown, Fresh, Present,
     table, SendTimesOut
<1>6. LogAndRow'
  BY <1>1 DEF IInv, LogAndRow, table, SendTimesOut
<1>7. FinalSettled'
  BY <1>1, BatchFields DEF IInv, TypeOK, InFlight, Sending, FinalSettled, Settled, table,
     SendTimesOut
<1>8. ReportedSettled'
  BY <1>1, BatchFields DEF IInv, TypeOK, InFlight, Sending, ReportedSettled, Settled, table,
     SendTimesOut
<1>9. StatusAccounted'
  BY <1>1, BatchFields DEF IInv, TypeOK, InFlight, Sending, StatusAccounted, table, SendTimesOut
<1> QED
  BY <1>2, <1>3, <1>4, <1>5, <1>6, <1>7, <1>8, <1>9 DEF IInv

LEMMA RecordRefusalIInv ==
  ASSUME IInv, RecordRefusal
  PROVE  IInv'
<1>1. op' \in Batch /\ op'.pc = "create" /\ op'.id = NoId /\ op'.created = op.created
  BY NextCreateFields, SubmissionAssumption DEF IInv, TypeOK, RecordRefusal, InFlight, Sending
<1>2. TypeOK'
  BY ZenonT(40), <1>1, BatchFields DEF IInv, TypeOK, table, outside, SetStatus, Row, Status, RecordRefusal
<1>3. InFlight'
  BY <1>1 DEF IInv, InFlight, Sending, outside, SetStatus, Row, Status, RecordRefusal
<1>4. LateNotYet'
  BY <1>1 DEF IInv, LateNotYet, outside, SetStatus, Row, Status, RecordRefusal
<1>5. FreshUnknown'
  BY <1>1 DEF IInv, FreshUnknown, Fresh, Present, outside, SetStatus, Row, Status, RecordRefusal
<1>6. LogAndRow'
  BY <1>1 DEF IInv, InFlight, Sending, LogAndRow, outside, SetStatus, Row, Status, RecordRefusal
<1>7. FinalSettled'
  BY <1>1 DEF IInv, FinalSettled, Settled, outside, SetStatus, Row, Status, RecordRefusal
<1>8. ReportedSettled'
  BY <1>1 DEF IInv, InFlight, Sending, ReportedSettled, Settled, outside, SetStatus, Row,
     Status, RecordRefusal
<1>9. StatusAccounted'
  BY <1>1, BatchFields DEF IInv, TypeOK, InFlight, Sending, StatusAccounted, outside,
     SetStatus, Row, Status, RecordRefusal
<1> QED
  BY <1>2, <1>3, <1>4, <1>5, <1>6, <1>7, <1>8, <1>9 DEF IInv

LEMMA RecordSentIInv ==
  ASSUME IInv, RecordSent
  PROVE  IInv'
<1>1. op' \in Batch /\ op'.pc = "create" /\ op'.id = NoId /\ op'.created = op.created \cup {op.id}
  BY NextCreateFields, BatchFields, SubmissionAssumption DEF IInv, TypeOK, RecordSent,
     InFlight, Sending, Batch
<1>2. TypeOK'
  <2>1. rows' \in [Ids -> Row]
    BY BatchFields, ZenonT(40) DEF IInv, TypeOK, RecordSent, SetStatus, Row, Status
  <2>2. logged' \in [Ids -> {"none", "created", "destroyed"}]
    BY BatchFields DEF IInv, TypeOK, RecordSent
  <2> QED
    BY <1>1, <2>1, <2>2 DEF IInv, TypeOK, table, outside, RecordSent
<1>3. InFlight'
  BY <1>1 DEF IInv, InFlight, Sending, outside, SetStatus, Row, Status, RecordSent
<1>4. LateNotYet'
  BY <1>1 DEF IInv, LateNotYet, outside, SetStatus, Row, Status, RecordSent
<1>5. FreshUnknown'
  BY <1>1 DEF IInv, FreshUnknown, Fresh, Present, outside, SetStatus, Row, Status, RecordSent
<1>6. LogAndRow'
  BY <1>1, BatchFields DEF IInv, TypeOK, InFlight, Sending, LogAndRow, outside, SetStatus,
     Row, Status, RecordSent
<1>7. FinalSettled'
  BY <1>1 DEF IInv, InFlight, Sending, FinalSettled, Settled, outside, SetStatus, Row, Status,
     RecordSent
<1>8. ReportedSettled'
  BY <1>1, BatchFields DEF IInv, TypeOK, InFlight, Sending, ReportedSettled, Settled, outside,
     SetStatus, Row, Status, RecordSent
<1>9. StatusAccounted'
  BY <1>1, BatchFields DEF IInv, TypeOK, InFlight, Sending, StatusAccounted, outside,
     SetStatus, Row, Status, RecordSent
<1> QED
  BY <1>2, <1>3, <1>4, <1>5, <1>6, <1>7, <1>8, <1>9 DEF IInv

LEMMA CreatesDoneIInv ==
  ASSUME IInv, CreatesDone
  PROVE  IInv'
<1>1. /\ op' \in Batch /\ op'.pc = "destroy" /\ op'.id = op.id
      /\ op'.created = op.created
  BY SubmissionAssumption DEF IInv, TypeOK, CreatesDone, Batch
<1>2. TypeOK'
  BY <1>1, BatchFields DEF IInv, TypeOK, table, outside, CreatesDone
<1>3. InFlight'
  BY <1>1 DEF IInv, InFlight, Sending, table, outside, CreatesDone
<1>4. LateNotYet'
  BY <1>1 DEF IInv, LateNotYet, table, outside, CreatesDone
<1>5. FreshUnknown'
  BY <1>1 DEF IInv, FreshUnknown, Fresh, Present, table, outside, CreatesDone
<1>6. LogAndRow'
  BY <1>1 DEF IInv, LogAndRow, table, outside, CreatesDone
<1>7. FinalSettled'
  BY <1>1 DEF IInv, FinalSettled, Settled, table, outside, CreatesDone
<1>8. ReportedSettled'
  BY <1>1 DEF IInv, ReportedSettled, Settled, table, outside, CreatesDone
<1>9. StatusAccounted'
  BY <1>1 DEF IInv, StatusAccounted, table, outside, CreatesDone
<1> QED
  BY <1>2, <1>3, <1>4, <1>5, <1>6, <1>7, <1>8, <1>9 DEF IInv

LEMMA DestroyIInv ==
  ASSUME IInv, Destroy
  PROVE  IInv'
<1> DEFINE d == Head(op.destroy)
<1>1. d \in Ids
  BY BatchFields DEF IInv, TypeOK, Destroy
<1>2. op' \in Batch /\ op'.pc = "destroy" /\ op'.id = op.id /\ op'.created = op.created
  <2>1. Tail(op.destroy) \in Seq(Ids)
    BY BatchFields DEF IInv, TypeOK, Destroy
  <2> QED
    BY <2>1 DEF IInv, TypeOK, Destroy, Batch
<1>3. op.pc = "destroy" /\ UNCHANGED <<cached, allowSend, outside, faults>>
  BY DEF Destroy
<1>4. CASE ~Present(d)
  <2>1. UNCHANGED table
    BY <1>4 DEF Destroy
  <2> QED
    BY <1>2, <1>3, <2>1 DEF IInv, TypeOK, Sending, InFlight, LateNotYet, FreshUnknown, Fresh,
       Present,
       LogAndRow, FinalSettled, ReportedSettled, Settled, StatusAccounted, table, outside
<1>5. CASE Present(d)
  <2>1. rows' = [rows EXCEPT ![d] = NoRow] /\ logged' = [logged EXCEPT ![d] = "destroyed"]
    BY <1>5 DEF Destroy
  <2>2. rows' \in [Ids -> Row] /\ logged' \in [Ids -> {"none", "created", "destroyed"}]
    BY <1>1, <2>1 DEF IInv, TypeOK, Row, NoRow
  <2>3. /\ rows'[d].status = "none" /\ logged'[d] = "destroyed"
        /\ \A id \in Ids \ {d} : rows'[id] = rows[id] /\ logged'[id] = logged[id]
    BY <1>1, <2>1 DEF IInv, TypeOK, NoRow
  <2>4. TypeOK'
    BY <1>2, <1>3, <2>2 DEF IInv, TypeOK, outside
  <2>5. InFlight'
    BY <1>1, <1>2, <1>3, <1>5, <2>2, <2>3 DEF IInv, TypeOK, InFlight, Sending, Batch
  <2>6. LateNotYet'
    BY <1>1, <1>2, <1>3, <1>5, <2>2, <2>3 DEF IInv, LateNotYet, outside
  <2>7. FreshUnknown'
    BY <1>1, <1>2, <1>3, <1>5, <2>2, <2>3 DEF IInv, TypeOK, FreshUnknown, Fresh, Present, outside
  <2>8. LogAndRow'
    BY <1>1, <1>2, <1>3, <1>5, <2>2, <2>3 DEF IInv, LogAndRow
  <2>9. FinalSettled'
    BY <1>1, <1>2, <1>3, <1>5, <2>2, <2>3 DEF IInv, FinalSettled, Settled, outside
  <2>10. StatusAccounted'
    BY <1>1, <1>2, <1>3, <1>5, <2>2, <2>3 DEF IInv, InFlight, Sending, StatusAccounted, outside
  <2>11. ReportedSettled'
    <3> SUFFICES ASSUME NEW id \in op.created \cup told
                 PROVE  Settled(id)'
      BY <1>2, <1>3 DEF ReportedSettled, outside
    <3>1. id \in Ids /\ Settled(id)
      BY BatchFields DEF IInv, TypeOK, ReportedSettled
    <3> QED
      BY <3>1, <1>3, <2>3 DEF Settled, outside
  <2> QED
    BY <2>4, <2>5, <2>6, <2>7, <2>8, <2>9, <2>10, <2>11 DEF IInv
<1> QED
  BY <1>4, <1>5

LEMMA ReplyIInv ==
  ASSUME IInv, Reply
  PROVE  IInv'
<1>1. op' \in Batch /\ op'.pc = "idle" /\ op'.id = NoId /\ op'.created = {}
  BY SubmissionAssumption DEF IInv, TypeOK, Reply, Idle, Batch
<1>2. TypeOK'
  BY <1>1, BatchFields DEF IInv, TypeOK, table, outside, Reply
<1>3. InFlight'
  BY <1>1 DEF IInv, InFlight, Sending, table, Reply
<1>4. LateNotYet'
  BY <1>1 DEF IInv, LateNotYet, table, Reply
<1>5. FreshUnknown'
  BY <1>1 DEF IInv, FreshUnknown, Fresh, Present, table, Reply
<1>6. LogAndRow'
  BY <1>1 DEF IInv, LogAndRow, table, Reply
<1>7. FinalSettled'
  BY <1>1 DEF IInv, FinalSettled, Settled, table, Reply
<1>8. ReportedSettled'
  BY <1>1 DEF IInv, ReportedSettled, Settled, table, Reply
<1>9. StatusAccounted'
  BY <1>1 DEF IInv, InFlight, Sending, StatusAccounted, table, Reply
<1> QED
  BY <1>2, <1>3, <1>4, <1>5, <1>6, <1>7, <1>8, <1>9 DEF IInv

LEMMA CarriedOutLateIInv ==
  ASSUME IInv, NEW id \in Ids, CarriedOutLate(id)
  PROVE  IInv'
<1>1. op' = op
  BY SubmissionAssumption DEF IInv, TypeOK, CarriedOutLate
<1>2. TypeOK'
  BY <1>1, BatchFields DEF IInv, TypeOK, table, outside, CarriedOutLate
<1>3. InFlight'
  BY <1>1 DEF IInv, InFlight, Sending, table, CarriedOutLate
<1>4. LateNotYet'
  BY <1>1 DEF IInv, LateNotYet, table, CarriedOutLate
<1>5. FreshUnknown'
  BY <1>1 DEF IInv, FreshUnknown, Fresh, Present, table, CarriedOutLate
<1>6. LogAndRow'
  BY <1>1 DEF IInv, LogAndRow, table, CarriedOutLate
<1>7. FinalSettled'
  BY <1>1 DEF IInv, FinalSettled, Settled, table, CarriedOutLate
<1>8. ReportedSettled'
  BY <1>1 DEF IInv, ReportedSettled, Settled, table, CarriedOutLate
<1>9. StatusAccounted'
  BY <1>1 DEF IInv, StatusAccounted, table, CarriedOutLate
<1> QED
  BY <1>2, <1>3, <1>4, <1>5, <1>6, <1>7, <1>8, <1>9 DEF IInv

LEMMA CrashIInv ==
  ASSUME IInv, Crash
  PROVE  IInv'
<1>1. op' \in Batch /\ op'.pc = "idle" /\ op'.id = NoId /\ op'.created = {}
  BY SubmissionAssumption DEF IInv, TypeOK, Crash, Idle, Batch
<1>2. TypeOK'
  <2>1. cut' \in SUBSET Ids
    BY BatchFields DEF IInv, TypeOK, Crash
  <2>2. late' \in SUBSET Ids
    BY BatchFields DEF IInv, TypeOK, InFlight, Sending, Crash
  <2>3. faults' \in Nat
    BY BatchFields DEF IInv, TypeOK, Crash
  <2> QED
    BY <1>1, <2>1, <2>2, <2>3 DEF IInv, TypeOK, table, Crash
<1>3. InFlight'
  BY <1>1 DEF IInv, InFlight, Sending, table, Crash
<1>4. LateNotYet'
  BY <1>1 DEF IInv, InFlight, Sending, LateNotYet, table, Crash
<1>5. FreshUnknown'
  BY <1>1 DEF IInv, InFlight, Sending, FreshUnknown, Fresh, Present, table, Crash
<1>6. LogAndRow'
  BY <1>1 DEF IInv, LogAndRow, table, Crash
<1>7. FinalSettled'
  BY <1>1 DEF IInv, InFlight, Sending, FinalSettled, Settled, table, Crash
<1>8. ReportedSettled'
  BY <1>1 DEF IInv, InFlight, Sending, ReportedSettled, Settled, table, Crash
<1>9. StatusAccounted'
  BY <1>1 DEF IInv, InFlight, Sending, StatusAccounted, table, Crash
<1> QED
  BY <1>2, <1>3, <1>4, <1>5, <1>6, <1>7, <1>8, <1>9 DEF IInv

LEMMA RemovedIInv ==
  ASSUME IInv, NEW e \in Emails, Removed(e)
  PROVE  IInv'
<1>1. op' = op
  BY SubmissionAssumption DEF IInv, TypeOK, Removed
<1>2. TypeOK'
  BY <1>1, BatchFields DEF IInv, TypeOK, table, outside, Removed
<1>3. InFlight'
  BY <1>1 DEF IInv, InFlight, Sending, table, outside, Removed
<1>4. LateNotYet'
  BY <1>1 DEF IInv, LateNotYet, table, outside, Removed
<1>5. FreshUnknown'
  BY <1>1 DEF IInv, FreshUnknown, Fresh, Present, table, outside, Removed
<1>6. LogAndRow'
  BY <1>1 DEF IInv, LogAndRow, table, outside, Removed
<1>7. FinalSettled'
  BY <1>1 DEF IInv, FinalSettled, Settled, table, outside, Removed
<1>8. ReportedSettled'
  BY <1>1 DEF IInv, ReportedSettled, Settled, table, outside, Removed
<1>9. StatusAccounted'
  BY <1>1 DEF IInv, StatusAccounted, table, outside, Removed
<1> QED
  BY <1>2, <1>3, <1>4, <1>5, <1>6, <1>7, <1>8, <1>9 DEF IInv

LEMMA StutterIInv ==
  ASSUME IInv, UNCHANGED vars
  PROVE  IInv'
<1>1. op' = op
  BY SubmissionAssumption DEF IInv, TypeOK, vars
<1>2. TypeOK'
  BY <1>1, BatchFields DEF IInv, TypeOK, table, outside, vars
<1>3. InFlight'
  BY <1>1 DEF IInv, InFlight, Sending, table, outside, vars
<1>4. LateNotYet'
  BY <1>1 DEF IInv, LateNotYet, table, outside, vars
<1>5. FreshUnknown'
  BY <1>1 DEF IInv, FreshUnknown, Fresh, Present, table, outside, vars
<1>6. LogAndRow'
  BY <1>1 DEF IInv, LogAndRow, table, outside, vars
<1>7. FinalSettled'
  BY <1>1 DEF IInv, FinalSettled, Settled, table, outside, vars
<1>8. ReportedSettled'
  BY <1>1 DEF IInv, ReportedSettled, Settled, table, outside, vars
<1>9. StatusAccounted'
  BY <1>1 DEF IInv, StatusAccounted, table, outside, vars
<1> QED
  BY <1>2, <1>3, <1>4, <1>5, <1>6, <1>7, <1>8, <1>9 DEF IInv

-----------------------------------------------------------------------------
\* The inductive invariant holds of the specification.
THEOREM IInvHolds == Spec => []IInv
<1>1. IInv /\ [Next]_vars => IInv'
  <2> SUFFICES ASSUME IInv, [Next]_vars
               PROVE  IInv'
    OBVIOUS
  <2>1. ASSUME NEW create \in SeqsUpTo(Emails, MaxBatch), NEW destroy \in SeqsUpTo(Ids, 1),
               StartBatch(create, destroy)
        PROVE  IInv'
    BY <2>1, SeqsUpToSeq, StartBatchIInv
  <2>2. CASE Work
    BY <2>2, RejectCreateIInv, FetchIInv, FetchFailsIInv, PersistIInv, SendMailIInv,
       SendRefusedIInv,
       SendTimesOutIInv, RecordRefusalIInv, RecordSentIInv, CreatesDoneIInv, DestroyIInv, ReplyIInv
       DEF Work
  <2>3. CASE \E id \in Ids : CarriedOutLate(id)
    BY <2>3, CarriedOutLateIInv
  <2>4. CASE Crash
    BY <2>4, CrashIInv
  <2>5. CASE \E e \in Emails : Removed(e)
    BY <2>5, RemovedIInv
  <2>6. CASE UNCHANGED vars
    BY <2>6, StutterIInv
  <2> QED
    BY <2>1, <2>2, <2>3, <2>4, <2>5, <2>6 DEF Next
<1> QED
  BY InitIInv, <1>1, PTL DEF Spec

\* Every variable keeps its type, for any emails, ids and numbers of faults.
THEOREM TypeCorrect == Spec => []TypeOK
  BY IInvHolds, PTL DEF IInv

\* A final submission was sent, exactly once: no crash, late call or later batch
\* makes the status a lie.
THEOREM FinalIsTrue == Spec => []FinalMeansSent
<1>1. IInv => FinalMeansSent
  BY DEF IInv, FinalSettled, Settled, FinalMeansSent
<1> QED
  BY <1>1, IInvHolds, PTL

\* A message that was ever sent has its row, or had it until a client destroyed it.
THEOREM SentNeverUnknown == Spec => []SentIsOnRecord
<1>1. IInv => SentIsOnRecord
  BY DEF IInv, FreshUnknown, Fresh, SentIsOnRecord, TypeOK, LogAndRow, Present, Row, Status
<1> QED
  BY <1>1, IInvHolds, PTL

\* How far the other statuses can be trusted.
THEOREM StatusesTrue == Spec => []StatusTellsSend
<1>1. IInv => StatusTellsSend
  BY DEF IInv, StatusAccounted, StatusTellsSend
<1> QED
  BY <1>1, IInvHolds, PTL

\* EmailSubmission/changes announces the final ones, and no others.
THEOREM LogTrue == Spec => []LogTellsOutcome
<1>1. IInv => LogTellsOutcome
  BY DEF IInv, LogAndRow, LogTellsOutcome
<1> QED
  BY <1>1, IInvHolds, PTL

\* What a client was told stays true.
THEOREM ToldForGood == Spec => []ToldIsKept
<1>1. IInv => ToldIsKept
  BY DEF IInv, ReportedSettled, Settled, ToldIsKept
<1> QED
  BY <1>1, IInvHolds, PTL

-----------------------------------------------------------------------------
(* No automatic resend                                                     *)

\* A submission is sent at most once, whatever becomes of its call.
SentOnce == \A id \in Ids : sends[id] <= 1

\* The submissions made of an email, and the creations of it that are still to do.
MadeOf(e) == {id \in Ids : rows[id].email = e}
Waiting == IF Sending THEN Tail(op.create) ELSE op.create

\* Each submission, and each creation still to do, was asked for separately.
EachAskedFor ==
    \A e \in Emails :
        /\ IsFiniteSet(MadeOf(e))
        /\ Cardinality(MadeOf(e)) + Times(Waiting, e) <= asked[e]

ResendInv == SentOnce /\ EachAskedFor

\* Taking up a creation leaves one less of its email and as many of the others.
LEMMA TimesTail ==
  ASSUME NEW s \in Seq(Emails), s # <<>>, NEW e \in Emails
  PROVE  Times(s, e) = Times(Tail(s), e) + (IF Head(s) = e THEN 1 ELSE 0)
<1> DEFINE S == {n \in DOMAIN s : s[n] = e}
           T == {n \in DOMAIN Tail(s) : Tail(s)[n] = e}
           next == [n \in T |-> n + 1]
<1>1. /\ Len(s) \in Nat \ {0} /\ DOMAIN s = 1..Len(s)
      /\ DOMAIN Tail(s) = 1..(Len(s) - 1)
      /\ \A n \in 1..(Len(s) - 1) : Tail(s)[n] = s[n + 1]
      /\ Head(s) = s[1]
  OBVIOUS
<1>2. IsFiniteSet(S) /\ IsFiniteSet(T)
  <2>1. IsFiniteSet(1..Len(s)) /\ IsFiniteSet(1..(Len(s) - 1))
    BY <1>1, FS_Interval
  <2> QED
    BY <2>1, <1>1, FS_Subset
<1>3. next \in Bijection(T, S \ {1})
  <2>1. \A n \in T : n + 1 \in S \ {1}
    BY <1>1
  <2>2. \A m \in S \ {1} : m - 1 \in T /\ (m - 1) + 1 = m
    BY <1>1
  <2>3. \A m, n \in T : m + 1 = n + 1 => m = n
    BY <1>1
  <2> HIDE DEF S, T
  <2> QED
    BY <2>1, <2>2, <2>3 DEF Bijection, Injection, Surjection, IsInjective
<1>4. Cardinality(T) = Cardinality(S \ {1})
  <2> HIDE DEF S, T, next
  <2>1. ExistsBijection(T, S \ {1})
    BY <1>3 DEF ExistsBijection
  <2> QED
    BY <2>1, <1>2, FS_Bijection
<1>5. Cardinality(S \ {1}) = IF 1 \in S THEN Cardinality(S) - 1 ELSE Cardinality(S)
  <2> HIDE DEF S
  <2> QED
    BY <1>2, FS_RemoveElement
<1>6. 1 \in S <=> Head(s) = e
  BY <1>1
<1>7. Cardinality(S) \in Nat /\ Cardinality(T) \in Nat
  <2> HIDE DEF S, T
  <2> QED
    BY <1>2, FS_CardinalityType
<1>8. Times(s, e) = Cardinality(S) /\ Times(Tail(s), e) = Cardinality(T)
  BY DEF Times
<1> HIDE DEF S, T
<1> QED
  BY <1>4, <1>5, <1>6, <1>7, <1>8

\* What makes no submission and asks for nothing may only shorten what waits.
LEMMA NothingMade ==
  ASSUME EachAskedFor, asked' = asked, asked \in [Emails -> Nat],
         \A e \in Emails : /\ MadeOf(e)' \subseteq MadeOf(e)
                           /\ Times(Waiting', e) <= Times(Waiting, e)
                           /\ Times(Waiting', e) \in Nat /\ Times(Waiting, e) \in Nat
  PROVE  EachAskedFor'
<1> SUFFICES ASSUME NEW e \in Emails
             PROVE  /\ IsFiniteSet(MadeOf(e)')
                    /\ Cardinality(MadeOf(e)') + Times(Waiting', e) <= asked'[e]
  BY DEF EachAskedFor
<1> DEFINE M == MadeOf(e)  N == MadeOf(e)'
<1>1. IsFiniteSet(M) /\ N \in SUBSET M /\ Cardinality(M) + Times(Waiting, e) <= asked[e]
  BY DEF EachAskedFor
<1>2. IsFiniteSet(N) /\ Cardinality(N) <= Cardinality(M) /\ Cardinality(M) \in Nat /\ Cardinality(N) \in Nat
  <2> HIDE DEF M, N
  <2> QED
    BY <1>1, FS_Subset, FS_CardinalityType
<1> QED
  BY <1>1, <1>2

LEMMA InitResend == Init => ResendInv
<1> SUFFICES ASSUME Init PROVE ResendInv
  OBVIOUS
<1>1. \A e \in Emails : MadeOf(e) = {}
  BY DEF Init, MadeOf, NoRow
<1>2. Waiting = <<>>
  BY DEF Init, Waiting, Sending, Idle
<1>3. \A e \in Emails : {n \in DOMAIN <<>> : <<>>[n] = e} = {}
  OBVIOUS
<1>4. \A e \in Emails : Times(Waiting, e) = 0
  BY <1>2, <1>3, FS_EmptySet DEF Times
<1>5. \A e \in Emails : asked[e] = 0
  BY DEF Init
<1> QED
  BY <1>1, <1>4, <1>5, FS_EmptySet DEF ResendInv, SentOnce, EachAskedFor, Init

\* A call is made once: nobody calls for a row whose call may still come.
LEMMA NextSentOnce ==
  ASSUME IInv, SentOnce, [Next]_vars
  PROVE  SentOnce'
<1> SUFFICES ASSUME NEW id \in Ids, sends'[id] # sends[id] PROVE sends'[id] <= 1
  BY DEF SentOnce
<1>1. sends \in [Ids -> Nat]
  BY DEF IInv, TypeOK
<1>2. CASE SendMail \/ SendTimesOut
  BY <1>1, <1>2 DEF SendMail, SendTimesOut, IInv, InFlight, Sending
<1>3. CASE \E x \in Ids : CarriedOutLate(x)
  BY <1>1, <1>3 DEF CarriedOutLate, IInv, LateNotYet
<1>4. CASE UNCHANGED sends
  BY <1>4
<1>5. SendMail \/ SendTimesOut \/ (\E x \in Ids : CarriedOutLate(x)) \/ UNCHANGED sends
  BY DEF Next, Work, vars, outside, StartBatch, RejectCreate, Fetch, FetchFails, Persist, SendRefused,
         RecordRefusal, RecordSent, CreatesDone, Destroy, Reply, Crash, Removed
<1> QED
  BY <1>2, <1>3, <1>4, <1>5

\* Only a new row adds a submission, and it takes up a creation of its email;
\* only a client adds creations, and asks for each.
LEMMA NextAskedFor ==
  ASSUME IInv, EachAskedFor, [Next]_vars
  PROVE  EachAskedFor'
<1>1. /\ op \in Batch /\ op.create \in Seq(Emails)
      /\ op.create # <<>> => Tail(op.create) \in Seq(Emails)
      /\ asked \in [Emails -> Nat]
  BY BatchFields DEF IInv, TypeOK
<1>2. Waiting \in Seq(Emails)
  BY <1>1, BatchFields DEF Waiting, IInv, TypeOK, InFlight
<1>3. \A e \in Emails : Times(Waiting, e) \in Nat
  BY <1>2, TimesType
<1>4. ASSUME NEW create \in SeqsUpTo(Emails, MaxBatch), NEW destroy \in SeqsUpTo(Ids, 1),
             StartBatch(create, destroy)
      PROVE  EachAskedFor'
  <2>1. Waiting' = create /\ create \in Seq(Emails)
    BY <1>4, SeqsUpToSeq DEF StartBatch, Waiting, Sending, Idle
  <2>2. Waiting = <<>>
    BY <1>4 DEF StartBatch, Waiting, Sending, Idle
  <2>3. \A e \in Emails : Times(Waiting', e) \in Nat /\ Times(create, e) \in Nat
    BY <2>1, TimesType
  <2>4. \A e \in Emails : MadeOf(e)' = MadeOf(e)
    BY <1>4 DEF StartBatch, MadeOf, table
  <2>5. \A e \in Emails : asked'[e] = asked[e] + Times(create, e)
    BY <1>4 DEF StartBatch
  <2>6. \A e \in Emails : IsFiniteSet(MadeOf(e)) => Cardinality(MadeOf(e)) \in Nat
    BY FS_CardinalityType
  <2> QED
    BY <1>1, <1>3, <2>1, <2>3, <2>4, <2>5, <2>6 DEF EachAskedFor
<1>5. ASSUME NEW id \in Ids, Persist(id) PROVE EachAskedFor'
  <2>1. op.create # <<>> /\ op.create \in Seq(Emails) /\ ~Sending /\ Head(op.create) \in Emails
    BY <1>5, BatchFields DEF Persist, IInv, TypeOK, InFlight, Sending
  <2>2. Waiting = op.create /\ Waiting' = Tail(op.create)
    BY <1>1, <1>5, <2>1 DEF Waiting, Sending, Persist, Batch
  <2>3. \A e \in Emails : /\ Times(Waiting, e) = Times(Waiting', e) + (IF Head(op.create) = e THEN 1 ELSE 0)
                          /\ Times(Waiting', e) \in Nat
    <3> TAKE e \in Emails
    <3>1. Tail(op.create) \in Seq(Emails)
      BY <2>1
    <3>2. Times(op.create, e) = Times(Tail(op.create), e) + (IF Head(op.create) = e THEN 1 ELSE 0)
      BY <2>1, TimesTail
    <3>3. Times(Tail(op.create), e) \in Nat
      BY <3>1, TimesType
    <3> QED
      BY <2>2, <3>2, <3>3
  <2>4. rows \in [Ids -> Row] /\ rows' = [rows EXCEPT ![id] = [status |-> "pending", email |-> Head(op.create)]]
    BY <1>5 DEF Persist, InsertSubmission, IInv, TypeOK
  <2>5. asked' = asked
    BY <1>5 DEF Persist, outside
  <2> SUFFICES ASSUME NEW e \in Emails
               PROVE  /\ IsFiniteSet(MadeOf(e)')
                      /\ Cardinality(MadeOf(e)') + Times(Waiting', e) <= asked'[e]
    BY DEF EachAskedFor
  <2> DEFINE M == MadeOf(e)  N == MadeOf(e)'
  <2>6. IsFiniteSet(M) /\ Cardinality(M) + Times(Waiting, e) <= asked[e]
    BY DEF EachAskedFor
  <2>7. CASE Head(op.create) = e
    <3>1. N = M \cup {id}
      BY <2>4, <2>7 DEF MadeOf
    <3>2. IsFiniteSet(N) /\ Cardinality(N) <= Cardinality(M) + 1 /\ Cardinality(M) \in Nat /\ Cardinality(N) \in Nat
      <4> HIDE DEF M, N
      <4>1. IsFiniteSet(M \cup {id}) /\ Cardinality(M \cup {id}) <= Cardinality(M) + 1
        <5>1. /\ IsFiniteSet(M \cup {id})
              /\ Cardinality(M \cup {id}) = IF id \in M THEN Cardinality(M) ELSE Cardinality(M) + 1
          BY <2>6, FS_AddElement
        <5>2. Cardinality(M) \in Nat
          BY <2>6, FS_CardinalityType
        <5> QED
          BY <5>1, <5>2
      <4> QED
        BY <3>1, <2>6, <4>1, FS_CardinalityType
    <3>3. Times(Waiting, e) = Times(Waiting', e) + 1 /\ Times(Waiting', e) \in Nat /\ asked[e] \in Nat
      BY <1>1, <2>3, <2>7
    <3> HIDE DEF M, N
    <3>4. Cardinality(N) + Times(Waiting', e) <= asked[e]
      BY <2>6, <3>2, <3>3
    <3> QED
      BY <3>2, <3>4, <2>5 DEF N
  <2>8. CASE Head(op.create) # e
    <3>1. N \in SUBSET M
      BY <2>4, <2>8 DEF MadeOf
    <3>2. IsFiniteSet(N) /\ Cardinality(N) <= Cardinality(M) /\ Cardinality(M) \in Nat /\ Cardinality(N) \in Nat
      <4> HIDE DEF M, N
      <4> QED
        BY <3>1, <2>6, FS_Subset, FS_CardinalityType
    <3>3. Times(Waiting, e) = Times(Waiting', e) /\ Times(Waiting', e) \in Nat /\ asked[e] \in Nat
      BY <1>1, <2>3, <2>8
    <3> HIDE DEF M, N
    <3>4. Cardinality(N) + Times(Waiting', e) <= asked[e]
      BY <2>6, <3>2, <3>3
    <3> QED
      BY <3>2, <3>4, <2>5 DEF N
  <2> QED
    BY <2>7, <2>8
<1>6. CASE RejectCreate \/ FetchFails \/ RecordRefusal \/ RecordSent
  <2>1. op.create # <<>> /\ asked' = asked
    BY <1>6 DEF RejectCreate, FetchFails, RecordRefusal, RecordSent, outside, IInv, InFlight, Sending
  <2>2. op'.pc = "create" /\ op'.create = Tail(op.create)
    BY <1>1, <1>6 DEF RejectCreate, FetchFails, RecordRefusal, RecordSent, NextCreate, Batch
  <2>3. \A e \in Emails : MadeOf(e)' \subseteq MadeOf(e)
    BY <1>6 DEF RejectCreate, FetchFails, RecordRefusal, RecordSent, SetStatus, table, MadeOf, IInv, TypeOK, Row
  <2>4. \A e \in Emails : Times(Waiting', e) <= Times(Waiting, e) /\ Times(Waiting', e) \in Nat
    <3> TAKE e \in Emails
    <3>1. op.create \in Seq(Emails) /\ Tail(op.create) \in Seq(Emails)
      BY <1>1, <2>1
    <3>2. Waiting' = Tail(op.create)
      BY <2>2 DEF Waiting, Sending
    <3>3. Times(op.create, e) \in Nat /\ Times(Tail(op.create), e) \in Nat
      BY <3>1, TimesType
    <3>4. Times(op.create, e) = Times(Tail(op.create), e) + (IF Head(op.create) = e THEN 1 ELSE 0)
      BY <2>1, <3>1, TimesTail
    <3> QED
      BY <3>2, <3>3, <3>4 DEF Waiting
  <2> QED
    BY <1>1, <1>3, <2>1, <2>3, <2>4, NothingMade
<1>7. CASE Reply \/ Crash
  <2>1. Waiting' = <<>>
    BY <1>7 DEF Reply, Crash, Waiting, Sending, Idle
  <2>2. \A e \in Emails : {n \in DOMAIN <<>> : <<>>[n] = e} = {}
    OBVIOUS
  <2>3. \A e \in Emails : Times(Waiting', e) = 0
    BY <2>1, <2>2, FS_EmptySet DEF Times
  <2>4. \A e \in Emails : Times(Waiting', e) <= Times(Waiting, e) /\ Times(Waiting', e) \in Nat
    BY <1>3, <2>3
  <2>5. asked' = asked /\ \A e \in Emails : MadeOf(e)' \subseteq MadeOf(e)
    BY <1>7 DEF Reply, Crash, table, MadeOf
  <2> QED
    BY <1>1, <1>3, <2>4, <2>5, NothingMade
<1>8. CASE \/ Fetch \/ SendMail \/ SendRefused \/ SendTimesOut \/ CreatesDone \/ Destroy
           \/ (\E id \in Ids : CarriedOutLate(id)) \/ (\E e \in Emails : Removed(e)) \/ UNCHANGED vars
  <2>1. asked' = asked
    BY <1>8 DEF Fetch, SendMail, SendRefused, SendTimesOut, CreatesDone, Destroy, CarriedOutLate,
                Removed, vars, outside
  <2>2. \A e \in Emails : MadeOf(e)' \subseteq MadeOf(e)
    <3>1. CASE Destroy
      BY <3>1 DEF Destroy, table, MadeOf, IInv, TypeOK, NoRow
    <3>2. CASE rows' = rows
      BY <3>2 DEF MadeOf
    <3> QED
      BY <1>8, <3>1, <3>2 DEF Fetch, SendMail, SendRefused, SendTimesOut, CreatesDone, CarriedOutLate,
                Removed, vars, table
  <2>3. Waiting' = Waiting
    <3>1. CASE op' = op
      BY <3>1 DEF Waiting, Sending
    <3>2. CASE Fetch \/ SendMail \/ SendRefused \/ SendTimesOut \/ CreatesDone \/ Destroy
      <4>1. op'.create = op.create /\ (op'.pc \in {"send", "accepted", "refused"} <=> Sending)
        BY <1>1, <3>2 DEF Fetch, SendMail, SendRefused, SendTimesOut, CreatesDone, Destroy, Sending, Batch
      <4> QED
        BY <4>1 DEF Waiting, Sending
    <3> QED
      BY <1>8, <3>1, <3>2 DEF CarriedOutLate, Removed, vars
  <2> QED
    BY <1>1, <1>3, <2>1, <2>2, <2>3, NothingMade
<1> QED
  BY <1>4, <1>5, <1>6, <1>7, <1>8 DEF Next, Work

\* No message goes out that nobody asked for, over failures, crashes and calls
\* that the server carries out late: failing is never answered by sending again.
THEOREM NeverResent == Spec => []NoAutomaticResend
<1>1. IInv /\ ResendInv => NoAutomaticResend
  <2> SUFFICES ASSUME IInv, ResendInv, NEW e \in Emails
               PROVE  Cardinality({id \in Ids : rows[id].email = e /\ sends[id] > 0}) <= asked[e]
    BY DEF ResendInv, SentOnce, NoAutomaticResend
  <2> DEFINE M == MadeOf(e)  N == {id \in Ids : rows[id].email = e /\ sends[id] > 0}
  <2>1. N \in SUBSET M
    BY DEF MadeOf
  <2>2. IsFiniteSet(M) /\ Cardinality(M) + Times(Waiting, e) <= asked[e]
    BY DEF ResendInv, EachAskedFor
  <2>3. Times(Waiting, e) \in Nat /\ asked[e] \in Nat
    <3>1. Waiting \in Seq(Emails)
      BY BatchFields DEF Waiting, IInv, TypeOK, InFlight
    <3> QED
      BY <3>1, TimesType DEF IInv, TypeOK
  <2> HIDE DEF M, N
  <2>4. Cardinality(N) <= Cardinality(M) /\ Cardinality(M) \in Nat /\ Cardinality(N) \in Nat
    BY <2>1, <2>2, FS_Subset, FS_CardinalityType
  <2>5. Cardinality(N) <= asked[e]
    BY <2>2, <2>3, <2>4
  <2> QED
    BY <2>5 DEF N
<1>2. IInv /\ ResendInv /\ [Next]_vars => ResendInv'
  BY NextSentOnce, NextAskedFor DEF ResendInv
<1> QED
  BY <1>1, <1>2, InitResend, IInvHolds, PTL DEF Spec
=============================================================================
