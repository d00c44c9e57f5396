--------------------------- MODULE ServingProofs ---------------------------
(***************************************************************************)
(* Proofs about Serving, in two parts. The first: what a crash in the      *)
(* middle of a migration can do, and that no crash anywhere else does it,  *)
(* for any list of scripts and any number of crashes.                      *)
(*                                                                         *)
(* The second: types, and that a stream which waits has told its client    *)
(* all but what it could not know. A stream is put behind by a write while *)
(* it is open and caught up by each comparison; the goal is its own        *)
(* invariant once it is known that closed streams are not behind.          *)
(***************************************************************************)
EXTENDS Serving, TLAPS

\* The part of the type invariant that the migrations need.
DbTypeOK ==
    /\ db \in [version : Nat, applied : SUBSET (Nat \X Nat)]
    /\ script \in Nat
    /\ begun \in BOOLEAN /\ torn \in BOOLEAN /\ stuck \in BOOLEAN

\* A script is open only while a start is running, and a start goes on with the
\* script after the database's version, as long as there is one.
StartInStep ==
    /\ begun => life = "starting" /\ script <= Len(Scripts)
    /\ life = "starting" => script = db.version + 1

\* Unless a crash has hit an open script, the database has no statement of a
\* script after its version, the open one excepted.
VersionTellsStatements ==
    ~torn => /\ \A v, n \in Nat :
                    <<v, n>> \in db.applied => v <= (IF begun THEN db.version + 1 ELSE db.version)
             /\ ~stuck

MigrationInv == DbTypeOK /\ StartInStep /\ VersionTellsStatements

\* A new database satisfies it.
LEMMA InitMigration == Init => MigrationInv
<1> SUFFICES ASSUME Init PROVE MigrationInv
    OBVIOUS
<1>1. /\ db.version = 0 /\ db.applied = {} /\ script = 1 /\ life = "down"
      /\ begun = FALSE /\ torn = FALSE /\ stuck = FALSE
  BY DEF Init
<1>2. db \in [version : Nat, applied : SUBSET (Nat \X Nat)]
  BY DEF Init
<1>3. DbTypeOK
  BY <1>1, <1>2 DEF DbTypeOK
<1>4. StartInStep
  BY <1>1 DEF StartInStep
<1>5. VersionTellsStatements
  BY <1>1 DEF VersionTellsStatements
<1> QED
  BY <1>3, <1>4, <1>5 DEF MigrationInv

\* Requests and streams do not touch the database's scripts.
LEMMA ServingSteps ==
    ASSUME NEW x,
           \/ RequestWaits(x) \/ RequestRuns(x) \/ StreamWaits(x) \/ StreamRuns(x)
           \/ Post(x) \/ Open(x) \/ Disconnect(x) \/ PingQuiet(x) \/ PingFails(x) \/ Change(x)
    PROVE  process' = process
<1>1. CASE RequestWaits(x)
  BY <1>1 DEF RequestWaits, TakeWorker, StartBatch
<1>2. CASE RequestRuns(x)
  BY <1>2 DEF RequestRuns, Reconcile, BatchSync, BatchSyncFails, Answer, SyncFolder
<1>3. CASE StreamWaits(x)
  BY <1>3 DEF StreamWaits, FirstStates, TellStates, Look, AskPing, TakeCommand, Compare
<1>4. CASE StreamRuns(x)
  BY <1>4 DEF StreamRuns, PingChanged, StreamSync, SyncFolder, Synced, StreamSyncFails, Retry
<1>5. CASE Post(x) \/ Open(x) \/ Disconnect(x)
  BY <1>5 DEF Post, Open, Disconnect
<1>6. CASE PingQuiet(x) \/ PingFails(x) \/ Change(x)
  BY <1>6 DEF PingQuiet, PingFails, Change
<1> QED
  BY <1>1, <1>2, <1>3, <1>4, <1>5, <1>6

\* Every step of the process keeps the version and the statements together, and
\* the one that may not, a crash in an open script, is remembered.
LEMMA NextMigration == MigrationInv /\ [Next]_vars => MigrationInv'
<1> SUFFICES ASSUME MigrationInv, [Next]_vars
             PROVE  MigrationInv'
    OBVIOUS
<1> USE DEF MigrationInv, DbTypeOK, StartInStep, VersionTellsStatements
<1>1. ASSUME process' = process PROVE MigrationInv'
  BY <1>1 DEF process
<1>2. CASE Start
  BY <1>2 DEF Start, Migrating
<1>3. CASE BeginScript
  <2>1. CASE <<script, 1>> \notin db.applied
    <3>1. /\ db' = [db EXCEPT !.applied = @ \cup {<<script, 1>>}]
          /\ script <= Len(Scripts)
          /\ begun' = TRUE /\ ~begun /\ life = "starting"
          /\ UNCHANGED <<life, script, stuck, torn>>
      BY <1>3, <2>1 DEF BeginScript, Migrating
    <3>2. db'.version = db.version /\ db'.applied = db.applied \cup {<<script, 1>>}
      BY <3>1
    <3>3. <<script, 1>> \in Nat \X Nat
      OBVIOUS
    <3>4. DbTypeOK' /\ StartInStep'
      BY <3>1, <3>2, <3>3
    <3>5. ASSUME NEW v \in Nat, NEW n \in Nat, ~torn, <<v, n>> \in db'.applied
          PROVE  v <= db'.version + 1
      BY <3>1, <3>2, <3>5
    <3> QED
      BY <3>1, <3>4, <3>5
  <2>2. CASE <<script, 1>> \in db.applied
    <3>1. ~begun /\ life = "starting" /\ script = db.version + 1
      BY <1>3 DEF BeginScript
    <3>2. torn
      BY <2>2, <3>1
    <3> QED
      BY <1>3, <2>2, <3>1, <3>2 DEF BeginScript, Migrating
  <2> QED
    BY <2>1, <2>2
<1>4. CASE ApplyStatement
  <2>1. PICK n \in 2..Scripts[script] : db' = [db EXCEPT !.applied = @ \cup {<<script, n>>}]
    BY <1>4 DEF ApplyStatement
  <2>2. /\ begun /\ life = "starting"
        /\ UNCHANGED <<life, script, begun, stuck, torn>>
    BY <1>4 DEF ApplyStatement, Migrating
  <2>3. db'.version = db.version /\ db'.applied = db.applied \cup {<<script, n>>}
    BY <2>1
  <2>4. n \in Nat
    BY <2>1
  <2>5. DbTypeOK' /\ StartInStep'
    BY <2>1, <2>2, <2>3, <2>4
  <2>6. ASSUME NEW v \in Nat, NEW k \in Nat, ~torn, <<v, k>> \in db'.applied
        PROVE  v <= db'.version + 1
    BY <2>2, <2>3, <2>6
  <2> QED
    BY <2>2, <2>5, <2>6
<1>5. CASE MarkScript
  <2>1. /\ db' = [db EXCEPT !.version = script] /\ begun /\ begun' = FALSE
        /\ script = db.version + 1 /\ script' = script + 1
        /\ UNCHANGED <<life, stuck, torn>>
    BY <1>5 DEF MarkScript, Migrating
  <2>2. db'.version = script /\ db'.applied = db.applied
    BY <2>1
  <2>3. db' \in [version : Nat, applied : SUBSET (Nat \X Nat)]
    BY <2>1
  <2>4. script \in Nat /\ script' \in Nat
    BY <2>1
  <2>5. DbTypeOK'
    BY <2>1, <2>3, <2>4
  <2>6. StartInStep'
    BY <2>1, <2>2
  <2>7. VersionTellsStatements'
    BY <2>1, <2>2
  <2> QED
    BY <2>5, <2>6, <2>7
<1>6. CASE Ready
  <2>1. /\ script = Len(Scripts) + 1 /\ life' = "up"
        /\ UNCHANGED <<db, script, begun, stuck, torn>>
    BY <1>6 DEF Ready, Migrating
  <2>2. Len(Scripts) \in Nat
    BY ServingAssumption
  <2>3. ~begun
    BY <2>1, <2>2
  <2> QED
    BY <2>1, <2>3
<1>7. CASE Crash
  BY <1>7 DEF Crash
<1>8. CASE UNCHANGED vars
  BY <1>1, <1>8 DEF vars
<1>9. ASSUME ~(Start \/ BeginScript \/ ApplyStatement \/ MarkScript \/ Ready \/ Crash),
             Next
      PROVE  MigrationInv'
  BY <1>1, <1>9, ServingSteps DEF Next
<1> QED
  BY <1>2, <1>3, <1>4, <1>5, <1>6, <1>7, <1>8, <1>9

\* The version tells what the database holds, as long as no crash hit a script.
THEOREM MigrationsInStep == Spec => []MigrationInv
<1>1. Init => MigrationInv
  BY InitMigration
<1>2. MigrationInv /\ [Next]_vars => MigrationInv'
  BY NextMigration
<1> QED
  BY <1>1, <1>2, PTL DEF Spec

\* A start fails only on a database that a crash has left inside a script
\* (schema.py:111).
THEOREM OnlyTornScriptsStick == Spec => []StartFailsOnlyIfTorn
<1>1. MigrationInv => StartFailsOnlyIfTorn
  BY DEF MigrationInv, DbTypeOK, VersionTellsStatements, StartFailsOnlyIfTorn
<1> QED
  BY <1>1, MigrationsInStep, PTL

-----------------------------------------------------------------------------
(* Types, and what streams are silent about *)

\* The part of the type invariant that requests, streams and their locks have.
TrafficTypeOK ==
    /\ news \in SUBSET Folders /\ listed \in BOOLEAN
    /\ behind \in SUBSET Streams /\ missed \in SUBSET behind
    /\ pc \in [Callers -> RequestPc \cup StreamPc]
    /\ \A r \in Requests : pc[r] \in RequestPc
    /\ \A s \in Streams : pc[s] \in StreamPc
    /\ todo \in [Callers -> SUBSET Folders]
    /\ command \in Callers \cup {NoOne} /\ ping \in Streams \cup {NoOne}
    /\ faults \in 0..MaxFaults /\ crashes \in 0..MaxCrashes

\* A stream can be behind only while it is open: one that is told the states for
\* the first time is not, nor is one that ends.
BehindStreaming == behind \subseteq Streaming

StreamInv == TrafficTypeOK /\ BehindStreaming /\ QuietStreamIsCurrent

\* The rest of it: the process and its database.
ProcessTypeOK ==
    /\ life \in {"down", "starting", "up"}
    /\ db \in [version : 0..Len(Scripts), applied : SUBSET Statements]
    /\ script \in 1..Len(Scripts) + 1 /\ begun \in BOOLEAN
    /\ torn \in BOOLEAN /\ stuck \in BOOLEAN

LEMMA TypeParts == TypeOK <=> TrafficTypeOK /\ ProcessTypeOK
BY DEF TypeOK, TrafficTypeOK, ProcessTypeOK

LEMMA InitTypes == Init => StreamInv /\ ProcessTypeOK
<1> SUFFICES ASSUME Init PROVE StreamInv /\ ProcessTypeOK
    OBVIOUS
<1>1. /\ MaxFaults \in Nat /\ MaxCrashes \in Nat /\ Len(Scripts) \in Nat
      /\ Requests \cap Streams = {} /\ NoOne \notin Callers
  BY ServingAssumption
<1>2. AtRest \in [Callers -> RequestPc \cup StreamPc]
      /\ (\A r \in Requests : AtRest[r] = "idle") /\ (\A s \in Streams : AtRest[s] = "closed")
  BY <1>1 DEF AtRest, RequestPc, StreamPc, Callers
<1>3. TrafficTypeOK
  <2>1. /\ news \in SUBSET Folders /\ listed \in BOOLEAN
        /\ behind \in SUBSET Streams /\ missed \in SUBSET behind
        /\ todo \in [Callers -> SUBSET Folders]
        /\ command \in Callers \cup {NoOne} /\ ping \in Streams \cup {NoOne}
    BY DEF Init
  <2>2. /\ pc \in [Callers -> RequestPc \cup StreamPc]
        /\ \A r \in Requests : pc[r] \in RequestPc
        /\ \A s \in Streams : pc[s] \in StreamPc
    BY <1>2 DEF Init, RequestPc, StreamPc
  <2>3. faults \in 0..MaxFaults /\ crashes \in 0..MaxCrashes
    BY <1>1 DEF Init
  <2> QED
    BY <2>1, <2>2, <2>3 DEF TrafficTypeOK
<1>4. BehindStreaming /\ QuietStreamIsCurrent
  BY DEF Init, BehindStreaming, QuietStreamIsCurrent
<1>5. ProcessTypeOK
  <2>1. db = [version |-> 0, applied |-> {}] /\ 0 \in 0..Len(Scripts) /\ {} \in SUBSET Statements
    BY <1>1 DEF Init
  <2>2. db \in [version : 0..Len(Scripts), applied : SUBSET Statements]
    BY <2>1
  <2>3. 1 \in 1..Len(Scripts) + 1
    BY <1>1
  <2>4. life = "down" /\ script = 1 /\ begun = FALSE /\ torn = FALSE /\ stuck = FALSE
    BY DEF Init
  <2> QED
    BY <2>2, <2>3, <2>4 DEF ProcessTypeOK
<1> QED
  BY <1>3, <1>4, <1>5 DEF StreamInv

\* A caller goes on, and nobody writes.
LEMMA GoesOn ==
    ASSUME StreamInv, NEW x \in Callers, NEW from, NEW to, Goes(x, from, to),
           x \in Requests => to \in RequestPc,
           x \in Streams => to \in StreamPc,
           UNCHANGED <<behind, missed>>,
           x \in behind => /\ to \notin {"closed", "opened"}
                           /\ to \in {"look", "queued", "ping", "wanted", "backoff"} => x \in missed
    PROVE  /\ pc' \in [Callers -> RequestPc \cup StreamPc]
           /\ \A r \in Requests : pc'[r] \in RequestPc
           /\ \A s \in Streams : pc'[s] \in StreamPc
           /\ BehindStreaming' /\ QuietStreamIsCurrent'
<1>1. /\ pc \in [Callers -> RequestPc \cup StreamPc] /\ behind \subseteq Streams
      /\ \A r \in Requests : pc[r] \in RequestPc
      /\ \A s \in Streams : pc[s] \in StreamPc
      /\ \A s \in behind : pc[s] \notin {"closed", "opened"}
  BY DEF StreamInv, TrafficTypeOK, BehindStreaming, Streaming
<1>2. \A y \in Callers : pc'[y] = IF y = x THEN to ELSE pc[y]
  BY <1>1 DEF Goes
<1>3. Requests \subseteq Callers /\ Streams \subseteq Callers /\ Callers = Requests \cup Streams
  BY DEF Callers
<1>4. pc' \in [Callers -> RequestPc \cup StreamPc]
  BY <1>1, <1>3 DEF Goes
<1>5. BehindStreaming'
  BY <1>1, <1>2, <1>3 DEF BehindStreaming, Streaming
<1>6. QuietStreamIsCurrent'
  BY <1>2, <1>3 DEF StreamInv, QuietStreamIsCurrent
<1> QED
  BY <1>1, <1>2, <1>3, <1>4, <1>5, <1>6

\* A caller goes on and is told the states, or ends: it is not behind any more.
LEMMA GoesTold ==
    ASSUME StreamInv, NEW s \in Streams, NEW from, NEW to \in StreamPc, Goes(s, from, to),
           behind' = behind \ {s}, missed' = missed \ {s}
    PROVE  /\ pc' \in [Callers -> RequestPc \cup StreamPc]
           /\ \A r \in Requests : pc'[r] \in RequestPc
           /\ \A t \in Streams : pc'[t] \in StreamPc
           /\ behind' \in SUBSET Streams /\ missed' \in SUBSET behind'
           /\ BehindStreaming' /\ QuietStreamIsCurrent'
<1>1. /\ pc \in [Callers -> RequestPc \cup StreamPc] /\ behind \subseteq Streams /\ missed \subseteq behind
      /\ \A r \in Requests : pc[r] \in RequestPc
      /\ \A t \in Streams : pc[t] \in StreamPc
      /\ \A t \in behind : pc[t] \notin {"closed", "opened"}
  BY DEF StreamInv, TrafficTypeOK, BehindStreaming, Streaming
<1>2. Requests \subseteq Callers /\ Streams \subseteq Callers /\ Requests \cap Streams = {}
  BY ServingAssumption DEF Callers
<1>3. \A y \in Callers : pc'[y] = IF y = s THEN to ELSE pc[y]
  BY <1>1 DEF Goes
<1>4. pc' \in [Callers -> RequestPc \cup StreamPc]
  BY <1>1, <1>2 DEF Goes
<1>5. BehindStreaming'
  BY <1>1, <1>2, <1>3 DEF BehindStreaming, Streaming
<1>6. QuietStreamIsCurrent'
  BY <1>2, <1>3 DEF StreamInv, QuietStreamIsCurrent
<1> QED
  BY <1>1, <1>2, <1>3, <1>4, <1>5, <1>6

\* A write by x puts every open stream behind; all but x have missed it.
LEMMA WritesMissed ==
    ASSUME StreamInv, NEW x \in Callers, Writes(x),
           pc' \in [Callers -> RequestPc \cup StreamPc],
           \A s \in Streams : pc'[s] = pc[s],
           x \in Streams => pc[x] \notin {"look", "queued", "ping", "wanted", "backoff"}
    PROVE  /\ behind' \in SUBSET Streams /\ missed' \in SUBSET behind'
           /\ BehindStreaming' /\ QuietStreamIsCurrent'
<1>1. missed \subseteq behind /\ behind \subseteq Streaming
  BY DEF StreamInv, TrafficTypeOK, BehindStreaming
<1>2. behind' = Streaming /\ missed' = missed \cup (behind' \ {x})
  BY DEF Writes, Streaming
<1>3. Streaming' = Streaming /\ Streaming \subseteq Streams
  BY DEF Streaming
<1>4. QuietStreamIsCurrent'
  BY <1>2 DEF QuietStreamIsCurrent
<1> QED
  BY <1>1, <1>2, <1>3, <1>4 DEF BehindStreaming

\* A folder's sync by a batch or by a stream that holds the command_lock.
LEMMA SyncFolderStep ==
    ASSUME StreamInv, NEW x \in Callers, NEW f \in Folders, SyncFolder(x, f), pc' = pc,
           x \in Streams => pc[x] = "sync"
    PROVE  StreamInv'
<1>1. UNCHANGED <<listed, command, ping, faults, crashes>> /\ TrafficTypeOK
  BY DEF SyncFolder, StreamInv
<1>2. todo' \in [Callers -> SUBSET Folders] /\ news' \in SUBSET Folders
  BY <1>1 DEF SyncFolder, TrafficTypeOK
<1>3. CASE Writes(x)
  BY <1>1, <1>2, <1>3, WritesMissed DEF StreamInv, TrafficTypeOK
<1>4. CASE UNCHANGED <<behind, missed>>
  <2>1. BehindStreaming' /\ QuietStreamIsCurrent'
    BY <1>4 DEF StreamInv, BehindStreaming, Streaming, QuietStreamIsCurrent
  <2> QED
    BY <1>1, <1>2, <1>4, <2>1 DEF StreamInv, TrafficTypeOK
<1> QED
  BY <1>3, <1>4 DEF SyncFolder

\* What the steps of one caller do: to every other caller, and to the counters.
LEMMA RequestStep ==
    ASSUME StreamInv, NEW r \in Requests, Post(r) \/ RequestWaits(r) \/ RequestRuns(r)
    PROVE  StreamInv'
<1>1. /\ TrafficTypeOK /\ r \in Callers /\ r \notin Streams /\ r \notin behind
      /\ MaxFaults \in Nat /\ MaxCrashes \in Nat
      /\ command \in Callers \cup {NoOne} /\ ping \in Streams \cup {NoOne}
  BY ServingAssumption DEF StreamInv, TrafficTypeOK, Callers
<1>2. \A scope \in SUBSET Folders : [todo EXCEPT ![r] = scope] \in [Callers -> SUBSET Folders]
  BY <1>1 DEF TrafficTypeOK
<1>3. ASSUME NEW from, NEW to \in RequestPc, Goes(r, from, to)
      PROVE  /\ pc' \in [Callers -> RequestPc \cup StreamPc]
             /\ \A q \in Requests : pc'[q] \in RequestPc
             /\ \A s \in Streams : pc'[s] \in StreamPc
             /\ \A s \in Streams : pc'[s] = pc[s]
             /\ UNCHANGED <<behind, missed>> => BehindStreaming' /\ QuietStreamIsCurrent'
  <2>1. \A y \in Callers : pc'[y] = IF y = r THEN to ELSE pc[y]
    BY <1>1, <1>3 DEF Goes, TrafficTypeOK
  <2>2. pc' \in [Callers -> RequestPc \cup StreamPc]
    BY <1>1, <1>3 DEF Goes, TrafficTypeOK
  <2>3. /\ \A q \in Requests : q \in Callers /\ pc[q] \in RequestPc
        /\ \A s \in Streams : s \in Callers /\ pc[s] \in StreamPc
    BY <1>1 DEF TrafficTypeOK, Callers
  <2>4. UNCHANGED <<behind, missed>> => BehindStreaming' /\ QuietStreamIsCurrent'
    BY <1>1, <1>3, GoesOn
  <2> QED
    BY <1>1, <2>1, <2>2, <2>3, <2>4
<1>4. {"idle", "posted", "waiting", "list", "batch"} \subseteq RequestPc
  BY DEF RequestPc
<1>5. CASE Post(r) \/ TakeWorker(r)
  <2>1. UNCHANGED <<tables, todo, command, ping, faults, crashes>>
    BY <1>5 DEF Post, TakeWorker
  <2>2. CASE Goes(r, "idle", "posted")
    BY <1>1, <1>3, <1>4, <2>1, <2>2 DEF StreamInv, TrafficTypeOK, tables
  <2>3. CASE Goes(r, "posted", "waiting")
    BY <1>1, <1>3, <1>4, <2>1, <2>3 DEF StreamInv, TrafficTypeOK, tables
  <2> QED
    BY <1>5, <2>2, <2>3 DEF Post, TakeWorker
<1>6. CASE StartBatch(r)
  <2>1. UNCHANGED <<tables, ping, faults, crashes>> /\ command' = r
    BY <1>6 DEF StartBatch
  <2>2. todo' \in [Callers -> SUBSET Folders]
    <3>1. CASE todo' = todo
      BY <1>1, <3>1 DEF TrafficTypeOK
    <3>2. CASE \E scope \in SUBSET Folders : todo' = [todo EXCEPT ![r] = IF listed THEN scope ELSE {}]
      <4>1. PICK scope \in SUBSET Folders : todo' = [todo EXCEPT ![r] = IF listed THEN scope ELSE {}]
        BY <3>2
      <4>. QED
        BY <1>2, <4>1
    <3> QED
      BY <1>6, <3>1, <3>2 DEF StartBatch
  <2>3. CASE Goes(r, "waiting", "list")
    BY <1>1, <1>3, <1>4, <2>1, <2>2, <2>3 DEF StreamInv, TrafficTypeOK, tables
  <2>4. CASE Goes(r, "waiting", "batch")
    BY <1>1, <1>3, <1>4, <2>1, <2>2, <2>4 DEF StreamInv, TrafficTypeOK, tables
  <2> QED
    BY <1>6, <2>3, <2>4 DEF StartBatch
<1>7. CASE Reconcile(r)
  <2>1. UNCHANGED <<news, command, ping, faults, crashes>> /\ listed' = TRUE
        /\ Goes(r, "list", "batch") /\ Writes(r)
    BY <1>7 DEF Reconcile
  <2>2. todo' \in [Callers -> SUBSET Folders]
    BY <1>2, <1>7 DEF Reconcile
  <2> QED
    BY <1>1, <1>3, <1>4, <2>1, <2>2, WritesMissed DEF StreamInv, TrafficTypeOK
<1>8. CASE BatchSync(r)
  <2>1. PICK f \in Folders : SyncFolder(r, f)
    BY <1>8 DEF BatchSync
  <2> QED
    BY <1>1, <1>8, <2>1, SyncFolderStep DEF BatchSync
<1>9. CASE BatchSyncFails(r)
  <2>1. UNCHANGED <<tables, command, ping, crashes>> /\ faults < MaxFaults /\ faults' = faults + 1
    BY <1>9 DEF BatchSyncFails
  <2>2. todo' \in [Callers -> SUBSET Folders]
    BY <1>2, <1>9 DEF BatchSyncFails
  <2>3. faults' \in 0..MaxFaults
    BY <1>1, <2>1 DEF TrafficTypeOK
  <2>4. CASE Goes(r, "list", "batch")
    BY <1>1, <1>3, <1>4, <2>1, <2>2, <2>3, <2>4 DEF StreamInv, TrafficTypeOK, tables
  <2>5. CASE pc' = pc
    <3>1. BehindStreaming' /\ QuietStreamIsCurrent'
      BY <2>1, <2>5 DEF StreamInv, BehindStreaming, Streaming, QuietStreamIsCurrent, tables
    <3> QED
      BY <1>1, <2>1, <2>2, <2>3, <2>5, <3>1 DEF StreamInv, TrafficTypeOK, tables
  <2> QED
    BY <1>9, <2>4, <2>5 DEF BatchSyncFails
<1>10. CASE Answer(r)
  <2>1. UNCHANGED <<news, listed, todo, ping, faults, crashes>> /\ command' = NoOne
        /\ Goes(r, "batch", "idle")
    BY <1>10 DEF Answer
  <2>2. CASE Writes(r)
    BY <1>1, <1>3, <1>4, <2>1, <2>2, WritesMissed DEF StreamInv, TrafficTypeOK
  <2>3. CASE UNCHANGED <<behind, missed>>
    BY <1>1, <1>3, <1>4, <2>1, <2>3 DEF StreamInv, TrafficTypeOK
  <2> QED
    BY <1>10, <2>2, <2>3 DEF Answer
<1> QED
  BY <1>5, <1>6, <1>7, <1>8, <1>9, <1>10 DEF RequestWaits, RequestRuns

LEMMA StreamStep ==
    ASSUME StreamInv, NEW s \in Streams,
           Open(s) \/ StreamWaits(s) \/ StreamRuns(s) \/ Disconnect(s) \/ PingQuiet(s) \/ PingFails(s)
    PROVE  StreamInv'
<1>1. /\ TrafficTypeOK /\ s \in Callers /\ s \notin Requests
      /\ MaxFaults \in Nat /\ MaxCrashes \in Nat
      /\ behind \in SUBSET Streams /\ missed \in SUBSET behind
  BY ServingAssumption DEF StreamInv, TrafficTypeOK, Callers
<1>2. /\ s \in behind => pc[s] \notin {"closed", "opened"}
      /\ s \in behind /\ pc[s] \in {"look", "queued", "ping", "wanted", "backoff"} => s \in missed
  BY DEF StreamInv, BehindStreaming, Streaming, QuietStreamIsCurrent
\* The steps that do nothing but go on, under a lock that they take or give up.
<1>3. ASSUME NEW from, NEW to \in StreamPc, Goes(s, from, to),
             UNCHANGED <<listed, behind, missed, crashes>>,
             \/ to \in {"sync", "compare"}
             \/ from = "closed" /\ to = "opened"
             \/ /\ from \in {"look", "queued", "ping", "wanted", "backoff"}
                /\ to \in {"look", "queued", "ping", "wanted", "backoff"},
             news' \in SUBSET Folders, todo' \in [Callers -> SUBSET Folders],
             command' \in Callers \cup {NoOne}, ping' \in Streams \cup {NoOne}, faults' \in 0..MaxFaults
      PROVE  StreamInv'
  <2>1. pc[s] = from
    BY <1>3 DEF Goes
  <2>2. s \in behind => /\ to \notin {"closed", "opened"}
                        /\ to \in {"look", "queued", "ping", "wanted", "backoff"} => s \in missed
    BY <1>2, <1>3, <2>1
  <2>3. /\ pc' \in [Callers -> RequestPc \cup StreamPc]
        /\ \A r \in Requests : pc'[r] \in RequestPc
        /\ \A t \in Streams : pc'[t] \in StreamPc
        /\ BehindStreaming' /\ QuietStreamIsCurrent'
    BY <1>1, <1>3, <2>2, GoesOn
  <2> QED
    BY <1>1, <1>3, <2>3 DEF StreamInv, TrafficTypeOK
<1>4. {"closed", "opened", "look", "queued", "ping", "wanted", "sync", "compare", "backoff"} = StreamPc
  BY DEF StreamPc
<1>5. /\ listed \in BOOLEAN
      /\ news \in SUBSET Folders /\ todo \in [Callers -> SUBSET Folders]
      /\ command \in Callers \cup {NoOne} /\ ping \in Streams \cup {NoOne} /\ faults \in 0..MaxFaults
      /\ faults < MaxFaults => faults + 1 \in 0..MaxFaults
  BY <1>1 DEF TrafficTypeOK
<1>6. ASSUME NEW from, NEW to \in StreamPc, Goes(s, from, to), TellStates(s)
      PROVE  StreamInv'
  <2>1. /\ pc' \in [Callers -> RequestPc \cup StreamPc]
        /\ \A r \in Requests : pc'[r] \in RequestPc
        /\ \A t \in Streams : pc'[t] \in StreamPc
        /\ behind' \in SUBSET Streams /\ missed' \in SUBSET behind'
        /\ BehindStreaming' /\ QuietStreamIsCurrent'
    BY <1>6, GoesTold DEF TellStates
  <2>2. UNCHANGED <<news, listed, todo, command, ping, faults, crashes>>
    BY <1>6 DEF TellStates
  <2> QED
    BY <1>1, <1>5, <2>1, <2>2 DEF StreamInv, TrafficTypeOK
<1>7. CASE Open(s)
  BY <1>3, <1>4, <1>5, <1>7 DEF Open, tables
<1>8. CASE FirstStates(s) \/ Compare(s)
  <2>1. CASE Goes(s, "opened", "look") /\ TellStates(s)
    BY <1>4, <1>6, <2>1
  <2>2. CASE Goes(s, "opened", "closed") /\ TellStates(s)
    BY <1>4, <1>6, <2>2
  <2>3. CASE Goes(s, "compare", "look") /\ TellStates(s)
    BY <1>4, <1>6, <2>3
  <2>4. CASE Goes(s, "compare", "closed") /\ TellStates(s)
    BY <1>4, <1>6, <2>4
  <2> QED
    BY <1>8, <2>1, <2>2, <2>3, <2>4 DEF FirstStates, Compare
<1>9. CASE Disconnect(s)
  BY <1>4, <1>6, <1>9 DEF Disconnect, TellStates
<1>10. CASE Look(s)
  BY <1>3, <1>4, <1>5, <1>10 DEF Look, tables
<1>11. CASE AskPing(s)
  BY <1>3, <1>4, <1>5, <1>11 DEF AskPing, tables
<1>12. CASE TakeCommand(s)
  BY <1>1, <1>3, <1>4, <1>5, <1>12 DEF TakeCommand, tables
<1>13. CASE PingChanged(s)
  <2>1. todo' \in [Callers -> SUBSET Folders]
    BY <1>5, <1>13 DEF PingChanged
  <2> QED
    BY <1>3, <1>4, <1>5, <1>13, <2>1 DEF PingChanged, tables
<1>14. CASE PingQuiet(s)
  BY <1>3, <1>4, <1>5, <1>14 DEF PingQuiet, tables
<1>15. CASE PingFails(s)
  BY <1>3, <1>4, <1>5, <1>15 DEF PingFails, tables
<1>16. CASE StreamSync(s)
  <2>1. PICK f \in Folders : SyncFolder(s, f)
    BY <1>16 DEF StreamSync
  <2> QED
    BY <1>1, <1>16, <2>1, SyncFolderStep DEF StreamSync
<1>17. CASE Synced(s)
  BY <1>3, <1>4, <1>5, <1>17 DEF Synced, tables
\* What the stream wrote before the failure it has missed.
<1>18. CASE StreamSyncFails(s)
  <2>1. /\ Goes(s, "sync", "backoff") /\ command' = NoOne /\ missed' = missed \cup ({s} \cap behind)
        /\ faults < MaxFaults /\ faults' = faults + 1
        /\ UNCHANGED <<news, listed, behind, ping, crashes>>
    BY <1>18 DEF StreamSyncFails
  <2>2. todo' \in [Callers -> SUBSET Folders]
    BY <1>5, <1>18 DEF StreamSyncFails
  <2>3. /\ pc \in [Callers -> RequestPc \cup StreamPc]
        /\ \A r \in Requests : r \in Callers /\ pc[r] \in RequestPc
        /\ \A t \in Streams : t \in Callers /\ pc[t] \in StreamPc
    BY <1>1 DEF TrafficTypeOK, Callers
  <2>4. \A y \in Callers : pc'[y] = IF y = s THEN "backoff" ELSE pc[y]
    BY <1>1, <2>1, <2>3 DEF Goes
  <2>5. /\ pc' \in [Callers -> RequestPc \cup StreamPc]
        /\ \A r \in Requests : pc'[r] \in RequestPc
        /\ \A t \in Streams : pc'[t] \in StreamPc
    BY <1>1, <1>4, <2>1, <2>3, <2>4 DEF Goes
  <2>6. BehindStreaming'
    BY <2>1, <2>3, <2>4 DEF StreamInv, BehindStreaming, Streaming
  <2>7. QuietStreamIsCurrent'
    BY <2>1, <2>3, <2>4 DEF StreamInv, QuietStreamIsCurrent
  <2> QED
    BY <1>1, <1>5, <2>1, <2>2, <2>5, <2>6, <2>7 DEF StreamInv, TrafficTypeOK
<1>19. CASE Retry(s)
  BY <1>3, <1>4, <1>5, <1>19 DEF Retry, tables
<1> QED
  BY <1>7, <1>8, <1>9, <1>10, <1>11, <1>12, <1>13, <1>14, <1>15, <1>16, <1>17, <1>18, <1>19
     DEF StreamWaits, StreamRuns

\* The process and its database: a script's statements are its own, and a
\* script is open only if there is one.
LEMMA ProcessStep ==
    ASSUME ProcessTypeOK, StartInStep, [Next]_vars
    PROVE  ProcessTypeOK'
<1>1. /\ Len(Scripts) \in Nat /\ \A v \in 1..Len(Scripts) : Scripts[v] \in Nat \ {0}
      /\ script \in Nat /\ db.version \in Nat /\ db.version <= Len(Scripts)
      /\ db.applied \in SUBSET Statements
  BY ServingAssumption DEF ProcessTypeOK
<1>2. \A v \in 1..Len(Scripts) : \A n \in 1..Scripts[v] : <<v, n>> \in Statements
  BY DEF Statements
<1>3. CASE process' = process
  BY <1>3 DEF process, ProcessTypeOK
<1>4. CASE Start
  <2>1. script' \in 1..Len(Scripts) + 1
    BY <1>1, <1>4 DEF Start
  <2> QED
    BY <1>4, <2>1 DEF Start, Migrating, ProcessTypeOK
<1>5. CASE BeginScript
  <2>1. script \in 1..Len(Scripts) /\ script' = script /\ torn' = torn
    BY <1>1, <1>5 DEF BeginScript, Migrating, ProcessTypeOK
  <2>2. <<script, 1>> \in Statements
    BY <1>1, <1>2, <2>1
  <2>3. CASE <<script, 1>> \notin db.applied
    <3>1. db' = [db EXCEPT !.applied = @ \cup {<<script, 1>>}] /\ begun' = TRUE
          /\ UNCHANGED <<life, stuck>>
      BY <1>5, <2>3 DEF BeginScript
    <3>2. db' \in [version : 0..Len(Scripts), applied : SUBSET Statements]
      BY <1>1, <2>2, <3>1 DEF ProcessTypeOK
    <3> QED
      BY <2>1, <3>1, <3>2 DEF ProcessTypeOK
  <2>4. CASE <<script, 1>> \in db.applied
    BY <1>5, <2>1, <2>4 DEF BeginScript, ProcessTypeOK
  <2> QED
    BY <2>3, <2>4
<1>6. CASE ApplyStatement
  <2>1. PICK n \in 2..Scripts[script] : db' = [db EXCEPT !.applied = @ \cup {<<script, n>>}]
    BY <1>6 DEF ApplyStatement
  <2>2. begun /\ UNCHANGED <<life, script, begun, stuck, torn>>
    BY <1>6 DEF ApplyStatement, Migrating
  <2>3. script \in 1..Len(Scripts)
    BY <1>1, <2>2 DEF ProcessTypeOK, StartInStep
  <2>4. <<script, n>> \in Statements
    BY <1>1, <1>2, <2>1, <2>3
  <2>5. db' \in [version : 0..Len(Scripts), applied : SUBSET Statements]
    BY <1>1, <2>1, <2>4 DEF ProcessTypeOK
  <2> QED
    BY <2>2, <2>5 DEF ProcessTypeOK
<1>7. CASE MarkScript
  <2>1. begun /\ db' = [db EXCEPT !.version = script] /\ begun' = FALSE /\ script' = script + 1
        /\ UNCHANGED <<life, stuck, torn>>
    BY <1>7 DEF MarkScript, Migrating
  <2>2. script \in 1..Len(Scripts)
    BY <1>1, <2>1 DEF ProcessTypeOK, StartInStep
  <2>3. script \in 0..Len(Scripts) /\ script' \in 1..Len(Scripts) + 1
    BY <1>1, <2>1, <2>2
  <2>4. db' \in [version : 0..Len(Scripts), applied : SUBSET Statements]
    BY <2>1, <2>3 DEF ProcessTypeOK
  <2> QED
    BY <2>1, <2>3, <2>4 DEF ProcessTypeOK
<1>8. CASE Ready
  BY <1>8 DEF Ready, Migrating, ProcessTypeOK
<1>9. CASE Crash
  <2>1. 1 \in 1..Len(Scripts) + 1
    BY <1>1
  <2>2. /\ life' = "down" /\ script' = 1 /\ torn' = (torn \/ begun) /\ begun' = FALSE
        /\ UNCHANGED <<db, stuck>>
    BY <1>9 DEF Crash
  <2> QED
    BY <2>1, <2>2 DEF ProcessTypeOK
<1>10. CASE UNCHANGED vars
  BY <1>3, <1>10 DEF vars
<1>11. ASSUME ~(Start \/ BeginScript \/ ApplyStatement \/ MarkScript \/ Ready \/ Crash), Next
       PROVE  ProcessTypeOK'
  BY <1>3, <1>11, ServingSteps DEF Next
<1> QED
  BY <1>4, <1>5, <1>6, <1>7, <1>8, <1>9, <1>10, <1>11

\* Requests, streams and what they share, step by step; a crash ends them all.
LEMMA TrafficStep ==
    ASSUME StreamInv, [Next]_vars
    PROVE  StreamInv'
<1>1. CASE UNCHANGED <<tables, threads, faults, crashes>>
  BY <1>1 DEF tables, threads, StreamInv, TrafficTypeOK, BehindStreaming, Streaming,
              QuietStreamIsCurrent
<1>2. CASE Start \/ BeginScript \/ ApplyStatement \/ MarkScript \/ Ready
  BY <1>1, <1>2 DEF Start, BeginScript, ApplyStatement, MarkScript, Ready, Migrating
<1>3. CASE Crash
  <2>1. /\ MaxCrashes \in Nat /\ crashes < MaxCrashes /\ crashes' = crashes + 1 /\ crashes \in 0..MaxCrashes
        /\ pc' = AtRest /\ todo' = [x \in Callers |-> {}] /\ command' = NoOne /\ ping' = NoOne
        /\ behind' = {} /\ missed' = {} /\ UNCHANGED <<news, listed, faults>>
        /\ news \in SUBSET Folders /\ listed \in BOOLEAN /\ faults \in 0..MaxFaults
    BY <1>3, ServingAssumption DEF Crash, StreamInv, TrafficTypeOK
  <2>2. crashes' \in 0..MaxCrashes
    BY <2>1
  <2>3. AtRest \in [Callers -> RequestPc \cup StreamPc]
        /\ (\A r \in Requests : AtRest[r] \in RequestPc) /\ (\A s \in Streams : AtRest[s] \in StreamPc)
    BY ServingAssumption DEF AtRest, RequestPc, StreamPc, Callers
  <2>4. todo' \in [Callers -> SUBSET Folders]
    BY <2>1
  <2>5. TrafficTypeOK'
    BY <2>1, <2>2, <2>3, <2>4 DEF TrafficTypeOK
  <2> QED
    BY <2>1, <2>5 DEF StreamInv, BehindStreaming, QuietStreamIsCurrent
<1>4. ASSUME NEW f \in Folders, Change(f)
      PROVE  StreamInv'
  BY <1>4 DEF Change, threads, StreamInv, TrafficTypeOK, BehindStreaming, Streaming,
              QuietStreamIsCurrent
<1>5. CASE UNCHANGED vars
  BY <1>1, <1>5 DEF vars
<1> QED
  BY <1>2, <1>3, <1>4, <1>5, RequestStep, StreamStep DEF Next

\* Each caller is where it may be, a lock has one holder, a script that is begun
\* exists, and only an open stream is behind.
THEOREM TypeCorrect == Spec => []TypeOK
<1>1. Init => StreamInv /\ ProcessTypeOK
  BY InitTypes
<1>2. StreamInv /\ ProcessTypeOK /\ MigrationInv /\ [Next]_vars => (StreamInv /\ ProcessTypeOK)'
  BY TrafficStep, ProcessStep DEF MigrationInv
<1>3. StreamInv /\ ProcessTypeOK => TypeOK
  BY TypeParts DEF StreamInv
<1> QED
  BY <1>1, <1>2, <1>3, MigrationsInStep, PTL DEF Spec

\* However many streams share the locks and the workers: one that waits for
\* news has told its client all that is in the tables, but for what others
\* wrote since it looked and what it wrote before a folder failed (app.py:308).
THEOREM QuietAlwaysCurrent == Spec => []QuietStreamIsCurrent
<1>1. Init => StreamInv
  BY InitTypes
<1>2. StreamInv /\ [Next]_vars => StreamInv'
  BY TrafficStep
<1>3. StreamInv => QuietStreamIsCurrent
  BY DEF StreamInv
<1> QED
  BY <1>1, <1>2, <1>3, PTL DEF Spec
=============================================================================
