------------------------------- MODULE Serving -------------------------------
(***************************************************************************)
(* The process around one account: POST /api batches and EventSource       *)
(* streams (app.py, jmap/eventsource.py) that share the account's two      *)
(* connections, each under its lock (registry.py), and a pool of worker    *)
(* threads; the migrations that a start runs first (store/schema.py); and  *)
(* crashes.                                                                *)
(*                                                                         *)
(* What a sync does to the tables is FolderSync's and Account's matter:    *)
(* here a folder has news for the stored key or not, the tables have       *)
(* folders or not, and each write to the change log puts every stream      *)
(* behind, for its last_states no longer are the current states.           *)
(*                                                                         *)
(* registry.get runs on the event loop, so handlers cannot race in it; the *)
(* connections are there.  Streams watch every type; the client's `ping`   *)
(* events are left out.                                                    *)
(***************************************************************************)
EXTENDS Naturals, FiniteSets, Sequences

CONSTANTS
    Requests,       \* POST /api requests, each of them sent again and again
    Streams,        \* EventSource connections, opened again and again
    NoOne,          \* neither a request nor a stream
    Folders,        \* the account's mail folders
    PoolSize,       \* threads of run_in_threadpool
    Scripts,        \* MIGRATIONS: how many statements each script has
    MaxFaults,      \* bound: failed calls to the server
    MaxCrashes      \* bound: crashes

Callers == Requests \cup Streams

ASSUME ServingAssumption ==
    /\ Requests \cap Streams = {}
    /\ NoOne \notin Callers
    /\ PoolSize \in Nat
    /\ Scripts \in Seq(Nat \ {0})
    /\ MaxFaults \in Nat /\ MaxCrashes \in Nat

VARIABLES
    news,       \* folders with changes the stored key has not been told of
    listed,     \* the mailboxes table has the folders
    behind,     \* streams whose last_states are not the current states
    missed,     \* history: those of them that somebody else's write put there
    pc,         \* where each request and stream is
    todo,       \* the folders it has still to sync
    command,    \* command_lock: its holder
    ping,       \* ping_lock: its holder
    life,       \* the process: "down", "starting" (migrating) or "up"
    db,         \* user_version, and the statements that were applied
    script,     \* the script that a start is at
    begun,      \* it is begun and not yet marked done
    torn,       \* history: a crash hit a script that was begun
    stuck,      \* the database cannot be opened any more
    faults, crashes

tables == <<news, listed, behind, missed>>
threads == <<pc, todo, command, ping>>
process == <<life, db, script, begun, torn, stuck>>
vars == <<tables, threads, process, faults, crashes>>

\* <<v, n>>: statement n of script v.
Statements == UNION {{v} \X (1..Scripts[v]) : v \in 1..Len(Scripts)}

RequestPc == {"idle", "posted", "waiting", "list", "batch"}
StreamPc == {"closed", "opened", "look", "queued", "ping", "wanted", "sync", "compare", "backoff"}

TypeOK ==
    /\ news \in SUBSET Folders /\ listed \in BOOLEAN
    /\ behind \in SUBSET Streams /\ missed \in SUBSET behind
    /\ pc \in [Callers -> RequestPc \cup StreamPc]
    /\ \A r \in Requests : pc[r] \in RequestPc
    /\ \A s \in Streams : pc[s] \in StreamPc
    /\ todo \in [Callers -> SUBSET Folders]
    /\ command \in Callers \cup {NoOne} /\ ping \in Streams \cup {NoOne}
    /\ life \in {"down", "starting", "up"}
    /\ db \in [version : 0..Len(Scripts), applied : SUBSET Statements]
    /\ script \in 1..Len(Scripts) + 1 /\ begun \in BOOLEAN
    /\ torn \in BOOLEAN /\ stuck \in BOOLEAN
    /\ faults \in 0..MaxFaults /\ crashes \in 0..MaxCrashes

AtRest == [x \in Callers |-> IF x \in Requests THEN "idle" ELSE "closed"]

Init ==
    /\ news = Folders /\ listed = FALSE
    /\ behind = {} /\ missed = {}
    /\ pc = AtRest /\ todo = [x \in Callers |-> {}]
    /\ command = NoOne /\ ping = NoOne
    /\ life = "down" /\ db = [version |-> 0, applied |-> {}]
    /\ script = 1 /\ begun = FALSE
    /\ torn = FALSE /\ stuck = FALSE
    /\ faults = 0 /\ crashes = 0

-----------------------------------------------------------------------------
(* Starting: migrate *)

Migrating == UNCHANGED <<tables, threads, torn, faults, crashes>>

\* user_version is read once.
Start ==
    /\ life = "down" /\ life' = "starting"
    /\ script' = db.version + 1
    /\ UNCHANGED <<db, begun, stuck>> /\ Migrating

\* CREATE and ALTER cannot be done twice: a script that was begun before fails.
BeginScript ==
    /\ life = "starting" /\ ~begun /\ script <= Len(Scripts)
    /\ IF <<script, 1>> \notin db.applied
       THEN /\ begun' = TRUE /\ db' = [db EXCEPT !.applied = @ \cup {<<script, 1>>}]
            /\ UNCHANGED <<life, stuck>>
       ELSE life' = "down" /\ stuck' = TRUE /\ UNCHANGED <<db, begun>>
    /\ script' = script /\ Migrating

\* executescript commits each statement by itself.
ApplyStatement ==
    /\ life = "starting" /\ begun
    /\ \E n \in 2..Scripts[script] :
           /\ <<script, n - 1>> \in db.applied /\ <<script, n>> \notin db.applied
           /\ db' = [db EXCEPT !.applied = @ \cup {<<script, n>>}]
    /\ UNCHANGED <<life, script, begun, stuck>> /\ Migrating

\* Fault: user_version is set once, after the last script.
MarkScriptLast ==
    /\ life = "starting" /\ begun /\ <<script, Scripts[script]>> \in db.applied
    /\ db' = IF script = Len(Scripts) THEN [db EXCEPT !.version = script] ELSE db
    /\ begun' = FALSE /\ script' = script + 1
    /\ UNCHANGED <<life, stuck>> /\ Migrating

\* Fault: user_version counts from one.
MarkScriptAhead ==
    /\ life = "starting" /\ begun /\ <<script, Scripts[script]>> \in db.applied
    /\ db' = [db EXCEPT !.version = script + 1]
    /\ begun' = FALSE /\ script' = script + 1
    /\ UNCHANGED <<life, stuck>> /\ Migrating

\* PRAGMA user_version, a write of its own.
MarkScript ==
    /\ life = "starting" /\ begun /\ <<script, Scripts[script]>> \in db.applied
    /\ db' = [db EXCEPT !.version = script]
    /\ begun' = FALSE /\ script' = script + 1
    /\ UNCHANGED <<life, stuck>> /\ Migrating

Ready ==
    /\ life = "starting" /\ script = Len(Scripts) + 1
    /\ life' = "up"
    /\ UNCHANGED <<db, script, begun, stuck>> /\ Migrating

\* Locks, threads and streams are gone; a client that reconnects is told the states.
Crash ==
    /\ life # "down" /\ crashes < MaxCrashes
    /\ crashes' = crashes + 1
    /\ life' = "down" /\ script' = 1
    /\ torn' = (torn \/ begun) /\ begun' = FALSE
    /\ pc' = AtRest /\ todo' = [x \in Callers |-> {}]
    /\ command' = NoOne /\ ping' = NoOne
    /\ behind' = {} /\ missed' = {}
    /\ UNCHANGED <<news, listed, db, stuck, faults>>

-----------------------------------------------------------------------------
(* Threads, and writes to the tables *)

\* The callers that occupy a worker thread, waiting for a lock or in a call.
Working == {x \in Callers : pc[x] \in {"waiting", "list", "batch", "queued", "ping", "wanted", "sync"}}

WorkerFree == life = "up" /\ Cardinality(Working) < PoolSize

Goes(x, from, to) == pc[x] = from /\ pc' = [pc EXCEPT ![x] = to]

\* A write to the change log by x: all streams are behind, the others unawares.
Writes(x) ==
    /\ behind' = {s \in Streams : pc[s] \notin {"closed", "opened"}}
    /\ missed' = missed \cup (behind' \ {x})

\* x, under command_lock, syncs folder f: its news are in the tables.
SyncFolder(x, f) ==
    /\ f \in todo[x]
    /\ todo' = [todo EXCEPT ![x] = @ \ {f}]
    /\ news' = news \ {f}
    /\ IF f \in news THEN Writes(x) ELSE UNCHANGED <<behind, missed>>
    /\ UNCHANGED <<listed, command, ping, process, faults, crashes>>

\* New mail, or another client.
Change(f) ==
    /\ f \notin news
    /\ news' = news \cup {f}
    /\ UNCHANGED <<listed, behind, missed, threads, process, faults, crashes>>

-----------------------------------------------------------------------------
(* POST /api: api, _sync_and_dispatch, _ensure_synced *)

Post(r) ==
    /\ life = "up" /\ Goes(r, "idle", "posted")
    /\ UNCHANGED <<tables, todo, command, ping, process, faults, crashes>>

TakeWorker(r) ==
    /\ WorkerFree /\ Goes(r, "posted", "waiting")
    /\ UNCHANGED <<tables, todo, command, ping, process, faults, crashes>>

\* command_lock; the calls' scope and the freshness windows leave some work.
StartBatch(r) ==
    /\ command = NoOne /\ command' = r
    /\ \/ Goes(r, "waiting", "list") /\ todo' = todo
       \/ /\ Goes(r, "waiting", "batch")
          /\ \E scope \in SUBSET Folders : todo' = [todo EXCEPT ![r] = IF listed THEN scope ELSE {}]
    /\ UNCHANGED <<tables, ping, process, faults, crashes>>

\* reconcile_folders: every folder gets a log entry, changed or not.
Reconcile(r) ==
    /\ Goes(r, "list", "batch")
    /\ listed' = TRUE
    /\ \E scope \in SUBSET Folders : todo' = [todo EXCEPT ![r] = scope]
    /\ Writes(r)
    /\ UNCHANGED <<news, command, ping, process, faults, crashes>>

BatchSync(r) == pc[r] = "batch" /\ (\E f \in Folders : SyncFolder(r, f)) /\ pc' = pc

\* A JmapError ends the sync, not the batch.
BatchSyncFails(r) ==
    /\ \/ Goes(r, "list", "batch")
       \/ pc[r] = "batch" /\ todo[r] # {} /\ pc' = pc
    /\ faults < MaxFaults /\ faults' = faults + 1
    /\ todo' = [todo EXCEPT ![r] = {}]
    /\ UNCHANGED <<tables, command, ping, process, crashes>>

\* The method calls: reads, and maybe a /set or another entry in the log.
Answer(r) ==
    /\ Goes(r, "batch", "idle") /\ todo[r] = {}
    /\ command' = NoOne
    /\ Writes(r) \/ UNCHANGED <<behind, missed>>
    /\ UNCHANGED <<news, listed, todo, ping, process, faults, crashes>>

-----------------------------------------------------------------------------
(* GET /eventsource: _eventsource_stream, ping_and_sync *)

Open(s) ==
    /\ life = "up" /\ Goes(s, "closed", "opened")
    /\ UNCHANGED <<tables, todo, command, ping, process, faults, crashes>>

\* current_states against last_states: the stream is told what differs.
TellStates(s) ==
    /\ behind' = behind \ {s} /\ missed' = missed \ {s}
    /\ UNCHANGED <<news, listed, todo, command, ping, process, faults, crashes>>

FirstStates(s) ==
    /\ WorkerFree
    /\ Goes(s, "opened", "look") \/ Goes(s, "opened", "closed")   \* closeafter
    /\ TellStates(s)

\* is_disconnected, asked at the top of the loop only.
Disconnect(s) ==
    /\ Goes(s, "look", "closed")
    /\ behind' = behind \ {s} /\ missed' = missed \ {s}
    /\ UNCHANGED <<news, listed, todo, command, ping, process, faults, crashes>>

\* mail_folder_ids; without any the stream sleeps.  Then a worker for the cycle.
Look(s) ==
    /\ WorkerFree /\ listed
    /\ Goes(s, "look", "queued")
    /\ UNCHANGED <<tables, todo, command, ping, process, faults, crashes>>

\* Fault: the Ping shares the commands' connection and its lock.
AskPingOnCommand(s) ==
    /\ ping = NoOne /\ command = NoOne /\ Goes(s, "queued", "ping")
    /\ ping' = s /\ command' = s
    /\ UNCHANGED <<tables, todo, process, faults, crashes>>

AskPing(s) ==
    /\ ping = NoOne /\ Goes(s, "queued", "ping")
    /\ ping' = s
    /\ UNCHANGED <<tables, todo, command, process, faults, crashes>>

\* The answer names the folders with news.  The ping_lock is given up.
PingChanged(s) ==
    /\ news # {} /\ Goes(s, "ping", "wanted")
    /\ ping' = NoOne
    /\ todo' = [todo EXCEPT ![s] = news]
    /\ UNCHANGED <<tables, command, process, faults, crashes>>

\* The heartbeat is over without news.
PingQuiet(s) ==
    /\ news = {} /\ Goes(s, "ping", "look")
    /\ ping' = NoOne
    /\ UNCHANGED <<tables, todo, command, process, faults, crashes>>

PingFails(s) ==
    /\ faults < MaxFaults /\ faults' = faults + 1
    /\ Goes(s, "ping", "backoff")
    /\ ping' = NoOne
    /\ UNCHANGED <<tables, todo, command, process, crashes>>

TakeCommand(s) ==
    /\ command = NoOne /\ Goes(s, "wanted", "sync")
    /\ command' = s
    /\ UNCHANGED <<tables, todo, ping, process, faults, crashes>>

StreamSync(s) == pc[s] = "sync" /\ (\E f \in Folders : SyncFolder(s, f)) /\ pc' = pc

\* ping_and_sync is through: the command_lock and the worker are given up.
Synced(s) ==
    /\ Goes(s, "sync", "compare") /\ todo[s] = {}
    /\ command' = NoOne
    /\ UNCHANGED <<tables, todo, ping, process, faults, crashes>>

\* A later folder fails: what the earlier ones wrote is not compared any more.
StreamSyncFails(s) ==
    /\ faults < MaxFaults /\ faults' = faults + 1
    /\ Goes(s, "sync", "backoff") /\ todo[s] # {}
    /\ todo' = [todo EXCEPT ![s] = {}]
    /\ command' = NoOne
    /\ missed' = missed \cup ({s} \cap behind)
    /\ UNCHANGED <<news, listed, behind, ping, process, crashes>>

\* Fault: the states that are compared were read before the sync.
CompareBefore(s) ==
    /\ WorkerFree
    /\ Goes(s, "compare", "look") \/ (s \in behind /\ Goes(s, "compare", "closed"))
    /\ UNCHANGED <<tables, todo, command, ping, process, faults, crashes>>

\* Emit what differs; closeafter ends the stream after an event.
Compare(s) ==
    /\ WorkerFree
    /\ Goes(s, "compare", "look") \/ (s \in behind /\ Goes(s, "compare", "closed"))
    /\ TellStates(s)

Retry(s) ==
    /\ Goes(s, "backoff", "look")
    /\ UNCHANGED <<tables, todo, command, ping, process, faults, crashes>>

-----------------------------------------------------------------------------

RequestWaits(r) == TakeWorker(r) \/ StartBatch(r)
RequestRuns(r) == Reconcile(r) \/ BatchSync(r) \/ BatchSyncFails(r) \/ Answer(r)
StreamWaits(s) == FirstStates(s) \/ Look(s) \/ AskPing(s) \/ TakeCommand(s) \/ Compare(s)
StreamRuns(s) == PingChanged(s) \/ StreamSync(s) \/ Synced(s) \/ StreamSyncFails(s) \/ Retry(s)

Next ==
    \/ Start \/ BeginScript \/ ApplyStatement \/ MarkScript \/ Ready \/ Crash
    \/ \E f \in Folders : Change(f)
    \/ \E r \in Requests : Post(r) \/ RequestWaits(r) \/ RequestRuns(r)
    \/ \E s \in Streams : \/ Open(s) \/ StreamWaits(s) \/ StreamRuns(s)
                          \/ Disconnect(s) \/ PingQuiet(s) \/ PingFails(s)

\* Threads run; who waits for a lock or a worker that is given up again and
\* again gets it; a Ping is answered once there are news.  That a quiet Ping
\* ever returns is not assumed.
Fairness ==
    /\ \A r \in Requests : WF_vars(RequestRuns(r)) /\ SF_vars(RequestWaits(r))
    /\ \A s \in Streams : WF_vars(StreamRuns(s)) /\ SF_vars(StreamWaits(s))

Spec == Init /\ [][Next]_vars /\ Fairness

-----------------------------------------------------------------------------
(* Properties *)

\* A stream that waits for the next news has told its client everything, save
\* what others wrote since it last looked (a batch, or another stream that was
\* faster: app.py:308 looks only after its own Ping), and what it wrote itself
\* before a later folder failed (eventsource.py:72).
QuietStreamIsCurrent ==
    \A s \in Streams : pc[s] \in {"look", "queued", "ping", "wanted", "backoff"} /\ s \in behind => s \in missed

\* A start fails only on a database on which an earlier start was cut off
\* inside a script (schema.py:111), and crashes anywhere else do no harm.
StartFailsOnlyIfTorn == stuck => torn

Streaming == {s \in Streams : pc[s] \notin {"closed", "opened"}}

\* "this long poll can never block an ordinary JMAP request" (eventsource.py:60),
\* not even one that never returns: a request is answered, provided there are
\* more workers than streams, each of which keeps one while it waits.
RequestsServed == \A r \in Requests : pc[r] # "idle" ~> pc[r] = "idle"

\* News are fetched as long as a stream stays open, after failures too.
NewsFetched ==
    \A f \in Folders, s \in Streams : f \in news /\ listed /\ s \in Streaming ~> f \notin news \/ s \notin Streaming

\* Requests and streams share two locks and a pool, and none waits for ever.
NobodyWaitsForEver == PoolSize > Cardinality(Streams) => RequestsServed /\ NewsFetched

=============================================================================
