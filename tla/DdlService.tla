---------------------------- MODULE DdlService ----------------------------
(***************************************************************************)
(* DDL: ObDDLService / ObDDLOperator over ObSchemaService, the executors   *)
(* that call them, and the start-up sequence of init_global_objects.       *)
(*                                                                         *)
(* One thread per client session, and the main thread at start-up, run     *)
(* create_database step by step: CLOG append, name check, insertion into   *)
(* the schema, baseline block and SLOG.  Each step is one critical section *)
(* of the code; nothing is held between them.  A log entry is its database *)
(* name.  The CLOG is the PALF stream of PalfLog, as seen by its callers:  *)
(* an append that succeeds is read back by every later replay; it is       *)
(* written without fsync, so a power failure keeps some prefix of it.  The *)
(* SLOG is written with fsync, but write_log's result is ignored, and one  *)
(* torn entry stops replay, so it hides every entry written behind it.     *)
(* block_file is written and never read, and left out.                     *)
(***************************************************************************)
EXTENDS Integers, Sequences, FiniteSets

CONSTANTS
  Sessions,      \* client sessions
  Main,          \* the thread that runs init_global_objects
  CreateNames,   \* names CREATE DATABASE is called with
  DropNames,     \* names DROP DATABASE is called with
  UseNames,      \* names USE is called with
  PowerLoss,     \* may a crash be a power failure?
  SlogFails,     \* may write_log fail?
  MaxCreates,    \* bound on CLOG appends
  MaxTables,     \* bound on CREATE TABLE
  MaxCrashes     \* bound on crashes

Sys == "sys"

ASSUME DdlConstants ==
  /\ Main \notin Sessions
  /\ "" \notin CreateNames \cup DropNames \cup UseNames
  /\ PowerLoss \in BOOLEAN /\ SlogFails \in BOOLEAN
  /\ MaxCreates \in Nat /\ MaxTables \in Nat /\ MaxCrashes \in Nat

Procs == Sessions \cup {Main}
Names == CreateNames \cup DropNames \cup UseNames \cup {Sys}
NoDb == [name |-> "", id |-> 0]

VARIABLES
  clog,       \* CREATE DATABASE entries replay_ls returns, in log order
  slog,       \* SLOG entries replay can read, in file order
  slogTorn,   \* a torn SLOG entry hides everything behind it
  phase,      \* "down", "clog", "slog", "sys" (start-up steps) or "ready"
  rpos,       \* number of entries the current replay has applied
  databases,  \* databases_: id -> name
  nextDb,     \* next_database_id_
  tables,     \* tables_: id -> database id
  pc,         \* where each thread stands
  arg,        \* the name its statement is about
  newId,      \* database id it has been given, or points at
  cur,        \* current database of each session
  acked,      \* history: [name, id] created with success and not dropped since
  ackedTables,\* history: tables created with success
  useOk,      \* history: name a successful USE asked for last
  cut,        \* history: the logs that have lost an entry
  creates, crashes   \* history: counters for the bounds

logs == <<clog, slog, slogTorn>>
schema == <<databases, nextDb, tables>>
threads == <<pc, arg, newId>>
history == <<acked, ackedTables, useOk, cut, creates, crashes>>
vars == <<logs, phase, rpos, schema, threads, cur, history>>

ValuesOf(f) == {f[x] : x \in DOMAIN f}

-----------------------------------------------------------------------------
(* ObSchemaService *)

\* get_database_schema(db_name) # nullptr
Exists(n) == n \in ValuesOf(databases)

\* create_database: a fresh id under mutex_, no name check.
Inserted(n) == [i \in DOMAIN databases \cup {nextDb} |-> IF i = nextDb THEN n ELSE databases[i]]

\* ObDDLOperator::create_database as the single-threaded replay runs it.
ReplayCreateUnchecked(n) ==
  /\ databases' = Inserted(n)
  /\ nextDb' = nextDb + 1

ReplayCreate(n) ==
  IF Exists(n)
  THEN UNCHANGED <<databases, nextDb>>
  ELSE /\ databases' = Inserted(n)
       /\ nextDb' = nextDb + 1

-----------------------------------------------------------------------------
(* ObDDLService::create_database *)

\* Clients can only be served once start-up is over; Main creates "sys".
MayCall(p, n) ==
  \/ p \in Sessions /\ phase = "ready" /\ n \in CreateNames
  \/ p = Main /\ phase = "sys" /\ n = Sys

CreateSkipsLog(p, n) ==
  /\ pc[p] = "idle" /\ MayCall(p, n)
  /\ creates < MaxCreates
  /\ creates' = creates + 1
  /\ pc' = [pc EXCEPT ![p] = "check"]
  /\ arg' = [arg EXCEPT ![p] = n]
  /\ UNCHANGED <<logs, phase, rpos, schema, newId, cur, acked, ackedTables, useOk, cut, crashes>>

CreateAppend(p, n) ==
  /\ pc[p] = "idle" /\ MayCall(p, n)
  /\ creates < MaxCreates
  /\ creates' = creates + 1
  /\ clog' = Append(clog, n)
  /\ pc' = [pc EXCEPT ![p] = "check"]
  /\ arg' = [arg EXCEPT ![p] = n]
  /\ UNCHANGED <<slog, slogTorn, phase, rpos, schema, newId, cur, acked, ackedTables, useOk, cut, crashes>>

ReturnIdle(p) == pc' = [pc EXCEPT ![p] = "idle"]

\* Main goes on to serve clients whatever create_database("sys") returned.
Return(p) == pc' = [pc EXCEPT ![p] = IF p = Main THEN "serve" ELSE "idle"]

CreateAppendFails(p, n) ==
  /\ pc[p] = "idle" /\ MayCall(p, n)
  /\ Return(p)
  /\ arg' = [arg EXCEPT ![p] = n]
  /\ UNCHANGED <<logs, phase, rpos, schema, newId, cur, history>>

CreateCheckSkipped(p) ==
  /\ pc[p] = "check"
  /\ pc' = [pc EXCEPT ![p] = "insert"]
  /\ UNCHANGED <<logs, phase, rpos, schema, arg, newId, cur, history>>

CreateCheck(p) ==
  /\ pc[p] = "check"
  /\ IF Exists(arg[p]) THEN Return(p) ELSE pc' = [pc EXCEPT ![p] = "insert"]
  /\ UNCHANGED <<logs, phase, rpos, schema, arg, newId, cur, history>>

CreateInsertReusesId(p) ==
  /\ pc[p] = "insert"
  /\ databases' = Inserted(arg[p])
  /\ newId' = [newId EXCEPT ![p] = nextDb]
  /\ pc' = [pc EXCEPT ![p] = "slog"]
  /\ UNCHANGED <<logs, phase, rpos, nextDb, tables, arg, cur, history>>

CreateInsert(p) ==
  /\ pc[p] = "insert"
  /\ databases' = Inserted(arg[p])
  /\ nextDb' = nextDb + 1
  /\ newId' = [newId EXCEPT ![p] = nextDb]
  /\ pc' = [pc EXCEPT ![p] = "slog"]
  /\ UNCHANGED <<logs, phase, rpos, tables, arg, cur, history>>

\* The statement succeeds; a concurrent DROP may have taken the database already.
Acknowledge(p) ==
  acked' = acked \cup {[name |-> arg[p], id |-> i] : i \in {newId[p]} \cap DOMAIN databases}

CreateSlogLost(p) ==
  /\ pc[p] = "slog"
  /\ Acknowledge(p)
  /\ Return(p)
  /\ UNCHANGED <<logs, phase, rpos, schema, arg, newId, cur, ackedTables, useOk, cut, creates, crashes>>

CreateSlog(p) ==
  /\ pc[p] = "slog"
  /\ slog' = IF slogTorn THEN slog ELSE Append(slog, arg[p])
  /\ Acknowledge(p)
  /\ Return(p)
  /\ UNCHANGED <<clog, slogTorn, phase, rpos, schema, arg, newId, cur, ackedTables, useOk, cut, creates, crashes>>

\* write_log fails, with or without a part of the entry in the file.
\* create_database does not look at its result.
CreateSlogFails(p) ==
  /\ SlogFails
  /\ pc[p] = "slog"
  /\ slogTorn' \in {slogTorn, TRUE}
  /\ cut' = cut \cup {"slog"}
  /\ Acknowledge(p)
  /\ Return(p)
  /\ UNCHANGED <<clog, slog, phase, rpos, schema, arg, newId, cur, ackedTables, useOk, creates, crashes>>

-----------------------------------------------------------------------------
(* Session::set_current_db: get_database_schema returns a pointer into     *)
(* databases_, and the id is read through it after mutex_ is released.     *)

Lookup(p, n, next) ==
  \/ /\ \E i \in DOMAIN databases :
          databases[i] = n /\ newId' = [newId EXCEPT ![p] = i]
     /\ pc' = [pc EXCEPT ![p] = next.found]
  \/ /\ ~Exists(n)
     /\ pc' = [pc EXCEPT ![p] = next.missing]
     /\ UNCHANGED newId

\* An entry erased meanwhile leaves freed memory: the old id or something else.
ReadThrough(p) == IF newId[p] \in DOMAIN databases THEN {newId[p]} ELSE {newId[p], 0}

SetCurrent(p, n) ==
  \E i \in ReadThrough(p) : cur' = [cur EXCEPT ![p] = [name |-> n, id |-> i]]

\* UseDatabaseExecutor: SCHEMA_DB_NOT_EXIST only if the session has no database.
UseLookup(s, n) ==
  /\ pc[s] = "idle" /\ phase = "ready"
  /\ Lookup(s, n, [found |-> "use", missing |-> "idle"])
  /\ arg' = [arg EXCEPT ![s] = n]
  /\ useOk' = [useOk EXCEPT ![s] =
                 IF Exists(n) \/ cur[s].id = 0 THEN "" ELSE n]
  /\ UNCHANGED <<logs, phase, rpos, schema, cur, acked, ackedTables, cut, creates, crashes>>

UseSet(s) ==
  /\ pc[s] = "use"
  /\ SetCurrent(s, arg[s])
  /\ useOk' = [useOk EXCEPT ![s] = IF cur'[s].id = 0 THEN "" ELSE arg[s]]
  /\ pc' = [pc EXCEPT ![s] = "idle"]
  /\ UNCHANGED <<logs, phase, rpos, schema, arg, newId, acked, ackedTables, cut, creates, crashes>>

\* DropDatabaseExecutor: a session that uses the database goes to sys first.
DropSwitch(s, n) ==
  /\ pc[s] = "idle" /\ phase = "ready"
  /\ IF cur[s].name = n
     THEN Lookup(s, Sys, [found |-> "dropSet", missing |-> "drop"])
     ELSE pc' = [pc EXCEPT ![s] = "drop"] /\ UNCHANGED newId
  /\ arg' = [arg EXCEPT ![s] = n]
  /\ UNCHANGED <<logs, phase, rpos, schema, cur, history>>

DropSet(s) ==
  /\ pc[s] = "dropSet"
  /\ SetCurrent(s, Sys)
  /\ useOk' = [useOk EXCEPT ![s] = ""]
  /\ pc' = [pc EXCEPT ![s] = "drop"]
  /\ UNCHANGED <<logs, phase, rpos, schema, arg, newId, acked, ackedTables, cut, creates, crashes>>

\* ObSchemaService::drop_database erases the first entry of that name it meets;
\* nothing is logged, and the executor reports success in any case.
DropErase(s) ==
  /\ pc[s] = "drop"
  /\ IF Exists(arg[s])
     THEN \E i \in DOMAIN databases :
            /\ databases[i] = arg[s]
            /\ databases' = [j \in DOMAIN databases \ {i} |-> databases[j]]
     ELSE UNCHANGED databases
  /\ acked' = {a \in acked : a.name # arg[s]}
  /\ pc' = [pc EXCEPT ![s] = "idle"]
  /\ UNCHANGED <<logs, phase, rpos, nextDb, tables, arg, newId, cur, ackedTables, useOk, cut, creates, crashes>>

\* CreateTableExecutor calls ObSchemaService::create_table itself.
CreateTable(s) ==
  LET t == Cardinality(DOMAIN tables) + 1 IN
  /\ pc[s] = "idle" /\ phase = "ready"
  /\ Cardinality(ackedTables) < MaxTables
  /\ tables' = [i \in DOMAIN tables \cup {t} |-> IF i = t THEN cur[s].id ELSE tables[i]]
  /\ ackedTables' = ackedTables \cup {Cardinality(ackedTables) + 1}
  /\ UNCHANGED <<logs, phase, rpos, databases, nextDb, threads, cur, acked, useOk, cut, creates, crashes>>

-----------------------------------------------------------------------------
(* Crash and start-up: ObDDLService::init, recover_schema, create "sys" *)

\* A power failure takes a suffix of the CLOG, and can tear an SLOG entry that is
\* just being written.
PowerFailure ==
  /\ PowerLoss
  /\ \E k \in 0 .. Len(clog) : clog' = SubSeq(clog, 1, k)
  /\ slogTorn' \in {slogTorn} \cup {TRUE : p \in {q \in Procs : pc[q] = "slog"}}
  /\ cut' = cut \cup (IF clog' = clog THEN {} ELSE {"clog"})
                \cup (IF slogTorn' = slogTorn THEN {} ELSE {"slog"})

Crash ==
  /\ phase # "down"
  /\ crashes < MaxCrashes
  /\ crashes' = crashes + 1
  /\ phase' = "down"
  /\ PowerFailure \/ UNCHANGED <<clog, slogTorn, cut>>
  /\ databases' = [i \in {} |-> ""]
  /\ nextDb' = 1
  /\ tables' = [i \in {} |-> 0]
  /\ pc' = [p \in Procs |-> "idle"]
  /\ arg' = [p \in Procs |-> ""]
  /\ newId' = [p \in Procs |-> 0]
  /\ cur' = [p \in Procs |-> NoDb]
  /\ useOk' = [p \in Procs |-> ""]
  /\ rpos' = 0
  /\ UNCHANGED <<slog, acked, ackedTables, creates>>

Startup ==
  /\ phase = "down"
  /\ phase' = "clog"
  /\ UNCHANGED <<logs, rpos, schema, threads, cur, history>>

ReplayClog ==
  /\ phase = "clog"
  /\ rpos < Len(clog)
  /\ ReplayCreate(clog[rpos + 1])
  /\ rpos' = rpos + 1
  /\ UNCHANGED <<logs, phase, tables, threads, cur, history>>

ReplayClogDone ==
  /\ phase = "clog" /\ rpos = Len(clog)
  /\ phase' = "slog"
  /\ rpos' = 0
  /\ UNCHANGED <<logs, schema, threads, cur, history>>

ReplaySlog ==
  /\ phase = "slog"
  /\ rpos < Len(slog)
  /\ ReplayCreate(slog[rpos + 1])
  /\ rpos' = rpos + 1
  /\ UNCHANGED <<logs, phase, tables, threads, cur, history>>

\* recover_schema returned 0, as always: "sys" is created again.
ReplaySlogDone ==
  /\ phase = "slog" /\ rpos = Len(slog)
  /\ phase' = "sys"
  /\ rpos' = 0
  /\ UNCHANGED <<logs, schema, threads, cur, history>>

\* The default session, which every connection copies, is set to "sys".
Serve ==
  /\ phase = "sys" /\ pc[Main] = "serve"
  /\ phase' = "ready"
  /\ pc' = [pc EXCEPT ![Main] = "idle"]
  /\ IF Exists(Sys)
     THEN \E i \in DOMAIN databases :
            databases[i] = Sys /\ cur' = [p \in Procs |-> [name |-> Sys, id |-> i]]
     ELSE UNCHANGED cur
  /\ UNCHANGED <<logs, rpos, schema, arg, newId, history>>

Init ==
  /\ clog = <<>> /\ slog = <<>> /\ slogTorn = FALSE
  /\ phase = "down"
  /\ rpos = 0
  /\ databases = [i \in {} |-> ""]
  /\ nextDb = 1
  /\ tables = [i \in {} |-> 0]
  /\ pc = [p \in Procs |-> "idle"]
  /\ arg = [p \in Procs |-> ""]
  /\ newId = [p \in Procs |-> 0]
  /\ cur = [p \in Procs |-> NoDb]
  /\ useOk = [p \in Procs |-> ""]
  /\ acked = {} /\ ackedTables = {} /\ cut = {}
  /\ creates = 0 /\ crashes = 0

Create(p) ==
  \/ \E n \in CreateNames \cup {Sys} : CreateAppend(p, n) \/ CreateAppendFails(p, n)
  \/ CreateCheck(p)
  \/ CreateInsert(p)
  \/ CreateSlog(p)
  \/ CreateSlogFails(p)

Client(s) ==
  \/ \E n \in UseNames : UseLookup(s, n)
  \/ UseSet(s)
  \/ \E n \in DropNames : DropSwitch(s, n)
  \/ DropSet(s)
  \/ DropErase(s)
  \/ CreateTable(s)

Recovery == Startup \/ ReplayClog \/ ReplayClogDone \/ ReplaySlog \/ ReplaySlogDone \/ Serve

Next ==
  \/ \E p \in Procs : Create(p)
  \/ \E s \in Sessions : Client(s)
  \/ Recovery
  \/ Crash

Spec == Init /\ [][Next]_vars

\* The main thread runs start-up to its end: nothing in it waits for another thread.
FairSpec == Spec /\ WF_vars(Recovery) /\ WF_vars(Create(Main))

-----------------------------------------------------------------------------
PCs == {"idle", "check", "insert", "slog", "serve", "use", "dropSet", "drop"}
Recorded == ValuesOf(clog) \cup ValuesOf(slog)

\* Types of the DDL service's state.
TypeOK ==
  /\ clog \in Seq(Names) /\ slog \in Seq(Names) /\ slogTorn \in BOOLEAN
  /\ phase \in {"down", "clog", "slog", "sys", "ready"}
  /\ rpos \in Nat
  /\ nextDb \in Nat \ {0}
  /\ \A i \in DOMAIN databases : i \in 1 .. (nextDb - 1) /\ databases[i] \in Names
  /\ pc \in [Procs -> PCs]
  /\ arg \in [Procs -> Names \cup {""}]
  /\ newId \in [Procs -> Nat]
  /\ cur \in [Procs -> [name : Names \cup {""}, id : Nat]]
  /\ acked \subseteq [name : Names, id : Nat]
  /\ cut \subseteq {"clog", "slog"}

\* Write-ahead: a database is in the schema only if a log that start-up replays
\* has it, at every point of create_database, of recovery and after a crash.
WalFirst == ValuesOf(databases) \subseteq Recorded

\* A CREATE DATABASE that reported success is in the schema whenever the server
\* serves clients, over crashes at any point, until a DROP DATABASE of that name:
\* it takes an entry lost from each of the two logs to lose a database.
AckedSurvive ==
  phase = "ready" /\ cut # {"clog", "slog"} =>
    \A a \in acked : a.name \in ValuesOf(databases)

\* Database names are unique (ObDDLOperator: "Conflict check: return error if
\* database already exists").
UniqueNames ==
  \A i, j \in DOMAIN databases : databases[i] = databases[j] => i = j

\* A database has, whenever clients are served, the id it was created with: table
\* schemas and baseline blocks refer to databases by id.
IdsStable ==
  phase = "ready" =>
    \A a \in acked : a.id \in DOMAIN databases /\ databases[a.id] = a.name

\* The sys database is never dropped (dev.txt: sys is protected).
SysProtected == [][phase = "ready" /\ Exists(Sys) /\ phase' = "ready" => Exists(Sys)']_vars

\* A CREATE TABLE that reported success is still there after a restart
\* (ob_schema_service.h: CREATE DATABASE/TABLE go through the CLOG first).
TablesSurvive == phase = "ready" => Cardinality(DOMAIN tables) = Cardinality(ackedTables)

\* A USE that reported success has switched the session to the database it named
\* (UseDatabaseExecutor: "Check if the switch succeeded").
UseSwitches == \A s \in Sessions : useOk[s] # "" => cur[s].name = useOk[s]

\* Start-up always gets to serving clients, however often it crashed before.
RestartServes == phase = "down" ~> phase = "ready"
=============================================================================
