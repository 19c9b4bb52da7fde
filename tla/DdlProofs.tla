----------------------------- MODULE DdlProofs -----------------------------
(***************************************************************************)
(* The schema never holds a database that start-up could not replay, and   *)
(* an acknowledged CREATE DATABASE survives crashes unless both logs have  *)
(* lost an entry: for any number of sessions, names and crashes.  With one *)
(* session that creates, names are unique and ids survive replay.          *)
(***************************************************************************)
EXTENDS MCDdl, FiniteSetTheorems, TLAPS

\* A thread that runs create_database past its append has logged its name, and the
\* id it was given is its own: ids are not given twice between two start-ups.
ThreadInv ==
  \A p \in Procs :
    /\ pc[p] \in {"check", "insert", "slog"} => arg[p] \in ValuesOf(clog)
    /\ pc[p] = "slog" =>
         /\ newId[p] < nextDb
         /\ newId[p] \in DOMAIN databases => databases[newId[p]] = arg[p]

\* Nobody but the main thread works before clients are served, and the main
\* thread not before the replay is over.
StartInv ==
  /\ phase # "ready" => \A s \in Sessions : pc[s] = "idle"
  /\ phase # "sys" => pc[Main] = "idle"
  /\ pc[Main] \in {"idle", "check", "insert", "slog", "serve"}

\* Each log has every acknowledged name, unless it has lost an entry.
LogsInv ==
  /\ "clog" \notin cut => \A a \in acked : a.name \in ValuesOf(clog)
  /\ "slog" \notin cut => \A a \in acked : a.name \in ValuesOf(slog)
  /\ slogTorn => "slog" \in cut

\* What the replay has applied is in the schema.
ReplayInv ==
  /\ phase = "clog" => \A k \in 1 .. rpos : k \in DOMAIN clog /\ clog[k] \in ValuesOf(databases)
  /\ phase = "slog" =>
       /\ ValuesOf(clog) \subseteq ValuesOf(databases)
       /\ \A k \in 1 .. rpos : k \in DOMAIN slog /\ slog[k] \in ValuesOf(databases)
  /\ phase = "down" => rpos = 0
  /\ phase \in {"sys", "ready"} /\ cut # {"clog", "slog"} =>
       \A a \in acked : a.name \in ValuesOf(databases)

DdlInv == TypeOK /\ WalFirst /\ ThreadInv /\ StartInv /\ LogsInv /\ ReplayInv
-----------------------------------------------------------------------------
\* Inserting a database adds its name and an id that was not in use.
LEMMA InsertFacts ==
  ASSUME TypeOK, NEW n
  PROVE  /\ DOMAIN Inserted(n) = DOMAIN databases \cup {nextDb}
         /\ nextDb \notin DOMAIN databases
         /\ Inserted(n)[nextDb] = n
         /\ \A i \in DOMAIN databases : Inserted(n)[i] = databases[i]
         /\ ValuesOf(Inserted(n)) = ValuesOf(databases) \cup {n}
<1>1. nextDb \notin DOMAIN databases
  <2>1. nextDb \in Nat /\ \A i \in DOMAIN databases : i \in 1 .. (nextDb - 1)
    BY Zenon DEF TypeOK
  <2>2. nextDb \notin 1 .. (nextDb - 1)
    BY <2>1
  <2>. QED
    BY <2>1, <2>2
<1>2. DOMAIN Inserted(n) = DOMAIN databases \cup {nextDb}
  BY DEF Inserted
<1>3. Inserted(n)[nextDb] = n /\ \A i \in DOMAIN databases : Inserted(n)[i] = databases[i]
  BY <1>1 DEF Inserted
<1>4. ValuesOf(Inserted(n)) = ValuesOf(databases) \cup {n}
  BY <1>1, <1>2, <1>3 DEF ValuesOf
<1>. QED
  BY <1>1, <1>2, <1>3, <1>4

LEMMA SessionNames == Sessions \subseteq Procs /\ Main \in Procs /\ Main \notin Sessions
  BY DdlConstants, Zenon DEF Procs

\* What a sequence holds, and what it holds after one more entry.
LEMMA AppendRange ==
  ASSUME NEW S, NEW q \in Seq(S), NEW e \in S
  PROVE  /\ Append(q, e) \in Seq(S)
         /\ ValuesOf(Append(q, e)) = ValuesOf(q) \cup {e}
<1>1. /\ Append(q, e) \in Seq(S)
      /\ Len(Append(q, e)) = Len(q) + 1
      /\ \A i \in 1 .. Len(q) : Append(q, e)[i] = q[i]
      /\ Append(q, e)[Len(q) + 1] = e
  OBVIOUS
<1>2. DOMAIN Append(q, e) = DOMAIN q \cup {Len(q) + 1} /\ DOMAIN q = 1 .. Len(q) /\ Len(q) \in Nat
  BY <1>1
<1>. QED
  BY <1>1, <1>2 DEF ValuesOf

\* Steps that leave the logs, the replay and the schema alone.
LEMMA SameLogs ==
  ASSUME DdlInv, UNCHANGED <<clog, slog, slogTorn, phase, rpos, databases, acked, cut>>
  PROVE  WalFirst' /\ LogsInv' /\ ReplayInv'
<1>r. /\ ValuesOf(clog)' = ValuesOf(clog) /\ ValuesOf(slog)' = ValuesOf(slog)
      /\ ValuesOf(databases)' = ValuesOf(databases)
  BY DEF ValuesOf
<1>1. WalFirst'
  BY <1>r DEF DdlInv, WalFirst, Recorded
<1>2. LogsInv'
  BY <1>r DEF DdlInv, LogsInv
<1>3. ReplayInv'
  BY <1>r DEF DdlInv, ReplayInv
<1>. QED
  BY <1>1, <1>2, <1>3

\* Threads that move outside create_database.
LEMMA OtherThreads ==
  ASSUME DdlInv, UNCHANGED <<clog, databases, nextDb>>,
         \A q \in Procs : \/ pc'[q] = pc[q] /\ arg'[q] = arg[q] /\ newId'[q] = newId[q]
                         \/ pc'[q] \notin {"check", "insert", "slog"}
  PROVE  ThreadInv'
<1>1. ValuesOf(clog)' = ValuesOf(clog)
  BY DEF ValuesOf
<1>. SUFFICES ASSUME NEW q \in Procs
              PROVE  /\ pc'[q] \in {"check", "insert", "slog"} => arg'[q] \in ValuesOf(clog)
                     /\ pc'[q] = "slog" =>
                          /\ newId'[q] < nextDb
                          /\ newId'[q] \in DOMAIN databases => databases[newId'[q]] = arg'[q]
  BY <1>1 DEF ThreadInv
<1>2. CASE pc'[q] = pc[q] /\ arg'[q] = arg[q] /\ newId'[q] = newId[q]
  BY <1>2 DEF DdlInv, ThreadInv
<1>3. CASE pc'[q] \notin {"check", "insert", "slog"}
  BY <1>3
<1>. QED
  BY <1>2, <1>3

-----------------------------------------------------------------------------
(* One lemma per action *)

LEMMA CreateAppendStep ==
  ASSUME DdlInv, NEW p \in Procs, NEW n \in CreateNames \cup {Sys}, CreateAppend(p, n)
  PROVE  DdlInv'
<1>n. n \in Names
  BY DEF Names
<1>0. clog' \in Seq(Names) /\ ValuesOf(clog') = ValuesOf(clog) \cup {n}
  <2>1. clog \in Seq(Names)
    BY Zenon DEF DdlInv, TypeOK
  <2>2. clog' = Append(clog, n)
    BY DEF CreateAppend
  <2>. QED
    BY <1>n, <2>1, <2>2, AppendRange
<1>1. TypeOK'
  BY <1>n, <1>0, Zenon DEF DdlInv, TypeOK, CreateAppend, schema, ValuesOf, PCs
<1>2. WalFirst'
  <2>1. ValuesOf(databases)' = ValuesOf(databases) /\ ValuesOf(slog)' = ValuesOf(slog)
    BY DEF CreateAppend, schema, ValuesOf
  <2>. QED
    BY <1>0, <2>1 DEF DdlInv, WalFirst, Recorded
<1>3. ThreadInv'
  BY <1>0, Zenon DEF DdlInv, TypeOK, ThreadInv, CreateAppend, schema
<1>4. StartInv'
  BY SessionNames, Zenon DEF DdlInv, TypeOK, StartInv, CreateAppend, MayCall
<1>5. LogsInv'
  BY <1>0, Zenon DEF DdlInv, LogsInv, CreateAppend, ValuesOf
<1>6. ReplayInv'
  <2>1. phase \in {"sys", "ready"} /\ phase' = phase /\ acked' = acked /\ cut' = cut
        /\ databases' = databases
    BY DEF CreateAppend, MayCall, schema
  <2>. QED
    BY <2>1 DEF DdlInv, ReplayInv, ValuesOf
<1>. QED
  BY <1>1, <1>2, <1>3, <1>4, <1>5, <1>6 DEF DdlInv

LEMMA CreateAppendFailsStep ==
  ASSUME DdlInv, NEW p \in Procs, NEW n \in CreateNames \cup {Sys}, CreateAppendFails(p, n)
  PROVE  DdlInv'
<1>n. n \in Names
  BY DEF Names
<1>1. TypeOK'
  BY <1>n, Zenon DEF DdlInv, TypeOK, CreateAppendFails, Return, logs, schema, history, ValuesOf, PCs
<1>2. WalFirst'
  BY DEF DdlInv, WalFirst, CreateAppendFails, logs, schema, Recorded, ValuesOf
<1>3. ThreadInv'
  <2>1. \A q \in Procs : \/ pc'[q] = pc[q] /\ arg'[q] = arg[q] /\ newId'[q] = newId[q]
                        \/ pc'[q] \notin {"check", "insert", "slog"}
    BY Zenon DEF DdlInv, TypeOK, CreateAppendFails, Return
  <2>. QED
    BY <2>1, OtherThreads DEF CreateAppendFails, logs, schema
<1>4. StartInv'
  BY SessionNames, Zenon DEF DdlInv, TypeOK, StartInv, CreateAppendFails, Return, MayCall
<1>5. LogsInv'
  BY DEF DdlInv, LogsInv, CreateAppendFails, logs, history, ValuesOf
<1>6. ReplayInv'
  BY DEF DdlInv, ReplayInv, CreateAppendFails, ValuesOf, logs, schema, history
<1>. QED
  BY <1>1, <1>2, <1>3, <1>4, <1>5, <1>6 DEF DdlInv

LEMMA CreateCheckStep ==
  ASSUME DdlInv, NEW p \in Procs, CreateCheck(p)
  PROVE  DdlInv'
<1>1. TypeOK'
  BY Zenon DEF DdlInv, TypeOK, CreateCheck, Return, logs, schema, history, ValuesOf, PCs
<1>2. WalFirst'
  BY DEF DdlInv, WalFirst, CreateCheck, logs, schema, Recorded, ValuesOf
<1>3. ThreadInv'
  <2>1. pc' \in [Procs -> PCs] /\ \A q \in Procs : pc'[q] # pc[q] => q = p /\ pc'[q] # "slog"
    BY Zenon DEF DdlInv, TypeOK, CreateCheck, Return, PCs
  <2>2. pc[p] = "check" /\ arg' = arg /\ newId' = newId /\ clog' = clog /\ databases' = databases /\ nextDb' = nextDb
    BY DEF CreateCheck, logs, schema
  <2>. QED
    BY <2>1, <2>2 DEF DdlInv, ThreadInv, ValuesOf
<1>4. StartInv'
  BY SessionNames, Zenon DEF DdlInv, TypeOK, StartInv, CreateCheck, Return
<1>5. LogsInv'
  BY DEF DdlInv, LogsInv, CreateCheck, logs, history, ValuesOf
<1>6. ReplayInv'
  BY DEF DdlInv, ReplayInv, CreateCheck, ValuesOf, logs, schema, history
<1>. QED
  BY <1>1, <1>2, <1>3, <1>4, <1>5, <1>6 DEF DdlInv

LEMMA CreateInsertStep ==
  ASSUME DdlInv, NEW p \in Procs, CreateInsert(p)
  PROVE  DdlInv'
<1>0. /\ nextDb \notin DOMAIN databases
      /\ DOMAIN databases' = DOMAIN databases \cup {nextDb}
      /\ databases'[nextDb] = arg[p]
      /\ \A i \in DOMAIN databases : databases'[i] = databases[i]
      /\ ValuesOf(databases') = ValuesOf(databases) \cup {arg[p]}
  BY InsertFacts, Zenon DEF DdlInv, CreateInsert
<1>a. arg[p] \in ValuesOf(clog) /\ arg[p] \in Names
  <2>1. arg[p] \in ValuesOf(clog) /\ clog \in Seq(Names)
    BY Zenon DEF DdlInv, TypeOK, ThreadInv, CreateInsert
  <2>. QED
    BY <2>1 DEF ValuesOf
<1>1. TypeOK'
  <2>1. nextDb' \in Nat \ {0} /\ nextDb' = nextDb + 1 /\ nextDb \in Nat \ {0}
    <3>1. nextDb \in Nat \ {0} /\ nextDb' = nextDb + 1
      BY Zenon DEF DdlInv, TypeOK, CreateInsert
    <3>. QED
      BY <3>1
  <2>2. \A i \in DOMAIN databases' : i \in 1 .. (nextDb' - 1) /\ databases'[i] \in Names
    <3>1. \A i \in DOMAIN databases : i \in 1 .. (nextDb - 1) /\ databases[i] \in Names
      BY Zenon DEF DdlInv, TypeOK
    <3>2. nextDb \in 1 .. (nextDb' - 1) /\ \A i \in 1 .. (nextDb - 1) : i \in 1 .. (nextDb' - 1)
      BY <2>1
    <3>. QED
      BY <1>0, <1>a, <3>1, <3>2
  <2>3. newId' \in [Procs -> Nat] /\ pc' \in [Procs -> PCs]
    BY <2>1, Zenon DEF DdlInv, TypeOK, CreateInsert, PCs
  <2>. QED
    BY <2>1, <2>2, <2>3, Zenon DEF DdlInv, TypeOK, CreateInsert, logs, history
<1>2. WalFirst'
  BY <1>0, <1>a DEF DdlInv, WalFirst, CreateInsert, logs, Recorded, ValuesOf
<1>3. ThreadInv'
  <2>1. pc' = [pc EXCEPT ![p] = "slog"] /\ newId' = [newId EXCEPT ![p] = nextDb] /\ arg' = arg /\ clog' = clog
    BY DEF CreateInsert, logs
  <2>2. pc \in [Procs -> PCs] /\ newId \in [Procs -> Nat] /\ nextDb \in Nat /\ nextDb' = nextDb + 1
    BY Zenon DEF DdlInv, TypeOK, CreateInsert
  <2>3. SUFFICES ASSUME NEW q \in Procs
                 PROVE  /\ pc'[q] \in {"check", "insert", "slog"} => arg'[q] \in ValuesOf(clog')
                        /\ pc'[q] = "slog" =>
                             /\ newId'[q] < nextDb'
                             /\ newId'[q] \in DOMAIN databases' => databases'[newId'[q]] = arg'[q]
    BY DEF ThreadInv, ValuesOf
  <2>4. CASE q = p
    BY <1>0, <1>a, <2>1, <2>2, <2>4 DEF ValuesOf
  <2>5. CASE q # p
    <3>1. pc'[q] = pc[q] /\ newId'[q] = newId[q] /\ newId[q] \in Nat
      BY <2>1, <2>2, <2>5
    <3>2. newId[q] < nextDb => newId[q] # nextDb /\ newId[q] < nextDb'
      BY <2>2, <3>1
    <3>. QED
      BY <1>0, <2>1, <3>1, <3>2 DEF DdlInv, ThreadInv, ValuesOf
  <2>. QED
    BY <2>4, <2>5
<1>4. StartInv'
  BY SessionNames, Zenon DEF DdlInv, TypeOK, StartInv, CreateInsert
<1>5. LogsInv'
  BY DEF DdlInv, LogsInv, CreateInsert, logs, history, ValuesOf
<1>6. ReplayInv'
  BY <1>0 DEF DdlInv, ReplayInv, CreateInsert, logs, history, ValuesOf
<1>. QED
  BY <1>1, <1>2, <1>3, <1>4, <1>5, <1>6 DEF DdlInv
\* The three ends of create_database have this in common: the thread returns, and
\* its name is acknowledged if the database is still there.
LEMMA AcknowledgeFacts ==
  ASSUME DdlInv, NEW p \in Procs, pc[p] = "slog", Acknowledge(p)
  PROVE  /\ acked' \subseteq [name : Names, id : Nat]
         /\ arg[p] \in ValuesOf(clog)
         /\ \A a \in acked' : a \in acked \/ (a.name = arg[p] /\ arg[p] \in ValuesOf(databases))
<1>1. arg[p] \in ValuesOf(clog) /\ clog \in Seq(Names) /\ newId[p] \in Nat
  BY Zenon DEF DdlInv, TypeOK, ThreadInv
<1>2. arg[p] \in Names
  BY <1>1 DEF ValuesOf
<1>3. newId[p] \in DOMAIN databases => arg[p] \in ValuesOf(databases)
  BY DEF DdlInv, ThreadInv, ValuesOf
<1>4. acked' = acked \cup {[name |-> arg[p], id |-> i] : i \in {newId[p]} \cap DOMAIN databases}
  BY DEF Acknowledge
<1>5. acked \subseteq [name : Names, id : Nat]
  BY Zenon DEF DdlInv, TypeOK
<1>. QED
  BY <1>1, <1>2, <1>3, <1>4, <1>5

\* A thread that returns is outside create_database.
LEMMA ReturnFacts ==
  ASSUME DdlInv, NEW p \in Procs, pc[p] \in {"idle", "check", "slog"}, Return(p),
         UNCHANGED <<phase, arg, newId, databases, nextDb, clog>>, 
         p \in Sessions => phase = "ready",  p = Main => phase = "sys"
  PROVE  pc' \in [Procs -> PCs] /\ ThreadInv' /\ StartInv'
<1>1. pc' \in [Procs -> PCs]
  BY Zenon DEF DdlInv, TypeOK, Return, PCs
<1>2. \A q \in Procs : pc'[q] = pc[q] \/ (q = p /\ pc'[q] \in {"idle", "serve"})
  BY Zenon DEF DdlInv, TypeOK, Return
<1>3. ThreadInv'
  BY <1>2 DEF DdlInv, ThreadInv, ValuesOf
<1>4. StartInv'
  BY <1>2, SessionNames, Zenon DEF DdlInv, TypeOK, StartInv, Return
<1>. QED
  BY <1>1, <1>3, <1>4

\* Who is inside create_database: sessions when clients are served, and the main
\* thread before.
LEMMA InCreate ==
  ASSUME DdlInv, NEW p \in Procs, pc[p] # "idle"
  PROVE  (p \in Sessions => phase = "ready") /\ (p = Main => phase = "sys")
  BY DEF DdlInv, StartInv

LEMMA CreateSlogStep ==
  ASSUME DdlInv, NEW p \in Procs, CreateSlog(p)
  PROVE  DdlInv'
<1>0. /\ acked' \subseteq [name : Names, id : Nat]
      /\ arg[p] \in ValuesOf(clog)
      /\ \A a \in acked' : a \in acked \/ (a.name = arg[p] /\ arg[p] \in ValuesOf(databases))
  BY AcknowledgeFacts DEF CreateSlog
<1>s. clog \in Seq(Names) /\ slog \in Seq(Names)
  BY Zenon DEF DdlInv, TypeOK
<1>a. arg[p] \in Names
  BY <1>0, <1>s DEF ValuesOf
<1>b. slog' \in Seq(Names) /\ ValuesOf(slog) \subseteq ValuesOf(slog') /\ (~slogTorn => arg[p] \in ValuesOf(slog'))
  <2>1. CASE slogTorn
    BY <1>s, <2>1 DEF CreateSlog
  <2>2. CASE ~slogTorn
    <3>1. slog' = Append(slog, arg[p])
      BY <2>2 DEF CreateSlog
    <3>. QED
      BY <1>s, <1>a, <3>1, AppendRange
  <2>. QED
    BY <2>1, <2>2
<1>c. pc' \in [Procs -> PCs] /\ ThreadInv' /\ StartInv'
  BY ReturnFacts, InCreate DEF CreateSlog, schema
<1>1. TypeOK'
  BY <1>0, <1>b, <1>c, Zenon DEF DdlInv, TypeOK, CreateSlog, schema, PCs
<1>2. WalFirst'
  <2>1. ValuesOf(databases)' = ValuesOf(databases) /\ ValuesOf(clog)' = ValuesOf(clog) /\ ValuesOf(slog)' = ValuesOf(slog')
    BY DEF CreateSlog, schema, ValuesOf
  <2>. QED
    BY <1>b, <2>1 DEF DdlInv, WalFirst, Recorded
<1>5. LogsInv'
  <2>1. cut' = cut /\ slogTorn' = slogTorn /\ ValuesOf(clog)' = ValuesOf(clog) /\ ValuesOf(slog)' = ValuesOf(slog')
    BY DEF CreateSlog, ValuesOf
  <2>. QED
    BY <1>0, <1>b, <2>1 DEF DdlInv, LogsInv
<1>6. ReplayInv'
  <2>1. phase' = phase /\ cut' = cut /\ databases' = databases /\ pc[p] = "slog"
    BY DEF CreateSlog, schema
  <2>2. phase \in {"sys", "ready"}
    BY <2>1, InCreate DEF Procs
  <2>. QED
    BY <1>0, <2>1, <2>2 DEF DdlInv, ReplayInv, ValuesOf
<1>. QED
  BY <1>1, <1>2, <1>c, <1>5, <1>6 DEF DdlInv

LEMMA CreateSlogFailsStep ==
  ASSUME DdlInv, NEW p \in Procs, CreateSlogFails(p)
  PROVE  DdlInv'
<1>0. /\ acked' \subseteq [name : Names, id : Nat]
      /\ arg[p] \in ValuesOf(clog)
      /\ \A a \in acked' : a \in acked \/ (a.name = arg[p] /\ arg[p] \in ValuesOf(databases))
  BY AcknowledgeFacts DEF CreateSlogFails
<1>c. pc' \in [Procs -> PCs] /\ ThreadInv' /\ StartInv'
  BY ReturnFacts, InCreate DEF CreateSlogFails, schema
<1>1. TypeOK'
  <2>1. slogTorn' \in BOOLEAN /\ cut' \subseteq {"clog", "slog"}
    BY Zenon DEF DdlInv, TypeOK, CreateSlogFails
  <2>. QED
    BY <1>0, <1>c, <2>1, Zenon DEF DdlInv, TypeOK, CreateSlogFails, schema
<1>2. WalFirst'
  <2>1. /\ ValuesOf(clog)' = ValuesOf(clog) /\ ValuesOf(slog)' = ValuesOf(slog)
        /\ ValuesOf(databases)' = ValuesOf(databases)
    BY DEF CreateSlogFails, schema, ValuesOf
  <2>. QED
    BY <2>1 DEF DdlInv, WalFirst, Recorded
<1>5. LogsInv'
  <2>1. cut' = cut \cup {"slog"} /\ ValuesOf(clog)' = ValuesOf(clog)
    BY DEF CreateSlogFails, ValuesOf
  <2>. QED
    BY <1>0, <2>1 DEF DdlInv, LogsInv
<1>6. ReplayInv'
  <2>1. phase' = phase /\ cut' = cut \cup {"slog"} /\ cut \subseteq {"clog", "slog"} /\ databases' = databases /\ pc[p] = "slog"
    BY Zenon DEF DdlInv, TypeOK, CreateSlogFails, schema
  <2>2. phase \in {"sys", "ready"}
    BY <2>1, InCreate DEF Procs
  <2>3. cut' # {"clog", "slog"} => cut # {"clog", "slog"}
    BY <2>1
  <2>. QED
    BY <1>0, <2>1, <2>2, <2>3 DEF DdlInv, ReplayInv, ValuesOf
<1>. QED
  BY <1>1, <1>2, <1>c, <1>5, <1>6 DEF DdlInv
\* Database ids are numbers.
LEMMA IdNat ==
  ASSUME DdlInv
  PROVE  \A i \in DOMAIN databases : i \in Nat
<1>1. nextDb \in Nat /\ \A i \in DOMAIN databases : i \in 1 .. (nextDb - 1)
  BY Zenon DEF DdlInv, TypeOK
<1>. QED
  BY <1>1

\* A lookup moves the session on and leaves it an id of the schema, or its old one.
LEMMA LookupFacts ==
  ASSUME DdlInv, NEW s \in Procs, NEW n, NEW next, Lookup(s, n, next)
  PROVE  /\ pc' = [pc EXCEPT ![s] = next.found] \/ pc' = [pc EXCEPT ![s] = next.missing]
         /\ \E i \in Nat : newId' = [newId EXCEPT ![s] = i]
<1>1. \E i \in Nat : newId' = [newId EXCEPT ![s] = i]
  <2>1. newId[s] \in Nat /\ newId = [newId EXCEPT ![s] = newId[s]]
    BY Zenon DEF DdlInv, TypeOK
  <2>. QED
    BY <2>1, IdNat DEF Lookup
<1>2. pc' = [pc EXCEPT ![s] = next.found] \/ pc' = [pc EXCEPT ![s] = next.missing]
  BY DEF Lookup
<1>. QED
  BY <1>1, <1>2, Zenon

LEMMA UseStep ==
  ASSUME DdlInv, NEW s \in Sessions, NEW n \in Names, UseLookup(s, n) \/ UseSet(s)
  PROVE  DdlInv'
<1>0. /\ UNCHANGED <<clog, slog, slogTorn, phase, rpos, databases, nextDb, acked, cut>>
      /\ pc[s] \in {"idle", "use"}
      /\ phase = "ready"
  BY SessionNames, Zenon DEF UseLookup, UseSet, logs, schema, DdlInv, StartInv
<1>s. s \in Procs /\ s # Main
  BY SessionNames
<1>n. n \in Names
  BY DEF Names
<1>m. /\ \E x \in {"idle", "use"} : pc' = [pc EXCEPT ![s] = x]
      /\ \E i \in Nat : newId' = [newId EXCEPT ![s] = i]
      /\ \E a : arg' = [arg EXCEPT ![s] = a]
  <2>1. CASE UseLookup(s, n)
    <3>1. Lookup(s, n, [found |-> "use", missing |-> "idle"]) /\ arg' = [arg EXCEPT ![s] = n]
      BY <2>1, Zenon DEF UseLookup
    <3>2. /\ pc' = [pc EXCEPT ![s] = "use"] \/ pc' = [pc EXCEPT ![s] = "idle"]
          /\ \E i \in Nat : newId' = [newId EXCEPT ![s] = i]
      <4>. DEFINE nx == [found |-> "use", missing |-> "idle"]
      <4>1. nx.found = "use" /\ nx.missing = "idle"
        OBVIOUS
      <4>2. Lookup(s, n, nx)
        BY <3>1
      <4>. HIDE DEF nx
      <4>. QED
        BY <1>s, <4>1, <4>2, LookupFacts
    <3>. QED
      BY <3>1, <3>2, Zenon
  <2>2. CASE UseSet(s)
    <3>1. newId[s] \in Nat /\ newId = [newId EXCEPT ![s] = newId[s]] /\ arg = [arg EXCEPT ![s] = arg[s]]
      BY <1>s, Zenon DEF DdlInv, TypeOK
    <3>. QED
      BY <2>2, <3>1, Zenon DEF UseSet
  <2>. QED
    BY <2>1, <2>2
<1>1. /\ pc' \in [Procs -> PCs]
      /\ \A q \in Procs :
           \/ pc'[q] = pc[q] /\ arg'[q] = arg[q] /\ newId'[q] = newId[q]
           \/ q = s /\ pc'[q] \in {"idle", "use"}
  <2>1. PICK x \in {"idle", "use"} : pc' = [pc EXCEPT ![s] = x]
    BY <1>m, Zenon
  <2>2. PICK i \in Nat : newId' = [newId EXCEPT ![s] = i]
    BY <1>m, Zenon
  <2>3. PICK a : arg' = [arg EXCEPT ![s] = a]
    BY <1>m, Zenon
  <2>4. pc \in [Procs -> PCs] /\ newId \in [Procs -> Nat] /\ arg \in [Procs -> Names \cup {""}]
    BY Zenon DEF DdlInv, TypeOK
  <2>5. x \in PCs
    BY <2>1 DEF PCs
  <2>6. \A q \in Procs : q # s => pc'[q] = pc[q] /\ arg'[q] = arg[q] /\ newId'[q] = newId[q]
    BY <2>1, <2>2, <2>3, <2>4, Zenon
  <2>7. pc'[s] = x /\ pc' \in [Procs -> PCs]
    BY <1>s, <2>1, <2>4, <2>5, Zenon
  <2>. QED
    BY <2>1, <2>6, <2>7
<1>2. newId' \in [Procs -> Nat]
  BY <1>m, ZenonT(40) DEF DdlInv, TypeOK
<1>3. arg' \in [Procs -> Names \cup {""}]
  BY <1>s, <1>n, Zenon DEF DdlInv, TypeOK, UseLookup, UseSet
<1>4. cur' \in [Procs -> [name : Names \cup {""}, id : Nat]]
  <2>1. CASE UseLookup(s, n)
    BY <2>1, Zenon DEF DdlInv, TypeOK, UseLookup
  <2>2. CASE UseSet(s)
    <3>0. arg[s] \in Names \cup {""}
      BY <1>s, Zenon DEF DdlInv, TypeOK
    <3>1. newId[s] \in Nat
      BY <1>s, Zenon DEF DdlInv, TypeOK
    <3>2. PICK i \in ReadThrough(s) : cur' = [cur EXCEPT ![s] = [name |-> arg[s], id |-> i]]
      BY <2>2, Zenon DEF UseSet, SetCurrent
    <3>3. i \in Nat
      <4>1. i = newId[s] \/ i = 0
        BY <3>2 DEF ReadThrough
      <4>. QED
        BY <3>1, <4>1, SMTT(90)
    <3>. QED
      BY <3>0, <3>2, <3>3, Zenon DEF DdlInv, TypeOK
  <2>. QED
    BY <2>1, <2>2, Zenon
<1>5. TypeOK'
  BY <1>0, <1>1, <1>2, <1>3, <1>4, Zenon DEF DdlInv, TypeOK
<1>6. ThreadInv'
  BY <1>0, <1>1, OtherThreads, Zenon
<1>7. StartInv'
  BY <1>0, <1>1, <1>s, SessionNames, Zenon DEF DdlInv, StartInv
<1>8. WalFirst' /\ LogsInv' /\ ReplayInv'
  BY <1>0, SameLogs, Zenon
<1>. QED
  BY <1>5, <1>6, <1>7, <1>8 DEF DdlInv

LEMMA DropSwitchStep ==
  ASSUME DdlInv, NEW s \in Sessions, NEW n \in Names, DropSwitch(s, n) \/ DropSet(s)
  PROVE  DdlInv'
<1>0. /\ UNCHANGED <<clog, slog, slogTorn, phase, rpos, databases, nextDb, acked, cut>>
      /\ phase = "ready"
  BY SessionNames, Zenon DEF DropSwitch, DropSet, logs, schema, history, DdlInv, StartInv
<1>s. s \in Procs /\ s # Main
  BY SessionNames
<1>n. n \in Names /\ Sys \in Names
  BY DEF Names
<1>m. /\ \E x \in {"drop", "dropSet"} : pc' = [pc EXCEPT ![s] = x]
      /\ \E i \in Nat : newId' = [newId EXCEPT ![s] = i]
      /\ \E a : arg' = [arg EXCEPT ![s] = a]
  <2>0. newId[s] \in Nat /\ newId = [newId EXCEPT ![s] = newId[s]] /\ arg = [arg EXCEPT ![s] = arg[s]]
    BY <1>s, Zenon DEF DdlInv, TypeOK
  <2>1. CASE DropSwitch(s, n) /\ cur[s].name = n
    <3>1. Lookup(s, Sys, [found |-> "dropSet", missing |-> "drop"]) /\ arg' = [arg EXCEPT ![s] = n]
      BY <2>1 DEF DropSwitch
    <3>2. /\ pc' = [pc EXCEPT ![s] = "dropSet"] \/ pc' = [pc EXCEPT ![s] = "drop"]
          /\ \E i \in Nat : newId' = [newId EXCEPT ![s] = i]
      <4>. DEFINE nx == [found |-> "dropSet", missing |-> "drop"]
      <4>1. nx.found = "dropSet" /\ nx.missing = "drop"
        OBVIOUS
      <4>2. Lookup(s, Sys, nx)
        BY <3>1
      <4>. HIDE DEF nx
      <4>. QED
        BY <1>s, <4>1, <4>2, LookupFacts
    <3>. QED
      BY <3>1, <3>2, Zenon
  <2>2. CASE DropSwitch(s, n) /\ cur[s].name # n
    BY <2>0, <2>2, Zenon DEF DropSwitch
  <2>3. CASE DropSet(s)
    BY <2>0, <2>3, Zenon DEF DropSet
  <2>. QED
    BY <2>1, <2>2, <2>3
<1>1. /\ pc' \in [Procs -> PCs]
      /\ \A q \in Procs :
           \/ pc'[q] = pc[q] /\ arg'[q] = arg[q] /\ newId'[q] = newId[q]
           \/ q = s /\ pc'[q] \in {"drop", "dropSet"}
  <2>1. PICK x \in {"drop", "dropSet"} : pc' = [pc EXCEPT ![s] = x]
    BY <1>m, Zenon
  <2>2. PICK i \in Nat : newId' = [newId EXCEPT ![s] = i]
    BY <1>m, Zenon
  <2>3. PICK a : arg' = [arg EXCEPT ![s] = a]
    BY <1>m, Zenon
  <2>4. pc \in [Procs -> PCs] /\ newId \in [Procs -> Nat] /\ arg \in [Procs -> Names \cup {""}]
    BY Zenon DEF DdlInv, TypeOK
  <2>5. x \in PCs
    BY <2>1 DEF PCs
  <2>6. \A q \in Procs : q # s => pc'[q] = pc[q] /\ arg'[q] = arg[q] /\ newId'[q] = newId[q]
    BY <2>1, <2>2, <2>3, <2>4, Zenon
  <2>7. pc'[s] = x /\ pc' \in [Procs -> PCs]
    BY <1>s, <2>1, <2>4, <2>5, Zenon
  <2>. QED
    BY <2>1, <2>6, <2>7
<1>2. newId' \in [Procs -> Nat]
  BY <1>m, ZenonT(40) DEF DdlInv, TypeOK
<1>3. arg' \in [Procs -> Names \cup {""}]
  BY <1>s, <1>n, Zenon DEF DdlInv, TypeOK, DropSwitch, DropSet
<1>4. cur' \in [Procs -> [name : Names \cup {""}, id : Nat]]
  <2>1. CASE DropSwitch(s, n)
    BY <2>1, Zenon DEF DdlInv, TypeOK, DropSwitch
  <2>2. CASE DropSet(s)
    <3>1. newId[s] \in Nat
      BY <1>s, Zenon DEF DdlInv, TypeOK
    <3>2. PICK i \in ReadThrough(s) : cur' = [cur EXCEPT ![s] = [name |-> Sys, id |-> i]]
      BY <2>2, Zenon DEF DropSet, SetCurrent
    <3>3. i \in Nat
      <4>1. i = newId[s] \/ i = 0
        BY <3>2 DEF ReadThrough
      <4>. QED
        BY <3>1, <4>1
    <3>. QED
      BY <1>n, <3>2, <3>3, Zenon DEF DdlInv, TypeOK
  <2>. QED
    BY <2>1, <2>2, Zenon
<1>5. TypeOK'
  BY <1>0, <1>1, <1>2, <1>3, <1>4, Zenon DEF DdlInv, TypeOK
<1>6. ThreadInv'
  BY <1>0, <1>1, OtherThreads, Zenon
<1>7. StartInv'
  BY <1>0, <1>1, <1>s, SessionNames DEF DdlInv, StartInv
<1>8. WalFirst' /\ LogsInv' /\ ReplayInv'
  BY <1>0, SameLogs
<1>. QED
  BY <1>5, <1>6, <1>7, <1>8 DEF DdlInv

\* drop_database takes one entry of its name; no other name is touched.
LEMMA DropEraseStep ==
  ASSUME DdlInv, NEW s \in Sessions, DropErase(s)
  PROVE  DdlInv'
<1>s. s \in Procs /\ s # Main
  BY SessionNames
<1>0. /\ UNCHANGED <<clog, slog, slogTorn, phase, rpos, nextDb, arg, newId, cur, cut>>
      /\ acked' = {a \in acked : a.name # arg[s]}
      /\ pc' = [pc EXCEPT ![s] = "idle"]
      /\ phase = "ready"
  BY <1>s DEF DropErase, logs, DdlInv, StartInv
<1>1. /\ DOMAIN databases' \subseteq DOMAIN databases
      /\ \A i \in DOMAIN databases' : databases'[i] = databases[i]
      /\ \A i \in DOMAIN databases : databases[i] # arg[s] => i \in DOMAIN databases'
  BY Zenon DEF DropErase
<1>2. TypeOK'
  <2>1. \A i \in DOMAIN databases' : i \in 1 .. (nextDb - 1) /\ databases'[i] \in Names
    BY <1>1, Zenon DEF DdlInv, TypeOK
  <2>2. pc' \in [Procs -> PCs]
    BY <1>0, Zenon DEF DdlInv, TypeOK, PCs
  <2>. QED
    BY <1>0, <2>1, <2>2, Zenon DEF DdlInv, TypeOK
<1>3. WalFirst'
  BY <1>0, <1>1 DEF DdlInv, WalFirst, Recorded, ValuesOf
<1>4. ThreadInv'
  <2>1. \A q \in Procs : pc'[q] = pc[q] \/ pc'[q] = "idle"
    BY <1>0, Zenon DEF DdlInv, TypeOK
  <2>. QED
    BY <1>0, <1>1, <2>1 DEF DdlInv, ThreadInv, ValuesOf
<1>5. StartInv'
  BY <1>0, <1>s, SessionNames, Zenon DEF DdlInv, TypeOK, StartInv
<1>6. LogsInv'
  BY <1>0 DEF DdlInv, LogsInv, ValuesOf
<1>7. ReplayInv'
  <2>1. \A a \in acked' : a \in acked /\ a.name # arg[s]
    BY <1>0
  <2>2. \A x \in ValuesOf(databases) : x # arg[s] => x \in ValuesOf(databases')
    BY <1>1 DEF ValuesOf
  <2>3. ValuesOf(databases)' = ValuesOf(databases')
    BY DEF ValuesOf
  <2>. QED
    BY <1>0, <2>1, <2>2, <2>3 DEF DdlInv, ReplayInv
<1>. QED
  BY <1>2, <1>3, <1>4, <1>5, <1>6, <1>7 DEF DdlInv

LEMMA CreateTableStep ==
  ASSUME DdlInv, NEW s \in Sessions, CreateTable(s)
  PROVE  DdlInv'
<1>0. UNCHANGED <<clog, slog, slogTorn, phase, rpos, databases, nextDb, pc, arg, newId, cur, acked, cut>>
  BY DEF CreateTable, logs, threads
<1>1. TypeOK'
  BY <1>0, Zenon DEF DdlInv, TypeOK
<1>2. ThreadInv' /\ StartInv'
  BY <1>0 DEF DdlInv, ThreadInv, StartInv, ValuesOf
<1>3. WalFirst' /\ LogsInv' /\ ReplayInv'
  BY <1>0, SameLogs
<1>. QED
  BY <1>1, <1>2, <1>3, Zenon DEF DdlInv
-----------------------------------------------------------------------------
(* Crash and start-up *)

\* Whatever a crash does to the logs, start-up begins with an empty schema.
LEMMA CrashStep ==
  ASSUME DdlInv, Crash
  PROVE  DdlInv'
<1>0. /\ phase' = "down" /\ rpos' = 0 /\ nextDb' = 1
      /\ DOMAIN databases' = {}
      /\ \A q \in Procs : pc'[q] = "idle"
      /\ slog' = slog /\ acked' = acked
  BY Zenon DEF Crash
<1>1. /\ clog' \in Seq(Names) /\ slogTorn' \in BOOLEAN /\ cut' \subseteq {"clog", "slog"}
      /\ clog' = clog \/ "clog" \in cut'
      /\ slogTorn' => "slog" \in cut'
      /\ cut \subseteq cut'
  <2>0. /\ clog \in Seq(Names) /\ slogTorn \in BOOLEAN /\ cut \subseteq {"clog", "slog"}
        /\ slogTorn => "slog" \in cut
    BY Zenon DEF DdlInv, TypeOK, LogsInv
  <2>1. CASE PowerFailure
    <3>1. PICK k \in 0 .. Len(clog) : clog' = SubSeq(clog, 1, k)
      BY <2>1 DEF PowerFailure
    <3>2. clog' \in Seq(Names)
      BY <2>0, <3>1
    <3>3. slogTorn' \in BOOLEAN
      BY <2>0, <2>1, Zenon DEF PowerFailure
    <3>4. cut' = cut \cup (IF clog' = clog THEN {} ELSE {"clog"})
                     \cup (IF slogTorn' = slogTorn THEN {} ELSE {"slog"})
      BY <2>1 DEF PowerFailure
    <3>. QED
      BY <2>0, <3>2, <3>3, <3>4
  <2>2. CASE UNCHANGED <<clog, slogTorn, cut>>
    BY <2>0, <2>2
  <2>. QED
    BY <2>1, <2>2, Zenon DEF Crash
<1>2. TypeOK'
  <2>1. /\ pc' \in [Procs -> PCs] /\ arg' \in [Procs -> Names \cup {""}]
        /\ newId' \in [Procs -> Nat]
    BY Zenon DEF Crash, PCs
  <2>2. cur' \in [Procs -> [name : Names \cup {""}, id : Nat]]
    BY Zenon DEF Crash, NoDb
  <2>3. rpos' \in Nat /\ nextDb' \in Nat \ {0} /\ \A i \in DOMAIN databases' : i \in 1 .. (nextDb' - 1) /\ databases'[i] \in Names
    BY <1>0
  <2>4. slog' \in Seq(Names) /\ acked' \subseteq [name : Names, id : Nat] /\ phase' = "down"
    BY <1>0, Zenon DEF DdlInv, TypeOK
  <2>. QED
    BY <1>1, <2>1, <2>2, <2>3, <2>4, Zenon DEF TypeOK
<1>3. WalFirst' /\ ThreadInv' /\ StartInv'
  BY <1>0, SessionNames DEF WalFirst, ThreadInv, StartInv, Recorded, ValuesOf
<1>4. LogsInv'
  <2>1. ValuesOf(clog)' = ValuesOf(clog') /\ ValuesOf(slog)' = ValuesOf(slog)
    BY <1>0 DEF ValuesOf
  <2>. QED
    BY <1>0, <1>1, <2>1 DEF DdlInv, LogsInv
<1>5. ReplayInv'
  BY <1>0 DEF ReplayInv
<1>. QED
  BY <1>2, <1>3, <1>4, <1>5 DEF DdlInv

\* One replayed entry: its name is in the schema afterwards, and all that were.
LEMMA ReplayFacts ==
  ASSUME DdlInv, NEW n \in Names, n \in Recorded, ReplayCreate(n), UNCHANGED <<clog, slog>>
  PROVE  /\ ValuesOf(databases') = ValuesOf(databases) \cup {n}
         /\ nextDb' \in Nat \ {0}
         /\ \A i \in DOMAIN databases' : i \in 1 .. (nextDb' - 1) /\ databases'[i] \in Names
         /\ WalFirst'
<1>t. nextDb \in Nat \ {0} /\ \A i \in DOMAIN databases : i \in 1 .. (nextDb - 1) /\ databases[i] \in Names
  BY Zenon DEF DdlInv, TypeOK
<1>w. ValuesOf(databases') = ValuesOf(databases) \cup {n} => WalFirst'
  BY DEF DdlInv, WalFirst, Recorded, ValuesOf
<1>1. CASE Exists(n)
  <2>1. databases' = databases /\ nextDb' = nextDb /\ n \in ValuesOf(databases)
    BY <1>1 DEF ReplayCreate, Exists
  <2>. QED
    BY <1>t, <1>w, <2>1
<1>2. CASE ~Exists(n)
  <2>1. databases' = Inserted(n) /\ nextDb' = nextDb + 1
    BY <1>2 DEF ReplayCreate
  <2>2. /\ DOMAIN databases' = DOMAIN databases \cup {nextDb}
        /\ databases'[nextDb] = n
        /\ \A i \in DOMAIN databases : databases'[i] = databases[i]
        /\ ValuesOf(databases') = ValuesOf(databases) \cup {n}
    BY <2>1, InsertFacts DEF DdlInv
  <2>3. nextDb' \in Nat \ {0} /\ nextDb \in 1 .. (nextDb' - 1)
        /\ \A i \in 1 .. (nextDb - 1) : i \in 1 .. (nextDb' - 1)
    BY <1>t, <2>1
  <2>. QED
    BY <1>t, <1>w, <2>2, <2>3, Zenon
<1>. QED
  BY <1>1, <1>2

LEMMA ReplayStep ==
  ASSUME DdlInv, ReplayClog \/ ReplaySlog
  PROVE  DdlInv'
<1>0. /\ UNCHANGED <<clog, slog, slogTorn, phase, pc, arg, newId, cur, acked, cut>>
      /\ rpos' = rpos + 1 /\ phase \in {"clog", "slog"}
  BY DEF ReplayClog, ReplaySlog, logs, threads, history
<1>p. \A q \in Procs : pc[q] = "idle"
  BY <1>0 DEF DdlInv, StartInv, Procs
<1>s. clog \in Seq(Names) /\ slog \in Seq(Names) /\ rpos \in Nat
  BY Zenon DEF DdlInv, TypeOK
<1>. DEFINE log == IF phase = "clog" THEN clog ELSE slog
            n == log[rpos + 1]
<1>1. rpos < Len(log) /\ ReplayCreate(n) /\ log \in Seq(Names)
  BY <1>0, <1>s DEF ReplayClog, ReplaySlog
<1>2. rpos + 1 \in 1 .. Len(log) /\ DOMAIN log = 1 .. Len(log) /\ rpos + 1 \in DOMAIN log
  BY <1>s, <1>1
<1>3. n \in Names /\ n \in Recorded
  <2>1. n \in Names /\ n \in ValuesOf(log)
    BY <1>1, <1>2 DEF ValuesOf
  <2>2. ValuesOf(log) \subseteq Recorded
    BY DEF Recorded
  <2>. QED
    BY <2>1, <2>2, Zenon
<1>4. /\ ValuesOf(databases') = ValuesOf(databases) \cup {n}
      /\ nextDb' \in Nat \ {0}
      /\ \A i \in DOMAIN databases' : i \in 1 .. (nextDb' - 1) /\ databases'[i] \in Names
      /\ WalFirst'
  <2>. HIDE DEF n
  <2>. QED
    BY <1>0, <1>1, <1>3, ReplayFacts, Zenon
<1>5. TypeOK'
  <2>1. rpos' \in Nat
    BY <1>0, <1>s
  <2>. QED
    BY <1>0, <1>4, <2>1, Zenon DEF DdlInv, TypeOK
<1>6. ThreadInv' /\ StartInv' /\ LogsInv'
  <2>1. ThreadInv'
    BY <1>0, <1>p DEF ThreadInv
  <2>2. StartInv'
    BY <1>0 DEF DdlInv, StartInv
  <2>3. LogsInv'
    BY <1>0 DEF DdlInv, LogsInv, ValuesOf
  <2>. QED
    BY <2>1, <2>2, <2>3, Zenon
<1>7. ReplayInv'
  <2>1. ValuesOf(databases)' = ValuesOf(databases) \cup {n}
    BY <1>4 DEF ValuesOf
  <2>2. \A k \in 1 .. rpos' : k \in 1 .. rpos \/ k = rpos + 1
    BY <1>0, <1>s
  <2>3. CASE phase = "clog"
    <3>1. \A k \in 1 .. rpos : k \in DOMAIN clog /\ clog[k] \in ValuesOf(databases)
      BY <2>3 DEF DdlInv, ReplayInv
    <3>2. rpos + 1 \in DOMAIN clog /\ n = clog[rpos + 1]
      BY <1>2, <2>3
    <3>3. \A k \in 1 .. rpos' : k \in DOMAIN clog /\ clog[k] \in ValuesOf(databases)'
      BY <2>1, <2>2, <3>1, <3>2
    <3>. QED
      BY <1>0, <2>3, <3>3 DEF ReplayInv
  <2>4. CASE phase = "slog"
    <3>1. \A k \in 1 .. rpos : k \in DOMAIN slog /\ slog[k] \in ValuesOf(databases)
      BY <2>4 DEF DdlInv, ReplayInv
    <3>2. rpos + 1 \in DOMAIN slog /\ n = slog[rpos + 1]
      BY <1>2, <2>4
    <3>3. \A k \in 1 .. rpos' : k \in DOMAIN slog /\ slog[k] \in ValuesOf(databases)'
      BY <2>1, <2>2, <3>1, <3>2
    <3>4. ValuesOf(clog) \subseteq ValuesOf(databases)' /\ ValuesOf(clog)' = ValuesOf(clog)
      BY <1>0, <2>1, <2>4 DEF DdlInv, ReplayInv, ValuesOf
    <3>. QED
      BY <1>0, <2>4, <3>3, <3>4 DEF ReplayInv
  <2>. QED
    BY <1>0, <2>3, <2>4
<1>. QED
  BY <1>4, <1>5, <1>6, <1>7 DEF DdlInv

\* Start-up moves on: from one replay to the next, to creating sys, to serving.
LEMMA PhaseStep ==
  ASSUME DdlInv, Startup \/ ReplayClogDone \/ ReplaySlogDone
  PROVE  DdlInv'
<1>0. UNCHANGED <<clog, slog, slogTorn, databases, nextDb, pc, arg, newId, cur, acked, cut>>
  BY DEF Startup, ReplayClogDone, ReplaySlogDone, logs, schema, threads, history
<1>s. clog \in Seq(Names) /\ slog \in Seq(Names) /\ rpos \in Nat
  BY Zenon DEF DdlInv, TypeOK
<1>1. TypeOK'
  <2>1. rpos' \in Nat /\ phase' \in {"clog", "slog", "sys"}
    BY <1>s DEF Startup, ReplayClogDone, ReplaySlogDone
  <2>. QED
    BY <1>0, <2>1, Zenon DEF DdlInv, TypeOK
<1>2. WalFirst' /\ ThreadInv' /\ LogsInv'
  <2>1. WalFirst'
    <3>1. Recorded' = Recorded /\ ValuesOf(databases)' = ValuesOf(databases)
      BY <1>0 DEF Recorded, ValuesOf
    <3>. QED
      BY <3>1, Zenon DEF DdlInv, WalFirst
  <2>2. ThreadInv'
    <3>1. \A p \in Procs : pc'[p] = pc[p] /\ arg'[p] = arg[p] /\ newId'[p] = newId[p]
      BY <1>0
    <3>2. ValuesOf(clog)' = ValuesOf(clog) /\ databases' = databases /\ nextDb' = nextDb
      BY <1>0 DEF ValuesOf
    <3>. QED
      BY <3>1, <3>2 DEF DdlInv, ThreadInv
  <2>3. LogsInv'
    BY <1>0, Zenon DEF DdlInv, LogsInv, ValuesOf
  <2>. QED
    BY <2>1, <2>2, <2>3, Zenon
<1>3. StartInv'
  BY <1>0 DEF DdlInv, StartInv, Startup, ReplayClogDone, ReplaySlogDone
<1>r. ValuesOf(databases)' = ValuesOf(databases) /\ ValuesOf(clog)' = ValuesOf(clog)
  BY <1>0 DEF ValuesOf
<1>4. ReplayInv'
  <2>1. CASE Startup
    <3>1. phase' = "clog" /\ rpos' = 0
      BY <2>1 DEF Startup, DdlInv, ReplayInv
    <3>2. \A k \in 1 .. rpos' : FALSE
      BY <3>1
    <3>. QED
      BY <3>1, <3>2 DEF ReplayInv
  <2>2. CASE ReplayClogDone
    <3>1. phase = "clog" /\ rpos = Len(clog) /\ phase' = "slog" /\ rpos' = 0
      BY <2>2 DEF ReplayClogDone
    <3>2. \A k \in 1 .. rpos' : FALSE
      BY <3>1
    <3>3. \A k \in DOMAIN clog : clog[k] \in ValuesOf(databases)
      <4>1. DOMAIN clog = 1 .. rpos
        BY <1>s, <3>1
      <4>. QED
        BY <3>1, <4>1 DEF DdlInv, ReplayInv
    <3>4. ValuesOf(clog) \subseteq ValuesOf(databases)
      BY <3>3 DEF ValuesOf
    <3>. QED
      BY <1>r, <3>1, <3>2, <3>4 DEF ReplayInv
  <2>3. CASE ReplaySlogDone
    <3>1. phase = "slog" /\ rpos = Len(slog) /\ phase' = "sys"
      BY <2>3 DEF ReplaySlogDone
    <3>2. \A k \in DOMAIN slog : slog[k] \in ValuesOf(databases)
      <4>1. DOMAIN slog = 1 .. rpos
        BY <1>s, <3>1
      <4>. QED
        BY <3>1, <4>1 DEF DdlInv, ReplayInv
    <3>3. ValuesOf(slog) \subseteq ValuesOf(databases) /\ ValuesOf(clog) \subseteq ValuesOf(databases)
      BY <3>1, <3>2 DEF ValuesOf, DdlInv, ReplayInv
    <3>4. cut # {"clog", "slog"} => "clog" \notin cut \/ "slog" \notin cut
      BY Zenon DEF DdlInv, TypeOK
    <3>5. cut # {"clog", "slog"} => \A a \in acked : a.name \in ValuesOf(databases)
      BY <3>3, <3>4 DEF DdlInv, LogsInv
    <3>. QED
      BY <1>0, <1>r, <3>1, <3>5 DEF ReplayInv
  <2>. QED
    BY <2>1, <2>2, <2>3
<1>. QED
  BY <1>1, <1>2, <1>3, <1>4 DEF DdlInv

LEMMA ServeStep ==
  ASSUME DdlInv, Serve
  PROVE  DdlInv'
<1>0. /\ UNCHANGED <<clog, slog, slogTorn, rpos, databases, nextDb, arg, newId, acked, cut>>
      /\ phase = "sys" /\ phase' = "ready"
      /\ pc' = [pc EXCEPT ![Main] = "idle"]
  BY DEF Serve, logs, schema, history
<1>1. /\ pc' \in [Procs -> PCs] /\ pc'[Main] = "idle"
      /\ \A q \in Procs : pc'[q] = pc[q] \/ pc'[q] = "idle"
  BY <1>0, SessionNames, Zenon DEF DdlInv, TypeOK, PCs
<1>2. cur' \in [Procs -> [name : Names \cup {""}, id : Nat]]
  <2>1. Sys \in Names
    BY DEF Names
  <2>2. CASE Exists(Sys)
    <3>1. PICK i \in DOMAIN databases : cur' = [p \in Procs |-> [name |-> Sys, id |-> i]]
      BY <2>2 DEF Serve
    <3>2. i \in Nat
      BY IdNat, Zenon
    <3>. QED
      BY <2>1, <3>1, <3>2, Zenon
  <2>3. CASE ~Exists(Sys)
    BY <2>3, Zenon DEF Serve, DdlInv, TypeOK
  <2>. QED
    BY <2>2, <2>3, Zenon
<1>3. TypeOK'
  BY <1>0, <1>1, <1>2, Zenon DEF DdlInv, TypeOK
<1>r. /\ ValuesOf(clog)' = ValuesOf(clog) /\ ValuesOf(slog)' = ValuesOf(slog)
      /\ ValuesOf(databases)' = ValuesOf(databases)
  BY <1>0 DEF ValuesOf
<1>4. WalFirst' /\ LogsInv' /\ ReplayInv'
  <2>1. WalFirst'
    BY <1>r DEF DdlInv, WalFirst, Recorded
  <2>2. LogsInv'
    BY <1>0, <1>r, Zenon DEF DdlInv, LogsInv
  <2>3. ReplayInv'
    BY <1>0, <1>r DEF DdlInv, ReplayInv
  <2>. QED
    BY <2>1, <2>2, <2>3
<1>5. ThreadInv' /\ StartInv'
  BY <1>0, <1>1 DEF DdlInv, ThreadInv, StartInv, ValuesOf
<1>. QED
  BY <1>3, <1>4, <1>5 DEF DdlInv

-----------------------------------------------------------------------------
\* The invariant holds in every state the service reaches.
THEOREM DdlInvariant == Spec => []DdlInv
<1>1. Init => DdlInv
  <2>. SUFFICES ASSUME Init PROVE DdlInv
    OBVIOUS
  <2>0. /\ clog = <<>> /\ slog = <<>> /\ slogTorn = FALSE /\ phase = "down" /\ rpos = 0
        /\ DOMAIN databases = {} /\ nextDb = 1 /\ acked = {} /\ cut = {}
        /\ \A q \in Procs : pc[q] = "idle"
    BY Zenon DEF Init
  <2>1. TypeOK
    <3>1. pc \in [Procs -> PCs] /\ arg \in [Procs -> Names \cup {""}] /\ newId \in [Procs -> Nat]
      BY Zenon DEF Init, PCs
    <3>2. cur \in [Procs -> [name : Names \cup {""}, id : Nat]]
      BY Zenon DEF Init, NoDb
    <3>3. clog \in Seq(Names) /\ slog \in Seq(Names)
      BY <2>0
    <3>4. rpos \in Nat /\ nextDb \in Nat \ {0} /\ \A i \in DOMAIN databases : i \in 1 .. (nextDb - 1) /\ databases[i] \in Names
      BY <2>0
    <3>. QED
      BY <2>0, <3>1, <3>2, <3>3, <3>4, Zenon DEF TypeOK
  <2>. QED
    BY <2>0, <2>1, SessionNames, Zenon DEF DdlInv, WalFirst, ThreadInv, StartInv, LogsInv, ReplayInv, Recorded, ValuesOf
<1>2. DdlInv /\ [Next]_vars => DdlInv'
  <2>. SUFFICES ASSUME DdlInv, [Next]_vars PROVE DdlInv'
    OBVIOUS
  <2>1. ASSUME NEW p \in Procs, Create(p) PROVE DdlInv'
    BY <2>1, CreateAppendStep, CreateAppendFailsStep, CreateCheckStep, CreateInsertStep,
       CreateSlogStep, CreateSlogFailsStep DEF Create
  <2>2. ASSUME NEW s \in Sessions, Client(s) PROVE DdlInv'
    <3>0. Sys \in Names /\ UseNames \subseteq Names /\ DropNames \subseteq Names
      BY DEF Names
    <3>1. CASE \E n \in UseNames : UseLookup(s, n)
      BY <3>0, <3>1, UseStep
    <3>2. CASE UseSet(s)
      BY <3>0, <3>2, UseStep
    <3>3. CASE \E n \in DropNames : DropSwitch(s, n)
      BY <3>0, <3>3, DropSwitchStep
    <3>4. CASE DropSet(s)
      BY <3>0, <3>4, DropSwitchStep
    <3>. QED
      BY <2>2, <3>1, <3>2, <3>3, <3>4, DropEraseStep, CreateTableStep DEF Client
  <2>3. CASE Recovery
    BY <2>3, PhaseStep, ReplayStep, ServeStep DEF Recovery
  <2>4. CASE UNCHANGED vars
    <3>1. UNCHANGED <<clog, slog, slogTorn, phase, rpos, databases, nextDb, pc, arg, newId, cur, acked, cut>>
      BY <2>4 DEF vars, logs, schema, threads, history
    <3>2. TypeOK'
      BY <3>1, Zenon DEF DdlInv, TypeOK
    <3>3. WalFirst' /\ LogsInv' /\ ReplayInv'
      BY <3>1, SameLogs, Zenon
    <3>4. ThreadInv' /\ StartInv'
      BY <3>1 DEF DdlInv, ThreadInv, StartInv, ValuesOf
    <3>. QED
      BY <3>2, <3>3, <3>4 DEF DdlInv
  <2>. QED
    BY <2>1, <2>2, <2>3, <2>4, CrashStep DEF Next
<1>. QED
  BY <1>1, <1>2, PTL DEF Spec

\* Types: the DDL service's state keeps its types in every execution.
THEOREM DdlTypes == Spec => []TypeOK
<1>1. DdlInv => TypeOK
  BY DEF DdlInv
<1>. QED
  BY <1>1, DdlInvariant, PTL

\* Write-ahead: create_database appends to the CLOG before it touches the schema, and
\* recovery only inserts what it reads from a log, so the schema is always contained
\* in what a restart would rebuild.
THEOREM WriteAhead == Spec => []WalFirst
<1>1. DdlInv => WalFirst
  BY DEF DdlInv
<1>. QED
  BY <1>1, DdlInvariant, PTL

\* Durability: while clients are served, every acknowledged and undropped database is
\* in the schema, however many sessions, crashes and power failures there were, as
\* long as one of the two logs has not lost an entry.
THEOREM AcknowledgedSurvive == Spec => []AckedSurvive
<1>1. DdlInv => AckedSurvive
  BY DEF DdlInv, ReplayInv, AckedSurvive
<1>. QED
  BY <1>1, DdlInvariant, PTL

-----------------------------------------------------------------------------
(* One session creates databases, nobody drops one, no CLOG entry is lost. *)

\* The names among the first k CLOG entries.
Seen(k) == {clog[j] : j \in 1 .. k}

\* i is the number replay counts for name n: that of the distinct names up to its first entry.
Ranked(n, i) ==
  \E k \in DOMAIN clog : clog[k] = n /\ n \notin Seen(k - 1) /\ i = Cardinality(Seen(k - 1)) + 1

\* The number of CLOG entries the schema reflects: the last one waits for its insertion
\* while its thread checks for, or inserts, the name.
Reflected ==
  IF phase = "clog" THEN rpos
  ELSE IF \E p \in Procs : pc[p] \in {"check", "insert"} THEN Len(clog) - 1 ELSE Len(clog)

\* Only session s1 runs statements, and it drops nothing.
Quiet == (\A s \in Sessions \ {s1} : pc[s] = "idle") /\ pc[s1] \notin {"dropSet", "drop"}

\* The schema holds the names of the reflected entries, and has counted them.
Mirrors ==
  /\ phase = "down" => DOMAIN databases = {} /\ nextDb = 1 /\ rpos = 0
  /\ phase = "clog" => rpos <= Len(clog)
  /\ phase # "down" => ValuesOf(databases) = Seen(Reflected) /\ nextDb = Cardinality(Seen(Reflected)) + 1

\* The entry that waits is the last one.
Pending ==
  \A p \in Procs :
    /\ pc[p] \in {"check", "insert"} => clog # <<>> /\ arg[p] = clog[Len(clog)]
    /\ pc[p] = "insert" => arg[p] \notin ValuesOf(databases)

SlogBehind == ValuesOf(slog) \subseteq ValuesOf(clog)

\* Every id, in the schema or acknowledged, is the one replay counts.
IdsRanked ==
  /\ \A i \in DOMAIN databases : Ranked(databases[i], i)
  /\ \A a \in acked : Ranked(a.name, a.id)

CalmInv == Quiet /\ Mirrors /\ Pending /\ SlogBehind /\ IdsRanked

SceneInv == scene \in {"race", "calm"} /\ (scene = "calm" => CalmInv /\ "clog" \notin cut)

LEMMA ClogLength ==
  ASSUME DdlInv
  PROVE  clog \in Seq(Names) /\ Len(clog) \in Nat /\ DOMAIN clog = 1 .. Len(clog)
<1>1. clog \in Seq(Names)
  BY Zenon DEF DdlInv, TypeOK
<1>. QED
  BY <1>1

LEMMA SeenFacts ==
  ASSUME DdlInv, NEW k \in 0 .. Len(clog)
  PROVE  IsFiniteSet(Seen(k)) /\ Cardinality(Seen(k)) \in Nat
<1>1. Len(clog) \in Nat
  BY ClogLength
<1>2. IsFiniteSet(1 .. k)
  BY <1>1, FS_Interval
<1>3. [j \in 1 .. k |-> clog[j]] \in Surjection(1 .. k, Seen(k))
  BY DEF Surjection, Seen
<1>4. IsFiniteSet(Seen(k))
  BY <1>2, <1>3, FS_Surjection, Zenon DEF ExistsSurjection
<1>. QED
  BY <1>4, FS_CardinalityType

LEMMA SeenNext ==
  ASSUME DdlInv, NEW k \in 0 .. Len(clog) - 1
  PROVE  /\ Seen(k + 1) = Seen(k) \cup {clog[k + 1]}
         /\ Cardinality(Seen(k + 1)) =
              IF clog[k + 1] \in Seen(k) THEN Cardinality(Seen(k)) ELSE Cardinality(Seen(k)) + 1
<1>1. Len(clog) \in Nat
  BY ClogLength
<1>2. k \in Nat /\ k \in 0 .. Len(clog) /\ 1 .. (k + 1) = (1 .. k) \cup {k + 1}
  BY <1>1
<1>3. Seen(k + 1) = Seen(k) \cup {clog[k + 1]}
  BY <1>2 DEF Seen
<1>. QED
  BY <1>2, <1>3, SeenFacts, FS_AddElement, Zenon

LEMMA SeenEnds ==
  ASSUME DdlInv
  PROVE  /\ Seen(Len(clog)) = ValuesOf(clog)
         /\ Seen(0) = {} /\ Cardinality(Seen(0)) = 0
<1>1. DOMAIN clog = 1 .. Len(clog)
  BY ClogLength
<1>2. Seen(Len(clog)) = ValuesOf(clog)
  BY <1>1 DEF Seen, ValuesOf
<1>3. Seen(0) = {}
  BY DEF Seen
<1>. QED
  BY <1>2, <1>3, FS_EmptySet

\* A name has one number.
LEMMA RankedOnce ==
  ASSUME DdlInv, NEW n, NEW i, NEW j, Ranked(n, i), Ranked(n, j)
  PROVE  i = j
<1>1. PICK k \in DOMAIN clog : clog[k] = n /\ n \notin Seen(k - 1) /\ i = Cardinality(Seen(k - 1)) + 1
  BY DEF Ranked
<1>2. PICK l \in DOMAIN clog : clog[l] = n /\ n \notin Seen(l - 1) /\ j = Cardinality(Seen(l - 1)) + 1
  BY DEF Ranked
<1>3. k \in Nat /\ l \in Nat /\ k >= 1 /\ l >= 1
  BY ClogLength
<1>4. ~(k < l)
  BY <1>1, <1>2, <1>3 DEF Seen
<1>5. ~(l < k)
  BY <1>1, <1>2, <1>3 DEF Seen
<1>6. k = l
  BY <1>3, <1>4, <1>5
<1>. QED
  BY <1>1, <1>2, <1>6

\* While the log stays, so do the numbers replay counts.
LEMMA SameRanks == ASSUME clog' = clog PROVE \A m, i : Ranked(m, i)' = Ranked(m, i)
<1>1. \A k : Seen(k)' = Seen(k)
  BY Zenon DEF Seen
<1>. QED
  BY <1>1, Zenon DEF Ranked, Seen

\* The log grows at its end: what its first entries say stays.
LEMMA SeenKept ==
  ASSUME DdlInv, NEW n, clog' = clog \/ clog' = Append(clog, n)
  PROVE  /\ \A k \in 0 .. Len(clog) : Seen(k)' = Seen(k)
         /\ \A m, i : Ranked(m, i) => Ranked(m, i)'
<1>0. DOMAIN clog = 1 .. Len(clog) /\ Len(clog) \in Nat /\ clog \in Seq(Names)
  BY ClogLength
<1>1. /\ DOMAIN clog = 1 .. Len(clog) /\ Len(clog) \in Nat
      /\ \A j \in 1 .. Len(clog) : j \in DOMAIN clog' /\ clog'[j] = clog[j]
  BY <1>0
<1>2. ASSUME NEW k \in 0 .. Len(clog) PROVE Seen(k)' = Seen(k)
  BY <1>1 DEF Seen
<1>3. ASSUME NEW m, NEW i, Ranked(m, i) PROVE Ranked(m, i)'
  <2>1. PICK k \in DOMAIN clog : clog[k] = m /\ m \notin Seen(k - 1) /\ i = Cardinality(Seen(k - 1)) + 1
    BY <1>3 DEF Ranked
  <2>2. k - 1 \in 0 .. Len(clog) /\ k \in DOMAIN clog' /\ clog'[k] = m
    BY <1>1, <2>1
  <2>3. Seen(k - 1)' = Seen(k - 1)
    BY <1>2, <2>2
  <2>. QED
    BY <2>1, <2>2, <2>3 DEF Ranked
<1>. QED
  BY <1>2, <1>3

\* At most one thread is not idle: s1 while clients are served, the main thread before.
LEMMA OneWorks ==
  ASSUME DdlInv, Quiet, NEW p \in Procs, pc[p] # "idle"
  PROVE  /\ (p = s1 /\ p \in Sessions /\ phase = "ready") \/ (p = Main /\ phase = "sys")
         /\ \A q \in Procs \ {p} : pc[q] = "idle"
<1>1. ASSUME NEW q \in Procs, pc[q] # "idle"
      PROVE  (q = s1 /\ q \in Sessions /\ phase = "ready") \/ (q = Main /\ phase = "sys")
  BY <1>1, InCreate DEF Quiet, Procs
<1>. QED
  BY <1>1

\* A step that changes neither the CLOG nor the schema nor who waits with an entry.
LEMMA SameSchema ==
  ASSUME DdlInv, CalmInv, Quiet', phase \notin {"down", "clog"}, phase' \notin {"down", "clog"},
         UNCHANGED <<clog, databases, nextDb>>,
         NEW p, pc[p] \notin {"check", "insert"}, pc'[p] \notin {"check", "insert"},
         \A q \in Procs \ {p} : pc'[q] = pc[q] /\ arg'[q] = arg[q],
         ValuesOf(slog') \subseteq ValuesOf(clog),
         \A a \in acked' : a \in acked \/ Ranked(a.name, a.id)
  PROVE  CalmInv'
<1>0. \A q \in Procs : q = p \/ (pc'[q] = pc[q] /\ arg'[q] = arg[q])
  BY Zenon
<1>1. Reflected' = Reflected
  BY <1>0, Zenon DEF Reflected
<1>2. \A k : Seen(k)' = Seen(k)
  BY Zenon DEF Seen
<1>3. Mirrors'
  BY <1>1, <1>2, SMTT(90) DEF CalmInv, Mirrors, ValuesOf, Seen
<1>4. Pending'
  BY <1>0, Zenon DEF CalmInv, Pending, ValuesOf
<1>5. SlogBehind'
  BY Zenon DEF SlogBehind, ValuesOf
<1>6. \A m, i : Ranked(m, i)' = Ranked(m, i)
  BY SameRanks, Zenon
<1>7. IdsRanked'
  BY <1>6, Zenon DEF CalmInv, IdsRanked
<1>. QED
  BY <1>3, <1>4, <1>5, <1>7, Zenon DEF CalmInv

\* Nobody waits with an entry when a create_database may begin.
LEMMA NobodyWaits ==
  ASSUME DdlInv, Quiet, NEW p \in Procs, pc[p] = "idle",
         (p = s1 /\ phase = "ready") \/ (p = Main /\ phase = "sys")
  PROVE  \A q \in Procs : pc[q] = "idle"
  BY OneWorks, SessionNames DEF DdlInv, StartInv, Procs, Quiet

LEMMA CalmAppend ==
  ASSUME DdlInv, DdlInv', CalmInv, Quiet', NEW p \in Procs, NEW n \in CreateNames \cup {Sys},
         CreateAppend(p, n), p = s1 \/ p = Main
  PROVE  CalmInv'
<1>0. /\ clog' = Append(clog, n) /\ UNCHANGED <<slog, phase, rpos, databases, nextDb, acked>>
      /\ pc' = [pc EXCEPT ![p] = "check"] /\ arg' = [arg EXCEPT ![p] = n] /\ pc[p] = "idle"
      /\ (p \in Sessions /\ phase = "ready") \/ (p = Main /\ phase = "sys")
  BY DEF CreateAppend, MayCall, schema
<1>1. \A q \in Procs : pc[q] = "idle"
  BY <1>0, NobodyWaits, SessionNames, Zenon DEF CalmInv
<1>2. pc'[p] = "check" /\ arg'[p] = n /\ \A q \in Procs \ {p} : pc'[q] = "idle"
  BY <1>0, <1>1, Zenon DEF DdlInv, TypeOK
<1>3. /\ clog \in Seq(Names) /\ Len(clog) \in Nat /\ n \in Names
  BY ClogLength DEF Names
<1>4. Len(clog') = Len(clog) + 1 /\ clog'[Len(clog')] = n /\ clog' # <<>>
  BY <1>0, <1>3
<1>5. Reflected = Len(clog)
  BY <1>0, <1>1 DEF Reflected
<1>6. Reflected' = Len(clog)
  BY <1>0, <1>2, <1>3, <1>4 DEF Reflected
<1>7. \A m, i : Ranked(m, i) => Ranked(m, i)'
  BY <1>0, SeenKept, Zenon
<1>8. Mirrors'
  <2>1. {clog'[j] : j \in 1 .. Len(clog)} = Seen(Len(clog))
    <3>1. \A j \in 1 .. Len(clog) : clog'[j] = clog[j]
      BY <1>0, <1>3
    <3>. QED
      BY <3>1, Zenon DEF Seen
  <2>2. Seen(Reflected)' = Seen(Reflected)
    BY <1>5, <1>6, <2>1, Zenon DEF Seen
  <2>3. ValuesOf(databases)' = ValuesOf(databases)
    BY <1>0 DEF ValuesOf
  <2>. QED
    BY <1>0, <2>2, <2>3, Zenon DEF CalmInv, Mirrors
<1>9. Pending'
  BY <1>2, <1>4, Zenon DEF Pending
<1>10. SlogBehind'
  <2>1. ValuesOf(clog') = ValuesOf(clog) \cup {n}
    BY <1>0, <1>3, AppendRange, SMTT(90)
  <2>. QED
    BY <1>0, <2>1, Zenon DEF CalmInv, SlogBehind, ValuesOf
<1>11. IdsRanked'
  BY <1>0, <1>7, Zenon DEF CalmInv, IdsRanked
<1>. QED
  BY <1>8, <1>9, <1>10, <1>11 DEF CalmInv

\* The name check answers for the reflected entries: all but the one that waits.
LEMMA CalmCheck ==
  ASSUME DdlInv, CalmInv, Quiet', NEW p \in Procs, CreateCheck(p)
  PROVE  CalmInv'
<1>0. /\ pc[p] = "check" /\ UNCHANGED <<clog, slog, phase, rpos, databases, nextDb, arg, acked>>
      /\ phase \notin {"down", "clog"} /\ \A q \in Procs \ {p} : pc[q] = "idle"
  BY OneWorks DEF CreateCheck, logs, schema, history, CalmInv
<1>1. PICK n \in Nat : n = Len(clog) - 1 /\ n + 1 = Len(clog) /\ n \in 0 .. Len(clog) - 1
  <2>1. clog # <<>>
    BY <1>0 DEF CalmInv, Pending
  <2>2. Len(clog) \in Nat /\ Len(clog) > 0
    BY <2>1, ClogLength, SMTT(90)
  <2>. QED
    BY <2>2, SMTT(90)
<1>2. Reflected = n /\ arg[p] = clog[n + 1]
  BY <1>0, <1>1, Zenon DEF Reflected, CalmInv, Pending
<1>3. \A k : Seen(k)' = Seen(k)
  BY <1>0, Zenon DEF Seen
<1>v. ValuesOf(databases)' = ValuesOf(databases) /\ ValuesOf(slog)' = ValuesOf(slog) /\ ValuesOf(clog)' = ValuesOf(clog)
  BY <1>0, Zenon DEF ValuesOf
<1>r. SlogBehind' /\ IdsRanked'
  <2>1. SlogBehind'
    BY <1>v DEF CalmInv, SlogBehind
  <2>2. \A m, i : Ranked(m, i)' = Ranked(m, i)
    BY <1>0, SameRanks, Zenon
  <2>3. IdsRanked'
    BY <1>0, <2>2, Zenon DEF CalmInv, IdsRanked
  <2>. QED
    BY <2>1, <2>3
<1>4. CASE Exists(arg[p])
  <2>1. \A q \in Procs : pc'[q] \notin {"check", "insert"}
    BY <1>0, <1>4, Zenon DEF CreateCheck, Return, DdlInv, TypeOK
  <2>2. Reflected' = n + 1
    BY <1>0, <1>1, <2>1, Zenon DEF Reflected
  <2>3. Seen(n + 1) = Seen(n)
    <3>1. clog[n + 1] \in Seen(n)
      BY <1>0, <1>2, <1>4 DEF CalmInv, Mirrors, Exists
    <3>2. Seen(n + 1) = Seen(n) \cup {clog[n + 1]}
      BY <1>1, SeenNext, Zenon
    <3>. QED
      BY <3>1, <3>2, Zenon
  <2>4. Seen(Reflected)' = Seen(Reflected)
    BY <1>0, <1>2, <2>2, <2>3 DEF Seen
  <2>5. Mirrors'
    BY <1>0, <1>v, <2>4 DEF CalmInv, Mirrors
  <2>6. Pending'
    BY <2>1 DEF Pending
  <2>. QED
    BY <1>r, <2>5, <2>6, Zenon DEF CalmInv
<1>5. CASE ~Exists(arg[p])
  <2>1. pc'[p] = "insert" /\ \A q \in Procs \ {p} : pc'[q] = "idle"
    BY <1>0, <1>5, Zenon DEF CreateCheck, DdlInv, TypeOK
  <2>2. Reflected' = n
    BY <1>0, <1>1, <2>1, Zenon DEF Reflected
  <2>3. Seen(Reflected)' = Seen(Reflected)
    BY <1>0, <1>2, <2>2, Zenon DEF Seen
  <2>4. Mirrors'
    BY <1>0, <1>v, <2>3 DEF CalmInv, Mirrors
  <2>5. Pending'
    BY <1>0, <1>5, <1>v, <2>1, Zenon DEF CalmInv, Pending, Exists
  <2>. QED
    BY <1>r, <2>4, <2>5 DEF CalmInv
<1>. QED
  BY <1>4, <1>5

\* The id given to the name that waits is the one replay will count for it.
LEMMA CalmInsert ==
  ASSUME DdlInv, CalmInv, Quiet', NEW p \in Procs, CreateInsert(p)
  PROVE  CalmInv'
<1>0. /\ pc[p] = "insert" /\ UNCHANGED <<clog, slog, phase, rpos, arg, acked>>
      /\ databases' = Inserted(arg[p]) /\ nextDb' = nextDb + 1
      /\ phase \notin {"down", "clog"} /\ \A q \in Procs \ {p} : pc[q] = "idle"
  BY OneWorks, Zenon DEF CreateInsert, logs, schema, history, CalmInv
<1>1. PICK n \in Nat : n = Len(clog) - 1 /\ n + 1 = Len(clog) /\ n \in 0 .. Len(clog) - 1
  <2>1. clog # <<>>
    BY <1>0, Zenon DEF CalmInv, Pending
  <2>2. Len(clog) \in Nat /\ Len(clog) > 0
    BY <2>1, ClogLength
  <2>. QED
    BY <2>2
<1>2. Reflected = n /\ arg[p] = clog[n + 1] /\ arg[p] \notin ValuesOf(databases)
  BY <1>0, <1>1, Zenon DEF Reflected, CalmInv, Pending
<1>3. \A q \in Procs : pc'[q] \notin {"check", "insert"}
  BY <1>0, Zenon DEF CreateInsert, DdlInv, TypeOK
<1>4. Reflected' = n + 1
  BY <1>0, <1>1, <1>3, Zenon DEF Reflected
<1>5. ValuesOf(databases) = Seen(n) /\ nextDb = Cardinality(Seen(n)) + 1
  BY <1>0, <1>2, Zenon DEF CalmInv, Mirrors
<1>6. Seen(n + 1) = Seen(n) \cup {arg[p]} /\ Cardinality(Seen(n + 1)) = Cardinality(Seen(n)) + 1
  <2>1. clog[n + 1] \notin Seen(n)
    BY <1>2, <1>5
  <2>2. /\ Seen(n + 1) = Seen(n) \cup {clog[n + 1]}
        /\ Cardinality(Seen(n + 1)) =
             IF clog[n + 1] \in Seen(n) THEN Cardinality(Seen(n)) ELSE Cardinality(Seen(n)) + 1
    BY <1>1, SeenNext, Zenon
  <2>. QED
    BY <1>2, <2>1, <2>2, Zenon
<1>7. /\ DOMAIN databases' = DOMAIN databases \cup {nextDb} /\ databases'[nextDb] = arg[p]
      /\ \A i \in DOMAIN databases : databases'[i] = databases[i]
      /\ ValuesOf(databases') = ValuesOf(databases) \cup {arg[p]}
  BY <1>0, InsertFacts, Zenon DEF DdlInv
<1>8. Mirrors'
  <2>1. Seen(Reflected)' = Seen(n + 1)
    BY <1>0, <1>4, Zenon DEF Seen
  <2>2. nextDb' = Cardinality(Seen(n + 1)) + 1
    BY <1>0, <1>5, <1>6, Zenon
  <2>3. ValuesOf(databases)' = Seen(n + 1)
    BY <1>5, <1>6, <1>7, Zenon DEF ValuesOf
  <2>. QED
    BY <1>0, <2>1, <2>2, <2>3, Zenon DEF Mirrors
<1>9. Pending'
  BY <1>3 DEF Pending
<1>10. SlogBehind'
  BY <1>0, ZenonT(60) DEF CalmInv, SlogBehind, ValuesOf
<1>11. Ranked(arg[p], nextDb)
  <2>1. n + 1 \in DOMAIN clog /\ (n + 1) - 1 = n
    BY <1>1, ClogLength
  <2>2. clog[n + 1] = arg[p] /\ arg[p] \notin Seen(n)
    BY <1>2, <1>5, Zenon
  <2>. QED
    BY <1>5, <2>1, <2>2, Zenon DEF Ranked
<1>12. IdsRanked'
  <2>1. \A m, i : Ranked(m, i)' = Ranked(m, i)
    BY <1>0, SameRanks, Zenon
  <2>. QED
    BY <1>0, <1>7, <1>11, <2>1, Zenon DEF CalmInv, IdsRanked
<1>. QED
  BY <1>8, <1>9, <1>10, <1>12, Zenon DEF CalmInv

\* create_database acknowledges the id it was given.
LEMMA CalmSlog ==
  ASSUME DdlInv, CalmInv, Quiet', NEW p \in Procs, CreateSlog(p) \/ CreateSlogFails(p)
  PROVE  CalmInv'
<1>0. /\ pc[p] = "slog" /\ UNCHANGED <<clog, phase, databases, nextDb, arg>> /\ Return(p) /\ Acknowledge(p)
      /\ slog' = slog \/ slog' = Append(slog, arg[p])
  BY Zenon DEF CreateSlog, CreateSlogFails, schema
<1>1. phase \notin {"down", "clog"}
  BY <1>0, OneWorks DEF CalmInv
<1>2. pc'[p] \in {"serve", "idle"} /\ \A q \in Procs \ {p} : pc'[q] = pc[q] /\ arg'[q] = arg[q]
  <2>1. pc \in [Procs -> PCs]
    BY Zenon DEF DdlInv, TypeOK
  <2>. QED
    BY <1>0, <2>1 DEF Return
<1>3. ValuesOf(slog') \subseteq ValuesOf(clog)
  <2>1. arg[p] \in ValuesOf(clog) /\ arg[p] \in Names /\ slog \in Seq(Names)
    <3>1. arg[p] \in ValuesOf(clog)
      BY <1>0, Zenon DEF DdlInv, ThreadInv
    <3>2. ValuesOf(clog) \subseteq Names
      BY ClogLength DEF ValuesOf
    <3>. QED
      BY <3>1, <3>2, Zenon DEF DdlInv, TypeOK
  <2>2. slog' = Append(slog, arg[p]) => ValuesOf(slog') = ValuesOf(slog) \cup {arg[p]}
    BY <2>1, AppendRange, SMTT(90)
  <2>. QED
    BY <1>0, <2>1, <2>2, Zenon DEF CalmInv, SlogBehind
<1>4. ASSUME NEW a \in acked', a \notin acked PROVE Ranked(a.name, a.id)
  <2>1. PICK i \in {newId[p]} \cap DOMAIN databases : a = [name |-> arg[p], id |-> i]
    BY <1>0, <1>4, Zenon DEF Acknowledge
  <2>2. i = newId[p] /\ i \in DOMAIN databases /\ a.name = arg[p] /\ a.id = i
    BY <2>1, Zenon
  <2>3. databases[i] = arg[p]
    BY <1>0, <2>2, Zenon DEF DdlInv, ThreadInv
  <2>4. Ranked(databases[i], i)
    BY <2>2, Zenon DEF CalmInv, IdsRanked
  <2>. QED
    BY <2>2, <2>3, <2>4, Zenon
<1>. QED
  BY <1>0, <1>1, <1>2, <1>3, <1>4, SameSchema, Zenon

LEMMA CalmAppendFails ==
  ASSUME DdlInv, CalmInv, Quiet', NEW p \in Procs, NEW n, CreateAppendFails(p, n)
  PROVE  CalmInv'
<1>0. /\ pc[p] = "idle" /\ UNCHANGED <<clog, slog, phase, databases, nextDb, acked>> /\ Return(p)
      /\ arg' = [arg EXCEPT ![p] = n] /\ phase \notin {"down", "clog"}
  BY DEF CreateAppendFails, MayCall, logs, schema, history
<1>1. pc \in [Procs -> PCs] /\ arg \in [Procs -> Names \cup {""}]
  BY Zenon DEF DdlInv, TypeOK
<1>2. /\ pc'[p] \in {"serve", "idle"}
      /\ \A q \in Procs \ {p} : pc'[q] = pc[q] /\ arg'[q] = arg[q]
  BY <1>0, <1>1, Zenon DEF Return
<1>4. ValuesOf(slog') \subseteq ValuesOf(clog)
  BY <1>0, Zenon DEF CalmInv, SlogBehind
<1>. QED
  BY <1>0, <1>2, <1>4, SameSchema, Zenon

\* USE and CREATE TABLE leave the database schema alone.
LEMMA CalmClient ==
  ASSUME DdlInv, CalmInv, Quiet', NEW s \in Sessions,
         (\E n \in UseNames : UseLookup(s, n)) \/ UseSet(s) \/ CreateTable(s)
  PROVE  CalmInv'
<1>0. /\ pc[s] \in {"idle", "use"}
      /\ UNCHANGED <<clog, slog, phase, databases, nextDb, acked>>
      /\ pc[s] = "idle" => phase = "ready"
  BY Zenon DEF UseLookup, UseSet, CreateTable, logs, schema
<1>s. s \in Procs
  BY SessionNames
<1>1. phase \notin {"down", "clog"}
  BY <1>0, <1>s, OneWorks, SessionNames DEF CalmInv
<1>2. pc \in [Procs -> PCs] /\ arg \in [Procs -> Names \cup {""}]
  BY Zenon DEF DdlInv, TypeOK
<1>3. /\ pc'[s] \in {"idle", "use"}
      /\ \A q \in Procs \ {s} : pc'[q] = pc[q] /\ arg'[q] = arg[q]
  <2>1. ASSUME NEW n, UseLookup(s, n)
        PROVE  /\ pc'[s] \in {"idle", "use"}
               /\ \A q \in Procs \ {s} : pc'[q] = pc[q] /\ arg'[q] = arg[q]
    <3>1. /\ pc' = [pc EXCEPT ![s] = "use"] \/ pc' = [pc EXCEPT ![s] = "idle"]
          /\ arg' = [arg EXCEPT ![s] = n]
      BY <2>1, Zenon DEF UseLookup, Lookup
    <3>. QED
      BY <1>2, <1>s, <3>1, Zenon
  <2>2. CASE UseSet(s)
    BY <1>2, <1>s, <2>2, Zenon DEF UseSet
  <2>3. CASE CreateTable(s)
    BY <1>0, <2>3, Zenon DEF CreateTable, threads
  <2>. QED
    BY <2>1, <2>2, <2>3, Zenon
<1>5. ValuesOf(slog') \subseteq ValuesOf(clog)
  BY <1>0 DEF CalmInv, SlogBehind
<1>. QED
  BY <1>0, <1>1, <1>3, <1>5, SameSchema, Zenon

\* Replaying the CLOG counts what was counted when its entries were written.
LEMMA CalmReplayClog ==
  ASSUME DdlInv, CalmInv, Quiet', ReplayClog
  PROVE  CalmInv'
<1>0. /\ phase = "clog" /\ phase' = "clog" /\ rpos < Len(clog) /\ rpos' = rpos + 1
      /\ UNCHANGED <<clog, slog, pc, arg, acked>> /\ ReplayCreate(clog[rpos + 1])
  BY DEF ReplayClog, logs, threads, history
<1>1. PICK n \in Nat : n = rpos /\ n \in 0 .. Len(clog) - 1 /\ n + 1 \in DOMAIN clog /\ (n + 1) - 1 = n
  <2>1. rpos \in Nat
    BY Zenon DEF DdlInv, TypeOK
  <2>. QED
    BY <1>0, <2>1, ClogLength
<1>2. Reflected = n /\ Reflected' = n + 1
  BY <1>0, <1>1 DEF Reflected
<1>3. ValuesOf(databases) = Seen(n) /\ nextDb = Cardinality(Seen(n)) + 1
  BY <1>0, <1>2 DEF CalmInv, Mirrors
<1>4. /\ Seen(n + 1) = Seen(n) \cup {clog[n + 1]}
      /\ Cardinality(Seen(n + 1)) =
           IF clog[n + 1] \in Seen(n) THEN Cardinality(Seen(n)) ELSE Cardinality(Seen(n)) + 1
  BY <1>1, SeenNext
<1>5. Seen(Reflected)' = Seen(n + 1)
  BY <1>0, <1>2, Zenon DEF Seen
<1>6. Pending' /\ SlogBehind'
  <2>1. \A q \in Procs : pc[q] = "idle"
    BY <1>0 DEF DdlInv, StartInv, Procs
  <2>2. Pending'
    BY <1>0, <2>1 DEF Pending
  <2>3. SlogBehind'
    BY <1>0 DEF CalmInv, SlogBehind, ValuesOf
  <2>. QED
    BY <2>2, <2>3
<1>7. \A m, i : Ranked(m, i)' = Ranked(m, i)
  BY <1>0 DEF Ranked, Seen
<1>8. rpos' <= Len(clog')
  BY <1>0, <1>1, ClogLength
<1>9. CASE Exists(clog[n + 1])
  <2>1. UNCHANGED <<databases, nextDb>> /\ clog[n + 1] \in Seen(n)
    BY <1>0, <1>1, <1>3, <1>9 DEF ReplayCreate, Exists
  <2>2. ValuesOf(databases)' = Seen(n + 1) /\ nextDb' = Cardinality(Seen(n + 1)) + 1
    BY <1>3, <1>4, <2>1 DEF ValuesOf
  <2>3. Mirrors'
    BY <1>0, <1>5, <1>8, <2>2, Zenon DEF Mirrors
  <2>4. IdsRanked'
    BY <1>0, <1>7, <2>1, Zenon DEF CalmInv, IdsRanked
  <2>. QED
    BY <1>6, <2>3, <2>4 DEF CalmInv
<1>10. CASE ~Exists(clog[n + 1])
  <2>1. /\ databases' = Inserted(clog[n + 1]) /\ nextDb' = nextDb + 1 /\ clog[n + 1] \notin Seen(n)
    BY <1>0, <1>1, <1>3, <1>10, Zenon DEF ReplayCreate, Exists
  <2>2. /\ DOMAIN databases' = DOMAIN databases \cup {nextDb} /\ databases'[nextDb] = clog[n + 1]
        /\ \A i \in DOMAIN databases : databases'[i] = databases[i]
        /\ ValuesOf(databases') = ValuesOf(databases) \cup {clog[n + 1]}
    BY <2>1, InsertFacts, Zenon DEF DdlInv
  <2>3. ValuesOf(databases)' = Seen(n + 1)
    BY <1>3, <1>4, <2>2, Zenon DEF ValuesOf
  <2>4. nextDb' = Cardinality(Seen(n + 1)) + 1
    BY <1>3, <1>4, <2>1
  <2>5. Mirrors'
    BY <1>0, <1>5, <1>8, <2>3, <2>4 DEF Mirrors
  <2>6. Ranked(clog[n + 1], nextDb)
    BY <1>1, <1>3, <2>1, Zenon DEF Ranked
  <2>7. IdsRanked'
    BY <1>0, <1>7, <2>2, <2>6, Zenon DEF CalmInv, IdsRanked
  <2>. QED
    BY <1>6, <2>5, <2>7 DEF CalmInv
<1>. QED
  BY <1>9, <1>10

LEMMA CalmPhases ==
  ASSUME DdlInv, CalmInv, Quiet', Startup \/ ReplayClogDone
  PROVE  CalmInv'
<1>0. /\ (phase = "down" /\ phase' = "clog") \/ (phase = "clog" /\ phase' = "slog" /\ rpos = Len(clog))
      /\ UNCHANGED <<clog, slog, databases, nextDb, pc, arg, acked>>
      /\ phase = "down" => rpos' = rpos
  BY DEF Startup, ReplayClogDone, logs, schema, threads, history
<1>1. \A q \in Procs : pc[q] = "idle" /\ pc'[q] = "idle"
  BY <1>0, Zenon DEF DdlInv, StartInv, Procs
<1>2. Pending'
  BY <1>1, Zenon DEF Pending
<1>3. SlogBehind'
  BY <1>0, Zenon DEF CalmInv, SlogBehind, ValuesOf
<1>r. \A m, i : Ranked(m, i)' = Ranked(m, i)
  BY <1>0 DEF Ranked, Seen
<1>4. IdsRanked'
  BY <1>0, <1>r, Zenon DEF CalmInv, IdsRanked
<1>5. Mirrors'
  <2>1. CASE phase = "down"
    <3>1. rpos' = 0 /\ Reflected' = 0 /\ nextDb' = 1 /\ DOMAIN databases' = {}
      BY <1>0, <2>1 DEF Reflected, CalmInv, Mirrors
    <3>2. Seen(Reflected)' = {} /\ Cardinality(Seen(Reflected)') = 0
      BY <3>1, FS_EmptySet DEF Seen
    <3>3. ValuesOf(databases)' = {}
      BY <3>1 DEF ValuesOf
    <3>. QED
      BY <1>0, <2>1, <3>1, <3>2, <3>3, ClogLength DEF Mirrors
  <2>2. CASE phase = "clog"
    <3>1. phase' = "slog" /\ Reflected' = Len(clog) /\ Reflected = Len(clog)
      BY <1>0, <1>1, <2>2 DEF Reflected
    <3>2. Seen(Reflected)' = Seen(Reflected)
      BY <1>0, <3>1 DEF Seen
    <3>3. ValuesOf(databases)' = ValuesOf(databases)
      BY <1>0 DEF ValuesOf
    <3>. QED
      BY <1>0, <2>2, <3>1, <3>2, <3>3 DEF CalmInv, Mirrors
  <2>. QED
    BY <1>0, <2>1, <2>2
<1>. QED
  BY <1>2, <1>3, <1>4, <1>5 DEF CalmInv

\* Replaying the SLOG finds every name there; serving clients changes nothing.
LEMMA CalmServes ==
  ASSUME DdlInv, CalmInv, Quiet', ReplaySlog \/ ReplaySlogDone \/ Serve
  PROVE  CalmInv'
<1>0. /\ phase \in {"slog", "sys"} /\ phase' \in {"slog", "sys", "ready"}
      /\ UNCHANGED <<clog, slog, arg, acked>>
  BY Zenon DEF ReplaySlog, ReplaySlogDone, Serve, logs, threads, history
<1>1. pc[Main] \notin {"check", "insert"} /\ pc'[Main] \notin {"check", "insert"}
  BY SessionNames, Zenon DEF ReplaySlog, ReplaySlogDone, Serve, threads, DdlInv, TypeOK, StartInv
<1>2. \A q \in Procs \ {Main} : pc'[q] = pc[q] /\ arg'[q] = arg[q]
  BY <1>0, Zenon DEF ReplaySlog, ReplaySlogDone, Serve, threads, DdlInv, TypeOK
<1>3. UNCHANGED <<databases, nextDb>>
  <2>1. CASE ReplaySlog
    <3>1. slog[rpos + 1] \in ValuesOf(slog)
      <4>1. slog \in Seq(Names) /\ rpos \in Nat /\ rpos < Len(slog)
        BY <2>1, Zenon DEF DdlInv, TypeOK, ReplaySlog
      <4>. QED
        BY <4>1 DEF ValuesOf
    <3>2. Reflected = Len(clog)
      <4>1. \A q \in Procs : pc[q] = "idle"
        BY <2>1 DEF ReplaySlog, DdlInv, StartInv, Procs
      <4>. QED
        BY <2>1, <4>1 DEF Reflected, ReplaySlog
    <3>3. ValuesOf(databases) = ValuesOf(clog)
      BY <2>1, <3>2, SeenEnds DEF CalmInv, Mirrors, ReplaySlog
    <3>. QED
      BY <2>1, <3>1, <3>3 DEF CalmInv, SlogBehind, ReplaySlog, ReplayCreate, Exists
  <2>. QED
    BY <2>1 DEF ReplaySlogDone, Serve, schema
<1>4. ValuesOf(slog') \subseteq ValuesOf(clog)
  BY <1>0 DEF CalmInv, SlogBehind
<1>. QED
  BY <1>0, <1>1, <1>2, <1>3, <1>4, SameSchema, Zenon

\* A crash that loses no CLOG entry.
LEMMA CalmCrash ==
  ASSUME DdlInv, CalmInv, Quiet', Crash, "clog" \notin cut'
  PROVE  CalmInv'
<1>1. clog' = clog
  BY Zenon DEF Crash, PowerFailure
<1>2. /\ phase' = "down" /\ DOMAIN databases' = {} /\ nextDb' = 1 /\ rpos' = 0
      /\ UNCHANGED <<slog, acked>> /\ pc' = [q \in Procs |-> "idle"]
  BY Zenon DEF Crash
<1>4. Mirrors' /\ Pending'
  BY <1>2 DEF Mirrors, Pending
<1>5. SlogBehind'
  BY <1>1, <1>2, Zenon DEF CalmInv, SlogBehind, ValuesOf
<1>6. IdsRanked'
  <2>1. \A m, i : Ranked(m, i)' = Ranked(m, i)
    BY <1>1 DEF Ranked, Seen
  <2>. QED
    BY <1>2, <2>1, Zenon DEF CalmInv, IdsRanked
<1>. QED
  BY <1>4, <1>5, <1>6, Zenon DEF CalmInv

\* A step of another session shows in the name its statement is about.
LEMMA QuietStep ==
  ASSUME DdlInv, Quiet, Next, scene' = "calm", InScene'
  PROVE  /\ Quiet'
         /\ \/ \E p \in Procs : /\ p = s1 \/ p = Main
                              /\ Create(p)
            \/ \E s \in Sessions : (\E n \in UseNames : UseLookup(s, n)) \/ UseSet(s) \/ CreateTable(s)
            \/ Recovery
            \/ Crash /\ "clog" \notin cut'
<1>0. /\ pc'[s1] \notin {"dropSet", "drop"} /\ "clog" \notin cut'
      /\ \A s \in Sessions \ {s1} : arg'[s] = ""
  BY Zenon DEF InScene
<1>t. pc \in [Procs -> PCs] /\ arg \in [Procs -> Names \cup {""}]
  BY Zenon DEF DdlInv, TypeOK
<1>n. \A n \in CreateNames \cup DropNames \cup UseNames \cup {Sys} : n # ""
  BY DdlConstants, Zenon DEF Sys
<1>1. ASSUME NEW p \in Procs, Create(p) PROVE (p = s1 \/ p = Main) /\ Quiet'
  <2>1. p = s1 \/ p = Main
    <3>1. SUFFICES ASSUME p \in Sessions \ {s1} PROVE FALSE
      BY DEF Procs
    <3>2. pc[p] = "idle"
      BY <3>1, Zenon DEF Quiet
    <3>3. PICK n \in CreateNames \cup {Sys} : arg' = [arg EXCEPT ![p] = n]
      BY <1>1, <3>2, Zenon DEF Create, CreateAppend, CreateAppendFails, CreateCheck, CreateInsert, CreateSlog, CreateSlogFails
    <3>4. arg'[p] = n
      BY <1>t, <3>3, Zenon
    <3>. QED
      BY <1>0, <1>n, <3>1, <3>4, Zenon
  <2>2. \A q \in Procs \ {p} : pc'[q] = pc[q]
    <3>1. PICK c : pc' = [pc EXCEPT ![p] = c]
      BY <1>1, Zenon DEF Create, CreateAppend, CreateAppendFails, CreateCheck, CreateInsert, CreateSlog, CreateSlogFails, Return
    <3>. QED
      BY <1>t, <3>1, Zenon
  <2>3. \A s \in Sessions \ {s1} : s \in Procs \ {p}
    BY <2>1, SessionNames
  <2>. QED
    BY <1>0, <2>1, <2>2, <2>3, Zenon DEF Quiet
<1>2. ASSUME NEW s \in Sessions, Client(s)
      PROVE  /\ Quiet'
             /\ (\E n \in UseNames : UseLookup(s, n)) \/ UseSet(s) \/ CreateTable(s)
  <2>s. s \in Procs
    BY SessionNames
  <2>1. CASE CreateTable(s)
    BY <2>1, Zenon DEF CreateTable, threads, Quiet
  <2>2. CASE ~CreateTable(s)
    <3>1. s = s1
      <4>1. SUFFICES ASSUME s # s1 PROVE FALSE
        OBVIOUS
      <4>2. pc[s] = "idle"
        BY <4>1, Zenon DEF Quiet
      <4>3. PICK n \in DropNames \cup UseNames : arg' = [arg EXCEPT ![s] = n]
        BY <1>2, <2>2, <4>2, Zenon DEF Client, UseLookup, UseSet, DropSwitch, DropSet, DropErase
      <4>4. arg'[s] = n
        BY <1>t, <2>s, <4>3, Zenon
      <4>5. arg'[s] = "" /\ n # ""
        BY <1>0, <1>n, <4>1, Zenon
      <4>. QED
        BY <4>4, <4>5, Zenon
    <3>2. pc[s] \notin {"dropSet", "drop"}
      BY <3>1 DEF Quiet
    <3>3. ASSUME NEW n \in DropNames, DropSwitch(s, n) PROVE FALSE
      <4>1. pc' = [pc EXCEPT ![s] = "dropSet"] \/ pc' = [pc EXCEPT ![s] = "drop"]
        BY <3>3 DEF DropSwitch, Lookup
      <4>2. pc'[s] \in {"dropSet", "drop"}
        BY <1>t, <2>s, <4>1, Zenon
      <4>. QED
        BY <1>0, <3>1, <4>2, Zenon
    <3>4. (\E n \in UseNames : UseLookup(s, n)) \/ UseSet(s)
      BY <1>2, <2>2, <3>2, <3>3, Zenon DEF Client, DropSet, DropErase
    <3>5. PICK c : pc' = [pc EXCEPT ![s] = c]
      BY <3>4, Zenon DEF UseLookup, UseSet, Lookup
    <3>6. \A q \in Sessions \ {s1} : pc'[q] = pc[q]
      BY <1>t, <3>1, <3>5, SessionNames, Zenon
    <3>. QED
      BY <1>0, <3>4, <3>6, Zenon DEF Quiet
  <2>. QED
    BY <2>1, <2>2
<1>3. CASE Recovery
  <2>1. \A q \in Sessions : pc'[q] = pc[q]
    BY <1>3, <1>t, SessionNames, Zenon DEF Recovery, Startup, ReplayClog, ReplayClogDone, ReplaySlog, ReplaySlogDone, Serve, threads
  <2>. QED
    BY <1>0, <1>3, <2>1, Zenon DEF Quiet
<1>4. CASE Crash
  <2>1. \A q \in Sessions : pc'[q] = "idle"
    BY <1>4, SessionNames, Zenon DEF Crash
  <2>. QED
    BY <1>0, <1>4, <2>1, Zenon DEF Quiet
<1>. QED
  BY <1>1, <1>2, <1>3, <1>4 DEF Next

LEMMA CalmStep ==
  ASSUME DdlInv, DdlInv', CalmInv, Next, scene' = "calm", InScene'
  PROVE  CalmInv'
<1>1. Quiet'
  BY QuietStep DEF CalmInv
<1>2. ASSUME NEW p \in Procs, p = s1 \/ p = Main, Create(p) PROVE CalmInv'
  BY <1>1, <1>2, CalmAppend, CalmAppendFails, CalmCheck, CalmInsert, CalmSlog DEF Create
<1>3. ASSUME Recovery PROVE CalmInv'
  BY <1>1, <1>3, CalmPhases, CalmReplayClog, CalmServes DEF Recovery
<1>. QED
  BY <1>1, <1>2, <1>3, CalmClient, CalmCrash, QuietStep DEF CalmInv

\* One session, which drops nothing, creates databases while the server crashes at will
\* and SLOG writes fail: names stay unique, and replaying the two logs gives every
\* acknowledged database the id it was created with, though ObSchemaService only counts
\* the creations: for any names and any number of crashes, and however many other
\* sessions only create tables.
THEOREM CalmServer ==
  ASSUME s1 \in Sessions
  PROVE  MCSpec => []CalmStable
<1>1. MCInit => SceneInv
  <2>. SUFFICES ASSUME MCInit PROVE SceneInv
    OBVIOUS
  <2>0. /\ phase = "down" /\ clog = <<>> /\ slog = <<>> /\ rpos = 0 /\ DOMAIN databases = {} /\ nextDb = 1
        /\ acked = {} /\ cut = {} /\ scene \in {"race", "calm"} /\ pc = [q \in Procs |-> "idle"]
    BY Zenon DEF MCInit, Init
  <2>1. \A q \in Procs : pc[q] = "idle"
    BY <2>0
  <2>2. Quiet /\ Pending
    BY <2>1, SessionNames DEF Quiet, Pending
  <2>3. SlogBehind
    BY <2>0 DEF SlogBehind, ValuesOf
  <2>. QED
    BY <2>0, <2>2, <2>3, Zenon DEF SceneInv, CalmInv, Mirrors, IdsRanked
<1>2. DdlInv /\ DdlInv' /\ SceneInv /\ [MCNext]_<<vars, scene>> => SceneInv'
  <2>. SUFFICES ASSUME DdlInv, DdlInv', SceneInv, [MCNext]_<<vars, scene>> PROVE SceneInv'
    OBVIOUS
  <2>1. CASE MCNext
    <3>1. Next /\ scene' = scene /\ InScene'
      BY <2>1 DEF MCNext
    <3>2. scene = "calm" => CalmInv' /\ "clog" \notin cut'
      BY <3>1, CalmStep, Zenon DEF SceneInv, InScene
    <3>. QED
      BY <3>1, <3>2 DEF SceneInv
  <2>2. CASE UNCHANGED <<vars, scene>>
    <3>1. UNCHANGED <<clog, slog, phase, rpos, databases, nextDb, pc, arg, acked, cut, scene>>
      BY <2>2, Zenon DEF vars, logs, schema, threads, history
    <3>2. CalmInv => CalmInv'
      <4>1. Reflected' = Reflected /\ (\A k : Seen(k)' = Seen(k)) /\ (\A m, i : Ranked(m, i)' = Ranked(m, i))
        <5>1. Reflected' = Reflected
          BY <3>1, Zenon DEF Reflected
        <5>2. \A k : Seen(k)' = Seen(k)
          BY <3>1, Zenon DEF Seen
        <5>3. \A m, i : Ranked(m, i)' = Ranked(m, i)
          BY <3>1, <5>2, Zenon DEF Ranked, Seen
        <5>. QED
          BY <5>1, <5>2, <5>3, Zenon
      <4>2. ValuesOf(databases)' = ValuesOf(databases) /\ ValuesOf(slog)' = ValuesOf(slog) /\ ValuesOf(clog)' = ValuesOf(clog)
        BY <3>1, Zenon DEF ValuesOf
      <4>3. Mirrors => Mirrors'
        BY <3>1, <4>1, <4>2, Zenon DEF Mirrors, Seen
      <4>4. IdsRanked => IdsRanked'
        BY <3>1, <4>1, Zenon DEF IdsRanked
      <4>. QED
        BY <3>1, <4>2, <4>3, <4>4, Zenon DEF CalmInv, Quiet, Pending, SlogBehind
    <3>. QED
      BY <3>1, <3>2 DEF SceneInv
  <2>. QED
    BY <2>1, <2>2
<1>3. DdlInv /\ SceneInv => CalmStable
  <2>. SUFFICES ASSUME DdlInv, CalmInv, "clog" \notin cut PROVE UniqueNames /\ IdsStable
    BY DEF SceneInv, CalmStable
  <2>1. UniqueNames
    <3>. SUFFICES ASSUME NEW i \in DOMAIN databases, NEW j \in DOMAIN databases, databases[i] = databases[j]
                  PROVE  i = j
      BY DEF UniqueNames
    <3>1. Ranked(databases[i], i) /\ Ranked(databases[i], j)
      BY DEF CalmInv, IdsRanked
    <3>. QED
      BY <3>1, RankedOnce
  <2>2. ASSUME phase = "ready", NEW a \in acked
        PROVE  a.id \in DOMAIN databases /\ databases[a.id] = a.name
    <3>1. Ranked(a.name, a.id)
      BY DEF CalmInv, IdsRanked
    <3>2. a.name \in ValuesOf(databases)
      BY <2>2 DEF DdlInv, ReplayInv
    <3>3. PICK i \in DOMAIN databases : databases[i] = a.name
      BY <3>2 DEF ValuesOf
    <3>4. Ranked(a.name, i)
      BY <3>3 DEF CalmInv, IdsRanked
    <3>5. i = a.id
      BY <3>1, <3>4, RankedOnce
    <3>. QED
      BY <3>3, <3>5
  <2>. QED
    BY <2>1, <2>2 DEF IdsStable
<1>4. MCInit => Init
  BY DEF MCInit
<1>5. [MCNext]_<<vars, scene>> => [Next]_vars
  BY DEF MCNext
<1>6. MCSpec => Spec
  BY <1>4, <1>5, PTL DEF MCSpec, Spec
<1>. QED
  BY <1>1, <1>2, <1>3, <1>6, DdlInvariant, PTL DEF MCSpec
=============================================================================
