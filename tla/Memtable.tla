----------------------------- MODULE Memtable -----------------------------
(***************************************************************************)
(* ObMemtable with its MVCC engine, its two indexes and the log it writes. *)
(*                                                                         *)
(* Writers call set and multi_set; a step is what a thread does between    *)
(* two points where another one can get in.  keyhash_ and btree_ are       *)
(* containers without a lock: their look-up and their insertion are two    *)
(* steps.  (That the race may also ruin the container itself is the Crash  *)
(* action.)  A key stands for its 64-bit hash, by which both indexes know  *)
(* it.  An ObMvccRow is named by the write that made it, a version         *)
(* (ObMvccTransNode) by its write and the writer's snapshot.               *)
(* build_tx_node_ commits every node before it is linked, so mvcc_write    *)
(* never meets an undecided or an aborted one.  The log is the one of      *)
(* PalfLog when its entries fit: what was appended is replayed, in order.  *)
(***************************************************************************)
EXTENDS Integers, Sequences, FiniteSets

CONSTANTS
  Writers,          \* threads that call set and multi_set
  Replayer,         \* the thread that recovers the log stream
  Keys,
  Snapshots,        \* snapshot versions a writer may have, besides none
  INVALID_VERSION,  \* OB_INVALID_VERSION: INT64_MAX, above all snapshots
  Batches,          \* sizes of a multi_set; a set is a batch of one
  LogFails,         \* may an append fail?
  Uninit,           \* may the half of key_len that replay leaves unset be non-zero?
  MayFreeze,        \* is set_frozen called?
  MaxOps,           \* bound on the rows written
  MaxCrashes        \* bound on the crashes

ASSUME MemtableConstants ==
  /\ Replayer \notin Writers
  /\ Snapshots \subseteq Nat \ {0}
  /\ INVALID_VERSION \in Nat \ {0}
  /\ \A s \in Snapshots : s < INVALID_VERSION
  /\ Batches \subseteq Nat \ {0}
  /\ MaxOps \in Nat /\ MaxCrashes \in Nat

Procs == Writers \cup {Replayer}
Versions == Snapshots \cup {INVALID_VERSION}
Ids == 1 .. MaxOps
None == 0     \* no row: a null ObMvccRow pointer

VARIABLES
  wal,       \* rows in the log: [key, id]
  phase,     \* "recovering" or "up"
  rpos,      \* number of log entries handed to replay
  frozen,    \* is_frozen_
  maxv,      \* max_trans_version_ of the memtable
  keyhash,   \* keyhash_: the row of each key
  btree,     \* btree_: the row under the hash of each key
  zero,      \* btree_: the row under hash 0
  indexed,   \* rows with F_BTREE_INDEX
  chain,     \* versions of each row, newest first: [id, snap]
  rowMax,    \* max_trans_version_ of each row
  pc, obj, todo, snap,  \* per thread: next step, row, rows it still has to write, snapshot
  done,      \* history: rows a thread has written of its batch
  ops,       \* history: number of ids given out
  crashes,   \* history: number of crashes
  acked,     \* history: rows whose batch returned success
  failed,    \* history: ids of the rows whose batch returned an error
  before     \* history: acked, at the last crash

index == <<keyhash, btree, zero, indexed>>
versions == <<chain, rowMax>>
threads == <<pc, obj, todo, snap, done>>
results == <<acked, failed>>
vars == <<wal, phase, rpos, frozen, maxv, index, versions, threads, ops, crashes, results, before>>

Row(p) == Head(todo[p])
Key(p) == Row(p).key
Goto(p, l) == pc' = [pc EXCEPT ![p] = l]

-----------------------------------------------------------------------------
(* Reads *)

Nodes(r) == {chain[r][i] : i \in DOMAIN chain[r]}

\* get looks the row up in keyhash_ and returns the first node it may see.  All are
\* committed, with version 1: to any snapshot that is the newest.
Readable(k) == IF keyhash[k] = None THEN {} ELSE Nodes(keyhash[k])
Newest(k) == IF Readable(k) = {} THEN 0 ELSE chain[keyhash[k]][1].id

\* scan walks btree_ and returns one version of each row that has one.
ScanHits(k, r) == (IF btree[k] = r THEN 1 ELSE 0) + (IF zero = r THEN 1 ELSE 0)

-----------------------------------------------------------------------------
(* ObMemtable::set and multi_set *)

CallBatch(w, ks, s) ==
  /\ phase = "up" /\ pc[w] = "idle"
  /\ ops + Len(ks) <= MaxOps
  /\ ops' = ops + Len(ks)
  /\ todo' = [todo EXCEPT ![w] = [i \in DOMAIN ks |-> [key |-> ks[i], id |-> ops + i]]]
  /\ done' = [done EXCEPT ![w] = {}]
  /\ snap' = [snap EXCEPT ![w] = s]
  /\ Goto(w, "enter")
  /\ UNCHANGED <<wal, phase, rpos, frozen, maxv, index, versions, obj, crashes, results, before>>

\* multi_set returns at the first row that fails, and leaves the ones before it.
\* replay_ls ignores the result of replay.
Fail(p) ==
  /\ Goto(p, "idle")
  /\ todo' = [todo EXCEPT ![p] = <<>>]
  /\ failed' = IF p = Replayer THEN failed
               ELSE failed \cup {r.id : r \in done[p]} \cup {todo[p][i].id : i \in DOMAIN todo[p]}
  /\ UNCHANGED <<acked, done>>

\* The row is written: on to the next one, or return 0.
Succeed(p) ==
  /\ Goto(p, IF Len(todo[p]) > 1 THEN "enter" ELSE "idle")
  /\ todo' = [todo EXCEPT ![p] = Tail(@)]
  /\ done' = IF p = Replayer THEN done ELSE [done EXCEPT ![p] = @ \cup {Row(p)}]
  /\ acked' = IF p = Replayer \/ Len(todo[p]) > 1 THEN acked ELSE acked \cup done'[p]
  /\ UNCHANGED failed

SetEnter(p) ==
  /\ pc[p] = "enter"
  /\ IF frozen THEN Fail(p) ELSE Goto(p, "log") /\ UNCHANGED <<todo, results, done>>
  /\ UNCHANGED <<wal, phase, rpos, frozen, maxv, index, versions, obj, snap,
                 ops, crashes, before>>

SetUnlogged(p) ==
  /\ pc[p] = "log"
  /\ Goto(p, "find")
  /\ UNCHANGED <<wal, phase, rpos, frozen, maxv, index, versions, obj, todo, snap, done,
                 ops, crashes, results, before>>

\* replay takes log_handler_ away while it calls set.
SetLog(p) ==
  /\ pc[p] = "log"
  /\ wal' = IF p = Replayer THEN wal ELSE Append(wal, Row(p))
  /\ Goto(p, "find")
  /\ UNCHANGED <<phase, rpos, frozen, maxv, index, versions, obj, todo, snap, done,
                 ops, crashes, results, before>>

SetLogFails(p) ==
  /\ LogFails /\ p # Replayer
  /\ pc[p] = "log"
  /\ Fail(p)
  /\ UNCHANGED <<wal, phase, rpos, frozen, maxv, index, versions, obj, snap,
                 ops, crashes, before>>

\* create_kv_: the row is in keyhash_ already, or a new one is made for it.
FindRow(p) ==
  /\ pc[p] = "find"
  /\ obj' = [obj EXCEPT ![p] = keyhash[Key(p)]]
  /\ Goto(p, IF keyhash[Key(p)] # None THEN "write" ELSE "create")
  /\ UNCHANGED <<wal, phase, rpos, frozen, maxv, index, versions, todo, snap, done,
                 ops, crashes, results, before>>

\* ObMtHash::set looks the key up once more.
CreateRow(p) ==
  /\ pc[p] = "create"
  /\ obj' = [obj EXCEPT ![p] = IF keyhash[Key(p)] # None THEN keyhash[Key(p)] ELSE Row(p).id]
  /\ Goto(p, IF keyhash[Key(p)] # None THEN "write" ELSE "insert")
  /\ UNCHANGED <<wal, phase, rpos, frozen, maxv, index, versions, todo, snap, done,
                 ops, crashes, results, before>>

InsertRow(p) ==
  /\ pc[p] = "insert"
  /\ keyhash' = [keyhash EXCEPT ![Key(p)] = obj[p]]
  /\ Goto(p, "index")
  /\ UNCHANGED <<wal, phase, rpos, frozen, maxv, btree, zero, indexed, versions, obj, todo, snap, done,
                 ops, crashes, results, before>>

IndexRow(p) ==
  /\ pc[p] = "index"
  /\ btree' = [btree EXCEPT ![Key(p)] = obj[p]]
  /\ indexed' = indexed \cup {obj[p]}
  /\ Goto(p, "write")
  /\ UNCHANGED <<wal, phase, rpos, frozen, maxv, keyhash, zero, versions, obj, todo, snap, done,
                 ops, crashes, results, before>>

-----------------------------------------------------------------------------
(* ObMvccRow::mvcc_write, under the latch of the row *)

is_transaction_set_violation(r, s) == s # INVALID_VERSION /\ rowMax[r] > s

LinkLast(p) ==
  chain' = [chain EXCEPT ![obj[p]] = Append(@, [id |-> Row(p).id, snap |-> snap[p]])]

\* The new node becomes list_head_.
Link(p) ==
  chain' = [chain EXCEPT ![obj[p]] = <<[id |-> Row(p).id, snap |-> snap[p]]>> \o @]

RaiseRowMaxAlways(p) ==
  rowMax' = [rowMax EXCEPT ![obj[p]] = IF snap[p] > @ THEN snap[p] ELSE @]

RaiseRowMax(p) ==
  rowMax' = [rowMax EXCEPT ![obj[p]] =
               IF snap[p] > @ /\ snap[p] # INVALID_VERSION THEN snap[p] ELSE @]

WriteUnchecked(p) ==
  /\ pc[p] = "write"
  /\ Link(p)
  /\ RaiseRowMax(p)
  /\ Goto(p, "ensure")
  /\ UNCHANGED <<wal, phase, rpos, frozen, maxv, index, obj, todo, snap, done,
                 ops, crashes, results, before>>

Write(p) ==
  /\ pc[p] = "write"
  /\ ~is_transaction_set_violation(obj[p], snap[p])
  /\ Link(p)
  /\ RaiseRowMax(p)
  /\ Goto(p, "ensure")
  /\ UNCHANGED <<wal, phase, rpos, frozen, maxv, index, obj, todo, snap, done,
                 ops, crashes, results, before>>

WriteRejected(p) ==
  /\ pc[p] = "write"
  /\ is_transaction_set_violation(obj[p], snap[p])
  /\ Fail(p)
  /\ UNCHANGED <<wal, phase, rpos, frozen, maxv, index, versions, obj, snap,
                 ops, crashes, before>>

\* ensure_kv passes stored_key, which nothing fills in: its hash is 0.
EnsureKv(p) ==
  /\ pc[p] = "ensure"
  /\ zero' = IF obj[p] \in indexed THEN zero ELSE obj[p]
  /\ indexed' = indexed \cup {obj[p]}
  /\ Goto(p, "load")
  /\ UNCHANGED <<wal, phase, rpos, frozen, maxv, keyhash, btree, versions, obj, todo, snap, done,
                 ops, crashes, results, before>>

\* max_trans_version_ is compared and stored in two steps.
LoadMax(p) ==
  /\ pc[p] = "load"
  /\ IF snap[p] > maxv
     THEN Goto(p, "store") /\ UNCHANGED <<todo, results, done>>
     ELSE Succeed(p)
  /\ UNCHANGED <<wal, phase, rpos, frozen, maxv, index, versions, obj, snap,
                 ops, crashes, before>>

StoreMaxSkipped(p) ==
  /\ pc[p] = "store"
  /\ Succeed(p)
  /\ UNCHANGED <<wal, phase, rpos, frozen, maxv, index, versions, obj, snap,
                 ops, crashes, before>>

StoreMax(p) ==
  /\ pc[p] = "store"
  /\ maxv' = snap[p]
  /\ Succeed(p)
  /\ UNCHANGED <<wal, phase, rpos, frozen, index, versions, obj, snap,
                 ops, crashes, before>>

set_frozen ==
  /\ MayFreeze /\ phase = "up" /\ ~frozen
  /\ frozen' = TRUE
  /\ UNCHANGED <<wal, phase, rpos, maxv, index, versions, threads, ops, crashes, results, before>>

-----------------------------------------------------------------------------
(* Crash, and recovery: ObLogService::replay_ls with ObMemtable::replay *)

\* What is in the memory of a process that has just started.
Restarted ==
  /\ phase' = "recovering" /\ rpos' = 0
  /\ frozen' = FALSE /\ maxv' = 0
  /\ keyhash' = [k \in Keys |-> None]
  /\ btree' = [k \in Keys |-> None]
  /\ zero' = None /\ indexed' = {}
  /\ chain' = [r \in Ids |-> <<>>]
  /\ rowMax' = [r \in Ids |-> 0]
  /\ pc' = [p \in Procs |-> "idle"]
  /\ obj' = [p \in Procs |-> None]
  /\ todo' = [p \in Procs |-> <<>>]
  /\ snap' = [p \in Procs |-> INVALID_VERSION]
  /\ done' = [p \in Procs |-> {}]

Crash ==
  /\ crashes < MaxCrashes
  /\ crashes' = crashes + 1
  /\ before' = acked
  /\ Restarted
  /\ UNCHANGED <<wal, ops, results>>

ReplayEntry ==
  /\ phase = "recovering" /\ pc[Replayer] = "idle"
  /\ rpos < Len(wal)
  /\ rpos' = rpos + 1
  /\ todo' = [todo EXCEPT ![Replayer] = <<wal[rpos + 1]>>]
  /\ Goto(Replayer, "enter")
  /\ UNCHANGED <<wal, phase, frozen, maxv, index, versions, obj, snap, done,
                 ops, crashes, results, before>>

\* A key of 4 GB or more, or of a negative length: copying it throws, or moving past
\* it leads out of the mapped memory.
ReplayAborts ==
  /\ Uninit
  /\ phase = "recovering" /\ pc[Replayer] = "idle"
  /\ rpos < Len(wal)
  /\ Restarted
  /\ UNCHANGED <<wal, ops, crashes, results, before>>

ReplayEndEarly ==
  /\ phase = "recovering" /\ pc[Replayer] = "idle"
  /\ rpos >= Len(wal) - 1
  /\ phase' = "up"
  /\ UNCHANGED <<wal, rpos, frozen, maxv, index, versions, threads, ops, crashes, results, before>>

ReplayEndPast ==
  /\ phase = "recovering" /\ pc[Replayer] = "idle"
  /\ rpos > Len(wal)
  /\ phase' = "up"
  /\ UNCHANGED <<wal, rpos, frozen, maxv, index, versions, threads, ops, crashes, results, before>>

ReplayEnd ==
  /\ phase = "recovering" /\ pc[Replayer] = "idle"
  /\ rpos = Len(wal)
  /\ phase' = "up"
  /\ UNCHANGED <<wal, rpos, frozen, maxv, index, versions, threads, ops, crashes, results, before>>

-----------------------------------------------------------------------------
Init ==
  /\ wal = <<>>
  /\ phase = "recovering" /\ rpos = 0
  /\ frozen = FALSE /\ maxv = 0
  /\ keyhash = [k \in Keys |-> None]
  /\ btree = [k \in Keys |-> None]
  /\ zero = None /\ indexed = {}
  /\ chain = [r \in Ids |-> <<>>]
  /\ rowMax = [r \in Ids |-> 0]
  /\ pc = [p \in Procs |-> "idle"]
  /\ obj = [p \in Procs |-> None]
  /\ todo = [p \in Procs |-> <<>>]
  /\ snap = [p \in Procs |-> INVALID_VERSION]
  /\ done = [p \in Procs |-> {}]
  /\ ops = 0 /\ crashes = 0
  /\ acked = {} /\ failed = {} /\ before = {}

Call(w) == \E n \in Batches, s \in Versions : \E ks \in [1 .. n -> Keys] : CallBatch(w, ks, s)

Set(p) ==
  \/ SetEnter(p) \/ SetLog(p) \/ SetLogFails(p)
  \/ FindRow(p) \/ CreateRow(p) \/ InsertRow(p) \/ IndexRow(p)
  \/ Write(p) \/ WriteRejected(p) \/ EnsureKv(p)
  \/ LoadMax(p) \/ StoreMax(p)

Replay == ReplayEntry \/ ReplayAborts \/ ReplayEnd

Next ==
  \/ \E w \in Writers : Call(w)
  \/ \E p \in Procs : Set(p)
  \/ Replay
  \/ set_frozen
  \/ Crash

Spec == Init /\ [][Next]_vars

\* Recovery runs in one thread, and nothing it calls waits for another one.
FairSpec == Spec /\ WF_vars(Replay) /\ WF_vars(Set(Replayer))

-----------------------------------------------------------------------------
(* Properties *)

Rows == [key : Keys, id : Ids]
Labels == {"idle", "enter", "log", "find", "create", "insert", "index", "write", "ensure",
           "load", "store"}

\* Types; and the highest version of a row is never "no snapshot", which would make
\* mvcc_write reject every later write that has a snapshot.
TypeOK ==
  /\ wal \in Seq(Rows)
  /\ phase \in {"recovering", "up"}
  /\ rpos \in 0 .. Len(wal)
  /\ frozen \in BOOLEAN
  /\ maxv \in Versions \cup {0}
  /\ keyhash \in [Keys -> Ids \cup {None}]
  /\ btree \in [Keys -> Ids \cup {None}]
  /\ zero \in Ids \cup {None}
  /\ indexed \subseteq Ids
  /\ chain \in [Ids -> Seq([id : Ids, snap : Versions])]
  /\ rowMax \in [Ids -> Snapshots \cup {0}]
  /\ pc \in [Procs -> Labels]
  /\ obj \in [Procs -> Ids \cup {None}]
  /\ todo \in [Procs -> Seq(Rows)]
  /\ snap \in [Procs -> Versions]
  /\ done \in [Procs -> SUBSET Rows]
  /\ ops \in 0 .. MaxOps
  /\ crashes \in 0 .. MaxCrashes
  /\ acked \subseteq Rows /\ before \subseteq Rows
  /\ failed \subseteq Ids

\* set writes the log before the memtable: every version in a row is the trace of a
\* write that is in the log, whoever linked it and however often the process crashed.
LoggedFirst ==
  \A r \in Ids : \A n \in Nodes(r) : \E i \in DOMAIN wal : wal[i].id = n.id

\* mvcc_write's check keeps the versions of a row in the order of their writers'
\* snapshots: a write never lands above one its snapshot does not cover.
ChainOrdered ==
  \A r \in Ids : \A i, j \in DOMAIN chain[r] :
    (i < j /\ chain[r][i].snap # INVALID_VERSION /\ chain[r][j].snap # INVALID_VERSION)
      => chain[r][i].snap >= chain[r][j].snap

\* Replay brings back every row that set or multi_set had acknowledged before the
\* crash, and no later write takes it away from get.
AckedRecovered ==
  phase = "up" => \A r \in before : \E n \in Readable(r.key) : n.id = r.id

\* get returns the row a set acknowledged, or one written later, also after a restart.
AckedReadable ==
  phase = "up" => \A r \in acked : Newest(r.key) >= r.id

\* A scan returns the row get would return, once.
ScanAgrees ==
  phase = "up" => \A r \in acked : ScanHits(r.key, keyhash[r.key]) = 1

\* max_trans_version_ is at least the snapshot of every write that was acknowledged.
MaxCovers ==
  phase = "up" =>
    \A r \in Ids : \A n \in Nodes(r) : (\E a \in acked : a.id = n.id) => n.snap <= maxv

\* Once a memtable is frozen, no row of it changes.
FrozenFinal == [][frozen /\ frozen' => chain' = chain]_vars

\* The rows of a set or a multi_set that returned an error are in no row's versions.
FailedInvisible == \A r \in Ids : \A n \in Nodes(r) : n.id \notin failed

\* A writer that loses the race to make a row uses the row the other one made: every
\* acknowledged write is among the versions get looks at.
RacedRowUsed ==
  phase = "up" => \A r \in acked : \E n \in Readable(r.key) : n.id = r.id

\* Recovery ends.
RecoveryEnds == phase = "recovering" ~> phase = "up"
=============================================================================
