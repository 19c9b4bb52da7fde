------------------------------ MODULE Tablet ------------------------------
(***************************************************************************)
(* A tablet: its table store, its memtables, the freezer and the dump.     *)
(*                                                                         *)
(* Writers and readers reach the tablet through the store, whose mutex     *)
(* try_freeze_all holds while it works; active and frozen memtables are    *)
(* guarded by the mutex of ObMemTableMgr, except that                      *)
(* get_frozen_memtables hands out the list itself.  A mutex is the thread  *)
(* that holds it, or Free; std::mutex is not recursive.  Writing a row     *)
(* into a memtable, and the scan of a dump, are one step here (Memtable    *)
(* has their steps); a row is the number of its write.  Locking a          *)
(* std::mutex its caller holds blocks for ever, as it does with the        *)
(* default mutex of glibc.                                                 *)
(***************************************************************************)
EXTENDS Integers, Sequences, FiniteSetsExt

CONSTANTS
  Writers, Readers,  \* threads that call set on the active memtable, and ObTableStore::get
  Freezer,           \* the thread that calls try_freeze_all
  Dumper,            \* the thread that dumps frozen memtables
  Keys,
  Free,              \* a mutex nobody holds
  Threshold,         \* memtable size that triggers a freeze, in rows
  MaxWrites,         \* bound on the writes
  MaxReads           \* bound on the reads

TabletConstants ==
  /\ Threshold \in Nat \ {0} /\ MaxWrites \in Nat /\ MaxReads \in Nat
  /\ Freezer # Dumper /\ {Freezer, Dumper} \cap (Writers \cup Readers) = {}
  /\ Writers \cap Readers = {}
  /\ Free \notin Writers \cup Readers \cup {Freezer, Dumper}

Threads == Writers \cup Readers \cup {Freezer, Dumper}
None == 0
Tables == 1 .. 2   \* a memtable, and the one a freeze would create

VARIABLES
  storeMutex, mgrMutex,
  active,      \* active_memtable_
  frozenList,  \* frozen_memtables_, oldest first
  isFrozen,    \* memtables with is_frozen_
  hasLog,      \* memtables with a log_handler_
  rows,        \* rows[t][k]: the newest row of a key in a memtable
  size,        \* size[t]: occupy_size_
  wal,         \* rows in the log stream of the tablet
  sstables,    \* the SSTables added: [table, rows] of the memtable dumped
  pc, table, key, \* per thread: next step, memtable and key at hand
  got,         \* result of the last read of a reader; -1 while it runs
  seen,        \* history: newest acknowledged row when that read started
  acked,       \* history: acknowledged rows, each with its memtable: [key, row, table]
  calls, reads \* history: writes and reads called

mutexes == <<storeMutex, mgrMutex>>
mgr == <<active, frozenList>>
tables == <<isFrozen, hasLog, rows, size>>
vars == <<mutexes, mgr, tables, wal, sstables, pc, table, key, got, seen, acked, calls, reads>>

Goto(p, l) == pc' = [pc EXCEPT ![p] = l]

-----------------------------------------------------------------------------
(* ObMemTableMgr *)

\* get_active_memtable: needs the mutex, makes a memtable if there is none, and gives
\* the mutex back.  No log handler is given to the new memtable.
get_active_memtable(t) ==
  /\ mgrMutex = Free
  /\ IF active # None THEN t = active ELSE t = Len(frozenList) + 1
  /\ active' = t
  /\ UNCHANGED <<mgrMutex, frozenList, tables>>

get_total_occupied_size ==
  (IF active = None THEN 0 ELSE size[active]) +
  MapThenSumSet(LAMBDA i : size[frozenList[i]], DOMAIN frozenList)

-----------------------------------------------------------------------------
(* A write: ObStore::get_tablet, get_active_memtable, ObMemtable::set *)

WriteCall(w, k) ==
  /\ pc[w] = "idle" /\ calls < MaxWrites
  /\ storeMutex = Free
  /\ calls' = calls + 1
  /\ key' = [key EXCEPT ![w] = k]
  /\ Goto(w, "active")
  /\ UNCHANGED <<mutexes, mgr, tables, wal, sstables, table, got, seen, acked, reads>>

WriteGetActive(w) ==
  /\ pc[w] = "active"
  /\ \E t \in Tables : get_active_memtable(t) /\ table' = [table EXCEPT ![w] = t]
  /\ Goto(w, "check")
  /\ UNCHANGED <<storeMutex, wal, sstables, key, got, seen, acked, calls, reads>>

WriteCheck(w) ==
  /\ pc[w] = "check"
  /\ Goto(w, IF isFrozen[table[w]] THEN "idle" ELSE "set")
  /\ UNCHANGED <<mutexes, mgr, tables, wal, sstables, table, key, got, seen, acked, calls, reads>>

\* The size of a memtable once one more row is written to it.
Occupied(t) == size[t] + 1

WriteSet(w) ==
  /\ pc[w] = "set"
  /\ LET t == table[w]
         row == Cardinality(acked) + 1
     IN /\ wal' = IF hasLog[t] THEN Append(wal, row) ELSE wal
        /\ rows' = [rows EXCEPT ![t][key[w]] = row]
        /\ size' = [size EXCEPT ![t] = Occupied(t)]
        /\ acked' = acked \cup {[key |-> key[w], row |-> row, table |-> t]}
  /\ Goto(w, "idle")
  /\ UNCHANGED <<mutexes, mgr, isFrozen, hasLog, sstables, table, key, got, seen, calls, reads>>

-----------------------------------------------------------------------------
(* A read: ObTableStore::get *)

NewestAcked(k) == Max({0} \cup {a.row : a \in {b \in acked : b.key = k}})

ReadCall(r, k) ==
  /\ pc[r] = "idle" /\ reads < MaxReads
  /\ storeMutex = Free
  /\ reads' = reads + 1
  /\ key' = [key EXCEPT ![r] = k]
  /\ seen' = [seen EXCEPT ![r] = NewestAcked(k)]
  /\ got' = [got EXCEPT ![r] = -1]
  /\ Goto(r, "active")
  /\ UNCHANGED <<mutexes, mgr, tables, wal, sstables, table, acked, calls>>

ReadGetActive(r) ==
  /\ pc[r] = "active"
  /\ \E t \in Tables : get_active_memtable(t) /\ table' = [table EXCEPT ![r] = t]
  /\ Goto(r, "read")
  /\ UNCHANGED <<storeMutex, wal, sstables, key, got, seen, acked, calls, reads>>

\* What the first of the memtables ts that has the key k has for it.
FirstFound(k, ts) ==
  LET found == {i \in DOMAIN ts : rows[ts[i]][k] # None}
  IN IF found = {} THEN None ELSE rows[ts[Min(found)]][k]

ReadOrderFrozenOnly(r) == frozenList

\* The active memtable, then the frozen ones, the oldest first.  The SSTables are not
\* looked at.
ReadOrder(r) == <<table[r]>> \o frozenList

Read(r) ==
  /\ pc[r] = "read"
  /\ got' = [got EXCEPT ![r] = FirstFound(key[r], ReadOrder(r))]
  /\ Goto(r, "idle")
  /\ UNCHANGED <<mutexes, mgr, tables, wal, sstables, table, key, seen, acked, calls, reads>>

-----------------------------------------------------------------------------
(* ObStore::try_freeze_all, ObFreezer::try_freeze, set_is_tablet_freeze *)

FreezeCall ==
  /\ pc[Freezer] = "idle"
  /\ storeMutex = Free
  /\ storeMutex' = Freezer
  /\ Goto(Freezer, "size")
  /\ UNCHANGED <<mgrMutex, mgr, tables, wal, sstables, table, key, got, seen, acked, calls, reads>>

FreezeSize ==
  /\ pc[Freezer] = "size"
  /\ mgrMutex = Free
  /\ IF get_total_occupied_size >= Threshold
     THEN Goto(Freezer, "freeze") /\ UNCHANGED storeMutex
     ELSE Goto(Freezer, "idle") /\ storeMutex' = Free
  /\ UNCHANGED <<mgrMutex, mgr, tables, wal, sstables, table, key, got, seen, acked, calls, reads>>

FreezeUnlocked ==
  /\ pc[Freezer] = "freeze"
  /\ mgrMutex = Free /\ active # None
  /\ isFrozen' = [isFrozen EXCEPT ![active] = TRUE]
  /\ frozenList' = Append(frozenList, active)
  /\ active' = None
  /\ Goto(Freezer, "renew")
  /\ UNCHANGED <<mutexes, hasLog, rows, size, wal, sstables, table, key, got, seen,
                 acked, calls, reads>>

\* The mutex is taken and kept.  (Without an active memtable the code returns at once:
\* with a threshold above zero the size check has ruled that out.)
FreezeActive ==
  /\ pc[Freezer] = "freeze"
  /\ mgrMutex = Free /\ active # None
  /\ mgrMutex' = Freezer
  /\ isFrozen' = [isFrozen EXCEPT ![active] = TRUE]
  /\ frozenList' = Append(frozenList, active)
  /\ active' = None
  /\ Goto(Freezer, "renew")
  /\ UNCHANGED <<storeMutex, hasLog, rows, size, wal, sstables, table, key, got, seen,
                 acked, calls, reads>>

\* get_active_memtable takes the mutex its caller holds.
FreezeRenew ==
  /\ pc[Freezer] = "renew"
  /\ \E t \in Tables : get_active_memtable(t)
  /\ storeMutex' = Free
  /\ Goto(Freezer, "idle")
  /\ UNCHANGED <<wal, sstables, table, key, got, seen, acked, calls, reads>>

-----------------------------------------------------------------------------
(* The dump: get_frozen_memtables, ObCompaction::mini_merge, add_sstable,        *)
(* remove_frozen_memtable                                                        *)

Dump ==
  /\ pc[Dumper] = "idle" /\ frozenList # <<>>
  /\ table' = [table EXCEPT ![Dumper] = frozenList[1]]
  /\ sstables' = Append(sstables, [table |-> frozenList[1], rows |-> rows[frozenList[1]]])
  /\ Goto(Dumper, "remove")
  /\ UNCHANGED <<mutexes, mgr, tables, wal, key, got, seen, acked, calls, reads>>

DumpRemove ==
  /\ pc[Dumper] = "remove"
  /\ mgrMutex = Free
  /\ frozenList' = SelectSeq(frozenList, LAMBDA t : t # table[Dumper])
  /\ Goto(Dumper, "idle")
  /\ UNCHANGED <<mutexes, active, tables, wal, sstables, table, key, got, seen, acked, calls, reads>>

-----------------------------------------------------------------------------
Init ==
  /\ storeMutex = Free /\ mgrMutex = Free
  /\ active = None /\ frozenList = <<>>
  /\ isFrozen = [t \in Tables |-> FALSE]
  /\ hasLog = [t \in Tables |-> FALSE]
  /\ rows = [t \in Tables |-> [k \in Keys |-> None]]
  /\ size = [t \in Tables |-> 0]
  /\ wal = <<>> /\ sstables = <<>>
  /\ pc = [p \in Threads |-> "idle"]
  /\ table = [p \in Threads |-> None]
  /\ key \in [Threads -> {CHOOSE k \in Keys : TRUE}]
  /\ got = [r \in Readers |-> -1]
  /\ seen = [r \in Readers |-> 0]
  /\ acked = {} /\ calls = 0 /\ reads = 0

Next ==
  \/ \E w \in Writers : \/ \E k \in Keys : WriteCall(w, k)
                        \/ WriteGetActive(w) \/ WriteCheck(w) \/ WriteSet(w)
  \/ \E r \in Readers : \/ \E k \in Keys : ReadCall(r, k)
                        \/ ReadGetActive(r) \/ Read(r)
  \/ FreezeCall \/ FreezeSize \/ FreezeActive
  \/ Dump

Spec == Init /\ [][Next]_vars

\* With the two steps that wait for the mutex the freezer never gives back.
FullNext == Next \/ FreezeRenew \/ DumpRemove

\* A thread that waits for a mutex takes it if the mutex stays free.
FairSpec == Init /\ [][FullNext]_vars /\ WF_vars(FreezeRenew) /\ WF_vars(DumpRemove)

-----------------------------------------------------------------------------
(* Properties *)

\* Once a memtable is in the frozen list, the thread that froze it holds the mutex of
\* the memtables and of the store: no thread that needs one of them gets any further,
\* and the list has one entry.
FreezeHolds ==
  frozenList # <<>> => /\ mgrMutex = Freezer /\ storeMutex = Freezer
                       /\ Len(frozenList) = 1 /\ active = None

\* ObTableStore::get returns the newest row acknowledged when it was called, or a later
\* one.
Fresh == \A r \in Readers : got[r] # -1 => got[r] >= seen[r]

\* ObTableStore::get returns the newest row acknowledged when it was called, or a later
\* one, whatever freezes meanwhile; and while a memtable is frozen no second one is, since
\* the thread in try_freeze_all holds both mutexes.
ReadsFresh == Fresh /\ FreezeHolds

\* A freeze (set_is_tablet_freeze) goes on to create the new active memtable, as the
\* comment on it says.
FreezeCompletes == (frozenList # <<>>) ~> (active # None)

\* A row acknowledged by ObMemtable::set on a tablet's active memtable is in the
\* tablet's log, as the documented write path has it.
TabletLogged == \A a \in acked : \E i \in DOMAIN wal : wal[i] = a.row

\* The SSTable mini_merge makes from a frozen memtable has the newest acknowledged rows
\* of it.
DumpComplete ==
  \A i \in DOMAIN sstables : \A a \in acked :
    a.table = sstables[i].table => sstables[i].rows[a.key] >= a.row
=============================================================================
