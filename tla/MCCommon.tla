----------------------------- MODULE MCCommon -----------------------------
(***************************************************************************)
(* The other ways into the server and the library under it, for TLC: one   *)
(* connection of the MySQL protocol (MysqlCommunicator), the program on a  *)
(* terminal (Cli); the reader-writer mutex (SharedLock) and the deadlock   *)
(* tracer (LockTrace); the memory pools and the memory tracer (Memory);    *)
(* time (DateTime) and containers (Containers).  Each is explored on its   *)
(* own: "part" says which one runs.                                        *)
(***************************************************************************)
EXTENDS Integers, Sequences, Cli

CONSTANTS
  SeqIds, Lengths, Flags, MaxRows, MaxCells, MaxRequests,          \* of MysqlCommunicator
  Lockers, MaxCalls,                                               \* of SharedLock
  Threads,                                                         \* of all below
  Mutexes, NoThread, NoMutex, Recursive, MaxBlockTids, MaxTaken,   \* of LockTrace
  Kinds, ItemsPerPool, MaxPools,                                   \* of Memory's pools
  Sizes, Limits, Text, MaxBlocks,                                  \* of Memory's tracer
  Times, MaxStamps,                                                \* of DateTime
  BitSizes, Touched, Values                                        \* of Containers

VARIABLES
  part,
  mysqlPhase, gone, inbox, authed, caps, seq, asked, request, result, sent, failed,
  shared, exclusive, owner, depth, at, wants, reads, writes, calls,
  mLocks, mWaitTimes, mWaitLocks, mOwnLocks, holder, held, tracePc, target, taken, said,
  kind, dynamic, itemCount, pools, usedItems, frees, itemStep, hand, mine,
  memory_limit_, allocated_memory_, alloc_cnt_, free_cnt_, is_stop_, stats, hooked, owned,
  libc, memPc, block, old, made, exited,
  m_date, m_time, moved, read, last_unique, stamps,
  bitmap_, size_, sorted

\* Dates before leap days, centuries and the turn of a year, and steps over them.
Starts == {<<1999, 12, 31>>, <<2000, 2, 28>>, <<1900, 2, 28>>, <<2024, 1, 31>>, <<2023, 3, 1>>,
           <<2024, 2, 29>>}
Clocks == {<<0, 0, 0>>, <<23, 59, 59>>}
Seconds == {1, -1, 86399, 86400, 100000, -86401}
NoTime == [year |-> 0, mon |-> 0, mday |-> 0, hour |-> 0, min |-> 0, sec |-> 0]
Durations ==
  {NoTime, [NoTime EXCEPT !.mday = 1], [NoTime EXCEPT !.mon = 1], [NoTime EXCEPT !.mday = 366],
   [NoTime EXCEPT !.mon = 13, !.mday = 30],
   [NoTime EXCEPT !.year = 4, !.hour = 23, !.min = 59, !.sec = 59]}

ASSUME CliAssumption == CliConstants

Mysql == INSTANCE MysqlCommunicator WITH phase <- mysqlPhase
Lock == INSTANCE SharedLock
Trace == INSTANCE LockTrace WITH pc <- tracePc
Memory == INSTANCE Memory WITH step <- itemStep, pc <- memPc, at <- block
Dates == INSTANCE DateTime
Cont == INSTANCE Containers

mysqlVars == <<mysqlPhase, gone, inbox, authed, caps, seq, asked, request, result, sent, failed>>
frontVars == <<mysqlVars, cliVars>>
lockVars == <<shared, exclusive, owner, depth, at, wants, reads, writes, calls>>
traceVars == <<mLocks, mWaitTimes, mWaitLocks, mOwnLocks, holder, held, tracePc, target, taken,
               said>>
itemVars == <<kind, dynamic, itemCount, pools, usedItems, frees, itemStep, hand, mine>>
memVars == <<memory_limit_, allocated_memory_, alloc_cnt_, free_cnt_, is_stop_, stats, hooked,
             owned, libc, memPc, block, old, made, exited>>
dateVars == <<m_date, m_time, moved, read, last_unique, stamps>>
contVars == <<bitmap_, size_, sorted>>
vars == <<part, frontVars, lockVars, traceVars, itemVars, memVars, dateVars, contVars>>

\* A part that does not run has one initial state.
Init ==
  /\ part \in {"mysql", "cli", "lock", "trace", "items", "memory", "dates", "stamps", "containers"}
  /\ Mysql!MInit /\ CInit /\ Lock!SlInit /\ Trace!LtInit
  /\ Memory!PInit /\ (part # "items" => kind = "item")
  /\ Memory!MtInit
  /\ Dates!DInit /\ (part # "dates" => m_date = Dates!julian_date(2000, 2, 28) /\ m_time = 0)
  /\ Cont!BInit /\ (part # "containers" => size_ = 3 /\ Cont!get_bit(0))

libraryVars == <<lockVars, traceVars, itemVars, memVars, dateVars, contVars>>

OfMysql(A) == part = "mysql" /\ A /\ UNCHANGED <<part, cliVars, libraryVars>>
OfLock(A) ==
  part = "lock" /\ A /\ UNCHANGED <<part, frontVars, traceVars, itemVars, memVars, dateVars, contVars>>

MysqlNext == OfMysql(Mysql!MNext)
CliNext == part = "cli" /\ CNext /\ UNCHANGED <<part, mysqlVars, libraryVars>>
LockNext == OfLock(Lock!SlNext)
TraceNext == /\ part = "trace" /\ Trace!LtNext
             /\ UNCHANGED <<part, frontVars, lockVars, itemVars, memVars, dateVars, contVars>>
ItemsNext == /\ part = "items" /\ Memory!PNext
             /\ UNCHANGED <<part, frontVars, lockVars, traceVars, memVars, dateVars, contVars>>
MemoryNext == /\ part = "memory" /\ Memory!MtNext
              /\ UNCHANGED <<part, frontVars, lockVars, traceVars, itemVars, dateVars, contVars>>
DatesNext == /\ \/ part = "dates" /\ Dates!Move
                \/ part = "stamps" /\ Dates!Stamp
             /\ UNCHANGED <<part, frontVars, lockVars, traceVars, itemVars, memVars, contVars>>
ContNext == /\ part = "containers" /\ Cont!BNext
            /\ UNCHANGED <<part, frontVars, lockVars, traceVars, itemVars, memVars, dateVars>>
Next == \/ MysqlNext \/ CliNext
        \/ LockNext \/ TraceNext \/ ItemsNext \/ MemoryNext \/ DatesNext \/ ContNext

\* The server notices a client that is gone, threads woken from a wait go on, and holders
\* of the mutex let go.
Fairness ==
  /\ WF_vars(OfMysql(Mysql!ReadFails))
  /\ \A t \in Lockers : /\ WF_vars(OfLock(Lock!Resume(t)))
                        /\ WF_vars(OfLock(Lock!unlock_shared(t) \/ Lock!unlock(t)))

Spec == Init /\ [][Next]_vars /\ Fairness

-----------------------------------------------------------------------------
\* A MySQL client that stays reads exactly one complete answer per request, its packets
\* numbered without a gap across the end of the byte sequence_id_; and a client that skips
\* the length store_lenenc_int announces lands on the next cell.  The connection of a client
\* that is gone is closed in the end, though send_result_rows keeps it after a failed write.
AnswersWellFormed ==
  /\ [](part = "mysql" => Mysql!AnswersWellFormed /\ Mysql!CellsReadBack)
  /\ Mysql!GoneCloses

\* A thread with the write side of RecursiveSharedMutex is alone, until its last unlock; a
\* thread that went to sleep in lock or lock_shared gets its lock, as long as holders let go,
\* although unlock_shared wakes one writer only and a woken thread may find the lock taken
\* again.  And a thread that foundDeadLock names is in a deadlock: everyone it waits for
\* waits, round to a mutex it holds, though the tracer's tables lag behind the mutexes.
LocksRight ==
  /\ [](Lock!WriterAlone /\ Trace!ReportsReal)
  /\ Lock!SleepersServed

\* Every item of MemPoolItem and MemPoolSimple is free or with one thread, also while the
\* pool grows under their hands.  What the program holds never passes MT_MEMORY_LIMIT,
\* whatever the threads ask for at once, and a quiet moment finds the tracer's counters
\* exact.
MemoryAccounted == Memory!ItemsAccounted /\ (part = "memory" => Memory!LimitHolds)

\* DateTime's arithmetic agrees with a calendar counted day by day, over leap days,
\* centuries and the turn of the year; every stamp of Now::unique is another one, also when
\* the clock goes back or two threads read it before either takes the mutex.
TimesRight == (part = "dates" => Dates!MovesRight) /\ Dates!StampsUnique

\* The bit searches of Bitmap find the nearest index of the wanted kind inside the bitmap,
\* and an array filled through lower_bound stays sorted and without repetition.
SearchesRight == part = "containers" => Cont!SearchesRight
=============================================================================
