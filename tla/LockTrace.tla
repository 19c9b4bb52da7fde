----------------------------- MODULE LockTrace -----------------------------
(***************************************************************************)
(* LockTrace and the MUTEX_ macros of a build with DEBUG_LOCK.  MUTEX_LOCK *)
(* is three steps: check() notes that the thread waits and looks for a     *)
(* deadlock, pthread_mutex_lock, and lock() notes that the thread has it;  *)
(* MUTEX_UNLOCK gives the mutex back first and notes it afterwards.  So    *)
(* the tables lag behind the mutexes, and other threads read them in       *)
(* between.  A waiting thread's answer is recorded in "said".              *)
(***************************************************************************)
EXTENDS Integers, FiniteSets

CONSTANTS
  Threads, Mutexes, NoThread, NoMutex,
  Recursive,        \* mutexes initialised as recursive
  MaxBlockTids,     \* mMaxBlockTids
  MaxTaken          \* bound on the mutexes a thread takes in all

VARIABLES
  mLocks, mWaitTimes, mWaitLocks, mOwnLocks,
  holder, held,     \* the mutexes themselves: holder and how often it has it
  pc, target,       \* of each thread: idle, wait, got, gave; and the mutex at hand
  taken,
  said              \* what deadlockCheck last told each thread

traceVars == <<mLocks, mWaitTimes, mWaitLocks, mOwnLocks, holder, held, pc, target, taken, said>>

LtInit ==
  /\ mLocks = [m \in Mutexes |-> NoThread] /\ mWaitTimes = [m \in Mutexes |-> 0]
  /\ mWaitLocks = [t \in Threads |-> NoMutex] /\ mOwnLocks = [t \in Threads |-> {}]
  /\ holder = [m \in Mutexes |-> NoThread] /\ held = [m \in Mutexes |-> 0]
  /\ pc = [t \in Threads |-> "idle"] /\ target = [t \in Threads |-> NoMutex]
  /\ taken = [t \in Threads |-> 0] /\ said = [t \in Threads |-> FALSE]

\* Follows "other waits for, which is held by" until it meets a mutex of own,
\* the end of the chain, or the bound on its length.
Chain[own \in SUBSET Mutexes, other \in Threads, n \in 1 .. MaxBlockTids] ==
  LET wanted == mWaitLocks[other]
  IN  CASE n >= MaxBlockTids \/ wanted = NoMutex -> FALSE
        [] n < MaxBlockTids /\ wanted \in own -> TRUE
        [] OTHER -> mLocks[wanted] # NoThread /\ Chain[own, mLocks[wanted], n + 1]

deadlockCheck_AnyWait(t, m) ==
  mLocks[m] # NoThread /\ mOwnLocks[t] # {} /\ mWaitLocks[mLocks[m]] # NoMutex

deadlockCheck(t, m) ==
  /\ mLocks[m] # NoThread
  /\ IF mLocks[m] = t THEN m \notin Recursive
     ELSE mOwnLocks[t] # {} /\ Chain[mOwnLocks[t], mLocks[m], 1]

\* What the log says of the thread's wait.
foundDeadLock(t, is) == said' = [said EXCEPT ![t] = is]

\* MUTEX_LOCK, first part.  deadlockCheck writes mWaitLocks before it reads it.
check(t, m) ==
  /\ pc[t] = "idle" /\ taken[t] < MaxTaken
  /\ mWaitLocks' = [mWaitLocks EXCEPT ![t] = m]
  /\ foundDeadLock(t, deadlockCheck(t, m))
  /\ mWaitTimes' = [mWaitTimes EXCEPT ![m] = @ + 1]
  /\ pc' = [pc EXCEPT ![t] = "wait"] /\ target' = [target EXCEPT ![t] = m]
  /\ taken' = [taken EXCEPT ![t] = @ + 1]
  /\ UNCHANGED <<mLocks, mOwnLocks, holder, held>>

pthread_mutex_lock(t) ==
  /\ pc[t] = "wait"
  /\ holder[target[t]] = NoThread \/ (holder[target[t]] = t /\ target[t] \in Recursive)
  /\ holder' = [holder EXCEPT ![target[t]] = t] /\ held' = [held EXCEPT ![target[t]] = @ + 1]
  /\ pc' = [pc EXCEPT ![t] = "got"]
  /\ UNCHANGED <<mLocks, mWaitTimes, mWaitLocks, mOwnLocks, target, taken, said>>

\* An entry that is still there stays as it is.
insertLock(t, m) ==
  /\ mLocks' = [mLocks EXCEPT ![m] = IF @ = NoThread THEN t ELSE @]
  /\ mWaitLocks' = [mWaitLocks EXCEPT ![t] = NoMutex]
  /\ mOwnLocks' = [mOwnLocks EXCEPT ![t] = @ \cup {m}]
  /\ mWaitTimes' = [mWaitTimes EXCEPT ![m] = @ - 1]

trace_lock(t) ==
  /\ pc[t] = "got"
  /\ insertLock(t, target[t])
  /\ pc' = [pc EXCEPT ![t] = "idle"]
  /\ UNCHANGED <<holder, held, target, taken, said>>

\* MUTEX_UNLOCK, first part.
pthread_mutex_unlock(t) ==
  /\ pc[t] = "idle"
  /\ \E m \in Mutexes :
       /\ holder[m] = t
       /\ held' = [held EXCEPT ![m] = @ - 1]
       /\ holder' = [holder EXCEPT ![m] = IF held[m] = 1 THEN NoThread ELSE t]
       /\ target' = [target EXCEPT ![t] = m]
  /\ pc' = [pc EXCEPT ![t] = "gave"]
  /\ UNCHANGED <<mLocks, mWaitTimes, mWaitLocks, mOwnLocks, taken, said>>

\* The entry goes, whosever it is and however often the mutex is still held.
trace_unlock(t) ==
  /\ pc[t] = "gave"
  /\ mLocks' = [mLocks EXCEPT ![target[t]] = NoThread]
  /\ mOwnLocks' = [mOwnLocks EXCEPT ![t] = @ \ {target[t]}]
  /\ pc' = [pc EXCEPT ![t] = "idle"]
  /\ UNCHANGED <<mWaitTimes, mWaitLocks, holder, held, target, taken, said>>

LtNext == \E t \in Threads :
  \/ \E m \in Mutexes : check(t, m)
  \/ pthread_mutex_lock(t) \/ trace_lock(t) \/ pthread_mutex_unlock(t) \/ trace_unlock(t)
LtSpec == LtInit /\ [][LtNext]_traceVars

-----------------------------------------------------------------------------
\* Threads that can go no further: each waits for a mutex one of them holds.
Stuck(S) ==
  \A t \in S : pc[t] = "wait" /\ holder[target[t]] \in (IF target[t] \in Recursive THEN S \ {t} ELSE S)

(* A thread that foundDeadLock names is in a deadlock: it waits, and so does
   everyone it waits for, round to a mutex it holds itself.  The tables are
   written before and after the mutexes they describe, yet no thread is
   accused on a stale entry. *)
ReportsReal ==
  \A t \in Threads : said[t] /\ pc[t] = "wait" => \E S \in SUBSET Threads : t \in S /\ Stuck(S)
=============================================================================
