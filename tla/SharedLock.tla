---------------------------- MODULE SharedLock -----------------------------
(***************************************************************************)
(* RecursiveSharedMutex, in a build with CONCURRENCY: a read-write lock    *)
(* made of one mutex and two condition variables, whose write side a       *)
(* thread may take again while it has it.  A call runs under the mutex, so *)
(* it is one step up to its end or to a wait; a wait may end without a     *)
(* notification.  Callers keep to the class comment: a reader never asks   *)
(* for the write side, nor a writer for the read side.                     *)
(***************************************************************************)
EXTENDS Integers, FiniteSets

CONSTANTS Lockers, MaxCalls, NoThread

VARIABLES
  shared, exclusive, owner, depth,  \* shared_lock_count_ ... recursive_count_
  at,        \* each thread: free, shared or exclusive (asleep on that variable), woken
  wants,     \* which side a sleeping or woken thread is after
  reads, writes,  \* what each thread holds
  calls      \* lock calls of each thread, bounded

lockVars == <<shared, exclusive, owner, depth, at, wants, reads, writes, calls>>

SlInit ==
  /\ shared = 0 /\ exclusive = 0 /\ owner = NoThread /\ depth = 0
  /\ at = [t \in Lockers |-> "free"] /\ wants = [t \in Lockers |-> "none"]
  /\ reads = [t \in Lockers |-> 0] /\ writes = [t \in Lockers |-> 0]
  /\ calls = [t \in Lockers |-> 0]

TakeShared(t) ==
  /\ shared' = shared + 1
  /\ reads' = [reads EXCEPT ![t] = @ + 1]
  /\ at' = [at EXCEPT ![t] = "free"] /\ wants' = [wants EXCEPT ![t] = "none"]
  /\ UNCHANGED <<exclusive, owner, depth, writes>>

TakeExclusive(t) ==
  /\ owner' = t /\ depth' = 1 /\ exclusive' = exclusive + 1
  /\ writes' = [writes EXCEPT ![t] = @ + 1]
  /\ at' = [at EXCEPT ![t] = "free"] /\ wants' = [wants EXCEPT ![t] = "none"]
  /\ UNCHANGED <<shared, reads>>

Sleep(t, side) ==
  /\ at' = [at EXCEPT ![t] = side] /\ wants' = [wants EXCEPT ![t] = side]
  /\ UNCHANGED <<shared, exclusive, owner, depth, reads, writes>>

\* The loop of lock_shared, entered by a call or by a wake-up.
SharedLoop(t) == IF exclusive > 0 THEN Sleep(t, "shared") ELSE TakeShared(t)

\* The loop of lock: the owner passes through it at once.
ExclusiveLoop_NoReaders(t) ==
  IF exclusive = 0 THEN TakeExclusive(t)
  ELSE IF owner = t
  THEN /\ depth' = depth + 1 /\ writes' = [writes EXCEPT ![t] = @ + 1]
       /\ UNCHANGED <<shared, exclusive, owner, at, wants, reads>>
  ELSE Sleep(t, "exclusive")

ExclusiveLoop(t) ==
  IF shared = 0 /\ exclusive = 0 THEN TakeExclusive(t)
  ELSE IF owner = t
  THEN /\ depth' = depth + 1 /\ writes' = [writes EXCEPT ![t] = @ + 1]
       /\ UNCHANGED <<shared, exclusive, owner, at, wants, reads>>
  ELSE Sleep(t, "exclusive")

Call(t) ==
  /\ at[t] = "free" /\ calls[t] < MaxCalls
  /\ calls' = [calls EXCEPT ![t] = @ + 1]

lock_shared(t) == Call(t) /\ writes[t] = 0 /\ SharedLoop(t)
lock(t) == Call(t) /\ reads[t] = 0 /\ ExclusiveLoop(t)
try_lock_shared(t) == Call(t) /\ writes[t] = 0 /\ exclusive = 0 /\ TakeShared(t)

\* A woken thread gets the mutex back and looks again.
Resume(t) ==
  /\ at[t] = "woken"
  /\ IF wants[t] = "shared" THEN SharedLoop(t) ELSE ExclusiveLoop(t)
  /\ UNCHANGED calls

Sleepers(side) == {t \in Lockers : at[t] = side}

\* notify_all of the readers and notify_one of the writers, or only the second.
Notify(all) ==
  \E one \in IF Sleepers("exclusive") = {} THEN {{}} ELSE {{w} : w \in Sleepers("exclusive")} :
    at' = [t \in Lockers |-> IF t \in one \/ (all /\ at[t] = "shared") THEN "woken" ELSE at[t]]

unlock_shared_Silent(t) ==
  /\ at[t] = "free" /\ reads[t] > 0
  /\ shared' = shared - 1 /\ reads' = [reads EXCEPT ![t] = @ - 1]
  /\ UNCHANGED <<exclusive, owner, depth, at, wants, writes, calls>>

unlock_shared(t) ==
  /\ at[t] = "free" /\ reads[t] > 0
  /\ shared' = shared - 1 /\ reads' = [reads EXCEPT ![t] = @ - 1]
  /\ IF shared = 1 THEN Notify(FALSE) ELSE UNCHANGED at
  /\ UNCHANGED <<exclusive, owner, depth, wants, writes, calls>>

unlock(t) ==
  /\ at[t] = "free" /\ writes[t] > 0
  /\ writes' = [writes EXCEPT ![t] = @ - 1]
  /\ IF owner = t /\ depth > 1
     THEN depth' = depth - 1 /\ UNCHANGED <<exclusive, owner, at>>
     ELSE /\ owner' = NoThread /\ depth' = 0 /\ exclusive' = exclusive - 1
          /\ IF exclusive = 1 THEN Notify(TRUE) ELSE UNCHANGED at
  /\ UNCHANGED <<shared, wants, reads, calls>>

\* A condition variable may wake a thread unasked.
Spurious(t) ==
  /\ at[t] \in {"shared", "exclusive"}
  /\ at' = [at EXCEPT ![t] = "woken"]
  /\ UNCHANGED <<shared, exclusive, owner, depth, wants, reads, writes, calls>>

SlNext == \E t \in Lockers :
  lock_shared(t) \/ try_lock_shared(t) \/ lock(t) \/ Resume(t) \/ unlock_shared(t) \/ unlock(t) \/ Spurious(t)

\* Woken threads run and holders let go.
SlFair == \A t \in Lockers : WF_lockVars(Resume(t)) /\ WF_lockVars(unlock_shared(t) \/ unlock(t))
SlSpec == SlInit /\ [][SlNext]_lockVars /\ SlFair

-----------------------------------------------------------------------------
(* A thread with the write side is alone, however often it took it and
   whoever was woken meanwhile; and it has the lock until its last unlock. *)
WriterAlone ==
  \A t \in Lockers : writes[t] > 0 =>
    /\ \A u \in Lockers \ {t} : reads[u] = 0 /\ writes[u] = 0
    /\ owner = t /\ depth = writes[t] /\ exclusive = 1

(* No wake-up is lost: as long as holders let go, a thread that went to sleep
   in lock or lock_shared gets its lock, although unlock_shared wakes one
   writer only and a woken thread may find the lock taken again.  The calls
   are bounded, so no thread starves behind new arrivals. *)
SleepersServed == \A t \in Lockers : at[t] # "free" ~> at[t] = "free"

=============================================================================
