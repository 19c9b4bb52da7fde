---------------------------- MODULE ThreadPool ----------------------------
(***************************************************************************)
(* common::ThreadPoolExecutor and its SimpleQueue.                         *)
(*                                                                         *)
(* Each critical section of lock_ and of the queue's mutex is one step;    *)
(* pool_size, active_count, state_ and the size of the queue are read      *)
(* without a lock, each in a step of its own where the value is kept.      *)
(* Time is a choice: a thread that is not a core thread may find its       *)
(* deadline passed whenever it looks at it.                                *)
(***************************************************************************)
EXTENDS Integers, Sequences, FiniteSets

CONSTANTS
  Submitters,
  CoreSize, MaxSize,  \* core_pool_size_, max_pool_size_
  SlowInit,     \* TRUE: init may take longer than the first 10 ms sleep of a thread
  LateExecute,  \* TRUE: shutdown may be called while a thread is inside execute
  MaxTasks,     \* bound on the tasks submitted
  MaxThreads    \* bound on the threads created

ThreadPoolConstants ==
  /\ CoreSize \in Nat /\ MaxSize \in Nat \ {0} /\ CoreSize <= MaxSize
  /\ SlowInit \in BOOLEAN /\ LateExecute \in BOOLEAN
  /\ MaxTasks \in Nat /\ MaxThreads \in Nat

Threads == 1 .. MaxThreads
Tasks == 1 .. MaxTasks
None == 0

VARIABLES
  state,      \* state_: NEW, RUNNING, TERMINATING
  threads,    \* keys of threads_
  core,       \* threads with core_thread
  active,     \* active_count_
  queue,      \* work_queue_
  pc,         \* pc[t]: none (not created), top, pop, begin, run, check, leave, log, gone
  task,       \* task[t]: the task at hand
  ran,        \* tasks run; task_count_ is their number
  exec,       \* exec[s]: pc of a submitter in execute: idle, push, size, decide, extend
  size,       \* size[s]: its task_size
  tasks,      \* history: tasks accepted so far
  closer      \* caller of shutdown and await_termination: idle, await, returned

pool == <<state, threads, core>>
submit == <<exec, size, tasks>>
vars == <<pool, active, queue, pc, task, ran, submit, closer>>

Created == {t \in Threads : pc[t] # "none"}
CanCreate == Cardinality(Created) < MaxThreads

\* create_thread_locked: a new thread, in threads_ before it can take the lock.
create_thread_locked(isCore) ==
  LET t == Cardinality(Created) + 1
  IN /\ CanCreate
     /\ threads' = threads \cup {t}
     /\ core' = IF isCore THEN core \cup {t} ELSE core
     /\ pc' = [pc EXCEPT ![t] = "top"]

-----------------------------------------------------------------------------
(* init *)

InitCreate ==
  /\ state = "NEW" /\ Cardinality(threads) < CoreSize
  /\ create_thread_locked(TRUE)
  /\ UNCHANGED <<state, active, queue, task, ran, submit, closer>>

InitDone ==
  /\ state = "NEW" /\ Cardinality(threads) >= CoreSize
  /\ state' = "RUNNING"
  /\ UNCHANGED <<threads, core, active, queue, pc, task, ran, submit, closer>>

-----------------------------------------------------------------------------
(* execute.  A submitter is refused before init and after shutdown. *)

ExecuteCall(s) ==
  /\ exec[s] = "idle" /\ state = "RUNNING"
  /\ tasks + Cardinality({u \in Submitters : exec[u] = "push"}) < MaxTasks
  /\ exec' = [exec EXCEPT ![s] = "push"]
  /\ UNCHANGED <<pool, active, queue, pc, task, ran, size, tasks, closer>>

ExecutePush(s) ==
  /\ exec[s] = "push"
  /\ tasks' = tasks + 1
  /\ queue' = Append(queue, tasks + 1)
  /\ exec' = [exec EXCEPT ![s] = "size"]
  /\ UNCHANGED <<pool, active, pc, task, ran, size, closer>>

ExecuteSize(s) ==
  /\ exec[s] = "size"
  /\ size' = [size EXCEPT ![s] = Len(queue)]
  /\ exec' = [exec EXCEPT ![s] = "decide"]
  /\ UNCHANGED <<pool, active, queue, pc, task, ran, tasks, closer>>

ExecuteDecide(s) ==
  /\ exec[s] = "decide"
  /\ exec' = [exec EXCEPT ![s] =
                IF size[s] > Cardinality(threads) - active THEN "extend" ELSE "idle"]
  /\ UNCHANGED <<pool, active, queue, pc, task, ran, size, tasks, closer>>

NeedsThreadAlways == Len(queue) > Cardinality(threads) - active

\* The two early returns of extend_thread.
NeedsThread ==
  /\ Cardinality(threads) < MaxSize
  /\ Len(queue) > Cardinality(threads) - active

extend_thread(s) ==
  /\ exec[s] = "extend"
  /\ exec' = [exec EXCEPT ![s] = "idle"]
  /\ IF NeedsThread THEN create_thread_locked(FALSE) ELSE UNCHANGED <<threads, core, pc>>
  /\ UNCHANGED <<state, active, queue, task, ran, size, tasks, closer>>

-----------------------------------------------------------------------------
(* thread_func *)

StaysNever(t) == FALSE

\* A core thread never looks at its deadline.
Stays(t) == t \in core

Top(t) ==
  /\ pc[t] = "top"
  /\ pc' = [pc EXCEPT ![t] = "pop"]
  /\ UNCHANGED <<pool, active, queue, task, ran, submit, closer>>

Expire(t) ==
  /\ pc[t] = "top" /\ ~Stays(t)
  /\ pc' = [pc EXCEPT ![t] = "leave"]
  /\ UNCHANGED <<pool, active, queue, task, ran, submit, closer>>

PopKeeps(t) ==
  /\ pc[t] = "pop" /\ queue # <<>>
  /\ task' = [task EXCEPT ![t] = Head(queue)]
  /\ pc' = [pc EXCEPT ![t] = "begin"]
  /\ UNCHANGED <<pool, active, queue, ran, submit, closer>>

Pop(t) ==
  /\ pc[t] = "pop" /\ queue # <<>>
  /\ task' = [task EXCEPT ![t] = Head(queue)]
  /\ queue' = Tail(queue)
  /\ pc' = [pc EXCEPT ![t] = "begin"]
  /\ UNCHANGED <<pool, active, ran, submit, closer>>

\* Nothing in the queue: sleep.
PopNothing(t) ==
  /\ pc[t] = "pop" /\ queue = <<>>
  /\ pc' = [pc EXCEPT ![t] = "check"]
  /\ UNCHANGED <<pool, active, queue, task, ran, submit, closer>>

Begin(t) ==
  /\ pc[t] = "begin"
  /\ active' = active + 1
  /\ pc' = [pc EXCEPT ![t] = "run"]
  /\ UNCHANGED <<pool, queue, task, ran, submit, closer>>

Finish(t) ==
  /\ pc[t] = "run"
  /\ active' = active - 1
  /\ ran' = ran \cup {task[t]}
  /\ task' = [task EXCEPT ![t] = None]
  /\ pc' = [pc EXCEPT ![t] = "check"]
  /\ UNCHANGED <<pool, queue, submit, closer>>

BreaksAtOnce == state # "RUNNING"

\* The condition of the break at the end of the loop.
Breaks == state # "RUNNING" /\ queue = <<>>

Check(t) ==
  /\ pc[t] = "check"
  /\ SlowInit \/ state # "NEW"
  /\ pc' = [pc EXCEPT ![t] = IF Breaks THEN "leave" ELSE "top"]
  /\ UNCHANGED <<pool, active, queue, task, ran, submit, closer>>

\* The thread takes itself out of threads_, with the lock.
Leave(t) ==
  /\ pc[t] = "leave"
  /\ threads' = threads \ {t}
  /\ pc' = [pc EXCEPT ![t] = "log"]
  /\ UNCHANGED <<state, core, active, queue, task, ran, submit, closer>>

\* The last line of thread_func: it reads pool_name_.
LogExit(t) ==
  /\ pc[t] = "log"
  /\ pc' = [pc EXCEPT ![t] = "gone"]
  /\ UNCHANGED <<pool, active, queue, task, ran, submit, closer>>

-----------------------------------------------------------------------------
(* shutdown, await_termination *)

shutdown ==
  /\ state = "RUNNING" /\ closer = "idle"
  /\ LateExecute \/ \A s \in Submitters : exec[s] = "idle"
  /\ state' = "TERMINATING"
  /\ closer' = "await"
  /\ UNCHANGED <<threads, core, active, queue, pc, task, ran, submit>>

await_termination ==
  /\ closer = "await" /\ threads = {}
  /\ closer' = "returned"
  /\ UNCHANGED <<pool, active, queue, pc, task, ran, submit>>

-----------------------------------------------------------------------------
Init ==
  /\ state = "NEW" /\ threads = {} /\ core = {}
  /\ active = 0 /\ queue = <<>>
  /\ pc = [t \in Threads |-> "none"]
  /\ task = [t \in Threads |-> None]
  /\ ran = {}
  /\ exec = [s \in Submitters |-> "idle"]
  /\ size = [s \in Submitters |-> 0]
  /\ tasks = 0 /\ closer = "idle"

Execute(s) == ExecutePush(s) \/ ExecuteSize(s) \/ ExecuteDecide(s) \/ extend_thread(s)
thread_func(t) ==
  Top(t) \/ Pop(t) \/ PopNothing(t) \/ Begin(t) \/ Finish(t) \/ Check(t) \/ Leave(t) \/ LogExit(t)

Next ==
  \/ InitCreate \/ InitDone
  \/ \E s \in Submitters : ExecuteCall(s) \/ Execute(s)
  \/ \E t \in Threads : thread_func(t) \/ Expire(t)
  \/ shutdown \/ await_termination

Spec == Init /\ [][Next]_vars

\* Threads of the pool, and a thread inside init, execute or await_termination, are
\* scheduled, and tasks end; nobody has to submit, to shut down or to reach a deadline.
FairSpec ==
  /\ Spec
  /\ WF_vars(InitCreate) /\ WF_vars(InitDone) /\ WF_vars(await_termination)
  /\ \A s \in Submitters : WF_vars(Execute(s))
  /\ \A t \in Threads : WF_vars(thread_func(t))

-----------------------------------------------------------------------------
(* Properties *)

\* threads_ never has more than max_pool_size_ entries, though execute decides to extend
\* from values it read without the lock.
PoolBound == Cardinality(threads) <= MaxSize

\* A task accepted by execute is at one place: in the queue, with one thread, or run; none
\* is lost and none is run twice.
OnePlace ==
  \A k \in 1 .. tasks :
    Cardinality({i \in DOMAIN queue : queue[i] = k}) + Cardinality({t \in Threads : task[t] = k})
      + (IF k \in ran THEN 1 ELSE 0) = 1

\* When await_termination returns, every task execute accepted has been run.
Drained == closer = "returned" => ran = 1 .. tasks

\* A task accepted by execute is at one place: in the queue, with one thread, or run; none
\* is lost and none is run twice.  threads_ never has more than max_pool_size_ entries,
\* though execute decides to extend the pool from values it read without the lock, and when
\* await_termination returns every task accepted has been run.
TasksOnce == OnePlace /\ PoolBound /\ Drained

\* Every task execute accepted is run in the end.
TasksRun == \A k \in Tasks : (tasks >= k) ~> (k \in ran)

\* Core threads stay until shutdown.
CoreStays == \A t \in core : pc[t] \in {"leave", "log", "gone"} => state = "TERMINATING"

\* When await_termination returns, every thread has left thread_func: none still reads
\* the pool its owner may now destroy.
ThreadsExited == closer = "returned" => \A t \in Created : pc[t] = "gone"
=============================================================================
