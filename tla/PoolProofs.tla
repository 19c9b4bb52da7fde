---------------------------- MODULE PoolProofs ----------------------------
(***************************************************************************)
(* Proofs about ThreadPool, for any number of submitters, tasks and        *)
(* threads: each task is at one place, the pool keeps its bound, and with  *)
(* a core thread await_termination returns only when every task has run;   *)
(* about SharedLock: a writer is alone, for any number of threads and      *)
(* calls; and about LogService: a stream has one handler and keeps its     *)
(* acknowledged entries.                                                   *)
(***************************************************************************)
EXTENDS ThreadPool, SharedLock, LogService, FiniteSetTheorems, TLAPS

Working == {"begin", "run"}
Inside == {"top", "pop", "check", "leave"} \cup Working
Left == {"leave", "log", "gone"}

\* threads_ has the threads inside thread_func, and threads are numbered as they are created.
TypeInv ==
  /\ state \in {"NEW", "RUNNING", "TERMINATING"}
  /\ pc \in [Threads -> Inside \cup {"none", "log", "gone"}]
  /\ exec \in [Submitters -> {"idle", "push", "size", "decide", "extend"}]
  /\ core \subseteq Created
  /\ threads = {t \in Threads : pc[t] \in Inside}
  /\ \E n \in 0 .. MaxThreads : Created = 1 .. n

TaskTypes == tasks \in Nat /\ queue \in Seq(1 .. tasks) /\ ran \subseteq 1 .. tasks /\ task \in [Threads -> 0 .. tasks]

\* A thread has a task from Pop to the end of the task; the places exclude each other, and
\* every task has one.
PlaceInv ==
  /\ \A t \in Threads : task[t] # None <=> pc[t] \in Working
  /\ \A i, j \in 1 .. Len(queue) : queue[i] = queue[j] => i = j
  /\ \A t, u \in Threads : task[t] = task[u] /\ task[t] # None => t = u
  /\ \A i \in 1 .. Len(queue) : queue[i] \notin ran /\ \A t \in Threads : queue[i] # task[t]
  /\ \A t \in Threads : task[t] \notin ran
  /\ \A k \in 1 .. tasks :
       k \in ran \/ (\E i \in 1 .. Len(queue) : queue[i] = k) \/ \E t \in Threads : task[t] = k

TaskInv == TaskTypes /\ PlaceInv

\* A core thread leaves only when nothing is queued and nobody can submit any more.
CoreInv ==
  /\ state = "NEW" => threads = core
  /\ state # "RUNNING" => \A s \in Submitters : exec[s] = "idle"
  /\ state # "NEW" => core # {}
  /\ \A t \in core : pc[t] \in Left => state = "TERMINATING" /\ queue = <<>>
  /\ closer # "idle" => state = "TERMINATING"
  /\ closer = "returned" => threads = {}

\* What the drain of the queue rests on: a core thread, an init that is over before a thread
\* first looks at the state, and a shutdown after the last execute.
Orderly == CoreSize > 0 /\ ~SlowInit /\ ~LateExecute

-----------------------------------------------------------------------------
\* threads_ is finite.
LEMMA ThreadsFinite ==
  ASSUME ThreadPoolConstants, NEW S \in SUBSET Threads
  PROVE  IsFiniteSet(S) /\ Cardinality(S) \in Nat
<1>1. IsFiniteSet(Threads)
  BY FS_Interval DEF Threads, ThreadPoolConstants
<1> QED BY <1>1, FS_Subset, FS_CardinalityType

\* A new thread has a number nobody had (create_thread_locked).
LEMMA FreshThread ==
  ASSUME ThreadPoolConstants, TypeInv, CanCreate
  PROVE  LET t == Cardinality(Created) + 1
         IN t \in Threads /\ pc[t] = "none" /\ Created \cup {t} = 1 .. t
<1>1. PICK n \in 0 .. MaxThreads : Created = 1 .. n
  BY DEF TypeInv
<1>2. Cardinality(Created) = n
  BY <1>1, FS_Interval DEF ThreadPoolConstants
<1>3. n < MaxThreads
  BY <1>2 DEF CanCreate
<1>4. n + 1 \in Threads /\ n + 1 \notin 1 .. n /\ (1 .. n) \cup {n + 1} = 1 .. (n + 1)
  BY <1>3 DEF Threads, ThreadPoolConstants
<1>5. pc[n + 1] = "none"
  BY <1>1, <1>4 DEF Created
<1> QED BY <1>1, <1>2, <1>4, <1>5

\* What a step makes of the threads: one moves on inside thread_func, or leaves threads_, or
\* is new, or none does anything.
Moves == \E t \in Threads : pc[t] \in Inside /\ (\E p \in Inside : pc' = [pc EXCEPT ![t] = p]) /\ threads' = threads
Exits == \E t \in Threads : \/ pc[t] \in Inside /\ pc' = [pc EXCEPT ![t] = "log"] /\ threads' = threads \ {t}
                            \/ pc[t] = "log" /\ pc' = [pc EXCEPT ![t] = "gone"] /\ threads' = threads
Starts == \E isCore \in BOOLEAN : create_thread_locked(isCore)
Rests == pc' = pc /\ threads' = threads

LEMMA PcType ==
  ASSUME ThreadPoolConstants, TypeInv, \/ (Moves \/ Exits \/ Rests) /\ core' = core
                                       \/ Starts,
         state' \in {"NEW", "RUNNING", "TERMINATING"},
         exec' \in [Submitters -> {"idle", "push", "size", "decide", "extend"}]
  PROVE  TypeInv'
<1> USE DEF Inside, Working
<1>1. CASE Moves /\ core' = core
  <2>1. PICK t \in Threads, p \in Inside : pc[t] \in Inside /\ pc' = [pc EXCEPT ![t] = p] /\ threads' = threads
    BY <1>1, Zenon DEF Moves
  <2>2. Created' = Created
    BY <2>1 DEF TypeInv, Created
  <2> QED BY <1>1, <2>1, <2>2 DEF TypeInv
<1>2. CASE Exits /\ core' = core
  <2>1. PICK t \in Threads : \/ pc[t] \in Inside /\ pc' = [pc EXCEPT ![t] = "log"] /\ threads' = threads \ {t}
                             \/ pc[t] = "log" /\ pc' = [pc EXCEPT ![t] = "gone"] /\ threads' = threads
    BY <1>2 DEF Exits
  <2>2. Created' = Created
    BY <2>1 DEF TypeInv, Created
  <2> QED BY <1>2, <2>1, <2>2 DEF TypeInv
<1>3. CASE Rests /\ core' = core
  BY <1>3 DEF Rests, TypeInv, Created
<1>4. CASE Starts
  <2> DEFINE t == Cardinality(Created) + 1
  <2>1. /\ CanCreate /\ threads' = threads \cup {t} /\ core' \in {core, core \cup {t}}
        /\ pc' = [pc EXCEPT ![t] = "top"]
    BY <1>4 DEF Starts, create_thread_locked
  <2>2. t \in Threads /\ pc[t] = "none" /\ Created \cup {t} = 1 .. t
    BY <2>1, FreshThread
  <2> HIDE DEF t
  <2>3. Created' = Created \cup {t}
    BY <2>1, <2>2 DEF TypeInv, Created
  <2>4. t \in 0 .. MaxThreads
    BY <2>2 DEF Threads, ThreadPoolConstants
  <2>5. \E n \in 0 .. MaxThreads : Created' = 1 .. n
    BY <2>2, <2>3, <2>4
  <2>6. pc' \in [Threads -> Inside \cup {"none", "log", "gone"}] /\ threads' = {u \in Threads : pc'[u] \in Inside}
    BY <2>1, <2>2 DEF TypeInv
  <2> QED BY <2>1, <2>3, <2>5, <2>6 DEF TypeInv
<1> QED BY <1>1, <1>2, <1>3, <1>4

-----------------------------------------------------------------------------
LEMMA TypeInvInit == ASSUME ThreadPoolConstants PROVE Init => TypeInv
<1> SUFFICES ASSUME Init PROVE TypeInv
  OBVIOUS
<1>1. Created = {} /\ 1 .. 0 = {} /\ 0 \in 0 .. MaxThreads
  BY DEF Init, Created, ThreadPoolConstants
<1>2. \E n \in 0 .. MaxThreads : Created = 1 .. n
  BY <1>1
<1> QED BY <1>1, <1>2 DEF Init, TypeInv, Inside, Working

LEMMA TypeInvStep == ASSUME ThreadPoolConstants PROVE TypeInv /\ [Next]_vars => TypeInv'
<1> SUFFICES ASSUME TypeInv, [Next]_vars PROVE TypeInv'
  OBVIOUS
<1> USE DEF pool, submit
<1>1. CASE InitCreate
  BY <1>1, PcType, Zenon DEF InitCreate, Starts, TypeInv
<1>2. CASE InitDone
  BY <1>2, PcType DEF InitDone, Rests, TypeInv
<1>3. ASSUME NEW s \in Submitters, ExecuteCall(s) \/ ExecutePush(s) \/ ExecuteSize(s) \/ ExecuteDecide(s)
      PROVE  TypeInv'
  <2>1. Rests /\ core' = core /\ state' = state
    BY <1>3 DEF Rests, ExecuteCall, ExecutePush, ExecuteSize, ExecuteDecide
  <2>2. exec' \in [Submitters -> {"idle", "push", "size", "decide", "extend"}]
    BY <1>3 DEF TypeInv, ExecuteCall, ExecutePush, ExecuteSize, ExecuteDecide
  <2> QED BY <2>1, <2>2, PcType DEF TypeInv
<1>4. ASSUME NEW s \in Submitters, extend_thread(s) PROVE TypeInv'
  <2>1. state' = state /\ (Starts \/ (Rests /\ core' = core))
    BY <1>4, Zenon DEF Rests, Starts, extend_thread
  <2>2. exec' \in [Submitters -> {"idle", "push", "size", "decide", "extend"}]
    BY <1>4 DEF TypeInv, extend_thread
  <2> QED BY <2>1, <2>2, PcType DEF TypeInv
<1>5. ASSUME NEW t \in Threads, thread_func(t) \/ Expire(t) PROVE TypeInv'
  <2>1. core' = core /\ state' = state /\ exec' = exec
    BY <1>5 DEF thread_func, Top, Pop, PopNothing, Begin, Finish, Check, Leave, LogExit, Expire
  <2>2. CASE Leave(t) \/ LogExit(t)
    <3>1. Exits
      BY <2>2 DEF Leave, LogExit, Exits, Inside
    <3> QED BY <2>1, <3>1, PcType DEF TypeInv
  <2>3. CASE Top(t) \/ Pop(t) \/ PopNothing(t) \/ Begin(t) \/ Finish(t) \/ Check(t) \/ Expire(t)
    <3>1. Moves
      BY <2>3 DEF Top, Pop, PopNothing, Begin, Finish, Check, Expire, Moves, Inside, Working
    <3> QED BY <2>1, <3>1, PcType DEF TypeInv
  <2> QED BY <1>5, <2>2, <2>3 DEF thread_func
<1>6. CASE shutdown \/ await_termination
  BY <1>6, PcType DEF shutdown, await_termination, Rests, TypeInv
<1>7. CASE UNCHANGED vars
  BY <1>7, PcType DEF vars, Rests, TypeInv
<1> QED BY <1>1, <1>2, <1>3, <1>4, <1>5, <1>6, <1>7 DEF Next, Execute

-----------------------------------------------------------------------------
\* Every step has TypeInv before it and after it: with this the other invariants are proved.
LEMMA AlwaysTyped == ASSUME ThreadPoolConstants PROVE Spec => []TypeInv
<1>1. Init => TypeInv
  BY TypeInvInit
<1>2. TypeInv /\ [Next]_vars => TypeInv'
  BY TypeInvStep
<1> QED BY <1>1, <1>2, PTL DEF Spec

\* A new thread is one entry more at most.
LEMMA OneMore ==
  ASSUME ThreadPoolConstants, TypeInv, NEW isCore, create_thread_locked(isCore), NEW b \in Nat,
         Cardinality(threads) < b
  PROVE  Cardinality(threads') <= b
<1> DEFINE t == Cardinality(Created) + 1
<1>1. threads' = threads \cup {t}
  BY DEF create_thread_locked
<1>2. IsFiniteSet(threads) /\ Cardinality(threads) \in Nat
  BY ThreadsFinite DEF TypeInv
<1> HIDE DEF t
<1>3. Cardinality(threads') \in {Cardinality(threads), Cardinality(threads) + 1}
  BY <1>1, <1>2, FS_AddElement
<1> QED BY <1>2, <1>3

LEMMA PoolBoundStep ==
  ASSUME ThreadPoolConstants
  PROVE  TypeInv /\ PoolBound /\ [Next]_vars => PoolBound'
<1> SUFFICES ASSUME TypeInv, PoolBound, [Next]_vars PROVE PoolBound'
  OBVIOUS
<1> USE DEF pool, submit, PoolBound
<1>1. CASE InitCreate
  <2>1. Cardinality(threads') <= CoreSize
    BY <1>1, OneMore, Zenon DEF InitCreate, ThreadPoolConstants
  <2>2. Cardinality(threads') \in Nat
    BY TypeInvStep, ThreadsFinite DEF TypeInv
  <2> QED BY <2>1, <2>2 DEF ThreadPoolConstants
<1>2. ASSUME NEW s \in Submitters, extend_thread(s) PROVE PoolBound'
  <2>1. CASE NeedsThread
    BY <1>2, <2>1, OneMore, Zenon DEF extend_thread, NeedsThread, ThreadPoolConstants
  <2> QED BY <1>2, <2>1, Zenon DEF extend_thread
<1>3. ASSUME NEW t \in Threads, Leave(t) PROVE PoolBound'
  <2>1. threads' = threads \ {t}
    BY <1>3 DEF Leave
  <2>2. IsFiniteSet(threads) /\ Cardinality(threads) \in Nat
    BY ThreadsFinite DEF TypeInv
  <2>3. Cardinality(threads') \in {Cardinality(threads), Cardinality(threads) - 1}
    BY <2>1, <2>2, FS_RemoveElement
  <2> QED BY <2>2, <2>3 DEF ThreadPoolConstants
<1>4. ASSUME NEW s \in Submitters, ExecuteCall(s) \/ ExecutePush(s) \/ ExecuteSize(s) \/ ExecuteDecide(s)
      PROVE  PoolBound'
  BY <1>4 DEF ExecuteCall, ExecutePush, ExecuteSize, ExecuteDecide
<1>5. ASSUME NEW t \in Threads, Top(t) \/ Pop(t) \/ PopNothing(t) \/ Begin(t) \/ Finish(t) \/ Check(t) \/ LogExit(t) \/ Expire(t)
      PROVE  PoolBound'
  BY <1>5 DEF Top, Pop, PopNothing, Begin, Finish, Check, LogExit, Expire
<1>6. CASE InitDone \/ shutdown \/ await_termination \/ UNCHANGED vars
  BY <1>6 DEF InitDone, shutdown, await_termination, vars
<1> QED BY <1>1, <1>2, <1>3, <1>4, <1>5, <1>6 DEF Next, Execute, thread_func

\* threads_ never has more than max_pool_size_ entries (extend_thread looks again with the
\* lock), for any number of submitters that decide without it.
THEOREM BoundKept == ASSUME ThreadPoolConstants PROVE Spec => []PoolBound
<1>1. Init => PoolBound
  BY FS_EmptySet DEF Init, PoolBound, ThreadPoolConstants
<1>2. TypeInv /\ PoolBound /\ [Next]_vars => PoolBound'
  BY PoolBoundStep
<1> QED BY <1>1, <1>2, AlwaysTyped, PTL DEF Spec

-----------------------------------------------------------------------------
\* Where the elements of a queue are after a push and after a pop (SimpleQueue).
LEMMA Pushed ==
  ASSUME NEW S, NEW q \in Seq(S), NEW x \in S
  PROVE  /\ Append(q, x) \in Seq(S) /\ Len(Append(q, x)) = Len(q) + 1
         /\ \A i \in 1 .. Len(q) : Append(q, x)[i] = q[i]
         /\ Append(q, x)[Len(q) + 1] = x
  OBVIOUS

LEMMA Popped ==
  ASSUME NEW S, NEW q \in Seq(S), q # <<>>
  PROVE  /\ Len(q) \in Nat \ {0} /\ Head(q) = q[1] /\ q[1] \in S
         /\ Tail(q) \in Seq(S) /\ Len(Tail(q)) = Len(q) - 1
         /\ \A i \in 1 .. Len(q) - 1 : Tail(q)[i] = q[i + 1]
  OBVIOUS

\* A step that touches no task.
LEMMA TasksRest ==
  ASSUME TaskInv, UNCHANGED <<tasks, queue, ran, task>>,
         \A t \in Threads : pc'[t] \in Working <=> pc[t] \in Working
  PROVE  TaskInv'
  BY DEF TaskInv, TaskTypes, PlaceInv

\* ExecutePush: the new task is in the queue and nowhere else.
LEMMA TaskPushed ==
  ASSUME TaskInv, tasks' = tasks + 1, queue' = Append(queue, tasks + 1), UNCHANGED <<ran, task, pc>>
  PROVE  TaskInv'
<1> DEFINE n == Len(queue)
<1>0. tasks \in Nat /\ n \in Nat /\ 1 .. tasks \subseteq 1 .. tasks' /\ tasks' \in Nat
  BY DEF TaskInv, TaskTypes
<1>1. queue \in Seq(1 .. tasks') /\ tasks + 1 \in 1 .. tasks'
  BY <1>0 DEF TaskInv, TaskTypes
<1>2. /\ queue' \in Seq(1 .. tasks') /\ Len(queue') = n + 1
      /\ \A i \in 1 .. n : queue'[i] = queue[i]
      /\ queue'[n + 1] = tasks + 1
  BY <1>1, Pushed
<1>3. TaskTypes'
  BY <1>0, <1>2 DEF TaskInv, TaskTypes
<1>4. \A i \in 1 .. n : queue[i] \in 1 .. tasks
  BY DEF TaskInv, TaskTypes
<1>5. tasks + 1 \notin ran /\ \A t \in Threads : task[t] # tasks + 1
  BY <1>0 DEF TaskInv, TaskTypes
<1>6. \A i \in 1 .. Len(queue') : i \in 1 .. n \/ i = n + 1
  BY <1>0, <1>2
<1> HIDE DEF n
<1>7. \A i, j \in 1 .. Len(queue') : queue'[i] = queue'[j] => i = j
  <2>1. \A i \in 1 .. n : queue'[i] # tasks + 1
    BY <1>0, <1>2, <1>4
  <2>2. \A i, j \in 1 .. n : queue[i] = queue[j] => i = j
    BY DEF TaskInv, PlaceInv, n
  <2>3. \A i, j \in 1 .. n : queue'[i] = queue'[j] => i = j
    BY <1>2, <2>2, Zenon
  <2> QED BY <1>2, <1>6, <2>1, <2>3
<1>8. \A i \in 1 .. Len(queue') : queue'[i] \notin ran /\ \A t \in Threads : queue'[i] # task[t]
  BY <1>2, <1>5, <1>6 DEF TaskInv, PlaceInv, n
<1>9. ASSUME NEW k \in 1 .. tasks'
      PROVE  k \in ran \/ (\E i \in 1 .. Len(queue') : queue'[i] = k) \/ \E t \in Threads : task[t] = k
  <2>1. CASE k = tasks + 1
    <3>1. n + 1 \in 1 .. Len(queue')
      BY <1>0, <1>2
    <3> QED BY <1>2, <2>1, <3>1
  <2>2. CASE k \in 1 .. tasks
    <3>1. \A i \in 1 .. n : i \in 1 .. Len(queue')
      BY <1>0, <1>2
    <3> QED BY <1>2, <2>2, <3>1, Zenon DEF TaskInv, PlaceInv, n
  <2> QED BY <1>0, <2>1, <2>2
<1>10. PlaceInv'
  BY <1>7, <1>8, <1>9 DEF TaskInv, PlaceInv
<1> QED BY <1>3, <1>10 DEF TaskInv

\* Pop: the first task of the queue goes to a thread that has none.
LEMMA TaskPopped ==
  ASSUME TypeInv, TaskInv, NEW t \in Threads, Pop(t)
  PROVE  TaskInv'
<1> DEFINE n == Len(queue)
<1>0. /\ pc[t] = "pop" /\ queue # <<>> /\ pc' = [pc EXCEPT ![t] = "begin"]
      /\ queue' = Tail(queue) /\ task' = [task EXCEPT ![t] = Head(queue)] /\ UNCHANGED <<tasks, ran>>
  BY DEF Pop, submit
<1>1. queue \in Seq(1 .. tasks) /\ tasks \in Nat /\ task \in [Threads -> 0 .. tasks]
  BY DEF TaskInv, TaskTypes
<1>2. /\ n \in Nat \ {0} /\ Head(queue) = queue[1] /\ queue[1] \in 1 .. tasks
      /\ queue' \in Seq(1 .. tasks) /\ Len(queue') = n - 1
      /\ \A i \in 1 .. n - 1 : queue'[i] = queue[i + 1]
  BY <1>0, <1>1, Popped
<1>3. /\ task'[t] = queue[1] /\ \A u \in Threads \ {t} : task'[u] = task[u]
      /\ task' \in [Threads -> 0 .. tasks]
  BY <1>0, <1>1, <1>2
<1>4. TaskTypes'
  BY <1>0, <1>2, <1>3 DEF TaskInv, TaskTypes
<1>5. \A i \in 1 .. Len(queue') : i + 1 \in 1 .. n /\ i + 1 # 1 /\ queue'[i] = queue[i + 1]
  BY <1>2
<1>6. 1 \in 1 .. n /\ queue[1] # None /\ \A i \in 1 .. n : i = 1 \/ (i - 1 \in 1 .. Len(queue') /\ queue'[i - 1] = queue[i])
  BY <1>2 DEF None
<1>7. task[t] = None
  BY <1>0 DEF TaskInv, PlaceInv, Working
<1> HIDE DEF n
<1>8. \A u \in Threads : task'[u] # None <=> pc'[u] \in Working
  <2>1. pc'[t] = "begin" /\ \A u \in Threads \ {t} : pc'[u] = pc[u]
    BY <1>0 DEF TypeInv
  <2> QED BY <1>3, <1>6, <2>1 DEF TaskInv, PlaceInv, Working
<1>9. \A i, j \in 1 .. Len(queue') : queue'[i] = queue'[j] => i = j
  <2> SUFFICES ASSUME NEW i \in 1 .. Len(queue'), NEW j \in 1 .. Len(queue'), queue'[i] = queue'[j] PROVE i = j
    OBVIOUS
  <2>1. i + 1 = j + 1
    BY <1>5 DEF TaskInv, PlaceInv, n
  <2>2. i \in Int /\ j \in Int
    OBVIOUS
  <2> QED BY <2>1, <2>2
<1>10. \A u, v \in Threads : task'[u] = task'[v] /\ task'[u] # None => u = v
  BY <1>3, <1>6 DEF TaskInv, PlaceInv, n
<1>11. \A i \in 1 .. Len(queue') : queue'[i] \notin ran /\ \A u \in Threads : queue'[i] # task'[u]
  <2> SUFFICES ASSUME NEW i \in 1 .. Len(queue')
               PROVE  queue[i + 1] \notin ran /\ \A u \in Threads : queue[i + 1] # task'[u]
    BY <1>5, SMTT(90)
  <2>1. queue[i + 1] \notin ran /\ \A u \in Threads : queue[i + 1] # task[u]
    BY <1>5, SMTT(90) DEF TaskInv, PlaceInv, n
  <2>2. queue[i + 1] # queue[1]
    BY <1>5, <1>6 DEF TaskInv, PlaceInv, n
  <2> QED BY <1>3, <2>1, <2>2, SMTT(90)
<1>12. \A u \in Threads : task'[u] \notin ran
  BY <1>3, <1>6, SMTT(90) DEF TaskInv, PlaceInv, n
<1>13. ASSUME NEW k \in 1 .. tasks
       PROVE  k \in ran \/ (\E i \in 1 .. Len(queue') : queue'[i] = k) \/ \E u \in Threads : task'[u] = k
  <2>1. CASE k \in ran
    BY <2>1
  <2>2. CASE \E i \in 1 .. n : queue[i] = k
    BY <1>3, <1>6, <2>2
  <2>3. CASE \E u \in Threads : task[u] = k
    <3>1. k # None
      BY <1>1 DEF None
    <3> QED BY <1>3, <1>7, <2>3, <3>1
  <2> QED BY <2>1, <2>2, <2>3 DEF TaskInv, PlaceInv, n
<1>14. PlaceInv'
  BY <1>0, <1>8, <1>9, <1>10, <1>11, <1>12, <1>13 DEF PlaceInv
<1> QED BY <1>4, <1>14 DEF TaskInv

\* Finish: the task a thread had is run.
LEMMA TaskFinished ==
  ASSUME TypeInv, TaskInv, NEW t \in Threads, Finish(t)
  PROVE  TaskInv'
<1>0. /\ pc[t] = "run" /\ pc' = [pc EXCEPT ![t] = "check"] /\ ran' = ran \cup {task[t]}
      /\ task' = [task EXCEPT ![t] = None] /\ UNCHANGED <<tasks, queue>>
  BY DEF Finish, submit
<1>1. task[t] # None /\ task[t] \in 1 .. tasks
  BY <1>0 DEF TaskInv, TaskTypes, PlaceInv, Working, None
<1>2. task'[t] = None /\ (\A u \in Threads \ {t} : task'[u] = task[u])
  BY <1>0 DEF TaskInv, TaskTypes
<1>3. TaskTypes'
  <2>1. tasks \in Nat /\ None \in 0 .. tasks /\ task \in [Threads -> 0 .. tasks]
    BY DEF TaskInv, TaskTypes, None
  <2>2. task' \in [Threads -> 0 .. tasks]
    BY <1>0, <2>1
  <2>3. ran' \subseteq 1 .. tasks
    BY <1>0, <1>1, Zenon DEF TaskInv, TaskTypes
  <2> QED BY <1>0, <2>2, <2>3 DEF TaskInv, TaskTypes
<1>4. None \notin ran'
  BY <1>3 DEF TaskTypes, None
<1>5. \A u \in Threads : task'[u] # None <=> pc'[u] \in Working
  <2>1. pc'[t] = "check" /\ \A u \in Threads \ {t} : pc'[u] = pc[u]
    BY <1>0, SMTT(90) DEF TypeInv
  <2> QED BY <1>2, <2>1 DEF TaskInv, PlaceInv, Working
<1>6. \A u, v \in Threads : task'[u] = task'[v] /\ task'[u] # None => u = v
  BY <1>2 DEF TaskInv, PlaceInv
<1>7. \A i \in 1 .. Len(queue) : queue[i] # None
  BY DEF TaskInv, TaskTypes, None
<1>8. \A i \in 1 .. Len(queue) : queue[i] \notin ran' /\ \A u \in Threads : queue[i] # task'[u]
  BY <1>0, <1>2, <1>7 DEF TaskInv, PlaceInv
<1>9. \A u \in Threads : task'[u] \notin ran'
  BY <1>0, <1>1, <1>2, <1>4 DEF TaskInv, PlaceInv
<1>10. ASSUME NEW k \in 1 .. tasks
       PROVE  k \in ran' \/ (\E i \in 1 .. Len(queue) : queue[i] = k) \/ \E u \in Threads : task'[u] = k
  BY <1>0, <1>2 DEF TaskInv, PlaceInv
<1>11. PlaceInv'
  BY <1>0, <1>5, <1>6, <1>8, <1>9, <1>10 DEF TaskInv, PlaceInv
<1> QED BY <1>3, <1>11 DEF TaskInv

-----------------------------------------------------------------------------
LEMMA TaskInvInit == Init => TaskInv
<1> SUFFICES ASSUME Init PROVE TaskInv
  OBVIOUS
<1>1. TaskTypes
  BY DEF Init, TaskTypes, None
<1>2. PlaceInv
  BY DEF Init, PlaceInv, Working, None
<1> QED BY <1>1, <1>2 DEF TaskInv

LEMMA TaskInvStep ==
  ASSUME ThreadPoolConstants
  PROVE  TypeInv /\ TaskInv /\ [Next]_vars => TaskInv'
<1> SUFFICES ASSUME TypeInv, TaskInv, [Next]_vars PROVE TaskInv'
  OBVIOUS
<1> USE DEF pool, submit
<1>1. ASSUME NEW isCore, create_thread_locked(isCore), UNCHANGED <<tasks, queue, ran, task>> PROVE TaskInv'
  <2> DEFINE t == Cardinality(Created) + 1
  <2>1. CanCreate /\ pc' = [pc EXCEPT ![t] = "top"]
    BY <1>1 DEF create_thread_locked
  <2>2. t \in Threads /\ pc[t] = "none"
    BY <2>1, FreshThread
  <2> HIDE DEF t
  <2>3. \A u \in Threads : pc'[u] \in Working <=> pc[u] \in Working
    BY <2>1, <2>2 DEF TypeInv, Working
  <2> QED BY <1>1, <2>3, TasksRest
<1>2. CASE InitCreate
  BY <1>1, <1>2, Zenon DEF InitCreate
<1>3. ASSUME NEW s \in Submitters, extend_thread(s) PROVE TaskInv'
  <2>1. CASE NeedsThread
    BY <1>1, <1>3, <2>1, Zenon DEF extend_thread
  <2>2. CASE ~NeedsThread
    BY <1>3, <2>2, TasksRest DEF extend_thread
  <2> QED BY <2>1, <2>2
<1>4. ASSUME NEW s \in Submitters, ExecutePush(s) PROVE TaskInv'
  BY <1>4, TaskPushed DEF ExecutePush
<1>5. ASSUME NEW s \in Submitters, ExecuteCall(s) \/ ExecuteSize(s) \/ ExecuteDecide(s) PROVE TaskInv'
  BY <1>5, TasksRest DEF ExecuteCall, ExecuteSize, ExecuteDecide
<1>6. ASSUME NEW t \in Threads, thread_func(t) \/ Expire(t) PROVE TaskInv'
  <2>1. CASE Pop(t)
    BY <2>1, TaskPopped
  <2>2. CASE Finish(t)
    BY <2>2, TaskFinished, SMTT(90)
  <2>3. CASE Top(t) \/ PopNothing(t) \/ Begin(t) \/ Check(t) \/ Leave(t) \/ LogExit(t) \/ Expire(t)
    <3>1. UNCHANGED <<tasks, queue, ran, task>>
      BY <2>3, SMTT(90) DEF Top, PopNothing, Begin, Check, Leave, LogExit, Expire
    <3>2. \A u \in Threads : pc'[u] \in Working <=> pc[u] \in Working
      BY <2>3 DEF Top, PopNothing, Begin, Check, Leave, LogExit, Expire, TypeInv, Working
    <3> QED BY <3>1, <3>2, TasksRest
  <2> QED BY <1>6, <2>1, <2>2, <2>3 DEF thread_func
<1>7. CASE InitDone \/ shutdown \/ await_termination \/ UNCHANGED vars
  BY <1>7, TasksRest DEF InitDone, shutdown, await_termination, vars
<1> QED BY <1>2, <1>3, <1>4, <1>5, <1>6, <1>7 DEF Next, Execute

LEMMA AlwaysPlaced == ASSUME ThreadPoolConstants PROVE Spec => []TaskInv
<1>1. Init => TaskInv
  BY TaskInvInit
<1>2. TypeInv /\ TaskInv /\ [Next]_vars => TaskInv'
  BY TaskInvStep
<1> QED BY <1>1, <1>2, AlwaysTyped, PTL DEF Spec

\* A set with at most one element has the cardinality one or zero.
LEMMA AtMostOne ==
  ASSUME NEW S, \A x, y \in S : x = y
  PROVE  Cardinality(S) = IF S = {} THEN 0 ELSE 1
<1>1. CASE S = {}
  BY <1>1, FS_EmptySet
<1>2. CASE S # {}
  <2>1. PICK x \in S : S = {x}
    BY <1>2
  <2> QED BY <1>2, <2>1, FS_Singleton
<1> QED BY <1>1, <1>2

LEMMA PlacesCounted == TaskInv => OnePlace
<1> SUFFICES ASSUME TaskInv, NEW k \in 1 .. tasks
             PROVE  Cardinality({i \in DOMAIN queue : queue[i] = k}) + Cardinality({t \in Threads : task[t] = k})
                      + (IF k \in ran THEN 1 ELSE 0) = 1
  BY DEF OnePlace
<1> DEFINE Q == {i \in DOMAIN queue : queue[i] = k}
           T == {t \in Threads : task[t] = k}
<1>1. DOMAIN queue = 1 .. Len(queue) /\ k # None
  BY SMTT(90) DEF TaskInv, TaskTypes, None
<1>2. Cardinality(Q) = IF Q = {} THEN 0 ELSE 1
  <2>1. \A x, y \in Q : x = y
    BY <1>1 DEF TaskInv, PlaceInv
  <2> QED BY <2>1, AtMostOne, SMTT(90)
<1>3. Cardinality(T) = IF T = {} THEN 0 ELSE 1
  <2>1. \A x, y \in T : x = y
    BY <1>1, SMTT(90) DEF TaskInv, PlaceInv
  <2> QED BY <2>1, AtMostOne
<1>4. k \in ran \/ Q # {} \/ T # {}
  BY <1>1 DEF TaskInv, PlaceInv
<1>5. /\ Q # {} => k \notin ran /\ T = {}
      /\ T # {} => k \notin ran
  BY <1>1 DEF TaskInv, PlaceInv
<1> HIDE DEF Q, T
<1>6. Cardinality(Q) + Cardinality(T) + (IF k \in ran THEN 1 ELSE 0) = 1
  BY <1>2, <1>3, <1>4, <1>5
<1> QED BY <1>6 DEF Q, T

\* A task accepted by execute is in the queue, with one thread or run, and only at one of these
\* places: none is lost and none run twice, whichever threads come and go meanwhile.
THEOREM PlacedOnce == ASSUME ThreadPoolConstants PROVE Spec => []OnePlace
<1>1. TaskInv => OnePlace
  BY PlacesCounted
<1> QED BY <1>1, AlwaysPlaced, PTL

-----------------------------------------------------------------------------
LEMMA CoreInvInit == Init => CoreInv
  BY DEF Init, CoreInv

LEMMA CoreInvStep ==
  ASSUME ThreadPoolConstants, Orderly
  PROVE  TypeInv /\ CoreInv /\ [Next]_vars => CoreInv'
<1> SUFFICES ASSUME TypeInv, CoreInv, [Next]_vars PROVE CoreInv'
  OBVIOUS
<1> USE DEF pool, submit
<1>1. CASE InitCreate
  <2> DEFINE t == Cardinality(Created) + 1
  <2>1. /\ state = "NEW" /\ CanCreate /\ threads' = threads \cup {t} /\ core' = core \cup {t}
        /\ pc' = [pc EXCEPT ![t] = "top"] /\ UNCHANGED <<state, queue, exec, closer>>
    BY <1>1 DEF InitCreate, create_thread_locked
  <2>2. t \in Threads /\ pc[t] = "none"
    BY <2>1, FreshThread
  <2> HIDE DEF t
  <2>3. \A u \in core' : pc'[u] \in Left => u \in core /\ pc[u] \in Left
    BY <2>1, <2>2 DEF TypeInv, Left
  <2> QED BY <2>1, <2>3 DEF CoreInv
<1>2. CASE InitDone
  <2>1. core # {}
    <3>1. threads = core /\ Cardinality(threads) >= CoreSize /\ CoreSize > 0
      BY <1>2 DEF InitDone, CoreInv, Orderly
    <3> QED BY <3>1, FS_EmptySet DEF ThreadPoolConstants
  <2>2. \A u \in core : pc[u] \notin Left
    BY <1>2 DEF InitDone, CoreInv
  <2> QED BY <1>2, <2>1, <2>2 DEF InitDone, CoreInv
<1>3. ASSUME NEW s \in Submitters, ExecuteCall(s) \/ Execute(s) PROVE CoreInv'
  <2>1. state = "RUNNING" /\ state' = state /\ closer = "idle" /\ closer' = closer
    BY <1>3, Zenon DEF ExecuteCall, Execute, ExecutePush, ExecuteSize, ExecuteDecide, extend_thread, CoreInv, TypeInv
  <2>2. core' = core
    BY <1>3 DEF ExecuteCall, Execute, ExecutePush, ExecuteSize, ExecuteDecide, extend_thread, create_thread_locked
  <2>3. \A u \in core : pc[u] \notin Left
    BY <2>1, SMTT(90) DEF CoreInv
  <2>4. \A u \in core : pc'[u] \notin Left
    <3>1. CASE pc' = pc
      BY <2>3, <3>1
    <3>2. CASE pc' = [pc EXCEPT ![Cardinality(Created) + 1] = "top"]
      BY <2>3, <3>2, SMTT(90) DEF TypeInv, Created, Left
    <3> QED BY <1>3, <3>1, <3>2 DEF ExecuteCall, Execute, ExecutePush, ExecuteSize, ExecuteDecide,
                                    extend_thread, create_thread_locked
  <2> QED BY <2>1, <2>2, <2>4 DEF CoreInv
<1>4. ASSUME NEW t \in Threads, thread_func(t) \/ Expire(t) PROVE CoreInv'
  <2>1. UNCHANGED <<state, core, exec, closer>>
    BY <1>4, Zenon DEF thread_func, Top, Pop, PopNothing, Begin, Finish, Check, Leave, LogExit, Expire
  <2>2. queue = <<>> => queue' = <<>>
    BY <1>4, Zenon DEF thread_func, Top, Pop, PopNothing, Begin, Finish, Check, Leave, LogExit, Expire
  <2>3. \A u \in core : pc'[u] \in Left => pc[u] \in Left \/ (state = "TERMINATING" /\ queue = <<>>)
    <3>0. core \subseteq Threads /\ DOMAIN pc = Threads
      BY DEF TypeInv, Created
    <3>1. CASE Check(t)
      <4>1. /\ state # "NEW" /\ pc' = [pc EXCEPT ![t] = IF Breaks THEN "leave" ELSE "top"]
        BY <3>1 DEF Check, Orderly
      <4>2. Breaks => state = "TERMINATING" /\ queue = <<>>
        BY <4>1 DEF Breaks, TypeInv
      <4>3. \A u \in core : pc'[u] \in Left => pc[u] \in Left \/ Breaks
        BY <4>1 DEF TypeInv, Left
      <4> QED BY <4>2, <4>3
    <3>2. CASE Expire(t)
      BY <3>2 DEF Expire, Stays, TypeInv, Left
    <3>3. CASE Top(t) \/ Pop(t) \/ PopNothing(t) \/ Begin(t) \/ Finish(t)
      <4>1. PICK p \in {"pop", "begin", "check", "run"} : pc' = [pc EXCEPT ![t] = p]
        BY <3>3 DEF Top, Pop, PopNothing, Begin, Finish
      <4> QED BY <3>0, <4>1, SMTT(90) DEF Left
    <3>4. CASE Leave(t) \/ LogExit(t)
      <4>1. pc[t] \in Left /\ \E p \in {"log", "gone"} : pc' = [pc EXCEPT ![t] = p]
        BY <3>4, SMTT(90) DEF Leave, LogExit, Left
      <4> QED BY <3>0, <4>1, SMTT(90)
    <3> QED BY <1>4, <3>1, <3>2, <3>3, <3>4, Zenon DEF thread_func
  <2>4. CASE Leave(t)
    <3>1. pc[t] = "leave" /\ threads' = threads \ {t}
      BY <2>4 DEF Leave
    <3>2. state # "NEW"
      BY <3>1, SMTT(90) DEF TypeInv, CoreInv, Left, Inside
    <3> QED BY <2>1, <2>2, <2>3, <3>1, <3>2 DEF CoreInv
  <2>5. CASE ~Leave(t)
    <3>1. threads' = threads
      BY <1>4, <2>5 DEF thread_func, Top, Pop, PopNothing, Begin, Finish, Check, LogExit, Expire
    <3> QED BY <2>1, <2>2, <2>3, <3>1, SMTT(90) DEF CoreInv
  <2> QED BY <2>4, <2>5, SMTT(90)
<1>5. CASE shutdown
  BY <1>5 DEF shutdown, CoreInv, Orderly
<1>6. CASE await_termination
  BY <1>6 DEF await_termination, CoreInv
<1>7. CASE UNCHANGED vars
  BY <1>7 DEF vars, CoreInv
<1> QED BY <1>1, <1>2, <1>3, <1>4, <1>5, <1>6, <1>7 DEF Next

LEMMA AlwaysOrderly == ASSUME ThreadPoolConstants, Orderly PROVE Spec => []CoreInv
<1>1. Init => CoreInv
  BY CoreInvInit
<1>2. TypeInv /\ CoreInv /\ [Next]_vars => CoreInv'
  BY CoreInvStep
<1> QED BY <1>1, <1>2, AlwaysTyped, PTL DEF Spec

\* When threads_ is empty after shutdown no thread has a task and nothing is queued.
LEMMA EmptyDrained == ASSUME TypeInv, TaskInv, CoreInv PROVE Drained
<1> SUFFICES ASSUME closer = "returned" PROVE ran = 1 .. tasks
  BY DEF Drained
<1>1. threads = {} /\ state = "TERMINATING"
  BY DEF CoreInv
<1>2. \A t \in Threads : pc[t] \notin Inside /\ task[t] = None
  BY <1>1 DEF TypeInv, TaskInv, PlaceInv, Inside
<1>3. PICK t \in core : TRUE
  BY <1>1 DEF CoreInv
<1>4. pc[t] \in Left
  BY <1>2 DEF TypeInv, Created, Left
<1>5. queue = <<>>
  BY <1>4 DEF CoreInv
<1>6. \A k \in 1 .. tasks : k \in ran \/ \E u \in Threads : task[u] = k
  <2>1. 1 .. Len(queue) = {}
    BY <1>5
  <2> QED BY <2>1, Zenon DEF TaskInv, PlaceInv
<1>7. \A k \in 1 .. tasks : k # None
  BY DEF TaskInv, TaskTypes, None
<1> QED BY <1>2, <1>6, <1>7, Zenon DEF TaskInv, TaskTypes

\* await_termination returns only when every task that execute accepted has been run: with a
\* core thread, an init that is over before a thread first looks at the state, and shutdown
\* called when nobody is inside execute.
THEOREM DrainedAtEnd == ASSUME ThreadPoolConstants, Orderly PROVE Spec => []Drained
<1>1. TypeInv /\ TaskInv /\ CoreInv => Drained
  BY EmptyDrained
<1> QED BY <1>1, AlwaysTyped, AlwaysPlaced, AlwaysOrderly, PTL

\* The three together, as the run of the pool checks them: a task accepted by execute is at one
\* place, the pool keeps its bound, and it is empty when await_termination returns.
THEOREM TasksSafe == ASSUME ThreadPoolConstants, Orderly PROVE Spec => []TasksOnce
<1>1. OnePlace /\ PoolBound /\ Drained => TasksOnce
  BY DEF TasksOnce
<1> QED BY <1>1, PlacedOnce, BoundKept, DrainedAtEnd, PTL

\* Core threads stay until shutdown, whatever their deadlines (thread_func).
THEOREM CoreKept == ASSUME ThreadPoolConstants, Orderly PROVE Spec => []CoreStays
<1>1. CoreInv => CoreStays
  BY SMTT(90) DEF CoreInv, CoreStays, Left
<1> QED BY <1>1, AlwaysOrderly, PTL

-----------------------------------------------------------------------------
(* SharedLock.  shared_lock_count_ is one number for the holdings of all       *)
(* readers, so the proof counts the units they hold.                           *)

\* The units of the read side: the n-th that thread t holds is <<t, n>>.
Units(r) == {p \in Lockers \X Nat : 1 <= p[2] /\ p[2] <= r[p[1]]}

CountInv ==
  /\ reads \in [Lockers -> Nat]
  /\ IsFiniteSet(Units(reads)) /\ shared = Cardinality(Units(reads))

\* Nobody has the write side, or its owner has, as often as recursive_count_ says.
OwnerInv ==
  /\ writes \in [Lockers -> Nat]
  /\ \/ exclusive = 0 /\ owner = NoThread /\ \A t \in Lockers : writes[t] = 0
     \/ /\ exclusive = 1 /\ owner \in Lockers /\ depth = writes[owner] /\ writes[owner] > 0
        /\ \A t \in Lockers : reads[t] = 0 /\ (t # owner => writes[t] = 0)

LockInv == CountInv /\ OwnerInv

-----------------------------------------------------------------------------
\* One more unit (lock_shared, try_lock_shared).
LEMMA UnitTaken ==
  ASSUME NEW r \in [Lockers -> Nat], NEW t \in Lockers, IsFiniteSet(Units(r))
  PROVE  LET q == [r EXCEPT ![t] = @ + 1]
         IN /\ q \in [Lockers -> Nat] /\ IsFiniteSet(Units(q))
            /\ Cardinality(Units(q)) = Cardinality(Units(r)) + 1
<1> DEFINE q == [r EXCEPT ![t] = @ + 1]
           new == <<t, r[t] + 1>>
<1>1. q \in [Lockers -> Nat]
  OBVIOUS
<1>2. new \notin Units(r)
  BY DEF Units
<1>3. Units(q) = Units(r) \cup {new}
  <2>1. ASSUME NEW u \in Lockers, NEW n \in Nat
        PROVE  1 <= n /\ n <= q[u] <=> (1 <= n /\ n <= r[u]) \/ (u = t /\ n = r[t] + 1)
    OBVIOUS
  <2>2. ASSUME NEW p \in Lockers \X Nat
        PROVE  p \in Units(q) <=> p \in Units(r) \/ p = new
    BY <2>1 DEF Units
  <2>3. new \in Lockers \X Nat
    OBVIOUS
  <2> HIDE DEF q, new
  <2> QED BY <2>2, <2>3 DEF Units
<1> HIDE DEF new, q
<1>4. IsFiniteSet(Units(q)) /\ Cardinality(Units(q)) = Cardinality(Units(r)) + 1
  BY <1>2, <1>3, FS_AddElement
<1> QED BY <1>1, <1>4 DEF q

\* One unit less (unlock_shared).
LEMMA UnitReturned ==
  ASSUME NEW r \in [Lockers -> Nat], NEW t \in Lockers, IsFiniteSet(Units(r)), r[t] > 0
  PROVE  LET q == [r EXCEPT ![t] = @ - 1]
         IN /\ q \in [Lockers -> Nat] /\ IsFiniteSet(Units(q))
            /\ Cardinality(Units(q)) = Cardinality(Units(r)) - 1
<1> DEFINE q == [r EXCEPT ![t] = @ - 1]
           old == <<t, r[t]>>
<1>1. q \in [Lockers -> Nat]
  OBVIOUS
<1>2. old \in Units(r)
  BY DEF Units
<1>3. Units(q) = Units(r) \ {old}
  <2>1. ASSUME NEW u \in Lockers, NEW n \in Nat
        PROVE  1 <= n /\ n <= q[u] <=> (1 <= n /\ n <= r[u]) /\ ~(u = t /\ n = r[t])
    OBVIOUS
  <2>2. ASSUME NEW p \in Lockers \X Nat
        PROVE  p \in Units(q) <=> p \in Units(r) /\ p # old
    BY <2>1 DEF Units
  <2> HIDE DEF q, old
  <2> QED BY <2>2 DEF Units
<1> HIDE DEF old, q
<1>4. IsFiniteSet(Units(q)) /\ Cardinality(Units(q)) = Cardinality(Units(r)) - 1
  BY <1>2, <1>3, FS_RemoveElement
<1> QED BY <1>1, <1>4 DEF q

\* A count of zero means that no thread reads.
LEMMA NoUnits ==
  ASSUME NEW r \in [Lockers -> Nat], IsFiniteSet(Units(r)), Cardinality(Units(r)) = 0, NEW t \in Lockers
  PROVE  r[t] = 0
<1>1. Units(r) = {}
  BY FS_EmptySet
<1>2. <<t, 1>> \in Lockers \X Nat /\ <<t, 1>> \notin Units(r)
  BY <1>1
<1> QED BY <1>2 DEF Units

-----------------------------------------------------------------------------
\* The read side is taken while nobody has the write side.
LEMMA SharedTaken ==
  ASSUME LockInv, NEW t \in Lockers, exclusive = 0, TakeShared(t)
  PROVE  LockInv'
<1>1. CountInv'
  BY UnitTaken, Zenon DEF LockInv, CountInv, TakeShared
<1>2. OwnerInv'
  BY DEF LockInv, OwnerInv, TakeShared
<1> QED BY <1>1, <1>2 DEF LockInv

\* The write side is taken while nobody has either.
LEMMA ExclusiveTaken ==
  ASSUME LockInv, NEW t \in Lockers, shared = 0, exclusive = 0, TakeExclusive(t)
  PROVE  LockInv'
<1>1. \A u \in Lockers : reads[u] = 0
  BY NoUnits, Zenon DEF LockInv, CountInv
<1>2. CountInv'
  BY Zenon DEF LockInv, CountInv, TakeExclusive
<1>3. OwnerInv'
  BY <1>1 DEF LockInv, OwnerInv, TakeExclusive
<1> QED BY <1>2, <1>3 DEF LockInv

LEMMA Slept ==
  ASSUME LockInv, NEW t, NEW side, Sleep(t, side)
  PROVE  LockInv'
  BY DEF LockInv, CountInv, OwnerInv, Sleep

LEMMA SharedLoopStep ==
  ASSUME LockInv, NEW t \in Lockers, SharedLoop(t)
  PROVE  LockInv'
<1>1. exclusive \in {0, 1}
  BY DEF LockInv, OwnerInv
<1> QED BY <1>1, SharedTaken, Slept DEF SharedLoop

\* The loop of lock: a thread that finds the write side its own takes it once more.
LEMMA ExclusiveLoopStep ==
  ASSUME NoThread \notin Lockers, LockInv, NEW t \in Lockers, ExclusiveLoop(t)
  PROVE  LockInv'
<1>1. CASE shared = 0 /\ exclusive = 0
  BY <1>1, ExclusiveTaken DEF ExclusiveLoop
<1>2. CASE ~(shared = 0 /\ exclusive = 0) /\ owner = t
  <2>1. /\ depth' = depth + 1 /\ writes' = [writes EXCEPT ![t] = @ + 1]
        /\ UNCHANGED <<shared, exclusive, owner, reads>>
    BY <1>2 DEF ExclusiveLoop
  <2> QED BY <1>2, <2>1 DEF LockInv, CountInv, OwnerInv
<1>3. CASE ~(shared = 0 /\ exclusive = 0) /\ owner # t
  BY <1>3, Slept DEF ExclusiveLoop
<1> QED BY <1>1, <1>2, <1>3

-----------------------------------------------------------------------------
LEMMA LockInvInit == SlInit => LockInv
<1> SUFFICES ASSUME SlInit PROVE LockInv
  OBVIOUS
<1>1. Units(reads) = {}
  BY DEF SlInit, Units
<1>2. CountInv
  BY <1>1, FS_EmptySet DEF SlInit, CountInv
<1>3. OwnerInv
  BY DEF SlInit, OwnerInv
<1> QED BY <1>2, <1>3 DEF LockInv

LEMMA LockInvStep ==
  ASSUME NoThread \notin Lockers
  PROVE  LockInv /\ [SlNext]_lockVars => LockInv'
<1> SUFFICES ASSUME LockInv, [SlNext]_lockVars PROVE LockInv'
  OBVIOUS
<1>1. ASSUME NEW t \in Lockers, lock_shared(t) PROVE LockInv'
  BY <1>1, SharedLoopStep DEF lock_shared
<1>2. ASSUME NEW t \in Lockers, try_lock_shared(t) PROVE LockInv'
  BY <1>2, SharedTaken DEF try_lock_shared
<1>3. ASSUME NEW t \in Lockers, lock(t) PROVE LockInv'
  BY <1>3, ExclusiveLoopStep DEF lock
<1>4. ASSUME NEW t \in Lockers, Resume(t) PROVE LockInv'
  BY <1>4, SharedLoopStep, ExclusiveLoopStep DEF Resume
<1>5. ASSUME NEW t \in Lockers, unlock_shared(t) PROVE LockInv'
  <2>1. /\ reads[t] > 0 /\ shared' = shared - 1 /\ reads' = [reads EXCEPT ![t] = @ - 1]
        /\ UNCHANGED <<exclusive, owner, depth, writes>>
    BY <1>5 DEF unlock_shared
  <2>2. CountInv'
    BY <2>1, UnitReturned, Zenon DEF LockInv, CountInv
  <2>3. OwnerInv'
    BY <2>1 DEF LockInv, OwnerInv
  <2> QED BY <2>2, <2>3 DEF LockInv
<1>6. ASSUME NEW t \in Lockers, unlock(t) PROVE LockInv'
  <2>1. /\ writes[t] > 0 /\ writes' = [writes EXCEPT ![t] = @ - 1] /\ UNCHANGED <<shared, reads>>
        /\ \/ owner = t /\ depth > 1 /\ depth' = depth - 1 /\ UNCHANGED <<exclusive, owner>>
           \/ ~(owner = t /\ depth > 1) /\ owner' = NoThread /\ depth' = 0 /\ exclusive' = exclusive - 1
    BY <1>6, Zenon DEF unlock
  <2>2. exclusive = 1 /\ owner = t /\ depth = writes[t]
    BY <2>1 DEF LockInv, OwnerInv
  <2>3. CountInv'
    BY <2>1 DEF LockInv, CountInv
  <2>4. OwnerInv'
    BY <2>1, <2>2 DEF LockInv, OwnerInv
  <2> QED BY <2>3, <2>4 DEF LockInv
<1>7. ASSUME NEW t \in Lockers, Spurious(t) PROVE LockInv'
  BY <1>7 DEF Spurious, LockInv, CountInv, OwnerInv
<1>8. CASE UNCHANGED lockVars
  BY <1>8 DEF lockVars, LockInv, CountInv, OwnerInv
<1> QED BY <1>1, <1>2, <1>3, <1>4, <1>5, <1>6, <1>7, <1>8 DEF SlNext

\* A thread with the write side of RecursiveSharedMutex is alone and its owner until its last
\* unlock, for any number of threads and calls and however the condition variables wake them.
THEOREM WriterAlways ==
  ASSUME NoThread \notin Lockers
  PROVE  SlSpec => []WriterAlone
<1>1. SlInit => LockInv
  BY LockInvInit
<1>2. LockInv /\ [SlNext]_lockVars => LockInv'
  BY LockInvStep
<1>3. LockInv => WriterAlone
  BY DEF LockInv, OwnerInv, WriterAlone
<1> QED BY <1>1, <1>2, <1>3, PTL DEF SlSpec

-----------------------------------------------------------------------------
(* LogService *)

ServiceTypes ==
  /\ made \in 0 .. MaxHandlers
  /\ handlers \in [Streams -> 0 .. made] /\ handles \in [Streams -> 0 .. made]
  /\ tail \in [Handlers -> Nat] /\ log \in [Streams -> Seq(Nat)]
  /\ step \in [Openers -> {"idle", "create", "publish", "open"}]
  /\ ls \in [Openers -> Streams \cup {CHOOSE s \in Streams : TRUE}]
  /\ mine \in [Openers -> 0 .. made]
  /\ entries \subseteq [ls : Streams, entry : Nat] /\ IsFiniteSet(entries)

\* A thread that uses a stream has the published handler.  One thread at most is making a
\* handler: none is published for its stream, and the one it has made is nobody else's.
UseInv ==
  \A t \in Openers :
    /\ step[t] # "idle" => ls[t] \in Streams
    /\ step[t] = "open" => mine[t] # NoHandler /\ handlers[ls[t]] = mine[t]
    /\ step[t] \in {"create", "publish"} =>
         /\ handlers[ls[t]] = NoHandler
         /\ \A u \in Openers : step[u] \in {"create", "publish"} => u = t
    /\ step[t] = "publish" =>
         /\ mine[t] # NoHandler /\ handles[ls[t]] = mine[t]
         /\ tail[mine[t]] = Len(log[ls[t]])
         /\ \A s \in Streams : handlers[s] # mine[t]

\* A published handler is in both maps, is that of one stream, and its tail is the end of
\* the log.
TailInv ==
  /\ \A s \in Streams : handlers[s] # NoHandler =>
       handles[s] = handlers[s] /\ tail[handlers[s]] = Len(log[s])
  /\ \A s, r \in Streams : handlers[s] = handlers[r] /\ handlers[s] # NoHandler => s = r

ServiceInv == ServiceTypes /\ UseInv /\ TailInv /\ EntriesKept

LEMMA ServiceInvInit == ASSUME LogServiceConstants PROVE ServiceInit => ServiceInv
<1>. SUFFICES ASSUME ServiceInit PROVE ServiceInv
  OBVIOUS
<1>1. IsFiniteSet(entries) /\ entries = {}
  BY FS_EmptySet DEF ServiceInit
<1>2. ServiceTypes
  BY <1>1 DEF ServiceInit, ServiceTypes, LogServiceConstants, NoHandler, Handlers
<1>. QED
  BY <1>1, <1>2 DEF ServiceInit, ServiceInv, UseInv, TailInv, EntriesKept, NoHandler

\* An entry goes behind the others: the handler's tail is the end of its log (append).
LEMMA AppendsAtEnd ==
  ASSUME LogServiceConstants, ServiceInv, NEW t \in Openers, append(t)
  PROVE  /\ ls[t] \in Streams /\ mine[t] \in Handlers /\ mine[t] = handlers[ls[t]]
         /\ tail' = [tail EXCEPT ![mine[t]] = Len(log[ls[t]]) + 1]
         /\ \E e \in Nat :
              /\ log' = [log EXCEPT ![ls[t]] = Append(@, e)]
              /\ entries' = entries \cup {[ls |-> ls[t], entry |-> e]}
<1>1. step[t] = "open"
  BY DEF append
<1>2. ls[t] \in Streams /\ mine[t] # NoHandler /\ mine[t] = handlers[ls[t]]
  BY <1>1 DEF ServiceInv, UseInv
<1>3. mine[t] \in Handlers
  BY <1>2 DEF ServiceInv, ServiceTypes, Handlers, NoHandler, LogServiceConstants
<1>4. NextTail(mine[t]) = Len(log[ls[t]]) + 1
  BY <1>2 DEF NextTail, ServiceInv, TailInv
<1>. DEFINE e == Cardinality(entries) + 1
<1>5. e \in Nat
  BY FS_CardinalityType DEF ServiceInv, ServiceTypes
<1>6. Len(log[ls[t]]) \in Nat
  BY <1>2 DEF ServiceInv, ServiceTypes
<1>7. log' = [log EXCEPT ![ls[t]] = Append(@, e)]
  <2>1. NextTail(mine[t]) > Len(log[ls[t]])
    BY <1>4, <1>6
  <2>. QED
    BY <2>1 DEF append
<1>8. tail' = [tail EXCEPT ![mine[t]] = Len(log[ls[t]]) + 1]
  BY <1>4 DEF append
<1>9. entries' = entries \cup {[ls |-> ls[t], entry |-> e]}
  BY DEF append
<1>. QED
  BY <1>2, <1>3, <1>5, <1>7, <1>8, <1>9, Zenon

LEMMA ServiceTypesStep ==
  ASSUME LogServiceConstants, ServiceInv, [ServiceNext]_serviceVars
  PROVE  ServiceTypes'
<1>. USE DEF ServiceInv, ServiceTypes
<1>1. CASE init \/ start \/ stop \/ UNCHANGED serviceVars
  BY <1>1 DEF init, start, stop, serviceVars, service
<1>2. CASE destroy
  BY <1>2 DEF destroy, NoHandler
<1>3. ASSUME NEW t \in Openers, NEW s \in Streams, OpenFind(t, s) PROVE ServiceTypes'
  BY <1>3 DEF OpenFind, Advance, service
<1>4. ASSUME NEW t \in Openers, OpenCreate(t) PROVE ServiceTypes'
  <2>1. ls[t] \in Streams
    BY <1>4 DEF OpenCreate, UseInv
  <2>2. made' = made + 1 /\ made + 1 \in 1 .. MaxHandlers
    BY <1>4 DEF OpenCreate, LogServiceConstants
  <2>3. handlers' \in [Streams -> 0 .. made'] /\ handles' \in [Streams -> 0 .. made']
    BY <1>4, <2>1, <2>2 DEF OpenCreate
  <2>4. mine' \in [Openers -> 0 .. made']
    BY <1>4, <2>2 DEF OpenCreate
  <2>5. tail' \in [Handlers -> Nat]
    BY <1>4, <2>1, <2>2 DEF OpenCreate, Handlers
  <2>. QED
    BY <1>4, <2>2, <2>3, <2>4, <2>5 DEF OpenCreate, Advance, service
<1>5. ASSUME NEW t \in Openers, OpenFails(t) \/ Release(t) PROVE ServiceTypes'
  BY <1>5, Zenon DEF OpenFails, Release, Advance, service
<1>6. ASSUME NEW t \in Openers, OpenPublish(t) PROVE ServiceTypes'
  BY <1>6 DEF OpenPublish, Advance, service, UseInv
<1>7. ASSUME NEW t \in Openers, append(t) PROVE ServiceTypes'
  <2>1. PICK e \in Nat : /\ log' = [log EXCEPT ![ls[t]] = Append(@, e)]
                         /\ entries' = entries \cup {[ls |-> ls[t], entry |-> e]}
    BY <1>7, AppendsAtEnd, Zenon
  <2>2. ls[t] \in Streams /\ mine[t] \in Handlers /\ tail' = [tail EXCEPT ![mine[t]] = Len(log[ls[t]]) + 1]
    BY <1>7, AppendsAtEnd
  <2>3. log' \in [Streams -> Seq(Nat)]
    BY <2>1, <2>2
  <2>4. entries' \subseteq [ls : Streams, entry : Nat] /\ IsFiniteSet(entries')
    <3>1. IsFiniteSet(entries')
      BY <2>1, FS_AddElement, Zenon
    <3>2. [ls |-> ls[t], entry |-> e] \in [ls : Streams, entry : Nat]
      BY <2>2
    <3>. QED
      BY <2>1, <3>1, <3>2
  <2>5. tail' \in [Handlers -> Nat]
    BY <2>2
  <2>. QED
    BY <1>7, <2>3, <2>4, <2>5, Zenon DEF append, service
<1>8. ASSUME NEW t \in Openers, remove_ls(t) PROVE ServiceTypes'
  BY <1>8 DEF remove_ls, Advance, service, UseInv, NoHandler
<1>. QED
  BY <1>1, <1>2, <1>3, <1>4, <1>5, <1>6, <1>7, <1>8, Zenon DEF ServiceNext

LEMMA UseStep ==
  ASSUME LogServiceConstants, Serial, ServiceInv, [ServiceNext]_serviceVars
  PROVE  UseInv' /\ TailInv'
<1>. USE DEF ServiceInv
<1>1. CASE init \/ start \/ stop \/ UNCHANGED serviceVars
  <2>1. UNCHANGED <<handlers, handles, tail, log, step, ls, mine>>
    BY <1>1, Zenon DEF init, start, stop, serviceVars
  <2>2. TailInv'
    BY <2>1, Zenon DEF TailInv
  <2>. QED
    BY <2>1, <2>2, Zenon DEF UseInv
<1>2. CASE destroy
  <2>1. /\ \A t \in Openers : step[t] = "idle"
        /\ handlers' = [s \in Streams |-> NoHandler] /\ UNCHANGED step
    BY <1>2, Zenon DEF destroy
  <2>2. TailInv'
    BY <2>1, Zenon DEF TailInv
  <2>. QED
    BY <2>1, <2>2, Zenon DEF UseInv
<1>. USE DEF ServiceTypes
<1>3. ASSUME NEW t \in Openers, NEW s \in Streams, OpenFind(t, s) PROVE UseInv' /\ TailInv'
  <2>1. /\ \A u \in Openers : step[u] \notin {"create", "publish"}
        /\ ls' = [ls EXCEPT ![t] = s] /\ mine' = [mine EXCEPT ![t] = handlers[s]]
        /\ step' = [step EXCEPT ![t] = IF handlers[s] = NoHandler THEN "create" ELSE "open"]
        /\ UNCHANGED <<handlers, handles, tail, log>>
    BY <1>3 DEF OpenFind, Advance, Opening
  <2>2. TailInv'
    BY <2>1 DEF TailInv
  <2>. QED
    BY <2>1, <2>2 DEF UseInv
<1>4. ASSUME NEW t \in Openers, OpenCreate(t) PROVE UseInv' /\ TailInv'
  <2>. DEFINE h == made + 1
  <2>1. /\ step[t] = "create" /\ ls[t] \in Streams /\ handlers[ls[t]] = NoHandler
        /\ \A u \in Openers : step[u] \in {"create", "publish"} => u = t
    BY <1>4 DEF OpenCreate, UseInv
  <2>2. /\ mine' = [mine EXCEPT ![t] = h] /\ step' = [step EXCEPT ![t] = "publish"]
        /\ tail' = [tail EXCEPT ![h] = Len(log[ls[t]])] /\ handles' = [handles EXCEPT ![ls[t]] = h]
        /\ UNCHANGED <<handlers, log, ls>>
    BY <1>4 DEF OpenCreate, Advance
  <2>3. h \in Handlers /\ h # NoHandler
    BY <1>4 DEF OpenCreate, Handlers, LogServiceConstants, NoHandler
  <2>4. \A s \in Streams : handlers[s] # h
    OBVIOUS
  <2>. HIDE DEF h
  <2>5. TailInv'
    BY <2>1, <2>2, <2>4 DEF TailInv, NoHandler, Handlers
  <2>. QED
    BY <2>1, <2>2, <2>3, <2>4, <2>5, Zenon DEF UseInv
<1>5. ASSUME NEW t \in Openers, OpenFails(t) \/ Release(t) PROVE UseInv' /\ TailInv'
  <2>1. /\ step' = [step EXCEPT ![t] = "idle"]
        /\ UNCHANGED <<handlers, handles, tail, log, ls, mine>>
    BY <1>5, Zenon DEF OpenFails, Release, Advance
  <2>2. TailInv'
    BY <2>1 DEF TailInv
  <2>. QED
    BY <2>1, <2>2 DEF UseInv
<1>6. ASSUME NEW t \in Openers, OpenPublish(t) PROVE UseInv' /\ TailInv'
  <2>1. /\ step[t] = "publish" /\ ls[t] \in Streams /\ handlers[ls[t]] = NoHandler
        /\ \A u \in Openers : step[u] \in {"create", "publish"} => u = t
        /\ mine[t] # NoHandler /\ handles[ls[t]] = mine[t] /\ tail[mine[t]] = Len(log[ls[t]])
        /\ \A s \in Streams : handlers[s] # mine[t]
    BY <1>6 DEF OpenPublish, UseInv
  <2>2. /\ handlers' = [handlers EXCEPT ![ls[t]] = mine[t]] /\ step' = [step EXCEPT ![t] = "open"]
        /\ UNCHANGED <<handles, tail, log, ls, mine>>
    BY <1>6 DEF OpenPublish, Advance
  <2>3. TailInv'
    BY <2>1, <2>2 DEF TailInv
  <2>. QED
    BY <2>1, <2>2, <2>3 DEF UseInv
<1>7. ASSUME NEW t \in Openers, append(t) PROVE UseInv' /\ TailInv'
  <2>1. /\ ls[t] \in Streams /\ mine[t] \in Handlers /\ mine[t] = handlers[ls[t]]
        /\ tail' = [tail EXCEPT ![mine[t]] = Len(log[ls[t]]) + 1]
        /\ UNCHANGED <<handlers, handles, step, ls, mine>>
    BY <1>7, AppendsAtEnd, Zenon DEF append
  <2>2. PICK e \in Nat : log' = [log EXCEPT ![ls[t]] = Append(@, e)]
    BY <1>7, AppendsAtEnd, Zenon
  <2>3. /\ Len(log'[ls[t]]) = Len(log[ls[t]]) + 1
        /\ \A s \in Streams \ {ls[t]} : log'[s] = log[s]
    BY <2>1, <2>2
  <2>4. /\ tail'[mine[t]] = Len(log'[ls[t]])
        /\ \A h \in Handlers \ {mine[t]} : tail'[h] = tail[h]
    BY <2>1, <2>3
  <2>5. TailInv'
    <3>1. ASSUME NEW s \in Streams, handlers[s] # NoHandler
          PROVE  tail'[handlers[s]] = Len(log'[s])
      <4>1. handlers[s] \in Handlers
        BY <3>1 DEF Handlers, NoHandler, LogServiceConstants
      <4>2. CASE s = ls[t]
        BY <2>1, <2>4, <4>2
      <4>3. CASE s # ls[t]
        BY <2>1, <2>3, <2>4, <3>1, <4>1, <4>3 DEF TailInv
      <4>. QED
        BY <4>2, <4>3
    <3>. QED
      BY <2>1, <3>1 DEF TailInv
  <2>6. ASSUME NEW u \in Openers, step[u] = "publish"
        PROVE  tail'[mine[u]] = Len(log'[ls[u]])
    <3>1. mine[u] # mine[t] /\ ls[u] \in Streams /\ ls[u] # ls[t] /\ mine[u] # NoHandler
      BY <2>1, <2>6 DEF UseInv, Handlers, NoHandler
    <3>2. mine[u] \in Handlers
      BY <3>1 DEF Handlers, NoHandler, LogServiceConstants
    <3>. QED
      BY <2>3, <2>4, <2>6, <3>1, <3>2 DEF UseInv
  <2>. QED
    BY <2>1, <2>5, <2>6 DEF UseInv
<1>8. ASSUME NEW t \in Openers, remove_ls(t) PROVE UseInv' /\ TailInv'
  <2>1. /\ step[t] = "open" /\ ls[t] \in Streams
        /\ \A u \in Openers \ {t} : step[u] = "idle" \/ ls[u] # ls[t]
        /\ handlers' = [handlers EXCEPT ![ls[t]] = NoHandler]
        /\ handles' = [handles EXCEPT ![ls[t]] = NoHandler]
        /\ step' = [step EXCEPT ![t] = "idle"] /\ UNCHANGED <<tail, log, ls, mine>>
    BY <1>8 DEF remove_ls, Advance, UseInv
  <2>2. TailInv'
    BY <2>1 DEF TailInv
  <2>. QED
    BY <2>1, <2>2 DEF UseInv
<1>. QED
  BY <1>1, <1>2, <1>3, <1>4, <1>5, <1>6, <1>7, <1>8 DEF ServiceNext

LEMMA KeptStep ==
  ASSUME LogServiceConstants, ServiceInv, [ServiceNext]_serviceVars
  PROVE  EntriesKept'
<1>1. CASE UNCHANGED <<log, entries>>
  BY <1>1 DEF ServiceInv, EntriesKept
<1>2. ASSUME NEW t \in Openers, append(t) PROVE EntriesKept'
  <2>1. PICK e \in Nat : /\ log' = [log EXCEPT ![ls[t]] = Append(@, e)]
                         /\ entries' = entries \cup {[ls |-> ls[t], entry |-> e]}
    BY <1>2, AppendsAtEnd, Zenon
  <2>2. ls[t] \in Streams /\ log \in [Streams -> Seq(Nat)] /\ entries \subseteq [ls : Streams, entry : Nat]
    BY <1>2, AppendsAtEnd DEF ServiceInv, ServiceTypes
  <2>3. ASSUME NEW s \in Streams, NEW i \in DOMAIN log[s]
        PROVE  i \in DOMAIN log'[s] /\ log'[s][i] = log[s][i]
    BY <2>1, <2>2, <2>3
  <2>4. LET n == Len(log[ls[t]]) + 1 IN n \in DOMAIN log'[ls[t]] /\ log'[ls[t]][n] = e
    BY <2>1, <2>2
  <2>5. ASSUME NEW a \in entries PROVE \E i \in DOMAIN log'[a.ls] : log'[a.ls][i] = a.entry
    <3>1. a.ls \in Streams
      BY <2>2, <2>5
    <3>. QED
      BY <2>3, <2>5, <3>1 DEF ServiceInv, EntriesKept
  <2>. QED
    BY <2>1, <2>4, <2>5 DEF EntriesKept
<1>3. UNCHANGED <<log, entries>> \/ \E t \in Openers : append(t)
  BY Zenon DEF ServiceNext, init, start, stop, destroy, OpenFind, OpenCreate, OpenFails, OpenPublish, Release,
         remove_ls, serviceVars
<1>. QED
  BY <1>1, <1>2, <1>3

\* With one caller of open_ls at a time, threads share the handler of a stream, and what append
\* acknowledged stays in the stream's log, for any number of threads, streams, handlers and
\* entries (ObLogService::open_ls, remove_ls, ObLogHandler::append).
THEOREM StreamsKept == ASSUME LogServiceConstants, Serial PROVE ServiceSpec => []AckedKept
<1>1. ServiceInit => ServiceInv
  BY ServiceInvInit
<1>2. ServiceInv /\ [ServiceNext]_serviceVars => ServiceInv'
  BY ServiceTypesStep, UseStep, KeptStep DEF ServiceInv
<1>3. ServiceInv => AckedKept
  BY Zenon DEF ServiceInv, UseInv, TailInv, AckedKept, OneHandler
<1>. QED
  BY <1>1, <1>2, <1>3, PTL DEF ServiceSpec

=============================================================================
