---------------------------- MODULE LogIOWorker ----------------------------
(***************************************************************************)
(* LogIOWorker: one background thread that runs queued flush tasks.        *)
(*                                                                         *)
(* The mutex is modelled where the worker keeps it across two steps (it    *)
(* evaluates the condition of its wait, then blocks); the notifications    *)
(* reach the worker only once it blocks.  destroy sets stop_ without the   *)
(* mutex.                                                                  *)
(***************************************************************************)
EXTENDS Naturals, Sequences

CONSTANTS
  Submitters,
  MayDestroy,  \* TRUE: some thread calls destroy
  MaxTasks     \* bound on the tasks submitted

LogIOWorkerConstants == MayDestroy \in BOOLEAN /\ MaxTasks \in Nat

VARIABLES
  queue,      \* task_queue_; a task is its number in order of submission
  submitted,  \* history: tasks pushed
  ran,        \* history: the tasks run, in order
  locked,     \* the worker holds mutex_
  stop,       \* stop_
  worker,     \* pc of the worker: top (while), lock, block, wait, run, exited
  task,       \* the task it runs; 0 if none
  notify,     \* submitters between their push and notify_one
  closer      \* pc of destroy: idle, notify, join, done

vars == <<queue, submitted, ran, locked, stop, worker, task, notify, closer>>

-----------------------------------------------------------------------------
(* submit_io_task *)

Push(s) ==
  /\ s \notin notify /\ submitted < MaxTasks
  /\ ~locked
  /\ submitted' = submitted + 1
  /\ queue' = Append(queue, submitted + 1)
  /\ notify' = notify \cup {s}
  /\ UNCHANGED <<ran, locked, stop, worker, task, closer>>

Unawakened == worker

\* A notification wakes the worker if it waits, and is lost otherwise.
Awakened == IF worker = "wait" THEN "lock" ELSE worker

Wake == worker' = Awakened

NotifyOne(s) ==
  /\ s \in notify
  /\ notify' = notify \ {s}
  /\ Wake
  /\ UNCHANGED <<queue, submitted, ran, locked, stop, task, closer>>

-----------------------------------------------------------------------------
(* run_ *)

Top ==
  /\ worker = "top"
  /\ worker' = IF stop THEN "exited" ELSE "lock"
  /\ UNCHANGED <<queue, submitted, ran, locked, stop, task, notify, closer>>

\* With the mutex: the condition of the wait holds, and the queue has a task.
Take ==
  /\ worker = "lock" /\ queue # <<>>
  /\ task' = Head(queue)
  /\ queue' = Tail(queue)
  /\ worker' = "run"
  /\ UNCHANGED <<submitted, ran, locked, stop, notify, closer>>

\* With the mutex: stop_ is set and the queue is empty.
Break ==
  /\ worker = "lock" /\ queue = <<>> /\ stop
  /\ worker' = "exited"
  /\ UNCHANGED <<queue, submitted, ran, locked, stop, task, notify, closer>>

\* The condition of the wait does not hold; the worker is about to block.
Check ==
  /\ worker = "lock" /\ queue = <<>> /\ ~stop
  /\ worker' = "block" /\ locked' = TRUE
  /\ UNCHANGED <<queue, submitted, ran, stop, task, notify, closer>>

\* It blocks and gives the mutex back in one step.
Block ==
  /\ worker = "block"
  /\ worker' = "wait" /\ locked' = FALSE
  /\ UNCHANGED <<queue, submitted, ran, stop, task, notify, closer>>

Run ==
  /\ worker = "run"
  /\ ran' = Append(ran, task)
  /\ task' = 0
  /\ worker' = "top"
  /\ UNCHANGED <<queue, submitted, locked, stop, notify, closer>>

-----------------------------------------------------------------------------
(* destroy *)

SetStop ==
  /\ MayDestroy /\ closer = "idle"
  /\ stop' = TRUE
  /\ closer' = "notify"
  /\ UNCHANGED <<queue, submitted, ran, locked, worker, task, notify>>

NotifyAll ==
  /\ closer = "notify"
  /\ Wake
  /\ closer' = "join"
  /\ UNCHANGED <<queue, submitted, ran, locked, stop, task, notify>>

Join ==
  /\ closer = "join" /\ worker = "exited"
  /\ closer' = "done"
  /\ UNCHANGED <<queue, submitted, ran, locked, stop, worker, task, notify>>

-----------------------------------------------------------------------------
Init ==
  /\ queue = <<>> /\ submitted = 0 /\ ran = <<>>
  /\ locked = FALSE /\ stop = FALSE
  /\ worker = "top" /\ task = 0
  /\ notify = {} /\ closer = "idle"

Work == Top \/ Take \/ Break \/ Check \/ Block \/ Run

Next ==
  \/ \E s \in Submitters : Push(s) \/ NotifyOne(s)
  \/ Work
  \/ SetStop \/ NotifyAll \/ Join

Spec == Init /\ [][Next]_vars

\* The worker, and the threads inside submit_io_task and destroy, are scheduled.
FairSpec ==
  /\ Spec
  /\ WF_vars(Work) /\ WF_vars(NotifyAll) /\ WF_vars(Join)
  /\ \A s \in Submitters : WF_vars(NotifyOne(s))

-----------------------------------------------------------------------------
(* Properties *)

\* The tasks run so far, the one at hand and the queue are the tasks submitted, each
\* once and in order: run_ loses none, runs none twice and reorders none.
TasksInOrder ==
  ran \o (IF task = 0 THEN <<>> ELSE <<task>>) \o queue = [i \in 1 .. submitted |-> i]

\* The worker has run task n.
HasRun(n) == \E i \in DOMAIN ran : ran[i] = n

\* Until destroy is called, every submitted task is run by the worker: no notification of
\* submit_io_task is lost between the worker's test of the queue and its wait.
TasksRunUntilStop ==
  \A n \in 1 .. MaxTasks : (submitted >= n) ~> (HasRun(n) \/ stop)

\* destroy comes back from join, unless its notification, sent without the mutex, fell
\* between the worker's test of stop_ and its wait: only then does the worker sleep for ever.
DestroyEnds == (closer = "join") ~> (closer = "done" \/ [](worker = "wait"))

\* Every submitted task is run by the worker, destroy or not (log_io_worker.h: "a single
\* background thread that processes queued flush tasks").
TasksRun == \A n \in 1 .. MaxTasks : (submitted >= n) ~> HasRun(n)
=============================================================================
