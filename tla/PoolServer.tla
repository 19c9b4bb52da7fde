---------------------------- MODULE PoolServer ----------------------------
(***************************************************************************)
(* The thread model that hands requests to a thread pool:                  *)
(* JavaThreadPoolThreadHandler with libevent's loop (external) and the     *)
(* executor, of which ThreadPool models the inside.  Here the executor     *)
(* takes tasks until it is shut down, refuses them afterwards, runs them   *)
(* in order on Handlers (the thread of the event loop not counted) and     *)
(* terminates when they are done.                                          *)
(***************************************************************************)
EXTENDS Integers, Sequences, FiniteSets

CONSTANTS
  Conns,            \* connections (communicators)
  Handlers,         \* threads of the pool that run tasks
  PartialRequests,  \* TRUE: a client may send half a request and wait
  MaxRequests       \* bound on the requests of a client

NoConn == "none"

PoolServerConstants ==
  /\ IsFiniteSet(Conns) /\ IsFiniteSet(Handlers)
  /\ PartialRequests \in BOOLEAN /\ MaxRequests \in Nat
  /\ NoConn \notin Conns

VARIABLES
  main,      \* serve, adding (inside new_connection), stop, await, done
  adding,    \* the connection main is adding
  map,       \* keys of event_map_
  added,     \* connections whose event is in the event base
  calling,   \* connection whose callback the event loop runs, or NoConn
  loop,      \* run, exiting (loopexit is scheduled), ended
  jobs,      \* tasks of the executor: the connections they are for
  job,       \* job[t]: connection of the task that thread t runs, or NoConn
  step,      \* step[t]: handle, add, close, delete
  shut,      \* the executor is shut down
  data,      \* data[c]: what the client has sent: new (not connected), nothing, half, whole, gone
  asked,     \* history: asked[c] requests completed by the client
  served,    \* history: served[c] requests handled
  deleted,   \* connections whose communicator is deleted
  refused    \* history: execute was called after shutdown

clients == <<data, asked>>
events == <<map, added, calling, loop>>
executor == <<jobs, job, step, shut>>
serverVars == <<main, adding, events, executor, clients, served, deleted, refused>>

ServerInit ==
  /\ main = "serve" /\ adding = NoConn
  /\ map = {} /\ added = {} /\ calling = NoConn /\ loop = "run"
  /\ jobs = << >> /\ job = [t \in Handlers |-> NoConn] /\ step = [t \in Handlers |-> "handle"]
  /\ shut = FALSE
  /\ data = [c \in Conns |-> "new"]
  /\ asked = [c \in Conns |-> 0] /\ served = [c \in Conns |-> 0]
  /\ deleted = {} /\ refused = FALSE

-----------------------------------------------------------------------------
(* Clients *)

Send(c, to) ==
  /\ data[c] \in {"nothing", "half"}
  /\ asked[c] < MaxRequests
  /\ data' = [data EXCEPT ![c] = to]
  /\ asked' = [asked EXCEPT ![c] = IF to = "whole" THEN @ + 1 ELSE @]
  /\ UNCHANGED <<main, adding, events, executor, served, deleted, refused>>

SendHalf(c) == PartialRequests /\ data[c] = "nothing" /\ Send(c, "half")
SendWhole(c) == Send(c, "whole")

ClientLeaves(c) ==
  /\ data[c] \in {"nothing", "half"}
  /\ data' = [data EXCEPT ![c] = "gone"]
  /\ UNCHANGED <<main, adding, events, executor, asked, served, deleted, refused>>

-----------------------------------------------------------------------------
(* main: new_connection, stop, await_stop *)

NewConnection(c) ==
  /\ main = "serve" /\ data[c] = "new"
  /\ data' = [data EXCEPT ![c] = "nothing"]
  /\ map' = map \cup {c}
  /\ adding' = c
  /\ main' = "adding"
  /\ UNCHANGED <<added, calling, loop, executor, asked, served, deleted, refused>>

EventAdd ==
  /\ main = "adding"
  /\ added' = added \cup {adding}
  /\ adding' = NoConn
  /\ main' = "serve"
  /\ UNCHANGED <<map, calling, loop, executor, clients, served, deleted, refused>>

\* Mutation: the event loop is not told to end.
LoopExitNot ==
  /\ main = "serve"
  /\ main' = "stop"
  /\ UNCHANGED <<adding, events, executor, clients, served, deleted, refused>>

\* stop: event_base_loopexit schedules the end of the loop and returns ...
LoopExit ==
  /\ main = "serve"
  /\ loop' = "exiting"
  /\ main' = "stop"
  /\ UNCHANGED <<adding, map, added, calling, executor, clients, served, deleted, refused>>

\* ... and the executor is shut down.
Shutdown ==
  /\ main = "stop"
  /\ shut' = TRUE
  /\ main' = "await"
  /\ UNCHANGED <<adding, events, jobs, job, step, clients, served, deleted, refused>>

\* await_stop: once every task has run, the loop's included, what is left is deleted.
AwaitStop ==
  /\ main = "await"
  /\ loop = "ended" /\ jobs = << >> /\ \A t \in Handlers : job[t] = NoConn
  /\ deleted' = deleted \cup map
  /\ map' = {} /\ added' = {}
  /\ main' = "done"
  /\ UNCHANGED <<adding, calling, loop, executor, clients, served, refused>>

-----------------------------------------------------------------------------
(* The event loop *)

\* Mutation: the event stays in the base, as with EV_PERSIST.
FirePersist(c) ==
  /\ loop # "ended" /\ calling = NoConn
  /\ c \in added /\ data[c] # "nothing"
  /\ calling' = c
  /\ UNCHANGED <<main, adding, map, added, loop, executor, clients, served, deleted, refused>>

\* The descriptor of c is readable: its event leaves the base and its callback begins.
Fire(c) ==
  /\ loop # "ended" /\ calling = NoConn
  /\ c \in added /\ data[c] # "nothing"
  /\ added' = added \ {c}
  /\ calling' = c
  /\ UNCHANGED <<main, adding, map, loop, executor, clients, served, deleted, refused>>

\* handle_event(ag): the result of execute is not looked at.
HandleEvent ==
  /\ calling # NoConn
  /\ jobs' = IF shut THEN jobs ELSE Append(jobs, calling)
  /\ refused' = (refused \/ shut)
  /\ calling' = NoConn
  /\ UNCHANGED <<main, adding, map, added, loop, job, step, shut, clients, served, deleted>>

\* event_base_loop returns at the end of the round in which the exit was noticed.
LoopEnds ==
  /\ loop = "exiting" /\ calling = NoConn
  /\ loop' = "ended"
  /\ UNCHANGED <<main, adding, map, added, calling, executor, clients, served, deleted, refused>>

-----------------------------------------------------------------------------
(* Tasks *)

Take(t) ==
  /\ job[t] = NoConn /\ jobs # << >>
  /\ job' = [job EXCEPT ![t] = Head(jobs)]
  /\ step' = [step EXCEPT ![t] = "handle"]
  /\ jobs' = Tail(jobs)
  /\ UNCHANGED <<main, adding, events, shut, clients, served, deleted, refused>>

\* SqlTaskHandler::handle_event: a whole request is served; the loss of the client or
\* a failure to answer it ends the connection.  Half a request is read for ever.
Handle(t) ==
  LET c == job[t]
  IN /\ c # NoConn /\ step[t] = "handle"
     /\ \/ /\ data[c] = "whole"
           /\ data' = [data EXCEPT ![c] = "nothing"]
           /\ served' = [served EXCEPT ![c] = @ + 1]
           /\ \E s \in {"add", "close"} : step' = [step EXCEPT ![t] = s]
        \/ /\ data[c] = "gone"
           /\ step' = [step EXCEPT ![t] = "close"]
           /\ UNCHANGED <<data, served>>
     /\ UNCHANGED <<main, adding, events, jobs, job, shut, asked, deleted, refused>>

\* Mutation: the event of a served connection is not put back.
AddAgainNot(t) ==
  /\ job[t] # NoConn /\ step[t] = "add"
  /\ job' = [job EXCEPT ![t] = NoConn]
  /\ UNCHANGED <<main, adding, events, jobs, step, shut, clients, served, deleted, refused>>

\* The event is put back; from here on the task leaves the communicator alone.
AddAgain(t) ==
  /\ job[t] # NoConn /\ step[t] = "add"
  /\ added' = added \cup {job[t]}
  /\ job' = [job EXCEPT ![t] = NoConn]
  /\ UNCHANGED <<main, adding, map, calling, loop, jobs, step, shut, clients, served, deleted, refused>>

\* close_connection, under the lock
Close(t) ==
  /\ job[t] # NoConn /\ step[t] = "close"
  /\ map' = map \ {job[t]}
  /\ step' = [step EXCEPT ![t] = "delete"]
  /\ UNCHANGED <<main, adding, added, calling, loop, jobs, job, shut, clients, served, deleted, refused>>

\* event_del, event_free and the deletes
Delete(t) ==
  /\ job[t] # NoConn /\ step[t] = "delete"
  /\ added' = added \ {job[t]}
  /\ deleted' = deleted \cup {job[t]}
  /\ job' = [job EXCEPT ![t] = NoConn]
  /\ UNCHANGED <<main, adding, map, calling, loop, jobs, step, shut, clients, served, refused>>

-----------------------------------------------------------------------------

Runs(t) == Take(t) \/ Handle(t) \/ AddAgain(t) \/ Close(t) \/ Delete(t)
Loop == HandleEvent \/ LoopEnds \/ \E c \in Conns : Fire(c)

ServerNext ==
  \/ \E c \in Conns : SendHalf(c) \/ SendWhole(c) \/ ClientLeaves(c) \/ NewConnection(c)
  \/ EventAdd \/ LoopExit \/ Shutdown \/ AwaitStop
  \/ Loop \/ \E t \in Handlers : Runs(t)

ServerSpec == ServerInit /\ [][ServerNext]_serverVars

\* The threads run, and libevent calls back every readable event in the end.
FairServerSpec ==
  /\ ServerSpec
  /\ WF_serverVars(EventAdd) /\ WF_serverVars(Shutdown) /\ WF_serverVars(AwaitStop)
  /\ WF_serverVars(HandleEvent) /\ WF_serverVars(LoopEnds)
  /\ \A c \in Conns : SF_serverVars(Fire(c))
  /\ \A t \in Handlers : WF_serverVars(Runs(t))

-----------------------------------------------------------------------------
(* Properties *)

\* The places from which connection c may come to be handled: its event, its callback,
\* its queued tasks and the threads that handle it.
Held(c) ==
  Cardinality({i \in DOMAIN jobs : jobs[i] = c}) + Cardinality({t \in Handlers : job[t] = c})
    + (IF c \in added THEN 1 ELSE 0) + (IF calling = c THEN 1 ELSE 0)

\* A connection is handled by one thread at a time, and while it is, its event cannot
\* fire: without EV_PERSIST the event comes back only when the request is over.
OneHandler == \A c \in Conns : Held(c) <= 1

\* Nothing can reach a communicator that is deleted, not from the map, an event, a
\* callback, a queued task or a thread, and none is deleted twice (close_connection,
\* await_stop).
DeletedUnreachable == \A c \in deleted : c \notin map /\ Held(c) = 0

\* Both: a connection is handled by one thread at a time, and what is deleted is out of
\* everybody's reach.
HandledSafely == OneHandler /\ DeletedUnreachable

\* While the server runs, a request is served or its connection closed.
RequestsServed ==
  \A c \in Conns : \A n \in 1 .. MaxRequests :
    asked[c] >= n ~> (served[c] >= n \/ c \in deleted \/ main \notin {"serve", "adding"})

\* stop and await_stop end.
StopEnds == main = "stop" ~> main = "done"

\* No task is given to the executor once it is shut down.
NoLateTask == ~refused
=============================================================================
