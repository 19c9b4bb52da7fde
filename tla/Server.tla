------------------------------ MODULE Server ------------------------------
(***************************************************************************)
(* The observer process: main, the thread that a quit signal starts,       *)
(* NetServer and the thread model with one worker per connection.          *)
(*                                                                         *)
(* Addresses of communicators and file descriptors are taken and given     *)
(* back, so both may be used again by a later connection: the kernel hands *)
(* out the lowest free descriptor, the allocator any free address.  What   *)
(* a request does is left open (PlainCommunicator models it): handling it  *)
(* ends with the connection kept or given up, with or without bytes left   *)
(* in the buffer of its writer.                                            *)
(***************************************************************************)
EXTENDS Integers, FiniteSets, FiniteSetsExt

CONSTANTS
  Addresses,        \* addresses of communicators
  Descriptors,      \* file descriptors of connections
  MaxClients,       \* bound on the connections accepted
  EarlySignal,      \* TRUE: the signal may come before the server polls
  PartialRequests   \* TRUE: a client may send half a request and wait

ServerConstants ==
  /\ IsFiniteSet(Addresses)
  /\ Descriptors \subseteq Nat /\ IsFiniteSet(Descriptors)
  /\ MaxClients \in Nat
  /\ EarlySignal \in BOOLEAN /\ PartialRequests \in BOOLEAN

VARIABLES
  main,       \* boot, created, loop, poll, accepted, stop, await, quit, exit
  gserver,    \* g_server is set
  started,    \* started_
  signal,     \* none, thread (quit_thread_func runs), done
  clients,    \* connections accepted so far; the last one is their name
  owner,      \* owner[d]: connection that holds descriptor d, 0 when it is free
  accepted,   \* descriptor that main has just accepted
  comm,       \* comm[a]: the communicator at a: its client and descriptor
  map,        \* keys of thread_map_
  running,    \* running[a]: running_ of the worker
  worker,     \* worker[a]: none, top, poll, handle, wait, leave, erased, closed
  unsent,     \* unsent[a]: bytes are left in the buffer of the writer
  late,       \* workers past the delete of their communicator that have not ended
  strayed     \* history: bytes of one client's reply were sent to another

process == <<main, gserver, started, signal>>
sockets == <<clients, owner, accepted>>
workers == <<comm, map, running, worker, unsent, late>>
vars == <<process, sockets, workers, strayed>>

Free == [client |-> 0, fd |-> 0]

Init ==
  /\ main = "boot" /\ gserver = FALSE /\ started = FALSE /\ signal = "none"
  /\ clients = 0 /\ owner = [d \in Descriptors |-> 0] /\ accepted = 0
  /\ comm = [a \in Addresses |-> Free]
  /\ map = {}
  /\ running = [a \in Addresses |-> FALSE]
  /\ worker = [a \in Addresses |-> "none"]
  /\ unsent = [a \in Addresses |-> FALSE]
  /\ late = 0
  /\ strayed = FALSE

-----------------------------------------------------------------------------
(* Signals *)

\* quit_signal_handle, on whichever thread the signal falls: a poll of that thread is
\* interrupted and its loop left.
QuitSignal ==
  /\ signal = "none"
  /\ EarlySignal \/ main \notin {"boot", "created"}
  /\ main # "exit"
  /\ signal' = "thread"
  /\ \/ UNCHANGED <<main, worker>>
     \/ main = "poll" /\ main' = "stop" /\ UNCHANGED worker
     \/ \E a \in Addresses :
          /\ worker[a] = "poll"
          /\ worker' = [worker EXCEPT ![a] = "leave"]
          /\ UNCHANGED main
  /\ UNCHANGED <<gserver, started, sockets, comm, map, running, unsent, late, strayed>>

\* quit_thread_func
QuitThread ==
  /\ signal = "thread"
  /\ signal' = "done"
  /\ started' = (started /\ ~gserver)
  /\ UNCHANGED <<main, gserver, sockets, workers, strayed>>

-----------------------------------------------------------------------------
(* main and NetServer *)

\* g_server = init_server()
InitServer ==
  /\ main = "boot"
  /\ gserver' = TRUE
  /\ main' = "created"
  /\ UNCHANGED <<started, signal, sockets, workers, strayed>>

\* NetServer::start
StartServer ==
  /\ main = "created"
  /\ started' = TRUE
  /\ main' = "loop"
  /\ UNCHANGED <<gserver, signal, sockets, workers, strayed>>

FreeDescriptors == {d \in Descriptors : owner[d] = 0}

\* The loop reads started_ and polls, or ends.
LoopTop ==
  /\ main = "loop"
  /\ main' = IF started THEN "poll" ELSE "stop"
  /\ UNCHANGED <<gserver, started, signal, sockets, workers, strayed>>

PollTimeout ==
  /\ main = "poll"
  /\ main' = "loop"
  /\ UNCHANGED <<gserver, started, signal, sockets, workers, strayed>>

\* accept
Accept ==
  /\ main = "poll" /\ clients < MaxClients /\ FreeDescriptors # {}
  /\ LET d == Min(FreeDescriptors)
     IN /\ owner' = [owner EXCEPT ![d] = clients + 1]
        /\ accepted' = d
  /\ clients' = clients + 1
  /\ main' = "accepted"
  /\ UNCHANGED <<gserver, started, signal, workers, strayed>>

\* A communicator is made and given to new_connection, which starts its worker unless
\* its address is in the map already.
NewConnection ==
  /\ main = "accepted"
  /\ \E a \in {b \in Addresses : comm[b] = Free} :
       IF a \in map
       THEN /\ owner' = [owner EXCEPT ![accepted] = 0]
            /\ UNCHANGED <<comm, map, running, worker>>
       ELSE /\ comm' = [comm EXCEPT ![a] = [client |-> clients, fd |-> accepted]]
            /\ map' = map \cup {a}
            /\ running' = [running EXCEPT ![a] = TRUE]
            /\ worker' = [worker EXCEPT ![a] = "top"]
            /\ UNCHANGED owner
  /\ main' = "loop"
  /\ UNCHANGED <<gserver, started, signal, clients, accepted, unsent, late, strayed>>

\* Mutation: the workers are not told to stop.
StopNone ==
  /\ main = "stop"
  /\ main' = "await"
  /\ UNCHANGED <<gserver, started, signal, sockets, workers, strayed>>

\* OneThreadPerConnectionThreadHandler::stop
Stop ==
  /\ main = "stop"
  /\ running' = [a \in Addresses |-> running[a] /\ a \notin map]
  /\ main' = "await"
  /\ UNCHANGED <<gserver, started, signal, sockets, comm, map, worker, unsent, late, strayed>>

\* await_stop, the end of serve
AwaitStop ==
  /\ main = "await" /\ map = {}
  /\ started' = FALSE
  /\ main' = "quit"
  /\ UNCHANGED <<gserver, signal, sockets, workers, strayed>>

\* cleanup and delete g_server
Exit ==
  /\ main = "quit"
  /\ main' = "exit"
  /\ UNCHANGED <<gserver, started, signal, sockets, workers, strayed>>

-----------------------------------------------------------------------------
(* Worker and close_connection *)

Move(a, from, to) ==
  /\ worker[a] = from
  /\ worker' = [worker EXCEPT ![a] = to]

\* The loop reads running_ and polls, or ends.
WorkerTop(a) ==
  /\ Move(a, "top", IF running[a] THEN "poll" ELSE "leave")
  /\ UNCHANGED <<process, sockets, comm, map, running, unsent, late, strayed>>

WorkerTimeout(a) ==
  /\ Move(a, "poll", "top")
  /\ UNCHANGED <<process, sockets, comm, map, running, unsent, late, strayed>>

\* poll reports data and handle_event begins; or an error, which ends the loop.
WorkerPoll(a) ==
  /\ Move(a, "poll", "handle") \/ Move(a, "poll", "leave")
  /\ UNCHANGED <<process, sockets, comm, map, running, unsent, late, strayed>>

\* read_event has half a request and reads until the client goes on or leaves.
WorkerWait(a) ==
  /\ PartialRequests
  /\ Move(a, "handle", "wait")
  /\ UNCHANGED <<process, sockets, comm, map, running, unsent, late, strayed>>

\* The rest comes and is handled, or the client is gone.
ClientGoesOn(a) ==
  /\ Move(a, "wait", "top") \/ Move(a, "wait", "leave")
  /\ UNCHANGED <<process, sockets, comm, map, running, unsent, late, strayed>>

\* handle_event returns; a reply that could not be sent stays in the buffer.
WorkerHandled(a) ==
  /\ \/ Move(a, "handle", "top") /\ UNCHANGED unsent
     \/ Move(a, "handle", "leave") /\ \E u \in BOOLEAN : unsent' = [unsent EXCEPT ![a] = u]
  /\ UNCHANGED <<process, sockets, comm, map, running, late, strayed>>

\* Mutation: the entry of the map is left to the end of close_connection.
EraseNot(a) ==
  /\ Move(a, "leave", "erased")
  /\ UNCHANGED <<process, sockets, comm, map, running, unsent, late, strayed>>

\* close_connection, under the lock
Erase(a) ==
  /\ Move(a, "leave", "erased")
  /\ map' = map \ {a}
  /\ UNCHANGED <<process, sockets, comm, running, unsent, late, strayed>>

\* stop, join (which detaches the thread) and delete of the worker; ~Communicator
\* closes the descriptor ...
CloseDescriptor(a) ==
  /\ Move(a, "erased", "closed")
  /\ owner' = [owner EXCEPT ![comm[a].fd] = 0]
  /\ UNCHANGED <<process, clients, accepted, comm, map, running, unsent, late, strayed>>

\* ... and then deletes the writer, which flushes what is left in its buffer to the
\* descriptor's number.
DeleteWriter(a) ==
  /\ Move(a, "closed", "none")
  /\ strayed' = (strayed \/ (unsent[a] /\ owner[comm[a].fd] # 0))
  /\ unsent' = [unsent EXCEPT ![a] = FALSE]
  /\ comm' = [comm EXCEPT ![a] = Free]
  /\ late' = late + 1
  /\ UNCHANGED <<process, sockets, map, running>>

\* The message that ends close_connection is logged and the thread ends.
WorkerEnd ==
  /\ late > 0
  /\ late' = late - 1
  /\ UNCHANGED <<process, sockets, comm, map, running, worker, unsent, strayed>>

-----------------------------------------------------------------------------

Main ==
  \/ InitServer \/ StartServer \/ LoopTop \/ PollTimeout \/ NewConnection
  \/ Stop \/ AwaitStop \/ Exit

\* The steps of a worker that need nothing from its client.
Works(a) ==
  \/ WorkerTop(a) \/ WorkerTimeout(a) \/ WorkerHandled(a)
  \/ Erase(a) \/ CloseDescriptor(a) \/ DeleteWriter(a)

Next ==
  \/ QuitSignal \/ QuitThread \/ Main \/ Accept \/ WorkerEnd
  \/ \E a \in Addresses : Works(a) \/ WorkerPoll(a) \/ WorkerWait(a) \/ ClientGoesOn(a)

Spec == Init /\ [][Next]_vars

\* Every thread runs; a poll returns within 500 ms.
FairSpec ==
  /\ Spec
  /\ WF_vars(QuitThread) /\ WF_vars(Main) /\ WF_vars(WorkerEnd)
  /\ \A a \in Addresses : WF_vars(Works(a))

-----------------------------------------------------------------------------
(* Properties *)

InLoop == {"top", "poll", "handle", "wait", "leave"}

\* The map holds exactly the communicators whose worker has not begun to close them, so
\* an address that is used again is never found in it (close_connection erases before
\* it deletes; new_connection would refuse the client).
MapExact == map = {a \in Addresses : worker[a] \in InLoop}

\* A worker reads and writes the descriptor of its own client until it closes it, however
\* often descriptors and addresses are used again.
OwnDescriptor ==
  \A a \in Addresses :
    worker[a] \in InLoop \cup {"erased"} => owner[comm[a].fd] = comm[a].client

\* thread_map_ holds exactly the communicators whose worker has not begun to close them,
\* so an address that is used again is never found in it; and a worker reads and writes
\* the descriptor of its own client until it closes it, however often descriptors and
\* addresses are used again.
ConnectionsExact == MapExact /\ OwnDescriptor

\* A quit signal that is handled once the server has started ends the process, through
\* stop and await_stop of the thread model, unless a client holds back half of its
\* request for ever.
QuitEndsUnlessHeld ==
  (signal = "thread" /\ main \notin {"boot", "created"}) ~>
    (main = "exit" \/ \E a \in Addresses : [](worker[a] = "wait"))

\* A quit signal ends the process, whenever it comes and whatever the clients do.
QuitEnds == signal # "none" ~> main = "exit"

\* Once await_stop has returned no worker runs any more.
WorkersExited == main \in {"quit", "exit"} => late = 0 /\ \A a \in Addresses : worker[a] = "none"

\* What one client is sent never reaches another.
RepliesToOwner == ~strayed
=============================================================================
