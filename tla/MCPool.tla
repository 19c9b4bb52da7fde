------------------------------ MODULE MCPool ------------------------------
(***************************************************************************)
(* The thread pool (ThreadPool) and the thread model built on it           *)
(* (PoolServer) for TLC.  PoolServer sees the executor by its interface,   *)
(* so each is explored on its own: "part" says which one runs.  Of the     *)
(* server there are two: "served", with one thread and clients that send   *)
(* whole requests, and "handlers", with all threads and half requests too, *)
(* and one whole request of each client.                                   *)
(***************************************************************************)
EXTENDS ThreadPool, PoolServer

CONSTANT Idle      \* threads of the server that take no task in "served"

VARIABLE part

ASSUME PoolAssumption == ThreadPoolConstants
ASSUME ServerAssumption == PoolServerConstants

mcVars == <<part, vars, serverVars>>

MCInit == part \in {"pool", "served", "handlers"} /\ Init /\ ServerInit

\* What does not happen in the two servers.
InPart ==
  CASE part = "served" -> (\A c \in Conns : data[c] # "half") /\ \A t \in Idle : job[t] = "none"
    [] part = "handlers" -> \A c \in Conns : asked[c] <= 1

OfPool(A) == part = "pool" /\ A /\ UNCHANGED <<part, serverVars>>
OfServer(A) == part # "pool" /\ A /\ UNCHANGED <<part, vars>>

PoolNext == OfPool(Next)
HandlersNext == OfServer(ServerNext) /\ InPart'
MCNext == PoolNext \/ HandlersNext

\* The threads run, tasks end, and libevent calls back every readable event in the end;
\* nobody has to submit, to shut down or to reach a deadline.
Fairness ==
  /\ WF_mcVars(OfPool(InitCreate)) /\ WF_mcVars(OfPool(InitDone))
  /\ \A s \in Submitters : WF_mcVars(OfPool(Execute(s)))
  /\ \A t \in 1 .. MaxThreads : WF_mcVars(OfPool(thread_func(t)))
  /\ WF_mcVars(OfServer(EventAdd)) /\ WF_mcVars(OfServer(Shutdown))
  /\ WF_mcVars(OfServer(AwaitStop))
  /\ WF_mcVars(OfServer(HandleEvent)) /\ WF_mcVars(OfServer(LoopEnds))
  /\ \A c \in Conns : SF_mcVars(OfServer(Fire(c)))
  /\ \A t \in Handlers \ Idle : WF_mcVars(OfServer(Runs(t)))

MCSpec == MCInit /\ [][MCNext]_mcVars /\ Fairness

-----------------------------------------------------------------------------
\* With a core thread, every task execute accepted is run in the end, whichever other
\* threads reach their deadline.  While the server runs, a whole request is served or its
\* connection closed, with as little as one thread for them.  (TasksRun and
\* RequestsServed: submissions and requests are bounded here, so it is the same to say that
\* time and again none is left.)  stop and await_stop end when no client holds back half of
\* its request.
Served ==
  /\ []<>(part = "pool" => ran = 1 .. tasks)
  /\ []<>(part = "served" /\ main \in {"serve", "adding"} =>
            \A c \in Conns : served[c] = asked[c] \/ c \in deleted)
  /\ (part = "served" /\ main = "stop") ~> main = "done"
=============================================================================
