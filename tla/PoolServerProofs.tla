-------------------------- MODULE PoolServerProofs --------------------------
(***************************************************************************)
(* Proofs about the server on a thread pool and about the writer that      *)
(* sends answers, for every value of the constants: one thread handles a   *)
(* connection and nothing reaches a deleted one (PoolServer); the ring     *)
(* buffer implements a byte stream (BufferedWriter).                       *)
(***************************************************************************)
EXTENDS PoolServer, BufferedWriter, FiniteSetTheorems, TLAPS

\* Where the elements of a queue are after a push and after a pop (SimpleQueue).
LEMMA Pushed ==
  ASSUME NEW S, NEW q \in Seq(S), NEW x \in S
  PROVE  /\ Append(q, x) \in Seq(S) /\ Len(Append(q, x)) = Len(q) + 1
         /\ \A i \in 1 .. Len(q) : Append(q, x)[i] = q[i]
         /\ Append(q, x)[Len(q) + 1] = x
  OBVIOUS

LEMMA Popped ==
  ASSUME NEW S, NEW q \in Seq(S), q # <<>>
  PROVE  /\ Len(q) \in Nat \ {0} /\ Head(q) = q[1] /\ q[1] \in S
         /\ Tail(q) \in Seq(S) /\ Len(Tail(q)) = Len(q) - 1
         /\ \A i \in 1 .. Len(q) - 1 : Tail(q)[i] = q[i + 1]
  OBVIOUS

\* A set with at most one element has the cardinality one or zero.
LEMMA AtMostOne ==
  ASSUME NEW S, \A x, y \in S : x = y
  PROVE  Cardinality(S) = IF S = {} THEN 0 ELSE 1
<1>1. CASE S = {}
  BY <1>1, FS_EmptySet
<1>2. CASE S # {}
  <2>1. PICK x \in S : S = {x}
    BY <1>2
  <2> QED BY <1>2, <2>1, FS_Singleton
<1> QED BY <1>1, <1>2

-----------------------------------------------------------------------------
(* PoolServer *)

\* The places of Held, without counting.
InJobs(c) == \E i \in 1 .. Len(jobs) : jobs[i] = c
InThread(c) == \E t \in Handlers : job[t] = c
Reachable(c) == InJobs(c) \/ InThread(c) \/ c \in added \/ calling = c

ServerTypes ==
  /\ main \in {"serve", "adding", "stop", "await", "done"}
  /\ adding \in Conns \cup {NoConn} /\ (adding # NoConn <=> main = "adding")
  /\ map \subseteq Conns /\ added \subseteq Conns /\ deleted \subseteq Conns
  /\ calling \in Conns \cup {NoConn}
  /\ loop \in {"run", "exiting", "ended"} /\ (loop = "ended" => calling = NoConn)
  /\ jobs \in Seq(Conns) /\ job \in [Handlers -> Conns \cup {NoConn}]
  /\ step \in [Handlers -> {"handle", "add", "close", "delete"}]
  /\ data \in [Conns -> {"new", "nothing", "half", "whole", "gone"}]

\* The places exclude each other, and each holds a connection once.
HeldInv ==
  /\ \A i, j \in 1 .. Len(jobs) : jobs[i] = jobs[j] => i = j
  /\ \A t, u \in Handlers : job[t] = job[u] /\ job[t] # NoConn => t = u
  /\ \A i \in 1 .. Len(jobs) : jobs[i] \notin added /\ jobs[i] # calling /\ ~InThread(jobs[i])
  /\ \A t \in Handlers : job[t] \notin added /\ (job[t] # NoConn => job[t] # calling)
  /\ calling \notin added

\* A connection that is not yet accepted, that main is adding or that is deleted is at no
\* place; a task that is about to delete its connection has taken it out of the map.
LifeInv ==
  /\ \A c \in Conns : data[c] = "new" => ~Reachable(c) /\ c \notin map \cup deleted /\ c # adding
  /\ adding # NoConn => ~Reachable(adding) /\ adding \notin deleted
  /\ \A c \in deleted : ~Reachable(c) /\ c \notin map
  /\ \A t \in Handlers : job[t] # NoConn /\ step[t] = "delete" => job[t] \notin map

ServerInv == ServerTypes /\ HeldInv /\ LifeInv

LEMMA ServerInvInit == ASSUME PoolServerConstants PROVE ServerInit => ServerInv
  BY SMTT(90) DEF ServerInit, ServerInv, ServerTypes, HeldInv, LifeInv, Reachable, InJobs, InThread, PoolServerConstants

LEMMA ServerTypesStep ==
  ASSUME PoolServerConstants PROVE ServerTypes /\ [ServerNext]_serverVars => ServerTypes'
<1> SUFFICES ASSUME ServerTypes, [ServerNext]_serverVars PROVE ServerTypes'
  OBVIOUS
<1> USE DEF ServerTypes, events, executor, clients
<1>1. ASSUME NEW c \in Conns, SendHalf(c) \/ SendWhole(c) \/ ClientLeaves(c) PROVE ServerTypes'
  BY <1>1, SMTT(90) DEF SendHalf, SendWhole, Send, ClientLeaves
<1>2. ASSUME NEW c \in Conns, NewConnection(c) PROVE ServerTypes'
  BY <1>2 DEF NewConnection, PoolServerConstants
<1>3. CASE EventAdd \/ LoopExit \/ Shutdown
  BY <1>3, SMTT(90) DEF EventAdd, LoopExit, Shutdown
<1>4. CASE AwaitStop
  BY <1>4 DEF AwaitStop
<1>5. ASSUME NEW c \in Conns, Fire(c) PROVE ServerTypes'
  BY <1>5, SMTT(90) DEF Fire
<1>6. CASE HandleEvent
  <2>1. calling \in Conns
    BY <1>6, SMTT(90) DEF HandleEvent
  <2>2. jobs' \in Seq(Conns)
    BY <1>6, <2>1, Pushed DEF HandleEvent
  <2> QED BY <1>6, <2>2 DEF HandleEvent
<1>7. CASE LoopEnds
  BY <1>7, SMTT(90) DEF LoopEnds
<1>8. ASSUME NEW t \in Handlers, Take(t) PROVE ServerTypes'
  <2>1. jobs' \in Seq(Conns) /\ Head(jobs) \in Conns
    BY <1>8, Popped, SMTT(90) DEF Take
  <2> QED BY <1>8, <2>1 DEF Take
<1>9. ASSUME NEW t \in Handlers, Handle(t) \/ AddAgain(t) \/ Close(t) \/ Delete(t) PROVE ServerTypes'
  BY <1>9, SMTT(90) DEF Handle, AddAgain, Close, Delete
<1>10. CASE UNCHANGED serverVars
  BY <1>10, SMTT(90) DEF serverVars
<1> QED BY <1>1, <1>2, <1>3, <1>4, <1>5, <1>6, <1>7, <1>8, <1>9, <1>10, Zenon DEF ServerNext, Loop, Runs

\* The steps that move a connection from one place to another.
LEMMA MovingSteps ==
  ASSUME [ServerNext]_serverVars
  PROVE  \/ UNCHANGED <<jobs, job, added, calling>> \/ EventAdd \/ AwaitStop \/ HandleEvent
         \/ \E d \in Conns : Fire(d)
         \/ \E t \in Handlers : Take(t) \/ AddAgain(t) \/ Delete(t)
  BY Zenon DEF ServerNext, Loop, Runs, SendHalf, SendWhole, Send, ClientLeaves, NewConnection, LoopExit, Shutdown,
         LoopEnds, Handle, Close, serverVars, events, executor

\* Where a connection may be found after the steps that move one.
LEMMA HeldMoves ==
  ASSUME PoolServerConstants, ServerTypes, ServerTypes', [ServerNext]_serverVars, NEW c \in Conns
  PROVE  Reachable(c)' => \/ Reachable(c)
                          \/ c = adding /\ main = "adding" /\ EventAdd
<1> HAVE Reachable(c)'
<1> USE DEF Reachable, InJobs, InThread
<1>1. CASE UNCHANGED <<jobs, job, added, calling>>
  BY <1>1
<1>2. CASE EventAdd
  BY <1>2, SMTT(90) DEF EventAdd, executor
<1>3. CASE AwaitStop
  BY <1>3 DEF AwaitStop, executor
<1>4. ASSUME NEW d \in Conns, Fire(d) PROVE Reachable(c)
  BY <1>4, SMTT(90) DEF Fire, executor
<1>5. CASE HandleEvent
  <2>1. CASE shut
    BY <1>5, <2>1, SMTT(90) DEF HandleEvent, ServerTypes, PoolServerConstants
  <2>2. CASE ~shut
    <3>1. calling \in Conns /\ jobs' = Append(jobs, calling)
      BY <1>5, <2>2, SMTT(90) DEF HandleEvent, ServerTypes
    <3>2. \A i \in 1 .. Len(jobs') : (i \in 1 .. Len(jobs) /\ jobs'[i] = jobs[i]) \/ jobs'[i] = calling
      BY <3>1, Pushed, SMTT(90) DEF ServerTypes
    <3> QED BY <1>5, <3>2, SMTT(90) DEF HandleEvent, ServerTypes, PoolServerConstants
  <2> QED BY <2>1, <2>2, SMTT(90)
<1>6. ASSUME NEW t \in Handlers, Take(t) PROVE Reachable(c)
  <2>1. jobs # <<>> /\ jobs' = Tail(jobs) /\ job' = [job EXCEPT ![t] = Head(jobs)]
    BY <1>6, SMTT(90) DEF Take
  <2>2. /\ Head(jobs) = jobs[1] /\ 1 \in 1 .. Len(jobs)
        /\ \A i \in 1 .. Len(jobs') : i + 1 \in 1 .. Len(jobs) /\ jobs'[i] = jobs[i + 1]
    BY <2>1, Popped DEF ServerTypes
  <2>3. \A u \in Handlers : job'[u] = job[u] \/ job'[u] = jobs[1]
    BY <2>1, <2>2, SMTT(90) DEF ServerTypes
  <2> QED BY <1>6, <2>2, <2>3, SMTT(90) DEF Take, events
<1>7. ASSUME NEW t \in Handlers, AddAgain(t) PROVE Reachable(c)
  BY <1>7, SMTT(90) DEF AddAgain, ServerTypes, PoolServerConstants
<1>8. ASSUME NEW t \in Handlers, Delete(t) PROVE Reachable(c)
  BY <1>8, SMTT(90) DEF Delete, ServerTypes, PoolServerConstants
<1> QED BY <1>1, <1>2, <1>3, <1>4, <1>5, <1>6, <1>7, <1>8, MovingSteps, Zenon DEF EventAdd

LEMMA HeldInvStep ==
  ASSUME PoolServerConstants, ServerTypes, ServerTypes', HeldInv, LifeInv, [ServerNext]_serverVars
  PROVE  HeldInv'
<1> USE DEF HeldInv, InThread
<1>1. CASE UNCHANGED <<jobs, job, added, calling>>
  BY <1>1, SMTT(90)
<1>2. CASE EventAdd
  BY <1>2, SMTT(90) DEF EventAdd, executor, LifeInv, Reachable, InJobs, ServerTypes
<1>3. CASE AwaitStop
  BY <1>3 DEF AwaitStop, executor
<1>4. ASSUME NEW d \in Conns, Fire(d) PROVE HeldInv'
  BY <1>4, SMTT(90) DEF Fire, executor, ServerTypes
<1>5. CASE HandleEvent
  <2>0. calling \in Conns /\ calling' = NoConn /\ UNCHANGED <<job, added>>
    BY <1>5, SMTT(90) DEF HandleEvent, ServerTypes
  <2>1. CASE shut
    BY <1>5, <2>0, <2>1, SMTT(90) DEF HandleEvent, ServerTypes, PoolServerConstants
  <2>2. CASE ~shut
    <3>1. jobs' = Append(jobs, calling)
      BY <1>5, <2>2, SMTT(90) DEF HandleEvent
    <3>2. /\ Len(jobs') = Len(jobs) + 1 /\ jobs'[Len(jobs) + 1] = calling
          /\ \A i \in 1 .. Len(jobs) : jobs'[i] = jobs[i] /\ jobs[i] \in Conns
          /\ \A i \in 1 .. Len(jobs') : i \in 1 .. Len(jobs) \/ i = Len(jobs) + 1
      BY <2>0, <3>1, Pushed, SMTT(90) DEF ServerTypes
    <3>3. \A i, j \in 1 .. Len(jobs') : jobs'[i] = jobs'[j] => i = j
      BY <3>2, SMTT(90)
    <3>4. \A i \in 1 .. Len(jobs') : jobs'[i] \notin added' /\ jobs'[i] # calling' /\ \A t \in Handlers : job'[t] # jobs'[i]
      BY <2>0, <3>2, SMTT(90) DEF PoolServerConstants
    <3>5. calling' \notin added'
      BY <2>0, SMTT(90) DEF ServerTypes, PoolServerConstants
    <3>6. \A t \in Handlers : job'[t] \notin added' /\ (job'[t] # NoConn => job'[t] # calling')
      BY <2>0, SMTT(90)
    <3> QED BY <2>0, <3>3, <3>4, <3>5, <3>6, SMTT(90)
  <2> QED BY <2>1, <2>2, SMTT(90)
<1>6. ASSUME NEW t \in Handlers, Take(t) PROVE HeldInv'
  <2>1. jobs # <<>> /\ jobs' = Tail(jobs) /\ job' = [job EXCEPT ![t] = Head(jobs)] /\ UNCHANGED <<added, calling>>
    BY <1>6, SMTT(90) DEF Take, events
  <2>2. /\ Head(jobs) = jobs[1] /\ jobs[1] \in Conns /\ 1 \in 1 .. Len(jobs)
        /\ \A i \in 1 .. Len(jobs') : i + 1 \in 1 .. Len(jobs) /\ i \in Nat /\ i + 1 # 1 /\ jobs'[i] = jobs[i + 1]
    BY <2>1, Popped, SMTT(90) DEF ServerTypes
  <2>3. \A u \in Handlers : job'[u] = IF u = t THEN jobs[1] ELSE job[u]
    BY <2>1, <2>2, SMTT(90) DEF ServerTypes
  <2>4. \A i \in 1 .. Len(jobs') : jobs'[i] # jobs[1]
    BY <2>2, SMTT(90)
  <2>5. \A i, j \in 1 .. Len(jobs') : jobs'[i] = jobs'[j] => i = j
    BY <2>2, SMTT(90)
  <2>6. \A u \in Handlers : job[u] # jobs[1]
    BY <2>2, SMTT(90)
  <2>7. \A u, v \in Handlers : job'[u] = job'[v] /\ job'[u] # NoConn => u = v
    BY <2>3, <2>6, SMTT(90)
  <2>8. \A i \in 1 .. Len(jobs') : jobs'[i] \notin added /\ jobs'[i] # calling /\ \A u \in Handlers : job'[u] # jobs'[i]
    BY <2>2, <2>3, <2>4, SMTT(90)
  <2>9. \A u \in Handlers : job'[u] \notin added /\ (job'[u] # NoConn => job'[u] # calling)
    BY <2>2, <2>3
  <2> QED BY <2>1, <2>5, <2>7, <2>8, <2>9
<1>7. ASSUME NEW t \in Handlers, AddAgain(t) PROVE HeldInv'
  BY <1>7, SMTT(90) DEF AddAgain, ServerTypes, PoolServerConstants
<1>8. ASSUME NEW t \in Handlers, Delete(t) PROVE HeldInv'
  BY <1>8, SMTT(90) DEF Delete, ServerTypes, PoolServerConstants
<1> QED BY <1>1, <1>2, <1>3, <1>4, <1>5, <1>6, <1>7, <1>8, MovingSteps, Zenon

LEMMA LifeInvStep ==
  ASSUME PoolServerConstants, ServerTypes, ServerTypes', HeldInv, LifeInv, [ServerNext]_serverVars
  PROVE  LifeInv'
<1>0. \A c \in Conns : Reachable(c)' => Reachable(c) \/ (c = adding /\ EventAdd)
  BY HeldMoves, SMTT(90)
<1>1. ASSUME NEW c \in Conns, NewConnection(c) PROVE LifeInv'
  BY <1>0, <1>1 DEF NewConnection, EventAdd, LifeInv, ServerTypes, executor, PoolServerConstants, Reachable, InThread, InJobs
<1>2. CASE EventAdd
  <2>1. adding \in Conns /\ adding' = NoConn /\ UNCHANGED <<map, deleted, data, job, step>>
    BY <1>2 DEF EventAdd, ServerTypes, executor, clients
  <2>2. \A c \in Conns : c # adding /\ ~Reachable(c) => ~Reachable(c)'
    BY <1>0, SMTT(90)
  <2>3. adding \notin deleted /\ deleted \subseteq Conns
    BY <2>1, SMTT(90) DEF LifeInv, ServerTypes, PoolServerConstants
  <2> QED BY <2>1, <2>2, <2>3, SMTT(90) DEF LifeInv, PoolServerConstants
<1>3. CASE AwaitStop
  <2>1. \A c \in Conns : ~Reachable(c)'
    BY <1>3, SMTT(90) DEF AwaitStop, Reachable, InJobs, InThread, executor, ServerTypes, PoolServerConstants
  <2> QED BY <1>3, <2>1, SMTT(90) DEF AwaitStop, LifeInv, ServerTypes, executor, clients
<1>4. ASSUME NEW t \in Handlers, Delete(t) PROVE LifeInv'
  <2>1. PICK d \in Conns : d = job[t]
    BY <1>4, SMTT(90) DEF Delete, ServerTypes
  <2>2. /\ d # NoConn /\ deleted' = deleted \cup {d} /\ added' = added \ {d} /\ job' = [job EXCEPT ![t] = NoConn]
        /\ step[t] = "delete" /\ UNCHANGED <<main, adding, map, calling, jobs, step, data>>
    BY <1>4, <2>1, Zenon DEF Delete, clients
  <2>3. Reachable(d) /\ d \notin map
    BY <2>1, <2>2, SMTT(90) DEF LifeInv, Reachable, InThread
  <2>4. ~InJobs(d)' /\ ~InThread(d)' /\ d \notin added' /\ calling' # d
    BY <2>1, <2>2, SMTT(90) DEF HeldInv, InJobs, InThread, ServerTypes
  <2>5. ~Reachable(d)'
    BY <2>4, SMTT(90) DEF Reachable
  <2>6. \A c \in Conns : ~Reachable(c) => ~Reachable(c)'
    BY <1>0, <1>4, SMTT(90) DEF Delete, EventAdd, LifeInv, ServerTypes
  <2>7. \A u \in Handlers : job'[u] = NoConn \/ job'[u] = job[u]
    BY <2>2 DEF ServerTypes
  <2> QED BY <2>2, <2>3, <2>5, <2>6, <2>7, SMTT(90) DEF LifeInv, ServerTypes
<1>5. ASSUME NEW t \in Handlers, Close(t) PROVE LifeInv'
  BY <1>0, <1>5, SMTT(90) DEF Close, EventAdd, LifeInv, HeldInv, ServerTypes, clients
<1>6. ASSUME NEW t \in Handlers, Take(t) PROVE LifeInv'
  BY <1>0, <1>6, SMTT(90) DEF Take, EventAdd, LifeInv, ServerTypes, clients, events
<1>7. ASSUME NEW t \in Handlers, Handle(t) PROVE LifeInv'
  BY <1>0, <1>7, SMTT(90) DEF Handle, EventAdd, LifeInv, ServerTypes, events
<1>8. ASSUME NEW t \in Handlers, AddAgain(t) PROVE LifeInv'
  BY <1>0, <1>8, SMTT(90) DEF AddAgain, EventAdd, LifeInv, ServerTypes, clients
<1>9. ASSUME NEW c \in Conns, SendHalf(c) \/ SendWhole(c) \/ ClientLeaves(c) PROVE LifeInv'
  BY <1>0, <1>9 DEF SendHalf, SendWhole, Send, ClientLeaves, EventAdd, LifeInv, ServerTypes, events, executor
<1>10. ASSUME NEW c \in Conns, Fire(c) PROVE LifeInv'
  BY <1>0, <1>10, SMTT(90) DEF Fire, EventAdd, LifeInv, ServerTypes, clients, executor
<1>11. CASE HandleEvent \/ LoopEnds \/ LoopExit \/ Shutdown \/ UNCHANGED serverVars
  BY <1>0, <1>11, Zenon DEF HandleEvent, LoopEnds, LoopExit, Shutdown, serverVars, EventAdd, LifeInv, ServerTypes, clients, executor, events
<1> QED BY <1>1, <1>2, <1>3, <1>4, <1>5, <1>6, <1>7, <1>8, <1>9, <1>10, <1>11 DEF ServerNext, Loop, Runs

LEMMA AlwaysServed == ASSUME PoolServerConstants PROVE ServerSpec => []ServerInv
<1>1. ServerInit => ServerInv
  BY ServerInvInit
<1>2. ServerInv /\ [ServerNext]_serverVars => ServerInv'
  BY ServerTypesStep, HeldInvStep, LifeInvStep DEF ServerInv
<1> QED BY <1>1, <1>2, PTL DEF ServerSpec

\* The count of the places of a connection, from their exclusion.
LEMMA HeldCounted ==
  ASSUME PoolServerConstants, ServerInv, NEW c \in Conns
  PROVE  Held(c) = IF Reachable(c) THEN 1 ELSE 0
<1> DEFINE Q == {i \in DOMAIN jobs : jobs[i] = c}
           T == {t \in Handlers : job[t] = c}
<1>1. DOMAIN jobs = 1 .. Len(jobs) /\ c # NoConn
  BY DEF ServerInv, ServerTypes, PoolServerConstants
<1>2. Cardinality(Q) = IF Q = {} THEN 0 ELSE 1
  <2>1. \A x, y \in Q : x = y
    BY <1>1 DEF ServerInv, HeldInv
  <2> QED BY <2>1, AtMostOne, SMTT(90)
<1>3. Cardinality(T) = IF T = {} THEN 0 ELSE 1
  <2>1. \A x, y \in T : x = y
    BY <1>1 DEF ServerInv, HeldInv
  <2> QED BY <2>1, AtMostOne, SMTT(90)
<1>4. (Q # {} <=> InJobs(c)) /\ (T # {} <=> InThread(c))
  BY <1>1, SMTT(90) DEF InJobs, InThread
<1>5. /\ InJobs(c) => ~InThread(c) /\ c \notin added /\ c # calling
      /\ InThread(c) => c \notin added /\ c # calling
      /\ c = calling => c \notin added
  BY <1>1 DEF ServerInv, HeldInv, InJobs, InThread
<1>6. Held(c) = Cardinality(Q) + Cardinality(T) + (IF c \in added THEN 1 ELSE 0) + (IF calling = c THEN 1 ELSE 0)
  BY SMTT(90) DEF Held
<1> HIDE DEF Q, T
<1> QED BY <1>2, <1>3, <1>4, <1>5, <1>6, SMTT(90) DEF Reachable

\* A connection is handled by one thread at a time, and a communicator that is deleted is
\* in nobody's reach (handle_event, close_connection, await_stop), for any number of
\* connections, threads and requests.
THEOREM HandlersSafe == ASSUME PoolServerConstants PROVE ServerSpec => []HandledSafely
<1>1. ServerInv => HandledSafely
  BY HeldCounted DEF HandledSafely, OneHandler, DeletedUnreachable, ServerInv, LifeInv, ServerTypes
<1> QED BY <1>1, AlwaysServed, PTL
-----------------------------------------------------------------------------
(* BufferedWriter *)

\* The lesser of two numbers.
LEMMA MinPair ==
  ASSUME NEW x \in Int, NEW y \in Int
  PROVE  Min({x, y}) = IF x <= y THEN x ELSE y
<1>1. \E m \in {x, y} : \A z \in {x, y} : m <= z
  OBVIOUS
<1>2. Min({x, y}) \in {x, y} /\ \A z \in {x, y} : Min({x, y}) <= z
  BY <1>1 DEF Min
<1> QED BY <1>2

\* A position that has gone round less than once.
LEMMA ModOnce ==
  ASSUME NEW c \in Nat, c > 0, NEW x \in 0 .. 2 * c - 1
  PROVE  x % c = IF x < c THEN x ELSE x - c
  OBVIOUS

\* A sequence that is one followed by another.
LEMMA Concatenated ==
  ASSUME NEW s \in Seq(Nat), NEW t \in Seq(Nat), NEW u \in Seq(Nat), Len(u) = Len(s) + Len(t),
         \A i \in 1 .. Len(s) : u[i] = s[i], \A i \in 1 .. Len(t) : u[Len(s) + i] = t[i]
  PROVE  u = s \o t
<1>. DEFINE w == s \o t
<1>1. w \in Seq(Nat) /\ Len(w) = Len(u)
  OBVIOUS
<1>2. ASSUME NEW i \in 1 .. Len(u) PROVE u[i] = w[i]
  <2>1. CASE i <= Len(s)
    BY <2>1
  <2>2. CASE i > Len(s)
    <3>1. i - Len(s) \in 1 .. Len(t) /\ Len(s) + (i - Len(s)) = i
      BY <2>2
    <3>2. u[i] = t[i - Len(s)]
      BY <3>1
    <3> QED BY <2>2, <3>1, <3>2
  <2> QED BY <2>1, <2>2
<1>3. u = [i \in 1 .. Len(u) |-> u[i]]
  OBVIOUS
<1>. HIDE DEF w
<1>4. w = [i \in 1 .. Len(w) |-> w[i]]
  BY <1>1
<1>5. u = w
  BY <1>1, <1>2, <1>3, <1>4, Zenon
<1> QED BY <1>5, Zenon DEF w

WriterTypes ==
  /\ buffer \in [Slots -> Nat]
  /\ data_size \in 0 .. Capacity
  /\ write_pos \in Slots
  /\ todo \in Nat /\ want \in Int /\ given \in Nat
  /\ sent \in Seq(Nat)
  /\ call \in {"idle", "writen", "spill", "flush", "close"}

\* flush and close ask for what the buffer holds, down to the last byte.
WriterInv == WriterTypes /\ (call \in {"flush", "close"} => want = data_size)

\* The slot of the byte i places after the one at read position r.
Slot(r, i) == IF r + i < Capacity THEN r + i ELSE r + i - Capacity

\* The read position lies as many bytes as wait behind the write position, around the ring
\* (RingBuffer::read_pos).
LEMMA RingPosition ==
  ASSUME WriterConstants, NEW d \in 0 .. Capacity, NEW w \in Slots
  PROVE  /\ (w - d + Capacity) % Capacity = IF d <= w THEN w - d ELSE w - d + Capacity
         /\ (w - d + Capacity) % Capacity \in Slots
<1>1. Capacity \in Nat /\ Capacity > 0 /\ w \in 0 .. Capacity - 1
  BY DEF WriterConstants, Slots
<1> DEFINE x == w - d + Capacity
<1>2. x \in 0 .. 2 * Capacity - 1
  BY <1>1
<1>3. x % Capacity = IF x < Capacity THEN x ELSE x - Capacity
  <2> HIDE DEF x
  <2> QED BY <1>1, <1>2, ModOnce
<1>4. x % Capacity = IF d <= w THEN w - d ELSE w - d + Capacity
  BY <1>1, <1>3
<1>5. (IF d <= w THEN w - d ELSE w - d + Capacity) \in 0 .. Capacity - 1
  BY <1>1
<1> QED BY <1>4, <1>5 DEF Slots

\* The n bytes of the ring b from position r on, as Unread reads them, and by their slots.
Bytes(b, r, n) == [i \in 1 .. n |-> b[(r + i - 1) % Capacity]]

LEMMA RingBytes ==
  ASSUME WriterConstants, NEW b \in [Slots -> Nat], NEW r \in Slots, NEW n \in 0 .. Capacity
  PROVE  /\ Bytes(b, r, n) \in Seq(Nat) /\ Len(Bytes(b, r, n)) = n
         /\ \A i \in 1 .. n : Bytes(b, r, n)[i] = b[Slot(r, i - 1)]
<1>1. Capacity \in Nat /\ Capacity > 0 /\ r \in 0 .. Capacity - 1
  BY DEF WriterConstants, Slots
<1>2. ASSUME NEW i \in 1 .. n
      PROVE  (r + i - 1) % Capacity = Slot(r, i - 1) /\ Slot(r, i - 1) \in Slots
  <2> DEFINE x == r + i - 1
  <2>1. x \in 0 .. 2 * Capacity - 1
    BY <1>1
  <2>2. x % Capacity = IF x < Capacity THEN x ELSE x - Capacity
    <3> HIDE DEF x
    <3> QED BY <1>1, <2>1, ModOnce, Zenon
  <2> QED BY <1>1, <2>2 DEF Slot, Slots
<1>3. \A i \in 1 .. n : Bytes(b, r, n)[i] = b[Slot(r, i - 1)] /\ b[Slot(r, i - 1)] \in Nat
  BY <1>2 DEF Bytes
<1> DEFINE u == Bytes(b, r, n)
<1>4. u = [i \in 1 .. n |-> u[i]] /\ \A i \in 1 .. n : u[i] \in Nat
  BY <1>3 DEF Bytes
<1>5. n \in Nat
  BY <1>1
<1>6. u \in Seq(Nat) /\ Len(u) = n
  <2> HIDE DEF u
  <2> QED BY <1>4, <1>5
<1> QED BY <1>3, <1>6

LEMMA ReadPosition ==
  ASSUME WriterConstants, WriterTypes
  PROVE  /\ read_pos = IF data_size <= write_pos THEN write_pos - data_size
                       ELSE write_pos - data_size + Capacity
         /\ read_pos \in Slots
  BY RingPosition DEF WriterTypes, read_pos

LEMMA UnreadSlots ==
  ASSUME WriterConstants, WriterTypes
  PROVE  /\ Unread \in Seq(Nat) /\ Len(Unread) = data_size
         /\ \A i \in 1 .. data_size : Unread[i] = buffer[Slot(read_pos, i - 1)]
<1>1. read_pos \in Slots
  BY ReadPosition
<1>2. data_size \in 0 .. Capacity /\ buffer \in [Slots -> Nat]
  BY DEF WriterTypes
<1>3. Unread = Bytes(buffer, read_pos, data_size)
  BY DEF Unread, Bytes
<1> QED BY <1>1, <1>2, <1>3, RingBytes, Zenon

\* The free piece after write_pos is free, and there is one while the buffer is not full
\* (RingBuffer::write).
LEMMA WritableFits ==
  ASSUME WriterConstants, WriterTypes, remain > 0
  PROVE  /\ Writable \in 1 .. Capacity - data_size
         /\ Writable <= Capacity - write_pos
         /\ data_size > write_pos => Writable = Capacity - data_size
<1>1. /\ Capacity \in Nat /\ write_pos \in 0 .. Capacity - 1
      /\ data_size \in 0 .. Capacity /\ Capacity - data_size > 0
  BY DEF WriterConstants, WriterTypes, Slots, remain
<1>2. read_pos = IF data_size <= write_pos THEN write_pos - data_size
                 ELSE write_pos - data_size + Capacity
  BY ReadPosition
<1> QED BY <1>1, <1>2 DEF Writable

\* The readable piece from read_pos on lies before the end of the ring and holds bytes that
\* wait (RingBuffer::buffer).
LEMMA ReadableFits ==
  ASSUME WriterConstants, WriterTypes, data_size > 0
  PROVE  Readable \in 1 .. data_size /\ read_pos + Readable <= Capacity
<1>1. /\ Capacity \in Nat /\ write_pos \in 0 .. Capacity - 1 /\ data_size \in 0 .. Capacity
  BY DEF WriterConstants, WriterTypes, Slots
<1>2. read_pos = IF data_size <= write_pos THEN write_pos - data_size
                 ELSE write_pos - data_size + Capacity
  BY ReadPosition
<1> QED BY <1>1, <1>2 DEF Readable

\* A round of RingBuffer::write puts its bytes behind those that wait.
LEMMA CopyPuts ==
  ASSUME WriterConstants, WriterInv, WriteCopy
  PROVE  WriterInv' /\ Stream!Put
<1> DEFINE n == Min({todo, Writable})
<1>1. /\ call = "writen" /\ todo > 0 /\ remain > 0 /\ RingWrite
      /\ UNCHANGED <<call, want, sent>>
  BY DEF WriteCopy
<1>2. /\ Capacity \in Nat /\ Capacity > 0 /\ write_pos \in 0 .. Capacity - 1
      /\ data_size \in 0 .. Capacity /\ given \in Nat /\ todo \in Nat
      /\ buffer \in [0 .. Capacity - 1 -> Nat] /\ WriterTypes
  BY DEF WriterInv, WriterConstants, WriterTypes, Slots
<1>3. /\ Writable \in 1 .. Capacity - data_size /\ Writable <= Capacity - write_pos
      /\ data_size > write_pos => Writable = Capacity - data_size
  BY <1>1, <1>2, WritableFits
<1>4. /\ n \in 1 .. Capacity - data_size /\ n <= Capacity - write_pos /\ n <= todo
      /\ data_size > write_pos => write_pos + n < Capacity
  BY <1>1, <1>2, <1>3, MinPair
<1>5. /\ buffer' = [i \in Slots |-> IF i \in write_pos .. write_pos + n - 1
                                    THEN given + (i - write_pos) + 1 ELSE buffer[i]]
      /\ write_pos' = (write_pos + n) % Capacity
      /\ data_size' = data_size + n /\ todo' = todo - n /\ given' = given + n
  BY <1>1 DEF RingWrite
<1> HIDE DEF n
<1>6. write_pos' = IF write_pos + n = Capacity THEN 0 ELSE write_pos + n
  <2>1. write_pos + n \in 0 .. 2 * Capacity - 1
    BY <1>2, <1>4
  <2> DEFINE x == write_pos + n
  <2>2. x % Capacity = IF x < Capacity THEN x ELSE x - Capacity
    <3>1. x \in 0 .. 2 * Capacity - 1
      BY <2>1
    <3> HIDE DEF x
    <3> QED BY <1>2, <3>1, ModOnce, Zenon
  <2> QED BY <1>2, <1>4, <1>5, <2>2
<1>7. WriterTypes'
  <2>1. buffer' \in [Slots -> Nat]
    BY <1>2, <1>4, <1>5 DEF Slots
  <2>2. data_size' \in 0 .. Capacity /\ write_pos' \in Slots
    BY <1>2, <1>4, <1>5, <1>6 DEF Slots
  <2>3. todo' \in Nat /\ given' \in Nat
    BY <1>2, <1>4, <1>5
  <2> QED BY <1>1, <1>2, <2>1, <2>2, <2>3 DEF WriterTypes
<1>8. WriterInv'
  BY <1>1, <1>7 DEF WriterInv
<1>9. read_pos = IF data_size <= write_pos THEN write_pos - data_size
                 ELSE write_pos - data_size + Capacity
  BY <1>2, ReadPosition
<1>10. read_pos' = read_pos
  <2>1. read_pos' = IF data_size' <= write_pos' THEN write_pos' - data_size'
                    ELSE write_pos' - data_size' + Capacity
    BY <1>7, RingPosition DEF WriterTypes, read_pos
  <2> QED BY <1>2, <1>4, <1>5, <1>6, <1>9, <2>1
<1>11. /\ Unread \in Seq(Nat) /\ Len(Unread) = data_size
       /\ \A i \in 1 .. data_size : Unread[i] = buffer[Slot(read_pos, i - 1)]
  BY <1>2, UnreadSlots
<1>12. /\ Unread' \in Seq(Nat) /\ Len(Unread') = data_size + n
       /\ \A i \in 1 .. data_size + n : Unread'[i] = buffer'[Slot(read_pos, i - 1)]
  <2>1. /\ Unread' \in Seq(Nat) /\ Len(Unread') = data_size'
        /\ \A i \in 1 .. data_size' : Unread'[i] = buffer'[Slot(read_pos', i - 1)]
    <3>1. data_size' \in 0 .. Capacity /\ buffer' \in [Slots -> Nat] /\ read_pos' \in Slots
      BY <1>2, <1>7, <1>10, ReadPosition, Zenon DEF WriterTypes
    <3>2. Unread' = Bytes(buffer', read_pos', data_size')
      BY DEF Unread, Bytes
    <3> QED BY <3>1, <3>2, RingBytes, Zenon
  <2> QED BY <1>5, <1>10, <2>1
<1> DEFINE new == [i \in 1 .. n |-> given + i]
<1>13. new \in Seq(Nat) /\ Len(new) = n /\ \A i \in 1 .. n : new[i] = given + i
  BY <1>2, <1>4
<1>14. ASSUME NEW i \in 1 .. data_size PROVE Unread'[i] = Unread[i]
  <2>1. /\ Slot(read_pos, i - 1) \in 0 .. Capacity - 1
        /\ Slot(read_pos, i - 1) \notin write_pos .. write_pos + n - 1
    BY <1>2, <1>4, <1>9 DEF Slot
  <2>2. buffer'[Slot(read_pos, i - 1)] = buffer[Slot(read_pos, i - 1)]
    BY <1>5, <2>1 DEF Slots
  <2>3. i \in 1 .. data_size + n
    BY <1>2, <1>4
  <2> QED BY <1>11, <1>12, <2>2, <2>3
<1>15. ASSUME NEW i \in 1 .. n PROVE Unread'[data_size + i] = new[i]
  <2>1. Slot(read_pos, (data_size + i) - 1) = write_pos + i - 1
    BY <1>2, <1>4, <1>9 DEF Slot
  <2>2. write_pos + i - 1 \in 0 .. Capacity - 1 /\ write_pos + i - 1 \in write_pos .. write_pos + n - 1
    BY <1>2, <1>4
  <2>3. buffer'[write_pos + i - 1] = given + (write_pos + i - 1 - write_pos) + 1
    <3>1. write_pos + i - 1 \in Slots
      BY <2>2 DEF Slots
    <3> DEFINE x == write_pos + i - 1
    <3>2. x \in Slots /\ x \in write_pos .. write_pos + n - 1
      BY <2>2, <3>1
    <3> HIDE DEF x
    <3>3. buffer'[x] = given + (x - write_pos) + 1
      BY <1>5, <3>2
    <3> QED BY <1>2, <1>4, <3>3 DEF x
  <2>4. data_size + i \in 1 .. data_size + n
    BY <1>2, <1>4
  <2>5. Unread'[data_size + i] = buffer'[Slot(read_pos, (data_size + i) - 1)]
    <3> DEFINE k == data_size + i
    <3>1. k \in 1 .. data_size + n
      BY <2>4
    <3> HIDE DEF k
    <3>2. Unread'[k] = buffer'[Slot(read_pos, k - 1)]
      BY <1>12, <3>1, Zenon
    <3> QED BY <3>2, Zenon DEF k
  <2> QED BY <1>2, <1>13, <2>1, <2>3, <2>5
<1> HIDE DEF new
<1>16. Unread' = Unread \o new
  <2> DEFINE u == Unread'
  <2>1. /\ u \in Seq(Nat) /\ Len(u) = Len(Unread) + Len(new)
        /\ \A i \in 1 .. Len(Unread) : u[i] = Unread[i]
        /\ \A i \in 1 .. Len(new) : u[Len(Unread) + i] = new[i]
    BY <1>11, <1>12, <1>13, <1>14, <1>15
  <2>2. Unread \in Seq(Nat) /\ new \in Seq(Nat)
    BY <1>11, <1>13
  <2> HIDE DEF u
  <2>3. u = Unread \o new
    BY <2>1, <2>2, Concatenated, Zenon
  <2> QED BY <2>3 DEF u
<1>17. Stream!Put
  BY <1>1, <1>4, <1>5, <1>11, <1>16, Zenon DEF Stream!Put, new
<1> QED BY <1>8, <1>17

\* write(2) takes the bytes that have waited longest, in order.
LEMMA SysWriteSends ==
  ASSUME WriterConstants, WriterInv, SysWrite
  PROVE  WriterInv' /\ Stream!Send
<1>1. PICK n \in 1 .. Readable :
        /\ sent' = sent \o [i \in 1 .. n |-> buffer[read_pos + i - 1]]
        /\ data_size' = data_size - n /\ UNCHANGED <<buffer, write_pos>>
        /\ want' = want - n
  BY DEF SysWrite, forward
<1>2. data_size > 0 /\ UNCHANGED <<call, todo, given>>
  BY DEF SysWrite, MoreToFlush
<1>3. /\ Capacity \in Nat /\ Capacity > 0 /\ write_pos \in 0 .. Capacity - 1
      /\ data_size \in 0 .. Capacity /\ want \in Int /\ sent \in Seq(Nat)
      /\ buffer \in [0 .. Capacity - 1 -> Nat] /\ WriterTypes
  BY DEF WriterInv, WriterConstants, WriterTypes, Slots
<1>4. Readable \in 1 .. data_size /\ read_pos + Readable <= Capacity
  BY <1>2, <1>3, ReadableFits
<1>5. /\ read_pos = IF data_size <= write_pos THEN write_pos - data_size
                    ELSE write_pos - data_size + Capacity
      /\ read_pos \in 0 .. Capacity - 1
  BY <1>3, ReadPosition DEF Slots
<1>6. n \in 1 .. data_size /\ read_pos + n <= Capacity
  BY <1>3, <1>4, <1>5
<1> DEFINE piece == [i \in 1 .. n |-> buffer[read_pos + i - 1]]
<1>7. piece \in Seq(Nat) /\ Len(piece) = n /\ \A i \in 1 .. n : piece[i] = buffer[read_pos + i - 1]
  <2>1. \A i \in 1 .. n : buffer[read_pos + i - 1] \in Nat
    BY <1>3, <1>5, <1>6
  <2> QED BY <1>6, <2>1
<1> HIDE DEF piece
<1>8. sent' = sent \o piece
  BY <1>1 DEF piece
<1>9. WriterTypes'
  <2>1. sent' \in Seq(Nat)
    BY <1>3, <1>7, <1>8
  <2>2. data_size' \in 0 .. Capacity /\ want' \in Int
    BY <1>1, <1>3, <1>6
  <2> QED BY <1>1, <1>2, <1>3, <2>1, <2>2 DEF WriterTypes
<1>10. WriterInv'
  BY <1>1, <1>2, <1>3, <1>6, <1>9 DEF WriterInv
<1>11. read_pos' = Slot(read_pos, n)
  <2>1. read_pos' = IF data_size' <= write_pos' THEN write_pos' - data_size'
                    ELSE write_pos' - data_size' + Capacity
    BY <1>9, RingPosition DEF WriterTypes, read_pos
  <2> QED BY <1>1, <1>3, <1>5, <1>6, <2>1 DEF Slot
<1>12. /\ Unread \in Seq(Nat) /\ Len(Unread) = data_size
       /\ \A i \in 1 .. data_size : Unread[i] = buffer[Slot(read_pos, i - 1)]
  BY <1>3, UnreadSlots
<1>13. /\ Unread' \in Seq(Nat) /\ Len(Unread') = data_size - n
       /\ \A i \in 1 .. data_size - n : Unread'[i] = buffer[Slot(Slot(read_pos, n), i - 1)]
  <2>1. /\ Unread' \in Seq(Nat) /\ Len(Unread') = data_size'
        /\ \A i \in 1 .. data_size' : Unread'[i] = buffer'[Slot(read_pos', i - 1)]
    <3>1. data_size' \in 0 .. Capacity /\ buffer' \in [Slots -> Nat] /\ read_pos' \in Slots
      BY <1>9, RingPosition DEF WriterTypes, read_pos
    <3>2. Unread' = Bytes(buffer', read_pos', data_size')
      BY DEF Unread, Bytes
    <3> QED BY <3>1, <3>2, RingBytes, Zenon
  <2> QED BY <1>1, <1>11, <2>1
<1>14. ASSUME NEW i \in 1 .. n PROVE piece[i] = Unread[i]
  <2>1. Slot(read_pos, i - 1) = read_pos + i - 1
    BY <1>3, <1>5, <1>6 DEF Slot
  <2>2. i \in 1 .. data_size
    BY <1>3, <1>6
  <2> QED BY <1>7, <1>12, <2>1, <2>2, Zenon
<1>15. ASSUME NEW i \in 1 .. data_size - n PROVE Unread'[i] = Unread[n + i]
  <2>1. Slot(Slot(read_pos, n), i - 1) = Slot(read_pos, n + i - 1)
    BY <1>3, <1>5, <1>6 DEF Slot
  <2>2. n + i \in 1 .. data_size
    BY <1>3, <1>6
  <2>3. Unread[n + i] = buffer[Slot(read_pos, n + i - 1)]
    BY <1>12, <2>2
  <2> QED BY <1>13, <2>1, <2>3
<1>16. piece = SubSeq(Unread, 1, n)
  BY <1>3, <1>6, <1>7, <1>12, <1>14
<1>17. Unread' = SubSeq(Unread, n + 1, Len(Unread))
  BY <1>3, <1>6, <1>12, <1>13, <1>15
<1>18. Stream!Send
  BY <1>2, <1>6, <1>8, <1>12, <1>16, <1>17, Zenon DEF Stream!Send
<1> QED BY <1>10, <1>18

\* Every other step of a call leaves the bytes that wait; one that fails drops the bytes of
\* the call that had not been put.
LEMMA OtherCalls ==
  ASSUME WriterConstants, WriterInv, [WriterNext]_writerVars, ~WriteCopy, ~SysWrite
  PROVE  /\ WriterInv'
         /\ UNCHANGED <<Unread, sent>>
         /\ given' = given \/ given' > given
<1>1. /\ data_size \in 0 .. Capacity /\ todo \in Nat /\ given \in Nat /\ want \in Int
      /\ call \in {"idle", "writen", "spill", "flush", "close"}
  BY DEF WriterInv, WriterTypes
<1>2. Capacity \in Nat
  BY DEF WriterConstants
<1> DEFINE Kept ==
      /\ UNCHANGED <<buffer, data_size, write_pos, sent>>
      /\ given' = given \/ given' = given + todo
      /\ todo' \in Nat /\ want' \in Int
      /\ call' \in {"idle", "writen", "spill", "flush", "close"}
      /\ call' \in {"flush", "close"} => want' = data_size
<1>3. Kept
  <2>1. ASSUME NEW n \in 1 .. MaxBytes, writen(n) PROVE Kept
    BY <1>1, <2>1 DEF writen, ring
  <2>2. ASSUME NEW caller \in {"flush", "close"}, flush(caller) PROVE Kept
    BY <1>1, <1>2, <2>2 DEF flush, ring
  <2>3. CASE WriteFull
    BY <1>1, <2>3 DEF WriteFull, ring
  <2>4. CASE WrittenAll
    BY <1>1, <2>4 DEF WrittenAll, Return, ring
  <2>5. CASE SysRetry
    BY <1>1, <2>5 DEF SysRetry, writerVars, ring, WriterInv
  <2>6. CASE SysFail
    BY <1>1, <2>6 DEF SysFail, Return, ring
  <2>7. CASE Flushed
    BY <1>1, <2>7 DEF Flushed, Return, ring
  <2>8. CASE Refused
    BY <1>1, <2>8 DEF Refused, ring, WriterInv
  <2>9. CASE UNCHANGED writerVars
    BY <1>1, <2>9 DEF writerVars, ring, WriterInv
  <2> QED BY <2>1, <2>2, <2>3, <2>4, <2>5, <2>6, <2>7, <2>8, <2>9 DEF WriterNext
<1>4. given' \in Nat /\ (given' = given \/ given' > given)
  BY <1>1, <1>3
<1>5. WriterInv'
  BY <1>3, <1>4 DEF WriterInv, WriterTypes
<1>6. Unread' = Unread
  BY <1>3 DEF Unread, read_pos
<1> QED BY <1>3, <1>4, <1>5, <1>6

\* A successful flush or close leaves nothing behind.
LEMMA FlushEmpties ==
  ASSUME WriterConstants, WriterInv, [WriterNext]_writerVars,
         call \in {"flush", "close"}, call' = "idle", callRc' = "SUCCESS"
  PROVE  Unread' = <<>>
<1>1. Flushed
  BY DEF WriterNext, writen, flush, WriteFull, WriteCopy, WrittenAll, SysWrite, SysRetry,
         SysFail, Refused, Return, writerVars
<1>2. data_size = 0 /\ data_size' = data_size
  BY <1>1 DEF WriterInv, WriterTypes, WriterConstants, Flushed, Flushing, MoreToFlush, ring
<1>3. Unread' = [i \in 1 .. 0 |-> buffer'[(read_pos' + i - 1) % Capacity]]
  BY <1>2 DEF Unread
<1> QED BY <1>3

\* The ring buffer implements ByteStream, wherever its positions wrap around and whatever the
\* socket takes at a time, and a flush or close that succeeds has sent every byte, for any
\* capacity and number of bytes.
THEOREM WriterInOrder ==
  ASSUME WriterConstants
  PROVE  WriterSpec => InOrder
<1>1. WriterInit => WriterInv /\ Stream!Init
  <2> SUFFICES ASSUME WriterInit PROVE WriterInv /\ Stream!Init
    OBVIOUS
  <2>1. WriterTypes
    BY DEF WriterInit, WriterTypes, WriterConstants, Slots
  <2>2. WriterInv
    BY <2>1 DEF WriterInv, WriterInit
  <2>3. Unread \in Seq(Nat) /\ Len(Unread) = 0
    BY <2>1, UnreadSlots DEF WriterInit
  <2> QED BY <2>2, <2>3 DEF WriterInit, Stream!Init
<1>2. WriterInv /\ [WriterNext]_writerVars => WriterInv' /\ [Stream!Next]_(Stream!vars)
  <2> SUFFICES ASSUME WriterInv, [WriterNext]_writerVars
               PROVE  WriterInv' /\ [Stream!Next]_(Stream!vars)
    OBVIOUS
  <2>1. CASE WriteCopy
    BY <2>1, CopyPuts DEF Stream!Next
  <2>2. CASE SysWrite
    BY <2>2, SysWriteSends DEF Stream!Next
  <2>3. CASE ~WriteCopy /\ ~SysWrite
    BY <2>3, OtherCalls DEF Stream!Next, Stream!Drop, Stream!vars
  <2> QED BY <2>1, <2>2, <2>3
<1>3. WriterInv /\ [WriterNext]_writerVars =>
        [ /\ call \in {"flush", "close"} /\ call' = "idle" /\ callRc' = "SUCCESS"
          => Unread' = << >> ]_writerVars
  BY FlushEmpties
<1>4. WriterSpec => BytesInOrder
  BY <1>1, <1>2, PTL DEF WriterSpec, BytesInOrder, Stream!Spec
<1>5. WriterSpec => FlushComplete
  BY <1>1, <1>2, <1>3, PTL DEF WriterSpec, FlushComplete
<1> QED BY <1>4, <1>5, PTL DEF InOrder
=============================================================================
