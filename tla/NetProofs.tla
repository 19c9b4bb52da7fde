----------------------------- MODULE NetProofs -----------------------------
(***************************************************************************)
(* Proofs about the ways into the server, for every value of the constants: *)
(* each worker keeps the descriptor of its own client (Server), requests   *)
(* are executed whole, in order and answered once (PlainCommunicator), and *)
(* the history of the terminal survives (Cli).                             *)
(***************************************************************************)
EXTENDS Server, PlainCommunicator, Cli, WellFoundedInduction, TLAPS

-----------------------------------------------------------------------------
(* Minima *)

\* A set of numbers that is not empty has a least element.
LEMMA MinNat ==
  ASSUME NEW S \in SUBSET Nat, S # {}
  PROVE  Min(S) \in S /\ \A y \in S : Min(S) <= y
<1> DEFINE R == {ss \in Nat \X Nat : ss[1] < ss[2]}
<1>1. IsWellFoundedOn(R, Nat)
  <2>1. IsWellFoundedOn(OpToRel(<, Nat), Nat)
    BY NatLessThanWellFounded, Zenon
  <2> QED BY <2>1 DEF OpToRel
<1>2. PICK x \in S : \A y \in S : ~(<<y, x>> \in R)
  <2> HIDE DEF R
  <2> QED BY <1>1, WFMin, Zenon
<1>3. ASSUME NEW y \in S PROVE x <= y
  <2>1. ~(x <= y) => <<y, x>> \in Nat \X Nat /\ y < x
    OBVIOUS
  <2> QED BY <1>2, <2>1
<1> QED BY <1>2, <1>3, Zenon DEF Min

\* The lesser of two numbers.
LEMMA MinPair ==
  ASSUME NEW x \in Int, NEW y \in Int
  PROVE  Min({x, y}) = IF x <= y THEN x ELSE y
<1>1. \E m \in {x, y} : \A z \in {x, y} : m <= z
  OBVIOUS
<1>2. Min({x, y}) \in {x, y} /\ \A z \in {x, y} : Min({x, y}) <= z
  BY <1>1 DEF Min
<1> QED BY <1>2

-----------------------------------------------------------------------------
(* Server *)

\* A worker holds its descriptor from new_connection to ~Communicator.
Holding == InLoop \cup {"erased"}

ServerTypes ==
  /\ clients \in Nat
  /\ owner \in [Descriptors -> Nat]
  /\ comm \in [Addresses -> [client : Nat, fd : Nat]]
  /\ worker \in [Addresses -> Holding \cup {"none", "closed"}]

\* The descriptor of a worker is its client's, and no two workers serve one client.
HolderInv ==
  /\ \A a \in Addresses :
       worker[a] \in Holding =>
         /\ comm[a].fd \in Descriptors
         /\ comm[a].client \in 1 .. clients
         /\ owner[comm[a].fd] = comm[a].client
  /\ \A a, b \in Addresses :
       worker[a] \in Holding /\ worker[b] \in Holding /\ a # b =>
         comm[a].client # comm[b].client

\* Between accept and new_connection the descriptor is the last client's, who has no worker.
AcceptedInv ==
  main = "accepted" =>
    /\ accepted \in Descriptors
    /\ clients > 0
    /\ owner[accepted] = clients
    /\ \A a \in Addresses : worker[a] \in Holding => comm[a].client # clients

ServerInv == ServerTypes /\ HolderInv /\ AcceptedInv /\ MapExact

\* Init, before main runs.
LEMMA ServerInvInit == ASSUME ServerConstants PROVE Init => ServerInv
<1> SUFFICES ASSUME Init PROVE ServerInv
  OBVIOUS
<1>1. ServerTypes
  BY DEF Init, ServerTypes, Free
<1>2. \A a \in Addresses : worker[a] = "none"
  BY DEF Init
<1>3. HolderInv
  BY <1>2 DEF HolderInv, Holding, InLoop
<1>4. AcceptedInv
  BY DEF Init, AcceptedInv
<1>5. MapExact
  BY <1>2 DEF Init, MapExact, InLoop
<1> QED BY <1>1, <1>3, <1>4, <1>5 DEF ServerInv

\* A worker that moves on while it holds its descriptor changes nothing of this, as long as
\* it stays in its loop (the steps of Worker::operator()).
LEMMA WorkerMoves ==
  ASSUME ServerInv, NEW a \in Addresses, worker[a] \in InLoop, NEW to \in InLoop,
         worker' = [worker EXCEPT ![a] = to], map' = map,
         UNCHANGED <<clients, owner, accepted, comm, main>>
  PROVE  ServerInv'
<1>1. ServerTypes'
  BY DEF ServerInv, ServerTypes, Holding
<1>2. \A b \in Addresses : (worker'[b] \in InLoop <=> worker[b] \in InLoop)
                           /\ (worker'[b] \in Holding <=> worker[b] \in Holding)
  BY DEF ServerInv, ServerTypes, Holding
<1>3. HolderInv'
  BY <1>2 DEF ServerInv, HolderInv
<1>4. AcceptedInv'
  BY <1>2 DEF ServerInv, AcceptedInv
<1>5. MapExact'
  BY <1>2 DEF ServerInv, MapExact
<1> QED BY <1>1, <1>3, <1>4, <1>5 DEF ServerInv

\* Steps that touch neither descriptors nor workers, and do not end in "accepted".
LEMMA QuietStep ==
  ASSUME ServerInv, UNCHANGED <<clients, owner, accepted, comm, map, worker>>,
         main' # "accepted" \/ main' = main
  PROVE  ServerInv'
<1>1. ServerTypes' /\ HolderInv' /\ MapExact'
  BY DEF ServerInv, ServerTypes, HolderInv, MapExact
<1>2. AcceptedInv'
  BY DEF ServerInv, AcceptedInv
<1> QED BY <1>1, <1>2 DEF ServerInv

\* accept takes the lowest free descriptor for a client no worker serves yet.
LEMMA AcceptStep ==
  ASSUME ServerConstants, ServerInv, Accept
  PROVE  ServerInv'
<1> DEFINE d == Min(FreeDescriptors)
<1>1. d \in Descriptors /\ owner[d] = 0
  <2>1. FreeDescriptors \in SUBSET Nat /\ FreeDescriptors # {}
    BY Zenon DEF ServerConstants, FreeDescriptors, Accept
  <2>2. d \in FreeDescriptors
    BY <2>1, MinNat
  <2> QED BY <2>2 DEF FreeDescriptors
<1>2. /\ owner' = [owner EXCEPT ![d] = clients + 1] /\ accepted' = d
      /\ clients' = clients + 1 /\ UNCHANGED <<comm, map, worker>>
  BY DEF Accept, workers
<1> HIDE DEF d
<1>3. ServerTypes'
  BY <1>1, <1>2 DEF ServerInv, ServerTypes
<1>4. ASSUME NEW a \in Addresses, worker[a] \in Holding
      PROVE  /\ comm[a].fd \in Descriptors /\ comm[a].client \in 1 .. clients
             /\ owner'[comm[a].fd] = comm[a].client
  <2>1. /\ comm[a].fd \in Descriptors /\ comm[a].client \in 1 .. clients
        /\ owner[comm[a].fd] = comm[a].client
    BY <1>4 DEF ServerInv, HolderInv
  <2>2. comm[a].fd # d
    BY <1>1, <2>1 DEF ServerInv, ServerTypes
  <2> QED BY <1>1, <1>2, <2>1, <2>2 DEF ServerInv, ServerTypes
<1>5. HolderInv'
  BY <1>2, <1>4 DEF ServerInv, ServerTypes, HolderInv
<1>6. AcceptedInv'
  <2>1. \A a \in Addresses : worker[a] \in Holding => comm[a].client # clients + 1
    BY <1>4 DEF ServerInv, ServerTypes
  <2> QED BY <1>1, <1>2, <2>1 DEF ServerInv, ServerTypes, AcceptedInv
<1>7. MapExact'
  BY <1>2 DEF ServerInv, MapExact
<1> QED BY <1>3, <1>5, <1>6, <1>7 DEF ServerInv

\* The address of a new communicator is not in the map, so its worker starts, with the
\* descriptor just accepted (new_connection).
LEMMA NewConnectionStep ==
  ASSUME ServerConstants, ServerInv, NewConnection
  PROVE  ServerInv'
<1>1. PICK a \in Addresses :
        /\ comm[a] = Free
        /\ IF a \in map
           THEN TRUE
           ELSE /\ comm' = [comm EXCEPT ![a] = [client |-> clients, fd |-> accepted]]
                /\ map' = map \cup {a}
                /\ worker' = [worker EXCEPT ![a] = "top"]
                /\ UNCHANGED owner
  BY DEF NewConnection
<1>2. main = "accepted" /\ main' = "loop" /\ UNCHANGED <<clients, accepted>>
  BY DEF NewConnection
<1>3. a \notin map
  <2>1. worker[a] \notin Holding
    BY <1>1 DEF ServerInv, ServerTypes, HolderInv, Free
  <2> QED BY <2>1 DEF ServerInv, MapExact, Holding
<1>4. /\ accepted \in Descriptors /\ clients > 0 /\ owner[accepted] = clients
      /\ \A b \in Addresses : worker[b] \in Holding => comm[b].client # clients
  BY <1>2 DEF ServerInv, AcceptedInv
<1>5. [client |-> clients, fd |-> accepted] \in [client : Nat, fd : Nat]
  BY <1>4 DEF ServerConstants, ServerInv, ServerTypes
<1>6. ServerTypes'
  BY <1>1, <1>2, <1>3, <1>5 DEF ServerInv, ServerTypes, Holding, InLoop
<1>7. /\ comm'[a].client = clients /\ comm'[a].fd = accepted /\ worker'[a] = "top"
      /\ \A b \in Addresses \ {a} : comm'[b] = comm[b] /\ worker'[b] = worker[b]
  BY <1>1, <1>3 DEF ServerInv, ServerTypes
<1>8. HolderInv'
  <2>1. ASSUME NEW b \in Addresses, worker'[b] \in Holding
        PROVE  /\ comm'[b].fd \in Descriptors /\ comm'[b].client \in 1 .. clients'
               /\ owner'[comm'[b].fd] = comm'[b].client
    <3>1. CASE b = a
      BY <1>1, <1>2, <1>3, <1>4, <1>7, <3>1 DEF ServerInv, ServerTypes
    <3>2. CASE b # a
      BY <1>1, <1>2, <1>3, <1>7, <2>1, <3>2 DEF ServerInv, HolderInv
    <3> QED BY <3>1, <3>2
  <2>2. ASSUME NEW b \in Addresses, NEW c \in Addresses,
               worker'[b] \in Holding, worker'[c] \in Holding, b # c
        PROVE  comm'[b].client # comm'[c].client
    BY <1>4, <1>7, <2>2 DEF ServerInv, HolderInv
  <2> QED BY <2>1, <2>2 DEF HolderInv
<1>9. AcceptedInv'
  BY <1>2 DEF AcceptedInv
<1>10. MapExact'
  <2>1. \A b \in Addresses : b \in map' <=> worker'[b] \in InLoop
    BY <1>1, <1>3, <1>7 DEF ServerInv, MapExact, InLoop
  <2>2. map' \subseteq Addresses
    BY <1>1, <1>3 DEF ServerInv, MapExact
  <2> QED BY <2>1, <2>2 DEF MapExact
<1> QED BY <1>6, <1>8, <1>9, <1>10 DEF ServerInv

\* close_connection takes the worker out of the map; the descriptor is still its own.
LEMMA EraseStep ==
  ASSUME ServerInv, NEW a \in Addresses, Erase(a)
  PROVE  ServerInv'
<1>1. /\ worker[a] = "leave" /\ worker' = [worker EXCEPT ![a] = "erased"] /\ map' = map \ {a}
      /\ UNCHANGED <<main, clients, owner, accepted, comm>>
  BY DEF Erase, Move, process, sockets
<1>2. ServerTypes'
  BY <1>1 DEF ServerInv, ServerTypes, Holding
<1>3. \A b \in Addresses : /\ worker'[b] \in Holding <=> worker[b] \in Holding
                           /\ worker'[b] \in InLoop <=> worker[b] \in InLoop /\ b # a
  BY <1>1 DEF ServerInv, ServerTypes, Holding, InLoop
<1>4. HolderInv'
  BY <1>1, <1>3 DEF ServerInv, HolderInv
<1>5. AcceptedInv'
  BY <1>1, <1>3 DEF ServerInv, AcceptedInv
<1>6. MapExact'
  BY <1>1, <1>3 DEF ServerInv, MapExact
<1> QED BY <1>2, <1>4, <1>5, <1>6 DEF ServerInv

\* ~Communicator closes a descriptor that no other worker, nor main, has.
LEMMA CloseDescriptorStep ==
  ASSUME ServerInv, NEW a \in Addresses, CloseDescriptor(a)
  PROVE  ServerInv'
<1> DEFINE f == comm[a].fd
<1>1. /\ worker[a] = "erased" /\ worker' = [worker EXCEPT ![a] = "closed"]
      /\ owner' = [owner EXCEPT ![f] = 0]
      /\ UNCHANGED <<main, clients, accepted, comm, map>>
  BY DEF CloseDescriptor, Move, process
<1>2. worker[a] \in Holding /\ f \in Descriptors /\ owner[f] = comm[a].client
  BY <1>1 DEF ServerInv, HolderInv, Holding
<1> HIDE DEF f
<1>3. ServerTypes'
  BY <1>1, <1>2 DEF ServerInv, ServerTypes
<1>4. \A b \in Addresses : /\ worker'[b] \in Holding <=> worker[b] \in Holding /\ b # a
                           /\ worker'[b] \in InLoop <=> worker[b] \in InLoop
  BY <1>1 DEF ServerInv, ServerTypes, Holding, InLoop
<1>5. ASSUME NEW b \in Addresses, worker[b] \in Holding, b # a
      PROVE  /\ comm[b].fd \in Descriptors /\ owner'[comm[b].fd] = comm[b].client
  <2>1. comm[b].fd \in Descriptors /\ owner[comm[b].fd] = comm[b].client
        /\ comm[b].client # comm[a].client
    BY <1>2, <1>5 DEF ServerInv, HolderInv
  <2>2. comm[b].fd # f
    BY <1>2, <2>1
  <2> QED BY <1>1, <1>2, <2>1, <2>2 DEF ServerInv, ServerTypes
<1>6. HolderInv'
  BY <1>1, <1>4, <1>5 DEF ServerInv, HolderInv
<1>7. AcceptedInv'
  <2> SUFFICES ASSUME main = "accepted" PROVE AcceptedInv'
    BY <1>1 DEF AcceptedInv
  <2>1. /\ accepted \in Descriptors /\ clients > 0 /\ owner[accepted] = clients
        /\ \A b \in Addresses : worker[b] \in Holding => comm[b].client # clients
    BY DEF ServerInv, AcceptedInv
  <2>2. accepted # f
    BY <1>2, <2>1
  <2> QED BY <1>1, <1>2, <1>4, <2>1, <2>2 DEF ServerInv, ServerTypes, AcceptedInv
<1>8. MapExact'
  BY <1>1, <1>4 DEF ServerInv, MapExact
<1> QED BY <1>3, <1>6, <1>7, <1>8 DEF ServerInv

\* The rest of ~Communicator and of close_connection.
LEMMA DeleteWriterStep ==
  ASSUME ServerInv, NEW a \in Addresses, DeleteWriter(a)
  PROVE  ServerInv'
<1>1. /\ worker[a] = "closed" /\ worker' = [worker EXCEPT ![a] = "none"]
      /\ comm' = [comm EXCEPT ![a] = Free]
      /\ UNCHANGED <<main, clients, accepted, owner, map>>
  BY DEF DeleteWriter, Move, process, sockets
<1>2. ServerTypes'
  BY <1>1 DEF ServerInv, ServerTypes, Free
<1>3. \A b \in Addresses : /\ worker'[b] \in Holding <=> worker[b] \in Holding
                           /\ worker'[b] \in InLoop <=> worker[b] \in InLoop
                           /\ worker[b] \in Holding => comm'[b] = comm[b]
  BY <1>1 DEF ServerInv, ServerTypes, Holding, InLoop
<1>4. HolderInv'
  BY <1>1, <1>3 DEF ServerInv, HolderInv
<1>5. AcceptedInv'
  BY <1>1, <1>3 DEF ServerInv, AcceptedInv
<1>6. MapExact'
  BY <1>1, <1>3 DEF ServerInv, MapExact
<1> QED BY <1>2, <1>4, <1>5, <1>6 DEF ServerInv

LEMMA ServerInvStep ==
  ASSUME ServerConstants
  PROVE  ServerInv /\ [Next]_vars => ServerInv'
<1> SUFFICES ASSUME ServerInv, [Next]_vars PROVE ServerInv'
  OBVIOUS
<1>1. CASE QuitSignal
  <2>1. UNCHANGED <<clients, owner, accepted, comm, map>>
    BY <1>1 DEF QuitSignal, sockets
  <2>2. CASE UNCHANGED <<main, worker>>
    BY <2>1, <2>2, QuietStep
  <2>3. CASE main = "poll" /\ main' = "stop" /\ UNCHANGED worker
    BY <2>1, <2>3, QuietStep
  <2>4. ASSUME NEW a \in Addresses, worker[a] = "poll",
               worker' = [worker EXCEPT ![a] = "leave"], UNCHANGED main
        PROVE  ServerInv'
    BY <2>1, <2>4, WorkerMoves, Zenon DEF InLoop
  <2> QED BY <1>1, <2>2, <2>3, <2>4 DEF QuitSignal
<1>2. CASE QuitThread \/ WorkerEnd
  BY <1>2, QuietStep DEF QuitThread, WorkerEnd, process, sockets, workers
<1>3. CASE InitServer \/ StartServer \/ LoopTop \/ PollTimeout
  BY <1>3, QuietStep DEF InitServer, StartServer, LoopTop, PollTimeout, sockets, workers
<1>4. CASE Stop \/ AwaitStop \/ Exit
  BY <1>4, QuietStep DEF Stop, AwaitStop, Exit, sockets, workers
<1>5. CASE NewConnection
  BY <1>5, NewConnectionStep
<1>6. CASE Accept
  BY <1>6, AcceptStep
<1>7. ASSUME NEW a \in Addresses, Works(a) \/ WorkerPoll(a) \/ WorkerWait(a) \/ ClientGoesOn(a)
      PROVE  ServerInv'
  <2>1. CASE WorkerTop(a)
    BY <2>1, WorkerMoves, Zenon DEF WorkerTop, Move, InLoop, process, sockets
  <2>2. CASE WorkerTimeout(a)
    BY <2>2, WorkerMoves, Zenon DEF WorkerTimeout, Move, InLoop, process, sockets
  <2>3. CASE WorkerHandled(a)
    BY <2>3, WorkerMoves DEF WorkerHandled, Move, InLoop, process, sockets
  <2>4. CASE WorkerPoll(a)
    BY <2>4, WorkerMoves DEF WorkerPoll, Move, InLoop, process, sockets
  <2>5. CASE WorkerWait(a)
    BY <2>5, WorkerMoves, Zenon DEF WorkerWait, Move, InLoop, process, sockets
  <2>6. CASE ClientGoesOn(a)
    BY <2>6, WorkerMoves DEF ClientGoesOn, Move, InLoop, process, sockets
  <2> QED BY <1>7, <2>1, <2>2, <2>3, <2>4, <2>5, <2>6,
             EraseStep, CloseDescriptorStep, DeleteWriterStep DEF Works
<1>8. CASE UNCHANGED vars
  BY <1>8, QuietStep DEF vars, process, sockets, workers
<1> QED BY <1>1, <1>2, <1>3, <1>4, <1>5, <1>6, <1>7, <1>8 DEF Next, Main

\* thread_map_ holds exactly the communicators whose worker has not begun to close them, and
\* a worker uses the descriptor of its own client until it closes it, for any number of
\* clients, addresses and descriptors and however often these are used again.
THEOREM ServerConnections ==
  ASSUME ServerConstants
  PROVE  Spec => []ConnectionsExact
<1>1. Init => ServerInv
  BY ServerInvInit
<1>2. ServerInv /\ [Next]_vars => ServerInv'
  BY ServerInvStep
<1>3. ServerInv => ConnectionsExact
  BY DEF ServerInv, HolderInv, Holding, ConnectionsExact, OwnDescriptor
<1> QED BY <1>1, <1>2, <1>3, PTL DEF Spec

-----------------------------------------------------------------------------
(* PlainCommunicator *)

Items == {"column", "row", "SUCCESS", "FAILURE", "end"}
Outcome == [code : {"SUCCESS", "FAILURE"}, oper : BOOLEAN, cells : Nat]

\* handle_event between read_event and the terminator of the reply.
Busy == {"open", "header", "tuples", "state", "end"}
Over == {"flush", "return"}

PlainTypes ==
  /\ inbox \in Seq({"c", "z"}) /\ query \in Seq({"c", "z"}) /\ text \in Nat
  /\ asked \in Seq(Nat) /\ done \in Seq(Nat) /\ answered \in Nat
  /\ reply \in Seq(Items) /\ drop \in BOOLEAN
  /\ result \in Outcome
  /\ pc \in {"poll", "read", "handle", "closed"} \cup Busy \cup Over

\* Text bytes only, and text bytes up to a terminator.
AllText(s) == \A i \in 1 .. Len(s) : s[i] = "c"
Terminated(s) == s # <<>> /\ s[Len(s)] = "z" /\ \A i \in 1 .. Len(s) - 1 : s[i] = "c"

\* The bytes of the present request that read_event has taken.
Got == IF pc = "read" THEN Len(query) ELSE 0

\* What has been executed is what was asked first.
ExecutedInv ==
  /\ Len(done) <= Len(asked)
  /\ \A i \in 1 .. Len(done) : done[i] = asked[i]

\* Every byte sent and not executed is in the buffer of read_event or in the socket: those
\* of a request under way, or those of one complete request.
StreamInv ==
  /\ pc = "read" => AllText(query)
  /\ pc = "handle" =>
       /\ Len(asked) = Len(done) + 1 /\ asked[Len(asked)] = Len(query)
       /\ inbox = <<>> /\ text = 0
  /\ pc \notin {"handle", "closed"} =>
       \/ Len(asked) = Len(done) /\ AllText(inbox) /\ text = Got + Len(inbox)
       \/ /\ Len(asked) = Len(done) + 1 /\ pc \notin Busy
          /\ Terminated(inbox) /\ text = 0
          /\ asked[Len(asked)] = Got + Len(inbox)

\* The last reply written ends with the terminator.
ReplyEnded == reply # <<>> /\ reply[Len(reply)] = "end"

\* The terminator is written once, last, and only then is the connection kept.
ReplyInv ==
  /\ pc \in {"poll", "read", "handle"} => answered = Len(done) /\ (done # <<>> => ReplyEnded)
  /\ pc \in Busy => answered + 1 = Len(done)
  /\ pc \in Busy \ {"end"} => drop
  /\ pc \in Over => drop \/ (answered = Len(done) /\ ReplyEnded)
  /\ answered <= Len(done)

PlainInv == PlainTypes /\ ExecutedInv /\ StreamInv /\ ReplyInv

\* What one more element, or one more chunk, makes of a sequence.
LEMMA Appended ==
  ASSUME NEW S, NEW s \in Seq(S), NEW x \in S
  PROVE  /\ Append(s, x) \in Seq(S) /\ Append(s, x) # <<>>
         /\ Len(Append(s, x)) = Len(s) + 1 /\ Append(s, x)[Len(s) + 1] = x
         /\ \A i \in 1 .. Len(s) : Append(s, x)[i] = s[i]
<1>1. /\ Append(s, x) \in Seq(S)
      /\ Len(Append(s, x)) = Len(s) + 1 /\ Append(s, x)[Len(s) + 1] = x
      /\ \A i \in 1 .. Len(s) : Append(s, x)[i] = s[i]
  OBVIOUS
<1>2. Append(s, x) # <<>>
  BY <1>1
<1> QED BY <1>1, <1>2

LEMMA Joined ==
  ASSUME NEW S, NEW s \in Seq(S), NEW t \in Seq(S)
  PROVE  /\ s \o t \in Seq(S) /\ Len(s \o t) = Len(s) + Len(t)
         /\ \A i \in 1 .. Len(s) : (s \o t)[i] = s[i]
         /\ \A i \in 1 .. Len(t) : (s \o t)[Len(s) + i] = t[i]
  OBVIOUS

LEMMA PlainInvInit == PlainInit => PlainInv
<1> SUFFICES ASSUME PlainInit PROVE PlainInv
  OBVIOUS
<1>1. PlainTypes
  <2>1. result \in Outcome
    BY DEF PlainInit, NoResult, Outcome
  <2>2. pc = "poll" /\ text = 0 /\ answered = 0 /\ drop = FALSE
    BY DEF PlainInit
  <2>3. inbox = <<>> /\ query = <<>> /\ asked = <<>> /\ done = <<>> /\ reply = <<>>
    BY DEF PlainInit
  <2>4. /\ inbox \in Seq({"c", "z"}) /\ query \in Seq({"c", "z"})
        /\ asked \in Seq(Nat) /\ done \in Seq(Nat) /\ reply \in Seq(Items)
    BY <2>3
  <2>5. text \in Nat /\ answered \in Nat /\ drop \in BOOLEAN
    BY <2>2, Zenon
  <2>6. pc \in {"poll", "read", "handle", "closed"} \cup Busy \cup Over
    BY <2>2
  <2> QED BY <2>1, <2>4, <2>5, <2>6, Zenon DEF PlainTypes
<1>2. ExecutedInv
  BY DEF PlainInit, ExecutedInv
<1>3. StreamInv
  BY DEF PlainInit, StreamInv, AllText, Got
<1>4. ReplyInv
  BY DEF PlainInit, ReplyInv, Busy, Over
<1> QED BY <1>1, <1>2, <1>3, <1>4 DEF PlainInv

\* A byte after text is text, or ends it.
LEMMA OneMore ==
  ASSUME NEW s \in Seq({"c", "z"}), AllText(s)
  PROVE  /\ Append(s, "c") \in Seq({"c", "z"}) /\ AllText(Append(s, "c"))
         /\ Append(s, "z") \in Seq({"c", "z"}) /\ Terminated(Append(s, "z"))
         /\ Len(Append(s, "c")) = Len(s) + 1 /\ Len(Append(s, "z")) = Len(s) + 1
<1>1. \A x \in {"c", "z"} : /\ Append(s, x) \in Seq({"c", "z"}) /\ Len(Append(s, x)) = Len(s) + 1
                           /\ Append(s, x)[Len(s) + 1] = x
                           /\ \A i \in 1 .. Len(s) : Append(s, x)[i] = s[i]
  OBVIOUS
<1>2. AllText(Append(s, "c"))
  BY <1>1 DEF AllText
<1>3. Terminated(Append(s, "z"))
  <2>1. Append(s, "z") # <<>>
    BY <1>1
  <2> QED BY <1>1, <2>1 DEF AllText, Terminated
<1> QED BY <1>1, <1>2, <1>3

\* A client sends only while every request of its is answered; in particular while none is
\* being handled.
LEMMA MaySend ==
  ASSUME PlainInv, answered = Len(asked)
  PROVE  /\ pc \notin Busy \cup {"handle"}
         /\ pc # "closed" => /\ Len(asked) = Len(done) /\ AllText(inbox)
                             /\ text = Got + Len(inbox)
<1>1. answered <= Len(done) /\ Len(done) <= Len(asked)
  BY DEF PlainInv, ReplyInv, ExecutedInv
<1>2. answered = Len(done) /\ Len(done) = Len(asked)
  BY <1>1 DEF PlainInv, PlainTypes
<1>3. pc \notin Busy
  BY <1>2 DEF PlainInv, PlainTypes, ReplyInv
<1>4. pc # "handle"
  BY <1>2 DEF PlainInv, PlainTypes, StreamInv
<1>5. ASSUME pc # "closed" PROVE AllText(inbox) /\ text = Got + Len(inbox)
  BY <1>2, <1>4, <1>5 DEF PlainInv, PlainTypes, StreamInv
<1> QED BY <1>2, <1>3, <1>4, <1>5

LEMMA SendStep ==
  ASSUME PlainInv, SendText \/ SendEnd
  PROVE  PlainInv'
<1>1. /\ answered = Len(asked)
      /\ UNCHANGED <<pc, query, done, result, reply, drop, answered>>
  BY DEF SendText, SendEnd, statement
<1>2. /\ pc \notin Busy \cup {"handle"}
      /\ pc # "closed" => /\ Len(asked) = Len(done) /\ AllText(inbox)
                          /\ text = Got + Len(inbox)
  BY <1>1, MaySend
<1>3. ReplyInv'
  BY <1>1 DEF PlainInv, ReplyInv, ReplyEnded
<1>4. Got' = Got /\ Got \in Nat
  BY <1>1 DEF Got, PlainInv, PlainTypes
<1>5. CASE SendText
  <2>1. inbox' = Append(inbox, "c") /\ text' = text + 1 /\ asked' = asked
    BY <1>5 DEF SendText
  <2>2. PlainTypes'
    BY <1>1, <2>1 DEF PlainInv, PlainTypes
  <2>3. ExecutedInv'
    BY <1>1, <2>1 DEF PlainInv, ExecutedInv
  <2>4. CASE pc # "closed"
    <3>1. AllText(inbox') /\ Len(inbox') = Len(inbox) + 1
      BY <1>2, <2>1, <2>4, OneMore DEF PlainInv, PlainTypes
    <3>2. text' = Got' + Len(inbox')
      BY <1>2, <1>4, <2>1, <2>4, <3>1 DEF PlainInv, PlainTypes
    <3> QED BY <1>1, <1>2, <1>3, <2>1, <2>2, <2>3, <2>4, <3>1, <3>2
            DEF PlainInv, StreamInv, AllText
  <2>5. CASE pc = "closed"
    BY <1>1, <1>3, <2>2, <2>3, <2>5 DEF PlainInv, StreamInv
  <2> QED BY <2>4, <2>5
<1>6. CASE SendEnd
  <2>1. inbox' = Append(inbox, "z") /\ text' = 0 /\ asked' = Append(asked, text + 1)
    BY <1>6 DEF SendEnd
  <2>2. /\ asked' \in Seq(Nat) /\ Len(asked') = Len(asked) + 1
        /\ asked'[Len(asked) + 1] = text + 1
        /\ \A i \in 1 .. Len(asked) : asked'[i] = asked[i]
    BY <2>1 DEF PlainInv, PlainTypes
  <2>3. PlainTypes'
    BY <1>1, <2>1, <2>2 DEF PlainInv, PlainTypes
  <2>4. ExecutedInv'
    BY <1>1, <2>2 DEF PlainInv, PlainTypes, ExecutedInv
  <2>5. CASE pc # "closed"
    <3>1. Terminated(inbox') /\ Len(inbox') = Len(inbox) + 1
      BY <1>2, <2>1, <2>5, OneMore DEF PlainInv, PlainTypes
    <3>2. asked'[Len(asked')] = Got' + Len(inbox')
      BY <1>2, <1>4, <2>2, <2>5, <3>1 DEF PlainInv, PlainTypes
    <3>3. StreamInv'
      <4>1. (pc = "read" => AllText(query))'
        BY <1>1 DEF PlainInv, StreamInv, AllText
      <4>2. Len(asked') = Len(done') + 1 /\ pc' \notin Busy /\ pc' # "handle"
        BY <1>1, <1>2, <2>2, <2>5
      <4> QED BY <2>1, <3>1, <3>2, <4>1, <4>2 DEF StreamInv
    <3> QED BY <1>3, <2>3, <2>4, <3>3 DEF PlainInv
  <2>6. CASE pc = "closed"
    BY <1>1, <1>3, <2>3, <2>4, <2>6 DEF PlainInv, StreamInv
  <2> QED BY <2>5, <2>6
<1> QED BY <1>5, <1>6

\* Where a chunk of a request ends: with the request, or before.
LEMMA ChunkEnd ==
  ASSUME NEW chunk \in Seq({"c", "z"})
  PROVE  /\ EndIn(chunk) \in 0 .. Len(chunk)
         /\ EndIn(chunk) = 0 => AllText(chunk)
         /\ EndIn(chunk) # 0 => chunk[EndIn(chunk)] = "z"
<1> DEFINE ends == {i \in DOMAIN chunk : chunk[i] = "z"}
<1>1. DOMAIN chunk = 1 .. Len(chunk) /\ Len(chunk) \in Nat
  OBVIOUS
<1>2. CASE ends = {}
  <2>1. EndIn(chunk) = 0
    BY <1>2 DEF EndIn
  <2>2. \A i \in 1 .. Len(chunk) : chunk[i] # "z" /\ chunk[i] \in {"c", "z"}
    BY <1>1, <1>2
  <2> QED BY <1>1, <2>1, <2>2 DEF AllText
<1>3. CASE ends # {}
  <2>1. EndIn(chunk) = Min(ends)
    BY <1>3 DEF EndIn
  <2>2. ends \in SUBSET Nat
    BY <1>1
  <2>3. Min(ends) \in ends
    BY <1>3, <2>2, MinNat
  <2> QED BY <1>1, <2>1, <2>3
<1> QED BY <1>2, <1>3

\* What is left of a request when text has been taken from its front.
LEMMA RestTerminated ==
  ASSUME NEW s \in Seq({"c", "z"}), NEW r \in Seq({"c", "z"}), NEW n \in 1 .. Len(s) - 1,
         Terminated(s), Len(r) = Len(s) - n, \A i \in 1 .. Len(s) - n : r[i] = s[n + i]
  PROVE  Terminated(r)
<1>1. Len(r) \in 1 .. Len(s) - n /\ n + Len(r) = Len(s)
  OBVIOUS
<1>2. r[Len(r)] = s[Len(s)]
  BY <1>1
<1>3. ASSUME NEW i \in 1 .. Len(r) - 1 PROVE r[i] = "c"
  <2>1. i \in 1 .. Len(s) - n /\ n + i \in 1 .. Len(s) - 1
    BY <1>1
  <2>2. r[i] = s[n + i]
    BY <2>1, Zenon
  <2> QED BY <2>1, <2>2 DEF Terminated
<1>4. r # <<>>
  BY <1>1
<1> QED BY <1>2, <1>3, <1>4 DEF Terminated

\* read_event appends a chunk up to the terminator: the request is complete, or all that was
\* read is text and the rest of the request is still in the socket.
LEMMA ReadStep ==
  ASSUME PlainConstants, PlainInv, ReadSome
  PROVE  PlainInv'
<1>1. PICK n \in 1 .. Min({Len(inbox), Room}) :
        LET chunk == SubSeq(inbox, 1, n)
            e == EndIn(chunk)
        IN /\ inbox' = SubSeq(inbox, n + 1, Len(inbox))
           /\ query' = query \o SubSeq(chunk, 1, IF e = 0 THEN n ELSE e)
           /\ pc' = IF e = 0 THEN "read" ELSE "handle"
  BY Zenon DEF ReadSome
<1> DEFINE chunk == SubSeq(inbox, 1, n)
           e == EndIn(chunk)
           part == SubSeq(chunk, 1, IF e = 0 THEN n ELSE e)
<1>2. /\ pc = "read"
      /\ UNCHANGED <<text, asked, done, result, reply, drop, answered>>
  BY DEF ReadSome, statement
<1>3. /\ inbox \in Seq({"c", "z"}) /\ query \in Seq({"c", "z"}) /\ text \in Nat
      /\ asked \in Seq(Nat) /\ done \in Seq(Nat)
  BY DEF PlainInv, PlainTypes
<1>4. n \in 1 .. Len(inbox)
  <2>1. Len(inbox) \in Int /\ Room \in Int
    BY <1>3 DEF PlainConstants, Room
  <2>2. Min({Len(inbox), Room}) <= Len(inbox) /\ Min({Len(inbox), Room}) \in Int
    BY <2>1, MinPair
  <2> QED BY <1>3, <2>2
<1>5. chunk \in Seq({"c", "z"}) /\ Len(chunk) = n /\ \A i \in 1 .. n : chunk[i] = inbox[i]
  BY <1>3, <1>4
<1>6. e \in 0 .. n /\ (e = 0 => AllText(chunk)) /\ (e # 0 => chunk[e] = "z")
  BY <1>5, ChunkEnd, Zenon
<1>7. inbox' = SubSeq(inbox, n + 1, Len(inbox)) /\ query' = query \o part
      /\ pc' = IF e = 0 THEN "read" ELSE "handle"
  BY <1>1
<1>8. /\ inbox' \in Seq({"c", "z"}) /\ Len(inbox') = Len(inbox) - n
      /\ \A i \in 1 .. Len(inbox) - n : inbox'[i] = inbox[n + i]
  BY <1>3, <1>4, <1>7, SMTT(30)
<1> HIDE DEF e, chunk
<1>9. /\ part \in Seq({"c", "z"}) /\ Len(part) = IF e = 0 THEN n ELSE e
      /\ \A i \in 1 .. Len(part) : part[i] = chunk[i]
  BY <1>4, <1>5, <1>6
<1> HIDE DEF part
<1>10. /\ query' \in Seq({"c", "z"}) /\ Len(query') = Len(query) + Len(part)
       /\ \A i \in 1 .. Len(query) : query'[i] = query[i]
       /\ \A i \in 1 .. Len(part) : query'[Len(query) + i] = part[i]
  <2>1. /\ query \o part \in Seq({"c", "z"}) /\ Len(query \o part) = Len(query) + Len(part)
        /\ \A i \in 1 .. Len(query) : (query \o part)[i] = query[i]
        /\ \A i \in 1 .. Len(part) : (query \o part)[Len(query) + i] = part[i]
    <3>1. query \in Seq({"c", "z"}) /\ part \in Seq({"c", "z"})
      BY <1>3, <1>9
    <3> QED BY <3>1, Joined
  <2> QED BY <1>7, <2>1, Zenon
<1>11. PlainTypes'
  BY <1>2, <1>7, <1>8, <1>10 DEF PlainInv, PlainTypes
<1>12. ExecutedInv'
  BY <1>2 DEF PlainInv, ExecutedInv
<1>13. ReplyInv'
  BY <1>2, <1>7 DEF PlainInv, ReplyInv, ReplyEnded, Busy, Over
<1>14. /\ AllText(query) /\ Got = Len(query)
       /\ \/ Len(asked) = Len(done) /\ AllText(inbox) /\ text = Len(query) + Len(inbox)
          \/ /\ Len(asked) = Len(done) + 1 /\ Terminated(inbox) /\ text = 0
             /\ asked[Len(asked)] = Len(query) + Len(inbox)
  BY <1>2 DEF PlainInv, StreamInv, Got
<1>15. CASE e = 0
  <2>1. AllText(query') /\ Len(query') + Len(inbox') = Len(query) + Len(inbox) /\ Got' = Len(query')
    <3>1. ASSUME NEW i \in 1 .. Len(query') PROVE query'[i] = "c"
      <4>1. CASE i <= Len(query)
        BY <1>3, <1>10, <1>14, <4>1 DEF AllText
      <4>2. CASE i > Len(query)
        <5>1. i - Len(query) \in 1 .. Len(part) /\ i = Len(query) + (i - Len(query))
          BY <1>3, <1>9, <1>10, <4>2
        <5>2. query'[i] = part[i - Len(query)]
          BY <1>10, <5>1
        <5> QED BY <1>5, <1>6, <1>9, <1>15, <5>1, <5>2 DEF AllText
      <4> QED BY <1>3, <1>10, <4>1, <4>2
    <3>2. Len(query') + Len(inbox') = Len(query) + Len(inbox)
      BY <1>3, <1>4, <1>8, <1>9, <1>10, <1>15
    <3> QED BY <1>7, <1>15, <3>1, <3>2, Zenon DEF AllText, Got
  <2>2. CASE Len(asked) = Len(done) /\ AllText(inbox) /\ text = Len(query) + Len(inbox)
    <3>1. AllText(inbox')
      BY <1>3, <1>4, <1>8, <2>2 DEF AllText
    <3>2. StreamInv'
      BY <1>2, <1>7, <1>15, <2>1, <2>2, <3>1, Zenon DEF StreamInv
    <3> QED BY <1>11, <1>12, <1>13, <3>2 DEF PlainInv
  <2>3. CASE /\ Len(asked) = Len(done) + 1 /\ Terminated(inbox) /\ text = 0
             /\ asked[Len(asked)] = Len(query) + Len(inbox)
    <3>1. n < Len(inbox)
      BY <1>3, <1>4, <1>5, <1>6, <1>15, <2>3 DEF AllText, Terminated
    <3>2. Terminated(inbox')
      <4>1. n \in 1 .. Len(inbox) - 1
        BY <1>3, <1>4, <3>1
      <4> QED BY <1>3, <1>8, <2>3, <4>1, RestTerminated, Zenon
    <3>3. StreamInv'
      BY <1>2, <1>7, <1>15, <2>1, <2>3, <3>2, Zenon DEF StreamInv, Busy
    <3> QED BY <1>11, <1>12, <1>13, <3>3 DEF PlainInv
  <2> QED BY <1>14, <2>2, <2>3
<1>16. CASE e # 0
  <2>1. e \in 1 .. n /\ inbox[e] = "z" /\ e \in 1 .. Len(inbox)
    BY <1>3, <1>4, <1>5, <1>6, <1>16
  <2>2. /\ Len(asked) = Len(done) + 1 /\ Terminated(inbox) /\ text = 0
        /\ asked[Len(asked)] = Len(query) + Len(inbox)
    BY <1>14, <2>1 DEF AllText
  <2>3. e = Len(inbox) /\ n = Len(inbox)
    <3>1. ~(e \in 1 .. Len(inbox) - 1)
      BY <2>1, <2>2 DEF Terminated
    <3>2. Len(inbox) \in Nat /\ e \in Nat /\ n \in Nat
      BY <1>3, <1>4, <2>1
    <3> QED BY <1>4, <2>1, <3>1, <3>2
  <2>4. inbox' = <<>> /\ Len(query') = Len(query) + Len(inbox)
    BY <1>3, <1>8, <1>9, <1>10, <1>16, <2>3
  <2>5. StreamInv'
    BY <1>2, <1>7, <1>16, <2>2, <2>4 DEF StreamInv
  <2> QED BY <1>11, <1>12, <1>13, <2>5 DEF PlainInv
<1> QED BY <1>15, <1>16

\* handle_sql executes the request that was read, and only that.
LEMMA HandleStep ==
  ASSUME PlainInv, HandleSql
  PROVE  PlainInv'
<1>1. /\ pc = "handle" /\ done' = Append(done, Len(query))
      /\ reply' = <<>> /\ drop' = TRUE
      /\ UNCHANGED <<inbox, text, asked, query, answered>>
  BY DEF HandleSql, client
<1>2. pc' \in {"state", "open"} /\ result' \in Outcome
  <2>1. PICK r \in Results : result' = r /\ pc' \in {"state", "open"}
    BY DEF HandleSql
  <2>2. r \in Outcome
    <3>1. CASE r \in {[code |-> c, oper |-> FALSE, cells |-> 0] : c \in {"SUCCESS", "FAILURE"}}
      <4>1. PICK c \in {"SUCCESS", "FAILURE"} : r = [code |-> c, oper |-> FALSE, cells |-> 0]
        BY <3>1, Zenon
      <4> QED BY <4>1 DEF Outcome
    <3>2. CASE r \in {[code |-> "SUCCESS", oper |-> TRUE, cells |-> n] : n \in 0 .. MaxCells}
      <4>1. PICK k \in 0 .. MaxCells : r = [code |-> "SUCCESS", oper |-> TRUE, cells |-> k]
        BY <3>2, Zenon
      <4>2. k \in Nat
        BY <4>1
      <4> QED BY <4>1, <4>2 DEF Outcome
    <3> QED BY <2>1, <3>1, <3>2 DEF Results
  <2> QED BY <2>1, <2>2
<1>3. /\ Len(asked) = Len(done) + 1 /\ asked[Len(asked)] = Len(query)
      /\ inbox = <<>> /\ text = 0 /\ answered = Len(done)
  BY <1>1 DEF PlainInv, StreamInv, ReplyInv
<1>4. /\ done' \in Seq(Nat) /\ Len(done') = Len(done) + 1 /\ done'[Len(done) + 1] = Len(query)
      /\ \A i \in 1 .. Len(done) : done'[i] = done[i]
  BY <1>1 DEF PlainInv, PlainTypes
<1>5. PlainTypes'
  BY <1>1, <1>2, <1>4 DEF PlainInv, PlainTypes, Busy
<1>6. ExecutedInv'
  BY <1>1, <1>3, <1>4 DEF PlainInv, PlainTypes, ExecutedInv
<1>7. StreamInv'
  <2>1. Got' = 0 /\ AllText(inbox') /\ Len(inbox') = 0
    BY <1>1, <1>2, <1>3 DEF Got, AllText
  <2> QED BY <1>1, <1>2, <1>3, <1>4, <2>1 DEF StreamInv
<1>8. ReplyInv'
  BY <1>1, <1>2, <1>3, <1>4 DEF PlainInv, PlainTypes, ReplyInv, Busy, Over
<1> QED BY <1>5, <1>6, <1>7, <1>8 DEF PlainInv

\* Writing a reply and returning leaves the bytes of the requests alone.
LEMMA ReplyStep ==
  ASSUME PlainInv, UNCHANGED <<inbox, text, asked, query, done>>,
         pc \in Busy \cup Over, pc' \in Busy \cup Over \cup {"poll", "closed"},
         pc' \in Busy => pc \in Busy,
         PlainTypes', ReplyInv'
  PROVE  PlainInv'
<1>1. ExecutedInv'
  BY DEF PlainInv, ExecutedInv
<1>2. Got = 0 /\ Got' = 0
  BY DEF Got, Busy, Over
<1>3. pc \notin {"handle", "closed", "read"} /\ pc' \notin {"handle", "read"}
  BY DEF Busy, Over
<1>4. StreamInv'
  BY <1>2, <1>3 DEF PlainInv, StreamInv, AllText, Terminated
<1> QED BY <1>1, <1>4 DEF PlainInv

\* The connection is given up.
LEMMA GiveUpStep ==
  ASSUME PlainInv, UNCHANGED <<inbox, text, asked, query, done, result, reply, drop, answered>>,
         pc' = "closed"
  PROVE  PlainInv'
<1>1. PlainTypes' /\ ExecutedInv'
  BY DEF PlainInv, PlainTypes, ExecutedInv
<1>2. StreamInv'
  BY DEF StreamInv
<1>3. ReplyInv'
  BY DEF PlainInv, ReplyInv, Busy, Over
<1> QED BY <1>1, <1>2, <1>3 DEF PlainInv

LEMMA PollStep ==
  ASSUME PlainInv, PollIn
  PROVE  PlainInv'
<1>1. /\ pc = "poll" /\ pc' = "read" /\ query' = <<>>
      /\ UNCHANGED <<inbox, text, asked, done, result, reply, drop, answered>>
  BY DEF PollIn, client, statement
<1>2. PlainTypes' /\ ExecutedInv'
  BY <1>1 DEF PlainInv, PlainTypes, ExecutedInv
<1>3. Got = 0 /\ Got' = 0 /\ AllText(query')
  BY <1>1 DEF Got, AllText
<1>4. StreamInv'
  BY <1>1, <1>3 DEF PlainInv, StreamInv, AllText, Terminated, Busy
<1>5. ReplyInv'
  BY <1>1 DEF PlainInv, ReplyInv, ReplyEnded, Busy, Over
<1> QED BY <1>2, <1>4, <1>5 DEF PlainInv

\* An item of the reply, before its terminator.
LEMMA ItemWritten ==
  ASSUME PlainInv, NEW item \in Items, pc \in Busy, pc' \in Busy,
         reply' = Append(reply, item), result' \in Outcome,
         drop' \in BOOLEAN, pc' # "end" => drop',
         UNCHANGED <<inbox, text, asked, query, done, answered>>
  PROVE  PlainInv'
<1>1. PlainTypes'
  BY DEF PlainInv, PlainTypes
<1>2. ReplyInv'
  BY DEF PlainInv, ReplyInv, Busy, Over
<1> QED BY <1>1, <1>2, ReplyStep

\* A reply goes on without a new item, or is cut short with the connection to be dropped.
LEMMA ReplyMoves ==
  ASSUME PlainInv, pc \in Busy, pc' \in Busy \cup Over,
         result' \in Outcome, drop' \in BOOLEAN, pc' # "end" => drop',
         UNCHANGED <<inbox, text, asked, query, done, answered, reply>>
  PROVE  PlainInv'
<1>1. PlainTypes'
  BY DEF PlainInv, PlainTypes
<1>2. ReplyInv'
  BY DEF PlainInv, PlainTypes, ReplyInv, Busy, Over
<1> QED BY <1>1, <1>2, ReplyStep

LEMMA WriteEndStep ==
  ASSUME PlainInv, WriteEnd
  PROVE  PlainInv'
<1>1. /\ pc = "end" /\ pc' = "flush" /\ reply' = Append(reply, "end") /\ answered' = answered + 1
      /\ UNCHANGED <<inbox, text, asked, query, done, result, drop>>
  BY DEF WriteEnd, client, statement
<1>2. reply' \in Seq(Items) /\ reply' # <<>> /\ reply'[Len(reply')] = "end"
  <2>1. reply \in Seq(Items) /\ "end" \in Items
    BY DEF PlainInv, PlainTypes, Items
  <2>2. /\ Append(reply, "end") \in Seq(Items) /\ Append(reply, "end") # <<>>
        /\ Len(Append(reply, "end")) = Len(reply) + 1
        /\ Append(reply, "end")[Len(reply) + 1] = "end"
    BY <2>1, Appended
  <2> QED BY <1>1, <2>2
<1>3. PlainTypes'
  BY <1>1, <1>2 DEF PlainInv, PlainTypes, Over
<1>4. answered' = Len(done')
  BY <1>1 DEF PlainInv, ReplyInv, Busy
<1>5. ReplyInv'
  BY <1>1, <1>2, <1>3, <1>4 DEF ReplyInv, ReplyEnded, PlainTypes, Busy, Over
<1> QED BY <1>1, <1>3, <1>5, ReplyStep DEF Busy, Over

\* flush, and the return from handle_event, which keeps the connection of a complete reply.
LEMMA ReturnStep ==
  ASSUME PlainInv, Flush \/ HandleReturn
  PROVE  PlainInv'
<1>1. /\ pc \in Over /\ pc' \in {"return", "poll", "closed"} /\ (pc' = "poll" => ~drop)
      /\ UNCHANGED <<inbox, text, asked, query, done, result, reply, drop, answered>>
  BY DEF Flush, HandleReturn, Over, client, statement
<1>2. PlainTypes'
  BY <1>1 DEF PlainInv, PlainTypes, Over
<1>3. drop \/ (answered = Len(done) /\ ReplyEnded)
  BY <1>1 DEF PlainInv, ReplyInv
<1>4. ReplyEnded' = ReplyEnded
  BY <1>1 DEF ReplyEnded
<1>5. ReplyInv'
  BY <1>1, <1>3, <1>4 DEF PlainInv, ReplyInv, Busy, Over
<1> QED BY <1>1, <1>2, <1>5, ReplyStep DEF Busy, Over

LEMMA PlainInvStep ==
  ASSUME PlainConstants
  PROVE  PlainInv /\ [PlainNext]_plainVars => PlainInv'
<1> SUFFICES ASSUME PlainInv, [PlainNext]_plainVars PROVE PlainInv'
  OBVIOUS
<1>1. CASE ClientClose \/ ReadAgain \/ UNCHANGED plainVars
  <2>1. UNCHANGED <<inbox, text, asked, pc, query, done, result, reply, drop, answered>>
    BY <1>1 DEF ClientClose, ReadAgain, plainVars, client, statement
  <2>2. PlainTypes' /\ ExecutedInv'
    BY <2>1, Zenon DEF PlainInv, PlainTypes, ExecutedInv
  <2>3. StreamInv'
    BY <2>1 DEF PlainInv, StreamInv, AllText, Terminated, Got
  <2>4. ReplyInv'
    BY <2>1 DEF PlainInv, ReplyInv, ReplyEnded
  <2> QED BY <2>2, <2>3, <2>4, Zenon DEF PlainInv
<1>2. CASE PollHup \/ ReadEnd \/ ReadError
  BY <1>2, GiveUpStep DEF PollHup, ReadEnd, ReadError, client, statement
<1>3. pc \in Busy \ {"end"} => drop = TRUE
  BY DEF PlainInv, PlainTypes, ReplyInv
<1>4. result \in Outcome
  BY DEF PlainInv, PlainTypes
<1>5. CASE OpenFails
  <2>1. [result EXCEPT !.code = "FAILURE", !.oper = FALSE] \in Outcome
    BY <1>4, Zenon DEF Outcome
  <2> QED BY <1>3, <1>5, <2>1, ReplyMoves, Zenon DEF OpenFails, client, Busy
<1>6. CASE OpenResult
  BY <1>3, <1>4, <1>6, ReplyMoves DEF OpenResult, client, Busy
<1>7. CASE WriteColumn
  BY <1>3, <1>4, <1>7, ItemWritten DEF WriteColumn, client, Busy, Items
<1>8. CASE DelimiterFails \/ HeaderEnd
  BY <1>3, <1>4, <1>8, ReplyMoves, Zenon DEF DelimiterFails, HeaderEnd, client, statement, Busy, Over
<1>9. CASE WriteItemFails \/ NextFails
  BY <1>3, <1>4, <1>9, ReplyMoves, Zenon DEF WriteItemFails, NextFails, client, Busy, Over
<1>10. CASE WriteRow
  BY <1>3, <1>4, <1>10, ItemWritten DEF WriteRow, client, Busy, Items
<1>11. CASE Eof
  <2>1. /\ pc = "tuples" /\ UNCHANGED <<inbox, text, asked, query, done, answered, reply>>
        /\ \/ result' \in Outcome /\ pc' = "state" /\ drop' = drop
           \/ result' = result /\ pc' = "end" /\ drop' = FALSE
    <3>1. PICK c \in Codes :
            IF result.cells = 0
            THEN result' = [result EXCEPT !.code = c] /\ pc' = "state" /\ drop' = drop
            ELSE result' = result /\ pc' = "end" /\ drop' = FALSE
      BY <1>11 DEF Eof
    <3>2. [result EXCEPT !.code = c] \in Outcome
      BY <1>4 DEF Outcome, Codes
    <3> QED BY <1>11, <3>1, <3>2 DEF Eof, client
  <2> QED BY <1>3, <1>4, <2>1, ReplyMoves, Zenon DEF Busy
<1>12. CASE write_state
  BY <1>4, <1>12, ItemWritten, Zenon DEF write_state, client, statement, Busy, Items, Outcome
<1>13. CASE LastItemFails
  BY <1>4, <1>13, ReplyMoves DEF LastItemFails, client, statement, Busy, Over
<1> QED BY <1>1, <1>2, <1>5, <1>6, <1>7, <1>8, <1>9, <1>10, <1>11, <1>12, <1>13,
           SendStep, PollStep, ReadStep, HandleStep, WriteEndStep, ReturnStep
        DEF PlainNext, Worker

\* However bytes arrive and wherever writes fail, the statements executed are the requests
\* the client completed, whole, in order and once each, and a worker that waits for the next
\* request has answered every one with one terminator, for any number and length of requests.
THEOREM RequestsOnce ==
  ASSUME PlainConstants
  PROVE  PlainSpec => []OneAnswer
<1>1. PlainInit => PlainInv
  BY PlainInvInit
<1>2. PlainInv /\ [PlainNext]_plainVars => PlainInv'
  BY PlainInvStep
<1>3. ASSUME PlainInv PROVE OneAnswer
  <2>1. WholeRequests
    <3>1. asked \in Seq(Nat) /\ done \in Seq(Nat) /\ Len(done) <= Len(asked)
          /\ \A i \in 1 .. Len(done) : done[i] = asked[i]
      BY <1>3 DEF PlainInv, PlainTypes, ExecutedInv
    <3>2. SubSeq(asked, 1, Len(done)) = done
      BY <3>1
    <3> QED BY <3>1, <3>2 DEF WholeRequests
  <2>2. AnsweredOnce
    BY <1>3 DEF PlainInv, PlainTypes, ReplyInv, ReplyEnded, AnsweredOnce, Over
  <2> QED BY <2>1, <2>2 DEF OneAnswer
<1> QED BY <1>1, <1>2, <1>3, PTL DEF PlainSpec

-----------------------------------------------------------------------------
(* Cli *)

CliTypes ==
  /\ clock \in Nat /\ clock >= Start /\ saved \in Nat /\ saved <= clock
  /\ typed \in [Commands \cup Exits -> Int]
  /\ lastTyped \in Int
  /\ fds = {0, 1}

\* A command typed and not in the file is in the history, and was typed after the last save;
\* the last line was typed within the interval after it.
SavedInv ==
  /\ \A c \in Commands \cup Exits :
       typed[c] # Never /\ c \notin file => c \in history /\ saved <= typed[c]
  /\ lastTyped - saved <= SaveInterval
  /\ phase = "ended" => history \subseteq file

CliInv == CliTypes /\ SavedInv

\* The first start of the program.
LEMMA CliInvInit == ASSUME CliConstants PROVE CInit => CliInv
  BY DEF CliConstants, CInit, CliInv, CliTypes, SavedInv, Start, Never

\* A line that is not blank is remembered, and saved when the interval is over
\* (MiniobLineReader::my_readline).
LEMMA LineRead ==
  ASSUME CliConstants, CliInv, phase # "ended",
         NEW line \in Commands \cup Exits \cup Blanks, read_event(line)
  PROVE  CliInv'
<1> USE DEF CliConstants
<1>1. CASE line \in Blanks
  BY <1>1 DEF read_event, my_readline, CliInv, CliTypes, SavedInv, Start
<1>2. CASE line \notin Blanks
  <2> DEFINE h == history \cup {line}
  <2>1. /\ line \in Commands \cup Exits /\ phase' # "ended"
        /\ history' = h /\ typed' = [typed EXCEPT ![line] = clock] /\ lastTyped' = clock
        /\ UNCHANGED <<fds, clock>>
        /\ check_and_save_history(h)
    BY <1>2 DEF read_event, my_readline
  <2>2. typed' \in [Commands \cup Exits -> Int] /\ typed'[line] = clock
        /\ \A c \in (Commands \cup Exits) \ {line} : typed'[c] = typed[c]
    BY <2>1 DEF CliInv, CliTypes
  <2>3. CASE clock - saved > SaveInterval
    <3>1. file' = file \cup h /\ saved' = clock
      BY <2>1, <2>3 DEF check_and_save_history
    <3>2. CliTypes'
      BY <2>1, <2>2, <3>1 DEF CliInv, CliTypes, Start
    <3>3. \A c \in Commands \cup Exits : typed'[c] # Never => c \in file'
      BY <2>2, <3>1, Zenon DEF CliInv, SavedInv
    <3>4. lastTyped' - saved' <= SaveInterval
      BY <2>1, <3>1 DEF CliInv, CliTypes
    <3> QED BY <2>1, <3>2, <3>3, <3>4, Zenon DEF CliInv, SavedInv
  <2>4. CASE ~(clock - saved > SaveInterval)
    <3>1. UNCHANGED <<file, saved>>
      BY <2>1, <2>4 DEF check_and_save_history
    <3>2. CliTypes'
      BY <2>1, <2>2, <3>1 DEF CliInv, CliTypes, Start
    <3>3. ASSUME NEW c \in Commands \cup Exits, typed'[c] # Never, c \notin file'
          PROVE  c \in history' /\ saved' <= typed'[c]
      BY <2>1, <2>2, <3>1, <3>3 DEF CliInv, CliTypes, SavedInv
    <3>4. lastTyped' - saved' <= SaveInterval
      BY <2>1, <2>4, <3>1 DEF CliInv, CliTypes
    <3> QED BY <2>1, <3>2, <3>3, <3>4, Zenon DEF CliInv, SavedInv
  <2> QED BY <2>3, <2>4, Zenon
<1> QED BY <1>1, <1>2, Zenon

\* The program is started again with what the file has.
LEMMA Restarted == ASSUME CliConstants, CliInv, Restart PROVE CliInv'
<1> USE DEF CliConstants
<1>1. CliTypes'
  BY DEF Restart, CliInv, CliTypes, Start, Never
<1>2. \A c \in Commands \cup Exits : typed'[c] # Never => c \in file'
  BY DEF Restart
<1>3. lastTyped' - saved' <= SaveInterval /\ phase' # "ended"
  BY DEF Restart, Never
<1> QED BY <1>1, <1>2, <1>3 DEF CliInv, SavedInv

\* One step per operation of CliServer, CliCommunicator and MiniobLineReader.
LEMMA CliInvStep == ASSUME CliConstants PROVE CliInv /\ [CNext]_cliVars => CliInv'
<1> SUFFICES ASSUME CliInv, [CNext]_cliVars PROVE CliInv'
  OBVIOUS
<1> USE DEF CliInv, CliTypes, SavedInv
<1>1. CASE serve
  BY <1>1 DEF serve, reader_init
<1>2. CASE serve_reads
  BY <1>2 DEF serve_reads
<1>3. CASE cli_write_result
  BY <1>3 DEF cli_write_result
<1>4. CASE cli_shutdown
  BY <1>4 DEF cli_shutdown
<1>5. CASE serve_returns
  BY <1>5 DEF serve_returns, Closed, cli_init
<1>6. CASE Tick
  BY <1>6 DEF Tick, Start, CliConstants
<1>7. CASE Restart
  BY <1>7, Restarted
<1>8. CASE \E line \in Commands \cup Exits \cup Blanks : read_event(line)
  BY <1>8, LineRead, Zenon DEF read_event
<1>9. CASE UNCHANGED cliVars
  BY <1>9 DEF cliVars
<1> QED BY <1>1, <1>2, <1>3, <1>4, <1>5, <1>6, <1>7, <1>8, <1>9, Zenon DEF CNext

\* Whenever the program on a terminal ends or is killed, the history file has every command
\* but those typed within the save interval of the last, and all of them after an orderly end,
\* for any commands, interval and number of restarts.
THEOREM HistoryAlways == ASSUME CliConstants PROVE CSpec => []HistoryKept
<1>1. CInit => CliInv
  BY CliInvInit
<1>2. CliInv /\ [CNext]_cliVars => CliInv'
  BY CliInvStep
<1>3. CliInv => HistoryKept
  BY DEF CliConstants, CliInv, CliTypes, SavedInv, HistoryKept
<1> QED BY <1>1, <1>2, <1>3, PTL DEF CSpec
=============================================================================
