---------------------------- MODULE LogService ----------------------------
(***************************************************************************)
(* ObLogService and PalfEnvImpl: who has which log stream open.            *)
(*                                                                         *)
(* A handler is the ObLogHandler made by one call of open_ls, together     *)
(* with its PalfHandleImpl; it is known by a number.  The log of a stream  *)
(* on disk is the sequence of its entries (PalfLog has the blocks below),  *)
(* and each handler keeps its own tail of it in memory.                    *)
(***************************************************************************)
EXTENDS Naturals, Sequences, FiniteSets

CONSTANTS
  Openers, Streams,
  Serial,       \* callers of open_ls exclude each other, as ObStore::create_tablet does
  MaxHandlers,  \* bound on the handlers made
  MaxAppends    \* bound on the appends

LogServiceConstants ==
  /\ Serial \in BOOLEAN
  /\ MaxHandlers \in Nat \ {0} /\ MaxAppends \in Nat

NoHandler == 0
Handlers == 1 .. MaxHandlers

VARIABLES
  inited, running,  \* is_inited_, is_running_, of the service and of the environment
  handlers,         \* handlers_ of ObLogService
  handles,          \* handles_ of PalfEnvImpl
  made,             \* handlers made so far
  tail,             \* tail[h]: where handler h appends next
  log,              \* log[s]: the entries of a stream on disk
  step, ls, mine,     \* per thread: next step, stream and handler
  entries             \* history: the acknowledged entries: [ls, entry]

service == <<inited, running>>
serviceVars == <<service, handlers, handles, made, tail, log, step, ls, mine, entries>>

Advance(t, l) == step' = [step EXCEPT ![t] = l]
Opening == {t \in Openers : step[t] \in {"create", "publish"}}

-----------------------------------------------------------------------------
(* Life of the service *)

init ==
  /\ ~inited
  /\ inited' = TRUE
  /\ UNCHANGED <<running, handlers, handles, made, tail, log, step, ls, mine, entries>>

start ==
  /\ inited /\ ~running
  /\ running' = TRUE
  /\ UNCHANGED <<inited, handlers, handles, made, tail, log, step, ls, mine, entries>>

stop ==
  /\ running
  /\ running' = FALSE
  /\ UNCHANGED <<inited, handlers, handles, made, tail, log, step, ls, mine, entries>>

\* By the owner of the service, when no thread is in a call or has a stream open.
destroy ==
  /\ inited /\ \A t \in Openers : step[t] = "idle"
  /\ inited' = FALSE /\ running' = FALSE
  /\ handlers' = [s \in Streams |-> NoHandler]
  /\ handles' = [s \in Streams |-> NoHandler]
  /\ UNCHANGED <<made, tail, log, step, ls, mine, entries>>

-----------------------------------------------------------------------------
(* open_ls *)

\* The first critical section.
OpenFind(t, s) ==
  /\ inited /\ step[t] = "idle"
  /\ Serial => Opening = {}
  /\ ls' = [ls EXCEPT ![t] = s]
  /\ mine' = [mine EXCEPT ![t] = handlers[s]]
  /\ Advance(t, IF handlers[s] = NoHandler THEN "create" ELSE "open")
  /\ UNCHANGED <<service, handlers, handles, made, tail, log, entries>>

OpenCreateAtStart(t) ==
  /\ step[t] = "create" /\ made < MaxHandlers
  /\ made' = made + 1
  /\ mine' = [mine EXCEPT ![t] = made + 1]
  /\ tail' = [tail EXCEPT ![made + 1] = 0]
  /\ handles' = [handles EXCEPT ![ls[t]] = made + 1]
  /\ Advance(t, "publish")
  /\ UNCHANGED <<service, handlers, log, ls, entries>>

\* ObLogHandler::init: a PalfHandleImpl that finds its tail on disk, put in handles_
\* over the one that may be there.
OpenCreate(t) ==
  /\ step[t] = "create" /\ made < MaxHandlers
  /\ made' = made + 1
  /\ mine' = [mine EXCEPT ![t] = made + 1]
  /\ tail' = [tail EXCEPT ![made + 1] = Len(log[ls[t]])]
  /\ handles' = [handles EXCEPT ![ls[t]] = made + 1]
  /\ Advance(t, "publish")
  /\ UNCHANGED <<service, handlers, log, ls, entries>>

\* PalfHandleImpl::init fails, and open_ls with it.
OpenFails(t) ==
  /\ step[t] = "create"
  /\ Advance(t, "idle")
  /\ UNCHANGED <<service, handlers, handles, made, tail, log, ls, mine, entries>>

OpenUnpublished(t) ==
  /\ step[t] = "publish"
  /\ Advance(t, "open")
  /\ UNCHANGED <<service, handlers, handles, made, tail, log, ls, mine, entries>>

\* The second critical section.
OpenPublish(t) ==
  /\ step[t] = "publish"
  /\ handlers' = [handlers EXCEPT ![ls[t]] = mine[t]]
  /\ Advance(t, "open")
  /\ UNCHANGED <<service, handles, made, tail, log, ls, mine, entries>>

-----------------------------------------------------------------------------
(* Use of an open stream *)

\* Where the next entry of a handler goes.
NextTail(h) == tail[h] + 1

\* ObLogHandler::append: at the handler's own tail, over what is there.  (Entries of one
\* size: an entry replaces one entry.)
append(t) ==
  /\ step[t] = "open" /\ Cardinality(entries) < MaxAppends
  /\ LET s == ls[t]
         at == NextTail(mine[t])
         e == Cardinality(entries) + 1
     IN /\ log' = [log EXCEPT ![s] = IF at > Len(@) THEN Append(@, e) ELSE [@ EXCEPT ![at] = e]]
        /\ tail' = [tail EXCEPT ![mine[t]] = at]
        /\ entries' = entries \cup {[ls |-> s, entry |-> e]}
  /\ UNCHANGED <<service, handlers, handles, made, step, ls, mine>>

\* The caller forgets its handler; the stream stays open.
Release(t) ==
  /\ step[t] = "open"
  /\ Advance(t, "idle")
  /\ UNCHANGED <<service, handlers, handles, made, tail, log, ls, mine, entries>>

\* By the last user of the stream: the handlers are deleted under the others' feet
\* otherwise.  The files stay.
remove_ls(t) ==
  /\ step[t] = "open" /\ handlers[ls[t]] # NoHandler
  /\ \A u \in Openers \ {t} : step[u] = "idle" \/ ls[u] # ls[t]
  /\ handlers' = [handlers EXCEPT ![ls[t]] = NoHandler]
  /\ handles' = [handles EXCEPT ![ls[t]] = NoHandler]
  /\ Advance(t, "idle")
  /\ UNCHANGED <<service, made, tail, log, ls, mine, entries>>

-----------------------------------------------------------------------------
ServiceInit ==
  /\ inited = FALSE /\ running = FALSE
  /\ handlers = [s \in Streams |-> NoHandler]
  /\ handles = [s \in Streams |-> NoHandler]
  /\ made = 0
  /\ tail = [h \in Handlers |-> 0]
  /\ log = [s \in Streams |-> <<>>]
  /\ step = [t \in Openers |-> "idle"]
  /\ ls = [t \in Openers |-> CHOOSE s \in Streams : TRUE]
  /\ mine = [t \in Openers |-> NoHandler]
  /\ entries = {}

ServiceNext ==
  \/ init \/ start \/ stop \/ destroy
  \/ \E t \in Openers :
       \/ \E s \in Streams : OpenFind(t, s)
       \/ OpenCreate(t) \/ OpenFails(t) \/ OpenPublish(t)
       \/ append(t) \/ Release(t) \/ remove_ls(t)

ServiceSpec == ServiceInit /\ [][ServiceNext]_serviceVars

-----------------------------------------------------------------------------
(* Properties *)

\* Openers that have a stream open share one handler, the one in handlers_, and its
\* PalfHandleImpl is the one in handles_: ObLogService has one ObLogHandler per stream.
OneHandler ==
  \A t \in Openers : step[t] = "open" =>
    handlers[ls[t]] = mine[t] /\ handles[ls[t]] = mine[t]

\* An entry acknowledged by append is in the log of its stream, whoever opens, releases,
\* removes or reopens it.
EntriesKept == \A a \in entries : \E i \in DOMAIN log[a.ls] : log[a.ls][i] = a.entry

\* Threads that have a stream open share one handler, the one in handlers_ and in handles_
\* (ObLogService::open_ls, with one caller at a time as in create_tablet), and an entry
\* acknowledged by ObLogHandler::append stays in the log of its stream.
AckedKept == OneHandler /\ EntriesKept
=============================================================================
