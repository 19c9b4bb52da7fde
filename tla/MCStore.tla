------------------------------ MODULE MCStore ------------------------------
(***************************************************************************)
(* What lies below and beside the memtable, for TLC: the tablet with its   *)
(* freeze and dump (Tablet), the SSTable a dump builds (SSTable), who has  *)
(* which log stream open (LogService), the background thread of a stream   *)
(* (LogIOWorker) and the two caches (KvCache, LruCache).  They share no    *)
(* state, so each is explored on its own: "part" says which one runs, and  *)
(* the others stay as they were made.                                      *)
(***************************************************************************)
EXTENDS Tablet, SSTable, LogService

CONSTANTS
  Submitters, MayDestroy, MaxTasks,   \* of LogIOWorker
  Data, Capacities, Nil               \* of the caches

VARIABLES
  part,
  queue, submitted, ran, locked, stopping, worker, task, notify, closer,
  capacity, kvSize, map, list, dangling, kvCall,
  node, front, back, searcher, lruCall

Worker == INSTANCE LogIOWorker WITH stop <- stopping
Kv == INSTANCE KvCache WITH size <- kvSize
Lc == INSTANCE LruCache WITH tail <- back

ASSUME TabletAssumption == TabletConstants
ASSUME SizeAssumption == SizeConstants
ASSUME ServiceAssumption == LogServiceConstants
ASSUME WorkerAssumption == Worker!LogIOWorkerConstants

workerVars == <<queue, submitted, ran, locked, stopping, worker, task, notify, closer>>
kvVars == <<capacity, kvSize, map, list, dangling, kvCall>>
lruVars == <<node, front, back, searcher, lruCall>>
storeVars == <<part, vars, svars, serviceVars, workerVars, kvVars, lruVars>>

MCInit ==
  /\ part \in {"tablet", "sstable", "service", "worker", "kv", "lru"}
  /\ Init /\ SInit /\ ServiceInit /\ Worker!Init /\ Lc!LcInit
  /\ Kv!KInit /\ (part # "kv" => capacity = 1)

OfWorker(A) ==
  /\ part = "worker" /\ A
  /\ UNCHANGED <<part, vars, svars, serviceVars, kvVars, lruVars>>

TabletNext == /\ part = "tablet" /\ Next
              /\ UNCHANGED <<part, svars, serviceVars, workerVars, kvVars, lruVars>>
SstNext == /\ part = "sstable" /\ SNext
           /\ UNCHANGED <<part, vars, serviceVars, workerVars, kvVars, lruVars>>
LogNext == /\ part = "service" /\ ServiceNext
           /\ UNCHANGED <<part, vars, svars, workerVars, kvVars, lruVars>>
WorkerNext == OfWorker(Worker!Next)
KvNext == /\ part = "kv" /\ Kv!KNext
          /\ UNCHANGED <<part, vars, svars, serviceVars, workerVars, lruVars>>
LruNext == /\ part = "lru" /\ Lc!LcNext
           /\ UNCHANGED <<part, vars, svars, serviceVars, workerVars, kvVars>>
MCNext == TabletNext \/ SstNext \/ LogNext \/ WorkerNext \/ KvNext \/ LruNext

\* The worker, and the threads inside submit_io_task and destroy, are scheduled.
Fairness ==
  /\ WF_storeVars(OfWorker(Worker!Work))
  /\ WF_storeVars(OfWorker(Worker!NotifyAll)) /\ WF_storeVars(OfWorker(Worker!Join))
  /\ \A s \in Submitters : WF_storeVars(OfWorker(Worker!NotifyOne(s)))

MCSpec == MCInit /\ [][MCNext]_storeVars /\ Fairness

-----------------------------------------------------------------------------
\* Macro blocks describe themselves: micro blocks, row offsets and counts fit together and
\* their numbers differ.  A finished dump leads to every row once and in order, and after a
\* crash at any moment an SSTable that opens leads only to complete blocks (ObSSTableBuilder,
\* ObSSTable::init).
BlocksSound == part = "sstable" => BlocksDescribed /\ RowsStored /\ RestartReads

\* The tasks LogIOWorker::run_ has run, the one at hand and the queue are the tasks
\* submitted, each once and in order; and until destroy is called every one of them is
\* run: no notification is lost between the worker's test of the queue and its wait.
\* destroy comes back, unless its own notification fell between the two.
TasksRunUntilStop ==
  /\ []Worker!TasksInOrder
  /\ part = "worker" => Worker!TasksRunUntilStop /\ Worker!DestroyEnds

\* ObKVCache and LruCache are least-recently-used caches (Lru): every get answers with the
\* latest value put, and a put into a full ObKVCache gives up the oldest key and no other,
\* whatever get, put, erase and clear did before.  Inside, size_, map_ and lru_list_ of
\* ObKVCache describe the same entries and no erased node is used, and both walks over the
\* links of LruCache visit the nodes the searcher finds.
CachesImplement ==
  /\ Kv!KvImplements /\ Lc!LruImplements
  /\ [](Kv!KvConsistent /\ Lc!WalksAgree)
=============================================================================
