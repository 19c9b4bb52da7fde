------------------------------- MODULE Memory -------------------------------
(***************************************************************************)
(* The two ways the program accounts for its memory.                       *)
(*                                                                         *)
(* MemPoolItem and MemPoolSimple: pools of equal items, extended by a pool *)
(* when none is free and the pool is dynamic.  What happens under the      *)
(* recursive mutex is one step.  MemPoolSimple resets an item before it    *)
(* takes the mutex in free and sets it up again after it gave the mutex    *)
(* back in alloc; MemPoolItem clears the item after alloc's mutex.  An     *)
(* item is <<pool, index>>.                                                *)
(*                                                                         *)
(* The memory tracer that replaces malloc and its relatives: each call is  *)
(* the libc function and, apart from it, an update of two atomic counters, *)
(* so other threads see the memory and the counts in between.  A request   *)
(* that takes the total over the limit ends the process.  A block is       *)
(* [id, size, by]: by is "malloc" or "mmap".                               *)
(***************************************************************************)
EXTENDS Integers, Sequences, FiniteSetsExt, SequencesExt

CONSTANTS
  Threads,
  Kinds,          \* "item" and "simple"
  ItemsPerPool,   \* item_num_per_pool
  MaxPools        \* pools memory lasts for: a further malloc fails

VARIABLES
  kind, dynamic, itemCount,
  pools, usedItems, frees,
  step, hand,     \* of each thread: idle, clear, reset; and the item at hand
  mine            \* what each thread was given and has not returned

poolVars == <<kind, dynamic, itemCount, pools, usedItems, frees, step, hand, mine>>

Items(p) == {<<p, i>> : i \in 1 .. ItemsPerPool}
Nothing == <<0, 0>>

PInit ==
  /\ kind \in Kinds /\ dynamic = TRUE /\ itemCount = 0
  /\ pools = << >> /\ usedItems = {} /\ frees = << >>
  /\ step = [t \in Threads |-> "idle"] /\ hand = [t \in Threads |-> Nothing]
  /\ mine = [t \in Threads |-> {}]

Idle == \A t \in Threads : step[t] = "idle"

\* The n pools init or extend adds, their items behind the free ones.
Grown(n) == [k \in 1 .. n |-> Len(pools) + k]
NewItems(n) == [k \in 1 .. n * ItemsPerPool |->
                 <<Len(pools) + ((k - 1) \div ItemsPerPool) + 1, ((k - 1) % ItemsPerPool) + 1>>]

\* Without a pool: asked for n pools, dynamic or not from then on.  When memory
\* does not last, the pools made so far are given back and dynamic stays set.
Initialised(n, dyn) ==
  /\ pools = << >> /\ Idle
  /\ IF n > MaxPools
     THEN dynamic' = TRUE /\ UNCHANGED <<itemCount, pools, frees>>
     ELSE /\ dynamic' = dyn
          /\ pools' = Grown(n) /\ frees' = NewItems(n) /\ itemCount' = n * ItemsPerPool
  /\ UNCHANGED <<kind, usedItems, step, hand, mine>>

item_init(n, dyn) == kind = "item" /\ Initialised(n, dyn)
simple_init(n, dyn) == kind = "simple" /\ Initialised(n, dyn)

\* Called by the owner once the threads are done with their items.
CleanedUp ==
  /\ pools # << >> /\ Idle /\ \A t \in Threads : mine[t] = {}
  /\ usedItems' = {} /\ frees' = << >> /\ itemCount' = 0 /\ pools' = << >>
  /\ UNCHANGED <<kind, dynamic, step, hand, mine>>

item_cleanup == kind = "item" /\ CleanedUp
simple_cleanup == kind = "simple" /\ CleanedUp

\* Whether another pool may be added.
item_extend == kind = "item" /\ dynamic /\ Len(pools) < MaxPools
simple_extend == kind = "simple" /\ dynamic /\ Len(pools) < MaxPools

Give(t, x, after) ==
  /\ usedItems' = usedItems \cup {x}
  /\ mine' = [mine EXCEPT ![t] = @ \cup {x}]
  /\ hand' = [hand EXCEPT ![t] = x] /\ step' = [step EXCEPT ![t] = after]

\* The first free item, after an extension when there is none; null when the
\* pool is not dynamic or memory is out.
Taken(t, extend) ==
  /\ step[t] = "idle" /\ pools # << >>
  /\ \/ frees # << >> /\ frees' = Tail(frees) /\ UNCHANGED <<itemCount, pools>> /\ Give(t, Head(frees), "clear")
     \/ /\ frees = << >> /\ extend
        /\ pools' = pools \o Grown(1) /\ itemCount' = itemCount + ItemsPerPool
        /\ frees' = Tail(NewItems(1)) /\ Give(t, Head(NewItems(1)), "clear")
  /\ UNCHANGED <<kind, dynamic>>

item_alloc(t) == kind = "item" /\ Taken(t, item_extend)
simple_alloc(t) == kind = "simple" /\ Taken(t, simple_extend)

\* memset or reinit, without the mutex.
Clear(t) ==
  /\ step[t] = "clear"
  /\ step' = [step EXCEPT ![t] = "idle"]
  /\ UNCHANGED <<kind, dynamic, itemCount, pools, usedItems, frees, hand, mine>>

Return(t, x) ==
  /\ usedItems' = usedItems \ {x} /\ frees' = Append(frees, x)
  /\ mine' = [mine EXCEPT ![t] = @ \ {x}]

item_free(t) ==
  /\ kind = "item" /\ step[t] = "idle"
  /\ \E x \in mine[t] : x \in usedItems /\ Return(t, x)
  /\ UNCHANGED <<kind, dynamic, itemCount, pools, step, hand>>

\* Mutation: the item is returned first and reset afterwards.
simple_reset_Late(t) ==
  /\ kind = "simple" /\ step[t] = "idle"
  /\ \E x \in mine[t] :
       Return(t, x) /\ hand' = [hand EXCEPT ![t] = x] /\ step' = [step EXCEPT ![t] = "clear"]
  /\ UNCHANGED <<kind, dynamic, itemCount, pools>>

\* MemPoolSimple::free: reset, then the mutex and the lists.
simple_reset(t) ==
  /\ kind = "simple" /\ step[t] = "idle"
  /\ \E x \in mine[t] :
       /\ hand' = [hand EXCEPT ![t] = x] /\ step' = [step EXCEPT ![t] = "reset"]
  /\ UNCHANGED <<kind, dynamic, itemCount, pools, usedItems, frees, mine>>

simple_free(t) ==
  /\ step[t] = "reset"
  /\ hand[t] \in usedItems /\ Return(t, hand[t])
  /\ step' = [step EXCEPT ![t] = "idle"]
  /\ UNCHANGED <<kind, dynamic, itemCount, pools, hand>>

PNext ==
  \/ \E n \in 1 .. MaxPools + 1, dyn \in BOOLEAN : item_init(n, dyn) \/ simple_init(n, dyn)
  \/ item_cleanup \/ simple_cleanup
  \/ \E t \in Threads :
       \/ item_alloc(t) \/ simple_alloc(t) \/ Clear(t)
       \/ item_free(t) \/ simple_reset(t) \/ simple_free(t)
PSpec == PInit /\ [][PNext]_poolVars

-----------------------------------------------------------------------------
(* Every item is in one place: the used set and the list of free items share
   the items of the pools between them, itemCount counts them, and no item is
   with two threads or with a thread and in the free list.  The steps alloc
   and free take without the mutex touch only an item of their caller. *)
ItemsAccounted ==
  /\ itemCount = Len(pools) * ItemsPerPool
  /\ Cardinality(usedItems) + Len(frees) = itemCount
  /\ usedItems \cup ToSet(frees) = UNION {Items(p) : p \in ToSet(pools)}
  /\ \A t, u \in Threads : t # u => mine[t] \cap mine[u] = {}
  /\ UNION {mine[t] : t \in Threads} = usedItems
  /\ \A t \in Threads : step[t] # "idle" => hand[t] \in mine[t]

-----------------------------------------------------------------------------
(* The memory tracer *)

CONSTANTS
  Sizes,
  Limits,      \* values of MT_MEMORY_LIMIT
  Text,        \* VmExe of the process
  MaxBlocks    \* bound on the blocks ever made

VARIABLES
  memory_limit_, allocated_memory_, alloc_cnt_, free_cnt_,
  is_stop_, stats,         \* the statistics thread: "none", "runs", "ended"
  hooked,                  \* init_hook_funcs has run
  owned,                   \* the blocks each thread was given
  libc,                    \* the blocks libc and the kernel have handed out
  pc, at, old,             \* of each thread: step, block at hand, block a realloc replaces
  made, exited

mtVars == <<memory_limit_, allocated_memory_, alloc_cnt_, free_cnt_, is_stop_, stats, hooked,
            owned, libc, pc, at, old, made, exited>>

None == [id |-> 0, size |-> 0, by |-> "none"]
Buffer == [id |-> 0, size |-> 0, by |-> "calloc_buffer"]

Set(f, t, v) == [f EXCEPT ![t] = v]

MtInit ==
  /\ memory_limit_ \in Limits /\ allocated_memory_ = 0 /\ alloc_cnt_ = 0 /\ free_cnt_ = 0
  /\ is_stop_ = FALSE /\ stats = "none" /\ hooked = FALSE
  /\ owned = [t \in Threads |-> {}] /\ libc = {}
  /\ pc = [t \in Threads |-> "idle"] /\ at = [t \in Threads |-> None] /\ old = [t \in Threads |-> None]
  /\ made = 0 /\ exited = FALSE

\* The constructor: hooks, limit, the text segment, the statistics thread.
init ==
  /\ stats = "none" /\ ~exited
  /\ hooked' = TRUE /\ allocated_memory_' = allocated_memory_ + Text /\ stats' = "runs"
  /\ UNCHANGED <<memory_limit_, alloc_cnt_, free_cnt_, is_stop_, owned, libc, pc, at, old, made, exited>>

Works(t) == ~exited /\ pc[t] = "idle"

\* libc hands out a new block; when it has none the caller gets null.
FromLibc(t, size, by) ==
  /\ made < MaxBlocks
  /\ LET b == [id |-> made + 1, size |-> size, by |-> by]
     IN  libc' = libc \cup {b} /\ at' = Set(at, t, b)
  /\ made' = made + 1 /\ hooked' = TRUE
  /\ pc' = Set(pc, t, "add")

malloc(t, size) ==
  /\ Works(t) /\ FromLibc(t, size, "malloc")
  /\ UNCHANGED <<memory_limit_, allocated_memory_, alloc_cnt_, free_cnt_, is_stop_, stats, owned, old, exited>>

mmap(t, size) ==
  /\ Works(t) /\ FromLibc(t, size, "mmap")
  /\ UNCHANGED <<memory_limit_, allocated_memory_, alloc_cnt_, free_cnt_, is_stop_, stats, owned, old, exited>>

\* Before the hooks are there, as dlsym's own calls are: a static buffer.
calloc(t) ==
  /\ Works(t) /\ ~hooked
  /\ owned' = Set(owned, t, owned[t] \cup {Buffer})
  /\ UNCHANGED <<memory_limit_, allocated_memory_, alloc_cnt_, free_cnt_, is_stop_, stats, hooked, libc, pc, at, old, made, exited>>

\* A block that is large enough stays, as large as it was.
realloc(t, b, size) ==
  /\ Works(t) /\ b \in owned[t] /\ b.by = "malloc" /\ b.size < size
  /\ FromLibc(t, size, "malloc") /\ old' = Set(old, t, b)
  /\ UNCHANGED <<memory_limit_, allocated_memory_, alloc_cnt_, free_cnt_, is_stop_, stats, owned, exited>>

\* Mutation: the counter is read for the check and written afterwards.
alloc_Checked(t) ==
  /\ pc[t] \in {"add", "store"} /\ ~exited
  /\ IF pc[t] = "add"
     THEN /\ exited' = (allocated_memory_ + at[t].size > memory_limit_)
          /\ pc' = Set(pc, t, "store") /\ UNCHANGED allocated_memory_
     ELSE /\ allocated_memory_' = allocated_memory_ + at[t].size
          /\ pc' = Set(pc, t, "count") /\ UNCHANGED exited
  /\ UNCHANGED <<memory_limit_, alloc_cnt_, free_cnt_, is_stop_, stats, hooked, owned, libc, at, old, made>>

\* fetch_add and the check of its result.
alloc(t) ==
  /\ pc[t] = "add" /\ ~exited
  /\ allocated_memory_' = allocated_memory_ + at[t].size
  /\ exited' = (allocated_memory_ + at[t].size > memory_limit_)
  /\ pc' = Set(pc, t, "count")
  /\ UNCHANGED <<memory_limit_, alloc_cnt_, free_cnt_, is_stop_, stats, hooked, owned, libc, at, old, made>>

\* The second counter, and back to the caller; realloc goes on to free.
Given(t) ==
  /\ pc[t] = "count" /\ ~exited
  /\ alloc_cnt_' = alloc_cnt_ + 1
  /\ owned' = Set(owned, t, (owned[t] \cup {at[t]}) \ {old[t]})
  /\ IF old[t] = None THEN pc' = Set(pc, t, "idle") /\ at' = Set(at, t, None)
     ELSE pc' = Set(pc, t, "subtract") /\ at' = Set(at, t, old[t])
  /\ old' = Set(old, t, None)
  /\ UNCHANGED <<memory_limit_, allocated_memory_, free_cnt_, is_stop_, stats, hooked, libc, made, exited>>

free(t, b) ==
  /\ Works(t) /\ b \in owned[t] /\ b.by # "mmap"
  /\ owned' = Set(owned, t, owned[t] \ {b})
  /\ IF b = Buffer THEN UNCHANGED <<pc, at>>
     ELSE pc' = Set(pc, t, "subtract") /\ at' = Set(at, t, b)
  /\ hooked' = TRUE
  /\ UNCHANGED <<memory_limit_, allocated_memory_, alloc_cnt_, free_cnt_, is_stop_, stats, libc, old, made, exited>>

\* The kernel first, the counters afterwards.
munmap(t, b) ==
  /\ Works(t) /\ b \in owned[t] /\ b.by = "mmap"
  /\ owned' = Set(owned, t, owned[t] \ {b}) /\ libc' = libc \ {b}
  /\ pc' = Set(pc, t, "subtract") /\ at' = Set(at, t, b)
  /\ UNCHANGED <<memory_limit_, allocated_memory_, alloc_cnt_, free_cnt_, is_stop_, stats, hooked, old, made, exited>>

\* MemTracer::free, then orig_free.
Uncounted(t) ==
  /\ pc[t] = "subtract" /\ ~exited
  /\ allocated_memory_' = allocated_memory_ - at[t].size
  /\ pc' = Set(pc, t, "uncount")
  /\ UNCHANGED <<memory_limit_, alloc_cnt_, free_cnt_, is_stop_, stats, hooked, owned, libc, at, old, made, exited>>

Freed(t) ==
  /\ pc[t] = "uncount" /\ ~exited
  /\ free_cnt_' = free_cnt_ + 1 /\ libc' = libc \ {at[t]}
  /\ pc' = Set(pc, t, "idle") /\ at' = Set(at, t, None)
  /\ UNCHANGED <<memory_limit_, allocated_memory_, alloc_cnt_, is_stop_, stats, hooked, owned, old, made, exited>>

\* The destructor: the statistics thread sees is_stop_ and is joined.
stop ==
  /\ stats = "runs" /\ ~is_stop_ /\ is_stop_' = TRUE
  /\ UNCHANGED <<memory_limit_, allocated_memory_, alloc_cnt_, free_cnt_, stats, hooked, owned, libc, pc, at, old, made, exited>>

stat ==
  /\ stats = "runs" /\ is_stop_ /\ stats' = "ended"
  /\ UNCHANGED <<memory_limit_, allocated_memory_, alloc_cnt_, free_cnt_, is_stop_, hooked, owned, libc, pc, at, old, made, exited>>

MtNext ==
  \/ init \/ stop \/ stat
  \/ \E t \in Threads :
       \/ \E size \in Sizes : malloc(t, size) \/ mmap(t, size)
       \/ calloc(t) \/ alloc(t) \/ Given(t) \/ Uncounted(t) \/ Freed(t)
       \/ \E b \in owned[t] : free(t, b) \/ munmap(t, b) \/ \E size \in Sizes : realloc(t, b, size)
MtSpec == MtInit /\ [][MtNext]_mtVars

-----------------------------------------------------------------------------
SizeOf(B) == MapThenSumSet(LAMBDA b : b.size, B)
Owned == UNION {owned[t] : t \in Threads} \ {Buffer}

(* What the program holds never passes the limit, whatever the threads ask
   for at once, and a quiet moment finds the counters exact: the text and the
   blocks in use, each once, with nothing lost in libc. *)
LimitHolds ==
  /\ ~exited => SizeOf(Owned) <= memory_limit_
  /\ ~exited /\ (\A t \in Threads : pc[t] = "idle") =>
       /\ allocated_memory_ = SizeOf(Owned) + (IF stats = "none" THEN 0 ELSE Text)
       /\ alloc_cnt_ - free_cnt_ = Cardinality(Owned)
       /\ libc = Owned
=============================================================================
