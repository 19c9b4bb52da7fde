------------------------------ MODULE KvCache ------------------------------
(***************************************************************************)
(* ObKVCache, the cache the micro block cache is an instance of.  Two      *)
(* containers describe the same entries: map_ finds a key, and each of its *)
(* entries keeps an iterator into lru_list_.  A list node has an identity  *)
(* of its own: erasing through an iterator whose node is gone is undefined *)
(* and is recorded in "dangling".                                          *)
(***************************************************************************)
EXTENDS Integers, Sequences, FiniteSetsExt

CONSTANTS Keys, Data, Capacities

VARIABLES
  capacity, size, map, list,
  dangling,       \* an iterator was used after its node was erased
  kvCall          \* the last call, with what a get answered

kvVars == <<capacity, size, map, list, dangling, kvCall>>

Called(op, k, v) == kvCall' = [op |-> op, key |-> k, value |-> v]

Find(k) == k \in DOMAIN map
NodeIds == {list[i].node : i \in DOMAIN list}
NewNode == Min((1 .. Len(list) + 1) \ NodeIds)
EraseNode(l, n) == SelectSeq(l, LAMBDA x : x.node # n)
PushFront(l, k, n) == <<[key |-> k, node |-> n]>> \o l

\* Default-constructed and given its capacity by init(), before any use.
KInit ==
  /\ capacity \in Capacities /\ size = 0 /\ map = <<>> /\ list = <<>>
  /\ dangling = FALSE /\ kvCall = [op |-> "none", key |-> "none", value |-> "none"]

\* The entry of a key that is present goes to the front, with the value v.
MoveToFront(k, v) ==
  /\ list' = PushFront(EraseNode(list, map[k].iter), k, NewNode)
  /\ map' = [map EXCEPT ![k] = [value |-> v, iter |-> NewNode]]
  /\ dangling' = (dangling \/ map[k].iter \notin NodeIds)
  /\ UNCHANGED <<capacity, size>>

get_Untouched(k) ==
  /\ Called("get", k, IF Find(k) THEN map[k].value ELSE "none")
  /\ UNCHANGED <<capacity, size, map, list, dangling>>

get(k) ==
  \/ Find(k) /\ MoveToFront(k, map[k].value) /\ Called("get", k, map[k].value)
  \/ ~Find(k) /\ Called("get", k, "none") /\ UNCHANGED <<capacity, size, map, list, dangling>>

\* How many of the oldest entries the eviction loop of put gives up.
Evicted_Late == IF size <= capacity THEN 0 ELSE Min({Len(list), size - capacity})
Evicted == IF size < capacity THEN 0 ELSE Min({Len(list), size - capacity + 1})

PutNew(k, v) ==
  LET kept == SubSeq(list, 1, Len(list) - Evicted)
      gone == {list[i].key : i \in Len(list) - Evicted + 1 .. Len(list)}
  IN  /\ list' = PushFront(kept, k, NewNode)
      /\ map' = [x \in (DOMAIN map \ gone) \cup {k} |->
                   IF x = k THEN [value |-> v, iter |-> NewNode] ELSE map[x]]
      /\ size' = size - Evicted + 1
      /\ UNCHANGED <<capacity, dangling>>

put(k, v) ==
  /\ Called("put", k, v)
  /\ \/ Find(k) /\ MoveToFront(k, v)
     \/ ~Find(k) /\ PutNew(k, v)

erase(k) ==
  /\ Called("remove", k, "none")
  /\ \/ /\ Find(k)
        /\ list' = EraseNode(list, map[k].iter)
        /\ dangling' = (dangling \/ map[k].iter \notin NodeIds)
        /\ map' = [x \in DOMAIN map \ {k} |-> map[x]]
        /\ size' = size - 1
     \/ ~Find(k) /\ UNCHANGED <<list, dangling, map, size>>
  /\ UNCHANGED capacity

clear ==
  /\ Called("clear", "none", "none")
  /\ map' = <<>> /\ list' = <<>> /\ size' = 0 /\ UNCHANGED <<capacity, dangling>>

KNext == \/ \E k \in Keys : get(k) \/ erase(k) \/ \E v \in Data : put(k, v)
         \/ clear
KSpec == KInit /\ [][KNext]_kvVars

-----------------------------------------------------------------------------
\* A list key without a map entry shows as no value.
KvEntry(x) == [key |-> x.key, value |-> IF Find(x.key) THEN map[x.key].value ELSE "none"]

Ideal == INSTANCE Lru WITH recent <- [i \in DOMAIN list |-> KvEntry(list[i])],
                           bound <- Max({capacity, 1}), call <- kvCall

(* ObKVCache is a least-recently-used cache of max(capacity_, 1) entries:
   after any sequence of get, put, erase and clear, map_ and lru_list_
   together hold the latest value of the most recently used keys, and the
   eviction loop of put gives up the oldest key only. *)
KvImplements == Ideal!LSpec

(* The two containers and the counter never part: size_ is the number of
   entries of both, every entry's iterator points at the list node of its own
   key, and no list operation goes through an iterator that is gone. *)
KvConsistent ==
  /\ ~dangling
  /\ size = Len(list) /\ size <= Max({capacity, 1})
  /\ DOMAIN map = {list[i].key : i \in DOMAIN list}
  /\ \A i \in DOMAIN list : map[list[i].key].iter = list[i].node
=============================================================================
