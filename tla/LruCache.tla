------------------------------ MODULE LruCache -----------------------------
(***************************************************************************)
(* common::LruCache: nodes linked by prev_ and next_ between lru_front_    *)
(* and lru_tail_, found by key through the set searcher_.  It has no       *)
(* capacity.  "node" holds the live nodes; Nil is the null pointer.        *)
(***************************************************************************)
EXTENDS Integers, Sequences, SequencesExt

CONSTANTS Keys, Data, Nil

VARIABLES
  node, front, tail, searcher,
  lruCall         \* the last call, with what a get answered

lruVars == <<node, front, tail, searcher, lruCall>>

Called(op, k, v) == lruCall' = [op |-> op, key |-> k, value |-> v]

Ids == 1 .. Cardinality(Keys)
FindNode(k) == {n \in searcher : node[n].key = k}

LcInit ==
  /\ node = <<>> /\ front = Nil /\ tail = Nil /\ searcher = {}
  /\ lruCall = [op |-> "none", key |-> "none", value |-> "none"]

\* The node's fields after an assignment through a pointer, Nil included.
SetNext(s, n, x) == IF n = Nil THEN s ELSE [s EXCEPT ![n].next = x]
SetPrev(s, n, x) == IF n = Nil THEN s ELSE [s EXCEPT ![n].prev = x]

\* Links n, unlinked, in front of the list in s.
AtFront(s, n) == SetPrev([s EXCEPT ![n].prev = Nil, ![n].next = front], front, n)

lru_touch_KeepsTail(s, n) ==
  IF s[n].prev = Nil THEN node' = s /\ UNCHANGED <<front, tail>>
  ELSE /\ node' = AtFront(SetPrev(SetNext(s, s[n].prev, s[n].next), s[n].next, s[n].prev), n)
       /\ front' = n
       /\ UNCHANGED tail

lru_touch_Never(s, n) == node' = s /\ UNCHANGED <<front, tail>>

lru_touch(s, n) ==
  IF s[n].prev = Nil THEN node' = s /\ UNCHANGED <<front, tail>>
  ELSE /\ node' = AtFront(SetPrev(SetNext(s, s[n].prev, s[n].next), s[n].next, s[n].prev), n)
       /\ front' = n
       /\ tail' = IF s[n].next = Nil THEN s[n].prev ELSE tail

lru_push(s, n) ==
  /\ tail' = IF tail = Nil THEN n ELSE tail
  /\ node' = AtFront(s, n)
  /\ front' = n
  /\ searcher' = searcher \cup {n}

lru_remove(n) ==
  LET s == SetPrev(SetNext(node, node[n].prev, node[n].next), node[n].next, node[n].prev)
  IN  /\ node' = [x \in DOMAIN s \ {n} |-> s[x]]
      /\ front' = IF front = n THEN node[n].next ELSE front
      /\ tail' = IF tail = n THEN node[n].prev ELSE tail
      /\ searcher' = searcher \ {n}

lget(k) ==
  \/ \E n \in FindNode(k) :
       lru_touch(node, n) /\ Called("get", k, node[n].value) /\ UNCHANGED searcher
  \/ FindNode(k) = {} /\ Called("get", k, "none") /\ UNCHANGED <<node, front, tail, searcher>>

lput(k, v) ==
  /\ Called("put", k, v)
  /\ \/ \E n \in FindNode(k) : lru_touch([node EXCEPT ![n].value = v], n) /\ UNCHANGED searcher
     \/ /\ FindNode(k) = {}
        /\ LET n == CHOOSE x \in Ids : x \notin DOMAIN node
               fresh == [key |-> k, value |-> v, prev |-> Nil, next |-> Nil]
           IN  lru_push([x \in DOMAIN node \cup {n} |-> IF x = n THEN fresh ELSE node[x]], n)

remove(k) ==
  /\ Called("remove", k, "none")
  /\ \/ \E n \in FindNode(k) : lru_remove(n)
     \/ FindNode(k) = {} /\ UNCHANGED <<node, front, tail, searcher>>

destroy ==
  /\ Called("clear", "none", "none")
  /\ node' = <<>> /\ searcher' = {} /\ front' = Nil /\ tail' = Nil

LcNext == \/ \E k \in Keys : lget(k) \/ remove(k) \/ \E v \in Data : lput(k, v)
          \/ destroy
LcSpec == LcInit /\ [][LcNext]_lruVars

-----------------------------------------------------------------------------
\* What the loops visit: from lru_front_ along next_, from lru_tail_ along
\* prev_.  A walk that meets no end is cut after one node too many.
RECURSIVE foreach(_, _)
foreach(n, fuel) ==
  IF n = Nil \/ fuel = 0 THEN <<>>
  ELSE <<[key |-> node[n].key, value |-> node[n].value]>> \o foreach(node[n].next, fuel - 1)

RECURSIVE foreach_reverse(_, _)
foreach_reverse(n, fuel) ==
  IF n = Nil \/ fuel = 0 THEN <<>>
  ELSE <<[key |-> node[n].key, value |-> node[n].value]>> \o foreach_reverse(node[n].prev, fuel - 1)

Fuel == Cardinality(DOMAIN node) + 1

Promised == INSTANCE Lru WITH recent <- foreach(front, Fuel), bound <- Cardinality(Keys), call <- lruCall

(* LruCache is a least-recently-used cache without bound: foreach visits the
   latest value of every key put and not removed, in the order of last use,
   whatever get, put and remove did to the links. *)
LruImplements == Promised!LSpec

(* foreach_reverse visits what foreach visits, backwards, and both visit
   exactly the nodes the searcher finds: no node is lost from one of the
   lists, linked twice, or left behind in a cycle. *)
WalksAgree ==
  /\ foreach_reverse(tail, Fuel) = Reverse(foreach(front, Fuel))
  /\ Len(foreach(front, Fuel)) = Cardinality(searcher)
  /\ DOMAIN node = searcher
=============================================================================
