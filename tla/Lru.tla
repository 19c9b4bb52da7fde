-------------------------------- MODULE Lru --------------------------------
(***************************************************************************)
(* What a least-recently-used cache promises: the entries in the order of  *)
(* their last use, newest first, one per key.  A put into a full cache     *)
(* gives up the oldest entry and no other.  KvCache and LruCache are shown *)
(* to implement it.                                                        *)
(***************************************************************************)
EXTENDS Naturals, Sequences

CONSTANTS Keys, Data

VARIABLES
  recent,         \* the entries, most recently used first
  bound,          \* most entries held, at least one
  call            \* the last call, with what a get answered

Others(k) == SelectSeq(recent, LAMBDA e : e.key # k)
Newest(s) == SubSeq(s, 1, IF Len(s) <= bound THEN Len(s) ELSE bound)
Held == {recent[i].key : i \in DOMAIN recent}
EntryOf(k) == CHOOSE e \in {recent[i] : i \in DOMAIN recent} : e.key = k

Called(op, k, v) == [op |-> op, key |-> k, value |-> v]

LInit == recent = <<>> /\ call = Called("none", "none", "none")

Get(k) ==
  \/ /\ k \in Held
     /\ recent' = <<EntryOf(k)>> \o Others(k)
     /\ call' = Called("get", k, EntryOf(k).value)
  \/ /\ k \notin Held
     /\ recent' = recent
     /\ call' = Called("get", k, "none")

Put(k, v) ==
  /\ recent' = Newest(<<[key |-> k, value |-> v]>> \o Others(k))
  /\ call' = Called("put", k, v)

Remove(k) == recent' = Others(k) /\ call' = Called("remove", k, "none")
Clear == recent' = <<>> /\ call' = Called("clear", "none", "none")

LNext == \/ \E k \in Keys : Get(k) \/ Remove(k) \/ \E v \in Data : Put(k, v)
         \/ Clear
LSpec == LInit /\ [][LNext /\ bound' = bound]_<<recent, bound, call>>
=============================================================================
